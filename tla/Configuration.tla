---------------------------- MODULE Configuration ----------------------------
(***************************************************************************)
(* Startup validation (config-validation.ts) against the code that reads   *)
(* the same variables afterwards, each in its own way: network.config.ts   *)
(* with blockchain.service.ts, database.config.ts, fees.config.ts,         *)
(* webhooks.config.ts, security.config.ts and blockchain.config.ts.        *)
(*                                                                         *)
(* An environment gives each variable a text: what it says, and whether    *)
(* spaces surround it ("unset" with spaces is a text of spaces alone).     *)
(* Numbers but the chain id are in thousandths.                            *)
(***************************************************************************)
EXTENDS Integers, FiniteSets

Thousand == 1000
WeiPerGwei == 10                 \* 10^9 in the code
MIN_MAINNET_CONFIRMATIONS == 6
NON_MAINNET_CHAIN_IDS == {31337, 1337, 71234}

Finite(n) == [kind |-> "finite", n |-> n]
NoNumber == [kind |-> "unset", n |-> 0]
Blank == [kind |-> "blank", n |-> 0]
NaN == [kind |-> "nan", n |-> 0]
Infinite == [kind |-> "infinite", n |-> 0]

Missing(t) == t.kind \in {"unset", "blank"}

----------------------------------------------------------------------------
(* The readers                                                             *)

NETWORK_PROFILES ==
    [local   |-> [confirmations |-> 1, maxFeePerGasGwei |-> 0],
     testnet |-> [confirmations |-> 1, maxFeePerGasGwei |-> 5],
     mainnet |-> [confirmations |-> 12, maxFeePerGasGwei |-> 50]]

\* Names every object has: `name in NETWORK_PROFILES` is true for them too.
InheritedNames == {"constructor"}

numberFromEnv(t, fallback) ==
    IF t.kind = "finite" /\ t.n >= 0 THEN t.n ELSE fallback * Thousand

\* resolveNetworkProfile(): the name is trimmed, and nothing but spaces is no
\* profile.
Resolves(env) ==
    \/ env["NETWORK_PROFILE"].v \in DOMAIN NETWORK_PROFILES \cup InheritedNames
    \/ env["NETWORK_PROFILE"].v = "unset" /\ ~env["NETWORK_PROFILE"].padded

ProfileName(env) ==
    IF env["NETWORK_PROFILE"].v = "unset" THEN "local" ELSE env["NETWORK_PROFILE"].v

confirmations(env) ==
    numberFromEnv(env["TX_CONFIRMATIONS"].v, NETWORK_PROFILES[ProfileName(env)].confirmations)
      \div Thousand

\* BlockchainService: the cap in wei, rounded; 0 is no cap.
maxFeePerGasWei(env) ==
    LET gwei == numberFromEnv(env["MAX_FEE_PER_GAS_GWEI"].v,
                              NETWORK_PROFILES[ProfileName(env)].maxFeePerGasGwei)
    IN  (gwei * WeiPerGwei + Thousand \div 2) \div Thousand

\* shouldSynchronize(): the name of the profile is not trimmed.
shouldSynchronize(env) ==
    IF env["DATABASE_SYNCHRONIZE"].v # "unset" THEN env["DATABASE_SYNCHRONIZE"].v = "true"
    ELSE env["NETWORK_PROFILE"].padded \/ env["NETWORK_PROFILE"].v # "mainnet"

\* webhooks.config.ts: nothing is trimmed, and spaces alone are set.
allowHttp(env) ==
    IF env["WEBHOOK_ALLOW_HTTP"].v # "unset" \/ env["WEBHOOK_ALLOW_HTTP"].padded
    THEN env["WEBHOOK_ALLOW_HTTP"].v = "true" /\ ~env["WEBHOOK_ALLOW_HTTP"].padded
    ELSE env["NODE_ENV"].padded \/ env["NODE_ENV"].v # "production"

\* security.config.ts
hsts(env) == env["HSTS_ENABLED"].v # "false" \/ env["HSTS_ENABLED"].padded

\* The texts that stand for a value the code falls back to.
EffectiveKey(env) ==
    IF env["BLOCKCHAIN_PRIVATE_KEY"].v = "unset" THEN "dev" ELSE env["BLOCKCHAIN_PRIVATE_KEY"].v

EffectiveSecret(env, name) == IF env[name].v = "unset" THEN "default" ELSE env[name].v

EffectivePassword(env) ==
    IF env["DATABASE_PASSWORD"].v = "unset" THEN "default" ELSE env["DATABASE_PASSWORD"].v

EffectiveRpc(env) ==
    IF env["BLOCKCHAIN_RPC_URL"].v = "unset" THEN "http" ELSE env["BLOCKCHAIN_RPC_URL"].v

\* fees.config.ts: parseInt(), which stops at the first character that is no
\* digit; the validation uses Number().
feesChainId(env) == env["CHAIN_ID"].v.int

----------------------------------------------------------------------------
(* The validation                                                          *)

AtLeast(t, n) == t.kind = "infinite" \/ (t.kind = "finite" /\ t.n >= n)

UnsafeChain(env) ==
    LET id == env["CHAIN_ID"].v.number
    IN  id.kind # "finite" \/ id.n <= 0 \/ id.n \in NON_MAINNET_CHAIN_IDS

\* Mutant: a cap of zero is accepted.
UnsafeLimitsZero(env) ==
    \/ LET t == env["TX_CONFIRMATIONS"].v
       IN  ~Missing(t) /\ ~AtLeast(t, MIN_MAINNET_CONFIRMATIONS * Thousand)
    \/ LET t == env["MAX_FEE_PER_GAS_GWEI"].v IN ~Missing(t) /\ ~AtLeast(t, 0)

UnsafeLimits(env) ==
    \/ LET t == env["TX_CONFIRMATIONS"].v
       IN  ~Missing(t) /\ ~AtLeast(t, MIN_MAINNET_CONFIRMATIONS * Thousand)
    \/ LET t == env["MAX_FEE_PER_GAS_GWEI"].v IN ~Missing(t) /\ ~AtLeast(t, 1)

UnsafeSecrets(env) ==
    \/ \E name \in {"JWT_SECRET", "CSRF_SECRET"} : env[name].v \in {"unset", "default", "short"}
    \/ env["JWT_SECRET"].v = env["CSRF_SECRET"].v
    \/ env["DATABASE_PASSWORD"].v \in {"unset", "default"}

findUnsafeMainnetSettings(env) ==
    \/ env["NODE_ENV"].v # "production"
    \/ UnsafeChain(env) \/ UnsafeLimits(env) \/ UnsafeSecrets(env)
    \/ env["BLOCKCHAIN_RPC_URL"].v # "remote"
    \/ env["BLOCKCHAIN_PRIVATE_KEY"].v # "own"
    \/ env["ESCROW_HUB_ADDRESS"].v # "deployed"
    \/ env["DATABASE_SYNCHRONIZE"].v = "true" /\ env["MAINNET_ALLOW_SCHEMA_SYNC"].v # "true"
    \/ env["CORS_ORIGINS"].v # "listed"
    \/ env["HSTS_ENABLED"].v = "false"
    \/ env["WEBHOOK_ALLOW_HTTP"].v = "true"

\* validateConfig(): the process starts.
validateConfig(env) ==
    /\ Resolves(env)
    /\ ProfileName(env) = "mainnet" => ~findUnsafeMainnetSettings(env)

----------------------------------------------------------------------------
\* The validation trims a text and reads its number; the code that uses the
\* text does not always do either.  The three texts it accepts on mainnet and
\* that are unsafe in use: a fee cap of less than half a wei, which is rounded
\* to no cap at all; a profile in spaces, which the database takes for another
\* profile; and an environment in spaces, which the webhooks take for no
\* production.
CapRoundedAway(env) ==
    LET t == env["MAX_FEE_PER_GAS_GWEI"].v
    IN  t.kind = "finite" /\ t.n > 0 /\ 2 * t.n * WeiPerGwei < Thousand

ProfilePadded(env) == env["NETWORK_PROFILE"].padded /\ env["DATABASE_SYNCHRONIZE"].v = "unset"

EnvironmentPadded(env) == env["NODE_ENV"].padded /\ env["WEBHOOK_ALLOW_HTTP"].v = "unset"

\* Whatever texts a process starts with on mainnet, and however differently
\* its readers take them: it waits for enough blocks, has a signer, a node,
\* secrets and a password of its own and strict transport; and those three
\* texts are the only ones that leave it without a fee cap, let it rewrite its
\* schema unasked or deliver over plain http.
UnsafeOnlyByTextFor(env) ==
    validateConfig(env) /\ ProfileName(env) = "mainnet" =>
      /\ confirmations(env) >= MIN_MAINNET_CONFIRMATIONS
      /\ maxFeePerGasWei(env) > 0 \/ CapRoundedAway(env)
      /\ EffectiveKey(env) = "own" /\ EffectiveRpc(env) = "remote"
      /\ \A name \in {"JWT_SECRET", "CSRF_SECRET"} :
           EffectiveSecret(env, name) \notin {"default", "short"}
      /\ EffectivePassword(env) = "own"
      /\ shouldSynchronize(env) =>
           env["MAINNET_ALLOW_SCHEMA_SYNC"].v = "true" \/ ProfilePadded(env)
      /\ allowHttp(env) => EnvironmentPadded(env)
      /\ hsts(env)

\* What the documents say of the validation, without those exceptions: on
\* mainnet a process has a fee cap, books its fees under the chain that was
\* checked, and neither rewrites its schema unasked nor delivers over plain
\* http.  The code does not keep it.
MainnetIsSafeFor(env) ==
    validateConfig(env) /\ ProfileName(env) = "mainnet" =>
      /\ maxFeePerGasWei(env) > 0
      /\ feesChainId(env) = env["CHAIN_ID"].v.number.n
      /\ shouldSynchronize(env) => env["MAINNET_ALLOW_SCHEMA_SYNC"].v = "true"
      /\ ~allowHttp(env)
=============================================================================
