---------------------------- MODULE MCAlgorithms ----------------------------
(***************************************************************************)
(* Model-checking instance of the pure parts: every bounded input of every *)
(* algorithm is an initial state, and nothing moves.                       *)
(***************************************************************************)
EXTENDS Merkle, CalldataPacking, Amounts, FeePolicy, Configuration, TLC

CONSTANTS
    LeafCount,   \* receipt hashes, one of which is in no batch
    MaxLeaves    \* receipts of a tree

VARIABLES algorithm, input

vars == <<algorithm, input>>

UpTo(S, n) == UNION {[1..k -> S] : k \in 0..n}

----------------------------------------------------------------------------
MCLeaves == UpTo({LeafHash(i) : i \in 1..(LeafCount - 1)}, MaxLeaves)

Spelled(id, spelling) == [id |-> id, spelling |-> spelling]

MCAddresses ==
    {Spelled(1, "lower"), Spelled(1, "mixed"), Spelled(2, "lower"), Spelled(3, "lower"), Malformed}

MCReceipts == [hash: {"h1"}, payer: MCAddresses, payee: MCAddresses,
               amount: {-1, 0, 1, 10, 11, 12, 110, 143, 144}]

\* Every batch of up to two receipts, and one of three.
MCBatches ==
    UpTo(MCReceipts, 1)
      \cup [1..2 -> {r \in MCReceipts : r.amount \in {1, 110, 143} /\ r.payer # Malformed}]
      \cup {[k \in 1..3 |-> [hash |-> "h1", payer |-> Spelled(1, "lower"),
                             payee |-> Spelled(2, "mixed"), amount |-> k]]}

MCTexts ==
    [negative: BOOLEAN, whole: UpTo(0..(Radix - 1), 2) \ {<<>>}, fraction: UpTo(0..(Radix - 1), 3),
     exponent: {NoExponent} \cup -3..3]

MCRawPolicies ==
    [bps: {Unset, -1, 0, 1, 3, MAX_FEE_BPS, MAX_FEE_BPS + 1}, minFee: {Unset, 0, 2, 5},
     maxFee: {Unset, 1, 3, 9}]

MCAmounts == 0..(3 * BPS_DENOMINATOR)

----------------------------------------------------------------------------
(* Environments that differ in up to two variables from a good one         *)

Numbers(extra) ==
    {NoNumber, Blank, NaN, Infinite, Finite(-Thousand), Finite(0)} \cup extra

Chain(number, int) == [number |-> number, int |-> int]

Values ==
    [NETWORK_PROFILE |-> {"unset", "local", "mainnet", "mainet"} \cup InheritedNames,
     TX_CONFIRMATIONS |-> Numbers({Finite(5900), Finite(6000), Finite(6500)}),
     MAX_FEE_PER_GAS_GWEI |-> Numbers({Finite(1), Finite(49), Finite(50), Finite(3000)}),
     CHAIN_ID |-> {Chain(NoNumber, 31337), Chain(NaN, 0), Chain(Finite(71234), 71234),
                   Chain(Finite(8800), 8800), Chain(Finite(8800), 0)},
     NODE_ENV |-> {"unset", "production"},
     BLOCKCHAIN_RPC_URL |-> {"unset", "http", "local", "remote"},
     BLOCKCHAIN_PRIVATE_KEY |-> {"unset", "short", "dev", "own"},
     ESCROW_HUB_ADDRESS |-> {"unset", "zero", "deployed"},
     JWT_SECRET |-> {"unset", "default", "short", "long1", "long2"},
     CSRF_SECRET |-> {"unset", "default", "short", "long1", "long2"},
     DATABASE_PASSWORD |-> {"unset", "default", "own"},
     DATABASE_SYNCHRONIZE |-> {"unset", "true", "false"},
     MAINNET_ALLOW_SCHEMA_SYNC |-> {"unset", "true"},
     CORS_ORIGINS |-> {"unset", "star", "listed"},
     HSTS_ENABLED |-> {"unset", "true", "false"},
     WEBHOOK_ALLOW_HTTP |-> {"unset", "true", "false"}]

Said(v) == [v |-> v, padded |-> FALSE]

Good ==
    [NETWORK_PROFILE |-> Said("mainnet"), TX_CONFIRMATIONS |-> Said(NoNumber),
     MAX_FEE_PER_GAS_GWEI |-> Said(NoNumber), CHAIN_ID |-> Said(Chain(Finite(8800), 8800)),
     NODE_ENV |-> Said("production"), BLOCKCHAIN_RPC_URL |-> Said("remote"),
     BLOCKCHAIN_PRIVATE_KEY |-> Said("own"), ESCROW_HUB_ADDRESS |-> Said("deployed"),
     JWT_SECRET |-> Said("long1"), CSRF_SECRET |-> Said("long2"),
     DATABASE_PASSWORD |-> Said("own"), DATABASE_SYNCHRONIZE |-> Said("unset"),
     MAINNET_ALLOW_SCHEMA_SYNC |-> Said("unset"), CORS_ORIGINS |-> Said("listed"),
     HSTS_ENABLED |-> Said("unset"), WEBHOOK_ALLOW_HTTP |-> Said("unset")]

----------------------------------------------------------------------------
InitMerkle == algorithm = "merkle" /\ input \in MCLeaves

InitPacking == algorithm = "packing" /\ input \in MCBatches

InitAmounts == algorithm = "amounts" /\ input \in MCTexts

InitFees ==
    /\ algorithm = "fees"
    /\ \E default, override \in MCRawPolicies :
         input = [default |-> default, overrides |-> [chain \in {7} |-> override]]

InitConfig ==
    /\ algorithm = "config"
    /\ \E a, b \in DOMAIN Values : \E x \in Values[a], y \in Values[b], p, q \in BOOLEAN :
         input = [Good EXCEPT ![a] = [v |-> x, padded |-> p], ![b] = [v |-> y, padded |-> q]]

Init == InitMerkle \/ InitPacking \/ InitAmounts \/ InitFees \/ InitConfig

Next == UNCHANGED vars

Spec == Init /\ [][Next]_vars

----------------------------------------------------------------------------
\* Merkle: every receipt of a batch has a proof, and no other receipt has one.
ProofsVerify ==
    algorithm = "merkle" => ProofsVerifyFor(input, {LeafHash(i) : i \in 1..LeafCount})

\* Calldata: what is packed comes out again, and a blob cut short or with
\* cells behind its end does not.
RoundTrip == algorithm = "packing" => RoundTripFor(input)

\* Amounts are read exactly or refused, and print as they can be read.
MoneyExact == algorithm = "amounts" => AmountsExactFor(input)

\* Fees stay within the payment and are fair to larger payments.
FeesFit ==
    algorithm = "fees" => FeesFitFor(input.default, input.overrides, {7, 8}, MCAmounts)

\* Configuration: a process that starts on mainnet is safe in what it uses,
\* but for three texts the validation reads otherwise than their users.
UnsafeOnlyByText == algorithm = "config" => UnsafeOnlyByTextFor(input)

\* Configuration, as documented: safe whatever the texts.
MainnetIsSafe == algorithm = "config" => MainnetIsSafeFor(input)
=============================================================================
