-------------------------- MODULE AlgorithmProofs --------------------------
(***************************************************************************)
(* What the pure parts compute, for inputs of every size: the fee of a     *)
(* payment, the startup validation, the Merkle tree with its proofs, and   *)
(* the amounts read and printed.                                           *)
(***************************************************************************)
EXTENDS MCAlgorithms, WellFoundedInduction, TLAPS

----------------------------------------------------------------------------
(* Fees                                                                    *)

RawPolicy == [bps: Int \cup {Unset}, minFee: Int \cup {Unset}, maxFee: Int \cup {Unset}]

Policy == [bps: 0..MAX_FEE_BPS, minFee: Nat, maxFee: Nat \cup {Unset}]

\* A rate of at most one makes the rounded fee grow by nothing or by one wei
\* with each wei of the payment.
LEMMA RateGrows ==
    ASSUME NEW a \in Nat, NEW b \in Nat, NEW D \in Nat \ {0}, b <= D
    PROVE  /\ (a * b) \div D \in Nat /\ ((a + 1) * b) \div D \in Nat
           /\ (a * b) \div D <= ((a + 1) * b) \div D
           /\ ((a + 1) * b) \div D <= (a * b) \div D + 1
<1>1. PICK x \in Nat : x = a * b
  OBVIOUS
<1>2. (a + 1) * b = x + b
  BY <1>1
<1>3. PICK q \in Nat : q = x \div D /\ q * D <= x /\ x < q * D + D
  OBVIOUS
<1>4. PICK r \in Nat : r = (x + b) \div D /\ r * D <= x + b /\ x + b < r * D + D
  OBVIOUS
<1>5. q <= r
  <2>1. ASSUME r + 1 <= q PROVE FALSE
    <3>1. (r + 1) * D <= q * D
      BY <2>1
    <3>2. QED
      BY <1>3, <1>4, <3>1
  <2>2. QED
    BY <2>1
<1>6. r <= q + 1
  <2>1. ASSUME q + 2 <= r PROVE FALSE
    <3>1. (q + 2) * D <= r * D
      BY <2>1
    <3>2. QED
      BY <1>3, <1>4, <3>1
  <2>2. QED
    BY <2>1
<1>7. QED
  BY <1>1, <1>2, <1>3, <1>4, <1>5, <1>6

\* computeFee() for one policy and two payments that differ by one wei.
LEMMA FeeFair ==
    ASSUME NEW p \in Policy, NEW a \in Nat, p.maxFee # Unset => p.maxFee >= p.minFee
    PROVE  /\ computeFee(a, p) \in 0..a
           /\ computeFee(a, p) <= computeFee(a + 1, p)
           /\ computeFee(a + 1, p) <= computeFee(a, p) + 1
<1>1. /\ BPS_DENOMINATOR \in Nat \ {0} /\ p.bps \in Nat /\ p.bps <= BPS_DENOMINATOR
      /\ p.minFee \in Nat /\ (p.maxFee # Unset => p.maxFee \in Nat)
  BY FeePolicyAssumption DEF Policy
<1>2. PICK q, r \in Nat : /\ q = (a * p.bps) \div BPS_DENOMINATOR
                          /\ r = ((a + 1) * p.bps) \div BPS_DENOMINATOR
                          /\ q <= r /\ r <= q + 1
  BY <1>1, RateGrows
<1> DEFINE Floored(x) == IF x < p.minFee THEN p.minFee ELSE x
           Capped(x) == IF p.maxFee # Unset /\ Floored(x) > p.maxFee THEN p.maxFee
                        ELSE Floored(x)
<1>3. Capped(q) \in Nat /\ Capped(r) \in Nat /\ Capped(q) <= Capped(r) /\ Capped(r) <= Capped(q) + 1
  BY <1>1, <1>2
<1>4. /\ computeFee(a, p) = IF Capped(q) > a THEN a ELSE Capped(q)
      /\ computeFee(a + 1, p) = IF Capped(r) > a + 1 THEN a + 1 ELSE Capped(r)
  BY <1>2 DEF computeFee
<1> HIDE DEF Capped
<1>5. QED
  BY <1>3, <1>4

\* A policy the constructor accepts has no negative or missing field.
LEMMA ValidPolicy ==
    ASSUME NEW p \in RawPolicy, p.bps # Unset, p.minFee # Unset, assertValidPolicy(p)
    PROVE  p \in Policy /\ (p.maxFee # Unset => p.maxFee >= p.minFee)
<1>1. p.bps \in Int /\ p.minFee \in Int /\ p.maxFee \in Int \cup {Unset}
  BY DEF RawPolicy
<1>2. p.minFee \in Nat /\ p.bps \in 0..MAX_FEE_BPS /\ p.maxFee \in Nat \cup {Unset}
  BY <1>1 DEF assertValidPolicy
<1>3. QED
  BY <1>2 DEF Policy, RawPolicy, assertValidPolicy

\* An override over a complete policy is complete.
LEMMA ParsedPolicy ==
    ASSUME NEW raw \in RawPolicy, NEW base \in RawPolicy, base.bps # Unset, base.minFee # Unset
    PROVE  LET p == parsePolicy(raw, base) IN
           p \in RawPolicy /\ p.bps # Unset /\ p.minFee # Unset
  BY DEF parsePolicy, Or, RawPolicy

\* Whatever policies the service boots with, for every chain and every amount:
\* the fee lies within the payment, and one wei more of payment costs no less
\* fee and leaves the payee no less.
THEOREM FeesFitAll ==
    ASSUME NEW default \in RawPolicy, NEW overrides,
           \A c \in DOMAIN overrides : overrides[c] \in RawPolicy,
           NEW chains, NEW amounts \in SUBSET Nat
    PROVE  FeesFitFor(default, overrides, chains, amounts)
<1> SUFFICES ASSUME Boots(default, overrides), NEW chain \in chains, NEW a \in amounts
             PROVE  LET q == quote(default, overrides, chain, a)
                        r == quote(default, overrides, chain, a + 1)
                    IN  q.fee \in 0..a /\ q.fee <= r.fee /\ q.net <= r.net
  BY DEF FeesFitFor
<1> DEFINE base == parsePolicy(default, NoPolicy)
           p == policyFor(default, overrides, chain)
<1>1. NoPolicy \in RawPolicy /\ NoPolicy.bps # Unset /\ NoPolicy.minFee # Unset
  BY FeePolicyAssumption DEF NoPolicy, RawPolicy
<1>2. base \in RawPolicy /\ base.bps # Unset /\ base.minFee # Unset
  BY <1>1, ParsedPolicy
<1>3. p \in RawPolicy /\ p.bps # Unset /\ p.minFee # Unset /\ assertValidPolicy(p)
  <2>1. CASE chain \in DOMAIN overrides
    <3>1. p = parsePolicy(overrides[chain], base)
      BY <2>1 DEF policyFor
    <3>2. assertValidPolicy(p)
      BY <2>1, <3>1 DEF Boots
    <3> HIDE DEF p, base
    <3>3. QED
      BY <1>2, <2>1, <3>1, <3>2, ParsedPolicy
  <2>2. CASE chain \notin DOMAIN overrides
    BY <1>2, <2>2 DEF policyFor, Boots
  <2>3. QED
    BY <2>1, <2>2
<1> HIDE DEF p
<1>4. p \in Policy /\ (p.maxFee # Unset => p.maxFee >= p.minFee)
  BY <1>3, ValidPolicy
<1>5. /\ computeFee(a, p) \in 0..a /\ computeFee(a + 1, p) \in 0..(a + 1)
      /\ computeFee(a, p) <= computeFee(a + 1, p)
      /\ computeFee(a + 1, p) <= computeFee(a, p) + 1
  BY <1>4, FeeFair
<1>6. QED
  BY <1>5 DEF quote, p

\* Fees of computeFee() stay within the payment in the run, with any
\* BPS_DENOMINATOR and MAX_FEE_BPS.
THEOREM FeesAlwaysFit == Spec => []FeesFit
<1>1. Init => FeesFit
  <2> SUFFICES ASSUME Init, algorithm = "fees" PROVE FeesFit
    BY DEF FeesFit
  <2>1. PICK default, override \in MCRawPolicies :
            input = [default |-> default, overrides |-> [chain \in {7} |-> override]]
    BY DEF Init, InitMerkle, InitPacking, InitAmounts, InitFees, InitConfig
  <2>2. MCRawPolicies \subseteq RawPolicy /\ MCAmounts \in SUBSET Nat
    BY FeePolicyAssumption DEF MCRawPolicies, RawPolicy, MCAmounts
  <2>3. FeesFitFor(default, [chain \in {7} |-> override], {7, 8}, MCAmounts)
    BY <2>1, <2>2, FeesFitAll
  <2>4. QED
    BY <2>1, <2>3 DEF FeesFit
<1>2. FeesFit /\ [Next]_vars => FeesFit'
  BY DEF FeesFit, Next, vars
<1>3. QED
  BY <1>1, <1>2, PTL DEF Spec

----------------------------------------------------------------------------
(* Configuration                                                           *)

Number ==
    {t \in [kind: {"unset", "blank", "nan", "infinite", "finite"}, n: Int] :
       t.kind # "finite" => t.n = 0}

\* Environments the code can be started with: the numbers are texts of numbers,
\* and a password is missing, a default or the operator's own.
Environment(env) ==
    /\ env["TX_CONFIRMATIONS"].v \in Number
    /\ env["MAX_FEE_PER_GAS_GWEI"].v \in Number
    /\ env["DATABASE_PASSWORD"].v \in {"unset", "default", "own"}

\* validateConfig() accepts on mainnet only what is safe as it is used, but for
\* a cap of less than half a wei and spaces around two texts.
THEOREM ValidationCovers ==
    ASSUME NEW env, Environment(env)
    PROVE  UnsafeOnlyByTextFor(env)
<1> SUFFICES ASSUME validateConfig(env), ProfileName(env) = "mainnet"
             PROVE  /\ confirmations(env) >= MIN_MAINNET_CONFIRMATIONS
                    /\ maxFeePerGasWei(env) > 0 \/ CapRoundedAway(env)
                    /\ EffectiveKey(env) = "own" /\ EffectiveRpc(env) = "remote"
                    /\ \A name \in {"JWT_SECRET", "CSRF_SECRET"} :
                         EffectiveSecret(env, name) \notin {"default", "short"}
                    /\ EffectivePassword(env) = "own"
                    /\ shouldSynchronize(env) =>
                         env["MAINNET_ALLOW_SCHEMA_SYNC"].v = "true" \/ ProfilePadded(env)
                    /\ allowHttp(env) => EnvironmentPadded(env)
                    /\ hsts(env)
  BY DEF UnsafeOnlyByTextFor
<1>1. env["NETWORK_PROFILE"].v = "mainnet"
  BY DEF ProfileName
<1>2. ~findUnsafeMainnetSettings(env)
  BY DEF validateConfig
<1>3. NETWORK_PROFILES["mainnet"] = [confirmations |-> 12, maxFeePerGasGwei |-> 50]
  BY DEF NETWORK_PROFILES
<1>4. confirmations(env) >= MIN_MAINNET_CONFIRMATIONS
  <2>1. PICK t \in Number : t = env["TX_CONFIRMATIONS"].v
    BY DEF Environment
  <2>2. PICK n \in Int : n = numberFromEnv(t, 12) /\ n >= 6000
    BY <1>2, <2>1 DEF findUnsafeMainnetSettings, UnsafeLimits, Missing, AtLeast, Number,
                      numberFromEnv, MIN_MAINNET_CONFIRMATIONS, Thousand
  <2>3. n \div 1000 >= 6
    BY <2>2
  <2>4. QED
    BY <1>3, <2>1, <2>2, <2>3 DEF confirmations, Thousand, MIN_MAINNET_CONFIRMATIONS
<1>5. ASSUME ~CapRoundedAway(env) PROVE maxFeePerGasWei(env) > 0
  <2>1. PICK t \in Number : t = env["MAX_FEE_PER_GAS_GWEI"].v
    BY DEF Environment
  <2>2. PICK n \in Int : n = numberFromEnv(t, 50) /\ n >= 50
    BY <1>2, <1>5, <2>1 DEF findUnsafeMainnetSettings, UnsafeLimits, Missing, AtLeast,
                            Number, numberFromEnv, CapRoundedAway, Thousand, WeiPerGwei
  <2>3. (n * 10 + 500) \div 1000 > 0
    BY <2>2
  <2>4. Thousand \div 2 = 500
    BY DEF Thousand
  <2>5. QED
    BY <1>3, <2>1, <2>2, <2>3, <2>4 DEF maxFeePerGasWei, Thousand, WeiPerGwei
<1>6. /\ EffectiveKey(env) = "own" /\ EffectiveRpc(env) = "remote"
      /\ EffectivePassword(env) = "own"
  BY <1>2 DEF findUnsafeMainnetSettings, UnsafeSecrets, EffectiveKey, EffectiveRpc,
              EffectivePassword, Environment
<1>7. \A name \in {"JWT_SECRET", "CSRF_SECRET"} :
        EffectiveSecret(env, name) \notin {"default", "short"}
  BY <1>2 DEF findUnsafeMainnetSettings, UnsafeSecrets, EffectiveSecret
<1>8. shouldSynchronize(env) =>
        env["MAINNET_ALLOW_SCHEMA_SYNC"].v = "true" \/ ProfilePadded(env)
  BY <1>1, <1>2 DEF findUnsafeMainnetSettings, shouldSynchronize, ProfilePadded
<1>9. /\ allowHttp(env) => EnvironmentPadded(env)
      /\ hsts(env)
  BY <1>2 DEF findUnsafeMainnetSettings, allowHttp, hsts, EnvironmentPadded
<1>10. QED
  BY <1>4, <1>5, <1>6, <1>7, <1>8, <1>9

\* What validateConfig() accepts in the run, whatever spaces and numbers the
\* texts hold, is safe as the readers use it but for those texts.
THEOREM MainnetUnsafeOnlyByText == Spec => []UnsafeOnlyByText
<1>1. Init => UnsafeOnlyByText
  <2> SUFFICES ASSUME Init, algorithm = "config" PROVE UnsafeOnlyByText
    BY DEF UnsafeOnlyByText
  <2>1. PICK a, b \in DOMAIN Values : \E x \in Values[a], y \in Values[b], p, q \in BOOLEAN :
         input = [Good EXCEPT ![a] = [v |-> x, padded |-> p], ![b] = [v |-> y, padded |-> q]]
    BY DEF Init, InitMerkle, InitPacking, InitAmounts, InitFees, InitConfig
  <2>2. PICK x \in Values[a], y \in Values[b], p \in BOOLEAN, q \in BOOLEAN :
         input = [Good EXCEPT ![a] = [v |-> x, padded |-> p], ![b] = [v |-> y, padded |-> q]]
    BY <2>1
  <2>3. DOMAIN Good = DOMAIN Values
    BY DEF Good, Values
  <2>4. \A name \in DOMAIN Values : Good[name].v \in Values[name]
    BY DEF Good, Values, Said, Numbers
  <2>5. \A name \in DOMAIN Values : input[name].v \in Values[name]
    <3> HIDE DEF Good, Values
    <3>1. QED
      BY <2>2, <2>3, <2>4
  <2>6. Environment(input)
    BY <2>5 DEF Environment, Values, Numbers, Number, Finite, NoNumber, Blank, NaN,
                Infinite, Thousand
  <2>7. QED
    BY <2>6, ValidationCovers DEF UnsafeOnlyByText
<1>2. UnsafeOnlyByText /\ [Next]_vars => UnsafeOnlyByText'
  BY DEF UnsafeOnlyByText, Next, vars
<1>3. QED
  BY <1>1, <1>2, PTL DEF Spec

----------------------------------------------------------------------------
(* Merkle proofs                                                           *)

LEMMA LeastNumber ==
    ASSUME NEW T \in SUBSET Nat, T # {}
    PROVE  \E n \in T : \A m \in T : n <= m
<1>1. PICK n \in T : \A m \in T : ~ (<<m, n>> \in OpToRel(<, Nat))
  BY NatLessThanWellFounded, WFMin, Zenon
<1>2. \A m \in T : ~ (m < n)
  BY <1>1 DEF OpToRel
<1>3. QED
  BY <1>2

\* Induction over the natural numbers, for a set of numbers.
LEMMA AllNaturals ==
    ASSUME NEW S \in SUBSET Nat, 0 \in S, \A n \in S : n + 1 \in S
    PROVE  \A n \in Nat : n \in S
<1>1. ASSUME Nat \ S # {} PROVE FALSE
  <2>1. PICK n \in Nat \ S : \A m \in Nat \ S : n <= m
    BY <1>1, LeastNumber
  <2>2. n # 0 /\ n - 1 \in Nat /\ (n - 1) + 1 = n
    OBVIOUS
  <2>3. n - 1 \in S
    BY <2>1, <2>2
  <2>4. QED
    BY <2>2, <2>3
<1>2. QED
  BY <1>1

\* What the loops of merkle.util.ts and of BigInt() carry, at the start and after
\* one more item: the level, the place of a leaf, the node computed from a
\* proof, the power of the radix and the value of the digits read.
LoopStart(leaves, index, leaf) ==
    [level |-> leaves, position |-> index, node |-> leaf, power |-> 1, value |-> 0]

LoopStep(k, s, items) ==
    [level |-> parentLevel(s.level), position |-> s.position \div 2,
     node |-> hashPair(s.node, items[k + 1]), power |-> Radix * s.power,
     value |-> Radix * s.value + items[k + 1]]

IsLoop(w, leaves, index, leaf, items) ==
    w[0] = LoopStart(leaves, index, leaf) /\ \A k \in Nat : w[k + 1] = LoopStep(k, w[k], items)

\* The loops run: what they carry exists after any number of steps.
LEMMA LoopsRun ==
    ASSUME NEW leaves, NEW index, NEW leaf, NEW items
    PROVE  \E w : IsLoop(w, leaves, index, leaf, items)
<1> DEFINE start == LoopStart(leaves, index, leaf)
           Step(k, s) == LoopStep(k, s, items)
           Upto(g, n) == g[0] = start /\ \A k \in 0..(n - 1) : g[k + 1] = Step(k, g[k])
<1> SUFFICES \E w : w[0] = start /\ \A k \in Nat : w[k + 1] = Step(k, w[k])
  BY Zenon DEF IsLoop
<1> HIDE DEF start, Step
<1>1. \A n \in Nat : \E g : Upto(g, n)
  <2> DEFINE S == {n \in Nat : \E g : Upto(g, n)}
  <2>1. 0 \in S
    <3>1. Upto([k \in 0..0 |-> start], 0)
      OBVIOUS
    <3>2. QED
      BY <3>1
  <2>2. ASSUME NEW n \in S PROVE n + 1 \in S
    <3>1. PICK g : Upto(g, n)
      OBVIOUS
    <3> DEFINE h == [k \in 0..(n + 1) |-> IF k = n + 1 THEN Step(n, g[n]) ELSE g[k]]
    <3>2. Upto(h, n + 1)
      BY <3>1
    <3> HIDE DEF Upto, h
    <3>3. QED
      BY <3>2
  <2> HIDE DEF S
  <2>3. \A n \in Nat : n \in S
    BY <2>1, <2>2, AllNaturals DEF S
  <2>4. QED
    BY <2>3 DEF S
<1>2. ASSUME NEW g, NEW h, NEW n \in Nat, NEW m \in Nat, Upto(g, n), Upto(h, m)
      PROVE  \A k \in Nat : k <= n /\ k <= m => g[k] = h[k]
  <2> DEFINE S == {k \in Nat : k <= n /\ k <= m => g[k] = h[k]}
  <2>1. 0 \in S
    BY <1>2
  <2>2. ASSUME NEW k \in S PROVE k + 1 \in S
    BY <1>2
  <2> HIDE DEF S
  <2>3. \A k \in Nat : k \in S
    BY <2>1, <2>2, AllNaturals DEF S
  <2>4. QED
    BY <2>3 DEF S
<1> DEFINE G(n) == CHOOSE g : Upto(g, n)
           w == [k \in Nat |-> G(k)[k]]
<1>3. \A n \in Nat : Upto(G(n), n)
  BY <1>1
<1> HIDE DEF G
<1>4. w[0] = start
  BY <1>3
<1>5. ASSUME NEW k \in Nat PROVE w[k + 1] = Step(k, w[k])
  <2>1. Upto(G(k + 1), k + 1) /\ Upto(G(k), k)
    BY <1>3
  <2>2. G(k + 1)[k + 1] = Step(k, G(k + 1)[k])
    BY <2>1
  <2> HIDE DEF Upto
  <2>3. G(k + 1)[k] = G(k)[k]
    BY <1>2, <2>1
  <2>4. QED
    BY <2>2, <2>3
<1> HIDE DEF w
<1>6. QED
  BY <1>4, <1>5

LEMMA LevelsUnfold ==
    ASSUME NEW leaves
    PROVE  /\ Levels(leaves)[0] = leaves
           /\ \A k \in Nat : Levels(leaves)[k + 1] = parentLevel(Levels(leaves)[k])
<1>1. PICK w : IsLoop(w, leaves, 0, 0, leaves)
  BY LoopsRun
<1> DEFINE F == [k \in Nat |-> w[k].level]
<1>2. ASSUME NEW k \in Nat PROVE F[k] = IF k = 0 THEN leaves ELSE parentLevel(F[k - 1])
  <2>1. CASE k = 0
    BY <1>1, <2>1 DEF IsLoop, LoopStart
  <2>2. CASE k # 0
    <3>1. PICK j \in Nat : j = k - 1 /\ k = j + 1
      BY <2>2
    <3>2. w[j + 1] = LoopStep(j, w[j], leaves)
      BY <1>1 DEF IsLoop
    <3>3. w[j + 1].level = parentLevel(w[j].level)
      BY <3>2 DEF LoopStep
    <3>4. QED
      BY <2>2, <3>1, <3>3
  <2>3. QED
    BY <2>1, <2>2
<1>3. F = [k \in Nat |-> IF k = 0 THEN leaves ELSE parentLevel(F[k - 1])]
  BY <1>2
<1> HIDE DEF F
<1>4. Levels(leaves) =
        [k \in Nat |-> IF k = 0 THEN leaves ELSE parentLevel(Levels(leaves)[k - 1])]
  BY <1>3 DEF Levels
<1>5. QED
  BY <1>4

LEMMA PositionsUnfold ==
    ASSUME NEW index
    PROVE  /\ Positions(index)[0] = index
           /\ \A k \in Nat : Positions(index)[k + 1] = Positions(index)[k] \div 2
<1>1. PICK w : IsLoop(w, index, index, 0, index)
  BY LoopsRun
<1> DEFINE F == [k \in Nat |-> w[k].position]
<1>2. ASSUME NEW k \in Nat PROVE F[k] = IF k = 0 THEN index ELSE F[k - 1] \div 2
  <2>1. CASE k = 0
    BY <1>1, <2>1 DEF IsLoop, LoopStart
  <2>2. CASE k # 0
    <3>1. PICK j \in Nat : j = k - 1 /\ k = j + 1
      BY <2>2
    <3>2. w[j + 1] = LoopStep(j, w[j], index)
      BY <1>1 DEF IsLoop
    <3>3. w[j + 1].position = w[j].position \div 2
      BY <3>2 DEF LoopStep
    <3>4. QED
      BY <2>2, <3>1, <3>3
  <2>3. QED
    BY <2>1, <2>2
<1>3. F = [k \in Nat |-> IF k = 0 THEN index ELSE F[k - 1] \div 2]
  BY <1>2
<1> HIDE DEF F
<1>4. Positions(index) =
        [k \in Nat |-> IF k = 0 THEN index ELSE Positions(index)[k - 1] \div 2]
  BY <1>3 DEF Positions
<1>5. QED
  BY <1>4

LEMMA ClimbUnfolds ==
    ASSUME NEW leaf, NEW proof
    PROVE  /\ Climb(leaf, proof)[0] = leaf
           /\ \A k \in Nat :
                Climb(leaf, proof)[k + 1] = hashPair(Climb(leaf, proof)[k], proof[k + 1])
<1>1. PICK w : IsLoop(w, leaf, 0, leaf, proof)
  BY LoopsRun
<1> DEFINE F == [k \in Nat |-> w[k].node]
<1>2. ASSUME NEW k \in Nat PROVE F[k] = IF k = 0 THEN leaf ELSE hashPair(F[k - 1], proof[k])
  <2>1. CASE k = 0
    BY <1>1, <2>1 DEF IsLoop, LoopStart
  <2>2. CASE k # 0
    <3>1. PICK j \in Nat : j = k - 1 /\ k = j + 1
      BY <2>2
    <3>2. w[j + 1] = LoopStep(j, w[j], proof)
      BY <1>1 DEF IsLoop
    <3>3. w[j + 1].node = hashPair(w[j].node, proof[j + 1])
      BY <3>2 DEF LoopStep
    <3>4. QED
      BY <2>2, <3>1, <3>3
  <2>3. QED
    BY <2>1, <2>2
<1>3. F = [k \in Nat |-> IF k = 0 THEN leaf ELSE hashPair(F[k - 1], proof[k])]
  BY <1>2
<1> HIDE DEF F
<1>4. Climb(leaf, proof) =
        [k \in Nat |-> IF k = 0 THEN leaf ELSE hashPair(Climb(leaf, proof)[k - 1], proof[k])]
  BY <1>3 DEF Climb
<1>5. QED
  BY <1>4


\* A level has half as many nodes as the one below it, rounded up.
LEMMA ParentIs ==
    ASSUME NEW s, Len(s) \in Nat
    PROVE  /\ Len(parentLevel(s)) = (Len(s) + 1) \div 2
           /\ \A k \in 1..((Len(s) + 1) \div 2) :
                parentLevel(s)[k] =
                  hashPair(s[2 * k - 1], IF 2 * k <= Len(s) THEN s[2 * k] ELSE s[2 * k - 1])
<1>1. PICK n \in Nat : n = (Len(s) + 1) \div 2
  OBVIOUS
<1>2. QED
  BY <1>1 DEF parentLevel

\* The levels shrink until one node is left.
LEMMA LevelsShrink ==
    ASSUME NEW leaves, Len(leaves) \in Nat
    PROVE  \A k \in Nat :
             /\ Len(Levels(leaves)[k]) \in Nat
             /\ Len(leaves) > 0 => Len(Levels(leaves)[k]) > 0
             /\ Len(Levels(leaves)[k]) <= 1 \/ Len(Levels(leaves)[k]) + k <= Len(leaves)
<1> DEFINE Fits(k, n) == /\ n \in Nat /\ (Len(leaves) > 0 => n > 0)
                         /\ n <= 1 \/ n + k <= Len(leaves)
           S == {k \in Nat : Fits(k, Len(Levels(leaves)[k]))}
<1>1. 0 \in S
  BY LevelsUnfold
<1>2. ASSUME NEW k \in S PROVE k + 1 \in S
  <2>1. PICK n \in Nat : n = Len(Levels(leaves)[k])
    OBVIOUS
  <2>2. Len(Levels(leaves)[k + 1]) = (n + 1) \div 2
    BY <2>1, LevelsUnfold, ParentIs
  <2>3. Fits(k, n) => Fits(k + 1, (n + 1) \div 2)
    OBVIOUS
  <2>4. Fits(k, n)
    BY <2>1
  <2> HIDE DEF Fits
  <2>5. QED
    BY <2>2, <2>3, <2>4
<1> HIDE DEF S
<1>3. \A k \in Nat : k \in S
  BY <1>1, <1>2, AllNaturals DEF S
<1>4. QED
  BY <1>3 DEF S

LEMMA HeightIs ==
    ASSUME NEW leaves, Len(leaves) \in Nat
    PROVE  /\ Height(leaves) \in 0..Len(leaves)
           /\ Len(Levels(leaves)[Height(leaves)]) <= 1
           /\ \A g \in 0..(Height(leaves) - 1) : Len(Levels(leaves)[g]) > 1
<1> DEFINE T == {h \in Nat : Len(Levels(leaves)[h]) <= 1}
<1>1. Len(leaves) \in T
  <2>1. \/ Len(Levels(leaves)[Len(leaves)]) <= 1
        \/ Len(Levels(leaves)[Len(leaves)]) + Len(leaves) <= Len(leaves)
    BY LevelsShrink
  <2>2. Len(Levels(leaves)[Len(leaves)]) \in Nat
    BY LevelsShrink
  <2>3. QED
    BY <2>1, <2>2
<1>2. PICK h \in T : \A m \in T : h <= m
  <2>1. T \in SUBSET Nat /\ T # {}
    BY <1>1
  <2> HIDE DEF T
  <2>2. QED
    BY <2>1, LeastNumber
<1>3. h \in 0..Len(leaves) /\ Len(Levels(leaves)[h]) <= 1
  BY <1>1, <1>2
<1>4. ASSUME NEW g \in 0..(h - 1) PROVE Len(Levels(leaves)[g]) > 1
  <2>1. g \in Nat /\ ~(h <= g)
    BY <1>3
  <2>2. g \notin T /\ Len(Levels(leaves)[g]) \in Nat
    BY <1>2, <2>1, LevelsShrink
  <2>3. QED
    BY <2>1, <2>2
<1>5. QED
  BY <1>3, <1>4 DEF Height

\* A node and its sibling, in either order, make the node above them.
LEMMA SiblingsMeet ==
    ASSUME NEW s, Len(s) \in Nat, NEW p \in Nat, p < Len(s)
    PROVE  LET sibling == IF p % 2 = 0 THEN p + 1 ELSE p - 1 IN
           /\ p \div 2 \in Nat /\ p \div 2 < Len(parentLevel(s))
           /\ hashPair(s[p + 1], IF sibling < Len(s) THEN s[sibling + 1] ELSE s[p + 1])
                = parentLevel(s)[p \div 2 + 1]
<1>1. PICK q \in Nat : q = p \div 2 /\ (p = 2 * q \/ p = 2 * q + 1)
                       /\ (p % 2 = 0 <=> p = 2 * q)
  OBVIOUS
<1>2. PICK n \in Nat : n = (Len(s) + 1) \div 2 /\ 2 * n <= Len(s) + 1 /\ Len(s) <= 2 * n
  OBVIOUS
<1>3. q < n /\ q + 1 \in 1..n
  BY <1>1, <1>2
<1>4. /\ Len(parentLevel(s)) = n
      /\ parentLevel(s)[q + 1] =
           hashPair(s[2 * (q + 1) - 1],
                    IF 2 * (q + 1) <= Len(s) THEN s[2 * (q + 1)] ELSE s[2 * (q + 1) - 1])
  BY <1>2, <1>3, ParentIs
<1>5. 2 * (q + 1) - 1 = 2 * q + 1 /\ 2 * (q + 1) = 2 * q + 2
  OBVIOUS
<1>6. parentLevel(s)[q + 1] =
        hashPair(s[2 * q + 1], IF 2 * q + 2 <= Len(s) THEN s[2 * q + 2] ELSE s[2 * q + 1])
  BY <1>4, <1>5
<1>7. \A a, b : hashPair(a, b) = hashPair(b, a)
  BY DEF hashPair
<1>8. CASE p = 2 * q
  <2>1. (p + 1) + 1 = 2 * q + 2 /\ (p + 1 < Len(s) <=> 2 * q + 2 <= Len(s)) /\ p % 2 = 0
    BY <1>1, <1>8
  <2>2. QED
    BY <1>1, <1>3, <1>4, <1>6, <1>8, <2>1
<1>9. CASE p = 2 * q + 1
  <2>1. p % 2 # 0 /\ p - 1 < Len(s) /\ (p - 1) + 1 = 2 * q + 1 /\ p + 1 = 2 * q + 2
        /\ 2 * q + 2 <= Len(s)
    BY <1>1, <1>9
  <2>2. QED
    BY <1>1, <1>3, <1>4, <1>6, <1>7, <2>1
<1>10. QED
  BY <1>1, <1>8, <1>9

\* verifyMerkleProof() accepts what merkleProof() returns, for every leaf of a
\* tree of any size.
THEOREM OwnProofVerifies ==
    ASSUME NEW leaves, Len(leaves) \in Nat, NEW index \in Nat, index < Len(leaves)
    PROVE  verifyMerkleProof(leaves[index + 1], merkleProof(leaves, index), merkleRoot(leaves))
<1> DEFINE L == Levels(leaves)
           P == Positions(index)
           H == Height(leaves)
           proof == merkleProof(leaves, index)
           C == Climb(leaves[index + 1], proof)
<1>1. H \in Nat /\ Len(L[H]) <= 1 /\ Len(L[H]) \in Nat
  BY HeightIs, LevelsShrink
<1>2. Len(proof) = H
  BY <1>1 DEF merkleProof
<1>3. ASSUME NEW k \in Nat, k < H
      PROVE  proof[k + 1] =
               LET sibling == IF P[k] % 2 = 0 THEN P[k] + 1 ELSE P[k] - 1
               IN  IF sibling < Len(L[k]) THEN L[k][sibling + 1] ELSE L[k][P[k] + 1]
  <2>1. k + 1 \in 1..H /\ (k + 1) - 1 = k
    BY <1>1, <1>3
  <2>2. QED
    BY <2>1 DEF merkleProof
<1>4. /\ \A k \in Nat : L[k + 1] = parentLevel(L[k])
      /\ \A k \in Nat : P[k + 1] = P[k] \div 2
      /\ \A k \in Nat : C[k + 1] = hashPair(C[k], proof[k + 1])
      /\ \A k \in Nat : Len(L[k]) \in Nat
  <2>1. \A k \in Nat : C[k + 1] = hashPair(C[k], proof[k + 1])
    <3> DEFINE x == leaves[index + 1]
    <3> HIDE DEF proof, x
    <3>1. \A k \in Nat : Climb(x, proof)[k + 1] = hashPair(Climb(x, proof)[k], proof[k + 1])
      BY ClimbUnfolds
    <3>2. QED
      BY <3>1 DEF x
  <2>2. QED
    BY <2>1, LevelsUnfold, PositionsUnfold, LevelsShrink
<1>5. L[0] = leaves /\ P[0] = index /\ C[0] = leaves[index + 1]
  BY LevelsUnfold, PositionsUnfold, ClimbUnfolds
<1> DEFINE S == {k \in Nat : k <= H => /\ P[k] \in Nat /\ P[k] < Len(L[k])
                                       /\ C[k] = L[k][P[k] + 1]}
<1> HIDE DEF L, P, C, H, proof
<1>6. 0 \in S
  BY <1>5
<1>7. ASSUME NEW k \in S PROVE k + 1 \in S
  <2> SUFFICES ASSUME k + 1 <= H
               PROVE  /\ P[k + 1] \in Nat /\ P[k + 1] < Len(L[k + 1])
                      /\ C[k + 1] = L[k + 1][P[k + 1] + 1]
    OBVIOUS
  <2>1. k < H /\ k <= H
    BY <1>1
  <2>2. PICK p \in Nat : p = P[k] /\ p < Len(L[k]) /\ C[k] = L[k][p + 1]
    BY <2>1
  <2>3. proof[k + 1] = LET sibling == IF p % 2 = 0 THEN p + 1 ELSE p - 1
                       IN  IF sibling < Len(L[k]) THEN L[k][sibling + 1] ELSE L[k][p + 1]
    BY <1>3, <2>1, <2>2
  <2>4. /\ L[k + 1] = parentLevel(L[k]) /\ P[k + 1] = p \div 2
        /\ C[k + 1] = hashPair(L[k][p + 1], proof[k + 1]) /\ Len(L[k]) \in Nat
    BY <1>4, <2>2
  <2>5. /\ p \div 2 \in Nat /\ p \div 2 < Len(parentLevel(L[k]))
        /\ hashPair(L[k][p + 1], proof[k + 1]) = parentLevel(L[k])[p \div 2 + 1]
    <3>1. PICK s : s = L[k]
      OBVIOUS
    <3>2. Len(s) \in Nat /\ p < Len(s)
      BY <2>2, <2>4, <3>1
    <3>3. proof[k + 1] = LET sibling == IF p % 2 = 0 THEN p + 1 ELSE p - 1
                         IN  IF sibling < Len(s) THEN s[sibling + 1] ELSE s[p + 1]
      BY <2>3, <3>1
    <3>4. p \div 2 \in Nat /\ p \div 2 < Len(parentLevel(s))
      BY <3>2, SiblingsMeet
    <3>5. hashPair(s[p + 1], proof[k + 1]) = parentLevel(s)[p \div 2 + 1]
      BY <3>2, <3>3, SiblingsMeet
    <3>6. QED
      BY <3>1, <3>4, <3>5
  <2>6. QED
    BY <2>4, <2>5
<1>8. \A k \in Nat : k \in S
  <2>1. S \in SUBSET Nat
    OBVIOUS
  <2> HIDE DEF S
  <2>2. QED
    BY <1>6, <1>7, <2>1, AllNaturals
<1>9. P[H] \in Nat /\ P[H] < Len(L[H]) /\ C[H] = L[H][P[H] + 1]
  BY <1>1, <1>8
<1>10. P[H] = 0
  BY <1>1, <1>9
<1>11. C[Len(proof)] = L[H][1]
  BY <1>2, <1>9, <1>10
<1>12. leaves # <<>>
  OBVIOUS
<1>13. QED
  BY <1>11, <1>12 DEF verifyMerkleProof, merkleRoot, L, H, C, proof

\* Nothing that hashPair() returns.
NoPair(x) == \A a, b : x # hashPair(a, b)

\* Whoever hashes to a node above the leaves was one of the two below it.
LEMMA NodeIsPair ==
    ASSUME NEW leaves, Len(leaves) \in Nat, NEW l \in Nat,
           NEW j \in 1..Len(Levels(leaves)[l + 1])
    PROVE  \E i, k \in 1..Len(Levels(leaves)[l]) :
             Levels(leaves)[l + 1][j] = hashPair(Levels(leaves)[l][i], Levels(leaves)[l][k])
<1> DEFINE s == Levels(leaves)[l]
<1>1. Len(s) \in Nat /\ Levels(leaves)[l + 1] = parentLevel(s)
  BY LevelsUnfold, LevelsShrink
<1> HIDE DEF s
<1>2. PICK n \in Nat : n = (Len(s) + 1) \div 2 /\ 2 * n <= Len(s) + 1
  <2>1. PICK z \in Nat : z = Len(s)
    BY <1>1
  <2>2. (z + 1) \div 2 \in Nat /\ 2 * ((z + 1) \div 2) <= z + 1
    OBVIOUS
  <2>3. QED
    BY <2>1, <2>2
<1>3. j \in 1..n /\ parentLevel(s)[j] =
        hashPair(s[2 * j - 1], IF 2 * j <= Len(s) THEN s[2 * j] ELSE s[2 * j - 1])
  BY <1>1, <1>2, ParentIs
<1>4. 2 * j - 1 \in 1..Len(s) /\ (2 * j <= Len(s) => 2 * j \in 1..Len(s))
  BY <1>1, <1>2, <1>3
<1>5. QED
  BY <1>1, <1>3, <1>4 DEF s

LEMMA PairsDiffer ==
    ASSUME NEW a, NEW b, NEW c, NEW d, hashPair(a, b) = hashPair(c, d)
    PROVE  a = c \/ a = d
<1>1. hashPair(a, b).pair = {a, b} /\ hashPair(c, d).pair = {c, d}
  BY DEF hashPair
<1>2. {a, b} = {c, d}
  BY <1>1
<1>3. QED
  BY <1>2

\* No list of siblings whatever proves a hash that is not in the batch.  Going
\* down from the root, what was computed with the last sibling is a node, so
\* what was computed before it is a node of the level below, and so on: the
\* hash is a leaf, or a pair, or the leaf that was reached is one.
THEOREM NoOtherProof ==
    ASSUME NEW leaves, Len(leaves) \in Nat, \A i \in 1..Len(leaves) : NoPair(leaves[i]),
           NEW leaf, NoPair(leaf), leaf # ZeroHash, \A i \in 1..Len(leaves) : leaf # leaves[i],
           leaves = <<>> <=> Len(leaves) = 0,
           NEW proof, Len(proof) \in Nat
    PROVE  ~verifyMerkleProof(leaf, proof, merkleRoot(leaves))
<1> DEFINE L == Levels(leaves)
           H == Height(leaves)
           C == Climb(leaf, proof)
           m == Len(proof)
           Nodes(l) == {L[l][j] : j \in 1..Len(L[l])}
<1>0. ASSUME NEW l \in Nat, NEW j \in 1..Len(L[l + 1])
      PROVE  \E i, k \in 1..Len(L[l]) : L[l + 1][j] = hashPair(L[l][i], L[l][k])
  BY <1>0, NodeIsPair
<1>1. C[0] = leaf /\ \A k \in Nat : C[k + 1] = hashPair(C[k], proof[k + 1])
  BY ClimbUnfolds
<1>2. ASSUME NEW k \in Nat, k > 0 PROVE ~NoPair(C[k]) /\ C[k] # ZeroHash
  <2>1. PICK j \in Nat : k = j + 1
    <3>1. k - 1 \in Nat /\ k = (k - 1) + 1
      BY <1>2
    <3>2. QED
      BY <3>1
  <2>2. C[k] = hashPair(C[j], proof[j + 1])
    BY <1>1, <2>1
  <2>3. ~NoPair(C[k])
    <3> HIDE DEF C
    <3>1. QED
      BY <2>2 DEF NoPair
  <2>4. \A a, b : hashPair(a, b) # ZeroHash
    BY DEF hashPair, ZeroHash
  <2>5. QED
    BY <2>2, <2>3, <2>4
<1> SUFFICES ASSUME C[m] = merkleRoot(leaves) PROVE FALSE
  BY DEF verifyMerkleProof
<1>3. CASE leaves = <<>>
  BY <1>1, <1>2, <1>3 DEF merkleRoot
<1>4. CASE leaves # <<>>
  <2>1. H \in Nat /\ Len(L[H]) \in Nat /\ Len(L[H]) > 0 /\ C[m] = L[H][1]
    <3>1. H \in Nat /\ Len(leaves) > 0
      BY <1>4, HeightIs
    <3>2. Len(L[H]) \in Nat /\ Len(L[H]) > 0
      BY <3>1, LevelsShrink
    <3>3. QED
      BY <1>4, <3>1, <3>2 DEF merkleRoot
  <2>2. L[0] = leaves
    BY LevelsUnfold
  <2>3. ASSUME NEW l \in Nat, NEW x \in Nodes(l + 1)
        PROVE  \E a, b \in Nodes(l) : x = hashPair(a, b)
    <3>1. PICK j \in 1..Len(L[l + 1]) : x = L[l + 1][j]
      OBVIOUS
    <3> HIDE DEF L
    <3>2. PICK i, k \in 1..Len(L[l]) : L[l + 1][j] = hashPair(L[l][i], L[l][k])
      BY <1>0, <3>1
    <3>3. QED
      BY <3>1, <3>2
  <2> DEFINE S == {d \in Nat : d <= m /\ d <= H => C[m - d] \in Nodes(H - d)}
  <2> HIDE DEF L, H, C, Nodes
  <2>4. 0 \in S
    <3>1. m - 0 = m /\ H - 0 = H
      BY <2>1
    <3>2. L[H][1] \in Nodes(H)
      BY <2>1 DEF Nodes
    <3>3. QED
      BY <2>1, <3>1, <3>2
  <2>5. ASSUME NEW d \in S PROVE d + 1 \in S
    <3> SUFFICES ASSUME d + 1 <= m, d + 1 <= H PROVE C[m - (d + 1)] \in Nodes(H - (d + 1))
      OBVIOUS
    <3>0. d \in Nat /\ m \in Nat /\ H \in Nat
      BY <2>1
    <3>1. PICK k, l \in Nat : k = m - (d + 1) /\ l = H - (d + 1)
      <4>1. m - (d + 1) \in Nat
        BY <3>0
      <4>2. H - (d + 1) \in Nat
        BY <3>0
      <4>3. QED
        BY <4>1, <4>2, Zenon
    <3>2. m - d = k + 1 /\ H - d = l + 1
      BY <3>0, <3>1
    <3>3. C[k + 1] \in Nodes(l + 1)
      BY <2>1, <3>2
    <3>4. PICK a, b \in Nodes(l) : C[k + 1] = hashPair(a, b)
      BY <2>3, <3>3
    <3>5. C[k + 1] = hashPair(C[k], proof[k + 1])
      BY <1>1
    <3>6. C[k] = a \/ C[k] = b
      <4>1. hashPair(C[k], proof[k + 1]) = hashPair(a, b)
        BY <3>4, <3>5
      <4>2. QED
        BY <4>1, PairsDiffer
    <3>7. QED
      BY <3>1, <3>4, <3>6
  <2>6. \A d \in Nat : d \in S
    <3>1. S \in SUBSET Nat
      OBVIOUS
    <3> HIDE DEF S
    <3>2. QED
      BY <2>4, <2>5, <3>1, AllNaturals
  <2>7. Nodes(0) = {leaves[j] : j \in 1..Len(leaves)}
    BY <2>2 DEF Nodes
  <2>8. CASE m <= H
    <3>1. PICK l \in Nat : l = H - m
      BY <2>1, <2>8
    <3>2. leaf \in Nodes(l)
      <4>1. m \in S /\ m <= m /\ m - m = 0
        BY <2>6
      <4>2. C[m - m] \in Nodes(H - m)
        BY <2>8, <4>1
      <4>3. QED
        BY <1>1, <3>1, <4>1, <4>2
    <3>3. CASE l = 0
      BY <2>7, <3>2, <3>3
    <3>4. CASE l # 0
      <4>1. PICK k \in Nat : l = k + 1
        <5>1. l - 1 \in Nat /\ l = (l - 1) + 1
          BY <3>4
        <5>2. QED
          BY <5>1
      <4>2. QED
        BY <2>3, <3>2, <4>1 DEF NoPair
    <3>5. QED
      BY <3>3, <3>4
  <2>9. CASE ~(m <= H)
    <3>1. PICK k \in Nat : k = m - H /\ k > 0
      <4>1. m - H \in Nat /\ m - H > 0
        BY <2>1, <2>9
      <4>2. QED
        BY <4>1
    <3>2. C[k] \in Nodes(0)
      <4>1. H - H = 0 /\ H <= m /\ H <= H
        BY <2>1, <2>9
      <4>2. H \in S
        BY <2>1, <2>6
      <4>3. C[m - H] \in Nodes(H - H)
        BY <4>1, <4>2
      <4>4. QED
        BY <3>1, <4>1, <4>3
    <3>3. NoPair(C[k])
      BY <2>7, <3>2
    <3>4. QED
      BY <1>2, <3>1, <3>3
  <2>10. QED
    BY <2>8, <2>9
<1>5. QED
  BY <1>3, <1>4

\* Merkle proofs in the run: the receipts of a batch have one and no other
\* does, with any number of hashes and of receipts.
THEOREM ProofsAlwaysVerify == Spec => []ProofsVerify
<1>1. Init => ProofsVerify
  <2> SUFFICES ASSUME Init, algorithm = "merkle" PROVE ProofsVerify
    BY DEF ProofsVerify
  <2> DEFINE Leaf == {LeafHash(i) : i \in 1..(LeafCount - 1)}
             strangers == {LeafHash(i) : i \in 1..LeafCount}
  <2>1. PICK n \in Nat : input \in [1..n -> Leaf]
    BY DEF Init, InitMerkle, InitPacking, InitAmounts, InitFees, InitConfig, MCLeaves, UpTo
  <2>2. Len(input) = n /\ (input = <<>> <=> n = 0)
    BY <2>1
  <2>3. \A i : NoPair(LeafHash(i)) /\ LeafHash(i) # ZeroHash
    BY DEF LeafHash, NoPair, hashPair, ZeroHash
  <2>4. \A i \in 1..n : NoPair(input[i])
    BY <2>1, <2>3
  <2>5. ASSUME NEW i \in 1..n
        PROVE  verifyMerkleProof(input[i], merkleProof(input, i - 1), merkleRoot(input))
    <3>1. PICK k \in Nat : k = i - 1 /\ i = k + 1 /\ k < n
      OBVIOUS
    <3>2. QED
      BY <2>2, <3>1, OwnProofVerifies
  <2>6. ASSUME NEW leaf \in strangers \ {input[i] : i \in 1..n},
               NEW k \in 0..Height(input), NEW proof, DOMAIN proof = 1..k, Len(proof) = k
        PROVE  ~verifyMerkleProof(leaf, proof, merkleRoot(input))
    <3>1. k \in Nat
      OBVIOUS
    <3>2. NoPair(leaf) /\ leaf # ZeroHash /\ \A i \in 1..n : leaf # input[i]
      BY <2>3
    <3>3. QED
      BY <2>2, <2>4, <2>6, <3>1, <3>2, NoOtherProof
  <2>7. QED
    BY <2>2, <2>5, <2>6 DEF ProofsVerify, ProofsVerifyFor
<1>2. ProofsVerify /\ [Next]_vars => ProofsVerify'
  BY DEF ProofsVerify, Next, vars
<1>3. QED
  BY <1>1, <1>2, PTL DEF Spec

----------------------------------------------------------------------------
(* Amounts                                                                 *)

LEMMA PowerUnfolds ==
    /\ Power[0] = 1
    /\ \A k \in Nat : Power[k + 1] = Radix * Power[k]
<1>1. PICK w : IsLoop(w, 0, 0, 0, <<>>)
  BY LoopsRun
<1> DEFINE F == [k \in Nat |-> w[k].power]
<1>2. ASSUME NEW k \in Nat PROVE F[k] = IF k = 0 THEN 1 ELSE Radix * F[k - 1]
  <2>1. CASE k = 0
    BY <1>1, <2>1 DEF IsLoop, LoopStart
  <2>2. CASE k # 0
    <3>1. PICK j \in Nat : j = k - 1 /\ k = j + 1
      BY <2>2
    <3>2. w[j + 1] = LoopStep(j, w[j], <<>>)
      BY <1>1 DEF IsLoop
    <3>3. w[j + 1].power = Radix * w[j].power
      BY <3>2 DEF LoopStep
    <3>4. QED
      BY <2>2, <3>1, <3>3
  <2>3. QED
    BY <2>1, <2>2
<1>3. F = [k \in Nat |-> IF k = 0 THEN 1 ELSE Radix * F[k - 1]]
  BY <1>2
<1> HIDE DEF F
<1>4. Power =
        [k \in Nat |-> IF k = 0 THEN 1 ELSE Radix * Power[k - 1]]
  BY <1>3 DEF Power
<1>5. QED
  BY <1>4

LEMMA ReadingsUnfold ==
    ASSUME NEW digits
    PROVE  /\ Readings(digits)[0] = 0
           /\ \A k \in Nat : Readings(digits)[k + 1] = Radix * Readings(digits)[k] + digits[k + 1]
<1>1. PICK w : IsLoop(w, 0, 0, 0, digits)
  BY LoopsRun
<1> DEFINE F == [k \in Nat |-> w[k].value]
<1>2. ASSUME NEW k \in Nat PROVE F[k] = IF k = 0 THEN 0 ELSE Radix * F[k - 1] + digits[k]
  <2>1. CASE k = 0
    BY <1>1, <2>1 DEF IsLoop, LoopStart
  <2>2. CASE k # 0
    <3>1. PICK j \in Nat : j = k - 1 /\ k = j + 1
      BY <2>2
    <3>2. w[j + 1] = LoopStep(j, w[j], digits)
      BY <1>1 DEF IsLoop
    <3>3. w[j + 1].value = Radix * w[j].value + digits[j + 1]
      BY <3>2 DEF LoopStep
    <3>4. QED
      BY <2>2, <3>1, <3>3
  <2>3. QED
    BY <2>1, <2>2
<1>3. F = [k \in Nat |-> IF k = 0 THEN 0 ELSE Radix * F[k - 1] + digits[k]]
  BY <1>2
<1> HIDE DEF F
<1>4. Readings(digits) =
        [k \in Nat |-> IF k = 0 THEN 0 ELSE Radix * Readings(digits)[k - 1] + digits[k]]
  BY <1>3 DEF Readings
<1>5. QED
  BY <1>4

Digit == 0..(Radix - 1)

LEMMA RadixIs == Radix \in Nat /\ Radix >= 2 /\ DECIMALS \in Nat
  BY AmountsAssumption

LEMMA PowerGrows == \A k \in Nat : Power[k] \in Nat /\ Power[k] > k
<1> DEFINE S == {k \in Nat : Power[k] \in Nat /\ Power[k] > k}
<1>1. 0 \in S
  BY PowerUnfolds
<1>2. ASSUME NEW k \in S PROVE k + 1 \in S
  <2>1. PICK p \in Nat : p = Power[k] /\ p > k
    OBVIOUS
  <2>2. Power[k + 1] = Radix * p
    BY <2>1, PowerUnfolds
  <2>3. Radix * p \in Nat /\ Radix * p >= 2 * p
    BY RadixIs
  <2>4. QED
    BY <2>1, <2>2, <2>3
<1> HIDE DEF S
<1>3. \A k \in Nat : k \in S
  BY <1>1, <1>2, AllNaturals DEF S
<1>4. QED
  BY <1>3 DEF S

LEMMA PowerSum ==
    ASSUME NEW a \in Nat, NEW b \in Nat
    PROVE  Power[a + b] = Power[a] * Power[b]
<1>1. PICK p \in Nat : p = Power[a]
  BY PowerGrows
<1> DEFINE S == {k \in Nat : Power[a + k] = p * Power[k]}
<1>2. 0 \in S
  BY <1>1, PowerUnfolds
<1>3. ASSUME NEW k \in S PROVE k + 1 \in S
  <2>1. PICK q \in Nat : q = Power[k]
    BY PowerGrows
  <2>2. a + k \in Nat /\ a + (k + 1) = (a + k) + 1
    OBVIOUS
  <2>3. Power[a + (k + 1)] = Radix * (p * q) /\ Power[k + 1] = Radix * q
    BY <2>1, <2>2, PowerUnfolds
  <2>4. Radix * (p * q) = p * (Radix * q)
    BY RadixIs
  <2>5. QED
    BY <2>3, <2>4
<1> HIDE DEF S
<1>4. b \in S
  BY <1>2, <1>3, AllNaturals DEF S
<1>5. QED
  BY <1>1, <1>4 DEF S

LEMMA DigitsAre ==
    ASSUME NEW d \in Seq(Digit)
    PROVE  /\ Len(d) \in Nat /\ DOMAIN d = 1..Len(d)
           /\ \A k \in 1..Len(d) : d[k] \in Nat /\ d[k] < Radix
  BY RadixIs DEF Digit

LEMMA ReadingsAre ==
    ASSUME NEW d \in Seq(Digit)
    PROVE  \A k \in Nat : k <= Len(d) => Readings(d)[k] \in Nat
<1> DEFINE S == {k \in Nat : k <= Len(d) => Readings(d)[k] \in Nat}
<1>1. 0 \in S
  BY ReadingsUnfold
<1>2. ASSUME NEW k \in S PROVE k + 1 \in S
  <2> SUFFICES ASSUME k + 1 <= Len(d) PROVE Readings(d)[k + 1] \in Nat
    OBVIOUS
  <2>1. k + 1 \in 1..Len(d) /\ k <= Len(d)
    BY DigitsAre
  <2>2. PICK x, y \in Nat : x = Readings(d)[k] /\ y = d[k + 1]
    BY <2>1, DigitsAre
  <2>3. Readings(d)[k + 1] = Radix * x + y
    BY <2>2, ReadingsUnfold
  <2>4. QED
    BY <2>3, RadixIs
<1> HIDE DEF S
<1>3. \A k \in Nat : k \in S
  BY <1>1, <1>2, AllNaturals DEF S
<1>4. QED
  BY <1>3 DEF S

LEMMA ValueIs ==
    ASSUME NEW d \in Seq(Digit)
    PROVE  Value(d) \in Nat
  BY DigitsAre, ReadingsAre DEF Value

LEMMA ConcatIs ==
    ASSUME NEW s \in Seq(Digit), NEW t \in Seq(Digit)
    PROVE  /\ s \o t \in Seq(Digit) /\ Len(s \o t) = Len(s) + Len(t)
           /\ \A k \in 1..Len(s) : (s \o t)[k] = s[k]
           /\ \A k \in 1..Len(t) : (s \o t)[Len(s) + k] = t[k]
  OBVIOUS

\* The value of a concatenation: the first part is shifted by the second.
LEMMA ValueOfConcat ==
    ASSUME NEW s \in Seq(Digit), NEW t \in Seq(Digit)
    PROVE  Value(s \o t) = Value(s) * Power[Len(t)] + Value(t)
<1>1. PICK m, n \in Nat : m = Len(s) /\ n = Len(t) /\ Len(s \o t) = m + n
  BY DigitsAre, ConcatIs
<1>2. \A k \in Nat : k <= m => Readings(s \o t)[k] = Readings(s)[k]
  <2> DEFINE S == {k \in Nat : k <= m => Readings(s \o t)[k] = Readings(s)[k]}
  <2>1. 0 \in S
    BY ReadingsUnfold
  <2>2. ASSUME NEW k \in S PROVE k + 1 \in S
    <3> SUFFICES ASSUME k + 1 <= m PROVE Readings(s \o t)[k + 1] = Readings(s)[k + 1]
      OBVIOUS
    <3>1. Readings(s \o t)[k] = Readings(s)[k] /\ (s \o t)[k + 1] = s[k + 1]
      BY <1>1, ConcatIs
    <3>2. QED
      BY <3>1, ReadingsUnfold
  <2> HIDE DEF S
  <2>3. \A k \in Nat : k \in S
    BY <2>1, <2>2, AllNaturals DEF S
  <2>4. QED
    BY <2>3 DEF S
<1>3. PICK v \in Nat : v = Value(s)
  BY ValueIs
<1> DEFINE S == {k \in Nat : k <= n => Readings(s \o t)[m + k] = v * Power[k] + Readings(t)[k]}
<1>4. 0 \in S
  <2>1. Readings(s \o t)[m] = v
    BY <1>1, <1>2, <1>3 DEF Value
  <2>2. m + 0 = m /\ v * 1 + 0 = v
    OBVIOUS
  <2>3. QED
    BY <2>1, <2>2, ReadingsUnfold, PowerUnfolds
<1>5. ASSUME NEW k \in S PROVE k + 1 \in S
  <2> SUFFICES ASSUME k + 1 <= n
               PROVE  Readings(s \o t)[m + (k + 1)] = v * Power[k + 1] + Readings(t)[k + 1]
    OBVIOUS
  <2>1. k + 1 \in 1..n /\ k <= n
    OBVIOUS
  <2>2. PICK p, r, d \in Nat : p = Power[k] /\ r = Readings(t)[k] /\ d = t[k + 1]
    BY <1>1, <2>1, PowerGrows, ReadingsAre, DigitsAre
  <2>3. Readings(s \o t)[m + k] = v * p + r
    BY <2>1, <2>2
  <2>4. m + k \in Nat /\ m + (k + 1) = (m + k) + 1
    OBVIOUS
  <2>5. (s \o t)[(m + k) + 1] = d
    BY <1>1, <2>1, <2>2, <2>4, ConcatIs
  <2>6. Readings(s \o t)[m + (k + 1)] = Radix * (v * p + r) + d
    BY <2>3, <2>4, <2>5, ReadingsUnfold
  <2>7. Power[k + 1] = Radix * p /\ Readings(t)[k + 1] = Radix * r + d
    BY <2>2, ReadingsUnfold, PowerUnfolds
  <2>8. Radix * (v * p + r) + d = v * (Radix * p) + (Radix * r + d)
    BY RadixIs
  <2>9. QED
    BY <2>6, <2>7, <2>8
<1> HIDE DEF S
<1>6. n \in S
  BY <1>4, <1>5, AllNaturals DEF S
<1>7. QED
  BY <1>1, <1>3, <1>6 DEF S, Value

LEMMA ZerosAre ==
    ASSUME NEW n \in Nat
    PROVE  Zeros(n) \in Seq(Digit) /\ Len(Zeros(n)) = n /\ Value(Zeros(n)) = 0
<1>1. Zeros(n) \in Seq(Digit) /\ Len(Zeros(n)) = n /\ \A k \in 1..n : Zeros(n)[k] = 0
  BY RadixIs DEF Zeros, Digit
<1> DEFINE S == {k \in Nat : k <= n => Readings(Zeros(n))[k] = 0}
<1>2. 0 \in S
  BY ReadingsUnfold
<1>3. ASSUME NEW k \in S PROVE k + 1 \in S
  <2> SUFFICES ASSUME k + 1 <= n PROVE Readings(Zeros(n))[k + 1] = 0
    OBVIOUS
  <2>1. Readings(Zeros(n))[k] = 0 /\ Zeros(n)[k + 1] = 0
    BY <1>1
  <2>2. Radix * 0 + 0 = 0
    BY RadixIs
  <2>3. QED
    BY <2>1, <2>2, ReadingsUnfold
<1> HIDE DEF S
<1>4. n \in S
  BY <1>2, <1>3, AllNaturals DEF S
<1>5. QED
  BY <1>1, <1>4 DEF S, Value

Stripped(d, n) ==
    /\ n \in 0..Len(d) /\ \A k \in (n + 1)..Len(d) : d[k] = 0
    /\ n = 0 \/ d[n] # 0

\* StripZeros() cuts after the last digit that is no zero.
LEMMA StripIs ==
    ASSUME NEW d \in Seq(Digit)
    PROVE  \E n \in Nat : /\ Stripped(d, n) /\ StripZeros(d) = SubSeq(d, 1, n)
                          /\ \A m \in Nat : Stripped(d, m) => m = n
<1> DEFINE T == {n \in Nat : n <= Len(d) /\ \A k \in (n + 1)..Len(d) : d[k] = 0}
<1>1. Len(d) \in T /\ T \in SUBSET Nat
  BY DigitsAre
<1> HIDE DEF T
<1>2. PICK n \in T : \A m \in T : n <= m
  BY <1>1, LeastNumber
<1>3. Stripped(d, n)
  <2>1. n \in Nat /\ n <= Len(d) /\ \A k \in (n + 1)..Len(d) : d[k] = 0
    BY DEF T
  <2>2. ASSUME n # 0, d[n] = 0 PROVE FALSE
    <3>1. PICK m \in Nat : n = m + 1
      <4>1. n - 1 \in Nat /\ n = (n - 1) + 1
        BY <2>1, <2>2
      <4>2. QED
        BY <4>1
    <3>2. \A k \in (m + 1)..Len(d) : k = n \/ k \in (n + 1)..Len(d)
      BY <2>1, <3>1, DigitsAre
    <3>3. m \in T
      BY <2>1, <2>2, <3>1, <3>2, DigitsAre DEF T
    <3>4. QED
      BY <1>2, <3>1, <3>3
  <2>3. QED
    BY <2>1, <2>2, DigitsAre DEF Stripped
<1>4. ASSUME NEW a \in Nat, NEW b \in Nat, Stripped(d, a), Stripped(d, b), a < b PROVE FALSE
  <2>1. b \in (a + 1)..Len(d) /\ b # 0
    BY <1>4, DigitsAre DEF Stripped
  <2>2. QED
    BY <1>4, <2>1 DEF Stripped
<1>5. \A a, b \in Nat : Stripped(d, a) /\ Stripped(d, b) => a = b
  BY <1>4
<1> DEFINE c == CHOOSE m \in 0..Len(d) : /\ \A k \in (m + 1)..Len(d) : d[k] = 0
                                         /\ m = 0 \/ d[m] # 0
<1>6. n \in 0..Len(d) /\ \A k \in (n + 1)..Len(d) : d[k] = 0
  BY <1>3 DEF Stripped
<1>7. n = 0 \/ d[n] # 0
  BY <1>3 DEF Stripped
<1>8. c \in 0..Len(d) /\ (\A k \in (c + 1)..Len(d) : d[k] = 0) /\ (c = 0 \/ d[c] # 0)
  BY <1>6, <1>7
<1>9. StripZeros(d) = SubSeq(d, 1, c)
  BY DEF StripZeros
<1> HIDE DEF c
<1>10. Stripped(d, c) /\ c \in Nat
  BY <1>8, DigitsAre DEF Stripped
<1>11. QED
  BY <1>5, <1>9, <1>10

\* What is cut off are zeros, and what is left does not end in one.
LEMMA StripSplits ==
    ASSUME NEW d \in Seq(Digit)
    PROVE  /\ StripZeros(d) \in Seq(Digit) /\ Len(StripZeros(d)) \in Nat
           /\ Len(StripZeros(d)) <= Len(d)
           /\ d = StripZeros(d) \o Zeros(Len(d) - Len(StripZeros(d)))
           /\ Len(StripZeros(d)) = 0 \/ StripZeros(d)[Len(StripZeros(d))] # 0
<1>1. PICK n \in Nat : Stripped(d, n) /\ StripZeros(d) = SubSeq(d, 1, n)
  BY StripIs
<1>2. n <= Len(d) /\ (\A k \in (n + 1)..Len(d) : d[k] = 0) /\ (n = 0 \/ d[n] # 0)
  BY <1>1 DEF Stripped
<1>3. PICK f \in Seq(Digit) : f = StripZeros(d) /\ Len(f) = n /\ \A k \in 1..n : f[k] = d[k]
  BY <1>1, <1>2, DigitsAre
<1>4. PICK z \in Nat : z = Len(d) - n /\ Len(d) = n + z
  BY <1>2, DigitsAre
<1>5. Zeros(z) \in Seq(Digit) /\ Len(Zeros(z)) = z /\ \A k \in 1..z : Zeros(z)[k] = 0
  BY ZerosAre DEF Zeros
<1>6. f \o Zeros(z) \in Seq(Digit) /\ Len(f \o Zeros(z)) = Len(d)
  BY <1>3, <1>4, <1>5, ConcatIs
<1>7. ASSUME NEW k \in 1..Len(d) PROVE (f \o Zeros(z))[k] = d[k]
  <2>1. CASE k <= n
    BY <1>3, <1>5, <2>1, ConcatIs
  <2>2. CASE n < k
    <3>1. PICK j \in 1..z : k = n + j
      BY <1>4, <2>2
    <3>2. QED
      BY <1>2, <1>3, <1>4, <1>5, <2>2, <3>1, ConcatIs
  <2>3. k <= n \/ n < k
    OBVIOUS
  <2>4. QED
    BY <2>1, <2>2, <2>3
<1>8. f \o Zeros(z) = d
  <2> DEFINE g == f \o Zeros(z)
  <2>1. g \in Seq(Digit) /\ Len(g) = Len(d) /\ \A k \in 1..Len(d) : g[k] = d[k]
    BY <1>6, <1>7
  <2> HIDE DEF g
  <2>2. g = d
    BY <2>1
  <2>3. QED
    BY <2>2 DEF g
<1>9. n = 0 \/ f[n] # 0
  BY <1>2, <1>3
<1>10. QED
  BY <1>2, <1>3, <1>4, <1>8, <1>9

\* The only such split is that of StripZeros().
LEMMA StripUnique ==
    ASSUME NEW g \in Seq(Digit), NEW z \in Nat, Len(g) = 0 \/ g[Len(g)] # 0
    PROVE  StripZeros(g \o Zeros(z)) = g
<1> DEFINE d == g \o Zeros(z)
<1>1. PICK n \in Nat : n = Len(g)
  BY DigitsAre
<1>2. Zeros(z) \in Seq(Digit) /\ Len(Zeros(z)) = z /\ \A k \in 1..z : Zeros(z)[k] = 0
  BY ZerosAre DEF Zeros
<1>3. d \in Seq(Digit) /\ Len(d) = n + z /\ \A k \in 1..n : d[k] = g[k]
  <2>1. d \in Seq(Digit) /\ Len(d) = Len(g) + Len(Zeros(z)) /\ \A k \in 1..Len(g) : d[k] = g[k]
    BY <1>2, ConcatIs
  <2>2. QED
    BY <1>1, <1>2, <2>1
<1>4. ASSUME NEW k \in (n + 1)..(n + z) PROVE d[k] = 0
  <2>1. PICK j \in 1..z : k = n + j
    OBVIOUS
  <2>2. QED
    BY <1>1, <1>2, <2>1, ConcatIs
<1> HIDE DEF d
<1>5. Stripped(d, n)
  BY <1>1, <1>3, <1>4 DEF Stripped
<1>6. StripZeros(d) = SubSeq(d, 1, n)
  BY <1>3, <1>5, StripIs
<1>7. SubSeq(d, 1, n) \in Seq(Digit) /\ Len(SubSeq(d, 1, n)) = n
      /\ \A k \in 1..n : SubSeq(d, 1, n)[k] = g[k]
  BY <1>3
<1>8. SubSeq(d, 1, n) = g
  BY <1>1, <1>7
<1>9. QED
  BY <1>6, <1>8 DEF d

LEMMA LastDigit ==
    ASSUME NEW d \in Seq(Digit), Len(d) > 0
    PROVE  \E x \in Nat : Value(d) = Radix * x + d[Len(d)]
<1>1. PICK m \in Nat : Len(d) = m + 1
  <2>1. Len(d) - 1 \in Nat /\ Len(d) = (Len(d) - 1) + 1
    BY DigitsAre
  <2>2. QED
    BY <2>1
<1>2. Readings(d)[m] \in Nat
  BY <1>1, ReadingsAre
<1>3. QED
  BY <1>1, <1>2, ReadingsUnfold DEF Value

LEMMA Cancel ==
    ASSUME NEW a \in Nat, NEW b \in Nat, NEW c \in Nat, c > 0, a * c = b * c
    PROVE  a = b
<1>1. ASSUME NEW x \in Nat, NEW y \in Nat, x + 1 <= y PROVE x * c # y * c
  <2>1. (x + 1) * c <= y * c
    BY <1>1
  <2>2. (x + 1) * c = x * c + c
    OBVIOUS
  <2>3. x * c \in Nat /\ y * c \in Nat
    OBVIOUS
  <2>4. QED
    BY <2>1, <2>2, <2>3
<1>2. a + 1 <= b \/ b + 1 <= a \/ a = b
  OBVIOUS
<1>3. QED
  BY <1>1, <1>2

LEMMA NotMultiple ==
    ASSUME NEW r \in Nat, NEW y \in Nat, NEW e \in Nat, NEW d \in Nat, 0 < d, d < r
    PROVE  r * y + d # r * e
<1>1. CASE e <= y
  <2>1. r * e <= r * y /\ r * e \in Nat /\ r * y \in Nat
    BY <1>1
  <2>2. QED
    BY <2>1
<1>2. CASE y + 1 <= e
  <2>1. r * (y + 1) <= r * e
    BY <1>2
  <2>2. r * (y + 1) = r * y + r /\ r * e \in Nat /\ r * y \in Nat
    OBVIOUS
  <2>3. QED
    BY <2>1, <2>2
<1>3. QED
  BY <1>1, <1>2

LEMMA Division ==
    ASSUME NEW n \in Nat, NEW m \in Nat, m > 0
    PROVE  /\ n \div m \in Nat /\ n % m \in Nat /\ n % m < m
           /\ n = (n \div m) * m + (n % m)
<1>1. n \div m \in Nat /\ n % m \in 0..(m - 1)
  OBVIOUS
<1>2. n = m * (n \div m) + (n % m)
  OBVIOUS
<1>3. QED
  BY <1>1, <1>2

LEMMA ValueShifted ==
    ASSUME NEW d \in Seq(Digit), NEW z \in Nat
    PROVE  Value(d \o Zeros(z)) = Value(d) * Power[z]
<1>1. Zeros(z) \in Seq(Digit) /\ Len(Zeros(z)) = z /\ Value(Zeros(z)) = 0
  BY ZerosAre
<1>2. Value(d \o Zeros(z)) = Value(d) * Power[Len(Zeros(z))] + Value(Zeros(z))
  BY <1>1, ValueOfConcat
<1>3. Value(d) * Power[z] \in Nat
  BY ValueIs, PowerGrows
<1>4. QED
  BY <1>1, <1>2, <1>3

Wei(whole, fraction) ==
    Value(whole) * SCALE + Value(fraction \o Zeros(DECIMALS - Len(fraction)))

PlainExact(whole, f, u, shift) ==
    /\ Len(f) <= DECIMALS =>
         /\ Wei(whole, f) \in Nat
         /\ shift >= 0 => Wei(whole, f) = u * Power[shift]
         /\ shift < 0 => Wei(whole, f) * Power[-shift] = u
    /\ Len(f) > DECIMALS => shift < 0 /\ u % Power[-shift] # 0

\* Amount.from() on a text without exponent: the wei are the exact value of the
\* digits, and a text is refused only if it has a part of a wei.
LEMMA PlainRead ==
    ASSUME NEW whole \in Seq(Digit), NEW fraction \in Seq(Digit),
           NEW f, f = StripZeros(fraction),
           NEW u, u = Value(whole \o fraction),
           NEW shift, shift = DECIMALS - Len(fraction)
    PROVE  PlainExact(whole, f, u, shift)
<1>1. PICK a, z \in Nat : /\ a = Len(f) /\ Len(fraction) = a + z /\ f \in Seq(Digit)
                          /\ fraction = f \o Zeros(z) /\ (a = 0 \/ f[a] # 0)
  <2>1. Len(fraction) \in Nat /\ Len(f) \in Nat /\ Len(f) <= Len(fraction)
    BY StripSplits, DigitsAre
  <2>2. PICK z \in Nat : z = Len(fraction) - Len(f) /\ Len(fraction) = Len(f) + z
    BY <2>1
  <2>3. QED
    BY <2>1, <2>2, StripSplits
<1>2. PICK w, x, pa, pz \in Nat : w = Value(whole) /\ x = Value(f) /\ pa = Power[a] /\ pz = Power[z]
  BY <1>1, ValueIs, PowerGrows
<1>3. PICK v \in Nat : v = w * pa + x /\ v = Value(whole \o f)
  <2>1. Value(whole \o f) = w * pa + x
    BY <1>1, <1>2, ValueOfConcat
  <2>2. w * pa + x \in Nat
    OBVIOUS
  <2>3. QED
    BY <2>1, <2>2
<1>4. u = v * pz
  <2>1. Value(fraction) = x * pz
    <3>1. Value(f \o Zeros(z)) = x * pz
      BY <1>1, <1>2, ValueShifted
    <3>2. QED
      BY <1>1, <3>1
  <2>2. Power[a + z] = pa * pz
    BY <1>2, PowerSum
  <2>3. u = w * (pa * pz) + x * pz
    BY <1>1, <1>2, <2>1, <2>2, ValueOfConcat
  <2>4. w * (pa * pz) + x * pz = (w * pa + x) * pz
    OBVIOUS
  <2>5. QED
    BY <1>3, <2>3, <2>4
<1>5. u \in Nat /\ shift \in Int
  <2>1. v * pz \in Nat
    OBVIOUS
  <2>2. QED
    BY <1>1, <1>4, <2>1, RadixIs
<1>6. CASE a <= DECIMALS
  <2>1. PICK b \in Nat : b = DECIMALS - a /\ DECIMALS = a + b
    BY <1>6, RadixIs
  <2>2. PICK pb \in Nat : pb = Power[b]
    BY PowerGrows
  <2>3. Wei(whole, f) = v * pb
    <3>1. Value(f \o Zeros(b)) = x * pb
      BY <1>1, <1>2, <2>2, ValueShifted
    <3>2. SCALE = pa * pb
      BY <1>2, <2>1, <2>2, PowerSum DEF SCALE
    <3>3. w * (pa * pb) + x * pb = (w * pa + x) * pb
      OBVIOUS
    <3>4. QED
      BY <1>1, <1>2, <1>3, <2>1, <3>1, <3>2, <3>3 DEF Wei
  <2>4. v * pb \in Nat
    OBVIOUS
  <2>5. ASSUME shift >= 0 PROVE Wei(whole, f) = u * Power[shift]
    <3>1. shift \in Nat /\ b = z + shift
      BY <1>1, <1>5, <2>1, <2>5, RadixIs
    <3>2. PICK ps \in Nat : ps = Power[shift] /\ pb = pz * ps
      BY <1>2, <2>2, <3>1, PowerSum, PowerGrows
    <3>3. v * (pz * ps) = (v * pz) * ps
      OBVIOUS
    <3>4. QED
      BY <1>4, <2>3, <3>2, <3>3
  <2>6. ASSUME shift < 0 PROVE Wei(whole, f) * Power[-shift] = u
    <3>1. PICK t \in Nat : t = -shift /\ z = b + t
      <4>1. shift = b - z /\ shift \in Int
        BY <1>1, <1>5, <2>1, RadixIs
      <4>2. -shift \in Nat /\ z = b + (-shift)
        BY <2>6, <4>1
      <4>3. QED
        BY <4>2
    <3>2. PICK pt \in Nat : pt = Power[t] /\ pz = pb * pt
      BY <1>2, <2>2, <3>1, PowerSum, PowerGrows
    <3>3. v * (pb * pt) = (v * pb) * pt
      OBVIOUS
    <3>4. QED
      BY <1>4, <2>3, <3>1, <3>2, <3>3
  <2>7. QED
    BY <1>1, <1>5, <1>6, <2>3, <2>4, <2>5, <2>6, RadixIs DEF PlainExact
<1>7. CASE a > DECIMALS
  <2>1. PICK c \in Nat : a = DECIMALS + 1 + c
    <3>1. a - DECIMALS - 1 \in Nat /\ a = DECIMALS + 1 + (a - DECIMALS - 1)
      BY <1>7, RadixIs
    <3>2. QED
      BY <3>1
  <2>2. shift < 0 /\ -shift = z + (c + 1)
    BY <1>1, <2>1, RadixIs
  <2>3. PICK pc \in Nat : pc = Power[c]
    BY PowerGrows
  <2>4. Power[-shift] = pz * (Radix * pc)
    BY <1>2, <2>2, <2>3, PowerSum, PowerUnfolds
  <2>5. PICK y, d \in Nat : v = Radix * y + d /\ 0 < d /\ d < Radix
    <3>1. /\ whole \o f \in Seq(Digit) /\ Len(whole \o f) = Len(whole) + a /\ a \in 1..a
          /\ a > 0 /\ (whole \o f)[Len(whole) + a] = f[a]
      BY <1>1, <1>7, ConcatIs, RadixIs
    <3>2. Len(whole) \in Nat /\ f[a] \in Nat /\ f[a] < Radix /\ f[a] # 0
      BY <1>1, <3>1, DigitsAre
    <3>3. Len(whole \o f) > 0
      BY <3>1, <3>2
    <3>4. PICK y \in Nat : Value(whole \o f) = Radix * y + (whole \o f)[Len(whole \o f)]
      BY <3>1, <3>3, LastDigit
    <3>5. QED
      BY <1>3, <3>1, <3>2, <3>4
  <2>6. ASSUME u % Power[-shift] = 0 PROVE FALSE
    <3>1. PICK m \in Nat : m = pz * (Radix * pc) /\ m > 0
      <4>1. -shift \in Nat
        BY <2>2
      <4>2. QED
        BY <2>4, <4>1, PowerGrows
    <3>2. PICK q \in Nat : u = q * m
      <4>1. u % m = 0
        BY <2>4, <2>6, <3>1
      <4>2. PICK q \in Nat : u = q * m + (u % m)
        BY <1>5, <3>1, Division
      <4>3. u = q * m + 0 /\ q * m \in Nat
        BY <4>1, <4>2
      <4>4. u = q * m
        BY <4>3
      <4>5. QED
        BY <4>4
    <3>3. v * pz = (Radix * (q * pc)) * pz
      <4>1. q * (pz * (Radix * pc)) = (Radix * (q * pc)) * pz
        BY RadixIs
      <4>2. QED
        BY <1>4, <3>1, <3>2, <4>1
    <3>4. pz > 0 /\ Radix * (q * pc) \in Nat /\ q * pc \in Nat
      BY <1>2, PowerGrows, RadixIs
    <3>5. v = Radix * (q * pc)
      BY <3>3, <3>4, Cancel
    <3>6. QED
      BY <2>5, <3>4, <3>5, NotMultiple, RadixIs
  <2>7. QED
    BY <1>1, <1>5, <1>7, <2>2, <2>6, RadixIs DEF PlainExact
<1>8. QED
  BY <1>6, <1>7, RadixIs

LEMMA DivUnique ==
    ASSUME NEW n \in Nat, NEW d \in Nat, NEW q \in Nat, q * d <= n, n < q * d + d
    PROVE  n \div d = q
<1>1. d > 0
  <2>1. q * d \in Nat
    OBVIOUS
  <2>2. QED
    BY <2>1
<1>2. PICK e, r \in Nat : e = n \div d /\ n = e * d + r /\ r < d
  BY <1>1, Division
<1>3. ASSUME NEW x \in Nat, NEW y \in Nat, x + 1 <= y PROVE x * d + d <= y * d
  <2>1. (x + 1) * d <= y * d
    BY <1>3
  <2>2. QED
    BY <2>1
<1>4. q * d \in Nat /\ e * d \in Nat
  OBVIOUS
<1>5. ~(q + 1 <= e) /\ ~(e + 1 <= q)
  BY <1>2, <1>3, <1>4
<1>6. QED
  BY <1>2, <1>5

LEMMA DivDiv ==
    ASSUME NEW n \in Nat, NEW p \in Nat, NEW r \in Nat, p > 0, r > 0
    PROVE  n \div (r * p) = (n \div p) \div r
<1>1. PICK m, b \in Nat : m = n \div p /\ n = m * p + b /\ b < p
  BY Division
<1>2. PICK q, c \in Nat : q = m \div r /\ m = q * r + c /\ c < r
  BY Division
<1>3. m * p = q * (r * p) + c * p
  BY <1>2
<1>4. c * p + p <= r * p
  <2>1. (c + 1) * p <= r * p
    BY <1>2
  <2>2. QED
    BY <2>1
<1>5. q * (r * p) \in Nat /\ c * p \in Nat /\ r * p \in Nat
  OBVIOUS
<1>6. q * (r * p) <= n /\ n < q * (r * p) + r * p
  BY <1>1, <1>3, <1>4, <1>5
<1>7. QED
  BY <1>1, <1>2, <1>5, <1>6, DivUnique

LEMMA WidthIs ==
    ASSUME NEW n \in Nat
    PROVE  /\ Width(n) \in Nat /\ Width(n) > 0 /\ n < Power[Width(n)]
           /\ \A v \in 1..(Width(n) - 1) : Power[v] <= n
<1> DEFINE T == {w \in Nat : w > 0 /\ n < Power[w]}
<1>1. n + 1 \in T /\ T \in SUBSET Nat
  BY PowerGrows
<1> HIDE DEF T
<1>2. PICK w \in T : \A m \in T : w <= m
  BY <1>1, LeastNumber
<1>3. w \in 1..(n + 1) /\ n < Power[w]
  BY <1>1, <1>2 DEF T
<1>4. ASSUME NEW v \in 1..(w - 1) PROVE Power[v] <= n
  <2>1. v \in Nat /\ v > 0 /\ ~(w <= v) /\ Power[v] \in Nat
    BY <1>3, PowerGrows
  <2>2. v \notin T
    BY <1>2, <2>1
  <2>3. QED
    BY <2>1, <2>2 DEF T
<1> DEFINE c == CHOOSE x \in 1..(n + 1) : n < Power[x] /\ \A v \in 1..(x - 1) : Power[v] <= n
<1>5. c \in 1..(n + 1) /\ n < Power[c] /\ \A v \in 1..(c - 1) : Power[v] <= n
  BY <1>3, <1>4
<1>6. Width(n) = c
  BY DEF Width
<1> HIDE DEF c
<1>7. QED
  BY <1>5, <1>6

\* A number is the value of its digits.
LEMMA DigitsOf ==
    ASSUME NEW n \in Nat
    PROVE  Digits(n) \in Seq(Digit) /\ Len(Digits(n)) = Width(n) /\ Value(Digits(n)) = n
<1>1. PICK w \in Nat : w = Width(n) /\ w > 0 /\ n < Power[w]
  BY WidthIs
<1>2. ASSUME NEW k \in 1..w PROVE (n \div Power[w - k]) % Radix \in Digit
  <2>1. w - k \in Nat
    OBVIOUS
  <2>2. PICK p \in Nat : p = Power[w - k] /\ p > 0
    BY <2>1, PowerGrows
  <2>3. n \div p \in Nat
    BY <2>2, Division
  <2>4. QED
    BY <2>2, <2>3, Division, RadixIs DEF Digit
<1> DEFINE d == [k \in 1..w |-> (n \div Power[w - k]) % Radix]
<1>3. Digits(n) = d
  BY <1>1 DEF Digits
<1>4. d \in Seq(Digit) /\ Len(d) = w
  BY <1>2
<1>5. \A k \in 1..w : d[k] = (n \div Power[w - k]) % Radix
  OBVIOUS
<1> HIDE DEF d
<1> DEFINE S == {k \in Nat : k <= w => Readings(d)[k] = n \div Power[w - k]}
<1>6. 0 \in S
  <2>1. PICK p \in Nat : p = Power[w] /\ n < p
    BY <1>1, PowerGrows
  <2>2. 0 * p <= n /\ n < 0 * p + p
    BY <2>1
  <2>3. n \div p = 0
    BY <2>2, DivUnique
  <2>4. w - 0 = w
    OBVIOUS
  <2>5. QED
    BY <2>1, <2>3, <2>4, ReadingsUnfold
<1>7. ASSUME NEW k \in S PROVE k + 1 \in S
  <2> SUFFICES ASSUME k + 1 <= w PROVE Readings(d)[k + 1] = n \div Power[w - (k + 1)]
    OBVIOUS
  <2>1. PICK j \in Nat : j = w - (k + 1) /\ w - k = j + 1
    OBVIOUS
  <2>2. PICK p \in Nat : p = Power[j] /\ p > 0 /\ Power[w - k] = Radix * p
    BY <2>1, PowerGrows, PowerUnfolds
  <2>3. PICK m \in Nat : m = n \div p
    BY <2>2, Division
  <2>4. n \div (Radix * p) = m \div Radix
    BY <2>2, <2>3, DivDiv, RadixIs
  <2>5. Readings(d)[k] = m \div Radix
    BY <2>2, <2>4
  <2>6. d[k + 1] = m % Radix
    BY <1>5, <2>1, <2>2, <2>3
  <2>7. Readings(d)[k + 1] = Radix * (m \div Radix) + (m % Radix)
    BY <2>5, <2>6, ReadingsUnfold
  <2>8. m = Radix * (m \div Radix) + (m % Radix)
    <3>1. m \div Radix \in Nat /\ m = (m \div Radix) * Radix + (m % Radix)
      BY Division, RadixIs
    <3>2. QED
      BY <3>1, RadixIs
  <2>9. QED
    BY <2>1, <2>2, <2>3, <2>7, <2>8
<1> HIDE DEF S
<1>8. w \in S
  BY <1>6, <1>7, AllNaturals DEF S
<1>9. w - w = 0 /\ n \div 1 = n
  OBVIOUS
<1>10. Readings(d)[w] = n
  BY <1>8, <1>9, PowerUnfolds DEF S
<1>11. QED
  BY <1>1, <1>3, <1>4, <1>10 DEF Value

LEMMA PaddedOf ==
    ASSUME NEW n \in Nat, n < SCALE
    PROVE  /\ Padded(n) \in Seq(Digit) /\ Value(Padded(n)) = n
           /\ DECIMALS = 0 => n = 0
           /\ DECIMALS > 0 => Len(Padded(n)) = DECIMALS
<1>1. PICK d \in Seq(Digit) : d = Digits(n) /\ Len(d) = Width(n) /\ Value(d) = n
  BY DigitsOf
<1>2. Len(d) \in Nat /\ Len(d) > 0 /\ \A v \in 1..(Len(d) - 1) : Power[v] <= n
  BY <1>1, WidthIs
<1>3. SCALE = Power[DECIMALS] /\ SCALE \in Nat
  BY RadixIs, PowerGrows DEF SCALE
<1>4. DECIMALS = 0 => n = 0
  BY <1>3, PowerUnfolds
<1>5. ASSUME DECIMALS > 0 PROVE Len(d) <= DECIMALS
  <2>1. ASSUME DECIMALS < Len(d) PROVE FALSE
    <3>1. DECIMALS \in 1..(Len(d) - 1)
      BY <1>2, <1>5, <2>1, RadixIs
    <3>2. QED
      BY <1>2, <1>3, <3>1
  <2>2. QED
    BY <1>2, <2>1, RadixIs
<1>6. CASE Len(d) < DECIMALS
  <2>1. PICK z \in Nat : z = DECIMALS - Len(d)
    <3>1. DECIMALS - Len(d) \in Nat
      BY <1>2, <1>6, RadixIs
    <3>2. QED
      BY <3>1
  <2>2. Padded(n) = Zeros(z) \o d
    BY <1>1, <1>6, <2>1 DEF Padded
  <2>3. Zeros(z) \in Seq(Digit) /\ Len(Zeros(z)) = z /\ Value(Zeros(z)) = 0
    BY ZerosAre
  <2>4. Value(Zeros(z) \o d) = 0 * Power[Len(d)] + n
    BY <1>1, <2>3, ValueOfConcat
  <2>5. Power[Len(d)] \in Nat
    BY <1>2, PowerGrows
  <2>6. 0 * Power[Len(d)] + n = n
    BY <2>5
  <2>7. Zeros(z) \o d \in Seq(Digit) /\ Len(Zeros(z) \o d) = z + Len(d)
    BY <2>3, ConcatIs
  <2>8. QED
    BY <1>2, <1>4, <2>1, <2>2, <2>4, <2>6, <2>7, RadixIs
<1>7. CASE ~(Len(d) < DECIMALS)
  <2>1. Padded(n) = d
    BY <1>1, <1>7 DEF Padded
  <2>2. QED
    BY <1>1, <1>2, <1>4, <1>5, <1>7, <2>1, RadixIs
<1>8. QED
  BY <1>6, <1>7

\* The fraction a form prints is read back as the wei it was made from.
LEMMA FractionRead ==
    ASSUME NEW n \in Nat, n < SCALE, NEW f, f = StripZeros(Padded(n))
    PROVE  /\ f \in Seq(Digit) /\ Len(f) \in Nat /\ Len(f) <= DECIMALS
           /\ Len(f) = 0 \/ f[Len(f)] # 0
           /\ Value(f \o Zeros(DECIMALS - Len(f))) = n
<1>1. Padded(n) \in Seq(Digit) /\ Value(Padded(n)) = n
  BY PaddedOf
<1>2. /\ f \in Seq(Digit) /\ Len(f) \in Nat /\ Len(f) <= Len(Padded(n))
      /\ Padded(n) = f \o Zeros(Len(Padded(n)) - Len(f))
      /\ Len(f) = 0 \/ f[Len(f)] # 0
  BY <1>1, StripSplits
<1>3. CASE DECIMALS > 0
  BY <1>1, <1>2, <1>3, PaddedOf
<1>4. CASE DECIMALS = 0
  <2>1. n = 0
    BY <1>4, PaddedOf
  <2>2. PICK z \in Nat : z = Len(Padded(n)) - Len(f)
    <3>1. Len(Padded(n)) - Len(f) \in Nat
      BY <1>1, <1>2, DigitsAre
    <3>2. QED
      BY <3>1
  <2>3. PICK v, p \in Nat : v = Value(f) /\ p = Power[z] /\ p > 0
    BY <1>2, ValueIs, PowerGrows
  <2>4. v * p = 0 * p
    <3>1. v * p = 0
      <4>1. Padded(n) = f \o Zeros(z)
        BY <1>2, <2>2
      <4>2. Value(f \o Zeros(z)) = Value(f) * Power[z]
        BY <1>2, ValueShifted
      <4>3. QED
        BY <1>1, <2>1, <2>3, <4>1, <4>2
    <3>2. QED
      BY <3>1
  <2>5. v = 0
    BY <2>3, <2>4, Cancel
  <2>6. ASSUME Len(f) > 0 PROVE FALSE
    <3>1. PICK x \in Nat : v = Radix * x + f[Len(f)]
      BY <1>2, <2>3, <2>6, LastDigit
    <3>2. f[Len(f)] \in Nat /\ f[Len(f)] > 0
      <4>1. Len(f) \in 1..Len(f) /\ f[Len(f)] # 0
        BY <1>2, <2>6
      <4>2. QED
        BY <1>2, <4>1, DigitsAre
    <3>3. Radix * x \in Nat
      BY RadixIs
    <3>4. QED
      BY <2>5, <3>1, <3>2, <3>3
  <2>7. Len(f) = 0 /\ DECIMALS - Len(f) = 0
    BY <1>2, <1>4, <2>6
  <2>8. Value(f \o Zeros(0)) = 0 * Power[0]
    BY <1>2, <2>3, <2>5, ValueShifted
  <2>9. QED
    BY <1>2, <1>4, <2>1, <2>7, <2>8, PowerUnfolds
<1>5. QED
  BY <1>3, <1>4, RadixIs

\* Every form the rail prints is read back as the same amount.
LEMMA FormsRead ==
    ASSUME NEW wei \in Int, NEW form \in {toFixed(wei), toPlain(wei), toString(wei)}
    PROVE  from(form) = <<wei>>
<1>1. PICK a \in Nat : a = Absolute(wei) /\ wei = IF wei < 0 THEN -a ELSE a
  <2>1. Absolute(wei) \in Nat /\ wei = IF wei < 0 THEN -Absolute(wei) ELSE Absolute(wei)
    BY DEF Absolute
  <2>2. QED
    BY <2>1
<1>2. PICK scale \in Nat : scale = SCALE /\ scale > 0
  BY RadixIs, PowerGrows DEF SCALE
<1>3. PICK q, n \in Nat : q = a \div SCALE /\ n = a % SCALE /\ n < SCALE /\ a = q * SCALE + n
  BY <1>2, Division
<1>4. PICK whole \in Seq(Digit) : whole = Digits(q) /\ Value(whole) = q
  BY DigitsOf
<1>5. PICK f \in Seq(Digit) : /\ f = StripZeros(Padded(n)) /\ Len(f) \in Nat
                              /\ Len(f) <= DECIMALS /\ (Len(f) = 0 \/ f[Len(f)] # 0)
                              /\ Value(f \o Zeros(DECIMALS - Len(f))) = n
  BY <1>3, FractionRead
<1>6. Wei(whole, f) = a
  BY <1>3, <1>4, <1>5 DEF Wei
<1>7. StripZeros(f) = f
  <2>1. StripZeros(f \o Zeros(0)) = f
    BY <1>5, StripUnique
  <2>2. f \o Zeros(0) = f
    BY <1>5 DEF Zeros
  <2>3. QED
    BY <2>1, <2>2
<1>8. f = <<>> => StripZeros(<<0>>) = f
  <2>1. <<>> \in Seq(Digit) /\ Len(<<>>) = 0
    OBVIOUS
  <2>2. StripZeros(<<>> \o Zeros(1)) = <<>>
    BY <2>1, StripUnique
  <2>3. <<>> \o Zeros(1) = <<0>>
    BY DEF Zeros
  <2>4. QED
    BY <2>2, <2>3
<1>9. PICK g : /\ form = [negative |-> wei < 0, whole |-> whole, fraction |-> g,
                          exponent |-> NoExponent]
               /\ StripZeros(g) = f
  <2>1. toFixed(wei) = [negative |-> wei < 0, whole |-> whole, fraction |-> Padded(n),
                        exponent |-> NoExponent]
    BY <1>1, <1>3, <1>4 DEF toFixed
  <2>2. toPlain(wei) = [negative |-> wei < 0, whole |-> whole, fraction |-> f,
                        exponent |-> NoExponent]
    BY <1>5, <2>1 DEF toPlain
  <2>3. toString(wei) = [negative |-> wei < 0, whole |-> whole,
                         fraction |-> IF f = <<>> THEN <<0>> ELSE f, exponent |-> NoExponent]
    BY <2>2 DEF toString
  <2>4. QED
    BY <1>5, <1>7, <1>8, <2>1, <2>2, <2>3
<1>10. expandExponent(form) = form
  BY <1>9 DEF expandExponent
<1>11. from(form) = <<IF wei < 0 THEN -Wei(whole, f) ELSE Wei(whole, f)>>
  <2>1. /\ form.exponent = NoExponent /\ form.whole = whole /\ StripZeros(form.fraction) = f
        /\ form.negative = (wei < 0)
    BY <1>9
  <2>2. ~(Len(f) > DECIMALS)
    BY <1>5, RadixIs
  <2>3. QED
    BY <1>10, <2>1, <2>2 DEF from, Wei
<1>12. QED
  BY <1>1, <1>6, <1>11

Text == [negative: BOOLEAN, whole: Seq(Digit), fraction: Seq(Digit),
         exponent: Int \cup {NoExponent}]

PlainText(text, whole, fraction) ==
    [negative |-> text.negative, whole |-> whole, fraction |-> fraction, exponent |-> NoExponent]

\* The three places the point may move to.
LEMMA ExpandIs ==
    ASSUME NEW text \in Text, text.exponent # NoExponent,
           NEW digits, digits = text.whole \o text.fraction, Len(digits) \in Nat,
           NEW point \in Int, point = Len(text.whole) + text.exponent
    PROVE  /\ point <= 0 =>
                expandExponent(text) = PlainText(text, <<0>>, Zeros(-point) \o digits)
           /\ point > 0 /\ point >= Len(digits) =>
                expandExponent(text) = PlainText(text, digits \o Zeros(point - Len(digits)), <<>>)
           /\ point > 0 /\ point < Len(digits) =>
                expandExponent(text) = PlainText(text, SubSeq(digits, 1, point),
                                                 SubSeq(digits, point + 1, Len(digits)))
<1>1. ASSUME point <= 0
      PROVE  expandExponent(text) = PlainText(text, <<0>>, Zeros(-point) \o digits)
  BY <1>1 DEF expandExponent, PlainText
<1>2. ASSUME point > 0, point >= Len(digits)
      PROVE  expandExponent(text) = PlainText(text, digits \o Zeros(point - Len(digits)), <<>>)
  <2>1. ~(point <= 0)
    BY <1>2
  <2>2. QED
    BY <1>2, <2>1, Zenon DEF expandExponent, PlainText
<1>3. ASSUME point > 0, point < Len(digits)
      PROVE  expandExponent(text) = PlainText(text, SubSeq(digits, 1, point),
                                              SubSeq(digits, point + 1, Len(digits)))
  <2>1. ~(point <= 0)
    BY <1>3
  <2>2. \A x \in Int, y \in Nat : x < y => ~(x >= y)
    OBVIOUS
  <2>3. ~(point >= Len(digits))
    BY <1>3, <2>2, Zenon
  <2>4. QED
    BY <2>1, <2>3, Zenon DEF expandExponent, PlainText
<1>4. QED
  BY <1>1, <1>2, <1>3

LEMMA PartsAre ==
    ASSUME NEW d \in Seq(Digit), NEW i \in Nat, i <= Len(d)
    PROVE  /\ SubSeq(d, 1, i) \in Seq(Digit) /\ Len(SubSeq(d, 1, i)) = i
           /\ SubSeq(d, i + 1, Len(d)) \in Seq(Digit) /\ Len(SubSeq(d, i + 1, Len(d))) = Len(d) - i
           /\ SubSeq(d, 1, i) \o SubSeq(d, i + 1, Len(d)) = d
<1>1. PICK c \in Nat : c = Len(d)
  BY DigitsAre
<1> DEFINE w == SubSeq(d, 1, i)
           g == SubSeq(d, i + 1, c)
<1>2. w \in Seq(Digit) /\ Len(w) = i /\ \A k \in 1..i : w[k] = d[k]
  BY <1>1
<1>3. g \in Seq(Digit) /\ Len(g) = c - i
  BY <1>1
<1>4. \A k \in 1..(c - i) : g[k] = d[i + k]
  BY <1>1
<1> HIDE DEF w, g
<1>5. w \o g = d
  <2> DEFINE h == w \o g
  <2>1. h \in Seq(Digit) /\ Len(h) = i + (c - i) /\ i + (c - i) = c
    BY <1>1, <1>2, <1>3, ConcatIs
  <2>2. ASSUME NEW k \in 1..c PROVE h[k] = d[k]
    <3>1. CASE k <= i
      BY <1>2, <1>3, <3>1, ConcatIs
    <3>2. CASE i < k
      <4>1. PICK j \in 1..(c - i) : k = i + j
        BY <3>2
      <4>2. (w \o g)[Len(w) + j] = g[j]
        BY <1>2, <1>3, ConcatIs
      <4>3. QED
        BY <1>2, <1>4, <4>1, <4>2
    <3>3. k <= i \/ i < k
      OBVIOUS
    <3>4. QED
      BY <3>1, <3>2, <3>3
  <2> HIDE DEF h
  <2>3. h = d
    BY <1>1, <2>1, <2>2
  <2>4. QED
    BY <2>3 DEF h
<1>6. QED
  BY <1>1, <1>2, <1>3, <1>5 DEF w, g

Moved(text, whole, fraction, s) ==
    /\ expandExponent(text) = PlainText(text, whole, fraction)
    /\ Value(whole \o fraction) = Value(text.whole \o text.fraction) * Power[s]
    /\ Shift(text) = (DECIMALS - Len(fraction)) + s
    /\ s > 0 => fraction = <<>>

\* Moving the point keeps the value: either no digit is added, or the zeros
\* that are leave no fraction.
LEMMA PointMoves ==
    ASSUME NEW text \in Text
    PROVE  \E whole, fraction \in Seq(Digit), s \in Nat : Moved(text, whole, fraction, s)
<1>1. /\ text.whole \in Seq(Digit) /\ text.fraction \in Seq(Digit)
      /\ text = [negative |-> text.negative, whole |-> text.whole, fraction |-> text.fraction,
                 exponent |-> text.exponent]
  BY DEF Text
<1>2. PICK digits \in Seq(Digit) : /\ digits = text.whole \o text.fraction
                                   /\ Len(digits) = Len(text.whole) + Len(text.fraction)
  BY <1>1, ConcatIs
<1>3. PICK a, b, c, v \in Nat : /\ a = Len(text.whole) /\ b = Len(text.fraction)
                               /\ c = Len(digits) /\ c = a + b /\ v = Value(digits)
  BY <1>1, <1>2, ValueIs, DigitsAre
<1>4. v * Power[0] = v /\ c = a + b
  BY <1>3, PowerUnfolds
<1>5. CASE text.exponent = NoExponent
  <2>1. expandExponent(text) = PlainText(text, text.whole, text.fraction)
    BY <1>1, <1>5 DEF expandExponent, PlainText
  <2>2. Shift(text) = (DECIMALS - b) + 0
    BY <1>3, <1>5, RadixIs DEF Shift
  <2>3. Moved(text, text.whole, text.fraction, 0)
    BY <1>2, <1>3, <1>4, <2>1, <2>2 DEF Moved
  <2>4. QED
    BY <1>1, <2>3
<1>6. CASE text.exponent # NoExponent
  <2>1. PICK e \in Int : e = text.exponent
    BY <1>6 DEF Text
  <2>2. Shift(text) = DECIMALS - b + e
    BY <1>3, <1>6, <2>1 DEF Shift
  <2>3. PICK point \in Int : point = a + e /\ point = Len(text.whole) + text.exponent
    BY <1>3, <2>1
  <2> point = a + e
    BY <2>3
  <2>4. /\ point <= 0 =>
             expandExponent(text) = PlainText(text, <<0>>, Zeros(-point) \o digits)
        /\ point > 0 /\ point >= Len(digits) =>
             expandExponent(text) = PlainText(text, digits \o Zeros(point - Len(digits)), <<>>)
        /\ point > 0 /\ point < Len(digits) =>
             expandExponent(text) = PlainText(text, SubSeq(digits, 1, point),
                                              SubSeq(digits, point + 1, Len(digits)))
    <3>1. Len(digits) \in Nat
      BY <1>3
    <3>2. QED
      BY <1>2, <1>6, <2>3, <3>1, ExpandIs
  <2>5. CASE point <= 0
    <3>1. PICK z \in Nat : z = -point
      BY <2>5
    <3>2. expandExponent(text) = PlainText(text, <<0>>, Zeros(z) \o digits)
      BY <2>4, <2>5, <3>1
    <3>3. Zeros(z) \in Seq(Digit) /\ Len(Zeros(z)) = z /\ Value(Zeros(z)) = 0
      BY ZerosAre
    <3>4. <<0>> \in Seq(Digit) /\ Value(<<0>>) = 0
      <4>1. Zeros(1) = <<0>>
        BY DEF Zeros
      <4>2. Zeros(1) \in Seq(Digit) /\ Value(Zeros(1)) = 0
        BY ZerosAre
      <4>3. QED
        BY <4>1, <4>2
    <3>5. Zeros(z) \o digits \in Seq(Digit) /\ Len(Zeros(z) \o digits) = z + c
      BY <1>3, <3>3, ConcatIs
    <3>6. PICK p, r \in Nat : p = Power[c] /\ r = Power[z + c]
      BY PowerGrows
    <3>7. Value(Zeros(z) \o digits) = 0 * p + v
      BY <1>3, <3>3, <3>6, ValueOfConcat
    <3>8. Value(<<0>> \o (Zeros(z) \o digits)) = 0 * r + (0 * p + v)
      BY <3>4, <3>5, <3>6, <3>7, ValueOfConcat
    <3>9. 0 * r + (0 * p + v) = v
      OBVIOUS
    <3>10. DECIMALS - b + e = (DECIMALS - (z + c)) + 0
      BY <1>4, <3>1, RadixIs
    <3>11. Moved(text, <<0>>, Zeros(z) \o digits, 0)
      <4>1. Value(<<0>> \o (Zeros(z) \o digits)) = Value(text.whole \o text.fraction) * Power[0]
        BY <1>2, <1>3, <1>4, <3>8, <3>9
      <4>2. Shift(text) = (DECIMALS - Len(Zeros(z) \o digits)) + 0
        BY <2>2, <3>5, <3>10
      <4>3. QED
        BY <3>2, <4>1, <4>2 DEF Moved
    <3>12. QED
      BY <3>4, <3>5, <3>11
  <2>6. CASE point > 0 /\ point >= c
    <3>1. PICK s \in Nat : s = point - c
      BY <2>6
    <3>2. expandExponent(text) = PlainText(text, digits \o Zeros(s), <<>>)
      BY <1>3, <2>4, <2>6, <3>1
    <3>3. digits \o Zeros(s) \in Seq(Digit)
      BY ZerosAre, ConcatIs
    <3>4. (digits \o Zeros(s)) \o <<>> = digits \o Zeros(s)
      BY <3>3
    <3>5. Value(digits \o Zeros(s)) = v * Power[s]
      BY <1>3, ValueShifted
    <3>6. DECIMALS - b + e = (DECIMALS - 0) + s
      BY <1>4, <3>1, RadixIs
    <3>7. <<>> \in Seq(Digit) /\ Len(<<>>) = 0
      OBVIOUS
    <3>8. Moved(text, digits \o Zeros(s), <<>>, s)
      BY <1>2, <1>3, <2>2, <3>2, <3>4, <3>5, <3>6, <3>7 DEF Moved
    <3>9. QED
      BY <3>3, <3>7, <3>8
  <2>7. CASE point > 0 /\ point < c
    <3>1. PICK i \in Nat : i = point /\ i <= c
      BY <2>7
    <3>2. i <= Len(digits) /\ point < Len(digits)
      BY <1>3, <2>7, <3>1
    <3>3. PICK w, g \in Seq(Digit) : /\ w = SubSeq(digits, 1, i)
                                     /\ g = SubSeq(digits, i + 1, Len(digits))
                                     /\ Len(g) = Len(digits) - i /\ w \o g = digits
      <4>1. /\ SubSeq(digits, 1, i) \in Seq(Digit)
            /\ SubSeq(digits, i + 1, Len(digits)) \in Seq(Digit)
            /\ Len(SubSeq(digits, i + 1, Len(digits))) = Len(digits) - i
            /\ SubSeq(digits, 1, i) \o SubSeq(digits, i + 1, Len(digits)) = digits
        BY <3>2, PartsAre
      <4>2. QED
        BY <4>1, Zenon
    <3>4. expandExponent(text) = PlainText(text, w, g)
      BY <2>4, <2>7, <3>1, <3>2, <3>3
    <3>5. Len(g) = c - i
      BY <1>3, <3>3
    <3>6. DECIMALS - b + e = (DECIMALS - (c - i)) + 0
      BY <1>4, <3>1, RadixIs
    <3>7. Moved(text, w, g, 0)
      <4>1. Value(w \o g) = Value(text.whole \o text.fraction) * Power[0]
        BY <1>2, <1>3, <1>4, <3>3
      <4>2. Shift(text) = (DECIMALS - Len(g)) + 0
        BY <2>2, <3>5, <3>6
      <4>3. QED
        BY <3>4, <4>1, <4>2 DEF Moved
    <3>8. QED
      BY <3>7
  <2>8. point <= 0 \/ (point > 0 /\ point >= c) \/ (point > 0 /\ point < c)
    OBVIOUS
  <2>9. QED
    BY <2>5, <2>6, <2>7, <2>8
<1>7. QED
  BY <1>5, <1>6

\* An amount is never rounded: Amount.from() reads a text of any length as
\* exactly its value or, if that is no whole number of wei, refuses it; what
\* toFixed(), toPlain() and toString() print reads back as the same amount.
THEOREM AmountsExact ==
    ASSUME NEW text \in Text
    PROVE  AmountsExactFor(text)
<1>1. PICK whole, fraction \in Seq(Digit), s \in Nat : Moved(text, whole, fraction, s)
  BY PointMoves
<1>2. PICK v \in Nat : v = Value(text.whole \o text.fraction)
  <2>1. text.whole \o text.fraction \in Seq(Digit)
    BY ConcatIs DEF Text
  <2>2. QED
    BY <2>1, ValueIs
<1>3. PICK ps, u \in Nat : ps = Power[s] /\ u = v * ps /\ u = Value(whole \o fraction)
  <2>1. PICK ps \in Nat : ps = Power[s]
    BY PowerGrows
  <2>2. v * ps \in Nat
    OBVIOUS
  <2>3. QED
    BY <1>1, <1>2, <2>1, <2>2 DEF Moved
<1>4. PICK f \in Seq(Digit) : f = StripZeros(fraction) /\ Len(f) \in Nat /\ Len(f) <= Len(fraction)
  BY StripSplits
<1>5. PICK shift \in Int : shift = DECIMALS - Len(fraction)
  <2>1. DECIMALS - Len(fraction) \in Int
    BY DigitsAre, RadixIs
  <2>2. QED
    BY <2>1
<1>6. /\ Len(f) <= DECIMALS =>
           /\ Wei(whole, f) \in Nat
           /\ shift >= 0 => Wei(whole, f) = u * Power[shift]
           /\ shift < 0 => Wei(whole, f) * Power[-shift] = u
      /\ Len(f) > DECIMALS => shift < 0 /\ u % Power[-shift] # 0
  <2>1. PlainExact(whole, f, u, shift)
    BY <1>3, <1>4, <1>5, PlainRead, Zenon
  <2>2. QED
    BY <2>1 DEF PlainExact
<1>7. Shift(text) = shift + s
  BY <1>1, <1>5 DEF Moved
<1>8. shift < 0 => s = 0 /\ u = v
  <2>1. ASSUME shift < 0 PROVE s = 0
    <3>1. ASSUME s > 0 PROVE FALSE
      <4>1. Len(fraction) = 0
        BY <1>1, <3>1 DEF Moved
      <4>2. QED
        BY <1>5, <2>1, <4>1, RadixIs
    <3>2. QED
      BY <3>1
  <2>2. s = 0 => ps = 1 /\ v * 1 = v
    BY <1>3, PowerUnfolds
  <2>3. QED
    BY <1>3, <2>1, <2>2
<1> DEFINE Late == text.exponent # NoExponent /\ text.exponent \notin -MaxExponent..MaxExponent
<1>9. from(text) = IF Late \/ Len(f) > DECIMALS THEN Invalid
                   ELSE <<IF text.negative THEN -Wei(whole, f) ELSE Wei(whole, f)>>
  <2>1. expandExponent(text) = PlainText(text, whole, fraction)
    BY <1>1 DEF Moved
  <2> DEFINE plain == PlainText(text, whole, fraction)
  <2>2. plain.negative = text.negative /\ plain.whole = whole /\ StripZeros(plain.fraction) = f
    BY <1>4 DEF PlainText
  <2> HIDE DEF plain
  <2>3. QED
    BY <2>1, <2>2, Zenon DEF from, Wei, plain
<1>10. Unscaled(text) = IF text.negative THEN -v ELSE v
  BY <1>2 DEF Unscaled
<1>11. CASE Late
  BY <1>9, <1>11 DEF AmountsExactFor, Invalid
<1>12. CASE ~Late /\ Len(f) > DECIMALS
  <2>1. shift < 0 /\ Shift(text) = shift /\ v % Power[-shift] # 0
    BY <1>6, <1>7, <1>8, <1>12
  <2>2. Absolute(Unscaled(text)) = v
    BY <1>10 DEF Absolute
  <2>3. from(text) = Invalid
    BY <1>9, <1>12
  <2>4. QED
    BY <2>1, <2>2, <2>3 DEF AmountsExactFor
<1>13. CASE ~Late /\ ~(Len(f) > DECIMALS)
  <2>1. Len(f) <= DECIMALS
    BY <1>4, <1>13, RadixIs
  <2>2. PICK n \in Nat : /\ n = Wei(whole, f)
                         /\ shift >= 0 => n = u * Power[shift]
                         /\ shift < 0 => n * Power[-shift] = u
    BY <1>6, <2>1
  <2>3. PICK wei \in Int : wei = (IF text.negative THEN -n ELSE n) /\ from(text) = <<wei>>
    <3>1. from(text) = <<IF text.negative THEN -n ELSE n>>
      BY <1>9, <1>13, <2>2
    <3>2. (IF text.negative THEN -n ELSE n) \in Int
      OBVIOUS
    <3>3. QED
      BY <3>1, <3>2
  <2>4. IsExact(text, wei)
    <3>1. CASE shift >= 0
      <4>1. PICK p \in Nat : p = Power[shift] /\ Power[shift + s] = p * ps
        <5>1. shift \in Nat
          BY <3>1
        <5>2. QED
          BY <1>3, <5>1, PowerSum, PowerGrows
      <4>2. n = v * (p * ps)
        <5>1. (v * ps) * p = v * (p * ps)
          OBVIOUS
        <5>2. QED
          BY <1>3, <2>2, <3>1, <4>1, <5>1
      <4>3. PICK m \in Nat : m = p * ps /\ m = Power[Shift(text)]
        <5>1. p * ps \in Nat
          OBVIOUS
        <5>2. QED
          BY <1>7, <4>1, <5>1
      <4>4. n = v * m /\ -n = (-v) * m
        BY <4>2, <4>3
      <4>5. wei = Unscaled(text) * Power[Shift(text)]
        BY <1>10, <2>3, <4>3, <4>4
      <4>6. Shift(text) >= 0
        BY <1>7, <3>1
      <4>7. QED
        BY <4>5, <4>6 DEF IsExact
    <3>2. CASE shift < 0
      <4>1. Shift(text) = shift /\ ~(Shift(text) >= 0)
        BY <1>7, <1>8, <3>2
      <4>2. -shift \in Nat
        BY <3>2
      <4>3. PICK p \in Nat : p = Power[-shift]
        BY <4>2, PowerGrows
      <4>4. n * p = v
        BY <1>8, <2>2, <3>2, <4>3
      <4>5. (-n) * p = -v
        BY <4>4
      <4>6. wei * p = Unscaled(text)
        BY <1>10, <2>3, <4>4, <4>5
      <4>7. QED
        BY <4>1, <4>3, <4>6 DEF IsExact
    <3>3. QED
      BY <3>1, <3>2
  <2>5. from(text) # Invalid /\ from(text)[1] = wei
    BY <2>3 DEF Invalid
  <2>6. \A form \in {toFixed(wei), toPlain(wei), toString(wei)} : from(form) = <<wei>>
    BY FormsRead
  <2>7. QED
    BY <2>3, <2>4, <2>5, <2>6 DEF AmountsExactFor
<1>14. QED
  BY <1>11, <1>12, <1>13

\* Amount.from() and the printed forms are exact on the texts of the run, with
\* any radix, number of decimals and largest exponent.
THEOREM MoneyAlwaysExact == Spec => []MoneyExact
<1>1. Init => MoneyExact
  <2> SUFFICES ASSUME Init, algorithm = "amounts" PROVE MoneyExact
    BY DEF MoneyExact
  <2>1. input \in MCTexts
    BY DEF Init, InitMerkle, InitPacking, InitAmounts, InitFees, InitConfig
  <2>2. ASSUME NEW k \in Nat, NEW d \in UpTo(Digit, k) PROVE d \in Seq(Digit)
    <3>1. PICK n \in Nat : d \in [1..n -> Digit]
      BY DEF UpTo
    <3>2. QED
      BY <3>1
  <2>3. input \in [negative: BOOLEAN, whole: UpTo(Digit, 2), fraction: UpTo(Digit, 3),
                   exponent: Int \cup {NoExponent}]
    BY <2>1 DEF MCTexts, Digit
  <2>4. UpTo(Digit, 2) \subseteq Seq(Digit) /\ UpTo(Digit, 3) \subseteq Seq(Digit)
    BY <2>2
  <2>5. input \in Text
    BY <2>3, <2>4 DEF Text
  <2>6. QED
    BY <2>5, AmountsExact DEF MoneyExact
<1>2. MoneyExact /\ [Next]_vars => MoneyExact'
  BY DEF MoneyExact, Next, vars
<1>3. QED
  BY <1>1, <1>2, PTL DEF Spec

=============================================================================
