------------------------------ MODULE FeePolicy ------------------------------
(***************************************************************************)
(* Fee policies and fees (fee-policy.ts, fee-policy.service.ts).  Amounts  *)
(* are in wei.  A raw policy may leave a field out; a policy may have no   *)
(* cap.                                                                    *)
(***************************************************************************)
EXTENDS Integers

CONSTANTS
    BPS_DENOMINATOR,  \* 10000 in the code
    MAX_FEE_BPS,      \* 1000 in the code
    Unset             \* a field that is left out, or no cap

ASSUME FeePolicyAssumption ==
    /\ BPS_DENOMINATOR \in Nat \ {0}
    /\ MAX_FEE_BPS \in 0..BPS_DENOMINATOR
    /\ Unset \notin Int

assertValidPolicy(p) ==
    /\ p.bps \in 0..MAX_FEE_BPS
    /\ p.minFee >= 0
    /\ p.maxFee # Unset => p.maxFee >= p.minFee

Or(value, fallback) == IF value = Unset THEN fallback ELSE value

\* parsePolicy(): field by field, the override or else the default.
parsePolicy(raw, fallback) ==
    [bps |-> Or(raw.bps, fallback.bps), minFee |-> Or(raw.minFee, fallback.minFee),
     maxFee |-> Or(raw.maxFee, fallback.maxFee)]

NoPolicy == [bps |-> 0, minFee |-> 0, maxFee |-> Unset]

\* The constructor: the default policy and an override for each chain; it
\* throws when any of them is not valid.
Boots(default, overrides) ==
    LET base == parsePolicy(default, NoPolicy) IN
    /\ assertValidPolicy(base)
    /\ \A chain \in DOMAIN overrides :
         chain > 0 /\ assertValidPolicy(parsePolicy(overrides[chain], base))

policyFor(default, overrides, chain) ==
    LET base == parsePolicy(default, NoPolicy) IN
    IF chain \in DOMAIN overrides THEN parsePolicy(overrides[chain], base) ELSE base

\* Mutant: the payment is no limit.
ComputeFeeUnbounded(amount, policy) ==
    LET rate == (amount * policy.bps) \div BPS_DENOMINATOR
        min  == IF rate < policy.minFee THEN policy.minFee ELSE rate
    IN  IF policy.maxFee # Unset /\ min > policy.maxFee THEN policy.maxFee ELSE min

\* computeFee(): the rate rounded down, then the floor, then the cap, and never
\* more than the amount.
computeFee(amount, policy) ==
    LET rate == (amount * policy.bps) \div BPS_DENOMINATOR
        min  == IF rate < policy.minFee THEN policy.minFee ELSE rate
        max  == IF policy.maxFee # Unset /\ min > policy.maxFee THEN policy.maxFee ELSE min
    IN  IF max > amount THEN amount ELSE max

quote(default, overrides, chain, amount) ==
    LET fee == computeFee(amount, policyFor(default, overrides, chain))
    IN  [fee |-> fee, net |-> amount - fee]

----------------------------------------------------------------------------
\* With every configuration the service boots with, on every chain: the payee
\* is never charged more than the payment, and a larger payment never costs a
\* smaller fee nor leaves the payee with less.
FeesFitFor(default, overrides, chains, amounts) ==
    Boots(default, overrides) =>
      \A chain \in chains, a \in amounts :
        LET q == quote(default, overrides, chain, a) IN
        /\ q.fee \in 0..a
        /\ a + 1 \in amounts =>
             LET r == quote(default, overrides, chain, a + 1)
             IN  q.fee <= r.fee /\ q.net <= r.net
=============================================================================
