------------------------------- MODULE Amounts -------------------------------
(***************************************************************************)
(* Money (amount.ts): decimal text to wei and back.  A text that passes    *)
(* the patterns is its sign, its digits before and after the point and,    *)
(* with an "e", its exponent.  Digits have the values 0..Radix-1.          *)
(***************************************************************************)
EXTENDS Integers, Sequences

CONSTANTS
    Radix,         \* 10 in the code
    DECIMALS,      \* 18 in the code
    MaxExponent,   \* 60 in the code
    NoExponent     \* a text without an "e"

ASSUME AmountsAssumption ==
    Radix \in Nat \ {0, 1} /\ DECIMALS \in Nat /\ MaxExponent \in Nat

Invalid == <<>>   \* a TypeError; an amount is <<wei>>

Power[k \in Nat] == IF k = 0 THEN 1 ELSE Radix * Power[k - 1]

SCALE == Power[DECIMALS]

Zeros(n) == [k \in 1..n |-> 0]

\* BigInt(digits), and the values of the prefixes.
Readings(digits) ==
    LET value[k \in Nat] == IF k = 0 THEN 0 ELSE Radix * value[k - 1] + digits[k]
    IN  value

Value(digits) == Readings(digits)[Len(digits)]

\* expandExponent(): moves the point; the text has no exponent afterwards.
expandExponent(text) ==
    LET digits == text.whole \o text.fraction
        point  == Len(text.whole) + text.exponent
        Plain(whole, fraction) ==
          [negative |-> text.negative, whole |-> whole, fraction |-> fraction,
           exponent |-> NoExponent]
    IN  IF text.exponent = NoExponent THEN text
        ELSE IF point <= 0 THEN Plain(<<0>>, Zeros(-point) \o digits)
        ELSE IF point >= Len(digits) THEN Plain(digits \o Zeros(point - Len(digits)), <<>>)
        ELSE Plain(SubSeq(digits, 1, point), SubSeq(digits, point + 1, Len(digits)))

\* fraction.replace(/0+$/, '')
StripZeros(digits) ==
    SubSeq(digits, 1, CHOOSE n \in 0..Len(digits) :
                        /\ \A k \in (n + 1)..Len(digits) : digits[k] = 0
                        /\ n = 0 \/ digits[n] # 0)

\* Mutant: the digits beyond DECIMALS are cut off.
FromTruncating(text) ==
    LET plain    == expandExponent(text)
        stripped == StripZeros(plain.fraction)
        fraction == SubSeq(stripped, 1, IF Len(stripped) > DECIMALS THEN DECIMALS ELSE Len(stripped))
        wei == Value(plain.whole) * SCALE + Value(fraction \o Zeros(DECIMALS - Len(fraction)))
    IN  IF text.exponent # NoExponent /\ text.exponent \notin -MaxExponent..MaxExponent
        THEN Invalid ELSE <<IF plain.negative THEN -wei ELSE wei>>

\* Amount.from()
from(text) ==
    LET plain    == expandExponent(text)
        fraction == StripZeros(plain.fraction)
        wei == Value(plain.whole) * SCALE + Value(fraction \o Zeros(DECIMALS - Len(fraction)))
    IN  IF \/ text.exponent # NoExponent /\ text.exponent \notin -MaxExponent..MaxExponent
           \/ Len(fraction) > DECIMALS
        THEN Invalid ELSE <<IF plain.negative THEN -wei ELSE wei>>

\* wei.toString(): as few digits as n needs, and one at least.
Width(n) == CHOOSE w \in 1..(n + 1) : n < Power[w] /\ \A v \in 1..(w - 1) : Power[v] <= n

Digits(n) == [k \in 1..Width(n) |-> (n \div Power[Width(n) - k]) % Radix]

\* padStart(DECIMALS, '0')

Padded(n) ==
    LET digits == Digits(n) IN
    IF Len(digits) < DECIMALS THEN Zeros(DECIMALS - Len(digits)) \o digits ELSE digits

Absolute(wei) == IF wei < 0 THEN -wei ELSE wei

\* All digits, as a numeric column prints it.
toFixed(wei) ==
    [negative |-> wei < 0, whole |-> Digits(Absolute(wei) \div SCALE),
     fraction |-> Padded(Absolute(wei) % SCALE), exponent |-> NoExponent]

toPlain(wei) == [toFixed(wei) EXCEPT !.fraction = StripZeros(@)]

\* The form of the API: one fractional digit at least.
toString(wei) ==
    LET plain == toPlain(wei) IN
    IF plain.fraction = <<>> THEN [plain EXCEPT !.fraction = <<0>>] ELSE plain

----------------------------------------------------------------------------
\* The value of a text, as a reference: all its digits, shifted.  `shift` is
\* what is missing to whole wei.
Shift(text) ==
    DECIMALS - Len(text.fraction) + IF text.exponent = NoExponent THEN 0 ELSE text.exponent

Unscaled(text) ==
    LET v == Value(text.whole \o text.fraction) IN IF text.negative THEN -v ELSE v

IsExact(text, wei) ==
    IF Shift(text) >= 0 THEN wei = Unscaled(text) * Power[Shift(text)]
    ELSE wei * Power[-Shift(text)] = Unscaled(text)

\* An amount is never rounded: a text with an admitted exponent is read as
\* exactly its value when that is a whole number of wei and is refused
\* otherwise; and every form the rail prints reads back as the same amount.
AmountsExactFor(text) ==
    LET read == from(text) IN
    IF read = Invalid
    THEN \/ text.exponent # NoExponent /\ text.exponent \notin -MaxExponent..MaxExponent
         \/ Shift(text) < 0 /\ Absolute(Unscaled(text)) % Power[-Shift(text)] # 0
    ELSE /\ IsExact(text, read[1])
         /\ \A form \in {toFixed(read[1]), toPlain(read[1]), toString(read[1])} :
              from(form) = read
=============================================================================
