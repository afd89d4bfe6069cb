--------------------------- MODULE CalldataPacking ---------------------------
(***************************************************************************)
(* The two calldata layouts of a batch (receipt-packing.util.ts,           *)
(* batch-calldata.util.ts).  A blob is a sequence of cells: numbers of one *)
(* byte, and one cell for each hash and each address, which are abstract.  *)
(* An address as given is its value and its spelling; a blob has it in     *)
(* lower case.                                                             *)
(***************************************************************************)
EXTENDS Integers, Sequences, FiniteSets, SequencesExt

CONSTANTS
    Byte,            \* values of a byte: 256 in the code
    MantissaBytes,   \* the longest mantissa: 32 in the code (uint256)
    AmountBytes,     \* bytes of an amount in layout v1: 8 in the code
    MAX_ADDRESSES,   \* 255 in the code
    MAX_RECEIPTS,    \* 65535 in the code
    Malformed        \* an address that is none

ASSUME PackingAssumption ==
    /\ Byte \in Nat \ {0, 1} /\ MantissaBytes \in Nat /\ AmountBytes \in Nat
    /\ MAX_ADDRESSES \in 0..(Byte - 1) /\ MAX_RECEIPTS \in 0..(Byte^2 - 1)

COMPACT_VERSION == 2

Refused == [refused |-> TRUE]   \* an Error

\* A number as big-endian bytes, and back.
Bytes(n, width) == [k \in 1..width |-> (n \div Byte^(width - k)) % Byte]

FromBytes(bytes) == FoldLeft(LAMBDA v, b : Byte * v + b, 0, bytes)

Flat(seqs) == FoldLeft(LAMBDA all, s : all \o s, <<>>, seqs)

Lower(address) == [address EXCEPT !.spelling = "lower"]

Normal(r) == [r EXCEPT !.payer = Lower(@), !.payee = Lower(@)]

WellFormed(receipts) ==
    \A k \in 1..Len(receipts) : Malformed \notin {receipts[k].payer, receipts[k].payee}

----------------------------------------------------------------------------
(* Layout v1: hash, payer, payee and amount of each receipt                *)

FitsV1(receipts) ==
    WellFormed(receipts) /\ \A k \in 1..Len(receipts) : receipts[k].amount \in 0..(Byte^AmountBytes - 1)

packReceipts(receipts) ==
    Flat([k \in 1..Len(receipts) |->
            LET r == receipts[k]
            IN  <<r.hash, Lower(r.payer), Lower(r.payee)>> \o Bytes(r.amount, AmountBytes)])

unpackReceipts(blob) ==
    LET size == 3 + AmountBytes IN
    IF Len(blob) % size # 0 THEN Refused
    ELSE [receipts |->
           [k \in 1..(Len(blob) \div size) |->
              LET at == (k - 1) * size IN
              [hash |-> blob[at + 1], payer |-> blob[at + 2], payee |-> blob[at + 3],
               amount |-> FromBytes(SubSeq(blob, at + 4, at + size))]]]

----------------------------------------------------------------------------
(* Layout v2: a dictionary of addresses, and amounts as m * 10^e           *)

\* The addresses in the order of their first appearance.
Dictionary(receipts) ==
    LET Add(seen, address) == IF \E k \in 1..Len(seen) : seen[k] = address THEN seen ELSE Append(seen, address)
    IN  FoldLeft(Add, <<>>,
                 Flat([k \in 1..Len(receipts) |-> <<Lower(receipts[k].payer), Lower(receipts[k].payee)>>]))

FitsV2(receipts) ==
    /\ Len(receipts) <= MAX_RECEIPTS
    /\ WellFormed(receipts)
    /\ \A k \in 1..Len(receipts) : receipts[k].amount \in 0..(Byte^MantissaBytes - 1)
    /\ Len(Dictionary(receipts)) <= MAX_ADDRESSES

\* Strips the trailing decimal zeros.
toScientific(amount) ==
    LET strip[m \in Nat] ==
          IF m % 10 = 0 THEN [strip[m \div 10] EXCEPT !.exponent = @ + 1]
          ELSE [mantissa |-> m, exponent |-> 0]
    IN  IF amount = 0 THEN [mantissa |-> 0, exponent |-> 0] ELSE strip[amount]

\* evenHex(): the least number of bytes; no byte for zero.
evenHex(n) == Bytes(n, CHOOSE w \in 0..MantissaBytes : n < Byte^w /\ \A v \in 0..(w - 1) : n >= Byte^v)

\* Mutant: the index of an address counts from one.
PackCompactFromOne(receipts) ==
    LET addresses == Dictionary(receipts)
        Index(address) == CHOOSE k \in 1..Len(addresses) : addresses[k] = Lower(address)
        Body(r) ==
          LET s == toScientific(r.amount)
              m == evenHex(s.mantissa)
          IN  <<r.hash, Index(r.payer), Index(r.payee), s.exponent, Len(m)>> \o m
    IN  <<COMPACT_VERSION, Len(addresses)>> \o addresses \o Bytes(Len(receipts), 2)
          \o Flat([k \in 1..Len(receipts) |-> Body(receipts[k])])

packReceiptsCompact(receipts) ==
    LET addresses == Dictionary(receipts)
        Index(address) == (CHOOSE k \in 1..Len(addresses) : addresses[k] = Lower(address)) - 1
        Body(r) ==
          LET s == toScientific(r.amount)
              m == evenHex(s.mantissa)
          IN  <<r.hash, Index(r.payer), Index(r.payee), s.exponent, Len(m)>> \o m
    IN  <<COMPACT_VERSION, Len(addresses)>> \o addresses \o Bytes(Len(receipts), 2)
          \o Flat([k \in 1..Len(receipts) |-> Body(receipts[k])])

\* The loop of unpackReceiptsCompact(), `n` receipts from cell `at` on; it is
\* over when every cell is used.
ReadReceipts(blob, addresses, count, start) ==
    LET left(at) == Len(blob) - at + 1
        read[n \in 0..count, at \in 1..(Len(blob) + 1)] ==
          IF n = 0 THEN IF left(at) = 0 THEN [receipts |-> <<>>] ELSE Refused
          ELSE IF left(at) < 5 THEN Refused
          ELSE LET length == blob[at + 4]
                   amount == FromBytes(SubSeq(blob, at + 5, at + 4 + length)) * 10^blob[at + 3]
                   next   == at + 5 + length
               IN  IF \/ blob[at + 1] >= Len(addresses) \/ blob[at + 2] >= Len(addresses)
                      \/ length > MantissaBytes \/ left(at) < 5 + length
                      \/ amount >= Byte^MantissaBytes
                      \/ read[n - 1, next] = Refused
                   THEN Refused
                   ELSE [receipts |->
                          <<[hash |-> blob[at], payer |-> addresses[blob[at + 1] + 1],
                             payee |-> addresses[blob[at + 2] + 1], amount |-> amount]>>
                          \o read[n - 1, next].receipts]
    IN  read[count, start]

unpackReceiptsCompact(blob) ==
    IF Len(blob) < 2 THEN Refused
    ELSE LET a == blob[2] IN
         IF blob[1] # COMPACT_VERSION \/ Len(blob) < 4 + a THEN Refused
         ELSE ReadReceipts(blob, SubSeq(blob, 3, 2 + a),
                           FromBytes(SubSeq(blob, 3 + a, 4 + a)), 5 + a)

----------------------------------------------------------------------------
\* A batch that fits a layout comes out of it as it went in, up to the
\* spelling of addresses: every amount to the wei, every address at its place,
\* up to the limits of the layout.  A compact blob that was cut short at any
\* cell, or has cells left over, is refused.
RoundTripFor(receipts) ==
    LET normal == [k \in 1..Len(receipts) |-> Normal(receipts[k])] IN
    /\ FitsV1(receipts) => unpackReceipts(packReceipts(receipts)) = [receipts |-> normal]
    /\ FitsV2(receipts) =>
         LET blob == packReceiptsCompact(receipts) IN
         /\ unpackReceiptsCompact(blob) = [receipts |-> normal]
         /\ \A n \in 0..(Len(blob) - 1) : unpackReceiptsCompact(SubSeq(blob, 1, n)) = Refused
         /\ unpackReceiptsCompact(Append(blob, 0)) = Refused
=============================================================================
