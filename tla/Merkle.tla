------------------------------- MODULE Merkle -------------------------------
(***************************************************************************)
(* The tree over the receipt hashes of a batch and its proofs              *)
(* (merkle.util.ts).  A hash is an abstract value: a leaf, or what         *)
(* hashPair() makes of two.  keccak256 of the sorted pair is an injective  *)
(* function of the unordered pair, and never a leaf.                       *)
(***************************************************************************)
EXTENDS Integers, Sequences

LeafHash(n) == [leaf |-> n]

ZeroHash == [zero |-> 0]

hashPair(a, b) == [pair |-> {a, b}]

\* Mutant: a lone last node goes up unhashed.
ParentLevelPromoting(level) ==
    [k \in 1..((Len(level) + 1) \div 2) |->
       IF 2 * k <= Len(level) THEN hashPair(level[2 * k - 1], level[2 * k]) ELSE level[2 * k - 1]]

\* The last node of an odd level is paired with itself.
parentLevel(level) ==
    [k \in 1..((Len(level) + 1) \div 2) |->
       hashPair(level[2 * k - 1], IF 2 * k <= Len(level) THEN level[2 * k] ELSE level[2 * k - 1])]

\* The levels of the tree; level 0 are the leaves.
Levels(leaves) ==
    LET level[k \in Nat] == IF k = 0 THEN leaves ELSE parentLevel(level[k - 1])
    IN  level

\* Where the loops end: the first level with one node, or none.
Height(leaves) ==
    CHOOSE h \in 0..Len(leaves) :
      Len(Levels(leaves)[h]) <= 1 /\ \A g \in 0..(h - 1) : Len(Levels(leaves)[g]) > 1

merkleRoot(leaves) ==
    IF leaves = <<>> THEN ZeroHash ELSE Levels(leaves)[Height(leaves)][1]

\* The place of a leaf, counted from 0, and of the nodes above it.
Positions(index) ==
    LET position[k \in Nat] == IF k = 0 THEN index ELSE position[k - 1] \div 2
    IN  position

\* The siblings of a leaf, its index counted from 0, up to the root.
merkleProof(leaves, index) ==
    [k \in 1..Height(leaves) |->
       LET level    == Levels(leaves)[k - 1]
           position == Positions(index)[k - 1]
           sibling  == IF position % 2 = 0 THEN position + 1 ELSE position - 1
       IN  IF sibling < Len(level) THEN level[sibling + 1] ELSE level[position + 1]]

\* The nodes computed from a leaf and a list of siblings.
Climb(leaf, proof) ==
    LET node[k \in Nat] == IF k = 0 THEN leaf ELSE hashPair(node[k - 1], proof[k])
    IN  node

verifyMerkleProof(leaf, proof, root) == Climb(leaf, proof)[Len(proof)] = root

----------------------------------------------------------------------------
\* Every receipt of a batch has a proof that verifies against the root the
\* batch was settled with, at every size and with repeated hashes; and no list
\* of nodes of the tree proves a receipt that is not in the batch.
ProofsVerifyFor(leaves, strangers) ==
    LET root  == merkleRoot(leaves)
        nodes == UNION {{Levels(leaves)[k][j] : j \in 1..Len(Levels(leaves)[k])} :
                          k \in 0..Height(leaves)}
    IN  /\ \A i \in 1..Len(leaves) :
             verifyMerkleProof(leaves[i], merkleProof(leaves, i - 1), root)
        /\ \A leaf \in strangers \ {leaves[i] : i \in 1..Len(leaves)}, n \in 0..Height(leaves) :
             \A proof \in [1..n -> nodes] : ~verifyMerkleProof(leaf, proof, root)
=============================================================================
