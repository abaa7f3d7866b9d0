------------------------------- MODULE FastBitSet -------------------------------
(***************************************************************************)
(* FastBitSet: a tree of blocks in an array.  The leaves hold the bits, a   *)
(* node above them the conjunction of the two below it, so that node 0 is   *)
(* all ones when every bit is set.  A block is the set of its one bits.     *)
(***************************************************************************)
EXTENDS Naturals

CONSTANT BitsPerBlock    \* 64 in the code

ASSUME BlockAssumption == BitsPerBlock \in Nat \ {0}

AllOnes == 0..(BitsPerBlock - 1)

LeafCount(bits) == (bits + BitsPerBlock - 1) \div BitsPerBlock

(* Fault: the bits past the last one start as zeros. *)
NewTree_NoPadding(bits) == [n \in 0..(2 * LeafCount(bits) - 2) |-> {}]

(* The bits of the last leaf past the last bit are ones. *)
NewTree(bits) ==
    LET last    == 2 * LeafCount(bits) - 2
        padding == IF bits % BitsPerBlock = 0 THEN {} ELSE {b \in AllOnes : b >= bits % BitsPerBlock}
    IN  [n \in 0..last |-> IF n = last THEN padding ELSE {}]

LeafOf(bits, i) == LeafCount(bits) - 1 + i \div BitsPerBlock

(* Fault: a node is the disjunction of the two below it. *)
Parent_Or(tree, p) == tree[2 * p + 1] \union tree[2 * p + 2]

Parent(tree, p) == tree[2 * p + 1] \intersect tree[2 * p + 2]

(* The way up from a leaf ends at the root or at a node that does not change. *)
updateParents(tree, leaf) ==
    LET up[k \in DOMAIN tree] ==
            IF k = 0 THEN <<tree, leaf>>
            ELSE LET below   == up[k - 1]
                     p       == (below[2] - 1) \div 2
                     updated == [below[1] EXCEPT ![p] = Parent(below[1], p)]
                 IN  IF below[2] = 0 THEN below
                     ELSE <<updated, IF updated = below[1] THEN 0 ELSE p>>
        top == CHOOSE k \in DOMAIN tree : k + 1 \notin DOMAIN tree
    IN  up[top][1]

setBit(tree, bits, i) ==
    LET leaf == LeafOf(bits, i)
    IN  updateParents([tree EXCEPT ![leaf] = @ \union {i % BitsPerBlock}], leaf)

getBit(tree, bits, i) == i % BitsPerBlock \in tree[LeafOf(bits, i)]

isComplete(tree) == tree[0] = AllOnes

=================================================================================
