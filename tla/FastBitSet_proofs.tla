--------------------------- MODULE FastBitSet_proofs ---------------------------
(***************************************************************************)
(* The tree of bits, for every size of block and number of bits: a bit is   *)
(* set when it was, and the root alone tells whether all are.               *)
(***************************************************************************)
EXTENDS FastBitSet, Integers, Sequences, WellFoundedInduction, TLAPS

(* Induction, in a form whose only parameter is a set. *)
LEMMA LeastElement ==
    ASSUME NEW T, T \subseteq Nat, T # {}
    PROVE  \E x \in T : \A y \in T : x <= y
  <1> DEFINE R == OpToRel(<, Nat)
  <1>1. IsWellFoundedOn(R, Nat)
    BY NatLessThanWellFounded
  <1> HIDE DEF R
  <1>2. PICK x \in T : \A y \in T : ~(<<y, x>> \in R)
    BY <1>1, WFMin
  <1>3. \A y \in T : y < x => <<y, x>> \in R
    BY DEF R, OpToRel
  <1>4. \A y \in T : ~(y < x)
    BY <1>2, <1>3
  <1>5. \A y \in T : x <= y
    BY <1>4
  <1> QED
    BY <1>5

LEMMA Induction ==
    ASSUME NEW n \in Nat, NEW S, 0 \in S, \A k \in 1..n : k - 1 \in S => k \in S
    PROVE  0..n \subseteq S
  <1> DEFINE T == (0..n) \ S
  <1>1. T \subseteq Nat /\ \A x \in T : x # 0 /\ x \in 1..n /\ x - 1 \in 0..n
    OBVIOUS
  <1>2. T = {}
    <2> SUFFICES ASSUME T # {} PROVE FALSE
      OBVIOUS
    <2> HIDE DEF T
    <2>1. PICK x \in T : \A y \in T : x <= y
      BY <1>1, LeastElement
    <2>2. x - 1 \notin T
      BY <1>1, <2>1
    <2> QED
      BY <1>1, <2>2 DEF T
  <1> QED
    BY <1>2

-----------------------------------------------------------------------------
(* Positions in the tree. *)

LEMMA QuotientRemainder ==
    ASSUME NEW i \in Nat
    PROVE  /\ i \div BitsPerBlock \in Nat
           /\ i % BitsPerBlock \in AllOnes
           /\ i % BitsPerBlock \in Nat /\ i % BitsPerBlock < BitsPerBlock
           /\ i = BitsPerBlock * (i \div BitsPerBlock) + (i % BitsPerBlock)
  BY BlockAssumption DEF AllOnes

LEMMA Multiples ==
    ASSUME NEW a \in Int, NEW b \in Int
    PROVE  /\ BitsPerBlock * a \in Int
           /\ a < b => BitsPerBlock * a + BitsPerBlock <= BitsPerBlock * b
           /\ BitsPerBlock * (a - b) = BitsPerBlock * a - BitsPerBlock * b
  <1>1. /\ BitsPerBlock * a \in Int
        /\ BitsPerBlock * (a - b) = BitsPerBlock * a - BitsPerBlock * b
    BY BlockAssumption
  <1>2. ASSUME a < b PROVE BitsPerBlock * a + BitsPerBlock <= BitsPerBlock * b
    <2>1. PICK c \in Nat : b = a + 1 + c
      <3>1. b - a - 1 \in Nat /\ b = a + 1 + (b - a - 1)
        BY <1>2
      <3> QED
        BY <3>1
    <2>2. BitsPerBlock * b = BitsPerBlock * a + BitsPerBlock + BitsPerBlock * c
      BY <2>1, BlockAssumption
    <2>3. BitsPerBlock * c \in Nat
      BY BlockAssumption
    <2> QED
      BY <1>1, <2>2, <2>3, BlockAssumption
  <1> QED
    BY <1>1, <1>2

(* The same place is the same number. *)
LEMMA OnePlace ==
    ASSUME NEW q \in Nat, NEW r \in Nat, NEW p \in Nat, NEW s \in Nat,
           r < BitsPerBlock, s < BitsPerBlock,
           BitsPerBlock * q + r = BitsPerBlock * p + s
    PROVE  q = p /\ r = s
  <1>1. BitsPerBlock \in Nat /\ BitsPerBlock * q \in Int /\ BitsPerBlock * p \in Int
    BY BlockAssumption, Multiples
  <1>2. CASE q < p
    <2>1. BitsPerBlock * q + BitsPerBlock <= BitsPerBlock * p
      BY <1>2, Multiples
    <2> QED
      BY <1>1, <2>1
  <1>3. CASE p < q
    <2>1. BitsPerBlock * p + BitsPerBlock <= BitsPerBlock * q
      BY <1>3, Multiples
    <2> QED
      BY <1>1, <2>1
  <1>4. CASE q = p
    BY <1>1, <1>4
  <1> QED
    BY <1>2, <1>3, <1>4

(* There are enough leaves, and the last one has a bit. *)
LEMMA LeafBounds ==
    ASSUME NEW bits \in Nat \ {0}
    PROVE  /\ LeafCount(bits) \in Nat \ {0}
           /\ BitsPerBlock * (LeafCount(bits) - 1) < bits
           /\ bits <= BitsPerBlock * LeafCount(bits)
  <1>1. PICK x \in Nat : x = bits + BitsPerBlock - 1 /\ x >= BitsPerBlock
    BY BlockAssumption
  <1>2. PICK q \in Nat : q = LeafCount(bits) /\ q = x \div BitsPerBlock
    BY <1>1, QuotientRemainder DEF LeafCount
  <1>3. PICK r \in Nat : r = x % BitsPerBlock /\ r < BitsPerBlock
    BY QuotientRemainder
  <1>4. x = BitsPerBlock * q + r
    BY <1>2, <1>3, QuotientRemainder
  <1>5. BitsPerBlock * q \in Int /\ BitsPerBlock * (q - 1) = BitsPerBlock * q - BitsPerBlock
    BY BlockAssumption
  <1>6. q # 0
    BY <1>1, <1>3, <1>4, BlockAssumption
  <1> QED
    BY <1>1, <1>2, <1>3, <1>4, <1>5, <1>6, BlockAssumption

Bits(bits) == 0..(bits - 1)
Leaves(bits) == (LeafCount(bits) - 1)..(2 * LeafCount(bits) - 2)
InnerNodes(bits) == 0..(LeafCount(bits) - 2)

(* The places of the last leaf past the last bit. *)
Padding(bits) == {b \in AllOnes : BitsPerBlock * (LeafCount(bits) - 1) + b >= bits}

LEMMA LeafOfBit ==
    ASSUME NEW bits \in Nat \ {0}, NEW i \in Bits(bits)
    PROVE  LeafOf(bits, i) \in Leaves(bits) /\ i % BitsPerBlock \in AllOnes
  <1>1. PICK q \in Nat : q = i \div BitsPerBlock
    BY QuotientRemainder DEF Bits
  <1>2. PICK r \in Nat : r = i % BitsPerBlock
    BY QuotientRemainder DEF Bits
  <1>3. i = BitsPerBlock * q + r /\ r \in AllOnes /\ i \in Nat /\ i < bits
    BY <1>1, <1>2, QuotientRemainder DEF Bits
  <1>4. PICK n \in Nat \ {0} : n = LeafCount(bits) /\ bits <= BitsPerBlock * n
    BY LeafBounds
  <1>5. q < n
    <2> SUFFICES ASSUME ~(q < n) PROVE FALSE
      OBVIOUS
    <2>1. BitsPerBlock * n <= BitsPerBlock * q /\ BitsPerBlock * q \in Int /\ BitsPerBlock * n \in Int
      <3>1. n < q \/ n = q
        OBVIOUS
      <3>2. n < q => BitsPerBlock * n + BitsPerBlock <= BitsPerBlock * q
        BY Multiples
      <3>3. BitsPerBlock * q \in Int /\ BitsPerBlock * n \in Int
        BY BlockAssumption
      <3> QED
        BY <3>1, <3>2, <3>3, BlockAssumption
    <2> QED
      BY <1>3, <1>4, <2>1
  <1> QED
    BY <1>1, <1>2, <1>3, <1>4, <1>5 DEF LeafOf, Leaves

LEMMA OneBit ==
    ASSUME NEW bits \in Nat \ {0}, NEW i \in Bits(bits), NEW j \in Bits(bits),
           LeafOf(bits, i) = LeafOf(bits, j), i % BitsPerBlock = j % BitsPerBlock
    PROVE  i = j
  <1>1. i \in Nat /\ j \in Nat
    BY DEF Bits
  <1>2. PICK q \in Nat : q = i \div BitsPerBlock
    BY <1>1, QuotientRemainder
  <1>3. PICK p \in Nat : p = j \div BitsPerBlock
    BY <1>1, QuotientRemainder
  <1>4. LeafCount(bits) \in Nat
    BY LeafBounds
  <1>5. q = p
    BY <1>2, <1>3, <1>4 DEF LeafOf
  <1>6. i = BitsPerBlock * q + (i % BitsPerBlock) /\ j = BitsPerBlock * p + (j % BitsPerBlock)
    BY <1>1, <1>2, <1>3, QuotientRemainder
  <1> QED
    BY <1>5, <1>6

(* A place of a leaf is a bit or padding. *)
LEMMA BitOfPlace ==
    ASSUME NEW bits \in Nat \ {0}, NEW l \in Leaves(bits), NEW b \in AllOnes
    PROVE  \/ l = 2 * LeafCount(bits) - 2 /\ b \in Padding(bits)
           \/ \E i \in Bits(bits) : LeafOf(bits, i) = l /\ i % BitsPerBlock = b
  <1>1. PICK n \in Nat \ {0} : /\ n = LeafCount(bits) /\ bits <= BitsPerBlock * n
                               /\ BitsPerBlock * (n - 1) < bits
    BY LeafBounds
  <1>2. PICK q \in Nat : q = l - (n - 1) /\ q <= n - 1
    <2>1. l \in Int /\ l >= n - 1 /\ l <= 2 * n - 2
      BY <1>1 DEF Leaves
    <2>2. l - (n - 1) \in Nat /\ l - (n - 1) <= n - 1
      BY <2>1
    <2> QED
      BY <2>2
  <1>3. b \in Nat /\ b < BitsPerBlock /\ BitsPerBlock \in Nat
    BY BlockAssumption DEF AllOnes
  <1>4. PICK i \in Nat : i = BitsPerBlock * q + b
    <2>1. BitsPerBlock * q \in Nat
      BY BlockAssumption
    <2> QED
      BY <1>3, <2>1
  <1>5. i \div BitsPerBlock = q /\ i % BitsPerBlock = b
    <2>1. PICK p \in Nat : p = i \div BitsPerBlock
      BY QuotientRemainder
    <2>2. PICK s \in Nat : s = i % BitsPerBlock /\ s < BitsPerBlock
      BY QuotientRemainder
    <2>3. i = BitsPerBlock * p + s
      BY <2>1, <2>2, QuotientRemainder
    <2>4. q = p /\ b = s
      BY <1>3, <1>4, <2>2, <2>3, OnePlace
    <2> QED
      BY <2>1, <2>2, <2>4
  <1>6. CASE i < bits
    <2>1. i \in Bits(bits)
      BY <1>6 DEF Bits
    <2>2. LeafOf(bits, i) = l
      BY <1>1, <1>2, <1>5, <2>1 DEF LeafOf, Leaves
    <2> QED
      BY <1>5, <2>1, <2>2
  <1>7. CASE ~(i < bits)
    <2>1. q = n - 1
      <3> SUFFICES ASSUME q # n - 1 PROVE FALSE
        OBVIOUS
      <3>1. q < n - 1
        BY <1>2
      <3>2. BitsPerBlock * q + BitsPerBlock <= BitsPerBlock * (n - 1)
        BY <3>1, Multiples
      <3>3. BitsPerBlock * q \in Int /\ BitsPerBlock * (n - 1) \in Int
        BY BlockAssumption
      <3> QED
        BY <1>1, <1>3, <1>4, <1>7, <3>2, <3>3
    <2>2. l = 2 * n - 2
      BY <1>2, <2>1 DEF Leaves
    <2>3. b \in Padding(bits)
      BY <1>1, <1>4, <1>7, <2>1 DEF Padding
    <2> QED
      BY <1>1, <2>2, <2>3
  <1> QED
    BY <1>6, <1>7

-----------------------------------------------------------------------------
(* The way up from a leaf. *)

StepUp(below) ==
    LET p       == (below[2] - 1) \div 2
        updated == [below[1] EXCEPT ![p] = Parent(below[1], p)]
    IN  IF below[2] = 0 THEN below
        ELSE <<updated, IF updated = below[1] THEN 0 ELSE p>>

IsWayUp(g, k, tree, leaf) ==
    g = [j \in 0..k |-> IF j = 0 THEN <<tree, leaf>> ELSE StepUp(g[j - 1])]

LEMMA WayUpExists ==
    ASSUME NEW last \in Nat, NEW tree, NEW leaf
    PROVE  \E g : IsWayUp(g, last, tree, leaf)
  <1> DEFINE S == {k \in 0..last : \E g : IsWayUp(g, k, tree, leaf)}
  <1>1. 0 \in S
    <2> DEFINE g == [j \in 0..0 |-> <<tree, leaf>>]
    <2>1. IsWayUp(g, 0, tree, leaf)
      BY DEF IsWayUp
    <2> QED
      BY <2>1
  <1>2. ASSUME NEW k \in 1..last, k - 1 \in S PROVE k \in S
    <2>1. PICK f : IsWayUp(f, k - 1, tree, leaf)
      BY <1>2
    <2> DEFINE g == [j \in 0..k |-> IF j = k THEN StepUp(f[k - 1]) ELSE f[j]]
    <2>2. ASSUME NEW j \in 0..k
          PROVE  g[j] = IF j = 0 THEN <<tree, leaf>> ELSE StepUp(g[j - 1])
      <3>1. CASE j = k
        <4>1. g[j - 1] = f[k - 1] /\ j # 0
          BY <3>1
        <4> QED
          BY <3>1, <4>1
      <3>2. CASE j # k
        <4>1. j \in 0..(k - 1) /\ g[j] = f[j] /\ (j # 0 => g[j - 1] = f[j - 1])
          BY <3>2
        <4>2. f[j] = IF j = 0 THEN <<tree, leaf>> ELSE StepUp(f[j - 1])
          BY <2>1, <4>1 DEF IsWayUp
        <4> HIDE DEF g
        <4> QED
          BY <4>1, <4>2
      <3> QED
        BY <3>1, <3>2
    <2>3. IsWayUp(g, k, tree, leaf)
      BY <2>2 DEF IsWayUp
    <2> QED
      BY <2>3
  <1>3. last \in 0..last
    OBVIOUS
  <1> HIDE DEF S
  <1>4. last \in S
    BY <1>1, <1>2, <1>3, Induction
  <1> QED
    BY <1>4 DEF S

LEMMA WayUp ==
    ASSUME NEW last \in Nat, NEW tree, DOMAIN tree = 0..last, NEW leaf
    PROVE  \E g : IsWayUp(g, last, tree, leaf) /\ updateParents(tree, leaf) = g[last][1]
  <1> DEFINE G == CHOOSE f : f = [j \in DOMAIN tree |-> IF j = 0 THEN <<tree, leaf>>
                                                        ELSE StepUp(f[j - 1])]
             top == CHOOSE k \in DOMAIN tree : k + 1 \notin DOMAIN tree
  <1>1. G = [j \in DOMAIN tree |-> IF j = 0 THEN <<tree, leaf>> ELSE StepUp(G[j - 1])]
    <2>1. PICK g : IsWayUp(g, last, tree, leaf)
      BY WayUpExists
    <2>2. g = [j \in DOMAIN tree |-> IF j = 0 THEN <<tree, leaf>> ELSE StepUp(g[j - 1])]
      BY <2>1 DEF IsWayUp
    <2> QED
      BY <2>2
  <1>2. top = last
    <2>1. \E k \in DOMAIN tree : k + 1 \notin DOMAIN tree
      <3>1. last \in DOMAIN tree /\ last + 1 \notin DOMAIN tree
        OBVIOUS
      <3> HIDE DEF top, G
      <3> QED
        BY <3>1
    <2>2. top \in DOMAIN tree /\ top + 1 \notin DOMAIN tree
      BY <2>1, Zenon
    <2> HIDE DEF top
    <2> QED
      BY <2>2
  <1>3. updateParents(tree, leaf) = G[top][1]
    BY DEF updateParents, StepUp
  <1> HIDE DEF G, top
  <1>4. IsWayUp(G, last, tree, leaf)
    BY <1>1 DEF IsWayUp
  <1> QED
    BY <1>2, <1>3, <1>4

-----------------------------------------------------------------------------
(* Where the conjunctions are not yet made anew: at the node above n. *)

Trees(n) == [0..(2 * n - 2) -> SUBSET AllOnes]

Above(node, p) == node # 0 /\ p = (node - 1) \div 2

Pending(n, tree, node) ==
    \A p \in 0..(n - 2) : tree[p] = Parent(tree, p) \/ Above(node, p)

SameLeaves(n, t, u) == \A l \in (n - 1)..(2 * n - 2) : t[l] = u[l]

(* Below node p are 2p + 1 and 2p + 2. *)
LEMMA NodeAbove ==
    ASSUME NEW n \in Nat \ {0}, NEW node \in 1..(2 * n - 2)
    PROVE  /\ (node - 1) \div 2 \in 0..(n - 2) /\ (node - 1) \div 2 < node
           /\ node = 2 * ((node - 1) \div 2) + 1 \/ node = 2 * ((node - 1) \div 2) + 2
  OBVIOUS

LEMMA NodesBelow ==
    ASSUME NEW n \in Nat \ {0}, NEW p \in 0..(n - 2)
    PROVE  /\ p \in 0..(2 * n - 2)
           /\ 2 * p + 1 \in 1..(2 * n - 2) /\ 2 * p + 2 \in 1..(2 * n - 2)
           /\ (2 * p + 1 - 1) \div 2 = p /\ (2 * p + 2 - 1) \div 2 = p
           /\ 2 * p + 1 # p /\ 2 * p + 2 # p
  OBVIOUS

LEMMA StepUpKeeps ==
    ASSUME NEW n \in Nat \ {0}, NEW t \in Trees(n), NEW node \in 0..(2 * n - 2),
           Pending(n, t, node)
    PROVE  \E u \in Trees(n), m \in 0..(2 * n - 2) :
               /\ StepUp(<<t, node>>) = <<u, m>>
               /\ Pending(n, u, m) /\ SameLeaves(n, t, u)
               /\ node # 0 => m < node
               /\ node = 0 => m = 0
  <1>1. CASE node = 0
    <2>1. StepUp(<<t, node>>) = <<t, node>>
      BY <1>1 DEF StepUp
    <2>2. SameLeaves(n, t, t)
      BY DEF SameLeaves
    <2> QED
      BY <1>1, <2>1, <2>2
  <1>2. CASE node # 0
    <2>1. PICK p \in 0..(n - 2) : p = (node - 1) \div 2 /\ p < node
      BY <1>2, NodeAbove
    <2>2. PICK u : u = [t EXCEPT ![p] = Parent(t, p)]
      OBVIOUS
    <2>3. PICK m : m = IF u = t THEN 0 ELSE p
      OBVIOUS
    <2>4. StepUp(<<t, node>>) = <<u, m>>
      BY <1>2, <2>1, <2>2, <2>3 DEF StepUp
    <2>5. p \in 0..(2 * n - 2) /\ 2 * p + 1 \in 0..(2 * n - 2)
      BY <2>1, NodesBelow
    <2>6. Parent(t, p) \in SUBSET AllOnes
      BY <2>5 DEF Parent, Trees
    <2>7. u \in Trees(n)
      BY <2>2, <2>6 DEF Trees
    <2>8. u[p] = Parent(t, p) /\ \A q \in 0..(2 * n - 2) : q # p => u[q] = t[q]
      BY <2>2, <2>5 DEF Trees
    <2>9. SameLeaves(n, t, u)
      BY <2>8 DEF SameLeaves
    <2>10. m \in 0..(2 * n - 2) /\ m < node
      BY <2>1, <2>3, <2>5
    <2>11. Pending(n, u, m)
      <3> SUFFICES ASSUME NEW q \in 0..(n - 2), ~Above(m, q) PROVE u[q] = Parent(u, q)
        BY DEF Pending
      <3>1. /\ q \in 0..(2 * n - 2) /\ 2 * q + 1 \in 0..(2 * n - 2) /\ 2 * q + 2 \in 0..(2 * n - 2)
            /\ (2 * q + 1 - 1) \div 2 = q /\ (2 * q + 2 - 1) \div 2 = q
            /\ 2 * q + 1 # q /\ 2 * q + 2 # q
        BY NodesBelow
      <3>2. CASE u = t
        <4>1. CASE q = p
          BY <2>8, <3>2, <4>1
        <4>2. CASE q # p
          BY <2>1, <3>2, <4>2 DEF Pending, Above
        <4> QED
          BY <4>1, <4>2
      <3>3. CASE u # t
        <4>1. m = p
          BY <2>3, <3>3
        <4>2. 2 * q + 1 # p /\ 2 * q + 2 # p
          <5> SUFFICES ASSUME 2 * q + 1 = p \/ 2 * q + 2 = p PROVE FALSE
            OBVIOUS
          <5>1. p # 0 /\ q = (p - 1) \div 2
            BY <3>1
          <5> QED
            BY <4>1, <5>1 DEF Above
        <4>3. Parent(u, q) = Parent(t, q)
          BY <2>8, <3>1, <4>2 DEF Parent
        <4>4. CASE q = p
          BY <2>8, <4>3, <4>4
        <4>5. CASE q # p
          BY <2>1, <2>8, <3>1, <4>3, <4>5 DEF Pending, Above
        <4> QED
          BY <4>4, <4>5
      <3> QED
        BY <3>2, <3>3
    <2> QED
      BY <1>2, <2>4, <2>7, <2>9, <2>10, <2>11
  <1> QED
    BY <1>1, <1>2

(* After updateParents every node is the conjunction of the two below it    *)
(* again, although the way up may end early.                                *)
LEMMA UpdateParentsRestores ==
    ASSUME NEW n \in Nat \ {0}, NEW tree \in Trees(n), NEW leaf \in 0..(2 * n - 2),
           Pending(n, tree, leaf)
    PROVE  /\ updateParents(tree, leaf) \in Trees(n)
           /\ SameLeaves(n, tree, updateParents(tree, leaf))
           /\ \A p \in 0..(n - 2) :
                  updateParents(tree, leaf)[p] = Parent(updateParents(tree, leaf), p)
  <1>1. PICK last \in Nat : last = 2 * n - 2
    OBVIOUS
  <1>2. DOMAIN tree = 0..last
    BY <1>1 DEF Trees
  <1>3. PICK g : IsWayUp(g, last, tree, leaf) /\ updateParents(tree, leaf) = g[last][1]
    BY <1>2, WayUp
  <1> DEFINE At(k) == \E u \in Trees(n), m \in 0..last :
                          /\ g[k] = <<u, m>>
                          /\ Pending(n, u, m) /\ SameLeaves(n, tree, u)
                          /\ m + k <= last \/ m = 0
             S == {k \in 0..last : At(k)}
  <1>4. 0 \in S
    <2>1. g[0] = <<tree, leaf>>
      BY <1>3 DEF IsWayUp
    <2>2. SameLeaves(n, tree, tree)
      BY DEF SameLeaves
    <2> QED
      BY <1>1, <2>1, <2>2
  <1>5. ASSUME NEW k \in 1..last, k - 1 \in S PROVE k \in S
    <2>1. g[k] = StepUp(g[k - 1])
      <3>1. k \in 0..last /\ k # 0
        OBVIOUS
      <3> QED
        BY <1>3, <3>1 DEF IsWayUp
    <2>2. PICK t \in Trees(n), node \in 0..last :
              /\ g[k - 1] = <<t, node>>
              /\ Pending(n, t, node) /\ SameLeaves(n, tree, t)
              /\ node + (k - 1) <= last \/ node = 0
      BY <1>5
    <2>3. PICK u \in Trees(n), m \in 0..last :
              /\ StepUp(<<t, node>>) = <<u, m>>
              /\ Pending(n, u, m) /\ SameLeaves(n, t, u)
              /\ node # 0 => m < node
              /\ node = 0 => m = 0
      BY <1>1, <2>2, StepUpKeeps
    <2>4. SameLeaves(n, tree, u)
      BY <2>2, <2>3 DEF SameLeaves
    <2>5. m + k <= last \/ m = 0
      BY <2>2, <2>3
    <2>6. At(k)
      BY <2>1, <2>2, <2>3, <2>4, <2>5
    <2> QED
      BY <2>6
  <1>6. last \in 0..last
    OBVIOUS
  <1> HIDE DEF S
  <1>7. last \in S
    BY <1>4, <1>5, <1>6, Induction
  <1>8. PICK u \in Trees(n), m \in 0..last :
            /\ g[last] = <<u, m>>
            /\ Pending(n, u, m) /\ SameLeaves(n, tree, u)
            /\ m + last <= last \/ m = 0
    BY <1>7 DEF S
  <1>9. updateParents(tree, leaf) = u /\ m = 0
    BY <1>3, <1>8
  <1>10. \A p \in 0..(n - 2) : u[p] = Parent(u, p)
    BY <1>8, <1>9 DEF Pending, Above
  <1> QED
    BY <1>8, <1>9, <1>10

-----------------------------------------------------------------------------
(* The tree of a frame of which the fragments in S have arrived. *)
TreeOf(tree, bits, S) ==
    /\ tree \in Trees(LeafCount(bits))
    /\ \A i \in Bits(bits) : getBit(tree, bits, i) <=> i \in S
    /\ Padding(bits) \subseteq tree[2 * LeafCount(bits) - 2]
    /\ \A p \in InnerNodes(bits) : tree[p] = Parent(tree, p)

LEMMA PaddingOfNewTree ==
    ASSUME NEW bits \in Nat \ {0}
    PROVE  Padding(bits) = IF bits % BitsPerBlock = 0 THEN {}
                           ELSE {b \in AllOnes : b >= bits % BitsPerBlock}
  <1>1. PICK n \in Nat \ {0} : /\ n = LeafCount(bits) /\ bits <= BitsPerBlock * n
                               /\ BitsPerBlock * (n - 1) < bits
    BY LeafBounds
  <1>2. PICK q \in Nat : q = bits \div BitsPerBlock
    BY QuotientRemainder
  <1>3. PICK r \in Nat : r = bits % BitsPerBlock /\ r < BitsPerBlock
    BY QuotientRemainder
  <1>4. bits = BitsPerBlock * q + r
    BY <1>2, <1>3, QuotientRemainder
  <1>5. \A b \in AllOnes : b \in Nat /\ b < BitsPerBlock
    BY BlockAssumption DEF AllOnes
  <1>6. /\ BitsPerBlock \in Nat /\ BitsPerBlock * q \in Int
        /\ BitsPerBlock * n \in Int /\ BitsPerBlock * (n - 1) \in Int
    BY BlockAssumption
  <1>7. n = q \/ n = q + 1
    <2>1. ASSUME n < q PROVE FALSE
      <3>1. BitsPerBlock * n + BitsPerBlock <= BitsPerBlock * q
        BY <2>1, Multiples
      <3> QED
        BY <1>1, <1>3, <1>4, <1>6, <3>1, BlockAssumption
    <2>2. ASSUME q < n - 1 PROVE FALSE
      <3>1. BitsPerBlock * q + BitsPerBlock <= BitsPerBlock * (n - 1)
        BY <2>2, Multiples
      <3> QED
        BY <1>1, <1>3, <1>4, <1>6, <3>1
    <2> QED
      BY <2>1, <2>2
  <1>8. CASE r = 0
    <2>1. n = q
      <3>1. CASE n = q + 1
        <4>1. BitsPerBlock * (n - 1) = BitsPerBlock * q
          BY <3>1
        <4> QED
          BY <1>1, <1>4, <1>6, <1>8, <4>1
      <3> QED
        BY <1>7, <3>1
    <2>2. BitsPerBlock * n = BitsPerBlock * q /\ BitsPerBlock * (n - 1) = BitsPerBlock * n - BitsPerBlock
      BY <2>1, BlockAssumption
    <2>3. \A b \in AllOnes : ~(BitsPerBlock * (n - 1) + b >= bits)
      BY <1>4, <1>5, <1>6, <1>8, <2>2
    <2> QED
      BY <1>1, <1>3, <1>8, <2>3 DEF Padding
  <1>9. CASE r # 0
    <2>1. n = q + 1
      <3>1. CASE n = q
        <4>1. BitsPerBlock * n = BitsPerBlock * q
          BY <3>1
        <4> QED
          BY <1>1, <1>4, <1>6, <1>9, <4>1
      <3> QED
        BY <1>7, <3>1
    <2>2. BitsPerBlock * (n - 1) = BitsPerBlock * q
      BY <2>1
    <2>3. \A b \in AllOnes : BitsPerBlock * (n - 1) + b >= bits <=> b >= r
      BY <1>4, <1>5, <1>6, <2>2
    <2> QED
      BY <1>1, <1>3, <1>9, <2>3 DEF Padding
  <1> QED
    BY <1>8, <1>9

(* A bit is not at a place of the padding. *)
LEMMA BitIsNotPadding ==
    ASSUME NEW bits \in Nat \ {0}, NEW i \in Bits(bits),
           LeafOf(bits, i) = 2 * LeafCount(bits) - 2
    PROVE  i % BitsPerBlock \notin Padding(bits)
  <1>1. i \in Nat /\ i < bits
    BY DEF Bits
  <1>2. PICK n \in Nat : n = LeafCount(bits)
    BY LeafBounds
  <1>3. PICK q \in Nat : q = i \div BitsPerBlock
    BY <1>1, QuotientRemainder
  <1>4. q = n - 1
    BY <1>2, <1>3 DEF LeafOf
  <1>5. i = BitsPerBlock * (n - 1) + (i % BitsPerBlock)
    BY <1>1, <1>3, <1>4, QuotientRemainder
  <1> QED
    BY <1>1, <1>2, <1>5 DEF Padding

LEMMA NewTreeIsEmpty ==
    ASSUME NEW bits \in Nat \ {0}
    PROVE  TreeOf(NewTree(bits), bits, {})
  <1>1. PICK n \in Nat \ {0} : n = LeafCount(bits)
    BY LeafBounds
  <1>2. NewTree(bits) = [k \in 0..(2 * n - 2) |-> IF k = 2 * n - 2 THEN Padding(bits) ELSE {}]
    BY <1>1, PaddingOfNewTree DEF NewTree
  <1>3. Padding(bits) \subseteq AllOnes
    BY DEF Padding
  <1>4. PICK t : t = NewTree(bits)
    OBVIOUS
  <1>5. t \in Trees(n) /\ \A k \in 0..(2 * n - 2) : t[k] = IF k = 2 * n - 2 THEN Padding(bits) ELSE {}
    BY <1>2, <1>3, <1>4 DEF Trees
  <1>6. ASSUME NEW i \in Bits(bits) PROVE ~getBit(t, bits, i)
    <2>1. LeafOf(bits, i) \in Leaves(bits)
      BY LeafOfBit
    <2>2. LeafOf(bits, i) \in 0..(2 * n - 2)
      BY <1>1, <2>1 DEF Leaves
    <2>3. CASE LeafOf(bits, i) = 2 * n - 2
      <3>1. i % BitsPerBlock \notin Padding(bits)
        BY <1>1, <2>3, BitIsNotPadding
      <3> QED
        BY <1>5, <2>2, <2>3, <3>1 DEF getBit
    <2>4. CASE LeafOf(bits, i) # 2 * n - 2
      BY <1>5, <2>2, <2>4 DEF getBit
    <2> QED
      BY <2>3, <2>4
  <1>7. ASSUME NEW p \in 0..(n - 2) PROVE t[p] = Parent(t, p)
    <2>1. p \in 0..(2 * n - 2) /\ p # 2 * n - 2
      OBVIOUS
    <2>2. 2 * p + 1 \in 0..(2 * n - 2) /\ 2 * p + 1 # 2 * n - 2
      OBVIOUS
    <2>3. t[p] = {} /\ t[2 * p + 1] = {}
      BY <1>5, <2>1, <2>2
    <2> QED
      BY <2>3 DEF Parent
  <1>8. 2 * n - 2 \in 0..(2 * n - 2)
    OBVIOUS
  <1>9. Padding(bits) \subseteq t[2 * n - 2]
    BY <1>5, <1>8
  <1> QED
    BY <1>1, <1>4, <1>5, <1>6, <1>7, <1>9 DEF TreeOf, InnerNodes

(* setBit adds one fragment and nothing else. *)
LEMMA SetBitAdds ==
    ASSUME NEW bits \in Nat \ {0}, NEW tree, NEW S, TreeOf(tree, bits, S), NEW i \in Bits(bits)
    PROVE  TreeOf(setBit(tree, bits, i), bits, S \union {i})
  <1>1. PICK n \in Nat \ {0} : n = LeafCount(bits)
    BY LeafBounds
  <1>2. PICK leaf \in (n - 1)..(2 * n - 2) : leaf = LeafOf(bits, i)
    BY <1>1, LeafOfBit DEF Leaves
  <1>3. PICK b \in AllOnes : b = i % BitsPerBlock
    BY LeafOfBit
  <1>4. tree \in Trees(n) /\ leaf \in 0..(2 * n - 2)
    BY <1>1 DEF TreeOf
  <1>5. PICK t : t = [tree EXCEPT ![leaf] = tree[leaf] \union {b}]
    OBVIOUS
  <1>6. /\ t[leaf] = tree[leaf] \union {b}
        /\ \A k \in 0..(2 * n - 2) : k # leaf => t[k] = tree[k]
        /\ t \in Trees(n)
    <2>1. tree[leaf] \union {b} \in SUBSET AllOnes
      BY <1>4 DEF Trees
    <2> QED
      BY <1>4, <1>5, <2>1 DEF Trees
  <1>7. Pending(n, t, leaf)
    <2> SUFFICES ASSUME NEW p \in 0..(n - 2), ~Above(leaf, p) PROVE t[p] = Parent(t, p)
      BY DEF Pending
    <2>1. /\ p \in 0..(2 * n - 2) /\ 2 * p + 1 \in 0..(2 * n - 2) /\ 2 * p + 2 \in 0..(2 * n - 2)
          /\ (2 * p + 1 - 1) \div 2 = p /\ (2 * p + 2 - 1) \div 2 = p
      BY NodesBelow
    <2>2. p # leaf
      OBVIOUS
    <2>3. 2 * p + 1 # leaf /\ 2 * p + 2 # leaf
      <3> SUFFICES ASSUME 2 * p + 1 = leaf \/ 2 * p + 2 = leaf PROVE FALSE
        OBVIOUS
      <3>1. leaf # 0 /\ p = (leaf - 1) \div 2
        BY <2>1
      <3> QED
        BY <3>1 DEF Above
    <2>4. tree[p] = Parent(tree, p)
      BY <1>1 DEF TreeOf, InnerNodes
    <2> QED
      BY <1>6, <2>1, <2>2, <2>3, <2>4 DEF Parent
  <1>8. PICK u : u = updateParents(t, leaf) /\ u = setBit(tree, bits, i)
    BY <1>2, <1>3, <1>5 DEF setBit
  <1>9. u \in Trees(n) /\ SameLeaves(n, t, u) /\ \A p \in 0..(n - 2) : u[p] = Parent(u, p)
    <2>1. /\ updateParents(t, leaf) \in Trees(n)
          /\ SameLeaves(n, t, updateParents(t, leaf))
          /\ \A p \in 0..(n - 2) : updateParents(t, leaf)[p] = Parent(updateParents(t, leaf), p)
      BY <1>4, <1>6, <1>7, UpdateParentsRestores, Zenon
    <2> QED
      BY <1>8, <2>1
  <1>10. ASSUME NEW j \in Bits(bits) PROVE getBit(u, bits, j) <=> j \in S \union {i}
    <2>1. PICK l \in (n - 1)..(2 * n - 2) : l = LeafOf(bits, j)
      BY <1>1, LeafOfBit DEF Leaves
    <2>2. PICK c \in AllOnes : c = j % BitsPerBlock
      BY LeafOfBit
    <2>3. (c \in tree[l]) <=> j \in S
      BY <2>1, <2>2 DEF TreeOf, getBit
    <2>4. u[l] = t[l] /\ l \in 0..(2 * n - 2)
      BY <1>9, <2>1 DEF SameLeaves
    <2>5. CASE j = i
      BY <1>2, <1>3, <1>6, <2>1, <2>2, <2>4, <2>5 DEF getBit
    <2>6. CASE j # i
      <3>1. l # leaf \/ c # b
        BY <1>2, <1>3, <2>1, <2>2, <2>6, OneBit
      <3>2. (c \in t[l]) <=> c \in tree[l]
        BY <1>6, <2>4, <3>1
      <3> QED
        BY <2>1, <2>2, <2>3, <2>4, <2>6, <3>2 DEF getBit
    <2> QED
      BY <2>5, <2>6
  <1>11. Padding(bits) \subseteq u[2 * n - 2]
    <2>1. 2 * n - 2 \in (n - 1)..(2 * n - 2) /\ 2 * n - 2 \in 0..(2 * n - 2)
      OBVIOUS
    <2>2. u[2 * n - 2] = t[2 * n - 2] /\ tree[2 * n - 2] \subseteq t[2 * n - 2]
      BY <1>6, <1>9, <2>1 DEF SameLeaves
    <2> QED
      BY <1>1, <2>2 DEF TreeOf
  <1> QED
    BY <1>1, <1>8, <1>9, <1>10, <1>11 DEF TreeOf, InnerNodes

(* A full root makes every node full, and full leaves the root. *)
LEMMA FullRoot ==
    ASSUME NEW n \in Nat \ {0}, NEW tree \in Trees(n),
           \A p \in 0..(n - 2) : tree[p] = Parent(tree, p), tree[0] = AllOnes
    PROVE  \A k \in 0..(2 * n - 2) : tree[k] = AllOnes
  <1> DEFINE T == {k \in 0..(2 * n - 2) : tree[k] # AllOnes}
  <1>1. T \subseteq Nat
    OBVIOUS
  <1>2. T = {}
    <2> SUFFICES ASSUME T # {} PROVE FALSE
      OBVIOUS
    <2> HIDE DEF T
    <2>1. PICK x \in T : \A y \in T : x <= y
      BY <1>1, LeastElement
    <2>2. x \in 1..(2 * n - 2) /\ tree[x] # AllOnes
      BY <2>1 DEF T
    <2>3. PICK p \in 0..(n - 2) : p < x /\ (x = 2 * p + 1 \/ x = 2 * p + 2)
      BY <2>2, NodeAbove
    <2>4. p \in 0..(2 * n - 2) /\ 2 * p + 1 \in 0..(2 * n - 2) /\ 2 * p + 2 \in 0..(2 * n - 2)
      BY NodesBelow
    <2>5. tree[p] = AllOnes
      BY <2>1, <2>3, <2>4 DEF T
    <2>6. tree[2 * p + 1] \subseteq AllOnes /\ tree[2 * p + 2] \subseteq AllOnes
      BY <2>4 DEF Trees
    <2>7. tree[2 * p + 1] = AllOnes /\ tree[2 * p + 2] = AllOnes
      BY <2>5, <2>6 DEF Parent
    <2> QED
      BY <2>2, <2>3, <2>7
  <1> QED
    BY <1>2

LEMMA FullLeaves ==
    ASSUME NEW n \in Nat \ {0}, NEW tree \in Trees(n),
           \A p \in 0..(n - 2) : tree[p] = Parent(tree, p),
           \A l \in (n - 1)..(2 * n - 2) : tree[l] = AllOnes
    PROVE  tree[0] = AllOnes
  <1> DEFINE T == {d \in 0..(2 * n - 2) : tree[2 * n - 2 - d] # AllOnes}
  <1>1. T \subseteq Nat
    OBVIOUS
  <1>2. T = {}
    <2> SUFFICES ASSUME T # {} PROVE FALSE
      OBVIOUS
    <2> HIDE DEF T
    <2>1. PICK x \in T : \A y \in T : x <= y
      BY <1>1, LeastElement
    <2>2. PICK k \in 0..(2 * n - 2) : k = 2 * n - 2 - x
      BY <2>1 DEF T
    <2>3. tree[k] # AllOnes
      BY <2>1, <2>2 DEF T
    <2>4. k \in 0..(n - 2)
      BY <2>3
    <2>5. 2 * k + 1 \in 0..(2 * n - 2) /\ 2 * k + 2 \in 0..(2 * n - 2)
      BY <2>4
    <2>6. ASSUME NEW j \in 0..(2 * n - 2), k < j PROVE tree[j] = AllOnes
      <3>1. PICK y \in 0..(2 * n - 2) : y = 2 * n - 2 - j /\ j = 2 * n - 2 - y
        <4>1. 2 * n - 2 - j \in 0..(2 * n - 2) /\ j = 2 * n - 2 - (2 * n - 2 - j)
          OBVIOUS
        <4> QED
          BY <4>1
      <3>2. ~(x <= y)
        <4>1. x \in Nat
          BY <1>1, <2>1
        <4> QED
          BY <2>2, <2>6, <3>1, <4>1
      <3>3. y \notin T
        BY <2>1, <3>2
      <3> QED
        BY <3>1, <3>3 DEF T
    <2>7. tree[2 * k + 1] = AllOnes /\ tree[2 * k + 2] = AllOnes
      <3>1. k < 2 * k + 1 /\ k < 2 * k + 2
        BY <2>4
      <3> QED
        BY <2>5, <2>6, <3>1
    <2> QED
      BY <2>3, <2>4, <2>7 DEF Parent
  <1>3. 2 * n - 2 \in 0..(2 * n - 2) /\ 2 * n - 2 - (2 * n - 2) = 0
    OBVIOUS
  <1>4. 2 * n - 2 \notin T
    BY <1>2
  <1> QED
    BY <1>3, <1>4

(* The root tells whether all the bits are set. *)
LEMMA RootTellsCompleteness ==
    ASSUME NEW bits \in Nat \ {0}, NEW tree, NEW S, TreeOf(tree, bits, S), S \subseteq Bits(bits)
    PROVE  isComplete(tree) <=> S = Bits(bits)
  <1>1. PICK n \in Nat \ {0} : n = LeafCount(bits)
    BY LeafBounds
  <1>2. tree \in Trees(n) /\ \A p \in 0..(n - 2) : tree[p] = Parent(tree, p)
    BY <1>1 DEF TreeOf, InnerNodes
  <1>3. ASSUME tree[0] = AllOnes, NEW i \in Bits(bits) PROVE i \in S
    <2>1. \A k \in 0..(2 * n - 2) : tree[k] = AllOnes
      BY <1>2, <1>3, FullRoot
    <2>2. LeafOf(bits, i) \in 0..(2 * n - 2) /\ i % BitsPerBlock \in AllOnes
      BY <1>1, LeafOfBit DEF Leaves
    <2>3. getBit(tree, bits, i)
      BY <2>1, <2>2 DEF getBit
    <2> QED
      BY <2>3 DEF TreeOf
  <1>4. ASSUME S = Bits(bits) PROVE tree[0] = AllOnes
    <2>1. ASSUME NEW l \in (n - 1)..(2 * n - 2) PROVE tree[l] = AllOnes
      <3>1. tree[l] \subseteq AllOnes
        <4>1. l \in 0..(2 * n - 2)
          OBVIOUS
        <4> QED
          BY <1>2, <4>1 DEF Trees
      <3>2. ASSUME NEW b \in AllOnes PROVE b \in tree[l]
        <4>1. l \in Leaves(bits)
          BY <1>1 DEF Leaves
        <4>2. CASE l = 2 * n - 2 /\ b \in Padding(bits)
          BY <1>1, <4>2 DEF TreeOf
        <4>3. ASSUME NEW i \in Bits(bits), LeafOf(bits, i) = l, i % BitsPerBlock = b
              PROVE  b \in tree[l]
          BY <1>4, <4>3 DEF TreeOf, getBit
        <4> QED
          BY <1>1, <4>1, <4>2, <4>3, BitOfPlace
      <3> QED
        BY <3>1, <3>2
    <2> QED
      BY <1>2, <2>1, FullLeaves
  <1> QED
    BY <1>3, <1>4 DEF isComplete

(* From a new FastBitSet on, whatever bits are set in whatever order and    *)
(* however often: a bit is set if it was set, and IsComplete, which looks   *)
(* at the root alone, is true exactly when all were.  Neither the padding   *)
(* of the last leaf nor the early end of the way up in updateParents lets   *)
(* it miss one or take one for set.                                         *)
THEOREM BitSetTellsCompleteness ==
    ASSUME NEW bits \in Nat \ {0}, NEW order \in Seq(Bits(bits)), NEW tree,
           tree[0] = NewTree(bits),
           \A k \in 1..Len(order) : tree[k] = setBit(tree[k - 1], bits, order[k])
    PROVE  \A k \in 0..Len(order) :
               /\ \A i \in Bits(bits) :
                      getBit(tree[k], bits, i) <=> \E j \in 1..k : order[j] = i
               /\ isComplete(tree[k]) <=> \A i \in Bits(bits) : \E j \in 1..k : order[j] = i
  <1> DEFINE SetBy(k) == {order[j] : j \in 1..k}
             T == {k \in 0..Len(order) : TreeOf(tree[k], bits, SetBy(k))}
  <1>1. Len(order) \in Nat
    OBVIOUS
  <1>2. 0 \in T
    <2>1. SetBy(0) = {}
      OBVIOUS
    <2>2. TreeOf(tree[0], bits, SetBy(0))
      BY <2>1, NewTreeIsEmpty
    <2> QED
      BY <1>1, <2>2
  <1>3. ASSUME NEW k \in 1..Len(order), k - 1 \in T PROVE k \in T
    <2>1. k \in 0..Len(order) /\ order[k] \in Bits(bits) /\ k \in Nat
      BY <1>1
    <2>2. SetBy(k) = SetBy(k - 1) \union {order[k]}
      <3>1. 1..k = (1..(k - 1)) \union {k}
        BY <2>1
      <3> QED
        BY <3>1
    <2>3. TreeOf(tree[k - 1], bits, SetBy(k - 1))
      BY <1>3
    <2> HIDE DEF SetBy
    <2>4. TreeOf(setBit(tree[k - 1], bits, order[k]), bits, SetBy(k - 1) \union {order[k]})
      BY <2>1, <2>3, SetBitAdds
    <2>5. TreeOf(tree[k], bits, SetBy(k))
      BY <2>2, <2>4
    <2> QED
      BY <2>1, <2>5
  <1>4. 0..Len(order) \subseteq T
    <2> HIDE DEF T
    <2> QED
      BY <1>1, <1>2, <1>3, Induction
  <1> SUFFICES ASSUME NEW k \in 0..Len(order)
               PROVE  /\ \A i \in Bits(bits) : getBit(tree[k], bits, i) <=> i \in SetBy(k)
                      /\ isComplete(tree[k]) <=> Bits(bits) \subseteq SetBy(k)
    OBVIOUS
  <1>5. TreeOf(tree[k], bits, SetBy(k))
    BY <1>4
  <1>6. SetBy(k) \subseteq Bits(bits)
    BY <1>1
  <1> HIDE DEF SetBy
  <1>7. isComplete(tree[k]) <=> SetBy(k) = Bits(bits)
    BY <1>5, <1>6, RootTellsCompleteness
  <1> QED
    BY <1>5, <1>6, <1>7 DEF TreeOf

=================================================================================
