----------------------- MODULE SubscriptionTables_proofs -----------------------
(***************************************************************************)
(* What holds of the two lock-free tables for every capacity, number of ids *)
(* and set of items: nodes are conserved, and the tables are the sets that  *)
(* Topic takes them for.                                                   *)
(***************************************************************************)
EXTENDS SubscriptionTables, Integers, FiniteSetTheorems, WellFoundedInduction, TLAPS

-----------------------------------------------------------------------------
(* Linked lists.  Nodes are 0..(nil - 1), nx[m] is the node after m, and    *)
(* nil ends a list.                                                        *)

(* L lists the n nodes of the list that begins at h; F is their set. *)
Lists(L, n, nx, nil, h, F) ==
    /\ F = {L[i] : i \in 1..n}
    /\ \A i, j \in 1..n : L[i] = L[j] => i = j
    /\ h = IF n = 0 THEN nil ELSE L[1]
    /\ \A i \in 1..n : nx[L[i]] = IF i = n THEN nil ELSE L[i + 1]

IsChain(nx, nil, h, F) ==
    \E n \in Nat : \E L \in [1..n -> 0..(nil - 1)] : Lists(L, n, nx, nil, h, F)

LEMMA ChainEmpty == ASSUME NEW nx, NEW nil \in Nat PROVE IsChain(nx, nil, nil, {})
  <1> DEFINE L == [i \in 1..0 |-> 0]
  <1>1. L \in [1..0 -> 0..(nil - 1)]
    OBVIOUS
  <1>2. {} = {L[i] : i \in 1..0} /\ \A i \in 1..0 : FALSE
    OBVIOUS
  <1> HIDE DEF L
  <1>3. Lists(L, 0, nx, nil, nil, {})
    BY <1>2 DEF Lists
  <1> QED
    BY <1>1, <1>3 DEF IsChain

LEMMA ChainType ==
    ASSUME NEW nx, NEW nil \in Nat, NEW h, NEW F, IsChain(nx, nil, h, F)
    PROVE  /\ F \subseteq 0..(nil - 1)
           /\ h = nil => F = {}
           /\ h # nil => h \in F
           /\ \A m \in F : nx[m] = nil \/ nx[m] \in F
  <1>0. PICK n \in Nat : \E L \in [1..n -> 0..(nil - 1)] : Lists(L, n, nx, nil, h, F)
    BY DEF IsChain
  <1>1. PICK L \in [1..n -> 0..(nil - 1)] :
            /\ F = {L[i] : i \in 1..n}
            /\ \A i, j \in 1..n : L[i] = L[j] => i = j
            /\ h = IF n = 0 THEN nil ELSE L[1]
            /\ \A i \in 1..n : nx[L[i]] = IF i = n THEN nil ELSE L[i + 1]
    BY <1>0 DEF Lists
  <1>2. F \subseteq 0..(nil - 1)
    BY <1>1
  <1>3. (h = nil => F = {}) /\ (h # nil => h \in F)
    <2>1. CASE n = 0
      BY <1>1, <2>1
    <2>2. CASE n # 0
      <3>1. 1 \in 1..n /\ L[1] \in 0..(nil - 1) /\ h = L[1]
        BY <1>1, <2>2
      <3> QED
        BY <1>1, <3>1
    <2> QED
      BY <2>1, <2>2
  <1>4. ASSUME NEW i \in 1..n PROVE nx[L[i]] = nil \/ nx[L[i]] \in F
    BY <1>1
  <1> QED
    BY <1>1, <1>2, <1>3, <1>4

LEMMA ChainKept ==
    ASSUME NEW nx, NEW ny, NEW nil \in Nat, NEW h, NEW F, IsChain(nx, nil, h, F),
           \A m \in F : ny[m] = nx[m]
    PROVE  IsChain(ny, nil, h, F)
  <1>0. PICK n \in Nat : \E L \in [1..n -> 0..(nil - 1)] : Lists(L, n, nx, nil, h, F)
    BY DEF IsChain
  <1>1. PICK L \in [1..n -> 0..(nil - 1)] :
            /\ F = {L[i] : i \in 1..n}
            /\ \A i, j \in 1..n : L[i] = L[j] => i = j
            /\ h = IF n = 0 THEN nil ELSE L[1]
            /\ \A i \in 1..n : nx[L[i]] = IF i = n THEN nil ELSE L[i + 1]
    BY <1>0 DEF Lists
  <1>2. \A i \in 1..n : ny[L[i]] = nx[L[i]]
    BY <1>1
  <1>3. Lists(L, n, ny, nil, h, F)
    BY <1>1, <1>2 DEF Lists
  <1> QED
    BY <1>3 DEF IsChain

LEMMA ChainPush ==
    ASSUME NEW nx, NEW nil \in Nat, NEW h, NEW F, IsChain(nx, nil, h, F),
           NEW m \in 0..(nil - 1), m \notin F, nx[m] = h
    PROVE  IsChain(nx, nil, m, F \union {m})
  <1>0. PICK n \in Nat : \E L \in [1..n -> 0..(nil - 1)] : Lists(L, n, nx, nil, h, F)
    BY DEF IsChain
  <1>1. PICK L \in [1..n -> 0..(nil - 1)] :
            /\ F = {L[i] : i \in 1..n}
            /\ \A i, j \in 1..n : L[i] = L[j] => i = j
            /\ h = IF n = 0 THEN nil ELSE L[1]
            /\ \A i \in 1..n : nx[L[i]] = IF i = n THEN nil ELSE L[i + 1]
    BY <1>0 DEF Lists
  <1> DEFINE M == [i \in 1..(n + 1) |-> IF i = 1 THEN m ELSE L[i - 1]]
  <1>2. M \in [1..(n + 1) -> 0..(nil - 1)]
    OBVIOUS
  <1>3. M[1] = m /\ \A i \in 1..n : i + 1 \in 1..(n + 1) /\ M[i + 1] = L[i]
    OBVIOUS
  <1>4. \A i \in 1..(n + 1) : i = 1 \/ (i - 1 \in 1..n /\ M[i] = L[i - 1] /\ M[i] \in F)
    BY <1>1
  <1> HIDE DEF M
  <1>5. F \union {m} = {M[i] : i \in 1..(n + 1)}
    <2>1. \A x \in F \union {m} : \E i \in 1..(n + 1) : x = M[i]
      <3>1. 1 \in 1..(n + 1)
        OBVIOUS
      <3>2. ASSUME NEW x \in F PROVE \E i \in 1..(n + 1) : x = M[i]
        <4>1. PICK i \in 1..n : x = L[i]
          BY <1>1
        <4> QED
          BY <1>3, <4>1
      <3> QED
        BY <1>3, <3>1, <3>2
    <2>2. \A i \in 1..(n + 1) : M[i] \in F \union {m}
      BY <1>3, <1>4
    <2> QED
      BY <2>1, <2>2
  <1>6. \A i, j \in 1..(n + 1) : M[i] = M[j] => i = j
    <2> SUFFICES ASSUME NEW i \in 1..(n + 1), NEW j \in 1..(n + 1), M[i] = M[j] PROVE i = j
      OBVIOUS
    <2>1. CASE i = 1 \/ j = 1
      BY <1>3, <1>4, <2>1
    <2>2. CASE i # 1 /\ j # 1
      <3>1. i - 1 = j - 1
        BY <1>1, <1>4, <2>2
      <3> QED
        BY <3>1
    <2> QED
      BY <2>1, <2>2
  <1>7. \A i \in 1..(n + 1) : nx[M[i]] = IF i = n + 1 THEN nil ELSE M[i + 1]
    <2> SUFFICES ASSUME NEW i \in 1..(n + 1)
                 PROVE  nx[M[i]] = IF i = n + 1 THEN nil ELSE M[i + 1]
      OBVIOUS
    <2>1. CASE i = 1
      <3>1. CASE n = 0
        BY <1>1, <1>3, <2>1, <3>1
      <3>2. CASE n # 0
        <4>1. 1 \in 1..n /\ M[1 + 1] = L[1] /\ h = L[1]
          BY <1>1, <1>3, <3>2
        <4> QED
          BY <1>3, <2>1, <3>2, <4>1
      <3> QED
        BY <3>1, <3>2
    <2>2. CASE i # 1
      <3>1. i - 1 \in 1..n /\ M[i] = L[i - 1] /\ (i - 1) + 1 = i
        BY <1>4, <2>2
      <3>2. nx[L[i - 1]] = IF i - 1 = n THEN nil ELSE L[i]
        BY <1>1, <3>1
      <3>3. i # n + 1 => i \in 1..n /\ M[i + 1] = L[i]
        BY <1>3
      <3> QED
        BY <3>1, <3>2, <3>3
    <2> QED
      BY <2>1, <2>2
  <1>8. n + 1 \in Nat /\ n + 1 # 0
    OBVIOUS
  <1>9. Lists(M, n + 1, nx, nil, m, F \union {m})
    BY <1>3, <1>5, <1>6, <1>7, <1>8 DEF Lists
  <1> QED
    BY <1>2, <1>8, <1>9 DEF IsChain

(* The list from its second node on. *)
LEMMA ChainTail ==
    ASSUME NEW nx, NEW nil \in Nat, NEW h, NEW F, IsChain(nx, nil, h, F), h # nil
    PROVE  IsChain(nx, nil, nx[h], F \ {h})
  <1>0. PICK n \in Nat : \E L \in [1..n -> 0..(nil - 1)] : Lists(L, n, nx, nil, h, F)
    BY DEF IsChain
  <1>1. PICK L \in [1..n -> 0..(nil - 1)] :
            /\ F = {L[i] : i \in 1..n}
            /\ \A i, j \in 1..n : L[i] = L[j] => i = j
            /\ h = IF n = 0 THEN nil ELSE L[1]
            /\ \A i \in 1..n : nx[L[i]] = IF i = n THEN nil ELSE L[i + 1]
    BY <1>0 DEF Lists
  <1>2. n # 0 /\ 1 \in 1..n /\ h = L[1] /\ n - 1 \in Nat
    BY <1>1
  <1> DEFINE M == [i \in 1..(n - 1) |-> L[i + 1]]
  <1>3. M \in [1..(n - 1) -> 0..(nil - 1)]
    OBVIOUS
  <1>4. \A i \in 1..(n - 1) : M[i] = L[i + 1] /\ i + 1 \in 1..n
    OBVIOUS
  <1> HIDE DEF M
  <1>5. F \ {h} = {M[i] : i \in 1..(n - 1)}
    <2>1. ASSUME NEW x \in F \ {h} PROVE \E i \in 1..(n - 1) : x = M[i]
      <3>1. PICK i \in 1..n : x = L[i]
        BY <1>1
      <3>2. i # 1 /\ i - 1 \in 1..(n - 1) /\ (i - 1) + 1 = i
        BY <1>2, <3>1
      <3> QED
        BY <1>4, <3>1, <3>2
    <2>2. ASSUME NEW i \in 1..(n - 1) PROVE M[i] \in F \ {h}
      <3>1. i + 1 # 1
        OBVIOUS
      <3> QED
        BY <1>1, <1>2, <1>4, <3>1
    <2> QED
      BY <2>1, <2>2
  <1>6. \A i, j \in 1..(n - 1) : M[i] = M[j] => i = j
    <2> SUFFICES ASSUME NEW i \in 1..(n - 1), NEW j \in 1..(n - 1), M[i] = M[j] PROVE i = j
      OBVIOUS
    <2>1. i + 1 = j + 1
      BY <1>1, <1>4
    <2> QED
      BY <2>1
  <1>7. nx[h] = IF n - 1 = 0 THEN nil ELSE M[1]
    BY <1>1, <1>2, <1>4
  <1>8. \A i \in 1..(n - 1) : nx[M[i]] = IF i = n - 1 THEN nil ELSE M[i + 1]
    <2> SUFFICES ASSUME NEW i \in 1..(n - 1)
                 PROVE  nx[M[i]] = IF i = n - 1 THEN nil ELSE M[i + 1]
      OBVIOUS
    <2>1. M[i] = L[i + 1] /\ nx[L[i + 1]] = IF i + 1 = n THEN nil ELSE L[(i + 1) + 1]
      BY <1>1, <1>4
    <2>2. i # n - 1 => i + 1 \in 1..(n - 1) /\ M[i + 1] = L[(i + 1) + 1]
      BY <1>4
    <2> QED
      BY <2>1, <2>2
  <1>9. Lists(M, n - 1, nx, nil, nx[h], F \ {h})
    BY <1>5, <1>6, <1>7, <1>8 DEF Lists
  <1> QED
    BY <1>2, <1>3, <1>9 DEF IsChain

(* The list from any of its nodes on. *)
LEMMA ChainFrom ==
    ASSUME NEW nx, NEW nil \in Nat, NEW h, NEW F, IsChain(nx, nil, h, F), NEW m \in F
    PROVE  \E G \in SUBSET F : IsChain(nx, nil, m, G)
  <1>0. PICK n \in Nat : \E L \in [1..n -> 0..(nil - 1)] : Lists(L, n, nx, nil, h, F)
    BY DEF IsChain
  <1>1. PICK L \in [1..n -> 0..(nil - 1)] :
            /\ F = {L[i] : i \in 1..n}
            /\ \A i, j \in 1..n : L[i] = L[j] => i = j
            /\ h = IF n = 0 THEN nil ELSE L[1]
            /\ \A i \in 1..n : nx[L[i]] = IF i = n THEN nil ELSE L[i + 1]
    BY <1>0 DEF Lists
  <1>2. PICK p \in 1..n : m = L[p]
    BY <1>1
  <1> DEFINE k == n - p + 1
             M == [i \in 1..k |-> L[p - 1 + i]]
             G == {M[i] : i \in 1..k}
  <1>3. k \in Nat /\ k # 0 /\ 1 \in 1..k /\ \A i \in 1..k : p - 1 + i \in 1..n
    OBVIOUS
  <1>4. M \in [1..k -> 0..(nil - 1)] /\ M[1] = m /\ \A i \in 1..k : M[i] = L[p - 1 + i]
    BY <1>2, <1>3
  <1>5. G \subseteq F
    BY <1>1, <1>3, <1>4
  <1>6. \A i, j \in 1..k : M[i] = M[j] => i = j
    <2> SUFFICES ASSUME NEW i \in 1..k, NEW j \in 1..k, M[i] = M[j] PROVE i = j
      OBVIOUS
    <2>1. p - 1 + i = p - 1 + j
      BY <1>1, <1>3, <1>4
    <2> QED
      BY <2>1
  <1>7. \A i \in 1..k : nx[M[i]] = IF i = k THEN nil ELSE M[i + 1]
    <2> SUFFICES ASSUME NEW i \in 1..k PROVE nx[M[i]] = IF i = k THEN nil ELSE M[i + 1]
      OBVIOUS
    <2>1. nx[L[p - 1 + i]] = IF p - 1 + i = n THEN nil ELSE L[(p - 1 + i) + 1]
      BY <1>1, <1>3
    <2>2. (p - 1 + i = n <=> i = k) /\ (p - 1 + i) + 1 = p - 1 + (i + 1)
      OBVIOUS
    <2>3. i # k => i + 1 \in 1..k
      BY <1>3
    <2> QED
      BY <1>4, <2>1, <2>2, <2>3
  <1>8. Lists(M, k, nx, nil, m, G)
    BY <1>3, <1>4, <1>6, <1>7 DEF Lists
  <1>9. IsChain(nx, nil, m, G)
    BY <1>3, <1>4, <1>8 DEF IsChain
  <1> QED
    BY <1>5, <1>9

(* A node is cut out by a change of what leads to it. *)
LEMMA ChainCut ==
    ASSUME NEW nx, NEW ny, NEW nil \in Nat, NEW h, NEW F, IsChain(nx, nil, h, F),
           NEW p \in F, NEW m \in F, nx[p] = m, ny[p] = nx[m],
           \A q \in F \ {p} : ny[q] = nx[q]
    PROVE  IsChain(ny, nil, h, F \ {m})
  <1>0. PICK n \in Nat : \E L \in [1..n -> 0..(nil - 1)] : Lists(L, n, nx, nil, h, F)
    BY DEF IsChain
  <1>1. PICK L \in [1..n -> 0..(nil - 1)] :
            /\ F = {L[i] : i \in 1..n}
            /\ \A i, j \in 1..n : L[i] = L[j] => i = j
            /\ h = IF n = 0 THEN nil ELSE L[1]
            /\ \A i \in 1..n : nx[L[i]] = IF i = n THEN nil ELSE L[i + 1]
    BY <1>0 DEF Lists
  <1>2. PICK a \in 1..n : p = L[a]
    BY <1>1
  <1>3. a # n /\ a + 1 \in 1..n /\ m = L[a + 1]
    <2>1. m \in 0..(nil - 1)
      BY <1>1
    <2>2. a # n
      BY <1>1, <1>2, <2>1
    <2> QED
      BY <1>1, <1>2, <2>2
  <1> DEFINE M == [i \in 1..(n - 1) |-> IF i <= a THEN L[i] ELSE L[i + 1]]
  <1>4. M \in [1..(n - 1) -> 0..(nil - 1)] /\ n - 1 \in Nat /\ n # 0 /\ 1 \in 1..(n - 1)
    BY <1>3
  <1>5. \A i \in 1..(n - 1) : /\ i \in 1..n /\ i + 1 \in 1..n
                              /\ M[i] = IF i <= a THEN L[i] ELSE L[i + 1]
    OBVIOUS
  <1> HIDE DEF M
  <1>6. F \ {m} = {M[i] : i \in 1..(n - 1)}
    <2>1. ASSUME NEW x \in F \ {m} PROVE \E i \in 1..(n - 1) : x = M[i]
      <3>1. PICK i \in 1..n : x = L[i] /\ i # a + 1
        BY <1>1, <1>3
      <3>2. CASE i <= a
        <4>1. i \in 1..(n - 1)
          BY <1>3, <3>2
        <4> QED
          BY <1>5, <3>1, <3>2, <4>1
      <3>3. CASE i > a
        <4>1. i - 1 \in 1..(n - 1) /\ ~(i - 1 <= a) /\ (i - 1) + 1 = i
          BY <3>1, <3>3
        <4> QED
          BY <1>5, <3>1, <4>1
      <3> QED
        BY <3>2, <3>3
    <2>2. ASSUME NEW i \in 1..(n - 1) PROVE M[i] \in F \ {m}
      <3>1. PICK j \in 1..n : M[i] = L[j] /\ j # a + 1
        <4>1. CASE i <= a
          BY <1>5, <4>1
        <4>2. CASE ~(i <= a)
          <5>1. i + 1 # a + 1
            BY <4>2
          <5> QED
            BY <1>5, <4>2, <5>1
        <4> QED
          BY <4>1, <4>2
      <3> QED
        BY <1>1, <1>3, <3>1
    <2> QED
      BY <2>1, <2>2
  <1>7. \A i, j \in 1..(n - 1) : M[i] = M[j] => i = j
    <2> SUFFICES ASSUME NEW i \in 1..(n - 1), NEW j \in 1..(n - 1), M[i] = M[j] PROVE i = j
      OBVIOUS
    <2>1. PICK x \in 1..n : M[i] = L[x] /\ x = IF i <= a THEN i ELSE i + 1
      BY <1>5
    <2>2. PICK y \in 1..n : M[j] = L[y] /\ y = IF j <= a THEN j ELSE j + 1
      BY <1>5
    <2>3. x = y
      <3>1. L[x] = L[y]
        BY <2>1, <2>2
      <3> QED
        BY <1>1, <3>1
    <2>4. (IF i <= a THEN i ELSE i + 1) = (IF j <= a THEN j ELSE j + 1)
      BY <2>1, <2>2, <2>3
    <2> QED
      BY <2>4
  <1>8. h = IF n - 1 = 0 THEN nil ELSE M[1]
    <2>1. n # 0 /\ n - 1 # 0 /\ h = L[1]
      BY <1>1, <1>4
    <2>2. 1 <= a /\ M[1] = L[1]
      BY <1>4, <1>5
    <2> QED
      BY <2>1, <2>2
  <1>9. \A i \in 1..(n - 1) : ny[M[i]] = IF i = n - 1 THEN nil ELSE M[i + 1]
    <2> SUFFICES ASSUME NEW i \in 1..(n - 1)
                 PROVE  ny[M[i]] = IF i = n - 1 THEN nil ELSE M[i + 1]
      OBVIOUS
    <2>1. /\ nx[L[i]] = L[i + 1]
          /\ nx[L[i + 1]] = IF i = n - 1 THEN nil ELSE L[(i + 1) + 1]
      <3>1. i \in 1..n /\ i + 1 \in 1..n /\ i # n /\ (i + 1 = n <=> i = n - 1)
        BY <1>5
      <3>2. nx[L[i]] = L[i + 1]
        BY <1>1, <3>1
      <3>3. nx[L[i + 1]] = IF i + 1 = n THEN nil ELSE L[(i + 1) + 1]
        BY <1>1, <3>1
      <3> QED
        BY <3>1, <3>2, <3>3
    <2>2. i # n - 1 => i + 1 \in 1..(n - 1)
      OBVIOUS
    <2>3. CASE i < a
      <3>1. i # n - 1 /\ i + 1 <= a /\ L[i] \in F \ {p}
        BY <1>1, <1>2, <1>3, <1>5, <2>3
      <3> QED
        BY <1>5, <2>1, <2>2, <2>3, <3>1
    <2>4. CASE i = a
      <3>1. ny[M[i]] = nx[L[i + 1]] /\ ~(i + 1 <= a)
        BY <1>2, <1>3, <1>5, <2>4
      <3> QED
        BY <1>5, <2>1, <2>2, <3>1
    <2>5. CASE i > a
      <3>1. L[i + 1] \in F \ {p} /\ M[i] = L[i + 1] /\ ~(i + 1 <= a)
        BY <1>1, <1>2, <1>5, <2>5
      <3> QED
        BY <1>5, <2>1, <2>2, <3>1
    <2> QED
      BY <2>3, <2>4, <2>5
  <1>10. Lists(M, n - 1, ny, nil, h, F \ {m})
    BY <1>6, <1>7, <1>8, <1>9 DEF Lists
  <1> QED
    BY <1>4, <1>10 DEF IsChain

(* Induction, in a form whose only parameter is a set. *)
LEMMA LeastElement ==
    ASSUME NEW T, T \subseteq Nat, T # {}
    PROVE  \E x \in T : \A y \in T : x <= y
  <1> DEFINE R == OpToRel(<, Nat)
  <1>1. IsWellFoundedOn(R, Nat)
    BY NatLessThanWellFounded
  <1> HIDE DEF R
  <1>2. PICK x \in T : \A y \in T : ~(<<y, x>> \in R)
    BY <1>1, WFMin
  <1>3. \A y \in T : y < x => <<y, x>> \in R
    BY DEF R, OpToRel
  <1>4. \A y \in T : ~(y < x)
    BY <1>2, <1>3
  <1>5. \A y \in T : x <= y
    BY <1>4
  <1> QED
    BY <1>5

LEMMA Induction ==
    ASSUME NEW n \in Nat, NEW S, 0 \in S, \A k \in 1..n : k - 1 \in S => k \in S
    PROVE  0..n \subseteq S
  <1> DEFINE T == (0..n) \ S
  <1>1. T \subseteq Nat /\ \A x \in T : x # 0 /\ x \in 1..n /\ x - 1 \in 0..n
    OBVIOUS
  <1>2. T = {}
    <2> SUFFICES ASSUME T # {} PROVE FALSE
      OBVIOUS
    <2> HIDE DEF T
    <2>1. PICK x \in T : \A y \in T : x <= y
      BY <1>1, LeastElement
    <2>2. x - 1 \notin T
      BY <1>1, <2>1
    <2> QED
      BY <1>1, <2>2 DEF T
  <1> QED
    BY <1>2

(* What is found in k steps from h on. *)
IsUpTo(g, k, nx, nil, h) ==
    g = [j \in 0..k |-> IF j = 0 THEN {h}
                        ELSE g[j - 1] \union {nx[m] : m \in g[j - 1] \ {nil}}]

Reached(nx, nil, h) ==
    LET upTo[k \in 0..nil] ==
            IF k = 0 THEN {h} ELSE upTo[k - 1] \union {nx[m] : m \in upTo[k - 1] \ {nil}}
    IN  upTo[nil] \ {nil}

LEMMA ChainIsReached == ASSUME NEW h PROVE Chain(h) = Reached(nextNode, Nil, h)
  BY DEF Chain, Reached, Nil

LEMMA FreeIdsAreReached == FreeIds = Reached(nextId, NoNode, _head)
  BY DEF FreeIds, Reached, NoNode

LEMMA UpToExists ==
    ASSUME NEW nx, NEW nil \in Nat, NEW h
    PROVE  \E g : IsUpTo(g, nil, nx, nil, h)
  <1> DEFINE S == {k \in 0..nil : \E g : IsUpTo(g, k, nx, nil, h)}
  <1>1. 0 \in S
    <2> DEFINE g == [j \in 0..0 |-> {h}]
    <2>1. IsUpTo(g, 0, nx, nil, h)
      BY DEF IsUpTo
    <2> QED
      BY <2>1
  <1>2. ASSUME NEW k \in 1..nil, k - 1 \in S PROVE k \in S
    <2>1. PICK f : IsUpTo(f, k - 1, nx, nil, h)
      BY <1>2
    <2> DEFINE g == [j \in 0..k |-> IF j = k THEN f[k - 1] \union {nx[m] : m \in f[k - 1] \ {nil}}
                                    ELSE f[j]]
    <2>2. ASSUME NEW j \in 0..k
          PROVE  g[j] = IF j = 0 THEN {h} ELSE g[j - 1] \union {nx[m] : m \in g[j - 1] \ {nil}}
      <3>1. CASE j = k
        <4>1. g[j - 1] = f[k - 1] /\ j # 0
          BY <3>1
        <4> QED
          BY <3>1, <4>1
      <3>2. CASE j # k
        <4>1. j \in 0..(k - 1) /\ g[j] = f[j] /\ (j # 0 => g[j - 1] = f[j - 1])
          BY <3>2
        <4>2. f[j] = IF j = 0 THEN {h} ELSE f[j - 1] \union {nx[m] : m \in f[j - 1] \ {nil}}
          BY <2>1, <4>1 DEF IsUpTo
        <4> HIDE DEF g
        <4> QED
          BY <4>1, <4>2
      <3> QED
        BY <3>1, <3>2
    <2>3. IsUpTo(g, k, nx, nil, h)
      BY <2>2 DEF IsUpTo
    <2> QED
      BY <2>3
  <1>3. nil \in 0..nil
    OBVIOUS
  <1> HIDE DEF S
  <1>4. nil \in S
    BY <1>1, <1>2, <1>3, Induction
  <1> QED
    BY <1>4 DEF S

LEMMA ReachedIn ==
    ASSUME NEW nx, NEW nil \in Nat, NEW h
    PROVE  \E g : IsUpTo(g, nil, nx, nil, h) /\ Reached(nx, nil, h) = g[nil] \ {nil}
  <1> DEFINE G == CHOOSE f : f = [j \in 0..nil |-> IF j = 0 THEN {h}
                                  ELSE f[j - 1] \union {nx[m] : m \in f[j - 1] \ {nil}}]
  <1>1. G = [j \in 0..nil |-> IF j = 0 THEN {h}
                              ELSE G[j - 1] \union {nx[m] : m \in G[j - 1] \ {nil}}]
    <2>1. PICK g : IsUpTo(g, nil, nx, nil, h)
      BY UpToExists
    <2>2. g = [j \in 0..nil |-> IF j = 0 THEN {h}
                                ELSE g[j - 1] \union {nx[m] : m \in g[j - 1] \ {nil}}]
      BY <2>1 DEF IsUpTo
    <2> QED
      BY <2>2
  <1>2. Reached(nx, nil, h) = G[nil] \ {nil}
    BY DEF Reached
  <1> QED
    BY <1>1, <1>2 DEF IsUpTo

(* As many steps as there are nodes reach them all. *)
LEMMA ChainReached ==
    ASSUME NEW nx, NEW nil \in Nat, NEW h, NEW F, IsChain(nx, nil, h, F)
    PROVE  Reached(nx, nil, h) = F
  <1>0. PICK n \in Nat : \E L \in [1..n -> 0..(nil - 1)] : Lists(L, n, nx, nil, h, F)
    BY DEF IsChain
  <1>1. PICK L \in [1..n -> 0..(nil - 1)] :
            /\ F = {L[i] : i \in 1..n}
            /\ \A i, j \in 1..n : L[i] = L[j] => i = j
            /\ h = IF n = 0 THEN nil ELSE L[1]
            /\ \A i \in 1..n : nx[L[i]] = IF i = n THEN nil ELSE L[i + 1]
    BY <1>0 DEF Lists
  <1>2. n <= nil
    <2>1. L \in Injection(1..n, 0..(nil - 1))
      BY <1>1 DEF Injection, IsInjective
    <2>2. /\ IsFiniteSet(0..(nil - 1))
          /\ Cardinality(0..(nil - 1)) = nil /\ Cardinality(1..n) = n
      BY FS_Interval
    <2> QED
      BY <2>1, <2>2, FS_Injection
  <1>3. PICK g : IsUpTo(g, nil, nx, nil, h) /\ Reached(nx, nil, h) = g[nil] \ {nil}
    BY ReachedIn
  <1> DEFINE First(k) == {L[i] : i \in {j \in 1..n : j <= k + 1}}
             S == {k \in 0..nil : g[k] \ {nil} = First(k)}
  <1>4. 0 \in S
    <2>1. g[0] = {h}
      BY <1>3 DEF IsUpTo
    <2>2. CASE n = 0
      BY <1>1, <2>1, <2>2
    <2>3. CASE n # 0
      <3>1. {j \in 1..n : j <= 0 + 1} = {1} /\ h = L[1] /\ L[1] # nil
        BY <1>1, <2>3
      <3> QED
        BY <2>1, <3>1
    <2> QED
      BY <2>2, <2>3
  <1>5. ASSUME NEW k \in 1..nil, k - 1 \in S PROVE k \in S
    <2>1. g[k] = g[k - 1] \union {nx[m] : m \in g[k - 1] \ {nil}}
      <3>1. k \in 0..nil /\ k # 0
        OBVIOUS
      <3> QED
        BY <1>3, <3>1 DEF IsUpTo
    <2>2. g[k - 1] \ {nil} = First(k - 1)
      BY <1>5
    <2>3. \A x \in g[k] \ {nil} : x \in First(k)
      <3> SUFFICES ASSUME NEW x \in g[k], x # nil PROVE x \in First(k)
        OBVIOUS
      <3>1. CASE x \in First(k - 1)
        BY <3>1
      <3>2. ASSUME NEW i \in 1..n, i <= (k - 1) + 1, x = nx[L[i]] PROVE x \in First(k)
        <4>1. i # n /\ i + 1 \in 1..n /\ i + 1 <= k + 1 /\ x = L[i + 1]
          BY <1>1, <3>2
        <4> QED
          BY <4>1
      <3> QED
        BY <2>1, <2>2, <3>1, <3>2
    <2>4. ASSUME NEW i \in 1..n, i <= k + 1 PROVE L[i] \in g[k] \ {nil}
      <3>1. CASE i <= k
        <4>1. L[i] \in First(k - 1)
          BY <3>1
        <4> QED
          BY <2>1, <2>2, <4>1
      <3>2. CASE i = k + 1
        <4>1. k \in 1..n /\ k # n /\ nx[L[k]] = L[i] /\ L[k] \in First(k - 1)
          BY <1>1, <3>2
        <4>2. L[i] \in 0..(nil - 1)
          OBVIOUS
        <4> QED
          BY <2>1, <2>2, <4>1, <4>2
      <3> QED
        BY <2>4, <3>1, <3>2
    <2>5. \A x \in First(k) : x \in g[k] \ {nil}
      BY <2>4
    <2> QED
      BY <2>3, <2>5
  <1>6. nil \in 0..nil
    OBVIOUS
  <1> HIDE DEF S
  <1>7. nil \in S
    BY <1>4, <1>5, <1>6, Induction
  <1>8. g[nil] \ {nil} = First(nil)
    BY <1>7 DEF S
  <1>9. First(nil) = F
    BY <1>1, <1>2
  <1> QED
    BY <1>3, <1>8, <1>9

-----------------------------------------------------------------------------
(* The bag.                                                                *)

Links == Nodes \union {Nil}

BagTypeOK ==
    /\ value \in [Nodes -> Items \union {NoItem}]
    /\ nextNode \in [Nodes -> Links]
    /\ free_list_head \in Links
    /\ items_head \in Links
    /\ pushPc \in {"idle", "next", "take", "fill", "swing"}
    /\ pushing \in Items \union {NoItem}
    /\ pushed \subseteq Items
    /\ node \in Links
    /\ after \in Links
    /\ walkPc \in {"idle", "visit", "step", "remove", "look", "cut", "free", "give", "popnext",
                   "pop"}
    /\ current \in Links
    /\ previous \in Links
    /\ following \in Links
    /\ overtaken \in BOOLEAN

(* I are the nodes on the list of items, F those on the free list; every    *)
(* node is in one place.                                                   *)
ListsAre(I, F) ==
    /\ IsChain(nextNode, Nil, items_head, I)
    /\ IsChain(nextNode, Nil, free_list_head, F)
    /\ I \intersect F = {}
    /\ PushHolds \intersect (I \union F) = {}
    /\ WalkHolds \intersect (I \union F \union PushHolds) = {}
    /\ I \union F \union PushHolds \union WalkHolds = Nodes

(* Only the thread that pushes takes from the free list: the node it has    *)
(* seen at the head is still there, and still leads where it led.           *)
PusherAt(F) ==
    /\ pushPc = "next" => node \in F \union {Nil}
    /\ pushPc = "take" => node \in F /\ after = nextNode[node]

(* Only the thread that walks takes from the list of items. *)
WalkerAt(I) ==
    /\ walkPc \in {"visit", "look"} => current \in I \union {Nil}
    /\ walkPc \in {"step", "cut", "popnext", "pop"} => current \in I
    /\ walkPc \in {"look", "cut"} => previous \in I \union {Nil}
    /\ walkPc \in {"cut", "pop"} => following = nextNode[current]

(* While nothing is pushed, the search has looked at all that is not before *)
(* it, and knows what leads to the node in hand.                           *)
Searched(I) ==
    walkPc \in {"look", "cut"} /\ ~overtaken =>
        /\ LinkFrom(previous) = current
        /\ \E G \in SUBSET I : /\ IsChain(nextNode, Nil, current, G)
                               /\ \A m \in I \ G : value[m] # target

(* What is in the bag has been pushed, and is there once. *)
ItemsOnce(I) ==
    /\ \A m \in I : value[m] \in pushed
    /\ \A m, k \in I : value[m] = value[k] => m = k
    /\ pushPc # "idle" => pushing \in pushed /\ \A m \in I : value[m] # pushing
    /\ pushPc = "swing" => value[node] = pushing

BagIs(I, F) == ListsAre(I, F) /\ PusherAt(F) /\ WalkerAt(I) /\ Searched(I) /\ ItemsOnce(I)

BagInv == BagTypeOK /\ \E I, F \in SUBSET Nodes : BagIs(I, F)

LEMMA NilType == Nil \in Nat /\ Nil \notin Nodes /\ Nodes = 0..(Nil - 1) /\ Nil \in Links
  BY BagAssumption DEF Nil, Nodes, Links

LEMMA BagStart == BagInit => BagInv
  <1> SUFFICES ASSUME BagInit PROVE BagInv
    OBVIOUS
  <1>1. BagTypeOK
    <2>1. 0 \in Nodes /\ \A n \in Nodes : n + 1 \in Links
      BY BagAssumption DEF Nodes, Links, Nil
    <2> QED
      BY <2>1, NilType DEF BagInit, BagTypeOK, Links
  <1>2. IsChain(nextNode, Nil, items_head, {})
    BY NilType, ChainEmpty DEF BagInit
  <1>3. IsChain(nextNode, Nil, free_list_head, Nodes)
    <2> DEFINE L == [i \in 1..Nil |-> i - 1]
    <2>1. L \in [1..Nil -> 0..(Nil - 1)] /\ Nil # 0
      BY BagAssumption, NilType DEF Nil
    <2>2. \A i \in 1..Nil : L[i] = i - 1 /\ i - 1 \in Nodes
      BY NilType
    <2> HIDE DEF L
    <2>3. Nodes = {L[i] : i \in 1..Nil}
      <3>1. \A x \in Nodes : x + 1 \in 1..Nil /\ L[x + 1] = x
        BY <2>2, NilType
      <3> QED
        BY <2>2, <3>1
    <2>4. \A i \in 1..Nil : nextNode[L[i]] = IF i = Nil THEN Nil ELSE L[i + 1]
      <3> SUFFICES ASSUME NEW i \in 1..Nil
                   PROVE  nextNode[L[i]] = IF i = Nil THEN Nil ELSE L[i + 1]
        OBVIOUS
      <3>1. nextNode[L[i]] = i
        BY <2>2, NilType DEF BagInit
      <3>2. i # Nil => i + 1 \in 1..Nil /\ L[i + 1] = i
        BY <2>2, NilType
      <3> QED
        BY <3>1, <3>2
    <2>5. \A i, j \in 1..Nil : L[i] = L[j] => i = j
      BY <2>2, NilType
    <2>6. free_list_head = L[1]
      BY <2>1, <2>2, NilType DEF BagInit
    <2>7. Lists(L, Nil, nextNode, Nil, free_list_head, Nodes)
      BY <2>1, <2>3, <2>4, <2>5, <2>6 DEF Lists
    <2> QED
      BY <2>1, <2>7, NilType DEF IsChain
  <1>4. BagIs({}, Nodes)
    BY <1>2, <1>3 DEF BagInit, BagIs, ListsAre, PushHolds, WalkHolds, PusherAt, WalkerAt, Searched,
                      ItemsOnce
  <1> QED
    BY <1>1, <1>4 DEF BagInv

LEMMA BagTypeStep == BagTypeOK /\ BagInv /\ BagNext => BagTypeOK'
  <1> SUFFICES ASSUME BagTypeOK, BagInv, BagNext PROVE BagTypeOK'
    OBVIOUS
  <1> PICK I \in SUBSET Nodes, F \in SUBSET Nodes : BagIs(I, F)
    BY DEF BagInv
  <1>1. /\ walkPc \in {"step", "cut", "popnext", "pop"} => current \in Nodes
        /\ walkPc = "look" /\ current # Nil => current \in Nodes
        /\ walkPc = "visit" /\ current # Nil => current \in Nodes
        /\ walkPc \in {"look", "cut"} => previous \in Nodes \union {Nil}
        /\ walkPc \in {"free", "give"} => current \in Nodes
        /\ pushPc \in {"fill", "swing"} => node \in Nodes
        /\ pushPc = "next" /\ node # Nil => node \in Nodes
    BY DEF BagIs, WalkerAt, ListsAre, PushHolds, WalkHolds, BagTypeOK, Links
  <1>2. Nil \in Links /\ Nodes \subseteq Links
    BY NilType DEF Links
  <1> USE DEF BagTypeOK
  <1>3. CASE \E x \in Items : Push(x)
    BY <1>3 DEF Push, nodeVars, walkVars
  <1>4. CASE PushFails \/ LoadFreeNext \/ TakeNode
    BY <1>1, <1>4 DEF PushFails, LoadFreeNext, TakeNode, nodeVars, walkVars
  <1>5. CASE FillNode
    BY <1>1, <1>5 DEF FillNode, walkVars
  <1>6. CASE SwingHead
    BY <1>1, <1>6 DEF SwingHead, walkVars
  <1>7. CASE BeginWalk \/ VisitItem \/ StepIterator \/ EndWalk
    BY <1>1, <1>7 DEF BeginWalk, VisitItem, StepIterator, EndWalk, nodeVars, pushVars
  <1>8. CASE \E x \in Items : BeginRemove(x)
    BY <1>2, <1>8 DEF BeginRemove, nodeVars, pushVars
  <1>9. CASE LookAt
    BY <1>1, <1>9 DEF LookAt, nodeVars, pushVars
  <1>10. CASE CutOut
    BY <1>1, <1>10 DEF CutOut, pushVars
  <1>11. CASE CutMissed
    <2>1. LinkFrom(previous) \in Links
      BY <1>1, <1>11 DEF CutMissed, LinkFrom
    <2> QED
      BY <2>1, <1>11 DEF CutMissed, nodeVars, pushVars
  <1>12. CASE RemoveFails
    BY <1>12 DEF RemoveFails, nodeVars, pushVars
  <1>13. CASE LinkFree
    BY <1>1, <1>13 DEF LinkFree, pushVars
  <1>14. CASE GiveNode
    BY <1>1, <1>14 DEF GiveNode, pushVars
  <1>15. CASE BeginPop \/ LoadNext \/ PopHead
    BY <1>1, <1>2, <1>15 DEF BeginPop, LoadNext, PopHead, nodeVars, pushVars
  <1> QED
    BY <1>3, <1>4, <1>5, <1>6, <1>7, <1>8, <1>9, <1>10, <1>11, <1>12, <1>13, <1>14, <1>15
       DEF BagNext, Pusher, Walker

(* The links of both lists are as they were. *)
LEMMA SameLists ==
    ASSUME BagTypeOK, NEW I \in SUBSET Nodes, NEW F \in SUBSET Nodes, ListsAre(I, F),
           UNCHANGED <<items_head, free_list_head>>,
           \A m \in I \union F : nextNode'[m] = nextNode[m],
           PushHolds' = PushHolds, WalkHolds' = WalkHolds
    PROVE  ListsAre(I, F)'
  <1>1. IsChain(nextNode', Nil, items_head, I) /\ IsChain(nextNode', Nil, free_list_head, F)
    BY ChainKept, NilType DEF ListsAre
  <1> QED
    BY <1>1 DEF ListsAre

LEMMA ListHeads ==
    ASSUME BagTypeOK, NEW I \in SUBSET Nodes, NEW F \in SUBSET Nodes, ListsAre(I, F)
    PROVE  /\ items_head = Nil => I = {}
           /\ items_head # Nil => items_head \in I
           /\ free_list_head = Nil => F = {}
           /\ free_list_head # Nil => free_list_head \in F
           /\ \A m \in I : nextNode[m] \in I \union {Nil}
           /\ \A m \in F : nextNode[m] \in F \union {Nil}
  <1>1. IsChain(nextNode, Nil, items_head, I) /\ IsChain(nextNode, Nil, free_list_head, F)
    BY DEF ListsAre
  <1>2. /\ items_head = Nil => I = {}
        /\ items_head # Nil => items_head \in I
        /\ \A m \in I : nextNode[m] \in I \union {Nil}
    BY <1>1, ChainType, NilType
  <1>3. /\ free_list_head = Nil => F = {}
        /\ free_list_head # Nil => free_list_head \in F
        /\ \A m \in F : nextNode[m] \in F \union {Nil}
    BY <1>1, ChainType, NilType
  <1> QED
    BY <1>2, <1>3

(* The list of items gains a node where a push succeeds, and loses one where *)
(* a removal or a pop does.                                                *)
ItemsAfter(I) ==
    IF pushPc = "swing" /\ pushPc' = "idle" THEN I \union {node}
    ELSE IF walkPc \in {"cut", "pop"} /\ walkPc' = "free" THEN I \ {current}
    ELSE I

(* The steps of the thread that pushes. *)
LEMMA PusherStep ==
    ASSUME BagTypeOK, BagTypeOK', NEW I \in SUBSET Nodes, NEW F \in SUBSET Nodes, BagIs(I, F), Pusher,
           NEW J, J = ItemsAfter(I)
    PROVE  \E E \in SUBSET Nodes : BagIs(J, E)'
  <1> USE DEF BagTypeOK
  <1>1. ListsAre(I, F) /\ PusherAt(F) /\ WalkerAt(I) /\ Searched(I) /\ ItemsOnce(I)
    BY DEF BagIs
  <1>2. ASSUME UNCHANGED <<items_head, walkVars>>,
               \A m \in I : nextNode'[m] = nextNode[m] /\ value'[m] = value[m],
               overtaken' = overtaken
        PROVE  WalkerAt(I)' /\ Searched(I)'
    <2>1. WalkerAt(I)'
      BY <1>1, <1>2 DEF WalkerAt, walkVars
    <2>2. ASSUME (walkPc \in {"look", "cut"} /\ ~overtaken)'
          PROVE  /\ LinkFrom(previous)' = current'
                 /\ \E G \in SUBSET I : /\ IsChain(nextNode', Nil, current', G)
                                        /\ \A m \in I \ G : value'[m] # target'
      <3>1. /\ walkPc \in {"look", "cut"} /\ ~overtaken
            /\ current' = current /\ target' = target /\ previous' = previous
        BY <1>2, <2>2 DEF walkVars
      <3>2. PICK G \in SUBSET I : /\ IsChain(nextNode, Nil, current, G)
                                  /\ \A m \in I \ G : value[m] # target
        BY <1>1, <3>1 DEF Searched
      <3>3. IsChain(nextNode', Nil, current, G)
        BY <1>2, <3>2, ChainKept, NilType
      <3>4. LinkFrom(previous)' = current'
        BY <1>1, <1>2, <3>1 DEF Searched, WalkerAt, LinkFrom
      <3> QED
        BY <1>2, <3>1, <3>2, <3>3, <3>4
    <2> QED
      BY <2>1, <2>2 DEF Searched
  <1>3. ASSUME NEW x \in Items, Push(x) PROVE \E E \in SUBSET Nodes : BagIs(J, E)'
    <2>0. J = I
      BY <1>3 DEF Push, walkVars, ItemsAfter
    <2>1. ListsAre(I, F)'
      BY <1>1, <1>3, SameLists DEF Push, nodeVars, walkVars, PushHolds, WalkHolds
    <2>2. PusherAt(F)'
      BY <1>1, <1>3, ListHeads DEF Push, nodeVars, PusherAt
    <2>3. WalkerAt(I)' /\ Searched(I)'
      BY <1>2, <1>3 DEF Push, nodeVars
    <2>4. ItemsOnce(I)'
      BY <1>1, <1>3 DEF Push, nodeVars, ItemsOnce
    <2> QED
      BY <2>0, <2>1, <2>2, <2>3, <2>4 DEF BagIs
  <1>4. CASE PushFails
    <2>0. J = I
      BY <1>4 DEF PushFails, walkVars, ItemsAfter
    <2>1. ListsAre(I, F)'
      BY <1>1, <1>4, SameLists DEF PushFails, nodeVars, walkVars, PushHolds, WalkHolds
    <2>2. PusherAt(F)'
      BY <1>4 DEF PushFails, PusherAt
    <2>3. WalkerAt(I)' /\ Searched(I)'
      BY <1>2, <1>4 DEF PushFails, nodeVars
    <2>4. ItemsOnce(I)'
      BY <1>1, <1>4 DEF PushFails, nodeVars, ItemsOnce
    <2> QED
      BY <2>0, <2>1, <2>2, <2>3, <2>4 DEF BagIs
  <1>5. CASE LoadFreeNext
    <2>0. J = I
      BY <1>5 DEF LoadFreeNext, walkVars, ItemsAfter
    <2>1. ListsAre(I, F)'
      BY <1>1, <1>5, SameLists DEF LoadFreeNext, nodeVars, walkVars, PushHolds, WalkHolds
    <2>2. PusherAt(F)'
      BY <1>1, <1>5 DEF LoadFreeNext, nodeVars, PusherAt
    <2>3. WalkerAt(I)' /\ Searched(I)'
      BY <1>2, <1>5 DEF LoadFreeNext, nodeVars
    <2>4. ItemsOnce(I)'
      BY <1>1, <1>5 DEF LoadFreeNext, nodeVars, ItemsOnce
    <2> QED
      BY <2>0, <2>1, <2>2, <2>3, <2>4 DEF BagIs
  <1>6. CASE TakeNode /\ free_list_head # node
    <2>0. J = I
      BY <1>6 DEF TakeNode, walkVars, ItemsAfter
    <2>1. ListsAre(I, F)'
      BY <1>1, <1>6, SameLists DEF TakeNode, walkVars, PushHolds, WalkHolds
    <2>2. PusherAt(F)'
      BY <1>1, <1>6, ListHeads DEF TakeNode, PusherAt
    <2>3. WalkerAt(I)' /\ Searched(I)'
      BY <1>2, <1>6 DEF TakeNode
    <2>4. ItemsOnce(I)'
      BY <1>1, <1>6 DEF TakeNode, ItemsOnce
    <2> QED
      BY <2>0, <2>1, <2>2, <2>3, <2>4 DEF BagIs
  <1>7. CASE TakeNode /\ free_list_head = node
    <2>0. J = I
      BY <1>7 DEF TakeNode, walkVars, ItemsAfter
    <2>1. PICK E \in SUBSET Nodes : E = F \ {node}
      OBVIOUS
    <2>2. /\ pushPc = "take" /\ node \in F /\ after = nextNode[node] /\ node # Nil
          /\ PushHolds = {} /\ PushHolds' = {node} /\ WalkHolds' = WalkHolds
      BY <1>1, <1>7, NilType DEF TakeNode, PusherAt, PushHolds, WalkHolds, walkVars
    <2>3. ListsAre(I, E)'
      <3>1. IsChain(nextNode, Nil, after, E)
        BY <1>1, <1>7, <2>1, <2>2, ChainTail, NilType DEF ListsAre
      <3> QED
        BY <1>1, <1>7, <2>1, <2>2, <3>1 DEF ListsAre, TakeNode
    <2>4. PusherAt(E)'
      BY <1>7 DEF TakeNode, PusherAt
    <2>5. WalkerAt(I)' /\ Searched(I)'
      BY <1>2, <1>7 DEF TakeNode
    <2>6. ItemsOnce(I)'
      BY <1>1, <1>7 DEF TakeNode, ItemsOnce
    <2>7. BagIs(I, E)'
      BY <2>3, <2>4, <2>5, <2>6 DEF BagIs
    <2> QED
      BY <2>0, <2>7
  <1>8. CASE FillNode
    <2>0. J = I
      BY <1>8 DEF FillNode, walkVars, ItemsAfter
    <2>1. node \in Nodes /\ node \notin I \union F
      BY <1>1, <1>8 DEF FillNode, ListsAre, PushHolds
    <2>2. \A m \in I \union F : nextNode'[m] = nextNode[m] /\ value'[m] = value[m]
      BY <1>8, <2>1 DEF FillNode
    <2>3. ListsAre(I, F)'
      BY <1>1, <1>8, <2>2, SameLists DEF FillNode, walkVars, PushHolds, WalkHolds
    <2>4. PusherAt(F)'
      BY <1>8 DEF FillNode, PusherAt
    <2>5. WalkerAt(I)' /\ Searched(I)'
      BY <1>2, <1>8, <2>2 DEF FillNode
    <2>6. ItemsOnce(I)'
      BY <1>1, <1>8, <2>1, <2>2 DEF FillNode, ItemsOnce
    <2> QED
      BY <2>0, <2>3, <2>4, <2>5, <2>6 DEF BagIs
  <1>9. CASE SwingHead /\ items_head # nextNode[node]
    <2>0. J = I
      BY <1>9 DEF SwingHead, walkVars, ItemsAfter
    <2>1. node \in Nodes /\ node \notin I \union F
      BY <1>1, <1>9 DEF SwingHead, ListsAre, PushHolds
    <2>2. \A m \in I \union F : nextNode'[m] = nextNode[m] /\ value'[m] = value[m]
      BY <1>9, <2>1 DEF SwingHead
    <2>3. ListsAre(I, F)'
      BY <1>1, <1>9, <2>2, SameLists DEF SwingHead, walkVars, PushHolds, WalkHolds
    <2>4. PusherAt(F)'
      BY <1>9 DEF SwingHead, PusherAt
    <2>5. WalkerAt(I)' /\ Searched(I)'
      BY <1>2, <1>9, <2>2 DEF SwingHead
    <2>6. ItemsOnce(I)'
      BY <1>1, <1>9 DEF SwingHead, ItemsOnce
    <2> QED
      BY <2>0, <2>3, <2>4, <2>5, <2>6 DEF BagIs
  <1>10. CASE SwingHead /\ items_head = nextNode[node]
    <2>1. J = I \union {node}
      BY <1>10 DEF SwingHead, ItemsAfter
    <2>2. /\ pushPc = "swing" /\ node \in Nodes /\ node \notin I \union F
          /\ PushHolds = {node} /\ PushHolds' = {} /\ WalkHolds' = WalkHolds
      BY <1>1, <1>10 DEF SwingHead, ListsAre, PushHolds, WalkHolds, walkVars
    <2>3. ListsAre(J, F)'
      <3>1. IsChain(nextNode, Nil, node, J)
        BY <1>1, <1>10, <2>1, <2>2, ChainPush, NilType DEF ListsAre
      <3> QED
        BY <1>1, <1>10, <2>1, <2>2, <3>1 DEF ListsAre, SwingHead
    <2>4. PusherAt(F)'
      BY <1>10 DEF SwingHead, PusherAt
    <2>5. WalkerAt(J)' /\ Searched(J)'
      BY <1>1, <1>10, <2>1 DEF SwingHead, walkVars, WalkerAt, Searched
    <2>6. ItemsOnce(J)'
      BY <1>1, <1>10, <2>1, <2>2 DEF SwingHead, ItemsOnce
    <2>7. BagIs(J, F)'
      BY <2>3, <2>4, <2>5, <2>6 DEF BagIs
    <2> QED
      BY <2>7
  <1> QED
    BY <1>3, <1>4, <1>5, <1>6, <1>7, <1>8, <1>9, <1>10 DEF Pusher

(* The steps of the thread that walks, removes and pops. *)
LEMMA WalkerStep ==
    ASSUME BagTypeOK, BagTypeOK', NEW I \in SUBSET Nodes, NEW F \in SUBSET Nodes, BagIs(I, F), Walker,
           NEW J, J = ItemsAfter(I)
    PROVE  \E E \in SUBSET Nodes : BagIs(J, E)'
  <1> USE DEF BagTypeOK
  <1>1. ListsAre(I, F) /\ PusherAt(F) /\ WalkerAt(I) /\ Searched(I) /\ ItemsOnce(I)
    BY DEF BagIs
  <1>2. CASE BeginWalk
    <2>0. J = I
      BY <1>2 DEF BeginWalk, pushVars, ItemsAfter
    <2>1. ListsAre(I, F)'
      BY <1>1, <1>2, SameLists DEF BeginWalk, nodeVars, pushVars, PushHolds, WalkHolds
    <2>2. PusherAt(F)'
      BY <1>1, <1>2 DEF BeginWalk, nodeVars, pushVars, PusherAt
    <2>3. WalkerAt(I)'
      BY <1>1, <1>2, ListHeads DEF BeginWalk, nodeVars, WalkerAt, LinkFrom
    <2>4. Searched(I)'
      BY <1>1, <1>2 DEF BeginWalk, nodeVars, Searched, LinkFrom
    <2>5. ItemsOnce(I)'
      BY <1>1, <1>2 DEF BeginWalk, nodeVars, pushVars, ItemsOnce
    <2> QED
      BY <2>0, <2>1, <2>2, <2>3, <2>4, <2>5 DEF BagIs
  <1>3. CASE VisitItem
    <2>0. J = I
      BY <1>3 DEF VisitItem, pushVars, ItemsAfter
    <2>1. ListsAre(I, F)'
      BY <1>1, <1>3, SameLists DEF VisitItem, nodeVars, pushVars, PushHolds, WalkHolds
    <2>2. PusherAt(F)'
      BY <1>1, <1>3 DEF VisitItem, nodeVars, pushVars, PusherAt
    <2>3. WalkerAt(I)'
      BY <1>1, <1>3, ListHeads DEF VisitItem, nodeVars, WalkerAt, LinkFrom
    <2>4. Searched(I)'
      BY <1>1, <1>3 DEF VisitItem, nodeVars, Searched, LinkFrom
    <2>5. ItemsOnce(I)'
      BY <1>1, <1>3 DEF VisitItem, nodeVars, pushVars, ItemsOnce
    <2> QED
      BY <2>0, <2>1, <2>2, <2>3, <2>4, <2>5 DEF BagIs
  <1>4. CASE StepIterator
    <2>0. J = I
      BY <1>4 DEF StepIterator, pushVars, ItemsAfter
    <2>1. ListsAre(I, F)'
      BY <1>1, <1>4, SameLists DEF StepIterator, nodeVars, pushVars, PushHolds, WalkHolds
    <2>2. PusherAt(F)'
      BY <1>1, <1>4 DEF StepIterator, nodeVars, pushVars, PusherAt
    <2>3. WalkerAt(I)'
      BY <1>1, <1>4, ListHeads DEF StepIterator, nodeVars, WalkerAt, LinkFrom
    <2>4. Searched(I)'
      BY <1>1, <1>4 DEF StepIterator, nodeVars, Searched, LinkFrom
    <2>5. ItemsOnce(I)'
      BY <1>1, <1>4 DEF StepIterator, nodeVars, pushVars, ItemsOnce
    <2> QED
      BY <2>0, <2>1, <2>2, <2>3, <2>4, <2>5 DEF BagIs
  <1>5. CASE EndWalk
    <2>0. J = I
      BY <1>5 DEF EndWalk, pushVars, ItemsAfter
    <2>1. ListsAre(I, F)'
      BY <1>1, <1>5, SameLists DEF EndWalk, nodeVars, pushVars, PushHolds, WalkHolds
    <2>2. PusherAt(F)'
      BY <1>1, <1>5 DEF EndWalk, nodeVars, pushVars, PusherAt
    <2>3. WalkerAt(I)'
      BY <1>1, <1>5, ListHeads DEF EndWalk, nodeVars, WalkerAt, LinkFrom
    <2>4. Searched(I)'
      BY <1>1, <1>5 DEF EndWalk, nodeVars, Searched, LinkFrom
    <2>5. ItemsOnce(I)'
      BY <1>1, <1>5 DEF EndWalk, nodeVars, pushVars, ItemsOnce
    <2> QED
      BY <2>0, <2>1, <2>2, <2>3, <2>4, <2>5 DEF BagIs
  <1>6. CASE RemoveFails
    <2>0. J = I
      BY <1>6 DEF RemoveFails, pushVars, ItemsAfter
    <2>1. ListsAre(I, F)'
      BY <1>1, <1>6, SameLists DEF RemoveFails, nodeVars, pushVars, PushHolds, WalkHolds
    <2>2. PusherAt(F)'
      BY <1>1, <1>6 DEF RemoveFails, nodeVars, pushVars, PusherAt
    <2>3. WalkerAt(I)'
      BY <1>1, <1>6, ListHeads DEF RemoveFails, nodeVars, WalkerAt, LinkFrom
    <2>4. Searched(I)'
      BY <1>1, <1>6 DEF RemoveFails, nodeVars, Searched, LinkFrom
    <2>5. ItemsOnce(I)'
      BY <1>1, <1>6 DEF RemoveFails, nodeVars, pushVars, ItemsOnce
    <2> QED
      BY <2>0, <2>1, <2>2, <2>3, <2>4, <2>5 DEF BagIs
  <1>7. CASE BeginPop
    <2>0. J = I
      BY <1>7 DEF BeginPop, pushVars, ItemsAfter
    <2>1. ListsAre(I, F)'
      BY <1>1, <1>7, SameLists DEF BeginPop, nodeVars, pushVars, PushHolds, WalkHolds
    <2>2. PusherAt(F)'
      BY <1>1, <1>7 DEF BeginPop, nodeVars, pushVars, PusherAt
    <2>3. WalkerAt(I)'
      BY <1>1, <1>7, ListHeads DEF BeginPop, nodeVars, WalkerAt, LinkFrom
    <2>4. Searched(I)'
      BY <1>1, <1>7 DEF BeginPop, nodeVars, Searched, LinkFrom
    <2>5. ItemsOnce(I)'
      BY <1>1, <1>7 DEF BeginPop, nodeVars, pushVars, ItemsOnce
    <2> QED
      BY <2>0, <2>1, <2>2, <2>3, <2>4, <2>5 DEF BagIs
  <1>8. CASE LoadNext
    <2>0. J = I
      BY <1>8 DEF LoadNext, pushVars, ItemsAfter
    <2>1. ListsAre(I, F)'
      BY <1>1, <1>8, SameLists DEF LoadNext, nodeVars, pushVars, PushHolds, WalkHolds
    <2>2. PusherAt(F)'
      BY <1>1, <1>8 DEF LoadNext, nodeVars, pushVars, PusherAt
    <2>3. WalkerAt(I)'
      BY <1>1, <1>8, ListHeads DEF LoadNext, nodeVars, WalkerAt, LinkFrom
    <2>4. Searched(I)'
      BY <1>1, <1>8 DEF LoadNext, nodeVars, Searched, LinkFrom
    <2>5. ItemsOnce(I)'
      BY <1>1, <1>8 DEF LoadNext, nodeVars, pushVars, ItemsOnce
    <2> QED
      BY <2>0, <2>1, <2>2, <2>3, <2>4, <2>5 DEF BagIs
  <1>9. ASSUME NEW x \in Items, BeginRemove(x) PROVE \E E \in SUBSET Nodes : BagIs(J, E)'
    <2>0. J = I
      BY <1>9 DEF BeginRemove, pushVars, ItemsAfter
    <2>1. ListsAre(I, F)'
      BY <1>1, <1>9, SameLists DEF BeginRemove, nodeVars, pushVars, PushHolds, WalkHolds
    <2>2. PusherAt(F)'
      BY <1>1, <1>9 DEF BeginRemove, nodeVars, pushVars, PusherAt
    <2>3. WalkerAt(I)'
      BY <1>1, <1>9, ListHeads DEF BeginRemove, WalkerAt
    <2>4. Searched(I)'
      <3>1. LinkFrom(previous)' = current'
        BY <1>9 DEF BeginRemove, nodeVars, LinkFrom
      <3>2. IsChain(nextNode', Nil, current', I)
        BY <1>1, <1>9 DEF BeginRemove, nodeVars, ListsAre
      <3> QED
        BY <3>1, <3>2 DEF Searched
    <2>5. ItemsOnce(I)'
      BY <1>1, <1>9 DEF BeginRemove, nodeVars, pushVars, ItemsOnce
    <2> QED
      BY <2>0, <2>1, <2>2, <2>3, <2>4, <2>5 DEF BagIs
  <1>10. CASE LookAt
    <2>0. J = I
      BY <1>10 DEF LookAt, pushVars, ItemsAfter
    <2>1. ListsAre(I, F)'
      BY <1>1, <1>10, SameLists DEF LookAt, nodeVars, pushVars, PushHolds, WalkHolds
    <2>2. PusherAt(F)'
      BY <1>1, <1>10 DEF LookAt, nodeVars, pushVars, PusherAt
    <2>3. current \in I /\ current # Nil /\ nextNode[current] \in I \union {Nil}
      BY <1>1, <1>10, ListHeads, NilType DEF LookAt, WalkerAt
    <2>4. WalkerAt(I)'
      BY <1>1, <1>10, <2>3 DEF LookAt, nodeVars, WalkerAt
    <2>5. ASSUME ~overtaken
          PROVE  /\ LinkFrom(previous)' = current'
                 /\ \E G \in SUBSET I : /\ IsChain(nextNode', Nil, current', G)
                                        /\ \A m \in I \ G : value'[m] # target'
      <3>1. PICK G \in SUBSET I : /\ IsChain(nextNode, Nil, current, G)
                                  /\ \A m \in I \ G : value[m] # target
        BY <1>1, <1>10, <2>5 DEF Searched, LookAt
      <3>2. CASE value[current] = target
        BY <1>1, <1>10, <2>5, <3>1, <3>2 DEF LookAt, nodeVars, Searched, LinkFrom
      <3>3. CASE value[current] # target
        <4>1. PICK H \in SUBSET I : H = G \ {current}
          OBVIOUS
        <4>2. IsChain(nextNode, Nil, nextNode[current], H)
          BY <2>3, <3>1, <4>1, ChainTail, NilType
        <4>3. \A m \in I \ H : value[m] # target
          BY <3>1, <3>3, <4>1
        <4>4. /\ current' = nextNode[current] /\ previous' = current
              /\ UNCHANGED <<nextNode, value, target>>
          BY <1>10, <3>3 DEF LookAt, nodeVars
        <4>5. LinkFrom(previous)' = current'
          BY <2>3, <4>4, NilType DEF LinkFrom
        <4> QED
          BY <4>2, <4>3, <4>4, <4>5
      <3> QED
        BY <3>2, <3>3
    <2>6. Searched(I)'
      BY <1>10, <2>5 DEF Searched, LookAt
    <2>7. ItemsOnce(I)'
      BY <1>1, <1>10 DEF LookAt, nodeVars, pushVars, ItemsOnce
    <2> QED
      BY <2>0, <2>1, <2>2, <2>4, <2>6, <2>7 DEF BagIs
  <1>11. CASE CutMissed
    <2>0. J = I
      BY <1>11 DEF CutMissed, pushVars, ItemsAfter
    <2>1. overtaken /\ walkPc = "cut" /\ LinkFrom(previous) \in I \union {Nil}
          /\ following \in I \union {Nil}
      <3>1. walkPc = "cut" /\ LinkFrom(previous) # current
        BY <1>11 DEF CutMissed
      <3>2. overtaken
        BY <1>1, <3>1 DEF Searched
      <3>3. /\ current \in I /\ following = nextNode[current]
            /\ previous \in I \union {Nil}
        BY <1>1, <3>1 DEF WalkerAt
      <3>4. following \in I \union {Nil}
        BY <1>1, <3>3, ListHeads
      <3>5. LinkFrom(previous) \in I \union {Nil}
        BY <1>1, <3>3, ListHeads DEF LinkFrom
      <3> QED
        BY <3>1, <3>2, <3>4, <3>5
    <2>2. ListsAre(I, F)'
      BY <1>1, <1>11, SameLists DEF CutMissed, nodeVars, pushVars, PushHolds, WalkHolds
    <2>3. PusherAt(F)'
      BY <1>1, <1>11 DEF CutMissed, nodeVars, pushVars, PusherAt
    <2>4. WalkerAt(I)' /\ Searched(I)'
      BY <1>11, <2>1 DEF CutMissed, WalkerAt, Searched
    <2>5. ItemsOnce(I)'
      BY <1>1, <1>11 DEF CutMissed, nodeVars, pushVars, ItemsOnce
    <2> QED
      BY <2>0, <2>2, <2>3, <2>4, <2>5 DEF BagIs
  <1>12. CASE PopHead /\ items_head # current
    <2>0. J = I
      BY <1>12 DEF PopHead, pushVars, ItemsAfter
    <2>1. current \in I /\ items_head \in I
      BY <1>1, <1>12, ListHeads DEF PopHead, WalkerAt
    <2>2. ListsAre(I, F)'
      BY <1>1, <1>12, SameLists DEF PopHead, pushVars, PushHolds, WalkHolds
    <2>3. PusherAt(F)'
      BY <1>1, <1>12 DEF PopHead, pushVars, PusherAt
    <2>4. WalkerAt(I)' /\ Searched(I)'
      BY <1>12, <2>1 DEF PopHead, WalkerAt, Searched
    <2>5. ItemsOnce(I)'
      BY <1>1, <1>12 DEF PopHead, pushVars, ItemsOnce
    <2> QED
      BY <2>0, <2>2, <2>3, <2>4, <2>5 DEF BagIs
  <1>13. ASSUME current \in I, walkPc' = "free", walkPc \in {"cut", "pop"},
               UNCHANGED <<current, free_list_head, pushVars, value>>,
               \A m \in F : nextNode'[m] = nextNode[m],
               IsChain(nextNode', Nil, items_head', I \ {current})
        PROVE  \E E \in SUBSET Nodes : BagIs(J, E)'
    <2>1. J = I \ {current}
      BY <1>13 DEF pushVars, ItemsAfter
    <2>2. IsChain(nextNode', Nil, free_list_head, F)
      BY <1>1, <1>13, ChainKept, NilType DEF ListsAre
    <2>3. WalkHolds = {} /\ WalkHolds' = {current} /\ PushHolds' = PushHolds
      BY <1>13 DEF WalkHolds, PushHolds, pushVars
    <2>4. ListsAre(J, F)'
      BY <1>1, <1>13, <2>1, <2>2, <2>3 DEF ListsAre
    <2>5. PusherAt(F)'
      BY <1>1, <1>13 DEF PusherAt, pushVars
    <2>6. WalkerAt(J)' /\ Searched(J)'
      BY <1>13 DEF WalkerAt, Searched
    <2>7. ItemsOnce(J)'
      BY <1>1, <1>13, <2>1 DEF ItemsOnce, pushVars
    <2>8. BagIs(J, F)'
      BY <2>4, <2>5, <2>6, <2>7 DEF BagIs
    <2> QED
      BY <2>8
  <1>14. CASE PopHead /\ items_head = current
    <2>1. current \in I /\ current # Nil /\ following = nextNode[current]
      BY <1>1, <1>14, NilType DEF PopHead, WalkerAt
    <2>2. IsChain(nextNode, Nil, nextNode[current], I \ {current})
      BY <1>1, <1>14, <2>1, ChainTail, NilType DEF ListsAre
    <2> QED
      BY <1>13, <1>14, <2>1, <2>2 DEF PopHead
  <1>15. CASE CutOut
    <2>1. /\ current \in I /\ current # Nil /\ following = nextNode[current]
          /\ previous \in I \union {Nil} /\ LinkFrom(previous) = current
          /\ walkPc = "cut" /\ walkPc' = "free"
          /\ UNCHANGED <<current, free_list_head, pushVars, value>>
      BY <1>1, <1>15, NilType DEF CutOut, WalkerAt
    <2>2. CASE previous = Nil
      <3>1. items_head = current /\ items_head' = nextNode[current] /\ nextNode' = nextNode
        BY <1>15, <2>1, <2>2 DEF CutOut, LinkFrom
      <3>2. IsChain(nextNode, Nil, nextNode[current], I \ {current})
        BY <1>1, <2>1, <3>1, ChainTail, NilType DEF ListsAre
      <3> QED
        BY <1>13, <2>1, <3>1, <3>2
    <2>3. CASE previous # Nil
      <3>1. /\ previous \in I /\ nextNode[previous] = current /\ items_head' = items_head
            /\ nextNode' = [nextNode EXCEPT ![previous] = nextNode[current]]
        BY <1>15, <2>1, <2>3 DEF CutOut, LinkFrom
      <3>2. /\ nextNode'[previous] = nextNode[current]
            /\ \A q \in (I \union F) \ {previous} : nextNode'[q] = nextNode[q]
        BY <3>1
      <3>3. IsChain(nextNode', Nil, items_head, I \ {current})
        BY <1>1, <2>1, <3>1, <3>2, ChainCut, NilType DEF ListsAre
      <3>4. \A m \in F : nextNode'[m] = nextNode[m]
        BY <1>1, <3>1, <3>2 DEF ListsAre
      <3> QED
        BY <1>13, <2>1, <3>1, <3>3, <3>4
    <2> QED
      BY <2>2, <2>3
  <1>16. CASE LinkFree \/ (GiveNode /\ free_list_head # nextNode[current])
    <2>0. J = I
      BY <1>16 DEF LinkFree, GiveNode, pushVars, ItemsAfter
    <2>1. /\ walkPc \in {"free", "give"} /\ walkPc' = "give"
          /\ nextNode' = [nextNode EXCEPT ![current] = free_list_head]
          /\ UNCHANGED <<value, free_list_head, items_head, pushVars, current>>
      BY <1>16 DEF LinkFree, GiveNode
    <2>2. current \in Nodes /\ current \notin I \union F
      BY <1>1, <2>1 DEF ListsAre, WalkHolds
    <2>3. \A m \in I \union F : nextNode'[m] = nextNode[m]
      BY <2>1, <2>2
    <2>4. ListsAre(I, F)'
      BY <1>1, <2>1, <2>3, SameLists DEF pushVars, PushHolds, WalkHolds
    <2>5. PusherAt(F)'
      BY <1>1, <2>1, <2>3 DEF pushVars, PusherAt
    <2>6. WalkerAt(I)' /\ Searched(I)'
      BY <2>1 DEF WalkerAt, Searched
    <2>7. ItemsOnce(I)'
      BY <1>1, <2>1 DEF pushVars, ItemsOnce
    <2> QED
      BY <2>0, <2>4, <2>5, <2>6, <2>7 DEF BagIs
  <1>17. CASE GiveNode /\ free_list_head = nextNode[current]
    <2>0. J = I
      BY <1>17 DEF GiveNode, pushVars, ItemsAfter
    <2>1. /\ walkPc = "give" /\ walkPc' \in {"idle", "remove"} /\ free_list_head' = current
          /\ UNCHANGED <<value, nextNode, items_head, pushVars, current>>
      BY <1>17 DEF GiveNode
    <2>2. /\ current \in Nodes /\ current \notin I \union F
          /\ WalkHolds = {current} /\ WalkHolds' = {} /\ PushHolds' = PushHolds
      BY <1>1, <2>1 DEF ListsAre, WalkHolds, PushHolds, pushVars
    <2>3. PICK E \in SUBSET Nodes : E = F \union {current}
      BY <2>2
    <2>4. ListsAre(I, E)'
      <3>1. IsChain(nextNode, Nil, current, E)
        BY <1>1, <1>17, <2>2, <2>3, ChainPush, NilType DEF ListsAre
      <3> QED
        BY <1>1, <2>1, <2>2, <2>3, <3>1 DEF ListsAre
    <2>5. PusherAt(E)'
      BY <1>1, <2>1, <2>3 DEF pushVars, PusherAt
    <2>6. WalkerAt(I)' /\ Searched(I)'
      BY <2>1 DEF WalkerAt, Searched
    <2>7. ItemsOnce(I)'
      BY <1>1, <2>1 DEF pushVars, ItemsOnce
    <2>8. BagIs(I, E)'
      BY <2>4, <2>5, <2>6, <2>7 DEF BagIs
    <2> QED
      BY <2>0, <2>8
  <1> QED
    BY <1>2, <1>3, <1>4, <1>5, <1>6, <1>7, <1>8, <1>9, <1>10, <1>11, <1>12, <1>13, <1>14, <1>15, <1>16, <1>17
       DEF Walker

LEMMA ListsOfNodes == ASSUME NEW I, NEW F, ListsAre(I, F)' PROVE I \in SUBSET Nodes
  BY DEF ListsAre

LEMMA BagStep == BagInv /\ BagNext => BagInv'
  <1> SUFFICES ASSUME BagInv, BagNext PROVE BagInv'
    OBVIOUS
  <1>1. BagTypeOK /\ BagTypeOK'
    BY BagTypeStep DEF BagInv
  <1>2. PICK I \in SUBSET Nodes, F \in SUBSET Nodes : BagIs(I, F)
    BY DEF BagInv
  <1>3. PICK J : J = ItemsAfter(I)
    OBVIOUS
  <1>4. PICK E \in SUBSET Nodes : BagIs(J, E)'
    BY <1>1, <1>2, <1>3, PusherStep, WalkerStep DEF BagNext
  <1>5. J \in SUBSET Nodes
    BY <1>4, ListsOfNodes DEF BagIs
  <1> QED
    BY <1>1, <1>4, <1>5 DEF BagInv

LEMMA BagStutter == BagInv /\ UNCHANGED bagVars => BagInv'
  BY DEF BagInv, BagTypeOK, BagIs, ListsAre, PusherAt, WalkerAt, Searched, ItemsOnce, LinkFrom,
         PushHolds, WalkHolds, bagVars, nodeVars, pushVars, walkVars

LEMMA ChainsAre ==
    ASSUME NEW I, NEW F, ListsAre(I, F)
    PROVE  Chain(items_head) = I /\ Chain(free_list_head) = F /\ BagContents = {value[m] : m \in I}
  <1>1. Chain(items_head) = I
    <2>1. Chain(items_head) = Reached(nextNode, Nil, items_head)
      BY ChainIsReached
    <2> QED
      BY <2>1, ChainReached, NilType DEF ListsAre
  <1>2. Chain(free_list_head) = F
    <2>1. Chain(free_list_head) = Reached(nextNode, Nil, free_list_head)
      BY ChainIsReached
    <2> QED
      BY <2>1, ChainReached, NilType DEF ListsAre
  <1> QED
    BY <1>1, <1>2 DEF BagContents, ItemsFrom

THEOREM BagInvariant == Spec => []BagInv
  <1>1. Init => BagInv
    BY BagStart DEF Init
  <1>2. BagInv /\ [Next]_vars => BagInv'
    BY BagStep, BagStutter DEF Next, vars
  <1> QED
    BY <1>1, <1>2, PTL DEF Spec

THEOREM NodesConserved == Spec => []NodesAreConserved
  <1>1. BagInv => NodesAreConserved
    <2> SUFFICES ASSUME BagInv PROVE NodesAreConserved
      OBVIOUS
    <2> PICK I \in SUBSET Nodes, F \in SUBSET Nodes : ListsAre(I, F)
      BY DEF BagInv, BagIs
    <2>1. Chain(items_head) = I /\ Chain(free_list_head) = F
      BY ChainsAre
    <2> DEFINE places == <<I, F, PushHolds, WalkHolds>>
    <2>2. /\ places[1] = I /\ places[2] = F /\ places[3] = PushHolds /\ places[4] = WalkHolds
          /\ 1..4 = {1, 2, 3, 4}
      OBVIOUS
    <2> HIDE DEF places
    <2>3. ASSUME NEW n \in Nodes
          PROVE  \E k \in 1..4 : n \in places[k] /\ \A j \in (1..4) \ {k} : n \notin places[j]
      <3>1. n \in I \/ n \in F \/ n \in PushHolds \/ n \in WalkHolds
        BY DEF ListsAre
      <3>2. CASE n \in I
        <4>1. n \notin F /\ n \notin PushHolds /\ n \notin WalkHolds
          BY <3>2 DEF ListsAre
        <4> QED
          BY <2>2, <3>2, <4>1
      <3>3. CASE n \in F
        <4>1. n \notin I /\ n \notin PushHolds /\ n \notin WalkHolds
          BY <3>3 DEF ListsAre
        <4> QED
          BY <2>2, <3>3, <4>1
      <3>4. CASE n \in PushHolds
        <4>1. n \notin I /\ n \notin F /\ n \notin WalkHolds
          BY <3>4 DEF ListsAre
        <4> QED
          BY <2>2, <3>4, <4>1
      <3>5. CASE n \in WalkHolds
        <4>1. n \notin I /\ n \notin F /\ n \notin PushHolds
          BY <3>5 DEF ListsAre
        <4> QED
          BY <2>2, <3>5, <4>1
      <3> QED
        BY <3>1, <3>2, <3>3, <3>4, <3>5
    <2> QED
      BY <2>1, <2>3 DEF NodesAreConserved, places
  <1> QED
    BY <1>1, BagInvariant, PTL

THEOREM RemovalMisses == Spec => []RemovalMissesOnlyByPush
  <1>1. BagInv => RemovalMissesOnlyByPush
    <2> SUFFICES ASSUME BagInv, walkPc = "look", current = Nil, target \in BagContents, ~overtaken
                 PROVE  FALSE
      BY DEF RemovalMissesOnlyByPush, BagInv, BagTypeOK
    <2> PICK I \in SUBSET Nodes, F \in SUBSET Nodes : BagIs(I, F)
      BY DEF BagInv
    <2>1. PICK m \in I : value[m] = target
      BY ChainsAre DEF BagIs
    <2>2. PICK G \in SUBSET I : /\ IsChain(nextNode, Nil, Nil, G)
                                /\ \A k \in I \ G : value[k] # target
      BY DEF BagIs, Searched
    <2>3. G = {}
      BY <2>2, ChainType, NilType
    <2> QED
      BY <2>1, <2>2, <2>3
  <1> QED
    BY <1>1, BagInvariant, PTL

-----------------------------------------------------------------------------
(* The pool.                                                               *)

PoolTypeOK ==
    /\ _head \in Ids \union {NoNode}
    /\ nextId \in [Ids -> Ids \union {NoNode}]
    /\ in_use \in [Ids -> BOOLEAN]
    /\ kept \subseteq held
    /\ held \subseteq Ids
    /\ rentPc \in {"idle", "take", "mark"}
    /\ oldHead \in Ids \union {NoNode}
    /\ rentNext \in Ids \union {NoNode}
    /\ returnPc \in {"idle", "link", "give", "thrown"}
    /\ returning \in Ids

(* The ids that rent has taken and not yet answered with, and that returns  *)
(* has accepted and not yet put back.                                      *)
RentHolds == IF rentPc = "mark" THEN {oldHead} ELSE {}
ReturnHolds == IF returnPc \in {"link", "give"} THEN {returning} ELSE {}

(* F are the ids on the free list; every id is in one place. *)
FreeListIs(F) ==
    /\ IsChain(nextId, NoNode, _head, F)
    /\ F \intersect held = {}
    /\ RentHolds \intersect (F \union held) = {}
    /\ ReturnHolds \intersect (F \union held \union RentHolds) = {}
    /\ F \union held \union RentHolds \union ReturnHolds = Ids

(* Only rent takes from the free list. *)
RenterAt(F) == rentPc = "take" => oldHead \in F /\ rentNext = nextId[oldHead]

(* The flag of a held id is missing if and only if try_rent found it at the *)
(* head, with every id below it kept.                                      *)
FlagsAre ==
    /\ \A i \in held : ~in_use[i] => 0..i \subseteq kept
    /\ \A i \in kept : in_use[i] => \E j \in Ids \ kept : j < i
    /\ returnPc = "thrown" => 0..returning \subseteq kept

PoolIs(F) == FreeListIs(F) /\ RenterAt(F) /\ FlagsAre

PoolInv == PoolTypeOK /\ \E F \in SUBSET Ids : PoolIs(F)

LEMMA NoNodeType == NoNode \in Nat /\ NoNode \notin Ids /\ Ids = 0..(NoNode - 1) /\ 0 \in Ids
  BY PoolAssumption DEF NoNode, Ids

LeastOf(T) == IF T = {} THEN NoNode ELSE CHOOSE j \in T : \A k \in T : j <= k

LEMMA LeastOfType ==
    ASSUME NEW T, T \subseteq Ids
    PROVE  /\ LeastOf(T) \in Ids \union {NoNode}
           /\ \A a \in T : (\A k \in T : a <= k) => LeastOf(T) = a
  <1>1. T \subseteq Nat
    BY NoNodeType
  <1>2. CASE T = {}
    BY <1>2 DEF LeastOf
  <1>3. CASE T # {}
    <2>1. \E x \in T : \A y \in T : x <= y
      BY <1>1, <1>3, LeastElement
    <2>2. LeastOf(T) \in T /\ \A k \in T : LeastOf(T) <= k
      BY <1>3, <2>1 DEF LeastOf
    <2>3. ASSUME NEW a \in T, \A k \in T : a <= k PROVE LeastOf(T) = a
      <3>1. PICK b \in T : b = LeastOf(T)
        BY <2>2
      <3>2. a <= b /\ b <= a /\ a \in Nat /\ b \in Nat
        BY <1>1, <2>2, <2>3, <3>1
      <3>3. a = b
        BY <3>2
      <3> QED
        BY <3>1, <3>3
    <2> QED
      BY <2>2, <2>3
  <1> QED
    BY <1>2, <1>3

LEMMA PoolStart == PoolInit => PoolInv
  <1> SUFFICES ASSUME PoolInit PROVE PoolInv
    OBVIOUS
  <1> DEFINE From(a) == {j \in Ids : j >= a /\ j \notin kept}
  <1>1. \A i \in Ids : NextFree(i, kept) = LeastOf(From(i + 1))
    <2> SUFFICES ASSUME NEW i \in Ids PROVE NextFree(i, kept) = LeastOf(From(i + 1))
      OBVIOUS
    <2>1. {j \in Ids : j > i /\ j \notin kept} = From(i + 1)
      BY NoNodeType
    <2>2. NextFree(i, kept) = LeastOf({j \in Ids : j > i /\ j \notin kept})
      BY DEF NextFree, LeastOf
    <2> HIDE DEF From
    <2> QED
      BY <2>1, <2>2
  <1>2. FirstFree(kept) = LeastOf(From(0))
    <2>1. CASE 0 \notin kept
      <3>1. 0 \in From(0) /\ From(0) \subseteq Ids /\ \A k \in From(0) : 0 <= k
        BY <2>1, NoNodeType
      <3> HIDE DEF From
      <3> QED
        BY <2>1, <3>1, LeastOfType DEF FirstFree
    <2>2. CASE 0 \in kept
      <3>1. From(0) = From(0 + 1)
        BY <2>2, NoNodeType
      <3> HIDE DEF From
      <3> QED
        BY <1>1, <2>2, <3>1, NoNodeType DEF FirstFree
    <2> QED
      BY <2>1, <2>2
  <1> DEFINE S == {k \in 0..NoNode : IsChain(nextId, NoNode, LeastOf(From(NoNode - k)), From(NoNode - k))}
  <1>3. 0 \in S
    <2>1. From(NoNode - 0) = {}
      BY NoNodeType
    <2>2. LeastOf({}) = NoNode
      BY DEF LeastOf
    <2>3. 0 \in 0..NoNode
      BY NoNodeType
    <2> QED
      BY <2>1, <2>2, <2>3, ChainEmpty, NoNodeType
  <1>4. ASSUME NEW k \in 1..NoNode, k - 1 \in S PROVE k \in S
    <2>1. PICK a \in Ids : a = NoNode - k
      BY NoNodeType
    <2>2. NoNode - (k - 1) = a + 1 /\ k \in 0..NoNode
      BY <2>1, NoNodeType
    <2>3. IsChain(nextId, NoNode, LeastOf(From(a + 1)), From(a + 1))
      BY <1>4, <2>2
    <2>4. IsChain(nextId, NoNode, LeastOf(From(a)), From(a))
      <3>1. CASE a \in kept
        <4>1. From(a) = From(a + 1)
          BY <3>1, NoNodeType
        <4> HIDE DEF From
        <4> QED
          BY <2>3, <4>1
      <3>2. CASE a \notin kept
        <4>1. /\ From(a) = From(a + 1) \union {a} /\ a \notin From(a + 1)
              /\ a \in From(a) /\ From(a) \subseteq Ids /\ \A j \in From(a) : a <= j
          BY <3>2, NoNodeType
        <4>2. nextId[a] = LeastOf(From(a + 1))
          BY <1>1 DEF PoolInit
        <4> HIDE DEF From
        <4>3. LeastOf(From(a)) = a
          BY <4>1, LeastOfType
        <4>4. IsChain(nextId, NoNode, a, From(a + 1) \union {a})
          BY <2>3, <4>1, <4>2, ChainPush, NoNodeType
        <4> QED
          BY <4>1, <4>3, <4>4
      <3> QED
        BY <3>1, <3>2
    <2> QED
      BY <2>1, <2>2, <2>4
  <1>5. NoNode \in S
    <2>1. NoNode \in 0..NoNode
      BY NoNodeType
    <2> HIDE DEF S
    <2> QED
      BY <1>3, <1>4, <2>1, Induction, NoNodeType
  <1>6. IsChain(nextId, NoNode, _head, Ids \ kept)
    <2>1. From(NoNode - NoNode) = Ids \ kept /\ NoNode - NoNode = 0
      BY NoNodeType
    <2> QED
      BY <1>2, <1>5, <2>1 DEF PoolInit
  <1>7. PoolTypeOK
    <2>1. \A i \in Ids : NextFree(i, kept) \in Ids \union {NoNode}
      BY <1>1, LeastOfType
    <2>2. FirstFree(kept) \in Ids \union {NoNode}
      BY <1>2, LeastOfType
    <2>3. in_use \in [Ids -> BOOLEAN]
      <3>1. PICK M : M = MarkedByTryRent(kept)
        OBVIOUS
      <3>2. in_use = [i \in Ids |-> i \in M]
        BY <3>1, Zenon DEF PoolInit
      <3> QED
        BY <3>2, SMT
    <2>4. nextId \in [Ids -> Ids \union {NoNode}]
      BY <2>1 DEF PoolInit
    <2> QED
      BY <2>2, <2>3, <2>4, NoNodeType DEF PoolInit, PoolTypeOK
  <1>8. FlagsAre
    <2>1. \A i \in kept : in_use[i] <=> \E j \in Ids : j < i /\ j \notin kept
      BY DEF PoolInit, MarkedByTryRent
    <2>2. ASSUME NEW i \in kept, ~in_use[i] PROVE 0..i \subseteq kept
      <3>1. i \in Ids /\ 0..i \subseteq Ids
        BY NoNodeType DEF PoolInit
      <3>2. \A j \in 0..i : j = i \/ j < i
        BY <3>1, NoNodeType
      <3> QED
        BY <2>1, <2>2, <3>1, <3>2
    <2> QED
      BY <2>1, <2>2 DEF FlagsAre, PoolInit
  <1>9. PoolIs(Ids \ kept)
    BY <1>6, <1>7, <1>8
       DEF PoolIs, FreeListIs, RenterAt, PoolInit, PoolTypeOK, RentHolds, ReturnHolds
  <1> QED
    BY <1>7, <1>9 DEF PoolInv

LEMMA PoolTypeStep == PoolInv /\ PoolNext => PoolTypeOK'
  <1> SUFFICES ASSUME PoolInv, PoolNext PROVE PoolTypeOK'
    OBVIOUS
  <1> PICK F \in SUBSET Ids : PoolIs(F)
    BY DEF PoolInv
  <1>1. PoolTypeOK
    BY DEF PoolInv
  <1> USE DEF PoolTypeOK
  <1>2. /\ rentPc = "mark" => oldHead \in Ids
        /\ _head # NoNode => _head \in Ids
    BY <1>1 DEF PoolIs, FreeListIs, RentHolds
  <1>3. CASE Rent
    BY <1>1, <1>2, <1>3 DEF Rent, listVars
  <1>4. CASE TakeId
    BY <1>1, <1>4 DEF TakeId
  <1>5. CASE MarkId
    BY <1>1, <1>2, <1>5 DEF MarkId
  <1>6. ASSUME NEW i \in Ids, Return(i) PROVE PoolTypeOK'
    BY <1>1, <1>6 DEF Return
  <1>7. ASSUME NEW i \in Ids, ReturnThrows(i) PROVE PoolTypeOK'
    BY <1>1, <1>7 DEF ReturnThrows, listVars
  <1>8. CASE LinkId
    BY <1>1, <1>8 DEF LinkId
  <1>9. CASE GiveId
    BY <1>1, <1>9 DEF GiveId
  <1> QED
    BY <1>3, <1>4, <1>5, <1>6, <1>7, <1>8, <1>9 DEF PoolNext

(* The free list loses an id where rent succeeds, gains one where returns   *)
(* does, and is the same list otherwise.                                   *)
FreeListAfter(F) ==
    IF rentPc = "take" /\ rentPc' = "mark" THEN F \ {oldHead}
    ELSE IF returnPc = "give" /\ returnPc' = "idle" THEN F \union {returning}
    ELSE F

LEMMA PoolStep ==
    ASSUME PoolTypeOK, PoolTypeOK', NEW F \in SUBSET Ids, PoolIs(F), PoolNext,
           NEW E, E = FreeListAfter(F)
    PROVE  PoolIs(E)' /\ E \in SUBSET Ids
  <1> USE DEF PoolTypeOK
  <1>1. FreeListIs(F) /\ RenterAt(F) /\ FlagsAre
    BY DEF PoolIs
  <1>2. _head # NoNode => _head \in F
    BY <1>1, ChainType, NoNodeType DEF FreeListIs
  <1>3. ASSUME UNCHANGED <<in_use, kept, held, returning>>, returnPc' # "thrown" PROVE FlagsAre'
    BY <1>1, <1>3 DEF FlagsAre
  <1>4. CASE Rent
    <2>1. E = F
      BY <1>4 DEF Rent, FreeListAfter
    <2>2. FreeListIs(F)'
      BY <1>1, <1>4 DEF Rent, listVars, FreeListIs, RentHolds, ReturnHolds
    <2>3. RenterAt(F)'
      BY <1>2, <1>4 DEF Rent, listVars, RenterAt
    <2>4. FlagsAre'
      BY <1>1, <1>4 DEF Rent, listVars, FlagsAre
    <2> QED
      BY <2>1, <2>2, <2>3, <2>4 DEF PoolIs
  <1>5. CASE TakeId /\ _head = oldHead
    <2>1. /\ rentPc = "take" /\ rentPc' = "mark" /\ E = F \ {oldHead}
          /\ oldHead \in F /\ oldHead # NoNode /\ _head' = nextId[oldHead]
          /\ RentHolds = {} /\ RentHolds' = {oldHead} /\ ReturnHolds' = ReturnHolds
      BY <1>1, <1>5, NoNodeType DEF TakeId, FreeListAfter, RenterAt, RentHolds, ReturnHolds
    <2>2. IsChain(nextId, NoNode, nextId[oldHead], F \ {oldHead})
      <3>1. IsChain(nextId, NoNode, oldHead, F)
        BY <1>1, <1>5 DEF FreeListIs
      <3> QED
        BY <2>1, <3>1, ChainTail, NoNodeType
    <2>3. FreeListIs(E)'
      BY <1>1, <1>5, <2>1, <2>2 DEF TakeId, FreeListIs
    <2>4. RenterAt(E)'
      BY <2>1 DEF RenterAt
    <2>5. FlagsAre'
      BY <1>1, <1>5 DEF TakeId, FlagsAre
    <2> QED
      BY <2>1, <2>3, <2>4, <2>5 DEF PoolIs
  <1>6. CASE TakeId /\ _head # oldHead
    <2>1. E = F
      BY <1>6 DEF TakeId, FreeListAfter
    <2>2. FreeListIs(F)'
      BY <1>1, <1>6 DEF TakeId, FreeListIs, RentHolds, ReturnHolds
    <2>3. RenterAt(F)' /\ FlagsAre'
      BY <1>1, <1>6 DEF TakeId, RenterAt, FlagsAre
    <2> QED
      BY <2>1, <2>2, <2>3 DEF PoolIs
  <1>7. CASE MarkId
    <2>1. E = F /\ oldHead \in Ids /\ oldHead \notin held
      BY <1>1, <1>7 DEF MarkId, FreeListAfter, FreeListIs, RentHolds
    <2>2. FreeListIs(F)'
      BY <1>1, <1>7 DEF MarkId, FreeListIs, RentHolds, ReturnHolds
    <2>3. RenterAt(F)'
      BY <1>7 DEF MarkId, RenterAt
    <2>4. FlagsAre'
      <3>1. /\ \A i \in held : in_use'[i] = in_use[i]
            /\ in_use'[oldHead]
            /\ UNCHANGED <<kept, returning, returnPc>> /\ held' = held \union {oldHead}
        BY <1>7, <2>1 DEF MarkId
      <3>2. \A i \in held' : ~in_use'[i] => 0..i \subseteq kept
        BY <1>1, <3>1 DEF FlagsAre
      <3>3. \A i \in kept : in_use'[i] => \E j \in Ids \ kept : j < i
        BY <1>1, <3>1 DEF FlagsAre
      <3> QED
        BY <1>1, <3>1, <3>2, <3>3 DEF FlagsAre
    <2> QED
      BY <2>1, <2>2, <2>3, <2>4 DEF PoolIs
  <1>8. ASSUME NEW i \in Ids, Return(i) PROVE PoolIs(E)' /\ E \in SUBSET Ids
    <2>1. E = F
      BY <1>8 DEF Return, FreeListAfter
    <2>2. FreeListIs(F)'
      BY <1>1, <1>8 DEF Return, FreeListIs, RentHolds, ReturnHolds
    <2>3. RenterAt(F)'
      BY <1>1, <1>8 DEF Return, RenterAt
    <2>4. FlagsAre'
      <3>1. /\ in_use[i] /\ i \in held /\ kept' = kept \ {i} /\ held' = held \ {i}
            /\ \A j \in held' : in_use'[j] = in_use[j]
            /\ returnPc' # "thrown"
        BY <1>8 DEF Return
      <3>2. ASSUME NEW j \in held', ~in_use'[j] PROVE 0..j \subseteq kept'
        <4>1. 0..j \subseteq kept /\ j \in Nat
          BY <1>1, <3>1, <3>2, NoNodeType DEF FlagsAre
        <4>2. i \notin 0..j
          <5> SUFFICES ASSUME i \in 0..j PROVE FALSE
            OBVIOUS
          <5>1. PICK l \in Ids \ kept : l < i
            BY <1>1, <3>1, <4>1 DEF FlagsAre
          <5>2. l \in 0..j
            BY <4>1, <5>1, NoNodeType
          <5> QED
            BY <4>1, <5>1, <5>2
        <4> QED
          BY <3>1, <4>1, <4>2
      <3>3. ASSUME NEW j \in kept', in_use'[j] PROVE \E l \in Ids \ kept' : l < j
        <4>1. j \in kept /\ in_use[j]
          BY <3>1, <3>3
        <4>2. PICK l \in Ids \ kept : l < j
          BY <1>1, <4>1 DEF FlagsAre
        <4> QED
          BY <3>1, <4>2
      <3> QED
        BY <3>1, <3>2, <3>3 DEF FlagsAre
    <2> QED
      BY <2>1, <2>2, <2>3, <2>4 DEF PoolIs
  <1>9. ASSUME NEW i \in Ids, ReturnThrows(i) PROVE PoolIs(E)' /\ E \in SUBSET Ids
    <2>1. E = F
      BY <1>9 DEF ReturnThrows, FreeListAfter
    <2>2. FreeListIs(F)'
      BY <1>1, <1>9 DEF ReturnThrows, listVars, FreeListIs, RentHolds, ReturnHolds
    <2>3. RenterAt(F)'
      BY <1>1, <1>9 DEF ReturnThrows, listVars, RenterAt
    <2>4. FlagsAre'
      BY <1>1, <1>9 DEF ReturnThrows, listVars, FlagsAre
    <2> QED
      BY <2>1, <2>2, <2>3, <2>4 DEF PoolIs
  <1>10. CASE LinkId
    <2>1. E = F /\ returning \notin F
      BY <1>1, <1>10 DEF LinkId, FreeListAfter, FreeListIs, ReturnHolds
    <2>2. \A m \in F : nextId'[m] = nextId[m]
      BY <1>10, <2>1 DEF LinkId
    <2>3. IsChain(nextId', NoNode, _head, F)
      BY <1>1, <2>2, ChainKept, NoNodeType DEF FreeListIs
    <2>4. FreeListIs(F)'
      BY <1>1, <1>10, <2>3 DEF LinkId, FreeListIs, RentHolds, ReturnHolds
    <2>5. RenterAt(F)'
      BY <1>1, <1>10, <2>2 DEF LinkId, RenterAt
    <2>6. FlagsAre'
      BY <1>1, <1>10 DEF LinkId, FlagsAre
    <2> QED
      BY <2>1, <2>4, <2>5, <2>6 DEF PoolIs
  <1>11. CASE GiveId /\ _head = nextId[returning]
    <2>1. /\ returnPc = "give" /\ returnPc' = "idle" /\ E = F \union {returning}
          /\ returning \notin F /\ _head' = returning
          /\ ReturnHolds = {returning} /\ ReturnHolds' = {} /\ RentHolds' = RentHolds
      BY <1>1, <1>11 DEF GiveId, FreeListAfter, FreeListIs, RentHolds, ReturnHolds
    <2>2. IsChain(nextId, NoNode, returning, E)
      BY <1>1, <1>11, <2>1, ChainPush, NoNodeType DEF FreeListIs
    <2>3. FreeListIs(E)'
      BY <1>1, <1>11, <2>1, <2>2 DEF GiveId, FreeListIs
    <2>4. RenterAt(E)'
      BY <1>1, <1>11, <2>1 DEF GiveId, RenterAt
    <2>5. FlagsAre'
      BY <1>1, <1>11 DEF GiveId, FlagsAre
    <2> QED
      BY <2>1, <2>3, <2>4, <2>5 DEF PoolIs
  <1>12. CASE GiveId /\ _head # nextId[returning]
    <2>1. E = F
      BY <1>12 DEF GiveId, FreeListAfter
    <2>2. FreeListIs(F)'
      BY <1>1, <1>12 DEF GiveId, FreeListIs, RentHolds, ReturnHolds
    <2>3. RenterAt(F)' /\ FlagsAre'
      BY <1>1, <1>12 DEF GiveId, RenterAt, FlagsAre
    <2> QED
      BY <2>1, <2>2, <2>3 DEF PoolIs
  <1> QED
    BY <1>4, <1>5, <1>6, <1>7, <1>8, <1>9, <1>10, <1>11, <1>12 DEF PoolNext

LEMMA PoolStutter == PoolInv /\ UNCHANGED poolVars => PoolInv'
  BY DEF PoolInv, PoolTypeOK, PoolIs, FreeListIs, RenterAt, FlagsAre, RentHolds, ReturnHolds,
         poolVars, listVars

THEOREM PoolInvariant == Spec => []PoolInv
  <1>1. Init => PoolInv
    BY PoolStart DEF Init
  <1>2. PoolInv /\ PoolNext => PoolInv'
    <2> SUFFICES ASSUME PoolInv, PoolNext PROVE PoolInv'
      OBVIOUS
    <2>1. PoolTypeOK /\ PoolTypeOK'
      BY PoolTypeStep DEF PoolInv
    <2>2. PICK F \in SUBSET Ids : PoolIs(F)
      BY DEF PoolInv
    <2>3. PICK E : E = FreeListAfter(F)
      OBVIOUS
    <2>4. PoolIs(E)' /\ E \in SUBSET Ids
      BY <2>1, <2>2, <2>3, PoolStep
    <2> QED
      BY <2>1, <2>4 DEF PoolInv
  <1>3. PoolInv /\ [Next]_vars => PoolInv'
    BY <1>2, PoolStutter DEF Next, vars
  <1> QED
    BY <1>1, <1>3, PTL DEF Spec

(* Only try_rent, and only for the ids it finds at the head of the list,    *)
(* leaves a held id that cannot be returned.                               *)
THEOREM KeptIdsAloneThrow == Spec => []ReturnThrowsOnlyForKept
  <1>1. PoolInv => ReturnThrowsOnlyForKept
    BY DEF PoolInv, PoolIs, FlagsAre, ReturnThrowsOnlyForKept
  <1> QED
    BY <1>1, PoolInvariant, PTL

-----------------------------------------------------------------------------
(* The tables implement the sets.                                          *)

(* What is found from h on. *)
Rest(nx, v, h) == {v[m] : m \in Reached(nx, Nil, h)}

LEMMA RestIs ==
    ASSUME NEW nx, NEW v, NEW h, NEW G, IsChain(nx, Nil, h, G)
    PROVE  Rest(nx, v, h) = {v[m] : m \in G}
  BY ChainReached, NilType DEF Rest

LEMMA RestFrom ==
    ASSUME NEW nx, NEW h, NEW I, IsChain(nx, Nil, h, I), NEW c \in I \union {Nil}
    PROVE  \E G \in SUBSET I : IsChain(nx, Nil, c, G)
  <1>1. CASE c = Nil
    BY <1>1, ChainEmpty, NilType
  <1>2. CASE c # Nil
    BY <1>2, ChainFrom, NilType
  <1> QED
    BY <1>1, <1>2

(* What does not touch a list changes nothing behind a place on it. *)
LEMMA RestKept ==
    ASSUME NEW nx, NEW v, NEW h, NEW I, IsChain(nx, Nil, h, I), NEW c \in I \union {Nil},
           NEW ny, NEW w, \A m \in I : ny[m] = nx[m] /\ w[m] = v[m]
    PROVE  Rest(ny, w, c) = Rest(nx, v, c)
  <1>1. PICK G \in SUBSET I : IsChain(nx, Nil, c, G)
    BY RestFrom
  <1>2. IsChain(ny, Nil, c, G)
    BY <1>1, ChainKept, NilType
  <1>3. Rest(nx, v, c) = {v[m] : m \in G} /\ Rest(ny, w, c) = {w[m] : m \in G}
    BY <1>1, <1>2, RestIs
  <1> QED
    BY <1>1, <1>3

LEMMA MappedBag ==
    /\ BagContents = Rest(nextNode, value, items_head)
    /\ LeftToVisit = IF walkPc = "visit" THEN Rest(nextNode, value, current)
                     ELSE IF walkPc = "step" THEN Rest(nextNode, value, nextNode[current])
                     ELSE {}
    /\ BagContents' = Rest(nextNode', value', items_head')
    /\ LeftToVisit' = IF walkPc' = "visit" THEN Rest(nextNode', value', current')
                      ELSE IF walkPc' = "step" THEN Rest(nextNode', value', nextNode'[current'])
                      ELSE {}
  BY DEF BagContents, LeftToVisit, ItemsFrom, Chain, Rest, Reached, Nil

LEMMA MappedPool ==
    FreeIds = Reached(nextId, NoNode, _head) /\ FreeIds' = Reached(nextId', NoNode, _head')
  BY DEF FreeIds, Reached, NoNode

LEMMA BagImplements ==
    ASSUME BagTypeOK, BagTypeOK', NEW I \in SUBSET Nodes, NEW F \in SUBSET Nodes, BagIs(I, F),
           NEW J, J = ItemsAfter(I), NEW E, BagIs(J, E)', BagNext, UNCHANGED poolVars
    PROVE  [Sets!Next]_(Sets!vars)
  <1> USE DEF BagTypeOK
  <1>1. ListsAre(I, F) /\ WalkerAt(I) /\ ItemsOnce(I) /\ ListsAre(J, E)'
    BY DEF BagIs
  <1>2. IsChain(nextNode, Nil, items_head, I) /\ IsChain(nextNode', Nil, items_head', J)
    BY <1>1 DEF ListsAre
  <1>3. BagContents = {value[m] : m \in I} /\ BagContents' = {value'[m] : m \in J}
    BY <1>2, RestIs, MappedBag
  <1>4. (Ids \ FreeIds)' = Ids \ FreeIds
    BY MappedPool DEF poolVars, listVars
  <1>5. \A m \in I : value[m] \in Items
    BY <1>1 DEF ItemsOnce
  <1>6. ASSUME UNCHANGED <<BagContents, LeftToVisit>> PROVE UNCHANGED Sets!vars
    BY <1>4, <1>6 DEF Sets!vars
  <1>7. ASSUME Pusher PROVE [Sets!Next]_(Sets!vars)
    <2>1. \A m \in I : nextNode'[m] = nextNode[m] /\ value'[m] = value[m]
      <3>1. pushPc \in {"fill", "swing"} => node \notin I
        BY <1>1 DEF ListsAre, PushHolds
      <3> QED
        BY <1>7, <3>1 DEF Pusher, Push, PushFails, LoadFreeNext, TakeNode, FillNode, SwingHead,
                          nodeVars
    <2>2. walkPc' = walkPc /\ current' = current
      BY <1>7 DEF Pusher, Push, PushFails, LoadFreeNext, TakeNode, FillNode, SwingHead, walkVars
    <2>3. LeftToVisit' = LeftToVisit
      <3>1. CASE walkPc = "visit"
        <4>1. current \in I \union {Nil}
          BY <1>1, <3>1 DEF WalkerAt
        <4>2. Rest(nextNode', value', current) = Rest(nextNode, value, current)
          BY <1>2, <2>1, <4>1, RestKept
        <4> QED
          BY <2>2, <3>1, <4>2, MappedBag
      <3>2. CASE walkPc = "step"
        <4>1. current \in I /\ nextNode[current] \in I \union {Nil}
          BY <1>1, <3>2, ListHeads DEF WalkerAt
        <4>2. Rest(nextNode', value', nextNode[current]) = Rest(nextNode, value, nextNode[current])
          BY <1>2, <2>1, <4>1, RestKept
        <4> QED
          BY <2>1, <2>2, <3>2, <4>1, <4>2, MappedBag
      <3>3. CASE walkPc \notin {"visit", "step"}
        BY <2>2, <3>3, MappedBag
      <3> QED
        BY <3>1, <3>2, <3>3
    <2>4. CASE SwingHead /\ items_head = nextNode[node]
      <3>1. J = I \union {node} /\ pushPc = "swing" /\ value' = value
        BY <2>4 DEF SwingHead, ItemsAfter
      <3>2. PICK x : x = value[node]
        OBVIOUS
      <3>3. x \in Items /\ x \notin BagContents
        BY <1>1, <1>3, <3>1, <3>2 DEF ItemsOnce
      <3>4. BagContents' = BagContents \union {x}
        BY <1>3, <3>1, <3>2
      <3>5. Sets!Push(x)
        BY <1>4, <2>3, <3>3, <3>4 DEF Sets!Push
      <3> QED
        BY <3>3, <3>5 DEF Sets!Next
    <2>5. CASE ~(SwingHead /\ items_head = nextNode[node])
      <3>1. J = I
        BY <1>7, <2>5 DEF ItemsAfter, Pusher, Push, PushFails, LoadFreeNext, TakeNode, FillNode,
                          SwingHead, walkVars
      <3>2. BagContents' = BagContents
        BY <1>3, <2>1, <3>1
      <3> QED
        BY <1>6, <2>3, <3>2
    <2> QED
      BY <2>4, <2>5
  <1>9. CASE BeginWalk
    <2>1. walkPc = "idle" /\ walkPc' = "visit" /\ current' = items_head /\ UNCHANGED nodeVars /\ J = I
      BY <1>9 DEF BeginWalk, ItemsAfter, pushVars
    <2>2. LeftToVisit = {} /\ LeftToVisit' = BagContents /\ BagContents' = BagContents
      BY <1>3, <2>1, MappedBag DEF nodeVars
    <2>3. Sets!BeginWalk
      BY <1>4, <2>2 DEF Sets!BeginWalk
    <2> QED
      BY <2>3 DEF Sets!Next
  <1>10. CASE VisitItem
    <2>1. /\ walkPc = "visit" /\ walkPc' = "step" /\ current' = current /\ current # Nil
          /\ current \in I /\ UNCHANGED nodeVars /\ J = I
      BY <1>1, <1>10 DEF VisitItem, WalkerAt, ItemsAfter, pushVars
    <2>2. PICK G \in SUBSET I : IsChain(nextNode, Nil, current, G)
      BY <1>2, <2>1, RestFrom
    <2>3. current \in G /\ IsChain(nextNode, Nil, nextNode[current], G \ {current})
      BY <2>1, <2>2, ChainType, ChainTail, NilType
    <2>4. /\ LeftToVisit = {value[m] : m \in G}
          /\ LeftToVisit' = {value[m] : m \in G \ {current}}
      BY <2>1, <2>2, <2>3, RestIs, MappedBag DEF nodeVars
    <2>5. PICK x : x = value[current]
      OBVIOUS
    <2>6. x \in Items /\ x \in LeftToVisit /\ LeftToVisit' = LeftToVisit \ {x}
      <3>1. \A m \in G : value[m] = x => m = current
        BY <1>1, <2>1, <2>5 DEF ItemsOnce
      <3> QED
        BY <1>5, <2>1, <2>3, <2>4, <2>5, <3>1
    <2>7. BagContents' = BagContents
      BY <1>3, <2>1 DEF nodeVars
    <2>8. Sets!Visit(x)
      BY <1>4, <2>6, <2>7 DEF Sets!Visit
    <2> QED
      BY <2>6, <2>8 DEF Sets!Next
  <1>11. CASE StepIterator
    <2>1. /\ walkPc = "step" /\ walkPc' = "visit" /\ current' = nextNode[current]
          /\ UNCHANGED nodeVars /\ J = I
      BY <1>11 DEF StepIterator, ItemsAfter, pushVars
    <2>2. LeftToVisit' = LeftToVisit /\ BagContents' = BagContents
      BY <1>3, <2>1, MappedBag DEF nodeVars
    <2> QED
      BY <1>6, <2>2
  <1>12. CASE EndWalk
    <2>1. /\ walkPc = "visit" /\ walkPc' \in {"idle", "remove"} /\ current = Nil
          /\ UNCHANGED nodeVars /\ J = I
      BY <1>12 DEF EndWalk, ItemsAfter, pushVars
    <2>2. Rest(nextNode, value, Nil) = {}
      <3>1. IsChain(nextNode, Nil, Nil, {})
        BY ChainEmpty, NilType
      <3>2. Rest(nextNode, value, Nil) = {value[m] : m \in {}}
        BY <3>1, RestIs
      <3> QED
        BY <3>2
    <2>3. LeftToVisit' = LeftToVisit /\ BagContents' = BagContents
      BY <1>3, <2>1, <2>2, MappedBag DEF nodeVars
    <2> QED
      BY <1>6, <2>3
  <1>13. CASE CutOut \/ (PopHead /\ items_head = current)
    <2>1. /\ walkPc \in {"cut", "pop"} /\ walkPc' = "free" /\ value' = value /\ current \in I
          /\ J = I \ {current}
      BY <1>1, <1>13 DEF CutOut, PopHead, WalkerAt, ItemsAfter, pushVars
    <2>2. LeftToVisit = {} /\ LeftToVisit' = {}
      BY <2>1, MappedBag
    <2>3. PICK x : x = value[current]
      OBVIOUS
    <2>4. x \in Items /\ x \in BagContents /\ BagContents' = BagContents \ {x}
      <3>1. \A m \in I : value[m] = x => m = current
        BY <1>1, <2>1, <2>3 DEF ItemsOnce
      <3> QED
        BY <1>3, <1>5, <2>1, <2>3, <3>1
    <2>5. Sets!Remove(x)
      BY <1>4, <2>2, <2>4 DEF Sets!Remove
    <2> QED
      BY <2>4, <2>5 DEF Sets!Next
  <1>14. CASE \/ \E x \in Items : BeginRemove(x)
              \/ LookAt \/ CutMissed \/ RemoveFails \/ LinkFree \/ GiveNode
              \/ BeginPop \/ LoadNext
              \/ PopHead /\ items_head # current
    <2>1. walkPc \notin {"visit", "step"} /\ walkPc' \notin {"visit", "step"} /\ value' = value
      BY <1>14 DEF BeginRemove, LookAt, CutMissed, RemoveFails, LinkFree, GiveNode, BeginPop,
                   LoadNext, PopHead, nodeVars
    <2>2. J = I
      BY <1>14 DEF BeginRemove, LookAt, CutMissed, RemoveFails, LinkFree, GiveNode, BeginPop,
                   LoadNext, PopHead, ItemsAfter, pushVars
    <2>3. LeftToVisit' = LeftToVisit /\ BagContents' = BagContents
      BY <1>3, <2>1, <2>2, MappedBag
    <2> QED
      BY <1>6, <2>3
  <1> QED
    BY <1>7, <1>9, <1>10, <1>11, <1>12, <1>13, <1>14 DEF BagNext, Walker

LEMMA PoolImplements ==
    ASSUME PoolTypeOK, PoolTypeOK', NEW F \in SUBSET Ids, PoolIs(F), PoolNext,
           NEW E \in SUBSET Ids, E = FreeListAfter(F), PoolIs(E)', UNCHANGED bagVars
    PROVE  [Sets!Next]_(Sets!vars)
  <1> USE DEF PoolTypeOK
  <1>1. UNCHANGED <<BagContents, LeftToVisit>>
    BY MappedBag DEF bagVars, nodeVars, walkVars
  <1>2. FreeIds = F /\ FreeIds' = E
    <2>1. IsChain(nextId, NoNode, _head, F) /\ IsChain(nextId', NoNode, _head', E)
      BY DEF PoolIs, FreeListIs
    <2> QED
      BY <2>1, MappedPool, ChainReached, NoNodeType
  <1>3. CASE rentPc = "take" /\ rentPc' = "mark"
    <2>1. oldHead \in F /\ E = F \ {oldHead}
      BY <1>3 DEF FreeListAfter, PoolIs, RenterAt
    <2>2. PICK i \in Ids : i = oldHead
      BY <2>1
    <2>3. i \notin Ids \ FreeIds /\ (Ids \ FreeIds)' = (Ids \ FreeIds) \union {i}
      BY <1>2, <2>1, <2>2
    <2>4. Sets!Rent(i)
      BY <1>1, <2>3 DEF Sets!Rent
    <2> QED
      BY <2>4 DEF Sets!Next
  <1>4. CASE ~(rentPc = "take" /\ rentPc' = "mark") /\ returnPc = "give" /\ returnPc' = "idle"
    <2>1. returning \notin F /\ E = F \union {returning}
      BY <1>4 DEF FreeListAfter, PoolIs, FreeListIs, ReturnHolds
    <2>2. PICK i \in Ids : i = returning
      OBVIOUS
    <2>3. i \in Ids \ FreeIds /\ (Ids \ FreeIds)' = (Ids \ FreeIds) \ {i}
      BY <1>2, <2>1, <2>2
    <2>4. Sets!Return(i)
      BY <1>1, <2>3 DEF Sets!Return
    <2> QED
      BY <2>4 DEF Sets!Next
  <1>5. CASE /\ ~(rentPc = "take" /\ rentPc' = "mark")
             /\ ~(returnPc = "give" /\ returnPc' = "idle")
    <2>1. (Ids \ FreeIds)' = Ids \ FreeIds
      BY <1>2, <1>5 DEF FreeListAfter
    <2> QED
      BY <1>1, <2>1 DEF Sets!vars
  <1> QED
    BY <1>3, <1>4, <1>5

(* A push takes effect where it swings the head, a removal or a pop where   *)
(* it cuts the node out, a rent where it takes the head and a return where  *)
(* it puts the id back; every other step is invisible, or one of the walk.  *)
THEOREM TablesImplementSets == Spec => ImplementsSets
  <1>1. Init => Sets!Init
    <2> SUFFICES ASSUME Init PROVE Sets!Init
      OBVIOUS
    <2>1. items_head = Nil /\ walkPc = "idle"
      BY DEF Init, BagInit
    <2>2. IsChain(nextNode, Nil, items_head, {})
      BY <2>1, ChainEmpty, NilType
    <2>3. Rest(nextNode, value, items_head) = {value[m] : m \in {}}
      BY <2>2, RestIs
    <2>4. BagContents = {} /\ LeftToVisit = {} /\ Ids \ FreeIds \subseteq Ids
      BY <2>1, <2>3, MappedBag
    <2> QED
      BY <2>4 DEF Sets!Init
  <1>2. BagInv /\ PoolInv /\ [Next]_vars => [Sets!Next]_(Sets!vars)
    <2> SUFFICES ASSUME BagInv, PoolInv, [Next]_vars PROVE [Sets!Next]_(Sets!vars)
      OBVIOUS
    <2>1. CASE BagNext /\ UNCHANGED poolVars
      <3>1. BagTypeOK /\ BagTypeOK'
        BY <2>1, BagTypeStep DEF BagInv
      <3>2. PICK I \in SUBSET Nodes, F \in SUBSET Nodes : BagIs(I, F)
        BY DEF BagInv
      <3>3. PICK J : J = ItemsAfter(I)
        OBVIOUS
      <3>4. PICK E \in SUBSET Nodes : BagIs(J, E)'
        BY <2>1, <3>1, <3>2, <3>3, PusherStep, WalkerStep DEF BagNext
      <3> QED
        BY <2>1, <3>1, <3>2, <3>3, <3>4, BagImplements
    <2>2. CASE PoolNext /\ UNCHANGED bagVars
      <3>1. PoolTypeOK /\ PoolTypeOK'
        BY <2>2, PoolTypeStep DEF PoolInv
      <3>2. PICK F \in SUBSET Ids : PoolIs(F)
        BY DEF PoolInv
      <3>3. PICK E : E = FreeListAfter(F)
        OBVIOUS
      <3>4. PoolIs(E)' /\ E \in SUBSET Ids
        BY <2>2, <3>1, <3>2, <3>3, PoolStep
      <3> QED
        BY <2>2, <3>1, <3>2, <3>3, <3>4, PoolImplements
    <2>3. CASE UNCHANGED vars
      <3>1. UNCHANGED <<BagContents, LeftToVisit>>
        BY <2>3, MappedBag DEF vars, bagVars, nodeVars, walkVars
      <3>2. (Ids \ FreeIds)' = Ids \ FreeIds
        BY <2>3, MappedPool DEF vars, poolVars, listVars
      <3> QED
        BY <3>1, <3>2 DEF Sets!vars
    <2> QED
      BY <2>1, <2>2, <2>3 DEF Next
  <1> QED
    BY <1>1, <1>2, BagInvariant, PoolInvariant, PTL DEF Spec, ImplementsSets, Sets!Spec

=============================================================================
