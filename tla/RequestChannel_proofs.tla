------------------------- MODULE RequestChannel_proofs -------------------------
(***************************************************************************)
(* What holds of the request channel for every number of processes, client  *)
(* objects, servers, calls and commands.                                    *)
(***************************************************************************)
EXTENDS RequestChannel, Integers, FiniteSetTheorems, WellFoundedInduction, TLAPS

-----------------------------------------------------------------------------
(* Queues. *)

(* s is a sequence, whatever it holds. *)
Sequence(s) == \E T : s \in Seq(T)

LEMMA EmptySequence == Sequence(<<>>) /\ DOMAIN <<>> = {}
  <1>1. <<>> \in Seq({})
    OBVIOUS
  <1> QED
    BY <1>1 DEF Sequence

LEMMA AppendTo ==
    ASSUME NEW s, NEW m, Sequence(s)
    PROVE  /\ Sequence(Append(s, m)) /\ Len(s) \in Nat
           /\ DOMAIN s = 1..Len(s) /\ DOMAIN Append(s, m) = 1..(Len(s) + 1)
           /\ \A i \in 1..Len(s) : Append(s, m)[i] = s[i]
           /\ Append(s, m)[Len(s) + 1] = m
  <1>1. PICK T : s \in Seq(T)
    BY DEF Sequence
  <1> DEFINE U == T \union {m}
  <1>2. s \in Seq(U) /\ m \in U
    BY <1>1
  <1> HIDE DEF U
  <1>3. Append(s, m) \in Seq(U)
    BY <1>2
  <1>4. Sequence(Append(s, m))
    BY <1>3 DEF Sequence
  <1>5. /\ Len(s) \in Nat
        /\ DOMAIN s = 1..Len(s) /\ DOMAIN Append(s, m) = 1..(Len(s) + 1)
        /\ \A i \in 1..Len(s) : Append(s, m)[i] = s[i]
        /\ Append(s, m)[Len(s) + 1] = m
    BY <1>2
  <1> QED
    BY <1>4, <1>5

LEMMA TailOf ==
    ASSUME NEW s, Sequence(s), s # <<>>
    PROVE  /\ Sequence(Tail(s)) /\ Len(s) \in Nat
           /\ 1 \in DOMAIN s /\ Head(s) = s[1]
           /\ DOMAIN s = 1..Len(s) /\ DOMAIN Tail(s) = 1..(Len(s) - 1)
           /\ \A i \in 1..(Len(s) - 1) : Tail(s)[i] = s[i + 1]
  <1>1. PICK T : s \in Seq(T)
    BY DEF Sequence
  <1>2. Tail(s) \in Seq(T)
    BY <1>1
  <1>3. Sequence(Tail(s))
    BY <1>2 DEF Sequence
  <1>4. /\ Len(s) \in Nat
        /\ 1 \in DOMAIN s /\ Head(s) = s[1]
        /\ DOMAIN s = 1..Len(s) /\ DOMAIN Tail(s) = 1..(Len(s) - 1)
        /\ \A i \in 1..(Len(s) - 1) : Tail(s)[i] = s[i + 1]
    BY <1>1
  <1> QED
    BY <1>3, <1>4

ServerQueuesOk == DOMAIN queue = Queues /\ \A g \in Queues : Sequence(queue[g])

InboxesOk ==
    /\ DOMAIN inbox = Clients
    /\ \A p \in Clients : DOMAIN inbox[p] = 1..MaxObjects
    /\ \A p \in Clients : \A o \in 1..MaxObjects : Sequence(inbox[p][o])

IsRequest(m, p) == m.kind \in Requests /\ m.client = p

LEMMA RequestAt ==
    ASSUME NEW p, NEW r
    PROVE  r \in RequestsOf(p) <=>
              \E g \in Queues : \E i \in DOMAIN queue[g] : r = <<g, i>> /\ IsRequest(queue[g][i], p)
  BY DEF RequestsOf, IsRequest

LEMMA AnswerAt ==
    ASSUME NEW p, NEW a
    PROVE  a \in AnswersOf(p) <=>
              \E o \in 1..MaxObjects : \E i \in DOMAIN inbox[p][o] :
                  a = <<o, i>> /\ inbox[p][o][i].kind # "exit"
  BY DEF AnswersOf

(* A message is appended to a server's queue. *)
LEMMA RequestSent ==
    ASSUME ServerQueuesOk, NEW h \in Queues, NEW m,
           queue' = [queue EXCEPT ![h] = Append(@, m)]
    PROVE  /\ ServerQueuesOk'
           /\ \A p : ~IsRequest(m, p) => RequestsOf(p)' = RequestsOf(p)
           /\ \A p : IsRequest(m, p) =>
                  RequestsOf(p)' = RequestsOf(p) \union {<<h, Len(queue[h]) + 1>>}
  <1>1. /\ Sequence(Append(queue[h], m)) /\ Len(queue[h]) \in Nat
        /\ DOMAIN queue[h] = 1..Len(queue[h])
        /\ DOMAIN Append(queue[h], m) = 1..(Len(queue[h]) + 1)
        /\ \A i \in 1..Len(queue[h]) : Append(queue[h], m)[i] = queue[h][i]
        /\ Append(queue[h], m)[Len(queue[h]) + 1] = m
    BY AppendTo DEF ServerQueuesOk
  <1>2. /\ DOMAIN queue' = Queues /\ queue'[h] = Append(queue[h], m)
        /\ \A g \in Queues : g # h => queue'[g] = queue[g]
    BY DEF ServerQueuesOk
  <1>3. ServerQueuesOk'
    BY <1>1, <1>2 DEF ServerQueuesOk, Queues
  <1>4. ASSUME NEW p, NEW r
        PROVE  r \in RequestsOf(p)' <=>
                  r \in RequestsOf(p) \/ (IsRequest(m, p) /\ r = <<h, Len(queue[h]) + 1>>)
    <2>1. r \in RequestsOf(p)' <=>
              \E g \in Queues : \E i \in DOMAIN queue'[g] :
                  r = <<g, i>> /\ IsRequest(queue'[g][i], p)
      BY DEF RequestsOf, IsRequest, Queues
    <2>2. ASSUME NEW g \in Queues, NEW i \in DOMAIN queue'[g], r = <<g, i>>,
                 IsRequest(queue'[g][i], p)
          PROVE  r \in RequestsOf(p) \/ (IsRequest(m, p) /\ r = <<h, Len(queue[h]) + 1>>)
      BY <1>1, <1>2, <2>2, RequestAt
    <2>3. ASSUME NEW g \in Queues, NEW i \in DOMAIN queue[g], r = <<g, i>>,
                 IsRequest(queue[g][i], p)
          PROVE  r \in RequestsOf(p)'
      BY <1>1, <1>2, <2>1, <2>3
    <2>4. ASSUME IsRequest(m, p), r = <<h, Len(queue[h]) + 1>>
          PROVE  r \in RequestsOf(p)'
      BY <1>1, <1>2, <2>1, <2>4
    <2> QED
      BY <2>1, <2>2, <2>3, <2>4, RequestAt
  <1>5. ASSUME NEW p, ~IsRequest(m, p) PROVE RequestsOf(p)' = RequestsOf(p)
    <2>1. \A r : r \in RequestsOf(p)' <=> r \in RequestsOf(p)
      BY <1>4, <1>5
    <2> QED
      BY <2>1
  <1>6. ASSUME NEW p, IsRequest(m, p)
        PROVE  RequestsOf(p)' = RequestsOf(p) \union {<<h, Len(queue[h]) + 1>>}
    <2>1. \A r : r \in RequestsOf(p)' <=>
                    r \in RequestsOf(p) \/ r = <<h, Len(queue[h]) + 1>>
      BY <1>4, <1>6
    <2> QED
      BY <2>1
  <1> QED
    BY <1>3, <1>5, <1>6

(* A message is taken from a server's queue. *)
LEMMA RequestTaken ==
    ASSUME ServerQueuesOk, NEW h \in Queues, queue[h] # <<>>,
           queue' = [queue EXCEPT ![h] = Tail(@)]
    PROVE  /\ \A p : \A r \in RequestsOf(p)' :
                  IF r[1] = h THEN <<h, r[2] + 1>> \in RequestsOf(p) /\ r[2] \in Nat /\ r[2] > 0
                  ELSE r \in RequestsOf(p)
           /\ \A p : \A r \in RequestsOf(p) :
                  \/ r = <<h, 1>> /\ IsRequest(Head(queue[h]), p)
                  \/ r[1] = h /\ r[2] \in Nat /\ <<h, r[2] - 1>> \in RequestsOf(p)'
                  \/ r[1] # h /\ r \in RequestsOf(p)'
           /\ \A p : IsRequest(Head(queue[h]), p) => <<h, 1>> \in RequestsOf(p)
           /\ ServerQueuesOk'
  <1>1. /\ Sequence(Tail(queue[h])) /\ Len(queue[h]) \in Nat
        /\ 1 \in DOMAIN queue[h] /\ Head(queue[h]) = queue[h][1]
        /\ DOMAIN queue[h] = 1..Len(queue[h]) /\ DOMAIN Tail(queue[h]) = 1..(Len(queue[h]) - 1)
        /\ \A i \in 1..(Len(queue[h]) - 1) : Tail(queue[h])[i] = queue[h][i + 1]
    BY TailOf DEF ServerQueuesOk
  <1>2. /\ DOMAIN queue' = Queues /\ queue'[h] = Tail(queue[h])
        /\ \A g \in Queues : g # h => queue'[g] = queue[g]
    BY DEF ServerQueuesOk
  <1>3. ServerQueuesOk'
    BY <1>1, <1>2 DEF ServerQueuesOk, Queues
  <1>4. ASSUME NEW p, NEW r
        PROVE  r \in RequestsOf(p)' <=>
                  \E g \in Queues : \E i \in DOMAIN queue'[g] :
                      r = <<g, i>> /\ IsRequest(queue'[g][i], p)
    BY DEF RequestsOf, IsRequest, Queues
  <1>5. ASSUME NEW p, NEW r \in RequestsOf(p)'
        PROVE  IF r[1] = h THEN <<h, r[2] + 1>> \in RequestsOf(p) /\ r[2] \in Nat /\ r[2] > 0
               ELSE r \in RequestsOf(p)
    <2>0. PICK g \in Queues :
              \E i \in DOMAIN queue'[g] : r = <<g, i>> /\ IsRequest(queue'[g][i], p)
      BY <1>4
    <2>1. PICK i \in DOMAIN queue'[g] : r = <<g, i>> /\ IsRequest(queue'[g][i], p)
      BY <2>0
    <2>2. CASE g = h
      <3>1. i \in 1..(Len(queue[h]) - 1) /\ i + 1 \in DOMAIN queue[h]
        BY <1>1, <1>2, <2>2
      <3>2. IsRequest(queue[h][i + 1], p)
        BY <1>1, <1>2, <2>1, <2>2, <3>1
      <3>3. <<h, i + 1>> \in RequestsOf(p)
        BY <3>1, <3>2, RequestAt
      <3> QED
        BY <2>1, <2>2, <3>1, <3>3
    <2>3. CASE g # h
      BY <1>2, <2>1, <2>3, RequestAt
    <2> QED
      BY <2>2, <2>3
  <1>6. ASSUME NEW p, NEW r \in RequestsOf(p)
        PROVE  \/ r = <<h, 1>> /\ IsRequest(Head(queue[h]), p)
               \/ r[1] = h /\ r[2] \in Nat /\ <<h, r[2] - 1>> \in RequestsOf(p)'
               \/ r[1] # h /\ r \in RequestsOf(p)'
    <2>0. PICK g \in Queues :
              \E i \in DOMAIN queue[g] : r = <<g, i>> /\ IsRequest(queue[g][i], p)
      BY RequestAt
    <2>1. PICK i \in DOMAIN queue[g] : r = <<g, i>> /\ IsRequest(queue[g][i], p)
      BY <2>0
    <2>2. CASE g = h /\ i = 1
      BY <1>1, <2>1, <2>2
    <2>3. CASE g = h /\ i # 1
      <3>1. i \in Nat /\ i - 1 \in 1..(Len(queue[h]) - 1) /\ (i - 1) + 1 = i
        BY <1>1, <2>3
      <3>2. i - 1 \in DOMAIN queue'[h] /\ IsRequest(queue'[h][i - 1], p)
        BY <1>1, <1>2, <2>1, <2>3, <3>1
      <3>3. <<h, i - 1>> \in RequestsOf(p)'
        BY <1>4, <3>2
      <3> QED
        BY <2>1, <2>3, <3>1, <3>3
    <2>4. CASE g # h
      BY <1>2, <1>4, <2>1, <2>4
    <2> QED
      BY <2>2, <2>3, <2>4
  <1>7. ASSUME NEW p, IsRequest(Head(queue[h]), p) PROVE <<h, 1>> \in RequestsOf(p)
    BY <1>1, <1>7, RequestAt
  <1> QED
    BY <1>3, <1>5, <1>6, <1>7

(* A client has one request at most. *)
LEMMA LastRequestTaken ==
    ASSUME ServerQueuesOk, NEW h \in Queues, queue[h] # <<>>,
           queue' = [queue EXCEPT ![h] = Tail(@)], NEW p
    PROVE  /\ RequestsOf(p) = {} => RequestsOf(p)' = {} /\ ~IsRequest(Head(queue[h]), p)
           /\ \A r : RequestsOf(p) = {r} =>
                IF IsRequest(Head(queue[h]), p)
                THEN RequestsOf(p)' = {} /\ r[1] = h
                ELSE \E q : RequestsOf(p)' = {q} /\ q[1] = r[1]
  <1>1. /\ \A r \in RequestsOf(p)' :
              IF r[1] = h THEN <<h, r[2] + 1>> \in RequestsOf(p) /\ r[2] \in Nat /\ r[2] > 0
              ELSE r \in RequestsOf(p)
        /\ \A r \in RequestsOf(p) :
              \/ r = <<h, 1>> /\ IsRequest(Head(queue[h]), p)
              \/ r[1] = h /\ r[2] \in Nat /\ <<h, r[2] - 1>> \in RequestsOf(p)'
              \/ r[1] # h /\ r \in RequestsOf(p)'
        /\ IsRequest(Head(queue[h]), p) => <<h, 1>> \in RequestsOf(p)
    BY RequestTaken
  <1>2. \A r \in RequestsOf(p)' : r = <<r[1], r[2]>>
    BY DEF RequestsOf
  <1>3. ASSUME RequestsOf(p) = {} PROVE RequestsOf(p)' = {} /\ ~IsRequest(Head(queue[h]), p)
    BY <1>1, <1>3
  <1>4. ASSUME NEW r, RequestsOf(p) = {r}, IsRequest(Head(queue[h]), p)
        PROVE  RequestsOf(p)' = {} /\ r[1] = h
    <2>1. r = <<h, 1>>
      BY <1>1, <1>4
    <2>2. ASSUME NEW q \in RequestsOf(p)' PROVE FALSE
      <3>1. q[1] = h => q[2] + 1 = 1 /\ q[2] \in Nat /\ q[2] > 0
        BY <1>1, <1>4, <2>1
      <3>2. q[1] # h => q = <<h, 1>>
        BY <1>1, <1>4, <2>1
      <3> QED
        BY <3>1, <3>2
    <2> QED
      BY <2>1, <2>2
  <1>5. ASSUME NEW r, RequestsOf(p) = {r}, ~IsRequest(Head(queue[h]), p)
        PROVE  \E q : RequestsOf(p)' = {q} /\ q[1] = r[1]
    <2>1. CASE r[1] = h
      <3>1. r[2] \in Nat /\ <<h, r[2] - 1>> \in RequestsOf(p)'
        BY <1>1, <1>5, <2>1
      <3>2. ASSUME NEW q \in RequestsOf(p)' PROVE q = <<h, r[2] - 1>>
        <4>1. q[1] = h
          BY <1>1, <1>5, <2>1
        <4>2. <<h, q[2] + 1>> = r /\ q[2] \in Nat
          BY <1>1, <1>5, <4>1
        <4> QED
          BY <1>2, <4>1, <4>2
      <3>3. RequestsOf(p)' = {<<h, r[2] - 1>>} /\ <<h, r[2] - 1>>[1] = r[1]
        BY <2>1, <3>1, <3>2
      <3> QED
        BY <3>3
    <2>2. CASE r[1] # h
      <3>1. r \in RequestsOf(p)'
        BY <1>1, <1>5, <2>2
      <3>2. ASSUME NEW q \in RequestsOf(p)' PROVE q = r
        BY <1>1, <1>5, <2>2
      <3>3. RequestsOf(p)' = {r}
        BY <3>1, <3>2
      <3> QED
        BY <3>3
    <2> QED
      BY <2>1, <2>2
  <1> QED
    BY <1>3, <1>4, <1>5

(* A message is appended to a client's queue. *)
LEMMA AnswerSent ==
    ASSUME InboxesOk, NEW q \in Clients, NEW o \in 1..MaxObjects, NEW m,
           inbox' = [inbox EXCEPT ![q][o] = Append(@, m)]
    PROVE  /\ InboxesOk'
           /\ \A p \in Clients : p # q \/ m.kind = "exit" => AnswersOf(p)' = AnswersOf(p)
           /\ m.kind # "exit" =>
                AnswersOf(q)' = AnswersOf(q) \union {<<o, Len(inbox[q][o]) + 1>>}
  <1> DEFINE s == inbox[q][o]
  <1>1. /\ Sequence(Append(s, m)) /\ Len(s) \in Nat
        /\ DOMAIN s = 1..Len(s)
        /\ DOMAIN Append(s, m) = 1..(Len(s) + 1)
        /\ \A i \in 1..Len(s) : Append(s, m)[i] = s[i]
        /\ Append(s, m)[Len(s) + 1] = m
    BY AppendTo DEF InboxesOk
  <1>2. /\ DOMAIN inbox' = Clients
        /\ \A p \in Clients : p # q => inbox'[p] = inbox[p]
        /\ DOMAIN inbox'[q] = 1..MaxObjects
        /\ inbox'[q][o] = Append(s, m)
        /\ \A u \in 1..MaxObjects : u # o => inbox'[q][u] = inbox[q][u]
    BY DEF InboxesOk
  <1>3. \A p \in Clients : DOMAIN inbox'[p] = 1..MaxObjects
    BY <1>2 DEF InboxesOk
  <1>4. \A p \in Clients : \A u \in 1..MaxObjects : Sequence(inbox'[p][u])
    BY <1>1, <1>2 DEF InboxesOk
  <1>5. ASSUME NEW p \in Clients, p # q PROVE AnswersOf(p)' = AnswersOf(p)
    BY <1>2, <1>5 DEF AnswersOf
  <1>6. ASSUME NEW a
        PROVE  a \in AnswersOf(q)' <=>
                  a \in AnswersOf(q) \/ (m.kind # "exit" /\ a = <<o, Len(s) + 1>>)
    <2>1. a \in AnswersOf(q)' <=>
              \E u \in 1..MaxObjects : \E i \in DOMAIN inbox'[q][u] :
                  a = <<u, i>> /\ inbox'[q][u][i].kind # "exit"
      BY DEF AnswersOf
    <2>2. ASSUME NEW u \in 1..MaxObjects, NEW i \in DOMAIN inbox'[q][u], a = <<u, i>>,
                 inbox'[q][u][i].kind # "exit"
          PROVE  a \in AnswersOf(q) \/ (m.kind # "exit" /\ a = <<o, Len(s) + 1>>)
      <3>1. CASE u = o /\ i = Len(s) + 1
        BY <1>1, <1>2, <2>2, <3>1
      <3>2. CASE u = o /\ i # Len(s) + 1
        <4>1. i \in DOMAIN s /\ s[i].kind # "exit"
          BY <1>1, <1>2, <2>2, <3>2
        <4> QED
          BY <2>2, <3>2, <4>1, AnswerAt
      <3>3. CASE u # o
        <4>1. inbox'[q][u] = inbox[q][u]
          BY <1>2, <3>3
        <4>2. i \in DOMAIN inbox[q][u] /\ inbox[q][u][i].kind # "exit"
          BY <2>2, <4>1
        <4> QED
          BY <2>2, <4>2, AnswerAt
      <3> QED
        BY <3>1, <3>2, <3>3
    <2>3. ASSUME NEW u \in 1..MaxObjects, NEW i \in DOMAIN inbox[q][u], a = <<u, i>>,
                 inbox[q][u][i].kind # "exit"
          PROVE  a \in AnswersOf(q)'
      BY <1>1, <1>2, <2>1, <2>3
    <2>4. ASSUME m.kind # "exit", a = <<o, Len(s) + 1>>
          PROVE  a \in AnswersOf(q)'
      BY <1>1, <1>2, <2>1, <2>4
    <2> QED
      BY <2>1, <2>2, <2>3, <2>4, AnswerAt
  <1>7. m.kind = "exit" => AnswersOf(q)' = AnswersOf(q)
    <2> SUFFICES ASSUME m.kind = "exit" PROVE AnswersOf(q)' = AnswersOf(q)
      OBVIOUS
    <2>1. \A a : a \in AnswersOf(q)' <=> a \in AnswersOf(q)
      BY <1>6
    <2> QED
      BY <2>1
  <1>8. m.kind # "exit" => AnswersOf(q)' = AnswersOf(q) \union {<<o, Len(s) + 1>>}
    <2> SUFFICES ASSUME m.kind # "exit"
                 PROVE  AnswersOf(q)' = AnswersOf(q) \union {<<o, Len(s) + 1>>}
      OBVIOUS
    <2>1. \A a : a \in AnswersOf(q)' <=> a \in AnswersOf(q) \/ a = <<o, Len(s) + 1>>
      BY <1>6
    <2> QED
      BY <2>1
  <1> QED
    BY <1>2, <1>3, <1>4, <1>5, <1>7, <1>8 DEF InboxesOk

(* A client takes a message from its queue: its answer, of which there is   *)
(* one at most, or another one.                                            *)
LEMMA AnswerTaken ==
    ASSUME InboxesOk, NEW q \in Clients, NEW o \in 1..MaxObjects, inbox[q][o] # <<>>,
           inbox' = [inbox EXCEPT ![q][o] = Tail(@)]
    PROVE  /\ InboxesOk'
           /\ \A p \in Clients : p # q => AnswersOf(p)' = AnswersOf(p)
           /\ Head(inbox[q][o]).kind = "exit" /\ AnswersOf(q) = {} => AnswersOf(q)' = {}
           /\ \A a : Head(inbox[q][o]).kind = "exit" /\ AnswersOf(q) = {a} =>
                  \E b : AnswersOf(q)' = {b} /\ b[1] = a[1]
           /\ Head(inbox[q][o]).kind # "exit" =>
                  /\ AnswersOf(q) # {}
                  /\ \A a : AnswersOf(q) = {a} => AnswersOf(q)' = {}
  <1> DEFINE s == inbox[q][o]
  <1>1. /\ Sequence(Tail(s)) /\ Len(s) \in Nat
        /\ 1 \in DOMAIN s /\ Head(s) = s[1]
        /\ DOMAIN s = 1..Len(s) /\ DOMAIN Tail(s) = 1..(Len(s) - 1)
        /\ \A i \in 1..(Len(s) - 1) : Tail(s)[i] = s[i + 1]
    BY TailOf DEF InboxesOk
  <1>2. /\ DOMAIN inbox' = Clients
        /\ \A p \in Clients : p # q => inbox'[p] = inbox[p]
        /\ DOMAIN inbox'[q] = 1..MaxObjects
        /\ inbox'[q][o] = Tail(s)
        /\ \A u \in 1..MaxObjects : u # o => inbox'[q][u] = inbox[q][u]
    BY DEF InboxesOk
  <1>3. InboxesOk'
    BY <1>1, <1>2 DEF InboxesOk, Queues
  <1>4. ASSUME NEW p \in Clients, p # q PROVE AnswersOf(p)' = AnswersOf(p)
    BY <1>2, <1>4 DEF AnswersOf
  <1>5. ASSUME NEW a
        PROVE  a \in AnswersOf(q)' <=>
                  \E u \in 1..MaxObjects : \E i \in DOMAIN inbox'[q][u] :
                      a = <<u, i>> /\ inbox'[q][u][i].kind # "exit"
    BY DEF AnswersOf
  <1>6. ASSUME NEW a \in AnswersOf(q)'
        PROVE  /\ a = <<a[1], a[2]>>
               /\ IF a[1] = o THEN <<o, a[2] + 1>> \in AnswersOf(q) /\ a[2] \in Nat /\ a[2] > 0
                  ELSE a \in AnswersOf(q)
    <2>0. PICK u \in 1..MaxObjects :
              \E i \in DOMAIN inbox'[q][u] : a = <<u, i>> /\ inbox'[q][u][i].kind # "exit"
      BY <1>5
    <2>1. PICK i \in DOMAIN inbox'[q][u] : a = <<u, i>> /\ inbox'[q][u][i].kind # "exit"
      BY <2>0
    <2>2. CASE u = o
      <3>1. i \in 1..(Len(s) - 1) /\ i + 1 \in DOMAIN s
        BY <1>1, <1>2, <2>2
      <3>2. s[i + 1].kind # "exit"
        BY <1>1, <1>2, <2>1, <2>2, <3>1
      <3>3. <<o, i + 1>> \in AnswersOf(q)
        BY <3>1, <3>2, AnswerAt
      <3> QED
        BY <2>1, <2>2, <3>1, <3>3
    <2>3. CASE u # o
      <3>1. inbox'[q][u] = inbox[q][u]
        BY <1>2, <2>3
      <3>2. i \in DOMAIN inbox[q][u] /\ inbox[q][u][i].kind # "exit"
        BY <2>1, <3>1
      <3>3. <<u, i>> \in AnswersOf(q)
        BY <3>2, AnswerAt
      <3> QED
        BY <2>1, <2>3, <3>3
    <2> QED
      BY <2>2, <2>3
  <1>7. ASSUME NEW a \in AnswersOf(q)
        PROVE  \/ a = <<o, 1>> /\ Head(s).kind # "exit"
               \/ a[1] = o /\ a[2] \in Nat /\ <<o, a[2] - 1>> \in AnswersOf(q)'
               \/ a[1] # o /\ a \in AnswersOf(q)'
    <2>0. PICK u \in 1..MaxObjects :
              \E i \in DOMAIN inbox[q][u] : a = <<u, i>> /\ inbox[q][u][i].kind # "exit"
      BY AnswerAt
    <2>1. PICK i \in DOMAIN inbox[q][u] : a = <<u, i>> /\ inbox[q][u][i].kind # "exit"
      BY <2>0
    <2>2. CASE u = o /\ i = 1
      BY <1>1, <2>1, <2>2
    <2>3. CASE u = o /\ i # 1
      <3>1. i \in Nat /\ i - 1 \in 1..(Len(s) - 1) /\ (i - 1) + 1 = i
        BY <1>1, <2>3
      <3>2. i - 1 \in DOMAIN inbox'[q][o] /\ inbox'[q][o][i - 1].kind # "exit"
        BY <1>1, <1>2, <2>1, <2>3, <3>1
      <3>3. <<o, i - 1>> \in AnswersOf(q)'
        BY <1>5, <3>2
      <3> QED
        BY <2>1, <2>3, <3>1, <3>3
    <2>4. CASE u # o
      BY <1>2, <1>5, <2>1, <2>4
    <2> QED
      BY <2>2, <2>3, <2>4
  <1>8. Head(s).kind # "exit" => <<o, 1>> \in AnswersOf(q)
    BY <1>1, AnswerAt
  <1> HIDE DEF s
  <1>9. Head(s).kind = "exit" /\ AnswersOf(q) = {} => AnswersOf(q)' = {}
    BY <1>6
  <1>10. ASSUME NEW a, Head(s).kind = "exit", AnswersOf(q) = {a}
         PROVE  \E b : AnswersOf(q)' = {b} /\ b[1] = a[1]
    <2>1. CASE a[1] = o
      <3>1. a[2] \in Nat /\ <<o, a[2] - 1>> \in AnswersOf(q)'
        BY <1>7, <1>10, <2>1
      <3>2. ASSUME NEW b \in AnswersOf(q)' PROVE b = <<o, a[2] - 1>>
        <4>1. b[1] = o
          BY <1>6, <1>10, <2>1
        <4>2. <<o, b[2] + 1>> = a /\ b[2] \in Nat
          BY <1>6, <1>10, <4>1
        <4> QED
          BY <1>6, <4>1, <4>2
      <3>3. AnswersOf(q)' = {<<o, a[2] - 1>>} /\ <<o, a[2] - 1>>[1] = a[1]
        BY <2>1, <3>1, <3>2
      <3> QED
        BY <3>3
    <2>2. CASE a[1] # o
      <3>1. a \in AnswersOf(q)'
        BY <1>7, <1>10, <2>2
      <3>2. ASSUME NEW b \in AnswersOf(q)' PROVE b = a
        BY <1>6, <1>10, <2>2
      <3>3. AnswersOf(q)' = {a}
        BY <3>1, <3>2
      <3> QED
        BY <3>3
    <2> QED
      BY <2>1, <2>2
  <1>11. ASSUME NEW a, Head(s).kind # "exit", AnswersOf(q) = {a} PROVE AnswersOf(q)' = {}
    <2>1. a = <<o, 1>>
      BY <1>8, <1>11
    <2>2. ASSUME NEW b \in AnswersOf(q)' PROVE FALSE
      <3>1. b[1] = o => b[2] + 1 = 1 /\ b[2] \in Nat /\ b[2] > 0
        BY <1>6, <1>11, <2>1
      <3>2. b[1] # o => b = <<o, 1>>
        BY <1>6, <1>11, <2>1
      <3> QED
        BY <3>1, <3>2
    <2> QED
      BY <2>2
  <1> QED
    BY <1>3, <1>4, <1>8, <1>9, <1>10, <1>11 DEF s

-----------------------------------------------------------------------------
(* Names and counters. *)

(* Every object that has a name was created, a name is kept in the domains  *)
(* it is looked up in, and only a server that stops gives up a queue, so    *)
(* that a client created at any time finds one.                             *)
ServerNames ==
    /\ starts \in 0..MaxStarts /\ queues \in Nat /\ srvName \in 0..queues
    /\ srv = "up" => srvName # 0 /\ queues <= starts
    /\ srvName = 0 => queues <= starts
    /\ queues <= starts + 1

ClientNames ==
    /\ created \in 0..MaxObjects /\ calls \in 0..MaxRequests
    /\ DOMAIN objects = Clients /\ DOMAIN inboxName = Clients /\ DOMAIN handle = Clients
    /\ DOMAIN cached = Clients
    /\ \A p \in Clients :
          /\ objects[p] \in 0..created /\ cached[p] \in 0..objects[p]
          /\ inboxName[p] = IF cpc[p] = "none" THEN 0 ELSE objects[p]
          /\ cpc[p] # "none" => objects[p] > 0 /\ handle[p] \in Queues
          /\ cpc[p] = "none" => rpc[p] = "ended"

(* Domains only: what the functions map to is for the invariants that need  *)
(* it.                                                                     *)
ClientDomains ==
    /\ DOMAIN cpc = Clients /\ DOMAIN why = Clients /\ DOMAIN answer = Clients
    /\ DOMAIN topicOf = Clients /\ DOMAIN cursors = Clients /\ DOMAIN openSlots = Clients
    /\ DOMAIN rest = Clients /\ DOMAIN rpc = Clients

NamesInv == ServerNames /\ ClientNames /\ ClientDomains

LEMMA NamesInit == Init => NamesInv
  BY ChannelAssumption DEF Init, NamesInv, ServerNames, ClientNames, ClientDomains

LEMMA QueueOpened ==
    ASSUME ServerNames, OpenQueue, UNCHANGED <<srv, starts>>
    PROVE  ServerNames' /\ srvName' \in Queues
  BY ChannelAssumption DEF ServerNames, OpenQueue, Queues

(* What a client does once it exists. *)
LEMMA NamesOfClient ==
    ASSUME NamesInv, NEW p \in Clients, cpc[p] # "none",
           UNCHANGED <<srv, starts, queues, srvName, created, objects, inboxName, handle, cached>>,
           calls' \in 0..MaxRequests,
           cpc' = cpc \/ \E x : x # "none" /\ cpc' = [cpc EXCEPT ![p] = x],
           ClientDomains', \A q \in Clients : q # p => rpc'[q] = rpc[q]
    PROVE  NamesInv'
  <1>1. ServerNames'
    BY DEF NamesInv, ServerNames
  <1>2. \A q \in Clients : (cpc'[q] = "none" <=> cpc[q] = "none")
    BY DEF NamesInv, ClientDomains
  <1>3. ClientNames'
    BY <1>2 DEF NamesInv, ClientNames, Queues
  <1> QED
    BY <1>1, <1>3 DEF NamesInv

LEMMA NamesClientStep ==
    ASSUME NamesInv, NEW p \in Clients, Client(p)
    PROVE  NamesInv'
  <1> USE DEF namedVars, tableVars, serverVars
  <1>0. calls \in 0..MaxRequests /\ MaxRequests \in Nat /\ ClientDomains
    BY ChannelAssumption DEF NamesInv, ClientNames
  <1>1. CASE NewClient(p)
    <2>1. ServerNames' /\ srvName' \in Queues
      BY <1>1, QueueOpened DEF NewClient, NamesInv
    <2>2. ClientDomains'
      BY <1>0, <1>1 DEF NewClient, ClientDomains
    <2>3. created \in Nat /\ created < MaxObjects /\ MaxObjects \in Nat /\ created' = created + 1
      BY <1>1, ChannelAssumption DEF NewClient, NamesInv, ClientNames
    <2>4. /\ DOMAIN objects' = Clients /\ DOMAIN inboxName' = Clients /\ DOMAIN handle' = Clients
          /\ objects'[p] = objects[p] + 1 /\ inboxName'[p] = objects[p] + 1
          /\ handle'[p] \in Queues /\ cpc'[p] = "idle"
          /\ UNCHANGED <<cached, calls>>
          /\ \A q \in Clients : q # p => /\ objects'[q] = objects[q] /\ handle'[q] = handle[q]
                                         /\ inboxName'[q] = inboxName[q] /\ cpc'[q] = cpc[q]
                                         /\ rpc'[q] = rpc[q]
      BY <1>0, <1>1, <2>1 DEF NewClient, NamesInv, ClientNames, ClientDomains
    <2>5. ASSUME NEW q \in Clients
          PROVE  /\ objects'[q] \in 0..created' /\ cached'[q] \in 0..objects'[q]
                 /\ inboxName'[q] = IF cpc'[q] = "none" THEN 0 ELSE objects'[q]
                 /\ cpc'[q] # "none" => objects'[q] > 0 /\ handle'[q] \in Queues
                 /\ cpc'[q] = "none" => rpc'[q] = "ended"
      <3>1. /\ objects[q] \in 0..created /\ cached[q] \in 0..objects[q]
            /\ inboxName[q] = IF cpc[q] = "none" THEN 0 ELSE objects[q]
            /\ cpc[q] # "none" => objects[q] > 0 /\ handle[q] \in Queues
            /\ cpc[q] = "none" => rpc[q] = "ended"
        BY DEF NamesInv, ClientNames
      <3> QED
        BY <2>3, <2>4, <3>1
    <2>6. ClientNames'
      BY <1>0, <2>3, <2>4, <2>5 DEF NamesInv, ClientNames, Queues
    <2> QED
      BY <2>1, <2>2, <2>6 DEF NamesInv
  <1>2. CASE RemoveQueue(p)
    <2>1. ServerNames' /\ ClientDomains'
      BY <1>0, <1>2 DEF RemoveQueue, NamesInv, ServerNames, ClientDomains
    <2>2. ClientNames'
      BY <1>0, <1>2 DEF RemoveQueue, NamesInv, ClientNames, ClientDomains, Queues
    <2> QED
      BY <2>1, <2>2 DEF NamesInv
  <1>3. CASE Connect(p) \/ Subscribe(p) \/ CloseCursor(p) \/ UnsubscribeNext(p)
    <2>1. /\ cpc[p] # "none" /\ cpc' = [cpc EXCEPT ![p] = "waiting"] /\ rpc' = rpc
          /\ UNCHANGED <<srv, starts, queues, srvName, created, objects, inboxName, handle, cached>>
      BY <1>3 DEF Connect, Subscribe, CloseCursor, UnsubscribeNext, Request
    <2>2. calls' \in 0..MaxRequests
      BY <1>0, <1>3 DEF Connect, Subscribe, CloseCursor, UnsubscribeNext
    <2>3. ClientDomains'
      BY <1>0, <1>3 DEF Connect, Subscribe, CloseCursor, UnsubscribeNext, Request, ClientDomains
    <2> QED
      BY <2>1, <2>2, <2>3, NamesOfClient
  <1>4. CASE \/ Destroy(p) \/ EraseTopic(p) \/ FinishConnect(p) \/ FinishSubscribe(p)
             \/ FinishClose(p) \/ FinishUnsubscribe(p)
    <2>1. /\ cpc[p] # "none" /\ rpc' = rpc /\ calls' = calls
          /\ \E x : x # "none" /\ cpc' = [cpc EXCEPT ![p] = x]
          /\ UNCHANGED <<srv, starts, queues, srvName, created, objects, inboxName, handle, cached>>
      BY <1>4 DEF Destroy, EraseTopic, FinishConnect, FinishSubscribe, FinishClose,
                  FinishUnsubscribe, Continue
    <2>2. ClientDomains'
      BY <1>0, <1>4 DEF Destroy, EraseTopic, FinishConnect, FinishSubscribe, FinishClose,
                        FinishUnsubscribe, Continue, ClientDomains
    <2> QED
      BY <1>0, <2>1, <2>2, NamesOfClient
  <1>5. CASE ReceiveAnswer(p) \/ AckUnsubscribed(p)
    <2>1. /\ cpc[p] # "none"
          /\ cpc' = cpc \/ \E x : x # "none" /\ cpc' = [cpc EXCEPT ![p] = x]
          /\ UNCHANGED <<srv, starts, queues, srvName, created, objects, inboxName, handle, cached>>
          /\ calls' = calls
      BY <1>5 DEF ReceiveAnswer, AckUnsubscribed, NamesInv, ClientNames
    <2>2. ClientDomains' /\ \A q \in Clients : q # p => rpc'[q] = rpc[q]
      BY <1>0, <1>5 DEF ReceiveAnswer, AckUnsubscribed, ClientDomains
    <2> QED
      BY <1>0, <2>1, <2>2, NamesOfClient
  <1> QED
    BY <1>1, <1>2, <1>3, <1>4, <1>5 DEF Client

LEMMA NamesServerStep ==
    ASSUME NamesInv, Server
    PROVE  NamesInv'
  <1> USE DEF tableVars, clientVars
  <1>1. CASE StartServer
    <2>1. ServerNames'
      BY <1>1, ChannelAssumption DEF StartServer, OpenQueue, NamesInv, ServerNames
    <2>2. cached' = [p \in Clients |-> 0] /\ UNCHANGED clientVars /\ inboxName' = inboxName
      BY <1>1 DEF StartServer
    <2>3. ClientNames' /\ ClientDomains'
      BY <2>2 DEF NamesInv, ClientNames, ClientDomains, Queues
    <2> QED
      BY <2>1, <2>3 DEF NamesInv
  <1>2. CASE ~StartServer
    <2>1. ServerNames'
      <3>1. CASE FinishStop
        BY <3>1 DEF FinishStop, NamesInv, ServerNames
      <3>2. CASE ~FinishStop
        <4>1. UNCHANGED <<queues, starts, srvName>> /\ (srv' = srv \/ srv' = "died")
          BY <1>2, <3>2
             DEF Server, CreateTopic, RemoveTopic, StopServer, Command, NotifyAll, OnExit,
                 OnCreateTopic, OnRemoveTopic, OnHello, OnSubscribe, OnUnsubscribe, Receive, Answer,
                 serverVars
        <4> QED
          BY <4>1 DEF NamesInv, ServerNames
      <3> QED
        BY <3>1, <3>2
    <2>2. UNCHANGED <<clientVars, inboxName>>
      BY <1>2
         DEF Server, CreateTopic, RemoveTopic, StopServer, Command, FinishStop, NotifyAll, OnExit,
             OnCreateTopic, OnRemoveTopic, OnHello, OnSubscribe, OnUnsubscribe, Receive
    <2>3. cached' = cached \/ \E q : cached' = [cached EXCEPT ![q] =
                                                   IF @ = 0 THEN inboxName[q] ELSE @]
      BY <1>2
         DEF Server, CreateTopic, RemoveTopic, StopServer, Command, FinishStop, NotifyAll, OnExit,
             OnCreateTopic, OnRemoveTopic, OnHello, OnSubscribe, OnUnsubscribe, Receive, Answer,
             serverVars
    <2>4. DOMAIN cached' = Clients /\ \A p \in Clients : cached'[p] \in {cached[p], inboxName[p]}
      BY <2>3 DEF NamesInv, ClientNames
    <2>5. ClientDomains'
      BY <2>2 DEF NamesInv, ClientDomains
    <2>6. ASSUME NEW p \in Clients PROVE cached'[p] \in 0..objects[p]
      <3>1. objects[p] \in Nat /\ cached[p] \in 0..objects[p] /\ inboxName[p] \in 0..objects[p]
        BY DEF NamesInv, ClientNames
      <3> QED
        BY <2>4, <3>1
    <2>7. ClientNames'
      BY <2>2, <2>4, <2>6 DEF NamesInv, ClientNames, Queues
    <2> QED
      BY <2>1, <2>5, <2>7 DEF NamesInv
  <1> QED
    BY <1>1, <1>2

LEMMA NamesStep == NamesInv /\ [Next]_vars => NamesInv'
  <1> SUFFICES ASSUME NamesInv, [Next]_vars PROVE NamesInv'
    OBVIOUS
  <1>1. CASE UNCHANGED vars
    BY <1>1 DEF vars, namedVars, serverVars, clientVars, NamesInv, ServerNames, ClientNames,
                ClientDomains, Queues
  <1> QED
    BY <1>1, NamesClientStep, NamesServerStep DEF Next


-----------------------------------------------------------------------------
(* Calls. *)

Mail(s) == {s[i] : i \in DOMAIN s}

KindOf(p) == IF why[p] \in {"hello", "subscribe"} THEN why[p] ELSE "unsubscribe"

Sent(p) == AnswersOf(p) = {} /\ \E r : RequestsOf(p) = {r} /\ r[1] = handle[p]
Replied(p) == RequestsOf(p) = {} /\ \E a : AnswersOf(p) = {a} /\ a[1] \in 1..objects[p]
Silent(p) == RequestsOf(p) = {} /\ AnswersOf(p) = {}

(* A client that waits has one message under way, any other has none. *)
CallsUnderWay ==
    \A p \in Clients : IF cpc[p] = "waiting" THEN Sent(p) \/ Replied(p) ELSE Silent(p)

(* What is under way is about the call the client is in. *)
RequestsFit ==
    \A g \in Queues : \A m \in Mail(queue[g]) :
        m.kind \in Requests => m.client \in Clients /\ m.kind = KindOf(m.client)

AnswersFit ==
    \A p \in Clients :
        /\ \A o \in 1..MaxObjects : \A m \in Mail(inbox[p][o]) :
              m.kind # "exit" => m.kind = KindOf(p)
        /\ cpc[p] = "answered" => answer[p].kind = KindOf(p)

CallInv ==
    /\ srv # "died"
    /\ NamesInv
    /\ ServerQueuesOk /\ InboxesOk
    /\ CallsUnderWay
    /\ RequestsFit /\ AnswersFit

LEMMA MailOf ==
    ASSUME NEW s, Sequence(s)
    PROVE  /\ \A m : Mail(Append(s, m)) = Mail(s) \union {m}
           /\ s # <<>> => Mail(Tail(s)) \subseteq Mail(s) /\ Head(s) \in Mail(s)
  <1>1. ASSUME NEW m PROVE Mail(Append(s, m)) = Mail(s) \union {m}
    <2>1. /\ Len(s) \in Nat
          /\ DOMAIN s = 1..Len(s) /\ DOMAIN Append(s, m) = 1..(Len(s) + 1)
          /\ \A i \in 1..Len(s) : Append(s, m)[i] = s[i]
          /\ Append(s, m)[Len(s) + 1] = m
      BY AppendTo
    <2>2. 1..(Len(s) + 1) = (1..Len(s)) \union {Len(s) + 1}
      BY <2>1
    <2> QED
      BY <2>1, <2>2 DEF Mail
  <1>2. ASSUME s # <<>> PROVE Mail(Tail(s)) \subseteq Mail(s) /\ Head(s) \in Mail(s)
    <2>1. /\ Len(s) \in Nat
          /\ 1 \in DOMAIN s /\ Head(s) = s[1]
          /\ DOMAIN s = 1..Len(s) /\ DOMAIN Tail(s) = 1..(Len(s) - 1)
          /\ \A i \in 1..(Len(s) - 1) : Tail(s)[i] = s[i + 1]
      BY <1>2, TailOf
    <2>2. \A i \in 1..(Len(s) - 1) : i + 1 \in 1..Len(s)
      BY <2>1
    <2> QED
      BY <2>1, <2>2 DEF Mail
  <1> QED
    BY <1>1, <1>2

LEMMA RequestMail ==
    ASSUME NEW g \in Queues, NEW m \in Mail(queue[g]), NEW p, IsRequest(m, p)
    PROVE  RequestsOf(p) # {}
  <1>1. PICK i \in DOMAIN queue[g] : m = queue[g][i]
    BY DEF Mail
  <1>2. <<g, i>> \in RequestsOf(p)
    BY <1>1, RequestAt
  <1> QED
    BY <1>2

LEMMA AnswerMail ==
    ASSUME NEW p, NEW o \in 1..MaxObjects, NEW m \in Mail(inbox[p][o]), m.kind # "exit"
    PROVE  AnswersOf(p) # {}
  <1>1. PICK i \in DOMAIN inbox[p][o] : m = inbox[p][o][i]
    BY DEF Mail
  <1>2. <<o, i>> \in AnswersOf(p)
    BY <1>1, AnswerAt
  <1> QED
    BY <1>2

LEMMA RequestMailSent ==
    ASSUME ServerQueuesOk, NEW h \in Queues, NEW m, queue' = [queue EXCEPT ![h] = Append(@, m)],
           NEW g \in Queues
    PROVE  Mail(queue'[g]) \subseteq Mail(queue[g]) \union {m}
  <1>1. CASE g = h
    <2>1. queue'[g] = Append(queue[g], m) /\ Sequence(queue[g])
      BY <1>1 DEF ServerQueuesOk
    <2> QED
      BY <2>1, MailOf
  <1>2. CASE g # h
    BY <1>2 DEF ServerQueuesOk
  <1> QED
    BY <1>1, <1>2

LEMMA RequestMailTaken ==
    ASSUME ServerQueuesOk, NEW h \in Queues, queue[h] # <<>>, queue' = [queue EXCEPT ![h] = Tail(@)]
    PROVE  /\ Head(queue[h]) \in Mail(queue[h])
           /\ \A g \in Queues : Mail(queue'[g]) \subseteq Mail(queue[g])
  <1>1. queue'[h] = Tail(queue[h]) /\ Sequence(queue[h])
    BY DEF ServerQueuesOk
  <1>2. Mail(Tail(queue[h])) \subseteq Mail(queue[h]) /\ Head(queue[h]) \in Mail(queue[h])
    BY <1>1, MailOf
  <1>3. \A g \in Queues : g # h => queue'[g] = queue[g]
    BY DEF ServerQueuesOk
  <1> QED
    BY <1>1, <1>2, <1>3

LEMMA AnswerMailSent ==
    ASSUME InboxesOk, NEW q \in Clients, NEW o \in 1..MaxObjects, NEW m,
           inbox' = [inbox EXCEPT ![q][o] = Append(@, m)],
           NEW p \in Clients, NEW u \in 1..MaxObjects
    PROVE  /\ Mail(inbox'[p][u]) \subseteq Mail(inbox[p][u]) \union {m}
           /\ p # q => Mail(inbox'[p][u]) \subseteq Mail(inbox[p][u])
  <1>1. CASE p = q /\ u = o
    <2>1. inbox'[p][u] = Append(inbox[p][u], m) /\ Sequence(inbox[p][u])
      BY <1>1 DEF InboxesOk
    <2>2. Mail(inbox'[p][u]) = Mail(inbox[p][u]) \union {m}
      BY <2>1, MailOf
    <2> QED
      BY <1>1, <2>2
  <1>2. CASE ~(p = q /\ u = o)
    <2>1. inbox'[p][u] = inbox[p][u]
      BY <1>2 DEF InboxesOk
    <2> QED
      BY <2>1
  <1> QED
    BY <1>1, <1>2

LEMMA AnswerMailTaken ==
    ASSUME InboxesOk, NEW q \in Clients, NEW o \in 1..MaxObjects, inbox[q][o] # <<>>,
           inbox' = [inbox EXCEPT ![q][o] = Tail(@)]
    PROVE  /\ Head(inbox[q][o]) \in Mail(inbox[q][o])
           /\ \A p \in Clients : \A u \in 1..MaxObjects :
                  Mail(inbox'[p][u]) \subseteq Mail(inbox[p][u])
  <1>1. inbox'[q][o] = Tail(inbox[q][o]) /\ Sequence(inbox[q][o])
    BY DEF InboxesOk
  <1>2. /\ Mail(Tail(inbox[q][o])) \subseteq Mail(inbox[q][o])
        /\ Head(inbox[q][o]) \in Mail(inbox[q][o])
    BY <1>1, MailOf
  <1>3. \A p \in Clients : \A u \in 1..MaxObjects :
           ~(p = q /\ u = o) => inbox'[p][u] = inbox[p][u]
    BY DEF InboxesOk
  <1> QED
    BY <1>1, <1>2, <1>3

LEMMA CallInit == Init => CallInv
  <1> SUFFICES ASSUME Init PROVE CallInv
    OBVIOUS
  <1>1. ServerQueuesOk /\ InboxesOk
    BY EmptySequence DEF Init, ServerQueuesOk, InboxesOk
  <1>2. \A g \in Queues : DOMAIN queue[g] = {}
    BY EmptySequence DEF Init
  <1>3. \A p \in Clients : \A o \in 1..MaxObjects : DOMAIN inbox[p][o] = {}
    BY EmptySequence DEF Init
  <1>4. ASSUME NEW p \in Clients PROVE RequestsOf(p) = {} /\ AnswersOf(p) = {}
    BY <1>2, <1>3, RequestAt, AnswerAt
  <1>5. CallsUnderWay
    BY <1>4 DEF Init, CallsUnderWay, Silent
  <1>6. RequestsFit /\ AnswersFit
    BY <1>2, <1>3 DEF Init, RequestsFit, AnswersFit, Mail
  <1> QED
    BY <1>1, <1>5, <1>6, NamesInit DEF Init, CallInv

(* Steps that move no message. *)
LEMMA CallsKept ==
    ASSUME CallInv, UNCHANGED <<queue, inbox, why>>,
           \A p \in Clients :
               /\ cpc[p] = "waiting" <=> cpc'[p] = "waiting"
               /\ cpc[p] = "waiting" => objects'[p] = objects[p] /\ handle'[p] = handle[p]
               /\ cpc'[p] = "answered" => cpc[p] = "answered" /\ answer'[p] = answer[p]
    PROVE  /\ ServerQueuesOk' /\ InboxesOk' /\ CallsUnderWay' /\ RequestsFit' /\ AnswersFit'
           /\ \A p \in Clients : RequestsOf(p)' = RequestsOf(p)
  <1>1. ServerQueuesOk' /\ InboxesOk'
    BY DEF CallInv, ServerQueuesOk, InboxesOk, Queues
  <1>2. \A p \in Clients : RequestsOf(p)' = RequestsOf(p) /\ AnswersOf(p)' = AnswersOf(p)
    BY DEF RequestsOf, AnswersOf, Queues
  <1>3. CallsUnderWay'
    BY <1>2 DEF CallInv, CallsUnderWay, Sent, Replied, Silent
  <1>4. RequestsFit' /\ AnswersFit'
    BY DEF CallInv, RequestsFit, AnswersFit, KindOf, Queues
  <1> QED
    BY <1>1, <1>2, <1>3, <1>4

(* A client sends the request of a call. *)
LEMMA CallsRequested ==
    ASSUME CallInv, NEW p \in Clients, cpc[p] \in {"idle", "destroying"}, NEW kind, NEW slot, NEW w,
           Request(p, kind, slot), why' = [why EXCEPT ![p] = w],
           kind \in Requests,
           kind = IF w \in {"hello", "subscribe"} THEN w ELSE "unsubscribe"
    PROVE  /\ ServerQueuesOk' /\ InboxesOk' /\ CallsUnderWay' /\ RequestsFit' /\ AnswersFit'
           /\ RequestsOf(p) = {} /\ RequestsOf(p)' # {}
           /\ \A q \in Clients : q # p => RequestsOf(q)' = RequestsOf(q)
  <1> DEFINE h == handle[p]
             m == [kind |-> kind, client |-> p, slot |-> slot]
             at == <<h, Len(queue[h]) + 1>>
  <1>1. h \in Queues /\ DOMAIN cpc = Clients /\ DOMAIN why = Clients /\ ServerQueuesOk
        /\ cpc[p] # "waiting" /\ Silent(p)
    BY DEF CallInv, NamesInv, ClientNames, ClientDomains, CallsUnderWay
  <1>2. /\ queue' = [queue EXCEPT ![h] = Append(@, m)]
        /\ UNCHANGED <<inbox, objects, handle, answer>>
        /\ cpc' = [cpc EXCEPT ![p] = "waiting"]
    BY DEF Request
  <1>3. IsRequest(m, p) /\ \A q : q # p => ~IsRequest(m, q)
    BY DEF IsRequest
  <1>4. /\ m.kind = KindOf(p)' /\ m.client = p
        /\ \A q \in Clients : q # p => KindOf(q)' = KindOf(q) /\ cpc'[q] = cpc[q]
        /\ cpc'[p] = "waiting"
    BY <1>1, <1>2 DEF KindOf
  <1> HIDE DEF m, h
  <1>5. /\ ServerQueuesOk' /\ RequestsOf(p)' = RequestsOf(p) \union {at}
        /\ \A q \in Clients : q # p => RequestsOf(q)' = RequestsOf(q)
    BY <1>1, <1>2, <1>3, RequestSent
  <1>6. InboxesOk' /\ \A q \in Clients : AnswersOf(q)' = AnswersOf(q)
    BY <1>2 DEF CallInv, InboxesOk, AnswersOf
  <1>7. Sent(p)'
    <2>1. RequestsOf(p)' = {at} /\ at[1] = h /\ handle'[p] = h
      BY <1>1, <1>2, <1>5 DEF Silent, h
    <2> HIDE DEF at
    <2> QED
      BY <1>1, <1>6, <2>1 DEF Sent, Silent
  <1>8. CallsUnderWay'
    <2> SUFFICES ASSUME NEW q \in Clients
                 PROVE  (IF cpc[q] = "waiting" THEN Sent(q) \/ Replied(q) ELSE Silent(q))'
      BY DEF CallsUnderWay
    <2>1. CASE q = p
      BY <1>4, <1>7, <2>1
    <2>2. CASE q # p
      <3>1. IF cpc[q] = "waiting" THEN Sent(q) \/ Replied(q) ELSE Silent(q)
        BY DEF CallInv, CallsUnderWay
      <3> QED
        BY <1>2, <1>4, <1>5, <1>6, <2>2, <3>1 DEF Sent, Replied, Silent
    <2> QED
      BY <2>1, <2>2
  <1>9. RequestsFit'
    <2> SUFFICES ASSUME NEW g \in Queues, NEW n \in Mail(queue'[g]), n.kind \in Requests
                 PROVE  n.client \in Clients /\ n.kind = KindOf(n.client)'
      BY DEF RequestsFit, Queues, Requests
    <2>1. n \in Mail(queue[g]) \/ n = m
      BY <1>1, <1>2, RequestMailSent
    <2>2. CASE n = m
      BY <1>4, <2>2
    <2>3. CASE n \in Mail(queue[g])
      <3>1. n.client \in Clients /\ n.kind = KindOf(n.client)
        BY <2>3 DEF CallInv, RequestsFit
      <3>2. n.client # p
        BY <1>1, <2>3, RequestMail DEF Silent, IsRequest
      <3> QED
        BY <1>4, <3>1, <3>2
    <2> QED
      BY <2>1, <2>2, <2>3
  <1>10. AnswersFit'
    <2> SUFFICES ASSUME NEW q \in Clients
                 PROVE  /\ \A o \in 1..MaxObjects : \A n \in Mail(inbox[q][o]) :
                              n.kind # "exit" => n.kind = KindOf(q)'
                        /\ cpc'[q] = "answered" => answer[q].kind = KindOf(q)'
      BY <1>2 DEF AnswersFit
    <2>1. CASE q = p
      <3>1. \A o \in 1..MaxObjects : \A n \in Mail(inbox[q][o]) : n.kind = "exit"
        BY <1>1, <2>1, AnswerMail DEF Silent
      <3> QED
        BY <1>4, <2>1, <3>1
    <2>2. CASE q # p
      BY <1>4, <2>2 DEF CallInv, AnswersFit
    <2> QED
      BY <2>1, <2>2
  <1> QED
    BY <1>1, <1>5, <1>6, <1>8, <1>9, <1>10 DEF Silent

(* The server's application thread sends a command. *)
LEMMA CallsCommanded ==
    ASSUME CallInv, NEW kind, NEW next, Command(kind, next), kind \notin Requests
    PROVE  /\ ServerQueuesOk' /\ InboxesOk' /\ CallsUnderWay' /\ RequestsFit' /\ AnswersFit'
           /\ \A q \in Clients : RequestsOf(q)' = RequestsOf(q)
  <1> DEFINE m == [kind |-> kind]
  <1>1. srvName \in Queues /\ ServerQueuesOk
    BY ChannelAssumption DEF Command, CallInv, NamesInv, ServerNames, Queues
  <1>2. /\ queue' = [queue EXCEPT ![srvName] = Append(@, m)]
        /\ UNCHANGED <<inbox, cpc, why, answer, objects, handle>>
    BY DEF Command, clientVars
  <1>3. m.kind \notin Requests /\ \A q : ~IsRequest(m, q)
    BY DEF IsRequest
  <1> HIDE DEF m
  <1>4. ServerQueuesOk' /\ \A q \in Clients : RequestsOf(q)' = RequestsOf(q)
    BY <1>1, <1>2, <1>3, RequestSent
  <1>5. InboxesOk' /\ \A q \in Clients : AnswersOf(q)' = AnswersOf(q)
    BY <1>2 DEF CallInv, InboxesOk, AnswersOf
  <1>6. CallsUnderWay'
    BY <1>2, <1>4, <1>5 DEF CallInv, CallsUnderWay, Sent, Replied, Silent
  <1>7. RequestsFit'
    <2> SUFFICES ASSUME NEW g \in Queues, NEW n \in Mail(queue'[g]), n.kind \in Requests
                 PROVE  n.client \in Clients /\ n.kind = KindOf(n.client)
      BY <1>2 DEF RequestsFit, Queues, Requests, KindOf
    <2>1. n \in Mail(queue[g])
      BY <1>1, <1>2, <1>3, RequestMailSent
    <2> QED
      BY <2>1 DEF CallInv, RequestsFit
  <1>8. AnswersFit'
    BY <1>2 DEF CallInv, AnswersFit, KindOf
  <1> QED
    BY <1>4, <1>5, <1>6, <1>7, <1>8

(* A client object's destructor sends the message that ends its dispatcher. *)
LEMMA CallsEnded ==
    ASSUME CallInv, NEW p \in Clients, EraseTopic(p)
    PROVE  /\ ServerQueuesOk' /\ InboxesOk' /\ CallsUnderWay' /\ RequestsFit' /\ AnswersFit'
           /\ \A q \in Clients : RequestsOf(q)' = RequestsOf(q)
  <1> DEFINE m == [kind |-> "exit"]
  <1>1. /\ objects[p] \in 1..MaxObjects /\ InboxesOk /\ DOMAIN cpc = Clients
        /\ cpc[p] = "destroying"
    BY ChannelAssumption
       DEF EraseTopic, CallInv, NamesInv, ClientNames, ClientDomains
  <1>2. /\ inbox' = [inbox EXCEPT ![p][objects[p]] = Append(@, m)]
        /\ cpc' = [cpc EXCEPT ![p] = "joining"]
        /\ UNCHANGED <<queue, why, answer, objects, handle>>
    BY DEF EraseTopic
  <1>3. m.kind = "exit"
    OBVIOUS
  <1> HIDE DEF m
  <1>4. ServerQueuesOk' /\ \A q \in Clients : RequestsOf(q)' = RequestsOf(q)
    BY <1>2 DEF CallInv, ServerQueuesOk, RequestsOf, Queues
  <1>5. InboxesOk' /\ \A q \in Clients : AnswersOf(q)' = AnswersOf(q)
    BY <1>1, <1>2, <1>3, AnswerSent
  <1>6. CallsUnderWay'
    BY <1>1, <1>2, <1>4, <1>5 DEF CallInv, CallsUnderWay, Sent, Replied, Silent
  <1>7. RequestsFit'
    BY <1>2 DEF CallInv, RequestsFit, KindOf, Queues
  <1>8. AnswersFit'
    <2> SUFFICES ASSUME NEW q \in Clients
                 PROVE  /\ \A o \in 1..MaxObjects : \A n \in Mail(inbox'[q][o]) :
                              n.kind # "exit" => n.kind = KindOf(q)
                        /\ cpc'[q] = "answered" => answer[q].kind = KindOf(q)
      BY <1>2 DEF AnswersFit, KindOf
    <2>1. \A o \in 1..MaxObjects : Mail(inbox'[q][o]) \subseteq Mail(inbox[q][o]) \union {m}
      BY <1>1, <1>2, AnswerMailSent
    <2> QED
      BY <1>1, <1>2, <1>3, <2>1 DEF CallInv, AnswersFit
  <1> QED
    BY <1>4, <1>5, <1>6, <1>7, <1>8

(* A client's dispatcher receives the answer, or is told to end. *)
LEMMA CallsAnswered ==
    ASSUME CallInv, NEW p \in Clients, ReceiveAnswer(p)
    PROVE  /\ ServerQueuesOk' /\ InboxesOk' /\ CallsUnderWay' /\ RequestsFit' /\ AnswersFit'
           /\ \A q \in Clients : RequestsOf(q)' = RequestsOf(q)
  <1> DEFINE m == Head(inbox[p][objects[p]])
  <1>1. objects[p] \in 1..MaxObjects /\ InboxesOk /\ DOMAIN cpc = Clients /\ DOMAIN answer = Clients
    <2>1. InboxesOk /\ DOMAIN cpc = Clients /\ DOMAIN answer = Clients
      BY DEF CallInv, NamesInv, ClientDomains
    <2>2. rpc[p] = "receive"
      BY DEF ReceiveAnswer
    <2>3. objects[p] \in 0..created /\ objects[p] > 0 /\ created \in 0..MaxObjects
      BY <2>2 DEF CallInv, NamesInv, ClientNames
    <2> QED
      BY <2>1, <2>3, ChannelAssumption
  <1>2. /\ inbox[p][objects[p]] # <<>>
        /\ inbox' = [inbox EXCEPT ![p][objects[p]] = Tail(@)]
        /\ m.kind = "exit" => UNCHANGED <<cpc, answer>>
        /\ m.kind # "exit" => /\ cpc' = [cpc EXCEPT ![p] = "answered"]
                              /\ answer' = [answer EXCEPT ![p] = m]
        /\ UNCHANGED <<queue, why, objects, handle>>
    BY DEF ReceiveAnswer
  <1> HIDE DEF m
  <1>3. ServerQueuesOk' /\ \A q \in Clients : RequestsOf(q)' = RequestsOf(q)
    BY <1>2 DEF CallInv, ServerQueuesOk, RequestsOf, Queues
  <1>4. /\ InboxesOk'
        /\ \A q \in Clients : q # p => AnswersOf(q)' = AnswersOf(q)
        /\ m.kind = "exit" /\ AnswersOf(p) = {} => AnswersOf(p)' = {}
        /\ \A a : m.kind = "exit" /\ AnswersOf(p) = {a} =>
               \E b : AnswersOf(p)' = {b} /\ b[1] = a[1]
        /\ m.kind # "exit" =>
               /\ AnswersOf(p) # {}
               /\ \A a : AnswersOf(p) = {a} => AnswersOf(p)' = {}
    BY <1>1, <1>2, AnswerTaken DEF m
  <1>5. /\ m \in Mail(inbox[p][objects[p]])
        /\ \A q \in Clients : \A o \in 1..MaxObjects :
               Mail(inbox'[q][o]) \subseteq Mail(inbox[q][o])
    BY <1>1, <1>2, AnswerMailTaken DEF m
  <1>6. CallsUnderWay'
    <2> SUFFICES ASSUME NEW q \in Clients
                 PROVE  (IF cpc[q] = "waiting" THEN Sent(q) \/ Replied(q) ELSE Silent(q))'
      BY DEF CallsUnderWay
    <2>1. IF cpc[q] = "waiting" THEN Sent(q) \/ Replied(q) ELSE Silent(q)
      BY DEF CallInv, CallsUnderWay
    <2>2. CASE q # p
      BY <1>1, <1>2, <1>3, <1>4, <2>1, <2>2 DEF Sent, Replied, Silent
    <2>3. CASE q = p /\ m.kind = "exit"
      <3>1. cpc'[q] = cpc[q] /\ handle' = handle /\ objects' = objects
        BY <1>2, <2>3
      <3>2. Sent(q) => Sent(q)'
        BY <1>3, <1>4, <2>3, <3>1 DEF Sent
      <3>3. Silent(q) => Silent(q)'
        BY <1>3, <1>4, <2>3 DEF Silent
      <3>4. ASSUME Replied(q) PROVE Replied(q)'
        <4>1. PICK a : AnswersOf(q) = {a} /\ a[1] \in 1..objects[q] /\ RequestsOf(q) = {}
          BY <3>4 DEF Replied
        <4>2. PICK b : AnswersOf(q)' = {b} /\ b[1] = a[1]
          BY <1>4, <2>3, <4>1
        <4> QED
          BY <1>3, <3>1, <4>1, <4>2 DEF Replied
      <3> QED
        BY <2>1, <3>1, <3>2, <3>3, <3>4
    <2>4. CASE q = p /\ m.kind # "exit"
      <3>1. Replied(q)
        BY <1>4, <2>1, <2>4 DEF Sent, Silent
      <3>2. RequestsOf(q)' = {} /\ AnswersOf(q)' = {}
        BY <1>3, <1>4, <2>4, <3>1 DEF Replied
      <3>3. cpc'[q] = "answered"
        BY <1>1, <1>2, <2>4
      <3> QED
        BY <3>2, <3>3 DEF Silent
    <2> QED
      BY <2>2, <2>3, <2>4
  <1>7. RequestsFit'
    BY <1>2 DEF CallInv, RequestsFit, KindOf, Queues
  <1>8. AnswersFit'
    <2> SUFFICES ASSUME NEW q \in Clients
                 PROVE  /\ \A o \in 1..MaxObjects : \A n \in Mail(inbox'[q][o]) :
                              n.kind # "exit" => n.kind = KindOf(q)
                        /\ cpc'[q] = "answered" => answer'[q].kind = KindOf(q)
      BY <1>2 DEF AnswersFit, KindOf
    <2>1. \A o \in 1..MaxObjects : \A n \in Mail(inbox'[q][o]) :
              n.kind # "exit" => n.kind = KindOf(q)
      BY <1>5 DEF CallInv, AnswersFit
    <2>2. m.kind # "exit" => m.kind = KindOf(p)
      BY <1>1, <1>5 DEF CallInv, AnswersFit
    <2>3. cpc'[q] = "answered" => answer'[q].kind = KindOf(q)
      BY <1>1, <1>2, <2>2 DEF CallInv, AnswersFit
    <2> QED
      BY <2>1, <2>3
  <1> QED
    BY <1>3, <1>4, <1>6, <1>7, <1>8

(* The server's dispatcher takes a message that is nobody's call. *)
LEMMA CallsUntouched ==
    ASSUME CallInv, NEW kind, Receive(kind), kind \notin Requests, UNCHANGED inbox
    PROVE  /\ ServerQueuesOk' /\ InboxesOk' /\ CallsUnderWay' /\ RequestsFit' /\ AnswersFit'
           /\ \A q \in Clients : RequestsOf(q) = {} <=> RequestsOf(q)' = {}
  <1>1. srvName \in Queues /\ ServerQueuesOk
    BY ChannelAssumption DEF Receive, CallInv, NamesInv, ServerNames, Queues
  <1>2. /\ queue[srvName] # <<>> /\ queue' = [queue EXCEPT ![srvName] = Tail(@)]
        /\ UNCHANGED <<cpc, why, answer, objects, handle>>
        /\ \A q : ~IsRequest(Head(queue[srvName]), q)
    BY DEF Receive, Message, clientVars, IsRequest
  <1>3. ServerQueuesOk'
    BY <1>1, <1>2, RequestTaken
  <1>4. \A q : /\ RequestsOf(q) = {} => RequestsOf(q)' = {}
               /\ \A r : RequestsOf(q) = {r} => \E b : RequestsOf(q)' = {b} /\ b[1] = r[1]
    <2>1. \A q : /\ RequestsOf(q) = {} => RequestsOf(q)' = {}
                 /\ \A r : RequestsOf(q) = {r} =>
                        IF IsRequest(Head(queue[srvName]), q)
                        THEN RequestsOf(q)' = {} /\ r[1] = srvName
                        ELSE \E b : RequestsOf(q)' = {b} /\ b[1] = r[1]
      BY <1>1, <1>2, LastRequestTaken
    <2> QED
      BY <1>2, <2>1
  <1>5. InboxesOk' /\ \A q \in Clients : AnswersOf(q)' = AnswersOf(q)
    BY DEF CallInv, InboxesOk, AnswersOf
  <1>6. ASSUME NEW q \in Clients
        PROVE  /\ (IF cpc[q] = "waiting" THEN Sent(q) \/ Replied(q) ELSE Silent(q))'
               /\ RequestsOf(q) = {} <=> RequestsOf(q)' = {}
    <2>1. IF cpc[q] = "waiting" THEN Sent(q) \/ Replied(q) ELSE Silent(q)
      BY DEF CallInv, CallsUnderWay
    <2>2. CASE Sent(q)
      <3>1. PICK r : AnswersOf(q) = {} /\ RequestsOf(q) = {r} /\ r[1] = handle[q]
        BY <2>2 DEF Sent
      <3>2. PICK b : RequestsOf(q)' = {b} /\ b[1] = r[1]
        BY <1>4, <3>1
      <3>3. Sent(q)'
        BY <1>2, <1>5, <3>1, <3>2 DEF Sent
      <3>4. RequestsOf(q) # {} /\ RequestsOf(q)' # {}
        BY <3>1, <3>2
      <3>5. cpc[q] = "waiting"
        BY <2>1, <3>4 DEF Silent
      <3> QED
        BY <1>2, <3>3, <3>4, <3>5
    <2>3. CASE Replied(q) \/ Silent(q)
      BY <1>2, <1>4, <1>5, <2>1, <2>3 DEF Replied, Silent, Sent
    <2> QED
      BY <2>1, <2>2, <2>3
  <1>7. CallsUnderWay'
    BY <1>6 DEF CallsUnderWay
  <1>8. RequestsFit'
    <2> SUFFICES ASSUME NEW g \in Queues, NEW n \in Mail(queue'[g]), n.kind \in Requests
                 PROVE  n.client \in Clients /\ n.kind = KindOf(n.client)
      BY <1>2 DEF RequestsFit, Queues, Requests, KindOf
    <2>1. n \in Mail(queue[g])
      BY <1>1, <1>2, RequestMailTaken
    <2> QED
      BY <2>1 DEF CallInv, RequestsFit
  <1>9. AnswersFit'
    BY <1>2 DEF CallInv, AnswersFit, KindOf
  <1> QED
    BY <1>3, <1>5, <1>6, <1>7, <1>8, <1>9

(* The client of the request in hand waits, so GetClient finds its queue. *)
LEMMA ClientFound ==
    ASSUME CallInv, NEW kind \in Requests, Receive(kind)
    PROVE  /\ Message.client \in Clients /\ cpc[Message.client] = "waiting"
           /\ Sent(Message.client) /\ Message.kind = kind
           /\ kind = KindOf(Message.client)
           /\ Message \in Mail(queue[srvName]) /\ srvName \in Queues
           /\ inboxName[Message.client] \in 1..objects[Message.client]
           /\ objects[Message.client] <= MaxObjects
  <1>1. srvName \in Queues /\ ServerQueuesOk
    BY ChannelAssumption DEF Receive, CallInv, NamesInv, ServerNames, Queues
  <1>2. /\ queue[srvName] # <<>> /\ queue' = [queue EXCEPT ![srvName] = Tail(@)]
        /\ Message = Head(queue[srvName]) /\ Message.kind = kind
    BY DEF Receive, Message
  <1>3. Message \in Mail(queue[srvName])
    BY <1>1, <1>2, RequestMailTaken
  <1>4. Message.client \in Clients /\ kind = KindOf(Message.client)
    BY <1>1, <1>2, <1>3 DEF CallInv, RequestsFit
  <1>5. RequestsOf(Message.client) # {}
    BY <1>1, <1>2, <1>3, RequestMail DEF IsRequest
  <1>6. cpc[Message.client] = "waiting" /\ Sent(Message.client)
    BY <1>4, <1>5 DEF CallInv, CallsUnderWay, Silent, Replied
  <1>7. /\ inboxName[Message.client] \in 1..objects[Message.client]
        /\ objects[Message.client] <= MaxObjects
    BY <1>4, <1>6, ChannelAssumption DEF CallInv, NamesInv, ClientNames
  <1> QED
    BY <1>1, <1>2, <1>3, <1>4, <1>6, <1>7

(* The server's dispatcher answers a call. *)
LEMMA CallsServed ==
    ASSUME CallInv, NEW kind \in Requests, Receive(kind), NEW m, m.kind = kind,
           NEW p, p = Message.client, Answer(p, m)
    PROVE  /\ ServerQueuesOk' /\ InboxesOk' /\ CallsUnderWay' /\ RequestsFit' /\ AnswersFit'
           /\ srv' = srv
           /\ RequestsOf(p) # {} /\ RequestsOf(p)' = {}
           /\ \A q \in Clients : q # p => (RequestsOf(q) = {} <=> RequestsOf(q)' = {})
           /\ \E o \in 1..MaxObjects : inbox' = [inbox EXCEPT ![p][o] = Append(@, m)]
  <1>1. /\ p \in Clients /\ cpc[p] = "waiting" /\ Sent(p) /\ kind = KindOf(p)
        /\ srvName \in Queues /\ inboxName[p] \in 1..objects[p] /\ objects[p] <= MaxObjects
        /\ Message.kind = kind
    BY ClientFound
  <1>2. ServerQueuesOk /\ InboxesOk /\ objects[p] \in Nat /\ MaxObjects \in Nat
    BY <1>1, ChannelAssumption DEF CallInv, NamesInv, ClientNames
  <1>3. /\ queue[srvName] # <<>> /\ queue' = [queue EXCEPT ![srvName] = Tail(@)]
        /\ UNCHANGED <<cpc, why, answer, objects, handle>>
        /\ IsRequest(Head(queue[srvName]), p)
        /\ \A q : q # p => ~IsRequest(Head(queue[srvName]), q)
    BY <1>1 DEF Receive, Message, clientVars, IsRequest
  <1>4. PICK o \in 1..objects[p] :
            inbox' = [inbox EXCEPT ![p][o] = Append(@, m)] /\ srv' = srv
    <2>1. cached'[p] \in 1..objects[p]
      BY <1>1 DEF Answer, CallInv, NamesInv, ClientNames
    <2>2. cached'[p] # 0
      BY <1>2, <2>1
    <2>3. inbox' = [inbox EXCEPT ![p][cached'[p]] = Append(@, m)] /\ srv' = srv
      BY <2>2 DEF Answer
    <2> QED
      BY <2>1, <2>3
  <1>5. o \in 1..MaxObjects /\ m.kind # "exit"
    BY <1>1, <1>2 DEF Requests
  <1>6. ServerQueuesOk'
    BY <1>1, <1>2, <1>3, RequestTaken
  <1>7. /\ \A q : RequestsOf(q) = {} => RequestsOf(q)' = {}
        /\ \A q, r : q # p /\ RequestsOf(q) = {r} => \E b : RequestsOf(q)' = {b} /\ b[1] = r[1]
        /\ \A r : RequestsOf(p) = {r} => RequestsOf(p)' = {}
    <2>1. \A q : /\ RequestsOf(q) = {} => RequestsOf(q)' = {}
                 /\ \A r : RequestsOf(q) = {r} =>
                        IF IsRequest(Head(queue[srvName]), q)
                        THEN RequestsOf(q)' = {} /\ r[1] = srvName
                        ELSE \E b : RequestsOf(q)' = {b} /\ b[1] = r[1]
      BY <1>1, <1>2, <1>3, LastRequestTaken
    <2> QED
      BY <1>3, <2>1
  <1>8. /\ InboxesOk'
        /\ \A q \in Clients : q # p => AnswersOf(q)' = AnswersOf(q)
        /\ AnswersOf(p)' = AnswersOf(p) \union {<<o, Len(inbox[p][o]) + 1>>}
    BY <1>1, <1>2, <1>4, <1>5, AnswerSent
  <1>9. RequestsOf(p) # {} /\ RequestsOf(p)' = {} /\ Replied(p)'
    <2> DEFINE a == <<o, Len(inbox[p][o]) + 1>>
    <2>1. PICK r : AnswersOf(p) = {} /\ RequestsOf(p) = {r}
      BY <1>1 DEF Sent
    <2>2. RequestsOf(p) # {} /\ RequestsOf(p)' = {}
      BY <1>7, <2>1
    <2>3. AnswersOf(p)' = {a} /\ a[1] = o
      BY <1>8, <2>1
    <2> HIDE DEF a
    <2> QED
      BY <1>3, <2>2, <2>3 DEF Replied
  <1>10. ASSUME NEW q \in Clients, q # p
         PROVE  /\ (IF cpc[q] = "waiting" THEN Sent(q) \/ Replied(q) ELSE Silent(q))'
                /\ RequestsOf(q) = {} <=> RequestsOf(q)' = {}
    <2>1. IF cpc[q] = "waiting" THEN Sent(q) \/ Replied(q) ELSE Silent(q)
      BY DEF CallInv, CallsUnderWay
    <2>2. CASE Sent(q)
      <3>1. PICK r : AnswersOf(q) = {} /\ RequestsOf(q) = {r} /\ r[1] = handle[q]
        BY <2>2 DEF Sent
      <3>2. PICK b : RequestsOf(q)' = {b} /\ b[1] = r[1]
        BY <1>7, <1>10, <3>1
      <3>3. Sent(q)'
        BY <1>3, <1>8, <1>10, <3>1, <3>2 DEF Sent
      <3>4. RequestsOf(q) # {} /\ RequestsOf(q)' # {}
        BY <3>1, <3>2
      <3>5. cpc[q] = "waiting"
        BY <2>1, <3>4 DEF Silent
      <3> QED
        BY <1>3, <3>3, <3>4, <3>5
    <2>3. CASE Replied(q) \/ Silent(q)
      BY <1>3, <1>7, <1>8, <1>10, <2>1, <2>3 DEF Replied, Silent, Sent
    <2> QED
      BY <2>1, <2>2, <2>3
  <1>11. CallsUnderWay'
    <2> SUFFICES ASSUME NEW q \in Clients
                 PROVE  (IF cpc[q] = "waiting" THEN Sent(q) \/ Replied(q) ELSE Silent(q))'
      BY DEF CallsUnderWay
    <2>1. CASE q = p
      BY <1>1, <1>3, <1>9, <2>1
    <2> QED
      BY <1>10, <2>1
  <1>12. RequestsFit'
    <2> SUFFICES ASSUME NEW g \in Queues, NEW n \in Mail(queue'[g]), n.kind \in Requests
                 PROVE  n.client \in Clients /\ n.kind = KindOf(n.client)
      BY <1>3 DEF RequestsFit, Queues, Requests, KindOf
    <2>1. n \in Mail(queue[g])
      BY <1>1, <1>2, <1>3, RequestMailTaken
    <2> QED
      BY <2>1 DEF CallInv, RequestsFit
  <1>13. AnswersFit'
    <2> SUFFICES ASSUME NEW q \in Clients
                 PROVE  /\ \A u \in 1..MaxObjects : \A n \in Mail(inbox'[q][u]) :
                              n.kind # "exit" => n.kind = KindOf(q)
                        /\ cpc[q] = "answered" => answer[q].kind = KindOf(q)
      BY <1>3 DEF AnswersFit, KindOf
    <2>1. \A u \in 1..MaxObjects : /\ Mail(inbox'[q][u]) \subseteq Mail(inbox[q][u]) \union {m}
                                   /\ q # p => Mail(inbox'[q][u]) \subseteq Mail(inbox[q][u])
      BY <1>1, <1>2, <1>4, <1>5, AnswerMailSent
    <2> QED
      BY <1>1, <2>1 DEF CallInv, AnswersFit
  <1> QED
    BY <1>4, <1>5, <1>6, <1>8, <1>9, <1>10, <1>11, <1>12, <1>13

-----------------------------------------------------------------------------
(* The slots the server has granted. *)

(* Clients whose request for a slot has not been handled. *)
Subscribing == {p \in Clients : why[p] = "subscribe" /\ RequestsOf(p) # {}}

(* Each call takes one slot at most, from the table and from the pool of    *)
(* the server that runs.                                                   *)
SlotsCounted ==
    /\ IsFiniteSet(Subscribing) /\ IsFiniteSet(active) /\ IsFiniteSet(rented)
    /\ Cardinality(active) + Cardinality(Subscribing) <= calls
    /\ Cardinality(rented) + Cardinality(Subscribing) <= calls

(* What a client object still uses of its topic. *)
TopicInUse(p) ==
    /\ rest[p] # <<>> \/ openSlots[p] # <<>> \/ cursors[p] # {} => topicOf[p] # 0
    /\ cpc[p] \in {"waiting", "answered"} /\ why[p] \in {"close", "destroy"} => topicOf[p] # 0
    /\ rpc[p] = "ack" => topicOf[p] # 0 \/ cpc[p] = "joining"
    /\ why[p] \in {"hello", "subscribe", "close", "destroy"}

(* The cursors of a client object are on the memory it has, and are not     *)
(* used any more once it is being destroyed.                               *)
CursorsInUse(p) ==
    /\ \A k \in cursors[p] : k.memory = topicOf[p]
    /\ cpc[p] \in {"destroying", "joining", "crashed", "none"} => cursors[p] = {}
    /\ cpc[p] \in {"waiting", "answered"} /\ why[p] = "destroy" => cursors[p] = {}
    /\ cpc[p] \in {"joining", "crashed"} => rest[p] = <<>>

UseInv ==
    /\ CallInv
    /\ SlotsCounted
    /\ \A p \in Clients : TopicInUse(p) /\ CursorsInUse(p)

LEMMA CountsKept ==
    ASSUME SlotsCounted, calls \in Nat, calls' = calls, Subscribing' \subseteq Subscribing,
           active' \subseteq active, rented' \subseteq rented \/ rented' \subseteq active
    PROVE  SlotsCounted'
  <1>1. /\ IsFiniteSet(Subscribing') /\ IsFiniteSet(active') /\ IsFiniteSet(rented')
        /\ Cardinality(Subscribing') <= Cardinality(Subscribing)
        /\ Cardinality(active') <= Cardinality(active)
        /\ \/ Cardinality(rented') <= Cardinality(rented)
           \/ Cardinality(rented') <= Cardinality(active)
    BY FS_Subset DEF SlotsCounted
  <1>2. /\ Cardinality(Subscribing) \in Nat /\ Cardinality(active) \in Nat
        /\ Cardinality(rented) \in Nat
        /\ Cardinality(Subscribing') \in Nat /\ Cardinality(active') \in Nat
        /\ Cardinality(rented') \in Nat
    BY <1>1, FS_CardinalityType DEF SlotsCounted
  <1> QED
    BY <1>1, <1>2 DEF SlotsCounted

LEMMA CountsCall ==
    ASSUME SlotsCounted, calls \in Nat, calls' = calls + 1, NEW p,
           Subscribing' \subseteq Subscribing \union {p}, UNCHANGED <<active, rented>>
    PROVE  SlotsCounted'
  <1>0. ASSUME NEW A, IsFiniteSet(A)
        PROVE  /\ IsFiniteSet(A \union {p})
               /\ Cardinality(A \union {p}) <= Cardinality(A) + 1
               /\ Cardinality(A) \in Nat /\ Cardinality(A \union {p}) \in Nat
    BY <1>0, FS_AddElement, FS_CardinalityType
  <1>1. /\ IsFiniteSet(Subscribing \union {p})
        /\ Cardinality(Subscribing \union {p}) <= Cardinality(Subscribing) + 1
        /\ Cardinality(Subscribing) \in Nat /\ Cardinality(Subscribing \union {p}) \in Nat
    BY <1>0 DEF SlotsCounted
  <1>2. /\ IsFiniteSet(Subscribing') /\ Cardinality(Subscribing') \in Nat
        /\ Cardinality(Subscribing') <= Cardinality(Subscribing \union {p})
    BY <1>1, FS_Subset, FS_CardinalityType
  <1>3. Cardinality(active) \in Nat /\ Cardinality(rented) \in Nat
    BY FS_CardinalityType DEF SlotsCounted
  <1> QED
    BY <1>1, <1>2, <1>3 DEF SlotsCounted

LEMMA CountsGrant ==
    ASSUME SlotsCounted, calls \in Nat, calls' = calls, NEW p \in Subscribing,
           Subscribing' \subseteq Subscribing \ {p}, NEW i,
           active' \subseteq active \union {i}, rented' \subseteq rented \union {i}
    PROVE  SlotsCounted'
  <1>1. /\ IsFiniteSet(Subscribing \ {p})
        /\ Cardinality(Subscribing \ {p}) = Cardinality(Subscribing) - 1
    BY FS_RemoveElement DEF SlotsCounted
  <1>2. /\ IsFiniteSet(Subscribing') /\ Cardinality(Subscribing') \in Nat
        /\ Cardinality(Subscribing') <= Cardinality(Subscribing \ {p})
    BY <1>1, FS_Subset, FS_CardinalityType
  <1>3. ASSUME NEW A, NEW B, IsFiniteSet(A), B \subseteq A \union {i}
        PROVE  /\ IsFiniteSet(B) /\ Cardinality(B) \in Nat /\ Cardinality(A) \in Nat
               /\ Cardinality(B) <= Cardinality(A) + 1
    <2>1. /\ IsFiniteSet(A \union {i}) /\ Cardinality(A) \in Nat
          /\ Cardinality(A \union {i}) <= Cardinality(A) + 1
      BY <1>3, FS_AddElement, FS_CardinalityType
    <2>2. /\ IsFiniteSet(B) /\ Cardinality(B) \in Nat /\ Cardinality(A \union {i}) \in Nat
          /\ Cardinality(B) <= Cardinality(A \union {i})
      BY <1>3, <2>1, FS_Subset, FS_CardinalityType
    <2> QED
      BY <2>1, <2>2
  <1>4. /\ IsFiniteSet(active') /\ Cardinality(active') \in Nat /\ Cardinality(active) \in Nat
        /\ Cardinality(active') <= Cardinality(active) + 1
    BY <1>3 DEF SlotsCounted
  <1>5. /\ IsFiniteSet(rented') /\ Cardinality(rented') \in Nat /\ Cardinality(rented) \in Nat
        /\ Cardinality(rented') <= Cardinality(rented) + 1
    BY <1>3 DEF SlotsCounted
  <1>6. Cardinality(Subscribing) \in Nat
    BY FS_CardinalityType DEF SlotsCounted
  <1> QED
    BY <1>1, <1>2, <1>4, <1>5, <1>6 DEF SlotsCounted

(* A call that is not handled yet has a slot left for it. *)
LEMMA SlotLeft ==
    ASSUME SlotsCounted, calls \in 0..MaxRequests, Subscribing # {}
    PROVE  Slots \ rented # {}
  <1>1. PICK p : p \in Subscribing
    OBVIOUS
  <1>2. IsFiniteSet(Subscribing) /\ Cardinality(Subscribing) \in Nat /\ Cardinality(Subscribing) # 0
    BY FS_CardinalityType, FS_EmptySet DEF SlotsCounted
  <1>3. Cardinality(rented) \in Nat /\ Cardinality(rented) < NumSlots
    BY <1>2, ChannelAssumption, FS_CardinalityType DEF SlotsCounted
  <1>4. Cardinality(Slots) = NumSlots
    <2>1. 0 \in Int /\ NumSlots - 1 \in Int /\ NumSlots \in Nat /\ NumSlots > 0
      BY ChannelAssumption
    <2>2. Cardinality(0..(NumSlots - 1)) = IF 0 > NumSlots - 1 THEN 0 ELSE (NumSlots - 1) - 0 + 1
      BY <2>1, FS_Interval
    <2> QED
      BY <2>1, <2>2 DEF Slots
  <1>5. ASSUME Slots \subseteq rented PROVE FALSE
    <2>1. Cardinality(Slots) <= Cardinality(rented)
      BY <1>5, FS_Subset DEF SlotsCounted
    <2> QED
      BY <1>3, <1>4, <2>1, ChannelAssumption
  <1> QED
    BY <1>5

(* The pool gives the least free id. *)
LEMMA LeastFree ==
    ASSUME NEW free \in SUBSET Slots, free # {}
    PROVE  (CHOOSE i \in free : \A j \in free : i <= j) \in free
  <1> DEFINE R == OpToRel(<, Nat)
  <1>1. free \subseteq Nat
    BY ChannelAssumption DEF Slots
  <1>2. IsWellFoundedOn(R, Nat)
    BY NatLessThanWellFounded
  <1> HIDE DEF R
  <1>3. PICK i \in free : \A j \in free : ~(<<j, i>> \in R)
    BY <1>1, <1>2, WFMin
  <1>4. \A j \in free : j < i => <<j, i>> \in R
    BY <1>1 DEF R, OpToRel
  <1>5. \A j \in free : i <= j
    <2>1. \A j \in free : ~(j < i)
      BY <1>3, <1>4
    <2> QED
      BY <1>1, <2>1
  <1>6. \E k \in free : \A j \in free : k <= j
    BY <1>5
  <1> QED
    BY <1>6, Zenon

(* Each action of a client keeps the invariant of calls and the count.      *)
LEMMA ClientCalls ==
    ASSUME UseInv, NEW p \in Clients, Client(p)
    PROVE  CallInv' /\ SlotsCounted'
  <1> USE DEF UseInv
  <1>1. NamesInv' /\ srv' = srv /\ srv # "died" /\ UNCHANGED <<active, rented>>
    <2>1. NamesInv'
      BY NamesClientStep DEF CallInv
    <2>2. UNCHANGED <<srv, active, rented>>
      BY DEF Client, NewClient, Connect, Subscribe, CloseCursor, Destroy, UnsubscribeNext,
             EraseTopic, RemoveQueue, FinishConnect, FinishSubscribe, FinishClose,
             FinishUnsubscribe, ReceiveAnswer, AckUnsubscribed, Request, tableVars, serverVars
    <2> QED
      BY <2>1, <2>2 DEF CallInv
  <1>2. calls \in Nat /\ DOMAIN why = Clients /\ DOMAIN cpc = Clients /\ DOMAIN answer = Clients
        /\ DOMAIN objects = Clients /\ DOMAIN handle = Clients
    BY ChannelAssumption DEF CallInv, NamesInv, ClientNames, ClientDomains
  <1>3. CASE Connect(p) \/ Subscribe(p)
    <2>1. PICK w \in {"hello", "subscribe"} :
              cpc[p] = "idle" /\ Request(p, w, 0) /\ why' = [why EXCEPT ![p] = w]
              /\ calls' = calls + 1
      BY <1>3 DEF Connect, Subscribe
    <2>2. /\ ServerQueuesOk' /\ InboxesOk' /\ CallsUnderWay' /\ RequestsFit' /\ AnswersFit'
          /\ \A q \in Clients : q # p => RequestsOf(q)' = RequestsOf(q)
      BY <2>1, CallsRequested DEF Requests
    <2>3. Subscribing' \subseteq Subscribing \union {p}
      BY <1>2, <2>1, <2>2 DEF Subscribing
    <2>4. SlotsCounted'
      BY <1>1, <1>2, <2>1, <2>3, CountsCall
    <2> QED
      BY <1>1, <2>2, <2>4 DEF CallInv
  <1>4. CASE CloseCursor(p) \/ UnsubscribeNext(p)
    <2>1. PICK w, i :
              /\ w \in {"close", "destroy"}
              /\ cpc[p] \in {"idle", "destroying"}
              /\ Request(p, "unsubscribe", i) /\ why' = [why EXCEPT ![p] = w] /\ calls' = calls
      BY <1>4 DEF CloseCursor, UnsubscribeNext
    <2>2. /\ ServerQueuesOk' /\ InboxesOk' /\ CallsUnderWay' /\ RequestsFit' /\ AnswersFit'
          /\ \A q \in Clients : q # p => RequestsOf(q)' = RequestsOf(q)
      BY <2>1, CallsRequested DEF Requests
    <2>3. Subscribing' \subseteq Subscribing
      BY <1>2, <2>1, <2>2 DEF Subscribing
    <2>4. SlotsCounted'
      BY <1>1, <1>2, <2>1, <2>3, CountsKept
    <2> QED
      BY <1>1, <2>2, <2>4 DEF CallInv
  <1>5. CASE EraseTopic(p) \/ ReceiveAnswer(p)
    <2>1. /\ ServerQueuesOk' /\ InboxesOk' /\ CallsUnderWay' /\ RequestsFit' /\ AnswersFit'
          /\ \A q \in Clients : RequestsOf(q)' = RequestsOf(q)
      <3>1. CASE EraseTopic(p)
        BY <3>1, CallsEnded
      <3>2. CASE ReceiveAnswer(p)
        BY <3>2, CallsAnswered
      <3> QED
        BY <1>5, <3>1, <3>2
    <2>2. why' = why /\ calls' = calls
      BY <1>5 DEF EraseTopic, ReceiveAnswer
    <2>3. Subscribing' \subseteq Subscribing
      BY <2>1, <2>2 DEF Subscribing
    <2>4. SlotsCounted'
      BY <1>1, <1>2, <2>2, <2>3, CountsKept
    <2> QED
      BY <1>1, <2>1, <2>4 DEF CallInv
  <1>6. CASE \/ NewClient(p) \/ Destroy(p) \/ RemoveQueue(p)
             \/ FinishConnect(p) \/ FinishSubscribe(p) \/ FinishClose(p) \/ FinishUnsubscribe(p)
             \/ AckUnsubscribed(p)
    <2>1. UNCHANGED <<queue, inbox, why, calls>>
      BY <1>6 DEF NewClient, Destroy, RemoveQueue, FinishConnect, FinishSubscribe, FinishClose,
                  FinishUnsubscribe, AckUnsubscribed, namedVars
    <2>2. /\ \/ cpc[p] # "waiting" /\ \E x : /\ x \notin {"waiting", "answered"}
                                             /\ cpc' = [cpc EXCEPT ![p] = x]
             \/ cpc' = cpc /\ UNCHANGED <<objects, handle, answer>>
          /\ \A q \in Clients : q # p => /\ objects'[q] = objects[q] /\ handle'[q] = handle[q]
                                         /\ answer'[q] = answer[q]
      <3>1. CASE AckUnsubscribed(p)
        BY <1>2, <3>1 DEF AckUnsubscribed, TopicInUse
      <3>2. CASE NewClient(p)
        BY <1>2, <3>2 DEF NewClient
      <3>3. CASE \/ Destroy(p) \/ RemoveQueue(p) \/ FinishConnect(p) \/ FinishSubscribe(p)
                 \/ FinishClose(p) \/ FinishUnsubscribe(p)
        BY <1>2, <3>3 DEF Destroy, RemoveQueue, FinishConnect, FinishSubscribe, FinishClose,
                          FinishUnsubscribe, Continue
      <3> QED
        BY <1>6, <3>1, <3>2, <3>3
    <2>3. \A q \in Clients :
              /\ cpc[q] = "waiting" <=> cpc'[q] = "waiting"
              /\ cpc[q] = "waiting" => objects'[q] = objects[q] /\ handle'[q] = handle[q]
              /\ cpc'[q] = "answered" => cpc[q] = "answered" /\ answer'[q] = answer[q]
      BY <1>2, <2>2
    <2>4. /\ ServerQueuesOk' /\ InboxesOk' /\ CallsUnderWay' /\ RequestsFit' /\ AnswersFit'
          /\ \A q \in Clients : RequestsOf(q)' = RequestsOf(q)
      BY <2>1, <2>3, CallsKept
    <2>5. Subscribing' \subseteq Subscribing
      BY <2>1, <2>4 DEF Subscribing
    <2>6. SlotsCounted'
      BY <1>1, <1>2, <2>1, <2>5, CountsKept
    <2> QED
      BY <1>1, <2>4, <2>6 DEF CallInv
  <1> QED
    BY <1>3, <1>4, <1>5, <1>6 DEF Client

(* What the server does with a request for a slot: a topic it knows has one *)
(* for it.                                                                 *)
LEMMA SlotGranted ==
    ASSUME UseInv, OnSubscribe, NEW p, p = Message.client
    PROVE  /\ p \in Subscribing
           /\ \/ /\ ~known
                 /\ Answer(p, [kind |-> "subscribe", slot |-> 0, granted |-> FALSE])
                 /\ UNCHANGED <<sems, tableVars>>
              \/ /\ known
                 /\ \E i \in Slots \ rented :
                        /\ Answer(p, [kind |-> "subscribe", slot |-> i, granted |-> TRUE])
                        /\ owner' = [owner EXCEPT ![i] = p]
                        /\ active' = active \union {i}
                        /\ pending' = pending \ {i}
                        /\ bag' = bag \union {i} /\ rented' = rented \union {i}
                        /\ sems' = sems \union {<<p, i>>}
  <1> USE DEF UseInv
  <1>1. Receive("subscribe")
    BY DEF OnSubscribe
  <1>2. p \in Clients /\ Sent(p) /\ "subscribe" = KindOf(p)
    BY <1>1, ClientFound DEF Requests
  <1>3. why[p] = "subscribe"
    BY <1>2 DEF KindOf
  <1>4. RequestsOf(p) # {}
    BY <1>2 DEF Sent
  <1>5. p \in Subscribing
    BY <1>2, <1>3, <1>4 DEF Subscribing
  <1>6. calls \in 0..MaxRequests
    BY DEF CallInv, NamesInv, ClientNames
  <1>7. Slots \ rented # {}
    BY <1>5, <1>6, SlotLeft
  <1>8. PICK i : i = CHOOSE k \in Slots \ rented : \A j \in Slots \ rented : k <= j
    OBVIOUS
  <1>9. i \in Slots \ rented
    BY <1>7, <1>8, LeastFree
  <1>10. CASE known
    <2>1. /\ Answer(p, [kind |-> "subscribe", slot |-> i, granted |-> TRUE])
          /\ owner' = [owner EXCEPT ![i] = p]
          /\ active' = active \union {i}
          /\ pending' = pending \ {i}
          /\ bag' = bag \union {i} /\ rented' = rented \union {i}
          /\ sems' = sems \union {<<p, i>>}
      BY <1>7, <1>8, <1>10 DEF OnSubscribe
    <2> QED
      BY <1>5, <1>9, <1>10, <2>1
  <1>11. CASE ~known
    <2>1. /\ Answer(p, [kind |-> "subscribe", slot |-> 0, granted |-> FALSE])
          /\ UNCHANGED <<sems, tableVars>>
      BY <1>11 DEF OnSubscribe
    <2> QED
      BY <1>5, <1>11, <2>1
  <1> QED
    BY <1>10, <1>11

(* Each action of the server keeps the invariant of calls and the count.    *)
LEMMA ServerCalls ==
    ASSUME UseInv, Server
    PROVE  CallInv' /\ SlotsCounted'
  <1> USE DEF UseInv
  <1>1. NamesInv' /\ srv # "died" /\ calls \in Nat
    BY ChannelAssumption, NamesServerStep DEF CallInv, NamesInv, ClientNames
  <1>2. calls' = calls /\ why' = why
    BY DEF Server, StartServer, CreateTopic, RemoveTopic, StopServer, Command, FinishStop,
           NotifyAll, OnExit, OnCreateTopic, OnRemoveTopic, OnHello, OnSubscribe, OnUnsubscribe,
           Receive, clientVars
  <1>3. CASE StartServer \/ FinishStop \/ NotifyAll
    <2>1. UNCHANGED <<queue, inbox, clientVars>> /\ srv' # "died"
      BY <1>1, <1>3 DEF StartServer, FinishStop, NotifyAll, serverVars
    <2>2. /\ ServerQueuesOk' /\ InboxesOk' /\ CallsUnderWay' /\ RequestsFit' /\ AnswersFit'
          /\ \A q \in Clients : RequestsOf(q)' = RequestsOf(q)
      BY <2>1, CallsKept DEF clientVars
    <2>3. active' \subseteq active /\ rented' \subseteq rented
      BY <1>3 DEF StartServer, FinishStop, NotifyAll, DeleteTopic, tableVars
    <2>4. SlotsCounted'
      BY <1>1, <1>2, <2>2, <2>3, CountsKept DEF Subscribing
    <2> QED
      BY <1>1, <2>1, <2>2, <2>4 DEF CallInv
  <1>4. CASE CreateTopic \/ RemoveTopic \/ StopServer
    <2>1. PICK kind, next :
              kind \in {"create", "remove", "exit"} /\ Command(kind, next)
      BY <1>4 DEF CreateTopic, RemoveTopic, StopServer
    <2>2. srv' = srv /\ UNCHANGED <<active, rented>>
      BY <2>1 DEF Command, tableVars
    <2>3. /\ ServerQueuesOk' /\ InboxesOk' /\ CallsUnderWay' /\ RequestsFit' /\ AnswersFit'
          /\ \A q \in Clients : RequestsOf(q)' = RequestsOf(q)
      BY <2>1, CallsCommanded DEF Requests
    <2>4. SlotsCounted'
      BY <1>1, <1>2, <2>2, <2>3, CountsKept DEF Subscribing
    <2> QED
      BY <1>1, <2>2, <2>3, <2>4 DEF CallInv
  <1>5. CASE OnExit \/ OnCreateTopic \/ OnRemoveTopic
    <2>1. PICK kind \in {"create", "remove", "exit"} : Receive(kind)
      BY <1>5 DEF OnExit, OnCreateTopic, OnRemoveTopic
    <2>2. srv' = srv /\ inbox' = inbox
      BY <1>5 DEF OnExit, OnCreateTopic, OnRemoveTopic
    <2>3. active' \subseteq active /\ (rented' \subseteq rented \/ rented' \subseteq active)
      BY <1>5 DEF OnExit, OnCreateTopic, OnRemoveTopic, DeleteTopic, tableVars
    <2>4. /\ ServerQueuesOk' /\ InboxesOk' /\ CallsUnderWay' /\ RequestsFit' /\ AnswersFit'
          /\ \A q \in Clients : RequestsOf(q) = {} <=> RequestsOf(q)' = {}
      BY <2>1, <2>2, CallsUntouched DEF Requests
    <2>5. SlotsCounted'
      BY <1>1, <1>2, <2>3, <2>4, CountsKept DEF Subscribing
    <2> QED
      BY <1>1, <2>2, <2>4, <2>5 DEF CallInv
  <1>6. CASE OnHello \/ OnSubscribe \/ OnUnsubscribe
    <2>1. PICK p : p = Message.client
      OBVIOUS
    <2>2. PICK kind, m :
              kind \in Requests /\ Receive(kind) /\ m.kind = kind /\ Answer(p, m)
      <3>1. CASE OnHello
        BY <2>1, <3>1 DEF OnHello, Requests
      <3>2. CASE OnSubscribe
        <4>1. Receive("subscribe")
          BY <3>2 DEF OnSubscribe
        <4>2. \E m : m.kind = "subscribe" /\ Answer(p, m)
          BY <2>1, <3>2, SlotGranted
        <4> QED
          BY <4>1, <4>2 DEF Requests
      <3>3. CASE OnUnsubscribe
        BY <2>1, <3>3 DEF OnUnsubscribe, Requests
      <3> QED
        BY <1>6, <3>1, <3>2, <3>3
    <2>3. /\ ServerQueuesOk' /\ InboxesOk' /\ CallsUnderWay' /\ RequestsFit' /\ AnswersFit'
          /\ srv' = srv
          /\ RequestsOf(p)' = {}
          /\ \A q \in Clients : q # p => (RequestsOf(q) = {} <=> RequestsOf(q)' = {})
      BY <2>1, <2>2, CallsServed
    <2>4. Subscribing' \subseteq Subscribing \ {p}
      BY <1>2, <2>3 DEF Subscribing
    <2>5. SlotsCounted'
      <3>1. CASE OnHello \/ OnUnsubscribe
        <4>1. UNCHANGED <<active, rented>>
          BY <3>1 DEF OnHello, OnUnsubscribe, tableVars
        <4> QED
          BY <1>1, <1>2, <2>4, <4>1, CountsKept
      <3>2. CASE OnSubscribe
        <4>1. /\ p \in Subscribing
              /\ \E i : active' \subseteq active \union {i} /\ rented' \subseteq rented \union {i}
          BY <2>1, <3>2, SlotGranted DEF tableVars
        <4>2. PICK i : active' \subseteq active \union {i} /\ rented' \subseteq rented \union {i}
          BY <4>1
        <4> QED
          BY <1>1, <1>2, <2>4, <4>1, <4>2, CountsGrant
      <3> QED
        BY <1>6, <3>1, <3>2
    <2> QED
      BY <1>1, <2>3, <2>5 DEF CallInv
  <1> QED
    BY <1>3, <1>4, <1>5, <1>6 DEF Server

(* An answer is received by a client that waits for one of its kind.        *)
LEMMA AnswerExpected ==
    ASSUME CallInv, NEW p \in Clients, ReceiveAnswer(p), NEW m, m = Head(inbox[p][objects[p]]),
           m.kind # "exit"
    PROVE  /\ cpc[p] = "waiting" /\ m.kind = KindOf(p)
           /\ objects[p] \in 1..MaxObjects /\ m \in Mail(inbox[p][objects[p]])
  <1>1. objects[p] \in 1..MaxObjects /\ InboxesOk
    BY ChannelAssumption DEF ReceiveAnswer, CallInv, NamesInv, ClientNames
  <1>2. inbox[p][objects[p]] # <<>> /\ inbox' = [inbox EXCEPT ![p][objects[p]] = Tail(@)]
    BY DEF ReceiveAnswer
  <1>3. m \in Mail(inbox[p][objects[p]])
    BY <1>1, <1>2, AnswerMailTaken
  <1>4. AnswersOf(p) # {}
    BY <1>1, <1>3, AnswerMail
  <1>5. cpc[p] = "waiting"
    BY <1>4 DEF CallInv, CallsUnderWay, Silent
  <1> QED
    BY <1>1, <1>3, <1>5 DEF CallInv, AnswersFit

LEMMA UseInit == Init => UseInv
  <1> SUFFICES ASSUME Init PROVE UseInv
    OBVIOUS
  <1>1. Subscribing = {}
    BY DEF Init, Subscribing
  <1>2. calls = 0 /\ active = {} /\ rented = {}
    BY DEF Init
  <1>3. SlotsCounted
    BY <1>1, <1>2, FS_EmptySet DEF SlotsCounted
  <1>4. \A p \in Clients : TopicInUse(p) /\ CursorsInUse(p)
    BY DEF Init, TopicInUse, CursorsInUse
  <1> QED
    BY <1>3, <1>4, CallInit DEF UseInv

(* What is a client's own, other clients leave alone. *)
LEMMA OwnState ==
    ASSUME CallInv, NEW p \in Clients, Client(p), NEW q \in Clients, q # p
    PROVE  /\ rest'[q] = rest[q] /\ openSlots'[q] = openSlots[q] /\ cursors'[q] = cursors[q]
           /\ topicOf'[q] = topicOf[q] /\ cpc'[q] = cpc[q] /\ why'[q] = why[q]
           /\ rpc'[q] = rpc[q] /\ answer'[q] = answer[q]
  <1>1. ClientDomains
    BY DEF CallInv, NamesInv
  <1>2. CASE \/ NewClient(p) \/ Connect(p) \/ Subscribe(p) \/ CloseCursor(p) \/ Destroy(p)
             \/ UnsubscribeNext(p) \/ EraseTopic(p) \/ RemoveQueue(p)
    <2>1. CASE NewClient(p) \/ Destroy(p) \/ EraseTopic(p) \/ RemoveQueue(p)
      BY <1>1, <2>1 DEF NewClient, Destroy, EraseTopic, RemoveQueue, ClientDomains
    <2>2. CASE Connect(p) \/ Subscribe(p) \/ CloseCursor(p) \/ UnsubscribeNext(p)
      BY <1>1, <2>2 DEF Connect, Subscribe, CloseCursor, UnsubscribeNext, Request, ClientDomains
    <2> QED
      BY <1>2, <2>1, <2>2
  <1>3. CASE \/ FinishConnect(p) \/ FinishSubscribe(p) \/ FinishClose(p) \/ FinishUnsubscribe(p)
             \/ ReceiveAnswer(p) \/ AckUnsubscribed(p)
    BY <1>1, <1>3 DEF FinishConnect, FinishSubscribe, FinishClose, FinishUnsubscribe, Continue,
                      ReceiveAnswer, AckUnsubscribed, ClientDomains
  <1> QED
    BY <1>2, <1>3 DEF Client

(* Each action of a client keeps what it uses of its topic. *)
LEMMA UseKept ==
    ASSUME UseInv, NEW p \in Clients, Client(p)
    PROVE  TopicInUse(p)' /\ CursorsInUse(p)'
  <1>1. TopicInUse(p) /\ CursorsInUse(p) /\ ClientDomains /\ CallInv
    BY DEF UseInv, CallInv, NamesInv
  <1>2. CASE NewClient(p) \/ Connect(p) \/ Subscribe(p)
    <2>1. CASE NewClient(p)
      BY <1>1, <2>1 DEF NewClient, TopicInUse, CursorsInUse, ClientDomains
    <2>2. CASE Connect(p) \/ Subscribe(p)
      BY <1>1, <2>2 DEF Connect, Subscribe, Request, TopicInUse, CursorsInUse, ClientDomains
    <2> QED
      BY <1>2, <2>1, <2>2
  <1>3. CASE CloseCursor(p)
    <2>1. PICK k \in cursors[p] :
              /\ cursors' = [cursors EXCEPT ![p] = @ \ {k}]
              /\ cpc[p] = "idle" /\ cpc' = [cpc EXCEPT ![p] = "waiting"]
              /\ why' = [why EXCEPT ![p] = "close"]
              /\ UNCHANGED <<topicOf, rpc>>
      BY <1>3 DEF CloseCursor, Request
    <2>2. topicOf[p] # 0
      BY <1>1 DEF TopicInUse
    <2> QED
      BY <1>1, <2>1, <2>2 DEF TopicInUse, CursorsInUse, ClientDomains
  <1>4. CASE Destroy(p) \/ EraseTopic(p) \/ RemoveQueue(p)
    BY <1>1, <1>4 DEF Destroy, EraseTopic, RemoveQueue, TopicInUse, CursorsInUse, ClientDomains
  <1>5. CASE UnsubscribeNext(p)
    <2>1. topicOf[p] # 0 /\ cursors[p] = {}
      BY <1>1, <1>5 DEF UnsubscribeNext, TopicInUse, CursorsInUse
    <2> QED
      BY <1>1, <1>5, <2>1 DEF UnsubscribeNext, Request, TopicInUse, CursorsInUse, ClientDomains
  <1>6. CASE FinishConnect(p) \/ FinishClose(p) \/ FinishUnsubscribe(p) \/ AckUnsubscribed(p)
    BY <1>1, <1>6 DEF FinishConnect, FinishClose, FinishUnsubscribe, AckUnsubscribed, Continue,
                      TopicInUse, CursorsInUse, ClientDomains
  <1>7. CASE FinishSubscribe(p)
    <2> DEFINE memory == IF topicOf[p] = 0 THEN shm ELSE topicOf[p]
    <2>1. /\ cpc[p] = "answered" /\ cpc' = [cpc EXCEPT ![p] = "idle"]
          /\ topicOf' = [topicOf EXCEPT ![p] = memory]
          /\ UNCHANGED <<why, rpc, rest>>
      BY <1>7 DEF FinishSubscribe, Continue
    <2> DEFINE opens == memory # 0 /\ <<p, answer[p].slot>> \in sems
               k == [id |-> calls, slot |-> answer[p].slot, memory |-> memory]
    <2>2. /\ opens => cursors'[p] = cursors[p] \union {k}
          /\ ~opens => cursors'[p] = cursors[p] /\ openSlots'[p] = openSlots[p]
      BY <1>1, <1>7 DEF FinishSubscribe, ClientDomains
    <2>3. topicOf[p] # 0 => memory = topicOf[p]
      OBVIOUS
    <2>4. topicOf'[p] = memory /\ cpc'[p] = "idle" /\ rest'[p] = rest[p] /\ why'[p] = why[p]
          /\ rpc'[p] = rpc[p]
      BY <1>1, <2>1 DEF ClientDomains
    <2>5. k.memory = memory /\ (opens => memory # 0)
      OBVIOUS
    <2> HIDE DEF memory, k, opens
    <2> QED
      BY <1>1, <2>1, <2>2, <2>3, <2>4, <2>5 DEF TopicInUse, CursorsInUse
  <1>8. CASE ReceiveAnswer(p)
    <2>1. PICK m : m = Head(inbox[p][objects[p]])
      OBVIOUS
    <2>2. CASE m.kind = "exit"
      BY <1>1, <1>8, <2>1, <2>2 DEF ReceiveAnswer, TopicInUse, CursorsInUse, ClientDomains
    <2>3. CASE m.kind # "exit"
      <3>1. cpc[p] = "waiting" /\ m.kind = KindOf(p)
        BY <1>1, <1>8, <2>1, <2>3, AnswerExpected
      <3>2. /\ cpc'[p] = "answered"
            /\ m.kind # "unsubscribe" => rpc'[p] = rpc[p]
            /\ UNCHANGED <<why, topicOf, cursors, openSlots, rest>>
        BY <1>1, <1>8, <2>1, <2>3 DEF ReceiveAnswer, ClientDomains
      <3>3. m.kind = "unsubscribe" => topicOf[p] # 0
        BY <1>1, <3>1 DEF KindOf, TopicInUse
      <3> QED
        BY <1>1, <3>1, <3>2, <3>3 DEF TopicInUse, CursorsInUse
    <2> QED
      BY <2>2, <2>3
  <1> QED
    BY <1>2, <1>3, <1>4, <1>5, <1>6, <1>7, <1>8 DEF Client

LEMMA UseStep == UseInv /\ [Next]_vars => UseInv'
  <1> SUFFICES ASSUME UseInv, [Next]_vars PROVE UseInv'
    OBVIOUS
  <1>1. CASE UNCHANGED vars
    <2>1. UNCHANGED <<queue, inbox, why, cpc, objects, handle, answer, calls, active, rented, srv>>
      BY <1>1 DEF vars, namedVars, tableVars, serverVars, clientVars
    <2>2. NamesInv'
      BY <1>1, NamesStep DEF UseInv, CallInv
    <2>3. /\ ServerQueuesOk' /\ InboxesOk' /\ CallsUnderWay' /\ RequestsFit' /\ AnswersFit'
          /\ \A q \in Clients : RequestsOf(q)' = RequestsOf(q)
      BY <2>1, CallsKept DEF UseInv
    <2>4. SlotsCounted'
      BY <2>1, <2>3 DEF UseInv, SlotsCounted, Subscribing
    <2>5. \A p \in Clients : TopicInUse(p)' /\ CursorsInUse(p)'
      BY <1>1 DEF vars, clientVars, UseInv, TopicInUse, CursorsInUse
    <2> QED
      BY <2>1, <2>2, <2>3, <2>4, <2>5 DEF UseInv, CallInv
  <1>2. CASE Server
    <2>1. clientVars' = clientVars
      BY <1>2 DEF Server, StartServer, CreateTopic, RemoveTopic, StopServer, Command, FinishStop,
             NotifyAll, OnExit, OnCreateTopic, OnRemoveTopic, OnHello, OnSubscribe, OnUnsubscribe,
             Receive
    <2>2. \A p \in Clients : TopicInUse(p)' /\ CursorsInUse(p)'
      BY <2>1 DEF clientVars, UseInv, TopicInUse, CursorsInUse
    <2> QED
      BY <1>2, <2>2, ServerCalls DEF UseInv
  <1>3. ASSUME NEW p \in Clients, Client(p) PROVE UseInv'
    <2>1. CallInv' /\ SlotsCounted'
      BY <1>3, ClientCalls
    <2>2. ASSUME NEW q \in Clients PROVE TopicInUse(q)' /\ CursorsInUse(q)'
      <3>1. CASE q = p
        BY <1>3, <3>1, UseKept
      <3>2. CASE q # p
        BY <1>3, <3>2, OwnState DEF UseInv, TopicInUse, CursorsInUse
      <3> QED
        BY <3>1, <3>2
    <2> QED
      BY <2>1, <2>2 DEF UseInv
  <1> QED
    BY <1>1, <1>2, <1>3 DEF Next

-----------------------------------------------------------------------------
(* Subscriptions. *)

(* Slot i is p's for the server that runs, and for the next one. *)
Holds(p, i) ==
    /\ shm # 0 /\ owner[i] = p /\ i \in active \ pending
    /\ known => i \in bag /\ i \in rented

(* Cursors on memory that the topic has not got any more stay as they are.  *)
Current(p) == {k \in cursors[p] : k.memory = shm}

(* A slot that p was granted and has no cursor on yet. *)
Granted(p, i) == Holds(p, i) /\ \A k \in Current(p) : k.slot # i

CursorsHold(p) ==
    /\ \A k \in Current(p) : Holds(p, k.slot)
    /\ \A k, l \in Current(p) : k.slot = l.slot => k = l

GrantsHold(p) ==
    /\ \A o \in 1..MaxObjects : \A m \in Mail(inbox[p][o]) :
          m.kind = "subscribe" /\ m.granted => Granted(p, m.slot)
    /\ cpc[p] = "answered" /\ why[p] = "subscribe" /\ answer[p].granted
          => Granted(p, answer[p].slot)

(* A client unsubscribes a slot it has no cursor on any more. *)
LeavesOld(p) ==
    \A g \in Queues : \A m \in Mail(queue[g]) :
        m.kind = "unsubscribe" /\ m.client = p => \A k \in Current(p) : k.slot # m.slot

(* Memory objects are numbered in the order they are created in. *)
MemoryNumbered ==
    /\ shms \in Nat /\ shm \in 0..shms /\ \A p \in Clients : topicOf[p] \in 0..shms
    /\ known => shm # 0
    /\ DOMAIN owner = Slots

KeepInv ==
    /\ UseInv
    /\ MemoryNumbered
    /\ \A p \in Clients \ misled : CursorsHold(p) /\ GrantsHold(p) /\ LeavesOld(p)

LEMMA KeepInit == Init => KeepInv
  <1> SUFFICES ASSUME Init PROVE KeepInv
    OBVIOUS
  <1>1. UseInv
    BY UseInit
  <1>2. MemoryNumbered
    BY DEF Init, MemoryNumbered
  <1>3. \A g \in Queues : Mail(queue[g]) = {}
    BY EmptySequence DEF Init, Mail
  <1>4. \A p \in Clients : \A o \in 1..MaxObjects : Mail(inbox[p][o]) = {}
    BY EmptySequence DEF Init, Mail
  <1>5. \A p \in Clients : Current(p) = {} /\ cpc[p] # "answered"
    BY DEF Init, Current
  <1>6. \A p \in Clients : CursorsHold(p) /\ GrantsHold(p) /\ LeavesOld(p)
    BY <1>3, <1>4, <1>5 DEF CursorsHold, GrantsHold, LeavesOld
  <1> QED
    BY <1>1, <1>2, <1>6 DEF KeepInv

(* Steps that take no slot from the client and send no unsubscription of it. *)
LEMMA SlotsKept ==
    ASSUME NEW p \in Clients, CursorsHold(p), GrantsHold(p), LeavesOld(p),
           cursors'[p] = cursors[p], shm' = shm,
           \A i : Holds(p, i) => Holds(p, i)',
           \A o \in 1..MaxObjects : \A m \in Mail(inbox'[p][o]) :
               m.kind = "subscribe" /\ m.granted
                   => m \in Mail(inbox[p][o]) \/ Granted(p, m.slot)',
           cpc'[p] = "answered" /\ why'[p] = "subscribe" /\ answer'[p].granted
               => \/ cpc[p] = "answered" /\ why[p] = "subscribe" /\ answer'[p] = answer[p]
                  \/ Granted(p, answer'[p].slot),
           \A g \in Queues : \A m \in Mail(queue'[g]) :
               m.kind = "unsubscribe" /\ m.client = p => m \in Mail(queue[g])
    PROVE  CursorsHold(p)' /\ GrantsHold(p)' /\ LeavesOld(p)'
  <1>1. Current(p)' = Current(p)
    BY DEF Current
  <1>2. \A i : Granted(p, i) => Granted(p, i)'
    BY <1>1 DEF Granted
  <1>3. CursorsHold(p)'
    BY <1>1 DEF CursorsHold
  <1>4. GrantsHold(p)'
    BY <1>2 DEF GrantsHold
  <1>5. LeavesOld(p)'
    BY <1>1 DEF LeavesOld, Queues
  <1> QED
    BY <1>3, <1>4, <1>5

LEMMA HoldsKept ==
    ASSUME NEW p, UNCHANGED <<shm, tableVars, known>>
    PROVE  \A i : Holds(p, i)' = Holds(p, i)
  BY DEF Holds, tableVars

(* What the acting client does to another one. *)
LEMMA OthersKept ==
    ASSUME KeepInv, NEW p \in Clients, Client(p), NEW q \in Clients \ misled, q # p
    PROVE  CursorsHold(q)' /\ GrantsHold(q)' /\ LeavesOld(q)'
  <1>1. CursorsHold(q) /\ GrantsHold(q) /\ LeavesOld(q)
    BY DEF KeepInv
  <1>2. CallInv /\ ServerQueuesOk /\ InboxesOk
    BY DEF KeepInv, UseInv, CallInv
  <1>3. UNCHANGED <<shm, tableVars, known>>
    BY DEF Client, NewClient, Connect, Subscribe, CloseCursor, Destroy, UnsubscribeNext,
           EraseTopic, RemoveQueue, FinishConnect, FinishSubscribe, FinishClose,
           FinishUnsubscribe, ReceiveAnswer, AckUnsubscribed, Request, serverVars, namedVars
  <1>4. /\ cursors'[q] = cursors[q] /\ cpc'[q] = cpc[q] /\ why'[q] = why[q]
        /\ answer'[q] = answer[q]
    BY <1>2, OwnState
  <1>5. \A o \in 1..MaxObjects : inbox'[q][o] = inbox[q][o]
    <2>1. CASE EraseTopic(p) \/ ReceiveAnswer(p)
      BY <1>2, <2>1 DEF EraseTopic, ReceiveAnswer, InboxesOk
    <2>2. CASE ~(EraseTopic(p) \/ ReceiveAnswer(p))
      BY <2>2 DEF Client, NewClient, Connect, Subscribe, CloseCursor, Destroy, UnsubscribeNext,
             RemoveQueue, FinishConnect, FinishSubscribe, FinishClose,
             FinishUnsubscribe, AckUnsubscribed, Request, namedVars
    <2> QED
      BY <2>1, <2>2
  <1>6. \/ queue' = queue
        \/ /\ cpc[p] # "none"
           /\ \E kind, slot : Request(p, kind, slot)
    BY DEF Client, NewClient, Connect, Subscribe, CloseCursor, Destroy, UnsubscribeNext,
           EraseTopic, RemoveQueue, FinishConnect, FinishSubscribe, FinishClose,
           FinishUnsubscribe, ReceiveAnswer, AckUnsubscribed, namedVars
  <1>7. ASSUME NEW g \in Queues, NEW m \in Mail(queue'[g]), m.client = q
        PROVE  m \in Mail(queue[g])
    <2>1. CASE queue' = queue
      BY <1>7, <2>1
    <2>2. CASE cpc[p] # "none" /\ \E kind, slot : Request(p, kind, slot)
      <3>1. PICK n : n.client = p /\ queue' = [queue EXCEPT ![handle[p]] = Append(@, n)]
        BY <2>2 DEF Request
      <3>2. handle[p] \in Queues
        BY <1>2, <2>2 DEF CallInv, NamesInv, ClientNames
      <3>3. Mail(queue'[g]) \subseteq Mail(queue[g]) \union {n}
        BY <1>2, <3>1, <3>2, RequestMailSent
      <3> QED
        BY <1>7, <3>1, <3>3
    <2> QED
      BY <1>6, <2>1, <2>2
  <1>8. \A i : Holds(q, i) => Holds(q, i)'
    BY <1>3, HoldsKept
  <1>9. \A o \in 1..MaxObjects : Mail(inbox'[q][o]) = Mail(inbox[q][o])
    BY <1>5
  <1> QED
    BY <1>1, <1>3, <1>4, <1>7, <1>8, <1>9, SlotsKept

(* A client that waits for nothing is granted nothing, nor leaves anything. *)
LEMMA NothingUnderWay ==
    ASSUME CallInv, NEW p \in Clients, cpc[p] # "waiting"
    PROVE  /\ \A o \in 1..MaxObjects : \A m \in Mail(inbox[p][o]) : m.kind = "exit"
           /\ \A g \in Queues : \A m \in Mail(queue[g]) :
                  m.kind \in Requests => m.client # p
  <1>1. RequestsOf(p) = {} /\ AnswersOf(p) = {}
    BY DEF CallInv, CallsUnderWay, Silent
  <1>2. ASSUME NEW o \in 1..MaxObjects, NEW m \in Mail(inbox[p][o]), m.kind # "exit"
        PROVE  FALSE
    BY <1>1, <1>2, AnswerMail
  <1>3. ASSUME NEW g \in Queues, NEW m \in Mail(queue[g]), m.kind \in Requests, m.client = p
        PROVE  FALSE
    BY <1>1, <1>3, RequestMail DEF IsRequest
  <1> QED
    BY <1>2, <1>3

(* No cursor is left on the slot that a closed one gives back: on the       *)
(* memory the server has, slots are distinct, and when the client is on     *)
(* another memory, all its cursors are.                                    *)
LEMMA CloseKept ==
    ASSUME KeepInv, NEW p \in Clients \ misled, CloseCursor(p)
    PROVE  CursorsHold(p)' /\ GrantsHold(p)' /\ LeavesOld(p)'
  <1>1. CursorsHold(p) /\ GrantsHold(p) /\ LeavesOld(p) /\ CallInv /\ CursorsInUse(p)
        /\ ClientDomains /\ ServerQueuesOk /\ cpc[p] = "idle" /\ handle[p] \in Queues
    BY DEF KeepInv, UseInv, CallInv, NamesInv, ClientNames, CloseCursor
  <1>2. PICK k \in cursors[p] :
            /\ cursors' = [cursors EXCEPT ![p] = @ \ {k}]
            /\ Request(p, "unsubscribe", k.slot)
    BY DEF CloseCursor
  <1>3. PICK n : /\ n = [kind |-> "unsubscribe", client |-> p, slot |-> k.slot]
                 /\ queue' = [queue EXCEPT ![handle[p]] = Append(@, n)]
    BY <1>2 DEF Request
  <1>4. n.slot = k.slot
    BY <1>3
  <1>5. UNCHANGED <<shm, tableVars, known, inbox>> /\ cpc'[p] = "waiting"
    BY <1>1, <1>2 DEF Request, serverVars, ClientDomains
  <1>6. cursors'[p] = cursors[p] \ {k}
    BY <1>1, <1>2 DEF ClientDomains
  <1>7. Current(p)' \subseteq Current(p) /\ k \notin Current(p)'
    BY <1>5, <1>6 DEF Current
  <1>8. \A i : Holds(p, i)' = Holds(p, i)
    BY <1>5, HoldsKept
  <1>9. CursorsHold(p)'
    BY <1>1, <1>7, <1>8 DEF CursorsHold
  <1>10. GrantsHold(p)'
    <2>1. \A o \in 1..MaxObjects : \A m \in Mail(inbox[p][o]) : m.kind = "exit"
      BY <1>1, NothingUnderWay
    <2> QED
      BY <1>5, <2>1 DEF GrantsHold
  <1>11. \A l \in Current(p)' : l.slot # k.slot
    <2>1. CASE k.memory = shm
      BY <1>1, <1>7, <2>1 DEF Current, CursorsHold
    <2>2. CASE k.memory # shm
      <3>1. Current(p) = {}
        BY <1>1, <2>2 DEF Current, CursorsInUse
      <3> QED
        BY <1>7, <3>1
    <2> QED
      BY <2>1, <2>2
  <1>12. LeavesOld(p)'
    <2> SUFFICES ASSUME NEW g \in Queues, NEW m \in Mail(queue'[g]),
                        m.kind = "unsubscribe", m.client = p
                 PROVE  \A l \in Current(p)' : l.slot # m.slot
      BY DEF LeavesOld, Queues
    <2>1. Mail(queue'[g]) \subseteq Mail(queue[g]) \union {n}
      BY <1>1, <1>3, RequestMailSent
    <2>2. CASE m = n
      BY <1>4, <1>11, <2>2
    <2>3. CASE m \in Mail(queue[g])
      BY <1>1, <1>7, <2>3 DEF LeavesOld
    <2> QED
      BY <2>1, <2>2, <2>3
  <1> QED
    BY <1>9, <1>10, <1>12

(* A client that was granted a slot opens a cursor on it. *)
LEMMA OpenKept ==
    ASSUME KeepInv, NEW p \in Clients \ misled', FinishSubscribe(p)
    PROVE  CursorsHold(p)' /\ GrantsHold(p)' /\ LeavesOld(p)'
  <1> DEFINE slot == answer[p].slot
             memory == IF topicOf[p] = 0 THEN shm ELSE topicOf[p]
             opens == memory # 0 /\ <<p, slot>> \in sems
             k == [id |-> calls, slot |-> slot, memory |-> memory]
  <1>1. p \notin misled /\ (opens => answer[p].granted)
    BY DEF FinishSubscribe
  <1>2. CursorsHold(p) /\ GrantsHold(p) /\ LeavesOld(p) /\ CallInv /\ ClientDomains
    BY <1>1 DEF KeepInv, UseInv, CallInv, NamesInv
  <1>3. cpc[p] = "answered" /\ why[p] = "subscribe" /\ cpc'[p] = "idle"
        /\ UNCHANGED <<shm, tableVars, known, inbox, queue>>
    BY <1>2 DEF FinishSubscribe, Continue, ClientDomains, namedVars, serverVars
  <1>4. cursors'[p] = IF opens THEN cursors[p] \union {k} ELSE cursors[p]
    BY <1>2 DEF FinishSubscribe, ClientDomains
  <1>5. \A i : Holds(p, i)' = Holds(p, i)
    BY <1>3, HoldsKept
  <1>6. opens => Granted(p, slot)
    BY <1>1, <1>2, <1>3 DEF GrantsHold
  <1>7. k.slot = slot
    OBVIOUS
  <1> HIDE DEF k, opens, slot
  <1>8. Current(p)' = Current(p) \/ (Current(p)' = Current(p) \union {k} /\ opens)
    BY <1>3, <1>4 DEF Current
  <1>9. CursorsHold(p)'
    <2>1. CASE Current(p)' = Current(p)
      BY <1>2, <1>5, <2>1 DEF CursorsHold
    <2>2. CASE Current(p)' = Current(p) \union {k} /\ opens
      <3>1. Holds(p, k.slot) /\ \A l \in Current(p) : l.slot # k.slot
        BY <1>6, <1>7, <2>2 DEF Granted
      <3> QED
        BY <1>2, <1>5, <2>2, <3>1 DEF CursorsHold
    <2> QED
      BY <1>8, <2>1, <2>2
  <1>10. /\ \A o \in 1..MaxObjects : \A m \in Mail(inbox[p][o]) : m.kind = "exit"
         /\ \A g \in Queues : \A m \in Mail(queue[g]) : m.kind \in Requests => m.client # p
    BY <1>2, <1>3, NothingUnderWay
  <1>11. GrantsHold(p)'
    BY <1>3, <1>10 DEF GrantsHold
  <1>12. LeavesOld(p)'
    BY <1>3, <1>10 DEF LeavesOld, Queues, Requests
  <1> QED
    BY <1>9, <1>11, <1>12

LEMMA ReceiveKept ==
    ASSUME KeepInv, NEW p \in Clients \ misled, ReceiveAnswer(p)
    PROVE  CursorsHold(p)' /\ GrantsHold(p)' /\ LeavesOld(p)'
  <1>1. CursorsHold(p) /\ GrantsHold(p) /\ LeavesOld(p) /\ CallInv /\ ClientDomains /\ InboxesOk
    BY DEF KeepInv, UseInv, CallInv, NamesInv
  <1>2. PICK m : m = Head(inbox[p][objects[p]])
    OBVIOUS
  <1>3. /\ UNCHANGED <<shm, tableVars, known, queue, cursors, why>>
        /\ inbox[p][objects[p]] # <<>>
        /\ inbox' = [inbox EXCEPT ![p][objects[p]] = Tail(@)]
        /\ m.kind = "exit" => UNCHANGED <<cpc, answer>>
        /\ m.kind # "exit" => answer'[p] = m
    BY <1>1, <1>2 DEF ReceiveAnswer, serverVars, ClientDomains
  <1>4. objects[p] \in 1..MaxObjects
    BY <1>1, ChannelAssumption DEF ReceiveAnswer, CallInv, NamesInv, ClientNames
  <1>5. \A o \in 1..MaxObjects : Mail(inbox'[p][o]) \subseteq Mail(inbox[p][o])
    BY <1>1, <1>3, <1>4, AnswerMailTaken
  <1>6. \A i : Holds(p, i)' = Holds(p, i)
    BY <1>3, HoldsKept
  <1>7. ASSUME cpc'[p] = "answered", why'[p] = "subscribe", answer'[p].granted
        PROVE  \/ cpc[p] = "answered" /\ why[p] = "subscribe" /\ answer'[p] = answer[p]
               \/ Granted(p, answer'[p].slot)
    <2>1. CASE m.kind = "exit"
      BY <1>3, <1>7, <2>1
    <2>2. CASE m.kind # "exit"
      <3>1. m.kind = KindOf(p) /\ m \in Mail(inbox[p][objects[p]])
        BY <1>1, <1>2, <2>2, AnswerExpected
      <3>2. m.kind = "subscribe" /\ m.granted /\ answer'[p].slot = m.slot
        BY <1>3, <1>7, <2>2, <3>1 DEF KindOf
      <3> QED
        BY <1>1, <1>4, <3>1, <3>2 DEF GrantsHold
    <2> QED
      BY <2>1, <2>2
  <1> QED
    BY <1>1, <1>3, <1>5, <1>6, <1>7, SlotsKept

LEMMA CallKept ==
    ASSUME KeepInv, NEW p \in Clients \ misled,
           NewClient(p) \/ Connect(p) \/ Subscribe(p) \/ RemoveQueue(p) \/ FinishConnect(p)
           \/ FinishClose(p) \/ FinishUnsubscribe(p) \/ AckUnsubscribed(p)
    PROVE  CursorsHold(p)' /\ GrantsHold(p)' /\ LeavesOld(p)'
  <1>1. CursorsHold(p) /\ GrantsHold(p) /\ LeavesOld(p) /\ CallInv /\ ClientDomains
        /\ ServerQueuesOk
    BY DEF KeepInv, UseInv, CallInv, NamesInv
  <1>2. CASE Connect(p) \/ Subscribe(p)
    <2>1. PICK n : /\ n.kind \in {"hello", "subscribe"} /\ cpc[p] = "idle"
                   /\ queue' = [queue EXCEPT ![handle[p]] = Append(@, n)]
                   /\ UNCHANGED <<shm, tableVars, known, inbox, cursors>> /\ cpc'[p] = "waiting"
      BY <1>1, <1>2 DEF Connect, Subscribe, Request, serverVars, ClientDomains
    <2>2. handle[p] \in Queues
      BY <1>1, <2>1 DEF CallInv, NamesInv, ClientNames
    <2>3. \A g \in Queues : Mail(queue'[g]) \subseteq Mail(queue[g]) \union {n}
      BY <1>1, <2>1, <2>2, RequestMailSent
    <2>4. \A g \in Queues : \A m \in Mail(queue'[g]) :
              m.kind = "unsubscribe" /\ m.client = p => m \in Mail(queue[g])
      BY <2>1, <2>3
    <2>5. \A i : Holds(p, i)' = Holds(p, i)
      BY <2>1, HoldsKept
    <2> QED
      BY <1>1, <2>1, <2>4, <2>5, SlotsKept
  <1>3. CASE \/ NewClient(p) \/ RemoveQueue(p) \/ FinishConnect(p)
             \/ FinishClose(p) \/ FinishUnsubscribe(p) \/ AckUnsubscribed(p)
    <2>1. UNCHANGED <<shm, tableVars, known, inbox, queue, cursors>>
      BY <1>3 DEF NewClient, RemoveQueue, FinishConnect, FinishClose, FinishUnsubscribe,
                  AckUnsubscribed, namedVars, serverVars
    <2>2. cpc'[p] # "answered" \/ (cpc' = cpc /\ UNCHANGED <<why, answer>>)
      BY <1>1, <1>3 DEF NewClient, RemoveQueue, FinishConnect, FinishClose, FinishUnsubscribe,
                        AckUnsubscribed, Continue, ClientDomains
    <2>3. \A i : Holds(p, i)' = Holds(p, i)
      BY <2>1, HoldsKept
    <2> QED
      BY <1>1, <2>1, <2>2, <2>3, SlotsKept
  <1> QED
    BY <1>2, <1>3

(* The destructor of a client has let go of its cursors. *)
LEMMA DestroyKept ==
    ASSUME KeepInv, NEW p \in Clients \ misled, Destroy(p) \/ UnsubscribeNext(p) \/ EraseTopic(p)
    PROVE  CursorsHold(p)' /\ GrantsHold(p)' /\ LeavesOld(p)'
  <1>1. CallInv /\ ClientDomains /\ ServerQueuesOk /\ InboxesOk /\ CursorsInUse(p)
    BY DEF KeepInv, UseInv, CallInv, NamesInv
  <1>2. cursors'[p] = {} /\ cpc'[p] # "answered" /\ cpc[p] \in {"idle", "destroying"}
    BY <1>1 DEF Destroy, UnsubscribeNext, EraseTopic, Request, CursorsInUse, ClientDomains
  <1>3. Current(p)' = {}
    BY <1>2 DEF Current
  <1>4. \A o \in 1..MaxObjects : \A m \in Mail(inbox[p][o]) : m.kind = "exit"
    BY <1>1, <1>2, NothingUnderWay
  <1>5. \A o \in 1..MaxObjects : \A m \in Mail(inbox'[p][o]) : m.kind = "exit"
    <2>1. CASE EraseTopic(p)
      <3>1. PICK n : n.kind = "exit" /\ inbox' = [inbox EXCEPT ![p][objects[p]] = Append(@, n)]
        BY <2>1 DEF EraseTopic
      <3>2. objects[p] \in 1..MaxObjects
        BY <1>1, <1>2, ChannelAssumption DEF CallInv, NamesInv, ClientNames
      <3>3. \A o \in 1..MaxObjects : Mail(inbox'[p][o]) \subseteq Mail(inbox[p][o]) \union {n}
        BY <1>1, <3>1, <3>2, AnswerMailSent
      <3> QED
        BY <1>4, <3>1, <3>3
    <2>2. CASE Destroy(p) \/ UnsubscribeNext(p)
      BY <1>4, <2>2 DEF Destroy, UnsubscribeNext, Request, namedVars
    <2> QED
      BY <2>1, <2>2
  <1> QED
    BY <1>2, <1>3, <1>5 DEF CursorsHold, GrantsHold, LeavesOld

LEMMA KeepClientStep ==
    ASSUME KeepInv, NEW p \in Clients, Client(p)
    PROVE  MemoryNumbered' /\ \A q \in Clients \ misled' :
                                  CursorsHold(q)' /\ GrantsHold(q)' /\ LeavesOld(q)'
  <1>1. MemoryNumbered'
    <2>1. UNCHANGED <<shms, shm, known, owner>>
      BY DEF Client, NewClient, Connect, Subscribe, CloseCursor, Destroy, UnsubscribeNext,
           EraseTopic, RemoveQueue, FinishConnect, FinishSubscribe, FinishClose,
           FinishUnsubscribe, ReceiveAnswer, AckUnsubscribed, Request, serverVars, namedVars,
           tableVars
    <2>2. topicOf' = topicOf \/ topicOf'[p] \in {0, shm, topicOf[p]}
      BY DEF Client, NewClient, Connect, Subscribe, CloseCursor, Destroy, UnsubscribeNext,
           EraseTopic, RemoveQueue, FinishConnect, FinishSubscribe, FinishClose,
           FinishUnsubscribe, ReceiveAnswer, AckUnsubscribed, Request, KeepInv, UseInv, CallInv,
           NamesInv, ClientDomains
    <2>3. \A q \in Clients : q # p => topicOf'[q] = topicOf[q]
      BY OwnState DEF KeepInv, UseInv
    <2> QED
      BY <2>1, <2>2, <2>3 DEF KeepInv, MemoryNumbered, Slots
  <1>2. misled \subseteq misled'
    BY DEF Client, NewClient, Connect, Subscribe, CloseCursor, Destroy, UnsubscribeNext,
           EraseTopic, RemoveQueue, FinishConnect, FinishSubscribe, FinishClose,
           FinishUnsubscribe, ReceiveAnswer, AckUnsubscribed, Request
  <1>3. ASSUME NEW q \in Clients \ misled'
        PROVE  CursorsHold(q)' /\ GrantsHold(q)' /\ LeavesOld(q)'
    <2>1. CASE q # p
      BY <1>2, <2>1, OthersKept
    <2>2. CASE q = p
      <3>1. p \in Clients \ misled' /\ p \in Clients \ misled
        BY <1>2, <2>2
      <3>2. CursorsHold(p)' /\ GrantsHold(p)' /\ LeavesOld(p)'
        <4>1. CASE FinishSubscribe(p)
          BY <3>1, <4>1, OpenKept
        <4>2. CASE CloseCursor(p)
          BY <3>1, <4>2, CloseKept
        <4>3. CASE ReceiveAnswer(p)
          BY <3>1, <4>3, ReceiveKept
        <4>4. CASE Destroy(p) \/ UnsubscribeNext(p) \/ EraseTopic(p)
          BY <3>1, <4>4, DestroyKept
        <4>5. CASE \/ NewClient(p) \/ Connect(p) \/ Subscribe(p) \/ RemoveQueue(p)
                   \/ FinishConnect(p) \/ FinishClose(p) \/ FinishUnsubscribe(p)
                   \/ AckUnsubscribed(p)
          BY <3>1, <4>5, CallKept
        <4> QED
          BY <4>1, <4>2, <4>3, <4>4, <4>5 DEF Client
      <3> QED
        BY <2>2, <3>2
    <2> QED
      BY <2>1, <2>2
  <1> QED
    BY <1>1, <1>3

(* The messages that a server's action leaves to a client. *)
LEMMA MailToServer ==
    ASSUME CallInv, Server
    PROVE  \A g \in Queues : \A m \in Mail(queue'[g]) :
               m.kind = "unsubscribe" => m \in Mail(queue[g])
  <1>1. ServerQueuesOk /\ srvName \in 0..queues /\ (srv = "up" => srvName \in Queues)
    BY ChannelAssumption DEF CallInv, NamesInv, ServerNames, Queues
  <1>2. CASE StartServer \/ FinishStop \/ NotifyAll
    BY <1>2 DEF StartServer, FinishStop, NotifyAll
  <1>3. CASE CreateTopic \/ RemoveTopic \/ StopServer
    <2>1. PICK n : /\ n.kind # "unsubscribe" /\ srv = "up"
                   /\ queue' = [queue EXCEPT ![srvName] = Append(@, n)]
      BY <1>3 DEF CreateTopic, RemoveTopic, StopServer, Command
    <2>2. \A g \in Queues : Mail(queue'[g]) \subseteq Mail(queue[g]) \union {n}
      BY <1>1, <2>1, RequestMailSent
    <2> QED
      BY <2>1, <2>2
  <1>4. CASE \/ OnExit \/ OnCreateTopic \/ OnRemoveTopic \/ OnHello \/ OnSubscribe
             \/ OnUnsubscribe
    <2>1. /\ queue[srvName] # <<>> /\ queue' = [queue EXCEPT ![srvName] = Tail(@)]
          /\ srv = "up"
      BY <1>4 DEF OnExit, OnCreateTopic, OnRemoveTopic, OnHello, OnSubscribe, OnUnsubscribe,
                  Receive
    <2>2. \A g \in Queues : Mail(queue'[g]) \subseteq Mail(queue[g])
      BY <1>1, <2>1, RequestMailTaken
    <2> QED
      BY <2>2
  <1> QED
    BY <1>2, <1>3, <1>4 DEF Server

(* Steps of the server that answer nobody and keep every slot. *)
LEMMA QuietKept ==
    ASSUME KeepInv, Server, UNCHANGED <<inbox, shm, clientVars>>,
           NEW p \in Clients \ misled, \A i : Holds(p, i) => Holds(p, i)'
    PROVE  CursorsHold(p)' /\ GrantsHold(p)' /\ LeavesOld(p)'
  <1>1. CursorsHold(p) /\ GrantsHold(p) /\ LeavesOld(p) /\ CallInv
    BY DEF KeepInv, UseInv
  <1>2. UNCHANGED <<cursors, cpc, why, answer>>
    BY DEF clientVars
  <1>3. \A g \in Queues : \A m \in Mail(queue'[g]) :
               m.kind = "unsubscribe" => m \in Mail(queue[g])
    BY <1>1, MailToServer
  <1> QED
    BY <1>1, <1>2, <1>3, SlotsKept

(* A topic is deleted by the server that forgets it; its memory goes only   *)
(* when nobody has a slot of it.                                           *)
LEMMA DeleteKept ==
    ASSUME KeepInv, Server, DeleteTopic, UNCHANGED <<inbox, clientVars>>,
           NEW p \in Clients \ misled
    PROVE  CursorsHold(p)' /\ GrantsHold(p)' /\ LeavesOld(p)'
  <1>1. CursorsHold(p) /\ GrantsHold(p) /\ LeavesOld(p) /\ CallInv /\ CursorsInUse(p)
        /\ TopicInUse(p)
    BY DEF KeepInv, UseInv
  <1>2. CASE known /\ bag = {}
    <2>1. \A i : ~Holds(p, i)
      BY <1>2 DEF Holds
    <2>2. \A i : ~Granted(p, i)
      BY <2>1 DEF Granted
    <2>3. UNCHANGED <<cursors, cpc, why, answer>> /\ shm' = 0
      BY <1>2 DEF clientVars, DeleteTopic
    <2>4. Current(p)' = {}
      BY <1>1, <2>3 DEF Current, CursorsInUse, TopicInUse
    <2>5. CursorsHold(p)' /\ LeavesOld(p)'
      BY <2>4 DEF CursorsHold, LeavesOld
    <2>6. GrantsHold(p)'
      BY <1>1, <2>2, <2>3 DEF GrantsHold
    <2> QED
      BY <2>5, <2>6
  <1>3. CASE ~(known /\ bag = {})
    <2>1. shm' = shm /\ ~known' /\ UNCHANGED <<owner, active, pending>>
      BY <1>3 DEF DeleteTopic
    <2>2. \A i : Holds(p, i) => Holds(p, i)'
      BY <2>1 DEF Holds
    <2> QED
      BY <2>1, <2>2, QuietKept
  <1> QED
    BY <1>2, <1>3

(* A topic is created, or found with its subscriptions. *)
LEMMA CreateKept ==
    ASSUME KeepInv, OnCreateTopic, NEW p \in Clients \ misled
    PROVE  CursorsHold(p)' /\ GrantsHold(p)' /\ LeavesOld(p)'
  <1>1. CursorsHold(p) /\ GrantsHold(p) /\ LeavesOld(p) /\ CallInv /\ CursorsInUse(p)
        /\ MemoryNumbered
    BY DEF KeepInv, UseInv
  <1>2. UNCHANGED <<clientVars, inbox>> /\ Server
    BY DEF OnCreateTopic, Receive, Server
  <1>3. CASE ~known /\ shm = 0
    <2>1. shm' = shms + 1
      BY <1>3 DEF OnCreateTopic
    <2>2. \A i : ~Granted(p, i)
      BY <1>3 DEF Granted, Holds
    <2>3. UNCHANGED <<cursors, cpc, why, answer>>
      BY <1>2 DEF clientVars
    <2>4. \A k \in cursors[p] : k.memory # shms + 1
      BY <1>1 DEF CursorsInUse, MemoryNumbered
    <2>5. Current(p)' = {}
      BY <2>1, <2>3, <2>4 DEF Current
    <2>6. CursorsHold(p)' /\ LeavesOld(p)'
      BY <2>5 DEF CursorsHold, LeavesOld
    <2>7. GrantsHold(p)'
      BY <1>1, <1>2, <2>2, <2>3 DEF GrantsHold
    <2> QED
      BY <2>6, <2>7
  <1>4. CASE known \/ shm # 0
    <2>1. /\ shm' = shm /\ UNCHANGED <<owner, active>> /\ pending' \subseteq pending
          /\ \/ known /\ UNCHANGED <<bag, rented>>
             \/ bag' = active \ pending /\ rented' = active \ pending
      BY <1>4 DEF OnCreateTopic, tableVars
    <2>2. \A i : Holds(p, i) => Holds(p, i)'
      BY <2>1 DEF Holds
    <2> QED
      BY <1>2, <2>1, <2>2, QuietKept
  <1> QED
    BY <1>3, <1>4

(* The end of a publication disposes of slots that were given back. *)
LEMMA NotifyKept ==
    ASSUME KeepInv, NotifyAll, NEW p \in Clients \ misled
    PROVE  CursorsHold(p)' /\ GrantsHold(p)' /\ LeavesOld(p)'
  <1>1. UNCHANGED <<inbox, shm, clientVars, owner, rented, known>> /\ Server
    BY DEF NotifyAll, Server, serverVars
  <1>2. \A i : i \notin pending => /\ i \in active => i \in active'
                                   /\ i \in bag => i \in bag'
                                   /\ i \notin pending'
    BY DEF NotifyAll
  <1>3. \A i : Holds(p, i) => Holds(p, i)'
    BY <1>1, <1>2 DEF Holds
  <1> QED
    BY <1>1, <1>3, QuietKept

(* The messages that an answer adds to. *)
LEMMA MailToClient ==
    ASSUME CallInv, NEW kind \in Requests, Receive(kind), NEW m, m.kind = kind,
           NEW p, p = Message.client, Answer(p, m), NEW q \in Clients
    PROVE  \A o \in 1..MaxObjects :
               /\ Mail(inbox'[q][o]) \subseteq Mail(inbox[q][o]) \union {m}
               /\ q # p => Mail(inbox'[q][o]) \subseteq Mail(inbox[q][o])
  <1>1. p \in Clients /\ InboxesOk
    BY ClientFound DEF CallInv
  <1>2. PICK o \in 1..MaxObjects : inbox' = [inbox EXCEPT ![p][o] = Append(@, m)]
    BY CallsServed
  <1> QED
    BY <1>1, <1>2, AnswerMailSent

LEMMA HelloKept ==
    ASSUME KeepInv, OnHello, NEW q \in Clients \ misled
    PROVE  CursorsHold(q)' /\ GrantsHold(q)' /\ LeavesOld(q)'
  <1>1. CursorsHold(q) /\ GrantsHold(q) /\ LeavesOld(q) /\ CallInv /\ Server
    BY DEF KeepInv, UseInv, Server
  <1>2. PICK p : p = Message.client
    OBVIOUS
  <1>3. PICK m : m.kind = "hello" /\ Answer(p, m)
    BY <1>2 DEF OnHello
  <1>4. Receive("hello") /\ UNCHANGED <<shm, tableVars, known>>
        /\ UNCHANGED <<cursors, cpc, why, answer>>
    BY DEF OnHello, Receive, clientVars
  <1>5. \A o \in 1..MaxObjects : Mail(inbox'[q][o]) \subseteq Mail(inbox[q][o]) \union {m}
    BY <1>1, <1>2, <1>3, <1>4, MailToClient DEF Requests
  <1>6. \A i : Holds(q, i)' = Holds(q, i)
    BY <1>4, HoldsKept
  <1>7. \A g \in Queues : \A n \in Mail(queue'[g]) : n.kind = "unsubscribe" => n \in Mail(queue[g])
    BY <1>1, MailToServer
  <1> QED
    BY <1>1, <1>3, <1>4, <1>5, <1>6, <1>7, SlotsKept

(* The slot granted was nobody's. *)
LEMMA SubscribeKept ==
    ASSUME KeepInv, OnSubscribe, NEW q \in Clients \ misled
    PROVE  CursorsHold(q)' /\ GrantsHold(q)' /\ LeavesOld(q)'
  <1>1. CursorsHold(q) /\ GrantsHold(q) /\ LeavesOld(q) /\ CallInv /\ Server /\ MemoryNumbered
    BY DEF KeepInv, UseInv, Server
  <1>2. PICK p : p = Message.client
    OBVIOUS
  <1>3. Receive("subscribe") /\ UNCHANGED <<shm, known>> /\ UNCHANGED <<cursors, cpc, why, answer>>
    BY DEF OnSubscribe, Receive, clientVars
  <1>4. \A g \in Queues : \A n \in Mail(queue'[g]) : n.kind = "unsubscribe" => n \in Mail(queue[g])
    BY <1>1, MailToServer
  <1>5. CASE ~known
    <2>1. PICK m : m = [kind |-> "subscribe", slot |-> 0, granted |-> FALSE]
      OBVIOUS
    <2>2. Answer(p, m) /\ m.kind = "subscribe" /\ ~m.granted /\ UNCHANGED tableVars
      BY <1>2, <1>5, <2>1, SlotGranted DEF KeepInv
    <2>3. \A o \in 1..MaxObjects : Mail(inbox'[q][o]) \subseteq Mail(inbox[q][o]) \union {m}
      BY <1>1, <1>2, <1>3, <2>2, MailToClient DEF Requests
    <2>4. \A i : Holds(q, i)' = Holds(q, i)
      BY <1>3, <2>2, HoldsKept
    <2> QED
      BY <1>1, <1>3, <1>4, <2>2, <2>3, <2>4, SlotsKept
  <1>6. CASE known
    <2>1. PICK i \in Slots \ rented :
              /\ Answer(p, [kind |-> "subscribe", slot |-> i, granted |-> TRUE])
              /\ owner' = [owner EXCEPT ![i] = p]
              /\ active' = active \union {i}
              /\ pending' = pending \ {i}
              /\ bag' = bag \union {i} /\ rented' = rented \union {i}
      BY <1>2, <1>6, SlotGranted DEF KeepInv
    <2>2. PICK m : m = [kind |-> "subscribe", slot |-> i, granted |-> TRUE]
      OBVIOUS
    <2>3. Answer(p, m) /\ m.kind = "subscribe" /\ m.slot = i
      BY <2>1, <2>2
    <2>4. \A o \in 1..MaxObjects :
               /\ Mail(inbox'[q][o]) \subseteq Mail(inbox[q][o]) \union {m}
               /\ q # p => Mail(inbox'[q][o]) \subseteq Mail(inbox[q][o])
      BY <1>1, <1>2, <1>3, <2>3, MailToClient DEF Requests
    <2>5. ASSUME NEW j, Holds(q, j) PROVE j # i /\ Holds(q, j)'
      <3>1. j # i
        BY <1>6, <2>1, <2>5 DEF Holds
      <3>2. owner'[j] = owner[j]
        BY <1>1, <2>1, <3>1 DEF MemoryNumbered, Holds
      <3> QED
        BY <1>3, <2>1, <2>5, <3>1, <3>2 DEF Holds
    <2>6. CASE q # p
      BY <1>1, <1>3, <1>4, <2>4, <2>5, <2>6, SlotsKept
    <2>7. CASE q = p
      <3>1. owner'[i] = q
        BY <1>1, <2>1, <2>7 DEF MemoryNumbered
      <3>2. Holds(q, i)'
        BY <1>1, <1>3, <1>6, <2>1, <3>1 DEF Holds, MemoryNumbered
      <3>3. Current(q)' = Current(q)
        BY <1>3 DEF Current
      <3>4. \A k \in Current(q) : k.slot # i
        BY <1>1, <2>5 DEF CursorsHold
      <3>5. Granted(q, i)'
        BY <3>2, <3>3, <3>4 DEF Granted
      <3>6. \A o \in 1..MaxObjects : \A n \in Mail(inbox'[q][o]) :
                n \in Mail(inbox[q][o]) \/ n.slot = i
        BY <2>3, <2>4
      <3> QED
        BY <1>1, <1>3, <1>4, <2>5, <3>5, <3>6, SlotsKept
    <2> QED
      BY <2>6, <2>7
  <1> QED
    BY <1>5, <1>6

(* The slot given back was the client's, and no cursor of it is on it.      *)
LEMMA UnsubscribeKept ==
    ASSUME KeepInv, OnUnsubscribe, NEW q \in Clients \ misled
    PROVE  CursorsHold(q)' /\ GrantsHold(q)' /\ LeavesOld(q)'
  <1>1. CursorsHold(q) /\ GrantsHold(q) /\ LeavesOld(q) /\ CallInv /\ Server
    BY DEF KeepInv, UseInv, Server
  <1>2. PICK p : p = Message.client
    OBVIOUS
  <1>3. PICK i : i = Message.slot
    OBVIOUS
  <1>4. PICK m : m.kind = "unsubscribe" /\ Answer(p, m)
    BY <1>2 DEF OnUnsubscribe
  <1>5. Receive("unsubscribe") /\ UNCHANGED <<shm, owner, active, bag, rented, known>>
        /\ UNCHANGED <<cursors, cpc, why, answer>>
    BY DEF OnUnsubscribe, Receive, clientVars
  <1>6. pending' \subseteq pending \union {i} /\ (i \in pending' => owner[i] = p \/ i \in pending)
    BY <1>2, <1>3 DEF OnUnsubscribe
  <1>7. \A o \in 1..MaxObjects : Mail(inbox'[q][o]) \subseteq Mail(inbox[q][o]) \union {m}
    BY <1>1, <1>2, <1>4, <1>5, MailToClient DEF Requests
  <1>8. \A g \in Queues : \A n \in Mail(queue'[g]) : n.kind = "unsubscribe" => n \in Mail(queue[g])
    BY <1>1, MailToServer
  <1>9. \A j : Holds(q, j) /\ (j # i \/ q # p) => Holds(q, j)'
    BY <1>5, <1>6 DEF Holds
  <1>10. CASE q # p
    BY <1>1, <1>4, <1>5, <1>7, <1>8, <1>9, <1>10, SlotsKept
  <1>11. CASE q = p
    <2>1. /\ Message \in Mail(queue[srvName]) /\ srvName \in Queues /\ cpc[q] = "waiting"
          /\ Message.kind = "unsubscribe" /\ KindOf(q) = "unsubscribe"
      BY <1>1, <1>2, <1>5, <1>11, ClientFound DEF Requests
    <2>2. \A k \in Current(q) : k.slot # i
      BY <1>1, <1>2, <1>3, <1>11, <2>1 DEF LeavesOld
    <2>3. Current(q)' = Current(q)
      BY <1>5 DEF Current
    <2>4. CursorsHold(q)'
      BY <1>1, <1>9, <2>2, <2>3 DEF CursorsHold
    <2>5. LeavesOld(q)'
      BY <1>1, <1>8, <2>3 DEF LeavesOld, Queues
    <2>6. GrantsHold(q)'
      <3>1. \A o \in 1..MaxObjects : \A n \in Mail(inbox[q][o]) :
                n.kind # "exit" => n.kind = KindOf(q)
        BY <1>1 DEF CallInv, AnswersFit
      <3>2. \A o \in 1..MaxObjects : \A n \in Mail(inbox'[q][o]) : n.kind # "subscribe"
        BY <1>4, <1>7, <2>1, <3>1
      <3> QED
        BY <1>5, <2>1, <3>2 DEF GrantsHold
    <2> QED
      BY <2>4, <2>5, <2>6
  <1> QED
    BY <1>10, <1>11

LEMMA KeepServerStep ==
    ASSUME KeepInv, Server
    PROVE  MemoryNumbered' /\ \A q \in Clients \ misled' :
                                  CursorsHold(q)' /\ GrantsHold(q)' /\ LeavesOld(q)'
  <1>1. misled' = misled /\ topicOf' = topicOf
    BY DEF Server, StartServer, CreateTopic, RemoveTopic, StopServer, Command, FinishStop,
           NotifyAll, OnExit, OnCreateTopic, OnRemoveTopic, OnHello, OnSubscribe, OnUnsubscribe,
           Receive, clientVars
  <1>2. ASSUME NEW q \in Clients \ misled
        PROVE  CursorsHold(q)' /\ GrantsHold(q)' /\ LeavesOld(q)'
    <2>1. CASE StartServer \/ CreateTopic \/ RemoveTopic \/ StopServer \/ OnExit
      <3>1. UNCHANGED <<inbox, shm, clientVars, tableVars, known>>
        BY <2>1 DEF StartServer, CreateTopic, RemoveTopic, StopServer, Command, OnExit, Receive
      <3>2. \A i : Holds(q, i)' = Holds(q, i)
        BY <3>1, HoldsKept
      <3> QED
        BY <3>1, <3>2, QuietKept
    <2>2. CASE FinishStop \/ OnRemoveTopic
      BY <2>2, DeleteKept DEF FinishStop, OnRemoveTopic, Receive
    <2>3. CASE NotifyAll
      BY <2>3, NotifyKept
    <2>4. CASE OnCreateTopic
      BY <2>4, CreateKept
    <2>5. CASE OnHello
      BY <2>5, HelloKept
    <2>6. CASE OnSubscribe
      BY <2>6, SubscribeKept
    <2>7. CASE OnUnsubscribe
      BY <2>7, UnsubscribeKept
    <2> QED
      BY <2>1, <2>2, <2>3, <2>4, <2>5, <2>6, <2>7 DEF Server
  <1>3. MemoryNumbered'
    <2>1. MemoryNumbered
      BY DEF KeepInv
    <2>2. CASE OnCreateTopic
      <3>1. /\ topicOf' = topicOf /\ shms \in Nat
            /\ \/ shms' = shms + 1 /\ shm' = shms + 1 /\ owner' = [i \in Slots |-> Nobody]
               \/ shms' = shms /\ shm' = shm /\ owner' = owner /\ shm # 0
        BY <1>1, <2>1, <2>2 DEF OnCreateTopic, MemoryNumbered, tableVars
      <3> QED
        BY <2>1, <3>1 DEF MemoryNumbered, Slots
    <2>3. CASE FinishStop \/ OnRemoveTopic
      BY <1>1, <2>1, <2>3 DEF FinishStop, OnRemoveTopic, DeleteTopic, MemoryNumbered, Slots
    <2>4. CASE OnSubscribe
      <3>1. owner' = owner \/ \E i, p : owner' = [owner EXCEPT ![i] = p]
        BY <2>4, SlotGranted DEF KeepInv, tableVars
      <3>2. UNCHANGED <<shm, shms, known>>
        BY <2>4 DEF OnSubscribe
      <3> QED
        BY <1>1, <2>1, <3>1, <3>2 DEF MemoryNumbered, Slots
    <2>5. CASE \/ StartServer \/ CreateTopic \/ RemoveTopic \/ StopServer \/ NotifyAll \/ OnExit
               \/ OnHello \/ OnUnsubscribe
      <3>1. UNCHANGED <<shm, shms, known, owner>>
        BY <2>5 DEF StartServer, CreateTopic, RemoveTopic, StopServer, Command, NotifyAll, OnExit,
                    OnHello, OnUnsubscribe, tableVars, serverVars
      <3> QED
        BY <1>1, <2>1, <3>1 DEF MemoryNumbered, Slots
    <2> QED
      BY <2>2, <2>3, <2>4, <2>5 DEF Server
  <1> QED
    BY <1>1, <1>2, <1>3

LEMMA KeepStep == KeepInv /\ [Next]_vars => KeepInv'
  <1> SUFFICES ASSUME KeepInv, [Next]_vars PROVE KeepInv'
    OBVIOUS
  <1>1. UseInv'
    BY UseStep DEF KeepInv
  <1>2. CASE UNCHANGED vars
    <2>1. UNCHANGED <<queue, inbox, cpc, why, answer, cursors, topicOf, misled, shm, shms,
                      owner, tableVars, known>>
      BY <1>2 DEF vars, namedVars, tableVars, serverVars, clientVars
    <2>2. MemoryNumbered'
      BY <2>1 DEF KeepInv, MemoryNumbered, Slots
    <2>3. ASSUME NEW p \in Clients \ misled
          PROVE  CursorsHold(p)' /\ GrantsHold(p)' /\ LeavesOld(p)'
      <3>1. \A i : Holds(p, i)' = Holds(p, i)
        BY <2>1, HoldsKept
      <3> QED
        BY <2>1, <3>1, SlotsKept DEF KeepInv
    <2> QED
      BY <1>1, <2>1, <2>2, <2>3 DEF KeepInv
  <1>3. CASE Server
    BY <1>1, <1>3, KeepServerStep DEF KeepInv
  <1>4. ASSUME NEW p \in Clients, Client(p) PROVE KeepInv'
    BY <1>1, <1>4, KeepClientStep DEF KeepInv
  <1> QED
    BY <1>2, <1>3, <1>4 DEF Next

LEMMA Keep == Spec => []KeepInv
  BY KeepInit, KeepStep, PTL DEF Spec

-----------------------------------------------------------------------------
(* A call that waits has one request in the server's queue that the client   *)
(* has, or one answer in a queue of its pid: DispatchMessages takes a        *)
(* request and GetClient and the send answer it in one step, whoever starts, *)
(* stops and removes topics meanwhile, so that an answer is never sent twice *)
(* nor dropped.                                                             *)
THEOREM CallsWaitForSomethingAlways == Spec => []CallsWaitForSomething
  <1>1. KeepInv => CallsWaitForSomething
    <2> SUFFICES ASSUME KeepInv, NEW p \in Clients, cpc[p] = "waiting"
                 PROVE  /\ Cardinality(RequestsOf(p)) + Cardinality(AnswersOf(p)) = 1
                        /\ \A r \in RequestsOf(p) : r[1] = handle[p]
                        /\ \A a \in AnswersOf(p) : a[1] # objects[p] => objects[p] > 1
      BY DEF CallsWaitForSomething
    <2>1. Sent(p) \/ Replied(p)
      BY DEF KeepInv, UseInv, CallInv, CallsUnderWay
    <2>2. objects[p] \in Nat
      BY ChannelAssumption DEF KeepInv, UseInv, CallInv, NamesInv, ClientNames
    <2>3. CASE Sent(p)
      <3>1. PICK r : AnswersOf(p) = {} /\ RequestsOf(p) = {r} /\ r[1] = handle[p]
        BY <2>3 DEF Sent
      <3>2. Cardinality(RequestsOf(p)) = 1 /\ Cardinality(AnswersOf(p)) = 0
        BY <3>1, FS_Singleton, FS_EmptySet
      <3> QED
        BY <3>1, <3>2
    <2>4. CASE Replied(p)
      <3>1. PICK a : RequestsOf(p) = {} /\ AnswersOf(p) = {a} /\ a[1] \in 1..objects[p]
        BY <2>4 DEF Replied
      <3>2. Cardinality(RequestsOf(p)) = 0 /\ Cardinality(AnswersOf(p)) = 1
        BY <3>1, FS_Singleton, FS_EmptySet
      <3>3. \A b \in AnswersOf(p) : b[1] # objects[p] => objects[p] > 1
        BY <2>2, <3>1
      <3> QED
        BY <3>1, <3>2, <3>3
    <2> QED
      BY <2>1, <2>3, <2>4
  <1> QED
    BY <1>1, Keep, PTL

(* On the memory the server knows, each cursor has a slot of its own, in the *)
(* server's _subscriptions and not to be disposed of: OnSubscribe grants an  *)
(* id that no one has, OnUnsubscribe marks the slots of the caller alone,    *)
(* and TopicService rebuilds the rest from the table after a restart.        *)
THEOREM SubscriptionsAreAlwaysKept == Spec => []SubscriptionsAreKept
  <1>1. KeepInv => SubscriptionsAreKept
    <2> SUFFICES ASSUME KeepInv, known, NEW p \in Clients \ misled, NEW k \in cursors[p],
                        k.memory = shm
                 PROVE  /\ owner[k.slot] = p
                        /\ k.slot \in bag \ pending
                        /\ \A l \in cursors[p] \ {k} : l.memory = shm => l.slot # k.slot
      BY DEF SubscriptionsAreKept
    <2>1. CursorsHold(p) /\ k \in Current(p)
      BY DEF KeepInv, Current
    <2>2. Holds(p, k.slot)
      BY <2>1 DEF CursorsHold
    <2>3. \A l \in cursors[p] \ {k} : l.memory = shm => l.slot # k.slot
      BY <2>1 DEF CursorsHold, Current
    <2> QED
      BY <2>2, <2>3 DEF Holds
  <1> QED
    BY <1>1, Keep, PTL

(* The server's dispatcher never meets a request whose client's queue is     *)
(* gone (open_only would throw); while no more subscriptions are asked for   *)
(* than there are slots, TopicService::Subscribe does not throw either; and  *)
(* OnUnsubscribed meets a topic that is gone only in ~SharedMemoryClient,    *)
(* after every slot was given back.                                         *)
THEOREM DiesOnlyInDestructorAlways == Spec => []DiesOnlyInDestructor
  <1>1. KeepInv => DiesOnlyInDestructor
    BY DEF KeepInv, UseInv, CallInv, TopicInUse, CursorsInUse, DiesOnlyInDestructor
  <1> QED
    BY <1>1, Keep, PTL

=================================================================================
