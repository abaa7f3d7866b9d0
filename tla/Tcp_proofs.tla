------------------------------- MODULE Tcp_proofs -------------------------------
(***************************************************************************)
(* Replication over TCP, for every number of connections, of stops of the   *)
(* source and of messages: what one connection brings is without a gap.     *)
(***************************************************************************)
EXTENDS Replication, Integers, TLAPS

Copies == [msg : Nat, parts : {AllParts(m) : m \in Nat}, conn : Nat]
Items == {"header", "payload"} \X Nat

TcpTypes ==
    /\ published \in Nat
    /\ replica \in Seq(Copies)
    /\ link \in [Connections -> {"none", "open", "closed", "cut"}]
    /\ toTarget \in [Connections -> Seq(Items)]
    /\ serving \in [Connections -> {"none", "backlog", "accepted", "message", "header", "payload",
                                     "ended"}]
    /\ cursor \in [Connections -> Nat]
    /\ conn \in 0..MaxConnections
    /\ tpc \in {"construct", "first", "begin", "header", "payload", "reconnect", "again",
                "stopped", "terminated"}

-----------------------------------------------------------------------------
(* The headers and payloads of a connection are numbered: message m has     *)
(* numbers 2m and 2m + 1.                                                   *)
Number(item) == 2 * item[2] + (IF item[1] = "header" THEN 0 ELSE 1)

(* The last item the source has written to connection c. *)
Sent(c) ==
    IF serving[c] = "message" THEN 2 * cursor[c] + 1
    ELSE IF serving[c] = "header" THEN 2 * cursor[c] - 1
    ELSE 2 * cursor[c]

Sending(c) == link[c] = "open" /\ serving[c] \in {"message", "header", "payload"}

LastCopy == replica[Len(replica)]

(* The target has a message of connection c, and reads the next one. *)
Reading(c) ==
    /\ c = conn /\ tpc \in {"header", "payload"}
    /\ replica # <<>> /\ LastCopy.conn = c

(* The last item it has read. *)
Received == IF tpc = "header" THEN 2 * LastCopy.msg + 1 ELSE 2 * LastCopy.msg + 2

(* The items under way follow number b, without a gap. *)
Follow(items, b) == \A k \in 1..Len(items) : Number(items[k]) = b + k

Stream(c, b) ==
    /\ Follow(toTarget[c], b)
    /\ Sending(c) => Sent(c) = b + Len(toTarget[c])
    /\ Reading(c) => Received = b

InStep == \A c \in Connections : \E b \in Int : Stream(c, b)

(* Nothing has come from a connection that is not served yet, nor from the  *)
(* one that the target has just opened.                                     *)
NothingFrom(c) == \A i \in 1..Len(replica) : replica[i].conn # c

Unserved ==
    \A c \in Connections : serving[c] \in {"none", "backlog", "accepted"} =>
        toTarget[c] = <<>> /\ NothingFrom(c)

Unopened == \A c \in Connections : c > conn => serving[c] = "none"

Opening ==
    /\ tpc \in {"first", "begin", "again"} => NothingFrom(conn)
    /\ tpc \in {"first", "begin", "again", "header", "payload"} => conn \in Connections

NoGap ==
    \A i \in 2..Len(replica) :
        replica[i].conn = replica[i - 1].conn => replica[i].msg = replica[i - 1].msg + 1

TcpInv ==
    /\ TcpTypes
    /\ InStep
    /\ Unserved
    /\ Unopened
    /\ Opening
    /\ NoGap

LEMMA InvInit == Init => TcpInv
  <1> SUFFICES ASSUME Init PROVE TcpInv
    OBVIOUS
  <1> USE DEF Init, TopicInit, TcpInit
  <1>1. <<>> \in Seq(Items) /\ <<>> \in Seq(Copies) /\ Len(<<>>) = 0
    OBVIOUS
  <1>2. TcpTypes
    BY <1>1, ConnectionAssumption DEF TcpTypes
  <1>3. InStep
    <2> SUFFICES ASSUME NEW c \in Connections PROVE Stream(c, 0)
      BY DEF InStep
    <2>1. toTarget[c] = <<>> /\ link[c] = "none" /\ replica = <<>>
      OBVIOUS
    <2> QED
      BY <2>1 DEF Stream, Follow, Sending, Reading
  <1>4. Unserved /\ Unopened
    BY <1>1 DEF Unserved, Unopened, NothingFrom
  <1>5. Opening /\ NoGap
    BY <1>1 DEF Opening, NoGap
  <1> QED
    BY <1>2, <1>3, <1>4, <1>5 DEF TcpInv

-----------------------------------------------------------------------------
(* A stream is kept by what does not touch it. *)
LEMMA StreamKept ==
    ASSUME NEW c, NEW b, Stream(c, b),
           toTarget'[c] = toTarget[c],
           Sending(c)' => Sending(c) /\ Sent(c)' = Sent(c),
           Reading(c)' => Reading(c) /\ Received' = Received
    PROVE  Stream(c, b)'
  BY DEF Stream, Follow

(* What leaves the copy, the data under way, and the ends of the streams    *)
(* alone.                                                                   *)
LEMMA Kept ==
    ASSUME TcpInv, TcpTypes', UNCHANGED <<toTarget, replica>>,
           \A c \in Connections : Sending(c)' => Sending(c) /\ Sent(c)' = Sent(c),
           \A c \in Connections : Reading(c)' => Reading(c) /\ Received' = Received
    PROVE  InStep' /\ NoGap'
  <1>1. InStep'
    <2> SUFFICES ASSUME NEW c \in Connections PROVE \E b \in Int : Stream(c, b)'
      BY DEF InStep
    <2>1. PICK b \in Int : Stream(c, b)
      BY DEF TcpInv, InStep
    <2>2. toTarget'[c] = toTarget[c]
      OBVIOUS
    <2>3. Stream(c, b)'
      BY <2>1, <2>2, StreamKept
    <2> QED
      BY <2>3
  <1>2. NoGap'
    BY DEF TcpInv, NoGap
  <1> QED
    BY <1>1, <1>2

-----------------------------------------------------------------------------
(* The steps that leave the copy and the data under way alone. *)

LEMMA TypesConnect ==
    ASSUME TcpInv, Connect
    PROVE  TcpTypes' /\ conn' \in Connections /\ conn' > conn /\ conn \in Nat
  <1>1. conn \in 0..MaxConnections /\ conn < MaxConnections /\ MaxConnections \in Nat
    BY ConnectionAssumption DEF TcpInv, TcpTypes, Connect
  <1>2. conn' = conn + 1 /\ conn + 1 \in 1..MaxConnections /\ conn + 1 \in 0..MaxConnections
    BY <1>1 DEF Connect
  <1>3. TcpTypes'
    BY <1>2 DEF TcpInv, TcpTypes, Connect, topicVars
  <1> QED
    BY <1>1, <1>2, <1>3 DEF Connections

LEMMA InvConnect == ASSUME TcpInv, Connect PROVE TcpInv'
  <1>1. TcpTypes' /\ conn' \in Connections /\ conn' > conn /\ conn \in Nat
    BY TypesConnect
  <1>2. UNCHANGED <<toTarget, replica, cursor>> /\ conn' = conn + 1
    BY DEF Connect, topicVars
  <1>3. serving' = [serving EXCEPT ![conn'] = "backlog"] /\ serving[conn'] = "none"
    BY <1>1, <1>2 DEF TcpInv, Unopened, Connect
  <1>4. tpc' \in {"first", "again"}
    BY DEF Connect
  <1>5. serving' \in [Connections -> {"none", "backlog", "accepted", "message", "header",
                                      "payload", "ended"}]
    BY <1>1 DEF TcpTypes
  <1>6. \A c \in Connections : c # conn' => serving'[c] = serving[c] /\ link'[c] = link[c]
    BY <1>1, <1>2, <1>3 DEF TcpInv, TcpTypes, Connect
  <1>7. serving'[conn'] = "backlog"
    BY <1>1, <1>3 DEF TcpInv, TcpTypes
  <1>8. \A c \in Connections : Sending(c)' => Sending(c) /\ Sent(c)' = Sent(c)
    BY <1>2, <1>6, <1>7 DEF Sending, Sent
  <1>9. \A c \in Connections : Reading(c)' => Reading(c) /\ Received' = Received
    BY <1>4 DEF Reading
  <1>10. InStep' /\ NoGap'
    BY <1>1, <1>2, <1>8, <1>9, Kept
  <1>11. Unserved'
    BY <1>2, <1>3, <1>6, <1>7, <1>1 DEF TcpInv, Unserved, NothingFrom
  <1>12. Unopened'
    <2> SUFFICES ASSUME NEW c \in Connections, c > conn' PROVE serving'[c] = "none"
      BY DEF Unopened
    <2>1. c > conn /\ c # conn'
      BY <1>1, <1>2 DEF Connections
    <2> QED
      BY <1>6, <2>1 DEF TcpInv, Unopened
  <1>13. Opening'
    BY <1>1, <1>2, <1>3 DEF TcpInv, Unserved, Opening, NothingFrom
  <1> QED
    BY <1>1, <1>10, <1>11, <1>12, <1>13 DEF TcpInv

(* The target's other steps without data. *)
LEMMA InvTargetQuiet ==
    ASSUME TcpInv,
           ConnectFails \/ StartReplication \/ StartReplicationThrows \/ BeginLoop \/ ReadFails
    PROVE  TcpInv'
  <1>1. /\ UNCHANGED <<toTarget, replica, published, link, serving, cursor, conn>>
        /\ tpc' \in {"begin", "header", "reconnect", "stopped", "terminated"}
    BY DEF ConnectFails, StartReplication, StartReplicationThrows, BeginLoop, ReadFails, topicVars,
           linkVars, sourceTcpVars
  <1>2. /\ tpc' = "header" => tpc \in {"again", "begin"}
        /\ tpc' = "begin" => tpc = "first"
    BY DEF ConnectFails, StartReplication, StartReplicationThrows, BeginLoop, ReadFails
  <1>3. TcpTypes'
    BY <1>1 DEF TcpInv, TcpTypes
  <1>4. \A c \in Connections : Sending(c)' => Sending(c) /\ Sent(c)' = Sent(c)
    BY <1>1 DEF Sending, Sent
  <1>5. \A c \in Connections : ~Reading(c)'
    <2> SUFFICES ASSUME NEW c \in Connections, Reading(c)' PROVE FALSE
      OBVIOUS
    <2>1. c = conn /\ tpc' = "header" /\ replica # <<>> /\ LastCopy.conn = c
      BY <1>1 DEF Reading, LastCopy
    <2>2. NothingFrom(conn)
      BY <1>2, <2>1 DEF TcpInv, Opening
    <2>3. Len(replica) \in 1..Len(replica)
      BY <2>1 DEF TcpInv, TcpTypes
    <2> QED
      BY <2>1, <2>2, <2>3 DEF NothingFrom, LastCopy
  <1>6. InStep' /\ NoGap'
    BY <1>1, <1>3, <1>4, <1>5, Kept
  <1>7. Unserved' /\ Unopened'
    BY <1>1 DEF TcpInv, Unserved, Unopened, NothingFrom
  <1>8. Opening'
    BY <1>1, <1>2 DEF TcpInv, Opening, NothingFrom
  <1> QED
    BY <1>3, <1>6, <1>7, <1>8 DEF TcpInv

(* The source's steps without data, but for the beginning of a stream. *)
LEMMA InvSourceQuiet ==
    ASSUME TcpInv, NEW c \in Connections,
           Accept(c) \/ HandleNewClientFails(c) \/ WriteFails(c)
    PROVE  TcpInv'
  <1>1. /\ UNCHANGED <<toTarget, replica, published, link, cursor, conn, tpc>>
        /\ serving[c] # "none"
        /\ \/ serving[c] = "backlog" /\ serving' = [serving EXCEPT ![c] = "accepted"]
           \/ serving' = [serving EXCEPT ![c] = "ended"]
    BY DEF Accept, HandleNewClientFails, WriteFails, topicVars, linkVars
  <1>2. TcpTypes'
    BY <1>1 DEF TcpInv, TcpTypes
  <1>3. \A d \in Connections :
           /\ d # c => serving'[d] = serving[d]
           /\ d = c => serving'[d] = "ended" \/ (serving'[d] = "accepted" /\ serving[d] = "backlog")
    BY <1>1 DEF TcpInv, TcpTypes
  <1>4. \A d \in Connections : Sending(d)' => Sending(d) /\ Sent(d)' = Sent(d)
    BY <1>1, <1>3 DEF Sending, Sent
  <1>5. \A d \in Connections : Reading(d)' => Reading(d) /\ Received' = Received
    BY <1>1 DEF Reading, Received, LastCopy
  <1>6. InStep' /\ NoGap'
    BY <1>1, <1>2, <1>4, <1>5, Kept
  <1>7. Unserved'
    BY <1>1, <1>3 DEF TcpInv, Unserved, NothingFrom
  <1>8. Unopened'
    BY <1>1, <1>3 DEF TcpInv, Unopened
  <1>9. Opening'
    BY <1>1 DEF TcpInv, Opening, NothingFrom
  <1> QED
    BY <1>2, <1>6, <1>7, <1>8, <1>9 DEF TcpInv

(* The message in hand is the next one, and nothing of it is written. *)
LEMMA InvTryReadFor ==
    ASSUME TcpInv, NEW c \in Connections, TryReadFor(c)
    PROVE  TcpInv'
  <1>1. /\ UNCHANGED <<toTarget, replica, published, link, conn, tpc>>
        /\ serving[c] = "message"
        /\ serving' = [serving EXCEPT ![c] = "header"]
        /\ cursor' = [cursor EXCEPT ![c] = cursor[c] + 1]
        /\ cursor[c] \in Nat
    BY DEF TcpInv, TcpTypes, TryReadFor, topicVars, linkVars
  <1>2. TcpTypes'
    BY <1>1 DEF TcpInv, TcpTypes
  <1>3. \A d \in Connections :
           /\ d # c => serving'[d] = serving[d] /\ cursor'[d] = cursor[d]
           /\ d = c => serving'[d] = "header" /\ cursor'[d] = cursor[d] + 1
    BY <1>1 DEF TcpInv, TcpTypes
  <1>4. \A d \in Connections : Sending(d)' => Sending(d) /\ Sent(d)' = Sent(d)
    <2> SUFFICES ASSUME NEW d \in Connections, Sending(d)'
                 PROVE  Sending(d) /\ Sent(d)' = Sent(d)
      OBVIOUS
    <2>1. CASE d # c
      BY <2>1, <1>1, <1>3 DEF Sending, Sent
    <2>2. CASE d = c
      <3>1. Sending(d)
        BY <2>2, <1>1 DEF Sending
      <3>2. Sent(d)' = 2 * (cursor[c] + 1) - 1
        BY <2>2, <1>3 DEF Sent
      <3>3. Sent(d) = 2 * cursor[c] + 1
        BY <2>2, <1>1 DEF Sent
      <3> QED
        BY <3>1, <3>2, <3>3, <1>1
    <2> QED
      BY <2>1, <2>2
  <1>5. \A d \in Connections : Reading(d)' => Reading(d) /\ Received' = Received
    BY <1>1 DEF Reading, Received, LastCopy
  <1>6. InStep' /\ NoGap'
    BY <1>1, <1>2, <1>4, <1>5, Kept
  <1>7. Unserved'
    BY <1>1, <1>3 DEF TcpInv, Unserved, NothingFrom
  <1>8. Unopened'
    BY <1>1, <1>3 DEF TcpInv, Unopened
  <1>9. Opening'
    BY <1>1 DEF TcpInv, Opening, NothingFrom
  <1> QED
    BY <1>2, <1>6, <1>7, <1>8, <1>9 DEF TcpInv

LEMMA InvSourceProcess == ASSUME TcpInv, StopSource \/ StartSource PROVE TcpInv'
  <1>1. UNCHANGED <<toTarget, replica, published, cursor, conn, tpc>>
    BY DEF StopSource, StartSource, topicVars, linkVars
  <1>2. \A c \in Connections :
           \/ link'[c] = link[c] /\ serving'[c] = serving[c]
           \/ link'[c] # "open" /\ serving'[c] = IF serving[c] = "none" THEN "none" ELSE "ended"
    BY DEF StopSource, StartSource, linkVars
  <1>3. TcpTypes'
    <2>1. CASE StopSource
      <3>1. link' \in [Connections -> {"none", "open", "closed", "cut"}]
        BY <2>1 DEF StopSource, TcpInv, TcpTypes
      <3>2. serving' \in [Connections -> {"none", "backlog", "accepted", "message", "header",
                                          "payload", "ended"}]
        BY <2>1 DEF StopSource
      <3> QED
        BY <1>1, <3>1, <3>2 DEF TcpInv, TcpTypes
    <2>2. CASE StartSource
      BY <1>1, <2>2 DEF StartSource, linkVars, TcpInv, TcpTypes
    <2> QED
      BY <2>1, <2>2
  <1>4. \A c \in Connections : Sending(c)' => Sending(c) /\ Sent(c)' = Sent(c)
    BY <1>1, <1>2 DEF Sending, Sent
  <1>5. \A c \in Connections : Reading(c)' => Reading(c) /\ Received' = Received
    BY <1>1 DEF Reading, Received, LastCopy
  <1>6. InStep' /\ NoGap'
    BY <1>1, <1>3, <1>4, <1>5, Kept
  <1>7. Unserved' /\ Unopened'
    BY <1>1, <1>2 DEF TcpInv, Unserved, Unopened, NothingFrom
  <1>8. Opening'
    BY <1>1 DEF TcpInv, Opening, NothingFrom
  <1> QED
    BY <1>3, <1>6, <1>7, <1>8 DEF TcpInv

-----------------------------------------------------------------------------
(* Sequences of items: what follows b still does when one is added at the   *)
(* end, taken from the front, or when the rest is lost.                     *)
LEMMA FollowAppend ==
    ASSUME NEW s \in Seq(Items), NEW b \in Int, Follow(s, b), NEW e \in Items,
           Number(e) = b + Len(s) + 1
    PROVE  Follow(Append(s, e), b)
  <1> SUFFICES ASSUME NEW k \in 1..Len(Append(s, e))
               PROVE  Number(Append(s, e)[k]) = b + k
    BY DEF Follow
  <1>1. Len(s) \in Nat /\ k \in 1..(Len(s) + 1)
    OBVIOUS
  <1>2. CASE k = Len(s) + 1
    <2>1. Append(s, e)[k] = e
      BY <1>2
    <2> QED
      BY <1>1, <1>2, <2>1
  <1>3. CASE k \in 1..Len(s)
    <2>1. Append(s, e)[k] = s[k]
      BY <1>3
    <2> QED
      BY <1>3, <2>1 DEF Follow
  <1> QED
    BY <1>1, <1>2, <1>3

LEMMA FollowTail ==
    ASSUME NEW s \in Seq(Items), NEW b \in Int, Follow(s, b), s # <<>>
    PROVE  /\ Number(Head(s)) = b + 1
           /\ Follow(Tail(s), b + 1)
           /\ \E n \in Nat : Len(Tail(s)) = n /\ Len(s) = n + 1
  <1>1. Len(s) \in Nat \ {0} /\ 1 \in 1..Len(s) /\ Head(s) = s[1]
    OBVIOUS
  <1>2. Number(Head(s)) = b + 1
    BY <1>1 DEF Follow
  <1>3. Follow(Tail(s), b + 1)
    <2> SUFFICES ASSUME NEW k \in 1..Len(Tail(s)) PROVE Number(Tail(s)[k]) = (b + 1) + k
      BY DEF Follow
    <2>1. k + 1 \in 1..Len(s) /\ Tail(s)[k] = s[k + 1]
      BY <1>1
    <2>2. Number(s[k + 1]) = b + (k + 1)
      BY <2>1 DEF Follow
    <2> QED
      BY <2>1, <2>2
  <1>4. Len(Tail(s)) = Len(s) - 1 /\ Len(s) - 1 \in Nat
    BY <1>1
  <1>5. PICK n \in Nat : n = Len(s) - 1
    BY <1>4
  <1>6. Len(Tail(s)) = n /\ Len(s) = n + 1
    BY <1>1, <1>4, <1>5
  <1> QED
    BY <1>2, <1>3, <1>6

LEMMA FollowPrefix ==
    ASSUME NEW s \in Seq(Items), NEW b \in Int, Follow(s, b), NEW k \in 0..Len(s)
    PROVE  Follow(SubSeq(s, 1, k), b) /\ SubSeq(s, 1, k) \in Seq(Items)
  <1>1. Len(SubSeq(s, 1, k)) = k /\ \A j \in 1..k : SubSeq(s, 1, k)[j] = s[j] /\ j \in 1..Len(s)
    OBVIOUS
  <1>2. SubSeq(s, 1, k) \in Seq(Items)
    OBVIOUS
  <1> QED
    BY <1>1, <1>2 DEF Follow

(* One stream changes, the others are kept. *)
LEMMA OneStream ==
    ASSUME TcpInv, NEW c \in Connections,
           \A d \in Connections \ {c} :
               /\ toTarget'[d] = toTarget[d]
               /\ Sending(d)' => Sending(d) /\ Sent(d)' = Sent(d)
               /\ Reading(d)' => Reading(d) /\ Received' = Received,
           NEW b \in Int, Stream(c, b)'
    PROVE  InStep'
  <1> SUFFICES ASSUME NEW d \in Connections PROVE \E e \in Int : Stream(d, e)'
    BY DEF InStep
  <1>1. CASE d = c
    BY <1>1
  <1>2. CASE d # c
    <2>1. PICK e \in Int : Stream(d, e)
      BY DEF TcpInv, InStep
    <2>2. Stream(d, e)'
      BY <1>2, <2>1, StreamKept
    <2> QED
      BY <2>2
  <1> QED
    BY <1>1, <1>2

-----------------------------------------------------------------------------
(* The stream of a connection begins behind the messages published so far. *)
LEMMA InvSubscription ==
    ASSUME TcpInv, NEW c \in Connections, HandleReplicateSubscription(c)
    PROVE  TcpInv'
  <1>1. /\ UNCHANGED <<toTarget, replica, published, link, conn, tpc>>
        /\ serving[c] = "accepted"
        /\ serving' = [serving EXCEPT ![c] = "message"]
        /\ cursor' = [cursor EXCEPT ![c] = published]
    BY DEF HandleReplicateSubscription, topicVars, linkVars
  <1>2. TcpTypes'
    BY <1>1 DEF TcpInv, TcpTypes
  <1>3. \A d \in Connections :
           /\ d # c => serving'[d] = serving[d] /\ cursor'[d] = cursor[d]
           /\ d = c => serving'[d] = "message" /\ cursor'[d] = published
    BY <1>1 DEF TcpInv, TcpTypes
  <1>4. toTarget[c] = <<>> /\ NothingFrom(c)
    BY <1>1 DEF TcpInv, Unserved
  <1>5. PICK b \in Int : b = 2 * published + 1
    BY DEF TcpInv, TcpTypes
  <1>6. ~Reading(c)'
    <2> SUFFICES ASSUME Reading(c)' PROVE FALSE
      OBVIOUS
    <2>1. replica # <<>> /\ LastCopy.conn = c
      BY <1>1 DEF Reading, LastCopy
    <2>2. Len(replica) \in 1..Len(replica)
      BY <2>1 DEF TcpInv, TcpTypes
    <2> QED
      BY <1>4, <2>1, <2>2 DEF NothingFrom, LastCopy
  <1>7. Stream(c, b)'
    <2>1. Sent(c)' = b
      BY <1>3, <1>5 DEF Sent
    <2>2. Len(toTarget'[c]) = 0
      BY <1>1, <1>4
    <2> QED
      BY <1>1, <1>5, <1>6, <2>1, <2>2 DEF Stream, Follow
  <1>8. \A d \in Connections \ {c} :
            /\ toTarget'[d] = toTarget[d]
            /\ Sending(d)' => Sending(d) /\ Sent(d)' = Sent(d)
            /\ Reading(d)' => Reading(d) /\ Received' = Received
    BY <1>1, <1>3 DEF Sending, Sent, Reading, Received, LastCopy
  <1>9. InStep'
    BY <1>5, <1>7, <1>8, OneStream
  <1>10. Unserved'
    BY <1>1, <1>3 DEF TcpInv, Unserved, NothingFrom
  <1>11. Unopened'
    BY <1>1, <1>3 DEF TcpInv, Unopened
  <1>12. Opening' /\ NoGap'
    BY <1>1 DEF TcpInv, Opening, NothingFrom, NoGap
  <1> QED
    BY <1>2, <1>9, <1>10, <1>11, <1>12 DEF TcpInv

(* What is written is the next item of the stream, or lost with the rest of *)
(* a broken connection.                                                     *)
LEMMA InvWrite ==
    ASSUME TcpInv, NEW c \in Connections, WriteHeader(c) \/ WritePayload(c)
    PROVE  TcpInv'
  <1> DEFINE kind == serving[c]
             item == <<kind, cursor[c]>>
  <1>1. /\ UNCHANGED <<replica, published, link, cursor, conn, tpc>>
        /\ serving[c] \in {"header", "payload"}
        /\ serving' = [serving EXCEPT ![c] = IF kind = "header" THEN "payload" ELSE "message"]
        /\ Written(c, kind)
    BY DEF WriteHeader, WritePayload, topicVars
  <1>2. cursor[c] \in Nat /\ item \in Items /\ toTarget[c] \in Seq(Items)
    BY <1>1 DEF TcpInv, TcpTypes, Items
  <1>3. IF link[c] = "open" THEN toTarget' = [toTarget EXCEPT ![c] = Append(toTarget[c], item)]
                            ELSE toTarget' = toTarget
    BY <1>1 DEF Written
  <1>4. \A d \in Connections :
           /\ d # c => serving'[d] = serving[d] /\ toTarget'[d] = toTarget[d]
           /\ d = c => /\ serving'[d] = IF kind = "header" THEN "payload" ELSE "message"
                       /\ toTarget'[d] = IF link[c] = "open" THEN Append(toTarget[c], item)
                                                             ELSE toTarget[c]
    BY <1>1, <1>3 DEF TcpInv, TcpTypes
  <1>5. TcpTypes'
    <2>1. toTarget' \in [Connections -> Seq(Items)]
      <3>1. Append(toTarget[c], item) \in Seq(Items)
        BY <1>2
      <3> QED
        BY <1>3, <3>1 DEF TcpInv, TcpTypes
    <2>2. serving' \in [Connections -> {"none", "backlog", "accepted", "message", "header",
                                        "payload", "ended"}]
      BY <1>1 DEF TcpInv, TcpTypes
    <2> QED
      BY <1>1, <2>1, <2>2 DEF TcpInv, TcpTypes
  <1>6. PICK b \in Int : Stream(c, b)
    BY DEF TcpInv, InStep
  <1>7. Reading(c)' => Reading(c) /\ Received' = Received
    BY <1>1 DEF Reading, Received, LastCopy
  <1>8. Stream(c, b)'
    <2>1. CASE link[c] = "open"
      <3>1. toTarget'[c] = Append(toTarget[c], item)
        BY <1>4, <2>1
      <3>2. Sent(c) = b + Len(toTarget[c]) /\ Len(toTarget[c]) \in Nat
        BY <1>1, <1>2, <1>6, <2>1 DEF Stream, Sending
      <3>3. Number(item) = Sent(c) + 1
        BY <1>1, <1>2 DEF Number, Sent
      <3>4. Sent(c)' = Sent(c) + 1
        BY <1>1, <1>2, <1>4 DEF Sent
      <3>5. Follow(toTarget[c], b) /\ Number(item) = b + Len(toTarget[c]) + 1
        BY <1>6, <3>2, <3>3 DEF Stream
      <3>6. Follow(Append(toTarget[c], item), b)
        BY <1>2, <3>5, FollowAppend
      <3>7. Len(toTarget'[c]) = Len(toTarget[c]) + 1
        BY <1>2, <3>1
      <3>8. Sending(c)' => Sent(c)' = b + Len(toTarget'[c])
        BY <3>2, <3>4, <3>7
      <3>9. Follow(toTarget[c], b)'
        BY <3>1, <3>6 DEF Follow
      <3> QED
        BY <1>6, <1>7, <3>8, <3>9 DEF Stream
    <2>2. CASE link[c] # "open"
      <3>1. toTarget'[c] = toTarget[c] /\ ~Sending(c)'
        BY <1>1, <1>4, <2>2 DEF Sending
      <3> QED
        BY <1>6, <1>7, <3>1, StreamKept
    <2> QED
      BY <2>1, <2>2
  <1>9. InStep'
    <2>1. \A d \in Connections \ {c} :
              /\ toTarget'[d] = toTarget[d]
              /\ Sending(d)' => Sending(d) /\ Sent(d)' = Sent(d)
              /\ Reading(d)' => Reading(d) /\ Received' = Received
      BY <1>1, <1>4 DEF Sending, Sent, Reading, Received, LastCopy
    <2> QED
      BY <1>6, <1>8, <2>1, OneStream
  <1>10. Unserved'
    BY <1>1, <1>4 DEF TcpInv, Unserved, NothingFrom
  <1>11. Unopened'
    BY <1>1, <1>4 DEF TcpInv, Unopened
  <1>12. Opening' /\ NoGap'
    BY <1>1 DEF TcpInv, Opening, NothingFrom, NoGap
  <1> QED
    BY <1>5, <1>9, <1>10, <1>11, <1>12 DEF TcpInv

(* A cut loses the end of the stream. *)
LEMMA InvCut == ASSUME TcpInv, NEW c \in Connections, Cut(c) PROVE TcpInv'
  <1>1. /\ UNCHANGED <<replica, published, serving, cursor, conn, tpc>>
        /\ link' = [link EXCEPT ![c] = "cut"]
    BY DEF Cut, topicVars, sourceTcpVars
  <1>2. PICK k \in 0..Len(toTarget[c]) :
            toTarget' = [toTarget EXCEPT ![c] = SubSeq(toTarget[c], 1, k)]
    BY DEF Cut
  <1>3. PICK b \in Int : Stream(c, b)
    BY DEF TcpInv, InStep
  <1>4. /\ Follow(SubSeq(toTarget[c], 1, k), b)
        /\ SubSeq(toTarget[c], 1, k) \in Seq(Items)
    <2>1. toTarget[c] \in Seq(Items)
      BY DEF TcpInv, TcpTypes
    <2>2. Follow(toTarget[c], b)
      BY <1>3 DEF Stream
    <2> QED
      BY <2>1, <2>2, FollowPrefix
  <1>5. \A d \in Connections :
           /\ d # c => link'[d] = link[d] /\ toTarget'[d] = toTarget[d]
           /\ d = c => link'[d] = "cut" /\ toTarget'[d] = SubSeq(toTarget[c], 1, k)
    BY <1>1, <1>2 DEF TcpInv, TcpTypes
  <1>6. TcpTypes'
    <2>1. toTarget' \in [Connections -> Seq(Items)]
      BY <1>2, <1>4 DEF TcpInv, TcpTypes
    <2>2. link' \in [Connections -> {"none", "open", "closed", "cut"}]
      BY <1>1 DEF TcpInv, TcpTypes
    <2> QED
      BY <1>1, <2>1, <2>2 DEF TcpInv, TcpTypes
  <1>7. Stream(c, b)'
    <2>1. ~Sending(c)'
      BY <1>5 DEF Sending
    <2>2. Follow(toTarget[c], b)'
      BY <1>4, <1>5 DEF Follow
    <2>3. Reading(c)' => Reading(c) /\ Received' = Received
      BY <1>1 DEF Reading, Received, LastCopy
    <2> QED
      BY <1>3, <2>1, <2>2, <2>3 DEF Stream
  <1>8. InStep'
    <2>1. \A d \in Connections \ {c} :
              /\ toTarget'[d] = toTarget[d]
              /\ Sending(d)' => Sending(d) /\ Sent(d)' = Sent(d)
              /\ Reading(d)' => Reading(d) /\ Received' = Received
      BY <1>1, <1>5 DEF Sending, Sent, Reading, Received, LastCopy
    <2> QED
      BY <1>3, <1>7, <2>1, OneStream
  <1>9. Unserved'
    <2> SUFFICES ASSUME NEW d \in Connections, serving[d] \in {"none", "backlog", "accepted"}
                 PROVE  toTarget'[d] = <<>> /\ NothingFrom(d)
      BY <1>1 DEF Unserved, NothingFrom
    <2>1. toTarget[d] = <<>> /\ NothingFrom(d)
      BY DEF TcpInv, Unserved
    <2>2. CASE d = c
      <3>1. k = 0 /\ toTarget[c] = <<>>
        BY <2>1, <2>2
      <3>2. SubSeq(toTarget[c], 1, k) = <<>>
        BY <3>1
      <3> QED
        BY <1>5, <2>1, <2>2, <3>2
    <2> QED
      BY <1>5, <2>1, <2>2
  <1>10. Unopened' /\ Opening' /\ NoGap'
    BY <1>1 DEF TcpInv, Unopened, Opening, NothingFrom, NoGap
  <1> QED
    BY <1>6, <1>8, <1>9, <1>10 DEF TcpInv

-----------------------------------------------------------------------------
(* What the target reads is the next item of the stream. *)
LEMMA InvReadHeader == ASSUME TcpInv, ReadHeader PROVE TcpInv'
  <1>1. /\ UNCHANGED <<replica, published, link, serving, cursor, conn>>
        /\ tpc = "header" /\ tpc' = "payload"
        /\ conn \in Connections /\ toTarget[conn] # <<>>
        /\ toTarget' = [toTarget EXCEPT ![conn] = Tail(toTarget[conn])]
    BY DEF ReadHeader, Arrives, topicVars, sourceTcpVars, TcpInv, Opening
  <1>2. toTarget[conn] \in Seq(Items) /\ Tail(toTarget[conn]) \in Seq(Items)
    BY <1>1 DEF TcpInv, TcpTypes
  <1>3. \A d \in Connections :
           toTarget'[d] = IF d = conn THEN Tail(toTarget[conn]) ELSE toTarget[d]
    BY <1>1 DEF TcpInv, TcpTypes
  <1>4. TcpTypes'
    <2>1. toTarget' \in [Connections -> Seq(Items)]
      BY <1>1, <1>2 DEF TcpInv, TcpTypes
    <2> QED
      BY <1>1, <2>1 DEF TcpInv, TcpTypes
  <1>5. PICK b \in Int : Stream(conn, b)
    BY <1>1 DEF TcpInv, InStep
  <1>6. PICK c \in Connections : c = conn
    BY <1>1
  <1>7. PICK a \in Int : a = b + 1
    OBVIOUS
  <1>8. Stream(c, a)'
    <2>1. Follow(Tail(toTarget[conn]), a)
      BY <1>1, <1>2, <1>5, <1>7, FollowTail DEF Stream
    <2>2. Follow(toTarget[c], a)'
      BY <1>3, <1>6, <2>1 DEF Follow
    <2>3. PICK n \in Nat : Len(toTarget'[c]) = n /\ Len(toTarget[conn]) = n + 1
      <3>1. PICK n \in Nat : Len(Tail(toTarget[conn])) = n /\ Len(toTarget[conn]) = n + 1
        BY <1>1, <1>2, <1>5, FollowTail DEF Stream
      <3> QED
        BY <3>1, <1>3, <1>6
    <2>4. Sending(c)' => Sent(c)' = b + Len(toTarget[conn])
      BY <1>1, <1>5, <1>6 DEF Stream, Sending, Sent
    <2>5. Sending(c)' => Sent(c)' = a + Len(toTarget'[c])
      BY <1>7, <2>3, <2>4
    <2>6. Reading(c)' => Received' = a
      <3> SUFFICES ASSUME Reading(c)' PROVE Received' = a
        OBVIOUS
      <3>1. Reading(conn) /\ Received = b
        BY <1>1, <1>5, <1>6 DEF Stream, Reading, LastCopy
      <3>2. LastCopy.msg \in Nat
        <4>1. Len(replica) \in 1..Len(replica)
          BY <3>1 DEF Reading, TcpInv, TcpTypes
        <4>2. LastCopy \in Copies
          BY <4>1 DEF LastCopy, TcpInv, TcpTypes
        <4> QED
          BY <4>2 DEF Copies
      <3>3. Received' = 2 * LastCopy.msg + 2 /\ Received = 2 * LastCopy.msg + 1
        BY <1>1 DEF Received, LastCopy
      <3> QED
        BY <1>7, <3>1, <3>2, <3>3
    <2> QED
      BY <2>2, <2>5, <2>6 DEF Stream
  <1>9. InStep'
    <2>1. \A d \in Connections \ {c} :
              /\ toTarget'[d] = toTarget[d]
              /\ Sending(d)' => Sending(d) /\ Sent(d)' = Sent(d)
              /\ Reading(d)' => Reading(d) /\ Received' = Received
      BY <1>1, <1>3, <1>6 DEF Sending, Sent, Reading
    <2> QED
      BY <1>8, <2>1, OneStream
  <1>10. Unserved'
    BY <1>1, <1>3 DEF TcpInv, Unserved, NothingFrom
  <1>11. Unopened' /\ Opening' /\ NoGap'
    BY <1>1 DEF TcpInv, Unopened, Opening, NothingFrom, NoGap
  <1> QED
    BY <1>4, <1>9, <1>10, <1>11 DEF TcpInv

LEMMA InvReadPayload == ASSUME TcpInv, ReadPayload PROVE TcpInv'
  <1>1. /\ UNCHANGED <<published, link, serving, cursor, conn>>
        /\ tpc = "payload" /\ tpc' = "header"
        /\ conn \in Connections /\ toTarget[conn] # <<>>
        /\ Head(toTarget[conn])[1] = "payload"
        /\ toTarget' = [toTarget EXCEPT ![conn] = Tail(toTarget[conn])]
    BY DEF ReadPayload, Arrives, topicVars, sourceTcpVars, TcpInv, Opening
  <1>2. /\ toTarget[conn] \in Seq(Items) /\ Tail(toTarget[conn]) \in Seq(Items)
        /\ Head(toTarget[conn]) \in Items
    BY <1>1 DEF TcpInv, TcpTypes
  <1>3. \A d \in Connections :
           toTarget'[d] = IF d = conn THEN Tail(toTarget[conn]) ELSE toTarget[d]
    BY <1>1 DEF TcpInv, TcpTypes
  <1>4. PICK m \in Nat : Head(toTarget[conn]) = <<"payload", m>>
    BY <1>1, <1>2 DEF Items
  <1>5. PICK new \in Copies : /\ new.msg = m /\ new.conn = conn
                              /\ replica' = Append(replica, new)
    <2>1. replica' = Append(replica, [msg |-> m, parts |-> AllParts(m), conn |-> conn])
      BY <1>4 DEF ReadPayload, CopyInto
    <2>2. conn \in Nat
      BY <1>1 DEF Connections
    <2> QED
      BY <2>1, <2>2 DEF Copies
  <1>6. replica \in Seq(Copies) /\ Len(replica) \in Nat
    BY DEF TcpInv, TcpTypes
  <1>7. /\ replica' \in Seq(Copies) /\ Len(replica') = Len(replica) + 1
        /\ replica'[Len(replica')] = new
        /\ \A i \in 1..Len(replica) : replica'[i] = replica[i]
    BY <1>5, <1>6
  <1>8. TcpTypes'
    <2>1. toTarget' \in [Connections -> Seq(Items)]
      BY <1>1, <1>2 DEF TcpInv, TcpTypes
    <2> QED
      BY <1>1, <1>7, <2>1 DEF TcpInv, TcpTypes
  <1>9. PICK b \in Int : Stream(conn, b)
    BY <1>1 DEF TcpInv, InStep
  <1>10. PICK c \in Connections : c = conn
    BY <1>1
  <1>11. PICK a \in Int : a = b + 1
    OBVIOUS
  <1>12. Follow(Tail(toTarget[conn]), a) /\ 2 * m + 1 = a
    <2>1. Follow(toTarget[conn], b)
      BY <1>9 DEF Stream
    <2>2. Follow(Tail(toTarget[conn]), b + 1) /\ Number(Head(toTarget[conn])) = b + 1
      BY <1>1, <1>2, <2>1, FollowTail
    <2>3. Number(Head(toTarget[conn])) = 2 * m + 1
      BY <1>4 DEF Number
    <2> QED
      BY <1>11, <2>2, <2>3
  <1>13. Stream(c, a)'
    <2>1. Follow(toTarget[c], a)'
      BY <1>3, <1>10, <1>12 DEF Follow
    <2>2. PICK n \in Nat : Len(toTarget'[c]) = n /\ Len(toTarget[conn]) = n + 1
      <3>1. PICK n \in Nat : Len(Tail(toTarget[conn])) = n /\ Len(toTarget[conn]) = n + 1
        BY <1>1, <1>2, <1>9, FollowTail DEF Stream
      <3> QED
        BY <3>1, <1>3, <1>10
    <2>3. Sending(c)' => Sent(c)' = b + Len(toTarget[conn])
      BY <1>1, <1>9, <1>10 DEF Stream, Sending, Sent
    <2>4. Sending(c)' => Sent(c)' = a + Len(toTarget'[c])
      BY <1>11, <2>2, <2>3
    <2>5. Received' = a
      BY <1>1, <1>5, <1>7, <1>12 DEF Received, LastCopy
    <2> QED
      BY <2>1, <2>4, <2>5 DEF Stream
  <1>14. InStep'
    <2>1. \A d \in Connections \ {c} :
              /\ toTarget'[d] = toTarget[d]
              /\ Sending(d)' => Sending(d) /\ Sent(d)' = Sent(d)
              /\ Reading(d)' => Reading(d) /\ Received' = Received
      BY <1>1, <1>3, <1>10 DEF Sending, Sent, Reading
    <2> QED
      BY <1>13, <2>1, OneStream
  <1>15. NoGap'
    <2> SUFFICES ASSUME NEW i \in 2..Len(replica'), replica'[i].conn = replica'[i - 1].conn
                 PROVE  replica'[i].msg = replica'[i - 1].msg + 1
      BY DEF NoGap
    <2>1. i - 1 \in 1..Len(replica) /\ replica'[i - 1] = replica[i - 1]
      BY <1>6, <1>7
    <2>2. CASE i \in 2..Len(replica)
      <3>1. replica'[i] = replica[i]
        BY <1>7, <2>2
      <3> QED
        BY <2>1, <2>2, <3>1 DEF TcpInv, NoGap
    <2>3. CASE i = Len(replica) + 1
      <3>1. i - 1 = Len(replica) /\ replica'[i] = new /\ replica[i - 1] = LastCopy
        BY <1>6, <1>7, <2>3 DEF LastCopy
      <3>2. Reading(conn)
        BY <1>1, <1>5, <2>1, <3>1 DEF Reading
      <3>3. 2 * LastCopy.msg + 2 = b
        BY <1>1, <1>9, <3>2 DEF Stream, Received
      <3>4. LastCopy.msg \in Nat
        <4>1. LastCopy \in Copies
          BY <1>6, <2>1, <3>1
        <4> QED
          BY <4>1 DEF Copies
      <3>5. m = LastCopy.msg + 1
        BY <1>11, <1>12, <3>3, <3>4
      <3> QED
        BY <1>5, <2>1, <3>1, <3>5
    <2> QED
      BY <1>6, <1>7, <2>2, <2>3
  <1>16. Unserved'
    <2> SUFFICES ASSUME NEW d \in Connections, serving[d] \in {"none", "backlog", "accepted"}
                 PROVE  toTarget'[d] = <<>> /\ NothingFrom(d)'
      BY <1>1 DEF Unserved
    <2>1. toTarget[d] = <<>> /\ NothingFrom(d)
      BY DEF TcpInv, Unserved
    <2>2. d # conn
      BY <1>1, <2>1
    <2>3. toTarget'[d] = <<>>
      BY <1>3, <2>1, <2>2
    <2>4. NothingFrom(d)'
      <3> SUFFICES ASSUME NEW i \in 1..Len(replica') PROVE replica'[i].conn # d
        BY DEF NothingFrom
      <3>1. CASE i \in 1..Len(replica)
        BY <1>7, <2>1, <3>1 DEF NothingFrom
      <3>2. CASE i = Len(replica')
        BY <1>5, <1>7, <2>2, <3>2
      <3> QED
        BY <1>6, <1>7, <3>1, <3>2
    <2> QED
      BY <2>3, <2>4
  <1>17. Unopened' /\ Opening'
    BY <1>1 DEF TcpInv, Unopened, Opening
  <1> QED
    BY <1>8, <1>14, <1>15, <1>16, <1>17 DEF TcpInv

-----------------------------------------------------------------------------
(* A publication, and the steps that leave the model alone. *)
LEMMA InvPublish ==
    ASSUME TcpInv, UNCHANGED <<replica, tcpVars>>, published' = published \/ published' = published + 1
    PROVE  TcpInv'
  <1>1. UNCHANGED <<replica, link, toTarget, serving, cursor, conn, tpc>>
    BY DEF tcpVars, linkVars, sourceTcpVars
  <1>2. TcpTypes'
    BY <1>1 DEF TcpInv, TcpTypes
  <1>3. \A c \in Connections : Sending(c)' => Sending(c) /\ Sent(c)' = Sent(c)
    BY <1>1 DEF Sending, Sent
  <1>4. \A c \in Connections : Reading(c)' => Reading(c) /\ Received' = Received
    BY <1>1 DEF Reading, Received, LastCopy
  <1>5. InStep' /\ NoGap'
    BY <1>1, <1>2, <1>3, <1>4, Kept
  <1>6. Unserved' /\ Unopened' /\ Opening'
    BY <1>1 DEF TcpInv, Unserved, Unopened, Opening, NothingFrom
  <1> QED
    BY <1>2, <1>5, <1>6 DEF TcpInv

LEMMA InvTcpNext == ASSUME TcpInv, TcpNext PROVE TcpInv'
  <1>1. CASE TargetSteps
    BY <1>1, InvConnect, InvTargetQuiet, InvReadHeader, InvReadPayload DEF TargetSteps
  <1>2. ASSUME NEW c \in Connections, SourceSteps(c) \/ Cut(c) PROVE TcpInv'
    BY <1>2, InvSourceQuiet, InvSubscription, InvTryReadFor, InvWrite, InvCut DEF SourceSteps
  <1>3. CASE StopSource \/ StartSource
    BY <1>3, InvSourceProcess
  <1> QED
    BY <1>1, <1>2, <1>3 DEF TcpNext

(* Over TCP, whatever the numbers of connections, stops and messages, the   *)
(* copy has a gap only where the connection changed: ReadExactly and the    *)
(* cursor of HandleReplicateSubscription lose nothing on a connection.      *)
THEOREM NoGapsWithinConnection == Spec => []GapsOnlyAtReconnects
  <1> DEFINE Inv == transport = "tcp" => TcpInv
  <1>1. Init => Inv
    BY InvInit
  <1>2. Inv /\ [Next]_vars => Inv'
    <2> SUFFICES ASSUME Inv, [Next]_vars, transport' = "tcp" PROVE TcpInv'
      OBVIOUS
    <2>1. transport = "tcp" /\ TcpInv
      BY DEF Next, vars
    <2>2. CASE Publish /\ UNCHANGED <<udpVars, tcpVars, transport>>
      BY <2>1, <2>2, InvPublish DEF Publish
    <2>3. CASE TcpNext
      BY <2>1, <2>3, InvTcpNext
    <2>4. CASE UNCHANGED vars
      BY <2>1, <2>4, InvPublish DEF vars, topicVars
    <2> QED
      BY <2>1, <2>2, <2>3, <2>4 DEF Next
  <1>3. Inv => GapsOnlyAtReconnects
    <2> SUFFICES ASSUME TcpInv, NEW i \in DOMAIN replica \ {1},
                        replica[i].conn = replica[i - 1].conn
                 PROVE  replica[i].msg = replica[i - 1].msg + 1
      BY DEF GapsOnlyAtReconnects
    <2>1. i \in 2..Len(replica)
      BY DEF TcpInv, TcpTypes
    <2> QED
      BY <2>1 DEF TcpInv, NoGap
  <1> QED
    BY <1>1, <1>2, <1>3, PTL DEF Spec

=================================================================================
