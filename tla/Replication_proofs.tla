--------------------------- MODULE Replication_proofs ---------------------------
(***************************************************************************)
(* Replication over both transports, for every topic, every number of       *)
(* connections, stops and duplicates and every size of block: the copy is   *)
(* one that Replica allows, and an exact one over a UDP network that is in  *)
(* order.                                                                   *)
(***************************************************************************)
EXTENDS Tcp_proofs, FastBitSet_proofs

(* The replica holds whole messages of those that were published. *)
WholeCopies ==
    /\ published \in 0..Len(Chunks)
    /\ replica \in Seq(Copies)
    /\ \A i \in 1..Len(replica) :
           replica[i].msg \in 1..published /\ replica[i].parts = AllParts(replica[i].msg)

-----------------------------------------------------------------------------
(* The stamp of message m, when r messages were published before the host   *)
(* of the source restarted: even before, odd after.                         *)
StampOf(r, m) == IF m <= r THEN 2 * m + 2 ELSE 2 * (m - r) + 1

LEMMA StampType == ASSUME NEW r \in Nat, NEW m \in Nat PROVE StampOf(r, m) \in Nat
  BY DEF StampOf

LEMMA StampsDiffer ==
    ASSUME NEW r \in Nat, NEW m \in Nat, NEW n \in Nat, StampOf(r, m) = StampOf(r, n)
    PROVE  m = n
  BY DEF StampOf

(* The datagrams of the first n messages. *)
Datagrams(r, n) ==
    {d \in [msg : 1..n, created : Nat, seq : Nat] :
        d.created = StampOf(r, d.msg) /\ d.seq \in AllParts(d.msg)}

InParts(m) == Chunks[m] > 1

(* A frame of the defragmentator, with the bits of the fragments it has. *)
FrameOf(f) ==
    /\ f = [msg |-> f.msg, bits |-> f.bits, parts |-> f.parts]
    /\ f.msg \in Messages /\ InParts(f.msg)
    /\ f.parts \subseteq AllParts(f.msg)
    /\ TreeOf(f.bits, Chunks[f.msg], f.parts)

(* The clock of the source counts the messages it reads. *)
SourceState(r) ==
    /\ r \in Nat
    /\ restarted \in BOOLEAN
    /\ position \in 0..published
    /\ IF restarted THEN r <= position /\ now = 2 * (position - r) + 1
       ELSE r = Len(Chunks) /\ now = 2 * position + 2
    /\ sending \in Datagrams(r, position) \union {NoDatagram}
    /\ net \subseteq Datagrams(r, position)

(* While the target is up there is one frame at most, since a second one    *)
(* finds no span; its stamp is that of its message.                         *)
FrameState(r) ==
    /\ up \in BOOLEAN
    /\ up => previousFrame = NoFrame
    /\ currentFrameCreated \in Nat
    /\ currentFrame # NoFrame =>
           /\ FrameOf(currentFrame)
           /\ currentFrame.msg <= position
           /\ currentFrameCreated = StampOf(r, currentFrame.msg)

(* The messages of several datagrams that were copied have stamps up to the *)
(* one of the frame opened last, and that of an open frame is not among     *)
(* them.                                                                    *)
CopiesState(r) ==
    \A i \in 1..Len(replica) : LET m == replica[i].msg IN
        /\ m <= position
        /\ InParts(m) =>
               /\ StampOf(r, m) <= currentFrameCreated
               /\ currentFrame # NoFrame => m # currentFrame.msg

UdpInv(r) ==
    /\ WholeCopies
    /\ SourceState(r)
    /\ FrameState(r)
    /\ CopiesState(r)

LEMMA UdpInvInit == Init => UdpInv(Len(Chunks))
  <1> SUFFICES ASSUME Init PROVE UdpInv(Len(Chunks))
    OBVIOUS
  <1> USE DEF Init, TopicInit, UdpInit
  <1>1. Len(Chunks) \in Nat /\ <<>> \in Seq(Copies) /\ Len(<<>>) = 0
    BY ChunksAssumption
  <1>2. WholeCopies
    BY <1>1 DEF WholeCopies
  <1>3. SourceState(Len(Chunks))
    <2>1. position = 0 /\ published = 0 /\ now = 2 /\ restarted = FALSE
      OBVIOUS
    <2>2. sending \in Datagrams(Len(Chunks), position) \union {NoDatagram}
      OBVIOUS
    <2>3. net \subseteq Datagrams(Len(Chunks), position)
      OBVIOUS
    <2>4. position \in 0..published /\ now = 2 * position + 2
      BY <2>1
    <2>5. restarted \in BOOLEAN /\ ~restarted
      BY <2>1, Zenon
    <2> QED
      BY <1>1, <2>2, <2>3, <2>4, <2>5 DEF SourceState
  <1>4. FrameState(Len(Chunks))
    BY DEF FrameState
  <1>5. CopiesState(Len(Chunks))
    BY <1>1 DEF CopiesState
  <1> QED
    BY <1>2, <1>3, <1>4, <1>5 DEF UdpInv

LEMMA ChunkCount == ASSUME NEW m \in Messages PROVE Chunks[m] \in Nat \ {0} /\ m \in Nat /\ m # 0
  BY ChunksAssumption DEF Messages

LEMMA MessagesRead ==
    ASSUME NEW r, WholeCopies, SourceState(r)
    PROVE  1..position \subseteq Messages /\ position \in Nat /\ published \in Nat
  BY ChunksAssumption DEF WholeCopies, SourceState, Messages

LEMMA DatagramFacts ==
    ASSUME NEW r, NEW n, NEW d \in Datagrams(r, n)
    PROVE  /\ d = [msg |-> d.msg, created |-> d.created, seq |-> d.seq]
           /\ d.msg \in 1..n /\ d.created = StampOf(r, d.msg) /\ d.created \in Nat
           /\ d.seq \in AllParts(d.msg) /\ d.seq \in Nat
  BY DEF Datagrams

LEMMA ANewDatagram ==
    ASSUME NEW r, NEW n, NEW m \in 1..n, NEW k \in AllParts(m), k \in Nat, StampOf(r, m) \in Nat
    PROVE  [msg |-> m, created |-> StampOf(r, m), seq |-> k] \in Datagrams(r, n)
  BY DEF Datagrams

-----------------------------------------------------------------------------
(* Writing a fragment into a frame. *)
LEMMA WrittenFrame ==
    ASSUME NEW f, FrameOf(f), NEW d, d.msg = f.msg, d.seq \in AllParts(f.msg)
    PROVE  /\ getBit(f.bits, Chunks[d.msg], d.seq) <=> d.seq \in f.parts
           /\ FrameOf(writeChunk(f, d))
           /\ writeChunk(f, d).msg = f.msg
           /\ writeChunk(f, d).parts = f.parts \union {d.seq}
           /\ isComplete(writeChunk(f, d).bits) <=> writeChunk(f, d).parts = AllParts(f.msg)
  <1>1. PICK n \in Nat \ {0} : n = Chunks[f.msg]
    BY ChunkCount DEF FrameOf
  <1>2. AllParts(f.msg) = Bits(n) /\ d.seq \in Bits(n)
    BY <1>1 DEF AllParts, Bits
  <1>3. TreeOf(f.bits, n, f.parts)
    BY <1>1 DEF FrameOf
  <1>4. PICK b : b = setBit(f.bits, n, d.seq)
    OBVIOUS
  <1>5. PICK p : p = f.parts \union {d.seq}
    OBVIOUS
  <1>6. TreeOf(b, n, p)
    BY <1>2, <1>3, <1>4, <1>5, SetBitAdds
  <1>7. PICK w : w = writeChunk(f, d)
    OBVIOUS
  <1>8. w = [msg |-> f.msg, bits |-> b, parts |-> p]
    BY <1>1, <1>4, <1>5, <1>7 DEF writeChunk, FrameOf
  <1>9. p \subseteq AllParts(f.msg)
    BY <1>5 DEF FrameOf
  <1>10. w.msg = f.msg /\ w.bits = b /\ w.parts = p
    BY <1>8
  <1>11. FrameOf(w)
    BY <1>1, <1>6, <1>8, <1>9, <1>10 DEF FrameOf
  <1>12. isComplete(b) <=> p = AllParts(f.msg)
    BY <1>2, <1>6, <1>9, RootTellsCompleteness
  <1>13. getBit(f.bits, Chunks[d.msg], d.seq) <=> d.seq \in f.parts
    BY <1>1, <1>2, <1>3 DEF TreeOf
  <1> QED
    BY <1>5, <1>7, <1>10, <1>11, <1>12, <1>13

LEMMA OpenedFrame ==
    ASSUME NEW d, d.msg \in Messages, InParts(d.msg), d.seq \in AllParts(d.msg)
    PROVE  /\ FrameOf(Opened(d))
           /\ Opened(d).msg = d.msg
           /\ Opened(d).parts = {d.seq}
  <1>1. PICK f : f = [msg |-> d.msg, bits |-> NewTree(Chunks[d.msg]), parts |-> {}]
    OBVIOUS
  <1>2. f.msg = d.msg /\ f.bits = NewTree(Chunks[d.msg]) /\ f.parts = {}
    BY <1>1
  <1>3. TreeOf(f.bits, Chunks[f.msg], f.parts)
    BY <1>2, ChunkCount, NewTreeIsEmpty
  <1>4. FrameOf(f)
    BY <1>1, <1>2, <1>3 DEF FrameOf
  <1>5. Opened(d) = writeChunk(f, d)
    BY <1>1 DEF Opened
  <1>6. /\ FrameOf(writeChunk(f, d)) /\ writeChunk(f, d).msg = f.msg
        /\ writeChunk(f, d).parts = f.parts \union {d.seq}
    BY <1>2, <1>4, WrittenFrame
  <1>7. f.parts \union {d.seq} = {d.seq}
    BY <1>2
  <1> QED
    BY <1>2, <1>5, <1>6, <1>7

-----------------------------------------------------------------------------
(* Steps of the source, of the publisher and of the network leave the       *)
(* target alone.                                                            *)
LEMMA TargetAlone ==
    ASSUME NEW r \in Nat, UdpInv(r), UNCHANGED <<replica, frameVars, up>>,
           published' \in 0..Len(Chunks), published <= published', position <= position',
           NEW s \in Nat, SourceState(s)',
           \A m \in 1..position : StampOf(s, m) = StampOf(r, m)
    PROVE  UdpInv(s)'
  <1>1. /\ position \in Nat /\ position' \in Nat /\ published \in Nat /\ published' \in Nat
        /\ Len(Chunks) \in Nat
    BY ChunksAssumption DEF UdpInv, WholeCopies, SourceState
  <1>2. UNCHANGED <<currentFrame, previousFrame, currentFrameCreated>>
    BY DEF frameVars
  <1>3. WholeCopies'
    <2>1. \A i \in 1..Len(replica) : replica[i].msg \in 1..published /\ replica[i].msg \in 1..published'
      BY <1>1 DEF UdpInv, WholeCopies
    <2> QED
      BY <2>1 DEF UdpInv, WholeCopies
  <1>4. FrameState(s)'
    <2>1. ASSUME currentFrame # NoFrame
          PROVE  currentFrame.msg <= position' /\ currentFrameCreated = StampOf(s, currentFrame.msg)
      <3>1. /\ currentFrame.msg \in Messages /\ currentFrame.msg <= position
            /\ currentFrameCreated = StampOf(r, currentFrame.msg)
        BY <2>1 DEF UdpInv, FrameState, FrameOf
      <3>2. currentFrame.msg \in 1..position
        BY <1>1, <3>1, ChunkCount DEF Messages
      <3> QED
        BY <1>1, <3>1, <3>2
    <2> QED
      BY <1>2, <2>1 DEF UdpInv, FrameState
  <1>5. CopiesState(s)'
    <2> SUFFICES ASSUME NEW i \in 1..Len(replica), NEW m, m = replica[i].msg
                 PROVE  /\ m <= position'
                        /\ InParts(m) => /\ StampOf(s, m) <= currentFrameCreated
                                         /\ currentFrame # NoFrame => m # currentFrame.msg
      BY <1>2 DEF CopiesState
    <2>1. /\ m <= position
          /\ InParts(m) => /\ StampOf(r, m) <= currentFrameCreated
                           /\ currentFrame # NoFrame => m # currentFrame.msg
      BY DEF UdpInv, CopiesState
    <2>2. m \in 1..published
      BY DEF UdpInv, WholeCopies
    <2>3. m \in 1..position /\ m <= position'
      BY <1>1, <2>1, <2>2
    <2> QED
      BY <2>1, <2>3
  <1> QED
    BY <1>3, <1>4, <1>5 DEF UdpInv

LEMMA UdpPublish ==
    ASSUME NEW r \in Nat, UdpInv(r), Publish, UNCHANGED udpVars PROVE UdpInv(r)'
  <1>1. UNCHANGED <<replica, frameVars, up, restarted, position, now, sending, net>>
    BY DEF Publish, udpVars, sourceVars
  <1>2. /\ published' \in 0..Len(Chunks) /\ published <= published' /\ position <= position'
        /\ position \in 0..published'
    BY <1>1, ChunksAssumption DEF Publish, UdpInv, WholeCopies, SourceState
  <1>3. SourceState(r)'
    BY <1>1, <1>2 DEF UdpInv, SourceState
  <1> QED
    BY <1>1, <1>2, <1>3, TargetAlone

LEMMA UdpStutter ==
    ASSUME NEW r \in Nat, UdpInv(r), UNCHANGED <<topicVars, udpVars>> PROVE UdpInv(r)'
  <1>1. UNCHANGED <<replica, published, frameVars, up, restarted, position, now, sending, net>>
    BY DEF topicVars, udpVars, sourceVars
  <1>2. published' \in 0..Len(Chunks) /\ published <= published' /\ position <= position'
    BY <1>1, ChunksAssumption DEF UdpInv, WholeCopies, SourceState
  <1>3. SourceState(r)'
    BY <1>1, <1>2 DEF UdpInv, SourceState
  <1> QED
    BY <1>1, <1>2, <1>3, TargetAlone

LEMMA DatagramsGrow ==
    ASSUME NEW r, NEW n \in Nat, NEW k \in Nat, n <= k PROVE Datagrams(r, n) \subseteq Datagrams(r, k)
  BY DEF Datagrams

LEMMA UdpTakeMessage == ASSUME NEW r \in Nat, UdpInv(r), TakeMessage PROVE UdpInv(r)'
  <1>1. /\ UNCHANGED <<replica, published, frameVars, up, restarted, net>>
        /\ position < published /\ position' = position + 1 /\ now' = now + 2
        /\ sending' = [msg |-> position + 1, created |-> now + 2, seq |-> 0]
    BY DEF TakeMessage, topicVars
  <1>2. /\ position \in Nat /\ published \in 0..Len(Chunks) /\ published \in Nat /\ Len(Chunks) \in Nat
        /\ position' \in 0..published' /\ position <= position' /\ published <= published'
        /\ position' \in Nat /\ position' \in Messages
    BY <1>1, ChunksAssumption DEF UdpInv, WholeCopies, SourceState, Messages
  <1>3. \/ restarted /\ r <= position /\ now = 2 * (position - r) + 1
        \/ ~restarted /\ r = Len(Chunks) /\ now = 2 * position + 2
    BY DEF UdpInv, SourceState
  <1>4. now + 2 = StampOf(r, position + 1)
    BY <1>1, <1>2, <1>3 DEF StampOf
  <1>5. sending' \in Datagrams(r, position')
    <2>1. position' \in 1..position' /\ 0 \in AllParts(position')
      BY <1>1, <1>2, ChunkCount DEF AllParts
    <2>2. StampOf(r, position') \in Nat
      BY <1>2, StampType
    <2>3. [msg |-> position', created |-> StampOf(r, position'), seq |-> 0] \in Datagrams(r, position')
      BY <2>1, <2>2, ANewDatagram
    <2> QED
      BY <1>1, <1>4, <2>3
  <1>6. net' \subseteq Datagrams(r, position')
    BY <1>1, <1>2, DatagramsGrow DEF UdpInv, SourceState
  <1>7. restarted' \in BOOLEAN
    BY <1>1 DEF UdpInv, SourceState
  <1>8. IF restarted' THEN r <= position' /\ now' = 2 * (position' - r) + 1
        ELSE r = Len(Chunks) /\ now' = 2 * position' + 2
    <2>1. (restarted' <=> restarted)
      BY <1>1
    <2>2. CASE restarted /\ r <= position /\ now = 2 * (position - r) + 1
      <3>1. r <= position' /\ now' = 2 * (position' - r) + 1
        BY <1>1, <1>2, <2>2
      <3> QED
        BY <2>1, <2>2, <3>1
    <2>3. CASE ~restarted /\ r = Len(Chunks) /\ now = 2 * position + 2
      <3>1. r = Len(Chunks) /\ now' = 2 * position' + 2
        BY <1>1, <1>2, <2>3
      <3> QED
        BY <2>1, <2>3, <3>1
    <2> QED
      BY <1>3, <2>2, <2>3
  <1>9. SourceState(r)'
    BY <1>2, <1>5, <1>6, <1>7, <1>8 DEF SourceState
  <1>10. published' \in 0..Len(Chunks)
    BY <1>1, <1>2
  <1> QED
    BY <1>1, <1>2, <1>9, <1>10, TargetAlone

LEMMA UdpSendDatagram == ASSUME NEW r \in Nat, UdpInv(r), SendDatagram PROVE UdpInv(r)'
  <1>1. /\ UNCHANGED <<replica, published, frameVars, up, restarted, position, now>>
        /\ sending # NoDatagram /\ net' = net \union {sending}
        /\ sending' = IF sending.seq + 1 < Chunks[sending.msg]
                      THEN [sending EXCEPT !.seq = sending.seq + 1]
                      ELSE NoDatagram
    BY DEF SendDatagram, topicVars
  <1>2. /\ position \in Nat /\ published \in 0..Len(Chunks) /\ position <= position'
        /\ published' \in 0..Len(Chunks) /\ published <= published'
    BY <1>1, ChunksAssumption DEF UdpInv, WholeCopies, SourceState
  <1>3. sending \in Datagrams(r, position)
    BY <1>1 DEF UdpInv, SourceState
  <1>4. sending' \in Datagrams(r, position) \union {NoDatagram}
    <2> SUFFICES ASSUME sending.seq + 1 < Chunks[sending.msg]
                 PROVE  [sending EXCEPT !.seq = sending.seq + 1] \in Datagrams(r, position)
      BY <1>1
    <2>1. /\ sending = [msg |-> sending.msg, created |-> sending.created, seq |-> sending.seq]
          /\ sending.msg \in 1..position /\ sending.created = StampOf(r, sending.msg)
          /\ sending.created \in Nat /\ sending.seq \in Nat
      BY <1>3, DatagramFacts
    <2>2. sending.seq + 1 \in AllParts(sending.msg)
      <3>1. sending.msg \in Messages
        BY <2>1, MessagesRead DEF UdpInv
      <3>2. Chunks[sending.msg] \in Nat
        BY <3>1, ChunkCount
      <3> QED
        BY <2>1, <3>2 DEF AllParts
    <2>3. [sending EXCEPT !.seq = sending.seq + 1]
          = [msg |-> sending.msg, created |-> StampOf(r, sending.msg), seq |-> sending.seq + 1]
      BY <2>1
    <2>4. sending.seq + 1 \in Nat /\ StampOf(r, sending.msg) \in Nat
      BY <2>1
    <2> QED
      BY <2>1, <2>2, <2>3, <2>4, ANewDatagram
  <1>5. net' \subseteq Datagrams(r, position)
    BY <1>1, <1>3 DEF UdpInv, SourceState
  <1>6. SourceState(r)'
    BY <1>1, <1>4, <1>5 DEF UdpInv, SourceState
  <1> QED
    BY <1>1, <1>2, <1>6, TargetAlone

LEMMA UdpLose == ASSUME NEW r \in Nat, UdpInv(r), NEW d, Lose(d) PROVE UdpInv(r)'
  <1>1. /\ UNCHANGED <<replica, published, frameVars, up, restarted, position, now, sending>>
        /\ net' \subseteq net
    BY DEF Lose, topicVars, sourceVars
  <1>2. published' \in 0..Len(Chunks) /\ published <= published' /\ position <= position'
    BY <1>1, ChunksAssumption DEF UdpInv, WholeCopies, SourceState
  <1>3. SourceState(r)'
    BY <1>1 DEF UdpInv, SourceState
  <1> QED
    BY <1>1, <1>2, <1>3, TargetAlone

(* The stamps of the messages published before the restart stay what they   *)
(* were.                                                                    *)
LEMMA UdpRestart ==
    ASSUME NEW r \in Nat, UdpInv(r), RestartSource
    PROVE  \E s \in Nat : UdpInv(s)'
  <1>1. /\ UNCHANGED <<replica, published, frameVars, up, net>>
        /\ ~restarted /\ restarted' = TRUE /\ now' = 1 /\ position' = published
        /\ sending' = NoDatagram
    BY DEF RestartSource, topicVars
  <1>2. /\ position \in Nat /\ published \in 0..Len(Chunks) /\ published \in Nat /\ Len(Chunks) \in Nat
        /\ position <= published /\ published' \in 0..Len(Chunks) /\ published <= published'
        /\ position <= position'
    BY <1>1, ChunksAssumption DEF UdpInv, WholeCopies, SourceState
  <1>3. r = Len(Chunks)
    BY <1>1 DEF UdpInv, SourceState
  <1>4. PICK s \in Nat : s = published
    BY <1>2
  <1>5. \A m \in 1..position : StampOf(s, m) = StampOf(r, m)
    BY <1>2, <1>3, <1>4 DEF StampOf
  <1>6. net' \subseteq Datagrams(s, position')
    <2> SUFFICES ASSUME NEW d \in net PROVE d \in Datagrams(s, position')
      BY <1>1
    <2>1. d \in Datagrams(r, position)
      BY DEF UdpInv, SourceState
    <2>2. d.msg \in 1..position' /\ StampOf(s, d.msg) = StampOf(r, d.msg)
      BY <1>1, <1>2, <1>5, <2>1, DatagramFacts
    <2> QED
      BY <2>1, <2>2 DEF Datagrams
  <1>7. SourceState(s)'
    <2>1. restarted' \in BOOLEAN /\ restarted'
      BY <1>1, Zenon
    <2>2. s <= position' /\ now' = 2 * (position' - s) + 1 /\ position' \in 0..published'
      BY <1>1, <1>2, <1>4
    <2> QED
      BY <1>1, <1>6, <2>1, <2>2 DEF SourceState
  <1>8. UdpInv(s)'
    BY <1>1, <1>2, <1>5, <1>7, TargetAlone
  <1> QED
    BY <1>8

-----------------------------------------------------------------------------
(* Message m is new, and later than the others that come in order. *)
Fresh(m) ==
    \A i \in 1..Len(replica) :
        /\ replica[i].msg # m
        /\ ~restarted /\ InParts(replica[i].msg) => replica[i].msg < m

UdpCopies ==
    \/ UNCHANGED replica
    \/ \E m \in 1..published : CopyInto(m, AllParts(m), 0) /\ (InParts(m) => Fresh(m))

LEMMA CopyAppended ==
    ASSUME WholeCopies, UNCHANGED published, NEW m \in 1..published, NEW c \in Nat,
           CopyInto(m, AllParts(m), c)
    PROVE  /\ WholeCopies'
           /\ Len(replica) \in Nat /\ Len(replica') = Len(replica) + 1
           /\ replica'[Len(replica')].msg = m /\ replica'[Len(replica')].conn = c
           /\ \A i \in 1..Len(replica) : replica'[i] = replica[i]
  <1>1. PICK new \in Copies : /\ new.msg = m /\ new.parts = AllParts(m) /\ new.conn = c
                              /\ replica' = Append(replica, new)
    <2>1. m \in Nat
      BY DEF WholeCopies
    <2> QED
      BY <2>1 DEF CopyInto, Copies
  <1>2. replica \in Seq(Copies) /\ Len(replica) \in Nat
    BY DEF WholeCopies
  <1>3. /\ replica' \in Seq(Copies) /\ Len(replica') = Len(replica) + 1
        /\ replica'[Len(replica')] = new
        /\ \A i \in 1..Len(replica) : replica'[i] = replica[i]
    BY <1>1, <1>2
  <1>4. WholeCopies'
    <2> SUFFICES ASSUME NEW i \in 1..Len(replica')
                 PROVE  replica'[i].msg \in 1..published /\ replica'[i].parts = AllParts(replica'[i].msg)
      BY <1>3 DEF WholeCopies
    <2>1. CASE i \in 1..Len(replica)
      BY <1>3, <2>1 DEF WholeCopies
    <2>2. CASE i = Len(replica')
      BY <1>1, <1>3, <2>2
    <2> QED
      BY <1>2, <1>3, <2>1, <2>2
  <1> QED
    BY <1>1, <1>2, <1>3, <1>4

LEMMA SourceAlone ==
    ASSUME NEW r, SourceState(r), UNCHANGED <<published, sourceVars>>, net' \subseteq net
    PROVE  SourceState(r)'
  BY DEF SourceState, sourceVars

(* What a step of the target without a copy has to keep. *)
LEMMA NothingCopied ==
    ASSUME NEW r, UdpInv(r), UNCHANGED <<published, sourceVars, replica>>, net' \subseteq net,
           FrameState(r)', CopiesState(r)'
    PROVE  UdpInv(r)' /\ UdpCopies
  <1>1. SourceState(r)'
    BY SourceAlone DEF UdpInv
  <1>2. WholeCopies'
    BY DEF UdpInv, WholeCopies
  <1> QED
    BY <1>1, <1>2 DEF UdpInv, UdpCopies

LEMMA Terminates ==
    ASSUME NEW r, UdpInv(r), UNCHANGED <<published, sourceVars>>, net' \subseteq net,
           Terminate, UNCHANGED currentFrameCreated, currentFrame' = NoFrame
    PROVE  UdpInv(r)' /\ UdpCopies
  <1>1. up' = FALSE /\ UNCHANGED <<replica, position>>
    BY DEF Terminate, sourceVars
  <1>2. up' \in BOOLEAN /\ ~up'
    BY <1>1, Zenon
  <1>3. FrameState(r)'
    BY <1>2 DEF UdpInv, FrameState
  <1>4. CopiesState(r)'
    BY <1>1 DEF UdpInv, CopiesState
  <1> QED
    BY <1>1, <1>3, <1>4, NothingCopied

LEMMA UdpWhole ==
    ASSUME NEW r \in Nat, UdpInv(r), NEW d \in Datagrams(r, position), ProcessWhole(d),
           UNCHANGED <<published, sourceVars>>, net' \subseteq net
    PROVE  UdpInv(r)' /\ UdpCopies
  <1>1. /\ Chunks[d.msg] = 1
        /\ UNCHANGED <<currentFrame, previousFrame, currentFrameCreated, position>>
    BY DEF ProcessWhole, frameVars, sourceVars, Whole
  <1>2. SourceState(r)'
    BY SourceAlone DEF UdpInv
  <1>3. CASE SpanIsTaken
    <2>1. up' = FALSE /\ UNCHANGED replica
      BY <1>3 DEF ProcessWhole, Terminate
    <2>2. up' \in BOOLEAN /\ ~up'
      BY <2>1, Zenon
    <2>3. FrameState(r)'
      BY <1>1, <2>2 DEF UdpInv, FrameState
    <2>4. CopiesState(r)'
      BY <1>1, <2>1 DEF UdpInv, CopiesState
    <2> QED
      BY <2>1, <2>3, <2>4, NothingCopied
  <1>4. CASE ~SpanIsTaken
    <2>1. CopyInto(d.msg, AllParts(d.msg), 0) /\ UNCHANGED up
      BY <1>4 DEF ProcessWhole
    <2>2. PICK m \in 1..published : m = d.msg /\ m <= position /\ ~InParts(m)
      <3>1. d.msg \in 1..position
        BY DatagramFacts
      <3>2. d.msg \in 1..published /\ d.msg <= position
        BY <3>1 DEF UdpInv, SourceState, WholeCopies
      <3> QED
        BY <1>1, <3>2 DEF InParts
    <2>3. /\ WholeCopies'
          /\ Len(replica) \in Nat /\ Len(replica') = Len(replica) + 1
          /\ replica'[Len(replica')].msg = m
          /\ \A i \in 1..Len(replica) : replica'[i] = replica[i]
      BY <2>1, <2>2, CopyAppended DEF UdpInv
    <2>4. CopiesState(r)'
      <3> SUFFICES ASSUME NEW i \in 1..Len(replica'), NEW n, n = replica'[i].msg
                   PROVE  /\ n <= position
                          /\ InParts(n) => /\ StampOf(r, n) <= currentFrameCreated
                                           /\ currentFrame # NoFrame => n # currentFrame.msg
        BY <1>1 DEF CopiesState
      <3>1. CASE i \in 1..Len(replica)
        <4>1. n = replica[i].msg
          BY <2>3, <3>1
        <4> QED
          BY <3>1, <4>1 DEF UdpInv, CopiesState
      <3>2. CASE i = Len(replica')
        BY <2>2, <2>3, <3>2
      <3> QED
        BY <2>3, <3>1, <3>2
    <2>5. FrameState(r)'
      BY <1>1, <2>1 DEF UdpInv, FrameState
    <2>6. UdpCopies
      BY <2>1, <2>2 DEF UdpCopies
    <2> QED
      BY <1>2, <2>3, <2>4, <2>5, <2>6 DEF UdpInv
  <1> QED
    BY <1>3, <1>4

LEMMA UdpLate ==
    ASSUME NEW r \in Nat, UdpInv(r), up, NEW d, ProcessLate(d),
           UNCHANGED <<published, sourceVars>>, net' \subseteq net
    PROVE  UdpInv(r)' /\ UdpCopies
  <1>1. /\ UNCHANGED <<replica, currentFrame, currentFrameCreated, up, position>>
        /\ previousFrame' = NoFrame \/ previousFrame' = previousFrame
    BY DEF ProcessLate, sourceVars
  <1>2. FrameState(r)'
    BY <1>1 DEF UdpInv, FrameState
  <1>3. CopiesState(r)'
    BY <1>1 DEF UdpInv, CopiesState
  <1> QED
    BY <1>1, <1>2, <1>3, NothingCopied

(* The first fragment of a later message. *)
LEMMA UdpNew ==
    ASSUME NEW r \in Nat, UdpInv(r), up, NEW d \in Datagrams(r, position), ProcessNew(d),
           UNCHANGED <<published, sourceVars>>, net' \subseteq net
    PROVE  UdpInv(r)' /\ UdpCopies
  <1>1. ~Whole(d) /\ d.created > currentFrameCreated
    BY DEF ProcessNew
  <1>2. CASE SpanIsTaken
    BY <1>2, Terminates DEF ProcessNew
  <1>3. CASE ~SpanIsTaken
    <2>1. /\ currentFrame = NoFrame /\ previousFrame = NoFrame
          /\ previousFrame' = previousFrame
          /\ currentFrame' = Opened(d) /\ currentFrameCreated' = d.created
          /\ UNCHANGED <<replica, up, position>>
      BY <1>3 DEF ProcessNew, SpanIsTaken, sourceVars
    <2>2. /\ d.msg \in 1..position /\ d.created = StampOf(r, d.msg) /\ d.created \in Nat
          /\ d.seq \in AllParts(d.msg)
      BY DatagramFacts
    <2>3. d.msg \in Messages /\ d.msg <= position
      BY <2>2, MessagesRead DEF UdpInv
    <2>4. InParts(d.msg)
      BY <1>1, <2>3, ChunkCount DEF Whole, InParts
    <2>5. FrameOf(Opened(d)) /\ Opened(d).msg = d.msg
      BY <2>2, <2>3, <2>4, OpenedFrame
    <2>6. FrameState(r)'
      BY <2>1, <2>2, <2>3, <2>5 DEF UdpInv, FrameState
    <2>7. CopiesState(r)'
      <3> SUFFICES ASSUME NEW i \in 1..Len(replica), NEW m, m = replica[i].msg
                   PROVE  /\ m <= position
                          /\ InParts(m) => /\ StampOf(r, m) <= d.created
                                           /\ m # d.msg
        BY <2>1, <2>5 DEF CopiesState
      <3>1. m <= position /\ (InParts(m) => StampOf(r, m) <= currentFrameCreated)
        BY DEF UdpInv, CopiesState
      <3>2. m \in Nat
        BY DEF UdpInv, WholeCopies
      <3>3. StampOf(r, m) \in Nat /\ currentFrameCreated \in Nat
        BY <3>2, StampType DEF UdpInv, FrameState
      <3>4. InParts(m) => StampOf(r, m) < d.created
        BY <1>1, <2>2, <3>1, <3>3
      <3>5. InParts(m) => StampOf(r, m) <= d.created /\ StampOf(r, m) # StampOf(r, d.msg)
        BY <2>2, <3>3, <3>4
      <3> QED
        BY <3>1, <3>5
    <2> QED
      BY <2>1, <2>6, <2>7, NothingCopied
  <1> QED
    BY <1>2, <1>3

(* A fragment for the open frame is of the frame's message. *)
LEMMA UdpSameMessage ==
    ASSUME NEW r \in Nat, UdpInv(r), up, NEW d \in Datagrams(r, position),
           OfPrevious(d) \/ OfCurrent(d)
    PROVE  /\ ~OfPrevious(d) /\ currentFrame # NoFrame /\ FrameOf(currentFrame)
           /\ d.msg = currentFrame.msg /\ d.seq \in AllParts(currentFrame.msg)
           /\ d.msg \in 1..position /\ d.msg \in 1..published /\ d.msg \in Messages /\ InParts(d.msg)
           /\ currentFrameCreated = StampOf(r, d.msg) /\ currentFrameCreated \in Nat
  <1>1. previousFrame = NoFrame /\ ~OfPrevious(d)
    BY DEF UdpInv, FrameState, OfPrevious
  <1>2. currentFrame # NoFrame /\ d.created = currentFrameCreated
    BY <1>1 DEF OfCurrent
  <1>3. FrameOf(currentFrame) /\ currentFrameCreated = StampOf(r, currentFrame.msg)
    BY <1>2 DEF UdpInv, FrameState
  <1>4. /\ d.msg \in 1..position /\ d.created = StampOf(r, d.msg) /\ d.created \in Nat
        /\ d.seq \in AllParts(d.msg)
    BY DatagramFacts
  <1>5. currentFrame.msg \in Messages /\ currentFrame.msg \in Nat /\ InParts(currentFrame.msg)
    BY <1>3, ChunkCount DEF FrameOf
  <1>6. d.msg \in Nat /\ d.msg \in 1..published
    BY <1>4 DEF UdpInv, SourceState, WholeCopies
  <1>7. d.msg = currentFrame.msg
    BY <1>2, <1>3, <1>4, <1>5, <1>6, StampsDiffer
  <1> QED
    BY <1>1, <1>2, <1>3, <1>4, <1>5, <1>6, <1>7

LEMMA UdpOpen ==
    ASSUME NEW r \in Nat, UdpInv(r), up, NEW d \in Datagrams(r, position), ProcessOpen(d),
           UNCHANGED <<published, sourceVars>>, net' \subseteq net
    PROVE  UdpInv(r)' /\ UdpCopies
  <1>1. /\ ~OfPrevious(d) /\ currentFrame # NoFrame /\ FrameOf(currentFrame)
        /\ d.msg = currentFrame.msg /\ d.seq \in AllParts(currentFrame.msg)
        /\ d.msg \in 1..position /\ d.msg \in 1..published /\ d.msg \in Messages /\ InParts(d.msg)
        /\ currentFrameCreated = StampOf(r, d.msg) /\ currentFrameCreated \in Nat
    BY UdpSameMessage DEF ProcessOpen
  <1>2. PICK w : w = writeChunk(currentFrame, d)
    OBVIOUS
  <1>3. /\ FrameOf(w) /\ w.msg = d.msg
        /\ isComplete(w.bits) => w.parts = AllParts(d.msg)
    BY <1>1, <1>2, WrittenFrame
  <1>4. /\ UNCHANGED <<currentFrameCreated, up, position>>
        /\ IF getBit(currentFrame.bits, Chunks[d.msg], d.seq)
           THEN UNCHANGED <<replica, currentFrame, previousFrame>>
           ELSE IF isComplete(w.bits)
           THEN /\ CopyInto(d.msg, w.parts, 0)
                /\ currentFrame' = NoFrame
                /\ previousFrame' = previousFrame
           ELSE /\ currentFrame' = w
                /\ previousFrame' = previousFrame
                /\ UNCHANGED replica
    BY <1>1, <1>2 DEF ProcessOpen, sourceVars
  <1>5. CASE UNCHANGED <<replica, currentFrame, previousFrame>>
    <2>1. FrameState(r)'
      BY <1>4, <1>5 DEF UdpInv, FrameState
    <2>2. CopiesState(r)'
      BY <1>4, <1>5 DEF UdpInv, CopiesState
    <2> QED
      BY <1>5, <2>1, <2>2, NothingCopied
  <1>6. CASE currentFrame' = w /\ previousFrame' = previousFrame /\ UNCHANGED replica
    <2>1. FrameState(r)'
      BY <1>1, <1>3, <1>4, <1>6 DEF UdpInv, FrameState
    <2>2. CopiesState(r)'
      BY <1>1, <1>3, <1>4, <1>6 DEF UdpInv, CopiesState
    <2> QED
      BY <1>6, <2>1, <2>2, NothingCopied
  <1>7. CASE /\ CopyInto(d.msg, AllParts(d.msg), 0)
             /\ currentFrame' = NoFrame /\ previousFrame' = previousFrame
    <2>1. PICK m \in 1..published : m = d.msg
      BY <1>1
    <2>2. /\ WholeCopies'
          /\ Len(replica) \in Nat /\ Len(replica') = Len(replica) + 1
          /\ replica'[Len(replica')].msg = m
          /\ \A i \in 1..Len(replica) : replica'[i] = replica[i]
      BY <1>7, <2>1, CopyAppended DEF UdpInv
    <2>3. CopiesState(r)'
      <3> SUFFICES ASSUME NEW i \in 1..Len(replica'), NEW n, n = replica'[i].msg
                   PROVE  n <= position /\ (InParts(n) => StampOf(r, n) <= currentFrameCreated)
        BY <1>4, <1>7 DEF CopiesState
      <3>1. CASE i \in 1..Len(replica)
        <4>1. n = replica[i].msg
          BY <2>2, <3>1
        <4> QED
          BY <3>1, <4>1 DEF UdpInv, CopiesState
      <3>2. CASE i = Len(replica')
        <4>1. n = d.msg
          BY <2>1, <2>2, <3>2
        <4>2. position \in Nat
          BY DEF UdpInv, SourceState, WholeCopies
        <4> QED
          BY <1>1, <4>1, <4>2
      <3> QED
        BY <2>2, <3>1, <3>2
    <2>4. FrameState(r)'
      BY <1>4, <1>7 DEF UdpInv, FrameState
    <2>5. SourceState(r)'
      BY SourceAlone DEF UdpInv
    <2>6. Fresh(m)
      <3> SUFFICES ASSUME NEW i \in 1..Len(replica), NEW n, n = replica[i].msg
                   PROVE  n # m /\ (~restarted /\ InParts(n) => n < m)
        BY DEF Fresh
      <3>1. /\ n <= position
            /\ InParts(n) => StampOf(r, n) <= StampOf(r, m) /\ n # m
        BY <1>1, <2>1 DEF UdpInv, CopiesState
      <3>2. InParts(m)
        BY <1>1, <2>1
      <3>3. n # m
        BY <3>1, <3>2
      <3>4. ASSUME ~restarted, InParts(n) PROVE n < m
        <4>1. r = Len(Chunks)
          BY <3>4 DEF UdpInv, SourceState
        <4>2. n \in Nat /\ m \in Nat /\ n <= r /\ m <= r /\ r \in Nat
          <5>1. n \in 1..published /\ m \in 1..published /\ published \in 0..Len(Chunks)
            BY DEF UdpInv, WholeCopies
          <5>2. Len(Chunks) \in Nat
            BY ChunksAssumption
          <5> QED
            BY <4>1, <5>1, <5>2
        <4>3. 2 * n + 2 <= 2 * m + 2
          BY <3>1, <3>4, <4>2 DEF StampOf
        <4> QED
          BY <3>3, <4>2, <4>3
      <3> QED
        BY <3>3, <3>4
    <2>7. UdpCopies
      BY <1>7, <2>1, <2>6 DEF UdpCopies
    <2> QED
      BY <2>2, <2>3, <2>4, <2>5, <2>7 DEF UdpInv
  <1> QED
    BY <1>3, <1>4, <1>5, <1>6, <1>7

LEMMA UdpReceive ==
    ASSUME NEW r \in Nat, UdpInv(r), NEW d \in net, Receive(d)
    PROVE  UdpInv(r)' /\ UdpCopies
  <1>1. d \in Datagrams(r, position)
    BY DEF UdpInv, SourceState
  <1>2. /\ up /\ net' \subseteq net /\ UNCHANGED <<published, sourceVars>>
        /\ ProcessWhole(d) \/ ProcessOpen(d) \/ ProcessNew(d) \/ ProcessLate(d)
    BY DEF Receive
  <1> QED
    BY <1>1, <1>2, UdpWhole, UdpOpen, UdpNew, UdpLate

-----------------------------------------------------------------------------
(* The copy of Replica: its messages are those of the replica. *)
LEMMA CopiedAre ==
    ASSUME WholeCopies
    PROVE  /\ Copied \in Seq(Nat) /\ Len(replica) \in Nat
           /\ DOMAIN Copied = 1..Len(replica) /\ Len(Copied) = Len(replica)
           /\ \A i \in 1..Len(replica) : Copied[i] = replica[i].msg
  <1>1. DOMAIN replica = 1..Len(replica) /\ Len(replica) \in Nat
    BY DEF WholeCopies
  <1>2. Copied = [i \in 1..Len(replica) |-> replica[i].msg]
    BY <1>1 DEF Copied, WholeCopies
  <1>3. \A i \in 1..Len(replica) : replica[i].msg \in Nat
    BY DEF WholeCopies
  <1> QED
    BY <1>1, <1>2, <1>3

LEMMA SameOrder == ASSUME UNCHANGED restarted PROVE UNCHANGED (~restarted)
  BY Zenon

LEMMA NothingToMap ==
    ASSUME UNCHANGED <<replica, published, transport, restarted>>
    PROVE  UNCHANGED Copy!vars
  <1>1. UNCHANGED <<Copied, Once>>
    BY DEF Copied, Once
  <1> QED
    BY <1>1, SameOrder DEF Copy!vars

LEMMA CopyMaps ==
    ASSUME WholeCopies, UNCHANGED <<published, transport, restarted>>,
           NEW m \in 1..published, NEW c \in Nat, CopyInto(m, AllParts(m), c),
           m \in Once => \A i \in 1..Len(replica) :
               /\ replica[i].msg # m
               /\ ~restarted /\ replica[i].msg \in Once => replica[i].msg < m
    PROVE  Copy!Next
  <1>1. /\ WholeCopies'
        /\ Len(replica) \in Nat /\ Len(replica') = Len(replica) + 1
        /\ replica'[Len(replica')].msg = m
        /\ \A i \in 1..Len(replica) : replica'[i] = replica[i]
    BY CopyAppended
  <1>2. /\ Copied \in Seq(Nat) /\ DOMAIN Copied = 1..Len(replica) /\ Len(Copied) = Len(replica)
        /\ \A i \in 1..Len(replica) : Copied[i] = replica[i].msg
    BY CopiedAre
  <1>3. /\ Copied' \in Seq(Nat) /\ Len(Copied') = Len(replica')
        /\ \A i \in 1..Len(replica') : Copied'[i] = replica'[i].msg
    <2>1. DOMAIN replica' = 1..Len(replica') /\ Len(replica') \in Nat
      BY <1>1 DEF WholeCopies
    <2>2. Copied' = [i \in 1..Len(replica') |-> replica'[i].msg]
      BY <1>1, <2>1 DEF Copied, WholeCopies
    <2>3. \A i \in 1..Len(replica') : replica'[i].msg \in Nat
      BY <1>1 DEF WholeCopies
    <2> QED
      BY <2>1, <2>2, <2>3
  <1>4. PICK s \in Seq(Nat) : s = Copied
    BY <1>2
  <1>5. PICK t \in Seq(Nat) : t = Copied'
    BY <1>3
  <1>6. t = Append(s, m)
    <2>1. m \in Nat
      BY DEF WholeCopies
    <2>2. Len(t) = Len(s) + 1 /\ Len(s) \in Nat
      BY <1>1, <1>2, <1>3, <1>4, <1>5
    <2>3. ASSUME NEW i \in 1..Len(s) PROVE t[i] = s[i]
      <3>1. i \in 1..Len(replica) /\ i \in 1..Len(replica')
        BY <1>1, <1>2, <1>4
      <3>2. t[i] = replica'[i].msg /\ s[i] = replica[i].msg
        BY <1>2, <1>3, <1>4, <1>5, <3>1
      <3>3. replica'[i] = replica[i]
        BY <1>1, <3>1
      <3> QED
        BY <3>2, <3>3
    <2>4. t[Len(s) + 1] = m
      <3>1. Len(replica') \in 1..Len(replica')
        BY <1>1
      <3>2. t[Len(replica')] = m
        BY <1>1, <1>3, <1>5, <3>1
      <3>3. Len(s) + 1 = Len(replica')
        BY <1>1, <1>2, <1>4
      <3> QED
        BY <3>2, <3>3
    <2>5. Append(s, m) \in Seq(Nat) /\ Len(Append(s, m)) = Len(s) + 1
      BY <2>1
    <2>6. \A i \in 1..(Len(s) + 1) : t[i] = Append(s, m)[i]
      BY <2>1, <2>2, <2>3, <2>4
    <2> QED
      BY <2>2, <2>5, <2>6
  <1>7. UNCHANGED <<published, Once, ~restarted>>
    BY SameOrder DEF Once
  <1>8. m <= published
    BY DEF WholeCopies
  <1>9. m \in Once => \A i \in DOMAIN Copied :
            Copied[i] # m /\ (~restarted /\ Copied[i] \in Once => Copied[i] < m)
    BY <1>2
  <1>10. Copied' = Append(Copied, m)
    BY <1>4, <1>5, <1>6
  <1>11. Copy!Copy(m)
    BY <1>7, <1>8, <1>9, <1>10 DEF Copy!Copy
  <1> QED
    BY <1>11 DEF Copy!Next

LEMMA PublishMaps ==
    ASSUME WholeCopies, WholeCopies', Publish, UNCHANGED <<transport, restarted>>
    PROVE  Copy!Next
  <1>1. published' = published + 1 /\ UNCHANGED replica
    BY DEF Publish
  <1>2. Copied' = Copied
    <2>1. Copied = [i \in DOMAIN replica |-> replica[i].msg]
      BY DEF Copied, WholeCopies
    <2>2. Copied' = [i \in DOMAIN replica |-> replica[i].msg]
      BY <1>1 DEF Copied, WholeCopies
    <2> QED
      BY <2>1, <2>2
  <1>3. UNCHANGED <<Copied, Once, ~restarted>>
    BY <1>2, SameOrder DEF Once
  <1> QED
    BY <1>1, <1>3 DEF Copy!Next, Copy!Publish

LEMMA RestartMaps ==
    ASSUME UNCHANGED <<replica, published, transport>>, restarted' = TRUE
    PROVE  Copy!Next
  <1>1. UNCHANGED <<Copied, Once>>
    BY DEF Copied, Once
  <1>2. (~restarted)' = FALSE
    BY Zenon
  <1> QED
    BY <1>1, <1>2 DEF Copy!Next, Copy!LoseOrder

LEMMA InitMaps == ASSUME Init PROVE Copy!Init
  <1>1. published = 0 /\ replica = <<>> /\ restarted = FALSE
    BY DEF Init, TopicInit, UdpInit
  <1>2. (~restarted) = TRUE
    BY <1>1, Zenon
  <1>3. Copied = <<>>
    BY <1>1 DEF Copied
  <1> QED
    BY <1>1, <1>2, <1>3 DEF Copy!Init

LEMMA UdpCopiesMap ==
    ASSUME transport = "udp", WholeCopies, UdpCopies,
           UNCHANGED <<published, transport, restarted>>
    PROVE  [Copy!Next]_(Copy!vars)
  <1>1. CASE UNCHANGED replica
    BY <1>1, NothingToMap
  <1>2. ASSUME NEW m \in 1..published, CopyInto(m, AllParts(m), 0), InParts(m) => Fresh(m)
        PROVE  Copy!Next
    <2>1. Once = {n \in Messages : InParts(n)}
      BY DEF Once, InParts
    <2>2. m \in Once => \A i \in 1..Len(replica) :
              /\ replica[i].msg # m
              /\ ~restarted /\ replica[i].msg \in Once => replica[i].msg < m
      BY <1>2, <2>1 DEF Fresh
    <2> QED
      BY <1>2, <2>2, CopyMaps
  <1> QED
    BY <1>1, <1>2 DEF UdpCopies

(* Each step over UDP is a step of Replica or none. *)
LEMMA UdpStep ==
    ASSUME NEW r \in Nat, UdpInv(r), transport = "udp", [Next]_vars
    PROVE  /\ \E s \in Nat : UdpInv(s)'
           /\ [Copy!Next]_(Copy!vars)
           /\ transport' = "udp"
  <1>1. CASE Publish /\ UNCHANGED <<udpVars, tcpVars, transport>>
    <2>1. UdpInv(r)' /\ UNCHANGED <<transport, restarted>>
      BY <1>1, UdpPublish DEF udpVars, sourceVars
    <2>2. WholeCopies /\ WholeCopies'
      BY <2>1 DEF UdpInv
    <2> QED
      BY <1>1, <2>1, <2>2, PublishMaps
  <1>2. CASE UNCHANGED vars
    <2>1. UNCHANGED <<topicVars, udpVars, transport>>
      BY <1>2 DEF vars
    <2>2. UNCHANGED <<replica, published, restarted>>
      BY <2>1 DEF topicVars, udpVars, sourceVars
    <2> QED
      BY <2>1, <2>2, UdpStutter, NothingToMap
  <1>3. CASE (TakeMessage \/ SendDatagram) /\ UNCHANGED transport
    <2>1. UNCHANGED <<replica, published, restarted>>
      BY <1>3 DEF TakeMessage, SendDatagram, topicVars
    <2> QED
      BY <1>3, <2>1, UdpTakeMessage, UdpSendDatagram, NothingToMap
  <1>4. CASE RestartSource /\ UNCHANGED transport
    <2>1. UNCHANGED <<replica, published>> /\ restarted' = TRUE
      BY <1>4 DEF RestartSource, topicVars
    <2> QED
      BY <1>4, <2>1, UdpRestart, RestartMaps
  <1>5. ASSUME NEW d \in net, Lose(d), UNCHANGED transport
        PROVE  UdpInv(r)' /\ [Copy!Next]_(Copy!vars)
    <2>1. UNCHANGED <<replica, published, restarted>>
      BY <1>5 DEF Lose, topicVars, sourceVars
    <2> QED
      BY <1>5, <2>1, UdpLose, NothingToMap
  <1>6. ASSUME NEW d \in net, Receive(d), UNCHANGED transport
        PROVE  UdpInv(r)' /\ [Copy!Next]_(Copy!vars)
    <2>1. UdpInv(r)' /\ UdpCopies
      BY <1>6, UdpReceive
    <2>2. UNCHANGED <<published, restarted>>
      BY <1>6 DEF Receive, sourceVars
    <2>3. WholeCopies
      BY DEF UdpInv
    <2> QED
      BY <1>6, <2>1, <2>2, <2>3, UdpCopiesMap
  <1>7. \/ Publish /\ UNCHANGED <<udpVars, tcpVars, transport>>
        \/ UdpNext /\ UNCHANGED transport
        \/ UNCHANGED vars
    BY DEF Next
  <1>8. transport' = "udp"
    BY <1>7 DEF vars
  <1> QED
    BY <1>1, <1>2, <1>3, <1>4, <1>5, <1>6, <1>7, <1>8 DEF UdpNext

-----------------------------------------------------------------------------
(* Over TCP: what is under way and what the source has in hand are          *)
(* published messages, and on the connection of the target they are later   *)
(* than all of the copy.                                                    *)
InHand == {"header", "payload"}

CursorsBehind ==
    \A c \in Connections :
        /\ cursor[c] <= published
        /\ serving[c] \in InHand => cursor[c] # 0

DataPublished ==
    \A c \in Connections : \A k \in 1..Len(toTarget[c]) : toTarget[c][k][2] \in 1..published

LaterThan(n) == \A i \in 1..Len(replica) : replica[i].msg < n

DataLater ==
    conn \in Connections =>
        /\ link[conn] = "open" /\ serving[conn] = "message" => LaterThan(cursor[conn] + 1)
        /\ link[conn] = "open" /\ serving[conn] \in InHand => LaterThan(cursor[conn])
        /\ \A k \in 1..Len(toTarget[conn]) : LaterThan(toTarget[conn][k][2])

TcpOrder ==
    /\ WholeCopies
    /\ CursorsBehind
    /\ DataPublished
    /\ DataLater

LEMMA OrderInit == ASSUME Init PROVE TcpOrder
  <1> USE DEF Init, TopicInit, TcpInit
  <1>1. Len(Chunks) \in Nat /\ <<>> \in Seq(Copies) /\ Len(<<>>) = 0
    BY ChunksAssumption
  <1>2. WholeCopies
    BY <1>1 DEF WholeCopies
  <1>3. CursorsBehind
    BY DEF CursorsBehind, InHand
  <1>4. DataPublished
    BY <1>1 DEF DataPublished
  <1>5. DataLater
    BY DEF DataLater, Connections
  <1> QED
    BY <1>2, <1>3, <1>4, <1>5 DEF TcpOrder

LEMMA OrderKept ==
    ASSUME TcpOrder, UNCHANGED <<replica, published, toTarget, cursor, conn>>,
           \A c \in Connections : serving'[c] \in InHand \union {"message"} =>
               serving[c] = serving'[c] /\ (link'[c] = "open" => link[c] = "open")
    PROVE  TcpOrder'
  <1>1. WholeCopies'
    BY DEF TcpOrder, WholeCopies
  <1>2. CursorsBehind'
    BY DEF TcpOrder, CursorsBehind
  <1>3. DataPublished'
    BY DEF TcpOrder, DataPublished
  <1>4. DataLater'
    BY DEF TcpOrder, DataLater, LaterThan
  <1> QED
    BY <1>1, <1>2, <1>3, <1>4 DEF TcpOrder

LEMMA OrderQuiet ==
    ASSUME TcpInv, TcpOrder,
           ConnectFails \/ StartReplication \/ StartReplicationThrows \/ BeginLoop \/ ReadFails
    PROVE  TcpOrder'
  <1>1. UNCHANGED <<replica, published, toTarget, cursor, conn, serving, link>>
    BY DEF ConnectFails, StartReplication, StartReplicationThrows, BeginLoop, ReadFails, topicVars,
           linkVars, sourceTcpVars
  <1> QED
    BY <1>1, OrderKept

LEMMA OrderSourceQuiet ==
    ASSUME TcpInv, TcpOrder, NEW c \in Connections,
           Accept(c) \/ HandleNewClientFails(c) \/ WriteFails(c)
    PROVE  TcpOrder'
  <1>1. /\ UNCHANGED <<replica, published, toTarget, cursor, conn, link>>
        /\ serving' = [serving EXCEPT ![c] = "accepted"] \/ serving' = [serving EXCEPT ![c] = "ended"]
    BY DEF Accept, HandleNewClientFails, WriteFails, topicVars, linkVars
  <1>2. \A d \in Connections : serving'[d] \in InHand \union {"message"} => serving[d] = serving'[d]
    BY <1>1 DEF TcpInv, TcpTypes, InHand
  <1> QED
    BY <1>1, <1>2, OrderKept

LEMMA OrderSourceProcess ==
    ASSUME TcpInv, TcpOrder, StopSource \/ StartSource PROVE TcpOrder'
  <1>1. UNCHANGED <<replica, published, toTarget, cursor, conn>>
    BY DEF StopSource, StartSource, topicVars, linkVars
  <1>2. \A c \in Connections : serving'[c] \in InHand \union {"message"} =>
            serving[c] = serving'[c] /\ (link'[c] = "open" => link[c] = "open")
    BY DEF StopSource, StartSource, linkVars, InHand
  <1> QED
    BY <1>1, <1>2, OrderKept

LEMMA OrderConnect == ASSUME TcpInv, TcpOrder, Connect PROVE TcpOrder'
  <1>1. TcpTypes' /\ conn' \in Connections /\ conn' > conn /\ conn \in Nat
    BY TypesConnect
  <1>2. UNCHANGED <<toTarget, replica, published, cursor>> /\ conn' = conn + 1
    BY DEF Connect, topicVars
  <1>3. serving' = [serving EXCEPT ![conn'] = "backlog"] /\ serving[conn'] = "none"
    BY <1>1, <1>2 DEF TcpInv, Unopened, Connect
  <1>4. serving'[conn'] = "backlog" /\ \A c \in Connections : c # conn' => serving'[c] = serving[c]
    BY <1>1, <1>3 DEF TcpInv, TcpTypes
  <1>5. toTarget[conn'] = <<>>
    BY <1>1, <1>3 DEF TcpInv, Unserved
  <1>6. WholeCopies'
    BY <1>2 DEF TcpOrder, WholeCopies
  <1>7. CursorsBehind'
    BY <1>2, <1>4 DEF TcpOrder, CursorsBehind, InHand
  <1>8. DataPublished'
    BY <1>2 DEF TcpOrder, DataPublished
  <1>9. DataLater'
    <2>1. Len(toTarget'[conn']) = 0
      BY <1>2, <1>5
    <2> QED
      BY <1>4, <2>1 DEF DataLater, InHand
  <1> QED
    BY <1>6, <1>7, <1>8, <1>9 DEF TcpOrder

LEMMA CopiesTyped ==
    ASSUME WholeCopies
    PROVE  /\ published \in Nat /\ Len(replica) \in Nat
           /\ \A i \in 1..Len(replica) : replica[i].msg \in Nat /\ replica[i].msg <= published
  <1>1. published \in Nat
    BY ChunksAssumption DEF WholeCopies
  <1> QED
    BY <1>1 DEF WholeCopies

LEMMA OrderSubscription ==
    ASSUME TcpInv, TcpOrder, NEW c \in Connections, HandleReplicateSubscription(c)
    PROVE  TcpOrder'
  <1>1. /\ UNCHANGED <<toTarget, replica, published, link, conn>>
        /\ serving[c] = "accepted"
        /\ serving' = [serving EXCEPT ![c] = "message"]
        /\ cursor' = [cursor EXCEPT ![c] = published]
    BY DEF HandleReplicateSubscription, topicVars, linkVars
  <1>2. \A d \in Connections :
           /\ d # c => serving'[d] = serving[d] /\ cursor'[d] = cursor[d]
           /\ d = c => serving'[d] = "message" /\ cursor'[d] = published
    BY <1>1 DEF TcpInv, TcpTypes
  <1>3. toTarget[c] = <<>> /\ Len(toTarget[c]) = 0
    BY <1>1 DEF TcpInv, Unserved
  <1>4. /\ published \in Nat
        /\ \A i \in 1..Len(replica) : replica[i].msg \in Nat /\ replica[i].msg <= published
    BY CopiesTyped DEF TcpOrder
  <1>5. WholeCopies'
    BY <1>1 DEF TcpOrder, WholeCopies
  <1>6. CursorsBehind'
    BY <1>1, <1>2, <1>4 DEF TcpOrder, CursorsBehind, InHand
  <1>7. DataPublished'
    BY <1>1 DEF TcpOrder, DataPublished
  <1>8. LaterThan(published + 1)'
    BY <1>1, <1>4 DEF LaterThan
  <1>9. DataLater'
    <2>1. CASE conn = c
      <3>1. Len(toTarget'[conn']) = 0
        BY <1>1, <1>3, <2>1
      <3>2. serving'[conn'] = "message" /\ (LaterThan(cursor[conn] + 1))'
        BY <1>1, <1>2, <1>8, <2>1 DEF LaterThan
      <3> QED
        BY <3>1, <3>2 DEF DataLater, InHand
    <2>2. CASE conn # c
      BY <1>1, <1>2, <2>2 DEF TcpOrder, DataLater, LaterThan
    <2> QED
      BY <2>1, <2>2
  <1> QED
    BY <1>5, <1>6, <1>7, <1>9 DEF TcpOrder

LEMMA OrderTryReadFor ==
    ASSUME TcpInv, TcpOrder, NEW c \in Connections, TryReadFor(c)
    PROVE  TcpOrder'
  <1>1. /\ UNCHANGED <<toTarget, replica, published, link, conn>>
        /\ serving[c] = "message" /\ cursor[c] < published
        /\ serving' = [serving EXCEPT ![c] = "header"]
        /\ cursor' = [cursor EXCEPT ![c] = cursor[c] + 1]
        /\ cursor[c] \in Nat
    BY DEF TcpInv, TcpTypes, TryReadFor, topicVars, linkVars
  <1>2. \A d \in Connections :
           /\ d # c => serving'[d] = serving[d] /\ cursor'[d] = cursor[d]
           /\ d = c => serving'[d] = "header" /\ cursor'[d] = cursor[c] + 1
    BY <1>1 DEF TcpInv, TcpTypes
  <1>3. published \in Nat
    BY CopiesTyped DEF TcpOrder
  <1>4. WholeCopies'
    BY <1>1 DEF TcpOrder, WholeCopies
  <1>5. CursorsBehind'
    BY <1>1, <1>2, <1>3 DEF TcpOrder, CursorsBehind, InHand
  <1>6. DataPublished'
    BY <1>1 DEF TcpOrder, DataPublished
  <1>7. DataLater'
    <2>1. CASE conn = c
      BY <1>1, <1>2, <2>1 DEF TcpOrder, DataLater, LaterThan, InHand
    <2>2. CASE conn # c
      BY <1>1, <1>2, <2>2 DEF TcpOrder, DataLater, LaterThan
    <2> QED
      BY <2>1, <2>2
  <1> QED
    BY <1>4, <1>5, <1>6, <1>7 DEF TcpOrder

LEMMA OrderWrite ==
    ASSUME TcpInv, TcpOrder, NEW c \in Connections, WriteHeader(c) \/ WritePayload(c)
    PROVE  TcpOrder'
  <1> DEFINE kind == serving[c]
             item == <<kind, cursor[c]>>
  <1>1. /\ UNCHANGED <<replica, published, link, cursor, conn>>
        /\ serving[c] \in InHand
        /\ serving' = [serving EXCEPT ![c] = IF kind = "header" THEN "payload" ELSE "message"]
        /\ Written(c, kind)
    BY DEF WriteHeader, WritePayload, topicVars, InHand
  <1>2. cursor[c] \in Nat /\ item \in Items /\ toTarget[c] \in Seq(Items) /\ item[2] = cursor[c]
    BY <1>1 DEF TcpInv, TcpTypes, Items, InHand
  <1>3. IF link[c] = "open" THEN toTarget' = [toTarget EXCEPT ![c] = Append(toTarget[c], item)]
                            ELSE toTarget' = toTarget
    BY <1>1 DEF Written
  <1>4. \A d \in Connections :
           /\ d # c => serving'[d] = serving[d] /\ toTarget'[d] = toTarget[d]
           /\ d = c => /\ serving'[d] \in {"payload", "message"}
                       /\ toTarget'[d] = IF link[c] = "open" THEN Append(toTarget[c], item)
                                                             ELSE toTarget[c]
    BY <1>1, <1>3 DEF TcpInv, TcpTypes
  <1>5. cursor[c] \in 1..published /\ published \in Nat
    BY <1>1, <1>2, CopiesTyped DEF TcpOrder, CursorsBehind
  <1>6. \A k \in 1..Len(toTarget'[c]) :
            \/ k \in 1..Len(toTarget[c]) /\ toTarget'[c][k] = toTarget[c][k]
            \/ link[c] = "open" /\ toTarget'[c][k][2] = cursor[c]
    <2>1. CASE link[c] = "open"
      <3> HIDE DEF item
      <3>1. toTarget'[c] = Append(toTarget[c], item)
        BY <1>4, <2>1
      <3>2. \A k \in 1..Len(Append(toTarget[c], item)) :
                \/ k \in 1..Len(toTarget[c]) /\ Append(toTarget[c], item)[k] = toTarget[c][k]
                \/ Append(toTarget[c], item)[k] = item
        BY <1>2
      <3> QED
        BY <1>2, <2>1, <3>1, <3>2
    <2>2. CASE link[c] # "open"
      BY <1>4, <2>2
    <2> QED
      BY <2>1, <2>2
  <1>7. WholeCopies'
    BY <1>1 DEF TcpOrder, WholeCopies
  <1>8. CursorsBehind'
    BY <1>1, <1>4, <1>5 DEF TcpOrder, CursorsBehind, InHand
  <1>9. DataPublished'
    <2> SUFFICES ASSUME NEW d \in Connections, NEW k \in 1..Len(toTarget'[d])
                 PROVE  toTarget'[d][k][2] \in 1..published
      BY <1>1 DEF DataPublished
    <2>1. CASE d = c
      BY <1>5, <1>6, <2>1 DEF TcpOrder, DataPublished
    <2>2. CASE d # c
      BY <1>4, <2>2 DEF TcpOrder, DataPublished
    <2> QED
      BY <2>1, <2>2
  <1>10. DataLater'
    <2>1. CASE conn = c
      <3>1. link[c] = "open" => LaterThan(cursor[c])
        BY <1>1, <2>1 DEF TcpOrder, DataLater
      <3>2. link[c] = "open" => LaterThan(cursor[c] + 1)
        BY <1>2, <3>1, CopiesTyped DEF LaterThan, TcpOrder
      <3>3. \A k \in 1..Len(toTarget'[c]) : LaterThan(toTarget'[c][k][2])
        BY <1>6, <2>1, <3>1 DEF TcpOrder, DataLater
      <3>4. /\ conn' = c /\ link' = link /\ cursor' = cursor
            /\ \A n : LaterThan(n) => LaterThan(n)'
        BY <1>1, <2>1 DEF LaterThan
      <3>5. \A k \in 1..Len(toTarget'[c]) : (LaterThan(toTarget[c][k][2]))'
        BY <1>1, <3>3 DEF LaterThan
      <3>6. link[c] = "open" => (LaterThan(cursor[c]))' /\ (LaterThan(cursor[c] + 1))'
        BY <1>1, <3>1, <3>2 DEF LaterThan
      <3> QED
        BY <3>4, <3>5, <3>6 DEF DataLater
    <2>2. CASE conn # c
      BY <1>1, <1>4, <2>2 DEF TcpOrder, DataLater, LaterThan
    <2> QED
      BY <2>1, <2>2
  <1> QED
    BY <1>7, <1>8, <1>9, <1>10 DEF TcpOrder

LEMMA OrderCut == ASSUME TcpInv, TcpOrder, NEW c \in Connections, Cut(c) PROVE TcpOrder'
  <1>1. /\ UNCHANGED <<replica, published, serving, cursor, conn>>
        /\ link' = [link EXCEPT ![c] = "cut"]
    BY DEF Cut, topicVars, sourceTcpVars
  <1>2. PICK j \in 0..Len(toTarget[c]) :
            toTarget' = [toTarget EXCEPT ![c] = SubSeq(toTarget[c], 1, j)]
    BY DEF Cut
  <1>3. toTarget[c] \in Seq(Items)
    BY DEF TcpInv, TcpTypes
  <1>4. \A d \in Connections :
           /\ link'[d] = "open" => link[d] = "open"
           /\ d # c => toTarget'[d] = toTarget[d]
           /\ d = c => toTarget'[d] = SubSeq(toTarget[c], 1, j)
    BY <1>1, <1>2 DEF TcpInv, TcpTypes
  <1>5. \A d \in Connections : \A k \in 1..Len(toTarget'[d]) :
            k \in 1..Len(toTarget[d]) /\ toTarget'[d][k] = toTarget[d][k]
    <2>1. \A k \in 1..Len(SubSeq(toTarget[c], 1, j)) :
              k \in 1..Len(toTarget[c]) /\ SubSeq(toTarget[c], 1, j)[k] = toTarget[c][k]
      BY <1>3
    <2> QED
      BY <1>4, <2>1
  <1>6. WholeCopies'
    BY <1>1 DEF TcpOrder, WholeCopies
  <1>7. CursorsBehind'
    BY <1>1 DEF TcpOrder, CursorsBehind
  <1>8. DataPublished'
    BY <1>1, <1>5 DEF TcpOrder, DataPublished
  <1>9. DataLater'
    BY <1>1, <1>4, <1>5 DEF TcpOrder, DataLater, LaterThan
  <1> QED
    BY <1>6, <1>7, <1>8, <1>9 DEF TcpOrder

LEMMA OrderReadHeader == ASSUME TcpInv, TcpOrder, ReadHeader PROVE TcpOrder'
  <1>1. /\ UNCHANGED <<replica, published, link, serving, cursor, conn>>
        /\ conn \in Connections /\ toTarget[conn] # <<>>
        /\ toTarget' = [toTarget EXCEPT ![conn] = Tail(toTarget[conn])]
    BY DEF ReadHeader, Arrives, topicVars, sourceTcpVars, TcpInv, Opening
  <1>2. toTarget[conn] \in Seq(Items)
    BY <1>1 DEF TcpInv, TcpTypes
  <1>3. \A d \in Connections :
           toTarget'[d] = IF d = conn THEN Tail(toTarget[conn]) ELSE toTarget[d]
    BY <1>1 DEF TcpInv, TcpTypes
  <1>4. \A d \in Connections : \A k \in 1..Len(toTarget'[d]) :
            \E j \in 1..Len(toTarget[d]) : toTarget'[d][k] = toTarget[d][j]
    <2>1. \A k \in 1..Len(Tail(toTarget[conn])) :
              k + 1 \in 1..Len(toTarget[conn]) /\ Tail(toTarget[conn])[k] = toTarget[conn][k + 1]
      BY <1>1, <1>2
    <2> QED
      BY <1>3, <2>1
  <1>5. WholeCopies'
    BY <1>1 DEF TcpOrder, WholeCopies
  <1>6. CursorsBehind'
    BY <1>1 DEF TcpOrder, CursorsBehind
  <1>7. DataPublished'
    BY <1>1, <1>4 DEF TcpOrder, DataPublished
  <1>8. DataLater'
    BY <1>1, <1>4 DEF TcpOrder, DataLater, LaterThan
  <1> QED
    BY <1>5, <1>6, <1>7, <1>8 DEF TcpOrder

(* What follows on the connection is later than what is copied now. *)
LEMMA OrderReadPayload ==
    ASSUME TcpInv, TcpOrder, ReadPayload
    PROVE  /\ TcpOrder'
           /\ conn \in Nat
           /\ \E m \in 1..published : CopyInto(m, AllParts(m), conn) /\ LaterThan(m)
  <1>1. /\ UNCHANGED <<published, link, serving, cursor, conn>>
        /\ conn \in Connections /\ conn \in Nat /\ toTarget[conn] # <<>>
        /\ Head(toTarget[conn])[1] = "payload"
        /\ toTarget' = [toTarget EXCEPT ![conn] = Tail(toTarget[conn])]
    BY DEF ReadPayload, Arrives, topicVars, sourceTcpVars, TcpInv, Opening, Connections
  <1>2. /\ toTarget[conn] \in Seq(Items) /\ Head(toTarget[conn]) \in Items
        /\ Len(toTarget[conn]) \in Nat /\ 1 \in 1..Len(toTarget[conn])
        /\ Head(toTarget[conn]) = toTarget[conn][1]
    BY <1>1 DEF TcpInv, TcpTypes
  <1>3. \A d \in Connections :
           toTarget'[d] = IF d = conn THEN Tail(toTarget[conn]) ELSE toTarget[d]
    BY <1>1 DEF TcpInv, TcpTypes
  <1>4. PICK m \in 1..published : m = Head(toTarget[conn])[2]
    BY <1>1, <1>2 DEF TcpOrder, DataPublished
  <1>5. m \in Nat /\ published \in Nat
    BY CopiesTyped DEF TcpOrder
  <1>6. CopyInto(m, AllParts(m), conn)
    BY <1>4 DEF ReadPayload
  <1>7. LaterThan(m)
    BY <1>1, <1>2, <1>4 DEF TcpOrder, DataLater
  <1>8. /\ WholeCopies'
        /\ Len(replica) \in Nat /\ Len(replica') = Len(replica) + 1
        /\ replica'[Len(replica')].msg = m
        /\ \A i \in 1..Len(replica) : replica'[i] = replica[i]
    BY <1>1, <1>6, CopyAppended DEF TcpOrder
  <1>9. ASSUME NEW n \in Nat, m < n, LaterThan(n) PROVE LaterThan(n)'
    <2> SUFFICES ASSUME NEW i \in 1..Len(replica') PROVE replica'[i].msg < n
      BY DEF LaterThan
    <2>1. CASE i \in 1..Len(replica)
      BY <1>8, <1>9, <2>1 DEF LaterThan
    <2>2. CASE i = Len(replica')
      BY <1>8, <1>9, <2>2
    <2> QED
      BY <1>8, <2>1, <2>2
  <1>10. PICK b \in Int : Stream(conn, b)
    BY <1>1 DEF TcpInv, InStep
  <1>11. 2 * m + 1 = b + 1
    <2>1. Follow(toTarget[conn], b)
      BY <1>10 DEF Stream
    <2>2. Number(Head(toTarget[conn])) = b + 1
      BY <1>2, <2>1 DEF Follow
    <2> QED
      BY <1>1, <1>4, <2>2 DEF Number
  <1>12. cursor[conn] \in Nat
    BY <1>1 DEF TcpInv, TcpTypes
  <1>13. WholeCopies' /\ CursorsBehind'
    BY <1>1, <1>8 DEF TcpOrder, CursorsBehind
  <1>14. \A d \in Connections : \A k \in 1..Len(toTarget'[d]) :
            \E j \in 1..Len(toTarget[d]) :
                toTarget'[d][k] = toTarget[d][j] /\ (d = conn => j > 1)
    <2>1. \A k \in 1..Len(Tail(toTarget[conn])) :
              /\ k + 1 \in 1..Len(toTarget[conn]) /\ k + 1 > 1
              /\ Tail(toTarget[conn])[k] = toTarget[conn][k + 1]
      BY <1>1, <1>2
    <2> QED
      BY <1>3, <2>1
  <1>15. DataPublished'
    BY <1>1, <1>14 DEF TcpOrder, DataPublished
  <1>16. ASSUME NEW k \in 1..Len(toTarget'[conn])
         PROVE  (LaterThan(toTarget[conn][k][2]))'
    <2>1. PICK j \in 1..Len(toTarget[conn]) : toTarget'[conn][k] = toTarget[conn][j] /\ j > 1
      BY <1>1, <1>14
    <2>2. PICK e \in Items : e = toTarget[conn][j]
      BY <1>2
    <2>3. Number(e) = b + j
      BY <1>10, <2>2 DEF Stream, Follow
    <2>4. PICK n \in Nat : n = e[2]
      BY DEF Items
    <2>5. m < n
      <3>1. Number(e) = 2 * n \/ Number(e) = 2 * n + 1
        BY <2>4 DEF Number
      <3> QED
        BY <1>5, <1>11, <2>1, <2>3, <3>1
    <2>6. LaterThan(n)
      BY <1>1, <2>2, <2>4 DEF TcpOrder, DataLater
    <2>7. LaterThan(n)'
      BY <1>9, <2>5, <2>6
    <2> QED
      BY <1>1, <2>1, <2>2, <2>4, <2>7 DEF LaterThan
  <1>17. Sending(conn) => Sent(conn) = b + Len(toTarget[conn])
    BY <1>10 DEF Stream
  <1>18. ASSUME link[conn] = "open", serving[conn] = "message"
         PROVE  (LaterThan(cursor[conn] + 1))'
    <2>1. PICK n \in Nat : n = cursor[conn] + 1
      BY <1>12
    <2>2. 2 * cursor[conn] + 1 = b + Len(toTarget[conn])
      BY <1>17, <1>18 DEF Sending, Sent
    <2>3. m < n
      BY <1>2, <1>5, <1>11, <1>12, <2>1, <2>2
    <2>4. LaterThan(n)
      BY <1>1, <1>18, <2>1 DEF TcpOrder, DataLater
    <2>5. LaterThan(n)'
      BY <1>9, <2>3, <2>4
    <2> QED
      BY <1>1, <2>1, <2>5 DEF LaterThan
  <1>19. ASSUME link[conn] = "open", serving[conn] \in InHand
         PROVE  (LaterThan(cursor[conn]))'
    <2>1. PICK n \in Nat : n = cursor[conn]
      BY <1>12
    <2>2. 2 * n >= b + Len(toTarget[conn])
      <3>1. Sent(conn) = b + Len(toTarget[conn])
        BY <1>17, <1>19 DEF Sending, InHand
      <3>2. Sent(conn) = 2 * n - 1 \/ Sent(conn) = 2 * n
        BY <1>19, <2>1 DEF Sent, InHand
      <3> QED
        BY <1>2, <3>1, <3>2
    <2>3. m < n
      BY <1>2, <1>5, <1>11, <2>2
    <2>4. LaterThan(n)
      BY <1>1, <1>19, <2>1 DEF TcpOrder, DataLater
    <2>5. LaterThan(n)'
      BY <1>9, <2>3, <2>4
    <2> QED
      BY <1>1, <2>1, <2>5 DEF LaterThan
  <1>20. DataLater'
    BY <1>1, <1>16, <1>18, <1>19 DEF DataLater
  <1>21. TcpOrder'
    BY <1>13, <1>15, <1>20 DEF TcpOrder
  <1> QED
    BY <1>1, <1>6, <1>7, <1>21

LEMMA OrderPublish ==
    ASSUME TcpInv, TcpOrder, Publish, UNCHANGED tcpVars
    PROVE  TcpOrder'
  <1>1. /\ published < Len(Chunks) /\ published' = published + 1
        /\ UNCHANGED <<replica, toTarget, cursor, conn, serving, link>>
    BY DEF Publish, tcpVars, linkVars, sourceTcpVars
  <1>2. published \in Nat /\ Len(Chunks) \in Nat /\ published' \in 0..Len(Chunks)
    BY <1>1, ChunksAssumption, CopiesTyped DEF TcpOrder
  <1>3. \A k \in 1..published : k \in 1..published'
    BY <1>1, <1>2
  <1>4. WholeCopies'
    BY <1>1, <1>2, <1>3 DEF TcpOrder, WholeCopies
  <1>5. CursorsBehind'
    BY <1>1, <1>2 DEF TcpOrder, CursorsBehind, TcpInv, TcpTypes
  <1>6. DataPublished'
    BY <1>1, <1>3 DEF TcpOrder, DataPublished
  <1>7. DataLater'
    BY <1>1 DEF TcpOrder, DataLater, LaterThan
  <1> QED
    BY <1>4, <1>5, <1>6, <1>7 DEF TcpOrder

LEMMA OrderStutter ==
    ASSUME TcpOrder, UNCHANGED <<topicVars, tcpVars>>
    PROVE  TcpOrder'
  <1>1. UNCHANGED <<replica, published, toTarget, cursor, conn, serving, link>>
    BY DEF topicVars, tcpVars, linkVars, sourceTcpVars
  <1> QED
    BY <1>1, OrderKept

(* Each step over TCP is a step of Replica or none. *)
LEMMA TcpStep ==
    ASSUME TcpInv, TcpOrder, transport = "tcp", [Next]_vars
    PROVE  /\ TcpInv' /\ TcpOrder' /\ transport' = "tcp"
           /\ [Copy!Next]_(Copy!vars)
  <1>1. CASE Publish /\ UNCHANGED <<udpVars, tcpVars, transport>>
    <2>1. TcpInv' /\ TcpOrder' /\ UNCHANGED <<transport, restarted>>
      BY <1>1, InvPublish, OrderPublish DEF Publish, udpVars, sourceVars
    <2>2. WholeCopies /\ WholeCopies'
      BY <2>1 DEF TcpOrder
    <2> QED
      BY <1>1, <2>1, <2>2, PublishMaps
  <1>2. CASE UNCHANGED vars
    <2>1. UNCHANGED <<topicVars, tcpVars, transport>> /\ UNCHANGED <<replica, published, restarted>>
      BY <1>2 DEF vars, topicVars, udpVars, sourceVars
    <2>2. TcpInv'
      BY <2>1, InvPublish DEF topicVars
    <2> QED
      BY <2>1, <2>2, OrderStutter, NothingToMap
  <1>3. CASE TcpNext /\ UNCHANGED <<udpVars, transport>>
    <2>1. TcpInv' /\ UNCHANGED restarted
      BY <1>3, InvTcpNext DEF udpVars, sourceVars
    <2>2. CASE ReadPayload
      <3>1. /\ TcpOrder' /\ conn \in Nat
            /\ \E m \in 1..published : CopyInto(m, AllParts(m), conn) /\ LaterThan(m)
        BY <2>2, OrderReadPayload
      <3>2. PICK m \in 1..published : CopyInto(m, AllParts(m), conn) /\ LaterThan(m)
        BY <3>1
      <3>3. \A i \in 1..Len(replica) : replica[i].msg # m /\ replica[i].msg < m
        BY <3>2, CopiesTyped DEF LaterThan, TcpOrder
      <3>4. UNCHANGED published
        BY <2>2 DEF ReadPayload
      <3>5. PICK c \in Nat : c = conn
        BY <3>1
      <3>6. CopyInto(m, AllParts(m), c)
        BY <3>2, <3>5
      <3>7. Copy!Next
        BY <1>3, <2>1, <3>3, <3>4, <3>6, CopyMaps DEF TcpOrder
      <3> QED
        BY <1>3, <2>1, <3>1, <3>7
    <2>3. CASE ~ReadPayload
      <3>1. TcpOrder'
        <4>1. CASE TargetSteps
          BY <2>3, <4>1, OrderConnect, OrderQuiet, OrderReadHeader DEF TargetSteps
        <4>2. ASSUME NEW c \in Connections, SourceSteps(c) \/ Cut(c) PROVE TcpOrder'
          BY <4>2, OrderSourceQuiet, OrderSubscription, OrderTryReadFor, OrderWrite, OrderCut
             DEF SourceSteps
        <4>3. CASE StopSource \/ StartSource
          BY <4>3, OrderSourceProcess
        <4> QED
          BY <1>3, <4>1, <4>2, <4>3 DEF TcpNext
      <3>2. UNCHANGED <<replica, published>>
        <4>1. CASE TargetSteps
          BY <2>3, <4>1 DEF TargetSteps, Connect, ConnectFails, StartReplication,
             StartReplicationThrows, BeginLoop, ReadHeader, ReadFails, topicVars
        <4>2. ASSUME NEW c \in Connections, SourceSteps(c) \/ Cut(c) PROVE UNCHANGED topicVars
          BY <4>2 DEF SourceSteps, Accept, HandleReplicateSubscription, HandleNewClientFails,
             TryReadFor, WriteHeader, WritePayload, WriteFails, Cut
        <4>3. CASE StopSource \/ StartSource
          BY <4>3 DEF StopSource, StartSource, topicVars
        <4> QED
          BY <1>3, <4>1, <4>2, <4>3 DEF TcpNext, topicVars
      <3> QED
        BY <1>3, <2>1, <3>1, <3>2, NothingToMap
    <2> QED
      BY <2>2, <2>3
  <1> QED
    BY <1>1, <1>2, <1>3 DEF Next

ReplicationInv ==
    /\ transport \in {"udp", "tcp"}
    /\ transport = "udp" => \E r \in Nat : UdpInv(r)
    /\ transport = "tcp" => TcpInv /\ TcpOrder

LEMMA ReplicationInit == Init => ReplicationInv
  <1> SUFFICES ASSUME Init PROVE ReplicationInv
    OBVIOUS
  <1>1. Len(Chunks) \in Nat
    BY ChunksAssumption
  <1>2. UdpInv(Len(Chunks)) /\ TcpInv /\ TcpOrder
    BY UdpInvInit, InvInit, OrderInit
  <1>3. transport \in {"udp", "tcp"}
    BY DEF Init
  <1> QED
    BY <1>1, <1>2, <1>3 DEF ReplicationInv

LEMMA ReplicationStep ==
    ASSUME ReplicationInv, [Next]_vars
    PROVE  ReplicationInv' /\ [Copy!Next]_(Copy!vars)
  <1>1. CASE transport = "udp"
    <2>1. PICK r \in Nat : UdpInv(r)
      BY <1>1 DEF ReplicationInv
    <2>2. (\E s \in Nat : UdpInv(s)') /\ [Copy!Next]_(Copy!vars) /\ transport' = "udp"
      BY <1>1, <2>1, UdpStep
    <2> QED
      BY <2>2 DEF ReplicationInv
  <1>2. CASE transport = "tcp"
    <2>1. TcpInv' /\ TcpOrder' /\ [Copy!Next]_(Copy!vars) /\ transport' = "tcp"
      BY <1>2, TcpStep DEF ReplicationInv
    <2> QED
      BY <2>1 DEF ReplicationInv
  <1> QED
    BY <1>1, <1>2 DEF ReplicationInv

(* Whatever the network does and however often the connection or the clock  *)
(* of the source begins again, each step of the replicators adds nothing to *)
(* the copy or a whole message of the topic; over TCP, where a new          *)
(* connection begins behind what the last one brought, and for messages of  *)
(* several datagrams over UDP, where the defragmentator goes by stamps, it  *)
(* is one that the copy did not have, and later than the others as long as  *)
(* the clock goes on.                                                       *)
THEOREM ReplicationImplementsReplica == Spec => ImplementsReplica
  <1>1. Init => Copy!Init
    BY InitMaps
  <1>2. ReplicationInv /\ [Next]_vars => ReplicationInv' /\ [Copy!Next]_(Copy!vars)
    BY ReplicationStep
  <1> QED
    BY <1>1, <1>2, ReplicationInit, PTL DEF Spec, ImplementsReplica, Copy!Spec

-----------------------------------------------------------------------------
(* Over UDP, while nothing is disturbed: the datagrams come in the order    *)
(* (msg, seq), those under way are the ones from the place of the target to *)
(* the place of the source.                                                 *)
Before(m, s, n, t) == m < n \/ (m = n /\ s < t)

SourceMsg == IF sending = NoDatagram THEN position + 1 ELSE sending.msg
SourceSeq == IF sending = NoDatagram THEN 0 ELSE sending.seq
TargetMsg == Len(replica) + 1

DatagramOf(m, s) == [msg |-> m, created |-> 2 * m + 2, seq |-> s]

UnderWay(datagrams, n, sm, ss, tm, ts) ==
    \A m \in 1..n : \A s \in AllParts(m) :
        DatagramOf(m, s) \in datagrams <=> Before(m, s, sm, ss) /\ ~Before(m, s, tm, ts)

(* The target waits for datagram ts of message TargetMsg: the copy has the  *)
(* messages before, the open frame the datagrams before.                   *)
TargetAt(ts) ==
    /\ \A i \in 1..Len(replica) : replica[i].msg = i
    /\ IF currentFrame = NoFrame
       THEN ts = 0 /\ currentFrameCreated < 2 * TargetMsg + 2
       ELSE /\ currentFrame.msg = TargetMsg
            /\ currentFrame.parts = 0..(ts - 1)
            /\ ts \in 1..(Chunks[TargetMsg] - 1)

InOrder(ts) ==
    /\ ts \in Nat
    /\ up = TRUE /\ restarted = FALSE
    /\ TargetAt(ts)
    /\ sending # NoDatagram => sending.msg = position
    /\ ~Before(SourceMsg, SourceSeq, TargetMsg, ts)
    /\ UnderWay(net, position, SourceMsg, SourceSeq, TargetMsg, ts)

LEMMA InOrderInit == ASSUME Init PROVE InOrder(0)
  <1> USE DEF Init, TopicInit, UdpInit
  <1>1. /\ replica = <<>> /\ Len(replica) = 0 /\ TargetMsg = 1
        /\ position = 0 /\ sending = NoDatagram /\ currentFrame = NoFrame /\ currentFrameCreated = 0
    BY DEF TargetMsg
  <1>2. TargetAt(0)
    BY <1>1 DEF TargetAt
  <1>3. SourceMsg = 1 /\ SourceSeq = 0
    BY <1>1 DEF SourceMsg, SourceSeq
  <1>4. ~Before(SourceMsg, SourceSeq, TargetMsg, 0)
    BY <1>1, <1>3 DEF Before
  <1>5. UnderWay(net, position, SourceMsg, SourceSeq, TargetMsg, 0)
    BY <1>1 DEF UnderWay
  <1>6. up = TRUE /\ restarted = FALSE
    OBVIOUS
  <1> QED
    BY <1>1, <1>2, <1>4, <1>5, <1>6 DEF InOrder

(* What is under way has no gap in its names either: a datagram is the one  *)
(* its message and number say.                                             *)
LEMMA OrderTypes ==
    ASSUME NEW r \in Nat, UdpInv(r), NEW ts, InOrder(ts)
    PROVE  /\ r = Len(Chunks) /\ position \in Nat /\ position <= r
           /\ Len(replica) \in Nat /\ TargetMsg \in Nat \ {0} /\ ts \in Nat
           /\ SourceMsg \in Nat \ {0} /\ SourceSeq \in Nat
           /\ \A m \in 1..position : m \in Messages /\ m \in Nat /\ StampOf(r, m) = 2 * m + 2
           /\ sending # NoDatagram =>
                  sending = DatagramOf(position, SourceSeq) /\ SourceSeq \in AllParts(position)
           /\ \A d \in net : d = DatagramOf(d.msg, d.seq) /\ d.msg \in 1..position
                              /\ d.seq \in AllParts(d.msg) /\ d.seq \in Nat
  <1>1. ~restarted
    BY DEF InOrder
  <1>2. /\ r = Len(Chunks) /\ position \in Nat /\ position <= r
    <2>1. position \in 0..published /\ published \in 0..Len(Chunks) /\ Len(Chunks) \in Nat
      BY ChunksAssumption DEF UdpInv, WholeCopies, SourceState
    <2>2. r = Len(Chunks)
      BY <1>1 DEF UdpInv, SourceState
    <2> QED
      BY <2>1, <2>2
  <1>3. Len(replica) \in Nat /\ TargetMsg \in Nat \ {0} /\ ts \in Nat
    BY CopiesTyped DEF UdpInv, TargetMsg, InOrder
  <1>4. \A m \in 1..position : m \in Messages /\ m \in Nat /\ StampOf(r, m) = 2 * m + 2
    BY <1>2 DEF StampOf, Messages
  <1>5. ASSUME NEW d \in Datagrams(r, position)
        PROVE  /\ d = DatagramOf(d.msg, d.seq) /\ d.msg \in 1..position
               /\ d.seq \in AllParts(d.msg) /\ d.seq \in Nat
    BY <1>4, DatagramFacts DEF DatagramOf
  <1>6. \A d \in net : d \in Datagrams(r, position)
    BY DEF UdpInv, SourceState
  <1>7. CASE sending = NoDatagram
    <2>1. SourceMsg = position + 1 /\ SourceSeq = 0
      BY <1>7 DEF SourceMsg, SourceSeq
    <2>2. SourceMsg \in Nat \ {0} /\ SourceSeq \in Nat
      BY <1>2, <2>1
    <2> QED
      BY <1>2, <1>3, <1>4, <1>5, <1>6, <1>7, <2>2
  <1>8. CASE sending # NoDatagram
    <2>1. SourceMsg = sending.msg /\ SourceSeq = sending.seq /\ sending.msg = position
      BY <1>8 DEF SourceMsg, SourceSeq, InOrder
    <2>2. sending \in Datagrams(r, position)
      BY <1>8 DEF UdpInv, SourceState
    <2>3. /\ sending = DatagramOf(sending.msg, sending.seq) /\ sending.msg \in 1..position
          /\ sending.seq \in AllParts(sending.msg) /\ sending.seq \in Nat
      BY <1>5, <2>2
    <2>4. SourceMsg \in Nat \ {0} /\ SourceSeq \in Nat
      BY <1>2, <2>1, <2>3
    <2>5. sending = DatagramOf(position, SourceSeq) /\ SourceSeq \in AllParts(position)
      BY <2>1, <2>3
    <2> QED
      BY <1>2, <1>3, <1>4, <1>5, <1>6, <2>4, <2>5
  <1> QED
    BY <1>7, <1>8

LEMMA SameDatagram ==
    ASSUME NEW m, NEW s, NEW n, NEW t, DatagramOf(m, s) = DatagramOf(n, t)
    PROVE  m = n /\ s = t
  <1>1. DatagramOf(m, s).msg = m /\ DatagramOf(m, s).seq = s
    BY DEF DatagramOf
  <1>2. DatagramOf(n, t).msg = n /\ DatagramOf(n, t).seq = t
    BY DEF DatagramOf
  <1> QED
    BY <1>1, <1>2

-----------------------------------------------------------------------------
LEMMA InOrderAlone ==
    ASSUME NEW ts, InOrder(ts),
           UNCHANGED <<replica, frameVars, up, restarted, position, sending, net>>
    PROVE  InOrder(ts)'
  <1>1. UNCHANGED <<currentFrame, currentFrameCreated, TargetMsg, SourceMsg, SourceSeq>>
    BY DEF frameVars, TargetMsg, SourceMsg, SourceSeq
  <1>2. TargetAt(ts)'
    BY <1>1 DEF InOrder, TargetAt
  <1> QED
    BY <1>1, <1>2 DEF InOrder

LEMMA InOrderTake ==
    ASSUME NEW r \in Nat, UdpInv(r), NEW ts, InOrder(ts), TakeMessage
    PROVE  InOrder(ts)'
  <1>1. /\ UNCHANGED <<replica, frameVars, up, restarted, net>>
        /\ sending = NoDatagram /\ position' = position + 1
        /\ sending' = [msg |-> position + 1, created |-> now + 2, seq |-> 0]
    BY DEF TakeMessage, topicVars
  <1>2. position \in Nat
    BY OrderTypes
  <1>3. sending' # NoDatagram /\ sending'.msg = position + 1 /\ sending'.seq = 0
    <2>1. sending'.msg = position + 1 /\ sending'.seq = 0
      BY <1>1
    <2>2. NoDatagram.msg = 0
      BY DEF NoDatagram
    <2> QED
      BY <1>2, <2>1, <2>2
  <1>4. SourceMsg' = SourceMsg /\ SourceMsg = position + 1 /\ SourceSeq' = SourceSeq /\ SourceSeq = 0
    BY <1>1, <1>3 DEF SourceMsg, SourceSeq
  <1>5. UNCHANGED <<currentFrame, currentFrameCreated, TargetMsg>>
    BY <1>1 DEF frameVars, TargetMsg
  <1>6. TargetAt(ts)'
    BY <1>1, <1>5 DEF InOrder, TargetAt
  <1>7. UnderWay(net, position + 1, SourceMsg, SourceSeq, TargetMsg, ts)
    <2> SUFFICES ASSUME NEW m \in 1..(position + 1), NEW s \in AllParts(m)
                 PROVE  DatagramOf(m, s) \in net <=>
                            Before(m, s, SourceMsg, SourceSeq) /\ ~Before(m, s, TargetMsg, ts)
      BY DEF UnderWay
    <2>1. CASE m \in 1..position
      BY <2>1 DEF InOrder, UnderWay
    <2>2. CASE m = position + 1
      <3>1. DatagramOf(m, s) \notin net
        <4> SUFFICES ASSUME DatagramOf(m, s) \in net PROVE FALSE
          OBVIOUS
        <4>1. DatagramOf(m, s).msg \in 1..position
          BY OrderTypes
        <4>2. DatagramOf(m, s).msg = m
          BY DEF DatagramOf
        <4> QED
          BY <1>2, <2>2, <4>1, <4>2
      <3>2. s \in Nat
        <4>1. m \in Messages
          <5>1. position < published /\ published \in 0..Len(Chunks) /\ Len(Chunks) \in Nat
            BY ChunksAssumption DEF TakeMessage, UdpInv, WholeCopies
          <5> QED
            BY <1>2, <2>2, <5>1 DEF Messages
        <4> QED
          BY <4>1, ChunkCount DEF AllParts
      <3>3. ~Before(m, s, SourceMsg, SourceSeq)
        BY <1>2, <1>4, <2>2, <3>2 DEF Before
      <3> QED
        BY <3>1, <3>3
    <2> QED
      BY <1>2, <2>1, <2>2
  <1>8. /\ ~Before(SourceMsg, SourceSeq, TargetMsg, ts)'
        /\ UnderWay(net, position, SourceMsg, SourceSeq, TargetMsg, ts)'
    BY <1>1, <1>4, <1>5, <1>7 DEF InOrder
  <1> QED
    BY <1>1, <1>3, <1>6, <1>8 DEF InOrder

(* The next place after m and s. *)
LEMMA NextPlace ==
    ASSUME NEW m \in Nat, NEW s \in Nat, NEW n \in Nat, NEW t \in Nat,
           Chunks[m] \in Nat, s < Chunks[m], Chunks[n] \in Nat, t < Chunks[n],
           NEW m1 \in Nat, NEW s1 \in Nat,
           IF s + 1 < Chunks[m] THEN m1 = m /\ s1 = s + 1 ELSE m1 = m + 1 /\ s1 = 0
    PROVE  Before(n, t, m1, s1) <=> Before(n, t, m, s) \/ (n = m /\ t = s)
  <1>1. CASE s + 1 < Chunks[m]
    BY <1>1 DEF Before
  <1>2. CASE ~(s + 1 < Chunks[m])
    <2>1. m1 = m + 1 /\ s1 = 0 /\ s = Chunks[m] - 1
      BY <1>2
    <2>2. CASE n = m
      BY <2>1, <2>2 DEF Before
    <2>3. CASE n # m
      BY <2>1, <2>3 DEF Before
    <2> QED
      BY <2>2, <2>3
  <1> QED
    BY <1>1, <1>2

LEMMA InOrderSend ==
    ASSUME NEW r \in Nat, UdpInv(r), NEW ts, InOrder(ts), SendDatagram
    PROVE  InOrder(ts)'
  <1>1. /\ UNCHANGED <<replica, frameVars, up, restarted, position>>
        /\ sending # NoDatagram /\ net' = net \union {sending}
        /\ sending' = IF sending.seq + 1 < Chunks[sending.msg]
                      THEN [sending EXCEPT !.seq = sending.seq + 1]
                      ELSE NoDatagram
    BY DEF SendDatagram, topicVars
  <1>2. /\ position \in Nat /\ TargetMsg \in Nat /\ ts \in Nat
        /\ \A m \in 1..position : m \in Messages /\ m \in Nat
        /\ sending = DatagramOf(position, SourceSeq) /\ SourceSeq \in AllParts(position)
        /\ SourceSeq \in Nat
    BY <1>1, OrderTypes
  <1>3. SourceMsg = position /\ SourceSeq = sending.seq /\ sending.msg = position
    BY <1>1 DEF SourceMsg, SourceSeq, InOrder
  <1>4. position \in 1..position
    <2>1. sending \in Datagrams(r, position)
      BY <1>1 DEF UdpInv, SourceState
    <2> QED
      BY <1>3, <2>1, DatagramFacts
  <1>5. Chunks[position] \in Nat /\ SourceSeq < Chunks[position]
    BY <1>2, <1>4, ChunkCount DEF AllParts
  <1>6. PICK m1 \in Nat : m1 = IF SourceSeq + 1 < Chunks[position] THEN position ELSE position + 1
    BY <1>2
  <1>7. PICK s1 \in Nat : s1 = IF SourceSeq + 1 < Chunks[position] THEN SourceSeq + 1 ELSE 0
    BY <1>2
  <1>8. IF SourceSeq + 1 < Chunks[position] THEN m1 = position /\ s1 = SourceSeq + 1
        ELSE m1 = position + 1 /\ s1 = 0
    BY <1>6, <1>7
  <1>9. SourceMsg' = m1 /\ SourceSeq' = s1 /\ (sending' # NoDatagram => sending'.msg = position)
    <2>1. CASE SourceSeq + 1 < Chunks[position]
      <3>1. sending' = [sending EXCEPT !.seq = sending.seq + 1]
        BY <1>1, <1>3, <2>1
      <3>2. sending'.msg = position /\ sending'.seq = SourceSeq + 1
        BY <1>2, <1>3, <3>1 DEF DatagramOf
      <3>3. sending' # NoDatagram
        <4>1. NoDatagram.msg = 0
          BY DEF NoDatagram
        <4> QED
          BY <1>4, <3>2, <4>1
      <3> QED
        BY <1>8, <2>1, <3>2, <3>3 DEF SourceMsg, SourceSeq
    <2>2. CASE ~(SourceSeq + 1 < Chunks[position])
      <3>1. sending' = NoDatagram
        BY <1>1, <1>3, <2>2
      <3> QED
        BY <1>1, <1>8, <2>2, <3>1 DEF SourceMsg, SourceSeq
    <2> QED
      BY <2>1, <2>2
  <1>10. UNCHANGED <<currentFrame, currentFrameCreated, TargetMsg>>
    BY <1>1 DEF frameVars, TargetMsg
  <1>11. TargetAt(ts)'
    BY <1>1, <1>10 DEF InOrder, TargetAt
  <1>12. ~Before(position, SourceSeq, TargetMsg, ts)
    BY <1>3 DEF InOrder
  <1>13. ~Before(m1, s1, TargetMsg, ts)
    BY <1>2, <1>8, <1>12 DEF Before
  <1>14. UnderWay(net \union {sending}, position, m1, s1, TargetMsg, ts)
    <2> SUFFICES ASSUME NEW m \in 1..position, NEW s \in AllParts(m)
                 PROVE  DatagramOf(m, s) \in net \union {sending} <=>
                            Before(m, s, m1, s1) /\ ~Before(m, s, TargetMsg, ts)
      BY DEF UnderWay
    <2>1. m \in Nat /\ Chunks[m] \in Nat /\ s \in Nat /\ s < Chunks[m]
      BY <1>2, ChunkCount DEF AllParts
    <2>2. Before(m, s, m1, s1) <=> Before(m, s, position, SourceSeq) \/ (m = position /\ s = SourceSeq)
      <3>1. PICK p \in Nat : p = position
        BY <1>2
      <3>2. PICK q \in Nat : q = SourceSeq
        BY <1>2
      <3>3. /\ Chunks[p] \in Nat /\ q < Chunks[p]
            /\ IF q + 1 < Chunks[p] THEN m1 = p /\ s1 = q + 1 ELSE m1 = p + 1 /\ s1 = 0
        BY <1>5, <1>8, <3>1, <3>2
      <3>4. Before(m, s, m1, s1) <=> Before(m, s, p, q) \/ (m = p /\ s = q)
        BY <2>1, <3>3, NextPlace
      <3> QED
        BY <3>1, <3>2, <3>4
    <2>3. DatagramOf(m, s) \in net <=>
              Before(m, s, position, SourceSeq) /\ ~Before(m, s, TargetMsg, ts)
      BY <1>3 DEF InOrder, UnderWay
    <2>4. CASE m = position /\ s = SourceSeq
      BY <1>2, <1>12, <2>2, <2>4
    <2>5. CASE ~(m = position /\ s = SourceSeq)
      <3>1. DatagramOf(m, s) # sending
        BY <1>2, <2>5, SameDatagram
      <3> QED
        BY <2>2, <2>3, <2>5, <3>1
    <2> QED
      BY <2>4, <2>5
  <1>15. /\ ~Before(SourceMsg, SourceSeq, TargetMsg, ts)'
         /\ UnderWay(net, position, SourceMsg, SourceSeq, TargetMsg, ts)'
    BY <1>1, <1>9, <1>10, <1>13, <1>14
  <1> QED
    BY <1>1, <1>9, <1>11, <1>15 DEF InOrder

(* The datagram that none under way was sent before is the one the target   *)
(* waits for.                                                               *)
LEMMA NextInOrder ==
    ASSUME NEW r \in Nat, UdpInv(r), NEW ts, InOrder(ts), NEW d \in net,
           \A e \in net : ~SentBefore(e, d)
    PROVE  /\ d.msg = TargetMsg /\ d.seq = ts /\ d = DatagramOf(TargetMsg, ts)
           /\ TargetMsg \in 1..position /\ TargetMsg \in Messages
           /\ ts \in AllParts(TargetMsg)
           /\ Before(TargetMsg, ts, SourceMsg, SourceSeq)
  <1>1. /\ position \in Nat /\ TargetMsg \in Nat \ {0} /\ ts \in Nat
        /\ SourceMsg \in Nat /\ SourceSeq \in Nat
        /\ \A m \in 1..position : m \in Messages
    BY OrderTypes
  <1>2. /\ d = DatagramOf(d.msg, d.seq) /\ d.msg \in 1..position
        /\ d.seq \in AllParts(d.msg) /\ d.seq \in Nat
    BY OrderTypes
  <1>3. Before(d.msg, d.seq, SourceMsg, SourceSeq) /\ ~Before(d.msg, d.seq, TargetMsg, ts)
    <2>1. UnderWay(net, position, SourceMsg, SourceSeq, TargetMsg, ts)
      BY DEF InOrder
    <2>2. DatagramOf(d.msg, d.seq) \in net
      BY <1>2
    <2> QED
      BY <1>2, <2>1, <2>2 DEF UnderWay
  <1>4. TargetMsg \in 1..position /\ TargetMsg \in Messages
    <2>1. TargetMsg \in 1..position
      BY <1>1, <1>2, <1>3 DEF Before
    <2> QED
      BY <1>1, <2>1
  <1>5. ts \in AllParts(TargetMsg)
    <2>1. Chunks[TargetMsg] \in Nat \ {0}
      BY <1>4, ChunkCount
    <2>2. ts < Chunks[TargetMsg]
      BY <1>1, <2>1 DEF InOrder, TargetAt
    <2> QED
      BY <1>1, <2>1, <2>2 DEF AllParts
  <1>6. d.msg = TargetMsg /\ d.seq = ts
    <2> SUFFICES ASSUME ~(d.msg = TargetMsg /\ d.seq = ts) PROVE FALSE
      OBVIOUS
    <2>1. Before(TargetMsg, ts, d.msg, d.seq)
      BY <1>1, <1>2, <1>3 DEF Before
    <2>2. Before(TargetMsg, ts, SourceMsg, SourceSeq)
      BY <1>1, <1>2, <1>3, <2>1 DEF Before
    <2>3. ~Before(TargetMsg, ts, TargetMsg, ts)
      BY <1>1 DEF Before
    <2>4. DatagramOf(TargetMsg, ts) \in net
      BY <1>4, <1>5, <2>2, <2>3 DEF InOrder, UnderWay
    <2>5. DatagramOf(TargetMsg, ts).msg = TargetMsg /\ DatagramOf(TargetMsg, ts).seq = ts
      BY DEF DatagramOf
    <2>6. SentBefore(DatagramOf(TargetMsg, ts), d)
      BY <2>1, <2>5 DEF SentBefore, Before
    <2> QED
      BY <2>4, <2>6
  <1>7. d = DatagramOf(TargetMsg, ts)
    BY <1>2, <1>6
  <1> QED
    BY <1>3, <1>4, <1>5, <1>6, <1>7

(* Without that datagram, those under way begin at the next place. *)
LEMMA NextUnderWay ==
    ASSUME NEW r \in Nat, UdpInv(r), NEW ts, InOrder(ts),
           TargetMsg \in 1..position, ts \in AllParts(TargetMsg),
           Before(TargetMsg, ts, SourceMsg, SourceSeq),
           NEW m1 \in Nat, NEW s1 \in Nat,
           IF ts + 1 < Chunks[TargetMsg] THEN m1 = TargetMsg /\ s1 = ts + 1
           ELSE m1 = TargetMsg + 1 /\ s1 = 0
    PROVE  /\ ~Before(SourceMsg, SourceSeq, m1, s1)
           /\ UnderWay(net \ {DatagramOf(TargetMsg, ts)}, position, SourceMsg, SourceSeq, m1, s1)
  <1>1. /\ position \in Nat /\ TargetMsg \in Nat \ {0} /\ ts \in Nat
        /\ SourceMsg \in Nat /\ SourceSeq \in Nat
        /\ \A m \in 1..position : m \in Messages /\ m \in Nat
        /\ sending # NoDatagram =>
               sending = DatagramOf(position, SourceSeq) /\ SourceSeq \in AllParts(position)
    BY OrderTypes
  <1>2. Chunks[TargetMsg] \in Nat /\ ts < Chunks[TargetMsg]
    BY <1>1, ChunkCount DEF AllParts
  <1>3. ASSUME NEW n \in 1..position, NEW t \in AllParts(n)
        PROVE  /\ n \in Nat /\ t \in Nat
               /\ Before(n, t, m1, s1) <=>
                      Before(n, t, TargetMsg, ts) \/ (n = TargetMsg /\ t = ts)
    <2>1. n \in Nat /\ Chunks[n] \in Nat /\ t \in Nat /\ t < Chunks[n]
      BY <1>1, ChunkCount DEF AllParts
    <2> QED
      BY <1>1, <1>2, <2>1, NextPlace
  <1>4. ~Before(SourceMsg, SourceSeq, m1, s1)
    <2>1. CASE sending = NoDatagram
      <3>1. SourceMsg = position + 1 /\ SourceSeq = 0
        BY <2>1 DEF SourceMsg, SourceSeq
      <3>2. TargetMsg <= position
        BY <1>1
      <3>3. CASE ts + 1 < Chunks[TargetMsg]
        BY <1>1, <3>1, <3>2, <3>3 DEF Before
      <3>4. CASE ~(ts + 1 < Chunks[TargetMsg])
        BY <1>1, <3>1, <3>2, <3>4 DEF Before
      <3> QED
        BY <3>3, <3>4
    <2>2. CASE sending # NoDatagram
      <3>1. SourceMsg = position /\ SourceSeq \in AllParts(position)
        BY <1>1, <2>2 DEF SourceMsg, InOrder
      <3>2. position \in 1..position
        BY <1>1
      <3>3. Before(SourceMsg, SourceSeq, m1, s1) <=>
                Before(SourceMsg, SourceSeq, TargetMsg, ts) \/ (SourceMsg = TargetMsg /\ SourceSeq = ts)
        BY <1>3, <3>1, <3>2
      <3>4. ~(SourceMsg = TargetMsg /\ SourceSeq = ts)
        BY <1>1 DEF Before
      <3> QED
        BY <3>3, <3>4 DEF InOrder
    <2> QED
      BY <2>1, <2>2
  <1>5. ASSUME NEW n \in 1..position, NEW t \in AllParts(n)
        PROVE  DatagramOf(n, t) \in net \ {DatagramOf(TargetMsg, ts)} <=>
                   Before(n, t, SourceMsg, SourceSeq) /\ ~Before(n, t, m1, s1)
    <2>1. DatagramOf(n, t) \in net <=>
              Before(n, t, SourceMsg, SourceSeq) /\ ~Before(n, t, TargetMsg, ts)
      BY DEF InOrder, UnderWay
    <2>2. DatagramOf(n, t) = DatagramOf(TargetMsg, ts) <=> n = TargetMsg /\ t = ts
      BY SameDatagram
    <2>3. Before(n, t, m1, s1) <=> Before(n, t, TargetMsg, ts) \/ (n = TargetMsg /\ t = ts)
      BY <1>3
    <2> QED
      BY <2>1, <2>2, <2>3
  <1>6. UnderWay(net \ {DatagramOf(TargetMsg, ts)}, position, SourceMsg, SourceSeq, m1, s1)
    BY <1>5 DEF UnderWay
  <1> QED
    BY <1>4, <1>6

-----------------------------------------------------------------------------
(* The target takes the datagram it waits for, and waits for the next.      *)
LEMMA CopyInOrder ==
    ASSUME WholeCopies, UNCHANGED published, \A i \in 1..Len(replica) : replica[i].msg = i,
           TargetMsg \in 1..published, CopyInto(TargetMsg, AllParts(TargetMsg), 0),
           currentFrame' = NoFrame, UNCHANGED currentFrameCreated,
           currentFrameCreated \in Nat, currentFrameCreated <= 2 * TargetMsg + 2
    PROVE  TargetMsg' = TargetMsg + 1 /\ TargetAt(0)'
  <1>1. PICK m \in 1..published : m = TargetMsg
    OBVIOUS
  <1>2. /\ Len(replica) \in Nat /\ Len(replica') = Len(replica) + 1
        /\ replica'[Len(replica')].msg = m
        /\ \A i \in 1..Len(replica) : replica'[i] = replica[i]
    BY <1>1, CopyAppended
  <1>3. m = Len(replica) + 1 /\ TargetMsg' = m + 1
    BY <1>1, <1>2 DEF TargetMsg
  <1>4. \A i \in 1..Len(replica') : replica'[i].msg = i
    BY <1>2, <1>3
  <1>5. currentFrameCreated < 2 * (m + 1) + 2 /\ m \in Nat
    BY <1>1, <1>2, <1>3
  <1>6. TargetAt(0)'
    BY <1>3, <1>4, <1>5 DEF TargetAt
  <1> QED
    BY <1>1, <1>3, <1>6

LEMMA TakenInOrder ==
    ASSUME NEW r \in Nat, UdpInv(r), NEW ts, InOrder(ts), NEW d \in net, Receive(d),
           d.msg = TargetMsg, d.seq = ts, TargetMsg \in 1..position, TargetMsg \in Messages,
           ts \in AllParts(TargetMsg), d = DatagramOf(TargetMsg, ts)
    PROVE  /\ up' = TRUE
           /\ IF ts + 1 < Chunks[TargetMsg] THEN TargetMsg' = TargetMsg /\ TargetAt(ts + 1)'
              ELSE TargetMsg' = TargetMsg + 1 /\ TargetAt(0)'
  <1>1. /\ up = TRUE /\ up
        /\ UNCHANGED published
        /\ ProcessWhole(d) \/ ProcessOpen(d) \/ ProcessNew(d) \/ ProcessLate(d)
    BY DEF Receive, InOrder
  <1>2. previousFrame = NoFrame /\ currentFrameCreated \in Nat /\ WholeCopies
    BY <1>1 DEF UdpInv, FrameState
  <1>3. PICK m \in Messages : m = TargetMsg
    OBVIOUS
  <1>4. /\ m \in Nat /\ m # 0 /\ ts \in Nat /\ Chunks[m] \in Nat \ {0} /\ ts < Chunks[m]
        /\ d.created = 2 * m + 2 /\ d.msg = m /\ d.seq = ts
    <2>1. Chunks[m] \in Nat \ {0} /\ m \in Nat /\ m # 0
      BY ChunkCount
    <2>2. d.created = 2 * m + 2
      BY <1>3 DEF DatagramOf
    <2> QED
      BY <1>3, <2>1, <2>2 DEF AllParts
  <1>5. m \in 1..published /\ StampOf(r, m) = 2 * m + 2
    <2>1. position \in 0..published /\ published \in Nat
      BY ChunksAssumption DEF UdpInv, SourceState, WholeCopies
    <2>2. StampOf(r, m) = 2 * m + 2
      BY <1>3, OrderTypes
    <2> QED
      BY <1>3, <2>1, <2>2
  <1>6. \A i \in 1..Len(replica) : replica[i].msg = i
    BY DEF InOrder, TargetAt
  <1>7. currentFrame = NoFrame => ts = 0 /\ currentFrameCreated < 2 * m + 2
    BY <1>3 DEF InOrder, TargetAt
  <1>8. currentFrame # NoFrame => /\ currentFrame.msg = m /\ currentFrame.parts = 0..(ts - 1)
                                  /\ ts \in 1..(Chunks[m] - 1)
                                  /\ FrameOf(currentFrame) /\ currentFrameCreated = 2 * m + 2
    <2>1. ASSUME currentFrame # NoFrame
          PROVE  /\ currentFrame.msg = m /\ currentFrame.parts = 0..(ts - 1)
                 /\ ts \in 1..(Chunks[m] - 1)
      BY <1>3, <2>1 DEF InOrder, TargetAt
    <2>2. ASSUME currentFrame # NoFrame
          PROVE  FrameOf(currentFrame) /\ currentFrameCreated = StampOf(r, currentFrame.msg)
      BY <2>2 DEF UdpInv, FrameState
    <2> QED
      BY <1>5, <2>1, <2>2
  <1>9. ~OfPrevious(d)
    BY <1>2 DEF OfPrevious
  <1>10. CASE Chunks[m] = 1
    <2>1. ts = 0 /\ currentFrame = NoFrame /\ ~SpanIsTaken /\ Whole(d)
      <3>1. currentFrame = NoFrame
        BY <1>8, <1>4, <1>10
      <3> QED
        BY <1>2, <1>4, <1>7, <1>10, <3>1 DEF SpanIsTaken, Whole
    <2>2. ProcessWhole(d)
      BY <1>1, <2>1 DEF ProcessOpen, ProcessNew, ProcessLate
    <2>3. /\ CopyInto(d.msg, AllParts(d.msg), 0) /\ UNCHANGED <<up, frameVars>>
      BY <2>1, <2>2 DEF ProcessWhole
    <2>4. currentFrame' = NoFrame /\ UNCHANGED currentFrameCreated /\ up' = TRUE
      BY <1>1, <2>1, <2>3 DEF frameVars
    <2>5. CopyInto(TargetMsg, AllParts(TargetMsg), 0)
      BY <2>3
    <2>6. currentFrameCreated <= 2 * TargetMsg + 2 /\ TargetMsg \in 1..published
      BY <1>2, <1>3, <1>4, <1>5, <1>7, <2>1
    <2>7. TargetMsg' = TargetMsg + 1 /\ TargetAt(0)'
      BY <1>1, <1>2, <1>6, <2>4, <2>5, <2>6, CopyInOrder
    <2>8. ~(ts + 1 < Chunks[TargetMsg])
      BY <1>3, <1>10, <2>1
    <2> QED
      BY <2>4, <2>7, <2>8
  <1>11. CASE Chunks[m] # 1 /\ currentFrame = NoFrame
    <2>1. ~Whole(d) /\ ~OfCurrent(d) /\ ~SpanIsTaken /\ ts = 0 /\ d.created > currentFrameCreated
          /\ ~(d.created <= currentFrameCreated)
      BY <1>2, <1>4, <1>7, <1>11 DEF Whole, OfCurrent, SpanIsTaken
    <2>2. ProcessNew(d)
      BY <1>1, <1>9, <2>1 DEF ProcessWhole, ProcessOpen, ProcessLate
    <2>3. currentFrame' = Opened(d) /\ UNCHANGED <<replica, up>>
      BY <2>1, <2>2 DEF ProcessNew
    <2>4. /\ Opened(d).msg = m /\ Opened(d).parts = {0} /\ Opened(d) # NoFrame
      <3>1. InParts(d.msg)
        BY <1>4, <1>11 DEF InParts
      <3>2. Opened(d).msg = d.msg /\ Opened(d).parts = {d.seq}
        BY <1>3, <3>1, OpenedFrame
      <3>3. NoFrame.msg = 0
        BY DEF NoFrame
      <3> QED
        BY <1>4, <2>1, <3>2, <3>3
    <2>5. UNCHANGED TargetMsg /\ up' = TRUE
      BY <1>1, <2>3 DEF TargetMsg
    <2>6. ts + 1 = 1 /\ 0..((ts + 1) - 1) = {0} /\ ts + 1 \in 1..(Chunks[m] - 1)
      BY <1>4, <1>11, <2>1
    <2>7. TargetAt(ts + 1)'
      <3>1. /\ currentFrame'.msg = TargetMsg' /\ currentFrame' # NoFrame
            /\ currentFrame'.parts = {0} /\ TargetMsg' = m
        BY <1>3, <2>3, <2>4, <2>5
      <3>2. ts + 1 \in 1..(Chunks[TargetMsg'] - 1)
        BY <2>6, <3>1
      <3>3. \A i \in 1..Len(replica') : replica'[i].msg = i
        BY <1>6, <2>3
      <3> QED
        BY <2>6, <3>1, <3>2, <3>3 DEF TargetAt
    <2> QED
      BY <1>3, <2>5, <2>6, <2>7, <1>4, <1>11
  <1>12. CASE currentFrame # NoFrame
    <2>1. /\ FrameOf(currentFrame) /\ currentFrame.msg = m /\ currentFrame.parts = 0..(ts - 1)
          /\ ts \in 1..(Chunks[m] - 1) /\ currentFrameCreated = 2 * m + 2
      BY <1>8, <1>12
    <2>2. OfCurrent(d) /\ ~Whole(d)
      BY <1>4, <1>12, <2>1 DEF OfCurrent, Whole
    <2>3. ProcessOpen(d)
      BY <1>1, <2>2 DEF ProcessWhole, ProcessNew, ProcessLate
    <2>4. PICK w : w = writeChunk(currentFrame, d)
      OBVIOUS
    <2>5. /\ getBit(currentFrame.bits, Chunks[d.msg], d.seq) <=> d.seq \in currentFrame.parts
          /\ FrameOf(w) /\ w.msg = m
          /\ w.parts = currentFrame.parts \union {ts}
          /\ isComplete(w.bits) <=> w.parts = AllParts(m)
      BY <1>3, <1>4, <2>1, <2>4, WrittenFrame
    <2>6. ~getBit(currentFrame.bits, Chunks[d.msg], d.seq)
      BY <1>4, <2>1, <2>5
    <2>7. w.parts = 0..ts
      BY <1>4, <2>1, <2>5
    <2>8. /\ UNCHANGED <<currentFrameCreated, up>>
          /\ IF isComplete(w.bits)
             THEN CopyInto(d.msg, w.parts, 0) /\ currentFrame' = NoFrame
             ELSE currentFrame' = w /\ UNCHANGED replica
      BY <1>9, <2>3, <2>4, <2>6 DEF ProcessOpen
    <2>9. up' = TRUE
      BY <1>1, <2>8
    <2>10. isComplete(w.bits) <=> ~(ts + 1 < Chunks[m])
      <3>1. AllParts(m) = 0..(Chunks[m] - 1)
        BY DEF AllParts
      <3>2. ts + 1 < Chunks[m] => w.parts # AllParts(m)
        <4> SUFFICES ASSUME ts + 1 < Chunks[m] PROVE w.parts # AllParts(m)
          OBVIOUS
        <4>1. ts + 1 \in AllParts(m) /\ ts + 1 \notin w.parts
          BY <1>4, <2>7, <3>1
        <4> QED
          BY <4>1
      <3>3. ~(ts + 1 < Chunks[m]) => ts = Chunks[m] - 1
        BY <1>4
      <3> QED
        BY <2>5, <2>7, <3>1, <3>2, <3>3
    <2>11. CASE isComplete(w.bits)
      <3>1. CopyInto(TargetMsg, AllParts(TargetMsg), 0) /\ currentFrame' = NoFrame
        BY <1>3, <1>4, <2>5, <2>8, <2>11
      <3>2. currentFrameCreated <= 2 * TargetMsg + 2 /\ TargetMsg \in 1..published
        BY <1>2, <1>3, <1>5, <2>1
      <3>3. TargetMsg' = TargetMsg + 1 /\ TargetAt(0)'
        BY <1>1, <1>2, <1>6, <2>8, <3>1, <3>2, CopyInOrder
      <3> QED
        BY <1>3, <2>9, <2>10, <2>11, <3>3
    <2>12. CASE ~isComplete(w.bits)
      <3>1. currentFrame' = w /\ UNCHANGED replica /\ UNCHANGED TargetMsg
        BY <2>8, <2>12 DEF TargetMsg
      <3>2. w # NoFrame
        <4>1. NoFrame.msg = 0
          BY DEF NoFrame
        <4> QED
          BY <1>4, <2>5, <4>1
      <3>3. ts + 1 < Chunks[m] /\ ts + 1 \in 1..(Chunks[m] - 1) /\ (ts + 1) - 1 = ts
        BY <1>4, <2>10, <2>12
      <3>4. TargetAt(ts + 1)'
        <4>1. /\ currentFrame'.msg = TargetMsg' /\ currentFrame' # NoFrame
              /\ currentFrame'.parts = 0..((ts + 1) - 1) /\ TargetMsg' = m
          BY <1>3, <2>5, <2>7, <3>1, <3>2, <3>3
        <4>2. ts + 1 \in 1..(Chunks[TargetMsg'] - 1)
          BY <3>3, <4>1
        <4>3. \A i \in 1..Len(replica') : replica'[i].msg = i
          BY <1>6, <3>1
        <4> QED
          BY <4>1, <4>2, <4>3 DEF TargetAt
      <3> QED
        BY <1>3, <2>9, <3>1, <3>3, <3>4
    <2> QED
      BY <2>11, <2>12
  <1> QED
    BY <1>10, <1>11, <1>12

LEMMA InOrderReceive ==
    ASSUME NEW r \in Nat, UdpInv(r), NEW ts, InOrder(ts), NEW d \in net, Receive(d),
           disturbed' = FALSE
    PROVE  \E u \in Nat : InOrder(u)'
  <1>1. /\ net' = net \ {d} /\ \A e \in net : ~SentBefore(e, d)
        /\ UNCHANGED <<restarted, position, sending>>
    BY DEF Receive, sourceVars
  <1>2. /\ d.msg = TargetMsg /\ d.seq = ts /\ d = DatagramOf(TargetMsg, ts)
        /\ TargetMsg \in 1..position /\ TargetMsg \in Messages /\ ts \in AllParts(TargetMsg)
        /\ Before(TargetMsg, ts, SourceMsg, SourceSeq)
    BY <1>1, NextInOrder
  <1>3. /\ up' = TRUE
        /\ IF ts + 1 < Chunks[TargetMsg] THEN TargetMsg' = TargetMsg /\ TargetAt(ts + 1)'
           ELSE TargetMsg' = TargetMsg + 1 /\ TargetAt(0)'
    BY <1>2, TakenInOrder
  <1>4. TargetMsg \in Nat /\ ts \in Nat
    BY OrderTypes
  <1>5. PICK m1 \in Nat : m1 = IF ts + 1 < Chunks[TargetMsg] THEN TargetMsg ELSE TargetMsg + 1
    BY <1>4
  <1>6. PICK s1 \in Nat : s1 = IF ts + 1 < Chunks[TargetMsg] THEN ts + 1 ELSE 0
    BY <1>4
  <1>7. IF ts + 1 < Chunks[TargetMsg] THEN m1 = TargetMsg /\ s1 = ts + 1
        ELSE m1 = TargetMsg + 1 /\ s1 = 0
    BY <1>5, <1>6
  <1>8. /\ ~Before(SourceMsg, SourceSeq, m1, s1)
        /\ UnderWay(net \ {DatagramOf(TargetMsg, ts)}, position, SourceMsg, SourceSeq, m1, s1)
    BY <1>2, <1>7, NextUnderWay
  <1>9. UNCHANGED <<SourceMsg, SourceSeq>>
    BY <1>1 DEF SourceMsg, SourceSeq
  <1>10. TargetMsg' = m1
    BY <1>3, <1>7
  <1>11. TargetAt(s1)'
    BY <1>3, <1>7
  <1>12. /\ ~Before(SourceMsg, SourceSeq, TargetMsg, s1)'
         /\ UnderWay(net, position, SourceMsg, SourceSeq, TargetMsg, s1)'
    BY <1>1, <1>2, <1>8, <1>9, <1>10
  <1>13. restarted' = FALSE /\ (sending' # NoDatagram => sending'.msg = position')
    BY <1>1 DEF InOrder
  <1>14. InOrder(s1)'
    BY <1>3, <1>11, <1>12, <1>13 DEF InOrder
  <1> QED
    BY <1>14

(* What is true of UDP while nothing is disturbed. *)
InOrderInv ==
    /\ disturbed \in BOOLEAN
    /\ transport = "udp" /\ disturbed = FALSE => \E ts \in Nat : InOrder(ts)

LEMMA InOrderInvInit == Init => InOrderInv
  <1> SUFFICES ASSUME Init PROVE InOrderInv
    OBVIOUS
  <1>1. disturbed \in BOOLEAN
    BY DEF Init, UdpInit
  <1>2. InOrder(0)
    BY InOrderInit
  <1> QED
    BY <1>1, <1>2 DEF InOrderInv

LEMMA InOrderStep ==
    ASSUME ReplicationInv, InOrderInv, [Next]_vars
    PROVE  InOrderInv'
  <1>1. transport' = transport
    BY DEF Next, vars
  <1>2. disturbed' \in BOOLEAN /\ (disturbed' = FALSE => disturbed = FALSE)
    <2>1. CASE \/ Publish /\ UNCHANGED <<udpVars, tcpVars, transport>>
               \/ TcpNext /\ UNCHANGED <<udpVars, transport>>
               \/ UNCHANGED vars
      BY <2>1 DEF InOrderInv, udpVars, vars
    <2>2. CASE TakeMessage \/ SendDatagram \/ RestartSource \/ \E d \in net : Lose(d)
      BY <2>2 DEF InOrderInv, TakeMessage, SendDatagram, RestartSource, Lose
    <2>3. CASE \E d \in net : Receive(d)
      BY <2>3 DEF InOrderInv, Receive
    <2> QED
      BY <2>1, <2>2, <2>3 DEF Next, UdpNext
  <1>3. ASSUME transport = "udp", disturbed' = FALSE PROVE \E u \in Nat : InOrder(u)'
    <2>1. PICK r \in Nat : UdpInv(r)
      BY <1>3 DEF ReplicationInv
    <2>2. PICK ts \in Nat : InOrder(ts)
      BY <1>2, <1>3 DEF InOrderInv
    <2>3. CASE \/ Publish /\ UNCHANGED <<udpVars, tcpVars, transport>>
               \/ UNCHANGED vars
      <3>1. UNCHANGED <<replica, frameVars, up, restarted, position, sending, net>>
        BY <2>3 DEF Publish, vars, topicVars, udpVars, sourceVars
      <3> QED
        BY <2>2, <3>1, InOrderAlone
    <2>4. CASE TakeMessage
      BY <2>1, <2>2, <2>4, InOrderTake
    <2>5. CASE SendDatagram
      BY <2>1, <2>2, <2>5, InOrderSend
    <2>6. ASSUME NEW d \in net, Receive(d) PROVE \E u \in Nat : InOrder(u)'
      BY <1>3, <2>1, <2>2, <2>6, InOrderReceive
    <2>7. ~RestartSource /\ \A d \in net : ~Lose(d)
      BY <1>3 DEF RestartSource, Lose
    <2> QED
      BY <1>3, <2>3, <2>4, <2>5, <2>6, <2>7 DEF Next, UdpNext
  <1> QED
    BY <1>1, <1>2, <1>3 DEF InOrderInv

(* Nothing is under way and the source waits: both are at the same place. *)
LEMMA AllArrived ==
    ASSUME NEW r \in Nat, UdpInv(r), NEW ts, InOrder(ts), net = {}, sending = NoDatagram
    PROVE  Len(replica) = position
  <1>1. /\ position \in Nat /\ TargetMsg \in Nat \ {0} /\ ts \in Nat /\ Len(replica) \in Nat
        /\ \A m \in 1..position : m \in Messages
    BY OrderTypes
  <1>2. SourceMsg = position + 1 /\ SourceSeq = 0
    BY DEF SourceMsg, SourceSeq
  <1>3. TargetMsg = Len(replica) + 1
    BY DEF TargetMsg
  <1>4. ~Before(position + 1, 0, TargetMsg, ts)
    BY <1>2 DEF InOrder
  <1>5. TargetMsg <= position + 1
    BY <1>1, <1>4 DEF Before
  <1> SUFFICES ASSUME TargetMsg <= position PROVE FALSE
    BY <1>1, <1>3, <1>5
  <1>6. TargetMsg \in 1..position /\ Chunks[TargetMsg] \in Nat \ {0}
    BY <1>1, ChunkCount
  <1>7. ts < Chunks[TargetMsg]
    BY <1>1, <1>6 DEF InOrder, TargetAt
  <1>8. ts \in AllParts(TargetMsg)
    BY <1>1, <1>6, <1>7 DEF AllParts
  <1>9. Before(TargetMsg, ts, position + 1, 0) /\ ~Before(TargetMsg, ts, TargetMsg, ts)
    BY <1>1 DEF Before
  <1>10. DatagramOf(TargetMsg, ts) \in net
    BY <1>2, <1>6, <1>8, <1>9 DEF InOrder, UnderWay
  <1> QED
    BY <1>10

(* Over UDP, while each datagram comes once and in order and the source's   *)
(* clock goes on, no span is asked for that another frame holds, so that    *)
(* the target stays up, and its copy is the first messages of the topic     *)
(* without a gap, each whole; when nothing is under way, all that the       *)
(* source has read.                                                         *)
THEOREM InOrderNetworkGivesExactCopy == Spec => []InOrderNetworkIsExact
  <1>1. Init => ReplicationInv /\ InOrderInv
    BY ReplicationInit, InOrderInvInit
  <1>2. ReplicationInv /\ InOrderInv /\ [Next]_vars => ReplicationInv' /\ InOrderInv'
    BY ReplicationStep, InOrderStep
  <1>3. ReplicationInv /\ InOrderInv => InOrderNetworkIsExact
    <2> SUFFICES ASSUME ReplicationInv, InOrderInv, transport = "udp", ~disturbed
                 PROVE  /\ up
                        /\ \A i \in DOMAIN replica :
                               replica[i].msg = i /\ replica[i].parts = AllParts(i)
                        /\ net = {} /\ sending = NoDatagram => Len(replica) = position
      BY DEF InOrderNetworkIsExact
    <2>1. PICK r \in Nat : UdpInv(r)
      BY DEF ReplicationInv
    <2>2. PICK ts \in Nat : InOrder(ts)
      BY DEF InOrderInv
    <2>3. up
      BY <2>2 DEF InOrder
    <2>4. \A i \in DOMAIN replica : replica[i].msg = i /\ replica[i].parts = AllParts(i)
      <3>1. DOMAIN replica = 1..Len(replica)
        BY <2>1 DEF UdpInv, WholeCopies
      <3>2. \A i \in 1..Len(replica) : replica[i].msg = i
        BY <2>2 DEF InOrder, TargetAt
      <3>3. \A i \in 1..Len(replica) : replica[i].parts = AllParts(replica[i].msg)
        BY <2>1 DEF UdpInv, WholeCopies
      <3> QED
        BY <3>1, <3>2, <3>3
    <2>5. net = {} /\ sending = NoDatagram => Len(replica) = position
      BY <2>1, <2>2, AllArrived
    <2> QED
      BY <2>3, <2>4, <2>5
  <1> QED
    BY <1>1, <1>2, <1>3, PTL DEF Spec

=================================================================================
