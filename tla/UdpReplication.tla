----------------------------- MODULE UdpReplication -----------------------------
(***************************************************************************)
(* Replication of a topic over UDP: UdpReplicationSource cuts each message  *)
(* it reads into datagrams with UdpFrameIterator, UdpReplicationTarget puts *)
(* them together again with UdpFrameDefragmentator.  The network loses,     *)
(* duplicates and reorders datagrams, and the host of the source restarts,  *)
(* which sets its steady clock back.                                        *)
(*                                                                          *)
(* The readings of the clock before the restart are even and those after it *)
(* odd: two messages never have the same one.                               *)
(***************************************************************************)
EXTENDS ReplicatedTopic, FastBitSet

CONSTANTS
    MaxNextFrameMessages,    \* MAX_NEXT_FRAME_MESSAGES, 16 in the code
    MaxDuplicates            \* bound: datagrams the network duplicates

VARIABLES
    now, restarted,  \* the clock of the source, and whether it was set back
    position,        \* of the source's cursor: the messages it has read
    sending,         \* the datagram the iterator stands at
    net, duplicates, \* datagrams under way: [msg, created, seq]
    currentFrame, previousFrame, currentFrameCreated, previousFrameCreated,
    nextFrameMessages,
    up,              \* the process of the target has not ended
    disturbed        \* history: the network or the clock misbehaved

sourceVars == <<now, restarted, position, sending>>
frameVars  == <<currentFrame, previousFrame, currentFrameCreated, previousFrameCreated,
                nextFrameMessages>>
udpVars    == <<sourceVars, net, duplicates, frameVars, up, disturbed>>

NoFrame == [msg |-> 0]
NoDatagram == [msg |-> 0]

UdpInit ==
    /\ now = 2 /\ restarted = FALSE
    /\ position = 0
    /\ sending = NoDatagram
    /\ net = {} /\ duplicates = 0
    /\ currentFrame = NoFrame /\ previousFrame = NoFrame
    /\ currentFrameCreated = 0 /\ previousFrameCreated = 0
    /\ nextFrameMessages = 0
    /\ up = TRUE
    /\ disturbed = FALSE

-----------------------------------------------------------------------------
(* The source: ReplicateLoop and UdpFrameIterator.                         *)

TakeMessage ==
    /\ sending = NoDatagram
    /\ position < published
    /\ position' = position + 1
    /\ now' = now + 2
    /\ sending' = [msg |-> position + 1, created |-> now + 2, seq |-> 0]
    /\ UNCHANGED <<topicVars, restarted, net, duplicates, frameVars, up, disturbed>>

(* A send that fails is tried again, until the datagram is sent. *)
SendDatagram ==
    /\ sending # NoDatagram
    /\ net' = net \union {sending}
    /\ sending' = IF sending.seq + 1 < Chunks[sending.msg]
                  THEN [sending EXCEPT !.seq = @ + 1]
                  ELSE NoDatagram
    /\ UNCHANGED <<topicVars, now, restarted, position, duplicates, frameVars, up, disturbed>>

(* The source's host restarts: its clock begins again, and its new cursor   *)
(* yields the messages published from now on.                               *)
RestartSource ==
    /\ ~restarted
    /\ restarted' = TRUE
    /\ now' = 1
    /\ position' = published
    /\ sending' = NoDatagram
    /\ disturbed' = TRUE
    /\ UNCHANGED <<topicVars, net, duplicates, frameVars, up>>

-----------------------------------------------------------------------------
(* The target: ReplicateLoop and UdpFrameDefragmentator.                   *)

(* The pool gives one span at a time: GetWriteSpan throws while a frame     *)
(* holds one.  ReplicateLoop catches system errors only, so the exception   *)
(* ends the thread and with it the process.                                 *)
SpanIsTaken == currentFrame # NoFrame \/ previousFrame # NoFrame

Terminate == up' = FALSE /\ UNCHANGED replica

OfPrevious(d) == previousFrame # NoFrame /\ d.created = previousFrameCreated
OfCurrent(d)  == currentFrame # NoFrame /\ d.created = currentFrameCreated

Whole(d) == Chunks[d.msg] = 1

(* header.Size == dataSize *)
ProcessWhole(d) ==
    /\ Whole(d)
    /\ IF SpanIsTaken THEN Terminate
       ELSE CopyInto(d.msg, AllParts(d.msg), 0) /\ UNCHANGED up
    /\ UNCHANGED frameVars

writeChunk(frame, d) ==
    [frame EXCEPT !.bits = setBit(@, Chunks[d.msg], d.seq), !.parts = @ \union {d.seq}]

(* processFrameFragment: completing a frame drops currentFrame_, whichever  *)
(* frame it was.                                                            *)
ProcessOpen(d) ==
    LET frame   == IF OfPrevious(d) THEN previousFrame ELSE currentFrame
        written == writeChunk(frame, d)
    IN  /\ ~Whole(d)
        /\ OfPrevious(d) \/ OfCurrent(d)
        /\ IF getBit(frame.bits, Chunks[d.msg], d.seq)
           THEN UNCHANGED <<replica, currentFrame, previousFrame>>
           ELSE IF isComplete(written.bits)
           THEN /\ CopyInto(d.msg, written.parts, 0)
                /\ currentFrame' = NoFrame
                /\ previousFrame' = IF OfPrevious(d) THEN NoFrame ELSE previousFrame
           ELSE /\ currentFrame' = IF OfPrevious(d) THEN currentFrame ELSE written
                /\ previousFrame' = IF OfPrevious(d) THEN written ELSE previousFrame
                /\ UNCHANGED replica
        /\ UNCHANGED <<currentFrameCreated, previousFrameCreated, nextFrameMessages, up>>

Opened(d) ==
    writeChunk([msg |-> d.msg, bits |-> NewTree(Chunks[d.msg]), parts |-> {}], d)

(* The first fragment of a later message.  The open frame becomes the       *)
(* previous one and keeps its span, and initializeNewFrame asks for another.*)
ProcessNew(d) ==
    /\ ~Whole(d) /\ ~OfPrevious(d) /\ ~OfCurrent(d)
    /\ d.created > currentFrameCreated
    /\ IF currentFrame # NoFrame
       THEN /\ previousFrame' = currentFrame
            /\ previousFrameCreated' = currentFrameCreated
            /\ nextFrameMessages' = 1
       ELSE UNCHANGED <<previousFrame, previousFrameCreated, nextFrameMessages>>
    /\ IF SpanIsTaken
       THEN currentFrame' = NoFrame /\ Terminate /\ UNCHANGED currentFrameCreated
       ELSE /\ currentFrame' = Opened(d)
            /\ currentFrameCreated' = d.created
            /\ UNCHANGED <<replica, up>>

(* A fragment of a message that is complete or older: it is dropped.  The   *)
(* count matters up to the point where it is above the maximum.             *)
ProcessLate(d) ==
    LET counts == currentFrame # NoFrame /\ d.created > previousFrameCreated
        count  == IF counts /\ nextFrameMessages <= MaxNextFrameMessages
                  THEN nextFrameMessages + 1 ELSE nextFrameMessages
    IN  /\ ~Whole(d) /\ ~OfPrevious(d) /\ ~OfCurrent(d)
        /\ d.created <= currentFrameCreated
        /\ nextFrameMessages' = count
        /\ previousFrame' = IF counts /\ count > MaxNextFrameMessages THEN NoFrame ELSE previousFrame
        /\ UNCHANGED <<replica, currentFrame, currentFrameCreated, previousFrameCreated, up>>

SentBefore(e, d) == e.msg < d.msg \/ (e.msg = d.msg /\ e.seq < d.seq)

(* A datagram arrives, and stays under way when the network duplicates it. *)
Receive(d) ==
    /\ up
    /\ \E keep \in BOOLEAN :
           /\ keep => duplicates < MaxDuplicates
           /\ duplicates' = IF keep THEN duplicates + 1 ELSE duplicates
           /\ net' = IF keep THEN net ELSE net \ {d}
           /\ disturbed' = (disturbed \/ keep \/ \E e \in net : SentBefore(e, d))
    /\ ProcessWhole(d) \/ ProcessOpen(d) \/ ProcessNew(d) \/ ProcessLate(d)
    /\ UNCHANGED <<published, sourceVars>>

Lose(d) ==
    /\ net' = net \ {d}
    /\ disturbed' = TRUE
    /\ UNCHANGED <<topicVars, sourceVars, duplicates, frameVars, up>>

-----------------------------------------------------------------------------
UdpNext ==
    \/ TakeMessage \/ SendDatagram \/ RestartSource
    \/ \E d \in net : Receive(d) \/ Lose(d)

=================================================================================
