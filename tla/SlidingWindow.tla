---------------------------- MODULE SlidingWindow ---------------------------
(***************************************************************************)
(* One direction of an established MDSWP connection: the SendStorage of    *)
(* the stream that writes, the RecvStorage of its peer, and the datagrams  *)
(* between them, which UDP may lose, duplicate and reorder.                *)
(*                                                                         *)
(* The steps are the ones the code takes: calls of the application         *)
(* (write, finish_write, read, reset), the loop of each stream's thread    *)
(* (`__thread` in src/src/stream/inner.rs) and the handling of a datagram  *)
(* by the listener thread (`__recv` in src/src/listener/inner.rs).         *)
(*                                                                         *)
(* Segments of the direction are counted from its handshake: segment 0 is  *)
(* the one whose number the handshake used (ESTABLISH from the client,     *)
(* ACCEPT from the server) and segment i is the i-th the application       *)
(* pushed.  The counts are history: no step of the code reads them.        *)
(***************************************************************************)
EXTENDS SendStorage, RecvStorage

CONSTANTS
  StartNumbers,  (* The handshake numbers rand::thread_rng() may draw.     *)
  Stream,        (* The DATA segments the application writes, in order.    *)
                 (* Its length bounds the pushes of a behaviour.           *)
  Lifetime,      (* A datagram is gone once this many further segments     *)
                 (* have been sent for the first time.                     *)
  MaxInFlight,   (* Bound on the sequential segments in flight.            *)
  MaxAcks,       (* Bound on the acknowledgements in flight.               *)
  MaxUnsent,     (* Bound on queue_unsent, for the application to write.   *)
  MaxUnread,     (* Bound on pop_queue, for the network to deliver.        *)
  Resetters      (* The sides whose application may break the connection:  *)
                 (* by reset(), or by a finish_write beside a waiting one. *)

Sides == {"snd", "rcv"}
Peer(side) == IF side = "snd" THEN "rcv" ELSE "snd"

ASSUME SlidingWindowAssumption ==
  /\ StartNumbers \subseteq SeqNum
  /\ Stream \in Seq(Data)
  /\ Lifetime \in Nat
  /\ Lifetime + WINDOW_SIZE <= Modulus
  /\ \A bound \in {MaxInFlight, MaxAcks, MaxUnsent, MaxUnread} : bound \in Nat
  /\ Resetters \subseteq Sides

VARIABLES
  start,        (* the handshake's sequence number                         *)
  snd,          (* send_storage of the writing stream                      *)
  finishing,    (* a finish_write call waits for an empty send_storage     *)
  sendFinished, (* the sides that have finished writing: a stream's thread *)
                (* ends with its own finish_write                          *)
  rcv,          (* recv_storage of the reading stream                      *)
  errored,      (* the sides whose conn_state is an error                  *)
  data,         (* sequential segments in flight                           *)
  acks,         (* ACKNOWLEDGE segments in flight                          *)
  resets,       (* the sides a RESET is in flight to                       *)
  log,          (* history: the segments pushed, in order                  *)
  sent,         (* history: how many of them have been sent                *)
  consumed      (* history: the segments read() has popped                 *)

sndVars == << snd, finishing, sendFinished, log, sent >>
rcvVars == << rcv, consumed >>
netVars == << data, acks, resets >>
vars == << start, sndVars, rcvVars, errored, netVars >>

\* Everything the reading stream has put in order so far.
Received == consumed \o rcv.pop_queue

SeqOf(i) == Wrap(start + i)
SegmentAt(i) == IF i = 0 THEN Accept ELSE log[i]

DataMessage == [idx : Nat, seq_num : SeqNum, variant : SequentialSegment]
AckMessage == [idx : Nat, seq_num : SeqNum]

Alive(m) == sent - m.idx < Lifetime

-----------------------------------------------------------------------------
(* The stream is built when the handshake completes: from the client's      *)
(* side, or from the server's, whose ACCEPT has been sent once.             *)

InitHandshake ==
  \/ /\ snd = SendNewByLocal(start)
     /\ rcv = RecvNewByPeer(start)
  \/ /\ snd = AfterPopSegment(SendNewByPeer(start), FALSE)
     /\ rcv = RecvNewByLocal(start)

Init ==
  /\ start \in StartNumbers
  /\ InitHandshake
  /\ finishing = FALSE
  /\ sendFinished = {}
  /\ errored = {}
  /\ data = {} /\ acks = {} /\ resets = {}
  /\ log = << >> /\ sent = 0 /\ consumed = << >>

-----------------------------------------------------------------------------
(* StreamInner::error.  The first error of a stream empties its storages,   *)
(* and tells the peer unless the peer told us.                              *)

ClearStorage(side) ==
  /\ snd' = IF side = "snd" THEN SendClear(snd) ELSE snd
  /\ rcv' = IF side = "rcv" THEN RecvClear(rcv) ELSE rcv

Error(side) ==
  /\ errored' = errored \cup {side}
  /\ ClearStorage(side)

SendReset(side) == resets' = resets \cup {side}

\* MdswpStream::reset
Reset(side) ==
  /\ side \in Resetters \ errored
  /\ Error(side)
  /\ SendReset(Peer(side))
  /\ UNCHANGED << start, finishing, sendFinished, log, sent, consumed,
                  data, acks >>

-----------------------------------------------------------------------------
(* The application that writes *)

RoomToPush == Len(log) < Len(Stream) /\ Len(snd.queue_unsent) < MaxUnsent

\* write and flush hand the send_storage one DATA segment at a time.  They have
\* looked at the stream's state before the first one and do not look again: a
\* segment pushed after an error stays in the storage the error has cleared.
Write ==
  /\ RoomToPush
  /\ ~ PushRejects(snd)
  /\ LET segment == DataSegment(Stream[Len(log) + 1]) IN
     /\ snd' = AfterPush(snd, segment)
     /\ log' = Append(log, segment)
  /\ UNCHANGED << start, finishing, sendFinished, sent, rcvVars, errored,
                  netVars >>

\* finish_write, from the return of its flush to its waiting loop: nothing
\* looks at the state between the two, and an error may have come since.
FinishPush ==
  /\ RoomToPush
  /\ ~ PushRejects(snd)
  /\ snd' = AfterPush(snd, Finish)
  /\ log' = Append(log, Finish)
  /\ finishing' = TRUE
  /\ UNCHANGED << start, sendFinished, sent, rcvVars, errored, netVars >>

\* finish_write whose push is refused resets the connection, unless an error
\* was first.
FinishPushRefused ==
  /\ "snd" \in Resetters \ errored
  /\ PushRejects(snd)
  /\ Error("snd")
  /\ SendReset("rcv")
  /\ UNCHANGED << start, finishing, sendFinished, log, sent, consumed,
                  data, acks >>

\* A faulty finish_write that waits for the last transmission only.
FinishReturnsBug ==
  /\ finishing
  /\ snd.queue_unsent = << >>
  /\ finishing' = FALSE
  /\ sendFinished' = sendFinished \cup {"snd"}
  /\ UNCHANGED << start, snd, log, sent, rcvVars, errored, netVars >>

\* The loop of finish_write sees an empty send_storage and returns Ok(()).
FinishReturns ==
  /\ finishing
  /\ IsEmpty(snd)
  /\ finishing' = FALSE
  /\ sendFinished' = sendFinished \cup {"snd"}
  /\ UNCHANGED << start, snd, log, sent, rcvVars, errored, netVars >>

-----------------------------------------------------------------------------
(* The thread of the writing stream: pop a segment, send it.                *)

MessageOf(entry) ==
  [ idx     |-> sent + 1 - Minus(snd.next_unsent, entry.seq_num),
    seq_num |-> entry.seq_num,
    variant |-> entry.variant ]

\* What the thread finds at the start of its turn.
SenderRuns == "snd" \notin errored /\ "snd" \notin sendFinished

Retransmit ==
  /\ SenderRuns
  /\ RetransmitIsDue(snd, TRUE)
  /\ LET m == MessageOf(PoppedSegment(snd, TRUE)) IN
     /\ m \in data \/ Cardinality(data) < MaxInFlight
     /\ data' = data \cup {m}
  /\ snd' = AfterPopSegment(snd, TRUE)
  /\ UNCHANGED << start, finishing, sendFinished, log, sent, rcvVars, errored,
                  acks, resets >>

Transmit ==
  /\ SenderRuns
  /\ CanPopUnsent(snd)
  /\ Cardinality(data) < MaxInFlight
  /\ LET entry == PoppedSegment(snd, FALSE) IN
     data' = data \cup {[ idx     |-> sent + 1,
                          seq_num |-> entry.seq_num,
                          variant |-> entry.variant ]}
  /\ snd' = AfterPopSegment(snd, FALSE)
  /\ sent' = sent + 1
  /\ UNCHANGED << start, finishing, sendFinished, log, rcvVars, errored,
                  acks, resets >>

-----------------------------------------------------------------------------
(* The thread of the reading stream: pop an acknowledgement, send it.       *)

AckTick(elapsed) ==
  /\ "rcv" \notin errored \cup sendFinished
  /\ AckIsDue(rcv, elapsed) \/ rcv.last_ack = None
  /\ rcv' = AfterPopAcknowledge(rcv, elapsed)
  /\ LET m == [idx |-> Len(Received), seq_num |-> CurrentAck(rcv)] IN
     IF AckIsDue(rcv, elapsed)
       THEN /\ m \in acks \/ Cardinality(acks) < MaxAcks
            /\ acks' = acks \cup {m}
       ELSE acks' = acks
  /\ UNCHANGED << start, sndVars, consumed, errored, data, resets >>

\* The reading stream has finished writing in its own direction, and its thread
\* ends.
ReaderQuits ==
  /\ "rcv" \notin errored \cup sendFinished
  /\ sendFinished' = sendFinished \cup {"rcv"}
  /\ UNCHANGED << start, snd, finishing, log, sent, rcvVars, errored, netVars >>

-----------------------------------------------------------------------------
(* A datagram arrives: ListenerInner::__recv and StreamInner::recv_segment. *)
(* The network may deliver it again.                                        *)

LeavesOrStays(net, m) == {net, net \ {m}}

RecvAck(m) ==
  /\ "snd" \notin errored /\ Alive(m)
  /\ acks' \in LeavesOrStays(acks, m)
  /\ \/ /\ ~ AckRejects(snd, m.seq_num)
        /\ snd' = AfterAcknowledge(snd, m.seq_num)
        /\ UNCHANGED << rcv, errored, resets >>
     \/ /\ AckRejects(snd, m.seq_num)
        /\ Error("snd")
        /\ SendReset("rcv")
  /\ UNCHANGED << start, finishing, sendFinished, log, sent, consumed, data >>

RecvSegment(m) ==
  /\ "rcv" \notin errored /\ Alive(m)
  /\ Len(rcv.pop_queue) <= MaxUnread
  /\ data' \in LeavesOrStays(data, m)
  /\ \/ /\ ~ RecvRejects(rcv, m.seq_num, m.variant)
        /\ rcv' = AfterRecv(rcv, m.seq_num, m.variant)
        /\ UNCHANGED << snd, errored, resets >>
     \/ /\ RecvRejects(rcv, m.seq_num, m.variant)
        /\ Error("rcv")
        /\ SendReset("snd")
  /\ UNCHANGED << start, finishing, sendFinished, log, sent, consumed, acks >>

RecvReset(side) ==
  /\ side \in resets \ errored
  /\ resets' \in LeavesOrStays(resets, side)
  /\ Error(side)
  /\ UNCHANGED << start, finishing, sendFinished, log, sent, consumed,
                  data, acks >>

\* An errored stream has left `connections`: whatever still arrives from the
\* peer, the listener answers with RESET.
RecvClosed(side) ==
  /\ side \in errored
  /\ \/ \E m \in (IF side = "snd" THEN acks ELSE data) : Alive(m)
     \/ side \in resets
  /\ resets' \in {resets \cup {Peer(side)}, (resets \ {side}) \cup {Peer(side)}}
  /\ UNCHANGED << start, sndVars, rcvVars, errored, data, acks >>

Lose ==
  /\ \/ /\ \E m \in data : data' = data \ {m}
        /\ UNCHANGED << acks, resets >>
     \/ /\ \E m \in acks : acks' = acks \ {m}
        /\ UNCHANGED << data, resets >>
     \/ /\ \E side \in resets : resets' = resets \ {side}
        /\ UNCHANGED << data, acks >>
  /\ UNCHANGED << start, sndVars, rcvVars, errored >>

-----------------------------------------------------------------------------
(* The application that reads.  read pops a segment when its buffer has     *)
(* been used up, and no more once FINISH has been popped.                   *)

ReadFinished == \E i \in DOMAIN consumed : consumed[i] = Finish

Read ==
  /\ "rcv" \notin errored
  /\ ~ ReadFinished
  /\ CanPop(rcv)
  /\ consumed' = Append(consumed, Head(rcv.pop_queue))
  /\ rcv' = AfterPop(rcv)
  /\ UNCHANGED << start, sndVars, errored, netVars >>

-----------------------------------------------------------------------------
Application ==
  \/ Write \/ FinishPush \/ FinishPushRefused \/ FinishReturns \/ Read
  \/ \E side \in Sides : Reset(side)

Threads ==
  \/ Retransmit \/ Transmit
  \/ \E elapsed \in BOOLEAN : AckTick(elapsed)
  \/ ReaderQuits

Network ==
  \/ \E m \in acks : RecvAck(m)
  \/ \E m \in data : RecvSegment(m)
  \/ \E side \in Sides : RecvReset(side) \/ RecvClosed(side)
  \/ Lose

Next == Application \/ Threads \/ Network

\* The streams of these behaviours send nothing after their error: no thread is
\* in the middle of a turn then and finds what a late push has left.
Spec == Init /\ [][Next]_vars

\* Each stream's thread keeps running until it ends, timeouts expire, a waiting
\* finish_write looks again, and a datagram sent over and over is not lost
\* every time, be it a segment or its acknowledgement.
Fairness ==
  /\ WF_vars(Transmit)
  /\ WF_vars(Retransmit)
  /\ WF_vars(FinishReturns)
  /\ WF_vars(AckTick(TRUE))
  /\ \A i \in 0 .. Len(Stream) :
       /\ SF_vars(\E m \in data : m.idx = i /\ RecvSegment(m))
       /\ SF_vars(\E m \in acks : m.idx = i /\ RecvAck(m))

FairSpec == Spec /\ Fairness

-----------------------------------------------------------------------------
TypeOK ==
  /\ start \in SeqNum
  /\ snd \in SendStorageType
  /\ finishing \in BOOLEAN /\ sendFinished \subseteq Sides
  /\ IsRecvStorage(rcv)
  /\ errored \subseteq Sides
  /\ data \subseteq DataMessage
  /\ acks \subseteq AckMessage
  /\ resets \subseteq Sides
  /\ log \in Seq(SequentialSegment)
  /\ sent \in Nat
  /\ consumed \in Seq(SequentialSegment)

-----------------------------------------------------------------------------
(* Properties *)

\* The reader gets exactly what the writer pushed, in that order, whatever
\* the network and the error paths do, as long as a stream in error sends
\* nothing more: RecvStorage::recv, its slide and the wrapped sequence numbers
\* never skip, repeat or mix up a segment.
InOrderDelivery ==
  /\ Len(Received) <= Len(log)
  /\ \A i \in 1 .. Len(Received) : Received[i] = log[i]

\* SendStorage::acknowledge only drops what the peer has: a segment that was
\* sent and is not in the reader's order yet is still in queue_sent, to be
\* sent again.
UnreceivedIsHeld ==
  "snd" \notin errored =>
    \A i \in Len(Received) + 1 .. sent :
      Holds(snd.queue_sent, [seq_num |-> SeqOf(i), variant |-> SegmentAt(i)])

\* No assertion or unwrap of the storages can fail: queue_sent never exceeds
\* the window, its newest segment is always found, and a slide only forgets
\* segments that are there.
NoPanic ==
  /\ "snd" \notin errored => ~ PopPanics(snd) /\ ~ PushPanics(snd)
  /\ "rcv" \notin errored =>
       \A m \in data : Alive(m) => ~ RecvPanics(rcv, m.seq_num, m.variant)

\* When finish_write returns on a stream that is not in error, FINISH and
\* everything before it has reached the peer's order.
FinishConfirmed ==
  [][FinishReturns /\ "snd" \notin errored =>
       Len(Received) = Len(log)]_vars

\* A connection is first broken by an application, never by the protocol: two
\* streams that follow it do not take each other's segments for errors,
\* whatever the network repeats or reorders.
NoSpuriousReset ==
  [][errored = {} /\ errored' # {} =>
       FinishPushRefused \/ \E side \in Sides : Reset(side)]_vars

\* The window is never full, and nothing arrives a window of segments late: an
\* acknowledgement is of one of the last WINDOW_SIZE - 1 segments sent, a
\* segment one of the last WINDOW_SIZE.
Prompt ==
  /\ Len(snd.queue_sent) < WINDOW_SIZE
  /\ \A m \in data : Alive(m) => sent - m.idx < WINDOW_SIZE
  /\ \A m \in acks : Alive(m) => sent - m.idx < WINDOW_SIZE - 1

\* What the writer is promised: the segments up to the first FINISH.
Promised == {i \in 1 .. Len(log) : \A j \in 1 .. i - 1 : log[j] # Finish}

\* The connection is broken, or the reader's thread has ended and nobody
\* acknowledges any more.
Over == errored # {} \/ "rcv" \in sendFinished

\* Everything promised reaches the reader's order in the end unless an
\* application breaks the connection or the reader's thread ends, although
\* every datagram may be lost any finite number of times: both threads' timers
\* send again what was lost.
EventuallyReceived ==
  \A i \in 1 .. Len(Stream) :
    i \in Promised ~> Len(Received) >= i \/ Over

\* The first finish_write of a connection comes back, as long as the connection
\* holds and the peer does not finish meanwhile: the acknowledgement of FINISH
\* is sent again and again until it gets through, and old ones do no harm.
FirstFinishReturns == finishing ~> "snd" \in sendFinished \/ Over

\* One direction of a connection is a first-in first-out channel from the
\* log of push to the reader's order.
Channel == INSTANCE FifoChannel WITH
  Message <- SequentialSegment, accepted <- log, received <- Received
ImplementsFifo == Channel!Spec
=============================================================================
