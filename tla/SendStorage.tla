----------------------------- MODULE SendStorage ----------------------------
(***************************************************************************)
(* The sending half of a stream, src/src/stream/send.rs.                   *)
(*                                                                         *)
(* A SendStorage is a record with the fields of the struct; each method    *)
(* is a guard on the record, for the outcome it returns, and an operator   *)
(* returning the record it leaves.  Every method runs under the stream's   *)
(* send_storage lock, so each is one step of the modules that use it.  The *)
(* `Instant` of a sent segment is dropped: queue_sent is ordered by it,    *)
(* oldest first, and whether its front is due is a parameter.              *)
(***************************************************************************)
EXTENDS SequenceNumber, Segment, Sequences, FiniteSets

SentSegment == [seq_num : SeqNum, variant : SequentialSegment]

SendStorageType ==
  [ queue_sent   : Seq(SentSegment),          (* unacknowledged, by age   *)
    queue_unsent : Seq(SequentialSegment),
    next_unsent  : SeqNum ]

\* `new_by_peer`: ACCEPT is the first segment to send.
SendNewByPeer(accept_seq_num) ==
  [ queue_sent   |-> << >>,
    queue_unsent |-> << Accept >>,
    next_unsent  |-> accept_seq_num ]

\* `new_by_local`: our ESTABLISH has used up its sequence number.
SendNewByLocal(establish_seq_num) ==
  [ queue_sent   |-> << >>,
    queue_unsent |-> << >>,
    next_unsent  |-> Plus(establish_seq_num, 1) ]

SendClear(s) == [s EXCEPT !.queue_sent = << >>, !.queue_unsent = << >>]

IsEmpty(s) == s.queue_sent = << >> /\ s.queue_unsent = << >>

-----------------------------------------------------------------------------
(* push *)

\* `__finished_unchecked` looks the newest sent segment up by its number and
\* unwraps the result.
NewestSent(s) ==
  {i \in DOMAIN s.queue_sent :
     s.queue_sent[i].seq_num = Minus(s.next_unsent, 1)}

FinishedUnchecked(s) ==
  /\ ~ IsEmpty(s)
  /\ IF s.queue_unsent # << >>
       THEN s.queue_unsent[Len(s.queue_unsent)] = Finish
       ELSE \E i \in NewestSent(s) : s.queue_sent[i].variant = Finish

\* The unwrap fails: push panics.
PushPanics(s) ==
  s.queue_unsent = << >> /\ s.queue_sent # << >> /\ NewestSent(s) = {}

\* push of DATA or FINISH returns an error, and the storage is as before.
PushRejects(s) == FinishedUnchecked(s)
AfterPush(s, segment) == [s EXCEPT !.queue_unsent = Append(@, segment)]

-----------------------------------------------------------------------------
(* pop *)

\* `__try_pop_sent`: the front of queue_sent is due for another transmission.
RetransmitIsDue(s, elapsed) == s.queue_sent # << >> /\ elapsed

\* `assert!` in `__try_pop_unsent`.
PopPanics(s) == Len(s.queue_sent) > WINDOW_SIZE

\* A faulty `__try_pop_unsent` that does not look at the window.
CanPopUnsentBug(s) == s.queue_unsent # << >>

\* `__try_pop_unsent` returns a segment.
CanPopUnsent(s) ==
  Len(s.queue_sent) # WINDOW_SIZE /\ s.queue_unsent # << >>

CanPopSegment(s, elapsed) == RetransmitIsDue(s, elapsed) \/ CanPopUnsent(s)

PoppedSegment(s, elapsed) ==
  IF RetransmitIsDue(s, elapsed)
    THEN Head(s.queue_sent)
    ELSE [seq_num |-> s.next_unsent, variant |-> Head(s.queue_unsent)]

\* A faulty `__try_pop_sent` that does not queue the segment again.
AfterPopSegmentBug(s, elapsed) ==
  IF RetransmitIsDue(s, elapsed)
    THEN [s EXCEPT !.queue_sent = Tail(@)]
    ELSE [ queue_sent   |-> Append(s.queue_sent, PoppedSegment(s, elapsed)),
           queue_unsent |-> Tail(s.queue_unsent),
           next_unsent  |-> Plus(s.next_unsent, 1) ]

AfterPopSegment(s, elapsed) ==
  IF RetransmitIsDue(s, elapsed)
    THEN [s EXCEPT !.queue_sent = Append(Tail(@), Head(@))]
    ELSE [ queue_sent   |-> Append(s.queue_sent, PoppedSegment(s, elapsed)),
           queue_unsent |-> Tail(s.queue_unsent),
           next_unsent  |-> Plus(s.next_unsent, 1) ]

-----------------------------------------------------------------------------
(* acknowledge *)

\* The elements of queue q at the positions K, in the order of q.
Retain(q, K) ==
  [j \in 1 .. Cardinality(K) |->
     q[CHOOSE i \in K : Cardinality({k \in K : k <= i}) = j]]

\* acknowledge returns an error, and the storage is as before.
AckRejects(s, ack_num) == Minus(s.next_unsent, ack_num) >= WINDOW_SIZE

\* A faulty acknowledge that takes ack_num for the next segment expected.
UnacknowledgedBug(s, ack_num) ==
  {i \in DOMAIN s.queue_sent :
     Minus(ack_num + 1, s.queue_sent[i].seq_num) >= WINDOW_SIZE}

\* A faulty acknowledge that leaves the segment ack_num itself.
UnacknowledgedNewestBug(s, ack_num) ==
  {i \in DOMAIN s.queue_sent :
     Minus(ack_num - 1, s.queue_sent[i].seq_num) >= WINDOW_SIZE}

\* The positions of queue_sent an acknowledgement of ack_num leaves there.
Unacknowledged(s, ack_num) ==
  {i \in DOMAIN s.queue_sent :
     Minus(ack_num, s.queue_sent[i].seq_num) >= WINDOW_SIZE}

AfterAcknowledge(s, ack_num) ==
  [s EXCEPT !.queue_sent = Retain(@, Unacknowledged(s, ack_num))]

-----------------------------------------------------------------------------
\* For the properties: an entry is somewhere in a queue.
Holds(queue, entry) == \E j \in DOMAIN queue : queue[j] = entry
=============================================================================
