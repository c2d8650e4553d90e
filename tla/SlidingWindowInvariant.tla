----------------------- MODULE SlidingWindowInvariant -----------------------
(***************************************************************************)
(* The inductive invariant of SlidingWindow.  It says what every wrapped   *)
(* number in the storages and in the network stands for, as a count of     *)
(* segments that does not wrap.                                            *)
(***************************************************************************)
EXTENDS SlidingWindow

EntryAt(i) == [seq_num |-> SeqOf(i), variant |-> SegmentAt(i)]

\* The segments queue_sent can hold: the last WINDOW_SIZE sent.
Recent == {i \in 0 .. sent : i > sent - WINDOW_SIZE}

\* queue_unsent is what has been pushed and not sent.
UnsentInv ==
  /\ snd.next_unsent = SeqOf(sent + 1)
  /\ Len(log) = sent + Len(snd.queue_unsent)
  /\ \A j \in DOMAIN snd.queue_unsent : snd.queue_unsent[j] = log[sent + j]

\* queue_sent holds recent segments only, with each one every later one,
\* and all that the reader lacks.
SentInv ==
  /\ Len(snd.queue_sent) <= WINDOW_SIZE
  /\ \A j \in DOMAIN snd.queue_sent :
       \E i \in Recent : snd.queue_sent[j] = EntryAt(i)
  /\ \A i, later \in Recent :
       i <= later /\ Holds(snd.queue_sent, EntryAt(i))
         => Holds(snd.queue_sent, EntryAt(later))
  /\ \A i \in Len(Received) + 1 .. sent : Holds(snd.queue_sent, EntryAt(i))

\* The numbers from lower_bound up to the window, and the count of the
\* segment lower_bound stands for.
Span == Minus(rcv.window, rcv.lower_bound)
Lowest == Len(Received) + 1 - Span

SentSegments == [i \in 0 .. sent |-> SegmentAt(i)]

\* The reader's storage represents the segments sent, from lower_bound on.
ReceiverInv ==
  Represents(rcv, start, Len(Received) + 1, Lowest, SentSegments)

\* A datagram says what its count stands for.
NetworkInv ==
  /\ \A m \in data :
       m.idx <= sent /\ m.seq_num = SeqOf(m.idx) /\ m.variant = SegmentAt(m.idx)
  /\ \A m \in acks : m.idx <= Len(Received) /\ m.seq_num = SeqOf(m.idx)

\* The reader is never ahead of the writer, nor more than a window behind.
CountInv ==
  /\ Len(Received) <= sent
  /\ sent <= Len(log)
  /\ sent <= Len(Received) + WINDOW_SIZE

IInv ==
  /\ TypeOK
  /\ CountInv
  /\ InOrderDelivery
  /\ NetworkInv
  /\ "snd" \notin errored => UnsentInv /\ SentInv
  /\ "rcv" \notin errored => ReceiverInv
=============================================================================
