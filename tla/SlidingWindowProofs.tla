------------------------- MODULE SlidingWindowProofs ------------------------
(***************************************************************************)
(* IInv is an inductive invariant of SlidingWindow, for every modulus,     *)
(* window size, stream and bound the assumptions allow.                    *)
(***************************************************************************)
EXTENDS SlidingWindowInvariant, StorageProofs, SequenceTheorems

LEMMA OrderType ==
  ASSUME NEW r, IsRecvStorage(r), NEW c \in Seq(SequentialSegment)
  PROVE  /\ r.pop_queue \in Seq(SequentialSegment)
         /\ c \o r.pop_queue \in Seq(SequentialSegment)
         /\ Len(c \o r.pop_queue) \in Nat
<1>1. r.pop_queue \in Seq(SequentialSegment)
  BY DEF IsRecvStorage
<1>2. c \o r.pop_queue \in Seq(SequentialSegment)
  BY <1>1
<1>3. QED
  BY <1>1, <1>2

LEMMA ReceivedType ==
  ASSUME TypeOK
  PROVE  Received \in Seq(SequentialSegment) /\ Len(Received) \in Nat
BY OrderType DEF TypeOK, Received

LEMMA NextReceivedType ==
  ASSUME TypeOK'
  PROVE  Received' \in Seq(SequentialSegment) /\ Len(Received') \in Nat
BY OrderType DEF TypeOK, Received

-----------------------------------------------------------------------------
(* What a step keeps when it leaves one of the storages alone.              *)

\* The writer's part only depends on how far the reader is, which is never
\* taken back.
LEMMA SenderKept ==
  ASSUME TypeOK, TypeOK', UnsentInv, SentInv,
         UNCHANGED << start, snd, log, sent >>,
         Len(Received') >= Len(Received)
  PROVE  UnsentInv' /\ SentInv'
<1>1. Len(Received) \in Nat /\ Len(Received') \in Nat
  BY ReceivedType, NextReceivedType
<1>2. UnsentInv'
  BY DEF UnsentInv, SeqOf
<1>3. Recent' = Recent
  BY DEF Recent
<1>4. \A i : EntryAt(i)' = EntryAt(i)
  BY DEF EntryAt, SeqOf, SegmentAt
<1>5. SentInv'
  <2>1. \A i \in Len(Received') + 1 .. sent : i \in Len(Received) + 1 .. sent
    BY <1>1
  <2> HIDE DEF Received, Recent, EntryAt
  <2>2. QED
    BY <1>3, <1>4, <2>1 DEF SentInv
<1>6. QED
  BY <1>2, <1>5

\* The reader's part stays when the storage and the order do and the writer
\* has at most sent more.
LEMMA ReceiverKept ==
  ASSUME TypeOK, CountInv, ReceiverInv,
         rcv'.window = rcv.window, rcv'.lower_bound = rcv.lower_bound,
         rcv'.segments = rcv.segments, Received' = Received,
         start' = start, sent' \in Nat, sent' >= sent,
         \A i \in 0 .. sent : SegmentAt(i)' = SegmentAt(i)
  PROVE  ReceiverInv'
<1>1. Lowest' = Lowest
  BY DEF Lowest, Span
<1> DEFINE f == SentSegments
           g == SentSegments'
           w == Len(Received) + 1
           l == Lowest
<1>2. Represents(rcv, start, w, l, f)
  BY DEF ReceiverInv
<1>3. DOMAIN f \subseteq DOMAIN g /\ \A i \in DOMAIN f : g[i] = f[i]
  BY DEF SentSegments, TypeOK
<1> HIDE DEF f, g, w, l
<1>4. Represents(rcv', start, w, l, g)
  BY <1>2, <1>3 DEF Represents, Present
<1>5. QED
  BY <1>1, <1>4 DEF ReceiverInv, g, w, l
\* The network's part, when nothing new is in flight.
LEMMA NetworkKept ==
  ASSUME TypeOK, TypeOK', CountInv, NetworkInv,
         start' = start, log' = log, sent' >= sent,
         Len(Received') >= Len(Received),
         data' \subseteq data, acks' \subseteq acks
  PROVE  NetworkInv'
<1>1. /\ Len(Received) \in Nat /\ Len(Received') \in Nat
      /\ sent \in Nat /\ sent' \in Nat
  BY ReceivedType, NextReceivedType DEF TypeOK
<1>2. \A i : SeqOf(i)' = SeqOf(i) /\ SegmentAt(i)' = SegmentAt(i)
  BY DEF SeqOf, SegmentAt
<1>3. \A m \in data : m.idx \in Nat
  BY DEF TypeOK, DataMessage
<1>4. \A m \in acks : m.idx \in Nat
  BY DEF TypeOK, AckMessage
<1> HIDE DEF Received, SeqOf, SegmentAt
<1>5. QED
  BY <1>1, <1>2, <1>3, <1>4 DEF NetworkInv

-----------------------------------------------------------------------------
(* The kinds of step.                                                       *)

\* The first error of a side: its storages are emptied, the reader's order
\* is not touched, and what the other side knows stays.
LEMMA ErrorStep ==
  ASSUME IInv, NEW side \in Sides, Error(side),
         UNCHANGED << start, finishing, sendFinished, log, sent, consumed >>,
         data' \subseteq data, acks' \subseteq acks, resets' \subseteq Sides
  PROVE  IInv'
<1> USE DEF Error, ClearStorage
<1>1. TypeOK /\ CountInv /\ InOrderDelivery /\ NetworkInv
  BY DEF IInv
<1>2. snd' \in SendStorageType /\ IsRecvStorage(rcv')
      /\ rcv'.pop_queue = rcv.pop_queue
  BY <1>1, ClearedSendType, ClearedRecvType DEF TypeOK
<1>3. TypeOK'
  BY <1>1, <1>2 DEF TypeOK
<1>4. Received' = Received
  BY <1>2 DEF Received
<1>5. Len(Received') >= Len(Received) /\ sent' >= sent
  BY <1>1, <1>4, ReceivedType DEF TypeOK
<1>6. CountInv' /\ InOrderDelivery'
  BY <1>1, <1>4 DEF CountInv, InOrderDelivery
<1>7. NetworkInv'
  BY <1>1, <1>3, <1>5, NetworkKept
<1>8. "snd" \notin errored' => UnsentInv' /\ SentInv'
  <2>1. SUFFICES ASSUME "snd" \notin errored' PROVE UnsentInv' /\ SentInv'
    OBVIOUS
  <2>2. UnsentInv /\ SentInv /\ snd' = snd
    BY <2>1 DEF IInv
  <2>3. QED
    BY <1>1, <1>3, <1>5, <2>2, SenderKept
<1>9. "rcv" \notin errored' => ReceiverInv'
  <2>1. SUFFICES ASSUME "rcv" \notin errored' PROVE ReceiverInv'
    OBVIOUS
  <2>2. ReceiverInv /\ rcv' = rcv
    BY <2>1 DEF IInv
  <2>3. \A i \in 0 .. sent : SegmentAt(i)' = SegmentAt(i)
    BY DEF SegmentAt
  <2>4. sent' \in Nat
    BY <1>3 DEF TypeOK
  <2>5. QED
    BY <1>1, <1>4, <1>5, <2>2, <2>3, <2>4, ReceiverKept
<1>10. QED
  BY <1>3, <1>6, <1>7, <1>8, <1>9 DEF IInv

\* A step of the writer that leaves the reader, the log's sent part and the
\* network's knowledge as they are.
LEMMA SenderStep ==
  ASSUME IInv, snd' \in SendStorageType,
         finishing' \in BOOLEAN, sendFinished' \subseteq Sides,
         log' \in Seq(SequentialSegment), Len(log') >= Len(log),
         \A i \in 1 .. Len(log) : log'[i] = log[i],
         sent' \in Nat, sent' >= sent, sent' <= Len(log'),
         sent' <= Len(Received) + WINDOW_SIZE,
         UNCHANGED << start, rcv, consumed, errored, resets >>,
         acks' \subseteq acks,
         "snd" \notin errored => UnsentInv' /\ SentInv',
         \A m \in data' : \/ m \in data
                          \/ /\ m \in DataMessage /\ m.idx <= sent'
                             /\ m.seq_num = SeqOf(m.idx)
                             /\ m.variant = SegmentAt(m.idx)'
  PROVE  IInv'
<1>1. TypeOK /\ CountInv /\ InOrderDelivery /\ NetworkInv
  BY DEF IInv
<1>2. TypeOK'
  BY <1>1 DEF TypeOK
<1>3. Received' = Received
  BY DEF Received
<1>4. /\ Len(Received) \in Nat /\ Len(log) \in Nat /\ Len(log') \in Nat
      /\ sent \in Nat
  BY <1>1, ReceivedType DEF TypeOK
<1>5. CountInv'
  BY <1>1, <1>3, <1>4 DEF CountInv
<1>6. \A i \in 0 .. sent : SegmentAt(i)' = SegmentAt(i)
  BY <1>1, <1>4 DEF SegmentAt, CountInv
<1> HIDE DEF Received
<1>7. InOrderDelivery'
  <2>1. Len(Received) <= Len(log')
    BY <1>1, <1>4 DEF InOrderDelivery
  <2>2. \A i \in 1 .. Len(Received) : i \in 1 .. Len(log)
    BY <1>1, <1>4 DEF InOrderDelivery
  <2>3. QED
    BY <1>1, <1>3, <2>1, <2>2 DEF InOrderDelivery
<1>8. NetworkInv'
  <2>1. ASSUME NEW m \in data'
        PROVE  m.idx <= sent' /\ m.seq_num = SeqOf(m.idx)'
               /\ m.variant = SegmentAt(m.idx)'
    <3>1. CASE m \in data
      <4>1. /\ m.idx \in 0 .. sent /\ m.seq_num = SeqOf(m.idx)
            /\ m.variant = SegmentAt(m.idx)
        BY <1>1, <3>1 DEF NetworkInv, TypeOK, DataMessage
      <4>2. QED
        BY <1>4, <1>6, <4>1 DEF SeqOf
    <3>2. CASE m \notin data
      BY <3>2 DEF SeqOf
    <3>3. QED
      BY <3>1, <3>2
  <2>2. \A m \in acks' : m.idx <= Len(Received') /\ m.seq_num = SeqOf(m.idx)'
    BY <1>1, <1>3 DEF NetworkInv, SeqOf
  <2>3. QED
    BY <2>1, <2>2 DEF NetworkInv
<1>9. "rcv" \notin errored' => ReceiverInv'
  <2>1. SUFFICES ASSUME "rcv" \notin errored' PROVE ReceiverInv'
    OBVIOUS
  <2>2. ReceiverInv
    BY <2>1 DEF IInv
  <2>3. QED
    BY <1>1, <1>3, <1>6, <2>2, ReceiverKept
<1>10. QED
  BY <1>2, <1>5, <1>7, <1>8, <1>9 DEF IInv
\* What a push or a retransmission does to queue_sent: nothing, but for its
\* order.
LEMMA SameEntries ==
  ASSUME TypeOK, TypeOK', SentInv, UNCHANGED << start, sent, rcv, consumed >>,
         \A i \in 0 .. sent : SegmentAt(i)' = SegmentAt(i),
         Len(snd'.queue_sent) = Len(snd.queue_sent),
         \A x : Holds(snd'.queue_sent, x) <=> Holds(snd.queue_sent, x)
  PROVE  SentInv'
<1>1. Received' = Received /\ Recent' = Recent
  BY DEF Received, Recent
<1>2. \A i \in 0 .. sent : EntryAt(i)' = EntryAt(i)
  BY DEF EntryAt, SeqOf
<1>3. /\ Recent \subseteq 0 .. sent
      /\ Len(Received) + 1 .. sent \subseteq 0 .. sent
  BY ReceivedType DEF Recent
<1>4. \A x : Holds(snd.queue_sent, x) => \E i \in Recent : x = EntryAt(i)
  BY DEF SentInv, Holds
<1> HIDE DEF Received
<1>5. \A j \in DOMAIN snd'.queue_sent :
        \E i \in Recent' : snd'.queue_sent[j] = EntryAt(i)'
  <2>1. SUFFICES ASSUME NEW j \in DOMAIN snd'.queue_sent
                 PROVE  \E i \in Recent : snd'.queue_sent[j] = EntryAt(i)
    BY <1>1, <1>2, <1>3
  <2>2. Holds(snd'.queue_sent, snd'.queue_sent[j])
    BY DEF Holds
  <2>3. QED
    BY <1>4, <2>2
<1>6. \A i \in 0 .. sent :
        Holds(snd.queue_sent, EntryAt(i)) <=> Holds(snd'.queue_sent, EntryAt(i)')
  BY <1>2
<1>7. \A i, later \in Recent' :
        i <= later /\ Holds(snd'.queue_sent, EntryAt(i)')
          => Holds(snd'.queue_sent, EntryAt(later)')
  BY <1>1, <1>3, <1>6 DEF SentInv
<1>8. \A i \in Len(Received') + 1 .. sent' : Holds(snd'.queue_sent, EntryAt(i)')
  BY <1>1, <1>3, <1>6 DEF SentInv
<1>9. Len(snd'.queue_sent) <= WINDOW_SIZE
  BY DEF SentInv
<1>10. QED
  BY <1>5, <1>7, <1>8, <1>9 DEF SentInv

LEMMA PushStep ==
  ASSUME IInv, NEW segment \in SequentialSegment,
         snd' = AfterPush(snd, segment), log' = Append(log, segment),
         finishing' \in BOOLEAN,
         UNCHANGED << start, sendFinished, sent, rcvVars, errored, netVars >>
  PROVE  IInv'
<1> USE DEF rcvVars, netVars
<1>1. /\ TypeOK /\ CountInv
      /\ "snd" \notin errored => UnsentInv /\ SentInv
  BY DEF IInv
<1>2. /\ snd' \in SendStorageType
      /\ snd'.queue_sent = snd.queue_sent /\ snd'.next_unsent = snd.next_unsent
      /\ snd'.queue_unsent = Append(snd.queue_unsent, segment)
  BY <1>1, PushFields DEF TypeOK
<1>3. /\ log \in Seq(SequentialSegment)
      /\ snd.queue_unsent \in Seq(SequentialSegment) /\ sent \in Nat
  BY <1>1 DEF TypeOK, SendStorageType
<1>4. /\ log' \in Seq(SequentialSegment) /\ Len(log') = Len(log) + 1
      /\ \A i \in 1 .. Len(log) : log'[i] = log[i]
      /\ log'[Len(log) + 1] = segment
  BY <1>3
<1>5. ASSUME "snd" \notin errored PROVE UnsentInv'
  <2> UnsentInv
    BY <1>1, <1>5
  <2>1. snd'.next_unsent = SeqOf(sent + 1)'
    BY <1>1, <1>2 DEF UnsentInv, SeqOf
  <2>2. Len(log') = sent' + Len(snd'.queue_unsent)
    BY <1>1, <1>2, <1>3, <1>4 DEF UnsentInv
  <2>3. ASSUME NEW j \in DOMAIN snd'.queue_unsent
        PROVE  snd'.queue_unsent[j] = log'[sent' + j]
    <3>1. CASE j \in DOMAIN snd.queue_unsent
      <4>1. snd'.queue_unsent[j] = snd.queue_unsent[j]
        BY <1>2, <1>3, <3>1
      <4>2. snd.queue_unsent[j] = log[sent + j] /\ sent + j \in 1 .. Len(log)
        BY <1>1, <1>3, <3>1 DEF UnsentInv
      <4>3. QED
        BY <1>4, <4>1, <4>2
    <3>2. CASE j \notin DOMAIN snd.queue_unsent
      <4>1. j = Len(snd.queue_unsent) + 1
        BY <1>2, <1>3, <3>2
      <4>2. snd'.queue_unsent[j] = segment
        BY <1>2, <1>3, <4>1
      <4>3. sent + j = Len(log) + 1
        BY <1>1, <1>3, <4>1 DEF UnsentInv
      <4>4. QED
        BY <1>4, <4>2, <4>3
    <3>3. QED
      BY <3>1, <3>2
  <2>4. QED
    BY <2>1, <2>2, <2>3 DEF UnsentInv
<1>6. \A i \in 0 .. sent : SegmentAt(i)' = SegmentAt(i)
  BY <1>1, <1>3, <1>4 DEF SegmentAt, CountInv
<1>7. TypeOK'
  BY <1>1, <1>2, <1>4 DEF TypeOK
<1>8. "snd" \notin errored => SentInv'
  BY <1>1, <1>2, <1>6, <1>7, SameEntries
<1>9. sent' <= Len(log') /\ Len(log') >= Len(log)
  BY <1>1, <1>3, <1>4 DEF CountInv
<1>10. sent' \in Nat /\ sent' >= sent /\ sent' <= Len(Received) + WINDOW_SIZE
  BY <1>1, <1>3 DEF CountInv
<1>11. sendFinished' \subseteq Sides
  BY <1>7 DEF TypeOK
<1>12. QED
  BY <1>2, <1>4, <1>5, <1>8, <1>9, <1>10, <1>11, SenderStep

\* A step that leaves all but the network and the application's waiting
\* alone, and adds no segment and no acknowledgement to the network.
LEMMA QuietStep ==
  ASSUME IInv, UNCHANGED << start, snd, rcv, errored, log, sent, consumed >>,
         finishing' \in BOOLEAN, sendFinished' \subseteq Sides,
         data' \subseteq data, acks' \subseteq acks, resets' \subseteq Sides
  PROVE  IInv'
<1>1. TypeOK /\ CountInv /\ InOrderDelivery /\ NetworkInv
  BY DEF IInv
<1>2. TypeOK'
  BY <1>1 DEF TypeOK
<1>3. Received' = Received
  BY DEF Received
<1>4. /\ Len(Received') >= Len(Received) /\ sent' >= sent /\ sent' \in Nat
      /\ \A i \in 0 .. sent : SegmentAt(i)' = SegmentAt(i)
  BY <1>1, <1>3, ReceivedType DEF TypeOK, SegmentAt
<1>5. CountInv' /\ InOrderDelivery'
  BY <1>1, <1>3 DEF CountInv, InOrderDelivery
<1>6. NetworkInv'
  BY <1>1, <1>2, <1>4, NetworkKept
<1>7. "snd" \notin errored' => UnsentInv' /\ SentInv'
  BY <1>1, <1>2, <1>4, SenderKept DEF IInv
<1>8. "rcv" \notin errored' => ReceiverInv'
  BY <1>1, <1>3, <1>4, ReceiverKept DEF IInv
<1>9. QED
  BY <1>2, <1>5, <1>6, <1>7, <1>8 DEF IInv
-----------------------------------------------------------------------------
(* The writing stream's thread.                                             *)

\* Recent segments have numbers of their own, and the distance from the next
\* number to send tells which one an entry is.
LEMMA RecentNumbers ==
  ASSUME TypeOK, NEW i \in Int, i <= sent, sent - i < Modulus - 1
  PROVE  Minus(SeqOf(sent + 1), SeqOf(i)) = sent + 1 - i
<1>1. start \in Int /\ sent \in Int /\ Modulus \in Nat
  BY SequenceNumberAssumption DEF TypeOK, SeqNum
<1> DEFINE x == sent + 1
           d == x - i
<1>2. x \in Int /\ d \in 0 .. Modulus - 1
  BY <1>1
<1> HIDE DEF x
<1>3. Minus(Wrap(start + x), Wrap(start + i)) = Wrap(d)
  BY <1>1, <1>2, CountedNumbers
<1> HIDE DEF d
<1>4. Wrap(d) = d
  BY <1>2, WrapSmall
<1>5. QED
  <2>1. Minus(SeqOf(x), SeqOf(i)) = d
    BY <1>3, <1>4 DEF SeqOf
  <2>2. QED
    BY <1>1, <2>1 DEF d, x

\* The datagram of an entry has the count the entry stands for.
LEMMA MessageCount ==
  ASSUME TypeOK, UnsentInv, SentInv, NEW entry, Holds(snd.queue_sent, entry)
  PROVE  \E i \in Recent :
           /\ entry = EntryAt(i) /\ MessageOf(entry).idx = i
           /\ i \in Nat /\ i <= sent /\ i > sent - WINDOW_SIZE
<1>1. PICK i \in Recent : entry = EntryAt(i)
  BY DEF SentInv, Holds
<1>2. i \in Nat /\ i <= sent /\ i > sent - WINDOW_SIZE /\ sent \in Nat
  BY DEF Recent, TypeOK
<1>3. entry.seq_num = SeqOf(i)
  BY <1>1 DEF EntryAt
<1>4. Minus(snd.next_unsent, entry.seq_num) = sent + 1 - i
  <2>1. i \in Int /\ sent - i < Modulus - 1
    BY <1>2, SequenceNumberAssumption
  <2>2. QED
    BY <1>2, <1>3, <2>1, RecentNumbers DEF UnsentInv
<1>5. sent + 1 - (sent + 1 - i) = i
  BY <1>2
<1>6. MessageOf(entry).idx = i
  BY <1>4, <1>5 DEF MessageOf
<1>7. QED
  BY <1>1, <1>2, <1>6

LEMMA RetransmitStep ==
  ASSUME IInv, Retransmit
  PROVE  IInv'
<1> USE DEF rcvVars
<1>1. TypeOK /\ CountInv /\ UnsentInv /\ SentInv
  BY DEF IInv, Retransmit, SenderRuns
<1> DEFINE entry == PoppedSegment(snd, TRUE)
           m == MessageOf(entry)
<1>2. /\ "snd" \notin errored /\ snd.queue_sent # << >>
      /\ data' = data \cup {m} /\ snd' = AfterPopSegment(snd, TRUE)
      /\ UNCHANGED << start, finishing, sendFinished, log, sent, rcv, consumed,
                      errored, acks, resets >>
  BY DEF Retransmit, SenderRuns, RetransmitIsDue
<1>3. /\ snd' \in SendStorageType
      /\ snd'.queue_unsent = snd.queue_unsent
      /\ snd'.next_unsent = snd.next_unsent
      /\ entry \in SentSegment /\ Holds(snd.queue_sent, entry)
      /\ Len(snd'.queue_sent) = Len(snd.queue_sent)
      /\ \A x : Holds(snd'.queue_sent, x) <=> Holds(snd.queue_sent, x)
  BY <1>1, <1>2, RotateFields DEF TypeOK
<1> HIDE DEF entry
<1>4. PICK i \in Recent :
         /\ entry = EntryAt(i) /\ m.idx = i
         /\ i \in Nat /\ i <= sent /\ i > sent - WINDOW_SIZE
  BY <1>1, <1>3, MessageCount
<1>5. /\ entry.seq_num = SeqOf(i) /\ entry.variant = SegmentAt(i)
      /\ i \in Nat /\ i <= sent /\ i > sent - WINDOW_SIZE /\ sent \in Nat
  BY <1>1, <1>4 DEF EntryAt, TypeOK
<1>6. m.idx = i /\ m.seq_num = SeqOf(i) /\ m.variant = SegmentAt(i)
  BY <1>4, <1>5 DEF MessageOf
<1>7. m \in DataMessage
  BY <1>3, <1>5, <1>6 DEF MessageOf, DataMessage, SentSegment
<1>8. \A k \in 0 .. sent : SegmentAt(k)' = SegmentAt(k)
  BY <1>2 DEF SegmentAt
<1> HIDE DEF m
<1>9. TypeOK'
  BY <1>1, <1>2, <1>3, <1>7 DEF TypeOK
<1>10. UnsentInv'
  BY <1>1, <1>2, <1>3 DEF UnsentInv, SeqOf
<1>11. SentInv'
  BY <1>1, <1>2, <1>3, <1>8, <1>9, SameEntries
<1>12. \A k \in data' : \/ k \in data
                        \/ /\ k \in DataMessage /\ k.idx <= sent'
                           /\ k.seq_num = SeqOf(k.idx)
                           /\ k.variant = SegmentAt(k.idx)'
  BY <1>2, <1>5, <1>6, <1>7, <1>8
<1>13. /\ sent' \in Nat /\ sent' >= sent /\ sent' <= Len(log')
       /\ sent' <= Len(Received) + WINDOW_SIZE
       /\ log' \in Seq(SequentialSegment) /\ Len(log') >= Len(log)
       /\ \A k \in 1 .. Len(log) : log'[k] = log[k]
       /\ finishing' \in BOOLEAN /\ sendFinished' \subseteq Sides
  <2>1. Len(log) \in Nat
    BY <1>1 DEF TypeOK
  <2>2. QED
    BY <1>1, <1>2, <1>5, <1>9, <2>1 DEF CountInv, TypeOK
<1>14. QED
  BY <1>2, <1>3, <1>10, <1>11, <1>12, <1>13, SenderStep
LEMMA DifferentNumbers ==
  ASSUME TypeOK, NEW i \in Int, NEW k \in Int, SeqOf(i) = SeqOf(k),
         i - k < Modulus, k - i < Modulus
  PROVE  i = k
<1>1. start \in Int
  BY SequenceNumberAssumption DEF TypeOK, SeqNum
<1> DEFINE x == start + i
           y == start + k
<1>2. /\ x \in Int /\ y \in Int /\ Wrap(x) = Wrap(y)
      /\ x - y < Modulus /\ y - x < Modulus
  BY <1>1, SequenceNumberAssumption DEF SeqOf
<1> HIDE DEF x, y
<1>3. x = y
  BY <1>2, WrapInjective
<1>4. QED
  BY <1>1, <1>3 DEF x, y

\* A run of segments that are all in queue_sent is no longer than it.
LEMMA HeldRun ==
  ASSUME TypeOK, NEW a \in Int, NEW b \in Int, b - a < Modulus,
         \A i \in a .. b : Holds(snd.queue_sent, EntryAt(i))
  PROVE  b - a < Len(snd.queue_sent) \/ b < a
<1> DEFINE f == [i \in a .. b |-> EntryAt(i)]
<1>1. snd.queue_sent \in Seq(SentSegment)
  BY DEF TypeOK, SendStorageType
<1>2. \A i \in a .. b : Holds(snd.queue_sent, f[i])
  OBVIOUS
<1>3. ASSUME NEW i \in a .. b, NEW k \in a .. b, f[i] = f[k]
      PROVE  i = k
  <2>1. EntryAt(i).seq_num = EntryAt(k).seq_num
    BY <1>3
  <2>2. SeqOf(i) = SeqOf(k)
    BY <2>1 DEF EntryAt
  <2>3. i \in Int /\ k \in Int /\ i - k < Modulus /\ k - i < Modulus
    BY SequenceNumberAssumption
  <2>4. QED
    BY <2>2, <2>3, DifferentNumbers
<1> HIDE DEF f
<1>4. QED
  BY <1>1, <1>2, <1>3, QueueHoldsInterval

LEMMA TransmitStep ==
  ASSUME IInv, Transmit
  PROVE  IInv'
<1> USE DEF rcvVars
<1>1. TypeOK /\ CountInv /\ UnsentInv /\ SentInv
  BY DEF IInv, Transmit, SenderRuns
<1> DEFINE entry == [ seq_num |-> snd.next_unsent,
                      variant |-> Head(snd.queue_unsent) ]
           m == [ idx     |-> sent + 1,
                  seq_num |-> entry.seq_num,
                  variant |-> entry.variant ]
<1>2. /\ "snd" \notin errored
      /\ Len(snd.queue_sent) # WINDOW_SIZE /\ snd.queue_unsent # << >>
      /\ data' = data \cup {[ idx     |-> sent + 1,
                              seq_num |-> PoppedSegment(snd, FALSE).seq_num,
                              variant |-> PoppedSegment(snd, FALSE).variant ]}
      /\ snd' = AfterPopSegment(snd, FALSE) /\ sent' = sent + 1
      /\ UNCHANGED << start, finishing, sendFinished, log, rcv, consumed,
                      errored, acks, resets >>
  BY DEF Transmit, SenderRuns, CanPopUnsent
<1>3. /\ snd' \in SendStorageType
      /\ PoppedSegment(snd, FALSE) = entry /\ entry \in SentSegment
      /\ snd'.queue_sent = Append(snd.queue_sent, entry)
      /\ snd'.queue_unsent = Tail(snd.queue_unsent)
      /\ snd'.next_unsent = Plus(snd.next_unsent, 1)
  BY <1>1, <1>2, TransmitFields DEF TypeOK
<1>4. /\ start \in Int /\ sent \in Nat /\ log \in Seq(SequentialSegment)
      /\ snd.queue_sent \in Seq(SentSegment)
      /\ snd.queue_unsent \in Seq(SequentialSegment)
      /\ WINDOW_SIZE \in Nat \ {0} /\ Modulus \in Nat
      /\ Modulus >= 2 * WINDOW_SIZE
      /\ Len(Received) \in Nat
  BY <1>1, SequenceNumberAssumption, ReceivedType
     DEF TypeOK, SeqNum, SendStorageType
<1>5. \A i : SegmentAt(i)' = SegmentAt(i) /\ EntryAt(i)' = EntryAt(i)
  BY <1>2 DEF SegmentAt, EntryAt, SeqOf
<1>6. Received' = Received
  BY <1>2 DEF Received
<1>7. Len(snd.queue_unsent) \in Nat \ {0} /\ sent + 1 <= Len(log)
  BY <1>1, <1>2, <1>4 DEF UnsentInv
<1>8. entry = EntryAt(sent + 1)
  <2>1. 1 \in DOMAIN snd.queue_unsent
        /\ Head(snd.queue_unsent) = snd.queue_unsent[1]
    BY <1>4, <1>7
  <2>2. Head(snd.queue_unsent) = log[sent + 1] /\ sent + 1 # 0
    BY <1>1, <1>4, <2>1 DEF UnsentInv
  <2>3. QED
    BY <1>1, <2>2 DEF UnsentInv, EntryAt, SegmentAt
<1> HIDE DEF Received
\* The window is not full, so the reader is less than a window behind.
<1>9. sent + 1 <= Len(Received) + WINDOW_SIZE
  <2>1. \A i \in Len(Received) + 1 .. sent : Holds(snd.queue_sent, EntryAt(i))
    BY <1>1 DEF SentInv
  <2>2. sent - (Len(Received) + 1) < Modulus
    BY <1>1, <1>4 DEF CountInv
  <2>3. Len(Received) + 1 \in Int /\ sent \in Int
    BY <1>4
  <2>4. sent - (Len(Received) + 1) < Len(snd.queue_sent)
        \/ sent < Len(Received) + 1
    BY <1>1, <2>1, <2>2, <2>3, HeldRun
  <2>5. Len(snd.queue_sent) < WINDOW_SIZE
    BY <1>1, <1>2, <1>4 DEF SentInv
  <2>6. QED
    BY <1>4, <2>4, <2>5
\* It also has no segment that is about to stop being recent.
<1>10. ASSUME NEW i \in Recent, Holds(snd.queue_sent, EntryAt(i))
       PROVE  i > sent + 1 - WINDOW_SIZE
  <2>1. SUFFICES ASSUME i <= sent + 1 - WINDOW_SIZE PROVE FALSE
    BY <1>4 DEF Recent
  <2>2. i \in Int /\ sent \in Int /\ i <= sent
        /\ sent - i < Modulus /\ sent - i >= WINDOW_SIZE - 1
    BY <1>4, <2>1 DEF Recent
  <2>3. \A k \in i .. sent : k \in Recent /\ i <= k
    BY <1>4 DEF Recent
  <2>4. \A k \in i .. sent : Holds(snd.queue_sent, EntryAt(k))
    BY <1>1, <1>10, <2>3 DEF SentInv
  <2>5. sent - i < Len(snd.queue_sent) \/ sent < i
    BY <1>1, <2>2, <2>4, HeldRun
  <2>6. Len(snd.queue_sent) < WINDOW_SIZE
    BY <1>1, <1>2, <1>4 DEF SentInv
  <2>7. QED
    BY <1>4, <2>2, <2>5, <2>6
<1>11. /\ Len(snd'.queue_sent) = Len(snd.queue_sent) + 1
       /\ \A x : Holds(snd'.queue_sent, x)
                   <=> Holds(snd.queue_sent, x) \/ x = EntryAt(sent + 1)
  BY <1>3, <1>4, <1>8, AppendElements
<1>12. UnsentInv'
  <2>1. snd'.next_unsent = SeqOf(sent + 2)
    <3> DEFINE x == sent + 1
    <3>1. x \in Int /\ 1 \in Int /\ x + 1 = sent + 2
      BY <1>4
    <3>2. snd'.next_unsent = Plus(SeqOf(x), 1)
      BY <1>1, <1>3 DEF UnsentInv
    <3> HIDE DEF x
    <3>3. Plus(Wrap(start + x), 1) = Wrap(start + (x + 1))
      BY <1>4, <3>1, CountedNumbers
    <3>4. QED
      BY <3>1, <3>2, <3>3 DEF SeqOf
  <2> DEFINE u == snd.queue_unsent
  <2>6. /\ Len(Tail(u)) = Len(u) - 1
        /\ DOMAIN Tail(u) = 1 .. Len(u) - 1 /\ DOMAIN u = 1 .. Len(u)
        /\ \A j \in 1 .. Len(u) - 1 : Tail(u)[j] = u[j + 1]
    BY <1>2, <1>4
  <2>2. Len(log) = (sent + 1) + Len(snd'.queue_unsent)
    <3>1. Len(log) = sent + Len(u) /\ Len(u) \in Nat
      BY <1>1, <1>7 DEF UnsentInv
    <3>2. Len(snd'.queue_unsent) = Len(u) - 1
      BY <1>3, <2>6
    <3>3. sent \in Nat
      BY <1>4
    <3> HIDE DEF u
    <3>4. QED
      BY <3>1, <3>2, <3>3
  <2>3. ASSUME NEW j \in DOMAIN snd'.queue_unsent
        PROVE  snd'.queue_unsent[j] = log[(sent + 1) + j]
    <3>1. j + 1 \in DOMAIN snd.queue_unsent
          /\ snd'.queue_unsent[j] = snd.queue_unsent[j + 1]
          /\ sent + (j + 1) = (sent + 1) + j
      <4>1. snd'.queue_unsent = Tail(u) /\ Len(u) \in Nat
        BY <1>3, <1>7
      <4> HIDE DEF u
      <4>2. QED
        BY <1>4, <2>6, <4>1 DEF u
    <3>2. QED
      BY <1>1, <3>1 DEF UnsentInv
  <2>4. (sent + 1) + 1 = sent + 2
    BY <1>4
  <2>5. QED
    BY <1>2, <2>1, <2>2, <2>3, <2>4 DEF UnsentInv, SeqOf
<1>13. SentInv'
  <2>1. \A i : i \in Recent' <=> i \in 0 .. sent + 1
                                /\ i > sent + 1 - WINDOW_SIZE
    BY <1>2, <1>4 DEF Recent
  <2>2. sent + 1 \in Recent'
        /\ \A i \in Recent' : i = sent + 1 \/ i \in Recent
    <3>1. sent + 1 \in 0 .. sent + 1 /\ sent + 1 > sent + 1 - WINDOW_SIZE
      BY <1>4
    <3>2. sent + 1 \in Recent'
      BY <2>1, <3>1
    <3>3. ASSUME NEW i \in Recent', i # sent + 1 PROVE i \in Recent
      BY <1>4, <2>1, <3>3 DEF Recent
    <3>4. QED
      BY <3>2, <3>3
  <2>3. \A j \in DOMAIN snd'.queue_sent :
          \E i \in Recent' : snd'.queue_sent[j] = EntryAt(i)
    <3>1. SUFFICES ASSUME NEW j \in DOMAIN snd'.queue_sent
                   PROVE  \E i \in Recent' : snd'.queue_sent[j] = EntryAt(i)
      OBVIOUS
    <3>2. Holds(snd'.queue_sent, snd'.queue_sent[j])
      BY DEF Holds
    <3>3. CASE snd'.queue_sent[j] = EntryAt(sent + 1)
      BY <2>2, <3>3
    <3>4. CASE Holds(snd.queue_sent, snd'.queue_sent[j])
      <4>1. PICK i \in Recent : snd'.queue_sent[j] = EntryAt(i)
        BY <1>1, <3>4 DEF SentInv, Holds
      <4>2. i > sent + 1 - WINDOW_SIZE
        BY <1>10, <3>4, <4>1
      <4>3. i \in Recent'
        BY <1>4, <2>1, <4>2 DEF Recent
      <4>4. QED
        BY <4>1, <4>3
    <3>5. QED
      BY <1>11, <3>2, <3>3, <3>4
  <2>4. ASSUME NEW i \in Recent', NEW later \in Recent', i <= later,
               Holds(snd'.queue_sent, EntryAt(i))
        PROVE  Holds(snd'.queue_sent, EntryAt(later))
    <3>1. CASE later = sent + 1
      BY <1>11, <3>1
    <3>2. CASE later # sent + 1
      <4>1. i \in Recent /\ later \in Recent /\ i # sent + 1
        BY <1>4, <2>1, <2>2, <2>4, <3>2
      <4>2. EntryAt(i) # EntryAt(sent + 1)
        <5>1. /\ i \in Int /\ sent + 1 \in Int
              /\ i - (sent + 1) < Modulus /\ (sent + 1) - i < Modulus
          BY <1>4, <2>1
        <5>2. SeqOf(i) # SeqOf(sent + 1)
          BY <1>1, <4>1, <5>1, DifferentNumbers
        <5>3. EntryAt(i).seq_num # EntryAt(sent + 1).seq_num
          BY <5>2 DEF EntryAt
        <5>4. QED
          BY <5>3
      <4>3. Holds(snd.queue_sent, EntryAt(i))
        BY <1>11, <2>4, <4>2
      <4>4. Holds(snd.queue_sent, EntryAt(later))
        BY <1>1, <2>4, <4>1, <4>3 DEF SentInv
      <4>5. QED
        BY <1>11, <4>4
    <3>3. QED
      BY <3>1, <3>2
  <2>5. ASSUME NEW i \in Len(Received) + 1 .. sent + 1
        PROVE  Holds(snd'.queue_sent, EntryAt(i))
    <3>1. i = sent + 1 \/ i \in Len(Received) + 1 .. sent
      BY <1>4
    <3>2. QED
      BY <1>1, <1>11, <3>1 DEF SentInv
  <2>6. Len(snd'.queue_sent) <= WINDOW_SIZE
    <3>1. Len(snd.queue_sent) \in Nat /\ Len(snd.queue_sent) <= WINDOW_SIZE
          /\ Len(snd.queue_sent) # WINDOW_SIZE
      BY <1>1, <1>2, <1>4 DEF SentInv
    <3>2. Len(snd'.queue_sent) = Len(snd.queue_sent) + 1
      BY <1>11
    <3>3. QED
      BY <1>4, <3>1, <3>2
  <2>7. /\ \A j \in DOMAIN snd'.queue_sent :
             \E i \in Recent' : snd'.queue_sent[j] = EntryAt(i)'
        /\ \A i, later \in Recent' :
             i <= later /\ Holds(snd'.queue_sent, EntryAt(i)')
               => Holds(snd'.queue_sent, EntryAt(later)')
        /\ \A i \in Len(Received') + 1 .. sent' :
             Holds(snd'.queue_sent, EntryAt(i)')
    <3>1. \A j \in DOMAIN snd'.queue_sent :
             \E i \in Recent' : snd'.queue_sent[j] = EntryAt(i)'
      BY <1>5, <2>3
    <3>2. \A i, later \in Recent' :
             i <= later /\ Holds(snd'.queue_sent, EntryAt(i)')
               => Holds(snd'.queue_sent, EntryAt(later)')
      BY <1>5, <2>4
    <3>3. \A i \in Len(Received') + 1 .. sent' :
             Holds(snd'.queue_sent, EntryAt(i)')
      BY <1>2, <1>5, <1>6, <2>5
    <3>4. QED
      BY <3>1, <3>2, <3>3
  <2>8. QED
    BY <2>6, <2>7 DEF SentInv
<1>14. \A k \in data' : \/ k \in data
                        \/ /\ k \in DataMessage /\ k.idx <= sent'
                           /\ k.seq_num = SeqOf(k.idx)
                           /\ k.variant = SegmentAt(k.idx)'
  <2>1. /\ m \in DataMessage /\ m.idx = sent + 1
        /\ m.seq_num = entry.seq_num /\ m.variant = entry.variant
    BY <1>3, <1>4 DEF DataMessage, SentSegment
  <2> DEFINE e == entry
  <2> HIDE DEF entry, m
  <2>2. entry.seq_num = SeqOf(sent + 1) /\ entry.variant = SegmentAt(sent + 1)
    BY <1>8 DEF EntryAt
  <2>3. data' = data \cup {m}
    BY <1>2, <1>3 DEF m, entry
  <2>4. sent + 1 <= sent'
    BY <1>2, <1>4
  <2>5. QED
    BY <1>5, <2>1, <2>2, <2>3, <2>4
<1>15. /\ sent' \in Nat /\ sent' >= sent /\ sent' <= Len(log')
       /\ sent' <= Len(Received) + WINDOW_SIZE
       /\ log' \in Seq(SequentialSegment) /\ Len(log') >= Len(log)
       /\ \A k \in 1 .. Len(log) : log'[k] = log[k]
       /\ finishing' \in BOOLEAN /\ sendFinished' \subseteq Sides
  <2>1. Len(log) \in Nat
    BY <1>4
  <2>2. QED
    BY <1>1, <1>2, <1>4, <1>7, <1>9, <2>1 DEF TypeOK
<1>16. QED
  BY <1>2, <1>3, <1>12, <1>13, <1>14, <1>15, SenderStep
-----------------------------------------------------------------------------
(* An acknowledgement arrives.                                              *)

LEMMA RecvAckStep ==
  ASSUME IInv, NEW m \in acks, RecvAck(m), ~ AckRejects(snd, m.seq_num)
  PROVE  IInv'
<1> USE DEF rcvVars
<1>1. /\ "snd" \notin errored /\ sent - m.idx < Lifetime
      /\ acks' \subseteq acks
      /\ snd' = AfterAcknowledge(snd, m.seq_num)
      /\ UNCHANGED << start, finishing, sendFinished, log, sent, rcv, consumed,
                      errored, data, resets >>
  BY DEF RecvAck, Alive, LeavesOrStays
<1>2. TypeOK /\ CountInv /\ UnsentInv /\ SentInv /\ NetworkInv
  BY <1>1 DEF IInv
<1>3. /\ snd' \in SendStorageType
      /\ snd'.queue_unsent = snd.queue_unsent
      /\ snd'.next_unsent = snd.next_unsent
      /\ Len(snd'.queue_sent) <= Len(snd.queue_sent)
      /\ \A x : Holds(snd'.queue_sent, x) <=>
                  /\ Holds(snd.queue_sent, x)
                  /\ Minus(m.seq_num, x.seq_num) >= WINDOW_SIZE
  BY <1>1, <1>2, AcknowledgeFields DEF TypeOK
<1>4. /\ start \in Int /\ sent \in Nat /\ Len(Received) \in Nat
      /\ WINDOW_SIZE \in Nat \ {0} /\ Modulus \in Nat /\ Lifetime \in Nat
      /\ Modulus >= 2 * WINDOW_SIZE /\ Lifetime + WINDOW_SIZE <= Modulus
      /\ snd.queue_sent \in Seq(SentSegment)
      /\ snd'.queue_sent \in Seq(SentSegment)
  BY <1>2, <1>3, SequenceNumberAssumption, SlidingWindowAssumption, ReceivedType
     DEF TypeOK, SeqNum, SendStorageType
<1> DEFINE a == m.idx
<1>5. a \in Nat /\ a <= Len(Received) /\ m.seq_num = SeqOf(a) /\ a <= sent
  BY <1>2, <1>4 DEF NetworkInv, TypeOK, AckMessage, CountInv
<1> HIDE DEF a, Received
\* An accepted number is that of one of the last segments sent.
<1>6. sent + 1 - a < WINDOW_SIZE
  <2>1. sent - a < Lifetime
    BY <1>1 DEF a
  <2>2. a \in Int /\ sent - a < Modulus - 1
    BY <1>4, <1>5, <2>1
  <2>3. Minus(SeqOf(sent + 1), SeqOf(a)) = sent + 1 - a
    BY <1>2, <1>5, <2>2, RecentNumbers
  <2>4. ~ (Minus(snd.next_unsent, m.seq_num) >= WINDOW_SIZE)
    BY DEF AckRejects
  <2>5. Minus(snd.next_unsent, m.seq_num) = sent + 1 - a
    BY <1>2, <1>5, <2>3 DEF UnsentInv
  <2>6. QED
    BY <1>4, <1>5, <2>4, <2>5
\* It drops exactly the segments up to its own.
<1>7. ASSUME NEW i \in Recent
      PROVE  Minus(m.seq_num, SeqOf(i)) >= WINDOW_SIZE <=> i > a
  <2>1. i \in Int /\ a \in Int /\ i <= sent /\ i > sent - WINDOW_SIZE
    BY <1>4, <1>5 DEF Recent
  <2> DEFINE d == a - i
  <2>2. Minus(m.seq_num, SeqOf(i)) = Wrap(d)
    <3>1. Minus(Wrap(start + a), Wrap(start + i)) = Wrap(a - i)
      BY <1>4, <2>1, CountedNumbers
    <3>2. QED
      BY <1>5, <3>1 DEF SeqOf
  <2>3. CASE i > a
    <3>1. d \in -Modulus .. -1 /\ d \in Int /\ d + Modulus >= WINDOW_SIZE
      BY <1>4, <1>5, <1>6, <2>1, <2>3
    <3> HIDE DEF d
    <3>2. Wrap(d) = d + Modulus
      BY <3>1, WrapSmall
    <3>3. QED
      BY <2>2, <2>3, <3>1, <3>2
  <2>4. CASE i <= a
    <3>1. d \in 0 .. Modulus - 1 /\ d \in Int /\ d < WINDOW_SIZE
      BY <1>4, <1>5, <2>1, <2>4
    <3> HIDE DEF d
    <3>2. Wrap(d) = d
      BY <3>1, WrapSmall
    <3>3. ~ (i > a)
      BY <2>1, <2>4
    <3>4. ~ (Wrap(d) >= WINDOW_SIZE)
      BY <1>4, <3>1, <3>2
    <3>5. QED
      BY <2>2, <3>3, <3>4
  <2>5. QED
    BY <2>1, <2>3, <2>4
<1>8. ASSUME NEW i \in Recent
      PROVE  Holds(snd'.queue_sent, EntryAt(i))
               <=> Holds(snd.queue_sent, EntryAt(i)) /\ i > a
  <2>1. EntryAt(i).seq_num = SeqOf(i)
    BY DEF EntryAt
  <2>2. QED
    BY <1>3, <1>7, <2>1
<1>9. \A i : EntryAt(i)' = EntryAt(i) /\ SegmentAt(i)' = SegmentAt(i)
  BY <1>1 DEF EntryAt, SeqOf, SegmentAt
<1>10. Received' = Received /\ Recent' = Recent
  BY <1>1 DEF Received, Recent
<1>11. UnsentInv'
  BY <1>1, <1>2, <1>3 DEF UnsentInv, SeqOf
<1>12. SentInv'
  <2>1. Len(snd'.queue_sent) <= WINDOW_SIZE
    <3>1. Len(snd.queue_sent) <= WINDOW_SIZE
      BY <1>2 DEF SentInv
    <3>2. Len(snd.queue_sent) \in Nat /\ Len(snd'.queue_sent) \in Nat
      BY <1>4
    <3>3. QED
      BY <1>3, <1>4, <3>1, <3>2
  <2>2. \A j \in DOMAIN snd'.queue_sent :
          \E i \in Recent : snd'.queue_sent[j] = EntryAt(i)
    <3>1. SUFFICES ASSUME NEW j \in DOMAIN snd'.queue_sent
                   PROVE  \E i \in Recent : snd'.queue_sent[j] = EntryAt(i)
      OBVIOUS
    <3>2. Holds(snd'.queue_sent, snd'.queue_sent[j])
      BY DEF Holds
    <3>3. Holds(snd.queue_sent, snd'.queue_sent[j])
      BY <1>3, <3>2
    <3>4. QED
      BY <1>2, <3>3 DEF SentInv, Holds
  <2>3. ASSUME NEW i \in Recent, NEW later \in Recent, i <= later,
               Holds(snd'.queue_sent, EntryAt(i))
        PROVE  Holds(snd'.queue_sent, EntryAt(later))
    <3>1. Holds(snd.queue_sent, EntryAt(i)) /\ i > a
      BY <1>8, <2>3
    <3>2. Holds(snd.queue_sent, EntryAt(later))
      BY <1>2, <2>3, <3>1 DEF SentInv
    <3>3. later > a
      BY <1>4, <1>5, <2>3, <3>1 DEF Recent
    <3>4. QED
      BY <1>8, <3>2, <3>3
  <2>4. ASSUME NEW i \in Len(Received) + 1 .. sent
        PROVE  Holds(snd'.queue_sent, EntryAt(i))
    <3>1. i \in Recent /\ i > a
      BY <1>2, <1>4, <1>5 DEF Recent, CountInv
    <3>2. Holds(snd.queue_sent, EntryAt(i))
      BY <1>2 DEF SentInv
    <3>3. QED
      BY <1>8, <3>1, <3>2
  <2>5. \A j \in DOMAIN snd'.queue_sent :
          \E i \in Recent' : snd'.queue_sent[j] = EntryAt(i)'
    BY <1>9, <1>10, <2>2
  <2>6. \A i, later \in Recent' :
          i <= later /\ Holds(snd'.queue_sent, EntryAt(i)')
            => Holds(snd'.queue_sent, EntryAt(later)')
    BY <1>9, <1>10, <2>3
  <2>7. \A i \in Len(Received') + 1 .. sent' : Holds(snd'.queue_sent, EntryAt(i)')
    BY <1>1, <1>9, <1>10, <2>4
  <2>8. QED
    BY <2>1, <2>5, <2>6, <2>7 DEF SentInv
<1>13. /\ sent' \in Nat /\ sent' >= sent /\ sent' <= Len(log')
       /\ sent' <= Len(Received) + WINDOW_SIZE
       /\ log' \in Seq(SequentialSegment) /\ Len(log') >= Len(log)
       /\ \A k \in 1 .. Len(log) : log'[k] = log[k]
       /\ finishing' \in BOOLEAN /\ sendFinished' \subseteq Sides
  <2>1. Len(log) \in Nat
    BY <1>2 DEF TypeOK
  <2>2. QED
    BY <1>1, <1>2, <1>4, <2>1 DEF CountInv, TypeOK
<1>14. \A k \in data' : k \in data
  BY <1>1
<1>15. QED
  BY <1>1, <1>3, <1>11, <1>12, <1>13, <1>14, SenderStep
-----------------------------------------------------------------------------
(* The steps of the reading side.                                           *)

\* A step that touches the storage only in what neither the order nor the
\* representation depends on, and sends at most correct acknowledgements.
LEMMA ReaderStep ==
  ASSUME IInv, IsRecvStorage(rcv'), consumed' \in Seq(SequentialSegment),
         rcv'.window = rcv.window, rcv'.lower_bound = rcv.lower_bound,
         rcv'.segments = rcv.segments, Received' = Received,
         UNCHANGED << start, sndVars, errored, data, resets >>,
         \A m \in acks' : \/ m \in acks
                          \/ /\ m \in AckMessage /\ m.idx <= Len(Received)
                             /\ m.seq_num = SeqOf(m.idx)
  PROVE  IInv'
<1> USE DEF sndVars
<1>1. TypeOK /\ CountInv /\ InOrderDelivery /\ NetworkInv
  BY DEF IInv
<1>2. TypeOK'
  BY <1>1 DEF TypeOK
<1>3. /\ Len(Received) \in Nat /\ sent \in Nat
      /\ Len(Received') >= Len(Received) /\ sent' >= sent /\ sent' \in Nat
      /\ \A i : SegmentAt(i)' = SegmentAt(i) /\ SeqOf(i)' = SeqOf(i)
  BY <1>1, ReceivedType DEF TypeOK, SegmentAt, SeqOf
<1>4. CountInv' /\ InOrderDelivery'
  BY <1>1 DEF CountInv, InOrderDelivery
<1> HIDE DEF Received
<1>5. NetworkInv'
  <2>1. \A m \in data' : m.idx <= sent' /\ m.seq_num = SeqOf(m.idx)'
                         /\ m.variant = SegmentAt(m.idx)'
    BY <1>1, <1>3 DEF NetworkInv
  <2>2. \A m \in acks' : m.idx <= Len(Received') /\ m.seq_num = SeqOf(m.idx)'
    BY <1>1, <1>3 DEF NetworkInv
  <2>3. QED
    BY <2>1, <2>2 DEF NetworkInv
<1>6. "snd" \notin errored' => UnsentInv' /\ SentInv'
  BY <1>1, <1>2, <1>3, SenderKept DEF IInv
<1>7. "rcv" \notin errored' => ReceiverInv'
  BY <1>1, <1>3, ReceiverKept DEF IInv
<1>8. QED
  BY <1>2, <1>4, <1>5, <1>6, <1>7 DEF IInv

LEMMA AckTickStep ==
  ASSUME IInv, NEW elapsed \in BOOLEAN, AckTick(elapsed)
  PROVE  IInv'
<1> DEFINE m == [idx |-> Len(Received), seq_num |-> CurrentAck(rcv)]
<1>1. /\ "rcv" \notin errored /\ rcv' = AfterPopAcknowledge(rcv, elapsed)
      /\ acks' \subseteq acks \cup {m}
      /\ UNCHANGED << start, sndVars, consumed, errored, data, resets >>
  BY DEF AckTick
<1>2. TypeOK /\ ReceiverInv
  BY <1>1 DEF IInv
<1>3. /\ IsRecvStorage(rcv') /\ rcv'.pop_queue = rcv.pop_queue
      /\ rcv'.window = rcv.window /\ rcv'.lower_bound = rcv.lower_bound
      /\ rcv'.segments = rcv.segments
  BY <1>1, <1>2, PopAcknowledgeFields DEF TypeOK
<1>4. Received' = Received
  BY <1>1, <1>3 DEF Received
<1>5. start \in Int /\ Len(Received) \in Nat
  BY <1>2, ReceivedType, SequenceNumberAssumption DEF TypeOK, SeqNum
<1>6. CurrentAck(rcv) = SeqOf(Len(Received))
  <2> DEFINE x == Len(Received) + 1
  <2>1. x \in Int /\ 1 \in Int /\ x - 1 = Len(Received)
    BY <1>5
  <2>2. rcv.window = Wrap(start + x)
    BY <1>2 DEF ReceiverInv, Represents
  <2> HIDE DEF x
  <2>3. Minus(Wrap(start + x), 1) = Wrap(start + (x - 1))
    BY <1>5, <2>1, CountedNumbers
  <2>4. QED
    BY <2>1, <2>2, <2>3 DEF CurrentAck, SeqOf
<1>7. CurrentAck(rcv) \in SeqNum
  BY <1>5, <1>6, WrapIsRemainder DEF SeqOf
<1>8. m \in AckMessage /\ m.idx <= Len(Received) /\ m.seq_num = SeqOf(m.idx)
  BY <1>5, <1>6, <1>7 DEF AckMessage
<1>9. consumed' \in Seq(SequentialSegment)
  BY <1>1, <1>2 DEF TypeOK
<1> HIDE DEF m, Received
<1>10. QED
  BY <1>1, <1>3, <1>4, <1>8, <1>9, ReaderStep

\* Moving the head of a sequence to the end of the one before it.
LEMMA MovedHead ==
  ASSUME NEW T, NEW c \in Seq(T), NEW p \in Seq(T), p # << >>
  PROVE  Append(c, Head(p)) \o Tail(p) = c \o p
<1> DEFINE h == Head(p)
           t == Tail(p)
<1>1. /\ h = p[1] /\ h \in T /\ t \in Seq(T) /\ Len(t) = Len(p) - 1
      /\ Len(p) \in Nat \ {0} /\ Len(c) \in Nat
      /\ \A i \in 1 .. Len(t) : t[i] = p[i + 1]
  BY HeadTailProperties
<1> HIDE DEF h, t
<1>2. << h >> \in Seq(T) /\ Append(c, h) = c \o << h >>
  BY <1>1, AppendIsConcat
<1>3. << h >> \o t = p
  <2> DEFINE q == << h >> \o t
  <2>1. /\ q \in Seq(T) /\ Len(q) = 1 + Len(t)
        /\ \A i \in 1 .. 1 + Len(t) : q[i] = IF i <= 1 THEN h ELSE t[i - 1]
    <3>1. Len(<< h >>) = 1 /\ << h >>[1] = h
      OBVIOUS
    <3>2. QED
      BY <1>1, <1>2, <3>1, ConcatProperties
  <2> HIDE DEF q
  <2>2. Len(q) = Len(p)
    BY <1>1, <2>1
  <2>3. \A i \in 1 .. Len(p) : q[i] = p[i]
    BY <1>1, <2>1
  <2>4. q = p
    BY <2>1, <2>2, <2>3, SeqEqual
  <2>5. QED
    BY <2>4 DEF q
<1>4. (c \o << h >>) \o t = c \o (<< h >> \o t)
  BY <1>1, <1>2, ConcatAssociative
<1>5. QED
  BY <1>2, <1>3, <1>4 DEF h, t

LEMMA ReadStep ==
  ASSUME IInv, Read
  PROVE  IInv'
<1>1. /\ CanPop(rcv) /\ consumed' = Append(consumed, Head(rcv.pop_queue))
      /\ rcv' = AfterPop(rcv)
      /\ UNCHANGED << start, sndVars, errored, data, acks, resets >>
  BY DEF Read, netVars
<1>2. TypeOK
  BY DEF IInv
<1>3. /\ IsRecvStorage(rcv') /\ rcv'.pop_queue = Tail(rcv.pop_queue)
      /\ rcv'.window = rcv.window /\ rcv'.lower_bound = rcv.lower_bound
      /\ rcv'.segments = rcv.segments
  BY <1>1, <1>2, PopFields DEF TypeOK
<1> DEFINE p == rcv.pop_queue
<1>4. /\ p \in Seq(SequentialSegment) /\ p # << >>
      /\ consumed \in Seq(SequentialSegment)
  BY <1>1, <1>2 DEF TypeOK, IsRecvStorage, CanPop
<1>5. consumed' \in Seq(SequentialSegment)
  BY <1>1, <1>4
<1>6. Received' = Received
  <2>1. Append(consumed, Head(p)) \o Tail(p) = consumed \o p
    BY <1>4, MovedHead
  <2>2. QED
    BY <1>1, <1>3, <2>1 DEF Received
<1> HIDE DEF Received
<1>7. QED
  BY <1>1, <1>3, <1>5, <1>6, ReaderStep

\* What recv does with a segment of the network that it accepts: the reader's
\* storage stays well-formed, does not panic, and moves on in order.
LEMMA AcceptedSegment ==
  ASSUME IInv, "rcv" \notin errored, NEW m \in data, Alive(m),
         ~ RecvRejects(rcv, m.seq_num, m.variant)
  PROVE  LET next == AfterRecv(rcv, m.seq_num, m.variant) IN
         /\ IsRecvStorage(next)
         /\ ~ RecvPanics(rcv, m.seq_num, m.variant)
         /\ Advances(rcv, next, start, Len(Received) + 1, Lowest, sent, SentSegments)
<1>1. sent - m.idx < Lifetime
  BY DEF Alive
<1>2. TypeOK /\ CountInv /\ NetworkInv /\ ReceiverInv
  BY DEF IInv
<1> DEFINE f == SentSegments
           w == Len(Received) + 1
           l == Lowest
           i == m.idx
<1>3. /\ start \in Int /\ sent \in Nat /\ Len(Received) \in Nat
      /\ WINDOW_SIZE \in Nat \ {0} /\ Modulus \in Nat /\ Lifetime \in Nat
      /\ Lifetime + WINDOW_SIZE <= Modulus
      /\ log \in Seq(SequentialSegment) /\ sent <= Len(log)
      /\ Len(Received) <= sent /\ sent <= Len(Received) + WINDOW_SIZE
  BY <1>2, SequenceNumberAssumption, SlidingWindowAssumption, ReceivedType
     DEF TypeOK, SeqNum, CountInv
<1>4. i \in 0 .. sent /\ m.seq_num = Wrap(start + i) /\ m.variant = f[i]
  BY <1>2 DEF NetworkInv, TypeOK, DataMessage, SentSegments, SeqOf
<1>5. f \in [0 .. sent -> SequentialSegment]
  BY <1>3 DEF SentSegments, SegmentAt, SequentialSegment
<1>6. Represents(rcv, start, w, l, f) /\ w <= sent + 1 /\ w \in Nat
  BY <1>2, <1>3 DEF ReceiverInv
<1>7. IsRecent(i, w)
  <2>1. i \in Int /\ i <= sent /\ sent - i < Lifetime
    BY <1>1, <1>3, <1>4
  <2>2. sent < w + WINDOW_SIZE /\ w \in Int /\ w <= sent + 1
    BY <1>3
  <2> HIDE DEF i, w
  <2>3. i < w + WINDOW_SIZE
    BY <1>3, <2>1, <2>2
  <2>4. w + WINDOW_SIZE - i <= Modulus
    BY <1>3, <2>1, <2>2
  <2>5. QED
    BY <2>3, <2>4 DEF IsRecent
<1>8. IsRecvStorage(rcv)
  BY <1>2 DEF TypeOK
<1> HIDE DEF f, w, l, i
<1>9. ~ RecvRejects(rcv, Wrap(start + i), f[i])
  BY <1>4
<1> DEFINE next == AfterRecv(rcv, Wrap(start + i), f[i])
<1>10. /\ IsRecvStorage(next) /\ ~ RecvPanics(rcv, Wrap(start + i), f[i])
       /\ Advances(rcv, next, start, w, l, sent, f)
  BY <1>3, <1>4, <1>5, <1>6, <1>7, <1>8, <1>9, RecvInOrder
<1>11. QED
  BY <1>4, <1>10 DEF f, w, l

LEMMA RecvSegmentStep ==
  ASSUME IInv, NEW m \in data, RecvSegment(m),
         ~ RecvRejects(rcv, m.seq_num, m.variant)
  PROVE  /\ IInv' /\ Len(Received') >= Len(Received)
         /\ Lowest' = LowerBound(Len(Received) + 1, Lowest, Len(Received') + 1)
<1>1. /\ "rcv" \notin errored /\ Alive(m)
      /\ data' \subseteq data
      /\ rcv' = AfterRecv(rcv, m.seq_num, m.variant)
      /\ UNCHANGED << start, snd, finishing, sendFinished, log, sent, consumed,
                      errored, acks, resets >>
  BY DEF RecvSegment, LeavesOrStays
<1>2. TypeOK /\ CountInv /\ InOrderDelivery /\ NetworkInv /\ ReceiverInv
  BY <1>1 DEF IInv
<1> DEFINE f == SentSegments
           w == Len(Received) + 1
<1>3. /\ start \in Int /\ sent \in Nat /\ Len(Received) \in Nat
      /\ WINDOW_SIZE \in Nat /\ Modulus \in Nat
      /\ log \in Seq(SequentialSegment) /\ sent <= Len(log)
      /\ Len(Received) <= sent /\ sent <= Len(Received) + WINDOW_SIZE
  BY <1>2, SequenceNumberAssumption, ReceivedType DEF TypeOK, SeqNum, CountInv
<1>4. f \in [0 .. sent -> SequentialSegment]
  BY <1>3 DEF SentSegments, SegmentAt, SequentialSegment
<1>5. w <= sent + 1 /\ w \in Nat
  BY <1>3
<1>6. f[0] = Accept /\ \A k \in 1 .. sent : f[k] = log[k]
  BY <1>3 DEF SentSegments, SegmentAt
<1>7. f' = f
  BY <1>1 DEF SentSegments, SegmentAt
<1>8. IsRecvStorage(rcv') /\ Advances(rcv, rcv', start, w, Lowest, sent, f)
  BY <1>1, AcceptedSegment
<1> HIDE DEF f, w
<1>9. PICK v \in w .. sent + 1, h \in Nat :
         /\ h = LowerBound(w, Lowest, v)
         /\ Represents(rcv', start, v, h, f)
         /\ rcv'.pop_queue = rcv.pop_queue \o Handed(f, w, v)
  BY <1>8 DEF Advances
\* The order grows by the segments from the old window to the new.
<1>10. /\ Received' = Received \o Handed(f, w, v)
       /\ Len(Received') = v - 1
       /\ \A k \in 1 .. v - 1 : Received'[k] = IF k < w THEN Received[k] ELSE f[k]
  <2> DEFINE g == Handed(f, w, v)
  <2>1. /\ g \in Seq(SequentialSegment) /\ Len(g) = v - w
        /\ \A k \in 1 .. v - w : g[k] = f[w + k - 1]
    <3>1. v - w \in Nat
      BY <1>5, <1>9
    <3>2. \A k \in 1 .. v - w : w + k - 1 \in 0 .. sent
      BY <1>3, <1>5, <1>9
    <3>3. \A k \in 1 .. v - w : f[w + k - 1] \in SequentialSegment
      BY <1>4, <3>2
    <3>4. g = [k \in 1 .. v - w |-> f[w + k - 1]]
      BY DEF Handed
    <3>5. g \in [1 .. v - w -> SequentialSegment]
      BY <3>3, <3>4
    <3>6. QED
      BY <3>1, <3>4, <3>5
  <2> HIDE DEF g
  <2>2. /\ consumed \in Seq(SequentialSegment)
        /\ rcv.pop_queue \in Seq(SequentialSegment)
    BY <1>2, OrderType DEF TypeOK
  <2>3. consumed \o (rcv.pop_queue \o g) = (consumed \o rcv.pop_queue) \o g
    <3> DEFINE p == rcv.pop_queue
    <3>1. /\ consumed \in Seq(SequentialSegment) /\ p \in Seq(SequentialSegment)
          /\ g \in Seq(SequentialSegment)
      BY <2>1, <2>2
    <3> HIDE DEF p
    <3>2. (consumed \o p) \o g = consumed \o (p \o g)
      BY <3>1, ConcatAssociative
    <3>3. QED
      BY <3>2 DEF p
  <2>4. Received' = Received \o g
    BY <1>1, <1>9, <2>3 DEF Received, g
  <2>5. Received \in Seq(SequentialSegment) /\ Len(Received) = w - 1
    BY <1>2, <1>3, ReceivedType DEF w
  <2> HIDE DEF Received
  <2>6. Len(Received') = v - 1
    <3>1. Len(Received \o g) = Len(Received) + Len(g)
      BY <2>1, <2>5, ConcatProperties, Zenon
    <3>2. v \in Nat /\ w \in Nat
      BY <1>5, <1>9
    <3>3. QED
      BY <2>1, <2>4, <2>5, <3>1, <3>2
  <2>7. ASSUME NEW k \in 1 .. v - 1
        PROVE  Received'[k] = IF k < w THEN Received[k] ELSE f[k]
    <3>1. CASE k < w
      BY <1>5, <2>1, <2>4, <2>5, <3>1
    <3>2. CASE k >= w
      <4>1. k - (w - 1) \in 1 .. v - w /\ w + (k - (w - 1)) - 1 = k
        BY <1>5, <1>9, <3>2
      <4>2. Received'[k] = g[k - (w - 1)]
        BY <1>5, <2>1, <2>4, <2>5, <3>2, <4>1
      <4>3. g[k - (w - 1)] = f[k]
        BY <2>1, <4>1
      <4>4. ~ (k < w)
        BY <1>5, <3>2
      <4>5. QED
        BY <4>2, <4>3, <4>4
    <3>3. QED
      BY <1>5, <3>1, <3>2
  <2>8. QED
    BY <2>4, <2>6, <2>7 DEF g
<1>11. TypeOK'
  BY <1>1, <1>2, <1>8 DEF TypeOK
<1>12. /\ Len(Received) = w - 1 /\ Len(Received') >= Len(Received)
       /\ Len(Received') <= sent
  BY <1>3, <1>5, <1>9, <1>10 DEF w
<1> HIDE DEF Received
<1>13. CountInv'
  BY <1>1, <1>3, <1>9, <1>10, <1>12 DEF CountInv
<1>14. InOrderDelivery'
  <2>1. Len(Received') <= Len(log')
    BY <1>1, <1>3, <1>9, <1>10, <1>12
  <2>2. ASSUME NEW k \in 1 .. v - 1 PROVE Received'[k] = log[k]
    <3>1. k \in 1 .. sent
      BY <1>3, <1>5, <1>9
    <3>2. CASE k < w
      <4>1. k \in 1 .. Len(Received)
        BY <1>5, <1>12, <3>2
      <4>2. Received[k] = log[k]
        BY <1>2, <4>1 DEF InOrderDelivery
      <4>3. QED
        BY <1>10, <3>2, <4>2
    <3>3. CASE ~ (k < w)
      BY <1>6, <1>10, <3>1, <3>3
    <3>4. QED
      BY <3>2, <3>3
  <2>3. QED
    BY <1>1, <1>10, <2>1, <2>2 DEF InOrderDelivery
<1>15. NetworkInv'
  BY <1>1, <1>2, <1>3, <1>11, <1>12, NetworkKept
<1>16. "snd" \notin errored' => UnsentInv' /\ SentInv'
  BY <1>1, <1>2, <1>11, <1>12, SenderKept DEF IInv
<1>17. ReceiverInv' /\ Lowest' = h /\ Len(Received') + 1 = v
  <2>1. v \in Int /\ h \in Int /\ v - h \in 0 .. Modulus - 1
        /\ v - (v - h) = h
    <3>1. v \in Nat /\ h \in 0 .. v /\ v - h < Modulus
      BY <1>9 DEF Represents
    <3>2. QED
      BY <1>3, <3>1
  <2>2. rcv'.window = Wrap(start + v) /\ rcv'.lower_bound = Wrap(start + h)
    BY <1>9 DEF Represents
  <2>3. Minus(Wrap(start + v), Wrap(start + h)) = Wrap(v - h)
    BY <1>3, <2>1, CountedNumbers
  <2>4. Wrap(v - h) = v - h
    <3> DEFINE d == v - h
    <3>1. d \in Int /\ d \in 0 .. Modulus - 1
      BY <2>1
    <3> HIDE DEF d
    <3>2. Wrap(d) = d
      BY <3>1, WrapSmall
    <3>3. QED
      BY <3>2 DEF d
  <2>5. Span' = v - h
    BY <2>2, <2>3, <2>4 DEF Span
  <2>6. Len(Received') + 1 = v
    BY <1>10, <2>1
  <2>7. Lowest' = h
    BY <2>1, <2>5, <2>6 DEF Lowest
  <2>8. Represents(rcv', start', Len(Received') + 1, Lowest', f')
    BY <1>1, <1>7, <1>9, <2>6, <2>7
  <2>9. QED
    BY <2>6, <2>7, <2>8 DEF ReceiverInv, f
<1>18. Lowest' = LowerBound(w, Lowest, Len(Received') + 1)
  BY <1>9, <1>17
<1>19. w = Len(Received) + 1
  BY DEF w
<1>20. QED
  BY <1>11, <1>12, <1>13, <1>14, <1>15, <1>16, <1>17, <1>18, <1>19 DEF IInv
-----------------------------------------------------------------------------
(* The handshake, in either direction, establishes the invariant.           *)

LEMMA InitialInvariant == Init => IInv
<1> SUFFICES ASSUME Init PROVE IInv
  OBVIOUS
<1>1. /\ start \in SeqNum /\ start \in Int /\ Wrap(start) = start
      /\ WINDOW_SIZE \in Nat \ {0} /\ Modulus \in Nat
      /\ Modulus >= 2 * WINDOW_SIZE
  <2>1. start \in SeqNum
    BY SlidingWindowAssumption DEF Init
  <2>2. start \in Int /\ start \in 0 .. Modulus - 1
    BY <2>1, SequenceNumberAssumption DEF SeqNum
  <2>3. QED
    BY <2>1, <2>2, WrapSmall, SequenceNumberAssumption
<1>2. /\ data = {} /\ acks = {} /\ resets = {} /\ errored = {}
      /\ log = << >> /\ sent = 0 /\ consumed = << >>
      /\ finishing = FALSE /\ sendFinished = {}
  BY DEF Init
<1>3. Plus(start, 1) = SeqOf(1) /\ SeqOf(0) = start /\ Plus(start, 1) \in SeqNum
  <2>1. start + 0 = start
    BY <1>1
  <2>2. Plus(start, 1) \in SeqNum
    BY <1>1, 1 \in Int, ResultsAreSequenceNumbers
  <2>3. QED
    BY <1>1, <2>1, <2>2 DEF Plus, SeqOf
<1>4. Accept \in SequentialSegment
  BY DEF SequentialSegment
<1>5. /\ snd \in SendStorageType /\ snd.queue_unsent = << >>
      /\ snd.next_unsent = SeqOf(1)
      /\ \/ snd.queue_sent = << >> \/ snd.queue_sent = << EntryAt(0) >>
  <2>1. CASE snd = SendNewByLocal(start)
    <3>1. snd = [ queue_sent |-> << >>, queue_unsent |-> << >>,
                  next_unsent |-> SeqOf(1) ]
      BY <1>3, <2>1 DEF SendNewByLocal
    <3>2. << >> \in Seq(SentSegment) /\ << >> \in Seq(SequentialSegment)
      OBVIOUS
    <3>3. snd \in SendStorageType
      BY <1>3, <3>1, <3>2 DEF SendStorageType
    <3>4. QED
      BY <3>1, <3>3
  <2>2. CASE snd = AfterPopSegment(SendNewByPeer(start), FALSE)
    <3> DEFINE s == SendNewByPeer(start)
               u == << Accept >>
               none == << >>
    <3>1. /\ u \in Seq(SequentialSegment) /\ u # << >> /\ Head(u) = Accept
          /\ Tail(u) = << >> /\ none \in Seq(SentSegment)
      BY <1>4
    <3>2. s = [queue_sent |-> none, queue_unsent |-> u, next_unsent |-> start]
      BY DEF SendNewByPeer
    <3> HIDE DEF s, u, none
    <3>3. /\ s \in SendStorageType /\ s.queue_unsent = u /\ s.queue_sent = none
          /\ s.next_unsent = start
      BY <1>1, <3>1, <3>2 DEF SendStorageType
    <3> DEFINE entry == [seq_num |-> s.next_unsent, variant |-> Head(s.queue_unsent)]
    <3>4. /\ snd \in SendStorageType
          /\ snd.queue_sent = Append(s.queue_sent, entry)
          /\ snd.queue_unsent = Tail(s.queue_unsent)
          /\ snd.next_unsent = Plus(s.next_unsent, 1)
      BY <2>2, <3>1, <3>3, TransmitFields DEF s
    <3>5. entry = EntryAt(0)
      BY <1>3, <3>1, <3>3 DEF EntryAt, SegmentAt
    <3> HIDE DEF entry
    <3>6. Append(none, entry) = << entry >>
      BY DEF none
    <3>7. QED
      BY <1>3, <3>1, <3>3, <3>4, <3>5, <3>6
  <2>3. QED
    BY <2>1, <2>2 DEF Init, InitHandshake
<1>6. UnsentInv
  BY <1>2, <1>5 DEF UnsentInv
<1>7. IsRecvStorage(rcv) /\ rcv.pop_queue = << >> /\ rcv.window = SeqOf(1)
      /\ \/ rcv.lower_bound = SeqOf(1) /\ DOMAIN rcv.segments = {}
         \/ /\ rcv.lower_bound = SeqOf(0) /\ DOMAIN rcv.segments = {SeqOf(0)}
            /\ rcv.segments[SeqOf(0)] = Accept
  <2> DEFINE none == << >>
  <2>1. /\ none \in Seq(SequentialSegment) /\ DOMAIN none = {}
        /\ none \in [DOMAIN none -> SequentialSegment]
    OBVIOUS
  <2>2. CASE rcv = RecvNewByPeer(start)
    <3>1. rcv = [ segments |-> none, pop_queue |-> none, window |-> SeqOf(1),
                  lower_bound |-> SeqOf(1), highest |-> start,
                  last_ack |-> None, urgent_ack |-> FALSE ]
      BY <1>3, <2>2 DEF RecvNewByPeer
    <3> HIDE DEF none
    <3>2. /\ rcv.segments = none /\ rcv.pop_queue = none
          /\ rcv.window = SeqOf(1) /\ rcv.lower_bound = SeqOf(1)
      BY <3>1
    <3>3. IsRecvStorage(rcv)
      <4>1. rcv \in [ segments : {rcv.segments},
                      pop_queue : Seq(SequentialSegment), window : SeqNum,
                      lower_bound : SeqNum, highest : SeqNum,
                      last_ack : SeqNum \cup {None}, urgent_ack : BOOLEAN ]
        BY <1>1, <1>3, <2>1, <3>1, <3>2
      <4>2. QED
        BY <2>1, <3>2, <4>1 DEF IsRecvStorage
    <3>4. QED
      BY <2>1, <3>2, <3>3 DEF none
  <2>3. CASE rcv = RecvNewByLocal(start)
    <3> DEFINE g == [k \in {start} |-> Accept]
    <3>1. rcv = [ segments |-> g, pop_queue |-> none, window |-> SeqOf(1),
                  lower_bound |-> start, highest |-> start,
                  last_ack |-> None, urgent_ack |-> TRUE ]
      BY <1>3, <2>3 DEF RecvNewByLocal
    <3>2. /\ g \in [DOMAIN g -> SequentialSegment] /\ DOMAIN g = {start}
          /\ g[start] = Accept
      BY <1>4
    <3> HIDE DEF none, g
    <3>3. /\ rcv.segments = g /\ rcv.pop_queue = none
          /\ rcv.window = SeqOf(1) /\ rcv.lower_bound = start
      BY <3>1
    <3>4. IsRecvStorage(rcv)
      <4>1. rcv \in [ segments : {rcv.segments},
                      pop_queue : Seq(SequentialSegment), window : SeqNum,
                      lower_bound : SeqNum, highest : SeqNum,
                      last_ack : SeqNum \cup {None}, urgent_ack : BOOLEAN ]
        BY <1>1, <1>3, <2>1, <3>1, <3>3
      <4>2. QED
        BY <1>1, <3>2, <3>3, <4>1 DEF IsRecvStorage
    <3>5. QED
      BY <1>3, <3>2, <3>3, <3>4 DEF none
  <2>4. QED
    BY <2>2, <2>3 DEF Init, InitHandshake
<1>8. Received = << >> /\ Len(Received) = 0
  <2>1. << >> \o << >> = << >>
    OBVIOUS
  <2>2. QED
    BY <1>2, <1>7, <2>1 DEF Received
<1>9. TypeOK
  <2> DEFINE none == << >>
  <2>1. none \in Seq(SequentialSegment) /\ 0 \in Nat
    OBVIOUS
  <2>2. log = none /\ consumed = none
    BY <1>2
  <2> HIDE DEF none
  <2>3. /\ errored \subseteq Sides /\ resets \subseteq Sides
        /\ data \subseteq DataMessage /\ acks \subseteq AckMessage
    BY <1>2
  <2>4. log \in Seq(SequentialSegment) /\ consumed \in Seq(SequentialSegment)
    BY <2>1, <2>2
  <2>5. start \in SeqNum /\ sent \in Nat
    BY <1>1, <1>2, <2>1
  <2>6. finishing \in BOOLEAN /\ sendFinished \subseteq Sides
    BY <1>2
  <2>7. QED
    BY <1>5, <1>7, <2>3, <2>4, <2>5, <2>6 DEF TypeOK
<1>10. CountInv /\ InOrderDelivery /\ NetworkInv
  BY <1>1, <1>2, <1>8 DEF CountInv, InOrderDelivery, NetworkInv
<1>11. SentInv
  <2>1. Recent = {0}
    BY <1>1, <1>2 DEF Recent
  <2>2. Len(snd.queue_sent) <= 1 /\ \A j \in DOMAIN snd.queue_sent :
                                      snd.queue_sent[j] = EntryAt(0)
    <3> DEFINE e == EntryAt(0)
    <3> HIDE DEF e
    <3>1. CASE snd.queue_sent = << >>
      BY <3>1
    <3>2. CASE snd.queue_sent = << e >>
      <4> DEFINE one == << e >>
      <4>1. Len(one) = 1 /\ DOMAIN one = 1 .. 1 /\ one[1] = e
        OBVIOUS
      <4>2. \A j \in 1 .. 1 : j = 1
        OBVIOUS
      <4> HIDE DEF one
      <4>3. snd.queue_sent = one
        BY <3>2 DEF one
      <4>4. Len(snd.queue_sent) <= 1
        <5>1. Len(snd.queue_sent) = 1
          BY <4>1, <4>3
        <5>2. QED
          BY <5>1
      <4>5. \A j \in DOMAIN snd.queue_sent : snd.queue_sent[j] = e
        BY <4>1, <4>2, <4>3
      <4>6. QED
        BY <4>4, <4>5 DEF e
    <3>3. QED
      BY <1>5, <3>1, <3>2 DEF e
  <2>3. Len(snd.queue_sent) <= WINDOW_SIZE
    <3>1. Len(snd.queue_sent) \in Nat
      BY <1>5
    <3>2. QED
      BY <1>1, <2>2, <3>1
  <2>4. Len(Received) + 1 .. sent = {}
    BY <1>2, <1>8
  <2>5. QED
    BY <2>1, <2>2, <2>3, <2>4 DEF SentInv
<1>12. ReceiverInv
  <2> DEFINE f == SentSegments
  <2>1. DOMAIN f = 0 .. 0 /\ f[0] = Accept
    BY <1>2 DEF SentSegments, SegmentAt
  <2>2. Len(Received) + 1 = 1
    BY <1>8
  <2> HIDE DEF f
  <2>3. CASE rcv.lower_bound = SeqOf(1) /\ DOMAIN rcv.segments = {}
    <3>1. Minus(Wrap(start + 1), Wrap(start + 1)) = Wrap(1 - 1)
      BY <1>1, 1 \in Int, CountedNumbers
    <3>2. Lowest = 1
      <4>1. Wrap(0) = 0 /\ 1 - 1 = 0
        BY <1>1, WrapSmall
      <4>2. QED
        BY <1>7, <2>2, <2>3, <3>1, <4>1 DEF Lowest, Span, SeqOf
    <3>3. Represents(rcv, start, 1, 1, f)
      BY <1>1, <1>7, <2>3 DEF Represents, SeqOf
    <3>4. QED
      BY <2>2, <3>2, <3>3 DEF ReceiverInv, f
  <2>4. CASE /\ rcv.lower_bound = SeqOf(0) /\ DOMAIN rcv.segments = {SeqOf(0)}
             /\ rcv.segments[SeqOf(0)] = Accept
    <3>1. Minus(Wrap(start + 1), Wrap(start + 0)) = Wrap(1 - 0)
      BY <1>1, 1 \in Int, 0 \in Int, CountedNumbers
    <3>2. Lowest = 0
      <4>1. Wrap(1) = 1 /\ 1 - 0 = 1
        BY <1>1, WrapSmall
      <4>2. QED
        BY <1>7, <2>2, <2>4, <3>1, <4>1 DEF Lowest, Span, SeqOf
    <3>3. Represents(rcv, start, 1, 0, f)
      <4>1. \A p \in 0 .. 1 - 1 : Present(rcv, Wrap(start + p))
        BY <2>4 DEF Present, SeqOf
      <4>2. \A k \in DOMAIN rcv.segments :
              \E p \in DOMAIN f :
                /\ p >= 0 /\ p - 0 < Modulus
                /\ p # 1 /\ p < 1 + WINDOW_SIZE
                /\ k = Wrap(start + p) /\ rcv.segments[k] = f[p]
        <5>1. 0 \in DOMAIN f
          BY <2>1
        <5>2. /\ 0 >= 0 /\ 0 - 0 < Modulus /\ 0 # 1 /\ 0 < 1 + WINDOW_SIZE
          BY <1>1
        <5>3. QED
          BY <2>1, <2>4, <5>1, <5>2 DEF SeqOf
      <4>3. QED
        BY <1>1, <1>7, <2>4, <4>1, <4>2 DEF Represents, SeqOf
    <3>4. QED
      BY <2>2, <3>2, <3>3 DEF ReceiverInv, f
  <2>5. QED
    BY <1>7, <2>3, <2>4
<1>13. QED
  BY <1>6, <1>9, <1>10, <1>11, <1>12 DEF IInv
=============================================================================
