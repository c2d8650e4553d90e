------------------------ MODULE SlidingWindowTheorems -----------------------
(***************************************************************************)
(* What is proved of SlidingWindow for every window size, every modulus    *)
(* that is at least twice as large, every stream of segments and every     *)
(* behaviour of the network: the inductive invariant, and the properties   *)
(* that follow from it.                                                    *)
(***************************************************************************)
EXTENDS SlidingWindowProofs

-----------------------------------------------------------------------------
(* IInv is inductive *)

\* What write pushes is a segment.
LEMMA WrittenSegment ==
  ASSUME TypeOK, RoomToPush
  PROVE  DataSegment(Stream[Len(log) + 1]) \in SequentialSegment
<1>1. Stream \in Seq(Data) /\ Len(log) \in Nat /\ Len(log) < Len(Stream)
  BY SlidingWindowAssumption DEF RoomToPush, TypeOK
<1>2. Len(log) + 1 \in 1 .. Len(Stream)
  BY <1>1
<1>3. Stream[Len(log) + 1] \in Data
  BY <1>1, <1>2
<1>4. QED
  BY <1>3 DEF SequentialSegment

\* Every call of the applications keeps the invariant.
LEMMA ApplicationInvariant ==
  ASSUME IInv, Application
  PROVE  IInv'
<1>1. TypeOK
  BY DEF IInv
<1>2. finishing \in BOOLEAN /\ sendFinished \subseteq Sides /\ resets \subseteq Sides
  BY <1>1 DEF TypeOK
<1>3. ASSUME NEW side \in Sides PROVE Peer(side) \in Sides
  BY DEF Peer, Sides
<1>4. CASE Write
  <2> DEFINE segment == DataSegment(Stream[Len(log) + 1])
  <2>1. segment \in SequentialSegment
    BY <1>1, <1>4, WrittenSegment DEF Write
  <2>2. /\ snd' = AfterPush(snd, segment) /\ log' = Append(log, segment)
        /\ UNCHANGED << start, finishing, sendFinished, sent, rcvVars,
                        errored, netVars >>
    BY <1>4 DEF Write
  <2> HIDE DEF segment
  <2>3. QED
    BY <1>2, <2>1, <2>2, PushStep
<1>5. CASE FinishPush
  <2>1. Finish \in SequentialSegment
    BY DEF SequentialSegment
  <2>2. /\ snd' = AfterPush(snd, Finish) /\ log' = Append(log, Finish)
        /\ finishing' \in BOOLEAN
        /\ UNCHANGED << start, sendFinished, sent, rcvVars, errored, netVars >>
    BY <1>5 DEF FinishPush
  <2>3. QED
    BY <2>1, <2>2, PushStep
<1>6. CASE FinishPushRefused
  <2>1. /\ Error("snd") /\ resets' \subseteq Sides
        /\ UNCHANGED << start, finishing, sendFinished, log, sent, consumed,
                        data, acks >>
    BY <1>2, <1>6 DEF FinishPushRefused, SendReset, Sides
  <2>2. "snd" \in Sides
    BY DEF Sides
  <2>3. QED
    BY <2>1, <2>2, ErrorStep
<1>7. CASE FinishReturns
  <2>1. /\ finishing' \in BOOLEAN /\ sendFinished' \subseteq Sides
        /\ UNCHANGED << start, snd, rcv, errored, log, sent, consumed,
                        data, acks, resets >>
    BY <1>2, <1>7 DEF FinishReturns, rcvVars, netVars, Sides
  <2>2. QED
    BY <1>2, <2>1, QuietStep
<1>8. CASE Read
  BY <1>8, ReadStep
<1>9. ASSUME NEW side \in Sides, Reset(side)
      PROVE  IInv'
  <2>1. /\ Error(side) /\ resets' \subseteq Sides
        /\ UNCHANGED << start, finishing, sendFinished, log, sent, consumed,
                        data, acks >>
    BY <1>2, <1>3, <1>9 DEF Reset, SendReset
  <2>2. QED
    BY <2>1, ErrorStep
<1>10. QED
  BY <1>4, <1>5, <1>6, <1>7, <1>8, <1>9 DEF Application

\* So does every turn of the streams' threads.
LEMMA ThreadsInvariant ==
  ASSUME IInv, Threads
  PROVE  IInv'
<1>1. CASE ReaderQuits
  <2>1. /\ finishing \in BOOLEAN /\ sendFinished \subseteq Sides
        /\ resets \subseteq Sides
    BY DEF IInv, TypeOK
  <2>2. /\ sendFinished' \subseteq Sides
        /\ UNCHANGED << start, snd, finishing, rcv, errored, log, sent, consumed,
                        data, acks, resets >>
    BY <1>1, <2>1 DEF ReaderQuits, rcvVars, netVars, Sides
  <2>3. QED
    BY <2>1, <2>2, QuietStep
<1>2. QED
  BY <1>1, RetransmitStep, TransmitStep, AckTickStep DEF Threads

\* So does everything the network and the listener threads do.
LEMMA NetworkInvariant ==
  ASSUME IInv, Network
  PROVE  IInv'
<1>1. /\ finishing \in BOOLEAN /\ sendFinished \subseteq Sides
      /\ resets \subseteq Sides
  BY DEF IInv, TypeOK
<1>2. /\ \A side \in Sides : Peer(side) \in Sides
      /\ "snd" \in Sides /\ "rcv" \in Sides
  BY DEF Peer, Sides
<1>3. ASSUME NEW m \in acks, RecvAck(m)
      PROVE  IInv'
  <2>1. CASE ~ AckRejects(snd, m.seq_num)
    BY <1>3, <2>1, RecvAckStep
  <2>2. CASE AckRejects(snd, m.seq_num)
    <3>1. /\ Error("snd") /\ resets' \subseteq Sides /\ acks' \subseteq acks
          /\ UNCHANGED << start, finishing, sendFinished, log, sent, consumed,
                          data >>
      BY <1>1, <1>2, <1>3, <2>2 DEF RecvAck, SendReset, LeavesOrStays
    <3>2. QED
      BY <1>2, <3>1, ErrorStep
  <2>3. QED
    BY <2>1, <2>2
<1>4. ASSUME NEW m \in data, RecvSegment(m)
      PROVE  IInv'
  <2>1. CASE ~ RecvRejects(rcv, m.seq_num, m.variant)
    BY <1>4, <2>1, RecvSegmentStep
  <2>2. CASE RecvRejects(rcv, m.seq_num, m.variant)
    <3>1. /\ Error("rcv") /\ resets' \subseteq Sides /\ data' \subseteq data
          /\ UNCHANGED << start, finishing, sendFinished, log, sent, consumed,
                          acks >>
      BY <1>1, <1>2, <1>4, <2>2 DEF RecvSegment, SendReset, LeavesOrStays
    <3>2. QED
      BY <1>2, <3>1, ErrorStep
  <2>3. QED
    BY <2>1, <2>2
<1>5. ASSUME NEW side \in Sides, RecvReset(side)
      PROVE  IInv'
  <2>1. /\ Error(side) /\ resets' \subseteq Sides
        /\ UNCHANGED << start, finishing, sendFinished, log, sent, consumed,
                        data, acks >>
    BY <1>1, <1>5 DEF RecvReset, LeavesOrStays
  <2>2. QED
    BY <2>1, ErrorStep
<1>6. ASSUME NEW side \in Sides, RecvClosed(side)
      PROVE  IInv'
  <2>1. /\ resets' \subseteq Sides
        /\ UNCHANGED << start, finishing, sendFinished, snd, rcv, errored, log,
                        sent, consumed, data, acks >>
    BY <1>1, <1>2, <1>6 DEF RecvClosed, sndVars, rcvVars
  <2>2. QED
    BY <1>1, <2>1, QuietStep
<1>7. CASE Lose
  <2>1. /\ data' \subseteq data /\ acks' \subseteq acks
        /\ resets' \subseteq Sides
        /\ UNCHANGED << start, finishing, sendFinished, snd, rcv, errored, log,
                        sent, consumed >>
    BY <1>1, <1>7 DEF Lose, sndVars, rcvVars
  <2>2. QED
    BY <1>1, <2>1, QuietStep
<1>8. QED
  BY <1>3, <1>4, <1>5, <1>6, <1>7 DEF Network

LEMMA NextInvariant == IInv /\ [Next]_vars => IInv'
<1> SUFFICES ASSUME IInv, [Next]_vars
             PROVE  IInv'
  OBVIOUS
<1>1. CASE Next
  BY <1>1, ApplicationInvariant, ThreadsInvariant, NetworkInvariant DEF Next
<1>2. CASE UNCHANGED vars
  <2>1. /\ finishing \in BOOLEAN /\ sendFinished \subseteq Sides
        /\ resets \subseteq Sides
    BY DEF IInv, TypeOK
  <2>2. UNCHANGED << start, finishing, sendFinished, snd, rcv, errored, log,
                     sent, consumed, data, acks, resets >>
    BY <1>2 DEF vars, sndVars, rcvVars, netVars
  <2>3. QED
    BY <2>1, <2>2, QuietStep
<1>3. QED
  BY <1>1, <1>2

\* In every state of every behaviour the wrapped numbers in the storages and
\* in the datagrams stand for the counts IInv gives them.
THEOREM Invariance == Spec => []IInv
<1>1. Init => IInv
  BY InitialInvariant
<1>2. IInv /\ [Next]_vars => IInv'
  BY NextInvariant
<1>3. QED
  BY <1>1, <1>2, PTL DEF Spec

\* Every variable of the model keeps its type: sequence numbers stay inside
\* the modulus and the storages keep the shape of their structs.
THEOREM TypeCorrect == Spec => []TypeOK
<1>1. IInv => TypeOK
  BY DEF IInv
<1>2. QED
  BY <1>1, Invariance, PTL

\* The reader gets a prefix of what the writer pushed, in order, however the
\* network loses, repeats and reorders and whenever the streams break.
THEOREM InOrder == Spec => []InOrderDelivery
<1>1. IInv => InOrderDelivery
  BY DEF IInv
<1>2. QED
  BY <1>1, Invariance, PTL

\* What the reader does not have in order yet is still in queue_sent: an
\* acknowledgement drops nothing the peer might still need.
THEOREM NothingDropped == Spec => []UnreceivedIsHeld
<1>1. IInv => UnreceivedIsHeld
  BY DEF IInv, SentInv, UnreceivedIsHeld, EntryAt
<1>2. QED
  BY <1>1, Invariance, PTL

-----------------------------------------------------------------------------
(* Nothing panics *)

\* The assertion of `__try_pop_unsent` holds and `__finished_unchecked` finds
\* the newest sent segment.
LEMMA SenderDoesNotPanic ==
  ASSUME IInv, "snd" \notin errored
  PROVE  ~ PopPanics(snd) /\ ~ PushPanics(snd)
<1>1. /\ TypeOK /\ UnsentInv /\ SentInv
  BY DEF IInv
<1>2. /\ start \in Int /\ sent \in Nat /\ WINDOW_SIZE \in Nat \ {0}
      /\ snd.queue_sent \in Seq(SentSegment)
  BY <1>1, SequenceNumberAssumption DEF TypeOK, SeqNum, SendStorageType
<1>3. ~ PopPanics(snd)
  BY <1>1, <1>2 DEF PopPanics, SentInv
<1>4. ASSUME snd.queue_sent # << >>
      PROVE  NewestSent(snd) # {}
  <2>1. 1 \in DOMAIN snd.queue_sent
    BY <1>2, <1>4
  <2>2. PICK i \in Recent : snd.queue_sent[1] = EntryAt(i)
    BY <1>1, <2>1 DEF SentInv
  <2>3. sent \in Recent /\ i <= sent
    BY <1>2 DEF Recent
  <2>4. Holds(snd.queue_sent, EntryAt(sent))
    BY <1>1, <2>1, <2>2, <2>3 DEF SentInv, Holds
  <2>5. PICK j \in DOMAIN snd.queue_sent : snd.queue_sent[j] = EntryAt(sent)
    BY <2>4 DEF Holds
  <2>6. Minus(Wrap(start + (sent + 1)), 1) = Wrap(start + sent)
    <3> DEFINE n == sent + 1
    <3>1. n \in Int /\ 1 \in Int /\ n - 1 = sent
      BY <1>2
    <3> HIDE DEF n
    <3>2. Minus(Wrap(start + n), 1) = Wrap(start + (n - 1))
      BY <1>2, <3>1, CountedNumbers
    <3>3. Minus(Wrap(start + n), 1) = Wrap(start + sent)
      BY <3>1, <3>2
    <3>4. QED
      BY <3>3 DEF n
  <2>7. Minus(snd.next_unsent, 1) = SeqOf(sent)
    BY <1>1, <2>6 DEF UnsentInv, SeqOf
  <2>8. j \in NewestSent(snd)
    BY <2>5, <2>7 DEF NewestSent, EntryAt
  <2>9. QED
    BY <2>8
<1>5. QED
  BY <1>3, <1>4 DEF PushPanics

\* No assert! or unwrap of the storages of a stream in order can fail,
\* whatever arrives.
THEOREM NeverPanics == Spec => []NoPanic
<1>1. IInv => NoPanic
  <2> SUFFICES ASSUME IInv PROVE NoPanic
    OBVIOUS
  <2>1. ASSUME "rcv" \notin errored, NEW m \in data, Alive(m)
        PROVE  ~ RecvPanics(rcv, m.seq_num, m.variant)
    <3>1. CASE RecvRejects(rcv, m.seq_num, m.variant)
      BY <3>1 DEF RecvPanics
    <3>2. CASE ~ RecvRejects(rcv, m.seq_num, m.variant)
      BY <2>1, <3>2, AcceptedSegment
    <3>3. QED
      BY <3>1, <3>2
  <2>2. QED
    BY <2>1, SenderDoesNotPanic DEF NoPanic
<1>2. QED
  BY <1>1, Invariance, PTL

-----------------------------------------------------------------------------
(* finish_write *)

\* When finish_write returns Ok(()) on a stream that is not in error, FINISH
\* and all that was written before it have reached the peer.
THEOREM FinishIsConfirmed == Spec => FinishConfirmed
<1>1. ASSUME IInv, FinishReturns, "snd" \notin errored
      PROVE  Len(Received) = Len(log)
  <2>1. /\ TypeOK /\ CountInv /\ UnsentInv /\ SentInv
    BY <1>1 DEF IInv
  <2>2. snd.queue_sent = << >> /\ snd.queue_unsent = << >>
    BY <1>1 DEF FinishReturns, IsEmpty
  <2>3. sent \in Nat /\ Len(Received) \in Nat /\ Len(Received) <= sent
    BY <2>1, ReceivedType DEF TypeOK, CountInv
  <2>4. Len(log) = sent
    <3>1. Len(snd.queue_unsent) = 0
      BY <2>2
    <3>2. QED
      BY <2>1, <2>3, <3>1 DEF UnsentInv
  <2>5. ~ (sent \in Len(Received) + 1 .. sent)
    <3>1. ASSUME NEW x PROVE ~ Holds(snd.queue_sent, x)
      BY <2>2 DEF Holds
    <3>2. QED
      BY <2>1, <3>1 DEF SentInv
  <2>6. QED
    BY <2>3, <2>4, <2>5
<1>2. IInv /\ [Next]_vars =>
        [FinishReturns /\ "snd" \notin errored => Len(Received) = Len(log)]_vars
  BY <1>1
<1>3. QED
  BY <1>2, Invariance, PTL DEF Spec, FinishConfirmed

-----------------------------------------------------------------------------
(* One direction of a connection implements a first-in first-out channel.   *)

\* A prefix is determined by its length.
LEMMA PrefixByLength ==
  ASSUME NEW T, NEW l \in Seq(T), NEW r \in Seq(T), Len(r) <= Len(l),
         \A i \in 1 .. Len(r) : r[i] = l[i]
  PROVE  r = SubSeq(l, 1, Len(r)) /\ Len(r) \in 0 .. Len(l)
<1> DEFINE p == SubSeq(l, 1, Len(r))
<1>1. /\ p \in Seq(T) /\ Len(p) = Len(r)
      /\ \A i \in 1 .. Len(r) : p[i] = l[i]
  OBVIOUS
<1> HIDE DEF p
<1>2. p = r
  BY <1>1
<1>3. QED
  BY <1>2 DEF p

\* A step that pushes nothing and takes nothing back from the reader maps to
\* a delivery or to a stutter.
LEMMA DeliveryImplements ==
  ASSUME IInv, IInv', log' = log, Len(Received') >= Len(Received)
  PROVE  [Channel!Next]_(Channel!vars)
<1> DEFINE r == Received
           q == Received'
<1>1. /\ r = SubSeq(log, 1, Len(r)) /\ Len(r) \in 0 .. Len(log)
      /\ q = SubSeq(log, 1, Len(q)) /\ Len(q) \in 0 .. Len(log)
      /\ Len(log) \in Nat /\ Len(q) >= Len(r)
  <2>1. TypeOK /\ TypeOK' /\ log \in Seq(SequentialSegment)
    BY DEF IInv, TypeOK
  <2>2. r \in Seq(SequentialSegment) /\ q \in Seq(SequentialSegment)
    BY <2>1, ReceivedType, NextReceivedType
  <2>3. /\ Len(r) <= Len(log) /\ \A i \in 1 .. Len(r) : r[i] = log[i]
        /\ Len(q) <= Len(log) /\ \A i \in 1 .. Len(q) : q[i] = log[i]
    BY DEF IInv, InOrderDelivery
  <2> HIDE DEF r, q
  <2>4. r = SubSeq(log, 1, Len(r)) /\ Len(r) \in 0 .. Len(log)
    BY <2>1, <2>2, <2>3, PrefixByLength
  <2>5. q = SubSeq(log, 1, Len(q)) /\ Len(q) \in 0 .. Len(log)
    BY <2>1, <2>2, <2>3, PrefixByLength
  <2>6. Len(log) \in Nat /\ Len(q) >= Len(r)
    BY <2>1 DEF r, q
  <2>7. QED
    BY <2>4, <2>5, <2>6
<1> HIDE DEF r, q
<1>2. CASE Len(q) = Len(r)
  <2>1. q = r
    BY <1>1, <1>2
  <2>2. QED
    BY <2>1 DEF Channel!vars, r, q
<1>3. CASE Len(q) # Len(r)
  <2>2. Len(q) \in Len(r) + 1 .. Len(log)
    <3> DEFINE n == Len(q)
               k == Len(r)
    <3>1. n \in 0 .. Len(log) /\ k \in 0 .. Len(log) /\ n >= k /\ n # k
          /\ Len(log) \in Nat
      BY <1>1, <1>3
    <3> HIDE DEF n, k
    <3>2. n \in k + 1 .. Len(log)
      BY <3>1
    <3>3. QED
      BY <3>2 DEF n, k
  <2>3. \E n \in Len(r) + 1 .. Len(log) : q = SubSeq(log, 1, n)
    BY <1>1, <2>2
  <2>4. Channel!Delivering
    BY <2>3 DEF Channel!Delivering, r, q
  <2>5. QED
    BY <2>4 DEF Channel!Next
<1>4. QED
  BY <1>2, <1>3

\* What push has taken comes out of the reader's storage in the same order,
\* nothing lost, repeated or altered in between: every step of the direction
\* is a step of the channel, or none of its business.
THEOREM FifoImplemented == Spec => ImplementsFifo
<1>1. Init => Channel!Init
  <2> SUFFICES ASSUME Init PROVE Channel!Init
    OBVIOUS
  <2>1. IInv /\ log = << >>
    BY InitialInvariant DEF Init
  <2>2. /\ Received \in Seq(SequentialSegment) /\ Len(Received) \in Nat
        /\ Len(Received) <= 0
    BY <2>1, ReceivedType DEF IInv, InOrderDelivery
  <2>3. Received = << >>
    <3> HIDE DEF Received
    <3>1. Len(Received) = 0
      BY <2>2
    <3>2. QED
      BY <2>2, <3>1
  <2>4. QED
    BY <2>1, <2>3 DEF Channel!Init
<1>2. ASSUME IInv, IInv', Next
      PROVE  [Channel!Next]_(Channel!vars)
  <2>1. ASSUME NEW segment \in SequentialSegment,
               log' = Append(log, segment), UNCHANGED rcvVars
        PROVE  [Channel!Next]_(Channel!vars)
    <3>1. Received' = Received
      BY <2>1 DEF Received, rcvVars
    <3>2. Channel!Accepting
      BY <2>1, <3>1 DEF Channel!Accepting
    <3>3. QED
      BY <3>2 DEF Channel!Next
  <2>2. ASSUME log' = log, Received' = Received
        PROVE  [Channel!Next]_(Channel!vars)
    BY <2>2 DEF Channel!vars
  <2>3. ASSUME NEW side \in Sides, Error(side), UNCHANGED << log, consumed >>
        PROVE  [Channel!Next]_(Channel!vars)
    <3>1. rcv'.pop_queue = rcv.pop_queue
      BY <1>2, <2>3 DEF Error, ClearStorage, RecvClear, IInv, TypeOK,
                        IsRecvStorage
    <3>2. QED
      BY <2>2, <2>3, <3>1 DEF Received
  <2>4. "snd" \in Sides /\ "rcv" \in Sides /\ Finish \in SequentialSegment
    BY DEF Sides, SequentialSegment
  <2>5. CASE Write
    <3> DEFINE segment == DataSegment(Stream[Len(log) + 1])
    <3>1. segment \in SequentialSegment
      BY <1>2, <2>5, WrittenSegment DEF IInv, Write
    <3>2. log' = Append(log, segment) /\ UNCHANGED rcvVars
      BY <2>5 DEF Write
    <3> HIDE DEF segment
    <3>3. QED
      BY <2>1, <3>1, <3>2
  <2>6. CASE FinishPush
    BY <2>1, <2>4, <2>6 DEF FinishPush
  <2>7. CASE FinishPushRefused
    BY <2>3, <2>4, <2>7 DEF FinishPushRefused
  <2>8. CASE FinishReturns
    BY <2>2, <2>8 DEF FinishReturns, rcvVars, Received
  <2>9. CASE Read
    <3> DEFINE p == rcv.pop_queue
    <3>1. /\ rcv \in [ segments : {rcv.segments},
                       pop_queue : Seq(SequentialSegment), window : SeqNum,
                       lower_bound : SeqNum, highest : SeqNum,
                       last_ack : SeqNum \cup {None}, urgent_ack : BOOLEAN ]
          /\ p \in Seq(SequentialSegment) /\ p # << >>
          /\ consumed \in Seq(SequentialSegment)
      BY <1>2, <2>9 DEF Read, CanPop, IInv, TypeOK, IsRecvStorage
    <3>2. rcv'.pop_queue = Tail(p)
      BY <2>9, <3>1 DEF Read, AfterPop
    <3>3. consumed' = Append(consumed, Head(p)) /\ log' = log
      BY <2>9 DEF Read, sndVars
    <3> HIDE DEF p
    <3>4. Append(consumed, Head(p)) \o Tail(p) = consumed \o p
      BY <3>1, MovedHead
    <3>5. Received' = Received
      BY <3>2, <3>3, <3>4 DEF Received, p
    <3>6. QED
      BY <2>2, <3>3, <3>5
  <2>10. ASSUME NEW side \in Sides, Reset(side)
         PROVE  [Channel!Next]_(Channel!vars)
    BY <2>3, <2>10 DEF Reset
  <2>11. CASE Threads
    <3>1. CASE Retransmit \/ Transmit
      BY <2>2, <3>1 DEF Retransmit, Transmit, rcvVars, Received
    <3>2. ASSUME NEW elapsed \in BOOLEAN, AckTick(elapsed)
          PROVE  [Channel!Next]_(Channel!vars)
      <4>1. rcv'.pop_queue = rcv.pop_queue
        BY <1>2, <3>2, PopAcknowledgeFields DEF AckTick, IInv, TypeOK
      <4>2. consumed' = consumed /\ log' = log
        BY <3>2 DEF AckTick, sndVars
      <4>3. QED
        BY <2>2, <4>1, <4>2 DEF Received
    <3>3. CASE ReaderQuits
      BY <2>2, <3>3 DEF ReaderQuits, rcvVars, Received
    <3>4. QED
      BY <2>11, <3>1, <3>2, <3>3 DEF Threads
  <2>12. ASSUME NEW m \in acks, RecvAck(m)
         PROVE  [Channel!Next]_(Channel!vars)
    <3>1. CASE AckRejects(snd, m.seq_num)
      BY <2>3, <2>4, <2>12, <3>1 DEF RecvAck
    <3>2. CASE ~ AckRejects(snd, m.seq_num)
      BY <2>2, <2>12, <3>2 DEF RecvAck, Received
    <3>3. QED
      BY <3>1, <3>2
  <2>13. ASSUME NEW m \in data, RecvSegment(m)
         PROVE  [Channel!Next]_(Channel!vars)
    <3>1. CASE RecvRejects(rcv, m.seq_num, m.variant)
      BY <2>3, <2>4, <2>13, <3>1 DEF RecvSegment
    <3>2. CASE ~ RecvRejects(rcv, m.seq_num, m.variant)
      <4>1. Len(Received') >= Len(Received) /\ log' = log
        BY <1>2, <2>13, <3>2, RecvSegmentStep DEF RecvSegment
      <4>2. QED
        BY <1>2, <4>1, DeliveryImplements
    <3>3. QED
      BY <3>1, <3>2
  <2>14. ASSUME NEW side \in Sides, RecvReset(side)
         PROVE  [Channel!Next]_(Channel!vars)
    BY <2>3, <2>14 DEF RecvReset
  <2>15. ASSUME NEW side \in Sides, RecvClosed(side)
         PROVE  [Channel!Next]_(Channel!vars)
    BY <2>2, <2>15 DEF RecvClosed, sndVars, rcvVars, Received
  <2>16. CASE Lose
    BY <2>2, <2>16 DEF Lose, sndVars, rcvVars, Received
  <2>17. QED
    BY <1>2, <2>5, <2>6, <2>7, <2>8, <2>9, <2>10, <2>11, <2>12, <2>13, <2>14,
       <2>15, <2>16 DEF Next, Application, Network
<1>3. UNCHANGED vars => UNCHANGED Channel!vars
  BY DEF vars, sndVars, rcvVars, Channel!vars, Received
<1>4. IInv /\ IInv' /\ [Next]_vars => [Channel!Next]_(Channel!vars)
  BY <1>2, <1>3
<1>5. QED
  BY <1>1, <1>4, Invariance, PTL DEF Spec, ImplementsFifo, Channel!Spec

-----------------------------------------------------------------------------
(* What is never late breaks nothing                                        *)

\* While nothing is broken, no RESET is about.  lower_bound is at most
\* WINDOW_SIZE behind the window, and while it is less nothing has been sent
\* that is below it.
PromptInv ==
  errored = {} =>
    /\ resets = {}
    /\ Span <= WINDOW_SIZE
    /\ Span < WINDOW_SIZE =>
         /\ \A m \in data : Lowest <= m.idx
         /\ \A i \in Recent : Holds(snd.queue_sent, EntryAt(i)) => Lowest <= i

LEMMA Bounds ==
  ASSUME IInv, errored = {}
  PROVE  /\ TypeOK /\ CountInv /\ UnsentInv /\ SentInv /\ NetworkInv /\ ReceiverInv
         /\ start \in Int /\ sent \in Nat /\ Len(Received) \in Nat
         /\ Lowest \in 0 .. Len(Received) + 1 /\ Span = Len(Received) + 1 - Lowest
         /\ Span \in 0 .. Modulus - 1
         /\ WINDOW_SIZE \in Nat \ {0} /\ Modulus \in Nat /\ Modulus >= 2 * WINDOW_SIZE
<1>1. /\ TypeOK /\ CountInv /\ UnsentInv /\ SentInv /\ NetworkInv /\ ReceiverInv
  BY DEF IInv
<1>2. /\ start \in Int /\ sent \in Nat /\ Len(Received) \in Nat
      /\ WINDOW_SIZE \in Nat \ {0} /\ Modulus \in Nat /\ Modulus >= 2 * WINDOW_SIZE
  BY <1>1, SequenceNumberAssumption, ReceivedType DEF TypeOK, SeqNum
<1>3. Lowest \in 0 .. Len(Received) + 1 /\ Len(Received) + 1 - Lowest < Modulus
  BY <1>1 DEF ReceiverInv, Represents
<1>4. Span \in Int
  <2>1. rcv.window \in Int /\ rcv.lower_bound \in Int
    BY <1>1, <1>2 DEF TypeOK, IsRecvStorage, SeqNum
  <2>2. Minus(rcv.window, rcv.lower_bound) \in SeqNum
    BY <2>1, ResultsAreSequenceNumbers
  <2>3. QED
    BY <1>2, <2>2 DEF Span, SeqNum
<1>5. Span = Len(Received) + 1 - Lowest
  BY <1>2, <1>4 DEF Lowest
<1>6. Span \in 0 .. Modulus - 1
  BY <1>2, <1>3, <1>5
<1>7. QED
  BY <1>1, <1>2, <1>3, <1>5, <1>6

\* The reader lacks less than a window.
LEMMA LessThanWindow ==
  ASSUME IInv, errored = {}, Prompt
  PROVE  sent < Len(Received) + WINDOW_SIZE
<1>1. /\ TypeOK /\ CountInv /\ SentInv
      /\ sent \in Nat /\ Len(Received) \in Nat
      /\ WINDOW_SIZE \in Nat \ {0} /\ Modulus \in Nat /\ Modulus >= 2 * WINDOW_SIZE
  BY Bounds
<1> DEFINE a == Len(Received) + 1
<1>2. a \in Int /\ sent \in Int /\ sent - a < Modulus
  BY <1>1 DEF CountInv
<1>3. \A i \in a .. sent : Holds(snd.queue_sent, EntryAt(i))
  BY <1>1 DEF SentInv
<1>4. snd.queue_sent \in Seq(SentSegment) /\ Len(snd.queue_sent) < WINDOW_SIZE
  BY <1>1 DEF TypeOK, SendStorageType, Prompt
<1> HIDE DEF a
<1>5. sent - a < Len(snd.queue_sent) \/ sent < a
  BY <1>1, <1>2, <1>3, HeldRun
<1>6. Len(snd.queue_sent) \in Nat
  BY <1>4
<1>7. QED
  BY <1>1, <1>4, <1>5, <1>6 DEF a

LEMMA AcknowledgementIsTaken ==
  ASSUME IInv, errored = {}, Prompt, NEW m \in acks, Alive(m)
  PROVE  ~ AckRejects(snd, m.seq_num)
<1>1. /\ TypeOK /\ CountInv /\ UnsentInv /\ NetworkInv
      /\ sent \in Nat /\ Len(Received) \in Nat
      /\ WINDOW_SIZE \in Nat \ {0} /\ Modulus \in Nat /\ Modulus >= 2 * WINDOW_SIZE
  BY Bounds
<1> DEFINE i == m.idx
<1>2. i \in Nat /\ m.seq_num = SeqOf(i) /\ i <= Len(Received)
  BY <1>1 DEF NetworkInv, TypeOK, AckMessage
<1>3. sent - i < WINDOW_SIZE - 1
  BY DEF Prompt
<1> HIDE DEF i
<1>4. i \in Int /\ i <= sent /\ sent - i < Modulus - 1
  BY <1>1, <1>2, <1>3 DEF CountInv
<1>5. Minus(snd.next_unsent, m.seq_num) = sent + 1 - i
  BY <1>1, <1>2, <1>4, RecentNumbers DEF UnsentInv
<1>6. QED
  BY <1>1, <1>3, <1>4, <1>5 DEF AckRejects

LEMMA SegmentIsTaken ==
  ASSUME Modulus > 2 * WINDOW_SIZE, IInv, PromptInv, errored = {}, Prompt,
         NEW m \in data, Alive(m)
  PROVE  ~ RecvRejects(rcv, m.seq_num, m.variant)
<1> DEFINE w == Len(Received) + 1
           l == Lowest
           i == m.idx
           s == m.seq_num
           x == w + WINDOW_SIZE
<1>1. /\ TypeOK /\ CountInv /\ NetworkInv
      /\ start \in Int /\ sent \in Nat /\ w \in Nat /\ l \in 0 .. w
      /\ Span = w - l /\ Span <= WINDOW_SIZE
      /\ WINDOW_SIZE \in Nat \ {0} /\ Modulus \in Nat
  BY Bounds DEF PromptInv
<1>2. Represents(rcv, start, w, l, SentSegments)
  BY Bounds DEF ReceiverInv
<1>3. /\ i \in Nat /\ i <= sent /\ s = Wrap(start + i) /\ m.variant = SegmentAt(i)
      /\ sent - i < WINDOW_SIZE /\ (Span < WINDOW_SIZE => l <= i)
  BY <1>1 DEF NetworkInv, TypeOK, DataMessage, SeqOf, Prompt, PromptInv
<1>4. w <= sent + 1 /\ sent < x
  BY <1>1 DEF CountInv
<1> HIDE DEF w, l, i, s
<1>5. l <= i /\ i < x /\ x - l < Modulus
  BY <1>1, <1>3, <1>4
<1>6. ValidSeqNum(rcv, s)
  <2>1. rcv.window = Wrap(start + w) /\ rcv.lower_bound = Wrap(start + l)
    BY <1>2 DEF Represents
  <2>2. w \in Int /\ l \in Int /\ i \in Int /\ WINDOW_SIZE \in Int
    BY <1>1, <1>3
  <2>3. Plus(Wrap(start + w), WINDOW_SIZE) = Wrap(start + (w + WINDOW_SIZE))
    BY <1>1, <2>2, CountedNumbers
  <2>4. Plus(rcv.window, WINDOW_SIZE) = Wrap(start + x) /\ x \in Int
    BY <2>1, <2>2, <2>3
  <2> HIDE DEF x
  <2>5. Minus(Wrap(start + x), Wrap(start + l)) = Wrap(x - l)
    BY <1>1, <2>2, <2>4, CountedNumbers
  <2>6. Minus(Wrap(start + i), Wrap(start + l)) = Wrap(i - l)
    BY <1>1, <2>2, CountedNumbers
  <2>7. i - l \in 0 .. Modulus - 1 /\ x - l \in 0 .. Modulus - 1
    BY <1>1, <1>5, <2>2, <2>4
  <2>8. Wrap(x - l) = x - l /\ Wrap(i - l) = i - l
    <3> DEFINE c == x - l
               d == i - l
    <3>1. c \in 0 .. Modulus - 1 /\ d \in 0 .. Modulus - 1 /\ c \in Int /\ d \in Int
      BY <2>7
    <3> HIDE DEF c, d
    <3>2. Wrap(c) = c /\ Wrap(d) = d
      BY <3>1, WrapSmall
    <3>3. QED
      BY <3>2 DEF c, d
  <2>9. i - l < x - l
    BY <1>1, <1>5, <2>2, <2>4
  <2>10. QED
    BY <1>3, <2>1, <2>4, <2>5, <2>6, <2>8, <2>9 DEF ValidSeqNum
<1>7. Present(rcv, s) => IsDuplicate(rcv, s, m.variant)
  <2> SUFFICES ASSUME Present(rcv, s) PROVE rcv.segments[s] = m.variant
    BY DEF IsDuplicate
  <2>1. PICK p \in DOMAIN SentSegments :
          /\ p >= l /\ p < x /\ s = Wrap(start + p)
          /\ rcv.segments[s] = SentSegments[p]
    BY <1>2 DEF Represents, Present
  <2>2. p \in 0 .. sent /\ SentSegments[p] = SegmentAt(p)
    BY <2>1 DEF SentSegments
  <2>3. SeqOf(i) = SeqOf(p)
    BY <1>3, <2>1 DEF SeqOf
  <2>4. i \in Int /\ p \in Int /\ i - p < Modulus /\ p - i < Modulus
    BY <1>1, <1>3, <1>5, <2>1, <2>2
  <2>5. i = p
    BY <1>1, <2>3, <2>4, DifferentNumbers
  <2>6. QED
    BY <1>3, <2>1, <2>2, <2>5
<1>8. QED
  BY <1>6, <1>7 DEF RecvRejects, s

\* What a step must not do, while nothing is broken, for PromptInv to stay.
LEMMA PromptKept ==
  ASSUME IInv, IInv', PromptInv, errored = {}, errored' = {}, resets' = {},
         Span' = Span, Lowest' = Lowest, start' = start, sent' >= sent,
         \A i \in 0 .. sent : SegmentAt(i)' = SegmentAt(i),
         \A m \in data' : m \in data \/ (Span < WINDOW_SIZE => Lowest <= m.idx),
         \A i \in Recent' : Holds(snd'.queue_sent, EntryAt(i)') =>
           i > sent \/ (i \in Recent /\ Holds(snd.queue_sent, EntryAt(i)))
  PROVE  PromptInv'
<1>1. /\ sent \in Nat /\ sent' \in Nat /\ WINDOW_SIZE \in Nat
      /\ Len(Received) <= sent /\ Lowest \in 0 .. Len(Received) + 1
      /\ Len(Received) \in Nat
  BY Bounds DEF IInv, TypeOK, CountInv
<1>2. Span' <= WINDOW_SIZE
  BY DEF PromptInv
<1>3. ASSUME Span < WINDOW_SIZE, NEW m \in data' PROVE Lowest <= m.idx
  BY <1>3 DEF PromptInv
<1>4. ASSUME Span < WINDOW_SIZE, NEW i \in Recent', Holds(snd'.queue_sent, EntryAt(i)')
      PROVE  Lowest <= i
  <2>1. CASE i > sent
    <3>1. i \in Int
      BY DEF Recent
    <3>2. QED
      BY <1>1, <2>1, <3>1
  <2>2. CASE i \in Recent /\ Holds(snd.queue_sent, EntryAt(i))
    BY <1>4, <2>2 DEF PromptInv
  <2>3. QED
    BY <1>4, <2>1, <2>2
<1>5. QED
  BY <1>2, <1>3, <1>4 DEF PromptInv

\* The steps that leave the reader's window and lower_bound, and only take
\* things out of queue_sent and the network.
LEMMA PromptQuiet ==
  ASSUME IInv, IInv', PromptInv, errored = {}, errored' = {}, resets' = {},
         rcv'.window = rcv.window, rcv'.lower_bound = rcv.lower_bound,
         Len(Received') = Len(Received),
         UNCHANGED << start, sent >>,
         \A i \in 0 .. sent : SegmentAt(i)' = SegmentAt(i),
         data' \subseteq data,
         \A x : Holds(snd'.queue_sent, x) => Holds(snd.queue_sent, x)
  PROVE  PromptInv'
<1>1. Span' = Span /\ Lowest' = Lowest /\ Recent' = Recent
  BY DEF Lowest, Span, Recent
<1>2. sent \in Nat /\ sent' >= sent /\ Recent \subseteq 0 .. sent
  BY DEF IInv, TypeOK, Recent
<1>3. \A i \in 0 .. sent : EntryAt(i)' = EntryAt(i)
  BY DEF EntryAt, SeqOf
<1>4. \A i \in Recent' : Holds(snd'.queue_sent, EntryAt(i)') =>
        i \in Recent /\ Holds(snd.queue_sent, EntryAt(i))
  BY <1>1, <1>2, <1>3
<1>5. QED
  BY <1>1, <1>2, <1>4, PromptKept

\* A slide of less than a window leaves lower_bound where it was, or
\* WINDOW_SIZE behind the window.
LEMMA PromptSlide ==
  ASSUME IInv, IInv', PromptInv, Prompt, errored = {}, errored' = {}, resets' = {},
         Len(Received') >= Len(Received),
         Lowest' = LowerBound(Len(Received) + 1, Lowest, Len(Received') + 1),
         UNCHANGED << start, sent, snd, log >>, data' \subseteq data
  PROVE  PromptInv'
<1> DEFINE w == Len(Received) + 1
           v == Len(Received') + 1
           l == Lowest
           h == Lowest'
<1>1. /\ w \in Nat /\ l \in 0 .. w /\ Span = w - l /\ Span <= WINDOW_SIZE
      /\ WINDOW_SIZE \in Nat \ {0} /\ sent \in Nat /\ sent + 1 < w + WINDOW_SIZE
  <2>1. /\ l \in 0 .. Len(Received) + 1 /\ Span = Len(Received) + 1 - l
        /\ Len(Received) \in Nat /\ WINDOW_SIZE \in Nat \ {0} /\ sent \in Nat
    BY Bounds
  <2>2. Span <= WINDOW_SIZE
    BY DEF PromptInv
  <2>3. sent < Len(Received) + WINDOW_SIZE
    BY LessThanWindow
  <2> HIDE DEF l
  <2>4. QED
    BY <2>1, <2>2, <2>3
<1>2. /\ v \in Nat /\ h \in 0 .. v /\ v <= sent + 1
  <2>1. TypeOK' /\ CountInv' /\ ReceiverInv'
    BY DEF IInv
  <2>2. Len(Received') \in Nat /\ Len(Received') <= sent
    BY <2>1, NextReceivedType DEF CountInv
  <2>3. h \in 0 .. v
    BY <2>1 DEF ReceiverInv, Represents
  <2>4. QED
    BY <1>1, <2>2, <2>3
<1>3. v \in Int /\ Span' = v - h
  <2>1. rcv'.window = Wrap(start + v) /\ rcv'.lower_bound = Wrap(start + h) /\ v - h < Modulus
    BY DEF IInv, ReceiverInv, Represents
  <2>0. start \in Int /\ Modulus \in Nat
    BY Bounds
  <2> HIDE DEF v, h
  <2>2. start \in Int /\ h \in Int /\ v \in Int /\ Modulus \in Nat /\ v - h \in 0 .. Modulus - 1
    BY <1>2, <2>0, <2>1
  <2>3. Minus(Wrap(start + v), Wrap(start + h)) = Wrap(v - h)
    BY <2>2, CountedNumbers
  <2>4. Wrap(v - h) = v - h
    <3> DEFINE d == v - h
    <3>1. d \in 0 .. Modulus - 1 /\ d \in Int
      BY <2>2
    <3> HIDE DEF d
    <3>2. Wrap(d) = d
      BY <3>1, WrapSmall
    <3>3. QED
      BY <3>2 DEF d
  <2>5. QED
    BY <2>1, <2>2, <2>3, <2>4 DEF Span
<1>4. h = LowerBound(w, l, v) /\ v >= w
  BY <1>1, <1>2
<1> HIDE DEF w, v, l, h
<1>5. \/ v - h = WINDOW_SIZE
      \/ v - h < WINDOW_SIZE /\ h = l /\ Span < WINDOW_SIZE
  BY <1>1, <1>2, <1>4 DEF LowerBound
<1>6. CASE v - h = WINDOW_SIZE
  BY <1>1, <1>3, <1>6 DEF PromptInv
<1>7. CASE v - h < WINDOW_SIZE /\ h = l /\ Span < WINDOW_SIZE
  <2>1. \A i : EntryAt(i)' = EntryAt(i)
    BY DEF EntryAt, SeqOf, SegmentAt
  <2>2. Recent' = Recent /\ snd' = snd
    BY DEF Recent
  <2>3. Lowest' = Lowest
    BY <1>7 DEF h, l
  <2>4. QED
    BY <1>1, <1>3, <1>7, <2>1, <2>2, <2>3 DEF PromptInv
<1>8. QED
  BY <1>5, <1>6, <1>7

\* push, from whichever call.
LEMMA PromptPush ==
  ASSUME IInv, IInv', PromptInv, errored = {}, NEW segment \in SequentialSegment,
         snd' = AfterPush(snd, segment), log' = Append(log, segment),
         UNCHANGED << start, sent, rcvVars, errored, netVars >>
  PROVE  PromptInv'
<1>1. /\ snd \in SendStorageType /\ log \in Seq(SequentialSegment)
      /\ sent \in Nat /\ sent <= Len(log) /\ resets = {}
  BY DEF IInv, TypeOK, CountInv, PromptInv
<1>2. snd'.queue_sent = snd.queue_sent
  BY <1>1, PushFields
<1>3. \A i \in 0 .. sent : SegmentAt(i)' = SegmentAt(i)
  <2>1. \A i \in 1 .. Len(log) : Append(log, segment)[i] = log[i]
    BY <1>1
  <2>2. QED
    BY <1>1, <2>1 DEF SegmentAt
<1>4. /\ rcv' = rcv /\ Received' = Received /\ data' = data /\ resets' = {}
      /\ errored' = {} /\ start' = start /\ sent' = sent
  BY <1>1 DEF rcvVars, netVars, Received
<1>5. QED
  BY <1>2, <1>3, <1>4, PromptQuiet

\* What is sent again is held, and so not below lower_bound.
LEMMA PromptRetransmit ==
  ASSUME IInv, IInv', PromptInv, errored = {}, Retransmit
  PROVE  PromptInv'
<1> DEFINE entry == PoppedSegment(snd, TRUE)
           m == MessageOf(entry)
<1>1. /\ TypeOK /\ UnsentInv /\ SentInv /\ sent \in Nat /\ resets = {}
      /\ snd \in SendStorageType
  BY Bounds DEF PromptInv, TypeOK
<1>2. /\ snd.queue_sent # << >> /\ data' = data \cup {m}
      /\ snd' = AfterPopSegment(snd, TRUE)
      /\ rcv' = rcv /\ consumed' = consumed /\ start' = start /\ sent' = sent
      /\ log' = log /\ errored' = {} /\ resets' = {}
  BY <1>1 DEF Retransmit, RetransmitIsDue, rcvVars
<1>3. /\ Holds(snd.queue_sent, entry)
      /\ \A x : Holds(snd'.queue_sent, x) <=> Holds(snd.queue_sent, x)
  BY <1>1, <1>2, RotateFields
<1> HIDE DEF entry
<1>4. PICK i \in Recent : entry = EntryAt(i) /\ m.idx = i
  BY <1>1, <1>3, MessageCount
<1> HIDE DEF m
<1>5. Span < WINDOW_SIZE => Lowest <= m.idx
  BY <1>3, <1>4 DEF PromptInv
<1>6. /\ Span' = Span /\ Lowest' = Lowest /\ Recent' = Recent
      /\ \A k : SegmentAt(k)' = SegmentAt(k) /\ EntryAt(k)' = EntryAt(k)
  BY <1>2 DEF Span, Lowest, Received, Recent, SegmentAt, EntryAt, SeqOf
<1>7. \A k \in data' : k \in data \/ (Span < WINDOW_SIZE => Lowest <= k.idx)
  BY <1>2, <1>5
<1>8. \A k \in Recent' : Holds(snd'.queue_sent, EntryAt(k)') =>
        k \in Recent /\ Holds(snd.queue_sent, EntryAt(k))
  BY <1>3, <1>6
<1>9. sent' >= sent
  BY <1>1, <1>2
<1>10. QED
  BY <1>2, <1>6, <1>7, <1>8, <1>9, PromptKept

\* What is sent for the first time is not below the window.
LEMMA PromptTransmit ==
  ASSUME IInv, IInv', PromptInv, errored = {}, Transmit
  PROVE  PromptInv'
<1> DEFINE entry == [ seq_num |-> snd.next_unsent,
                      variant |-> Head(snd.queue_unsent) ]
           m == [ idx     |-> sent + 1,
                  seq_num |-> PoppedSegment(snd, FALSE).seq_num,
                  variant |-> PoppedSegment(snd, FALSE).variant ]
<1>1. /\ TypeOK /\ UnsentInv /\ SentInv /\ CountInv /\ sent \in Nat /\ resets = {}
      /\ snd \in SendStorageType /\ snd.queue_sent \in Seq(SentSegment)
      /\ Len(Received) \in Nat /\ Lowest \in 0 .. Len(Received) + 1
      /\ WINDOW_SIZE \in Nat \ {0} /\ Modulus \in Nat /\ Modulus >= 2 * WINDOW_SIZE
  BY Bounds DEF PromptInv, TypeOK, SendStorageType
<1>2. /\ snd.queue_unsent # << >> /\ data' = data \cup {m}
      /\ snd' = AfterPopSegment(snd, FALSE)
      /\ rcv' = rcv /\ consumed' = consumed /\ start' = start /\ sent' = sent + 1
      /\ log' = log /\ errored' = {} /\ resets' = {}
  BY <1>1 DEF Transmit, CanPopUnsent, rcvVars
<1>3. /\ snd'.queue_sent = Append(snd.queue_sent, entry)
      /\ entry \in SentSegment
  BY <1>1, <1>2, TransmitFields
<1>4. m.idx = sent + 1 /\ entry.seq_num = SeqOf(sent + 1)
  BY <1>1 DEF UnsentInv
<1> HIDE DEF entry, m
<1>5. Lowest <= m.idx
  BY <1>1, <1>4 DEF CountInv
<1>6. /\ Span' = Span /\ Lowest' = Lowest
      /\ \A k : SegmentAt(k)' = SegmentAt(k) /\ EntryAt(k)' = EntryAt(k)
  BY <1>2 DEF Span, Lowest, Received, SegmentAt, EntryAt, SeqOf
<1>7. \A k \in data' : k \in data \/ (Span < WINDOW_SIZE => Lowest <= k.idx)
  BY <1>2, <1>5
<1>8. \A k \in Recent' : k \in 0 .. sent + 1 /\ k > sent + 1 - WINDOW_SIZE
  <2>1. sent' = sent + 1
    BY <1>2
  <2>2. Recent' = {i \in 0 .. sent' : i > sent' - WINDOW_SIZE}
    BY DEF Recent
  <2>3. QED
    BY <1>1, <2>1, <2>2
<1>9. ASSUME NEW k \in Recent', Holds(snd'.queue_sent, EntryAt(k)')
      PROVE  k > sent \/ (k \in Recent /\ Holds(snd.queue_sent, EntryAt(k)))
  <2>1. k \in 0 .. sent + 1 /\ k > sent + 1 - WINDOW_SIZE
    BY <1>8, <1>9
  <2>2. SUFFICES ASSUME k <= sent
                 PROVE  k \in Recent /\ Holds(snd.queue_sent, EntryAt(k))
    BY <1>1, <2>1
  <2>3. k \in Recent
    BY <1>1, <2>1, <2>2 DEF Recent
  <2>4. EntryAt(k) # entry
    <3>1. ASSUME SeqOf(k) = SeqOf(sent + 1) PROVE FALSE
      <4>1. k \in Int /\ sent + 1 \in Int
            /\ k - (sent + 1) < Modulus /\ (sent + 1) - k < Modulus
        BY <1>1, <2>1, <2>2
      <4>2. k = sent + 1
        BY <1>1, <3>1, <4>1, DifferentNumbers
      <4>3. QED
        BY <1>1, <2>1, <2>2, <4>2
    <3>2. QED
      BY <1>4, <3>1 DEF EntryAt
  <2>5. Holds(snd'.queue_sent, EntryAt(k))
    BY <1>6, <1>9
  <2>6. QED
    BY <1>1, <1>3, <2>3, <2>4, <2>5, AppendElements
<1>10. sent' >= sent
  BY <1>1, <1>2
<1>11. QED
  BY <1>2, <1>6, <1>7, <1>9, <1>10, PromptKept

\* A stream in error stays so.
LEMMA ErrorsStay ==
  ASSUME [Next]_vars
  PROVE  errored \subseteq errored'
<1>1. ASSUME NEW side, Error(side) PROVE errored \subseteq errored'
  BY <1>1 DEF Error
<1>2. CASE Application
  BY <1>1, <1>2 DEF Application, Write, FinishPush, FinishPushRefused,
                    FinishReturns, Read, Reset
<1>3. CASE Threads
  BY <1>3 DEF Threads, Retransmit, Transmit, AckTick, ReaderQuits
<1>4. ASSUME NEW m, RecvAck(m) \/ RecvSegment(m) PROVE errored \subseteq errored'
  BY <1>1, <1>4 DEF RecvAck, RecvSegment
<1>5. ASSUME NEW side \in Sides, RecvReset(side) \/ RecvClosed(side)
      PROVE  errored \subseteq errored'
  BY <1>1, <1>5 DEF RecvReset, RecvClosed
<1>6. CASE Lose \/ UNCHANGED vars
  BY <1>6 DEF Lose, vars
<1>7. QED
  BY <1>2, <1>3, <1>4, <1>5, <1>6 DEF Next, Network

\* Every step from a prompt state keeps PromptInv.
LEMMA PromptStep ==
  ASSUME IInv, PromptInv, Prompt, [Next]_vars
  PROVE  PromptInv'
<1> SUFFICES ASSUME errored' = {} PROVE PromptInv'
  BY DEF PromptInv
<1>1. IInv'
  BY NextInvariant
<1>2. errored = {}
  BY ErrorsStay
<1>3. /\ resets = {} /\ sent \in Nat /\ TypeOK
      /\ log \in Seq(SequentialSegment)
  BY <1>2 DEF PromptInv, IInv, TypeOK
<1>4. ASSUME NEW side, Error(side) PROVE FALSE
  BY <1>4 DEF Error
<1>5. CASE Write
  <2> DEFINE segment == DataSegment(Stream[Len(log) + 1])
  <2>1. segment \in SequentialSegment
    BY <1>3, <1>5, WrittenSegment DEF Write
  <2>2. /\ snd' = AfterPush(snd, segment) /\ log' = Append(log, segment)
        /\ UNCHANGED << start, sent, rcvVars, errored, netVars >>
    BY <1>5 DEF Write
  <2> HIDE DEF segment
  <2>3. QED
    BY <1>1, <1>2, <2>1, <2>2, PromptPush
<1>6. CASE FinishPush
  <2>1. Finish \in SequentialSegment
    BY DEF SequentialSegment
  <2>2. /\ snd' = AfterPush(snd, Finish) /\ log' = Append(log, Finish)
        /\ UNCHANGED << start, sent, rcvVars, errored, netVars >>
    BY <1>6 DEF FinishPush
  <2>3. QED
    BY <1>1, <1>2, <2>1, <2>2, PromptPush
<1>7. ASSUME rcv'.window = rcv.window, rcv'.lower_bound = rcv.lower_bound,
             Len(Received') = Len(Received), UNCHANGED << start, sent, snd, log >>,
             data' \subseteq data, resets' = {}
      PROVE  PromptInv'
  <2>1. /\ \A i : SegmentAt(i)' = SegmentAt(i)
        /\ \A x : Holds(snd'.queue_sent, x) => Holds(snd.queue_sent, x)
    BY <1>7 DEF SegmentAt
  <2>2. QED
    BY <1>1, <1>2, <1>7, <2>1, PromptQuiet
<1>8. ASSUME UNCHANGED << start, sent, snd, log, rcv, consumed >>,
             data' \subseteq data, resets' = {}
      PROVE  PromptInv'
  BY <1>7, <1>8 DEF Received
<1>9. CASE FinishReturns \/ ReaderQuits
  BY <1>3, <1>8, <1>9 DEF FinishReturns, ReaderQuits, rcvVars, netVars
<1>10. CASE Read
  <2>1. /\ rcv'.window = rcv.window /\ rcv'.lower_bound = rcv.lower_bound
    BY <1>3, <1>10, PopFields DEF Read, TypeOK
  <2>2. Received' = Received
    <3> DEFINE p == rcv.pop_queue
    <3>1. /\ IsRecvStorage(rcv) /\ p \in Seq(SequentialSegment) /\ p # << >>
          /\ consumed \in Seq(SequentialSegment)
      BY <1>3, <1>10 DEF Read, CanPop, TypeOK, IsRecvStorage
    <3>2. rcv'.pop_queue = Tail(p)
      BY <1>10, <3>1, PopFields DEF Read
    <3>3. consumed' = Append(consumed, Head(p))
      BY <1>10 DEF Read
    <3> HIDE DEF p
    <3>4. Append(consumed, Head(p)) \o Tail(p) = consumed \o p
      BY <3>1, MovedHead
    <3>5. QED
      BY <3>2, <3>3, <3>4 DEF Received, p
  <2>3. /\ UNCHANGED << start, sent, snd, log >> /\ data' = data /\ resets' = {}
    BY <1>3, <1>10 DEF Read, sndVars, netVars
  <2>4. QED
    BY <1>7, <2>1, <2>2, <2>3
<1>11. ASSUME NEW elapsed \in BOOLEAN, AckTick(elapsed)
       PROVE  PromptInv'
  <2>1. /\ rcv'.pop_queue = rcv.pop_queue /\ rcv'.window = rcv.window
        /\ rcv'.lower_bound = rcv.lower_bound
    BY <1>3, <1>11, PopAcknowledgeFields DEF AckTick, TypeOK
  <2>2. /\ UNCHANGED << start, sent, snd, log, consumed >> /\ data' = data
        /\ resets' = {}
    BY <1>3, <1>11 DEF AckTick, sndVars
  <2>3. QED
    BY <1>7, <2>1, <2>2 DEF Received
<1>12. ASSUME NEW m \in acks, RecvAck(m)
       PROVE  PromptInv'
  <2>1. /\ snd' = AfterAcknowledge(snd, m.seq_num)
        /\ UNCHANGED << start, rcv, consumed, log, sent, data, resets >>
    BY <1>4, <1>12 DEF RecvAck
  <2>2. \A x : Holds(snd'.queue_sent, x) => Holds(snd.queue_sent, x)
    BY <1>3, <2>1, AcknowledgeFields DEF TypeOK
  <2>3. Received' = Received /\ \A i : SegmentAt(i)' = SegmentAt(i)
    BY <2>1 DEF Received, SegmentAt
  <2>4. QED
    BY <1>1, <1>2, <1>3, <2>1, <2>2, <2>3, PromptQuiet
<1>13. ASSUME NEW m \in data, RecvSegment(m)
       PROVE  PromptInv'
  <2>1. /\ ~ RecvRejects(rcv, m.seq_num, m.variant)
        /\ UNCHANGED << start, sent, snd, log, resets >> /\ data' \subseteq data
    BY <1>4, <1>13 DEF RecvSegment, LeavesOrStays
  <2>2. /\ Len(Received') >= Len(Received)
        /\ Lowest' = LowerBound(Len(Received) + 1, Lowest, Len(Received') + 1)
    BY <1>13, <2>1, RecvSegmentStep
  <2>3. QED
    BY <1>1, <1>2, <1>3, <2>1, <2>2, PromptSlide
<1>14. CASE Lose
  BY <1>3, <1>8, <1>14 DEF Lose, sndVars, rcvVars
<1>15. CASE UNCHANGED vars
  BY <1>3, <1>8, <1>15 DEF vars, sndVars, rcvVars, netVars
<1>16. CASE Retransmit
  BY <1>1, <1>2, <1>16, PromptRetransmit
<1>17. CASE Transmit
  BY <1>1, <1>2, <1>17, PromptTransmit
<1>18. ~ FinishPushRefused /\ \A side \in Sides : ~ Reset(side) /\ ~ RecvReset(side)
                                                   /\ ~ RecvClosed(side)
  BY <1>2, <1>4 DEF FinishPushRefused, Reset, RecvReset, RecvClosed
<1>19. QED
  BY <1>5, <1>6, <1>9, <1>10, <1>11, <1>12, <1>13, <1>14, <1>15, <1>16, <1>17,
     <1>18 DEF Next, Application, Threads, Network

\* Both handshakes leave a reader that has forgotten nothing.
LEMMA PromptInitially == Init => PromptInv
<1> SUFFICES ASSUME Init PROVE PromptInv
  OBVIOUS
<1>1. /\ IInv /\ errored = {} /\ resets = {} /\ data = {} /\ sent = 0
      /\ consumed = << >>
  BY InitialInvariant DEF Init
<1>2. /\ start \in Int /\ start \in SeqNum /\ WINDOW_SIZE \in Nat \ {0}
      /\ Modulus \in Nat /\ Modulus >= 2 * WINDOW_SIZE
      /\ Span = Len(Received) + 1 - Lowest /\ Len(Received) \in Nat
  BY <1>1, Bounds DEF TypeOK
<1>3. rcv.pop_queue = << >>
  <2> DEFINE none == << >>
  <2>1. RecvNewByPeer(start).pop_queue = none
    BY DEF RecvNewByPeer
  <2>2. RecvNewByLocal(start).pop_queue = none
    BY DEF RecvNewByLocal
  <2> HIDE DEF none
  <2>3. rcv.pop_queue = none
    BY <2>1, <2>2 DEF Init, InitHandshake
  <2>4. QED
    BY <2>3 DEF none
<1>4. Len(Received) = 0
  BY <1>1, <1>3 DEF Received
<1>5. Wrap(0) = 0 /\ Wrap(1) = 1 /\ Wrap(start) = start
  BY <1>2, WrapSmall DEF SeqNum
<1>6. CASE snd = SendNewByLocal(start) /\ rcv = RecvNewByPeer(start)
  <2>1. rcv.window = rcv.lower_bound /\ rcv.window \in Int
    BY <1>1, <1>2, <1>6 DEF RecvNewByPeer, IInv, TypeOK, IsRecvStorage, SeqNum
  <2>2. Span = 0
    BY <1>2, <1>5, <2>1 DEF Span, Minus
  <2>3. snd.queue_sent = << >>
    BY <1>6 DEF SendNewByLocal
  <2>4. \A x : ~ Holds(snd.queue_sent, x)
    BY <2>3 DEF Holds
  <2>5. QED
    BY <1>1, <1>2, <2>2, <2>4 DEF PromptInv
<1>7. CASE rcv = RecvNewByLocal(start)
  <2>1. rcv.window = Wrap(start + 1) /\ rcv.lower_bound = Wrap(start + 0)
    BY <1>2, <1>5, <1>7 DEF RecvNewByLocal, Plus
  <2>2. Minus(Wrap(start + 1), Wrap(start + 0)) = Wrap(1 - 0)
    BY <1>2, 1 \in Int, 0 \in Int, CountedNumbers
  <2>3. Span = 1
    BY <1>5, <2>1, <2>2 DEF Span
  <2>4. Lowest = 0
    BY <1>2, <1>4, <2>3 DEF Lowest
  <2>5. \A i \in Recent : 0 <= i
    BY <1>1 DEF Recent
  <2>6. QED
    BY <1>1, <1>2, <2>3, <2>4, <2>5 DEF PromptInv
<1>8. QED
  BY <1>6, <1>7 DEF Init, InitHandshake

\* While the window is not full and nothing arrives a window late, two streams
\* do not take each other's segments and acknowledgements for errors: it is
\* applications that break the connection first.  With 256 numbers the window
\* of 10 is less than half of them, as assumed.
THEOREM OnlyApplicationsReset ==
  ASSUME Modulus > 2 * WINDOW_SIZE
  PROVE  Spec /\ []Prompt => NoSpuriousReset
<1>1. Init => PromptInv
  BY PromptInitially
<1>2. IInv /\ PromptInv /\ Prompt /\ [Next]_vars => PromptInv'
  BY PromptStep
<1>3. ASSUME IInv, PromptInv, Prompt, Next, errored = {}, errored' # {}
      PROVE  FinishPushRefused \/ \E side \in Sides : Reset(side)
  <2>1. resets = {}
    BY <1>3 DEF PromptInv
  <2>2. ASSUME NEW m \in acks, RecvAck(m) PROVE FALSE
    <3>1. ~ AckRejects(snd, m.seq_num)
      BY <1>3, <2>2, AcknowledgementIsTaken DEF RecvAck
    <3>2. errored' = errored
      BY <2>2, <3>1 DEF RecvAck
    <3>3. QED
      BY <1>3, <3>2
  <2>3. ASSUME NEW m \in data, RecvSegment(m) PROVE FALSE
    <3>1. ~ RecvRejects(rcv, m.seq_num, m.variant)
      BY <1>3, <2>3, SegmentIsTaken DEF RecvSegment
    <3>2. errored' = errored
      BY <2>3, <3>1 DEF RecvSegment
    <3>3. QED
      BY <1>3, <3>2
  <2>4. ASSUME NEW side \in Sides, RecvReset(side) \/ RecvClosed(side) PROVE FALSE
    BY <1>3, <2>1, <2>4 DEF RecvReset, RecvClosed
  <2>5. CASE Write \/ FinishPush \/ FinishReturns \/ Read
    BY <1>3, <2>5 DEF Write, FinishPush, FinishReturns, Read
  <2>6. CASE Threads \/ Lose
    BY <1>3, <2>6 DEF Threads, Retransmit, Transmit, AckTick,
                      ReaderQuits, Lose
  <2>7. QED
    BY <1>3, <2>2, <2>3, <2>4, <2>5, <2>6 DEF Next, Application, Network
<1>4. IInv /\ PromptInv /\ Prompt /\ [Next]_vars =>
        [errored = {} /\ errored' # {} =>
           FinishPushRefused \/ \E side \in Sides : Reset(side)]_vars
  BY <1>3
<1>5. QED
  BY <1>1, <1>2, <1>4, Invariance, PTL DEF Spec, NoSpuriousReset
=============================================================================
