---------------------------- MODULE DuplexTheorems ---------------------------
(***************************************************************************)
(* What is proved of Duplex, for every modulus, every window of more than  *)
(* two segments and every pair of handshake numbers, whatever the network, *)
(* the threads and the applications do: its types, that neither stream     *)
(* takes a segment of its peer for an error, and that a stream which is    *)
(* dropped without a RESET leaves nothing behind.                          *)
(***************************************************************************)
EXTENDS Duplex, StorageProofs

-----------------------------------------------------------------------------
(* The inductive invariant                                                  *)

\* The numbers that an end gives to its segments: 0 is the handshake's, 1 is
\* that of FINISH, and 2 that of a segment which is never sent.
Start(e) == IF e = "client" THEN Establish ELSE AcceptNum
Number(e, i) == Wrap(Start(e) + i)
Segments == [p \in 0 .. 1 |-> IF p = 0 THEN Accept ELSE Finish]

FinishEntry(e) == [seq_num |-> Number(e, 1), variant |-> Finish]
FinishSent(e) == snd[e].next_unsent = Number(e, 2)

\* FINISH is not pushed yet, or waits to be sent.
Waiting(e) ==
  /\ app[e] \in {"writing", "flushed", "finishing"}
  /\ snd[e].next_unsent = Number(e, 1)
  /\ snd[e].queue_sent = << >>
  /\ snd[e].queue_unsent = IF app[e] = "finishing" THEN << Finish >> ELSE << >>

\* Or it has been sent, and nothing else is left.
SentOnce(e) ==
  /\ app[e] \notin {"writing", "flushed"}
  /\ FinishSent(e)
  /\ snd[e].queue_unsent = << >>
  /\ \A j \in DOMAIN snd[e].queue_sent : snd[e].queue_sent[j] = FinishEntry(e)

\* Or an error has emptied the storage, and finish_write has pushed nothing
\* since.
Cleared(e) ==
  /\ Errored(e) /\ IsEmpty(snd[e])
  /\ app[e] \in {"writing", "flushed"} => snd[e].next_unsent = Number(e, 1)

\* Without an error FINISH is kept until the peer has it.
SendInv(e) ==
  /\ e \in sendFinished => app[e] \in {"done", "dropped"}
  /\ e \in sendFinished /\ ~ Errored(e) => HasFinish(Other(e))
  /\ Waiting(e) \/ SentOnce(e) \/ Cleared(e)
  /\ ~ Errored(e) /\ SentOnce(e) =>
       HasFinish(Other(e)) \/ snd[e].queue_sent # << >>

\* The first position that the stream has not received.
Position(e) == IF HasFinish(e) THEN 2 ELSE 1

\* The window is at that position, in error too, and the storage of a stream
\* without an error represents what the peer sends.
RecvInv(e) ==
  /\ rcv[e].window = Number(Other(e), Position(e))
  /\ CanPop(rcv[e]) => HasFinish(e)
  /\ HasFinish(e) => FinishSent(Other(e))
  /\ ~ Errored(e) =>
       \E l \in 0 .. 1 :
         Represents(rcv[e], Start(Other(e)), Position(e), l, Segments)

\* A datagram on its way to an end tells the truth about the other one.
NetInv(e) ==
  /\ net[e].kind = "Acknowledge" =>
       \/ net[e].seq_num = Number(e, 0)
       \/ net[e].seq_num = Number(e, 1) /\ HasFinish(Other(e))
  /\ net[e].kind = "Sequential" =>
       /\ net[e].seq_num = Number(Other(e), 1) /\ net[e].variant = Finish
       /\ FinishSent(Other(e))

IInv ==
  /\ TypeOK /\ OnlyResetsBreak
  /\ \A e \in Ends : SendInv(e) /\ RecvInv(e) /\ NetInv(e)

-----------------------------------------------------------------------------
(* Ends, numbers, and what most steps leave as it is                        *)

LEMMA TwoEnds ==
  \A e \in Ends :
    /\ Other(e) \in Ends /\ Other(e) # e /\ Other(Other(e)) = e
    /\ Ends = {e, Other(e)}
BY DEF Ends, Other

LEMMA Windows ==
  /\ WINDOW_SIZE \in Nat /\ WINDOW_SIZE > 2
  /\ Modulus \in Nat /\ Modulus >= 2 * WINDOW_SIZE
  /\ \A e \in Ends : Start(e) \in SeqNum /\ Start(e) \in Int
<1>1. SeqNum \subseteq Int
  BY SequenceNumberAssumption DEF SeqNum
<1>2. QED
  BY <1>1, SequenceNumberAssumption, DuplexAssumption DEF Start

LEMMA Numbers ==
  ASSUME NEW e \in Ends
  PROVE  /\ \A i \in Int : Number(e, i) \in SeqNum
         /\ Plus(Number(e, 1), 1) = Number(e, 2)
         /\ \A i \in Int : Minus(Number(e, i), 1) = Number(e, i - 1)
         /\ \A i, j \in Int : Minus(Number(e, i), Number(e, j)) = Wrap(i - j)
         /\ Number(e, 1) # Number(e, 2)
<1>1. Start(e) \in Int
  BY Windows
<1>2. \A i \in Int : Number(e, i) \in SeqNum
  <2>1. SUFFICES ASSUME NEW i \in Int PROVE Number(e, i) \in SeqNum
    OBVIOUS
  <2>2. Start(e) + i \in Int
    BY <1>1
  <2>3. QED
    BY <2>2, WrapIsRemainder DEF Number
<1>3. Plus(Number(e, 1), 1) = Number(e, 2)
  <2>1. Plus(Wrap(Start(e) + 1), 1) = Wrap(Start(e) + (1 + 1))
    BY <1>1, CountedNumbers
  <2>2. QED
    BY <2>1 DEF Number
<1>4. \A i \in Int : Minus(Number(e, i), 1) = Number(e, i - 1)
  BY <1>1, CountedNumbers DEF Number
<1>5. \A i, j \in Int : Minus(Number(e, i), Number(e, j)) = Wrap(i - j)
  BY <1>1, CountedNumbers DEF Number
<1>6. Number(e, 1) # Number(e, 2)
  <2> SUFFICES ASSUME Wrap(Start(e) + 1) = Wrap(Start(e) + 2) PROVE FALSE
    BY DEF Number
  <2> DEFINE i == Start(e) + 1
             j == Start(e) + 2
  <2>1. i \in Int /\ j \in Int /\ i - j < Modulus /\ j - i < Modulus /\ i # j
    BY <1>1, Windows
  <2>2. Wrap(i) = Wrap(j)
    OBVIOUS
  <2> HIDE DEF i, j
  <2>3. QED
    BY <2>1, <2>2, WrapInjective
<1>7. QED
  BY <1>2, <1>3, <1>4, <1>5, <1>6

\* Small differences of numbers.
LEMMA SmallNumbers ==
  /\ Wrap(0) = 0 /\ Wrap(1) = 1 /\ Wrap(2) = 2
  /\ Wrap(-1) = Modulus - 1
<1>1. 0 \in 0 .. Modulus - 1 /\ 1 \in 0 .. Modulus - 1 /\ 2 \in 0 .. Modulus - 1
      /\ -1 \in -Modulus .. -1
  BY Windows
<1>2. QED
  BY <1>1, Windows, WrapSmall

LEMMA Types ==
  ASSUME TypeOK, NEW e \in Ends
  PROVE  /\ snd[e] \in SendStorageType /\ IsRecvStorage(rcv[e])
         /\ net[e] \in Datagram
         /\ snd[e].next_unsent \in SeqNum
         /\ snd[e].queue_sent \in Seq(SentSegment)
         /\ snd[e].queue_unsent \in Seq(SequentialSegment)
         /\ rcv[e].pop_queue \in Seq(SequentialSegment)
         /\ rcv[e].window \in SeqNum
BY DEF TypeOK, SendStorageType, IsRecvStorage

LEMMA SendKept ==
  ASSUME NEW e \in Ends, SendInv(e), snd'[e] = snd[e],
         conn_state'[e] = conn_state[e], app'[e] = app[e],
         e \in sendFinished' <=> e \in sendFinished,
         HasFinish(Other(e)) => HasFinish(Other(e))'
  PROVE  SendInv(e)'
BY DEF SendInv, Waiting, SentOnce, Cleared, Errored, FinishSent

LEMMA RecvKept ==
  ASSUME NEW e \in Ends, RecvInv(e),
         rcv'[e].window = rcv[e].window, rcv'[e].pop_queue = rcv[e].pop_queue,
         e \in recvFinished' <=> e \in recvFinished,
         ~ Errored(e)' => /\ ~ Errored(e)
                          /\ rcv'[e].lower_bound = rcv[e].lower_bound
                          /\ rcv'[e].segments = rcv[e].segments,
         FinishSent(Other(e)) => FinishSent(Other(e))'
  PROVE  /\ RecvInv(e)'
         /\ HasFinish(e) => HasFinish(e)'
<1>1. HasFinish(e)' <=> HasFinish(e)
  BY DEF HasFinish
<1>2. CanPop(rcv'[e]) <=> CanPop(rcv[e])
  BY DEF CanPop
<1>3. Position(e)' = Position(e)
  BY <1>1 DEF Position
<1>4. ASSUME ~ Errored(e)'
      PROVE  \E l \in 0 .. 1 :
               Represents(rcv'[e], Start(Other(e)), Position(e), l, Segments)
  <2>1. PICK l \in 0 .. 1 :
          Represents(rcv[e], Start(Other(e)), Position(e), l, Segments)
    BY <1>4 DEF RecvInv
  <2>2. Represents(rcv'[e], Start(Other(e)), Position(e), l, Segments)
    BY <1>4, <2>1, SameRepresentation
  <2>3. QED
    BY <2>2
<1>5. QED
  BY <1>1, <1>2, <1>3, <1>4 DEF RecvInv

LEMMA NetKept ==
  ASSUME NEW e \in Ends, NetInv(e),
         net'[e] \in {net[e], NoDatagram, ResetMessage},
         HasFinish(Other(e)) => HasFinish(Other(e))',
         FinishSent(Other(e)) => FinishSent(Other(e))'
  PROVE  NetInv(e)'
BY DEF NetInv, NoDatagram, ResetMessage

-----------------------------------------------------------------------------
(* error                                                                    *)

LEMMA ErrorFields ==
  ASSUME TypeOK, NEW e \in Ends, NEW cause \in {"reset", "segment"},
         Error(e, cause)
  PROVE  /\ snd' \in [Ends -> SendStorageType]
         /\ rcv' = [x \in Ends |-> rcv'[x]]
         /\ \A x \in Ends : IsRecvStorage(rcv'[x])
         /\ conn_state' \in [Ends -> {"ok", "reset", "segment"}]
         /\ conn_state'[e] = cause /\ conn_state'[Other(e)] = conn_state[Other(e)]
         /\ snd'[Other(e)] = snd[Other(e)] /\ rcv'[Other(e)] = rcv[Other(e)]
         /\ IsEmpty(snd'[e]) /\ snd'[e].next_unsent = snd[e].next_unsent
         /\ rcv'[e].window = rcv[e].window
         /\ rcv'[e].pop_queue = rcv[e].pop_queue
<1>1. /\ conn_state' = [conn_state EXCEPT ![e] = cause]
      /\ snd' = [snd EXCEPT ![e] = SendClear(snd[e])]
      /\ rcv' = [rcv EXCEPT ![e] = RecvClear(rcv[e])]
  BY DEF Error
<1>2. /\ snd \in [Ends -> SendStorageType] /\ rcv = [x \in Ends |-> rcv[x]]
      /\ conn_state \in [Ends -> {"ok", "reset", "segment"}]
      /\ \A x \in Ends : IsRecvStorage(rcv[x])
  BY DEF TypeOK
<1>3. /\ SendClear(snd[e]) \in SendStorageType /\ IsRecvStorage(RecvClear(rcv[e]))
      /\ RecvClear(rcv[e]).pop_queue = rcv[e].pop_queue
  BY <1>2, ClearedSendType, ClearedRecvType
<1>4. Other(e) \in Ends /\ Other(e) # e /\ Ends = {e, Other(e)}
  BY TwoEnds
<1>5. /\ snd'[e] = SendClear(snd[e]) /\ snd'[Other(e)] = snd[Other(e)]
      /\ rcv'[e] = RecvClear(rcv[e]) /\ rcv'[Other(e)] = rcv[Other(e)]
      /\ rcv' = [x \in Ends |-> rcv'[x]]
      /\ conn_state'[e] = cause /\ conn_state'[Other(e)] = conn_state[Other(e)]
      /\ conn_state' \in [Ends -> {"ok", "reset", "segment"}]
      /\ snd' \in [Ends -> SendStorageType]
  BY <1>1, <1>2, <1>3, <1>4
<1>6. \A x \in Ends : IsRecvStorage(rcv'[x])
  BY <1>2, <1>3, <1>4, <1>5
<1>7. /\ IsEmpty(snd'[e]) /\ snd'[e].next_unsent = snd[e].next_unsent
  BY <1>2, <1>5 DEF SendClear, IsEmpty, SendStorageType
<1>8. rcv'[e].window = rcv[e].window /\ rcv'[e].pop_queue = rcv[e].pop_queue
  <2>1. IsRecvStorage(rcv[e])
    BY <1>2
  <2>2. RecvClear(rcv[e]).window = rcv[e].window
    BY <2>1 DEF RecvClear, IsRecvStorage
  <2>3. QED
    BY <1>3, <1>5, <2>2
<1>9. QED
  BY <1>5, <1>6, <1>7, <1>8

\* An error empties one stream, and takes nothing back of what the other has
\* received or sent.
LEMMA ErrorStep ==
  ASSUME IInv, NEW e \in Ends, Error(e, "reset"),
         e \in sendFinished' => app'[e] \in {"done", "dropped"},
         app'[e] \in {app[e], "dropped"}, app'[Other(e)] = app[Other(e)],
         UNCHANGED finished,
         net' \in [Ends -> Datagram],
         \A x \in Ends : net'[x] \in {net[x], NoDatagram, ResetMessage}
  PROVE  /\ OnlyResetsBreak'
         /\ \A x \in Ends : SendInv(x)' /\ RecvInv(x)' /\ NetInv(x)'
<1> DEFINE o == Other(e)
<1>1. o \in Ends /\ o # e /\ Other(o) = e /\ Ends = {e, o}
  BY TwoEnds
<1>2. /\ TypeOK /\ OnlyResetsBreak
      /\ \A x \in Ends : SendInv(x) /\ RecvInv(x) /\ NetInv(x)
  BY DEF IInv
<1>3. /\ conn_state'[e] = "reset" /\ conn_state'[o] = conn_state[o]
      /\ snd'[o] = snd[o] /\ rcv'[o] = rcv[o]
      /\ IsEmpty(snd'[e]) /\ snd'[e].next_unsent = snd[e].next_unsent
      /\ rcv'[e].window = rcv[e].window
      /\ rcv'[e].pop_queue = rcv[e].pop_queue
  BY <1>2, ErrorFields
<1> HIDE DEF o
<1>4. sendFinished' = sendFinished /\ recvFinished' = recvFinished
  BY DEF finished
<1>5. Errored(e)' /\ (Errored(o)' <=> Errored(o))
  BY <1>3 DEF Errored
<1>6. (FinishSent(e) => FinishSent(e)') /\ (FinishSent(o) => FinishSent(o)')
  BY <1>3 DEF FinishSent
<1>7. /\ RecvInv(e)' /\ (HasFinish(e) => HasFinish(e)')
      /\ RecvInv(o)' /\ (HasFinish(o) => HasFinish(o)')
  BY <1>1, <1>2, <1>3, <1>4, <1>5, <1>6, RecvKept DEF o
<1>8. SendInv(o)'
  BY <1>1, <1>2, <1>3, <1>4, <1>7, SendKept DEF o
<1>9. SendInv(e)'
  <2>1. app[e] \in {"writing", "flushed"} => snd[e].next_unsent = Number(e, 1)
    BY <1>2 DEF SendInv, Waiting, SentOnce, Cleared
  <2>2. Cleared(e)'
    BY <1>3, <1>5, <2>1 DEF Cleared
  <2>3. QED
    BY <1>5, <2>2 DEF SendInv
<1>10. NetInv(e)' /\ NetInv(o)'
  BY <1>1, <1>2, <1>6, <1>7, NetKept DEF o
<1>11. OnlyResetsBreak'
  BY <1>1, <1>2, <1>3 DEF OnlyResetsBreak
<1>12. QED
  BY <1>1, <1>7, <1>8, <1>9, <1>10, <1>11

-----------------------------------------------------------------------------
(* The applications                                                         *)

\* Everything of an end, as a step that does not touch it leaves it.
Untouched(e) ==
  /\ snd'[e] = snd[e] /\ rcv'[e] = rcv[e] /\ conn_state'[e] = conn_state[e]
  /\ app'[e] = app[e]
  /\ e \in sendFinished' <=> e \in sendFinished
  /\ e \in recvFinished' <=> e \in recvFinished

\* A step of one end keeps what is said of the other.
LEMMA OtherKept ==
  ASSUME IInv, NEW e \in Ends, Untouched(Other(e)),
         FinishSent(e) => FinishSent(e)',
         HasFinish(e) => HasFinish(e)',
         SendInv(e)', RecvInv(e)', conn_state'[e] # "segment",
         \A x \in Ends :
           \/ net'[x] \in {net[x], NoDatagram, ResetMessage}
           \/ NetInv(x)'
  PROVE  /\ OnlyResetsBreak'
         /\ \A x \in Ends : SendInv(x)' /\ RecvInv(x)' /\ NetInv(x)'
<1> DEFINE o == Other(e)
<1>1. o \in Ends /\ o # e /\ Other(o) = e /\ Ends = {e, o}
  BY TwoEnds
<1>2. /\ OnlyResetsBreak
      /\ \A x \in Ends : SendInv(x) /\ RecvInv(x) /\ NetInv(x)
  BY DEF IInv
<1>3. /\ snd'[o] = snd[o] /\ rcv'[o] = rcv[o] /\ conn_state'[o] = conn_state[o]
      /\ app'[o] = app[o]
      /\ o \in sendFinished' <=> o \in sendFinished
      /\ o \in recvFinished' <=> o \in recvFinished
  BY DEF Untouched
<1> HIDE DEF o
<1>4. FinishSent(o) => FinishSent(o)'
  BY <1>3 DEF FinishSent
<1>5. RecvInv(o)' /\ (HasFinish(o) => HasFinish(o)')
  <2>1. ~ Errored(o)' => ~ Errored(o)
    BY <1>3 DEF Errored
  <2>2. QED
    BY <1>1, <1>2, <1>3, <2>1, RecvKept
<1>6. SendInv(o)'
  BY <1>1, <1>2, <1>3, SendKept
<1>7. NetInv(e)' /\ NetInv(o)'
  <2>1. net'[e] \in {net[e], NoDatagram, ResetMessage} => NetInv(e)'
    BY <1>1, <1>2, <1>4, <1>5, NetKept DEF o
  <2>2. net'[o] \in {net[o], NoDatagram, ResetMessage} => NetInv(o)'
    BY <1>1, <1>2, NetKept
  <2>3. QED
    BY <1>1, <2>1, <2>2
<1>8. OnlyResetsBreak'
  BY <1>1, <1>2, <1>3 DEF OnlyResetsBreak
<1>9. QED
  BY <1>1, <1>5, <1>6, <1>7, <1>8

\* finish_write has found the stream in order.
LEMMA FinishWriteStep ==
  ASSUME IInv, NEW e \in Ends, FinishWrite(e)
  PROVE  IInv'
<1>1. TypeOK /\ SendInv(e) /\ RecvInv(e) /\ OnlyResetsBreak
  BY DEF IInv
<1>2. /\ ~ Errored(e) /\ app[e] = "writing"
      /\ app' = [app EXCEPT ![e] = "flushed"]
      /\ UNCHANGED << snd, rcv, conn_state, finished, workers, listening, net >>
  BY DEF FinishWrite, Ok
<1>3. sendFinished' = sendFinished /\ recvFinished' = recvFinished
  BY <1>2 DEF finished
<1>4. /\ app' \in [Ends -> {"writing", "flushed", "finishing", "done", "dropped"}]
      /\ app'[e] = "flushed" /\ app'[Other(e)] = app[Other(e)]
  BY <1>1, <1>2, TwoEnds DEF TypeOK
<1>5. TypeOK'
  BY <1>1, <1>2, <1>3, <1>4 DEF TypeOK
<1>6. Untouched(Other(e))
  BY <1>2, <1>3, <1>4 DEF Untouched
<1>7. /\ FinishSent(e)' <=> FinishSent(e)
      /\ FinishSent(Other(e)) => FinishSent(Other(e))'
      /\ HasFinish(e) => HasFinish(e)'
      /\ HasFinish(Other(e)) => HasFinish(Other(e))'
      /\ Errored(e)' <=> Errored(e)
  BY <1>2, <1>3 DEF FinishSent, HasFinish, Errored
<1>8. RecvInv(e)'
  BY <1>1, <1>2, <1>3, <1>7, RecvKept
<1>9. SendInv(e)'
  <2>1. Waiting(e) /\ e \notin sendFinished
    BY <1>1, <1>2 DEF SendInv, SentOnce, Cleared
  <2>2. Waiting(e)' /\ ~ SentOnce(e)'
    BY <1>2, <1>4, <2>1 DEF Waiting, SentOnce
  <2>3. QED
    BY <1>3, <2>1, <2>2 DEF SendInv
<1>10. conn_state'[e] # "segment"
  BY <1>1, <1>2 DEF OnlyResetsBreak
<1>11. \A x \in Ends : net'[x] = net[x]
  BY <1>2
<1>12. OnlyResetsBreak' /\ \A x \in Ends : SendInv(x)' /\ RecvInv(x)' /\ NetInv(x)'
  BY <1>6, <1>7, <1>8, <1>9, <1>10, <1>11, OtherKept
<1>13. QED
  BY <1>5, <1>12 DEF IInv

\* finish_write pushes FINISH on an empty storage, before an error or after it.
LEMMA FinishPushStep ==
  ASSUME IInv, NEW e \in Ends, FinishPush(e)
  PROVE  IInv'
<1>1. TypeOK /\ SendInv(e) /\ RecvInv(e) /\ OnlyResetsBreak
  BY DEF IInv
<1>2. /\ app[e] = "flushed"
      /\ snd' = [snd EXCEPT ![e] = AfterPush(snd[e], Finish)]
      /\ app' = [app EXCEPT ![e] = "finishing"]
      /\ UNCHANGED << rcv, conn_state, finished, workers, listening, net >>
  BY DEF FinishPush
<1>3. sendFinished' = sendFinished /\ recvFinished' = recvFinished
  BY <1>2 DEF finished
<1>4. Finish \in SequentialSegment
  BY DEF SequentialSegment
<1>5. /\ AfterPush(snd[e], Finish) \in SendStorageType
      /\ AfterPush(snd[e], Finish).queue_sent = snd[e].queue_sent
      /\ AfterPush(snd[e], Finish).next_unsent = snd[e].next_unsent
      /\ AfterPush(snd[e], Finish).queue_unsent = Append(snd[e].queue_unsent, Finish)
  BY <1>1, <1>4, PushFields, Types
<1>6. /\ snd' \in [Ends -> SendStorageType] /\ snd'[e] = AfterPush(snd[e], Finish)
      /\ snd'[Other(e)] = snd[Other(e)]
      /\ app' \in [Ends -> {"writing", "flushed", "finishing", "done", "dropped"}]
      /\ app'[e] = "finishing" /\ app'[Other(e)] = app[Other(e)]
  BY <1>1, <1>2, <1>5, TwoEnds DEF TypeOK
<1>7. TypeOK'
  BY <1>1, <1>2, <1>3, <1>6 DEF TypeOK
<1>8. Untouched(Other(e))
  BY <1>2, <1>3, <1>6 DEF Untouched
<1>9. FinishSent(e) => FinishSent(e)'
  BY <1>5, <1>6 DEF FinishSent
<1>10. (Errored(e)' <=> Errored(e)) /\ (HasFinish(e) => HasFinish(e)')
  BY <1>2, <1>3 DEF Errored, HasFinish
<1>11. RecvInv(e)'
  <2>1. FinishSent(Other(e)) => FinishSent(Other(e))'
    BY <1>6 DEF FinishSent
  <2>2. QED
    BY <1>1, <1>2, <1>3, <2>1, RecvKept DEF Errored
<1>12. SendInv(e)'
  <2>1. /\ e \notin sendFinished
        /\ snd[e].next_unsent = Number(e, 1)
        /\ snd[e].queue_sent = << >> /\ snd[e].queue_unsent = << >>
    BY <1>1, <1>2 DEF SendInv, Waiting, SentOnce, Cleared, IsEmpty
  <2>2. Append(<< >>, Finish) = << Finish >>
    OBVIOUS
  <2>3. snd'[e].queue_unsent = << Finish >>
    BY <1>5, <1>6, <2>1, <2>2
  <2>4. Waiting(e)'
    BY <1>5, <1>6, <2>1, <2>3 DEF Waiting
  <2>5. ~ FinishSent(e)'
    BY <1>5, <1>6, <2>1, Numbers DEF FinishSent
  <2>6. QED
    BY <1>3, <2>1, <2>4, <2>5 DEF SendInv, SentOnce
<1>13. conn_state'[e] # "segment"
  BY <1>1, <1>2 DEF OnlyResetsBreak
<1>14. \A x \in Ends : net'[x] = net[x]
  BY <1>2
<1>15. OnlyResetsBreak' /\ \A x \in Ends : SendInv(x)' /\ RecvInv(x)' /\ NetInv(x)'
  BY <1>8, <1>9, <1>10, <1>11, <1>12, <1>13, <1>14, OtherKept
<1>16. QED
  BY <1>7, <1>15 DEF IInv

\* finish_write returns on an empty storage: without an error the peer has
\* FINISH, for it would still be there.
LEMMA FinishReturnsStep ==
  ASSUME IInv, NEW e \in Ends, FinishReturns(e)
  PROVE  IInv'
<1>1. TypeOK /\ SendInv(e) /\ RecvInv(e) /\ OnlyResetsBreak
  BY DEF IInv
<1>2. /\ app[e] = "finishing" /\ IsEmpty(snd[e])
      /\ app' = [app EXCEPT ![e] = "done"]
      /\ sendFinished' = sendFinished \cup {e}
      /\ UNCHANGED << snd, rcv, conn_state, recvFinished, workers, listening, net >>
  BY DEF FinishReturns
<1>3. /\ app' \in [Ends -> {"writing", "flushed", "finishing", "done", "dropped"}]
      /\ app'[e] = "done" /\ app'[Other(e)] = app[Other(e)]
  BY <1>1, <1>2, TwoEnds DEF TypeOK
<1>4. TypeOK'
  BY <1>1, <1>2, <1>3 DEF TypeOK
<1>5. Untouched(Other(e))
  BY <1>2, <1>3, TwoEnds DEF Untouched
<1>6. /\ FinishSent(e) => FinishSent(e)'
      /\ FinishSent(Other(e)) => FinishSent(Other(e))'
      /\ HasFinish(e) => HasFinish(e)'
      /\ HasFinish(Other(e)) => HasFinish(Other(e))'
      /\ Errored(e)' <=> Errored(e)
  BY <1>2 DEF FinishSent, HasFinish, Errored
<1>7. RecvInv(e)'
  BY <1>1, <1>2, <1>6, RecvKept
<1>8. SendInv(e)'
  <2>1. << Finish >> # << >>
    OBVIOUS
  <2>2. snd'[e] = snd[e] /\ app'[e] = "done"
    BY <1>2, <1>3
  <2>3. CASE SentOnce(e)
    <3>1. ~ Errored(e) => HasFinish(Other(e))
      BY <1>1, <1>2, <2>3 DEF SendInv, IsEmpty
    <3>2. SentOnce(e)'
      BY <1>6, <2>2, <2>3 DEF SentOnce
    <3>3. QED
      BY <1>6, <2>2, <3>1, <3>2 DEF SendInv
  <2>4. CASE Cleared(e)
    <3>1. Cleared(e)'
      BY <1>6, <2>2, <2>4 DEF Cleared
    <3>2. QED
      BY <2>2, <2>4, <1>6, <3>1 DEF SendInv, Cleared
  <2>5. ~ Waiting(e)
    BY <1>2, <2>1 DEF Waiting, IsEmpty
  <2>6. QED
    BY <1>1, <2>3, <2>4, <2>5 DEF SendInv
<1>9. conn_state'[e] # "segment"
  BY <1>1, <1>2 DEF OnlyResetsBreak
<1>10. \A x \in Ends : net'[x] = net[x]
  BY <1>2
<1>11. OnlyResetsBreak' /\ \A x \in Ends : SendInv(x)' /\ RecvInv(x)' /\ NetInv(x)'
  BY <1>5, <1>6, <1>7, <1>8, <1>9, <1>10, OtherKept
<1>12. QED
  BY <1>4, <1>11 DEF IInv

\* The only segment that read can find is FINISH.
LEMMA ReadStep ==
  ASSUME IInv, NEW e \in Ends, Read(e)
  PROVE  IInv'
<1>1. TypeOK /\ SendInv(e) /\ RecvInv(e) /\ OnlyResetsBreak
  BY DEF IInv
<1>2. /\ ~ Errored(e) /\ CanPop(rcv[e])
      /\ rcv' = [rcv EXCEPT ![e] = AfterPop(rcv[e])]
      /\ recvFinished' = recvFinished \cup {e}
      /\ UNCHANGED << snd, conn_state, sendFinished, workers, app, listening, net >>
  BY DEF Read, Ok
<1>3. /\ IsRecvStorage(AfterPop(rcv[e]))
      /\ AfterPop(rcv[e]).window = rcv[e].window
      /\ AfterPop(rcv[e]).lower_bound = rcv[e].lower_bound
      /\ AfterPop(rcv[e]).segments = rcv[e].segments
  BY <1>1, <1>2, PopFields, Types
<1>4. /\ rcv = [x \in Ends |-> rcv[x]] /\ \A x \in Ends : IsRecvStorage(rcv[x])
  BY <1>1 DEF TypeOK
<1>5. /\ rcv'[e] = AfterPop(rcv[e]) /\ rcv'[Other(e)] = rcv[Other(e)]
      /\ rcv' = [x \in Ends |-> rcv'[x]]
  BY <1>2, <1>4, TwoEnds
<1>6. \A x \in Ends : IsRecvStorage(rcv'[x])
  BY <1>3, <1>4, <1>5, TwoEnds
<1>7. TypeOK'
  BY <1>1, <1>2, <1>5, <1>6 DEF TypeOK
<1>8. Untouched(Other(e))
  BY <1>2, <1>5, TwoEnds DEF Untouched
<1>9. /\ FinishSent(e) => FinishSent(e)'
      /\ FinishSent(Other(e)) => FinishSent(Other(e))'
      /\ HasFinish(Other(e)) => HasFinish(Other(e))'
      /\ Errored(e)' <=> Errored(e)
  BY <1>2, <1>5, TwoEnds DEF FinishSent, HasFinish, Errored
<1>10. HasFinish(e) /\ HasFinish(e)'
  BY <1>1, <1>2 DEF HasFinish, RecvInv
<1>11. RecvInv(e)'
  <2>1. Position(e) = 2 /\ Position(e)' = 2
    BY <1>10 DEF Position
  <2>2. PICK l \in 0 .. 1 : Represents(rcv[e], Start(Other(e)), 2, l, Segments)
    BY <1>1, <1>2, <2>1 DEF RecvInv
  <2>3. Represents(rcv'[e], Start(Other(e)), 2, l, Segments)
    BY <1>3, <1>5, <2>2, SameRepresentation
  <2>4. rcv'[e].window = Number(Other(e), 2)
    BY <1>1, <1>3, <1>5, <2>1 DEF RecvInv
  <2>5. FinishSent(Other(e))'
    BY <1>1, <1>9, <1>10 DEF RecvInv
  <2>6. QED
    BY <1>10, <2>1, <2>3, <2>4, <2>5 DEF RecvInv
<1>12. SendInv(e)'
  BY <1>1, <1>2, <1>9, SendKept
<1>13. conn_state'[e] # "segment"
  BY <1>1, <1>2 DEF OnlyResetsBreak
<1>14. \A x \in Ends : net'[x] = net[x]
  BY <1>2
<1>15. OnlyResetsBreak' /\ \A x \in Ends : SendInv(x)' /\ RecvInv(x)' /\ NetInv(x)'
  BY <1>8, <1>9, <1>10, <1>11, <1>12, <1>13, <1>14, OtherKept
<1>16. QED
  BY <1>7, <1>15 DEF IInv

LEMMA ResetIsSent ==
  ASSUME TypeOK, NEW e \in Ends, net' = Sent(e, ResetMessage)
  PROVE  /\ net' \in [Ends -> Datagram]
         /\ \A x \in Ends : net'[x] \in {net[x], NoDatagram, ResetMessage}
<1>1. ResetMessage \in Datagram
  BY DEF Datagram
<1>2. net \in [Ends -> Datagram] /\ net' = [net EXCEPT ![Other(e)] = ResetMessage]
  BY DEF TypeOK, Sent
<1>3. QED
  BY <1>1, <1>2, TwoEnds

\* A step of the network and of the listeners of streams that are gone.
LEMMA NetStep ==
  ASSUME IInv, UNCHANGED << snd, rcv, conn_state, finished, app >>,
         workers' \subseteq workers, listening' \subseteq listening,
         net' \in [Ends -> Datagram],
         \A x \in Ends : net'[x] \in {net[x], NoDatagram, ResetMessage}
  PROVE  IInv'
<1>1. /\ TypeOK /\ OnlyResetsBreak
      /\ \A x \in Ends : SendInv(x) /\ RecvInv(x) /\ NetInv(x)
  BY DEF IInv
<1>2. sendFinished' = sendFinished /\ recvFinished' = recvFinished
  BY DEF finished
<1>3. TypeOK'
  BY <1>1, <1>2 DEF TypeOK
<1>4. \A x \in Ends : FinishSent(x) => FinishSent(x)'
  BY DEF FinishSent
<1>5. \A x \in Ends : RecvInv(x)' /\ (HasFinish(x) => HasFinish(x)')
  <2> SUFFICES ASSUME NEW x \in Ends
               PROVE  RecvInv(x)' /\ (HasFinish(x) => HasFinish(x)')
    OBVIOUS
  <2>1. ~ Errored(x)' => ~ Errored(x)
    BY DEF Errored
  <2>2. FinishSent(Other(x)) => FinishSent(Other(x))'
    BY <1>4, TwoEnds
  <2>3. RecvInv(x)
    BY <1>1
  <2>4. QED
    BY <1>2, <2>1, <2>2, <2>3, RecvKept
<1>6. \A x \in Ends : SendInv(x)' /\ NetInv(x)'
  <2> SUFFICES ASSUME NEW x \in Ends PROVE SendInv(x)' /\ NetInv(x)'
    OBVIOUS
  <2>1. SendInv(x) /\ NetInv(x) /\ net'[x] \in {net[x], NoDatagram, ResetMessage}
    BY <1>1
  <2>2. /\ HasFinish(Other(x)) => HasFinish(Other(x))'
        /\ FinishSent(Other(x)) => FinishSent(Other(x))'
    BY <1>4, <1>5, TwoEnds
  <2>3. SendInv(x)'
    BY <1>2, <2>1, <2>2, SendKept
  <2>4. NetInv(x)'
    BY <2>1, <2>2, NetKept
  <2>5. QED
    BY <2>3, <2>4
<1>7. OnlyResetsBreak'
  BY <1>1 DEF OnlyResetsBreak
<1>8. QED
  BY <1>3, <1>5, <1>6, <1>7 DEF IInv

LEMMA ResetStep ==
  ASSUME IInv, NEW e \in Ends, Reset(e)
  PROVE  IInv'
<1>1. TypeOK /\ SendInv(e)
  BY DEF IInv
<1>2. /\ Error(e, "reset") /\ net' = Sent(e, ResetMessage)
      /\ UNCHANGED << finished, workers, app, listening >>
  BY DEF Reset, ErrorAndReset
<1>3. sendFinished' = sendFinished /\ recvFinished' = recvFinished
  BY <1>2 DEF finished
<1>4. /\ net' \in [Ends -> Datagram]
      /\ \A x \in Ends : net'[x] \in {net[x], NoDatagram, ResetMessage}
  BY <1>1, <1>2, ResetIsSent
<1>5. /\ e \in sendFinished' => app'[e] \in {"done", "dropped"}
      /\ app'[e] = app[e]
  BY <1>1, <1>2, <1>3 DEF SendInv
<1>6. OnlyResetsBreak' /\ \A x \in Ends : SendInv(x)' /\ RecvInv(x)' /\ NetInv(x)'
  BY <1>2, <1>4, <1>5, ErrorStep
<1>7. TypeOK'
  BY <1>1, <1>2, <1>3, <1>4, ErrorFields DEF TypeOK
<1>8. QED
  BY <1>6, <1>7 DEF IInv

LEMMA RecvResetStep ==
  ASSUME IInv, NEW e \in Ends, RecvReset(e)
  PROVE  IInv'
<1>1. TypeOK /\ SendInv(e)
  BY DEF IInv
<1>2. /\ Error(e, "reset")
      /\ UNCHANGED << finished, workers, app, listening, net >>
  BY DEF RecvReset
<1>3. sendFinished' = sendFinished /\ recvFinished' = recvFinished
  BY <1>2 DEF finished
<1>4. /\ net' \in [Ends -> Datagram]
      /\ \A x \in Ends : net'[x] \in {net[x], NoDatagram, ResetMessage}
  BY <1>1, <1>2 DEF TypeOK
<1>5. /\ e \in sendFinished' => app'[e] \in {"done", "dropped"}
      /\ app'[e] = app[e]
  BY <1>1, <1>2, <1>3 DEF SendInv
<1>6. OnlyResetsBreak' /\ \A x \in Ends : SendInv(x)' /\ RecvInv(x)' /\ NetInv(x)'
  BY <1>2, <1>4, <1>5, ErrorStep
<1>7. TypeOK'
  BY <1>1, <1>2, <1>3, <1>4, ErrorFields DEF TypeOK
<1>8. QED
  BY <1>6, <1>7 DEF IInv

\* A stream without an error is dropped quietly only after finish_write has
\* returned.
LEMMA DropStep ==
  ASSUME IInv, NEW e \in Ends, Drop(e)
  PROVE  IInv'
<1>1. TypeOK /\ SendInv(e) /\ RecvInv(e) /\ OnlyResetsBreak
  BY DEF IInv
<1>2. /\ app' = [app EXCEPT ![e] = "dropped"]
      /\ workers' \subseteq workers /\ listening' \subseteq listening
      /\ UNCHANGED finished
  BY DEF Drop
<1>3. sendFinished' = sendFinished /\ recvFinished' = recvFinished
  BY <1>2 DEF finished
<1>4. /\ app' \in [Ends -> {"writing", "flushed", "finishing", "done", "dropped"}]
      /\ app'[e] = "dropped" /\ app'[Other(e)] = app[Other(e)]
  BY <1>1, <1>2, TwoEnds DEF TypeOK
<1>5. CASE /\ Errored(e) \/ Finished(e)
           /\ UNCHANGED << snd, rcv, conn_state, net >>
  <2>1. TypeOK'
    BY <1>1, <1>2, <1>3, <1>4, <1>5 DEF TypeOK
  <2>2. Untouched(Other(e))
    BY <1>3, <1>4, <1>5 DEF Untouched
  <2>3. /\ FinishSent(e) => FinishSent(e)'
        /\ FinishSent(Other(e)) => FinishSent(Other(e))'
        /\ HasFinish(e) => HasFinish(e)'
        /\ HasFinish(Other(e)) => HasFinish(Other(e))'
        /\ Errored(e)' <=> Errored(e)
    BY <1>3, <1>5 DEF FinishSent, HasFinish, Errored
  <2>4. RecvInv(e)'
    BY <1>1, <1>3, <1>5, <2>3, RecvKept
  <2>5. SendInv(e)'
    <3>1. snd'[e] = snd[e] /\ app[e] \in {"writing", "done"}
      BY <1>5 DEF Drop
    <3>2. e \in sendFinished /\ ~ Errored(e) => HasFinish(Other(e))
      BY <1>1 DEF SendInv
    <3>3. CASE Waiting(e)
      <4>1. Errored(e)
        BY <1>1, <1>5, <3>3 DEF SendInv, Waiting, Finished
      <4>2. IsEmpty(snd[e])
        BY <3>1, <3>3 DEF Waiting, IsEmpty
      <4>3. Cleared(e)'
        BY <1>4, <2>3, <3>1, <4>1, <4>2 DEF Cleared
      <4>4. QED
        BY <1>4, <2>3, <4>1, <4>3 DEF SendInv
    <3>4. CASE SentOnce(e)
      <4>1. SentOnce(e)'
        BY <1>4, <2>3, <3>1, <3>4 DEF SentOnce, FinishSent
      <4>2. ~ Errored(e) => HasFinish(Other(e))
        BY <1>5, <3>2 DEF Finished
      <4>3. QED
        BY <1>4, <2>3, <4>1, <4>2 DEF SendInv
    <3>5. CASE Cleared(e)
      <4>1. Cleared(e)'
        BY <1>4, <2>3, <3>1, <3>5 DEF Cleared
      <4>2. QED
        BY <1>4, <2>3, <3>5, <4>1 DEF SendInv, Cleared
    <3>6. QED
      BY <1>1, <3>3, <3>4, <3>5 DEF SendInv
  <2>6. conn_state'[e] # "segment"
    BY <1>1, <1>5 DEF OnlyResetsBreak
  <2>7. \A x \in Ends : net'[x] = net[x]
    BY <1>5
  <2>8. OnlyResetsBreak' /\ \A x \in Ends : SendInv(x)' /\ RecvInv(x)' /\ NetInv(x)'
    BY <2>2, <2>3, <2>4, <2>5, <2>6, <2>7, OtherKept
  <2>9. QED
    BY <2>1, <2>8 DEF IInv
<1>6. CASE ErrorAndReset(e, "reset")
  <2>1. Error(e, "reset") /\ net' = Sent(e, ResetMessage)
    BY <1>6 DEF ErrorAndReset
  <2>2. /\ net' \in [Ends -> Datagram]
        /\ \A x \in Ends : net'[x] \in {net[x], NoDatagram, ResetMessage}
    BY <1>1, <2>1, ResetIsSent
  <2>3. OnlyResetsBreak' /\ \A x \in Ends : SendInv(x)' /\ RecvInv(x)' /\ NetInv(x)'
    BY <1>2, <1>4, <2>1, <2>2, ErrorStep
  <2>4. TypeOK'
    <3>1. /\ snd' \in [Ends -> SendStorageType]
          /\ rcv' = [x \in Ends |-> rcv'[x]]
          /\ \A x \in Ends : IsRecvStorage(rcv'[x])
          /\ conn_state' \in [Ends -> {"ok", "reset", "segment"}]
      BY <1>1, <2>1, ErrorFields
    <3>2. /\ workers' \subseteq Ends /\ listening' \subseteq Ends
          /\ sendFinished' \subseteq Ends /\ recvFinished' \subseteq Ends
      BY <1>1, <1>2, <1>3 DEF TypeOK
    <3>3. QED
      BY <1>4, <2>2, <3>1, <3>2 DEF TypeOK
  <2>5. QED
    BY <2>3, <2>4 DEF IInv
<1>7. QED
  BY <1>5, <1>6 DEF Drop

-----------------------------------------------------------------------------
(* The threads of the streams                                               *)

LEMMA WorkerQuitsStep ==
  ASSUME IInv, NEW e \in Ends, WorkerQuits(e)
  PROVE  IInv'
<1>1. /\ UNCHANGED << snd, rcv, conn_state, finished, app >>
      /\ workers' \subseteq workers /\ listening' = listening /\ net' = net
  BY DEF WorkerQuits
<1>2. net \in [Ends -> Datagram]
  BY DEF IInv, TypeOK
<1>3. QED
  BY <1>1, <1>2, NetStep

\* An acknowledgement is of what has been received.
LEMMA AckTickStep ==
  ASSUME IInv, NEW e \in Ends, NEW elapsed \in BOOLEAN, AckTick(e, elapsed)
  PROVE  IInv'
<1> DEFINE o == Other(e)
           q == AfterPopAcknowledge(rcv[e], elapsed)
           m == AckMessage(CurrentAck(rcv[e]))
<1>1. TypeOK /\ SendInv(e) /\ RecvInv(e) /\ OnlyResetsBreak /\ NetInv(e)
  BY DEF IInv
<1>2. o \in Ends /\ o # e /\ Other(o) = e /\ Ends = {e, o}
  BY TwoEnds
<1>3. /\ rcv' = [rcv EXCEPT ![e] = q]
      /\ net' \in {net, [net EXCEPT ![o] = m]}
      /\ UNCHANGED << snd, conn_state, finished, workers, app, listening >>
  BY DEF AckTick, Sent
<1>4. /\ IsRecvStorage(q) /\ q.pop_queue = rcv[e].pop_queue
      /\ q.window = rcv[e].window /\ q.lower_bound = rcv[e].lower_bound
      /\ q.segments = rcv[e].segments
  BY <1>1, PopAcknowledgeFields, Types
<1>5. CurrentAck(rcv[e]) = Number(o, Position(e) - 1)
  <2>1. rcv[e].window = Number(o, Position(e)) /\ Position(e) \in Int
    BY <1>1 DEF RecvInv, Position
  <2>2. QED
    BY <1>2, <2>1, Numbers DEF CurrentAck
<1>6. m \in Datagram
  <2>1. Position(e) - 1 \in Int
    BY DEF Position
  <2>2. CurrentAck(rcv[e]) \in SeqNum
    BY <1>2, <1>5, <2>1, Numbers
  <2>3. QED
    BY <2>2 DEF Datagram
<1>7. m.kind = "Acknowledge" /\ m.seq_num = CurrentAck(rcv[e])
  BY DEF AckMessage
<1> HIDE DEF o, q, m
<1>8. sendFinished' = sendFinished /\ recvFinished' = recvFinished
  BY <1>3 DEF finished
<1>9. rcv = [x \in Ends |-> rcv[x]] /\ (\A x \in Ends : IsRecvStorage(rcv[x]))
      /\ net \in [Ends -> Datagram]
  BY <1>1 DEF TypeOK
<1>10. rcv'[e] = q /\ rcv'[o] = rcv[o] /\ rcv' = [x \in Ends |-> rcv'[x]]
  BY <1>2, <1>3, <1>9
<1>11. \A x \in Ends : IsRecvStorage(rcv'[x])
  BY <1>2, <1>4, <1>9, <1>10
<1>12. /\ net' \in [Ends -> Datagram] /\ net'[e] = net[e]
       /\ net'[o] \in {net[o], m}
  BY <1>2, <1>3, <1>6, <1>9
<1>13. TypeOK'
  BY <1>1, <1>3, <1>8, <1>10, <1>11, <1>12 DEF TypeOK
<1>14. Untouched(o)
  BY <1>3, <1>8, <1>10 DEF Untouched
<1>15. /\ FinishSent(e) => FinishSent(e)'
       /\ FinishSent(o) => FinishSent(o)'
       /\ HasFinish(o) => HasFinish(o)'
       /\ Errored(e)' <=> Errored(e)
  BY <1>3, <1>8, <1>10 DEF FinishSent, HasFinish, Errored
<1>16. RecvInv(e)' /\ (HasFinish(e) => HasFinish(e)')
  BY <1>1, <1>4, <1>8, <1>10, <1>15, RecvKept DEF o
<1>17. SendInv(e)'
  BY <1>1, <1>3, <1>8, <1>15, SendKept DEF o
<1>18. net'[o] = m => NetInv(o)'
  <2> SUFFICES ASSUME net'[o] = m PROVE NetInv(o)'
    OBVIOUS
  <2>1. \/ m.seq_num = Number(o, 0)
        \/ m.seq_num = Number(o, 1) /\ HasFinish(e)
    BY <1>5, <1>7 DEF Position
  <2>2. QED
    BY <1>2, <1>7, <1>16, <2>1 DEF NetInv
<1>19. conn_state'[e] # "segment"
  BY <1>1, <1>3 DEF OnlyResetsBreak
<1>20. \A x \in Ends : net'[x] = net[x] \/ NetInv(x)'
  BY <1>2, <1>12, <1>18
<1>21. OnlyResetsBreak' /\ \A x \in Ends : SendInv(x)' /\ RecvInv(x)' /\ NetInv(x)'
  BY <1>14, <1>15, <1>16, <1>17, <1>19, <1>20, OtherKept DEF o
<1>22. QED
  BY <1>13, <1>21 DEF IInv

\* FINISH goes out for the first time, or once more.
LEMMA TransmitStep ==
  ASSUME IInv, NEW e \in Ends, NEW elapsed \in BOOLEAN, Transmit(e, elapsed)
  PROVE  IInv'
<1> DEFINE o == Other(e)
           q == AfterPopSegment(snd[e], elapsed)
           m == SequentialMessage(PoppedSegment(snd[e], elapsed))
<1>1. TypeOK /\ SendInv(e) /\ RecvInv(e) /\ OnlyResetsBreak /\ NetInv(e)
  BY DEF IInv
<1>2. o \in Ends /\ o # e /\ Other(o) = e /\ Ends = {e, o}
  BY TwoEnds
<1>3. /\ IF elapsed THEN snd[e].queue_sent # << >> ELSE snd[e].queue_unsent # << >>
      /\ net' = [net EXCEPT ![o] = m]
      /\ snd' = [snd EXCEPT ![e] = q]
      /\ UNCHANGED << rcv, conn_state, finished, workers, app, listening >>
  BY DEF Transmit, Sent, RetransmitIsDue, CanPopUnsent
<1>5. snd[e] \in SendStorageType
  BY <1>1, Types
<1>6. /\ PoppedSegment(snd[e], elapsed) = FinishEntry(e)
      /\ FinishEntry(e) \in SentSegment
      /\ q \in SendStorageType
      /\ app[e] \notin {"writing", "flushed"}
      /\ q.next_unsent = Number(e, 2) /\ q.queue_unsent = << >>
      /\ q.queue_sent # << >>
      /\ \A j \in DOMAIN q.queue_sent : q.queue_sent[j] = FinishEntry(e)
  <2>1. CASE elapsed
    <3>1. snd[e].queue_sent # << >> /\ elapsed = TRUE
      BY <1>3, <2>1
    <3>2. /\ app[e] \notin {"writing", "flushed"} /\ FinishSent(e)
          /\ snd[e].queue_unsent = << >>
          /\ \A j \in DOMAIN snd[e].queue_sent :
               snd[e].queue_sent[j] = FinishEntry(e)
      BY <1>1, <3>1 DEF SendInv, Waiting, SentOnce, Cleared, IsEmpty
    <3>3. /\ q \in SendStorageType
          /\ q.queue_unsent = snd[e].queue_unsent
          /\ q.next_unsent = snd[e].next_unsent
          /\ PoppedSegment(snd[e], elapsed) \in SentSegment
          /\ Holds(snd[e].queue_sent, PoppedSegment(snd[e], elapsed))
          /\ Len(q.queue_sent) = Len(snd[e].queue_sent)
          /\ \A x : Holds(q.queue_sent, x) <=> Holds(snd[e].queue_sent, x)
      BY <1>5, <3>1, RotateFields
    <3> HIDE DEF q
    <3>4. PoppedSegment(snd[e], elapsed) = FinishEntry(e)
      BY <3>2, <3>3 DEF Holds
    <3>5. \A j \in DOMAIN q.queue_sent : q.queue_sent[j] = FinishEntry(e)
      BY <3>2, <3>3 DEF Holds
    <3>6. q.queue_sent # << >>
      <4>1. snd[e].queue_sent \in Seq(SentSegment) /\ q.queue_sent \in Seq(SentSegment)
        BY <1>5, <3>3 DEF SendStorageType
      <4>2. QED
        BY <3>1, <3>3, <4>1
    <3>7. QED
      BY <3>2, <3>3, <3>4, <3>5, <3>6 DEF FinishSent
  <2>2. CASE ~ elapsed
    <3>1. snd[e].queue_unsent # << >> /\ elapsed = FALSE
      BY <1>3, <2>2
    <3>2. /\ app[e] \notin {"writing", "flushed"}
          /\ snd[e].next_unsent = Number(e, 1)
          /\ snd[e].queue_sent = << >> /\ snd[e].queue_unsent = << Finish >>
      BY <1>1, <3>1 DEF SendInv, Waiting, SentOnce, Cleared, IsEmpty
    <3>3. Head(<< Finish >>) = Finish /\ Tail(<< Finish >>) = << >>
      OBVIOUS
    <3>4. [ seq_num |-> snd[e].next_unsent,
            variant |-> Head(snd[e].queue_unsent) ] = FinishEntry(e)
      BY <3>2, <3>3 DEF FinishEntry
    <3>5. /\ q \in SendStorageType
          /\ PoppedSegment(snd[e], elapsed) = FinishEntry(e)
          /\ FinishEntry(e) \in SentSegment
          /\ q.queue_sent = Append(snd[e].queue_sent, FinishEntry(e))
          /\ q.queue_unsent = Tail(snd[e].queue_unsent)
          /\ q.next_unsent = Plus(snd[e].next_unsent, 1)
      BY <1>5, <3>1, <3>4, TransmitFields
    <3> HIDE DEF q
    <3>6. q.queue_sent = << FinishEntry(e) >>
      BY <3>2, <3>5
    <3>7. q.next_unsent = Number(e, 2)
      BY <3>2, <3>5, Numbers
    <3>8. QED
      BY <3>2, <3>3, <3>5, <3>6, <3>7
  <2>3. QED
    BY <2>1, <2>2
<1>7. /\ m \in Datagram /\ m.kind = "Sequential"
      /\ m.seq_num = Number(e, 1) /\ m.variant = Finish
  BY <1>6 DEF Datagram, SequentialMessage, FinishEntry
<1> HIDE DEF o, q, m
<1>8. sendFinished' = sendFinished /\ recvFinished' = recvFinished
  BY <1>3 DEF finished
<1>9. /\ snd \in [Ends -> SendStorageType] /\ net \in [Ends -> Datagram]
  BY <1>1 DEF TypeOK
<1>10. /\ snd' \in [Ends -> SendStorageType]
       /\ snd'[e] = q /\ snd'[o] = snd[o]
       /\ net' \in [Ends -> Datagram]
       /\ net'[e] = net[e] /\ net'[o] = m
  BY <1>2, <1>3, <1>6, <1>7, <1>9
<1>11. TypeOK'
  BY <1>1, <1>3, <1>8, <1>10 DEF TypeOK
<1>12. Untouched(o)
  BY <1>3, <1>8, <1>10 DEF Untouched
<1>13. /\ FinishSent(e)'
       /\ FinishSent(o) => FinishSent(o)'
       /\ HasFinish(e) => HasFinish(e)'
       /\ HasFinish(o) => HasFinish(o)'
       /\ Errored(e)' <=> Errored(e)
  BY <1>3, <1>6, <1>8, <1>10 DEF FinishSent, HasFinish, Errored
<1>14. RecvInv(e)'
  BY <1>1, <1>3, <1>8, <1>13, RecvKept DEF o
<1>15. SendInv(e)'
  <2>1. /\ e \in sendFinished => app[e] \in {"done", "dropped"}
        /\ e \in sendFinished /\ ~ Errored(e) => HasFinish(o)
    BY <1>1 DEF SendInv, o
  <2>2. SentOnce(e)' /\ snd'[e].queue_sent # << >>
    BY <1>3, <1>6, <1>10, <1>13 DEF SentOnce, FinishEntry
  <2>3. QED
    BY <1>3, <1>8, <1>13, <2>1, <2>2 DEF SendInv, o
<1>16. NetInv(o)'
  BY <1>2, <1>7, <1>10, <1>13 DEF NetInv
<1>17. conn_state'[e] # "segment"
  BY <1>1, <1>3 DEF OnlyResetsBreak
<1>18. \A x \in Ends : net'[x] = net[x] \/ NetInv(x)'
  BY <1>2, <1>10, <1>16
<1>19. OnlyResetsBreak' /\ \A x \in Ends : SendInv(x)' /\ RecvInv(x)' /\ NetInv(x)'
  BY <1>12, <1>13, <1>14, <1>15, <1>17, <1>18, OtherKept DEF o
<1>20. QED
  BY <1>11, <1>19 DEF IInv

-----------------------------------------------------------------------------
(* Datagrams that arrive                                                    *)

\* An acknowledgement is never taken for an error, and takes FINISH from
\* the storage only when the peer has it.
LEMMA RecvAckStep ==
  ASSUME IInv, NEW e \in Ends, RecvAck(e)
  PROVE  IInv'
<1> DEFINE o == Other(e)
           num == net[e].seq_num
           s == snd[e]
           q == AfterAcknowledge(s, num)
<1>1. /\ TypeOK /\ SendInv(e) /\ RecvInv(e) /\ OnlyResetsBreak /\ NetInv(e)
      /\ RecvInv(o)
  BY TwoEnds DEF IInv
<1>2. o \in Ends /\ o # e /\ Other(o) = e /\ Ends = {e, o}
  BY TwoEnds
<1>3. ~ Errored(e) /\ net[e].kind = "Acknowledge"
  BY DEF RecvAck, Ok, Arriving
<1>4. PICK k \in {0, 1} : num = Number(e, k) /\ (k = 1 => HasFinish(o))
  BY <1>1, <1>3 DEF NetInv
<1>5. HasFinish(o) => FinishSent(e)
  BY <1>1, <1>2 DEF RecvInv
<1>6. s \in SendStorageType /\ s.queue_sent \in Seq(SentSegment)
  BY <1>1, Types
<1> HIDE DEF num, s, o
<1>7. \/ /\ s.next_unsent = Number(e, 1) /\ k = 0
         /\ s.queue_sent = << >>
      \/ /\ s.next_unsent = Number(e, 2)
         /\ \A j \in DOMAIN s.queue_sent : s.queue_sent[j] = FinishEntry(e)
         /\ HasFinish(o) \/ s.queue_sent # << >>
  <2>1. CASE Waiting(e)
    BY <1>4, <1>5, <2>1, Numbers DEF Waiting, FinishSent, s
  <2>2. CASE SentOnce(e)
    BY <1>1, <1>3, <2>2 DEF SendInv, SentOnce, FinishSent, s, o
  <2>3. QED
    BY <1>1, <1>3, <2>1, <2>2 DEF SendInv, Cleared
<1>8. ~ AckRejects(s, num)
  <2>1. PICK n \in {1, 2} : s.next_unsent = Number(e, n) /\ n - k \in {1, 2}
    BY <1>7
  <2>2. Minus(Number(e, n), Number(e, k)) = Wrap(n - k)
    BY Numbers
  <2>3. Minus(s.next_unsent, num) \in {1, 2}
    BY <1>4, <2>1, <2>2, SmallNumbers
  <2>4. QED
    BY <2>3, Windows DEF AckRejects
<1>9. /\ snd' = [snd EXCEPT ![e] = q]
      /\ UNCHANGED << rcv, conn_state, net, finished, workers, app, listening >>
  BY <1>8 DEF RecvAck, s, num
<1>10. /\ q \in SendStorageType
       /\ q.queue_unsent = s.queue_unsent /\ q.next_unsent = s.next_unsent
       /\ Len(q.queue_sent) <= Len(s.queue_sent)
       /\ \A x : Holds(q.queue_sent, x) <=>
                   /\ Holds(s.queue_sent, x)
                   /\ Minus(num, x.seq_num) >= WINDOW_SIZE
  BY <1>6, AcknowledgeFields
<1> HIDE DEF q
<1>11. sendFinished' = sendFinished /\ recvFinished' = recvFinished
  BY <1>9 DEF finished
<1>12. snd' \in [Ends -> SendStorageType] /\ snd'[e] = q /\ snd'[o] = snd[o]
  BY <1>1, <1>2, <1>9, <1>10 DEF TypeOK
<1>13. TypeOK'
  BY <1>1, <1>9, <1>11, <1>12 DEF TypeOK
<1>14. Untouched(o)
  BY <1>9, <1>11, <1>12 DEF Untouched
<1>15. /\ FinishSent(e)' <=> FinishSent(e)
       /\ FinishSent(o) => FinishSent(o)'
       /\ HasFinish(e) => HasFinish(e)'
       /\ HasFinish(o)' <=> HasFinish(o)
       /\ ~ Errored(e)'
  BY <1>3, <1>9, <1>10, <1>11, <1>12 DEF FinishSent, HasFinish, Errored, s
<1>16. RecvInv(e)'
  BY <1>1, <1>3, <1>9, <1>11, <1>15, RecvKept DEF o
<1>17. q.queue_sent \in Seq(SentSegment)
  BY <1>10 DEF SendStorageType
<1>18. SendInv(e)'
  <2>1. CASE s.queue_sent = << >>
    <3>1. q.queue_sent = << >>
      BY <1>10, <1>17, <2>1
    <3>2. q = s
      BY <1>6, <1>10, <2>1, <3>1 DEF SendStorageType
    <3>3. QED
      BY <1>1, <1>9, <1>11, <1>12, <1>15, <3>2, SendKept DEF s, o
  <2>2. CASE s.queue_sent # << >>
    <3>1. /\ app[e] \notin {"writing", "flushed"} /\ FinishSent(e)
          /\ s.queue_unsent = << >>
          /\ \A j \in DOMAIN s.queue_sent : s.queue_sent[j] = FinishEntry(e)
      BY <1>1, <1>3, <2>2 DEF SendInv, Waiting, SentOnce, Cleared, s
    <3>2. \A j \in DOMAIN q.queue_sent : q.queue_sent[j] = FinishEntry(e)
      BY <1>10, <3>1 DEF Holds
    <3>3. HasFinish(o) \/ q.queue_sent # << >>
      <4> SUFFICES ASSUME ~ HasFinish(o) PROVE q.queue_sent # << >>
        OBVIOUS
      <4>1. num = Number(e, 0)
        BY <1>4
      <4>2. Minus(Number(e, 0), Number(e, 1)) = Wrap(0 - 1)
        BY Numbers
      <4>3. Minus(num, FinishEntry(e).seq_num) >= WINDOW_SIZE
        BY <4>1, <4>2, SmallNumbers, Windows DEF FinishEntry
      <4>4. Holds(s.queue_sent, FinishEntry(e))
        BY <1>6, <2>2, <3>1 DEF Holds
      <4>5. Holds(q.queue_sent, FinishEntry(e))
        BY <1>10, <4>3, <4>4
      <4>6. QED
        BY <4>5 DEF Holds
    <3>4. /\ e \in sendFinished => app[e] \in {"done", "dropped"}
          /\ e \in sendFinished => HasFinish(o)
      BY <1>1, <1>3 DEF SendInv, o
    <3>5. SentOnce(e)'
      BY <1>9, <1>10, <1>12, <1>15, <3>1, <3>2 DEF SentOnce, FinishEntry
    <3>6. QED
      BY <1>9, <1>11, <1>12, <1>15, <3>3, <3>4, <3>5 DEF SendInv, o
  <2>3. QED
    BY <2>1, <2>2
<1>19. conn_state'[e] # "segment"
  BY <1>1, <1>9 DEF OnlyResetsBreak
<1>20. \A x \in Ends : net'[x] = net[x]
  BY <1>9
<1>21. OnlyResetsBreak' /\ \A x \in Ends : SendInv(x)' /\ RecvInv(x)' /\ NetInv(x)'
  BY <1>14, <1>15, <1>16, <1>18, <1>19, <1>20, OtherKept DEF o
<1>22. QED
  BY <1>13, <1>21 DEF IInv

\* FINISH, or FINISH once more, is accepted, and the storage then represents
\* what has come; too few segments come for it to forget any.
LEMMA FinishAccepted ==
  ASSUME NEW b \in Int, NEW r, IsRecvStorage(r), NEW w \in {1, 2}, NEW l \in 0 .. 1,
         Represents(r, b, w, l, Segments)
  PROVE  LET q == AfterRecv(r, Wrap(b + 1), Finish) IN
         /\ ~ RecvRejects(r, Wrap(b + 1), Finish)
         /\ IsRecvStorage(q)
         /\ \E v \in w .. 2 :
              /\ Represents(q, b, v, l, Segments)
              /\ q.pop_queue = r.pop_queue \o Handed(Segments, w, v)
<1> DEFINE s == Wrap(b + 1)
           q == AfterRecv(r, s, Finish)
<1>1. /\ WINDOW_SIZE \in Nat /\ WINDOW_SIZE > 2
      /\ Modulus \in Nat /\ Modulus >= 2 * WINDOW_SIZE
  BY Windows
<1>2. /\ Segments \in [0 .. 1 -> SequentialSegment]
      /\ Segments[1] = Finish /\ DOMAIN Segments = 0 .. 1
  BY DEF Segments, SequentialSegment
<1>3. /\ r.window = Wrap(b + w) /\ r.lower_bound = Wrap(b + l)
      /\ \A p \in l .. w - 1 : Present(r, Wrap(b + p))
      /\ \A k \in DOMAIN r.segments :
           \E p \in 0 .. 1 :
             p # w /\ k = Wrap(b + p) /\ r.segments[k] = Segments[p]
  BY <1>2 DEF Represents
<1>4. w = 2 => Present(r, s)
  BY <1>3
<1>5. Present(r, s) => w = 2 /\ IsDuplicate(r, s, Finish)
  <2> SUFFICES ASSUME Present(r, s) PROVE w = 2 /\ IsDuplicate(r, s, Finish)
    OBVIOUS
  <2>1. PICK p \in 0 .. 1 : p # w /\ s = Wrap(b + p) /\ r.segments[s] = Segments[p]
    BY <1>3 DEF Present
  <2>2. p = 1
    <3> DEFINE i == b + 1
               j == b + p
    <3>1. i \in Int /\ j \in Int /\ i - j < Modulus /\ j - i < Modulus
      BY <1>1
    <3>2. Wrap(i) = Wrap(j)
      BY <2>1
    <3> HIDE DEF i, j
    <3>3. i = j
      BY <3>1, <3>2, WrapInjective
    <3>4. QED
      BY <3>3 DEF i, j
  <2>3. QED
    BY <1>2, <2>1, <2>2 DEF IsDuplicate
<1>6. ~ RecvRejects(r, s, Finish)
  <2>1. Minus(s, r.lower_bound) = Wrap(1 - l)
    <3>1. 1 \in Int /\ l \in Int
      OBVIOUS
    <3>2. Minus(Wrap(b + 1), Wrap(b + l)) = Wrap(1 - l)
      BY <3>1, CountedNumbers
    <3>3. QED
      BY <1>3, <3>2
  <2>2. 1 - l \in {0, 1}
    OBVIOUS
  <2>3. Wrap(1 - l) \in {0, 1}
    BY <2>2, SmallNumbers
  <2> DEFINE x == w + WINDOW_SIZE
  <2>4. x \in Int /\ l \in Int /\ x - l \in 0 .. Modulus - 1 /\ x - l > 1
    BY <1>1
  <2>5. Plus(r.window, WINDOW_SIZE) = Wrap(b + x)
    <3>1. w \in Int /\ WINDOW_SIZE \in Int
      BY <1>1
    <3>2. Plus(Wrap(b + w), WINDOW_SIZE) = Wrap(b + (w + WINDOW_SIZE))
      BY <3>1, CountedNumbers
    <3>3. QED
      BY <1>3, <3>2
  <2> HIDE DEF x
  <2>6. Minus(Wrap(b + x), Wrap(b + l)) = Wrap(x - l)
    BY <2>4, CountedNumbers
  <2>7. Wrap(x - l) = x - l
    BY <2>4, WrapSmall
  <2>8. ValidSeqNum(r, s)
    BY <1>3, <2>1, <2>3, <2>4, <2>5, <2>6, <2>7 DEF ValidSeqNum
  <2>9. QED
    BY <1>5, <2>8 DEF RecvRejects
<1>7. IsRecvStorage(q) /\ Advances(r, q, b, w, l, 1, Segments)
  <2>1. IsRecent(1, w) /\ w <= 1 + 1 /\ 1 \in 0 .. 1 /\ 1 \in Nat
    BY <1>1 DEF IsRecent
  <2>2. ~ RecvRejects(r, Wrap(b + 1), Segments[1])
    BY <1>2, <1>6
  <2>3. LET t == AfterRecv(r, Wrap(b + 1), Segments[1]) IN
        IsRecvStorage(t) /\ Advances(r, t, b, w, l, 1, Segments)
    BY <1>2, <2>1, <2>2, RecvInOrder
  <2>4. QED
    BY <1>2, <2>3
<1>8. PICK v \in w .. 1 + 1, h \in Nat :
        /\ Represents(q, b, v, h, Segments)
        /\ q.pop_queue = r.pop_queue \o Handed(Segments, w, v)
  BY <1>7 DEF Advances
<1>9. v \in w .. 2 /\ v \in 1 .. 2
  BY <1>8
<1>10. q.window = Wrap(b + v) /\ q.lower_bound = Wrap(b + h) /\ h \in 0 .. v
  BY <1>8 DEF Represents
<1>11. s \in SeqNum /\ Finish \in SequentialSegment
  <2>1. b + 1 \in Int
    OBVIOUS
  <2>2. QED
    BY <2>1, WrapIsRemainder DEF SequentialSegment
<1>12. q.lower_bound = r.lower_bound
  <2>1. CASE IsDuplicate(r, s, Finish)
    <3>1. q = [r EXCEPT !.urgent_ack = TRUE]
      BY <2>1 DEF AfterRecv
    <3>2. QED
      BY <3>1 DEF IsRecvStorage
  <2>2. CASE ~ IsDuplicate(r, s, Finish)
    <3> DEFINE t == Insert(r, s, Finish)
    <3>1. w = 1 /\ s = r.window
      BY <1>3, <1>4, <1>5, <2>2
    <3>2. q = Slide(t)
      BY <2>2, <3>1 DEF AfterRecv
    <3>3. /\ IsRecvStorage(t)
          /\ t.window = r.window /\ t.lower_bound = r.lower_bound
      BY <1>11, InsertFields
    <3> HIDE DEF t, q
    <3>4. /\ q.window = Plus(t.window, SlideLength(t))
          /\ q.lower_bound = IF Behind(t) < WINDOW_SIZE
                               THEN Plus(t.lower_bound, Behind(t)) ELSE t.lower_bound
      BY <3>2, <3>3 DEF Slide, IsRecvStorage
    <3>5. Behind(t) = Minus(Minus(Wrap(b + v), WINDOW_SIZE), Wrap(b + l))
      BY <1>3, <1>10, <3>3, <3>4 DEF Behind
    <3> DEFINE x == v - WINDOW_SIZE
    <3>6. x \in Int /\ l \in Int /\ x - l \in -Modulus .. -1
          /\ x - l + Modulus >= WINDOW_SIZE
      BY <1>1, <1>9
    <3>7. Minus(Wrap(b + v), WINDOW_SIZE) = Wrap(b + x)
      BY <1>1, <1>9, CountedNumbers
    <3> HIDE DEF x
    <3>8. Minus(Wrap(b + x), Wrap(b + l)) = Wrap(x - l)
      BY <3>6, CountedNumbers
    <3>9. Wrap(x - l) = x - l + Modulus
      BY <3>6, WrapSmall
    <3>10. ~ (Behind(t) < WINDOW_SIZE)
      BY <1>1, <3>5, <3>6, <3>7, <3>8, <3>9
    <3>11. QED
      BY <3>3, <3>4, <3>10
  <2>3. QED
    BY <2>1, <2>2
<1>13. h = l
  <2> DEFINE i == b + h
             j == b + l
  <2>1. i \in Int /\ j \in Int /\ i - j < Modulus /\ j - i < Modulus
    BY <1>1, <1>9, <1>10
  <2>2. Wrap(i) = Wrap(j)
    BY <1>3, <1>10, <1>12
  <2> HIDE DEF i, j
  <2>3. i = j
    BY <2>1, <2>2, WrapInjective
  <2>4. QED
    BY <2>3, <1>10 DEF i, j
<1>14. QED
  BY <1>6, <1>7, <1>8, <1>9, <1>13

LEMMA RecvSegmentStep ==
  ASSUME IInv, NEW e \in Ends, RecvSegment(e)
  PROVE  IInv'
<1> DEFINE o == Other(e)
           s == Wrap(Start(o) + 1)
           w == Position(e)
           q == AfterRecv(rcv[e], s, Finish)
<1>1. TypeOK /\ SendInv(e) /\ RecvInv(e) /\ OnlyResetsBreak /\ NetInv(e)
  BY DEF IInv
<1>2. o \in Ends /\ o # e /\ Other(o) = e /\ Ends = {e, o}
  BY TwoEnds
<1>3. ~ Errored(e) /\ net[e].kind = "Sequential"
  BY DEF RecvSegment, Ok, Arriving
<1>4. net[e].seq_num = s /\ net[e].variant = Finish /\ FinishSent(o)
  BY <1>1, <1>3 DEF NetInv, Number
<1>5. Start(o) \in Int /\ w \in {1, 2}
  BY <1>2, Windows DEF Position
<1>6. IsRecvStorage(rcv[e])
  BY <1>1, Types
<1>7. PICK l \in 0 .. 1 : Represents(rcv[e], Start(o), w, l, Segments)
  BY <1>1, <1>3 DEF RecvInv
<1> HIDE DEF w
<1>8. /\ ~ RecvRejects(rcv[e], s, Finish)
      /\ IsRecvStorage(q)
      /\ \E v \in w .. 2 :
           /\ Represents(q, Start(o), v, l, Segments)
           /\ q.pop_queue = rcv[e].pop_queue \o Handed(Segments, w, v)
  BY <1>5, <1>6, <1>7, FinishAccepted
<1>9. /\ rcv' = [rcv EXCEPT ![e] = q]
      /\ UNCHANGED << snd, conn_state, net, finished, workers, app, listening >>
  BY <1>4, <1>8 DEF RecvSegment
<1>10. PICK v \in w .. 2 :
         /\ Represents(q, Start(o), v, l, Segments)
         /\ q.pop_queue = rcv[e].pop_queue \o Handed(Segments, w, v)
  BY <1>8
<1> HIDE DEF q, o, s
<1>11. sendFinished' = sendFinished /\ recvFinished' = recvFinished
  BY <1>9 DEF finished
<1>12. rcv = [x \in Ends |-> rcv[x]] /\ \A x \in Ends : IsRecvStorage(rcv[x])
  BY <1>1 DEF TypeOK
<1>13. rcv'[e] = q /\ rcv'[o] = rcv[o] /\ rcv' = [x \in Ends |-> rcv'[x]]
  BY <1>2, <1>9, <1>12
<1>14. \A x \in Ends : IsRecvStorage(rcv'[x])
  BY <1>2, <1>8, <1>12, <1>13
<1>15. TypeOK'
  BY <1>1, <1>9, <1>11, <1>13, <1>14 DEF TypeOK
<1>16. Untouched(o)
  BY <1>9, <1>11, <1>13 DEF Untouched
<1>17. /\ FinishSent(e) => FinishSent(e)'
       /\ FinishSent(o)'
       /\ HasFinish(o) => HasFinish(o)'
       /\ ~ Errored(e)'
  BY <1>3, <1>4, <1>9, <1>11, <1>13 DEF FinishSent, HasFinish, Errored
<1>18. \/ /\ v = w /\ q.pop_queue = rcv[e].pop_queue
       \/ /\ w = 1 /\ v = 2 /\ Holds(q.pop_queue, Finish)
  <2>1. rcv[e].pop_queue \in Seq(SequentialSegment)
    BY <1>6 DEF IsRecvStorage
  <2>2. CASE v = w
    <3>1. Handed(Segments, w, v) = << >>
      BY <1>5, <2>2 DEF Handed
    <3>2. QED
      BY <1>10, <2>1, <2>2, <3>1
  <2>3. CASE w = 1 /\ v = 2
    <3>1. Handed(Segments, w, v) = << Finish >>
      BY <2>3 DEF Handed, Segments
    <3>2. q.pop_queue = Append(rcv[e].pop_queue, Finish)
      BY <1>10, <2>1, <3>1
    <3>3. /\ Len(rcv[e].pop_queue) + 1 \in DOMAIN q.pop_queue
          /\ q.pop_queue[Len(rcv[e].pop_queue) + 1] = Finish
      BY <2>1, <3>2
    <3>4. QED
      BY <2>3, <3>3 DEF Holds
  <2>4. QED
    BY <1>5, <2>2, <2>3
<1>19. (HasFinish(e) => HasFinish(e)') /\ Position(e)' = v
  BY <1>11, <1>13, <1>18 DEF HasFinish, Position, w
<1>20. RecvInv(e)'
  <2>1. q.window = Number(o, v)
    BY <1>10 DEF Represents, Number
  <2>2. CanPop(q) => HasFinish(e)'
    BY <1>1, <1>11, <1>13, <1>18, <1>19 DEF CanPop, RecvInv, HasFinish
  <2>3. QED
    BY <1>10, <1>13, <1>17, <1>19, <2>1, <2>2 DEF RecvInv, o
<1>21. SendInv(e)'
  BY <1>1, <1>9, <1>11, <1>17, SendKept DEF o
<1>22. conn_state'[e] # "segment"
  BY <1>1, <1>9 DEF OnlyResetsBreak
<1>23. \A x \in Ends : net'[x] = net[x]
  BY <1>9
<1>24. OnlyResetsBreak' /\ \A x \in Ends : SendInv(x)' /\ RecvInv(x)' /\ NetInv(x)'
  BY <1>16, <1>17, <1>19, <1>20, <1>21, <1>22, <1>23, OtherKept DEF o
<1>25. QED
  BY <1>15, <1>24 DEF IInv

LEMMA RecvClosedStep ==
  ASSUME IInv, NEW e \in Ends, RecvClosed(e)
  PROVE  IInv'
<1>1. TypeOK
  BY DEF IInv
<1>2. /\ UNCHANGED << snd, rcv, conn_state, finished, app >>
      /\ workers' = workers /\ listening' \subseteq listening
      /\ net' = Sent(e, ResetMessage)
  BY DEF RecvClosed
<1>3. QED
  BY <1>1, <1>2, ResetIsSent, NetStep

LEMMA LoseStep ==
  ASSUME IInv, Lose
  PROVE  IInv'
<1>1. net \in [Ends -> Datagram] /\ NoDatagram \in Datagram
  BY DEF IInv, TypeOK, Datagram
<1>2. PICK e \in Ends : net' = [net EXCEPT ![e] = NoDatagram]
  BY DEF Lose
<1>3. /\ UNCHANGED << snd, rcv, conn_state, finished, app >>
      /\ workers' = workers /\ listening' = listening
  BY DEF Lose
<1>4. /\ net' \in [Ends -> Datagram]
      /\ \A x \in Ends : net'[x] \in {net[x], NoDatagram, ResetMessage}
  BY <1>1, <1>2
<1>5. QED
  BY <1>3, <1>4, NetStep

-----------------------------------------------------------------------------
(* The beginning                                                            *)

\* What the handshake leaves to send: nothing, of the server's ACCEPT either.
LEMMA InitialSend ==
  ASSUME Init, NEW e \in Ends
  PROVE  /\ snd[e] \in SendStorageType
         /\ snd[e].next_unsent = Number(e, 1)
         /\ snd[e].queue_sent = << >> /\ snd[e].queue_unsent = << >>
<1>1. Plus(Start(e), 1) = Number(e, 1) /\ Number(e, 1) \in SeqNum
  BY Numbers DEF Plus, Number
<1>2. CASE e = "client"
  <2>1. snd[e] = [ queue_sent |-> << >>, queue_unsent |-> << >>,
                   next_unsent |-> Plus(Establish, 1) ]
    BY <1>2 DEF Init, SendNewByLocal
  <2>2. Start(e) = Establish
    BY <1>2 DEF Start
  <2>3. << >> \in Seq(SentSegment) /\ << >> \in Seq(SequentialSegment)
    OBVIOUS
  <2>4. QED
    BY <1>1, <2>1, <2>2, <2>3 DEF SendStorageType
<1>3. CASE e = "server"
  <2> DEFINE s == SendNewByPeer(AcceptNum)
             p == AfterPopSegment(s, FALSE)
             q == AfterAcknowledge(p, AcceptNum)
             entry == [ seq_num |-> s.next_unsent, variant |-> Head(s.queue_unsent) ]
  <2>1. snd[e] = q /\ Start(e) = AcceptNum
    BY <1>3 DEF Init, Start
  <2>2. /\ s.queue_sent = << >> /\ s.queue_unsent = << Accept >>
        /\ s.next_unsent = AcceptNum
        /\ s = [ queue_sent |-> << >>, queue_unsent |-> << Accept >>,
                 next_unsent |-> AcceptNum ]
    BY DEF SendNewByPeer
  <2>3. << >> \in Seq(SentSegment) /\ << Accept >> \in Seq(SequentialSegment)
    BY DEF SequentialSegment
  <2>4. s \in SendStorageType
    BY <2>2, <2>3, DuplexAssumption DEF SendStorageType
  <2>5. << Accept >> # << >> /\ Tail(<< Accept >>) = << >>
    OBVIOUS
  <2> HIDE DEF s
  <2>6. /\ p \in SendStorageType
        /\ p.queue_sent = Append(s.queue_sent, entry)
        /\ p.queue_unsent = Tail(s.queue_unsent)
        /\ p.next_unsent = Plus(s.next_unsent, 1)
    BY <2>2, <2>4, <2>5, TransmitFields
  <2> HIDE DEF p
  <2>7. /\ q \in SendStorageType
        /\ q.queue_unsent = p.queue_unsent /\ q.next_unsent = p.next_unsent
        /\ \A x : Holds(q.queue_sent, x) <=>
                    /\ Holds(p.queue_sent, x)
                    /\ Minus(AcceptNum, x.seq_num) >= WINDOW_SIZE
    BY <2>6, AcknowledgeFields
  <2>8. p.queue_sent = << entry >> /\ entry.seq_num = AcceptNum
    BY <2>2, <2>6
  <2>9. Minus(AcceptNum, AcceptNum) = 0
    <3>1. AcceptNum \in Int /\ AcceptNum - AcceptNum = 0
      BY <2>1, Windows
    <3>2. QED
      BY <3>1, SmallNumbers DEF Minus
  <2>10. q.queue_sent = << >>
    <3> HIDE DEF q, entry
    <3>1. q.queue_sent \in Seq(SentSegment)
      BY <2>7 DEF SendStorageType
    <3>2. SUFFICES ASSUME q.queue_sent # << >> PROVE FALSE
      OBVIOUS
    <3>3. 1 \in DOMAIN q.queue_sent
      BY <3>1, <3>2
    <3>4. PICK x : Holds(q.queue_sent, x)
      BY <3>3 DEF Holds
    <3>5. Holds(p.queue_sent, x) /\ Minus(AcceptNum, x.seq_num) >= WINDOW_SIZE
      BY <2>7, <3>4
    <3>6. x = entry
      BY <2>8, <3>5 DEF Holds
    <3>7. QED
      BY <2>8, <2>9, <3>5, <3>6, Windows
  <2>11. QED
    BY <1>1, <2>1, <2>2, <2>5, <2>6, <2>7, <2>10
<1>4. QED
  BY <1>2, <1>3 DEF Ends

\* What it leaves in the storages that receive: ACCEPT in the client's.
LEMMA InitialRecv ==
  ASSUME Init, NEW e \in Ends
  PROVE  /\ IsRecvStorage(rcv[e]) /\ rcv[e].pop_queue = << >>
         /\ \E l \in 0 .. 1 : Represents(rcv[e], Start(Other(e)), 1, l, Segments)
<1> DEFINE b == Start(Other(e))
<1>1. /\ b \in SeqNum /\ b \in Int /\ Wrap(b + 0) = b
      /\ Plus(b, 1) = Wrap(b + 1) /\ Plus(b, 1) \in SeqNum
  <2>1. b \in SeqNum /\ b \in Int
    BY TwoEnds, Windows
  <2>2. b + 0 = b /\ b \in 0 .. Modulus - 1
    BY <2>1 DEF SeqNum
  <2>3. Wrap(b) = b
    BY <2>1, <2>2, WrapSmall
  <2>4. Plus(b, 1) = Wrap(b + 1) /\ Plus(b, 1) \in SeqNum
    BY <2>1, ResultsAreSequenceNumbers DEF Plus
  <2>5. QED
    BY <2>1, <2>2, <2>3, <2>4
<1>2. /\ Segments[0] = Accept /\ DOMAIN Segments = 0 .. 1
      /\ Accept \in SequentialSegment /\ << >> \in Seq(SequentialSegment)
      /\ None \in SeqNum \cup {None}
  BY DEF Segments, SequentialSegment
<1>3. CASE e = "client"
  <2> DEFINE r == RecvNewByLocal(b)
             p == AfterPopAcknowledge(r, TRUE)
             q == AfterPopAcknowledge(p, TRUE)
  <2>1. rcv[e] = q
    BY <1>3 DEF Init, Start, Other, Acknowledged
  <2>2. r = [ segments    |-> [k \in {b} |-> Accept],
              pop_queue   |-> << >>,
              window      |-> Plus(b, 1),
              lower_bound |-> b,
              highest     |-> b,
              last_ack    |-> None,
              urgent_ack  |-> TRUE ]
    BY DEF RecvNewByLocal
  <2> HIDE DEF r
  <2>3. IsRecvStorage(r)
    <3>1. r.segments = [k \in {b} |-> Accept]
      BY <2>2
    <3>2. DOMAIN r.segments = {b} /\ r.segments \in [{b} -> SequentialSegment]
      BY <1>2, <3>1
    <3>3. r \in [ segments : {r.segments}, pop_queue : Seq(SequentialSegment),
                  window : SeqNum, lower_bound : SeqNum, highest : SeqNum,
                  last_ack : SeqNum \cup {None}, urgent_ack : BOOLEAN ]
      BY <1>1, <1>2, <2>2, <3>1
    <3>4. QED
      BY <1>1, <3>2, <3>3 DEF IsRecvStorage
  <2>4. Represents(r, b, 1, 0, Segments)
    <3>1. r.window = Wrap(b + 1) /\ r.lower_bound = Wrap(b + 0)
      BY <1>1, <2>2
    <3>2. \A x \in 0 .. 1 - 1 : Present(r, Wrap(b + x))
      <4>1. b \in DOMAIN r.segments
        BY <2>2
      <4>2. \A x \in 0 .. 1 - 1 : x = 0
        OBVIOUS
      <4>3. QED
        BY <1>1, <4>1, <4>2 DEF Present
    <3>3. \A k \in DOMAIN r.segments :
            /\ 0 \in DOMAIN Segments /\ 0 >= 0 /\ 0 - 0 < Modulus
            /\ 0 # 1 /\ 0 < 1 + WINDOW_SIZE
            /\ k = Wrap(b + 0) /\ r.segments[k] = Segments[0]
      BY <1>1, <1>2, <2>2, Windows
    <3>4. 1 \in Nat /\ 0 \in 0 .. 1 /\ 1 - 0 < Modulus
      BY Windows
    <3>5. QED
      BY <3>1, <3>2, <3>3, <3>4 DEF Represents
  <2>5. /\ IsRecvStorage(p) /\ p.pop_queue = r.pop_queue
        /\ p.window = r.window /\ p.lower_bound = r.lower_bound
        /\ p.segments = r.segments
    BY <2>3, PopAcknowledgeFields
  <2> HIDE DEF p
  <2>6. /\ IsRecvStorage(q) /\ q.pop_queue = p.pop_queue
        /\ q.window = p.window /\ q.lower_bound = p.lower_bound
        /\ q.segments = p.segments
    BY <2>5, PopAcknowledgeFields
  <2> HIDE DEF q
  <2>7. Represents(q, b, 1, 0, Segments)
    BY <2>4, <2>5, <2>6, SameRepresentation
  <2>8. q.pop_queue = << >>
    BY <2>2, <2>5, <2>6
  <2>9. QED
    BY <2>1, <2>6, <2>7, <2>8
<1>4. CASE e = "server"
  <2> DEFINE r == RecvNewByPeer(b)
             q == AfterPopAcknowledge(r, TRUE)
  <2>1. rcv[e] = q
    BY <1>4 DEF Init, Start, Other, Acknowledged
  <2>2. r = [ segments    |-> << >>,
              pop_queue   |-> << >>,
              window      |-> Plus(b, 1),
              lower_bound |-> Plus(b, 1),
              highest     |-> b,
              last_ack    |-> None,
              urgent_ack  |-> FALSE ]
    BY DEF RecvNewByPeer
  <2> HIDE DEF r
  <2>3. DOMAIN r.segments = {} /\ r.segments = << >>
    BY <2>2
  <2>4. IsRecvStorage(r)
    <3>1. r.segments \in [DOMAIN r.segments -> SequentialSegment]
      BY <2>3
    <3>2. r \in [ segments : {r.segments}, pop_queue : Seq(SequentialSegment),
                  window : SeqNum, lower_bound : SeqNum, highest : SeqNum,
                  last_ack : SeqNum \cup {None}, urgent_ack : BOOLEAN ]
      BY <1>1, <1>2, <2>2, <2>3
    <3>3. QED
      BY <2>3, <3>1, <3>2 DEF IsRecvStorage
  <2>5. Represents(r, b, 1, 1, Segments)
    <3>1. r.window = Wrap(b + 1) /\ r.lower_bound = Wrap(b + 1)
      BY <1>1, <2>2
    <3>2. 1 \in Nat /\ 1 \in 0 .. 1 /\ 1 - 1 < Modulus /\ 1 .. 1 - 1 = {}
      BY Windows
    <3>3. QED
      BY <2>3, <3>1, <3>2 DEF Represents
  <2>6. /\ IsRecvStorage(q) /\ q.pop_queue = r.pop_queue
        /\ q.window = r.window /\ q.lower_bound = r.lower_bound
        /\ q.segments = r.segments
    BY <2>4, PopAcknowledgeFields
  <2> HIDE DEF q
  <2>7. Represents(q, b, 1, 1, Segments)
    BY <2>5, <2>6, SameRepresentation
  <2>8. q.pop_queue = << >>
    BY <2>2, <2>6
  <2>9. QED
    BY <2>1, <2>6, <2>7, <2>8
<1>5. QED
  BY <1>3, <1>4 DEF Ends

LEMMA InitialInvariant == Init => IInv
<1> SUFFICES ASSUME Init PROVE IInv
  OBVIOUS
<1>1. /\ conn_state = [e \in Ends |-> "ok"] /\ sendFinished = {} /\ recvFinished = {}
      /\ workers = Ends /\ listening = Ends
      /\ app = [e \in Ends |-> "writing"]
      /\ net = [e \in Ends |-> NoDatagram]
  BY DEF Init
<1>2. snd = [e \in Ends |-> snd[e]] /\ rcv = [e \in Ends |-> rcv[e]]
  <2>1. DOMAIN snd = Ends /\ snd = [e \in DOMAIN snd |-> snd[e]]
    BY DEF Init
  <2>2. DOMAIN rcv = Ends /\ rcv = [e \in DOMAIN rcv |-> rcv[e]]
    BY DEF Init
  <2>3. QED
    BY <2>1, <2>2
<1>3. \A e \in Ends : snd[e] \in SendStorageType /\ IsRecvStorage(rcv[e])
  BY InitialSend, InitialRecv
<1>4. NoDatagram \in Datagram
  BY DEF Datagram
<1>5. TypeOK
  BY <1>1, <1>2, <1>3, <1>4 DEF TypeOK
<1>6. OnlyResetsBreak
  BY <1>1 DEF OnlyResetsBreak
<1>7. ASSUME NEW e \in Ends
      PROVE  SendInv(e) /\ RecvInv(e) /\ NetInv(e)
  <2>1. /\ snd[e].next_unsent = Number(e, 1)
        /\ snd[e].queue_sent = << >> /\ snd[e].queue_unsent = << >>
    BY InitialSend
  <2>2. SendInv(e)
    <3>1. Waiting(e)
      BY <1>1, <2>1 DEF Waiting
    <3>2. ~ SentOnce(e)
      BY <1>1 DEF SentOnce
    <3>3. QED
      BY <1>1, <3>1, <3>2 DEF SendInv
  <2>3. PICK l \in 0 .. 1 : Represents(rcv[e], Start(Other(e)), 1, l, Segments)
    BY InitialRecv
  <2>4. rcv[e].pop_queue = << >>
    BY InitialRecv
  <2>5. ~ HasFinish(e)
    <3>1. DOMAIN << >> = {}
      OBVIOUS
    <3>2. QED
      BY <1>1, <2>4, <3>1 DEF HasFinish, Holds
  <2>6. Position(e) = 1
    BY <2>5 DEF Position
  <2>7. rcv[e].window = Number(Other(e), 1)
    BY <2>3 DEF Represents, Number
  <2>8. RecvInv(e)
    BY <2>3, <2>4, <2>5, <2>6, <2>7 DEF RecvInv, CanPop
  <2>9. NetInv(e)
    BY <1>1 DEF NetInv, NoDatagram
  <2>10. QED
    BY <2>2, <2>8, <2>9
<1>8. QED
  BY <1>5, <1>6, <1>7 DEF IInv

-----------------------------------------------------------------------------
(* The theorems                                                             *)

LEMMA NextInvariant == IInv /\ [Next]_vars => IInv'
<1> SUFFICES ASSUME IInv, [Next]_vars PROVE IInv'
  OBVIOUS
<1>1. ASSUME NEW e \in Ends,
             \/ FinishWrite(e) \/ FinishPush(e) \/ FinishReturns(e)
             \/ Read(e) \/ Reset(e) \/ Drop(e) \/ WorkerQuits(e)
             \/ \E elapsed \in BOOLEAN : AckTick(e, elapsed) \/ Transmit(e, elapsed)
             \/ RecvAck(e) \/ RecvSegment(e) \/ RecvReset(e) \/ RecvClosed(e)
      PROVE  IInv'
  BY <1>1, FinishWriteStep, FinishPushStep, FinishReturnsStep, ReadStep, ResetStep, DropStep,
     WorkerQuitsStep, AckTickStep, TransmitStep, RecvAckStep, RecvSegmentStep,
     RecvResetStep, RecvClosedStep
<1>2. CASE Lose
  BY <1>2, LoseStep
<1>3. CASE UNCHANGED vars
  <2>1. /\ UNCHANGED << snd, rcv, conn_state, finished, app >>
        /\ workers' \subseteq workers /\ listening' \subseteq listening
        /\ net' = net
    BY <1>3 DEF vars
  <2>2. net \in [Ends -> Datagram]
    BY DEF IInv, TypeOK
  <2>3. QED
    BY <2>1, <2>2, NetStep
<1>4. QED
  BY <1>1, <1>2, <1>3 DEF Next

\* In every state of every behaviour, whatever the network loses or repeats
\* and whenever the applications finish, reset or drop.
THEOREM Invariance == Spec => []IInv
<1>1. Init => IInv
  BY InitialInvariant
<1>2. IInv /\ [Next]_vars => IInv'
  BY NextInvariant
<1>3. QED
  BY <1>1, <1>2, PTL DEF Spec

\* Both storages, the flags, the threads and the datagrams keep their types.
THEOREM TypeCorrect == Spec => []TypeOK
<1>1. IInv => TypeOK
  BY DEF IInv
<1>2. QED
  BY <1>1, Invariance, PTL

\* Neither stream ever takes a repeated FINISH, or an acknowledgement that
\* comes late or twice, for an error.
THEOREM OnlyResets == Spec => []OnlyResetsBreak
<1>1. IInv => OnlyResetsBreak
  BY DEF IInv
<1>2. QED
  BY <1>1, Invariance, PTL

\* Drop is quiet only when each side has received what the other one wrote:
\* a stream whose FINISH was not acknowledged resets the connection.
THEOREM CleanDrop == Spec => CleanDropIsComplete
<1> DEFINE A == \A e \in Ends :
                  Drop(e) /\ conn_state'[e] = "ok" => HasFinish(e) /\ HasFinish(Other(e))
<1>1. ASSUME IInv, NEW e \in Ends, Drop(e), conn_state'[e] = "ok"
      PROVE  HasFinish(e) /\ HasFinish(Other(e))
  <2>1. TypeOK /\ SendInv(e)
    BY <1>1 DEF IInv
  <2>2. ~ ErrorAndReset(e, "reset")
    <3>1. ErrorAndReset(e, "reset") => conn_state'[e] = "reset"
      BY <2>1, ErrorFields DEF ErrorAndReset
    <3>2. QED
      BY <1>1, <3>1
  <2>3. (Errored(e) \/ Finished(e)) /\ conn_state' = conn_state
    BY <1>1, <2>2 DEF Drop
  <2>4. ~ Errored(e) /\ Finished(e)
    BY <1>1, <2>3 DEF Errored
  <2>5. QED
    BY <2>1, <2>4 DEF Finished, SendInv, HasFinish
<1>2. IInv => [A]_vars
  BY <1>1
<1>3. QED
  BY <1>2, Invariance, PTL DEF CleanDropIsComplete
==============================================================================
