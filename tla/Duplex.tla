------------------------------- MODULE Duplex -------------------------------
(***************************************************************************)
(* Both directions of an established connection, and its end: two streams, *)
(* each with a SendStorage, a RecvStorage, its thread and its listener,    *)
(* and the applications that finish, reset and drop them.                  *)
(*                                                                         *)
(* The server's listener outlives its streams and answers for them.  The   *)
(* client's belongs to its stream: when that is dropped, the listener's    *)
(* thread is either about to end or waits in the socket, and then handles  *)
(* one more datagram before it does.                                       *)
(*                                                                         *)
(* FINISH stands for all that an application writes.  The segments before  *)
(* it are in SlidingWindow, as are reordering, wrapping and the limit of   *)
(* the window: here the network has one datagram at a time in each         *)
(* direction, which may arrive any number of times, and is lost at the     *)
(* latest to the next.                                                     *)
(***************************************************************************)
EXTENDS SendStorage, RecvStorage

CONSTANTS
  Establish,   (* The random numbers of the handshake.                     *)
  AcceptNum,
  Resetters    (* The ends whose application may break the connection: by  *)
               (* reset(), or by dropping the stream before it is finished.*)

Ends == {"client", "server"}
Other(e) == IF e = "client" THEN "server" ELSE "client"

\* The window has room for the handshake's segment and for FINISH; it is of
\* ten segments in the code.
ASSUME DuplexAssumption ==
  /\ Establish \in SeqNum /\ AcceptNum \in SeqNum
  /\ Resetters \subseteq Ends
  /\ WINDOW_SIZE > 2

VARIABLES
  snd, rcv,      (* send_storage and recv_storage of each stream           *)
  conn_state,    (* of each stream: "ok", or the error: a "reset" by its   *)
                 (* application or the peer, or a "segment" it refused     *)
  sendFinished,  (* the streams whose send_finished is set                 *)
  recvFinished,  (* the streams whose recv_finished is set                 *)
  workers,       (* the streams whose `__thread` runs                      *)
  app,           (* what each application is at                            *)
  listening,     (* the ends whose listener's thread runs                  *)
  net            (* the datagram in flight to each end, or NoDatagram      *)

finished == << sendFinished, recvFinished >>
vars == << snd, rcv, conn_state, finished, workers, app, listening, net >>

NoDatagram == [kind |-> "none"]
ResetMessage == [kind |-> "Reset"]
AckMessage(num) == [kind |-> "Acknowledge", seq_num |-> num]
SequentialMessage(entry) ==
  [kind |-> "Sequential", seq_num |-> entry.seq_num, variant |-> entry.variant]

Sent(e, m) == [net EXCEPT ![Other(e)] = m]   (* `_send_to` *)

Errored(e) == conn_state[e] # "ok"
Ok(e) == ~ Errored(e) /\ app[e] # "dropped"

Acknowledged(r) == AfterPopAcknowledge(r, TRUE)

\* The handshake is over, its ACCEPT acknowledged, and the threads have
\* had their first turns.
Init ==
  /\ snd = [e \in Ends |->
       IF e = "client" THEN SendNewByLocal(Establish)
       ELSE AfterAcknowledge(AfterPopSegment(SendNewByPeer(AcceptNum), FALSE), AcceptNum)]
  /\ rcv = [e \in Ends |->
       IF e = "client" THEN Acknowledged(Acknowledged(RecvNewByLocal(AcceptNum)))
       ELSE Acknowledged(RecvNewByPeer(Establish))]
  /\ conn_state = [e \in Ends |-> "ok"] /\ sendFinished = {} /\ recvFinished = {}
  /\ workers = Ends /\ listening = Ends
  /\ app = [e \in Ends |-> "writing"]
  /\ net = [e \in Ends |-> NoDatagram]

-----------------------------------------------------------------------------
(* StreamInner::error *)

Error(e, cause) ==
  /\ conn_state' = [conn_state EXCEPT ![e] = cause]
  /\ snd' = [snd EXCEPT ![e] = SendClear(@)]
  /\ rcv' = [rcv EXCEPT ![e] = RecvClear(@)]

ErrorAndReset(e, cause) == Error(e, cause) /\ net' = Sent(e, ResetMessage)

-----------------------------------------------------------------------------
(* The applications *)

\* finish_write up to the return of its flush, which finds the stream in order;
\* an application calls it once.
FinishWrite(e) ==
  /\ Ok(e) /\ app[e] = "writing"
  /\ app' = [app EXCEPT ![e] = "flushed"]
  /\ UNCHANGED << snd, rcv, conn_state, finished, workers, listening, net >>

\* And up to its waiting loop.  Nothing looks at the state again: after an
\* error FINISH goes to a storage that is cleared already.
FinishPush(e) ==
  /\ app[e] = "flushed"
  /\ ~ PushRejects(snd[e])
  /\ snd' = [snd EXCEPT ![e] = AfterPush(@, Finish)]
  /\ app' = [app EXCEPT ![e] = "finishing"]
  /\ UNCHANGED << rcv, conn_state, finished, workers, listening, net >>

\* A faulty finish_write that waits for the last transmission only.
FinishReturnsBug(e) ==
  /\ app[e] = "finishing" /\ snd[e].queue_unsent = << >>
  /\ app' = [app EXCEPT ![e] = "done"]
  /\ sendFinished' = sendFinished \cup {e}
  /\ UNCHANGED << snd, rcv, conn_state, recvFinished, workers, listening, net >>

FinishReturns(e) ==
  /\ app[e] = "finishing" /\ IsEmpty(snd[e])
  /\ app' = [app EXCEPT ![e] = "done"]
  /\ sendFinished' = sendFinished \cup {e}
  /\ UNCHANGED << snd, rcv, conn_state, recvFinished, workers, listening, net >>

\* A read that finds FINISH.
Read(e) ==
  /\ Ok(e) /\ e \notin recvFinished /\ CanPop(rcv[e])
  /\ rcv' = [rcv EXCEPT ![e] = AfterPop(@)]
  /\ recvFinished' = recvFinished \cup {e}
  /\ UNCHANGED << snd, conn_state, sendFinished, workers, app, listening, net >>

Reset(e) ==
  /\ Ok(e) /\ e \in Resetters
  /\ ErrorAndReset(e, "reset")
  /\ UNCHANGED << finished, workers, app, listening >>

Finished(e) == e \in sendFinished \cap recvFinished

\* The last Arc of the stream goes, and its `drop` runs.
Drop(e) ==
  /\ app[e] \in {"writing", "done"}
  /\ app' = [app EXCEPT ![e] = "dropped"]
  /\ workers' = workers \ {e}
  /\ listening' \in {listening, listening \ ({e} \cap {"client"})}
  /\ \/ /\ Errored(e) \/ Finished(e)
        /\ UNCHANGED << snd, rcv, conn_state, net >>
     \/ /\ ~ (Errored(e) \/ Finished(e)) /\ e \in Resetters
        /\ ErrorAndReset(e, "reset")
  /\ UNCHANGED finished

-----------------------------------------------------------------------------
(* The threads of the streams *)

\* A faulty thread that ends when finish_write has been called.
WorkerQuitsBug(e) ==
  /\ e \in workers
  /\ Errored(e) \/ e \in sendFinished \/ app[e] = "finishing"
  /\ workers' = workers \ {e}
  /\ UNCHANGED << snd, rcv, conn_state, finished, app, listening, net >>

\* The thread ends when it sees an error, or that its own side has finished.
WorkerQuits(e) ==
  /\ e \in workers
  /\ Errored(e) \/ e \in sendFinished
  /\ workers' = workers \ {e}
  /\ UNCHANGED << snd, rcv, conn_state, finished, app, listening, net >>

AckTick(e, elapsed) ==
  /\ e \in workers
  /\ AckIsDue(rcv[e], elapsed) \/ rcv[e].last_ack = None
  /\ rcv' = [rcv EXCEPT ![e] = AfterPopAcknowledge(@, elapsed)]
  /\ net' = IF AckIsDue(rcv[e], elapsed) THEN Sent(e, AckMessage(CurrentAck(rcv[e])))
            ELSE net
  /\ UNCHANGED << snd, conn_state, finished, workers, app, listening >>

Transmit(e, elapsed) ==
  /\ e \in workers
  /\ IF elapsed THEN RetransmitIsDue(snd[e], TRUE) ELSE CanPopUnsent(snd[e])
  /\ net' = Sent(e, SequentialMessage(PoppedSegment(snd[e], elapsed)))
  /\ snd' = [snd EXCEPT ![e] = AfterPopSegment(@, elapsed)]
  /\ UNCHANGED << rcv, conn_state, finished, workers, app, listening >>

-----------------------------------------------------------------------------
(* A datagram arrives: ListenerInner::__recv and StreamInner::recv_segment  *)

Arriving(e, kind) == net[e].kind = kind

RecvAck(e) ==
  /\ Ok(e) /\ Arriving(e, "Acknowledge")
  /\ \/ /\ AckRejects(snd[e], net[e].seq_num)
        /\ ErrorAndReset(e, "segment")
     \/ /\ ~ AckRejects(snd[e], net[e].seq_num)
        /\ snd' = [snd EXCEPT ![e] = AfterAcknowledge(@, net[e].seq_num)]
        /\ UNCHANGED << rcv, conn_state, net >>
  /\ UNCHANGED << finished, workers, app, listening >>

RecvSegment(e) ==
  /\ Ok(e) /\ Arriving(e, "Sequential")
  /\ \/ /\ RecvRejects(rcv[e], net[e].seq_num, net[e].variant)
        /\ ErrorAndReset(e, "segment")
     \/ /\ ~ RecvRejects(rcv[e], net[e].seq_num, net[e].variant)
        /\ rcv' = [rcv EXCEPT ![e] = AfterRecv(@, net[e].seq_num, net[e].variant)]
        /\ UNCHANGED << snd, conn_state, net >>
  /\ UNCHANGED << finished, workers, app, listening >>

RecvReset(e) ==
  /\ Ok(e) /\ Arriving(e, "Reset")
  /\ Error(e, "reset")
  /\ UNCHANGED << finished, workers, app, listening, net >>

\* A faulty listener that keeps silent about datagrams of no connection.
RecvClosedBug(e) ==
  /\ ~ Ok(e) /\ e \in listening /\ net[e] # NoDatagram
  /\ listening' = listening \ (IF app[e] = "dropped" THEN {"client"} \cap {e} ELSE {})
  /\ UNCHANGED << snd, rcv, conn_state, finished, workers, app, net >>

\* A datagram for a stream that has failed or is gone is answered with RESET.
\* The client's listener, when its stream is gone, handles one only.
RecvClosed(e) ==
  /\ ~ Ok(e) /\ e \in listening /\ net[e] # NoDatagram
  /\ net' = Sent(e, ResetMessage)
  /\ listening' = listening \ (IF app[e] = "dropped" THEN {"client"} \cap {e} ELSE {})
  /\ UNCHANGED << snd, rcv, conn_state, finished, workers, app >>

Lose ==
  /\ \E e \in Ends : net' = [net EXCEPT ![e] = NoDatagram]
  /\ UNCHANGED << snd, rcv, conn_state, finished, workers, app, listening >>

-----------------------------------------------------------------------------
Next ==
  \/ \E e \in Ends :
       \/ FinishWrite(e) \/ FinishPush(e) \/ FinishReturns(e)
       \/ Read(e) \/ Reset(e) \/ Drop(e) \/ WorkerQuits(e)
       \/ \E elapsed \in BOOLEAN : AckTick(e, elapsed) \/ Transmit(e, elapsed)
       \/ RecvAck(e) \/ RecvSegment(e) \/ RecvReset(e) \/ RecvClosed(e)
  \/ Lose

Spec == Init /\ [][Next]_vars

\* Threads run and timers go off, a waiting finish_write looks again, and
\* when datagrams of a kind are sent over and over some of them arrive.
Fairness ==
  \A e \in Ends :
    /\ WF_vars(\E elapsed \in BOOLEAN : Transmit(e, elapsed))
    /\ WF_vars(AckTick(e, TRUE)) /\ WF_vars(FinishReturns(e))
    /\ SF_vars(RecvSegment(e)) /\ SF_vars(RecvAck(e))
    /\ SF_vars(RecvReset(e) \/ RecvClosed(e))

FairSpec == Spec /\ Fairness

-----------------------------------------------------------------------------
Datagram ==
  {NoDatagram, ResetMessage} \cup {AckMessage(num) : num \in SeqNum}
    \cup {SequentialMessage(entry) : entry \in SentSegment}

TypeOK ==
  /\ snd \in [Ends -> SendStorageType]
  /\ rcv = [e \in Ends |-> rcv[e]] /\ \A e \in Ends : IsRecvStorage(rcv[e])
  /\ net \in [Ends -> Datagram]
  /\ \A ends \in {sendFinished, recvFinished, workers, listening} :
       ends \subseteq Ends
  /\ conn_state \in [Ends -> {"ok", "reset", "segment"}]
  /\ app \in [Ends -> {"writing", "flushed", "finishing", "done", "dropped"}]

-----------------------------------------------------------------------------
(* Properties *)

\* The stream has its peer's FINISH in order, read or not.
HasFinish(e) == e \in recvFinished \/ Holds(rcv[e].pop_queue, Finish)

\* A stream that is dropped without a RESET leaves nothing behind: each side
\* has received all that the other one wrote.
CleanDropIsComplete ==
  [][\A e \in Ends :
       Drop(e) /\ conn_state'[e] = "ok" => HasFinish(e) /\ HasFinish(Other(e))]_vars

\* Only a reset breaks a connection: neither stream takes a segment of its
\* peer for an error, whatever is repeated, while the peer finishes, fails or
\* goes.
OnlyResetsBreak == \A e \in Ends : conn_state[e] # "segment"

\* A broken connection is noticed at the other end, although its RESET may be
\* lost, while the thread there has not ended with finish_write and this
\* end's listener runs.
ErrorIsNoticed ==
  \A e \in Ends :
    Errored(e) ~> Errored(Other(e)) \/ Other(e) \in sendFinished \/ e \notin listening

\* finish_write whose FINISH was in the storage before any error returns, also
\* when the connection breaks then, if the peer's thread has not ended with a
\* finish_write of its own and its listener runs.
FinishReturnsInTime ==
  \A e \in Ends :
    app[e] = "finishing" /\ (Ok(e) \/ IsEmpty(snd[e])) ~>
      app[e] # "finishing" \/ Other(e) \in sendFinished \/ Other(e) \notin listening

\* finish_write returns if the peer's process and its socket stay, also when
\* the peer has finished writing before.
FinishWriteReturns ==
  \A e \in Ends :
    app[e] = "finishing" ~> app[e] # "finishing" \/ Other(e) \notin listening
=============================================================================
