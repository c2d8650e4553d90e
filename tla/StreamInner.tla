----------------------------- MODULE StreamInner ----------------------------
(***************************************************************************)
(* One endpoint of a connection, src/src/stream/inner.rs, at the grain of  *)
(* its locks: the application threads that call the methods of the stream  *)
(* through their handles, the stream's own thread (`__thread`), and the    *)
(* listener's thread, which hands it the datagrams of the peer.            *)
(*                                                                         *)
(* A step is what a thread does from one acquisition of a lock to the      *)
(* next.  A lock that is taken and released within a step needs only to be *)
(* free; `holder` has the ones that a thread keeps over several steps.     *)
(* The peer follows the protocol, and its segments arrive in order.        *)
(***************************************************************************)
EXTENDS SendStorage, RecvStorage, SequencesExt

CONSTANTS
  Handles,       (* Application threads, each with a handle of its own.    *)
  Calls,         (* The methods each of them calls: a set for each handle. *)
  MaxCalls,      (* Bound on the calls of a handle.                        *)
  MAX_DATA_LEN,  (* Bytes of a DATA segment; 510 in the code.              *)
  BufferLens,    (* The lengths of the buffers passed to write and read.   *)
  PeerStream,    (* The sequential segments that the peer sends, in order. *)
  Arriving,      (* The kinds of datagram that arrive.                     *)
  SendFails,     (* Whether the socket may refuse to send: TRUE or FALSE.  *)
  MaxBytes       (* Bound on the bytes that the application writes.        *)

Methods == {"write", "flush", "finish_write", "read", "reset", "drop"}
Kinds == {"Reset", "Establish", "Undecodable", "Acknowledge", "Sequential"}
Threads == Handles \cup {"worker", "listener"}
Locks == {"conn_state", "send_buffer", "send_storage", "recv_buffer",
          "recv_storage"}
Nobody == "nobody"
Poison == "poison"   \* a thread panicked while it held the lock

\* The bytes of a segment are a sequence, and every short enough sequence of
\* the bytes that the application writes makes a segment.
ASSUME StreamInnerAssumption ==
  /\ Handles \cap {"worker", "listener", Nobody, Poison} = {}
  /\ Calls \in [Handles -> SUBSET Methods]
  /\ MaxCalls \in Nat /\ MAX_DATA_LEN \in Nat \ {0}
  /\ BufferLens \subseteq Nat \ {0}
  /\ PeerStream \in Seq(SequentialSegment)
  /\ Arriving \subseteq Kinds /\ SendFails \in BOOLEAN
  /\ WINDOW_SIZE > 1
  /\ MaxBytes \in Nat /\ Data \subseteq Seq(Nat)
  /\ \A n \in 1 .. MAX_DATA_LEN : [1 .. n -> 1 .. MaxBytes] \subseteq Data

VARIABLES
  stream,   (* the fields of StreamInner                                   *)
  holder,   (* who holds each lock                                         *)
  owners,   (* the threads with an Arc of the stream                       *)
  at,       (* where each thread is                                        *)
  frame,    (* its local variables                                         *)
  net,      (* the stream is in the listener's `connections`, a RESET has  *)
            (* been sent, and how much of PeerStream has arrived           *)
  calls,    (* how many calls each handle has made                         *)
  hist      (* history: how many bytes write has taken, the segments       *)
            (* pushed, and the bytes that read has returned                *)

vars == << stream, holder, owners, at, frame, net, calls, hist >>

NoFrame == [ min |-> 0, bytes |-> << >>, next |-> "idle",
             code |-> "ok", reset |-> FALSE, back |-> "idle",
             seq_num |-> 0, variant |-> Finish ]

\* The handshake's number, in both directions: the numbers wrap right away.
Start == Modulus - 1

Init ==
  /\ \E byLocal \in BOOLEAN :
       stream =
         [ conn_state    |-> "ok",
           send_buffer   |-> << >>,
           send_storage  |-> IF byLocal THEN SendNewByLocal(Start)
                                        ELSE SendNewByPeer(Start),
           send_finished |-> FALSE,
           recv_buffer   |-> << >>,
           recv_storage  |-> IF byLocal THEN RecvNewByLocal(Start)
                                        ELSE RecvNewByPeer(Start),
           recv_finished |-> FALSE ]
  /\ holder = [l \in Locks |-> Nobody]
  /\ owners = Handles
  /\ at = [t \in Threads |-> IF t = "worker" THEN "upgrade" ELSE "idle"]
  /\ frame = [t \in Threads |-> NoFrame]
  /\ net = [registered |-> TRUE, told |-> FALSE, arrived |-> 0]
  /\ calls = [h \in Handles |-> 0]
  /\ hist = [taken |-> 0, pushed |-> << >>, got |-> << >>]

Ok == stream.conn_state = "ok"

-----------------------------------------------------------------------------
(* Threads and locks                                                        *)

\* The lock a thread needs to go on from a place.
Needs ==
  [ error            |-> "conn_state",   error_conn       |-> "conn_state",
    error_send       |-> "send_storage", error_recv       |-> "recv_storage",
    drop             |-> "conn_state",   write            |-> "send_buffer",
    push             |-> "send_storage", finish           |-> "send_storage",
    wait             |-> "send_storage", read_head        |-> "conn_state",
    read_state       |-> "conn_state",   read_pop         |-> "recv_storage",
    is_err           |-> "conn_state",   is_write_finished |-> "conn_state",
    acknowledge      |-> "recv_storage", pop              |-> "send_storage",
    recv_acknowledge |-> "send_storage", recv_sequential  |-> "recv_storage" ]

Free(lock) == holder[lock] = Nobody

\* Thread t is at the place and can go on.
From(t, place) ==
  at[t] = place /\ (place \in DOMAIN Needs => Free(Needs[place]))

Goto(t, place) == at' = [at EXCEPT ![t] = place]
Take(t, lock) == holder' = [holder EXCEPT ![lock] = t]
Give(locks) ==
  holder' = [l \in Locks |-> IF l \in locks THEN Nobody ELSE holder[l]]
Local(t, variables) == frame' = [frame EXCEPT ![t] = variables]
Forget(t) == frame' = [frame EXCEPT ![t] = NoFrame]

\* Thread t panics: it poisons the locks it holds and drops its Arc.
Panic(t, holding) ==
  /\ Goto(t, "panicked")
  /\ holder' = [l \in Locks |-> IF l \in holding \/ holder[l] = t THEN Poison
                                ELSE holder[l]]
  /\ owners' = owners \ {t}
  /\ Forget(t)

\* The unwrap of a lock operation on a poisoned lock.
PanicOnPoison(t) ==
  /\ at[t] \in DOMAIN Needs
  /\ holder[Needs[at[t]]] = Poison
  /\ Panic(t, {})
  /\ UNCHANGED << stream, net, calls, hist >>

-----------------------------------------------------------------------------
(* error: the first error of a stream empties it and tells the peer.        *)

\* `self.error(code, reset)`, to go on at `back`.
CallError(t, code, reset, back) ==
  /\ Goto(t, "error")
  /\ Local(t, [NoFrame EXCEPT !.code = code, !.reset = reset, !.back = back])

ErrorCheck(t) ==
  /\ From(t, "error")
  /\ IF Ok THEN Goto(t, "error_conn") /\ UNCHANGED frame
           ELSE Goto(t, frame[t].back) /\ Forget(t)
  /\ UNCHANGED << stream, holder, owners, net, calls, hist >>

ErrorLock(t) ==
  /\ \/ From(t, "error_conn") /\ Take(t, "conn_state") /\ Goto(t, "error_send")
     \/ From(t, "error_send") /\ Take(t, "send_storage") /\ Goto(t, "error_recv")
  /\ UNCHANGED << stream, owners, frame, net, calls, hist >>

\* With all three locks: leave `connections`, set the state, clear the
\* storages, release.
ErrorSet(t) ==
  /\ From(t, "error_recv")
  /\ stream' = [stream EXCEPT !.conn_state   = frame[t].code,
                              !.send_storage = SendClear(@),
                              !.recv_storage = RecvClear(@)]
  /\ net' = [net EXCEPT !.registered = FALSE]
  /\ Give({"conn_state", "send_storage"})
  /\ IF frame[t].reset THEN Goto(t, "error_reset") /\ UNCHANGED frame
                       ELSE Goto(t, frame[t].back) /\ Forget(t)
  /\ UNCHANGED << owners, calls, hist >>

ErrorReset(t) ==
  /\ From(t, "error_reset")
  /\ net' = [net EXCEPT !.told = TRUE]
  /\ Goto(t, frame[t].back) /\ Forget(t)
  /\ UNCHANGED << stream, holder, owners, calls, hist >>

Error(t) == ErrorCheck(t) \/ ErrorLock(t) \/ ErrorSet(t) \/ ErrorReset(t)

-----------------------------------------------------------------------------
(* Arc and Drop                                                             *)

\* Thread t lets go of its Arc, and drops the stream if it was the last one.
Release(t, back) ==
  /\ owners' = owners \ {t}
  /\ IF owners = {t}
       THEN Goto(t, "drop") /\ Local(t, [NoFrame EXCEPT !.back = back])
       ELSE Goto(t, back) /\ Forget(t)

\* A faulty Drop that lets a stream go when either direction has finished.
DropBug(t) ==
  /\ From(t, "drop")
  /\ IF Ok /\ ~ stream.send_finished /\ ~ stream.recv_finished
       THEN CallError(t, "reset_local", TRUE, frame[t].back)
       ELSE Goto(t, frame[t].back) /\ Forget(t)
  /\ UNCHANGED << stream, holder, owners, net, calls, hist >>

\* `impl Drop`: nobody else has the stream any more.
Drop(t) ==
  /\ From(t, "drop")
  /\ IF Ok /\ ~ (stream.send_finished /\ stream.recv_finished)
       THEN CallError(t, "reset_local", TRUE, frame[t].back)
       ELSE Goto(t, frame[t].back) /\ Forget(t)
  /\ UNCHANGED << stream, holder, owners, net, calls, hist >>

-----------------------------------------------------------------------------
(* The calls of the applications                                            *)

Call(h, method) ==
  /\ at[h] = "idle"
  /\ method \in Calls[h] /\ calls[h] < MaxCalls
  /\ calls' = [calls EXCEPT ![h] = @ + 1]

\* write, flush and finish_write begin with `self.stream_state()?`.
CallWrite(h) ==
  /\ Free("conn_state")
  /\ \/ /\ Call(h, "write") /\ Ok
        /\ \E n \in BufferLens :
             Local(h, [NoFrame EXCEPT !.bytes = [i \in 1 .. n |-> 0],
                                      !.min   = MAX_DATA_LEN])
     \/ /\ Call(h, "flush") /\ Ok
        /\ Local(h, [NoFrame EXCEPT !.min = 1])
     \/ /\ Call(h, "finish_write") /\ Ok
        /\ Local(h, [NoFrame EXCEPT !.min = 1, !.next = "finish"])
  /\ Goto(h, "write")
  /\ UNCHANGED << stream, holder, owners, net, hist >>

\* The call takes its bytes, numbered in the order in which they are taken.
WriteTake(h) ==
  /\ From(h, "write") /\ Take(h, "send_buffer")
  /\ LET n == Len(frame[h].bytes) IN
     /\ hist.taken + n <= MaxBytes
     /\ stream' = [stream EXCEPT !.send_buffer =
                     @ \o [i \in 1 .. n |-> hist.taken + i]]
     /\ hist' = [hist EXCEPT !.taken = @ + n]
  /\ Goto(h, "drain") /\ frame' = [frame EXCEPT ![h].bytes = << >>]
  /\ UNCHANGED << owners, net, calls >>

SegmentLen ==
  LET len == Len(stream.send_buffer)
  IN IF len < MAX_DATA_LEN THEN len ELSE MAX_DATA_LEN

\* A faulty loop that gives send_buffer free before the push.
WriteDrainBug(h) ==
  /\ From(h, "drain")
  /\ Give({"send_buffer"})
  /\ IF Len(stream.send_buffer) >= frame[h].min
       THEN /\ frame' = [frame EXCEPT ![h].bytes =
                            SubSeq(stream.send_buffer, 1, SegmentLen)]
            /\ stream' = [stream EXCEPT !.send_buffer =
                            SubSeq(@, SegmentLen + 1, Len(@))]
            /\ Goto(h, "push")
       ELSE /\ Goto(h, frame[h].next) /\ Forget(h)
            /\ UNCHANGED stream
  /\ UNCHANGED << owners, net, calls, hist >>

\* The loop of write and of flush: cut off a segment's worth of bytes, or
\* release send_buffer and go on.
WriteDrain(h) ==
  /\ From(h, "drain")
  /\ IF Len(stream.send_buffer) >= frame[h].min
       THEN /\ frame' = [frame EXCEPT ![h].bytes =
                            SubSeq(stream.send_buffer, 1, SegmentLen)]
            /\ stream' = [stream EXCEPT !.send_buffer =
                            SubSeq(@, SegmentLen + 1, Len(@))]
            /\ Goto(h, "push")
            /\ UNCHANGED holder
       ELSE /\ Goto(h, frame[h].next) /\ Forget(h)
            /\ Give({"send_buffer"})
            /\ UNCHANGED stream
  /\ UNCHANGED << owners, net, calls, hist >>

Push(segment) ==
  /\ stream' = [stream EXCEPT !.send_storage = AfterPush(@, segment)]
  /\ hist' = [hist EXCEPT !.pushed = Append(@, segment)]

\* The unwrap in push fails, with the storage locked.
PushPanic(h) ==
  /\ PushPanics(stream.send_storage)
  /\ Panic(h, {"send_storage"})
  /\ UNCHANGED << stream, hist >>

PushSucceeds ==
  ~ PushPanics(stream.send_storage) /\ ~ PushRejects(stream.send_storage)

WritePush(h) ==
  /\ From(h, "push")
  /\ \/ PushPanic(h)
     \/ /\ PushRejects(stream.send_storage)
        /\ Goto(h, "idle") /\ Forget(h) /\ Give({"send_buffer"})
        /\ UNCHANGED << stream, owners, hist >>
     \/ /\ PushSucceeds
        /\ Push(DataSegment(frame[h].bytes))
        /\ Goto(h, "drain") /\ frame' = [frame EXCEPT ![h].bytes = << >>]
        /\ UNCHANGED << holder, owners >>
  /\ UNCHANGED << net, calls >>

FinishPush(h) ==
  /\ From(h, "finish")
  /\ \/ PushPanic(h)
     \/ /\ PushRejects(stream.send_storage)
        /\ CallError(h, "write_finished", TRUE, "idle")
        /\ UNCHANGED << stream, holder, owners, hist >>
     \/ /\ PushSucceeds
        /\ Push(Finish)
        /\ Goto(h, "wait")
        /\ UNCHANGED << holder, owners, frame >>
  /\ UNCHANGED << net, calls >>

FinishWait(h) ==
  /\ From(h, "wait") /\ IsEmpty(stream.send_storage)
  /\ Goto(h, "finished")
  /\ UNCHANGED << stream, holder, owners, frame, net, calls, hist >>

FinishReturn(h) ==
  /\ From(h, "finished")
  /\ stream' = [stream EXCEPT !.send_finished = TRUE]
  /\ Goto(h, "idle")
  /\ UNCHANGED << holder, owners, frame, net, calls, hist >>

CallReset(h) ==
  /\ Call(h, "reset") /\ Free("conn_state") /\ Ok
  /\ CallError(h, "reset_local", TRUE, "idle")
  /\ UNCHANGED << stream, holder, owners, net, hist >>

CallDrop(h) ==
  /\ Call(h, "drop")
  /\ Release(h, "gone")
  /\ UNCHANGED << stream, holder, net, hist >>

\* A faulty read that does not keep recv_buffer locked.
CallReadBug(h) ==
  /\ Call(h, "read") /\ Free("recv_buffer")
  /\ Goto(h, "read_head")
  /\ UNCHANGED << stream, holder, owners, frame, net, hist >>

\* read locks recv_buffer until it returns.
CallRead(h) ==
  /\ Call(h, "read") /\ Free("recv_buffer") /\ Take(h, "recv_buffer")
  /\ Goto(h, "read_head")
  /\ UNCHANGED << stream, owners, frame, net, hist >>

ReadReturn(h) ==
  /\ Goto(h, "idle") /\ Give({"recv_buffer"})
  /\ UNCHANGED << owners, frame, net, calls >>

\* A faulty read that leaves what it returns in recv_buffer.
ReadReturnBytesBug(h, bytes, storage) ==
  \E n \in BufferLens :
    LET len == IF n < Len(bytes) THEN n ELSE Len(bytes) IN
    /\ stream' = [stream EXCEPT !.recv_storage = storage, !.recv_buffer = bytes]
    /\ hist' = [hist EXCEPT !.got = @ \o SubSeq(bytes, 1, len)]
    /\ ReadReturn(h)

\* read returns as many of the bytes as fit into the caller's buffer.
ReadReturnBytes(h, bytes, storage) ==
  \E n \in BufferLens :
    LET len == IF n < Len(bytes) THEN n ELSE Len(bytes) IN
    /\ stream' = [stream EXCEPT !.recv_storage = storage,
                                !.recv_buffer = SubSeq(bytes, len + 1, Len(bytes))]
    /\ hist' = [hist EXCEPT !.got = @ \o SubSeq(bytes, 1, len)]
    /\ ReadReturn(h)

ReadHead(h) ==
  /\ From(h, "read_head")
  /\ \/ /\ ~ Ok \/ stream.recv_finished
        /\ ReadReturn(h) /\ UNCHANGED << stream, hist >>
     \/ /\ Ok /\ ~ stream.recv_finished /\ stream.recv_buffer # << >>
        /\ ReadReturnBytes(h, stream.recv_buffer, stream.recv_storage)
     \/ /\ Ok /\ ~ stream.recv_finished /\ stream.recv_buffer = << >>
        /\ Goto(h, "read_state")
        /\ UNCHANGED << stream, holder, owners, frame, net, calls, hist >>

\* A faulty loop that asks for recv_finished only.
ReadStateBug(h) ==
  /\ From(h, "read_state")
  /\ IF stream.recv_finished
       THEN ReadReturn(h)
       ELSE Goto(h, "read_pop") /\ UNCHANGED << holder, owners, frame, net, calls >>
  /\ UNCHANGED << stream, hist >>

\* The loop of read, with an empty recv_buffer.
ReadState(h) ==
  /\ From(h, "read_state")
  /\ IF ~ Ok \/ stream.recv_finished
       THEN ReadReturn(h)
       ELSE Goto(h, "read_pop") /\ UNCHANGED << holder, owners, frame, net, calls >>
  /\ UNCHANGED << stream, hist >>

ReadPop(h) ==
  /\ From(h, "read_pop")
  /\ LET storage == stream.recv_storage
         next == Head(storage.pop_queue)
     IN \/ /\ CanPop(storage) /\ next.variant = "Data"
           /\ ReadReturnBytes(h, stream.recv_buffer \o next.data, AfterPop(storage))
        \/ /\ CanPop(storage) /\ next = Finish
           /\ stream' = [stream EXCEPT !.recv_storage = AfterPop(storage),
                                       !.recv_finished = TRUE]
           /\ Goto(h, "read_state")
           /\ UNCHANGED << holder, owners, frame, net, calls, hist >>
        \/ /\ ~ CanPop(storage)
           /\ Goto(h, "read_state")
           /\ UNCHANGED << stream, holder, owners, frame, net, calls, hist >>

HandleStep(h) ==
  \/ WriteTake(h) \/ WriteDrain(h) \/ WritePush(h)
  \/ FinishPush(h) \/ FinishWait(h) \/ FinishReturn(h)
  \/ ReadHead(h) \/ ReadState(h) \/ ReadPop(h)

\* A call on a stream in error returns the error and changes nothing.
NewCall(h) == CallWrite(h) \/ CallReset(h) \/ CallDrop(h) \/ CallRead(h)

-----------------------------------------------------------------------------
(* The stream's own thread                                                  *)

WorkerUpgrade ==
  /\ From("worker", "upgrade")
  /\ IF owners = {}
       THEN Goto("worker", "done") /\ UNCHANGED owners
       ELSE Goto("worker", "is_err") /\ owners' = owners \cup {"worker"}
  /\ UNCHANGED << stream, holder, frame, net, calls, hist >>

WorkerQuit == Release("worker", "done") /\ UNCHANGED holder

WorkerIsErr ==
  /\ From("worker", "is_err")
  /\ IF Ok THEN Goto("worker", "is_write_finished")
                /\ UNCHANGED << holder, owners, frame >>
           ELSE WorkerQuit
  /\ UNCHANGED << stream, net, calls, hist >>

\* `is_write_finished()` is an error if the stream has become one meanwhile,
\* and the thread unwraps it.
WorkerIsWriteFinished ==
  /\ From("worker", "is_write_finished")
  /\ \/ ~ Ok /\ Panic("worker", {})
     \/ Ok /\ stream.send_finished /\ WorkerQuit
     \/ /\ Ok /\ ~ stream.send_finished
        /\ Goto("worker", "acknowledge") /\ UNCHANGED << holder, owners, frame >>
  /\ UNCHANGED << stream, net, calls, hist >>

WorkerSendError == SendFails /\ CallError("worker", "io", TRUE, "quit")

\* An acknowledgement, if there is one due.
WorkerAcknowledge ==
  /\ From("worker", "acknowledge")
  /\ \E elapsed \in BOOLEAN :
       /\ stream' = [stream EXCEPT !.recv_storage = AfterPopAcknowledge(@, elapsed)]
       /\ \/ Goto("worker", "pop") /\ UNCHANGED frame
          \/ AckIsDue(stream.recv_storage, elapsed) /\ WorkerSendError
  /\ UNCHANGED << holder, owners, net, calls, hist >>

\* A faulty loop that waits for something to send.
WorkerPopBug(due) ==
  /\ From("worker", "pop")
  /\ CanPopSegment(stream.send_storage, due)
  /\ stream' = [stream EXCEPT !.send_storage = AfterPopSegment(@, due)]
  /\ Goto("worker", "send")
  /\ UNCHANGED << holder, owners, frame, net, calls, hist >>

\* The loop that sends what there is to send.  Each pop looks at the clock:
\* whether the front of queue_sent is due for another transmission.
WorkerPop(due) ==
  /\ From("worker", "pop")
  /\ LET storage == stream.send_storage
         panics == PopPanics(storage) /\ ~ RetransmitIsDue(storage, due)
     IN \/ panics /\ Panic("worker", {"send_storage"}) /\ UNCHANGED stream
        \/ /\ ~ panics /\ CanPopSegment(storage, due)
           /\ stream' = [stream EXCEPT !.send_storage = AfterPopSegment(@, due)]
           /\ Goto("worker", "send")
           /\ UNCHANGED << holder, owners, frame >>
        \/ /\ ~ panics /\ ~ CanPopSegment(storage, due)
           /\ Release("worker", "upgrade")
           /\ UNCHANGED << stream, holder >>
  /\ UNCHANGED << net, calls, hist >>

WorkerSend ==
  /\ From("worker", "send")
  /\ \/ Goto("worker", "pop") /\ UNCHANGED frame
     \/ WorkerSendError
  /\ UNCHANGED << stream, holder, owners, net, calls, hist >>

WorkerReturn ==
  /\ From("worker", "quit")
  /\ WorkerQuit
  /\ UNCHANGED << stream, net, calls, hist >>

WorkerStep ==
  \/ WorkerUpgrade \/ WorkerIsErr \/ WorkerIsWriteFinished \/ WorkerAcknowledge
  \/ \E due \in BOOLEAN : WorkerPop(due)
  \/ WorkerSend \/ WorkerReturn

-----------------------------------------------------------------------------
(* The listener's thread: `__recv` and recv_segment                         *)

\* A datagram arrives and its stream is found: the Weak upgrades.
Arrive ==
  /\ at["listener"] = "idle"
  /\ net.registered /\ owners # {}
  /\ owners' = owners \cup {"listener"}

ArriveError ==
  /\ Arrive
  /\ \/ /\ "Reset" \in Arriving
        /\ CallError("listener", "reset_by_peer", FALSE, "release")
     \/ /\ Arriving \cap {"Establish", "Undecodable"} # {}
        /\ CallError("listener", "unexpected", TRUE, "release")
  /\ UNCHANGED << stream, holder, net, calls, hist >>

\* The peer acknowledges what it has: anything up to the newest segment that
\* has been sent, or again the newest that it acknowledged before.
ArriveAcknowledge ==
  /\ Arrive /\ "Acknowledge" \in Arriving
  /\ \E k \in 0 .. Len(stream.send_storage.queue_sent) :
       Local("listener", [NoFrame EXCEPT
                            !.seq_num = Minus(stream.send_storage.next_unsent, k + 1)])
  /\ Goto("listener", "recv_acknowledge")
  /\ UNCHANGED << stream, holder, net, calls, hist >>

\* The next segment of the peer, or once more the one before.
ArriveSequential ==
  /\ Arrive /\ "Sequential" \in Arriving
  /\ \E i \in {net.arrived, net.arrived + 1} \cap DOMAIN PeerStream :
       /\ Local("listener", [NoFrame EXCEPT !.seq_num = Plus(Start, i),
                                            !.variant = PeerStream[i]])
       /\ net' = [net EXCEPT !.arrived = i]
  /\ Goto("listener", "recv_sequential")
  /\ UNCHANGED << stream, holder, calls, hist >>

RecvError == CallError("listener", "unexpected", TRUE, "release")

\* A faulty __recv_acknowledge that calls error without `drop(send_storage)`.
RecvAcknowledgeBug ==
  /\ From("listener", "recv_acknowledge")
  /\ IF AckRejects(stream.send_storage, frame["listener"].seq_num)
       THEN RecvError /\ Take("listener", "send_storage") /\ UNCHANGED stream
       ELSE /\ stream' = [stream EXCEPT !.send_storage =
                            AfterAcknowledge(@, frame["listener"].seq_num)]
            /\ Goto("listener", "release") /\ Forget("listener")
            /\ UNCHANGED holder
  /\ UNCHANGED << owners, net, calls, hist >>

RecvAcknowledge ==
  /\ From("listener", "recv_acknowledge")
  /\ IF AckRejects(stream.send_storage, frame["listener"].seq_num)
       THEN RecvError /\ UNCHANGED stream
       ELSE /\ stream' = [stream EXCEPT !.send_storage =
                            AfterAcknowledge(@, frame["listener"].seq_num)]
            /\ Goto("listener", "release") /\ Forget("listener")
  /\ UNCHANGED << holder, owners, net, calls, hist >>

RecvSequential ==
  /\ From("listener", "recv_sequential")
  /\ LET seq_num == frame["listener"].seq_num
         segment == frame["listener"].variant
         storage == stream.recv_storage
     IN \/ /\ RecvPanics(storage, seq_num, segment)
           /\ Panic("listener", {"recv_storage"})
           /\ UNCHANGED stream
        \/ /\ RecvRejects(storage, seq_num, segment)
           /\ RecvError
           /\ UNCHANGED << stream, holder, owners >>
        \/ /\ ~ RecvPanics(storage, seq_num, segment)
           /\ ~ RecvRejects(storage, seq_num, segment)
           /\ stream' = [stream EXCEPT !.recv_storage =
                           AfterRecv(storage, seq_num, segment)]
           /\ Goto("listener", "release") /\ Forget("listener")
           /\ UNCHANGED << holder, owners >>
  /\ UNCHANGED << net, calls, hist >>

\* `__recv` returns and lets go of its Arc.
RecvReturn ==
  /\ From("listener", "release")
  /\ Release("listener", "idle")
  /\ UNCHANGED << stream, holder, net, calls, hist >>

ListenerStep == RecvAcknowledge \/ RecvSequential \/ RecvReturn
ListenerArrive == ArriveError \/ ArriveAcknowledge \/ ArriveSequential

-----------------------------------------------------------------------------
\* What thread t does without a new call or datagram.
Step(t) ==
  \/ Error(t) \/ Drop(t) \/ PanicOnPoison(t)
  \/ t \in Handles /\ HandleStep(t)
  \/ t = "worker" /\ WorkerStep
  \/ t = "listener" /\ ListenerStep

Next ==
  \/ \E t \in Threads : Step(t)
  \/ \E h \in Handles : NewCall(h)
  \/ ListenerArrive

Spec == Init /\ [][Next]_vars

\* The operating system runs every thread; nothing is assumed of the
\* application's calls or of what arrives.  A segment that has just been sent
\* is not due again, so the thread does not retransmit in its loop for ever.
FairSpec ==
  /\ Spec
  /\ \A t \in Threads : WF_vars(Step(t))
  /\ SF_vars(WorkerPop(FALSE))

-----------------------------------------------------------------------------
Codes == {"ok", "reset_local", "reset_by_peer", "write_finished", "unexpected",
          "io"}

\* Where a call of error, or the drop of an Arc, goes on.
Backs == {"idle", "gone", "quit", "done", "upgrade", "release"}
Places == DOMAIN Needs \cup Backs
          \cup {"drain", "finished", "send", "error_reset", "panicked"}

Frame == [ min : Nat, bytes : Seq(Nat), next : {"idle", "finish"},
           code : Codes, reset : BOOLEAN, back : Backs,
           seq_num : SeqNum, variant : SequentialSegment ]

TypeOK ==
  /\ stream \in [ conn_state : Codes, send_buffer : Seq(1 .. MaxBytes),
                  send_storage : SendStorageType, send_finished : BOOLEAN,
                  recv_buffer : Seq(Nat), recv_storage : {stream.recv_storage},
                  recv_finished : BOOLEAN ]
  /\ IsRecvStorage(stream.recv_storage)
  /\ holder \in [Locks -> Threads \cup {Nobody, Poison}]
  /\ owners \subseteq Threads
  /\ at \in [Threads -> Places] /\ frame \in [Threads -> Frame]
  /\ net \in [ registered : BOOLEAN, told : BOOLEAN,
               arrived : 0 .. Len(PeerStream) ]
  /\ calls \in [Handles -> 0 .. MaxCalls]
  /\ hist \in [ taken : 0 .. MaxBytes, pushed : Seq(SequentialSegment),
                got : Seq(Nat) ]

-----------------------------------------------------------------------------
(* Properties *)

\* The bytes in a segment, and in a sequence of segments.
BytesOf(segment) == IF segment.variant = "Data" THEN segment.data ELSE << >>
Bytes(segments) ==
  LET upTo[n \in 0 .. Len(segments)] ==
        IF n = 0 THEN << >> ELSE upTo[n - 1] \o BytesOf(segments[n])
  IN upTo[Len(segments)]

\* Threads never wait for each other's locks in a circle, nor a thread for a
\* lock of its own: recv_segment gives its lock up before it calls error,
\* error takes its three in one order, and read and write hold no lock that
\* error needs.
NoLockCycle ==
  \A waiting \in (SUBSET Threads) \ {{}} :
    \E t \in waiting :
      at[t] \in DOMAIN Needs => holder[Needs[at[t]]] \notin waiting

\* Through whichever handles it is written, what write has taken goes into
\* DATA segments in the order it was taken, each byte once, the rest being in
\* send_buffer or in the hands of the thread that cuts it into segments.
\* Until FINISH refuses what comes later, or a thread panics with its bytes in
\* its hands, nothing that was taken is missing.
WrittenInOrder ==
  LET cut == {h \in Handles : at[h] = "push"}
      chunk == IF cut = {} THEN << >> ELSE frame[CHOOSE h \in cut : TRUE].bytes
      all == Bytes(hist.pushed) \o chunk \o stream.send_buffer
  IN /\ Cardinality(cut) <= 1
     /\ \A i \in 2 .. Len(all) : all[i - 1] < all[i]
     /\ Finish \notin Range(hist.pushed) /\ holder["send_buffer"] # Poison =>
          all = [i \in 1 .. hist.taken |-> i]

\* Through whichever handles it is read, the peer's data comes out in order
\* and once, whatever the lengths of the buffers.
ReadInOrder ==
  IsPrefix(hist.got \o stream.recv_buffer \o Bytes(stream.recv_storage.pop_queue),
           Bytes(PeerStream))

\* The peer sends nothing after FINISH.
PeerFinishesLast ==
  \A i \in DOMAIN PeerStream : PeerStream[i] = Finish => i = Len(PeerStream)

\* When read has seen FINISH there are no bytes that it could still return.
NothingAfterFinish ==
  stream.recv_finished =>
    stream.recv_buffer = << >> /\ stream.recv_storage.pop_queue = << >>

\* No unwrap and no assertion fails while the stream has no error, in push, pop
\* and recv as little as at a lock: a panic, which poisons a lock for all the
\* others, comes only after an error has emptied the stream.
PanicsOnlyInError == Ok => \A t \in Threads : at[t] # "panicked"

\* A stream that everybody has let go of before both directions were finished
\* leaves `connections`, and the peer hears of it, unless the RESET was its.
DroppedIsTold ==
  owners = {} ~>
    \/ ~ net.registered /\ (net.told \/ stream.conn_state = "reset_by_peer")
    \/ stream.send_finished /\ stream.recv_finished

\* The stream's thread ends once the stream is in error.
WorkerEnds == ~ Ok ~> at["worker"] \in {"done", "panicked"}

\* A read that waits for data comes back when the stream fails.
ReadEnds ==
  \A h \in Handles :
    at[h] \in {"read_head", "read_state", "read_pop"} /\ ~ Ok
      ~> at[h] \in {"idle", "panicked"}

\* The unwrap in `__try_slide_window` does not fail: the listener lives.
ListenerNeverPanics == at["listener"] # "panicked"
=============================================================================
