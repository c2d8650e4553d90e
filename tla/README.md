# A TLA+ specification of mdswp

mdswp is a Rust library that gives UDP the interface of TCP: connections with
a handshake, ordered delivery over a sliding window with acknowledgements and
retransmission, and a reset. This directory has a specification of it, the TLC
configurations that check it on small instances, and theorems that TLAPS
checks for every value of the parameters. Paths below are relative to
`src/src/`; line numbers are in `PROJECT.json`.

## 1. The system

| Component | State | Operations | Who calls it |
|---|---|---|---|
| `SendStorage` (`stream/send.rs`) | `queue_sent`, `queue_unsent`, `next_unsent` | push, pop (retransmission before new segments), acknowledge, clear, is_empty | applications, the stream's thread, the listener's thread, under one lock |
| `RecvStorage` (`stream/recv.rs`) | `segments`, `pop_queue`, `window`, `lower_bound`, `highest`, `last_ack`, `urgent_ack` | recv (range check, duplicate check, slide), pop, pop_acknowledge, clear | the same, under another lock |
| `StreamInner` (`stream/inner.rs`) | both storages, `conn_state`, `send_buffer`, `recv_buffer`, two finished flags, a lock for each | write, flush, finish_write, read, reset, error, recv_segment, Drop | applications through cloned handles |
| `__thread` (`stream/inner.rs`) | a Weak of its stream | every 10 ms: acknowledge, then send what is due | started with the stream |
| `ListenerInner` (`listener/inner.rs`) | the socket, `connections` (Weak by address), `to_accept`, `error` | bind, accept, `__recv`, register and deregister | its own thread receives; applications accept; streams send through it |
| Handshake (`stream/inner.rs`, `listener/inner.rs`) | a socket and an attempt counter | connect, connect_to, `__try_single_connect_to` | applications |
| Segments (`segment.rs`) | none | into_bytes, TryFrom | every send and receive |
| `MdswpStream`, `MdswpListener`, `Incoming` (`stream.rs`, `listener.rs`) | an Arc of the inner structure | forwarding | applications |

Three kinds of thread meet in a stream: applications, each with a handle from
`try_clone`; the stream's own thread, which upgrades a Weak in every turn; and
the listener's thread, which looks the stream up for each datagram. They share
the stream's fields, each behind a lock of its own, and tell each other
nothing: finish_write and read poll. An error of any of them goes through
`error()`, which takes three of the locks, clears the storages, leaves
`connections`, and sends a RESET.

What makes the system hard, and what must be right about it:

- **Wrapped numbers.** Sequence numbers are `Wrapping<u8>`; every range check
  is a wrapping subtraction. Right means: what a number stands for is never
  mistaken (in-order delivery, nothing acknowledged that has not arrived).
- **The network** loses, repeats and reorders datagrams. Right means: nothing
  is lost, repeated or reordered for the reader, repetition is no error, and
  everything gets through in the end.
- **Polling and hand-over between threads.** Right means: no circular wait,
  bytes in order through any number of handles, calls that end when the
  stream fails, a stream that ends when the last owner lets go.
- **Connecting and parting.** ACCEPT does not say which ESTABLISH it answers,
  addresses are re-used, the peer may crash, and either side may go while the
  other still talks. Right means: both ends mean the same connection, a table
  entry leads to the stream that lives, attempts and calls come to an end, and
  a close that looks clean has lost nothing.
- **Errors in the middle.** State is read under one lock and used under the
  next. Right means: nobody panics, nobody waits for what an
  error has thrown away, a call's result says what happened.

`PROJECT.json` lists these hazards at their lines with the properties for them.

## 2. The modules

| Module | Models |
|---|---|
| `SequenceNumber` | arithmetic of `Wrapping<u8>`, with `Modulus` and `WINDOW_SIZE` as parameters |
| `Segment` | the sequential segments: ACCEPT, FINISH, DATA |
| `SendStorage`, `RecvStorage` | the storages as records, each method as a guard for its outcome and an operator for the record it leaves |
| `SlidingWindow` | one direction of a connection: both storages, both threads, the applications, the network |
| `SlidingWindowInvariant` | its inductive invariant |
| `FifoChannel` | what a direction promises: the abstract specification that `SlidingWindow` implements |
| `SegmentCodec` | segments to datagrams and back |
| `StreamInner` | one endpoint at the grain of its locks |
| `Listener` | a server's listener: its thread, the table of connections, the accept queue, failure and crash |
| `Connect` | connect_to of a client, composed with `Listener` (EXTENDS) |
| `Duplex` | both directions of a connection and its end: two streams with both storages, threads and listeners |
| `SequenceNumberProofs`, `StorageProofs`, `SlidingWindowProofs`, `SlidingWindowTheorems`, `StreamInnerTheorems`, `DuplexTheorems`, `ConnectTheorems`, `SegmentCodecProofs` | the proofs |
| `MC...` | the values of the constants for TLC |

Operators whose names end in `Bug` are faulty variants of the definition after
them. Nothing uses them; `PROJECT.json` ("mutants") says which property each
one breaks when it takes the place of the right one.

### SlidingWindow

`snd` and `rcv` are the two storages with the fields of the structs, `errored`
the sides whose `conn_state` is an error, `finishing` a finish_write in its
loop, `data`, `acks` and `resets` the datagrams in flight. Each action is a
call or a turn of a loop: `Write` (a push of write or flush), `FinishPush`,
`FinishPushRefused`, `FinishReturns`, `Read`, `Reset`; `Transmit`,
`Retransmit` and `AckTick` for `__thread`, whose end is `sendFinished` on the
writer's side and `ReaderQuits` on the reader's, where finish_write of the
other direction ends it; `RecvAck`, `RecvSegment`,
`RecvReset`, and `RecvClosed` for a datagram whose stream has left
`connections`, which the listener answers with RESET; `Lose` for the network.
Delivery may leave the datagram in flight, which is duplication; the sets are
unordered, which is reordering. A behaviour starts with the two storages that a
handshake leaves, for the client's direction (`new_by_local` writes to
`new_by_peer`) or the server's.

write and finish_write look at the state of the stream before they push, and
`__thread` before its turn. An error may come after that: `Write` and
`FinishPush` are therefore possible in error, and put segments in a storage
that is cleared already. There is one simplification: a stream in error sends
nothing more (`SenderRuns`). In the code a thread that is in the middle of a turn
then may still send such a segment, and does so under the number of one that was
cleared (see the divergences below); `StreamInner` and `Duplex` have these turns.
The properties of `SlidingWindow` are of behaviours in which the error does not
meet a turn that is under way with a push after it.

Messages have a field `idx`, the count of the segment without wrapping, and
`log`, `sent`, `consumed` are history: no guard of a code step reads them. The
one thing they decide is a datagram's lifetime. With 8-bit numbers a datagram
that survives a turn of the numbers cannot be told from a new one, and no
window protocol can do anything about it: the model takes a datagram away
(`Alive`) once `Lifetime` further segments have been sent, and assumes
`Lifetime + WINDOW_SIZE <= Modulus` (246 segments in the code).

An `Instant` becomes a choice: whether a timeout has passed. `queue_sent` is
ordered by age as in the code, so only its front may be due.

### StreamInner

`stream` has the fields of the struct, `at` a place for each thread, `frame`
its local variables, `holder` who holds each lock over several steps, `owners`
who has an Arc. A step is what a thread does from one lock to the next; `Needs`
says which lock a place waits for. `error()` is a sequence of five steps that
any thread may go through (`ErrorCheck`, two `ErrorLock`s, `ErrorSet`,
`ErrorReset`), with `frame[t].back` as the place to go on. Whoever empties
`owners` runs `Drop`. A panic poisons the locks it holds, and the next thread
at one of them panics too (`PanicOnPoison`).

The peer here is honest: it sends the segments of `PeerStream` in order, one of
them possibly twice, and acknowledges what has been sent to it, newest or
older. Where the storages unwrap or assert (`PushPanics`, `PopPanics`,
`RecvPanics`), the step has a branch that panics (`WritePush`, `FinishPush`,
`WorkerPop`, `RecvSequential`), and so have the unwraps of `__thread`. Each pop
of `__thread` looks at the clock for itself: `due` is the choice whether the
front of `queue_sent` is to be sent again. `ESTABLISH` and what cannot be decoded stand for the other reasons to
call `error()`. A call on a stream that is already in error returns the error,
changes nothing, and is no step. Clones exist from the start.

The bytes an application writes are numbered from 1 up to `MaxBytes`, in the
order in which write takes them, so `WrittenInOrder` can tell each from every
other. `hist` has what was taken, pushed and read, and no step reads it but for
that bound.

### Listener and Connect

`Listener` keeps `connections`, `to_accept` and the streams the listener has
made, in order of creation. Of a stream it has what the listener can tell
apart: the address and the number of its ESTABLISH, who has the Arc
(`owner`: the listener's thread, the queue, the application, nobody), whether
it is in error, and what has become of its ACCEPT. `Recv` is `__recv` for a
known address, an ESTABLISH, and anything else of an unknown address; `Insert`
is its second half for a new stream, whose thread already runs (`new` is the
stream in between); `Accept` is accept_nonblocking; `WorkerSend` a turn of a
stream's thread; `AppReset`, `AppDrop` and `Drop` the end of a stream. The
listener fails on an error of its socket (`Fails`) or ends with its process
(`Crash`), after which datagrams are refused (`Refuse`). error() and a turn of
a thread are single steps here: what happens between their locks is in
`StreamInner`.

`Connect` adds connect_to. `Try` opens a socket and sends ESTABLISH, or one of
the two fails (`TryFails`); `WaitRecv` is the loop around `_try_recv`, which
returns with the ACCEPT or fails the attempt; `TimedOut` the timeout;
`StartThread` and `AddConnection` the two steps after it, between which the
client's listener does not know its own stream; `StartThreadFails` the error
of the first, with which the stream is dropped. `ClientRecv`, `ClientSend`, `ClientEnds` are the stream that the client
then has, `ClientListenerFails` and `ClientSendFails` the two threads that may
get a refusal from the socket.

Attempt *i* comes from address *i*, and *i* is the number of its ESTABLISH; the
position of a server's stream is the number of its ACCEPT. Numbers of different
handshakes thus differ, where the code draws them at random from 256; what
carries a number of another handshake may be refused or taken (`foreign`). An
acknowledgement may be of ACCEPT and take it off `queue_sent`, or of an earlier
number; DATA leaves it there (`Settled`). An
ephemeral port is not given away again while datagrams of it are about. The
network is a set: a datagram can arrive any number of times until it is lost.

### Duplex

The two ends have the storages and the operators of `SendStorage` and
`RecvStorage`. `conn_state` says whether a stream is in error and whether it
was a reset or a refused segment that put it there; `workers` and `listening`
are the threads that still run. The applications call finish_write, read, reset
and drop; finish_write is three steps, the state that flush finds
(`FinishWrite`), the push of FINISH (`FinishPush`), which looks at no state, and
the loop (`FinishReturns`), so an error may come before any of them; `WorkerQuits` is the end of `__thread`. FINISH is the only segment
written and stands for all the data before it, which `SlidingWindow` has. Each
direction of the network holds one datagram, which may arrive any number of
times and gives way to the next. A behaviour starts when the ACCEPT has been
acknowledged; the handshake is in `Connect`.

The listener of a server outlives its streams and answers RESET for them. The
one of a client is dropped with its stream, and then its thread is either
about to end or blocked in the socket, where it answers one more datagram: `Drop`
chooses, and `RecvClosed` is the last answer.

### SegmentCodec

Datagrams are sequences of bytes, segments records; `IntoBytes`, `Accepts` and
`TryFrom` are the conversions, `Buffered` the receive buffer of
`MAX_SEGMENT_LEN + 1` bytes that cuts longer datagrams off. The other modules
use the segments themselves, which these two theorems justify: a datagram is
read as the segment it encodes or not at all, and every segment is read.

## 3. What is checked

The passing runs (figures for two workers):

| Run | Bounds | Shows |
|---|---|---|
| `SlidingWindow_safety` | modulus 7, window 3, 5 pushes, 2 segments and 1 acknowledgement in flight, the writer may reset, the reader's thread may end; 2.8 M states | TypeOK, InOrderDelivery, UnreceivedIsHeld, NoPanic, IInv, FinishConfirmed, ImplementsFifo |
| `SlidingWindow_live` | modulus 8, window 4, 2 pushes, 3 of each in flight, no resets, the reader's thread may end; 50 K states | NoSpuriousReset, EventuallyReceived, FirstFinishReturns |
| `SegmentCodec` | 7 byte values, segments of up to 4 bytes, datagrams of up to 6; 138 K states | OnlyEncodingsAccepted, EncodingsAreRead |
| `StreamInner_locks` | one call per handle, 3 segments from the peer, every error source; 3.3 M states | TypeOK, NoLockCycle, PanicsOnlyInError |
| `StreamInner_bytes` | two handles, 2 calls each of write, flush and read; writes and reads of 2 bytes, segments of up to 3; 2.2 M states | WrittenInOrder, ReadInOrder, NothingAfterFinish |
| `StreamInner_drop` | finish_write, read and drop, peer sends FINISH or RESET; 243 K states | DroppedIsTold, WorkerEnds, ReadEnds |
| `Connect` | 2 attempts, 2 streams of the server, 2 datagrams in flight in each direction; 337 K states | TypeOK, ConnectedAgree, Reachable, AttemptEnds, ConnectedIsAccepted, CrashIsNoticed |
| `Duplex` | modulus 8, window 3, numbers next to the wrap, both ends may reset or drop; 118 K states | TypeOK, OnlyResetsBreak, CleanDropIsComplete, ErrorIsNoticed, FinishReturnsInTime |

Why the bounds are enough to mean something. In the first run the numbers wrap,
and the window reaches round to the first of them: `lower_bound` moves, segments are forgotten, the window
fills, and a datagram lives as long as the assumption lets it. The window is 3
because with 2 the code takes only the newest acknowledgement, and the modulus
is more than twice that because at `2 * WINDOW_SIZE` the valid range wraps to
nothing. The start number 3 makes the wrap fall in the middle. Values of the
data are all different, so every mix-up shows. Two handles suffice for
interference between callers, with the stream's and the listener's thread that
makes four. Two writes of 2 bytes and segments of up to 3 leave a remainder for
flush; reads of 2 bytes meet segments of 1 and of 3 bytes. Three segments of the
peer with window 2 are the fewest with which a slide forgets one, and so the
fewest that reach the unwrap in the slide. In
`Connect` two attempts are the fewest with an earlier one whose datagrams are
late, and two streams the fewest of which one replaces the other at its
address, or is at another address. In `Duplex` nothing is counted: the
applications finish, reset or drop once, and all else repeats. `MaxInFlight`,
`MaxAcks`, `MaxUnsent`, `MaxUnread`, `MaxCalls`, `MaxBytes` and `MaxStreams` are
bounds of the model, not of the code. CHECK_DEADLOCK is off where the
applications have only so much to do and a connection may be reset and stay so.

`SlidingWindow_live` keeps the number of outstanding segments below the window:
with a full window the code resets the connection (see below), and nothing
arrives. That limit is the run's, by two pushes; the safety runs have none. Its
applications do not reset: what a broken connection does to a finish_write is
in `Duplex`. Both its promises end with the reader's thread (`Over`): after
`ReaderQuits` nobody acknowledges, and a full window stays full. `Duplex`
likewise promises the return of a finish_write that pushed FINISH before any
error, as long as the peer's thread and listener run; a FINISH pushed after an
error waits for ever in a storage that nobody sends from (see below).

### Fairness

`SlidingWindow` assumes weak fairness of the threads' turns (`__thread` sleeps
10 ms and comes round again; timeouts pass) and of the poll in finish_write,
and strong fairness of delivery for each segment and acknowledgement: what is
sent over and over arrives at some time. A thread's turns are assumed only as
long as it has not ended. Nothing is assumed of `Write`, `Read`, `Reset`,
`ReaderQuits`, `Lose`. `StreamInner` assumes weak fairness of each thread's
steps, that is, of the operating system's scheduler, and strong fairness of a
pop for which nothing is due again, as the timeout does not pass between any two
of them; no call has to be made and no datagram has to arrive.

`Connect` assumes weak fairness of the threads (`Insert`, the client's sending,
each server stream's repeated ACCEPT), of a server's application that goes on
accepting, and of connect_to between its waits; strong fairness of the arrival
of something at the waiting attempt, and of refusals once the server is gone. A
refusal wakes the client's listener thread, which waits in the socket; that its
other thread gets one is assumed only when the first has ended. `Expire` says
that the network does not repeat datagrams of a closed socket for ever. Nothing
is assumed of `TimedOut` (the socket blocks), failure, crash, drops and resets.

`Duplex` assumes weak fairness of the threads' turns and timers and of the
poll in finish_write, and strong fairness of arrival at each end for segments,
acknowledgements, and RESET or whatever a closed end answers. Nothing is
assumed of finish_write, read, reset, drop and loss.

### Where the code differs from what it says

Each of these runs is expected to violate its property, a statement of the
repository's own; `PROJECT.json` ("findings") has the quotes.

| Run | Property | What happens |
|---|---|---|
| `SlidingWindow_ackRejected` | NoSpuriousReset | acknowledging the oldest segment of a full window resets the connection |
| `StreamInner_listenerPanics` | ListenerNeverPanics | a segment handled after an error makes the slide unwrap a None; the listener's thread is gone |
| `Connect_returns` | ConnectReturns | the socket of an attempt blocks, so the timeout is never looked at: when the ESTABLISH is lost, connect stays in its first attempt |
| `Duplex_finishReturns` | FinishWriteReturns | the thread of the end that finishes first stops acknowledging; finish_write of the other end never returns |

The models show some more divergences, which have no run of their own.

Of one stream:

- a slide that puts `min_lower_bound` WINDOW_SIZE past `lower_bound` does not
  move `lower_bound`, nor does a later one (`recv.rs` 189); the valid range
  shrinks, until 246 segments later segments in the window are refused;
- write and finish_write are taken after finish_write has returned, against
  `stream.rs` 93-94, and such a second finish_write never returns (`send.rs`
  136: an acknowledged FINISH leaves no trace in the storage);
- a segment pushed after an error and sent by a thread that is in the middle of
  its turn has the number of a segment that the error has cleared; a peer that
  gets it before the RESET reads it in that one's place. If it is FINISH, then
  is_read_finished is true, against `stream.rs` 104-105, although the peer lacks
  data (`FinishPush`, then `WorkerPop` of `StreamInner`; `inner.rs` 207-209,
  391-405);
- a FINISH pushed after an error stays in the cleared storage if the thread is
  not in the middle of a turn, and finish_write waits for it without end
  (`FinishPush` of `Duplex` and `StreamInner`, `inner.rs` 207-213), which is why
  FinishReturnsInTime excepts it; a write in between loses its bytes and
  returns Ok;
- of two concurrent errors the second one stands (`inner.rs` 296), although
  the comment before it says that further errors are ignored (`ErrorCheck` and
  `ErrorSet` of two threads);
- an error between the two match guards of `__thread` makes the second one
  unwrap an Err (`WorkerIsErr`, `WorkerIsWriteFinished`);
- finish_write returns Ok when it was an error that emptied the storage
  (`FinishReturn` after `ErrorSet`);
- bytes that another handle writes between the flush and the push of
  finish_write stay in `send_buffer` and are never sent (`FinishPush`).

Of connections:

- after a lost ACCEPT the server's stream sends its acknowledgement before it
  repeats the ACCEPT, and the attempt fails on the acknowledgement
  (`WaitRecv` of "Other", `inner.rs` 163-166);
- a datagram between `_start_thread` and `_add_connection` is answered with a
  RESET by the client's own listener (`ClientRecv`), which breaks the server's
  stream and not the client's;
- an ESTABLISH that is repeated resets the connection it made, then makes
  another one; if an ACCEPT of the failed one is late the client may take it and
  be connected to a stream that is in error;
- error() of an older stream removes the table entry of a newer one at the same
  address (`Fail`, `inner.rs` 303), which is why `Reachable` excepts it;
- a listener's error is not passed to its streams: a client that sends nothing
  any more never notices that its server has crashed (`ClientListenerFails`);
- a RESET to a closed end is answered with a RESET, so two closed ends go on
  until one gets lost (`RecvClosed`);
- an end that has finished and has read FINISH goes quietly, and then answers
  RESET to a peer that still repeats or acknowledges something; that peer loses
  what it has received and not read, although all of it was acknowledged
  (`CleanDropIsComplete` says received, not read). `test.rs` closes this way;
- retransmission has no limit: a peer that has vanished is written to for ever;
- dropping an `MdswpListener` does not close its socket, as `listener.rs` 22
  says it does: the thread's Arc lives as long as it waits (`listener/inner.rs`
  164).

Outside the models: `segment.rs` 373-377 gives MAX_DATA_LEN as 65533, the code
has 510; `highest` in `RecvStorage` is maintained and never used.

## 4. What is proved

The theorems hold for every value of the constants that the modules' assumptions
allow, of which the runs and the code (256 numbers, a window of 10) are
instances: of a direction, every window, every `Modulus >= 2 * WINDOW_SIZE`, every
stream of segments, every set of start numbers; of `StreamInner`, every number of
handles and calls, every length of buffers and segments, every stream of the
peer; of `Duplex`, every window above 2; of `Connect`, every number of attempts
(3 in the code), of streams and of datagrams in flight.

| Module | Theorem | States |
|---|---|---|
| `SlidingWindowTheorems` | `Invariance`, `TypeCorrect` | `Spec => []IInv`, `Spec => []TypeOK` |
| | `InOrder` | `Spec => []InOrderDelivery` |
| | `NothingDropped` | `Spec => []UnreceivedIsHeld` |
| | `NeverPanics` | `Spec => []NoPanic` |
| | `FinishIsConfirmed` | `Spec => FinishConfirmed` |
| | `FifoImplemented` | `Spec => ImplementsFifo`, by the refinement mapping accepted = `log`, received = what the reader has popped and can pop |
| | `OnlyApplicationsReset` | `Spec /\ []Prompt => NoSpuriousReset`, for `Modulus > 2 * WINDOW_SIZE` |
| `StreamInnerTheorems` | `Invariance`, `TypeCorrect` | `Spec => []IInv`, `Spec => []TypeOK` |
| | `NoDeadlock` | `Spec => []NoLockCycle` |
| | `WritesInOrder`, `ReadsInOrder` | `Spec => []WrittenInOrder`, `Spec => []ReadInOrder` |
| | `FinishEnds` | `Spec => []NothingAfterFinish`, for a peer whose FINISH is its last segment (`PeerFinishesLast`) |
| | `HealthyWithoutError` | `Spec => []PanicsOnlyInError` |
| `DuplexTheorems` | `Invariance`, `TypeCorrect` | `Spec => []IInv`, `Spec => []TypeOK` |
| | `OnlyResets` | `Spec => []OnlyResetsBreak` |
| | `CleanDrop` | `Spec => CleanDropIsComplete` |
| `ConnectTheorems` | `ConnectTypeCorrect`, `SameConnection`, `TableLeadsToStreams` | `Spec => []TypeOK`, `[]ConnectedAgree`, `[]Reachable` of `Connect` |
| `SegmentCodecProofs` | `NothingMisread`, `EverySegmentRead` | the two invariants of `SegmentCodec`, for every set of bytes and maximum length |

They rest on the assumptions named in the modules, which TLC evaluates in every
run of them, and on the hypotheses in the table.

### One direction

InOrderDelivery is not inductive: it says nothing of the numbers in the
storages and in flight. `IInv` says what each of them stands for, as a count
that does not wrap:

- `CountInv`: the reader is never ahead of what was sent and never more than a
  window behind;
- `UnsentInv`: `next_unsent` is the number of the next segment, and
  `queue_unsent` is the rest of `log`;
- `SentInv`: `queue_sent` holds only segments of the last window, with each of
  them all later ones, and all that the reader lacks;
- `NetworkInv`: a datagram carries the number and the segment of its count;
- `ReceiverInv`: `RecvStorage!Represents`: from `lower_bound` to the window the
  storage has every segment, the one at the window it lacks, and what it has
  beyond is less than a window ahead.

The argument goes up the modules. `SequenceNumberProofs` shows that wrapping is
injective on spans shorter than the modulus. `StorageProofs` says of each
method of the storages what it does to the counts: an acknowledgement takes a
prefix away (`AcknowledgeFields`), an accepted segment that is not a duplicate
is one that the storage has never had (`AcceptedIsNew`, where the lifetime of
datagrams is used), a slide appends the segments up to the first gap
(`SlideRepresents`) and leaves `lower_bound` where `LowerBound` says, which
covers the stuck `lower_bound` as well. The other two components use the same
lemmas: they are stated of a storage and not of `SlidingWindow`.
`SlidingWindowProofs` has one lemma per kind of step and `SlidingWindowTheorems`
puts the actions together.

`ReceiverInv` says nothing of how far `lower_bound` lags, because there is no
limit but the modulus: a slide by a whole window leaves it, and so do all later
ones. `OnlyApplicationsReset` says when that cannot happen. NoSpuriousReset is
false of the code (`SlidingWindow_ackRejected`), and the theorem draws the line:
it holds in every behaviour with `[]Prompt`, where the window is never full, a
live segment is one of the last WINDOW_SIZE that were sent and a live
acknowledgement one of the last WINDOW_SIZE - 1. `PromptInv` then keeps
`lower_bound` at most a window behind, and below all that is still on its way
until it is a window behind. Neither the three parts of `Prompt` nor the
assumption on the modulus can be relaxed by one: each time TLC finds a
connection that the protocol breaks.

### A stream and its threads

None of the properties of `StreamInner` is inductive by itself. Its `IInv` has

- `LockInv`: a thread holds a lock over several steps at the places of `HeldAt`
  and nowhere else. From it `NoLockCycle` follows, since the locks are taken in
  one order: send_buffer or recv_buffer, then conn_state, then send_storage,
  then recv_storage, which nobody keeps;
- `FrameInv`: what the local variables of a thread are at its place; `error()`
  is never entered without an error;
- `WrittenInv`: the bytes that were pushed, then the ones in the hands of the
  thread that cuts segments (`InHand`; only the holder of send_buffer can be
  that one), then send_buffer, ascend, and are all that were taken as long as
  no FINISH has been pushed and no panic has taken a segment along. `KnownInv`
  (what is in the send storage is ACCEPT or was pushed) is for the refusal of
  push after FINISH;
- `DeliveryInv`: of the peer's segments the readers have popped the first *k*,
  pop_queue has those up to the window, the storage of a stream without an
  error represents what has arrived, and the listener has the next one, or the
  last one again, in its hands; `ReaderInv` says when recv_buffer is empty;
- `SentInv`: `queue_sent` of a stream without an error holds the newest
  segments, all from some one on, and the acknowledgement in the listener's hands
  is of one of these or of the one before;
- `LeftInv` and `HealthyInv`: a stream in error is out of `connections`, and
  before there is an error nobody has panicked and no lock is poisoned.

An error may come between any two of these steps, with the storages emptied
under a thread that has already decided what to do; this is what most of the
cases are about. `Bytes` concatenates segments by a recursive function; that a
prefix of segments gives a prefix of bytes (`ReadsInOrder`) is shown by the
least counterexample, without induction. `FinishEnds` has a hypothesis about
the peer, since the code does not look at what follows FINISH; the runs
have peers that meet it. `HealthyWithoutError` is the other half of the finding
that the listener panics: that takes an error first. Its content is in the
branches that panic. `SentInv` excludes the unwrap in push, which looks for the
newest sent segment, and the assertion in pop, with whatever subset the
acknowledgements leave; `DeliveryInv` the unwrap in the slide; `HealthyInv` the
poisoned locks. The assumption `WINDOW_SIZE > 1` leaves room for one more number than
the window in the smallest modulus, so that the oldest segment and the next one
are told apart.

### Both ends

`IInv` of `Duplex` says of each end what FINISH has come to (`SendInv`: not
pushed or waiting, `Waiting`; sent, and in `queue_sent` until the peer has it,
`SentOnce`; or an error has emptied the storage, `Cleared`), where the
window of its receive storage is and what this represents (`RecvInv`), and that a
datagram in flight tells the truth about the end it comes from (`NetInv`):
there is no acknowledgement of a FINISH that has not been received. An
acknowledgement that comes late or again then cannot be refused, and
`OnlyResetsBreak` and `CleanDropIsComplete` follow. The assumption
`WINDOW_SIZE > 2` is needed: once FINISH has been sent, a repeated
acknowledgement of ACCEPT is 2 behind `next_unsent`, which a smaller window
refuses.

### Connections

`ConnectTheorems` has an invariant of its own. For the table: the queue of
accept has each stream once and nobody else has it (`QueueInv`), a stream about
to be registered is the newest and nobody is at its address (`NewInv`), and an
entry is the newest stream of its address (`TableInv`). The last one is why
error() of a stream, which clears the entry of its address whosever it is, can
only hurt streams that came after it: that is the exception `Reachable` makes,
and it makes no other. For the handshake: datagrams and streams carry the
numbers of their address (`NumberInv`), and the open socket has only what was
sent to its own address (`ClientInv`). That each attempt has a socket of its own
is all that keeps the attempts apart, since ACCEPT carries nothing of the
ESTABLISH it answers. The steps of the server are first sorted by what they do
to its variables (`ServerSteps`), then each kind keeps the invariant.

### Only model-checked

Liveness (`EventuallyReceived`, `FirstFinishReturns`, `DroppedIsTold`,
`WorkerEnds`, `ReadEnds`, `AttemptEnds`, `ConnectedIsAccepted`, `CrashIsNoticed`,
`ErrorIsNoticed`, `FinishReturnsInTime`), which is out of the prover's reach.
Every safety property of a passing run has its theorem; of NoSpuriousReset the
run `SlidingWindow_live` checks it without `Prompt` in the hypothesis, because
its two pushes cannot fill its window.

## 5. What is not modelled, and the plan

| Next | Content |
|---|---|
| refinement between the grains | each direction of `Duplex`, and the storages of `StreamInner` between an honest peer's segments, as instances of `SlidingWindow` |
| steps of the liveness arguments | that what is sent again is what the reader lacks; that a closed end's RESET is never refused by a stream that waits |
| a server's listener that is dropped | `Listener` with its Arcs, and what becomes of its streams |

Not modelled:

- the loop of `connect` over the addresses of a name: each is one more
  connect_to, and nothing is kept from one to the next;
- the drop of a server's listener: its thread and its streams keep it up to the
  next datagram and the last stream, and until then it goes on as in `Listener`,
  without `Accept`;
- `_connect_listener_to` and `__send_segment`, which nothing calls; the `Accept`
  case of `SendStorage::push`, likewise;
- the wrap of numbers and reordering in `Duplex`, which are in `SlidingWindow`;
  data before FINISH in it, likewise.

Left out for good: `Debug`, `Display`, the text of errors, TTL and addresses of
sockets, `lib.rs`. `test.rs` sends one file between two threads and prints both
results without looking at them.

## 6. Running it

    tlc -config SlidingWindow_safety.cfg MCSlidingWindow.tla
    tlc -config StreamInner_locks.cfg    MCStreamInner.tla
    tlc -config SegmentCodec.cfg         MCSegmentCodec.tla
    tlc -config Connect.cfg              MCConnect.tla
    tlc -config Duplex.cfg               MCDuplex.tla
    tlapm SlidingWindowTheorems.tla
    tlapm StreamInnerTheorems.tla
    tlapm DuplexTheorems.tla
    tlapm ConnectTheorems.tla

A call of tlapm checks the proofs of one module; those of the lemmas it cites
from `SequenceNumberProofs`, `StorageProofs` and `SlidingWindowProofs` are
checked by calls for these modules, and so are those of `SegmentCodecProofs`.

Every configuration named `X_...` belongs to module `MCX`.
