----------------------------- MODULE RecvStorage ----------------------------
(***************************************************************************)
(* The receiving half of a stream, src/src/stream/recv.rs.                 *)
(*                                                                         *)
(* A RecvStorage is a record with the fields of the struct; each method    *)
(* is a guard on the record, for the outcome it returns, and an operator   *)
(* returning the record it leaves.  Every method runs under the stream's   *)
(* recv_storage write lock, so each is one step of the modules that use    *)
(* it.  `Instant`s are dropped: whether a timeout has elapsed is a         *)
(* parameter, chosen by the caller's action.                               *)
(***************************************************************************)
EXTENDS SequenceNumber, Segment, Sequences, Functions

None == -1   (* Option::None, for an optional sequence number. *)

IsRecvStorage(r) ==
  /\ r \in [ segments    : {r.segments},
             pop_queue   : Seq(SequentialSegment),
             window      : SeqNum,      (* first segment not received yet  *)
             lower_bound : SeqNum,      (* oldest segment still remembered *)
             highest     : SeqNum,
             last_ack    : SeqNum \cup {None},
             urgent_ack  : BOOLEAN ]
  /\ r.segments \in [DOMAIN r.segments -> SequentialSegment]
  /\ DOMAIN r.segments \subseteq SeqNum

\* `new_by_peer`: the peer opened the connection with ESTABLISH.
RecvNewByPeer(establish_seq_num) ==
  [ segments    |-> << >>,
    pop_queue   |-> << >>,
    window      |-> Plus(establish_seq_num, 1),
    lower_bound |-> Plus(establish_seq_num, 1),
    highest     |-> establish_seq_num,
    last_ack    |-> None,
    urgent_ack  |-> FALSE ]

\* `new_by_local`: the peer answered our ESTABLISH with ACCEPT, which is
\* already in the storage.
RecvNewByLocal(accept_seq_num) ==
  [ segments    |-> [k \in {accept_seq_num} |-> Accept],
    pop_queue   |-> << >>,
    window      |-> Plus(accept_seq_num, 1),
    lower_bound |-> accept_seq_num,
    highest     |-> accept_seq_num,
    last_ack    |-> None,
    urgent_ack  |-> TRUE ]

RecvClear(r) == [r EXCEPT !.segments = << >>]

-----------------------------------------------------------------------------
(* recv *)

Present(r, seq_num) == seq_num \in DOMAIN r.segments

\* `__check_valid_seq_num`
ValidSeqNum(r, seq_num) ==
  Minus(seq_num, r.lower_bound)
    < Minus(Plus(r.window, WINDOW_SIZE), r.lower_bound)

\* `__check_presence_of` finds the very same segment.
IsDuplicate(r, seq_num, segment) ==
  Present(r, seq_num) /\ r.segments[seq_num] = segment

\* A faulty recv that takes a repeated segment for an error.
RecvRejectsRepeatedBug(r, seq_num, segment) ==
  ~ ValidSeqNum(r, seq_num) \/ Present(r, seq_num)

\* recv returns an error, and the storage is as before.
RecvRejects(r, seq_num, segment) ==
  \/ ~ ValidSeqNum(r, seq_num)
  \/ Present(r, seq_num) /\ ~ IsDuplicate(r, seq_num, segment)

Insert(r, seq_num, segment) ==
  [ r EXCEPT
      !.segments = [k \in DOMAIN @ \cup {seq_num} |->
                      IF k = seq_num THEN segment ELSE @[k]],
      !.highest  = IF Minus(seq_num, @) < WINDOW_SIZE THEN seq_num ELSE @ ]

\* How far `__try_slide_window` moves the window: up to the first gap.
SlideLength(r) ==
  CHOOSE k \in 0 .. Modulus - 1 :
    /\ ~ Present(r, Plus(r.window, k))
    /\ \A j \in 0 .. k - 1 : Present(r, Plus(r.window, j))

\* How far `lower_bound` is behind WINDOW_SIZE below the slid window, as the
\* wrapping subtraction `min_lower_bound - self.lower_bound` sees it.
Behind(r) ==
  Minus(Minus(Plus(r.window, SlideLength(r)), WINDOW_SIZE), r.lower_bound)

\* A faulty slide that forgets the segment at the new lower bound as well.
ForgottenBug(r) ==
  IF Behind(r) < WINDOW_SIZE
    THEN {Plus(r.lower_bound, j) : j \in 0 .. Behind(r)}
    ELSE {}

\* The segments the slide forgets; each `remove` of one is unwrapped.
Forgotten(r) ==
  IF Behind(r) < WINDOW_SIZE
    THEN {Plus(r.lower_bound, j) : j \in 0 .. Behind(r) - 1}
    ELSE {}

\* A faulty slide that puts each segment in front of pop_queue.
SlideBug(r) ==
  [ r EXCEPT
      !.pop_queue   = [j \in 1 .. SlideLength(r) |->
                         r.segments[Plus(r.window, SlideLength(r) - j)]] \o @,
      !.window      = Plus(@, SlideLength(r)),
      !.segments    = Restrict(@, DOMAIN @ \ Forgotten(r)),
      !.lower_bound = IF Behind(r) < WINDOW_SIZE
                        THEN Plus(@, Behind(r)) ELSE @ ]

\* `__try_slide_window`
Slide(r) ==
  [ r EXCEPT
      !.pop_queue   = @ \o [j \in 1 .. SlideLength(r) |->
                              r.segments[Plus(r.window, j - 1)]],
      !.window      = Plus(@, SlideLength(r)),
      !.segments    = Restrict(@, DOMAIN @ \ Forgotten(r)),
      !.lower_bound = IF Behind(r) < WINDOW_SIZE
                        THEN Plus(@, Behind(r)) ELSE @ ]

\* recv returns Ok(()).
AfterRecv(r, seq_num, segment) ==
  IF IsDuplicate(r, seq_num, segment)
    THEN [r EXCEPT !.urgent_ack = TRUE]
    ELSE IF seq_num = r.window
      THEN Slide(Insert(r, seq_num, segment))
      ELSE Insert(r, seq_num, segment)

\* recv panics in the slide: `self.segments.remove(&index).unwrap()` on a
\* sequence number that is not in the storage.
RecvPanics(r, seq_num, segment) ==
  LET inserted == Insert(r, seq_num, segment) IN
  /\ ~ RecvRejects(r, seq_num, segment)
  /\ ~ Present(r, seq_num)
  /\ seq_num = r.window
  /\ ~ Forgotten(inserted) \subseteq DOMAIN inserted.segments

-----------------------------------------------------------------------------
(* pop and pop_acknowledge *)

CanPop(r) == r.pop_queue # << >>

\* A faulty pop that leaves the segment where it is.
AfterPopBug(r) == r

AfterPop(r) == [r EXCEPT !.pop_queue = Tail(@)]

CurrentAck(r) == Minus(r.window, 1)

\* pop_acknowledge returns a number; `elapsed` says that more than half of
\* conn_timeout() has passed since the last one.
AckIsDue(r, elapsed) ==
  IF r.last_ack = None
    THEN r.window # r.lower_bound
    ELSE \/ r.urgent_ack
         \/ elapsed
         \/ Minus(CurrentAck(r), r.last_ack) > WINDOW_SIZE \div 2

\* The first call records an acknowledgement even when it returns none, and
\* leaves urgent_ack as it was.
AfterPopAcknowledge(r, elapsed) ==
  IF r.last_ack = None
    THEN [r EXCEPT !.last_ack = CurrentAck(r)]
    ELSE IF AckIsDue(r, elapsed)
      THEN [r EXCEPT !.last_ack = CurrentAck(r), !.urgent_ack = FALSE]
      ELSE r

-----------------------------------------------------------------------------
\* What the fields stand for when positions are counted without wrapping,
\* position p carrying the number Wrap(b + p) and the segment f[p]: `window`
\* is position w and `lower_bound` is position l; the storage has every
\* segment from l up to w, not the one at w, and beyond it only such that
\* are less than WINDOW_SIZE ahead.
Represents(r, b, w, l, f) ==
  /\ w \in Nat /\ l \in 0 .. w /\ w - l < Modulus
  /\ r.window = Wrap(b + w) /\ r.lower_bound = Wrap(b + l)
  /\ \A p \in l .. w - 1 : Present(r, Wrap(b + p))
  /\ \A k \in DOMAIN r.segments :
       \E p \in DOMAIN f :
         /\ p >= l /\ p - l < Modulus
         /\ p # w /\ p < w + WINDOW_SIZE
         /\ k = Wrap(b + p) /\ r.segments[k] = f[p]
=============================================================================
