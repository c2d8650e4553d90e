------------------------- MODULE StreamInnerTheorems ------------------------
(***************************************************************************)
(* What is proved of StreamInner, for every number of handles, every sizes  *)
(* of segments and buffers and every stream that the peer sends: its types, *)
(* that no circle of threads waits for each other's locks, that both sides  *)
(* deliver the bytes in order whoever calls read and write, that FINISH is  *)
(* the end of them, and that a stream without an error has not panicked.    *)
(*                                                                         *)
(* The inductive invariant IInv stands at the end, its parts where they are *)
(* needed: LockInv and FrameInv (locks and local variables), KnownInv,      *)
(* WrittenInv (write), LeftInv, ReaderInv and DeliveryInv (read), SentInv   *)
(* (the window of what has been sent), HealthyInv (panics).                 *)
(***************************************************************************)
EXTENDS StreamInner, StorageProofs, SequenceTheorems

-----------------------------------------------------------------------------
(* The bytes in a sequence of segments                                      *)

LEMMA Associative ==
  \A x, y, z \in Seq(Nat) : (x \o y) \o z = x \o (y \o z)
BY ConcatAssociative, SMT

LEMMA SegmentsAssociative ==
  \A x, y, z \in Seq(SequentialSegment) : (x \o y) \o z = x \o (y \o z)
BY ConcatAssociative, SMT

\* The bytes in a segment are a sequence of numbers.
LEMMA BytesOfSegment ==
  ASSUME NEW x \in SequentialSegment
  PROVE  BytesOf(x) \in Seq(Nat)
<1>1. CASE x \in {Accept, Finish}
  <2>1. x.variant # "Data"
    BY <1>1 DEF Accept, Finish
  <2>2. << >> \in Seq(Nat)
    OBVIOUS
  <2>3. QED
    BY <2>1, <2>2 DEF BytesOf
<1>2. CASE x \notin {Accept, Finish}
  <2>1. PICK d \in Data : x = DataSegment(d)
    BY <1>2 DEF SequentialSegment
  <2>2. x.variant = "Data" /\ x.data = d
    BY <2>1 DEF DataSegment
  <2>3. d \in Seq(Nat)
    BY <2>1, StreamInnerAssumption
  <2>4. QED
    BY <2>2, <2>3 DEF BytesOf
<1>3. QED
  BY <1>1, <1>2

\* f gives the bytes in the first n of the segments s, for each n up to m.
Sums(f, s, m) ==
  /\ DOMAIN f = 0 .. m /\ f[0] = << >>
  /\ \A n \in 1 .. m : f[n] = f[n - 1] \o BytesOf(s[n])

\* A function of natural numbers that is wrong somewhere is wrong for the
\* first time somewhere.
LEMMA FirstException ==
  ASSUME NEW m \in Nat, NEW S, S \in SUBSET (0 .. m), S # {}
  PROVE  \E n \in S : n - 1 \notin S /\ \A k \in S : n <= k
<1>1. S \in SUBSET Nat
  OBVIOUS
<1>2. PICK n \in S : \A k \in S : n <= k
  BY <1>1, LeastNatural
<1>3. QED
  BY <1>1, <1>2

LEMMA SumsUnique ==
  ASSUME NEW s, NEW m \in Nat, NEW f, NEW g, Sums(f, s, m), Sums(g, s, m)
  PROVE  \A n \in 0 .. m : f[n] = g[n]
<1> DEFINE S == {n \in 0 .. m : f[n] # g[n]}
<1> SUFFICES ASSUME S # {} PROVE FALSE
  OBVIOUS
<1>1. PICK n \in S : n - 1 \notin S
  BY FirstException
<1>2. n # 0
  BY <1>1 DEF Sums
<1>3. n \in 1 .. m /\ n - 1 \in 0 .. m
  BY <1>1, <1>2
<1>4. f[n - 1] = g[n - 1]
  BY <1>1, <1>3
<1>5. QED
  BY <1>1, <1>3, <1>4 DEF Sums

LEMMA SumsExist ==
  ASSUME NEW s \in Seq(SequentialSegment), NEW m \in 0 .. Len(s)
  PROVE  \E f : Sums(f, s, m)
<1> DEFINE S == {n \in 0 .. m : ~ \E f : Sums(f, s, n)}
<1>0. m \in Nat /\ m \in 0 .. m /\ S \in SUBSET (0 .. m)
  OBVIOUS
<1> SUFFICES ASSUME S # {} PROVE FALSE
  BY <1>0
<1>1. PICK n \in S : n - 1 \notin S
  <2> HIDE DEF S
  <2>1. QED
    BY <1>0, FirstException
<1>2. n # 0
  <2> DEFINE f == [i \in 0 .. 0 |-> << >>]
  <2>1. Sums(f, s, 0)
    BY DEF Sums
  <2>2. QED
    BY <1>1, <2>1
<1>3. PICK f : Sums(f, s, n - 1)
  BY <1>0, <1>1, <1>2
<1> DEFINE g == [i \in 0 .. n |-> IF i = n THEN f[n - 1] \o BytesOf(s[n]) ELSE f[i]]
<1>4. Sums(g, s, n)
  BY <1>2, <1>3 DEF Sums
<1>5. QED
  BY <1>1, <1>4

\* Bytes(s) is the last of these sums.
LEMMA BytesIsSum ==
  ASSUME NEW s \in Seq(SequentialSegment), NEW f, Sums(f, s, Len(s))
  PROVE  Bytes(s) = f[Len(s)]
<1> DEFINE F(g) == [n \in 0 .. Len(s) |->
                      IF n = 0 THEN << >> ELSE g[n - 1] \o BytesOf(s[n])]
           G == CHOOSE g : g = F(g)
           h == [n \in 0 .. Len(s) |-> f[n]]
<1>0. Len(s) \in Nat
  OBVIOUS
<1>1. Bytes(s) = G[Len(s)]
  BY DEF Bytes
<1>2. h = F(h)
  BY <1>0 DEF Sums
<1>3. G = F(G)
  <2> HIDE DEF F, h
  <2>1. QED
    BY <1>2
<1>4. Sums(G, s, Len(s))
  <2> HIDE DEF G
  <2>1. \A n \in 0 .. Len(s) : F(G)[n] = IF n = 0 THEN << >> ELSE G[n - 1] \o BytesOf(s[n])
    OBVIOUS
  <2>2. DOMAIN F(G) = 0 .. Len(s)
    OBVIOUS
  <2> HIDE DEF F
  <2>3. QED
    BY <1>0, <1>3, <2>1, <2>2 DEF Sums
<1>5. Len(s) \in 0 .. Len(s)
  BY <1>0
<1>6. QED
  <2> HIDE DEF G
  <2>1. QED
    BY <1>0, <1>1, <1>4, <1>5, SumsUnique

LEMMA BytesOfNone == Bytes(<< >>) = << >>
<1> DEFINE f == [i \in 0 .. 0 |-> << >>]
<1>1. << >> \in Seq(SequentialSegment) /\ Len(<< >>) = 0
  OBVIOUS
<1>2. Sums(f, << >>, 0)
  BY DEF Sums
<1>3. QED
  BY <1>1, <1>2, BytesIsSum

LEMMA BytesOfAppend ==
  ASSUME NEW s \in Seq(SequentialSegment), NEW x \in SequentialSegment
  PROVE  Bytes(Append(s, x)) = Bytes(s) \o BytesOf(x)
<1>0. Len(s) \in Nat /\ Len(s) \in 0 .. Len(s)
  OBVIOUS
<1>1. PICK f : Sums(f, s, Len(s))
  BY <1>0, SumsExist
<1> DEFINE a == Append(s, x)
           n == Len(s) + 1
           g == [i \in 0 .. n |-> IF i = n THEN f[n - 1] \o BytesOf(x) ELSE f[i]]
<1>2. a \in Seq(SequentialSegment) /\ Len(a) = n /\ a[n] = x /\ \A i \in 1 .. Len(s) : a[i] = s[i]
  BY AppendProperties
<1> HIDE DEF a
<1>3. Sums(g, a, n)
  <2>0. n \in Nat /\ n >= 1 /\ n - 1 = Len(s)
    BY <1>0
  <2>1. DOMAIN g = 0 .. n /\ \A i \in 0 .. n :
          g[i] = IF i = n THEN f[n - 1] \o BytesOf(x) ELSE f[i]
    OBVIOUS
  <2> HIDE DEF n, g
  <2>2. g[0] = << >>
    BY <1>1, <2>0, <2>1 DEF Sums
  <2>3. ASSUME NEW i \in 1 .. n PROVE g[i] = g[i - 1] \o BytesOf(a[i])
    <3>1. CASE i = n
      <4>1. g[n] = f[n - 1] \o BytesOf(x) /\ g[n - 1] = f[n - 1]
        BY <2>0, <2>1
      <4>2. QED
        BY <1>2, <3>1, <4>1
    <3>2. CASE i # n
      <4>1. i \in 1 .. Len(s) /\ i - 1 \in 0 .. n /\ i - 1 # n /\ i \in 0 .. n
        BY <2>0, <3>2
      <4>2. g[i] = f[i] /\ g[i - 1] = f[i - 1] /\ a[i] = s[i]
        BY <1>2, <2>1, <3>2, <4>1
      <4>3. f[i] = f[i - 1] \o BytesOf(s[i])
        BY <1>1, <4>1 DEF Sums
      <4>4. QED
        BY <4>2, <4>3
    <3>3. QED
      BY <3>1, <3>2
  <2>4. QED
    BY <2>1, <2>2, <2>3 DEF Sums
<1>4. Bytes(a) = g[n] /\ Bytes(s) = f[Len(s)]
  BY <1>1, <1>2, <1>3, BytesIsSum
<1>5. QED
  BY <1>0, <1>4 DEF a

\* The bytes in segments are a sequence of numbers.
LEMMA BytesType ==
  ASSUME NEW s \in Seq(SequentialSegment)
  PROVE  Bytes(s) \in Seq(Nat)
<1> DEFINE n == Len(s)
           S == {i \in 0 .. n : Bytes(SubSeq(s, 1, i)) \notin Seq(Nat)}
<1>0. n \in Nat /\ n \in 0 .. n /\ S \in SUBSET (0 .. n)
  OBVIOUS
<1>1. SubSeq(s, 1, n) = s
  BY SubSeqFull
<1> SUFFICES ASSUME S # {} PROVE FALSE
  BY <1>0, <1>1
<1>2. PICK i \in S : i - 1 \notin S
  <2> HIDE DEF S
  <2>1. QED
    BY <1>0, FirstException
<1>3. CASE i = 0
  <2>1. SubSeq(s, 1, 0) = << >>
    BY SubSeqEmpty
  <2>2. << >> \in Seq(Nat)
    OBVIOUS
  <2>3. QED
    BY <1>2, <1>3, <2>1, <2>2, BytesOfNone
<1>4. CASE i # 0
  <2>1. i \in 1 .. n /\ i - 1 \in 0 .. n
    BY <1>2, <1>4
  <2>2. SubSeq(s, 1, i - 1) \in Seq(SequentialSegment) /\ s[i] \in SequentialSegment
    BY <2>1
  <2>3. SubSeq(s, 1, i) = Append(SubSeq(s, 1, i - 1), s[i])
    BY <2>1, <2>2, AppendIsConcat, SubSeqRecursiveSecond
  <2>4. Bytes(SubSeq(s, 1, i)) = Bytes(SubSeq(s, 1, i - 1)) \o BytesOf(s[i])
    BY <2>2, <2>3, BytesOfAppend
  <2>5. Bytes(SubSeq(s, 1, i - 1)) \in Seq(Nat) /\ BytesOf(s[i]) \in Seq(Nat)
    BY <1>2, <2>1, <2>2, BytesOfSegment
  <2>6. QED
    BY <1>2, <2>4, <2>5, ConcatProperties
<1>5. QED
  BY <1>3, <1>4

LEMMA BytesAssociative ==
  ASSUME NEW s \in Seq(SequentialSegment), NEW t \in Seq(SequentialSegment),
         NEW x \in SequentialSegment
  PROVE  (Bytes(s) \o Bytes(t)) \o BytesOf(x) = Bytes(s) \o (Bytes(t) \o BytesOf(x))
<1> DEFINE a == Bytes(s)
           b == Bytes(t)
           c == BytesOf(x)
<1>1. a \in Seq(Nat) /\ b \in Seq(Nat) /\ c \in Seq(Nat)
  BY BytesType, BytesOfSegment
<1>2. (a \o b) \o c = a \o (b \o c)
  <2> HIDE DEF a, b, c
  <2>1. QED
    BY <1>1, Associative, Zenon
<1>3. QED
  BY <1>2

LEMMA BytesOfLonger ==
  ASSUME NEW s \in Seq(SequentialSegment), NEW t \in Seq(SequentialSegment),
         NEW x \in SequentialSegment, Bytes(s \o t) = Bytes(s) \o Bytes(t)
  PROVE  Bytes(s \o Append(t, x)) = Bytes(s) \o Bytes(Append(t, x))
<1> DEFINE e == << x >>
<1>1. e \in Seq(SequentialSegment) /\ Append(t, x) = t \o e
  BY AppendIsConcat
<1>2. s \o t \in Seq(SequentialSegment) /\ Append(s \o t, x) = (s \o t) \o e
  BY ConcatProperties, AppendIsConcat
<1> HIDE DEF e
<1>3. (s \o t) \o e = s \o (t \o e)
  BY <1>1, SegmentsAssociative, Zenon
<1>4. Bytes(s \o Append(t, x)) = Bytes(s \o t) \o BytesOf(x)
  BY <1>1, <1>2, <1>3, BytesOfAppend
<1>5. Bytes(Append(t, x)) = Bytes(t) \o BytesOf(x)
  BY BytesOfAppend
<1>6. (Bytes(s) \o Bytes(t)) \o BytesOf(x) = Bytes(s) \o (Bytes(t) \o BytesOf(x))
  BY BytesAssociative
<1>7. QED
  BY <1>4, <1>5, <1>6

LEMMA BytesOfConcat ==
  ASSUME NEW s \in Seq(SequentialSegment), NEW t \in Seq(SequentialSegment)
  PROVE  Bytes(s \o t) = Bytes(s) \o Bytes(t)
<1> DEFINE n == Len(t)
           T(i) == SubSeq(t, 1, i)
           S == {i \in 0 .. n : Bytes(s \o T(i)) # Bytes(s) \o Bytes(T(i))}
<1>0. n \in Nat /\ n \in 0 .. n /\ S \in SUBSET (0 .. n)
  OBVIOUS
<1>1. T(n) = t
  BY SubSeqFull
<1> SUFFICES ASSUME S # {} PROVE FALSE
  BY <1>0, <1>1
<1>2. PICK i \in S : i - 1 \notin S
  <2> HIDE DEF S
  <2>1. QED
    BY <1>0, FirstException
<1>3. CASE i = 0
  <2>1. T(0) = << >>
    BY SubSeqEmpty
  <2>2. s \o << >> = s /\ Bytes(s) \o << >> = Bytes(s)
    BY ConcatEmptySeq, BytesType
  <2>3. QED
    BY <1>2, <1>3, <2>1, <2>2, BytesOfNone
<1>4. CASE i # 0
  <2>1. i \in 1 .. n /\ i - 1 \in 0 .. n
    BY <1>2, <1>4
  <2>2. T(i - 1) \in Seq(SequentialSegment) /\ t[i] \in SequentialSegment
    BY <2>1
  <2>3. T(i) = Append(T(i - 1), t[i])
    BY <2>1, <2>2, AppendIsConcat, SubSeqRecursiveSecond
  <2>4. Bytes(s \o T(i - 1)) = Bytes(s) \o Bytes(T(i - 1))
    BY <1>2, <2>1
  <2>5. QED
    <3>1. Bytes(s \o Append(T(i - 1), t[i])) = Bytes(s) \o Bytes(Append(T(i - 1), t[i]))
      BY <2>2, <2>4, BytesOfLonger
    <3>2. QED
      BY <1>2, <2>3, <3>1
<1>5. QED
  BY <1>3, <1>4

LEMMA ConcatPrefix ==
  ASSUME NEW u \in Seq(Nat), NEW v \in Seq(Nat)
  PROVE  IsPrefix(u, u \o v)
<1>1. Len(u) \in Nat /\ Len(v) \in Nat /\ Len(u \o v) = Len(u) + Len(v)
  BY ConcatProperties
<1>2. \A i \in 1 .. Len(u) : (u \o v)[i] = u[i]
  BY ConcatProperties
<1>3. SubSeq(u, 1, Len(u)) = SubSeq(u \o v, 1, Len(u))
  BY <1>1, <1>2
<1>4. QED
  BY <1>1, <1>3 DEF IsPrefix

-----------------------------------------------------------------------------
(* Threads and the locks they hold                                          *)

\* The places at which a thread keeps a lock.  Nobody keeps recv_storage.
HeldAt ==
  [ conn_state   |-> {"error_send", "error_recv"},
    send_buffer  |-> {"drain", "push"},
    send_storage |-> {"error_recv"},
    recv_buffer  |-> {"read_head", "read_state", "read_pop"},
    recv_storage |-> {} ]

LockInv ==
  \A l \in Locks : \A t \in Threads : holder[l] = t <=> at[t] \in HeldAt[l]

\* What the local variables of a thread are at a place: error is never called
\* without an error, the loop of write asks for at least one byte, and what is
\* pushed is a segment's worth of bytes that were written.
Chunks == UNION {[1 .. n -> 1 .. MaxBytes] : n \in 1 .. MAX_DATA_LEN}
FrameOK(place, f) ==
  /\ place \in {"error", "error_conn", "error_send", "error_recv"} => f.code # "ok"
  /\ place \in {"write", "drain", "push"} => f.min >= 1
  /\ place = "push" => f.bytes \in Chunks

FrameInv == \A t \in Threads : FrameOK(at[t], frame[t])

\* The local variables of t after it went to a place.
FrameFits(t, place) ==
  \E f \in Frame : frame' = [frame EXCEPT ![t] = f] /\ FrameOK(place, f)

\* Thread t goes to a place, and takes or gives up locks of its own.
Moves(t, place) ==
  /\ t \in Threads /\ place \in Places
  /\ at' = [at EXCEPT ![t] = place]
  /\ FrameFits(t, place)
  /\ holder' \in [Locks -> Threads \cup {Nobody, Poison}]
  /\ \A l \in Locks :
       /\ holder'[l] = t <=> place \in HeldAt[l]
       /\ holder'[l] # holder[l] =>
            holder[l] \in {t, Nobody} /\ holder'[l] \in {t, Nobody, Poison}

LEMMA ThreadNames ==
  /\ "worker" \in Threads /\ "listener" \in Threads
  /\ \A h \in Handles : h \in Threads /\ h # "worker" /\ h # "listener"
  /\ Nobody \notin Threads /\ Poison \notin Threads /\ Nobody # Poison
BY StreamInnerAssumption DEF Threads, Nobody, Poison

LEMMA MovesKeep ==
  ASSUME TypeOK, LockInv, FrameInv, NEW t, NEW place, Moves(t, place)
  PROVE  /\ at' \in [Threads -> Places] /\ frame' \in [Threads -> Frame]
         /\ holder' \in [Locks -> Threads \cup {Nobody, Poison}]
         /\ LockInv' /\ FrameInv'
<1>1. /\ at \in [Threads -> Places] /\ frame \in [Threads -> Frame]
      /\ holder \in [Locks -> Threads \cup {Nobody, Poison}]
  BY DEF TypeOK
<1>2. PICK f \in Frame : frame' = [frame EXCEPT ![t] = f] /\ FrameOK(place, f)
  BY DEF Moves, FrameFits
<1>3. t \in Threads /\ place \in Places /\ at' = [at EXCEPT ![t] = place]
  BY DEF Moves
<1>4. at' \in [Threads -> Places] /\ frame' \in [Threads -> Frame]
  BY <1>1, <1>2, <1>3
<1>5. \A u \in Threads : /\ at'[u] = IF u = t THEN place ELSE at[u]
                         /\ frame'[u] = IF u = t THEN f ELSE frame[u]
  BY <1>1, <1>2, <1>3
<1>6. FrameInv'
  BY <1>2, <1>5 DEF FrameInv
<1>7. ASSUME NEW l \in Locks, NEW u \in Threads
      PROVE  holder'[l] = u <=> at'[u] \in HeldAt[l]
  <2>1. CASE u = t
    BY <1>5, <2>1 DEF Moves
  <2>2. CASE u # t
    <3>1. holder[l] = u <=> at[u] \in HeldAt[l]
      BY DEF LockInv
    <3>2. holder'[l] = u <=> holder[l] = u
      BY <2>2, ThreadNames DEF Moves
    <3>3. QED
      BY <1>5, <2>2, <3>1, <3>2
  <2>3. QED
    BY <2>1, <2>2
<1>8. LockInv'
  BY <1>7 DEF LockInv
<1>9. QED
  BY <1>4, <1>6, <1>8 DEF Moves

\* The locks that are kept at a place.
LEMMA KeptAt ==
  ASSUME NEW place
  PROVE  /\ place \in HeldAt["conn_state"] <=> place \in {"error_send", "error_recv"}
         /\ place \in HeldAt["send_buffer"] <=> place \in {"drain", "push"}
         /\ place \in HeldAt["send_storage"] <=> place = "error_recv"
         /\ place \in HeldAt["recv_buffer"] <=>
              place \in {"read_head", "read_state", "read_pop"}
         /\ place \notin HeldAt["recv_storage"]
BY DEF HeldAt

Keeping == {"error_send", "error_recv", "drain", "push", "read_head",
            "read_state", "read_pop"}

LEMMA KeepsNone ==
  ASSUME NEW place, place \notin Keeping
  PROVE  \A l \in Locks : place \notin HeldAt[l]
BY KeptAt DEF Locks, Keeping

LEMMA NoFrameType ==
  /\ NoFrame \in Frame
  /\ \A place : place \notin {"error", "error_conn", "error_send", "error_recv",
                           "write", "drain", "push"} => \A f : FrameOK(place, f)
<1>1. 0 \in SeqNum
  BY SequenceNumberAssumption DEF SeqNum
<1>2. Finish \in SequentialSegment
  BY DEF SequentialSegment
<1>3. << >> \in Seq(Nat)
  OBVIOUS
<1>4. NoFrame \in Frame
  BY <1>1, <1>2, <1>3 DEF NoFrame, Frame, Codes, Backs
<1>5. QED
  BY <1>4 DEF FrameOK

\* The four ways to move: with the locks one has, taking one, giving some up,
\* and in a panic.
LEMMA MoveQuietly ==
  ASSUME TypeOK, LockInv, NEW t \in Threads, NEW place \in Places,
         FrameFits(t, place), Goto(t, place), holder' = holder,
         \A l \in Locks : at[t] \in HeldAt[l] <=> place \in HeldAt[l]
  PROVE  Moves(t, place)
<1>1. holder \in [Locks -> Threads \cup {Nobody, Poison}]
  BY DEF TypeOK
<1>2. \A l \in Locks : holder'[l] = t <=> place \in HeldAt[l]
  BY DEF LockInv
<1>3. QED
  BY <1>1, <1>2 DEF Moves, Goto

LEMMA MoveTaking ==
  ASSUME TypeOK, LockInv, NEW t \in Threads, NEW place \in Places,
         FrameFits(t, place), Goto(t, place), NEW lock \in Locks, Free(lock), Take(t, lock),
         \A l \in Locks : place \in HeldAt[l] <=> at[t] \in HeldAt[l] \/ l = lock
  PROVE  Moves(t, place)
<1>1. holder \in [Locks -> Threads \cup {Nobody, Poison}]
  BY DEF TypeOK
<1>2. /\ holder' \in [Locks -> Threads \cup {Nobody, Poison}]
      /\ \A l \in Locks : holder'[l] = IF l = lock THEN t ELSE holder[l]
  BY <1>1 DEF Take
<1>3. holder[lock] = Nobody
  BY DEF Free
<1>4. \A l \in Locks : holder'[l] = t <=> place \in HeldAt[l]
  BY <1>2 DEF LockInv
<1>5. QED
  BY <1>2, <1>3, <1>4 DEF Moves, Goto

LEMMA MoveGiving ==
  ASSUME TypeOK, LockInv, NEW t \in Threads, NEW place \in Places,
         FrameFits(t, place), Goto(t, place), NEW locks, Give(locks),
         \A l \in Locks : l \in locks => at[t] \in HeldAt[l],
         \A l \in Locks : place \in HeldAt[l] <=> at[t] \in HeldAt[l] /\ l \notin locks
  PROVE  Moves(t, place)
<1>1. holder \in [Locks -> Threads \cup {Nobody, Poison}]
  BY DEF TypeOK
<1>2. /\ holder' \in [Locks -> Threads \cup {Nobody, Poison}]
      /\ \A l \in Locks : holder'[l] = IF l \in locks THEN Nobody ELSE holder[l]
  BY <1>1 DEF Give
<1>3. \A l \in Locks : holder[l] = t <=> at[t] \in HeldAt[l]
  BY DEF LockInv
<1>4. \A l \in Locks : holder'[l] = t <=> place \in HeldAt[l]
  BY <1>2, <1>3, ThreadNames
<1>5. QED
  BY <1>2, <1>3, <1>4 DEF Moves, Goto

LEMMA MovePanicking ==
  ASSUME TypeOK, LockInv, NEW t \in Threads, NEW holding, Panic(t, holding),
         \A l \in Locks : l \in holding => holder[l] = Nobody
  PROVE  Moves(t, "panicked")
<1>1. holder \in [Locks -> Threads \cup {Nobody, Poison}]
  BY DEF TypeOK
<1>2. /\ holder' \in [Locks -> Threads \cup {Nobody, Poison}]
      /\ \A l \in Locks : holder'[l] = IF l \in holding \/ holder[l] = t
                                      THEN Poison ELSE holder[l]
  BY <1>1 DEF Panic
<1>3. \A l \in Locks : "panicked" \notin HeldAt[l]
  BY KeepsNone DEF Keeping
<1>4. \A l \in Locks :
        /\ holder'[l] = t <=> "panicked" \in HeldAt[l]
        /\ holder'[l] # holder[l] =>
             holder[l] \in {t, Nobody} /\ holder'[l] \in {t, Nobody, Poison}
  BY <1>2, <1>3, ThreadNames
<1>5. FrameOK("panicked", NoFrame) /\ NoFrame \in Frame
  BY NoFrameType
<1>6. at' = [at EXCEPT ![t] = "panicked"] /\ frame' = [frame EXCEPT ![t] = NoFrame]
  BY DEF Panic, Goto, Forget
<1>7. "panicked" \in Places
  BY DEF Places
<1>8. QED
  BY <1>2, <1>4, <1>5, <1>6, <1>7 DEF Moves, FrameFits

LEMMA MovePlainly ==
  ASSUME TypeOK, LockInv, NEW t \in Threads, NEW place \in Places,
         FrameFits(t, place), Goto(t, place), holder' = holder,
         at[t] \notin Keeping, place \notin Keeping
  PROVE  Moves(t, place)
<1>1. \A l \in Locks : at[t] \in HeldAt[l] <=> place \in HeldAt[l]
  BY KeepsNone
<1>2. QED
  BY <1>1, MoveQuietly

\* The two usual ways to leave the local variables.
LEMMA Forgets ==
  ASSUME NEW t, NEW place, Forget(t),
         place \notin {"error", "error_conn", "error_send", "error_recv",
                      "write", "drain", "push"}
  PROVE  FrameFits(t, place)
BY NoFrameType DEF FrameFits, Forget

LEMMA Remembers ==
  ASSUME TypeOK, FrameInv, NEW t \in Threads, NEW place, frame' = frame,
         FrameOK(at[t], frame[t]) => FrameOK(place, frame[t])
  PROVE  FrameFits(t, place)
<1>1. frame \in [Threads -> Frame]
  BY DEF TypeOK
<1>2. frame[t] \in Frame /\ frame' = [frame EXCEPT ![t] = frame[t]]
  BY <1>1
<1>3. QED
  BY <1>2 DEF FrameFits, FrameInv

\* The local variables of a thread, and the places they name.
LEMMA FrameFields ==
  ASSUME TypeOK, NEW t \in Threads
  PROVE  /\ frame[t] \in Frame /\ at[t] \in Places
         /\ frame[t].back \in Backs /\ frame[t].next \in {"idle", "finish"}
         /\ frame[t].min \in Nat /\ frame[t].code \in Codes
         /\ \A b \in Backs \cup {"finish"} : b \in Places /\ b \notin Keeping /\
              b \notin {"error", "error_conn", "error_send", "error_recv",
                       "write", "drain", "push"}
<1>1. frame[t] \in Frame /\ at[t] \in Places
  BY DEF TypeOK
<1>2. \A b \in Backs \cup {"finish"} : b \in Places /\ b \notin Keeping /\
              b \notin {"error", "error_conn", "error_send", "error_recv",
                       "write", "drain", "push"}
  BY DEF Places, Backs, Keeping, Needs
<1>3. QED
  BY <1>1, <1>2 DEF Frame

LEMMA ErrorIsCalled ==
  ASSUME TypeOK, LockInv, NEW t \in Threads, NEW code \in Codes, code # "ok",
         NEW reset \in BOOLEAN, NEW back \in Backs, CallError(t, code, reset, back),
         holder' = holder, at[t] \notin Keeping
  PROVE  Moves(t, "error")
<1> DEFINE f == [NoFrame EXCEPT !.code = code, !.reset = reset, !.back = back]
<1>1. f \in Frame /\ f.code = code
  BY NoFrameType DEF Frame
<1>2. FrameOK("error", f)
  BY <1>1 DEF FrameOK
<1>3. FrameFits(t, "error") /\ Goto(t, "error")
  BY <1>1, <1>2 DEF FrameFits, CallError, Local
<1>4. "error" \in Places /\ "error" \notin Keeping
  BY DEF Places, Needs, Keeping
<1>5. QED
  BY <1>3, <1>4, MovePlainly

LEMMA ArcIsReleased ==
  ASSUME TypeOK, LockInv, NEW t \in Threads, NEW back \in Backs, Release(t, back),
         holder' = holder, at[t] \notin Keeping
  PROVE  Moves(t, "drop") \/ Moves(t, back)
<1>1. CASE owners = {t}
  <2> DEFINE f == [NoFrame EXCEPT !.back = back]
  <2>1. f \in Frame
    BY NoFrameType DEF Frame
  <2>2. FrameOK("drop", f)
    BY NoFrameType
  <2>3. FrameFits(t, "drop") /\ Goto(t, "drop")
    BY <1>1, <2>1, <2>2 DEF FrameFits, Release, Local
  <2>4. "drop" \in Places /\ "drop" \notin Keeping
    BY DEF Places, Needs, Keeping
  <2>5. QED
    BY <2>3, <2>4, MovePlainly
<1>2. CASE owners # {t}
  <2>1. Goto(t, back) /\ Forget(t)
    BY <1>2 DEF Release
  <2>2. FrameFits(t, back) /\ back \in Places /\ back \notin Keeping
    BY <2>1, FrameFields, Forgets
  <2>3. QED
    BY <2>1, <2>2, MovePlainly
<1>3. QED
  BY <1>1, <1>2

\* What it takes to go on from a place at which a lock is taken.
LEMMA FromFree ==
  ASSUME NEW t
  PROVE  /\ \A place : From(t, place) => at[t] = place
         /\ From(t, "error_conn") => Free("conn_state")
         /\ From(t, "error_send") => Free("send_storage")
         /\ From(t, "error_recv") => Free("recv_storage")
         /\ From(t, "write") => Free("send_buffer")
         /\ From(t, "recv_sequential") => Free("recv_storage")
         /\ From(t, "push") \/ From(t, "finish") \/ From(t, "pop") => Free("send_storage")
BY DEF From, Needs

LEMMA ErrorMoves ==
  ASSUME TypeOK, LockInv, FrameInv, NEW t \in Threads, Error(t)
  PROVE  \E place : Moves(t, place)
<1> DEFINE back == frame[t].back
<1>1. /\ back \in Places /\ back \notin Keeping
      /\ Forget(t) => FrameFits(t, back)
  BY FrameFields, Forgets
<1>2. {"error", "error_conn", "error_send", "error_recv", "error_reset"} \subseteq Places
  BY DEF Places, Needs
<1>3. CASE ErrorCheck(t)
  <2>1. at[t] = "error" /\ at[t] \notin Keeping /\ "error_conn" \notin Keeping /\ holder' = holder
    BY <1>3, FromFree DEF ErrorCheck, Keeping
  <2>2. CASE Ok
    <3>1. Goto(t, "error_conn") /\ frame' = frame
      BY <1>3, <2>2 DEF ErrorCheck
    <3>2. FrameFits(t, "error_conn")
      BY <2>1, <3>1, Remembers DEF FrameOK
    <3>3. QED
      BY <1>2, <2>1, <3>1, <3>2, MovePlainly
  <2>3. CASE ~ Ok
    <3>1. Goto(t, back) /\ Forget(t)
      BY <1>3, <2>3 DEF ErrorCheck
    <3>2. QED
      BY <1>1, <2>1, <3>1, MovePlainly
  <2>4. QED
    BY <2>2, <2>3
<1>4. ASSUME From(t, "error_conn"), Take(t, "conn_state"), Goto(t, "error_send"), frame' = frame
      PROVE  Moves(t, "error_send")
  <2>1. at[t] = "error_conn" /\ Free("conn_state")
    BY <1>4, FromFree
  <2>2. FrameFits(t, "error_send")
    BY <1>4, <2>1, Remembers DEF FrameOK
  <2>3. \A l \in Locks : "error_send" \in HeldAt[l] <=> at[t] \in HeldAt[l] \/ l = "conn_state"
    BY <2>1, KeptAt DEF Locks
  <2>4. "conn_state" \in Locks
    BY DEF Locks
  <2>5. QED
    BY <1>2, <1>4, <2>1, <2>2, <2>3, <2>4, MoveTaking
<1>5. ASSUME From(t, "error_send"), Take(t, "send_storage"), Goto(t, "error_recv"), frame' = frame
      PROVE  Moves(t, "error_recv")
  <2>1. at[t] = "error_send" /\ Free("send_storage")
    BY <1>5, FromFree
  <2>2. FrameFits(t, "error_recv")
    BY <1>5, <2>1, Remembers DEF FrameOK
  <2>3. \A l \in Locks : "error_recv" \in HeldAt[l] <=> at[t] \in HeldAt[l] \/ l = "send_storage"
    BY <2>1, KeptAt DEF Locks
  <2>4. "send_storage" \in Locks
    BY DEF Locks
  <2>5. QED
    BY <1>2, <1>5, <2>1, <2>2, <2>3, <2>4, MoveTaking
<1>6. CASE ErrorLock(t)
  BY <1>4, <1>5, <1>6 DEF ErrorLock
<1>7. CASE ErrorSet(t)
  <2> DEFINE locks == {"conn_state", "send_storage"}
  <2>1. at[t] = "error_recv" /\ Give(locks)
    BY <1>7, FromFree DEF ErrorSet
  <2>2. \A l \in Locks : l \in locks <=> at[t] \in HeldAt[l]
    BY <2>1, KeptAt DEF Locks
  <2>3. CASE frame[t].reset
    <3>1. Goto(t, "error_reset") /\ frame' = frame
      BY <1>7, <2>3 DEF ErrorSet
    <3>2. FrameFits(t, "error_reset") /\ "error_reset" \notin Keeping
      BY <3>1, Remembers DEF FrameOK, Keeping
    <3>3. \A l \in Locks : "error_reset" \notin HeldAt[l]
      BY <3>2, KeepsNone
    <3>4. QED
      BY <1>2, <2>1, <2>2, <3>1, <3>2, <3>3, MoveGiving
  <2>4. CASE ~ frame[t].reset
    <3>1. Goto(t, back) /\ Forget(t)
      BY <1>7, <2>4 DEF ErrorSet
    <3>2. \A l \in Locks : back \notin HeldAt[l]
      BY <1>1, KeepsNone
    <3>3. QED
      BY <1>1, <2>1, <2>2, <3>1, <3>2, MoveGiving
  <2>5. QED
    BY <2>3, <2>4
<1>8. CASE ErrorReset(t)
  <2>1. at[t] = "error_reset" /\ at[t] \notin Keeping /\ holder' = holder
    BY <1>8, FromFree DEF ErrorReset, Keeping
  <2>2. Goto(t, back) /\ Forget(t)
    BY <1>8 DEF ErrorReset
  <2>3. QED
    BY <1>1, <2>1, <2>2, MovePlainly
<1>9. QED
  BY <1>3, <1>6, <1>7, <1>8 DEF Error

LEMMA DropMoves ==
  ASSUME TypeOK, LockInv, FrameInv, NEW t \in Threads, Drop(t)
  PROVE  \E place : Moves(t, place)
<1>1. at[t] = "drop" /\ at[t] \notin Keeping /\ holder' = holder
  BY FromFree DEF Drop, Keeping
<1>2. frame[t].back \in Backs
  BY FrameFields
<1>3. CASE CallError(t, "reset_local", TRUE, frame[t].back)
  BY <1>1, <1>2, <1>3, ErrorIsCalled DEF Codes
<1>4. CASE Goto(t, frame[t].back) /\ Forget(t)
  <2>1. /\ frame[t].back \in Places /\ frame[t].back \notin Keeping
        /\ FrameFits(t, frame[t].back)
    BY <1>2, <1>4, FrameFields, Forgets
  <2>2. QED
    BY <1>1, <1>4, <2>1, MovePlainly
<1>5. QED
  BY <1>3, <1>4 DEF Drop

LEMMA PanicMoves ==
  ASSUME TypeOK, LockInv, NEW t \in Threads, PanicOnPoison(t)
  PROVE  Moves(t, "panicked")
BY MovePanicking DEF PanicOnPoison

\* The calls of the applications.
LEMMA PushPanicMoves ==
  ASSUME TypeOK, LockInv, NEW t \in Threads, PushPanic(t),
         From(t, "push") \/ From(t, "finish")
  PROVE  Moves(t, "panicked")
<1>1. \A l \in Locks : l \in {"send_storage"} => holder[l] = Nobody
  BY FromFree DEF Free
<1>2. Panic(t, {"send_storage"})
  BY DEF PushPanic
<1>3. QED
  BY <1>1, <1>2, MovePanicking

LEMMA WriteMoves ==
  ASSUME TypeOK, LockInv, FrameInv, NEW h \in Handles,
         WriteTake(h) \/ WriteDrain(h) \/ WritePush(h)
  PROVE  \E place : Moves(h, place)
<1>1. h \in Threads /\ frame \in [Threads -> Frame] /\ frame[h] \in Frame /\ FrameOK(at[h], frame[h])
  BY ThreadNames DEF TypeOK, FrameInv
<1>2. << >> \in Seq(Nat) /\ {"drain", "push"} \subseteq Places /\ "send_buffer" \in Locks
  BY DEF Places, Needs, Locks
<1>3. ASSUME NEW bytes \in Seq(Nat), frame' = [frame EXCEPT ![h].bytes = bytes], frame[h].min >= 1,
             NEW place, place = "drain" \/ (place = "push" /\ bytes \in Chunks)
      PROVE  FrameFits(h, place)
  <2> DEFINE f == [frame[h] EXCEPT !.bytes = bytes]
  <2>1. f \in Frame /\ f.min = frame[h].min /\ f.bytes = bytes
    BY <1>1 DEF Frame
  <2>2. frame' = [frame EXCEPT ![h] = f]
    BY <1>1, <1>3
  <2>3. FrameOK(place, f)
    BY <1>3, <2>1 DEF FrameOK
  <2>4. QED
    BY <2>1, <2>2, <2>3 DEF FrameFits
<1>3a. ASSUME frame' = [frame EXCEPT ![h].bytes = << >>], frame[h].min >= 1
      PROVE  FrameFits(h, "drain")
  <2> DEFINE f == [frame[h] EXCEPT !.bytes = << >>]
  <2>1. f \in Frame /\ f.min = frame[h].min
    BY <1>1, <1>2 DEF Frame
  <2>2. frame' = [frame EXCEPT ![h] = f]
    BY <1>1, <1>3a
  <2>3. FrameOK("drain", f)
    BY <1>3a, <2>1 DEF FrameOK
  <2>4. QED
    BY <2>1, <2>2, <2>3 DEF FrameFits
<1>4. CASE WriteTake(h)
  <2>1. at[h] = "write" /\ Free("send_buffer") /\ Take(h, "send_buffer") /\ Goto(h, "drain")
    BY <1>4, FromFree DEF WriteTake
  <2>2. FrameFits(h, "drain")
    <3>1. frame' = [frame EXCEPT ![h].bytes = << >>]
      BY <1>4 DEF WriteTake
    <3>2. frame[h].min >= 1
      BY <1>1, <2>1 DEF FrameOK
    <3>3. QED
      BY <1>3a, <3>1, <3>2
  <2>3. \A l \in Locks : "drain" \in HeldAt[l] <=> at[h] \in HeldAt[l] \/ l = "send_buffer"
    BY <2>1, KeptAt DEF Locks
  <2>4. QED
    BY <1>1, <1>2, <2>1, <2>2, <2>3, MoveTaking
<1>5. ASSUME at[h] \in {"drain", "push"}, Give({"send_buffer"}), NEW place \in Backs \cup {"finish"},
             Goto(h, place), Forget(h)
      PROVE  Moves(h, place)
  <2>1. FrameFits(h, place) /\ place \in Places /\ place \notin Keeping
    BY <1>1, <1>5, FrameFields, Forgets
  <2>2. \A l \in Locks : place \notin HeldAt[l]
    BY <2>1, KeepsNone
  <2>3. \A l \in Locks : at[h] \in HeldAt[l] <=> l \in {"send_buffer"}
    BY <1>5, KeptAt DEF Locks
  <2>4. QED
    BY <1>1, <1>5, <2>1, <2>2, <2>3, MoveGiving
<1>6. CASE WriteDrain(h)
  <2>1. at[h] = "drain" /\ frame[h].min >= 1 /\ frame[h].min \in Nat
    BY <1>1, <1>6, FromFree, FrameFields DEF WriteDrain, FrameOK
  <2>2. CASE Len(stream.send_buffer) >= frame[h].min
    <3> DEFINE bytes == SubSeq(stream.send_buffer, 1, SegmentLen)
    <3>1. Goto(h, "push") /\ holder' = holder /\ frame' = [frame EXCEPT ![h].bytes = bytes]
      BY <1>6, <2>2 DEF WriteDrain
    <3>2. stream.send_buffer \in Seq(1 .. MaxBytes)
      BY DEF TypeOK
    <3>3. SegmentLen \in 1 .. MAX_DATA_LEN /\ SegmentLen \in 1 .. Len(stream.send_buffer)
      BY <2>1, <2>2, <3>2, StreamInnerAssumption DEF SegmentLen
    <3>4. bytes \in [1 .. SegmentLen -> 1 .. MaxBytes]
      <4>1. SegmentLen \in Int /\ \A i \in 1 .. SegmentLen : stream.send_buffer[i] \in 1 .. MaxBytes
        <5>1. Len(stream.send_buffer) \in Nat /\
                \A i \in 1 .. Len(stream.send_buffer) : stream.send_buffer[i] \in 1 .. MaxBytes
          BY <3>2, ElementOfSeq, LenProperties
        <5> HIDE DEF SegmentLen
        <5>2. QED
          BY <3>3, <5>1
      <4>2. bytes \in Seq(1 .. MaxBytes) /\ Len(bytes) = SegmentLen
        <5> HIDE DEF SegmentLen
        <5>1. QED
          BY <3>3, <4>1, SubSeqProperties
      <4> HIDE DEF bytes
      <4>3. QED
        BY <4>2, LenProperties
    <3>5. bytes \in Chunks /\ bytes \in Seq(Nat)
      BY <3>3, <3>4, StreamInnerAssumption DEF Chunks
    <3>6. FrameFits(h, "push")
      <4> HIDE DEF bytes
      <4>1. QED
        BY <1>3, <2>1, <3>1, <3>5
    <3>7. \A l \in Locks : at[h] \in HeldAt[l] <=> "push" \in HeldAt[l]
      BY <2>1, KeptAt DEF Locks
    <3>8. QED
      BY <1>1, <1>2, <3>1, <3>6, <3>7, MoveQuietly
  <2>3. CASE ~ Len(stream.send_buffer) >= frame[h].min
    <3>1. Goto(h, frame[h].next) /\ Forget(h) /\ Give({"send_buffer"})
      BY <1>6, <2>3 DEF WriteDrain
    <3>2. frame[h].next \in Backs \cup {"finish"}
      BY <1>1, FrameFields DEF Backs
    <3>3. QED
      BY <1>5, <2>1, <3>1, <3>2
  <2>4. QED
    BY <2>2, <2>3
<1>7. CASE WritePush(h)
  <2>1. at[h] = "push" /\ frame[h].min >= 1 /\ From(h, "push")
    BY <1>1, <1>7, FromFree DEF WritePush, FrameOK
  <2>2. ASSUME Goto(h, "idle"), Forget(h), Give({"send_buffer"})
        PROVE  \E place : Moves(h, place)
    BY <1>5, <2>1, <2>2 DEF Backs
  <2>3. ASSUME Goto(h, "drain"), holder' = holder, frame' = [frame EXCEPT ![h].bytes = << >>]
        PROVE  Moves(h, "drain")
    <3>1. FrameFits(h, "drain")
      BY <1>3a, <2>1, <2>3
    <3>2. \A l \in Locks : at[h] \in HeldAt[l] <=> "drain" \in HeldAt[l]
      BY <2>1, KeptAt DEF Locks
    <3>3. QED
      BY <1>1, <1>2, <2>3, <3>1, <3>2, MoveQuietly
  <2>4. ASSUME PushPanic(h) PROVE Moves(h, "panicked")
    BY <1>1, <2>1, <2>4, PushPanicMoves
  <2>5. QED
    BY <1>7, <2>2, <2>3, <2>4 DEF WritePush
<1>8. QED
  BY <1>4, <1>6, <1>7

LEMMA FinishMoves ==
  ASSUME TypeOK, LockInv, FrameInv, NEW h \in Handles,
         FinishPush(h) \/ FinishWait(h) \/ FinishReturn(h)
  PROVE  \E place : Moves(h, place)
<1>1. h \in Threads
  BY ThreadNames
<1>2. at[h] \in {"finish", "wait", "finished"} /\ at[h] \notin Keeping
  BY FromFree DEF FinishPush, FinishWait, FinishReturn, Keeping
<1>3. ASSUME CallError(h, "write_finished", TRUE, "idle"), holder' = holder
      PROVE  Moves(h, "error")
  BY <1>1, <1>2, <1>3, ErrorIsCalled DEF Codes, Backs
<1>4. ASSUME NEW place \in {"wait", "finished", "idle"}, Goto(h, place), frame' = frame,
             holder' = holder
      PROVE  Moves(h, place)
  <2>1. place \in Places /\ place \notin Keeping
    BY DEF Places, Needs, Backs, Keeping
  <2>2. FrameFits(h, place)
    BY <1>1, <1>4, Remembers DEF FrameOK
  <2>3. QED
    BY <1>1, <1>2, <1>4, <2>1, <2>2, MovePlainly
<1>5. CASE FinishPush(h)
  <2>1. From(h, "finish")
    BY <1>5 DEF FinishPush
  <2>2. ASSUME PushPanic(h) PROVE Moves(h, "panicked")
    BY <1>1, <2>1, <2>2, PushPanicMoves
  <2>3. QED
    BY <1>3, <1>4, <1>5, <2>2 DEF FinishPush
<1>6. QED
  BY <1>4, <1>5 DEF FinishWait, FinishReturn

LEMMA ReadMoves ==
  ASSUME TypeOK, LockInv, FrameInv, NEW h \in Handles,
         ReadHead(h) \/ ReadState(h) \/ ReadPop(h)
  PROVE  \E place : Moves(h, place)
<1>1. h \in Threads
  BY ThreadNames
<1>2. at[h] \in {"read_head", "read_state", "read_pop"}
  BY FromFree DEF ReadHead, ReadState, ReadPop
<1>3. \A l \in Locks : at[h] \in HeldAt[l] <=> l = "recv_buffer"
  BY <1>2, KeptAt DEF Locks
<1>4. CASE ReadReturn(h)
  <2>1. Goto(h, "idle") /\ Give({"recv_buffer"}) /\ frame' = frame
    BY <1>4 DEF ReadReturn
  <2>2. FrameFits(h, "idle")
    BY <1>1, <2>1, Remembers DEF FrameOK
  <2>3. "idle" \in Places /\ \A l \in Locks : "idle" \notin HeldAt[l]
    BY KeepsNone DEF Places, Backs, Keeping
  <2>4. QED
    BY <1>1, <1>3, <2>1, <2>2, <2>3, MoveGiving
<1>5. ASSUME NEW place \in {"read_state", "read_pop"}, Goto(h, place), frame' = frame, holder' = holder
      PROVE  Moves(h, place)
  <2>1. place \in Places /\ \A l \in Locks : place \in HeldAt[l] <=> l = "recv_buffer"
    BY KeptAt DEF Places, Needs, Locks
  <2>2. FrameFits(h, place)
    BY <1>1, <1>5, Remembers DEF FrameOK
  <2>3. QED
    BY <1>1, <1>3, <1>5, <2>1, <2>2, MoveQuietly
<1>6. QED
  BY <1>4, <1>5 DEF ReadHead, ReadState, ReadPop, ReadReturnBytes

LEMMA CallMoves ==
  ASSUME TypeOK, LockInv, FrameInv, NEW h \in Handles, NewCall(h)
  PROVE  \E place : Moves(h, place)
<1>1. h \in Threads /\ at[h] = "idle" /\ at[h] \notin Keeping
  BY ThreadNames DEF NewCall, CallWrite, CallReset, CallDrop, CallRead, Call, Keeping
<1>2. CASE CallWrite(h)
  <2>1. Goto(h, "write") /\ holder' = holder /\ "write" \in Places /\ "write" \notin Keeping
    BY <1>2 DEF CallWrite, Places, Needs, Keeping
  <2>2. FrameFits(h, "write")
    <3>1. ASSUME NEW n \in BufferLens,
                 Local(h, [NoFrame EXCEPT !.bytes = [i \in 1 .. n |-> 0], !.min = MAX_DATA_LEN])
          PROVE  FrameFits(h, "write")
      <4> DEFINE bytes == [i \in 1 .. n |-> 0]
                 f == [NoFrame EXCEPT !.bytes = bytes, !.min = MAX_DATA_LEN]
      <4>1. bytes \in Seq(Nat) /\ MAX_DATA_LEN \in Nat /\ MAX_DATA_LEN >= 1
        BY StreamInnerAssumption
      <4>2. frame' = [frame EXCEPT ![h] = f]
        BY <3>1 DEF Local
      <4> HIDE DEF bytes
      <4>3. f \in Frame /\ f.min = MAX_DATA_LEN
        BY <4>1, NoFrameType DEF Frame
      <4>4. FrameOK("write", f)
        BY <4>1, <4>3 DEF FrameOK
      <4>5. QED
        BY <4>2, <4>3, <4>4 DEF FrameFits
    <3>2. ASSUME NEW f \in Frame, f.min = 1, Local(h, f)
          PROVE  FrameFits(h, "write")
      <4>1. FrameOK("write", f)
        BY <3>2 DEF FrameOK
      <4>2. QED
        BY <3>2, <4>1 DEF FrameFits, Local
    <3> DEFINE f == [NoFrame EXCEPT !.min = 1]
               g == [NoFrame EXCEPT !.min = 1, !.next = "finish"]
    <3>3. f \in Frame /\ f.min = 1 /\ g \in Frame /\ g.min = 1
      BY NoFrameType DEF Frame
    <3>4. QED
      BY <1>2, <3>1, <3>2, <3>3 DEF CallWrite
  <2>3. QED
    BY <1>1, <2>1, <2>2, MovePlainly
<1>3. CASE CallReset(h)
  <2>1. CallError(h, "reset_local", TRUE, "idle") /\ holder' = holder
    BY <1>3 DEF CallReset
  <2>2. QED
    BY <1>1, <2>1, ErrorIsCalled DEF Codes, Backs
<1>4. CASE CallDrop(h)
  <2>1. Release(h, "gone") /\ holder' = holder
    BY <1>4 DEF CallDrop
  <2>2. QED
    BY <1>1, <2>1, ArcIsReleased DEF Backs
<1>5. CASE CallRead(h)
  <2>1. Free("recv_buffer") /\ Take(h, "recv_buffer") /\ Goto(h, "read_head") /\ frame' = frame
    BY <1>5 DEF CallRead
  <2>2. FrameFits(h, "read_head")
    BY <1>1, <2>1, Remembers DEF FrameOK
  <2>3. /\ "read_head" \in Places /\ "recv_buffer" \in Locks
        /\ \A l \in Locks : "read_head" \in HeldAt[l] <=> at[h] \in HeldAt[l] \/ l = "recv_buffer"
    BY <1>1, KeptAt DEF Places, Needs, Locks
  <2>4. QED
    BY <1>1, <2>1, <2>2, <2>3, MoveTaking
<1>6. QED
  BY <1>2, <1>3, <1>4, <1>5 DEF NewCall

\* The stream's own thread.
LEMMA WorkerMoves ==
  ASSUME TypeOK, LockInv, FrameInv, WorkerStep
  PROVE  \E place : Moves("worker", place)
<1> DEFINE w == "worker"
<1>1. w \in Threads
  BY ThreadNames
<1>2. at[w] \in {"upgrade", "is_err", "is_write_finished", "acknowledge", "pop", "send", "quit"}
  BY FromFree DEF WorkerStep, WorkerUpgrade, WorkerIsErr, WorkerIsWriteFinished,
                  WorkerAcknowledge, WorkerPop, WorkerSend, WorkerReturn
<1>3. at[w] \notin Keeping
  BY <1>2 DEF Keeping
<1>4. ASSUME NEW place \in {"done", "is_err", "is_write_finished", "acknowledge", "pop", "send"},
             Goto(w, place), frame' = frame, holder' = holder
      PROVE  Moves(w, place)
  <2>1. place \in Places /\ place \notin Keeping
    BY DEF Places, Needs, Backs, Keeping
  <2>2. FrameFits(w, place)
    BY <1>1, <1>4, Remembers DEF FrameOK
  <2>3. QED
    BY <1>1, <1>3, <1>4, <2>1, <2>2, MovePlainly
<1>5. CASE WorkerUpgrade
  BY <1>4, <1>5 DEF WorkerUpgrade
<1>6. ASSUME WorkerQuit PROVE \E place : Moves(w, place)
  BY <1>1, <1>3, <1>6, ArcIsReleased DEF WorkerQuit, Backs
<1>7. CASE WorkerIsErr
  BY <1>4, <1>6, <1>7 DEF WorkerIsErr
<1>8. CASE WorkerIsWriteFinished
  <2>1. ASSUME Panic(w, {}) PROVE Moves(w, "panicked")
    BY <1>1, <2>1, MovePanicking
  <2>2. QED
    BY <1>4, <1>6, <1>8, <2>1 DEF WorkerIsWriteFinished
<1>9. ASSUME WorkerSendError, holder' = holder PROVE Moves(w, "error")
  BY <1>1, <1>3, <1>9, ErrorIsCalled DEF WorkerSendError, Codes, Backs
<1>10. CASE WorkerAcknowledge
  BY <1>4, <1>9, <1>10 DEF WorkerAcknowledge
<1>11. ASSUME NEW due \in BOOLEAN, WorkerPop(due) PROVE \E place : Moves(w, place)
  <2>1. Free("send_storage")
    BY <1>11, FromFree DEF WorkerPop
  <2>2. ASSUME Panic(w, {"send_storage"}) PROVE Moves(w, "panicked")
    <3>1. \A l \in Locks : l \in {"send_storage"} => holder[l] = Nobody
      BY <2>1 DEF Free
    <3>2. QED
      BY <1>1, <2>2, <3>1, MovePanicking
  <2>3. ASSUME Release(w, "upgrade"), holder' = holder PROVE \E place : Moves(w, place)
    BY <1>1, <1>3, <2>3, ArcIsReleased DEF Backs
  <2>4. QED
    BY <1>4, <1>11, <2>2, <2>3 DEF WorkerPop
<1>12. CASE WorkerSend
  BY <1>4, <1>9, <1>12 DEF WorkerSend
<1>13. CASE WorkerReturn
  BY <1>6, <1>13 DEF WorkerReturn
<1>14. QED
  BY <1>5, <1>7, <1>8, <1>10, <1>11, <1>12, <1>13 DEF WorkerStep

\* The listener's thread.
LEMMA ListenerMoves ==
  ASSUME TypeOK, LockInv, FrameInv, ListenerStep \/ ListenerArrive
  PROVE  \E place : Moves("listener", place)
<1> DEFINE w == "listener"
<1>1. w \in Threads
  BY ThreadNames
<1>2. at[w] \in {"idle", "recv_acknowledge", "recv_sequential", "release"}
  BY FromFree DEF ListenerStep, ListenerArrive, RecvAcknowledge, RecvSequential, RecvReturn,
                  ArriveError, ArriveAcknowledge, ArriveSequential, Arrive
<1>3. at[w] \notin Keeping
  BY <1>2 DEF Keeping
<1>4. ASSUME NEW code \in Codes \ {"ok"}, NEW reset \in BOOLEAN,
             CallError(w, code, reset, "release"), holder' = holder
      PROVE  Moves(w, "error")
  BY <1>1, <1>3, <1>4, ErrorIsCalled DEF Backs
<1>5. ASSUME Goto(w, "release"), Forget(w), holder' = holder
      PROVE  Moves(w, "release")
  <2>1. "release" \in Places /\ "release" \notin Keeping /\ FrameFits(w, "release")
    BY <1>5, Forgets DEF Places, Backs, Keeping
  <2>2. QED
    BY <1>1, <1>3, <1>5, <2>1, MovePlainly
<1>6. ASSUME NEW place \in {"recv_acknowledge", "recv_sequential"}, Goto(w, place), holder' = holder,
             NEW f \in Frame, Local(w, f)
      PROVE  Moves(w, place)
  <2>1. place \in Places /\ place \notin Keeping
    BY DEF Places, Needs, Keeping
  <2>2. FrameFits(w, place)
    BY <1>6, NoFrameType DEF FrameFits, Local
  <2>3. QED
    BY <1>1, <1>3, <1>6, <2>1, <2>2, MovePlainly
<1>7. CASE ArriveError
  BY <1>4, <1>7 DEF ArriveError, Codes
<1>8. CASE ArriveAcknowledge
  <2>1. PICK k \in 0 .. Len(stream.send_storage.queue_sent) :
          Local(w, [NoFrame EXCEPT !.seq_num = Minus(stream.send_storage.next_unsent, k + 1)])
    BY <1>8 DEF ArriveAcknowledge
  <2> DEFINE n == Minus(stream.send_storage.next_unsent, k + 1)
             f == [NoFrame EXCEPT !.seq_num = n]
  <2>2. n \in SeqNum
    <3>1. stream.send_storage.next_unsent \in SeqNum
      BY DEF TypeOK, SendStorageType
    <3>2. stream.send_storage.next_unsent \in Int /\ k + 1 \in Int
      BY <3>1 DEF SeqNum
    <3>3. QED
      BY <3>2, ResultsAreSequenceNumbers
  <2>3. f \in Frame
    BY <2>2, NoFrameType DEF Frame
  <2>4. QED
    BY <1>6, <1>8, <2>1, <2>3 DEF ArriveAcknowledge
<1>9. CASE ArriveSequential
  <2>1. PICK i \in {net.arrived, net.arrived + 1} \cap DOMAIN PeerStream :
          Local(w, [NoFrame EXCEPT !.seq_num = Plus(Start, i), !.variant = PeerStream[i]])
    BY <1>9 DEF ArriveSequential
  <2> DEFINE n == Plus(Start, i)
             f == [NoFrame EXCEPT !.seq_num = n, !.variant = PeerStream[i]]
  <2>2. n \in SeqNum /\ PeerStream[i] \in SequentialSegment
    <3>1. PeerStream \in Seq(SequentialSegment) /\ i \in 1 .. Len(PeerStream)
      BY StreamInnerAssumption
    <3>2. Start \in Int
      BY SequenceNumberAssumption DEF Start
    <3>3. QED
      BY <3>1, <3>2, WrapIsRemainder DEF Plus
  <2>3. f \in Frame
    BY <2>2, NoFrameType DEF Frame
  <2>4. QED
    BY <1>6, <1>9, <2>1, <2>3 DEF ArriveSequential
<1>10. CASE RecvAcknowledge
  BY <1>4, <1>5, <1>10 DEF RecvAcknowledge, RecvError, Codes
<1>11. CASE RecvSequential
  <2>1. Free("recv_storage")
    BY <1>11, FromFree DEF RecvSequential
  <2>2. ASSUME Panic(w, {"recv_storage"}) PROVE Moves(w, "panicked")
    BY <1>1, <2>1, <2>2, MovePanicking DEF Free
  <2>3. QED
    BY <1>4, <1>5, <1>11, <2>2 DEF RecvSequential, RecvError, Codes
<1>12. CASE RecvReturn
  BY <1>1, <1>3, <1>12, ArcIsReleased DEF RecvReturn, Backs
<1>13. QED
  BY <1>7, <1>8, <1>9, <1>10, <1>11, <1>12 DEF ListenerStep, ListenerArrive

\* Every step is a thread's.
LEMMA StepMoves ==
  ASSUME TypeOK, LockInv, FrameInv, Next
  PROVE  \E t, place : Moves(t, place)
<1>1. ASSUME NEW t \in Threads, Step(t) PROVE \E place : Moves(t, place)
  BY <1>1, ErrorMoves, DropMoves, PanicMoves, WriteMoves, FinishMoves, ReadMoves,
     WorkerMoves, ListenerMoves DEF Step, HandleStep
<1>2. QED
  BY <1>1, CallMoves, ListenerMoves DEF Next

\* The locks are taken in one order: send_buffer or recv_buffer, then
\* conn_state, then send_storage, then recv_storage, which nobody keeps.
LEMMA NoCircle ==
  ASSUME LockInv
  PROVE  NoLockCycle
<1> DEFINE lock(t) == Needs[at[t]]
<1> SUFFICES ASSUME NEW waiting \in (SUBSET Threads) \ {{}},
                    ~ \E t \in waiting :
                        at[t] \in DOMAIN Needs => holder[lock(t)] \notin waiting
             PROVE  FALSE
  BY Zenon DEF NoLockCycle
<1>1. /\ \A t \in waiting : at[t] \in DOMAIN Needs /\ holder[lock(t)] \in waiting
      /\ \A t \in waiting : t \in Threads
  BY Zenon
<1>7. PICK t0 : t0 \in waiting
  <2>1. waiting # {}
    BY Zenon
  <2>2. QED
    BY <2>1, Zenon
<1>2. ASSUME NEW t \in waiting
      PROVE  /\ lock(t) \in {"conn_state", "send_buffer", "send_storage", "recv_storage"}
             /\ at[t] = "push" => lock(t) = "send_storage"
             /\ at[t] = "error_send" => lock(t) = "send_storage"
             /\ at[t] = "error_recv" => lock(t) = "recv_storage"
             /\ at[t] # "drain"
  BY <1>1 DEF Needs
<1>3. ASSUME NEW t \in waiting, lock(t) \in Locks
      PROVE  \E u \in waiting : at[u] \in HeldAt[lock(t)]
  BY <1>1, <1>3 DEF LockInv
<1>4. \A t \in waiting : lock(t) # "recv_storage"
  BY <1>3, KeptAt DEF Locks
<1>5. \A t \in waiting : lock(t) # "send_storage"
  BY <1>2, <1>3, <1>4, KeptAt DEF Locks
<1>6. \A t \in waiting : lock(t) # "conn_state" /\ lock(t) # "send_buffer"
  BY <1>2, <1>3, <1>4, <1>5, KeptAt DEF Locks
<1>8. QED
  BY <1>2, <1>4, <1>5, <1>6, <1>7

-----------------------------------------------------------------------------
(* The types of the data                                                    *)

\* The steps that do something to the stream's fields or to the history.
Acts(t) ==
  \/ ErrorSet(t)
  \/ t \in Handles /\ \/ WriteTake(t) \/ WriteDrain(t) \/ WritePush(t)
                      \/ FinishPush(t) \/ FinishReturn(t)
                      \/ ReadHead(t) \/ ReadPop(t)
  \/ t = "worker" /\ (WorkerAcknowledge \/ \E due \in BOOLEAN : WorkerPop(due))
  \/ t = "listener" /\ (RecvAcknowledge \/ RecvSequential)

LEMMA ActsOrNot ==
  ASSUME Next
  PROVE  UNCHANGED << stream, hist >> \/ \E t \in Threads : Acts(t)
<1>1. ASSUME NEW t \in Threads, Step(t)
      PROVE  UNCHANGED << stream, hist >> \/ Acts(t)
  <2>1. CASE Error(t)
    BY <2>1 DEF Error, ErrorCheck, ErrorLock, ErrorReset, Acts
  <2>2. CASE Drop(t) \/ PanicOnPoison(t)
    BY <2>2 DEF Drop, PanicOnPoison
  <2>3. CASE t \in Handles /\ HandleStep(t)
    BY <2>3 DEF HandleStep, FinishWait, ReadState, Acts
  <2>4. CASE t = "worker" /\ WorkerStep
    BY <2>4 DEF WorkerStep, WorkerUpgrade, WorkerIsErr, WorkerIsWriteFinished,
                WorkerSend, WorkerReturn, Acts
  <2>5. CASE t = "listener" /\ ListenerStep
    BY <2>5 DEF ListenerStep, RecvReturn, Acts
  <2>6. QED
    BY <1>1, <2>1, <2>2, <2>3, <2>4, <2>5 DEF Step
<1>2. ASSUME NEW h \in Handles, NewCall(h) PROVE UNCHANGED << stream, hist >>
  BY <1>2 DEF NewCall, CallWrite, CallReset, CallDrop, CallRead
<1>3. ASSUME ListenerArrive PROVE UNCHANGED << stream, hist >>
  BY <1>3 DEF ListenerArrive, ArriveError, ArriveAcknowledge, ArriveSequential
<1>4. QED
  BY <1>1, <1>2, <1>3 DEF Next

\* The fields of the stream, without those of the receive storage.
StreamOf(storage) ==
  [ conn_state : Codes, send_buffer : Seq(1 .. MaxBytes),
    send_storage : SendStorageType, send_finished : BOOLEAN,
    recv_buffer : Seq(Nat), recv_storage : {storage}, recv_finished : BOOLEAN ]
History == [ taken : 0 .. MaxBytes, pushed : Seq(SequentialSegment), got : Seq(Nat) ]

LEMMA FieldTypes ==
  ASSUME TypeOK
  PROVE  /\ stream \in StreamOf(stream.recv_storage) /\ hist \in History
         /\ stream.conn_state \in Codes /\ stream.send_buffer \in Seq(1 .. MaxBytes)
         /\ stream.send_storage \in SendStorageType /\ stream.recv_buffer \in Seq(Nat)
         /\ IsRecvStorage(stream.recv_storage)
         /\ hist.taken \in 0 .. MaxBytes /\ hist.pushed \in Seq(SequentialSegment)
         /\ hist.got \in Seq(Nat)
<1>1. stream \in StreamOf(stream.recv_storage) /\ hist \in History /\ IsRecvStorage(stream.recv_storage)
  BY DEF TypeOK, StreamOf, History
<1>2. QED
  BY <1>1 DEF StreamOf, History

LEMMA ChunkIsData ==
  ASSUME NEW c \in Chunks
  PROVE  /\ c \in Data /\ DataSegment(c) \in SequentialSegment
         /\ BytesOf(DataSegment(c)) = c /\ c \in Seq(1 .. MaxBytes) /\ c \in Seq(Nat)
<1>1. PICK n \in 1 .. MAX_DATA_LEN : c \in [1 .. n -> 1 .. MaxBytes]
  BY DEF Chunks
<1>2. c \in Data
  BY <1>1, StreamInnerAssumption
<1>3. DataSegment(c) \in SequentialSegment
  BY <1>2 DEF SequentialSegment
<1>4. BytesOf(DataSegment(c)) = c
  BY DEF BytesOf, DataSegment
<1>5. n \in Nat
  BY <1>1, StreamInnerAssumption
<1>6. c \in Seq(1 .. MaxBytes)
  BY <1>1, <1>5, SeqDef
<1>7. QED
  BY <1>2, <1>3, <1>4, <1>6, StreamInnerAssumption

\* What write cuts off, and what it leaves.
LEMMA CutTypes ==
  ASSUME TypeOK, NEW h \in Threads, frame[h].min >= 1,
         Len(stream.send_buffer) >= frame[h].min
  PROVE  LET b == stream.send_buffer IN
         /\ SegmentLen \in 1 .. Len(b) /\ SegmentLen <= MAX_DATA_LEN /\ Len(b) \in Nat
         /\ SubSeq(b, 1, SegmentLen) \in Seq(1 .. MaxBytes)
         /\ SubSeq(b, SegmentLen + 1, Len(b)) \in Seq(1 .. MaxBytes)
         /\ SubSeq(b, 1, SegmentLen) \o SubSeq(b, SegmentLen + 1, Len(b)) = b
<1> DEFINE b == stream.send_buffer
           n == SegmentLen
<1>1. b \in Seq(1 .. MaxBytes) /\ frame[h].min \in Nat
  BY FieldTypes, FrameFields
<1>2. n \in 1 .. Len(b) /\ n <= MAX_DATA_LEN /\ Len(b) \in Nat
  BY <1>1, StreamInnerAssumption DEF SegmentLen
<1> HIDE DEF b, n
<1>3. \A i \in 1 .. Len(b) : b[i] \in 1 .. MaxBytes
  BY <1>1, ElementOfSeq, LenProperties
<1>4. SubSeq(b, 1, n) \in Seq(1 .. MaxBytes)
  <2>1. n \in Int /\ \A i \in 1 .. n : b[i] \in 1 .. MaxBytes
    BY <1>2, <1>3
  <2>2. QED
    BY <2>1, SubSeqProperties
<1>5. SubSeq(b, n + 1, Len(b)) \in Seq(1 .. MaxBytes)
  <2>1. n + 1 \in Int /\ Len(b) \in Int /\ \A i \in n + 1 .. Len(b) : b[i] \in 1 .. MaxBytes
    BY <1>2, <1>3
  <2>2. QED
    BY <2>1, SubSeqProperties
<1>6. SubSeq(b, 1, n) \o SubSeq(b, n + 1, Len(b)) = SubSeq(b, 1, Len(b))
  <2>1. 1 \in 1 .. Len(b) + 1 /\ n \in 1 - 1 .. Len(b) /\ Len(b) \in n .. Len(b)
    BY <1>2
  <2>2. QED
    BY <1>1, <2>1, ConcatAdjacentSubSeq
<1>7. SubSeq(b, 1, Len(b)) = b
  BY <1>1, SubSeqFull
<1>8. QED
  BY <1>2, <1>4, <1>5, <1>6, <1>7 DEF b, n

\* What a read returns, and what it leaves for the next.
LEMMA ReadTypes ==
  ASSUME NEW bytes \in Seq(Nat), NEW n \in BufferLens
  PROVE  LET len == IF n < Len(bytes) THEN n ELSE Len(bytes) IN
         /\ len \in 0 .. Len(bytes)
         /\ SubSeq(bytes, 1, len) \in Seq(Nat)
         /\ SubSeq(bytes, len + 1, Len(bytes)) \in Seq(Nat)
         /\ SubSeq(bytes, 1, len) \o SubSeq(bytes, len + 1, Len(bytes)) = bytes
<1> DEFINE len == IF n < Len(bytes) THEN n ELSE Len(bytes)
<1>1. len \in 0 .. Len(bytes) /\ Len(bytes) \in Nat
  BY StreamInnerAssumption
<1> HIDE DEF len
<1>2. \A i \in 1 .. Len(bytes) : bytes[i] \in Nat
  OBVIOUS
<1>3. SubSeq(bytes, 1, len) \in Seq(Nat)
  <2>1. len \in Int /\ \A i \in 1 .. len : bytes[i] \in Nat
    BY <1>1, <1>2
  <2>2. QED
    BY <2>1, SubSeqProperties
<1>4. SubSeq(bytes, len + 1, Len(bytes)) \in Seq(Nat)
  <2>1. len + 1 \in Int /\ Len(bytes) \in Int /\ \A i \in len + 1 .. Len(bytes) : bytes[i] \in Nat
    BY <1>1, <1>2
  <2>2. QED
    BY <2>1, SubSeqProperties
<1>5. SubSeq(bytes, 1, len) \o SubSeq(bytes, len + 1, Len(bytes)) = SubSeq(bytes, 1, Len(bytes))
  <2>1. 1 \in 1 .. Len(bytes) + 1 /\ len \in 1 - 1 .. Len(bytes) /\ Len(bytes) \in len .. Len(bytes)
    BY <1>1
  <2>2. QED
    BY <2>1, ConcatAdjacentSubSeq
<1>6. SubSeq(bytes, 1, Len(bytes)) = bytes
  BY SubSeqFull
<1>7. QED
  BY <1>1, <1>3, <1>4, <1>5, <1>6 DEF len

\* What an action does to the fields of the stream and to the history.
LEMMA StreamFields ==
  ASSUME NEW r, NEW s \in StreamOf(r)
  PROVE  /\ \A v \in Seq(1 .. MaxBytes) :
              [s EXCEPT !.send_buffer = v] \in StreamOf(r)
         /\ \A v \in SendStorageType : [s EXCEPT !.send_storage = v] \in StreamOf(r)
         /\ \A v \in BOOLEAN : [s EXCEPT !.send_finished = v] \in StreamOf(r)
         /\ \A v : [s EXCEPT !.recv_storage = v] \in StreamOf(v)
         /\ \A v : \A w \in Seq(Nat) :
              [s EXCEPT !.recv_storage = v, !.recv_buffer = w] \in StreamOf(v)
         /\ \A v : \A w \in BOOLEAN :
              [s EXCEPT !.recv_storage = v, !.recv_finished = w] \in StreamOf(v)
         /\ \A v : \A c \in Codes : \A w \in SendStorageType :
              [s EXCEPT !.conn_state = c, !.send_storage = w, !.recv_storage = v] \in StreamOf(v)
<1>1. \A v \in Seq(1 .. MaxBytes) : [s EXCEPT !.send_buffer = v] \in StreamOf(r)
  BY DEF StreamOf
<1>2. \A v \in SendStorageType : [s EXCEPT !.send_storage = v] \in StreamOf(r)
  BY DEF StreamOf
<1>3. \A v \in BOOLEAN : [s EXCEPT !.send_finished = v] \in StreamOf(r)
  BY DEF StreamOf
<1>4. \A v : [s EXCEPT !.recv_storage = v] \in StreamOf(v)
  BY DEF StreamOf
<1>5. \A v : \A w \in Seq(Nat) :
        [s EXCEPT !.recv_storage = v, !.recv_buffer = w] \in StreamOf(v)
  BY DEF StreamOf
<1>6. \A v : \A w \in BOOLEAN :
        [s EXCEPT !.recv_storage = v, !.recv_finished = w] \in StreamOf(v)
  BY DEF StreamOf
<1>7. \A v : \A c \in Codes : \A w \in SendStorageType :
        [s EXCEPT !.conn_state = c, !.send_storage = w, !.recv_storage = v] \in StreamOf(v)
  BY DEF StreamOf
<1>8. QED
  BY <1>1, <1>2, <1>3, <1>4, <1>5, <1>6, <1>7

\* The error empties both storages.
LEMMA ErrorSetEffect ==
  ASSUME TypeOK, NEW t \in Threads, ErrorSet(t)
  PROVE  /\ stream' \in StreamOf(stream'.recv_storage) /\ IsRecvStorage(stream'.recv_storage)
         /\ stream'.conn_state = frame[t].code
         /\ stream'.send_storage = SendClear(stream.send_storage)
         /\ stream'.recv_storage = RecvClear(stream.recv_storage)
         /\ stream'.send_buffer = stream.send_buffer
         /\ stream'.recv_buffer = stream.recv_buffer
         /\ stream'.recv_finished = stream.recv_finished
         /\ hist' = hist
         /\ net' \in [ registered : {FALSE}, told : BOOLEAN, arrived : {net.arrived} ]
<1> DEFINE r == stream.recv_storage
           q == SendClear(stream.send_storage)
           p == RecvClear(r)
           c == frame[t].code
<1>1. stream \in StreamOf(r) /\ IsRecvStorage(r) /\ q \in SendStorageType /\ c \in Codes
  BY FieldTypes, FrameFields, ClearedSendType
<1>2. IsRecvStorage(p)
  BY <1>1, ClearedRecvType
<1>3. stream' = [stream EXCEPT !.conn_state = c, !.send_storage = q, !.recv_storage = p]
  BY DEF ErrorSet
<1>4. hist' = hist /\ net' = [net EXCEPT !.registered = FALSE]
  BY DEF ErrorSet
<1>5. net' \in [ registered : {FALSE}, told : BOOLEAN, arrived : {net.arrived} ]
  BY <1>4 DEF TypeOK
<1> HIDE DEF r, q, p, c
<1>6. stream' \in StreamOf(p)
  BY <1>1, <1>3, StreamFields
<1>7. /\ stream'.conn_state = c /\ stream'.send_storage = q /\ stream'.recv_storage = p
      /\ stream'.send_buffer = stream.send_buffer
      /\ stream'.recv_buffer = stream.recv_buffer
      /\ stream'.recv_finished = stream.recv_finished
  BY <1>1, <1>3 DEF StreamOf
<1>8. QED
  BY <1>2, <1>4, <1>5, <1>6, <1>7 DEF r, q, p, c

\* The fields that the write side of an endpoint leaves alone.
ReadSideKept ==
  /\ stream'.conn_state = stream.conn_state
  /\ stream'.recv_buffer = stream.recv_buffer
  /\ stream'.recv_storage = stream.recv_storage
  /\ stream'.recv_finished = stream.recv_finished
  /\ hist'.got = hist.got

LEMMA WriteTakeEffect ==
  ASSUME TypeOK, NEW h \in Handles, WriteTake(h)
  PROVE  /\ stream' \in StreamOf(stream.recv_storage) /\ hist' \in History /\ ReadSideKept
         /\ stream'.send_storage = stream.send_storage /\ hist'.pushed = hist.pushed
         /\ \E n \in Nat :
              /\ hist'.taken = hist.taken + n /\ hist'.taken <= MaxBytes
              /\ stream'.send_buffer = stream.send_buffer \o [i \in 1 .. n |-> hist.taken + i]
<1> DEFINE n == Len(frame[h].bytes)
           new == [i \in 1 .. n |-> hist.taken + i]
           b == stream.send_buffer \o new
<1>1. /\ stream \in StreamOf(stream.recv_storage) /\ hist \in History
      /\ stream.send_buffer \in Seq(1 .. MaxBytes) /\ hist.taken \in 0 .. MaxBytes
  BY FieldTypes
<1>2. n \in Nat
  BY ThreadNames, FrameFields DEF Frame
<1>3. /\ hist.taken + n <= MaxBytes
      /\ stream' = [stream EXCEPT !.send_buffer = b] /\ hist' = [hist EXCEPT !.taken = @ + n]
  BY DEF WriteTake
<1> HIDE DEF n
<1>4. new \in [1 .. n -> 1 .. MaxBytes]
  <2>1. hist.taken \in Nat /\ MaxBytes \in Nat
    BY <1>1, StreamInnerAssumption
  <2>2. \A i \in 1 .. n : hist.taken + i \in 1 .. MaxBytes
    BY <1>2, <1>3, <2>1
  <2>3. QED
    BY <2>2
<1>5. new \in Seq(1 .. MaxBytes)
  BY <1>2, <1>4, SeqDef
<1> HIDE DEF new
<1>6. b \in Seq(1 .. MaxBytes)
  BY <1>1, <1>5, ConcatProperties
<1> HIDE DEF b
<1>7. stream' \in StreamOf(stream.recv_storage)
  BY <1>1, <1>3, <1>6, StreamFields
<1>8. hist.taken + n \in 0 .. MaxBytes
  BY <1>1, <1>2, <1>3
<1>9. hist' \in History /\ hist'.taken = hist.taken + n /\ hist'.pushed = hist.pushed
      /\ hist'.got = hist.got
  BY <1>1, <1>3, <1>8 DEF History
<1>10. /\ stream'.send_buffer = b /\ stream'.send_storage = stream.send_storage
       /\ stream'.conn_state = stream.conn_state
       /\ stream'.recv_buffer = stream.recv_buffer
       /\ stream'.recv_storage = stream.recv_storage
       /\ stream'.recv_finished = stream.recv_finished
  BY <1>1, <1>3 DEF StreamOf
<1>11. QED
  BY <1>2, <1>3, <1>7, <1>9, <1>10 DEF ReadSideKept, b, new

LEMMA WriteDrainEffect ==
  ASSUME TypeOK, FrameInv, NEW h \in Handles, WriteDrain(h)
  PROVE  /\ stream' \in StreamOf(stream.recv_storage) /\ hist' = hist /\ ReadSideKept
         /\ stream'.send_storage = stream.send_storage
         /\ \/ /\ at' = [at EXCEPT ![h] = "push"]
               /\ frame'[h].bytes \in Seq(1 .. MaxBytes)
               /\ stream'.send_buffer \in Seq(1 .. MaxBytes)
               /\ frame'[h].bytes \o stream'.send_buffer = stream.send_buffer
            \/ /\ at' = [at EXCEPT ![h] = frame[h].next]
               /\ stream'.send_buffer = stream.send_buffer
<1> DEFINE b == stream.send_buffer
           front == SubSeq(b, 1, SegmentLen)
           rest == SubSeq(b, SegmentLen + 1, Len(b))
<1>1. stream \in StreamOf(stream.recv_storage) /\ h \in Threads /\ hist' = hist
  BY FieldTypes, ThreadNames DEF WriteDrain
<1>2. frame[h].min >= 1
  BY <1>1, FromFree DEF WriteDrain, FrameInv, FrameOK
<1>3. CASE Len(b) >= frame[h].min
  <2>1. /\ at' = [at EXCEPT ![h] = "push"]
        /\ frame' = [frame EXCEPT ![h].bytes = front]
        /\ stream' = [stream EXCEPT !.send_buffer = rest]
    BY <1>3 DEF WriteDrain, Goto
  <2>2. front \in Seq(1 .. MaxBytes) /\ rest \in Seq(1 .. MaxBytes) /\ front \o rest = b
    BY <1>1, <1>2, <1>3, CutTypes
  <2> HIDE DEF front, rest, b
  <2>3. frame'[h].bytes = front
    BY <1>1, <2>1, FrameFields DEF TypeOK, Frame
  <2>4. stream' \in StreamOf(stream.recv_storage)
    BY <1>1, <2>1, <2>2, StreamFields
  <2>5. stream'.send_buffer = rest /\ stream'.send_storage = stream.send_storage
        /\ stream'.conn_state = stream.conn_state
        /\ stream'.recv_buffer = stream.recv_buffer
        /\ stream'.recv_storage = stream.recv_storage
        /\ stream'.recv_finished = stream.recv_finished
    BY <1>1, <2>1 DEF StreamOf
  <2>6. QED
    BY <1>1, <2>1, <2>2, <2>3, <2>4, <2>5 DEF ReadSideKept, b
<1>4. CASE ~ Len(b) >= frame[h].min
  BY <1>1, <1>4 DEF WriteDrain, Goto, ReadSideKept
<1>5. QED
  BY <1>3, <1>4

\* What a thread pushes goes to the end of queue_unsent.
LEMMA PushEffect ==
  ASSUME TypeOK, NEW segment \in SequentialSegment, Push(segment)
  PROVE  /\ stream' \in StreamOf(stream.recv_storage) /\ hist' \in History /\ ReadSideKept
         /\ stream'.send_buffer = stream.send_buffer /\ hist'.taken = hist.taken
         /\ stream'.send_storage = AfterPush(stream.send_storage, segment)
         /\ hist'.pushed = Append(hist.pushed, segment)
<1> DEFINE q == AfterPush(stream.send_storage, segment)
           u == Append(hist.pushed, segment)
<1>1. /\ stream \in StreamOf(stream.recv_storage) /\ hist \in History
      /\ stream.send_storage \in SendStorageType /\ hist.pushed \in Seq(SequentialSegment)
  BY FieldTypes
<1>2. stream' = [stream EXCEPT !.send_storage = q] /\ hist' = [hist EXCEPT !.pushed = u]
  BY DEF Push
<1>3. q \in SendStorageType
  BY <1>1, PushFields
<1>4. u \in Seq(SequentialSegment)
  BY <1>1, AppendProperties
<1> HIDE DEF q, u
<1>5. stream' \in StreamOf(stream.recv_storage)
  BY <1>1, <1>2, <1>3, StreamFields
<1>6. hist' \in History /\ hist'.taken = hist.taken /\ hist'.pushed = u /\ hist'.got = hist.got
  BY <1>1, <1>2, <1>4 DEF History
<1>7. /\ stream'.send_storage = q /\ stream'.send_buffer = stream.send_buffer
      /\ stream'.conn_state = stream.conn_state
      /\ stream'.recv_buffer = stream.recv_buffer
      /\ stream'.recv_storage = stream.recv_storage
      /\ stream'.recv_finished = stream.recv_finished
  BY <1>1, <1>2 DEF StreamOf
<1>8. QED
  BY <1>5, <1>6, <1>7 DEF ReadSideKept, q, u

LEMMA WritePushEffect ==
  ASSUME TypeOK, FrameInv, NEW h \in Handles, WritePush(h)
  PROVE  /\ stream' \in StreamOf(stream.recv_storage) /\ hist' \in History /\ ReadSideKept
         /\ stream'.send_buffer = stream.send_buffer /\ hist'.taken = hist.taken
         /\ at[h] = "push"
         /\ \/ /\ at' = [at EXCEPT ![h] = "drain"]
               /\ frame[h].bytes \in Chunks
               /\ DataSegment(frame[h].bytes) \in SequentialSegment
               /\ stream'.send_storage =
                    AfterPush(stream.send_storage, DataSegment(frame[h].bytes))
               /\ hist'.pushed = Append(hist.pushed, DataSegment(frame[h].bytes))
            \/ /\ at' = [at EXCEPT ![h] = "idle"] /\ PushRejects(stream.send_storage)
               /\ stream'.send_storage = stream.send_storage /\ hist'.pushed = hist.pushed
            \/ /\ at' = [at EXCEPT ![h] = "panicked"] /\ PushPanic(h)
               /\ stream'.send_storage = stream.send_storage /\ hist'.pushed = hist.pushed
<1>1. h \in Threads /\ at[h] = "push"
  BY ThreadNames, FromFree DEF WritePush
<1>2. frame[h].bytes \in Chunks
  BY <1>1 DEF FrameInv, FrameOK
<1>3. DataSegment(frame[h].bytes) \in SequentialSegment
  BY <1>2, ChunkIsData
<1>4. ASSUME stream' = stream, hist' = hist
      PROVE  /\ stream' \in StreamOf(stream.recv_storage) /\ hist' \in History /\ ReadSideKept
             /\ stream'.send_buffer = stream.send_buffer /\ hist'.taken = hist.taken
             /\ stream'.send_storage = stream.send_storage /\ hist'.pushed = hist.pushed
  BY <1>4, FieldTypes DEF ReadSideKept
<1>5. CASE PushPanic(h)
  <2>1. stream' = stream /\ hist' = hist /\ at' = [at EXCEPT ![h] = "panicked"]
    BY <1>5 DEF PushPanic, Panic, Goto
  <2>2. QED
    BY <1>1, <1>4, <1>5, <2>1
<1>6. CASE /\ PushRejects(stream.send_storage) /\ Goto(h, "idle")
           /\ stream' = stream /\ hist' = hist
  <2>1. at' = [at EXCEPT ![h] = "idle"]
    BY <1>6 DEF Goto
  <2>2. QED
    BY <1>1, <1>4, <1>6, <2>1
<1>7. CASE Push(DataSegment(frame[h].bytes)) /\ Goto(h, "drain")
  <2>1. at' = [at EXCEPT ![h] = "drain"]
    BY <1>7 DEF Goto
  <2>2. QED
    BY <1>1, <1>2, <1>3, <1>7, <2>1, PushEffect
<1>8. QED
  BY <1>5, <1>6, <1>7 DEF WritePush

LEMMA FinishPushEffect ==
  ASSUME TypeOK, NEW h \in Handles, FinishPush(h)
  PROVE  /\ stream' \in StreamOf(stream.recv_storage) /\ hist' \in History /\ ReadSideKept
         /\ stream'.send_buffer = stream.send_buffer /\ hist'.taken = hist.taken
         /\ \/ UNCHANGED << stream, hist >>
            \/ /\ stream'.send_storage = AfterPush(stream.send_storage, Finish)
               /\ hist'.pushed = Append(hist.pushed, Finish)
<1>1. Finish \in SequentialSegment
  BY DEF SequentialSegment
<1>2. CASE UNCHANGED << stream, hist >>
  BY <1>2, FieldTypes DEF ReadSideKept
<1>3. CASE Push(Finish)
  BY <1>1, <1>3, PushEffect
<1>4. QED
  BY <1>2, <1>3 DEF FinishPush, PushPanic

LEMMA FinishReturnEffect ==
  ASSUME TypeOK, NEW h \in Handles, FinishReturn(h)
  PROVE  /\ stream' \in StreamOf(stream.recv_storage) /\ hist' = hist /\ ReadSideKept
         /\ stream'.send_buffer = stream.send_buffer
         /\ stream'.send_storage = stream.send_storage
<1>1. stream \in StreamOf(stream.recv_storage)
  BY FieldTypes
<1>2. stream' = [stream EXCEPT !.send_finished = TRUE] /\ hist' = hist
  BY DEF FinishReturn
<1>3. stream' \in StreamOf(stream.recv_storage)
  BY <1>1, <1>2, StreamFields
<1>4. /\ stream'.send_storage = stream.send_storage
      /\ stream'.send_buffer = stream.send_buffer
      /\ stream'.conn_state = stream.conn_state
      /\ stream'.recv_buffer = stream.recv_buffer
      /\ stream'.recv_storage = stream.recv_storage
      /\ stream'.recv_finished = stream.recv_finished
  BY <1>1, <1>2 DEF StreamOf
<1>5. QED
  BY <1>2, <1>3, <1>4 DEF ReadSideKept

\* The fields that the read side of an endpoint leaves alone.
WriteSideKept ==
  /\ stream'.send_buffer = stream.send_buffer
  /\ stream'.send_storage = stream.send_storage
  /\ hist'.taken = hist.taken /\ hist'.pushed = hist.pushed

\* What a read returns is taken from the front of the bytes it has.
LEMMA ReturnEffect ==
  ASSUME TypeOK, NEW h \in Handles, NEW bytes \in Seq(Nat), NEW storage,
         ReadReturnBytes(h, bytes, storage)
  PROVE  /\ stream' \in StreamOf(storage) /\ hist' \in History /\ WriteSideKept
         /\ stream'.conn_state = stream.conn_state
         /\ stream'.recv_finished = stream.recv_finished
         /\ stream'.recv_storage = storage
         /\ at' = [at EXCEPT ![h] = "idle"]
         /\ \E x \in Seq(Nat) : /\ hist'.got = hist.got \o x
                                /\ stream'.recv_buffer \in Seq(Nat)
                                /\ x \o stream'.recv_buffer = bytes
<1> DEFINE len(n) == IF n < Len(bytes) THEN n ELSE Len(bytes)
           front(n) == SubSeq(bytes, 1, len(n))
           rest(n) == SubSeq(bytes, len(n) + 1, Len(bytes))
<1>1. stream \in StreamOf(stream.recv_storage) /\ hist \in History /\ hist.got \in Seq(Nat)
  BY FieldTypes
<1>2. PICK n \in BufferLens :
        /\ stream' = [stream EXCEPT !.recv_storage = storage, !.recv_buffer = rest(n)]
        /\ hist' = [hist EXCEPT !.got = @ \o front(n)]
        /\ ReadReturn(h)
  BY DEF ReadReturnBytes
<1> DEFINE x == front(n)
           y == rest(n)
<1>3. x \in Seq(Nat) /\ y \in Seq(Nat) /\ x \o y = bytes
  BY ReadTypes
<1>4. stream' = [stream EXCEPT !.recv_storage = storage, !.recv_buffer = y]
      /\ hist' = [hist EXCEPT !.got = hist.got \o x]
  BY <1>2
<1>5. at' = [at EXCEPT ![h] = "idle"]
  BY <1>2 DEF ReadReturn, Goto
<1> HIDE DEF x, y
<1>6. stream' \in StreamOf(storage)
  BY <1>1, <1>3, <1>4, StreamFields
<1>7. hist.got \o x \in Seq(Nat)
  BY <1>1, <1>3, ConcatProperties
<1>8. /\ hist' \in History /\ hist'.got = hist.got \o x
      /\ hist'.taken = hist.taken /\ hist'.pushed = hist.pushed
  BY <1>1, <1>4, <1>7 DEF History
<1>9. /\ stream'.send_storage = stream.send_storage
      /\ stream'.send_buffer = stream.send_buffer
      /\ stream'.conn_state = stream.conn_state
      /\ stream'.recv_buffer = y /\ stream'.recv_storage = storage
      /\ stream'.recv_finished = stream.recv_finished
  BY <1>1, <1>4 DEF StreamOf
<1>10. QED
  BY <1>3, <1>5, <1>6, <1>8, <1>9 DEF WriteSideKept

\* What is popped is DATA or FINISH, and the rest of the queue stays.
LEMMA PopIsHead ==
  ASSUME TypeOK, CanPop(stream.recv_storage)
  PROVE  LET s == stream.recv_storage
             next == Head(s.pop_queue)
         IN /\ next \in SequentialSegment /\ BytesOf(next) \in Seq(Nat)
            /\ next.variant = "Data" => BytesOf(next) = next.data
            /\ IsRecvStorage(AfterPop(s)) /\ Tail(s.pop_queue) \in Seq(SequentialSegment)
            /\ s.pop_queue = << next >> \o Tail(s.pop_queue)
<1>1. /\ IsRecvStorage(stream.recv_storage)
      /\ stream.recv_storage.pop_queue \in Seq(SequentialSegment)
      /\ stream.recv_storage.pop_queue # << >>
  BY FieldTypes DEF IsRecvStorage, CanPop
<1> DEFINE u == stream.recv_storage.pop_queue
<1>2. IsRecvStorage(AfterPop(stream.recv_storage))
  BY <1>1, PopFields
<1>3. Head(u) \in SequentialSegment /\ Tail(u) \in Seq(SequentialSegment) /\ u = << Head(u) >> \o Tail(u)
  <2> HIDE DEF u
  <2>1. QED
    BY <1>1 DEF u
<1>4. BytesOf(Head(u)) \in Seq(Nat)
  BY <1>3, BytesOfSegment
<1>5. QED
  BY <1>2, <1>3, <1>4 DEF BytesOf

\* FINISH at the front of the queue ends the reading; DATA is returned.
LEMMA ReadPopEffect ==
  ASSUME TypeOK, NEW h \in Handles, ReadPop(h)
  PROVE  /\ stream' \in StreamOf(stream'.recv_storage) /\ IsRecvStorage(stream'.recv_storage)
         /\ hist' \in History /\ WriteSideKept /\ stream'.conn_state = stream.conn_state
         /\ at[h] = "read_pop"
         /\ LET s == stream.recv_storage
                next == Head(s.pop_queue)
            IN \/ /\ CanPop(s) /\ stream'.recv_storage = AfterPop(s)
                  /\ at' = [at EXCEPT ![h] = "idle"]
                  /\ stream'.recv_finished = stream.recv_finished
                  /\ \E x \in Seq(Nat) :
                       /\ hist'.got = hist.got \o x /\ stream'.recv_buffer \in Seq(Nat)
                       /\ x \o stream'.recv_buffer = stream.recv_buffer \o BytesOf(next)
               \/ /\ CanPop(s) /\ next = Finish /\ stream'.recv_storage = AfterPop(s)
                  /\ at' = [at EXCEPT ![h] = "read_state"]
                  /\ stream'.recv_finished = TRUE
                  /\ hist'.got = hist.got /\ stream'.recv_buffer = stream.recv_buffer
               \/ UNCHANGED << stream, hist >> /\ at' = [at EXCEPT ![h] = "read_state"]
<1> DEFINE s == stream.recv_storage
           next == Head(s.pop_queue)
<1>1. /\ stream \in StreamOf(s) /\ hist \in History /\ IsRecvStorage(s)
      /\ stream.recv_buffer \in Seq(Nat) /\ at[h] = "read_pop"
  BY FieldTypes, FromFree DEF ReadPop
<1>2. CASE CanPop(s) /\ next.variant = "Data"
             /\ ReadReturnBytes(h, stream.recv_buffer \o next.data, AfterPop(s))
  <2>1. BytesOf(next) \in Seq(Nat) /\ BytesOf(next) = next.data /\ IsRecvStorage(AfterPop(s))
    BY <1>2, PopIsHead
  <2> DEFINE bytes == stream.recv_buffer \o BytesOf(next)
  <2>2. bytes \in Seq(Nat) /\ ReadReturnBytes(h, bytes, AfterPop(s))
    BY <1>1, <1>2, <2>1, ConcatProperties
  <2> HIDE DEF bytes
  <2>3. /\ stream' \in StreamOf(AfterPop(s)) /\ hist' \in History /\ WriteSideKept
        /\ stream'.conn_state = stream.conn_state
        /\ stream'.recv_finished = stream.recv_finished
        /\ stream'.recv_storage = AfterPop(s)
        /\ at' = [at EXCEPT ![h] = "idle"]
        /\ \E x \in Seq(Nat) : /\ hist'.got = hist.got \o x
                               /\ stream'.recv_buffer \in Seq(Nat)
                               /\ x \o stream'.recv_buffer = bytes
    BY <2>2, ReturnEffect
  <2>4. QED
    BY <1>1, <1>2, <2>1, <2>3 DEF bytes
<1>3. CASE CanPop(s) /\ next = Finish
             /\ stream' = [stream EXCEPT !.recv_storage = AfterPop(s), !.recv_finished = TRUE]
             /\ Goto(h, "read_state") /\ hist' = hist
  <2> DEFINE q == AfterPop(s)
  <2>1. IsRecvStorage(q) /\ stream' = [stream EXCEPT !.recv_storage = q, !.recv_finished = TRUE]
    BY <1>3, PopIsHead
  <2> HIDE DEF q
  <2>2. stream' \in StreamOf(q)
    BY <1>1, <2>1, StreamFields
  <2>3. /\ stream'.recv_storage = q /\ stream'.recv_finished = TRUE
        /\ stream'.conn_state = stream.conn_state /\ stream'.recv_buffer = stream.recv_buffer
        /\ stream'.send_buffer = stream.send_buffer
        /\ stream'.send_storage = stream.send_storage
    BY <1>1, <2>1 DEF StreamOf
  <2>4. QED
    BY <1>1, <1>3, <2>1, <2>2, <2>3 DEF WriteSideKept, Goto, q
<1>4. CASE UNCHANGED << stream, hist >> /\ Goto(h, "read_state")
  BY <1>1, <1>4 DEF WriteSideKept, Goto
<1>5. QED
  BY <1>2, <1>3, <1>4 DEF ReadPop

LEMMA ReadHeadEffect ==
  ASSUME TypeOK, NEW h \in Handles, ReadHead(h)
  PROVE  /\ stream' \in StreamOf(stream.recv_storage) /\ hist' \in History /\ WriteSideKept
         /\ stream'.conn_state = stream.conn_state
         /\ stream'.recv_finished = stream.recv_finished
         /\ stream'.recv_storage = stream.recv_storage
         /\ \/ /\ at' = [at EXCEPT ![h] = "idle"] /\ ~ stream.recv_finished
               /\ \E x \in Seq(Nat) : /\ hist'.got = hist.got \o x
                                      /\ stream'.recv_buffer \in Seq(Nat)
                                      /\ x \o stream'.recv_buffer = stream.recv_buffer
            \/ UNCHANGED << stream, hist >> /\ at' = [at EXCEPT ![h] = "idle"]
            \/ /\ UNCHANGED << stream, hist >> /\ at' = [at EXCEPT ![h] = "read_state"]
               /\ stream.recv_buffer = << >>
<1>1. /\ stream \in StreamOf(stream.recv_storage) /\ hist \in History
      /\ stream.recv_buffer \in Seq(Nat)
  BY FieldTypes
<1>2. CASE ReadReturn(h) /\ UNCHANGED << stream, hist >>
  BY <1>1, <1>2 DEF ReadReturn, Goto, WriteSideKept
<1>3. CASE ~ stream.recv_finished /\ ReadReturnBytes(h, stream.recv_buffer, stream.recv_storage)
  BY <1>1, <1>3, ReturnEffect
<1>4. CASE stream.recv_buffer = << >> /\ Goto(h, "read_state") /\ UNCHANGED << stream, hist >>
  BY <1>1, <1>4 DEF Goto, WriteSideKept
<1>5. QED
  BY <1>2, <1>3, <1>4 DEF ReadHead

\* The stream's thread and the acknowledgements change one storage each.
SendStorageChanges ==
  /\ stream' \in StreamOf(stream.recv_storage) /\ hist' = hist /\ ReadSideKept
  /\ stream'.send_buffer = stream.send_buffer
RecvStorageChanges ==
  /\ stream' \in StreamOf(stream'.recv_storage) /\ hist' = hist /\ WriteSideKept
  /\ stream'.conn_state = stream.conn_state /\ stream'.recv_buffer = stream.recv_buffer
  /\ stream'.recv_finished = stream.recv_finished

LEMMA SendStorageIsSet ==
  ASSUME TypeOK, NEW q \in SendStorageType,
         stream' = [stream EXCEPT !.send_storage = q], hist' = hist
  PROVE  SendStorageChanges /\ stream'.send_storage = q
<1>1. stream \in StreamOf(stream.recv_storage)
  BY FieldTypes
<1>2. stream' \in StreamOf(stream.recv_storage)
  BY <1>1, StreamFields
<1>3. /\ stream'.send_storage = q /\ stream'.send_buffer = stream.send_buffer
      /\ stream'.conn_state = stream.conn_state
      /\ stream'.recv_buffer = stream.recv_buffer
      /\ stream'.recv_storage = stream.recv_storage
      /\ stream'.recv_finished = stream.recv_finished
  BY <1>1 DEF StreamOf
<1>4. QED
  BY <1>2, <1>3 DEF SendStorageChanges, ReadSideKept

LEMMA RecvStorageIsSet ==
  ASSUME TypeOK, NEW q, stream' = [stream EXCEPT !.recv_storage = q], hist' = hist
  PROVE  RecvStorageChanges /\ stream'.recv_storage = q
<1>1. stream \in StreamOf(stream.recv_storage)
  BY FieldTypes
<1>2. stream' \in StreamOf(q)
  BY <1>1, StreamFields
<1>3. /\ stream'.recv_storage = q /\ stream'.recv_finished = stream.recv_finished
      /\ stream'.conn_state = stream.conn_state /\ stream'.recv_buffer = stream.recv_buffer
      /\ stream'.send_buffer = stream.send_buffer
      /\ stream'.send_storage = stream.send_storage
  BY <1>1 DEF StreamOf
<1>4. QED
  BY <1>2, <1>3 DEF RecvStorageChanges, WriteSideKept

LEMMA WorkerAcknowledgeEffect ==
  ASSUME TypeOK, WorkerAcknowledge
  PROVE  /\ RecvStorageChanges /\ IsRecvStorage(stream'.recv_storage)
         /\ \E elapsed \in BOOLEAN :
              stream'.recv_storage = AfterPopAcknowledge(stream.recv_storage, elapsed)
<1>1. PICK elapsed \in BOOLEAN :
        stream' = [stream EXCEPT !.recv_storage = AfterPopAcknowledge(@, elapsed)]
  BY DEF WorkerAcknowledge
<1> DEFINE q == AfterPopAcknowledge(stream.recv_storage, elapsed)
<1>2. stream' = [stream EXCEPT !.recv_storage = q] /\ hist' = hist
  BY <1>1 DEF WorkerAcknowledge
<1>3. IsRecvStorage(q)
  BY FieldTypes, PopAcknowledgeFields
<1> HIDE DEF q
<1>4. RecvStorageChanges /\ stream'.recv_storage = q
  BY <1>2, RecvStorageIsSet
<1>5. QED
  BY <1>3, <1>4 DEF q

LEMMA WorkerPopEffect ==
  ASSUME TypeOK, NEW due \in BOOLEAN, WorkerPop(due)
  PROVE  /\ SendStorageChanges
         /\ \/ stream'.send_storage = stream.send_storage
            \/ /\ CanPopSegment(stream.send_storage, due)
               /\ stream'.send_storage = AfterPopSegment(stream.send_storage, due)
<1> DEFINE s == stream.send_storage
           q == AfterPopSegment(s, due)
<1>1. s \in SendStorageType
  BY FieldTypes
<1>2. CASE UNCHANGED << stream, hist >>
  BY <1>2, FieldTypes DEF SendStorageChanges, ReadSideKept
<1>3. CASE CanPopSegment(s, due) /\ stream' = [stream EXCEPT !.send_storage = q] /\ hist' = hist
  <2>1. q \in SendStorageType
    <3>1. CASE RetransmitIsDue(s, due)
      <4>1. s.queue_sent # << >> /\ due = TRUE
        BY <1>1, <3>1 DEF RetransmitIsDue
      <4>2. QED
        BY <1>1, <4>1, RotateFields
    <3>2. CASE ~ RetransmitIsDue(s, due)
      <4>1. s.queue_unsent # << >> /\ AfterPopSegment(s, due) = AfterPopSegment(s, FALSE)
        BY <1>1, <1>3, <3>2 DEF CanPopSegment, CanPopUnsent, RetransmitIsDue, AfterPopSegment,
                                PoppedSegment
      <4>2. QED
        BY <1>1, <4>1, TransmitFields
    <3>3. QED
      BY <3>1, <3>2
  <2> HIDE DEF q
  <2>2. SendStorageChanges /\ stream'.send_storage = q
    BY <1>3, <2>1, SendStorageIsSet
  <2>3. QED
    BY <1>1, <1>3, <2>2 DEF q
<1>4. QED
  BY <1>2, <1>3 DEF WorkerPop

LEMMA RecvAcknowledgeEffect ==
  ASSUME TypeOK, RecvAcknowledge
  PROVE  /\ SendStorageChanges
         /\ \/ stream'.send_storage = stream.send_storage
            \/ /\ ~ AckRejects(stream.send_storage, frame["listener"].seq_num)
               /\ stream'.send_storage =
                    AfterAcknowledge(stream.send_storage, frame["listener"].seq_num)
<1> DEFINE q == AfterAcknowledge(stream.send_storage, frame["listener"].seq_num)
<1>1. CASE UNCHANGED << stream, hist >>
  BY <1>1, FieldTypes DEF SendStorageChanges, ReadSideKept
<1>2. CASE /\ ~ AckRejects(stream.send_storage, frame["listener"].seq_num)
           /\ stream' = [stream EXCEPT !.send_storage = q] /\ hist' = hist
  <2>1. q \in SendStorageType
    BY FieldTypes, AcknowledgeFields
  <2> HIDE DEF q
  <2>2. SendStorageChanges /\ stream'.send_storage = q
    BY <1>2, <2>1, SendStorageIsSet
  <2>3. QED
    BY <1>2, <2>2 DEF q
<1>3. QED
  BY <1>1, <1>2 DEF RecvAcknowledge

LEMMA RecvSequentialEffect ==
  ASSUME TypeOK, RecvSequential
  PROVE  LET n == frame["listener"].seq_num
             x == frame["listener"].variant
             s == stream.recv_storage
         IN /\ RecvStorageChanges
            /\ \/ UNCHANGED stream
               \/ /\ ~ RecvPanics(s, n, x) /\ ~ RecvRejects(s, n, x)
                  /\ stream'.recv_storage = AfterRecv(s, n, x)
            /\ RecvRejects(s, n, x) => UNCHANGED stream
<1> DEFINE n == frame["listener"].seq_num
           x == frame["listener"].variant
           s == stream.recv_storage
           q == AfterRecv(s, n, x)
<1>1. CASE UNCHANGED << stream, hist >>
  BY <1>1, FieldTypes DEF RecvStorageChanges, WriteSideKept
<1>2. CASE /\ ~ RecvPanics(s, n, x) /\ ~ RecvRejects(s, n, x)
           /\ stream' = [stream EXCEPT !.recv_storage = q] /\ hist' = hist
  <2> HIDE DEF q
  <2>1. RecvStorageChanges /\ stream'.recv_storage = q
    BY <1>2, RecvStorageIsSet
  <2>2. QED
    BY <1>2, <2>1 DEF q
<1>3. QED
  BY <1>1, <1>2 DEF RecvSequential

LEMMA DataStep ==
  ASSUME TypeOK, FrameInv, Next
  PROVE  stream' \in StreamOf(stream'.recv_storage) /\ hist' \in History
<1>1. stream \in StreamOf(stream.recv_storage) /\ hist \in History
  BY FieldTypes
<1>2. CASE UNCHANGED << stream, hist >>
  BY <1>1, <1>2
<1>3. ASSUME NEW t \in Threads, ErrorSet(t)
      PROVE  stream' \in StreamOf(stream'.recv_storage) /\ hist' = hist
  BY <1>3, ErrorSetEffect
<1>4. ASSUME ReadSideKept, stream' \in StreamOf(stream.recv_storage)
      PROVE  stream' \in StreamOf(stream'.recv_storage)
  BY <1>4 DEF ReadSideKept
<1>5. ASSUME NEW h \in Handles,
             WriteTake(h) \/ WriteDrain(h) \/ WritePush(h) \/ FinishPush(h) \/ FinishReturn(h)
      PROVE  stream' \in StreamOf(stream'.recv_storage) /\ hist' \in History
  BY <1>1, <1>4, <1>5, WriteTakeEffect, WriteDrainEffect, WritePushEffect, FinishPushEffect,
     FinishReturnEffect
<1>6. ASSUME NEW h \in Handles, ReadHead(h) \/ ReadPop(h)
      PROVE  stream' \in StreamOf(stream'.recv_storage) /\ hist' \in History
  BY <1>6, ReadHeadEffect, ReadPopEffect
<1>7. CASE WorkerAcknowledge \/ RecvSequential
  BY <1>1, <1>7, WorkerAcknowledgeEffect, RecvSequentialEffect DEF RecvStorageChanges
<1>8. CASE (\E due \in BOOLEAN : WorkerPop(due)) \/ RecvAcknowledge
  BY <1>1, <1>4, <1>8, WorkerPopEffect, RecvAcknowledgeEffect DEF SendStorageChanges
<1>9. ASSUME NEW t \in Threads, Acts(t)
      PROVE  stream' \in StreamOf(stream'.recv_storage) /\ hist' \in History
  BY <1>1, <1>3, <1>5, <1>6, <1>7, <1>8, <1>9 DEF Acts
<1>10. QED
  BY <1>2, <1>9, ActsOrNot

\* An Arc is taken by a thread, the listener is told about by the errors, and
\* the counts of calls and of arrivals move within their bounds.
LEMMA OwnersStep ==
  ASSUME TypeOK, Next
  PROVE  owners' \subseteq Threads
<1>1. owners \subseteq Threads /\ "worker" \in Threads /\ "listener" \in Threads
  BY ThreadNames DEF TypeOK
<1>2. ASSUME NEW t, NEW back, Release(t, back) PROVE owners' \subseteq Threads
  BY <1>1, <1>2 DEF Release
<1>3. ASSUME NEW t, NEW holding, Panic(t, holding) PROVE owners' \subseteq Threads
  BY <1>1, <1>3 DEF Panic
<1>4. ASSUME NEW t \in Threads, Step(t) PROVE owners' \subseteq Threads
  <2>1. CASE Error(t) \/ Drop(t) \/ PanicOnPoison(t)
    BY <1>1, <1>3, <2>1 DEF Error, ErrorCheck, ErrorLock, ErrorSet, ErrorReset, Drop, PanicOnPoison
  <2>2. CASE t \in Handles /\ HandleStep(t)
    BY <1>1, <1>3, <2>2
    DEF HandleStep, WriteTake, WriteDrain, WritePush, PushPanic, FinishPush, FinishWait, FinishReturn, ReadHead, ReadState, ReadPop, ReadReturn, ReadReturnBytes
  <2>3. CASE t = "worker" /\ WorkerStep
    BY <1>1, <1>2, <1>3, <2>3 DEF WorkerStep, WorkerUpgrade, WorkerIsErr, WorkerIsWriteFinished,
                      WorkerAcknowledge, WorkerPop, WorkerSend, WorkerReturn, WorkerQuit
  <2>4. CASE t = "listener" /\ ListenerStep
    BY <1>1, <1>2, <1>3, <2>4 DEF ListenerStep, RecvAcknowledge, RecvSequential, RecvReturn
  <2>5. QED
    BY <1>4, <2>1, <2>2, <2>3, <2>4 DEF Step
<1>5. ASSUME NEW h \in Handles, NewCall(h) PROVE owners' \subseteq Threads
  BY <1>1, <1>2, <1>5 DEF NewCall, CallWrite, CallReset, CallDrop, CallRead
<1>6. CASE ListenerArrive
  BY <1>1, <1>6 DEF ListenerArrive, ArriveError, ArriveAcknowledge, ArriveSequential, Arrive
<1>7. QED
  BY <1>4, <1>5, <1>6 DEF Next

NetType == [ registered : BOOLEAN, told : BOOLEAN, arrived : 0 .. Len(PeerStream) ]

LEMMA NetStep ==
  ASSUME TypeOK, Next
  PROVE  /\ net' \in NetType
         /\ net'.registered => net.registered
         /\ ArriveSequential \/ net'.arrived = net.arrived
         /\ ArriveSequential => net'.arrived \in {net.arrived, net.arrived + 1}
                                  /\ net'.arrived \in DOMAIN PeerStream
<1>1. net \in NetType
  BY DEF TypeOK, NetType
<1>2. DOMAIN PeerStream = 1 .. Len(PeerStream)
  BY StreamInnerAssumption
<1>3. ASSUME NEW i \in {net.arrived, net.arrived + 1} \cap DOMAIN PeerStream,
             net' = [net EXCEPT !.arrived = i]
      PROVE  /\ net' \in NetType /\ net'.registered = net.registered
             /\ net'.arrived = i
  <2>1. i \in 0 .. Len(PeerStream)
    BY <1>2
  <2>2. QED
    BY <1>1, <1>3, <2>1 DEF NetType
<1>4. CASE ArriveSequential
  BY <1>3, <1>4 DEF ArriveSequential
<1> DEFINE Kept == /\ net' \in NetType /\ net'.arrived = net.arrived
                   /\ net'.registered => net.registered
<1>5. CASE net' = net
  BY <1>1, <1>4, <1>5
<1>6. ASSUME NEW t \in Threads, ErrorSet(t) \/ ErrorReset(t) PROVE Kept
  <2>1. net' = [net EXCEPT !.registered = FALSE] \/ net' = [net EXCEPT !.told = TRUE]
    BY <1>6 DEF ErrorSet, ErrorReset
  <2>2. QED
    BY <1>1, <2>1 DEF NetType
<1>7. ASSUME NEW t \in Threads, Step(t)
      PROVE  net' = net \/ ErrorSet(t) \/ ErrorReset(t)
  <2>1. CASE Error(t) \/ Drop(t) \/ PanicOnPoison(t)
    BY <2>1 DEF Error, ErrorCheck, ErrorLock, Drop, PanicOnPoison
  <2>2. CASE t \in Handles /\ HandleStep(t)
    BY <2>2 DEF HandleStep, WriteTake, WriteDrain, WritePush, FinishPush, FinishWait,
                FinishReturn, ReadHead, ReadState, ReadPop, ReadReturn, ReadReturnBytes
  <2>3. CASE t = "worker" /\ WorkerStep
    BY <2>3 DEF WorkerStep, WorkerUpgrade, WorkerIsErr, WorkerIsWriteFinished,
                WorkerAcknowledge, WorkerPop, WorkerSend, WorkerReturn
  <2>4. CASE t = "listener" /\ ListenerStep
    BY <2>4 DEF ListenerStep, RecvAcknowledge, RecvSequential, RecvReturn
  <2>5. QED
    BY <1>7, <2>1, <2>2, <2>3, <2>4 DEF Step
<1>8. ASSUME NEW h \in Handles, NewCall(h) PROVE net' = net
  BY <1>8 DEF NewCall, CallWrite, CallReset, CallDrop, CallRead
<1>9. CASE ArriveError \/ ArriveAcknowledge
  <2>1. net' = net
    BY <1>9 DEF ArriveError, ArriveAcknowledge
  <2>2. QED
    BY <1>4, <1>5, <2>1
<1>10. CASE ListenerArrive
  BY <1>4, <1>9, <1>10 DEF ListenerArrive
<1>11. CASE ~ ArriveSequential /\ \E t \in Threads : ErrorSet(t) \/ ErrorReset(t)
  <2>1. Kept
    BY <1>6, <1>11
  <2>2. QED
    BY <1>11, <2>1
<1>12. \/ net' = net \/ ListenerArrive
       \/ \E t \in Threads : ErrorSet(t) \/ ErrorReset(t)
  BY <1>7, <1>8 DEF Next
<1>13. QED
  BY <1>4, <1>5, <1>10, <1>11, <1>12

LEMMA CallsStep ==
  ASSUME TypeOK, Next
  PROVE  calls' \in [Handles -> 0 .. MaxCalls]
<1>1. calls \in [Handles -> 0 .. MaxCalls] /\ MaxCalls \in Nat
  BY StreamInnerAssumption DEF TypeOK
<1>2. ASSUME NEW t \in Threads, Step(t) PROVE calls' = calls
  <2>1. CASE Error(t) \/ Drop(t) \/ PanicOnPoison(t)
    BY <2>1 DEF Error, ErrorCheck, ErrorLock, ErrorSet, ErrorReset, Drop, PanicOnPoison
  <2>2. CASE t \in Handles /\ HandleStep(t)
    BY <2>2 DEF HandleStep, WriteTake, WriteDrain, WritePush, FinishPush, FinishWait,
                FinishReturn, ReadHead, ReadState, ReadPop, ReadReturn, ReadReturnBytes
  <2>3. CASE t = "worker" /\ WorkerStep
    BY <2>3 DEF WorkerStep, WorkerUpgrade, WorkerIsErr, WorkerIsWriteFinished,
                WorkerAcknowledge, WorkerPop, WorkerSend, WorkerReturn
  <2>4. CASE t = "listener" /\ ListenerStep
    BY <2>4 DEF ListenerStep, RecvAcknowledge, RecvSequential, RecvReturn
  <2>5. QED
    BY <1>2, <2>1, <2>2, <2>3, <2>4 DEF Step
<1>3. ASSUME NEW h \in Handles, NEW method, Call(h, method)
      PROVE  calls' \in [Handles -> 0 .. MaxCalls]
  <2>1. calls[h] \in Nat /\ calls[h] < MaxCalls /\ calls' = [calls EXCEPT ![h] = @ + 1]
    BY <1>1, <1>3 DEF Call
  <2>2. calls[h] + 1 \in 0 .. MaxCalls
    BY <1>1, <2>1
  <2>3. QED
    BY <1>1, <2>1, <2>2
<1>4. ASSUME NEW h \in Handles, NewCall(h) PROVE calls' \in [Handles -> 0 .. MaxCalls]
  BY <1>3, <1>4 DEF NewCall, CallWrite, CallReset, CallDrop, CallRead
<1>5. CASE ListenerArrive
  BY <1>1, <1>5 DEF ListenerArrive, ArriveError, ArriveAcknowledge, ArriveSequential
<1>6. QED
  BY <1>1, <1>2, <1>4, <1>5 DEF Next

\* The receive storage apart, a step keeps the types.
LEMMA TypeStep ==
  ASSUME TypeOK, LockInv, FrameInv, Next, IsRecvStorage(stream'.recv_storage)
  PROVE  TypeOK' /\ LockInv' /\ FrameInv'
<1>1. /\ at' \in [Threads -> Places] /\ frame' \in [Threads -> Frame]
      /\ holder' \in [Locks -> Threads \cup {Nobody, Poison}]
      /\ LockInv' /\ FrameInv'
  BY StepMoves, MovesKeep
<1>2. stream' \in StreamOf(stream'.recv_storage) /\ hist' \in History
  BY DataStep
<1>3. owners' \subseteq Threads /\ net' \in NetType /\ calls' \in [Handles -> 0 .. MaxCalls]
  BY OwnersStep, NetStep, CallsStep
<1>4. QED
  BY <1>1, <1>2, <1>3 DEF TypeOK, StreamOf, History, NetType

-----------------------------------------------------------------------------
(* The write side: every byte that was taken, in order                      *)

\* A segment is somewhere in the send storage.
Entered(s, x) ==
  \/ Holds(s.queue_unsent, x)
  \/ \E e \in SentSegment : Holds(s.queue_sent, e) /\ e.variant = x

LEMMA NewStorageEnters ==
  /\ \A x : Entered(SendNewByPeer(Start), x) => x = Accept
  /\ \A x : ~ Entered(SendNewByLocal(Start), x)
  /\ \A s \in SendStorageType : \A x : ~ Entered(SendClear(s), x)
<1>1. /\ SendNewByPeer(Start).queue_unsent = << Accept >>
      /\ SendNewByPeer(Start).queue_sent = << >>
  BY DEF SendNewByPeer
<1>2. \A x : Holds(<< Accept >>, x) => x = Accept
  BY DEF Holds
<1>3. \A x : ~ Holds(<< >>, x)
  BY DEF Holds
<1>4. \A x : Entered(SendNewByPeer(Start), x) => x = Accept
  BY <1>1, <1>2, <1>3 DEF Entered
<1>5. SendNewByLocal(Start).queue_unsent = << >> /\ SendNewByLocal(Start).queue_sent = << >>
  BY DEF SendNewByLocal
<1>6. \A x : ~ Entered(SendNewByLocal(Start), x)
  BY <1>3, <1>5 DEF Entered
<1>7. ASSUME NEW s \in SendStorageType
      PROVE  SendClear(s).queue_unsent = << >> /\ SendClear(s).queue_sent = << >>
  BY DEF SendClear, SendStorageType
<1>8. \A s \in SendStorageType : \A x : ~ Entered(SendClear(s), x)
  BY <1>3, <1>7 DEF Entered
<1>9. QED
  BY <1>4, <1>6, <1>8

LEMMA PushEnters ==
  ASSUME NEW s \in SendStorageType, NEW segment \in SequentialSegment,
         NEW x, Entered(AfterPush(s, segment), x)
  PROVE  Entered(s, x) \/ x = segment
<1> DEFINE q == AfterPush(s, segment)
<1>1. q.queue_sent = s.queue_sent /\ q.queue_unsent = Append(s.queue_unsent, segment)
  BY PushFields
<1>2. s.queue_unsent \in Seq(SequentialSegment)
  BY DEF SendStorageType
<1>3. Holds(q.queue_unsent, x) => Holds(s.queue_unsent, x) \/ x = segment
  BY <1>1, <1>2, AppendElements
<1> HIDE DEF q
<1>4. Entered(q, x)
  BY DEF q
<1>5. QED
  BY <1>1, <1>3, <1>4 DEF Entered

LEMMA PopEnters ==
  ASSUME NEW s \in SendStorageType, NEW due \in BOOLEAN, CanPopSegment(s, due),
         NEW x, Entered(AfterPopSegment(s, due), x)
  PROVE  Entered(s, x)
<1> DEFINE q == AfterPopSegment(s, due)
<1>1. CASE RetransmitIsDue(s, due)
  <2>1. s.queue_sent # << >> /\ due = TRUE
    BY <1>1 DEF RetransmitIsDue
  <2>2. q.queue_unsent = s.queue_unsent /\ \A e : Holds(q.queue_sent, e) <=> Holds(s.queue_sent, e)
    BY <2>1, RotateFields
  <2> HIDE DEF q
  <2>3. Entered(q, x)
    BY DEF q
  <2>4. QED
    BY <2>2, <2>3 DEF Entered
<1>2. CASE ~ RetransmitIsDue(s, due)
  <2> DEFINE p == AfterPopSegment(s, FALSE)
             u == s.queue_unsent
             entry == [seq_num |-> s.next_unsent, variant |-> Head(u)]
  <2>1. u # << >> /\ q = p
    BY <1>2 DEF CanPopSegment, CanPopUnsent, RetransmitIsDue, AfterPopSegment, PoppedSegment
  <2>2. /\ p.queue_sent = Append(s.queue_sent, entry) /\ p.queue_unsent = Tail(u)
        /\ entry \in SentSegment
    BY <2>1, TransmitFields
  <2>3. s.queue_sent \in Seq(SentSegment) /\ u \in Seq(SequentialSegment)
    BY DEF SendStorageType
  <2>4. entry.variant = Head(u)
    OBVIOUS
  <2>5. Entered(p, x)
    BY <2>1
  <2> HIDE DEF p, q, entry
  <2>6. \A e : Holds(p.queue_sent, e) => Holds(s.queue_sent, e) \/ e = entry
    BY <2>2, <2>3, AppendElements
  <2>7. Holds(u, Head(u)) /\ \A y : Holds(Tail(u), y) => Holds(u, y)
    <3> HIDE DEF u
    <3>1. Head(u) = u[1] /\ Len(u) \in Nat \ {0} /\ DOMAIN u = 1 .. Len(u)
      BY <2>1, <2>3
    <3>2. \A j \in DOMAIN Tail(u) : j + 1 \in DOMAIN u /\ Tail(u)[j] = u[j + 1]
      BY <2>1, <2>3
    <3>3. QED
      BY <3>1, <3>2 DEF Holds
  <2>8. QED
    BY <2>2, <2>4, <2>5, <2>6, <2>7 DEF Entered
<1>3. QED
  BY <1>1, <1>2

LEMMA AcknowledgeEnters ==
  ASSUME NEW s \in SendStorageType, NEW k, NEW x, Entered(AfterAcknowledge(s, k), x)
  PROVE  Entered(s, x)
<1> DEFINE q == AfterAcknowledge(s, k)
<1>1. q.queue_unsent = s.queue_unsent /\ \A e : Holds(q.queue_sent, e) => Holds(s.queue_sent, e)
  BY AcknowledgeFields
<1> HIDE DEF q
<1>2. Entered(q, x)
  BY DEF q
<1>3. QED
  BY <1>1, <1>2 DEF Entered

\* A push is refused because of a FINISH in the storage.
LEMMA RejectedAfterFinish ==
  ASSUME NEW s \in SendStorageType, PushRejects(s)
  PROVE  Entered(s, Finish)
<1>1. s.queue_sent \in Seq(SentSegment) /\ s.queue_unsent \in Seq(SequentialSegment)
  BY DEF SendStorageType
<1>2. CASE s.queue_unsent # << >>
  <2>1. s.queue_unsent[Len(s.queue_unsent)] = Finish
    BY <1>2 DEF PushRejects, FinishedUnchecked
  <2>2. Len(s.queue_unsent) \in DOMAIN s.queue_unsent
    BY <1>1, <1>2
  <2>3. QED
    BY <2>1, <2>2 DEF Entered, Holds
<1>3. CASE s.queue_unsent = << >>
  <2>1. PICK i \in NewestSent(s) : s.queue_sent[i].variant = Finish
    BY <1>3 DEF PushRejects, FinishedUnchecked
  <2>2. i \in DOMAIN s.queue_sent /\ s.queue_sent[i] \in SentSegment
    BY <1>1, <2>1 DEF NewestSent
  <2>3. QED
    BY <2>1, <2>2 DEF Entered, Holds
<1>4. QED
  BY <1>2, <1>3

\* What the send storage has is Accept or was pushed.
KnownInv ==
  \A x : Entered(stream.send_storage, x) => x = Accept \/ Holds(hist.pushed, x)

LEMMA KnownStep ==
  ASSUME TypeOK, FrameInv, KnownInv, Next
  PROVE  KnownInv'
<1>1. /\ stream.send_storage \in SendStorageType
      /\ hist.pushed \in Seq(SequentialSegment)
  BY FieldTypes
<1> DEFINE Kept(s, p) == \A x : Entered(s, x) => x = Accept \/ Holds(p, x)
<1>2. Kept(stream.send_storage, hist.pushed) /\ (KnownInv' <=> Kept(stream'.send_storage, hist'.pushed))
  BY DEF KnownInv
<1>3. ASSUME stream'.send_storage = stream.send_storage, hist'.pushed = hist.pushed
      PROVE  KnownInv'
  BY <1>2, <1>3
<1>4. ASSUME NEW segment \in SequentialSegment,
             stream'.send_storage = AfterPush(stream.send_storage, segment),
             hist'.pushed = Append(hist.pushed, segment)
      PROVE  KnownInv'
  <2>1. \A x : Holds(Append(hist.pushed, segment), x) <=> Holds(hist.pushed, x) \/ x = segment
    BY <1>1, AppendElements
  <2>2. \A x : Entered(AfterPush(stream.send_storage, segment), x) =>
                 Entered(stream.send_storage, x) \/ x = segment
    BY <1>1, PushEnters
  <2>3. QED
    BY <1>2, <1>4, <2>1, <2>2
<1>5. ASSUME NEW t \in Threads, ErrorSet(t) PROVE KnownInv'
  <2>1. stream'.send_storage = SendClear(stream.send_storage) /\ hist'.pushed = hist.pushed
    BY <1>5, ErrorSetEffect
  <2>2. QED
    BY <1>1, <1>2, <2>1, NewStorageEnters
<1>6. ASSUME NEW h \in Handles, WriteTake(h) \/ WriteDrain(h) \/ FinishReturn(h)
      PROVE  KnownInv'
  BY <1>3, <1>6, WriteTakeEffect, WriteDrainEffect, FinishReturnEffect
<1>7. ASSUME NEW h \in Handles, WritePush(h) PROVE KnownInv'
  BY <1>3, <1>4, <1>7, WritePushEffect
<1>8. ASSUME NEW h \in Handles, FinishPush(h) PROVE KnownInv'
  <2>1. Finish \in SequentialSegment
    BY DEF SequentialSegment
  <2>2. QED
    BY <1>3, <1>4, <1>8, <2>1, FinishPushEffect
<1>9. ASSUME NEW h \in Handles, ReadHead(h) \/ ReadPop(h) PROVE KnownInv'
  BY <1>3, <1>9, ReadHeadEffect, ReadPopEffect DEF WriteSideKept
<1>10. CASE WorkerAcknowledge \/ RecvSequential
  BY <1>3, <1>10, WorkerAcknowledgeEffect, RecvSequentialEffect
  DEF RecvStorageChanges, WriteSideKept
<1>11. ASSUME NEW due \in BOOLEAN, WorkerPop(due) PROVE KnownInv'
  <2>1. hist'.pushed = hist.pushed
    BY <1>11 DEF WorkerPop
  <2>2. ASSUME CanPopSegment(stream.send_storage, due),
               stream'.send_storage = AfterPopSegment(stream.send_storage, due)
        PROVE  KnownInv'
    <3>1. \A x : Entered(stream'.send_storage, x) => Entered(stream.send_storage, x)
      BY <1>1, <2>2, PopEnters
    <3>2. QED
      BY <1>2, <2>1, <3>1
  <2>3. QED
    BY <1>3, <1>11, <2>1, <2>2, WorkerPopEffect
<1>12. CASE RecvAcknowledge
  <2>1. hist'.pushed = hist.pushed
    BY <1>12 DEF RecvAcknowledge
  <2>2. ASSUME NEW k, stream'.send_storage = AfterAcknowledge(stream.send_storage, k)
        PROVE  KnownInv'
    <3>1. \A x : Entered(stream'.send_storage, x) => Entered(stream.send_storage, x)
      BY <1>1, <2>2, AcknowledgeEnters
    <3>2. QED
      BY <1>2, <2>1, <3>1
  <2>3. QED
    BY <1>3, <1>12, <2>1, <2>2, RecvAcknowledgeEffect
<1> HIDE DEF Kept
<1>13. ASSUME NEW t \in Threads, Acts(t) PROVE KnownInv'
  BY <1>5, <1>6, <1>7, <1>8, <1>9, <1>10, <1>11, <1>12, <1>13 DEF Acts
<1>14. QED
  BY <1>3, <1>13, ActsOrNot

-----------------------------------------------------------------------------
\* The places that the invariants of the data speak of, and the actions that
\* lead there or begin there.
Busy == {"drain", "push", "read_state", "read_pop", "recv_sequential"}
Leading(t) ==
  \/ t \in Handles /\ \/ WriteTake(t) \/ WriteDrain(t) \/ WritePush(t)
                      \/ ReadHead(t) \/ ReadState(t) \/ ReadPop(t)
  \/ t = "listener" /\ (ArriveSequential \/ RecvSequential)
Aside(t) == at'[t] \notin Busy /\ (at[t] \in Busy => PanicOnPoison(t))

LEMMA GoneTo ==
  ASSUME TypeOK, NEW t \in Threads, NEW place, Goto(t, place)
  PROVE  at' = [at EXCEPT ![t] = place] /\ at'[t] = place /\ \A u \in Threads \ {t} : at'[u] = at[u]
BY DEF TypeOK, Goto

LEMMA ReleasedAside ==
  ASSUME TypeOK, NEW t \in Threads, NEW back \in Backs, Release(t, back)
  PROVE  at'[t] \notin Busy
<1>1. "drop" \notin Busy /\ back \notin Busy
  BY DEF Busy, Backs
<1>2. Goto(t, "drop") \/ Goto(t, back)
  BY DEF Release
<1>3. QED
  BY <1>1, <1>2, GoneTo

LEMMA CalledAside ==
  ASSUME TypeOK, NEW t \in Threads, NEW code, NEW reset \in BOOLEAN, NEW back,
         CallError(t, code, reset, back)
  PROVE  at'[t] \notin Busy
BY GoneTo DEF CallError, Busy

LEMMA PanicAside ==
  ASSUME TypeOK, NEW t \in Threads, NEW holding, Panic(t, holding)
  PROVE  at'[t] \notin Busy
BY GoneTo DEF Panic, Busy

LEMMA ErrorAside ==
  ASSUME TypeOK, NEW t \in Threads, Error(t) \/ Drop(t) \/ PanicOnPoison(t)
  PROVE  Aside(t)
<1>1. frame[t].back \in Backs /\ \A b \in Backs : b \notin Busy
  BY FrameFields DEF Busy, Backs
<1>2. CASE Error(t)
  <2>1. at[t] \notin Busy
    BY <1>2, FromFree DEF Error, ErrorCheck, ErrorLock, ErrorSet, ErrorReset, Busy
  <2>2. \E place : Goto(t, place) /\ place \notin Busy
    BY <1>1, <1>2 DEF Error, ErrorCheck, ErrorLock, ErrorSet, ErrorReset, Busy
  <2>3. QED
    BY <2>1, <2>2, GoneTo DEF Aside
<1>3. CASE Drop(t)
  <2>1. at[t] \notin Busy
    BY <1>3, FromFree DEF Drop, Busy
  <2>2. at'[t] \notin Busy
    BY <1>1, <1>3, CalledAside, GoneTo DEF Drop
  <2>3. QED
    BY <2>1, <2>2 DEF Aside
<1>4. CASE PanicOnPoison(t)
  BY <1>4, PanicAside DEF PanicOnPoison, Aside
<1>5. QED
  BY <1>2, <1>3, <1>4

LEMMA HandleAside ==
  ASSUME TypeOK, NEW h \in Handles,
         FinishPush(h) \/ FinishWait(h) \/ FinishReturn(h) \/ NewCall(h)
  PROVE  Aside(h)
<1>1. h \in Threads
  BY ThreadNames
<1>2. at[h] \notin Busy
  BY FromFree DEF FinishPush, FinishWait, FinishReturn, NewCall, CallWrite, CallReset, CallDrop,
                  CallRead, Call, Busy
<1> SUFFICES at'[h] \notin Busy
  BY <1>2 DEF Aside
<1>3. ASSUME NEW place \in {"wait", "finished", "idle", "write", "read_head"}, Goto(h, place)
      PROVE  at'[h] \notin Busy
  BY <1>1, <1>3, GoneTo DEF Busy
<1>4. CASE FinishPush(h) \/ FinishWait(h) \/ FinishReturn(h)
  BY <1>1, <1>3, <1>4, CalledAside, PanicAside DEF FinishPush, PushPanic, FinishWait, FinishReturn
<1>5. CASE NewCall(h)
  BY <1>1, <1>3, <1>5, CalledAside, ReleasedAside DEF NewCall, CallWrite, CallReset, CallDrop,
     CallRead, Backs
<1>6. QED
  BY <1>4, <1>5

LEMMA WorkerAside ==
  ASSUME TypeOK, WorkerStep
  PROVE  Aside("worker")
<1> DEFINE w == "worker"
<1>1. w \in Threads
  BY ThreadNames
<1>2. at[w] \notin Busy
  BY FromFree DEF WorkerStep, WorkerUpgrade, WorkerIsErr, WorkerIsWriteFinished,
                  WorkerAcknowledge, WorkerPop, WorkerSend, WorkerReturn, Busy
<1> SUFFICES at'[w] \notin Busy
  BY <1>2 DEF Aside
<1>3. ASSUME NEW place \in {"done", "is_err", "is_write_finished", "acknowledge", "pop", "send"},
             Goto(w, place)
      PROVE  at'[w] \notin Busy
  BY <1>1, <1>3, GoneTo DEF Busy
<1>4. ASSUME WorkerQuit \/ WorkerSendError PROVE at'[w] \notin Busy
  BY <1>1, <1>4, CalledAside, ReleasedAside DEF WorkerQuit, WorkerSendError, Backs
<1>5. CASE WorkerUpgrade \/ WorkerIsErr \/ WorkerSend \/ WorkerReturn
  BY <1>3, <1>4, <1>5 DEF WorkerUpgrade, WorkerIsErr, WorkerSend, WorkerReturn
<1>6. CASE WorkerIsWriteFinished
  BY <1>1, <1>3, <1>4, <1>6, PanicAside DEF WorkerIsWriteFinished
<1>7. CASE WorkerAcknowledge
  BY <1>3, <1>4, <1>7 DEF WorkerAcknowledge
<1>8. CASE \E due \in BOOLEAN : WorkerPop(due)
  BY <1>1, <1>3, <1>8, ReleasedAside, PanicAside DEF WorkerPop, Backs
<1>9. QED
  BY <1>5, <1>6, <1>7, <1>8 DEF WorkerStep

LEMMA ListenerAside ==
  ASSUME TypeOK, RecvAcknowledge \/ RecvReturn \/ ArriveError \/ ArriveAcknowledge
  PROVE  Aside("listener")
<1> DEFINE w == "listener"
<1>1. w \in Threads
  BY ThreadNames
<1>2. at[w] \notin Busy
  BY FromFree DEF RecvAcknowledge, RecvReturn, ArriveError, ArriveAcknowledge, Arrive, Busy
<1>3. ASSUME NEW place \in {"release", "recv_acknowledge"}, Goto(w, place)
      PROVE  at'[w] \notin Busy
  BY <1>1, <1>3, GoneTo DEF Busy
<1>4. at'[w] \notin Busy
  BY <1>1, <1>3, CalledAside, ReleasedAside DEF RecvAcknowledge, RecvError, RecvReturn, ArriveError,
     ArriveAcknowledge, Backs
<1>5. QED
  BY <1>2, <1>4 DEF Aside

LEMMA StepKinds ==
  ASSUME TypeOK, LockInv, FrameInv, Next
  PROVE  \E t \in Threads : Moves(t, at'[t]) /\ (Leading(t) \/ Aside(t))
<1>1. ASSUME NEW t \in Threads, \E place : Moves(t, place)
      PROVE  Moves(t, at'[t])
  BY <1>1 DEF Moves, TypeOK
<1>2. ASSUME NEW t \in Threads, Step(t)
      PROVE  Moves(t, at'[t]) /\ (Leading(t) \/ Aside(t))
  <2>1. Moves(t, at'[t])
    BY <1>1, <1>2, ErrorMoves, DropMoves, PanicMoves, WriteMoves, FinishMoves, ReadMoves,
       WorkerMoves, ListenerMoves DEF Step, HandleStep
  <2>2. Leading(t) \/ Aside(t)
    BY <1>2, ErrorAside, HandleAside, WorkerAside, ListenerAside
    DEF Step, HandleStep, ListenerStep, Leading
  <2>3. QED
    BY <2>1, <2>2
<1>3. ASSUME NEW h \in Handles, NewCall(h)
      PROVE  h \in Threads /\ Moves(h, at'[h]) /\ Aside(h)
  BY <1>1, <1>3, ThreadNames, CallMoves, HandleAside
<1>4. ASSUME ListenerArrive
      PROVE  /\ "listener" \in Threads /\ Moves("listener", at'["listener"])
             /\ Leading("listener") \/ Aside("listener")
  BY <1>1, <1>4, ThreadNames, ListenerMoves, ListenerAside DEF ListenerArrive, Leading
<1>5. QED
  BY <1>2, <1>3, <1>4 DEF Next

\* Bytes of 1 .. n in the order of their numbers, and all of them.
Ascending(b, n) ==
  /\ \A i \in 1 .. Len(b) : b[i] \in 1 .. n
  /\ \A i, j \in 1 .. Len(b) : i < j => b[i] < b[j]
Numbered(n) == [i \in 1 .. n |-> i]

LEMMA AscendingMore ==
  ASSUME NEW n \in Nat, NEW m \in Nat, NEW b \in Seq(Nat), Ascending(b, n),
         NEW new, new = [i \in 1 .. m |-> n + i]
  PROVE  /\ b \o new \in Seq(Nat) /\ new \in Seq(Nat) /\ Ascending(b \o new, n + m)
         /\ b = Numbered(n) => b \o new = Numbered(n + m)
<1> DEFINE c == b \o new
<1>1. new \in Seq(Nat) /\ Len(new) = m /\ \A i \in 1 .. m : new[i] = n + i
  OBVIOUS
<1>2. Len(b) \in Nat
  OBVIOUS
<1>3. /\ c \in Seq(Nat) /\ Len(c) = Len(b) + m
      /\ \A i \in 1 .. Len(b) + m : c[i] = IF i <= Len(b) THEN b[i] ELSE new[i - Len(b)]
  BY <1>1, ConcatProperties
<1> HIDE DEF c
<1>4. \A i \in 1 .. Len(b) + m : c[i] = IF i <= Len(b) THEN b[i] ELSE n + (i - Len(b))
  <2>1. \A i \in 1 .. Len(b) + m : ~ i <= Len(b) => i - Len(b) \in 1 .. m
    BY <1>2
  <2>2. QED
    BY <1>1, <1>3, <2>1
<1>5. \A i \in 1 .. Len(b) : b[i] \in Nat /\ b[i] >= 1 /\ b[i] <= n
  BY <1>2 DEF Ascending
<1>6. ASSUME NEW i \in 1 .. Len(c) PROVE c[i] \in 1 .. n + m
  <2>1. i \in 1 .. Len(b) + m /\ i \in Nat /\ i >= 1
    BY <1>2, <1>3
  <2>2. CASE i <= Len(b)
    BY <1>2, <1>4, <1>5, <2>1, <2>2
  <2>3. CASE ~ i <= Len(b)
    BY <1>2, <1>4, <2>1, <2>3
  <2>4. QED
    BY <2>2, <2>3
<1>7. ASSUME NEW i \in 1 .. Len(c), NEW j \in 1 .. Len(c), i < j PROVE c[i] < c[j]
  <2>1. i \in 1 .. Len(b) + m /\ j \in 1 .. Len(b) + m /\ i \in Nat /\ j \in Nat /\ i >= 1
    BY <1>2, <1>3
  <2>2. CASE j <= Len(b)
    <3>1. i \in 1 .. Len(b) /\ j \in 1 .. Len(b) /\ c[i] = b[i] /\ c[j] = b[j]
      BY <1>2, <1>4, <1>7, <2>1, <2>2
    <3>2. QED
      BY <1>7, <3>1 DEF Ascending
  <2>3. CASE i <= Len(b) /\ ~ j <= Len(b)
    <3>1. i \in 1 .. Len(b) /\ c[i] = b[i] /\ c[j] = n + (j - Len(b))
      BY <1>2, <1>4, <2>1, <2>3
    <3>2. QED
      BY <1>2, <1>5, <2>1, <2>3, <3>1
  <2>4. CASE ~ i <= Len(b) /\ ~ j <= Len(b)
    BY <1>2, <1>4, <1>7, <2>1, <2>4
  <2>5. QED
    BY <1>2, <1>7, <2>1, <2>2, <2>3, <2>4
<1>8. Ascending(c, n + m)
  BY <1>6, <1>7 DEF Ascending
<1>9. ASSUME b = Numbered(n) PROVE c = Numbered(n + m)
  <2>1. Len(b) = n /\ \A i \in 1 .. n : b[i] = i
    BY <1>9 DEF Numbered
  <2>2. \A i \in 1 .. n + m : c[i] = i
    BY <1>4, <2>1
  <2>3. DOMAIN c = 1 .. n + m /\ c = [i \in DOMAIN c |-> c[i]]
    BY <1>3, <2>1
  <2>4. QED
    BY <2>2, <2>3 DEF Numbered
<1>10. QED
  BY <1>1, <1>3, <1>8, <1>9 DEF c

LEMMA AscendingLess ==
  ASSUME NEW n, NEW a \in Seq(Nat), NEW c \in Seq(Nat), NEW d \in Seq(Nat),
         Ascending((a \o c) \o d, n)
  PROVE  Ascending(a \o d, n)
<1> DEFINE ac == a \o c
           x == ac \o d
           y == a \o d
           at_(i) == IF i <= Len(a) THEN i ELSE i + Len(c)
<1>1. Len(a) \in Nat /\ Len(c) \in Nat /\ Len(d) \in Nat
  OBVIOUS
<1>2. /\ ac \in Seq(Nat) /\ Len(ac) = Len(a) + Len(c)
      /\ \A i \in 1 .. Len(a) : ac[i] = a[i]
  BY <1>1, ConcatProperties
<1>3. /\ Len(y) = Len(a) + Len(d)
      /\ \A i \in 1 .. Len(a) + Len(d) : y[i] = IF i <= Len(a) THEN a[i] ELSE d[i - Len(a)]
  BY ConcatProperties
<1> HIDE DEF ac
<1>4. /\ Len(x) = Len(ac) + Len(d)
      /\ \A i \in 1 .. Len(ac) + Len(d) : x[i] = IF i <= Len(ac) THEN ac[i] ELSE d[i - Len(ac)]
  <2>1. ac \in Seq(Nat)
    BY <1>2
  <2>2. QED
    BY <2>1, ConcatProperties
<1> HIDE DEF x, y
<1>5. ASSUME NEW i \in 1 .. Len(y)
      PROVE  at_(i) \in 1 .. Len(x) /\ y[i] = x[at_(i)]
  <2>1. i \in 1 .. Len(a) + Len(d) /\ i \in Nat /\ i >= 1
    BY <1>1, <1>3
  <2>2. CASE i <= Len(a)
    <3>1. at_(i) = i /\ i \in 1 .. Len(a) /\ i \in 1 .. Len(ac) + Len(d) /\ i <= Len(ac)
      BY <1>1, <1>2, <2>1, <2>2
    <3>2. QED
      BY <1>2, <1>3, <1>4, <2>1, <2>2, <3>1
  <2>3. CASE ~ i <= Len(a)
    <3>1. /\ at_(i) = i + Len(c) /\ i + Len(c) \in 1 .. Len(ac) + Len(d)
          /\ ~ i + Len(c) <= Len(ac) /\ (i + Len(c)) - Len(ac) = i - Len(a)
      BY <1>1, <1>2, <2>1, <2>3
    <3>2. QED
      BY <1>3, <1>4, <2>1, <2>3, <3>1
  <2>4. QED
    BY <2>2, <2>3
<1>6. ASSUME NEW i \in 1 .. Len(y), NEW j \in 1 .. Len(y), i < j PROVE at_(i) < at_(j)
  BY <1>1, <1>3, <1>6
<1> HIDE DEF at_
<1>7. Ascending(x, n)
  BY DEF x, ac
<1>8. Ascending(y, n)
  BY <1>5, <1>6, <1>7 DEF Ascending
<1>9. QED
  BY <1>8 DEF y

\* The bytes in the hands of the thread that cuts the buffer into segments.
InHand(c) ==
  \/ \E h \in Handles : at[h] = "push" /\ c = frame[h].bytes
  \/ c = << >> /\ \A h \in Handles : at[h] # "push"

\* What has been taken is in the segments pushed, in somebody's hands, and in
\* the buffer, in this order.
Written(c) ==
  LET all == (Bytes(hist.pushed) \o c) \o stream.send_buffer
  IN /\ Ascending(all, hist.taken)
     /\ ~ Holds(hist.pushed, Finish) /\ holder["send_buffer"] # Poison =>
          all = Numbered(hist.taken)
WrittenInv == \E c \in Seq(Nat) : InHand(c) /\ Written(c)

LEMMA OneCutter ==
  ASSUME LockInv, NEW h \in Threads, NEW g \in Threads, at[h] \in {"drain", "push"},
         at[g] \in {"drain", "push"}
  PROVE  h = g /\ holder["send_buffer"] = h
BY KeptAt DEF LockInv, Locks

LEMMA MovesOnly ==
  ASSUME NEW t, NEW place, Moves(t, place)
  PROVE  /\ \A u \in Threads \ {t} : (TypeOK => at'[u] = at[u] /\ frame'[u] = frame[u])
         /\ \A l \in Locks : holder[l] = Poison => holder'[l] = Poison
<1>1. ASSUME TypeOK, NEW u \in Threads \ {t}
      PROVE  at'[u] = at[u] /\ frame'[u] = frame[u]
  BY <1>1 DEF TypeOK, Moves, FrameFits
<1>2. \A l \in Locks : holder[l] = Poison => holder'[l] = Poison
  BY ThreadNames DEF Moves
<1>3. QED
  BY <1>1, <1>2

\* A step of a thread that neither has bytes in its hands nor takes any.
LEMMA HandsKept ==
  ASSUME TypeOK, NEW t \in Threads, NEW place, Moves(t, place),
         t \in Handles => at[t] # "push" /\ at'[t] # "push"
  PROVE  \A c : InHand(c) => InHand(c)'
<1>1. \A u \in Threads \ {t} : at'[u] = at[u] /\ frame'[u] = frame[u]
  BY MovesOnly
<1>2. \A h \in Handles : h \in Threads
  BY ThreadNames
<1>3. \A h \in Handles : (at[h] = "push" <=> at'[h] = "push")
  BY <1>1, <1>2
<1>4. \A h \in Handles : at[h] = "push" => frame'[h].bytes = frame[h].bytes
  BY <1>1, <1>2
<1>5. QED
  BY <1>3, <1>4 DEF InHand

\* The steps of the handles that write, and all the others.
Writes(h) == WriteTake(h) \/ WriteDrain(h) \/ WritePush(h)

LEMMA OthersData ==
  ASSUME TypeOK, FrameInv, Next, ~ \E h \in Handles : Writes(h)
  PROVE  /\ stream'.send_buffer = stream.send_buffer /\ hist'.taken = hist.taken
         /\ \/ hist'.pushed = hist.pushed
            \/ hist'.pushed = Append(hist.pushed, Finish)
<1> DEFINE Kept == /\ stream'.send_buffer = stream.send_buffer /\ hist'.taken = hist.taken
                   /\ \/ hist'.pushed = hist.pushed
                      \/ hist'.pushed = Append(hist.pushed, Finish)
<1>1. CASE UNCHANGED << stream, hist >>
  BY <1>1
<1>2. ASSUME NEW t \in Threads, ErrorSet(t) PROVE Kept
  BY <1>2, ErrorSetEffect
<1>3. ASSUME NEW h \in Handles, FinishPush(h) \/ FinishReturn(h) PROVE Kept
  BY <1>3, FinishPushEffect, FinishReturnEffect
<1>4. ASSUME NEW h \in Handles, ReadHead(h) \/ ReadPop(h) PROVE Kept
  BY <1>4, ReadHeadEffect, ReadPopEffect DEF WriteSideKept
<1>5. ASSUME WorkerAcknowledge \/ RecvSequential PROVE Kept
  BY <1>5, WorkerAcknowledgeEffect, RecvSequentialEffect DEF RecvStorageChanges, WriteSideKept
<1>6. ASSUME (\E due \in BOOLEAN : WorkerPop(due)) \/ RecvAcknowledge PROVE Kept
  BY <1>6, WorkerPopEffect, RecvAcknowledgeEffect DEF SendStorageChanges
<1> HIDE DEF Kept
<1>7. ASSUME NEW t \in Threads, Acts(t) PROVE Kept
  BY <1>2, <1>3, <1>4, <1>5, <1>6, <1>7 DEF Acts, Writes
<1>8. QED
  BY <1>1, <1>7, ActsOrNot DEF Kept

LEMMA OthersHands ==
  ASSUME TypeOK, LockInv, FrameInv, Next, ~ \E h \in Handles : Writes(h)
  PROVE  \E t \in Threads : /\ Moves(t, at'[t]) /\ at'[t] # "push"
                            /\ at[t] = "push" => PanicOnPoison(t)
<1>1. PICK t \in Threads : Moves(t, at'[t]) /\ (Leading(t) \/ Aside(t))
  BY StepKinds
<1>2. CASE Aside(t)
  BY <1>1, <1>2 DEF Aside, Busy
<1>3. ASSUME NEW place \in {"idle", "read_state", "read_pop", "recv_sequential"}, Goto(t, place)
      PROVE  at'[t] # "push"
  BY <1>3, GoneTo
<1>4. CASE t \in Handles /\ (ReadHead(t) \/ ReadState(t) \/ ReadPop(t))
  <2>1. at[t] # "push"
    BY <1>4, FromFree DEF ReadHead, ReadState, ReadPop
  <2>2. at'[t] # "push"
    BY <1>3, <1>4 DEF ReadHead, ReadState, ReadPop, ReadReturn, ReadReturnBytes
  <2>3. QED
    BY <1>1, <2>1, <2>2
<1>5. CASE t = "listener" /\ (ArriveSequential \/ RecvSequential)
  <2>1. at[t] # "push"
    BY <1>5, FromFree DEF ArriveSequential, Arrive, RecvSequential
  <2>2. ASSUME ArriveSequential PROVE at'[t] # "push"
    BY <1>3, <1>5, <2>2 DEF ArriveSequential
  <2>3. ASSUME RecvSequential PROVE at'[t] # "push"
    <3>1. at'[t] \notin Busy \/ Goto(t, "release")
      BY <1>5, <2>3, CalledAside, PanicAside DEF RecvSequential, RecvError
    <3>2. QED
      BY <3>1, GoneTo DEF Busy
  <2>4. QED
    BY <1>1, <1>5, <2>1, <2>2, <2>3
<1>6. QED
  BY <1>1, <1>2, <1>4, <1>5 DEF Leading, Writes

\* The bytes in the segments pushed, and in one more.
LEMMA BytesPushed ==
  ASSUME NEW s \in Seq(SequentialSegment)
  PROVE  /\ \A c \in Chunks : Bytes(Append(s, DataSegment(c))) = Bytes(s) \o c
         /\ Bytes(Append(s, Finish)) = Bytes(s)
         /\ \A c : Holds(Append(s, DataSegment(c)), Finish) => \/ Holds(s, Finish)
                                                              \/ c \notin Data
         /\ Holds(Append(s, Finish), Finish)
<1>1. ASSUME NEW c \in Chunks PROVE Bytes(Append(s, DataSegment(c))) = Bytes(s) \o c
  BY ChunkIsData, BytesOfAppend
<1>2. Finish \in SequentialSegment /\ BytesOf(Finish) = << >>
  BY DEF SequentialSegment, BytesOf, Finish
<1>3. Bytes(Append(s, Finish)) = Bytes(s)
  <2>1. Bytes(Append(s, Finish)) = Bytes(s) \o BytesOf(Finish)
    BY <1>2, BytesOfAppend
  <2>2. Bytes(s) \o << >> = Bytes(s)
    BY BytesType, ConcatEmptySeq
  <2>3. QED
    BY <1>2, <2>1, <2>2
<1>4. ASSUME NEW c \in Data, Holds(Append(s, DataSegment(c)), Finish)
      PROVE  Holds(s, Finish)
  <2>1. DataSegment(c) \in SequentialSegment
    BY DEF SequentialSegment
  <2>2. DataSegment(c) # Finish
    <3>1. DataSegment(c).variant = "Data" /\ Finish.variant = "Finish"
      BY DEF DataSegment, Finish
    <3>2. QED
      BY <3>1
  <2>3. QED
    BY <1>4, <2>1, <2>2, AppendElements
<1>5. Holds(Append(s, Finish), Finish)
  BY <1>2, AppendElements
<1>6. QED
  BY <1>1, <1>3, <1>4, <1>5

\* Bytes move from the buffer into a thread's hands and from there into a
\* segment, or they are lost from its hands.
LEMMA BytesMove ==
  ASSUME NEW p \in Seq(Nat), NEW c \in Seq(Nat), NEW b \in Seq(Nat)
  PROVE  /\ (p \o c) \o b = p \o (c \o b)
         /\ (p \o << >>) \o b = p \o b
         /\ ((p \o c) \o << >>) \o b = (p \o c) \o b
         /\ \A n : Ascending((p \o c) \o b, n) => Ascending(p \o b, n)
<1>1. (p \o c) \o b = p \o (c \o b)
  BY Associative, Zenon
<1>2. p \o << >> = p
  BY ConcatEmptySeq
<1>3. (p \o c) \o << >> = p \o c
  <2> DEFINE pc == p \o c
  <2>1. pc \in Seq(Nat)
    BY ConcatProperties
  <2> HIDE DEF pc
  <2>2. pc \o << >> = pc
    BY <2>1, ConcatEmptySeq
  <2>3. QED
    BY <2>2 DEF pc
<1>4. QED
  BY <1>1, <1>2, <1>3, AscendingLess

LEMMA WriteTakeStep ==
  ASSUME TypeOK, LockInv, FrameInv, WrittenInv, NEW h \in Handles, WriteTake(h)
  PROVE  WrittenInv'
<1> DEFINE p == Bytes(hist.pushed)
           b == stream.send_buffer
<1>1. PICK c \in Seq(Nat) : InHand(c) /\ Written(c)
  BY DEF WrittenInv
<1>2. p \in Seq(Nat) /\ b \in Seq(Nat) /\ hist.taken \in Nat
  <2>1. b \in Seq(1 .. MaxBytes) /\ 1 .. MaxBytes \subseteq Nat /\ hist.pushed \in Seq(SequentialSegment)
    BY FieldTypes
  <2>2. hist.taken \in Nat
    BY FieldTypes, StreamInnerAssumption
  <2>3. QED
    BY <2>1, <2>2, BytesType, SeqMonotonic
<1>3. PICK n \in Nat :
        /\ hist'.taken = hist.taken + n /\ hist'.pushed = hist.pushed
        /\ stream'.send_buffer = b \o [i \in 1 .. n |-> hist.taken + i]
  BY WriteTakeEffect
<1> DEFINE pc == p \o c
           all == pc \o b
           new == [i \in 1 .. n |-> hist.taken + i]
<1>4. Ascending(all, hist.taken) /\ (~ Holds(hist.pushed, Finish) => all = Numbered(hist.taken))
  <2>1. Free("send_buffer") /\ Nobody # Poison
    BY FromFree, ThreadNames DEF WriteTake
  <2>2. QED
    BY <1>1, <2>1 DEF Written, Free
<1>5. pc \in Seq(Nat)
  BY <1>1, <1>2, ConcatProperties
<1> HIDE DEF p, b, pc
<1>6. all \in Seq(Nat)
  BY <1>2, <1>5, ConcatProperties
<1>7. new \in Seq(Nat)
  BY <1>2, <1>3
<1>8. pc \o (b \o new) = all \o new
  <2> HIDE DEF new, all
  <2>1. \A x, y, z \in Seq(Nat) : x \o (y \o z) = (x \o y) \o z
    BY Associative, Zenon
  <2>2. pc \o (b \o new) = (pc \o b) \o new
    BY <1>2, <1>5, <1>7, <2>1
  <2>3. QED
    BY <2>2 DEF all
<1> HIDE DEF all
<1>9. /\ Ascending(all \o new, hist.taken + n)
      /\ all = Numbered(hist.taken) => all \o new = Numbered(hist.taken + n)
  <2>1. new = [i \in 1 .. n |-> hist.taken + i] /\ hist.taken \in Nat /\ n \in Nat
    BY <1>2
  <2>2. Ascending(all, hist.taken) /\ all \in Seq(Nat)
    BY <1>4, <1>6
  <2> HIDE DEF new
  <2>3. QED
    BY <2>1, <2>2, AscendingMore
<1>10. Written(c)'
  <2> HIDE DEF new
  <2>1. (Bytes(hist.pushed)' \o c) \o stream'.send_buffer = all \o new
    BY <1>3, <1>8 DEF p, pc, new
  <2>2. QED
    BY <1>3, <1>4, <1>9, <2>1 DEF Written
<1>11. InHand(c)'
  <2>1. Goto(h, "drain") /\ at[h] = "write" /\ h \in Threads
    BY ThreadNames, FromFree DEF WriteTake
  <2>2. PICK place : Moves(h, place)
    BY WriteMoves
  <2>3. at'[h] = "drain"
    BY <2>1, GoneTo
  <2>4. QED
    BY <1>1, <2>1, <2>2, <2>3, HandsKept
<1>12. QED
  BY <1>1, <1>10, <1>11 DEF WrittenInv

LEMMA WriteDrainStep ==
  ASSUME TypeOK, LockInv, FrameInv, WrittenInv, NEW h \in Handles, WriteDrain(h)
  PROVE  WrittenInv'
<1> DEFINE p == Bytes(hist.pushed)
           b == stream.send_buffer
<1>1. PICK c \in Seq(Nat) : InHand(c) /\ Written(c)
  BY DEF WrittenInv
<1>2. p \in Seq(Nat) /\ \A x \in Seq(1 .. MaxBytes) : x \in Seq(Nat)
  <2>1. 1 .. MaxBytes \subseteq Nat /\ hist.pushed \in Seq(SequentialSegment)
    BY FieldTypes
  <2>2. QED
    BY <2>1, BytesType, SeqMonotonic
<1>3. h \in Threads /\ at[h] = "drain" /\ hist' = hist
  BY ThreadNames, FromFree DEF WriteDrain
<1>4. PICK place : Moves(h, place)
  BY WriteMoves
<1>5. holder'["send_buffer"] # Poison => holder["send_buffer"] # Poison
  BY <1>4, MovesOnly DEF Locks
<1>6. CASE /\ at' = [at EXCEPT ![h] = "push"]
           /\ frame'[h].bytes \in Seq(1 .. MaxBytes)
           /\ stream'.send_buffer \in Seq(1 .. MaxBytes)
           /\ frame'[h].bytes \o stream'.send_buffer = stream.send_buffer
  <2>0. PICK d, e : d = frame'[h].bytes /\ e = stream'.send_buffer
    OBVIOUS
  <2>1. d \in Seq(Nat) /\ e \in Seq(Nat) /\ d \o e = b
    BY <1>2, <1>6, <2>0
  <2>2. c = << >>
    BY <1>1, <1>3, OneCutter, ThreadNames DEF InHand
  <2>3. InHand(d)'
    <3>1. at'[h] = "push"
      BY <1>3, <1>6 DEF TypeOK
    <3>2. QED
      BY <2>0, <3>1 DEF InHand
  <2>4. b \in Seq(Nat)
    BY <2>1, ConcatProperties
  <2>5. (p \o c) \o b = p \o b
    <3> HIDE DEF p, b
    <3>1. QED
      BY <1>2, <2>2, <2>4, BytesMove
  <2>6. (p \o d) \o e = p \o b
    <3> HIDE DEF p, b
    <3>1. (p \o d) \o e = p \o (d \o e)
      BY <1>2, <2>1, BytesMove
    <3>2. QED
      BY <2>1, <3>1
  <2>7. Written(d)'
    BY <1>1, <1>3, <1>5, <2>0, <2>5, <2>6 DEF Written
  <2>8. QED
    BY <2>1, <2>3, <2>7 DEF WrittenInv
<1>7. CASE at' = [at EXCEPT ![h] = frame[h].next] /\ stream'.send_buffer = stream.send_buffer
  <2>1. frame[h].next \in {"idle", "finish"}
    BY <1>3, FrameFields
  <2>2. at'[h] # "push"
    BY <1>3, <1>7, <2>1 DEF TypeOK
  <2>3. InHand(c)'
    BY <1>1, <1>3, <1>4, <2>2, HandsKept
  <2>4. Written(c)'
    BY <1>1, <1>3, <1>5, <1>7 DEF Written
  <2>5. QED
    BY <1>1, <2>3, <2>4 DEF WrittenInv
<1>8. QED
  BY <1>6, <1>7, WriteDrainEffect

\* After a step of the thread that had bytes in its hands nobody else has any.
LEMMA HandsEmptied ==
  ASSUME TypeOK, LockInv, NEW t \in Handles, at[t] = "push", NEW place, Moves(t, place),
         at'[t] # "push"
  PROVE  InHand(<< >>)' /\ \A c : InHand(c) => c = frame[t].bytes
<1>1. t \in Threads /\ \A h \in Handles : h \in Threads
  BY ThreadNames
<1>2. \A h \in Handles : at[h] = "push" => h = t
  BY <1>1, OneCutter
<1>3. \A h \in Handles : h # t => at'[h] = at[h]
  BY <1>1, MovesOnly
<1>4. \A h \in Handles : at'[h] # "push"
  BY <1>2, <1>3
<1>5. QED
  BY <1>2, <1>4 DEF InHand

LEMMA WritePushStep ==
  ASSUME TypeOK, LockInv, FrameInv, KnownInv, WrittenInv, NEW h \in Handles, WritePush(h)
  PROVE  WrittenInv'
<1> DEFINE p == Bytes(hist.pushed)
           b == stream.send_buffer
<1>1. PICK c \in Seq(Nat) : InHand(c) /\ Written(c)
  BY DEF WrittenInv
<1>2. p \in Seq(Nat) /\ b \in Seq(Nat) /\ hist.pushed \in Seq(SequentialSegment)
  <2>1. b \in Seq(1 .. MaxBytes) /\ 1 .. MaxBytes \subseteq Nat /\ hist.pushed \in Seq(SequentialSegment)
    BY FieldTypes
  <2>2. QED
    BY <2>1, BytesType, SeqMonotonic
<1>3. /\ h \in Threads /\ at[h] = "push"
      /\ stream'.send_buffer = stream.send_buffer /\ hist'.taken = hist.taken
  BY ThreadNames, WritePushEffect
<1>4. PICK place : Moves(h, place)
  BY WriteMoves
<1>5. holder'["send_buffer"] # Poison => holder["send_buffer"] # Poison
  BY <1>4, MovesOnly DEF Locks
<1>6. at'[h] \in {"drain", "idle", "panicked"}
  BY <1>3, WritePushEffect DEF TypeOK
<1>7. InHand(<< >>)' /\ c = frame[h].bytes /\ << >> \in Seq(Nat)
  BY <1>1, <1>3, <1>4, <1>6, HandsEmptied
<1>8. /\ ((p \o c) \o << >>) \o b = (p \o c) \o b /\ (p \o << >>) \o b = p \o b
      /\ \A n : Ascending((p \o c) \o b, n) => Ascending(p \o b, n)
  <2> HIDE DEF p, b
  <2>1. QED
    BY <1>1, <1>2, BytesMove
<1>9. CASE frame[h].bytes \in Chunks /\ hist'.pushed = Append(hist.pushed, DataSegment(frame[h].bytes))
  <2>1. Bytes(hist.pushed)' = p \o c
    <3>1. Bytes(Append(hist.pushed, DataSegment(frame[h].bytes))) = Bytes(hist.pushed) \o frame[h].bytes
      BY <1>2, <1>9, BytesPushed
    <3>2. QED
      BY <1>7, <1>9, <3>1
  <2>1a. Holds(hist.pushed, Finish) => Holds(hist'.pushed, Finish)
    <3>1. DataSegment(frame[h].bytes) \in SequentialSegment
      BY <1>9, ChunkIsData
    <3>2. QED
      BY <1>2, <1>9, <3>1, AppendElements
  <2>2. Written(<< >>)'
    BY <1>1, <1>3, <1>5, <1>8, <2>1, <2>1a DEF Written
  <2>3. QED
    BY <1>7, <2>2 DEF WrittenInv
<1>10. CASE PushRejects(stream.send_storage) /\ hist'.pushed = hist.pushed
  <2>1. Holds(hist.pushed, Finish)
    <3>1. Entered(stream.send_storage, Finish)
      BY <1>10, FieldTypes, RejectedAfterFinish
    <3>2. Finish # Accept
      BY DEF Finish, Accept
    <3>3. QED
      BY <3>1, <3>2 DEF KnownInv
  <2>2. Written(<< >>)'
    BY <1>1, <1>3, <1>8, <1>10, <2>1 DEF Written
  <2>3. QED
    BY <1>7, <2>2 DEF WrittenInv
<1>11. CASE PushPanic(h) /\ hist'.pushed = hist.pushed
  <2>1. holder["send_buffer"] = h
    BY <1>3, OneCutter
  <2>2. holder'["send_buffer"] = Poison
    BY <1>11, <2>1 DEF PushPanic, Panic, Locks
  <2>3. Written(<< >>)'
    BY <1>1, <1>3, <1>8, <1>11, <2>2 DEF Written
  <2>4. QED
    BY <1>7, <2>3 DEF WrittenInv
<1>12. QED
  BY <1>9, <1>10, <1>11, WritePushEffect

LEMMA WrittenStep ==
  ASSUME TypeOK, LockInv, FrameInv, KnownInv, WrittenInv, Next
  PROVE  WrittenInv'
<1> SUFFICES ASSUME ~ \E h \in Handles : Writes(h) PROVE WrittenInv'
  BY WriteTakeStep, WriteDrainStep, WritePushStep DEF Writes
<1> DEFINE p == Bytes(hist.pushed)
           b == stream.send_buffer
<1>1. PICK c \in Seq(Nat) : InHand(c) /\ Written(c)
  BY DEF WrittenInv
<1>2. p \in Seq(Nat) /\ b \in Seq(Nat) /\ hist.pushed \in Seq(SequentialSegment)
  <2>1. b \in Seq(1 .. MaxBytes) /\ 1 .. MaxBytes \subseteq Nat /\ hist.pushed \in Seq(SequentialSegment)
    BY FieldTypes
  <2>2. QED
    BY <2>1, BytesType, SeqMonotonic
<1>3. /\ stream'.send_buffer = stream.send_buffer /\ hist'.taken = hist.taken
      /\ Bytes(hist.pushed)' = p
      /\ Holds(hist.pushed, Finish) => Holds(hist'.pushed, Finish)
  <2>1. CASE hist'.pushed = hist.pushed
    BY <2>1, OthersData
  <2>2. CASE hist'.pushed = Append(hist.pushed, Finish)
    BY <1>2, <2>2, OthersData, BytesPushed
  <2>3. QED
    BY <2>1, <2>2, OthersData
<1>4. \/ hist'.pushed = hist.pushed \/ Holds(hist'.pushed, Finish)
  BY <1>2, OthersData, BytesPushed
<1>5. PICK t \in Threads : /\ Moves(t, at'[t]) /\ at'[t] # "push"
                           /\ at[t] = "push" => PanicOnPoison(t)
  BY OthersHands
<1>6. holder'["send_buffer"] # Poison => holder["send_buffer"] # Poison
  BY <1>5, MovesOnly DEF Locks
<1>7. CASE t \in Handles => at[t] # "push"
  <2>1. InHand(c)'
    BY <1>1, <1>5, <1>7, HandsKept
  <2>2. Written(c)'
    BY <1>1, <1>3, <1>6 DEF Written
  <2>3. QED
    BY <1>1, <2>1, <2>2 DEF WrittenInv
<1>8. CASE t \in Handles /\ at[t] = "push"
  <2>1. InHand(<< >>)' /\ << >> \in Seq(Nat)
    BY <1>5, <1>8, HandsEmptied
  <2>2. holder'["send_buffer"] = Poison
    <3>1. holder["send_buffer"] = t
      BY <1>8, OneCutter
    <3>2. Panic(t, {})
      BY <1>5, <1>8 DEF PanicOnPoison
    <3>3. QED
      BY <3>1, <3>2 DEF Panic, Locks
  <2>3. /\ (p \o << >>) \o b = p \o b
        /\ \A n : Ascending((p \o c) \o b, n) => Ascending(p \o b, n)
    <3> HIDE DEF p, b
    <3>1. QED
      BY <1>1, <1>2, BytesMove
  <2>4. Written(<< >>)'
    BY <1>1, <1>3, <2>2, <2>3 DEF Written
  <2>5. QED
    BY <2>1, <2>4 DEF WrittenInv
<1>9. QED
  BY <1>7, <1>8

\* The write side's invariant says what the property says.
LEMMA WrittenIsInOrder ==
  ASSUME TypeOK, LockInv, WrittenInv
  PROVE  WrittenInOrder
<1> DEFINE cut == {h \in Handles : at[h] = "push"}
           chunk == IF cut = {} THEN << >> ELSE frame[CHOOSE h \in cut : TRUE].bytes
           all == Bytes(hist.pushed) \o chunk \o stream.send_buffer
<1>1. PICK c \in Seq(Nat) : InHand(c) /\ Written(c)
  BY DEF WrittenInv
<1>2. cut = {} \/ \E h \in Handles : at[h] = "push" /\ cut = {h}
  BY OneCutter, ThreadNames
<1>3. Cardinality(cut) <= 1
  <2> HIDE DEF cut
  <2>1. CASE cut = {}
    <3>1. Cardinality(cut) = 0
      BY <2>1, FS_EmptySet
    <3>2. QED
      BY <3>1
  <2>2. CASE \E h \in Handles : cut = {h}
    <3>1. Cardinality(cut) = 1
      BY <2>2, FS_Singleton
    <3>2. QED
      BY <3>1
  <2>3. QED
    BY <1>2, <2>1, <2>2
<1>4. chunk = c
  <2>1. CASE cut = {}
    BY <1>1, <2>1 DEF InHand
  <2>2. CASE cut # {}
    <3>1. PICK h \in Handles : at[h] = "push" /\ cut = {h}
      BY <1>2, <2>2
    <3>2. c = frame[h].bytes
      BY <1>1, <3>1, OneCutter, ThreadNames DEF InHand
    <3>3. (CHOOSE g \in cut : TRUE) = h
      BY <3>1
    <3> HIDE DEF cut
    <3>4. QED
      BY <2>2, <3>2, <3>3
  <2>3. QED
    BY <2>1, <2>2
<1>5. /\ Ascending(all, hist.taken)
      /\ ~ Holds(hist.pushed, Finish) /\ holder["send_buffer"] # Poison =>
           all = Numbered(hist.taken)
  BY <1>1, <1>4 DEF Written
<1>6. all \in Seq(Nat)
  <2>1. stream.send_buffer \in Seq(1 .. MaxBytes) /\ 1 .. MaxBytes \subseteq Nat /\ hist.pushed \in Seq(SequentialSegment)
    BY FieldTypes
  <2>2. Bytes(hist.pushed) \in Seq(Nat) /\ stream.send_buffer \in Seq(Nat)
    BY <2>1, BytesType, SeqMonotonic
  <2> HIDE DEF chunk
  <2>3. Bytes(hist.pushed) \o chunk \in Seq(Nat)
    BY <1>4, <2>2, ConcatProperties
  <2>4. QED
    BY <2>2, <2>3, ConcatProperties
<1> HIDE DEF cut, chunk, all
<1>7. \A i \in 2 .. Len(all) : all[i - 1] < all[i]
  <2>1. Len(all) \in Nat
    BY <1>6
  <2>2. \A i \in 2 .. Len(all) : i - 1 \in 1 .. Len(all) /\ i \in 1 .. Len(all) /\ i - 1 < i
    BY <2>1
  <2>3. QED
    BY <1>5, <2>2 DEF Ascending
<1>8. Finish \notin Range(hist.pushed) => ~ Holds(hist.pushed, Finish)
  BY DEF Range, Holds
<1>9. Finish \notin Range(hist.pushed) /\ holder["send_buffer"] # Poison =>
        all = [i \in 1 .. hist.taken |-> i]
  BY <1>5, <1>8 DEF Numbered
<1>10. QED
  BY <1>3, <1>7, <1>9 DEF WrittenInOrder, cut, chunk, all

-----------------------------------------------------------------------------
(* The read side: the peer's bytes, in order                                *)

\* The segment at each position that the peer has sent up to now, the
\* handshake's being 0.
SentUpTo(n) == [p \in 0 .. n |-> IF p = 0 THEN Accept ELSE PeerStream[p]]

\* The places of the listener's thread when a segment of the peer has arrived
\* that the storage has not taken, and will not take any more.
Lagging == {"recv_sequential", "error", "error_conn", "error_send", "error_recv",
            "panicked"}

\* Of what the peer sends, read has taken out the first k segments, and the
\* ones from there up to w are in pop_queue.
Delivered(k, w) ==
  /\ stream.recv_storage.pop_queue = SubSeq(PeerStream, k + 1, w - 1)
  /\ hist.got \o stream.recv_buffer = Bytes(SubSeq(PeerStream, 1, k))
  /\ stream.recv_finished => \E i \in 1 .. k : PeerStream[i] = Finish

\* The storage of a stream without an error is the one of position w.
Represented(w) ==
  Ok => \E l : Represents(stream.recv_storage, Start, w, l, SentUpTo(net.arrived))

\* What the listener has in its hands is the segment at w or the one before,
\* and a storage that an error has emptied is empty.
InArrival(w) ==
  at["listener"] = "recv_sequential" =>
    /\ net.arrived \in DOMAIN PeerStream /\ w \in {net.arrived, net.arrived + 1}
    /\ frame["listener"].seq_num = Wrap(Start + net.arrived)
    /\ frame["listener"].variant = PeerStream[net.arrived]
    /\ ~ Ok => /\ stream.recv_storage.segments = << >>
               /\ stream.recv_storage.window = Wrap(Start + w)
InStep(w) ==
  Ok => \/ w = net.arrived + 1
        \/ w = net.arrived /\ at["listener"] \in Lagging

DeliveryInv ==
  \E k \in 0 .. Len(PeerStream), w \in 1 .. Len(PeerStream) + 1 :
    k < w /\ Delivered(k, w) /\ Represented(w) /\ InArrival(w) /\ InStep(w)

\* Where a reader is in the loop, and what is left in recv_buffer.
ReaderInv ==
  /\ \A h \in Threads :
       /\ at[h] = "read_state" => stream.recv_buffer = << >>
       /\ at[h] = "read_pop" => stream.recv_buffer = << >> /\ ~ stream.recv_finished
  /\ stream.recv_finished => stream.recv_buffer = << >>

\* A stream in error is not in `connections`.
LeftInv == ~ Ok => ~ net.registered

LEMMA PeerFacts ==
  /\ PeerStream \in Seq(SequentialSegment) /\ Len(PeerStream) \in Nat
  /\ DOMAIN PeerStream = 1 .. Len(PeerStream)
  /\ \A i \in 1 .. Len(PeerStream) : PeerStream[i] \in SequentialSegment
  /\ \A m \in Int, n \in 0 .. Len(PeerStream) :
       m >= 1 => SubSeq(PeerStream, m, n) \in Seq(SequentialSegment)
  /\ Start \in Int
  /\ WINDOW_SIZE \in Nat \ {0} /\ Modulus \in Nat /\ Modulus >= 2 * WINDOW_SIZE
<1>1. PeerStream \in Seq(SequentialSegment)
  BY StreamInnerAssumption
<1>2. /\ Len(PeerStream) \in Nat /\ DOMAIN PeerStream = 1 .. Len(PeerStream)
      /\ \A i \in 1 .. Len(PeerStream) : PeerStream[i] \in SequentialSegment
  BY <1>1, LenProperties, ElementOfSeq
<1>3. ASSUME NEW m \in Int, NEW n \in 0 .. Len(PeerStream), m >= 1
      PROVE  SubSeq(PeerStream, m, n) \in Seq(SequentialSegment)
  <2>1. n \in Int /\ \A i \in m .. n : PeerStream[i] \in SequentialSegment
    BY <1>2, <1>3
  <2>2. QED
    BY <2>1, SubSeqProperties
<1>4. Start \in Int
  BY SequenceNumberAssumption DEF Start
<1>5. QED
  BY <1>1, <1>2, <1>3, <1>4, SequenceNumberAssumption

\* The bytes of a part of the peer's segments and of the part that follows it.
LEMMA PeerBytes ==
  ASSUME NEW k \in 0 .. Len(PeerStream), NEW n \in k .. Len(PeerStream)
  PROVE  Bytes(SubSeq(PeerStream, 1, k)) \o Bytes(SubSeq(PeerStream, k + 1, n)) =
           Bytes(SubSeq(PeerStream, 1, n))
<1>1. /\ SubSeq(PeerStream, 1, k) \in Seq(SequentialSegment)
      /\ SubSeq(PeerStream, k + 1, n) \in Seq(SequentialSegment)
  BY PeerFacts
<1>2. SubSeq(PeerStream, 1, k) \o SubSeq(PeerStream, k + 1, n) = SubSeq(PeerStream, 1, n)
  <2>1. 1 \in 1 .. Len(PeerStream) + 1 /\ k \in 1 - 1 .. Len(PeerStream)
    BY PeerFacts
  <2>2. QED
    BY <2>1, PeerFacts, ConcatAdjacentSubSeq
<1>3. QED
  BY <1>1, <1>2, BytesOfConcat

LEMMA PeerBytesNext ==
  ASSUME NEW k \in 0 .. Len(PeerStream) - 1
  PROVE  Bytes(SubSeq(PeerStream, 1, k + 1)) =
           Bytes(SubSeq(PeerStream, 1, k)) \o BytesOf(PeerStream[k + 1])
<1>1. /\ k + 1 \in 1 .. Len(PeerStream) /\ k \in 0 .. Len(PeerStream)
      /\ 1 \in 1 .. Len(PeerStream) /\ (k + 1) - 1 = k
  BY PeerFacts
<1>2. /\ SubSeq(PeerStream, 1, k) \in Seq(SequentialSegment)
      /\ PeerStream[k + 1] \in SequentialSegment
  BY <1>1, PeerFacts
<1>3. SubSeq(PeerStream, 1, k + 1) = SubSeq(PeerStream, 1, (k + 1) - 1) \o << PeerStream[k + 1] >>
  BY <1>1, PeerFacts, SubSeqRecursiveSecond
<1>4. SubSeq(PeerStream, 1, k + 1) = Append(SubSeq(PeerStream, 1, k), PeerStream[k + 1])
  BY <1>1, <1>2, <1>3, AppendIsConcat
<1>5. QED
  BY <1>2, <1>4, BytesOfAppend

\* The two invariants say what the properties of the read side say.
LEMMA ReadIsInOrder ==
  ASSUME TypeOK, DeliveryInv
  PROVE  ReadInOrder
<1>1. PICK k \in 0 .. Len(PeerStream), w \in 1 .. Len(PeerStream) + 1 :
        k < w /\ Delivered(k, w)
  BY DEF DeliveryInv
<1> DEFINE n == w - 1
           x == Bytes(SubSeq(PeerStream, 1, n))
           y == Bytes(SubSeq(PeerStream, n + 1, Len(PeerStream)))
<1>2. k \in 0 .. Len(PeerStream) /\ n \in k .. Len(PeerStream) /\ n \in 0 .. Len(PeerStream)
  BY <1>1, PeerFacts
<1>3. hist.got \o stream.recv_buffer \o Bytes(stream.recv_storage.pop_queue) = x
  BY <1>1, <1>2, PeerBytes DEF Delivered
<1>4. x \o y = Bytes(PeerStream)
  <2>1. SubSeq(PeerStream, 1, Len(PeerStream)) = PeerStream
    BY PeerFacts, SubSeqFull
  <2>2. x \o y = Bytes(SubSeq(PeerStream, 1, Len(PeerStream)))
    <3>1. n \in 0 .. Len(PeerStream) /\ Len(PeerStream) \in n .. Len(PeerStream)
      BY <1>2, PeerFacts
    <3> HIDE DEF n
    <3>2. QED
      BY <3>1, PeerBytes
  <2>3. QED
    BY <2>1, <2>2
<1>5. x \in Seq(Nat) /\ y \in Seq(Nat)
  <2>1. n + 1 \in Int /\ n + 1 >= 1 /\ Len(PeerStream) \in 0 .. Len(PeerStream)
    BY <1>2, PeerFacts
  <2>2. SubSeq(PeerStream, n + 1, Len(PeerStream)) \in Seq(SequentialSegment)
    BY <2>1, PeerFacts
  <2>3. SubSeq(PeerStream, 1, n) \in Seq(SequentialSegment)
    BY <1>2, PeerFacts
  <2> HIDE DEF n
  <2>4. QED
    BY <2>2, <2>3, BytesType
<1> HIDE DEF x, y
<1>6. QED
  BY <1>3, <1>4, <1>5, ConcatPrefix DEF ReadInOrder

LEMMA FinishIsLast ==
  ASSUME PeerFinishesLast, TypeOK, DeliveryInv, ReaderInv
  PROVE  NothingAfterFinish
<1> SUFFICES ASSUME stream.recv_finished
             PROVE  stream.recv_buffer = << >> /\ stream.recv_storage.pop_queue = << >>
  BY DEF NothingAfterFinish
<1>1. PICK k \in 0 .. Len(PeerStream), w \in 1 .. Len(PeerStream) + 1 :
        k < w /\ Delivered(k, w)
  BY DEF DeliveryInv
<1>2. PICK i \in 1 .. k : PeerStream[i] = Finish
  BY <1>1 DEF Delivered
<1>3. i = Len(PeerStream)
  <2>1. i \in 1 .. Len(PeerStream)
    BY <1>2, PeerFacts
  <2>2. QED
    BY <1>2, <2>1, PeerFacts DEF PeerFinishesLast
<1>4. k + 1 \in Int /\ w - 1 \in Int /\ w - 1 < k + 1
  BY <1>1, <1>2, <1>3, PeerFacts
<1>5. SubSeq(PeerStream, k + 1, w - 1) = << >>
  BY <1>4, SubSeqEmpty
<1>6. QED
  BY <1>1, <1>5 DEF Delivered, ReaderInv

-----------------------------------------------------------------------------
(* The storage takes the peer's next segment                                *)

\* A segment for the first gap, with nothing stored behind it, goes straight
\* to the reader.
LEMMA TakesNext ==
  ASSUME NEW r, IsRecvStorage(r), NEW x \in SequentialSegment, NEW s, s = r.window,
         ~ Present(r, s), ~ Present(r, Plus(s, 1)), Plus(s, 1) # s
  PROVE  LET q == AfterRecv(r, s, x) IN
         /\ IsRecvStorage(q)
         /\ q.window = Plus(s, 1) /\ q.pop_queue = r.pop_queue \o << x >>
<1> DEFINE t == Insert(r, s, x)
<1>1. s \in SeqNum /\ Modulus \in Nat /\ 1 \in 0 .. Modulus - 1
  BY SequenceNumberAssumption DEF IsRecvStorage
<1>2. Plus(s, 0) = s
  BY <1>1, WrapSmall DEF Plus, SeqNum
<1>3. /\ IsRecvStorage(t) /\ t.window = s /\ t.pop_queue = r.pop_queue
      /\ DOMAIN t.segments = DOMAIN r.segments \cup {s} /\ t.segments[s] = x
  BY <1>1, InsertFields
<1>4. AfterRecv(r, s, x) = Slide(t)
  BY DEF AfterRecv, IsDuplicate
<1> HIDE DEF t
<1>5. Present(t, s) /\ ~ Present(t, Plus(t.window, 1))
  BY <1>3 DEF Present
<1>6. SlideLength(t) \in 0 .. 1 /\ ~ Present(t, Plus(t.window, SlideLength(t)))
  BY <1>1, <1>5, SlideLengthIsFirstGap
<1>7. SlideLength(t) = 1
  <2>1. SlideLength(t) # 0
    BY <1>2, <1>3, <1>5, <1>6
  <2>2. QED
    BY <1>6, <2>1
<1>8. /\ IsRecvStorage(Slide(t)) /\ Slide(t).window = Plus(t.window, 1)
      /\ Slide(t).pop_queue = t.pop_queue \o [j \in 1 .. 1 |-> t.segments[Plus(t.window, j - 1)]]
  <2>1. SlideLength(t) \in Nat /\ \A j \in 0 .. SlideLength(t) - 1 : Present(t, Plus(t.window, j))
    <3>1. \A j \in 0 .. SlideLength(t) - 1 : j = 0
      BY <1>7
    <3>2. QED
      BY <1>2, <1>3, <1>5, <1>7, <3>1
  <2>2. QED
    BY <1>3, <1>7, <2>1, SlideFields
<1>9. [j \in 1 .. 1 |-> t.segments[Plus(t.window, j - 1)]] = << x >>
  <2>1. \A j \in 1 .. 1 : t.segments[Plus(t.window, j - 1)] = x
    BY <1>2, <1>3
  <2>2. [j \in 1 .. 1 |-> t.segments[Plus(t.window, j - 1)]] = [j \in 1 .. 1 |-> x]
    BY <2>1
  <2>3. QED
    BY <2>2
<1>10. QED
  BY <1>3, <1>4, <1>8, <1>9

\* A segment that is not for the first gap only goes into the storage.
LEMMA TakesOther ==
  ASSUME NEW r, IsRecvStorage(r), NEW x \in SequentialSegment, NEW s \in SeqNum,
         s # r.window, ~ Present(r, s)
  PROVE  LET q == AfterRecv(r, s, x) IN
         IsRecvStorage(q) /\ q.window = r.window /\ q.pop_queue = r.pop_queue
<1>1. AfterRecv(r, s, x) = Insert(r, s, x)
  BY DEF AfterRecv, IsDuplicate
<1>2. QED
  BY <1>1, InsertFields

LEMMA SentUpToType ==
  ASSUME NEW n \in 0 .. Len(PeerStream)
  PROVE  /\ SentUpTo(n) \in [0 .. n -> SequentialSegment] /\ DOMAIN SentUpTo(n) = 0 .. n
         /\ \A p \in 1 .. n : SentUpTo(n)[p] = PeerStream[p]
<1>1. n \in Nat /\ Accept \in SequentialSegment /\ 0 \notin 1 .. n
  BY PeerFacts DEF SequentialSegment
<1>2. \A p \in 0 .. n : p = 0 \/ p \in 1 .. Len(PeerStream)
  BY <1>1, PeerFacts
<1>3. \A p \in 0 .. n : (IF p = 0 THEN Accept ELSE PeerStream[p]) \in SequentialSegment
  BY <1>1, <1>2, PeerFacts
<1>4. \A p \in 1 .. n : p \in 0 .. n /\ p # 0
  BY <1>1
<1>5. QED
  BY <1>3, <1>4 DEF SentUpTo

\* What is stored of the first positions is stored of more of them.
LEMMA RepresentsMore ==
  ASSUME NEW m \in 0 .. Len(PeerStream), NEW n \in m .. Len(PeerStream), NEW r, NEW w, NEW l,
         Represents(r, Start, w, l, SentUpTo(m))
  PROVE  Represents(r, Start, w, l, SentUpTo(n))
<1>1. m \in Nat /\ n \in 0 .. Len(PeerStream) /\ 0 .. m \subseteq 0 .. n
  BY PeerFacts
<1>2. DOMAIN SentUpTo(m) = 0 .. m /\ DOMAIN SentUpTo(n) = 0 .. n
  BY <1>1, SentUpToType
<1>3. \A p \in 0 .. m : SentUpTo(n)[p] = SentUpTo(m)[p]
  BY <1>1 DEF SentUpTo
<1>4. \A k \in DOMAIN r.segments :
        \E p \in DOMAIN SentUpTo(n) :
          /\ p >= l /\ p - l < Modulus
          /\ p # w /\ p < w + WINDOW_SIZE
          /\ k = Wrap(Start + p) /\ r.segments[k] = SentUpTo(n)[p]
  <2> SUFFICES ASSUME NEW k \in DOMAIN r.segments
               PROVE  \E p \in DOMAIN SentUpTo(n) :
                        /\ p >= l /\ p - l < Modulus
                        /\ p # w /\ p < w + WINDOW_SIZE
                        /\ k = Wrap(Start + p) /\ r.segments[k] = SentUpTo(n)[p]
    OBVIOUS
  <2>1. PICK p \in DOMAIN SentUpTo(m) :
          /\ p >= l /\ p - l < Modulus
          /\ p # w /\ p < w + WINDOW_SIZE
          /\ k = Wrap(Start + p) /\ r.segments[k] = SentUpTo(m)[p]
    BY DEF Represents
  <2>2. p \in DOMAIN SentUpTo(n) /\ SentUpTo(n)[p] = SentUpTo(m)[p]
    BY <1>1, <1>2, <1>3
  <2>3. QED
    BY <2>1, <2>2
<1>5. QED
  BY <1>4 DEF Represents

\* With nothing stored from the window on, the numbers of the next two
\* positions are unknown.
LEMMA NextIsNew ==
  ASSUME NEW i \in 1 .. Len(PeerStream), NEW r, NEW l,
         Represents(r, Start, i, l, SentUpTo(i)), NEW c \in {0, 1}, i + c - l < Modulus
  PROVE  ~ Present(r, Wrap(Start + (i + c)))
<1> SUFFICES ASSUME Present(r, Wrap(Start + (i + c))) PROVE FALSE
  OBVIOUS
<1>1. i \in 0 .. Len(PeerStream) /\ i \in Nat
  BY PeerFacts
<1>2. PICK p \in DOMAIN SentUpTo(i) :
        p >= l /\ p # i /\ Wrap(Start + (i + c)) = Wrap(Start + p)
  BY DEF Represents, Present
<1>3. p \in 0 .. i - 1 /\ l \in Nat
  <2>1. p \in 0 .. i
    BY <1>1, <1>2, SentUpToType
  <2>2. QED
    BY <1>1, <1>2, <2>1 DEF Represents
<1> DEFINE x == Start + (i + c)
           y == Start + p
<1>4. x \in Int /\ y \in Int /\ x - y < Modulus /\ y - x < Modulus /\ x # y
  BY <1>1, <1>2, <1>3, PeerFacts
<1> HIDE DEF x, y
<1>5. Wrap(x) # Wrap(y)
  BY <1>4, WrapInjective
<1>6. QED
  BY <1>2, <1>5 DEF x, y

\* A segment that arrives at the window, or once more the one before, leaves
\* the storage of the position behind it.
LEMMA NextArrives ==
  ASSUME NEW i \in 1 .. Len(PeerStream), NEW r, IsRecvStorage(r), NEW w \in {i, i + 1}, NEW l,
         Represents(r, Start, w, l, SentUpTo(i)),
         ~ RecvRejects(r, Wrap(Start + i), PeerStream[i])
  PROVE  LET q == AfterRecv(r, Wrap(Start + i), PeerStream[i]) IN
         /\ IsRecvStorage(q) /\ ~ RecvPanics(r, Wrap(Start + i), PeerStream[i])
         /\ \E h : Represents(q, Start, i + 1, h, SentUpTo(i))
         /\ q.pop_queue = IF w = i THEN r.pop_queue \o << PeerStream[i] >> ELSE r.pop_queue
<1> DEFINE s == Wrap(Start + i)
           x == PeerStream[i]
           q == AfterRecv(r, s, x)
           f == SentUpTo(i)
<1>1. /\ i \in Nat /\ i \in 0 .. i /\ i \in 0 .. Len(PeerStream) /\ Start \in Int
      /\ w \in Nat /\ w <= i + 1 /\ x \in SequentialSegment
      /\ WINDOW_SIZE \in Nat \ {0} /\ Modulus \in Nat /\ Modulus >= 2 * WINDOW_SIZE
  BY PeerFacts
<1>2. IsRecent(i, w)
  BY <1>1 DEF IsRecent
<1>3. f \in [0 .. i -> SequentialSegment] /\ f[i] = x
  <2>1. i \in 1 .. i
    BY <1>1
  <2>2. QED
    BY <1>1, <2>1, SentUpToType
<1>4. ~ RecvRejects(r, s, f[i]) /\ Represents(r, Start, w, l, f)
  BY <1>3
<1> HIDE DEF f
<1>5. IsRecvStorage(q) /\ ~ RecvPanics(r, s, x) /\ Advances(r, q, Start, w, l, i, f)
  <2>1. LET p == AfterRecv(r, Wrap(Start + i), f[i]) IN
        /\ IsRecvStorage(p) /\ ~ RecvPanics(r, Wrap(Start + i), f[i])
        /\ Advances(r, p, Start, w, l, i, f)
    BY <1>1, <1>2, <1>3, <1>4, RecvInOrder
  <2>2. QED
    BY <1>3, <2>1
<1>6. PICK v \in w .. i + 1, h \in Nat :
        Represents(q, Start, v, h, f) /\ q.pop_queue = r.pop_queue \o Handed(f, w, v)
  BY <1>5 DEF Advances
<1>7. CASE w = i + 1
  <2>1. v = i + 1 /\ v - w = 0
    BY <1>1, <1>7
  <2>2. Handed(f, w, v) = << >>
    BY <2>1 DEF Handed
  <2>3. r.pop_queue \o << >> = r.pop_queue /\ w # i
    BY <1>1, <1>7 DEF IsRecvStorage
  <2> HIDE DEF q
  <2>4. QED
    BY <1>5, <1>6, <2>1, <2>2, <2>3 DEF q, f
<1>8. CASE w = i
  <2>1. /\ r.window = s /\ s = Wrap(Start + (i + 0)) /\ l \in 0 .. i /\ i - l < Modulus
    BY <1>1, <1>4, <1>8 DEF Represents
  <2>2. ~ Present(r, s)
    <3>1. i + 0 - l < Modulus
      BY <1>1, <2>1
    <3>2. QED
      BY <1>8, <2>1, <3>1, NextIsNew
  <2>3. i + 1 - l < Modulus
    <3>1. ValidSeqNum(r, s)
      BY DEF RecvRejects
    <3>2. w - l + WINDOW_SIZE < Modulus
      BY <1>1, <1>2, <1>4, <2>2, <3>1, AcceptedIsNew
    <3>3. QED
      BY <1>1, <1>8, <2>1, <3>2
  <2>4. Plus(s, 1) = Wrap(Start + (i + 1))
    BY <1>1, CountedNumbers
  <2>5. ~ Present(r, Plus(s, 1))
    BY <1>8, <2>3, <2>4, NextIsNew
  <2>6. \A a, c \in {i, i + 1} : Wrap(Start + a) = Wrap(Start + c) => a = c
    <3> SUFFICES ASSUME NEW a \in {i, i + 1}, NEW c \in {i, i + 1}, Wrap(Start + a) = Wrap(Start + c)
                 PROVE  a = c
      OBVIOUS
    <3> DEFINE y == Start + a
               z == Start + c
    <3>1. y \in Int /\ z \in Int /\ y - z < Modulus /\ z - y < Modulus
      BY <1>1
    <3> HIDE DEF y, z
    <3>2. y = z
      BY <3>1, WrapInjective DEF y, z
    <3>3. QED
      BY <1>1, <3>2 DEF y, z
  <2>7. Plus(s, 1) # s
    BY <1>1, <2>4, <2>6
  <2>8. q.window = Plus(s, 1) /\ q.pop_queue = r.pop_queue \o << x >>
    <3> HIDE DEF s, x
    <3>1. QED
      BY <1>1, <2>1, <2>2, <2>5, <2>7, TakesNext
  <2>9. v = i + 1
    <3>1. Wrap(Start + v) = Wrap(Start + (i + 1)) /\ v \in {i, i + 1}
      BY <1>1, <1>6, <1>8, <2>4, <2>8 DEF Represents
    <3>2. QED
      BY <1>1, <2>6, <3>1
  <2> HIDE DEF q
  <2>10. QED
    BY <1>5, <1>6, <1>8, <2>8, <2>9 DEF q, f
<1>9. QED
  BY <1>7, <1>8

-----------------------------------------------------------------------------
(* The steps of the read side                                               *)

\* The steps of the threads that read, receive, or fail the stream, and all
\* the others.
Receives ==
  \/ \E h \in Handles : ReadHead(h) \/ ReadState(h) \/ ReadPop(h)
  \/ \E t \in Threads : ErrorSet(t)
  \/ WorkerAcknowledge \/ RecvSequential \/ ArriveSequential

LEMMA OthersRead ==
  ASSUME TypeOK, LockInv, FrameInv, Next, ~ Receives
  PROVE  /\ ReadSideKept /\ net'.arrived = net.arrived
         /\ \E t \in Threads :
              /\ Moves(t, at'[t])
              /\ at'[t] \notin {"read_state", "read_pop", "recv_sequential"}
              /\ t = "listener" => Aside(t)
<1>1. ReadSideKept
  <2>1. CASE UNCHANGED << stream, hist >>
    BY <2>1 DEF ReadSideKept
  <2>2. ASSUME NEW h \in Handles,
               WriteTake(h) \/ WriteDrain(h) \/ WritePush(h) \/ FinishPush(h) \/ FinishReturn(h)
        PROVE  ReadSideKept
    BY <2>2, WriteTakeEffect, WriteDrainEffect, WritePushEffect, FinishPushEffect,
       FinishReturnEffect
  <2>3. CASE (\E due \in BOOLEAN : WorkerPop(due)) \/ RecvAcknowledge
    BY <2>3, WorkerPopEffect, RecvAcknowledgeEffect DEF SendStorageChanges
  <2>4. ASSUME NEW t \in Threads, Acts(t) PROVE ReadSideKept
    BY <2>2, <2>3, <2>4 DEF Acts, Receives
  <2>5. QED
    BY <2>1, <2>4, ActsOrNot
<1>2. net'.arrived = net.arrived
  BY NetStep DEF Receives
<1>3. PICK t \in Threads : Moves(t, at'[t]) /\ (Leading(t) \/ Aside(t))
  BY StepKinds
<1>4. CASE Aside(t)
  BY <1>1, <1>2, <1>3, <1>4 DEF Aside, Busy
<1>5. CASE t \in Handles /\ (WriteTake(t) \/ WriteDrain(t) \/ WritePush(t))
  <2>1. frame[t].next \in {"idle", "finish"} /\ t # "listener"
    BY <1>5, FrameFields, ThreadNames DEF Frame
  <2>2. ASSUME NEW place \in {"idle", "finish", "drain", "push", "panicked"}, Goto(t, place)
        PROVE  at'[t] \notin {"read_state", "read_pop", "recv_sequential"}
    BY <2>2, GoneTo
  <2>3. at'[t] \notin {"read_state", "read_pop", "recv_sequential"}
    BY <1>5, <2>1, <2>2 DEF WriteTake, WriteDrain, WritePush, PushPanic, Panic
  <2>4. QED
    BY <1>1, <1>2, <1>3, <2>1, <2>3
<1>6. QED
  BY <1>3, <1>4, <1>5 DEF Leading, Receives

\* The state of the connection changes when an error is set, and then it is
\* one of the errors.
LEMMA StateKept ==
  ASSUME TypeOK, LockInv, FrameInv, Next
  PROVE  \/ stream'.conn_state = stream.conn_state
         \/ ~ Ok' /\ ~ net'.registered
<1>1. ASSUME NEW t \in Threads, ErrorSet(t) PROVE ~ Ok' /\ ~ net'.registered
  <2>1. /\ at[t] = "error_recv" /\ stream'.conn_state = frame[t].code
        /\ ~ net'.registered
    BY <1>1, FromFree, ErrorSetEffect DEF ErrorSet
  <2>2. QED
    BY <2>1 DEF FrameInv, FrameOK, Ok
<1>2. ASSUME NEW h \in Handles, ReadHead(h) \/ ReadState(h) \/ ReadPop(h)
      PROVE  stream'.conn_state = stream.conn_state
  BY <1>2, ReadHeadEffect, ReadPopEffect DEF ReadState
<1>3. ASSUME WorkerAcknowledge \/ RecvSequential \/ ArriveSequential
      PROVE  stream'.conn_state = stream.conn_state
  <2>1. ASSUME WorkerAcknowledge \/ RecvSequential PROVE stream'.conn_state = stream.conn_state
    BY <2>1, WorkerAcknowledgeEffect, RecvSequentialEffect DEF RecvStorageChanges
  <2>2. ASSUME ArriveSequential PROVE stream'.conn_state = stream.conn_state
    BY <2>2 DEF ArriveSequential
  <2>3. QED
    BY <1>3, <2>1, <2>2
<1>4. CASE ~ Receives
  BY <1>4, OthersRead DEF ReadSideKept
<1>5. QED
  BY <1>1, <1>2, <1>3, <1>4 DEF Receives

\* An error is for good.
LEMMA ErrorStays ==
  ASSUME TypeOK, LockInv, FrameInv, Next, Ok'
  PROVE  Ok
BY StateKept DEF Ok

LEMMA LeftStep ==
  ASSUME TypeOK, LockInv, FrameInv, LeftInv, Next
  PROVE  LeftInv'
<1>1. net'.registered => net.registered
  BY NetStep
<1>2. QED
  BY <1>1, StateKept DEF LeftInv, Ok

\* A thread in the loop of read is the only one there.
LEMMA OneReader ==
  ASSUME LockInv, NEW h \in Threads, NEW g \in Threads,
         at[h] \in {"read_head", "read_state", "read_pop"},
         at[g] \in {"read_head", "read_state", "read_pop"}
  PROVE  h = g
BY KeptAt DEF LockInv, Locks

\* What a reader leaves when it goes to a place.
Reading(place, buffer, finished) ==
  /\ place = "read_state" => buffer = << >>
  /\ place = "read_pop" => buffer = << >> /\ ~ finished

LEMMA ReadingKept ==
  ASSUME TypeOK, ReaderInv, NEW t \in Threads, NEW place, Moves(t, place),
         stream'.recv_buffer = stream.recv_buffer,
         stream'.recv_finished = stream.recv_finished,
         Reading(at'[t], stream'.recv_buffer, stream'.recv_finished)
  PROVE  ReaderInv'
<1>1. \A u \in Threads \ {t} : at'[u] = at[u]
  BY MovesOnly
<1>2. \A h \in Threads : Reading(at'[h], stream'.recv_buffer, stream'.recv_finished)
  BY <1>1 DEF ReaderInv, Reading
<1>3. QED
  BY <1>2 DEF ReaderInv, Reading

\* A reader moves, and no other is in the loop.
LEMMA ReaderMoves ==
  ASSUME TypeOK, LockInv, NEW h \in Handles, at[h] \in {"read_head", "read_state", "read_pop"},
         NEW place, Goto(h, place), Reading(place, stream'.recv_buffer, stream'.recv_finished),
         stream'.recv_finished => stream'.recv_buffer = << >>
  PROVE  ReaderInv'
<1>1. h \in Threads
  BY ThreadNames
<1>2. at'[h] = place /\ \A u \in Threads \ {h} : at'[u] = at[u]
  BY <1>1, GoneTo
<1>3. \A u \in Threads \ {h} : at[u] \notin {"read_state", "read_pop"}
  BY <1>1, OneReader
<1>4. \A u \in Threads : Reading(at'[u], stream'.recv_buffer, stream'.recv_finished)
  BY <1>2, <1>3 DEF Reading
<1>5. QED
  BY <1>4 DEF ReaderInv, Reading

LEMMA ReaderStep ==
  ASSUME TypeOK, LockInv, FrameInv, ReaderInv, Next
  PROVE  ReaderInv'
<1>1. ASSUME NEW h \in Handles, ReadHead(h) PROVE ReaderInv'
  <2>1. at[h] = "read_head"
    BY <1>1, FromFree DEF ReadHead
  <2>2. PICK place \in {"idle", "read_state"} :
          /\ Goto(h, place) /\ stream'.recv_finished = stream.recv_finished
          /\ \/ UNCHANGED stream \/ ~ stream.recv_finished
          /\ place = "read_state" => stream'.recv_buffer = << >>
    BY <1>1, ReadHeadEffect DEF Goto
  <2>3. Reading(place, stream'.recv_buffer, stream'.recv_finished)
    BY <2>2 DEF Reading
  <2>4. stream'.recv_finished => stream'.recv_buffer = << >>
    BY <2>2 DEF ReaderInv
  <2>5. QED
    BY <2>1, <2>2, <2>3, <2>4, ReaderMoves
<1>2. ASSUME NEW h \in Handles, ReadState(h) PROVE ReaderInv'
  <2>1. at[h] = "read_state" /\ h \in Threads
    BY <1>2, FromFree, ThreadNames DEF ReadState
  <2>2. PICK place \in {"idle", "read_pop"} :
          /\ Goto(h, place) /\ UNCHANGED stream
          /\ place = "read_pop" => ~ stream.recv_finished
    BY <1>2 DEF ReadState, ReadReturn
  <2>3. stream.recv_buffer = << >>
    BY <2>1 DEF ReaderInv
  <2>4. Reading(place, stream'.recv_buffer, stream'.recv_finished)
    BY <2>2, <2>3 DEF Reading
  <2>5. QED
    BY <2>1, <2>2, <2>3, <2>4, ReaderMoves
<1>3. ASSUME NEW h \in Handles, ReadPop(h) PROVE ReaderInv'
  <2>1. at[h] = "read_pop" /\ h \in Threads
    BY <1>3, ReadPopEffect, ThreadNames
  <2>2. stream.recv_buffer = << >> /\ ~ stream.recv_finished
    BY <2>1 DEF ReaderInv
  <2>3. PICK place \in {"idle", "read_state"} :
          /\ Goto(h, place)
          /\ \/ place = "idle" /\ ~ stream'.recv_finished
             \/ place = "read_state" /\ stream'.recv_buffer = << >>
    BY <1>3, <2>2, ReadPopEffect DEF Goto
  <2>4. Reading(place, stream'.recv_buffer, stream'.recv_finished)
    BY <2>3 DEF Reading
  <2>5. QED
    BY <2>1, <2>3, <2>4, ReaderMoves
<1>4. ASSUME NEW t \in Threads, NEW place, Moves(t, place),
             stream'.recv_buffer = stream.recv_buffer,
             stream'.recv_finished = stream.recv_finished,
             at'[t] \notin {"read_state", "read_pop"}
      PROVE  ReaderInv'
  <2>1. Reading(at'[t], stream'.recv_buffer, stream'.recv_finished)
    BY <1>4 DEF Reading
  <2>2. QED
    BY <1>4, <2>1, ReadingKept
<1>5. ASSUME NEW t \in Threads, ErrorSet(t) PROVE ReaderInv'
  <2>1. PICK place : Moves(t, place)
    BY <1>5, ErrorMoves DEF Error
  <2>2. at'[t] \notin Busy
    BY <1>5, ErrorAside DEF Error, Aside
  <2>3. QED
    BY <1>4, <1>5, <2>1, <2>2, ErrorSetEffect DEF Busy
<1>6. ASSUME WorkerAcknowledge PROVE ReaderInv'
  <2>1. PICK place : Moves("worker", place)
    BY <1>6, WorkerMoves DEF WorkerStep
  <2>2. at'["worker"] \notin Busy
    BY <1>6, WorkerAside DEF WorkerStep, Aside
  <2>3. QED
    BY <1>4, <1>6, <2>1, <2>2, ThreadNames, WorkerAcknowledgeEffect DEF Busy, RecvStorageChanges
<1>7. ASSUME RecvSequential PROVE ReaderInv'
  <2>1. PICK place : Moves("listener", place)
    BY <1>7, ListenerMoves DEF ListenerStep
  <2>2. at'["listener"] \notin Busy \/ Goto("listener", "release")
    BY <1>7, ThreadNames, CalledAside, PanicAside DEF RecvSequential, RecvError
  <2>3. at'["listener"] \notin {"read_state", "read_pop"}
    BY <2>2, ThreadNames, GoneTo DEF Busy
  <2>4. QED
    BY <1>4, <1>7, <2>1, <2>3, ThreadNames, RecvSequentialEffect DEF RecvStorageChanges
<1>8. ASSUME ArriveSequential PROVE ReaderInv'
  <2>1. PICK place : Moves("listener", place)
    BY <1>8, ListenerMoves DEF ListenerArrive
  <2>2. at'["listener"] = "recv_sequential" /\ UNCHANGED stream
    BY <1>8, ThreadNames, GoneTo DEF ArriveSequential
  <2>3. QED
    BY <1>4, <2>1, <2>2, ThreadNames
<1>9. CASE ~ Receives
  BY <1>4, <1>9, OthersRead DEF ReadSideKept
<1>10. QED
  BY <1>1, <1>2, <1>3, <1>5, <1>6, <1>7, <1>8, <1>9 DEF Receives

\* A listener that is left behind by an error stays so while there is none.
LEMMA ListenerLags ==
  ASSUME TypeOK, LockInv, FrameInv, Next, Ok, at["listener"] \in Lagging,
         ~ RecvSequential, ~ ErrorSet("listener")
  PROVE  at'["listener"] \in Lagging
<1> DEFINE r == "listener"
<1>1. r \in Threads /\ r \notin Handles /\ r # "worker"
  BY ThreadNames
<1>2. ASSUME NEW t, NEW place, Moves(t, place), t # r PROVE at'[r] \in Lagging
  BY <1>1, <1>2, MovesOnly
<1>3. ASSUME NEW t \in Threads, Step(t), t # r PROVE at'[r] \in Lagging
  BY <1>2, <1>3, ErrorMoves, DropMoves, PanicMoves, WriteMoves, FinishMoves, ReadMoves,
     WorkerMoves, ListenerMoves DEF Step, HandleStep
<1>4. ASSUME NEW place \in Lagging, Goto(r, place) PROVE at'[r] \in Lagging
  BY <1>1, <1>4, GoneTo
<1>5. CASE Step(r)
  <2>1. at[r] \notin {"error_reset", "drop", "recv_acknowledge", "release"}
    BY DEF Lagging
  <2>2. CASE Error(r)
    <3>1. ErrorCheck(r) \/ ErrorLock(r)
      BY <2>1, <2>2, FromFree DEF Error, ErrorReset
    <3>2. Goto(r, "error_conn") \/ Goto(r, "error_send") \/ Goto(r, "error_recv")
      BY <3>1 DEF ErrorCheck, ErrorLock
    <3>3. QED
      BY <1>4, <3>2 DEF Lagging
  <2>3. CASE PanicOnPoison(r)
    <3>1. Goto(r, "panicked") /\ "panicked" \in Lagging
      BY <2>3 DEF PanicOnPoison, Panic, Lagging
    <3>2. QED
      BY <1>4, <3>1
  <2>4. QED
    BY <1>1, <1>5, <2>1, <2>2, <2>3, FromFree
    DEF Step, Drop, ListenerStep, RecvAcknowledge, RecvReturn
<1>6. ASSUME NEW h \in Handles, NewCall(h) PROVE at'[r] \in Lagging
  <2>1. h # r
    BY <1>1
  <2>2. QED
    BY <1>2, <1>6, <2>1, CallMoves
<1>7. ~ ListenerArrive
  <2>1. at[r] # "idle"
    BY DEF Lagging
  <2>2. QED
    BY <2>1 DEF ListenerArrive, ArriveError, ArriveAcknowledge, ArriveSequential, Arrive
<1>8. QED
  BY <1>3, <1>5, <1>6, <1>7 DEF Next

\* A step that leaves the listener, the state of the stream and the numbers
\* in the storage as they are.
LEMMA SamePosition ==
  ASSUME TypeOK, NEW w, Represented(w), InArrival(w), InStep(w),
         at'["listener"] = at["listener"], frame'["listener"] = frame["listener"],
         net'.arrived = net.arrived, stream'.conn_state = stream.conn_state,
         stream'.recv_storage.window = stream.recv_storage.window,
         stream'.recv_storage.lower_bound = stream.recv_storage.lower_bound,
         stream'.recv_storage.segments = stream.recv_storage.segments
  PROVE  Represented(w)' /\ InArrival(w)' /\ InStep(w)'
<1> DEFINE f == SentUpTo(net.arrived)
           r == stream.recv_storage
<1>1. f' = f
  BY DEF SentUpTo
<1>2. ASSUME NEW l, Represents(r, Start, w, l, f)
      PROVE  Represents(stream'.recv_storage, Start, w, l, f)
  <2> HIDE DEF f
  <2>1. QED
    BY <1>2, SameRepresentation
<1> HIDE DEF f
<1>3. Represented(w)'
  BY <1>1, <1>2 DEF Represented, Ok, f
<1>4. InArrival(w)' /\ InStep(w)'
  BY DEF InArrival, InStep, Ok
<1>5. QED
  BY <1>3, <1>4

LEMMA OthersDelivery ==
  ASSUME TypeOK, LockInv, FrameInv, DeliveryInv, Next, ~ Receives
  PROVE  DeliveryInv'
<1>1. PICK k \in 0 .. Len(PeerStream), w \in 1 .. Len(PeerStream) + 1 :
        k < w /\ Delivered(k, w) /\ Represented(w) /\ InArrival(w) /\ InStep(w)
  BY DEF DeliveryInv
<1>2. ReadSideKept /\ net'.arrived = net.arrived
  BY OthersRead
<1>3. PICK t \in Threads : /\ Moves(t, at'[t])
                           /\ at'[t] \notin {"read_state", "read_pop", "recv_sequential"}
                           /\ t = "listener" => Aside(t)
  BY OthersRead
<1>4. Delivered(k, w)'
  BY <1>1, <1>2 DEF Delivered, ReadSideKept
<1>5. CASE t # "listener"
  <2>1. at'["listener"] = at["listener"] /\ frame'["listener"] = frame["listener"]
    BY <1>3, <1>5, MovesOnly, ThreadNames
  <2>2. Represented(w)' /\ InArrival(w)' /\ InStep(w)'
    BY <1>1, <1>2, <2>1, SamePosition DEF ReadSideKept
  <2>3. QED
    BY <1>1, <1>4, <2>2 DEF DeliveryInv
<1>6. CASE t = "listener"
  <2>1. at'["listener"] # "recv_sequential"
    BY <1>3, <1>6
  <2>2. InArrival(w)'
    BY <2>1 DEF InArrival
  <2>3. Represented(w)'
    BY <1>1, <1>2 DEF Represented, ReadSideKept, Ok, SentUpTo
  <2>4. Ok /\ at["listener"] \in Lagging => at'["listener"] \in Lagging
    BY ListenerLags, ThreadNames DEF Receives
  <2>5. InStep(w)'
    BY <1>1, <1>2, <2>4 DEF InStep, ReadSideKept, Ok
  <2>6. QED
    BY <1>1, <1>4, <2>2, <2>3, <2>5 DEF DeliveryInv
<1>7. QED
  BY <1>5, <1>6

\* The segments between two positions, and the one at the front of them.
LEMMA FrontOfQueue ==
  ASSUME NEW k \in 0 .. Len(PeerStream), NEW w \in 1 .. Len(PeerStream) + 1,
         SubSeq(PeerStream, k + 1, w - 1) # << >>
  PROVE  /\ k \in 0 .. Len(PeerStream) - 1 /\ k + 1 < w
         /\ Head(SubSeq(PeerStream, k + 1, w - 1)) = PeerStream[k + 1]
         /\ Tail(SubSeq(PeerStream, k + 1, w - 1)) = SubSeq(PeerStream, (k + 1) + 1, w - 1)
<1>1. k + 1 \in Int /\ w - 1 \in Int /\ Len(PeerStream) \in Nat
  BY PeerFacts
<1>2. ~ (w - 1 < k + 1)
  BY <1>1, SubSeqEmpty
<1>3. k + 1 \in 1 .. Len(PeerStream) /\ w - 1 \in k + 1 .. Len(PeerStream)
  BY <1>1, <1>2
<1> DEFINE m == k + 1
           n == w - 1
<1>4. /\ Head(SubSeq(PeerStream, m, n)) = PeerStream[m]
      /\ Tail(SubSeq(PeerStream, m, n)) = SubSeq(PeerStream, m + 1, n)
  <2>1. m \in 1 .. Len(PeerStream) /\ n \in m .. Len(PeerStream)
    BY <1>3
  <2> HIDE DEF m, n
  <2>2. QED
    BY <2>1, PeerFacts, HeadTailOfSubSeq
<1>5. QED
  BY <1>1, <1>3, <1>4

LEMMA ReadDelivered ==
  ASSUME TypeOK, NEW k \in 0 .. Len(PeerStream), NEW w \in 1 .. Len(PeerStream) + 1,
         k < w, Delivered(k, w), NEW h \in Handles, ReadPop(h)
  PROVE  \E n \in 0 .. Len(PeerStream) : n < w /\ Delivered(n, w)'
<1> DEFINE s == stream.recv_storage
           next == Head(s.pop_queue)
           g == hist.got
           b == stream.recv_buffer
           a == BytesOf(next)
<1>1. g \in Seq(Nat) /\ b \in Seq(Nat) /\ IsRecvStorage(s)
  BY FieldTypes
<1>2. CASE UNCHANGED << stream, hist >>
  BY <1>2 DEF Delivered
<1>3. ASSUME CanPop(s), stream'.recv_storage = AfterPop(s),
             stream'.recv_finished => stream.recv_finished \/ next = Finish,
             NEW x \in Seq(Nat), hist'.got = g \o x, stream'.recv_buffer \in Seq(Nat),
             x \o stream'.recv_buffer = b \o a
      PROVE  \E n \in 0 .. Len(PeerStream) : n < w /\ Delivered(n, w)'
  <2>1. s.pop_queue = SubSeq(PeerStream, k + 1, w - 1) /\ s.pop_queue # << >>
    BY <1>3 DEF Delivered, CanPop
  <2>2. /\ k \in 0 .. Len(PeerStream) - 1 /\ k + 1 < w /\ next = PeerStream[k + 1]
        /\ Tail(s.pop_queue) = SubSeq(PeerStream, (k + 1) + 1, w - 1)
    BY <2>1, FrontOfQueue
  <2>3. stream'.recv_storage.pop_queue = SubSeq(PeerStream, (k + 1) + 1, w - 1)
    BY <1>1, <1>3, <2>2, PopFields
  <2>4. Bytes(SubSeq(PeerStream, 1, k + 1)) = (g \o b) \o a
    BY <2>2, PeerBytesNext DEF Delivered
  <2>5. a \in Seq(Nat)
    BY <1>3, PopIsHead
  <2>6. hist'.got \o stream'.recv_buffer = (g \o b) \o a
    <3>1. PICK y : y = stream'.recv_buffer
      OBVIOUS
    <3>2. x \o y = b \o a /\ y \in Seq(Nat)
      BY <1>3, <3>1
    <3> HIDE DEF g, b, a
    <3>3. (g \o x) \o y = (g \o b) \o a
      <4>1. g \in Seq(Nat) /\ b \in Seq(Nat) /\ a \in Seq(Nat) /\ x \in Seq(Nat) /\ y \in Seq(Nat)
        BY <1>1, <1>3, <2>5, <3>2
      <4>2. x \o y = b \o a
        BY <3>2
      <4>3. (g \o x) \o y = g \o (x \o y)
        BY <4>1, Associative, Zenon
      <4>4. (g \o b) \o a = g \o (b \o a)
        BY <4>1, Associative, Zenon
      <4>5. QED
        BY <4>2, <4>3, <4>4, Zenon
    <3>4. QED
      BY <1>3, <3>1, <3>3
  <2>7. stream'.recv_finished => \E i \in 1 .. k + 1 : PeerStream[i] = Finish
    <3>1. k + 1 \in 1 .. k + 1 /\ 1 .. k \subseteq 1 .. k + 1
      BY PeerFacts
    <3>2. QED
      BY <1>3, <2>2, <3>1 DEF Delivered
  <2>8. Delivered(k + 1, w)'
    BY <2>3, <2>4, <2>6, <2>7 DEF Delivered
  <2>9. k + 1 \in 0 .. Len(PeerStream)
    BY <2>2, PeerFacts
  <2>10. QED
    BY <2>2, <2>8, <2>9
<1>4. ASSUME CanPop(s), next = Finish, stream'.recv_storage = AfterPop(s),
             hist'.got = g, stream'.recv_buffer = b
      PROVE  \E n \in 0 .. Len(PeerStream) : n < w /\ Delivered(n, w)'
  <2>1. a = << >> /\ << >> \in Seq(Nat)
    BY <1>4 DEF BytesOf, Finish
  <2>2. g \o << >> = g /\ << >> \o b = b /\ b \o << >> = b
    BY <1>1, ConcatEmptySeq
  <2>3. hist'.got = g \o << >> /\ << >> \o stream'.recv_buffer = b \o a
    BY <1>4, <2>1, <2>2
  <2>4. QED
    BY <1>1, <1>3, <1>4, <2>1, <2>3
<1>5. QED
  BY <1>2, <1>3, <1>4, ReadPopEffect

LEMMA ReadDelivery ==
  ASSUME TypeOK, LockInv, FrameInv, DeliveryInv, NEW h \in Handles,
         ReadHead(h) \/ ReadState(h) \/ ReadPop(h)
  PROVE  IsRecvStorage(stream'.recv_storage) /\ DeliveryInv'
<1>1. PICK k \in 0 .. Len(PeerStream), w \in 1 .. Len(PeerStream) + 1 :
        k < w /\ Delivered(k, w) /\ Represented(w) /\ InArrival(w) /\ InStep(w)
  BY DEF DeliveryInv
<1>2. IsRecvStorage(stream.recv_storage) /\ hist.got \in Seq(Nat)
  BY FieldTypes
<1>3. net' = net
  BY DEF ReadHead, ReadState, ReadPop, ReadReturn, ReadReturnBytes
<1>4. PICK place : Moves(h, place)
  BY ReadMoves
<1>5. at'["listener"] = at["listener"] /\ frame'["listener"] = frame["listener"]
  BY <1>4, MovesOnly, ThreadNames
<1>6. ASSUME NEW n \in 0 .. Len(PeerStream), n < w, Delivered(n, w)',
             stream'.conn_state = stream.conn_state,
             stream'.recv_storage.window = stream.recv_storage.window,
             stream'.recv_storage.lower_bound = stream.recv_storage.lower_bound,
             stream'.recv_storage.segments = stream.recv_storage.segments
      PROVE  DeliveryInv'
  <2>1. Represented(w)' /\ InArrival(w)' /\ InStep(w)'
    BY <1>1, <1>3, <1>5, <1>6, SamePosition
  <2>2. QED
    BY <1>6, <2>1 DEF DeliveryInv
<1>7. CASE UNCHANGED << stream, hist >>
  <2>1. Delivered(k, w)'
    BY <1>1, <1>7 DEF Delivered
  <2>2. QED
    BY <1>1, <1>2, <1>6, <1>7, <2>1
<1>8. CASE ReadHead(h)
  <2>1. /\ stream'.conn_state = stream.conn_state
        /\ stream'.recv_storage = stream.recv_storage
        /\ stream'.recv_finished = stream.recv_finished
    BY <1>8, ReadHeadEffect
  <2>2. ASSUME NEW x \in Seq(Nat), hist'.got = hist.got \o x, stream'.recv_buffer \in Seq(Nat),
               x \o stream'.recv_buffer = stream.recv_buffer
        PROVE  hist'.got \o stream'.recv_buffer = hist.got \o stream.recv_buffer
    <3>1. PICK y, b : y = stream'.recv_buffer /\ b = stream.recv_buffer
      OBVIOUS
    <3>2. hist.got \in Seq(Nat) /\ x \in Seq(Nat) /\ y \in Seq(Nat)
      BY <1>2, <2>2, <3>1
    <3>3. (hist.got \o x) \o y = hist.got \o (x \o y)
      BY <3>2, Associative, Zenon
    <3>4. QED
      BY <2>2, <3>1, <3>3
  <2>3. hist'.got \o stream'.recv_buffer = hist.got \o stream.recv_buffer
    BY <1>8, <2>2, ReadHeadEffect
  <2>4. Delivered(k, w)'
    BY <1>1, <2>1, <2>3 DEF Delivered
  <2>5. QED
    BY <1>1, <1>2, <1>6, <2>1, <2>4
<1>9. CASE ReadPop(h)
  <2>1. PICK n \in 0 .. Len(PeerStream) : n < w /\ Delivered(n, w)'
    BY <1>1, <1>9, ReadDelivered
  <2>2. /\ stream'.conn_state = stream.conn_state
        /\ IsRecvStorage(stream'.recv_storage)
        /\ \/ UNCHANGED stream
           \/ CanPop(stream.recv_storage) /\ stream'.recv_storage = AfterPop(stream.recv_storage)
    BY <1>9, ReadPopEffect
  <2>3. /\ stream'.recv_storage.window = stream.recv_storage.window
        /\ stream'.recv_storage.lower_bound = stream.recv_storage.lower_bound
        /\ stream'.recv_storage.segments = stream.recv_storage.segments
    BY <1>2, <2>2, PopFields
  <2>4. QED
    BY <1>6, <2>1, <2>2, <2>3
<1>10. QED
  BY <1>7, <1>8, <1>9 DEF ReadState

LEMMA ErrorDelivery ==
  ASSUME TypeOK, LockInv, FrameInv, DeliveryInv, NEW t \in Threads, ErrorSet(t)
  PROVE  IsRecvStorage(stream'.recv_storage) /\ DeliveryInv'
<1>1. PICK k \in 0 .. Len(PeerStream), w \in 1 .. Len(PeerStream) + 1 :
        k < w /\ Delivered(k, w) /\ Represented(w) /\ InArrival(w) /\ InStep(w)
  BY DEF DeliveryInv
<1> DEFINE s == stream.recv_storage
<1>2. /\ IsRecvStorage(stream'.recv_storage)
      /\ stream'.conn_state = frame[t].code /\ stream'.recv_storage = RecvClear(s)
      /\ stream'.recv_buffer = stream.recv_buffer
      /\ stream'.recv_finished = stream.recv_finished
      /\ hist' = hist /\ net'.arrived = net.arrived
  BY ErrorSetEffect
<1>3. ~ Ok'
  <2>1. at[t] = "error_recv"
    BY FromFree DEF ErrorSet
  <2>2. QED
    BY <1>2, <2>1 DEF FrameInv, FrameOK, Ok
<1>4. /\ stream'.recv_storage.segments = << >>
      /\ stream'.recv_storage.window = s.window
      /\ stream'.recv_storage.pop_queue = s.pop_queue
  BY <1>2, FieldTypes DEF RecvClear, IsRecvStorage
<1>5. Delivered(k, w)'
  BY <1>1, <1>2, <1>4 DEF Delivered
<1>6. Represented(w)' /\ InStep(w)'
  BY <1>3 DEF Represented, InStep
<1>7. InArrival(w)'
  <2> SUFFICES ASSUME at'["listener"] = "recv_sequential" PROVE InArrival(w)'
    BY DEF InArrival
  <2>1. PICK place : Moves(t, place)
    BY ErrorMoves DEF Error
  <2>2. at'[t] \notin Busy
    BY ErrorAside DEF Error, Aside
  <2>3. /\ at["listener"] = "recv_sequential"
        /\ frame'["listener"] = frame["listener"]
    BY <2>1, <2>2, MovesOnly, ThreadNames DEF Busy
  <2>4. s.window = Wrap(Start + w)
    BY <1>1, <2>3 DEF InArrival, Represented, Represents
  <2>5. QED
    BY <1>1, <1>2, <1>4, <2>3, <2>4 DEF InArrival
<1>8. QED
  BY <1>1, <1>2, <1>5, <1>6, <1>7 DEF DeliveryInv

LEMMA WorkerDelivery ==
  ASSUME TypeOK, LockInv, FrameInv, DeliveryInv, WorkerAcknowledge
  PROVE  IsRecvStorage(stream'.recv_storage) /\ DeliveryInv'
<1>1. PICK k \in 0 .. Len(PeerStream), w \in 1 .. Len(PeerStream) + 1 :
        k < w /\ Delivered(k, w) /\ Represented(w) /\ InArrival(w) /\ InStep(w)
  BY DEF DeliveryInv
<1>2. PICK elapsed \in BOOLEAN :
        stream'.recv_storage = AfterPopAcknowledge(stream.recv_storage, elapsed)
  BY WorkerAcknowledgeEffect
<1>3. /\ IsRecvStorage(stream'.recv_storage)
      /\ stream'.recv_storage.pop_queue = stream.recv_storage.pop_queue
      /\ stream'.recv_storage.window = stream.recv_storage.window
      /\ stream'.recv_storage.lower_bound = stream.recv_storage.lower_bound
      /\ stream'.recv_storage.segments = stream.recv_storage.segments
  BY <1>2, FieldTypes, PopAcknowledgeFields
<1>4. RecvStorageChanges /\ net' = net
  BY WorkerAcknowledgeEffect DEF WorkerAcknowledge
<1>5. Delivered(k, w)'
  BY <1>1, <1>3, <1>4 DEF Delivered, RecvStorageChanges
<1>6. PICK place : Moves("worker", place)
  BY WorkerMoves DEF WorkerStep
<1>7. at'["listener"] = at["listener"] /\ frame'["listener"] = frame["listener"]
  BY <1>6, MovesOnly, ThreadNames
<1>8. Represented(w)' /\ InArrival(w)' /\ InStep(w)'
  BY <1>1, <1>3, <1>4, <1>7, SamePosition DEF RecvStorageChanges
<1>9. QED
  BY <1>1, <1>3, <1>5, <1>8 DEF DeliveryInv

\* A datagram of the peer is handed on: the storage is of the position at
\* which it arrives, or of the next.
LEMMA ArriveDelivery ==
  ASSUME TypeOK, LockInv, FrameInv, LeftInv, DeliveryInv, ArriveSequential
  PROVE  IsRecvStorage(stream'.recv_storage) /\ DeliveryInv'
<1>1. PICK k \in 0 .. Len(PeerStream), w \in 1 .. Len(PeerStream) + 1 :
        k < w /\ Delivered(k, w) /\ Represented(w) /\ InArrival(w) /\ InStep(w)
  BY DEF DeliveryInv
<1>2. /\ UNCHANGED << stream, hist >> /\ net.registered /\ at["listener"] = "idle"
      /\ Goto("listener", "recv_sequential")
  BY DEF ArriveSequential, Arrive
<1>3. PICK i \in {net.arrived, net.arrived + 1} \cap DOMAIN PeerStream :
        /\ Local("listener", [NoFrame EXCEPT !.seq_num = Plus(Start, i),
                                             !.variant = PeerStream[i]])
        /\ net' = [net EXCEPT !.arrived = i]
  BY DEF ArriveSequential
<1>4. /\ net.arrived \in 0 .. Len(PeerStream) /\ net'.arrived = i
      /\ i \in net.arrived .. Len(PeerStream) /\ i \in DOMAIN PeerStream
  <2>1. net \in NetType /\ net.arrived \in 0 .. Len(PeerStream)
    BY DEF TypeOK, NetType
  <2>2. net'.arrived = i
    BY <1>3, <2>1 DEF NetType
  <2>3. QED
    BY <2>1, <2>2, PeerFacts
<1>5. Ok /\ Ok' /\ w = net.arrived + 1
  <2>1. Ok
    BY <1>2 DEF LeftInv
  <2>2. QED
    BY <1>1, <1>2, <2>1 DEF InStep, Lagging, Ok
<1>6. w \in {i, i + 1}
  BY <1>3, <1>4, <1>5
<1>7. /\ at'["listener"] = "recv_sequential"
      /\ frame'["listener"].seq_num = Plus(Start, i)
      /\ frame'["listener"].variant = PeerStream[i]
  BY <1>2, <1>3, ThreadNames, GoneTo DEF Local, NoFrame, TypeOK
<1>8. Delivered(k, w)' /\ IsRecvStorage(stream'.recv_storage)
  BY <1>1, <1>2, FieldTypes DEF Delivered
<1>9. Represented(w)'
  <2>1. PICK l : Represents(stream.recv_storage, Start, w, l, SentUpTo(net.arrived))
    BY <1>1, <1>5 DEF Represented
  <2>2. Represents(stream.recv_storage, Start, w, l, SentUpTo(i))
    BY <1>4, <2>1, RepresentsMore
  <2>3. SentUpTo(net.arrived)' = SentUpTo(i)
    BY <1>4 DEF SentUpTo
  <2>4. QED
    BY <1>2, <2>2, <2>3 DEF Represented
<1>10. InArrival(w)' /\ InStep(w)'
  <2>1. Plus(Start, i) = Wrap(Start + i)
    BY DEF Plus
  <2>2. InArrival(w)'
    BY <1>4, <1>5, <1>6, <1>7, <2>1 DEF InArrival
  <2>3. InStep(w)'
    BY <1>4, <1>6, <1>7 DEF InStep, Lagging
  <2>4. QED
    BY <2>2, <2>3
<1>11. QED
  BY <1>1, <1>8, <1>9, <1>10 DEF DeliveryInv

\* The queue with the segment at its end.
LEMMA QueueLonger ==
  ASSUME NEW k \in 0 .. Len(PeerStream), NEW i \in 1 .. Len(PeerStream), k < i
  PROVE  SubSeq(PeerStream, k + 1, i - 1) \o << PeerStream[i] >> =
           SubSeq(PeerStream, k + 1, (i + 1) - 1)
<1> DEFINE m == k + 1
<1>1. m \in 1 .. Len(PeerStream) /\ i \in m .. Len(PeerStream) /\ (i + 1) - 1 = i
  BY PeerFacts
<1> HIDE DEF m
<1>2. SubSeq(PeerStream, m, i) = SubSeq(PeerStream, m, i - 1) \o << PeerStream[i] >>
  BY <1>1, PeerFacts, SubSeqRecursiveSecond
<1>3. QED
  BY <1>1, <1>2 DEF m

\* What an accepted segment of the peer makes of the storage: with or without
\* an error, the position after it.
LEMMA SequentialTaken ==
  ASSUME TypeOK, NEW w, Represented(w), InArrival(w), at["listener"] = "recv_sequential",
         ~ RecvRejects(stream.recv_storage, frame["listener"].seq_num, frame["listener"].variant)
  PROVE  LET r == stream.recv_storage
             q == AfterRecv(r, frame["listener"].seq_num, frame["listener"].variant)
             i == net.arrived
         IN /\ IsRecvStorage(q)
            /\ q.pop_queue = IF w = i THEN r.pop_queue \o << PeerStream[i] >> ELSE r.pop_queue
            /\ Ok => \E h : Represents(q, Start, i + 1, h, SentUpTo(i))
<1> DEFINE r == stream.recv_storage
           i == net.arrived
           s == Wrap(Start + i)
           x == PeerStream[i]
           q == AfterRecv(r, s, x)
<1>1. /\ i \in 1 .. Len(PeerStream) /\ w \in {i, i + 1} /\ IsRecvStorage(r)
      /\ frame["listener"].seq_num = s /\ frame["listener"].variant = x
      /\ x \in SequentialSegment /\ i \in Nat /\ Start \in Int
      /\ Modulus \in Nat /\ Modulus >= 2
  BY PeerFacts, FieldTypes DEF InArrival
<1>2. CASE Ok
  <2>1. PICK l : Represents(r, Start, w, l, SentUpTo(i))
    BY <1>2 DEF Represented
  <2>2. /\ IsRecvStorage(q)
        /\ \E h : Represents(q, Start, i + 1, h, SentUpTo(i))
        /\ q.pop_queue = IF w = i THEN r.pop_queue \o << PeerStream[i] >> ELSE r.pop_queue
    <3> HIDE DEF i, r
    <3>1. ~ RecvRejects(r, Wrap(Start + i), PeerStream[i])
      BY <1>1 DEF r
    <3>2. QED
      BY <1>1, <2>1, <3>1, NextArrives
  <2>3. q = AfterRecv(r, frame["listener"].seq_num, frame["listener"].variant)
    BY <1>1
  <2> HIDE DEF q
  <2>4. QED
    BY <2>2, <2>3
<1>3. CASE ~ Ok
  <2>1. r.segments = << >> /\ r.window = Wrap(Start + w)
    BY <1>3 DEF InArrival
  <2>2. \A n : ~ Present(r, n)
    BY <2>1 DEF Present
  <2>3. Plus(s, 1) = Wrap(Start + (i + 1)) /\ s \in SeqNum
    <3>1. i \in Int /\ Start \in Int /\ 1 \in Int /\ Start + i \in Int
      BY <1>1
    <3> HIDE DEF i
    <3>2. Plus(s, 1) = Wrap(Start + (i + 1))
      BY <3>1, CountedNumbers
    <3>3. s \in SeqNum
      BY <3>1, WrapIsRemainder
    <3>4. QED
      BY <3>2, <3>3
  <2>4. Wrap(Start + (i + 1)) # Wrap(Start + i)
    <3> DEFINE y == Start + (i + 1)
               z == Start + i
    <3>1. y \in Int /\ z \in Int /\ y - z < Modulus /\ z - y < Modulus /\ y # z
      <4>1. i \in Nat /\ Start \in Int /\ Modulus \in Nat /\ Modulus >= 2
        BY <1>1
      <4> HIDE DEF i
      <4>2. QED
        BY <4>1
    <3> HIDE DEF y, z
    <3>2. Wrap(y) # Wrap(z)
      BY <3>1, WrapInjective
    <3>3. QED
      BY <3>2 DEF y, z
  <2>5. CASE w = i
    <3>1. s = r.window /\ ~ Present(r, s) /\ ~ Present(r, Plus(s, 1)) /\ Plus(s, 1) # s
      BY <2>1, <2>2, <2>3, <2>4, <2>5
    <3> HIDE DEF r, s, x
    <3>2. IsRecvStorage(q) /\ q.pop_queue = r.pop_queue \o << x >>
      BY <1>1, <3>1, TakesNext
    <3>3. QED
      BY <1>1, <1>3, <2>5, <3>2 DEF r, x
  <2>6. CASE w = i + 1
    <3>1. s # r.window /\ ~ Present(r, s) /\ w # i
      BY <1>1, <2>1, <2>2, <2>4, <2>6
    <3> HIDE DEF r, s, x
    <3>2. IsRecvStorage(q) /\ q.pop_queue = r.pop_queue
      BY <1>1, <2>3, <3>1, TakesOther
    <3>3. QED
      BY <1>1, <1>3, <3>1, <3>2 DEF r, x
  <2>7. QED
    BY <1>1, <2>5, <2>6
<1>4. QED
  BY <1>2, <1>3

LEMMA SequentialDelivery ==
  ASSUME TypeOK, LockInv, FrameInv, DeliveryInv, RecvSequential
  PROVE  IsRecvStorage(stream'.recv_storage) /\ DeliveryInv'
<1>1. PICK k \in 0 .. Len(PeerStream), w \in 1 .. Len(PeerStream) + 1 :
        k < w /\ Delivered(k, w) /\ Represented(w) /\ InArrival(w) /\ InStep(w)
  BY DEF DeliveryInv
<1> DEFINE i == net.arrived
           r == stream.recv_storage
           n == frame["listener"].seq_num
           x == frame["listener"].variant
<1>2. at["listener"] = "recv_sequential" /\ net' = net /\ IsRecvStorage(r)
  BY FromFree, FieldTypes DEF RecvSequential
<1>3. i \in 1 .. Len(PeerStream) /\ w \in {i, i + 1} /\ i \in Nat
  BY <1>1, <1>2, PeerFacts DEF InArrival
<1>4. CASE UNCHANGED << stream, hist >> /\ at'["listener"] \in {"error", "panicked"}
  <2>1. Delivered(k, w)' /\ Represented(w)'
    BY <1>1, <1>2, <1>4 DEF Delivered, Represented, Ok, SentUpTo
  <2>2. InArrival(w)' /\ InStep(w)'
    BY <1>2, <1>3, <1>4 DEF InArrival, InStep, Lagging
  <2>3. QED
    BY <1>1, <1>2, <1>4, <2>1, <2>2 DEF DeliveryInv
<1>5. CASE /\ ~ RecvRejects(r, n, x) /\ at'["listener"] = "release"
           /\ stream' = [stream EXCEPT !.recv_storage = AfterRecv(r, n, x)]
  <2>1. RecvStorageChanges /\ stream'.recv_storage = AfterRecv(r, n, x)
    <3> DEFINE q == AfterRecv(r, n, x)
    <3>1. stream' = [stream EXCEPT !.recv_storage = q] /\ hist' = hist
      BY <1>5 DEF RecvSequential
    <3> HIDE DEF q
    <3>2. RecvStorageChanges /\ stream'.recv_storage = q
      BY <3>1, RecvStorageIsSet
    <3>3. QED
      BY <3>2 DEF q
  <2>2. /\ IsRecvStorage(stream'.recv_storage)
        /\ stream'.recv_storage.pop_queue =
             IF w = i THEN r.pop_queue \o << PeerStream[i] >> ELSE r.pop_queue
        /\ Ok => \E h : Represents(stream'.recv_storage, Start, i + 1, h, SentUpTo(i))
    BY <1>1, <1>2, <1>5, <2>1, SequentialTaken
  <2>3. i + 1 \in 1 .. Len(PeerStream) + 1 /\ k < i + 1 /\ (w = i => k < i)
    BY <1>1, <1>3
  <2>4. stream'.recv_storage.pop_queue = SubSeq(PeerStream, k + 1, (i + 1) - 1)
    <3>1. CASE w = i
      <4>1. r.pop_queue = SubSeq(PeerStream, k + 1, i - 1)
        BY <1>1, <3>1 DEF Delivered
      <4>2. QED
        BY <1>3, <2>2, <2>3, <3>1, <4>1, QueueLonger
    <3>2. CASE w = i + 1
      <4>1. w # i
        BY <1>3, <3>2
      <4>2. QED
        BY <1>1, <2>2, <3>2, <4>1 DEF Delivered
    <3>3. QED
      BY <1>3, <3>1, <3>2
  <2>5. PICK v : v = i + 1
    OBVIOUS
  <2>6. Delivered(k, v)'
    BY <1>1, <2>1, <2>4, <2>5 DEF Delivered, RecvStorageChanges
  <2>7. Represented(v)'
    BY <1>2, <2>1, <2>2, <2>5 DEF Represented, RecvStorageChanges, Ok, SentUpTo
  <2>8. InArrival(v)' /\ InStep(v)'
    BY <1>2, <1>5, <2>5 DEF InArrival, InStep
  <2>9. QED
    BY <2>2, <2>3, <2>5, <2>6, <2>7, <2>8 DEF DeliveryInv
<1>6. \/ UNCHANGED stream /\ Goto("listener", "panicked")
      \/ UNCHANGED stream /\ Goto("listener", "error")
      \/ /\ ~ RecvRejects(r, n, x) /\ Goto("listener", "release")
         /\ stream' = [stream EXCEPT !.recv_storage = AfterRecv(r, n, x)]
  BY DEF RecvSequential, RecvError, CallError, Panic
<1>7. \A place : Goto("listener", place) => at'["listener"] = place
  BY ThreadNames, GoneTo
<1>8. hist' = hist
  BY DEF RecvSequential
<1>9. QED
  BY <1>4, <1>5, <1>6, <1>7, <1>8

LEMMA DeliveryStep ==
  ASSUME TypeOK, LockInv, FrameInv, LeftInv, DeliveryInv, Next
  PROVE  IsRecvStorage(stream'.recv_storage) /\ DeliveryInv'
<1>1. CASE ~ Receives
  BY <1>1, OthersDelivery, OthersRead, FieldTypes DEF ReadSideKept
<1>2. CASE Receives
  BY <1>2, ReadDelivery, ErrorDelivery, WorkerDelivery, ArriveDelivery, SequentialDelivery
  DEF Receives
<1>3. QED
  BY <1>1, <1>2

-----------------------------------------------------------------------------
(* A stream without an error: the send storage and its acknowledgements     *)

\* queue_sent holds the newest segments, all from some one on, and no
\* acknowledgement in hand is of more than it holds and the one before.
SentInv ==
  Ok => /\ SentIsRecent(stream.send_storage)
        /\ at["listener"] = "recv_acknowledge" =>
             Minus(stream.send_storage.next_unsent, frame["listener"].seq_num)
               \in 1 .. Len(stream.send_storage.queue_sent) + 1

\* The steps that change what SentInv speaks of.
Sends ==
  \/ \E h \in Handles : WritePush(h) \/ FinishPush(h)
  \/ \E t \in Threads : ErrorSet(t)
  \/ \E due \in BOOLEAN : WorkerPop(due)
  \/ RecvAcknowledge \/ ArriveAcknowledge

\* An acknowledgement is where it was, or there is none.
AckStays ==
  at'["listener"] = "recv_acknowledge" =>
    at["listener"] = "recv_acknowledge" /\ frame'["listener"] = frame["listener"]

\* Nobody but ArriveAcknowledge brings one.
LEMMA AckComes ==
  ASSUME TypeOK, LockInv, FrameInv, Next
  PROVE  AckStays \/ ArriveAcknowledge
<1>1. "listener" \in Threads /\ "worker" \in Threads /\ \A h \in Handles : h # "listener"
  BY ThreadNames
<1>2. ASSUME NEW t \in Threads, t # "listener", NEW place, Moves(t, place) PROVE AckStays
  BY <1>1, <1>2, MovesOnly DEF AckStays
<1>3. ASSUME NEW place, place # "recv_acknowledge", Goto("listener", place) PROVE AckStays
  BY <1>1, <1>3, GoneTo DEF AckStays
<1>4. frame["listener"].back # "recv_acknowledge" /\ "idle" # "recv_acknowledge"
  BY <1>1, FrameFields DEF Backs
<1>5. ASSUME Error("listener") \/ Drop("listener") \/ PanicOnPoison("listener") PROVE AckStays
  BY <1>3, <1>4, <1>5 DEF Error, ErrorCheck, ErrorLock, ErrorSet, ErrorReset, Drop, CallError,
     PanicOnPoison, Panic
<1>6. ASSUME ListenerStep PROVE AckStays
  BY <1>3, <1>6 DEF ListenerStep, RecvAcknowledge, RecvSequential, RecvReturn, RecvError,
     CallError, Panic, Release
<1>7. ASSUME ArriveError \/ ArriveSequential PROVE AckStays
  BY <1>3, <1>7 DEF ArriveError, ArriveSequential, CallError
<1>8. ASSUME NEW t \in Threads, Step(t) PROVE AckStays
  <2>1. CASE t = "listener"
    BY <1>1, <1>5, <1>6, <1>8, <2>1 DEF Step
  <2>2. CASE t # "listener"
    <3>1. \E place : Moves(t, place)
      BY <1>8, <2>2, ErrorMoves, DropMoves, PanicMoves, WriteMoves, FinishMoves, ReadMoves,
         WorkerMoves DEF Step, HandleStep
    <3>2. QED
      BY <1>2, <2>2, <3>1
  <2>3. QED
    BY <2>1, <2>2
<1>9. ASSUME NEW h \in Handles, NewCall(h) PROVE AckStays
  <2>1. h \in Threads /\ h # "listener" /\ \E place : Moves(h, place)
    BY <1>1, <1>9, ThreadNames, CallMoves
  <2>2. QED
    BY <1>2, <2>1
<1>10. QED
  BY <1>7, <1>8, <1>9 DEF Next, ListenerArrive

\* The other steps leave the send storage alone.
LEMMA SendStorageKept ==
  ASSUME TypeOK, FrameInv, Next, ~ Sends
  PROVE  stream'.send_storage = stream.send_storage
<1> DEFINE Kept == stream'.send_storage = stream.send_storage
<1>1. CASE UNCHANGED << stream, hist >>
  BY <1>1
<1>2. ASSUME NEW h \in Handles, WriteTake(h) \/ WriteDrain(h) \/ FinishReturn(h) PROVE Kept
  BY <1>2, WriteTakeEffect, WriteDrainEffect, FinishReturnEffect
<1>3. ASSUME NEW h \in Handles, ReadHead(h) \/ ReadPop(h) PROVE Kept
  BY <1>3, ReadHeadEffect, ReadPopEffect DEF WriteSideKept
<1>4. ASSUME WorkerAcknowledge \/ RecvSequential PROVE Kept
  BY <1>4, WorkerAcknowledgeEffect, RecvSequentialEffect DEF RecvStorageChanges, WriteSideKept
<1> HIDE DEF Kept
<1>5. ASSUME NEW t \in Threads, Acts(t) PROVE Kept
  BY <1>2, <1>3, <1>4, <1>5 DEF Acts, Sends
<1>6. QED
  BY <1>1, <1>5, ActsOrNot DEF Kept

\* A pushed segment waits behind what has been sent.
LEMMA PushKeepsRecent ==
  ASSUME NEW s \in SendStorageType, NEW segment \in SequentialSegment, SentIsRecent(s)
  PROVE  SentIsRecent(AfterPush(s, segment))
<1> DEFINE q == AfterPush(s, segment)
<1>1. q.queue_sent = s.queue_sent /\ q.next_unsent = s.next_unsent
  BY PushFields
<1> HIDE DEF q
<1>2. SentIsRecent(q)
  BY <1>1, SameAges
<1>3. QED
  BY <1>2 DEF q

LEMMA PopKeepsRecent ==
  ASSUME NEW s \in SendStorageType, NEW due \in BOOLEAN, CanPopSegment(s, due), SentIsRecent(s)
  PROVE  LET q == AfterPopSegment(s, due) IN
         /\ SentIsRecent(q)
         /\ \A k \in SeqNum : Minus(s.next_unsent, k) \in 1 .. Len(s.queue_sent) + 1 =>
              Minus(q.next_unsent, k) \in 1 .. Len(q.queue_sent) + 1
<1>1. CASE RetransmitIsDue(s, due)
  <2> DEFINE q == AfterPopSegment(s, due)
  <2>1. s.queue_sent # << >> /\ due = TRUE
    BY <1>1 DEF RetransmitIsDue
  <2>2. /\ q.next_unsent = s.next_unsent /\ Len(q.queue_sent) = Len(s.queue_sent)
        /\ \A e : Holds(q.queue_sent, e) <=> Holds(s.queue_sent, e)
    BY <2>1, RotateFields
  <2> HIDE DEF q
  <2>3. SentIsRecent(q)
    BY <2>2, SameAges
  <2>4. QED
    BY <2>2, <2>3 DEF q
<1>2. CASE ~ RetransmitIsDue(s, due)
  <2>1. CanPopUnsent(s) /\ AfterPopSegment(s, due) = AfterPopSegment(s, FALSE)
    BY <1>2 DEF CanPopSegment, RetransmitIsDue, AfterPopSegment, PoppedSegment
  <2>2. WINDOW_SIZE > 1
    BY StreamInnerAssumption
  <2>3. QED
    BY <2>1, <2>2, TransmitRecent
<1>3. QED
  BY <1>1, <1>2

LEMMA ArrivingAck ==
  ASSUME TypeOK, SentInv, ArriveAcknowledge
  PROVE  SentInv'
<1> DEFINE s == stream.send_storage
<1>1. s \in SendStorageType /\ "listener" \in Threads /\ stream' = stream
  BY FieldTypes, ThreadNames DEF ArriveAcknowledge
<1>2. s.next_unsent \in SeqNum /\ s.queue_sent \in Seq(SentSegment)
  BY <1>1 DEF SendStorageType
<1>3. PICK k \in 0 .. Len(s.queue_sent) :
        Local("listener", [NoFrame EXCEPT !.seq_num = Minus(s.next_unsent, k + 1)])
  BY DEF ArriveAcknowledge
<1> DEFINE f == [NoFrame EXCEPT !.seq_num = Minus(s.next_unsent, k + 1)]
<1>4. frame'["listener"] = f /\ f.seq_num = Minus(s.next_unsent, k + 1)
  BY <1>1, <1>3 DEF Local, TypeOK, NoFrame
<1> HIDE DEF f, s
<1>5. ASSUME Ok, SentIsRecent(s) PROVE Minus(s.next_unsent, f.seq_num) \in 1 .. Len(s.queue_sent) + 1
  <2>1. /\ k + 1 \in 1 .. Len(s.queue_sent) + 1 /\ Len(s.queue_sent) <= WINDOW_SIZE
        /\ Len(s.queue_sent) \in Nat /\ k + 1 \in Int
    BY <1>2, <1>5 DEF SentIsRecent
  <2>2. k + 1 \in 0 .. Modulus - 1
    BY <2>1, SequenceNumberAssumption, StreamInnerAssumption
  <2>3. s.next_unsent \in Int
    BY <1>2, SequenceNumberAssumption DEF SeqNum
  <2> DEFINE n == s.next_unsent
             j == k + 1
  <2> HIDE DEF n, j
  <2>4. Minus(n, Wrap(n - j)) = Wrap(n - (n - j))
    <3>1. n \in Int /\ n - j \in Int
      BY <2>1, <2>3 DEF n, j
    <3>2. QED
      BY <3>1, MinusWrap
  <2>5. n - (n - j) = j /\ Wrap(j) = j
    BY <2>1, <2>2, <2>3, WrapSmall DEF n, j
  <2>6. Minus(n, f.seq_num) = j
    BY <1>4, <2>4, <2>5 DEF n, j, Minus
  <2>7. QED
    BY <2>1, <2>6 DEF n, j
<1>6. QED
  BY <1>1, <1>4, <1>5 DEF SentInv, Ok, s

LEMMA SentStep ==
  ASSUME TypeOK, LockInv, FrameInv, SentInv, Next
  PROVE  SentInv'
<1> SUFFICES ASSUME Ok', ~ ArriveAcknowledge PROVE SentInv'
  BY ArrivingAck DEF SentInv
<1> DEFINE s == stream.send_storage
           q == stream'.send_storage
           k == frame["listener"].seq_num
           Counted(x) == Minus(x.next_unsent, k) \in 1 .. Len(x.queue_sent) + 1
<1>1. Ok
  BY ErrorStays
<1>2. s \in SendStorageType /\ k \in SeqNum /\ "listener" \in Threads
  BY FieldTypes, FrameFields, ThreadNames DEF Frame
<1>3. AckStays
  BY AckComes
<1>4. SentIsRecent(s) /\ (at["listener"] = "recv_acknowledge" => Counted(s))
  BY <1>1 DEF SentInv
<1>5. ASSUME SentIsRecent(q), Counted(s) => Counted(q) PROVE SentInv'
  BY <1>3, <1>4, <1>5 DEF SentInv, AckStays
<1>6. CASE q = s
  BY <1>4, <1>5, <1>6
<1>7. ASSUME NEW segment \in SequentialSegment, q = AfterPush(s, segment) PROVE SentInv'
  <2>1. q.queue_sent = s.queue_sent /\ q.next_unsent = s.next_unsent
    BY <1>2, <1>7, PushFields
  <2>2. SentIsRecent(q)
    BY <1>2, <1>4, <1>7, PushKeepsRecent
  <2>3. QED
    BY <1>5, <2>1, <2>2
<1>8. ASSUME NEW h \in Handles, WritePush(h) \/ FinishPush(h) PROVE SentInv'
  <2>1. Finish \in SequentialSegment
    BY DEF SequentialSegment
  <2>2. QED
    BY <1>6, <1>7, <1>8, <2>1, WritePushEffect, FinishPushEffect
<1>9. ASSUME NEW t \in Threads, ErrorSet(t) PROVE FALSE
  <2>1. at[t] = "error_recv" /\ stream'.conn_state = frame[t].code
    BY <1>9, FromFree, ErrorSetEffect DEF ErrorSet
  <2>2. QED
    BY <2>1 DEF FrameInv, FrameOK, Ok
<1>10. ASSUME NEW due \in BOOLEAN, WorkerPop(due) PROVE SentInv'
  <2>1. ASSUME CanPopSegment(s, due), q = AfterPopSegment(s, due) PROVE SentInv'
    <3>1. SentIsRecent(q) /\ (Counted(s) => Counted(q))
      BY <1>2, <1>4, <2>1, PopKeepsRecent
    <3>2. QED
      BY <1>5, <3>1
  <2>2. QED
    BY <1>6, <1>10, <2>1, WorkerPopEffect
<1>11. CASE RecvAcknowledge
  <2>1. at["listener"] = "recv_acknowledge" /\ ~ at'["listener"] = "recv_acknowledge"
    <3>1. at["listener"] = "recv_acknowledge"
      BY <1>11, FromFree DEF RecvAcknowledge
    <3>2. Goto("listener", "error") \/ Goto("listener", "release")
      BY <1>11 DEF RecvAcknowledge, RecvError, CallError
    <3>3. QED
      BY <1>2, <3>1, <3>2, GoneTo
  <2>2. CASE q = s
    BY <1>6, <2>2
  <2>3. CASE ~ AckRejects(s, k) /\ q = AfterAcknowledge(s, k)
    <3>1. Minus(s.next_unsent, k) >= 1
      BY <1>4, <2>1
    <3>2. SentIsRecent(q)
      BY <1>2, <1>4, <2>3, <3>1, AcknowledgeRecent
    <3>3. QED
      BY <2>1, <3>2 DEF SentInv
  <2>4. QED
    BY <1>11, <2>2, <2>3, RecvAcknowledgeEffect
<1>12. QED
  BY <1>6, <1>8, <1>9, <1>10, <1>11, SendStorageKept DEF Sends

-----------------------------------------------------------------------------
(* A stream without an error: nobody has panicked                           *)

HealthyInv ==
  Ok => /\ \A t \in Threads : at[t] # "panicked"
        /\ \A l \in Locks : holder[l] # Poison

\* The steps in which a thread panics.
Panics ==
  \/ \E t \in Threads : PanicOnPoison(t)
  \/ WorkerIsWriteFinished /\ ~ Ok
  \/ /\ RecvSequential
     /\ RecvPanics(stream.recv_storage, frame["listener"].seq_num, frame["listener"].variant)
  \/ \E h \in Handles : (WritePush(h) \/ FinishPush(h)) /\ PushPanic(h)
  \/ (\E due \in BOOLEAN : WorkerPop(due)) /\ PopPanics(stream.send_storage)

\* Nothing is poisoned and nobody has panicked anew.
Unharmed ==
  /\ \A t \in Threads : at'[t] = "panicked" => at[t] = "panicked"
  /\ \A l \in Locks : holder'[l] = Poison => holder[l] = Poison

LEMMA PlainlyUnharmed ==
  ASSUME TypeOK, NEW t \in Threads, NEW place, place # "panicked", Goto(t, place),
         \/ holder' = holder
         \/ \E l : Take(t, l)
         \/ \E ls : Give(ls)
  PROVE  Unharmed
<1>1. \A u \in Threads : at'[u] = "panicked" => at[u] = "panicked"
  BY GoneTo
<1>2. \A l \in Locks : holder'[l] = Poison => holder[l] = Poison
  BY ThreadNames DEF Take, Give, TypeOK
<1>3. QED
  BY <1>1, <1>2 DEF Unharmed

LEMMA StepUnharmed ==
  ASSUME TypeOK, LockInv, FrameInv, Next, ~ Panics
  PROVE  Unharmed
<1>1. ASSUME NEW t \in Threads, NEW place, place # "panicked", Goto(t, place),
             \/ holder' = holder
             \/ \E l : Take(t, l)
             \/ \E ls : Give(ls)
      PROVE  Unharmed
  BY <1>1, PlainlyUnharmed
<1>2. \A t \in Threads : frame[t].back # "panicked" /\ frame[t].next # "panicked"
  BY FrameFields DEF Backs
<1>3. ASSUME NEW t \in Threads, Error(t) \/ Drop(t) PROVE Unharmed
  <2>1. CASE ErrorCheck(t) \/ ErrorReset(t) \/ ErrorSet(t)
    BY <1>1, <1>2, <2>1 DEF ErrorCheck, ErrorReset, ErrorSet
  <2>2. CASE ErrorLock(t)
    BY <1>1, <2>2 DEF ErrorLock
  <2>3. CASE Drop(t)
    BY <1>1, <1>2, <2>3 DEF Drop, CallError
  <2>4. QED
    BY <1>3, <2>1, <2>2, <2>3 DEF Error
<1>4. ASSUME NEW t \in Threads, NEW back \in Backs, Release(t, back), holder' = holder
      PROVE  Unharmed
  BY <1>1, <1>4 DEF Release, Backs
<1>5. ASSUME NEW h \in Handles, HandleStep(h) PROVE Unharmed
  <2>1. h \in Threads
    BY ThreadNames
  <2>2. CASE WriteTake(h) \/ WriteDrain(h)
    BY <1>1, <1>2, <2>1, <2>2 DEF WriteTake, WriteDrain
  <2>3. CASE FinishWait(h) \/ FinishReturn(h)
    BY <1>1, <2>1, <2>3 DEF FinishWait, FinishReturn
  <2>3a. CASE WritePush(h) \/ FinishPush(h)
    <3>1. ~ PushPanic(h)
      BY <2>3a DEF Panics
    <3>2. QED
      BY <1>1, <2>1, <2>3a, <3>1 DEF WritePush, FinishPush, CallError
  <2>4. CASE ReadHead(h) \/ ReadState(h) \/ ReadPop(h)
    BY <1>1, <2>1, <2>4 DEF ReadHead, ReadState, ReadPop, ReadReturn, ReadReturnBytes
  <2>5. QED
    BY <1>5, <2>2, <2>3, <2>3a, <2>4 DEF HandleStep
<1>6. ASSUME NEW h \in Handles, NewCall(h) PROVE Unharmed
  <2>1. h \in Threads /\ "gone" \in Backs
    BY ThreadNames DEF Backs
  <2>2. CASE CallWrite(h) \/ CallReset(h) \/ CallRead(h)
    BY <1>1, <2>1, <2>2 DEF CallWrite, CallReset, CallRead, CallError
  <2>3. CASE CallDrop(h)
    BY <1>4, <2>1, <2>3 DEF CallDrop
  <2>4. QED
    BY <1>6, <2>2, <2>3 DEF NewCall
<1>7. ASSUME WorkerStep PROVE Unharmed
  <2>1. "worker" \in Threads /\ "done" \in Backs /\ "upgrade" \in Backs
    BY ThreadNames DEF Backs
  <2>2. ASSUME WorkerQuit PROVE Unharmed
    BY <1>4, <2>1, <2>2 DEF WorkerQuit
  <2>3. CASE WorkerUpgrade \/ WorkerSend
    BY <1>1, <2>1, <2>3 DEF WorkerUpgrade, WorkerSend, WorkerSendError, CallError
  <2>4. CASE WorkerIsErr \/ WorkerReturn
    BY <1>1, <2>1, <2>2, <2>4 DEF WorkerIsErr, WorkerReturn
  <2>5. CASE WorkerIsWriteFinished
    BY <1>1, <2>1, <2>2, <2>5 DEF WorkerIsWriteFinished, Panics
  <2>6. CASE WorkerAcknowledge
    BY <1>1, <2>1, <2>6 DEF WorkerAcknowledge, WorkerSendError, CallError
  <2>7. ASSUME NEW due \in BOOLEAN, WorkerPop(due) PROVE Unharmed
    <3>1. ~ PopPanics(stream.send_storage)
      BY <2>7 DEF Panics
    <3>2. QED
      BY <1>1, <1>4, <2>1, <2>7, <3>1 DEF WorkerPop
  <2>8. QED
    BY <1>7, <2>3, <2>4, <2>5, <2>6, <2>7 DEF WorkerStep
<1>8. ASSUME ListenerStep \/ ListenerArrive PROVE Unharmed
  <2>1. "listener" \in Threads /\ "idle" \in Backs
    BY ThreadNames DEF Backs
  <2>2. CASE RecvAcknowledge
    BY <1>1, <2>1, <2>2 DEF RecvAcknowledge, RecvError, CallError
  <2>3. CASE RecvSequential
    <3>1. ~ RecvPanics(stream.recv_storage, frame["listener"].seq_num, frame["listener"].variant)
      BY <2>3 DEF Panics
    <3>2. QED
      BY <1>1, <2>1, <2>3, <3>1 DEF RecvSequential, RecvError, CallError
  <2>4. CASE RecvReturn
    BY <1>4, <2>1, <2>4 DEF RecvReturn
  <2>5. CASE ListenerArrive
    BY <1>1, <2>1, <2>5
    DEF ListenerArrive, ArriveError, ArriveAcknowledge, ArriveSequential, CallError
  <2>6. QED
    BY <1>8, <2>2, <2>3, <2>4, <2>5 DEF ListenerStep
<1>9. QED
  BY <1>3, <1>5, <1>6, <1>7, <1>8 DEF Next, Step, Panics

LEMMA HealthyStep ==
  ASSUME TypeOK, LockInv, FrameInv, DeliveryInv, SentInv, HealthyInv, Next
  PROVE  HealthyInv'
<1> SUFFICES ASSUME Ok' PROVE HealthyInv'
  BY DEF HealthyInv
<1>1. Ok /\ (\A t \in Threads : at[t] # "panicked") /\ (\A l \in Locks : holder[l] # Poison)
  BY ErrorStays DEF HealthyInv
<1>2. ASSUME NEW t \in Threads, PanicOnPoison(t) PROVE FALSE
  <2>1. \A place \in DOMAIN Needs : Needs[place] \in Locks
    BY DEF Needs, Locks
  <2>2. QED
    BY <1>1, <1>2, <2>1 DEF PanicOnPoison
<1>3. ASSUME RecvSequential,
             RecvPanics(stream.recv_storage, frame["listener"].seq_num, frame["listener"].variant)
      PROVE  FALSE
  <2> DEFINE i == net.arrived
             r == stream.recv_storage
  <2>1. PICK w \in 1 .. Len(PeerStream) + 1 : Represented(w) /\ InArrival(w)
    BY DEF DeliveryInv
  <2>2. at["listener"] = "recv_sequential" /\ IsRecvStorage(r)
    BY <1>3, FromFree, FieldTypes DEF RecvSequential
  <2>3. /\ i \in 1 .. Len(PeerStream) /\ w \in {i, i + 1}
        /\ frame["listener"].seq_num = Wrap(Start + i)
        /\ frame["listener"].variant = PeerStream[i]
    BY <2>1, <2>2, PeerFacts DEF InArrival
  <2>4. PICK l : Represents(r, Start, w, l, SentUpTo(i))
    BY <1>1, <2>1 DEF Represented
  <2>5. ~ RecvRejects(r, Wrap(Start + i), PeerStream[i])
    BY <1>3, <2>3 DEF RecvPanics
  <2>6. ~ RecvPanics(r, Wrap(Start + i), PeerStream[i])
    <3> HIDE DEF i, r
    <3>1. QED
      BY <2>2, <2>3, <2>4, <2>5, NextArrives
  <2>7. QED
    BY <1>3, <2>3, <2>6
<1>3a. ~ PushPanics(stream.send_storage) /\ ~ PopPanics(stream.send_storage)
  BY <1>1, FieldTypes, RecentDoesNotPanic DEF SentInv
<1>4. ~ Panics
  BY <1>1, <1>2, <1>3, <1>3a DEF Panics, PushPanic
<1>5. QED
  BY <1>1, <1>4, StepUnharmed DEF Unharmed, HealthyInv

-----------------------------------------------------------------------------
(* The theorems                                                             *)

\* The inductive invariant: the types; who holds which lock where, and what
\* threads have in their hands; the write side's bytes; the read side's
\* bytes; what has been sent and may be acknowledged; and that only a stream
\* in error has panicked or left `connections`.
IInv ==
  /\ TypeOK /\ LockInv /\ FrameInv
  /\ KnownInv /\ WrittenInv
  /\ LeftInv /\ ReaderInv /\ DeliveryInv
  /\ SentInv /\ HealthyInv

LEMMA NewStorages ==
  /\ SendNewByLocal(Start) \in SendStorageType /\ SendNewByPeer(Start) \in SendStorageType
  /\ \A r \in {RecvNewByLocal(Start), RecvNewByPeer(Start)} :
       /\ IsRecvStorage(r) /\ r.pop_queue = << >>
       /\ \E l : Represents(r, Start, 1, l, SentUpTo(0))
<1>1. /\ Start \in SeqNum /\ Plus(Start, 1) \in SeqNum /\ Wrap(Start + 0) = Start
      /\ Plus(Start, 1) = Wrap(Start + 1) /\ Accept \in SequentialSegment
      /\ Modulus \in Nat /\ Modulus >= 2 /\ WINDOW_SIZE \in Nat \ {0}
  <2>1. Start \in SeqNum /\ Start \in Int /\ Start + 0 = Start /\ 1 \in Int
    BY SequenceNumberAssumption DEF Start, SeqNum
  <2>2. Plus(Start, 1) \in SeqNum
    BY <2>1, ResultsAreSequenceNumbers
  <2>3. Wrap(Start) = Start
    BY <2>1, WrapSmall DEF SeqNum
  <2>4. Modulus \in Nat /\ Modulus >= 2 /\ WINDOW_SIZE \in Nat \ {0}
    BY SequenceNumberAssumption
  <2>5. QED
    BY <2>1, <2>2, <2>3, <2>4 DEF Plus, SequentialSegment
<1> DEFINE none == << >>
<1>2. /\ none \in Seq(SequentialSegment) /\ none \in Seq(SentSegment) /\ DOMAIN none = {}
      /\ none \in [DOMAIN none -> SequentialSegment]
      /\ << Accept >> \in Seq(SequentialSegment)
  BY <1>1
<1>3. SendNewByLocal(Start) \in SendStorageType /\ SendNewByPeer(Start) \in SendStorageType
  BY <1>1, <1>2 DEF SendNewByLocal, SendNewByPeer, SendStorageType
<1>4. DOMAIN SentUpTo(0) = 0 .. 0 /\ SentUpTo(0)[0] = Accept
  BY DEF SentUpTo
<1>5. ASSUME NEW r, r = RecvNewByPeer(Start)
      PROVE  /\ IsRecvStorage(r) /\ r.pop_queue = none
             /\ Represents(r, Start, 1, 1, SentUpTo(0))
  <2>1. r = [ segments |-> none, pop_queue |-> none, window |-> Plus(Start, 1),
              lower_bound |-> Plus(Start, 1), highest |-> Start,
              last_ack |-> None, urgent_ack |-> FALSE ]
    BY <1>5 DEF RecvNewByPeer
  <2> HIDE DEF none
  <2>2. IsRecvStorage(r)
    BY <1>1, <1>2, <2>1 DEF IsRecvStorage
  <2>3. Represents(r, Start, 1, 1, SentUpTo(0))
    BY <1>1, <1>2, <2>1 DEF Represents
  <2>4. QED
    BY <2>1, <2>2, <2>3
<1>6. ASSUME NEW r, r = RecvNewByLocal(Start)
      PROVE  /\ IsRecvStorage(r) /\ r.pop_queue = none
             /\ Represents(r, Start, 1, 0, SentUpTo(0))
  <2> DEFINE g == [k \in {Start} |-> Accept]
  <2>1. r = [ segments |-> g, pop_queue |-> none, window |-> Plus(Start, 1),
              lower_bound |-> Start, highest |-> Start,
              last_ack |-> None, urgent_ack |-> TRUE ]
    BY <1>6 DEF RecvNewByLocal
  <2>2. /\ g \in [DOMAIN g -> SequentialSegment] /\ DOMAIN g = {Start} /\ g[Start] = Accept
    BY <1>1
  <2> HIDE DEF none, g
  <2>3. IsRecvStorage(r)
    BY <1>1, <1>2, <2>1, <2>2 DEF IsRecvStorage
  <2>4. \A p \in 0 .. 1 - 1 : Present(r, Wrap(Start + p))
    <3>1. \A p \in 0 .. 1 - 1 : p = 0
      OBVIOUS
    <3>2. Present(r, Wrap(Start + 0))
      BY <1>1, <2>1, <2>2 DEF Present
    <3>3. QED
      BY <3>1, <3>2
  <2>5. 1 \in Nat /\ 0 \in 0 .. 1 /\ 1 - 0 < Modulus /\ 0 - 0 < Modulus /\ 0 < 1 + WINDOW_SIZE
    BY <1>1
  <2>6. r.window = Wrap(Start + 1) /\ r.lower_bound = Wrap(Start + 0)
    BY <1>1, <2>1
  <2>7. \A k \in DOMAIN r.segments :
          \E p \in DOMAIN SentUpTo(0) :
            /\ p >= 0 /\ p - 0 < Modulus
            /\ p # 1 /\ p < 1 + WINDOW_SIZE
            /\ k = Wrap(Start + p) /\ r.segments[k] = SentUpTo(0)[p]
    <3>1. 0 \in DOMAIN SentUpTo(0) /\ 0 >= 0 /\ 0 # 1
      BY <1>4
    <3>2. \A k \in DOMAIN r.segments : k = Wrap(Start + 0) /\ r.segments[k] = SentUpTo(0)[0]
      BY <1>1, <1>4, <2>1, <2>2
    <3>3. QED
      BY <2>5, <3>1, <3>2
  <2>8. Represents(r, Start, 1, 0, SentUpTo(0))
    BY <2>4, <2>5, <2>6, <2>7 DEF Represents
  <2>9. QED
    BY <2>1, <2>3, <2>8
<1>7. QED
  BY <1>3, <1>5, <1>6

LEMMA InitialInvariant == Init => IInv
<1> SUFFICES ASSUME Init PROVE IInv
  OBVIOUS
<1> DEFINE none == << >>
<1>1. PICK byLocal \in BOOLEAN :
        stream = [ conn_state    |-> "ok",
                   send_buffer   |-> << >>,
                   send_storage  |-> IF byLocal THEN SendNewByLocal(Start)
                                                ELSE SendNewByPeer(Start),
                   send_finished |-> FALSE,
                   recv_buffer   |-> << >>,
                   recv_storage  |-> IF byLocal THEN RecvNewByLocal(Start)
                                                ELSE RecvNewByPeer(Start),
                   recv_finished |-> FALSE ]
  BY DEF Init
<1>2. PICK s \in {SendNewByLocal(Start), SendNewByPeer(Start)},
           r \in {RecvNewByLocal(Start), RecvNewByPeer(Start)} :
        stream = [ conn_state |-> "ok", send_buffer |-> none, send_storage |-> s,
                   send_finished |-> FALSE, recv_buffer |-> none, recv_storage |-> r,
                   recv_finished |-> FALSE ]
  BY <1>1
<1>3. /\ s \in SendStorageType /\ IsRecvStorage(r) /\ r.pop_queue = none
      /\ \E l : Represents(r, Start, 1, l, SentUpTo(0))
  BY NewStorages
<1>4. /\ holder = [l \in Locks |-> Nobody] /\ owners = Handles
      /\ at = [t \in Threads |-> IF t = "worker" THEN "upgrade" ELSE "idle"]
      /\ frame = [t \in Threads |-> NoFrame]
      /\ net = [registered |-> TRUE, told |-> FALSE, arrived |-> 0]
      /\ calls = [h \in Handles |-> 0]
      /\ hist = [taken |-> 0, pushed |-> none, got |-> none]
  BY DEF Init
<1>5. /\ none \in Seq(Nat) /\ none \in Seq(1 .. MaxBytes) /\ none \in Seq(SequentialSegment)
      /\ Len(none) = 0 /\ none \o none = none /\ Bytes(none) = none
  BY BytesOfNone
<1> HIDE DEF none
<1>6. /\ stream.conn_state = "ok" /\ stream.send_buffer = none /\ stream.send_storage = s
      /\ stream.recv_buffer = none /\ stream.recv_storage = r /\ ~ stream.recv_finished
      /\ stream \in StreamOf(r)
  BY <1>2, <1>3, <1>5 DEF StreamOf, Codes
<1>7. \A t \in Threads : /\ at[t] \in {"upgrade", "idle"} /\ frame[t] = NoFrame
                         /\ at[t] \notin Keeping
  BY <1>4 DEF Keeping
<1>8. TypeOK
  <2>1. at \in [Threads -> Places]
    BY <1>4 DEF Places, Backs
  <2>2. frame \in [Threads -> Frame]
    BY <1>4, NoFrameType
  <2>3. /\ holder \in [Locks -> Threads \cup {Nobody, Poison}] /\ owners \subseteq Threads
    BY <1>4 DEF Threads
  <2>4. /\ calls \in [Handles -> 0 .. MaxCalls] /\ 0 \in 0 .. MaxBytes
        /\ 0 \in 0 .. Len(PeerStream)
    BY <1>4, StreamInnerAssumption, PeerFacts
  <2>5. /\ net \in [ registered : BOOLEAN, told : BOOLEAN, arrived : 0 .. Len(PeerStream) ]
        /\ hist \in [ taken : 0 .. MaxBytes, pushed : Seq(SequentialSegment), got : Seq(Nat) ]
    BY <1>4, <1>5, <2>4
  <2>6. QED
    BY <1>3, <1>6, <2>1, <2>2, <2>3, <2>4, <2>5 DEF TypeOK, StreamOf
<1>9. LockInv
  BY <1>4, <1>7, KeepsNone, ThreadNames DEF LockInv
<1>10. FrameInv
  BY <1>7, NoFrameType DEF FrameInv
<1>11. KnownInv
  BY <1>6, NewStorageEnters DEF KnownInv
<1>12. WrittenInv
  <2>1. InHand(none)
    BY <1>7, ThreadNames DEF InHand, none
  <2>2. (Bytes(hist.pushed) \o none) \o stream.send_buffer = none /\ hist.taken = 0
    BY <1>4, <1>5, <1>6
  <2>3. none = Numbered(0) /\ Ascending(none, 0)
    BY DEF none, Numbered, Ascending
  <2>4. Written(none)
    BY <2>2, <2>3 DEF Written
  <2>5. QED
    BY <1>5, <2>1, <2>4 DEF WrittenInv
<1>13. LeftInv /\ ReaderInv
  BY <1>4, <1>6, <1>7 DEF LeftInv, ReaderInv, Ok, none
<1>14. DeliveryInv
  <2>1. 0 \in 0 .. Len(PeerStream) /\ 1 \in 1 .. Len(PeerStream) + 1
    BY PeerFacts
  <2>2. SubSeq(PeerStream, 0 + 1, 1 - 1) = none /\ SubSeq(PeerStream, 1, 0) = none
    BY SubSeqEmpty DEF none
  <2>3. Delivered(0, 1)
    BY <1>3, <1>4, <1>5, <1>6, <2>2 DEF Delivered
  <2>4. net.arrived = 0 /\ at["listener"] = "idle"
    BY <1>4, ThreadNames
  <2>5. Represented(1) /\ InArrival(1) /\ InStep(1)
    BY <1>3, <1>6, <2>4 DEF Represented, InArrival, InStep
  <2>6. QED
    BY <2>1, <2>3, <2>5 DEF DeliveryInv
<1>15. HealthyInv
  BY <1>4, <1>7, ThreadNames DEF HealthyInv
<1>16. SentInv
  <2>1. s.queue_sent = none
    BY DEF SendNewByLocal, SendNewByPeer, none
  <2>2. SentIsRecent(s)
    BY <2>1, EmptyIsRecent DEF none
  <2>3. at["listener"] = "idle"
    BY <1>4, ThreadNames
  <2>4. QED
    BY <1>6, <2>2, <2>3 DEF SentInv
<1>17. QED
  BY <1>8, <1>9, <1>10, <1>11, <1>12, <1>13, <1>14, <1>15, <1>16 DEF IInv

LEMMA NextInvariant == IInv /\ [Next]_vars => IInv'
<1> SUFFICES ASSUME IInv, [Next]_vars PROVE IInv'
  OBVIOUS
<1>1. /\ TypeOK /\ LockInv /\ FrameInv /\ KnownInv /\ WrittenInv
      /\ LeftInv /\ ReaderInv /\ DeliveryInv /\ SentInv /\ HealthyInv
  BY DEF IInv
<1>2. CASE Next
  <2>1. IsRecvStorage(stream'.recv_storage) /\ DeliveryInv'
    BY <1>1, <1>2, DeliveryStep
  <2>2. TypeOK' /\ LockInv' /\ FrameInv'
    BY <1>1, <1>2, <2>1, TypeStep
  <2>3. KnownInv' /\ WrittenInv'
    BY <1>1, <1>2, KnownStep, WrittenStep
  <2>4. LeftInv' /\ ReaderInv' /\ SentInv' /\ HealthyInv'
    BY <1>1, <1>2, LeftStep, ReaderStep, SentStep, HealthyStep
  <2>5. QED
    BY <2>1, <2>2, <2>3, <2>4 DEF IInv
<1>3. CASE UNCHANGED vars
  <2>1. UNCHANGED << stream, holder, owners, at, frame, net, calls, hist >>
    BY <1>3 DEF vars
  <2>2. TypeOK' /\ LockInv' /\ FrameInv'
    BY <1>1, <2>1 DEF TypeOK, LockInv, FrameInv
  <2>3. KnownInv' /\ WrittenInv'
    BY <1>1, <2>1 DEF KnownInv, WrittenInv, InHand, Written
  <2>4. LeftInv' /\ ReaderInv' /\ SentInv' /\ HealthyInv'
    BY <1>1, <2>1 DEF LeftInv, ReaderInv, SentInv, HealthyInv, Ok
  <2>5. DeliveryInv'
    BY <1>1, <2>1
    DEF DeliveryInv, Delivered, Represented, InArrival, InStep, Ok, SentUpTo
  <2>6. QED
    BY <2>2, <2>3, <2>4, <2>5 DEF IInv
<1>4. QED
  BY <1>2, <1>3

\* In every state of every behaviour, whatever the threads of an endpoint do
\* in whichever order.
THEOREM Invariance == Spec => []IInv
<1>1. Init => IInv
  BY InitialInvariant
<1>2. IInv /\ [Next]_vars => IInv'
  BY NextInvariant
<1>3. QED
  BY <1>1, <1>2, PTL DEF Spec

\* Every field of the stream, every lock and every local variable of a thread
\* keeps its type.
THEOREM TypeCorrect == Spec => []TypeOK
<1>1. IInv => TypeOK
  BY DEF IInv
<1>2. QED
  BY <1>1, Invariance, PTL

\* No threads of an endpoint ever wait for each other's locks in a circle:
\* error, read, write and recv_segment take them in one order.
THEOREM NoDeadlock == Spec => []NoLockCycle
<1>1. IInv => NoLockCycle
  BY NoCircle DEF IInv
<1>2. QED
  BY <1>1, Invariance, PTL

\* Through however many handles, what write takes is pushed in the order in
\* which it was taken, and nothing is lost on the way.
THEOREM WritesInOrder == Spec => []WrittenInOrder
<1>1. IInv => WrittenInOrder
  BY WrittenIsInOrder DEF IInv
<1>2. QED
  BY <1>1, Invariance, PTL

\* Through however many handles, read returns the peer's bytes in order and
\* once, whatever the lengths of the buffers.
THEOREM ReadsInOrder == Spec => []ReadInOrder
<1>1. IInv => ReadInOrder
  BY ReadIsInOrder DEF IInv
<1>2. QED
  BY <1>1, Invariance, PTL

\* From a peer that sends nothing after FINISH, no bytes are left when read
\* has seen it.
THEOREM FinishEnds ==
  ASSUME PeerFinishesLast
  PROVE  Spec => []NothingAfterFinish
<1>1. IInv => NothingAfterFinish
  BY FinishIsLast DEF IInv
<1>2. QED
  BY <1>1, Invariance, PTL

\* As long as conn_state holds no error, no thread of the endpoint has panicked:
\* neither the unwraps of push, recv and the locks fail nor the assertion of
\* pop.  What panics is only what meets an error, or the storages it has cleared.
THEOREM HealthyWithoutError == Spec => []PanicsOnlyInError
<1>1. IInv => PanicsOnlyInError
  BY DEF IInv, HealthyInv, PanicsOnlyInError
<1>2. QED
  BY <1>1, Invariance, PTL
=============================================================================
