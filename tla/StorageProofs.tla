---------------------------- MODULE StorageProofs ---------------------------
(***************************************************************************)
(* Facts about the operators of SendStorage and of RecvStorage.            *)
(***************************************************************************)
EXTENDS SendStorage, RecvStorage, SequenceNumberProofs, FiniteSetTheorems

-----------------------------------------------------------------------------
(* SendStorage                                                              *)

LEMMA CountUpTo ==
  ASSUME NEW n \in Nat
  PROVE  IsFiniteSet(1 .. n) /\ Cardinality(1 .. n) = n
<1>1. Cardinality(1 .. n) = IF 1 > n THEN 0 ELSE n - 1 + 1
  BY FS_Interval
<1>2. QED
  BY <1>1, FS_Interval

\* Retain(q, K) is made of the elements of q at the positions K, of all of
\* them, and of nothing else.
LEMMA RetainElements ==
  ASSUME NEW T, NEW q \in Seq(T), NEW K \in SUBSET DOMAIN q
  PROVE  /\ Retain(q, K) \in Seq(T)
         /\ Len(Retain(q, K)) <= Len(q)
         /\ \A j \in DOMAIN Retain(q, K) : \E i \in K : Retain(q, K)[j] = q[i]
         /\ \A i \in K : Holds(Retain(q, K), q[i])
<1> DEFINE Below(i) == {k \in K : k <= i}
           Rank == [i \in K |-> Cardinality(Below(i))]
           n == Cardinality(K)
           At(j) == CHOOSE i \in K : Cardinality(Below(i)) = j
<1>1. /\ IsFiniteSet(K) /\ n \in Nat /\ n <= Len(q) /\ K \subseteq 1 .. Len(q)
  <2>1. DOMAIN q = 1 .. Len(q) /\ Len(q) \in Nat
    OBVIOUS
  <2>2. IsFiniteSet(1 .. Len(q)) /\ Cardinality(1 .. Len(q)) = Len(q)
    BY <2>1, CountUpTo
  <2>3. QED
    BY <2>1, <2>2, FS_Subset, FS_CardinalityType
<1>2. ASSUME NEW i \in K
      PROVE  /\ IsFiniteSet(Below(i))
             /\ Cardinality(Below(i)) \in 1 .. n
  <2>1. Below(i) \in SUBSET K
    OBVIOUS
  <2>2. IsFiniteSet(Below(i)) /\ Cardinality(Below(i)) <= n
    BY <2>1, <1>1, FS_Subset
  <2>3. i \in Below(i)
    BY <1>1
  <2>4. Cardinality(Below(i)) # 0 /\ Cardinality(Below(i)) \in Nat
    BY <2>2, <2>3, FS_EmptySet, FS_CardinalityType
  <2>5. QED
    BY <2>2, <2>4, <1>1
<1>3. ASSUME NEW i \in K, NEW h \in K, i < h
      PROVE  Cardinality(Below(i)) # Cardinality(Below(h))
  <2>1. Below(i) \in SUBSET Below(h)
    BY <1>1, <1>3
  <2>2. h \in Below(h) /\ h \notin Below(i)
    BY <1>1, <1>3
  <2>3. QED
    BY <2>1, <2>2, <1>2, FS_Subset
<1>4. ASSUME NEW i \in K, NEW h \in K, Cardinality(Below(i)) = Cardinality(Below(h))
      PROVE  i = h
  <2>1. ~ (i < h)
    BY <1>3, <1>4
  <2>2. ~ (h < i)
    BY <1>3, <1>4
  <2>3. i \in Int /\ h \in Int
    BY <1>1
  <2>4. QED
    BY <2>1, <2>2, <2>3
<1>5. Rank \in Injection(K, 1 .. n)
  <2>1. Rank \in [K -> 1 .. n]
    BY <1>2
  <2>2. \A i, h \in K : Rank[i] = Rank[h] => i = h
    BY <1>4
  <2>3. QED
    BY <2>1, <2>2 DEF Injection, IsInjective
<1>6. Rank \in Surjection(K, 1 .. n)
  <2>1. IsFiniteSet(1 .. n) /\ Cardinality(1 .. n) = n
    BY <1>1, CountUpTo
  <2>2. QED
    BY <2>1, <1>5, FS_Injection
<1>7. ASSUME NEW j \in 1 .. n
      PROVE  At(j) \in K /\ Cardinality(Below(At(j))) = j
  <2>1. \E i \in K : Rank[i] = j
    BY <1>6 DEF Surjection
  <2>2. \E i \in K : Cardinality(Below(i)) = j
    BY <2>1
  <2>3. QED
    BY <2>2
<1>8. Retain(q, K) = [j \in 1 .. n |-> q[At(j)]]
  BY DEF Retain
<1> HIDE DEF Below, Rank, n, At
<1>9. \A i \in K : q[i] \in T
  BY <1>1
<1>10. Retain(q, K) \in [1 .. n -> T]
  BY <1>7, <1>8, <1>9
<1>11. Retain(q, K) \in Seq(T) /\ Len(Retain(q, K)) = n
       /\ DOMAIN Retain(q, K) = 1 .. n
  BY <1>1, <1>10
<1>12. \A i \in K : At(Cardinality(Below(i))) = i
  BY <1>2, <1>4, <1>7
<1>13. \A i \in K : \E j \in 1 .. n : Retain(q, K)[j] = q[i]
  BY <1>2, <1>8, <1>12
<1>14. QED
  BY <1>1, <1>7, <1>8, <1>11, <1>13 DEF Holds

\* Different elements at different places: a queue that holds them all is at
\* least as long as they are many.
LEMMA QueueHoldsInterval ==
  ASSUME NEW T, NEW q \in Seq(T), NEW a \in Int, NEW b \in Int, NEW f,
         \A i, h \in a .. b : f[i] = f[h] => i = h,
         \A i \in a .. b : Holds(q, f[i])
  PROVE  b - a < Len(q) \/ b < a
<1> DEFINE Place == [i \in a .. b |-> CHOOSE j \in DOMAIN q : q[j] = f[i]]
<1>1. Len(q) \in Nat /\ DOMAIN q = 1 .. Len(q)
  OBVIOUS
<1>2. \A i \in a .. b : Place[i] \in DOMAIN q /\ q[Place[i]] = f[i]
  BY DEF Holds
<1> HIDE DEF Place
<1>3. Place \in [a .. b -> 1 .. Len(q)]
  BY <1>1, <1>2 DEF Place
<1>4. \A i, h \in a .. b : Place[i] = Place[h] => i = h
  BY <1>2
<1>5. Place \in Injection(a .. b, 1 .. Len(q))
  BY <1>3, <1>4 DEF Injection, IsInjective
<1>6. IsFiniteSet(1 .. Len(q)) /\ Cardinality(1 .. Len(q)) = Len(q)
  BY <1>1, CountUpTo
<1>7. Cardinality(a .. b) <= Len(q)
  BY <1>5, <1>6, FS_Injection
<1>8. Cardinality(a .. b) = IF a > b THEN 0 ELSE b - a + 1
  BY FS_Interval
<1>9. QED
  BY <1>1, <1>7, <1>8
\* Appending to a queue adds one element and keeps the others.
LEMMA AppendElements ==
  ASSUME NEW T, NEW q \in Seq(T), NEW e \in T
  PROVE  /\ Append(q, e) \in Seq(T) /\ Len(Append(q, e)) = Len(q) + 1
         /\ \A x : Holds(Append(q, e), x) <=> Holds(q, x) \/ x = e
<1>1. /\ Append(q, e) \in Seq(T) /\ Len(Append(q, e)) = Len(q) + 1
      /\ DOMAIN q = 1 .. Len(q) /\ Len(q) \in Nat
      /\ DOMAIN Append(q, e) = 1 .. Len(q) + 1
      /\ \A j \in 1 .. Len(q) : Append(q, e)[j] = q[j]
      /\ Append(q, e)[Len(q) + 1] = e
  OBVIOUS
<1>2. \A x : Holds(q, x) \/ x = e => Holds(Append(q, e), x)
  BY <1>1 DEF Holds
<1>3. \A x : Holds(Append(q, e), x) => Holds(q, x) \/ x = e
  BY <1>1 DEF Holds
<1>4. QED
  BY <1>1, <1>2, <1>3

\* Moving the front of a queue to its end changes none of its elements.
LEMMA RotateElements ==
  ASSUME NEW T, NEW q \in Seq(T), q # << >>
  PROVE  LET p == Append(Tail(q), Head(q)) IN
         /\ p \in Seq(T) /\ Len(p) = Len(q)
         /\ Head(q) \in T /\ Holds(q, Head(q))
         /\ \A x : Holds(p, x) <=> Holds(q, x)
<1>1. /\ Tail(q) \in Seq(T) /\ Len(Tail(q)) = Len(q) - 1 /\ Len(q) \in Nat \ {0}
      /\ Head(q) = q[1] /\ Head(q) \in T /\ DOMAIN q = 1 .. Len(q)
      /\ DOMAIN Tail(q) = 1 .. Len(q) - 1
      /\ \A j \in 1 .. Len(q) - 1 : Tail(q)[j] = q[j + 1]
  OBVIOUS
<1>2. \A x : Holds(q, x) => Holds(Tail(q), x) \/ x = Head(q)
  <2>1. SUFFICES ASSUME NEW j \in 1 .. Len(q), j # 1
                 PROVE  Holds(Tail(q), q[j])
    BY <1>1 DEF Holds
  <2>2. j - 1 \in 1 .. Len(q) - 1 /\ (j - 1) + 1 = j
    BY <1>1, <2>1
  <2>3. QED
    BY <1>1, <2>2 DEF Holds
<1>3. \A x : Holds(Tail(q), x) \/ x = Head(q) => Holds(q, x)
  <2>1. \A j \in 1 .. Len(q) - 1 : j + 1 \in 1 .. Len(q)
    BY <1>1
  <2>2. 1 \in 1 .. Len(q)
    BY <1>1
  <2>3. QED
    BY <1>1, <2>1, <2>2 DEF Holds
<1> DEFINE t == Tail(q)
           h == Head(q)
<1>4. t \in Seq(T) /\ h \in T /\ Len(t) + 1 = Len(q)
  BY <1>1
<1> HIDE DEF t, h
<1>5. /\ Append(t, h) \in Seq(T) /\ Len(Append(t, h)) = Len(q)
      /\ \A x : Holds(Append(t, h), x) <=> Holds(t, x) \/ x = h
  BY <1>4, AppendElements
<1>6. \A x : Holds(Append(t, h), x) <=> Holds(q, x)
  BY <1>2, <1>3, <1>5 DEF t, h
<1>7. Holds(q, h)
  BY <1>3 DEF h
<1>8. QED
  BY <1>4, <1>5, <1>6, <1>7 DEF t, h
-----------------------------------------------------------------------------
(* The records the methods leave.                                           *)

LEMMA ClearedSendType ==
  ASSUME NEW s \in SendStorageType
  PROVE  SendClear(s) \in SendStorageType
<1> DEFINE none == << >>
<1>1. none \in Seq(SentSegment) /\ none \in Seq(SequentialSegment)
  OBVIOUS
<1>2. SendClear(s) = [s EXCEPT !.queue_sent = none, !.queue_unsent = none]
  BY DEF SendClear
<1> HIDE DEF none
<1>3. QED
  BY <1>1, <1>2 DEF SendStorageType

LEMMA PushFields ==
  ASSUME NEW s \in SendStorageType, NEW segment \in SequentialSegment
  PROVE  LET q == AfterPush(s, segment) IN
         /\ q \in SendStorageType
         /\ q.queue_sent = s.queue_sent /\ q.next_unsent = s.next_unsent
         /\ q.queue_unsent = Append(s.queue_unsent, segment)
<1> DEFINE u == Append(s.queue_unsent, segment)
<1>1. u \in Seq(SequentialSegment)
  BY DEF SendStorageType
<1> HIDE DEF u
<1>2. AfterPush(s, segment) = [s EXCEPT !.queue_unsent = u]
  BY DEF AfterPush, u
<1>3. QED
  BY <1>1, <1>2 DEF SendStorageType, u

LEMMA RotateFields ==
  ASSUME NEW s \in SendStorageType, s.queue_sent # << >>
  PROVE  LET q == AfterPopSegment(s, TRUE) IN
         /\ q \in SendStorageType
         /\ q.queue_unsent = s.queue_unsent /\ q.next_unsent = s.next_unsent
         /\ PoppedSegment(s, TRUE) \in SentSegment
         /\ Holds(s.queue_sent, PoppedSegment(s, TRUE))
         /\ Len(q.queue_sent) = Len(s.queue_sent)
         /\ \A x : Holds(q.queue_sent, x) <=> Holds(s.queue_sent, x)
<1> DEFINE p == Append(Tail(s.queue_sent), Head(s.queue_sent))
<1>1. s.queue_sent \in Seq(SentSegment)
  BY DEF SendStorageType
<1>2. /\ p \in Seq(SentSegment) /\ Len(p) = Len(s.queue_sent)
      /\ Head(s.queue_sent) \in SentSegment
      /\ Holds(s.queue_sent, Head(s.queue_sent))
      /\ \A x : Holds(p, x) <=> Holds(s.queue_sent, x)
  BY <1>1, RotateElements
<1>3. AfterPopSegment(s, TRUE) = [s EXCEPT !.queue_sent = p]
      /\ PoppedSegment(s, TRUE) = Head(s.queue_sent)
  BY DEF AfterPopSegment, PoppedSegment, RetransmitIsDue
<1> HIDE DEF p
<1>4. QED
  BY <1>2, <1>3 DEF SendStorageType

LEMMA TransmitFields ==
  ASSUME NEW s \in SendStorageType, s.queue_unsent # << >>
  PROVE  LET q == AfterPopSegment(s, FALSE)
             entry == [ seq_num |-> s.next_unsent,
                        variant |-> Head(s.queue_unsent) ]
         IN
         /\ q \in SendStorageType
         /\ PoppedSegment(s, FALSE) = entry /\ entry \in SentSegment
         /\ q.queue_sent = Append(s.queue_sent, entry)
         /\ q.queue_unsent = Tail(s.queue_unsent)
         /\ q.next_unsent = Plus(s.next_unsent, 1)
<1> DEFINE entry == [ seq_num |-> s.next_unsent,
                      variant |-> Head(s.queue_unsent) ]
<1>1. /\ s.queue_sent \in Seq(SentSegment)
      /\ s.queue_unsent \in Seq(SequentialSegment)
      /\ s.next_unsent \in SeqNum
  BY DEF SendStorageType
<1>2. Head(s.queue_unsent) \in SequentialSegment
      /\ Tail(s.queue_unsent) \in Seq(SequentialSegment)
  BY <1>1
<1>3. entry \in SentSegment
  BY <1>1, <1>2 DEF SentSegment
<1>4. Append(s.queue_sent, entry) \in Seq(SentSegment)
  BY <1>1, <1>3
<1>5. Plus(s.next_unsent, 1) \in SeqNum
  <2>1. s.next_unsent \in Int /\ 1 \in Int
    BY <1>1, SequenceNumberAssumption DEF SeqNum
  <2>2. QED
    BY <2>1, ResultsAreSequenceNumbers
<1>6. PoppedSegment(s, FALSE) = entry
  BY DEF PoppedSegment, RetransmitIsDue
<1>7. AfterPopSegment(s, FALSE) =
        [ queue_sent   |-> Append(s.queue_sent, entry),
          queue_unsent |-> Tail(s.queue_unsent),
          next_unsent  |-> Plus(s.next_unsent, 1) ]
  BY <1>6 DEF AfterPopSegment, RetransmitIsDue
<1> DEFINE p == Append(s.queue_sent, entry)
           u == Tail(s.queue_unsent)
           n == Plus(s.next_unsent, 1)
           q == AfterPopSegment(s, FALSE)
<1>8. q = [queue_sent |-> p, queue_unsent |-> u, next_unsent |-> n]
  BY <1>7
<1>9. /\ p \in Seq(SentSegment) /\ u \in Seq(SequentialSegment)
      /\ n \in SeqNum
  BY <1>2, <1>4, <1>5
<1> HIDE DEF p, u, n, q
<1>10. /\ q \in SendStorageType
       /\ q.queue_sent = p /\ q.queue_unsent = u /\ q.next_unsent = n
  BY <1>8, <1>9 DEF SendStorageType
<1>11. QED
  BY <1>3, <1>6, <1>10 DEF p, u, n, q

LEMMA AcknowledgeFields ==
  ASSUME NEW s \in SendStorageType, NEW k
  PROVE  LET q == AfterAcknowledge(s, k) IN
         /\ q \in SendStorageType
         /\ q.queue_unsent = s.queue_unsent /\ q.next_unsent = s.next_unsent
         /\ Len(q.queue_sent) <= Len(s.queue_sent)
         /\ \A x : Holds(q.queue_sent, x) <=>
                     /\ Holds(s.queue_sent, x)
                     /\ Minus(k, x.seq_num) >= WINDOW_SIZE
<1> DEFINE u == s.queue_sent
           K == Unacknowledged(s, k)
           p == Retain(u, K)
<1>1. u \in Seq(SentSegment) /\ K \in SUBSET DOMAIN u
  BY DEF SendStorageType, Unacknowledged
<1>2. AfterAcknowledge(s, k) = [s EXCEPT !.queue_sent = p]
  BY DEF AfterAcknowledge
<1>3. \A i : i \in K <=> i \in DOMAIN u /\ Minus(k, u[i].seq_num) >= WINDOW_SIZE
  BY DEF Unacknowledged
<1> HIDE DEF u, K
<1>4. /\ p \in Seq(SentSegment) /\ Len(p) <= Len(u)
      /\ \A j \in DOMAIN p : \E i \in K : p[j] = u[i]
      /\ \A i \in K : Holds(p, u[i])
  BY <1>1, RetainElements
<1> HIDE DEF p
<1>5. \A x : Holds(p, x) => Holds(u, x) /\ Minus(k, x.seq_num) >= WINDOW_SIZE
  BY <1>3, <1>4 DEF Holds
<1>6. \A x : Holds(u, x) /\ Minus(k, x.seq_num) >= WINDOW_SIZE => Holds(p, x)
  <2>1. SUFFICES ASSUME NEW i \in DOMAIN u,
                        Minus(k, u[i].seq_num) >= WINDOW_SIZE
                 PROVE  Holds(p, u[i])
    BY DEF Holds
  <2>2. QED
    BY <1>3, <1>4, <2>1
<1>7. QED
  BY <1>2, <1>4, <1>5, <1>6 DEF SendStorageType, u

\* An entry of queue_sent, by how many numbers it lies behind the next one.
HasAge(s, d) ==
  \E e \in SentSegment : Holds(s.queue_sent, e) /\ Minus(s.next_unsent, e.seq_num) = d

\* queue_sent holds segments of the last window only, and with each one every
\* later one.
SentIsRecent(s) ==
  /\ Len(s.queue_sent) <= WINDOW_SIZE
  /\ \A d : HasAge(s, d) => d \in 1 .. WINDOW_SIZE /\ \A c \in 1 .. d : HasAge(s, c)

LEMMA EmptyIsRecent ==
  ASSUME NEW s, s.queue_sent = << >>
  PROVE  SentIsRecent(s)
BY SequenceNumberAssumption DEF SentIsRecent, HasAge, Holds

\* Neither the unwrap in push fails on such a queue, nor the assertion in pop.
LEMMA RecentDoesNotPanic ==
  ASSUME NEW s \in SendStorageType, SentIsRecent(s)
  PROVE  ~ PushPanics(s) /\ ~ PopPanics(s)
<1>1. s.queue_sent \in Seq(SentSegment) /\ s.next_unsent \in SeqNum
  BY DEF SendStorageType
<1>2. ~ PopPanics(s)
  BY <1>1, SequenceNumberAssumption DEF SentIsRecent, PopPanics
<1>3. ASSUME s.queue_sent # << >> PROVE NewestSent(s) # {}
  <2> DEFINE e == s.queue_sent[1]
  <2>1. 1 \in DOMAIN s.queue_sent /\ e \in SentSegment
    BY <1>1, <1>3
  <2>2. HasAge(s, Minus(s.next_unsent, e.seq_num))
    BY <2>1 DEF HasAge, Holds
  <2>3. HasAge(s, 1)
    BY <2>2, SequenceNumberAssumption DEF SentIsRecent
  <2>4. PICK j \in DOMAIN s.queue_sent :
          s.queue_sent[j] \in SentSegment /\ Minus(s.next_unsent, s.queue_sent[j].seq_num) = 1
    BY <2>3 DEF HasAge, Holds
  <2>5. s.queue_sent[j].seq_num \in SeqNum /\ Modulus > 1
    BY <2>4, SequenceNumberAssumption DEF SentSegment
  <2>6. s.queue_sent[j].seq_num = Minus(s.next_unsent, 1)
    BY <1>1, <2>4, <2>5, NumbersBehind
  <2>7. QED
    BY <2>6 DEF NewestSent
<1>4. QED
  BY <1>2, <1>3 DEF PushPanics

LEMMA SameAges ==
  ASSUME NEW s, NEW q, SentIsRecent(s), q.next_unsent = s.next_unsent,
         Len(q.queue_sent) = Len(s.queue_sent),
         \A e : Holds(q.queue_sent, e) <=> Holds(s.queue_sent, e)
  PROVE  SentIsRecent(q)
<1>1. \A d : HasAge(q, d) <=> HasAge(s, d)
  BY DEF HasAge
<1>2. QED
  BY <1>1 DEF SentIsRecent

LEMMA TransmitRecent ==
  ASSUME NEW s \in SendStorageType, SentIsRecent(s), CanPopUnsent(s), WINDOW_SIZE > 1
  PROVE  /\ SentIsRecent(AfterPopSegment(s, FALSE))
         /\ \A k \in SeqNum : Minus(s.next_unsent, k) \in 1 .. Len(s.queue_sent) + 1 =>
              Minus(AfterPopSegment(s, FALSE).next_unsent, k)
                \in 1 .. Len(AfterPopSegment(s, FALSE).queue_sent) + 1
<1> DEFINE q == AfterPopSegment(s, FALSE)
           entry == [seq_num |-> s.next_unsent, variant |-> Head(s.queue_unsent)]
           n == s.next_unsent
           W == WINDOW_SIZE
<1>1. /\ s.queue_sent \in Seq(SentSegment) /\ n \in SeqNum /\ Len(s.queue_sent) \in Nat
      /\ W \in Nat /\ W > 1 /\ Modulus \in Nat /\ W + 1 < Modulus /\ Modulus > 1
  BY SequenceNumberAssumption DEF SendStorageType
<1>2. Len(s.queue_sent) < W /\ s.queue_unsent # << >>
  BY <1>1 DEF SentIsRecent, CanPopUnsent
<1>3. /\ q.queue_sent = Append(s.queue_sent, entry) /\ entry \in SentSegment
      /\ q.next_unsent = Plus(n, 1) /\ entry.seq_num = n
  BY <1>2, TransmitFields
<1> HIDE DEF q, entry
<1>4. /\ Len(q.queue_sent) = Len(s.queue_sent) + 1
      /\ \A e : Holds(q.queue_sent, e) <=> Holds(s.queue_sent, e) \/ e = entry
  BY <1>1, <1>3, AppendElements
<1>5. ~ HasAge(s, W)
  <2> SUFFICES ASSUME HasAge(s, W) PROVE FALSE
    OBVIOUS
  <2>1. \A d \in 1 .. W : HasAge(s, d)
    BY DEF SentIsRecent
  <2> DEFINE f == [d \in 1 .. W |-> CHOOSE e \in SentSegment :
                      Holds(s.queue_sent, e) /\ Minus(n, e.seq_num) = d]
  <2>2. \A d \in 1 .. W : Holds(s.queue_sent, f[d]) /\ Minus(n, f[d].seq_num) = d
    BY <2>1 DEF HasAge
  <2> HIDE DEF f
  <2> DEFINE u == s.queue_sent
             w == WINDOW_SIZE
  <2>3. /\ \A c, d \in 1 .. w : f[c] = f[d] => c = d
        /\ \A d \in 1 .. w : Holds(u, f[d])
        /\ u \in Seq(SentSegment) /\ 1 \in Int /\ w \in Int
    BY <1>1, <2>2
  <2> HIDE DEF u, w
  <2>4. w - 1 < Len(u) \/ w < 1
    BY <2>3, QueueHoldsInterval
  <2>5. QED
    BY <1>1, <1>2, <2>4 DEF u, w
<1>6. \A d : HasAge(s, d) => d \in 1 .. W - 1
  BY <1>1, <1>5 DEF SentIsRecent
<1>7. \A x \in SeqNum : Minus(n, x) + 1 < Modulus => Minus(Plus(n, 1), x) = Minus(n, x) + 1
  BY <1>1, NumbersBehind
<1>8. Minus(Plus(n, 1), n) = 1
  BY <1>1, NumbersBehind
<1>9. HasAge(q, 1)
  BY <1>3, <1>4, <1>8 DEF HasAge
<1>10. ASSUME NEW d, HasAge(s, d) PROVE HasAge(q, d + 1)
  <2>1. PICK e \in SentSegment : Holds(s.queue_sent, e) /\ Minus(n, e.seq_num) = d
    BY <1>10 DEF HasAge
  <2>2. e.seq_num \in SeqNum /\ d + 1 < Modulus
    BY <1>1, <1>6, <1>10 DEF SentSegment
  <2>3. Minus(Plus(n, 1), e.seq_num) = d + 1
    BY <1>7, <2>1, <2>2
  <2>4. QED
    BY <1>3, <1>4, <2>1, <2>3 DEF HasAge
<1>11. ASSUME NEW d, HasAge(q, d) PROVE d = 1 \/ (HasAge(s, d - 1) /\ d - 1 \in 1 .. W - 1 /\ d \in Int)
  <2>1. PICK e \in SentSegment : Holds(q.queue_sent, e) /\ Minus(Plus(n, 1), e.seq_num) = d
    BY <1>3, <1>11 DEF HasAge
  <2>2. CASE e = entry
    BY <1>3, <1>8, <2>1, <2>2
  <2>3. CASE Holds(s.queue_sent, e)
    <3> DEFINE c == Minus(n, e.seq_num)
    <3>1. HasAge(s, c) /\ e.seq_num \in SeqNum
      BY <2>3 DEF HasAge, SentSegment
    <3>2. c \in 1 .. W - 1
      BY <1>6, <3>1
    <3> HIDE DEF c
    <3>3. d = c + 1
      BY <1>1, <1>7, <2>1, <3>1, <3>2 DEF c
    <3>4. QED
      BY <3>1, <3>2, <3>3
  <2>4. QED
    BY <1>4, <2>1, <2>2, <2>3
<1>12. ASSUME NEW d, HasAge(q, d) PROVE d \in 1 .. W /\ \A c \in 1 .. d : HasAge(q, c)
  <2>1. d \in 1 .. W
    BY <1>1, <1>11, <1>12
  <2>2. ASSUME NEW c \in 1 .. d, c # 1 PROVE HasAge(q, c)
    <3>1. HasAge(s, d - 1) /\ c - 1 \in 1 .. d - 1 /\ c \in Int
      BY <1>11, <1>12, <2>1, <2>2
    <3>2. HasAge(s, c - 1)
      BY <3>1 DEF SentIsRecent
    <3>3. HasAge(q, (c - 1) + 1)
      BY <1>10, <3>2
    <3>4. QED
      BY <3>1, <3>3
  <2>3. QED
    BY <1>9, <2>1, <2>2
<1>13. SentIsRecent(q)
  BY <1>1, <1>2, <1>4, <1>12 DEF SentIsRecent
<1>14. ASSUME NEW k \in SeqNum, Minus(n, k) \in 1 .. Len(s.queue_sent) + 1
       PROVE  Minus(q.next_unsent, k) \in 1 .. Len(q.queue_sent) + 1
  <2>1. Minus(n, k) \in Int /\ Minus(n, k) + 1 < Modulus
    BY <1>1, <1>2, <1>14
  <2>2. Minus(q.next_unsent, k) = Minus(n, k) + 1
    BY <1>3, <1>7, <2>1
  <2>3. QED
    BY <1>1, <1>4, <1>14, <2>1, <2>2
<1>15. QED
  BY <1>13, <1>14 DEF q

\* An acknowledgement that is not refused takes the oldest away.
LEMMA AcknowledgeRecent ==
  ASSUME NEW s \in SendStorageType, SentIsRecent(s), NEW k \in SeqNum,
         Minus(s.next_unsent, k) >= 1, ~ AckRejects(s, k)
  PROVE  SentIsRecent(AfterAcknowledge(s, k))
<1> DEFINE q == AfterAcknowledge(s, k)
           n == s.next_unsent
           W == WINDOW_SIZE
           b == Minus(n, k)
<1>1. n \in SeqNum /\ W \in Nat /\ Modulus \in Nat /\ Modulus >= 2 * W /\ W >= 1
  BY SequenceNumberAssumption DEF SendStorageType
<1>2. b \in 1 .. W - 1
  <2>1. n \in Int /\ k \in Int
    BY <1>1 DEF SeqNum
  <2>2. b \in SeqNum
    BY <2>1, ResultsAreSequenceNumbers
  <2>3. QED
    BY <1>1, <2>2 DEF AckRejects, SeqNum
<1>3. /\ q.next_unsent = n /\ Len(q.queue_sent) <= Len(s.queue_sent)
      /\ \A e : Holds(q.queue_sent, e) <=>
                   Holds(s.queue_sent, e) /\ Minus(k, e.seq_num) >= WINDOW_SIZE
      /\ q \in SendStorageType
  BY AcknowledgeFields
<1>4. ASSUME NEW e \in SentSegment, Holds(s.queue_sent, e)
      PROVE  Minus(k, e.seq_num) >= W <=> Minus(n, e.seq_num) < b
  <2> DEFINE a == Minus(n, e.seq_num)
             z == a - b
  <2>1. e.seq_num \in SeqNum /\ HasAge(s, a) /\ Modulus > 1
    BY <1>1, <1>2, <1>4 DEF HasAge, SentSegment
  <2>2. a \in 1 .. W
    BY <2>1 DEF SentIsRecent
  <2>3. Minus(k, e.seq_num) = Wrap(z)
    BY <1>1, <2>1, NumbersBehind
  <2> HIDE DEF a, b
  <2>4. z \in Int /\ z <= W - 1 /\ z >= 2 - W
    BY <1>1, <1>2, <2>2
  <2>5. CASE z >= 0
    <3>1. z \in 0 .. Modulus - 1
      BY <1>1, <2>4, <2>5
    <3> HIDE DEF z
    <3>2. Wrap(z) = z
      BY <2>4, <3>1, WrapSmall
    <3>3. QED
      BY <1>1, <1>2, <2>2, <2>3, <2>4, <2>5, <3>2 DEF a, b, z
  <2>6. CASE z < 0
    <3>1. z \in -Modulus .. -1
      BY <1>1, <2>4, <2>6
    <3> HIDE DEF z
    <3>2. Wrap(z) = z + Modulus
      BY <2>4, <3>1, WrapSmall
    <3>3. QED
      BY <1>1, <1>2, <2>2, <2>3, <2>4, <2>6, <3>2 DEF a, b, z
  <2>7. QED
    BY <2>4, <2>5, <2>6
<1> HIDE DEF q, b
<1>5. \A d : HasAge(q, d) <=> HasAge(s, d) /\ d < b
  BY <1>3, <1>4 DEF HasAge
<1>6. ASSUME NEW d, HasAge(q, d) PROVE d \in 1 .. W /\ \A c \in 1 .. d : HasAge(q, c)
  <2>1. d \in 1 .. W /\ d < b /\ \A c \in 1 .. d : HasAge(s, c)
    BY <1>5, <1>6 DEF SentIsRecent
  <2>2. \A c \in 1 .. d : c < b
    BY <1>1, <1>2, <2>1
  <2>3. QED
    BY <1>5, <2>1, <2>2
<1>7. QED
  <2>1. Len(q.queue_sent) \in Nat /\ Len(s.queue_sent) \in Nat
    BY <1>3 DEF SendStorageType
  <2>2. QED
    BY <1>1, <1>3, <1>6, <2>1 DEF SentIsRecent, q

-----------------------------------------------------------------------------
(* RecvStorage                                                              *)

\* A set of natural numbers has a least one: the intervals below its elements
\* are finite sets, ordered by inclusion.
LEMMA LeastNatural ==
  ASSUME NEW S \in SUBSET Nat, S # {}
  PROVE  \E m \in S : \A k \in S : m <= k
<1> DEFINE T == {1 .. k : k \in S}
<1>1. T \subseteq FiniteSubsetsOf(Nat) /\ T # {}
  <2>1. \A k \in S : 1 .. k \in SUBSET Nat /\ IsFiniteSet(1 .. k)
    BY FS_Interval
  <2>2. QED
    BY <2>1 DEF FiniteSubsetsOf
<1>2. PICK x \in T : \A y \in T : << y, x >> \notin StrictSubsetOrdering(Nat)
  BY <1>1, FS_StrictSubsetOrderingWellFounded, WFMin
<1>3. PICK m \in S : x = 1 .. m
  BY <1>2
<1>4. ASSUME NEW k \in S, k < m PROVE FALSE
  <2>1. 1 .. k \in T /\ 1 .. k \in SUBSET Nat /\ 1 .. m \in SUBSET Nat
    OBVIOUS
  <2>2. 1 .. k \subseteq 1 .. m /\ m \in 1 .. m /\ m \notin 1 .. k
    BY <1>4
  <2>3. << 1 .. k, 1 .. m >> \in StrictSubsetOrdering(Nat)
    BY <2>1, <2>2 DEF StrictSubsetOrdering
  <2>4. QED
    BY <1>2, <1>3, <2>1, <2>3
<1>5. QED
  BY <1>4

\* SlideLength is the distance to the first gap, when there is one.
LEMMA SlideLengthIsFirstGap ==
  ASSUME NEW r, NEW m \in 0 .. Modulus - 1, ~ Present(r, Plus(r.window, m))
  PROVE  /\ SlideLength(r) \in 0 .. m
         /\ ~ Present(r, Plus(r.window, SlideLength(r)))
         /\ \A j \in 0 .. SlideLength(r) - 1 : Present(r, Plus(r.window, j))
<1> DEFINE Gap(k) == ~ Present(r, Plus(r.window, k))
           S == {k \in 0 .. Modulus - 1 : Gap(k)}
           First(k) == Gap(k) /\ \A j \in 0 .. k - 1 : ~ Gap(j)
<1>1. S \in SUBSET Nat /\ m \in S
  OBVIOUS
<1>2. PICK k \in S : \A j \in S : k <= j
  BY <1>1, LeastNatural
<1>3. k \in 0 .. Modulus - 1 /\ k <= m /\ Modulus \in Nat
  BY <1>1, <1>2, SequenceNumberAssumption
<1>4. \A j \in 0 .. k - 1 : ~ Gap(j)
  <2>1. \A j \in 0 .. k - 1 : j \in 0 .. Modulus - 1 /\ ~ (k <= j)
    BY <1>3
  <2>2. QED
    BY <2>1, <1>2
<1>5. Gap(k) /\ Gap(m)
  BY <1>2
<1>6. SlideLength(r) = CHOOSE h \in 0 .. Modulus - 1 : First(h)
  BY DEF SlideLength
<1> HIDE DEF Gap, S
<1>7. SlideLength(r) \in 0 .. Modulus - 1 /\ First(SlideLength(r))
  BY <1>3, <1>4, <1>5, <1>6
<1>8. SlideLength(r) <= m
  BY <1>3, <1>5, <1>7
<1>9. QED
  BY <1>7, <1>8 DEF Gap
-----------------------------------------------------------------------------
(* recv.  A position i is recent when the sender could have sent it: it is   *)
(* less than WINDOW_SIZE ahead of the window, and not so old that its number *)
(* has come round again.                                                     *)

\* The segments between two positions of the window, in order.
Handed(f, w, v) == [j \in 1 .. v - w |-> f[w + j - 1]]

\* Where lower_bound goes when the window goes from w to v: to WINDOW_SIZE
\* behind it.  It stays while it is nearer, and stays too when it is twice as
\* far behind: then `min_lower_bound - self.lower_bound` is out of the window.
LowerBound(w, l, v) ==
  IF v > w /\ v - l \in WINDOW_SIZE .. 2 * WINDOW_SIZE - 1
    THEN v - WINDOW_SIZE ELSE l

\* Storage q is r with the window moved on, and the segments it passed handed
\* to the reader.
Advances(r, q, b, w, l, n, f) ==
  \E v \in w .. n + 1, h \in Nat :
    /\ h = LowerBound(w, l, v)
    /\ Represents(q, b, v, h, f)
    /\ q.pop_queue = r.pop_queue \o Handed(f, w, v)

IsRecent(i, w) == i < w + WINDOW_SIZE /\ w + WINDOW_SIZE - i <= Modulus

\* What the valid range means for a recent position: a number that recv
\* accepts and does not know yet belongs to a position that was never
\* received, and the range has not closed around the whole circle.
LEMMA AcceptedIsNew ==
  ASSUME NEW b \in Int, NEW r, NEW w, NEW l, NEW f, NEW i \in Nat,
         Represents(r, b, w, l, f), IsRecent(i, w),
         ValidSeqNum(r, Wrap(b + i)), ~ Present(r, Wrap(b + i))
  PROVE  i >= w /\ w - l + WINDOW_SIZE < Modulus
<1>1. /\ WINDOW_SIZE \in Nat \ {0} /\ Modulus \in Nat
      /\ Modulus >= 2 * WINDOW_SIZE
  BY SequenceNumberAssumption
<1>2. /\ w \in Nat /\ l \in Nat /\ l <= w /\ w - l < Modulus
      /\ w \in Int /\ l \in Int /\ i \in Int
  BY DEF Represents
<1>3. r.window = Wrap(b + w) /\ r.lower_bound = Wrap(b + l)
  BY DEF Represents
<1>4. Minus(Wrap(b + i), r.lower_bound) = Wrap(i - l)
  <2>1. Minus(Wrap(b + i), Wrap(b + l)) = Wrap(i - l)
    BY <1>2, CountedNumbers
  <2>2. QED
    BY <1>3, <2>1
<1>5. Minus(Plus(r.window, WINDOW_SIZE), r.lower_bound)
        = Wrap(w - l + WINDOW_SIZE)
  <2>1. Plus(r.window, WINDOW_SIZE) = Wrap(b + (w + WINDOW_SIZE))
    BY <1>1, <1>2, <1>3, CountedNumbers
  <2> DEFINE x == w + WINDOW_SIZE
  <2>2. x \in Int /\ x - l = w - l + WINDOW_SIZE
    BY <1>1, <1>2
  <2> HIDE DEF x
  <2>3. Minus(Wrap(b + x), Wrap(b + l)) = Wrap(x - l)
    BY <1>2, <2>2, CountedNumbers
  <2>4. QED
    BY <1>3, <2>1, <2>2, <2>3 DEF x
<1>6. Wrap(i - l) < Wrap(w - l + WINDOW_SIZE)
  BY <1>4, <1>5 DEF ValidSeqNum
<1>7. i \notin l .. w - 1
  BY DEF Represents
<1>8. w - l + WINDOW_SIZE < Modulus
  <2> SUFFICES ASSUME w - l + WINDOW_SIZE >= Modulus PROVE FALSE
    BY <1>1, <1>2
  <2>1. Wrap(w - l + WINDOW_SIZE) = w - l + WINDOW_SIZE - Modulus
    <3> DEFINE x == w - l + WINDOW_SIZE
    <3>1. x \in Int /\ x - Modulus \in SeqNum /\ x = Modulus * 1 + (x - Modulus)
      BY <1>1, <1>2 DEF SeqNum
    <3> HIDE DEF x
    <3>2. Wrap(x) = x - Modulus
      BY <3>1, WrapUnique
    <3>3. QED
      BY <1>1, <1>2, <3>2 DEF x
  <2>2. i - l \in w - l + WINDOW_SIZE - Modulus .. w - l + WINDOW_SIZE - 1
    BY <1>1, <1>2 DEF IsRecent
  <2>3. CASE i - l < Modulus
    <3>1. i - l \in 0 .. Modulus - 1
      BY <1>1, <1>2, <2>2, <2>3
    <3>2. Wrap(i - l) = i - l
      BY <1>2, <3>1, WrapSmall
    <3>3. QED
      BY <1>1, <1>2, <1>6, <2>1, <2>2, <3>2
  <2>4. CASE i - l >= Modulus
    <3>1. i - Modulus \in Int /\ i - Modulus \in l .. w - 1
      BY <1>1, <1>2, <2>2, <2>4
    <3>2. b + i = Modulus * 1 + (b + (i - Modulus))
      BY <1>1, <1>2
    <3>3. Wrap(b + i) = Wrap(b + (i - Modulus))
      BY <3>1, <3>2, WrapShift
    <3>4. Present(r, Wrap(b + (i - Modulus)))
      BY <3>1 DEF Represents
    <3>5. QED
      BY <3>3, <3>4
  <2>5. QED
    BY <1>1, <1>2, <2>3, <2>4
<1>9. i >= l
  <2> SUFFICES ASSUME i < l PROVE FALSE
    BY <1>2
  <2>1. i - l \in -Modulus .. -1 /\ i - l \in Int
    BY <1>1, <1>2 DEF IsRecent
  <2>2. Wrap(i - l) = i - l + Modulus
    BY <2>1, WrapSmall
  <2>3. Wrap(w - l + WINDOW_SIZE) = w - l + WINDOW_SIZE
    BY <1>1, <1>2, <1>8, WrapSmall
  <2>4. QED
    BY <1>1, <1>2, <1>6, <2>2, <2>3 DEF IsRecent
<1>10. QED
  BY <1>2, <1>7, <1>8, <1>9
\* The record that inserting a segment leaves.
LEMMA InsertFields ==
  ASSUME NEW r, IsRecvStorage(r), NEW s \in SeqNum, NEW segment \in SequentialSegment
  PROVE  LET q == Insert(r, s, segment) IN
         /\ IsRecvStorage(q)
         /\ q.window = r.window /\ q.lower_bound = r.lower_bound
         /\ q.pop_queue = r.pop_queue
         /\ DOMAIN q.segments = DOMAIN r.segments \cup {s}
         /\ \A k \in DOMAIN q.segments :
              q.segments[k] = IF k = s THEN segment ELSE r.segments[k]
<1> DEFINE q == Insert(r, s, segment)
           g == [k \in DOMAIN r.segments \cup {s} |->
                   IF k = s THEN segment ELSE r.segments[k]]
           h == IF Minus(s, r.highest) < WINDOW_SIZE THEN s ELSE r.highest
<1>1. /\ r \in [ segments : {r.segments}, pop_queue : Seq(SequentialSegment),
                 window : SeqNum, lower_bound : SeqNum, highest : SeqNum,
                 last_ack : SeqNum \cup {None}, urgent_ack : BOOLEAN ]
      /\ r.segments \in [DOMAIN r.segments -> SequentialSegment]
      /\ DOMAIN r.segments \subseteq SeqNum
  BY DEF IsRecvStorage
<1>2. q = [r EXCEPT !.segments = g, !.highest = h]
  BY DEF Insert
<1>3. /\ g \in [DOMAIN g -> SequentialSegment]
      /\ DOMAIN g = DOMAIN r.segments \cup {s}
      /\ \A k \in DOMAIN g : g[k] = IF k = s THEN segment ELSE r.segments[k]
  BY <1>1
<1>4. h \in SeqNum
  BY <1>1
<1> HIDE DEF q, g, h
<1>5. q = [ segments |-> g, pop_queue |-> r.pop_queue, window |-> r.window,
            lower_bound |-> r.lower_bound, highest |-> h,
            last_ack |-> r.last_ack, urgent_ack |-> r.urgent_ack ]
  BY <1>1, <1>2
<1>6. IsRecvStorage(q)
  <2>1. q.segments = g
    BY <1>5
  <2>2. q \in [ segments : {q.segments}, pop_queue : Seq(SequentialSegment),
                window : SeqNum, lower_bound : SeqNum, highest : SeqNum,
                last_ack : SeqNum \cup {None}, urgent_ack : BOOLEAN ]
    BY <1>1, <1>4, <1>5, <2>1
  <2>3. QED
    BY <1>1, <1>3, <2>1, <2>2 DEF IsRecvStorage
<1>7. /\ q.segments = g /\ q.window = r.window
      /\ q.lower_bound = r.lower_bound /\ q.pop_queue = r.pop_queue
  BY <1>5
<1>8. QED
  BY <1>3, <1>6, <1>7 DEF q

\* The same for a slide: it moves on two of the numbers, hands out the
\* segments it passes and forgets some.
LEMMA SlideFields ==
  ASSUME NEW r, IsRecvStorage(r), SlideLength(r) \in Nat,
         \A j \in 0 .. SlideLength(r) - 1 : Present(r, Plus(r.window, j))
  PROVE  LET q == Slide(r) IN
         /\ IsRecvStorage(q)
         /\ q.window = Plus(r.window, SlideLength(r))
         /\ q.lower_bound = IF Behind(r) < WINDOW_SIZE
                              THEN Plus(r.lower_bound, Behind(r))
                              ELSE r.lower_bound
         /\ q.pop_queue = r.pop_queue \o
              [j \in 1 .. SlideLength(r) |-> r.segments[Plus(r.window, j - 1)]]
         /\ DOMAIN q.segments = DOMAIN r.segments \ Forgotten(r)
         /\ \A k \in DOMAIN q.segments : q.segments[k] = r.segments[k]
<1> DEFINE q == Slide(r)
           g == Restrict(r.segments, DOMAIN r.segments \ Forgotten(r))
           passed == [j \in 1 .. SlideLength(r) |->
                        r.segments[Plus(r.window, j - 1)]]
           h == IF Behind(r) < WINDOW_SIZE
                  THEN Plus(r.lower_bound, Behind(r)) ELSE r.lower_bound
           w == Plus(r.window, SlideLength(r))
           queue == r.pop_queue \o passed
<1>1. /\ r \in [ segments : {r.segments}, pop_queue : Seq(SequentialSegment),
                 window : SeqNum, lower_bound : SeqNum, highest : SeqNum,
                 last_ack : SeqNum \cup {None}, urgent_ack : BOOLEAN ]
      /\ r.segments \in [DOMAIN r.segments -> SequentialSegment]
      /\ DOMAIN r.segments \subseteq SeqNum
  BY DEF IsRecvStorage
<1>2. q = [r EXCEPT !.pop_queue = queue, !.window = w, !.segments = g,
                    !.lower_bound = h]
  BY DEF Slide
<1>3. /\ g \in [DOMAIN g -> SequentialSegment]
      /\ DOMAIN g = DOMAIN r.segments \ Forgotten(r)
      /\ \A k \in DOMAIN g : g[k] = r.segments[k]
  BY <1>1 DEF Restrict
<1>4. queue \in Seq(SequentialSegment)
  <2>1. \A j \in 1 .. SlideLength(r) :
          r.segments[Plus(r.window, j - 1)] \in SequentialSegment
    <3>1. ASSUME NEW j \in 1 .. SlideLength(r)
          PROVE  Present(r, Plus(r.window, j - 1))
      OBVIOUS
    <3>2. QED
      BY <1>1, <3>1 DEF Present
  <2>2. passed \in [1 .. SlideLength(r) -> SequentialSegment]
    BY <2>1
  <2>3. passed \in Seq(SequentialSegment)
    BY <2>2
  <2>4. QED
    BY <1>1, <2>3
<1>5. w \in SeqNum /\ h \in SeqNum
  <2>1. SeqNum \subseteq Int
    BY SequenceNumberAssumption DEF SeqNum
  <2>2. Minus(Minus(w, WINDOW_SIZE), r.lower_bound) = Behind(r)
    BY DEF Behind
  <2> HIDE DEF w
  <2>3. w \in SeqNum
    BY <1>1, <2>1, ResultsAreSequenceNumbers DEF w
  <2>4. Behind(r) \in SeqNum
    <3>1. WINDOW_SIZE \in Int /\ w \in Int /\ r.lower_bound \in Int
      BY <1>1, <2>1, <2>3, SequenceNumberAssumption
    <3>2. Minus(w, WINDOW_SIZE) \in Int
      BY <2>1, <3>1, ResultsAreSequenceNumbers
    <3>3. QED
      BY <2>2, <3>1, <3>2, ResultsAreSequenceNumbers
  <2>5. QED
    BY <1>1, <2>1, <2>3, <2>4, ResultsAreSequenceNumbers
<1> HIDE DEF q, g, h, w, queue
<1>6. q = [ segments |-> g, pop_queue |-> queue, window |-> w,
            lower_bound |-> h, highest |-> r.highest,
            last_ack |-> r.last_ack, urgent_ack |-> r.urgent_ack ]
  BY <1>1, <1>2
<1>7. IsRecvStorage(q)
  <2>1. q.segments = g
    BY <1>6
  <2>2. q \in [ segments : {q.segments}, pop_queue : Seq(SequentialSegment),
                window : SeqNum, lower_bound : SeqNum, highest : SeqNum,
                last_ack : SeqNum \cup {None}, urgent_ack : BOOLEAN ]
    BY <1>1, <1>4, <1>5, <1>6, <2>1
  <2>3. QED
    BY <1>1, <1>3, <2>1, <2>2 DEF IsRecvStorage
<1>8. /\ q.segments = g /\ q.window = w
      /\ q.lower_bound = h /\ q.pop_queue = queue
  BY <1>6
<1>9. QED
  BY <1>3, <1>7, <1>8 DEF q, h, w, queue
\* A storage that represents its positions but for the segment at the window,
\* which has just been inserted.
Arrived(r, b, w, l, f) ==
  /\ IsRecvStorage(r) /\ w \in Nat /\ l \in 0 .. w
  /\ w - l + WINDOW_SIZE < Modulus
  /\ r.window = Wrap(b + w) /\ r.lower_bound = Wrap(b + l)
  /\ \A p \in l .. w : Present(r, Wrap(b + p))
  /\ \A k \in DOMAIN r.segments :
       \E p \in DOMAIN f : /\ p >= l /\ p < w + WINDOW_SIZE
                           /\ k = Wrap(b + p) /\ r.segments[k] = f[p]

\* A slide of a storage that has the segment at the window hands out, in
\* order, every segment up to the first gap, forgets only segments it has,
\* and leaves a storage that represents the new window.
LEMMA SlideRepresents ==
  ASSUME NEW b \in Int, NEW n \in Nat, NEW f \in [0 .. n -> SequentialSegment],
         NEW r, NEW w, NEW l, Arrived(r, b, w, l, f)
  PROVE  /\ IsRecvStorage(Slide(r))
         /\ Forgotten(r) \subseteq DOMAIN r.segments
         /\ Advances(r, Slide(r), b, w, l, n, f)
<1>1. /\ WINDOW_SIZE \in Nat \ {0} /\ Modulus \in Nat
      /\ Modulus >= 2 * WINDOW_SIZE
  BY SequenceNumberAssumption
<1> USE DEF Arrived
<1> DEFINE K == SlideLength(r)
\* Among the positions from l to w + WINDOW_SIZE no number occurs twice.
<1>2. ASSUME NEW p \in l .. w + WINDOW_SIZE, NEW k \in l .. w + WINDOW_SIZE,
             Wrap(b + p) = Wrap(b + k)
      PROVE  p = k
  <2> DEFINE x == b + p
             y == b + k
  <2>1. x \in Int /\ y \in Int /\ x - y < Modulus /\ y - x < Modulus
    BY <1>1
  <2>2. Wrap(x) = Wrap(y)
    BY <1>2
  <2> HIDE DEF x, y
  <2>3. x = y
    BY <2>1, <2>2, WrapInjective
  <2>4. QED
    BY <1>1, <2>3 DEF x, y
<1>3. ASSUME NEW p \in l .. w + WINDOW_SIZE, Present(r, Wrap(b + p))
      PROVE  /\ p < w + WINDOW_SIZE /\ p \in 0 .. n
             /\ r.segments[Wrap(b + p)] = f[p]
  <2>1. PICK k \in 0 .. n : /\ k >= l /\ k < w + WINDOW_SIZE
                            /\ Wrap(b + p) = Wrap(b + k)
                            /\ r.segments[Wrap(b + p)] = f[k]
    BY <1>3 DEF Present
  <2>2. k \in l .. w + WINDOW_SIZE
    BY <1>1, <2>1
  <2>3. p = k
    BY <1>2, <2>1, <2>2
  <2>4. QED
    BY <2>1, <2>3
<1>4. ASSUME NEW j \in Int PROVE Plus(r.window, j) = Wrap(b + (w + j))
  <2>1. w \in Int
    OBVIOUS
  <2>2. Plus(Wrap(b + w), j) = Wrap(b + (w + j))
    BY <2>1, CountedNumbers
  <2>3. QED
    BY <2>2
<1>5. /\ K \in 0 .. WINDOW_SIZE
      /\ ~ Present(r, Plus(r.window, K))
      /\ \A j \in 0 .. K - 1 : Present(r, Plus(r.window, j))
  <2>1. WINDOW_SIZE \in 0 .. Modulus - 1
    BY <1>1
  <2>2. ~ Present(r, Wrap(b + (w + WINDOW_SIZE)))
    <3>1. w + WINDOW_SIZE \in l .. w + WINDOW_SIZE
      BY <1>1
    <3>2. ~ (w + WINDOW_SIZE < w + WINDOW_SIZE)
      BY <1>1
    <3>3. QED
      BY <1>3, <3>1, <3>2
  <2>3. ~ Present(r, Plus(r.window, WINDOW_SIZE))
    BY <1>1, <1>4, <2>2
  <2>4. QED
    BY <2>1, <2>3, SlideLengthIsFirstGap
<1> HIDE DEF K
<1>6. K # 0
  <2>1. Plus(r.window, 0) = Wrap(b + w)
    BY <1>4
  <2>2. QED
    BY <1>5, <2>1
<1>7. ASSUME NEW j \in 0 .. K - 1
      PROVE  /\ Present(r, Wrap(b + (w + j)))
             /\ w + j \in 0 .. n
             /\ r.segments[Plus(r.window, j)] = f[w + j]
  <2> DEFINE p == w + j
  <2>1. p \in l .. w + WINDOW_SIZE
    BY <1>1, <1>5
  <2>4. Plus(r.window, j) = Wrap(b + p)
    <3>1. j \in Int
      BY <1>5
    <3>2. QED
      BY <3>1, <1>4
  <2> HIDE DEF p
  <2>2. Present(r, Wrap(b + p))
    BY <1>5, <2>4
  <2>3. p \in 0 .. n /\ r.segments[Wrap(b + p)] = f[p]
    BY <1>3, <2>1, <2>2
  <2>5. QED
    BY <2>2, <2>3, <2>4 DEF p
<1>8. w + K \in w .. n + 1
  <2>1. K - 1 \in 0 .. K - 1
    BY <1>5, <1>6
  <2>2. w + (K - 1) \in 0 .. n
    BY <1>7, <2>1
  <2>3. QED
    BY <1>1, <1>5, <2>2
<1>9. Behind(r) = Wrap(w - l + K - WINDOW_SIZE)
  <2> DEFINE x == w + K
             y == w + K - WINDOW_SIZE
  <2>1. x \in Int /\ y \in Int /\ l \in Int /\ WINDOW_SIZE \in Int
        /\ x - WINDOW_SIZE = y /\ y - l = w - l + K - WINDOW_SIZE
    BY <1>1, <1>5
  <2>2. Plus(r.window, K) = Wrap(b + x)
    BY <1>4, <1>5
  <2> HIDE DEF x, y
  <2>3. Minus(Wrap(b + x), WINDOW_SIZE) = Wrap(b + y)
    BY <2>1, CountedNumbers
  <2>4. Minus(Wrap(b + y), Wrap(b + l)) = Wrap(y - l)
    BY <2>1, CountedNumbers
  <2>5. QED
    BY <2>1, <2>2, <2>3, <2>4 DEF Behind, K
<1> DEFINE d == w - l + K - WINDOW_SIZE
<1>10. d \in -WINDOW_SIZE .. Modulus - 1 /\ d \in Int
  BY <1>1, <1>5
<1>11. /\ d >= 0 => Behind(r) = d
       /\ d < 0 => Behind(r) = d + Modulus
  <2> HIDE DEF d
  <2>1. d \in 0 .. Modulus - 1 \/ d \in -Modulus .. -1
    BY <1>1, <1>10
  <2>2. QED
    BY <1>1, <1>9, <1>10, <2>1, WrapSmall DEF d
\* Whether the slide forgets anything or not, the storage keeps every
\* position from h on, where h is l or WINDOW_SIZE below the new window.
<1> DEFINE v == w + K
           h == IF 0 <= d /\ d < WINDOW_SIZE THEN v - WINDOW_SIZE ELSE l
<1>12. /\ h \in l .. v /\ v - h < Modulus /\ h \in Nat /\ v \in Nat
       /\ 0 <= d /\ d < WINDOW_SIZE => h = l + d
       /\ ~ (0 <= d /\ d < WINDOW_SIZE) => h = l
  BY <1>1, <1>5, <1>10
<1>13. Forgotten(r) = {Wrap(b + p) : p \in l .. h - 1}
  <2>1. CASE 0 <= d /\ d < WINDOW_SIZE
    <3>1. Behind(r) = d /\ d < WINDOW_SIZE
      BY <1>1, <1>10, <1>11, <2>1
    <3>2. Forgotten(r) = {Plus(r.lower_bound, j) : j \in 0 .. d - 1}
      BY <3>1 DEF Forgotten
    <3>3. ASSUME NEW j \in Int PROVE Plus(r.lower_bound, j) = Wrap(b + (l + j))
      <4>1. l \in Int
        OBVIOUS
      <4>2. Plus(Wrap(b + l), j) = Wrap(b + (l + j))
        BY <4>1, CountedNumbers
      <4>3. QED
        BY <4>2
    <3>4. \A j \in 0 .. d - 1 : l + j \in l .. h - 1 /\ j \in Int
      BY <1>10, <1>12, <2>1
    <3>5. \A p \in l .. h - 1 : /\ p - l \in 0 .. d - 1 /\ p - l \in Int
                               /\ l + (p - l) = p
      BY <1>10, <1>12, <2>1
    <3> HIDE DEF d, h
    <3>6. \A j \in 0 .. d - 1 : Plus(r.lower_bound, j) = Wrap(b + (l + j))
      BY <3>3, <3>4
    <3>7. \A p \in l .. h - 1 : Plus(r.lower_bound, p - l) = Wrap(b + p)
      BY <3>3, <3>5
    <3>8. Forgotten(r) \subseteq {Wrap(b + p) : p \in l .. h - 1}
      BY <3>2, <3>4, <3>6
    <3>9. {Wrap(b + p) : p \in l .. h - 1} \subseteq Forgotten(r)
      BY <3>2, <3>5, <3>7
    <3>10. QED
      BY <3>8, <3>9
  <2>2. CASE ~ (0 <= d /\ d < WINDOW_SIZE)
    <3>1. ~ (Behind(r) < WINDOW_SIZE)
      BY <1>1, <1>10, <1>11, <2>2
    <3>2. l .. h - 1 = {}
      BY <1>12, <2>2
    <3>3. QED
      BY <3>1, <3>2 DEF Forgotten
  <2>3. QED
    BY <1>10, <2>1, <2>2
<1> HIDE DEF d
<1>14. Forgotten(r) \subseteq DOMAIN r.segments
  <2>1. ASSUME NEW p \in l .. h - 1 PROVE Present(r, Wrap(b + p))
    <3>1. CASE p \in l .. w
      BY <3>1
    <3>2. CASE p \notin l .. w
      <4>1. p - w \in 0 .. K - 1 /\ w + (p - w) = p
        BY <1>5, <1>12, <3>2
      <4>2. QED
        BY <1>7, <4>1
    <3>3. QED
      BY <3>1, <3>2
  <2>2. QED
    BY <1>13, <2>1 DEF Present
<1> DEFINE q == Slide(r)
<1>15. /\ IsRecvStorage(q)
       /\ q.window = Plus(r.window, K)
       /\ q.lower_bound = IF Behind(r) < WINDOW_SIZE
                            THEN Plus(r.lower_bound, Behind(r))
                            ELSE r.lower_bound
       /\ q.pop_queue = r.pop_queue \o
            [j \in 1 .. K |-> r.segments[Plus(r.window, j - 1)]]
       /\ DOMAIN q.segments = DOMAIN r.segments \ Forgotten(r)
       /\ \A k \in DOMAIN q.segments : q.segments[k] = r.segments[k]
  <2>1. SlideLength(r) \in Nat
        /\ \A j \in 0 .. SlideLength(r) - 1 : Present(r, Plus(r.window, j))
    BY <1>1, <1>5 DEF K
  <2>2. QED
    BY <2>1, SlideFields DEF K
<1> HIDE DEF q
<1>16. [j \in 1 .. K |-> r.segments[Plus(r.window, j - 1)]]
         = Handed(f, w, v)
  <2>1. v - w = K
    BY <1>5
  <2>2. ASSUME NEW j \in 1 .. K
        PROVE  r.segments[Plus(r.window, j - 1)] = f[w + j - 1]
    <3>1. j - 1 \in 0 .. K - 1 /\ w + (j - 1) = w + j - 1
      BY <1>5
    <3>2. QED
      BY <1>7, <3>1
  <2>3. QED
    BY <2>1, <2>2 DEF Handed
<1>17. q.window = Wrap(b + v) /\ q.lower_bound = Wrap(b + h)
  <2>1. q.window = Wrap(b + v)
    BY <1>4, <1>5, <1>15
  <2>2. CASE 0 <= d /\ d < WINDOW_SIZE
    <3>1. Behind(r) = d
      BY <1>11, <2>2
    <3>2. Plus(Wrap(b + l), d) = Wrap(b + (l + d))
      BY <1>10, l \in Int, CountedNumbers
    <3>3. QED
      BY <1>12, <1>15, <2>1, <2>2, <3>1, <3>2
  <2>3. CASE ~ (0 <= d /\ d < WINDOW_SIZE)
    <3>1. ~ (Behind(r) < WINDOW_SIZE)
      BY <1>1, <1>10, <1>11, <2>3
    <3>2. QED
      BY <1>12, <1>15, <2>1, <2>3, <3>1
  <2>4. QED
    BY <2>2, <2>3
<1>18. ASSUME NEW p \in h .. v - 1 PROVE Present(q, Wrap(b + p))
  <2>1. p \in l .. w + WINDOW_SIZE
    BY <1>1, <1>5, <1>12
  <2>2. Present(r, Wrap(b + p))
    <3>1. CASE p \in l .. w
      BY <3>1
    <3>2. CASE p \notin l .. w
      <4>1. p - w \in 0 .. K - 1 /\ w + (p - w) = p
        BY <1>5, <1>12, <3>2
      <4>2. QED
        BY <1>7, <4>1
    <3>3. QED
      BY <3>1, <3>2
  <2>3. ASSUME NEW k \in l .. h - 1 PROVE Wrap(b + p) # Wrap(b + k)
    <3>1. k \in l .. w + WINDOW_SIZE /\ k # p
      BY <1>1, <1>5, <1>12
    <3>2. QED
      BY <1>2, <2>1, <3>1
  <2>4. Wrap(b + p) \notin Forgotten(r)
    BY <1>13, <2>3
  <2>5. QED
    BY <1>15, <2>2, <2>4 DEF Present
<1>19. ASSUME NEW k \in DOMAIN q.segments
       PROVE  \E p \in DOMAIN f :
                /\ p >= h /\ p - h < Modulus
                /\ p # v /\ p < v + WINDOW_SIZE
                /\ k = Wrap(b + p) /\ q.segments[k] = f[p]
  <2>1. k \in DOMAIN r.segments /\ k \notin Forgotten(r)
        /\ q.segments[k] = r.segments[k]
    BY <1>15
  <2>2. PICK p \in 0 .. n : /\ p >= l /\ p < w + WINDOW_SIZE
                            /\ k = Wrap(b + p) /\ r.segments[k] = f[p]
    BY <2>1
  <2>3. p >= h
    <3>1. p \notin l .. h - 1
      BY <1>13, <2>1, <2>2
    <3>2. QED
      BY <1>12, <2>2, <3>1
  <2>4. p # v
    <3>1. ~ Present(r, Wrap(b + v))
      BY <1>4, <1>5
    <3>2. QED
      BY <2>1, <2>2, <3>1 DEF Present
  <2>5. p - h < Modulus /\ p < v + WINDOW_SIZE
    BY <1>1, <1>5, <1>12, <2>2
  <2>6. p \in DOMAIN f
    OBVIOUS
  <2>7. QED
    BY <2>1, <2>2, <2>3, <2>4, <2>5, <2>6
<1>20. Represents(q, b, v, h, f)
  <2>1. v \in Nat /\ h \in 0 .. v /\ v - h < Modulus
    BY <1>12
  <2> HIDE DEF v, h
  <2>2. QED
    BY <2>1, <1>17, <1>18, <1>19 DEF Represents
<1>21. h = LowerBound(w, l, v)
  <2>1. w \in Int /\ l \in Int /\ K \in 1 .. WINDOW_SIZE /\ WINDOW_SIZE \in Nat
    BY <1>1, <1>5, <1>6
  <2>2. v > w /\ (v - l \in WINDOW_SIZE .. 2 * WINDOW_SIZE - 1
                   <=> 0 <= d /\ d < WINDOW_SIZE)
    BY <2>1 DEF d
  <2> HIDE DEF v
  <2>3. QED
    BY <2>2 DEF LowerBound
<1>22. v \in w .. n + 1 /\ h \in Nat
  BY <1>8, <1>12
<1>23. q.pop_queue = r.pop_queue \o Handed(f, w, v)
  BY <1>15, <1>16
<1>24. IsRecvStorage(q)
  BY <1>15
<1>25. QED
  <2> HIDE DEF v, h
  <2>1. QED
    BY <1>14, <1>20, <1>21, <1>22, <1>23, <1>24 DEF q, Advances
\* A storage is represented as before when only fields the representation
\* does not mention have changed.
LEMMA SameRepresentation ==
  ASSUME NEW b, NEW r, NEW q, NEW w, NEW l, NEW f, Represents(r, b, w, l, f),
         q.window = r.window, q.lower_bound = r.lower_bound,
         q.segments = r.segments
  PROVE  Represents(q, b, w, l, f)
BY DEF Represents, Present

\* recv of a recent segment: when it is accepted, the storage still
\* represents its positions, the reader gets the next segments in order, and
\* nothing is unwrapped that is not there.
LEMMA RecvInOrder ==
  ASSUME NEW b \in Int, NEW n \in Nat, NEW f \in [0 .. n -> SequentialSegment],
         NEW r, IsRecvStorage(r), NEW w, NEW l, Represents(r, b, w, l, f),
         w <= n + 1,
         NEW i \in 0 .. n, IsRecent(i, w), ~ RecvRejects(r, Wrap(b + i), f[i])
  PROVE  LET q == AfterRecv(r, Wrap(b + i), f[i]) IN
         /\ IsRecvStorage(q)
         /\ ~ RecvPanics(r, Wrap(b + i), f[i])
         /\ Advances(r, q, b, w, l, n, f)
<1> DEFINE s == Wrap(b + i)
           q == AfterRecv(r, s, f[i])
<1>1. /\ WINDOW_SIZE \in Nat \ {0} /\ Modulus \in Nat
      /\ Modulus >= 2 * WINDOW_SIZE
  BY SequenceNumberAssumption
<1>2. /\ w \in Nat /\ l \in 0 .. w /\ w - l < Modulus /\ i \in Nat
      /\ r.window = Wrap(b + w) /\ r.lower_bound = Wrap(b + l)
  BY DEF Represents
<1>3. /\ r \in [ segments : {r.segments}, pop_queue : Seq(SequentialSegment),
                 window : SeqNum, lower_bound : SeqNum, highest : SeqNum,
                 last_ack : SeqNum \cup {None}, urgent_ack : BOOLEAN ]
      /\ r.segments \in [DOMAIN r.segments -> SequentialSegment]
      /\ DOMAIN r.segments \subseteq SeqNum
  BY DEF IsRecvStorage
<1>4. s \in SeqNum /\ f[i] \in SequentialSegment
  BY WrapIsRemainder
<1>5. ValidSeqNum(r, s) /\ (Present(r, s) => IsDuplicate(r, s, f[i]))
  BY DEF RecvRejects
<1>6. r.pop_queue \o Handed(f, w, w) = r.pop_queue
  <2>1. [j \in 1 .. w - w |-> f[w + j - 1]] = << >>
    BY <1>2
  <2>2. r.pop_queue \o << >> = r.pop_queue
    BY <1>3
  <2>3. QED
    BY <2>1, <2>2 DEF Handed
<1>7. l = LowerBound(w, l, w)
  BY <1>2 DEF LowerBound
<1>8. CASE Present(r, s)
  <2>1. q = [r EXCEPT !.urgent_ack = TRUE]
    BY <1>5, <1>8 DEF AfterRecv
  <2>2. /\ q.segments = r.segments /\ q.pop_queue = r.pop_queue
        /\ q.window = r.window /\ q.lower_bound = r.lower_bound
    BY <1>3, <2>1
  <2>3. IsRecvStorage(q)
    <3> HIDE DEF q
    <3>1. q \in [ segments : {q.segments}, pop_queue : Seq(SequentialSegment),
                  window : SeqNum, lower_bound : SeqNum, highest : SeqNum,
                  last_ack : SeqNum \cup {None}, urgent_ack : BOOLEAN ]
      BY <1>3, <2>1, <2>2
    <3>2. QED
      BY <1>3, <2>2, <3>1 DEF IsRecvStorage
  <2>4. Represents(q, b, w, l, f)
    BY <2>2, SameRepresentation
  <2>5. ~ RecvPanics(r, s, f[i])
    BY <1>8 DEF RecvPanics
  <2>6. w \in w .. n + 1 /\ l \in Nat
    BY <1>2
  <2> HIDE DEF q
  <2>7. QED
    BY <1>6, <1>7, <2>2, <2>3, <2>4, <2>5, <2>6 DEF q, Advances
<1>9. CASE ~ Present(r, s)
  <2> DEFINE t == Insert(r, s, f[i])
  <2>1. i >= w /\ w - l + WINDOW_SIZE < Modulus
    BY <1>2, <1>5, <1>9, AcceptedIsNew
  <2>2. /\ IsRecvStorage(t)
        /\ t.window = r.window /\ t.lower_bound = r.lower_bound
        /\ t.pop_queue = r.pop_queue
        /\ DOMAIN t.segments = DOMAIN r.segments \cup {s}
        /\ \A k \in DOMAIN t.segments :
             t.segments[k] = IF k = s THEN f[i] ELSE r.segments[k]
    BY <1>4, InsertFields
  <2>3. ~ IsDuplicate(r, s, f[i])
    BY <1>9 DEF IsDuplicate
  <2> HIDE DEF t
  <2>4. \A p \in l .. w - 1 : Present(t, Wrap(b + p))
    BY <2>2 DEF Represents, Present
  <2>5. ASSUME NEW k \in DOMAIN t.segments
        PROVE  \E p \in 0 .. n :
                 /\ p >= l /\ p - l < Modulus
                 /\ p < w + WINDOW_SIZE /\ (p = w => i = w)
                 /\ k = Wrap(b + p) /\ t.segments[k] = f[p]
    <3>1. CASE k = s
      <4>1. i >= l /\ i - l < Modulus /\ i < w + WINDOW_SIZE
        BY <1>1, <1>2, <2>1 DEF IsRecent
      <4>2. QED
        BY <2>2, <3>1, <4>1
    <3>2. CASE k # s
      <4>1. k \in DOMAIN r.segments /\ t.segments[k] = r.segments[k]
        BY <2>2, <3>2
      <4>2. PICK p \in DOMAIN f :
              /\ p >= l /\ p - l < Modulus
              /\ p # w /\ p < w + WINDOW_SIZE
              /\ k = Wrap(b + p) /\ r.segments[k] = f[p]
        BY <4>1 DEF Represents
      <4>3. QED
        BY <4>1, <4>2
    <3>3. QED
      BY <3>1, <3>2
  <2>6. CASE i = w
    <3>1. s = r.window
      BY <1>2, <2>6
    <3>2. q = Slide(t)
      BY <2>3, <3>1 DEF AfterRecv, t
    <3>3. Present(t, Wrap(b + w))
      BY <2>2, <2>6 DEF Present
    <3>4. \A p \in l .. w : Present(t, Wrap(b + p))
      <4>1. \A p \in l .. w : p \in l .. w - 1 \/ p = w
        BY <1>2
      <4>2. QED
        BY <2>4, <3>3, <4>1
    <3>5. \A k \in DOMAIN t.segments :
            \E p \in 0 .. n : /\ p >= l /\ p < w + WINDOW_SIZE
                              /\ k = Wrap(b + p) /\ t.segments[k] = f[p]
      BY <2>5
    <3>6. t.window = Wrap(b + w) /\ t.lower_bound = Wrap(b + l)
      BY <1>2, <2>2
    <3>7. Arrived(t, b, w, l, f)
      BY <1>2, <2>1, <2>2, <3>4, <3>5, <3>6 DEF Arrived
    <3>8. /\ IsRecvStorage(Slide(t))
          /\ Forgotten(t) \subseteq DOMAIN t.segments
          /\ Advances(t, Slide(t), b, w, l, n, f)
      BY <3>7, SlideRepresents
    <3>9. ~ RecvPanics(r, s, f[i])
      BY <3>8 DEF RecvPanics, t
    <3> HIDE DEF q
    <3>10. QED
      BY <2>2, <3>2, <3>8, <3>9 DEF q, Advances
  <2>7. CASE i # w
    <3>1. s # r.window
      <4> DEFINE x == b + i
                 y == b + w
      <4>1. i - w \in 1 .. WINDOW_SIZE
        BY <1>1, <1>2, <2>1, <2>7 DEF IsRecent
      <4>2. /\ x \in Int /\ y \in Int /\ x # y
            /\ x - y < Modulus /\ y - x < Modulus
        BY <1>1, <1>2, <4>1
      <4> HIDE DEF x, y
      <4>3. Wrap(x) # Wrap(y)
        BY <4>2, WrapInjective
      <4>4. QED
        BY <1>2, <4>3 DEF x, y
    <3>2. q = t
      BY <2>3, <3>1 DEF AfterRecv, t
    <3>3. ~ RecvPanics(r, s, f[i])
      BY <3>1 DEF RecvPanics
    <3>4. ASSUME NEW k \in DOMAIN t.segments
          PROVE  \E p \in DOMAIN f :
                   /\ p >= l /\ p - l < Modulus
                   /\ p # w /\ p < w + WINDOW_SIZE
                   /\ k = Wrap(b + p) /\ t.segments[k] = f[p]
      <4>1. PICK p \in 0 .. n :
              /\ p >= l /\ p - l < Modulus
              /\ p < w + WINDOW_SIZE /\ (p = w => i = w)
              /\ k = Wrap(b + p) /\ t.segments[k] = f[p]
        BY <2>5
      <4>2. QED
        BY <2>7, <4>1
    <3>5. Represents(t, b, w, l, f)
      BY <1>2, <2>2, <2>4, <3>4 DEF Represents
    <3>6. w \in w .. n + 1 /\ l \in Nat
      BY <1>2
    <3> HIDE DEF q
    <3>7. QED
      BY <1>6, <1>7, <2>2, <3>2, <3>3, <3>5, <3>6 DEF q, Advances
  <2>8. QED
    BY <2>6, <2>7
<1>10. QED
  BY <1>8, <1>9
-----------------------------------------------------------------------------
(* The records the other methods leave.                                     *)

LEMMA ClearedRecvType ==
  ASSUME NEW r, IsRecvStorage(r)
  PROVE  IsRecvStorage(RecvClear(r)) /\ RecvClear(r).pop_queue = r.pop_queue
<1> DEFINE q == RecvClear(r)
<1>1. q = [r EXCEPT !.segments = << >>]
  BY DEF RecvClear
<1>2. << >> \in [DOMAIN << >> -> SequentialSegment] /\ DOMAIN << >> = {}
  OBVIOUS
<1> HIDE DEF q
<1>3. QED
  BY <1>1, <1>2 DEF IsRecvStorage, q

LEMMA PopFields ==
  ASSUME NEW r, IsRecvStorage(r), CanPop(r)
  PROVE  LET q == AfterPop(r) IN
         /\ IsRecvStorage(q)
         /\ q.pop_queue = Tail(r.pop_queue)
         /\ q.window = r.window /\ q.lower_bound = r.lower_bound
         /\ q.segments = r.segments
<1> DEFINE p == Tail(r.pop_queue)
<1>1. p \in Seq(SequentialSegment)
  BY DEF IsRecvStorage, CanPop
<1> HIDE DEF p
<1>2. AfterPop(r) = [r EXCEPT !.pop_queue = p]
  BY DEF AfterPop, p
<1>3. QED
  BY <1>1, <1>2 DEF IsRecvStorage, p

LEMMA PopAcknowledgeFields ==
  ASSUME NEW r, IsRecvStorage(r), NEW elapsed
  PROVE  LET q == AfterPopAcknowledge(r, elapsed) IN
         /\ IsRecvStorage(q)
         /\ q.pop_queue = r.pop_queue
         /\ q.window = r.window /\ q.lower_bound = r.lower_bound
         /\ q.segments = r.segments
<1>1. CurrentAck(r) \in SeqNum
  <2>1. r.window \in Int /\ 1 \in Int
    BY SequenceNumberAssumption DEF IsRecvStorage, SeqNum
  <2>2. QED
    BY <2>1, ResultsAreSequenceNumbers DEF CurrentAck
<1>2. QED
  BY <1>1 DEF AfterPopAcknowledge, IsRecvStorage
=============================================================================
