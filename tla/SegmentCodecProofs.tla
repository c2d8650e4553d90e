------------------------- MODULE SegmentCodecProofs -------------------------
(***************************************************************************)
(* Encoding and decoding are inverse to each other, for every segment and  *)
(* every datagram of bytes, whatever the maximal length.                   *)
(***************************************************************************)
EXTENDS SegmentCodec, SequenceTheorems, TLAPS

\* What is known of the codes and lengths.
LEMMA CodecConstants ==
  /\ MAX_SEGMENT_LEN \in Nat /\ MAX_SEGMENT_LEN >= 3
  /\ MAX_DATA_LEN \in Nat
  /\ Code.Reset = 0 /\ Code.Data = 19
  /\ \A variant \in Numbered :
       /\ Code[variant] \in Byte /\ Code[variant] # 0 /\ Code[variant] # 19
       /\ \A other \in Numbered : Code[other] = Code[variant] => other = variant
  /\ 0 \in Byte /\ 19 \in Byte /\ Byte \subseteq Int
BY CodecAssumption DEF Code, Numbered, MAX_DATA_LEN

\* A datagram that is not too long passes the buffer; one that is too long is
\* still too long afterwards.
LEMMA BufferKeepsLength ==
  ASSUME NEW d \in Seq(Byte)
  PROVE  /\ Buffered(d) \in Seq(Byte)
         /\ Len(d) <= MAX_SEGMENT_LEN => Buffered(d) = d
         /\ Len(d) > MAX_SEGMENT_LEN => Len(Buffered(d)) > MAX_SEGMENT_LEN
<1>1. MAX_SEGMENT_LEN \in Nat /\ Len(d) \in Nat
  BY CodecConstants
<1>2. CASE Len(d) <= MAX_SEGMENT_LEN
  <2>1. Buffered(d) = SubSeq(d, 1, Len(d))
    BY <1>1, <1>2 DEF Buffered
  <2>2. SubSeq(d, 1, Len(d)) = d
    OBVIOUS
  <2>3. QED
    BY <1>1, <1>2, <2>1, <2>2
<1>3. CASE Len(d) = MAX_SEGMENT_LEN + 1
  <2>1. Buffered(d) = SubSeq(d, 1, Len(d))
    BY <1>1, <1>3 DEF Buffered
  <2>2. SubSeq(d, 1, Len(d)) = d
    OBVIOUS
  <2>3. QED
    BY <1>1, <1>3, <2>1, <2>2
<1>4. CASE Len(d) > MAX_SEGMENT_LEN + 1
  <2> DEFINE n == MAX_SEGMENT_LEN + 1
  <2>1. Buffered(d) = SubSeq(d, 1, n)
    BY <1>4 DEF Buffered
  <2>2. n \in Nat /\ n <= Len(d) /\ n > MAX_SEGMENT_LEN
    BY <1>1, <1>4
  <2> HIDE DEF n
  <2>3. SubSeq(d, 1, n) \in Seq(Byte) /\ Len(SubSeq(d, 1, n)) = n
    BY <2>2
  <2>4. QED
    BY <1>1, <1>4, <2>1, <2>2, <2>3
<1>5. QED
  BY <1>1, <1>2, <1>3, <1>4

\* Every segment's encoding is read as that segment.
LEMMA RoundTrip ==
  ASSUME NEW s \in WireSegment
  PROVE  LET d == IntoBytes(s) IN
         /\ d \in Seq(Byte) /\ d # << >>
         /\ Accepts(Buffered(d)) /\ TryFrom(Buffered(d)) = s
<1> DEFINE d == IntoBytes(s)
<1>1. CASE s = ResetSegment
  <2>1. d = << 0 >>
    BY <1>1, CodecConstants DEF IntoBytes, ResetSegment
  <2>2. d \in Seq(Byte) /\ Len(d) = 1 /\ d[1] = 0
    BY <2>1, CodecConstants
  <2> HIDE DEF d
  <2>3. Buffered(d) = d
    <3>1. Len(d) <= MAX_SEGMENT_LEN
      BY <2>2, CodecConstants
    <3>2. QED
      BY <2>2, <3>1, BufferKeepsLength
  <2>4. IsReset(d)
    BY <2>2, CodecConstants DEF IsReset, HasSeqNum
  <2>5. Accepts(d)
    BY <2>2, <2>4, CodecConstants DEF Accepts, HasInstrCode
  <2>6. TryFrom(d) = s
    BY <1>1, <2>4 DEF TryFrom
  <2>7. d # << >>
    BY <2>2
  <2>8. QED
    BY <2>2, <2>3, <2>5, <2>6, <2>7 DEF d
<1>2. CASE s \in [variant : Numbered, seq_num : Byte]
  <2>1. s.variant \in Numbered /\ s.seq_num \in Byte
        /\ s = [variant |-> s.variant, seq_num |-> s.seq_num]
    BY <1>2
  <2> DEFINE c == Code[s.variant]
             q == s.seq_num
  <2>2. d = << c, q >> \o << >>
    BY <2>1 DEF IntoBytes, Numbered
  <2>3. c \in Byte /\ c # 0 /\ c # 19 /\ q \in Byte
    BY <2>1, CodecConstants
  <2> HIDE DEF c, q
  <2>4. d = << c, q >>
    BY <2>2, <2>3
  <2>5. d \in Seq(Byte) /\ Len(d) = 2 /\ d[1] = c /\ d[2] = q
    BY <2>3, <2>4
  <2> HIDE DEF d
  <2>6. Buffered(d) = d
    <3>1. Len(d) <= MAX_SEGMENT_LEN
      BY <2>5, CodecConstants
    <3>2. QED
      BY <2>5, <3>1, BufferKeepsLength
  <2>7. HasInstrCode(d) /\ HasSeqNum(d) /\ ~ HasData(d)
    BY <2>5, CodecConstants DEF HasInstrCode, HasSeqNum, HasData
  <2>8. \A variant \in Numbered : IsNumbered(d, variant) <=> variant = s.variant
    BY <2>1, <2>5, <2>7, CodecConstants DEF IsNumbered, c
  <2>9. (CHOOSE variant \in Numbered : IsNumbered(d, variant)) = s.variant
    BY <2>1, <2>8
  <2>10. ~ IsReset(d) /\ ~ IsData(d)
    BY <2>7 DEF IsReset, IsData
  <2>11. TryFrom(d) = s
    BY <2>1, <2>5, <2>9, <2>10 DEF TryFrom, q
  <2>12. Accepts(d)
    BY <2>1, <2>5, <2>7, <2>8, CodecConstants DEF Accepts
  <2>13. QED
    BY <2>5, <2>6, <2>11, <2>12 DEF d
<1>3. CASE s.variant = "Data" /\ s \in WireSegment
  <2>1. PICK n \in 1 .. MAX_DATA_LEN :
          s \in [variant : {"Data"}, seq_num : Byte, data : [1 .. n -> Byte]]
    BY <1>3 DEF WireSegment, ResetSegment, Numbered
  <2> DEFINE q == s.seq_num
             x == s.data
  <2>2. /\ q \in Byte /\ x \in Seq(Byte) /\ Len(x) = n
        /\ s = [variant |-> "Data", seq_num |-> q, data |-> x]
    BY <2>1, CodecConstants
  <2>3. d = << 19, q >> \o x
    BY <2>2, CodecConstants DEF IntoBytes
  <2> HIDE DEF q, x
  <2> DEFINE h == << 19, q >>
  <2>4. h \in Seq(Byte) /\ Len(h) = 2 /\ h[1] = 19 /\ h[2] = q
    BY <2>2, CodecConstants
  <2>5. /\ d \in Seq(Byte) /\ Len(d) = n + 2 /\ d[1] = 19 /\ d[2] = q
        /\ \A i \in 1 .. n : d[i + 2] = x[i]
    <3>0. d = h \o x
      BY <2>3 DEF h
    <3> HIDE DEF d, h
    <3>1. d \in Seq(Byte) /\ Len(d) = Len(h) + Len(x)
      BY <2>2, <2>4, <3>0, ConcatProperties
    <3>2. \A i \in 1 .. Len(h) + Len(x) :
            d[i] = IF i <= Len(h) THEN h[i] ELSE x[i - Len(h)]
      BY <2>2, <2>4, <3>0, ConcatProperties
    <3>3. n \in Nat
      BY CodecConstants
    <3>4. 1 \in 1 .. n + 2 /\ 2 \in 1 .. n + 2
      BY <3>3
    <3>5. d[1] = 19 /\ d[2] = q
      BY <2>2, <2>4, <3>2, <3>3, <3>4
    <3>6. ASSUME NEW i \in 1 .. n PROVE d[i + 2] = x[i]
      <4>1. i + 2 \in 1 .. 2 + n /\ ~ (i + 2 <= 2) /\ i + 2 - 2 = i
        BY <3>3
      <4>2. QED
        BY <2>2, <2>4, <3>2, <4>1
    <3>7. Len(d) = n + 2
      BY <2>2, <2>4, <3>1, <3>3
    <3>8. QED
      BY <3>1, <3>5, <3>6, <3>7
  <2> HIDE DEF d
  <2>6. /\ n \in Nat /\ n >= 1 /\ n <= MAX_SEGMENT_LEN - 2
        /\ MAX_SEGMENT_LEN \in Nat /\ MAX_DATA_LEN = MAX_SEGMENT_LEN - 2
    BY CodecConstants DEF MAX_DATA_LEN
  <2>7. Len(d) <= MAX_SEGMENT_LEN
    BY <2>5, <2>6
  <2>8. Buffered(d) = d
    BY <2>5, <2>7, BufferKeepsLength
  <2>9. HasInstrCode(d) /\ HasSeqNum(d) /\ HasData(d)
    BY <2>5, <2>6 DEF HasInstrCode, HasSeqNum, HasData
  <2>10. IsData(d) /\ ~ IsReset(d)
    BY <2>5, <2>9, CodecConstants DEF IsData, IsReset
  <2>11. SubSeq(d, 3, Len(d)) = x
    <3> DEFINE y == SubSeq(d, 3, Len(d))
    <3>1. y \in Seq(Byte) /\ Len(y) = n /\ \A i \in 1 .. n : y[i] = d[i + 2]
      BY <2>5, <2>6
    <3> HIDE DEF y
    <3>2. y = x
      BY <2>2, <2>5, <3>1
    <3>3. QED
      BY <3>2 DEF y
  <2>12. TryFrom(d) = s
    BY <2>2, <2>5, <2>10, <2>11 DEF TryFrom
  <2>13. Accepts(d)
    BY <2>7, <2>9, <2>10 DEF Accepts
  <2>14. d # << >>
    BY <2>5, <2>6
  <2>15. QED
    BY <2>5, <2>8, <2>12, <2>13, <2>14 DEF d
<1>4. QED
  BY <1>1, <1>2, <1>3 DEF WireSegment

\* What is accepted is the encoding of the segment it is read as.
LEMMA Canonical ==
  ASSUME NEW d \in Seq(Byte), Accepts(Buffered(d))
  PROVE  /\ TryFrom(Buffered(d)) \in WireSegment
         /\ IntoBytes(TryFrom(Buffered(d))) = d
<1>1. /\ MAX_SEGMENT_LEN \in Nat /\ MAX_DATA_LEN = MAX_SEGMENT_LEN - 2
      /\ MAX_DATA_LEN \in Nat
  BY CodecConstants DEF MAX_DATA_LEN
<1>2. Buffered(d) = d /\ Len(d) <= MAX_SEGMENT_LEN /\ Len(d) \in Nat
  <2>1. ~ (Len(Buffered(d)) > MAX_SEGMENT_LEN)
    <3>1. Len(Buffered(d)) \in Nat /\ Len(Buffered(d)) <= MAX_SEGMENT_LEN
      BY BufferKeepsLength DEF Accepts
    <3>2. QED
      BY <1>1, <3>1
  <2>2. ~ (Len(d) > MAX_SEGMENT_LEN)
    BY <2>1, BufferKeepsLength
  <2>3. Len(d) <= MAX_SEGMENT_LEN /\ Len(d) \in Nat
    BY <1>1, <2>2
  <2>4. QED
    BY <2>3, BufferKeepsLength
<1>3. /\ Accepts(d) /\ Len(d) >= 1
  BY <1>2 DEF Accepts, HasInstrCode
<1>4. CASE IsReset(d)
  <2>1. Len(d) = 1 /\ d[1] = 0
    <3>1. ~ (Len(d) >= 2) /\ d[1] = Code.Reset
      BY <1>4 DEF IsReset, HasSeqNum
    <3>2. Len(d) = 1
      BY <1>2, <1>3, <3>1
    <3>3. QED
      BY <3>1, <3>2, CodecConstants
  <2>2. d = << 0 >>
    <3> DEFINE e == << 0 >>
    <3>1. e \in Seq(Byte) /\ Len(e) = 1 /\ e[1] = 0
      BY CodecConstants
    <3>2. \A i \in 1 .. 1 : i = 1
      OBVIOUS
    <3> HIDE DEF e
    <3>3. \A i \in 1 .. 1 : d[i] = e[i]
      BY <2>1, <3>1, <3>2
    <3>4. d = e
      BY <2>1, <3>1, <3>3
    <3>5. QED
      BY <3>4 DEF e
  <2>3. TryFrom(d) = ResetSegment
    BY <1>4 DEF TryFrom
  <2>4. QED
    BY <1>2, <2>2, <2>3, CodecConstants DEF IntoBytes, ResetSegment, WireSegment
<1>5. CASE IsData(d) /\ ~ IsReset(d)
  <2> DEFINE n == Len(d) - 2
             q == d[2]
             x == SubSeq(d, 3, Len(d))
  <2>1. n \in 1 .. MAX_DATA_LEN /\ n \in Nat /\ Len(d) = n + 2
    BY <1>1, <1>2, <1>5 DEF IsData, HasData
  <2> HIDE DEF n
  <2>2. d[1] = 19 /\ q \in Byte
    <3>1. d[1] = 19
      BY <1>5, CodecConstants DEF IsData
    <3>2. 2 \in 1 .. Len(d)
      BY <2>1
    <3>3. QED
      BY <3>1, <3>2
  <2>3. /\ x \in Seq(Byte) /\ Len(x) = n /\ x \in [1 .. n -> Byte]
        /\ \A i \in 1 .. n : x[i] = d[i + 2]
    <3> DEFINE m == Len(d)
    <3>1. m \in Nat /\ m = n + 2 /\ m - 3 + 1 = n /\ n >= 1
      BY <2>1
    <3> HIDE DEF m
    <3>2. /\ SubSeq(d, 3, m) \in Seq(Byte) /\ Len(SubSeq(d, 3, m)) = n
          /\ \A i \in 1 .. n : SubSeq(d, 3, m)[i] = d[3 + i - 1]
      <4>1. 3 \in 1 .. Len(d) + 1 /\ m \in 3 - 1 .. Len(d)
        BY <3>1 DEF m
      <4>2. QED
        BY <3>1, <4>1, SubSeqProperties
    <3>3. \A i \in 1 .. n : 3 + i - 1 = i + 2
      BY <3>1
    <3>4. x \in Seq(Byte) /\ Len(x) = n /\ \A i \in 1 .. n : x[i] = d[i + 2]
      BY <3>2, <3>3 DEF m
    <3> HIDE DEF x
    <3>5. QED
      BY <3>4
  <2>4. TryFrom(d) = [variant |-> "Data", seq_num |-> q, data |-> x]
    BY <1>5 DEF TryFrom
  <2> HIDE DEF q, x
  <2>5. TryFrom(d) \in WireSegment
    BY <2>1, <2>2, <2>3, <2>4 DEF WireSegment
  <2>6. IntoBytes(TryFrom(d)) = << 19, q >> \o x
    BY <2>4, CodecConstants DEF IntoBytes
  <2> DEFINE h == << 19, q >>
  <2>7. h \in Seq(Byte) /\ Len(h) = 2 /\ h[1] = 19 /\ h[2] = q
    BY <2>2, CodecConstants
  <2> HIDE DEF h
  <2>8. h \o x = d
    <3>1. h \o x \in Seq(Byte) /\ Len(h \o x) = n + 2
      <4>1. h \o x \in Seq(Byte) /\ Len(h \o x) = Len(h) + Len(x)
        BY <2>3, <2>7, ConcatProperties
      <4>2. QED
        BY <2>1, <2>3, <2>7, <4>1
    <3>2. ASSUME NEW i \in 1 .. n + 2 PROVE (h \o x)[i] = d[i]
      <4>1. (h \o x)[i] = IF i <= 2 THEN h[i] ELSE x[i - 2]
        <5>1. i \in 1 .. Len(h) + Len(x)
          BY <2>1, <2>3, <2>7
        <5>2. \A k \in 1 .. Len(h) + Len(x) :
                (h \o x)[k] = IF k <= Len(h) THEN h[k] ELSE x[k - Len(h)]
          <6>1. h \in Seq(Byte) /\ x \in Seq(Byte)
            BY <2>3, <2>7
          <6>2. QED
            BY <6>1, ConcatProperties, Zenon
        <5>3. QED
          BY <2>7, <5>1, <5>2
      <4>2. CASE i <= 2
        <5>1. i = 1 \/ i = 2
          BY <2>1, <4>2
        <5>2. QED
          BY <2>2, <2>7, <4>1, <4>2, <5>1 DEF q
      <4>3. CASE ~ (i <= 2)
        <5>1. i - 2 \in 1 .. n /\ i - 2 + 2 = i
          BY <2>1, <4>3
        <5>2. QED
          BY <2>3, <4>1, <4>3, <5>1
      <4>4. QED
        BY <4>2, <4>3
    <3> DEFINE y == h \o x
    <3> HIDE DEF y
    <3>3. y = d
      BY <2>1, <3>1, <3>2 DEF y
    <3>4. QED
      BY <3>3 DEF y
  <2>9. QED
    BY <1>2, <2>5, <2>6, <2>8 DEF h
<1>6. CASE ~ IsReset(d) /\ ~ IsData(d)
  <2>1. PICK variant \in Numbered : IsNumbered(d, variant)
    BY <1>3, <1>6 DEF Accepts
  <2>2. \A other \in Numbered : IsNumbered(d, other) <=> other = variant
    BY <2>1, CodecConstants DEF IsNumbered
  <2>3. (CHOOSE other \in Numbered : IsNumbered(d, other)) = variant
    BY <2>1, <2>2
  <2> DEFINE c == Code[variant]
             q == d[2]
  <2>4. TryFrom(d) = [variant |-> variant, seq_num |-> q]
    BY <1>6, <2>3 DEF TryFrom
  <2>5. Len(d) = 2 /\ d[1] = c
    <3>1. d[1] = c /\ Len(d) >= 2 /\ ~ (Len(d) - 2 \in 1 .. MAX_DATA_LEN)
      BY <2>1 DEF IsNumbered, HasSeqNum, HasData
    <3>2. Len(d) = 2
      <4> DEFINE n == Len(d)
      <4>1. /\ n \in Nat /\ n >= 2 /\ n <= MAX_SEGMENT_LEN
            /\ ~ (n - 2 \in 1 .. MAX_SEGMENT_LEN - 2)
        BY <1>1, <1>2, <3>1
      <4> HIDE DEF n
      <4>2. n = 2
        BY <1>1, <4>1
      <4>3. QED
        BY <4>2 DEF n
    <3>3. QED
      BY <3>1, <3>2
  <2>6. q \in Byte /\ c \in Byte
    <3>1. 2 \in 1 .. Len(d)
      BY <2>5
    <3>2. QED
      BY <3>1, CodecConstants
  <2>7. IntoBytes(TryFrom(d)) = << c, q >> \o << >>
    <3>1. variant # "Reset" /\ variant # "Data"
      BY DEF Numbered
    <3> DEFINE s == TryFrom(d)
    <3>2. s.variant = variant /\ s.seq_num = q
      BY <2>4
    <3> HIDE DEF s
    <3>3. IntoBytes(s) = << c, q >> \o << >>
      BY <3>1, <3>2 DEF IntoBytes
    <3>4. QED
      BY <3>3 DEF s
  <2>8. TryFrom(d) \in WireSegment
    BY <2>4, <2>6 DEF WireSegment
  <2>9. << c, q >> \o << >> = d
    <3> HIDE DEF c
    <3> DEFINE h == << c, q >>
    <3>1. h \in Seq(Byte) /\ Len(h) = 2 /\ h[1] = c /\ h[2] = q
      BY <2>6
    <3>2. h \o << >> = h
      BY <2>6
    <3> HIDE DEF h
    <3>3. h = d
      <4>1. \A i \in 1 .. 2 : i = 1 \/ i = 2
        OBVIOUS
      <4>2. \A i \in 1 .. 2 : h[i] = d[i]
        BY <2>5, <3>1, <4>1
      <4>3. QED
        BY <2>5, <3>1, <4>2
    <3>4. QED
      BY <3>2, <3>3 DEF h
  <2>10. QED
    BY <1>2, <2>7, <2>8, <2>9
<1>7. QED
  BY <1>4, <1>5, <1>6

-----------------------------------------------------------------------------
\* The bytes on the way are the encoding of the segment that was sent.
SentInv == segment # NoSegment =>
             segment \in WireSegment /\ datagram = IntoBytes(segment)

LEMMA CodecInvariant == Spec => [](TypeOK /\ SentInv)
<1>1. << >> \in Seq(Byte)
  OBVIOUS
<1>2. Init => TypeOK /\ SentInv
  BY <1>1 DEF Init, TypeOK, SentInv
<1>3. TypeOK /\ SentInv /\ [Next]_vars => (TypeOK /\ SentInv)'
  <2> SUFFICES ASSUME TypeOK, SentInv, [Next]_vars
               PROVE  TypeOK' /\ SentInv'
    OBVIOUS
  <2>1. CASE Send
    BY <2>1, RoundTrip DEF Send, TypeOK, SentInv
  <2>2. CASE SendForeign
    <3>1. segment = NoSegment
      <4>1. ASSUME NEW s \in WireSegment PROVE IntoBytes(s) # << >>
        BY RoundTrip
      <4>2. QED
        BY <2>2, <4>1 DEF SendForeign, SentInv
    <3>2. PICK n \in 1 .. MAX_SEGMENT_LEN + 2 : datagram' \in [1 .. n -> Byte]
      BY <2>2 DEF SendForeign
    <3>3. datagram' \in Seq(Byte)
      <4>1. n \in Nat
        BY CodecConstants
      <4>2. QED
        BY <3>2, <4>1
    <3>4. QED
      BY <2>2, <3>1, <3>3 DEF SendForeign, TypeOK, SentInv
  <2>3. CASE Arrive
    BY <1>1, <2>3 DEF Arrive, TypeOK, SentInv
  <2>4. CASE UNCHANGED vars
    BY <2>4 DEF vars, TypeOK, SentInv
  <2>5. QED
    BY <2>1, <2>2, <2>3, <2>4 DEF Next
<1>4. QED
  BY <1>2, <1>3, PTL DEF Spec

\* No datagram of bytes, whoever sent it and however long it is, is taken for
\* a segment that it does not encode.
THEOREM NothingMisread == Spec => []OnlyEncodingsAccepted
<1>1. TypeOK => OnlyEncodingsAccepted
  BY Canonical DEF TypeOK, OnlyEncodingsAccepted
<1>2. QED
  BY <1>1, CodecInvariant, PTL

\* The encoding of every segment is accepted and read as that segment.
THEOREM EverySegmentRead == Spec => []EncodingsAreRead
<1>1. SentInv => EncodingsAreRead
  BY RoundTrip DEF SentInv, EncodingsAreRead
<1>2. QED
  BY <1>1, CodecInvariant, PTL
=============================================================================
