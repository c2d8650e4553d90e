---------------------------- MODULE SegmentCodec ----------------------------
(***************************************************************************)
(* How segments become UDP datagrams and datagrams segments again:         *)
(* `Segment::into_bytes` and the TryFrom conversions of src/src/segment.rs,*)
(* and the receive buffer of the listener, which cuts off what is longer.  *)
(*                                                                         *)
(* A datagram is a sequence of bytes.  Here the segments of all kinds are  *)
(* records; the other modules know the sequential ones, whose data are     *)
(* values of their own, as Segment.tla has them.                           *)
(***************************************************************************)
EXTENDS Integers, Sequences

CONSTANTS
  Byte,             (* The values a byte may take: 0 .. 255 in the code.   *)
  MAX_SEGMENT_LEN   (* 512 in the code.                                    *)

\* The instruction codes.
Code == [ Reset |-> 0, Establish |-> 1, Acknowledge |-> 16, Accept |-> 17,
          Finish |-> 18, Data |-> 19 ]

ASSUME CodecAssumption ==
  /\ Byte \subseteq 0 .. 255
  /\ \A variant \in DOMAIN Code : Code[variant] \in Byte
  /\ MAX_SEGMENT_LEN \in Nat /\ MAX_SEGMENT_LEN >= 3

\* The instruction code and the sequence number take a byte each.
MAX_DATA_LEN == MAX_SEGMENT_LEN - 2

\* The segments that consist of a code and a sequence number.
Numbered == {"Establish", "Acknowledge", "Accept", "Finish"}

ResetSegment == [variant |-> "Reset"]
WireSegment ==
  {ResetSegment}
  \cup [variant : Numbered, seq_num : Byte]
  \cup [ variant : {"Data"}, seq_num : Byte,
         data : UNION {[1 .. n -> Byte] : n \in 1 .. MAX_DATA_LEN} ]

-----------------------------------------------------------------------------
\* `into_bytes`
IntoBytes(segment) ==
  IF segment.variant = "Reset"
    THEN << Code.Reset >>
    ELSE << Code[segment.variant], segment.seq_num >> \o
           (IF segment.variant = "Data" THEN segment.data ELSE << >>)

\* `instr_code_of`, `seq_num_of` and `data_of` return something.
HasInstrCode(d) == Len(d) >= 1
HasSeqNum(d) == Len(d) >= 2

\* A faulty conversion of data, off by one at its maximum.
HasDataBug(d) == Len(d) - 2 \in 1 .. MAX_DATA_LEN - 1

HasData(d) == Len(d) - 2 \in 1 .. MAX_DATA_LEN

IsNumbered(d, variant) == d[1] = Code[variant] /\ HasSeqNum(d) /\ ~ HasData(d)
IsReset(d) == d[1] = Code.Reset /\ ~ HasSeqNum(d)
IsData(d) == d[1] = Code.Data /\ HasSeqNum(d) /\ HasData(d)

\* `TryFrom<&[u8]>` returns Ok.
Accepts(d) ==
  /\ Len(d) <= MAX_SEGMENT_LEN
  /\ HasInstrCode(d)
  /\ IsReset(d) \/ IsData(d) \/ \E variant \in Numbered : IsNumbered(d, variant)

\* What it returns.
TryFrom(d) ==
  IF IsReset(d)
    THEN ResetSegment
    ELSE IF IsData(d)
      THEN [variant |-> "Data", seq_num |-> d[2], data |-> SubSeq(d, 3, Len(d))]
      ELSE [ variant |-> CHOOSE variant \in Numbered : IsNumbered(d, variant),
             seq_num |-> d[2] ]

\* A faulty receive buffer with no byte to spare.
BufferedBug(d) ==
  SubSeq(d, 1, IF Len(d) > MAX_SEGMENT_LEN THEN MAX_SEGMENT_LEN ELSE Len(d))

\* What `recv_from` leaves of a datagram in its buffer of MAX_SEGMENT_LEN + 1.
Buffered(d) ==
  SubSeq(d, 1, IF Len(d) > MAX_SEGMENT_LEN + 1
                 THEN MAX_SEGMENT_LEN + 1 ELSE Len(d))

-----------------------------------------------------------------------------
(* One datagram at a time on the way to a socket: a peer's segment, or bytes *)
(* from anywhere.                                                           *)

NoSegment == [variant |-> "None"]

VARIABLES
  datagram,  (* the bytes on the way, or << >>                             *)
  segment    (* history: the segment a peer has sent in them, or NoSegment *)

vars == << datagram, segment >>

Init == datagram = << >> /\ segment = NoSegment

Send ==
  /\ datagram = << >>
  /\ segment' \in WireSegment
  /\ datagram' = IntoBytes(segment')

SendForeign ==
  /\ datagram = << >>
  /\ \E n \in 1 .. MAX_SEGMENT_LEN + 2 : datagram' \in [1 .. n -> Byte]
  /\ UNCHANGED segment

Arrive ==
  /\ datagram # << >>
  /\ datagram' = << >> /\ segment' = NoSegment

Next == Send \/ SendForeign \/ Arrive

Spec == Init /\ [][Next]_vars

TypeOK ==
  /\ datagram \in Seq(Byte)
  /\ segment \in WireSegment \cup {NoSegment}

\* No datagram is taken for a segment that it is not: what is accepted, from
\* the buffer that may have cut it off, is the segment's own encoding.
OnlyEncodingsAccepted ==
  Accepts(Buffered(datagram)) =>
    /\ TryFrom(Buffered(datagram)) \in WireSegment
    /\ IntoBytes(TryFrom(Buffered(datagram))) = datagram

\* The peer gets the segment that was sent: its encoding fits the buffer, is
\* accepted, and is read as that very segment.
EncodingsAreRead ==
  segment # NoSegment =>
    Accepts(Buffered(datagram)) /\ TryFrom(Buffered(datagram)) = segment
=============================================================================
