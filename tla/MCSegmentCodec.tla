--------------------------- MODULE MCSegmentCodec ---------------------------
(* Every instruction code, and a byte that is none. *)
EXTENDS SegmentCodec

MCByte == {0, 1, 16, 17, 18, 19, 255}
=============================================================================
