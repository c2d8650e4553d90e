------------------------------- MODULE Segment ------------------------------
(***************************************************************************)
(* The sequential segments of src/src/segment.rs: the ones that carry a    *)
(* sequence number of their own and that the peer acknowledges.            *)
(***************************************************************************)
CONSTANT Data   (* What one DATA segment can carry: a byte block. *)

Accept == [variant |-> "Accept"]
Finish == [variant |-> "Finish"]
DataSegment(d) == [variant |-> "Data", data |-> d]

SequentialSegment == {Accept, Finish} \cup {DataSegment(d) : d \in Data}
=============================================================================
