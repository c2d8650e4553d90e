---------------------------- MODULE MCStreamInner ---------------------------
(* Small instances of StreamInner for TLC: two applications' handles, and a *)
(* peer whose DATA segments carry bytes of different values.                *)
EXTENDS StreamInner

CONSTANTS h1, h2

MCHandles == {h1, h2}
MCData == UNION {[1 .. n -> 1 .. 12] : n \in 1 .. 3}
Peer1 == << Finish >>
Peer3 == << DataSegment(<< 1, 2 >>), DataSegment(<< 3 >>), Finish >>
PeerBytes == << DataSegment(<< 1 >>), DataSegment(<< 2, 3, 4 >>), Finish >>

CallsBytes == (h1 :> {"write", "flush", "read"}) @@ (h2 :> {"write", "read", "finish_write"})
CallsBoth == (h1 :> {"finish_write", "drop"}) @@ (h2 :> {"read", "drop"})
CallsEnding == (h1 :> {"write", "finish_write", "drop"})
               @@ (h2 :> {"finish_write", "read", "reset", "drop"})
CallsFinishing == (h1 :> {"finish_write"}) @@ (h2 :> {"reset"})
=============================================================================
