--------------------------- MODULE MCSlidingWindow --------------------------
(* Small instances of SlidingWindow for TLC: every written segment carries  *)
(* data of its own, so a skipped, repeated or swapped one shows.            *)
EXTENDS SlidingWindowInvariant

MCData == 1 .. 12
MCStream7 == [i \in 1 .. 7 |-> i]
MCStream5 == [i \in 1 .. 5 |-> i]
MCStream2 == [i \in 1 .. 2 |-> i]
MCStarts == {3}
=============================================================================
