----------------------------- MODULE FifoChannel ----------------------------
(***************************************************************************)
(* What one direction of a stream promises: the segments accepted from the *)
(* writer come out at the reader in the order they were accepted, none     *)
(* missing, repeated or altered.                                           *)
(***************************************************************************)
EXTENDS Naturals, Sequences

CONSTANT Message

VARIABLES
  accepted,   (* all messages the writer's side has taken, in order *)
  received    (* all messages available to the reader, in order     *)

vars == << accepted, received >>

Init == accepted = << >> /\ received = << >>

Accepting ==
  /\ \E m \in Message : accepted' = Append(accepted, m)
  /\ UNCHANGED received

\* One or more further messages come out at once.
Delivering ==
  /\ \E n \in Len(received) + 1 .. Len(accepted) :
       received' = SubSeq(accepted, 1, n)
  /\ UNCHANGED accepted

Next == Accepting \/ Delivering

Spec == Init /\ [][Next]_vars

\* What is accepted does come out.
FairSpec == Spec /\ WF_vars(Delivering)
=============================================================================
