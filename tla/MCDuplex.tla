------------------------------- MODULE MCDuplex ------------------------------
(* An instance of Duplex for TLC. *)
EXTENDS Duplex

MCData == {}
=============================================================================
