--------------------------- MODULE SequenceNumber ---------------------------
(***************************************************************************)
(* Sequence numbers and the window size.  The code's SequenceNumber is     *)
(* Wrapping<u8> (src/src/segment.rs) and WINDOW_SIZE is Wrapping(10)       *)
(* (src/src/util.rs): unsigned arithmetic that wraps at 2^8.  Here the     *)
(* modulus and the window are parameters; the code has 256 and 10.         *)
(***************************************************************************)
EXTENDS Integers

CONSTANTS
  Modulus,      (* 2^w of the unsigned type; 256 in the code.              *)
  WINDOW_SIZE   (* Segments that may be unacknowledged; 10 in the code.    *)

ASSUME SequenceNumberAssumption ==
  /\ WINDOW_SIZE \in Nat \ {0}
  /\ Modulus \in Nat
  /\ Modulus >= 2 * WINDOW_SIZE

SeqNum == 0 .. Modulus - 1

Wrap(x) == x % Modulus

\* A faulty Plus, of a type that does not wrap.
PlusUnwrappedBug(a, b) == a + b

\* `a + b` and `a - b` on Wrapping<u8>.
Plus(a, b) == Wrap(a + b)
Minus(a, b) == Wrap(a - b)
=============================================================================
