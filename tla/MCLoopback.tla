----------------------------- MODULE MCLoopback -----------------------------
(***************************************************************************)
(* Loopback with a few interchangeable keys: enough for one entry to hide  *)
(* behind another in the queue.                                            *)
(***************************************************************************)
EXTENDS Loopback, TLC
KeySymmetry == Permutations(Keys)
=============================================================================
