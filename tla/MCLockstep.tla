----------------------------- MODULE MCLockstep -----------------------------
(***************************************************************************)
(* Lockstep with a handful of gate messages.  Three are the least with a   *)
(* late reply to the first one arriving while the third waits; two replies *)
(* to a message are the least that make the latest differ from the first.  *)
(***************************************************************************)
EXTENDS Lockstep
=============================================================================
