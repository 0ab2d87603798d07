------------------------------- MODULE MCCdr -------------------------------
(***************************************************************************)
(* Every supported type and one that is not; frame_ids of every length     *)
(* modulo 8, so that what follows starts at every alignment; images that   *)
(* are raw, compressed, neither, and raw with the magic bytes of a jpeg.   *)
(***************************************************************************)
EXTENDS Cdr
MCKinds == Supported \cup {"String"}
MCImages ==
    {[encoding |-> e, magic |-> m, height |-> h, step |-> s, len |-> l] :
        e \in {"rgb8", "jpeg"}, m \in {"jpeg", "png", "unrecognised"},
        h \in {-1, 2}, s \in {0, 4}, l \in {8, 9}}
=============================================================================
