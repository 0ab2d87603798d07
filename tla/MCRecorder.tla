----------------------------- MODULE MCRecorder -----------------------------
(***************************************************************************)
(* Recorder with a handful of messages on two streams: "camera" takes the  *)
(* default codec, "depth" has one of its own.                              *)
(***************************************************************************)
EXTENDS Recorder

Traffic(stream, kinds) == {[stream |-> stream, kind |-> k] : k \in kinds}

\* Everything the subscriber, the codecs and the channel registry tell apart.
MCInputs == Traffic("camera", Kinds) \cup Traffic("depth", {"garbled", "custom"})
DepthAsLcm == [s \in {"depth"} |-> "lcm"]
=============================================================================
