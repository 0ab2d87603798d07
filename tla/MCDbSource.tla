----------------------------- MODULE MCDbSource -----------------------------
(***************************************************************************)
(* Every small recording.  Row ids only tell rows apart, so it is enough   *)
(* to let timestamps grow with the id and streams hold the first ids.      *)
(***************************************************************************)
EXTENDS DbSource

MCIds == 1..3
MCStreams == 1..2
MCTimes == 0..3

Growing == {f \in [MCIds -> MCTimes] :
              \A i, j \in MCIds : i < j => f[i] <= f[j]}

StrictlyGrowing == {f \in Growing : \A i, j \in MCIds : i < j => f[i] < f[j]}

Held == [MCStreams -> {1..n : n \in 0..3}]

\* No payload missing, or exactly one.
Blobs(held) ==
    {held} \cup {[held EXCEPT ![s] = @ \ {i}] : s \in MCStreams, i \in MCIds}

DistinctRecordings ==
    UNION {{[rows |-> held, ts |-> t, blobs |-> b] :
               t \in [MCStreams -> StrictlyGrowing], b \in Blobs(held)} : held \in Held}

\* Ties within a stream too; the first stream is full, all payloads are there.
TiedRecordings ==
    {[rows |-> held, ts |-> t, blobs |-> held] :
        held \in {h \in Held : h[1] = MCIds}, t \in [MCStreams -> Growing]}

ASSUME RecordingsDistinct == Recordings = DistinctRecordings => DistinctTimes
=============================================================================
