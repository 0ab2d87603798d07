---------------------------- MODULE MergedReplay ----------------------------
(***************************************************************************)
(* What a recording source promises to the replay loop, with no paging:    *)
(* one pass hands out every row of every stream exactly once, earliest     *)
(* first, the lower stream index first when two streams tie, and says      *)
(* "end" only when nothing is left.  DbSource is shown to implement it.    *)
(***************************************************************************)
EXTENDS Integers

CONSTANTS
    Streams,  \* stream indices, in the order the recording lists them
    Ids       \* row ids

VARIABLES
    rows,       \* rows[s]: the ids stream s holds
    ts,         \* ts[s][i]: timestamp of row i of stream s
    blobs,      \* blobs[s]: ids whose payload row exists
    remaining,  \* <<stream, id>> pairs this pass still owes
    last,       \* the pair most recently handed out, or None
    outcome     \* "reading", "end" or "error"

vars == <<rows, ts, blobs, remaining, last, outcome>>

None == <<0, 0>>

AllRows == {m \in Streams \X Ids : m[2] \in rows[m[1]]}

TimeOf(m) == ts[m[1]][m[2]]

\* The order a merge of several timestamp-ordered streams puts rows in.
Precedes(m, n) ==
    \/ TimeOf(m) < TimeOf(n)
    \/ TimeOf(m) = TimeOf(n) /\ m[1] <= n[1]

Earliest(m) == m \in remaining /\ \A n \in remaining : Precedes(m, n)

Init == remaining = AllRows /\ last = None /\ outcome = "reading"

Recording == <<rows, ts, blobs>>

HandOut ==
    /\ outcome = "reading"
    /\ \E m \in remaining :
          /\ Earliest(m)
          /\ m[2] \in blobs[m[1]]
          /\ remaining' = remaining \ {m}
          /\ last' = m
    /\ UNCHANGED <<Recording, outcome>>

\* A row without a payload ends the run with an error.
Fail ==
    /\ outcome = "reading"
    /\ \E m \in remaining :
          /\ Earliest(m)
          /\ m[2] \notin blobs[m[1]]
          /\ remaining' = remaining \ {m}
    /\ outcome' = "error"
    /\ UNCHANGED <<Recording, last>>

End ==
    /\ outcome = "reading"
    /\ remaining = {}
    /\ outcome' = "end"
    /\ UNCHANGED <<Recording, remaining, last>>

Restart ==
    /\ outcome # "error"
    /\ remaining' = AllRows
    /\ last' = None
    /\ outcome' = "reading"
    /\ UNCHANGED Recording

Next == HandOut \/ Fail \/ End \/ Restart

Spec == Init /\ [][Next]_vars
=============================================================================
