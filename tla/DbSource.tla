------------------------------ MODULE DbSource ------------------------------
(***************************************************************************)
(* The `.db` reader of source.rs: one cursor per stream, each filled a     *)
(* page at a time by `ts > last_ts ORDER BY ts LIMIT INDEX_PAGE`, merged   *)
(* by timestamp on every call of `next`.                                   *)
(*                                                                         *)
(* A page is the set of its row ids: the queue is sorted by `ts`, so its   *)
(* front is a row of least `ts`, and SQLite leaves the order of equal ones *)
(* open.  A call of `next` (its fills, the pop and the payload lookup) is  *)
(* one step, because nothing else touches the cursors meanwhile.           *)
(***************************************************************************)
EXTENDS Integers, FiniteSets

CONSTANTS
    NStreams,    \* number of streams the selector let through
    Ids,         \* row ids
    MaxTime,     \* timestamps are 0..MaxTime
    INDEX_PAGE,  \* rows fetched by one query
    Recordings,  \* the recordings considered: records [rows, ts, blobs]
    CutShort     \* TRUE when --duration may end a pass before its last row

Streams == 1..NStreams
Times == 0..MaxTime
NegInf == -1     \* f64::NEG_INFINITY: below every timestamp
None == <<0, 0>>

ASSUME DbSourceAssumption ==
    /\ NStreams \in Nat \ {0}
    /\ IsFiniteSet(Ids)
    /\ MaxTime \in Nat
    /\ INDEX_PAGE \in Nat \ {0}
    /\ CutShort \in BOOLEAN
    /\ \A r \in Recordings :
          /\ r.rows \in [Streams -> SUBSET Ids]
          /\ r.ts \in [Streams -> [Ids -> Times]]
          /\ r.blobs \in [Streams -> SUBSET Ids]

VARIABLES
    rows, ts, blobs,  \* the recording: ids held, their timestamps, payloads present
    page,             \* page[s]: rows fetched and not yet handed out
    last_ts,          \* last_ts[s]: timestamp of the last row ever fetched
    done,             \* done[s]: a query came back empty
    read,             \* read[s]: rows handed out in this pass (history)
    last,             \* <<stream, id>> handed out most recently (history)
    outcome           \* "reading", "end" after Ok(None), "error" after Err

recording == <<rows, ts, blobs>>
cursors == <<page, last_ts, done>>
vars == <<rows, ts, blobs, page, last_ts, done, read, last, outcome>>

-----------------------------------------------------------------------------
(* fill *)

\* WHERE ts > ?1
After(s) == {i \in rows[s] : ts[s][i] > last_ts[s]}

\* Mutant: the query has no ORDER BY.
AnyPage(s, P) ==
    /\ P \subseteq After(s)
    /\ Cardinality(P) <= INDEX_PAGE
    /\ P # After(s) => Cardinality(P) = INDEX_PAGE

\* ORDER BY ts LIMIT ?2: what one query on stream s may return.
IsPage(s, P) ==
    /\ P \subseteq After(s)
    /\ Cardinality(P) <= INDEX_PAGE
    /\ P # After(s) => Cardinality(P) = INDEX_PAGE
    /\ \A i \in P, j \in After(s) \ P : ts[s][i] <= ts[s][j]

\* The timestamp of the last row of a non-empty page.
EndOf(s, P) ==
    LET stamps == {ts[s][i] : i \in P}
    IN  CHOOSE t \in stamps : \A u \in stamps : u <= t

NeedsFill(s) == page[s] = {} /\ ~done[s]

\* The pages after the loop that fills every cursor that ran dry.
Filled(pg) ==
    \A s \in Streams : IF NeedsFill(s) THEN IsPage(s, pg[s]) ELSE pg[s] = page[s]

\* Mutant: the position is not moved on after a query.
LastUnmoved(pg) == [s \in Streams |-> last_ts[s]]

LastAfter(pg) ==
    [s \in Streams |->
        IF NeedsFill(s) /\ pg[s] # {} THEN EndOf(s, pg[s]) ELSE last_ts[s]]

DoneAfter(pg) == [s \in Streams |-> done[s] \/ (NeedsFill(s) /\ pg[s] = {})]

-----------------------------------------------------------------------------
(* next and rewind *)

\* Mutant: the last of equal fronts is kept, as max_by does.
IsLastHead(pg, s, i) ==
    /\ i \in pg[s]
    /\ \A r \in Streams : \A j \in pg[r] :
          \/ ts[s][i] < ts[r][j]
          \/ ts[s][i] = ts[r][j] /\ s >= r

\* Mutant: the first cursor that has a row is drained first.
IsFirstFront(pg, s, i) ==
    /\ i \in pg[s]
    /\ \A j \in pg[s] : ts[s][i] <= ts[s][j]
    /\ \A r \in Streams : r < s => pg[r] = {}

\* min_by over the cursors' fronts keeps the first of equal ones.
IsHead(pg, s, i) ==
    /\ i \in pg[s]
    /\ \A r \in Streams : \A j \in pg[r] :
          \/ ts[s][i] < ts[r][j]
          \/ ts[s][i] = ts[r][j] /\ s <= r

Init ==
    /\ \E r \in Recordings : rows = r.rows /\ ts = r.ts /\ blobs = r.blobs
    /\ page = [s \in Streams |-> {}]
    /\ last_ts = [s \in Streams |-> NegInf]
    /\ done = [s \in Streams |-> FALSE]
    /\ read = [s \in Streams |-> {}]
    /\ last = None
    /\ outcome = "reading"

\* next() returning Ok(Some(record)).
HandOut ==
    /\ outcome = "reading"
    /\ \E pg \in [Streams -> SUBSET Ids] :
          /\ Filled(pg)
          /\ last_ts' = LastAfter(pg)
          /\ done' = DoneAfter(pg)
          /\ \E s \in Streams, i \in Ids :
                /\ IsHead(pg, s, i)
                /\ i \in blobs[s]
                /\ page' = [pg EXCEPT ![s] = @ \ {i}]
                /\ read' = [read EXCEPT ![s] = @ \cup {i}]
                /\ last' = <<s, i>>
    /\ UNCHANGED <<recording, outcome>>

\* next() returning Err: the row was popped, its payload row is missing.
MissingBlob ==
    /\ outcome = "reading"
    /\ \E pg \in [Streams -> SUBSET Ids] :
          /\ Filled(pg)
          /\ last_ts' = LastAfter(pg)
          /\ done' = DoneAfter(pg)
          /\ \E s \in Streams, i \in Ids :
                /\ IsHead(pg, s, i)
                /\ i \notin blobs[s]
                /\ page' = [pg EXCEPT ![s] = @ \ {i}]
    /\ outcome' = "error"
    /\ UNCHANGED <<recording, read, last>>

\* next() returning Ok(None): no cursor has a front.
Exhausted ==
    /\ outcome = "reading"
    /\ \E pg \in [Streams -> SUBSET Ids] :
          /\ Filled(pg)
          /\ \A s \in Streams : pg[s] = {}
          /\ last_ts' = LastAfter(pg)
          /\ done' = DoneAfter(pg)
          /\ page' = pg
    /\ outcome' = "end"
    /\ UNCHANGED <<recording, read, last>>

\* rewind(): --loop starts the next pass, after the last row or after the
\* replay loop broke off at --duration.
Rewind ==
    /\ \/ outcome = "end"
       \/ CutShort /\ outcome = "reading" /\ last # None
    /\ page' = [s \in Streams |-> {}]
    /\ last_ts' = [s \in Streams |-> NegInf]
    /\ done' = [s \in Streams |-> FALSE]
    /\ read' = [s \in Streams |-> {}]
    /\ last' = None
    /\ outcome' = "reading"
    /\ UNCHANGED recording

Next == HandOut \/ MissingBlob \/ Exhausted \/ Rewind

Spec == Init /\ [][Next]_vars

\* The replay loop keeps asking until the source says it is through.
FairSpec == Spec /\ WF_vars(HandOut \/ MissingBlob \/ Exhausted)

-----------------------------------------------------------------------------
(* Properties *)

TypeOK ==
    /\ rows \in [Streams -> SUBSET Ids]
    /\ ts \in [Streams -> [Ids -> Times]]
    /\ blobs \in [Streams -> SUBSET Ids]
    /\ page \in [Streams -> SUBSET Ids]
    /\ last_ts \in [Streams -> Times \cup {NegInf}]
    /\ done \in [Streams -> BOOLEAN]
    /\ read \in [Streams -> SUBSET Ids]
    /\ last \in (Streams \X Ids) \cup {None}
    /\ outcome \in {"reading", "end", "error"}

\* A pass hands rows out in timestamp order across all streams and page
\* boundaries, the lower stream index first among equal timestamps: whatever
\* the timestamps are, a step never goes back behind the row before it.
InMergeOrder ==
    [][ (last # None /\ last' # None /\ last' # last) =>
          \/ ts[last[1]][last[2]] < ts[last'[1]][last'[2]]
          \/ ts[last[1]][last[2]] = ts[last'[1]][last'[2]] /\ last[1] <= last'[1]
      ]_vars

\* No row comes out twice in one pass: the next page starts after every row
\* already fetched.
NeverTwice == [][HandOut => last'[2] \notin read[last'[1]]]_vars

\* The source says a pass is over only when every row it holds came out.
EveryRowRead == outcome = "end" => read = rows

\* Once no cursor can be filled again, nothing it should have fetched is
\* left in the table: `done` is never raised while a row is still owed.
DoneMeansDrained == \A s \in Streams : done[s] => page[s] = {} /\ After(s) = {}

\* Every pass comes to an end, with its last row or where it was cut short:
\* each query moves last_ts on.
PassEnds == []<>(outcome # "reading" \/ last = None)

\* What the replay loop may rely on, with the cursors hidden.  Rows still
\* owed are those in a page and those the next queries will return.
Owed == {m \in Streams \X Ids : m[2] \in page[m[1]] \cup After(m[1])}

Abstract == INSTANCE MergedReplay WITH remaining <- Owed

ImplementsMergedReplay == Abstract!Spec

\* Timestamps are distinct within a stream, as a strict `ts >` cursor needs.
DistinctTimes ==
    \A r \in Recordings : \A s \in Streams : \A i, j \in r.rows[s] :
        r.ts[s][i] = r.ts[s][j] => i = j
=============================================================================
