------------------------------- MODULE Audit -------------------------------
(***************************************************************************)
(* What stamp.rs says about the recording it replays: TfFilter, which      *)
(* takes --drop-tf edges out of tf messages, and Audit, which looks at     *)
(* what is left, before it is retimed, for stamps and frame trees that     *)
(* cannot be right.  Warnings go through one Throttle per kind of defect;  *)
(* the report at the end gives the totals.                                 *)
(*                                                                         *)
(* One step handles one message, as replay_once does between two awaits.   *)
(* Time is counted in ticks of the monotonic clock.                        *)
(***************************************************************************)
EXTENDS Integers, Sequences, FiniteSets, Functions

CONSTANTS
    Inputs,      \* [messages, rules]: what is replayed, and under which --drop-tf
    Streams,     \* streams with a single stamp
    Frames,      \* tf frames
    Tolerance,   \* AHEAD_TOLERANCE_NS
    WARN_EVERY,  \* ticks a defect stays quiet after a warning
    MaxPasses,   \* passes of --loop
    MaxTime      \* bound on the clock

Kinds == {"ahead", "backwards", "doubled", "split"}
Edges == Frames \X Frames  \* <<parent, child>>

\* A message with one stamp, read as `ours` when it is set and within an hour
\* of its arrival; or a tf message.
Stamped == [stream : Streams, ts : Nat, ours : BOOLEAN, stamp : Nat]
Tf == [edges : Seq(Edges)]

\* A rule names the frames of an edge, or "*" for any.
Rule == (Frames \cup {"*"}) \X (Frames \cup {"*"})

ASSUME AuditAssumption ==
    /\ \A i \in Inputs : i.messages \in Seq(Stamped \cup Tf) /\ i.rules \subseteq Rule
    /\ IsFiniteSet(Streams) /\ IsFiniteSet(Frames)
    /\ Tolerance \in Nat /\ WARN_EVERY \in Nat \ {0}
    /\ MaxPasses \in Nat \ {0} /\ MaxTime \in Nat

VARIABLES
    recording,    \* what is replayed
    rules,        \* TfFilter.rules; {} when --drop-tf is not given
    pos,          \* messages handled in this pass
    passes,       \* passes begun
    now,          \* the clock
    stamps,       \* Audit.streams: StreamStamps of each stream
    throttle,     \* Audit.ahead, .backwards, .doubled and .split
    parents,      \* Audit.parents; {} where there is no entry
    split_since,  \* Audit.split_since, or Unset
    dropped,      \* TfFilter.dropped: transforms dropped, by edge
    emptied,      \* TfFilter.emptied
    warned,       \* warnings printed, and messages they stood for (history)
    whole,        \* when a tf message last left fewer than two roots (history)
    published     \* tf messages published, and transforms in them (history)

filter == <<dropped, emptied>>
tree == <<parents, split_since, whole>>
vars == <<recording, rules, pos, passes, now, stamps, throttle, tree, filter, warned, published>>

Unset == -1

Init ==
    /\ \E i \in Inputs : recording = i.messages /\ rules = i.rules
    /\ pos = 0 /\ passes = 1 /\ now = 0
    /\ stamps = [s \in Streams |->
                    [previous |-> Unset, ahead |-> 0, worst_ahead |-> 0,
                     backwards |-> 0, worst_backstep |-> 0]]
    /\ throttle = [k \in Kinds |-> [last |-> Unset, suppressed |-> 0]]
    /\ parents = [f \in Frames |-> {}]
    /\ split_since = Unset
    /\ dropped = [e \in Edges |-> 0]
    /\ emptied = 0
    /\ warned = [k \in Kinds |-> [printed |-> 0, carried |-> 0]]
    /\ whole = 0
    /\ published = [messages |-> 0, transforms |-> 0]

Larger(m, n) == IF m < n THEN n ELSE m

-----------------------------------------------------------------------------
(* Throttle *)

Quiet(t) == t.last # Unset /\ now - t.last < WARN_EVERY

\* Mutant: the count of the swallowed is read and not taken.
ReadyKeeps(t, n) ==
    IF n = 0 THEN t
    ELSE IF Quiet(t) THEN [t EXCEPT !.suppressed = @ + n]
    ELSE [last |-> now, suppressed |-> t.suppressed + n - 1]

\* n calls of ready() at one instant: the first may print, the rest are
\* swallowed.
Ready(t, n) ==
    IF n = 0 THEN t
    ELSE IF Quiet(t) THEN [t EXCEPT !.suppressed = @ + n]
    ELSE [last |-> now, suppressed |-> n - 1]

\* The warnings so far, with those n calls print.
Warnings(w, t, n) ==
    IF n = 0 \/ Quiet(t) THEN w
    ELSE [printed |-> w.printed + 1, carried |-> w.carried + t.suppressed]

\* calls[k] defects of kind k come up in this step.
Warn(calls) ==
    /\ throttle' = [k \in Kinds |-> Ready(throttle[k], calls[k])]
    /\ warned' = [k \in Kinds |-> Warnings(warned[k], throttle[k], calls[k])]

-----------------------------------------------------------------------------
(* check_stamp *)

Upcoming == recording[pos + 1]

Advance ==
    /\ pos < Len(recording)
    /\ pos' = pos + 1
    /\ UNCHANGED <<recording, rules, passes, now>>

AheadBy(m) == m.stamp - m.ts

\* How far the stamp is behind the previous one of its stream.
Backstep(m) ==
    LET p == stamps[m.stream].previous
    IN  IF p # Unset /\ m.stamp < p THEN p - m.stamp ELSE 0

WorstAhead(old, m) == IF AheadBy(m) > Tolerance THEN Larger(old, AheadBy(m)) ELSE old

Measured(old, m) ==
    [previous |-> m.stamp,
     ahead |-> old.ahead + (IF AheadBy(m) > Tolerance THEN 1 ELSE 0),
     worst_ahead |-> WorstAhead(old.worst_ahead, m),
     backwards |-> old.backwards + (IF Backstep(m) > 0 THEN 1 ELSE 0),
     worst_backstep |-> Larger(old.worst_backstep, Backstep(m))]

\* same_clock, for a stamp that is set.
Trusted(m) == m.ours

InspectStamp ==
    /\ Advance
    /\ Upcoming \in Stamped
    /\ IF Trusted(Upcoming)
       THEN /\ stamps' = [stamps EXCEPT ![Upcoming.stream] = Measured(@, Upcoming)]
            /\ Warn([k \in Kinds |->
                        CASE k = "ahead" /\ AheadBy(Upcoming) > Tolerance -> 1
                          [] k = "backwards" /\ Backstep(Upcoming) > 0 -> 1
                          [] OTHER -> 0])
       ELSE UNCHANGED <<stamps, throttle, warned>>
    /\ UNCHANGED <<tree, filter, published>>

-----------------------------------------------------------------------------
(* TfFilter::apply and check_tree *)

Filtering == rules # {}

MatchesRule(edge) ==
    \E r \in rules : r[1] \in {"*", edge[1]} /\ r[2] \in {"*", edge[2]}

\* The transforms retain() leaves, by their places in the message.
Kept(edges) == {j \in 1..Len(edges) : ~Filtering \/ ~MatchesRule(edges[j])}

CountIn(edges, e) == Cardinality({j \in 1..Len(edges) : edges[j] = e})

\* Mutant: the transforms of a message that is not published go uncounted.
DroppedPublished(edges) ==
    [e \in Edges |-> dropped[e] + (IF Filtering /\ MatchesRule(e) /\ Kept(edges) # {}
                                   THEN CountIn(edges, e) ELSE 0)]

DroppedWith(edges) ==
    [e \in Edges |-> dropped[e] + (IF Filtering /\ MatchesRule(e)
                                   THEN CountIn(edges, e) ELSE 0)]

\* Mutant: a frame keeps the parent it was seen under last.
ParentsLatest(edges) ==
    [f \in Frames |->
        LET seen == {j \in Kept(edges) : edges[j][2] = f}
        IN  IF seen = {} THEN parents[f]
            ELSE {edges[CHOOSE j \in seen : \A i \in seen : i <= j][1]}]

ParentsWith(edges) ==
    [f \in Frames |->
        parents[f] \cup {edges[j][1] : j \in {i \in Kept(edges) : edges[i][2] = f}}]

\* How often a frame already under a parent was seen under a new one.
Doubled(edges) ==
    SumFunction([f \in Frames |-> Larger(Cardinality(ParentsWith(edges)[f]), 1)
                                   - Larger(Cardinality(parents[f]), 1)])

\* roots(): parents that are never a child.
Roots(pa) == {f \in UNION {pa[g] : g \in Frames} : pa[f] = {}}

\* Mutant: the clock of a split is not reset by a tree.
SplitKept(roots) ==
    /\ split_since' = IF Cardinality(roots) >= 2 /\ split_since = Unset
                      THEN now ELSE split_since
    /\ whole' = IF Cardinality(roots) < 2 THEN now ELSE whole

\* split_since is set when a second root shows up and cleared when it is gone.
Split(roots) ==
    /\ split_since' = IF Cardinality(roots) < 2 THEN Unset
                      ELSE IF split_since = Unset THEN now ELSE split_since
    /\ whole' = IF Cardinality(roots) < 2 THEN now ELSE whole

\* A split is warned about once it is WARN_EVERY old.
SplitLasts(roots) ==
    Cardinality(roots) >= 2 /\ split_since # Unset /\ now - split_since >= WARN_EVERY

InspectTree ==
    /\ Advance
    /\ Upcoming \in Tf
    /\ ~Filtering \/ Kept(Upcoming.edges) # {}
    /\ LET roots == Roots(ParentsWith(Upcoming.edges))
       IN  /\ parents' = ParentsWith(Upcoming.edges)
           /\ Split(roots)
           /\ Warn([k \in Kinds |->
                       CASE k = "doubled" -> Doubled(Upcoming.edges)
                         [] k = "split" /\ SplitLasts(roots) -> 1
                         [] OTHER -> 0])
           /\ dropped' = DroppedWith(Upcoming.edges)
           /\ published' = [messages |-> published.messages + 1,
                            transforms |-> published.transforms
                                           + Cardinality(Kept(Upcoming.edges))]
    /\ UNCHANGED <<stamps, emptied>>

\* --drop-tf left nothing: the message is neither published nor looked at.
DropTf ==
    /\ Advance
    /\ Upcoming \in Tf
    /\ Filtering /\ Kept(Upcoming.edges) = {}
    /\ dropped' = DroppedWith(Upcoming.edges)
    /\ emptied' = emptied + 1
    /\ UNCHANGED <<stamps, throttle, warned, tree, published>>

\* Mutant: each pass starts with a new Audit, but for its totals.
NextPassForgets ==
    /\ pos = Len(recording)
    /\ passes < MaxPasses
    /\ pos' = 0
    /\ passes' = passes + 1
    /\ stamps' = [s \in Streams |-> [stamps[s] EXCEPT !.previous = Unset]]
    /\ UNCHANGED <<recording, rules, now, throttle, warned, tree, filter, published>>

\* --loop: the next pass starts over, with the same Audit and TfFilter.
NextPass ==
    /\ pos = Len(recording)
    /\ passes < MaxPasses
    /\ pos' = 0
    /\ passes' = passes + 1
    /\ UNCHANGED <<recording, rules, now, stamps, throttle, warned, tree, filter, published>>

Tick ==
    /\ now < MaxTime
    /\ now' = now + 1
    /\ UNCHANGED <<recording, rules, pos, passes, stamps, throttle, warned, tree, filter,
                   published>>

Next == InspectStamp \/ InspectTree \/ DropTf \/ NextPass \/ Tick

Spec == Init /\ [][Next]_vars

-----------------------------------------------------------------------------
(* The report *)

\* Audit::report names some frame or lists the roots.
TreeReported ==
    \/ \E f \in Frames : Cardinality(parents[f]) > 1
    \/ Cardinality(Roots(parents)) > 1

-----------------------------------------------------------------------------
(* Properties *)

StreamStamps == [previous : Int, ahead : Nat, worst_ahead : Nat, backwards : Nat,
                 worst_backstep : Nat]

\* Type invariant.
TypeOK ==
    /\ recording \in Seq(Stamped \cup Tf)
    /\ rules \in SUBSET Rule
    /\ pos \in 0..Len(recording)
    /\ passes \in 1..MaxPasses
    /\ now \in 0..MaxTime
    /\ stamps \in [Streams -> StreamStamps]
    /\ throttle \in [Kinds -> [last : 0..MaxTime \cup {Unset}, suppressed : Nat]]
    /\ parents \in [Frames -> SUBSET Frames]
    /\ split_since \in 0..MaxTime \cup {Unset}
    /\ dropped \in [Edges -> Nat]
    /\ emptied \in Nat
    /\ warned \in [Kinds -> [printed : Nat, carried : Nat]]
    /\ whole \in 0..MaxTime
    /\ published \in [messages : Nat, transforms : Nat]

\* What the warnings of a kind stand for: themselves, those swallowed before
\* them, and those swallowed since.
Told(k) == warned[k].printed + warned[k].carried + throttle[k].suppressed

Total(field) == SumFunction([s \in Streams |-> stamps[s][field]])

\* Parents beyond the first, over all frames.
Surplus(pa) == SumFunction([f \in Frames |-> Larger(Cardinality(pa[f]), 1) - 1])

\* README.md:244: the warnings carry the count they swallowed, so that on any
\* schedule they add up to the totals the report gives at the end.
WarningsAddUp ==
    /\ Told("ahead") = Total("ahead")
    /\ Told("backwards") = Total("backwards")
    /\ Told("doubled") = Surplus(parents)

\* The n-th message handled, counted on from pass to pass, and how many have
\* been.
Message(n) == recording[((n - 1) % Len(recording)) + 1]
Replayed == (passes - 1) * Len(recording) + pos

\* Messages of stream s on the recorder's clock among the first n.
Trustworthy(s, n) ==
    {j \in 1..n : Message(j) \in Stamped /\ Message(j).stream = s /\ Message(j).ours}

\* Stamps of a stream that follow each other in time of arrival, and how far
\* the second is behind the first.
Adjacent(J) == {p \in J \X J : p[1] < p[2] /\ \A h \in J : h <= p[1] \/ p[2] <= h}
StepBack(p) == Message(p[1]).stamp - Message(p[2]).stamp
Inversions(J) == {p \in Adjacent(J) : StepBack(p) > 0}

\* A stream is charged exactly its adjacent inversions, those between stamps on
\* the recorder's clock, and the worst of them is what the report calls the
\* worst.  Audit outlives a pass (main.rs:279), so from the second on this takes
\* in the step from the last stamp of a pass to the first of the next.
BackstepsExact ==
    \A s \in Streams :
        LET Back == Inversions(Trustworthy(s, Replayed))
            worst == stamps[s].worst_backstep
        IN  /\ stamps[s].backwards = Cardinality(Back)
            /\ \A p \in Back : StepBack(p) <= worst
            /\ worst = 0 \/ \E p \in Back : worst = StepBack(p)

\* Transforms in the first n messages.
TransformsIn(n) ==
    SumFunction([j \in 1..n |-> IF recording[j] \in Tf THEN Len(recording[j].edges) ELSE 0])

\* Every transform of the messages replayed so far went out or is in the
\* count of its edge.
TransformsAccounted ==
    published.transforms + SumFunction(dropped)
        = (passes - 1) * TransformsIn(Len(recording)) + TransformsIn(pos)

\* Messages handled so far, in this pass or an earlier one.
Handled == IF passes = 1 THEN 1..pos ELSE 1..Len(recording)

\* The frame tree published so far: every edge of a tf message that no rule
\* takes away, from child to parent.
Seen ==
    {e \in Edges :
        /\ ~(Filtering /\ MatchesRule(e))
        /\ \E j \in Handled : recording[j] \in Tf /\ CountIn(recording[j].edges, e) > 0}

TfGraph ==
    [node |-> {f \in Frames : \E e \in Seen : f = e[1] \/ f = e[2]},
     edge |-> {<<e[2], e[1]>> : e \in Seen}]

\* b is f or an ancestor of it: it lies in every set of frames that f lies in
\* and no edge leaves.
Reaches(f, b) ==
    \A S \in SUBSET TfGraph.node :
        f \in S /\ (\A e \in TfGraph.edge : e[1] \in S => e[2] \in S) => b \in S

OneTree ==
    TfGraph.node # {} =>
        \E r \in TfGraph.node :
            /\ \A e, f \in TfGraph.edge : e[1] # r /\ (e[1] = f[1] => e = f)
            /\ \A f \in TfGraph.node : Reaches(f, r)

Acyclic == \A e \in TfGraph.edge : ~Reaches(e[2], e[1])

\* Counting roots and parents is enough to tell a tree, as long as no frame is
\* its own ancestor: the report speaks exactly when tf is not one tree.
ReportRight == Acyclic => (TreeReported <=> ~OneTree)

\* stamp.rs:201: only a split that outlives a warning window is warned about:
\* every tf message of the last WARN_EVERY ticks left two roots or more.
SplitOutlivesWindow ==
    [][warned'["split"].printed > warned["split"].printed
         => now - whole >= WARN_EVERY]_vars

=============================================================================
