---------------------------- MODULE ReplayProofs ----------------------------
(***************************************************************************)
(* What a replay does, for any recording, any options and any rates that   *)
(* lockstep may find: pacing and stamping, the window of a pass, the       *)
(* totals of all passes, and the spacing of stamps.                        *)
(***************************************************************************)
EXTENDS Replay, TLAPS

LEMMA Constants ==
    /\ MaxWall \in Nat /\ MaxCount \in Nat
    /\ Paces \subseteq Nat \ {0}
BY ReplayAssumption

LEMMA ArgTypes ==
    ASSUME args \in Args
    PROVE  /\ args.start \in Nat /\ args.duration \in Nat /\ args.pace \in Nat
           /\ FreshPace \in Nat \ {0}
BY ReplayAssumption DEF Args, FreshPace

LEMMA PlusType == ASSUME NEW m \in 0..MaxCount, NEW n \in Nat PROVE Plus(m, n) \in 0..MaxCount
BY Constants DEF Plus

LEMMA NoTallyType == NoTally \in Tallies
BY Constants DEF NoTally, Tallies

LEMMA BumpType ==
    ASSUME NEW t \in Tallies, NEW f \in {"published", "skipped", "restamped"}, NEW n \in Nat
    PROVE  [t EXCEPT ![f] = Plus(@, n)] \in Tallies
BY PlusType DEF Tallies

LEMMA SumType == ASSUME NEW s \in Tallies, NEW t \in Tallies PROVE Sum(s, t) \in Tallies
<1>1. \A f \in {"published", "skipped", "restamped"} : Plus(s[f], t[f]) \in 0..MaxCount
  <2> TAKE f \in {"published", "skipped", "restamped"}
  <2>1. s[f] \in 0..MaxCount /\ t[f] \in Nat
    BY Constants DEF Tallies
  <2> QED BY <2>1, PlusType
<1> QED BY <1>1 DEF Sum, Tallies

LEMMA RecordFields ==
    ASSUME NEW r \in Record
    PROVE  r.ts \in Nat /\ r.kind \in Kinds /\ r.clock \in Clocks /\ r.stamp \in Int
BY DEF Record

LEMMA Handled ==
    ASSUME recording \in Seq(Record), NEW i \in 1..Len(recording)
    PROVE  recording[i] \in Record
<1> HIDE DEF Record
<1> QED OBVIOUS

RetimerType == [first : Nat, start : Nat, pace : Nat \ {0}, delta : Int]

\* The task handles a record only between reading it and the next one.
Handling == pc \in {"waiting", "sleeping", "emit", "publishing"} => pos \in 1..Len(recording)

LEMMA InitType == Init => TypeOK /\ Handling
<1> SUFFICES ASSUME Init PROVE TypeOK /\ Handling
  OBVIOUS
<1>1. recording \in Seq(Record) /\ args \in Args /\ pos \in 0..Len(recording)
  <2>1. recording \in Seq(Record) /\ args \in Args
    <3> HIDE DEF Record, Args
    <3> QED BY ReplayAssumption DEF Init
  <2> QED BY <2>1 DEF Init
<1>2. retimer \in RetimerType /\ anchor \in [recorded : Nat, wall : Nat]
  BY <1>1, ArgTypes DEF Init, FreshRetimer, NoAnchor, RetimerType
<1>3. tally \in Tallies /\ total \in Tallies
  BY NoTallyType DEF Init
<1>4. now \in 0..MaxWall /\ emitted \in 0..MaxCount /\ substituted \in 0..MaxCount
  BY Constants DEF Init
<1> QED BY <1>1, <1>2, <1>3, <1>4, ArgTypes DEF Init, TypeOK, Handling, RetimerType

\* Reading a record, in whichever way it is then dealt with.
LEMMA ReadType ==
    ASSUME TypeOK, Handling, Read \/ SkipUnsupported
    PROVE  TypeOK' /\ Handling'
<1>0. /\ recording \in Seq(Record) /\ Len(recording) \in Nat /\ now \in Nat
      /\ tally \in Tallies /\ retimer \in RetimerType
      /\ anchor \in [recorded : Nat, wall : Nat] /\ base \in Nat \cup {Unset}
      /\ args.start \in Nat
  BY Constants, ArgTypes DEF TypeOK, RetimerType
<1>1. /\ pos + 1 \in 1..Len(recording) /\ pos' = pos + 1
      /\ UNCHANGED <<recording, args, now, pace, total, interrupt, history>>
  BY <1>0 DEF Read, SkipUnsupported, Take, TypeOK, input
<1>2. Upcoming \in Record /\ Upcoming.ts \in Nat
  BY <1>0, <1>1, Handled, RecordFields DEF Upcoming
<1>3. BaseAt(Upcoming) \in Nat
  BY <1>0, <1>2 DEF BaseAt
<1>4. [tally EXCEPT !.skipped = Plus(@, 1)] \in Tallies
  BY <1>0, BumpType
<1>5. CASE SkipUnsupported
  <2>1. UNCHANGED <<base, anchor, retimer>> /\ tally' \in Tallies /\ pc' = "read"
    BY <1>4, <1>5 DEF SkipUnsupported, Skip
  <2> QED BY <1>0, <1>1, <2>1 DEF TypeOK, Handling, history
<1>6. CASE Read
  <2>1. base' \in Nat
    BY <1>3, <1>6 DEF Read, Pin
  <2>2. anchor' \in [recorded : Nat, wall : Nat]
    BY <1>0, <1>3, <1>6 DEF Read, Pin
  <2>3. retimer' \in RetimerType
    <3>1. now - BaseAt(Upcoming) \in Int
      BY <1>0, <1>3
    <3> QED BY <1>0, <1>3, <1>6, <3>1 DEF Read, Pin, RetimerType
  <2>4. /\ tally' \in Tallies
        /\ pc' \in {"read", "ended", "waiting", "sleeping", "emit"}
    BY <1>0, <1>4, <1>6 DEF Read, SkipBeforeStart, Skip, StopAtDuration, Hold
  <2>5. Handling' /\ pos' \in 0..Len(recording)
    BY <1>1, <2>4 DEF Handling
  <2> HIDE DEF Handling
  <2> QED BY <1>1, <2>1, <2>2, <2>3, <2>4, <2>5 DEF TypeOK, history, RetimerType
<1> QED BY <1>5, <1>6

LEMMA EmitType ==
    ASSUME TypeOK, Handling, Emit
    PROVE  TypeOK' /\ Handling'
<1>0. /\ recording \in Seq(Record) /\ pos \in 1..Len(recording)
      /\ now \in 0..MaxWall /\ tally \in Tallies /\ retimer \in RetimerType
  BY DEF TypeOK, Handling, Emit, RetimerType
<1>1. Current \in Record /\ Current.ts \in Nat /\ Current.stamp \in Int
  BY <1>0, Handled, RecordFields DEF Current
<1>2. StampOut(Current) \in Int
  <2>1. \A t \in Int : Mapped(t) \in Int
    BY <1>0 DEF Mapped, RetimerType
  <2> QED BY <1>1, <2>1 DEF StampOut
<1>3. sent' \in [record : Record, at : 0..MaxWall, stamp : Int]
  <2> HIDE DEF Record
  <2> QED BY <1>0, <1>1, <1>2 DEF Emit
<1>4. tally' \in Tallies /\ substituted' \in 0..MaxCount /\ emitted' \in 0..MaxCount
  <2>1. PICK n \in {0, 1} :
           /\ tally' = [tally EXCEPT !.restamped = Plus(@, n)]
           /\ substituted' = Plus(substituted, n)
    BY DEF Emit
  <2>2. tally' \in Tallies
    BY <1>0, <2>1, BumpType
  <2>3. substituted' \in 0..MaxCount /\ emitted' \in 0..MaxCount
    <3>1. substituted \in 0..MaxCount /\ emitted \in 0..MaxCount /\ n \in Nat /\ 1 \in Nat
      BY <2>1 DEF TypeOK
    <3> QED BY <2>1, <3>1, PlusType DEF Emit
  <2> QED BY <2>2, <2>3
<1>5. done' \subseteq 1..Len(recording)
  BY <1>0 DEF Emit, TypeOK
<1>6. /\ UNCHANGED <<recording, args, pos, now, base, anchor, pace, retimer, total, interrupt,
                  before>>
      /\ pc' = "publishing"
  BY DEF Emit, clocks, input
<1> QED BY <1>0, <1>3, <1>4, <1>5, <1>6 DEF TypeOK, Handling

LEMMA GateType ==
    ASSUME TypeOK, Handling, GateOpens
    PROVE  TypeOK' /\ Handling'
<1>0. /\ recording \in Seq(Record) /\ pos \in 1..Len(recording)
      /\ now \in Nat /\ retimer \in RetimerType
  BY Constants DEF TypeOK, Handling, GateOpens, RetimerType
<1>1. Current.ts \in Nat
  BY <1>0, Handled, RecordFields DEF Current
<1>2. pace' \in Nat \ {0}
  BY Constants DEF GateOpens, TypeOK
<1>3. anchor' \in [recorded : Nat, wall : Nat]
  BY <1>0, <1>1 DEF GateOpens
<1>4. retimer' \in RetimerType
  BY <1>0, <1>1, <1>2 DEF GateOpens, Repinned, RetimerType
<1> QED BY <1>0, <1>2, <1>3, <1>4
        DEF GateOpens, TypeOK, Handling, input, counts, history, RetimerType

LEMMA NextPassType ==
    ASSUME TypeOK, Handling, NextPass
    PROVE  TypeOK' /\ Handling'
<1>1. total' \in Tallies /\ tally' \in Tallies
  BY SumType, NoTallyType DEF NextPass, TypeOK
<1>2. /\ base' \in Nat \cup {Unset} /\ anchor' \in [recorded : Nat, wall : Nat]
      /\ pace' \in Nat \ {0} /\ retimer' \in RetimerType
  BY ArgTypes DEF NextPass, ClocksReset, NoAnchor, FreshRetimer, RetimerType, TypeOK
<1>3. Len(recording) \in Nat
  BY DEF TypeOK
<1> QED BY <1>1, <1>2, <1>3 DEF NextPass, TypeOK, Handling, RetimerType, input

LEMMA TypeStep == TypeOK /\ Handling /\ [Next]_vars => TypeOK' /\ Handling'
<1> SUFFICES ASSUME TypeOK, Handling, [Next]_vars PROVE TypeOK' /\ Handling'
  OBVIOUS
<1>1. CASE Read \/ SkipUnsupported
  BY <1>1, ReadType
<1>2. CASE GateOpens
  BY <1>2, GateType
<1>3. CASE Wake \/ DropTf \/ SourceEnds \/ Fails \/ Interrupted \/ Report
  BY <1>3 DEF Wake, DropTf, SourceEnds, Fails, Interrupted, Report, TypeOK, Handling,
              input, clocks, counts, history
<1>4. CASE Emit
  BY <1>4, EmitType
<1>5. CASE Publish
  <2>1. tally' \in Tallies
    BY <1>5, BumpType DEF Publish, TypeOK
  <2> QED BY <1>5, <2>1 DEF Publish, TypeOK, Handling, input, clocks, history
<1>6. CASE Return
  <2>1. total' \in Tallies
    BY <1>6, SumType DEF Return, TypeOK
  <2> QED BY <1>6, <2>1 DEF Return, TypeOK, Handling, input, clocks, history
<1>7. CASE NextPass
  BY <1>7, NextPassType
<1>8. CASE CtrlC
  BY <1>8 DEF CtrlC, TypeOK, Handling, input, clocks, counts, history
<1>9. CASE Tick
  <2>1. now' \in 0..MaxWall
    BY <1>9, Constants DEF Tick, TypeOK
  <2> QED BY <1>9, <2>1 DEF Tick, TypeOK, Handling, input, clocks, counts, history
<1>10. CASE UNCHANGED vars
  BY <1>10 DEF vars, TypeOK, Handling, input, clocks, counts, history
<1> QED BY <1>1, <1>2, <1>3, <1>4, <1>5, <1>6, <1>7, <1>8, <1>9, <1>10
        DEF Next, ReplayStep

\* Every variable of the replay task keeps its type.
THEOREM TypeCorrect == Spec => []TypeOK
<1>1. Spec => [](TypeOK /\ Handling)
  BY InitType, TypeStep, PTL DEF Spec
<1> QED BY <1>1, PTL

-----------------------------------------------------------------------------
(* Stamps track emission *)

\* The retimer and the pacing measure from the same point at the same rate, a
\* point that has happened, and with a --rate other than 0 no message leaves
\* before its deadline.
Linked ==
    /\ retimer.first = anchor.recorded
    /\ retimer.start = anchor.wall
    /\ retimer.pace = pace

Paced ==
    /\ Linked
    /\ anchor.wall <= now
    /\ args.pace > 0 /\ pc = "emit" => Due(anchor, Current.ts) <= now

PInv == TypeOK /\ Handling /\ Paced /\ StampsTrackEmission

LEMMA Times ==
    ASSUME NEW a \in Int, NEW b \in Int, a <= b, NEW p \in Nat
    PROVE  a * p <= b * p
OBVIOUS

LEMMA Clock ==
    ASSUME TypeOK
    PROVE  /\ now \in Nat /\ anchor.recorded \in Nat /\ anchor.wall \in Nat
           /\ pace \in Nat \ {0}
           /\ retimer.first \in Nat /\ retimer.start \in Nat /\ retimer.pace \in Nat \ {0}
           /\ base \in Nat \cup {Unset}
BY Constants DEF TypeOK

\* The heart of it: what is due was stamped no later than now.
LEMMA StampedByNow ==
    ASSUME Tracking, TypeOK, Handling, Paced, pc = "emit", StampedInTime(Current)
    PROVE  StampOut(Current) <= now
<1>0. Current \in Record /\ Current.ts \in Nat /\ Current.stamp \in Int
  BY Handled, RecordFields DEF Current, TypeOK, Handling
<1> DEFINE t == IF Substituted(Current) THEN Current.ts ELSE Current.stamp
<1>1. t \in Int /\ t <= Current.ts
  <2>1. Current.clock \in {"ours", "other"}
    BY <1>0, RecordFields DEF StampedInTime, Clocks
  <2> QED BY <1>0, <2>1 DEF Substituted, StampedInTime, Tracking
<1>2. StampOut(Current) = anchor.wall + (t - anchor.recorded) * pace
  BY DEF StampOut, Mapped, Paced, Linked, Tracking
<1> HIDE DEF t
<1> DEFINE ahead == IF Current.ts < anchor.recorded THEN 0 ELSE Current.ts - anchor.recorded
<1>3. ahead \in Int /\ t - anchor.recorded <= ahead
  BY <1>0, <1>1, Clock
<1>6. anchor.wall + ahead * pace <= now
  BY DEF Paced, Due, Tracking
<1> HIDE DEF ahead
<1>4. (t - anchor.recorded) * pace <= ahead * pace
  BY <1>1, <1>3, Clock, Times
<1>5. (t - anchor.recorded) * pace \in Int /\ ahead * pace \in Int
  BY <1>1, <1>3, Clock
<1> QED BY <1>2, <1>4, <1>5, <1>6, Clock

LEMMA PacedStep ==
    ASSUME TypeOK, Handling, Paced, [Next]_vars
    PROVE  Paced'
<1> USE DEF Paced, Linked
<1>1. CASE Read
  <2>1. UNCHANGED <<args, pace, now>>
    BY <1>1 DEF Read, Take, input
  <2>2. args.pace > 0 /\ pc' = "emit" => (Due(anchor, Current.ts) <= now)'
    <3>1. SUFFICES ASSUME args.pace > 0, pc' = "emit"
                   PROVE  (Due(anchor, Current.ts) <= now)'
      OBVIOUS
    <3>2. Current' = Upcoming
      BY <1>1 DEF Read, Take, Current, Upcoming, input
    <3>3. ~(now < Due(anchor', Upcoming.ts))
      BY <1>1, <3>1 DEF Read, SkipBeforeStart, Skip, StopAtDuration, Hold
    <3>4. Due(anchor, Current.ts)' = Due(anchor', Upcoming.ts)
      BY <2>1, <3>2 DEF Due
    <3>5. Due(anchor', Upcoming.ts) \in Int
      <4>1. TypeOK'
        BY <1>1, ReadType
      <4>2. Upcoming.ts \in Nat
        BY <1>1, Handled, RecordFields DEF Read, Take, Upcoming, TypeOK
      <4>3. (anchor.recorded)' \in Nat /\ (anchor.wall)' \in Nat
        BY <4>1 DEF TypeOK
      <4> QED BY <4>2, <4>3, Clock DEF Due
    <3> QED BY <2>1, <3>3, <3>4, <3>5, Clock
  <2>3. CASE base = Unset
    <3>1. /\ anchor' = [recorded |-> BaseAt(Upcoming), wall |-> now]
          /\ retimer' = [retimer EXCEPT !.first = BaseAt(Upcoming), !.start = now,
                                        !.delta = now - BaseAt(Upcoming)]
      BY <1>1, <2>3 DEF Read, Pin
    <3>2. retimer \in RetimerType
      BY DEF TypeOK, RetimerType
    <3>3. /\ retimer'.first = BaseAt(Upcoming) /\ retimer'.start = now
          /\ retimer'.pace = retimer.pace
      BY <3>1, <3>2 DEF RetimerType
    <3> QED BY <2>1, <2>2, <3>1, <3>3, Clock
  <2>4. CASE base # Unset
    <3>1. UNCHANGED <<anchor, retimer>>
      BY <1>1, <2>4 DEF Read, Pin
    <3> QED BY <2>1, <2>2, <3>1
  <2> QED BY <2>3, <2>4
<1>2. CASE GateOpens
  <2>1. /\ anchor' = [recorded |-> Current.ts, wall |-> now]
        /\ retimer' = [retimer EXCEPT !.first = Current.ts, !.start = now, !.pace = pace']
        /\ UNCHANGED <<recording, args, pos, now>>
        /\ pace' \in Nat \ {0}
    BY <1>2, Constants DEF GateOpens, Repinned, TypeOK, input
  <2>2. retimer \in RetimerType
    BY DEF TypeOK, RetimerType
  <2>3. retimer'.first = Current.ts /\ retimer'.start = now /\ retimer'.pace = pace'
    BY <2>1, <2>2 DEF RetimerType
  <2>4. Due(anchor, Current.ts)' = now + 0 * pace'
    <3>1. Current' = Current /\ Current.ts \in Nat
      BY <1>2, <2>1, Handled, RecordFields DEF Current, Handling, GateOpens, TypeOK
    <3>2. anchor'.recorded = Current.ts /\ anchor'.wall = now
      BY <2>1
    <3> QED BY <3>1, <3>2, Clock DEF Due
  <2> QED BY <2>1, <2>3, <2>4, Clock
<1>3. CASE Wake
  <2>1. /\ UNCHANGED <<recording, args, pos, now, anchor, pace, retimer>>
        /\ Due(anchor, Current.ts) <= now
    <3>1. Due(anchor, Current.ts) \in Int
      <4>1. Current.ts \in Nat
        BY <1>3, Handled, RecordFields DEF Current, Handling, TypeOK, Wake
      <4> QED BY <4>1, Clock DEF Due
    <3>2. now >= Due(anchor, Current.ts)
      BY <1>3 DEF Wake
    <3> QED BY <1>3, <3>1, <3>2, Clock DEF Wake, input, clocks
  <2>2. Due(anchor, Current.ts)' = Due(anchor, Current.ts)
    BY <2>1 DEF Due, Current
  <2> QED BY <2>1, <2>2
<1>4. CASE NextPass
  <2>1. /\ anchor' = NoAnchor /\ retimer' = FreshRetimer /\ pace' = FreshPace
        /\ now' = now /\ args' = args /\ pc' = "read"
    BY <1>4 DEF NextPass, ClocksReset, input
  <2> QED BY <2>1, Clock DEF NoAnchor, FreshRetimer
<1>5. CASE Tick
  <2>1. UNCHANGED <<recording, args, pos, pc, anchor, pace, retimer>> /\ now' = now + 1
    BY <1>5 DEF Tick, input, clocks
  <2>2. Due(anchor, Current.ts)' = Due(anchor, Current.ts)
    BY <2>1 DEF Due, Current
  <2>3. pc = "emit" => Due(anchor, Current.ts) \in Int
    <3>1. pc = "emit" => Current.ts \in Nat
      BY Handled, RecordFields DEF Current, Handling, TypeOK
    <3> QED BY <3>1, Clock DEF Due
  <2> QED BY <2>1, <2>2, <2>3, Clock
<1>6. CASE CtrlC
  <2>1. UNCHANGED <<recording, args, pos, pc, now, anchor, pace, retimer>>
    BY <1>6 DEF CtrlC, input, clocks
  <2>2. Due(anchor, Current.ts)' = Due(anchor, Current.ts)
    BY <2>1 DEF Due, Current
  <2> QED BY <2>1, <2>2
<1>7. CASE UNCHANGED vars
  <2>1. UNCHANGED <<recording, args, pos, pc, now, anchor, pace, retimer>>
    BY <1>7 DEF vars, input, clocks
  <2>2. Due(anchor, Current.ts)' = Due(anchor, Current.ts)
    BY <2>1 DEF Due, Current
  <2> QED BY <2>1, <2>2
<1>8. CASE SkipUnsupported \/ DropTf \/ Emit \/ Publish \/ SourceEnds \/ Return \/ Report
           \/ Fails \/ Interrupted
  <2>1. UNCHANGED <<now, anchor, pace, retimer>> /\ pc' # "emit"
    BY <1>8 DEF SkipUnsupported, Take, Skip, DropTf, Emit, Publish, SourceEnds, Return,
                Report, Fails, Interrupted, clocks
  <2> QED BY <2>1
<1> QED BY <1>1, <1>2, <1>3, <1>4, <1>5, <1>6, <1>7, <1>8 DEF Next, ReplayStep

LEMMA ArgsKept == [Next]_vars => args' = args /\ recording' = recording
BY DEF Next, ReplayStep, SkipUnsupported, Take, Read, GateOpens, Wake, DropTf, Emit, Publish,
       SourceEnds, Return, NextPass, Report, Fails, CtrlC, Interrupted, Tick, vars, input

LEMMA SentOnlyByEmit ==
    [Next]_vars => Emit \/ sent' = sent
BY DEF Next, ReplayStep, SkipUnsupported, Take, Read, GateOpens, Wake, DropTf, Publish,
       SourceEnds, Return, NextPass, Report, Fails, CtrlC, Interrupted, Tick, vars, history

LEMMA TracksStep ==
    ASSUME PInv, [Next]_vars
    PROVE  StampsTrackEmission'
<1>0. args' = args
  BY ArgsKept
<1>1. CASE sent' = sent
  BY <1>0, <1>1 DEF PInv, StampsTrackEmission, Tracking
<1>2. CASE Emit
  <2>1. sent' = [record |-> Current, at |-> now, stamp |-> StampOut(Current)]
    BY <1>2 DEF Emit
  <2>2. Tracking /\ StampedInTime(Current) => StampOut(Current) <= now
    BY <1>2, StampedByNow DEF PInv, Emit
  <2> QED BY <1>0, <2>1, <2>2 DEF StampsTrackEmission, Tracking
<1> QED BY <1>1, <1>2, SentOnlyByEmit

LEMMA InitPInv == Init => PInv
<1> SUFFICES ASSUME Init PROVE PInv
  OBVIOUS
<1>1. Paced
  BY DEF Init, Paced, Linked, NoAnchor, FreshRetimer
<1> QED BY <1>1, InitType DEF PInv, Init, StampsTrackEmission

\* The inductive invariant of pacing and retiming.
THEOREM PacedInvariance == Spec => []PInv
<1>1. PInv /\ [Next]_vars => PInv'
  BY TypeStep, PacedStep, TracksStep DEF PInv
<1> QED BY InitPInv, <1>1, PTL DEF Spec

\* With scaled stamps and a --rate other than 0, no message stamped in time
\* leaves with a stamp from the future, in whatever order the recording is and
\* wherever lockstep moves the rate.
THEOREM StampsNeverAhead == Spec => []StampsTrackEmission
<1>1. PInv => StampsTrackEmission
  BY DEF PInv
<1> QED BY <1>1, PacedInvariance, PTL

-----------------------------------------------------------------------------
(* Stamps go forward *)

\* The message handled lies at or after the anchor, which is where the pass
\* began or an earlier gate message.
Anchored ==
    /\ base # Unset =>
          \/ anchor.recorded = base
          \/ pos \in 1..Len(recording) /\ anchor.recorded <= Current.ts
    /\ pc \in {"waiting", "sleeping", "emit"} =>
          base # Unset /\ anchor.recorded <= Current.ts

\* The last stamp lies before the anchor, or was mapped from it and belongs
\* to no later a record than the one handled.
LastStamp ==
    sent # NothingSent =>
        /\ sent.at <= now
        /\ base # Unset /\ Prompt(sent.record) =>
              \/ sent.stamp <= anchor.wall
              \/ /\ pos \in 1..Len(recording)
                 /\ sent.stamp = Mapped(sent.record.ts)
                 /\ sent.record.ts <= Current.ts

FInv == PInv /\ Tracking /\ InOrder /\ Anchored /\ LastStamp

LEMMA SentType ==
    ASSUME TypeOK, sent # NothingSent
    PROVE  /\ sent.record \in Record /\ sent.record.ts \in Nat
           /\ sent.at \in Nat /\ sent.stamp \in Int
<1>1. sent \in [record : Record, at : 0..MaxWall, stamp : Int]
  BY DEF TypeOK
<1>2. sent.record \in Record /\ sent.at \in 0..MaxWall /\ sent.stamp \in Int
  <2> HIDE DEF Record
  <2> QED BY <1>1
<1> QED BY <1>2, RecordFields, Constants

LEMMA PromptInTime ==
    ASSUME NEW r \in Record, Prompt(r)
    PROVE  StampedInTime(r) /\ (Tracking => StampOut(r) = Mapped(r.ts))
BY RecordFields DEF Prompt, StampedInTime, StampOut, Substituted, Tracking

\* Reading on, whatever becomes of the record, keeps the order.
LEMMA ReadForward ==
    ASSUME FInv, Read \/ SkipUnsupported
    PROVE  Anchored' /\ LastStamp'
<1>0. /\ TypeOK /\ Handling /\ InOrder /\ Anchored /\ LastStamp
      /\ recording \in Seq(Record) /\ Len(recording) \in Nat
      /\ args.start \in Nat /\ args.duration \in Nat /\ Tracking
  BY ArgTypes DEF FInv, PInv, TypeOK
<1>1. /\ pos + 1 \in 1..Len(recording) /\ pos' = pos + 1 /\ pos \in Nat
      /\ UNCHANGED <<recording, args, now, pace, sent>>
  BY <1>0 DEF Read, SkipUnsupported, Take, TypeOK, history, input
<1>2. Current' = Upcoming /\ Upcoming.ts \in Nat /\ pos' \in 1..Len(recording')
  BY <1>0, <1>1, Handled, RecordFields DEF Current, Upcoming
<1>3. pos \in 1..Len(recording) => Current.ts \in Nat /\ Current.ts <= Upcoming.ts
  BY <1>0, <1>1, Handled, RecordFields DEF InOrder, Current, Upcoming
<1>4. sent # NothingSent => sent.record.ts \in Nat /\ sent.stamp \in Int /\ sent.at \in Nat
  BY <1>0, SentType
<1>5. CASE base = Unset /\ Read
  <2>1. /\ anchor' = [recorded |-> BaseAt(Upcoming), wall |-> now]
        /\ base' = BaseAt(Upcoming)
    BY <1>5 DEF Read, Pin
  <2>2. BaseAt(Upcoming) \in Nat
    BY <1>0, <1>2, <1>5 DEF BaseAt
  <2>3. pc' \in {"waiting", "sleeping", "emit"} => base' # Unset /\ base' <= Upcoming.ts
    <3>1. SUFFICES ASSUME pc' \in {"waiting", "sleeping", "emit"}
                   PROVE  base' # Unset /\ base' <= Upcoming.ts
      OBVIOUS
    <3>2. Upcoming.ts - BaseAt(Upcoming) \in 0..args.duration
      BY <1>5, <3>1 DEF Read, SkipBeforeStart, Skip, StopAtDuration, Hold
    <3> QED BY <1>2, <1>0, <2>1, <2>2, <3>2 DEF Unset
  <2>4. Anchored'
    BY <1>2, <2>1, <2>2, <2>3 DEF Anchored
  <2>5. LastStamp'
    <3> SUFFICES ASSUME sent # NothingSent, Prompt(sent.record)
                 PROVE  sent.stamp <= now
      BY <1>0, <1>1, <2>1 DEF LastStamp
    <3>1. StampedInTime(sent.record)
      BY <1>0, SentType, PromptInTime
    <3>2. sent.stamp <= sent.at /\ sent.at <= now
      BY <1>0, <3>1 DEF FInv, PInv, StampsTrackEmission, LastStamp
    <3> QED BY <1>0, <1>4, <3>2, Clock
  <2> QED BY <2>4, <2>5
<1>6. CASE ~(base = Unset /\ Read)
  <2>1. UNCHANGED <<base, anchor, retimer>>
    BY <1>6 DEF Read, Pin, SkipUnsupported, BaseAt
  <2>2. pc' \in {"waiting", "sleeping", "emit"} => base # Unset /\ base <= Upcoming.ts
    <3>1. SUFFICES ASSUME pc' \in {"waiting", "sleeping", "emit"}
                   PROVE  base # Unset /\ base <= Upcoming.ts
      OBVIOUS
    <3>2. Read
      BY <3>1 DEF SkipUnsupported, Skip
    <3>3. Upcoming.ts - BaseAt(Upcoming) \in 0..args.duration
      BY <3>1, <3>2 DEF Read, SkipBeforeStart, Skip, StopAtDuration, Hold
    <3> QED BY <1>0, <1>2, <1>6, <3>2, <3>3, Clock
            DEF BaseAt, Unset
  <2>3. Anchored'
    <3>1. anchor.recorded \in Nat /\ base \in Nat \cup {Unset}
      BY <1>0, Clock
    <3>2. base # Unset =>
             anchor.recorded = base \/ anchor.recorded <= Upcoming.ts
      BY <1>0, <1>2, <1>3, <3>1 DEF Anchored
    <3> QED BY <1>2, <2>1, <2>2, <3>1, <3>2 DEF Anchored
  <2>4. LastStamp'
    <3>1. \A t : Mapped(t)' = Mapped(t)
      BY <1>1, <2>1 DEF Mapped
    <3> QED BY <1>0, <1>1, <1>2, <1>3, <1>4, <2>1, <3>1 DEF LastStamp
  <2> QED BY <2>3, <2>4
<1> QED BY <1>5, <1>6

LEMMA GateForward ==
    ASSUME FInv, GateOpens
    PROVE  Anchored' /\ LastStamp'
<1>0. TypeOK /\ Handling /\ Tracking /\ Anchored /\ LastStamp /\ StampsTrackEmission
  BY DEF FInv, PInv
<1>1. /\ anchor' = [recorded |-> Current.ts, wall |-> now] /\ pc = "waiting"
      /\ UNCHANGED <<recording, pos, now, base, sent>>
  BY DEF GateOpens, history, input
<1>2. Current.ts \in Nat /\ Current' = Current /\ pos \in 1..Len(recording)
  BY <1>0, <1>1, Handled, RecordFields DEF Current, Handling, TypeOK
<1>3. Anchored'
  BY <1>0, <1>1, <1>2 DEF Anchored
<1>4. LastStamp'
  <2> SUFFICES ASSUME sent # NothingSent, Prompt(sent.record)
               PROVE  sent.stamp <= now
    BY <1>0, <1>1 DEF LastStamp
  <2>1. StampedInTime(sent.record)
    BY <1>0, SentType, PromptInTime
  <2>2. sent.stamp <= sent.at /\ sent.at <= now
    BY <1>0, <2>1 DEF StampsTrackEmission, LastStamp
  <2> QED BY <1>0, <2>2, SentType, Clock
<1> QED BY <1>3, <1>4

\* A later record of the pass is mapped to no earlier a stamp.
LEMMA EmitForward ==
    ASSUME FInv, Emit
    PROVE  /\ Anchored' /\ LastStamp'
           /\ sent # NothingSent /\ Prompt(sent.record) /\ Prompt(sent'.record)
                 => sent.stamp <= sent'.stamp
<1>0. TypeOK /\ Handling /\ Tracking /\ Anchored /\ LastStamp /\ Linked
  BY DEF FInv, PInv, Paced
<1>1. /\ sent' = [record |-> Current, at |-> now, stamp |-> StampOut(Current)]
      /\ pc = "emit" /\ pc' = "publishing"
      /\ UNCHANGED <<recording, args, pos, now, base, anchor, retimer>>
  BY DEF Emit, clocks, input
<1>2. /\ Current \in Record /\ Current.ts \in Nat /\ pos \in 1..Len(recording)
      /\ Current' = Current /\ now \in Nat
  BY <1>0, <1>1, Handled, RecordFields, Clock DEF Current, Handling, TypeOK
<1>3. Anchored'
  BY <1>0, <1>1, <1>2 DEF Anchored
<1>4. Prompt(Current) => StampOut(Current) = Mapped(Current.ts)
  BY <1>0, <1>2, PromptInTime
<1>5. LastStamp'
  <2>1. Mapped(Current.ts)' = Mapped(Current.ts)
    BY <1>1, <1>2 DEF Mapped
  <2> QED BY <1>1, <1>2, <1>4, <2>1 DEF LastStamp
<1>6. ASSUME sent # NothingSent, Prompt(sent.record), Prompt(sent'.record)
      PROVE  sent.stamp <= sent'.stamp
  <2>1. sent'.stamp = Mapped(Current.ts)
    BY <1>1, <1>4, <1>6
  <2>2. \A t \in Nat : Mapped(t) = anchor.wall + (t - anchor.recorded) * pace
    BY <1>0 DEF Mapped, Linked, Tracking
  <2>3. /\ anchor.recorded \in Nat /\ anchor.wall \in Nat /\ pace \in Nat
        /\ sent.stamp \in Int /\ sent.record.ts \in Nat
    BY <1>0, <1>6, Clock, SentType
  <2>4. CASE sent.stamp <= anchor.wall
    <3>1. 0 <= Current.ts - anchor.recorded
      BY <1>0, <1>1, <1>2, <2>3 DEF Anchored
    <3>2. 0 * pace <= (Current.ts - anchor.recorded) * pace
      BY <1>2, <2>3, <3>1, Times
    <3> DEFINE x == (Current.ts - anchor.recorded) * pace
    <3>3. x \in Int /\ 0 <= x
      BY <1>2, <2>3, <3>2
    <3>4. sent'.stamp = anchor.wall + x
      BY <1>2, <2>1, <2>2
    <3> HIDE DEF x
    <3> QED BY <2>3, <2>4, <3>3, <3>4
  <2>5. CASE sent.stamp = Mapped(sent.record.ts) /\ sent.record.ts <= Current.ts
    <3>1. sent.record.ts - anchor.recorded <= Current.ts - anchor.recorded
      BY <1>2, <2>3, <2>5
    <3>2. (sent.record.ts - anchor.recorded) * pace <= (Current.ts - anchor.recorded) * pace
      BY <1>2, <2>3, <3>1, Times
    <3> DEFINE x == (Current.ts - anchor.recorded) * pace
               y == (sent.record.ts - anchor.recorded) * pace
    <3>3. x \in Int /\ y \in Int /\ y <= x
      BY <1>2, <2>3, <3>2
    <3>4. sent'.stamp = anchor.wall + x /\ sent.stamp = anchor.wall + y
      BY <1>2, <2>1, <2>2, <2>3, <2>5
    <3> HIDE DEF x, y
    <3> QED BY <2>3, <3>3, <3>4
  <2> QED BY <1>0, <1>1, <1>6, <2>4, <2>5 DEF LastStamp, Anchored
<1> QED BY <1>3, <1>5, <1>6

LEMMA ForwardStep ==
    ASSUME FInv, [Next]_vars
    PROVE  Anchored' /\ LastStamp'
<1>0. TypeOK /\ Handling /\ Anchored /\ LastStamp
  BY DEF FInv, PInv
<1> USE DEF Anchored, LastStamp
<1>1. CASE Read \/ SkipUnsupported
  BY <1>1, ReadForward
<1>2. CASE GateOpens
  BY <1>2, GateForward
<1>3. CASE Emit
  BY <1>3, EmitForward
<1>4. CASE Tick
  <2>1. UNCHANGED <<recording, args, pos, pc, base, anchor, retimer, sent>> /\ now' = now + 1
    BY <1>4 DEF Tick, input, clocks, history
  <2>2. Current' = Current /\ \A t : Mapped(t)' = Mapped(t)
    BY <2>1 DEF Current, Mapped
  <2>3. sent # NothingSent => sent.at <= now'
    BY <1>0, <2>1, SentType, Clock
  <2> QED BY <1>0, <2>1, <2>2, <2>3
<1>5. CASE NextPass
  <2>1. base' = Unset /\ UNCHANGED <<now, sent>> /\ pc' = "read"
    BY <1>5 DEF NextPass, ClocksReset
  <2> QED BY <1>0, <2>1
<1>6. CASE Wake \/ DropTf \/ Publish \/ SourceEnds \/ Return \/ Report \/ Fails
           \/ CtrlC \/ Interrupted \/ UNCHANGED vars
  <2>1. /\ UNCHANGED <<recording, args, pos, now, base, anchor, retimer, sent>>
        /\ pc' \in {"waiting", "sleeping", "emit"} => pc \in {"waiting", "sleeping", "emit"}
    BY <1>6 DEF Wake, DropTf, Publish, SourceEnds, Return, Report, Fails, CtrlC,
                Interrupted, vars, input, clocks, history
  <2>2. Current' = Current /\ \A t : Mapped(t)' = Mapped(t)
    BY <2>1 DEF Current, Mapped
  <2> QED BY <1>0, <2>1, <2>2
<1> QED BY <1>1, <1>2, <1>3, <1>4, <1>5, <1>6 DEF Next, ReplayStep

\* The options and the order of the recording last.
OInv == PInv /\ (Tracking /\ InOrder => FInv)

LEMMA OrderStep == OInv /\ [Next]_vars => OInv'
<1> SUFFICES ASSUME OInv, [Next]_vars PROVE OInv'
  OBVIOUS
<1>1. PInv'
  BY TypeStep, PacedStep, TracksStep DEF OInv, PInv
<1>2. (Tracking' <=> Tracking) /\ (InOrder' <=> InOrder)
  BY ArgsKept DEF Tracking, InOrder
<1>3. FInv => FInv'
  BY <1>1, <1>2, ForwardStep DEF FInv
<1> QED BY <1>1, <1>2, <1>3 DEF OInv

\* With scaled stamps and a --rate other than 0, the stamps of a recording in
\* timestamp order go forward, across gate messages and passes.
THEOREM StampsKeepOrder == Spec => StampsForward
<1> DEFINE Step == Tracking /\ InOrder /\ sent' # sent /\ sent # NothingSent
                   /\ Prompt(sent.record) /\ Prompt(sent'.record)
                     => sent.stamp <= sent'.stamp
<1>1. Init => OInv
  <2> SUFFICES ASSUME Init PROVE OInv
    OBVIOUS
  <2>1. Anchored /\ LastStamp
    BY DEF Init, Anchored, LastStamp
  <2> QED BY <2>1, InitPInv DEF OInv, FInv
<1>2. OInv /\ [Next]_vars => OInv'
  BY OrderStep
<1>3. OInv /\ [Next]_vars => [Step]_vars
  BY EmitForward, SentOnlyByEmit DEF OInv
<1>4. [][Step]_vars <=> StampsForward
  BY DEF StampsForward
<1> QED BY <1>1, <1>2, <1>3, <1>4, PTL DEF Spec

-----------------------------------------------------------------------------
(* Windows, totals and spacing *)

TInv == TypeOK /\ Handling

LEMMA Typed == Spec => []TInv
BY InitType, TypeStep, PTL DEF Spec, TInv

-----------------------------------------------------------------------------
(* The totals *)

\* As long as no counter is full, what was handed to the transport is in this
\* pass's tally or in the total, but for the message whose publish is still
\* under way; and the total is what went out before the pass.  An interrupt
\* drops the tally, so the total stays at that.
Counted ==
    emitted < MaxCount =>
        /\ substituted <= emitted
        /\ pc \notin {"returned", "exited", "failed"} =>
              /\ total.published = before.published /\ total.restamped = before.restamped
              /\ total.published + tally.published
                    + (IF pc = "publishing" THEN 1 ELSE 0) = emitted
              /\ total.restamped + tally.restamped = substituted
        /\ pc \in {"returned", "exited"} =>
              \/ total.published = emitted /\ total.restamped = substituted
              \/ /\ interrupt
                 /\ total.published = before.published /\ total.restamped = before.restamped

LEMMA Numbers ==
    ASSUME TypeOK
    PROVE  /\ MaxCount \in Nat /\ emitted \in Nat /\ substituted \in Nat
           /\ tally \in Tallies /\ total \in Tallies
           /\ tally.published \in Nat /\ tally.restamped \in Nat
           /\ total.published \in Nat /\ total.restamped \in Nat
BY Constants DEF TypeOK, Tallies

LEMMA Unsaturated ==
    ASSUME NEW m \in Nat, NEW n \in Nat, m + n <= MaxCount
    PROVE  Plus(m, n) = m + n
BY Constants DEF Plus

\* Reading on changes no counter but that of the skipped.
LEMMA ReadCounts ==
    ASSUME TInv, Read \/ SkipUnsupported
    PROVE  /\ pc = "read" /\ pc' \in {"read", "ended", "waiting", "sleeping", "emit"}
           /\ tally'.published = tally.published /\ tally'.restamped = tally.restamped
           /\ UNCHANGED <<total, interrupt, emitted, substituted, before>>
<1>1. tally \in Tallies
  BY DEF TInv, TypeOK
<1>2. \/ tally' = [tally EXCEPT !.skipped = Plus(@, 1)]
      \/ tally' = tally
  BY DEF Read, SkipUnsupported, SkipBeforeStart, StopAtDuration, Hold, Skip
<1>3. tally'.published = tally.published /\ tally'.restamped = tally.restamped
  BY <1>1, <1>2 DEF Tallies
<1> QED BY <1>3 DEF Read, SkipUnsupported, Take, SkipBeforeStart, StopAtDuration, Hold,
                    Skip, history

LEMMA EmitCounts == TInv /\ Counted /\ Emit => Counted'
<1> SUFFICES ASSUME TInv, Counted, Emit, emitted' < MaxCount PROVE Counted'
  BY DEF Counted
<1>0. TypeOK
  BY DEF TInv
<1>1. PICK n \in {0, 1} :
         /\ tally' = [tally EXCEPT !.restamped = Plus(@, n)]
         /\ substituted' = Plus(substituted, n)
  BY DEF Emit
<1>2. emitted' = emitted + 1 /\ emitted < MaxCount
  BY <1>0, Numbers DEF Emit, Plus
<1>3. /\ substituted <= emitted
      /\ total.published + tally.published = emitted
      /\ total.restamped + tally.restamped = substituted
  BY <1>0, <1>2, Numbers DEF Counted, Emit
<1>4. substituted' = substituted + n
  BY <1>0, <1>1, <1>2, <1>3, Numbers, Unsaturated
<1>5. tally'.published = tally.published /\ tally'.restamped = tally.restamped + n
  <2>1. Plus(tally.restamped, n) = tally.restamped + n
    BY <1>0, <1>2, <1>3, Numbers, Unsaturated
  <2> QED BY <1>0, <1>1, <2>1, Numbers DEF Tallies
<1>6. /\ UNCHANGED <<total, before>> /\ pc' = "publishing"
      /\ total.published = before.published /\ total.restamped = before.restamped
  BY <1>2 DEF Emit, Counted
<1> QED BY <1>0, <1>1, <1>2, <1>3, <1>4, <1>5, <1>6, Numbers DEF Counted

LEMMA PublishCounts == TInv /\ Counted /\ Publish => Counted'
<1> SUFFICES ASSUME TInv, Counted, Publish, emitted' < MaxCount PROVE Counted'
  BY DEF Counted
<1>0. TypeOK
  BY DEF TInv
<1>1. /\ UNCHANGED <<total, emitted, substituted, interrupt, before>> /\ pc' = "read"
      /\ tally' = [tally EXCEPT !.published = Plus(@, 1)]
  BY DEF Publish, history
<1>2. /\ total.published = before.published /\ total.restamped = before.restamped
      /\ total.published + tally.published + 1 = emitted
      /\ total.restamped + tally.restamped = substituted
  BY <1>1 DEF Counted, Publish
<1>3. Plus(tally.published, 1) = tally.published + 1
  BY <1>0, <1>1, <1>2, Numbers, Unsaturated
<1>4. tally'.published = tally.published + 1 /\ tally'.restamped = tally.restamped
  BY <1>0, <1>1, <1>3, Numbers DEF Tallies
<1> QED BY <1>0, <1>1, <1>2, <1>4, Numbers DEF Counted

\* A pass that ended is added up without loss.
LEMMA SumCounts ==
    ASSUME TInv, Counted, pc = "ended", emitted < MaxCount, total' = Sum(total, tally)
    PROVE  total'.published = emitted /\ total'.restamped = substituted
<1>0. TypeOK
  BY DEF TInv
<1>1. /\ total.published + tally.published = emitted /\ substituted <= emitted
      /\ total.restamped + tally.restamped = substituted
  BY <1>0, Numbers DEF Counted
<1>2. /\ Plus(total.published, tally.published) = emitted
      /\ Plus(total.restamped, tally.restamped) = substituted
  BY <1>0, <1>1, Numbers, Unsaturated
<1> QED BY <1>0, <1>2, Numbers DEF Sum, Tallies

LEMMA CountedStep == TInv /\ Counted /\ [Next]_vars => Counted'
<1> SUFFICES ASSUME TInv, Counted, [Next]_vars PROVE Counted'
  OBVIOUS
<1>0. TypeOK
  BY DEF TInv
<1>1. CASE Read \/ SkipUnsupported
  BY <1>1, ReadCounts DEF Counted
<1>2. CASE Emit
  BY <1>2, EmitCounts
<1>3. CASE Publish
  BY <1>3, PublishCounts
<1>4. CASE Return
  <2>1. /\ total' = Sum(total, tally) /\ pc = "ended" /\ pc' = "returned"
        /\ UNCHANGED <<emitted, substituted>>
    BY <1>4 DEF Return, history
  <2> QED BY <2>1, SumCounts DEF Counted
<1>5. CASE NextPass
  <2>1. /\ total' = Sum(total, tally) /\ tally' = NoTally /\ pc = "ended" /\ pc' = "read"
        /\ before' = [published |-> emitted, restamped |-> substituted]
        /\ UNCHANGED <<emitted, substituted>>
    BY <1>5 DEF NextPass
  <2> QED BY <1>0, <2>1, SumCounts, Numbers DEF Counted, NoTally
<1>6. CASE Interrupted
  <2>1. /\ interrupt' /\ pc' = "returned" /\ UNCHANGED <<total, emitted, substituted, before>>
        /\ pc \notin {"returned", "exited", "failed"}
    BY <1>6 DEF Interrupted, Awaits, counts, history
  <2> QED BY <2>1 DEF Counted
<1>7. CASE GateOpens \/ Wake \/ DropTf \/ SourceEnds \/ Fails \/ CtrlC \/ Report \/ Tick
           \/ UNCHANGED vars
  <2>1. /\ UNCHANGED <<tally, total, emitted, substituted, before>>
        /\ interrupt => interrupt'
        /\ \/ pc' = pc
           \/ pc' \notin {"publishing", "returned", "exited"} /\ pc # "publishing"
              /\ pc \notin {"returned", "exited", "failed"}
           \/ pc' = "failed"
           \/ pc = "returned" /\ pc' = "exited"
    BY <1>7 DEF GateOpens, Wake, DropTf, SourceEnds, Fails, CtrlC, Report, Tick, vars,
                counts, history
  <2> QED BY <2>1 DEF Counted
<1> QED BY <1>1, <1>2, <1>3, <1>4, <1>5, <1>6, <1>7 DEF Next, ReplayStep

\* The totals main prints are what went out, summed over every pass, as long as
\* no counter of the model is full; when Ctrl-C cut a pass short, what went out
\* in the passes before it and nothing of it.
THEOREM TotalsAreTrue == Spec => []TotalsTrue
<1>1. Init => Counted
  BY DEF Init, Counted, NoTally
<1>2. Spec => []Counted
  BY <1>1, CountedStep, Typed, PTL DEF Spec
<1>3. Counted => TotalsTrue
  BY DEF Counted, TotalsTrue
<1> QED BY <1>2, <1>3, PTL

-----------------------------------------------------------------------------
(* The window *)

Wired(i) == recording[i].kind # "skip"

\* The pass is pinned to the first message with a wire form, and is not pinned
\* before it.
Pinned ==
    /\ base = Unset => \A i \in 1..pos : ~Wired(i)
    /\ base = Unset /\ pc = "ended" => pos = Len(recording)
    /\ base # Unset =>
          \E f \in 1..pos : /\ Wired(f) /\ \A i \in 1..f - 1 : ~Wired(i)
                            /\ base = recording[f].ts + args.start
    /\ pc \in {"waiting", "sleeping", "emit"} =>
          base # Unset /\ Wired(pos) /\ recording[pos].ts - base \in 0..args.duration

\* Message i is in the window that `base` opens.
Inside(i) ==
    /\ base # Unset
    /\ recording[i].kind \notin {"skip", "tf"}
    /\ recording[i].ts - base \in 0..args.duration

\* What the messages read so far have come to: all inside the window are
\* published, but for the one being held.
Published ==
    /\ pc = "read" => done = {i \in 1..pos : Inside(i)}
    /\ pc \in {"waiting", "sleeping", "emit"} => done = {i \in 1..pos - 1 : Inside(i)}
    /\ pc = "publishing" => done = {i \in 1..pos : Inside(i)}
    /\ pc = "ended" => done = {i \in 1..Len(recording) : Inside(i)}

WInv == TInv /\ Pinned /\ (InOrder => Published)

LEMMA Stamps ==
    ASSUME TypeOK, NEW i \in 1..Len(recording)
    PROVE  recording[i] \in Record /\ recording[i].ts \in Nat /\ recording[i].kind \in Kinds
BY Handled, RecordFields DEF TypeOK

\* The message about to be read, and what is known of base.
LEMMA ReadFacts ==
    ASSUME WInv, Read
    PROVE  /\ pos \in Nat /\ pos + 1 \in 1..Len(recording) /\ Len(recording) \in Nat
           /\ pos' = pos + 1 /\ pc = "read"
           /\ UNCHANGED <<recording, args, done>>
           /\ Upcoming = recording[pos + 1] /\ Wired(pos + 1)
           /\ base' = BaseAt(Upcoming) /\ base' \in Nat /\ base' # Unset
           /\ args.start \in Nat /\ args.duration \in Nat
           /\ base # Unset => base' = base
           /\ \E f \in 1..pos + 1 : /\ Wired(f) /\ \A i \in 1..f - 1 : ~Wired(i)
                                    /\ base' = recording[f].ts + args.start
<1>0. TypeOK /\ Pinned
  BY DEF WInv, TInv
<1>1. /\ pos \in Nat /\ pos + 1 \in 1..Len(recording) /\ Len(recording) \in Nat
      /\ args.start \in Nat /\ args.duration \in Nat
  BY <1>0, ArgTypes DEF Read, Take, TypeOK
<1>2. /\ pos' = pos + 1 /\ pc = "read" /\ UNCHANGED <<recording, args, done>>
      /\ Upcoming = recording[pos + 1] /\ Wired(pos + 1) /\ base' = BaseAt(Upcoming)
  BY DEF Read, Take, Upcoming, Wired, Pin, input, history
<1>3. recording[pos + 1].ts \in Nat /\ base \in Nat \cup {Unset}
  BY <1>0, <1>1, Stamps, Clock
<1>4. base' \in Nat /\ base' # Unset /\ (base # Unset => base' = base)
  BY <1>1, <1>2, <1>3 DEF BaseAt, Unset
<1>5. \E f \in 1..pos + 1 : /\ Wired(f) /\ \A i \in 1..f - 1 : ~Wired(i)
                            /\ base' = recording[f].ts + args.start
  <2>1. CASE base = Unset
    <3>1. \A i \in 1..(pos + 1) - 1 : ~Wired(i)
      BY <1>0, <1>1, <2>1 DEF Pinned
    <3>2. base' = recording[pos + 1].ts + args.start /\ pos + 1 \in 1..pos + 1
      BY <1>1, <1>2, <2>1 DEF BaseAt
    <3> QED BY <1>2, <3>1, <3>2
  <2>2. CASE base # Unset
    BY <1>0, <1>1, <1>4, <2>2 DEF Pinned
  <2> QED BY <2>1, <2>2
<1> QED BY <1>1, <1>2, <1>4, <1>5

LEMMA ReadPinned == WInv /\ Read => Pinned'
<1> SUFFICES ASSUME WInv, Read PROVE Pinned'
  OBVIOUS
<1>1. pc' \in {"waiting", "sleeping", "emit"} =>
         recording[pos + 1].ts - base' \in 0..args.duration
  BY ReadFacts DEF Read, SkipBeforeStart, Skip, StopAtDuration, Hold
<1> QED BY <1>1, ReadFacts DEF Pinned, Wired

\* Nothing was inside a window that had not been opened.
LEMMA ReadInside ==
    ASSUME WInv, Read, InOrder, Published
    PROVE  /\ done = {i \in 1..pos : Inside(i)'}
           /\ \A i \in 1..Len(recording) :
                 Inside(i)' <=> /\ recording[i].kind \notin {"skip", "tf"}
                                /\ recording[i].ts - base' \in 0..args.duration
<1>1. \A i : Inside(i)' <=> /\ recording[i].kind \notin {"skip", "tf"}
                            /\ recording[i].ts - base' \in 0..args.duration
  BY ReadFacts DEF Inside
<1>2. done = {i \in 1..pos : Inside(i)}
  BY ReadFacts DEF Published
<1>3. CASE base = Unset
  <2>1. \A i \in 1..pos : ~Inside(i) /\ ~Inside(i)'
    BY <1>1, <1>3 DEF WInv, Pinned, Wired, Inside
  <2> QED BY <1>1, <1>2, <2>1
<1>4. CASE base # Unset
  <2>1. \A i : Inside(i)' <=> Inside(i)
    BY <1>1, <1>4, ReadFacts DEF Inside
  <2> QED BY <1>1, <1>2, <2>1
<1> QED BY <1>3, <1>4

LEMMA ReadPublished == WInv /\ InOrder /\ Published /\ Read => Published'
<1> SUFFICES ASSUME WInv, InOrder, Published, Read PROVE Published'
  OBVIOUS
<1>a. PICK n \in Nat, m \in Nat : n = pos + 1 /\ m = Len(recording)
  BY ReadFacts
<1>0. /\ pos \in Nat /\ n \in 1..m /\ m \in Nat /\ pos' = n /\ Len(recording)' = m
      /\ done' = done /\ base' \in Nat /\ args.duration \in Nat
      /\ Upcoming = recording[n] /\ BaseAt(Upcoming) = base'
  BY <1>a, ReadFacts
<1>1. \A i \in 1..m : recording[i].ts \in Nat
  BY <1>a, Stamps DEF WInv, TInv
<1>2. \A i, j \in 1..m : i < j => recording[i].ts <= recording[j].ts
  BY <1>a DEF InOrder
<1>3. CASE SkipBeforeStart(Upcoming)
  <2>1. ~Inside(n)' /\ pc' = "read"
    BY <1>a, <1>0, <1>1, <1>3, ReadInside DEF SkipBeforeStart, Skip
  <2>2. {i \in 1..n : Inside(i)'} = {i \in 1..pos : Inside(i)'}
    BY <1>a, <1>0, <2>1 DEF Inside
  <2> QED BY <1>a, <1>0, <2>1, <2>2, ReadInside DEF Published
<1>4. CASE StopAtDuration(Upcoming)
  <2>1. pc' = "ended" /\ recording[n].ts - base' > args.duration
    BY <1>0, <1>4 DEF StopAtDuration
  <2>2. \A i \in n..m : ~Inside(i)'
    <3> TAKE i \in n..m
    <3>1. i \in 1..m /\ recording[n].ts <= recording[i].ts
      BY <1>0, <1>1, <1>2
    <3> QED BY <1>a, <1>0, <1>1, <2>1, <3>1, ReadInside
  <2>3. {i \in 1..m : Inside(i)'} = {i \in 1..pos : Inside(i)'}
    BY <1>a, <1>0, <2>2 DEF Inside
  <2> QED BY <1>a, <1>0, <2>1, <2>3, ReadInside DEF Published
<1>5. CASE Hold(Upcoming)
  <2>1. pc' \in {"waiting", "sleeping", "emit"} /\ n - 1 = pos
    BY <1>a, <1>0, <1>5 DEF Hold
  <2> QED BY <1>a, <1>0, <2>1, ReadInside DEF Published
<1> QED BY <1>3, <1>4, <1>5 DEF Read

LEMMA SkipWindow == WInv /\ SkipUnsupported => Pinned' /\ (InOrder /\ Published => Published')
<1> SUFFICES ASSUME WInv, SkipUnsupported
             PROVE  Pinned' /\ (InOrder /\ Published => Published')
  OBVIOUS
<1>1. /\ pos' = pos + 1 /\ pc = "read" /\ pc' = "read" /\ pos \in Nat
      /\ UNCHANGED <<recording, args, base, done>> /\ ~Wired(pos + 1) /\ ~Inside(pos + 1)
  BY DEF SkipUnsupported, Skip, Take, Upcoming, Wired, Inside, input, history, WInv, TInv, TypeOK
<1>2. \A i : (Inside(i)' <=> Inside(i)) /\ (Wired(i)' <=> Wired(i))
  BY <1>1 DEF Inside, Wired
<1>3. Pinned'
  <2>1. Pinned
    BY DEF WInv
  <2>2. CASE base = Unset
    BY <1>1, <1>2, <2>1, <2>2 DEF Pinned
  <2>3. CASE base # Unset
    <3>1. PICK f \in 1..pos : /\ Wired(f) /\ \A i \in 1..f - 1 : ~Wired(i)
                              /\ base = recording[f].ts + args.start
      BY <2>1, <2>3 DEF Pinned
    <3>2. f \in 1..pos'
      BY <1>1
    <3> QED BY <1>1, <1>2, <2>3, <3>1, <3>2 DEF Pinned
  <2> QED BY <2>2, <2>3
<1>4. {i \in 1..pos + 1 : Inside(i)} = {i \in 1..pos : Inside(i)}
  BY <1>1
<1> QED BY <1>1, <1>2, <1>3, <1>4 DEF Published

LEMMA WindowStep == WInv /\ [Next]_vars => WInv'
<1> SUFFICES ASSUME WInv, [Next]_vars PROVE Pinned' /\ (InOrder /\ Published => Published')
  BY TypeStep, ArgsKept DEF WInv, TInv, InOrder
<1>0. TypeOK /\ Handling /\ Pinned
  BY DEF WInv, TInv
<1>1. CASE Read
  BY <1>1, ReadPinned, ReadPublished
<1>2. CASE SkipUnsupported
  BY <1>2, SkipWindow
<1>3. CASE Emit \/ DropTf
  <2>1. /\ pos \in 1..Len(recording) /\ pos \in Nat /\ pc = "emit"
        /\ UNCHANGED <<recording, args, pos, base>> /\ pc' \in {"read", "publishing"}
    BY <1>0, <1>3 DEF Emit, DropTf, TypeOK, Handling, input, clocks
  <2>2. \A i : (Inside(i)' <=> Inside(i)) /\ (Wired(i)' <=> Wired(i))
    BY <2>1 DEF Inside, Wired
  <2>3. Pinned'
    BY <1>0, <2>1, <2>2 DEF Pinned
  <2>4. CASE Emit
    <3>1. Inside(pos) /\ done' = done \cup {pos} /\ pc' = "publishing"
      BY <1>0, <2>1, <2>4 DEF Emit, Current, Pinned, Wired, Inside
    <3>2. {i \in 1..pos : Inside(i)} = {i \in 1..pos - 1 : Inside(i)} \cup {pos}
      BY <2>1, <3>1
    <3> QED BY <2>1, <2>2, <2>3, <3>1, <3>2 DEF Published
  <2>5. CASE DropTf
    <3>1. ~Inside(pos) /\ done' = done /\ pc' = "read"
      BY <2>5 DEF DropTf, Current, Inside, history
    <3>2. {i \in 1..pos : Inside(i)} = {i \in 1..pos - 1 : Inside(i)}
      BY <2>1, <3>1
    <3> QED BY <2>1, <2>2, <2>3, <3>1, <3>2 DEF Published
  <2> QED BY <1>3, <2>4, <2>5
<1>4. CASE NextPass
  <2>1. base' = Unset /\ pos' = 0 /\ done' = {} /\ pc' = "read"
    BY <1>4 DEF NextPass, ClocksReset
  <2> QED BY <2>1 DEF Pinned, Published
<1>5. CASE SourceEnds
  <2>1. /\ pc = "read" /\ pc' = "ended" /\ pos = Len(recording)
        /\ UNCHANGED <<recording, args, pos, base, done>>
    BY <1>5 DEF SourceEnds, input, clocks, history
  <2>2. \A i : (Inside(i)' <=> Inside(i)) /\ (Wired(i)' <=> Wired(i))
    BY <2>1 DEF Inside, Wired
  <2> QED BY <1>0, <2>1, <2>2 DEF Pinned, Published
<1>6. CASE GateOpens \/ Wake \/ Publish \/ Return \/ Report \/ Fails \/ CtrlC
           \/ Interrupted \/ Tick \/ UNCHANGED vars
  <2>1. /\ UNCHANGED <<recording, args, pos, base, done>>
        /\ \/ pc' = pc
           \/ pc \in {"waiting", "sleeping"} /\ pc' = "emit"
           \/ pc = "publishing" /\ pc' = "read"
           \/ pc' \in {"returned", "exited", "failed"}
    BY <1>6 DEF GateOpens, Wake, Publish, Return, Report, Fails, CtrlC, Interrupted, Tick,
                vars, input, clocks, history
  <2>2. \A i : (Inside(i)' <=> Inside(i)) /\ (Wired(i)' <=> Wired(i))
    BY <2>1 DEF Inside, Wired
  <2> QED BY <1>0, <2>1, <2>2 DEF Pinned, Published
<1> QED BY <1>1, <1>2, <1>3, <1>4, <1>5, <1>6 DEF Next, ReplayStep

\* The window that base opens is the one --start and --duration ask for.
LEMMA InsideWindow ==
    ASSUME WInv, pc = "ended", InOrder
    PROVE  done = Window
<1> DEFINE m == Len(recording)
           W == {i \in 1..m : Wired(i)}
           Least(f) == f \in W /\ \A j \in W : f <= j
<1>0. /\ TypeOK /\ Pinned /\ done = {i \in 1..m : Inside(i)} /\ m \in Nat
      /\ pos \in Nat /\ pos <= m /\ args.start \in Nat
  BY ArgTypes DEF WInv, TInv, Published, TypeOK
<1>1. Window = {i \in W : /\ recording[i].kind # "tf"
                          /\ recording[i].ts - (recording[CHOOSE f \in W : Least(f)].ts
                                                  + args.start) \in 0..args.duration}
  BY DEF Window, Wired
<1> HIDE DEF W, Least
<1>2. CASE base = Unset
  <2>1. done = {} /\ W = {}
    BY <1>0, <1>2 DEF Inside, Pinned, W
  <2> QED BY <1>1, <2>1
<1>3. CASE base # Unset
  <2>1. PICK f \in 1..pos : /\ Wired(f) /\ \A i \in 1..f - 1 : ~Wired(i)
                            /\ base = recording[f].ts + args.start
    BY <1>0, <1>3 DEF Pinned
  <2>2. Least(f)
    BY <1>0, <2>1 DEF W, Least
  <2>3. \A g \in W : Least(g) => g = f
    BY <1>0, <2>2 DEF W, Least
  <2>4. f \in W
    BY <2>2 DEF Least
  <2>5. (CHOOSE g \in W : Least(g)) = f
    BY <2>2, <2>3, <2>4
  <2>6. \A i \in 1..m : Inside(i) <=> /\ i \in W /\ recording[i].kind # "tf"
                                      /\ recording[i].ts - (recording[f].ts + args.start)
                                            \in 0..args.duration
    BY <1>3, <2>1 DEF Inside, W, Wired
  <2>7. W \subseteq 1..m
    BY DEF W
  <2> QED BY <1>0, <1>1, <2>5, <2>6, <2>7
<1> QED BY <1>2, <1>3

\* A pass over a recording in timestamp order that ended published exactly the
\* messages between --start and --duration, whatever the gate did meanwhile.
THEOREM WindowIsExact == Spec => []WindowExact
<1>1. Init => Pinned /\ Published
  BY DEF Init, Pinned, Published
<1>2. Init => WInv
  BY <1>1, InitType DEF WInv, TInv
<1>3. WInv => WindowExact
  BY InsideWindow DEF WindowExact
<1> QED BY <1>2, <1>3, WindowStep, PTL DEF Spec

-----------------------------------------------------------------------------
(* The spacing of stamps *)

\* The last stamp of the pass was mapped by the clocks the pass still has, as
\* far as they cannot have moved.
Spaced ==
    done # {} =>
        /\ sent # NothingSent /\ base # Unset
        /\ Prompt(sent.record) /\ args.stamps = "shifted" =>
              sent.stamp = sent.record.ts + retimer.delta
        /\ Prompt(sent.record) /\ args.stamps = "scaled" /\ Ungated =>
              sent.stamp = retimer.start + (sent.record.ts - retimer.first) * FreshPace

\* Without gate messages nothing moves the rate.
RateUnmoved == Ungated => pc # "waiting" /\ retimer.pace = FreshPace

SInv == WInv /\ RateUnmoved /\ Spaced

LEMMA NotNothing == [record |-> Current, at |-> now, stamp |-> StampOut(Current)] # NothingSent
<1>1. DOMAIN [record |-> Current, at |-> now, stamp |-> StampOut(Current)]
         # DOMAIN NothingSent
  BY DEF NothingSent
<1> QED BY <1>1

LEMMA PromptMapped ==
    ASSUME NEW r \in Record, Prompt(r)
    PROVE  /\ args.stamps = "shifted" => StampOut(r) = r.ts + retimer.delta
           /\ args.stamps = "scaled" =>
                 StampOut(r) = retimer.start + (r.ts - retimer.first) * retimer.pace
BY RecordFields DEF Prompt, StampOut, Substituted, Mapped

LEMMA Difference ==
    ASSUME NEW s \in Int, NEW f \in Int, NEW a \in Int, NEW b \in Int, NEW p \in Int
    PROVE  (s + (a - f) * p) - (s + (b - f) * p) = (a - b) * p
OBVIOUS

LEMMA EmitSpaced ==
    ASSUME SInv, Emit
    PROVE  /\ Spaced'
           /\ done # {} /\ Prompt(sent.record) /\ Prompt(sent'.record) =>
                LET recorded == sent'.record.ts - sent.record.ts
                    stamped == sent'.stamp - sent.stamp
                IN  /\ args.stamps = "shifted" => stamped = recorded
                    /\ args.stamps = "scaled" /\ Ungated => stamped = recorded * FreshPace
<1>0. TypeOK /\ Pinned /\ Spaced /\ RateUnmoved /\ pos \in 1..Len(recording)
  BY DEF SInv, WInv, TInv, Handling, Emit
<1>1. /\ sent' = [record |-> Current, at |-> now, stamp |-> StampOut(Current)]
      /\ sent'.record = Current /\ sent'.stamp = StampOut(Current)
      /\ UNCHANGED <<recording, args, base, retimer>> /\ base # Unset
  BY <1>0 DEF Emit, clocks, input, Pinned
<1>2. /\ Current \in Record /\ Current.ts \in Nat /\ FreshPace \in Nat
      /\ retimer.delta \in Int /\ retimer.start \in Int /\ retimer.first \in Int
  BY <1>0, Stamps, ArgTypes, Clock, SMTT(30) DEF Current, TypeOK
<1>3. sent' # NothingSent
  BY <1>1, NotNothing
<1>4. Prompt(Current) =>
         /\ args.stamps = "shifted" => sent'.stamp = Current.ts + retimer.delta
         /\ args.stamps = "scaled" /\ Ungated =>
               sent'.stamp = retimer.start + (Current.ts - retimer.first) * FreshPace
  BY <1>0, <1>1, <1>2, PromptMapped DEF RateUnmoved
<1>5. Spaced'
  <2>1. FreshPace' = FreshPace /\ Ungated' = Ungated
    BY <1>1 DEF FreshPace, Ungated
  <2> QED BY <1>1, <1>3, <1>4, <2>1 DEF Spaced
<1>6. ASSUME done # {}, Prompt(sent.record), Prompt(sent'.record)
      PROVE  /\ args.stamps = "shifted" =>
                   sent'.stamp - sent.stamp = sent'.record.ts - sent.record.ts
             /\ args.stamps = "scaled" /\ Ungated =>
                   sent'.stamp - sent.stamp = (sent'.record.ts - sent.record.ts) * FreshPace
  <2>1. sent.record.ts \in Nat
    BY <1>0, <1>6, SentType DEF Spaced
  <2>2. args.stamps = "shifted" =>
           sent'.stamp - sent.stamp = sent'.record.ts - sent.record.ts
    BY <1>0, <1>1, <1>2, <1>4, <1>6, <2>1 DEF Spaced
  <2>3. ASSUME args.stamps = "scaled", Ungated
        PROVE  sent'.stamp - sent.stamp = (sent'.record.ts - sent.record.ts) * FreshPace
    <3>1. /\ sent'.stamp = retimer.start + (Current.ts - retimer.first) * FreshPace
          /\ sent.stamp = retimer.start + (sent.record.ts - retimer.first) * FreshPace
      BY <1>0, <1>1, <1>4, <1>6, <2>3 DEF Spaced
    <3>2. (retimer.start + (Current.ts - retimer.first) * FreshPace)
            - (retimer.start + (sent.record.ts - retimer.first) * FreshPace)
          = (Current.ts - sent.record.ts) * FreshPace
      BY <1>2, <2>1, Difference
    <3> QED BY <1>1, <3>1, <3>2
  <2> QED BY <2>2, <2>3
<1> QED BY <1>5, <1>6

LEMMA UnmovedStep == SInv /\ [Next]_vars => RateUnmoved'
<1> SUFFICES ASSUME SInv, [Next]_vars, Ungated PROVE pc' # "waiting" /\ (retimer.pace = FreshPace)'
  BY ArgsKept DEF RateUnmoved, Ungated
<1>0. /\ TypeOK /\ pc # "waiting" /\ retimer.pace = FreshPace /\ FreshPace' = FreshPace
      /\ retimer \in RetimerType
  BY ArgsKept DEF SInv, WInv, TInv, RateUnmoved, FreshPace, TypeOK, RetimerType
<1>1. CASE Read
  <2>1. Upcoming.kind # "gate"
    BY <1>1, ReadFacts DEF SInv, Ungated
  <2>2. pc' # "waiting"
    BY <1>1, <2>1 DEF Read, SkipBeforeStart, Skip, StopAtDuration, Hold
  <2>3. retimer'.pace = retimer.pace
    BY <1>0, <1>1 DEF Read, Pin, RetimerType
  <2> QED BY <1>0, <2>2, <2>3
<1>2. CASE NextPass
  BY <1>0, <1>2 DEF NextPass, ClocksReset, FreshRetimer
<1>3. CASE SkipUnsupported \/ Wake \/ DropTf \/ Emit \/ Publish \/ SourceEnds \/ Return
           \/ Report \/ Fails \/ CtrlC \/ Interrupted \/ Tick \/ UNCHANGED vars
  <2>1. retimer' = retimer /\ (pc' = pc \/ pc' # "waiting")
    BY <1>3 DEF SkipUnsupported, Take, Skip, Wake, DropTf, Emit, Publish, SourceEnds, Return,
                Report, Fails, CtrlC, Interrupted, Tick, vars, clocks
  <2> QED BY <1>0, <2>1
<1>4. ~GateOpens
  BY <1>0 DEF GateOpens
<1> QED BY <1>1, <1>2, <1>3, <1>4 DEF Next, ReplayStep

LEMMA SpacedStep == SInv /\ [Next]_vars => SInv'
<1> SUFFICES ASSUME SInv, [Next]_vars PROVE Spaced'
  BY WindowStep, UnmovedStep DEF SInv
<1>0. Spaced /\ RateUnmoved /\ (FreshPace' = FreshPace) /\ (Ungated' = Ungated) /\ args' = args
  BY ArgsKept DEF SInv, FreshPace, Ungated
<1>1. CASE Emit
  BY <1>1, EmitSpaced
<1>2. CASE NextPass
  BY <1>2 DEF NextPass, Spaced
<1>3. CASE Read
  <2>1. UNCHANGED <<sent, done>> /\ base' # Unset
    BY <1>3, ReadFacts DEF SInv, Read, Take, history
  <2>2. base # Unset => retimer' = retimer
    BY <1>3 DEF Read, Pin
  <2> QED BY <1>0, <2>1, <2>2 DEF Spaced
<1>4. CASE GateOpens
  <2>1. UNCHANGED <<sent, done, base>> /\ retimer' = Repinned(pace')
    BY <1>4 DEF GateOpens, history
  <2>2. retimer'.delta = retimer.delta
    <3>1. retimer \in RetimerType
      BY DEF SInv, WInv, TInv, TypeOK, RetimerType
    <3> QED BY <2>1, <3>1 DEF Repinned, RetimerType
  <2>3. ~Ungated
    BY <1>0, <1>4 DEF GateOpens, RateUnmoved
  <2> QED BY <1>0, <2>1, <2>2, <2>3 DEF Spaced
<1>5. CASE SkipUnsupported \/ Wake \/ DropTf \/ Publish \/ SourceEnds \/ Return \/ Report
           \/ Fails \/ CtrlC \/ Interrupted \/ Tick \/ UNCHANGED vars
  <2>1. UNCHANGED <<sent, done, base, retimer>>
    BY <1>5 DEF SkipUnsupported, Take, Wake, DropTf, Publish, SourceEnds, Return, Report,
                Fails, CtrlC, Interrupted, Tick, vars, history, clocks
  <2> QED BY <1>0, <2>1 DEF Spaced
<1> QED BY <1>1, <1>2, <1>3, <1>4, <1>5 DEF Next, ReplayStep

\* Consecutive messages of a pass are stamped as far apart as they were
\* recorded when stamps are shifted, whatever gates do; and that distance over
\* --rate (over 1 with --rate 0) when they are scaled and there is no gate.
THEOREM SpacingIsKept == Spec => SpacingKept
<1> DEFINE Step == sent' # sent /\ done # {} /\ Prompt(sent.record) /\ Prompt(sent'.record) =>
                     LET recorded == sent'.record.ts - sent.record.ts
                         stamped == sent'.stamp - sent.stamp
                     IN  /\ args.stamps = "shifted" => stamped = recorded
                         /\ args.stamps = "scaled" /\ Ungated => stamped = recorded * FreshPace
<1>1. Init => SInv
  <2>1. Init => Pinned /\ Published /\ Spaced /\ RateUnmoved
    BY DEF Init, Pinned, Published, Spaced, RateUnmoved, FreshRetimer
  <2> QED BY <2>1, InitType DEF SInv, WInv, TInv
<1>2. SInv /\ [Next]_vars => [Step]_vars
  BY EmitSpaced, SentOnlyByEmit DEF SInv
<1>3. [][Step]_vars <=> SpacingKept
  BY DEF SpacingKept
<1> QED BY <1>1, <1>2, <1>3, SpacedStep, PTL DEF Spec
=============================================================================
