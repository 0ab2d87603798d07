------------------------------- MODULE Replay -------------------------------
(***************************************************************************)
(* The replay task of main.rs: replay_once paces one pass over the         *)
(* recording against the wall clock or against the gate stream, rewrites   *)
(* stamps (Retimer::map), publishes and counts; replay_all adds the passes *)
(* up and rewinds for --loop; main races all of it against Ctrl-C.         *)
(*                                                                         *)
(* A rate is kept as its reciprocal, `pace`: wall ticks per recorded tick. *)
(* Lockstep's wait is here only what it promises: it returns some time     *)
(* (module Lockstep says when), and may have moved the rate.  Instant and  *)
(* SystemTime are one clock.                                               *)
(***************************************************************************)
EXTENDS Integers, Sequences

CONSTANTS
    Inputs,      \* [messages, args]: what is replayed, and with which options
    Realtime,    \* the pace of --rate 1
    Paces,       \* what `blend` may make of it
    MaxWall,     \* bound on the wall clock
    MaxCount     \* counters stop here

Kinds == {"skip",   \* a payload with no LCM wire form
          "tf",     \* a tf message --drop-tf leaves nothing of
          "gate",   \* the lockstep stream
          "plain"}

\* The payload's own stamp: on the recorder's clock, on another or unset, or
\* no stamp field at all.
Clocks == {"ours", "other", "none"}

Record == [ts : Nat, kind : Kinds, clock : Clocks, stamp : Int]

\* The options the loop looks at; `pace` is the reciprocal of --rate, 0 for
\* --rate 0, and `sink` the transport.
Args == [stamps : {"scaled", "shifted", "original"}, pace : Nat, start : Nat,
         duration : Nat, repeat : BOOLEAN, sink : {"lcm", "zenoh"}]

ASSUME ReplayAssumption ==
    /\ \A i \in Inputs : i.messages \in Seq(Record) /\ i.args \in Args
    /\ Realtime \in Nat \ {0} /\ Paces \subseteq Nat \ {0}
    /\ MaxWall \in Nat /\ MaxCount \in Nat

VARIABLES
    recording,    \* the recording, as source.next() hands it out
    args,         \* the options
    pos,          \* index of the record being handled
    pc,           \* where the replay task is
    now,          \* the wall clock
    base,         \* recorded time replay starts at, or Unset
    anchor,       \* Anchor: [recorded, wall]
    pace,         \* 1 / rate
    retimer,      \* Retimer: [first, start, pace] or [delta]
    tally,        \* this pass's Tally
    total,        \* the Tally of finished passes
    interrupt,    \* a SIGINT is pending
    sent,         \* the message published last: [record, at, stamp] (history)
    done,         \* records of this pass that were published (history)
    emitted,      \* messages published so far (history)
    substituted,  \* messages given their arrival time as stamp (history)
    before        \* the two of them when the pass began (history)

input == <<recording, args>>
clocks == <<base, anchor, pace, retimer>>
counts == <<tally, total>>
history == <<sent, done, emitted, substituted, before>>
vars == <<input, pos, pc, now, clocks, counts, interrupt, history>>

Unset == -1
NoAnchor == [recorded |-> 0, wall |-> 0]
NoTally == [published |-> 0, skipped |-> 0, restamped |-> 0]
NothingSent == [at |-> Unset]

Plus(m, n) == IF m + n > MaxCount THEN MaxCount ELSE m + n

\* Mutant: a pass takes the place of those before it.
SumOfLast(s, t) == t

Sum(s, t) == [f \in DOMAIN s |-> Plus(s[f], t[f])]

\* replay_once starts from nothing each time.
FreshPace == IF args.pace = 0 THEN Realtime ELSE args.pace
FreshRetimer == [first |-> 0, start |-> 0, pace |-> FreshPace, delta |-> 0]

Init ==
    /\ \E i \in Inputs : recording = i.messages /\ args = i.args
    /\ pos = 0
    /\ pc = "read"
    /\ now = 0
    /\ base = Unset /\ anchor = NoAnchor /\ pace = FreshPace /\ retimer = FreshRetimer
    /\ tally = NoTally /\ total = NoTally
    /\ interrupt = FALSE
    /\ sent = NothingSent /\ done = {} /\ emitted = 0 /\ substituted = 0
    /\ before = [published |-> 0, restamped |-> 0]

-----------------------------------------------------------------------------
(* One record *)

Current == recording[pos]

\* The first message that survives filtering pins the recording to the clock.
BaseAt(r) == IF base = Unset THEN r.ts + args.start ELSE base

Pin(r) ==
    /\ base' = BaseAt(r)
    /\ IF base = Unset
       THEN /\ anchor' = [recorded |-> BaseAt(r), wall |-> now]
            /\ retimer' = [retimer EXCEPT !.first = BaseAt(r), !.start = now,
                                          !.delta = now - BaseAt(r)]
       ELSE UNCHANGED <<anchor, retimer>>

Upcoming == recording[pos + 1]

\* source.next()
Take ==
    /\ pc = "read"
    /\ pos < Len(recording)
    /\ pos' = pos + 1
    /\ UNCHANGED <<input, now, pace, total, interrupt, history>>

Skip == tally' = [tally EXCEPT !.skipped = Plus(@, 1)] /\ pc' = "read"

SkipUnsupported ==
    /\ Take
    /\ Upcoming.kind = "skip"
    /\ Skip
    /\ UNCHANGED <<base, anchor, retimer>>

SkipBeforeStart(r) == r.ts < BaseAt(r) /\ Skip

\* Mutant: the message at the limit is left out.
StopAtLimit(r) ==
    /\ r.ts - BaseAt(r) >= args.duration
    /\ pc' = "ended"
    /\ UNCHANGED tally

\* Past --duration the pass is over.
StopAtDuration(r) ==
    /\ r.ts - BaseAt(r) > args.duration
    /\ pc' = "ended"
    /\ UNCHANGED tally

\* Mutant: the deadline ignores the rate.
DueUnscaled(a, t) == a.wall + (IF t < a.recorded THEN 0 ELSE t - a.recorded)

\* The moment a message recorded at t is due, measured from an anchor.
Due(a, t) == a.wall + (IF t < a.recorded THEN 0 ELSE t - a.recorded) * pace

\* A gate message goes to Lockstep::wait, another to sleep_until, which returns
\* at once when the deadline is past; with --rate 0 there is none.
Hold(r) ==
    /\ r.ts - BaseAt(r) \in 0..args.duration
    /\ pc' = IF r.kind = "gate" THEN "waiting"
             ELSE IF args.pace > 0 /\ now < Due(anchor', r.ts) THEN "sleeping" ELSE "emit"
    /\ UNCHANGED tally

Read ==
    /\ Take
    /\ Upcoming.kind # "skip"
    /\ Pin(Upcoming)
    /\ SkipBeforeStart(Upcoming) \/ StopAtDuration(Upcoming) \/ Hold(Upcoming)

\* Mutant: the retimer keeps the rate it had.
RepinnedRateKept(p) == [retimer EXCEPT !.first = Current.ts, !.start = now]

\* Mutant: shifted stamps are pinned anew too.
RepinnedShift(p) ==
    [retimer EXCEPT !.first = Current.ts, !.start = now, !.pace = p,
                    !.delta = now - Current.ts]

Repinned(p) == [retimer EXCEPT !.first = Current.ts, !.start = now, !.pace = p]

\* wait() returns; the gate message pins the recording to the clock anew.
GateOpens ==
    /\ pc = "waiting"
    /\ pace' \in Paces \cup {pace}
    /\ anchor' = [recorded |-> Current.ts, wall |-> now]
    /\ retimer' = Repinned(pace')
    /\ pc' = "emit"
    /\ UNCHANGED <<input, pos, now, base, counts, interrupt, history>>

\* sleep_until() returns, never before the deadline.
Wake ==
    /\ pc = "sleeping"
    /\ now >= Due(anchor, Current.ts)
    /\ pc' = "emit"
    /\ UNCHANGED <<input, pos, now, clocks, counts, interrupt, history>>

\* Nothing of the message is left: it is neither published nor counted.
DropTf ==
    /\ pc = "emit"
    /\ Current.kind = "tf"
    /\ pc' = "read"
    /\ UNCHANGED <<input, pos, now, clocks, counts, interrupt, history>>

-----------------------------------------------------------------------------
(* Retiming and publishing *)

\* Retimer::map
Mapped(t) ==
    IF args.stamps = "scaled" THEN retimer.start + (t - retimer.first) * retimer.pace
    ELSE IF args.stamps = "shifted" THEN t + retimer.delta
    ELSE t

Substituted(r) == args.stamps # "original" /\ r.clock = "other"

StampOut(r) == Mapped(IF Substituted(r) THEN r.ts ELSE r.stamp)

\* Retimer::apply, and sink.publish hands the message to the transport.
Emit ==
    /\ pc = "emit"
    /\ Current.kind # "tf"
    /\ LET n == IF Substituted(Current) THEN 1 ELSE 0
       IN  /\ tally' = [tally EXCEPT !.restamped = Plus(@, n)]
           /\ substituted' = Plus(substituted, n)
    /\ sent' = [record |-> Current, at |-> now, stamp |-> StampOut(Current)]
    /\ done' = done \cup {pos}
    /\ emitted' = Plus(emitted, 1)
    /\ pc' = "publishing"
    /\ UNCHANGED <<input, pos, now, clocks, total, interrupt, before>>

\* publish() returns.
Publish ==
    /\ pc = "publishing"
    /\ tally' = [tally EXCEPT !.published = Plus(@, 1)]
    /\ pc' = "read"
    /\ UNCHANGED <<input, pos, now, clocks, total, interrupt, history>>

-----------------------------------------------------------------------------
(* Passes *)

\* source.next() returned None.
SourceEnds ==
    /\ pc = "read"
    /\ pos = Len(recording)
    /\ pc' = "ended"
    /\ UNCHANGED <<input, pos, now, clocks, counts, interrupt, history>>

\* replay_all adds the pass up; that was the last one.
Return ==
    /\ pc = "ended"
    /\ ~args.repeat
    /\ total' = Sum(total, tally)
    /\ pc' = "returned"
    /\ UNCHANGED <<input, pos, now, clocks, tally, interrupt, history>>

\* replay_once pins its clocks anew on every call.
ClocksReset ==
    /\ base' = Unset /\ anchor' = NoAnchor
    /\ pace' = FreshPace /\ retimer' = FreshRetimer

\* --loop: the pass is added up, the source rewound, and replay_once called
\* again.
NextPass ==
    /\ pc = "ended"
    /\ args.repeat
    /\ total' = Sum(total, tally)
    /\ tally' = NoTally
    /\ pos' = 0
    /\ done' = {}
    /\ before' = [published |-> emitted, restamped |-> substituted]
    /\ ClocksReset
    /\ pc' = "read"
    /\ UNCHANGED <<input, now, interrupt, sent, emitted, substituted>>

\* An error from the source, a payload or the transport ends the program
\* through `result?`.
Fails ==
    /\ pc \in {"read", "emit", "publishing"}
    /\ pc' = "failed"
    /\ UNCHANGED <<input, pos, now, clocks, counts, interrupt, history>>

-----------------------------------------------------------------------------
(* Ctrl-C and the clock *)

\* A SIGINT once ctrl_c() listens for it.  select! polls its branches in random
\* order, so it may listen before the replay's first step; when it does not, a
\* SIGINT before the first await kills the process and is not modelled.
CtrlC ==
    /\ ~interrupt
    /\ interrupt' = TRUE
    /\ UNCHANGED <<input, pos, pc, now, clocks, counts, history>>

\* Mutant: the signal is looked at only while a reply is waited for.
InterruptedAtGate ==
    /\ interrupt
    /\ pc = "waiting"
    /\ pc' = "returned"
    /\ UNCHANGED <<input, pos, now, clocks, counts, interrupt, history>>

\* Where the replay may hand the thread back: Lockstep::wait, sleep_until short
\* of its deadline, and LCM's socket; Zenoh's put is over when it is called.
Awaits ==
    \/ pc \in {"waiting", "sleeping"}
    \/ pc = "publishing" /\ args.sink = "lcm"

\* select! looks at the signal when the replay hands the thread back, and drops
\* the replay where it stands, this pass's tally included.
Interrupted ==
    /\ interrupt
    /\ Awaits
    /\ pc' = "returned"
    /\ UNCHANGED <<input, pos, now, clocks, counts, interrupt, history>>

\* main finishes the recorder and prints `total`.
Report ==
    /\ pc = "returned"
    /\ pc' = "exited"
    /\ UNCHANGED <<input, pos, now, clocks, counts, interrupt, history>>

Tick ==
    /\ now < MaxWall
    /\ pc \notin {"returned", "exited", "failed"}
    /\ now' = now + 1
    /\ UNCHANGED <<input, pos, pc, clocks, counts, interrupt, history>>

ReplayStep ==
    \/ SkipUnsupported \/ Read \/ GateOpens \/ Wake \/ DropTf \/ Emit \/ Publish
    \/ SourceEnds \/ Return \/ NextPass \/ Report

Next == ReplayStep \/ Fails \/ CtrlC \/ Interrupted \/ Tick

Spec == Init /\ [][Next]_vars

\* Awaits that cannot go on being over at once: sleep_until short of its deadline
\* sleeps or yields, and tokio's budget makes a socket that is always ready
\* yield now and then.  Lockstep::wait can return at once for ever.
Yields == pc = "sleeping" \/ (pc = "publishing" /\ args.sink = "lcm")

\* The runtime keeps polling main, and select! picks its branches at random: a
\* replay that goes on yielding is interrupted sooner or later.
FairSpec == Spec /\ WF_vars(ReplayStep) /\ SF_vars(Yields /\ Interrupted)

-----------------------------------------------------------------------------
(* Properties *)

Tallies == [{"published", "skipped", "restamped"} -> 0..MaxCount]

\* Type invariant.
TypeOK ==
    /\ recording \in Seq(Record)
    /\ args \in Args
    /\ pos \in 0..Len(recording)
    /\ pc \in {"read", "waiting", "sleeping", "emit", "publishing", "ended", "returned",
               "exited", "failed"}
    /\ now \in 0..MaxWall
    /\ base \in Nat \cup {Unset}
    /\ anchor \in [recorded : Nat, wall : Nat]
    /\ pace \in Nat \ {0}
    /\ retimer \in [first : Nat, start : Nat, pace : Nat \ {0}, delta : Int]
    /\ tally \in Tallies
    /\ total \in Tallies
    /\ interrupt \in BOOLEAN
    /\ sent \in {NothingSent} \cup [record : Record, at : 0..MaxWall, stamp : Int]
    /\ done \subseteq 1..Len(recording)
    /\ emitted \in 0..MaxCount
    /\ substituted \in 0..MaxCount
    /\ before \in [published : 0..MaxCount, restamped : 0..MaxCount]

\* A message whose payload was stamped no later than it was recorded.
StampedInTime(r) ==
    r.clock # "none" /\ (r.clock = "ours" => r.stamp <= r.ts)

\* Emission is paced, and stamps are to follow it.
Tracking == args.stamps = "scaled" /\ args.pace > 0

\* README.md:205: scaled stamps track emission.  Whatever lockstep does to the
\* rate and however late the replay runs, no message carries a stamp from
\* after the moment it is published.
StampsTrackEmission ==
    Tracking /\ sent # NothingSent /\ StampedInTime(sent.record) => sent.stamp <= sent.at

\* A message stamped the moment it was recorded, or given that moment.
Prompt(r) == r.clock = "other" \/ (r.clock = "ours" /\ r.stamp = r.ts)

InOrder == \A i, j \in 1..Len(recording) : i < j => recording[i].ts <= recording[j].ts

\* README.md:289: a gate publish, however early or late it comes and whatever
\* rate it brings, never makes the stamps of the messages around it change
\* places; nor does the start of another pass.
StampsForward ==
    [][Tracking /\ InOrder /\ sent' # sent /\ sent # NothingSent
       /\ Prompt(sent.record) /\ Prompt(sent'.record)
         => sent.stamp <= sent'.stamp]_vars

Ungated == \A i \in 1..Len(recording) : recording[i].kind # "gate"

\* README.md:205-207: two consecutive messages of a pass are stamped as far
\* apart as they were recorded, gate messages and changes of rate or not, when
\* stamps are shifted; and that distance over --rate, or over 1 with --rate 0,
\* when stamps are scaled and nothing gates them.
SpacingKept ==
    [][sent' # sent /\ done # {} /\ Prompt(sent.record) /\ Prompt(sent'.record) =>
         LET recorded == sent'.record.ts - sent.record.ts
             stamped == sent'.stamp - sent.stamp
         IN  /\ args.stamps = "shifted" => stamped = recorded
             /\ args.stamps = "scaled" /\ Ungated => stamped = recorded * FreshPace]_vars

\* What --start and --duration ask for, counted from the first message with a
\* wire form.
Window ==
    LET Wired == {i \in 1..Len(recording) : recording[i].kind # "skip"}
        First == CHOOSE i \in Wired : \A j \in Wired : i <= j
        Since(i) == recording[i].ts - (recording[First].ts + args.start)
    IN  {i \in Wired : recording[i].kind # "tf" /\ Since(i) \in 0..args.duration}

\* A finished pass over a recording in timestamp order published exactly the
\* messages of the window.
WindowExact == pc = "ended" /\ InOrder => done = Window

\* What main prints at the end: every message that went out, over all passes;
\* or, after Ctrl-C, those of the passes before the one it cut short.
TotalsTrue ==
    pc = "exited" /\ emitted < MaxCount =>
        \/ total.published = emitted /\ total.restamped = substituted
        \/ /\ interrupt
           /\ total.published = before.published /\ total.restamped = before.restamped

\* main.rs:293: Ctrl-C unwinds the replay, so that a recording under way is
\* finalized and the program ends.  With --loop that takes a pass that publishes
\* something, and LCM: on Zenoh a pass that never has to wait for a deadline
\* never yields.
InterruptEnds ==
    interrupt /\ (args.repeat => args.sink = "lcm" /\ InOrder /\ Window # {})
        ~> pc \in {"exited", "failed"}
=============================================================================
