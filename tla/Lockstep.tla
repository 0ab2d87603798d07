------------------------------ MODULE Lockstep ------------------------------
(***************************************************************************)
(* `--lockstep STREAM:TOPIC` (lockstep.rs, the gate branch of replay_once, *)
(* Sink::watch).  Three parties interleave: the replay task, which         *)
(* publishes gate messages and waits between them; the watcher task, which *)
(* counts replies into a `watch` channel; and the consumer with the        *)
(* network, which answers a gate message any number of times up to         *)
(* MaxReplies, loses replies and reorders them.                            *)
(*                                                                         *)
(* There is no clock: the deadline of a wait passes at any time after the  *)
(* wait began.  The channel's value (count, time) is the sequence          *)
(* `landed`: its length is the count, and the reply at an index stands for *)
(* the time it landed.  The watcher reads that time before it stores the   *)
(* value, so one reply may be in its hand, timed and not yet counted.      *)
(***************************************************************************)
EXTENDS Naturals, Sequences

CONSTANTS
    MaxGates,    \* gate messages in the recording
    MaxReplies,  \* replies a consumer sends to one gate message
    TfGate       \* TRUE when --drop-tf may empty a gate message

ASSUME LockstepAssumption ==
    MaxGates \in Nat \ {0} /\ MaxReplies \in Nat /\ TfGate \in BOOLEAN

Gates == 1..MaxGates

\* Outstanding, without the times: which gate message went out, and how many
\* replies had been counted by then.  Gate 0 stands for None.
Outstanding == [gate : 0..MaxGates, replies_before : Nat]
NotOutstanding == [gate |-> 0, replies_before |-> 0]

VARIABLES
    pc,           \* where the replay task is
    gate,         \* number of gate messages read so far
    outstanding,  \* Lockstep.outstanding
    awaited,      \* what `wait` took from it
    polled,       \* the count borrow_and_update saw last
    expired,      \* the deadline of the current wait has passed
    timeouts,     \* Lockstep.timeouts
    watching,     \* the watcher task still runs
    in_hand,      \* gate answered by the reply timed and not yet counted, or 0
    landed,       \* gates answered by the replies counted so far, in order
    wire,         \* replies under way: <<gate, n>>
    replied,      \* replied[g]: replies the consumer has sent to g
    fate,         \* fate[g]: what became of gate message g (history)
    mark,         \* replies counted by the last published_at (history)
    timed,        \* replies whose time was read before it (history)
    credit        \* credit[g]: index in landed of the reply whose time was used

vars == <<pc, gate, outstanding, awaited, polled, expired, timeouts, watching,
          in_hand, landed, wire, replied, fate, mark, timed, credit>>

replay == <<gate, outstanding, awaited, polled, expired, timeouts, fate, mark, timed,
            credit>>
network == <<watching, in_hand, landed, wire, replied>>

\* A gate message is on the transport from `publish` on.
Published(g) == fate[g] \in {"sending", "sent", "answered", "timeout"}

\* Replies whose time the watcher has read: those counted, and one in hand.
Timed == Len(landed) + IF in_hand = 0 THEN 0 ELSE 1

\* Nothing is waited for on its account any more.
Settled(g) == fate[g] \in {"dropped", "answered", "timeout"}

Init ==
    /\ pc = "next"
    /\ gate = 0
    /\ outstanding = NotOutstanding
    /\ awaited = NotOutstanding
    /\ polled = 0
    /\ expired = FALSE
    /\ timeouts = 0
    /\ watching = TRUE
    /\ in_hand = 0
    /\ landed = <<>>
    /\ wire = {}
    /\ replied = [g \in Gates |-> 0]
    /\ fate = [g \in Gates |-> "unread"]
    /\ mark = 0
    /\ timed = 0
    /\ credit = [g \in Gates |-> 0]

-----------------------------------------------------------------------------
(* The replay task *)

\* The next gate message is read and `wait` entered: it takes `outstanding`
\* and returns at once when there was none.
EnterWait ==
    /\ pc = "next"
    /\ gate < MaxGates
    /\ gate' = gate + 1
    /\ awaited' = outstanding
    /\ outstanding' = NotOutstanding
    /\ expired' = FALSE
    /\ pc' = IF outstanding = NotOutstanding THEN "release" ELSE "poll"
    /\ UNCHANGED <<polled, timeouts, fate, mark, timed, credit, network>>

Answered == Len(landed) > awaited.replies_before

\* borrow_and_update: enough replies, and the wait is over with the time of
\* the latest one.
Poll ==
    /\ pc = "poll"
    /\ polled' = Len(landed)
    /\ IF Answered
       THEN /\ pc' = "release"
            /\ fate' = [fate EXCEPT ![awaited.gate] = "answered"]
            /\ credit' = [credit EXCEPT ![awaited.gate] = Len(landed)]
       ELSE pc' = "check" /\ UNCHANGED <<fate, credit>>
    /\ UNCHANGED <<gate, outstanding, awaited, expired, timeouts, mark, timed, network>>

\* The wait ends without a reply.
GiveUp ==
    /\ timeouts' = timeouts + 1
    /\ fate' = [fate EXCEPT ![awaited.gate] = "timeout"]
    /\ pc' = "release"
    /\ UNCHANGED <<gate, outstanding, awaited, polled, expired, mark, timed, credit,
                   network>>

\* `remaining.is_zero()`.
DeadlineReached == pc = "check" /\ expired /\ GiveUp

\* timeout(remaining, arrivals.changed()) is awaited.
Park ==
    /\ pc = "check"
    /\ ~expired
    /\ pc' = "parked"
    /\ UNCHANGED <<replay, network>>

\* changed() is ready: a reply newer than the last poll, or (an error the
\* loop does not look at) a watcher that is gone.  It wins over the timer.
ChangedReady == Len(landed) > polled \/ ~watching

Wake ==
    /\ pc = "parked"
    /\ ChangedReady
    /\ pc' = "poll"
    /\ UNCHANGED <<replay, network>>

\* Mutant: the timer wins over a reply that is there as well.
TimerWins == pc = "parked" /\ expired /\ GiveUp

\* Mutant: changed() is awaited without a timeout.
TimerUnarmed == pc = "parked" /\ expired /\ ~ChangedReady /\ FALSE /\ GiveUp

TimerFires == pc = "parked" /\ expired /\ ~ChangedReady /\ GiveUp

\* --drop-tf left nothing of the message: it is not published, and no reply
\* to it will be waited for.
DropTf ==
    /\ TfGate
    /\ pc = "release"
    /\ fate' = [fate EXCEPT ![gate] = "dropped"]
    /\ pc' = "next"
    /\ UNCHANGED <<gate, outstanding, awaited, polled, expired, timeouts, mark, timed,
                   credit, network>>

\* sink.publish: the message is out before the await returns.
Publish ==
    /\ pc = "release"
    /\ fate' = [fate EXCEPT ![gate] = "sending"]
    /\ pc' = "publishing"
    /\ UNCHANGED <<gate, outstanding, awaited, polled, expired, timeouts, mark, timed,
                   credit, network>>

\* publish returned; published_at is taken.
PublishReturns ==
    /\ pc = "publishing"
    /\ mark' = Len(landed)
    /\ timed' = Timed
    /\ pc' = "returned"
    /\ UNCHANGED <<gate, outstanding, awaited, polled, expired, timeouts, fate, credit,
                   network>>

\* publish failed: the error ends the replay.
PublishFails ==
    /\ pc = "publishing"
    /\ pc' = "done"
    /\ UNCHANGED <<replay, network>>

\* Mutant: the count is what the last wait saw.
RememberStale == [gate |-> gate, replies_before |-> polled]

\* Mutant: the count is one too low, where there is one to take away.
RememberSaturating ==
    [gate |-> gate, replies_before |-> IF landed = <<>> THEN 0 ELSE Len(landed) - 1]

Remember == [gate |-> gate, replies_before |-> Len(landed)]

\* sent(): the count is read now, after the message went out.
Sent ==
    /\ pc = "returned"
    /\ outstanding' = Remember
    /\ fate' = [fate EXCEPT ![gate] = "sent"]
    /\ pc' = "next"
    /\ UNCHANGED <<gate, awaited, polled, expired, timeouts, mark, timed, credit,
                   network>>

\* The recording (or its --duration) is over.
Finish ==
    /\ pc = "next"
    /\ gate = MaxGates
    /\ pc' = "done"
    /\ UNCHANGED <<replay, network>>

-----------------------------------------------------------------------------
(* Clock, consumer, network and watcher *)

\* Time runs on to the deadline of the wait under way.
DeadlinePasses ==
    /\ pc \in {"poll", "check", "parked"}
    /\ ~expired
    /\ expired' = TRUE
    /\ UNCHANGED <<pc, gate, outstanding, awaited, polled, timeouts, fate, mark, timed,
                   credit, network>>

\* The downstream node answers gate message g.
Answer ==
    \E g \in Gates :
        /\ Published(g)
        /\ replied[g] < MaxReplies
        /\ replied' = [replied EXCEPT ![g] = @ + 1]
        /\ wire' = wire \cup {<<g, replied[g] + 1>>}
        /\ UNCHANGED <<pc, replay, watching, in_hand, landed>>

\* The transport loses a reply.
Lose ==
    \E r \in wire :
        /\ wire' = wire \ {r}
        /\ UNCHANGED <<pc, replay, watching, in_hand, landed, replied>>

\* The watcher receives a reply, whatever it answers, and reads the clock.
Take ==
    /\ watching
    /\ in_hand = 0
    /\ \E r \in wire :
          /\ wire' = wire \ {r}
          /\ in_hand' = r[1]
    /\ UNCHANGED <<pc, replay, watching, landed, replied>>

\* Then it stores count and time in the channel.
Land ==
    /\ in_hand # 0
    /\ landed' = Append(landed, in_hand)
    /\ in_hand' = 0
    /\ UNCHANGED <<pc, replay, watching, wire, replied>>

\* recv() failed: the watcher task ends and drops its end of the channel.
WatcherEnds ==
    /\ watching
    /\ in_hand = 0
    /\ watching' = FALSE
    /\ UNCHANGED <<pc, replay, in_hand, landed, wire, replied>>

-----------------------------------------------------------------------------

WaitStep == Poll \/ DeadlineReached \/ Park \/ Wake \/ TimerFires

ReplayStep ==
    \/ EnterWait \/ WaitStep
    \/ DropTf \/ Publish \/ PublishReturns \/ PublishFails \/ Sent \/ Finish

NetworkStep == Answer \/ Lose \/ Take \/ Land \/ WatcherEnds

\* With the replay its process ends, and the watcher with it.
Next == ReplayStep \/ DeadlinePasses \/ (pc # "done" /\ NetworkStep)

Spec == Init /\ [][Next]_vars

\* The runtime keeps polling the replay task and time goes on; nothing is
\* assumed of the consumer, the network or the watcher.
FairSpec == Spec /\ WF_vars(ReplayStep) /\ WF_vars(DeadlinePasses)

-----------------------------------------------------------------------------
(* Properties *)

TypeOK ==
    /\ pc \in {"next", "poll", "check", "parked", "release", "publishing", "returned",
               "done"}
    /\ gate \in 0..MaxGates
    /\ outstanding \in Outstanding
    /\ awaited \in Outstanding
    /\ polled \in Nat
    /\ expired \in BOOLEAN
    /\ timeouts \in Nat
    /\ watching \in BOOLEAN
    /\ in_hand \in 0..MaxGates
    /\ landed \in Seq(Gates)
    /\ wire \in SUBSET (Gates \X (1..MaxReplies))
    /\ replied \in [Gates -> 0..MaxReplies]
    /\ fate \in [Gates -> {"unread", "dropped", "sending", "sent", "answered", "timeout"}]
    /\ mark \in Nat
    /\ timed \in Nat
    /\ credit \in [Gates -> Nat]

\* No gate message goes out while an earlier one is unsettled: by the time
\* one is published, every earlier one was answered, given up or dropped.
OneInFlight ==
    pc \in {"release", "publishing", "returned"} =>
        \A g \in Gates : g < gate => Settled(g)

\* A wait is credited with a reply counted after its publish had returned, and
\* the time of that reply was read after published_at, unless it is the one
\* reply the watcher held at that moment: only for that one is the cycle
\* `blend` is given measured backwards (and cut off at 0).
FreshAnswer ==
    pc = "release" /\ awaited # NotOutstanding /\ fate[awaited.gate] = "answered" =>
        mark < credit[awaited.gate] /\ timed <= credit[awaited.gate]

\* A wait runs out only at its deadline and when its last poll had found
\* nothing new since `sent`; one that is parked then runs out only when no
\* reply at all was counted since `sent`, to the very moment it gives up.
SilentTimeout ==
    [][timeouts' > timeouts =>
         /\ expired
         /\ polled <= awaited.replies_before
         /\ pc = "parked" => Len(landed) <= awaited.replies_before]_vars

\* As long as nothing timed out and no message was answered twice, a gate
\* message is released by the answer to the one before it.
OwnAnswer ==
    timeouts = 0 /\ (\A g \in Gates : replied[g] <= 1) =>
        \A g \in Gates : fate[g] = "answered" => landed[credit[g]] = g

\* Every wait ends, whatever the consumer, the network and the watcher do.
WaitEnds == pc \in {"poll", "check", "parked"} ~> pc = "release"

\* main.rs:325: a counted timeout is a reply that never arrived, so it is not
\* among those counted before the wait's last poll.
TimeoutMeansUnanswered ==
    [][timeouts' > timeouts =>
         \A k \in 1..polled : landed[k] # awaited.gate]_vars
=============================================================================
