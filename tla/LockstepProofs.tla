--------------------------- MODULE LockstepProofs ---------------------------
(***************************************************************************)
(* The gate protocol for any number of gate messages and replies: one gate *)
(* message in flight at a time, every wait credited with a reply counted   *)
(* after its publish, and as long as nothing timed out or was answered     *)
(* twice, each gate message is released by the answer to the one before.   *)
(***************************************************************************)
EXTENDS Lockstep, TLAPS

Waiting == pc \in {"poll", "check", "parked"}

\* Where the replay task is decides which gate messages are settled.
Turn ==
    /\ pc = "next" /\ outstanding = NotOutstanding =>
          \A g \in Gates : g <= gate => Settled(g)
    /\ outstanding # NotOutstanding =>
          /\ pc \in {"next", "done"}
          /\ outstanding.gate \in Gates /\ outstanding.gate = gate
          /\ fate[gate] = "sent"
          /\ \A g \in Gates : g < gate => Settled(g)
    /\ Waiting =>
          /\ gate \in Gates
          /\ awaited.gate \in Gates /\ awaited.gate = gate - 1
          /\ fate[awaited.gate] = "sent"
          /\ fate[gate] = "unread"
          /\ \A g \in Gates : g < awaited.gate => Settled(g)
    /\ pc = "release" => gate \in Gates /\ fate[gate] = "unread"
    /\ pc \in {"publishing", "returned"} => gate \in Gates /\ fate[gate] = "sending"
    /\ \A g \in Gates : g > gate => fate[g] = "unread"

\* The count only grows, at most one time is read ahead of it, and what the
\* last publish left behind lies where it was sent.
Counts ==
    /\ polled <= Len(landed)
    /\ mark <= Len(landed)
    /\ timed <= mark + 1
    /\ outstanding # NotOutstanding =>
          /\ mark <= outstanding.replies_before
          /\ outstanding.replies_before <= Len(landed)
    /\ Waiting =>
          /\ mark <= awaited.replies_before
          /\ awaited.replies_before <= Len(landed)
    /\ pc = "release" /\ awaited # NotOutstanding /\ fate[awaited.gate] = "answered" =>
          awaited.gate \in Gates /\ mark < credit[awaited.gate]

IInv == TypeOK /\ Turn /\ Counts /\ OneInFlight

-----------------------------------------------------------------------------

LEMMA NoneIsOutstanding == NotOutstanding \in Outstanding
BY LockstepAssumption DEF NotOutstanding, Outstanding

LEMMA InitIInv == Init => IInv
<1> SUFFICES ASSUME Init PROVE IInv
  OBVIOUS
<1>1. TypeOK
  <2>1. landed \in Seq(Gates) /\ wire \in SUBSET (Gates \X (1..MaxReplies))
    BY DEF Init
  <2>2. replied \in [Gates -> 0..MaxReplies] /\ gate \in 0..MaxGates
    BY LockstepAssumption DEF Init
  <2> QED BY <2>1, <2>2, NoneIsOutstanding DEF Init, TypeOK
<1>2. Turn /\ Counts /\ OneInFlight
  BY DEF Init, Turn, Counts, OneInFlight, Waiting, Settled, Gates
<1> QED BY <1>1, <1>2 DEF IInv

LEMMA TypeStep == TypeOK /\ [Next]_vars => TypeOK'
<1> SUFFICES ASSUME TypeOK, [Next]_vars PROVE TypeOK'
  OBVIOUS
<1> USE DEF TypeOK
<1>1. CASE EnterWait
  <2>1. gate' \in 0..MaxGates
    BY <1>1, LockstepAssumption DEF EnterWait
  <2> QED BY <1>1, <2>1, NoneIsOutstanding DEF EnterWait, network
<1>2. CASE Poll
  <2>1. Len(landed) \in Nat
    OBVIOUS
  <2>2. fate' \in [Gates -> {"unread", "dropped", "sending", "sent", "answered", "timeout"}]
    BY <1>2 DEF Poll, Answered
  <2>3. credit' \in [Gates -> Nat]
    BY <1>2, <2>1 DEF Poll, Answered
  <2> QED BY <1>2, <2>1, <2>2, <2>3 DEF Poll, Answered, network
<1>3. CASE DeadlineReached \/ TimerFires
  <2>1. GiveUp
    BY <1>3 DEF DeadlineReached, TimerFires
  <2>2. fate' \in [Gates -> {"unread", "dropped", "sending", "sent", "answered", "timeout"}]
    BY <2>1 DEF GiveUp
  <2> QED BY <2>1, <2>2 DEF GiveUp, network
<1>4. CASE Park \/ Wake
  BY <1>4 DEF Park, Wake, replay, network
<1>5. CASE DropTf \/ Publish
  BY <1>5 DEF DropTf, Publish, network
<1>6. CASE PublishReturns \/ PublishFails
  <2>1. Timed \in Nat
    BY DEF Timed
  <2> QED BY <1>6, <2>1 DEF PublishReturns, PublishFails, replay, network
<1>7. CASE Sent
  <2>1. outstanding' \in Outstanding
    BY <1>7 DEF Sent, Remember, Outstanding
  <2> QED BY <1>7, <2>1 DEF Sent, Remember, network
<1>8. CASE Finish \/ DeadlinePasses \/ WatcherEnds
  BY <1>8 DEF Finish, DeadlinePasses, WatcherEnds, replay, network
<1>9. CASE Answer
  <2>1. PICK g \in Gates :
          /\ replied[g] < MaxReplies
          /\ replied' = [replied EXCEPT ![g] = @ + 1]
          /\ wire' = wire \cup {<<g, replied[g] + 1>>}
    BY <1>9 DEF Answer
  <2>2. replied[g] + 1 \in 1..MaxReplies
    BY <2>1, LockstepAssumption
  <2>3. wire' \in SUBSET (Gates \X (1..MaxReplies))
    BY <2>1, <2>2
  <2>4. replied' \in [Gates -> 0..MaxReplies]
    BY <2>1, <2>2
  <2> QED BY <1>9, <2>3, <2>4 DEF Answer, replay
<1>10. CASE Lose \/ Take \/ Land
  <2>1. wire' \in SUBSET (Gates \X (1..MaxReplies))
    BY <1>10 DEF Lose, Take, Land
  <2>2. in_hand' \in 0..MaxGates /\ landed' \in Seq(Gates)
    <3>1. CASE Lose
      BY <3>1 DEF Lose
    <3>2. CASE Take
      <4>1. PICK r \in wire : in_hand' = r[1]
        BY <3>2 DEF Take
      <4>2. r[1] \in Gates
        BY <4>1
      <4> QED BY <3>2, <4>1, <4>2, LockstepAssumption DEF Take, Gates
    <3>3. CASE Land
      <4>1. in_hand \in Gates
        BY <3>3, LockstepAssumption DEF Land, Gates
      <4>2. landed' \in Seq(Gates)
        BY <3>3, <4>1 DEF Land
      <4>3. in_hand' \in 0..MaxGates
        BY <3>3, LockstepAssumption DEF Land
      <4> QED BY <4>2, <4>3
    <3> QED BY <1>10, <3>1, <3>2, <3>3
  <2> QED BY <1>10, <2>1, <2>2 DEF Lose, Take, Land, replay
<1>11. CASE UNCHANGED vars
  BY <1>11 DEF vars
<1> QED BY <1>1, <1>2, <1>3, <1>4, <1>5, <1>6, <1>7, <1>8, <1>9, <1>10, <1>11
        DEF Next, NetworkStep, ReplayStep, WaitStep

\* Steps of the network touch nothing the turn depends on.
LEMMA NetworkTurn ==
    ASSUME Turn, OneInFlight, UNCHANGED <<pc, gate, outstanding, awaited, fate>>
    PROVE  Turn' /\ OneInFlight'
BY DEF Turn, OneInFlight, Waiting, Settled

LEMMA TurnStep == IInv /\ [Next]_vars => Turn' /\ OneInFlight'
<1> SUFFICES ASSUME IInv, [Next]_vars PROVE Turn' /\ OneInFlight'
  OBVIOUS
<1>typ. /\ TypeOK /\ Turn /\ OneInFlight /\ gate \in 0..MaxGates /\ MaxGates \in Nat
        /\ fate \in [Gates -> {"unread", "dropped", "sending", "sent", "answered", "timeout"}]
  BY LockstepAssumption DEF IInv, TypeOK
<1>1. CASE EnterWait
  BY <1>typ, <1>1
     DEF EnterWait, Turn, OneInFlight, Waiting, Settled, NotOutstanding, Gates
<1>2. CASE Poll /\ pc' = "release"
  <2>1. /\ awaited.gate \in Gates /\ awaited.gate = gate - 1 /\ gate \in Gates
        /\ fate' = [fate EXCEPT ![awaited.gate] = "answered"]
        /\ outstanding' = outstanding /\ gate' = gate /\ outstanding = NotOutstanding
    BY <1>typ, <1>2 DEF Poll, Answered, Turn, Waiting
  <2> QED BY <1>typ, <1>2, <2>1 DEF Poll, Answered, Turn, OneInFlight, Waiting, Settled, Gates
<1>3. CASE DeadlineReached \/ TimerFires
  <2>1. /\ Waiting /\ pc' = "release" /\ gate' = gate /\ awaited' = awaited
        /\ fate' = [fate EXCEPT ![awaited.gate] = "timeout"]
        /\ outstanding' = outstanding
    BY <1>3 DEF DeadlineReached, TimerFires, GiveUp, Waiting
  <2>2. /\ awaited.gate \in Gates /\ awaited.gate = gate - 1 /\ gate \in Gates
        /\ outstanding = NotOutstanding
    BY <1>typ, <2>1 DEF Turn, Waiting
  <2> QED BY <1>typ, <2>1, <2>2 DEF Turn, OneInFlight, Waiting, Settled, Gates
<1>4. CASE Park \/ Wake \/ (Poll /\ pc' # "release")
  <2>1. /\ UNCHANGED <<gate, outstanding, awaited, fate>>
        /\ Waiting /\ pc' \in {"poll", "check", "parked"}
    BY <1>4 DEF Park, Wake, Poll, Answered, replay, Waiting
  <2> QED BY <1>typ, <2>1 DEF Turn, OneInFlight, Waiting, Settled
<1>5. CASE DropTf \/ Publish
  BY <1>typ, <1>5 DEF DropTf, Publish, Turn, OneInFlight, Waiting, Settled, Gates
<1>6. CASE PublishReturns \/ PublishFails
  <2>1. /\ pc = "publishing" /\ pc' \in {"returned", "done"}
        /\ UNCHANGED <<gate, outstanding, awaited, fate>>
    BY <1>6 DEF PublishReturns, PublishFails, replay
  <2> QED BY <1>typ, <2>1 DEF Turn, OneInFlight, Waiting, Settled
<1>7. CASE Sent
  <2>1. /\ gate \in Gates /\ pc = "returned" /\ pc' = "next" /\ gate' = gate
        /\ outstanding' = [gate |-> gate, replies_before |-> Len(landed)]
        /\ outstanding' # NotOutstanding
        /\ fate' = [fate EXCEPT ![gate] = "sent"]
    BY <1>typ, <1>7 DEF Sent, Remember, Turn, NotOutstanding, Gates
  <2>2. /\ \A g \in Gates : g < gate => Settled(g)'
        /\ \A g \in Gates : g > gate => fate'[g] = "unread"
    BY <1>typ, <1>7, <2>1 DEF OneInFlight, Turn, Settled, Gates
  <2> QED BY <1>typ, <2>1, <2>2 DEF Turn, OneInFlight, Waiting
<1>8. CASE Finish
  <2>1. /\ pc = "next" /\ pc' = "done"
        /\ UNCHANGED <<gate, outstanding, awaited, fate>>
    BY <1>8 DEF Finish, replay
  <2> QED BY <1>typ, <2>1 DEF Turn, OneInFlight, Waiting, Settled
<1>9. CASE DeadlinePasses \/ Answer \/ Lose \/ Take \/ Land \/ WatcherEnds \/ UNCHANGED vars
  <2>1. UNCHANGED <<pc, gate, outstanding, awaited, fate>>
    BY <1>9 DEF DeadlinePasses, Answer, Lose, Take, Land, WatcherEnds, vars, replay
  <2> QED BY <1>typ, <2>1, NetworkTurn
<1> QED BY <1>1, <1>2, <1>3, <1>4, <1>5, <1>6, <1>7, <1>8, <1>9
        DEF Next, NetworkStep, ReplayStep, WaitStep

LEMMA CountsStep == IInv /\ [Next]_vars => Counts'
<1> SUFFICES ASSUME IInv, [Next]_vars PROVE Counts'
  OBVIOUS
<1>typ. /\ TypeOK /\ Turn /\ Counts /\ gate \in 0..MaxGates /\ MaxGates \in Nat
        /\ outstanding \in Outstanding /\ awaited \in Outstanding
        /\ mark \in Nat /\ timed \in Nat /\ credit \in [Gates -> Nat]
        /\ fate \in [Gates -> {"unread", "dropped", "sending", "sent", "answered", "timeout"}]
        /\ Len(landed) \in Nat /\ polled \in Nat
  BY LockstepAssumption DEF IInv, TypeOK
<1>1. CASE EnterWait
  BY <1>typ, <1>1 DEF EnterWait, network, Counts, Waiting
<1>2. CASE Poll
  <2>1. /\ awaited.gate \in Gates /\ polled' = Len(landed)
        /\ mark <= awaited.replies_before /\ awaited.replies_before \in Nat
        /\ pc = "poll" /\ pc' \in {"release", "check"}
        /\ UNCHANGED <<landed, mark, timed, outstanding, awaited>>
    BY <1>typ, <1>2 DEF Poll, Answered, Turn, Counts, Waiting, network, Outstanding
  <2>2. pc' = "release" => mark < credit'[awaited.gate]
    BY <1>typ, <1>2, <2>1 DEF Poll, Answered
  <2> QED BY <1>typ, <2>1, <2>2 DEF Counts, Waiting
<1>3. CASE DeadlineReached \/ TimerFires
  <2>1. /\ Waiting /\ pc' = "release"
        /\ UNCHANGED <<outstanding, awaited, polled, mark, timed, landed>>
        /\ fate' = [fate EXCEPT ![awaited.gate] = "timeout"]
    BY <1>3 DEF DeadlineReached, TimerFires, GiveUp, network, Waiting
  <2>2. awaited.gate \in Gates
    BY <1>typ, <2>1 DEF Turn
  <2>3. fate'[awaited.gate] = "timeout"
    BY <1>typ, <2>1, <2>2
  <2> QED BY <1>typ, <2>1, <2>3 DEF Counts, Waiting
<1>4. CASE Park \/ Wake \/ PublishFails \/ Finish
  BY <1>typ, <1>4
     DEF Park, Wake, PublishFails, Finish, replay, network, Counts, Waiting
<1>5. CASE DropTf \/ Publish
  BY <1>typ, <1>5 DEF DropTf, Publish, network, Counts, Waiting
<1>6. CASE PublishReturns
  <2>1. outstanding = NotOutstanding
    BY <1>typ, <1>6 DEF PublishReturns, Turn
  <2>2. /\ mark' = Len(landed) /\ timed' = Timed
        /\ pc' = "returned"
        /\ UNCHANGED <<outstanding, polled, landed>>
    BY <1>6 DEF PublishReturns, network
  <2>3. timed' <= mark' + 1
    BY <1>typ, <2>2 DEF Timed
  <2> QED BY <1>typ, <2>1, <2>2, <2>3 DEF Counts, Waiting
<1>7. CASE Sent
  <2>1. /\ outstanding' = [gate |-> gate, replies_before |-> Len(landed)]
        /\ pc' = "next"
        /\ UNCHANGED <<polled, mark, timed, landed>>
    BY <1>7 DEF Sent, Remember, network
  <2> QED BY <1>typ, <2>1 DEF Counts, Waiting
<1>8. CASE DeadlinePasses \/ Answer \/ Lose \/ Take \/ WatcherEnds \/ UNCHANGED vars
  <2>1. UNCHANGED <<pc, outstanding, awaited, polled, fate, mark, timed, credit, landed>>
    BY <1>8 DEF DeadlinePasses, Answer, Lose, Take, WatcherEnds, vars, replay, network
  <2> QED BY <1>typ, <2>1 DEF Counts, Waiting
<1>9. CASE Land
  <2>1. UNCHANGED <<pc, outstanding, awaited, polled, fate, mark, timed, credit>>
    BY <1>9 DEF Land, replay
  <2>2. Len(landed') = Len(landed) + 1
    BY <1>typ, <1>9 DEF Land, TypeOK
  <2>3. outstanding.replies_before \in Nat /\ awaited.replies_before \in Nat
    BY <1>typ DEF Outstanding
  <2> QED BY <1>typ, <2>1, <2>2, <2>3 DEF Counts, Waiting
<1> QED BY <1>1, <1>2, <1>3, <1>4, <1>5, <1>6, <1>7, <1>8, <1>9
        DEF Next, NetworkStep, ReplayStep, WaitStep

\* The inductive invariant of the gate protocol.
THEOREM Invariance == Spec => []IInv
<1>1. IInv /\ [Next]_vars => IInv'
  <2>1. IInv => TypeOK
    BY DEF IInv
  <2> QED BY <2>1, TypeStep, TurnStep, CountsStep DEF IInv
<1> QED BY InitIInv, <1>1, PTL DEF Spec

\* Every variable of the protocol keeps its type.
THEOREM TypeCorrect == Spec => []TypeOK
<1>1. IInv => TypeOK
  BY DEF IInv
<1> QED BY <1>1, Invariance, PTL

\* No gate message is published while an earlier one is unsettled, for any
\* number of messages, replies, losses and timeouts.
THEOREM AtMostOneInFlight == Spec => []OneInFlight
<1>1. IInv => OneInFlight
  BY DEF IInv
<1> QED BY <1>1, Invariance, PTL

\* A wait is credited with a reply counted after its publish returned, and
\* measured backwards only for the one reply the watcher held at that moment.
THEOREM CreditedAfterPublish == Spec => []FreshAnswer
<1>1. IInv => FreshAnswer
  <2> SUFFICES ASSUME IInv, pc = "release", awaited # NotOutstanding,
                      fate[awaited.gate] = "answered"
               PROVE  mark < credit[awaited.gate] /\ timed <= credit[awaited.gate]
    BY DEF FreshAnswer
  <2>1. awaited.gate \in Gates /\ mark < credit[awaited.gate] /\ timed <= mark + 1
    BY DEF IInv, Counts
  <2>2. mark \in Nat /\ timed \in Nat /\ credit[awaited.gate] \in Nat
    BY <2>1 DEF IInv, TypeOK
  <2> QED BY <2>1, <2>2
<1> QED BY <1>1, Invariance, PTL

-----------------------------------------------------------------------------
(* At most one reply to each message *)

\* No message was answered twice so far.
Once == \A g \in Gates : replied[g] <= 1

\* Then replies exist only for published messages, and none is counted twice.
Replies == Once =>
    /\ \A r \in wire : r[2] = 1 /\ replied[r[1]] = 1 /\ Published(r[1])
    /\ in_hand # 0 =>
          replied[in_hand] = 1 /\ Published(in_hand) /\ <<in_hand, 1>> \notin wire
    /\ \A k \in 1..Len(landed) :
          /\ replied[landed[k]] = 1 /\ Published(landed[k])
          /\ <<landed[k], 1>> \notin wire /\ landed[k] # in_hand
    /\ \A j, k \in 1..Len(landed) : landed[j] = landed[k] => j = k

\* Answers already credited lie before the count a wait starts from.
Credited ==
    /\ \A g \in Gates : fate[g] = "answered" =>
          /\ credit[g] \in 1..Len(landed)
          /\ timeouts = 0 /\ Once => landed[credit[g]] = g
          /\ outstanding # NotOutstanding => credit[g] <= outstanding.replies_before
          /\ Waiting => credit[g] <= awaited.replies_before
    /\ timeouts = 0 => \A g \in Gates : fate[g] # "timeout"
    /\ \A g \in Gates : fate[g] = "sending" => g = gate /\ ~Waiting

SingleInv == IInv /\ Replies /\ Credited

LEMMA InitSingle == Init => SingleInv
<1> SUFFICES ASSUME Init PROVE Replies /\ Credited
  BY InitIInv DEF SingleInv
<1> QED BY DEF Init, Replies, Credited, Waiting

\* Answers are never taken back.
LEMMA OnceBefore == ASSUME TypeOK, [Next]_vars, Once' PROVE Once
<1>typ. replied \in [Gates -> 0..MaxReplies] /\ MaxReplies \in Nat
  BY LockstepAssumption DEF TypeOK
<1>1. CASE replied' = replied
  BY <1>1 DEF Once
<1>2. CASE Answer
  <2>1. PICK g \in Gates : replied' = [replied EXCEPT ![g] = @ + 1]
    BY <1>2 DEF Answer
  <2>2. \A h \in Gates : replied[h] \in Nat /\ replied[h] <= replied'[h]
    BY <1>typ, <2>1
  <2>3. \A h \in Gates : replied'[h] \in Nat /\ replied'[h] <= 1
    BY <1>typ, <2>1 DEF Once
  <2> QED BY <2>2, <2>3 DEF Once
<1> QED BY <1>1, <1>2
        DEF Next, NetworkStep, ReplayStep, WaitStep, EnterWait, Poll, DeadlineReached, Park, Wake,
            TimerFires, GiveUp, DropTf, Publish, PublishReturns, PublishFails, Sent,
            Finish, DeadlinePasses, Lose, Take, Land, WatcherEnds, network, vars

LEMMA RepliesStep ==
    ASSUME SingleInv, [Next]_vars, Once' PROVE Replies'
<1>typ. /\ TypeOK /\ Turn
        /\ fate \in [Gates -> {"unread", "dropped", "sending", "sent", "answered", "timeout"}]
        /\ landed \in Seq(Gates) /\ wire \in SUBSET (Gates \X (1..MaxReplies))
        /\ replied \in [Gates -> 0..MaxReplies] /\ MaxReplies \in Nat
        /\ in_hand # 0 => in_hand \in Gates
  <2>1. TypeOK /\ Turn
    BY DEF SingleInv, IInv
  <2>2. in_hand # 0 => in_hand \in Gates
    BY <2>1, LockstepAssumption DEF TypeOK, Gates
  <2> QED BY <2>1, <2>2, LockstepAssumption DEF TypeOK
<1>once. Once
  BY <1>typ, OnceBefore
<1>rep. /\ \A r \in wire : r[2] = 1 /\ replied[r[1]] = 1 /\ Published(r[1])
        /\ in_hand # 0 =>
              replied[in_hand] = 1 /\ Published(in_hand) /\ <<in_hand, 1>> \notin wire
        /\ \A k \in 1..Len(landed) :
              /\ replied[landed[k]] = 1 /\ Published(landed[k])
              /\ <<landed[k], 1>> \notin wire /\ landed[k] # in_hand
        /\ \A j, k \in 1..Len(landed) : landed[j] = landed[k] => j = k
  BY <1>once DEF SingleInv, Replies
<1>1. CASE UNCHANGED <<wire, in_hand, landed, replied>>
  <2>1. \A g \in Gates : Published(g) => Published(g)'
    <3>1. CASE EnterWait \/ Park \/ Wake \/ PublishReturns \/ PublishFails \/ Finish
               \/ DeadlinePasses \/ WatcherEnds \/ Answer \/ Lose \/ Take \/ Land
               \/ UNCHANGED vars
      <4>1. fate' = fate
        BY <3>1 DEF EnterWait, Park, Wake, PublishReturns, PublishFails, Finish,
                    DeadlinePasses, WatcherEnds, Answer, Lose, Take, Land, replay,
                    vars
      <4> QED BY <4>1 DEF Published
    <3>2. CASE Poll
      BY <1>typ, <3>2 DEF Poll, Answered, Published
    <3>3. CASE DeadlineReached \/ TimerFires
      BY <1>typ, <3>3 DEF DeadlineReached, TimerFires, GiveUp, Published
    <3>4. CASE DropTf \/ Publish
      BY <1>typ, <3>4 DEF DropTf, Publish, Published, Turn
    <3>5. CASE Sent
      BY <1>typ, <3>5 DEF Sent, Remember, Published
    <3> QED BY <3>1, <3>2, <3>3, <3>4, <3>5 DEF Next, NetworkStep, ReplayStep, WaitStep
  <2>2. \A k \in 1..Len(landed) : landed[k] \in Gates
    BY <1>typ
  <2>3. \A r \in wire : r[1] \in Gates
    BY <1>typ
  <2> QED BY <1>typ, <1>rep, <1>1, <2>1, <2>2, <2>3 DEF Replies
<1>2. CASE Answer
  <2>1. PICK g \in Gates :
          /\ Published(g)
          /\ replied[g] < MaxReplies
          /\ replied' = [replied EXCEPT ![g] = @ + 1]
          /\ wire' = wire \cup {<<g, replied[g] + 1>>}
    BY <1>2 DEF Answer
  <2>2. replied[g] = 0 /\ wire' = wire \cup {<<g, 1>>} /\ replied'[g] = 1
    <3>1. replied'[g] = replied[g] + 1 /\ replied[g] \in Nat /\ replied'[g] <= 1
      BY <1>typ, <2>1 DEF Once
    <3> QED BY <2>1, <3>1
  <2>3. UNCHANGED <<in_hand, landed, fate>>
    BY <1>2 DEF Answer, replay
  <2>4. \A k \in 1..Len(landed) : landed[k] \in Gates /\ landed[k] # g
    <3> SUFFICES ASSUME NEW k \in 1..Len(landed)
                 PROVE  landed[k] \in Gates /\ landed[k] # g
      OBVIOUS
    <3>1. landed[k] \in Gates
      BY <1>typ
    <3>2. replied[landed[k]] = 1
      BY <1>rep
    <3> QED BY <2>2, <3>1, <3>2
  <2>5. \A h \in Gates : h # g => replied'[h] = replied[h]
    BY <1>typ, <2>1
  <2>7. in_hand # 0 => in_hand \in Gates /\ in_hand # g
    BY <1>typ, <1>rep, <2>2
  <2>6. \A r \in wire : r[1] \in Gates /\ r[1] # g
    BY <1>typ, <1>rep, <2>2
  <2> QED BY <1>typ, <1>rep, <2>1, <2>2, <2>3, <2>4, <2>5, <2>6, <2>7 DEF Replies, Published
<1>3. CASE Lose
  <2>1. PICK r \in wire : wire' = wire \ {r}
    BY <1>3 DEF Lose
  <2>2. UNCHANGED <<in_hand, landed, fate, replied>>
    BY <1>3 DEF Lose, replay
  <2> QED BY <1>rep, <2>1, <2>2 DEF Replies, Published
<1>4. CASE Take
  <2>1. PICK r \in wire : wire' = wire \ {r} /\ in_hand' = r[1]
    BY <1>4 DEF Take
  <2>2. UNCHANGED <<fate, replied, landed>> /\ in_hand = 0
    BY <1>4 DEF Take, replay
  <2>3. r[1] \in Gates /\ r = <<r[1], 1>>
    BY <1>typ, <1>rep
  <2>4. \A k \in 1..Len(landed) : landed[k] # r[1]
    BY <1>rep, <2>3
  <2> QED BY <1>rep, <2>1, <2>2, <2>3, <2>4 DEF Replies, Published
<1>5. CASE Land
  <2>1. /\ in_hand \in Gates /\ landed' = Append(landed, in_hand) /\ in_hand' = 0
        /\ UNCHANGED <<fate, replied, wire>>
    BY <1>typ, <1>5 DEF Land, replay
  <2>2. /\ Len(landed') = Len(landed) + 1 /\ Len(landed) \in Nat
        /\ \A k \in 1..Len(landed) : landed'[k] = landed[k]
        /\ landed'[Len(landed) + 1] = in_hand
    BY <1>typ, <2>1
  <2>3. /\ \A k \in 1..Len(landed') : k \in 1..Len(landed) \/ k = Len(landed) + 1
        /\ in_hand # 0 /\ 0 \notin Gates
    BY <1>5, <2>2 DEF Land, Gates
  <2>4. \A k \in 1..Len(landed') :
          /\ replied[landed'[k]] = 1 /\ Published(landed'[k])
          /\ <<landed'[k], 1>> \notin wire /\ landed'[k] \in Gates
    <3> SUFFICES ASSUME NEW k \in 1..Len(landed')
                 PROVE  /\ replied[landed'[k]] = 1 /\ Published(landed'[k])
                        /\ <<landed'[k], 1>> \notin wire /\ landed'[k] \in Gates
      OBVIOUS
    <3>1. CASE k \in 1..Len(landed)
      BY <1>typ, <1>rep, <2>2, <3>1
    <3>2. CASE k = Len(landed) + 1
      BY <1>rep, <2>1, <2>2, <2>3, <3>2
    <3> QED BY <2>3, <3>1, <3>2
  <2>5. \A j, k \in 1..Len(landed') : landed'[j] = landed'[k] => j = k
    BY <1>rep, <2>2, <2>3
  <2> QED BY <1>rep, <2>1, <2>3, <2>4, <2>5 DEF Replies, Published
<1> QED BY <1>1, <1>2, <1>3, <1>4, <1>5
        DEF Next, NetworkStep, ReplayStep, WaitStep, EnterWait, Poll, Answered,
            DeadlineReached, Park, Wake, TimerFires, GiveUp, DropTf, Publish, PublishReturns,
            PublishFails, Sent, Remember, Finish, DeadlinePasses, WatcherEnds, network, vars

\* A poll that ends the wait of a run without timeouts sees the reply to the
\* message awaited, and no other since that was sent.
LEMMA PollSeesOwnReply ==
    ASSUME SingleInv, timeouts = 0, Once, Waiting,
           NEW k \in 1..Len(landed), k > awaited.replies_before
    PROVE  landed[k] = awaited.gate
<1> DEFINE h == landed[k]
<1>typ. /\ TypeOK /\ Turn /\ Credited
        /\ landed \in Seq(Gates) /\ gate \in Nat
        /\ awaited.replies_before \in Nat /\ credit \in [Gates -> Nat]
  <2>1. TypeOK /\ Turn /\ Credited
    BY DEF SingleInv, IInv
  <2>2. awaited \in Outstanding /\ landed \in Seq(Gates) /\ gate \in 0..MaxGates
        /\ credit \in [Gates -> Nat]
    BY <2>1 DEF TypeOK
  <2> QED BY <2>1, <2>2 DEF Outstanding
<1>rep. /\ \A j \in 1..Len(landed) : Published(landed[j])
        /\ \A i, j \in 1..Len(landed) : landed[i] = landed[j] => i = j
  BY DEF SingleInv, Replies
<1>1. h \in Gates
  BY <1>typ
<1>2. Published(h)
  BY <1>rep
<1>3. fate[h] \in {"sent", "answered"}
  BY <1>typ, <1>1, <1>2 DEF Published, Credited
<1>4. CASE fate[h] = "answered"
  <2>1. credit[h] \in 1..Len(landed) /\ landed[credit[h]] = h
        /\ credit[h] <= awaited.replies_before
    BY <1>typ, <1>1, <1>4 DEF Credited
  <2>2. credit[h] = k
    BY <1>rep, <2>1
  <2> QED BY <1>typ, <2>1, <2>2
<1>5. CASE fate[h] = "sent"
  <2>1. /\ awaited.gate \in Gates /\ gate \in Gates /\ awaited.gate = gate - 1
        /\ fate[gate] = "unread"
        /\ \A g \in Gates : g < awaited.gate => Settled(g)
        /\ \A g \in Gates : g > gate => fate[g] = "unread"
    BY <1>typ DEF Turn
  <2>2. ~(h < awaited.gate) /\ ~(h > gate) /\ h # gate
    BY <1>1, <1>5, <2>1 DEF Settled
  <2> QED BY <1>1, <2>1, <2>2 DEF Gates
<1> QED BY <1>3, <1>4, <1>5

LEMMA CreditedStep ==
    ASSUME SingleInv, [Next]_vars PROVE Credited'
<1>typ. /\ TypeOK /\ Turn /\ Counts /\ Replies /\ Credited
        /\ fate \in [Gates -> {"unread", "dropped", "sending", "sent", "answered", "timeout"}]
        /\ credit \in [Gates -> Nat] /\ timeouts \in Nat
        /\ landed \in Seq(Gates) /\ Len(landed) \in Nat
        /\ outstanding \in Outstanding /\ awaited \in Outstanding
        /\ Once' => Once
  BY OnceBefore DEF SingleInv, IInv, TypeOK
<1>1. CASE EnterWait
  <2>1. /\ awaited' = outstanding /\ outstanding' = NotOutstanding
        /\ pc' \in {"release", "poll"}
        /\ outstanding = NotOutstanding => pc' = "release"
        /\ UNCHANGED <<fate, credit, landed, timeouts>>
        /\ gate' = gate + 1 /\ pc = "next"
    BY <1>1 DEF EnterWait, network
  <2>2. \A g \in Gates : fate[g] # "sending"
    <3> SUFFICES ASSUME NEW g \in Gates, fate[g] = "sending" PROVE FALSE
      OBVIOUS
    <3>1. g = gate /\ g <= gate
      BY <1>typ DEF Credited, Gates
    <3>2. outstanding = NotOutstanding => Settled(g)
      BY <1>typ, <2>1, <3>1 DEF Turn
    <3>3. outstanding # NotOutstanding => fate[g] = "sent"
      BY <1>typ, <3>1 DEF Turn
    <3> QED BY <3>2, <3>3 DEF Settled
  <2> QED BY <1>typ, <2>1, <2>2 DEF Credited, Waiting
<1>2. CASE Poll
  <2>1. /\ Waiting /\ pc = "poll" /\ pc' \in {"release", "check"}
        /\ awaited.gate \in Gates /\ outstanding = NotOutstanding
        /\ UNCHANGED <<landed, outstanding, awaited, timeouts, gate>>
    BY <1>typ, <1>2 DEF Poll, Answered, Turn, Waiting, network
  <2>2. CASE UNCHANGED <<fate, credit>>
    BY <1>typ, <2>1, <2>2 DEF Credited, Waiting
  <2>3. CASE /\ Len(landed) > awaited.replies_before
             /\ pc' = "release"
             /\ fate' = [fate EXCEPT ![awaited.gate] = "answered"]
             /\ credit' = [credit EXCEPT ![awaited.gate] = Len(landed)]
    <3>1. awaited.replies_before \in Nat
      BY <1>typ DEF Outstanding
    <3>2. Len(landed) \in 1..Len(landed)
      BY <1>typ, <2>3, <3>1
    <3>3. timeouts = 0 /\ Once => landed[Len(landed)] = awaited.gate
      BY <2>1, <2>3, <3>2, PollSeesOwnReply
    <3>4. \A g \in Gates : fate'[g] = "answered" =>
            credit'[g] \in 1..Len(landed) /\ (timeouts = 0 /\ Once => landed[credit'[g]] = g)
      <4> SUFFICES ASSUME NEW g \in Gates, fate'[g] = "answered"
                   PROVE  credit'[g] \in 1..Len(landed)
                          /\ (timeouts = 0 /\ Once => landed[credit'[g]] = g)
        OBVIOUS
      <4>1. CASE g = awaited.gate
        BY <1>typ, <2>3, <3>2, <3>3, <4>1
      <4>2. CASE g # awaited.gate
        BY <1>typ, <2>3, <4>2 DEF Credited
      <4> QED BY <4>1, <4>2
    <3>5. \A g \in Gates : fate'[g] = fate[g] \/ fate'[g] = "answered"
      BY <1>typ, <2>3
    <3> QED BY <1>typ, <2>1, <2>3, <3>4, <3>5 DEF Credited, Waiting
  <2> QED BY <1>2, <2>2, <2>3 DEF Poll, Answered
<1>3. CASE DeadlineReached \/ TimerFires
  <2>1. /\ Waiting /\ pc' = "release" /\ timeouts' = timeouts + 1
        /\ fate' = [fate EXCEPT ![awaited.gate] = "timeout"]
        /\ UNCHANGED <<outstanding, awaited, credit, landed, gate>>
    BY <1>3 DEF DeadlineReached, TimerFires, GiveUp, network, Waiting
  <2>2. timeouts' # 0
    BY <1>typ, <2>1
  <2> QED BY <1>typ, <2>1, <2>2 DEF Credited, Waiting
<1>4. CASE Park \/ Wake
  <2>1. /\ Waiting /\ pc' \in {"parked", "poll"}
        /\ UNCHANGED <<fate, outstanding, awaited, credit, landed, gate, timeouts>>
    BY <1>4 DEF Park, Wake, replay, network, Waiting
  <2> QED BY <1>typ, <2>1 DEF Credited, Waiting
<1>5. CASE PublishReturns \/ PublishFails \/ Finish
  <2>1. /\ pc' \in {"returned", "done"}
        /\ UNCHANGED <<fate, outstanding, awaited, credit, landed, gate, timeouts>>
    BY <1>5 DEF PublishReturns, PublishFails, Finish, replay, network
  <2> QED BY <1>typ, <2>1 DEF Credited, Waiting
<1>6. CASE DropTf \/ Publish
  <2>1. /\ pc = "release" /\ pc' \in {"next", "publishing"}
        /\ \/ fate' = [fate EXCEPT ![gate] = "dropped"]
           \/ fate' = [fate EXCEPT ![gate] = "sending"]
        /\ UNCHANGED <<outstanding, awaited, credit, landed, gate, timeouts>>
    BY <1>6 DEF DropTf, Publish, network
  <2> QED BY <1>typ, <2>1 DEF Credited, Waiting
<1>7. CASE Sent
  <2>1. /\ pc' = "next" /\ gate \in Gates
        /\ outstanding' = [gate |-> gate, replies_before |-> Len(landed)]
        /\ fate' = [fate EXCEPT ![gate] = "sent"]
        /\ UNCHANGED <<awaited, credit, landed, gate, timeouts>>
    BY <1>typ, <1>7 DEF Sent, Remember, network, Turn
  <2> QED BY <1>typ, <2>1 DEF Credited, Waiting
<1>8. CASE DeadlinePasses \/ Answer \/ Lose \/ Take \/ WatcherEnds \/ UNCHANGED vars
  <2>1. UNCHANGED <<pc, fate, outstanding, awaited, credit, landed, gate, timeouts>>
    BY <1>8 DEF DeadlinePasses, Answer, Lose, Take, WatcherEnds, vars, replay, network
  <2> QED BY <1>typ, <2>1 DEF Credited, Waiting
<1>9. CASE Land
  <2>1. UNCHANGED <<pc, fate, outstanding, awaited, credit, gate, timeouts>>
    BY <1>9 DEF Land, replay
  <2>2. landed' = Append(landed, in_hand)
    BY <1>9 DEF Land
  <2>3. in_hand \in Gates
    BY <1>9, <1>typ, LockstepAssumption DEF Land, TypeOK, Gates
  <2>4. /\ Len(landed') = Len(landed) + 1
        /\ \A k \in 1..Len(landed) : landed'[k] = landed[k]
    BY <1>typ, <2>2, <2>3
  <2>5. \A k \in 1..Len(landed) : k \in 1..Len(landed')
    BY <1>typ, <2>4
  <2> QED BY <1>typ, <2>1, <2>4, <2>5 DEF Credited, Waiting
<1> QED BY <1>1, <1>2, <1>3, <1>4, <1>5, <1>6, <1>7, <1>8, <1>9
        DEF Next, NetworkStep, ReplayStep, WaitStep

\* As long as no wait ran out and no message was answered twice, every gate
\* message was released by the answer to the one before it.
THEOREM ReleasedByOwnAnswer == Spec => []OwnAnswer
<1>1. SingleInv /\ IInv' /\ [Next]_vars => SingleInv'
  <2>1. SingleInv /\ [Next]_vars => Replies'
    BY RepliesStep DEF Replies
  <2> QED BY <2>1, CreditedStep DEF SingleInv
<1>2. SingleInv => OwnAnswer
  BY DEF SingleInv, Credited, OwnAnswer, Once
<1> QED BY InitSingle, Invariance, <1>1, <1>2, PTL DEF Spec

-----------------------------------------------------------------------------
(* What a wait saw before it ran out *)

\* Between a poll that ended no wait and the next one, what was polled is no
\* more than was counted when the awaited message was sent.
Unmet == pc \in {"check", "parked"} => polled <= awaited.replies_before

LEMMA UnmetStep == TypeOK /\ Unmet /\ [Next]_vars => Unmet'
<1> SUFFICES ASSUME TypeOK, Unmet, [Next]_vars PROVE Unmet'
  OBVIOUS
<1>1. CASE Poll
  <2>1. Len(landed) \in Nat /\ awaited.replies_before \in Nat
    BY DEF TypeOK, Outstanding
  <2> QED BY <1>1, <2>1 DEF Poll, Answered, Unmet
<1>2. CASE Park
  BY <1>2 DEF Park, replay, Unmet
<1>3. CASE DeadlinePasses \/ Answer \/ Lose \/ Take \/ Land \/ WatcherEnds \/ UNCHANGED vars
  <2>1. UNCHANGED <<pc, polled, awaited>>
    BY <1>3 DEF DeadlinePasses, Answer, Lose, Take, Land, WatcherEnds, vars, replay
  <2> QED BY <2>1 DEF Unmet
<1>4. CASE \/ EnterWait \/ DeadlineReached \/ Wake \/ TimerFires
           \/ DropTf \/ Publish \/ PublishReturns \/ PublishFails \/ Sent \/ Finish
  <2>1. pc' \notin {"check", "parked"}
    BY <1>4 DEF EnterWait, DeadlineReached, Wake, TimerFires, GiveUp, DropTf, Publish,
                PublishReturns, PublishFails, Sent, Finish
  <2> QED BY <2>1 DEF Unmet
<1> QED BY <1>1, <1>2, <1>3, <1>4 DEF Next, NetworkStep, ReplayStep, WaitStep

\* A counted timeout is a wait whose deadline passed and whose last poll had
\* found nothing new since the message it waited for was sent; a parked wait
\* gives up only when nothing was counted since then at all.
THEOREM TimesOutInSilence == Spec => SilentTimeout
<1>1. Init => Unmet
  BY DEF Init, Unmet
<1>2. ASSUME TypeOK, Unmet, [Next]_vars
      PROVE  [timeouts' > timeouts =>
                /\ expired
                /\ polled <= awaited.replies_before
                /\ pc = "parked" => Len(landed) <= awaited.replies_before]_vars
  <2> SUFFICES ASSUME Next, timeouts' > timeouts
               PROVE  /\ expired /\ polled <= awaited.replies_before
                      /\ pc = "parked" => Len(landed) <= awaited.replies_before
    BY <1>2
  <2>1. timeouts' # timeouts
    BY <1>2 DEF TypeOK
  <2>2. DeadlineReached \/ TimerFires
    BY <2>1 DEF Next, NetworkStep, ReplayStep, WaitStep, EnterWait, Poll, Park, Wake, DropTf,
                Publish, PublishReturns, PublishFails, Sent, Finish, DeadlinePasses, Answer,
                Lose, Take, Land, WatcherEnds, replay
  <2>3. Len(landed) \in Nat /\ polled \in Nat /\ awaited.replies_before \in Nat
    BY <1>2 DEF TypeOK, Outstanding
  <2> QED BY <1>2, <2>2, <2>3 DEF DeadlineReached, TimerFires, ChangedReady, Unmet
<1> QED BY <1>1, <1>2, UnmetStep, TypeCorrect, PTL DEF Spec, SilentTimeout
=============================================================================
