------------------------------ MODULE Loopback ------------------------------
(***************************************************************************)
(* SelfPublished (record.rs) between the replay task, which notes every    *)
(* message right before it publishes it, the transport, which delivers to  *)
(* the process's own subscriber, and the subscriber task, which asks       *)
(* `claims` of everything that comes in.  The mutex around SelfPublished   *)
(* makes note and claims one step each.                                    *)
(*                                                                         *)
(* A key is a (channel, stamp) pair; all messages of a type without a      *)
(* stamp field on one channel share a key.  Time is counted in ticks.      *)
(***************************************************************************)
EXTENDS Naturals, Sequences

CONSTANTS
    Keys,        \* (channel, stamp) pairs
    TTL,         \* LOOPBACK_TTL
    MaxTransit,  \* ticks a message may spend between note and claims
    MaxTime      \* bound on the clock

ASSUME LoopbackAssumption ==
    /\ TTL \in Nat \ {0}
    /\ MaxTransit \in Nat
    /\ MaxTime \in Nat

VARIABLES
    now,       \* the monotonic clock
    seen,      \* SelfPublished.seen
    order,     \* SelfPublished.order: [at, key]
    pending,   \* key noted and not yet published, as a set of at most one
    wire,      \* messages on the transport: [key, own, since]
    noted,     \* noted[k]: when k was noted last, Never if not yet (history)
    entered    \* entered[k]: when the note that queued k last was taken (history)

vars == <<now, seen, order, pending, wire, noted, entered>>

Never == MaxTime + 1

\* expire(): the front is popped while its entry is TTL old.
Stale(e) == now - e.at >= TTL

\* k is how many entries one call of expire() pops.
Expired(k) ==
    /\ \A j \in 1..k : Stale(order[j])
    /\ k < Len(order) => ~Stale(order[k + 1])

OrderAfter(k) == SubSeq(order, k + 1, Len(order))

SeenAfter(k) == seen \ {order[j].key : j \in 1..k}

Init ==
    /\ now = 0
    /\ seen = {}
    /\ order = <<>>
    /\ pending = {}
    /\ wire = {}
    /\ noted = [k \in Keys |-> Never]
    /\ entered = [k \in Keys |-> Never]

\* Mutant: a noted key is not queued for expiry.
NoteForgetsQueue(key) ==
    /\ pending = {}
    /\ \E k \in 0..Len(order) :
          /\ Expired(k)
          /\ seen' = SeenAfter(k) \cup {key}
          /\ order' = OrderAfter(k)
          /\ entered' = IF key \in SeenAfter(k) THEN entered
                        ELSE [entered EXCEPT ![key] = now]
    /\ pending' = {key}
    /\ noted' = [noted EXCEPT ![key] = now]
    /\ UNCHANGED <<now, wire>>

\* Mutant: note() does not expire.
NoteKeepsAll(key) ==
    /\ pending = {}
    /\ seen' = seen \cup {key}
    /\ order' = IF key \in seen THEN order
                ELSE Append(order, [at |-> now, key |-> key])
    /\ entered' = IF key \in seen THEN entered ELSE [entered EXCEPT ![key] = now]
    /\ pending' = {key}
    /\ noted' = [noted EXCEPT ![key] = now]
    /\ UNCHANGED <<now, wire>>

\* note(): a key already there keeps its old entry, and its old time.
Note(key) ==
    /\ pending = {}
    /\ \E k \in 0..Len(order) :
          /\ Expired(k)
          /\ seen' = SeenAfter(k) \cup {key}
          /\ order' = IF key \in SeenAfter(k) THEN OrderAfter(k)
                      ELSE Append(OrderAfter(k), [at |-> now, key |-> key])
          /\ entered' = IF key \in SeenAfter(k) THEN entered
                        ELSE [entered EXCEPT ![key] = now]
    /\ pending' = {key}
    /\ noted' = [noted EXCEPT ![key] = now]
    /\ UNCHANGED <<now, wire>>

\* sink.publish(), the next thing replay_once does.
Publish(key) ==
    /\ key \in pending
    /\ wire' = wire \cup {[key |-> key, own |-> TRUE, since |-> noted[key]]}
    /\ pending' = {}
    /\ UNCHANGED <<now, seen, order, noted, entered>>

\* Another process publishes on a channel of ours; its age does not matter.
PublishForeign(key) ==
    /\ wire' = wire \cup {[key |-> key, own |-> FALSE, since |-> 0]}
    /\ UNCHANGED <<now, seen, order, pending, noted, entered>>

\* Mutant: claims() does not expire.
DeliverUnexpired(m) ==
    /\ wire' = wire \ {m}
    /\ UNCHANGED <<now, seen, order, pending, noted, entered>>

\* Mutant: a claimed key is forgotten.
DeliverConsumes(m) ==
    /\ \E k \in 0..Len(order) :
          /\ Expired(k)
          /\ seen' = SeenAfter(k) \ {m.key}
          /\ order' = OrderAfter(k)
    /\ wire' = wire \ {m}
    /\ UNCHANGED <<now, pending, noted, entered>>

\* The subscriber takes a message and asks claims(); a no means it goes to the
\* file.
Deliver(m) ==
    /\ \E k \in 0..Len(order) :
          /\ Expired(k)
          /\ seen' = SeenAfter(k)
          /\ order' = OrderAfter(k)
    /\ wire' = wire \ {m}
    /\ UNCHANGED <<now, pending, noted, entered>>

\* The transport loses a message.
Lose(m) ==
    /\ wire' = wire \ {m}
    /\ UNCHANGED <<now, seen, order, pending, noted, entered>>

\* A message of ours is delivered within MaxTransit ticks of its note.
Tick ==
    /\ now < MaxTime
    /\ \A m \in wire : m.own => now < m.since + MaxTransit
    /\ \A key \in pending : now < noted[key] + MaxTransit
    /\ now' = now + 1
    /\ UNCHANGED <<seen, order, pending, wire, noted, entered>>

Next ==
    \/ \E key \in Keys : Note(key) \/ Publish(key) \/ PublishForeign(key)
    \/ \E m \in wire : Deliver(m) \/ Lose(m)
    \/ Tick

Spec == Init /\ [][Next]_vars

-----------------------------------------------------------------------------
(* Properties *)

\* Type invariant.
TypeOK ==
    /\ now \in 0..MaxTime
    /\ seen \in SUBSET Keys
    /\ order \in Seq([at : 0..MaxTime, key : Keys])
    /\ pending \in SUBSET Keys
    /\ wire \in SUBSET [key : Keys, own : BOOLEAN, since : 0..MaxTime]
    /\ noted \in [Keys -> 0..Never]
    /\ entered \in [Keys -> 0..Never]

\* The set and the queue of SelfPublished never drift apart: every key in the
\* set has exactly one queue entry to expire it, and the queue is in order of
\* time, so that popping only from its front is enough.
SeenMatchesOrder ==
    /\ seen = {order[j].key : j \in 1..Len(order)}
    /\ \A i, j \in 1..Len(order) : i < j =>
          order[i].key # order[j].key /\ order[i].at <= order[j].at

\* However note, publish, delivery and expiry interleave, a message of ours
\* that comes back is recorded only if its key was still remembered when it was
\* noted: the key kept the expiry of that earlier note (record.rs:189), which
\* ran out with the message under way.
OnlyRenewedRecorded ==
    [][\A m \in wire :
          Deliver(m) /\ m.own /\ m.key \notin seen'
              => entered[m.key] < m.since /\ now - entered[m.key] >= TTL]_vars

\* A foreign message is held back only while its key is remembered: some
\* message of ours with the same key was noted less than TTL ago
\* (README.md:102).
OnlyEchoesDropped ==
    [][\A m \in wire :
          Deliver(m) /\ ~m.own /\ m.key \in seen'
              => noted[m.key] # Never /\ now - noted[m.key] < TTL]_vars

\* What is remembered spans at most one TTL: every call leaves nothing older
\* behind, so the set cannot grow with the length of the replay.
NothingStaleKept ==
    [][seen' # seen \/ order' # order =>
          \A j \in 1..Len(order') : now - order'[j].at < TTL]_vars
=============================================================================
