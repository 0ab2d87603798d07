--------------------------- MODULE LoopbackProofs ---------------------------
(***************************************************************************)
(* SelfPublished for any set of keys, any TTL and any clock: its set and   *)
(* its queue stay in step, nothing older than one TTL survives a call,     *)
(* only echoes are held back, and over a transport faster than the TTL a   *)
(* replay's own message is recorded only if its key kept the expiry of an  *)
(* earlier note.                                                           *)
(***************************************************************************)
EXTENDS Loopback, TLAPS

\* Every queue entry says when its key was noted, or an earlier time if the
\* key was noted again while it was still remembered.
EntriesNoted ==
    \A j \in 1..Len(order) :
        /\ noted[order[j].key] # Never
        /\ order[j].at <= noted[order[j].key]
        /\ noted[order[j].key] <= now

PendingNoted == \A key \in pending : noted[key] # Never

IInv == TypeOK /\ SeenMatchesOrder /\ EntriesNoted /\ PendingNoted

-----------------------------------------------------------------------------
(* What one call of expire() leaves behind *)

LEMMA Types ==
    ASSUME TypeOK
    PROVE  /\ now \in Nat /\ Len(order) \in Nat /\ Never \in Nat
           /\ \A j \in 1..Len(order) :
                 order[j] \in [at : 0..MaxTime, key : Keys] /\ order[j].at \in Nat
           /\ \A key \in Keys : noted[key] \in Nat
<1>1. now \in Nat /\ Len(order) \in Nat /\ Never \in Nat
  BY LoopbackAssumption DEF TypeOK, Never
<1>2. \A j \in 1..Len(order) :
         order[j] \in [at : 0..MaxTime, key : Keys] /\ order[j].at \in Nat
  <2> TAKE j \in 1..Len(order)
  <2>1. order[j] \in [at : 0..MaxTime, key : Keys]
    <3> DEFINE E == [at : 0..MaxTime, key : Keys]
    <3>1. order \in Seq(E)
      BY DEF TypeOK
    <3> HIDE DEF E
    <3>2. order[j] \in E
      BY <3>1
    <3> QED BY <3>2 DEF E
  <2>2. order[j].at \in 0..MaxTime
    BY <2>1
  <2> QED BY <2>1, <2>2, LoopbackAssumption
<1>3. \A key \in Keys : noted[key] \in Nat
  BY LoopbackAssumption, <1>1 DEF TypeOK
<1> QED BY <1>1, <1>2, <1>3

LEMMA PopsFront ==
    ASSUME TypeOK, NEW k \in 0..Len(order)
    PROVE  /\ OrderAfter(k) \in Seq([at : 0..MaxTime, key : Keys])
           /\ Len(OrderAfter(k)) = Len(order) - k
           /\ \A j \in 1..Len(OrderAfter(k)) :
                 j + k \in 1..Len(order) /\ OrderAfter(k)[j] = order[j + k]
<1> DEFINE E == [at : 0..MaxTime, key : Keys]
<1>0. order \in Seq(E)
  BY DEF TypeOK
<1> HIDE DEF E
<1>1. OrderAfter(k) \in Seq(E)
  BY <1>0 DEF OrderAfter
<1>2. Len(OrderAfter(k)) = Len(order) - k
  BY <1>0 DEF OrderAfter
<1>3. \A j \in 1..Len(OrderAfter(k)) :
         j + k \in 1..Len(order) /\ OrderAfter(k)[j] = order[j + k]
  BY <1>0, <1>2 DEF OrderAfter
<1> QED BY <1>1, <1>2, <1>3 DEF E

\* The set left is exactly the keys of the entries left.
LEMMA StaysInStep ==
    ASSUME TypeOK, SeenMatchesOrder, NEW k \in 0..Len(order)
    PROVE  /\ SeenAfter(k) = {OrderAfter(k)[j].key : j \in 1..Len(OrderAfter(k))}
           /\ \A i, j \in 1..Len(OrderAfter(k)) : i < j =>
                 /\ OrderAfter(k)[i].key # OrderAfter(k)[j].key
                 /\ OrderAfter(k)[i].at <= OrderAfter(k)[j].at
<1>1. \A j \in 1..Len(OrderAfter(k)) : OrderAfter(k)[j].key \in SeenAfter(k)
  <2> TAKE j \in 1..Len(OrderAfter(k))
  <2>1. j + k \in 1..Len(order) /\ OrderAfter(k)[j] = order[j + k]
    BY PopsFront
  <2>2. order[j + k].key \in seen
    BY <2>1 DEF SeenMatchesOrder
  <2>3. ASSUME NEW i \in 1..k PROVE order[i].key # order[j + k].key
    <3>1. i \in 1..Len(order) /\ i < j + k
      BY <2>1, Types
    <3> QED BY <3>1, <2>1 DEF SeenMatchesOrder
  <2> QED BY <2>1, <2>2, <2>3 DEF SeenAfter
<1>2. \A x \in SeenAfter(k) :
         \E j \in 1..Len(OrderAfter(k)) : x = OrderAfter(k)[j].key
  <2> TAKE x \in SeenAfter(k)
  <2>1. PICK i \in 1..Len(order) : x = order[i].key
    BY DEF SeenAfter, SeenMatchesOrder
  <2>2. i \notin 1..k
    BY <2>1 DEF SeenAfter
  <2>3. i - k \in 1..Len(OrderAfter(k)) /\ (i - k) + k = i
    BY <2>2, PopsFront, Types
  <2> QED BY <2>1, <2>3, PopsFront
<1>3. \A i, j \in 1..Len(OrderAfter(k)) : i < j =>
         /\ OrderAfter(k)[i].key # OrderAfter(k)[j].key
         /\ OrderAfter(k)[i].at <= OrderAfter(k)[j].at
  <2> SUFFICES ASSUME NEW i \in 1..Len(OrderAfter(k)), NEW j \in 1..Len(OrderAfter(k)),
                      i < j
               PROVE  /\ OrderAfter(k)[i].key # OrderAfter(k)[j].key
                      /\ OrderAfter(k)[i].at <= OrderAfter(k)[j].at
    OBVIOUS
  <2>1. i + k \in 1..Len(order) /\ j + k \in 1..Len(order) /\ i + k < j + k
    BY PopsFront, Types
  <2> QED BY <2>1, PopsFront DEF SeenMatchesOrder
<1> QED BY <1>1, <1>2, <1>3

\* Because the queue is in order of time, stopping at the first young entry
\* leaves only young ones.
LEMMA NoneStale ==
    ASSUME TypeOK, SeenMatchesOrder, NEW k \in 0..Len(order), Expired(k)
    PROVE  \A j \in 1..Len(OrderAfter(k)) : now - OrderAfter(k)[j].at < TTL
<1> TAKE j \in 1..Len(OrderAfter(k))
<1>1. j + k \in 1..Len(order) /\ OrderAfter(k)[j] = order[j + k]
  BY PopsFront
<1>2. k + 1 \in 1..Len(order) /\ k < Len(order)
  BY <1>1, Types
<1>3. now - order[k + 1].at < TTL
  BY <1>2, Types, LoopbackAssumption DEF Expired, Stale
<1>4. order[k + 1].at <= order[j + k].at
  <2>1. CASE j = 1
    BY <2>1, <1>2, Types
  <2>2. CASE j # 1
    <3>1. k + 1 < j + k
      BY <2>2, Types
    <3> QED BY <3>1, <1>1, <1>2 DEF SeenMatchesOrder
  <2> QED BY <2>1, <2>2
<1> QED BY <1>1, <1>2, <1>3, <1>4, Types, LoopbackAssumption

-----------------------------------------------------------------------------
(* The inductive invariant *)

LEMMA InitIInv == Init => IInv
<1> SUFFICES ASSUME Init PROVE IInv
  OBVIOUS
<1>1. Len(order) = 0 /\ 1..Len(order) = {}
  BY DEF Init
<1>2. TypeOK
  <2>1. order \in Seq([at : 0..MaxTime, key : Keys])
    BY DEF Init
  <2>2. now \in 0..MaxTime /\ noted \in [Keys -> 0..Never]
    BY LoopbackAssumption DEF Init, Never
  <2> QED BY <2>1, <2>2 DEF Init, TypeOK
<1>3. SeenMatchesOrder /\ EntriesNoted /\ PendingNoted
  BY <1>1 DEF Init, SeenMatchesOrder, EntriesNoted, PendingNoted
<1> QED BY <1>2, <1>3 DEF IInv

\* The step of a call that only expires: claims() on delivery.
LEMMA DeliverIInv == ASSUME IInv, NEW m \in wire, Deliver(m) PROVE IInv'
<1> USE DEF IInv
<1>1. PICK k \in 0..Len(order) :
         Expired(k) /\ seen' = SeenAfter(k) /\ order' = OrderAfter(k)
  BY DEF Deliver
<1>2. TypeOK'
  <2>1. order' \in Seq([at : 0..MaxTime, key : Keys])
    BY <1>1, PopsFront
  <2>2. seen' \in SUBSET Keys
    BY <1>1 DEF SeenAfter, TypeOK
  <2> QED BY <2>1, <2>2 DEF Deliver, TypeOK, Never
<1>3. SeenMatchesOrder'
  BY <1>1, StaysInStep DEF SeenMatchesOrder
<1>4. EntriesNoted'
  BY <1>1, PopsFront DEF EntriesNoted, Deliver, Never
<1>5. PendingNoted'
  BY DEF PendingNoted, Deliver, Never
<1> QED BY <1>2, <1>3, <1>4, <1>5

\* The step of note(), for a key still remembered and for one that is not.
LEMMA NoteIInv == ASSUME IInv, NEW key \in Keys, Note(key) PROVE IInv'
<1> USE DEF IInv
<1> DEFINE E == [at : 0..MaxTime, key : Keys]
           e == [at |-> now, key |-> key]
<1>1. PICK k \in 0..Len(order) :
         /\ Expired(k)
         /\ seen' = SeenAfter(k) \cup {key}
         /\ order' = IF key \in SeenAfter(k) THEN OrderAfter(k)
                     ELSE Append(OrderAfter(k), e)
         /\ entered' = IF key \in SeenAfter(k) THEN entered
                       ELSE [entered EXCEPT ![key] = now]
  BY DEF Note
<1>r. entered' \in [Keys -> 0..Never']
  BY <1>1, LoopbackAssumption DEF TypeOK, Never
<1>2. /\ e \in E /\ e.at = now /\ e.key = key
      /\ OrderAfter(k) \in Seq(E)
  BY PopsFront DEF TypeOK
<1>e. \A j \in 1..Len(OrderAfter(k)) :
         /\ OrderAfter(k)[j] = order[j + k]
         /\ j + k \in 1..Len(order)
         /\ OrderAfter(k)[j].at \in Nat /\ OrderAfter(k)[j].at <= now
         /\ OrderAfter(k)[j].key \in Keys
  <2> TAKE j \in 1..Len(OrderAfter(k))
  <2>1. OrderAfter(k)[j] = order[j + k] /\ j + k \in 1..Len(order)
    BY PopsFront
  <2>2. order[j + k] \in E /\ order[j + k].at \in Nat
    BY <2>1, Types
  <2>3. order[j + k].at <= noted[order[j + k].key] /\ noted[order[j + k].key] <= now
    BY <2>1 DEF EntriesNoted
  <2>4. order[j + k].at <= now
    BY <2>2, <2>3, Types
  <2> QED BY <2>1, <2>2, <2>4
<1>n. /\ noted' = [noted EXCEPT ![key] = now]
      /\ now' = now /\ now \in Nat /\ now # Never
      /\ \A x \in Keys : noted'[x] = IF x = key THEN now ELSE noted[x]
  BY Types, LoopbackAssumption DEF Note, TypeOK, Never
<1>5. PendingNoted'
  BY <1>n DEF Note, PendingNoted, Never
<1> HIDE DEF E, e
<1>3. CASE key \in SeenAfter(k)
  <2>1. order' = OrderAfter(k) /\ seen' = SeenAfter(k)
    BY <1>1, <1>3
  <2>2. TypeOK'
    <3>1. seen' \in SUBSET Keys /\ order' \in Seq([at : 0..MaxTime, key : Keys])
      BY <2>1, <1>2 DEF SeenAfter, TypeOK, E
    <3>2. noted' \in [Keys -> 0..Never] /\ pending' \in SUBSET Keys
      BY LoopbackAssumption DEF Note, TypeOK, Never
    <3> QED BY <1>r, <3>1, <3>2 DEF Note, TypeOK, Never
  <2>3. SeenMatchesOrder'
    BY <2>1, StaysInStep DEF SeenMatchesOrder
  <2>4. EntriesNoted'
    <3> SUFFICES ASSUME NEW j \in 1..Len(order')
                 PROVE  /\ noted'[order'[j].key] # Never
                        /\ order'[j].at <= noted'[order'[j].key]
                        /\ noted'[order'[j].key] <= now
      BY <1>n DEF EntriesNoted, Never
    <3>1. order'[j] = order[j + k] /\ j + k \in 1..Len(order)
      BY <2>1, <1>e
    <3>2. CASE order'[j].key = key
      BY <3>2, <2>1, <1>e, <1>n
    <3>3. CASE order'[j].key # key
      BY <3>1, <3>3, <2>1, <1>e, <1>n DEF EntriesNoted
    <3> QED BY <3>2, <3>3
  <2> QED BY <2>2, <2>3, <2>4, <1>5
<1>4. CASE key \notin SeenAfter(k)
  <2> DEFINE n == Len(OrderAfter(k))
  <2>1. /\ seen' = SeenAfter(k) \cup {key}
        /\ order' \in Seq(E)
        /\ n \in Nat /\ Len(order') = n + 1
        /\ order'[n + 1] = e
        /\ \A j \in 1..n : order'[j] = OrderAfter(k)[j]
        /\ \A j \in 1..Len(order') : j \in 1..n \/ j = n + 1
    BY <1>1, <1>2, <1>4
  <2> HIDE DEF n
  <2>2. TypeOK'
    <3>1. seen' \in SUBSET Keys /\ order' \in Seq([at : 0..MaxTime, key : Keys])
      BY <2>1 DEF SeenAfter, TypeOK, E
    <3>2. noted' \in [Keys -> 0..Never] /\ pending' \in SUBSET Keys
      BY LoopbackAssumption DEF Note, TypeOK, Never
    <3> QED BY <1>r, <3>1, <3>2 DEF Note, TypeOK, Never
  <2>3. SeenMatchesOrder'
    <3>1. seen' = {order'[j].key : j \in 1..Len(order')}
      <4>1. \A x \in seen' : \E j \in 1..Len(order') : x = order'[j].key
        <5> TAKE x \in seen'
        <5>1. CASE x = key
          <6>1. n + 1 \in 1..Len(order')
            BY <2>1
          <6> QED BY <6>1, <5>1, <2>1, <1>2
        <5>2. CASE x \in SeenAfter(k)
          <6>1. PICK j \in 1..n : x = OrderAfter(k)[j].key
            BY <5>2, StaysInStep DEF n
          <6>2. j \in 1..Len(order')
            BY <2>1
          <6> QED BY <6>1, <6>2, <2>1
        <5> QED BY <5>1, <5>2, <2>1
      <4>2. \A j \in 1..Len(order') : order'[j].key \in seen'
        <5> TAKE j \in 1..Len(order')
        <5>1. CASE j = n + 1
          BY <5>1, <2>1, <1>2
        <5>2. CASE j \in 1..n
          BY <5>2, <2>1, StaysInStep DEF n
        <5> QED BY <5>1, <5>2, <2>1
      <4> QED BY <4>1, <4>2
    <3>2. ASSUME NEW i \in 1..Len(order'), NEW j \in 1..Len(order'), i < j
          PROVE  order'[i].key # order'[j].key /\ order'[i].at <= order'[j].at
      <4>1. i \in 1..n
        BY <3>2, <2>1
      <4>2. order'[i] = OrderAfter(k)[i] /\ order'[i].at <= now
        BY <4>1, <2>1, <1>e DEF n
      <4>3. CASE j = n + 1
        <5>1. order'[i].key \in SeenAfter(k)
          BY <4>1, <4>2, StaysInStep DEF n
        <5> QED BY <5>1, <4>2, <4>3, <2>1, <1>2, <1>4
      <4>4. CASE j \in 1..n
        BY <4>1, <4>2, <4>4, <3>2, <2>1, StaysInStep DEF n
      <4> QED BY <4>3, <4>4, <2>1
    <3> QED BY <3>1, <3>2 DEF SeenMatchesOrder
  <2>4. EntriesNoted'
    <3> SUFFICES ASSUME NEW j \in 1..Len(order')
                 PROVE  /\ noted'[order'[j].key] # Never
                        /\ order'[j].at <= noted'[order'[j].key]
                        /\ noted'[order'[j].key] <= now
      BY <1>n DEF EntriesNoted, Never
    <3>1. CASE j = n + 1
      BY <3>1, <2>1, <1>2, <1>n
    <3>2. CASE j \in 1..n
      <4>1. /\ order'[j] = OrderAfter(k)[j] /\ order'[j] = order[j + k]
            /\ j + k \in 1..Len(order)
            /\ order'[j].at <= now /\ order'[j].key \in Keys
        BY <3>2, <2>1, <1>e DEF n
      <4>2. order'[j].key # key
        <5>1. OrderAfter(k)[j].key \in SeenAfter(k)
          BY <3>2, StaysInStep DEF n
        <5> QED BY <5>1, <4>1, <1>4
      <4> QED BY <4>1, <4>2, <1>n DEF EntriesNoted
    <3> QED BY <3>1, <3>2, <2>1
  <2> QED BY <2>2, <2>3, <2>4, <1>5
<1> QED BY <1>3, <1>4

\* The steps that leave SelfPublished alone.
LEMMA QuietIInv ==
    ASSUME IInv, UNCHANGED <<seen, order, noted, entered>>, now' \in 0..MaxTime, now <= now',
           pending' \subseteq pending,
           wire' \in SUBSET [key : Keys, own : BOOLEAN, since : 0..MaxTime]
    PROVE  IInv'
<1>1. TypeOK'
  BY DEF IInv, TypeOK, Never
<1>2. SeenMatchesOrder'
  BY DEF IInv, SeenMatchesOrder
<1>3. EntriesNoted'
  <2> SUFFICES ASSUME NEW j \in 1..Len(order)
               PROVE  /\ noted[order[j].key] # Never
                      /\ order[j].at <= noted[order[j].key]
                      /\ noted[order[j].key] <= now'
    BY DEF EntriesNoted, Never
  <2>1. order[j].key \in Keys /\ noted[order[j].key] \in Nat /\ now' \in Nat
    BY Types, LoopbackAssumption DEF IInv
  <2> QED BY <2>1, Types DEF IInv, EntriesNoted
<1> QED BY <1>1, <1>2, <1>3 DEF IInv, PendingNoted, Never

LEMMA NewMessage ==
    ASSUME TypeOK, NEW key \in Keys, NEW own \in BOOLEAN, NEW since \in 0..MaxTime
    PROVE  wire \cup {[key |-> key, own |-> own, since |-> since]}
              \in SUBSET [key : Keys, own : BOOLEAN, since : 0..MaxTime]
<1> DEFINE R == [key : Keys, own : BOOLEAN, since : 0..MaxTime]
           m == [key |-> key, own |-> own, since |-> since]
<1>1. wire \in SUBSET R
  BY DEF TypeOK
<1>2. m \in R
  OBVIOUS
<1> HIDE DEF R, m
<1>3. wire \cup {m} \in SUBSET R
  BY <1>1, <1>2
<1> QED BY <1>3 DEF R, m

LEMMA NextIInv == IInv /\ [Next]_vars => IInv'
<1> SUFFICES ASSUME IInv, [Next]_vars PROVE IInv'
  OBVIOUS
<1>0. now \in Nat /\ MaxTime \in Nat /\ TypeOK
  BY Types, LoopbackAssumption DEF IInv
<1>1. ASSUME NEW key \in Keys, Note(key) PROVE IInv'
  BY <1>1, NoteIInv
<1>2. ASSUME NEW key \in Keys, Publish(key) PROVE IInv'
  <2>1. noted[key] \in 0..MaxTime
    <3>1. noted[key] \in 0..Never /\ noted[key] # Never
      BY <1>0, <1>2 DEF IInv, PendingNoted, Publish, TypeOK
    <3> QED BY <1>0, <3>1 DEF Never
  <2>2. wire' \in SUBSET [key : Keys, own : BOOLEAN, since : 0..MaxTime]
    BY <1>0, <1>2, <2>1, NewMessage DEF Publish
  <2>3. /\ UNCHANGED <<now, seen, order, noted, entered>> /\ pending' \subseteq pending
        /\ now \in 0..MaxTime
    BY <1>0, <1>2 DEF Publish, TypeOK
  <2> QED BY <1>0, <2>2, <2>3, QuietIInv
<1>3. ASSUME NEW key \in Keys, PublishForeign(key) PROVE IInv'
  <2>1. wire' \in SUBSET [key : Keys, own : BOOLEAN, since : 0..MaxTime]
    <3>1. 0 \in 0..MaxTime
      BY <1>0
    <3> QED BY <1>0, <1>3, <3>1, NewMessage DEF PublishForeign
  <2>2. /\ UNCHANGED <<now, seen, order, pending, noted, entered>>
        /\ now \in 0..MaxTime
    BY <1>0, <1>3 DEF PublishForeign, TypeOK
  <2> QED BY <1>0, <2>1, <2>2, QuietIInv
<1>4. ASSUME NEW m \in wire, Deliver(m) PROVE IInv'
  BY <1>4, DeliverIInv
<1>5. ASSUME NEW m \in wire, Lose(m) PROVE IInv'
  BY <1>0, <1>5, QuietIInv DEF Lose, TypeOK
<1>6. ASSUME Tick PROVE IInv'
  BY <1>0, <1>6, QuietIInv DEF Tick, TypeOK
<1>7. ASSUME UNCHANGED vars PROVE IInv'
  BY <1>0, <1>7, QuietIInv DEF vars, TypeOK
<1> QED BY <1>1, <1>2, <1>3, <1>4, <1>5, <1>6, <1>7 DEF Next

\* The inductive invariant holds throughout.
THEOREM Invariance == Spec => []IInv
BY InitIInv, NextIInv, PTL DEF Spec

\* Every variable keeps its type.
THEOREM TypeCorrect == Spec => []TypeOK
<1>1. IInv => TypeOK
  BY DEF IInv
<1> QED BY <1>1, Invariance, PTL

\* The HashSet and the VecDeque of SelfPublished hold the same keys, one entry
\* each, in order of time.
THEOREM SetAndQueueAgree == Spec => []SeenMatchesOrder
<1>1. IInv => SeenMatchesOrder
  BY DEF IInv
<1> QED BY <1>1, Invariance, PTL

-----------------------------------------------------------------------------
(* What a call may keep and may hold back *)

\* After any call of note or claims nothing older than one TTL is remembered.
THEOREM MemoryBounded == Spec => NothingStaleKept
<1> DEFINE Step == seen' # seen \/ order' # order =>
                     \A j \in 1..Len(order') : now - order'[j].at < TTL
<1>1. ASSUME IInv, [Next]_vars PROVE Step
  <2> SUFFICES ASSUME seen' # seen \/ order' # order,
                      NEW j \in 1..Len(order')
               PROVE  now - order'[j].at < TTL
    OBVIOUS
  <2>0. TypeOK /\ SeenMatchesOrder
    BY <1>1 DEF IInv
  <2>1. ASSUME NEW m \in wire, Deliver(m) PROVE now - order'[j].at < TTL
    <3>1. PICK k \in 0..Len(order) : Expired(k) /\ order' = OrderAfter(k)
      BY <2>1 DEF Deliver
    <3> QED BY <2>0, <3>1, NoneStale
  <2>2. ASSUME NEW key \in Keys, Note(key) PROVE now - order'[j].at < TTL
    <3> DEFINE e == [at |-> now, key |-> key]
    <3>1. PICK k \in 0..Len(order) :
             /\ Expired(k)
             /\ order' = IF key \in SeenAfter(k) THEN OrderAfter(k)
                         ELSE Append(OrderAfter(k), e)
      BY <2>2 DEF Note
    <3>2. OrderAfter(k) \in Seq([at : 0..MaxTime, key : Keys]) /\ e.at = now
      BY <2>0, PopsFront
    <3> HIDE DEF e
    <3>3. \A i \in 1..Len(OrderAfter(k)) : now - OrderAfter(k)[i].at < TTL
      BY <2>0, <3>1, NoneStale
    <3>4. CASE order' = OrderAfter(k)
      BY <3>3, <3>4
    <3>5. CASE order' = Append(OrderAfter(k), e)
      <4>1. order'[j] = e \/ (j \in 1..Len(OrderAfter(k)) /\ order'[j] = OrderAfter(k)[j])
        BY <3>2, <3>5
      <4>2. now - now < TTL
        BY <2>0, Types, LoopbackAssumption
      <4> QED BY <4>1, <4>2, <3>2, <3>3
    <3> QED BY <3>1, <3>4, <3>5
  <2>3. CASE UNCHANGED <<seen, order>>
    BY <2>3
  <2> QED BY <1>1, <2>1, <2>2, <2>3
      DEF Next, Publish, PublishForeign, Lose, Tick, vars
<1>2. [][Step]_vars <=> NothingStaleKept
  BY DEF NothingStaleKept
<1>3. IInv /\ [Next]_vars => [Step]_vars
  BY <1>1
<1> QED BY <1>2, <1>3, Invariance, PTL DEF Spec

\* A foreign message is held back only if a message of ours with its key was
\* noted less than one TTL ago.
THEOREM DropsOnlyEchoes == Spec => OnlyEchoesDropped
<1> DEFINE Step == \A m \in wire :
                     Deliver(m) /\ ~m.own /\ m.key \in seen'
                       => noted[m.key] # Never /\ now - noted[m.key] < TTL
<1>1. ASSUME IInv PROVE Step
  <2> SUFFICES ASSUME NEW m \in wire, Deliver(m), m.key \in seen'
               PROVE  noted[m.key] # Never /\ now - noted[m.key] < TTL
    OBVIOUS
  <2>0. TypeOK /\ SeenMatchesOrder /\ EntriesNoted
    BY <1>1 DEF IInv
  <2>1. PICK k \in 0..Len(order) : Expired(k) /\ seen' = SeenAfter(k)
    BY DEF Deliver
  <2>2. PICK j \in 1..Len(OrderAfter(k)) : m.key = OrderAfter(k)[j].key
    BY <2>0, <2>1, StaysInStep
  <2>3. j + k \in 1..Len(order) /\ OrderAfter(k)[j] = order[j + k]
    BY <2>0, PopsFront
  <2>4. now - order[j + k].at < TTL
    BY <2>0, <2>1, <2>3, NoneStale
  <2>5. noted[m.key] # Never /\ order[j + k].at <= noted[m.key]
    BY <2>0, <2>2, <2>3 DEF EntriesNoted
  <2>6. noted[m.key] \in Nat /\ order[j + k].at \in Nat /\ now \in Nat
    <3>1. order[j + k].key \in Keys
      BY <2>0, <2>3, Types
    <3> QED BY <2>0, <2>2, <2>3, <3>1, Types
  <2> QED BY <2>4, <2>5, <2>6, LoopbackAssumption, SMTT(40)
<1>2. [][Step]_vars <=> OnlyEchoesDropped
  BY DEF OnlyEchoesDropped
<1>3. IInv /\ [Next]_vars => [Step]_vars
  BY <1>1
<1> QED BY <1>2, <1>3, Invariance, PTL DEF Spec

-----------------------------------------------------------------------------
(* What gets through: messages under a key that kept an earlier expiry      *)

\* The queue holds the entry the last note of `key` found or made.
Queued(key) ==
    \E j \in 1..Len(order) : order[j].key = key /\ order[j].at = entered[key]

\* Every key noted is still queued or has had its TTL, and what is ours under
\* way was noted and is not late.
PromptInv ==
    /\ \A key \in Keys : noted[key] # Never =>
          Queued(key) \/ now - entered[key] >= TTL
    /\ \A key \in pending : now <= noted[key] + MaxTransit
    /\ \A m \in wire : m.own => noted[m.key] # Never /\ now <= m.since + MaxTransit

\* An entry that a call of expire() pops has had its TTL.
LEMMA PoppedLate ==
    ASSUME TypeOK, NEW k \in 0..Len(order), Expired(k), NEW key \in Keys, Queued(key)
    PROVE  \/ \E j \in 1..Len(OrderAfter(k)) :
                 OrderAfter(k)[j].key = key /\ OrderAfter(k)[j].at = entered[key]
           \/ now - entered[key] >= TTL
<1>1. PICK j \in 1..Len(order) : order[j].key = key /\ order[j].at = entered[key]
  BY DEF Queued
<1>2. CASE j \in 1..k
  BY <1>1, <1>2 DEF Expired, Stale
<1>3. CASE j \notin 1..k
  <2>1. j - k \in 1..Len(OrderAfter(k)) /\ (j - k) + k = j
    BY <1>3, PopsFront, Types
  <2> QED BY <1>1, <2>1, PopsFront
<1> QED BY <1>2, <1>3

LEMMA PromptStep ==
    ASSUME IInv, PromptInv, [Next]_vars
    PROVE  PromptInv'
<1>0. TypeOK /\ SeenMatchesOrder /\ EntriesNoted /\ PendingNoted /\ now \in Nat
  BY Types DEF IInv
<1>t. \A key \in Keys : entered[key] \in Nat /\ noted[key] \in Nat
  BY <1>0, Types, LoopbackAssumption DEF TypeOK
<1>w. \A m \in wire : m.key \in Keys /\ m.since \in Nat
  BY <1>0, LoopbackAssumption DEF TypeOK
<1>1. ASSUME NEW key \in Keys, Note(key) PROVE PromptInv'
  <2> DEFINE e == [at |-> now, key |-> key]
  <2>1. PICK k \in 0..Len(order) :
           /\ Expired(k)
           /\ seen' = SeenAfter(k) \cup {key}
           /\ order' = IF key \in SeenAfter(k) THEN OrderAfter(k)
                       ELSE Append(OrderAfter(k), e)
           /\ entered' = IF key \in SeenAfter(k) THEN entered
                         ELSE [entered EXCEPT ![key] = now]
    BY <1>1 DEF Note
  <2>2. OrderAfter(k) \in Seq([at : 0..MaxTime, key : Keys]) /\ e.at = now /\ e.key = key
    BY <1>0, PopsFront
  <2>3. /\ now' = now /\ wire' = wire /\ pending' = {key}
        /\ noted'[key] = now /\ now # Never
        /\ \A x \in Keys : x # key => noted'[x] = noted[x]
    BY <1>0, <1>1, LoopbackAssumption DEF Note, TypeOK, Never
  <2> HIDE DEF e
  <2>4. \A j \in 1..Len(OrderAfter(k)) :
           j \in 1..Len(order') /\ order'[j] = OrderAfter(k)[j]
    BY <2>1, <2>2
  <2>5. ASSUME NEW x \in Keys, Queued(x), x # key \/ key \in SeenAfter(k)
        PROVE  Queued(x)' \/ now - entered'[x] >= TTL
    <3>1. entered'[x] = entered[x]
      BY <2>1, <2>5, <1>0 DEF TypeOK
    <3> QED BY <1>0, <2>1, <2>4, <2>5, <3>1, PoppedLate DEF Queued
  <2>6. ASSUME NEW x \in Keys, noted'[x] # Never
        PROVE  Queued(x)' \/ now - entered'[x] >= TTL
    <3>1. CASE x # key
      <4>1. entered'[x] = entered[x] /\ noted[x] # Never
        BY <1>0, <2>1, <2>3, <2>6, <3>1 DEF TypeOK
      <4> QED BY <2>5, <3>1, <4>1 DEF PromptInv
    <3>2. CASE x = key /\ key \in SeenAfter(k)
      <4>1. PICK j \in 1..Len(OrderAfter(k)) : OrderAfter(k)[j].key = key
        BY <1>0, <2>1, <3>2, StaysInStep
      <4>2. order[j + k].key = key /\ j + k \in 1..Len(order)
        BY <1>0, <4>1, PopsFront
      <4>3. noted[key] # Never
        BY <1>0, <4>2 DEF EntriesNoted
      <4>4. entered' = entered
        BY <2>1, <3>2
      <4> QED BY <2>5, <3>2, <4>3, <4>4 DEF PromptInv
    <3>3. CASE x = key /\ key \notin SeenAfter(k)
      <4>1. entered'[key] = now
        BY <1>0, <2>1, <3>3 DEF TypeOK
      <4>2. order'[Len(order')] = e /\ Len(order') \in 1..Len(order')
        BY <2>1, <2>2, <3>3
      <4> QED BY <2>2, <3>3, <4>1, <4>2 DEF Queued
    <3> QED BY <3>1, <3>2, <3>3
  <2>7. now <= now + MaxTransit
    BY <1>0, LoopbackAssumption
  <2>8. \A m \in wire : m.own => noted'[m.key] # Never /\ now <= m.since + MaxTransit
    BY <1>w, <2>3 DEF PromptInv
  <2> QED BY <2>3, <2>6, <2>7, <2>8 DEF PromptInv, Never
<1>2. ASSUME NEW key \in Keys, Publish(key) PROVE PromptInv'
  BY <1>0, <1>2 DEF Publish, PromptInv, PendingNoted, Queued, Never
<1>3. ASSUME NEW key \in Keys, PublishForeign(key) PROVE PromptInv'
  BY <1>3 DEF PublishForeign, PromptInv, Queued, Never
<1>4. ASSUME NEW m \in wire, Deliver(m) PROVE PromptInv'
  <2>1. PICK k \in 0..Len(order) : Expired(k) /\ order' = OrderAfter(k)
    BY <1>4 DEF Deliver
  <2>2. wire' = wire \ {m} /\ UNCHANGED <<now, pending, noted, entered>>
    BY <1>4 DEF Deliver
  <2>3. ASSUME NEW x \in Keys, noted[x] # Never
        PROVE  Queued(x)' \/ now - entered[x] >= TTL
    BY <1>0, <2>1, <2>2, <2>3, PoppedLate DEF PromptInv, Queued
  <2> QED BY <2>2, <2>3 DEF PromptInv, Never
<1>5. ASSUME NEW m \in wire, Lose(m) PROVE PromptInv'
  BY <1>5 DEF Lose, PromptInv, Queued, Never
<1>6. ASSUME Tick PROVE PromptInv'
  <2>1. now' = now + 1 /\ UNCHANGED <<seen, order, pending, wire, noted, entered>>
    BY <1>6 DEF Tick
  <2>2. ASSUME NEW x \in Keys, noted[x] # Never
        PROVE  Queued(x)' \/ now' - entered[x] >= TTL
    BY <1>0, <1>t, <2>1, <2>2, LoopbackAssumption DEF PromptInv, Queued
  <2>3. \A key \in pending : now' <= noted[key] + MaxTransit
    <3> TAKE key \in pending
    <3>1. now < noted[key] + MaxTransit /\ key \in Keys
      BY <1>0, <1>6 DEF Tick, TypeOK
    <3> QED BY <1>0, <1>t, <2>1, <3>1, LoopbackAssumption
  <2>4. \A m \in wire : m.own => now' <= m.since + MaxTransit
    <3> SUFFICES ASSUME NEW m \in wire, m.own PROVE now' <= m.since + MaxTransit
      OBVIOUS
    <3>1. now < m.since + MaxTransit
      BY <1>6 DEF Tick
    <3> QED BY <1>0, <1>w, <2>1, <3>1, LoopbackAssumption
  <2> QED BY <2>1, <2>2, <2>3, <2>4 DEF PromptInv, Never
<1>7. ASSUME UNCHANGED vars PROVE PromptInv'
  BY <1>7 DEF vars, PromptInv, Queued, Never
<1> QED BY <1>1, <1>2, <1>3, <1>4, <1>5, <1>6, <1>7 DEF Next

\* Over a transport faster than the TTL, a message of ours is recorded only
\* when the last note to queue its key is older than the message and a TTL old:
\* record.rs:189 gave the note of the message no expiry of its own.
THEOREM OnlyRenewedGetThrough ==
    ASSUME MaxTransit < TTL
    PROVE  Spec => OnlyRenewedRecorded
<1> DEFINE Step == \A m \in wire :
                     Deliver(m) /\ m.own /\ m.key \notin seen'
                       => entered[m.key] < m.since /\ now - entered[m.key] >= TTL
<1>1. Init => PromptInv
  BY DEF Init, PromptInv
<1>2. IInv /\ PromptInv /\ [Next]_vars => PromptInv'
  BY PromptStep
<1>3. ASSUME IInv, PromptInv PROVE Step
  <2> SUFFICES ASSUME NEW m \in wire, Deliver(m), m.own, m.key \notin seen'
               PROVE  entered[m.key] < m.since /\ now - entered[m.key] >= TTL
    OBVIOUS
  <2>0. TypeOK /\ SeenMatchesOrder /\ now \in Nat
    BY <1>3, Types DEF IInv
  <2>1. PICK k \in 0..Len(order) : Expired(k) /\ seen' = SeenAfter(k)
    BY DEF Deliver
  <2>2. m.key \in Keys /\ m.since \in Nat /\ entered[m.key] \in Nat
    BY <2>0, LoopbackAssumption DEF TypeOK, Never
  <2>3. noted[m.key] # Never /\ now <= m.since + MaxTransit
    BY <1>3 DEF PromptInv
  <2>4. now - entered[m.key] >= TTL
    <3>1. Queued(m.key) \/ now - entered[m.key] >= TTL
      BY <1>3, <2>2, <2>3 DEF PromptInv
    <3>2. \A j \in 1..Len(OrderAfter(k)) : OrderAfter(k)[j].key # m.key
      BY <2>0, <2>1, StaysInStep
    <3> QED BY <2>0, <2>1, <2>2, <3>1, <3>2, PoppedLate
  <2>5. entered[m.key] < m.since
    BY <2>0, <2>2, <2>3, <2>4, LoopbackAssumption
  <2> QED BY <2>4, <2>5
<1>4. [][Step]_vars <=> OnlyRenewedRecorded
  BY DEF OnlyRenewedRecorded
<1>5. IInv /\ PromptInv /\ [Next]_vars => [Step]_vars
  BY <1>3
<1> QED BY <1>1, <1>2, <1>4, <1>5, Invariance, PTL DEF Spec
=============================================================================
