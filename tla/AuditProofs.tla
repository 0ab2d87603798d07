----------------------------- MODULE AuditProofs -----------------------------
(***************************************************************************)
(* What Audit keeps of stamps and of the frame tree, for any recording,    *)
(* any number of passes and any clock.                                     *)
(***************************************************************************)
EXTENDS Audit, FiniteSetTheorems, TLAPS

Calls == [Kinds -> Nat]

LEMMA MessageAt ==
    ASSUME recording \in Seq(Stamped \cup Tf), NEW i \in 1..Len(recording)
    PROVE  recording[i] \in Stamped \cup Tf
<1> HIDE DEF Stamped, Tf
<1> QED OBVIOUS

LEMMA StampedFields ==
    ASSUME NEW m \in Stamped
    PROVE  /\ m.stream \in Streams /\ m.ts \in Nat /\ m.ours \in BOOLEAN /\ m.stamp \in Nat
BY DEF Stamped

\* A message has one stamp or is a tf message, never both.
LEMMA Disjoint == ASSUME NEW m \in Tf PROVE m \notin Stamped
<1>1. DOMAIN m = {"edges"}
  BY DEF Tf
<1> QED BY <1>1 DEF Stamped

LEMMA LargerIs ==
    ASSUME NEW m \in Nat, NEW n \in Nat
    PROVE  Larger(m, n) \in {m, n} /\ m <= Larger(m, n) /\ n <= Larger(m, n)
BY DEF Larger

-----------------------------------------------------------------------------
(* Sums over finite sets *)

LEMMA SmallestSet ==
    ASSUME NEW S, IsFiniteSet(S), NEW Bad \in SUBSET (SUBSET S), Bad # {}
    PROVE  \E U \in Bad : \A V \in SUBSET U : V # U => V \notin Bad
<1>1. IsWellFoundedOn(StrictSubsetOrdering(S), SUBSET S)
  BY FS_StrictSubsetOrderingWellFounded, FS_FiniteSubsetsOfFinite
<1>2. PICK U \in Bad : \A V \in Bad : <<V, U>> \notin StrictSubsetOrdering(S)
  BY <1>1, WFMin
<1>3. ASSUME NEW V \in SUBSET U, V # U PROVE V \notin Bad
  BY <1>2, <1>3 DEF StrictSubsetOrdering
<1> QED BY <1>3

Pick(s) == CHOOSE x \in s : TRUE

Step(f, g, s) == IF s = {} THEN 0 ELSE f[Pick(s)] + g[s \ {Pick(s)}]

\* g adds f up over every subset of S.
AddsUp(f, S, g) == g = [s \in SUBSET S |-> Step(f, g, s)]

LEMMA SumIs ==
    ASSUME NEW f, NEW S
    PROVE  SumFunctionOnSet(f, S) = (CHOOSE g : AddsUp(f, S, g))[S]
BY DEF SumFunctionOnSet, FoldFunctionOnSet, MapThenFoldSet, AddsUp, Step, Pick

LEMMA PickIn == ASSUME NEW s, s # {} PROVE Pick(s) \in s
BY DEF Pick

\* Any two that do agree.
LEMMA AddsUpOneWay ==
    ASSUME NEW S, IsFiniteSet(S), NEW T, NEW f, NEW g, NEW h,
           AddsUp(f, S, g), AddsUp(f, T, h), NEW V \in SUBSET S, V \subseteq T
    PROVE  g[V] = h[V]
<1> DEFINE Bad == {U \in SUBSET S : U \subseteq T /\ g[U] # h[U]}
<1>1. SUFFICES ASSUME Bad # {} PROVE FALSE
  OBVIOUS
<1>2. Bad \in SUBSET (SUBSET S)
  OBVIOUS
<1> HIDE DEF Bad
<1>3. PICK U \in Bad : \A W \in SUBSET U : W # U => W \notin Bad
  BY <1>1, <1>2, SmallestSet
<1>4. U \in SUBSET S /\ U \subseteq T /\ g[U] # h[U]
  BY <1>3 DEF Bad
<1>5. g[U] = Step(f, g, U) /\ h[U] = Step(f, h, U)
  BY <1>4 DEF AddsUp
<1>6. U # {}
  BY <1>4, <1>5 DEF Step
<1>7. U \ {Pick(U)} \in SUBSET U /\ U \ {Pick(U)} # U
  BY <1>6, PickIn
<1>8. g[U \ {Pick(U)}] = h[U \ {Pick(U)}]
  BY <1>3, <1>4, <1>7 DEF Bad
<1> QED BY <1>4, <1>5, <1>8 DEF Step

LEMMA SumExists ==
    ASSUME NEW S, IsFiniteSet(S), NEW f
    PROVE  \E g : AddsUp(f, S, g)
<1> DEFINE Bad == {U \in SUBSET S : ~\E g : AddsUp(f, U, g)}
<1>1. SUFFICES ASSUME Bad # {} PROVE FALSE
  OBVIOUS
<1>2. Bad \in SUBSET (SUBSET S)
  OBVIOUS
<1> HIDE DEF Bad
<1>3. PICK U \in Bad : \A W \in SUBSET U : W # U => W \notin Bad
  BY <1>1, <1>2, SmallestSet
<1>4. U \in SUBSET S /\ ~\E g : AddsUp(f, U, g)
  BY <1>3 DEF Bad
<1> DEFINE Of(V) == CHOOSE g : AddsUp(f, V, g)
           Below == [V \in SUBSET U |-> Of(V)[V]]
           G == [V \in SUBSET U |-> IF V = U THEN Step(f, Below, U) ELSE Below[V]]
<1>5. ASSUME NEW V \in SUBSET U, V # U PROVE AddsUp(f, V, Of(V))
  <2>1. V \notin Bad /\ V \in SUBSET S
    BY <1>3, <1>4, <1>5
  <2>2. \E g : AddsUp(f, V, g)
    BY <2>1 DEF Bad
  <2> QED BY <2>2
<1> HIDE DEF Of
<1>6. ASSUME NEW V \in SUBSET U PROVE Step(f, Below, V) = Step(f, G, V)
  <2> DEFINE R == V \ {Pick(V)}
  <2>1. CASE V = {}
    BY <2>1 DEF Step
  <2>2. CASE V # {}
    <3>1. R \in SUBSET U /\ R # U
      BY <2>2, PickIn
    <3>2. G[R] = Below[R]
      BY <3>1
    <3> HIDE DEF G, Below
    <3> QED BY <2>2, <3>2 DEF Step
  <2> QED BY <2>1, <2>2
<1>7. ASSUME NEW V \in SUBSET U PROVE G[V] = Step(f, Below, V)
  <2>1. CASE V = U
    BY <2>1
  <2>2. CASE V # U
    <3> DEFINE R == V \ {Pick(V)}
    <3>1. AddsUp(f, V, Of(V)) /\ V \in SUBSET V
      BY <1>5, <2>2
    <3>2. Of(V)[V] = Step(f, Of(V), V)
      BY <3>1 DEF AddsUp
    <3>3. G[V] = Of(V)[V]
      BY <2>2
    <3>4. CASE V = {}
      BY <3>2, <3>3, <3>4 DEF Step
    <3>5. CASE V # {}
      <4>1. R \in SUBSET V /\ R \in SUBSET U /\ R # U
        BY <3>5, PickIn
      <4>2. AddsUp(f, R, Of(R)) /\ R \in SUBSET R
        BY <1>5, <4>1
      <4>3. IsFiniteSet(V)
        BY <1>4, FS_Subset
      <4> HIDE DEF R
      <4>4. Of(V)[R] = Of(R)[R]
        BY <3>1, <4>1, <4>2, <4>3, AddsUpOneWay
      <4>5. Below[R] = Of(R)[R]
        BY <4>1
      <4> HIDE DEF Below, G
      <4> QED BY <3>2, <3>3, <3>5, <4>4, <4>5 DEF Step, R
    <3> QED BY <3>4, <3>5
  <2> QED BY <2>1, <2>2
<1>8. AddsUp(f, U, G)
  <2>1. G = [V \in SUBSET U |-> G[V]]
    OBVIOUS
  <2> HIDE DEF G, Below
  <2>2. \A V \in SUBSET U : G[V] = Step(f, G, V)
    BY <1>6, <1>7
  <2>3. G = [V \in SUBSET U |-> Step(f, G, V)]
    BY <2>1, <2>2
  <2> QED BY <2>3 DEF AddsUp
<1> QED BY <1>4, <1>8

Sum(f, S) == SumFunctionOnSet(f, S)

\* The sum over a set is what any g that adds f up says of it.
LEMMA SumAgrees ==
    ASSUME NEW S, IsFiniteSet(S), NEW f, NEW g, AddsUp(f, S, g), NEW V \in SUBSET S
    PROVE  Sum(f, V) = g[V]
<1> DEFINE h == CHOOSE h : AddsUp(f, V, h)
<1>1. IsFiniteSet(V)
  BY FS_Subset
<1>2. AddsUp(f, V, h)
  BY <1>1, SumExists
<1>3. Sum(f, V) = h[V]
  BY SumIs DEF Sum
<1> HIDE DEF h
<1> QED BY <1>1, <1>2, <1>3, AddsUpOneWay

LEMMA SumOfNone == ASSUME NEW f PROVE Sum(f, {}) = 0
<1>1. PICK g : AddsUp(f, {}, g)
  BY SumExists, FS_EmptySet
<1>2. Sum(f, {}) = g[{}]
  BY <1>1, SumAgrees, FS_EmptySet
<1> QED BY <1>1, <1>2 DEF AddsUp, Step

LEMMA SumOfSome ==
    ASSUME NEW S, IsFiniteSet(S), S # {}, NEW f
    PROVE  Pick(S) \in S /\ Sum(f, S) = f[Pick(S)] + Sum(f, S \ {Pick(S)})
<1>1. PICK g : AddsUp(f, S, g)
  BY SumExists
<1>2. Sum(f, S) = g[S] /\ Sum(f, S \ {Pick(S)}) = g[S \ {Pick(S)}]
  BY <1>1, SumAgrees
<1> QED BY <1>1, <1>2, PickIn DEF AddsUp, Step

LEMMA SumType ==
    ASSUME NEW S, IsFiniteSet(S), NEW f, NEW T \in {Nat, Int}, \A x \in S : f[x] \in T
    PROVE  Sum(f, S) \in T
<1> DEFINE Bad == {U \in SUBSET S : Sum(f, U) \notin T}
<1>1. SUFFICES ASSUME Bad # {} PROVE FALSE
  OBVIOUS
<1>2. Bad \in SUBSET (SUBSET S)
  OBVIOUS
<1> HIDE DEF Bad
<1>3. PICK U \in Bad : \A W \in SUBSET U : W # U => W \notin Bad
  BY <1>1, <1>2, SmallestSet
<1>4. U \in SUBSET S /\ Sum(f, U) \notin T
  BY <1>3 DEF Bad
<1>5. IsFiniteSet(U)
  BY <1>4, FS_Subset
<1>6. U # {}
  <2>1. 0 \in T
    OBVIOUS
  <2> QED BY <1>4, <2>1, SumOfNone
<1>7. Pick(U) \in U /\ Sum(f, U) = f[Pick(U)] + Sum(f, U \ {Pick(U)})
  BY <1>5, <1>6, SumOfSome
<1>8. Sum(f, U \ {Pick(U)}) \in T
  <2>1. U \ {Pick(U)} \in SUBSET U /\ U \ {Pick(U)} # U
    BY <1>7
  <2> QED BY <1>3, <1>4, <2>1 DEF Bad
<1>9. f[Pick(U)] \in T
  BY <1>4, <1>7
<1> QED BY <1>4, <1>7, <1>8, <1>9

\* Point by point, sums add up.
LEMMA SumPlus ==
    ASSUME NEW S, IsFiniteSet(S), NEW f, NEW g, NEW h,
           \A x \in S : f[x] \in Int /\ g[x] \in Int /\ h[x] = f[x] + g[x]
    PROVE  Sum(h, S) = Sum(f, S) + Sum(g, S)
<1> DEFINE Bad == {U \in SUBSET S : Sum(h, U) # Sum(f, U) + Sum(g, U)}
<1>1. SUFFICES ASSUME Bad # {} PROVE FALSE
  OBVIOUS
<1>2. Bad \in SUBSET (SUBSET S)
  OBVIOUS
<1> HIDE DEF Bad
<1>3. PICK U \in Bad : \A W \in SUBSET U : W # U => W \notin Bad
  BY <1>1, <1>2, SmallestSet
<1>4. U \in SUBSET S /\ Sum(h, U) # Sum(f, U) + Sum(g, U)
  BY <1>3 DEF Bad
<1>5. IsFiniteSet(U)
  BY <1>4, FS_Subset
<1>6. U # {}
  <2>1. Sum(f, {}) = 0 /\ Sum(g, {}) = 0 /\ Sum(h, {}) = 0
    BY SumOfNone
  <2>2. Sum(h, {}) = Sum(f, {}) + Sum(g, {})
    BY <2>1
  <2> QED BY <1>4, <2>2
<1> DEFINE p == Pick(U)  R == U \ {p}
<1>7. /\ p \in U
      /\ Sum(f, U) = f[p] + Sum(f, R)
      /\ Sum(g, U) = g[p] + Sum(g, R)
      /\ Sum(h, U) = h[p] + Sum(h, R)
  BY <1>5, <1>6, SumOfSome
<1>8. R \in SUBSET U /\ R # U /\ R \in SUBSET S
  BY <1>4, <1>7
<1>9. Sum(h, R) = Sum(f, R) + Sum(g, R)
  BY <1>3, <1>8 DEF Bad
<1>10. Sum(f, R) \in Int /\ Sum(g, R) \in Int
  <2>1. IsFiniteSet(R) /\ \A x \in R : f[x] \in Int /\ g[x] \in Int
    BY <1>8, FS_Subset
  <2> HIDE DEF R
  <2> QED BY <2>1, SumType
<1>11. f[p] \in Int /\ g[p] \in Int /\ h[p] = f[p] + g[p]
  BY <1>4, <1>7
<1> HIDE DEF p, R
<1> QED BY <1>4, <1>7, <1>9, <1>10, <1>11

LEMMA SumZero ==
    ASSUME NEW S, IsFiniteSet(S), NEW f, \A x \in S : f[x] = 0
    PROVE  Sum(f, S) = 0
<1>1. \A x \in S : f[x] \in Int /\ f[x] = f[x] + f[x]
  OBVIOUS
<1>2. Sum(f, S) = Sum(f, S) + Sum(f, S)
  BY <1>1, SumPlus
<1>3. Sum(f, S) \in Int
  BY <1>1, SumType
<1>4. \A t \in Int : t = t + t => t = 0
  OBVIOUS
<1> QED BY <1>2, <1>3, <1>4

\* Sums of functions that agree are equal.
LEMMA SumSame ==
    ASSUME NEW S, IsFiniteSet(S), NEW f, NEW g, \A x \in S : f[x] \in Int /\ f[x] = g[x]
    PROVE  Sum(f, S) = Sum(g, S)
<1> DEFINE z == [x \in S |-> 0]
<1>1. Sum(z, S) = 0 /\ Sum(f, S) \in Int
  BY SumZero, SumType
<1>2. Sum(g, S) = Sum(f, S) + Sum(z, S)
  BY SumPlus
<1> QED BY <1>1, <1>2

\* Any element may be taken out first.
LEMMA SumWithout ==
    ASSUME NEW S, IsFiniteSet(S), NEW f, \A x \in S : f[x] \in Int, NEW x \in S
    PROVE  Sum(f, S) = f[x] + Sum(f, S \ {x})
<1> DEFINE Bad == {U \in SUBSET S : \E y \in U : Sum(f, U) # f[y] + Sum(f, U \ {y})}
<1>1. SUFFICES ASSUME Bad # {} PROVE FALSE
  OBVIOUS
<1>2. Bad \in SUBSET (SUBSET S)
  OBVIOUS
<1> HIDE DEF Bad
<1>3. PICK U \in Bad : \A W \in SUBSET U : W # U => W \notin Bad
  BY <1>1, <1>2, SmallestSet
<1>4. PICK y \in U : U \in SUBSET S /\ Sum(f, U) # f[y] + Sum(f, U \ {y})
  BY <1>3 DEF Bad
<1> DEFINE p == Pick(U)  W == U \ {p}  V == U \ {y}
<1>5. IsFiniteSet(U)
  BY <1>4, FS_Subset
<1>6. p \in U /\ Sum(f, U) = f[p] + Sum(f, W)
  BY <1>4, <1>5, SumOfSome
<1>7. y # p
  BY <1>4, <1>6
<1>8. W \in SUBSET U /\ W # U /\ V \in SUBSET U /\ V # U /\ y \in W /\ p \in V
  BY <1>4, <1>6, <1>7
<1>9. Sum(f, W) = f[y] + Sum(f, W \ {y}) /\ Sum(f, V) = f[p] + Sum(f, V \ {p})
  BY <1>3, <1>4, <1>8 DEF Bad
<1>10. W \ {y} = V \ {p}
  OBVIOUS
<1>11. f[p] \in Int /\ f[y] \in Int
  BY <1>4, <1>6
<1>12. Sum(f, W \ {y}) \in Int
  <2> DEFINE R == W \ {y}
  <2>1. IsFiniteSet(R) /\ \A z \in R : f[z] \in Int
    BY <1>4, <1>5, FS_Subset
  <2> HIDE DEF R
  <2>2. Sum(f, R) \in Int
    BY <2>1, SumType
  <2> QED BY <2>2 DEF R
<1>13. Sum(f, U) # f[y] + Sum(f, V)
  BY <1>4
<1> DEFINE rest == Sum(f, W \ {y})
<1>14. Sum(f, V) = f[p] + rest /\ Sum(f, W) = f[y] + rest
  BY <1>9, <1>10
<1> HIDE DEF p, W, V, rest
<1>15. rest \in Int
  BY <1>12 DEF rest
<1> QED BY <1>6, <1>11, <1>13, <1>14, <1>15

\* Where a function differs at one place only, so does its sum.
LEMMA SumChange ==
    ASSUME NEW S, IsFiniteSet(S), NEW f, NEW g, NEW x \in S,
           \A y \in S : f[y] \in Int /\ g[y] \in Int /\ (y # x => g[y] = f[y])
    PROVE  Sum(g, S) = Sum(f, S) + (g[x] - f[x])
<1> DEFINE R == S \ {x}
<1>1. Sum(f, S) = f[x] + Sum(f, R) /\ Sum(g, S) = g[x] + Sum(g, R)
  BY SumWithout
<1>2. IsFiniteSet(R) /\ \A y \in R : f[y] \in Int /\ f[y] = g[y]
  BY FS_Subset
<1> HIDE DEF R
<1>3. Sum(f, R) = Sum(g, R) /\ Sum(f, R) \in Int
  BY <1>2, SumSame, SumType
<1> QED BY <1>1, <1>3

\* What h takes to a member of U, and to e.
Into(J, h, U) == {j \in J : h[j] \in U}
Onto(J, h, e) == {j \in J : h[j] = e}

\* Counting place by place: what h takes to E is counted once for each e of E.
LEMMA SumCounts ==
    ASSUME NEW E, IsFiniteSet(E), NEW J, IsFiniteSet(J), NEW h, NEW c,
           \A e \in E : c[e] = Cardinality(Onto(J, h, e))
    PROVE  Sum(c, E) = Cardinality(Into(J, h, E))
<1> USE DEF Into, Onto
<1> DEFINE Hit(U) == {j \in J : h[j] \in U}
           Bad == {U \in SUBSET E : Sum(c, U) # Cardinality(Hit(U))}
<1>1. SUFFICES ASSUME Bad # {} PROVE FALSE
  OBVIOUS
<1>2. Bad \in SUBSET (SUBSET E)
  OBVIOUS
<1> HIDE DEF Bad
<1>3. PICK U \in Bad : \A W \in SUBSET U : W # U => W \notin Bad
  BY <1>1, <1>2, SmallestSet
<1>4. U \in SUBSET E /\ Sum(c, U) # Cardinality(Hit(U))
  BY <1>3 DEF Bad
<1>5. IsFiniteSet(U)
  BY <1>4, FS_Subset
<1>6. U # {}
  <2>1. Hit({}) = {}
    OBVIOUS
  <2> QED BY <1>4, <2>1, SumOfNone, FS_EmptySet
<1> DEFINE p == Pick(U)  R == U \ {p}  P == {j \in J : h[j] = p}
<1>7. p \in U /\ Sum(c, U) = c[p] + Sum(c, R)
  BY <1>5, <1>6, SumOfSome
<1>8. R \in SUBSET U /\ R # U /\ R \in SUBSET E
  BY <1>4, <1>7
<1>9. Sum(c, R) = Cardinality(Hit(R)) /\ c[p] = Cardinality(P)
  BY <1>3, <1>4, <1>7, <1>8 DEF Bad
<1>10. Hit(U) = P \cup Hit(R) /\ P \cap Hit(R) = {} /\ P \in SUBSET J /\ Hit(R) \in SUBSET J
  BY <1>7
<1> HIDE DEF Hit, p, P, R
<1>11. IsFiniteSet(P) /\ IsFiniteSet(Hit(R))
  BY <1>10, FS_Subset
<1>12. /\ Cardinality(P \cup Hit(R)) = Cardinality(P) + Cardinality(Hit(R))
                                       - Cardinality(P \cap Hit(R))
       /\ Cardinality(P) \in Nat /\ Cardinality(Hit(R)) \in Nat
  BY <1>11, FS_Union, FS_CardinalityType
<1>13. Cardinality(P \cap Hit(R)) = 0
  BY <1>10, FS_EmptySet
<1> QED BY <1>4, <1>7, <1>9, <1>10, <1>12, <1>13

-----------------------------------------------------------------------------
(* Splits of the frame tree *)

\* Since split_since, and no earlier, every tf message left two roots or more.
SplitKnown ==
    /\ now \in Nat /\ whole \in Nat /\ whole <= now
    /\ split_since # Unset => split_since \in Nat /\ whole <= split_since
    /\ warned["split"].printed \in Nat

\* Warnings of a kind are printed one at a time, and only when it came up.
LEMMA PrintedOnce ==
    ASSUME NEW calls, NEW k \in Kinds, Warn(calls), warned[k].printed \in Nat
    PROVE  /\ warned'[k].printed \in Nat
           /\ warned'[k].printed > warned[k].printed => calls[k] # 0
<1>1. warned'[k] = Warnings(warned[k], throttle[k], calls[k])
  BY DEF Warn
<1>2. CASE calls[k] = 0 \/ Quiet(throttle[k])
  BY <1>1, <1>2 DEF Warnings
<1>3. CASE ~(calls[k] = 0 \/ Quiet(throttle[k]))
  <2>1. warned'[k].printed = warned[k].printed + 1
    BY <1>1, <1>3 DEF Warnings
  <2> QED BY <1>3, <2>1
<1> QED BY <1>2, <1>3

LEMMA SplitStep ==
    ASSUME SplitKnown, InspectTree
    PROVE  /\ SplitKnown'
           /\ warned'["split"].printed > warned["split"].printed => now - whole >= WARN_EVERY
<1> DEFINE roots == Roots(ParentsWith(Upcoming.edges))
           calls == [k \in Kinds |->
                        CASE k = "doubled" -> Doubled(Upcoming.edges)
                          [] k = "split" /\ SplitLasts(roots) -> 1
                          [] OTHER -> 0]
<1>1. Split(roots) /\ Warn(calls) /\ now' = now
  BY DEF InspectTree, Advance
<1>2. "split" \in Kinds /\ calls["split"] = IF SplitLasts(roots) THEN 1 ELSE 0
  BY DEF Kinds
<1> HIDE DEF roots, calls
<1>3. /\ warned'["split"].printed \in Nat
      /\ warned'["split"].printed > warned["split"].printed => SplitLasts(roots)
  BY <1>1, <1>2, PrintedOnce DEF SplitKnown
<1>4. SplitLasts(roots) => now - whole >= WARN_EVERY
  BY AuditAssumption DEF SplitKnown, SplitLasts
<1>5. /\ whole' \in Nat /\ whole' <= now'
      /\ split_since' # Unset => split_since' \in Nat /\ whole' <= split_since'
  BY <1>1 DEF SplitKnown, Split, Unset
<1> QED BY <1>1, <1>3, <1>4, <1>5 DEF SplitKnown

\* A warning about a split stands for a split that has lasted: no tf message
\* of the last WARN_EVERY ticks left the frames in one tree.
THEOREM SplitsLast == Spec => SplitOutlivesWindow
<1> DEFINE Lasting == warned'["split"].printed > warned["split"].printed
                        => now - whole >= WARN_EVERY
<1>1. Init => SplitKnown
  BY DEF Init, SplitKnown, Kinds
<1>2. SplitKnown /\ [Next]_vars => SplitKnown' /\ Lasting
  <2> SUFFICES ASSUME SplitKnown, [Next]_vars PROVE SplitKnown' /\ Lasting
    OBVIOUS
  <2>1. CASE InspectTree
    BY <2>1, SplitStep
  <2>2. CASE InspectStamp
    <3>1. UNCHANGED <<now, whole, split_since>>
      BY <2>2 DEF InspectStamp, Advance, tree
    <3>2. warned' = warned \/ \E calls : Warn(calls) /\ calls["split"] = 0
      <4>1. CASE Trusted(Upcoming)
        <5> DEFINE calls == [k \in Kinds |->
                        CASE k = "ahead" /\ AheadBy(Upcoming) > Tolerance -> 1
                          [] k = "backwards" /\ Backstep(Upcoming) > 0 -> 1
                          [] OTHER -> 0]
        <5>1. Warn(calls)
          BY <2>2, <4>1 DEF InspectStamp
        <5>2. calls["split"] = 0
          BY DEF Kinds
        <5> HIDE DEF calls
        <5> QED BY <5>1, <5>2
      <4>2. CASE ~Trusted(Upcoming)
        BY <2>2, <4>2 DEF InspectStamp
      <4> QED BY <4>1, <4>2
    <3>3. /\ warned'["split"].printed \in Nat
          /\ ~(warned'["split"].printed > warned["split"].printed)
      <4>1. CASE warned' = warned
        BY <4>1 DEF SplitKnown
      <4>2. CASE \E calls : Warn(calls) /\ calls["split"] = 0
        BY <4>2, PrintedOnce DEF SplitKnown, Kinds
      <4> QED BY <3>2, <4>1, <4>2
    <3> QED BY <3>1, <3>3 DEF SplitKnown
  <2>3. CASE DropTf \/ NextPass \/ UNCHANGED vars
    <3>1. UNCHANGED <<now, whole, split_since, warned>>
      BY <2>3 DEF DropTf, Advance, NextPass, vars, tree
    <3> QED BY <3>1 DEF SplitKnown
  <2>4. CASE Tick
    <3>1. UNCHANGED <<whole, split_since, warned>> /\ now' = now + 1
      BY <2>4 DEF Tick, tree
    <3> QED BY <3>1 DEF SplitKnown
  <2> QED BY <2>1, <2>2, <2>3, <2>4 DEF Next
<1>3. [][Lasting]_vars <=> SplitOutlivesWindow
  BY DEF SplitOutlivesWindow
<1> QED BY <1>1, <1>2, <1>3, PTL DEF Spec

-----------------------------------------------------------------------------
(* Stamps that go back *)

StreamType == [previous : Nat \cup {Unset}, ahead : Nat, worst_ahead : Nat,
               backwards : Nat, worst_backstep : Nat]

Typed ==
    /\ recording \in Seq(Stamped \cup Tf)
    /\ pos \in 0..Len(recording)
    /\ passes \in Nat \ {0}
    /\ stamps \in [Streams -> StreamType]

Last(J, l) == l \in J /\ \A h \in J : h <= l

\* What is kept of a stream tells all that its trustworthy stamps J amount to.
Charged(s, J) ==
    /\ J = {} => stamps[s].previous = Unset
    /\ J # {} => \E l \in J : Last(J, l) /\ stamps[s].previous = Message(l).stamp
    /\ IsFiniteSet(Inversions(J))
    /\ stamps[s].backwards = Cardinality(Inversions(J))
    /\ \A p \in Inversions(J) : StepBack(p) <= stamps[s].worst_backstep
    /\ \/ stamps[s].worst_backstep = 0
       \/ \E p \in Inversions(J) : stamps[s].worst_backstep = StepBack(p)

AInv == Typed /\ \A s \in Streams : Charged(s, Trustworthy(s, Replayed))

\* A stamp that arrives is adjacent to the last one before it and to no other.
LEMMA AdjacentGrown ==
    ASSUME NEW n \in Nat, NEW J \in SUBSET (1..n)
    PROVE  /\ Adjacent({n + 1}) = {}
           /\ Adjacent(J) \subseteq (1..n) \X (1..n)
           /\ \A l \in J : Last(J, l) =>
                 Adjacent(J \cup {n + 1}) = Adjacent(J) \cup {<<l, n + 1>>}
<1>1. Adjacent({n + 1}) = {} /\ Adjacent(J) \subseteq (1..n) \X (1..n)
  <2>1. ASSUME NEW p \in Adjacent({n + 1}) PROVE FALSE
    <3>1. p[1] = n + 1 /\ p[2] = n + 1 /\ p[1] < p[2]
      BY <2>1 DEF Adjacent
    <3> QED BY <3>1
  <2>2. Adjacent(J) \subseteq (1..n) \X (1..n)
    BY DEF Adjacent
  <2> QED BY <2>1, <2>2
<1>2. ASSUME NEW l \in J, Last(J, l)
      PROVE  Adjacent(J \cup {n + 1}) = Adjacent(J) \cup {<<l, n + 1>>}
  <2> DEFINE K == J \cup {n + 1}
  <2>0. \A h \in K : h \in 1..n + 1
    OBVIOUS
  <2>1. ASSUME NEW p \in Adjacent(K) PROVE p \in Adjacent(J) \cup {<<l, n + 1>>}
    <3>1. /\ p \in K \X K /\ p = <<p[1], p[2]>> /\ p[1] < p[2]
          /\ \A h \in K : h <= p[1] \/ p[2] <= h
      BY <2>1 DEF Adjacent
    <3>2. p[1] \in J /\ p[1] \in 1..n
      <4>1. p[1] \in 1..n + 1 /\ p[2] \in 1..n + 1
        BY <2>0, <3>1
      <4> QED BY <3>1, <4>1
    <3>3. CASE p[2] \in J
      BY <3>1, <3>2, <3>3 DEF Adjacent
    <3>4. CASE p[2] = n + 1
      <4>1. l <= p[1] \/ n + 1 <= l
        BY <3>1, <3>4
      <4>2. p[1] <= l
        BY <1>2, <3>2 DEF Last
      <4>3. p[1] = l
        <5>1. l \in 1..n
          OBVIOUS
        <5> QED BY <3>2, <4>1, <4>2, <5>1
      <4> QED BY <3>1, <3>4, <4>3
    <3> QED BY <3>1, <3>3, <3>4
  <2>2. ASSUME NEW p \in Adjacent(J) PROVE p \in Adjacent(K)
    <3>1. /\ p \in J \X J /\ p[1] < p[2] /\ p[2] \in 1..n
          /\ \A h \in J : h <= p[1] \/ p[2] <= h
      BY <2>2 DEF Adjacent
    <3>2. \A h \in K : h <= p[1] \/ p[2] <= h
      BY <3>1
    <3> QED BY <3>1, <3>2 DEF Adjacent
  <2>3. <<l, n + 1>> \in Adjacent(K)
    BY <1>2 DEF Adjacent, Last
  <2> QED BY <2>1, <2>2, <2>3
<1> QED BY <1>1, <1>2

LEMMA Remainder ==
    ASSUME NEW l \in Nat \ {0}, NEW q \in Nat, NEW r \in 0..l - 1
    PROVE  (q * l + r) % l = r
<1>1. PICK x \in Int : x = q * l + r
  OBVIOUS
<1>2. PICK d \in Int : d = x \div l
  BY <1>1
<1>3. PICK m \in Int : m = x % l
  BY <1>1
<1>4. x = l * d + m /\ 0 <= m /\ m < l
  BY <1>1, <1>2, <1>3
<1>5. PICK k \in Int : k = q - d
  OBVIOUS
<1>6. l * k = m - r
  BY <1>1, <1>4, <1>5
<1>7. (k >= 1 => l * k >= l) /\ (k <= -1 => l * k <= -l)
  OBVIOUS
<1>8. k = 0
  BY <1>4, <1>6, <1>7
<1> QED BY <1>1, <1>3, <1>6, <1>8

\* The next message to handle comes after those replayed in all passes.
LEMMA MessageNext ==
    ASSUME Typed
    PROVE  /\ Replayed \in Nat
           /\ pos < Len(recording) => Message(Replayed + 1) = Upcoming
<1>1. PICK l \in Nat : l = Len(recording)
  BY DEF Typed
<1>2. PICK q \in Nat : q = passes - 1
  BY DEF Typed
<1>3. pos \in Nat /\ Replayed = q * l + pos /\ q * l + pos \in Nat
  BY <1>1, <1>2 DEF Typed, Replayed
<1>4. ASSUME pos < l PROVE Message(Replayed + 1) = Upcoming
  <2>1. (q * l + pos) % l = pos
    BY <1>3, <1>4, Remainder
  <2>2. (Replayed + 1) - 1 = q * l + pos
    BY <1>3
  <2> QED BY <1>1, <2>1, <2>2 DEF Message, Upcoming
<1> QED BY <1>1, <1>3, <1>4

LEMMA TrustworthyGrown ==
    ASSUME Typed, pos < Len(recording), NEW s \in Streams
    PROVE  /\ Trustworthy(s, Replayed) \subseteq 1..Replayed
           /\ Trustworthy(s, Replayed + 1) =
                 IF /\ Upcoming \in Stamped /\ Upcoming.stream = s /\ Upcoming.ours
                 THEN Trustworthy(s, Replayed) \cup {Replayed + 1} ELSE Trustworthy(s, Replayed)
<1> HIDE DEF Stamped
<1>1. PICK n \in Nat : n = Replayed
  BY MessageNext
<1>2. 1..n + 1 = 1..n \cup {n + 1} /\ Message(n + 1) = Upcoming
  BY <1>1, MessageNext
<1>3. /\ Trustworthy(s, n) \subseteq 1..n
      /\ Trustworthy(s, n + 1) =
            IF /\ Upcoming \in Stamped /\ Upcoming.stream = s /\ Upcoming.ours
            THEN Trustworthy(s, n) \cup {n + 1} ELSE Trustworthy(s, n)
  BY <1>2 DEF Trustworthy
<1> QED BY <1>1, <1>3

LEMMA TypedStep == Typed /\ [Next]_vars => Typed'
<1> SUFFICES ASSUME Typed, [Next]_vars PROVE Typed'
  OBVIOUS
<1>1. recording' = recording
  BY DEF Next, InspectStamp, InspectTree, DropTf, NextPass, Tick, Advance, vars
<1>2. pos' \in 0..Len(recording)
  BY DEF Typed, Next, InspectStamp, InspectTree, DropTf, NextPass, Tick, Advance, vars
<1>3. passes' \in Nat \ {0}
  BY DEF Typed, Next, InspectStamp, InspectTree, DropTf, NextPass, Tick, Advance, vars
<1>4. stamps' \in [Streams -> StreamType]
  <2>1. CASE InspectStamp /\ Trusted(Upcoming)
    <3>1. /\ pos < Len(recording) /\ Upcoming \in Stamped
          /\ stamps' = [stamps EXCEPT ![Upcoming.stream] = Measured(@, Upcoming)]
      <4> HIDE DEF Stamped
      <4> QED BY <2>1 DEF InspectStamp, Advance
    <3> DEFINE m == Upcoming
               old == stamps[m.stream]
    <3>2. m.stream \in Streams /\ m.ts \in Nat /\ m.stamp \in Nat /\ old \in StreamType
      BY <3>1, StampedFields DEF Typed
    <3>3. AheadBy(m) \in Int /\ Backstep(m) \in Nat
      BY <3>2 DEF AheadBy, Backstep, StreamType, Unset
    <3> HIDE DEF m
    <3>4. /\ WorstAhead(old.worst_ahead, m) \in Nat
          /\ Larger(old.worst_backstep, Backstep(m)) \in Nat
      BY <3>2, <3>3 DEF WorstAhead, Larger, StreamType
    <3>5. Measured(old, m) \in StreamType
      BY <3>2, <3>4 DEF Measured, StreamType
    <3> QED BY <3>1, <3>2, <3>5 DEF Typed, m
  <2>2. CASE ~(InspectStamp /\ Trusted(Upcoming))
    <3>1. stamps' = stamps
      BY <2>2 DEF Next, InspectStamp, InspectTree, DropTf, NextPass, Tick, vars
    <3> QED BY <3>1 DEF Typed
  <2> QED BY <2>1, <2>2
<1> QED BY <1>1, <1>2, <1>3, <1>4 DEF Typed

\* A trusted stamp is charged to its stream as what it is.
LEMMA ChargedStep ==
    ASSUME Typed, InspectStamp, Trusted(Upcoming),
           NEW s \in Streams, s = Upcoming.stream,
           NEW n, n = Replayed, NEW J \in SUBSET (1..n), Charged(s, J),
           \A i \in J : Message(i).stamp \in Nat
    PROVE  Charged(s, J \cup {n + 1})'
<1> DEFINE m == Upcoming
           old == stamps[s]
           K == J \cup {n + 1}
<1>1. /\ m \in Stamped /\ m = Message(n + 1) /\ n \in Nat
      /\ stamps' = [stamps EXCEPT ![s] = Measured(@, m)] /\ recording' = recording
  <2> HIDE DEF Stamped
  <2>1. pos < Len(recording)
    BY DEF InspectStamp, Advance
  <2> QED BY <2>1, MessageNext DEF InspectStamp, Advance
<1>m. \A i : Message(i)' = Message(i)
  BY <1>1 DEF Message
<1>2. old \in StreamType /\ m.stamp \in Nat
  BY <1>1, StampedFields DEF Typed
<1>3. /\ stamps'[s].previous = m.stamp
      /\ stamps'[s].backwards = old.backwards + (IF Backstep(m) > 0 THEN 1 ELSE 0)
      /\ stamps'[s].worst_backstep = Larger(old.worst_backstep, Backstep(m))
  BY <1>1 DEF Typed, Measured
<1>4. \A p : StepBack(p)' = StepBack(p)
  BY <1>m DEF StepBack
<1>5. Inversions(K)' = Inversions(K)
  <2>1. Adjacent(K)' = Adjacent(K)
    BY DEF Adjacent
  <2> QED BY <1>4, <2>1 DEF Inversions
<1>6. Last(K, n + 1)' /\ n + 1 \in K
  BY <1>1 DEF Last
<1> SUFFICES /\ IsFiniteSet(Inversions(K))
             /\ stamps'[s].backwards = Cardinality(Inversions(K))
             /\ \A p \in Inversions(K) : StepBack(p) <= stamps'[s].worst_backstep
             /\ \/ stamps'[s].worst_backstep = 0
                \/ \E p \in Inversions(K) : stamps'[s].worst_backstep = StepBack(p)
  BY <1>1, <1>m, <1>3, <1>4, <1>5, <1>6 DEF Charged
<1>7. /\ IsFiniteSet(Inversions(J)) /\ old.backwards = Cardinality(Inversions(J))
      /\ \A p \in Inversions(J) : StepBack(p) <= old.worst_backstep
      /\ \/ old.worst_backstep = 0
         \/ \E p \in Inversions(J) : old.worst_backstep = StepBack(p)
      /\ old.worst_backstep \in Nat /\ old.backwards \in Nat
  BY <1>2 DEF Charged, StreamType
<1>8. CASE J = {}
  <2>1. Backstep(m) = 0
    BY <1>8 DEF Charged, Backstep
  <2>2. Inversions(K) = Inversions(J)
    <3>1. Adjacent(K) = {} /\ Adjacent(J) = {}
      BY <1>1, <1>8, AdjacentGrown DEF Adjacent
    <3> QED BY <3>1 DEF Inversions
  <2>3. Larger(old.worst_backstep, 0) = old.worst_backstep
    BY <1>7 DEF Larger
  <2>4. stamps'[s].backwards = old.backwards
    BY <1>3, <1>7, <2>1
  <2> QED BY <1>3, <1>7, <2>1, <2>2, <2>3, <2>4
<1>9. CASE J # {}
  <2>1. PICK l \in J : Last(J, l) /\ old.previous = Message(l).stamp
    BY <1>9 DEF Charged, Last
  <2> DEFINE q == <<l, n + 1>>
             d == StepBack(q)
  <2>2. Adjacent(K) = Adjacent(J) \cup {q} /\ q \notin Adjacent(J)
    <3>1. Adjacent(J) \subseteq (1..n) \X (1..n)
      BY <1>1, AdjacentGrown
    <3>2. q \notin (1..n) \X (1..n)
      BY <1>1
    <3>3. Adjacent(K) = Adjacent(J) \cup {q}
      BY <1>1, <2>1, AdjacentGrown
    <3> QED BY <3>1, <3>2, <3>3
  <2>3. old.previous # Unset => d = old.previous - m.stamp
    BY <1>1, <2>1 DEF StepBack
  <2>4. old.previous \in Nat \cup {Unset}
    BY <1>2 DEF StreamType
  <2>5. old.previous \in Nat /\ d = old.previous - m.stamp /\ d \in Int
    <3>1. old.previous # Unset
      <4>1. old.previous \in Nat
        BY <2>1
      <4> QED BY <4>1 DEF Unset
    <3> QED BY <1>2, <2>3, <2>4, <3>1
  <2>6. Backstep(m) = IF d > 0 THEN d ELSE 0
    BY <1>2, <2>5 DEF Backstep, Unset
  <2> HIDE DEF d, q
  <2>7. CASE d > 0
    <3>1. Inversions(K) = Inversions(J) \cup {q} /\ q \notin Inversions(J)
      BY <2>2, <2>7 DEF Inversions, d
    <3>2. IsFiniteSet(Inversions(K)) /\ Cardinality(Inversions(K)) = old.backwards + 1
      <4> DEFINE S == Inversions(J)
      <4>1. IsFiniteSet(S) /\ q \notin S
        BY <1>7, <3>1
      <4> HIDE DEF S
      <4>2. IsFiniteSet(S \cup {q}) /\ Cardinality(S \cup {q}) = Cardinality(S) + 1
        BY <4>1, FS_AddElement
      <4> QED BY <1>7, <3>1, <4>2 DEF S
    <3>3. /\ Larger(old.worst_backstep, d) \in {old.worst_backstep, d}
          /\ old.worst_backstep <= Larger(old.worst_backstep, d)
          /\ d <= Larger(old.worst_backstep, d)
      BY <1>7, <2>5, <2>7, LargerIs
    <3>4. \A p \in Inversions(J) : StepBack(p) <= Larger(old.worst_backstep, d)
      <4> TAKE p \in Inversions(J)
      <4>1. p[1] \in J /\ p[2] \in J
        BY DEF Inversions, Adjacent
      <4>2. StepBack(p) \in Int /\ StepBack(p) <= old.worst_backstep
        <5>1. Message(p[1]).stamp \in Nat /\ Message(p[2]).stamp \in Nat
          BY <4>1
        <5>2. StepBack(p) \in Int
          BY <5>1 DEF StepBack
        <5> QED BY <1>7, <5>2
      <4>3. Larger(old.worst_backstep, d) \in Int
        BY <1>7, <2>5, <3>3
      <4> QED BY <1>7, <3>3, <4>2, <4>3
    <3>5. /\ stamps'[s].backwards = old.backwards + 1
          /\ stamps'[s].worst_backstep = Larger(old.worst_backstep, d)
      BY <1>3, <2>6, <2>7
    <3>6. \A p \in Inversions(K) : StepBack(p) <= Larger(old.worst_backstep, d)
      BY <3>1, <3>3, <3>4 DEF d
    <3>7. \/ Larger(old.worst_backstep, d) = 0
          \/ \E p \in Inversions(K) : Larger(old.worst_backstep, d) = StepBack(p)
      <4>1. CASE Larger(old.worst_backstep, d) = d
        BY <3>1, <4>1 DEF d
      <4>2. CASE Larger(old.worst_backstep, d) = old.worst_backstep
        BY <1>7, <3>1, <4>2
      <4> QED BY <3>3, <4>1, <4>2
    <3>8. stamps'[s].backwards = Cardinality(Inversions(K))
      BY <3>2, <3>5
    <3>9. \A p \in Inversions(K) : StepBack(p) <= stamps'[s].worst_backstep
      BY <3>5, <3>6
    <3>10. \/ stamps'[s].worst_backstep = 0
           \/ \E p \in Inversions(K) : stamps'[s].worst_backstep = StepBack(p)
      BY <3>5, <3>7
    <3> QED BY <3>2, <3>8, <3>9, <3>10
  <2>8. CASE ~(d > 0)
    <3>1. Inversions(K) = Inversions(J)
      BY <2>2, <2>8 DEF Inversions, d
    <3>2. Larger(old.worst_backstep, 0) = old.worst_backstep
      BY <1>7 DEF Larger
    <3>3. Backstep(m) = 0
      BY <2>6, <2>8
    <3>4. /\ stamps'[s].backwards = old.backwards
          /\ stamps'[s].worst_backstep = old.worst_backstep
      BY <1>3, <1>7, <3>2, <3>3
    <3> QED BY <1>7, <3>1, <3>4
  <2> QED BY <2>7, <2>8
<1> QED BY <1>8, <1>9

LEMMA TrustworthyStamps ==
    ASSUME NEW s \in Streams, NEW n, NEW i \in Trustworthy(s, n)
    PROVE  Message(i).stamp \in Nat
<1>1. Message(i) \in Stamped
  BY DEF Trustworthy
<1> QED BY <1>1, StampedFields

LEMMA ChargedKept ==
    ASSUME NEW s \in Streams, NEW J, Charged(s, J), recording' = recording,
           stamps'[s] = stamps[s]
    PROVE  Charged(s, J)'
<1>m. \A i : Message(i)' = Message(i)
  BY DEF Message
<1>1. \A p : StepBack(p)' = StepBack(p)
  BY <1>m DEF StepBack
<1>2. Inversions(J)' = Inversions(J) /\ \A l : Last(J, l)' = Last(J, l)
  BY <1>1 DEF Inversions, Adjacent, Last
<1> QED BY <1>m, <1>1, <1>2 DEF Charged

LEMMA AuditStep == AInv /\ [Next]_vars => AInv'
<1> SUFFICES ASSUME AInv, [Next]_vars, NEW s \in Streams
             PROVE  Charged(s, Trustworthy(s, Replayed))'
  BY TypedStep DEF AInv
<1>0. Typed /\ recording' = recording
  BY DEF AInv, Next, InspectStamp, InspectTree, DropTf, NextPass, Tick, Advance, vars
<1>1. PICK n \in Nat : n = Replayed
  BY <1>0, MessageNext
<1>2. PICK J : J = Trustworthy(s, n)
  OBVIOUS
<1>3. Charged(s, J)
  BY <1>1, <1>2 DEF AInv
<1>4. \A k : Trustworthy(s, k)' = Trustworthy(s, k)
  <2>1. \A i : Message(i)' = Message(i)
    BY <1>0 DEF Message
  <2> QED BY <1>0, <2>1 DEF Trustworthy
<1>n. ASSUME pos' = pos + 1, passes' = passes PROVE Replayed' = n + 1
  BY <1>0, <1>1, <1>n DEF Typed, Replayed
<1>5. CASE InspectStamp /\ Trusted(Upcoming) /\ Upcoming.stream = s
  <2>1. /\ pos' = pos + 1 /\ passes' = passes /\ pos < Len(recording)
        /\ Upcoming \in Stamped
    <3> HIDE DEF Stamped
    <3> QED BY <1>5 DEF InspectStamp, Advance
  <2>2. J \in SUBSET (1..n) /\ \A i \in J : Message(i).stamp \in Nat
    BY <1>0, <1>1, <1>2, <2>1, TrustworthyGrown, TrustworthyStamps
  <2>3. Trustworthy(s, n + 1) = J \cup {n + 1}
    BY <1>0, <1>1, <1>2, <1>5, <2>1, TrustworthyGrown DEF Trusted
  <2>4. Trustworthy(s, Replayed)' = J \cup {n + 1}
    <3>1. Replayed' = n + 1
      BY <1>n, <2>1
    <3>2. Trustworthy(s, n + 1)' = J \cup {n + 1}
      BY <1>4, <2>3
    <3> QED BY <1>0, <3>1, <3>2 DEF Trustworthy, Message
  <2>5. Charged(s, J \cup {n + 1})'
    BY <1>0, <1>1, <1>3, <1>5, <2>1, <2>2, ChargedStep
  <2> QED BY <2>4, <2>5
<1>6. CASE ~(InspectStamp /\ Trusted(Upcoming) /\ Upcoming.stream = s)
  <2>1. stamps'[s] = stamps[s]
    <3>1. CASE InspectStamp /\ Trusted(Upcoming)
      BY <1>0, <1>6, <3>1 DEF InspectStamp, Typed
    <3>2. CASE ~(InspectStamp /\ Trusted(Upcoming))
      BY <3>2 DEF Next, InspectStamp, InspectTree, DropTf, NextPass, Tick, vars
    <3> QED BY <3>1, <3>2
  <2>2. Trustworthy(s, n)' = J
    BY <1>2, <1>4
  <2>3. CASE InspectStamp \/ InspectTree \/ DropTf
    <3>1. /\ pos' = pos + 1 /\ passes' = passes /\ pos < Len(recording)
          /\ ~(Upcoming \in Stamped /\ Upcoming.stream = s /\ Upcoming.ours)
      <4>1. pos' = pos + 1 /\ passes' = passes /\ pos < Len(recording)
        BY <2>3 DEF InspectStamp, InspectTree, DropTf, Advance
      <4>2. CASE InspectStamp
        BY <1>6, <4>1, <4>2 DEF Trusted
      <4>3. CASE InspectTree \/ DropTf
        <5>1. Upcoming \in Tf
          <6> HIDE DEF Tf
          <6> QED BY <4>3 DEF InspectTree, DropTf
        <5>2. Upcoming \notin Stamped
          BY <5>1, Disjoint
        <5> QED BY <4>1, <5>2
      <4> QED BY <2>3, <4>1, <4>2, <4>3
    <3>2. Replayed' = n + 1
      BY <1>n, <3>1
    <3>3. Trustworthy(s, n + 1) = J
      BY <1>0, <1>1, <1>2, <3>1, TrustworthyGrown
    <3>4. Trustworthy(s, n + 1)' = J
      BY <1>4, <3>3
    <3>5. Trustworthy(s, Replayed)' = J
      BY <1>0, <3>2, <3>4 DEF Trustworthy, Message
    <3>6. Charged(s, J)'
      BY <1>0, <1>3, <2>1, ChargedKept
    <3> QED BY <3>5, <3>6
  <2>4. CASE ~(InspectStamp \/ InspectTree \/ DropTf)
    <3>1. Replayed' = n
      <4>1. CASE NextPass
        <5>1. pos = Len(recording) /\ pos' = 0 /\ passes' = passes + 1
          BY <4>1 DEF NextPass
        <5>2. PICK l \in Nat : l = Len(recording)
          BY <1>0 DEF Typed
        <5>3. passes \in Nat /\ ((passes + 1) - 1) * l + 0 = (passes - 1) * l + l
          BY <1>0, <5>2 DEF Typed
        <5>4. Replayed = (passes - 1) * l + l /\ Replayed' = ((passes + 1) - 1) * l + 0
          BY <1>0, <5>1, <5>2 DEF Replayed
        <5> QED BY <1>1, <5>3, <5>4
      <4>2. CASE ~NextPass
        <5>1. pos' = pos /\ passes' = passes
          BY <2>4, <4>2 DEF Next, Tick, vars
        <5> QED BY <1>0, <1>1, <5>1 DEF Replayed
      <4> QED BY <4>1, <4>2
    <3>2. Trustworthy(s, Replayed)' = J
      BY <1>0, <2>2, <3>1 DEF Trustworthy, Message
    <3>3. Charged(s, J)'
      BY <1>0, <1>3, <2>1, ChargedKept
    <3> QED BY <3>2, <3>3
  <2> QED BY <2>3, <2>4
<1> QED BY <1>5, <1>6

\* Over any recording and any number of passes the backsteps counted against a
\* stream are its adjacent inversions, from pass to pass included, and the worst
\* is the largest of them.
THEOREM BackstepsAreExact == Spec => []BackstepsExact
<1>1. Init => AInv
  <2> SUFFICES ASSUME Init PROVE AInv
    OBVIOUS
  <2>1. Typed
    <3>1. recording \in Seq(Stamped \cup Tf)
      <4> HIDE DEF Stamped, Tf
      <4> QED BY AuditAssumption DEF Init
    <3>2. stamps \in [Streams -> StreamType]
      BY DEF Init, StreamType
    <3>3. pos \in 0..Len(recording) /\ passes \in Nat \ {0}
      <4> HIDE DEF Stamped, Tf
      <4> QED BY <3>1 DEF Init
    <3> QED BY <3>1, <3>2, <3>3 DEF Typed
  <2>2. ASSUME NEW s \in Streams PROVE Charged(s, Trustworthy(s, Replayed))
    <3>1. Trustworthy(s, Replayed) = {}
      <4>1. PICK l \in Nat : l = Len(recording)
        BY <2>1 DEF Typed
      <4>2. Replayed = 0
        BY <4>1 DEF Init, Replayed
      <4> QED BY <4>2 DEF Trustworthy
    <3>2. Inversions({}) = {}
      BY DEF Inversions, Adjacent
    <3>3. /\ stamps[s].previous = Unset /\ stamps[s].backwards = 0
          /\ stamps[s].worst_backstep = 0
      BY DEF Init
    <3> QED BY <3>1, <3>2, <3>3, FS_EmptySet DEF Charged
  <2> QED BY <2>1, <2>2 DEF AInv
<1>2. AInv => BackstepsExact
  BY DEF AInv, Charged, BackstepsExact
<1> QED BY <1>1, <1>2, AuditStep, PTL DEF Spec

-----------------------------------------------------------------------------
(* Types *)

LEMMA EdgesOf ==
    ASSUME NEW m \in Tf, NEW e, e = m.edges
    PROVE  /\ e \in Seq(Edges) /\ Len(e) \in Nat
           /\ \A j \in 1..Len(e) : e[j] \in Edges /\ e[j][1] \in Frames /\ e[j][2] \in Frames
           /\ IsFiniteSet(1..Len(e))
           /\ Kept(e) \subseteq 1..Len(e)
<1>1. e \in Seq(Edges) /\ Len(e) \in Nat
  BY DEF Tf
<1>2. \A j \in 1..Len(e) : e[j] \in Edges
  BY <1>1
<1>3. \A x \in Edges : x[1] \in Frames /\ x[2] \in Frames
  BY DEF Edges
<1>4. IsFiniteSet(1..Len(e))
  <2>1. 1 \in Int /\ Len(e) \in Int
    BY <1>1
  <2> QED BY <2>1, FS_Interval
<1>5. Kept(e) \subseteq 1..Len(e)
  BY DEF Kept
<1> QED BY <1>1, <1>2, <1>3, <1>4, <1>5

LEMMA Finite ==
    /\ IsFiniteSet(Streams) /\ IsFiniteSet(Frames) /\ IsFiniteSet(Edges)
    /\ \A S \in SUBSET Frames : IsFiniteSet(S) /\ Cardinality(S) \in Nat
<1>1. IsFiniteSet(Streams) /\ IsFiniteSet(Frames)
  BY AuditAssumption
<1>2. IsFiniteSet(Edges)
  BY <1>1, FS_Product DEF Edges
<1>3. \A S \in SUBSET Frames : IsFiniteSet(S) /\ Cardinality(S) \in Nat
  BY <1>1, FS_Subset, FS_CardinalityType
<1> QED BY <1>1, <1>2, <1>3

\* Parents only ever gain.
LEMMA ParentsGrow ==
    ASSUME parents \in [Frames -> SUBSET Frames], NEW m \in Tf, NEW f \in Frames
    PROVE  /\ ParentsWith(m.edges) \in [Frames -> SUBSET Frames]
           /\ parents[f] \subseteq ParentsWith(m.edges)[f]
           /\ LET old == Larger(Cardinality(parents[f]), 1)
                  new == Larger(Cardinality(ParentsWith(m.edges)[f]), 1)
              IN  old \in Nat /\ new \in Nat /\ old >= 1 /\ new >= old
<1> DEFINE e == m.edges
<1>1. \A j \in Kept(e) : e[j][1] \in Frames
  BY EdgesOf
<1> HIDE DEF e
<1>2. ParentsWith(e) \in [Frames -> SUBSET Frames]
  BY <1>1 DEF ParentsWith
<1>3. parents[f] \subseteq ParentsWith(e)[f]
  BY DEF ParentsWith
<1> DEFINE c == Cardinality(parents[f])
           d == Cardinality(ParentsWith(e)[f])
<1>4. c \in Nat /\ d \in Nat /\ c <= d
  <2>1. parents[f] \in SUBSET Frames /\ ParentsWith(e)[f] \in SUBSET Frames
    BY <1>2
  <2>2. IsFiniteSet(ParentsWith(e)[f])
    BY <2>1, Finite
  <2>3. c <= d
    BY <1>3, <2>2, FS_Subset
  <2> QED BY <2>1, <2>3, Finite
<1> HIDE DEF c, d
<1>5. /\ Larger(c, 1) \in Nat /\ Larger(d, 1) \in Nat
      /\ Larger(c, 1) >= 1 /\ Larger(d, 1) >= Larger(c, 1)
  BY <1>4 DEF Larger
<1> QED BY <1>2, <1>3, <1>5 DEF c, d, e

LEMMA Summed == ASSUME NEW f PROVE SumFunction(f) = Sum(f, DOMAIN f)
BY DEF SumFunction, Sum

LEMMA DoubledType ==
    ASSUME parents \in [Frames -> SUBSET Frames], NEW m \in Tf
    PROVE  /\ Doubled(m.edges) \in Nat
           /\ Surplus(ParentsWith(m.edges)) = Surplus(parents) + Doubled(m.edges)
           /\ Surplus(parents) \in Int
<1> DEFINE e == m.edges
           old == [f \in Frames |-> Larger(Cardinality(parents[f]), 1) - 1]
           new == [f \in Frames |-> Larger(Cardinality(ParentsWith(e)[f]), 1) - 1]
           diff == [f \in Frames |-> Larger(Cardinality(ParentsWith(e)[f]), 1)
                                     - Larger(Cardinality(parents[f]), 1)]
<1>1. /\ Doubled(e) = Sum(diff, Frames) /\ Surplus(parents) = Sum(old, Frames)
      /\ Surplus(ParentsWith(e)) = Sum(new, Frames)
  BY Summed DEF Doubled, Surplus
<1>2. ASSUME NEW f \in Frames
      PROVE  diff[f] \in Nat /\ old[f] \in Int /\ new[f] = old[f] + diff[f]
  <2> DEFINE c == Larger(Cardinality(parents[f]), 1)
             d == Larger(Cardinality(ParentsWith(e)[f]), 1)
  <2>1. c \in Nat /\ d \in Nat /\ d >= c
    BY ParentsGrow
  <2>2. diff[f] = d - c /\ old[f] = c - 1 /\ new[f] = d - 1
    OBVIOUS
  <2> HIDE DEF c, d, diff, old, new
  <2> QED BY <2>1, <2>2
<1> HIDE DEF old, new, diff
<1>3. Sum(diff, Frames) \in Nat
  BY <1>2, Finite, SumType
<1>4. Sum(old, Frames) \in Int
  BY <1>2, Finite, SumType
<1>5. \A f \in Frames : old[f] \in Int /\ diff[f] \in Int /\ new[f] = old[f] + diff[f]
  BY <1>2
<1>6. Sum(new, Frames) = Sum(old, Frames) + Sum(diff, Frames)
  BY <1>5, Finite, SumPlus
<1> QED BY <1>1, <1>3, <1>4, <1>6

Throttles == [Kinds -> [last : 0..MaxTime \cup {Unset}, suppressed : Nat]]
Warned == [Kinds -> [printed : Nat, carried : Nat]]

\* What is told of a kind grows by the calls made for it, printed or not.
LEMMA ToldGrows ==
    ASSUME now \in 0..MaxTime, throttle \in Throttles, warned \in Warned,
           NEW calls \in [Kinds -> Nat], Warn(calls)
    PROVE  /\ throttle' \in Throttles /\ warned' \in Warned
           /\ \A k \in Kinds : Told(k) \in Nat /\ Told(k)' = Told(k) + calls[k]
<1>1. /\ throttle' = [k \in Kinds |-> Ready(throttle[k], calls[k])]
      /\ warned' = [k \in Kinds |-> Warnings(warned[k], throttle[k], calls[k])]
  BY DEF Warn
<1>2. ASSUME NEW k \in Kinds
      PROVE  /\ Ready(throttle[k], calls[k])
                    \in [last : 0..MaxTime \cup {Unset}, suppressed : Nat]
             /\ Warnings(warned[k], throttle[k], calls[k]) \in [printed : Nat, carried : Nat]
             /\ Told(k) \in Nat
             /\ Told(k)' = Told(k) + calls[k]
  <2> DEFINE t == throttle[k]  w == warned[k]  n == calls[k]
  <2>1. /\ t \in [last : 0..MaxTime \cup {Unset}, suppressed : Nat]
        /\ w \in [printed : Nat, carried : Nat] /\ n \in Nat
    BY DEF Throttles, Warned
  <2>2. throttle'[k] = Ready(t, n) /\ warned'[k] = Warnings(w, t, n)
    BY <1>1
  <2>3. /\ Told(k) = w.printed + w.carried + t.suppressed
        /\ Told(k)' = Warnings(w, t, n).printed + Warnings(w, t, n).carried
                      + Ready(t, n).suppressed
    BY <2>2 DEF Told
  <2> HIDE DEF t, w, n
  <2>4. CASE n = 0
    <3>1. Ready(t, n) = t /\ Warnings(w, t, n) = w
      BY <2>4 DEF Ready, Warnings
    <3> QED BY <2>1, <2>3, <2>4, <3>1 DEF t, w, n
  <2>5. CASE n # 0 /\ Quiet(t)
    <3>1. Ready(t, n) = [t EXCEPT !.suppressed = @ + n] /\ Warnings(w, t, n) = w
      BY <2>5 DEF Ready, Warnings
    <3>2. /\ Ready(t, n) \in [last : 0..MaxTime \cup {Unset}, suppressed : Nat]
          /\ Ready(t, n).suppressed = t.suppressed + n
      BY <2>1, <3>1
    <3>3. w.printed \in Nat /\ w.carried \in Nat /\ t.suppressed \in Nat
      BY <2>1
    <3> QED BY <2>1, <2>3, <3>1, <3>2, <3>3 DEF t, w, n
  <2>6. CASE n # 0 /\ ~Quiet(t)
    <3>1. /\ Ready(t, n) = [last |-> now, suppressed |-> n - 1]
          /\ Warnings(w, t, n) = [printed |-> w.printed + 1,
                                  carried |-> w.carried + t.suppressed]
      BY <2>6 DEF Ready, Warnings
    <3>2. w.printed \in Nat /\ w.carried \in Nat /\ t.suppressed \in Nat /\ n - 1 \in Nat
      BY <2>1, <2>6
    <3>3. /\ Ready(t, n) \in [last : 0..MaxTime \cup {Unset}, suppressed : Nat]
          /\ Ready(t, n).suppressed = n - 1
          /\ Warnings(w, t, n) \in [printed : Nat, carried : Nat]
          /\ Warnings(w, t, n).printed = w.printed + 1
          /\ Warnings(w, t, n).carried = w.carried + t.suppressed
      BY <3>1, <3>2
    <3> QED BY <2>1, <2>3, <3>2, <3>3 DEF t, w, n
  <2> QED BY <2>4, <2>5, <2>6
<1> QED BY <1>1, <1>2 DEF Throttles, Warned

\* How often a filtered edge comes up in a message.
LEMMA CountType ==
    ASSUME NEW m \in Tf, NEW e \in Edges
    PROVE  CountIn(m.edges, e) \in Nat
<1>1. IsFiniteSet(1..Len(m.edges))
  BY EdgesOf
<1> QED BY <1>1, FS_Subset, FS_CardinalityType DEF CountIn

LEMMA DroppedType ==
    ASSUME dropped \in [Edges -> Nat], NEW m \in Tf
    PROVE  DroppedWith(m.edges) \in [Edges -> Nat]
<1>1. \A e \in Edges : CountIn(m.edges, e) \in Nat
  BY CountType
<1> QED BY <1>1 DEF DroppedWith

LEMMA StreamTypes ==
    StreamType \subseteq StreamStamps
BY DEF StreamType, StreamStamps, Unset

\* The defects a stamp can show.
StampCalls(m) ==
    [k \in Kinds |-> CASE k = "ahead" /\ AheadBy(m) > Tolerance -> 1
                       [] k = "backwards" /\ Backstep(m) > 0 -> 1
                       [] OTHER -> 0]

\* The defects a tf message can show.
TreeCalls(m) ==
    [k \in Kinds |-> CASE k = "doubled" -> Doubled(m.edges)
                       [] k = "split" /\ SplitLasts(Roots(ParentsWith(m.edges))) -> 1
                       [] OTHER -> 0]

LEMMA CallsTyped ==
    /\ \A m : StampCalls(m) \in [Kinds -> Nat]
    /\ \A m : /\ StampCalls(m)["ahead"] = IF AheadBy(m) > Tolerance THEN 1 ELSE 0
              /\ StampCalls(m)["backwards"] = IF Backstep(m) > 0 THEN 1 ELSE 0
              /\ StampCalls(m)["doubled"] = 0
    /\ parents \in [Frames -> SUBSET Frames] =>
          \A m \in Tf : TreeCalls(m) \in [Kinds -> Nat]
    /\ \A m : /\ TreeCalls(m)["ahead"] = 0 /\ TreeCalls(m)["backwards"] = 0
              /\ TreeCalls(m)["doubled"] = Doubled(m.edges)
<1>1. \A m : /\ StampCalls(m) \in [Kinds -> Nat]
             /\ StampCalls(m)["ahead"] = IF AheadBy(m) > Tolerance THEN 1 ELSE 0
             /\ StampCalls(m)["backwards"] = IF Backstep(m) > 0 THEN 1 ELSE 0
             /\ StampCalls(m)["doubled"] = 0
  BY DEF StampCalls, Kinds
<1>2. ASSUME parents \in [Frames -> SUBSET Frames], NEW m \in Tf
      PROVE  TreeCalls(m) \in [Kinds -> Nat]
  <2>1. Doubled(m.edges) \in Nat
    BY <1>2, DoubledType
  <2> QED BY <2>1 DEF TreeCalls, Kinds
<1>3. \A m : /\ TreeCalls(m)["ahead"] = 0 /\ TreeCalls(m)["backwards"] = 0
             /\ TreeCalls(m)["doubled"] = Doubled(m.edges)
  BY DEF TreeCalls, Kinds
<1> QED BY <1>1, <1>2, <1>3

LEMMA WarnsOf ==
    /\ InspectStamp => /\ Upcoming \in Stamped
                       /\ Trusted(Upcoming) => Warn(StampCalls(Upcoming))
                       /\ ~Trusted(Upcoming) => UNCHANGED <<stamps, throttle, warned>>
    /\ InspectTree => Upcoming \in Tf /\ Warn(TreeCalls(Upcoming))
<1> HIDE DEF Stamped, Tf
<1> QED BY DEF InspectStamp, InspectTree, StampCalls, TreeCalls

LEMMA InitTypeOK == Init => TypeOK /\ Typed
<1> SUFFICES ASSUME Init PROVE TypeOK /\ Typed
  OBVIOUS
<1>1. PICK i \in Inputs : recording = i.messages /\ rules = i.rules
  BY DEF Init
<1>2. recording \in Seq(Stamped \cup Tf) /\ rules \in SUBSET Rule
  <2> HIDE DEF Stamped, Tf
  <2> QED BY <1>1, AuditAssumption
<1>3. Len(recording) \in Nat
  <2> HIDE DEF Stamped, Tf
  <2> QED BY <1>2
<1>4. /\ stamps \in [Streams -> StreamType] /\ stamps \in [Streams -> StreamStamps]
      /\ throttle \in Throttles /\ warned \in Warned
  BY DEF Init, StreamType, StreamStamps, Unset, Throttles, Warned
<1>5. /\ parents \in [Frames -> SUBSET Frames]
      /\ split_since \in 0..MaxTime \cup {Unset}
      /\ dropped \in [Edges -> Nat] /\ emptied \in Nat
      /\ published \in [messages : Nat, transforms : Nat]
  BY DEF Init
<1>6. /\ pos \in 0..Len(recording) /\ passes \in 1..MaxPasses /\ passes \in Nat \ {0}
      /\ now \in 0..MaxTime /\ whole \in 0..MaxTime
  BY <1>3, AuditAssumption DEF Init
<1> QED BY <1>2, <1>4, <1>5, <1>6 DEF TypeOK, Typed, Throttles, Warned

LEMMA TypeStep == TypeOK /\ Typed /\ [Next]_vars => TypeOK' /\ Typed'
<1> SUFFICES ASSUME TypeOK, Typed, [Next]_vars PROVE TypeOK'
  BY TypedStep
<1>typ. /\ now \in 0..MaxTime /\ throttle \in Throttles /\ warned \in Warned
        /\ parents \in [Frames -> SUBSET Frames] /\ split_since \in 0..MaxTime \cup {Unset}
        /\ dropped \in [Edges -> Nat] /\ emptied \in Nat /\ whole \in 0..MaxTime
        /\ published \in [messages : Nat, transforms : Nat]
        /\ passes \in 1..MaxPasses /\ rules \in SUBSET Rule
        /\ recording \in Seq(Stamped \cup Tf)
  <2> HIDE DEF Stamped, Tf
  <2> QED BY DEF TypeOK, Throttles, Warned
<1>1. /\ recording' \in Seq(Stamped \cup Tf) /\ pos' \in 0..Len(recording')
      /\ stamps' \in [Streams -> StreamStamps]
  <2>1. Typed'
    BY TypedStep
  <2> HIDE DEF Stamped, Tf
  <2> QED BY <2>1, StreamTypes DEF Typed
<1>2. rules' \in SUBSET Rule /\ passes' \in 1..MaxPasses /\ now' \in 0..MaxTime
  <2>1. rules' = rules
    BY DEF Next, InspectStamp, InspectTree, DropTf, NextPass, Tick, Advance, vars
  <2>2. passes' = passes \/ (passes < MaxPasses /\ passes' = passes + 1)
    BY DEF Next, InspectStamp, InspectTree, DropTf, NextPass, Tick, Advance, vars
  <2>3. now' = now \/ (now < MaxTime /\ now' = now + 1)
    BY DEF Next, InspectStamp, InspectTree, DropTf, NextPass, Tick, Advance, vars
  <2>4. now' \in 0..MaxTime
    BY <1>typ, <2>3, AuditAssumption
  <2>5. passes' \in 1..MaxPasses
    BY <1>typ, <2>2, AuditAssumption
  <2> QED BY <1>typ, <2>1, <2>4, <2>5
<1>3. throttle' \in Throttles /\ warned' \in Warned
  <2>1. CASE InspectStamp /\ Trusted(Upcoming)
    BY <1>typ, <2>1, WarnsOf, CallsTyped, ToldGrows
  <2>2. CASE InspectTree
    BY <1>typ, <2>2, WarnsOf, CallsTyped, ToldGrows
  <2>3. CASE ~InspectTree /\ ~(InspectStamp /\ Trusted(Upcoming))
    <3>1. UNCHANGED <<throttle, warned>>
      BY <2>3 DEF Next, InspectStamp, DropTf, NextPass, Tick, vars
    <3> QED BY <1>typ, <3>1
  <2> QED BY <2>1, <2>2, <2>3
<1>4. CASE InspectTree
  <2> DEFINE m == Upcoming
  <2>1. m \in Tf
    BY <1>4, WarnsOf
  <2>2. /\ parents' = ParentsWith(m.edges) /\ Split(Roots(ParentsWith(m.edges)))
        /\ dropped' = DroppedWith(m.edges) /\ emptied' = emptied
        /\ published' = [messages |-> published.messages + 1,
                         transforms |-> published.transforms + Cardinality(Kept(m.edges))]
    BY <1>4 DEF InspectTree
  <2> HIDE DEF m
  <2>3. parents' \in [Frames -> SUBSET Frames]
    <3>1. CASE Frames = {}
      BY <2>2, <3>1 DEF ParentsWith
    <3>2. CASE Frames # {}
      BY <1>typ, <2>1, <2>2, <3>2, ParentsGrow
    <3> QED BY <3>1, <3>2
  <2>4. split_since' \in 0..MaxTime \cup {Unset} /\ whole' \in 0..MaxTime
    BY <1>typ, <2>2 DEF Split
  <2>5. Cardinality(Kept(m.edges)) \in Nat
    <3>1. IsFiniteSet(1..Len(m.edges)) /\ Kept(m.edges) \in SUBSET (1..Len(m.edges))
      BY <2>1, EdgesOf
    <3> QED BY <3>1, FS_Subset, FS_CardinalityType
  <2>6. published' \in [messages : Nat, transforms : Nat]
    BY <1>typ, <2>2, <2>5
  <2>7. dropped' \in [Edges -> Nat]
    BY <1>typ, <2>1, <2>2, DroppedType
  <2>8. emptied' \in Nat
    BY <1>typ, <2>2
  <2> QED BY <1>1, <1>2, <1>3, <2>3, <2>4, <2>6, <2>7, <2>8 DEF TypeOK, Throttles, Warned
<1>5. CASE DropTf
  <2> DEFINE m == Upcoming
  <2>1. m \in Tf
    <3> HIDE DEF Tf
    <3> QED BY <1>5 DEF DropTf
  <2>2. /\ dropped' = DroppedWith(m.edges) /\ emptied' = emptied + 1
        /\ UNCHANGED <<parents, split_since, whole, published>>
    BY <1>5 DEF DropTf, tree
  <2> HIDE DEF m
  <2>3. dropped' \in [Edges -> Nat] /\ emptied' \in Nat
    BY <1>typ, <2>1, <2>2, DroppedType
  <2> QED BY <1>typ, <1>1, <1>2, <1>3, <2>2, <2>3 DEF TypeOK, Throttles, Warned
<1>6. CASE ~InspectTree /\ ~DropTf
  <2>1. UNCHANGED <<parents, split_since, whole, dropped, emptied, published>>
    BY <1>6 DEF Next, InspectStamp, NextPass, Tick, vars, tree, filter
  <2> QED BY <1>typ, <1>1, <1>2, <1>3, <2>1 DEF TypeOK, Throttles, Warned
<1> QED BY <1>4, <1>5, <1>6

LEMMA Typing == Spec => [](TypeOK /\ Typed)
BY InitTypeOK, TypeStep, PTL DEF Spec

\* The auditor and the filter keep their types, whatever is replayed.
THEOREM TypeCorrect == Spec => []TypeOK
<1>1. TypeOK /\ Typed => TypeOK
  OBVIOUS
<1> QED BY <1>1, Typing, PTL

-----------------------------------------------------------------------------
(* Warnings and totals *)

\* A trusted stamp adds what it is warned about to its stream's counts.
LEMMA TotalsGrow ==
    ASSUME Typed, InspectStamp, Trusted(Upcoming)
    PROVE  /\ Total("ahead")' = Total("ahead") + StampCalls(Upcoming)["ahead"]
           /\ Total("backwards")' = Total("backwards") + StampCalls(Upcoming)["backwards"]
           /\ Total("ahead") \in Int /\ Total("backwards") \in Int
<1> DEFINE m == Upcoming  x == m.stream  old == stamps[x]
<1>1. /\ m \in Stamped /\ stamps \in [Streams -> StreamType]
      /\ stamps' = [stamps EXCEPT ![x] = Measured(@, m)]
  <2> HIDE DEF Stamped
  <2> QED BY DEF InspectStamp, Typed
<1>2. x \in Streams /\ old \in StreamType
  BY <1>1, StampedFields
<1>3. \A s \in Streams : stamps'[s] = IF s = x THEN Measured(old, m) ELSE stamps[s]
  BY <1>1, <1>2
<1>4. /\ Measured(old, m).ahead = old.ahead + StampCalls(m)["ahead"]
      /\ Measured(old, m).backwards = old.backwards + StampCalls(m)["backwards"]
      /\ StampCalls(m)["ahead"] \in Nat /\ StampCalls(m)["backwards"] \in Nat
  BY CallsTyped DEF Measured
<1>5. \A s \in Streams : stamps[s].ahead \in Nat /\ stamps[s].backwards \in Nat
  BY <1>1 DEF StreamType
<1> HIDE DEF m, x, old
<1>6. ASSUME NEW F \in {"ahead", "backwards"}
      PROVE  Total(F)' = Total(F) + StampCalls(m)[F] /\ Total(F) \in Int
  <2> DEFINE f == [s \in Streams |-> stamps[s][F]]
             g == [s \in Streams |-> stamps'[s][F]]
  <2>1. Total(F) = Sum(f, Streams) /\ Total(F)' = Sum(g, Streams)
    BY Summed DEF Total
  <2>2. \A s \in Streams : f[s] \in Int
    BY <1>5
  <2>3. g[x] = f[x] + StampCalls(m)[F] /\ StampCalls(m)[F] \in Int
    BY <1>2, <1>3, <1>4 DEF old
  <2>4. \A s \in Streams : s # x => g[s] = f[s]
    BY <1>3
  <2> HIDE DEF f, g
  <2>5. \A s \in Streams : f[s] \in Int /\ g[s] \in Int /\ (s # x => g[s] = f[s])
    BY <1>2, <2>2, <2>3, <2>4
  <2>6. Sum(g, Streams) = Sum(f, Streams) + (g[x] - f[x])
    BY <1>2, <2>5, Finite, SumChange
  <2>7. Sum(f, Streams) \in Int
    BY <2>2, Finite, SumType
  <2>8. g[x] - f[x] = StampCalls(m)[F]
    BY <1>2, <2>2, <2>3
  <2> QED BY <2>1, <2>6, <2>7, <2>8
<1> QED BY <1>6 DEF m

LEMMA WarningsInit == Init => WarningsAddUp
<1> SUFFICES ASSUME Init PROVE WarningsAddUp
  OBVIOUS
<1>1. \A k \in Kinds : Told(k) = 0
  BY DEF Init, Told
<1>2. Total("ahead") = 0 /\ Total("backwards") = 0
  <2> DEFINE f == [s \in Streams |-> stamps[s]["ahead"]]
             g == [s \in Streams |-> stamps[s]["backwards"]]
  <2>1. \A s \in Streams : f[s] = 0 /\ g[s] = 0
    BY DEF Init
  <2>2. Total("ahead") = Sum(f, Streams) /\ Total("backwards") = Sum(g, Streams)
    BY Summed DEF Total
  <2> HIDE DEF f, g
  <2> QED BY <2>1, <2>2, Finite, SumZero
<1>3. Surplus(parents) = 0
  <2> DEFINE f == [h \in Frames |-> Larger(Cardinality(parents[h]), 1) - 1]
  <2>1. \A h \in Frames : f[h] = 0
    <3>1. \A h \in Frames : Cardinality(parents[h]) = 0
      BY FS_EmptySet DEF Init
    <3>2. Larger(0, 1) - 1 = 0
      BY DEF Larger
    <3> QED BY <3>1, <3>2
  <2>2. Surplus(parents) = Sum(f, Frames)
    BY Summed DEF Surplus
  <2> HIDE DEF f
  <2> QED BY <2>1, <2>2, Finite, SumZero
<1> QED BY <1>1, <1>2, <1>3 DEF WarningsAddUp, Kinds

LEMMA WarningsStep == TypeOK /\ Typed /\ WarningsAddUp /\ [Next]_vars => WarningsAddUp'
<1> SUFFICES ASSUME TypeOK, Typed, WarningsAddUp, [Next]_vars PROVE WarningsAddUp'
  OBVIOUS
<1>typ. /\ now \in 0..MaxTime /\ throttle \in Throttles /\ warned \in Warned
        /\ parents \in [Frames -> SUBSET Frames]
        /\ {"ahead", "backwards", "doubled"} \subseteq Kinds
  <2> HIDE DEF Stamped, Tf
  <2> QED BY DEF TypeOK, Throttles, Warned, Kinds
<1>1. CASE InspectStamp /\ Trusted(Upcoming)
  <2>1. \A k \in Kinds : Told(k)' = Told(k) + StampCalls(Upcoming)[k] /\ Told(k) \in Nat
    BY <1>typ, <1>1, WarnsOf, CallsTyped, ToldGrows
  <2>2. Surplus(parents)' = Surplus(parents)
    BY <1>1 DEF InspectStamp, tree, Surplus
  <2>3. StampCalls(Upcoming)["doubled"] = 0
    BY CallsTyped
  <2>4. Told("doubled")' = Told("doubled")
    BY <1>typ, <2>1, <2>3
  <2> QED BY <1>typ, <1>1, <2>1, <2>2, <2>4, TotalsGrow DEF WarningsAddUp
<1>2. CASE InspectTree
  <2> DEFINE m == Upcoming
  <2>1. m \in Tf /\ \A k \in Kinds : Told(k)' = Told(k) + TreeCalls(m)[k] /\ Told(k) \in Nat
    BY <1>typ, <1>2, WarnsOf, CallsTyped, ToldGrows
  <2>2. /\ TreeCalls(m)["ahead"] = 0 /\ TreeCalls(m)["backwards"] = 0
        /\ TreeCalls(m)["doubled"] = Doubled(m.edges)
    BY CallsTyped
  <2>3. Total("ahead")' = Total("ahead") /\ Total("backwards")' = Total("backwards")
    BY <1>2 DEF InspectTree, Total
  <2>4. Surplus(parents)' = Surplus(ParentsWith(m.edges))
    BY <1>2 DEF InspectTree, Surplus
  <2> HIDE DEF m
  <2>5. Surplus(parents)' = Surplus(parents) + Doubled(m.edges)
    BY <1>typ, <2>1, <2>4, DoubledType
  <2>6. Told("ahead")' = Told("ahead") /\ Told("backwards")' = Told("backwards")
    BY <1>typ, <2>1, <2>2
  <2>7. Told("doubled")' = Told("doubled") + Doubled(m.edges)
    BY <1>typ, <2>1, <2>2
  <2> QED BY <2>3, <2>5, <2>6, <2>7 DEF WarningsAddUp
<1>3. CASE ~InspectTree /\ ~(InspectStamp /\ Trusted(Upcoming))
  <2>1. UNCHANGED <<stamps, throttle, warned, parents>>
    BY <1>3 DEF Next, InspectStamp, DropTf, NextPass, Tick, tree, vars
  <2> QED BY <2>1 DEF WarningsAddUp, Told, Total, Surplus
<1> QED BY <1>1, <1>2, <1>3

\* The warnings account for every defect the report counts: each is printed,
\* carried by a later warning, or still waiting to be.
THEOREM WarningsTellAll == Spec => []WarningsAddUp
BY WarningsInit, WarningsStep, Typing, PTL DEF Spec

-----------------------------------------------------------------------------
(* Transforms *)

\* What message j contributes.
LEMMA ContentType ==
    ASSUME Typed, NEW j \in 1..Len(recording)
    PROVE  (IF recording[j] \in Tf THEN Len(recording[j].edges) ELSE 0) \in Nat
<1>1. recording[j] \in Tf => Len(recording[j].edges) \in Nat
  BY EdgesOf
<1> HIDE DEF Tf
<1> QED BY <1>1

LEMMA TransformsGrow ==
    ASSUME Typed, NEW n \in 0..Len(recording)
    PROVE  /\ TransformsIn(n) \in Nat
           /\ n < Len(recording) =>
                 TransformsIn(n + 1) =
                     TransformsIn(n) + (IF recording[n + 1] \in Tf
                                        THEN Len(recording[n + 1].edges) ELSE 0)
           /\ TransformsIn(0) = 0
<1> DEFINE F(k) == [j \in 1..k |-> IF recording[j] \in Tf THEN Len(recording[j].edges) ELSE 0]
<1>0. Len(recording) \in Nat /\ n \in Nat
  <2> HIDE DEF Stamped, Tf
  <2> QED BY DEF Typed
<1>1. \A k : TransformsIn(k) = Sum(F(k), 1..k)
  BY Summed DEF TransformsIn
<1>2. \A k \in 0..Len(recording) : \A j \in 1..k : F(k)[j] \in Nat
  <2> HIDE DEF Stamped, Tf
  <2> QED BY <1>0, ContentType
<1>3. \A k \in Nat : IsFiniteSet(1..k)
  BY FS_Interval
<1>4. TransformsIn(n) \in Nat
  <2> DEFINE f == F(n)
  <2>1. \A j \in 1..n : f[j] \in Nat
    BY <1>2
  <2> HIDE DEF f
  <2>2. Sum(f, 1..n) \in Nat
    BY <1>0, <1>3, <2>1, SumType
  <2> QED BY <1>1, <2>2 DEF f
<1>5. TransformsIn(0) = 0
  <2>1. 1..0 = {}
    OBVIOUS
  <2> QED BY <1>1, <2>1, SumOfNone
<1>6. ASSUME n < Len(recording)
      PROVE  TransformsIn(n + 1) = TransformsIn(n) + F(n + 1)[n + 1]
  <2> DEFINE f == F(n)  g == F(n + 1)
  <2>1. n + 1 \in 0..Len(recording) /\ n + 1 \in 1..n + 1 /\ (1..n + 1) \ {n + 1} = 1..n
    BY <1>0, <1>6
  <2>2. \A j \in 1..n + 1 : g[j] \in Int
    BY <1>2, <2>1
  <2>3. \A j \in 1..n : g[j] \in Int /\ g[j] = f[j]
    BY <1>0, <2>2
  <2>4. IsFiniteSet(1..n) /\ IsFiniteSet(1..n + 1)
    BY <1>0, <1>3
  <2> HIDE DEF f, g
  <2>5. Sum(g, 1..n + 1) = g[n + 1] + Sum(g, 1..n)
    <3> DEFINE S == 1..n + 1
    <3>1. IsFiniteSet(S) /\ n + 1 \in S /\ \A j \in S : g[j] \in Int
      BY <2>1, <2>2, <2>4
    <3> HIDE DEF S
    <3>2. Sum(g, S) = g[n + 1] + Sum(g, S \ {n + 1})
      BY <3>1, SumWithout
    <3> QED BY <2>1, <3>2 DEF S
  <2>6. Sum(g, 1..n) = Sum(f, 1..n)
    BY <2>3, <2>4, SumSame
  <2>7. g[n + 1] \in Int
    BY <2>1, <2>2
  <2>8. TransformsIn(n) = Sum(f, 1..n) /\ TransformsIn(n + 1) = Sum(g, 1..n + 1)
    BY <1>1 DEF f, g
  <2>9. TransformsIn(n + 1) = TransformsIn(n) + g[n + 1]
    BY <1>4, <2>5, <2>6, <2>7, <2>8
  <2> QED BY <2>9 DEF g
<1>7. ASSUME n < Len(recording)
      PROVE  F(n + 1)[n + 1] = IF recording[n + 1] \in Tf
                               THEN Len(recording[n + 1].edges) ELSE 0
  <2>1. n + 1 \in 1..n + 1
    BY <1>0
  <2> QED BY <2>1
<1> QED BY <1>4, <1>5, <1>6, <1>7

\* What a rule takes out of a message is counted edge by edge: dropped and
\* kept together make the message.
LEMMA DroppedCounts ==
    ASSUME dropped \in [Edges -> Nat], NEW m \in Tf
    PROVE  /\ SumFunction(DroppedWith(m.edges)) + Cardinality(Kept(m.edges))
                  = SumFunction(dropped) + Len(m.edges)
           /\ SumFunction(dropped) \in Int
           /\ SumFunction(DroppedWith(m.edges)) \in Int
           /\ Cardinality(Kept(m.edges)) \in Nat
<1> DEFINE q == m.edges
           new == DroppedWith(q)
           J == {j \in 1..Len(q) : Filtering /\ MatchesRule(q[j])}
           c == [e \in Edges |-> IF Filtering /\ MatchesRule(e) THEN CountIn(q, e) ELSE 0]
<1>1. /\ Len(q) \in Nat /\ IsFiniteSet(1..Len(q)) /\ Kept(q) \subseteq 1..Len(q)
      /\ \A j \in 1..Len(q) : q[j] \in Edges
  BY EdgesOf
<1>2. \A e \in Edges : CountIn(q, e) \in Nat
  BY CountType
<1> HIDE DEF q
<1>3. new \in [Edges -> Nat]
  BY DroppedType DEF q
<1>4. \A e \in Edges : dropped[e] \in Int /\ c[e] \in Int /\ new[e] = dropped[e] + c[e]
  BY <1>2 DEF DroppedWith
<1>5. SumFunction(new) = Sum(new, Edges) /\ SumFunction(dropped) = Sum(dropped, Edges)
  BY <1>3, Summed
<1>6. IsFiniteSet(J) /\ J \subseteq 1..Len(q)
  BY <1>1, FS_Subset
<1>7. \A e \in Edges : c[e] = Cardinality(Onto(J, q, e))
  <2> TAKE e \in Edges
  <2>1. CASE Filtering /\ MatchesRule(e)
    <3>1. Onto(J, q, e) = {j \in 1..Len(q) : q[j] = e}
      BY <2>1 DEF Onto
    <3> QED BY <2>1, <3>1 DEF CountIn
  <2>2. CASE ~(Filtering /\ MatchesRule(e))
    <3>1. Onto(J, q, e) = {}
      BY <2>2 DEF Onto
    <3> QED BY <2>2, <3>1, FS_EmptySet
  <2> QED BY <2>1, <2>2
<1>8. J = (1..Len(q)) \ Kept(q)
  BY DEF Kept
<1>9. Into(J, q, Edges) = J
  BY <1>1 DEF Into
<1> HIDE DEF J, c, new
<1>10. Sum(new, Edges) = Sum(dropped, Edges) + Sum(c, Edges)
  BY <1>4, Finite, SumPlus
<1>11. Sum(c, Edges) = Cardinality(J)
  <2>1. IsFiniteSet(Edges)
    BY Finite
  <2>2. Sum(c, Edges) = Cardinality(Into(J, q, Edges))
    BY <1>6, <1>7, <2>1, SumCounts
  <2> QED BY <1>9, <2>2
<1>12. Cardinality(J) = Len(q) - Cardinality(Kept(q)) /\ Cardinality(Kept(q)) \in Nat
  <2> DEFINE S == 1..Len(q)  K == Kept(q)
  <2>1. Cardinality(S) = Len(q)
    <3>1. Cardinality(S) = IF 1 > Len(q) THEN 0 ELSE Len(q) - 1 + 1
      BY <1>1, FS_Interval
    <3> QED BY <1>1, <3>1
  <2>2. IsFiniteSet(S) /\ S \cap K = K /\ J = S \ K /\ K \in SUBSET S
    BY <1>1, <1>8
  <2> HIDE DEF S, K
  <2>3. Cardinality(S \ K) = Cardinality(S) - Cardinality(S \cap K)
    BY <2>2, FS_Difference
  <2>4. Cardinality(K) \in Nat
    BY <2>2, FS_Subset, FS_CardinalityType
  <2> QED BY <2>1, <2>2, <2>3, <2>4 DEF K
<1>13. Sum(dropped, Edges) \in Int
  BY <1>4, Finite, SumType
<1>14. /\ SumFunction(new) + Cardinality(Kept(q)) = SumFunction(dropped) + Len(q)
       /\ SumFunction(dropped) \in Int /\ SumFunction(new) \in Int
       /\ Cardinality(Kept(q)) \in Nat
  BY <1>1, <1>5, <1>10, <1>11, <1>12, <1>13
<1> QED BY <1>14 DEF new, q

LEMMA TransformsStep ==
    TypeOK /\ Typed /\ TransformsAccounted /\ [Next]_vars => TransformsAccounted'
<1> SUFFICES ASSUME TypeOK, Typed, TransformsAccounted, [Next]_vars
             PROVE  TransformsAccounted'
  OBVIOUS
<1> DEFINE all == TransformsIn(Len(recording))
           here == TransformsIn(pos)
           next == TransformsIn(pos + 1)
           lost == SumFunction(dropped)
           out == published.transforms
<1>1. /\ pos \in 0..Len(recording) /\ Len(recording) \in Nat /\ passes \in Nat \ {0}
      /\ dropped \in [Edges -> Nat] /\ out \in Nat
      /\ Len(recording) \in 0..Len(recording) /\ 0 \in 0..Len(recording)
  <2>1. published \in [messages : Nat, transforms : Nat] /\ dropped \in [Edges -> Nat]
    BY DEF TypeOK
  <2>2. pos \in 0..Len(recording) /\ Len(recording) \in Nat /\ passes \in Nat \ {0}
    <3> HIDE DEF Stamped, Tf
    <3> QED BY DEF Typed
  <2> QED BY <2>1, <2>2
<1>2. recording' = recording /\ \A k : TransformsIn(k)' = TransformsIn(k)
  <2>1. recording' = recording
    BY DEF Next, InspectStamp, InspectTree, DropTf, NextPass, Tick, Advance, vars
  <2> QED BY <2>1 DEF TransformsIn
<1>3. all \in Nat /\ here \in Nat /\ TransformsIn(0) = 0
  BY <1>1, TransformsGrow
<1>4. lost \in Int
  <2>1. \A e \in Edges : dropped[e] \in Int
    BY <1>1
  <2>2. Sum(dropped, Edges) \in Int
    BY <2>1, Finite, SumType
  <2>3. SumFunction(dropped) = Sum(dropped, Edges)
    BY <1>1, Summed
  <2> QED BY <2>2, <2>3
<1>5. out + lost = (passes - 1) * all + here
  BY DEF TransformsAccounted
<1>6. (passes - 1) * all \in Int
  BY <1>1, <1>3
<1>7. ASSUME pos < Len(recording)
      PROVE  /\ next = here + (IF Upcoming \in Tf THEN Len(Upcoming.edges) ELSE 0)
  BY <1>1, <1>7, TransformsGrow DEF Upcoming
<1>8. CASE InspectTree \/ DropTf
  <2> DEFINE m == Upcoming
  <2>1. /\ pos < Len(recording) /\ pos' = pos + 1 /\ passes' = passes /\ m \in Tf
        /\ dropped' = DroppedWith(m.edges)
    <3> HIDE DEF Tf
    <3> QED BY <1>8 DEF InspectTree, DropTf, Advance
  <2>2. next = here + Len(m.edges) /\ Len(m.edges) \in Nat
    BY <1>7, <2>1, EdgesOf
  <2>3. published'.transforms = out + Cardinality(Kept(m.edges))
    <3>1. CASE InspectTree
      BY <3>1 DEF InspectTree
    <3>2. CASE DropTf
      <4>1. published' = published /\ Kept(m.edges) = {}
        BY <3>2 DEF DropTf
      <4> QED BY <1>1, <4>1, FS_EmptySet
    <3> QED BY <1>8, <3>1, <3>2
  <2>4. /\ SumFunction(dropped') + Cardinality(Kept(m.edges)) = lost + Len(m.edges)
        /\ SumFunction(dropped') \in Int /\ Cardinality(Kept(m.edges)) \in Nat
    BY <1>1, <2>1, DroppedCounts
  <2> DEFINE lost2 == SumFunction(dropped')  kept == Cardinality(Kept(m.edges))
             len == Len(m.edges)  base == (passes - 1) * all
  <2>5. published'.transforms + lost2 = base + next
    <3> HIDE DEF m, lost2, kept, len, base, all, here, next, lost, out
    <3>1. /\ next = here + len /\ len \in Nat /\ published'.transforms = out + kept
          /\ lost2 + kept = lost + len /\ lost2 \in Int /\ kept \in Nat
          /\ out + lost = base + here /\ base \in Int /\ here \in Nat /\ lost \in Int
          /\ out \in Nat
      BY <1>1, <1>3, <1>4, <1>5, <1>6, <2>2, <2>3, <2>4 DEF lost2, kept, len, base
    <3> QED BY <3>1
  <2>6. (passes' - 1) * TransformsIn(Len(recording))' + TransformsIn(pos)' = base + next
    <3>1. TransformsIn(Len(recording))' = all /\ TransformsIn(pos)' = next
      BY <1>2, <2>1 DEF TransformsIn
    <3> QED BY <2>1, <3>1
  <2> QED BY <2>5, <2>6 DEF TransformsAccounted
<1>9. CASE InspectStamp
  <2>1. /\ pos < Len(recording) /\ pos' = pos + 1 /\ passes' = passes
        /\ Upcoming \in Stamped /\ UNCHANGED <<dropped, published>>
    <3> HIDE DEF Stamped
    <3> QED BY <1>9 DEF InspectStamp, Advance, filter
  <2>2. next = here
    <3>1. Upcoming \notin Tf
      BY <2>1, Disjoint
    <3> QED BY <1>3, <1>7, <2>1, <3>1
  <2> QED BY <1>2, <1>5, <2>1, <2>2 DEF TransformsAccounted
<1>10. CASE NextPass
  <2>1. /\ pos = Len(recording) /\ pos' = 0 /\ passes' = passes + 1
        /\ UNCHANGED <<dropped, published>>
    BY <1>10 DEF NextPass, filter
  <2>2. (passes - 1) * all + all = (passes + 1 - 1) * all + 0
    <3> HIDE DEF all
    <3>1. \A a, b \in Nat : a * b + b = (a + 1) * b
      OBVIOUS
    <3>2. PICK a \in Nat : passes = a + 1
      <4>1. passes - 1 \in Nat /\ passes = (passes - 1) + 1
        BY <1>1
      <4> QED BY <4>1
    <3>3. passes - 1 = a /\ passes + 1 - 1 = a + 1
      BY <3>2
    <3>4. (a + 1) * all + 0 = (a + 1) * all
      BY <1>3, <3>2
    <3> QED BY <1>3, <3>1, <3>3, <3>4
  <2>3. (passes' - 1) * TransformsIn(Len(recording))' + TransformsIn(pos)'
           = (passes + 1 - 1) * all + 0
    <3>1. TransformsIn(Len(recording))' = all /\ TransformsIn(pos)' = 0
      BY <1>2, <1>3, <2>1 DEF TransformsIn
    <3>2. passes' - 1 = passes + 1 - 1
      BY <1>1, <2>1
    <3> DEFINE a == passes' - 1  b == passes + 1 - 1
               x == TransformsIn(Len(recording))'  y == TransformsIn(pos)'
    <3>3. a = b /\ x = all /\ y = 0
      BY <3>1, <3>2
    <3> HIDE DEF a, b, x, y, all
    <3>4. a * x + y = b * all + 0
      BY <3>3
    <3> QED BY <3>4 DEF a, b, x, y
  <2>4. (passes - 1) * all + here = (passes + 1 - 1) * all + 0
    BY <2>1, <2>2
  <2>5. published'.transforms = out /\ SumFunction(dropped') = lost
    BY <2>1
  <2> HIDE DEF all, here, out, lost
  <2>6. published'.transforms + SumFunction(dropped')
           = (passes' - 1) * TransformsIn(Len(recording))' + TransformsIn(pos)'
    BY <1>5, <2>3, <2>4, <2>5
  <2> QED BY <2>6 DEF TransformsAccounted
<1>11. CASE Tick \/ UNCHANGED vars
  <2>1. UNCHANGED <<pos, passes, dropped, published>>
    BY <1>11 DEF Tick, vars, filter
  <2> QED BY <1>2, <1>5, <2>1 DEF TransformsAccounted
<1> QED BY <1>8, <1>9, <1>10, <1>11 DEF Next

\* No transform goes missing between the recording and the transport: each was
\* published or is in the count of the edge it was dropped with.
THEOREM NoTransformLost == Spec => []TransformsAccounted
<1>1. Init => TransformsAccounted
  <2> SUFFICES ASSUME Init PROVE TransformsAccounted
    OBVIOUS
  <2>1. Typed
    BY InitTypeOK
  <2>2. Len(recording) \in Nat /\ 0 \in 0..Len(recording)
    <3> HIDE DEF Stamped, Tf
    <3> QED BY <2>1 DEF Typed
  <2>3. /\ TransformsIn(0) = 0 /\ TransformsIn(Len(recording)) \in Nat
    <3>1. Len(recording) \in 0..Len(recording)
      BY <2>2
    <3> QED BY <2>1, <2>2, <3>1, TransformsGrow
  <2>4. SumFunction(dropped) = 0
    <3>1. \A e \in Edges : dropped[e] = 0
      BY DEF Init
    <3>2. SumFunction(dropped) = Sum(dropped, Edges)
      BY Summed DEF Init
    <3> QED BY <3>1, <3>2, Finite, SumZero
  <2>5. published.transforms = 0 /\ passes - 1 = 0 /\ pos = 0
    BY DEF Init
  <2>6. 0 * TransformsIn(Len(recording)) = 0
    BY <2>3
  <2> QED BY <2>3, <2>4, <2>5, <2>6 DEF TransformsAccounted
<1> QED BY <1>1, TransformsStep, Typing, PTL DEF Spec

-----------------------------------------------------------------------------
(* What the report says of the frame tree *)

\* The parents check_tree keeps are those of the tree published so far.
TreeKnown == \A f \in Frames : parents[f] = {g \in Frames : <<g, f>> \in Seen}

\* What a tf message adds to the tree.
Adds(m) == {m.edges[k] : k \in Kept(m.edges)}

LEMMA AddsIs ==
    ASSUME NEW m \in Tf, NEW e \in Edges
    PROVE  e \in Adds(m) <=> ~(Filtering /\ MatchesRule(e)) /\ CountIn(m.edges, e) > 0
<1> DEFINE q == m.edges  J == {j \in 1..Len(q) : q[j] = e}
<1>1. IsFiniteSet(J)
  <2>1. IsFiniteSet(1..Len(q)) /\ J \in SUBSET (1..Len(q))
    BY EdgesOf
  <2> QED BY <2>1, FS_Subset
<1>2. Cardinality(J) \in Nat /\ (Cardinality(J) = 0 <=> J = {})
  BY <1>1, FS_CardinalityType, FS_EmptySet
<1>3. CountIn(q, e) > 0 <=> J # {}
  BY <1>2 DEF CountIn
<1>4. e \in Adds(m) <=> \E k \in 1..Len(q) : q[k] = e /\ ~(Filtering /\ MatchesRule(e))
  BY DEF Adds, Kept
<1> QED BY <1>3, <1>4

LEMMA SeenIs ==
    ASSUME NEW e \in Edges
    PROVE  e \in Seen <=> \E j \in Handled : recording[j] \in Tf /\ e \in Adds(recording[j])
<1> HIDE DEF Tf
<1> QED BY AddsIs DEF Seen

\* A message adds its edges when it is handled, in whichever pass.
LEMMA HandledGrows ==
    ASSUME Typed, Advance
    PROVE  Handled' = Handled \cup {pos + 1}
<1>1. pos \in Nat /\ Len(recording) \in Nat /\ pos < Len(recording)
  <2> HIDE DEF Stamped, Tf
  <2> QED BY DEF Typed, Advance
<1>2. pos' = pos + 1 /\ passes' = passes /\ recording' = recording
  BY DEF Advance
<1>3. 1..(pos + 1) = (1..pos) \cup {pos + 1} /\ pos + 1 \in 1..Len(recording)
  BY <1>1
<1> QED BY <1>2, <1>3 DEF Handled

LEMMA HandledKept ==
    ASSUME Typed, NextPass
    PROVE  Handled' = Handled
<1>1. passes \in Nat \ {0}
  BY DEF Typed
<1>2. pos = Len(recording) /\ passes' = passes + 1 /\ recording' = recording
  BY DEF NextPass
<1>3. passes' # 1
  BY <1>1, <1>2
<1> QED BY <1>2, <1>3 DEF Handled

LEMMA TreeStep == TypeOK /\ Typed /\ TreeKnown /\ [Next]_vars => TreeKnown'
<1> SUFFICES ASSUME TypeOK, Typed, TreeKnown, [Next]_vars
             PROVE  TreeKnown'
  OBVIOUS
<1>1. recording' = recording /\ rules' = rules
  BY DEF Next, InspectStamp, InspectTree, DropTf, NextPass, Tick, Advance, vars
<1>2. \A e \in Edges :
         e \in Seen' <=> \E j \in Handled' : recording[j] \in Tf /\ e \in Adds(recording[j])
  <2> TAKE e \in Edges
  <2>1. Filtering' = Filtering /\ MatchesRule(e)' = MatchesRule(e)
    BY <1>1 DEF Filtering, MatchesRule
  <2>2. e \in Seen' <=> /\ ~(Filtering /\ MatchesRule(e))
                        /\ \E j \in Handled' : /\ recording[j] \in Tf
                                               /\ CountIn(recording[j].edges, e) > 0
    BY <1>1, <2>1 DEF Seen
  <2> HIDE DEF Tf
  <2> QED BY <2>2, AddsIs
<1>3. \A e \in Edges :
         e \in Seen <=> \E j \in Handled : recording[j] \in Tf /\ e \in Adds(recording[j])
  BY SeenIs
<1>4. \A f, g \in Frames : <<g, f>> \in Edges
  BY DEF Edges
<1>5. CASE InspectTree
  <2> DEFINE q == Upcoming.edges
  <2>1. Upcoming \in Tf /\ Handled' = Handled \cup {pos + 1} /\ parents' = ParentsWith(q)
    BY <1>5, HandledGrows DEF InspectTree
  <2>2. \A e \in Edges : e \in Seen' <=> e \in Seen \/ e \in Adds(Upcoming)
    BY <1>2, <1>3, <2>1 DEF Upcoming
  <2>3. SUFFICES ASSUME NEW f \in Frames, NEW g \in Frames
                 PROVE  g \in parents'[f] <=> <<g, f>> \in Seen'
    <3>1. parents' \in [Frames -> SUBSET Frames]
      BY TypeStep DEF TypeOK
    <3> QED BY <2>3, <3>1 DEF TreeKnown
  <2>4. g \in parents'[f] <=> g \in parents[f] \/ \E j \in Kept(q) : q[j][2] = f /\ q[j][1] = g
    BY <2>1 DEF ParentsWith
  <2>5. \A j \in Kept(q) : q[j] \in Edges
    BY <2>1, EdgesOf DEF Kept
  <2>6. \A j \in Kept(q) : q[j] = <<g, f>> <=> q[j][2] = f /\ q[j][1] = g
    BY <2>5 DEF Edges
  <2>7. <<g, f>> \in Adds(Upcoming) <=> \E j \in Kept(q) : q[j] = <<g, f>>
    BY DEF Adds
  <2>8. g \in parents[f] <=> <<g, f>> \in Seen
    BY DEF TreeKnown
  <2> QED BY <1>4, <2>2, <2>4, <2>6, <2>7, <2>8
<1>6. ASSUME parents' = parents, \A e \in Edges : e \in Seen' <=> e \in Seen
      PROVE  TreeKnown'
  BY <1>4, <1>6 DEF TreeKnown
<1>7. CASE InspectStamp \/ DropTf
  <2>1. Handled' = Handled \cup {pos + 1} /\ parents' = parents
    BY <1>7, HandledGrows DEF InspectStamp, DropTf, tree
  <2>2. Upcoming \notin Tf \/ Adds(Upcoming) = {}
    <3>1. CASE InspectStamp
      <4>1. Upcoming \in Stamped
        <5> HIDE DEF Stamped
        <5> QED BY <3>1 DEF InspectStamp
      <4> QED BY <4>1, Disjoint
    <3>2. CASE DropTf
      BY <3>2 DEF DropTf, Adds
    <3> QED BY <1>7, <3>1, <3>2
  <2>3. \A e \in Edges : e \in Seen' <=> e \in Seen
    <3> HIDE DEF Tf
    <3> QED BY <1>2, <1>3, <2>1, <2>2 DEF Upcoming
  <2> QED BY <1>6, <2>1, <2>3
<1>8. CASE NextPass
  <2>1. Handled' = Handled /\ parents' = parents
    BY <1>8, HandledKept DEF NextPass, tree
  <2> QED BY <1>2, <1>3, <1>6, <2>1
<1>9. CASE Tick \/ UNCHANGED vars
  <2>1. Handled' = Handled /\ parents' = parents
    BY <1>9 DEF Tick, vars, tree, Handled
  <2> QED BY <1>2, <1>3, <1>6, <2>1
<1> QED BY <1>5, <1>7, <1>8, <1>9 DEF Next

LEMMA ManyAreTwo ==
    ASSUME NEW S, IsFiniteSet(S)
    PROVE  Cardinality(S) > 1 <=> \E x, y \in S : x # y
<1>1. ASSUME NEW x \in S, NEW y \in S, x # y
      PROVE  Cardinality(S) > 1
  <2>1. IsFiniteSet({x}) /\ Cardinality({x}) = 1
    BY FS_Singleton
  <2>2. Cardinality({x} \cup {y}) = 2
    <3>1. Cardinality({x} \cup {y}) = Cardinality({x}) + 1
      BY <1>1, <2>1, FS_AddElement
    <3> QED BY <2>1, <3>1
  <2>3. Cardinality({x} \cup {y}) <= Cardinality(S)
    <3>1. {x} \cup {y} \in SUBSET S
      OBVIOUS
    <3> QED BY <3>1, FS_Subset
  <2>4. Cardinality(S) \in Nat
    BY FS_CardinalityType
  <2> QED BY <2>2, <2>3, <2>4
<1>2. ASSUME ~ \E x, y \in S : x # y
      PROVE  ~(Cardinality(S) > 1)
  <2>1. CASE S = {}
    <3>1. Cardinality(S) = 0
      BY <2>1, FS_EmptySet
    <3> QED BY <3>1
  <2>2. CASE S # {}
    <3>1. PICK x \in S : S = {x}
      BY <1>2, <2>2
    <3>2. Cardinality(S) = 1
      BY <3>1, FS_Singleton
    <3> QED BY <3>2
  <2> QED BY <2>1, <2>2
<1> QED BY <1>1, <1>2

LEMMA GraphIs ==
    /\ IsFiniteSet(TfGraph.node) /\ TfGraph.node \in SUBSET Frames
    /\ TfGraph.edge \subseteq TfGraph.node \X TfGraph.node
    /\ \A f, p \in Frames : <<f, p>> \in TfGraph.edge <=> <<p, f>> \in Seen
    /\ \A f \in TfGraph.node : \E e \in TfGraph.edge : f = e[1] \/ f = e[2]
<1>1. TfGraph.node = {f \in Frames : \E e \in Seen : f = e[1] \/ f = e[2]}
  BY DEF TfGraph
<1>2. TfGraph.edge = {<<e[2], e[1]>> : e \in Seen}
  BY DEF TfGraph
<1>3. \A e \in Seen : e[1] \in Frames /\ e[2] \in Frames /\ e = <<e[1], e[2]>>
  BY DEF Seen, Edges
<1>4. TfGraph.node \in SUBSET Frames
  BY <1>1
<1>5. IsFiniteSet(TfGraph.node)
  BY <1>4, Finite, FS_Subset
<1> HIDE DEF TfGraph
<1>6. \A f, p \in Frames : <<f, p>> \in TfGraph.edge <=> <<p, f>> \in Seen
  BY <1>2, <1>3
<1>7. TfGraph.edge \subseteq TfGraph.node \X TfGraph.node
  BY <1>1, <1>2, <1>3
<1>8. ASSUME NEW f \in TfGraph.node
      PROVE  \E e \in TfGraph.edge : f = e[1] \/ f = e[2]
  <2>1. PICK e \in Seen : f = e[1] \/ f = e[2]
    BY <1>1
  <2>2. <<e[2], e[1]>> \in TfGraph.edge
    BY <1>2
  <2> QED BY <2>1, <2>2
<1> QED BY <1>4, <1>5, <1>6, <1>7, <1>8

\* The laws of Reaches: every frame reaches itself, on along every edge, and
\* nothing else from a frame no edge leaves.
LEMMA ReachesSelf == \A f : Reaches(f, f)
BY DEF Reaches

LEMMA ReachesFrom ==
    ASSUME NEW f, NEW b, NEW c, Reaches(f, b), Reaches(b, c)
    PROVE  Reaches(f, c)
BY DEF Reaches

LEMMA ReachesAlong ==
    ASSUME NEW f, NEW e \in TfGraph.edge, Reaches(f, e[1])
    PROVE  Reaches(f, e[2])
<1> HIDE DEF TfGraph
<1> QED BY DEF Reaches

LEMMA ReachesStops ==
    ASSUME NEW f \in TfGraph.node, \A e \in TfGraph.edge : e[1] # f, NEW b, Reaches(f, b)
    PROVE  b = f
<1> DEFINE S == {f}
<1>1. S \in SUBSET TfGraph.node /\ f \in S /\ \A e \in TfGraph.edge : e[1] \in S => e[2] \in S
  OBVIOUS
<1>2. b \in S
  BY <1>1 DEF Reaches
<1> QED BY <1>2

\* Where no frame is its own ancestor, every frame has an ancestor without a
\* parent: the one with the fewest ancestors.
LEMMA Topmost ==
    ASSUME Acyclic, NEW f \in TfGraph.node
    PROVE  \E t \in TfGraph.node : Reaches(f, t) /\ \A e \in TfGraph.edge : e[1] # t
<1> DEFINE N == TfGraph.node
           Up(x) == {y \in N : Reaches(x, y)}
           Bad == {Up(x) : x \in Up(f)}
<1>1. IsFiniteSet(N) /\ TfGraph.edge \subseteq N \X N
  BY GraphIs
<1>2. Bad \in SUBSET (SUBSET N) /\ Up(f) \in Bad
  BY ReachesSelf
<1>3. PICK U \in Bad : \A V \in SUBSET U : V # U => V \notin Bad
  <2> HIDE DEF Bad, N
  <2> QED BY <1>1, <1>2, SmallestSet
<1>4. PICK t \in N : Reaches(f, t) /\ U = Up(t)
  BY <1>3
<1>5. ASSUME NEW e \in TfGraph.edge, e[1] = t
      PROVE  FALSE
  <2>1. e[2] \in N /\ Reaches(t, e[2])
    BY <1>1, <1>5, ReachesSelf, ReachesAlong
  <2>2. Up(e[2]) \in SUBSET U
    BY <1>4, <2>1, ReachesFrom
  <2>3. t \in U /\ t \notin Up(e[2])
    BY <1>4, <1>5, ReachesSelf DEF Acyclic
  <2>4. Up(e[2]) \in Bad
    <3>1. Reaches(f, e[2])
      BY <1>4, <2>1, ReachesFrom
    <3> QED BY <2>1, <3>1
  <2> HIDE DEF Up, Bad
  <2> QED BY <1>3, <2>2, <2>3, <2>4
<1> QED BY <1>4, <1>5

\* Parents and roots, read off the graph.
LEMMA ParentsIn ==
    ASSUME TreeKnown
    PROVE  /\ \A f \in Frames : parents[f] = {p \in Frames : <<f, p>> \in TfGraph.edge}
           /\ Roots(parents) = {t \in TfGraph.node : \A e \in TfGraph.edge : e[1] # t}
<1> DEFINE N == TfGraph.node  R == TfGraph.edge
<1>1. /\ N \in SUBSET Frames /\ R \subseteq N \X N
      /\ \A f, p \in Frames : <<f, p>> \in R <=> <<p, f>> \in Seen
      /\ \A f \in N : \E e \in R : f = e[1] \/ f = e[2]
  BY GraphIs
<1>2. \A f \in Frames : parents[f] = {p \in Frames : <<p, f>> \in Seen}
  BY DEF TreeKnown
<1> HIDE DEF N, R
<1>3. \A f \in Frames : parents[f] = {p \in Frames : <<f, p>> \in R}
  BY <1>1, <1>2
<1>4. ASSUME NEW f \in Frames
      PROVE  parents[f] = {} <=> \A e \in R : e[1] # f
  <2>1. \A e \in R : e = <<e[1], e[2]>> /\ e[2] \in Frames
    BY <1>1
  <2>2. parents[f] = {p \in Frames : <<f, p>> \in R}
    BY <1>3
  <2>3. ASSUME NEW e \in R, e[1] = f PROVE e[2] \in parents[f]
    BY <2>1, <2>2, <2>3
  <2>4. ASSUME NEW p \in parents[f] PROVE \E e \in R : e[1] = f
    <3>1. <<f, p>> \in R /\ <<f, p>>[1] = f
      BY <2>2
    <3> QED BY <3>1
  <2> QED BY <2>3, <2>4
<1>5. ASSUME NEW t \in UNION {parents[g] : g \in Frames}
      PROVE  t \in N
  <2>1. PICK g \in Frames : t \in parents[g]
    OBVIOUS
  <2>2. <<g, t>> \in R
    BY <1>3, <2>1
  <2>3. <<g, t>> \in N \X N
    BY <1>1, <2>2
  <2> QED BY <2>3
<1>6. \A t \in N : (\A e \in R : e[1] # t) => t \in UNION {parents[g] : g \in Frames}
  BY <1>1, <1>3
<1>7. Roots(parents) = {t \in N : \A e \in R : e[1] # t}
  BY <1>1, <1>4, <1>5, <1>6 DEF Roots
<1> QED BY <1>3, <1>7 DEF N, R

LEMMA TreeReportedIs ==
    ASSUME TreeKnown
    PROVE  TreeReported <=>
             \/ \E e, f \in TfGraph.edge : e[1] = f[1] /\ e # f
             \/ \E s, t \in TfGraph.node : /\ s # t
                                           /\ \A e \in TfGraph.edge : e[1] \notin {s, t}
<1> DEFINE N == TfGraph.node  R == TfGraph.edge  Top == Roots(parents)
<1>1. /\ IsFiniteSet(N) /\ N \in SUBSET Frames /\ R \subseteq N \X N
  BY GraphIs
<1>2. /\ \A f \in Frames : parents[f] = {p \in Frames : <<f, p>> \in R}
      /\ Top = {t \in N : \A e \in R : e[1] # t}
  BY ParentsIn
<1> HIDE DEF N, R
<1>3. IsFiniteSet(Top)
  BY <1>1, <1>2, FS_Subset
<1>4. Cardinality(Top) > 1 <=> \E s, t \in Top : s # t
  BY <1>3, ManyAreTwo
<1>5. \A f \in Frames : Cardinality(parents[f]) > 1 <=> \E p, q \in parents[f] : p # q
  <2> TAKE f \in Frames
  <2>1. parents[f] \in SUBSET Frames
    BY <1>2
  <2>2. IsFiniteSet(parents[f])
    BY <2>1, Finite, FS_Subset
  <2> QED BY <2>2, ManyAreTwo
<1>6. (\E f \in Frames : \E p, q \in parents[f] : p # q) <=> \E e, f \in R : e[1] = f[1] /\ e # f
  <2>1. ASSUME NEW f \in Frames, NEW p \in parents[f], NEW q \in parents[f], p # q
        PROVE  \E e, g \in R : e[1] = g[1] /\ e # g
    <3>1. <<f, p>> \in R /\ <<f, q>> \in R /\ <<f, p>> # <<f, q>>
      BY <1>2, <2>1
    <3> QED BY <3>1
  <2>2. ASSUME NEW e \in R, NEW g \in R, e[1] = g[1], e # g
        PROVE  \E f \in Frames : \E p, q \in parents[f] : p # q
    <3>1. /\ e = <<e[1], e[2]>> /\ g = <<e[1], g[2]>> /\ e[2] # g[2]
          /\ e[1] \in Frames /\ e[2] \in Frames /\ g[2] \in Frames
      BY <1>1, <2>2
    <3>2. e[2] \in parents[e[1]] /\ g[2] \in parents[e[1]]
      BY <1>2, <3>1
    <3> QED BY <3>1, <3>2
  <2> QED BY <2>1, <2>2
<1>7. (\E s, t \in Top : s # t) <=> \E s, t \in N : s # t /\ \A e \in R : e[1] \notin {s, t}
  BY <1>2
<1>8. TreeReported <=> \/ \E f \in Frames : Cardinality(parents[f]) > 1
                       \/ Cardinality(Top) > 1
  BY DEF TreeReported
<1> HIDE DEF Top
<1> QED BY <1>4, <1>5, <1>6, <1>7, <1>8 DEF N, R

LEMMA ReportIsRight == TreeKnown => ReportRight
<1> SUFFICES ASSUME TreeKnown, Acyclic PROVE TreeReported <=> ~OneTree
  BY DEF ReportRight
<1> DEFINE N == TfGraph.node  R == TfGraph.edge
<1>1. R \subseteq N \X N
  BY GraphIs
<1>2. TreeReported <=> \/ \E e, f \in R : e[1] = f[1] /\ e # f
                       \/ \E s, t \in N : s # t /\ \A e \in R : e[1] \notin {s, t}
  BY TreeReportedIs
<1>3. OneTree <=>
        (N # {} => \E r \in N : /\ \A e, f \in R : e[1] # r /\ (e[1] = f[1] => e = f)
                                /\ \A f \in N : Reaches(f, r))
  BY DEF OneTree
<1>4. \A f \in N : \E t \in N : Reaches(f, t) /\ \A e \in R : e[1] # t
  BY Topmost
<1>5. \A f \in N : (\A e \in R : e[1] # f) => \A b : Reaches(f, b) => b = f
  BY ReachesStops
<1> HIDE DEF N, R
<1>6. ASSUME ~TreeReported, N # {}
      PROVE  \E r \in N : /\ \A e, f \in R : e[1] # r /\ (e[1] = f[1] => e = f)
                          /\ \A f \in N : Reaches(f, r)
  <2>1. PICK r \in N : \A e \in R : e[1] # r
    BY <1>4, <1>6
  <2>2. \A f \in N : Reaches(f, r)
    BY <1>2, <1>4, <1>6, <2>1
  <2>3. \A e, f \in R : e[1] = f[1] => e = f
    BY <1>2, <1>6
  <2> QED BY <2>1, <2>2, <2>3
<1>7. ASSUME TreeReported
      PROVE  ~OneTree
  <2>1. SUFFICES ASSUME OneTree PROVE FALSE
    OBVIOUS
  <2>2. N # {}
    BY <1>1, <1>2, <1>7
  <2>3. PICK r \in N : /\ \A e, f \in R : e[1] # r /\ (e[1] = f[1] => e = f)
                       /\ \A f \in N : Reaches(f, r)
    BY <1>3, <2>1, <2>2
  <2>4. PICK s \in N, t \in N : s # t /\ \A e \in R : e[1] \notin {s, t}
    BY <1>2, <1>7, <2>3
  <2>5. s = r /\ t = r
    BY <1>5, <2>3, <2>4
  <2> QED BY <2>4, <2>5
<1> QED BY <1>3, <1>6, <1>7

\* The end of a replay: with no frame its own ancestor, the report names
\* frames or roots exactly when what was published is not one tree.
THEOREM ReportTells == Spec => []ReportRight
<1>1. Init => TreeKnown
  <2> SUFFICES ASSUME Init PROVE TreeKnown
    OBVIOUS
  <2>1. Handled = {}
    BY DEF Init, Handled
  <2>2. Seen = {}
    BY <2>1 DEF Seen
  <2>3. \A f \in Frames : parents[f] = {}
    BY DEF Init
  <2> QED BY <2>2, <2>3 DEF TreeKnown
<1> QED BY <1>1, TreeStep, ReportIsRight, Typing, PTL DEF Spec
=============================================================================
