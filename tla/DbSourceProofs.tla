--------------------------- MODULE DbSourceProofs ---------------------------
(***************************************************************************)
(* The paged reader hands out every row of every stream once and in merge  *)
(* order, for every recording, every number of streams and every page size *)
(* (every row, provided timestamps are distinct within a stream).          *)
(***************************************************************************)
EXTENDS DbSource, FiniteSetTheorems, WellFoundedInduction, TLAPS

-----------------------------------------------------------------------------
(* Lemmas about one query *)

LEMMA GreatestExists ==
    ASSUME NEW S, S \subseteq Times, S # {}
    PROVE  \E t \in S : \A u \in S : u <= t
<1> DEFINE D == {MaxTime - x : x \in S}
<1>1. MaxTime \in Nat
  BY DbSourceAssumption
<1>2. D \subseteq Nat /\ D # {}
  BY <1>1 DEF Times
<1>3. PICK d \in D : \A e \in D : ~(<<e, d>> \in OpToRel(<, Nat))
  <2> HIDE DEF D
  <2> QED BY <1>2, WFMin, NatLessThanWellFounded
<1>4. \A e \in D : d <= e
  <2> SUFFICES ASSUME NEW e \in D PROVE d <= e
    OBVIOUS
  <2>1. d \in Nat /\ e \in Nat
    BY <1>2
  <2>2. ~(e < d)
    BY <1>3, <2>1 DEF OpToRel
  <2> QED BY <2>1, <2>2
<1>5. PICK t \in S : d = MaxTime - t
  OBVIOUS
<1>6. \A u \in S : u <= t
  <2> SUFFICES ASSUME NEW u \in S PROVE u <= t
    OBVIOUS
  <2>1. MaxTime - u \in D
    OBVIOUS
  <2>2. d <= MaxTime - u
    BY <1>4, <2>1
  <2>3. t \in Int /\ u \in Int
    BY DEF Times
  <2> QED BY <1>1, <1>5, <2>2, <2>3
<1> QED BY <1>6

\* The end of a non-empty page is the timestamp of one of its rows, and no
\* row of the page is later.
LEMMA EndOfPage ==
    ASSUME TypeOK, NEW s \in Streams, NEW P \in SUBSET Ids, P # {}
    PROVE  /\ \E i \in P : EndOf(s, P) = ts[s][i]
           /\ \A i \in P : ts[s][i] <= EndOf(s, P)
<1> DEFINE S == {ts[s][i] : i \in P}
<1>1. S \subseteq Times /\ S # {}
  BY DEF TypeOK
<1>2. \E t \in S : \A u \in S : u <= t
  <2> HIDE DEF S
  <2> QED BY <1>1, GreatestExists
<1>3. EndOf(s, P) \in S /\ \A u \in S : u <= EndOf(s, P)
  BY <1>2 DEF EndOf
<1> QED BY <1>3

\* A query that finds rows returns some.
LEMMA PageNotEmpty ==
    ASSUME TypeOK, NEW s \in Streams, IsPage(s, {})
    PROVE  After(s) = {}
<1>1. INDEX_PAGE \in Nat \ {0}
  BY DbSourceAssumption
<1>2. Cardinality({}) = 0
  BY FS_EmptySet
<1> QED BY <1>1, <1>2 DEF IsPage

-----------------------------------------------------------------------------
(* The inductive invariant *)

\* What a page holds, and everything handed out, lies behind the cursor.
PageBehind ==
    \A s \in Streams : \A i \in page[s] : i \in rows[s] /\ ts[s][i] <= last_ts[s]

ReadBehind ==
    \A s \in Streams : \A i \in read[s] :
        i \in rows[s] /\ ts[s][i] <= last_ts[s] /\ i \notin page[s]

\* Every row still to come follows the one handed out last.
LastPrecedesOwed ==
    last # None =>
        \A r \in Streams : \A j \in page[r] \cup After(r) :
            \/ ts[last[1]][last[2]] < ts[r][j]
            \/ ts[last[1]][last[2]] = ts[r][j] /\ last[1] <= r

EndMeansDrained ==
    outcome = "end" => \A s \in Streams : page[s] = {} /\ After(s) = {}

IInv == /\ TypeOK
        /\ PageBehind
        /\ ReadBehind
        /\ DoneMeansDrained
        /\ LastPrecedesOwed
        /\ EndMeansDrained

\* What a query leaves for the ones after it.
Later(s, pg) == {i \in rows[s] : ts[s][i] > LastAfter(pg)[s]}

\* The effect of the fills at the start of `next` on one cursor.
LEMMA FillEffect ==
    ASSUME IInv, NEW pg \in [Streams -> SUBSET Ids], Filled(pg), NEW s \in Streams
    PROVE  /\ LastAfter(pg)[s] \in Times \cup {NegInf}
           /\ last_ts[s] <= LastAfter(pg)[s]
           /\ pg[s] \subseteq page[s] \cup After(s)
           /\ Later(s, pg) \subseteq After(s)
           /\ \A i \in pg[s] : i \in rows[s] /\ ts[s][i] <= LastAfter(pg)[s]
           /\ pg[s] \cap read[s] = {}
           /\ pg[s] = {} => page[s] = {} /\ After(s) = {} /\ Later(s, pg) = {}
           /\ DoneAfter(pg)[s] <=> pg[s] = {}
<1>inv. TypeOK /\ PageBehind /\ ReadBehind /\ DoneMeansDrained
  BY DEF IInv
<1>0. /\ last_ts[s] \in Times \cup {NegInf}
      /\ last_ts[s] \in Int
      /\ \A i \in Ids : ts[s][i] \in Times /\ ts[s][i] \in Int
      /\ rows[s] \subseteq Ids
      /\ done[s] \in BOOLEAN
  BY <1>inv DEF TypeOK, Times, NegInf
<1>times. Times \subseteq Int
  BY DEF Times
<1>1. CASE NeedsFill(s) /\ pg[s] # {}
  <2>1. LastAfter(pg)[s] = EndOf(s, pg[s])
    BY <1>1 DEF LastAfter
  <2>2. IsPage(s, pg[s])
    BY <1>1 DEF Filled
  <2>3. pg[s] \in SUBSET Ids
    OBVIOUS
  <2>4. /\ \E i \in pg[s] : EndOf(s, pg[s]) = ts[s][i]
        /\ \A i \in pg[s] : ts[s][i] <= EndOf(s, pg[s])
    BY <1>inv, <1>1, <2>3, EndOfPage
  <2>5. pg[s] \subseteq After(s)
    BY <2>2 DEF IsPage
  <2>6. /\ LastAfter(pg)[s] \in Times
        /\ LastAfter(pg)[s] \in Int
        /\ last_ts[s] < LastAfter(pg)[s]
        /\ last_ts[s] <= LastAfter(pg)[s]
    <3>1. PICK i \in pg[s] : LastAfter(pg)[s] = ts[s][i]
      BY <2>1, <2>4
    <3>2. i \in Ids /\ ts[s][i] > last_ts[s]
      BY <1>0, <2>5, <3>1 DEF After
    <3> QED BY <1>0, <3>1, <3>2
  <2>7. Later(s, pg) \subseteq After(s)
    <3> SUFFICES ASSUME NEW i \in Later(s, pg) PROVE i \in After(s)
      OBVIOUS
    <3>1. i \in rows[s] /\ ts[s][i] > LastAfter(pg)[s]
      BY DEF Later
    <3>2. ts[s][i] > last_ts[s]
      BY <1>0, <2>6, <3>1
    <3> QED BY <3>1, <3>2 DEF After
  <2>8. \A i \in pg[s] : i \in rows[s] /\ ts[s][i] <= LastAfter(pg)[s]
    BY <2>1, <2>4, <2>5 DEF After
  <2>9. pg[s] \cap read[s] = {}
    BY <1>inv, <1>0, <2>5 DEF After, ReadBehind
  <2>10. ~DoneAfter(pg)[s]
    BY <1>1 DEF DoneAfter, NeedsFill
  <2> QED BY <1>0, <1>1, <2>5, <2>6, <2>7, <2>8, <2>9, <2>10
<1>2. CASE NeedsFill(s) /\ pg[s] = {}
  <2>1. LastAfter(pg)[s] = last_ts[s]
    BY <1>2 DEF LastAfter
  <2>2. After(s) = {}
    BY <1>inv, <1>2, PageNotEmpty DEF Filled
  <2>3. Later(s, pg) = After(s)
    BY <2>1 DEF Later, After
  <2>4. DoneAfter(pg)[s]
    BY <1>2 DEF DoneAfter
  <2>5. page[s] = {}
    BY <1>2 DEF NeedsFill
  <2> QED BY <1>0, <1>2, <2>1, <2>2, <2>3, <2>4, <2>5
<1>3. CASE ~NeedsFill(s)
  <2>1. pg[s] = page[s] /\ LastAfter(pg)[s] = last_ts[s]
    BY <1>3 DEF LastAfter, Filled
  <2>2. Later(s, pg) = After(s)
    BY <2>1 DEF Later, After
  <2>3. DoneAfter(pg)[s] <=> done[s]
    BY <1>3 DEF DoneAfter
  <2>4. page[s] = {} <=> done[s]
    BY <1>inv, <1>0, <1>3 DEF NeedsFill, DoneMeansDrained
  <2>5. /\ \A i \in pg[s] : i \in rows[s] /\ ts[s][i] <= LastAfter(pg)[s]
        /\ pg[s] \cap read[s] = {}
    BY <1>inv, <2>1 DEF PageBehind, ReadBehind
  <2>6. page[s] = {} => After(s) = {}
    BY <1>inv, <2>4 DEF DoneMeansDrained
  <2> QED BY <1>0, <2>1, <2>2, <2>3, <2>4, <2>5, <2>6
<1> QED BY <1>1, <1>2, <1>3

\* The front `next` picks precedes every other row still owed.
LEMMA HeadPrecedesAll ==
    ASSUME IInv, NEW pg \in [Streams -> SUBSET Ids], Filled(pg),
           NEW s \in Streams, NEW i \in Ids, IsHead(pg, s, i),
           NEW r \in Streams, NEW j \in pg[r] \cup Later(r, pg)
    PROVE  \/ ts[s][i] < ts[r][j]
           \/ ts[s][i] = ts[r][j] /\ s <= r
<1>1. CASE j \in pg[r]
  BY <1>1 DEF IsHead
<1>2. CASE j \in Later(r, pg)
  <2>1. pg[r] # {}
    BY <1>2, FillEffect
  <2>2. PICK k \in pg[r] : TRUE
    BY <2>1
  <2>3. ts[r][k] <= LastAfter(pg)[r] /\ LastAfter(pg)[r] \in Int
    BY <2>2, FillEffect DEF Times, NegInf
  <2>4. ts[r][j] > LastAfter(pg)[r] /\ j \in Ids
    BY <1>2 DEF Later, IInv, TypeOK
  <2>5. ts[s][i] <= ts[r][k]
    BY <2>2 DEF IsHead, IInv, TypeOK, Times
  <2>6. ts[s][i] \in Int /\ ts[r][k] \in Int /\ ts[r][j] \in Int
    BY <2>2, <2>4 DEF IInv, TypeOK, Times
  <2> QED BY <2>3, <2>4, <2>5, <2>6
<1> QED BY <1>1, <1>2

\* The steps of `next` and of `rewind` move the cursors like this.
LEMMA CursorsMove ==
    ASSUME IInv, NEW pg \in [Streams -> SUBSET Ids], Filled(pg),
           last_ts' = LastAfter(pg), UNCHANGED recording
    PROVE  /\ \A r \in Streams : After(r)' = Later(r, pg)
           /\ last_ts' \in [Streams -> Times \cup {NegInf}]
           /\ DoneAfter(pg) \in [Streams -> BOOLEAN]
<1>1. \A r \in Streams : After(r)' = Later(r, pg)
  BY DEF After, Later, recording
<1>2. LastAfter(pg) \in [Streams -> Times \cup {NegInf}]
  <2>1. \A r \in Streams : LastAfter(pg)[r] \in Times \cup {NegInf}
    BY FillEffect
  <2> QED BY <2>1 DEF LastAfter
<1>3. DoneAfter(pg) \in [Streams -> BOOLEAN]
  BY DEF DoneAfter, IInv, TypeOK, NeedsFill
<1> QED BY <1>1, <1>2, <1>3

-----------------------------------------------------------------------------
(* The invariant holds initially and is preserved *)

LEMMA InitIInv == Init => IInv
<1> SUFFICES ASSUME Init PROVE IInv
  OBVIOUS
<1>1. TypeOK
  <2>1. PICK r \in Recordings : rows = r.rows /\ ts = r.ts /\ blobs = r.blobs
    BY DEF Init
  <2> QED BY <2>1, DbSourceAssumption DEF Init, TypeOK
<1> QED BY <1>1 DEF Init, IInv, PageBehind, ReadBehind, DoneMeansDrained,
                    LastPrecedesOwed, EndMeansDrained

\* The pop that HandOut and MissingBlob share: row i of stream s leaves the
\* page, the rest of the cursors stay as the fills left them.
LEMMA PopKeepsPages ==
    ASSUME IInv, NEW pg \in [Streams -> SUBSET Ids], Filled(pg),
           last_ts' = LastAfter(pg), done' = DoneAfter(pg), UNCHANGED recording,
           NEW s \in Streams, NEW i \in Ids, i \in pg[s],
           page' = [pg EXCEPT ![s] = @ \ {i}]
    PROVE  /\ page' \in [Streams -> SUBSET Ids]
           /\ \A r \in Streams : page'[r] \subseteq pg[r]
           /\ i \notin page'[s]
           /\ PageBehind'
           /\ DoneMeansDrained'
<1>1. page' \in [Streams -> SUBSET Ids] /\ (\A r \in Streams : page'[r] \subseteq pg[r])
      /\ i \notin page'[s]
  OBVIOUS
<1>2. PageBehind'
  BY <1>1, FillEffect DEF PageBehind, recording
<1>3. DoneMeansDrained'
  <2> SUFFICES ASSUME NEW r \in Streams, done'[r]
               PROVE  page'[r] = {} /\ After(r)' = {}
    BY DEF DoneMeansDrained
  <2>1. pg[r] = {} /\ Later(r, pg) = {}
    BY FillEffect
  <2> QED BY <1>1, <2>1, CursorsMove
<1> QED BY <1>1, <1>2, <1>3

LEMMA HandOutIInv == IInv /\ HandOut => IInv'
<1> SUFFICES ASSUME IInv, HandOut PROVE IInv'
  OBVIOUS
<1>1. PICK pg \in [Streams -> SUBSET Ids] :
        /\ Filled(pg)
        /\ last_ts' = LastAfter(pg)
        /\ done' = DoneAfter(pg)
        /\ \E s \in Streams, i \in Ids :
              /\ IsHead(pg, s, i)
              /\ i \in blobs[s]
              /\ page' = [pg EXCEPT ![s] = @ \ {i}]
              /\ read' = [read EXCEPT ![s] = @ \cup {i}]
              /\ last' = <<s, i>>
  BY DEF HandOut
<1>2. PICK s \in Streams, i \in Ids :
        /\ IsHead(pg, s, i)
        /\ page' = [pg EXCEPT ![s] = @ \ {i}]
        /\ read' = [read EXCEPT ![s] = @ \cup {i}]
        /\ last' = <<s, i>>
  BY <1>1
<1>3. UNCHANGED recording /\ outcome = "reading" /\ outcome' = outcome
  BY DEF HandOut, recording
<1>4. i \in pg[s]
  BY <1>2 DEF IsHead
<1>5. /\ page' \in [Streams -> SUBSET Ids]
      /\ \A r \in Streams : page'[r] \subseteq pg[r]
      /\ i \notin page'[s]
      /\ PageBehind'
      /\ DoneMeansDrained'
  BY <1>1, <1>2, <1>3, <1>4, PopKeepsPages
<1>6. TypeOK'
  <2>1. read' \in [Streams -> SUBSET Ids] /\ last' \in Streams \X Ids
    BY <1>2 DEF IInv, TypeOK
  <2>2. last_ts' \in [Streams -> Times \cup {NegInf}] /\ done' \in [Streams -> BOOLEAN]
    BY <1>1, <1>3, CursorsMove
  <2> QED BY <1>3, <1>5, <2>1, <2>2 DEF IInv, TypeOK, recording
<1>7. ReadBehind'
  <2> SUFFICES ASSUME NEW r \in Streams, NEW j \in read'[r]
               PROVE  j \in rows[r] /\ ts[r][j] <= last_ts'[r] /\ j \notin page'[r]
    BY <1>3 DEF ReadBehind, recording
  <2>1. CASE j \in read[r]
    <3>1. j \in rows[r] /\ ts[r][j] <= last_ts[r] /\ j \in Ids
      BY <2>1 DEF IInv, ReadBehind, TypeOK
    <3>2. last_ts[r] <= last_ts'[r] /\ j \notin pg[r]
      BY <1>1, <2>1, FillEffect
    <3>3. ts[r][j] \in Int /\ last_ts[r] \in Int /\ last_ts'[r] \in Int
      BY <1>6, <3>1 DEF IInv, TypeOK, Times, NegInf
    <3> QED BY <1>5, <3>1, <3>2, <3>3
  <2>2. CASE j \notin read[r]
    <3>1. r = s /\ j = i
      BY <1>2, <2>2 DEF IInv, TypeOK
    <3> QED BY <1>1, <1>4, <1>5, <3>1, FillEffect
  <2> QED BY <2>1, <2>2
<1>8. LastPrecedesOwed'
  <2> SUFFICES ASSUME NEW r \in Streams, NEW j \in page'[r] \cup After(r)'
               PROVE  \/ ts[s][i] < ts[r][j]
                      \/ ts[s][i] = ts[r][j] /\ s <= r
    BY <1>2, <1>3 DEF LastPrecedesOwed, recording
  <2>1. j \in pg[r] \cup Later(r, pg)
    BY <1>1, <1>3, <1>5, CursorsMove
  <2> QED BY <1>1, <1>2, <2>1, HeadPrecedesAll
<1>9. EndMeansDrained'
  BY <1>3 DEF EndMeansDrained
<1> QED BY <1>5, <1>6, <1>7, <1>8, <1>9 DEF IInv

LEMMA MissingBlobIInv == IInv /\ MissingBlob => IInv'
<1> SUFFICES ASSUME IInv, MissingBlob PROVE IInv'
  OBVIOUS
<1>1. PICK pg \in [Streams -> SUBSET Ids] :
        /\ Filled(pg)
        /\ last_ts' = LastAfter(pg)
        /\ done' = DoneAfter(pg)
        /\ \E s \in Streams, i \in Ids :
              /\ IsHead(pg, s, i)
              /\ i \notin blobs[s]
              /\ page' = [pg EXCEPT ![s] = @ \ {i}]
  BY DEF MissingBlob
<1>2. PICK s \in Streams, i \in Ids :
        IsHead(pg, s, i) /\ page' = [pg EXCEPT ![s] = @ \ {i}]
  BY <1>1
<1>3. UNCHANGED recording /\ UNCHANGED <<read, last>> /\ outcome' = "error"
  BY DEF MissingBlob, recording
<1>4. /\ page' \in [Streams -> SUBSET Ids]
      /\ \A r \in Streams : page'[r] \subseteq pg[r]
      /\ PageBehind'
      /\ DoneMeansDrained'
  BY <1>1, <1>2, <1>3, PopKeepsPages DEF IsHead
<1>5. last_ts' \in [Streams -> Times \cup {NegInf}] /\ done' \in [Streams -> BOOLEAN]
  BY <1>1, <1>3, CursorsMove
<1>6. TypeOK'
  BY <1>3, <1>4, <1>5 DEF IInv, TypeOK, recording
<1>7. ReadBehind'
  <2> SUFFICES ASSUME NEW r \in Streams, NEW j \in read[r]
               PROVE  j \in rows[r] /\ ts[r][j] <= last_ts'[r] /\ j \notin page'[r]
    BY <1>3 DEF ReadBehind, recording
  <2>1. j \in rows[r] /\ ts[r][j] <= last_ts[r] /\ j \in Ids
    BY DEF IInv, ReadBehind, TypeOK
  <2>2. last_ts[r] <= last_ts'[r] /\ j \notin pg[r]
    BY <1>1, FillEffect
  <2>3. ts[r][j] \in Int /\ last_ts[r] \in Int /\ last_ts'[r] \in Int
    BY <1>6, <2>1 DEF IInv, TypeOK, Times, NegInf
  <2> QED BY <1>4, <2>1, <2>2, <2>3
<1>8. LastPrecedesOwed'
  <2>1. \A r \in Streams : page'[r] \cup After(r)' \subseteq page[r] \cup After(r)
    BY <1>1, <1>3, <1>4, CursorsMove, FillEffect
  <2> QED BY <1>3, <2>1 DEF IInv, LastPrecedesOwed, recording
<1>9. EndMeansDrained'
  BY <1>3 DEF EndMeansDrained
<1> QED BY <1>4, <1>6, <1>7, <1>8, <1>9 DEF IInv

LEMMA ExhaustedIInv == IInv /\ Exhausted => IInv'
<1> SUFFICES ASSUME IInv, Exhausted PROVE IInv'
  OBVIOUS
<1>1. PICK pg \in [Streams -> SUBSET Ids] :
        /\ Filled(pg)
        /\ \A s \in Streams : pg[s] = {}
        /\ last_ts' = LastAfter(pg)
        /\ done' = DoneAfter(pg)
        /\ page' = pg
  BY DEF Exhausted
<1>2. UNCHANGED recording /\ UNCHANGED <<read, last>> /\ outcome' = "end"
  BY DEF Exhausted, recording
<1>3. \A r \in Streams : page'[r] = {} /\ After(r)' = {}
  BY <1>1, <1>2, CursorsMove, FillEffect
<1>4. last_ts' \in [Streams -> Times \cup {NegInf}] /\ done' \in [Streams -> BOOLEAN]
  BY <1>1, <1>2, CursorsMove
<1>5. TypeOK'
  BY <1>1, <1>2, <1>4 DEF IInv, TypeOK, recording
<1>6. ReadBehind'
  <2> SUFFICES ASSUME NEW r \in Streams, NEW j \in read[r]
               PROVE  j \in rows[r] /\ ts[r][j] <= last_ts'[r]
    BY <1>2, <1>3 DEF ReadBehind, recording
  <2>1. j \in rows[r] /\ ts[r][j] <= last_ts[r] /\ j \in Ids
    BY DEF IInv, ReadBehind, TypeOK
  <2>2. last_ts[r] <= last_ts'[r]
    BY <1>1, FillEffect
  <2>3. ts[r][j] \in Int /\ last_ts[r] \in Int /\ last_ts'[r] \in Int
    BY <1>5, <2>1 DEF IInv, TypeOK, Times, NegInf
  <2> QED BY <2>1, <2>2, <2>3
<1> QED BY <1>3, <1>5, <1>6
        DEF IInv, PageBehind, DoneMeansDrained, LastPrecedesOwed, EndMeansDrained

LEMMA RewindIInv == IInv /\ Rewind => IInv'
BY DEF IInv, TypeOK, PageBehind, ReadBehind, DoneMeansDrained, LastPrecedesOwed,
       EndMeansDrained, Rewind, recording

LEMMA StutterIInv == IInv /\ UNCHANGED vars => IInv'
BY DEF IInv, TypeOK, PageBehind, ReadBehind, DoneMeansDrained, LastPrecedesOwed,
       EndMeansDrained, After, vars

\* The inductive invariant: cursors never fall behind what they fetched, and
\* `done` is raised only on a drained stream.
THEOREM Invariance == Spec => []IInv
<1>1. IInv /\ [Next]_vars => IInv'
  BY HandOutIInv, MissingBlobIInv, ExhaustedIInv, RewindIInv, StutterIInv DEF Next
<1> QED BY InitIInv, <1>1, PTL DEF Spec

\* Every variable of the reader keeps its type.
THEOREM TypeCorrect == Spec => []TypeOK
<1>1. IInv => TypeOK
  BY DEF IInv
<1> QED BY <1>1, Invariance, PTL

\* The `done` flag of source.rs is raised only on a cursor that owes nothing.
THEOREM DoneIsDrained == Spec => []DoneMeansDrained
<1>1. IInv => DoneMeansDrained
  BY DEF IInv
<1> QED BY <1>1, Invariance, PTL

-----------------------------------------------------------------------------
(* Order, and no row twice: whatever the timestamps are *)

\* The row a call of `next` returns was owed, and not returned before.
LEMMA HandsOutOwed ==
    ASSUME IInv, HandOut
    PROVE  \E s \in Streams, i \in Ids :
              /\ last' = <<s, i>>
              /\ i \in page[s] \cup After(s)
              /\ i \notin read[s]
<1>1. PICK pg \in [Streams -> SUBSET Ids] :
        /\ Filled(pg)
        /\ \E s \in Streams, i \in Ids : IsHead(pg, s, i) /\ last' = <<s, i>>
  BY DEF HandOut
<1>2. PICK s \in Streams, i \in Ids : IsHead(pg, s, i) /\ last' = <<s, i>>
  BY <1>1
<1>3. i \in pg[s]
  BY <1>2 DEF IsHead
<1> QED BY <1>1, <1>2, <1>3, FillEffect

\* Rows come out in merge order, across streams and page boundaries.
THEOREM MergeOrder == Spec => InMergeOrder
<1> DEFINE Step ==
       (last # None /\ last' # None /\ last' # last) =>
          \/ ts[last[1]][last[2]] < ts[last'[1]][last'[2]]
          \/ ts[last[1]][last[2]] = ts[last'[1]][last'[2]] /\ last[1] <= last'[1]
<1>1. ASSUME IInv, [Next]_vars PROVE Step
  <2>1. CASE HandOut
    <3>1. PICK s \in Streams, i \in Ids :
            last' = <<s, i>> /\ i \in page[s] \cup After(s)
      BY <1>1, <2>1, HandsOutOwed
    <3> QED BY <1>1, <3>1 DEF IInv, LastPrecedesOwed
  <2>2. CASE MissingBlob \/ Exhausted \/ Rewind \/ UNCHANGED vars
    BY <2>2 DEF MissingBlob, Exhausted, Rewind, vars
  <2> QED BY <1>1, <2>1, <2>2 DEF Next
<1>2. IInv /\ [Next]_vars => [Step]_vars
  BY <1>1
<1>3. Spec => [][Step]_vars
  <2> HIDE DEF Step
  <2> QED BY <1>2, Invariance, PTL DEF Spec
<1> QED BY <1>3 DEF InMergeOrder

\* Within a pass no row comes out twice.
THEOREM NoRowTwice == Spec => NeverTwice
<1> DEFINE Step == HandOut => last'[2] \notin read[last'[1]]
<1>1. ASSUME IInv PROVE Step
  <2> SUFFICES ASSUME HandOut PROVE last'[2] \notin read[last'[1]]
    OBVIOUS
  <2>1. PICK s \in Streams, i \in Ids : last' = <<s, i>> /\ i \notin read[s]
    BY <1>1, HandsOutOwed
  <2> QED BY <2>1
<1>2. Spec => [][Step]_vars
  <2> HIDE DEF Step
  <2> QED BY <1>1, Invariance, PTL DEF Spec
<1> QED BY <1>2 DEF NeverTwice

-----------------------------------------------------------------------------
(* Completeness: with distinct timestamps nothing falls between two pages *)

Distinct ==
    \A s \in Streams : \A i, j \in rows[s] : ts[s][i] = ts[s][j] => i = j

NothingSkipped ==
    outcome # "error" =>
        \A s \in Streams : rows[s] \subseteq read[s] \cup page[s] \cup After(s)

\* A query returns every row below the timestamp it stops at.
LEMMA FillSkipsNothing ==
    ASSUME IInv, Distinct, NEW pg \in [Streams -> SUBSET Ids], Filled(pg),
           NEW s \in Streams
    PROVE  page[s] \cup After(s) \subseteq pg[s] \cup Later(s, pg)
<1>1. CASE NeedsFill(s) /\ pg[s] # {}
  <2> SUFFICES ASSUME NEW j \in After(s), j \notin pg[s]
               PROVE  j \in Later(s, pg)
    BY <1>1 DEF NeedsFill
  <2>1. IsPage(s, pg[s]) /\ LastAfter(pg)[s] = EndOf(s, pg[s])
    BY <1>1 DEF Filled, LastAfter
  <2>2. PICK i \in pg[s] : EndOf(s, pg[s]) = ts[s][i]
    <3>1. pg[s] \in SUBSET Ids
      OBVIOUS
    <3> QED BY <1>1, <3>1, EndOfPage DEF IInv
  <2>3. ts[s][i] <= ts[s][j]
    BY <2>1, <2>2 DEF IsPage
  <2>4. i \in rows[s] /\ j \in rows[s] /\ i # j
    BY <2>1, <2>2 DEF IsPage, After
  <2>5. ts[s][i] # ts[s][j]
    BY <2>4 DEF Distinct
  <2>6. ts[s][i] \in Int /\ ts[s][j] \in Int
    BY <2>4 DEF IInv, TypeOK, Times
  <2>7. ts[s][j] > ts[s][i]
    BY <2>3, <2>5, <2>6
  <2> QED BY <2>1, <2>2, <2>4, <2>7 DEF Later
<1>2. CASE NeedsFill(s) /\ pg[s] = {}
  BY <1>2, FillEffect
<1>3. CASE ~NeedsFill(s)
  <2>1. pg[s] = page[s] /\ LastAfter(pg)[s] = last_ts[s]
    BY <1>3 DEF LastAfter, Filled
  <2> QED BY <2>1 DEF Later, After
<1> QED BY <1>1, <1>2, <1>3

LEMMA NothingSkippedStep ==
    ASSUME IInv, Distinct, NothingSkipped, [Next]_vars
    PROVE  Distinct' /\ NothingSkipped'
<1>1. Distinct'
  BY DEF Distinct, Next, HandOut, MissingBlob, Exhausted, Rewind, recording, vars
<1>2. CASE HandOut
  <2>1. PICK pg \in [Streams -> SUBSET Ids] :
          /\ Filled(pg)
          /\ last_ts' = LastAfter(pg)
          /\ \E s \in Streams, i \in Ids :
                /\ page' = [pg EXCEPT ![s] = @ \ {i}]
                /\ read' = [read EXCEPT ![s] = @ \cup {i}]
    BY <1>2 DEF HandOut
  <2>2. PICK s \in Streams, i \in Ids :
          /\ page' = [pg EXCEPT ![s] = @ \ {i}]
          /\ read' = [read EXCEPT ![s] = @ \cup {i}]
    BY <2>1
  <2>3. UNCHANGED recording /\ outcome = "reading"
    BY <1>2 DEF HandOut, recording
  <2> SUFFICES ASSUME NEW r \in Streams, NEW j \in rows[r]
               PROVE  j \in read'[r] \cup page'[r] \cup After(r)'
    BY <1>1, <2>3 DEF NothingSkipped, recording
  <2>4. j \in read[r] \cup pg[r] \cup Later(r, pg)
    BY <2>1, <2>3, FillSkipsNothing DEF NothingSkipped
  <2>5. After(r)' = Later(r, pg)
    BY <2>1, <2>3, CursorsMove
  <2>6. read[r] \cup pg[r] \subseteq read'[r] \cup page'[r]
    BY <2>2 DEF IInv, TypeOK
  <2> QED BY <2>4, <2>5, <2>6
<1>3. CASE MissingBlob
  BY <1>1, <1>3 DEF MissingBlob, NothingSkipped
<1>4. CASE Exhausted
  <2>1. PICK pg \in [Streams -> SUBSET Ids] :
          Filled(pg) /\ last_ts' = LastAfter(pg) /\ page' = pg
    BY <1>4 DEF Exhausted
  <2>2. UNCHANGED recording /\ UNCHANGED read /\ outcome = "reading"
    BY <1>4 DEF Exhausted, recording
  <2> SUFFICES ASSUME NEW r \in Streams, NEW j \in rows[r]
               PROVE  j \in read[r] \cup page'[r] \cup After(r)'
    BY <1>1, <2>2 DEF NothingSkipped, recording
  <2>3. j \in read[r] \cup pg[r] \cup Later(r, pg)
    BY <2>1, <2>2, FillSkipsNothing DEF NothingSkipped
  <2> QED BY <2>1, <2>2, <2>3, CursorsMove
<1>5. CASE Rewind
  <2> SUFFICES ASSUME NEW r \in Streams, NEW j \in rows[r]
               PROVE  ts[r][j] > NegInf
    BY <1>1, <1>5 DEF NothingSkipped, Rewind, recording, After
  <2> QED BY DEF IInv, TypeOK, Times, NegInf
<1>6. CASE UNCHANGED vars
  BY <1>1, <1>6 DEF NothingSkipped, After, vars
<1> QED BY <1>1, <1>2, <1>3, <1>4, <1>5, <1>6 DEF Next

LEMMA InitNothingSkipped ==
    ASSUME DistinctTimes, Init PROVE Distinct /\ NothingSkipped
<1>1. IInv
  BY InitIInv
<1>2. PICK r \in Recordings : rows = r.rows /\ ts = r.ts
  BY DEF Init
<1>3. Distinct
  BY <1>2 DEF DistinctTimes, Distinct
<1>4. \A s \in Streams : After(s) = rows[s]
  BY <1>1 DEF Init, After, IInv, TypeOK, Times, NegInf
<1> QED BY <1>3, <1>4 DEF NothingSkipped

LEMMA CompleteInvariance ==
    ASSUME DistinctTimes PROVE Spec => [](IInv /\ Distinct /\ NothingSkipped)
<1>1. IInv /\ Distinct /\ NothingSkipped /\ [Next]_vars
         => (Distinct /\ NothingSkipped)'
  BY NothingSkippedStep
<1>2. Init => Distinct /\ NothingSkipped
  BY InitNothingSkipped
<1> QED BY <1>1, <1>2, Invariance, PTL DEF Spec

\* With distinct timestamps within a stream, a pass that ends has handed out
\* every row: no page boundary swallows one.
THEOREM Completeness ==
    ASSUME DistinctTimes PROVE Spec => []EveryRowRead
<1>1. IInv /\ NothingSkipped => EveryRowRead
  <2> SUFFICES ASSUME IInv, NothingSkipped, outcome = "end"
               PROVE  read = rows
    BY DEF EveryRowRead
  <2>1. \A s \in Streams : read[s] = rows[s]
    BY DEF IInv, NothingSkipped, EndMeansDrained, ReadBehind
  <2> QED BY <2>1 DEF IInv, TypeOK
<1> QED BY <1>1, CompleteInvariance, PTL

-----------------------------------------------------------------------------
(* Refinement: with distinct timestamps paging cannot be observed *)

\* What a call of `next` takes from the page is what the merge would take.
LEMMA HeadIsEarliest ==
    ASSUME IInv, Distinct, NEW pg \in [Streams -> SUBSET Ids], Filled(pg),
           last_ts' = LastAfter(pg), UNCHANGED recording,
           NEW s \in Streams, NEW i \in Ids, IsHead(pg, s, i),
           page' = [pg EXCEPT ![s] = @ \ {i}]
    PROVE  Abstract!Earliest(<<s, i>>) /\ Owed' = Owed \ {<<s, i>>}
<1>1. \A r \in Streams : page[r] \cup After(r) = pg[r] \cup Later(r, pg)
  BY FillEffect, FillSkipsNothing
<1>2. i \in pg[s]
  BY DEF IsHead
<1>3. <<s, i>> \in Owed
  BY <1>1, <1>2 DEF Owed
<1>4. ASSUME NEW n \in Owed PROVE Abstract!Precedes(<<s, i>>, n)
  <2>1. n[1] \in Streams /\ n[2] \in pg[n[1]] \cup Later(n[1], pg)
    BY <1>1 DEF Owed
  <2>2. \/ ts[s][i] < ts[n[1]][n[2]]
        \/ ts[s][i] = ts[n[1]][n[2]] /\ s <= n[1]
    BY <2>1, HeadPrecedesAll
  <2> QED BY <2>2 DEF Abstract!Precedes, Abstract!TimeOf
<1>5. i \notin Later(s, pg)
  <2>1. ts[s][i] <= LastAfter(pg)[s] /\ LastAfter(pg)[s] \in Int
    BY <1>2, FillEffect DEF Times, NegInf
  <2>2. ts[s][i] \in Int
    BY DEF IInv, TypeOK, Times
  <2> QED BY <2>1, <2>2 DEF Later
<1>6. Owed' = Owed \ {<<s, i>>}
  <2>1. \A r \in Streams : After(r)' = Later(r, pg)
    BY CursorsMove
  <2>2. \A r \in Streams : page'[r] \cup After(r)' =
            (page[r] \cup After(r)) \ (IF r = s THEN {i} ELSE {})
    BY <1>1, <1>5, <2>1
  <2>3. Owed' = {m \in Streams \X Ids : m[2] \in page'[m[1]] \cup After(m[1])'}
    BY DEF Owed
  <2>4. \A m \in Streams \X Ids : m \in Owed' <=> m \in Owed /\ m # <<s, i>>
    BY <2>2, <2>3 DEF Owed
  <2> QED BY <2>3, <2>4 DEF Owed
<1> QED BY <1>3, <1>4, <1>6 DEF Abstract!Earliest

LEMMA InitRefines ==
    ASSUME DistinctTimes, Init PROVE Abstract!Init
<1>1. IInv
  BY InitIInv
<1>2. \A s \in Streams : page[s] \cup After(s) = rows[s]
  BY <1>1 DEF Init, After, IInv, TypeOK, Times, NegInf
<1>3. Owed = Abstract!AllRows
  BY <1>2 DEF Owed, Abstract!AllRows
<1> QED BY <1>3 DEF Init, Abstract!Init, None, Abstract!None

LEMMA StepRefines ==
    ASSUME IInv, Distinct, [Next]_vars
    PROVE  [Abstract!Next]_(Abstract!vars)
<1>1. CASE HandOut
  <2>1. PICK pg \in [Streams -> SUBSET Ids] :
          /\ Filled(pg)
          /\ last_ts' = LastAfter(pg)
          /\ \E s \in Streams, i \in Ids :
                /\ IsHead(pg, s, i)
                /\ i \in blobs[s]
                /\ page' = [pg EXCEPT ![s] = @ \ {i}]
                /\ last' = <<s, i>>
    BY <1>1 DEF HandOut
  <2>2. PICK s \in Streams, i \in Ids :
          /\ IsHead(pg, s, i)
          /\ i \in blobs[s]
          /\ page' = [pg EXCEPT ![s] = @ \ {i}]
          /\ last' = <<s, i>>
    BY <2>1
  <2>3. UNCHANGED recording /\ outcome = "reading" /\ outcome' = outcome
    BY <1>1 DEF HandOut, recording
  <2>4. Abstract!Earliest(<<s, i>>) /\ Owed' = Owed \ {<<s, i>>}
    BY <2>1, <2>2, <2>3, HeadIsEarliest
  <2>5. Abstract!HandOut
    BY <2>2, <2>3, <2>4
       DEF Abstract!HandOut, Abstract!Earliest, Abstract!Recording, recording
  <2> QED BY <2>5 DEF Abstract!Next
<1>2. CASE MissingBlob
  <2>1. PICK pg \in [Streams -> SUBSET Ids] :
          /\ Filled(pg)
          /\ last_ts' = LastAfter(pg)
          /\ \E s \in Streams, i \in Ids :
                /\ IsHead(pg, s, i)
                /\ i \notin blobs[s]
                /\ page' = [pg EXCEPT ![s] = @ \ {i}]
    BY <1>2 DEF MissingBlob
  <2>2. PICK s \in Streams, i \in Ids :
          /\ IsHead(pg, s, i)
          /\ i \notin blobs[s]
          /\ page' = [pg EXCEPT ![s] = @ \ {i}]
    BY <2>1
  <2>3. /\ UNCHANGED recording /\ outcome = "reading" /\ outcome' = "error"
        /\ last' = last
    BY <1>2 DEF MissingBlob, recording
  <2>4. Abstract!Earliest(<<s, i>>) /\ Owed' = Owed \ {<<s, i>>}
    BY <2>1, <2>2, <2>3, HeadIsEarliest
  <2>5. Abstract!Fail
    BY <2>2, <2>3, <2>4
       DEF Abstract!Fail, Abstract!Earliest, Abstract!Recording, recording
  <2> QED BY <2>5 DEF Abstract!Next
<1>3. CASE Exhausted
  <2>1. PICK pg \in [Streams -> SUBSET Ids] :
          /\ Filled(pg)
          /\ \A s \in Streams : pg[s] = {}
          /\ last_ts' = LastAfter(pg)
          /\ page' = pg
    BY <1>3 DEF Exhausted
  <2>2. /\ UNCHANGED recording /\ outcome = "reading" /\ outcome' = "end"
        /\ last' = last
    BY <1>3 DEF Exhausted, recording
  <2>3. /\ \A r \in Streams : page[r] \cup After(r) = {}
        /\ \A r \in Streams : page'[r] \cup After(r)' = {}
    BY <2>1, <2>2, FillEffect, CursorsMove
  <2>4. Owed = {} /\ Owed' = {}
    BY <2>3 DEF Owed
  <2>5. Abstract!End
    BY <2>2, <2>4 DEF Abstract!End, Abstract!Recording, recording
  <2> QED BY <2>5 DEF Abstract!Next
<1>4. CASE Rewind
  <2>1. /\ UNCHANGED recording /\ outcome # "error" /\ outcome' = "reading"
        /\ last' = None
        /\ \A r \in Streams : page'[r] = {} /\ last_ts'[r] = NegInf
    BY <1>4 DEF Rewind, recording
  <2>2. \A r \in Streams : After(r)' = rows[r]
    BY <2>1 DEF After, IInv, TypeOK, Times, NegInf, recording
  <2>3. Owed' = {m \in Streams \X Ids : m[2] \in page'[m[1]] \cup After(m[1])'}
    BY DEF Owed
  <2>4. Owed' = Abstract!AllRows
    BY <2>1, <2>2, <2>3 DEF Abstract!AllRows
  <2>5. Abstract!Restart
    BY <2>1, <2>4
       DEF Abstract!Restart, Abstract!Recording, recording, None, Abstract!None
  <2> QED BY <2>5 DEF Abstract!Next
<1>5. CASE UNCHANGED vars
  BY <1>5 DEF vars, Abstract!vars, Owed, After
<1> QED BY <1>1, <1>2, <1>3, <1>4, <1>5 DEF Next

\* The paged reader implements the merge with no pages: every step is a step
\* of MergedReplay or leaves it where it was.
THEOREM Refinement ==
    ASSUME DistinctTimes PROVE Spec => ImplementsMergedReplay
<1>1. Init => Abstract!Init
  BY InitRefines
<1>2. IInv /\ Distinct /\ [Next]_vars => [Abstract!Next]_(Abstract!vars)
  BY StepRefines
<1>3. Spec => Abstract!Spec
  BY <1>1, <1>2, CompleteInvariance, PTL DEF Spec, Abstract!Spec
<1> QED BY <1>3 DEF ImplementsMergedReplay
=============================================================================
