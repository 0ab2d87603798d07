---------------------------- MODULE PayloadProofs ---------------------------
(***************************************************************************)
(* The two modules about the bytes of a message: Stamps, what              *)
(* Retimer::apply writes into an LCM payload, for payloads of any length,  *)
(* any clock rate and any widths of seconds and nanoseconds; and Cdr, what *)
(* to_cdr writes for a message of any shape and what from_cdr and a viewer *)
(* that follows the schema read back.                                      *)
(***************************************************************************)
EXTENDS Stamps, Cdr, SequenceTheorems, TLAPS

-----------------------------------------------------------------------------
(* Arithmetic *)

LEMMA Quotient ==
    ASSUME NEW n \in Int, NEW d \in Nat \ {0}
    PROVE  /\ n \div d \in Int /\ n % d \in 0..d - 1
           /\ n = d * (n \div d) + (n % d)
OBVIOUS

LEMMA Product == ASSUME NEW a \in Int, NEW b \in Int PROVE a * b \in Int /\ a * b = b * a
OBVIOUS

LEMMA Times ==
    ASSUME NEW a \in Int, NEW b \in Int, a <= b, NEW p \in Nat
    PROVE  a * p <= b * p
OBVIOUS

\* The quotient is the only number within d below n.
LEMMA QuotientBounds ==
    ASSUME NEW n \in Int, NEW d \in Nat \ {0}
    PROVE  /\ n \div d \in Int
           /\ d * (n \div d) <= n /\ n < d * (n \div d) + d
<1>1. n \div d \in Int /\ d * (n \div d) \in Int /\ n % d \in 0..d - 1
  BY Quotient, Product
<1>2. n = d * (n \div d) + (n % d)
  BY Quotient
<1> QED BY <1>1, <1>2

LEMMA QuotientMonotone ==
    ASSUME NEW m \in Int, NEW n \in Int, m <= n, NEW d \in Nat \ {0}
    PROVE  m \div d <= n \div d
<1> DEFINE p == m \div d
           q == n \div d
<1>1. p \in Int /\ q \in Int /\ d * p <= m /\ n < d * q + d /\ d * p \in Int /\ d * q \in Int
  BY QuotientBounds, Product
<1>2. d * p < d * q + d
  BY <1>1
<1> HIDE DEF p, q
<1>3. ~(q + 1 <= p)
  <2> SUFFICES ASSUME q + 1 <= p PROVE FALSE
    OBVIOUS
  <2>1. (q + 1) * d <= p * d
    BY <1>1, Times
  <2>2. (q + 1) * d = d * q + d /\ p * d = d * p
    BY <1>1
  <2> QED BY <1>1, <1>2, <2>1, <2>2
<1> QED BY <1>1, <1>3 DEF p, q

\* Rounding is off by half a unit at most.
LEMMA RoundedNear ==
    ASSUME NEW n \in Int, NEW d \in Nat \ {0}
    PROVE  /\ Rounded(n, d) \in Int
           /\ 2 * (Rounded(n, d) * d - n) \in -d..d
<1>1. CASE n >= 0
  <2> DEFINE q == (2 * n + d) \div (2 * d)
  <2>1. 2 * n + d \in Int /\ 2 * d \in Nat \ {0}
    OBVIOUS
  <2>2. q \in Int /\ (2 * d) * q <= 2 * n + d /\ 2 * n + d < (2 * d) * q + 2 * d
    BY <2>1, QuotientBounds
  <2>3. Rounded(n, d) = q
    BY <1>1 DEF Rounded
  <2> HIDE DEF q
  <2>4. (2 * d) * q = 2 * (q * d) /\ q * d \in Int
    BY <2>2
  <2> QED BY <2>2, <2>3, <2>4
<1>2. CASE n < 0
  <2> DEFINE q == (-2 * n + d) \div (2 * d)
  <2>1. -2 * n + d \in Int /\ 2 * d \in Nat \ {0}
    OBVIOUS
  <2>2. q \in Int /\ (2 * d) * q <= -2 * n + d /\ -2 * n + d < (2 * d) * q + 2 * d
    BY <2>1, QuotientBounds
  <2>3. Rounded(n, d) = -q
    BY <1>2 DEF Rounded
  <2> HIDE DEF q
  <2>4. (2 * d) * q = 2 * (q * d) /\ q * d \in Int /\ (-q) * d = -(q * d)
    BY <2>2
  <2> QED BY <2>2, <2>3, <2>4
<1> QED BY <1>1, <1>2

LEMMA RoundedMonotone ==
    ASSUME NEW m \in Int, NEW n \in Int, m <= n, NEW d \in Nat \ {0}
    PROVE  Rounded(m, d) <= Rounded(n, d)
<1>0. 2 * d \in Nat \ {0}
  OBVIOUS
<1>1. CASE m >= 0
  <2>1. 2 * m + d <= 2 * n + d
    OBVIOUS
  <2> QED BY <1>0, <1>1, <2>1, QuotientMonotone DEF Rounded
<1>2. CASE n < 0
  <2>1. -2 * n + d <= -2 * m + d
    OBVIOUS
  <2>2. (-2 * n + d) \div (2 * d) <= (-2 * m + d) \div (2 * d)
    BY <1>0, <2>1, QuotientMonotone
  <2>3. (-2 * n + d) \div (2 * d) \in Int /\ (-2 * m + d) \div (2 * d) \in Int
    BY <1>0, QuotientBounds
  <2>4. /\ Rounded(n, d) = -((-2 * n + d) \div (2 * d))
        /\ Rounded(m, d) = -((-2 * m + d) \div (2 * d))
    BY <1>2 DEF Rounded
  <2> QED BY <2>2, <2>3, <2>4
<1>3. CASE m < 0 /\ n >= 0
  <2>1. 0 \div (2 * d) = 0
    BY <1>0
  <2>2. /\ 0 \div (2 * d) <= (2 * n + d) \div (2 * d)
        /\ 0 \div (2 * d) <= (-2 * m + d) \div (2 * d)
    <3>1. 0 <= 2 * n + d /\ 0 <= -2 * m + d
      BY <1>3
    <3> QED BY <1>0, <3>1, QuotientMonotone
  <2>3. (2 * n + d) \div (2 * d) \in Int /\ (-2 * m + d) \div (2 * d) \in Int
    BY <1>0, QuotientBounds
  <2>4. /\ Rounded(n, d) = (2 * n + d) \div (2 * d)
        /\ Rounded(m, d) = -((-2 * m + d) \div (2 * d))
    BY <1>3 DEF Rounded
  <2> QED BY <2>1, <2>2, <2>3, <2>4
<1> QED BY <1>1, <1>2, <1>3

-----------------------------------------------------------------------------
(* The state *)

Message == [received : Nat, words : Seq(Int)]

Ready ==
    /\ kind \in KINDS
    /\ recording \in Seq(Message)
    /\ retimer.mode \in {"scaled", "shifted", "original"}
    /\ retimer.first \in Nat /\ retimer.wall \in Nat
    /\ retimer.rate[1] \in Nat \ {0} /\ retimer.rate[2] \in Nat \ {0}

\* What apply() made of each message so far.
Written ==
    /\ failed \in BOOLEAN
    /\ outputs \in Seq([words : Seq(Int), restamped : BOOLEAN])
    /\ Len(outputs) <= Len(recording)
    /\ \A n \in 1..Len(outputs) :
          IF retimer.mode = "original" THEN outputs[n].words = recording[n].words
          ELSE /\ ~TooShort(kind, recording[n].words)
               /\ outputs[n].words = Patched(recording[n])

IInv == Ready /\ Written

LEMMA LeadType == ASSUME NEW k PROVE Lead(k) \in Nat /\ Lead(k) >= 2
BY DEF Lead, Lengths

\* A payload of any type, whole or cut short, is a sequence of words.
LEMMA PayloadType ==
    ASSUME NEW k, NEW n \in Nat, NEW parts \in [1..n -> PARTS],
           k \notin TfKinds => n = 1
    PROVE  /\ Payload(k, parts) \in Seq(Int)
           /\ Cut(Payload(k, parts)) \in Seq(Int)
<1>1. /\ Len(parts) = n
      /\ \A i \in 1..n : parts[i][1] \in Int /\ parts[i][2] \in Int
  BY StampsAssumption
<1>2. \E m \in Nat : m >= 2 /\ Payload(k, parts) \in [1..m -> Int]
  <2>1. CASE k \in TfKinds
    <3>1. \A w \in 1..(3 + 4 * n) : w > 3 /\ w % 4 \in {1, 2} => (w - 1) \div 4 \in 1..n
      OBVIOUS
    <3>2. Payload(k, parts) = [w \in 1..(3 + 4 * n) |->
                                 IF w = 3 THEN n
                                 ELSE IF w > 3 /\ w % 4 \in {1, 2}
                                      THEN parts[(w - 1) \div 4][IF w % 4 = 1 THEN 1 ELSE 2]
                                      ELSE -w]
      BY <1>1, <2>1 DEF Payload
    <3>3. \A w \in 1..(3 + 4 * n) :
             (IF w = 3 THEN n
              ELSE IF w > 3 /\ w % 4 \in {1, 2}
                   THEN parts[(w - 1) \div 4][IF w % 4 = 1 THEN 1 ELSE 2]
                   ELSE -w) \in Int
      <4> TAKE w \in 1..(3 + 4 * n)
      <4>1. CASE w > 3 /\ w % 4 \in {1, 2}
        BY <1>1, <3>1, <4>1
      <4>2. CASE ~(w > 3 /\ w % 4 \in {1, 2})
        BY <4>2
      <4> QED BY <4>1, <4>2
    <3>4. Payload(k, parts) \in [1..(3 + 4 * n) -> Int]
      BY <3>2, <3>3
    <3> QED BY <3>4
  <2>2. CASE k \notin TfKinds
    <3>1. Payload(k, parts) \in [1..(Lead(k) + 3) -> Int]
      BY <1>1, <2>2, LeadType DEF Payload
    <3> QED BY <3>1, LeadType
  <2> QED BY <2>1, <2>2
<1>3. PICK m \in Nat : m >= 2 /\ Payload(k, parts) \in [1..m -> Int]
  BY <1>2
<1>4. Payload(k, parts) \in Seq(Int) /\ Len(Payload(k, parts)) = m
  BY <1>3
<1> QED BY <1>3, <1>4 DEF Cut

LEMMA RecordingType ==
    ASSUME NEW k \in KINDS, NEW r \in Recordings(k)
    PROVE  r \in Seq(Message) /\ Len(r) >= 1
<1> DEFINE parts == UNION {[1..n -> PARTS] : n \in IF k \in TfKinds THEN LENGTHS ELSE {1}}
           whole == {Payload(k, p) : p \in parts}
           messages == [received : ARRIVALS,
                        words : whole \cup {Cut(w) : w \in whole}]
<1>1. \A w \in whole : w \in Seq(Int) /\ Cut(w) \in Seq(Int)
  <2> TAKE w \in whole
  <2>1. PICK n \in Nat : \E p \in [1..n -> PARTS] :
           w = Payload(k, p) /\ (k \notin TfKinds => n = 1)
    BY StampsAssumption
  <2> QED BY <2>1, PayloadType
<1> HIDE DEF whole
<1>2. messages \subseteq Message
  BY <1>1, StampsAssumption DEF Message
<1>3. r \in UNION {[1..n -> messages] : n \in LENGTHS \ {0}}
  BY DEF Recordings, whole
<1> HIDE DEF messages
<1>4. PICK n \in Nat \ {0} : r \in [1..n -> messages]
  BY <1>3, StampsAssumption
<1>5. r \in [1..n -> Message]
  BY <1>2, <1>4
<1> HIDE DEF Message
<1> QED BY <1>5

LEMMA InitReady == Init => Ready /\ Written
<1> SUFFICES ASSUME Init PROVE Ready /\ Written
  OBVIOUS
<1>1. kind \in KINDS /\ recording \in Seq(Message) /\ Len(recording) >= 1
  BY RecordingType DEF Init
<1>2. recording[1].received \in Nat
  <2>1. recording[1] \in Message
    BY <1>1
  <2> QED BY <2>1 DEF Message
<1>3. /\ retimer \in [mode : MODES, first : {recording[1].received},
                      wall : WALLS, rate : RATES]
      /\ outputs = <<>> /\ failed = FALSE
  BY DEF Init
<1>4. retimer.mode \in MODES /\ retimer.first \in Nat /\ retimer.wall \in WALLS
      /\ retimer.rate \in RATES
  BY <1>2, <1>3
<1>5. retimer.rate[1] \in Nat \ {0} /\ retimer.rate[2] \in Nat \ {0}
  BY <1>4, StampsAssumption
<1>6. Ready
  BY <1>1, <1>4, <1>5, StampsAssumption DEF Ready
<1>7. Written
  <2>1. Len(outputs) = 0 /\ outputs \in Seq([words : Seq(Int), restamped : BOOLEAN])
    BY <1>3
  <2>2. 1..Len(outputs) = {} /\ Len(outputs) <= Len(recording)
    BY <1>1, <2>1
  <2>3. failed \in BOOLEAN
    BY <1>3
  <2> QED BY <2>1, <2>2, <2>3 DEF Written
<1> QED BY <1>6, <1>7

-----------------------------------------------------------------------------
(* Where the stamps are *)

\* The table of offsets agrees with the layout of every type.
LEMMA OffsetIsLead ==
    ASSUME NEW k, Offset(k) > 0
    PROVE  Offset(k) = 4 * Lead(k) /\ k \notin TfKinds /\ k # "LaserScan"
BY DEF Offset, Lead, Lengths, TfKinds

LEMMA OffsetType == ASSUME NEW k PROVE Offset(k) \in Nat
BY DEF Offset

LEMMA Nth ==
    ASSUME recording \in Seq(Message), NEW n \in 1..Len(recording)
    PROVE  /\ recording[n].received \in Nat
           /\ recording[n].words \in Seq(Int)
           /\ Len(recording[n].words) \in Nat
           /\ DOMAIN recording[n].words = 1..Len(recording[n].words)
<1>1. recording[n] \in Message
  OBVIOUS
<1> QED BY <1>1 DEF Message

\* apply() looks for stamps exactly where the layout puts them, and each lies
\* within a payload it was long enough for.
LEMMA SameStamps ==
    ASSUME Ready, NEW n \in 1..Len(recording), retimer.mode # "original",
           ~TooShort(kind, recording[n].words)
    PROVE  /\ DOMAIN StampWords(kind, recording[n].words) = Stamps(n)
           /\ \A i \in Stamps(n) :
                 /\ StampWords(kind, recording[n].words)[i] = StampAt(i)
                 /\ StampAt(i) \in 1..Len(recording[n].words)
                 /\ StampAt(i) + 1 \in 1..Len(recording[n].words)
           /\ \A i, j \in Stamps(n) :
                 /\ StampAt(i) = StampAt(j) => i = j
                 /\ StampAt(i) # StampAt(j) + 1
<1> DEFINE words == recording[n].words
<1>0. words \in Seq(Int) /\ Len(words) \in Nat /\ DOMAIN words = 1..Len(words)
  BY Nth DEF Ready
<1> HIDE DEF words
<1>1. CASE kind \in TfKinds
  <2>1. Len(words) >= 3 /\ Len(words) >= 3 + 4 * words[3] /\ words[3] \in Int
    <3>1. Len(words) >= 3
      BY <1>0, <1>1 DEF TooShort, words
    <3>2. words[3] \in Int
      BY <1>0, <3>1
    <3> QED BY <1>0, <1>1, <3>1, <3>2 DEF TooShort, words
  <2>2. StampWords(kind, words) = [i \in 1..words[3] |-> 4 * i + 1]
    BY <1>1 DEF StampWords
  <2>3. Stamps(n) = 1..words[3] /\ \A i : StampAt(i) = 4 * i + 1
    BY <1>1 DEF Stamps, StampAt, words, TfKinds
  <2>4. /\ DOMAIN StampWords(kind, words) = Stamps(n)
        /\ \A i \in Stamps(n) : StampWords(kind, words)[i] = StampAt(i)
    BY <2>2, <2>3
  <2>5. \A i \in Stamps(n) : StampAt(i) \in 1..Len(words) /\ StampAt(i) + 1 \in 1..Len(words)
    <3> DEFINE c == words[3]
               m == Len(words)
    <3>1. c \in Int /\ m \in Int /\ m >= 3 + 4 * c
      BY <1>0, <2>1
    <3>2. Stamps(n) = 1..c /\ \A i : StampAt(i) = 4 * i + 1
      BY <2>3
    <3> HIDE DEF c, m
    <3>3. \A i \in 1..c : 4 * i + 1 \in 1..m /\ (4 * i + 1) + 1 \in 1..m
      BY <3>1
    <3>4. \A i \in Stamps(n) : StampAt(i) \in 1..m /\ StampAt(i) + 1 \in 1..m
      BY <3>2, <3>3
    <3> QED BY <3>4 DEF m
  <2>6. \A i, j \in Stamps(n) : /\ StampAt(i) = StampAt(j) => i = j
                                /\ StampAt(i) # StampAt(j) + 1
    BY <2>1, <2>3
  <2> QED BY <2>4, <2>5, <2>6 DEF words
<1>2. CASE kind = "LaserScan"
  <2>1. StampWords(kind, words) = <<>> /\ Stamps(n) = {}
    BY <1>2 DEF StampWords, Stamps, Offset, TfKinds
  <2> QED BY <2>1 DEF words
<1>3. CASE Offset(kind) > 0
  <2>1. /\ Offset(kind) = 4 * Lead(kind) /\ kind \notin TfKinds /\ kind # "LaserScan"
        /\ Lead(kind) \in Nat
    BY <1>3, OffsetIsLead, LeadType
  <2>2. Offset(kind) \div 4 = Lead(kind)
    BY <2>1
  <2>3. StampWords(kind, words) = <<Lead(kind) + 1>>
    BY <1>3, <2>1, <2>2 DEF StampWords
  <2>4. Stamps(n) = {1} /\ \A i : StampAt(i) = Lead(kind) + 1
    BY <2>1 DEF Stamps, StampAt
  <2>5. 4 * Len(words) >= 4 * Lead(kind) + 8
    BY <1>0, <1>3, <2>1 DEF TooShort, words
  <2> QED BY <1>0, <2>1, <2>3, <2>4, <2>5, SMTT(40) DEF words
<1> QED BY <1>1, <1>2, <1>3, KindsAssumption DEF Ready

-----------------------------------------------------------------------------
(* What is written *)

LEMMA FromParts ==
    ASSUME NEW sec \in Int, NEW nsec \in Int
    PROVE  NanosFromParts(sec, nsec) \in Int
<1>1. sec * NANOS \in Int
  BY StampsAssumption
<1> QED BY <1>1 DEF NanosFromParts, Unset

LEMMA ToParts ==
    ASSUME NEW ns \in Int
    PROVE  /\ NanosToParts(ns)[1] \in 0..MAXSEC
           /\ NanosToParts(ns)[2] \in 0..(NANOS - 1)
<1>1. CASE ns <= 0
  BY <1>1, StampsAssumption DEF NanosToParts
<1>2. CASE ns > 0
  <2>1. ns \div NANOS \in Int /\ 0 \div NANOS <= ns \div NANOS /\ 0 \div NANOS = 0
    BY <1>2, StampsAssumption, QuotientBounds, QuotientMonotone
  <2>2. ns % NANOS \in 0..(NANOS - 1)
    BY StampsAssumption, Quotient
  <2> QED BY <1>2, <2>1, <2>2, StampsAssumption DEF NanosToParts
<1> QED BY <1>1, <1>2

\* A time that is neither before the second one nor after the last second is
\* read back as it was written.
LEMMA ThereAndBack ==
    ASSUME NEW ns \in Int, NanosToParts(ns)[1] < MAXSEC,
           NanosFromParts(NanosToParts(ns)[1], NanosToParts(ns)[2]) # Unset
    PROVE  NanosFromParts(NanosToParts(ns)[1], NanosToParts(ns)[2]) = ns
<1>0. NANOS \in Nat \ {0}
  BY StampsAssumption
<1>1. ns > 0
  <2> SUFFICES ASSUME ns <= 0 PROVE FALSE
    OBVIOUS
  <2> QED BY DEF NanosToParts, NanosFromParts
<1>2. NanosToParts(ns) = <<ns \div NANOS, ns % NANOS>>
  <2>1. ~(ns \div NANOS > MAXSEC)
    BY <1>0, <1>1, StampsAssumption, QuotientBounds DEF NanosToParts
  <2> QED BY <1>1, <2>1 DEF NanosToParts
<1>3. NanosFromParts(ns \div NANOS, ns % NANOS) = (ns \div NANOS) * NANOS + (ns % NANOS)
  BY <1>2 DEF NanosFromParts
<1>4. ns = NANOS * (ns \div NANOS) + (ns % NANOS) /\ ns \div NANOS \in Int
  BY <1>0, Quotient
<1>5. NANOS * (ns \div NANOS) = (ns \div NANOS) * NANOS
  BY <1>0, <1>4, Product
<1> QED BY <1>2, <1>3, <1>4, <1>5

LEMMA MapType == ASSUME Ready, NEW ns \in Int PROVE Map(retimer, ns) \in Int
<1>1. (ns - retimer.first) * retimer.rate[2] \in Int
  BY DEF Ready
<1>2. Rounded((ns - retimer.first) * retimer.rate[2], retimer.rate[1]) \in Int
  BY <1>1, RoundedNear DEF Ready
<1> QED BY <1>2 DEF Map, Scaled, Ready

\* apply() writes every stamp, and leaves every other word alone.
LEMMA PatchedWords ==
    ASSUME Ready, NEW n \in 1..Len(recording), retimer.mode # "original",
           ~TooShort(kind, recording[n].words)
    PROVE  /\ Patched(recording[n]) \in Seq(Int)
           /\ Len(Patched(recording[n])) = Len(recording[n].words)
           /\ \A w \in 1..Len(recording[n].words) :
                 (\A i \in Stamps(n) : w \notin {StampAt(i), StampAt(i) + 1})
                    => Patched(recording[n])[w] = recording[n].words[w]
           /\ \A i \in Stamps(n) :
                 /\ Source(n, i) \in Int
                 /\ Patched(recording[n])[StampAt(i)]
                       = NanosToParts(Map(retimer, Source(n, i)))[1]
                 /\ Patched(recording[n])[StampAt(i) + 1]
                       = NanosToParts(Map(retimer, Source(n, i)))[2]
<1> DEFINE m == recording[n]
           at == StampWords(kind, m.words)
           stamp(i) ==
             LET ns == Recorded(m.words, at[i], m.received)
             IN NanosToParts(Map(retimer, IF ns = Unset THEN m.received ELSE ns))
           Here(w, i) == w \in {at[i], at[i] + 1}
           one(w) == CHOOSE i \in DOMAIN at : Here(w, i)
           patch(w) == IF \E i \in DOMAIN at : Here(w, i)
                      THEN stamp(one(w))[w - at[one(w)] + 1]
                      ELSE m.words[w]
<1>1. Patched(m) = [w \in DOMAIN m.words |-> patch(w)]
  BY DEF Patched
<1>2. /\ m.words \in Seq(Int) /\ Len(m.words) \in Nat /\ DOMAIN m.words = 1..Len(m.words)
      /\ m.received \in Nat
  BY Nth DEF Ready
<1>3. DOMAIN at = Stamps(n) /\ \A i \in Stamps(n) : at[i] = StampAt(i)
  BY SameStamps
<1>4. \A i \in Stamps(n) : StampAt(i) \in Int
  BY SameStamps
<1> HIDE DEF at
<1>5. \A i \in Stamps(n) : Source(n, i) \in Int /\ stamp(i) = NanosToParts(Map(retimer, Source(n, i)))
  <2> TAKE i \in Stamps(n)
  <2>1. at[i] = StampAt(i) /\ m.words[StampAt(i)] \in Int /\ m.words[StampAt(i) + 1] \in Int
    BY <1>2, <1>3, SameStamps
  <2>2. Input(n, i) = NanosFromParts(m.words[at[i]], m.words[at[i] + 1]) /\ Input(n, i) \in Int
    BY <2>1, FromParts DEF Input, Read
  <2>3. CASE Trusted(n, i)
    BY <1>2, <2>2, <2>3 DEF Trusted, Source, Recorded
  <2>4. CASE ~Trusted(n, i)
    BY <1>2, <2>2, <2>4 DEF Trusted, Source, Recorded
  <2> QED BY <2>3, <2>4
<1>6. \A i \in Stamps(n) : one(StampAt(i)) = i /\ one(StampAt(i) + 1) = i
  <2> TAKE i \in Stamps(n)
  <2>1. \A j \in Stamps(n) : Here(StampAt(i), j) <=> i = j
    <3> TAKE j \in Stamps(n)
    <3> QED BY <1>3, <1>4, SameStamps
  <2>2. \A j \in Stamps(n) : Here(StampAt(i) + 1, j) <=> i = j
    <3> TAKE j \in Stamps(n)
    <3>1. StampAt(i) + 1 = StampAt(j) + 1 => StampAt(i) = StampAt(j)
      BY <1>4
    <3> QED BY <1>3, <1>4, <3>1, SameStamps
  <2> HIDE DEF Here
  <2> QED BY <1>3, <2>1, <2>2
<1> HIDE DEF stamp, one
<1>7. \A i \in Stamps(n) :
         /\ patch(StampAt(i)) = NanosToParts(Map(retimer, Source(n, i)))[1]
         /\ patch(StampAt(i) + 1) = NanosToParts(Map(retimer, Source(n, i)))[2]
  <2> TAKE i \in Stamps(n)
  <2>1. Here(StampAt(i), i) /\ Here(StampAt(i) + 1, i) /\ i \in DOMAIN at /\ at[i] \in Int
    BY <1>3, <1>4
  <2>2. (StampAt(i) - at[i]) + 1 = 1 /\ ((StampAt(i) + 1) - at[i]) + 1 = 2
    BY <1>3, <1>4
  <2> HIDE DEF Here
  <2>3. patch(StampAt(i)) = stamp(i)[(StampAt(i) - at[i]) + 1]
    BY <1>6, <2>1
  <2>4. patch(StampAt(i) + 1) = stamp(i)[((StampAt(i) + 1) - at[i]) + 1]
    BY <1>6, <2>1
  <2> QED BY <1>5, <2>2, <2>3, <2>4
<1>8. \A w \in DOMAIN m.words :
         (\A i \in Stamps(n) : w \notin {StampAt(i), StampAt(i) + 1}) => patch(w) = m.words[w]
  BY <1>3
<1>9. \A w \in DOMAIN m.words : patch(w) \in Int
  <2> TAKE w \in DOMAIN m.words
  <2>1. CASE \A i \in Stamps(n) : w \notin {StampAt(i), StampAt(i) + 1}
    BY <1>2, <1>8, <2>1
  <2>2. CASE \E i \in Stamps(n) : w \in {StampAt(i), StampAt(i) + 1}
    <3>1. PICK i \in Stamps(n) : w \in {StampAt(i), StampAt(i) + 1}
      BY <2>2
    <3>2. Map(retimer, Source(n, i)) \in Int
      BY <1>5, MapType
    <3>3. /\ NanosToParts(Map(retimer, Source(n, i)))[1] \in Int
          /\ NanosToParts(Map(retimer, Source(n, i)))[2] \in Int
      BY <3>2, ToParts, StampsAssumption
    <3> HIDE DEF patch
    <3> QED BY <1>7, <3>1, <3>3
  <2> QED BY <2>1, <2>2
<1> HIDE DEF patch
<1>10. Patched(m) \in Seq(Int) /\ Len(Patched(m)) = Len(m.words)
  <2>1. Patched(m) \in [1..Len(m.words) -> Int]
    BY <1>1, <1>2, <1>9
  <2> QED BY <1>2, <2>1
<1>11. \A i \in Stamps(n) :
          /\ Patched(m)[StampAt(i)] = patch(StampAt(i))
          /\ Patched(m)[StampAt(i) + 1] = patch(StampAt(i) + 1)
  BY <1>1, <1>2, SameStamps
<1> QED BY <1>1, <1>2, <1>5, <1>7, <1>8, <1>10, <1>11

-----------------------------------------------------------------------------
(* The invariant *)

LEMMA ApplyWritten == Ready /\ Written /\ Apply => Written'
<1> SUFFICES ASSUME Ready, Written, Apply PROVE Written'
  OBVIOUS
<1> DEFINE m == recording[Len(outputs) + 1]
           Out == [words : Seq(Int), restamped : BOOLEAN]
<1>0. /\ outputs \in Seq(Out) /\ Len(outputs) \in Nat /\ Len(recording) \in Nat
      /\ Len(outputs) + 1 \in 1..Len(recording) /\ recording \in Seq(Message)
      /\ UNCHANGED <<kind, recording, retimer>>
  BY DEF Written, Ready, Apply
<1>1. m.words \in Seq(Int)
  BY <1>0, Nth
<1>2. \A w : /\ TooShort(kind, w)' = TooShort(kind, w)
  BY <1>0 DEF TooShort
<1>3. \A x : Patched(x)' = Patched(x)
  BY <1>0 DEF Patched
<1>4. CASE outputs' = outputs
  <2>1. failed' \in BOOLEAN
    BY <1>0 DEF Apply, Written
  <2> QED BY <1>0, <1>2, <1>3, <1>4, <2>1 DEF Written
<1>5. ASSUME NEW e \in Out, outputs' = Append(outputs, e), failed' = failed,
             IF retimer.mode = "original" THEN e.words = m.words
             ELSE ~TooShort(kind, m.words) /\ e.words = Patched(m)
      PROVE  Written'
  <2>1. /\ outputs' \in Seq(Out) /\ Len(outputs') = Len(outputs) + 1
        /\ \A n \in 1..Len(outputs) : outputs'[n] = outputs[n]
        /\ outputs'[Len(outputs) + 1] = e
    <3> HIDE DEF Out
    <3> QED BY <1>0, <1>5
  <2>2. \A n \in 1..Len(outputs') : n \in 1..Len(outputs) \/ n = Len(outputs) + 1
    BY <1>0, <2>1
  <2>3. ASSUME NEW n \in 1..Len(outputs')
        PROVE  IF retimer.mode = "original" THEN outputs'[n].words = recording[n].words
               ELSE /\ ~TooShort(kind, recording[n].words)
                    /\ outputs'[n].words = Patched(recording[n])
    <3>1. CASE n \in 1..Len(outputs)
      BY <2>1, <3>1 DEF Written
    <3>2. CASE n = Len(outputs) + 1
      BY <1>5, <2>1, <3>2
    <3> QED BY <2>2, <3>1, <3>2
  <2>4. failed' \in BOOLEAN
    BY <1>5 DEF Written
  <2> QED BY <1>0, <1>2, <1>3, <2>1, <2>3, <2>4 DEF Written
<1>6. CASE retimer.mode = "original"
  <2>1. [words |-> m.words, restamped |-> FALSE] \in Out
    BY <1>1
  <2> QED BY <1>5, <1>6, <2>1 DEF Apply
<1>7. CASE retimer.mode # "original" /\ TooShort(kind, m.words)
  BY <1>4, <1>7 DEF Apply
<1>8. CASE retimer.mode # "original" /\ ~TooShort(kind, m.words)
  <2>1. Patched(m) \in Seq(Int)
    BY <1>0, <1>8, PatchedWords
  <2>2. Substituted(m) \in BOOLEAN
    BY DEF Substituted
  <2>3. [words |-> Patched(m), restamped |-> Substituted(m)] \in Out
    BY <2>1, <2>2
  <2>4. outputs' = Append(outputs, [words |-> Patched(m), restamped |-> Substituted(m)])
        /\ failed' = failed
    BY <1>8 DEF Apply
  <2> QED BY <1>5, <1>8, <2>3, <2>4
<1> QED BY <1>6, <1>7, <1>8

\* Everything published so far is what apply() makes of its input.
THEOREM Invariant == Spec => []IInv
<1>1. IInv /\ [Next]_vars => IInv'
  <2> SUFFICES ASSUME IInv, [Next]_vars PROVE IInv'
    OBVIOUS
  <2>1. UNCHANGED <<kind, recording, retimer>>
    BY DEF Next, Apply, vars
  <2>2. Ready'
    BY <2>1 DEF IInv, Ready
  <2>3. CASE Apply
    BY <2>2, <2>3, ApplyWritten DEF IInv
  <2>4. CASE UNCHANGED vars
    <3>1. UNCHANGED <<kind, recording, retimer, outputs, failed>>
      BY <2>4 DEF vars
    <3>2. \A w : TooShort(kind, w)' = TooShort(kind, w)
      BY <3>1 DEF TooShort
    <3>3. \A x : Patched(x)' = Patched(x)
      BY <3>1 DEF Patched
    <3> QED BY <2>2, <3>1, <3>2, <3>3 DEF IInv, Written
  <2> QED BY <2>3, <2>4 DEF Next
<1> QED BY <1>1, InitReady, PTL DEF Spec, IInv

LEMMA OutputFacts ==
    ASSUME IInv, NEW n \in DOMAIN outputs, NEW i \in Stamps(n)
    PROVE  /\ n \in 1..Len(recording) /\ retimer.mode # "original"
           /\ Source(n, i) \in Int /\ Map(retimer, Source(n, i)) \in Int
           /\ outputs[n].words[StampAt(i)] = NanosToParts(Map(retimer, Source(n, i)))[1]
           /\ outputs[n].words[StampAt(i) + 1] = NanosToParts(Map(retimer, Source(n, i)))[2]
           /\ Output(n, i) \in Int
           /\ InRange(n, i) => Output(n, i) = Map(retimer, Source(n, i))
<1>1. /\ n \in 1..Len(outputs) /\ n \in 1..Len(recording)
      /\ Len(outputs) \in Nat /\ Len(recording) \in Nat
  BY SMTT(40) DEF IInv, Ready, Written
<1>2. retimer.mode # "original"
  BY DEF Stamps
<1>3. ~TooShort(kind, recording[n].words) /\ outputs[n].words = Patched(recording[n])
  BY <1>1, <1>2 DEF IInv, Written
<1> DEFINE ns == Map(retimer, Source(n, i))
<1>4. /\ Source(n, i) \in Int
      /\ outputs[n].words[StampAt(i)] = NanosToParts(ns)[1]
      /\ outputs[n].words[StampAt(i) + 1] = NanosToParts(ns)[2]
  BY <1>1, <1>2, <1>3, PatchedWords DEF IInv
<1>5. ns \in Int
  BY <1>4, MapType DEF IInv
<1> HIDE DEF ns
<1>6. Output(n, i) = NanosFromParts(NanosToParts(ns)[1], NanosToParts(ns)[2])
  BY <1>4 DEF Output, Read
<1>7. Output(n, i) \in Int
  <2>1. NanosToParts(ns)[1] \in Int /\ NanosToParts(ns)[2] \in Int
    BY <1>5, ToParts, StampsAssumption
  <2> QED BY <1>6, <2>1, FromParts
<1>8. InRange(n, i) => Output(n, i) = ns
  BY <1>4, <1>5, <1>6, ThereAndBack DEF InRange
<1> QED BY <1>1, <1>2, <1>4, <1>5, <1>7, <1>8 DEF ns

\* The state keeps its types: in particular what is written in the place of a
\* stamp is a number of seconds and of nanoseconds that two i32 can hold.
THEOREM TypeCorrect == Spec => []TypeOK
<1>1. IInv => TypeOK
  <2> SUFFICES ASSUME IInv PROVE TypeOK
    OBVIOUS
  <2>1. \A n \in DOMAIN outputs : outputs[n].restamped \in BOOLEAN
    <3> TAKE n \in DOMAIN outputs
    <3> DEFINE Out == [words : Seq(Int), restamped : BOOLEAN]
    <3>1. outputs \in Seq(Out)
      BY DEF IInv, Written
    <3> HIDE DEF Out
    <3>2. outputs[n] \in Out
      BY <3>1
    <3> QED BY <3>2 DEF Out
  <2>2. \A n \in DOMAIN outputs : \A i \in Stamps(n) :
           /\ outputs[n].words[StampAt(i)] \in 0..MAXSEC
           /\ outputs[n].words[StampAt(i) + 1] \in 0..(NANOS - 1)
    BY OutputFacts, ToParts
  <2> QED BY <2>1, <2>2 DEF TypeOK, IInv, Ready, Written
<1> QED BY <1>1, Invariant, PTL

\* A payload is published as it is but for the two words of each stamp, which
\* lie where the layout of its type puts them.
THEOREM NothingElseWritten == Spec => []RestUntouched
<1>1. IInv => RestUntouched
  <2> SUFFICES ASSUME IInv, NEW n \in DOMAIN outputs
               PROVE  LET was == recording[n].words
                          free == UNION {{StampAt(i), StampAt(i) + 1} : i \in Stamps(n)}
                      IN /\ Len(outputs[n].words) = Len(was)
                         /\ \A w \in DOMAIN was \ free : outputs[n].words[w] = was[w]
    BY DEF RestUntouched
  <2>1. n \in 1..Len(outputs) /\ n \in 1..Len(recording)
    BY DEF IInv, Ready, Written
  <2>2. DOMAIN recording[n].words = 1..Len(recording[n].words)
    BY <2>1, Nth DEF IInv, Ready
  <2>3. CASE retimer.mode = "original"
    BY <2>1, <2>3 DEF IInv, Written
  <2>4. CASE retimer.mode # "original"
    <3>1. ~TooShort(kind, recording[n].words) /\ outputs[n].words = Patched(recording[n])
      BY <2>1, <2>4 DEF IInv, Written
    <3>2. /\ Len(outputs[n].words) = Len(recording[n].words)
          /\ \A w \in 1..Len(recording[n].words) :
                (\A i \in Stamps(n) : w \notin {StampAt(i), StampAt(i) + 1})
                   => outputs[n].words[w] = recording[n].words[w]
      BY <2>1, <2>4, <3>1, PatchedWords DEF IInv
    <3> QED BY <2>2, <3>2
  <2> QED BY <2>3, <2>4
<1> QED BY <1>1, Invariant, PTL

LEMMA ScaledExact ==
    ASSUME Ready, NEW ns \in Int
    PROVE  2 * ((Scaled(retimer, ns) - retimer.wall) * retimer.rate[1]
                  - (ns - retimer.first) * retimer.rate[2])
             \in (-retimer.rate[1])..retimer.rate[1]
<1> DEFINE x == (ns - retimer.first) * retimer.rate[2]
           d == retimer.rate[1]
<1>1. x \in Int /\ d \in Nat \ {0} /\ retimer.wall \in Int
  BY DEF Ready
<1>2. Scaled(retimer, ns) = retimer.wall + Rounded(x, d)
  BY DEF Scaled
<1> HIDE DEF x, d
<1>3. Rounded(x, d) \in Int /\ 2 * (Rounded(x, d) * d - x) \in -d..d
  BY <1>1, RoundedNear
<1>4. Scaled(retimer, ns) - retimer.wall = Rounded(x, d)
  BY <1>1, <1>2, <1>3
<1> QED BY <1>3, <1>4 DEF x, d

\* Scaled stamps are where the rate puts them, to half a nanosecond; shifted
\* ones keep their spacing exactly.
THEOREM TimesAreExact == Spec => []TimesExact
<1>1. IInv => TimesExact
  <2> SUFFICES ASSUME IInv, NEW n \in DOMAIN outputs, NEW i \in Stamps(n), InRange(n, i)
               PROVE  /\ retimer.mode = "scaled" =>
                            2 * ((Output(n, i) - retimer.wall) * retimer.rate[1]
                                   - (Source(n, i) - retimer.first) * retimer.rate[2])
                              \in (-retimer.rate[1])..retimer.rate[1]
                      /\ retimer.mode = "shifted" =>
                            \A m \in DOMAIN outputs : \A j \in Stamps(m) : InRange(m, j) =>
                               Output(m, j) - Output(n, i) = Source(m, j) - Source(n, i)
    BY DEF TimesExact
  <2>1. Output(n, i) = Map(retimer, Source(n, i)) /\ Source(n, i) \in Int
    BY OutputFacts
  <2>2. CASE retimer.mode = "scaled"
    <3>1. Output(n, i) = Scaled(retimer, Source(n, i))
      BY <2>1, <2>2 DEF Map
    <3> QED BY <2>1, <2>2, <3>1, ScaledExact DEF IInv
  <2>3. CASE retimer.mode = "shifted"
    <3> SUFFICES ASSUME NEW m \in DOMAIN outputs, NEW j \in Stamps(m), InRange(m, j)
                 PROVE  Output(m, j) - Output(n, i) = Source(m, j) - Source(n, i)
      BY <2>3
    <3>1. Output(m, j) = Map(retimer, Source(m, j)) /\ Source(m, j) \in Int
      BY OutputFacts
    <3> QED BY <2>1, <2>3, <3>1 DEF Map, IInv, Ready
  <2> QED BY <2>2, <2>3
<1> QED BY <1>1, Invariant, PTL

LEMMA MapMonotone ==
    ASSUME Ready, retimer.mode # "original", NEW s \in Int, NEW t \in Int, s <= t
    PROVE  Map(retimer, s) <= Map(retimer, t)
<1>1. CASE retimer.mode = "scaled"
  <2> DEFINE x == (s - retimer.first) * retimer.rate[2]
             y == (t - retimer.first) * retimer.rate[2]
             d == retimer.rate[1]
  <2>1. s - retimer.first \in Int /\ t - retimer.first \in Int
        /\ s - retimer.first <= t - retimer.first /\ retimer.rate[2] \in Nat
    BY DEF Ready
  <2>2. x <= y /\ x \in Int /\ y \in Int /\ d \in Nat \ {0}
    <3>1. x <= y
      BY <2>1, Times
    <3>2. x \in Int /\ y \in Int
      BY <2>1, Product
    <3> QED BY <3>1, <3>2 DEF Ready
  <2>3. Map(retimer, s) = retimer.wall + Rounded(x, d)
        /\ Map(retimer, t) = retimer.wall + Rounded(y, d)
    BY <1>1 DEF Map, Scaled
  <2> HIDE DEF x, y, d
  <2>4. Rounded(x, d) <= Rounded(y, d) /\ Rounded(x, d) \in Int /\ Rounded(y, d) \in Int
    BY <2>2, RoundedMonotone, RoundedNear
  <2> QED BY <2>3, <2>4 DEF Ready
<1>2. CASE retimer.mode = "shifted"
  BY <1>2 DEF Map, Ready
<1> QED BY <1>1, <1>2 DEF Ready

\* What is read back of two times, the earlier of them in range, is in order,
\* even if the later one saturates.
LEMMA ReadBackOrder ==
    ASSUME NEW a \in Int, NEW b \in Int, a <= b, NanosToParts(a)[1] < MAXSEC,
           NanosFromParts(NanosToParts(a)[1], NanosToParts(a)[2]) # Unset
    PROVE  a <= NanosFromParts(NanosToParts(b)[1], NanosToParts(b)[2])
<1> DEFINE p == a \div NANOS
           q == b \div NANOS
<1>0. NANOS \in Nat \ {0} /\ MAXSEC \in Nat \ {0}
  BY StampsAssumption
<1>1. /\ p \in Int /\ q \in Int /\ p <= q
      /\ a = NANOS * p + (a % NANOS) /\ a % NANOS \in 0..NANOS - 1
      /\ b = NANOS * q + (b % NANOS) /\ b % NANOS \in 0..NANOS - 1
  BY <1>0, Quotient, QuotientMonotone
<1>2. a > 0 /\ p > 0
  <2>1. CASE a <= 0
    BY <2>1 DEF NanosToParts, NanosFromParts
  <2>2. CASE a > 0
    <3>1. NanosToParts(a)[1] > 0
      BY DEF NanosFromParts
    <3>2. p > 0
      BY <1>0, <1>1, <2>2, <3>1 DEF NanosToParts
    <3> QED BY <2>2, <3>2
  <2> QED BY <2>1, <2>2
<1>3. p < MAXSEC
  BY <1>0, <1>1, <1>2 DEF NanosToParts
<1>4. b > 0 /\ q > 0
  BY <1>1, <1>2
<1>5. CASE q <= MAXSEC
  <2>1. NanosToParts(b) = <<q, b % NANOS>>
    BY <1>0, <1>1, <1>4, <1>5 DEF NanosToParts
  <2>2. NanosFromParts(q, b % NANOS) = q * NANOS + (b % NANOS)
    BY <1>4 DEF NanosFromParts
  <2>3. q * NANOS = NANOS * q
    BY <1>0, <1>1, Product
  <2> QED BY <1>1, <2>1, <2>2, <2>3
<1>6. CASE q > MAXSEC
  <2>1. NanosToParts(b) = <<MAXSEC, b % NANOS>>
    BY <1>4, <1>6 DEF NanosToParts
  <2>2. NanosFromParts(MAXSEC, b % NANOS) = MAXSEC * NANOS + (b % NANOS)
    BY <1>0 DEF NanosFromParts
  <2>3. (p + 1) * NANOS <= MAXSEC * NANOS
    BY <1>0, <1>1, <1>3, Times
  <2>4. (p + 1) * NANOS = NANOS * p + NANOS /\ MAXSEC * NANOS \in Int /\ NANOS * p \in Int
    BY <1>0, <1>1
  <2> HIDE DEF p, q
  <2> QED BY <1>0, <1>1, <2>1, <2>2, <2>3, <2>4
<1> QED BY <1>1, <1>0, <1>5, <1>6

\* No two stamps of a replay change places, whatever the rate and whatever
\* stands in for them.
THEOREM OrderIsKept == Spec => []OrderKept
<1>1. IInv => OrderKept
  <2> SUFFICES ASSUME IInv, NEW n \in DOMAIN outputs, NEW m \in DOMAIN outputs,
                      NEW i \in Stamps(n), NEW j \in Stamps(m),
                      InRange(n, i), Source(n, i) <= Source(m, j)
               PROVE  Output(n, i) <= Output(m, j)
    BY DEF OrderKept
  <2> DEFINE a == Map(retimer, Source(n, i))
             b == Map(retimer, Source(m, j))
  <2>1. /\ Source(n, i) \in Int /\ Source(m, j) \in Int /\ a \in Int /\ b \in Int
        /\ retimer.mode # "original"
        /\ outputs[n].words[StampAt(i)] = NanosToParts(a)[1]
        /\ outputs[n].words[StampAt(i) + 1] = NanosToParts(a)[2]
        /\ outputs[m].words[StampAt(j)] = NanosToParts(b)[1]
        /\ outputs[m].words[StampAt(j) + 1] = NanosToParts(b)[2]
        /\ Output(n, i) = a
    BY OutputFacts
  <2>2. a <= b
    BY <2>1, MapMonotone DEF IInv
  <2> HIDE DEF a, b
  <2>3. NanosToParts(a)[1] < MAXSEC
    BY <2>1 DEF InRange
  <2>4. NanosFromParts(NanosToParts(a)[1], NanosToParts(a)[2]) # Unset
    BY <2>1 DEF InRange, Output, Read
  <2>5. Output(m, j) = NanosFromParts(NanosToParts(b)[1], NanosToParts(b)[2])
    BY <2>1 DEF Output, Read
  <2> QED BY <2>1, <2>2, <2>3, <2>4, <2>5, ReadBackOrder
<1> QED BY <1>1, Invariant, PTL

-----------------------------------------------------------------------------
(* A replay of the replay *)

LEMMA RoundedExact ==
    ASSUME NEW x \in Int, NEW d \in Nat \ {0}
    PROVE  Rounded(x * d, d) = x
<1> DEFINE R == Rounded(x * d, d)
<1>1. x * d \in Int
  BY Product
<1>2. R \in Int /\ 2 * (R * d - x * d) \in -d..d
  BY <1>1, RoundedNear
<1> HIDE DEF R
<1>3. R * d - x * d = (R - x) * d
  BY <1>2
<1>4. CASE R - x >= 1
  <2>1. 1 * d <= (R - x) * d
    BY <1>2, <1>4, Times
  <2> QED BY <1>2, <1>3, <2>1
<1>5. CASE R - x <= -1
  <2>1. (R - x) * d <= (-1) * d
    BY <1>2, <1>5, Times
  <2>2. (-1) * d = -d
    OBVIOUS
  <2> QED BY <1>2, <1>3, <2>1, <2>2
<1> QED BY <1>2, <1>4, <1>5 DEF R

\* Sped up, two times never end up further apart, rounding included.
LEMMA RoundedContracts ==
    ASSUME NEW x \in Int, NEW y \in Int, x <= y,
           NEW r \in Nat \ {0}, NEW d \in Nat \ {0}, r <= d
    PROVE  Rounded(y * r, d) - Rounded(x * r, d) <= y - x
<1> DEFINE P == Rounded(y * r, d)
           Q == Rounded(x * r, d)
<1>1. x * r \in Int /\ y * r \in Int
  BY Product
<1>2. /\ P \in Int /\ 2 * (P * d - y * r) \in -d..d
      /\ Q \in Int /\ 2 * (Q * d - x * r) \in -d..d
  BY <1>1, RoundedNear
<1>3. CASE r = d
  <2>1. P = y /\ Q = x
    BY <1>3, RoundedExact
  <2> QED BY <2>1
<1>4. CASE x = y
  BY <1>2, <1>4
<1>5. CASE r < d /\ x < y
  <2> HIDE DEF P, Q
  <2>1. P * d \in Int /\ Q * d \in Int /\ (P - Q) * d = P * d - Q * d
    BY <1>2
  <2>2. (P - Q) * d <= (y * r - x * r) + d
    BY <1>1, <1>2, <2>1
  <2>3. y * r - x * r = (y - x) * r
    OBVIOUS
  <2>4. (y - x) * r < (y - x) * d
    <3>1. (r + 1) * (y - x) <= d * (y - x)
      BY <1>5, Times
    <3>2. (r + 1) * (y - x) = (y - x) * r + (y - x) /\ d * (y - x) = (y - x) * d
      OBVIOUS
    <3> QED BY <1>5, <3>1, <3>2, Product
  <2>5. (y - x) * d \in Int /\ (y - x) * r \in Int
    BY Product
  <2>6. ~((y - x) + 1 <= P - Q)
    <3> SUFFICES ASSUME (y - x) + 1 <= P - Q PROVE FALSE
      OBVIOUS
    <3>1. ((y - x) + 1) * d <= (P - Q) * d
      BY <1>2, Times
    <3>2. ((y - x) + 1) * d = (y - x) * d + d
      OBVIOUS
    <3> QED BY <2>1, <2>2, <2>3, <2>4, <2>5, <3>1, <3>2
  <2> QED BY <1>2, <2>6 DEF P, Q
<1> QED BY <1>3, <1>4, <1>5

\* The stamp used is on the recorder's clock, be it the message's own or the
\* arrival that stands in for it.
LEMMA SourceNear ==
    ASSUME IInv, NEW n \in DOMAIN outputs, NEW i \in Stamps(n),
           recording[n].received > 0
    PROVE  /\ recording[n].received \in Int
           /\ Distance(Source(n, i), recording[n].received) < SAMECLOCK
<1>1. Source(n, i) \in Int /\ recording[n].received \in Nat
  BY OutputFacts, Nth DEF IInv, Ready
<1>2. CASE Trusted(n, i)
  BY <1>1, <1>2 DEF Trusted, SameClock, Source
<1>3. CASE ~Trusted(n, i)
  BY <1>1, <1>3, StampsAssumption DEF Source, Distance
<1> QED BY <1>1, <1>2, <1>3

LEMMA ScaledContracts ==
    ASSUME Ready, retimer.rate[1] >= retimer.rate[2], NEW s \in Int, NEW t \in Int, s <= t
    PROVE  /\ Scaled(retimer, s) \in Int /\ Scaled(retimer, t) \in Int
           /\ Scaled(retimer, s) <= Scaled(retimer, t)
           /\ Scaled(retimer, t) - Scaled(retimer, s) <= t - s
<1> DEFINE x == s - retimer.first
           y == t - retimer.first
           r == retimer.rate[2]
           d == retimer.rate[1]
<1>1. /\ x \in Int /\ y \in Int /\ x <= y /\ y - x = t - s
      /\ r \in Nat \ {0} /\ d \in Nat \ {0} /\ r <= d /\ retimer.wall \in Int
  BY DEF Ready
<1>2. /\ Scaled(retimer, s) = retimer.wall + Rounded(x * r, d)
      /\ Scaled(retimer, t) = retimer.wall + Rounded(y * r, d)
  BY DEF Scaled
<1> HIDE DEF x, y, r, d
<1>3. x * r \in Int /\ y * r \in Int /\ x * r <= y * r
  BY <1>1, Product, Times
<1>4. /\ Rounded(x * r, d) \in Int /\ Rounded(y * r, d) \in Int
      /\ Rounded(x * r, d) <= Rounded(y * r, d)
      /\ Rounded(y * r, d) - Rounded(x * r, d) <= y - x
  BY <1>1, <1>3, RoundedNear, RoundedMonotone, RoundedContracts
<1> QED BY <1>1, <1>2, <1>4

\* A replay at rate 1, or scaled to any faster one, can be recorded and
\* replayed in its turn: no stamp it wrote is taken for another clock's.
THEOREM TrustIsKept == Spec => []TrustedAgain
<1>1. IInv => TrustedAgain
  <2> SUFFICES ASSUME IInv, NEW n \in DOMAIN outputs, NEW i \in Stamps(n),
                      InRange(n, i), recording[n].received > 0,
                      \/ retimer.mode = "scaled" /\ retimer.rate[1] >= retimer.rate[2]
                      \/ retimer.mode = "shifted" /\ retimer.rate[1] = retimer.rate[2]
               PROVE  Distance(Output(n, i), EmittedAt(n)) < SAMECLOCK
    BY DEF TrustedAgain, SameClock
  <2> DEFINE s == Source(n, i)
             t == recording[n].received
  <2>1. /\ s \in Int /\ t \in Int /\ Output(n, i) = Map(retimer, s) /\ Ready
        /\ Distance(s, t) < SAMECLOCK
    BY OutputFacts, SourceNear DEF IInv
  <2>2. EmittedAt(n) = Scaled(retimer, t) /\ retimer.rate[1] >= retimer.rate[2]
    BY <2>1 DEF EmittedAt, Scaled, Ready
  <2> HIDE DEF s, t
  <2>3. Map(retimer, s) = Scaled(retimer, s)
    <3>1. CASE retimer.mode = "scaled"
      BY <3>1 DEF Map
    <3>2. CASE retimer.mode = "shifted"
      <4>1. s - retimer.first \in Int /\ retimer.rate[1] \in Nat \ {0} /\ retimer.wall \in Int
        BY <2>1 DEF Ready
      <4>2. Rounded((s - retimer.first) * retimer.rate[1], retimer.rate[1]) = s - retimer.first
        BY <4>1, RoundedExact
      <4>3. retimer.rate[1] = retimer.rate[2]
        BY <3>2
      <4> QED BY <2>1, <3>2, <4>1, <4>2, <4>3 DEF Map, Scaled, Ready
    <3> QED BY <3>1, <3>2
  <2>4. CASE s <= t
    <3>1. /\ Scaled(retimer, s) \in Int /\ Scaled(retimer, t) \in Int
          /\ Scaled(retimer, s) <= Scaled(retimer, t)
          /\ Scaled(retimer, t) - Scaled(retimer, s) <= t - s
      BY <2>1, <2>2, <2>4, ScaledContracts
    <3> QED BY <2>1, <2>2, <2>3, <2>4, <3>1, StampsAssumption DEF Distance
  <2>5. CASE t <= s
    <3>1. /\ Scaled(retimer, s) \in Int /\ Scaled(retimer, t) \in Int
          /\ Scaled(retimer, t) <= Scaled(retimer, s)
          /\ Scaled(retimer, s) - Scaled(retimer, t) <= s - t
      BY <2>1, <2>2, <2>5, ScaledContracts
    <3> QED BY <2>1, <2>2, <2>3, <2>5, <3>1, StampsAssumption DEF Distance
  <2> QED BY <2>1, <2>4, <2>5
<1> QED BY <1>1, Invariant, PTL

-----------------------------------------------------------------------------
(* Sequences *)

IsSeq(s) == s \in Seq(Range(s))

LEMMA SeqIs ==
    ASSUME NEW s, IsSeq(s)
    PROVE  /\ Len(s) \in Nat /\ DOMAIN s = 1..Len(s) /\ s = [i \in 1..Len(s) |-> s[i]]
           /\ s = <<>> <=> Len(s) = 0
BY DEF IsSeq

LEMMA FunctionIsSeq ==
    ASSUME NEW n \in Nat, NEW s, DOMAIN s = 1..n, s = [i \in DOMAIN s |-> s[i]]
    PROVE  IsSeq(s) /\ Len(s) = n
<1>1. \A i \in 1..n : s[i] \in Range(s)
  BY DEF Range
<1>2. s \in [1..n -> Range(s)]
  BY <1>1
<1> HIDE DEF Range
<1>3. s \in Seq(Range(s))
  BY <1>2
<1>4. Len(s) = n
  BY <1>3
<1> QED BY <1>3, <1>4 DEF IsSeq

LEMMA SameSeq ==
    ASSUME NEW s, NEW t, IsSeq(s), IsSeq(t), Len(s) = Len(t),
           \A i \in 1..Len(s) : s[i] = t[i]
    PROVE  s = t
BY SeqIs

LEMMA JoinIs ==
    ASSUME NEW s, NEW t, IsSeq(s), IsSeq(t)
    PROVE  /\ IsSeq(s \o t) /\ Len(s \o t) = Len(s) + Len(t)
           /\ \A i \in 1..Len(s) : (s \o t)[i] = s[i]
           /\ \A i \in 1..Len(t) : (s \o t)[Len(s) + i] = t[i]
<1> DEFINE S == Range(s) \cup Range(t)  u == s \o t
<1>1. s \in Seq(S) /\ t \in Seq(S)
  <2>1. s \in [1..Len(s) -> S] /\ t \in [1..Len(t) -> S] /\ Len(s) \in Nat /\ Len(t) \in Nat
    BY SeqIs DEF Range
  <2> HIDE DEF S
  <2> QED BY <2>1
<1> HIDE DEF S
<1>2. /\ u \in Seq(S) /\ Len(u) = Len(s) + Len(t)
      /\ \A i \in 1..Len(s) : u[i] = s[i]
      /\ \A i \in 1..Len(t) : u[Len(s) + i] = t[i]
  BY <1>1
<1> HIDE DEF u
<1>3. DOMAIN u = 1..Len(u) /\ Len(u) \in Nat /\ u = [i \in DOMAIN u |-> u[i]]
  BY <1>2
<1>4. IsSeq(u)
  BY <1>3, FunctionIsSeq
<1> QED BY <1>2, <1>4 DEF u

LEMMA TailIs ==
    ASSUME NEW s, IsSeq(s), s # <<>>
    PROVE  /\ Len(s) \in Nat /\ Len(s) > 0 /\ Head(s) = s[1]
           /\ IsSeq(Tail(s)) /\ Len(Tail(s)) = Len(s) - 1
           /\ \A i \in 1..(Len(s) - 1) : Tail(s)[i] = s[i + 1]
<1> DEFINE S == Range(s)  u == Tail(s)
<1>1. s \in Seq(S)
  BY DEF IsSeq
<1> HIDE DEF S
<1>2. /\ u \in Seq(S) /\ Len(u) = Len(s) - 1 /\ Len(s) \in Nat /\ Len(s) > 0 /\ Head(s) = s[1]
      /\ \A i \in 1..(Len(s) - 1) : u[i] = s[i + 1]
  BY <1>1
<1> HIDE DEF u
<1>3. DOMAIN u = 1..Len(u) /\ Len(u) \in Nat /\ u = [i \in DOMAIN u |-> u[i]]
  BY <1>2
<1>4. IsSeq(u)
  BY <1>3, FunctionIsSeq
<1> QED BY <1>2, <1>4 DEF u

LEMMA AppendIs ==
    ASSUME NEW s, NEW x, IsSeq(s)
    PROVE  /\ IsSeq(Append(s, x)) /\ Len(Append(s, x)) = Len(s) + 1
           /\ \A i \in 1..Len(s) : Append(s, x)[i] = s[i]
           /\ Append(s, x)[Len(s) + 1] = x
<1> DEFINE S == Range(s) \cup {x}  u == Append(s, x)
<1>1. s \in Seq(S) /\ x \in S
  <2>1. s \in [1..Len(s) -> S] /\ Len(s) \in Nat
    BY SeqIs DEF Range
  <2>2. x \in S
    OBVIOUS
  <2> HIDE DEF S
  <2> QED BY <2>1, <2>2
<1> HIDE DEF S
<1>2. /\ u \in Seq(S) /\ Len(u) = Len(s) + 1 /\ u[Len(s) + 1] = x
      /\ \A i \in 1..Len(s) : u[i] = s[i]
  BY <1>1
<1> HIDE DEF u
<1>3. DOMAIN u = 1..Len(u) /\ Len(u) \in Nat /\ u = [i \in DOMAIN u |-> u[i]]
  BY <1>2
<1>4. IsSeq(u)
  BY <1>3, FunctionIsSeq
<1> QED BY <1>2, <1>4 DEF u

LEMMA JoinJoin ==
    ASSUME NEW r, NEW s, NEW t, IsSeq(r), IsSeq(s), IsSeq(t)
    PROVE  (r \o s) \o t = r \o (s \o t)
<1> DEFINE a == (r \o s) \o t  b == r \o (s \o t)
<1>1. /\ IsSeq(r \o s) /\ IsSeq(s \o t) /\ IsSeq(a) /\ IsSeq(b)
      /\ Len(a) = Len(r) + Len(s) + Len(t) /\ Len(b) = Len(r) + Len(s) + Len(t)
      /\ Len(r) \in Nat /\ Len(s) \in Nat /\ Len(t) \in Nat
  BY JoinIs, SeqIs
<1>2. ASSUME NEW i \in 1..Len(a) PROVE a[i] = b[i]
  <2>1. CASE i \in 1..Len(r)
    <3>1. i \in 1..Len(r \o s)
      BY <1>1, <2>1, JoinIs
    <3> QED BY <1>1, <2>1, <3>1, JoinIs
  <2>2. CASE i - Len(r) \in 1..Len(s)
    <3>1. i \in 1..Len(r \o s) /\ i - Len(r) \in 1..Len(s \o t)
      BY <1>1, <2>2, JoinIs
    <3>2. a[i] = (r \o s)[Len(r) + (i - Len(r))] /\ b[Len(r) + (i - Len(r))] = (s \o t)[i - Len(r)]
      BY <1>1, <3>1, JoinIs
    <3> QED BY <1>1, <2>2, <3>2, JoinIs
  <2>3. CASE i - Len(r) - Len(s) \in 1..Len(t)
    <3> DEFINE j == i - Len(r) - Len(s)
    <3>1. a[Len(r \o s) + j] = t[j] /\ Len(s) + j \in 1..Len(s \o t)
      BY <1>1, <2>3, JoinIs, SMTT(40)
    <3>2. b[Len(r) + (Len(s) + j)] = (s \o t)[Len(s) + j]
      BY <1>1, <3>1, JoinIs
    <3>3. (s \o t)[Len(s) + j] = t[j]
      BY <1>1, <2>3, JoinIs
    <3> QED BY <1>1, <3>1, <3>2, <3>3, JoinIs
  <2> QED BY <1>1, <2>1, <2>2, <2>3
<1> HIDE DEF a, b
<1>3. a = b
  BY <1>1, <1>2, SameSeq
<1> QED BY <1>3 DEF a, b

LEMMA OneLong == \A a : IsSeq(<<a>>) /\ Len(<<a>>) = 1 /\ <<a>>[1] = a
<1> SUFFICES ASSUME NEW a PROVE IsSeq(<<a>>) /\ Len(<<a>>) = 1 /\ <<a>>[1] = a
  OBVIOUS
<1> DEFINE s == <<a>>
<1>1. DOMAIN s = 1..1 /\ s = [i \in DOMAIN s |-> s[i]] /\ s[1] = a
  OBVIOUS
<1> HIDE DEF s
<1>2. IsSeq(s) /\ Len(s) = 1
  BY <1>1, FunctionIsSeq
<1> QED BY <1>1, <1>2 DEF s

LEMMA TwoLong ==
    \A a, b : /\ IsSeq(<<a, b>>) /\ Len(<<a, b>>) = 2
              /\ <<a, b>>[1] = a /\ <<a, b>>[2] = b /\ <<a>> \o <<b>> = <<a, b>>
<1> SUFFICES ASSUME NEW a, NEW b
             PROVE  /\ IsSeq(<<a, b>>) /\ Len(<<a, b>>) = 2 /\ <<a, b>>[1] = a /\ <<a, b>>[2] = b
                    /\ <<a>> \o <<b>> = <<a, b>>
  OBVIOUS
<1> DEFINE s == <<a, b>>  r == <<a>>  t == <<b>>
<1>1. DOMAIN s = 1..2 /\ s = [i \in DOMAIN s |-> s[i]] /\ s[1] = a /\ s[2] = b
  OBVIOUS
<1>2. IsSeq(r) /\ IsSeq(t) /\ Len(r) = 1 /\ Len(t) = 1 /\ r[1] = a /\ t[1] = b
  BY OneLong
<1> HIDE DEF s, r, t
<1>3. IsSeq(s) /\ Len(s) = 2
  BY <1>1, FunctionIsSeq
<1>4. IsSeq(r \o t) /\ Len(r \o t) = 2 /\ (r \o t)[1] = a /\ (r \o t)[2] = b
  <2>1. IsSeq(r \o t) /\ Len(r \o t) = Len(r) + Len(t)
    BY <1>2, JoinIs
  <2>2. (r \o t)[1] = r[1] /\ (r \o t)[Len(r) + 1] = t[1]
    <3>1. 1 \in 1..Len(r) /\ 1 \in 1..Len(t)
      BY <1>2
    <3>2. IsSeq(r) /\ IsSeq(t)
      BY <1>2
    <3>3. \A i \in 1..Len(r) : (r \o t)[i] = r[i]
      BY <3>2, JoinIs
    <3>4. \A i \in 1..Len(t) : (r \o t)[Len(r) + i] = t[i]
      BY <3>2, JoinIs
    <3> QED BY <3>1, <3>3, <3>4
  <2> QED BY <1>2, <2>1, <2>2
<1>5. r \o t = s
  BY <1>1, <1>3, <1>4, SameSeq
<1> QED BY <1>1, <1>3, <1>5 DEF s, r, t

-----------------------------------------------------------------------------
(* Paths in LCM's names *)

LEMMA LcmIs ==
    ASSUME NEW p, IsSeq(p)
    PROVE  /\ IsSeq(LcmPath(p)) /\ Len(LcmPath(p)) = Len(p)
           /\ \A i \in 1..Len(p) :
                LcmPath(p)[i] = IF p[i] \in DOMAIN LcmName THEN LcmName[p[i]] ELSE p[i]
<1> DEFINE q == LcmPath(p)
<1>1. /\ DOMAIN p = 1..Len(p) /\ Len(p) \in Nat
  BY SeqIs
<1>2. /\ DOMAIN q = 1..Len(p) /\ q = [i \in DOMAIN q |-> q[i]]
      /\ \A i \in 1..Len(p) : q[i] = IF p[i] \in DOMAIN LcmName THEN LcmName[p[i]] ELSE p[i]
  BY <1>1 DEF LcmPath
<1> HIDE DEF q
<1>3. IsSeq(q) /\ Len(q) = Len(p)
  BY <1>1, <1>2, FunctionIsSeq
<1> QED BY <1>2, <1>3 DEF q

LEMMA LcmJoin ==
    ASSUME NEW p, NEW q, IsSeq(p), IsSeq(q)
    PROVE  LcmPath(p \o q) = LcmPath(p) \o LcmPath(q)
<1> DEFINE a == LcmPath(p \o q)  b == LcmPath(p) \o LcmPath(q)
<1>1. /\ IsSeq(p \o q) /\ Len(p \o q) = Len(p) + Len(q) /\ Len(p) \in Nat /\ Len(q) \in Nat
  BY JoinIs, SeqIs
<1>2. /\ IsSeq(LcmPath(p)) /\ Len(LcmPath(p)) = Len(p)
      /\ IsSeq(LcmPath(q)) /\ Len(LcmPath(q)) = Len(q)
  BY LcmIs
<1>3. IsSeq(a) /\ IsSeq(b) /\ Len(a) = Len(p) + Len(q) /\ Len(b) = Len(p) + Len(q)
  <2>1. IsSeq(a) /\ Len(a) = Len(p \o q)
    BY <1>1, LcmIs
  <2>2. IsSeq(b) /\ Len(b) = Len(LcmPath(p)) + Len(LcmPath(q))
    BY <1>2, JoinIs
  <2> QED BY <1>1, <1>2, <2>1, <2>2
<1>4. ASSUME NEW i \in 1..Len(a) PROVE a[i] = b[i]
  <2>1. CASE i \in 1..Len(p)
    <3>1. (p \o q)[i] = p[i] /\ b[i] = LcmPath(p)[i]
      BY <1>2, <2>1, JoinIs
    <3> QED BY <1>1, <1>3, <2>1, <3>1, LcmIs
  <2>2. CASE i - Len(p) \in 1..Len(q)
    <3> DEFINE j == i - Len(p)
    <3>1. (p \o q)[Len(p) + j] = q[j] /\ b[Len(p) + j] = LcmPath(q)[j]
      BY <1>2, <2>2, JoinIs
    <3>2. Len(p) + j = i
      BY <1>1, <1>3
    <3> HIDE DEF j
    <3> QED BY <1>1, <1>3, <2>2, <3>1, <3>2, LcmIs, ZenonT(40) DEF j
  <2> QED BY <1>1, <1>3, <2>1, <2>2
<1> HIDE DEF a, b
<1>5. a = b
  BY <1>3, <1>4, SameSeq
<1> QED BY <1>5 DEF a, b

\* A name that LCM and ROS share.
Shared(a) == a \notin DOMAIN LcmName

LEMMA LcmOne ==
    ASSUME NEW a
    PROVE  LcmPath(<<a>>) = IF Shared(a) THEN <<a>> ELSE <<LcmName[a]>>
<1> DEFINE b == IF Shared(a) THEN a ELSE LcmName[a]
<1>1. IsSeq(<<a>>) /\ Len(<<a>>) = 1 /\ IsSeq(<<b>>) /\ Len(<<b>>) = 1 /\ <<a>>[1] = a /\ <<b>>[1] = b
  BY OneLong
<1>2. IsSeq(LcmPath(<<a>>)) /\ Len(LcmPath(<<a>>)) = 1 /\ LcmPath(<<a>>)[1] = b
  BY <1>1, LcmIs DEF Shared
<1> HIDE DEF b
<1>3. LcmPath(<<a>>) = <<b>>
  BY <1>1, <1>2, SameSeq
<1> QED BY <1>3 DEF b

-----------------------------------------------------------------------------
(* Fields that a viewer and to_lcm read alike *)

\* Structs that only the schema texts have: Puts and Reads spell them out.
Groups == {"Time", "Transform", "PoseWithCovariance", "TwistWithCovariance",
           "RegionOfInterest"}

\* Types of one width, or one struct.
Kin(a, b) ==
    IF a \in DOMAIN Width
    THEN b \in DOMAIN Width /\ Width[a] = Width[b] /\ (a = "string" <=> b = "string")
    ELSE a = b /\ a \in DOMAIN Puts /\ a \notin Groups

\* v of a schema text says what r of to_cdr does.
Same(v, r) ==
    /\ IsSeq(v.p) /\ LcmPath(v.p) = r.p
    /\ v.rep = r.rep /\ v.n = r.n /\ Kin(v.t, r.t)

\* v stands for the fields of rs after the a-th, to the b-th.
Stands(v, rs, a, b) ==
    \/ b = a + 1 /\ Same(v, rs[b])
    \/ /\ v.t \in Groups /\ v.rep = "fixed" /\ IsSeq(v.p)
       /\ b = a + Len(Schema[v.t])
       /\ \A j \in 1..Len(Schema[v.t]) : Same(Below(v, Schema[v.t])[j], rs[a + j])

\* g[i] fields of rs are what the first i of vs stand for.
Covers(g, vs, rs) ==
    /\ g \in [0..Len(vs) -> Nat] /\ g[0] = 0 /\ g[Len(vs)] = Len(rs)
    /\ \A i \in 1..Len(vs) :
          g[i - 1] < g[i] /\ g[i] <= Len(rs) /\ Stands(vs[i], rs, g[i - 1], g[i])

\* A viewer with vs to do gets what to_lcm gets with rs to do.
Alike(vs, rs) == IsSeq(vs) /\ IsSeq(rs) /\ \E g : Covers(g, vs, rs)

LEMMA AlikeOneByOne ==
    ASSUME NEW vs, NEW rs, IsSeq(vs), IsSeq(rs), Len(vs) = Len(rs),
           \A i \in 1..Len(vs) : Same(vs[i], rs[i])
    PROVE  Alike(vs, rs)
<1> DEFINE g == [i \in 0..Len(vs) |-> i]
<1>1. Len(vs) \in Nat
  BY SeqIs
<1>2. ASSUME NEW i \in 1..Len(vs)
      PROVE  g[i - 1] < g[i] /\ g[i] <= Len(rs) /\ Stands(vs[i], rs, g[i - 1], g[i])
  BY <1>1 DEF Stands
<1>3. g \in [0..Len(vs) -> Nat] /\ g[0] = 0 /\ g[Len(vs)] = Len(rs)
  BY <1>1
<1> HIDE DEF g
<1>4. Covers(g, vs, rs)
  BY <1>2, <1>3 DEF Covers
<1> QED BY <1>4 DEF Alike

LEMMA AlikeJoin ==
    ASSUME NEW vs, NEW rs, NEW ws, NEW qs, Alike(vs, rs), Alike(ws, qs)
    PROVE  Alike(vs \o ws, rs \o qs)
<1>1. PICK g : Covers(g, vs, rs)
  BY DEF Alike
<1>2. PICK h : Covers(h, ws, qs)
  BY DEF Alike
<1> DEFINE m == Len(vs)  n == Len(ws)
           f == [i \in 0..(m + n) |-> IF i <= m THEN g[i] ELSE Len(rs) + h[i - m]]
<1>3. /\ IsSeq(vs) /\ IsSeq(rs) /\ IsSeq(ws) /\ IsSeq(qs)
      /\ m \in Nat /\ n \in Nat /\ Len(rs) \in Nat /\ Len(qs) \in Nat
  BY SeqIs DEF Alike
<1>4. /\ IsSeq(vs \o ws) /\ Len(vs \o ws) = m + n
      /\ IsSeq(rs \o qs) /\ Len(rs \o qs) = Len(rs) + Len(qs)
  BY <1>3, JoinIs
<1>5. /\ \A i \in 1..m : (vs \o ws)[i] = vs[i]
      /\ \A i \in 1..n : (vs \o ws)[m + i] = ws[i]
      /\ \A i \in 1..Len(rs) : (rs \o qs)[i] = rs[i]
      /\ \A i \in 1..Len(qs) : (rs \o qs)[Len(rs) + i] = qs[i]
  BY <1>3, JoinIs
<1>6. /\ g \in [0..m -> Nat] /\ g[0] = 0 /\ g[m] = Len(rs)
      /\ \A i \in 1..m : g[i - 1] < g[i] /\ g[i] <= Len(rs) /\ Stands(vs[i], rs, g[i - 1], g[i])
      /\ h \in [0..n -> Nat] /\ h[0] = 0 /\ h[n] = Len(qs)
      /\ \A i \in 1..n : h[i - 1] < h[i] /\ h[i] <= Len(qs) /\ Stands(ws[i], qs, h[i - 1], h[i])
  BY <1>1, <1>2 DEF Covers
<1> HIDE DEF m, n
<1>7. /\ \A i \in 0..m : f[i] = g[i] /\ g[i] \in Nat
      /\ \A i \in 0..n : f[m + i] = Len(rs) + h[i] /\ h[i] \in Nat
  <2>1. \A i \in 0..m : f[i] = g[i] /\ g[i] \in Nat
    BY <1>3, <1>6
  <2>2. ASSUME NEW i \in 0..n PROVE f[m + i] = Len(rs) + h[i] /\ h[i] \in Nat
    <3>1. h[i] \in Nat /\ m + i \in 0..(m + n) /\ (m + i) - m = i
      BY <1>3, <1>6
    <3>2. CASE i = 0
      BY <1>3, <1>6, <3>2
    <3>3. CASE i # 0
      <4>1. ~(m + i <= m)
        BY <1>3, <3>3
      <4> QED BY <3>1, <4>1
    <3> QED BY <3>2, <3>3
  <2> QED BY <2>1, <2>2
<1>8. f \in [0..(m + n) -> Nat] /\ f[0] = 0 /\ f[m + n] = Len(rs) + Len(qs)
  <2>1. ASSUME NEW i \in 0..(m + n) PROVE f[i] \in Nat
    <3>1. CASE i \in 0..m
      BY <1>7, <3>1
    <3>2. CASE i - m \in 0..n
      <4> DEFINE k == i - m
      <4>1. i = m + k /\ k \in 0..n
        BY <1>3, <3>2
      <4> HIDE DEF k, f
      <4>2. f[m + k] = Len(rs) + h[k] /\ h[k] \in Nat
        BY <1>7, <4>1
      <4> QED BY <1>3, <4>1, <4>2
    <3> QED BY <1>3, <3>1, <3>2
  <2>2. f \in [0..(m + n) -> Nat]
    BY <2>1
  <2>3. f[0] = 0
    BY <1>3, <1>6, <1>7
  <2>4. f[m + n] = Len(rs) + Len(qs)
    <3>1. n \in 0..n
      BY <1>3
    <3> HIDE DEF f
    <3> QED BY <1>6, <1>7, <3>1
  <2> QED BY <2>2, <2>3, <2>4
<1> HIDE DEF f
<1> DEFINE v == vs \o ws  r == rs \o qs
<1> HIDE DEF v, r
<1>9. ASSUME NEW i \in 1..(m + n)
      PROVE  f[i - 1] < f[i] /\ f[i] <= Len(r) /\ Stands(v[i], r, f[i - 1], f[i])
  <2>1. CASE i \in 1..m
    <3>1. f[i] = g[i] /\ f[i - 1] = g[i - 1] /\ v[i] = vs[i]
      <4>1. i \in 0..m /\ i - 1 \in 0..m
        BY <1>3, <2>1
      <4> QED BY <1>5, <1>7, <2>1, <4>1 DEF v
    <3>2. /\ g[i - 1] < g[i] /\ g[i] <= Len(rs) /\ Stands(vs[i], rs, g[i - 1], g[i])
          /\ g[i - 1] \in Nat /\ g[i] \in Nat
      BY <1>3, <1>6, <2>1
    <3>3. \A k \in 1..g[i] : r[k] = rs[k]
      BY <1>3, <1>5, <3>2 DEF r
    <3>4. Stands(vs[i], r, g[i - 1], g[i])
      <4>1. CASE g[i] = g[i - 1] + 1 /\ Same(vs[i], rs[g[i]])
        <5>1. r[g[i]] = rs[g[i]]
          BY <3>2, <3>3, <4>1
        <5> QED BY <4>1, <5>1 DEF Stands
      <4>2. CASE /\ vs[i].t \in Groups /\ vs[i].rep = "fixed" /\ IsSeq(vs[i].p)
                 /\ g[i] = g[i - 1] + Len(Schema[vs[i].t])
                 /\ \A j \in 1..Len(Schema[vs[i].t]) :
                       Same(Below(vs[i], Schema[vs[i].t])[j], rs[g[i - 1] + j])
        <5> DEFINE L == Len(Schema[vs[i].t])
        <5>1. \A j \in 1..L : g[i - 1] + j \in 1..g[i]
          BY <3>2, <4>2
        <5>2. \A j \in 1..L : r[g[i - 1] + j] = rs[g[i - 1] + j]
          BY <3>3, <5>1
        <5> QED BY <4>2, <5>2 DEF Stands
      <4> QED BY <3>2, <4>1, <4>2 DEF Stands
    <3> QED BY <1>3, <1>4, <3>1, <3>2, <3>4 DEF r
  <2>2. CASE i - m \in 1..n
    <3> DEFINE k == i - m
    <3>1. i = m + k /\ i - 1 = m + (k - 1) /\ k \in 1..n /\ k - 1 \in 0..n /\ k \in 0..n
      BY <1>3, <2>2
    <3> HIDE DEF k
    <3>2. f[i] = Len(rs) + h[k] /\ f[i - 1] = Len(rs) + h[k - 1] /\ v[i] = ws[k]
      BY <1>3, <1>5, <1>7, <3>1 DEF v
    <3>3. /\ h[k - 1] < h[k] /\ h[k] <= Len(qs) /\ Stands(ws[k], qs, h[k - 1], h[k])
          /\ h[k - 1] \in Nat /\ h[k] \in Nat
      BY <1>3, <1>6, <3>1
    <3>4. \A x \in 1..h[k] : r[Len(rs) + x] = qs[x]
      BY <1>3, <1>5, <3>3 DEF r
    <3>5. Stands(ws[k], r, Len(rs) + h[k - 1], Len(rs) + h[k])
      <4>1. CASE h[k] = h[k - 1] + 1 /\ Same(ws[k], qs[h[k]])
        <5>1. r[Len(rs) + h[k]] = qs[h[k]]
          BY <3>3, <3>4, <4>1
        <5>2. Len(rs) + h[k] = Len(rs) + h[k - 1] + 1
          BY <1>3, <3>3, <4>1
        <5> QED BY <4>1, <5>1, <5>2 DEF Stands
      <4>2. CASE /\ ws[k].t \in Groups /\ ws[k].rep = "fixed" /\ IsSeq(ws[k].p)
                 /\ h[k] = h[k - 1] + Len(Schema[ws[k].t])
                 /\ \A j \in 1..Len(Schema[ws[k].t]) :
                       Same(Below(ws[k], Schema[ws[k].t])[j], qs[h[k - 1] + j])
        <5> DEFINE L == Len(Schema[ws[k].t])
        <5>1. L \in Int
          BY <3>3, <4>2
        <5>2. \A j \in 1..L : h[k - 1] + j \in 1..h[k] /\ Len(rs) + (h[k - 1] + j) = (Len(rs) + h[k - 1]) + j
          BY <1>3, <3>3, <4>2, <5>1, SMTT(40)
        <5>3. \A j \in 1..L : r[(Len(rs) + h[k - 1]) + j] = qs[h[k - 1] + j]
          BY <3>4, <5>2
        <5>4. Len(rs) + h[k] = (Len(rs) + h[k - 1]) + L
          BY <1>3, <3>3, <4>2, <5>1, SMTT(40)
        <5> QED BY <4>2, <5>3, <5>4 DEF Stands
      <4> QED BY <3>3, <4>1, <4>2 DEF Stands
    <3>6. Len(r) = Len(rs) + Len(qs)
      BY <1>4 DEF r
    <3>7. f[i - 1] < f[i] /\ f[i] <= Len(r)
      BY <1>3, <3>2, <3>3, <3>6
    <3> QED BY <3>2, <3>5, <3>7
  <2> QED BY <1>3, <2>1, <2>2
<1>10. Len(v) = m + n /\ Len(r) = Len(rs) + Len(qs) /\ IsSeq(v) /\ IsSeq(r)
  BY <1>4 DEF v, r
<1>11. Covers(f, v, r)
  BY <1>8, <1>9, <1>10 DEF Covers
<1>12. Alike(v, r)
  BY <1>10, <1>11 DEF Alike
<1> QED BY <1>12 DEF v, r

\* What a viewer's stack begins with when it is a field or a run of its own.
LEMMA AlikeNone ==
    ASSUME NEW vs, NEW rs, Alike(vs, rs)
    PROVE  vs = <<>> <=> rs = <<>>
<1>1. PICK g : Covers(g, vs, rs)
  BY DEF Alike
<1>2. Len(vs) \in Nat /\ Len(rs) \in Nat
  BY SeqIs DEF Alike
<1>3. Len(vs) = 0 => Len(rs) = 0
  BY <1>1, <1>2 DEF Covers
<1>4. Len(vs) > 0 => Len(rs) > 0
  BY <1>1, <1>2 DEF Covers
<1> QED BY <1>2, <1>3, <1>4, SeqIs DEF Alike

LEMMA AlikeTail ==
    ASSUME NEW vs, NEW rs, Alike(vs, rs), vs # <<>>, Head(vs).t \notin Groups
    PROVE  rs # <<>> /\ Same(Head(vs), Head(rs)) /\ Alike(Tail(vs), Tail(rs))
<1>1. PICK g : Covers(g, vs, rs)
  BY DEF Alike
<1> DEFINE m == Len(vs) - 1  v == Tail(vs)  r == Tail(rs)
           h == [i \in 0..m |-> g[i + 1] - 1]
<1>2. rs # <<>>
  BY AlikeNone
<1>3. /\ IsSeq(v) /\ Len(v) = m /\ m \in Nat /\ Head(vs) = vs[1] /\ Len(vs) = m + 1
      /\ IsSeq(r) /\ Len(rs) = Len(r) + 1 /\ Len(r) \in Nat /\ Head(rs) = rs[1]
      /\ \A i \in 1..m : v[i] = vs[i + 1]
      /\ \A i \in 1..Len(r) : r[i] = rs[i + 1]
  <2>1. IsSeq(vs) /\ IsSeq(rs)
    BY DEF Alike
  <2> QED BY <1>2, <2>1, TailIs, SeqIs
<1>4. /\ g \in [0..(m + 1) -> Nat] /\ g[0] = 0 /\ g[m + 1] = Len(rs)
      /\ \A i \in 1..(m + 1) : g[i - 1] < g[i] /\ g[i] <= Len(rs) /\ Stands(vs[i], rs, g[i - 1], g[i])
  BY <1>1, <1>3 DEF Covers
<1> HIDE DEF m, v, r
<1>5. g[1] = 1 /\ Same(vs[1], rs[1])
  <2>1. Stands(vs[1], rs, 0, g[1])
    BY <1>3, <1>4
  <2> QED BY <1>3, <2>1 DEF Stands
<1>6. ASSUME NEW i \in 0..m PROVE g[i + 1] >= 1 /\ h[i] \in Nat /\ h[i] = g[i + 1] - 1
  <2>1. g[(i + 1) - 1] < g[i + 1] /\ g[(i + 1) - 1] \in Nat /\ g[i + 1] \in Nat
    BY <1>3, <1>4
  <2> QED BY <2>1
<1>7. h \in [0..m -> Nat] /\ h[0] = 0 /\ h[m] = Len(r)
  BY <1>3, <1>4, <1>5, <1>6
<1> HIDE DEF h
<1>8. ASSUME NEW i \in 1..m
      PROVE  h[i - 1] < h[i] /\ h[i] <= Len(r) /\ Stands(v[i], r, h[i - 1], h[i])
  <2>1. /\ h[i] = g[i + 1] - 1 /\ h[i - 1] = g[i] - 1 /\ v[i] = vs[i + 1]
        /\ h[i] \in Nat /\ h[i - 1] \in Nat /\ g[i] \in Nat /\ g[i + 1] \in Nat
    <3>1. i \in 0..m /\ i - 1 \in 0..m /\ (i - 1) + 1 = i /\ i \in 0..(m + 1) /\ i + 1 \in 0..(m + 1)
      BY <1>3
    <3> QED BY <1>3, <1>4, <1>6, <3>1
  <2>2. g[i] < g[i + 1] /\ g[i + 1] <= Len(rs) /\ Stands(vs[i + 1], rs, g[i], g[i + 1])
    <3>1. i + 1 \in 1..(m + 1) /\ (i + 1) - 1 = i
      BY <1>3
    <3> QED BY <1>4, <3>1
  <2>3. Stands(v[i], r, h[i - 1], h[i])
    <3>1. CASE g[i + 1] = g[i] + 1 /\ Same(vs[i + 1], rs[g[i + 1]])
      <4>1. h[i] + 1 = g[i + 1] /\ h[i] = h[i - 1] + 1
        BY <2>1, <3>1
      <4>3. h[i] \in 1..Len(r)
        <5>1. Len(rs) = Len(r) + 1 /\ Len(r) \in Nat
          BY <1>3
        <5>2. h[i] >= 1
          BY <2>1, <4>1
        <5>3. h[i] + 1 <= Len(rs)
          BY <2>2, <4>1
        <5> QED BY <2>1, <5>1, <5>2, <5>3
      <4>2. r[h[i]] = rs[g[i + 1]]
        <5>1. r[h[i]] = rs[h[i] + 1]
          BY <1>3, <4>3
        <5> QED BY <4>1, <5>1
      <4> QED BY <2>1, <3>1, <4>1, <4>2 DEF Stands
    <3>2. CASE /\ vs[i + 1].t \in Groups /\ vs[i + 1].rep = "fixed" /\ IsSeq(vs[i + 1].p)
               /\ g[i + 1] = g[i] + Len(Schema[vs[i + 1].t])
               /\ \A j \in 1..Len(Schema[vs[i + 1].t]) :
                     Same(Below(vs[i + 1], Schema[vs[i + 1].t])[j], rs[g[i] + j])
      <4> DEFINE L == Len(Schema[vs[i + 1].t])
      <4>1. L \in Int /\ h[i] = h[i - 1] + L
        BY <2>1, <2>2, <3>2, SMTT(40)
      <4>4. h[i] <= Len(r)
        BY <1>3, <2>1, <2>2
      <4> HIDE DEF L
      <4>2. ASSUME NEW j \in 1..L
            PROVE  h[i - 1] + j \in 1..Len(r) /\ (h[i - 1] + j) + 1 = g[i] + j
        <5> DEFINE x == h[i - 1]  y == g[i]
        <5>1. x \in Nat /\ y \in Nat /\ x = y - 1 /\ x + L <= Len(r) /\ Len(r) \in Nat
          BY <1>3, <2>1, <4>1, <4>4
        <5> HIDE DEF x, y
        <5>2. x + j \in 1..Len(r) /\ (x + j) + 1 = y + j
          BY <4>1, <5>1
        <5> QED BY <5>2 DEF x, y
      <4>3. \A j \in 1..L : r[h[i - 1] + j] = rs[g[i] + j]
        BY <1>3, <4>2
      <4> QED BY <2>1, <3>2, <4>1, <4>3 DEF Stands, L
    <3> QED BY <2>2, <3>1, <3>2 DEF Stands
  <2> QED BY <1>3, <2>1, <2>2, <2>3, SMTT(40)
<1>9. Covers(h, v, r)
  BY <1>3, <1>7, <1>8 DEF Covers
<1>10. Alike(v, r)
  BY <1>3, <1>9 DEF Alike
<1> QED BY <1>2, <1>3, <1>5, <1>10 DEF v, r

LEMMA UnderIs ==
    ASSUME NEW f, NEW x
    PROVE  /\ Under(f, x).p = f.p \o x.p
           /\ Under(f, x).t = x.t /\ Under(f, x).rep = x.rep /\ Under(f, x).n = x.n
<1> DEFINE q == f.p \o x.p
<1>1. Under(f, x) = [p |-> q, t |-> x.t, rep |-> x.rep, n |-> x.n]
  BY Zenon DEF Under
<1> HIDE DEF q
<1>2. /\ Under(f, x).p = q
      /\ Under(f, x).t = x.t /\ Under(f, x).rep = x.rep /\ Under(f, x).n = x.n
  BY <1>1
<1> QED BY <1>2, Zenon DEF q

LEMMA BelowIs ==
    ASSUME NEW f, NEW fields, IsSeq(fields)
    PROVE  /\ IsSeq(Below(f, fields)) /\ Len(Below(f, fields)) = Len(fields)
           /\ \A i \in 1..Len(fields) : Below(f, fields)[i] = Under(f, fields[i])
<1> DEFINE b == Below(f, fields)
<1>1. DOMAIN fields = 1..Len(fields) /\ Len(fields) \in Nat
  BY SeqIs
<1>2. /\ DOMAIN b = 1..Len(fields) /\ b = [i \in DOMAIN b |-> b[i]]
      /\ \A i \in 1..Len(fields) : b[i] = Under(f, fields[i])
  BY <1>1 DEF Below
<1> HIDE DEF b
<1>3. IsSeq(b) /\ Len(b) = Len(fields)
  BY <1>1, <1>2, FunctionIsSeq
<1> QED BY <1>2, <1>3 DEF b

LEMMA GroupsApart == \A t \in Groups : t \notin DOMAIN Width
BY DEF Groups, Width

LEMMA AlikeGroup ==
    ASSUME NEW vs, NEW rs, Alike(vs, rs), vs # <<>>, Head(vs).t \in Groups,
           IsSeq(Schema[Head(vs).t])
    PROVE  /\ Head(vs).rep = "fixed"
           /\ Alike(Below(Head(vs), Schema[Head(vs).t]) \o Tail(vs), rs)
<1>1. PICK g : Covers(g, vs, rs)
  BY DEF Alike
<1> DEFINE f == Head(vs)  b == Below(f, Schema[f.t])  L == Len(Schema[f.t])
           m == Len(vs) - 1  v == b \o Tail(vs)
           h == [i \in 0..(L + m) |-> IF i <= L THEN i ELSE g[i - L + 1]]
<1>2. /\ IsSeq(vs) /\ IsSeq(rs) /\ m \in Nat /\ f = vs[1] /\ Len(vs) = m + 1
      /\ IsSeq(Tail(vs)) /\ Len(Tail(vs)) = m
      /\ \A i \in 1..m : Tail(vs)[i] = vs[i + 1]
  BY TailIs DEF Alike
<1>3. IsSeq(b) /\ Len(b) = L /\ L \in Nat
  BY BelowIs, SeqIs
<1>4. IsSeq(v) /\ Len(v) = L + m
  BY <1>2, <1>3, JoinIs
<1>5. /\ \A i \in 1..L : v[i] = b[i]
      /\ \A i \in 1..m : v[L + i] = vs[i + 1]
  <2>1. \A i \in 1..Len(b) : v[i] = b[i]
    BY <1>2, <1>3, JoinIs
  <2>2. \A i \in 1..Len(Tail(vs)) : v[Len(b) + i] = Tail(vs)[i]
    BY <1>2, <1>3, JoinIs
  <2> HIDE DEF v, b
  <2> QED BY <1>2, <1>3, <2>1, <2>2
<1>6. /\ g \in [0..(m + 1) -> Nat] /\ g[0] = 0 /\ g[m + 1] = Len(rs)
      /\ \A i \in 1..(m + 1) : g[i - 1] < g[i] /\ g[i] <= Len(rs) /\ Stands(vs[i], rs, g[i - 1], g[i])
  BY <1>1, <1>2 DEF Covers
<1>7. f.t \in Groups
  OBVIOUS
<1> HIDE DEF f, m, v, L, b
<1>8. /\ f.rep = "fixed" /\ IsSeq(f.p) /\ g[1] = L
      /\ \A j \in 1..L : Same(b[j], rs[j])
  <2>1. Stands(f, rs, 0, g[1]) /\ g[1] \in Nat
    BY <1>2, <1>6
  <2>2. ~Same(f, rs[g[1]])
    BY <1>7, GroupsApart DEF Same, Kin
  <2>3. g[1] = 0 + L /\ \A j \in 1..L : Same(b[j], rs[0 + j])
    BY <2>1, <2>2 DEF Stands, L, b
  <2>4. \A j \in 1..L : 0 + j = j
    BY <1>3
  <2> QED BY <1>3, <2>1, <2>2, <2>3, <2>4 DEF Stands
<1>9. /\ \A i \in 0..L : h[i] = i
      /\ \A i \in 0..m : h[L + i] = g[i + 1]
  <2>1. \A i \in 0..L : h[i] = i
    BY <1>2, <1>3
  <2>2. ASSUME NEW i \in 0..m PROVE h[L + i] = g[i + 1]
    <3>1. CASE i = 0
      BY <1>2, <1>3, <1>8, <3>1
    <3>2. CASE i # 0
      <4>1. L + i \in 0..(L + m) /\ ~(L + i <= L) /\ (L + i) - L + 1 = i + 1
        BY <1>2, <1>3, <3>2
      <4> QED BY <4>1
    <3> QED BY <3>1, <3>2
  <2> QED BY <2>1, <2>2
<1>10. h \in [0..(L + m) -> Nat] /\ h[0] = 0 /\ h[L + m] = Len(rs)
  <2>1. ASSUME NEW i \in 0..(L + m) PROVE h[i] \in Nat
    <3>1. CASE i <= L
      BY <1>2, <1>3, <3>1
    <3>2. CASE i - L \in 0..m
      <4>1. i = L + (i - L) /\ (i - L) + 1 \in 0..(m + 1)
        BY <1>2, <1>3, <3>2
      <4> QED BY <1>6, <1>9, <3>2, <4>1
    <3> QED BY <1>2, <1>3, <3>1, <3>2
  <2>2. h \in [0..(L + m) -> Nat]
    BY <2>1
  <2>3. h[0] = 0
    BY <1>3, <1>9
  <2>4. h[L + m] = g[m + 1]
    BY <1>2, <1>9
  <2> QED BY <1>6, <2>2, <2>3, <2>4
<1> HIDE DEF h
<1>11. L <= Len(rs) /\ Len(rs) \in Nat
  <2>1. g[1] <= Len(rs)
    BY <1>2, <1>6
  <2> QED BY <1>2, <1>8, <2>1, SeqIs
<1>12. ASSUME NEW i \in 1..(L + m)
       PROVE  h[i - 1] < h[i] /\ h[i] <= Len(rs) /\ Stands(v[i], rs, h[i - 1], h[i])
  <2>1. CASE i \in 1..L
    <3>1. h[i] = i /\ h[i - 1] = i - 1 /\ v[i] = b[i] /\ Same(b[i], rs[i])
      BY <1>3, <1>5, <1>8, <1>9, <2>1
    <3> QED BY <1>3, <1>11, <2>1, <3>1 DEF Stands
  <2>2. CASE i - L \in 1..m
    <3> DEFINE k == i - L
    <3>1. i = L + k /\ i - 1 = L + (k - 1) /\ k \in 1..m /\ k - 1 \in 0..m /\ k \in 0..m
          /\ k + 1 \in 1..(m + 1) /\ (k - 1) + 1 = k /\ (k + 1) - 1 = k
      BY <1>2, <1>3, <2>2
    <3> HIDE DEF k
    <3>2. h[i] = g[k + 1] /\ h[i - 1] = g[k] /\ v[i] = vs[k + 1]
      BY <1>5, <1>9, <3>1
    <3>3. g[k] < g[k + 1] /\ g[k + 1] <= Len(rs) /\ Stands(vs[k + 1], rs, g[k], g[k + 1])
      BY <1>6, <3>1
    <3> QED BY <3>2, <3>3
  <2> QED BY <1>2, <1>3, <2>1, <2>2
<1>13. Covers(h, v, rs)
  BY <1>4, <1>10, <1>12 DEF Covers
<1>14. Alike(v, rs)
  BY <1>2, <1>4, <1>13 DEF Alike
<1> QED BY <1>8, <1>14 DEF f, b, v

-----------------------------------------------------------------------------
(* The tables *)

LEMMA PutsTypes ==
    /\ DOMAIN PutGeometry = {"Header", "Vector3", "Point", "Quaternion", "Pose", "Twist",
                             "PoseStamped", "TransformStamped", "TFMessage", "Odometry", "Path"}
    /\ DOMAIN PutSensors = {"Imu", "Image", "CompressedImage", "CameraInfo", "PointCloud2",
                            "PointField", "JointState", "LaserScan"}
BY DEF PutGeometry, PutSensors

LEMMA SchemaTypes ==
    /\ DOMAIN SchemaGeometry = {"Header", "Time", "Vector3", "Point", "Quaternion", "Pose",
                                "Twist", "Transform", "PoseWithCovariance",
                                "TwistWithCovariance", "PoseStamped", "TransformStamped",
                                "TFMessage", "Odometry", "Path"}
    /\ DOMAIN SchemaSensors = {"Imu", "Image", "CompressedImage", "CameraInfo",
                               "RegionOfInterest", "PointCloud2", "PointField", "JointState",
                               "LaserScan"}
BY DEF SchemaGeometry, SchemaSensors

LEMMA PutsIs ==
    /\ DOMAIN Puts = DOMAIN PutGeometry \cup DOMAIN PutSensors
    /\ \A t \in DOMAIN PutGeometry : Puts[t] = PutGeometry[t]
    /\ \A t \in DOMAIN PutSensors : Puts[t] = PutSensors[t]
<1>1. \A t \in DOMAIN PutSensors : t \notin DOMAIN PutGeometry
  BY PutsTypes
<1>2. \A t \in DOMAIN PutSensors : Puts[t] = PutSensors[t]
  BY <1>1 DEF Puts, With
<1>3. \A t \in DOMAIN PutGeometry : Puts[t] = PutGeometry[t]
  BY DEF Puts, With
<1> QED BY <1>2, <1>3 DEF Puts, With

LEMMA SchemaIs ==
    /\ DOMAIN Schema = DOMAIN SchemaGeometry \cup DOMAIN SchemaSensors
    /\ \A t \in DOMAIN SchemaGeometry : Schema[t] = SchemaGeometry[t]
    /\ \A t \in DOMAIN SchemaSensors : Schema[t] = SchemaSensors[t]
<1>1. \A t \in DOMAIN SchemaSensors : t \notin DOMAIN SchemaGeometry
  BY SchemaTypes
<1>2. \A t \in DOMAIN SchemaSensors : Schema[t] = SchemaSensors[t]
  BY <1>1 DEF Schema, With
<1>3. \A t \in DOMAIN SchemaGeometry : Schema[t] = SchemaGeometry[t]
  BY DEF Schema, With
<1> QED BY <1>2, <1>3 DEF Schema, With

\* to_cdr and to_lcm go through the same fields in the same order.
LEMMA ReadsAsPut == Reads = Puts
BY DEF Puts, Reads, PutGeometry, PutSensors, ReadGeometry, ReadSensors, PutHeader, ReadHeader,
       PutXYZ, ReadXYZ

LEMMA PutsSupported ==
    /\ Supported \subseteq DOMAIN Puts \ Parts
    /\ DOMAIN Puts \ Parts \subseteq Supported
    /\ Parts \subseteq DOMAIN Puts
    /\ DOMAIN Puts \cap Groups = {}
<1>1. /\ Parts \cup Supported \subseteq DOMAIN Puts
      /\ DOMAIN Puts \subseteq Parts \cup Supported
  BY PutsIs, PutsTypes DEF Parts, Supported
<1>2. \A t \in Supported : t \notin Parts
  BY DEF Parts, Supported
<1>3. \A t \in Parts : t \notin Groups
  BY DEF Parts, Groups
<1>4. \A t \in Supported : t \notin Groups
  BY DEF Supported, Groups
<1> QED BY <1>1, <1>2, <1>3, <1>4

LEMMA PutsApart == \A t \in DOMAIN Puts : t \notin DOMAIN Width
<1>1. \A t \in Parts : t \notin DOMAIN Width
  BY DEF Parts, Width
<1>2. \A t \in Supported : t \notin DOMAIN Width
  BY DEF Supported, Width
<1> QED BY <1>1, <1>2, PutsSupported

LEMMA GroupsAre ==
    /\ Schema["Time"] = <<Fld("sec", "int32"), Fld("nanosec", "uint32")>>
    /\ Schema["Transform"] = <<Fld("translation", "Vector3"), Fld("rotation", "Quaternion")>>
    /\ Schema["PoseWithCovariance"] =
          <<Fld("pose", "Pose"), Arr(<<"covariance">>, "float64", 36)>>
    /\ Schema["TwistWithCovariance"] =
          <<Fld("twist", "Twist"), Arr(<<"covariance">>, "float64", 36)>>
    /\ Schema["RegionOfInterest"] =
          <<Fld("x_offset", "uint32"), Fld("y_offset", "uint32"), Fld("height", "uint32"),
            Fld("width", "uint32"), Fld("do_rectify", "bool")>>
<1>1. /\ {"Time", "Transform", "PoseWithCovariance", "TwistWithCovariance"} \subseteq DOMAIN SchemaGeometry
      /\ "RegionOfInterest" \in DOMAIN SchemaSensors
  BY SchemaTypes
<1> QED BY <1>1, SchemaIs DEF SchemaGeometry, SchemaSensors

\* A tuple of fields whose paths are paths.
Pathed(s) == IsSeq(s) /\ \A i \in 1..Len(s) : IsSeq(s[i].p)

LEMMA FldIs ==
    \A a, t, k : /\ IsSeq(Fld(a, t).p) /\ IsSeq(Many(a, t).p) /\ IsSeq(Arr(<<a>>, t, k).p)
                 /\ Fld(a, t) = [p |-> <<a>>, t |-> t, rep |-> "fixed", n |-> 1]
                 /\ Many(a, t) = [p |-> <<a>>, t |-> t, rep |-> "counted", n |-> 0]
                 /\ Arr(<<a>>, t, k) = [p |-> <<a>>, t |-> t, rep |-> "fixed", n |-> k]
<1> SUFFICES ASSUME NEW a, NEW t, NEW k
             PROVE  /\ IsSeq(Fld(a, t).p) /\ IsSeq(Many(a, t).p) /\ IsSeq(Arr(<<a>>, t, k).p)
                    /\ Fld(a, t) = [p |-> <<a>>, t |-> t, rep |-> "fixed", n |-> 1]
                    /\ Many(a, t) = [p |-> <<a>>, t |-> t, rep |-> "counted", n |-> 0]
                    /\ Arr(<<a>>, t, k) = [p |-> <<a>>, t |-> t, rep |-> "fixed", n |-> k]
  OBVIOUS
<1>1. IsSeq(<<a>>)
  BY OneLong
<1> QED BY <1>1 DEF Fld, One, Many, Arr

LEMMA PairPathed ==
    ASSUME NEW f, NEW g, IsSeq(f.p), IsSeq(g.p)
    PROVE  Pathed(<<f, g>>) /\ Len(<<f, g>>) = 2
<1> DEFINE s == <<f, g>>
<1>1. IsSeq(s) /\ Len(s) = 2 /\ s[1] = f /\ s[2] = g
  BY TwoLong
<1> HIDE DEF s
<1>2. Pathed(s)
  BY <1>1 DEF Pathed
<1> QED BY <1>1, <1>2 DEF s

LEMMA FiveLong ==
    ASSUME NEW a, NEW b, NEW c, NEW d, NEW e
    PROVE  /\ IsSeq(<<a, b, c, d, e>>) /\ Len(<<a, b, c, d, e>>) = 5
           /\ <<a, b, c, d, e>>[1] = a /\ <<a, b, c, d, e>>[2] = b /\ <<a, b, c, d, e>>[3] = c
           /\ <<a, b, c, d, e>>[4] = d /\ <<a, b, c, d, e>>[5] = e
<1> DEFINE s == <<a, b, c, d, e>>
<1>1. /\ DOMAIN s = 1..5 /\ s = [i \in DOMAIN s |-> s[i]]
      /\ s[1] = a /\ s[2] = b /\ s[3] = c /\ s[4] = d /\ s[5] = e
  OBVIOUS
<1> HIDE DEF s
<1>2. IsSeq(s) /\ Len(s) = 5
  BY <1>1, FunctionIsSeq
<1> QED BY <1>1, <1>2 DEF s

LEMMA GroupsPathed == \A t \in Groups : Pathed(Schema[t])
<1>1. Pathed(Schema["Time"]) /\ Pathed(Schema["Transform"])
  BY GroupsAre, FldIs, PairPathed
<1>2. Pathed(Schema["PoseWithCovariance"]) /\ Pathed(Schema["TwistWithCovariance"])
  BY GroupsAre, FldIs, PairPathed
<1>3. Pathed(Schema["RegionOfInterest"])
  <2> DEFINE s == Schema["RegionOfInterest"]
  <2>1. /\ IsSeq(s) /\ Len(s) = 5
        /\ s[1] = Fld("x_offset", "uint32") /\ s[2] = Fld("y_offset", "uint32")
        /\ s[3] = Fld("height", "uint32") /\ s[4] = Fld("width", "uint32")
        /\ s[5] = Fld("do_rectify", "bool")
    BY GroupsAre, FiveLong
  <2> HIDE DEF s
  <2>2. \A i \in 1..5 : IsSeq(s[i].p)
    BY <2>1, FldIs
  <2>3. Pathed(s)
    BY <2>1, <2>2 DEF Pathed
  <2> QED BY <2>3 DEF s
<1> QED BY <1>1, <1>2, <1>3 DEF Groups

LEMMA SameUnder ==
    ASSUME NEW v, NEW r, IsSeq(v.p), LcmPath(v.p) = r.p,
           NEW a, NEW b, Same(a, b)
    PROVE  Same(Under(v, a), Under(r, b))
<1>1. IsSeq(a.p) /\ LcmPath(a.p) = b.p
  BY DEF Same
<1>2. IsSeq(v.p \o a.p)
  BY <1>1, JoinIs
<1>3. LcmPath(v.p \o a.p) = LcmPath(v.p) \o LcmPath(a.p)
  BY <1>1, LcmJoin
<1>4. LcmPath(v.p \o a.p) = r.p \o b.p
  BY <1>1, <1>3, Zenon
<1>5. IsSeq(Under(v, a).p) /\ LcmPath(Under(v, a).p) = Under(r, b).p
  BY <1>2, <1>4, UnderIs, Zenon
<1>6. /\ Under(v, a).t = a.t /\ Under(v, a).rep = a.rep /\ Under(v, a).n = a.n
      /\ Under(r, b).t = b.t /\ Under(r, b).rep = b.rep /\ Under(r, b).n = b.n
  BY UnderIs, Zenon
<1> QED BY <1>5, <1>6 DEF Same

\* What is below a struct below v is below v with the longer path.
LEMMA UnderUnder ==
    ASSUME NEW v, NEW f, NEW x, IsSeq(v.p), IsSeq(f.p), IsSeq(x.p)
    PROVE  Under(Under(v, f), x) = Under(v, Under(f, x))
<1> DEFINE q == (v.p \o f.p) \o x.p
<1>1. q = v.p \o (f.p \o x.p)
  <2> DEFINE a == v.p  b == f.p  c == x.p
  <2>1. IsSeq(a) /\ IsSeq(b) /\ IsSeq(c)
    OBVIOUS
  <2> HIDE DEF a, b, c
  <2>2. (a \o b) \o c = a \o (b \o c)
    BY <2>1, JoinJoin
  <2> QED BY <2>2, Zenon DEF a, b, c
<1>2. Under(v, f).p = v.p \o f.p /\ Under(f, x).p = f.p \o x.p
  BY UnderIs, Zenon
<1>3. Under(v, f).p \o x.p = q /\ v.p \o Under(f, x).p = q
  BY <1>1, <1>2, Zenon
<1>4. Under(f, x).t = x.t /\ Under(f, x).rep = x.rep /\ Under(f, x).n = x.n
  BY UnderIs, Zenon
<1> HIDE DEF q
<1>5. Under(Under(v, f), x) = [p |-> q, t |-> x.t, rep |-> x.rep, n |-> x.n]
  <2>1. Under(Under(v, f), x) = [p |-> Under(v, f).p \o x.p, t |-> x.t, rep |-> x.rep, n |-> x.n]
    BY Zenon DEF Under
  <2> QED BY <1>3, <2>1, Zenon
<1>6. Under(v, Under(f, x)) = [p |-> q, t |-> x.t, rep |-> x.rep, n |-> x.n]
  <2> DEFINE y == Under(f, x)
  <2>1. Under(v, y) = [p |-> v.p \o y.p, t |-> y.t, rep |-> y.rep, n |-> y.n]
    BY Zenon DEF Under
  <2> QED BY <1>3, <1>4, <2>1, Zenon
<1> QED BY <1>5, <1>6

LEMMA AlikeBelow ==
    ASSUME NEW v, NEW r, IsSeq(v.p), LcmPath(v.p) = r.p,
           NEW vs, NEW rs, Pathed(vs), Alike(vs, rs)
    PROVE  Alike(Below(v, vs), Below(r, rs))
<1>1. PICK g : Covers(g, vs, rs)
  BY DEF Alike
<1> DEFINE x == Below(v, vs)  y == Below(r, rs)
<1>2. IsSeq(vs) /\ IsSeq(rs) /\ Len(vs) \in Nat /\ Len(rs) \in Nat
  BY SeqIs DEF Alike
<1>3. /\ IsSeq(x) /\ Len(x) = Len(vs) /\ IsSeq(y) /\ Len(y) = Len(rs)
      /\ \A i \in 1..Len(vs) : x[i] = Under(v, vs[i])
      /\ \A i \in 1..Len(rs) : y[i] = Under(r, rs[i])
  <2>1. IsSeq(x) /\ Len(x) = Len(vs) /\ \A i \in 1..Len(vs) : x[i] = Under(v, vs[i])
    BY <1>2, BelowIs
  <2>2. IsSeq(y) /\ Len(y) = Len(rs) /\ \A i \in 1..Len(rs) : y[i] = Under(r, rs[i])
    BY <1>2, BelowIs
  <2> QED BY <2>1, <2>2
<1> HIDE DEF x, y
<1>4. \A i \in 1..Len(vs), j \in 1..Len(rs) : Same(vs[i], rs[j]) => Same(x[i], y[j])
  <2> SUFFICES ASSUME NEW i \in 1..Len(vs), NEW j \in 1..Len(rs), Same(vs[i], rs[j])
               PROVE  Same(x[i], y[j])
    OBVIOUS
  <2>1. x[i] = Under(v, vs[i]) /\ y[j] = Under(r, rs[j])
    BY <1>3
  <2>2. Same(Under(v, vs[i]), Under(r, rs[j]))
    BY SameUnder
  <2> QED BY <2>1, <2>2
<1>5. ASSUME NEW i \in 1..Len(vs), NEW a \in Nat, NEW b \in Nat, a < b, b <= Len(rs),
             Stands(vs[i], rs, a, b)
      PROVE  Stands(x[i], y, a, b)
  <2>1. CASE b = a + 1 /\ Same(vs[i], rs[b])
    <3>1. b \in 1..Len(rs)
      BY <1>2, <1>5
    <3> QED BY <1>4, <2>1, <3>1 DEF Stands
  <2>2. CASE /\ vs[i].t \in Groups /\ vs[i].rep = "fixed" /\ IsSeq(vs[i].p)
             /\ b = a + Len(Schema[vs[i].t])
             /\ \A j \in 1..Len(Schema[vs[i].t]) :
                   Same(Below(vs[i], Schema[vs[i].t])[j], rs[a + j])
    <3> DEFINE G == Schema[vs[i].t]
    <3>1. IsSeq(G) /\ (\A j \in 1..Len(G) : IsSeq(G[j].p)) /\ Len(G) \in Nat
      BY <2>2, GroupsPathed, SeqIs DEF Pathed
    <3>2. /\ x[i] = Under(v, vs[i]) /\ x[i].t = vs[i].t /\ x[i].rep = vs[i].rep
          /\ IsSeq(x[i].p)
      <4>1. x[i] = Under(v, vs[i])
        BY <1>3
      <4>2. IsSeq(v.p \o vs[i].p)
        BY <2>2, JoinIs
      <4>3. Under(v, vs[i]).p = v.p \o vs[i].p
        BY UnderIs, ZenonT(40)
      <4>4. Under(v, vs[i]).t = vs[i].t /\ Under(v, vs[i]).rep = vs[i].rep
        BY UnderIs, ZenonT(40)
      <4>5. IsSeq(Under(v, vs[i]).p)
        BY <4>2, <4>3, Zenon
      <4> QED BY <4>1, <4>4, <4>5
    <3>3. ASSUME NEW j \in 1..Len(G) PROVE Same(Below(x[i], G)[j], y[a + j])
      <4>1. Below(vs[i], G)[j] = Under(vs[i], G[j]) /\ Below(x[i], G)[j] = Under(x[i], G[j])
        BY <3>1, BelowIs
      <4>2. Same(Under(vs[i], G[j]), rs[a + j])
        BY <2>2, <4>1
      <4>3. Under(x[i], G[j]) = Under(v, Under(vs[i], G[j]))
        BY <2>2, <3>1, <3>2, UnderUnder, SMTT(40)
      <4>4. a + j \in 1..Len(rs)
        BY <1>2, <1>5, <2>2, <3>1
      <4>5. y[a + j] = Under(r, rs[a + j])
        BY <1>3, <4>4
      <4>6. Same(Under(v, Under(vs[i], G[j])), Under(r, rs[a + j]))
        BY <4>2, SameUnder
      <4> QED BY <4>1, <4>3, <4>5, <4>6
    <3> QED BY <2>2, <3>2, <3>3 DEF Stands
  <2> QED BY <1>5, <2>1, <2>2 DEF Stands
<1>6. ASSUME NEW i \in 1..Len(x)
      PROVE  g[i - 1] < g[i] /\ g[i] <= Len(y) /\ Stands(x[i], y, g[i - 1], g[i])
  <2>1. /\ g[i - 1] < g[i] /\ g[i] <= Len(rs) /\ Stands(vs[i], rs, g[i - 1], g[i])
        /\ g[i - 1] \in Nat /\ g[i] \in Nat /\ i \in 1..Len(vs)
    <3>1. i \in 1..Len(vs) /\ i \in 0..Len(vs) /\ i - 1 \in 0..Len(vs)
      BY <1>2, <1>3
    <3> QED BY <1>1, <3>1 DEF Covers
  <2> QED BY <1>3, <1>5, <2>1
<1>7. Covers(g, x, y)
  BY <1>1, <1>3, <1>6 DEF Covers
<1>8. Alike(x, y)
  BY <1>3, <1>7 DEF Alike
<1> QED BY <1>8 DEF x, y

LEMMA ElementsAre ==
    ASSUME NEW f, NEW n \in Nat
    PROVE  /\ IsSeq(Elements(f, n)) /\ Len(Elements(f, n)) = n
           /\ \A i \in 1..n : Elements(f, n)[i] = One(Append(f.p, ToString(i)), f.t)
<1> DEFINE s == Elements(f, n)
<1>1. /\ DOMAIN s = 1..n /\ s = [i \in DOMAIN s |-> s[i]]
      /\ \A i \in 1..n : s[i] = One(Append(f.p, ToString(i)), f.t)
  BY DEF Elements
<1> HIDE DEF s
<1>2. IsSeq(s) /\ Len(s) = n
  BY <1>1, FunctionIsSeq
<1> QED BY <1>1, <1>2 DEF s

LEMMA AppendJoin ==
    ASSUME NEW s, IsSeq(s), NEW x
    PROVE  Append(s, x) = s \o <<x>>
<1> DEFINE a == Append(s, x)  b == s \o <<x>>
<1>1. IsSeq(<<x>>) /\ Len(<<x>>) = 1 /\ <<x>>[1] = x /\ Len(s) \in Nat
  BY OneLong, SeqIs
<1>2. IsSeq(a) /\ IsSeq(b) /\ Len(a) = Len(s) + 1 /\ Len(b) = Len(s) + 1
  BY <1>1, AppendIs, JoinIs
<1>3. (\A i \in 1..Len(s) : a[i] = s[i]) /\ a[Len(s) + 1] = x
  BY AppendIs
<1>4. \A i \in 1..Len(s) : b[i] = s[i]
  BY <1>1, JoinIs
<1>5. b[Len(s) + 1] = x
  <2>1. \A i \in 1..Len(<<x>>) : b[Len(s) + i] = <<x>>[i]
    BY <1>1, JoinIs
  <2> QED BY <1>1, <2>1
<1> HIDE DEF a, b
<1>6. \A i \in 1..Len(a) : a[i] = b[i]
  BY <1>1, <1>2, <1>3, <1>4, <1>5
<1>7. a = b
  BY <1>2, <1>6, SameSeq
<1> QED BY <1>7 DEF a, b

LEMMA AlikeElements ==
    ASSUME NEW v, NEW r, Same(v, r), IsList(v), NEW n \in Nat,
           \A i \in 1..n : ToString(i) \notin DOMAIN LcmName
    PROVE  Alike(Elements(v, n), Elements(r, n))
<1>1. ASSUME NEW i \in 1..n PROVE Same(Elements(v, n)[i], Elements(r, n)[i])
  <2> DEFINE c == ToString(i)
  <2>1. IsSeq(v.p) /\ LcmPath(v.p) = r.p /\ IsSeq(<<c>>) /\ IsSeq(r.p)
    BY OneLong, LcmIs DEF Same
  <2>2. /\ IsSeq(Append(v.p, c))
        /\ Append(v.p, c) = v.p \o <<c>> /\ Append(r.p, c) = r.p \o <<c>>
    BY <2>1, AppendIs, AppendJoin
  <2>3. LcmPath(v.p \o <<c>>) = LcmPath(v.p) \o LcmPath(<<c>>)
    BY <2>1, LcmJoin
  <2>4. LcmPath(<<c>>) = <<c>>
    BY LcmOne DEF Shared
  <2>5. LcmPath(Append(v.p, c)) = Append(r.p, c)
    BY <2>1, <2>2, <2>3, <2>4
  <2>6. Kin(v.t, r.t)
    BY DEF Same
  <2>7. Same(One(Append(v.p, c), v.t), One(Append(r.p, c), r.t))
    BY <2>2, <2>5, <2>6 DEF Same, One
  <2> QED BY <2>7, ElementsAre
<1> QED BY <1>1, ElementsAre, AlikeOneByOne

-----------------------------------------------------------------------------
(* Type by type: what a schema text and to_cdr have of each message *)

\* A field of to_cdr's tables.
FieldOK(f) ==
    /\ IsSeq(f.p) /\ f.rep \in {"fixed", "counted"} /\ f.n \in Nat
    /\ f.t \in DOMAIN Width \cup DOMAIN Puts

Stack(s) == IsSeq(s) /\ \A i \in 1..Len(s) : FieldOK(s[i])

Pair(v, r) == Same(v, r) /\ FieldOK(r)

\* The schema text of t spells out what to_cdr writes.
TableOK(t) ==
    /\ t \in DOMAIN Schema /\ Pathed(Schema[t])
    /\ Stack(Puts[t]) /\ Alike(Schema[t], Puts[t])

LEMMA Primitives ==
    /\ Kin("float64", "f64") /\ Kin("float32", "f32") /\ Kin("uint32", "i32")
    /\ Kin("int32", "i32") /\ Kin("uint8", "u8") /\ Kin("bool", "bool")
    /\ Kin("string", "string")
BY DEF Kin, Width

LEMMA Structs == \A t \in DOMAIN Puts : Kin(t, t)
BY PutsApart, PutsSupported DEF Kin

LEMMA Called ==
    {"Header", "Point", "Quaternion", "Pose", "Vector3", "PoseStamped", "TransformStamped",
     "PointField", "Twist"} \subseteq DOMAIN Puts
BY PutsIs, PutsTypes

LEMMA KinIs ==
    ASSUME NEW t, NEW u, Kin(t, u)
    PROVE  u \in DOMAIN Width \cup DOMAIN Puts
BY DEF Kin

LEMMA SharedNames ==
    \A a \in {"header", "frame_id", "stamp", "sec", "x", "y", "z", "w", "position",
              "orientation", "linear", "angular", "pose", "twist", "covariance",
              "child_frame_id", "transform", "translation", "rotation", "transforms", "poses"} :
        Shared(a)
BY DEF Shared, LcmName

LEMMA SharedSensorNames ==
    \A a \in {"header", "orientation", "orientation_covariance", "angular_velocity",
              "angular_velocity_covariance", "linear_acceleration",
              "linear_acceleration_covariance", "height", "width", "encoding", "is_bigendian",
              "step", "data", "format", "distortion_model", "binning_x", "binning_y", "roi",
              "x_offset", "y_offset", "do_rectify"} :
        Shared(a)
BY DEF Shared, LcmName

LEMMA SharedOtherNames ==
    \A a \in {"header", "height", "width", "is_bigendian", "data", "fields", "point_step",
              "row_step", "is_dense", "name", "offset", "datatype", "count", "position",
              "velocity", "effort", "angle_min", "angle_max", "angle_increment",
              "time_increment", "scan_time", "range_min", "range_max", "ranges",
              "intensities"} :
        Shared(a)
BY DEF Shared, LcmName

LEMMA PairOf ==
    ASSUME NEW a, NEW t, NEW u, Kin(t, u), Shared(a)
    PROVE  /\ Pair(Fld(a, t), Fld(a, u)) /\ Pair(Many(a, t), Many(a, u))
           /\ \A k \in Nat : Pair(Arr(<<a>>, t, k), Arr(<<a>>, u, k))
<1>1. IsSeq(<<a>>) /\ LcmPath(<<a>>) = <<a>> /\ u \in DOMAIN Width \cup DOMAIN Puts
  BY OneLong, LcmOne, KinIs
<1> DEFINE p == <<a>>
<1> HIDE DEF p
<1>2. IsSeq(p) /\ LcmPath(p) = p
  BY <1>1 DEF p
<1>3. /\ Pair(One(p, t), One(p, u))
      /\ \A k \in Nat : Pair(Arr(p, t, k), Arr(p, u, k))
      /\ Pair([p |-> p, t |-> t, rep |-> "counted", n |-> 0],
              [p |-> p, t |-> u, rep |-> "counted", n |-> 0])
  BY <1>1, <1>2 DEF Pair, Same, FieldOK, One, Arr
<1> QED BY <1>3 DEF p, Fld, Many

LEMMA PairRenamed ==
    ASSUME NEW a \in DOMAIN LcmName, NEW t, NEW u, Kin(t, u)
    PROVE  /\ Pair(Many(a, t), Many(LcmName[a], u))
           /\ \A k \in Nat : Pair(Arr(<<a>>, t, k), Arr(<<LcmName[a]>>, u, k))
<1> DEFINE p == <<a>>  q == <<LcmName[a]>>
<1>1. IsSeq(p) /\ IsSeq(q) /\ LcmPath(p) = q /\ u \in DOMAIN Width \cup DOMAIN Puts
  BY OneLong, LcmOne, KinIs DEF Shared
<1> HIDE DEF p, q
<1>2. /\ \A k \in Nat : Pair(Arr(p, t, k), Arr(q, u, k))
      /\ Pair([p |-> p, t |-> t, rep |-> "counted", n |-> 0],
              [p |-> q, t |-> u, rep |-> "counted", n |-> 0])
  BY <1>1 DEF Pair, Same, FieldOK, Arr
<1> QED BY <1>2 DEF p, q, Many

\* The same for a field that a group puts one level deeper.
LEMMA PairInGroup ==
    ASSUME NEW a, NEW g, NEW b, NEW c, Shared(a), LcmPath(<<b>>) = <<c>>,
           NEW t, NEW u, Kin(t, u)
    PROVE  /\ Pair(Under(Fld(a, g), Fld(b, t)), One(<<a, c>>, u))
           /\ \A k \in Nat : Pair(Under(Fld(a, g), Arr(<<b>>, t, k)), Arr(<<a, c>>, u, k))
<1>1. /\ IsSeq(<<a>>) /\ IsSeq(<<b>>) /\ LcmPath(<<a>>) = <<a>>
      /\ <<a>> \o <<b>> = <<a, b>> /\ <<a>> \o <<c>> = <<a, c>> /\ IsSeq(<<a, b>>)
      /\ IsSeq(<<a, c>>) /\ u \in DOMAIN Width \cup DOMAIN Puts
  BY OneLong, TwoLong, LcmOne, KinIs
<1>2. LcmPath(<<a>> \o <<b>>) = LcmPath(<<a>>) \o LcmPath(<<b>>)
  BY <1>1, LcmJoin
<1> DEFINE p == <<a, b>>  q == <<a, c>>
<1>3. IsSeq(p) /\ IsSeq(q) /\ LcmPath(p) = q
  BY <1>1, <1>2, Zenon
<1>4. ASSUME NEW x, x.p = <<b>> PROVE Under(Fld(a, g), x).p = p
  <2>1. Fld(a, g).p = <<a>>
    BY DEF Fld, One
  <2> QED BY <1>1, <1>4, <2>1, UnderIs, Zenon
<1>5. Fld(b, t).p = <<b>> /\ \A k \in Nat : Arr(<<b>>, t, k).p = <<b>>
  BY DEF Fld, One, Arr
<1> HIDE DEF p, q
<1>6. Pair(Under(Fld(a, g), Fld(b, t)), One(q, u))
  <2> DEFINE x == Under(Fld(a, g), Fld(b, t))
  <2>1. x.p = p
    BY <1>4, <1>5
  <2>2. x.t = t /\ x.rep = "fixed" /\ x.n = 1
    BY UnderIs, ZenonT(40) DEF Fld, One
  <2> HIDE DEF x
  <2>3. Pair(x, One(q, u))
    BY <1>1, <1>3, <2>1, <2>2 DEF Pair, Same, FieldOK, One
  <2> QED BY <2>3 DEF x
<1>7. ASSUME NEW k \in Nat PROVE Pair(Under(Fld(a, g), Arr(<<b>>, t, k)), Arr(q, u, k))
  <2> DEFINE x == Under(Fld(a, g), Arr(<<b>>, t, k))
  <2>1. x.p = p
    BY <1>4, <1>5
  <2>2. x.t = t /\ x.rep = "fixed" /\ x.n = k
    BY UnderIs DEF Arr
  <2> HIDE DEF x
  <2>3. Pair(x, Arr(q, u, k))
    BY <1>1, <1>3, <2>1, <2>2 DEF Pair, Same, FieldOK, Arr
  <2> QED BY <2>3 DEF x
<1> QED BY <1>6, <1>7 DEF q

LEMMA StandsForTwo ==
    ASSUME NEW v, v.t \in Groups, v.rep = "fixed", IsSeq(v.p),
           NEW x, NEW y, Schema[v.t] = <<x, y>>, NEW rs, NEW k \in Nat,
           Same(Under(v, x), rs[k + 1]), Same(Under(v, y), rs[k + 2])
    PROVE  Stands(v, rs, k, k + 2)
<1> DEFINE G == Schema[v.t]
<1>1. IsSeq(G) /\ Len(G) = 2 /\ G[1] = x /\ G[2] = y
  BY TwoLong
<1>2. Below(v, G)[1] = Under(v, x) /\ Below(v, G)[2] = Under(v, y)
  <2> HIDE DEF G
  <2>1. \A i \in 1..2 : Below(v, G)[i] = Under(v, G[i])
    BY <1>1, BelowIs
  <2> QED BY <1>1, <2>1
<1> HIDE DEF G
<1>3. \A j \in 1..Len(G) : Same(Below(v, G)[j], rs[k + j])
  BY <1>1, <1>2
<1> QED BY <1>1, <1>3 DEF Stands, G

\* A table whose fields match one by one.
LEMMA OneByOne ==
    ASSUME NEW t, t \in DOMAIN Schema, NEW n \in Nat,
           NEW s, s = Schema[t], DOMAIN s = 1..n, s = [i \in DOMAIN s |-> s[i]],
           NEW r, r = Puts[t], DOMAIN r = 1..n, r = [i \in DOMAIN r |-> r[i]],
           \A i \in 1..n : Pair(s[i], r[i])
    PROVE  TableOK(t)
<1>1. IsSeq(s) /\ Len(s) = n /\ IsSeq(r) /\ Len(r) = n
  BY FunctionIsSeq
<1>2. Alike(s, r)
  BY <1>1, AlikeOneByOne DEF Pair
<1>3. Stack(r) /\ Pathed(s)
  BY <1>1 DEF Stack, Pathed, Pair, Same
<1> QED BY <1>2, <1>3 DEF TableOK

\* Fields of the same name and of kindred types.
LEMMA DoublePairs ==
    \A a : Shared(a) => /\ Pair(Fld(a, "float64"), Fld(a, "f64"))
                        /\ Pair(Many(a, "float64"), Many(a, "f64"))
BY PairOf, Primitives

LEMMA ArrayPairs ==
    \A a : Shared(a) => \A k \in Nat : Pair(Arr(<<a>>, "float64", k), Arr(<<a>>, "f64", k))
BY PairOf, Primitives

LEMMA FloatPairs ==
    \A a : Shared(a) => /\ Pair(Fld(a, "float32"), Fld(a, "f32"))
                        /\ Pair(Many(a, "float32"), Many(a, "f32"))
BY PairOf, Primitives

LEMMA IntPairs == \A a : Shared(a) => Pair(Fld(a, "uint32"), Fld(a, "i32"))
BY PairOf, Primitives

LEMMA BytePairs ==
    \A a : Shared(a) => Pair(Fld(a, "uint8"), Fld(a, "u8")) /\ Pair(Many(a, "uint8"), Many(a, "u8"))
BY PairOf, Primitives

LEMMA BoolPairs == \A a : Shared(a) => Pair(Fld(a, "bool"), Fld(a, "bool"))
BY PairOf, Primitives

LEMMA StringPairs ==
    \A a : Shared(a) => /\ Pair(Fld(a, "string"), Fld(a, "string"))
                        /\ Pair(Many(a, "string"), Many(a, "string"))
BY PairOf, Primitives

LEMMA StructPairs ==
    ASSUME NEW t \in {"Header", "Point", "Quaternion", "Pose", "Vector3", "PoseStamped",
                      "TransformStamped", "PointField", "Twist"}
    PROVE  \A a : Shared(a) => Pair(Fld(a, t), Fld(a, t)) /\ Pair(Many(a, t), Many(a, t))
<1>1. Kin(t, t)
  BY Called, Structs
<1> QED BY <1>1, PairOf

LEMMA HeaderPair == Pair(SchemaHeader, PutHeader)
<1>1. Shared("header")
  BY SharedNames
<1>2. Pair(Fld("header", "Header"), Fld("header", "Header"))
  BY <1>1, StructPairs
<1> QED BY <1>2 DEF SchemaHeader, PutHeader

LEMMA ImuTable == TableOK("Imu")
<1> DEFINE s == Schema["Imu"]  r == Puts["Imu"]
<1>1. "Imu" \in DOMAIN SchemaSensors /\ "Imu" \in DOMAIN PutSensors
  BY SchemaTypes, PutsTypes
<1>2. "Imu" \in DOMAIN Schema /\ s = SchemaSensors["Imu"] /\ r = PutSensors["Imu"]
  BY <1>1, SchemaIs, PutsIs
<1>3. /\ DOMAIN s = 1..7 /\ s = [i \in DOMAIN s |-> s[i]]
      /\ DOMAIN r = 1..7 /\ r = [i \in DOMAIN r |-> r[i]]
  BY <1>2 DEF SchemaSensors, PutSensors
<1>4. Pair(s[1], r[1])
  BY <1>2, HeaderPair DEF SchemaSensors, PutSensors
<1>5. Pair(s[2], r[2]) /\ Pair(s[4], r[4]) /\ Pair(s[6], r[6])
  BY <1>2, StructPairs, SharedSensorNames DEF SchemaSensors, PutSensors
<1>6. Pair(s[3], r[3]) /\ Pair(s[5], r[5]) /\ Pair(s[7], r[7])
  BY <1>2, ArrayPairs, SharedSensorNames DEF SchemaSensors, PutSensors
<1> HIDE DEF s, r
<1>7. \A i \in 1..7 : Pair(s[i], r[i])
  BY <1>4, <1>5, <1>6
<1> QED BY <1>2, <1>3, <1>7, OneByOne DEF s, r

LEMMA Vector3Table == TableOK("Vector3")
<1> DEFINE s == Schema["Vector3"]  r == Puts["Vector3"]
<1>1. "Vector3" \in DOMAIN SchemaGeometry /\ "Vector3" \in DOMAIN PutGeometry
  BY SchemaTypes, PutsTypes
<1>2. "Vector3" \in DOMAIN Schema /\ s = SchemaGeometry["Vector3"] /\ r = PutGeometry["Vector3"]
  BY <1>1, SchemaIs, PutsIs
<1>3. /\ DOMAIN s = 1..3 /\ s = [i \in DOMAIN s |-> s[i]]
      /\ DOMAIN r = 1..3 /\ r = [i \in DOMAIN r |-> r[i]]
  BY <1>2 DEF SchemaGeometry, PutGeometry, SchemaXYZ, PutXYZ
<1>4. Pair(s[1], r[1]) /\ Pair(s[2], r[2]) /\ Pair(s[3], r[3])
  BY <1>2, DoublePairs, SharedNames DEF SchemaGeometry, PutGeometry, SchemaXYZ, PutXYZ
<1> HIDE DEF s, r
<1>5. \A i \in 1..3 : Pair(s[i], r[i])
  BY <1>4
<1> QED BY <1>2, <1>3, <1>5, OneByOne DEF s, r

LEMMA PointTable == TableOK("Point")
<1> DEFINE s == Schema["Point"]  r == Puts["Point"]
<1>1. "Point" \in DOMAIN SchemaGeometry /\ "Point" \in DOMAIN PutGeometry
  BY SchemaTypes, PutsTypes
<1>2. "Point" \in DOMAIN Schema /\ s = SchemaGeometry["Point"] /\ r = PutGeometry["Point"]
  BY <1>1, SchemaIs, PutsIs
<1>3. /\ DOMAIN s = 1..3 /\ s = [i \in DOMAIN s |-> s[i]]
      /\ DOMAIN r = 1..3 /\ r = [i \in DOMAIN r |-> r[i]]
  BY <1>2 DEF SchemaGeometry, PutGeometry, SchemaXYZ, PutXYZ
<1>4. Pair(s[1], r[1]) /\ Pair(s[2], r[2]) /\ Pair(s[3], r[3])
  BY <1>2, DoublePairs, SharedNames DEF SchemaGeometry, PutGeometry, SchemaXYZ, PutXYZ
<1> HIDE DEF s, r
<1>5. \A i \in 1..3 : Pair(s[i], r[i])
  BY <1>4
<1> QED BY <1>2, <1>3, <1>5, OneByOne DEF s, r

LEMMA QuaternionTable == TableOK("Quaternion")
<1> DEFINE s == Schema["Quaternion"]  r == Puts["Quaternion"]
<1>1. "Quaternion" \in DOMAIN SchemaGeometry /\ "Quaternion" \in DOMAIN PutGeometry
  BY SchemaTypes, PutsTypes
<1>2. "Quaternion" \in DOMAIN Schema /\ s = SchemaGeometry["Quaternion"] /\ r = PutGeometry["Quaternion"]
  BY <1>1, SchemaIs, PutsIs
<1>3. /\ DOMAIN s = 1..4 /\ s = [i \in DOMAIN s |-> s[i]]
      /\ DOMAIN r = 1..4 /\ r = [i \in DOMAIN r |-> r[i]]
  BY <1>2 DEF SchemaGeometry, PutGeometry
<1>4. Pair(s[1], r[1]) /\ Pair(s[2], r[2]) /\ Pair(s[3], r[3]) /\ Pair(s[4], r[4])
  BY <1>2, DoublePairs, SharedNames DEF SchemaGeometry, PutGeometry
<1> HIDE DEF s, r
<1>5. \A i \in 1..4 : Pair(s[i], r[i])
  BY <1>4
<1> QED BY <1>2, <1>3, <1>5, OneByOne DEF s, r

LEMMA PoseTable == TableOK("Pose")
<1> DEFINE s == Schema["Pose"]  r == Puts["Pose"]
<1>1. "Pose" \in DOMAIN SchemaGeometry /\ "Pose" \in DOMAIN PutGeometry
  BY SchemaTypes, PutsTypes
<1>2. "Pose" \in DOMAIN Schema /\ s = SchemaGeometry["Pose"] /\ r = PutGeometry["Pose"]
  BY <1>1, SchemaIs, PutsIs
<1>3. /\ DOMAIN s = 1..2 /\ s = [i \in DOMAIN s |-> s[i]]
      /\ DOMAIN r = 1..2 /\ r = [i \in DOMAIN r |-> r[i]]
  BY <1>2 DEF SchemaGeometry, PutGeometry
<1>4. Pair(s[1], r[1]) /\ Pair(s[2], r[2])
  BY <1>2, StructPairs, SharedNames DEF SchemaGeometry, PutGeometry
<1> HIDE DEF s, r
<1>5. \A i \in 1..2 : Pair(s[i], r[i])
  BY <1>4
<1> QED BY <1>2, <1>3, <1>5, OneByOne DEF s, r

LEMMA TwistTable == TableOK("Twist")
<1> DEFINE s == Schema["Twist"]  r == Puts["Twist"]
<1>1. "Twist" \in DOMAIN SchemaGeometry /\ "Twist" \in DOMAIN PutGeometry
  BY SchemaTypes, PutsTypes
<1>2. "Twist" \in DOMAIN Schema /\ s = SchemaGeometry["Twist"] /\ r = PutGeometry["Twist"]
  BY <1>1, SchemaIs, PutsIs
<1>3. /\ DOMAIN s = 1..2 /\ s = [i \in DOMAIN s |-> s[i]]
      /\ DOMAIN r = 1..2 /\ r = [i \in DOMAIN r |-> r[i]]
  BY <1>2 DEF SchemaGeometry, PutGeometry
<1>4. Pair(s[1], r[1]) /\ Pair(s[2], r[2])
  BY <1>2, StructPairs, SharedNames DEF SchemaGeometry, PutGeometry
<1> HIDE DEF s, r
<1>5. \A i \in 1..2 : Pair(s[i], r[i])
  BY <1>4
<1> QED BY <1>2, <1>3, <1>5, OneByOne DEF s, r

LEMMA PoseStampedTable == TableOK("PoseStamped")
<1> DEFINE s == Schema["PoseStamped"]  r == Puts["PoseStamped"]
<1>1. "PoseStamped" \in DOMAIN SchemaGeometry /\ "PoseStamped" \in DOMAIN PutGeometry
  BY SchemaTypes, PutsTypes
<1>2. "PoseStamped" \in DOMAIN Schema /\ s = SchemaGeometry["PoseStamped"] /\ r = PutGeometry["PoseStamped"]
  BY <1>1, SchemaIs, PutsIs
<1>3. /\ DOMAIN s = 1..2 /\ s = [i \in DOMAIN s |-> s[i]]
      /\ DOMAIN r = 1..2 /\ r = [i \in DOMAIN r |-> r[i]]
  BY <1>2 DEF SchemaGeometry, PutGeometry
<1>4. Pair(s[1], r[1])
  BY <1>2, HeaderPair DEF SchemaGeometry, PutGeometry
<1>5. Pair(s[2], r[2])
  BY <1>2, StructPairs, SharedNames DEF SchemaGeometry, PutGeometry
<1> HIDE DEF s, r
<1>6. \A i \in 1..2 : Pair(s[i], r[i])
  BY <1>4, <1>5
<1> QED BY <1>2, <1>3, <1>6, OneByOne DEF s, r

LEMMA TFMessageTable == TableOK("TFMessage")
<1> DEFINE s == Schema["TFMessage"]  r == Puts["TFMessage"]
<1>1. "TFMessage" \in DOMAIN SchemaGeometry /\ "TFMessage" \in DOMAIN PutGeometry
  BY SchemaTypes, PutsTypes
<1>2. "TFMessage" \in DOMAIN Schema /\ s = SchemaGeometry["TFMessage"] /\ r = PutGeometry["TFMessage"]
  BY <1>1, SchemaIs, PutsIs
<1>3. /\ DOMAIN s = 1..1 /\ s = [i \in DOMAIN s |-> s[i]]
      /\ DOMAIN r = 1..1 /\ r = [i \in DOMAIN r |-> r[i]]
  BY <1>2 DEF SchemaGeometry, PutGeometry
<1>4. Pair(s[1], r[1])
  BY <1>2, StructPairs, SharedNames DEF SchemaGeometry, PutGeometry
<1> HIDE DEF s, r
<1>5. \A i \in 1..1 : Pair(s[i], r[i])
  BY <1>4
<1> QED BY <1>2, <1>3, <1>5, OneByOne DEF s, r

LEMMA PathTable == TableOK("Path")
<1> DEFINE s == Schema["Path"]  r == Puts["Path"]
<1>1. "Path" \in DOMAIN SchemaGeometry /\ "Path" \in DOMAIN PutGeometry
  BY SchemaTypes, PutsTypes
<1>2. "Path" \in DOMAIN Schema /\ s = SchemaGeometry["Path"] /\ r = PutGeometry["Path"]
  BY <1>1, SchemaIs, PutsIs
<1>3. /\ DOMAIN s = 1..2 /\ s = [i \in DOMAIN s |-> s[i]]
      /\ DOMAIN r = 1..2 /\ r = [i \in DOMAIN r |-> r[i]]
  BY <1>2 DEF SchemaGeometry, PutGeometry
<1>4. Pair(s[1], r[1])
  BY <1>2, HeaderPair DEF SchemaGeometry, PutGeometry
<1>5. Pair(s[2], r[2])
  BY <1>2, StructPairs, SharedNames DEF SchemaGeometry, PutGeometry
<1> HIDE DEF s, r
<1>6. \A i \in 1..2 : Pair(s[i], r[i])
  BY <1>4, <1>5
<1> QED BY <1>2, <1>3, <1>6, OneByOne DEF s, r

LEMMA ImageTable == TableOK("Image")
<1> DEFINE s == Schema["Image"]  r == Puts["Image"]
<1>1. "Image" \in DOMAIN SchemaSensors /\ "Image" \in DOMAIN PutSensors
  BY SchemaTypes, PutsTypes
<1>2. "Image" \in DOMAIN Schema /\ s = SchemaSensors["Image"] /\ r = PutSensors["Image"]
  BY <1>1, SchemaIs, PutsIs
<1>3. /\ DOMAIN s = 1..7 /\ s = [i \in DOMAIN s |-> s[i]]
      /\ DOMAIN r = 1..7 /\ r = [i \in DOMAIN r |-> r[i]]
  BY <1>2 DEF SchemaSensors, PutSensors
<1>4. Pair(s[1], r[1])
  BY <1>2, HeaderPair DEF SchemaSensors, PutSensors
<1>5. Pair(s[2], r[2]) /\ Pair(s[3], r[3]) /\ Pair(s[6], r[6])
  BY <1>2, IntPairs, SharedSensorNames DEF SchemaSensors, PutSensors
<1>6. Pair(s[4], r[4])
  BY <1>2, StringPairs, SharedSensorNames DEF SchemaSensors, PutSensors
<1>7. Pair(s[5], r[5]) /\ Pair(s[7], r[7])
  BY <1>2, BytePairs, SharedSensorNames DEF SchemaSensors, PutSensors
<1> HIDE DEF s, r
<1>8. \A i \in 1..7 : Pair(s[i], r[i])
  BY <1>4, <1>5, <1>6, <1>7
<1> QED BY <1>2, <1>3, <1>8, OneByOne DEF s, r

LEMMA CompressedImageTable == TableOK("CompressedImage")
<1> DEFINE s == Schema["CompressedImage"]  r == Puts["CompressedImage"]
<1>1. "CompressedImage" \in DOMAIN SchemaSensors /\ "CompressedImage" \in DOMAIN PutSensors
  BY SchemaTypes, PutsTypes
<1>2. "CompressedImage" \in DOMAIN Schema /\ s = SchemaSensors["CompressedImage"] /\ r = PutSensors["CompressedImage"]
  BY <1>1, SchemaIs, PutsIs
<1>3. /\ DOMAIN s = 1..3 /\ s = [i \in DOMAIN s |-> s[i]]
      /\ DOMAIN r = 1..3 /\ r = [i \in DOMAIN r |-> r[i]]
  BY <1>2 DEF SchemaSensors, PutSensors
<1>4. Pair(s[1], r[1])
  BY <1>2, HeaderPair DEF SchemaSensors, PutSensors
<1>5. Pair(s[2], r[2])
  BY <1>2, StringPairs, SharedSensorNames DEF SchemaSensors, PutSensors
<1>6. Pair(s[3], r[3])
  BY <1>2, BytePairs, SharedSensorNames DEF SchemaSensors, PutSensors
<1> HIDE DEF s, r
<1>7. \A i \in 1..3 : Pair(s[i], r[i])
  BY <1>4, <1>5, <1>6
<1> QED BY <1>2, <1>3, <1>7, OneByOne DEF s, r

LEMMA PointCloud2Table == TableOK("PointCloud2")
<1> DEFINE s == Schema["PointCloud2"]  r == Puts["PointCloud2"]
<1>1. "PointCloud2" \in DOMAIN SchemaSensors /\ "PointCloud2" \in DOMAIN PutSensors
  BY SchemaTypes, PutsTypes
<1>2. "PointCloud2" \in DOMAIN Schema /\ s = SchemaSensors["PointCloud2"] /\ r = PutSensors["PointCloud2"]
  BY <1>1, SchemaIs, PutsIs
<1>3. /\ DOMAIN s = 1..9 /\ s = [i \in DOMAIN s |-> s[i]]
      /\ DOMAIN r = 1..9 /\ r = [i \in DOMAIN r |-> r[i]]
  BY <1>2 DEF SchemaSensors, PutSensors
<1>4. Pair(s[1], r[1])
  BY <1>2, HeaderPair DEF SchemaSensors, PutSensors
<1>5. Pair(s[4], r[4])
  BY <1>2, StructPairs, SharedOtherNames DEF SchemaSensors, PutSensors
<1>6. Pair(s[2], r[2]) /\ Pair(s[3], r[3]) /\ Pair(s[6], r[6]) /\ Pair(s[7], r[7])
  BY <1>2, IntPairs, SharedOtherNames DEF SchemaSensors, PutSensors
<1>7. Pair(s[5], r[5]) /\ Pair(s[9], r[9])
  BY <1>2, BoolPairs, SharedOtherNames DEF SchemaSensors, PutSensors
<1>8. Pair(s[8], r[8])
  BY <1>2, BytePairs, SharedOtherNames DEF SchemaSensors, PutSensors
<1> HIDE DEF s, r
<1>9. \A i \in 1..9 : Pair(s[i], r[i])
  BY <1>4, <1>5, <1>6, <1>7, <1>8
<1> QED BY <1>2, <1>3, <1>9, OneByOne DEF s, r

LEMMA PointFieldTable == TableOK("PointField")
<1> DEFINE s == Schema["PointField"]  r == Puts["PointField"]
<1>1. "PointField" \in DOMAIN SchemaSensors /\ "PointField" \in DOMAIN PutSensors
  BY SchemaTypes, PutsTypes
<1>2. "PointField" \in DOMAIN Schema /\ s = SchemaSensors["PointField"] /\ r = PutSensors["PointField"]
  BY <1>1, SchemaIs, PutsIs
<1>3. /\ DOMAIN s = 1..4 /\ s = [i \in DOMAIN s |-> s[i]]
      /\ DOMAIN r = 1..4 /\ r = [i \in DOMAIN r |-> r[i]]
  BY <1>2 DEF SchemaSensors, PutSensors
<1>4. Pair(s[1], r[1])
  BY <1>2, StringPairs, SharedOtherNames DEF SchemaSensors, PutSensors
<1>5. Pair(s[2], r[2]) /\ Pair(s[4], r[4])
  BY <1>2, IntPairs, SharedOtherNames DEF SchemaSensors, PutSensors
<1>6. Pair(s[3], r[3])
  BY <1>2, BytePairs, SharedOtherNames DEF SchemaSensors, PutSensors
<1> HIDE DEF s, r
<1>7. \A i \in 1..4 : Pair(s[i], r[i])
  BY <1>4, <1>5, <1>6
<1> QED BY <1>2, <1>3, <1>7, OneByOne DEF s, r

LEMMA JointStateTable == TableOK("JointState")
<1> DEFINE s == Schema["JointState"]  r == Puts["JointState"]
<1>1. "JointState" \in DOMAIN SchemaSensors /\ "JointState" \in DOMAIN PutSensors
  BY SchemaTypes, PutsTypes
<1>2. "JointState" \in DOMAIN Schema /\ s = SchemaSensors["JointState"] /\ r = PutSensors["JointState"]
  BY <1>1, SchemaIs, PutsIs
<1>3. /\ DOMAIN s = 1..5 /\ s = [i \in DOMAIN s |-> s[i]]
      /\ DOMAIN r = 1..5 /\ r = [i \in DOMAIN r |-> r[i]]
  BY <1>2 DEF SchemaSensors, PutSensors
<1>4. Pair(s[1], r[1])
  BY <1>2, HeaderPair DEF SchemaSensors, PutSensors
<1>5. Pair(s[2], r[2])
  BY <1>2, StringPairs, SharedOtherNames DEF SchemaSensors, PutSensors
<1>6. Pair(s[3], r[3]) /\ Pair(s[4], r[4]) /\ Pair(s[5], r[5])
  BY <1>2, DoublePairs, SharedOtherNames DEF SchemaSensors, PutSensors
<1> HIDE DEF s, r
<1>7. \A i \in 1..5 : Pair(s[i], r[i])
  BY <1>4, <1>5, <1>6
<1> QED BY <1>2, <1>3, <1>7, OneByOne DEF s, r

LEMMA LaserScanTable == TableOK("LaserScan")
<1> DEFINE s == Schema["LaserScan"]  r == Puts["LaserScan"]
<1>1. "LaserScan" \in DOMAIN SchemaSensors /\ "LaserScan" \in DOMAIN PutSensors
  BY SchemaTypes, PutsTypes
<1>2. "LaserScan" \in DOMAIN Schema /\ s = SchemaSensors["LaserScan"] /\ r = PutSensors["LaserScan"]
  BY <1>1, SchemaIs, PutsIs
<1>3. /\ DOMAIN s = 1..10 /\ s = [i \in DOMAIN s |-> s[i]]
      /\ DOMAIN r = 1..10 /\ r = [i \in DOMAIN r |-> r[i]]
  BY <1>2 DEF SchemaSensors, PutSensors
<1>4. Pair(s[1], r[1])
  BY <1>2, HeaderPair DEF SchemaSensors, PutSensors
<1>5. /\ Pair(s[2], r[2]) /\ Pair(s[3], r[3]) /\ Pair(s[4], r[4]) /\ Pair(s[5], r[5])
      /\ Pair(s[6], r[6]) /\ Pair(s[7], r[7]) /\ Pair(s[8], r[8]) /\ Pair(s[9], r[9])
      /\ Pair(s[10], r[10])
  BY <1>2, FloatPairs, SharedOtherNames DEF SchemaSensors, PutSensors
<1> HIDE DEF s, r
<1>6. \A i \in 1..10 : Pair(s[i], r[i])
  BY <1>4, <1>5
<1> QED BY <1>2, <1>3, <1>6, OneByOne DEF s, r

LEMMA StandsForOne ==
    ASSUME NEW v, NEW rs, NEW a \in Nat, NEW b \in Nat, b = a + 1, Pair(v, rs[b])
    PROVE  Stands(v, rs, a, b)
BY DEF Stands, Pair, Same

LEMMA HeaderTable == TableOK("Header")
<1> DEFINE t == "Header"  s == Schema[t]  r == Puts[t]
           v == Fld("stamp", "Time")  x == Fld("sec", "int32")  y == Fld("nanosec", "uint32")
<1>1. "Header" \in DOMAIN SchemaGeometry /\ "Header" \in DOMAIN PutGeometry
  BY SchemaTypes, PutsTypes
<1>2. t \in DOMAIN Schema /\ s = SchemaGeometry["Header"] /\ r = PutGeometry["Header"]
  BY <1>1, SchemaIs, PutsIs
<1>3. /\ DOMAIN s = 1..2 /\ s = [i \in DOMAIN s |-> s[i]]
      /\ DOMAIN r = 1..3 /\ r = [i \in DOMAIN r |-> r[i]]
  BY <1>2 DEF SchemaGeometry, PutGeometry
<1>4. Pair(s[2], r[3])
  BY <1>2, StringPairs, SharedNames DEF SchemaGeometry, PutGeometry
<1>5. Pair(Under(v, x), r[1]) /\ Pair(Under(v, y), r[2])
  <2>1. Shared("stamp") /\ LcmPath(<<"sec">>) = <<"sec">> /\ LcmPath(<<"nanosec">>) = <<"nsec">>
    <3>1. "nanosec" \in DOMAIN LcmName /\ LcmName["nanosec"] = "nsec"
      BY DEF LcmName
    <3> QED BY <3>1, LcmOne, SharedNames DEF Shared
  <2>2. r[1] = One(<<"stamp", "sec">>, "i32") /\ r[2] = One(<<"stamp", "nsec">>, "i32")
    BY <1>2 DEF PutGeometry
  <2>3. Pair(Under(v, x), One(<<"stamp", "sec">>, "i32"))
    BY <2>1, Primitives, PairInGroup
  <2>4. Pair(Under(v, y), One(<<"stamp", "nsec">>, "i32"))
    BY <2>1, Primitives, PairInGroup
  <2> QED BY <2>2, <2>3, <2>4
<1>6. v.t \in Groups /\ v.rep = "fixed" /\ IsSeq(v.p) /\ Schema[v.t] = <<x, y>> /\ s[1] = v
  <2>1. v.t = "Time" /\ v.rep = "fixed" /\ IsSeq(v.p)
    BY OneLong DEF Fld, One
  <2>2. s[1] = v
    BY <1>2 DEF SchemaGeometry
  <2> QED BY <2>1, <2>2, GroupsAre DEF Groups
<1> HIDE DEF t, s, r, v, x, y
<1>7. Stands(s[1], r, 0, 2)
  <2>1. Same(Under(v, x), r[0 + 1]) /\ Same(Under(v, y), r[0 + 2])
    BY <1>5 DEF Pair
  <2>2. Stands(v, r, 0, 0 + 2)
    BY <1>6, <2>1, StandsForTwo
  <2> QED BY <1>6, <2>2
<1> DEFINE g == [i \in 0..2 |-> IF i = 0 THEN 0 ELSE i + 1]
<1>8. /\ \A i \in 1..2 : IsSeq(s[i].p)
      /\ \A i \in 1..3 : FieldOK(r[i])
  BY <1>4, <1>5, <1>6 DEF Pair, Same
<1>9. Stands(s[2], r, 2, 3)
  <2>1. 3 = 2 + 1
    OBVIOUS
  <2> QED BY <1>4, <2>1, StandsForOne
<1>10. g \in [0..2 -> Nat] /\ g[0] = 0 /\ g[1] = 2 /\ g[2] = 3
  OBVIOUS
<1> HIDE DEF g
<1>11. \A i \in 1..2 : g[i - 1] < g[i] /\ g[i] <= 3 /\ Stands(s[i], r, g[i - 1], g[i])
  BY <1>7, <1>9, <1>10
<1>12. IsSeq(s) /\ Len(s) = 2 /\ IsSeq(r) /\ Len(r) = 3
  BY <1>3, FunctionIsSeq
<1>13. Covers(g, s, r) /\ Stack(r) /\ Pathed(s)
  BY <1>8, <1>10, <1>11, <1>12 DEF Covers, Stack, Pathed
<1>14. Alike(s, r)
  BY <1>12, <1>13 DEF Alike
<1> QED BY <1>2, <1>13, <1>14 DEF TableOK, t, s, r

LEMMA TransformStampedTable == TableOK("TransformStamped")
<1> DEFINE t == "TransformStamped"  s == Schema[t]  r == Puts[t]
           v == Fld("transform", "Transform")
           x == Fld("translation", "Vector3")  y == Fld("rotation", "Quaternion")
<1>1. "TransformStamped" \in DOMAIN SchemaGeometry /\ "TransformStamped" \in DOMAIN PutGeometry
  BY SchemaTypes, PutsTypes
<1>2. /\ t \in DOMAIN Schema
      /\ s = SchemaGeometry["TransformStamped"] /\ r = PutGeometry["TransformStamped"]
  BY <1>1, SchemaIs, PutsIs
<1>3. /\ DOMAIN s = 1..3 /\ s = [i \in DOMAIN s |-> s[i]]
      /\ DOMAIN r = 1..4 /\ r = [i \in DOMAIN r |-> r[i]]
  BY <1>2 DEF SchemaGeometry, PutGeometry
<1>4. Pair(s[1], r[1])
  BY <1>2, HeaderPair DEF SchemaGeometry, PutGeometry
<1>5. Pair(s[2], r[2])
  BY <1>2, StringPairs, SharedNames DEF SchemaGeometry, PutGeometry
<1>6. Pair(Under(v, x), r[3]) /\ Pair(Under(v, y), r[4])
  <2>1. /\ Shared("transform") /\ LcmPath(<<"translation">>) = <<"translation">>
        /\ LcmPath(<<"rotation">>) = <<"rotation">>
    BY LcmOne, SharedNames
  <2>2. /\ r[3] = One(<<"transform", "translation">>, "Vector3")
        /\ r[4] = One(<<"transform", "rotation">>, "Quaternion")
    BY <1>2 DEF PutGeometry
  <2>3. Kin("Vector3", "Vector3") /\ Kin("Quaternion", "Quaternion")
    BY Called, Structs
  <2>4. Pair(Under(v, x), One(<<"transform", "translation">>, "Vector3"))
    BY <2>1, <2>3, PairInGroup
  <2>5. Pair(Under(v, y), One(<<"transform", "rotation">>, "Quaternion"))
    BY <2>1, <2>3, PairInGroup
  <2> QED BY <2>2, <2>4, <2>5
<1>7. v.t \in Groups /\ v.rep = "fixed" /\ IsSeq(v.p) /\ Schema[v.t] = <<x, y>> /\ s[3] = v
  <2>1. v.t = "Transform" /\ v.rep = "fixed" /\ IsSeq(v.p)
    BY OneLong DEF Fld, One
  <2>2. s[3] = v
    BY <1>2 DEF SchemaGeometry
  <2> QED BY <2>1, <2>2, GroupsAre DEF Groups
<1> HIDE DEF t, s, r, v, x, y
<1>8. Stands(s[3], r, 2, 4)
  <2>1. Same(Under(v, x), r[2 + 1]) /\ Same(Under(v, y), r[2 + 2])
    BY <1>6 DEF Pair
  <2>2. Stands(v, r, 2, 2 + 2)
    BY <1>7, <2>1, StandsForTwo
  <2> QED BY <1>7, <2>2
<1> DEFINE g == [i \in 0..3 |-> IF i = 3 THEN 4 ELSE i]
<1>9. /\ \A i \in 1..3 : IsSeq(s[i].p)
      /\ \A i \in 1..4 : FieldOK(r[i])
  BY <1>4, <1>5, <1>6, <1>7 DEF Pair, Same
<1>10. \A i \in 1..2 : Stands(s[i], r, i - 1, i)
  BY <1>4, <1>5, StandsForOne
<1>11. g \in [0..3 -> Nat] /\ g[0] = 0 /\ g[1] = 1 /\ g[2] = 2 /\ g[3] = 4
  OBVIOUS
<1> HIDE DEF g
<1>12. \A i \in 1..3 : g[i - 1] < g[i] /\ g[i] <= 4 /\ Stands(s[i], r, g[i - 1], g[i])
  BY <1>8, <1>10, <1>11
<1>13. IsSeq(s) /\ Len(s) = 3 /\ IsSeq(r) /\ Len(r) = 4
  BY <1>3, FunctionIsSeq
<1>14. Covers(g, s, r) /\ Stack(r) /\ Pathed(s)
  BY <1>9, <1>11, <1>12, <1>13 DEF Covers, Stack, Pathed
<1>15. Alike(s, r)
  BY <1>13, <1>14 DEF Alike
<1> QED BY <1>2, <1>14, <1>15 DEF TableOK, t, s, r

LEMMA OdometryTable == TableOK("Odometry")
<1> DEFINE t == "Odometry"  s == Schema[t]  r == Puts[t]
           v == Fld("pose", "PoseWithCovariance")  w == Fld("twist", "TwistWithCovariance")
           c == Arr(<<"covariance">>, "float64", 36)
           x == Fld("pose", "Pose")  y == Fld("twist", "Twist")
<1>1. "Odometry" \in DOMAIN SchemaGeometry /\ "Odometry" \in DOMAIN PutGeometry
  BY SchemaTypes, PutsTypes
<1>2. /\ t \in DOMAIN Schema
      /\ s = SchemaGeometry["Odometry"] /\ r = PutGeometry["Odometry"]
  BY <1>1, SchemaIs, PutsIs
<1>3. /\ DOMAIN s = 1..4 /\ s = [i \in DOMAIN s |-> s[i]]
      /\ DOMAIN r = 1..6 /\ r = [i \in DOMAIN r |-> r[i]]
  BY <1>2 DEF SchemaGeometry, PutGeometry
<1>4. Pair(s[1], r[1])
  BY <1>2, HeaderPair DEF SchemaGeometry, PutGeometry
<1>5. Pair(s[2], r[2])
  BY <1>2, StringPairs, SharedNames DEF SchemaGeometry, PutGeometry
<1>6. /\ Pair(Under(v, x), r[3]) /\ Pair(Under(v, c), r[4])
      /\ Pair(Under(w, y), r[5]) /\ Pair(Under(w, c), r[6])
  <2>1. /\ Shared("pose") /\ LcmPath(<<"pose">>) = <<"pose">>
        /\ Shared("twist") /\ LcmPath(<<"twist">>) = <<"twist">>
        /\ LcmPath(<<"covariance">>) = <<"covariance">>
    BY LcmOne, SharedNames
  <2>2. r[3] = One(<<"pose", "pose">>, "Pose") /\ r[5] = One(<<"twist", "twist">>, "Twist")
    BY <1>2 DEF PutGeometry
  <2>3. /\ r[4] = Arr(<<"pose", "covariance">>, "f64", 36)
        /\ r[6] = Arr(<<"twist", "covariance">>, "f64", 36)
    BY <1>2 DEF PutGeometry
  <2>4. Kin("Pose", "Pose") /\ Kin("Twist", "Twist") /\ Kin("float64", "f64")
    BY Called, Structs, Primitives
  <2>5. Pair(Under(v, x), One(<<"pose", "pose">>, "Pose"))
    BY <2>1, <2>4, PairInGroup
  <2>6. Pair(Under(w, y), One(<<"twist", "twist">>, "Twist"))
    BY <2>1, <2>4, PairInGroup
  <2>7. Pair(Under(v, c), Arr(<<"pose", "covariance">>, "f64", 36))
    BY <2>1, <2>4, PairInGroup
  <2>8. Pair(Under(w, c), Arr(<<"twist", "covariance">>, "f64", 36))
    BY <2>1, <2>4, PairInGroup
  <2> QED BY <2>2, <2>3, <2>5, <2>6, <2>7, <2>8
<1>7. /\ v.t \in Groups /\ v.rep = "fixed" /\ IsSeq(v.p) /\ Schema[v.t] = <<x, c>> /\ s[3] = v
      /\ w.t \in Groups /\ w.rep = "fixed" /\ IsSeq(w.p) /\ Schema[w.t] = <<y, c>> /\ s[4] = w
  <2>1. /\ v.t = "PoseWithCovariance" /\ v.rep = "fixed" /\ IsSeq(v.p)
        /\ w.t = "TwistWithCovariance" /\ w.rep = "fixed" /\ IsSeq(w.p)
    BY OneLong DEF Fld, One
  <2>2. s[3] = v /\ s[4] = w
    BY <1>2 DEF SchemaGeometry
  <2> QED BY <2>1, <2>2, GroupsAre DEF Groups
<1> HIDE DEF t, s, r, v, w, c, x, y
<1>8. Stands(s[3], r, 2, 4) /\ Stands(s[4], r, 4, 6)
  <2>1. /\ Same(Under(v, x), r[2 + 1]) /\ Same(Under(v, c), r[2 + 2])
        /\ Same(Under(w, y), r[4 + 1]) /\ Same(Under(w, c), r[4 + 2])
    BY <1>6 DEF Pair
  <2>2. Stands(v, r, 2, 2 + 2)
    BY <1>7, <2>1, StandsForTwo
  <2>3. Stands(w, r, 4, 4 + 2)
    BY <1>7, <2>1, StandsForTwo
  <2> QED BY <1>7, <2>2, <2>3
<1> DEFINE g == [i \in 0..4 |-> IF i = 4 THEN 6 ELSE IF i = 3 THEN 4 ELSE i]
<1>9. /\ \A i \in 1..4 : IsSeq(s[i].p)
      /\ \A i \in 1..6 : FieldOK(r[i])
  BY <1>4, <1>5, <1>6, <1>7 DEF Pair, Same
<1>10. \A i \in 1..2 : Stands(s[i], r, i - 1, i)
  BY <1>4, <1>5, StandsForOne
<1>11. g \in [0..4 -> Nat] /\ g[0] = 0 /\ g[1] = 1 /\ g[2] = 2 /\ g[3] = 4 /\ g[4] = 6
  OBVIOUS
<1> HIDE DEF g
<1>12. \A i \in 1..4 : g[i - 1] < g[i] /\ g[i] <= 6 /\ Stands(s[i], r, g[i - 1], g[i])
  BY <1>8, <1>10, <1>11
<1>13. IsSeq(s) /\ Len(s) = 4 /\ IsSeq(r) /\ Len(r) = 6
  BY <1>3, FunctionIsSeq
<1>14. Covers(g, s, r) /\ Stack(r) /\ Pathed(s)
  BY <1>9, <1>11, <1>12, <1>13 DEF Covers, Stack, Pathed
<1>15. Alike(s, r)
  BY <1>13, <1>14 DEF Alike
<1> QED BY <1>2, <1>14, <1>15 DEF TableOK, t, s, r

LEMMA CameraInfoTable == TableOK("CameraInfo")
<1> DEFINE t == "CameraInfo"  s == Schema[t]  r == Puts[t]
           v == Fld("roi", "RegionOfInterest")  G == Schema["RegionOfInterest"]
<1>1. "CameraInfo" \in DOMAIN SchemaSensors /\ "CameraInfo" \in DOMAIN PutSensors
  BY SchemaTypes, PutsTypes
<1>2. /\ t \in DOMAIN Schema
      /\ s = SchemaSensors["CameraInfo"] /\ r = PutSensors["CameraInfo"]
  BY <1>1, SchemaIs, PutsIs
<1>3. /\ DOMAIN s = 1..11 /\ s = [i \in DOMAIN s |-> s[i]]
      /\ DOMAIN r = 1..15 /\ r = [i \in DOMAIN r |-> r[i]]
  BY <1>2 DEF SchemaSensors, PutSensors
<1>4. Pair(s[1], r[1])
  BY <1>2, HeaderPair DEF SchemaSensors, PutSensors
<1>5. Pair(s[2], r[2]) /\ Pair(s[3], r[3]) /\ Pair(s[9], r[9]) /\ Pair(s[10], r[10])
  BY <1>2, IntPairs, SharedSensorNames DEF SchemaSensors, PutSensors
<1>6. Pair(s[4], r[4])
  BY <1>2, StringPairs, SharedSensorNames DEF SchemaSensors, PutSensors
<1>7. Pair(s[5], r[5]) /\ Pair(s[6], r[6]) /\ Pair(s[7], r[7]) /\ Pair(s[8], r[8])
  <2>1. /\ s[5] = Many("d", "float64") /\ r[5] = Many("D", "f64")
        /\ s[6] = Arr(<<"k">>, "float64", 9) /\ r[6] = Arr(<<"K">>, "f64", 9)
        /\ s[7] = Arr(<<"r">>, "float64", 9) /\ r[7] = Arr(<<"R">>, "f64", 9)
        /\ s[8] = Arr(<<"p">>, "float64", 12) /\ r[8] = Arr(<<"P">>, "f64", 12)
    BY <1>2 DEF SchemaSensors, PutSensors
  <2>2. /\ {"d", "k", "r", "p"} \subseteq DOMAIN LcmName
        /\ LcmName["d"] = "D" /\ LcmName["k"] = "K" /\ LcmName["r"] = "R" /\ LcmName["p"] = "P"
    BY DEF LcmName
  <2>3. Pair(Many("d", "float64"), Many("D", "f64"))
    BY <2>2, PairRenamed, Primitives
  <2>4. /\ Pair(Arr(<<"k">>, "float64", 9), Arr(<<"K">>, "f64", 9))
        /\ Pair(Arr(<<"r">>, "float64", 9), Arr(<<"R">>, "f64", 9))
    BY <2>2, PairRenamed, Primitives
  <2>5. Pair(Arr(<<"p">>, "float64", 12), Arr(<<"P">>, "f64", 12))
    BY <2>2, PairRenamed, Primitives
  <2> QED BY <2>1, <2>3, <2>4, <2>5
<1>8. \A i \in 1..5 : Pair(Under(v, G[i]), r[10 + i])
  <2>1. /\ G[1] = Fld("x_offset", "uint32") /\ G[2] = Fld("y_offset", "uint32")
        /\ G[3] = Fld("height", "uint32") /\ G[4] = Fld("width", "uint32")
        /\ G[5] = Fld("do_rectify", "bool")
    BY GroupsAre, FiveLong
  <2>2. /\ r[11] = One(<<"roi", "x_offset">>, "i32") /\ r[12] = One(<<"roi", "y_offset">>, "i32")
        /\ r[13] = One(<<"roi", "height">>, "i32") /\ r[14] = One(<<"roi", "width">>, "i32")
        /\ r[15] = One(<<"roi", "do_rectify">>, "bool")
    BY <1>2 DEF PutSensors
  <2>3. Shared("roi")
    BY SharedSensorNames
  <2>4. \A a \in {"x_offset", "y_offset", "height", "width"} :
            Pair(Under(v, Fld(a, "uint32")), One(<<"roi", a>>, "i32"))
    <3>1. \A a : Shared(a) => LcmPath(<<a>>) = <<a>>
      BY LcmOne
    <3>2. \A a : Shared(a) => Pair(Under(v, Fld(a, "uint32")), One(<<"roi", a>>, "i32"))
      BY <2>3, <3>1, Primitives, PairInGroup
    <3> QED BY <3>2, SharedSensorNames
  <2>5. Pair(Under(v, Fld("do_rectify", "bool")), One(<<"roi", "do_rectify">>, "bool"))
    <3>1. LcmPath(<<"do_rectify">>) = <<"do_rectify">>
      BY LcmOne, SharedSensorNames
    <3> QED BY <2>3, <3>1, Primitives, PairInGroup
  <2> HIDE DEF G, r, v
  <2>6. /\ Pair(Under(v, G[1]), r[11]) /\ Pair(Under(v, G[2]), r[12])
        /\ Pair(Under(v, G[3]), r[13]) /\ Pair(Under(v, G[4]), r[14])
        /\ Pair(Under(v, G[5]), r[15])
    BY <2>1, <2>2, <2>4, <2>5
  <2> QED BY <2>6
<1>9. /\ v.t \in Groups /\ v.rep = "fixed" /\ IsSeq(v.p) /\ Schema[v.t] = G
      /\ s[11] = v /\ IsSeq(G) /\ Len(G) = 5
  <2>1. v.t = "RegionOfInterest" /\ v.rep = "fixed" /\ IsSeq(v.p)
    BY OneLong DEF Fld, One
  <2>2. s[11] = v
    BY <1>2 DEF SchemaSensors
  <2>3. IsSeq(G) /\ Len(G) = 5
    BY GroupsAre, FiveLong
  <2> QED BY <2>1, <2>2, <2>3 DEF Groups
<1> HIDE DEF t, s, r, v, G
<1>10. Stands(s[11], r, 10, 15)
  <2>1. Len(Schema[v.t]) = 5 /\ \A j \in 1..5 : Below(v, Schema[v.t])[j] = Under(v, G[j])
    BY <1>9, BelowIs
  <2>2. \A j \in 1..5 : Same(Below(v, Schema[v.t])[j], r[10 + j])
    BY <1>8, <2>1 DEF Pair
  <2>3. 15 = 10 + Len(Schema[v.t])
    BY <2>1
  <2>4. Stands(v, r, 10, 15)
    BY <1>9, <2>1, <2>2, <2>3, Zenon DEF Stands
  <2> QED BY <1>9, <2>4
<1> DEFINE g == [i \in 0..11 |-> IF i = 11 THEN 15 ELSE i]
<1>11. \A i \in 1..10 : Pair(s[i], r[i])
  BY <1>4, <1>5, <1>6, <1>7
<1>12. /\ \A i \in 1..11 : IsSeq(s[i].p)
       /\ \A i \in 1..15 : FieldOK(r[i])
  <2>1. \A i \in 1..10 : IsSeq(s[i].p) /\ FieldOK(r[i])
    BY <1>11 DEF Pair, Same
  <2>2. \A i \in 1..5 : FieldOK(r[10 + i])
    BY <1>8 DEF Pair
  <2>3. FieldOK(r[11]) /\ FieldOK(r[12]) /\ FieldOK(r[13]) /\ FieldOK(r[14]) /\ FieldOK(r[15])
    BY <2>2
  <2> QED BY <1>9, <2>1, <2>3
<1>13. \A i \in 1..10 : Stands(s[i], r, i - 1, i)
  <2> SUFFICES ASSUME NEW i \in 1..10 PROVE Stands(s[i], r, i - 1, i)
    OBVIOUS
  <2>1. Pair(s[i], r[i]) /\ i = (i - 1) + 1 /\ i - 1 \in Nat /\ i \in Nat
    BY <1>11
  <2> QED BY <2>1, StandsForOne
<1>14. g \in [0..11 -> Nat] /\ g[11] = 15 /\ \A i \in 0..10 : g[i] = i
  OBVIOUS
<1> HIDE DEF g
<1>15. \A i \in 1..11 : g[i - 1] < g[i] /\ g[i] <= 15 /\ Stands(s[i], r, g[i - 1], g[i])
  BY <1>10, <1>13, <1>14
<1>16. IsSeq(s) /\ Len(s) = 11 /\ IsSeq(r) /\ Len(r) = 15
  BY <1>3, FunctionIsSeq
<1>17. Covers(g, s, r) /\ Stack(r) /\ Pathed(s)
  BY <1>12, <1>14, <1>15, <1>16 DEF Covers, Stack, Pathed
<1>18. Alike(s, r)
  BY <1>16, <1>17 DEF Alike
<1> QED BY <1>2, <1>17, <1>18 DEF TableOK, t, s, r

\* The structs that a text's fields are of.
CallsOnly(t, structs) ==
    \A i \in DOMAIN Schema[t] : Schema[t][i].t \in DOMAIN Width \/ Schema[t][i].t \in structs

LEMMA GeometryCalls ==
    /\ CallsOnly("Header", {"Time"})
    /\ CallsOnly("Time", {})
    /\ CallsOnly("Vector3", {})
    /\ CallsOnly("Point", {})
    /\ CallsOnly("Quaternion", {})
    /\ CallsOnly("Pose", {"Point", "Quaternion"})
    /\ CallsOnly("Twist", {"Vector3"})
    /\ CallsOnly("Transform", {"Vector3", "Quaternion"})
    /\ CallsOnly("PoseWithCovariance", {"Pose"})
    /\ CallsOnly("TwistWithCovariance", {"Twist"})
    /\ CallsOnly("PoseStamped", {"Header", "Pose"})
    /\ CallsOnly("TransformStamped", {"Header", "Transform"})
    /\ CallsOnly("TFMessage", {"TransformStamped"})
    /\ CallsOnly("Odometry", {"Header", "PoseWithCovariance", "TwistWithCovariance"})
    /\ CallsOnly("Path", {"Header", "PoseStamped"})
<1>1. DOMAIN Width = {"u8", "bool", "string", "i32", "f32", "f64", "uint8", "int32",
                    "uint32", "float32", "float64"}
  BY DEF Width
<1>2. CallsOnly("Header", {"Time"})
  <2>1. Schema["Header"] = SchemaGeometry["Header"]
    BY SchemaIs, SchemaTypes
  <2> QED BY <1>1, <2>1 DEF CallsOnly, SchemaGeometry, Fld, One, Many, Arr, SchemaXYZ, SchemaHeader
<1>3. CallsOnly("Time", {})
  <2>1. Schema["Time"] = SchemaGeometry["Time"]
    BY SchemaIs, SchemaTypes
  <2> QED BY <1>1, <2>1 DEF CallsOnly, SchemaGeometry, Fld, One, Many, Arr, SchemaXYZ, SchemaHeader
<1>4. CallsOnly("Vector3", {})
  <2>1. Schema["Vector3"] = SchemaGeometry["Vector3"]
    BY SchemaIs, SchemaTypes
  <2> QED BY <1>1, <2>1 DEF CallsOnly, SchemaGeometry, Fld, One, Many, Arr, SchemaXYZ, SchemaHeader
<1>5. CallsOnly("Point", {})
  <2>1. Schema["Point"] = SchemaGeometry["Point"]
    BY SchemaIs, SchemaTypes
  <2> QED BY <1>1, <2>1 DEF CallsOnly, SchemaGeometry, Fld, One, Many, Arr, SchemaXYZ, SchemaHeader
<1>6. CallsOnly("Quaternion", {})
  <2>1. Schema["Quaternion"] = SchemaGeometry["Quaternion"]
    BY SchemaIs, SchemaTypes
  <2> QED BY <1>1, <2>1 DEF CallsOnly, SchemaGeometry, Fld, One, Many, Arr, SchemaXYZ, SchemaHeader
<1>7. CallsOnly("Pose", {"Point", "Quaternion"})
  <2>1. Schema["Pose"] = SchemaGeometry["Pose"]
    BY SchemaIs, SchemaTypes
  <2> QED BY <1>1, <2>1 DEF CallsOnly, SchemaGeometry, Fld, One, Many, Arr, SchemaXYZ, SchemaHeader
<1>8. CallsOnly("Twist", {"Vector3"})
  <2>1. Schema["Twist"] = SchemaGeometry["Twist"]
    BY SchemaIs, SchemaTypes
  <2> QED BY <1>1, <2>1 DEF CallsOnly, SchemaGeometry, Fld, One, Many, Arr, SchemaXYZ, SchemaHeader
<1>9. CallsOnly("Transform", {"Vector3", "Quaternion"})
  <2>1. Schema["Transform"] = SchemaGeometry["Transform"]
    BY SchemaIs, SchemaTypes
  <2> QED BY <1>1, <2>1 DEF CallsOnly, SchemaGeometry, Fld, One, Many, Arr, SchemaXYZ, SchemaHeader
<1>10. CallsOnly("PoseWithCovariance", {"Pose"})
  <2>1. Schema["PoseWithCovariance"] = SchemaGeometry["PoseWithCovariance"]
    BY SchemaIs, SchemaTypes
  <2> QED BY <1>1, <2>1 DEF CallsOnly, SchemaGeometry, Fld, One, Many, Arr, SchemaXYZ, SchemaHeader
<1>11. CallsOnly("TwistWithCovariance", {"Twist"})
  <2>1. Schema["TwistWithCovariance"] = SchemaGeometry["TwistWithCovariance"]
    BY SchemaIs, SchemaTypes
  <2> QED BY <1>1, <2>1 DEF CallsOnly, SchemaGeometry, Fld, One, Many, Arr, SchemaXYZ, SchemaHeader
<1>12. CallsOnly("PoseStamped", {"Header", "Pose"})
  <2>1. Schema["PoseStamped"] = SchemaGeometry["PoseStamped"]
    BY SchemaIs, SchemaTypes
  <2> QED BY <1>1, <2>1 DEF CallsOnly, SchemaGeometry, Fld, One, Many, Arr, SchemaXYZ, SchemaHeader
<1>13. CallsOnly("TransformStamped", {"Header", "Transform"})
  <2>1. Schema["TransformStamped"] = SchemaGeometry["TransformStamped"]
    BY SchemaIs, SchemaTypes
  <2> QED BY <1>1, <2>1 DEF CallsOnly, SchemaGeometry, Fld, One, Many, Arr, SchemaXYZ, SchemaHeader
<1>14. CallsOnly("TFMessage", {"TransformStamped"})
  <2>1. Schema["TFMessage"] = SchemaGeometry["TFMessage"]
    BY SchemaIs, SchemaTypes
  <2> QED BY <1>1, <2>1 DEF CallsOnly, SchemaGeometry, Fld, One, Many, Arr, SchemaXYZ, SchemaHeader
<1>15. CallsOnly("Odometry", {"Header", "PoseWithCovariance", "TwistWithCovariance"})
  <2>1. Schema["Odometry"] = SchemaGeometry["Odometry"]
    BY SchemaIs, SchemaTypes
  <2> QED BY <1>1, <2>1 DEF CallsOnly, SchemaGeometry, Fld, One, Many, Arr, SchemaXYZ, SchemaHeader
<1>16. CallsOnly("Path", {"Header", "PoseStamped"})
  <2>1. Schema["Path"] = SchemaGeometry["Path"]
    BY SchemaIs, SchemaTypes
  <2> QED BY <1>1, <2>1 DEF CallsOnly, SchemaGeometry, Fld, One, Many, Arr, SchemaXYZ, SchemaHeader
<1> QED BY <1>2, <1>3, <1>4, <1>5, <1>6, <1>7, <1>8, <1>9, <1>10, <1>11, <1>12, <1>13, <1>14, <1>15, <1>16

LEMMA SensorCalls ==
    /\ CallsOnly("Imu", {"Header", "Quaternion", "Vector3"})
    /\ CallsOnly("Image", {"Header"})
    /\ CallsOnly("CompressedImage", {"Header"})
    /\ CallsOnly("CameraInfo", {"Header", "RegionOfInterest"})
    /\ CallsOnly("RegionOfInterest", {})
    /\ CallsOnly("PointCloud2", {"Header", "PointField"})
    /\ CallsOnly("PointField", {})
    /\ CallsOnly("JointState", {"Header"})
    /\ CallsOnly("LaserScan", {"Header"})
<1>1. DOMAIN Width = {"u8", "bool", "string", "i32", "f32", "f64", "uint8", "int32",
                    "uint32", "float32", "float64"}
  BY DEF Width
<1>2. CallsOnly("Imu", {"Header", "Quaternion", "Vector3"})
  <2>1. Schema["Imu"] = SchemaSensors["Imu"]
    BY SchemaIs, SchemaTypes
  <2> QED BY <1>1, <2>1 DEF CallsOnly, SchemaSensors, Fld, One, Many, Arr, SchemaXYZ, SchemaHeader
<1>3. CallsOnly("Image", {"Header"})
  <2>1. Schema["Image"] = SchemaSensors["Image"]
    BY SchemaIs, SchemaTypes
  <2> QED BY <1>1, <2>1 DEF CallsOnly, SchemaSensors, Fld, One, Many, Arr, SchemaXYZ, SchemaHeader
<1>4. CallsOnly("CompressedImage", {"Header"})
  <2>1. Schema["CompressedImage"] = SchemaSensors["CompressedImage"]
    BY SchemaIs, SchemaTypes
  <2> QED BY <1>1, <2>1 DEF CallsOnly, SchemaSensors, Fld, One, Many, Arr, SchemaXYZ, SchemaHeader
<1>5. CallsOnly("CameraInfo", {"Header", "RegionOfInterest"})
  <2> DEFINE s == Schema["CameraInfo"]
  <2>1. s = SchemaSensors["CameraInfo"]
    BY SchemaIs, SchemaTypes
  <2>2. DOMAIN s = 1..11
    BY <2>1 DEF SchemaSensors
  <2>3. s[1].t = "Header" /\ s[11].t = "RegionOfInterest" /\ s[4].t = "string"
    BY <2>1 DEF SchemaSensors, Fld, One, Many, Arr, SchemaHeader
  <2>4. s[2].t = "uint32" /\ s[3].t = "uint32" /\ s[9].t = "uint32" /\ s[10].t = "uint32"
    BY <2>1 DEF SchemaSensors, Fld, One, Many, Arr, SchemaHeader
  <2>5. \A i \in 5..8 : s[i].t = "float64"
    BY <2>1 DEF SchemaSensors, Fld, One, Many, Arr, SchemaHeader
  <2> HIDE DEF s
  <2>6. \A i \in 1..11 : s[i].t \in DOMAIN Width \/ s[i].t \in {"Header", "RegionOfInterest"}
    BY <1>1, <2>3, <2>4, <2>5
  <2> QED BY <2>2, <2>6 DEF CallsOnly, s
<1>6. CallsOnly("RegionOfInterest", {})
  <2>1. Schema["RegionOfInterest"] = SchemaSensors["RegionOfInterest"]
    BY SchemaIs, SchemaTypes
  <2> QED BY <1>1, <2>1 DEF CallsOnly, SchemaSensors, Fld, One, Many, Arr, SchemaXYZ, SchemaHeader
<1>7. CallsOnly("PointCloud2", {"Header", "PointField"})
  <2> DEFINE s == Schema["PointCloud2"]
  <2>1. s = SchemaSensors["PointCloud2"]
    BY SchemaIs, SchemaTypes
  <2>2. DOMAIN s = 1..9
    BY <2>1 DEF SchemaSensors
  <2>3. s[1].t = "Header" /\ s[4].t = "PointField" /\ s[8].t = "uint8"
    BY <2>1 DEF SchemaSensors, Fld, One, Many, Arr, SchemaHeader
  <2>4. s[2].t = "uint32" /\ s[3].t = "uint32" /\ s[6].t = "uint32" /\ s[7].t = "uint32"
    BY <2>1 DEF SchemaSensors, Fld, One, Many, Arr, SchemaHeader
  <2>5. s[5].t = "bool" /\ s[9].t = "bool"
    BY <2>1 DEF SchemaSensors, Fld, One, Many, Arr, SchemaHeader
  <2> HIDE DEF s
  <2>6. \A i \in 1..9 : s[i].t \in DOMAIN Width \/ s[i].t \in {"Header", "PointField"}
    BY <1>1, <2>3, <2>4, <2>5
  <2> QED BY <2>2, <2>6 DEF CallsOnly, s
<1>8. CallsOnly("PointField", {})
  <2>1. Schema["PointField"] = SchemaSensors["PointField"]
    BY SchemaIs, SchemaTypes
  <2> QED BY <1>1, <2>1 DEF CallsOnly, SchemaSensors, Fld, One, Many, Arr, SchemaXYZ, SchemaHeader
<1>9. CallsOnly("JointState", {"Header"})
  <2>1. Schema["JointState"] = SchemaSensors["JointState"]
    BY SchemaIs, SchemaTypes
  <2> QED BY <1>1, <2>1 DEF CallsOnly, SchemaSensors, Fld, One, Many, Arr, SchemaXYZ, SchemaHeader
<1>10. CallsOnly("LaserScan", {"Header"})
  <2> DEFINE s == Schema["LaserScan"]
  <2>1. s = SchemaSensors["LaserScan"]
    BY SchemaIs, SchemaTypes
  <2>2. DOMAIN s = 1..10
    BY <2>1 DEF SchemaSensors
  <2>3. s[1].t = "Header" /\ \A i \in 2..5 : s[i].t = "float32"
    BY <2>1 DEF SchemaSensors, Fld, One, Many, Arr, SchemaHeader
  <2>4. \A i \in 6..10 : s[i].t = "float32"
    BY <2>1 DEF SchemaSensors, Fld, One, Many, Arr, SchemaHeader
  <2> HIDE DEF s
  <2>5. \A i \in 1..10 : s[i].t \in DOMAIN Width \/ s[i].t \in {"Header"}
    BY <1>1, <2>3, <2>4
  <2> QED BY <2>2, <2>5 DEF CallsOnly, s
<1> QED BY <1>2, <1>3, <1>4, <1>5, <1>6, <1>7, <1>8, <1>9, <1>10

\* What a viewer finds in the text of message a.
Text(a) == {a} \cup Nested[a]

LEMMA CallsMore ==
    \A t, S, U : CallsOnly(t, S) /\ S \subseteq U => CallsOnly(t, U)
BY DEF CallsOnly

\* A schema text spells out every struct that it mentions.
LEMMA TextsClosed ==
    /\ DOMAIN Nested = Supported
    /\ \A a \in Supported : \A t \in Text(a) : CallsOnly(t, Text(a))
<1>1. DOMAIN Nested = Supported
  BY DEF Nested, Supported
<1>2. \A t \in Text("PoseStamped") : CallsOnly(t, Text("PoseStamped"))
  <2> DEFINE T == Text("PoseStamped")
  <2>1. T = {"PoseStamped", "Header", "Time", "Pose", "Point", "Quaternion"}
    BY DEF Text, Nested
  <2>2. /\ {"Header", "Pose"} \subseteq T
        /\ {"Time"} \subseteq T
        /\ {"Point", "Quaternion"} \subseteq T
        /\ {} \subseteq T
    BY <2>1
  <2> HIDE DEF T
  <2>3. /\ CallsOnly("PoseStamped", T)
        /\ CallsOnly("Header", T)
        /\ CallsOnly("Time", T)
        /\ CallsOnly("Pose", T)
        /\ CallsOnly("Point", T)
        /\ CallsOnly("Quaternion", T)
    BY <2>2, GeometryCalls, SensorCalls, CallsMore
  <2>4. \A t \in T : CallsOnly(t, T)
    BY <2>1, <2>3
  <2> QED BY <2>4 DEF T
<1>3. \A t \in Text("TransformStamped") : CallsOnly(t, Text("TransformStamped"))
  <2> DEFINE T == Text("TransformStamped")
  <2>1. T = {"TransformStamped", "Header", "Time", "Transform", "Vector3", "Quaternion"}
    BY DEF Text, Nested
  <2>2. /\ {"Header", "Transform"} \subseteq T
        /\ {"Time"} \subseteq T
        /\ {"Vector3", "Quaternion"} \subseteq T
        /\ {} \subseteq T
    BY <2>1
  <2> HIDE DEF T
  <2>3. /\ CallsOnly("TransformStamped", T)
        /\ CallsOnly("Header", T)
        /\ CallsOnly("Time", T)
        /\ CallsOnly("Transform", T)
        /\ CallsOnly("Vector3", T)
        /\ CallsOnly("Quaternion", T)
    BY <2>2, GeometryCalls, SensorCalls, CallsMore
  <2>4. \A t \in T : CallsOnly(t, T)
    BY <2>1, <2>3
  <2> QED BY <2>4 DEF T
<1>4. \A t \in Text("TFMessage") : CallsOnly(t, Text("TFMessage"))
  <2> DEFINE T == Text("TFMessage")
  <2>1. T = {"TFMessage", "Header", "Time", "Transform", "Vector3", "Quaternion", "TransformStamped"}
    BY DEF Text, Nested
  <2>2. /\ {"TransformStamped"} \subseteq T
        /\ {"Time"} \subseteq T
        /\ {"Vector3", "Quaternion"} \subseteq T
        /\ {"Header", "Transform"} \subseteq T
        /\ {} \subseteq T
    BY <2>1
  <2> HIDE DEF T
  <2>3. /\ CallsOnly("TFMessage", T)
        /\ CallsOnly("Header", T)
        /\ CallsOnly("Time", T)
        /\ CallsOnly("Transform", T)
        /\ CallsOnly("Vector3", T)
        /\ CallsOnly("Quaternion", T)
        /\ CallsOnly("TransformStamped", T)
    BY <2>2, GeometryCalls, SensorCalls, CallsMore
  <2>4. \A t \in T : CallsOnly(t, T)
    BY <2>1, <2>3
  <2> QED BY <2>4 DEF T
<1>5. \A t \in Text("Odometry") : CallsOnly(t, Text("Odometry"))
  <2> DEFINE T == Text("Odometry")
  <2>1. T = {"Odometry", "Header", "Time", "Pose", "Point", "Quaternion", "PoseWithCovariance", "Twist", "Vector3", "TwistWithCovariance"}
    BY DEF Text, Nested
  <2>2. /\ {"Header", "PoseWithCovariance", "TwistWithCovariance"} \subseteq T
        /\ {"Time"} \subseteq T
        /\ {"Point", "Quaternion"} \subseteq T
        /\ {"Pose"} \subseteq T
        /\ {"Vector3"} \subseteq T
        /\ {"Twist"} \subseteq T
        /\ {} \subseteq T
    BY <2>1
  <2> HIDE DEF T
  <2>3. /\ CallsOnly("Odometry", T)
        /\ CallsOnly("Header", T)
        /\ CallsOnly("Time", T)
        /\ CallsOnly("Pose", T)
        /\ CallsOnly("Point", T)
        /\ CallsOnly("Quaternion", T)
        /\ CallsOnly("PoseWithCovariance", T)
        /\ CallsOnly("Twist", T)
        /\ CallsOnly("Vector3", T)
        /\ CallsOnly("TwistWithCovariance", T)
    BY <2>2, GeometryCalls, SensorCalls, CallsMore
  <2>4. \A t \in T : CallsOnly(t, T)
    BY <2>1, <2>3
  <2> QED BY <2>4 DEF T
<1>6. \A t \in Text("Path") : CallsOnly(t, Text("Path"))
  <2> DEFINE T == Text("Path")
  <2>1. T = {"Path", "Header", "Time", "Pose", "Point", "Quaternion", "PoseStamped"}
    BY DEF Text, Nested
  <2>2. /\ {"Header", "PoseStamped"} \subseteq T
        /\ {"Time"} \subseteq T
        /\ {"Point", "Quaternion"} \subseteq T
        /\ {"Header", "Pose"} \subseteq T
        /\ {} \subseteq T
    BY <2>1
  <2> HIDE DEF T
  <2>3. /\ CallsOnly("Path", T)
        /\ CallsOnly("Header", T)
        /\ CallsOnly("Time", T)
        /\ CallsOnly("Pose", T)
        /\ CallsOnly("Point", T)
        /\ CallsOnly("Quaternion", T)
        /\ CallsOnly("PoseStamped", T)
    BY <2>2, GeometryCalls, SensorCalls, CallsMore
  <2>4. \A t \in T : CallsOnly(t, T)
    BY <2>1, <2>3
  <2> QED BY <2>4 DEF T
<1>7. \A t \in Text("Imu") : CallsOnly(t, Text("Imu"))
  <2> DEFINE T == Text("Imu")
  <2>1. T = {"Imu", "Header", "Time", "Vector3", "Quaternion"}
    BY DEF Text, Nested
  <2>2. /\ {"Header", "Quaternion", "Vector3"} \subseteq T
        /\ {"Time"} \subseteq T
        /\ {} \subseteq T
    BY <2>1
  <2> HIDE DEF T
  <2>3. /\ CallsOnly("Imu", T)
        /\ CallsOnly("Header", T)
        /\ CallsOnly("Time", T)
        /\ CallsOnly("Vector3", T)
        /\ CallsOnly("Quaternion", T)
    BY <2>2, GeometryCalls, SensorCalls, CallsMore
  <2>4. \A t \in T : CallsOnly(t, T)
    BY <2>1, <2>3
  <2> QED BY <2>4 DEF T
<1>8. \A t \in Text("Image") : CallsOnly(t, Text("Image"))
  <2> DEFINE T == Text("Image")
  <2>1. T = {"Image", "Header", "Time"}
    BY DEF Text, Nested
  <2>2. /\ {"Header"} \subseteq T
        /\ {"Time"} \subseteq T
        /\ {} \subseteq T
    BY <2>1
  <2> HIDE DEF T
  <2>3. /\ CallsOnly("Image", T)
        /\ CallsOnly("Header", T)
        /\ CallsOnly("Time", T)
    BY <2>2, GeometryCalls, SensorCalls, CallsMore
  <2>4. \A t \in T : CallsOnly(t, T)
    BY <2>1, <2>3
  <2> QED BY <2>4 DEF T
<1>9. \A t \in Text("CompressedImage") : CallsOnly(t, Text("CompressedImage"))
  <2> DEFINE T == Text("CompressedImage")
  <2>1. T = {"CompressedImage", "Header", "Time"}
    BY DEF Text, Nested
  <2>2. /\ {"Header"} \subseteq T
        /\ {"Time"} \subseteq T
        /\ {} \subseteq T
    BY <2>1
  <2> HIDE DEF T
  <2>3. /\ CallsOnly("CompressedImage", T)
        /\ CallsOnly("Header", T)
        /\ CallsOnly("Time", T)
    BY <2>2, GeometryCalls, SensorCalls, CallsMore
  <2>4. \A t \in T : CallsOnly(t, T)
    BY <2>1, <2>3
  <2> QED BY <2>4 DEF T
<1>10. \A t \in Text("JointState") : CallsOnly(t, Text("JointState"))
  <2> DEFINE T == Text("JointState")
  <2>1. T = {"JointState", "Header", "Time"}
    BY DEF Text, Nested
  <2>2. /\ {"Header"} \subseteq T
        /\ {"Time"} \subseteq T
        /\ {} \subseteq T
    BY <2>1
  <2> HIDE DEF T
  <2>3. /\ CallsOnly("JointState", T)
        /\ CallsOnly("Header", T)
        /\ CallsOnly("Time", T)
    BY <2>2, GeometryCalls, SensorCalls, CallsMore
  <2>4. \A t \in T : CallsOnly(t, T)
    BY <2>1, <2>3
  <2> QED BY <2>4 DEF T
<1>11. \A t \in Text("LaserScan") : CallsOnly(t, Text("LaserScan"))
  <2> DEFINE T == Text("LaserScan")
  <2>1. T = {"LaserScan", "Header", "Time"}
    BY DEF Text, Nested
  <2>2. /\ {"Header"} \subseteq T
        /\ {"Time"} \subseteq T
        /\ {} \subseteq T
    BY <2>1
  <2> HIDE DEF T
  <2>3. /\ CallsOnly("LaserScan", T)
        /\ CallsOnly("Header", T)
        /\ CallsOnly("Time", T)
    BY <2>2, GeometryCalls, SensorCalls, CallsMore
  <2>4. \A t \in T : CallsOnly(t, T)
    BY <2>1, <2>3
  <2> QED BY <2>4 DEF T
<1>12. \A t \in Text("CameraInfo") : CallsOnly(t, Text("CameraInfo"))
  <2> DEFINE T == Text("CameraInfo")
  <2>1. T = {"CameraInfo", "Header", "Time", "RegionOfInterest"}
    BY DEF Text, Nested
  <2>2. /\ {"Header", "RegionOfInterest"} \subseteq T
        /\ {"Time"} \subseteq T
        /\ {} \subseteq T
    BY <2>1
  <2> HIDE DEF T
  <2>3. /\ CallsOnly("CameraInfo", T)
        /\ CallsOnly("Header", T)
        /\ CallsOnly("Time", T)
        /\ CallsOnly("RegionOfInterest", T)
    BY <2>2, GeometryCalls, SensorCalls, CallsMore
  <2>4. \A t \in T : CallsOnly(t, T)
    BY <2>1, <2>3
  <2> QED BY <2>4 DEF T
<1>13. \A t \in Text("PointCloud2") : CallsOnly(t, Text("PointCloud2"))
  <2> DEFINE T == Text("PointCloud2")
  <2>1. T = {"PointCloud2", "Header", "Time", "PointField"}
    BY DEF Text, Nested
  <2>2. /\ {"Header", "PointField"} \subseteq T
        /\ {"Time"} \subseteq T
        /\ {} \subseteq T
    BY <2>1
  <2> HIDE DEF T
  <2>3. /\ CallsOnly("PointCloud2", T)
        /\ CallsOnly("Header", T)
        /\ CallsOnly("Time", T)
        /\ CallsOnly("PointField", T)
    BY <2>2, GeometryCalls, SensorCalls, CallsMore
  <2>4. \A t \in T : CallsOnly(t, T)
    BY <2>1, <2>3
  <2> QED BY <2>4 DEF T
<1> QED BY <1>1, <1>2, <1>3, <1>4, <1>5, <1>6, <1>7, <1>8, <1>9, <1>10, <1>11, <1>12, <1>13 DEF Supported

LEMMA Tables == \A t \in DOMAIN Puts : TableOK(t)
<1>1. \A t \in DOMAIN PutGeometry : TableOK(t)
  BY PutsTypes, HeaderTable, Vector3Table, PointTable, QuaternionTable, PoseTable, TwistTable,
     PoseStampedTable, TransformStampedTable, TFMessageTable, OdometryTable, PathTable
<1>2. \A t \in DOMAIN PutSensors : TableOK(t)
  BY PutsTypes, ImuTable, ImageTable, CompressedImageTable, CameraInfoTable, PointCloud2Table,
     PointFieldTable, JointStateTable, LaserScanTable
<1> QED BY <1>1, <1>2, PutsIs

-----------------------------------------------------------------------------
(* The body *)

Widths == {1, 4, 8}

LEMMA WidthIs ==
    /\ \A t \in DOMAIN Width : Width[t] \in Widths
    /\ Width["string"] = 1
BY DEF Width, Widths

LEMMA PaddedIs ==
    ASSUME NEW s \in Nat, NEW w \in Widths
    PROVE  Padded(s, w) \in Nat /\ Padded(s, w) >= s /\ Padded(s, w) % w = 0
<1>1. CASE w = 1
  BY <1>1 DEF Padded
<1>2. CASE w = 4
  BY <1>2 DEF Padded
<1>3. CASE w = 8
  BY <1>3 DEF Padded
<1> QED BY <1>1, <1>2, <1>3 DEF Widths

\* A primitive of width w and value v lies at o.
Cell(b, o, w, v) == o \in DOMAIN b /\ b[o] = [w |-> w, v |-> v]

\* The cells of a body of s bytes.
Laid(b, s) ==
    /\ s \in Nat
    /\ \A at \in DOMAIN b :
          /\ at \in Nat /\ b[at].w \in Widths /\ b[at].v.i \in Nat
          /\ at % b[at].w = 0 /\ at + b[at].w <= s
          /\ \A o \in (at + 1)..(at + b[at].w - 1) : o \notin DOMAIN b

\* What c has of b.
Keeps(b, c) == \A o \in DOMAIN b : o \in DOMAIN c /\ c[o] = b[o]

LEMMA Steps ==
    ASSUME NEW at \in Nat, NEW w \in Widths, at % w = 0, NEW i \in Nat
    PROVE  /\ at + i * w \in Nat /\ (at + i * w) % w = 0
           /\ ((at + i * w) - at) \div w = i
           /\ at + i * w >= at
           /\ (i + 1) * w = i * w + w
<1>1. CASE w = 1
  BY <1>1
<1>2. CASE w = 4
  BY <1>2
<1>3. CASE w = 8
  BY <1>3
<1> QED BY <1>1, <1>2, <1>3 DEF Widths

LEMMA Between ==
    ASSUME NEW at \in Nat, NEW w \in Widths, NEW i \in Nat, NEW j \in Nat,
           NEW o \in (at + i * w + 1)..(at + i * w + w - 1)
    PROVE  o # at + j * w
<1>1. CASE w = 1
  BY <1>1
<1>2. CASE w = 4
  BY <1>2
<1>3. CASE w = 8
  BY <1>3
<1> QED BY <1>1, <1>2, <1>3 DEF Widths

LEMMA NumbersFit ==
    ASSUME NEW n \in Nat, NEW w \in Widths, NEW i \in Nat, i < n
    PROVE  i * w + w <= n * w
<1>1. CASE w = 1
  BY <1>1
<1>2. CASE w = 4
  BY <1>2
<1>3. CASE w = 8
  BY <1>3
<1> QED BY <1>1, <1>2, <1>3 DEF Widths

LEMMA CellsAre ==
    ASSUME NEW at \in Nat, NEW w \in Widths, at % w = 0, NEW vals, IsSeq(vals)
    PROVE  /\ \A o : o \in DOMAIN Cells(at, w, vals) <=> \E i \in 1..Len(vals) : o = at + (i - 1) * w
           /\ \A i \in 1..Len(vals) : Cells(at, w, vals)[at + (i - 1) * w] = [w |-> w, v |-> vals[i]]
<1> DEFINE c == Cells(at, w, vals)
<1>1. DOMAIN vals = 1..Len(vals) /\ Len(vals) \in Nat
  BY SeqIs
<1>2. \A o : o \in DOMAIN c <=> \E i \in 1..Len(vals) : o = at + (i - 1) * w
  BY <1>1 DEF Cells
<1>3. ASSUME NEW i \in 1..Len(vals) PROVE c[at + (i - 1) * w] = [w |-> w, v |-> vals[i]]
  <2> DEFINE o == at + (i - 1) * w
  <2>1. o \in DOMAIN c
    BY <1>2
  <2>2. (o - at) \div w + 1 = i
    <3>1. i - 1 \in Nat
      BY <1>1
    <3>2. ((at + (i - 1) * w) - at) \div w = i - 1
      BY <3>1, Steps
    <3> HIDE DEF o
    <3>3. (o - at) \div w = i - 1
      BY <3>2 DEF o
    <3> QED BY <1>1, <3>3
  <2>3. o \in {at + (x - 1) * w : x \in DOMAIN vals}
    BY <1>1
  <2> HIDE DEF o
  <2>4. c[o] = [w |-> w, v |-> vals[(o - at) \div w + 1]]
    BY <2>3 DEF Cells
  <2>5. c[o] = [w |-> w, v |-> vals[i]]
    BY <2>2, <2>4
  <2> QED BY <2>5 DEF o
<1> QED BY <1>2, <1>3

LEMMA PutIs ==
    ASSUME NEW b, NEW s, Laid(b, s), NEW w \in Widths, NEW vals, IsSeq(vals),
           \A i \in 1..Len(vals) : vals[i].i \in Nat,
           NEW at, at = IF Len(vals) = 0 THEN s ELSE Padded(s, w)
    PROVE  /\ Laid(Put(b, s, w, vals).b, Put(b, s, w, vals).s)
           /\ Keeps(b, Put(b, s, w, vals).b)
           /\ Put(b, s, w, vals).s = at + Len(vals) * w /\ Put(b, s, w, vals).s >= s
           /\ \A i \in 1..Len(vals) : Cell(Put(b, s, w, vals).b, at + (i - 1) * w, w, vals[i])
<1>1. Len(vals) \in Nat /\ s \in Nat /\ (vals = <<>> <=> Len(vals) = 0) /\ w \in Nat
  BY SeqIs DEF Laid, Widths
<1>2. CASE Len(vals) = 0
  <2>1. Put(b, s, w, vals) = [b |-> b, s |-> s]
    BY <1>1, <1>2 DEF Put
  <2>2. Put(b, s, w, vals).b = b /\ Put(b, s, w, vals).s = s /\ at = s
    BY <1>2, <2>1
  <2>3. s + 0 * w = s
    BY <1>1
  <2> QED BY <1>1, <1>2, <2>2, <2>3 DEF Keeps
<1>3. CASE Len(vals) > 0
  <2> DEFINE n == Len(vals)  c == Cells(at, w, vals)  d == With(b, c)  e == at + n * w
  <2>1. at \in Nat /\ at >= s /\ at % w = 0 /\ at = Padded(s, w)
    BY <1>1, <1>3, PaddedIs
  <2>2. Put(b, s, w, vals).b = d /\ Put(b, s, w, vals).s = e
    BY <1>1, <1>3, <2>1 DEF Put
  <2>3. /\ \A o : o \in DOMAIN c <=> \E i \in 1..n : o = at + (i - 1) * w
        /\ \A i \in 1..n : c[at + (i - 1) * w] = [w |-> w, v |-> vals[i]]
    <3>1. at \in Nat /\ w \in Widths /\ at % w = 0 /\ IsSeq(vals)
      BY <2>1
    <3> HIDE DEF c, n
    <3>2. /\ \A o : o \in DOMAIN Cells(at, w, vals) <=> \E i \in 1..Len(vals) : o = at + (i - 1) * w
          /\ \A i \in 1..Len(vals) : Cells(at, w, vals)[at + (i - 1) * w] = [w |-> w, v |-> vals[i]]
      BY ONLY <3>1, CellsAre
    <3> QED BY <3>2 DEF c, n
  <2>4. \A o : o \in DOMAIN c => o \in Nat /\ o >= at
    <3> SUFFICES ASSUME NEW i \in 1..n PROVE at + (i - 1) * w \in Nat /\ at + (i - 1) * w >= at
      BY <2>3
    <3>1. i - 1 \in Nat
      BY <1>1
    <3> QED BY <2>1, <3>1, Steps
  <2>5. \A o \in DOMAIN b : /\ o \in Nat /\ b[o].w \in Nat /\ b[o].w > 0
                            /\ o + b[o].w <= s /\ o < s
    BY DEF Laid, Widths
  <2>6. \A o \in DOMAIN c : o \notin DOMAIN b
    BY <1>1, <2>1, <2>4, <2>5
  <2>7. /\ \A o : o \in DOMAIN d <=> o \in DOMAIN b \/ o \in DOMAIN c
        /\ \A o \in DOMAIN b : d[o] = b[o]
        /\ \A o \in DOMAIN c : d[o] = c[o]
    BY <2>6 DEF With
  <2>8. e \in Nat /\ e >= s /\ \A i \in 1..n : at + (i - 1) * w + w <= e
    <3>1. ASSUME NEW i \in 1..n PROVE at + (i - 1) * w + w <= e
      <4>1. i - 1 \in Nat /\ i - 1 < n
        BY <1>1
      <4> DEFINE x == (i - 1) * w  y == n * w
      <4>2. x + w <= y
        BY <1>1, <4>1, NumbersFit
      <4>3. x \in Int /\ y \in Int
        BY <1>1, <4>1
      <4> HIDE DEF x, y
      <4>4. at + x + w <= at + y
        BY <1>1, <2>1, <4>2, <4>3
      <4> QED BY <4>4 DEF x, y
    <3>2. e \in Nat /\ e >= at
      <4>1. at + n * w \in Nat /\ at + n * w >= at
        BY <1>1, <2>1, Steps
      <4> QED BY <4>1
    <3> HIDE DEF e
    <3> QED BY <1>1, <2>1, <3>1, <3>2
  <2> HIDE DEF c, d, e
  <2>9. ASSUME NEW o \in DOMAIN c
        PROVE  /\ o \in Nat /\ d[o].w \in Widths /\ d[o].v.i \in Nat
               /\ o % d[o].w = 0 /\ o + d[o].w <= e
               /\ \A x \in (o + 1)..(o + d[o].w - 1) : x \notin DOMAIN d
    <3>1. PICK i \in 1..n : o = at + (i - 1) * w
      BY <2>3
    <3>2. d[o].w = w /\ d[o].v = vals[i]
      <4>1. d[o] = c[o] /\ c[o] = [w |-> w, v |-> vals[i]]
        BY <2>3, <2>7, <3>1, Zenon
      <4> QED BY <4>1
    <3>3. o \in Nat /\ o % w = 0 /\ i - 1 \in Nat
      <4>1. i - 1 \in Nat
        BY <1>1
      <4> QED BY <2>1, <3>1, <4>1, Steps
    <3>4. ASSUME NEW x \in (o + 1)..(o + w - 1) PROVE x \notin DOMAIN d
      <4>1. x \notin DOMAIN b
        BY <1>1, <2>1, <2>4, <2>5, <3>3
      <4>2. ASSUME NEW j \in 1..n PROVE x # at + (j - 1) * w
        <5>1. j - 1 \in Nat
          BY <1>1
        <5>2. x \in (at + (i - 1) * w + 1)..(at + (i - 1) * w + w - 1)
          BY <3>1, <3>4
        <5> QED BY <2>1, <3>3, <5>1, <5>2, Between
      <4>3. x \notin DOMAIN c
        BY <2>3, <4>2
      <4> QED BY <2>7, <4>1, <4>3
    <3> QED BY <2>8, <3>1, <3>2, <3>3, <3>4
  <2>10. ASSUME NEW o \in DOMAIN b
         PROVE  /\ o \in Nat /\ d[o].w \in Widths /\ d[o].v.i \in Nat
                /\ o % d[o].w = 0 /\ o + d[o].w <= e
                /\ \A x \in (o + 1)..(o + d[o].w - 1) : x \notin DOMAIN d
    <3>1. /\ o \in Nat /\ b[o].w \in Widths /\ b[o].v.i \in Nat
          /\ o % b[o].w = 0 /\ o + b[o].w <= s
          /\ \A x \in (o + 1)..(o + b[o].w - 1) : x \notin DOMAIN b
      BY DEF Laid
    <3>2. d[o] = b[o]
      BY <2>7
    <3>3. ASSUME NEW x \in (o + 1)..(o + b[o].w - 1) PROVE x \notin DOMAIN c
      BY <1>1, <2>1, <2>4, <2>5
    <3>4. o + b[o].w <= e
      BY <1>1, <2>5, <2>8
    <3> QED BY <2>7, <3>1, <3>2, <3>3, <3>4
  <2>11. Laid(d, e)
    BY <2>7, <2>8, <2>9, <2>10 DEF Laid
  <2>12. Keeps(b, d)
    BY <2>7 DEF Keeps
  <2>13. \A i \in 1..n : Cell(d, at + (i - 1) * w, w, vals[i])
    BY <2>3, <2>7 DEF Cell
  <2> QED BY <2>2, <2>8, <2>11, <2>12, <2>13 DEF e
<1> QED BY <1>1, <1>2, <1>3

-----------------------------------------------------------------------------
(* The trail that to_cdr leaves, and that to_lcm and a viewer follow.      *)
(* A place on it is what is still to do there, its offset, and what is     *)
(* read up to there.                                                       *)

\* What was read under a path are the values of that path, in order.
Sound(read) == \A p \in DOMAIN read : read[p] = [i \in DOMAIN read[p] |-> Value(p, i)]

\* f begins at; its n primitives come behind its count.
Behind(f, at) == IF HasCount(f) THEN Padded(at, 4) + 4 ELSE at
From(f, at, n) == IF n = 0 THEN Behind(f, at) ELSE Padded(Behind(f, at), Width[f.t])

\* y comes after x where a run, a list or a call is next; b holds what was
\* written in between.
RunOf(b, x, y) ==
    LET f == Head(x.todo)
    IN /\ IsRun(f)
       /\ \E n \in Nat :
             /\ IF HasCount(f) THEN Cell(b, Padded(x.at, 4), 4, Number(n)) ELSE n = f.n
             /\ IsString(f) => n > 0
             /\ \A i \in 1..n :
                   Cell(b, From(f, x.at, n) + (i - 1) * Width[f.t], Width[f.t],
                        IF IsString(f) /\ i = n THEN Nul ELSE Value(f.p, i))
             /\ y.at = From(f, x.at, n) + n * Width[f.t]
             /\ y.got = Keep(x.got, f.p, [i \in 1..(IF IsString(f) THEN n - 1 ELSE n) |->
                                            Value(f.p, i)])
       /\ y.todo = Tail(x.todo)

ListOf(b, x, y) ==
    LET f == Head(x.todo)
    IN /\ IsList(f)
       /\ \E n \in LISTS : /\ Cell(b, Padded(x.at, 4), 4, Number(n))
                           /\ y.todo = Elements(f, n) \o Tail(x.todo)
       /\ y.at = Padded(x.at, 4) + 4 /\ y.got = x.got

CallOf(x, y) ==
    LET f == Head(x.todo)
    IN /\ IsCall(f)
       /\ y.todo = Below(f, Puts[f.t]) \o Tail(x.todo)
       /\ y.at = x.at /\ y.got = x.got

Follows(b, x, y) == x.todo # <<>> /\ (RunOf(b, x, y) \/ ListOf(b, x, y) \/ CallOf(x, y))

\* Where message a begins; and places that all lead on, but for the last.
Beginning(a) == [todo |-> <<One(<<>>, a)>>, at |-> 0, got |-> <<>>]

Trail(places, b, a, last) ==
    /\ Beginning(a) \in places /\ last \in places
    /\ \A x \in places :
          /\ Stack(x.todo) /\ x.at \in Nat /\ x.at <= last.at /\ Sound(x.got)
          /\ x = last \/ \E y \in places : Follows(b, x, y)

LEMMA FollowsKept ==
    ASSUME NEW b, NEW c, Keeps(b, c), NEW x, NEW y, Follows(b, x, y)
    PROVE  Follows(c, x, y)
<1>1. \A o, w, v : Cell(b, o, w, v) => Cell(c, o, w, v)
  BY DEF Keeps, Cell
<1>2. RunOf(b, x, y) => RunOf(c, x, y)
  <2> HAVE RunOf(b, x, y)
  <2> DEFINE f == Head(x.todo)
  <2>1. PICK n \in Nat :
             /\ IF HasCount(f) THEN Cell(b, Padded(x.at, 4), 4, Number(n)) ELSE n = f.n
             /\ IsString(f) => n > 0
             /\ \A i \in 1..n :
                   Cell(b, From(f, x.at, n) + (i - 1) * Width[f.t], Width[f.t],
                        IF IsString(f) /\ i = n THEN Nul ELSE Value(f.p, i))
             /\ y.at = From(f, x.at, n) + n * Width[f.t]
             /\ y.got = Keep(x.got, f.p, [i \in 1..(IF IsString(f) THEN n - 1 ELSE n) |->
                                            Value(f.p, i)])
    BY Zenon DEF RunOf
  <2>2. IF HasCount(f) THEN Cell(c, Padded(x.at, 4), 4, Number(n)) ELSE n = f.n
    BY <1>1, <2>1, Zenon
  <2>3. \A i \in 1..n :
                   Cell(c, From(f, x.at, n) + (i - 1) * Width[f.t], Width[f.t],
                        IF IsString(f) /\ i = n THEN Nul ELSE Value(f.p, i))
    BY <1>1, <2>1, Zenon
  <2>4. IsRun(f) /\ y.todo = Tail(x.todo)
    BY Zenon DEF RunOf
  <2> QED BY <2>1, <2>2, <2>3, <2>4, Zenon DEF RunOf
<1>3. ListOf(b, x, y) => ListOf(c, x, y)
  BY <1>1, Zenon DEF ListOf
<1> QED BY <1>2, <1>3, Zenon DEF Follows

LEMMA TrailOn ==
    ASSUME NEW places, NEW b, NEW a, NEW last, Trail(places, b, a, last), NEW c, Keeps(b, c),
           NEW y, Follows(c, last, y), Stack(y.todo), y.at \in Nat, y.at >= last.at, Sound(y.got)
    PROVE  Trail(places \cup {y}, c, a, y)
<1> DEFINE more == places \cup {y}
<1>1. Beginning(a) \in more /\ y \in more
  BY Zenon DEF Trail
<1>2. last.at \in Nat /\ last \in places
  BY Zenon DEF Trail
<1>3. ASSUME NEW x \in places
      PROVE  /\ Stack(x.todo) /\ x.at \in Nat /\ x.at <= last.at /\ Sound(x.got)
             /\ \E z \in more : Follows(c, x, z)
  <2>1. Stack(x.todo) /\ x.at \in Nat /\ x.at <= last.at /\ Sound(x.got)
    BY Zenon DEF Trail
  <2>2. x = last \/ \E z \in places : Follows(b, x, z)
    BY Zenon DEF Trail
  <2>3. CASE x = last
    BY <2>1, <2>3, Zenon
  <2>4. CASE \E z \in places : Follows(b, x, z)
    BY <2>1, <2>4, FollowsKept, Zenon
  <2> QED BY <2>1, <2>2, <2>3, <2>4
<1>4. ASSUME NEW x \in places
      PROVE  /\ Stack(x.todo) /\ x.at \in Nat /\ x.at <= y.at /\ Sound(x.got)
             /\ \E z \in more : Follows(c, x, z)
  <2>1. x.at <= y.at
    BY <1>2, <1>3
  <2> QED BY <1>3, <2>1
<1>5. y.at <= y.at
  OBVIOUS
<1> QED BY <1>1, <1>4, <1>5, Zenon DEF Trail

LEMMA StackJoin ==
    ASSUME NEW s, NEW t, Stack(s), Stack(t)
    PROVE  Stack(s \o t)
<1> DEFINE u == s \o t
<1>1. /\ IsSeq(s) /\ IsSeq(t) /\ Len(s) \in Nat /\ Len(t) \in Nat
  BY SeqIs DEF Stack
<1>2. /\ IsSeq(u) /\ Len(u) = Len(s) + Len(t)
      /\ \A i \in 1..Len(s) : u[i] = s[i]
      /\ \A i \in 1..Len(t) : u[Len(s) + i] = t[i]
  BY <1>1, JoinIs
<1> HIDE DEF u
<1>3. ASSUME NEW i \in 1..Len(u) PROVE FieldOK(u[i])
  <2>1. CASE i \in 1..Len(s)
    BY <1>2, <2>1 DEF Stack
  <2>2. CASE i - Len(s) \in 1..Len(t)
    <3> DEFINE j == i - Len(s)
    <3>1. j \in 1..Len(t) /\ i = Len(s) + j
      BY <1>1, <2>2
    <3> HIDE DEF j
    <3> QED BY <1>2, <3>1 DEF Stack
  <2> QED BY <1>1, <1>2, <2>1, <2>2
<1>4. Stack(u)
  BY <1>2, <1>3 DEF Stack
<1> QED BY <1>4 DEF u

LEMMA StackTail ==
    ASSUME NEW s, Stack(s), s # <<>>
    PROVE  Stack(Tail(s)) /\ FieldOK(Head(s))
<1> DEFINE u == Tail(s)
<1>1. /\ Len(s) \in Nat /\ Len(s) > 0 /\ Head(s) = s[1]
      /\ IsSeq(u) /\ Len(u) = Len(s) - 1 /\ \A i \in 1..(Len(s) - 1) : u[i] = s[i + 1]
  BY TailIs DEF Stack
<1> HIDE DEF u
<1>2. \A i \in 1..Len(u) : FieldOK(u[i])
  BY <1>1 DEF Stack
<1>3. Stack(u)
  BY <1>1, <1>2 DEF Stack
<1> QED BY <1>1, <1>3 DEF u, Stack

LEMMA StackBelow ==
    ASSUME NEW f, FieldOK(f), NEW s, Stack(s)
    PROVE  Stack(Below(f, s))
<1> DEFINE u == Below(f, s)
<1>1. IsSeq(u) /\ Len(u) = Len(s) /\ \A i \in 1..Len(s) : u[i] = Under(f, s[i])
  BY BelowIs DEF Stack
<1> HIDE DEF u
<1>2. ASSUME NEW x, FieldOK(x) PROVE FieldOK(Under(f, x))
  <2>1. IsSeq(f.p) /\ IsSeq(x.p)
    BY <1>2 DEF FieldOK
  <2>2. IsSeq(f.p \o x.p)
    BY <2>1, JoinIs
  <2>3. IsSeq(Under(f, x).p)
    BY <2>2, UnderIs, Zenon
  <2>4. Under(f, x).t = x.t /\ Under(f, x).rep = x.rep /\ Under(f, x).n = x.n
    BY UnderIs, Zenon
  <2> QED BY <1>2, <2>3, <2>4 DEF FieldOK
<1>3. Stack(u)
  BY <1>1, <1>2 DEF Stack
<1> QED BY <1>3 DEF u

LEMMA StackElements ==
    ASSUME NEW f, FieldOK(f), NEW n \in Nat
    PROVE  Stack(Elements(f, n))
<1> DEFINE u == Elements(f, n)
<1>1. IsSeq(u) /\ Len(u) = n /\ \A i \in 1..n : u[i] = One(Append(f.p, ToString(i)), f.t)
  BY ElementsAre
<1> HIDE DEF u
<1>2. ASSUME NEW c PROVE FieldOK(One(Append(f.p, c), f.t))
  <2>1. IsSeq(Append(f.p, c))
    BY AppendIs DEF FieldOK
  <2> QED BY <2>1 DEF FieldOK, One
<1>3. Stack(u)
  BY <1>1, <1>2 DEF Stack
<1> QED BY <1>3 DEF u

LEMMA SoundKeep ==
    ASSUME NEW read, Sound(read), NEW p, NEW n
    PROVE  Sound(Keep(read, p, [i \in 1..n |-> Value(p, i)]))
BY DEF Sound, Keep, With

LEMMA BeginningOK == \A a \in Supported : Stack(Beginning(a).todo)
<1> SUFFICES ASSUME NEW a \in Supported PROVE Stack(<<One(<<>>, a)>>)
  BY DEF Beginning
<1> DEFINE s == <<One(<<>>, a)>>
<1>1. IsSeq(<<>>)
  BY DEF IsSeq
<1>2. IsSeq(s) /\ Len(s) = 1 /\ s[1] = One(<<>>, a)
  BY OneLong
<1>3. a \in DOMAIN Puts
  BY PutsSupported
<1>4. FieldOK(One(<<>>, a))
  BY <1>1, <1>3 DEF FieldOK, One
<1> HIDE DEF s
<1>5. Stack(s)
  BY <1>2, <1>4 DEF Stack
<1> QED BY <1>5 DEF s

-----------------------------------------------------------------------------
(* Writing *)

\* What is used of the message's lengths.
MessageOK ==
    /\ shape.str \in Nat /\ shape.other \in Nat /\ shape.len \in Nat /\ shape.list \in LISTS
    /\ shape.image.len \in Nat

LEMMA LengthIs ==
    ASSUME MessageOK, NEW f, FieldOK(f)
    PROVE  /\ Length(f) \in Nat /\ (IsString(f) => Length(f) > 0)
           /\ IsList(f) => Count(f) \in LISTS
<1>1. Chars(f.p) \in Nat
  BY DEF MessageOK, Chars
<1>2. Count(f) \in Nat
  BY CdrAssumption DEF MessageOK, Count
<1>3. IsList(f) => Count(f) \in LISTS
  BY DEF MessageOK, Count, IsList, IsRun
<1> QED BY <1>1, <1>2, <1>3 DEF Length, FieldOK

LEMMA ValuesAre ==
    ASSUME NEW f, Length(f) \in Nat
    PROVE  /\ IsSeq(Values(f)) /\ Len(Values(f)) = Length(f)
           /\ \A i \in 1..Length(f) :
                /\ Values(f)[i] = IF IsString(f) /\ i = Length(f) THEN Nul ELSE Value(f.p, i)
                /\ Values(f)[i].i \in Nat
<1> DEFINE v == Values(f)  n == Length(f)
<1>1. /\ DOMAIN v = 1..n /\ v = [i \in DOMAIN v |-> v[i]]
      /\ \A i \in 1..n : v[i] = IF IsString(f) /\ i = n THEN Nul ELSE Value(f.p, i)
  BY DEF Values
<1> HIDE DEF v, n
<1>2. n \in Nat
  BY DEF n
<1>3. IsSeq(v) /\ Len(v) = n
  BY <1>1, <1>2, FunctionIsSeq
<1>4. \A i \in 1..n : v[i].i \in Nat
  BY <1>1, <1>2 DEF Nul, Number, Value
<1> QED BY <1>1, <1>3, <1>4 DEF v, n

LEMMA PutCountIs ==
    ASSUME Laid(body, size), NEW n \in Nat
    PROVE  /\ Laid(PutCount(n).b, PutCount(n).s) /\ Keeps(body, PutCount(n).b)
           /\ PutCount(n).s = Padded(size, 4) + 4 /\ PutCount(n).s >= size
           /\ Cell(PutCount(n).b, Padded(size, 4), 4, Number(n))
<1> DEFINE vals == <<Number(n)>>  put == Put(body, size, 4, vals)  P == Padded(size, 4)
<1>1. IsSeq(vals) /\ Len(vals) = 1 /\ vals[1] = Number(n) /\ Number(n).i \in Nat
  BY OneLong DEF Number, Value
<1>2. 4 \in Widths /\ size \in Nat /\ P \in Nat
  BY PaddedIs DEF Widths, Laid
<1>3. PutCount(n) = put
  BY DEF PutCount
<1> HIDE DEF vals
<1>4. P = IF Len(vals) = 0 THEN size ELSE Padded(size, 4)
  BY <1>1
<1>5. \A i \in 1..Len(vals) : vals[i].i \in Nat
  BY <1>1
<1> HIDE DEF P
<1>6. /\ Laid(put.b, put.s) /\ Keeps(body, put.b)
      /\ put.s = P + Len(vals) * 4 /\ put.s >= size
      /\ \A i \in 1..Len(vals) : Cell(put.b, P + (i - 1) * 4, 4, vals[i])
  <2> DEFINE w == 4
  <2>1. w \in Widths /\ P = (IF Len(vals) = 0 THEN size ELSE Padded(size, w)) /\ IsSeq(vals)
    BY <1>1, <1>2, <1>4
  <2> HIDE DEF w, put
  <2>2. /\ Laid(Put(body, size, w, vals).b, Put(body, size, w, vals).s)
        /\ Keeps(body, Put(body, size, w, vals).b)
        /\ Put(body, size, w, vals).s = P + Len(vals) * w
        /\ Put(body, size, w, vals).s >= size
        /\ \A i \in 1..Len(vals) : Cell(Put(body, size, w, vals).b, P + (i - 1) * w, w, vals[i])
    BY <1>5, <2>1, PutIs
  <2> QED BY <2>2 DEF w, put
<1> HIDE DEF put
<1>7. put.s = P + 4
  BY <1>1, <1>2, <1>6
<1>8. Cell(put.b, P, 4, Number(n))
  <2>1. Cell(put.b, P + (1 - 1) * 4, 4, vals[1])
    BY <1>1, <1>6
  <2>2. P + (1 - 1) * 4 = P
    BY <1>2
  <2> QED BY <1>1, <2>1, <2>2
<1> QED BY <1>3, <1>6, <1>7, <1>8 DEF P

LEMMA KeepsOn == \A b, c, d : Keeps(b, c) /\ Keeps(c, d) => Keeps(b, d)
BY DEF Keeps

\* The writer is at the end of its own trail.
Writing(places, last) ==
    Trail(places, body, as, last) /\ last.todo = todo /\ last.at = size

LEMMA WriteRun ==
    ASSUME MessageOK, Laid(body, size), NEW places, NEW last, Writing(places, last), PutRun
    PROVE  /\ Laid(body', size')
           /\ \E ps, l : Trail(ps, body', as, l) /\ l.todo = todo' /\ l.at = size'
<1> DEFINE f == Head(todo)  n == Length(f)  w == Width[f.t]  vals == Values(f)
           start == IF HasCount(f) THEN PutCount(n) ELSE [b |-> body, s |-> size]
           end == Put(start.b, start.s, w, vals)
           at == From(f, size, n)
<1>1. Trail(places, body, as, last) /\ last.todo = todo /\ last.at = size
  BY DEF Writing
<1>2. todo # <<>> /\ IsRun(f) /\ todo' = Tail(todo) /\ body' = end.b /\ size' = end.s
  BY DEF PutRun
<1>3. Stack(todo) /\ Sound(last.got) /\ size \in Nat
  BY <1>1 DEF Trail
<1>4. Stack(Tail(todo)) /\ FieldOK(f)
  BY <1>2, <1>3, StackTail
<1>5. n \in Nat /\ (IsString(f) => n > 0)
  BY <1>4, LengthIs
<1>6. w \in Widths
  BY <1>2, WidthIs DEF IsRun
<1>7. /\ Laid(start.b, start.s) /\ Keeps(body, start.b) /\ start.s >= size
      /\ start.s = Behind(f, size) /\ start.s \in Nat
      /\ HasCount(f) => Cell(start.b, Padded(size, 4), 4, Number(n))
  <2>1. CASE HasCount(f)
    <3>1. start = PutCount(n)
      BY <2>1
    <3>2. /\ Laid(PutCount(n).b, PutCount(n).s) /\ Keeps(body, PutCount(n).b)
          /\ PutCount(n).s = Padded(size, 4) + 4 /\ PutCount(n).s >= size
          /\ Cell(PutCount(n).b, Padded(size, 4), 4, Number(n))
      BY <1>5, PutCountIs
    <3>3. Behind(f, size) = Padded(size, 4) + 4
      BY <2>1 DEF Behind
    <3> HIDE DEF start, n, f
    <3> QED BY <3>1, <3>2, <3>3 DEF Laid
  <2>2. CASE ~HasCount(f)
    <3>1. start.b = body /\ start.s = size
      BY <2>2
    <3> HIDE DEF start
    <3> QED BY <1>3, <2>2, <3>1 DEF Behind, Keeps
  <2> QED BY <2>1, <2>2
<1>8. /\ IsSeq(vals) /\ Len(vals) = n /\ \A i \in 1..n : vals[i].i \in Nat
      /\ \A i \in 1..n : vals[i] = IF IsString(f) /\ i = n THEN Nul ELSE Value(f.p, i)
  BY <1>5, ValuesAre
<1> DEFINE B == start.b  S == start.s
<1>9. /\ Laid(end.b, end.s) /\ Keeps(start.b, end.b)
      /\ end.s = at + n * w /\ end.s >= start.s
      /\ \A i \in 1..n : Cell(end.b, at + (i - 1) * w, w, vals[i])
  <2>1. at = IF Len(vals) = 0 THEN S ELSE Padded(S, w)
    <3> HIDE DEF start, n, f, vals
    <3> QED BY <1>7, <1>8 DEF From, n, w, f
  <2>2. Laid(B, S) /\ \A i \in 1..Len(vals) : vals[i].i \in Nat
    BY <1>7, <1>8
  <2> HIDE DEF B, S, vals, at, w, n
  <2>3. /\ Laid(Put(B, S, w, vals).b, Put(B, S, w, vals).s)
        /\ Keeps(B, Put(B, S, w, vals).b)
        /\ Put(B, S, w, vals).s = at + Len(vals) * w /\ Put(B, S, w, vals).s >= S
        /\ \A i \in 1..Len(vals) : Cell(Put(B, S, w, vals).b, at + (i - 1) * w, w, vals[i])
    BY <1>6, <1>8, <2>1, <2>2, PutIs
  <2> QED BY <1>8, <2>3 DEF B, S
<1> DEFINE got == Keep(last.got, f.p, [i \in 1..(IF IsString(f) THEN n - 1 ELSE n) |-> Value(f.p, i)])
           y == [todo |-> Tail(todo), at |-> end.s, got |-> got]
<1>10. ~HasCount(f) => n = f.n
  BY <1>2 DEF HasCount, Length, IsRun
<1>11. y.todo = Tail(todo) /\ y.at = end.s /\ y.got = got
  OBVIOUS
<1>12. Sound(got)
  <2> DEFINE m == IF IsString(f) THEN n - 1 ELSE n
  <2> HIDE DEF m
  <2>1. Sound(Keep(last.got, f.p, [i \in 1..m |-> Value(f.p, i)]))
    BY <1>3, SoundKeep
  <2> QED BY <2>1 DEF m
<1> HIDE DEF y, got, f, n, w, at, end, start, vals
<1>13. IF HasCount(f) THEN Cell(end.b, Padded(size, 4), 4, Number(n)) ELSE n = f.n
  BY <1>7, <1>9, <1>10 DEF Cell, Keeps
<1>14. \A i \in 1..n : Cell(end.b, at + (i - 1) * w, w, IF IsString(f) /\ i = n THEN Nul ELSE Value(f.p, i))
  BY <1>8, <1>9
<1>15. RunOf(end.b, last, y)
  <2>1. Head(last.todo) = f /\ last.at = size /\ y.todo = Tail(last.todo)
    BY <1>1, <1>11 DEF f
  <2>2. y.at = From(f, size, n) + n * Width[f.t]
    BY <1>9, <1>11 DEF at, w
  <2>3. y.got = Keep(last.got, f.p, [i \in 1..(IF IsString(f) THEN n - 1 ELSE n) |-> Value(f.p, i)])
    BY <1>11 DEF got
  <2>4. \A i \in 1..n : Cell(end.b, From(f, size, n) + (i - 1) * Width[f.t], Width[f.t],
                             IF IsString(f) /\ i = n THEN Nul ELSE Value(f.p, i))
    BY <1>14 DEF at, w
  <2> QED BY <1>2, <1>5, <1>13, <2>1, <2>2, <2>3, <2>4, Zenon DEF RunOf
<1>16. Follows(end.b, last, y)
  BY <1>1, <1>2, <1>15 DEF Follows
<1>17. Keeps(body, end.b)
  BY <1>7, <1>9, KeepsOn
<1>18. Stack(y.todo) /\ y.at \in Nat /\ y.at >= last.at /\ Sound(y.got)
  BY <1>1, <1>3, <1>4, <1>7, <1>9, <1>11, <1>12 DEF Laid
<1>19. Trail(places \cup {y}, end.b, as, y)
  BY <1>1, <1>16, <1>17, <1>18, TrailOn
<1> QED BY <1>2, <1>9, <1>11, <1>19

LEMMA WriteList ==
    ASSUME MessageOK, Laid(body, size), NEW places, NEW last, Writing(places, last), PutList
    PROVE  /\ Laid(body', size')
           /\ \E ps, l : Trail(ps, body', as, l) /\ l.todo = todo' /\ l.at = size'
<1> DEFINE f == Head(todo)  n == Count(f)  put == PutCount(n)
           y == [todo |-> Elements(f, n) \o Tail(todo), at |-> put.s, got |-> last.got]
<1>1. Trail(places, body, as, last) /\ last.todo = todo /\ last.at = size
  BY DEF Writing
<1>2. /\ todo # <<>> /\ IsList(f) /\ todo' = Elements(f, n) \o Tail(todo)
      /\ body' = put.b /\ size' = put.s
  BY DEF PutList
<1>3. Stack(todo) /\ Sound(last.got) /\ size \in Nat
  BY <1>1 DEF Trail
<1>4. Stack(Tail(todo)) /\ FieldOK(f)
  BY <1>2, <1>3, StackTail
<1>5. n \in LISTS /\ n \in Nat
  BY <1>2, <1>4, LengthIs, CdrAssumption
<1>6. /\ Laid(put.b, put.s) /\ Keeps(body, put.b) /\ put.s >= size
      /\ put.s = Padded(size, 4) + 4 /\ Cell(put.b, Padded(size, 4), 4, Number(n))
  BY <1>5, PutCountIs
<1>7. y.todo = Elements(f, n) \o Tail(todo) /\ y.at = put.s /\ y.got = last.got
  OBVIOUS
<1> HIDE DEF y, f, n, put
<1>8. Stack(y.todo)
  BY <1>4, <1>5, <1>7, StackElements, StackJoin
<1>9. ListOf(put.b, last, y)
  <2>1. Head(last.todo) = f /\ Tail(last.todo) = Tail(todo)
    BY <1>1 DEF f
  <2> QED BY <1>1, <1>2, <1>5, <1>6, <1>7, <2>1, Zenon DEF ListOf
<1>10. Follows(put.b, last, y)
  BY <1>1, <1>2, <1>9 DEF Follows
<1>11. y.at \in Nat /\ y.at >= last.at /\ Sound(y.got)
  BY <1>1, <1>3, <1>6, <1>7 DEF Laid
<1>12. Trail(places \cup {y}, put.b, as, y)
  BY <1>1, <1>6, <1>8, <1>10, <1>11, TrailOn
<1> QED BY <1>2, <1>6, <1>7, <1>12

LEMMA CallIs ==
    ASSUME NEW f, FieldOK(f), IsCall(f)
    PROVE  f.t \in DOMAIN Puts /\ Stack(Puts[f.t]) /\ Stack(Below(f, Puts[f.t]))
<1>1. f.t \in DOMAIN Puts
  BY DEF FieldOK, IsCall, IsRun
<1>2. Stack(Puts[f.t])
  BY <1>1, Tables DEF TableOK
<1> QED BY <1>1, <1>2, StackBelow

LEMMA WriteCall ==
    ASSUME Laid(body, size), NEW places, NEW last, Writing(places, last), PutCall
    PROVE  /\ Laid(body', size')
           /\ \E ps, l : Trail(ps, body', as, l) /\ l.todo = todo' /\ l.at = size'
<1> DEFINE f == Head(todo)
           y == [todo |-> Below(f, Puts[f.t]) \o Tail(todo), at |-> size, got |-> last.got]
<1>1. Trail(places, body, as, last) /\ last.todo = todo /\ last.at = size
  BY DEF Writing
<1>2. /\ todo # <<>> /\ IsCall(f) /\ todo' = Below(f, Puts[f.t]) \o Tail(todo)
      /\ body' = body /\ size' = size
  BY DEF PutCall
<1>3. Stack(todo) /\ Sound(last.got) /\ size \in Nat
  BY <1>1 DEF Trail
<1>4. Stack(Tail(todo)) /\ FieldOK(f)
  BY <1>2, <1>3, StackTail
<1>5. Stack(Below(f, Puts[f.t]))
  BY <1>2, <1>4, CallIs
<1>6. y.todo = Below(f, Puts[f.t]) \o Tail(todo) /\ y.at = size /\ y.got = last.got
  OBVIOUS
<1> HIDE DEF y, f
<1>7. Stack(y.todo)
  BY <1>4, <1>5, <1>6, StackJoin
<1>8. CallOf(last, y)
  <2>1. Head(last.todo) = f /\ Tail(last.todo) = Tail(todo)
    BY <1>1 DEF f
  <2> QED BY <1>1, <1>2, <1>6, <2>1, Zenon DEF CallOf
<1>9. Follows(body, last, y) /\ Keeps(body, body)
  BY <1>1, <1>2, <1>8 DEF Follows, Keeps
<1>10. y.at \in Nat /\ y.at >= last.at /\ Sound(y.got)
  BY <1>1, <1>3, <1>6
<1>11. Trail(places \cup {y}, body, as, y)
  BY <1>1, <1>7, <1>9, <1>10, TrailOn
<1> QED BY <1>2, <1>6, <1>11

-----------------------------------------------------------------------------
(* Reading *)

\* f asks for what was put as r.
LikeRun(f, r) ==
    /\ {f.t, r.t} \subseteq DOMAIN Width /\ Width[f.t] = Width[r.t]
    /\ (f.t = "string" <=> r.t = "string") /\ f.rep = r.rep /\ f.n = r.n

LEMMA RunRead ==
    ASSUME NEW f, NEW x, NEW y, LikeRun(f, Head(x.todo)), RunOf(body, x, y),
           x.at \in Nat, pos = x.at
    PROVE  /\ HasCount(f) => Counted(Start(f) - 4)
           /\ End(f) = y.at /\ Start(f) <= y.at /\ Start(f) \in Nat /\ y.at \in Nat
           /\ y.got = Keep(x.got, Head(x.todo).p, Got(f))
           /\ y.todo = Tail(x.todo)
<1> DEFINE r == Head(x.todo)  w == Width[r.t]
<1>1. PICK n \in Nat :
             /\ IF HasCount(r) THEN Cell(body, Padded(x.at, 4), 4, Number(n)) ELSE n = r.n
             /\ IsString(r) => n > 0
             /\ \A i \in 1..n :
                   Cell(body, From(r, x.at, n) + (i - 1) * w, w,
                        IF IsString(r) /\ i = n THEN Nul ELSE Value(r.p, i))
             /\ y.at = From(r, x.at, n) + n * w
             /\ y.got = Keep(x.got, r.p, [i \in 1..(IF IsString(r) THEN n - 1 ELSE n) |->
                                            Value(r.p, i)])
  BY Zenon DEF RunOf
<1>2. /\ HasCount(f) <=> HasCount(r)
      /\ IsString(f) <=> IsString(r)
      /\ f.n = r.n /\ Width[f.t] = w /\ w \in Widths
      /\ IsString(r) => w = 1
  BY WidthIs DEF LikeRun, HasCount, IsString
<1> HIDE DEF r, w
<1> DEFINE P == Padded(pos, 4)
<1>3. P \in Nat /\ P >= pos /\ 4 \in Widths /\ pos \in Nat
  BY PaddedIs DEF Widths
<1>4. \A o, u, v : Cell(body, o, u, v) => CellAt(o, u) = v
  BY DEF Cell, CellAt
<1> HIDE DEF P
<1>5. /\ Start(f) = Behind(r, pos) /\ Start(f) \in Nat /\ Announced(f) = n
      /\ HasCount(f) => Counted(Start(f) - 4)
  <2>1. CASE HasCount(f)
    <3>1. Start(f) = P + 4 /\ Behind(r, pos) = P + 4
      BY <1>2, <2>1 DEF Start, Behind, P
    <3>2. CellAt(P, 4) = Number(n)
      BY <1>1, <1>2, <1>4, <2>1 DEF P
    <3>3. (P + 4) - 4 = P
      BY <1>3
    <3>4. CellAt(Start(f) - 4, 4) = Number(n)
      BY <3>1, <3>2, <3>3
    <3> QED BY <1>3, <2>1, <3>1, <3>4 DEF Announced, Counted, Number, Value
  <2>2. CASE ~HasCount(f)
    BY <1>1, <1>2, <1>3, <2>2 DEF Start, Behind, Announced
  <2> QED BY <2>1, <2>2
<1>6. First(f) = From(r, pos, n) /\ First(f) \in Nat /\ First(f) >= Start(f)
  <2>1. Padded(Start(f), w) \in Nat /\ Padded(Start(f), w) >= Start(f)
    BY <1>2, <1>5, PaddedIs
  <2>2. First(f) = From(r, pos, n)
    BY <1>2, <1>5 DEF First, From, w
  <2>3. First(f) = IF n = 0 THEN Start(f) ELSE Padded(Start(f), w)
    BY <1>2, <1>5 DEF First
  <2> QED BY <1>5, <2>1, <2>2, <2>3
<1>7. n * w \in Nat
  BY <1>2 DEF Widths
<1>8. End(f) = y.at /\ End(f) = First(f) + n * w
  BY <1>1, <1>2, <1>5, <1>6 DEF End
<1> DEFINE F == First(f)
<1>9. \A i \in 1..n : CellAt(F + (i - 1) * w, w) = IF IsString(r) /\ i = n THEN Nul ELSE Value(r.p, i)
  <2>1. F = From(r, x.at, n)
    BY <1>6
  <2> HIDE DEF F
  <2> QED BY <1>1, <1>4, <2>1
<1>10. Ends(f) <=> IsString(r)
  <2>1. ASSUME IsString(r) PROVE n > 0 /\ CellAt(End(f) - 1, 1) = Nul
    <3>1. n \in 1..n /\ w = 1 /\ n > 0
      BY <1>1, <1>2, <2>1
    <3>2. CellAt(F + (n - 1) * w, w) = Nul
      BY <1>9, <2>1, <3>1
    <3>3. F + (n - 1) * w = End(f) - 1
      BY <1>6, <1>8, <3>1
    <3> QED BY <3>1, <3>2, <3>3
  <2> QED BY <1>2, <1>5, <2>1 DEF Ends
<1> DEFINE m == IF IsString(r) THEN n - 1 ELSE n
<1>11. Got(f) = [i \in 1..m |-> Value(r.p, i)]
  <2>1. Got(f) = [i \in 1..m |-> CellAt(F + (i - 1) * w, w)]
    BY <1>2, <1>5, <1>10 DEF Got
  <2>2. ASSUME NEW i \in 1..m PROVE CellAt(F + (i - 1) * w, w) = Value(r.p, i)
    <3>1. i \in 1..n /\ (IsString(r) => i # n)
      BY <2>2
    <3> QED BY <1>9, <3>1
  <2> HIDE DEF F, m
  <2> QED BY <2>1, <2>2
<1>12. y.todo = Tail(x.todo)
  BY Zenon DEF RunOf
<1>13. y.got = Keep(x.got, r.p, Got(f))
  BY <1>1, <1>11
<1>14. Start(f) <= y.at /\ y.at \in Nat
  <2> DEFINE z == n * w  a == Start(f)  b == First(f)
  <2>1. z \in Nat /\ a \in Nat /\ b \in Nat /\ b >= a /\ y.at = b + z
    BY <1>5, <1>6, <1>7, <1>8
  <2> HIDE DEF z, a, b
  <2>2. a <= y.at /\ y.at \in Nat
    BY <2>1
  <2> QED BY <2>2 DEF a
<1> QED BY <1>5, <1>8, <1>12, <1>13, <1>14 DEF r

LEMMA ListRead ==
    ASSUME NEW f, IsList(f), NEW x, NEW y, ListOf(body, x, y),
           x.at \in Nat, pos = x.at
    PROVE  /\ Counted(Start(f) - 4) /\ Start(f) = y.at /\ y.at \in Nat /\ Announced(f) \in LISTS
           /\ y.todo = Elements(Head(x.todo), Announced(f)) \o Tail(x.todo)
           /\ y.got = x.got
<1> DEFINE P == Padded(pos, 4)
<1>1. PICK n \in LISTS : /\ Cell(body, Padded(x.at, 4), 4, Number(n))
                         /\ y.todo = Elements(Head(x.todo), n) \o Tail(x.todo)
  BY Zenon DEF ListOf
<1>2. y.at = P + 4 /\ y.got = x.got
  BY Zenon DEF ListOf
<1>3. P \in Nat /\ 4 \in Widths
  BY PaddedIs DEF Widths
<1>4. CellAt(P, 4) = Number(n)
  BY <1>1 DEF Cell, CellAt
<1> HIDE DEF P
<1>5. Start(f) = P + 4 /\ (P + 4) - 4 = P
  BY <1>3 DEF Start, HasCount, IsList, P
<1>6. CellAt(Start(f) - 4, 4) = Number(n)
  BY <1>4, <1>5
<1>7. Announced(f) = n /\ Counted(Start(f) - 4)
  BY <1>6 DEF Announced, Counted, HasCount, IsList, Number, Value
<1> QED BY <1>1, <1>2, <1>3, <1>5, <1>7

LEMMA Kinds ==
    ASSUME NEW b, NEW x, NEW y, Follows(b, x, y)
    PROVE  /\ IsRun(Head(x.todo)) => RunOf(b, x, y)
           /\ IsList(Head(x.todo)) => ListOf(b, x, y)
           /\ IsCall(Head(x.todo)) => CallOf(x, y)
<1>1. RunOf(b, x, y) => IsRun(Head(x.todo))
  BY Zenon DEF RunOf
<1>2. ListOf(b, x, y) => IsList(Head(x.todo))
  BY Zenon DEF ListOf
<1>3. CallOf(x, y) => IsCall(Head(x.todo))
  BY Zenon DEF CallOf
<1>4. RunOf(b, x, y) \/ ListOf(b, x, y) \/ CallOf(x, y)
  BY Zenon DEF Follows
<1> QED BY <1>1, <1>2, <1>3, <1>4 DEF IsList, IsCall

\* A reader at place x of a trail that ends with the body.
Along(places, last, x) ==
    /\ Trail(places, body, as, last) /\ last.todo = <<>> /\ last.at = size
    /\ x \in places /\ pos = x.at /\ pos <= size - cut
    /\ size \in Nat /\ cut \in Nat

AtRead(places, last, x) ==
    Along(places, last, x) /\ phase = "read" /\ todo = x.todo /\ out = x.got /\ seen = <<>>

\* Nothing to do that the text does not spell out.
TextOnly(s) == \A i \in 1..Len(s) : s[i].t \in DOMAIN Width \/ s[i].t \in Text(as)

AtView(places, last, x) ==
    /\ Along(places, last, x) /\ phase = "view" /\ cut = 0
    /\ Alike(todo, x.todo) /\ TextOnly(todo) /\ out = last.got /\ seen = x.got

LEMMA NextPlace ==
    ASSUME NEW places, NEW last, NEW x, Along(places, last, x)
    PROVE  /\ Stack(x.todo) /\ x.at \in Nat /\ Sound(x.got)
           /\ x.todo = <<>> => x = last
           /\ x.todo # <<>> => \E y \in places : Follows(body, x, y) /\ y.at <= size /\ Sound(y.got)
<1>1. /\ x \in places /\ last.at = size /\ last.todo = <<>>
      /\ \A z \in places :
            /\ Stack(z.todo) /\ z.at \in Nat /\ z.at <= last.at /\ Sound(z.got)
            /\ z = last \/ \E y \in places : Follows(body, z, y)
  BY Zenon DEF Along, Trail
<1>2. \A y : Follows(body, x, y) => x.todo # <<>>
  BY Zenon DEF Follows
<1> QED BY <1>1, <1>2

\* What a step along the trail leaves as it was.
LEMMA AlongOn ==
    ASSUME NEW places, NEW last, NEW x, Along(places, last, x), NEW y \in places, pos' = y.at,
           pos' <= size - cut, UNCHANGED <<shape, as, body, size, cut>>
    PROVE  Along(places, last, y)'
BY DEF Along

LEMMA ReadRun ==
    ASSUME NEW places, NEW last, NEW x, AtRead(places, last, x), GetRun
    PROVE  \/ \E y : AtRead(places, last, y)'
           \/ phase' = "failed" /\ cut > 0 /\ UNCHANGED <<pos, out, seen>>
<1> DEFINE f == Head(todo)
<1>1. Along(places, last, x) /\ phase = "read" /\ todo = x.todo /\ out = x.got /\ seen = <<>>
  BY DEF AtRead
<1>2. todo # <<>> /\ IsRun(f)
  BY DEF GetRun
<1>3. PICK y \in places : Follows(body, x, y) /\ y.at <= size
  BY <1>1, <1>2, NextPlace
<1>4. RunOf(body, x, y) /\ LikeRun(f, Head(x.todo))
  BY <1>1, <1>2, <1>3, Kinds DEF LikeRun, IsRun
<1>5. x.at \in Nat /\ pos = x.at /\ size \in Nat /\ cut \in Nat
  BY <1>1, NextPlace DEF Along
<1>6. /\ HasCount(f) => Counted(Start(f) - 4)
      /\ End(f) = y.at /\ Start(f) <= y.at /\ Start(f) \in Nat /\ y.at \in Nat
      /\ y.got = Keep(x.got, Head(x.todo).p, Got(f))
      /\ y.todo = Tail(x.todo)
  BY <1>4, <1>5, RunRead
<1>7. UNCHANGED <<asked, shape, as, body, size, cut>>
  BY DEF GetRun
<1>8. CASE Fits(End(f))
  <2>1. Fits(Start(f))
    BY <1>5, <1>6, <1>8 DEF Fits
  <2>2. /\ pos' = End(f) /\ todo' = Tail(todo) /\ out' = Keep(out, f.p, Got(f))
        /\ seen' = seen /\ phase' = phase
    BY <1>1, <1>6, <1>8, <2>1 DEF GetRun
  <2>3. pos' <= size - cut
    BY <1>8, <2>2 DEF Fits
  <2>4. Along(places, last, y)'
    BY <1>1, <1>6, <1>7, <2>2, <2>3, AlongOn
  <2>5. AtRead(places, last, y)'
    BY <1>1, <1>6, <2>2, <2>4 DEF AtRead
  <2> QED BY <2>5
<1>9. CASE ~Fits(End(f))
  <2>1. phase' = "failed" /\ UNCHANGED <<pos, out, seen>>
    BY <1>9 DEF GetRun
  <2>2. cut > 0
    BY <1>3, <1>5, <1>6, <1>9 DEF Fits
  <2> QED BY <2>1, <2>2
<1> QED BY <1>8, <1>9

LEMMA ReadList ==
    ASSUME NEW places, NEW last, NEW x, AtRead(places, last, x), GetList
    PROVE  \/ \E y : AtRead(places, last, y)'
           \/ phase' = "failed" /\ cut > 0 /\ UNCHANGED <<pos, out, seen>>
<1> DEFINE f == Head(todo)
<1>1. Along(places, last, x) /\ phase = "read" /\ todo = x.todo /\ out = x.got /\ seen = <<>>
  BY DEF AtRead
<1>2. todo # <<>> /\ IsList(f)
  BY DEF GetList
<1>3. PICK y \in places : Follows(body, x, y) /\ y.at <= size
  BY <1>1, <1>2, NextPlace
<1>4. ListOf(body, x, y)
  BY <1>1, <1>2, <1>3, Kinds
<1>5. x.at \in Nat /\ pos = x.at /\ size \in Nat /\ cut \in Nat
  BY <1>1, NextPlace DEF Along
<1>6. /\ Counted(Start(f) - 4) /\ Start(f) = y.at /\ y.at \in Nat
      /\ y.todo = Elements(Head(x.todo), Announced(f)) \o Tail(x.todo)
      /\ y.got = x.got
  BY <1>2, <1>4, <1>5, ListRead
<1>7. UNCHANGED <<asked, shape, as, body, size, cut, out, seen>>
  BY DEF GetList
<1>8. CASE Fits(Start(f))
  <2>2. pos' = Start(f) /\ todo' = Elements(f, Announced(f)) \o Tail(todo) /\ phase' = phase
    BY <1>6, <1>8 DEF GetList
  <2>3. pos' <= size - cut
    BY <1>8, <2>2 DEF Fits
  <2>4. Along(places, last, y)'
    BY <1>1, <1>6, <1>7, <2>2, <2>3, AlongOn
  <2>5. AtRead(places, last, y)'
    BY <1>1, <1>6, <1>7, <2>2, <2>4 DEF AtRead
  <2> QED BY <2>5
<1>9. CASE ~Fits(Start(f))
  <2>1. phase' = "failed" /\ UNCHANGED <<pos, out, seen>>
    BY <1>7, <1>9 DEF GetList
  <2>2. cut > 0
    BY <1>3, <1>5, <1>6, <1>9 DEF Fits
  <2> QED BY <2>1, <2>2
<1> QED BY <1>8, <1>9

LEMMA ReadCall ==
    ASSUME NEW places, NEW last, NEW x, AtRead(places, last, x), GetCall
    PROVE  \E y : AtRead(places, last, y)'
<1> DEFINE f == Head(todo)
<1>1. Along(places, last, x) /\ phase = "read" /\ todo = x.todo /\ out = x.got /\ seen = <<>>
  BY DEF AtRead
<1>2. todo # <<>> /\ IsCall(f)
  BY DEF GetCall
<1>3. PICK y \in places : Follows(body, x, y) /\ y.at <= size
  BY <1>1, <1>2, NextPlace
<1>4. CallOf(x, y)
  BY <1>1, <1>2, <1>3, Kinds
<1>5. y.todo = Below(f, Puts[f.t]) \o Tail(todo) /\ y.at = x.at /\ y.got = x.got
  BY <1>1, <1>4, Zenon DEF CallOf
<1>6. UNCHANGED <<asked, shape, as, body, size, cut, out, seen, pos>>
  BY DEF GetCall
<1>7. Known(f.t) /\ FieldsOf(f.t) = Puts[f.t]
  <2>1. FieldOK(f)
    BY <1>1, <1>2, NextPlace, StackTail
  <2>2. f.t \in DOMAIN Reads
    BY <1>2, <2>1, CallIs, ReadsAsPut
  <2> QED BY <1>1, <2>2, ReadsAsPut DEF Known, FieldsOf
<1>8. todo' = Below(f, Puts[f.t]) \o Tail(todo) /\ phase' = phase
  BY <1>7 DEF GetCall
<1>9. pos' = y.at /\ pos' <= size - cut
  BY <1>1, <1>5, <1>6 DEF Along
<1>10. Along(places, last, y)'
  BY <1>1, <1>6, <1>9, AlongOn
<1>11. AtRead(places, last, y)'
  BY <1>1, <1>5, <1>6, <1>8, <1>10 DEF AtRead
<1> QED BY <1>11

-----------------------------------------------------------------------------
(* Viewing *)

LEMMA TextJoin ==
    ASSUME NEW s, NEW t, IsSeq(s), IsSeq(t), TextOnly(s), TextOnly(t)
    PROVE  TextOnly(s \o t)
<1> DEFINE u == s \o t
<1>1. Len(s) \in Nat /\ Len(t) \in Nat
  BY SeqIs
<1>2. /\ IsSeq(u) /\ Len(u) = Len(s) + Len(t)
      /\ \A i \in 1..Len(s) : u[i] = s[i]
      /\ \A i \in 1..Len(t) : u[Len(s) + i] = t[i]
  BY <1>1, JoinIs
<1> HIDE DEF u
<1>3. ASSUME NEW i \in 1..Len(u) PROVE u[i].t \in DOMAIN Width \/ u[i].t \in Text(as)
  <2>1. CASE i \in 1..Len(s)
    BY <1>2, <2>1 DEF TextOnly
  <2>2. CASE i - Len(s) \in 1..Len(t)
    <3> DEFINE j == i - Len(s)
    <3>1. j \in 1..Len(t) /\ i = Len(s) + j
      BY <1>1, <2>2
    <3> HIDE DEF j
    <3>2. u[i] = t[j]
      BY <1>2, <3>1
    <3>3. t[j].t \in DOMAIN Width \/ t[j].t \in Text(as)
      BY <3>1, Zenon DEF TextOnly
    <3> QED BY <3>2, <3>3, Zenon
  <2>3. i \in 1..Len(s) \/ i - Len(s) \in 1..Len(t)
    BY <1>1, <1>2
  <2> QED BY <2>1, <2>2, <2>3
<1>4. TextOnly(u)
  BY <1>3 DEF TextOnly
<1> QED BY <1>4 DEF u

LEMMA TextTail ==
    ASSUME NEW s, IsSeq(s), s # <<>>, TextOnly(s)
    PROVE  /\ TextOnly(Tail(s)) /\ IsSeq(Tail(s))
           /\ Head(s).t \in DOMAIN Width \/ Head(s).t \in Text(as)
<1> DEFINE u == Tail(s)
<1>1. /\ Len(s) \in Nat /\ Len(s) > 0 /\ Head(s) = s[1]
      /\ IsSeq(u) /\ Len(u) = Len(s) - 1 /\ \A i \in 1..(Len(s) - 1) : u[i] = s[i + 1]
  BY TailIs
<1> HIDE DEF u
<1>2. ASSUME NEW i \in 1..Len(u) PROVE u[i].t \in DOMAIN Width \/ u[i].t \in Text(as)
  <2>1. i + 1 \in 1..Len(s) /\ u[i] = s[i + 1]
    BY <1>1
  <2> QED BY <2>1, Zenon DEF TextOnly
<1>3. TextOnly(u)
  BY <1>2, Zenon DEF TextOnly
<1>4. 1 \in 1..Len(s)
  BY <1>1
<1>5. Head(s).t \in DOMAIN Width \/ Head(s).t \in Text(as)
  BY <1>1, <1>4, Zenon DEF TextOnly
<1> QED BY <1>1, <1>3, <1>5 DEF u

LEMMA TextBelow ==
    ASSUME as \in Supported, NEW f, f.t \in Text(as), IsSeq(Schema[f.t])
    PROVE  TextOnly(Below(f, Schema[f.t]))
<1> DEFINE s == Schema[f.t]  u == Below(f, s)
<1>1. \A i \in DOMAIN s : s[i].t \in DOMAIN Width \/ s[i].t \in Text(as)
  BY TextsClosed DEF CallsOnly
<1>2. DOMAIN s = 1..Len(s)
  BY SeqIs
<1>3. IsSeq(u) /\ Len(u) = Len(s) /\ \A i \in 1..Len(s) : u[i] = Under(f, s[i])
  BY BelowIs
<1> HIDE DEF u, s
<1>4. ASSUME NEW i \in 1..Len(u) PROVE u[i].t \in DOMAIN Width \/ u[i].t \in Text(as)
  <2>1. i \in DOMAIN s /\ u[i] = Under(f, s[i])
    BY <1>2, <1>3
  <2>2. Under(f, s[i]).t = s[i].t
    BY UnderIs, Zenon
  <2>3. u[i].t = s[i].t
    BY <2>1, <2>2, Zenon
  <2> QED BY <1>1, <2>1, <2>3, Zenon
<1>5. TextOnly(u)
  BY <1>4, Zenon DEF TextOnly
<1> QED BY <1>5 DEF u, s

LEMMA TextElements ==
    ASSUME NEW f, f.t \in DOMAIN Width \/ f.t \in Text(as), NEW n \in Nat
    PROVE  TextOnly(Elements(f, n)) /\ IsSeq(Elements(f, n))
<1> DEFINE u == Elements(f, n)
<1>1. IsSeq(u) /\ Len(u) = n /\ \A i \in 1..n : u[i] = One(Append(f.p, ToString(i)), f.t)
  BY ElementsAre
<1> HIDE DEF u
<1>2. \A i \in 1..n : u[i].t = f.t
  BY <1>1 DEF One
<1>3. TextOnly(u)
  BY <1>1, <1>2 DEF TextOnly
<1> QED BY <1>1, <1>3 DEF u

LEMMA ViewRun ==
    ASSUME NEW places, NEW last, NEW x, AtView(places, last, x), GetRun
    PROVE  \E y : AtView(places, last, y)'
<1> DEFINE f == Head(todo)  r == Head(x.todo)
<1>1. /\ Along(places, last, x) /\ phase = "view" /\ cut = 0
      /\ Alike(todo, x.todo) /\ TextOnly(todo) /\ out = last.got /\ seen = x.got
  BY DEF AtView
<1>2. todo # <<>> /\ IsRun(f)
  BY DEF GetRun
<1>3. x.todo # <<>> /\ Same(f, r) /\ Alike(Tail(todo), Tail(x.todo))
  <2>1. f.t \notin Groups
    BY <1>2, GroupsApart DEF IsRun
  <2> QED BY <1>1, <1>2, <2>1, AlikeTail
<1>4. LikeRun(f, r) /\ IsRun(r) /\ LcmPath(f.p) = r.p
  <2>1. /\ Kin(f.t, r.t) /\ f.rep = r.rep /\ f.n = r.n /\ LcmPath(f.p) = r.p
    BY <1>3 DEF Same
  <2> HIDE DEF f, r
  <2> QED BY <1>2, <2>1 DEF Kin, IsRun, LikeRun
<1>5. PICK y \in places : Follows(body, x, y) /\ y.at <= size
  BY <1>1, <1>3, NextPlace
<1>6. RunOf(body, x, y)
  BY <1>4, <1>5, Kinds
<1>7. x.at \in Nat /\ pos = x.at /\ size \in Nat
  BY <1>1, NextPlace DEF Along
<1>8. /\ HasCount(f) => Counted(Start(f) - 4)
      /\ End(f) = y.at /\ Start(f) <= y.at /\ Start(f) \in Nat /\ y.at \in Nat
      /\ y.got = Keep(x.got, r.p, Got(f))
      /\ y.todo = Tail(x.todo)
  BY <1>4, <1>6, <1>7, RunRead
<1>9. UNCHANGED <<asked, shape, as, body, size, cut>>
  BY DEF GetRun
<1>10. Fits(End(f)) /\ Fits(Start(f))
  BY <1>1, <1>5, <1>7, <1>8 DEF Fits
<1>11. /\ pos' = End(f) /\ todo' = Tail(todo) /\ seen' = Keep(seen, LcmPath(f.p), Got(f))
       /\ out' = out /\ phase' = phase
  BY <1>1, <1>8, <1>10 DEF GetRun
<1>12. pos' <= size - cut
  BY <1>10, <1>11 DEF Fits
<1>13. Along(places, last, y)'
  BY <1>1, <1>8, <1>9, <1>11, <1>12, AlongOn
<1>14. TextOnly(Tail(todo))
  BY <1>1, <1>2, TextTail DEF Alike
<1>15. AtView(places, last, y)'
  <2>1. TextOnly(todo)'
    BY <1>9, <1>11, <1>14 DEF TextOnly
  <2> QED BY <1>1, <1>3, <1>4, <1>8, <1>9, <1>11, <1>13, <2>1 DEF AtView
<1> QED BY <1>15

LEMMA ViewList ==
    ASSUME NEW places, NEW last, NEW x, AtView(places, last, x), GetList
    PROVE  \E y : AtView(places, last, y)'
<1> DEFINE f == Head(todo)  r == Head(x.todo)  n == Announced(f)
<1>1. /\ Along(places, last, x) /\ phase = "view" /\ cut = 0
      /\ Alike(todo, x.todo) /\ TextOnly(todo) /\ out = last.got /\ seen = x.got
  BY DEF AtView
<1>2. todo # <<>> /\ IsList(f)
  BY DEF GetList
<1>3. x.todo # <<>> /\ Same(f, r) /\ Alike(Tail(todo), Tail(x.todo))
  <2>1. f.t \notin Groups
    <3> SUFFICES ASSUME f.t \in Groups PROVE FALSE
      OBVIOUS
    <3>1. IsSeq(Schema[f.t])
      BY GroupsPathed DEF Pathed
    <3>2. f.rep = "fixed"
      BY <1>1, <1>2, <3>1, AlikeGroup
    <3> QED BY <1>2, <3>2 DEF IsList
  <2> QED BY <1>1, <1>2, <2>1, AlikeTail
<1>4. IsList(r)
  <2>1. Kin(f.t, r.t) /\ f.rep = r.rep
    BY <1>3 DEF Same
  <2>2. \A t \in DOMAIN Puts : t \notin DOMAIN Width
    BY PutsApart
  <2> HIDE DEF f, r
  <2> QED BY <1>2, <2>1, <2>2 DEF Kin, IsRun, IsList
<1>5. PICK y \in places : Follows(body, x, y) /\ y.at <= size
  BY <1>1, <1>3, NextPlace
<1>6. ListOf(body, x, y)
  BY <1>4, <1>5, Kinds
<1>7. x.at \in Nat /\ pos = x.at /\ size \in Nat
  BY <1>1, NextPlace DEF Along
<1>8. /\ Counted(Start(f) - 4) /\ Start(f) = y.at /\ y.at \in Nat /\ n \in LISTS
      /\ y.todo = Elements(r, n) \o Tail(x.todo) /\ y.got = x.got
  BY <1>2, <1>6, <1>7, ListRead
<1>9. UNCHANGED <<asked, shape, as, body, size, cut, out, seen>>
  BY DEF GetList
<1>10. Fits(Start(f))
  BY <1>1, <1>5, <1>7, <1>8 DEF Fits
<1>11. pos' = Start(f) /\ todo' = Elements(f, n) \o Tail(todo) /\ phase' = phase
  BY <1>8, <1>10 DEF GetList
<1>12. pos' <= size - cut
  BY <1>10, <1>11 DEF Fits
<1>13. Along(places, last, y)'
  BY <1>1, <1>8, <1>9, <1>11, <1>12, AlongOn
<1>14. n \in Nat /\ \A i \in 1..n : ToString(i) \notin DOMAIN LcmName
  BY <1>8, CdrAssumption
<1> HIDE DEF n, f, r
<1>15. Alike(Elements(f, n) \o Tail(todo), Elements(r, n) \o Tail(x.todo))
  <2>1. Alike(Elements(f, n), Elements(r, n))
    BY <1>2, <1>3, <1>14, AlikeElements
  <2> QED BY <1>3, <2>1, AlikeJoin
<1>16. TextOnly(Elements(f, n) \o Tail(todo))
  <2>1. /\ TextOnly(Tail(todo)) /\ IsSeq(Tail(todo))
        /\ f.t \in DOMAIN Width \/ f.t \in Text(as)
    BY <1>1, <1>2, TextTail DEF Alike, f
  <2>2. TextOnly(Elements(f, n)) /\ IsSeq(Elements(f, n))
    BY <1>14, <2>1, TextElements
  <2> QED BY <2>1, <2>2, TextJoin
<1>17. AtView(places, last, y)'
  <2>1. TextOnly(todo)'
    BY <1>9, <1>11, <1>16 DEF TextOnly
  <2>2. Alike(todo', y.todo)
    BY <1>8, <1>11, <1>15
  <2> QED BY <1>1, <1>8, <1>9, <1>11, <1>13, <2>1, <2>2 DEF AtView
<1> QED BY <1>17

LEMMA ViewCall ==
    ASSUME as \in Supported, NEW places, NEW last, NEW x, AtView(places, last, x), GetCall
    PROVE  \E y : AtView(places, last, y)'
<1> DEFINE f == Head(todo)  r == Head(x.todo)
<1>1. /\ Along(places, last, x) /\ phase = "view" /\ cut = 0
      /\ Alike(todo, x.todo) /\ TextOnly(todo) /\ out = last.got /\ seen = x.got
  BY DEF AtView
<1>2. todo # <<>> /\ IsCall(f)
  BY DEF GetCall
<1>3. /\ TextOnly(Tail(todo)) /\ IsSeq(Tail(todo)) /\ f.t \in Text(as) /\ f.t \notin DOMAIN Width
  <2>1. /\ TextOnly(Tail(todo)) /\ IsSeq(Tail(todo))
        /\ f.t \in DOMAIN Width \/ f.t \in Text(as)
    BY <1>1, <1>2, TextTail DEF Alike
  <2>2. f.t \notin DOMAIN Width
    BY <1>2 DEF IsCall, IsRun
  <2> QED BY <2>1, <2>2
<1>4. UNCHANGED <<asked, shape, as, body, size, cut, out, seen, pos>>
  BY DEF GetCall
<1>5. Known(f.t) /\ FieldsOf(f.t) = Schema[f.t]
  <2>1. phase # "read"
    BY <1>1
  <2> QED BY <1>3, <2>1, TextsClosed DEF Known, FieldsOf, Text
<1>6. todo' = Below(f, Schema[f.t]) \o Tail(todo) /\ phase' = phase
  BY <1>5 DEF GetCall
<1>7. \E y \in places : /\ Alike(Below(f, Schema[f.t]) \o Tail(todo), y.todo)
                        /\ y.at = x.at /\ y.got = x.got /\ IsSeq(Schema[f.t])
  <2>1. CASE f.t \in Groups
    <3>1. IsSeq(Schema[f.t])
      BY <2>1, GroupsPathed DEF Pathed
    <3>2. Alike(Below(f, Schema[f.t]) \o Tail(todo), x.todo)
      BY <1>1, <1>2, <2>1, <3>1, AlikeGroup
    <3>3. x \in places
      BY <1>1 DEF Along
    <3> QED BY <3>1, <3>2, <3>3
  <2>2. CASE f.t \notin Groups
    <3>1. x.todo # <<>> /\ Same(f, r) /\ Alike(Tail(todo), Tail(x.todo))
      BY <1>1, <1>2, <2>2, AlikeTail
    <3>2. IsCall(r) /\ f.t = r.t /\ f.t \in DOMAIN Puts /\ IsSeq(f.p) /\ LcmPath(f.p) = r.p
      <4>1. Kin(f.t, r.t) /\ f.rep = r.rep /\ IsSeq(f.p) /\ LcmPath(f.p) = r.p
        BY <3>1 DEF Same
      <4> HIDE DEF f, r
      <4> QED BY <1>2, <1>3, <4>1 DEF Kin, IsRun, IsCall
    <3>3. PICK y \in places : Follows(body, x, y) /\ y.at <= size
      BY <1>1, <3>1, NextPlace
    <3>4. CallOf(x, y)
      BY <3>2, <3>3, Kinds
    <3>5. y.todo = Below(r, Puts[r.t]) \o Tail(x.todo) /\ y.at = x.at /\ y.got = x.got
      BY <3>4, Zenon DEF CallOf
    <3>6. Alike(Schema[f.t], Puts[f.t]) /\ Pathed(Schema[f.t])
      BY <3>2, Tables DEF TableOK
    <3>7. Alike(Below(f, Schema[f.t]), Below(r, Puts[f.t]))
      BY <3>2, <3>6, AlikeBelow
    <3>8. Alike(Below(f, Schema[f.t]) \o Tail(todo), Below(r, Puts[f.t]) \o Tail(x.todo))
      BY <3>1, <3>7, AlikeJoin
    <3>9. IsSeq(Schema[f.t])
      BY <3>6 DEF Pathed
    <3> QED BY <3>2, <3>5, <3>8, <3>9
  <2> QED BY <2>1, <2>2
<1>8. PICK y \in places : /\ Alike(Below(f, Schema[f.t]) \o Tail(todo), y.todo)
                          /\ y.at = x.at /\ y.got = x.got /\ IsSeq(Schema[f.t])
  BY <1>7
<1>9. TextOnly(Below(f, Schema[f.t]) \o Tail(todo))
  <2>1. TextOnly(Below(f, Schema[f.t])) /\ IsSeq(Below(f, Schema[f.t]))
    BY <1>3, <1>8, TextBelow, BelowIs
  <2> QED BY <1>3, <2>1, TextJoin
<1>10. pos' = y.at /\ pos' <= size - cut
  BY <1>1, <1>4, <1>8 DEF Along
<1>11. Along(places, last, y)'
  BY <1>1, <1>4, <1>10, AlongOn
<1>12. AtView(places, last, y)'
  <2>1. TextOnly(todo)'
    BY <1>4, <1>6, <1>9 DEF TextOnly
  <2>2. Alike(todo', y.todo)
    BY <1>6, <1>8
  <2> QED BY <1>1, <1>4, <1>6, <1>8, <1>11, <2>1, <2>2 DEF AtView
<1> QED BY <1>12

-----------------------------------------------------------------------------
(* The inductive invariant *)

\* Nothing is read yet.
Before == phase \in {"ask", "write", "refused"}

CdrInv ==
    /\ asked \in ASKED /\ MessageOK
    /\ phase \in Phases /\ defect \in BOOLEAN /\ cut \in CUTS \cup {0}
    /\ as = asked \/ as \in Supported
    /\ phase \notin {"ask", "refused"} => as \in Supported
    /\ Laid(body, size) /\ Sound(out) /\ pos \in 0..size
    /\ Before => pos = 0 /\ out = <<>> /\ seen = <<>> /\ cut = 0
    /\ phase = "ask" => body = <<>> /\ size = 0
    /\ phase = "write" => \E places, last : Writing(places, last)
    /\ phase = "read" => \E places, last, x : AtRead(places, last, x)
    /\ phase = "view" => \E places, last, x : AtView(places, last, x)
    /\ phase = "done" => seen = out /\ pos = size /\ cut = 0
    /\ phase = "failed" => cut > 0
    /\ phase = "refused" => asked \notin Supported

LEMMA CutIs == ASSUME CdrInv PROVE cut \in Nat /\ size \in Nat
BY CdrAssumption DEF CdrInv, Laid

LEMMA BeginsAlike ==
    ASSUME as \in Supported
    PROVE  Alike(<<One(<<>>, as)>>, <<One(<<>>, as)>>) /\ TextOnly(<<One(<<>>, as)>>)
<1> DEFINE v == One(<<>>, as)  s == <<v>>
<1>1. IsSeq(<<>>) /\ LcmPath(<<>>) = <<>>
  <2>1. IsSeq(<<>>) /\ Len(<<>>) = 0
    BY DEF IsSeq
  <2>2. IsSeq(LcmPath(<<>>)) /\ Len(LcmPath(<<>>)) = Len(<<>>)
    BY <2>1, LcmIs
  <2>3. LcmPath(<<>>) = <<>>
    BY <2>1, <2>2, SeqIs
  <2> QED BY <2>1, <2>3
<1>2. IsSeq(s) /\ Len(s) = 1 /\ s[1] = v
  BY OneLong
<1>3. Kin(as, as)
  BY PutsSupported, Structs
<1>4. Same(v, v) /\ v.t = as
  BY <1>1, <1>3 DEF Same, One
<1>5. as \in Text(as)
  BY DEF Text
<1> HIDE DEF v, s
<1>6. \A i \in 1..Len(s) : Same(s[i], s[i])
  BY <1>2, <1>4
<1>7. Alike(s, s)
  BY <1>2, <1>6, AlikeOneByOne
<1>8. TextOnly(s)
  <2>1. ASSUME NEW i \in 1..Len(s) PROVE s[i].t = as
    <3>1. i = 1
      BY <1>2
    <3> QED BY <1>2, <1>4, <3>1
  <2> QED BY <1>5, <2>1, Zenon DEF TextOnly
<1> QED BY <1>7, <1>8 DEF v, s

LEMMA InitInv == ASSUME CdrInit PROVE CdrInv
<1>1. /\ shape.str \in STRS /\ shape.other \in OTHERS /\ shape.len \in LENS
      /\ shape.list \in LISTS
      /\ shape.image \in IMAGES \/ shape.image = NoImage
  BY DEF CdrInit
<1>2. /\ asked \in ASKED /\ as = asked /\ defect = FALSE /\ phase = "ask"
      /\ body = <<>> /\ size = 0 /\ pos = 0 /\ cut = 0 /\ out = <<>> /\ seen = <<>>
  BY DEF CdrInit
<1>3. MessageOK
  <2>1. shape.image.len \in Nat
    <3>1. NoImage.len = 0
      BY DEF NoImage
    <3>2. \A i \in IMAGES : i.len \in Nat
      BY CdrAssumption
    <3> QED BY <1>1, <3>1, <3>2
  <2> QED BY <1>1, <2>1, CdrAssumption DEF MessageOK
<1>4. Laid(body, size) /\ Sound(out)
  BY <1>2 DEF Laid, Sound
<1>5. pos \in 0..size /\ cut \in CUTS \cup {0} /\ defect \in BOOLEAN /\ phase \in Phases
  <2>1. pos \in 0..size
    BY <1>2
  <2>2. cut \in CUTS \cup {0} /\ defect \in BOOLEAN
    BY <1>2, Zenon
  <2>3. phase \in Phases
    BY <1>2, Zenon DEF Phases
  <2> QED BY <2>1, <2>2, <2>3
<1>6. phase \notin {"write", "read", "view", "done", "failed", "refused"}
  BY <1>2
<1> HIDE DEF Phases
<1> QED BY <1>2, <1>3, <1>4, <1>5, <1>6 DEF CdrInv

LEMMA ToCdrInv == ASSUME CdrInv, ToCdr PROVE CdrInv'
<1>1. /\ phase = "ask" /\ asked \in ASKED /\ MessageOK /\ Laid(body, size) /\ Sound(out)
      /\ pos \in 0..size /\ pos = 0 /\ out = <<>> /\ seen = <<>> /\ cut = 0
      /\ body = <<>> /\ size = 0
  BY DEF CdrInv, ToCdr, Before
<1>2. UNCHANGED <<asked, shape, body, size, pos, cut, out, seen>>
  BY DEF ToCdr
<1>3. /\ phase' = (IF asked \in DOMAIN Puts \ Parts THEN "write" ELSE "refused")
      /\ as' \in {"CompressedImage", asked} /\ defect' \in BOOLEAN
      /\ todo' = <<One(<<>>, as')>>
  BY DEF ToCdr
<1>4. "CompressedImage" \in Supported
  BY DEF Supported
<1>5. asked \in DOMAIN Puts \ Parts <=> asked \in Supported
  BY PutsSupported
<1>6. MessageOK' /\ Laid(body, size)' /\ Sound(out)'
  BY <1>1, <1>2 DEF MessageOK, Laid, Sound
<1>7. ASSUME phase' = "write" PROVE \E places, last : Writing(places, last)'
  <2>1. as' \in Supported
    BY <1>3, <1>4, <1>5, <1>7
  <2> PICK x : x = Beginning(as')
    OBVIOUS
  <2>2. x.todo = todo' /\ x.at = 0 /\ x.got = <<>>
    BY <1>3 DEF Beginning
  <2>3. Stack(x.todo)
    BY <2>1, BeginningOK
  <2>4. Sound(x.got)
    BY <1>1, <2>2
  <2>5. Trail({x}, body', as', x)
    BY <2>2, <2>3, <2>4 DEF Trail
  <2>6. Writing({x}, x)'
    BY <1>1, <1>2, <2>2, <2>5 DEF Writing
  <2> QED BY <2>6
<1> QED BY <1>1, <1>2, <1>3, <1>4, <1>5, <1>6, <1>7 DEF CdrInv, Phases, Before

LEMMA WriteInv == ASSUME CdrInv, PutRun \/ PutList \/ PutCall PROVE CdrInv'
<1>1. /\ phase = "write" /\ asked \in ASKED /\ MessageOK /\ Laid(body, size) /\ Sound(out)
      /\ pos = 0 /\ out = <<>> /\ seen = <<>> /\ cut = 0 /\ defect \in BOOLEAN
      /\ as \in Supported
  BY DEF CdrInv, PutRun, PutList, PutCall, Before
<1>2. UNCHANGED <<asked, shape, as, defect, phase, pos, cut, out, seen>>
  BY DEF PutRun, PutList, PutCall
<1>3. PICK places, last : Writing(places, last)
  BY <1>1 DEF CdrInv
<1>4. /\ Laid(body', size')
      /\ \E ps, l : Trail(ps, body', as, l) /\ l.todo = todo' /\ l.at = size'
  <2>1. CASE PutRun
    BY <1>1, <1>3, <2>1, WriteRun
  <2>2. CASE PutList
    BY <1>1, <1>3, <2>2, WriteList
  <2>3. CASE PutCall
    BY <1>1, <1>3, <2>3, WriteCall
  <2> QED BY <2>1, <2>2, <2>3
<1>5. \E ps, l : Writing(ps, l)'
  BY <1>2, <1>4 DEF Writing
<1>6. MessageOK' /\ Sound(out)' /\ Laid(body, size)' /\ size' \in Nat
  BY <1>1, <1>2, <1>4 DEF MessageOK, Sound, Laid
<1>7. pos' \in 0..size' /\ phase' = "write"
  BY <1>1, <1>2, <1>6
<1> QED BY <1>1, <1>2, <1>5, <1>6, <1>7 DEF CdrInv, Phases, Before

LEMMA FinishInv == ASSUME CdrInv, Finish PROVE CdrInv'
<1>1. /\ phase = "write" /\ asked \in ASKED /\ MessageOK /\ Laid(body, size) /\ Sound(out)
      /\ pos = 0 /\ out = <<>> /\ seen = <<>> /\ defect \in BOOLEAN
      /\ as \in Supported /\ size \in Nat /\ todo = <<>>
  BY DEF CdrInv, Finish, Before, Laid
<1>2. /\ UNCHANGED <<asked, shape, as, defect, body, size, pos, out, seen>>
      /\ todo' = <<One(<<>>, as)>>
  BY DEF Finish
<1>3. PICK c \in CUTS : cut' = c /\ phase' = IF c > size THEN "failed" ELSE "read"
  BY DEF Finish
<1>4. c \in Nat
  BY CdrAssumption
<1>5. ASSUME ~(c > size) PROVE \E places, last, x : AtRead(places, last, x)'
  <2>1. PICK places, last : Writing(places, last)
    BY <1>1 DEF CdrInv
  <2> PICK x : x = Beginning(as)
    OBVIOUS
  <2>2. x \in places /\ Trail(places, body, as, last) /\ last.todo = <<>> /\ last.at = size
    BY <1>1, <2>1 DEF Writing, Trail
  <2>3. x.todo = todo' /\ x.at = 0 /\ x.got = <<>>
    BY <1>2 DEF Beginning
  <2>4. pos' <= size - c
    BY <1>1, <1>2, <1>4, <1>5
  <2>5. Along(places, last, x)'
    BY <1>1, <1>2, <1>3, <1>4, <2>2, <2>3, <2>4 DEF Along
  <2>6. AtRead(places, last, x)'
    BY <1>1, <1>2, <1>3, <1>5, <2>3, <2>5 DEF AtRead
  <2> QED BY <2>6
<1>6. MessageOK' /\ Sound(out)' /\ Laid(body, size)'
  BY <1>1, <1>2 DEF MessageOK, Sound, Laid
<1>7. c > size => cut' > 0
  BY <1>1, <1>3, <1>4
<1> QED BY <1>1, <1>2, <1>3, <1>5, <1>6, <1>7 DEF CdrInv, Phases, Before

LEMMA GetInv == ASSUME CdrInv, GetRun \/ GetList \/ GetCall PROVE CdrInv'
<1>1. /\ phase \in {"read", "view"} /\ asked \in ASKED /\ MessageOK /\ Laid(body, size)
      /\ Sound(out) /\ defect \in BOOLEAN /\ as \in Supported /\ cut \in CUTS \cup {0}
      /\ pos \in 0..size
  BY DEF CdrInv, GetRun, GetList, GetCall, Reading
<1>2. UNCHANGED <<asked, shape, as, defect, body, size, cut>>
  BY DEF GetRun, GetList, GetCall
<1>3. MessageOK' /\ Laid(body, size)' /\ size \in Nat /\ cut \in Nat
  BY <1>1, <1>2, CutIs DEF MessageOK, Laid
<1>4. CASE phase = "read"
  <2>1. PICK places, last, x : AtRead(places, last, x)
    BY <1>4 DEF CdrInv
  <2>2. \/ \E y : AtRead(places, last, y)'
        \/ phase' = "failed" /\ cut > 0 /\ UNCHANGED <<pos, out, seen>>
    BY <2>1, ReadRun, ReadList, ReadCall
  <2>3. ASSUME NEW y, AtRead(places, last, y)' PROVE CdrInv'
    <3>1. Along(places, last, y)' /\ phase' = "read" /\ out' = y.got
      BY <2>3 DEF AtRead
    <3>2. Sound(out') /\ pos' \in 0..size
      <4>1. y \in places /\ pos' = y.at /\ pos' <= size - cut /\ Trail(places, body, as, last)
        BY <1>2, <3>1 DEF Along
      <4>2. y.at \in Nat /\ Sound(y.got)
        BY <4>1 DEF Trail
      <4> QED BY <1>3, <3>1, <4>1, <4>2
    <3>3. Sound(out)'
      BY <3>2 DEF Sound
    <3> QED BY <1>1, <1>2, <1>3, <2>3, <3>1, <3>2, <3>3 DEF CdrInv, Phases, Before
  <2>4. ASSUME phase' = "failed" /\ cut > 0 /\ UNCHANGED <<pos, out, seen>> PROVE CdrInv'
    <3>1. Sound(out)'
      BY <1>1, <2>4 DEF Sound
    <3> QED BY <1>1, <1>2, <1>3, <2>4, <3>1 DEF CdrInv, Phases, Before
  <2> QED BY <2>2, <2>3, <2>4
<1>5. CASE phase = "view"
  <2>1. PICK places, last, x : AtView(places, last, x)
    BY <1>5 DEF CdrInv
  <2>2. PICK y : AtView(places, last, y)'
    BY <1>1, <2>1, ViewRun, ViewList, ViewCall
  <2>3. Along(places, last, y)' /\ phase' = "view" /\ out' = last.got
    BY <2>2 DEF AtView
  <2>4. Sound(out') /\ pos' \in 0..size
    <3>1. /\ y \in places /\ pos' = y.at /\ pos' <= size - cut
          /\ Trail(places, body, as, last)
      BY <1>2, <2>3 DEF Along
    <3>2. y.at \in Nat /\ Sound(last.got)
      BY <3>1 DEF Trail
    <3> QED BY <1>3, <2>3, <3>1, <3>2
  <2>5. Sound(out)'
    BY <2>4 DEF Sound
  <2> QED BY <1>1, <1>2, <1>3, <2>2, <2>3, <2>4, <2>5 DEF CdrInv, Phases, Before
<1> QED BY <1>1, <1>4, <1>5

LEMMA ThroughInv == ASSUME CdrInv, Through PROVE CdrInv'
<1>1. /\ phase \in {"read", "view"} /\ asked \in ASKED /\ MessageOK /\ Laid(body, size)
      /\ Sound(out) /\ defect \in BOOLEAN /\ as \in Supported /\ cut \in CUTS \cup {0}
      /\ pos \in 0..size /\ todo = <<>>
  BY DEF CdrInv, Through, Reading
<1>2. UNCHANGED <<asked, shape, as, defect, body, size, cut, out, seen>>
  BY DEF Through
<1>3. /\ MessageOK' /\ Laid(body, size)' /\ Sound(out)' /\ size \in Nat /\ cut \in Nat
  BY <1>1, <1>2, CutIs DEF MessageOK, Laid, Sound
<1>4. CASE phase = "read"
  <2>1. PICK places, last, x : AtRead(places, last, x)
    BY <1>4 DEF CdrInv
  <2>2. Along(places, last, x) /\ todo = x.todo /\ out = x.got /\ seen = <<>>
    BY <2>1 DEF AtRead
  <2>3. x = last /\ pos = size /\ pos <= size - cut
    BY <1>1, <2>2, NextPlace DEF Along
  <2>4. cut = 0
    BY <1>3, <2>3
  <2>5. phase' = "view" /\ pos' = 0 /\ todo' = <<One(<<>>, as)>>
    BY <1>4 DEF Through
  <2> PICK y : y = Beginning(as)
    OBVIOUS
  <2>6. y.todo = <<One(<<>>, as)>> /\ y.at = 0 /\ y.got = <<>> /\ y \in places
    BY <2>2 DEF Beginning, Along, Trail
  <2>7. Along(places, last, y)'
    <3>1. pos' = y.at /\ pos' <= size - cut /\ y \in places
      <4>1. 0 <= size - cut
        BY <1>3, <2>4
      <4> QED BY <2>5, <2>6, <4>1, Zenon
    <3>2. UNCHANGED <<shape, as, body, size, cut>>
      BY <1>2
    <3> QED BY <2>2, <3>1, <3>2, AlongOn
  <2>8. Alike(todo', y.todo) /\ TextOnly(todo')
    BY <1>1, <2>5, <2>6, BeginsAlike
  <2>9. TextOnly(todo)'
    BY <1>2, <2>8 DEF TextOnly
  <2>10. AtView(places, last, y)'
    BY <1>2, <2>2, <2>3, <2>4, <2>5, <2>6, <2>7, <2>8, <2>9 DEF AtView
  <2>11. pos' \in 0..size'
    BY <1>2, <1>3, <2>5
  <2> QED BY <1>1, <1>2, <1>3, <2>5, <2>10, <2>11 DEF CdrInv, Phases, Before
<1>5. CASE phase = "view"
  <2>1. PICK places, last, x : AtView(places, last, x)
    BY <1>5 DEF CdrInv
  <2>2. Along(places, last, x) /\ Alike(todo, x.todo) /\ out = last.got /\ seen = x.got /\ cut = 0
    BY <2>1 DEF AtView
  <2>3. x = last /\ pos = size
    <3>1. x.todo = <<>>
      BY <1>1, <2>2, AlikeNone
    <3>2. x = last
      BY <2>2, <3>1, NextPlace
    <3> QED BY <2>2, <3>2 DEF Along
  <2>4. phase' = "done" /\ pos' = pos
    BY <1>5 DEF Through
  <2> QED BY <1>1, <1>2, <1>3, <2>2, <2>3, <2>4 DEF CdrInv, Phases, Before
<1> QED BY <1>1, <1>4, <1>5

LEMMA InvariantCdr == CdrSpec => []CdrInv
<1>1. CdrInit => CdrInv
  BY InitInv
<1>2. CdrInv /\ [CdrNext]_cdrVars => CdrInv'
  <2> SUFFICES ASSUME CdrInv, [CdrNext]_cdrVars PROVE CdrInv'
    OBVIOUS
  <2>1. CASE CdrNext
    BY <2>1, ToCdrInv, WriteInv, FinishInv, GetInv, ThroughInv DEF CdrNext
  <2>2. CASE UNCHANGED cdrVars
    <3>1. UNCHANGED <<asked, shape, as, defect, phase, todo, body, size, pos, cut, out, seen>>
      BY <2>2 DEF cdrVars
    <3>2. MessageOK' /\ Laid(body, size)' /\ Sound(out)' /\ (Before' <=> Before)
      BY <3>1 DEF CdrInv, MessageOK, Laid, Sound, Before
    <3>3. \A places, last : Writing(places, last) => Writing(places, last)'
      BY <3>1 DEF Writing
    <3>4. \A places, last, x : Along(places, last, x) => Along(places, last, x)'
      BY <3>1 DEF Along
    <3>5. TextOnly(todo) => TextOnly(todo)'
      BY <3>1 DEF TextOnly
    <3>6. \A places, last, x : /\ AtRead(places, last, x) => AtRead(places, last, x)'
                               /\ AtView(places, last, x) => AtView(places, last, x)'
      BY <3>1, <3>4, <3>5 DEF AtRead, AtView
    <3> QED BY <3>1, <3>2, <3>3, <3>6 DEF CdrInv
  <2> QED BY <2>1, <2>2
<1> QED BY <1>1, <1>2, PTL DEF CdrSpec

\* Whatever is written, every primitive lies inside the payload, aligned and
\* clear of the others, and a reader stays inside it (cdr.rs, Writer, Reader).
THEOREM PayloadLaidOut == CdrSpec => []CdrTypeOK
<1>1. CdrInv => CdrTypeOK
  <2> SUFFICES ASSUME CdrInv PROVE CdrTypeOK
    OBVIOUS
  <2>1. /\ phase \in Phases /\ defect \in BOOLEAN /\ cut \in CUTS \cup {0}
        /\ pos \in 0..size /\ as \in ASKED \cup Supported
    BY DEF CdrInv
  <2>2. /\ size \in Nat
        /\ \A at \in DOMAIN body :
              /\ at % body[at].w = 0 /\ at + body[at].w <= size
              /\ \A o \in (at + 1)..(at + body[at].w - 1) : o \notin DOMAIN body
    BY DEF CdrInv, Laid
  <2> QED BY <2>1, <2>2 DEF CdrTypeOK
<1> QED BY <1>1, InvariantCdr, PTL

\* to_lcm gets back what to_cdr wrote, value by value and to the last byte; a
\* payload that lost bytes is never read to its end.
THEOREM RoundTripHolds == CdrSpec => []RoundTrip
<1>1. CdrInv => RoundTrip
  <2> SUFFICES ASSUME CdrInv PROVE RoundTrip
    OBVIOUS
  <2>1. \A p \in DOMAIN out : out[p] = [i \in DOMAIN out[p] |-> Value(p, i)]
    BY DEF CdrInv, Sound
  <2>2. ASSUME phase = "read", todo = <<>> PROVE pos = size
    <3>1. PICK places, last, x : AtRead(places, last, x)
      BY <2>2 DEF CdrInv
    <3>2. Along(places, last, x) /\ x.todo = <<>>
      BY <2>2, <3>1 DEF AtRead
    <3>3. x = last
      BY <3>2, NextPlace
    <3> QED BY <3>2, <3>3 DEF Along
  <2>3. ASSUME cut > 0 PROVE phase \notin {"view", "done"}
    <3>1. cut # 0
      BY <2>3
    <3>2. phase # "done"
      BY <3>1 DEF CdrInv
    <3>3. phase = "view" => cut = 0
      BY DEF CdrInv, AtView
    <3> QED BY <3>1, <3>2, <3>3
  <2> QED BY <2>1, <2>2, <2>3 DEF RoundTrip
<1> QED BY <1>1, InvariantCdr, PTL

\* A viewer that walks the schema text gets what to_lcm gets.
THEOREM ViewersAgree == CdrSpec => []ViewerAgrees
<1>1. CdrInv => ViewerAgrees
  BY DEF CdrInv, ViewerAgrees
<1> QED BY <1>1, InvariantCdr, PTL

\* A message of a type that supports() claims is written, read back and shown.
THEOREM SupportedIsTranscoded == CdrSpec => []SupportedMeansTranscoded
<1>1. CdrInv => SupportedMeansTranscoded
  <2> SUFFICES ASSUME CdrInv, asked \in Supported, cut = 0, phase \in {"refused", "failed"}
               PROVE  FALSE
    BY DEF SupportedMeansTranscoded
  <2>1. ~(cut > 0)
    OBVIOUS
  <2> QED BY <2>1 DEF CdrInv
<1> QED BY <1>1, InvariantCdr, PTL
=============================================================================
