----------------------------- MODULE McapProofs -----------------------------
(***************************************************************************)
(* An .mcap from end to end, for any producers, any files of other tools,  *)
(* any prefixes, any selection and renames, and any order of the channels  *)
(* in the file.                                                            *)
(***************************************************************************)
EXTENDS Mcap, FiniteSetTheorems, SequenceTheorems, WellFoundedInduction, TLAPS

IsSeq(s) == s \in Seq(Range(s))

LEMMA SeqIs ==
    ASSUME NEW s, IsSeq(s)
    PROVE  Len(s) \in Nat /\ DOMAIN s = 1..Len(s)
BY DEF IsSeq

LEMMA AppendIs ==
    ASSUME NEW s, IsSeq(s), NEW x
    PROVE  /\ IsSeq(Append(s, x))
           /\ Len(s) \in Nat /\ Len(Append(s, x)) = Len(s) + 1
           /\ DOMAIN s = 1..Len(s) /\ DOMAIN Append(s, x) = 1..(Len(s) + 1)
           /\ \A i \in 1..Len(s) : Append(s, x)[i] = s[i]
           /\ Append(s, x)[Len(s) + 1] = x
<1> DEFINE S == Range(s) \cup {x}  t == Append(s, x)
<1>1. s \in Seq(Range(s)) /\ s \in Seq(S)
  BY DEF IsSeq
<1>2. t \in Seq(S) /\ Len(t) = Len(s) + 1 /\ Len(s) \in Nat
  BY <1>1
<1>3. (\A i \in 1..Len(s) : t[i] = s[i]) /\ t[Len(s) + 1] = x
  BY <1>1
<1>4. DOMAIN t = 1..Len(t) /\ DOMAIN s = 1..Len(s)
  BY <1>1, <1>2
<1> HIDE DEF t
<1>5. \A i \in 1..Len(t) : t[i] \in Range(t)
  BY <1>4 DEF Range
<1>6. t \in Seq(Range(t))
  BY <1>2, <1>4, <1>5
<1> QED BY <1>2, <1>3, <1>4, <1>6 DEF t, IsSeq

LEMMA EmptyIs == IsSeq(<<>>) /\ Len(<<>>) = 0 /\ DOMAIN <<>> = {}
BY DEF IsSeq, Range

LEMMA Constants ==
    /\ Starts \subseteq Nat
    /\ Latency \in Nat /\ SameClock \in Nat /\ Epoch \in Nat
    /\ MaxMessages \in Nat /\ MaxPasses \in Nat
    /\ Latency < SameClock /\ SameClock < Epoch
BY McapAssumption

-----------------------------------------------------------------------------
(* Records passed over *)

\* The times a record of m may be put down under.
Times(m) == {m.log} \cup (IF m.stamp = None THEN {} ELSE {m.stamp})

MessageOK(m) ==
    /\ m.log \in Nat /\ (m.stamp = None \/ m.stamp \in Nat)
    /\ IF bag = <<>> THEN m.origin \in Producers ELSE m.origin \in Range(bag)

\* The file is of what was heard; nothing is handed out before it is opened.
Sound ==
    /\ IsSeq(heard) /\ IsSeq(file) /\ IsSeq(handed)
    /\ now \in Nat /\ Epoch <= now /\ position \in Nat \ {0} /\ player.start \in Nat
    /\ bag \in Bags \cup {<<>>} /\ transport \in Transports /\ prefix \in Namespaces[transport]
    /\ \A i \in 1..Len(heard) : MessageOK(heard[i])
    /\ \A n \in 1..Len(file) :
          file[n].id \in 1..Len(heard) /\ file[n].publish \in Times(heard[file[n].id])
    /\ phase \in {"recording", "refused", "playing"}
    /\ phase # "playing" => position = 1 /\ base = None /\ handed = <<>>

LEMMA TimesIs ==
    ASSUME NEW m, MessageOK(m), NEW t \in Times(m)
    PROVE  t \in Nat
BY DEF Times, MessageOK

LEMMA HeardIs ==
    ASSUME Hear, Sound
    PROVE  /\ phase = "recording" /\ now' \in Nat /\ Epoch <= now'
           /\ UNCHANGED <<bag, transport, prefix, opened, playing>>
           /\ \E m : /\ MessageOK(m) /\ heard' = Append(heard, m)
                     /\ bag = <<>> => m.origin \in Producers /\ Record(m)
                     /\ bag # <<>> => \E c \in DOMAIN bag : /\ m.origin = bag[c]
                                                            /\ Put(c, m.log, m)
                                                            /\ UNCHANGED channels
<1>1. phase = "recording" /\ now \in Nat /\ Epoch <= now /\ now' \in now..now + 1
      /\ UNCHANGED <<bag, transport, prefix, opened, playing>>
  BY DEF Hear, Sound
<1>2. now' \in Nat /\ Epoch <= now'
  BY <1>1, Constants
<1>3. ASSUME NEW p, NEW stamp \in StampsAt(p, now')
      PROVE  stamp = None \/ stamp \in Nat
  <2>1. now' - Latency \in Nat
    <3> DEFINE n == now'
    <3>1. n \in Nat /\ Epoch <= n
      BY <1>2
    <3>2. /\ Latency \in Nat /\ SameClock \in Nat /\ Epoch \in Nat
          /\ Latency < SameClock /\ SameClock < Epoch
      BY Constants
    <3> HIDE DEF n
    <3>3. n - Latency \in Nat
      BY <3>1, <3>2
    <3> QED BY <3>3 DEF n
  <2>2. stamp \in (now' - Latency..now') \cup {1} \/ stamp = None
    BY <1>3 DEF StampsAt
  <2> QED BY <1>2, <2>1, <2>2
<1>4. CASE bag = <<>>
  <2>1. PICK p \in Producers : \E stamp \in StampsAt(p, now') :
           LET m == [origin |-> p, stamp |-> stamp, log |-> now']
           IN  heard' = Append(heard, m) /\ Record(m)
    BY <1>4, EmptyIs DEF Hear
  <2>2. PICK stamp \in StampsAt(p, now') :
           LET m == [origin |-> p, stamp |-> stamp, log |-> now']
           IN  heard' = Append(heard, m) /\ Record(m)
    BY <2>1
  <2> DEFINE m == [origin |-> p, stamp |-> stamp, log |-> now']
  <2>3. heard' = Append(heard, m) /\ Record(m) /\ MessageOK(m) /\ m.origin \in Producers
    BY <1>2, <1>3, <1>4, <2>2 DEF MessageOK
  <2> HIDE DEF m
  <2> QED BY <1>1, <1>2, <1>4, <2>3
<1>5. CASE bag # <<>>
  <2>1. PICK c \in DOMAIN bag : \E stamp \in StampsAt(bag[c], now') :
           LET m == [origin |-> bag[c], stamp |-> stamp, log |-> now']
           IN  heard' = Append(heard, m) /\ Put(c, m.log, m) /\ UNCHANGED channels
    BY <1>5 DEF Hear
  <2>2. PICK stamp \in StampsAt(bag[c], now') :
           LET m == [origin |-> bag[c], stamp |-> stamp, log |-> now']
           IN  heard' = Append(heard, m) /\ Put(c, m.log, m) /\ UNCHANGED channels
    BY <2>1
  <2> DEFINE m == [origin |-> bag[c], stamp |-> stamp, log |-> now']
  <2>3. /\ heard' = Append(heard, m) /\ Put(c, m.log, m) /\ UNCHANGED channels
        /\ MessageOK(m) /\ m.origin = bag[c]
    BY <1>2, <1>3, <1>5, <2>2 DEF MessageOK, Range
  <2> HIDE DEF m
  <2> QED BY <1>1, <1>2, <1>5, <2>3
<1> QED BY <1>4, <1>5

LEMMA HearIs ==
    ASSUME Hear, Sound
    PROVE  /\ phase = "recording" /\ now' \in Nat /\ Epoch <= now'
           /\ \E m : MessageOK(m) /\ heard' = Append(heard, m)
           /\ \/ UNCHANGED file
              \/ \E c : \E t \in Times(heard'[Len(heard) + 1]) :
                    file' = Append(file, [channel |-> c, publish |-> t, id |-> Len(heard) + 1])
           /\ UNCHANGED <<bag, transport, prefix, opened, playing>>
<1>1. PICK m : /\ MessageOK(m) /\ heard' = Append(heard, m)
               /\ bag = <<>> => m.origin \in Producers /\ Record(m)
               /\ bag # <<>> => \E c \in DOMAIN bag : /\ m.origin = bag[c] /\ Put(c, m.log, m)
                                                      /\ UNCHANGED channels
  BY HeardIs
<1>2. heard'[Len(heard) + 1] = m
  BY <1>1, AppendIs DEF Sound
<1>3. \A type : PublishTime(type, m) \in Times(m)
  BY DEF PublishTime, Times
<1>4. m.log \in Times(m)
  BY DEF Times
<1>5. \/ UNCHANGED file
      \/ \E c, type : Put(c, PublishTime(type, m), m)
      \/ \E c : Put(c, m.log, m)
  BY <1>1 DEF Record
<1> QED BY <1>1, <1>2, <1>3, <1>4, <1>5, HeardIs DEF Put

LEMMA PlayIs ==
    ASSUME Play, Sound
    PROVE  /\ phase = "playing" /\ position \in 1..Len(file) /\ position' = position + 1
           /\ UNCHANGED <<recorded, opened, pass>>
           /\ \/ UNCHANGED <<base, handed>>
              \/ \E r : /\ handed' = Append(handed, r) /\ r.id = file[position].id
                        /\ \/ r.fate = "unsupported" /\ base' = base
                           \/ /\ r.fate \in {"early", "published"}
                              /\ r.fate = "early" => file[position].publish < base'
                              /\ base' = IF base = None
                                         THEN file[position].publish + player.start
                                         ELSE base
<1> DEFINE m == file[position]
           stream == streams[byTopic[channels[m.channel].topic]]
           r == [id |-> m.id, channel |-> stream.channel,
                 fate |-> Fate(stream.supported, m.publish, base'),
                 from |-> MappedFrom(heard[m.id].stamp, m.publish)]
<1>1. /\ phase = "playing" /\ position \in 1..Len(file) /\ position' = position + 1
      /\ UNCHANGED <<recorded, opened, pass>>
  <2>1. Len(file) \in Nat /\ position \in Nat \ {0}
    BY SeqIs DEF Sound
  <2> QED BY <2>1 DEF Play
<1>2. CASE channels[m.channel].topic \notin DOMAIN byTopic
  BY <1>1, <1>2 DEF Play
<1>3. CASE channels[m.channel].topic \in DOMAIN byTopic
  <2>1. /\ base' = IF stream.supported /\ base = None THEN m.publish + player.start ELSE base
        /\ handed' = Append(handed, r)
    BY <1>3 DEF Play
  <2>2. r.id = m.id /\ r.fate = Fate(stream.supported, m.publish, base')
    OBVIOUS
  <2> HIDE DEF r
  <2>3. CASE stream.supported
    BY <1>1, <2>1, <2>2, <2>3 DEF Fate
  <2>4. CASE ~stream.supported
    BY <1>1, <2>1, <2>2, <2>4 DEF Fate
  <2> QED BY <2>3, <2>4
<1> QED BY <1>2, <1>3

LEMMA SoundStep == Sound /\ [Next]_vars => Sound'
<1> SUFFICES ASSUME Sound, [Next]_vars PROVE Sound'
  OBVIOUS
<1>1. CASE Hear
  <2>1. PICK m : MessageOK(m) /\ heard' = Append(heard, m)
    BY <1>1, HearIs
  <2>2. /\ IsSeq(heard') /\ Len(heard) \in Nat /\ Len(heard') = Len(heard) + 1
        /\ \A i \in 1..Len(heard) : heard'[i] = heard[i]
        /\ heard'[Len(heard) + 1] = m
    BY <2>1, AppendIs DEF Sound
  <2>3. /\ UNCHANGED <<bag, transport, prefix, opened, playing>> /\ now' \in Nat /\ Epoch <= now'
        /\ phase = "recording"
    BY <1>1, HearIs
  <2>4. (\A i \in 1..Len(heard) : MessageOK(heard[i]))'
    <3>1. \A h : MessageOK(h)' <=> MessageOK(h)
      BY <2>3 DEF MessageOK
    <3>2. \A i \in 1..Len(heard') : i \in 1..Len(heard) \/ i = Len(heard) + 1
      BY <2>2
    <3>3. \A i \in 1..Len(heard') : MessageOK(heard'[i])
      BY <2>1, <2>2, <3>2 DEF Sound
    <3> QED BY <3>1, <3>3 DEF MessageOK
  <2>5. /\ IsSeq(file')
        /\ \A n \in 1..Len(file') : /\ file'[n].id \in 1..Len(heard')
                                    /\ file'[n].publish \in Times(heard'[file'[n].id])
    <3>1. \A n \in 1..Len(file) : /\ file[n].id \in 1..Len(heard')
                                  /\ file[n].publish \in Times(heard'[file[n].id])
      BY <2>2 DEF Sound
    <3>2. CASE UNCHANGED file
      BY <3>1, <3>2 DEF Sound
    <3>3. CASE ~UNCHANGED file
      <4>1. PICK c, t : /\ t \in Times(heard'[Len(heard) + 1])
                        /\ file' = Append(file, [channel |-> c, publish |-> t,
                                                 id |-> Len(heard) + 1])
        BY <1>1, <3>3, HearIs
      <4> DEFINE e == [channel |-> c, publish |-> t, id |-> Len(heard) + 1]
      <4>2. e.id = Len(heard) + 1 /\ e.publish = t
        OBVIOUS
      <4> HIDE DEF e
      <4>3. /\ IsSeq(file') /\ Len(file) \in Nat /\ Len(file') = Len(file) + 1
            /\ \A n \in 1..Len(file) : file'[n] = file[n]
            /\ file'[Len(file) + 1] = e
        BY <4>1, AppendIs DEF Sound, e
      <4>4. e.id \in 1..Len(heard') /\ e.publish \in Times(heard'[e.id])
        BY <2>2, <4>1, <4>2
      <4>5. \A n \in 1..Len(file') : n \in 1..Len(file) \/ n = Len(file) + 1
        BY <4>3
      <4> QED BY <3>1, <4>3, <4>4, <4>5
    <3> QED BY <3>2, <3>3
  <2> QED BY <2>2, <2>3, <2>4, <2>5 DEF Sound, opened, playing
<1>2. CASE Open
  <2>1. UNCHANGED <<recorded, playing>> /\ phase = "recording" /\ phase' \in {"refused", "playing"}
    BY <1>2 DEF Open
  <2>2. player'.start \in Nat
    <3>1. PICK start \in Starts : player'.start = start
      BY <1>2 DEF Open
    <3> QED BY <3>1, Constants
  <2> QED BY <2>1, <2>2 DEF Sound, recorded, playing, MessageOK
<1>3. CASE Play
  <2>1. /\ phase = "playing" /\ position' = position + 1 /\ UNCHANGED <<recorded, opened, pass>>
        /\ UNCHANGED handed \/ \E r : handed' = Append(handed, r)
    BY <1>3, PlayIs
  <2>2. IsSeq(handed')
    <3>1. IsSeq(handed) /\ (IsSeq(handed) /\ UNCHANGED handed => IsSeq(handed'))
      BY DEF Sound, IsSeq, Range
    <3>2. ASSUME NEW r, handed' = Append(handed, r) PROVE IsSeq(handed')
      BY <3>1, <3>2, AppendIs
    <3> QED BY <2>1, <3>1, <3>2
  <2> QED BY <2>1, <2>2 DEF Sound, recorded, opened, MessageOK
<1>4. CASE Rewind
  <2>1. /\ phase = "playing" /\ position' = 1 /\ handed' = <<>> /\ UNCHANGED <<recorded, opened>>
    BY <1>4 DEF Rewind
  <2> QED BY <2>1, EmptyIs DEF Sound, recorded, opened, MessageOK
<1>5. CASE UNCHANGED vars
  BY <1>5 DEF Sound, vars, recorded, opened, playing, MessageOK
<1> QED BY <1>1, <1>2, <1>3, <1>4, <1>5 DEF Next

LEMMA InitSound == Init => Sound
<1> SUFFICES ASSUME Init PROVE Sound
  OBVIOUS
<1>1. /\ heard = <<>> /\ file = <<>> /\ handed = <<>> /\ now = Epoch /\ position = 1
      /\ player.start = 0 /\ bag \in Bags \cup {<<>>} /\ transport \in Transports
      /\ prefix \in Namespaces[transport]
      /\ phase = "recording" /\ base = None
  BY DEF Init
<1> QED BY <1>1, EmptyIs, Constants DEF Sound

\* The window begins at the first message with a wire form, whose time is one of
\* those it may have been put down under.
WindowKnown ==
    /\ \A k \in 1..Len(handed) : handed[k].id \in 1..Len(heard)
    /\ base = None => \A k \in 1..Len(handed) : handed[k].fate = "unsupported"
    /\ base # None =>
          \E j \in 1..Len(handed) :
             /\ handed[j].fate # "unsupported"
             /\ \A i \in 1..j - 1 : handed[i].fate = "unsupported"
             /\ \E t \in Times(heard[handed[j].id]) : base = t + player.start
    /\ \A k \in 1..Len(handed) :
          handed[k].fate = "early" => \E t \in Times(heard[handed[k].id]) : t < base

LEMMA WindowStep == Sound /\ WindowKnown /\ [Next]_vars => WindowKnown'
<1> SUFFICES ASSUME Sound, WindowKnown, [Next]_vars PROVE WindowKnown'
  OBVIOUS
<1>1. ASSUME handed' = <<>>, base' = None
      PROVE  WindowKnown'
  BY <1>1, EmptyIs DEF WindowKnown
<1>2. CASE Hear \/ Open \/ Rewind
  <2>1. handed' = <<>> /\ base' = None
    BY <1>2, HearIs DEF Open, Rewind, Sound, playing
  <2> QED BY <1>1, <2>1
<1>3. CASE Play
  <2>1. heard' = heard /\ player' = player /\ position \in 1..Len(file)
    BY <1>3, PlayIs DEF recorded, opened
  <2>2. CASE UNCHANGED <<base, handed>>
    BY <2>1, <2>2 DEF WindowKnown
  <2>3. CASE ~UNCHANGED <<base, handed>>
    <3> DEFINE m == file[position]  n == Len(handed)
    <3>1. PICK r :
             /\ handed' = Append(handed, r) /\ r.id = m.id
             /\ \/ r.fate = "unsupported" /\ base' = base
                \/ /\ r.fate \in {"early", "published"}
                   /\ r.fate = "early" => m.publish < base'
                   /\ base' = IF base = None THEN m.publish + player.start ELSE base
      BY <1>3, <2>3, PlayIs
    <3>2. /\ n \in Nat /\ Len(handed') = n + 1
          /\ \A k \in 1..n : handed'[k] = handed[k]
          /\ handed'[n + 1] = r
      BY <3>1, AppendIs DEF Sound
    <3>3. m.id \in 1..Len(heard) /\ m.publish \in Times(heard[m.id]) /\ m.publish \in Nat
      <4>1. m.id \in 1..Len(heard) /\ m.publish \in Times(heard[m.id])
        BY <2>1 DEF Sound
      <4> QED BY <4>1, TimesIs DEF Sound
    <3>4. player.start \in Nat
      BY DEF Sound
    <3>5. m.publish + player.start # None
      BY <3>3, <3>4 DEF None
    <3> HIDE DEF m, n
    <3>6. base # None => base' = base
      BY <3>1
    <3>7. \A k \in 1..(n + 1) : k \in 1..n \/ k = n + 1
      BY <3>2
    <3>8. \A k \in 1..(n + 1) : handed'[k].id \in 1..Len(heard)
      BY <3>1, <3>2, <3>3, <3>7 DEF WindowKnown, n
    <3>9. base' = None => \A k \in 1..(n + 1) : handed'[k].fate = "unsupported"
      BY <3>1, <3>2, <3>5, <3>6, <3>7 DEF WindowKnown, n
    <3>10. base' # None =>
              \E j \in 1..(n + 1) :
                 /\ handed'[j].fate # "unsupported"
                 /\ \A i \in 1..j - 1 : handed'[i].fate = "unsupported"
                 /\ \E t \in Times(heard[handed'[j].id]) : base' = t + player.start
      <4>1. CASE base = None /\ base' # None
        <5>1. r.fate # "unsupported" /\ base' = m.publish + player.start
          BY <3>1, <4>1
        <5>2. \A i \in 1..n : handed'[i].fate = "unsupported"
          BY <3>2, <4>1 DEF WindowKnown, n
        <5>3. n + 1 \in 1..(n + 1) /\ 1..(n + 1) - 1 = 1..n
          BY <3>2
        <5> QED BY <3>1, <3>2, <3>3, <5>1, <5>2, <5>3
      <4>2. CASE base # None
        <5>1. PICK j \in 1..n :
                 /\ handed[j].fate # "unsupported"
                 /\ \A i \in 1..j - 1 : handed[i].fate = "unsupported"
                 /\ \E t \in Times(heard[handed[j].id]) : base = t + player.start
          BY <4>2 DEF WindowKnown, n
        <5>2. j \in 1..(n + 1) /\ \A i \in 1..j - 1 : i \in 1..n
          BY <3>2
        <5> QED BY <3>2, <3>6, <4>2, <5>1, <5>2
      <4> QED BY <4>1, <4>2
    <3>11. \A k \in 1..(n + 1) :
              handed'[k].fate = "early" => \E t \in Times(heard[handed'[k].id]) : t < base'
      <4>1. ASSUME NEW k \in 1..n, handed[k].fate = "early"
            PROVE  \E t \in Times(heard[handed[k].id]) : t < base'
        BY <3>6, <4>1 DEF WindowKnown, n
      <4>2. r.fate = "early" => \E t \in Times(heard[r.id]) : t < base'
        BY <3>1, <3>3
      <4> QED BY <3>2, <3>7, <4>1, <4>2
    <3> QED BY <2>1, <3>2, <3>8, <3>9, <3>10, <3>11 DEF WindowKnown
  <2> QED BY <2>2, <2>3
<1>4. CASE UNCHANGED vars
  BY <1>4 DEF WindowKnown, vars, recorded, opened, playing
<1> QED BY <1>2, <1>3, <1>4 DEF Next

LEMMA TimelyTimes ==
    ASSUME NEW m, MessageOK(m), Timely(m), NEW t \in Times(m)
    PROVE  t \in Nat /\ m.log \in Nat /\ t <= m.log /\ m.log <= t + Latency
<1>1. m.log \in Nat /\ (m.stamp = None \/ m.stamp \in Nat) /\ Latency \in Nat
  BY Constants DEF MessageOK
<1>2. t = m.log \/ (t = m.stamp /\ m.stamp # None)
  BY DEF Times
<1>3. CASE t = m.log
  BY <1>1, <1>3
<1>4. CASE t = m.stamp /\ m.stamp # None
  BY <1>1, <1>4 DEF Timely
<1> QED BY <1>2, <1>3, <1>4

\* A pass leaves out as too early only what was delivered less than one latency
\* after the window began, though the file is in order of arrival and the window
\* is counted in stamps.
THEOREM OnlyLateLeftOut == Spec => []OnlyLatePassedOver
<1>1. Init => Sound /\ WindowKnown
  <2> SUFFICES ASSUME Init PROVE Sound /\ WindowKnown
    OBVIOUS
  <2>1. handed = <<>> /\ base = None
    BY DEF Init
  <2> QED BY <2>1, InitSound, EmptyIs DEF WindowKnown
<1>2. Sound /\ WindowKnown => OnlyLatePassedOver
  <2> SUFFICES ASSUME Sound, WindowKnown, NEW j \in DOMAIN handed, NEW k \in DOMAIN handed,
                      j < k, handed[j].fate # "unsupported", handed[k].fate = "early",
                      \A i \in 1..j - 1 : handed[i].fate = "unsupported",
                      Timely(heard[handed[j].id]), Timely(heard[handed[k].id])
               PROVE  heard[handed[k].id].log
                         < heard[handed[j].id].log + player.start + Latency
    BY DEF OnlyLatePassedOver
  <2> DEFINE first == heard[handed[j].id]  m == heard[handed[k].id]
  <2>1. j \in 1..Len(handed) /\ k \in 1..Len(handed) /\ Len(handed) \in Nat
    BY SeqIs DEF Sound
  <2>2. MessageOK(first) /\ MessageOK(m)
    BY <2>1 DEF Sound, WindowKnown
  <2>3. PICK h \in 1..Len(handed) :
           /\ handed[h].fate # "unsupported"
           /\ \A i \in 1..h - 1 : handed[i].fate = "unsupported"
           /\ \E t \in Times(heard[handed[h].id]) : base = t + player.start
    BY <2>1 DEF WindowKnown
  <2>4. h = j
    <3>1. ~(h < j)
      <4>1. h < j => h \in 1..j - 1
        BY <2>1, <2>3
      <4> QED BY <2>3, <4>1
    <3>2. ~(j < h)
      <4>1. j < h => j \in 1..h - 1
        BY <2>1, <2>3
      <4> QED BY <2>3, <4>1
    <3> QED BY <2>1, <2>3, <3>1, <3>2
  <2>5. PICK t \in Times(first) : base = t + player.start
    BY <2>3, <2>4
  <2>6. PICK u \in Times(m) : u < base
    BY <2>1 DEF WindowKnown
  <2>7. /\ t \in Nat /\ first.log \in Nat /\ t <= first.log
        /\ u \in Nat /\ m.log \in Nat /\ m.log <= u + Latency
    BY <2>2, <2>5, <2>6, TimelyTimes
  <2>8. player.start \in Nat /\ Latency \in Nat
    BY Constants DEF Sound
  <2> HIDE DEF first, m
  <2>9. m.log < first.log + player.start + Latency
    BY <2>5, <2>6, <2>7, <2>8
  <2> QED BY <2>9 DEF first, m
<1> QED BY <1>1, <1>2, SoundStep, WindowStep, PTL DEF Spec

-----------------------------------------------------------------------------
(* Names on their way to a channel, into a file and back *)

Text == Seq(Fragments)

LEMMA Marks == {"/", "#", ".", "dimos", "msgs"} \subseteq Fragments
BY McapAssumption

LEMMA MaxIs ==
    ASSUME NEW S, NEW m \in S, S \subseteq Nat, \A y \in S : y <= m
    PROVE  Max(S) = m
<1>1. \A x \in S : (\A y \in S : x >= y) => x = m
  BY SMT
<1>2. \A y \in S : m >= y
  BY SMT
<1> QED BY <1>1, <1>2 DEF Max

LEMMA MaxIn ==
    ASSUME NEW N \in Nat, NEW S, S \subseteq 1..N, S # {}
    PROVE  Max(S) \in S /\ \A y \in S : y <= Max(S)
<1> DEFINE D == {N - x : x \in S}
<1>1. D \subseteq Nat /\ D # {}
  OBVIOUS
<1>2. PICK d \in D : \A e \in D : ~(<<e, d>> \in OpToRel(<, Nat))
  <2> HIDE DEF D
  <2> QED BY <1>1, WFMin, NatLessThanWellFounded
<1>3. PICK m \in S : d = N - m
  OBVIOUS
<1>4. ASSUME NEW y \in S PROVE y <= m
  <2>1. N - y \in D /\ N - y \in Nat /\ d \in Nat
    BY <1>1
  <2>2. ~(N - y < d)
    BY <1>2, <2>1 DEF OpToRel
  <2>3. y \in Nat /\ m \in Nat
    BY <1>3
  <2> HIDE DEF D
  <2> QED BY <1>3, <2>2, <2>3
<1>5. S \subseteq Nat
  OBVIOUS
<1> QED BY <1>3, <1>4, <1>5, MaxIs

LEMMA MinIs ==
    ASSUME NEW S, NEW m \in S, S \subseteq Nat, \A y \in S : m <= y
    PROVE  Min(S) = m
<1>1. \A x \in S : (\A y \in S : x =< y) => x = m
  BY SMT
<1> QED BY <1>1 DEF Min

LEMMA PrefixIs ==
    ASSUME NEW S, NEW s \in Seq(S), NEW t \in Seq(S)
    PROVE  IsPrefix(s, t) <=> Len(s) <= Len(t) /\ \A i \in 1..Len(s) : s[i] = t[i]
<1> DEFINE n == Len(s)
<1>1. n \in Nat /\ Len(t) \in Nat
  OBVIOUS
<1>2. SubSeq(s, 1, n) = [i \in 1..n |-> s[i]]
  BY <1>1
<1>3. n <= Len(t) => SubSeq(t, 1, n) = [i \in 1..n |-> t[i]]
  BY <1>1
<1> QED BY <1>1, <1>2, <1>3 DEF IsPrefix

LEMMA JoinJoin ==
    ASSUME NEW s \in Text, NEW t \in Text, NEW u \in Text
    PROVE  (s \o t) \o u = s \o (t \o u)
BY ConcatAssociative DEF Text

LEMMA OneAndThree ==
    ASSUME NEW x, NEW a, NEW b, NEW c
    PROVE  <<x>> \o <<a, b, c>> = <<x, a, b, c>>
<1> DEFINE S == {x, a, b, c}  s == <<x>>  t == <<a, b, c>>  u == <<x, a, b, c>>
<1>1. s \in Seq(S) /\ t \in Seq(S) /\ u \in Seq(S) /\ Len(s) = 1 /\ Len(t) = 3 /\ Len(u) = 4
  OBVIOUS
<1>2. s \o t \in Seq(S) /\ Len(s \o t) = 4
  BY <1>1
<1>3. (s \o t)[1] = x /\ (s \o t)[2] = a /\ (s \o t)[3] = b /\ (s \o t)[4] = c
  BY <1>1
<1>4. \A i \in 1..4 : (s \o t)[i] = u[i]
  BY <1>3
<1> HIDE DEF s, t, u, S
<1>5. s \o t = u
  BY <1>1, <1>2, <1>4, SeqEqual
<1> QED BY <1>5 DEF s, t, u

LEMMA OneOf ==
    ASSUME NEW S, NEW s \in Seq(S), NEW m \in 1..Len(s)
    PROVE  SubSeq(s, m, m) = <<s[m]>>
<1> DEFINE t == SubSeq(s, m, m)  u == <<s[m]>>
<1>1. t \in Seq(S) /\ Len(t) = 1 /\ t[1] = s[m]
  OBVIOUS
<1>2. u \in Seq(S) /\ Len(u) = 1 /\ u[1] = s[m]
  OBVIOUS
<1> HIDE DEF t, u
<1>3. \A i \in 1..1 : t[i] = u[i]
  BY <1>1, <1>2
<1>4. t = u
  BY <1>1, <1>2, <1>3, SeqEqual
<1> QED BY <1>4 DEF t, u

LEMMA FirstThree ==
    ASSUME NEW S, NEW s \in Seq(S), Len(s) >= 3
    PROVE  SubSeq(s, 1, 3) = <<s[1], s[2], s[3]>>
<1> DEFINE t == SubSeq(s, 1, 3)  u == <<s[1], s[2], s[3]>>
<1>1. t \in Seq(S) /\ Len(t) = 3 /\ t[1] = s[1] /\ t[2] = s[2] /\ t[3] = s[3]
  OBVIOUS
<1>2. u \in Seq(S) /\ Len(u) = 3 /\ u[1] = s[1] /\ u[2] = s[2] /\ u[3] = s[3]
  OBVIOUS
<1> HIDE DEF t, u
<1>3. \A i \in 1..3 : t[i] = u[i]
  BY <1>1, <1>2
<1>4. t = u
  BY <1>1, <1>2, <1>3, SeqEqual
<1> QED BY <1>4 DEF t, u

LEMMA JoinIs ==
    ASSUME NEW S, NEW s \in Seq(S), NEW t \in Seq(S)
    PROVE  /\ s \o t \in Seq(S) /\ Len(s \o t) = Len(s) + Len(t)
           /\ \A i \in 1..Len(s) : (s \o t)[i] = s[i]
           /\ \A i \in 1..Len(t) : (s \o t)[Len(s) + i] = t[i]
           /\ After(Len(s), s \o t) = t
           /\ SubSeq(s \o t, 1, Len(s)) = s
           /\ IsPrefix(s, s \o t)
<1> DEFINE u == s \o t
<1>1. /\ u \in Seq(S) /\ Len(u) = Len(s) + Len(t) /\ Len(s) \in Nat /\ Len(t) \in Nat
      /\ \A i \in 1..Len(s) : u[i] = s[i]
      /\ \A i \in 1..Len(t) : u[Len(s) + i] = t[i]
  OBVIOUS
<1> HIDE DEF u
<1>2. SubSeq(u, Len(s) + 1, Len(u)) = t
  <2> DEFINE v == SubSeq(u, Len(s) + 1, Len(u))
  <2>1. v = [i \in 1..Len(t) |-> u[Len(s) + i]]
    BY <1>1
  <2>2. t = [i \in 1..Len(t) |-> t[i]]
    OBVIOUS
  <2> QED BY <1>1, <2>1, <2>2
<1>3. SubSeq(u, 1, Len(s)) = s
  <2>1. SubSeq(u, 1, Len(s)) = [i \in 1..Len(s) |-> u[i]]
    BY <1>1
  <2>2. s = [i \in 1..Len(s) |-> s[i]]
    OBVIOUS
  <2> QED BY <1>1, <2>1, <2>2
<1>4. IsPrefix(s, u)
  BY <1>1, PrefixIs
<1> QED BY <1>1, <1>2, <1>3, <1>4 DEF u, After

LEMMA WithoutStart ==
    ASSUME NEW S, NEW s \in Seq(S), NEW t \in Seq(S)
    PROVE  Without(s, s \o t) = t
BY JoinIs DEF Without

LEMMA AfterJoin ==
    ASSUME NEW s \in Text, NEW t \in Text
    PROVE  /\ s \o t \in Text /\ Len(s \o t) = Len(s) + Len(t)
           /\ \A i \in 1..Len(s) : (s \o t)[i] = s[i]
           /\ \A i \in 1..Len(t) : (s \o t)[Len(s) + i] = t[i]
           /\ After(Len(s), s \o t) = t
           /\ SubSeq(s \o t, 1, Len(s)) = s
           /\ Without(s, s \o t) = t
BY JoinIs, WithoutStart DEF Text

LEMMA WithoutOther ==
    ASSUME NEW s \in Text, NEW t \in Text, s # <<>>, t # <<>>, s[1] # t[1]
    PROVE  Without(s, t) = t /\ ~IsPrefix(s, t)
<1>1. 1 \in 1..Len(s)
  BY DEF Text
<1>2. ~IsPrefix(s, t)
  BY <1>1, PrefixIs DEF Text
<1> QED BY <1>2 DEF Without

LEMMA MsgNameIs ==
    ASSUME NEW type, IsMsgName(type)
    PROVE  \E a, b : /\ type = <<a, ".", b>>
                     /\ {a, b} \cap {"/", "#", "::", ".", "_", "msg", "dds_"} = {}
BY DEF IsMsgName

\* split_channel undoes sink::name: the separator before the type is the last
\* one of the channel.
LEMMA SplitIs ==
    ASSUME NEW tr \in Transports, NEW p, IsProducer(p), NEW ns \in Text,
           NEW pre \in {<<>>, ns}, pre # ns => p.name[1] # ns[1],
           p.type # <<>> \/ Places(Separator(tr), p.name) = {}
    PROVE  SplitChannel(ChannelOf(p.name, p.type, pre, Separator(tr)), ns, Separator(tr))
              = [stream |-> p.name, type |-> p.type]
<1> DEFINE sep == Separator(tr)
           suffix == IF p.type = <<>> THEN <<>> ELSE <<sep>> \o p.type
           channel == ChannelOf(p.name, p.type, pre, sep)
           rest == p.name \o suffix
<1>1. /\ p.name \in Text /\ p.name # <<>> /\ p.name[1] # "/" /\ p.type \in Text
      /\ p.type # <<>> => IsMsgName(p.type)
  <2>1. <<>> \in Text
    BY DEF Text
  <2> QED BY <2>1 DEF IsProducer, Text
<1>2. sep \in {"#", "/"}
  BY DEF Separator
<1>3. suffix \in Text /\ pre \in Text
  <2>1. <<>> \in Text /\ <<sep>> \in Text
    BY <1>2, Marks DEF Text
  <2> QED BY <1>1, <1>2, <2>1, AfterJoin
<1> HIDE DEF sep, suffix, rest
<1>4. rest \in Text /\ rest # <<>> /\ rest[1] = p.name[1]
  <2>1. 1 \in 1..Len(p.name)
    BY <1>1 DEF Text
  <2>2. rest \in Text /\ Len(rest) = Len(p.name) + Len(suffix) /\ rest[1] = p.name[1]
    BY <1>1, <1>3, <2>1, AfterJoin DEF rest
  <2>3. Len(suffix) \in Nat /\ Len(p.name) \in Nat /\ 1 <= Len(p.name)
    BY <1>1, <1>3, <2>1 DEF Text
  <2>4. rest # <<>>
    BY <2>2, <2>3
  <2> QED BY <2>2, <2>4
<1>5. channel = pre \o rest
  <2>1. channel = pre \o p.name \o suffix
    BY DEF ChannelOf, suffix, sep
  <2>2. (pre \o p.name) \o suffix = pre \o (p.name \o suffix)
    BY <1>1, <1>3, JoinJoin
  <2> HIDE DEF channel
  <2> QED BY <2>1, <2>2 DEF rest
<1>6. Without(ns, channel) = rest
  <2>1. CASE pre = ns
    BY <1>4, <1>5, <2>1, AfterJoin
  <2>2. CASE pre # ns
    <3>1. channel = rest
      BY <1>4, <1>5, <2>2 DEF Text
    <3>2. ns # <<>> /\ ns[1] # rest[1]
      BY <1>4, <2>2
    <3> QED BY <1>4, <3>1, <3>2, WithoutOther
  <2> QED BY <2>1, <2>2
<1>7. Without(<<"/">>, rest) = rest
  <2>1. <<"/">> \in Text /\ <<"/">> # <<>> /\ <<"/">>[1] = "/"
    BY Marks DEF Text
  <2> QED BY <1>1, <1>4, <2>1, WithoutOther
<1> DEFINE marks == Places(sep, rest)
<1>8. SplitChannel(channel, ns, sep)
         = IF marks = {} THEN [stream |-> rest, type |-> <<>>]
           ELSE [stream |-> SubSeq(rest, 1, Max(marks) - 1), type |-> After(Max(marks), rest)]
  BY <1>6, <1>7 DEF SplitChannel
<1>9. CASE p.type = <<>>
  <2>1. rest = p.name
    BY <1>1, <1>9 DEF rest, suffix, Text
  <2>2. marks = {}
    BY <1>9, <2>1 DEF sep
  <2> QED BY <1>8, <1>9, <2>1, <2>2 DEF sep
<1>10. CASE p.type # <<>>
  <2> DEFINE n == Len(p.name)
  <2>1. PICK a, b : /\ p.type = <<a, ".", b>>
                    /\ {a, b} \cap {"/", "#", "::", ".", "_", "msg", "dds_"} = {}
    BY <1>1, <1>10, MsgNameIs
  <2>2. suffix = <<sep, a, ".", b>>
    <3>1. suffix = <<sep>> \o <<a, ".", b>>
      BY <1>10, <2>1 DEF suffix
    <3> QED BY <3>1, OneAndThree
  <2>3. /\ n \in Nat /\ Len(rest) = n + 4
        /\ \A i \in 1..4 : rest[n + i] = suffix[i]
    BY <1>1, <1>3, <2>2, AfterJoin DEF rest, Text
  <2>4. rest[n + 1] = sep /\ rest[n + 2] # sep /\ rest[n + 3] # sep /\ rest[n + 4] # sep
    <3>1. suffix[1] = sep /\ suffix[2] = a /\ suffix[3] = "." /\ suffix[4] = b
      BY <2>2
    <3>2. sep # a /\ sep # b /\ sep # "."
      BY <1>2, <2>1
    <3> QED BY <2>3, <3>1, <3>2
  <2>5. marks \subseteq Nat /\ n + 1 \in marks /\ \A k \in marks : k <= n + 1
    <3>1. \A k \in 1..Len(rest) : k <= n + 1 \/ k = n + 2 \/ k = n + 3 \/ k = n + 4
      BY <2>3, SMTT(30)
    <3> QED BY <2>3, <2>4, <3>1 DEF Places
  <2>6. Max(marks) = n + 1
    <3> HIDE DEF marks
    <3> QED BY <2>5, MaxIs
  <2>7. SubSeq(rest, 1, n) = p.name
    BY <1>1, <1>3, AfterJoin DEF rest
  <2>8. After(n + 1, rest) = p.type
    <3>1. <<sep>> \in Text /\ Len(<<sep>>) = 1
      BY <1>2, Marks DEF Text
    <3>2. rest = (p.name \o <<sep>>) \o p.type
      BY <1>1, <1>10, <3>1, JoinJoin DEF rest, suffix
    <3>3. p.name \o <<sep>> \in Text /\ Len(p.name \o <<sep>>) = n + 1
      BY <1>1, <3>1, AfterJoin
    <3> DEFINE s == p.name \o <<sep>>
    <3> HIDE DEF s
    <3>4. After(Len(s), s \o p.type) = p.type
      BY <1>1, <3>3, AfterJoin DEF s
    <3> QED BY <3>2, <3>3, <3>4 DEF s
  <2>9. Max(marks) - 1 = n
    BY <2>3, <2>6
  <2> QED BY <1>8, <2>5, <2>6, <2>7, <2>8, <2>9 DEF sep
<1> QED BY <1>9, <1>10

\* msg_name_from_payload_module undoes payload_module.
LEMMA PayloadBack ==
    ASSUME NEW type, type = <<>> \/ IsMsgName(type)
    PROVE  MsgNameFromPayloadModule(PayloadModule(type)) = type
<1>1. CASE type = <<>>
  <2>1. Places(".", <<>>) = {}
    BY EmptyIs DEF Places
  <2>2. PayloadModule(<<>>) = <<>>
    BY <2>1 DEF PayloadModule
  <2>3. Without(DimosMsgs, <<>>) = <<>>
    <3>1. Len(DimosMsgs) = 4
      BY DEF DimosMsgs
    <3> QED BY <3>1, EmptyIs DEF Without, IsPrefix
  <2> QED BY <1>1, <2>1, <2>2, <2>3 DEF MsgNameFromPayloadModule
<1>2. CASE IsMsgName(type)
  <2>1. PICK a, b : /\ type = <<a, ".", b>>
                    /\ {a, b} \cap {"/", "#", "::", ".", "_", "msg", "dds_"} = {}
    BY <1>2, MsgNameIs
  <2> DEFINE T == {a, b, ".", "dimos", "msgs"}  path == <<a, ".", b, ".", b>>
  <2>2. a # "." /\ b # "."
    BY <2>1
  <2>3. PayloadModule(type) = DimosMsgs \o path
    <3>1. Len(type) = 3 /\ type[1] = a /\ type[2] = "." /\ type[3] = b /\ type \in Seq(T)
      BY <2>1
    <3>2. Places(".", type) = {2}
      BY <2>2, <3>1 DEF Places
    <3>3. After(2, type) = <<b>>
      <4>1. SubSeq(type, 3, 3) = <<type[3]>>
        BY <3>1, OneOf
      <4> QED BY <3>1, <4>1 DEF After
    <3>4. Max({2}) = 2
      BY MaxIs
    <3>5. PayloadModule(type) = DimosMsgs \o type \o <<".">> \o <<b>>
      <4>1. <<b>> # <<>>
        OBVIOUS
      <4> QED BY <3>2, <3>3, <3>4, <4>1 DEF PayloadModule
    <3> QED BY <2>1, <3>5 DEF DimosMsgs
  <2>4. Len(path) = 5 /\ path \in Seq(T) /\ DimosMsgs \in Seq(T)
    BY DEF DimosMsgs
  <2>5. path[1] = a /\ path[2] = "." /\ path[3] = b /\ path[4] = "." /\ path[5] = b
    OBVIOUS
  <2> HIDE DEF path, T
  <2>6. Without(DimosMsgs, DimosMsgs \o path) = path
    BY <2>4, WithoutStart
  <2>7. Places(".", path) = {2, 4}
    <3>1. \A k \in 1..5 : k = 1 \/ k = 2 \/ k = 3 \/ k = 4 \/ k = 5
      OBVIOUS
    <3> QED BY <2>2, <2>4, <2>5, <3>1 DEF Places
  <2>8. Max({2, 4}) = 4
    BY MaxIs
  <2>9. After(4, path) = <<b>>
    <3>1. SubSeq(path, 5, 5) = <<path[5]>>
      BY <2>4, OneOf
    <3> QED BY <2>4, <2>5, <3>1 DEF After
  <2>10. SubSeq(path, 1, 4 - 1) = <<a, ".", b>>
    <3>1. SubSeq(path, 1, 3) = <<path[1], path[2], path[3]>>
      BY <2>4, FirstThree, SMTT(30)
    <3> QED BY <2>5, <3>1
  <2>11. IsSuffix(<<b>>, <<a, ".", b>>)
    BY DEF IsSuffix, IsPrefix, Reverse
  <2> QED BY <2>1, <2>3, <2>6, <2>7, <2>8, <2>9, <2>10, <2>11 DEF MsgNameFromPayloadModule
<1> QED BY <1>1, <1>2

LEMMA PartIs ==
    ASSUME NEW s, NEW x, NEW y \in Cuts(s), Cuts(s) \subseteq Nat, x \in Nat, x < y,
           \A c \in Cuts(s) : c <= x \/ y <= c
    PROVE  Part(s, x) = SubSeq(s, x + 1, y - 1)
<1> DEFINE S == {c \in Cuts(s) : c > x}
<1>1. y \in S /\ S \subseteq Nat /\ \A c \in S : y <= c
  BY SMT
<1> HIDE DEF S
<1>2. Min(S) = y
  BY <1>1, MinIs
<1> QED BY <1>2 DEF Part, S

LEMMA ThreeJoined ==
    ASSUME NEW a, NEW b
    PROVE  <<a>> \o <<".">> \o <<b>> = <<a, ".", b>>
<1> DEFINE S == {a, b, "."}  t == <<a>> \o <<".">> \o <<b>>  u == <<a, ".", b>>
<1>1. t \in Seq(S) /\ Len(t) = 3 /\ t[1] = a /\ t[2] = "." /\ t[3] = b
  OBVIOUS
<1>2. u \in Seq(S) /\ Len(u) = 3 /\ u[1] = a /\ u[2] = "." /\ u[3] = b
  OBVIOUS
<1> HIDE DEF t, u
<1>3. \A i \in 1..3 : t[i] = u[i]
  BY <1>1, <1>2
<1>4. t = u
  BY <1>1, <1>2, <1>3, SeqEqual
<1> QED BY <1>4 DEF t, u

LEMMA TwoOf ==
    ASSUME NEW S, NEW s \in Seq(S), NEW m \in Nat, 0 < m, m + 1 <= Len(s)
    PROVE  SubSeq(s, m, m + 1) = <<s[m], s[m + 1]>>
<1> DEFINE t == SubSeq(s, m, m + 1)  u == <<s[m], s[m + 1]>>
<1>1. s[m] \in S /\ s[m + 1] \in S
  OBVIOUS
<1>2. t \in Seq(S) /\ Len(t) = 2 /\ t[1] = s[m] /\ t[2] = s[m + 1]
  OBVIOUS
<1>3. u \in Seq(S) /\ Len(u) = 2 /\ u[1] = s[m] /\ u[2] = s[m + 1]
  BY <1>1
<1> HIDE DEF t, u
<1>4. \A i \in 1..2 : t[i] = u[i]
  BY <1>2, <1>3
<1>5. t = u
  BY <1>2, <1>3, <1>4, SeqEqual
<1> QED BY <1>5 DEF t, u

\* A name of one fragment loses nothing to the trimming, and a mark behind it goes.
LEMMA TrimmedIs ==
    ASSUME NEW S, NEW s \in Seq(S), NEW mark, s[1] # mark,
           Len(s) = 1 \/ (Len(s) = 2 /\ s[2] = mark)
    PROVE  Trimmed(mark, s) = <<s[1]>>
<1> DEFINE K == {0} \cup {k \in 1..Len(s) : s[k] # mark}
<1>1. 1 \in K /\ K \subseteq Nat /\ \A k \in K : k <= 1
  OBVIOUS
<1> HIDE DEF K
<1>2. Max(K) = 1
  BY <1>1, MaxIs
<1>3. 1 \in 1..Len(s)
  OBVIOUS
<1>4. SubSeq(s, 1, 1) = <<s[1]>>
  BY <1>3, OneOf
<1> QED BY <1>2, <1>4 DEF Trimmed, K

LEMMA TrimmedOne ==
    ASSUME NEW b, NEW mark, b # mark
    PROVE  Trimmed(mark, <<b>>) = <<b>>
<1> DEFINE q == <<b>>
<1>1. q \in Seq({b, mark}) /\ Len(q) = 1 /\ q[1] = b
  OBVIOUS
<1> HIDE DEF q
<1>2. q[1] # mark
  BY <1>1
<1>3. Trimmed(mark, q) = <<q[1]>>
  BY <1>1, <1>2, TrimmedIs
<1> QED BY <1>1, <1>3 DEF q

LEMMA FirstAndOther ==
    ASSUME NEW P, NEW x \in Nat, x # 0, P = {0, x}
    PROVE  P # {} /\ P \ {0} # {} /\ Min(P) = 0 /\ Min(P \ {0}) = x
<1>1. 0 \in P /\ P \subseteq Nat /\ P # {} /\ \A y \in P : 0 <= y
  OBVIOUS
<1> DEFINE Q == P \ {0}
<1>2. x \in Q /\ Q \subseteq Nat /\ Q # {} /\ \A y \in Q : x <= y
  OBVIOUS
<1> HIDE DEF Q
<1>3. Min(P) = 0
  BY <1>1, MinIs
<1>4. Min(Q) = x
  BY <1>2, MinIs
<1> QED BY <1>1, <1>2, <1>3, <1>4 DEF Q

\* With two parts kept, the first is the package and the second the kind.
LEMMA TwoParts ==
    ASSUME NEW s, NEW x \in Nat, x # 0, NEW a, NEW b,
           PartsKept(s) = {0, x}, Part(s, 0) = <<a>>, Trimmed("_", Part(s, x)) = <<b>>
    PROVE  MsgNameFromSchema(s) = <<a, ".", b>>
<1> DEFINE P == PartsKept(s)
<1>1. P # {} /\ P \ {0} # {} /\ Min(P) = 0 /\ Min(P \ {0}) = x
  BY FirstAndOther
<1>2. MsgNameFromSchema(s) = <<a>> \o <<".">> \o <<b>>
  BY <1>1, Zenon DEF MsgNameFromSchema
<1> QED BY <1>2, ThreeJoined

\* What schema names are cut at, what is dropped from them, and a package and a
\* kind that are none of it.
Spelling(a, b, slash, colons, msg, dds, line) ==
    /\ a # slash /\ a # colons /\ a # msg /\ a # dds
    /\ b # slash /\ b # colons /\ b # msg /\ b # dds /\ b # line
    /\ msg # slash /\ dds # slash /\ line # slash
    /\ msg # colons /\ dds # colons /\ line # colons /\ slash # colons
    /\ \A u : /\ Cuts(u) = {0, Len(u) + 1} \cup Places(slash, u) \cup Places(colons, u)
              /\ PartsKept(u) = {x \in Cuts(u) \ {Len(u) + 1} :
                                    Part(u, x) \notin {<<msg>>, <<dds>>}}

\* Two parts of a name are kept, as package and kind.
KeptAs(s, a, b, line) ==
    \E x \in Nat : /\ x # 0 /\ PartsKept(s) = {0, x}
                   /\ Part(s, 0) = <<a>> /\ Trimmed(line, Part(s, x)) = <<b>>

LEMMA OtherFragment == \A x, m, d : x # m /\ x # d => <<x>> \notin {<<m>>, <<d>>}
<1>1. \A x, y : <<x>> = <<y>> => x = y
  OBVIOUS
<1> QED BY <1>1, Zenon

\* As schema_name spells it.
LEMMA SlashSpelled ==
    ASSUME NEW a, NEW b, NEW slash, NEW colons, NEW msg, NEW dds, NEW line,
           Spelling(a, b, slash, colons, msg, dds, line)
    PROVE  KeptAs(<<a, slash, msg, slash, b>>, a, b, line)
<1> DEFINE S == {a, b, slash, colons, msg, dds, line}  s == <<a, slash, msg, slash, b>>
<1>1. /\ s \in Seq(S) /\ Len(s) = 5
      /\ s[1] = a /\ s[2] = slash /\ s[3] = msg /\ s[4] = slash /\ s[5] = b
  OBVIOUS
<1> HIDE DEF s, S
<1>2. \A k \in 1..5 : k = 1 \/ k = 2 \/ k = 3 \/ k = 4 \/ k = 5
  OBVIOUS
<1>3. Places(slash, s) = {2, 4}
  BY <1>1, <1>2 DEF Places, Spelling
<1>4. Places(colons, s) = {}
  BY <1>1, <1>2 DEF Places, Spelling
<1>5. Cuts(s) = {0, 2, 4, 6}
  <2>1. Cuts(s) = {0, Len(s) + 1} \cup Places(slash, s) \cup Places(colons, s)
    BY DEF Spelling
  <2> QED BY <1>1, <1>3, <1>4, <2>1
<1>6. /\ 0 \in Nat /\ 2 \in Nat /\ 4 \in Nat /\ 0 < 2 /\ 2 < 4 /\ 4 < 6
      /\ 2 \in Cuts(s) /\ 4 \in Cuts(s) /\ 6 \in Cuts(s) /\ Cuts(s) \subseteq Nat
  BY <1>5
<1>7. \A c \in Cuts(s) : c = 0 \/ c = 2 \/ c = 4 \/ c = 6
  BY <1>5
<1>8. /\ \A c \in Cuts(s) : c <= 0 \/ 2 <= c
      /\ \A c \in Cuts(s) : c <= 2 \/ 4 <= c
      /\ \A c \in Cuts(s) : c <= 4 \/ 6 <= c
  BY <1>7
<1>9. Part(s, 0) = SubSeq(s, 0 + 1, 2 - 1)
  BY <1>6, <1>8, PartIs, Zenon
<1>10. Part(s, 2) = SubSeq(s, 2 + 1, 4 - 1)
  BY <1>6, <1>8, PartIs, Zenon
<1>11. Part(s, 4) = SubSeq(s, 4 + 1, 6 - 1)
  BY <1>6, <1>8, PartIs, Zenon
<1>12. SubSeq(s, 1, 1) = <<s[1]>> /\ SubSeq(s, 3, 3) = <<s[3]>> /\ SubSeq(s, 5, 5) = <<s[5]>>
  <2>1. 1 \in 1..Len(s) /\ 3 \in 1..Len(s) /\ 5 \in 1..Len(s)
    BY <1>1
  <2> QED BY <1>1, <2>1, OneOf
<1>13. Part(s, 0) = <<a>> /\ Part(s, 2) = <<msg>> /\ Part(s, 4) = <<b>>
  BY <1>1, <1>9, <1>10, <1>11, <1>12
<1>14. Part(s, 0) \notin {<<msg>>, <<dds>>} /\ Part(s, 4) \notin {<<msg>>, <<dds>>}
  BY <1>13, OtherFragment, Zenon DEF Spelling
<1>15. PartsKept(s) = {0, 4}
  <2>1. Cuts(s) \ {Len(s) + 1} = {0, 2, 4}
    BY <1>1, <1>5
  <2>2. PartsKept(s) = {x \in Cuts(s) \ {Len(s) + 1} : Part(s, x) \notin {<<msg>>, <<dds>>}}
    BY Zenon DEF Spelling
  <2> QED BY <1>13, <1>14, <2>1, <2>2
<1>16. Trimmed(line, <<b>>) = <<b>>
  BY TrimmedOne, Zenon DEF Spelling
<1>17. 4 \in Nat /\ 4 # 0
  OBVIOUS
<1> QED BY <1>13, <1>15, <1>16, <1>17, Zenon DEF KeptAs, s

\* As the IDL does.
LEMMA ColonsSpelled ==
    ASSUME NEW a, NEW b, NEW slash, NEW colons, NEW msg, NEW dds, NEW line,
           Spelling(a, b, slash, colons, msg, dds, line)
    PROVE  KeptAs(<<a, colons, msg, colons, dds, colons, b, line>>, a, b, line)
<1> DEFINE S == {a, b, slash, colons, msg, dds, line}
           s == <<a, colons, msg, colons, dds, colons, b, line>>
<1>1. /\ s \in Seq(S) /\ Len(s) = 8
      /\ s[1] = a /\ s[2] = colons /\ s[3] = msg /\ s[4] = colons
      /\ s[5] = dds /\ s[6] = colons /\ s[7] = b /\ s[8] = line
  OBVIOUS
<1> HIDE DEF s, S
<1>2. \A k \in 1..8 : \/ k = 1 \/ k = 2 \/ k = 3 \/ k = 4
                      \/ k = 5 \/ k = 6 \/ k = 7 \/ k = 8
  OBVIOUS
<1>3. Places(colons, s) = {2, 4, 6}
  BY <1>1, <1>2 DEF Places, Spelling
<1>4. Places(slash, s) = {}
  BY <1>1, <1>2 DEF Places, Spelling
<1>5. Cuts(s) = {0, 2, 4, 6, 9}
  <2>1. Cuts(s) = {0, Len(s) + 1} \cup Places(slash, s) \cup Places(colons, s)
    BY DEF Spelling
  <2> QED BY <1>1, <1>3, <1>4, <2>1
<1>6. /\ 0 \in Nat /\ 2 \in Nat /\ 4 \in Nat /\ 6 \in Nat /\ 0 < 2 /\ 2 < 4 /\ 4 < 6 /\ 6 < 9
      /\ 2 \in Cuts(s) /\ 4 \in Cuts(s) /\ 6 \in Cuts(s) /\ 9 \in Cuts(s)
      /\ Cuts(s) \subseteq Nat
  BY <1>5
<1>7. \A c \in Cuts(s) : c = 0 \/ c = 2 \/ c = 4 \/ c = 6 \/ c = 9
  BY <1>5
<1>8. /\ \A c \in Cuts(s) : c <= 0 \/ 2 <= c
      /\ \A c \in Cuts(s) : c <= 2 \/ 4 <= c
      /\ \A c \in Cuts(s) : c <= 4 \/ 6 <= c
      /\ \A c \in Cuts(s) : c <= 6 \/ 9 <= c
  BY <1>7
<1>9. Part(s, 0) = SubSeq(s, 0 + 1, 2 - 1)
  BY <1>6, <1>8, PartIs, Zenon
<1>10. Part(s, 2) = SubSeq(s, 2 + 1, 4 - 1)
  BY <1>6, <1>8, PartIs, Zenon
<1>11. Part(s, 4) = SubSeq(s, 4 + 1, 6 - 1)
  BY <1>6, <1>8, PartIs, Zenon
<1>12. Part(s, 6) = SubSeq(s, 6 + 1, 9 - 1)
  BY <1>6, <1>8, PartIs, Zenon
<1>13. /\ SubSeq(s, 1, 1) = <<s[1]>> /\ SubSeq(s, 3, 3) = <<s[3]>> /\ SubSeq(s, 5, 5) = <<s[5]>>
       /\ SubSeq(s, 7, 7 + 1) = <<s[7], s[7 + 1]>>
  <2>1. 1 \in 1..Len(s) /\ 3 \in 1..Len(s) /\ 5 \in 1..Len(s)
    BY <1>1
  <2>2. 7 \in Nat /\ 0 < 7 /\ 7 + 1 <= Len(s)
    BY <1>1
  <2> QED BY <1>1, <2>1, <2>2, OneOf, TwoOf, Zenon
<1>14. /\ Part(s, 0) = <<a>> /\ Part(s, 2) = <<msg>> /\ Part(s, 4) = <<dds>>
       /\ Part(s, 6) = <<b, line>>
  BY <1>1, <1>9, <1>10, <1>11, <1>12, <1>13
<1>15. Part(s, 0) \notin {<<msg>>, <<dds>>} /\ Part(s, 6) \notin {<<msg>>, <<dds>>}
  <2>1. \A x : <<b, line>> # <<x>>
    OBVIOUS
  <2> QED BY <1>14, <2>1, OtherFragment, Zenon DEF Spelling
<1>16. PartsKept(s) = {0, 6}
  <2>1. Cuts(s) \ {Len(s) + 1} = {0, 2, 4, 6}
    BY <1>1, <1>5
  <2>2. PartsKept(s) = {x \in Cuts(s) \ {Len(s) + 1} : Part(s, x) \notin {<<msg>>, <<dds>>}}
    BY Zenon DEF Spelling
  <2> QED BY <1>14, <1>15, <2>1, <2>2
<1>17. Trimmed(line, <<b, line>>) = <<b>>
  <2> DEFINE q == <<b, line>>
  <2>1. q \in Seq({b, line}) /\ Len(q) = 2 /\ q[1] = b /\ q[2] = line
    OBVIOUS
  <2> HIDE DEF q
  <2>2. q[1] # line
    BY <2>1 DEF Spelling
  <2>3. Trimmed(line, q) = <<q[1]>>
    BY <2>1, <2>2, TrimmedIs
  <2> QED BY <2>1, <2>3 DEF q
<1>18. 6 \in Nat /\ 6 # 0
  OBVIOUS
<1> QED BY <1>14, <1>16, <1>17, <1>18, Zenon DEF KeptAs, s

LEMMA NameKept ==
    ASSUME NEW s, NEW a, NEW b, KeptAs(s, a, b, "_")
    PROVE  MsgNameFromSchema(s) = <<a, ".", b>>
BY TwoParts, Zenon DEF KeptAs

\* msg_name_from_schema undoes schema_name, and reads the IDL's spelling too.
LEMMA SchemaBack ==
    ASSUME NEW a, NEW b, {a, b} \cap {"/", "#", "::", ".", "_", "msg", "dds_"} = {}
    PROVE  /\ MsgNameFromSchema(<<a, "/", "msg", "/", b>>) = <<a, ".", b>>
           /\ MsgNameFromSchema(<<a, "::", "msg", "::", "dds_", "::", b, "_">>) = <<a, ".", b>>
<1>1. /\ a # "/" /\ a # "::" /\ a # "msg" /\ a # "dds_" /\ a # "_"
      /\ b # "/" /\ b # "::" /\ b # "msg" /\ b # "dds_" /\ b # "_"
  BY Zenon
<1>2. /\ "msg" # "/" /\ "dds_" # "/" /\ "_" # "/" /\ "msg" # "::" /\ "dds_" # "::"
      /\ "_" # "::" /\ "/" # "::"
  BY SMT
<1>3. ASSUME NEW u
      PROVE  /\ Cuts(u) = {0, Len(u) + 1} \cup Places("/", u) \cup Places("::", u)
             /\ PartsKept(u) = {x \in Cuts(u) \ {Len(u) + 1} :
                                   Part(u, x) \notin {<<"msg">>, <<"dds_">>}}
  BY Zenon DEF Cuts, PartsKept
<1>4. Spelling(a, b, "/", "::", "msg", "dds_", "_")
  BY <1>1, <1>2, <1>3, Zenon DEF Spelling
<1>5. KeptAs(<<a, "/", "msg", "/", b>>, a, b, "_")
  BY <1>4, SlashSpelled, Zenon
<1>6. KeptAs(<<a, "::", "msg", "::", "dds_", "::", b, "_">>, a, b, "_")
  BY <1>4, ColonsSpelled, Zenon
<1> QED BY <1>5, <1>6, NameKept, Zenon

-----------------------------------------------------------------------------
(* What a channel of a file says *)

NameIn(channel) ==
    IF channel.name # <<>> THEN channel.name ELSE Without(<<"/">>, channel.topic)

TypeIn(channel) ==
    IF channel.encoding = "cdr" THEN MsgNameFromSchema(channel.schema)
    ELSE MsgNameFromPayloadModule(channel.payload)

LEMMA EmptyName == Without(<<"/">>, <<>>) = <<>>
<1>1. Len(<<"/">>) = 1
  OBVIOUS
<1> QED BY <1>1, EmptyIs DEF Without, IsPrefix

LEMMA SchemaIs ==
    ASSUME NEW type, IsMsgName(type)
    PROVE  /\ MsgNameFromSchema(SchemaName(type)) = type
           /\ MsgNameFromSchema(<<type[1], "::", "msg", "::", "dds_", "::", type[3], "_">>) = type
<1>1. PICK a, b : /\ type = <<a, ".", b>>
                  /\ {a, b} \cap {"/", "#", "::", ".", "_", "msg", "dds_"} = {}
  BY MsgNameIs
<1>2. type[1] = a /\ type[3] = b
  BY <1>1
<1> QED BY <1>1, <1>2, SchemaBack, Zenon DEF SchemaName

\* A channel of our own names its stream, and its type if that is one.
LEMMA RegisteredIs ==
    ASSUME NEW stream, NEW type, NEW codec, codec = "cdr" => IsMsgName(type)
    PROVE  LET channel == Registered(stream, type, codec)
           IN  /\ channel.topic = stream /\ channel.type = type
               /\ NameIn(channel) = stream
               /\ type = <<>> \/ IsMsgName(type) => TypeIn(channel) = type
<1> DEFINE channel == Registered(stream, type, codec)
<1>1. /\ channel.topic = stream /\ channel.name = stream /\ channel.type = type
      /\ channel.encoding = codec /\ channel.payload = PayloadModule(type)
      /\ codec = "cdr" => channel.schema = SchemaName(type)
  BY DEF Registered
<1> HIDE DEF channel
<1>2. NameIn(channel) = stream
  BY <1>1, EmptyName DEF NameIn
<1>3. ASSUME type = <<>> \/ IsMsgName(type) PROVE TypeIn(channel) = type
  <2>1. CASE codec = "cdr"
    BY <1>1, <2>1, SchemaIs DEF TypeIn
  <2>2. CASE codec # "cdr"
    BY <1>1, <1>3, <2>2, PayloadBack DEF TypeIn
  <2> QED BY <2>1, <2>2
<1> QED BY <1>1, <1>2, <1>3 DEF channel

\* So does one of another tool.
LEMMA ForeignIs ==
    ASSUME NEW p, IsProducer(p), p.type # <<>>
    PROVE  /\ NameIn(Foreign(p)) = p.name /\ TypeIn(Foreign(p)) = p.type
           /\ Foreign(p).name = <<>>
<1> DEFINE channel == Foreign(p)
<1>1. /\ channel.topic = <<"/">> \o p.name /\ channel.name = <<>> /\ channel.encoding = "cdr"
      /\ channel.schema = IF p.spelled = "dds"
                          THEN <<p.type[1], "::", "msg", "::", "dds_", "::", p.type[3], "_">>
                          ELSE SchemaName(p.type)
  BY DEF Foreign
<1> HIDE DEF channel
<1>2. p.name \in Text /\ <<"/">> \in Text /\ IsMsgName(p.type)
  BY Marks DEF IsProducer, Text
<1>3. NameIn(channel) = p.name
  <2>1. \A q \in Text : Without(q, q \o p.name) = p.name
    BY <1>2, AfterJoin
  <2>2. Without(<<"/">>, <<"/">> \o p.name) = p.name
    BY <1>2, <2>1, Zenon
  <2> QED BY <1>1, <2>2, Zenon DEF NameIn
<1>4. TypeIn(channel) = p.type
  BY <1>1, <1>2, SchemaIs DEF TypeIn
<1> QED BY <1>1, <1>3, <1>4 DEF channel

\* What the recorder takes m for, and whether it keeps it.
Said(m) == SplitChannel(Channel(m.origin), prefix, Separator(transport))

Stored(m) == TypeAs(Resolve(CodecOf(Said(m).stream), Said(m).type), Said(m).type, m)

Admitted(m) ==
    /\ Heard(Channel(m.origin), prefix, transport)
    /\ Wants(Include, Exclude, Said(m).stream)
    /\ \A c \in IdsOf(Said(m).stream) : channels[c].type = Stored(m)

\* The next message heard enters the file, under a channel of the stream.
Enters(stream, type) ==
    \E c, t :
       /\ file' = Append(file, [channel |-> c, publish |-> t, id |-> Len(heard) + 1])
       /\ \/ c \in IdsOf(stream) /\ UNCHANGED channels
          \/ /\ IdsOf(stream) = {} /\ c = Len(channels) + 1
             /\ \E codec : /\ channels' = Append(channels, Registered(stream, type, codec))
                           /\ codec = "cdr" => IsMsgName(type)

LEMMA CdrIsNamed ==
    ASSUME NEW m, NEW type, NEW codec
    PROVE  /\ Resolve(codec, type) = "cdr" => IsMsgName(TypeAs(Resolve(codec, type), type, m))
           /\ type = <<>> \/ IsMsgName(type)
              => \/ TypeAs(codec, type, m) = <<>>
                 \/ IsMsgName(TypeAs(codec, type, m))
<1>1. IsMsgName(CompressedImage)
  <2>1. CompressedImage = <<CompressedImage[1], ".", CompressedImage[3]>>
    BY DEF CompressedImage
  <2>2. CompressedImage[1] = "sensor_msgs" /\ CompressedImage[3] = "CompressedImage"
    BY DEF CompressedImage
  <2>3. {"sensor_msgs", "CompressedImage"} \cap {"/", "#", "::", ".", "_", "msg", "dds_"} = {}
    BY SMT
  <2> QED BY <2>1, <2>2, <2>3 DEF IsMsgName
<1>2. Resolve(codec, type) = "cdr" => IsMsgName(type)
  BY McapAssumption DEF Resolve
<1> QED BY <1>1, <1>2 DEF TypeAs

LEMMA RecordIs ==
    ASSUME NEW m, Record(m)
    PROVE  IF Admitted(m) THEN Enters(Said(m).stream, Stored(m))
           ELSE UNCHANGED <<channels, file>>
<1> DEFINE said == Said(m)
           codec == Resolve(CodecOf(said.stream), said.type)
           type == TypeAs(codec, said.type, m)
           t == PublishTime(said.type, m)
<1>1. IF \/ ~Heard(Channel(m.origin), prefix, transport)
         \/ ~Wants(Include, Exclude, said.stream)
         \/ \E c \in IdsOf(said.stream) : channels[c].type # type
      THEN UNCHANGED <<channels, file>>
      ELSE IF IdsOf(said.stream) = {}
      THEN /\ channels' = Append(channels, Registered(said.stream, type, codec))
           /\ Put(Len(channels) + 1, t, m)
      ELSE /\ Put(CHOOSE c \in IdsOf(said.stream) : TRUE, t, m)
           /\ UNCHANGED channels
  BY Zenon DEF Record, Said
<1>2. type = Stored(m)
  BY DEF Stored
<1>3. codec = "cdr" => IsMsgName(type)
  BY CdrIsNamed
<1> HIDE DEF said, codec, type, t
<1>4. Admitted(m) <=> ~\/ ~Heard(Channel(m.origin), prefix, transport)
                       \/ ~Wants(Include, Exclude, said.stream)
                       \/ \E c \in IdsOf(said.stream) : channels[c].type # type
  BY <1>2 DEF Admitted, said
<1>5. CASE ~Admitted(m)
  BY <1>1, <1>4, <1>5
<1>6. CASE Admitted(m) /\ IdsOf(said.stream) = {}
  BY <1>1, <1>2, <1>3, <1>4, <1>6 DEF Enters, Put, said
<1>7. CASE Admitted(m) /\ IdsOf(said.stream) # {}
  <2>1. (CHOOSE c \in IdsOf(said.stream) : TRUE) \in IdsOf(said.stream)
    BY <1>7
  <2> QED BY <1>1, <1>2, <1>4, <1>7, <2>1 DEF Enters, Put, said
<1> QED BY <1>5, <1>6, <1>7

\* A plain message is taken for what it is.
LEMMA SaidIs ==
    ASSUME NEW m, bag = <<>>, transport \in Transports, prefix \in Namespaces[transport],
           m.origin \in Producers, Plain(m.origin)
    PROVE  /\ Said(m).stream = m.origin.name
           /\ Stored(m) = StoredType(m)
           /\ StoredType(m) = <<>> \/ IsMsgName(StoredType(m))
           /\ Admitted(m) <=> /\ ToRecord(m)
                              /\ \A c \in IdsOf(m.origin.name) : channels[c].type = StoredType(m)
<1> DEFINE p == m.origin  pre == IF p.spelled = "bare" THEN <<>> ELSE prefix
<1>1. IsProducer(p) /\ prefix \in Text /\ Outside(p, prefix)
  BY McapAssumption DEF Text
<1>2. Said(m) = [stream |-> p.name, type |-> p.type]
  <2>1. p.type # <<>> \/ Places(Separator(transport), p.name) = {}
    BY DEF Plain
  <2>2. Channel(p) = ChannelOf(p.name, p.type, pre, Separator(transport))
    BY DEF Channel
  <2>3. pre \in {<<>>, prefix} /\ (pre # prefix => p.name[1] # prefix[1])
    BY <1>1 DEF Outside
  <2> HIDE DEF pre, p
  <2>4. SplitChannel(ChannelOf(p.name, p.type, pre, Separator(transport)),
                     prefix, Separator(transport))
           = [stream |-> p.name, type |-> p.type]
    BY <1>1, <2>1, <2>3, SplitIs
  <2> QED BY <2>2, <2>4 DEF Said, p
<1>3. Said(m).stream = p.name /\ Said(m).type = p.type
  BY <1>2
<1>4. p.type = <<>> \/ IsMsgName(p.type)
  BY <1>1 DEF IsProducer
<1>5. Stored(m) = StoredType(m)
  BY <1>3 DEF Stored, StoredType
<1>6. StoredType(m) = <<>> \/ IsMsgName(StoredType(m))
  BY <1>4, CdrIsNamed DEF StoredType
<1>7. Admitted(m) <=> /\ ToRecord(m)
                      /\ \A c \in IdsOf(p.name) : channels[c].type = StoredType(m)
  BY <1>3, <1>5 DEF Admitted, ToRecord
<1> QED BY <1>3, <1>5, <1>6, <1>7

-----------------------------------------------------------------------------
(* From the transport to the file *)

\* A message of the file is under a channel that names its stream and the type
\* it is stored as.
FiledRight(n) ==
    LET m == heard[file[n].id]
        c == file[n].channel
    IN  /\ c \in 1..Len(channels)
        /\ Plain(m.origin) => /\ NameIn(channels[c]) = m.origin.name
                              /\ TypeIn(channels[c]) = StoredType(m)

OurChannel(channel) ==
    \E stream, type, codec : /\ channel = Registered(stream, type, codec)
                             /\ codec = "cdr" => IsMsgName(type)

\* No two channels are of one topic.
OwnTopics(ch) == \A c, d \in 1..Len(ch) : ch[c].topic = ch[d].topic => c = d

Channelled ==
    /\ IsSeq(channels)
    /\ bag = <<>> => \A c \in 1..Len(channels) : OurChannel(channels[c])
    /\ bag # <<>> => channels = [k \in DOMAIN bag |-> Foreign(bag[k])]
    /\ bag = <<>> => OwnTopics(channels)
    /\ \A n \in 1..Len(file) : FiledRight(n)

LEMMA BagIs ==
    ASSUME Sound, bag # <<>>
    PROVE  /\ IsSeq(bag)
           /\ \A k \in DOMAIN bag : IsProducer(bag[k]) /\ bag[k].type # <<>>
BY McapAssumption DEF Sound, IsSeq

LEMMA InitChannelled == Init => Channelled
<1> SUFFICES ASSUME Init PROVE Channelled
  OBVIOUS
<1>1. Sound /\ file = <<>> /\ channels = [k \in DOMAIN bag |-> Foreign(bag[k])]
  BY InitSound DEF Init
<1>2. CASE bag = <<>>
  <2>1. channels = <<>>
    BY <1>1, <1>2, EmptyIs
  <2> QED BY <1>1, <1>2, <2>1, EmptyIs DEF Channelled, OwnTopics
<1>3. CASE bag # <<>>
  <2>1. Len(bag) \in Nat /\ DOMAIN bag = 1..Len(bag)
    BY <1>1, <1>3, BagIs, SeqIs
  <2>2. channels \in Seq(Range(channels))
    BY <1>1, <2>1 DEF Range
  <2> QED BY <1>1, <1>3, <2>2, EmptyIs DEF Channelled, IsSeq
<1> QED BY <1>2, <1>3

\* The channel m enters the file under is its stream's and of its type.
LEMMA EntersIs ==
    ASSUME NEW stream, NEW type, Enters(stream, type), bag = <<>>, Channelled, Sound,
           \A c \in IdsOf(stream) : channels[c].type = type
    PROVE  /\ IsSeq(channels') /\ Len(channels) <= Len(channels')
           /\ \A c \in 1..Len(channels) : channels'[c] = channels[c]
           /\ \A c \in 1..Len(channels') : OurChannel(channels'[c])
           /\ OwnTopics(channels')
           /\ IsSeq(file') /\ Len(file') = Len(file) + 1
           /\ \A n \in 1..Len(file) : file'[n] = file[n]
           /\ file'[Len(file) + 1].id = Len(heard) + 1
           /\ LET c == file'[Len(file) + 1].channel
              IN  /\ c \in 1..Len(channels')
                  /\ channels'[c].topic = stream /\ channels'[c].type = type
                  /\ NameIn(channels'[c]) = stream
                  /\ type = <<>> \/ IsMsgName(type) => TypeIn(channels'[c]) = type
           /\ \A d \in 1..Len(channels') :
                 \/ d \in 1..Len(channels)
                 \/ /\ IdsOf(stream) = {}
                    /\ channels'[d].topic = stream /\ channels'[d].type = type
<1>1. PICK c, t :
         /\ file' = Append(file, [channel |-> c, publish |-> t, id |-> Len(heard) + 1])
         /\ \/ c \in IdsOf(stream) /\ UNCHANGED channels
            \/ /\ IdsOf(stream) = {} /\ c = Len(channels) + 1
               /\ \E codec : /\ channels' = Append(channels, Registered(stream, type, codec))
                             /\ codec = "cdr" => IsMsgName(type)
  BY DEF Enters
<1> DEFINE e == [channel |-> c, publish |-> t, id |-> Len(heard) + 1]
<1>2. e.channel = c /\ e.id = Len(heard) + 1
  OBVIOUS
<1> HIDE DEF e
<1>3. /\ IsSeq(file') /\ Len(file') = Len(file) + 1 /\ file'[Len(file) + 1] = e
      /\ \A n \in 1..Len(file) : file'[n] = file[n]
  BY <1>1, AppendIs DEF Sound, e
<1>4. /\ IsSeq(channels') /\ Len(channels) <= Len(channels') /\ c \in 1..Len(channels')
      /\ \A d \in 1..Len(channels) : channels'[d] = channels[d]
      /\ \A d \in 1..Len(channels') : OurChannel(channels'[d])
      /\ channels'[c].topic = stream /\ channels'[c].type = type
      /\ \A d \in 1..Len(channels') :
            \/ d \in 1..Len(channels)
            \/ IdsOf(stream) = {} /\ d = c
  <2>0. IsSeq(channels) /\ Len(channels) \in Nat /\ DOMAIN channels = 1..Len(channels)
    BY SeqIs DEF Channelled
  <2>1. CASE c \in IdsOf(stream) /\ UNCHANGED channels
    <3>1. c \in 1..Len(channels) /\ channels[c].topic = stream
      BY <2>0, <2>1 DEF IdsOf
    <3>2. channels' = channels
      BY <2>1
    <3> QED BY <2>0, <2>1, <3>1, <3>2 DEF Channelled
  <2>2. CASE /\ IdsOf(stream) = {} /\ c = Len(channels) + 1
             /\ \E codec : /\ channels' = Append(channels, Registered(stream, type, codec))
                           /\ codec = "cdr" => IsMsgName(type)
    <3>1. PICK codec : /\ channels' = Append(channels, Registered(stream, type, codec))
                       /\ codec = "cdr" => IsMsgName(type)
      BY <2>2
    <3> DEFINE r == Registered(stream, type, codec)
    <3>2. OurChannel(r) /\ r.topic = stream /\ r.type = type
      BY <3>1, RegisteredIs DEF OurChannel
    <3> HIDE DEF r
    <3>3. /\ IsSeq(channels') /\ Len(channels') = Len(channels) + 1
          /\ \A d \in 1..Len(channels) : channels'[d] = channels[d]
          /\ channels'[Len(channels) + 1] = r
      BY <2>0, <3>1, AppendIs DEF r
    <3>4. \A d \in 1..Len(channels') : d \in 1..Len(channels) \/ d = Len(channels) + 1
      BY <2>0, <3>3
    <3>5. \A d \in 1..Len(channels') : OurChannel(channels'[d])
      BY <3>2, <3>3, <3>4 DEF Channelled
    <3>6. c \in 1..Len(channels') /\ Len(channels) <= Len(channels')
      BY <2>0, <2>2, <3>3
    <3> QED BY <2>2, <3>2, <3>3, <3>4, <3>5, <3>6
  <2> QED BY <1>1, <2>1, <2>2
<1>5. PICK s, y, codec : /\ channels'[c] = Registered(s, y, codec)
                         /\ codec = "cdr" => IsMsgName(y)
  BY <1>4 DEF OurChannel
<1>6. s = stream /\ y = type
  BY <1>4, <1>5, RegisteredIs
<1>7. /\ NameIn(channels'[c]) = stream
      /\ type = <<>> \/ IsMsgName(type) => TypeIn(channels'[c]) = type
  BY <1>5, <1>6, RegisteredIs
<1>8. OwnTopics(channels')
  <2>1. \A d \in 1..Len(channels) : IdsOf(stream) = {} => channels[d].topic # stream
    BY SeqIs DEF Channelled, IdsOf
  <2>2. \A d, g \in 1..Len(channels) : channels[d].topic = channels[g].topic => d = g
    BY DEF Channelled, OwnTopics
  <2> QED BY <1>4, <2>1, <2>2 DEF OwnTopics
<1> QED BY <1>2, <1>3, <1>4, <1>7, <1>8

LEMMA ChannelledStep == Sound /\ Channelled /\ [Next]_vars => Channelled'
<1> SUFFICES ASSUME Sound, Channelled, [Next]_vars PROVE Channelled'
  OBVIOUS
<1>1. CASE UNCHANGED recorded
  BY <1>1 DEF Channelled, recorded, FiledRight, Plain, StoredType
<1>2. CASE Hear
  <2>1. PICK m : /\ MessageOK(m) /\ heard' = Append(heard, m)
                 /\ bag = <<>> => m.origin \in Producers /\ Record(m)
                 /\ bag # <<>> => \E c \in DOMAIN bag : /\ m.origin = bag[c] /\ Put(c, m.log, m)
                                                        /\ UNCHANGED channels
    BY <1>2, HeardIs
  <2>2. UNCHANGED <<bag, transport, prefix>>
    BY <1>2, HeardIs
  <2>3. /\ Len(heard) \in Nat /\ Len(heard') = Len(heard) + 1 /\ heard'[Len(heard) + 1] = m
        /\ \A i \in 1..Len(heard) : heard'[i] = heard[i]
    BY <2>1, AppendIs DEF Sound
  <2>4. (\A p : Plain(p)' <=> Plain(p)) /\ \A h : StoredType(h)' = StoredType(h)
    BY <2>2 DEF Plain, StoredType
  <2>5. Len(file) \in Nat /\ Len(channels) \in Nat /\ DOMAIN channels = 1..Len(channels)
    BY SeqIs DEF Sound, Channelled
  <2>6. ASSUME \A n \in 1..Len(file) : file'[n] = file[n],
               \A c \in 1..Len(channels) : channels'[c] = channels[c],
               Len(channels') \in Nat, Len(channels) <= Len(channels')
        PROVE  \A n \in 1..Len(file) : FiledRight(n)'
    <3> SUFFICES ASSUME NEW n \in 1..Len(file) PROVE FiledRight(n)'
      OBVIOUS
    <3> DEFINE h == heard[file[n].id]  c == file[n].channel
    <3>1. FiledRight(n) /\ file'[n] = file[n] /\ heard'[file[n].id] = h
      BY <2>3, <2>6 DEF Sound, Channelled
    <3>2. c \in 1..Len(channels) /\ c \in 1..Len(channels') /\ channels'[c] = channels[c]
      BY <2>5, <2>6, <3>1 DEF FiledRight
    <3> QED BY <2>4, <3>1, <3>2 DEF FiledRight
  <2>7. ASSUME IsSeq(channels'), UNCHANGED <<channels, file>>
        PROVE  Channelled'
    <3>1. Len(channels') = Len(channels) /\ Len(file') = Len(file)
      BY <2>7
    <3> QED BY <2>2, <2>5, <2>6, <2>7, <3>1 DEF Channelled
  <2>8. CASE bag = <<>>
    <3>1. CASE ~Admitted(m)
      BY <2>1, <2>7, <2>8, <3>1, RecordIs DEF Channelled, IsSeq
    <3>2. CASE Admitted(m)
      <4> DEFINE stream == Said(m).stream  type == Stored(m)  e == file'[Len(file) + 1]
      <4>1. Enters(stream, type) /\ \A c \in IdsOf(stream) : channels[c].type = type
        BY <2>1, <2>8, <3>2, RecordIs DEF Admitted
      <4> HIDE DEF stream, type
      <4>2. /\ IsSeq(channels') /\ Len(channels) <= Len(channels')
            /\ \A c \in 1..Len(channels) : channels'[c] = channels[c]
            /\ \A c \in 1..Len(channels') : OurChannel(channels'[c])
            /\ OwnTopics(channels')
            /\ IsSeq(file') /\ Len(file') = Len(file) + 1
            /\ \A n \in 1..Len(file) : file'[n] = file[n]
            /\ e.id = Len(heard) + 1 /\ e.channel \in 1..Len(channels')
            /\ NameIn(channels'[e.channel]) = stream
            /\ type = <<>> \/ IsMsgName(type) => TypeIn(channels'[e.channel]) = type
        BY <2>8, <4>1, EntersIs
      <4>3. Len(channels') \in Nat
        BY <4>2, SeqIs
      <4>4. Plain(m.origin) => /\ stream = m.origin.name /\ type = StoredType(m)
                               /\ type = <<>> \/ IsMsgName(type)
        BY <2>1, <2>8, SaidIs DEF stream, type, Sound
      <4>5. ASSUME NEW n, n = Len(file) + 1 PROVE FiledRight(n)'
        <5>1. heard'[e.id] = m /\ file'[n] = e
          BY <2>3, <4>2, <4>5
        <5> HIDE DEF e
        <5> QED BY <2>4, <4>2, <4>4, <5>1 DEF FiledRight
      <4>6. \A n \in 1..Len(file') : n \in 1..Len(file) \/ n = Len(file) + 1
        BY <2>5, <4>2
      <4>7. \A n \in 1..Len(file') : FiledRight(n)'
        BY <2>6, <4>2, <4>3, <4>5, <4>6
      <4> QED BY <2>2, <2>8, <4>2, <4>7 DEF Channelled
    <3> QED BY <3>1, <3>2
  <2>9. CASE bag # <<>>
    <3>1. PICK c \in DOMAIN bag : m.origin = bag[c] /\ Put(c, m.log, m) /\ UNCHANGED channels
      BY <2>1, <2>9
    <3> DEFINE e == [channel |-> c, publish |-> m.log, id |-> Len(heard) + 1]
    <3>2. e.channel = c /\ e.id = Len(heard) + 1
      OBVIOUS
    <3> HIDE DEF e
    <3>3. /\ Len(file') = Len(file) + 1 /\ file'[Len(file) + 1] = e
          /\ \A n \in 1..Len(file) : file'[n] = file[n]
      BY <3>1, AppendIs DEF Sound, Put, e
    <3>4. c \in 1..Len(channels) /\ channels[c] = Foreign(bag[c])
      BY <2>5, <2>9, <3>1 DEF Channelled
    <3>5. NameIn(channels[c]) = m.origin.name /\ TypeIn(channels[c]) = m.origin.type
      BY <2>9, <3>1, <3>4, BagIs, ForeignIs
    <3>6. StoredType(m) = m.origin.type
      BY <2>9 DEF StoredType
    <3>7. ASSUME NEW n, n = Len(file) + 1 PROVE FiledRight(n)'
      <4>1. heard'[e.id] = m /\ file'[n] = e
        BY <2>3, <3>2, <3>3, <3>7
      <4> QED BY <2>4, <3>1, <3>2, <3>4, <3>5, <3>6, <4>1 DEF FiledRight
    <3>8. \A n \in 1..Len(file') : n \in 1..Len(file) \/ n = Len(file) + 1
      BY <2>5, <3>3
    <3>9. \A n \in 1..Len(file') : FiledRight(n)'
      BY <2>5, <2>6, <3>1, <3>3, <3>7, <3>8
    <3>10. channels' = channels /\ IsSeq(channels')
      BY <3>1 DEF Channelled
    <3> QED BY <2>2, <2>9, <3>9, <3>10 DEF Channelled
  <2> QED BY <2>8, <2>9
<1>3. CASE Open \/ Play \/ Rewind \/ UNCHANGED vars
  BY <1>1, <1>3 DEF Open, Play, Rewind, vars
<1> QED BY <1>2, <1>3 DEF Next

-----------------------------------------------------------------------------
(* From the file to the replay *)

Wanted == {c \in DOMAIN channels : Selected(player.patterns, NameIn(channels[c]))}

\* The stream made of channel chosen[k].
StreamOf(chosen, k) ==
    [channel |-> ChannelOf(Renamed([j \in DOMAIN chosen |-> NameIn(channels[chosen[j]])],
                                   player.renames, k),
                           TypeIn(channels[chosen[k]]), player.prefix, Separator(player.transport)),
     supported |-> Supported(chosen[k])]

Opened ==
    phase = "playing" =>
        /\ player.renames \in Renames
        /\ \E chosen \in SetToSeqs(Wanted) :
              /\ byTopic = ByTopic(chosen)
              /\ streams = [k \in DOMAIN chosen |-> StreamOf(chosen, k)]

LEMMA OpenedStep == Sound /\ Opened /\ [Next]_vars => Opened'
<1> SUFFICES ASSUME Sound, Opened, [Next]_vars PROVE Opened'
  OBVIOUS
<1>1. CASE UNCHANGED <<channels, player, streams, byTopic, phase>>
  <2>1. UNCHANGED Wanted /\ \A chosen : UNCHANGED ByTopic(chosen)
    BY <1>1 DEF Wanted, ByTopic
  <2>2. \A chosen, k : UNCHANGED StreamOf(chosen, k)
    BY <1>1 DEF StreamOf, Supported, TypeOf
  <2> QED BY <1>1, <2>1, <2>2 DEF Opened
<1>2. CASE Hear
  BY <1>2, HeardIs DEF Opened, opened
<1>3. CASE Open
  <2>1. PICK t \in Transports, patterns \in Patterns, renames \in Renames, start \in Starts :
        \E pre \in Namespaces[t] :
        \E chosen \in SetToSeqs({c \in DOMAIN channels : SelectedChannel(patterns, c)}) :
           LET names == [k \in DOMAIN chosen |-> StreamName(chosen[k])]
           IN  /\ player' = [transport |-> t, prefix |-> pre, patterns |-> patterns,
                             renames |-> renames, start |-> start]
               /\ streams' = [k \in DOMAIN chosen |->
                                 [channel |-> ChannelOf(Renamed(names, renames, k),
                                                        TypeOf(chosen[k]), pre, Separator(t)),
                                  supported |-> Supported(chosen[k])]]
               /\ byTopic' = ByTopic(chosen)
               /\ phase' = IF chosen = <<>> \/ \E i \in DOMAIN renames :
                                                  renames[i].old \notin Range(names)
                           THEN "refused" ELSE "playing"
    BY <1>3, Zenon DEF Open
  <2>2. PICK pre \in Namespaces[t],
             chosen \in SetToSeqs({c \in DOMAIN channels : SelectedChannel(patterns, c)}) :
           LET names == [k \in DOMAIN chosen |-> StreamName(chosen[k])]
           IN  /\ player' = [transport |-> t, prefix |-> pre, patterns |-> patterns,
                             renames |-> renames, start |-> start]
               /\ streams' = [k \in DOMAIN chosen |->
                                 [channel |-> ChannelOf(Renamed(names, renames, k),
                                                        TypeOf(chosen[k]), pre, Separator(t)),
                                  supported |-> Supported(chosen[k])]]
               /\ byTopic' = ByTopic(chosen)
    BY <2>1
  <2>3. /\ player'.transport = t /\ player'.prefix = pre
        /\ player'.patterns = patterns /\ player'.renames = renames
        /\ UNCHANGED channels
    BY <1>3, <2>2 DEF Open, recorded
  <2>4. (\A c : StreamName(c) = NameIn(channels[c])) /\ \A c : TypeOf(c) = TypeIn(channels[c])
    BY DEF StreamName, TypeOf, NameIn, TypeIn
  <2>5. Wanted' = {c \in DOMAIN channels : SelectedChannel(patterns, c)}
    BY <2>3, <2>4 DEF Wanted, SelectedChannel
  <2>6. byTopic' = ByTopic(chosen)'
    BY <2>2, <2>3 DEF ByTopic
  <2>7. \A c : Supported(c)' = Supported(c)
    BY <2>3 DEF Supported, TypeOf
  <2>8. [k \in DOMAIN chosen |-> StreamName(chosen[k])]
           = [j \in DOMAIN chosen |-> NameIn(channels'[chosen[j]])]
    BY <2>3, <2>4
  <2>9. streams' = [k \in DOMAIN chosen |-> StreamOf(chosen, k)]'
    BY <2>2, <2>3, <2>4, <2>7, <2>8 DEF StreamOf
  <2> QED BY <2>2, <2>3, <2>5, <2>6, <2>9 DEF Opened
<1>4. CASE Play \/ Rewind \/ UNCHANGED vars
  BY <1>1, <1>4 DEF Play, Rewind, vars, recorded, opened
<1> QED BY <1>2, <1>3, <1>4 DEF Next

Topic(n) == channels[file[n].channel].topic

InFileOrder == \A n, l \in 1..Len(file) : n < l => file[n].id < file[l].id

\* What has been handed out is, in order, what the messages before the reader's
\* position have come to.
HandedRight ==
    /\ \A k \in 1..Len(handed) : \E n \in 1..Len(file) :
          /\ n < position /\ handed[k].id = file[n].id /\ Topic(n) \in DOMAIN byTopic
          /\ handed[k].channel = streams[byTopic[Topic(n)]].channel
    /\ \A n \in 1..Len(file) :
          n < position /\ Topic(n) \in DOMAIN byTopic
          => \E k \in 1..Len(handed) : handed[k].id = file[n].id
    /\ \A j, k \in 1..Len(handed) : j < k => handed[j].id < handed[k].id

LEMMA PlayHands ==
    ASSUME Play, Sound
    PROVE  IF Topic(position) \in DOMAIN byTopic
           THEN \E r : /\ handed' = Append(handed, r) /\ r.id = file[position].id
                       /\ r.channel = streams[byTopic[Topic(position)]].channel
           ELSE UNCHANGED handed
<1> DEFINE m == file[position]  stream == streams[byTopic[Topic(position)]]
           r == [id |-> m.id, channel |-> stream.channel,
                 fate |-> Fate(stream.supported, m.publish, base'),
                 from |-> MappedFrom(heard[m.id].stamp, m.publish)]
<1>1. r.id = m.id /\ r.channel = stream.channel
  OBVIOUS
<1>2. IF Topic(position) \notin DOMAIN byTopic THEN UNCHANGED handed
      ELSE handed' = Append(handed, r)
  BY DEF Play, Topic
<1> HIDE DEF r
<1> QED BY <1>1, <1>2

LEMMA HandedStep ==
    Sound /\ InFileOrder /\ HandedRight /\ [Next]_vars => HandedRight'
<1> SUFFICES ASSUME Sound, InFileOrder, HandedRight, [Next]_vars PROVE HandedRight'
  OBVIOUS
<1>1. CASE handed' = <<>> /\ position' = 1
  BY <1>1, EmptyIs DEF HandedRight
<1>2. CASE UNCHANGED vars
  BY <1>2 DEF HandedRight, Topic, vars, recorded, opened, playing
<1>3. CASE Play
  <2>1. /\ position \in 1..Len(file) /\ position' = position + 1
        /\ UNCHANGED <<file, channels, byTopic, streams>>
    BY <1>3, PlayIs DEF recorded, opened
  <2>2. \A n : Topic(n)' = Topic(n)
    BY <2>1 DEF Topic
  <2>3. Len(file) \in Nat /\ Len(handed) \in Nat
    BY SeqIs DEF Sound
  <2>4. \A n \in 1..Len(file) : (n < position' <=> n < position \/ n = position)
    BY <2>1, <2>3
  <2>5. CASE Topic(position) \notin DOMAIN byTopic
    <3>1. handed' = handed
      BY <1>3, <2>5, PlayHands
    <3> QED BY <2>1, <2>2, <2>4, <2>5, <3>1 DEF HandedRight
  <2>6. CASE Topic(position) \in DOMAIN byTopic
    <3> DEFINE l == Len(handed) + 1
    <3>1. PICK r : /\ handed' = Append(handed, r) /\ r.id = file[position].id
                   /\ r.channel = streams[byTopic[Topic(position)]].channel
      BY <1>3, <2>6, PlayHands
    <3>2. /\ Len(handed') = l /\ handed'[l] = r
          /\ \A k \in 1..Len(handed) : handed'[k] = handed[k]
      BY <3>1, AppendIs DEF Sound
    <3>3. /\ \A k \in 1..l : k \in 1..Len(handed) \/ k = l
          /\ \A k \in 1..Len(handed) : k \in 1..l /\ k < l /\ ~(l < k)
          /\ l \in 1..l /\ ~(l < l)
      BY <2>3
    <3> HIDE DEF l
    <3>4. \A k \in 1..l : \E n \in 1..Len(file) :
             /\ n < position' /\ handed'[k].id = file[n].id /\ Topic(n) \in DOMAIN byTopic
             /\ handed'[k].channel = streams[byTopic[Topic(n)]].channel
      <4> SUFFICES ASSUME NEW k \in 1..l
                   PROVE  \E n \in 1..Len(file) :
                             /\ n < position' /\ handed'[k].id = file[n].id
                             /\ Topic(n) \in DOMAIN byTopic
                             /\ handed'[k].channel = streams[byTopic[Topic(n)]].channel
        OBVIOUS
      <4>1. CASE k = l
        BY <2>1, <2>4, <2>6, <3>1, <3>2, <4>1
      <4>2. CASE k \in 1..Len(handed)
        <5>1. PICK n \in 1..Len(file) :
                 /\ n < position /\ handed[k].id = file[n].id /\ Topic(n) \in DOMAIN byTopic
                 /\ handed[k].channel = streams[byTopic[Topic(n)]].channel
          BY <4>2 DEF HandedRight
        <5> QED BY <2>4, <3>2, <4>2, <5>1
      <4> QED BY <3>3, <4>1, <4>2
    <3>5. \A n \in 1..Len(file) :
             n < position' /\ Topic(n) \in DOMAIN byTopic
             => \E k \in 1..l : handed'[k].id = file[n].id
      <4> SUFFICES ASSUME NEW n \in 1..Len(file), n < position', Topic(n) \in DOMAIN byTopic
                   PROVE  \E k \in 1..l : handed'[k].id = file[n].id
        OBVIOUS
      <4>1. CASE n = position
        BY <3>1, <3>2, <3>3, <4>1
      <4>2. CASE n < position
        <5>1. PICK k \in 1..Len(handed) : handed[k].id = file[n].id
          BY <4>2 DEF HandedRight
        <5> QED BY <3>2, <3>3, <5>1
      <4> QED BY <2>4, <4>1, <4>2
    <3>6. \A j, k \in 1..l : j < k => handed'[j].id < handed'[k].id
      <4> SUFFICES ASSUME NEW j \in 1..l, NEW k \in 1..l, j < k
                   PROVE  handed'[j].id < handed'[k].id
        OBVIOUS
      <4>1. j \in 1..Len(handed)
        BY <3>3
      <4>2. CASE k \in 1..Len(handed)
        BY <3>2, <4>1, <4>2 DEF HandedRight
      <4>3. CASE k = l
        <5>1. PICK n \in 1..Len(file) : n < position /\ handed[j].id = file[n].id
          BY <4>1 DEF HandedRight
        <5>2. file[n].id < file[position].id
          BY <2>1, <5>1 DEF InFileOrder
        <5> QED BY <3>1, <3>2, <4>1, <4>3, <5>1, <5>2
      <4> QED BY <3>3, <4>2, <4>3
    <3> QED BY <2>1, <2>2, <3>2, <3>4, <3>5, <3>6 DEF HandedRight
  <2> QED BY <2>5, <2>6
<1>4. CASE Hear \/ Open \/ Rewind
  <2>1. handed' = <<>> /\ position' = 1
    BY <1>4, HearIs DEF Open, Rewind, Sound, playing
  <2> QED BY <1>1, <2>1
<1> QED BY <1>2, <1>3, <1>4 DEF Next

\* Channels have the same name in just the case that they have the same topic.
LEMMA NamesAndTopics ==
    ASSUME Sound, Channelled, NEW c \in DOMAIN channels, NEW d \in DOMAIN channels
    PROVE  NameIn(channels[c]) = NameIn(channels[d]) <=> channels[c].topic = channels[d].topic
<1>1. CASE bag = <<>>
  <2>1. DOMAIN channels = 1..Len(channels)
    BY SeqIs DEF Channelled
  <2>2. OurChannel(channels[c]) /\ OurChannel(channels[d])
    BY <1>1, <2>1 DEF Channelled
  <2>3. \A channel : OurChannel(channel) => NameIn(channel) = channel.topic
    BY RegisteredIs DEF OurChannel
  <2> QED BY <2>2, <2>3
<1>2. CASE bag # <<>>
  <2>1. c \in DOMAIN bag /\ d \in DOMAIN bag
    BY <1>2 DEF Channelled
  <2>2. channels[c] = Foreign(bag[c]) /\ channels[d] = Foreign(bag[d])
    BY <1>2, <2>1 DEF Channelled
  <2>3. /\ NameIn(Foreign(bag[c])) = bag[c].name /\ Foreign(bag[c]).name = <<>>
        /\ NameIn(Foreign(bag[d])) = bag[d].name /\ Foreign(bag[d]).name = <<>>
    BY <1>2, <2>1, BagIs, ForeignIs
  <2>4. \A p : Foreign(p).topic = <<"/">> \o p.name
    BY DEF Foreign
  <2>5. channels[c].topic = channels[d].topic => NameIn(channels[c]) = NameIn(channels[d])
    BY <2>2, <2>3 DEF NameIn
  <2> QED BY <2>2, <2>3, <2>4, <2>5
<1> QED BY <1>1, <1>2

\* The channels listed are the ones wanted, each once.
LEMMA ChosenIs ==
    ASSUME Channelled, NEW chosen \in SetToSeqs(Wanted)
    PROVE  \E N \in Nat :
              /\ DOMAIN chosen = 1..N
              /\ \A k \in 1..N : chosen[k] \in Wanted
              /\ \A j, k \in 1..N : chosen[j] = chosen[k] => j = k
              /\ \A c \in Wanted : \E k \in 1..N : chosen[k] = c
<1> DEFINE N == Cardinality(Wanted)
<1>1. IsFiniteSet(Wanted) /\ N \in Nat
  <2>1. IsFiniteSet(DOMAIN channels)
    BY SeqIs, FS_Interval DEF Channelled
  <2> QED BY <2>1, FS_Subset, FS_CardinalityType DEF Wanted
<1>2. chosen \in [1..N -> Wanted] /\ \A i, j \in 1..N : i # j => chosen[i] # chosen[j]
  BY DEF SetToSeqs
<1>3. chosen \in Injection(1..N, Wanted)
  BY <1>2 DEF Injection, IsInjective
<1>4. Cardinality(1..N) = N
  BY <1>1, FS_Interval
<1>5. chosen \in Surjection(1..N, Wanted)
  BY <1>1, <1>3, <1>4, FS_Injection
<1>6. \A c \in Wanted : \E k \in 1..N : chosen[k] = c
  BY <1>5 DEF Surjection
<1> QED BY <1>1, <1>2, <1>6

\* A topic is found just if a channel of that topic is wanted.
LEMMA TopicsFound ==
    ASSUME Sound, Channelled, Opened, phase = "playing", NEW c \in DOMAIN channels
    PROVE  channels[c].topic \in DOMAIN byTopic
           <=> Selected(player.patterns, NameIn(channels[c]))
<1>1. PICK chosen \in SetToSeqs(Wanted) : byTopic = ByTopic(chosen)
  BY DEF Opened
<1>2. PICK N \in Nat :
         /\ DOMAIN chosen = 1..N /\ \A k \in 1..N : chosen[k] \in Wanted
         /\ \A d \in Wanted : \E k \in 1..N : chosen[k] = d
  BY ChosenIs
<1>3. DOMAIN byTopic = {channels[chosen[k]].topic : k \in 1..N}
  BY <1>1, <1>2 DEF ByTopic
<1>4. ASSUME channels[c].topic \in DOMAIN byTopic
      PROVE  Selected(player.patterns, NameIn(channels[c]))
  <2>1. PICK k \in 1..N : channels[chosen[k]].topic = channels[c].topic
    BY <1>3, <1>4
  <2>2. chosen[k] \in DOMAIN channels /\ Selected(player.patterns, NameIn(channels[chosen[k]]))
    BY <1>2 DEF Wanted
  <2>3. NameIn(channels[chosen[k]]) = NameIn(channels[c])
    BY <2>1, <2>2, NamesAndTopics
  <2> QED BY <2>2, <2>3
<1>5. ASSUME Selected(player.patterns, NameIn(channels[c]))
      PROVE  channels[c].topic \in DOMAIN byTopic
  <2>1. c \in Wanted
    BY <1>5 DEF Wanted
  <2> QED BY <1>2, <1>3, <2>1
<1> QED BY <1>4, <1>5

\* What is found under the topic of message n: the last of the channels listed
\* that are of the topic, the only one unless two channels share the name.
LEMMA FoundIs ==
    ASSUME Sound, Channelled, Opened, phase = "playing", NEW n \in 1..Len(file),
           Topic(n) \in DOMAIN byTopic
    PROVE  \E d \in DOMAIN channels :
              /\ channels[d].topic = Topic(n)
              /\ streams[byTopic[Topic(n)]].channel
                    = ChannelOf(IF \E c \in DOMAIN channels :
                                      c # d /\ channels[c].topic = Topic(n)
                                THEN NameIn(channels[d]) ELSE NewName(NameIn(channels[d])),
                                TypeIn(channels[d]), player.prefix,
                                Separator(player.transport))
<1> DEFINE c0 == file[n].channel
<1>1. DOMAIN channels = 1..Len(channels) /\ c0 \in DOMAIN channels
  BY SeqIs DEF Channelled, FiledRight
<1>2. PICK chosen \in SetToSeqs(Wanted) :
         byTopic = ByTopic(chosen) /\ streams = [j \in DOMAIN chosen |-> StreamOf(chosen, j)]
  BY DEF Opened
<1>3. PICK N \in Nat :
         /\ DOMAIN chosen = 1..N /\ \A j \in 1..N : chosen[j] \in Wanted
         /\ \A i, j \in 1..N : chosen[i] = chosen[j] => i = j
         /\ \A c \in Wanted : \E j \in 1..N : chosen[j] = c
  BY ChosenIs
<1> DEFINE K == {j \in DOMAIN chosen : channels[chosen[j]].topic = Topic(n)}  l == Max(K)
<1>4. byTopic[Topic(n)] = l /\ K # {} /\ K \subseteq 1..N
  BY <1>2, <1>3 DEF ByTopic
<1>5. l \in K /\ \A j \in K : j <= l
  <2> HIDE DEF K
  <2> QED BY <1>4, MaxIn
<1> HIDE DEF l
<1>6. l \in 1..N /\ channels[chosen[l]].topic = Topic(n)
  BY <1>3, <1>5
<1> DEFINE d == chosen[l]  names == [j \in DOMAIN chosen |-> NameIn(channels[chosen[j]])]
           to == Renamed(names, player.renames, l)
<1>7. d \in DOMAIN channels /\ channels[d].topic = Topic(n)
      /\ Selected(player.patterns, NameIn(channels[d]))
  BY <1>3, <1>6 DEF Wanted
<1>8. streams[byTopic[Topic(n)]].channel
         = ChannelOf(to, TypeIn(channels[d]), player.prefix, Separator(player.transport))
  <2>1. streams[l] = StreamOf(chosen, l)
    BY <1>2, <1>3, <1>6
  <2> QED BY <1>4, <2>1 DEF StreamOf
<1>9. \A j \in 1..N : names[j] = NameIn(channels[chosen[j]]) /\ chosen[j] \in DOMAIN channels
  BY <1>3 DEF Wanted
<1>10. CASE \E c \in DOMAIN channels : c # d /\ channels[c].topic = Topic(n)
  <2>1. PICK c \in DOMAIN channels : c # d /\ channels[c].topic = Topic(n)
    BY <1>10
  <2>2. NameIn(channels[c]) = NameIn(channels[d])
    BY <1>7, <2>1, NamesAndTopics
  <2>3. c \in Wanted
    BY <1>7, <2>1, <2>2 DEF Wanted
  <2>4. PICK j \in 1..N : chosen[j] = c
    BY <1>3, <2>3
  <2>5. j \in K /\ j # l
    BY <1>3, <2>1, <2>4
  <2>6. j \in 1..l - 1
    BY <1>5, <1>6, <2>4, <2>5
  <2> HIDE DEF names
  <2>7. names[j] = names[l]
    BY <1>6, <1>9, <2>2, <2>4
  <2>8. {i \in DOMAIN player.renames : /\ names[l] = player.renames[i].old
                                       /\ \A k \in 1..l - 1 : names[k] # names[l]} = {}
    BY <2>6, <2>7
  <2>9. to = names[l]
    BY <2>8 DEF Renamed
  <2>10. to = NameIn(channels[d])
    BY <1>6, <1>9, <2>9
  <2> HIDE DEF to
  <2> QED BY <1>7, <1>8, <1>10, <2>10
<1>11. CASE ~\E c \in DOMAIN channels : c # d /\ channels[c].topic = Topic(n)
  <2> HIDE DEF names
  <2>1. names[l] = NameIn(channels[d])
    BY <1>6, <1>9
  <2>2. ASSUME NEW j \in 1..l - 1, names[j] = names[l] PROVE FALSE
    <3>1. j \in 1..N /\ j # l
      BY <1>6
    <3>2. channels[chosen[j]].topic = channels[d].topic
      BY <1>6, <1>7, <1>9, <2>2, <3>1, NamesAndTopics
    <3> QED BY <1>3, <1>6, <1>7, <1>9, <1>11, <3>1, <3>2
  <2> DEFINE name == NameIn(channels[d])
  <2>3. names[l] = name /\ \A j \in 1..l - 1 : names[j] # names[l]
    BY <2>1, <2>2
  <2>4. to = NewName(name)
    <3> HIDE DEF name
    <3>1. {i \in DOMAIN player.renames : /\ names[l] = player.renames[i].old
                                         /\ \A j \in 1..l - 1 : names[j] # names[l]}
             = {i \in DOMAIN player.renames : player.renames[i].old = name}
      BY <2>3
    <3> QED BY <2>3, <3>1 DEF Renamed, NewName
  <2> HIDE DEF to
  <2> QED BY <1>7, <1>8, <1>11, <2>4
<1> QED BY <1>10, <1>11

LEMMA NamesAreKept ==
    ASSUME Sound, Channelled, Opened, HandedRight
    PROVE  NamesSurvive
<1> SUFFICES ASSUME NEW k \in DOMAIN handed, Plain(heard[handed[k].id].origin)
             PROVE  LET m == heard[handed[k].id]
                        name == m.origin.name
                        types == IF Shared(name) THEN {bag[c].type : c \in Sharing(name)}
                                 ELSE {StoredType(m)}
                    IN  \E type \in types :
                           handed[k].channel
                              = ChannelOf(IF Shared(name) THEN name ELSE NewName(name), type,
                                          player.prefix, Separator(player.transport))
  BY DEF NamesSurvive
<1>1. DOMAIN handed = 1..Len(handed) /\ DOMAIN channels = 1..Len(channels)
  BY SeqIs DEF Sound, Channelled
<1>2. PICK n \in 1..Len(file) :
         /\ handed[k].id = file[n].id /\ Topic(n) \in DOMAIN byTopic
         /\ handed[k].channel = streams[byTopic[Topic(n)]].channel
  BY <1>1 DEF HandedRight
<1> DEFINE m == heard[handed[k].id]  c == file[n].channel  name == m.origin.name
<1>3. c \in DOMAIN channels /\ NameIn(channels[c]) = name /\ TypeIn(channels[c]) = StoredType(m)
  BY <1>1, <1>2 DEF FiledRight, Channelled
<1>4. phase = "playing"
  BY <1>1, EmptyIs DEF Sound
<1>5. PICK d \in DOMAIN channels :
         /\ channels[d].topic = Topic(n)
         /\ handed[k].channel
               = ChannelOf(IF \E b \in DOMAIN channels : b # d /\ channels[b].topic = Topic(n)
                           THEN NameIn(channels[d]) ELSE NewName(NameIn(channels[d])),
                           TypeIn(channels[d]), player.prefix, Separator(player.transport))
  BY <1>2, <1>4, FoundIs
<1>6. NameIn(channels[d]) = name
  BY <1>3, <1>5, NamesAndTopics DEF Topic
<1>7. (\E b \in DOMAIN channels : b # d /\ channels[b].topic = Topic(n)) <=> Shared(name)
  <2>1. \A b \in DOMAIN channels :
           channels[b].topic = Topic(n) <=> NameIn(channels[b]) = name
    BY <1>3, NamesAndTopics DEF Topic
  <2>2. CASE bag = <<>>
    <3>1. ~Shared(name)
      BY <2>2, EmptyIs DEF Shared, Sharing
    <3>2. OwnTopics(channels)
      BY <2>2 DEF Channelled
    <3> QED BY <1>1, <1>5, <3>1, <3>2 DEF OwnTopics
  <2>3. CASE bag # <<>>
    <3>1. DOMAIN channels = DOMAIN bag /\ \A b \in DOMAIN bag : channels[b] = Foreign(bag[b])
      BY <2>3 DEF Channelled
    <3>2. \A b \in DOMAIN bag : NameIn(channels[b]) = bag[b].name
      BY <2>3, <3>1, BagIs, ForeignIs
    <3>3. \A b \in DOMAIN bag : b \in Sharing(name) <=> NameIn(channels[b]) = name
      BY <3>2 DEF Sharing
    <3>4. d \in Sharing(name) /\ Sharing(name) \subseteq DOMAIN bag
      BY <1>6, <3>1, <3>3 DEF Sharing
    <3> HIDE DEF name
    <3> QED BY <2>1, <3>1, <3>3, <3>4 DEF Shared
  <2> QED BY <2>2, <2>3
<1>8. handed[k].channel
         = ChannelOf(IF Shared(name) THEN name ELSE NewName(name), TypeIn(channels[d]),
                     player.prefix, Separator(player.transport))
  <2> HIDE DEF name
  <2> QED BY <1>5, <1>6, <1>7
<1>9. CASE Shared(name)
  <2>1. bag # <<>>
    BY <1>9, EmptyIs DEF Shared, Sharing
  <2>2. d \in DOMAIN bag /\ channels[d] = Foreign(bag[d])
    BY <2>1 DEF Channelled
  <2>3. NameIn(channels[d]) = bag[d].name /\ TypeIn(channels[d]) = bag[d].type
    BY <2>1, <2>2, BagIs, ForeignIs
  <2>4. d \in Sharing(name)
    BY <1>6, <2>2, <2>3 DEF Sharing
  <2> HIDE DEF name, m
  <2> QED BY <1>8, <1>9, <2>3, <2>4 DEF m, name
<1>10. CASE ~Shared(name)
  <2>1. d = c
    BY <1>3, <1>5, <1>7, <1>10 DEF Topic
  <2> QED BY <1>3, <1>8, <1>10, <2>1
<1> QED BY <1>9, <1>10

-----------------------------------------------------------------------------
(* Everything heard and wanted *)

OnFile == {file[n].id : n \in 1..Len(file)}

AllPlain == \A i \in 1..Len(heard) : Plain(heard[i].origin)

\* Of the messages h, the one at i is the first of its stream to be recorded.
FirstIn(h, i) ==
    /\ i \in 1..Len(h) /\ ToRecord(h[i])
    /\ \A j \in 1..i - 1 : ~(ToRecord(h[j]) /\ h[j].origin.name = h[i].origin.name)

\* Of a stream that is recorded there is a channel in ch, of the type its first
\* message was stored as, and what is stored as that type is on file.
KeptIn(h, ch, on) ==
    /\ \A c \in 1..Len(ch) : \E f \in 1..Len(h) :
          FirstIn(h, f) /\ ch[c].topic = h[f].origin.name /\ ch[c].type = StoredType(h[f])
    /\ \A i \in 1..Len(h) :
          ToRecord(h[i]) => \E c \in 1..Len(ch) : ch[c].topic = h[i].origin.name
    /\ \A i \in 1..Len(h) :
          i \in on <=> /\ ToRecord(h[i])
                       /\ \E f \in 1..Len(h) :
                             /\ FirstIn(h, f) /\ h[f].origin.name = h[i].origin.name
                             /\ StoredType(h[f]) = StoredType(h[i])

\* One message more: it is on file if no channel of its stream is of another
\* type, and its stream has a channel then.
OneMore(h, m, ch, on, ch2, on2) ==
    /\ IsSeq(h) /\ Len(ch) \in Nat /\ Len(ch2) \in Nat /\ Len(ch) <= Len(ch2)
    /\ \A c \in 1..Len(ch) : ch2[c] = ch[c]
    /\ \A c \in 1..Len(ch2) :
          \/ c \in 1..Len(ch)
          \/ /\ \A d \in 1..Len(ch) : ch[d].topic # m.origin.name
             /\ ToRecord(m) /\ ch2[c].topic = m.origin.name /\ ch2[c].type = StoredType(m)
    /\ \A i \in 1..Len(h) : i \in on2 <=> i \in on
    /\ Len(h) + 1 \in on2
       => /\ ToRecord(m)
          /\ \E c \in 1..Len(ch2) : /\ ch2[c].topic = m.origin.name
                                    /\ ch2[c].type = StoredType(m)
    /\ Len(h) + 1 \notin on2 /\ ToRecord(m)
       => \E c \in 1..Len(ch) : /\ ch[c].topic = m.origin.name
                                /\ ch[c].type # StoredType(m)

LEMMA FirstInOne ==
    ASSUME NEW h, Len(h) \in Nat, NEW f, NEW g, FirstIn(h, f), FirstIn(h, g),
           h[f].origin.name = h[g].origin.name
    PROVE  f = g
<1>1. f \in 1..Len(h) /\ g \in 1..Len(h)
  BY DEF FirstIn
<1>2. ~(f < g)
  <2>1. f < g => f \in 1..g - 1
    BY <1>1
  <2> QED BY <2>1 DEF FirstIn
<1>3. ~(g < f)
  <2>1. g < f => g \in 1..f - 1
    BY <1>1
  <2> QED BY <2>1 DEF FirstIn
<1> QED BY <1>1, <1>2, <1>3

LEMMA KeptMore ==
    ASSUME NEW h, NEW m, NEW ch, NEW on, NEW ch2, NEW on2,
           OneMore(h, m, ch, on, ch2, on2), KeptIn(h, ch, on)
    PROVE  KeptIn(Append(h, m), ch2, on2)
<1> DEFINE g == Append(h, m)  l == Len(h) + 1  name == m.origin.name
<1>1. /\ Len(h) \in Nat /\ Len(g) = l /\ g[l] = m
      /\ \A i \in 1..Len(h) : g[i] = h[i]
  BY AppendIs DEF OneMore
<1>2. /\ l \in 1..l /\ l \in Nat
      /\ \A i \in 1..l : i \in 1..Len(h) \/ i = l
      /\ \A i \in 1..Len(h) : i \in 1..l /\ i # l
      /\ \A i \in 1..l : \A j \in 1..i - 1 : j \in 1..Len(h)
      /\ \A i \in 1..Len(h) : i \in 1..l - 1
      /\ 1..l - 1 = 1..Len(h)
  BY <1>1
<1> HIDE DEF g, l
<1>3. ASSUME NEW i \in 1..Len(h) PROVE FirstIn(g, i) <=> FirstIn(h, i)
  BY <1>1, <1>2, <1>3 DEF FirstIn
<1>4. FirstIn(g, l) <=> /\ ToRecord(m)
                        /\ \A j \in 1..Len(h) : ~(ToRecord(h[j]) /\ h[j].origin.name = name)
  BY <1>1, <1>2 DEF FirstIn
<1>5. \A c \in 1..Len(ch2) : \E f \in 1..l :
         FirstIn(g, f) /\ ch2[c].topic = g[f].origin.name /\ ch2[c].type = StoredType(g[f])
  <2> SUFFICES ASSUME NEW c \in 1..Len(ch2)
               PROVE  \E f \in 1..l : /\ FirstIn(g, f) /\ ch2[c].topic = g[f].origin.name
                                      /\ ch2[c].type = StoredType(g[f])
    OBVIOUS
  <2>1. CASE c \in 1..Len(ch)
    <3>1. PICK f \in 1..Len(h) : /\ FirstIn(h, f) /\ ch[c].topic = h[f].origin.name
                                 /\ ch[c].type = StoredType(h[f])
      BY <2>1 DEF KeptIn
    <3>2. ch2[c] = ch[c]
      BY <2>1 DEF OneMore
    <3> QED BY <1>1, <1>2, <1>3, <3>1, <3>2
  <2>2. CASE c \notin 1..Len(ch)
    <3>1. /\ \A d \in 1..Len(ch) : ch[d].topic # name
          /\ ToRecord(m) /\ ch2[c].topic = name /\ ch2[c].type = StoredType(m)
      BY <2>2 DEF OneMore
    <3>2. FirstIn(g, l)
      BY <1>4, <3>1 DEF KeptIn
    <3> QED BY <1>1, <1>2, <3>1, <3>2
  <2> QED BY <2>1, <2>2
<1>6. \A i \in 1..l : ToRecord(g[i]) => \E c \in 1..Len(ch2) : ch2[c].topic = g[i].origin.name
  <2>1. \A c \in 1..Len(ch) : c \in 1..Len(ch2) /\ ch2[c] = ch[c]
    BY DEF OneMore
  <2>2. ASSUME NEW i \in 1..Len(h), ToRecord(g[i])
        PROVE  \E c \in 1..Len(ch2) : ch2[c].topic = g[i].origin.name
    <3>1. g[i] = h[i]
      BY <1>1, <2>2
    <3>2. PICK c \in 1..Len(ch) : ch[c].topic = h[i].origin.name
      BY <2>2, <3>1 DEF KeptIn
    <3> QED BY <2>1, <3>1, <3>2
  <2>3. ASSUME ToRecord(m) PROVE \E c \in 1..Len(ch2) : ch2[c].topic = name
    BY <2>1, <2>3 DEF OneMore, l
  <2> QED BY <1>1, <1>2, <2>2, <2>3
<1>7. ASSUME NEW i \in 1..Len(h)
      PROVE  i \in on2 <=> /\ ToRecord(g[i])
                           /\ \E f \in 1..l :
                                 /\ FirstIn(g, f) /\ g[f].origin.name = g[i].origin.name
                                 /\ StoredType(g[f]) = StoredType(g[i])
  <2>1. i \in on2 <=> /\ ToRecord(h[i])
                      /\ \E f \in 1..Len(h) :
                            /\ FirstIn(h, f) /\ h[f].origin.name = h[i].origin.name
                            /\ StoredType(h[f]) = StoredType(h[i])
    BY <1>7 DEF KeptIn, OneMore
  <2>2. FirstIn(g, l) /\ ToRecord(h[i]) => name # h[i].origin.name
    BY <1>4, <1>7
  <2> QED BY <1>1, <1>2, <1>3, <1>7, <2>1, <2>2
<1>8. l \in on2 <=> /\ ToRecord(m)
                    /\ \E f \in 1..l : /\ FirstIn(g, f) /\ g[f].origin.name = name
                                       /\ StoredType(g[f]) = StoredType(m)
  <2>1. ASSUME l \in on2
        PROVE  /\ ToRecord(m)
               /\ \E f \in 1..l : /\ FirstIn(g, f) /\ g[f].origin.name = name
                                  /\ StoredType(g[f]) = StoredType(m)
    <3>1. PICK c \in 1..Len(ch2) : ch2[c].topic = name /\ ch2[c].type = StoredType(m)
      BY <2>1 DEF OneMore, l
    <3>2. ToRecord(m)
      BY <2>1 DEF OneMore, l
    <3> QED BY <1>5, <3>1, <3>2
  <2>2. ASSUME l \notin on2, ToRecord(m), NEW f \in 1..l, FirstIn(g, f),
               g[f].origin.name = name, StoredType(g[f]) = StoredType(m)
        PROVE  FALSE
    <3>1. PICK c \in 1..Len(ch) : ch[c].topic = name /\ ch[c].type # StoredType(m)
      BY <2>2 DEF OneMore, l
    <3>2. PICK d \in 1..l : /\ FirstIn(g, d) /\ g[d].origin.name = name
                            /\ StoredType(g[d]) # StoredType(m)
      <4>1. PICK d \in 1..Len(h) : /\ FirstIn(h, d) /\ ch[c].topic = h[d].origin.name
                                   /\ ch[c].type = StoredType(h[d])
        BY DEF KeptIn
      <4> QED BY <1>1, <1>2, <1>3, <3>1, <4>1
    <3>3. f = d
      BY <1>1, <1>2, <2>2, <3>2, FirstInOne
    <3> QED BY <2>2, <3>2, <3>3
  <2> QED BY <2>1, <2>2
<1>9. KeptIn(g, ch2, on2)
  <2>1. \A i \in 1..l : i \in on2 <=> /\ ToRecord(g[i])
                                      /\ \E f \in 1..l :
                                            /\ FirstIn(g, f) /\ g[f].origin.name = g[i].origin.name
                                            /\ StoredType(g[f]) = StoredType(g[i])
    BY <1>1, <1>2, <1>7, <1>8
  <2> QED BY <1>1, <1>5, <1>6, <2>1 DEF KeptIn
<1> QED BY <1>9 DEF g

LEMMA FirstIs ==
    ASSUME Sound, NEW f, FirstIn(heard, f)
    PROVE  FirstOf(heard[f].origin.name) = f
<1> DEFINE S == {i \in DOMAIN heard :
                    heard[i].origin.name = heard[f].origin.name /\ ToRecord(heard[i])}
<1>1. Len(heard) \in Nat /\ DOMAIN heard = 1..Len(heard)
  BY SeqIs DEF Sound
<1>2. f \in S /\ S \subseteq Nat
  BY <1>1 DEF FirstIn
<1>3. \A i \in S : f <= i
  <2> SUFFICES ASSUME NEW i \in S, i < f PROVE FALSE
    BY <1>2
  <2>1. i \in 1..f - 1
    BY <1>1, <1>2
  <2> QED BY <2>1 DEF FirstIn
<1> HIDE DEF S
<1>4. Min(S) = f
  BY <1>2, <1>3, MinIs
<1> QED BY <1>4 DEF S, FirstOf

\* The file is in order of arrival; all of another tool's messages are in it,
\* and of ours what KeptIn says, unless a name can be taken for another.
Kept ==
    /\ InFileOrder
    /\ bag # <<>> => 1..Len(heard) \subseteq OnFile
    /\ bag = <<>> /\ AllPlain => KeptIn(heard, channels, OnFile)

LEMMA InitKept == Init => Kept
<1> SUFFICES ASSUME Init PROVE Kept
  OBVIOUS
<1>1. /\ heard = <<>> /\ file = <<>> /\ Len(<<>>) = 0
      /\ channels = [k \in DOMAIN bag |-> Foreign(bag[k])]
  BY EmptyIs DEF Init
<1>2. \A i : i \notin 1..0
  OBVIOUS
<1>3. bag = <<>> => channels = <<>>
  BY <1>1, EmptyIs
<1> QED BY <1>1, <1>2, <1>3 DEF Kept, InFileOrder, KeptIn

LEMMA KeptStep == Sound /\ Channelled /\ Kept /\ [Next]_vars => Kept'
<1> SUFFICES ASSUME Sound, Channelled, Kept, [Next]_vars PROVE Kept'
  OBVIOUS
<1>1. CASE UNCHANGED recorded
  <2>1. (\A h : ToRecord(h)' <=> ToRecord(h)) /\ \A h : StoredType(h)' = StoredType(h)
    BY <1>1 DEF ToRecord, StoredType, recorded, Channel
  <2>2. UNCHANGED <<bag, transport, prefix, heard, file, channels, OnFile>> /\ (AllPlain' <=> AllPlain)
    BY <1>1 DEF recorded, OnFile, AllPlain, Plain
  <2>3. ASSUME KeptIn(heard, channels, OnFile) PROVE KeptIn(heard, channels, OnFile)'
    <3>1. KeptIn(heard', channels', OnFile')
      BY <2>2, <2>3
    <3> QED BY <2>1, <3>1 DEF KeptIn, FirstIn
  <2> QED BY <2>2, <2>3 DEF Kept, InFileOrder
<1>2. CASE Hear
  <2>1. PICK m : /\ MessageOK(m) /\ heard' = Append(heard, m)
                 /\ bag = <<>> => m.origin \in Producers /\ Record(m)
                 /\ bag # <<>> => \E c \in DOMAIN bag : /\ m.origin = bag[c] /\ Put(c, m.log, m)
                                                        /\ UNCHANGED channels
    BY <1>2, HeardIs
  <2>2. UNCHANGED <<bag, transport, prefix>>
    BY <1>2, HeardIs
  <2> DEFINE l == Len(heard) + 1
  <2>3. /\ Len(heard) \in Nat /\ Len(heard') = l /\ heard'[l] = m
        /\ \A i \in 1..Len(heard) : heard'[i] = heard[i]
    BY <2>1, AppendIs DEF Sound
  <2>4. Len(file) \in Nat /\ Len(channels) \in Nat /\ DOMAIN channels = 1..Len(channels)
    BY SeqIs DEF Sound, Channelled
  <2>5. \A n \in 1..Len(file) : file[n].id \in 1..Len(heard)
    BY DEF Sound
  <2>6. \/ UNCHANGED file
        \/ \E c, t : file' = Append(file, [channel |-> c, publish |-> t, id |-> l])
    BY <1>2, HearIs
  <2> DEFINE Filed == \E c, t : file' = Append(file, [channel |-> c, publish |-> t, id |-> l])
  <2>7. InFileOrder' /\ OnFile' = IF Filed THEN OnFile \cup {l} ELSE OnFile
    <3>1. CASE ~Filed
      BY <2>6, <3>1 DEF Kept, InFileOrder, OnFile
    <3>2. CASE Filed
      <4>1. PICK c, t : file' = Append(file, [channel |-> c, publish |-> t, id |-> l])
        BY <3>2
      <4> DEFINE e == [channel |-> c, publish |-> t, id |-> l]
      <4>2. e.id = l
        OBVIOUS
      <4> HIDE DEF e
      <4>3. /\ Len(file') = Len(file) + 1 /\ file'[Len(file) + 1] = e
            /\ \A n \in 1..Len(file) : file'[n] = file[n]
        BY <4>1, AppendIs DEF Sound, e
      <4>4. \A n \in 1..Len(file') : n \in 1..Len(file) \/ n = Len(file) + 1
        BY <2>4, <4>3
      <4>5. OnFile' = OnFile \cup {l}
        <5>1. OnFile' = {file'[n].id : n \in 1..Len(file')}
          BY DEF OnFile
        <5>2. \A n \in 1..Len(file) : n \in 1..Len(file')
          BY <2>4, <4>3
        <5>3. Len(file) + 1 \in 1..Len(file')
          BY <2>4, <4>3
        <5>4. file'[Len(file) + 1].id = l
          BY <4>2, <4>3
        <5> HIDE DEF l
        <5>5. \A i : i \in OnFile' => i \in OnFile \/ i = l
          BY <4>3, <4>4, <5>1, <5>4 DEF OnFile
        <5>6. \A i : i \in OnFile => i \in OnFile'
          BY <4>3, <5>1, <5>2 DEF OnFile
        <5>7. l \in OnFile'
          BY <5>1, <5>3, <5>4
        <5> QED BY <5>5, <5>6, <5>7
      <4>6. InFileOrder'
        <5> SUFFICES ASSUME NEW n \in 1..Len(file'), NEW k \in 1..Len(file'), n < k
                     PROVE  file'[n].id < file'[k].id
          BY DEF InFileOrder
        <5>1. n \in 1..Len(file)
          BY <2>4, <4>3
        <5>2. CASE k \in 1..Len(file)
          BY <4>3, <5>1, <5>2 DEF Kept, InFileOrder
        <5>3. CASE k = Len(file) + 1
          <6>1. file'[n].id \in 1..Len(heard) /\ file'[k].id = l
            BY <2>5, <4>2, <4>3, <5>1, <5>3
          <6> QED BY <2>3, <6>1
        <5> QED BY <4>4, <5>2, <5>3
      <4> QED BY <3>2, <4>5, <4>6
    <3> QED BY <3>1, <3>2
  <2>8. CASE bag # <<>>
    <3>1. Filed
      BY <2>1, <2>8 DEF Put
    <3>2. \A i \in 1..l : i \in 1..Len(heard) \/ i = l
      BY <2>3
    <3>3. (1..Len(heard) \subseteq OnFile)'
      BY <2>3, <2>7, <2>8, <3>1, <3>2 DEF Kept
    <3> QED BY <2>2, <2>7, <2>8, <3>3 DEF Kept
  <2>9. CASE bag = <<>>
    <3> SUFFICES ASSUME AllPlain' PROVE KeptIn(heard, channels, OnFile)'
      BY <2>2, <2>7, <2>9 DEF Kept
    <3> DEFINE name == m.origin.name
    <3>1. AllPlain /\ Plain(m.origin)
      <4>1. \A p : Plain(p)' <=> Plain(p)
        BY <2>2 DEF Plain
      <4>2. \A i \in 1..l : Plain(heard'[i].origin)
        BY <2>3, <4>1 DEF AllPlain
      <4>3. l \in 1..l /\ \A i \in 1..Len(heard) : i \in 1..l
        BY <2>3
      <4> QED BY <2>3, <4>2, <4>3 DEF AllPlain
    <3>2. /\ Said(m).stream = name /\ Stored(m) = StoredType(m)
          /\ Admitted(m) <=> /\ ToRecord(m)
                             /\ \A c \in IdsOf(name) : channels[c].type = StoredType(m)
      BY <2>1, <2>9, <3>1, SaidIs DEF Sound
    <3>3. /\ Len(channels') \in Nat /\ Len(channels) <= Len(channels')
          /\ \A c \in 1..Len(channels) : channels'[c] = channels[c]
          /\ \A c \in 1..Len(channels') :
                \/ c \in 1..Len(channels)
                \/ /\ IdsOf(name) = {} /\ Admitted(m)
                   /\ channels'[c].topic = name /\ channels'[c].type = StoredType(m)
          /\ Filed <=> Admitted(m)
          /\ Admitted(m) => \E c \in 1..Len(channels') :
                               /\ channels'[c].topic = name
                               /\ channels'[c].type = StoredType(m)
      <4>1. CASE ~Admitted(m)
        <5>1. channels' = channels /\ file' = file
          BY <2>1, <2>9, <4>1, RecordIs
        <5>2. ~Filed
          <6> SUFFICES ASSUME NEW c, NEW t,
                              file' = Append(file, [channel |-> c, publish |-> t, id |-> l])
                       PROVE  FALSE
            OBVIOUS
          <6>1. Len(file') = Len(file) + 1
            BY AppendIs DEF Sound
          <6> QED BY <2>4, <5>1, <6>1
        <5> HIDE DEF Filed
        <5> QED BY <2>4, <4>1, <5>1, <5>2
      <4>2. CASE Admitted(m)
        <5>1. Enters(name, StoredType(m)) /\ \A c \in IdsOf(name) : channels[c].type = StoredType(m)
          BY <2>1, <2>9, <3>2, <4>2, RecordIs
        <5>2. Filed
          BY <5>1 DEF Enters
        <5> DEFINE type == StoredType(m)
        <5> HIDE DEF name, type, Filed
        <5>3. /\ IsSeq(channels') /\ Len(channels) <= Len(channels')
              /\ \A c \in 1..Len(channels) : channels'[c] = channels[c]
              /\ \A c \in 1..Len(channels') :
                    \/ c \in 1..Len(channels)
                    \/ /\ IdsOf(name) = {}
                       /\ channels'[c].topic = name /\ channels'[c].type = type
              /\ \E c \in 1..Len(channels') : channels'[c].topic = name /\ channels'[c].type = type
          <6>1. Enters(name, type) /\ \A c \in IdsOf(name) : channels[c].type = type
            BY <5>1 DEF type
          <6> QED BY <2>9, <6>1, EntersIs
        <5>4. Len(channels') \in Nat
          BY <5>3, SeqIs
        <5> QED BY <4>2, <5>2, <5>3, <5>4 DEF type
      <4> QED BY <4>1, <4>2
    <3> HIDE DEF Filed
    <3>4. OneMore(heard, m, channels, OnFile, channels', OnFile')
      <4>1. IsSeq(heard)
        BY DEF Sound
      <4>2. \A c \in 1..Len(channels') :
               \/ c \in 1..Len(channels)
               \/ /\ \A d \in 1..Len(channels) : channels[d].topic # name
                  /\ ToRecord(m) /\ channels'[c].topic = name
                  /\ channels'[c].type = StoredType(m)
        BY <2>4, <3>2, <3>3 DEF IdsOf
      <4>3. \A i \in 1..Len(heard) : i \in OnFile' <=> i \in OnFile
        <5>1. \A i \in 1..Len(heard) : i # l
          BY <2>3
        <5> QED BY <2>7, <5>1
      <4>4. l \in OnFile' <=> Admitted(m)
        <5>1. l \notin OnFile
          <6>1. l \notin 1..Len(heard)
            BY <2>3
          <6> QED BY <2>5, <6>1 DEF OnFile
        <5> QED BY <2>7, <3>3, <5>1
      <4>5. ~Admitted(m) /\ ToRecord(m) => \E c \in 1..Len(channels) :
                                              /\ channels[c].topic = name
                                              /\ channels[c].type # StoredType(m)
        BY <2>4, <3>2 DEF IdsOf
      <4> QED BY <2>4, <3>2, <3>3, <4>1, <4>2, <4>3, <4>4, <4>5 DEF OneMore
    <3>5. KeptIn(Append(heard, m), channels', OnFile')
      <4>1. KeptIn(heard, channels, OnFile)
        BY <2>9, <3>1 DEF Kept
      <4> QED BY <3>4, <4>1, KeptMore
    <3>6. (\A h : ToRecord(h)' <=> ToRecord(h)) /\ \A h : StoredType(h)' = StoredType(h)
      BY <2>2 DEF ToRecord, StoredType, Channel
    <3>7. KeptIn(heard', channels', OnFile')
      BY <2>1, <3>5
    <3> QED BY <3>6, <3>7 DEF KeptIn, FirstIn
  <2> QED BY <2>8, <2>9
<1>3. CASE Open \/ Play \/ Rewind \/ UNCHANGED vars
  BY <1>1, <1>3 DEF Open, Play, Rewind, vars
<1> QED BY <1>2, <1>3 DEF Next

\* Recorded and on file is what has the type its stream had first.
LEMMA OnFileIs ==
    ASSUME Sound, Kept, bag = <<>> => AllPlain, NEW i \in 1..Len(heard)
    PROVE  i \in OnFile
           <=> /\ ToRecord(heard[i])
               /\ bag = <<>> => StoredType(heard[i])
                                   = StoredType(heard[FirstOf(heard[i].origin.name)])
<1>1. CASE bag # <<>>
  BY <1>1 DEF Kept, ToRecord
<1>2. CASE bag = <<>>
  <2> DEFINE name == heard[i].origin.name
  <2>1. KeptIn(heard, channels, OnFile)
    BY <1>2 DEF Kept
  <2>2. ASSUME i \in OnFile
        PROVE  ToRecord(heard[i]) /\ StoredType(heard[i]) = StoredType(heard[FirstOf(name)])
    <3>1. PICK f \in 1..Len(heard) : /\ FirstIn(heard, f) /\ heard[f].origin.name = name
                                     /\ StoredType(heard[f]) = StoredType(heard[i])
      BY <2>1, <2>2 DEF KeptIn
    <3>2. ToRecord(heard[i])
      BY <2>1, <2>2 DEF KeptIn
    <3>3. FirstOf(name) = f
      BY <3>1, FirstIs
    <3> QED BY <3>1, <3>2, <3>3
  <2>3. ASSUME ToRecord(heard[i]), StoredType(heard[i]) = StoredType(heard[FirstOf(name)])
        PROVE  i \in OnFile
    <3>1. PICK c \in 1..Len(channels) : channels[c].topic = name
      BY <2>1, <2>3 DEF KeptIn
    <3>2. PICK f \in 1..Len(heard) : FirstIn(heard, f) /\ heard[f].origin.name = name
      BY <2>1, <3>1 DEF KeptIn
    <3>3. FirstOf(name) = f
      BY <3>2, FirstIs
    <3> QED BY <2>1, <2>3, <3>2, <3>3 DEF KeptIn
  <2> QED BY <1>2, <2>2, <2>3
<1> QED BY <1>1, <1>2

LEMMA WholeIsHanded ==
    ASSUME Sound, Channelled, Opened, HandedRight, Kept
    PROVE  WholeRecording
<1> SUFFICES ASSUME phase = "playing", position > Len(file),
                    \A i \in DOMAIN heard : Plain(heard[i].origin)
             PROVE  /\ {handed[k].id : k \in DOMAIN handed} = {i \in DOMAIN heard : Due(i)}
                    /\ \A j, k \in DOMAIN handed : j < k => handed[j].id < handed[k].id
  BY DEF WholeRecording
<1>1. /\ DOMAIN handed = 1..Len(handed) /\ DOMAIN heard = 1..Len(heard)
      /\ DOMAIN channels = 1..Len(channels) /\ Len(file) \in Nat /\ position \in Nat
  BY SeqIs DEF Sound, Channelled
<1>2. AllPlain
  BY <1>1 DEF AllPlain
<1>3. ASSUME NEW n \in 1..Len(file)
      PROVE  /\ file[n].id \in 1..Len(heard) /\ n < position
             /\ Topic(n) \in DOMAIN byTopic
                <=> Selected(player.patterns, heard[file[n].id].origin.name)
  <2>1. file[n].id \in 1..Len(heard) /\ FiledRight(n)
    BY <1>3 DEF Sound, Channelled
  <2> DEFINE c == file[n].channel
  <2>2. c \in DOMAIN channels /\ NameIn(channels[c]) = heard[file[n].id].origin.name
    BY <1>1, <1>2, <2>1 DEF FiledRight, AllPlain
  <2>3. n < position
    BY <1>1, <1>3
  <2> QED BY <2>1, <2>2, <2>3, TopicsFound DEF Topic
<1>4. ASSUME NEW i \in 1..Len(heard)
      PROVE  Due(i) <=> i \in OnFile /\ Selected(player.patterns, heard[i].origin.name)
  BY <1>2, <1>4, OnFileIs DEF Due
<1>5. ASSUME NEW k \in 1..Len(handed)
      PROVE  handed[k].id \in 1..Len(heard) /\ Due(handed[k].id)
  <2>1. PICK n \in 1..Len(file) : handed[k].id = file[n].id /\ Topic(n) \in DOMAIN byTopic
    BY <1>5 DEF HandedRight
  <2> QED BY <1>3, <1>4, <2>1 DEF OnFile
<1>6. ASSUME NEW i \in 1..Len(heard), Due(i)
      PROVE  \E k \in 1..Len(handed) : handed[k].id = i
  <2>1. PICK n \in 1..Len(file) : file[n].id = i
    BY <1>4, <1>6 DEF OnFile
  <2>2. n < position /\ Topic(n) \in DOMAIN byTopic
    BY <1>3, <1>4, <1>6, <2>1
  <2> QED BY <2>1, <2>2 DEF HandedRight
<1>7. {handed[k].id : k \in DOMAIN handed} = {i \in DOMAIN heard : Due(i)}
  BY <1>1, <1>5, <1>6
<1> QED BY <1>1, <1>7 DEF HandedRight

LEMMA InitOpened == Init => Opened /\ HandedRight
<1> SUFFICES ASSUME Init PROVE Opened /\ HandedRight
  OBVIOUS
<1>1. phase = "recording" /\ handed = <<>> /\ file = <<>> /\ Len(<<>>) = 0
  BY EmptyIs DEF Init
<1> QED BY <1>1 DEF Opened, HandedRight

\* Whatever was recorded, by this tool or another and under any prefix, and
\* however it is replayed, it goes out under its producer's name, renamed, and as
\* the type it was stored as, spelled for the transport and the replay's prefix;
\* of channels that share a topic, under the name they share and the type of one
\* of them.  Streams of no type with a separator in their name are left out.
THEOREM NamesComeBack == Spec => []NamesSurvive
<1> DEFINE IInv == Sound /\ Channelled /\ Kept /\ Opened /\ HandedRight
<1>1. Init => IInv
  BY InitSound, InitChannelled, InitKept, InitOpened
<1>2. IInv /\ [Next]_vars => IInv'
  BY SoundStep, ChannelledStep, KeptStep, OpenedStep, HandedStep DEF Kept
<1>3. IInv => NamesSurvive
  BY NamesAreKept
<1> QED BY <1>1, <1>2, <1>3, PTL DEF Spec

\* At the end of each pass what was heard of the wanted streams has been handed
\* out, all of it, once and in order, but for messages whose stream had another
\* type first.
THEOREM AllIsHanded == Spec => []WholeRecording
<1> DEFINE IInv == Sound /\ Channelled /\ Kept /\ Opened /\ HandedRight
<1>1. Init => IInv
  BY InitSound, InitChannelled, InitKept, InitOpened
<1>2. IInv /\ [Next]_vars => IInv'
  BY SoundStep, ChannelledStep, KeptStep, OpenedStep, HandedStep DEF Kept
<1>3. IInv => WholeRecording
  BY WholeIsHanded
<1> QED BY <1>1, <1>2, <1>3, PTL DEF Spec
=============================================================================
