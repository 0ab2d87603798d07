--------------------------- MODULE RecorderProofs ---------------------------
(***************************************************************************)
(* The recorder for any set of inputs, any codecs and any number of        *)
(* messages: what is in the file agrees with its channels, is in order of  *)
(* arrival and numbered without a gap; nothing passed on is lost without   *)
(* being counted, and what no viewer can draw is reported.                 *)
(***************************************************************************)
EXTENDS Recorder, FiniteSetTheorems, TLAPS

Ascending(q) == \A i, j \in 1..Len(q) : i < j => q[i].id < q[j].id

Before(q, r) == \A i \in 1..Len(q), j \in 1..Len(r) : q[i].id < r[j].id

UpTo(q, n) == \A i \in 1..Len(q) : q[i].id <= n

\* The pipeline from the file back to the transport is in order of arrival.
InOrder ==
    /\ Ascending(file) /\ Ascending(captured) /\ Ascending(arrivals)
    /\ Before(file, captured) /\ Before(file, arrivals) /\ Before(captured, arrivals)
    /\ UpTo(file, arrived) /\ UpTo(captured, arrived) /\ UpTo(arrivals, arrived)

\* A channel's encoding follows from its stream and its type.
EncodingSettled ==
    \A s \in Streams : registered[s] # Unregistered =>
        encoding[s] = Resolve(CodecOf(s), IF registered[s] = "Custom" THEN "Custom"
                                          ELSE "Image")

\* `sequence` is the number of the stream's last message in the file.
Numbered ==
    /\ \A k \in 1..Len(file) :
          file[k].sequence \in 1..sequence[file[k].stream]
    /\ \A s \in Streams : sequence[s] > 0 =>
          \E k \in 1..Len(file) : file[k].stream = s /\ file[k].sequence = sequence[s]

IInv ==
    /\ TypeOK
    /\ InOrder /\ EncodingSettled /\ ChannelTellsTheTruth
    /\ Numbered /\ DeliveryOrder
    /\ Accounted /\ DefectsReported

-----------------------------------------------------------------------------
(* Queues *)

LEMMA Appended ==
    ASSUME NEW S, NEW q \in Seq(S), NEW e \in S
    PROVE  /\ Append(q, e) \in Seq(S)
           /\ Len(q) \in Nat /\ Len(Append(q, e)) = Len(q) + 1
           /\ \A i \in 1..Len(q) : Append(q, e)[i] = q[i]
           /\ Append(q, e)[Len(q) + 1] = e
  OBVIOUS

LEMMA Popped ==
    ASSUME NEW S, NEW q \in Seq(S), q # <<>>
    PROVE  /\ Tail(q) \in Seq(S)
           /\ Len(q) \in Nat /\ Len(Tail(q)) = Len(q) - 1
           /\ \A i \in 1..Len(Tail(q)) : i + 1 \in 1..Len(q) /\ Tail(q)[i] = q[i + 1]
           /\ 1 \in 1..Len(q) /\ Head(q) = q[1] /\ Head(q) \in S
  OBVIOUS

LEMMA NothingQueued ==
    ASSUME NEW q, NEW n
    PROVE  Ascending(<<>>) /\ Before(q, <<>>) /\ Before(<<>>, q) /\ UpTo(<<>>, n)
  BY DEF Ascending, Before, UpTo

LEMMA AscendingAppend ==
    ASSUME NEW S, NEW q \in Seq(S), NEW e \in S, Ascending(q),
           \A x \in S : x.id \in Nat,
           \A i \in 1..Len(q) : q[i].id < e.id
    PROVE  Ascending(Append(q, e))
<1> SUFFICES ASSUME NEW i \in 1..Len(q) + 1, NEW j \in 1..Len(q) + 1, i < j
             PROVE  Append(q, e)[i].id < Append(q, e)[j].id
  BY Appended DEF Ascending
<1>1. i \in 1..Len(q)
  BY Appended
<1>2. CASE j \in 1..Len(q)
  BY <1>1, <1>2, Appended DEF Ascending
<1>3. CASE j = Len(q) + 1
  BY <1>1, <1>3, Appended
<1> QED BY <1>2, <1>3, Appended

LEMMA AscendingTail ==
    ASSUME NEW S, NEW q \in Seq(S), q # <<>>, Ascending(q)
    PROVE  /\ Ascending(Tail(q))
           /\ \A j \in 1..Len(Tail(q)) : Head(q).id < Tail(q)[j].id
<1>1. \A i, j \in 1..Len(Tail(q)) : i < j => Tail(q)[i].id < Tail(q)[j].id
  <2> TAKE i, j \in 1..Len(Tail(q))
  <2> HAVE i < j
  <2>1. i + 1 < j + 1 /\ i + 1 \in 1..Len(q) /\ j + 1 \in 1..Len(q)
    BY Popped
  <2> QED BY <2>1, Popped DEF Ascending
<1>2. \A j \in 1..Len(Tail(q)) : Head(q).id < Tail(q)[j].id
  <2> TAKE j \in 1..Len(Tail(q))
  <2>1. 1 < j + 1 /\ 1 \in 1..Len(q) /\ j + 1 \in 1..Len(q)
    BY Popped
  <2> QED BY <2>1, Popped DEF Ascending
<1> QED BY <1>1, <1>2 DEF Ascending

LEMMA BeforeAppend ==
    ASSUME NEW S, NEW T, NEW q \in Seq(S), NEW r \in Seq(T), Before(q, r)
    PROVE  /\ \A e \in S : (\A j \in 1..Len(r) : e.id < r[j].id) => Before(Append(q, e), r)
           /\ \A e \in T : (\A i \in 1..Len(q) : q[i].id < e.id) => Before(q, Append(r, e))
<1>1. ASSUME NEW e \in S, \A j \in 1..Len(r) : e.id < r[j].id
      PROVE  Before(Append(q, e), r)
  <2> SUFFICES ASSUME NEW i \in 1..Len(q) + 1, NEW j \in 1..Len(r)
               PROVE  Append(q, e)[i].id < r[j].id
    BY Appended DEF Before
  <2>1. CASE i \in 1..Len(q)
    BY <2>1, Appended DEF Before
  <2>2. CASE i = Len(q) + 1
    BY <2>2, <1>1, Appended
  <2> QED BY <2>1, <2>2, Appended
<1>2. ASSUME NEW e \in T, \A i \in 1..Len(q) : q[i].id < e.id
      PROVE  Before(q, Append(r, e))
  <2> SUFFICES ASSUME NEW i \in 1..Len(q), NEW j \in 1..Len(r) + 1
               PROVE  q[i].id < Append(r, e)[j].id
    BY Appended DEF Before
  <2>1. CASE j \in 1..Len(r)
    BY <2>1, Appended DEF Before
  <2>2. CASE j = Len(r) + 1
    BY <2>2, <1>2, Appended
  <2> QED BY <2>1, <2>2, Appended
<1> QED BY <1>1, <1>2

LEMMA BeforeTail ==
    ASSUME NEW S, NEW T, NEW q \in Seq(S), NEW r \in Seq(T), Before(q, r)
    PROVE  /\ q # <<>> => /\ Before(Tail(q), r)
                          /\ \A j \in 1..Len(r) : Head(q).id < r[j].id
           /\ r # <<>> => /\ Before(q, Tail(r))
                          /\ \A i \in 1..Len(q) : q[i].id < Head(r).id
<1>1. ASSUME q # <<>>
      PROVE  Before(Tail(q), r) /\ \A j \in 1..Len(r) : Head(q).id < r[j].id
  BY <1>1, Popped DEF Before
<1>2. ASSUME r # <<>>
      PROVE  Before(q, Tail(r)) /\ \A i \in 1..Len(q) : q[i].id < Head(r).id
  BY <1>2, Popped DEF Before
<1> QED BY <1>1, <1>2

LEMMA UpToKept ==
    ASSUME NEW S, NEW q \in Seq(S), NEW n \in Nat, UpTo(q, n),
           \A x \in S : x.id \in Nat
    PROVE  /\ UpTo(q, n + 1)
           /\ \A e \in S : e.id <= n => UpTo(Append(q, e), n)
           /\ \A e \in S : e.id <= n + 1 => UpTo(Append(q, e), n + 1)
           /\ q # <<>> => UpTo(Tail(q), n) /\ Head(q).id <= n
<1>1. \A i \in 1..Len(q) : q[i] \in S /\ q[i].id \in Nat
  OBVIOUS
<1>2. UpTo(q, n + 1)
  BY <1>1 DEF UpTo
<1>3. ASSUME NEW e \in S, NEW m \in Nat, UpTo(q, m), e.id <= m PROVE UpTo(Append(q, e), m)
  <2> SUFFICES ASSUME NEW i \in 1..Len(q) + 1 PROVE Append(q, e)[i].id <= m
    BY Appended DEF UpTo
  <2>1. CASE i \in 1..Len(q)
    BY <2>1, <1>3, Appended DEF UpTo
  <2>2. CASE i = Len(q) + 1
    BY <2>2, <1>3, Appended
  <2> QED BY <2>1, <2>2, Appended
<1>4. ASSUME q # <<>> PROVE UpTo(Tail(q), n) /\ Head(q).id <= n
  BY <1>4, Popped DEF UpTo
<1>5. n + 1 \in Nat
  OBVIOUS
<1> QED BY <1>2, <1>3, <1>4, <1>5

-----------------------------------------------------------------------------
(* Types *)

LEMMA Records ==
    /\ \A x \in Message : x.id \in Nat /\ x.stream \in Streams /\ x.kind \in Kinds
    /\ \A x \in Entry : /\ x.id \in Nat /\ x.stream \in Streams /\ x.recorded \in Types
                        /\ x.codec \in Codecs /\ x.sequence \in Nat
  BY DEF Message, Entry

LEMMA CodecsKnown ==
    ASSUME NEW s \in Streams, NEW m \in Message
    PROVE  /\ CodecOf(s) \in Codecs
           /\ MsgName(m) \in {"Custom", "Image"}
           /\ Resolve(CodecOf(s), MsgName(m)) \in Codecs
           /\ Recorded(Resolve(CodecOf(s), MsgName(m)), m) \in Types
<1>1. CodecOf(s) \in Codecs
  BY RecorderAssumption DEF CodecOf, Codecs
<1>2. MsgName(m) \in {"Custom", "Image"}
  BY DEF MsgName
<1>3. Resolve(CodecOf(s), MsgName(m)) \in Codecs
  BY <1>1 DEF Resolve, Codecs
<1>4. Recorded(Resolve(CodecOf(s), MsgName(m)), m) \in Types
  BY <1>2 DEF Recorded, Types
<1> QED BY <1>1, <1>2, <1>3, <1>4

LEMMA InitTypeOK == Init => TypeOK
  BY DEF Init, TypeOK, Unregistered

\* What the first message of the queue turns into.
First == Head(captured)
FirstCodec == Resolve(CodecOf(First.stream), MsgName(First))
FirstType == Recorded(FirstCodec, First)
FirstEntry == [id |-> First.id, stream |-> First.stream, kind |-> First.kind,
               recorded |-> FirstType, codec |-> FirstCodec,
               sequence |-> sequence[First.stream] + 1]

LEMMA FirstTyped ==
    ASSUME TypeOK, captured # <<>>
    PROVE  /\ First \in Message /\ First.stream \in Streams
           /\ FirstCodec \in Codecs /\ FirstType \in Types /\ FirstEntry \in Entry
           /\ sequence[First.stream] \in Nat
<1>1. First \in Message
  BY Popped DEF TypeOK, First
<1>2. First.stream \in Streams /\ First.id \in Nat /\ First.kind \in Kinds
  BY <1>1, Records
<1>3. FirstCodec \in Codecs /\ FirstType \in Types
  BY <1>1, <1>2, CodecsKnown DEF FirstCodec, FirstType
<1>4. sequence[First.stream] \in Nat
  BY <1>2 DEF TypeOK
<1> QED BY <1>1, <1>2, <1>3, <1>4 DEF FirstEntry, Entry

\* A message is stored or dropped: the two shapes of a Write.
Stored ==
    /\ registered[First.stream] \in {Unregistered, FirstType}
    /\ registered' = [registered EXCEPT ![First.stream] = FirstType]
    /\ encoding' = IF registered[First.stream] = Unregistered
                   THEN [encoding EXCEPT ![First.stream] = FirstCodec] ELSE encoding
    /\ sequence' = [sequence EXCEPT ![First.stream] = @ + 1]
    /\ file' = Append(file, FirstEntry)
    /\ unencodable' = unencodable

Dropped ==
    /\ UNCHANGED <<registered, encoding, sequence, file>>
    /\ unencodable' = [unencodable EXCEPT ![First.stream] = @ + 1]

LEMMA WriteSplits == Write => Stored \/ Dropped
<1> SUFFICES ASSUME Write PROVE Stored \/ Dropped
  OBVIOUS
<1>1. CASE ~Encodes(FirstCodec, First) \/ TypeChanged(First.stream, FirstType)
  BY <1>1 DEF Write, Drop, Dropped, First, FirstCodec, FirstType
<1>2. CASE ~(~Encodes(FirstCodec, First) \/ TypeChanged(First.stream, FirstType))
  <2>1. Store(First, FirstCodec, FirstType)
    BY <1>2 DEF Write, First, FirstCodec, FirstType
  <2>2. registered[First.stream] \in {Unregistered, FirstType}
    BY <1>2 DEF TypeChanged
  <2> QED BY <2>1, <2>2 DEF Store, Announce, Stored, FirstEntry
<1> QED BY <1>1, <1>2

LEMMA Counted ==
    ASSUME NEW f \in [Streams -> Nat], NEW s \in Streams
    PROVE  [f EXCEPT ![s] = @ + 1] \in [Streams -> Nat]
  OBVIOUS

LEMMA WriteTypeOK == TypeOK /\ Write => TypeOK'
<1> SUFFICES ASSUME TypeOK, Write PROVE TypeOK'
  OBVIOUS
<1> USE DEF TypeOK
<1>1. captured # <<>> /\ captured' = Tail(captured) /\ captured' \in Seq(Message)
  BY Popped DEF Write
<1>2. UNCHANGED <<arrivals, writer, arrived, sent, forwarder, subscriber, sender, phase>>
  BY DEF Write, tasks
<1>3. /\ unrenderable' \in [Streams -> Nat]
      /\ unencodable' \in [Streams -> Nat]
  <2>1. First.stream \in Streams
    BY <1>1, FirstTyped
  <2>2. unrenderable' = unrenderable
        \/ unrenderable' = [unrenderable EXCEPT ![First.stream] = @ + 1]
    BY DEF Write, First
  <2>3. unencodable' = unencodable
        \/ unencodable' = [unencodable EXCEPT ![First.stream] = @ + 1]
    BY DEF Write, Drop, Store, First
  <2>4. /\ [unrenderable EXCEPT ![First.stream] = @ + 1] \in [Streams -> Nat]
        /\ [unencodable EXCEPT ![First.stream] = @ + 1] \in [Streams -> Nat]
    BY <2>1, Counted
  <2>5. unrenderable' \in [Streams -> Nat]
    BY <2>2, <2>4
  <2> QED BY <2>3, <2>4, <2>5
<1>4. CASE Stored
  <2> USE DEF Stored
  <2>1. /\ First.stream \in Streams /\ FirstCodec \in Codecs /\ FirstType \in Types
        /\ FirstEntry \in Entry /\ sequence[First.stream] \in Nat
    BY <1>1, FirstTyped
  <2>2. file' \in Seq(Entry)
    BY <1>4, <2>1, Appended
  <2>3. /\ registered' \in [Streams -> Types \cup {Unregistered}]
        /\ encoding' \in [Streams -> Codecs \cup {Unregistered}]
        /\ sequence' \in [Streams -> Nat]
    BY <1>4, <2>1, SMTT(40)
  <2>4. \A s \in Streams : encoding'[s] = Unregistered <=> registered'[s] = Unregistered
    <3>1. Unregistered \notin Types /\ Unregistered \notin Codecs
      BY DEF Types, Codecs, Unregistered
    <3> QED BY <1>4, <2>1, <3>1
  <2> QED BY <1>1, <1>2, <1>3, <2>2, <2>3, <2>4
<1>5. CASE Dropped
  BY <1>1, <1>2, <1>3, <1>5 DEF Dropped
<1> QED BY <1>4, <1>5, WriteSplits

LEMMA NextTypeOK == TypeOK /\ [Next]_vars => TypeOK'
<1> SUFFICES ASSUME TypeOK, [Next]_vars PROVE TypeOK'
  OBVIOUS
<1> USE DEF TypeOK, written, tasks
<1>1. CASE Forward
  <2>1. PICK m \in Inputs : arrivals' = Append(arrivals, [stream |-> m.stream, kind |-> m.kind,
                                                          id |-> arrived + 1])
    BY <1>1 DEF Forward
  <2>2. [stream |-> m.stream, kind |-> m.kind, id |-> arrived + 1] \in Message
    BY RecorderAssumption DEF Message, Streams
  <2>3. arrivals' \in Seq(Message)
    BY <2>1, <2>2, Appended
  <2> QED BY <1>1, <2>3 DEF Forward
<1>2. CASE ForwarderEnds
  BY <1>2 DEF ForwarderEnds
<1>3. CASE Subscribe
  <2>1. Tail(arrivals) \in Seq(Message) /\ Head(arrivals) \in Message
    BY <1>3, Popped DEF Subscribe
  <2>2. Append(captured, Head(arrivals)) \in Seq(Message)
    BY <2>1, Appended
  <2>3. UNCHANGED <<writer, arrived, forwarder, sender, phase, written>>
    BY <1>3 DEF Subscribe
  <2>4. /\ arrivals' \in Seq(Message) /\ captured' \in Seq(Message) 
        /\ sent' \in [Streams -> Nat]
        /\ subscriber' \in {"running", "aborted", "gone"}
    <3>1. CASE Head(arrivals).kind \in {"own", "unwanted"}
      BY <1>3, <2>1, <3>1 DEF Subscribe
    <3>2. CASE Head(arrivals).kind \notin {"own", "unwanted"} /\ writer = "running"
      <4>1. /\ arrivals' = Tail(arrivals) /\ captured' = Append(captured, Head(arrivals))
            /\ sent' = [sent EXCEPT ![Head(arrivals).stream] = @ + 1]
            /\ UNCHANGED subscriber
        BY <1>3, <3>2 DEF Subscribe, Queued
      <4>2. Head(arrivals).stream \in Streams
        BY <2>1, Records
      <4>3. sent' \in [Streams -> Nat]
        BY <4>1, <4>2, Counted
      <4> QED BY <2>1, <2>2, <4>1, <4>3
    <3>3. CASE Head(arrivals).kind \notin {"own", "unwanted"} /\ writer # "running"
      <4>1. SubscriberDrops /\ UNCHANGED <<captured, sent>>
        BY <1>3, <3>3 DEF Subscribe
      <4> QED BY <4>1 DEF SubscriberDrops
    <3> QED BY <3>1, <3>2, <3>3
  <2> QED BY <2>3, <2>4
<1>4. CASE SubscriberEnds
  BY <1>4 DEF SubscriberEnds, SubscriberDrops
<1>5. CASE Write
  BY <1>5, WriteTypeOK
<1>6. CASE WriteFails
  BY <1>6 DEF WriteFails
<1>7. CASE Finalize
  BY <1>7 DEF Finalize
<1>8. CASE Finish
  BY <1>8 DEF Finish, AbortSubscriber
<1>9. CASE DropSender
  BY <1>9 DEF DropSender
<1>10. CASE ReplayFails
  BY <1>10 DEF ReplayFails, AbortSubscriber
<1>11. CASE Exit
  BY <1>11 DEF Exit
<1>12. CASE UNCHANGED vars
  BY <1>12 DEF vars
<1> QED BY <1>1, <1>2, <1>3, <1>4, <1>5, <1>6, <1>7, <1>8, <1>9, <1>10, <1>11, <1>12 DEF Next

-----------------------------------------------------------------------------
(* Order *)

LEMMA InOrderInit == Init => InOrder
  BY NothingQueued DEF Init, InOrder

LEMMA InOrderForward == TypeOK /\ InOrder /\ Forward => InOrder'
<1> SUFFICES ASSUME TypeOK, InOrder, Forward PROVE InOrder'
  OBVIOUS
<1>1. PICK m \in Inputs : arrivals' = Append(arrivals, [stream |-> m.stream, kind |-> m.kind,
                                                        id |-> arrived + 1])
  BY DEF Forward
<1> DEFINE new == [stream |-> m.stream, kind |-> m.kind, id |-> arrived + 1]
<1>2. new \in Message /\ new.id = arrived + 1 /\ arrived \in Nat
  BY RecorderAssumption DEF Message, Streams, TypeOK
<1>3. UNCHANGED <<file, captured>> /\ arrived' = arrived + 1
  BY DEF Forward, written
<1>4. arrivals' = Append(arrivals, new)
  BY <1>1
<1> HIDE DEF new
<1>5. file \in Seq(Entry) /\ captured \in Seq(Message) /\ arrivals \in Seq(Message)
  BY DEF TypeOK
<1>6. /\ UpTo(file, arrived + 1) /\ UpTo(captured, arrived + 1)
      /\ UpTo(Append(arrivals, new), arrived + 1)
  <2>1. UpTo(file, arrived) /\ UpTo(captured, arrived) /\ UpTo(arrivals, arrived)
    BY DEF InOrder
  <2>2. UpTo(file, arrived + 1)
    BY <1>2, <1>5, <2>1, UpToKept, Records
  <2>3. UpTo(captured, arrived + 1)
    BY <1>2, <1>5, <2>1, UpToKept, Records
  <2>4. new.id <= arrived + 1
    BY <1>2
  <2>5. UpTo(Append(arrivals, new), arrived + 1)
    BY <1>2, <1>5, <2>1, <2>4, UpToKept, Records
  <2> QED BY <2>2, <2>3, <2>5
<1>7. /\ \A i \in 1..Len(file) : file[i].id < new.id
      /\ \A i \in 1..Len(captured) : captured[i].id < new.id
      /\ \A i \in 1..Len(arrivals) : arrivals[i].id < new.id
  <2>1. /\ \A i \in 1..Len(file) : file[i].id \in Nat
        /\ \A i \in 1..Len(captured) : captured[i].id \in Nat
        /\ \A i \in 1..Len(arrivals) : arrivals[i].id \in Nat
    BY <1>5, Records
  <2> QED BY <1>2, <2>1 DEF InOrder, UpTo
<1>8. Ascending(Append(arrivals, new))
  BY <1>2, <1>5, <1>7, AscendingAppend, Records DEF InOrder
<1>9. Before(file, Append(arrivals, new)) /\ Before(captured, Append(arrivals, new))
  BY <1>2, <1>5, <1>7, BeforeAppend DEF InOrder
<1> QED BY <1>3, <1>4, <1>6, <1>8, <1>9 DEF InOrder

LEMMA InOrderSubscribe == TypeOK /\ InOrder /\ Subscribe => InOrder'
<1> SUFFICES ASSUME TypeOK, InOrder, Subscribe PROVE InOrder'
  OBVIOUS
<1>1. UNCHANGED <<file, arrived>> /\ arrivals # <<>>
  BY DEF Subscribe, written
<1>2. /\ file \in Seq(Entry) /\ captured \in Seq(Message) /\ arrivals \in Seq(Message)
      /\ arrived \in Nat /\ Head(arrivals) \in Message
  BY <1>1, Popped DEF TypeOK
<1>3. /\ Ascending(Tail(arrivals)) /\ Before(file, Tail(arrivals))
      /\ Before(captured, Tail(arrivals)) /\ UpTo(Tail(arrivals), arrived)
  BY <1>1, <1>2, AscendingTail, BeforeTail, UpToKept, Records DEF InOrder
<1>4. CASE arrivals' = Tail(arrivals) /\ captured' = captured
  BY <1>1, <1>3, <1>4 DEF InOrder
<1>5. CASE arrivals' = Tail(arrivals) /\ captured' = Append(captured, Head(arrivals))
  <2>1. /\ \A i \in 1..Len(captured) : captured[i].id < Head(arrivals).id
        /\ \A i \in 1..Len(file) : file[i].id < Head(arrivals).id
        /\ \A j \in 1..Len(Tail(arrivals)) : Head(arrivals).id < Tail(arrivals)[j].id
        /\ Head(arrivals).id <= arrived
    BY <1>1, <1>2, AscendingTail, BeforeTail, UpToKept, Records DEF InOrder
  <2>2. Ascending(Append(captured, Head(arrivals)))
    BY <1>2, <2>1, AscendingAppend, Records DEF InOrder
  <2>3. Before(file, Append(captured, Head(arrivals)))
    BY <1>2, <2>1, BeforeAppend DEF InOrder
  <2>4. Before(Append(captured, Head(arrivals)), Tail(arrivals))
    <3>1. Tail(arrivals) \in Seq(Message)
      BY <1>1, <1>2, Popped
    <3> QED BY <1>2, <1>3, <2>1, <3>1, BeforeAppend
  <2>5. UpTo(Append(captured, Head(arrivals)), arrived)
    BY <1>2, <2>1, UpToKept, Records DEF InOrder
  <2> QED BY <1>1, <1>3, <1>5, <2>2, <2>3, <2>4, <2>5 DEF InOrder
<1>6. CASE arrivals' = <<>> /\ captured' = captured
  BY <1>1, <1>6, NothingQueued DEF InOrder
<1> QED BY <1>4, <1>5, <1>6 DEF Subscribe, Queued, SubscriberDrops

LEMMA InOrderWrite == TypeOK /\ InOrder /\ Write => InOrder'
<1> SUFFICES ASSUME TypeOK, InOrder, Write PROVE InOrder'
  OBVIOUS
<1>1. UNCHANGED <<arrivals, arrived>> /\ captured # <<>> /\ captured' = Tail(captured)
  BY DEF Write
<1>2. /\ file \in Seq(Entry) /\ captured \in Seq(Message) /\ arrivals \in Seq(Message)
      /\ arrived \in Nat /\ Tail(captured) \in Seq(Message)
  BY <1>1, Popped DEF TypeOK
<1>3. /\ Ascending(Tail(captured)) /\ Before(file, Tail(captured))
      /\ Before(Tail(captured), arrivals) /\ UpTo(Tail(captured), arrived)
  BY <1>1, <1>2, AscendingTail, BeforeTail, UpToKept, Records DEF InOrder
<1>4. CASE Dropped
  BY <1>1, <1>3, <1>4 DEF InOrder, Dropped
<1>5. CASE Stored
  <2>1. FirstEntry \in Entry /\ FirstEntry.id = Head(captured).id
    BY <1>1, FirstTyped DEF FirstEntry, First
  <2>2. /\ \A i \in 1..Len(file) : file[i].id < FirstEntry.id
        /\ \A j \in 1..Len(Tail(captured)) : FirstEntry.id < Tail(captured)[j].id
        /\ \A j \in 1..Len(arrivals) : FirstEntry.id < arrivals[j].id
        /\ FirstEntry.id <= arrived
    BY <1>1, <1>2, <2>1, AscendingTail, BeforeTail, UpToKept, Records DEF InOrder
  <2>3. Ascending(Append(file, FirstEntry))
    BY <1>2, <2>1, <2>2, AscendingAppend, Records DEF InOrder
  <2>4. Before(Append(file, FirstEntry), Tail(captured))
    BY <1>2, <1>3, <2>1, <2>2, BeforeAppend
  <2>5. Before(Append(file, FirstEntry), arrivals)
    BY <1>2, <2>1, <2>2, BeforeAppend DEF InOrder
  <2>6. UpTo(Append(file, FirstEntry), arrived)
    BY <1>2, <2>1, <2>2, UpToKept, Records DEF InOrder
  <2> QED BY <1>1, <1>3, <1>5, <2>3, <2>4, <2>5, <2>6 DEF InOrder, Stored
<1> QED BY <1>4, <1>5, WriteSplits

LEMMA InOrderNext == TypeOK /\ InOrder /\ [Next]_vars => InOrder'
<1> SUFFICES ASSUME TypeOK, InOrder, [Next]_vars PROVE InOrder'
  OBVIOUS
<1> USE DEF written, tasks
<1>1. CASE Forward
  BY <1>1, InOrderForward
<1>2. CASE Subscribe
  BY <1>2, InOrderSubscribe
<1>3. CASE Write
  BY <1>3, InOrderWrite
<1>4. CASE SubscriberEnds
  <2>1. arrivals' = <<>> /\ UNCHANGED <<file, captured, arrived>>
    BY <1>4 DEF SubscriberEnds, SubscriberDrops
  <2> QED BY <2>1, NothingQueued DEF InOrder
<1>5. CASE WriteFails
  <2>1. captured' = <<>> /\ UNCHANGED <<file, arrivals, arrived>>
    BY <1>5 DEF WriteFails
  <2> QED BY <2>1, NothingQueued DEF InOrder
<1>6. CASE UNCHANGED <<file, captured, arrivals, arrived>>
  BY <1>6 DEF InOrder
<1> QED BY <1>1, <1>2, <1>3, <1>4, <1>5, <1>6
        DEF Next, ForwarderEnds, Finalize, Finish, DropSender, ReplayFails, Exit, vars

-----------------------------------------------------------------------------
(* Channels *)

\* The codec of a message follows from the type it is recorded as.
LEMMA CodecFromType ==
    ASSUME NEW s \in Streams, NEW m \in Message
    PROVE  LET codec == Resolve(CodecOf(s), MsgName(m))
           IN  codec = Resolve(CodecOf(s), IF Recorded(codec, m) = "Custom" THEN "Custom"
                                           ELSE "Image")
<1> DEFINE codec == Resolve(CodecOf(s), MsgName(m))
<1>1. CASE m.kind = "custom"
  <2>1. MsgName(m) = "Custom" /\ Recorded(codec, m) = "Custom"
    BY <1>1 DEF MsgName, Recorded
  <2> QED BY <2>1
<1>2. CASE m.kind # "custom"
  <2>1. MsgName(m) = "Image" /\ Recorded(codec, m) # "Custom"
    BY <1>2 DEF MsgName, Recorded
  <2> QED BY <2>1
<1> QED BY <1>1, <1>2

Channels == EncodingSettled /\ ChannelTellsTheTruth

LEMMA ChannelsStored ==
    ASSUME TypeOK, Channels, captured # <<>>, Stored
    PROVE  Channels'
<1>1. /\ First \in Message /\ First.stream \in Streams
      /\ FirstCodec \in Codecs /\ FirstType \in Types /\ FirstEntry \in Entry
  BY FirstTyped
<1>2. Unregistered \notin Types /\ Unregistered \notin Codecs
  BY DEF Types, Codecs, Unregistered
<1>3. FirstCodec = Resolve(CodecOf(First.stream),
                           IF FirstType = "Custom" THEN "Custom" ELSE "Image")
  BY <1>1, CodecFromType DEF FirstCodec, FirstType
<1>4. registered'[First.stream] = FirstType /\ encoding'[First.stream] = FirstCodec
  <2>1. registered'[First.stream] = FirstType
    BY <1>1 DEF Stored, TypeOK
  <2>2. CASE registered[First.stream] = Unregistered
    BY <1>1, <2>2 DEF Stored, TypeOK
  <2>3. CASE registered[First.stream] # Unregistered
    <3>1. registered[First.stream] = FirstType /\ encoding' = encoding
      BY <2>3 DEF Stored
    <3> QED BY <1>1, <1>3, <2>1, <2>3, <3>1 DEF Channels, EncodingSettled
  <2> QED BY <2>1, <2>2, <2>3
<1>5. ASSUME NEW s \in Streams, s # First.stream
      PROVE  registered'[s] = registered[s] /\ encoding'[s] = encoding[s]
  BY <1>1, <1>5 DEF Stored, TypeOK
<1>6. EncodingSettled'
  BY <1>1, <1>3, <1>4, <1>5 DEF Channels, EncodingSettled
<1>7. ChannelTellsTheTruth'
  <2>1. file \in Seq(Entry) /\ file' = Append(file, FirstEntry)
    BY DEF Stored, TypeOK
  <2>2. \A k \in 1..Len(file) :
           file'[k].recorded = registered'[file'[k].stream]
           /\ file'[k].codec = encoding'[file'[k].stream]
    <3> TAKE k \in 1..Len(file)
    <3>1. file'[k] = file[k] /\ file[k] \in Entry
      BY <1>1, <2>1, Appended
    <3>2. /\ file[k].stream \in Streams /\ file[k].recorded \in Types
          /\ file[k].recorded = registered[file[k].stream]
          /\ file[k].codec = encoding[file[k].stream]
      BY <3>1, Records DEF Channels, ChannelTellsTheTruth
    <3>3. CASE file[k].stream = First.stream
      <4>1. registered[First.stream] # Unregistered
        BY <1>2, <3>2, <3>3
      <4>2. encoding' = encoding /\ registered[First.stream] = FirstType
        BY <4>1 DEF Stored
      <4> QED BY <1>4, <3>1, <3>2, <3>3, <4>2
    <3>4. CASE file[k].stream # First.stream
      BY <1>5, <3>1, <3>2, <3>4
    <3> QED BY <3>3, <3>4
  <2>3. /\ file'[Len(file) + 1].recorded = FirstType
        /\ file'[Len(file) + 1].codec = FirstCodec
        /\ file'[Len(file) + 1].stream = First.stream
    BY <1>1, <2>1, Appended DEF FirstEntry
  <2>4. Len(file) \in Nat /\ Len(file') = Len(file) + 1
    BY <1>1, <2>1, Appended
  <2> SUFFICES ASSUME NEW k \in 1..Len(file')
               PROVE  file'[k].recorded = registered'[file'[k].stream]
                      /\ file'[k].codec = encoding'[file'[k].stream]
    BY DEF ChannelTellsTheTruth
  <2>5. k \in 1..Len(file) \/ k = Len(file) + 1
    BY <2>4
  <2> QED BY <1>4, <2>2, <2>3, <2>5
<1> QED BY <1>6, <1>7 DEF Channels

LEMMA FileUntouched ==
    ASSUME [Next]_vars, ~Write
    PROVE  UNCHANGED <<registered, encoding, sequence, file>>
  BY DEF Next, Forward, ForwarderEnds, Subscribe, SubscriberEnds, WriteFails, Finalize,
         Finish, DropSender, ReplayFails, Exit, written, vars

LEMMA ChannelsNext == TypeOK /\ Channels /\ [Next]_vars => Channels'
<1> SUFFICES ASSUME TypeOK, Channels, [Next]_vars PROVE Channels'
  OBVIOUS
<1>1. CASE Write /\ Stored
  BY <1>1, ChannelsStored DEF Write
<1>2. CASE UNCHANGED <<registered, encoding, sequence, file>>
  BY <1>2 DEF Channels, EncodingSettled, ChannelTellsTheTruth
<1> QED BY <1>1, <1>2, WriteSplits, FileUntouched DEF Dropped

-----------------------------------------------------------------------------
(* Numbers *)

Numbers == Numbered /\ DeliveryOrder

LEMMA NumbersStored ==
    ASSUME TypeOK, Numbers, captured # <<>>, Stored, InOrder'
    PROVE  Numbers'
<1> DEFINE n == Len(file)  s == First.stream
<1>1. s \in Streams /\ FirstEntry \in Entry /\ sequence[s] \in Nat
  BY FirstTyped
<1>2. file \in Seq(Entry) /\ file' = Append(file, FirstEntry)
  BY DEF Stored, TypeOK
<1>3. /\ n \in Nat /\ Len(file') = n + 1
      /\ \A k \in 1..n : file'[k] = file[k]
      /\ file'[n + 1] = FirstEntry
  BY <1>1, <1>2, Appended
<1>4. FirstEntry.stream = s /\ FirstEntry.sequence = sequence[s] + 1
  BY DEF FirstEntry
<1>5. /\ sequence'[s] = sequence[s] + 1
      /\ \A t \in Streams : t # s => sequence'[t] = sequence[t]
      /\ \A t \in Streams : sequence[t] \in Nat
  BY <1>1 DEF Stored, TypeOK
<1>6. \A k \in 1..n : /\ file[k].stream \in Streams
                      /\ file[k].sequence \in 1..sequence[file[k].stream]
  BY <1>2, Records DEF Numbers, Numbered
<1>7. \A k \in 1..n + 1 : k \in 1..n \/ k = n + 1
  BY <1>3
<1> HIDE DEF n, s
<1>8. \A k \in 1..n + 1 : file'[k].sequence \in 1..sequence'[file'[k].stream]
  <2> TAKE k \in 1..n + 1
  <2>1. CASE k \in 1..n
    BY <2>1, <1>3, <1>5, <1>6
  <2>2. CASE k = n + 1
    BY <2>2, <1>1, <1>3, <1>4, <1>5
  <2> QED BY <2>1, <2>2, <1>7
<1>9. ASSUME NEW t \in Streams, sequence'[t] > 0
      PROVE  \E k \in 1..n + 1 : file'[k].stream = t /\ file'[k].sequence = sequence'[t]
  <2>1. CASE t = s
    <3>1. n + 1 \in 1..n + 1
      BY <1>3
    <3> QED BY <2>1, <3>1, <1>3, <1>4, <1>5
  <2>2. CASE t # s
    <3>1. PICK k \in 1..n : file[k].stream = t /\ file[k].sequence = sequence[t]
      BY <2>2, <1>5, <1>9 DEF Numbers, Numbered, n
    <3>2. k \in 1..n + 1
      BY <1>3
    <3> QED BY <2>2, <3>1, <3>2, <1>3, <1>5
  <2> QED BY <2>1, <2>2
<1>10. Numbered'
  BY <1>3, <1>8, <1>9 DEF Numbered
<1>11. ASSUME NEW k \in 1..n + 1, NEW j \in 1..k - 1
       PROVE  /\ file'[j].id < file'[k].id
              /\ file'[j].stream = file'[k].stream => file'[j].sequence < file'[k].sequence
  <2>1. j \in 1..n /\ j \in 1..n + 1 /\ j < k
    BY <1>3, <1>7
  <2>2. file'[j].id < file'[k].id
    BY <2>1, <1>3 DEF InOrder, Ascending
  <2>3. CASE k \in 1..n
    BY <2>1, <2>2, <2>3, <1>3 DEF Numbers, DeliveryOrder, n
  <2>4. CASE k = n + 1
    BY <2>1, <2>2, <2>4, <1>1, <1>3, <1>4, <1>6
  <2> QED BY <2>3, <2>4, <1>7
<1>12. ASSUME NEW k \in 1..n + 1
       PROVE  \/ file'[k].sequence = 1
              \/ \E j \in 1..k - 1 : /\ file'[j].stream = file'[k].stream
                                     /\ file'[j].sequence = file'[k].sequence - 1
  <2>1. CASE k \in 1..n
    <3>1. CASE file[k].sequence = 1
      BY <3>1, <2>1, <1>3
    <3>2. CASE file[k].sequence # 1
      <4>1. PICK j \in 1..k - 1 : /\ file[j].stream = file[k].stream
                                  /\ file[j].sequence = file[k].sequence - 1
        BY <3>2, <2>1 DEF Numbers, DeliveryOrder, n
      <4>2. j \in 1..n
        BY <2>1, <1>3
      <4> QED BY <4>1, <4>2, <2>1, <1>3
    <3> QED BY <3>1, <3>2
  <2>2. CASE k = n + 1
    <3>1. CASE sequence[s] = 0
      BY <3>1, <2>2, <1>3, <1>4
    <3>2. CASE sequence[s] # 0
      <4>1. PICK j \in 1..n : file[j].stream = s /\ file[j].sequence = sequence[s]
        BY <3>2, <1>1 DEF Numbers, Numbered, n
      <4>2. j \in 1..k - 1
        BY <2>2, <1>3
      <4>3. file'[k].sequence - 1 = sequence[s] /\ file'[k].stream = s
        BY <2>2, <1>1, <1>3, <1>4
      <4> QED BY <4>1, <4>2, <4>3, <1>3
    <3> QED BY <3>1, <3>2
  <2> QED BY <2>1, <2>2, <1>7
<1>13. DeliveryOrder'
  BY <1>3, <1>11, <1>12 DEF DeliveryOrder
<1> QED BY <1>10, <1>13 DEF Numbers

LEMMA NumbersNext == TypeOK /\ Numbers /\ [Next]_vars /\ InOrder' => Numbers'
<1> SUFFICES ASSUME TypeOK, Numbers, [Next]_vars, InOrder' PROVE Numbers'
  OBVIOUS
<1>1. CASE Write /\ Stored
  BY <1>1, NumbersStored DEF Write
<1>2. CASE UNCHANGED <<registered, encoding, sequence, file>>
  BY <1>2 DEF Numbers, Numbered, DeliveryOrder
<1> QED BY <1>1, <1>2, WriteSplits, FileUntouched DEF Dropped

-----------------------------------------------------------------------------
(* The account *)

LEMMA OfFinite ==
    ASSUME NEW S, NEW q \in Seq(S), NEW s
    PROVE  IsFiniteSet(Of(q, s)) /\ Cardinality(Of(q, s)) \in Nat
<1>1. IsFiniteSet(1..Len(q))
  <2>1. 1 \in Int /\ Len(q) \in Int
    OBVIOUS
  <2> QED BY <2>1, FS_Interval
<1>2. Of(q, s) \in SUBSET (1..Len(q))
  BY DEF Of
<1>3. IsFiniteSet(Of(q, s))
  BY <1>1, <1>2, FS_Subset
<1> QED BY <1>3, FS_CardinalityType

LEMMA OfAppend ==
    ASSUME NEW S, NEW q \in Seq(S), NEW e \in S, NEW s
    PROVE  /\ IsFiniteSet(Of(q, s)) /\ Cardinality(Of(q, s)) \in Nat
           /\ Cardinality(Of(Append(q, e), s)) =
                 Cardinality(Of(q, s)) + IF e.stream = s THEN 1 ELSE 0
<1>1. Len(q) \in Nat
  BY Appended
<1>2. IsFiniteSet(Of(q, s)) /\ Cardinality(Of(q, s)) \in Nat
  BY OfFinite
<1>3. \A i \in 1..Len(q) + 1 : i \in 1..Len(q) \/ i = Len(q) + 1
  BY <1>1
<1>4. 1..Len(q) \subseteq 1..Len(q) + 1 /\ Len(q) + 1 \in 1..Len(q) + 1
  BY <1>1
<1>5. CASE e.stream = s
  <2>1. Of(Append(q, e), s) = Of(q, s) \cup {Len(q) + 1}
    BY <1>3, <1>4, <1>5, Appended DEF Of
  <2>2. Len(q) + 1 \notin Of(q, s)
    BY <1>1 DEF Of
  <2> QED BY <1>2, <1>5, <2>1, <2>2, FS_AddElement
<1>6. CASE e.stream # s
  <2>1. Of(Append(q, e), s) = Of(q, s)
    BY <1>3, <1>4, <1>6, Appended DEF Of
  <2> QED BY <1>2, <1>6, <2>1
<1> QED BY <1>2, <1>5, <1>6

LEMMA OfTail ==
    ASSUME NEW S, NEW q \in Seq(S), q # <<>>, NEW s
    PROVE  /\ Cardinality(Of(Tail(q), s)) \in Nat
           /\ Cardinality(Of(q, s)) =
                 Cardinality(Of(Tail(q), s)) + IF Head(q).stream = s THEN 1 ELSE 0
<1> DEFINE A == Of(Tail(q), s)
           B == Of(q, s) \ {1}
           shift == [i \in A |-> i + 1]
<1>1. /\ Len(q) \in Nat /\ Len(Tail(q)) = Len(q) - 1
      /\ \A i \in 1..Len(Tail(q)) : i + 1 \in 1..Len(q) /\ Tail(q)[i] = q[i + 1]
      /\ 1 \in 1..Len(q) /\ Head(q) = q[1]
  BY Popped
<1>2. IsFiniteSet(Of(q, s)) /\ Cardinality(Of(q, s)) \in Nat
  BY OfFinite
<1>3. IsFiniteSet(A) /\ Cardinality(A) \in Nat
  <2>1. Tail(q) \in Seq(S)
    BY Popped
  <2> QED BY <2>1, OfFinite
<1>4. \A i \in A : i \in Nat /\ i + 1 \in B
  BY <1>1 DEF Of
<1>5. \A j \in B : j - 1 \in A /\ (j - 1) + 1 = j
  <2> TAKE j \in B
  <2>1. j \in 1..Len(q) /\ j # 1 /\ q[j].stream = s
    BY DEF Of
  <2>2. j - 1 \in 1..Len(Tail(q)) /\ (j - 1) + 1 = j
    BY <1>1, <2>1
  <2> QED BY <1>1, <2>1, <2>2 DEF Of
<1>6. shift \in Bijection(A, B)
  <2> HIDE DEF A, B
  <2>1. shift \in [A -> B]
    BY <1>4
  <2>2. \A i, j \in A : shift[i] = shift[j] => i = j
    BY <1>4
  <2>3. \A j \in B : \E i \in A : shift[i] = j
    BY <1>5
  <2> QED BY <2>1, <2>2, <2>3 DEF Bijection, Injection, Surjection, IsInjective
<1>7. Cardinality(A) = Cardinality(B)
  BY <1>3, <1>6, FS_Bijection DEF ExistsBijection
<1>8. 1 \in Of(q, s) <=> Head(q).stream = s
  BY <1>1 DEF Of
<1>9. Cardinality(B) = IF 1 \in Of(q, s) THEN Cardinality(Of(q, s)) - 1
                       ELSE Cardinality(Of(q, s))
  BY <1>2, FS_RemoveElement
<1> QED BY <1>2, <1>3, <1>7, <1>8, <1>9

LEMMA OfNone == ASSUME NEW s PROVE Cardinality(Of(<<>>, s)) = 0
<1>1. Of(<<>>, s) = {}
  BY DEF Of
<1> QED BY <1>1, FS_EmptySet

LEMMA AccountedWrite == TypeOK /\ Accounted /\ Write => Accounted'
<1> SUFFICES ASSUME TypeOK, Accounted, Write, NEW s \in Streams
             PROVE  sent'[s] = Cardinality(Of(captured', s)) + Cardinality(Of(file', s))
                               + unencodable'[s]
  BY DEF Accounted
<1>1. /\ writer = "running" /\ captured # <<>> /\ captured' = Tail(captured)
      /\ sent' = sent
  BY DEF Write
<1>2. /\ First \in Message /\ First.stream \in Streams /\ FirstEntry \in Entry
      /\ FirstEntry.stream = First.stream
  BY <1>1, FirstTyped DEF FirstEntry
<1>3. /\ captured \in Seq(Message) /\ file \in Seq(Entry)
      /\ unencodable \in [Streams -> Nat] /\ sent[s] \in Nat
  BY DEF TypeOK
<1>4. /\ Cardinality(Of(Tail(captured), s)) \in Nat
      /\ Cardinality(Of(captured, s)) =
            Cardinality(Of(Tail(captured), s)) + IF First.stream = s THEN 1 ELSE 0
  BY <1>1, <1>3, OfTail DEF First
<1>5. sent[s] = Cardinality(Of(captured, s)) + Cardinality(Of(file, s)) + unencodable[s]
  BY <1>1 DEF Accounted
<1>6. /\ Cardinality(Of(file, s)) \in Nat
      /\ Cardinality(Of(Append(file, FirstEntry), s)) =
            Cardinality(Of(file, s)) + IF First.stream = s THEN 1 ELSE 0
  BY <1>2, <1>3, OfAppend
<1>7. CASE Stored
  <2>1. file' = Append(file, FirstEntry) /\ unencodable' = unencodable
    BY <1>7 DEF Stored
  <2> QED BY <1>1, <1>3, <1>4, <1>5, <1>6, <2>1
<1>8. CASE Dropped
  <2>1. file' = file /\ unencodable'[s] = unencodable[s] + IF First.stream = s THEN 1 ELSE 0
    BY <1>2, <1>3, <1>8 DEF Dropped
  <2> QED BY <1>1, <1>3, <1>4, <1>5, <1>6, <2>1
<1> QED BY <1>7, <1>8, WriteSplits

LEMMA AccountedNext == TypeOK /\ Accounted /\ [Next]_vars => Accounted'
<1> SUFFICES ASSUME TypeOK, Accounted, [Next]_vars PROVE Accounted'
  OBVIOUS
<1>1. CASE Write
  BY <1>1, AccountedWrite
<1>2. CASE Subscribe /\ captured' # captured
  <2>1. /\ arrivals # <<>> /\ captured' = Append(captured, Head(arrivals))
        /\ sent' = [sent EXCEPT ![Head(arrivals).stream] = @ + 1]
        /\ UNCHANGED <<writer, file, unencodable>>
    BY <1>2 DEF Subscribe, Queued, written
  <2>2. Head(arrivals) \in Message /\ captured \in Seq(Message) /\ file \in Seq(Entry)
    BY <2>1, Popped DEF TypeOK
  <2>3. Head(arrivals).stream \in Streams
    BY <2>2, Records
  <2> SUFFICES ASSUME NEW s \in Streams, writer # "failed"
               PROVE  sent'[s] = Cardinality(Of(captured', s)) + Cardinality(Of(file, s))
                                 + unencodable[s]
    BY <2>1 DEF Accounted
  <2>4. sent'[s] = sent[s] + IF Head(arrivals).stream = s THEN 1 ELSE 0
    BY <2>1, <2>3 DEF TypeOK
  <2>5. /\ Cardinality(Of(captured, s)) \in Nat
        /\ Cardinality(Of(captured', s)) =
              Cardinality(Of(captured, s)) + IF Head(arrivals).stream = s THEN 1 ELSE 0
    BY <2>1, <2>2, OfAppend
  <2>6. Cardinality(Of(file, s)) \in Nat
    BY <2>2, OfFinite
  <2>7. sent[s] \in Nat /\ unencodable[s] \in Nat
    BY DEF TypeOK
  <2>8. sent[s] = Cardinality(Of(captured, s)) + Cardinality(Of(file, s)) + unencodable[s]
    BY DEF Accounted
  <2> QED BY <2>4, <2>5, <2>6, <2>7, <2>8
<1>3. CASE WriteFails
  BY <1>3 DEF WriteFails, Accounted
<1>4. CASE UNCHANGED <<captured, file, unencodable, sent>> /\ (writer' = "failed" <=> writer = "failed")
  BY <1>4 DEF Accounted
<1>5. CASE Subscribe /\ captured' = captured
  <2>1. sent' = sent
    <3>1. Append(captured, Head(arrivals)) # captured
      <4>1. captured \in Seq(Message)
        BY DEF TypeOK
      <4>2. arrivals # <<>> /\ arrivals \in Seq(Message)
        BY <1>5 DEF Subscribe, TypeOK
      <4>3. Head(arrivals) \in Message
        BY <4>2, Popped
      <4>4. Len(Append(captured, Head(arrivals))) = Len(captured) + 1 /\ Len(captured) \in Nat
        BY <4>1, <4>3, Appended
      <4> QED BY <4>4
    <3> QED BY <1>5, <3>1 DEF Subscribe, Queued
  <2> QED BY <1>5, <2>1 DEF Subscribe, written, Accounted
<1> QED BY <1>1, <1>2, <1>3, <1>4, <1>5
        DEF Next, Forward, ForwarderEnds, SubscriberEnds, Finalize,
            Finish, DropSender, ReplayFails, Exit, written, tasks, vars

-----------------------------------------------------------------------------
(* What no viewer can draw *)

LEMMA UndrawableFinite ==
    ASSUME file \in Seq(Entry), NEW s
    PROVE  IsFiniteSet(Undrawable(s)) /\ Cardinality(Undrawable(s)) \in Nat
<1>1. IsFiniteSet(Of(file, s))
  BY OfFinite
<1>2. Undrawable(s) \in SUBSET Of(file, s)
  BY DEF Undrawable
<1>3. IsFiniteSet(Undrawable(s))
  BY <1>1, <1>2, FS_Subset
<1> QED BY <1>3, FS_CardinalityType

LEMMA UndrawableStored ==
    ASSUME file \in Seq(Entry), NEW e \in Entry, file' = Append(file, e), NEW s
    PROVE  Cardinality(Undrawable(s)') = Cardinality(Undrawable(s))
              + IF e.stream = s /\ e.kind = "mystery" /\ e.codec = "cdr" THEN 1 ELSE 0
<1>1. /\ Len(file) \in Nat /\ Len(file') = Len(file) + 1
      /\ \A i \in 1..Len(file) : file'[i] = file[i]
      /\ file'[Len(file) + 1] = e
  BY Appended
<1>2. IsFiniteSet(Undrawable(s)) /\ Cardinality(Undrawable(s)) \in Nat
  BY UndrawableFinite
<1>3. \A i \in 1..Len(file) + 1 : i \in 1..Len(file) \/ i = Len(file) + 1
  BY <1>1
<1>4. 1..Len(file) \subseteq 1..Len(file) + 1 /\ Len(file) + 1 \in 1..Len(file) + 1
  BY <1>1
<1>5. Len(file) + 1 \notin Undrawable(s)
  BY <1>1 DEF Undrawable, Of
<1>6. CASE e.stream = s /\ e.kind = "mystery" /\ e.codec = "cdr"
  <2>1. Undrawable(s)' = Undrawable(s) \cup {Len(file) + 1}
    BY <1>1, <1>3, <1>4, <1>6 DEF Undrawable, Of
  <2> QED BY <1>2, <1>5, <1>6, <2>1, FS_AddElement
<1>7. CASE ~(e.stream = s /\ e.kind = "mystery" /\ e.codec = "cdr")
  <2>1. Undrawable(s)' = Undrawable(s)
    BY <1>1, <1>3, <1>4, <1>7 DEF Undrawable, Of
  <2> QED BY <1>2, <1>7, <2>1
<1> QED BY <1>6, <1>7

LEMMA DefectsWrite == TypeOK /\ DefectsReported /\ Write => DefectsReported'
<1> SUFFICES ASSUME TypeOK, DefectsReported, Write, NEW s \in Streams
             PROVE  /\ Cardinality(Undrawable(s)') <= unrenderable'[s]
                    /\ unrenderable'[s] <= Cardinality(Undrawable(s)') + unencodable'[s]
  BY DEF DefectsReported
<1>1. captured # <<>>
  BY DEF Write
<1>2. /\ First.stream \in Streams /\ FirstEntry \in Entry
      /\ FirstEntry.stream = First.stream
      /\ FirstEntry.kind = First.kind /\ FirstEntry.codec = FirstCodec
  BY <1>1, FirstTyped DEF FirstEntry
<1>3. /\ file \in Seq(Entry)
      /\ unencodable \in [Streams -> Nat] /\ unrenderable \in [Streams -> Nat]
  BY DEF TypeOK
<1>4. /\ Cardinality(Undrawable(s)) \in Nat
      /\ Cardinality(Undrawable(s)) <= unrenderable[s]
      /\ unrenderable[s] <= Cardinality(Undrawable(s)) + unencodable[s]
  BY <1>3, UndrawableFinite DEF DefectsReported
<1>5. Defective(FirstCodec, First) => Encodes(FirstCodec, First)
  BY DEF Defective, Encodes
<1>6. unrenderable' = IF Defective(FirstCodec, First)
                      THEN [unrenderable EXCEPT ![First.stream] = @ + 1] ELSE unrenderable
  BY <1>5 DEF Write, First, FirstCodec
<1>7. unrenderable'[s] = unrenderable[s]
          + IF First.stream = s /\ Defective(FirstCodec, First) THEN 1 ELSE 0
  BY <1>2, <1>3, <1>6
<1>8. CASE Stored
  <2>1. file' = Append(file, FirstEntry) /\ unencodable' = unencodable
    BY <1>8 DEF Stored
  <2>2. Cardinality(Undrawable(s)') = Cardinality(Undrawable(s))
          + IF First.stream = s /\ Defective(FirstCodec, First) THEN 1 ELSE 0
    <3>1. Cardinality(Undrawable(s)') = Cardinality(Undrawable(s))
            + IF /\ FirstEntry.stream = s
                 /\ FirstEntry.kind = "mystery" /\ FirstEntry.codec = "cdr" THEN 1 ELSE 0
      BY <1>2, <1>3, <2>1, UndrawableStored
    <3> QED BY <1>2, <3>1 DEF Defective
  <2> QED BY <1>3, <1>4, <1>7, <2>1, <2>2
<1>9. CASE Dropped
  <2>1. unencodable'[s] = unencodable[s] + IF First.stream = s THEN 1 ELSE 0
    BY <1>2, <1>3, <1>9 DEF Dropped
  <2>2. Undrawable(s)' = Undrawable(s)
    BY <1>9 DEF Dropped, Undrawable, Of
  <2> QED BY <1>3, <1>4, <1>7, <2>1, <2>2
<1> QED BY <1>8, <1>9, WriteSplits

LEMMA DefectsNext == TypeOK /\ DefectsReported /\ [Next]_vars => DefectsReported'
<1> SUFFICES ASSUME TypeOK, DefectsReported, [Next]_vars PROVE DefectsReported'
  OBVIOUS
<1>1. CASE Write
  BY <1>1, DefectsWrite
<1>2. CASE UNCHANGED written
  BY <1>2 DEF written, DefectsReported, Undrawable, Of
<1> QED BY <1>1, <1>2
        DEF Next, Forward, ForwarderEnds, Subscribe, SubscriberEnds, WriteFails, Finalize,
            Finish, DropSender, ReplayFails, Exit, vars

-----------------------------------------------------------------------------
(* The theorems *)

LEMMA InitIInv == Init => IInv
<1> SUFFICES ASSUME Init PROVE IInv
  OBVIOUS
<1>1. TypeOK /\ InOrder
  BY InitTypeOK, InOrderInit
<1>2. Len(file) = 0 /\ 1..Len(file) = {}
  BY DEF Init
<1>3. EncodingSettled /\ Numbered
  BY <1>2 DEF Init, EncodingSettled, Numbered
<1>4. ChannelTellsTheTruth /\ DeliveryOrder
  BY <1>2 DEF ChannelTellsTheTruth, DeliveryOrder
<1>5. Accounted
  BY OfNone DEF Init, Accounted
<1>6. DefectsReported
  <2>1. \A s \in Streams : Undrawable(s) = {}
    BY <1>2 DEF Undrawable, Of
  <2>2. \A s \in Streams : unrenderable[s] = 0 /\ unencodable[s] = 0
    BY DEF Init
  <2>3. \A s \in Streams : Cardinality(Undrawable(s)) = 0
    BY <2>1, FS_EmptySet
  <2> QED BY <2>2, <2>3 DEF DefectsReported
<1> QED BY <1>1, <1>3, <1>4, <1>5, <1>6 DEF IInv

\* The strengthening holds in every reachable state.
THEOREM Invariant == Spec => []IInv
<1>1. IInv /\ [Next]_vars => IInv'
  BY NextTypeOK, InOrderNext, ChannelsNext, NumbersNext, AccountedNext, DefectsNext
     DEF IInv, Channels, Numbers
<1> QED BY <1>1, InitIInv, PTL DEF Spec

\* The state of the recorder is well typed, for any inputs and codecs.
THEOREM TypeCorrect == Spec => []TypeOK
<1>1. IInv => TypeOK
  BY DEF IInv
<1> QED BY <1>1, Invariant, PTL

\* Channel and contents agree, whatever types a stream goes through: what is
\* written matches the schema and the encoding its channel was registered with.
THEOREM ChannelsTrue == Spec => []ChannelTellsTheTruth
<1>1. IInv => ChannelTellsTheTruth
  BY DEF IInv
<1> QED BY <1>1, Invariant, PTL

\* The three hand-overs keep the order of arrival, and what is dropped on the
\* way leaves no gap in a stream's numbers.
THEOREM OrderOfDelivery == Spec => []DeliveryOrder
<1>1. IInv => DeliveryOrder
  BY DEF IInv
<1> QED BY <1>1, Invariant, PTL

\* While the thread lives, each stream's messages add up: those passed on are
\* in the file, in the queue, or among the losses the report shows for it.
THEOREM NothingUnaccounted == Spec => []Accounted
<1>1. IInv => Accounted
  BY DEF IInv
<1> QED BY <1>1, Invariant, PTL

\* What no viewer can draw is in the report, and what is reported as such is in
\* the file or reported as dropped as well, whatever types the stream goes through.
THEOREM NothingUndrawableUntold == Spec => []DefectsReported
<1>1. IInv => DefectsReported
  BY DEF IInv
<1> QED BY <1>1, Invariant, PTL
=============================================================================
