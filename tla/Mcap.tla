-------------------------------- MODULE Mcap --------------------------------
(***************************************************************************)
(* An .mcap from end to end: what a recorder hears (record.rs) or another  *)
(* tool stores becomes channels and messages of a file, the file becomes   *)
(* streams when it is opened (McapSource in source.rs), and each pass of a *)
(* replay hands its messages out again (main.rs, sink.rs), perhaps on      *)
(* another transport.  Tasks, queues and write errors are module           *)
(* Recorder's, pacing and stamps are Replay's; here every message heard is *)
(* recorded at once, and no message is our own.                            *)
(***************************************************************************)
EXTENDS Names, Integers

CONSTANTS
    Fragments,     \* what names are made of
    Producers,     \* who publishes: a set of [name, type, jpeg, spelled]
    Bags,          \* recordings by other tools: sequences of such, by channel
    Namespaces,    \* --prefix: what to choose from, by transport
    CdrTypes,      \* the types cdr::supports
    StampedTypes,  \* the types with a stamp, stamp::support_for
    Include,       \* --record
    Exclude,       \* --record-all-but
    DefaultCodec,  \* --record-codec-default
    Overrides,     \* --record-codec, a function from stream names
    Patterns,      \* --stream: sets of patterns to choose from
    Renames,       \* --rename: sequences of specs to choose from
    Starts,        \* --start, likewise
    Latency,       \* longest time from a sensor's stamp to its delivery
    SameClock,     \* SAME_CLOCK_NS
    Epoch,         \* when the recording begins
    MaxMessages,   \* bound on the messages recorded
    MaxPasses      \* bound on the passes of --loop

Transports == {"lcm", "zenoh"}
None == -1

\* No stream name begins with a slash.
IsProducer(p) ==
    /\ {p.name, p.type} \subseteq Seq(Fragments)
    /\ p.name # <<>> /\ p.name[1] # "/"
    /\ p.type = <<>> \/ IsMsgName(p.type)

\* A name published outside the prefix does not begin like it.
Outside(p, pre) == p.spelled = "bare" /\ pre # <<>> => p.name[1] # pre[1]

ASSUME McapAssumption ==
    /\ {"/", "#", ".", "dimos", "msgs"} \subseteq Fragments
    /\ \A p \in Producers : IsProducer(p)
    /\ \A t \in Transports : Namespaces[t] \subseteq Seq(Fragments)
    /\ \A t \in Transports : \A pre \in Namespaces[t] : \A p \in Producers : Outside(p, pre)
    /\ \A pre \in Namespaces["zenoh"] : pre # <<>> => pre[1] # "/" /\ Last(pre) = "/"
    /\ \A b \in Bags : b \in Seq(Range(b)) /\ \A k \in DOMAIN b : IsProducer(b[k]) /\ b[k].type # <<>>
    /\ \A type \in CdrTypes : IsMsgName(type)
    /\ \A r \in Renames : r \in Seq(Range(r))
    /\ DefaultCodec \in {"cdr", "lcm", "lz4+lcm"}
    /\ \A s \in DOMAIN Overrides : Overrides[s] \in {"cdr", "lcm", "lz4+lcm"}
    /\ Starts \subseteq Nat
    /\ {Latency, SameClock, Epoch, MaxMessages, MaxPasses} \subseteq Nat
    /\ Latency < SameClock /\ SameClock < Epoch

VARIABLES
    bag,       \* the producers behind a foreign file, <<>> when it is our own
    transport, \* what the recorder listens to
    prefix,    \* and under which prefix it takes names to be
    now,       \* the recorder's clock
    heard,     \* messages on the transport, or of the foreign tool (history)
    channels,  \* of the file, in order of their ids
    file,      \* its messages
    player,    \* the replay's transport, prefix, patterns, renames and start
    streams,   \* McapSource.streams
    byTopic,   \* McapSource.by_topic
    phase,     \* "recording", "refused" or "playing"
    position,  \* the message McapSource.messages will yield next
    base,      \* replay_once's base
    handed,    \* what became of the records of this pass (history)
    pass

recorded == <<bag, transport, prefix, now, heard, channels, file>>
opened == <<player, streams, byTopic, phase>>
playing == <<position, base, handed, pass>>
vars == <<recorded, opened, playing>>

-----------------------------------------------------------------------------
(* Recording *)

CodecOf(stream) == IF stream \in DOMAIN Overrides THEN Overrides[stream] ELSE DefaultCodec

\* Codec::resolve
Resolve(codec, type) == IF codec = "cdr" /\ type \notin CdrTypes THEN "lcm" ELSE codec

Image == <<"sensor_msgs", ".", "Image">>
CompressedImage == <<"sensor_msgs", ".", "CompressedImage">>

\* Codec::encode: an Image that carries a jpeg is stored as what it is.
TypeAs(codec, type, m) ==
    IF codec = "cdr" /\ type = Image /\ m.origin.jpeg THEN CompressedImage ELSE type

\* Mutant: without a stamp the message goes to the beginning of time.
UnstampedAtZero(type, m) == IF type \in StampedTypes /\ m.stamp # None THEN m.stamp ELSE 0

\* Captured.publish_time_ns
PublishTime(type, m) == IF type \in StampedTypes /\ m.stamp # None THEN m.stamp ELSE m.log

\* add_channel, with schema_for and channel_metadata; a name of <<>> is absent.
Registered(stream, type, codec) ==
    [topic |-> stream, name |-> stream, type |-> type, encoding |-> codec,
     payload |-> PayloadModule(type),
     schema |-> IF codec = "cdr" THEN SchemaName(type) ELSE <<>>]

\* What rosbag2 and db_to_mcap write, the IDL spelling included.
Foreign(p) ==
    [topic |-> <<"/">> \o p.name, name |-> <<>>, type |-> <<>>, encoding |-> "cdr",
     payload |-> <<>>,
     schema |-> IF p.spelled = "dds"
                THEN <<p.type[1], "::", "msg", "::", "dds_", "::", p.type[3], "_">>
                ELSE SchemaName(p.type)]

Channel(p) ==
    ChannelOf(p.name, p.type,
              IF p.spelled = "bare" THEN <<>> ELSE prefix, Separator(transport))

\* Of one stream; none when the stream has no channel yet.
IdsOf(stream) == {c \in DOMAIN channels : channels[c].topic = stream}

Put(c, publish, m) ==
    file' = Append(file, [channel |-> c, publish |-> publish, id |-> Len(heard) + 1])

\* The subscriber and the writer on one message.
Record(m) ==
    LET channel == Channel(m.origin)
        said == SplitChannel(channel, prefix, Separator(transport))
        codec == Resolve(CodecOf(said.stream), said.type)
        type == TypeAs(codec, said.type, m)
    IN  IF \/ ~Heard(channel, prefix, transport)
           \/ ~Wants(Include, Exclude, said.stream)
           \/ \E c \in IdsOf(said.stream) : channels[c].type # type
        THEN UNCHANGED <<channels, file>>
        ELSE IF IdsOf(said.stream) = {}
        THEN /\ channels' = Append(channels, Registered(said.stream, type, codec))
             /\ Put(Len(channels) + 1, PublishTime(said.type, m), m)
        ELSE /\ Put(CHOOSE c \in IdsOf(said.stream) : TRUE, PublishTime(said.type, m), m)
             /\ UNCHANGED channels

Init ==
    /\ bag \in Bags \cup {<<>>}
    /\ transport \in Transports
    /\ prefix \in Namespaces[transport]
    /\ bag # <<>> => transport = "lcm"
    /\ now = Epoch /\ heard = <<>> /\ file = <<>>
    /\ channels = [k \in DOMAIN bag |-> Foreign(bag[k])]
    /\ player = [transport |-> "lcm", prefix |-> <<>>, patterns |-> {}, renames |-> <<>>,
                 start |-> 0]
    /\ streams = <<>> /\ byTopic = <<>> /\ phase = "recording"
    /\ position = 1 /\ base = None /\ handed = <<>> /\ pass = 1

\* A stamp is taken some time before delivery, or by a clock that counts from
\* boot; a type without a stamp, and an unset one, have none.
StampsAt(p, log) ==
    IF p.type \in StampedTypes THEN (log - Latency..log) \cup {1} ELSE {None}

\* One message turns up, at the time of the last one or a little later.
Hear ==
    /\ phase = "recording"
    /\ Len(heard) < MaxMessages
    /\ now' \in now..now + 1
    /\ \/ /\ bag = <<>>
          /\ \E p \in Producers : \E stamp \in StampsAt(p, now') :
                LET m == [origin |-> p, stamp |-> stamp, log |-> now']
                IN  heard' = Append(heard, m) /\ Record(m)
       \/ \E c \in DOMAIN bag : \E stamp \in StampsAt(bag[c], now') :
             LET m == [origin |-> bag[c], stamp |-> stamp, log |-> now']
             IN  heard' = Append(heard, m) /\ Put(c, m.log, m) /\ UNCHANGED channels
    /\ UNCHANGED <<bag, transport, prefix, opened, playing>>

-----------------------------------------------------------------------------
(* Opening *)

\* dimos.stream_name, or the topic without its leading slash.
StreamName(c) ==
    IF channels[c].name # <<>> THEN channels[c].name
    ELSE Without(<<"/">>, channels[c].topic)

\* channel_kind
TypeOf(c) ==
    IF channels[c].encoding = "cdr" THEN MsgNameFromSchema(channels[c].schema)
    ELSE MsgNameFromPayloadModule(channels[c].payload)

Supported(c) == channels[c].encoding = "cdr" => TypeOf(c) \in CdrTypes

SelectedChannel(patterns, c) == Selected(patterns, StreamName(c))

\* by_topic: of channels that share a topic, the last one listed is found.
ByTopic(chosen) ==
    [t \in {channels[chosen[k]].topic : k \in DOMAIN chosen} |->
        Max({k \in DOMAIN chosen : channels[chosen[k]].topic = t})]

\* The channels come out of a hash map, in any order.
Open ==
    /\ phase = "recording"
    /\ \E t \in Transports, patterns \in Patterns, renames \in Renames, start \in Starts :
       \E pre \in Namespaces[t] :
       \E chosen \in SetToSeqs({c \in DOMAIN channels : SelectedChannel(patterns, c)}) :
          LET names == [k \in DOMAIN chosen |-> StreamName(chosen[k])]
          IN  /\ player' = [transport |-> t, prefix |-> pre, patterns |-> patterns,
                            renames |-> renames, start |-> start]
              /\ streams' = [k \in DOMAIN chosen |->
                                [channel |-> ChannelOf(Renamed(names, renames, k),
                                                       TypeOf(chosen[k]), pre, Separator(t)),
                                 supported |-> Supported(chosen[k])]]
              /\ byTopic' = ByTopic(chosen)
              /\ phase' = IF chosen = <<>> \/ \E i \in DOMAIN renames :
                                                 renames[i].old \notin Range(names)
                          THEN "refused" ELSE "playing"
    /\ UNCHANGED <<recorded, playing>>

-----------------------------------------------------------------------------
(* Replaying *)

Apart(a, b) == IF a < b THEN b - a ELSE a - b

\* The time a stamp is mapped from: another clock's gives way to the record's.
MappedFrom(stamp, ts) == IF stamp # None /\ Apart(stamp, ts) < SameClock THEN stamp ELSE ts

Fate(supported, ts, from) ==
    IF ~supported THEN "unsupported" ELSE IF ts < from THEN "early" ELSE "published"

\* McapSource::next, one turn of its loop, and what replay_once does with it.
Play ==
    /\ phase = "playing"
    /\ position <= Len(file)
    /\ position' = position + 1
    /\ LET m == file[position]
           topic == channels[m.channel].topic
       IN  IF topic \notin DOMAIN byTopic
           THEN UNCHANGED <<base, handed>>
           ELSE LET stream == streams[byTopic[topic]]
                IN  /\ base' = IF stream.supported /\ base = None
                               THEN m.publish + player.start ELSE base
                    /\ handed' = Append(handed,
                          [id |-> m.id, channel |-> stream.channel,
                           fate |-> Fate(stream.supported, m.publish, base'),
                           from |-> MappedFrom(heard[m.id].stamp, m.publish)])
    /\ UNCHANGED <<recorded, opened, pass>>

\* Mutant: the reader stays where it is.
RewindNothing ==
    /\ phase = "playing" /\ position > Len(file) /\ pass < MaxPasses
    /\ base' = None /\ handed' = <<>> /\ pass' = pass + 1
    /\ UNCHANGED <<recorded, opened, position>>

\* The next pass of --loop.
Rewind ==
    /\ phase = "playing" /\ position > Len(file) /\ pass < MaxPasses
    /\ position' = 1
    /\ base' = None /\ handed' = <<>> /\ pass' = pass + 1
    /\ UNCHANGED <<recorded, opened>>

Next == Hear \/ Open \/ Play \/ Rewind

Spec == Init /\ [][Next]_vars

-----------------------------------------------------------------------------
(* Properties *)

\* A stream without a type is told from a typed one by its lack of separators.
Plain(p) == bag # <<>> \/ p.type # <<>> \/ Places(Separator(transport), p.name) = {}

\* The channels of a foreign file that share a name; of our own, none do.
Sharing(name) == {c \in DOMAIN bag : bag[c].name = name}
Shared(name) == \E c, d \in Sharing(name) : c # d

\* What a message should be stored as, and the first of its stream to be stored.
StoredType(m) ==
    IF bag = <<>> THEN TypeAs(Resolve(CodecOf(m.origin.name), m.origin.type), m.origin.type, m)
    ELSE m.origin.type

ToRecord(m) ==
    bag = <<>> => /\ Heard(Channel(m.origin), prefix, transport)
                  /\ Wants(Include, Exclude, m.origin.name)

FirstOf(name) ==
    Min({i \in DOMAIN heard : heard[i].origin.name = name /\ ToRecord(heard[i])})

NewName(name) ==
    LET specs == {i \in DOMAIN player.renames : player.renames[i].old = name}
    IN  IF specs = {} THEN name ELSE player.renames[Max(specs)].new

\* What is published goes out under the name and the type its producer gave it,
\* spelled for the replay's transport and prefix, whichever tool, transport and
\* prefix recorded it: names and types survive channel, file and channel again.
\* Renames are of what was recorded, and only a jpeg stored as CDR changes its
\* type.  Channels that share a topic, of which McapSource finds the last, go out
\* under the type of one of them, and no rename reaches what is found.
NamesSurvive ==
    \A k \in DOMAIN handed :
        LET m == heard[handed[k].id]
            name == m.origin.name
            types == IF Shared(name) THEN {bag[c].type : c \in Sharing(name)} ELSE {StoredType(m)}
        IN  Plain(m.origin) =>
                \E type \in types :
                   handed[k].channel = ChannelOf(IF Shared(name) THEN name ELSE NewName(name),
                                                 type, player.prefix,
                                                 Separator(player.transport))

Due(i) ==
    LET m == heard[i]
    IN  /\ ToRecord(m) /\ Selected(player.patterns, m.origin.name)
        /\ bag = <<>> => StoredType(m) = StoredType(heard[FirstOf(m.origin.name)])

\* Each pass hands out what was heard of the wanted streams, all of it and in
\* that order, but for messages whose stream had another type first.
WholeRecording ==
    (/\ phase = "playing" /\ position > Len(file)
     /\ \A i \in DOMAIN heard : Plain(heard[i].origin))
    => /\ {handed[k].id : k \in DOMAIN handed} = {i \in DOMAIN heard : Due(i)}
       /\ \A j, k \in DOMAIN handed : j < k => handed[j].id < handed[k].id

\* The stamp was taken by the recorder's clock, or there is none.
Timely(m) == m.stamp = None \/ (m.stamp <= m.log /\ m.log <= m.stamp + Latency)

\* A message is passed over as earlier than the window only if it was delivered
\* less than one latency after its beginning.
OnlyLatePassedOver ==
    \A j, k \in DOMAIN handed :
        LET first == heard[handed[j].id]
            m == heard[handed[k].id]
        IN  (/\ j < k /\ handed[j].fate # "unsupported" /\ handed[k].fate = "early"
             /\ \A i \in 1..j - 1 : handed[i].fate = "unsupported"
             /\ Timely(first) /\ Timely(m))
            => m.log < first.log + player.start + Latency

\* README.md: a stamp too far from when the recorder took delivery of the
\* message is another clock's, and the recorded arrival time is used instead.
ArrivalStandsIn ==
    \A k \in DOMAIN handed :
        LET m == heard[handed[k].id]
        IN  (/\ handed[k].fate = "published"
             /\ m.stamp # None /\ Apart(m.stamp, m.log) >= SameClock)
            => handed[k].from = m.log
=============================================================================
