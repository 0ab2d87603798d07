-------------------------------- MODULE Names --------------------------------
(***************************************************************************)
(* How streams, types and channels are named: by a recorder that hears a   *)
(* channel (record.rs), in the channels of an .mcap (record.rs, source.rs, *)
(* cdr.rs) and by a replay that publishes (main.rs, sink.rs).              *)
(*                                                                         *)
(* A name is a sequence of fragments, its punctuation fragments of their   *)
(* own: "sensor_msgs.Image" is <<"sensor_msgs", ".", "Image">>.            *)
(***************************************************************************)
EXTENDS Naturals, SequencesExt

After(k, name) == SubSeq(name, k + 1, Len(name))
Places(mark, name) == {k \in 1..Len(name) : name[k] = mark}

\* strip_prefix(p).unwrap_or(name)
Without(prefix, name) == IF IsPrefix(prefix, name) THEN After(Len(prefix), name) ELSE name

\* `--stream` and `--record` patterns: a trailing `*` matches any ending.
Matches(pattern, name) ==
    IF pattern # <<>> /\ Last(pattern) = "*" THEN IsPrefix(Front(pattern), name)
    ELSE name = pattern

\* The closure in main: no pattern at all selects every stream.
Selected(patterns, name) ==
    patterns = {} \/ \E p \in patterns : Matches(p, name)

\* Selection::wants
Wants(include, exclude, name) ==
    Selected(include, name) /\ ~\E p \in exclude : Matches(p, name)

-----------------------------------------------------------------------------
(* Channels *)

Separator(transport) == IF transport = "lcm" THEN "#" ELSE "/"

DefaultPrefix(transport) == IF transport = "lcm" THEN <<"/">> ELSE <<"dimos", "/">>

\* sink::name: a stream of no known type gets no suffix.
ChannelOf(published, type, prefix, separator) ==
    prefix \o published \o (IF type = <<>> THEN <<>> ELSE <<separator>> \o type)

\* Sink::subscribe_all: LCM hands over everything, Zenoh what the prefix covers.
Heard(channel, prefix, transport) == transport = "lcm" \/ IsPrefix(prefix, channel)

\* Mutant: split at the first separator.
SplitAtFirst(channel, prefix, separator) ==
    LET rest == Without(<<"/">>, Without(prefix, channel))
        marks == Places(separator, rest)
    IN  IF marks = {} THEN [stream |-> rest, type |-> <<>>]
        ELSE [stream |-> SubSeq(rest, 1, Min(marks) - 1), type |-> After(Min(marks), rest)]

SplitChannel(channel, prefix, separator) ==
    LET rest == Without(<<"/">>, Without(prefix, channel))
        marks == Places(separator, rest)
    IN  IF marks = {} THEN [stream |-> rest, type |-> <<>>]
        ELSE [stream |-> SubSeq(rest, 1, Max(marks) - 1), type |-> After(Max(marks), rest)]

\* rename in main.rs: each spec in turn moves the first stream of its old name.
Renamed(names, specs, k) ==
    LET mine == {i \in DOMAIN specs :
                    /\ names[k] = specs[i].old
                    /\ \A j \in 1..k - 1 : names[j] # names[k]}
    IN  IF mine = {} THEN names[k] ELSE specs[Max(mine)].new

-----------------------------------------------------------------------------
(* Types *)

DimosMsgs == <<"dimos", ".", "msgs", ".">>

\* `package.Kind`
IsMsgName(type) ==
    /\ type = <<type[1], ".", type[3]>>
    /\ {type[1], type[3]} \cap {"/", "#", "::", ".", "_", "msg", "dds_"} = {}

\* payload_module, with <<>> for None: a type that ends in a dot has no class.
PayloadModule(type) ==
    LET dots == Places(".", type)
        class == IF dots = {} THEN type ELSE After(Max(dots), type)
    IN  IF class = <<>> THEN <<>> ELSE DimosMsgs \o type \o <<".">> \o class

\* The code asks whether the module's string ends with the class's; of what
\* payload_module writes, whose class is the last fragment before the dot, the
\* fragments answer alike.
MsgNameFromPayloadModule(module) ==
    LET path == Without(DimosMsgs, module)
        dots == Places(".", path)
    IN  IF dots # {} /\ IsSuffix(After(Max(dots), path), SubSeq(path, 1, Max(dots) - 1))
        THEN SubSeq(path, 1, Max(dots) - 1)
        ELSE path

\* schema_name, for the types it knows.
SchemaName(type) == <<type[1], "/", "msg", "/", type[3]>>

\* A schema's name, "::" read as "/", falls into parts, each behind a cut.
Cuts(schema) == {0, Len(schema) + 1} \cup Places("/", schema) \cup Places("::", schema)

Part(schema, a) == SubSeq(schema, a + 1, Min({c \in Cuts(schema) : c > a}) - 1)

PartsKept(schema) ==
    {a \in Cuts(schema) \ {Len(schema) + 1} : Part(schema, a) \notin {<<"msg">>, <<"dds_">>}}

\* trim_end_matches
Trimmed(mark, name) == SubSeq(name, 1, Max({0} \cup {k \in 1..Len(name) : name[k] # mark}))

\* msg_name_from_schema: the first two parts, if there are two.
MsgNameFromSchema(schema) ==
    LET first == Min(PartsKept(schema))
        others == PartsKept(schema) \ {first}
    IN  IF PartsKept(schema) # {} /\ others # {}
        THEN Part(schema, first) \o <<".">> \o Trimmed("_", Part(schema, Min(others)))
        ELSE [k \in DOMAIN schema |-> IF schema[k] \in {"/", "::"} THEN "." ELSE schema[k]]
=============================================================================
