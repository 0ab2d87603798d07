------------------------------ MODULE Recorder ------------------------------
(***************************************************************************)
(* `--record` (record.rs, Sink::subscribe_all): the forwarder task takes   *)
(* messages off the transport, the subscriber task filters them into an    *)
(* unbounded queue, the writer thread encodes them into the mcap, and the  *)
(* main task shuts the three down, through Recorder::finish or, when the   *)
(* replay failed, by dropping everything as the runtime ends.              *)
(*                                                                         *)
(* A message is known by its place in the order of arrival; `kind` is what *)
(* the pipeline tells apart in it.  Whether SelfPublished claims a message *)
(* is part of its kind here (module Loopback models the claim).            *)
(***************************************************************************)
EXTENDS Naturals, Sequences, FiniteSets

CONSTANTS
    Inputs,       \* the messages on the transport: a set of [stream, kind]
    MaxMessages,  \* bound on the messages that arrive
    CodecFlag,    \* --record-codec-default, or "none" when not given
    Overrides     \* --record-codec: a function from some streams to codecs

Codecs == {"cdr", "lcm", "lz4+lcm"}

Kinds == {"raw",       \* an Image of pixels
          "jpeg",      \* an Image that carries a jpeg or png
          "mystery",   \* an Image neither raw nor a known container
          "garbled",   \* an Image that does not decode
          "custom",    \* a type no CDR transcoder knows
          "own",       \* a message this process published
          "unwanted"}  \* a stream the selection leaves out

Streams == {m.stream : m \in Inputs}

ASSUME RecorderAssumption ==
    /\ \A m \in Inputs : m.kind \in Kinds
    /\ MaxMessages \in Nat
    /\ CodecFlag \in Codecs \cup {"none"}
    /\ DOMAIN Overrides \subseteq Streams
    /\ \A s \in DOMAIN Overrides : Overrides[s] \in Codecs

Types == {"Image", "CompressedImage", "Custom"}

VARIABLES
    arrivals,      \* from the forwarder to the subscriber
    forwarder,     \* the forwarder task still runs
    subscriber,    \* "running", "aborted" (asked to stop) or "gone"
    captured,      \* from the subscriber to the writer
    sender,        \* Recorder.captured is still held
    writer,        \* "running", "finished" (file finalized) or "failed"
    registered,    \* the writer's channels: type each stream is registered with
    encoding,      \* ... its message_encoding
    sequence,      \* ... and the sequence number last used
    file,          \* messages in the file, in order
    unencodable,   \* Written.unencodable, per stream
    unrenderable,  \* Written.unrenderable, per stream
    phase,         \* what the main task is doing
    arrived,       \* messages arrived so far (history)
    sent           \* messages the subscriber put on the queue, per stream (history)

tasks == <<forwarder, subscriber, sender, phase>>
written == <<registered, encoding, sequence, file, unencodable, unrenderable>>
vars == <<arrivals, captured, writer, arrived, sent, tasks, written>>

-----------------------------------------------------------------------------
(* Codecs *)

\* The codec asked for: the stream's own, the default given, or clap's.
CodecOf(s) ==
    IF s \in DOMAIN Overrides THEN Overrides[s]
    ELSE IF CodecFlag = "none" THEN "cdr" ELSE CodecFlag

MsgName(m) == IF m.kind = "custom" THEN "Custom" ELSE "Image"

\* Codec::resolve: a type without a transcoder is stored as raw LCM.
Resolve(codec, name) == IF codec = "cdr" /\ name = "Custom" THEN "lcm" ELSE codec

\* Codec::encode: only CDR looks at the payload.
Encodes(codec, m) == ~(codec = "cdr" /\ m.kind = "garbled")

Recorded(codec, m) ==
    IF codec = "cdr" /\ m.kind = "jpeg" THEN "CompressedImage" ELSE MsgName(m)

\* Mutant: a defect is counted where a known channel is looked up.
DefectOfKnown(codec, m) ==
    codec = "cdr" /\ m.kind = "mystery" /\ registered[m.stream] # "none"

Defective(codec, m) == codec = "cdr" /\ m.kind = "mystery"

Unregistered == "none"

\* Mutant: a channel takes whatever comes.
TypeIgnored(s, recorded) == FALSE

\* channels.insert and get_mut: a stream keeps the type it was registered with.
TypeChanged(s, recorded) == registered[s] \notin {Unregistered, recorded}

Init ==
    /\ arrivals = <<>> /\ captured = <<>> /\ file = <<>>
    /\ forwarder = TRUE /\ subscriber = "running" /\ sender = TRUE
    /\ writer = "running"
    /\ registered = [s \in Streams |-> Unregistered]
    /\ encoding = [s \in Streams |-> Unregistered]
    /\ sequence = [s \in Streams |-> 0]
    /\ unencodable = [s \in Streams |-> 0]
    /\ unrenderable = [s \in Streams |-> 0]
    /\ phase = "recording"
    /\ arrived = 0 /\ sent = [s \in Streams |-> 0]

-----------------------------------------------------------------------------
(* Forwarder and subscriber tasks *)

\* recv() on the transport, and send() into the subscriber's channel.
Forward ==
    /\ forwarder
    /\ subscriber # "gone"
    /\ arrived < MaxMessages
    /\ \E m \in Inputs :
          arrivals' = Append(arrivals, [stream |-> m.stream, kind |-> m.kind,
                                        id |-> arrived + 1])
    /\ arrived' = arrived + 1
    /\ UNCHANGED <<captured, writer, sent, tasks, written>>

\* recv() failed, or send() found the subscriber gone.
ForwarderEnds ==
    /\ forwarder
    /\ forwarder' = FALSE
    /\ UNCHANGED <<arrivals, captured, writer, arrived, sent, subscriber, sender, phase,
                   written>>

\* The subscriber's future is dropped, with its ends of both channels.
SubscriberDrops == subscriber' = "gone" /\ arrivals' = <<>>

Queued(m) == captured' = Append(captured, m)

\* One turn of the subscriber's loop.  An abort waits for the next await, so
\* a turn may still be taken after it was asked for.
Subscribe ==
    /\ subscriber \in {"running", "aborted"}
    /\ arrivals # <<>>
    /\ IF Head(arrivals).kind \in {"own", "unwanted"}
       THEN arrivals' = Tail(arrivals) /\ UNCHANGED <<subscriber, captured, sent>>
       ELSE IF writer = "running"
       THEN /\ arrivals' = Tail(arrivals)
            /\ Queued(Head(arrivals))
            /\ sent' = [sent EXCEPT ![Head(arrivals).stream] = @ + 1]
            /\ UNCHANGED subscriber
       ELSE SubscriberDrops /\ UNCHANGED <<captured, sent>>
    /\ UNCHANGED <<writer, arrived, forwarder, sender, phase, written>>

\* arrivals.recv() returned None, or the abort took effect.
SubscriberEnds ==
    /\ \/ subscriber = "running" /\ ~forwarder /\ arrivals = <<>>
       \/ subscriber = "aborted"
    /\ SubscriberDrops
    /\ UNCHANGED <<captured, writer, arrived, sent, forwarder, sender, phase, written>>

-----------------------------------------------------------------------------
(* Writer thread *)

\* Mutant: a message that cannot be stored vanishes uncounted.
DropUncounted(s) ==
    UNCHANGED <<unencodable, registered, encoding, sequence, file>>

\* Mutant: the sequence number is taken before the type is looked at.
DropNumbered(s) ==
    /\ unencodable' = [unencodable EXCEPT ![s] = @ + 1]
    /\ sequence' = [sequence EXCEPT ![s] = @ + 1]
    /\ UNCHANGED <<registered, encoding, file>>

\* A message that does not encode, or changes its stream's type, is counted.
Drop(s) ==
    /\ unencodable' = [unencodable EXCEPT ![s] = @ + 1]
    /\ UNCHANGED <<registered, encoding, sequence, file>>

\* The first message of a stream registers its channel.
Announce(s, codec, recorded) ==
    /\ registered' = [registered EXCEPT ![s] = recorded]
    /\ encoding' = IF registered[s] = Unregistered
                   THEN [encoding EXCEPT ![s] = codec] ELSE encoding

Store(m, codec, recorded) ==
    /\ Announce(m.stream, codec, recorded)
    /\ sequence' = [sequence EXCEPT ![m.stream] = @ + 1]
    /\ file' = Append(file, [id |-> m.id, stream |-> m.stream, kind |-> m.kind,
                             recorded |-> recorded, codec |-> codec,
                             sequence |-> sequence[m.stream] + 1])
    /\ UNCHANGED unencodable

\* One message: encode, register or look up its channel, write.
Write ==
    /\ writer = "running"
    /\ captured # <<>>
    /\ captured' = Tail(captured)
    /\ LET m == Head(captured)
           codec == Resolve(CodecOf(m.stream), MsgName(m))
           recorded == Recorded(codec, m)
       IN  /\ unrenderable' =
                 IF Encodes(codec, m) /\ Defective(codec, m)
                 THEN [unrenderable EXCEPT ![m.stream] = @ + 1] ELSE unrenderable
           /\ IF ~Encodes(codec, m) \/ TypeChanged(m.stream, recorded)
              THEN Drop(m.stream)
              ELSE Store(m, codec, recorded)
    /\ UNCHANGED <<arrivals, writer, arrived, sent, tasks>>

\* Writing a message or finishing the file fails: the thread returns, and the
\* queue goes with it.
WriteFails ==
    /\ writer = "running"
    /\ captured # <<>> \/ (~sender /\ subscriber = "gone")
    /\ writer' = "failed"
    /\ captured' = <<>>
    /\ UNCHANGED <<arrivals, arrived, sent, tasks, written>>

\* blocking_recv() returns None, which an mpsc channel does when it is empty and
\* all its senders are gone: the loop ends and the file is finalized.
Finalize ==
    /\ writer = "running"
    /\ captured = <<>>
    /\ ~sender /\ subscriber = "gone"
    /\ writer' = "finished"
    /\ UNCHANGED <<arrivals, captured, arrived, sent, tasks, written>>

-----------------------------------------------------------------------------
(* Main task *)

AbortSubscriber ==
    subscriber' = IF subscriber = "running" THEN "aborted" ELSE subscriber

\* The replay ended or Ctrl-C came in: finish() aborts the subscriber,
Finish ==
    /\ phase = "recording"
    /\ phase' = "aborting"
    /\ AbortSubscriber
    /\ UNCHANGED <<arrivals, captured, writer, arrived, sent, forwarder, sender, written>>

\* Mutant: finish() keeps its own sender.
DropNothing ==
    /\ phase = "aborting"
    /\ subscriber = "gone"
    /\ phase' = "closing"
    /\ UNCHANGED <<arrivals, captured, writer, arrived, sent, forwarder, subscriber, sender,
                   written>>

\* waits until it is gone and drops the recorder's own sender,
DropSender ==
    /\ phase = "aborting"
    /\ subscriber = "gone"
    /\ sender' = FALSE
    /\ phase' = "closing"
    /\ UNCHANGED <<arrivals, captured, writer, arrived, sent, forwarder, subscriber, written>>

\* The replay failed: main returns without finish(); the recorder's sender is
\* dropped and the runtime drops the subscriber as it shuts down.
ReplayFails ==
    /\ phase = "recording"
    /\ phase' = "closing"
    /\ sender' = FALSE
    /\ AbortSubscriber
    /\ UNCHANGED <<arrivals, captured, writer, arrived, sent, forwarder, written>>

\* Either way the process waits for the writer thread before it exits.
Exit ==
    /\ phase = "closing"
    /\ subscriber = "gone"
    /\ writer # "running"
    /\ phase' = "exited"
    /\ UNCHANGED <<arrivals, captured, writer, arrived, sent, forwarder, subscriber, sender,
                   written>>

Next ==
    \/ Forward \/ ForwarderEnds \/ Subscribe \/ SubscriberEnds
    \/ Write \/ WriteFails \/ Finalize
    \/ Finish \/ DropSender \/ ReplayFails \/ Exit

Spec == Init /\ [][Next]_vars

\* Tasks and threads keep running; nothing obliges messages to arrive, a
\* recording to be stopped, or the transport to fail.
FairSpec ==
    /\ Spec
    /\ WF_vars(Subscribe \/ SubscriberEnds)
    /\ WF_vars(Write \/ Finalize)
    /\ WF_vars(DropSender \/ Exit)

-----------------------------------------------------------------------------
(* Properties *)

Message == [stream : Streams, kind : Kinds, id : Nat]
Entry == [id : Nat, stream : Streams, kind : Kinds, recorded : Types, codec : Codecs,
          sequence : Nat]

\* Type invariant; a channel has a type and an encoding, or neither.
TypeOK ==
    /\ arrivals \in Seq(Message)
    /\ captured \in Seq(Message)
    /\ forwarder \in BOOLEAN
    /\ subscriber \in {"running", "aborted", "gone"}
    /\ sender \in BOOLEAN
    /\ writer \in {"running", "finished", "failed"}
    /\ registered \in [Streams -> Types \cup {Unregistered}]
    /\ encoding \in [Streams -> Codecs \cup {Unregistered}]
    /\ \A s \in Streams : encoding[s] = Unregistered <=> registered[s] = Unregistered
    /\ sequence \in [Streams -> Nat]
    /\ file \in Seq(Entry)
    /\ unencodable \in [Streams -> Nat]
    /\ unrenderable \in [Streams -> Nat]
    /\ phase \in {"recording", "aborting", "closing", "exited"}
    /\ arrived \in Nat
    /\ sent \in [Streams -> Nat]

\* Every message of a stream matches what its channel says of it: the schema's
\* type and the message encoding a reader will decode it with.
ChannelTellsTheTruth ==
    \A k \in 1..Len(file) :
        /\ file[k].recorded = registered[file[k].stream]
        /\ file[k].codec = encoding[file[k].stream]

\* The file holds messages in the order they were delivered, and numbers those
\* of one stream 1, 2, 3, ... without a gap, whatever was dropped between them.
DeliveryOrder ==
    \A k \in 1..Len(file) :
        /\ \A j \in 1..k - 1 :
              /\ file[j].id < file[k].id
              /\ file[j].stream = file[k].stream => file[j].sequence < file[k].sequence
        /\ \/ file[k].sequence = 1
           \/ \E j \in 1..k - 1 : /\ file[j].stream = file[k].stream
                                 /\ file[j].sequence = file[k].sequence - 1

\* The places in a queue or a file that hold a message of stream s.
Of(q, s) == {k \in 1..Len(q) : q[k].stream = s}

\* Every message of a stream the subscriber passed on is in the file, on its way
\* there, or counted as lost on that stream's account.
Accounted ==
    writer # "failed" =>
        \A s \in Streams :
            sent[s] = Cardinality(Of(captured, s)) + Cardinality(Of(file, s))
                      + unencodable[s]

\* The messages of stream s in the file that no viewer can draw: an Image in CDR
\* that is neither pixels nor a known container.
Undrawable(s) == {k \in Of(file, s) : file[k].kind = "mystery" /\ file[k].codec = "cdr"}

\* Every message in the file that no viewer can draw is reported as unrenderable,
\* and one reported that is not in the file is among those reported as dropped:
\* it had changed its stream's type, which is found out after the defect.
DefectsReported ==
    \A s \in Streams :
        /\ Cardinality(Undrawable(s)) <= unrenderable[s]
        /\ unrenderable[s] <= Cardinality(Undrawable(s)) + unencodable[s]

\* Once asked to stop, the process exits, with the file finalized unless
\* writing it failed.
StopsFinalized ==
    phase # "recording" ~> phase = "exited" /\ writer \in {"finished", "failed"}
=============================================================================
