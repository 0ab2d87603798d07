# Verification of `rrr` (rapid_rust_replay)

`rrr` replays a recording (`.db` or `.mcap`) onto LCM or Zenoh at its recorded
pace, rewrites the timestamps inside the payloads on the way, and can record
what is on the transport at the same time. This directory holds TLA+ models of
its parts, TLC configurations that check them on small instances, and proofs
that TLAPS checks for every value of the constants.

Paths below are relative to the repository; `main.rs` and the other `.rs` files
are under `src/`. `PROJECT.json` lists, for every definition that models code,
the lines it models.

## 1. The system

| Part | Where | State it keeps | Operations |
|---|---|---|---|
| Replay loop | `main.rs` `replay_once`, `replay_all`, `main` | base, anchor, rate, retimer and `Tally` of a pass; total `Tally` | read, skip, window, wait for a gate or sleep, retime, publish, next pass, Ctrl-C |
| Retimer | `stamp.rs` `Retimer` | first, start and rate, or an offset | `map`, `apply` |
| Lockstep | `lockstep.rs`, `Sink::watch` | `outstanding`, `timeouts`, the `watch` channel (count, time) | `wait`, `next_reply`, `sent`, watcher task |
| `.db` source | `source.rs` `DbSource` | a `Cursor` per stream: page, `last_ts`, `done` | `fill`, `next`, `rewind` |
| `.mcap` source | `source.rs` `McapSource` | `streams`, `by_topic`, message iterator over a mapped file | `open`, `next`, `rewind` |
| Recorder | `record.rs` `Recorder`, `Sink::subscribe_all` | two unbounded queues, channel registry, counters, three tasks | forward, filter, encode, register, write, finish |
| Loopback suppression | `record.rs` `SelfPublished` | a set and a queue of (channel, stamp) | `note`, `claims`, `expire` |
| Audit, tf filter | `stamp.rs` `Audit`, `Throttle`, `TfFilter` | per-stream stamp figures, parents of every frame, age of a split, throttles, drop counts | `inspect`, `apply`, `report` |
| Stamp access | `stamp.rs` `read_nanos`, `write_nanos`, `Retimer::apply` | none | read and patch stamps in payloads |
| CDR transcoding | `cdr.rs` | a cursor or a buffer | `to_cdr`, `to_lcm`, `supports` |
| ROS schemas | `schema.rs` | none | `schema_text`, `schema_name` and its inverse |
| Transport | `sink.rs` `Sink` | channel names | `publish`, `watch`, `subscribe_all` |
| Names, selection | `sink.rs`, `record.rs` `Selection`, `main.rs` `rename` | none | prefix, split, rename, select |
| Command line | `main.rs` `Args` | none | parse, `--list` |

How they interact. The replay loop pulls records from the source, one at a time.
A record of the gate stream enters `Lockstep::wait`; another one sleeps until
its due time. Then the payload goes through `TfFilter`, `Audit` and `Retimer`,
is noted in `SelfPublished` when a recorder runs, and is handed to the sink.
Both transports deliver a process's messages to its own subscribers, so a
watcher task counts the replies for lockstep, and a forwarder task feeds the
subscriber task of the recorder, which asks `SelfPublished` about every message
and passes the rest to a writer thread. Replay task and watcher share a `watch`
channel; replay and subscriber task share `SelfPublished` under a mutex;
forwarder, subscriber and writer are joined by unbounded queues. `main` races
the replay against Ctrl-C and then shuts the recorder down.

What is hard here:

- **Concurrency**: replies land at any moment around `publish`, `sent` and
  `wait`; messages arrive while the recorder is shut down; the loopback of a
  message races its own note and its expiry.
- **Failure**: replies are lost, late, doubled or out of order; payloads are
  missing, cut short, do not decode, or change type; a write fails; the watcher
  dies.
- **Ordering**: pages of several streams are merged; stamps must not change
  places when a gate re-pins the recording to the clock.
- **Agreement**: a writer, a reader and a schema text that share no code must
  agree on every field's place; offsets of stamps are constants that must agree
  with the encoding of LCM; a name travels from channel to stream to topic to
  stream to channel, through two spellings of its type and two transports.
- **Numbers**: alignment at every length of a string, rounding of scaled stamps,
  seconds that saturate, stamps that count as unset or as another clock's.
- **Time**: deadlines, a TTL, warning windows, passes of `--loop`, and Ctrl-C in
  the middle of anything.

What makes each part correct:

- *Replay loop*: stamps follow emission and keep their order and spacing; the
  window is exact; the totals are true; Ctrl-C ends it.
- *Lockstep*: one gate message is unsettled at a time; a reply releases the
  message it answers; a timeout means that nothing came; every wait ends.
- *`.db` source*: every row once per pass, in merge order, in every pass.
- *`.mcap` source, names*: everything recorded and wanted is handed out, in file
  order, in every pass, under the name and type its producer gave it.
- *Stamps*: only the stamps change; they are exact to the rounding, keep their
  order, and what is written can be replayed again.
- *CDR, schemas*: what is written is read back, and displayed, value for value,
  or refused.
- *Recorder*: everything it passes on is in the file or counted; channels
  describe what is in them; the file is closed only when nothing is to come; the
  process exits.
- *Loopback*: nothing of our own is recorded, nothing foreign is withheld but an
  echo, and memory is bounded by the TTL.
- *Audit*: the warnings and the report say what is wrong with the recording, no
  more and no less, and nothing is dropped uncounted.

## 2. The modules

Every component has a specification, an `MC` module that gives its constants
small values, and, where something is proved, a `Proofs` module. Auxiliary
variables that only record what happened are marked `(history)`; operators whose
comment begins with `Mutant:` are deliberately wrong variants of the definition
that follows and are used by no specification.

**`MergedReplay`** is what a source promises: a pass hands out the rows of the
recording one by one, the earliest (and among equals the one of the lowest
stream index) first, then ends; a missing payload ends it with an error; and it
may be started over. It knows no pages.

**`DbSource`** is how the `.db` reader keeps that promise: `page`, `last_ts` and
`done` are the fields of `Cursor`; `IsPage` is the SQL query, `Filled` the loop
of `next` that refills dry cursors, `IsHead` its `min_by`. `HandOut`,
`MissingBlob`, `Exhausted` and `Rewind` are the outcomes of `next` and `rewind`.
Under the mapping `remaining <- Owed` (rows in a page or behind the next
query) it implements `MergedReplay`.

**`Lockstep`** has the replay task (`EnterWait`, `Poll`, `DeadlineReached`,
`Park`, `Wake`, `TimerFires`, `DropTf`, `Publish`, `PublishReturns`, `Sent`), the
watcher (`Take`, `Land`, `WatcherEnds`), and an external consumer and network
(`Answer`, `Lose`). One step lies between two awaits; `publish`, the reading of
the time and `sent` are separate steps because a reply may land between them. So
are the watcher's `Take`, which evaluates `Instant::now()` (`sink.rs:87`, `104`),
and `Land`, which stores it with the new count: a reply in hand between the two
has its time and is not yet counted. The deadline passes at any time after a wait
begins. The rate that `blend` computes is not in this module; `Replay` accepts
any.

**`Replay`** is `replay_once`, `replay_all` and the `select!` of `main`. A
record goes through `Read` (pin, window), `GateOpens` or `Wake`, `DropTf` or
`Emit`, and `Publish`. `pace` is `1 / rate`, in whole ticks. `Lockstep::wait`
appears as its contract only: it returns at some time with some rate. `Fails`
is the `?` of the loop, `Interrupted` the other branch of `select!`, taken where
the replay may return `Pending` (`Awaits`): in a wait, in a sleep before its
deadline, and in a publish on LCM, which asks a socket. Zenoh's `put` is over when
it is called.

**`Recorder`** has forwarder (`Forward`), subscriber (`Subscribe`), writer
(`Write`, `WriteFails`, `Finalize`) and the main task (`Finish`, `DropSender`,
`ReplayFails`, `Exit`). A message is its stream, a kind (what the pipeline tells
apart in it) and its place in the order of arrival. `Accounted` counts each
stream by itself (`Of`).

**`Loopback`** is `SelfPublished`: `Note`, `Publish`, `Deliver`, `Lose`, the
messages of others, and the clock. The set and the queue are separate variables,
as in the code, because they can drift apart.

**`Audit`** handles one message a step: `InspectStamp` is `check_stamp`,
`InspectTree` is `TfFilter::apply` and `check_tree`, `DropTf` the message that
`--drop-tf` leaves nothing of. The report is the predicate `TreeReported`. What
the warnings and drops are compared with is stated over the positions of the
recording (`Seen`, `TransformsIn`), and a tree by what is closed under its edges
(`Reaches`).

**`Stamps`** is the other half of the retimer: where `Replay` treats a stamp as a
number, this module treats a payload as its sequence of 4-byte words. `Payload`
is the layout of LCM (external), `Offset` the table of `support_for`,
`NanosFromParts` and `NanosToParts` are `read_nanos` and `write_nanos` with unset
stamps and saturation, `SameClock` decides whether a stamp is believed, and `Apply` is
`Retimer::apply`, one message a step, with its errors.

**`Cdr`** is `to_cdr`, `to_lcm` and `schema_text`. The three share no code, so they
are three tables from types to fields: `Puts` translates the `put_*` functions,
`Reads` the functions that read a message, `Schema` the text. A table is walked by a
stack of fields still to do (`todo`): `PutRun` and `GetRun` handle a run of
primitives with their alignment and count, `PutList` and `GetList` a sequence of
structs, `PutCall` and `GetCall` a nested struct. `Padded` is `align`, `Cells` what
a run puts into the body, `Start`, `First` and `End` where a reader looks for it,
`Got` what it makes of what lies there. A message is asked for (`ToCdr`, with the
judgement of images), written, perhaps cut short (`Finish`), read back, and read
once more by a viewer that has only the schema. A cell of the body is a whole
primitive, so the order of its bytes is not in the model.

**`Names`** holds the pure operators on names, which are sequences of fragments
with the separators as fragments of their own: prefix, split, type in a channel
and in a schema name, patterns, `--rename`. It has no state. `IsMsgName` says
what a type is, `package.Kind`; `IsProducer` in `Mcap` what a name is.

**`Mcap`** follows messages through a file, recorded and replayed under any
`--prefix` (`Namespaces`): `Hear` is what recorder and file make
of one message, or another tool (`bag`); `Open` is `McapSource::open` with
selection and renames; `Play` is `next` with the window of `replay_once` behind
it and the channel of `Sink::publish`; `Rewind` starts the next pass. Queues,
write errors and the clock of the replay are left to the other modules.

The modules meet at their contracts: `Replay` uses what `Lockstep` promises
(`WaitEnds`: it returns), `Lockstep` uses the order in which `replay_once` calls
`wait`, `publish` and `sent`, `Recorder` uses the answer of `claims` as part of a
message's kind and the outcome of `to_cdr` as another, `Mcap` uses the set of
types that `Cdr` shows to be transcoded, and `Replay` the map whose effect on the
bytes is `Stamps`'. `Mcap` composes recorder, file, source and sink at the level
of names and order; a module that composes the tasks is left (section 7).

## 3. The runs

Nine runs check what holds; three show where the program does not do what its
documentation or a message of it says.

| Run | Question | States |
|---|---|---|
| `MCDbSource_pass` | Is paging the same as reading the merged recording? | 3,900 |
| `MCLockstep_pass` | Do replies release the right messages, and does every wait end? | 2.1 M |
| `MCReplay_pass` | Do stamps, window, totals and Ctrl-C work under gates, windows and passes? | 0.9 M |
| `MCRecorder_pass` | Is everything accounted for, and is the file closed at the right time? | 0.5 M |
| `MCLoopback_pass` | Do set and queue agree, and is exactly the echo withheld? | 77,000 |
| `MCAudit_pass` | Are warnings, charges and the tree's verdict right? | 0.4 M |
| `MCStamps_pass` | Do payloads of every type come out right, and can they be replayed again? | 1.5 M |
| `MCCdr_pass` | Do writer, reader and schema agree on every type? | 0.3 M |
| `MCMcap_pass` | Does a recording come out of a file as it went in? | 7.5 M |
| `MCDbSource_lost_ties` | Is every row read when timestamps repeat? No. | |
| `MCLockstep_lost_race` | Does a timeout mean that no reply came? No. | |
| `MCMcap_lost_arrival` | Does the arrival time stand in for another clock's stamp? No. | |

Every property of a passing run comes with a mutant in `PROJECT.json`: a
plausible bug in the mapped code under which TLC finds the property violated.

### Bounds, and why they are enough

- *DbSource*: two streams with up to three rows, timestamps 0..3, pages of two,
  at most one missing payload. Three rows over pages of two give a full page, a
  short page, an empty answer and a page that ends at the last row. Two streams
  meet in every order, ties across streams included. `CutShort` lets `--duration`
  end a pass anywhere before the next begins.
- *Lockstep*: three gate messages, two replies to each. A reply to the first one
  that is late for the second can be taken for the third's only when there are
  three; two replies to a message are the least with a latest that is not the
  first. The queue of arrivals is never longer than six.
- *Replay*: `MCInputs` pairs recordings with the options that matter to them: three
  messages with at least one gate under `scaled` and `shifted`; up to three of all
  kinds in, before and after a window, paced and with `--rate 0`; one or two
  messages with `--loop`, paced and not, on LCM and on Zenoh. The clock runs to 4,
  `--rate 1` is a pace of 2, and a gate may bring 1 or 3, so that stretching and
  squeezing both occur; counters stop at 4, which no finished run without `--loop`
  reaches.
- *Recorder*: four messages, all seven kinds on one stream and two on another
  that has its own codec. Four allow a registered channel to meet a type change
  and a message after it, with another stream in between.
- *Loopback*: two keys, a TTL of 3, delivery within 2 ticks, time up to 7, so that
  an entry expires and its key comes back. Keys are symmetric; the properties
  name none of them.
- *Audit*: three stamped messages on two streams, stamps up to two ticks off (the
  tolerance is one) or from another clock; every sequence of up to three `tf`
  messages over three frames, and a fourth frame that splits the tree again; all
  of it with and without a rule, over two passes, with a warning window of 2 in a
  time of 3.
- *Stamps*: a second of three units, seconds up to nine, another clock beyond
  five units, so that rounding, carrying and saturation all happen within a few
  steps; every type of `support_for` and one it does not know; one or two
  messages, of up to two transforms when they are `tf`, whole or cut short;
  rates 1/2, 1 and 3. Three units leave a third to round off either way.
- *Cdr*: every supported type and one that is not; a `frame_id` of every length
  modulo 8, so that what follows starts at every alignment; other strings,
  arrays and sequences empty and filled; images raw, compressed, neither, and
  raw with the first bytes of a jpeg, with heights that are negative and lengths
  that are one off; payloads that lost 1, 5 or 12 bytes.
- *Mcap*: three messages of five producers (a camera whose name has a slash, of
  pixels or jpegs; a stream without a type; one from outside the prefix; one
  nobody asked for), or three files of another tool, one with two channels on
  one topic and a third beside them; two passes; a window that begins one tick
  into the recording with a latency of 1, so that a late message falls before it;
  renames that swap two names; the default prefixes and, on Zenoh, none; every
  enumeration of the channels, which the code takes from a hash map; both
  transports on either side.

`CHECK_DEADLOCK FALSE` stands in every run where the program or its bounded clock
really stops: a source that failed, a replay that ended, a recorder that exited,
a recording or a message that is through.

### Fairness, and why the code justifies it

- *DbSource*: weak fairness of `next`: the replay loop keeps calling it until it
  gets `None` or an error.
- *Lockstep*: weak fairness of the replay task's steps, which the runtime polls,
  and of the passing of time. Nothing is assumed of consumer, network or watcher.
- *Replay*: weak fairness of the replay task, and strong fairness of
  `Interrupted` where the replay really yields (`Yields`): in a sleep short of its
  deadline, and in a publish on LCM, where tokio's cooperative budget makes even a
  socket that is always ready return `Pending` now and then. `select!` polls its
  branches in random order whenever the task is woken, so a replay that yields
  again and again does not overlook the signal for ever. Nothing is assumed of a
  gate, since `wait` may return at once every time, nor of a publish on Zenoh, whose
  `put` never returns `Pending` and has no budget, nor of a sleep past its deadline,
  which `main.rs:512-521` leaves out. `InterruptEnds` therefore speaks of replays
  without `--loop`, and of looped ones on LCM whose window is not empty; the others
  are in section 6.
- *Recorder*: weak fairness of the subscriber task, the writer thread and the
  steps of `finish`. Messages need not arrive, writes may fail or not, and
  nobody has to stop the recording.
- *Loopback*, *Audit*, *Stamps*, *Cdr* and *Mcap* have safety properties only:
  the last three are sequential code that goes through what it is given.

### Assumptions about the environment

LCM and other tools lay out what they store as `Payload` says, and
the enumeration of an mcap's channels is any. A stream's name does not begin
with a slash, which `SplitChannel` takes off; its type, if it has one, is
`package.Kind`, neither part of which is `msg` or `dds_` or holds a separator;
and a name from outside a transport's prefix does not begin with what the prefix
begins with (`Outside`). A prefix on Zenoh is empty or ends in a slash and does not
begin with one: Zenoh refuses keys with an empty part, and a prefix that stops
within a part is taken for part of a name. A message is delivered within one
`Latency` of its stamp or is stamped by another clock.
Replies and messages may be lost, delayed and reordered; a reply does not exist
before what it answers is published. SQLite may order equal timestamps as it
likes. `Instant` and `SystemTime` advance together. A Ctrl-C before the runtime
listens kills the process and is not modelled. A message of ours comes back
within `MaxTransit` ticks, less than the TTL of ten seconds, or not at all.

## 4. What the properties say

- `EveryRowRead`, `InMergeOrder`, `PassEnds` and `ImplementsMergedReplay`
  together say that paging cannot be noticed, in the first pass and in any later
  one, unless timestamps repeat within a stream.
- `FreshAnswer`, `OwnAnswer`, `SilentTimeout` and `WaitEnds` say what counting
  replies without matching them guarantees: progress always; a credited reply that
  was counted after its publish and, but for one the watcher held just then, timed
  after it too; a wait that gives up only after a poll that found nothing, and if it
  is parked only when nothing was counted at all; and the right pairing as long as no
  wait timed out and nothing was answered twice.
- `StampsTrackEmission` and `StampsForward` say that under `--stamps scaled` no
  stamp is later than its publish and none goes back, whatever the gates do to
  the rate. `SpacingKept` is about distances: under `shifted` those recorded,
  whatever the gates do, under `scaled` without gates those divided by the rate, at
  `--rate 0` too. `WindowExact` relates a finished pass to its recording, `TotalsTrue`
  the report to what was sent in all passes, or after Ctrl-C in all but the one cut
  short; `InterruptEnds` is liveness.
- `Accounted`, `DeliveryOrder` (with numbers that have no gap),
  `ChannelTellsTheTruth`, `DefectsReported` and `StopsFinalized` follow a message
  through three queues, a registry and two ways of shutting down. `DefectsReported`
  relates the count of unrenderable images, taken when a message is encoded, to the
  file, where a message of a changed type never arrives.
- `SeenMatchesOrder`, `NothingStaleKept`, `OnlyRenewedRecorded` and
  `OnlyEchoesDropped` say that expiry works from the front of a queue, and which
  messages are confused with which: one of our own gets into the recording only if
  its key was queued by an older note, whose expiry ran out.
- `WarningsAddUp`, `BackstepsExact`, `ReportRight`, `TransformsAccounted` and
  `SplitOutlivesWindow` relate what is printed to the recording itself: in one tree
  every frame has at most one parent and reaches the same root. `BackstepsExact` counts
  the inversions of the messages themselves, from one pass to the next included, and
  wants their largest as the worst.
- `RestUntouched`, `TimesExact`, `OrderKept` and `TrustedAgain` are about the
  bytes: the stamp is found behind whatever precedes it, half a unit is all that
  rounding costs, nothing changes places even where seconds saturate, and a
  recording of a replay would be believed if it were replayed.
- `RoundTrip` and `ViewerAgrees` compare the three tables of `Cdr` value by value;
  `SupportedMeansTranscoded` is what `supports` promises the recorder. `CdrTypeOK`
  says that primitives are aligned and do not overlap.
- `NamesSurvive`, `WholeRecording` and `OnlyLatePassedOver` compare what a replay
  puts out with what the recorder heard, over file, transport, prefix, selection,
  rename and pass. `NamesSurvive` says of channels that share a topic that their
  messages go out under the name they share and the type of one of them; it leaves
  out streams of no type whose name holds the separator, which are split in the wrong
  place.

Type invariants, `OneInFlight`, `NeverTwice` and `DoneMeansDrained` are proved
(section 5) and not run again.

## 5. What is proved

For every value of the constants, from the assumptions named in the modules:

| Module | Theorem | States |
|---|---|---|
| `DbSourceProofs` | `TypeCorrect`, `DoneIsDrained` | types, and `done` is never raised early |
| | `MergeOrder`, `NoRowTwice` | merge order and no repetition, whatever the timestamps |
| | `Completeness` | every row is read, if `DistinctTimes` |
| | `Refinement` | `DbSource` implements `MergedReplay`, if `DistinctTimes` |
| `LockstepProofs` | `TypeCorrect`, `AtMostOneInFlight`, `CreditedAfterPublish` | `TypeOK`, `OneInFlight`, `FreshAnswer` |
| | `ReleasedByOwnAnswer`, `TimesOutInSilence` | `OwnAnswer`, `SilentTimeout` |
| `LoopbackProofs` | `TypeCorrect`, `SetAndQueueAgree`, `MemoryBounded`, `DropsOnlyEchoes` | `TypeOK`, `SeenMatchesOrder`, `NothingStaleKept`, `OnlyEchoesDropped` |
| | `OnlyRenewedGetThrough` | `OnlyRenewedRecorded`, if `MaxTransit < TTL` |
| `ReplayProofs` | `TypeCorrect`, `StampsNeverAhead`, `StampsKeepOrder` | `TypeOK`, `StampsTrackEmission`, `StampsForward` |
| | `TotalsAreTrue`, `WindowIsExact`, `SpacingIsKept` | `TotalsTrue`, `WindowExact`, `SpacingKept` |
| `RecorderProofs` | `TypeCorrect`, `ChannelsTrue` | `TypeOK`, `ChannelTellsTheTruth` |
| | `OrderOfDelivery`, `NothingUndrawableUntold` | `DeliveryOrder`, `DefectsReported` |
| | `NothingUnaccounted` | `Accounted` |
| `PayloadProofs` | `TypeCorrect`, `NothingElseWritten`, `TimesAreExact` | `TypeOK`, `RestUntouched`, `TimesExact` |
| | `OrderIsKept`, `TrustIsKept` | `OrderKept`, `TrustedAgain` |
| | `PayloadLaidOut`, `RoundTripHolds` | `CdrTypeOK`, `RoundTrip` |
| | `ViewersAgree`, `SupportedIsTranscoded` | `ViewerAgrees`, `SupportedMeansTranscoded` |
| `AuditProofs` | `TypeCorrect`, `SplitsLast`, `BackstepsAreExact` | `TypeOK`, `SplitOutlivesWindow`, `BackstepsExact` |
| | `WarningsTellAll`, `NoTransformLost`, `ReportTells` | `WarningsAddUp`, `TransformsAccounted`, `ReportRight` |
| `McapProofs` | `OnlyLateLeftOut` | `OnlyLatePassedOver` |
| | `NamesComeBack`, `AllIsHanded` | `NamesSurvive`, `WholeRecording` |

The arguments:

- **DbSource.** Merge order is not inductive: a step needs to know that the row
  handed out last comes before everything still owed. `IInv` adds that pages and
  rows read lie at or below `last_ts` (`PageBehind`, `ReadBehind`), that `done`
  means drained, and `LastPrecedesOwed`. `FillEffect` says what one refill does
  to a stream; `HeadPrecedesAll` turns it into the order. Completeness adds
  `NothingSkipped`, which is where timestamps have to be distinct: only then does
  a query return every row up to the timestamp it stops at.
- **Lockstep.** `Turn` says what the position of the replay task means for the
  fate of every gate message; `Counts` orders the count at publish, the count
  remembered and the reply credited, and says that at most one reply is timed ahead of
  its count. For the pairing, `SingleInv` adds that no
  reply exists before its message is published and none is counted twice
  (`Replies`), and that all replies counted before `sent` belong to earlier
  messages (`Credited`); the reply beyond that count can then only be the right
  one. For the timeout, `Unmet` says that a wait between two polls has seen no
  count beyond the one it remembers.
- **Loopback.** `SeenMatchesOrder` is inductive with the fact that no queue entry
  is newer than the last note of its key. `PopsFront` and `StaysInStep` say what
  expiry leaves; `NoneStale` that sorted entries behind a fresh front are fresh.
  `PromptInv` follows the notes: every key noted is still queued, at the time it was
  queued, or has had its TTL (`PoppedLate`). A message of ours is under way for less
  than that, so where its key is gone the entry was older than the message.
- **Replay.** `Linked` and `Paced` say that retimer, anchor and rate agree, and that
  what is emitted is due; the stamp is then at most the due time (the map is
  monotonic, `Times`). For the order, `FInv` adds that the anchor never lies ahead
  of the record being handled (`Anchored`) and that the last stamp is at most the
  anchor's time, or was mapped with the same anchor (`LastStamp`). `Counted` splits
  what was emitted between the totals, the tally of the pass and the message being
  published, and says that the totals are what went out before the pass (`before`),
  which is what an interrupt leaves. For the window, `Pinned` says that `base` comes
  from the first message with a wire form, and `Published` what the messages read so
  far have come to; a recording in order then has nothing left once one message lies
  past the window. For the spacing, `Spaced` says that the last stamp is what the
  retimer the pass still has makes of its record, shifted always and scaled as long
  as nothing gates the recording (`RateUnmoved`).
- **Recorder.** `InOrder` says that file and both queues ascend and follow one
  another, `EncodingSettled` that the encoding of a channel is a function of its
  stream and type, `Numbered` that `sequence` is the number of the last message
  in the file. The other properties are inductive with these. `Accounted` counts a
  stream's messages in file and queues (`Of`); a queue that loses its head or
  gains an entry changes one of these sets by one element, and `Accounted`
  follows from what each task moves. `DefectsReported` compares cardinalities in the
  same way: a write adds to the file and to a counter, or to two counters.
- **Stamps.** `Written` says that every output is `Patched` of its input; the
  properties are then about `Patched` alone. `OffsetIsLead` is the agreement of
  the offset table with the layout, `ThereAndBack` that a written stamp reads back
  as what was to be written unless it saturates, `RoundedNear`, `RoundedMonotone`
  and `RoundedContracts` what rounding does to distances.
- **Audit.** `SplitKnown` relates the age of a split to the last message that left
  one tree. `Charged` ties the figures of a stream to the set of its inversions so
  far, over all passes: messages are numbered on from pass to pass, and
  `MessageNext` says that the next number is the next message of the pass.
  `AdjacentGrown` says what one more message adds to the set. The sums of
  `WarningsAddUp` and `TransformsAccounted` are folds over finite sets. What a fold
  over one more element yields is shown by a least counterexample (`SmallestSet`,
  from the library's well-founded order of finite sets), so that no induction theorem
  with an operator for a parameter is needed. For the report, `TreeKnown` says that
  the parents kept are the edges published, and `Topmost` that without a cycle every
  frame has a root above it, the one with the fewest ancestors.
- **Mcap.** The order of the window needs only that what was heard is in order of
  delivery and within `Latency` of its stamp (`Sound`, `WindowKnown`, `Times`). For
  the names, `SplitIs`, `PayloadBack` and `SchemaBack` say that what a channel, a
  recorder's type and a ROS schema name turn a name into is turned back;
  `Channelled` that every message in the file is under a channel that says who
  produced it, `Opened` what `open` makes of such channels, `FoundIs` which of several
  channels on a topic is found and that no rename has reached it, and `HandedRight`
  that what was handed out is what the streams say. `Kept` pairs messages heard with
  those on file in order (`KeptIn`, and `OneMore` for what a message adds), from which
  a whole pass follows.
- **Cdr** (in `PayloadProofs`, with `Stamps`). `Tables` compares `Puts`, `Reads`
  and `Schema` type by type; the text may spell a struct out where the writer puts
  its fields one by one, which is what `Stands` and `Alike` allow for. `PutIs` and
  `Laid` say where a run lies and that nothing written earlier moves. What the writer
  did is kept as a set of places, each a stack of fields, an offset and what lies
  before it, every one followed by another (`Trail`). The writer adds a place
  with each step (`Writing`); a reader is always at one of them (`AtRead`), and a
  viewer at one whose stack is `Alike` its own (`AtView`), so that at the end both
  have read what the last place says was written. Bytes cut off are missed because
  the last place lies beyond what is left. No induction over stacks or messages is
  needed: `CdrInv` states that such places exist, and a step shows the next one.

Only model-checked: liveness (`PassEnds`, `WaitEnds`, `StopsFinalized`,
`InterruptEnds`), which under fairness is beyond the prover.

## 6. Where code and words differ

Shown by runs:

- `source.rs:177`: rows that share a timestamp across a page boundary are lost.
- `lockstep.rs:93`: a reply that lands between publish and `sent()` is taken for
  an old one, and the wait for it times out.
- `source.rs:334`: the time of an `.mcap` record is `publish_time`, which the
  recorder takes from the stamp itself, so a stamp from another clock is compared
  with itself and believed.

Noticed while modelling, without a run of their own:

- `main.rs:398`: Ctrl-C leaves the pass under way out of the totals (the second
  case of `TotalsTrue`).
- `record.rs:189`: a key noted again keeps its old expiry, and messages without a
  stamp all share one key, so our own may get into the recording;
  `OnlyRenewedRecorded` says when.
- `stamp.rs:324`: frames in a cycle have no root and are reported as one tree;
  the exception in `ReportRight`.
- `stamp.rs:247`: for the reason given for `source.rs:334`, the audit's check that
  a stamp is not later than its delivery cannot trip for an `.mcap` of ours.
- `source.rs:1`: "timestamp order" is file order for an `.mcap`, so a message that
  arrived late may be passed over at `main.rs:448`; `OnlyLatePassedOver` bounds it.
- `source.rs:307`: of two channels on one topic with different types, which type
  both get depends on the order of a hash map; `--rename` renames the first stream of
  a name, and the messages go out as the last (`main.rs:153`).
- `record.rs:468`: a stream without a type whose name holds the separator is split
  as if it had one.
- `record.rs:303`: an image is counted as unrenderable before its type is compared
  with its channel's, so one that is then dropped is counted although `record.rs:225`
  says "These are in the file"; `DefectsReported` bounds the count from both sides.
- `sink.rs:87`, `104`: the watcher reads the time before it stores it, so a reply in
  its hand at `published_at` may be credited with an earlier time, the cycle is then 0
  and `blend` leaves the rate alone. The exception in `FreshAnswer`.
- `lockstep.rs:102`: a reply counted after the last poll and before the check of the
  deadline is given up on; `SilentTimeout` speaks of the poll.
- `cdr.rs:352`: an image that claims a codec and has a negative height or step is kept
  as an Image without a report, though 340 says why such an Image is never seen.
- `main.rs:140`: of two `--rename` for one old name the last one counts, though
  the comment says that their order does not matter.
- `sink.rs:187`: on Zenoh the lockstep topic is watched as `<topic>/**`, which
  also matches streams below it; on LCM it is one stream.
- `lockstep.rs:102`: the time used is that of the latest reply, the comment at
  97 speaks of the first one.
- `lockstep.rs:3`: after a timeout, a late reply releases a later message.
- `lockstep.rs:110`: a watcher that is gone makes `changed()` return at once, so
  the wait spins until its deadline.
- `main.rs:421`: with `--rate 0` stamps are scaled at rate 1 while emission is not
  paced, so they run ahead of it (`README.md:205`, `286`).
- `main.rs:386`: a looping replay whose window is empty awaits nothing and does
  not see Ctrl-C (comment at 293). Nor does one on Zenoh that never has to wait for
  a deadline, at `--rate 0` or with a single message: `put` (`sink.rs:68`) is over when
  it is called. A recording under way is then never finalized.
- `stamp.rs:253`: `previous_ns` survives a pass, so every later pass of `--loop`
  charges a backwards step to each stream.
- `stamp.rs:193`: the throttle is shared by all streams; a second stream's first
  defect may be swallowed (`README.md:244`).
- `main.rs:121`: the default codec is `cdr`, `README.md:112` says raw LCM.
- `stamp.rs:72`: `--drop-tf` also withholds a `tf` message that was empty before.

## 7. Plan

Done: replay loop and retiming, lockstep, `.db` source with its abstract
specification, recorder, loopback, audit, stamps in payloads, CDR and schemas,
names and the `.mcap` source; proofs of every safety property the runs check.

Left:

1. `Session`: `Replay`, `Lockstep` and `Loopback` composed, so that the contracts
   of section 2 are discharged (`Replay`'s gate by `Lockstep`, `Recorder`'s kind
   `own` by `Loopback`). Each of the three has about a million states alone.
2. `blend` in `Lockstep`, with its bounds; `Replay` accepts any rate, so nothing
   that is checked depends on it.

### Not modelled

- The command line: argument parsing, `--list`, the spelling of patterns,
  progress output, the wording of reports.
- Opening a `.db` (queries over `_streams`), creating files, free space, opening
  a transport, the wildcard of the lockstep topic.
- The container format of mcap, its chunks and compression, the encodings of LCM
  beyond the places of stamps, and the decoders of images: libraries.
- The order of bytes within a word. `to_cdr` always writes little endian; `to_lcm`
  turns words by the header's flag, which only other tools set otherwise.
- Which container an image's first bytes stand for: `container_format` decides from
  one frame alone, and a property would restate it.
- The precision of `f64`: `Stamps` rounds exact fractions, which the code does as
  long as gaps stay below 2^53 ns (about 104 days).
- The memory of the recorder: both its queues are unbounded (`record.rs:266`),
  so a writer slower than the transport grows them; `Recorder` has no bound to
  exceed.

## 8. Running it

    tlc -config MCReplay_pass.cfg MCReplay     # and so on, for each .cfg
    tlapm ReplayProofs.tla                     # and so on, for each *Proofs.tla

The first word of a configuration's name is its module. Each passing run takes
at most three minutes on two cores.
