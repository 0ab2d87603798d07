------------------------------- MODULE Stamps -------------------------------
(***************************************************************************)
(* stamp.rs on the bytes of a message: where the stamp of each type lies,  *)
(* what counts as unset or as another clock's, and what Retimer::apply     *)
(* writes back.  A few messages of one type are replayed and recorded as   *)
(* they go out; what a second replay would make of the new recording is    *)
(* stated (TrustedAgain), not run.                                         *)
(*                                                                         *)
(* A payload is its sequence of 4-byte words.  A second has NANOS units    *)
(* and an i32 ends at MAXSEC; a rate is a fraction <<num, den>>.           *)
(***************************************************************************)
EXTENDS Integers, Sequences

CONSTANTS
    NANOS,      \* NANOS_PER_SEC
    MAXSEC,     \* i32::MAX
    SAMECLOCK,  \* SAME_CLOCK_NS
    KINDS,      \* message types replayed
    PARTS,      \* <<sec, nsec>> found in recorded payloads
    ARRIVALS,   \* reception times
    MODES,      \* --stamps
    WALLS,      \* when the replay is anchored
    RATES,
    LENGTHS     \* how many messages, how many transforms in each

ASSUME StampsAssumption ==
    /\ NANOS \in Nat \ {0} /\ MAXSEC \in Nat \ {0} /\ SAMECLOCK \in Nat \ {0}
    /\ PARTS \subseteq (Int \X Nat)
    /\ ARRIVALS \subseteq Nat /\ WALLS \subseteq Nat
    /\ MODES \subseteq {"scaled", "shifted", "original"}
    /\ RATES \subseteq ((Nat \ {0}) \X (Nat \ {0}))
    /\ LENGTHS \subseteq Nat

VARIABLES
    kind,
    recording,  \* the messages to replay: [received, words]
    retimer,    \* [mode, first, wall, rate]
    outputs,    \* what was published of them: [words, restamped]
    failed      \* apply() gave an error, which ends the replay

vars == <<kind, recording, retimer, outputs, failed>>

-----------------------------------------------------------------------------
(* A payload, as LCM encodes it (external): a fingerprint of two words, the *)
(* lengths of the message's sequences, the header's seq, then the stamp.   *)
Lengths(k) ==
    CASE k \in {"CompressedVideo", "LineSegments3D", "OccupancyGrid", "Path",
                "CameraInfo", "CompressedImage", "Image", "Detection2D",
                "Detection2DArray", "Detection3D", "Detection3DArray"} -> 1
      [] k \in {"Joy", "PointCloud2", "LaserScan"} -> 2
      [] k = "JointState" -> 4
      [] OTHER -> 0
Lead(k) == 2 + Lengths(k) + (IF k = "CompressedVideo" THEN 0 ELSE 1)

TfKinds == {"TFMessage", "Transform"}

\* Stamps are parts[1], parts[2], ...; all that is not one is negative.
Payload(k, parts) ==
    IF k \in TfKinds
    THEN [w \in 1..(3 + 4 * Len(parts)) |->
            IF w = 3 THEN Len(parts)
            ELSE IF w > 3 /\ w % 4 \in {1, 2}
                 THEN parts[(w - 1) \div 4][IF w % 4 = 1 THEN 1 ELSE 2] ELSE -w]
    ELSE [w \in 1..(Lead(k) + 3) |->
            IF w - Lead(k) \in {1, 2} THEN parts[1][w - Lead(k)] ELSE -w]

Cut(words) == SubSeq(words, 1, Len(words) - 2)

-----------------------------------------------------------------------------
(* Where the code looks for stamps.                                        *)

\* Mutant: a path's header is looked for where an odometry's is.
OffsetOfHeader(k) ==
    IF k \in TfKinds \/ k = "LaserScan" THEN 0 ELSE 12

\* support_for: the byte offset of a Fixed stamp, 0 without one.
Offset(k) ==
    CASE k \in {"PointStamped", "PoseStamped", "PoseWithCovarianceStamped",
                "TransformStamped", "TwistStamped", "TwistWithCovarianceStamped",
                "WrenchStamped", "Odometry", "Imu", "CompressedVideo"} -> 12
      [] k \in {"LineSegments3D", "OccupancyGrid", "Path", "CameraInfo",
                "CompressedImage", "Image", "Detection2D", "Detection2DArray",
                "Detection3D", "Detection3DArray"} -> 16
      [] k \in {"Joy", "PointCloud2"} -> 20
      [] k = "JointState" -> 28
      [] OTHER -> 0

\* The types replayed are those of support_for, and LaserScan, which the code
\* leaves as it is.
ASSUME KindsAssumption ==
    \A k \in KINDS : k \in TfKinds \/ k = "LaserScan" \/ Offset(k) > 0

\* The words that hold the seconds of each stamp, in order.
StampWords(k, words) ==
    IF k \in TfKinds THEN [i \in 1..words[3] |-> 4 * i + 1]
    ELSE IF Offset(k) > 0 THEN <<Offset(k) \div 4 + 1>>
    ELSE <<>>

\* apply() fails on a payload its stamps do not fit in.
TooShort(k, words) ==
    IF k \in TfKinds THEN Len(words) < 3 \/ Len(words) < 3 + 4 * words[3]
    ELSE Offset(k) > 0 /\ 4 * Len(words) < Offset(k) + 8

-----------------------------------------------------------------------------
(* What a stamp says.                                                      *)
Unset == -1

NanosFromParts(sec, nsec) == IF sec > 0 THEN sec * NANOS + nsec ELSE Unset

\* Mutant: the seconds are rounded to the nearest.
PartsRounded(ns) ==
    IF ns <= 0 THEN <<0, 0>> ELSE <<(ns + NANOS \div 2) \div NANOS, ns % NANOS>>

NanosToParts(ns) ==
    IF ns <= 0 THEN <<0, 0>>
    ELSE <<IF ns \div NANOS > MAXSEC THEN MAXSEC ELSE ns \div NANOS, ns % NANOS>>

Distance(a, b) == IF a < b THEN b - a ELSE a - b
SameClock(stamp, received) ==
    received = 0 \/ Distance(stamp, received) < SAMECLOCK

\* f64::round of n/d: half away from zero.
Rounded(n, d) ==
    IF n >= 0 THEN (2 * n + d) \div (2 * d) ELSE -((-2 * n + d) \div (2 * d))

Scaled(r, ns) == r.wall + Rounded((ns - r.first) * r.rate[2], r.rate[1])

\* Mutant: a shift stretches with the rate as well.
MapStretched(r, ns) == IF r.mode = "original" THEN ns ELSE Scaled(r, ns)

Map(r, ns) ==
    CASE r.mode = "scaled" -> Scaled(r, ns)
      [] r.mode = "shifted" -> ns + (r.wall - r.first)
      [] OTHER -> ns

\* Mutant: a stamp of any clock is believed.
RecordedAnyClock(words, i, received) == NanosFromParts(words[i], words[i + 1])

Recorded(words, i, received) ==
    LET ns == NanosFromParts(words[i], words[i + 1])
    IN IF ns # Unset /\ SameClock(ns, received) THEN ns ELSE Unset

-----------------------------------------------------------------------------
Recordings(k) ==
    LET parts == UNION {[1..n -> PARTS] :
                          n \in IF k \in TfKinds THEN LENGTHS ELSE {1}}
        whole == {Payload(k, p) : p \in parts}
        messages == [received : ARRIVALS,
                     words : whole \cup {Cut(w) : w \in whole}]
    IN {r \in UNION {[1..n -> messages] : n \in LENGTHS \ {0}} :
          \A i, j \in DOMAIN r : i < j => r[i].received <= r[j].received}

\* The retimer of a replay is pinned to its first message.
Init ==
    /\ kind \in KINDS
    /\ recording \in Recordings(kind)
    /\ retimer \in [mode : MODES, first : {recording[1].received},
                    wall : WALLS, rate : RATES]
    /\ outputs = <<>>
    /\ failed = FALSE

Patched(m) ==
    LET at == StampWords(kind, m.words)
        stamp(i) ==
            LET ns == Recorded(m.words, at[i], m.received)
            IN NanosToParts(Map(retimer, IF ns = Unset THEN m.received ELSE ns))
    IN [w \in DOMAIN m.words |->
          IF \E i \in DOMAIN at : w \in {at[i], at[i] + 1}
          THEN LET i == CHOOSE i \in DOMAIN at : w \in {at[i], at[i] + 1}
               IN stamp(i)[w - at[i] + 1]
          ELSE m.words[w]]

Substituted(m) ==
    LET at == StampWords(kind, m.words)
    IN \E i \in DOMAIN at : Recorded(m.words, at[i], m.received) = Unset

\* Retimer::apply on the next message, and the publish that follows it.
Apply ==
    /\ ~failed /\ Len(outputs) < Len(recording)
    /\ LET m == recording[Len(outputs) + 1]
       IN IF retimer.mode = "original"
          THEN /\ outputs' = Append(outputs, [words |-> m.words, restamped |-> FALSE])
               /\ UNCHANGED failed
          ELSE IF TooShort(kind, m.words)
          THEN failed' = TRUE /\ UNCHANGED outputs
          ELSE /\ outputs' = Append(outputs, [words |-> Patched(m),
                                              restamped |-> Substituted(m)])
               /\ UNCHANGED failed
    /\ UNCHANGED <<kind, recording, retimer>>

Next == Apply

Spec == Init /\ [][Next]_vars

-----------------------------------------------------------------------------
(* The stamps to be rewritten, by the layout and not by support_for.       *)
StampAt(i) == IF kind \in TfKinds THEN 4 * i + 1 ELSE Lead(kind) + 1
Stamps(n) ==
    IF retimer.mode = "original" \/ kind = "LaserScan" THEN {}
    ELSE IF kind \in TfKinds THEN 1..recording[n].words[3] ELSE {1}
Read(words, i) == NanosFromParts(words[StampAt(i)], words[StampAt(i) + 1])

Input(n, i) == Read(recording[n].words, i)
Output(n, i) == Read(outputs[n].words, i)
Trusted(n, i) ==
    Input(n, i) # Unset /\ SameClock(Input(n, i), recording[n].received)
Source(n, i) == IF Trusted(n, i) THEN Input(n, i) ELSE recording[n].received

\* A stamp that is not at either end of what two i32 can say.
InRange(n, i) ==
    Output(n, i) # Unset /\ outputs[n].words[StampAt(i)] < MAXSEC

TypeOK ==
    /\ kind \in KINDS /\ failed \in BOOLEAN
    /\ Len(outputs) <= Len(recording)
    /\ \A n \in DOMAIN outputs : outputs[n].restamped \in BOOLEAN
    /\ \A n \in DOMAIN outputs : \A i \in Stamps(n) :
          /\ outputs[n].words[StampAt(i)] \in 0..MAXSEC
          /\ outputs[n].words[StampAt(i) + 1] \in 0..(NANOS - 1)

\* Rewriting changes the two words of each stamp of the message and nothing
\* else, wherever the lengths of its sequences have moved them; a type without
\* a stamp, and every type under --stamps original, is published as it is.
RestUntouched ==
    \A n \in DOMAIN outputs :
       LET was == recording[n].words
           free == UNION {{StampAt(i), StampAt(i) + 1} : i \in Stamps(n)}
       IN /\ Len(outputs[n].words) = Len(was)
          /\ \A w \in DOMAIN was \ free : outputs[n].words[w] = was[w]

\* A scaled stamp is within half a nanosecond of where the rate puts it, for
\* the message's own stamp and for the arrival that stands in for it, so it
\* says when the message goes out; shifted stamps keep their spacing to the
\* nanosecond, seconds carried over (README.md:205-207, 216).
TimesExact ==
    \A n \in DOMAIN outputs : \A i \in Stamps(n) : InRange(n, i) =>
       /\ retimer.mode = "scaled" =>
            LET exact == (Source(n, i) - retimer.first) * retimer.rate[2]
                error == (Output(n, i) - retimer.wall) * retimer.rate[1] - exact
            IN 2 * error \in (-retimer.rate[1])..retimer.rate[1]
       /\ retimer.mode = "shifted" =>
            \A m \in DOMAIN outputs : \A j \in Stamps(m) : InRange(m, j) =>
               Output(m, j) - Output(n, i) = Source(m, j) - Source(n, i)

\* No two stamps change places, at any rate, and none falls behind one that
\* it followed unless the seconds saturate.
OrderKept ==
    \A n, m \in DOMAIN outputs :
       \A i \in Stamps(n), j \in Stamps(m) :
          InRange(n, i) /\ Source(n, i) <= Source(m, j) => Output(n, i) <= Output(m, j)

\* What a replay puts out can be recorded and replayed in its turn: at rate 1,
\* and scaled to any faster one, every stamp written is on the clock of a
\* recorder that takes the message as it goes out and keeps the arrival time,
\* so same_clock does not take it for another clock's.
EmittedAt(n) ==
    retimer.wall + Rounded((recording[n].received - retimer.first)
                             * retimer.rate[2], retimer.rate[1])
TrustedAgain ==
    \A n \in DOMAIN outputs : \A i \in Stamps(n) :
       /\ InRange(n, i) /\ recording[n].received > 0
       /\ \/ retimer.mode = "scaled" /\ retimer.rate[1] >= retimer.rate[2]
          \/ retimer.mode = "shifted" /\ retimer.rate[1] = retimer.rate[2]
       => SameClock(Output(n, i), EmittedAt(n))

=============================================================================
