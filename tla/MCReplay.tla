------------------------------ MODULE MCReplay ------------------------------
(***************************************************************************)
(* Replay over short recordings in timestamp order, each with the options  *)
(* that make a difference to it.                                           *)
(***************************************************************************)
EXTENDS Replay

Rec(t, k, c, lag) == [ts |-> t, kind |-> k, clock |-> c, stamp |-> t - lag]

InOrderOf(records, lengths) ==
    {r \in UNION {[1..n -> records] : n \in lengths} :
        \A i, j \in DOMAIN r : i < j => r[i].ts <= r[j].ts}

Options(stamps, paces, windows, repeats, sinks) ==
    {[stamps |-> s, pace |-> p, start |-> w[1], duration |-> w[2], repeat |-> r, sink |-> k] :
        s \in stamps, p \in paces, w \in windows, r \in repeats, k \in sinks}

Under(recordings, options) == {[messages |-> m, args |-> a] : m \in recordings, a \in options}

Whole == <<0, 9>>

\* Gate messages among others, one stamped a tick before it arrived.
Gated == {r \in InOrderOf({Rec(t, "gate", "ours", 0) : t \in {1, 2}}
                          \cup {Rec(t, "plain", "ours", 0) : t \in {2, 3}}
                          \cup {Rec(2, "plain", "ours", 1)}, {3}) :
            \E i \in 1..3 : r[i].kind = "gate"}

\* Everything the counts and the window tell apart, before, in and after it.
Mixed == InOrderOf({Rec(t, "plain", "ours", 0) : t \in {1, 4}}
                   \cup {Rec(3, "plain", c, 0) : c \in Clocks}
                   \cup {Rec(1, "skip", "ours", 0), Rec(3, "tf", "ours", 0)}, 0..3)

\* Short enough for several passes.
Plain == InOrderOf({Rec(t, "plain", "other", 0) : t \in 1..2}, {1, 2})

MCInputs ==
    Under(Gated, Options({"scaled", "shifted"}, {2}, {Whole}, {FALSE}, {"lcm"}))
    \cup Under(Mixed, Options({"scaled"}, {0, 1}, {<<1, 1>>}, {FALSE}, {"zenoh"}))
    \cup Under(Plain, Options({"scaled"}, {0, 1}, {Whole}, {TRUE}, {"lcm", "zenoh"}))

=============================================================================
