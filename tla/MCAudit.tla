------------------------------ MODULE MCAudit ------------------------------
(***************************************************************************)
(* Audit over every short recording of one sort.                           *)
(***************************************************************************)
EXTENDS Audit

InOrderOf(records, n) ==
    {r \in [1..n -> records] : \A i, j \in 1..n : i < j => r[i].ts <= r[j].ts}

At(s, t, c, ahead) == [stream |-> s, ts |-> t, ours |-> c, stamp |-> t + ahead]

\* Stamps up to two ticks late or early, or from another clock.
Jittery == InOrderOf({At("imu", t, TRUE, a) : t \in 3..4, a \in -2..2}
                     \cup {At("imu", t, FALSE, 5) : t \in 3..4}
                     \cup {At("lidar", t, TRUE, a) : t \in 3..4, a \in {-1, 2}}, 3)

Abc == {"a", "b", "c"}
OneEdge == {<<>>} \cup {<<e>> : e \in {f \in Abc \X Abc : f[1] # f[2]}}
TwoEdges == {<<<<"a", "b">>, f>> : f \in {<<"b", "c">>, <<"c", "b">>, <<"a", "c">>}}

Messages(edges) == {[edges |-> e] : e \in edges}

\* Up to three messages over three frames, or a fourth frame that may split
\* the tree again after it was made whole.
Trees ==
    UNION {[1..n -> Messages(OneEdge \cup TwoEdges)] : n \in 1..3}
    \cup {<<x, y, z>> : x \in Messages(TwoEdges), y \in Messages(OneEdge),
                        z \in Messages({<<<<"d", "b">>>>})}

\* Stamps need no rules; tf goes with and without --drop-tf.
MCInputs ==
    {[messages |-> r, rules |-> {}] : r \in Jittery \cup Trees}
    \cup {[messages |-> r, rules |-> {<<"a", "*">>}] : r \in Trees}

=============================================================================
