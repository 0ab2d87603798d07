------------------------------- MODULE MCMcap -------------------------------
(***************************************************************************)
(* Mcap with a handful of producers: a camera under a name with a slash,   *)
(* of pixels or jpegs; a stream of no type, the slash in its name a        *)
(* separator to Zenoh; odometry from outside the prefix; a map nobody      *)
(* asked for.                                                              *)
(* Foreign files spell their types both ways, hold a type nobody can read, *)
(* or two channels on one topic.                                           *)
(***************************************************************************)
EXTENDS Mcap

MCFragments ==
    {"/", "#", ".", "dimos", "msgs", "cam", "left", "m", "ap", "raw", "odom", "nav_msgs",
     "Odometry", "dim_msgs", "Map", "sensor_msgs", "Image"}

Odometry == <<"nav_msgs", ".", "Odometry">>
Map == <<"dim_msgs", ".", "Map">>
Camera == <<"cam", "/", "left">>

By(name, type, jpeg, spelled) ==
    [name |-> name, type |-> type, jpeg |-> jpeg, spelled |-> spelled]

MCProducers ==
    {By(Camera, Image, FALSE, "prefixed"), By(Camera, Image, TRUE, "prefixed"),
     By(<<"m", "ap">>, Map, FALSE, "prefixed"),
     By(<<"cam", "/", "raw">>, <<>>, FALSE, "prefixed"),
     By(<<"odom">>, Odometry, FALSE, "bare")}

MCBags ==
    {<<By(<<"odom">>, Odometry, FALSE, "dds"), By(Camera, Image, FALSE, "msg")>>,
     <<By(<<"m", "ap">>, Map, FALSE, "msg"), By(<<"odom">>, Odometry, FALSE, "msg")>>,
     <<By(<<"odom">>, Odometry, FALSE, "msg"), By(<<"odom">>, Image, FALSE, "dds"),
       By(Camera, Image, FALSE, "dds")>>}

\* The defaults, and on Zenoh none at all.
MCNamespaces ==
    [t \in Transports |-> {DefaultPrefix(t)} \cup (IF t = "lcm" THEN {} ELSE {<<>>})]

MCCdrTypes == {Image, CompressedImage, Odometry}
MCStampedTypes == {Image, CompressedImage, Odometry}
MCInclude == {}
MCExclude == {<<"m", "*">>}
MCOverrides == [s \in {<<"odom">>} |-> "lcm"]
MCPatterns == {{}, {<<"cam", "/", "*">>, <<"odom">>}}
MCRenames == {<<>>, <<[old |-> Camera, new |-> <<"odom">>], [old |-> <<"odom">>, new |-> Camera]>>}
=============================================================================
