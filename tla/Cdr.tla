-------------------------------- MODULE Cdr --------------------------------
(***************************************************************************)
(* cdr.rs and schema.rs: a message decoded from LCM is written as a ROS 2  *)
(* CDR payload (the recorder), read back from it (the .mcap source), and   *)
(* read by a viewer that knows only the schema text stored beside it.      *)
(*                                                                         *)
(* The three have no code in common but must agree on every field, its     *)
(* width and its alignment.  Each is a table from types to fields, walked  *)
(* by a stack of fields still to do: a field of a struct type stands for   *)
(* the call that handles it, any other is a run of primitives, preceded by *)
(* a count if its length is not fixed.  The payload maps the offset of     *)
(* each primitive to its width and value; a value is known by the path of  *)
(* its field and its index there, and has no bytes: the order they come in *)
(* is left out, and so are payloads of another order.                      *)
(***************************************************************************)
EXTENDS Integers, SequencesExt, TLC

CONSTANTS
    ASKED,    \* message types asked for
    STRS,     \* lengths of a header's frame_id
    OTHERS,   \* lengths of every other string
    LENS,     \* lengths of data, ranges, positions
    LISTS,    \* how many transforms, poses, fields, names
    IMAGES,   \* [encoding, magic, height, step, len] of sensor_msgs.Image
    CUTS      \* how many bytes a stored payload lost at its end

\* LCM's names for fields the ROS schemas call otherwise.
LcmName == [nanosec |-> "nsec", d |-> "D", k |-> "K", r |-> "R", p |-> "P"]

\* Lengths are numbers, images as image_container sees them; the place of an
\* element in a list is written as a number, which names no field.
ASSUME CdrAssumption ==
    /\ STRS \cup OTHERS \cup LENS \cup LISTS \cup CUTS \subseteq Nat
    /\ \A i \in IMAGES : /\ i.magic \in {"jpeg", "png", "unrecognised"}
                         /\ {i.height, i.step} \subseteq Int /\ i.len \in Nat
    /\ \A n \in LISTS : \A i \in 1..n : ToString(i) \notin DOMAIN LcmName

VARIABLES
    asked,    \* the type asked for
    shape,    \* the lengths in this message, the image it carries, if any
    as,       \* Encoded.msg_name
    defect,   \* whether Encoded.defect is set
    phase,    \* ask, write, read, view; done, failed, refused
    todo,     \* fields still to write or to read
    body,     \* offset -> [w, v], a primitive's width and value
    size,     \* length of the body
    pos,      \* Reader.position
    cut,      \* bytes the payload lost
    out,      \* what to_lcm read: path -> values
    seen      \* what a viewer read: path -> values

cdrVars == <<asked, shape, as, defect, phase, todo, body, size, pos, cut, out, seen>>

-----------------------------------------------------------------------------
(* Fields: p is the path below the struct, n a fixed length.               *)
One(p, t) == [p |-> p, t |-> t, rep |-> "fixed", n |-> 1]
Arr(p, t, k) == [p |-> p, t |-> t, rep |-> "fixed", n |-> k]
Fld(name, t) == One(<<name>>, t)
Many(name, t) == [p |-> <<name>>, t |-> t, rep |-> "counted", n |-> 0]

Width == [u8 |-> 1, bool |-> 1, string |-> 1, i32 |-> 4, f32 |-> 4, f64 |-> 8,
          uint8 |-> 1, int32 |-> 4, uint32 |-> 4, float32 |-> 4, float64 |-> 8]

-----------------------------------------------------------------------------
(* The put_* functions.                                                    *)
PutXYZ == <<Fld("x", "f64"), Fld("y", "f64"), Fld("z", "f64")>>
PutHeader == Fld("header", "Header")

PutGeometry ==
  [Header |-> <<One(<<"stamp", "sec">>, "i32"), One(<<"stamp", "nsec">>, "i32"),
                Fld("frame_id", "string")>>,
   Vector3 |-> PutXYZ, Point |-> PutXYZ,
   Quaternion |-> <<Fld("x", "f64"), Fld("y", "f64"), Fld("z", "f64"), Fld("w", "f64")>>,
   Pose |-> <<Fld("position", "Point"), Fld("orientation", "Quaternion")>>,
   Twist |-> <<Fld("linear", "Vector3"), Fld("angular", "Vector3")>>,
   PoseStamped |-> <<PutHeader, Fld("pose", "Pose")>>,
   TransformStamped |->
     <<PutHeader, Fld("child_frame_id", "string"),
       One(<<"transform", "translation">>, "Vector3"),
       One(<<"transform", "rotation">>, "Quaternion")>>,
   TFMessage |-> <<Many("transforms", "TransformStamped")>>,
   Odometry |->
     <<PutHeader, Fld("child_frame_id", "string"),
       One(<<"pose", "pose">>, "Pose"), Arr(<<"pose", "covariance">>, "f64", 36),
       One(<<"twist", "twist">>, "Twist"),
       Arr(<<"twist", "covariance">>, "f64", 36)>>,
   Path |-> <<PutHeader, Many("poses", "PoseStamped")>>]

PutSensors ==
  [Imu |->
     <<PutHeader, Fld("orientation", "Quaternion"),
       Arr(<<"orientation_covariance">>, "f64", 9),
       Fld("angular_velocity", "Vector3"),
       Arr(<<"angular_velocity_covariance">>, "f64", 9),
       Fld("linear_acceleration", "Vector3"),
       Arr(<<"linear_acceleration_covariance">>, "f64", 9)>>,
   Image |->
     <<PutHeader, Fld("height", "i32"), Fld("width", "i32"),
       Fld("encoding", "string"), Fld("is_bigendian", "u8"), Fld("step", "i32"),
       Many("data", "u8")>>,
   CompressedImage |-> <<PutHeader, Fld("format", "string"), Many("data", "u8")>>,
   CameraInfo |->
     <<PutHeader, Fld("height", "i32"), Fld("width", "i32"),
       Fld("distortion_model", "string"), Many("D", "f64"),
       Arr(<<"K">>, "f64", 9), Arr(<<"R">>, "f64", 9), Arr(<<"P">>, "f64", 12),
       Fld("binning_x", "i32"), Fld("binning_y", "i32"),
       One(<<"roi", "x_offset">>, "i32"), One(<<"roi", "y_offset">>, "i32"),
       One(<<"roi", "height">>, "i32"), One(<<"roi", "width">>, "i32"),
       One(<<"roi", "do_rectify">>, "bool")>>,
   PointCloud2 |->
     <<PutHeader, Fld("height", "i32"), Fld("width", "i32"),
       Many("fields", "PointField"), Fld("is_bigendian", "bool"),
       Fld("point_step", "i32"), Fld("row_step", "i32"),
       Many("data", "u8"), Fld("is_dense", "bool")>>,
   PointField |->
     <<Fld("name", "string"), Fld("offset", "i32"), Fld("datatype", "u8"),
       Fld("count", "i32")>>,
   JointState |->
     <<PutHeader, Many("name", "string"), Many("position", "f64"),
       Many("velocity", "f64"), Many("effort", "f64")>>,
   LaserScan |->
     <<PutHeader, Fld("angle_min", "f32"), Fld("angle_max", "f32"),
       Fld("angle_increment", "f32"), Fld("time_increment", "f32"),
       Fld("scan_time", "f32"), Fld("range_min", "f32"), Fld("range_max", "f32"),
       Many("ranges", "f32"), Many("intensities", "f32")>>]

(* The functions that read a message; struct literals evaluate their       *)
(* fields in the order they are written.                                   *)
ReadXYZ == <<Fld("x", "f64"), Fld("y", "f64"), Fld("z", "f64")>>
ReadHeader == Fld("header", "Header")

ReadGeometry ==
  [Header |-> <<One(<<"stamp", "sec">>, "i32"), One(<<"stamp", "nsec">>, "i32"),
                Fld("frame_id", "string")>>,
   Vector3 |-> ReadXYZ, Point |-> ReadXYZ,
   Quaternion |-> <<Fld("x", "f64"), Fld("y", "f64"), Fld("z", "f64"), Fld("w", "f64")>>,
   Pose |-> <<Fld("position", "Point"), Fld("orientation", "Quaternion")>>,
   Twist |-> <<Fld("linear", "Vector3"), Fld("angular", "Vector3")>>,
   PoseStamped |-> <<ReadHeader, Fld("pose", "Pose")>>,
   TransformStamped |->
     <<ReadHeader, Fld("child_frame_id", "string"),
       One(<<"transform", "translation">>, "Vector3"),
       One(<<"transform", "rotation">>, "Quaternion")>>,
   TFMessage |-> <<Many("transforms", "TransformStamped")>>,
   Odometry |->
     <<ReadHeader, Fld("child_frame_id", "string"),
       One(<<"pose", "pose">>, "Pose"), Arr(<<"pose", "covariance">>, "f64", 36),
       One(<<"twist", "twist">>, "Twist"),
       Arr(<<"twist", "covariance">>, "f64", 36)>>,
   Path |-> <<ReadHeader, Many("poses", "PoseStamped")>>]

ReadSensors ==
  [Imu |->
     <<ReadHeader, Fld("orientation", "Quaternion"),
       Arr(<<"orientation_covariance">>, "f64", 9),
       Fld("angular_velocity", "Vector3"),
       Arr(<<"angular_velocity_covariance">>, "f64", 9),
       Fld("linear_acceleration", "Vector3"),
       Arr(<<"linear_acceleration_covariance">>, "f64", 9)>>,
   Image |->
     <<ReadHeader, Fld("height", "i32"), Fld("width", "i32"),
       Fld("encoding", "string"), Fld("is_bigendian", "u8"), Fld("step", "i32"),
       Many("data", "u8")>>,
   CompressedImage |-> <<ReadHeader, Fld("format", "string"), Many("data", "u8")>>,
   CameraInfo |->
     <<ReadHeader, Fld("height", "i32"), Fld("width", "i32"),
       Fld("distortion_model", "string"), Many("D", "f64"),
       Arr(<<"K">>, "f64", 9), Arr(<<"R">>, "f64", 9), Arr(<<"P">>, "f64", 12),
       Fld("binning_x", "i32"), Fld("binning_y", "i32"),
       One(<<"roi", "x_offset">>, "i32"), One(<<"roi", "y_offset">>, "i32"),
       One(<<"roi", "height">>, "i32"), One(<<"roi", "width">>, "i32"),
       One(<<"roi", "do_rectify">>, "bool")>>,
   PointCloud2 |->
     <<ReadHeader, Fld("height", "i32"), Fld("width", "i32"),
       Many("fields", "PointField"), Fld("is_bigendian", "bool"),
       Fld("point_step", "i32"), Fld("row_step", "i32"),
       Many("data", "u8"), Fld("is_dense", "bool")>>,
   PointField |->
     <<Fld("name", "string"), Fld("offset", "i32"), Fld("datatype", "u8"),
       Fld("count", "i32")>>,
   JointState |->
     <<ReadHeader, Many("name", "string"), Many("position", "f64"),
       Many("velocity", "f64"), Many("effort", "f64")>>,
   LaserScan |->
     <<ReadHeader, Fld("angle_min", "f32"), Fld("angle_max", "f32"),
       Fld("angle_increment", "f32"), Fld("time_increment", "f32"),
       Fld("scan_time", "f32"), Fld("range_min", "f32"), Fld("range_max", "f32"),
       Many("ranges", "f32"), Many("intensities", "f32")>>]

(* The schema texts: the fields of each type, and the nested types each    *)
(* text spells out after its own.                                          *)
SchemaXYZ == <<Fld("x", "float64"), Fld("y", "float64"), Fld("z", "float64")>>
SchemaHeader == Fld("header", "Header")

SchemaGeometry ==
  [Header |-> <<Fld("stamp", "Time"), Fld("frame_id", "string")>>,
   Time |-> <<Fld("sec", "int32"), Fld("nanosec", "uint32")>>,
   Vector3 |-> SchemaXYZ, Point |-> SchemaXYZ,
   Quaternion |-> <<Fld("x", "float64"), Fld("y", "float64"), Fld("z", "float64"),
                    Fld("w", "float64")>>,
   Pose |-> <<Fld("position", "Point"), Fld("orientation", "Quaternion")>>,
   Twist |-> <<Fld("linear", "Vector3"), Fld("angular", "Vector3")>>,
   Transform |-> <<Fld("translation", "Vector3"), Fld("rotation", "Quaternion")>>,
   PoseWithCovariance |-> <<Fld("pose", "Pose"), Arr(<<"covariance">>, "float64", 36)>>,
   TwistWithCovariance |-> <<Fld("twist", "Twist"), Arr(<<"covariance">>, "float64", 36)>>,
   PoseStamped |-> <<SchemaHeader, Fld("pose", "Pose")>>,
   TransformStamped |->
     <<SchemaHeader, Fld("child_frame_id", "string"), Fld("transform", "Transform")>>,
   TFMessage |-> <<Many("transforms", "TransformStamped")>>,
   Odometry |->
     <<SchemaHeader, Fld("child_frame_id", "string"),
       Fld("pose", "PoseWithCovariance"), Fld("twist", "TwistWithCovariance")>>,
   Path |-> <<SchemaHeader, Many("poses", "PoseStamped")>>]

SchemaSensors ==
  [Imu |->
     <<SchemaHeader, Fld("orientation", "Quaternion"),
       Arr(<<"orientation_covariance">>, "float64", 9),
       Fld("angular_velocity", "Vector3"),
       Arr(<<"angular_velocity_covariance">>, "float64", 9),
       Fld("linear_acceleration", "Vector3"),
       Arr(<<"linear_acceleration_covariance">>, "float64", 9)>>,
   Image |->
     <<SchemaHeader, Fld("height", "uint32"), Fld("width", "uint32"),
       Fld("encoding", "string"), Fld("is_bigendian", "uint8"), Fld("step", "uint32"),
       Many("data", "uint8")>>,
   CompressedImage |->
     <<SchemaHeader, Fld("format", "string"), Many("data", "uint8")>>,
   CameraInfo |->
     <<SchemaHeader, Fld("height", "uint32"), Fld("width", "uint32"),
       Fld("distortion_model", "string"), Many("d", "float64"),
       Arr(<<"k">>, "float64", 9), Arr(<<"r">>, "float64", 9),
       Arr(<<"p">>, "float64", 12),
       Fld("binning_x", "uint32"), Fld("binning_y", "uint32"),
       Fld("roi", "RegionOfInterest")>>,
   RegionOfInterest |->
     <<Fld("x_offset", "uint32"), Fld("y_offset", "uint32"), Fld("height", "uint32"),
       Fld("width", "uint32"), Fld("do_rectify", "bool")>>,
   PointCloud2 |->
     <<SchemaHeader, Fld("height", "uint32"), Fld("width", "uint32"),
       Many("fields", "PointField"), Fld("is_bigendian", "bool"),
       Fld("point_step", "uint32"), Fld("row_step", "uint32"),
       Many("data", "uint8"), Fld("is_dense", "bool")>>,
   PointField |->
     <<Fld("name", "string"), Fld("offset", "uint32"), Fld("datatype", "uint8"),
       Fld("count", "uint32")>>,
   JointState |->
     <<SchemaHeader, Many("name", "string"), Many("position", "float64"),
       Many("velocity", "float64"), Many("effort", "float64")>>,
   LaserScan |->
     <<SchemaHeader, Fld("angle_min", "float32"), Fld("angle_max", "float32"),
       Fld("angle_increment", "float32"), Fld("time_increment", "float32"),
       Fld("scan_time", "float32"), Fld("range_min", "float32"),
       Fld("range_max", "float32"), Many("ranges", "float32"),
       Many("intensities", "float32")>>]

Nested ==
  LET stamp == {"Header", "Time"}
      pose == {"Pose", "Point", "Quaternion"}
      transform == {"Transform", "Vector3", "Quaternion"}
  IN [PoseStamped |-> stamp \cup pose,
      TransformStamped |-> stamp \cup transform,
      TFMessage |-> stamp \cup transform \cup {"TransformStamped"},
      Odometry |-> stamp \cup pose \cup {"PoseWithCovariance", "Twist", "Vector3",
                                         "TwistWithCovariance"},
      Path |-> stamp \cup pose \cup {"PoseStamped"},
      Imu |-> stamp \cup {"Vector3", "Quaternion"},
      Image |-> stamp, CompressedImage |-> stamp, JointState |-> stamp,
      LaserScan |-> stamp,
      CameraInfo |-> stamp \cup {"RegionOfInterest"},
      PointCloud2 |-> stamp \cup {"PointField"}]

\* What f has, and what g has beside it.
With(f, g) == [x \in DOMAIN f \cup DOMAIN g |-> IF x \in DOMAIN f THEN f[x] ELSE g[x]]

\* Mutant: to_cdr has no arm for Imu.
PutsWithoutImu ==
    LET puts == With(PutGeometry, PutSensors)
    IN [t \in DOMAIN puts \ {"Imu"} |-> puts[t]]

\* The functions that to_cdr and to_lcm call, and the lookup of a text.
Puts == With(PutGeometry, PutSensors)

\* Mutant: joint_state reads the velocity before the position.
ReadsSwapped ==
    [With(ReadGeometry, ReadSensors) EXCEPT !.JointState =
        <<@[1], @[2], @[4], @[3], @[5]>>]

Reads == With(ReadGeometry, ReadSensors)

\* Mutant: the text for LaserScan is from before there were intensities.
SchemaOutdated ==
    [With(SchemaGeometry, SchemaSensors) EXCEPT !.LaserScan = Front(@)]

Schema == With(SchemaGeometry, SchemaSensors)

\* Structs that are no messages: to_cdr has no arm for them.
Parts == {"Header", "Vector3", "Point", "Quaternion", "Pose", "Twist", "PointField"}

Supported ==
  {"PoseStamped", "TransformStamped", "Odometry", "Path", "CameraInfo",
   "CompressedImage", "Image", "Imu", "JointState", "LaserScan", "PointCloud2",
   "TFMessage"}

LcmPath(p) ==
    [i \in DOMAIN p |-> IF p[i] \in DOMAIN LcmName THEN LcmName[p[i]] ELSE p[i]]

-----------------------------------------------------------------------------
(* Runs of primitives and structs.                                         *)
IsString(f) == f.t = "string" /\ f.rep = "fixed"
IsRun(f) == f.t \in DOMAIN Width /\ (f.t = "string" => f.rep = "fixed")
IsList(f) == f.rep = "counted" /\ ~IsRun(f)
IsCall(f) == f.rep = "fixed" /\ ~IsRun(f)
HasCount(f) == f.rep = "counted" \/ IsString(f)

Value(p, i) == [p |-> p, i |-> i]
Number(n) == Value(<<>>, n)
Nul == Number(0)
Unreadable == Value(<<"?">>, 0)

Under(f, x) == [p |-> f.p \o x.p, t |-> x.t, rep |-> x.rep, n |-> x.n]
Below(f, fields) == [i \in DOMAIN fields |-> Under(f, fields[i])]
Elements(f, n) == [i \in 1..n |-> One(Append(f.p, ToString(i)), f.t)]

\* Mutant: a primitive is put where the last one ended.
Unpadded(at, w) == at

Padded(at, w) == ((at + w - 1) \div w) * w

\* The container of an Image; magic is what its first bytes say.
Carries(image) ==
    IF \/ image.encoding \notin {"jpeg", "jpg", "png"}
       \/ image.height < 0 \/ image.step < 0
       \/ image.step # 0 /\ image.height * image.step = image.len
    THEN "raw"
    ELSE image.magic

NoImage == [encoding |-> "", magic |-> "unrecognised", height |-> 0,
            step |-> 0, len |-> 0]

\* The message: how long each string and sequence of it is.
IsImage == asked = "Image"
Chars(p) ==
    IF Last(p) = "frame_id" THEN shape.str
    ELSE IF Last(p) = "format" /\ IsImage
         THEN IF shape.image.magic = "jpeg" THEN 4 ELSE 3
         ELSE shape.other
Count(f) ==
    IF f.t \notin DOMAIN Width \/ f.t = "string" THEN shape.list
    ELSE IF f.t = "u8" /\ IsImage THEN shape.image.len ELSE shape.len

CdrInit ==
    /\ asked \in ASKED
    /\ shape \in [str : STRS, other : OTHERS, len : LENS, list : LISTS,
                  image : IF IsImage THEN IMAGES ELSE {NoImage}]
    /\ as = asked /\ defect = FALSE
    /\ phase = "ask"
    /\ todo = <<>> /\ body = <<>> /\ size = 0 /\ pos = 0
    /\ cut = 0
    /\ out = <<>> /\ seen = <<>>

\* to_cdr: the type to write is settled before anything is written.
ToCdr ==
    /\ phase = "ask"
    /\ LET carries == IF IsImage THEN Carries(shape.image) ELSE "raw"
       IN /\ as' = IF carries \in {"jpeg", "png"} THEN "CompressedImage" ELSE asked
          /\ defect' = (carries = "unrecognised")
    /\ phase' = IF asked \in DOMAIN Puts \ Parts THEN "write" ELSE "refused"
    /\ todo' = <<One(<<>>, as')>>
    /\ UNCHANGED <<asked, shape, body, size, pos, cut, out, seen>>

\* Writer: what the next field puts, after padding if it puts anything.
Cells(at, w, vals) ==
    [o \in {at + (i - 1) * w : i \in DOMAIN vals} |->
        [w |-> w, v |-> vals[(o - at) \div w + 1]]]
Put(b, s, w, vals) ==
    IF vals = <<>> THEN [b |-> b, s |-> s]
    ELSE [b |-> With(b, Cells(Padded(s, w), w, vals)),
          s |-> Padded(s, w) + Len(vals) * w]

\* A string ends in a nul, which counts.
Length(f) ==
    IF IsString(f) THEN Chars(f.p) + 1
    ELSE IF f.rep = "counted" THEN Count(f) ELSE f.n
Values(f) ==
    [i \in 1..Length(f) |-> IF IsString(f) /\ i = Length(f) THEN Nul ELSE Value(f.p, i)]

PutCount(n) == Put(body, size, 4, <<Number(n)>>)

PutRun ==
    /\ phase = "write" /\ todo # <<>> /\ IsRun(Head(todo))
    /\ LET f == Head(todo)
           start == IF HasCount(f) THEN PutCount(Length(f)) ELSE [b |-> body, s |-> size]
           end == Put(start.b, start.s, Width[f.t], Values(f))
       IN body' = end.b /\ size' = end.s
    /\ todo' = Tail(todo)
    /\ UNCHANGED <<asked, shape, as, defect, phase, pos, cut, out, seen>>

PutList ==
    /\ phase = "write" /\ todo # <<>> /\ IsList(Head(todo))
    /\ LET n == Count(Head(todo))
       IN /\ body' = PutCount(n).b /\ size' = PutCount(n).s
          /\ todo' = Elements(Head(todo), n) \o Tail(todo)
    /\ UNCHANGED <<asked, shape, as, defect, phase, pos, cut, out, seen>>

PutCall ==
    /\ phase = "write" /\ todo # <<>> /\ IsCall(Head(todo))
    /\ todo' = Below(Head(todo), Puts[Head(todo).t]) \o Tail(todo)
    /\ UNCHANGED <<asked, shape, as, defect, phase, body, size, pos, cut, out, seen>>

\* finish: the header goes in front.  The payload is stored, perhaps not
\* whole, and Reader::new wants the header to be there.
Finish ==
    /\ phase = "write" /\ todo = <<>>
    /\ \E c \in CUTS :
          /\ c <= 4 + size
          /\ cut' = c
          /\ phase' = IF c > size THEN "failed" ELSE "read"
    /\ todo' = <<One(<<>>, as)>>
    /\ UNCHANGED <<asked, shape, as, defect, body, size, pos, out, seen>>

\* Reader: a primitive comes out only where one of its width went in, and a
\* count only where a count did.
CellAt(at, w) ==
    IF at \in DOMAIN body /\ body[at].w = w THEN body[at].v ELSE Unreadable
Counted(at) == CellAt(at, 4).p = <<>>

\* Reader::take gives nothing beyond the payload.
Fits(end) == end <= size - cut

\* A viewer has nothing but the text of the schema.
Reading == phase \in {"read", "view"}
FieldsOf(t) == IF phase = "read" THEN Reads[t] ELSE Schema[t]
Known(t) ==
    IF phase = "read" THEN t \in DOMAIN Reads
    ELSE as \in DOMAIN Nested /\ (t = as \/ t \in Nested[as])

\* A run: where it begins, behind its count; how many primitives it has; where
\* they begin and end; and what is read, the nul of a string taken off.
Start(f) == IF HasCount(f) THEN Padded(pos, 4) + 4 ELSE pos
Announced(f) == IF HasCount(f) THEN CellAt(Start(f) - 4, 4).i ELSE f.n
First(f) == IF Announced(f) = 0 THEN Start(f) ELSE Padded(Start(f), Width[f.t])
End(f) == First(f) + Announced(f) * Width[f.t]
Ends(f) == IsString(f) /\ Announced(f) > 0 /\ CellAt(End(f) - 1, 1) = Nul
Got(f) ==
    [i \in 1..(IF Ends(f) THEN Announced(f) - 1 ELSE Announced(f)) |->
        CellAt(First(f) + (i - 1) * Width[f.t], Width[f.t])]

Keep(read, path, value) == With(read, [p \in {path} |-> value])

GetRun ==
    /\ Reading /\ todo # <<>> /\ IsRun(Head(todo))
    /\ LET f == Head(todo)
       IN IF Fits(Start(f)) /\ (HasCount(f) => Counted(Start(f) - 4)) /\ Fits(End(f))
          THEN /\ pos' = End(f)
               /\ todo' = Tail(todo)
               /\ IF phase = "read"
                  THEN out' = Keep(out, f.p, Got(f)) /\ UNCHANGED seen
                  ELSE seen' = Keep(seen, LcmPath(f.p), Got(f)) /\ UNCHANGED out
               /\ UNCHANGED phase
          ELSE phase' = "failed" /\ UNCHANGED <<pos, todo, out, seen>>
    /\ UNCHANGED <<asked, shape, as, defect, body, size, cut>>

GetList ==
    /\ Reading /\ todo # <<>> /\ IsList(Head(todo))
    /\ LET f == Head(todo)
       IN IF Fits(Start(f)) /\ Counted(Start(f) - 4)
          THEN /\ pos' = Start(f)
               /\ todo' = Elements(f, Announced(f)) \o Tail(todo)
               /\ UNCHANGED phase
          ELSE phase' = "failed" /\ UNCHANGED <<pos, todo>>
    /\ UNCHANGED <<asked, shape, as, defect, body, size, cut, out, seen>>

GetCall ==
    /\ Reading /\ todo # <<>> /\ IsCall(Head(todo))
    /\ LET f == Head(todo)
       IN IF Known(f.t)
          THEN todo' = Below(f, FieldsOf(f.t)) \o Tail(todo) /\ UNCHANGED phase
          ELSE phase' = "failed" /\ UNCHANGED todo
    /\ UNCHANGED <<asked, shape, as, defect, body, size, pos, cut, out, seen>>

\* to_lcm is through; the viewer starts over at the same payload.
Through ==
    /\ Reading /\ todo = <<>>
    /\ phase' = IF phase = "read" THEN "view" ELSE "done"
    /\ pos' = IF phase = "read" THEN 0 ELSE pos
    /\ todo' = IF phase = "read" THEN <<One(<<>>, as)>> ELSE <<>>
    /\ UNCHANGED <<asked, shape, as, defect, body, size, cut, out, seen>>

CdrNext ==
    \/ ToCdr \/ PutRun \/ PutList \/ PutCall \/ Finish
    \/ GetRun \/ GetList \/ GetCall \/ Through

CdrSpec == CdrInit /\ [][CdrNext]_cdrVars

-----------------------------------------------------------------------------
Phases == {"ask", "write", "read", "view", "done", "failed", "refused"}

\* Every primitive of the payload lies inside it, at a multiple of its width
\* from the start of the body and clear of the one before (cdr.rs, Writer).
CdrTypeOK ==
    /\ phase \in Phases /\ defect \in BOOLEAN /\ as \in ASKED \cup Supported
    /\ size \in Nat /\ pos \in 0..size /\ cut \in CUTS \cup {0}
    /\ \A at \in DOMAIN body :
          /\ at % body[at].w = 0 /\ at + body[at].w <= size
          /\ \A o \in (at + 1)..(at + body[at].w - 1) : o \notin DOMAIN body

\* to_lcm gets back every value that was written, to the last byte and no
\* other, whatever the lengths of strings and sequences do to the alignment
\* and whichever end comes first ("The inverse of `to_lcm`", cdr.rs:253); and
\* a payload that lost bytes is an error, never a shorter message.
RoundTrip ==
    /\ \A p \in DOMAIN out : out[p] = [i \in DOMAIN out[p] |-> Value(p, i)]
    /\ phase = "read" /\ todo = <<>> => pos = size
    /\ cut > 0 => phase \notin {"view", "done"}

\* A viewer that knows only the schema text gets the same fields and values
\* out of the payload as to_lcm does (schema.rs:3-6).
ViewerAgrees ==
    phase = "done" => seen = out /\ pos = size

\* What supports() claims can be written, read back and displayed.
SupportedMeansTranscoded ==
    asked \in Supported /\ cut = 0 => phase \notin {"refused", "failed"}

=============================================================================
