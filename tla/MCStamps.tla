------------------------------ MODULE MCStamps ------------------------------
(***************************************************************************)
(* A second of three units, seconds up to 9, another clock beyond four     *)
(* units.  Every type of support_for, and one that has a stamp it does not *)
(* know.                                                                   *)
(***************************************************************************)
EXTENDS Stamps
MCKinds ==
    {"TFMessage", "PointStamped", "PoseStamped", "PoseWithCovarianceStamped",
     "TransformStamped", "TwistStamped", "TwistWithCovarianceStamped",
     "WrenchStamped", "Odometry", "Imu", "CompressedVideo", "LineSegments3D",
     "OccupancyGrid", "Path", "CameraInfo", "CompressedImage", "Image",
     "Detection2D", "Detection2DArray", "Detection3D", "Detection3DArray", "Joy",
     "PointCloud2", "JointState", "LaserScan"}
MCParts == {<<0, 2>>, <<1, 0>>, <<2, 2>>, <<4, 1>>}
MCRates == {<<1, 2>>, <<1, 1>>, <<3, 1>>}
=============================================================================
