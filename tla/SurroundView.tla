----------------------------- MODULE SurroundView -----------------------------
(***************************************************************************)
(* The surround view of the node: camera calibrations and images           *)
(* (camera_ingest.cpp), the bowl baked from them (camera_textures.cpp,     *)
(* bowl.cpp), and a lidar cloud that is shown as a point-cloud row or, by  *)
(* the hybrid profile, as splats over the bowl.  Subscriptions, parameter  *)
(* changes and the timer are callbacks of one single-threaded executor, in *)
(* any order; the subscriptions run while the node is inactive too.        *)
(*                                                                         *)
(* One configuration of the node: bowl_enabled and hybrid_enabled are read *)
(* once.  The profile has a row on pointcloud_topic and the user's layers  *)
(* are on.  Motion compensation is SurroundMotion's; exposure is left out. *)
(***************************************************************************)
CONSTANTS
  Camera,
  Info,        \* contents of a CameraInfo message
  Size(_),     \* the image size a CameraInfo tells
  Shape,       \* values of bowl_R0, bowl_k, ... together
  NoInfo, NoBowl, NoImage

ASSUME SurroundAssumption ==
  /\ Camera # {} /\ NoInfo \notin Info
  /\ \A i \in Info : Size(i) # NoImage
  /\ \A b \in [info : [Camera -> Info], shape : Shape] : b # NoBowl

VARIABLES
  bowl_enabled, hybrid_enabled,   \* parameters read once
  active,                         \* timer_ runs
  render_mode, stitching, profile,
  info,                  \* IngestState: every camera's last CameraInfo
  info_dirty, config_applied,     \* of CameraIngest
  shape, bowl_config_dirty,
  baked,                 \* what the renderer's bowl and camera slots were made from
  image,                 \* size of the image in each camera's texture
  bowlVisible,
  stencil,               \* hybridStencilOn: the view's stencil, the ground's and the grid's compare
  bowlNe,                \* the compare of the bowl's material instance
  cloud,                 \* cloud_pts_rig_ is there and not 2 s old
  row,                   \* the row's adapter has a cloud within its timeout
  frame                  \* what the last frame showed

consts == <<bowl_enabled, hybrid_enabled>>
view == <<render_mode, stitching, profile>>
ingest == <<info, info_dirty, config_applied>>
lidar == <<cloud, row>>
drawn == <<stencil, bowlNe, frame>>
vars == <<consts, active, view, ingest, shape, bowl_config_dirty, baked, image, bowlVisible,
          lidar, drawn>>

ImageSize == {Size(i) : i \in Info}
Bowl == [info : [Camera -> Info], shape : Shape]
Frame == [bowl : BOOLEAN, row : BOOLEAN, splats : BOOLEAN, suppressed : BOOLEAN,
          splatting : BOOLEAN]

TypeOK ==
  /\ bowl_enabled \in BOOLEAN /\ hybrid_enabled \in BOOLEAN /\ active \in BOOLEAN
  /\ render_mode \in {"bowl", "hybrid", "free_look"}
  /\ stitching \in BOOLEAN /\ profile \in {"bowl", "hybrid"}
  /\ info \in [Camera -> Info \cup {NoInfo}]
  /\ info_dirty \in BOOLEAN /\ config_applied \in BOOLEAN
  /\ shape \in Shape /\ bowl_config_dirty \in BOOLEAN
  /\ baked \in Bowl \cup {NoBowl}
  /\ image \in [Camera -> ImageSize \cup {NoImage}]
  /\ bowlVisible \in BOOLEAN /\ stencil \in BOOLEAN /\ bowlNe \in BOOLEAN
  /\ cloud \in BOOLEAN /\ row \in BOOLEAN
  /\ frame \in Frame

Init ==
  /\ bowl_enabled \in BOOLEAN /\ hybrid_enabled \in BOOLEAN
  /\ active = FALSE
  /\ render_mode = "free_look" /\ stitching = FALSE /\ profile = "bowl"
  /\ info = [c \in Camera |-> NoInfo]
  /\ info_dirty = FALSE /\ config_applied = FALSE
  /\ shape \in Shape /\ bowl_config_dirty = FALSE
  /\ baked = NoBowl
  /\ image = [c \in Camera |-> NoImage]
  /\ bowlVisible = FALSE /\ stencil = FALSE /\ bowlNe = FALSE
  /\ cloud = FALSE /\ row = FALSE
  /\ frame = [bowl |-> FALSE, row |-> FALSE, splats |-> FALSE, suppressed |-> FALSE,
              splatting |-> FALSE]

-----------------------------------------------------------------------------
\* hybrid_cloud_consumed
HybridCloudConsumed ==
  render_mode = "hybrid" \/ (render_mode = "free_look" /\ stitching /\ profile = "hybrid")

BowlVisibleForMode ==
  render_mode \in {"bowl", "hybrid"} \/ (render_mode = "free_look" /\ stitching)

AllInfoReady(infos) == \A c \in Camera : infos[c] # NoInfo

\* record_camera_info: true once, when the last camera reports, then on a change.
RecordCameraInfo(c, i) ==
  IF AllInfoReady(info) THEN info[c] # i ELSE AllInfoReady([info EXCEPT ![c] = i])

\* Mutant: the flag is assigned, so an unchanged message clears it.
FlagAssigned(c, i) == info_dirty' = RecordCameraInfo(c, i)

Flag(c, i) == info_dirty' = (info_dirty \/ RecordCameraInfo(c, i))

\* info_subs_: they exist with the camera ingest, that is with the bowl enabled.
CameraInfo(c, i) ==
  /\ bowl_enabled
  /\ Flag(c, i)
  /\ info' = [info EXCEPT ![c] = i]
  /\ UNCHANGED <<consts, active, view, config_applied, shape, bowl_config_dirty, baked, image,
                 bowlVisible, lidar, drawn>>

\* img_subs_: uploaded if the camera's slot has its size, handed back otherwise.  The
\* frame_id grows with every image, so none is taken for one already uploaded.
Image(c, s) ==
  /\ bowl_enabled
  /\ image' = IF baked # NoBowl /\ Size(baked.info[c]) = s THEN [image EXCEPT ![c] = s] ELSE image
  /\ UNCHANGED <<consts, active, view, ingest, shape, bowl_config_dirty, baked, bowlVisible,
                 lidar, drawn>>

\* cloud_sub_ takes a cloud only while the hybrid profile consumes it and a bowl is
\* enabled; the row's own subscription takes every cloud.
Cloud ==
  /\ hybrid_enabled /\ bowl_enabled /\ HybridCloudConsumed
  /\ cloud' = TRUE
  /\ UNCHANGED <<consts, active, view, ingest, shape, bowl_config_dirty, baked, image,
                 bowlVisible, row, drawn>>

RowCloud ==
  /\ row' = TRUE
  /\ UNCHANGED <<consts, active, view, ingest, shape, bowl_config_dirty, baked, image,
                 bowlVisible, cloud, drawn>>

-----------------------------------------------------------------------------
\* on_params and set_mode_sub_.
SetView(mode, stitch, prof) ==
  /\ render_mode' = mode /\ stitching' = stitch /\ profile' = prof
  /\ <<mode, stitch, prof>> # view
  /\ UNCHANGED <<consts, active, ingest, shape, bowl_config_dirty, baked, image, bowlVisible,
                 lidar, drawn>>

SetShape(s) ==
  /\ shape' = s
  /\ bowl_config_dirty' = TRUE
  /\ UNCHANGED <<consts, active, view, ingest, baked, image, bowlVisible, lidar, drawn>>

\* on_activate and on_deactivate: the timer alone.
SetActive(a) ==
  /\ active # a /\ active' = a
  /\ UNCHANGED <<consts, view, ingest, shape, bowl_config_dirty, baked, image, bowlVisible,
                 lidar, drawn>>

-----------------------------------------------------------------------------
Current == [info |-> info, shape |-> shape]

\* Mutant: the camera textures outlive the bowl they belong to.
BakeKeepsImages == baked' = Current /\ UNCHANGED image

\* set_bowl_config: new textures and a new bowl.  With 1 to 6 cameras it succeeds.
Bake ==
  /\ baked' = Current
  /\ image' = [c \in Camera |-> NoImage]

\* The timer's bowl step: one bake a tick, from what is current.
BakeFirst ==
  /\ bowl_enabled /\ ~config_applied /\ AllInfoReady(info)
  /\ Bake
  /\ config_applied' = TRUE /\ info_dirty' = FALSE
  /\ UNCHANGED bowl_config_dirty

BakeInfo ==
  /\ bowl_enabled /\ config_applied /\ info_dirty
  /\ Bake
  /\ info_dirty' = FALSE
  /\ UNCHANGED <<config_applied, bowl_config_dirty>>

BakeShape ==
  /\ bowl_enabled /\ config_applied /\ ~info_dirty /\ bowl_config_dirty
  /\ Bake
  /\ bowl_config_dirty' = FALSE
  /\ UNCHANGED <<config_applied, info_dirty>>

Baking ==
  bowl_enabled /\ IF config_applied THEN info_dirty \/ bowl_config_dirty ELSE AllInfoReady(info)

BakeNothing ==
  /\ ~Baking
  /\ UNCHANGED <<baked, image, config_applied, info_dirty, bowl_config_dirty>>

\* Mutant: the row is left out in hybrid mode alone.
SuppressedInHybrid == hybrid_enabled /\ render_mode = "hybrid"

\* The row of the cloud the hybrid profile draws is left out.
Suppressed == hybrid_enabled /\ HybridCloudConsumed

\* The timer colours the cloud from the cameras and hands it to the renderer.
Splatting == hybrid_enabled /\ HybridCloudConsumed /\ bowl_enabled

\* Mutant: set_bowl_visible before the bowl is configured, when it is refused.
VisibleEarly == bowlVisible' = IF baked = NoBowl THEN bowlVisible ELSE BowlVisibleForMode

\* set_bowl_visible: refused until there are cameras.
Visible == bowlVisible' = IF baked' = NoBowl THEN bowlVisible ELSE BowlVisibleForMode

\* update_bowl: the bowl enters the scene and leaves it.
BowlShown == bowlVisible' /\ baked' # NoBowl

\* set_hybrid_splats makes meshes of the points of a cloud that a camera has coloured.
Splats(covered) == Splatting /\ cloud' /\ covered

\* Mutant: the instance of a new bowl keeps its default until the layer changes.
InstanceCompareDefault == ~Baking /\ bowlNe

\* build_bowl: the fresh instance follows the layer.
InstanceCompare == IF Baking THEN stencil ELSE bowlNe

\* update_hybrid_splats: apply_backdrop_stencil runs when the layer turns on or off.
Backdrop(on) ==
  /\ stencil' = on
  /\ bowlNe' = IF on # stencil THEN on /\ baked' # NoBowl ELSE InstanceCompare

\* What the frame shows: covered, some point of the cloud has a camera's colour.  The row
\* counts as suppressed where it would be shown, in free look with a cloud in time: the
\* other modes clear or mask the rows of clouds anyway.
Draw(covered) ==
  /\ frame' = [bowl |-> BowlShown,
               row |-> render_mode = "free_look" /\ row' /\ ~Suppressed,
               splats |-> Splats(covered) /\ BowlShown,
               suppressed |-> render_mode = "free_look" /\ row' /\ Suppressed,
               splatting |-> Splatting]
  /\ Backdrop(Splats(covered) /\ BowlShown)

\* timer_callback; a cloud may turn too old by any tick.
Tick ==
  /\ active
  /\ BakeFirst \/ BakeInfo \/ BakeShape \/ BakeNothing
  /\ Visible
  /\ cloud' \in {cloud, FALSE} /\ row' \in {row, FALSE}
  /\ \E covered \in BOOLEAN : Draw(covered)
  /\ UNCHANGED <<consts, active, view, info, shape>>

Next ==
  \/ \E c \in Camera, i \in Info : CameraInfo(c, i)
  \/ \E c \in Camera, s \in ImageSize : Image(c, s)
  \/ Cloud \/ RowCloud
  \/ \E mode \in {"bowl", "hybrid", "free_look"}, stitch \in BOOLEAN, prof \in {"bowl", "hybrid"} :
       SetView(mode, stitch, prof)
  \/ \E s \in Shape : SetShape(s)
  \/ \E a \in BOOLEAN : SetActive(a)
  \/ Tick

Spec == Init /\ [][Next]_vars

\* The wall timer fires as long as the node is active.
FairSpec == Spec /\ WF_vars(Tick)

-----------------------------------------------------------------------------
\* A bowl that differs from the current calibrations or parameters is due for a new
\* bake: no order of CameraInfo messages, parameter changes and ticks loses one.
BowlNotStale ==
  config_applied => baked = Current \/ info_dirty \/ bowl_config_dirty

\* Once calibrations and parameters rest and the node stays active, the bowl comes to
\* be made of the current ones and stays so.
BowlSettles ==
  /\ bowl_enabled /\ <>[]active /\ <>AllInfoReady(info)
  /\ <>[][info' = info /\ shape' = shape]_vars
  => <>[](baked = Current)

\* No image of another size than its camera's calibration is ever on the bowl: one
\* taken before a new calibration does not survive it.
ImagesFit ==
  \A c \in Camera : image[c] # NoImage => baked # NoBowl /\ image[c] = Size(baked.info[c])

\* The view is of one calibration: a bowl that is not the current one's is due for a new
\* bake, and no image of another calibration's size is on it.
ViewIsOfOneCalibration == BowlNotStale /\ ImagesFit

\* The backdrop yields to the splats in exactly the frames that show some: the stencil the
\* splats write is on, and the bowl, the ground and the grid leave out what it marks.  A
\* re-bake in the middle makes a new instance, which must take over the layer's compare: or
\* the bowl would paint over the splats, or keep holes where there are none.
BackdropYields == stencil = frame.splats /\ bowlNe = frame.splats

\* The bowl is in exactly the frames whose mode asks for it, from the first frame after
\* the last calibration on.
BowlFollowsMode ==
  [][Tick => frame'.bowl = (config_applied' /\ BowlVisibleForMode)]_vars

\* The row of a cloud the hybrid profile draws is left out: no frame shows a cloud both
\* as a row and as splats.
LidarDrawnOnce == ~(frame.row /\ frame.splats)

\* Splats have their pixels to themselves: neither the row of the same cloud nor the
\* backdrop is drawn where they are.
SplatsStandAlone == LidarDrawnOnce /\ BackdropYields

\* overlume_node.cpp: "hybrid draws this cloud as splats; the row would duplicate it": a
\* row with a cloud in time that is left out of free look is of a cloud that is handed to
\* the splats.
SuppressedRowIsSplatted == frame.suppressed => frame.splatting
=============================================================================
