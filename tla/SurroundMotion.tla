----------------------------- MODULE SurroundMotion -----------------------------
(***************************************************************************)
(* The surround view's images are of different moments.  The timer moves   *)
(* every camera of the bowl, and the cloud of the hybrid profile, to the   *)
(* moment of the newest image, by the odometry between (camera_ingest.cpp, *)
(* the timer), and colours the cloud from the images it has kept           *)
(* (lidar_colorize.cpp).                                                   *)
(*                                                                         *)
(* The node is active and its bowl and hybrid parameters are on.  A motion *)
(* is the pair of the stamps it leads between; its odometry is left out,   *)
(* but for there being any.  Stamps come in any order.  When a bowl is     *)
(* baked again is SurroundView's matter, and an input here.                *)
(***************************************************************************)
EXTENDS Integers

CONSTANTS
  Camera,
  MaxStamp,    \* bound on the stamps, from 1
  History,     \* kTwistHistoryS
  CloudSpan    \* kMaxCloudCompSpanS

VARIABLES
  calibrated,      \* IngestState: the cameras that have sent a CameraInfo
  stamp,           \* and the stamp of each one's last image; zero for none
  kept,            \* rgb: the image kept for the cloud's colours, the last one, an older one or none
  storing,         \* the ingest's hybrid_enabled_
  odometry,        \* twists_ is not empty
  consumed,        \* hybrid_cloud_consumed
  config_applied,
  motionDelta,     \* the renderer's, of its camera slots
  last_deltas,     \* the ingest's own copy
  cloudDelta       \* what the last cloud handed over was moved by

ingestVars == <<calibrated, stamp, kept, odometry>>
deltaVars == <<motionDelta, last_deltas, cloudDelta>>
motionVars == <<ingestVars, storing, consumed, config_applied, deltaVars>>

Identity == <<>>

MotionInit ==
  /\ calibrated = {}
  /\ stamp = [c \in Camera |-> 0]
  /\ kept = [c \in Camera |-> "none"]
  /\ storing = TRUE /\ odometry = FALSE /\ consumed \in BOOLEAN
  /\ config_applied = FALSE
  /\ motionDelta = [c \in Camera |-> Identity]
  /\ last_deltas = [c \in Camera |-> Identity]
  /\ cloudDelta = Identity

-----------------------------------------------------------------------------
CameraInfo(c) ==
  /\ calibrated' = calibrated \cup {c}
  /\ UNCHANGED <<stamp, kept, odometry, storing, consumed, config_applied, deltaVars>>

\* img_subs_: the stamp is taken in any case, the pixels only for the hybrid profile.
Image(c, t) ==
  /\ stamp' = [stamp EXCEPT ![c] = t]
  /\ kept' = [kept EXCEPT ![c] = IF storing THEN "last" ELSE IF @ = "none" THEN @ ELSE "old"]
  /\ UNCHANGED <<calibrated, odometry, storing, consumed, config_applied, deltaVars>>

\* odom_sub_ keeps at least the twist it has just taken.
Odometry ==
  /\ odometry' = TRUE
  /\ UNCHANGED <<calibrated, stamp, kept, storing, consumed, config_applied, deltaVars>>

\* on_params and set_mode_sub_.
SetConsumed ==
  /\ consumed' = ~consumed
  /\ UNCHANGED <<ingestVars, storing, config_applied, deltaVars>>

-----------------------------------------------------------------------------
Apart(a, b) == IF a < b THEN b - a ELSE a - b

\* rig_delta
RigDelta(from, ref) ==
  IF from = ref \/ Apart(from, ref) > History \/ ~odometry THEN Identity ELSE <<from, ref>>

\* cloud_comp_delta: a cloud without a stamp stays where it is.
CloudCompDelta(cloud, ref) ==
  IF cloud = 0 \/ Apart(cloud, ref) > CloudSpan THEN Identity ELSE RigDelta(cloud, ref)

Stamped == {c \in Camera : stamp[c] # 0}

\* newest_stamp, of the last images of those cameras that have sent one.
NewestStamp(t) ==
  /\ \E c \in Stamped : t = stamp[c]
  /\ \A c \in Stamped : stamp[c] <= t

AllInfoReady == calibrated = Camera

\* set_bowl_config makes new slots, which do not move.
Slots(baking) == IF baking THEN [c \in Camera |-> Identity] ELSE motionDelta

\* Mutant: only the cameras that have sent an image since are moved anew.
DeltasOfNew(ref) ==
  [c \in Camera |-> IF last_deltas[c] # Identity /\ last_deltas[c][1] = stamp[c]
                    THEN last_deltas[c]
                    ELSE IF c \in Stamped THEN RigDelta(stamp[c], ref) ELSE Identity]

\* compensation_delta_4x4, or the identity of a camera without an image.
Deltas(ref) ==
  [c \in Camera |-> IF c \in Stamped THEN RigDelta(stamp[c], ref) ELSE Identity]

\* Mutant: the cameras are moved before the bowl is baked.
MoveThenBake(baking) ==
  \/ /\ Stamped # {} /\ config_applied
     /\ \E ref \in 1..MaxStamp : NewestStamp(ref) /\ last_deltas' = Deltas(ref)
     /\ motionDelta' = IF baking THEN Slots(baking) ELSE last_deltas'
  \/ /\ Stamped = {} \/ ~config_applied
     /\ motionDelta' = Slots(baking)
     /\ UNCHANGED last_deltas

\* update_motion_deltas, after the bake; without an image it leaves all as it is.
Move(baking) ==
  \/ /\ Stamped # {} /\ config_applied'
     /\ \E ref \in 1..MaxStamp : NewestStamp(ref) /\ motionDelta' = Deltas(ref)
     /\ last_deltas' = motionDelta'
  \/ /\ Stamped = {} \/ ~config_applied'
     /\ motionDelta' = Slots(baking)
     /\ UNCHANGED last_deltas

\* Mutant: the ingest keeps the flag it was made with while the profile stays on.
StoringOnceOff == storing' = (storing /\ consumed)

\* set_hybrid_enabled, in the timer alone.
Store == storing' = consumed

\* cloud_motion_delta, of the last cloud.
MoveCloud(cloud) ==
  cloudDelta' = IF consumed /\ Stamped # {}
                THEN CloudCompDelta(cloud, CHOOSE ref \in 1..MaxStamp : NewestStamp(ref))
                ELSE Identity

\* timer_callback
MotionTick(again, cloud) ==
  /\ config_applied' = (config_applied \/ AllInfoReady)
  /\ Move(IF config_applied THEN again ELSE AllInfoReady)
  /\ Store
  /\ MoveCloud(cloud)
  /\ UNCHANGED <<ingestVars, consumed>>

MotionNext ==
  \/ \E c \in Camera : CameraInfo(c)
  \/ \E c \in Camera, t \in 1..MaxStamp : Image(c, t)
  \/ Odometry
  \/ SetConsumed
  \/ \E again \in BOOLEAN, cloud \in 0..MaxStamp : MotionTick(again, cloud)

MotionSpec == MotionInit /\ [][MotionNext]_motionVars

MotionFrame == \E again \in BOOLEAN, cloud \in 0..MaxStamp : MotionTick(again, cloud)
Sent(c) == \E t \in 1..MaxStamp : Image(c, t)

-----------------------------------------------------------------------------
\* "Colourise through the same per-camera motion deltas the bowl shader applies"
\* (timer_callback): the copy the cloud is coloured through is the renderer's, whenever
\* the bowl is baked again in between.
SameDeltas == config_applied => motionDelta = last_deltas

\* One picture is of one moment: no two cameras are moved to different stamps, however old
\* their last images are, nor is the cloud (update_motion_deltas, cloud_motion_delta).
OneReference ==
  /\ \A c, d \in Camera :
       motionDelta[c] # Identity /\ motionDelta[d] # Identity
       => motionDelta[c][2] = motionDelta[d][2]
  /\ config_applied /\ cloudDelta # Identity
     => \A c \in Camera : motionDelta[c] # Identity => motionDelta[c][2] = cloudDelta[2]

\* A picture is of one moment, and its cloud is coloured as its cameras are moved.
OneMoment == SameDeltas /\ OneReference

\* With the profile on for good, every camera's colours come to be those of its last image
\* and stay so: what was kept when the profile was last on is not used for ever (img_subs_,
\* set_hybrid_enabled in the timer).
ColoursSettle == <>[]consumed => <>[](\A c \in Camera : kept[c] = "last")
=============================================================================
