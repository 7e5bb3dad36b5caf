-------------------------- MODULE SurroundView_proofs --------------------------
(***************************************************************************)
(* The surround view, for every set of cameras, calibrations and image     *)
(* sizes.  The inductive invariant ties the two flags of the ingest to     *)
(* what the renderer's bowl was made from: the bowl is there exactly when  *)
(* the ingest says it was applied, which it says with all calibrations in. *)
(***************************************************************************)
EXTENDS SurroundView, TLAPS

Applied ==
  /\ config_applied <=> baked # NoBowl
  /\ config_applied => AllInfoReady(info)

Inv == TypeOK /\ Applied /\ BowlNotStale /\ ImagesFit /\ LidarDrawnOnce /\ BackdropYields

-----------------------------------------------------------------------------
LEMMA CurrentBowl ==
  ASSUME TypeOK, AllInfoReady(info)
  PROVE  Current \in Bowl /\ Current # NoBowl
<1>1. info \in [Camera -> Info]
  BY DEF TypeOK, AllInfoReady
<1>2. Current \in Bowl
  BY <1>1 DEF Current, Bowl, TypeOK
<1>. QED  BY <1>2, SurroundAssumption DEF Bowl

LEMMA InitInv == Init => Inv
<1>. SUFFICES ASSUME Init PROVE Inv
  OBVIOUS
<1>. USE DEF Init
<1>1. TypeOK
  BY DEF TypeOK, Frame
<1>2. Applied /\ BowlNotStale /\ ImagesFit /\ LidarDrawnOnce /\ BackdropYields
  BY DEF Applied, BowlNotStale, ImagesFit, LidarDrawnOnce, BackdropYields
<1>. QED  BY <1>1, <1>2 DEF Inv

\* A calibration that changes once all are in is flagged, and none is ever taken back.
LEMMA CameraInfoInv ==
  ASSUME Inv, NEW c \in Camera, NEW i \in Info, CameraInfo(c, i)
  PROVE  Inv'
<1>. USE DEF Inv, CameraInfo, consts, view, lidar, drawn
<1>1. TypeOK'
  BY DEF TypeOK, Flag, RecordCameraInfo
<1>2. Applied'
  <2>1. \A d \in Camera : info[d] # NoInfo => info'[d] # NoInfo
    BY SurroundAssumption DEF TypeOK
  <2>. QED  BY <2>1 DEF Applied, AllInfoReady
<1>3. BowlNotStale'
  <2>1. CASE info[c] = i
    <3>1. info' = info
      BY <2>1 DEF TypeOK
    <3>. QED  BY <3>1 DEF BowlNotStale, Current, Flag
  <2>2. CASE info[c] # i /\ config_applied
    BY <2>2 DEF BowlNotStale, Applied, Flag, RecordCameraInfo
  <2>3. CASE ~config_applied
    BY <2>3 DEF BowlNotStale
  <2>. QED  BY <2>1, <2>2, <2>3 DEF TypeOK
<1>4. ImagesFit' /\ LidarDrawnOnce' /\ BackdropYields'
  BY DEF ImagesFit, LidarDrawnOnce, BackdropYields
<1>. QED  BY <1>1, <1>2, <1>3, <1>4

LEMMA ImageInv ==
  ASSUME Inv, NEW c \in Camera, NEW s \in ImageSize, Image(c, s)
  PROVE  Inv'
<1>. USE DEF Inv, Image, consts, view, ingest, lidar, drawn
<1>1. TypeOK'
  BY DEF TypeOK
<1>2. ImagesFit'
  BY DEF ImagesFit, TypeOK
<1>3. Applied' /\ BowlNotStale' /\ LidarDrawnOnce' /\ BackdropYields'
  BY DEF Applied, BowlNotStale, LidarDrawnOnce, BackdropYields, Current
<1>. QED  BY <1>1, <1>2, <1>3

LEMMA OtherInv ==
  ASSUME Inv,
         \/ Cloud \/ RowCloud
         \/ \E mode \in {"bowl", "hybrid", "free_look"}, stitch \in BOOLEAN,
               prof \in {"bowl", "hybrid"} : SetView(mode, stitch, prof)
         \/ \E s \in Shape : SetShape(s)
         \/ \E a \in BOOLEAN : SetActive(a)
  PROVE  Inv'
<1>. USE DEF Inv, consts, view, ingest, lidar, drawn
<1>1. CASE Cloud \/ RowCloud
  <2>1. TypeOK'
    <3>1. CASE Cloud
      BY <3>1 DEF Cloud, TypeOK
    <3>2. CASE RowCloud
      BY <3>2 DEF RowCloud, TypeOK
    <3>. QED  BY <1>1, <3>1, <3>2
  <2>2. Applied' /\ BowlNotStale' /\ ImagesFit' /\ LidarDrawnOnce' /\ BackdropYields'
    BY <1>1 DEF Cloud, RowCloud, Applied, BowlNotStale, ImagesFit, LidarDrawnOnce, BackdropYields, Current
  <2>. QED  BY <2>1, <2>2
<1>2. ASSUME NEW mode \in {"bowl", "hybrid", "free_look"}, NEW stitch \in BOOLEAN,
             NEW prof \in {"bowl", "hybrid"}, SetView(mode, stitch, prof)
      PROVE  Inv'
  BY <1>2 DEF SetView, TypeOK, Applied, BowlNotStale, ImagesFit, LidarDrawnOnce, BackdropYields, Current
<1>3. ASSUME NEW s \in Shape, SetShape(s) PROVE Inv'
  BY <1>3 DEF SetShape, TypeOK, Applied, BowlNotStale, ImagesFit, LidarDrawnOnce, BackdropYields
<1>4. ASSUME NEW a \in BOOLEAN, SetActive(a) PROVE Inv'
  BY <1>4 DEF SetActive, TypeOK, Applied, BowlNotStale, ImagesFit, LidarDrawnOnce, BackdropYields, Current
<1>. QED  BY <1>1, <1>2, <1>3, <1>4

-----------------------------------------------------------------------------
\* The bowl step of a tick leaves the bowl and the two flags in agreement.
LEMMA TickBowl ==
  ASSUME Inv, Tick
  PROVE  /\ baked' \in Bowl \cup {NoBowl} /\ image' \in [Camera -> ImageSize \cup {NoImage}]
         /\ info_dirty' \in BOOLEAN /\ config_applied' \in BOOLEAN
         /\ bowl_config_dirty' \in BOOLEAN
         /\ Applied' /\ BowlNotStale' /\ ImagesFit'
<1>. USE DEF Inv, Tick
<1>1. Current' = Current /\ info' = info
  BY DEF Current
<1>2. CASE BakeFirst \/ BakeInfo \/ BakeShape
  <2>1. AllInfoReady(info)
    BY <1>2 DEF BakeFirst, BakeInfo, BakeShape, Applied
  <2>2. Current \in Bowl /\ Current # NoBowl
    BY <2>1, CurrentBowl
  <2>3. Bake /\ config_applied'
    BY <1>2 DEF BakeFirst, BakeInfo, BakeShape
  <2>4. baked' = Current /\ image' = [c \in Camera |-> NoImage]
    BY <2>3 DEF Bake
  <2>5. /\ info_dirty' \in BOOLEAN /\ config_applied' \in BOOLEAN
        /\ bowl_config_dirty' \in BOOLEAN
    BY <1>2 DEF BakeFirst, BakeInfo, BakeShape, TypeOK
  <2>6. Applied' /\ BowlNotStale' /\ ImagesFit'
    BY <1>1, <2>1, <2>2, <2>3, <2>4 DEF Applied, BowlNotStale, ImagesFit, AllInfoReady
  <2>. QED  BY <2>2, <2>4, <2>5, <2>6
<1>3. CASE BakeNothing
  BY <1>1, <1>3 DEF BakeNothing, TypeOK, Applied, BowlNotStale, ImagesFit, AllInfoReady
<1>. QED  BY <1>2, <1>3

LEMMA TickFrame ==
  ASSUME Inv, Tick
  PROVE  /\ frame' \in Frame /\ bowlVisible' \in BOOLEAN /\ LidarDrawnOnce'
         /\ stencil' \in BOOLEAN /\ bowlNe' \in BOOLEAN /\ BackdropYields'
         /\ frame'.bowl = (config_applied' /\ BowlVisibleForMode)
<1>. USE DEF Inv, Tick
<1>1. bowlVisible' \in BOOLEAN /\ (baked' # NoBowl => bowlVisible' = BowlVisibleForMode)
  BY DEF Visible, BowlVisibleForMode, TypeOK
<1>2. PICK covered \in BOOLEAN : Draw(covered)
  OBVIOUS
<1>3. /\ cloud' \in BOOLEAN /\ row' \in BOOLEAN /\ Suppressed \in BOOLEAN
      /\ Splatting \in BOOLEAN /\ (Splatting => Suppressed)
  BY DEF TypeOK, Suppressed, Splatting, HybridCloudConsumed
<1> DEFINE on == Splats(covered) /\ BowlShown
<1>4. on \in BOOLEAN /\ frame'.splats = on /\ Backdrop(on) /\ (on => baked' # NoBowl)
  BY <1>1, <1>2, <1>3 DEF Draw, Splats, BowlShown
<1>5. frame' \in Frame /\ LidarDrawnOnce'
  BY <1>1, <1>2, <1>3 DEF Draw, Splats, BowlShown, Frame, LidarDrawnOnce
<1>6. stencil' \in BOOLEAN /\ bowlNe' \in BOOLEAN /\ BackdropYields'
  <2>. HIDE DEF on
  <2>1. stencil' = on /\ bowlNe' = on
    BY <1>4 DEF Backdrop, InstanceCompare, BackdropYields, TypeOK
  <2>. QED  BY <1>4, <2>1 DEF BackdropYields
<1>7. frame'.bowl = (bowlVisible' /\ baked' # NoBowl)
  BY <1>2 DEF Draw, BowlShown
<1>8. config_applied' <=> baked' # NoBowl
  BY TickBowl DEF Applied
<1>. QED  BY <1>1, <1>5, <1>6, <1>7, <1>8, TickBowl

LEMMA TickInv == ASSUME Inv, Tick PROVE Inv'
<1>1. /\ UNCHANGED <<bowl_enabled, hybrid_enabled, active, render_mode, stitching, profile, info,
                     shape>>
      /\ cloud' \in BOOLEAN /\ row' \in BOOLEAN
  BY DEF Inv, Tick, TypeOK, consts, view
<1>2. TypeOK'
  BY <1>1, TickBowl, TickFrame DEF Inv, TypeOK
<1>. QED  BY <1>2, TickBowl, TickFrame DEF Inv

LEMMA NextInv == Inv /\ [Next]_vars => Inv'
<1>. SUFFICES ASSUME Inv, [Next]_vars PROVE Inv'
  OBVIOUS
<1>1. CASE UNCHANGED vars
  <2>. USE <1>1 DEF vars, consts, view, ingest, lidar, drawn, Inv
  <2>1. TypeOK' /\ Applied'
    BY DEF TypeOK, Applied, AllInfoReady
  <2>2. BowlNotStale' /\ ImagesFit'
    BY DEF BowlNotStale, ImagesFit, Current
  <2>3. LidarDrawnOnce' /\ BackdropYields'
    BY DEF LidarDrawnOnce, BackdropYields
  <2>. QED  BY <2>1, <2>2, <2>3
<1>. QED
  BY <1>1, CameraInfoInv, ImageInv, OtherInv, TickInv DEF Next

-----------------------------------------------------------------------------
\* The inductive invariant holds of every reachable state: types, and the agreement of
\* the ingest's flags with the renderer's bowl.
THEOREM SurroundInvariant == Spec => []Inv
<1>. QED  BY InitInv, NextInv, PTL DEF Spec

\* A bowl that is not made of the current calibrations and parameters is due for a new
\* bake, and no image of a size its camera's calibration does not tell is on it (BakeFirst,
\* BakeInfo, BakeShape, set_camera_frame, set_bowl_config).
THEOREM SurroundViewIsOfOneCalibration == Spec => []ViewIsOfOneCalibration
<1>1. Inv => ViewIsOfOneCalibration
  BY DEF Inv, ViewIsOfOneCalibration
<1>. QED  BY <1>1, SurroundInvariant, PTL

\* Splats have their pixels to themselves: no frame shows their cloud as a row too, and the
\* bowl, the ground and the grid yield in exactly the frames that show some, whatever is
\* re-baked in between (timer_callback, apply_backdrop_stencil, build_bowl).
THEOREM SurroundSplatsStandAlone == Spec => []SplatsStandAlone
<1>1. Inv => SplatsStandAlone
  BY DEF Inv, SplatsStandAlone
<1>. QED  BY <1>1, SurroundInvariant, PTL

\* The bowl is in exactly the frames whose mode asks for it (set_bowl_visible after the
\* bowl step of the same tick).
THEOREM SurroundBowlFollowsMode == Spec => BowlFollowsMode
<1>1. Inv /\ [Next]_vars => [Tick => frame'.bowl = (config_applied' /\ BowlVisibleForMode)]_vars
  BY TickFrame
<1>. QED  BY <1>1, SurroundInvariant, PTL DEF Spec, BowlFollowsMode
=============================================================================
