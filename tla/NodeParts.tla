------------------------------- MODULE NodeParts -------------------------------
(***************************************************************************)
(* The parts of the node that its executor runs side by side and that keep *)
(* their state to themselves: the lifecycle with the environment layer     *)
(* (OverlumeNode), a row of the profile (TopicRows), the governor of the   *)
(* quality, the virtual camera, the geo anchor's solver, the loader of the *)
(* profile, and the moments that the surround view's images are moved to   *)
(* (SurroundMotion).  A row that is not configured gets no messages and a  *)
(* node that is not active no timers, so that the parts allow more orders  *)
(* than the lifecycle leaves.  A behaviour follows one part, and the       *)
(* others are as they were at the start.                                   *)
(***************************************************************************)
EXTENDS OverlumeNode, TopicRows, QualityGovernor, VirtualCamera, GeoAnchorSolver,
        ProfileLoader, SurroundMotion

VARIABLE part   \* what the behaviour follows

partsVars ==
  <<part, vars, rowVars, governorVars, cameraVars, anchorVars, profileVars, motionVars>>

\* A part that is not followed starts in one way only.
PartsInit ==
  /\ part \in {"lifecycle", "row", "governor", "camera", "anchor", "profile", "motion"}
  /\ Init
  /\ RowInit /\ (part # "row" => adapter = CHOOSE a \in Adapter : TRUE)
  /\ GovernorInit /\ (part # "governor" => quality = 1)
  /\ CameraInit
  /\ AnchorInit /\ (part # "anchor" => course = 0 /\ givenDatum = "none" /\ givenHeight = NoHeight)
  /\ file \in IF part = "profile" THEN Files ELSE {<<>>}
  /\ ProfileInit
  /\ MotionInit /\ (part # "motion" => consumed = FALSE)

PartsNext ==
  \/ /\ part = "lifecycle" /\ Next
     /\ UNCHANGED <<part, rowVars, governorVars, cameraVars, anchorVars, profileVars, motionVars>>
  \/ /\ part = "row" /\ RowNext
     /\ UNCHANGED <<part, vars, governorVars, cameraVars, anchorVars, profileVars, motionVars>>
  \/ /\ part = "governor" /\ GovernorNext
     /\ UNCHANGED <<part, vars, rowVars, cameraVars, anchorVars, profileVars, motionVars>>
  \/ /\ part = "camera" /\ CameraNext
     /\ UNCHANGED <<part, vars, rowVars, governorVars, anchorVars, profileVars, motionVars>>
  \/ /\ part = "anchor" /\ AnchorNext
     /\ UNCHANGED <<part, vars, rowVars, governorVars, cameraVars, profileVars, motionVars>>
  \/ /\ part = "profile" /\ ProfileNext
     /\ UNCHANGED <<part, vars, rowVars, governorVars, cameraVars, anchorVars, motionVars>>
  \/ /\ part = "motion" /\ MotionNext
     /\ UNCHANGED <<part, vars, rowVars, governorVars, cameraVars, anchorVars, profileVars>>

PartsSpec == PartsInit /\ [][PartsNext]_partsVars

\* The timer fires and the cameras send.
PartsFairSpec ==
  /\ PartsSpec
  /\ WF_motionVars(part = "motion" /\ MotionFrame)
  /\ \A c \in Camera : WF_motionVars(part = "motion" /\ Sent(c))
=============================================================================
