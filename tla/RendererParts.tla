----------------------------- MODULE RendererParts -----------------------------
(***************************************************************************)
(* The parts of the renderer that keep their state to themselves: its      *)
(* environment source and ground plane (EnvironmentSlot), the scene and    *)
(* the theme a frame reads (RendererFrame), and the making and freeing of  *)
(* all it has of the engine (RendererLife).  A behaviour follows one part, *)
(* and the others are as they were at the start.                           *)
(***************************************************************************)
EXTENDS EnvironmentSlot, Integers

CONSTANTS
  Theme, Fallback, Loads, LengthFade, Stops, Duration, MaxAsked, Content, \* RendererFrame's
  MaxMade                                                                 \* RendererLife's

VARIABLES
  part,   \* what the behaviour follows
  caller, buffer, active_idx, published, active_theme, theme_transition, elapsed, materials,
  heightFade, light, wanted, asks,
  life, alive, pc

Frames == INSTANCE RendererFrame WITH asked <- asks
Life == INSTANCE RendererLife

ASSUME RendererConstants ==
  /\ Loads \subseteq Theme /\ Fallback \notin Theme /\ LengthFade \subseteq Theme
  /\ Stops \in [Theme \cup {Fallback} -> Nat]
  /\ Duration \in Nat \ {0} /\ MaxAsked \in Nat /\ MaxMade \in Nat
  /\ Content # {}

frameVars == <<caller, buffer, active_idx, published, active_theme, theme_transition, elapsed,
               materials, heightFade, light, wanted, asks>>
lifeVars == <<life, alive, pc>>
rendererVars == <<part, vars, frameVars, lifeVars>>

RendererInit ==
  /\ part \in {"slot", "frame", "life"}
  /\ Init /\ Frames!Init /\ Life!Init
  /\ part # "frame" => wanted = Fallback

RendererNext ==
  \/ part = "slot" /\ Next /\ UNCHANGED <<part, frameVars, lifeVars>>
  \/ part = "frame" /\ Frames!Next /\ UNCHANGED <<part, vars, lifeVars>>
  \/ part = "life" /\ Life!Next /\ UNCHANGED <<part, vars, frameVars>>

RendererSpec == RendererInit /\ [][RendererNext]_rendererVars

\* Of the slot's fairness, each action needs its source in the slot.
RendererFairSpec ==
  /\ RendererSpec
  /\ Fairness
  /\ WF_frameVars(part = "frame" /\ Frames!SceneAdvances)
  /\ WF_frameVars(part = "frame" /\ Frames!TransitionIsDrawn)

-----------------------------------------------------------------------------
\* A frame shows the scene as it was published (stated in RendererFrame, of
\* scene_buffer.cpp).
SceneIsFrozen == Frames!SceneIsFrozen

\* The theme asked for last arrives and stays (stated in RendererFrame, of set_theme and
\* apply_current_theme).
ThemeArrives == Frames!ThemeArrives

\* No step frees what something left is made of, nor what something may be bound to but at
\* the places RendererLife names, and none is left at the renderer's end (stated in
\* RendererLife, of create_renderer and destroy_renderer).
UsersGoFirst == [][Life!FreesInOrder]_lifeVars

\* After a transition the ribbons' length fade is the asked theme's (stated in
\* RendererFrame, of the visual-mode design).
ThemeSettles == Frames!ThemeSettles
=============================================================================
