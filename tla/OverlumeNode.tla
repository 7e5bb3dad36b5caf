----------------------------- MODULE OverlumeNode -----------------------------
(***************************************************************************)
(* The ROS node that drives the renderer (overlume_node.cpp): its          *)
(* lifecycle, and the environment layer it switches, hides, shows and      *)
(* attributes.  A single-threaded executor runs the lifecycle transitions, *)
(* the parameter callback, the subscriptions and the 33 ms timer, in any   *)
(* order, each to its end: one action each.                                *)
(*                                                                         *)
(* The renderer is seen as EnvironmentSlot leaves it: the source in the    *)
(* slot, its state and the remembered visibility.  The other layers of the *)
(* timer's frame are left out (SurroundView has the cameras' and the lidar's). *)
(***************************************************************************)
EXTENDS Naturals

CONSTANTS
  Uri,         \* values of environment_source_uri
  NoUri,       \* its empty value
  Kind,        \* Kind[u]: what attribution a URI owes
  ChunksDir,   \* environment_chunks_dir is set
  Credit, NoCredit,   \* overlay credits a source can report
  Second       \* timer ticks in a second of node time

Mode == {"bowl", "hybrid", "free_look"}

ASSUME NodeAssumption ==
  /\ NoUri \in Uri /\ "none" \notin Uri /\ NoCredit \in Credit
  /\ Kind \in [Uri -> {"MAPBOX", "GOOGLE", "ION", "BAKED"}] /\ Kind[NoUri] = "BAKED"
  /\ ChunksDir \in BOOLEAN
  /\ Second \in Nat \ {0, 1}

VARIABLES
  lifecycle,           \* the node's primary state
  result,              \* how the last transition ended
  declared,            \* on_configure has declared the parameters
  layer_param_cb,      \* on_params is registered: for good, once it is
  render_mode, environment_enabled, environment_source_uri,
  solved,              \* geo_anchor_solver_ has an anchor
  renderer,            \* renderer_ is not null
  environmentVisible,  \* of the renderer
  slot,                \* the URI the renderer's source was opened from
  slotState,           \* its EnvironmentSourceState
  slotCredits,         \* the credits it reports
  creditsAge,          \* ticks since these changed, up to Second
  environment_credits, \* the node's copy
  readAge,             \* ticks since environment_credits_read_sec_, up to Second
  frame                \* the last image published

Empty == [uri |-> NoUri, open |-> FALSE]
Opened(u) == [uri |-> u, open |-> TRUE]

lifecycleVars == <<lifecycle, result, declared, layer_param_cb>>
params == <<render_mode, environment_enabled, environment_source_uri>>
slotVars == <<slot, slotState, slotCredits, creditsAge>>
vars == <<lifecycleVars, params, solved, renderer, environmentVisible, slotVars,
          environment_credits, readAge, frame>>

Attribution == {"NONE", "MAPBOX", "GOOGLE", "CREDITS"}

TypeOK ==
  /\ lifecycle \in {"unconfigured", "inactive", "active", "finalized"}
  /\ result \in {"success", "failure", "error"}
  /\ declared \in BOOLEAN /\ layer_param_cb \in BOOLEAN
  /\ render_mode \in Mode /\ environment_enabled \in BOOLEAN /\ environment_source_uri \in Uri
  /\ solved \in BOOLEAN /\ renderer \in BOOLEAN /\ environmentVisible \in BOOLEAN
  /\ slot \in [uri : Uri, open : BOOLEAN]
  /\ slotState \in {"NONE", "BAKED", "STREAMING", "STREAMING_FALLBACK"}
  /\ slotCredits \in Credit /\ environment_credits \in Credit
  /\ creditsAge \in 0..Second /\ readAge \in 0..Second
  /\ frame \in [tiles : Uri \cup {"none"}, credits : Credit, attribution : Attribution]

Init ==
  /\ lifecycle = "unconfigured" /\ result = "success"
  /\ declared = FALSE /\ layer_param_cb = FALSE
  /\ render_mode = "free_look" /\ environment_enabled = TRUE
  /\ environment_source_uri = NoUri
  /\ solved = FALSE /\ renderer = FALSE
  /\ environmentVisible = TRUE
  /\ slot = Empty /\ slotState = "NONE" /\ slotCredits = NoCredit /\ creditsAge = 0
  /\ environment_credits = NoCredit /\ readAge = Second
  /\ frame = [tiles |-> "none", credits |-> NoCredit, attribution |-> "NONE"]

-----------------------------------------------------------------------------
\* environment_effectively_visible
EffectivelyVisible(mode, enabled) == enabled /\ mode = "free_look"

\* apply_environment_visibility; a null renderer has no visibility to set.
ApplyVisibility ==
  environmentVisible' = IF renderer THEN EffectivelyVisible(render_mode', environment_enabled')
                        ELSE environmentVisible

\* compose_environment_source_uri gave something to open.
Composable(u) == u # NoUri \/ ChunksDir

\* set_environment_source, when the URI opens.
Open(u) ==
  /\ slot' = Opened(u)
  /\ slotState' = IF Kind[u] = "BAKED" THEN "BAKED" ELSE "STREAMING"
  /\ slotCredits' = NoCredit
  /\ creditsAge' = 0

\* set_environment_source: opens, or fails and leaves the old source.
SetSource(u) == Open(u) \/ UNCHANGED slotVars

DestroyRenderer ==
  /\ renderer' = FALSE
  /\ environmentVisible' = TRUE
  /\ slot' = Empty /\ slotState' = "NONE" /\ slotCredits' = NoCredit /\ creditsAge' = 0

-----------------------------------------------------------------------------
\* The parameters' values, and the anchor when geo_datum_* give a complete override.
ReadParams ==
  /\ render_mode' \in Mode
  /\ environment_enabled' \in BOOLEAN
  /\ environment_source_uri' \in Uri
  /\ solved' \in BOOLEAN

\* on_configure with parameter values it accepts.
ConfigureOk ==
  /\ ReadParams
  /\ lifecycle' = "inactive" /\ result' = "success"
  /\ layer_param_cb' = TRUE
  /\ renderer' = TRUE

\* on_configure with a value it rejects: what it had set up by then stays, be it the
\* renderer or the GPS subscription.
ConfigureRejects ==
  /\ ReadParams
  /\ lifecycle' = "unconfigured" /\ result' = "failure"
  /\ renderer' \in BOOLEAN
  /\ UNCHANGED layer_param_cb

\* on_configure declares every parameter, and nothing undeclares them: the next
\* call throws at the first, which rclcpp turns into ERROR and, without an
\* on_error of the node's own, into Finalized.
ConfigureThrows ==
  /\ lifecycle' = "finalized" /\ result' = "error"
  /\ UNCHANGED <<params, solved, layer_param_cb, renderer>>

Configure ==
  /\ lifecycle = "unconfigured"
  /\ declared' = TRUE
  /\ IF declared THEN ConfigureThrows ELSE ConfigureOk \/ ConfigureRejects
  /\ UNCHANGED <<environmentVisible, slotVars, environment_credits, readAge, frame>>

\* on_activate: the source is opened anew at every activation, if there is one to
\* open and an anchor to place it at.
Activate ==
  /\ lifecycle = "inactive"
  /\ lifecycle' = "active" /\ result' = "success"
  /\ UNCHANGED params
  /\ ApplyVisibility
  /\ IF Composable(environment_source_uri) /\ solved
       THEN SetSource(environment_source_uri) ELSE UNCHANGED slotVars
  /\ UNCHANGED <<declared, layer_param_cb, solved, renderer, environment_credits, readAge,
                 frame>>

\* on_deactivate stops the timer; the subscriptions and the source stay.
Deactivate ==
  /\ lifecycle = "active"
  /\ lifecycle' = "inactive" /\ result' = "success"
  /\ UNCHANGED <<declared, layer_param_cb, params, solved, renderer, environmentVisible,
                 slotVars, environment_credits, readAge, frame>>

\* on_cleanup, on_shutdown: the renderer and the anchor go; on_params stays.
Cleanup ==
  /\ lifecycle = "inactive"
  /\ lifecycle' = "unconfigured" /\ result' = "success"
  /\ DestroyRenderer /\ solved' = FALSE
  /\ UNCHANGED <<declared, layer_param_cb, params, environment_credits, readAge, frame>>

Shutdown ==
  /\ lifecycle \in {"unconfigured", "inactive", "active"}
  /\ lifecycle' = "finalized" /\ result' = "success"
  /\ DestroyRenderer /\ solved' = FALSE
  /\ UNCHANGED <<declared, layer_param_cb, params, environment_credits, readAge, frame>>

-----------------------------------------------------------------------------
\* gps_sub_: the first fix with a transform solves the anchor.
Fix ==
  /\ lifecycle \in {"inactive", "active"} \/ result = "failure"
  /\ ~solved
  /\ solved' = TRUE
  /\ UNCHANGED <<lifecycleVars, params, renderer, environmentVisible, slotVars,
                 environment_credits, readAge, frame>>

\* Mutant: /rendering/set_mode changes the mode and forgets the environment.
ModeOnly(mode) ==
  /\ render_mode' = mode
  /\ UNCHANGED <<environment_enabled, environment_source_uri, environmentVisible>>

\* What set_mode_sub_ and the render_mode parameter do.
ModeChange(mode) ==
  /\ render_mode' = mode
  /\ UNCHANGED <<environment_enabled, environment_source_uri>>
  /\ ApplyVisibility

SetMode(mode) ==
  /\ lifecycle \in {"inactive", "active"} \/ layer_param_cb
  /\ ModeChange(mode)
  /\ UNCHANGED <<lifecycleVars, solved, renderer, slotVars, environment_credits, readAge, frame>>

SetEnvironmentEnabled(enabled) ==
  /\ layer_param_cb
  /\ environment_enabled' = enabled
  /\ UNCHANGED <<render_mode, environment_source_uri>>
  /\ ApplyVisibility
  /\ UNCHANGED <<lifecycleVars, solved, renderer, slotVars, environment_credits, readAge, frame>>

\* Mutant: the URI is taken over before the source has opened.
SwitchTaken(u) ==
  /\ environment_source_uri' = u
  /\ SetSource(u)

\* The live switch itself: the URI is taken over with the source or not at all.
Switch(u) ==
  \/ environment_source_uri' = u /\ Open(u)
  \/ UNCHANGED <<environment_source_uri, slotVars>>

\* on_params, environment_source_uri: rejected without an anchor or a URI to open.
SwitchSource(u) ==
  /\ layer_param_cb /\ solved
  /\ IF Composable(u) THEN Switch(u) ELSE UNCHANGED <<environment_source_uri, slotVars>>
  /\ UNCHANGED <<render_mode, environment_enabled>>
  /\ ApplyVisibility
  /\ UNCHANGED <<lifecycleVars, solved, renderer, environment_credits, readAge, frame>>

-----------------------------------------------------------------------------
\* render_frame's effect on the source: a streaming one may fall back, which ends
\* its credits, or report others once an overlay opens.
SourceUpdate ==
  \/ UNCHANGED slotState /\ slotCredits' = slotCredits
  \/ /\ slotState = "STREAMING" /\ slotState' = "STREAMING_FALLBACK"
     /\ slotCredits' = NoCredit
  \/ /\ slotState = "STREAMING" /\ Kind[slot.uri] \in {"MAPBOX", "GOOGLE", "ION"}
     /\ UNCHANGED slotState /\ slotCredits' \in Credit

Aged(age) == IF age < Second THEN age + 1 ELSE age

\* environment_attribution_kind
AttributionKind(visible, uri, state, credits) ==
  IF ~visible \/ state # "STREAMING" THEN "NONE"
  ELSE IF Kind[uri] \in {"MAPBOX", "GOOGLE"} THEN Kind[uri]
  ELSE IF Kind[uri] = "ION" /\ credits # NoCredit THEN "CREDITS" ELSE "NONE"

\* Mutant: the second is counted strictly.
RefreshLate ==
  /\ environment_credits' = IF readAge = Second THEN slotCredits' ELSE environment_credits
  /\ readAge' = IF readAge = Second THEN 0 ELSE readAge + 1

\* refresh_environment_credits: read again once a second has passed.
RefreshCredits ==
  /\ environment_credits' = IF Aged(readAge) = Second THEN slotCredits' ELSE environment_credits
  /\ readAge' = IF Aged(readAge) = Second THEN 0 ELSE Aged(readAge)

\* Credits, attribution (environment_attribution on) and the image, after a frame
\* that rendered.
Publish ==
  /\ RefreshCredits
  /\ frame' = [tiles |-> IF environmentVisible /\ slotState' = "STREAMING"
                           THEN slot.uri ELSE "none",
               credits |-> environment_credits',
               attribution |-> AttributionKind(
                 EffectivelyVisible(render_mode, environment_enabled),
                 environment_source_uri, slotState', environment_credits')]

\* timer_callback: a frame that does not render ends it before the credits.
Tick ==
  /\ lifecycle = "active"
  /\ SourceUpdate
  /\ slot' = slot
  /\ creditsAge' = IF slotCredits' = slotCredits THEN Aged(creditsAge) ELSE 0
  /\ \/ Publish
     \/ /\ readAge' = Aged(readAge)
        /\ UNCHANGED <<environment_credits, frame>>
  /\ UNCHANGED <<lifecycleVars, params, solved, renderer, environmentVisible>>

Next ==
  \/ Configure \/ Activate \/ Deactivate \/ Cleanup \/ Shutdown
  \/ Fix
  \/ \E mode \in Mode : SetMode(mode)
  \/ \E enabled \in BOOLEAN : SetEnvironmentEnabled(enabled)
  \/ \E u \in Uri : SwitchSource(u)
  \/ Tick

Spec == Init /\ [][Next]_vars

-----------------------------------------------------------------------------
\* The attribution a frame owes for the tiles in it.
Owed(tiles, credits) ==
  IF tiles = "none" THEN "NONE"
  ELSE AttributionKind(TRUE, tiles, "STREAMING", credits)

\* Every image carries the attribution of the tiles in it, and no other: though the
\* node decides it from its own parameters, whatever order of switches that failed,
\* mode changes, fallbacks, deactivations and configurations led here.
FramesAreAttributed == frame.attribution = Owed(frame.tiles, frame.credits)

\* The environment shows exactly in free look and when enabled, in every state the
\* timer can fire in: the mode changes by topic and by parameter, active or not.
VisibilityFollowsMode ==
  lifecycle = "active" =>
    environmentVisible = EffectivelyVisible(render_mode, environment_enabled)

\* What is in an image, what is said of it and what the node's mode asks for agree: the
\* node decides each from its own copy of the other parts' state.
FramesMatchTheMode == FramesAreAttributed /\ VisibilityFollowsMode

\* The credits in a frame are those the source reports, once it has reported them
\* for a second, frames that failed to render included.
CreditsSettle ==
  [][Publish /\ creditsAge' = Second => frame'.credits = slotCredits']_vars

\* profile_authoring.md: "A row you add there takes effect on the next on_configure()
\* (node restart or lifecycle reconfigure)": a transition never ends in an error.
ReconfigureWorks == result # "error"
=============================================================================
