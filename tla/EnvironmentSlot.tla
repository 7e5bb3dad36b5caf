--------------------------- MODULE EnvironmentSlot ---------------------------
(***************************************************************************)
(* The renderer's one environment source: the slot environment.cpp fills,  *)
(* the visibility flag it remembers, and the frame (renderer.cpp) that     *)
(* drives the source and hides the renderer's own ground plane once the    *)
(* source has proved, with a terrain height sample, that it has ground.    *)
(*                                                                         *)
(* A source is seen through EnvironmentSource's interface (loaded, drawn,  *)
(* visible); of a streaming one the height sampling and the network-loss   *)
(* fallback are kept as well.  All of it runs on the main thread; cesium,  *)
(* external, decides which pieces are loaded, when a sample is answered    *)
(* and when the network is lost.                                           *)
(***************************************************************************)
CONSTANTS
  Source,      \* sources that can be opened, each once
  Piece,       \* assets a source can show
  Streaming,   \* the sources with an ion:// or mapbox:// URI
  Sampled,     \* those whose terrain height is sampled (follow_terrain)
  Replacing,   \* those opened without replaces_ground=off
  NoSource

ASSUME SourceAssumption ==
  /\ NoSource \notin Source
  /\ Streaming \subseteq Source /\ Sampled \subseteq Streaming /\ Replacing \subseteq Streaming

VARIABLES
  slot,               \* environmentSource
  environmentVisible,
  plane,              \* the ground plane's entity is in the scene
  opened,             \* the sources opened so far
  visible, loaded, drawn,      \* EnvironmentSource, for every source
  fallen,             \* fallenBack_
  groundHit, inFlight,         \* TerrainFollowState
  asked,              \* cesium has yet to answer a source's height sample
  picture             \* the last frame drawn

source == <<visible, loaded, drawn, fallen, groundHit, inFlight, asked>>
vars == <<slot, environmentVisible, plane, opened, source, picture>>

\* What the properties keep of a frame: the plane, and the source it was drawn with.
Picture == [plane : BOOLEAN, slot : Source \cup {NoSource}]

TypeOK ==
  /\ slot \in Source \cup {NoSource}
  /\ environmentVisible \in BOOLEAN
  /\ plane \in BOOLEAN
  /\ opened \in SUBSET Source
  /\ visible \in [Source -> BOOLEAN]
  /\ loaded \in [Source -> SUBSET Piece]
  /\ drawn \in [Source -> SUBSET Piece]
  /\ fallen \in [Source -> BOOLEAN]
  /\ groundHit \in [Source -> BOOLEAN]
  /\ inFlight \in [Source -> BOOLEAN]
  /\ asked \in [Source -> BOOLEAN]
  /\ picture \in Picture

Init ==
  /\ slot = NoSource
  /\ environmentVisible = TRUE
  /\ plane = TRUE
  /\ opened = {}
  /\ visible = [s \in Source |-> TRUE]
  /\ loaded = [s \in Source |-> {}]
  /\ drawn = [s \in Source |-> {}]
  /\ fallen = [s \in Source |-> FALSE]
  /\ groundHit = [s \in Source |-> FALSE]
  /\ inFlight = [s \in Source |-> FALSE]
  /\ asked = [s \in Source |-> FALSE]
  /\ picture = [plane |-> TRUE, slot |-> NoSource]

-----------------------------------------------------------------------------
\* Mutant: the source replaced is dropped without a teardown.
SwapOnly(s) ==
  /\ visible' = [visible EXCEPT ![s] = environmentVisible]
  /\ UNCHANGED <<loaded, drawn>>

\* set_environment_source, once the new source is open: it is told the remembered
\* visibility before the one it replaces is torn down.
Swap(s) ==
  /\ visible' = [visible EXCEPT ![s] = environmentVisible]
  /\ loaded' = [t \in Source |-> IF t = slot THEN {} ELSE loaded[t]]
  /\ drawn' = [t \in Source |-> IF t = slot THEN {} ELSE drawn[t]]

\* A URI that does not open returns false and touches nothing: a stuttering step.
SetEnvironmentSource(s) ==
  /\ s \notin opened
  /\ Swap(s)
  /\ slot' = s
  /\ opened' = opened \cup {s}
  /\ UNCHANGED <<environmentVisible, plane, fallen, groundHit, inFlight, asked, picture>>

\* set_environment_visible: remembered, and passed on to the source in the slot.
SetEnvironmentVisible(v) ==
  /\ environmentVisible' = v
  /\ IF slot = NoSource
       THEN UNCHANGED <<visible, drawn>>
       ELSE /\ visible' = [visible EXCEPT ![slot] = v]
            /\ drawn' = [drawn EXCEPT ![slot] = IF v THEN loaded[slot] ELSE {}]
  /\ UNCHANGED <<slot, plane, opened, loaded, fallen, groundHit, inFlight, asked, picture>>

-----------------------------------------------------------------------------
\* update of a baked source, or of a source already on its fallback: any pieces.
UpdatePieces(s, pieces) ==
  /\ loaded' = [loaded EXCEPT ![s] = pieces]
  /\ drawn' = [drawn EXCEPT ![s] = IF visible[s] THEN pieces ELSE {}]
  /\ UNCHANGED <<visible>>

UpdateBaked(s, pieces) ==
  /\ s \notin Streaming \/ fallen[s]
  /\ UpdatePieces(s, pieces)
  /\ UNCHANGED <<fallen, groundHit, inFlight, asked>>

\* update after three failed requests: fall_back tears the tilesets down, which
\* drops the sample cesium still owed, and goes on with the baked source.
FallBack(s, pieces) ==
  /\ s \in Streaming /\ ~fallen[s]
  /\ fallen' = [fallen EXCEPT ![s] = TRUE]
  /\ asked' = [asked EXCEPT ![s] = FALSE]
  /\ UpdatePieces(s, pieces)
  /\ UNCHANGED <<groundHit, inFlight>>

Answers == {"none", "hit", "miss", "error"}

\* maybe_trigger_terrain_sample: one sample at a time; due is the ego's 5 m or the
\* 2 s since the last, and always true of the first.
Triggered(s, due) == s \in Sampled /\ due /\ ~inFlight[s]

\* Mutant: a sample that failed leaves in_flight set.
HandlersForgetError(s, answer, triggered) ==
  /\ groundHit' = [groundHit EXCEPT ![s] = groundHit[s] \/ answer = "hit"]
  /\ inFlight' = [inFlight EXCEPT ![s] =
                    IF answer \in {"hit", "miss"} THEN FALSE ELSE inFlight[s] \/ triggered]

\* Mutant: a miss takes the evidence back.
HandlersUnlatch(s, answer, triggered) ==
  /\ groundHit' = [groundHit EXCEPT ![s] =
                     IF answer = "none" THEN groundHit[s] ELSE answer = "hit"]
  /\ inFlight' = [inFlight EXCEPT ![s] =
                    IF answer = "none" THEN inFlight[s] \/ triggered ELSE FALSE]

\* The sample's thenInMainThread and catchInMainThread, run by the dispatch.
Handlers(s, answer, triggered) ==
  /\ groundHit' = [groundHit EXCEPT ![s] = groundHit[s] \/ answer = "hit"]
  /\ inFlight' = [inFlight EXCEPT ![s] =
                    IF answer = "none" THEN inFlight[s] \/ triggered ELSE FALSE]

\* update of a streaming source: perhaps a new sample, then the dispatch, in which
\* cesium may answer, then the pieces it selects.
Stream(s, due, answer, pieces) ==
  /\ s \in Streaming /\ ~fallen[s]
  /\ answer # "none" => asked[s] \/ Triggered(s, due)
  /\ Handlers(s, answer, Triggered(s, due))
  /\ asked' = [asked EXCEPT ![s] = (asked[s] \/ Triggered(s, due)) /\ answer = "none"]
  /\ UpdatePieces(s, pieces)
  /\ UNCHANGED fallen

Update(s) ==
  \E pieces \in SUBSET Piece :
    \/ UpdateBaked(s, pieces)
    \/ FallBack(s, pieces)
    \/ \E due \in BOOLEAN, answer \in Answers : Stream(s, due, answer, pieces)

\* Mutant: a fallen source still claims the ground its tileset had.
LatchedForEver(s) == s \in Replacing /\ groundHit'[s]

\* provides_ground, once the source is updated.
ProvidesGround(s) == s \in Replacing /\ ~fallen'[s] /\ groundHit'[s]

HideGround == slot # NoSource /\ environmentVisible /\ ProvidesGround(slot)

\* render_frame: the source is updated only under a valid ego, the plane follows,
\* and a frame of another size than the renderer's ends there, undrawn.
Frame(egoValid, drawable) ==
  /\ IF egoValid /\ slot # NoSource THEN Update(slot) ELSE UNCHANGED source
  /\ plane' = ~HideGround
  /\ picture' = IF drawable THEN [plane |-> plane', slot |-> slot] ELSE picture
  /\ UNCHANGED <<slot, environmentVisible, opened>>

Next ==
  \/ \E s \in Source : SetEnvironmentSource(s)
  \/ \E v \in BOOLEAN : SetEnvironmentVisible(v)
  \/ \E egoValid, drawable \in BOOLEAN : Frame(egoValid, drawable)

Spec == Init /\ [][Next]_vars

-----------------------------------------------------------------------------
\* Frames keep coming with a valid ego, and cesium, asked again and again, in the
\* end answers with a hit: the timer, and geometry under the ego.
TriggeringFrame(s) ==
  /\ slot = s
  /\ \E pieces \in SUBSET Piece, answer \in Answers : Stream(s, TRUE, answer, pieces)
  /\ Frame(TRUE, TRUE)

HitFrame(s) ==
  /\ slot = s
  /\ \E pieces \in SUBSET Piece, due \in BOOLEAN : Stream(s, due, "hit", pieces)
  /\ Frame(TRUE, TRUE)

Fairness == \A s \in Source : WF_vars(TriggeringFrame(s)) /\ SF_vars(HitFrame(s))

FairSpec == Spec /\ Fairness

-----------------------------------------------------------------------------
\* Every frame has a floor: the ground plane is missing only from a frame whose
\* source streams, is shown whole, and has had a hit of its own tileset under the
\* ego.  A source swapped in, a fallback or a hidden environment never inherits the
\* floor another source, or the same one before, had proved.
HasFloor ==
  /\ slot \in Replacing \cap Sampled
  /\ ~fallen[slot] /\ groundHit[slot]
  /\ environmentVisible /\ drawn[slot] = loaded[slot]

FloorUnderEveryFrame ==
  [][\A egoValid \in BOOLEAN : Frame(egoValid, TRUE) => plane' \/ HasFloor']_vars

\* What the scene shows of the environment is the source in the slot, all of it or
\* nothing as the remembered visibility says; no piece of a replaced source stays.
OnlyTheSlotIsDrawn ==
  \A s \in Source :
    drawn[s] = IF s = slot /\ environmentVisible THEN loaded[s] ELSE {}

\* The ground plane does not flicker: while one source stays in the slot, visible
\* and streaming, a frame without the plane is followed by frames without it.
PlaneStaysHidden ==
  [][/\ ~picture.plane /\ picture'.plane
     => \/ slot # picture.slot \/ ~environmentVisible \/ fallen'[slot]]_vars

\* A frame without the plane stands on ground the source it shows has proved, and the
\* plane does not come back while that source stays (render_frame, provides_ground).
GroundUnderEveryFrame == FloorUnderEveryFrame /\ PlaneStaysHidden

\* A height sample that fails or misses is asked again: a source that stays in the
\* slot with geometry under the ego in the end takes the plane's place.
GroundIsFound ==
  \A s \in Sampled :
    <>[](slot = s /\ ~fallen[s]) => <>groundHit[s]
=============================================================================
