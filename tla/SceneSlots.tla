------------------------------- MODULE SceneSlots -------------------------------
(***************************************************************************)
(* The layers of the scene that are drawn slot by slot: the ribbons        *)
(* (ribbon.cpp), the alert polygons (alert_polygons.cpp), the height grids *)
(* (height_grid.cpp), the generic markers (generic_markers.cpp), the       *)
(* velocity carpets (trajectory_carpet.cpp) and the point clouds           *)
(* (point_cloud.cpp).  The i-th item of the scene is drawn by the i-th     *)
(* slot, whatever the slot drew before.  A slot keeps its mesh while the   *)
(* item's signature stays the same, and a material instance of its own     *)
(* while the item is drawn faded; the carpets share one opaque and one     *)
(* faded instance, the clouds one with an alpha.                           *)
(*                                                                         *)
(* The layers meet in nothing but the theme, so a behaviour follows one.   *)
(* A shape is what a signature tells apart (the number of points, the first*)
(* and the last), and a mesh stands for the shape it was built from.  Left *)
(* out: the clip of ribbons and carpets at the ego, which moves vertices   *)
(* of a mesh that stays, the upload of heights, the colours of markers.    *)
(***************************************************************************)
EXTENDS Integers, FiniteSets

CONSTANTS
  MaxSlots,   \* bound on the items of a frame
  Shape,      \* what an item's points, cells or file may be
  Empty,      \* the shape nothing can be built from
  Loadable,   \* the shapes that, taken as a marker's file, load
  Fade,       \* material instances the engine may hand out
  Layer,      \* the layers followed
  None

\* Path roles, alert severities and marker primitives; a layer without has one.
Kind(l) ==
  CASE l = "ribbon" -> {"BEHAVIOR", "GLOBAL"}
    [] l = "alert"  -> {"info", "critical"}
    [] l = "marker" -> {"CUBE", "LINE_STRIP", "MESH", "unknown"}
    [] OTHER        -> {"one"}

\* staleness_alpha: one, in between, zero.
Age == {"fresh", "fading", "gone"}

SlotShape == Shape \cup {Empty}

Item(l) == [shape : SlotShape, kind : Kind(l), age : Age]

\* The theme's ribbon opacity is one; its ribbons fade along their length.
Theme == [opaque : BOOLEAN, lengthFade : BOOLEAN]

VARIABLES
  layer,
  theme,   \* VisualRenderer::active_theme
  slots,   \* the layer's slots; those above count are not there
  live,    \* the material instances that exist
  scene,   \* the items of the frame that have been met
  count,   \* how many the frame has
  at,      \* the next one
  hole,    \* VisualRenderer::groundHole is enabled
  busy     \* a frame is being updated

vars == <<layer, theme, slots, live, scene, count, at, hole, busy>>

\* sig: the signature, dimensions or file the mesh was built for.
\* faded: TrajectoryCarpetSlot::boundFaded.
NoSlot == [sig |-> None, kind |-> None, mesh |-> None, material |-> None,
           fade |-> None, alpha |-> "fresh", inScene |-> FALSE, faded |-> FALSE]

Init ==
  /\ layer \in Layer
  /\ theme \in Theme
  /\ slots = [i \in 1..MaxSlots |-> NoSlot]
  /\ live = {}
  /\ scene = [i \in 1..MaxSlots |-> None]
  /\ count = 0 /\ at = 1 /\ hole = FALSE /\ busy = FALSE

-----------------------------------------------------------------------------
\* A slot under update, with the instances that exist.
State == [slot |-> slots[at], live |-> live]

NewFade(s) == CHOOSE f \in Fade : f \notin s.live

DropFade(s) == [s EXCEPT !.live = @ \ {s.slot.fade}, !.slot.fade = None]

\* Nothing to rebind where there is no mesh.
Bind(s, m) == IF s.slot.mesh = None THEN s ELSE [s EXCEPT !.slot.material = m]

\* The own instance is made on the first faded frame and destroyed, after the
\* template has been bound again, on the first that is not.
Fading(s, plain, template, age) ==
  IF plain
  THEN [(IF s.slot.fade = None THEN s ELSE DropFade(Bind(s, template)))
          EXCEPT !.slot.alpha = "fresh"]
  ELSE IF s.slot.fade # None THEN [s EXCEPT !.slot.alpha = age]
  ELSE LET f == NewFade(s) IN
       [Bind(s, f) EXCEPT !.slot.fade = f, !.live = @ \cup {f}, !.slot.alpha = age]

Built(s, sig, kind, shape) ==
  [s EXCEPT !.slot.sig = sig, !.slot.kind = kind,
            !.slot.mesh = IF shape = Empty THEN None ELSE shape,
            !.slot.material = IF shape = Empty THEN None ELSE kind,
            !.slot.inScene = shape # Empty]

\* A ribbon or a carpet of age a is drawn without blending.
Plain(a) == a = "fresh" /\ theme.opaque /\ ~theme.lengthFade

\* Mutant: the rebuilt ribbon keeps the instance of the one before.
RibbonKeepsFade(s, m) ==
  LET sig == <<m.kind, m.shape, theme.lengthFade>>
      b == IF s.slot.sig = sig THEN s ELSE Built(s, sig, m.kind, m.shape)
  IN Fading(b, Plain(m.age), b.slot.kind, m.age)

Ribbon(s, m) ==
  LET sig == <<m.kind, m.shape, theme.lengthFade>>
      b == IF s.slot.sig = sig THEN s ELSE Built(DropFade(s), sig, m.kind, m.shape)
  IN Fading(b, Plain(m.age), b.slot.kind, m.age)

Alert(s, m) ==
  LET sig == <<m.kind, m.shape>>
      b == IF s.slot.sig = sig THEN s ELSE Built(DropFade(s), sig, m.kind, m.shape)
  IN Fading(b, m.age = "fresh", b.slot.kind, m.age)

\* The mesh of a grid that is gone stays, out of the scene.
Height(s, m) ==
  IF m.shape = Empty
  THEN [DropFade(s) EXCEPT !.slot = NoSlot]
  ELSE LET b == IF s.slot.mesh # None /\ s.slot.sig = m.shape THEN s
                ELSE [Built(DropFade(s), m.shape, m.kind, m.shape) EXCEPT !.slot.inScene = FALSE]
           f == Fading(b, m.age # "fading", m.kind, m.age)
       IN [f EXCEPT !.slot.inScene = m.age # "gone"]

\* Mutant: the signature of the released marker's points survives it.
ReleasedKeepsSignature(s) == [DropFade(s) EXCEPT !.slot = [NoSlot EXCEPT !.sig = s.slot.sig]]

Released(s) == [DropFade(s) EXCEPT !.slot = NoSlot]

\* A cube is shared geometry; points are compared by signature; a file is
\* loaded once, and a box stands in for one that does not load.
MarkerGeometry(s, m) ==
  CASE m.kind = "CUBE" ->
         IF s.slot.mesh # None THEN s ELSE Built(s, None, m.kind, m.kind)
    [] m.kind = "LINE_STRIP" ->
         IF s.slot.sig = m.shape THEN s ELSE Built(s, m.shape, m.kind, m.shape)
    [] m.kind = "MESH" ->
         IF s.slot.sig = m.shape /\ s.slot.mesh # None THEN s
         ELSE Built(s, m.shape, m.kind, IF m.shape \in Loadable THEN m.shape ELSE "box")

\* Every frame binds again, after the instance not needed any more is gone.
MarkerMaterial(s, m) ==
  IF m.age = "fresh"
  THEN [Bind(DropFade(s), m.kind) EXCEPT !.slot.alpha = "fresh"]
  ELSE LET f == IF s.slot.fade = None THEN NewFade(s) ELSE s.slot.fade IN
       [Bind(s, f) EXCEPT !.slot.fade = f, !.live = @ \cup {f}, !.slot.alpha = m.age]

Marker(s, m) ==
  IF m.kind = "unknown" THEN Released(s)
  ELSE LET r == IF s.slot.kind = m.kind THEN s
                ELSE [Released(s) EXCEPT !.slot.kind = m.kind]
       IN MarkerMaterial(MarkerGeometry(r, m), m)

\* Built anew, a carpet is bound to the opaque instance.
Carpet(s, m) ==
  LET sig == <<m.shape, theme.lengthFade>> IN
  IF s.slot.sig = sig THEN s
  ELSE [Built(s, sig, "opaque", m.shape) EXCEPT !.slot.faded = FALSE]

\* All clouds are bound to one instance; the points of the first, if empty, leave no mesh.
Cloud(s, m) == IF s.slot.sig = m.shape THEN s ELSE Built(s, m.shape, m.kind, m.shape)

\* The slot after it has met item m.
Meets(m) ==
  CASE layer = "ribbon" -> Ribbon(State, m)
    [] layer = "alert"  -> Alert(State, m)
    [] layer = "height" -> Height(State, m)
    [] layer = "marker" -> Marker(State, m)
    [] layer = "carpet" -> Carpet(State, m)
    [] layer = "cloud"  -> Cloud(State, m)

\* The slots above the new count are destroyed with their instances; the theme
\* has been blended before the layers are updated.
BeginFrame(n, t) ==
  /\ ~busy
  /\ theme' = t
  /\ slots' = [i \in 1..MaxSlots |-> IF i > n THEN NoSlot ELSE slots[i]]
  /\ live' = live \ {slots[i].fade : i \in n+1..MaxSlots}
  /\ scene' = [i \in 1..MaxSlots |-> None]
  /\ count' = n /\ at' = 1 /\ busy' = TRUE
  /\ UNCHANGED <<layer, hole>>

UpdateSlot(m) ==
  /\ busy /\ at <= count
  /\ Fade \ live # {}
  /\ slots' = [slots EXCEPT ![at] = Meets(m).slot]
  /\ live' = Meets(m).live
  /\ scene' = [scene EXCEPT ![at] = m]
  /\ at' = at + 1
  /\ UNCHANGED <<layer, theme, count, hole, busy>>

Present == {i \in 1..MaxSlots : i <= count}

\* The freshest of the frame's carpets or clouds; with none the alpha is one.
Freshest ==
  IF count = 0 \/ \E i \in Present : scene[i].age = "fresh" THEN "fresh"
  ELSE IF \E i \in Present : scene[i].age = "fading" THEN "fading" ELSE "gone"

\* The carpets that are not bound to the instance the frame wants are rebound.
Rebound(s, want) ==
  IF s.faded = want THEN s
  ELSE [s EXCEPT !.faded = want,
                 !.material = IF s.mesh = None THEN None
                              ELSE IF want THEN "faded" ELSE "opaque"]

\* update_ground_hole: the ground and its grid are left out under the first height grid.
GroundHole ==
  /\ layer = "height" /\ count > 0
  /\ scene[1].shape # Empty /\ scene[1].age # "gone"

EndFrame ==
  /\ busy /\ at > count
  /\ slots' = [i \in 1..MaxSlots |->
                IF i \notin Present THEN slots[i]
                ELSE CASE layer = "carpet" -> Rebound(slots[i], ~Plain(Freshest))
                       [] layer = "cloud" -> [slots[i] EXCEPT !.alpha = Freshest]
                       [] OTHER -> slots[i]]
  /\ hole' = GroundHole
  /\ busy' = FALSE
  /\ UNCHANGED <<layer, theme, live, scene, count, at>>

Next ==
  \/ \E n \in 0..MaxSlots, t \in Theme : BeginFrame(n, t)
  \/ \E m \in Item(layer) : UpdateSlot(m)
  \/ EndFrame

Spec == Init /\ [][Next]_vars

-----------------------------------------------------------------------------
\* A slot's mesh is bound to the slot's own instance while it has one and to
\* the template of what it draws otherwise, and the instances that exist are
\* those the slots hold, one each: none is leaked, shared, or destroyed while
\* drawn, whatever the slot drew before (ribbon.cpp update_ribbons,
\* alert_polygons.cpp, height_grid.cpp clear_slot, generic_markers.cpp).
SlotMaterial ==
  /\ \A i \in 1..MaxSlots : slots[i].mesh # None /\ layer # "carpet" =>
       slots[i].material = IF slots[i].fade = None THEN slots[i].kind ELSE slots[i].fade
  /\ live = {slots[i].fade : i \in 1..MaxSlots} \ {None}
  /\ \A i, j \in 1..MaxSlots : slots[i].fade = slots[j].fade /\ i # j => slots[i].fade = None

\* What the item of slot i should look like.
Mesh(m) ==
  CASE layer = "marker" /\ m.kind = "unknown" -> None
    [] layer = "marker" /\ m.kind = "CUBE" -> "CUBE"
    [] layer = "marker" /\ m.kind = "MESH" -> IF m.shape \in Loadable THEN m.shape ELSE "box"
    [] OTHER -> IF m.shape = Empty THEN None ELSE m.shape

Wanted(m) ==
  CASE layer = "ribbon" -> IF Plain(m.age) THEN "opaque" ELSE m.age
    [] layer = "carpet" -> IF Plain(Freshest) THEN "opaque" ELSE "blended"
    [] layer = "cloud" -> Freshest
    [] layer = "height" /\ m.age = "gone" -> "absent"
    [] OTHER -> IF m.age = "fresh" THEN "opaque" ELSE m.age

Seen(s) ==
  IF ~s.inScene THEN "absent"
  ELSE IF layer = "carpet" THEN (IF s.material = "faded" THEN "blended" ELSE "opaque")
  ELSE IF layer = "cloud" \/ s.material \in Fade THEN s.alpha ELSE "opaque"

\* After a frame each slot draws the item of its place, of its shape and kind,
\* opaque, fading or not at all as the item's age and the theme ask, and
\* nothing its predecessors left (the update_ functions of the six layers); and
\* the ground is open exactly under a first height grid that is drawn, which two
\* functions decide apart (update_height_grids, update_ground_hole).
DrawsTheScene ==
  ~busy =>
    /\ \A i \in Present :
         LET s == slots[i] m == scene[i] IN
         /\ s.mesh = Mesh(m)
         /\ s.mesh # None => Seen(s) = Wanted(m)
         /\ s.mesh # None /\ layer # "carpet" => s.kind = m.kind
    /\ hole <=> layer = "height" /\ slots[1].mesh # None /\ slots[1].inScene
=============================================================================
