-------------------------- MODULE RendererParts_proofs -------------------------
(***************************************************************************)
(* Safety of the environment slot, for every set of sources and pieces,    *)
(* and of the scene buffer, for every content and every set of themes.     *)
(* The slot's inductive invariant adds to OnlyTheSlotIsDrawn that the source in   *)
(* the slot carries the remembered visibility, that a source never opened  *)
(* has nothing, and that a drawn frame without the plane names a source    *)
(* whose evidence stands.                                                  *)
(***************************************************************************)
EXTENDS RendererParts, Sequences, TLAPS

SlotIsOpened ==
  /\ slot # NoSource => slot \in opened /\ visible[slot] = environmentVisible
  /\ \A s \in Source : s \notin opened => loaded[s] = {}

\* Only a source that is sampled ever has a hit, or a sample under way.
OnlySampledIsHit ==
  \A s \in Source : s \notin Sampled => ~groundHit[s] /\ ~asked[s] /\ ~inFlight[s]

PictureHasEvidence ==
  ~picture.plane => picture.slot \in Replacing /\ groundHit[picture.slot]

Inv == TypeOK /\ SlotIsOpened /\ OnlyTheSlotIsDrawn /\ OnlySampledIsHit /\ PictureHasEvidence

-----------------------------------------------------------------------------
\* What an update does to the source in the slot, whichever branch it takes.
Updated(s) ==
  \E pieces \in SUBSET Piece :
    /\ loaded' = [loaded EXCEPT ![s] = pieces]
    /\ drawn' = [drawn EXCEPT ![s] = IF visible[s] THEN pieces ELSE {}]
    /\ visible' = visible

\* The flags an update may move, and how.
LEMMA UpdateFlags ==
  ASSUME TypeOK, OnlySampledIsHit, NEW s \in Source, Update(s)
  PROVE  /\ Updated(s)
         /\ fallen' \in [Source -> BOOLEAN] /\ groundHit' \in [Source -> BOOLEAN]
         /\ inFlight' \in [Source -> BOOLEAN] /\ asked' \in [Source -> BOOLEAN]
         /\ \A t \in Source : groundHit[t] => groundHit'[t]
         /\ OnlySampledIsHit'
<1>. USE SourceAssumption
<1>1. PICK pieces \in SUBSET Piece :
        \/ UpdateBaked(s, pieces)
        \/ FallBack(s, pieces)
        \/ \E due \in BOOLEAN, answer \in Answers : Stream(s, due, answer, pieces)
  BY DEF Update
<1>2. Updated(s)
  BY <1>1 DEF UpdateBaked, FallBack, Stream, UpdatePieces, Updated
<1>3. CASE UpdateBaked(s, pieces)
  BY <1>2, <1>3 DEF UpdateBaked, TypeOK, OnlySampledIsHit
<1>4. CASE FallBack(s, pieces)
  BY <1>2, <1>4 DEF FallBack, TypeOK, OnlySampledIsHit
<1>5. CASE \E due \in BOOLEAN, answer \in Answers : Stream(s, due, answer, pieces)
  <2>1. PICK due \in BOOLEAN, answer \in Answers : Stream(s, due, answer, pieces)
    BY <1>5
  <2>. DEFINE triggered == Triggered(s, due)
  <2>2. triggered \in BOOLEAN /\ (triggered => s \in Sampled)
    BY DEF Triggered
  <2>3. /\ answer # "none" => asked[s] \/ triggered
        /\ groundHit' = [groundHit EXCEPT ![s] = groundHit[s] \/ answer = "hit"]
        /\ inFlight' = [inFlight EXCEPT ![s] =
                          IF answer = "none" THEN inFlight[s] \/ triggered ELSE FALSE]
        /\ asked' = [asked EXCEPT ![s] = (asked[s] \/ triggered) /\ answer = "none"]
        /\ fallen' = fallen
    BY <2>1 DEF Stream, Handlers
  <2>. HIDE DEF triggered
  <2>4. OnlySampledIsHit'
    BY <2>2, <2>3 DEF OnlySampledIsHit, TypeOK
  <2>. QED  BY <1>2, <2>2, <2>3, <2>4 DEF TypeOK
<1>. QED  BY <1>1, <1>3, <1>4, <1>5

-----------------------------------------------------------------------------
LEMMA InitInv == Init => Inv
<1>. QED  BY SourceAssumption DEF Init, Inv, TypeOK, Picture, SlotIsOpened, OnlyTheSlotIsDrawn,
               OnlySampledIsHit, PictureHasEvidence

LEMMA SwapInv ==
  ASSUME Inv, NEW s \in Source, SetEnvironmentSource(s)
  PROVE  Inv'
<1>. USE SourceAssumption DEF Inv, SetEnvironmentSource, Swap
<1>1. TypeOK'
  BY DEF TypeOK
<1>2. SlotIsOpened'
  BY DEF TypeOK, SlotIsOpened
<1>3. OnlyTheSlotIsDrawn'
  BY DEF TypeOK, SlotIsOpened, OnlyTheSlotIsDrawn
<1>4. OnlySampledIsHit' /\ PictureHasEvidence'
  BY DEF OnlySampledIsHit, PictureHasEvidence
<1>. QED  BY <1>1, <1>2, <1>3, <1>4

LEMMA VisibleInv ==
  ASSUME Inv, NEW v \in BOOLEAN, SetEnvironmentVisible(v)
  PROVE  Inv'
<1>. USE SourceAssumption DEF Inv, SetEnvironmentVisible
<1>1. TypeOK'
  BY DEF TypeOK
<1>2. SlotIsOpened'
  BY DEF TypeOK, SlotIsOpened
<1>3. OnlyTheSlotIsDrawn'
  BY DEF TypeOK, OnlyTheSlotIsDrawn
<1>4. OnlySampledIsHit' /\ PictureHasEvidence'
  BY DEF OnlySampledIsHit, PictureHasEvidence
<1>. QED  BY <1>1, <1>2, <1>3, <1>4

\* Everything a frame preserves, and what it leaves the plane's rule with.
LEMMA FrameInv ==
  ASSUME Inv, NEW egoValid \in BOOLEAN, NEW drawable \in BOOLEAN, Frame(egoValid, drawable)
  PROVE  /\ Inv'
         /\ \A s \in Source : groundHit[s] => groundHit'[s]
         /\ slot' = slot /\ environmentVisible' = environmentVisible
<1>. USE SourceAssumption
<1>1. /\ plane' = ~HideGround
      /\ picture' = IF drawable THEN [plane |-> plane', slot |-> slot] ELSE picture
      /\ slot' = slot /\ environmentVisible' = environmentVisible /\ opened' = opened
  BY DEF Frame
<1>2. /\ fallen' \in [Source -> BOOLEAN] /\ groundHit' \in [Source -> BOOLEAN]
      /\ inFlight' \in [Source -> BOOLEAN] /\ asked' \in [Source -> BOOLEAN]
      /\ \A t \in Source : groundHit[t] => groundHit'[t]
      /\ OnlySampledIsHit'
      /\ visible' = visible
      /\ loaded' \in [Source -> SUBSET Piece] /\ drawn' \in [Source -> SUBSET Piece]
      /\ \A t \in Source : t # slot => loaded'[t] = loaded[t] /\ drawn'[t] = drawn[t]
      /\ slot # NoSource => drawn'[slot] = IF visible[slot] THEN loaded'[slot] ELSE {}
  <2>1. CASE egoValid /\ slot # NoSource
    <3>1. slot \in Source /\ Update(slot)
      BY <2>1 DEF Frame, Inv, TypeOK
    <3>2. Updated(slot)
      BY <3>1, UpdateFlags DEF Inv
    <3>3. /\ visible' = visible
          /\ loaded' \in [Source -> SUBSET Piece] /\ drawn' \in [Source -> SUBSET Piece]
          /\ \A t \in Source : t # slot => loaded'[t] = loaded[t] /\ drawn'[t] = drawn[t]
          /\ drawn'[slot] = IF visible[slot] THEN loaded'[slot] ELSE {}
      BY <3>1, <3>2 DEF Updated, Inv, TypeOK
    <3>. QED  BY <3>1, <3>3, UpdateFlags DEF Inv
  <2>2. CASE ~(egoValid /\ slot # NoSource)
    <3>1. UNCHANGED source
      BY <2>2 DEF Frame
    <3>. QED  BY <3>1 DEF source, Inv, TypeOK, SlotIsOpened, OnlyTheSlotIsDrawn, OnlySampledIsHit
  <2>. QED  BY <2>1, <2>2
<1>3. plane' \in BOOLEAN
  BY <1>1 DEF HideGround
<1>4. picture' \in Picture
  BY <1>1, <1>3 DEF Inv, TypeOK, Picture
<1>5. TypeOK'
  BY <1>1, <1>2, <1>3, <1>4 DEF Inv, TypeOK
<1>6. SlotIsOpened'
  BY <1>1, <1>2 DEF Inv, SlotIsOpened, TypeOK
<1>7. OnlyTheSlotIsDrawn'
  BY <1>1, <1>2 DEF Inv, OnlyTheSlotIsDrawn, SlotIsOpened, TypeOK
<1>8. PictureHasEvidence'
  <2>1. CASE drawable
    BY <1>1, <2>1 DEF HideGround, ProvidesGround, PictureHasEvidence
  <2>2. CASE ~drawable
    BY <1>1, <1>2, <2>2 DEF Inv, PictureHasEvidence, TypeOK
  <2>. QED  BY <2>1, <2>2
<1>. QED  BY <1>1, <1>2, <1>5, <1>6, <1>7, <1>8 DEF Inv

LEMMA NextInv ==
  ASSUME Inv, [Next]_vars
  PROVE  Inv'
<1>1. CASE \E s \in Source : SetEnvironmentSource(s)
  BY <1>1, SwapInv
<1>2. CASE \E v \in BOOLEAN : SetEnvironmentVisible(v)
  BY <1>2, VisibleInv
<1>3. CASE \E egoValid, drawable \in BOOLEAN : Frame(egoValid, drawable)
  BY <1>3, FrameInv
<1>4. CASE UNCHANGED vars
  BY <1>4 DEF vars, source, Inv, TypeOK, SlotIsOpened, OnlyTheSlotIsDrawn, OnlySampledIsHit,
              PictureHasEvidence
<1>. QED  BY <1>1, <1>2, <1>3, <1>4 DEF Next

\* The invariant holds in every reachable state.
THEOREM SlotInvariant == Spec => []Inv
<1>. QED  BY InitInv, NextInv, PTL DEF Spec

\* The scene never holds a piece of a source that is not in the slot, nor any piece
\* of a hidden one, and holds all of the visible one's.
THEOREM SlotOnlyTheSlotIsDrawn == Spec => []OnlyTheSlotIsDrawn
<1>1. Inv => OnlyTheSlotIsDrawn
  BY DEF Inv
<1>. QED  BY <1>1, SlotInvariant, PTL

\* No frame loses its floor: one step of the specification from the invariant.
THEOREM SlotFloorUnderEveryFrame == Spec => FloorUnderEveryFrame
<1>1. ASSUME Inv, NEW egoValid \in BOOLEAN, Frame(egoValid, TRUE)
      PROVE  plane' \/ HasFloor'
  <2>1. SUFFICES ASSUME ~plane' PROVE HasFloor'
    OBVIOUS
  <2>2. /\ slot \in Replacing /\ slot # NoSource /\ environmentVisible
        /\ ~fallen'[slot] /\ groundHit'[slot]
    BY <1>1, <2>1 DEF Frame, HideGround, ProvidesGround
  <2>3. Inv' /\ slot' = slot /\ environmentVisible' = environmentVisible
    BY <1>1, FrameInv
  <2>4. slot \in Source
    BY <1>1, <2>2 DEF Inv, TypeOK
  <2>5. slot \in Sampled
    BY <2>2, <2>3, <2>4 DEF Inv, OnlySampledIsHit
  <2>6. drawn'[slot] = loaded'[slot]
    BY <2>2, <2>3, <2>4 DEF Inv, OnlyTheSlotIsDrawn
  <2>. QED  BY <2>2, <2>3, <2>5, <2>6 DEF HasFloor
<1>2. Inv /\ [Next]_vars
        => [\A egoValid \in BOOLEAN : Frame(egoValid, TRUE) => plane' \/ HasFloor']_vars
  BY <1>1
<1>. QED  BY <1>2, SlotInvariant, PTL DEF Spec, FloorUnderEveryFrame

\* The plane does not flicker, since evidence once found is never taken back.
THEOREM SlotPlaneStaysHidden == Spec => PlaneStaysHidden
<1>1. ASSUME Inv, [Next]_vars, ~picture.plane, picture'.plane
      PROVE  slot # picture.slot \/ ~environmentVisible \/ fallen'[slot]
  <2>1. PICK egoValid, drawable \in BOOLEAN : Frame(egoValid, drawable)
    BY <1>1 DEF Next, vars, SetEnvironmentSource, SetEnvironmentVisible
  <2>2. picture' = [plane |-> plane', slot |-> slot] /\ plane' = ~HideGround
    BY <1>1, <2>1 DEF Frame
  <2>3. plane' = TRUE
    BY <1>1, <2>2
  <2>4. picture.slot \in Replacing /\ groundHit[picture.slot]
    BY <1>1 DEF Inv, PictureHasEvidence
  <2>5. groundHit'[picture.slot]
    BY <1>1, <2>1, <2>4, FrameInv, SourceAssumption
  <2>. QED  BY <2>2, <2>3, <2>4, <2>5, SourceAssumption DEF HideGround, ProvidesGround
<1>2. Inv /\ [Next]_vars
        => [~picture.plane /\ picture'.plane
              => slot # picture.slot \/ ~environmentVisible \/ fallen'[slot]]_vars
  BY <1>1
<1>. QED  BY <1>2, SlotInvariant, PTL DEF Spec, PlaneStaysHidden

THEOREM SlotGroundUnderEveryFrame == Spec => GroundUnderEveryFrame
BY SlotFloorUnderEveryFrame, SlotPlaneStaysHidden, PTL DEF GroundUnderEveryFrame

-----------------------------------------------------------------------------
\* The view of each slot leads into the slot's own copy, and the slot shown holds what
\* was published last.
BufferInv ==
  /\ active_idx \in 0..1
  /\ buffer \in [0..1 -> [own : Content, itemsAt : 0..1, pointsAt : 0..1]]
  /\ caller \in Content
  /\ \A i \in 0..1 : buffer[i].itemsAt = i /\ buffer[i].pointsAt = i
  /\ buffer[active_idx].own = published

LEMMA FramesInit == RendererInit => BufferInv
<1>. SUFFICES ASSUME RendererInit PROVE BufferInv
  OBVIOUS
<1>1. Frames!Nothing \in Content
  BY RendererConstants DEF Frames!Nothing
<1>. QED  BY <1>1 DEF RendererInit, Frames!Init, Frames!EmptyScene, BufferInv

LEMMA FramesNext == BufferInv /\ [RendererNext]_rendererVars => BufferInv'
<1>. SUFFICES ASSUME BufferInv, [RendererNext]_rendererVars PROVE BufferInv'
  OBVIOUS
<1>. USE DEF BufferInv
<1>1. CASE UNCHANGED frameVars
  BY <1>1 DEF frameVars
<1>2. CASE Frames!CallerWrites
  BY <1>2 DEF Frames!CallerWrites
<1>3. ASSUME NEW dt \in 0..Duration, Frames!SetScene(dt)
      PROVE  BufferInv'
  BY <1>3 DEF Frames!SetScene, Frames!Assign
<1>4. ASSUME NEW t \in Theme, NEW ahead \in 0..1, Frames!SetTheme(t, ahead)
      PROVE  BufferInv'
  BY <1>4 DEF Frames!SetTheme, Frames!bufferVars
<1>5. CASE Frames!RenderFrame
  BY <1>5 DEF Frames!RenderFrame, Frames!bufferVars
<1>6. Frames!Next => BufferInv'
  BY <1>2, <1>3, <1>4, <1>5 DEF Frames!Next
<1>. QED  BY <1>1, <1>6 DEF RendererNext, rendererVars

\* A frame shows the scene as it was when it was published, whatever the caller has done
\* to its arrays since (OwnedScene::assign, SceneBuffer::publish).
THEOREM RendererSceneIsFrozen == RendererSpec => []SceneIsFrozen
<1>1. BufferInv => SceneIsFrozen
  BY DEF BufferInv, SceneIsFrozen, Frames!SceneIsFrozen, Frames!Deref, Frames!CallerMemory
<1>. QED  BY <1>1, FramesInit, FramesNext, PTL DEF RendererSpec

\* What the slot's part promises, the renderer promises: the other parts leave it alone.
THEOREM RendererImplementsSlot == RendererSpec => Spec
<1>1. RendererInit => Init
  BY DEF RendererInit
<1>2. [RendererNext]_rendererVars => [Next]_vars
  BY DEF RendererNext, rendererVars
<1>. QED  BY <1>1, <1>2, PTL DEF RendererSpec, Spec

-----------------------------------------------------------------------------
\* The life of a renderer.  Where each kind of resource comes in destroy_renderer, and
\* where those that every renderer has come in create_renderer.
Place ==
  [objectFades |-> 1, objectInstances |-> 2, objectPools |-> 3, arrowMesh |-> 4,
   objectClassInstances |-> 5, ribbonSlots |-> 6, ribbonFades |-> 7, alertSlots |-> 8,
   alertFades |-> 9, alertInstances |-> 10, markerFades |-> 11, markerEntities |-> 12,
   markerAssets |-> 13, markerColors |-> 14, markerInstance |-> 15, markerMeshes |-> 16,
   mapFades |-> 17, clayTranslucent |-> 18, environment |-> 19, egoAsset |-> 20, loader |-> 21,
   egoFallback |-> 22, ground |-> 23, grid |-> 24, mapMeshes |-> 25, clayInstances |-> 26,
   buildingInstance |-> 27, terrain |-> 28, placeholder |-> 29, ribbonInstances |-> 30,
   ribbonEmissive |-> 31, ribbonFaded |-> 32, groundGridSlots |-> 33, groundGridTextures |-> 34,
   groundGridInstances |-> 35, groundGridRamps |-> 36, groundGrid |-> 37, heightGridSlots |-> 38,
   heightGridFades |-> 39, heightGridInstance |-> 40, heightGridRamp |-> 41, heightGrid |-> 42,
   heightGridFaded |-> 43, bowl |-> 44, cameraTextures |-> 45, splats |-> 46,
   splatInstance |-> 47, splat |-> 48, pointClouds |-> 49, pointCloudInstance |-> 50,
   pointCloud |-> 51, carpets |-> 52, carpetInstance |-> 53, carpet |-> 54,
   carpetFadedInstance |-> 55, carpetFaded |-> 56, groundInstances |-> 57, groundClay |-> 58,
   groundLines |-> 59, clay |-> 60, clayFaded |-> 61, ambient |-> 62, colorGrading |-> 63,
   sun |-> 64, camera |-> 65, view |-> 66, scene |-> 67, renderer |-> 68, swapChain |-> 69,
   engine |-> 70, platform |-> 71]

Born ==
  [platform |-> 1, engine |-> 2, swapChain |-> 3, renderer |-> 4, scene |-> 5, view |-> 6,
   colorGrading |-> 7, camera |-> 8, sun |-> 9, clay |-> 10, clayFaded |-> 11, groundClay |-> 12,
   groundLines |-> 13, groundInstances |-> 14, clayInstances |-> 15, clayTranslucent |-> 16,
   objectClassInstances |-> 17, ribbonEmissive |-> 18, ribbonFaded |-> 19,
   ribbonInstances |-> 20, groundGrid |-> 21, groundGridInstances |-> 22, groundGridRamps |-> 23,
   heightGrid |-> 24, heightGridFaded |-> 25, heightGridInstance |-> 26, heightGridRamp |-> 27,
   pointCloud |-> 28, pointCloudInstance |-> 29, splat |-> 30, splatInstance |-> 31,
   carpet |-> 32, carpetInstance |-> 33, carpetFaded |-> 34, carpetFadedInstance |-> 35,
   alertInstances |-> 36, markerInstance |-> 37, buildingInstance |-> 38, terrain |-> 39,
   placeholder |-> 40, ambient |-> 41, ground |-> 42, grid |-> 43]

Kinds == DOMAIN Place
Order == Life!CreateCore \o Life!CreateOrder

\* Numbered lists one after another.
Numbered(q, S, numbers, first, n) ==
  /\ q \in Seq(S) /\ Len(q) = n
  /\ \A i \in 1..n : q[i] \in S /\ numbers[q[i]] = first + i

LEMMA NumberedChain ==
  ASSUME NEW S, NEW numbers, NEW a, NEW b, NEW f \in Nat, NEW m \in Nat, NEW n \in Nat,
         Numbered(a, S, numbers, f, m), Numbered(b, S, numbers, f + m, n)
  PROVE  Numbered(a \o b, S, numbers, f, m + n)
<1>. DEFINE q == a \o b
<1>1. /\ a \in Seq(S) /\ b \in Seq(S) /\ Len(a) = m /\ Len(b) = n
  BY DEF Numbered
<1>2. /\ q \in Seq(S) /\ Len(q) = m + n
      /\ \A i \in 1..m : q[i] = a[i]
      /\ \A i \in m + 1..m + n : q[i] = b[i - m]
  BY <1>1
<1>. HIDE DEF q
<1>3. ASSUME NEW i \in 1..m + n PROVE q[i] \in S /\ numbers[q[i]] = f + i
  <2>1. CASE i \in 1..m
    BY <1>2, <2>1 DEF Numbered
  <2>2. CASE i \notin 1..m
    <3>1. i \in m + 1..m + n /\ i - m \in 1..n /\ (f + m) + (i - m) = f + i
      BY <2>2
    <3>. QED  BY <1>2, <3>1 DEF Numbered
  <2>. QED  BY <2>1, <2>2
<1>. QED  BY <1>2, <1>3 DEF Numbered, q

\* The order of destruction has every kind at its place, and nothing else.
LEMMA DestroyListsAll == Numbered(Life!DestroyOrder, Kinds, Place, 0, 71)
<1>. DEFINE L == Life!DestroyLayers
            M == Life!DestroyModels
            G == Life!DestroyGrids
            C == Life!DestroyCore
<1>1. Numbered(L, Kinds, Place, 0, 18)
  <2>1. \A i \in 1..18 : L[i] \in Kinds /\ Place[L[i]] = 0 + i
    BY DEF Life!DestroyLayers, Place, Kinds
  <2>2. Len(L) = 18 /\ L = [i \in 1..18 |-> L[i]]
    BY DEF Life!DestroyLayers
  <2>. HIDE DEF L
  <2>3. L \in Seq(Kinds)
    BY <2>1, <2>2
  <2>. QED  BY <2>1, <2>2, <2>3 DEF Numbered
<1>2. Numbered(M, Kinds, Place, 18, 11)
  <2>1. \A i \in 1..11 : M[i] \in Kinds /\ Place[M[i]] = 18 + i
    BY DEF Life!DestroyModels, Place, Kinds
  <2>2. Len(M) = 11 /\ M = [i \in 1..11 |-> M[i]]
    BY DEF Life!DestroyModels
  <2>. HIDE DEF M
  <2>3. M \in Seq(Kinds)
    BY <2>1, <2>2
  <2>. QED  BY <2>1, <2>2, <2>3 DEF Numbered
<1>3. Numbered(G, Kinds, Place, 29, 27)
  <2>1. \A i \in 1..27 : G[i] \in Kinds /\ Place[G[i]] = 29 + i
    BY DEF Life!DestroyGrids, Place, Kinds
  <2>2. Len(G) = 27 /\ G = [i \in 1..27 |-> G[i]]
    BY DEF Life!DestroyGrids
  <2>. HIDE DEF G
  <2>3. G \in Seq(Kinds)
    BY <2>1, <2>2
  <2>. QED  BY <2>1, <2>2, <2>3 DEF Numbered
<1>4. Numbered(C, Kinds, Place, 56, 15)
  <2>1. \A i \in 1..15 : C[i] \in Kinds /\ Place[C[i]] = 56 + i
    BY DEF Life!DestroyCore, Place, Kinds
  <2>2. Len(C) = 15 /\ C = [i \in 1..15 |-> C[i]]
    BY DEF Life!DestroyCore
  <2>. HIDE DEF C
  <2>3. C \in Seq(Kinds)
    BY <2>1, <2>2
  <2>. QED  BY <2>1, <2>2, <2>3 DEF Numbered
<1>. HIDE DEF L, M, G, C
<1>5. Numbered(L \o M, Kinds, Place, 0, 29)
  <2>1. Numbered(L \o M, Kinds, Place, 0, 18 + 11)
    BY <1>1, <1>2, NumberedChain
  <2>. QED  BY <2>1
<1>6. Numbered(L \o M \o G, Kinds, Place, 0, 56)
  <2>1. Numbered((L \o M) \o G, Kinds, Place, 0, 29 + 27)
    BY <1>3, <1>5, NumberedChain
  <2>. QED  BY <2>1
<1>7. Numbered(L \o M \o G \o C, Kinds, Place, 0, 71)
  <2>1. Numbered((L \o M \o G) \o C, Kinds, Place, 0, 56 + 15)
    BY <1>4, <1>6, NumberedChain
  <2>. QED  BY <2>1
<1>. QED  BY <1>7 DEF Life!DestroyOrder, L, M, G, C

\* No two kinds have one place.
LEMMA PlacesDiffer ==
  \A k \in Kinds : Place[k] \in 1..71 /\ Life!DestroyOrder[Place[k]] = k
<1>1. \A i \in 1..71 : Life!DestroyOrder[i] \in Kinds /\ Place[Life!DestroyOrder[i]] = i
  <2>1. \A i \in 1..71 : Life!DestroyOrder[i] \in Kinds /\ Place[Life!DestroyOrder[i]] = 0 + i
    BY DestroyListsAll, Zenon DEF Numbered
  <2>2. \A i \in 1..71 : 0 + i = i
    OBVIOUS
  <2>. QED  BY ONLY <2>1, <2>2, Zenon
<1>2. \A k, l \in Kinds : Place[k] = Place[l] => k = l
  BY DEF Place, Kinds
<1>3. \A k \in Kinds : Place[k] \in 1..71
  BY DEF Place, Kinds
<1>. HIDE DEF Place, Kinds
<1>. QED  BY <1>1, <1>2, <1>3

\* Nothing is made of what is destroyed before it; and of what a thing may be bound to,
\* exactly the places named in Late are before it.
LEMMA UsesComeLater ==
  \A k \in Kinds : \A u \in Life!Uses(k) : u \in Kinds /\ Place[k] < Place[u]
BY DEF Place, Kinds, Life!Uses

LEMMA BoundComesLater ==
  \A k \in Kinds : \A u \in Life!BoundTo(k) :
    u \in Kinds /\ (<<k, u>> \in Life!Late <=> Place[u] < Place[k])
BY DEF Place, Kinds, Life!BoundTo, Life!Late

\* Of what every renderer has, all that a thing is made of is there before it.
Core == DOMAIN Born

LEMMA CreateListsAll == Numbered(Order, Core, Born, 0, 43)
<1>. DEFINE A == Life!CreateCore
            B == Life!CreateMaterials
            D == <<"ground", "grid">>
<1>1. Numbered(A, Core, Born, 0, 9)
  <2>1. \A i \in 1..9 : A[i] \in Core /\ Born[A[i]] = 0 + i
    BY DEF Life!CreateCore, Born, Core
  <2>2. Len(A) = 9 /\ A = [i \in 1..9 |-> A[i]]
    BY DEF Life!CreateCore
  <2>. HIDE DEF A
  <2>3. A \in Seq(Core)
    BY <2>1, <2>2
  <2>. QED  BY <2>1, <2>2, <2>3 DEF Numbered
<1>2. Numbered(B, Core, Born, 9, 32)
  <2>1. \A i \in 1..32 : B[i] \in Core /\ Born[B[i]] = 9 + i
    BY DEF Life!CreateMaterials, Born, Core
  <2>2. Len(B) = 32 /\ B = [i \in 1..32 |-> B[i]]
    BY DEF Life!CreateMaterials
  <2>. HIDE DEF B
  <2>3. B \in Seq(Core)
    BY <2>1, <2>2
  <2>. QED  BY <2>1, <2>2, <2>3 DEF Numbered
<1>3. Numbered(D, Core, Born, 41, 2)
  <2>1. \A i \in 1..2 : D[i] \in Core /\ Born[D[i]] = 41 + i
    BY DEF Born, Core
  <2>2. Len(D) = 2 /\ D = [i \in 1..2 |-> D[i]]
    OBVIOUS
  <2>. HIDE DEF D
  <2>3. D \in Seq(Core)
    BY <2>1, <2>2
  <2>. QED  BY <2>1, <2>2, <2>3 DEF Numbered
<1>. HIDE DEF A, B, D
<1>4. Numbered(B \o D, Core, Born, 9, 34)
  <2>1. Numbered(B \o D, Core, Born, 9, 32 + 2)
    BY <1>2, <1>3, NumberedChain
  <2>. QED  BY <2>1
<1>5. Numbered(A \o (B \o D), Core, Born, 0, 43)
  <2>1. Numbered(A \o (B \o D), Core, Born, 0, 9 + 34)
    BY <1>1, <1>4, NumberedChain
  <2>. QED  BY <2>1
<1>. QED  BY <1>5 DEF Order, Life!CreateOrder, A, B, D

LEMMA BornInOrder ==
  /\ \A k \in Core : Born[k] \in 1..43 /\ Order[Born[k]] = k
  /\ \A k \in Core : \A u \in Life!Uses(k) : u \in Core /\ Born[u] < Born[k]
  /\ Core \subseteq Kinds
<1>1. \A k, l \in Core : Born[k] = Born[l] => k = l
  BY DEF Born, Core
<1>2. \A k \in Core : Born[k] \in 1..43
  BY DEF Born, Core
<1>3. \A k \in Core : Order[Born[k]] = k
  <2>1. \A i \in 1..43 : Order[i] \in Core /\ Born[Order[i]] = i
    <3>1. \A i \in 1..43 : Order[i] \in Core /\ Born[Order[i]] = 0 + i
      BY CreateListsAll, Zenon DEF Numbered
    <3>2. \A i \in 1..43 : 0 + i = i
      OBVIOUS
    <3>. QED  BY ONLY <3>1, <3>2, Zenon
  <2>. HIDE DEF Born, Core
  <2>. QED  BY <1>1, <1>2, <2>1
<1>4. \A k \in Core : \A u \in Life!Uses(k) : u \in Core /\ Born[u] < Born[k]
  BY DEF Born, Core, Life!Uses
<1>5. Core \subseteq Kinds
  BY DEF Born, Core, Kinds, Place
<1>. QED  BY <1>2, <1>3, <1>4, <1>5

\* While the renderer comes up it has the first kinds of create_renderer, in use it has
\* all of these, and going down it has none whose place is past.
LifeInv ==
  /\ life \in {"none", "creating", "up", "destroying", "failed", "gone"}
  /\ pc \in Nat \ {0}
  /\ alive \subseteq Kinds
  /\ life \in {"none", "failed", "gone"} => alive = {}
  /\ life = "creating" => pc \in 2..43 /\ alive = {k \in Core : Born[k] < pc}
  /\ life = "up" => pc = 1 /\ Core \subseteq alive
  /\ life = "destroying" => alive # {}
  /\ life \in {"up", "destroying"} =>
       \A k \in alive : Place[k] >= pc
  /\ \A k \in alive : Life!Uses(k) \subseteq alive

LEMMA InitLifeInv == Life!Init => LifeInv
BY DEF Life!Init, LifeInv

LEMMA LazyKinds ==
  /\ Life!OnDemand \subseteq Kinds
  /\ {"loader", "egoFallback", "egoAsset"} \subseteq Kinds
  /\ Life!Uses("loader") \subseteq Core
  /\ Life!Uses("egoFallback") \subseteq Core
  /\ Life!Uses("egoAsset") \subseteq Core \cup {"loader"}
<1>1. Life!OnDemand \subseteq Kinds /\ {"loader", "egoFallback", "egoAsset"} \subseteq Kinds
  BY DEF Life!OnDemand, Life!Fades, Kinds, Place
<1>2. /\ Life!Uses("loader") \subseteq Core
      /\ Life!Uses("egoFallback") \subseteq Core
      /\ Life!Uses("egoAsset") \subseteq Core \cup {"loader"}
  BY DEF Life!Uses, Core, Born
<1>. QED  BY <1>1, <1>2

LEMMA PlatformIsFirst ==
  /\ {k \in Core : Born[k] < 2} = {"platform"} /\ Life!Uses("platform") = {}
  /\ "platform" \in Kinds /\ Core # {}
BY DEF Core, Born, Life!Uses, Kinds, Place

LEMMA CreateLifeInv == ASSUME LifeInv, Life!Create \/ Life!CreateFails PROVE LifeInv'
<1>1. CASE Life!CreateFails
  BY <1>1 DEF LifeInv, Life!CreateFails
<1>2. CASE life \in {"none", "failed"} /\ life' = "creating" /\ pc' = 2 /\ alive' = {"platform"}
  BY <1>2, PlatformIsFirst DEF LifeInv
<1>3. ASSUME life = "creating", pc <= Len(Order),
             alive' = alive \cup {Order[pc]},
             life' = IF pc = Len(Order) THEN "up" ELSE life,
             pc' = IF pc = Len(Order) THEN 1 ELSE pc + 1
      PROVE  LifeInv'
  <2>. DEFINE new == Order[pc]
  <2>1. pc \in 1..43 /\ Len(Order) = 43 /\ pc \in Nat /\ new \in Core /\ Born[new] = pc
    <3>0. Len(Order) = 43
      BY CreateListsAll, Zenon DEF Numbered
    <3>1. pc \in 1..43 /\ Len(Order) = 43 /\ pc \in Nat
      BY <1>3, <3>0 DEF LifeInv
    <3>2. Order[pc] \in Core /\ Born[Order[pc]] = 0 + pc
      BY <3>1, CreateListsAll, Zenon DEF Numbered
    <3>. QED  BY <3>1, <3>2
  <2>2. \A k \in Core : Born[k] \in 1..43 /\ Order[Born[k]] = k
    BY BornInOrder
  <2>3. alive = {k \in Core : Born[k] < pc}
    BY <1>3 DEF LifeInv
  <2>4. alive' = {k \in Core : Born[k] < pc + 1}
    <3>1. \A k \in Core : Born[k] = pc => k = new
      BY <2>2
    <3>. HIDE DEF new
    <3>. QED  BY <1>3, <2>1, <2>2, <2>3, <3>1 DEF new
  <2>5. alive' \subseteq Kinds
    BY <2>4, BornInOrder
  <2>6. \A k \in alive' : Life!Uses(k) \subseteq alive'
    <3>. SUFFICES ASSUME NEW k \in alive', NEW u \in Life!Uses(k) PROVE u \in alive'
      OBVIOUS
    <3>1. k \in Core /\ Born[k] < pc + 1 /\ u \in Core /\ Born[u] < Born[k]
      BY <2>4, BornInOrder
    <3>2. Born[u] < pc + 1
      BY <2>1, <2>2, <3>1
    <3>. QED  BY <2>4, <3>1, <3>2
  <2>7. CASE pc = 43
    <3>1. life' = "up" /\ pc' = 1
      BY <1>3, <2>1, <2>7
    <3>2. Core \subseteq alive'
      BY <2>2, <2>4, <2>7
    <3>3. \A k \in alive' : Place[k] >= 1
      BY <2>5, PlacesDiffer
    <3>. QED  BY <2>5, <2>6, <3>1, <3>2, <3>3 DEF LifeInv
  <2>8. CASE pc # 43
    <3>1. life' = "creating" /\ pc' = pc + 1 /\ pc + 1 \in 2..43
      BY <1>3, <2>1, <2>8
    <3>. QED  BY <2>4, <2>5, <2>6, <3>1 DEF LifeInv
  <2>. QED  BY <2>7, <2>8
<1>. QED  BY <1>1, <1>2, <1>3 DEF Life!Create, Order

\* In use, the renderer gets more, of what there is.
LEMMA MoreLifeInv ==
  ASSUME LifeInv, life = "up", NEW more \in SUBSET Kinds,
         \A k \in more : Life!Uses(k) \subseteq alive \cup more,
         alive' = alive \cup more, life' = life, pc' = pc
  PROVE  LifeInv'
<1>1. pc = 1 /\ Core \subseteq alive /\ alive \subseteq Kinds
  BY DEF LifeInv
<1>2. \A k \in Kinds : Place[k] >= 1
  BY PlacesDiffer
<1>3. alive' \subseteq Kinds /\ Core \subseteq alive'
  BY <1>1
<1>4. \A k \in alive' : Life!Uses(k) \subseteq alive'
  BY DEF LifeInv
<1>. QED  BY <1>1, <1>2, <1>3, <1>4 DEF LifeInv

LEMMA MakeLifeInv ==
  ASSUME LifeInv, Life!SetEgoModel \/ \E k \in Life!OnDemand : Life!Make(k)
  PROVE  LifeInv'
<1>1. ASSUME NEW k \in Life!OnDemand, Life!Make(k) PROVE LifeInv'
  <2>1. {k} \in SUBSET Kinds /\ \A j \in {k} : Life!Uses(j) \subseteq alive \cup {k}
    BY <1>1, LazyKinds DEF Life!Make
  <2>. QED  BY <1>1, <2>1, MoreLifeInv DEF Life!Make
<1>2. CASE Life!SetEgoModel
  <2>1. /\ life = "up" /\ life' = life /\ pc' = pc /\ Core \subseteq alive
        /\ alive' \in {alive \cup {"egoFallback"}, alive \cup {"loader", "egoFallback"},
                       alive \cup {"loader", "egoAsset"}}
    BY <1>2 DEF Life!SetEgoModel, LifeInv
  <2>2. PICK more \in {{"egoFallback"}, {"loader", "egoFallback"}, {"loader", "egoAsset"}} :
          alive' = alive \cup more
    BY <2>1
  <2>3. more \in SUBSET Kinds /\ \A k \in more : Life!Uses(k) \subseteq alive \cup more
    BY <2>1, <2>2, LazyKinds
  <2>. QED  BY <2>1, <2>2, <2>3, MoreLifeInv
<1>. QED  BY <1>1, <1>2

\* What may be bound to a thing that a step frees, while it is left.
LeftBound == \A u \in alive', v \in alive \ alive' : v \in Life!BoundTo(u) => <<u, v>> \in Life!Late

\* A step of the teardown frees the next there is, and what is left has its place after it.
LEMMA DestroyLifeInv == ASSUME LifeInv, Life!Destroy PROVE LifeInv' /\ LeftBound
<1>. DEFINE D == Life!DestroyOrder
<1>1. /\ life \in {"up", "destroying"}
      /\ life' = IF alive' = {} THEN "gone" ELSE "destroying"
  BY DEF Life!Destroy
<1>2. PICK i \in DOMAIN D : /\ i >= pc /\ D[i] \in alive
                            /\ \A j \in pc..(i - 1) : D[j] \notin alive
                            /\ alive' = alive \ {D[i]}
                            /\ pc' = i + 1
  BY DEF Life!Destroy
<1>3. i \in 1..71 /\ D[i] \in Kinds /\ Place[D[i]] = i
  <2>1. D \in Seq(Kinds) /\ Len(D) = 71
    BY DestroyListsAll DEF Numbered
  <2>2. i \in 1..71
    BY <1>2, <2>1
  <2>3. D[i] \in Kinds /\ Place[D[i]] = 0 + i
    BY <2>2, DestroyListsAll, Zenon DEF Numbered
  <2>. QED  BY <2>2, <2>3
<1>. HIDE DEF D
<1>4. /\ pc \in Nat \ {0} /\ alive \subseteq Kinds
      /\ \A k \in alive : Place[k] >= pc
      /\ \A k \in alive : Life!Uses(k) \subseteq alive
  BY <1>1 DEF LifeInv
<1>5. ASSUME NEW k \in alive' PROVE Place[k] > i /\ k \in Kinds /\ k \in alive
  <2>1. k \in alive /\ k \in Kinds /\ k # D[i] /\ Place[k] >= pc
    BY <1>2, <1>4
  <2>2. Place[k] \in 1..71 /\ D[Place[k]] = k
    BY <2>1, PlacesDiffer DEF D
  <2>3. Place[k] \notin pc..(i - 1)
    BY <1>2, <2>1, <2>2
  <2>. QED  BY <1>3, <1>4, <2>1, <2>2, <2>3
<1>6. ASSUME NEW k \in alive', NEW u \in Life!Uses(k) PROVE u \in alive'
  <2>1. k \in Kinds /\ Place[k] > i /\ u \in alive
    BY <1>4, <1>5
  <2>2. u \in Kinds /\ Place[k] < Place[u]
    BY <2>1, UsesComeLater
  <2>3. Place[k] \in 1..71 /\ Place[u] \in 1..71
    BY <2>1, <2>2, PlacesDiffer
  <2>4. u # D[i]
    BY <1>3, <2>1, <2>2, <2>3
  <2>. QED  BY <1>2, <2>1, <2>4
<1>7. pc' \in Nat \ {0} /\ \A k \in alive' : Place[k] >= pc'
  <2>1. \A k \in alive' : Place[k] \in 1..71 /\ Place[k] > i
    BY <1>5, PlacesDiffer
  <2>. QED  BY <1>2, <1>3, <2>1
<1>8. alive' \subseteq Kinds
  BY <1>5
<1>9. ASSUME NEW u \in alive', NEW v \in alive \ alive', v \in Life!BoundTo(u)
      PROVE  <<u, v>> \in Life!Late
  <2>1. v = D[i] /\ u \in Kinds /\ Place[u] > i
    BY <1>2, <1>5
  <2>2. v \in Kinds /\ Place[v] = i
    BY <1>3, <2>1
  <2>3. Place[u] \in 1..71
    BY <2>1, PlacesDiffer
  <2>4. Place[v] < Place[u]
    BY <1>3, <2>1, <2>2, <2>3
  <2>. QED  BY <1>9, <2>1, <2>4, BoundComesLater
<1>. QED  BY <1>1, <1>6, <1>7, <1>8, <1>9 DEF LifeInv, LeftBound

\* While the teardown goes on there is a step for it to take.
LEMMA TeardownGoesOn ==
  ASSUME LifeInv, life = "destroying"
  PROVE  \E i \in DOMAIN Life!DestroyOrder : i >= pc /\ Life!DestroyOrder[i] \in alive
<1>1. PICK k \in alive : k \in Kinds /\ Place[k] >= pc
  BY DEF LifeInv
<1>2. Place[k] \in 1..71 /\ Life!DestroyOrder[Place[k]] = k
  BY <1>1, PlacesDiffer
<1>3. DOMAIN Life!DestroyOrder = 1..71
  BY DestroyListsAll DEF Numbered
<1>. QED  BY <1>1, <1>2, <1>3

\* A step of the renderer keeps the invariant, and frees only what no longer matters.
LEMMA LifeNext == ASSUME LifeInv, [RendererNext]_rendererVars PROVE LifeInv' /\ LeftBound
<1>1. CASE UNCHANGED lifeVars
  BY <1>1 DEF lifeVars, LifeInv, LeftBound
<1>2. CASE Life!Create \/ Life!CreateFails
  <2>1. alive \ alive' = {} \/ alive' = {}
    BY <1>2 DEF LifeInv, Life!Create, Life!CreateFails
  <2>. QED  BY <1>2, <2>1, CreateLifeInv DEF LeftBound
<1>3. CASE Life!SetEgoModel \/ \E k \in Life!OnDemand : Life!Make(k)
  <2>1. alive \ alive' = {}
    BY <1>3 DEF Life!SetEgoModel, Life!Make
  <2>. QED  BY <1>3, <2>1, MakeLifeInv DEF LeftBound
<1>4. CASE Life!Destroy
  BY <1>4, DestroyLifeInv
<1>5. Life!Next \/ UNCHANGED lifeVars
  BY DEF RendererNext, rendererVars
<1>. QED  BY <1>1, <1>2, <1>3, <1>4, <1>5 DEF Life!Next

\* What the invariant says of what is left after a step.
LeftInOrder ==
  /\ \A u \in alive : Life!Uses(u) \subseteq alive
  /\ life \in {"failed", "gone"} => alive = {}
  /\ life = "destroying" =>
       \E i \in DOMAIN Life!DestroyOrder : i >= pc /\ Life!DestroyOrder[i] \in alive

LEMMA LifeInvMeans == LifeInv => LeftInOrder
<1>. QED  BY TeardownGoesOn DEF LifeInv, LeftInOrder

\* No step of the renderer frees what something left is made of or destroyed through, nor
\* what something may be bound to but at the places named in Late, whatever of the lazy
\* resources there is and however often a creation has failed (create_renderer,
\* destroy_renderer).
THEOREM RendererUsersGoFirst == RendererSpec => UsersGoFirst
<1>1. RendererInit => LifeInv
  BY InitLifeInv DEF RendererInit
<1>2. LifeInv /\ [RendererNext]_rendererVars => LifeInv' /\ LeftBound
  BY LifeNext
<1>3. LeftInOrder' /\ LeftBound => Life!FreesInOrder
  BY DEF LeftInOrder, LeftBound, Life!FreesInOrder
<1>4. LifeInv /\ [RendererNext]_rendererVars => [Life!FreesInOrder]_lifeVars
  <2>1. LifeInv' => LeftInOrder'
    BY LifeInvMeans, PTL
  <2>. QED  BY <1>2, <1>3, <2>1
<1>. QED  BY <1>1, <1>2, <1>4, PTL DEF RendererSpec, UsersGoFirst

-----------------------------------------------------------------------------
\* The parts together: what a run checks of the renderer, of all of them at once.
THEOREM RendererIsSafe ==
  RendererSpec => /\ [](OnlyTheSlotIsDrawn /\ SceneIsFrozen)
                  /\ GroundUnderEveryFrame
                  /\ UsersGoFirst
BY RendererImplementsSlot, SlotOnlyTheSlotIsDrawn, SlotGroundUnderEveryFrame,
   RendererSceneIsFrozen, RendererUsersGoFirst, PTL
=============================================================================
