--------------------------- MODULE NodeParts_proofs ---------------------------
(***************************************************************************)
(* The node's environment layer, for every set of URIs and credits and     *)
(* every length of the credits' second.  A frame's attribution is decided  *)
(* from the node's parameters and owed for the renderer's source, so the   *)
(* inductive invariant ties the two: an open source is the one the         *)
(* parameter names, none is open before configuration, and the visibility  *)
(* is the mode's while the node is active.  The rows of the profile come   *)
(* after it.                                                               *)
(***************************************************************************)
EXTENDS NodeParts, WellFoundedInduction, TLAPS

SourceIsNamed ==
  /\ slot.open => slot.uri = environment_source_uri
  /\ slotState = "STREAMING" => slot.open
  /\ lifecycle = "unconfigured" => ~slot.open /\ (layer_param_cb => ~solved)
  /\ layer_param_cb => declared /\ result # "failure"

ActiveHasRenderer ==
  /\ lifecycle \in {"inactive", "active"} => renderer
  /\ lifecycle = "active" =>
       environmentVisible = EffectivelyVisible(render_mode, environment_enabled)

\* Credits that differ from the source's were read before these last changed.
CreditsAreOlder == environment_credits = slotCredits \/ creditsAge <= readAge

Inv ==
  /\ TypeOK
  /\ SourceIsNamed
  /\ ActiveHasRenderer
  /\ CreditsAreOlder
  /\ FramesAreAttributed

-----------------------------------------------------------------------------
LEMMA EmptySlot ==
  Empty \in [uri : Uri, open : BOOLEAN] /\ ~Empty.open
BY NodeAssumption DEF Empty

LEMMA InitInv == Init => Inv
<1>. SUFFICES ASSUME Init PROVE Inv
  OBVIOUS
<1>. USE NodeAssumption, EmptySlot DEF Init
<1>1. TypeOK
  <2>1. frame \in [tiles : Uri \cup {"none"}, credits : Credit, attribution : Attribution]
    BY DEF Attribution
  <2>2. 0 \in 0..Second /\ Second \in 0..Second
    OBVIOUS
  <2>3. slot \in [uri : Uri, open : BOOLEAN]
    OBVIOUS
  <2>. QED  BY <2>1, <2>2, <2>3 DEF TypeOK, Mode
<1>2. SourceIsNamed /\ ActiveHasRenderer /\ CreditsAreOlder
  BY DEF SourceIsNamed, ActiveHasRenderer, CreditsAreOlder, EffectivelyVisible
<1>3. FramesAreAttributed
  BY DEF FramesAreAttributed, Owed
<1>. QED  BY <1>1, <1>2, <1>3 DEF Inv

LEMMA ConfigureInv == ASSUME Inv, Configure PROVE Inv'
<1>. USE NodeAssumption DEF Inv, Configure, lifecycleVars, params, slotVars
<1>1. CASE declared
  <2>. USE <1>1 DEF ConfigureThrows
  <2>1. TypeOK'
    BY DEF TypeOK
  <2>2. SourceIsNamed' /\ ActiveHasRenderer' /\ CreditsAreOlder' /\ FramesAreAttributed'
    BY DEF SourceIsNamed, ActiveHasRenderer, CreditsAreOlder, FramesAreAttributed
  <2>. QED  BY <2>1, <2>2
<1>2. CASE ~declared /\ ConfigureOk
  <2>. USE <1>2 DEF ConfigureOk, ReadParams
  <2>1. TypeOK'
    BY DEF TypeOK
  <2>2. SourceIsNamed' /\ ActiveHasRenderer' /\ CreditsAreOlder' /\ FramesAreAttributed'
    BY DEF SourceIsNamed, ActiveHasRenderer, CreditsAreOlder, FramesAreAttributed
  <2>. QED  BY <2>1, <2>2
<1>3. CASE ~declared /\ ConfigureRejects
  <2>. USE <1>3 DEF ConfigureRejects, ReadParams
  <2>1. TypeOK'
    BY DEF TypeOK
  <2>2. SourceIsNamed' /\ ActiveHasRenderer' /\ CreditsAreOlder' /\ FramesAreAttributed'
    BY DEF SourceIsNamed, ActiveHasRenderer, CreditsAreOlder, FramesAreAttributed
  <2>. QED  BY <2>1, <2>2
<1>. QED  BY <1>1, <1>2, <1>3

\* Opening a source the parameter names keeps what is said of the slot.
LEMMA OpenSlot ==
  ASSUME TypeOK, NEW u \in Uri, Open(u)
  PROVE  /\ slot' \in [uri : Uri, open : BOOLEAN] /\ slot'.open /\ slot'.uri = u
         /\ slotState' \in {"NONE", "BAKED", "STREAMING", "STREAMING_FALLBACK"}
         /\ slotCredits' \in Credit /\ creditsAge' = 0 /\ creditsAge' \in 0..Second
         /\ (readAge' = readAge => CreditsAreOlder')
BY NodeAssumption DEF Open, Opened, TypeOK, CreditsAreOlder

LEMMA ActivateInv == ASSUME Inv, Activate PROVE Inv'
<1>. USE NodeAssumption DEF params
<1>1. /\ lifecycle = "inactive" /\ lifecycle' = "active" /\ result' = "success"
      /\ UNCHANGED <<declared, layer_param_cb, solved, renderer, environment_credits, readAge,
                     frame, render_mode, environment_enabled, environment_source_uri>>
      /\ ApplyVisibility
      /\ Open(environment_source_uri) \/ UNCHANGED slotVars
  BY DEF Activate, SetSource
<1>2. renderer /\ environmentVisible' = EffectivelyVisible(render_mode, environment_enabled)
  BY <1>1 DEF Inv, ActiveHasRenderer, ApplyVisibility
<1>3. ActiveHasRenderer' /\ environmentVisible' \in BOOLEAN
  BY <1>1, <1>2 DEF Inv, TypeOK, ActiveHasRenderer, EffectivelyVisible
<1>4. FramesAreAttributed'
  BY <1>1 DEF Inv, FramesAreAttributed
<1>5. CASE Open(environment_source_uri)
  <2>1. environment_source_uri \in Uri
    BY DEF Inv, TypeOK
  <2>2. TypeOK'
    BY <1>1, <1>3, <1>5, <2>1, OpenSlot DEF Inv, TypeOK
  <2>3. SourceIsNamed' /\ CreditsAreOlder'
    BY <1>1, <1>5, <2>1, OpenSlot DEF Inv, SourceIsNamed
  <2>. QED  BY <1>3, <1>4, <2>2, <2>3 DEF Inv
<1>6. CASE UNCHANGED slotVars
  BY <1>1, <1>3, <1>4, <1>6 DEF Inv, TypeOK, slotVars, SourceIsNamed, CreditsAreOlder
<1>. QED  BY <1>1, <1>5, <1>6

LEMMA LeaveInv == ASSUME Inv, Deactivate \/ Cleanup \/ Shutdown PROVE Inv'
<1>. USE NodeAssumption DEF Inv, params, slotVars
<1>1. CASE Deactivate
  <2>. USE <1>1 DEF Deactivate
  <2>1. TypeOK'
    BY DEF TypeOK
  <2>2. SourceIsNamed' /\ ActiveHasRenderer' /\ CreditsAreOlder' /\ FramesAreAttributed'
    BY DEF SourceIsNamed, ActiveHasRenderer, CreditsAreOlder, FramesAreAttributed
  <2>. QED  BY <2>1, <2>2
<1>2. CASE Cleanup \/ Shutdown
  <2>. USE <1>2, EmptySlot DEF Cleanup, Shutdown, DestroyRenderer
  <2>1. TypeOK'
    <3>1. 0 \in 0..Second
      OBVIOUS
    <3>2. slot' \in [uri : Uri, open : BOOLEAN] /\ slotCredits' \in Credit /\ creditsAge' = 0
      OBVIOUS
    <3>. QED  BY <3>1, <3>2 DEF TypeOK
  <2>2. SourceIsNamed' /\ ActiveHasRenderer'
    BY DEF SourceIsNamed, ActiveHasRenderer
  <2>3. CreditsAreOlder' /\ FramesAreAttributed'
    BY DEF CreditsAreOlder, FramesAreAttributed, TypeOK
  <2>. QED  BY <2>1, <2>2, <2>3
<1>. QED  BY <1>1, <1>2

LEMMA FixInv == ASSUME Inv, Fix PROVE Inv'
<1>. USE NodeAssumption DEF Inv, Fix, lifecycleVars, params, slotVars
<1>1. TypeOK'
  BY DEF TypeOK
<1>2. SourceIsNamed' /\ ActiveHasRenderer' /\ CreditsAreOlder' /\ FramesAreAttributed'
  BY DEF SourceIsNamed, ActiveHasRenderer, CreditsAreOlder, FramesAreAttributed
<1>. QED  BY <1>1, <1>2

\* Whatever changed the mode or the flag, the visibility follows.
LEMMA AppliedVisibility ==
  ASSUME Inv, ApplyVisibility, lifecycle' = lifecycle, renderer' = renderer,
         render_mode' \in Mode, environment_enabled' \in BOOLEAN
  PROVE  ActiveHasRenderer' /\ environmentVisible' \in BOOLEAN
BY DEF Inv, TypeOK, ActiveHasRenderer, ApplyVisibility, EffectivelyVisible

LEMMA SetInv ==
  ASSUME Inv, \/ \E mode \in Mode : SetMode(mode)
              \/ \E enabled \in BOOLEAN : SetEnvironmentEnabled(enabled)
  PROVE  Inv'
<1>. USE NodeAssumption DEF lifecycleVars, slotVars
<1>1. /\ render_mode' \in Mode /\ environment_enabled' \in BOOLEAN
      /\ ApplyVisibility
      /\ UNCHANGED <<lifecycle, result, declared, layer_param_cb, environment_source_uri, solved,
                     renderer, slot, slotState, slotCredits, creditsAge, environment_credits,
                     readAge, frame>>
  BY DEF SetMode, ModeChange, SetEnvironmentEnabled, Inv, TypeOK
<1>2. ActiveHasRenderer' /\ environmentVisible' \in BOOLEAN
  BY <1>1, AppliedVisibility
<1>3. TypeOK'
  BY <1>1, <1>2 DEF Inv, TypeOK
<1>4. SourceIsNamed' /\ CreditsAreOlder' /\ FramesAreAttributed'
  BY <1>1 DEF Inv, SourceIsNamed, CreditsAreOlder, FramesAreAttributed
<1>. QED  BY <1>2, <1>3, <1>4 DEF Inv

LEMMA SwitchInv == ASSUME Inv, NEW u \in Uri, SwitchSource(u) PROVE Inv'
<1>. USE NodeAssumption DEF lifecycleVars, slotVars
<1>1. /\ solved /\ layer_param_cb
      /\ UNCHANGED <<render_mode, environment_enabled, lifecycle, result, declared,
                     layer_param_cb, solved, renderer, environment_credits, readAge, frame>>
      /\ ApplyVisibility
      /\ \/ environment_source_uri' = u /\ Open(u)
         \/ UNCHANGED <<environment_source_uri, slot, slotState, slotCredits, creditsAge>>
  BY DEF SwitchSource, Switch
<1>2. ActiveHasRenderer' /\ environmentVisible' \in BOOLEAN
  BY <1>1, AppliedVisibility DEF Inv, TypeOK
<1>3. FramesAreAttributed'
  BY <1>1 DEF Inv, FramesAreAttributed
<1>4. CASE environment_source_uri' = u /\ Open(u)
  <2>1. TypeOK'
    BY <1>1, <1>2, <1>4, OpenSlot DEF Inv, TypeOK
  <2>2. SourceIsNamed' /\ CreditsAreOlder'
    BY <1>1, <1>4, OpenSlot DEF Inv, SourceIsNamed
  <2>. QED  BY <1>2, <1>3, <2>1, <2>2 DEF Inv
<1>5. CASE UNCHANGED <<environment_source_uri, slot, slotState, slotCredits, creditsAge>>
  BY <1>1, <1>2, <1>3, <1>5 DEF Inv, TypeOK, SourceIsNamed, CreditsAreOlder
<1>. QED  BY <1>1, <1>4, <1>5

-----------------------------------------------------------------------------
\* The kind a frame carries is the kind it owes, when the parameters name the source.
LEMMA KindIsOwed ==
  ASSUME NEW visible \in BOOLEAN, NEW uri \in Uri, NEW credits, NEW state, "none" \notin Uri
  PROVE  AttributionKind(visible, uri, state, credits)
           = Owed(IF visible /\ state = "STREAMING" THEN uri ELSE "none", credits)
BY DEF AttributionKind, Owed

LEMMA KindType ==
  ASSUME NEW visible, NEW uri \in Uri, NEW state, NEW credits
  PROVE  AttributionKind(visible, uri, state, credits) \in Attribution
BY DEF AttributionKind, Attribution

LEMMA RefreshOlder ==
  ASSUME Inv, RefreshCredits, slotCredits' \in Credit,
         creditsAge' = IF slotCredits' = slotCredits THEN Aged(creditsAge) ELSE 0
  PROVE  /\ environment_credits' \in Credit /\ readAge' \in 0..Second
         /\ CreditsAreOlder'
         /\ creditsAge' = Second => environment_credits' = slotCredits'
BY NodeAssumption DEF Inv, TypeOK, RefreshCredits, Aged, CreditsAreOlder

LEMMA TickInv == ASSUME Inv, Tick PROVE Inv'
<1>. USE NodeAssumption
<1>1. /\ UNCHANGED <<lifecycle, result, declared, layer_param_cb, render_mode,
                     environment_enabled, environment_source_uri, solved, renderer,
                     environmentVisible, slot>>
      /\ lifecycle = "active"
      /\ SourceUpdate
      /\ creditsAge' = IF slotCredits' = slotCredits THEN Aged(creditsAge) ELSE 0
  BY DEF Tick, lifecycleVars, params
<1>2. /\ slotState' \in {"NONE", "BAKED", "STREAMING", "STREAMING_FALLBACK"}
      /\ slotCredits' \in Credit
      /\ slotState' = "STREAMING" => slotState = "STREAMING"
  BY <1>1 DEF SourceUpdate, Inv, TypeOK
<1>3. creditsAge' \in 0..Second
  BY <1>1 DEF Inv, TypeOK, Aged
<1>4. SourceIsNamed'
  BY <1>1, <1>2 DEF Inv, SourceIsNamed
<1>5. ActiveHasRenderer'
  BY <1>1 DEF Inv, ActiveHasRenderer
<1>6. CASE Publish
  <2>1. /\ environment_credits' \in Credit /\ readAge' \in 0..Second
        /\ CreditsAreOlder'
    BY <1>1, <1>2, <1>6, RefreshOlder DEF Publish
  <2>. DEFINE shown == EffectivelyVisible(render_mode, environment_enabled)
              tiles == IF environmentVisible /\ slotState' = "STREAMING"
                         THEN slot.uri ELSE "none"
              kind == AttributionKind(shown, environment_source_uri, slotState',
                                      environment_credits')
  <2>2. frame' = [tiles |-> tiles, credits |-> environment_credits', attribution |-> kind]
    BY <1>6 DEF Publish
  <2>3. environment_source_uri \in Uri /\ slot.uri \in Uri /\ shown \in BOOLEAN
    BY DEF Inv, TypeOK, EffectivelyVisible
  <2>4. kind \in Attribution /\ tiles \in Uri \cup {"none"}
    BY <2>3, KindType
  <2>5. frame' \in [tiles : Uri \cup {"none"}, credits : Credit, attribution : Attribution]
    BY <2>1, <2>2, <2>4
  <2>6. tiles = IF shown /\ slotState' = "STREAMING" THEN environment_source_uri ELSE "none"
    BY <1>1, <1>2 DEF Inv, ActiveHasRenderer, SourceIsNamed
  <2>7. kind = Owed(tiles, environment_credits')
    BY <2>3, <2>6, KindIsOwed, NodeAssumption
  <2>8. FramesAreAttributed'
    BY <2>2, <2>7 DEF FramesAreAttributed, Owed, AttributionKind
  <2>9. TypeOK'
    BY <1>1, <1>2, <1>3, <2>1, <2>5 DEF Inv, TypeOK
  <2>. QED  BY <1>4, <1>5, <2>1, <2>8, <2>9 DEF Inv
<1>7. CASE readAge' = Aged(readAge) /\ UNCHANGED <<environment_credits, frame>>
  <2>1. TypeOK'
    BY <1>1, <1>2, <1>3, <1>7 DEF Inv, TypeOK, Aged
  <2>2. CreditsAreOlder' /\ FramesAreAttributed'
    BY <1>1, <1>7 DEF Inv, TypeOK, CreditsAreOlder, FramesAreAttributed, Aged
  <2>. QED  BY <1>4, <1>5, <2>1, <2>2 DEF Inv
<1>. QED  BY <1>6, <1>7 DEF Tick

LEMMA NextInv == ASSUME Inv, [Next]_vars PROVE Inv'
<1>1. CASE Next
  BY <1>1, ConfigureInv, ActivateInv, LeaveInv, FixInv, SetInv, SwitchInv, TickInv DEF Next
<1>2. CASE UNCHANGED vars
  BY <1>2 DEF vars, lifecycleVars, params, slotVars, Inv, TypeOK, SourceIsNamed,
              ActiveHasRenderer, CreditsAreOlder, FramesAreAttributed
<1>. QED  BY <1>1, <1>2

\* The invariant holds in every reachable state.
THEOREM NodeInvariant == Spec => []Inv
<1>. QED  BY InitInv, NextInv, PTL DEF Spec

\* Every published frame carries exactly the attribution of the tiles in it.
THEOREM NodeFramesAreAttributed == Spec => []FramesAreAttributed
<1>1. Inv => FramesAreAttributed
  BY DEF Inv
<1>. QED  BY <1>1, NodeInvariant, PTL

\* While the timer runs, the environment is visible exactly as the mode says.
THEOREM NodeVisibilityFollowsMode == Spec => []VisibilityFollowsMode
<1>1. Inv => VisibilityFollowsMode
  BY DEF Inv, ActiveHasRenderer, VisibilityFollowsMode
<1>. QED  BY <1>1, NodeInvariant, PTL

\* Both together: what an image shows, what is said of it and what the mode asks for agree.
THEOREM NodeFramesMatchTheMode == Spec => []FramesMatchTheMode
<1>1. FramesAreAttributed /\ VisibilityFollowsMode => FramesMatchTheMode
  BY DEF FramesMatchTheMode
<1>. QED  BY <1>1, NodeFramesAreAttributed, NodeVisibilityFollowsMode, PTL

\* A frame's credits are the source's, once these have stood for a second of ticks:
\* only the timer publishes, since a read always moves environment_credits_read_sec_.
THEOREM NodeCreditsSettle == Spec => CreditsSettle
<1>. USE NodeAssumption
<1>1. ASSUME Inv, Next, Publish, creditsAge' = Second
      PROVE  frame'.credits = slotCredits'
  <2>1. readAge' # readAge
    BY <1>1 DEF Publish, RefreshCredits, Aged, Inv, TypeOK
  <2>2. Tick
    BY <1>1, <2>1 DEF Next, Configure, Activate, Deactivate, Cleanup, Shutdown, Fix, SetMode,
                      SetEnvironmentEnabled, SwitchSource
  <2>3. /\ RefreshCredits
        /\ creditsAge' = IF slotCredits' = slotCredits THEN Aged(creditsAge) ELSE 0
    BY <1>1, <2>2 DEF Publish, Tick
  <2>4. slotCredits' \in Credit
    BY <1>1, <2>2 DEF Tick, SourceUpdate, Inv, TypeOK
  <2>5. environment_credits' = slotCredits'
    BY <1>1, <2>3, <2>4, RefreshOlder
  <2>. QED  BY <1>1, <2>5 DEF Publish
<1>2. Inv /\ [Next]_vars
        => [Publish /\ creditsAge' = Second => frame'.credits = slotCredits']_vars
  BY <1>1
<1>. QED  BY <1>2, NodeInvariant, PTL DEF Spec, CreditsSettle
-----------------------------------------------------------------------------
(* A row of the profile.  What is drawn was judged by the ages of the last   *)
(* timer, so the inductive invariant bounds each age by the age of the last  *)
(* message: what a message stores is as old as it, the map's receipts are    *)
(* younger by less than a gap, a marker has outlived its lifetime by no more *)
(* than the silence, and the surface of a lane is younger than its cache.    *)

\* What has a box has its text, or waits for the end of the array for it.
Named ==
  adapter = "dynamic_objects" =>
    \A k \in Key : store[k] # None /\ store[k].age # None /\ ~store[k].named
      => busy /\ k \in touched

\* The three times of the map: a receipt is at most a gap younger than what has
\* been accepted last, and nothing is there before that.
Receipts ==
  /\ adapter # "hd_map" => recvAge = None /\ rebuildAge = None
  /\ rebuildAge # None => /\ rebuildAge = msgAge
                          /\ recvAge # None /\ recvAge <= rebuildAge
                          /\ ~busy => rebuildAge <= recvAge + MinGap
  /\ rebuildAge = None /\ ~busy => recvAge = None
  /\ adapter = "hd_map" /\ busy => recvAge = 0

NothingYet ==
  /\ rebuildAge = None => /\ \A l \in Lane : cache[l] = None /\ drawn[l] = "absent"
                          /\ adapter = "hd_map" => \A k \in Key : drawn[k] = "absent"
  /\ rebuildAge = None /\ adapter = "hd_map" /\ ~busy => \A k \in Key : store[k] = None

\* Between messages nothing stored is younger than the last message.
NoYounger ==
  adapter # "hd_map" /\ ~busy =>
    \A k \in Key : store[k] # None /\ store[k].age # None => store[k].age >= msgAge

\* A marker past its lifetime has outlived it for less than the topic is silent.
Outlives ==
  adapter = "generic_marker" =>
    \A k \in Key : store[k] # None =>
      /\ store[k].age # None
      /\ store[k].life # None => /\ busy => store[k].age < store[k].life
                                 /\ ~busy => store[k].age < store[k].life + msgAge

DrawnInTime == \A x \in Key \cup Lane : drawn[x] # "absent" => msgAge <= Timeout

VisibleInTime ==
  msgAge > 0 /\ (adapter = "hd_map" => recvAge = rebuildAge) =>
    \A x \in Key \cup Lane : drawn[x] \in {"opaque", "fading"} => msgAge < Timeout

Rails ==
  \A l \in Lane :
    /\ cache[l] # None => railAge[l] # None /\ railAge[l] <= cache[l]
    /\ drawn[l] # "absent" => railAge[l] # None /\ railAge[l] <= 2 * Timeout

RowInv ==
  /\ RowTypeOK /\ Named /\ Receipts /\ NothingYet /\ NoYounger /\ Outlives
  /\ DrawnInTime /\ VisibleInTime /\ Rails

LEMMA Ages ==
  /\ Age \subseteq Nat /\ 0 \in Age /\ None \notin Age
  /\ \A n \in Lifetime : n \in Nat /\ n > 0
BY RowConstants DEF Age

LEMMA StoredParts ==
  ASSUME NEW i \in Stored
  PROVE  /\ i # None
         /\ i.age # None => i.age \in Age
         /\ i.life # None => i.life \in Lifetime
         /\ i.named \in BOOLEAN
BY RowConstants DEF Stored

LEMMA OlderAge ==
  /\ Older(None) = None
  /\ \A a \in Age : /\ Older(a) \in Age /\ Older(a) # None
                    /\ a <= Older(a) /\ Older(a) <= a + 1 /\ Older(a) > 0
                    /\ a < Horizon => Older(a) = a + 1
BY RowConstants DEF Older, Age

LEMMA OlderMonotone ==
  ASSUME NEW a \in Age, NEW b \in Age, a <= b
  PROVE  Older(a) <= Older(b)
BY RowConstants DEF Older, Age

LEMMA RowInitInv == RowInit => RowInv
<1> SUFFICES ASSUME RowInit PROVE RowInv
  OBVIOUS
<1> USE RowConstants DEF RowInit
<1>1. RowTypeOK
  <2>1. 0 \in Age
    BY DEF Age
  <2>2. QED BY <2>1 DEF RowTypeOK
<1>2. Named /\ Receipts /\ NothingYet /\ NoYounger /\ Outlives
  BY DEF Named, Receipts, NothingYet, NoYounger, Outlives
<1>3. DrawnInTime /\ VisibleInTime /\ Rails
  BY DEF DrawnInTime, VisibleInTime, Rails
<1>4. QED BY <1>1, <1>2, <1>3 DEF RowInv

\* A message that stores nothing.
LEMMA QuietInv ==
  ASSUME RowInv, ReceiveNothing \/ ReceiveThrottled
  PROVE  RowInv'
<1>1. CASE ReceiveNothing
  BY <1>1 DEF ReceiveNothing, RowInv, RowTypeOK, Named, Receipts, NothingYet, NoYounger,
              Outlives, DrawnInTime, VisibleInTime, Rails
<1>2. CASE ReceiveThrottled
  <2> USE <1>2, RowConstants DEF ReceiveThrottled, RowInv
  <2>1. RowTypeOK'
    BY DEF RowTypeOK, Age
  <2>2. Receipts'
    BY DEF Receipts, Throttled, RowTypeOK, Age
  <2>3. VisibleInTime'
    BY DEF VisibleInTime, Receipts, Throttled, RowTypeOK, Age
  <2>4. (Named /\ NothingYet /\ NoYounger /\ Outlives /\ DrawnInTime /\ Rails)'
    BY DEF Named, NothingYet, Throttled, NoYounger, Outlives, DrawnInTime, Rails
  <2>5. QED BY <2>1, <2>2, <2>3, <2>4
<1>3. QED BY <1>1, <1>2

\* Lifetimes are looked at when an array comes.
LEMMA ExpiredMarkers ==
  ASSUME RowTypeOK
  PROVE  /\ Expired \in [Key -> Stored \cup {None}]
         /\ \A k \in Key : Expired[k] = store[k] \/ Expired[k] = None
         /\ adapter # "generic_marker" => \A k \in Key : Expired[k] = store[k]
         /\ adapter = "generic_marker" => \A k \in Key : Expired[k] # None => ~Overdue(store[k])
BY DEF Expired, RowTypeOK

LEMMA ArrayInv ==
  ASSUME RowInv, ReceiveUnplaced \/ BeginArray
  PROVE  RowInv'
<1> USE DEF RowInv
<1>1. store' = Expired /\ UNCHANGED <<adapter, msgAge, rebuildAge, cache, drawn, railAge>> /\ ~busy
  BY DEF ReceiveUnplaced, BeginArray
<1>2. \/ busy' = FALSE /\ UNCHANGED <<recvAge, touched>>
      \/ busy' = TRUE /\ ~Throttled /\ recvAge' = IF adapter = "hd_map" THEN 0 ELSE recvAge
  BY DEF ReceiveUnplaced, BeginArray
<1>3. RowTypeOK'
  <2>1. heard' \in BOOLEAN /\ busy' \in BOOLEAN /\ touched' \subseteq Key
    BY DEF ReceiveUnplaced, BeginArray, RowTypeOK
  <2>2. recvAge' \in Age \cup {None}
    BY <1>2, RowConstants DEF RowTypeOK, Age
  <2>3. QED BY <1>1, <2>1, <2>2, ExpiredMarkers DEF RowTypeOK
<1>4. Named'
  BY <1>1, <1>2, ExpiredMarkers DEF Named
<1>5. Receipts'
  BY <1>1, <1>2, RowConstants DEF Receipts, RowTypeOK, Age
<1>6. NothingYet'
  BY <1>1, <1>2, ExpiredMarkers DEF NothingYet
<1>7. NoYounger'
  BY <1>1, <1>2, ExpiredMarkers DEF NoYounger
<1>8. Outlives'
  <2> SUFFICES ASSUME adapter = "generic_marker", NEW k \in Key, store'[k] # None
               PROVE  /\ store'[k].age # None
                      /\ store'[k].life # None =>
                           /\ busy' => store'[k].age < store'[k].life
                           /\ ~busy' => store'[k].age < store'[k].life + msgAge'
    BY <1>1 DEF Outlives
  <2>1. store'[k] = store[k] /\ ~Overdue(store[k]) /\ store[k] \in Stored
    BY <1>1, ExpiredMarkers DEF RowTypeOK
  <2>2. store[k].age # None /\ (store[k].life # None => store[k].age < store[k].life + msgAge)
    BY <1>1, <2>1 DEF Outlives
  <2>3. store[k].life # None => store[k].age < store[k].life
    <3>1. store[k].age \in Nat /\ (store[k].life # None => store[k].life \in Nat)
      BY <2>1, <2>2, StoredParts, Ages
    <3>2. store[k].life # None => ~(store[k].age >= store[k].life)
      BY <2>1 DEF Overdue
    <3>3. QED BY <3>1, <3>2
  <2>4. QED BY <1>1, <2>1, <2>2, <2>3
<1>9. DrawnInTime' /\ Rails'
  BY <1>1 DEF DrawnInTime, Rails
<1>10. VisibleInTime'
  BY <1>1, <1>2, RowConstants DEF VisibleInTime, Receipts, RowTypeOK, Age
<1>11. QED BY <1>3, <1>4, <1>5, <1>6, <1>7, <1>8, <1>9, <1>10

\* Between the header of an array and its end only the store changes: a key is
\* dropped, stored anew, or gets another part, and a track is touched then.
LEMMA IngestInv ==
  ASSUME RowInv, busy,
         NEW s \in [Key -> Stored \cup {None}], NEW t \in SUBSET Key, Ingests(s, t),
         touched \subseteq t,
         adapter = "dynamic_objects" =>
           \A k \in Key : s[k] = None \/ s[k] = store[k] \/ s[k].age = None \/ k \in t,
         adapter = "generic_marker" =>
           \A k \in Key : \/ s[k] = None \/ s[k] = store[k]
                          \/ s[k].age = 0
  PROVE  RowInv'
<1> USE DEF RowInv, Ingests
<1>1. RowTypeOK'
  BY DEF RowTypeOK
<1>2. Named'
  BY DEF Named
<1>3. Outlives'
  <2> SUFFICES ASSUME adapter = "generic_marker", NEW k \in Key, s[k] # None
               PROVE  /\ s[k].age # None
                      /\ s[k].life # None => s[k].age < s[k].life
    BY DEF Outlives
  <2>1. CASE s[k] = store[k]
    BY <2>1 DEF Outlives
  <2>2. CASE s[k].age = 0
    <3>1. s[k].life # None => s[k].life \in Lifetime
      BY StoredParts
    <3>2. QED BY <2>2, <3>1, Ages
  <2>3. QED BY <2>1, <2>2
<1>4. (Receipts /\ NothingYet /\ NoYounger /\ DrawnInTime /\ VisibleInTime /\ Rails)'
  BY DEF Receipts, NothingYet, NoYounger, DrawnInTime, VisibleInTime, Rails
<1>5. QED BY <1>1, <1>2, <1>3, <1>4

LEMMA MarkersInv ==
  ASSUME RowInv,
         \/ DeleteAll
         \/ \E k \in Key : \/ Delete(k)
                           \/ \E life \in Lifetime \cup {None} : AddMarker(k, life)
                           \/ AddPolygon(k) \/ AddElement(k)
         \/ AddStations
  PROVE  RowInv'
<1>1. CASE DeleteAll
  BY <1>1, IngestInv DEF DeleteAll, Ingests, RowInv, RowTypeOK
<1>2. ASSUME NEW k \in Key, Delete(k) PROVE RowInv'
  BY <1>2, IngestInv DEF Delete, Ingests, RowInv, RowTypeOK
<1>3. ASSUME NEW k \in Key, NEW life \in Lifetime \cup {None}, adapter # "dynamic_objects",
             Ingests([store EXCEPT ![k] = StoredAnew(life)], touched)
      PROVE  RowInv'
  <2> DEFINE i == StoredAnew(life)
  <2>1. i \in Stored /\ i.age = 0
    BY Ages DEF StoredAnew, Stored
  <2>2. /\ [store EXCEPT ![k] = i] \in [Key -> Stored \cup {None}]
        /\ \A x \in Key : [store EXCEPT ![k] = i][x] = store[x] \/ [store EXCEPT ![k] = i][x] = i
    BY <2>1 DEF RowInv, RowTypeOK
  <2>3. busy /\ Ingests([store EXCEPT ![k] = i], touched)
    BY <1>3 DEF Ingests
  <2> HIDE DEF i
  <2>4. QED BY <1>3, <2>1, <2>2, <2>3, IngestInv DEF RowInv, RowTypeOK
<1>4. ASSUME NEW k \in Key, NEW life \in Lifetime \cup {None}, AddMarker(k, life) PROVE RowInv'
  BY <1>3, <1>4 DEF AddMarker
<1>5. ASSUME NEW k \in Key, AddPolygon(k) \/ AddElement(k) PROVE RowInv'
  BY <1>3, <1>5 DEF AddPolygon, AddElement
<1>6. CASE AddStations
  BY <1>3, <1>6, RowConstants DEF AddStations
<1>7. QED BY <1>1, <1>2, <1>4, <1>5, <1>6

LEMMA TracksInv ==
  ASSUME RowInv, NEW k \in Key,
         \/ \E valid \in BOOLEAN : AddBox(k, valid)
         \/ \E given \in BOOLEAN : AddText(k, given)
         \/ AddDetail(k)
  PROVE  RowInv'
<1>1. Track(k) \in Stored /\ (Track(k) = store[k] \/ Track(k).age = None)
  BY Ages DEF Track, Stored, RowInv, RowTypeOK
<1>2. ASSUME NEW i \in Stored, NEW t \in {touched, touched \cup {k}},
             adapter = "dynamic_objects", Ingests([store EXCEPT ![k] = i], t),
             k \in t \/ i = store[k] \/ i.age = None
      PROVE  RowInv'
  <2>1. /\ [store EXCEPT ![k] = i] \in [Key -> Stored \cup {None}]
        /\ t \in SUBSET Key /\ touched \subseteq t
        /\ \A x \in Key : \/ [store EXCEPT ![k] = i][x] = store[x]
                          \/ [store EXCEPT ![k] = i][x].age = None
                          \/ x \in t
    BY <1>2 DEF RowInv, RowTypeOK
  <2>2. busy
    BY <1>2 DEF Ingests
  <2>3. QED BY <1>2, <2>1, <2>2, IngestInv
<1>3. ASSUME NEW valid \in BOOLEAN, AddBox(k, valid) PROVE RowInv'
  <2> DEFINE i == IF valid THEN [Track(k) EXCEPT !.age = 0] ELSE Track(k)
  <2>1. i \in Stored
    BY <1>1, Ages DEF Stored
  <2>2. adapter = "dynamic_objects" /\ Ingests([store EXCEPT ![k] = i], touched \cup {k})
    BY <1>3 DEF AddBox
  <2> HIDE DEF i
  <2>3. QED BY <1>2, <2>1, <2>2
<1>4. ASSUME NEW given \in BOOLEAN, AddText(k, given) PROVE RowInv'
  <2> DEFINE i == IF given THEN [Track(k) EXCEPT !.named = TRUE] ELSE Track(k)
  <2>1. i \in Stored
    BY <1>1 DEF Stored
  <2>2. adapter = "dynamic_objects" /\ Ingests([store EXCEPT ![k] = i], touched \cup {k})
    BY <1>4 DEF AddText
  <2> HIDE DEF i
  <2>3. QED BY <1>2, <2>1, <2>2
<1>5. CASE AddDetail(k)
  BY <1>1, <1>2, <1>5 DEF AddDetail
<1>6. QED BY <1>3, <1>4, <1>5

LEMMA EndInv ==
  ASSUME RowInv, EndArray
  PROVE  RowInv'
<1> USE RowConstants DEF RowInv, EndArray
<1>1. /\ \A k \in Key : store'[k] = store[k] \/ store'[k] = None
      /\ \A k \in Key : store'[k] # None => ~Nameless(k)
      /\ store' \in [Key -> Stored \cup {None}]
  BY DEF RowTypeOK
<1>2. RowTypeOK'
  <2>1. 0 \in Age /\ touched' \subseteq Key /\ busy' \in BOOLEAN
    BY Ages
  <2>2. rebuildAge' \in Age \cup {None}
    BY <2>1 DEF RowTypeOK
  <2>3. QED BY <1>1, <2>1, <2>2 DEF RowTypeOK
<1>3. Named'
  BY <1>1 DEF Named, Nameless
<1>4. Receipts'
  BY DEF Receipts, RowTypeOK, Age
<1>5. NothingYet'
  BY <1>1 DEF NothingYet
<1>6. NoYounger'
  BY <1>1 DEF NoYounger, RowTypeOK, Stored, Age
<1>7. Outlives'
  <2> SUFFICES ASSUME adapter = "generic_marker", NEW k \in Key, store'[k] # None
               PROVE  /\ store'[k].age # None
                      /\ store'[k].life # None => store'[k].age < store'[k].life + 0
    BY DEF Outlives
  <2>1. store'[k] = store[k] /\ store[k] \in Stored
    BY <1>1 DEF RowTypeOK
  <2>2. store[k].age # None /\ (store[k].life # None => store[k].age < store[k].life)
    BY <2>1 DEF Outlives
  <2>3. store[k].life # None => store[k].life + 0 = store[k].life
    <3>1. store[k].life # None => store[k].life \in Nat
      BY <2>1, StoredParts, Ages
    <3>2. QED BY <3>1
  <2>4. QED BY <2>1, <2>2, <2>3
<1>8. DrawnInTime' /\ VisibleInTime' /\ Rails'
  BY DEF DrawnInTime, VisibleInTime, Rails
<1>9. QED BY <1>2, <1>3, <1>4, <1>5, <1>6, <1>7, <1>8

LEMMA WholeInv ==
  ASSUME RowInv, ReceiveWhole
  PROVE  RowInv'
<1> USE RowConstants DEF RowInv, ReceiveWhole, ReceivePath, ReceiveGrid, ReceiveGridUpdate,
                        ReceiveHeightGrid, ReceiveCloud, Replaces
<1> DEFINE i == StoredAnew(None)
<1>1. i \in Stored /\ i.age = 0 /\ i.named
  BY Ages DEF StoredAnew, Stored
<1> HIDE DEF i
<1>2. \A k \in Key : store'[k] = store[k] \/ store'[k] = i
  BY DEF RowTypeOK, i
<1>3. RowTypeOK'
  <2>1. 0 \in Age /\ store' \in [Key -> Stored \cup {None}]
    BY <1>1, Ages DEF RowTypeOK, i
  <2>2. QED BY <2>1 DEF RowTypeOK
<1>4. NoYounger'
  <2> SUFFICES ASSUME NEW k \in Key, store'[k] # None, store'[k].age # None
               PROVE  store'[k].age >= 0
    BY DEF NoYounger
  <2>1. QED BY <1>3 DEF RowTypeOK, Stored, Age
<1>5. (Named /\ Receipts /\ NothingYet /\ Outlives)'
  BY <1>2 DEF Named, Receipts, NothingYet, Outlives
<1>6. DrawnInTime' /\ VisibleInTime' /\ Rails'
  BY DEF DrawnInTime, VisibleInTime, Rails
<1>7. QED BY <1>3, <1>4, <1>5, <1>6

-----------------------------------------------------------------------------
(* The timer makes everything a step older and draws what is there anew.     *)

LEMMA TimerAges ==
  ASSUME RowInv, Timer
  PROVE  /\ msgAge \in Age /\ msgAge' \in Age /\ msgAge' > 0
         /\ msgAge <= msgAge' /\ msgAge' <= msgAge + 1
         /\ recvAge' \in Age \cup {None} /\ rebuildAge' \in Age \cup {None}
         /\ recvAge = None <=> recvAge' = None
         /\ rebuildAge = None <=> rebuildAge' = None
         /\ rebuildAge' # None => rebuildAge' = msgAge' /\ recvAge' # None /\ recvAge' <= msgAge'
<1> USE DEF RowInv
<1>1. msgAge \in Age /\ recvAge \in Age \cup {None} /\ rebuildAge \in Age \cup {None}
  BY DEF RowTypeOK
<1>2. /\ msgAge' = Older(msgAge) /\ recvAge' = Older(recvAge) /\ rebuildAge' = Older(rebuildAge)
  BY DEF Timer
<1>3. None \notin Age
  BY RowConstants DEF Age
<1>4. /\ recvAge = None <=> recvAge' = None
      /\ rebuildAge = None <=> rebuildAge' = None
      /\ recvAge' \in Age \cup {None} /\ rebuildAge' \in Age \cup {None}
  BY <1>1, <1>2, <1>3, OlderAge
<1>5. rebuildAge' # None => rebuildAge' = msgAge' /\ recvAge' # None /\ recvAge' <= msgAge'
  <2> SUFFICES ASSUME rebuildAge' # None
               PROVE  rebuildAge' = msgAge' /\ recvAge' # None /\ recvAge' <= msgAge'
    OBVIOUS
  <2>1. rebuildAge = msgAge /\ recvAge # None /\ recvAge <= msgAge
    BY <1>4 DEF Receipts
  <2>2. recvAge \in Age
    BY <1>1, <2>1
  <2>3. QED BY <1>1, <1>2, <1>4, <2>1, <2>2, OlderMonotone
<1>6. QED BY <1>1, <1>2, <1>4, <1>5, OlderAge

\* What is stored grows older too, but for the elements of the map.
LEMMA TimerStore ==
  ASSUME RowInv, Timer, NEW k \in Key
  PROVE  /\ store'[k] \in Stored \cup {None}
         /\ store'[k] = None <=> store[k] = None
         /\ store[k] # None => /\ store'[k].life = store[k].life
                               /\ store'[k].named = store[k].named
                               /\ store'[k].age = None <=> store[k].age = None
         /\ store[k] # None /\ store[k].age # None /\ adapter # "hd_map" =>
              /\ store[k].age \in Age
              /\ store'[k].age = Older(store[k].age)
<1> USE DEF RowInv
<1>1. store[k] \in Stored \cup {None} /\ None \notin Stored
  BY RowConstants DEF RowTypeOK
<1>2. store' = [x \in Key |-> IF store[x] = None \/ adapter = "hd_map" THEN store[x]
                             ELSE [store[x] EXCEPT !.age = Older(@)]]
  BY DEF Timer
<1>3. CASE store[k] = None \/ adapter = "hd_map"
  <2>1. store'[k] = store[k]
    BY <1>2, <1>3
  <2>2. QED BY <1>1, <1>3, <2>1, StoredParts
<1>4. CASE store[k] # None /\ adapter # "hd_map"
  <2>1. store'[k] = [store[k] EXCEPT !.age = Older(@)]
    BY <1>2, <1>4
  <2>2. store[k] \in Stored
    BY <1>1, <1>4
  <2>3. /\ Older(store[k].age) \in Age \cup {None}
        /\ Older(store[k].age) = None <=> store[k].age = None
    BY <2>2, StoredParts, OlderAge, Ages
  <2>4. /\ store'[k].age = Older(store[k].age)
        /\ store'[k].life = store[k].life /\ store'[k].named = store[k].named
        /\ store'[k] \in Stored
    BY <2>1, <2>2, <2>3 DEF Stored
  <2>5. QED BY <1>1, <1>4, <2>2, <2>3, <2>4, StoredParts
<1>5. QED BY <1>3, <1>4

LEMMA TimerSurface ==
  ASSUME RowInv, Timer, NEW l \in Lane
  PROVE  /\ cache'[l] \in Age \cup {None} /\ railAge'[l] \in Age \cup {None}
         /\ rebuildAge = None => cache'[l] = None /\ drawn'[l] = "absent"
         /\ cache'[l] # None => railAge'[l] # None /\ railAge'[l] <= cache'[l]
         /\ drawn'[l] # "absent" => /\ cache'[l] # None /\ cache'[l] <= 2 * Timeout
                                    /\ msgAge' <= Timeout
                                    /\ drawn'[l] = Visibility(Shifted(recvAge'))
         /\ drawn'[l] \in {"absent", "opaque", "fading", "gone"}
<1> USE DEF RowInv
<1>1. /\ cache[l] \in Age \cup {None} /\ railAge[l] \in Age \cup {None}
      /\ cache[l] # None => railAge[l] # None /\ railAge[l] <= cache[l]
  BY DEF RowTypeOK, Rails
<1>2. /\ cache'[l] = IF Filled THEN CacheEntry(l) ELSE Older(cache[l])
      /\ railAge'[l] = IF Railed(l) THEN 0 ELSE Older(railAge[l])
      /\ drawn'[l] = IF Filled /\ cache'[l] # None THEN Visibility(Shifted(recvAge')) ELSE "absent"
  BY RowConstants DEF Timer
<1>3. Older(cache[l]) \in Age \cup {None} /\ (Older(cache[l]) = None <=> cache[l] = None)
  BY <1>1, OlderAge, Ages
<1>4. Older(railAge[l]) \in Age \cup {None} /\ (Older(railAge[l]) = None <=> railAge[l] = None)
  BY <1>1, OlderAge, Ages
<1>5. cache[l] # None => Older(railAge[l]) <= Older(cache[l])
  BY <1>1, OlderMonotone
<1>6. CacheEntry(l) \in {None, recvAge', Older(cache[l])}
  BY DEF CacheEntry
<1>7. CacheEntry(l) # None => \/ Railed(l) /\ CacheEntry(l) = recvAge'
                              \/ ~Railed(l) /\ CacheEntry(l) = Older(cache[l])
  BY DEF CacheEntry
<1>8. CacheEntry(l) # None => CacheEntry(l) - recvAge' \in 0..Timeout
  BY DEF CacheEntry
<1>9. cache'[l] \in Age \cup {None} /\ railAge'[l] \in Age \cup {None}
  BY <1>2, <1>3, <1>4, <1>6, TimerAges, Ages
<1>10. rebuildAge = None => cache'[l] = None /\ drawn'[l] = "absent"
  <2> SUFFICES ASSUME rebuildAge = None
               PROVE  cache'[l] = None /\ drawn'[l] = "absent"
    OBVIOUS
  <2>1. cache[l] = None
    BY DEF NothingYet
  <2>2. recvAge' = None
    BY TimerAges DEF Receipts, Timer
  <2>3. CacheEntry(l) = None
    BY <1>3, <1>6, <2>1, <2>2
  <2>4. QED BY <1>2, <1>3, <2>1, <2>3
<1>11. cache'[l] # None => railAge'[l] # None /\ railAge'[l] <= cache'[l]
  <2> SUFFICES ASSUME cache'[l] # None
               PROVE  railAge'[l] # None /\ railAge'[l] <= cache'[l]
    OBVIOUS
  <2>1. CASE Railed(l)
    <3>1. railAge'[l] = 0 /\ cache'[l] \in Nat
      BY <1>2, <1>9, <2>1, Ages
    <3>2. QED BY <3>1, Ages
  <2>2. CASE ~Railed(l)
    <3>1. cache'[l] = Older(cache[l]) /\ cache[l] # None
      BY <1>2, <1>3, <1>7, <2>2
    <3>2. railAge'[l] = Older(railAge[l])
      BY <1>2, <2>2
    <3>3. QED BY <1>1, <1>4, <1>5, <3>1, <3>2
  <2>3. QED BY <2>1, <2>2
<1>12. drawn'[l] # "absent" => /\ cache'[l] # None /\ cache'[l] <= 2 * Timeout
                               /\ msgAge' <= Timeout
                               /\ drawn'[l] = Visibility(Shifted(recvAge'))
  <2> SUFFICES ASSUME drawn'[l] # "absent"
               PROVE  /\ cache'[l] # None /\ cache'[l] <= 2 * Timeout /\ msgAge' <= Timeout
                      /\ drawn'[l] = Visibility(Shifted(recvAge'))
    OBVIOUS
  <2>1. /\ Filled /\ cache'[l] # None /\ cache'[l] = CacheEntry(l)
        /\ drawn'[l] = Visibility(Shifted(recvAge'))
    BY <1>2
  <2>2. rebuildAge' # None
    BY <1>10, TimerAges
  <2>3. /\ recvAge' \in Nat /\ msgAge' \in Nat /\ cache'[l] \in Nat /\ Timeout \in Nat
        /\ recvAge' <= msgAge'
    BY <1>9, <2>1, <2>2, TimerAges, Ages, RowConstants
  <2>4. msgAge' <= Timeout
    BY <2>1, <2>3 DEF Filled
  <2>5. cache'[l] - recvAge' \in 0..Timeout
    BY <1>8, <2>1
  <2>6. QED BY <2>1, <2>3, <2>4, <2>5
<1>13. drawn'[l] \in {"absent", "opaque", "fading", "gone"}
  BY <1>2 DEF Visibility
<1>14. QED BY <1>9, <1>10, <1>11, <1>12, <1>13

LEMMA TimerDrawn ==
  ASSUME RowInv, Timer, NEW k \in Key
  PROVE  /\ drawn'[k] # "absent" => /\ msgAge' <= Timeout
                                    /\ store[k] # None /\ store[k].age # None
                                    /\ drawn'[k] = Visibility(StampAge(k))
         /\ drawn'[k] \in {"absent", "opaque", "fading", "gone"}
<1>1. drawn'[k] = IF Filled /\ Drawable(k) THEN Visibility(StampAge(k)) ELSE "absent"
  BY DEF Timer
<1>2. Filled => msgAge' <= Timeout
  <2>1. msgAge' \in Nat /\ Timeout \in Nat
    BY TimerAges, Ages, RowConstants
  <2>2. QED BY <2>1 DEF Filled
<1>3. QED BY <1>1, <1>2 DEF Drawable, Visibility

LEMMA ShiftedAge ==
  ASSUME NEW a \in Nat, Visibility(Shifted(a)) \in {"opaque", "fading"}
  PROVE  a < Timeout
<1>1. FadeEnd \in Nat /\ Timeout \in Nat
  BY RowConstants
<1>2. Shifted(a) < FadeEnd
  BY <1>1, RowConstants DEF Visibility, Shifted
<1>3. QED BY <1>1, <1>2 DEF Shifted

LEMMA VisibleAge ==
  ASSUME NEW a \in Int, Visibility(a) \in {"opaque", "fading"}
  PROVE  a < FadeEnd
BY RowConstants DEF Visibility

LEMMA TimerInv ==
  ASSUME RowInv, Timer
  PROVE  RowInv'
<1> USE DEF RowInv
<1>1. RowTypeOK'
  <2>1. UNCHANGED <<adapter, heard, busy, touched>>
    BY DEF Timer
  <2>2. store' \in [Key -> Stored \cup {None}]
    <3>1. store' = [k \in Key |-> store'[k]]
      BY DEF Timer
    <3>2. QED BY <3>1, TimerStore
  <2>3. cache' \in [Lane -> Age \cup {None}] /\ railAge' \in [Lane -> Age \cup {None}]
    <3>1. cache' = [l \in Lane |-> cache'[l]] /\ railAge' = [l \in Lane |-> railAge'[l]]
      BY DEF Timer
    <3>2. QED BY <3>1, TimerSurface
  <2>4. drawn' \in [Key \cup Lane -> {"absent", "opaque", "fading", "gone"}]
    <3>1. drawn' = [x \in Key \cup Lane |-> drawn'[x]]
      BY DEF Timer
    <3>2. QED BY <3>1, TimerSurface, TimerDrawn
  <2>5. QED BY <2>1, <2>2, <2>3, <2>4, TimerAges DEF RowTypeOK
<1>2. ~busy /\ ~busy' /\ adapter' = adapter
  BY DEF Timer
<1>3. Named'
  BY <1>2, TimerStore DEF Named
<1>4. Receipts'
  <2>1. rebuildAge' # None => rebuildAge' <= recvAge' + MinGap
    <3> SUFFICES ASSUME rebuildAge' # None
                 PROVE  rebuildAge' <= recvAge' + MinGap
      OBVIOUS
    <3>1. /\ rebuildAge # None /\ recvAge # None /\ rebuildAge <= recvAge + MinGap
          /\ recvAge <= rebuildAge
      BY <1>2, TimerAges DEF Receipts
    <3>2. rebuildAge \in Age /\ recvAge \in Age
      BY <3>1 DEF RowTypeOK
    <3>3. rebuildAge' = Older(rebuildAge) /\ recvAge' = Older(recvAge)
      BY DEF Timer
    <3>4. QED BY <3>1, <3>2, <3>3, RowConstants DEF Older, Age
  <2>2. QED BY <1>2, <2>1, TimerAges DEF Receipts
<1>5. NothingYet'
  <2> SUFFICES ASSUME rebuildAge' = None
               PROVE  /\ \A l \in Lane : cache'[l] = None /\ drawn'[l] = "absent"
                      /\ adapter = "hd_map" =>
                           \A k \in Key : drawn'[k] = "absent" /\ store'[k] = None
    BY <1>2 DEF NothingYet
  <2>1. rebuildAge = None
    BY TimerAges
  <2>2. adapter = "hd_map" => \A k \in Key : store[k] = None
    BY <1>2, <2>1 DEF NothingYet
  <2>3. QED BY <2>1, <2>2, TimerSurface, TimerStore, TimerDrawn
<1>6. NoYounger'
  <2> SUFFICES ASSUME adapter # "hd_map", NEW k \in Key, store'[k] # None, store'[k].age # None
               PROVE  store'[k].age >= msgAge'
    BY <1>2 DEF NoYounger
  <2>1. store[k] # None /\ store[k].age \in Age /\ store'[k].age = Older(store[k].age)
    BY TimerStore
  <2>2. store[k].age >= msgAge
    BY <1>2, <2>1, Ages DEF NoYounger
  <2>3. msgAge \in Age /\ msgAge' = Older(msgAge) /\ msgAge <= store[k].age
    BY <2>1, <2>2, TimerAges, Ages DEF Timer
  <2>4. Older(msgAge) <= Older(store[k].age)
    BY <2>1, <2>3, OlderMonotone
  <2>5. Older(msgAge) \in Nat /\ Older(store[k].age) \in Nat
    BY <2>1, <2>3, OlderAge, Ages
  <2>6. QED BY <2>1, <2>3, <2>4, <2>5
<1>7. Outlives'
  <2> SUFFICES ASSUME adapter = "generic_marker", NEW k \in Key, store'[k] # None
               PROVE  /\ store'[k].age # None
                      /\ store'[k].life # None => store'[k].age < store'[k].life + msgAge'
    BY <1>2 DEF Outlives
  <2>1. store[k] # None /\ store[k].age # None /\ store'[k].life = store[k].life
    BY TimerStore DEF Outlives
  <2>2. store[k] \in Stored /\ store[k].age \in Age /\ store'[k].age = Older(store[k].age)
    BY <2>1, TimerStore DEF RowTypeOK
  <2>3. ASSUME store[k].life # None
        PROVE  Older(store[k].age) < store[k].life + msgAge'
    <3>1. store[k].life \in Nat /\ store[k].life > 0
      BY <2>2, <2>3, StoredParts, Ages
    <3>2. store[k].age < store[k].life + msgAge
      BY <1>2, <2>1, <2>3 DEF Outlives
    <3>3. msgAge \in Age /\ msgAge' = Older(msgAge)
      BY TimerAges DEF Timer
    <3>4. QED BY <2>2, <3>1, <3>2, <3>3, RowConstants DEF Older, Age
  <2>4. QED BY <2>1, <2>2, <2>3, OlderAge
<1>8. DrawnInTime'
  BY TimerSurface, TimerDrawn DEF DrawnInTime
<1>9. Rails'
  <2> SUFFICES ASSUME NEW l \in Lane, drawn'[l] # "absent"
               PROVE  railAge'[l] # None /\ railAge'[l] <= 2 * Timeout
    BY TimerSurface DEF Rails
  <2>1. /\ railAge'[l] # None /\ cache'[l] # None
        /\ railAge'[l] <= cache'[l] /\ cache'[l] <= 2 * Timeout
    BY TimerSurface
  <2>2. railAge'[l] \in Nat /\ cache'[l] \in Nat /\ Timeout \in Nat
    BY <2>1, TimerSurface, Ages, RowConstants
  <2>3. QED BY <2>1, <2>2
<1>10. VisibleInTime'
  <2> SUFFICES ASSUME adapter = "hd_map" => recvAge' = rebuildAge',
                      NEW x \in Key \cup Lane, drawn'[x] \in {"opaque", "fading"}
               PROVE  msgAge' < Timeout
    BY <1>2 DEF VisibleInTime
  <2>1. /\ msgAge' \in Nat /\ Timeout \in Nat /\ FadeEnd \in Nat /\ FadeEnd <= Timeout
    BY TimerAges, Ages, RowConstants
  <2>2. ASSUME rebuildAge' # None, adapter = "hd_map", drawn'[x] = Visibility(Shifted(recvAge'))
        PROVE  msgAge' < Timeout
    <3>1. recvAge' = msgAge'
      BY <2>2, TimerAges
    <3>2. QED BY <2>1, <2>2, <3>1, ShiftedAge
  <2>3. CASE x \in Lane
    <3>1. drawn'[x] # "absent" /\ drawn'[x] = Visibility(Shifted(recvAge')) /\ rebuildAge # None
      BY <2>3, TimerSurface
    <3>2. rebuildAge' # None /\ adapter = "hd_map"
      BY <3>1, TimerAges DEF Receipts
    <3>3. QED BY <2>2, <3>1, <3>2
  <2>4. CASE x \in Key
    <3>1. /\ drawn'[x] = Visibility(StampAge(x)) /\ msgAge' <= Timeout
          /\ store[x] # None /\ store[x].age # None
      BY <2>4, TimerDrawn
    <3>2. CASE adapter = "hd_map"
      <4>1. rebuildAge # None
        BY <1>2, <2>4, <3>1, <3>2 DEF NothingYet
      <4>2. StampAge(x) = Shifted(recvAge')
        BY <3>2 DEF StampAge
      <4>3. QED BY <2>2, <3>1, <3>2, <4>1, <4>2, TimerAges
    <3>3. CASE adapter # "hd_map"
      <4>1. store[x].age \in Age /\ store[x].age >= msgAge /\ msgAge \in Age
        BY <1>2, <2>4, <3>1, <3>3, TimerStore, TimerAges DEF NoYounger
      <4>2. StampAge(x) \in {store[x].age + 1, (store[x].age + 1) - (Timeout - FadeEnd)}
        BY <3>3 DEF StampAge, Shifted
      <4>3. StampAge(x) \in Int /\ StampAge(x) >= (store[x].age + 1) - (Timeout - FadeEnd)
        BY <2>1, <4>1, <4>2, Ages
      <4>4. StampAge(x) < FadeEnd
        BY <3>1, <4>3, VisibleAge
      <4>5. msgAge' <= msgAge + 1 /\ msgAge \in Nat /\ store[x].age \in Nat
        BY <4>1, TimerAges, Ages
      <4>6. QED BY <2>1, <4>1, <4>3, <4>4, <4>5
    <3>4. QED BY <3>2, <3>3
  <2>5. QED BY <2>3, <2>4
<1>11. QED BY <1>1, <1>3, <1>4, <1>5, <1>6, <1>7, <1>8, <1>9, <1>10

LEMMA RowStepInv == ASSUME RowInv, [RowNext]_rowVars PROVE RowInv'
<1>1. CASE UNCHANGED rowVars
  BY <1>1 DEF rowVars, RowInv, RowTypeOK, Named, Receipts, NothingYet, NoYounger, Outlives,
              DrawnInTime, VisibleInTime, Rails
<1>2. CASE RowNext
  BY <1>2, QuietInv, ArrayInv, WholeInv, MarkersInv, TracksInv, EndInv, TimerInv DEF RowNext
<1>3. QED BY <1>1, <1>2

\* The ages of a row agree in every reachable state, for any adapters, keys and
\* lanes, any timeout, rate limit and lifetimes, and messages in any order.
THEOREM RowInvariant == RowSpec => []RowInv
BY RowInitInv, RowStepInv, PTL DEF RowSpec

\* A map that is only throttled is not cut off by the timer.
THEOREM RowIsKeptByReceipts == RowSpec => []RowKeptByReceipts
<1>1. RowInv => RowKeptByReceipts
  <2> SUFFICES ASSUME RowInv, adapter = "hd_map", ~busy, recvAge # None,
                      recvAge + MinGap <= Timeout
               PROVE  ~(msgAge > Timeout)
    BY DEF RowKeptByReceipts, Cut
  <2>1. rebuildAge # None
    BY DEF RowInv, Receipts
  <2>2. msgAge <= recvAge + MinGap
    BY <2>1 DEF RowInv, Receipts
  <2>3. msgAge \in Nat /\ recvAge \in Nat
    BY Ages DEF RowInv, RowTypeOK
  <2>4. QED BY <2>2, <2>3, RowConstants
<1>2. QED BY <1>1, RowInvariant, PTL

\* What a row draws ends with its lifetime or its boundaries and the timeout.
THEOREM RowDrawingEnds == RowSpec => []DrawingEnds
<1>1. RowInv => DrawingEnds
  <2> SUFFICES ASSUME RowInv PROVE DrawingEnds
    OBVIOUS
  <2>1. ASSUME NEW k \in Key, adapter = "generic_marker", drawn[k] # "absent",
               store[k] # None, Overdue(store[k])
        PROVE  store[k].age - store[k].life < Timeout
    <3>1. /\ store[k] \in Stored /\ store[k].age # None /\ store[k].life # None
          /\ store[k].age >= store[k].life
      BY <2>1 DEF RowInv, RowTypeOK, Outlives, Overdue
    <3>2. store[k].age \in Nat /\ store[k].life \in Nat /\ msgAge \in Nat /\ Timeout \in Nat
      BY <3>1, StoredParts, Ages, RowConstants DEF RowInv, RowTypeOK
    <3>3. store[k].age < store[k].life + msgAge
      BY <2>1, <3>1, <3>2 DEF RowInv, Outlives
    <3>4. msgAge <= Timeout
      BY <2>1 DEF RowInv, DrawnInTime
    <3>5. QED BY <3>2, <3>3, <3>4
  <2>2. \A l \in Lane : drawn[l] # "absent" => railAge[l] # None /\ railAge[l] <= 2 * Timeout
    BY DEF RowInv, Rails
  <2>3. QED BY <2>1, <2>2 DEF DrawingEnds
<1>2. QED BY <1>1, RowInvariant, PTL

\* What a row draws lasts as long as its messages say, and no longer.
THEOREM RowDrawingsLast == RowSpec => []RowsLast
<1>1. RowKeptByReceipts /\ DrawingEnds => RowsLast
  BY DEF RowsLast
<1>2. QED BY <1>1, RowIsKeptByReceipts, RowDrawingEnds, PTL

\* A track with a box has its text between messages.
THEOREM RowBoxesAreNamed == RowSpec => []BoxesAreNamed
<1>1. RowInv => BoxesAreNamed
  <2> SUFFICES ASSUME RowInv, ~busy, adapter = "dynamic_objects",
                      NEW k \in Key, store[k] # None, store[k].age # None
               PROVE  store[k].named
    BY DEF BoxesAreNamed
  <2>1. QED BY DEF RowInv, Named
<1>2. QED BY <1>1, RowInvariant, PTL

\* A row has faded out before the timeout takes it from the frame, but for a map
\* whose last message was only a sign of life.
THEOREM RowFadesBeforeTheCut == RowSpec => FadesBeforeTheCut
<1>1. ASSUME RowInv, RowNext, ~Cut, Cut'
      PROVE  \/ \A x \in Key \cup Lane : drawn[x] \in {"absent", "gone"}
             \/ adapter = "hd_map" /\ recvAge < rebuildAge
  <2>0. Timeout \in Nat /\ Timeout > 0
    BY RowConstants
  <2>1. msgAge' # msgAge /\ msgAge' # 0
    BY <1>1, <2>0 DEF Cut
  <2>2. Timer
    BY <1>1, <2>1 DEF RowNext, ReceiveNothing, ReceiveUnplaced, ReceiveThrottled, ReceiveWhole,
                ReceivePath, ReceiveGrid, ReceiveGridUpdate, ReceiveHeightGrid, ReceiveCloud,
                Replaces, AddPolygon, AddElement, AddStations,
                BeginArray, DeleteAll, Delete, AddMarker, AddBox, AddText, AddDetail, Ingests,
                EndArray
  <2>3. /\ msgAge \in Nat /\ msgAge' \in Nat /\ Timeout \in Nat /\ Timeout > 0
        /\ msgAge' <= msgAge + 1
    BY <1>1, <2>0, <2>2, TimerAges, Ages
  <2>4. msgAge = Timeout
    BY <1>1, <2>3 DEF Cut
  <2>5. CASE adapter = "hd_map" => recvAge = rebuildAge
    <3>1. \A x \in Key \cup Lane : drawn[x] \notin {"opaque", "fading"}
      BY <1>1, <2>3, <2>4, <2>5 DEF RowInv, VisibleInTime
    <3>2. QED BY <1>1, <3>1 DEF RowInv, RowTypeOK
  <2>6. CASE adapter = "hd_map" /\ recvAge # rebuildAge
    <3>1. rebuildAge # None
      BY <1>1, <2>2, <2>6 DEF RowInv, Receipts, Timer
    <3>2. recvAge # None /\ recvAge <= rebuildAge
      BY <1>1, <3>1 DEF RowInv, Receipts
    <3>3. recvAge \in Nat /\ rebuildAge \in Nat
      BY <1>1, <3>1, <3>2, Ages DEF RowInv, RowTypeOK
    <3>4. QED BY <2>6, <3>2, <3>3
  <2>7. QED BY <2>5, <2>6
<1>2. RowInv /\ [RowNext]_rowVars =>
        [~Cut /\ Cut' => \/ \A x \in Key \cup Lane : drawn[x] \in {"absent", "gone"}
                         \/ adapter = "hd_map" /\ recvAge < rebuildAge]_rowVars
  BY <1>1
<1>3. QED BY <1>2, RowInvariant, PTL DEF RowSpec, FadesBeforeTheCut

-----------------------------------------------------------------------------
(***************************************************************************)
(* The governor: its two counters are bounds on the history, dwell on how  *)
(* long ago the last change was (exactly, while it is below the dwell) and *)
(* good on how many fast windows without a change end it.                  *)
(***************************************************************************)
Judgement == [was : Time, preset : 0..2]

GovernorInv ==
  /\ preset \in 0..2 /\ rendererPreset = preset /\ quality = preset
  /\ dwell \in 0..MinDwell /\ good \in 0..RecoverRequired
  /\ judged \in Seq(Judgement) /\ Len(judged) = Kept
  /\ judged[Kept].preset = preset
  /\ \A i \in (Kept - dwell + 1)..Kept : ~Change(i)
  /\ dwell < MinDwell => Change(Kept - dwell)
  /\ \A i \in (Kept - good + 1)..Kept : judged[i].was = "fast" /\ ~Change(i)
  /\ ChangesAreApart /\ RisesAreEarned /\ OverloadIsAnswered

LEMMA KeptSize == Kept \in Nat /\ Kept >= MinDwell + 1 /\ Kept >= RecoverRequired + 1 /\ Kept >= 2
                  /\ MinDwell \in Nat /\ RecoverRequired \in Nat /\ MinDwell >= 1
                  /\ RecoverRequired >= 1 /\ Kept = MinDwell + RecoverRequired
BY GovernorConstants DEF Kept

LEMMA Below ==
  ASSUME NEW m \in Nat, NEW n \in 0..m, NEW k \in Nat, k >= m + 1
  PROVE  n + 1 <= k
OBVIOUS

\* The last windows of a history that has moved on, in the one before.
LEMMA RangeStep ==
  ASSUME NEW k \in Nat, NEW n \in Nat, NEW m \in Nat, m <= n + 1, m + 1 <= k,
         NEW i \in (k - m + 1)..k, i # k
  PROVE  i \in 2..(k - 1) /\ i + 1 \in (k - n + 1)..k
OBVIOUS

LEMMA GovernorInitInv == GovernorInit => GovernorInv
<1> SUFFICES ASSUME GovernorInit PROVE GovernorInv
  OBVIOUS
<1>1. \A i \in 1..Kept : judged[i] = [was |-> "mid", preset |-> quality]
  BY DEF GovernorInit
<1>2. judged \in Seq(Judgement) /\ Len(judged) = Kept
  BY KeptSize DEF GovernorInit, Judgement, Time
<1>3. \A i \in 2..Kept : ~Change(i)
  BY <1>1, KeptSize DEF Change
<1>4. ChangesAreApart /\ RisesAreEarned /\ OverloadIsAnswered
  <2>1. ChangesAreApart
    BY <1>3 DEF ChangesAreApart
  <2>2. \A j \in (RecoverRequired + 1)..Kept :
          j \in 1..Kept /\ j - 1 \in 1..Kept /\ judged[j].preset = judged[j - 1].preset
    BY <1>1, KeptSize
  <2>3. RisesAreEarned
    BY <1>1, <2>2, KeptSize DEF RisesAreEarned, GovernorInit
  <2>4. judged[Kept].was = "mid"
    BY <1>1, KeptSize
  <2>5. QED BY <2>1, <2>3, <2>4 DEF OverloadIsAnswered
<1>5. QED
  BY <1>1, <1>2, <1>3, <1>4, KeptSize DEF GovernorInv, GovernorInit

\* The history forgets its oldest window for the new one.
LEMMA Shifted1 ==
  ASSUME judged \in Seq(Judgement), Len(judged) = Kept, NEW x \in Judgement,
         judged' = Append(Tail(judged), x)
  PROVE  /\ judged' \in Seq(Judgement) /\ Len(judged') = Kept
         /\ \A i \in 1..(Kept - 1) : judged'[i] = judged[i + 1]
         /\ judged'[Kept] = x
<1>1. Len(judged) \in Nat /\ Len(judged) >= 2 /\ judged # <<>>
  BY KeptSize
<1>2. Tail(judged) \in Seq(Judgement) /\ Len(Tail(judged)) = Kept - 1
  BY <1>1
<1>3. \A i \in 1..(Kept - 1) : Tail(judged)[i] = judged[i + 1]
  BY <1>1
<1>4. QED BY <1>1, <1>2, <1>3, KeptSize

LEMMA JudgeInv ==
  ASSUME GovernorInv, NEW v \in Time, Judge(v), PassOn
  PROVE  GovernorInv'
<1> DEFINE elapsed == dwell + 1 >= MinDwell
           run == IF v = "fast" THEN UpTo(good + 1, RecoverRequired) ELSE 0
           drops == v = "slow" /\ elapsed /\ preset > 0
           recovers == v = "fast" /\ elapsed /\ preset < 2 /\ run >= RecoverRequired
<1>1. /\ preset' = IF drops THEN preset - 1 ELSE IF recovers THEN preset + 1 ELSE preset
      /\ dwell' = IF drops \/ recovers THEN 0 ELSE UpTo(dwell + 1, MinDwell)
      /\ good' = IF recovers THEN 0 ELSE run
      /\ judged' = Append(Tail(judged), [was |-> v, preset |-> preset'])
  BY DEF Judge
<1>2. /\ preset \in 0..2 /\ dwell \in 0..MinDwell /\ good \in 0..RecoverRequired
      /\ judged \in Seq(Judgement) /\ Len(judged) = Kept /\ judged[Kept].preset = preset
  BY DEF GovernorInv
<1>3. preset' \in 0..2 /\ (drops => preset' = preset - 1) /\ (recovers => preset' = preset + 1)
      /\ (~drops /\ ~recovers => preset' = preset)
  BY <1>1, <1>2
<1>4. /\ judged' \in Seq(Judgement) /\ Len(judged') = Kept
      /\ \A i \in 1..(Kept - 1) : judged'[i] = judged[i + 1]
      /\ judged'[Kept] = [was |-> v, preset |-> preset']
  <2>1. [was |-> v, preset |-> preset'] \in Judgement
    BY <1>3 DEF Judgement
  <2>2. QED BY <1>1, <1>2, <2>1, Shifted1
<1> HIDE DEF elapsed, run, drops, recovers
<1>5. \A i \in 2..(Kept - 1) : Change(i)' <=> Change(i + 1)
  BY <1>4, KeptSize DEF Change
<1>6. Change(Kept)' <=> drops \/ recovers
  <2>1. judged'[Kept].preset = preset' /\ judged'[Kept - 1].preset = preset
    BY <1>2, <1>4, KeptSize
  <2>2. QED BY <1>2, <1>3, <2>1, KeptSize DEF Change, drops, recovers
<1>7. dwell' \in 0..MinDwell /\ good' \in 0..RecoverRequired
  BY <1>1, <1>2, KeptSize DEF UpTo, run
<1>a. dwell' + 1 <= Kept /\ good' + 1 <= Kept /\ Kept \in Nat
  BY <1>7, KeptSize, Below
<1>8. rendererPreset' = preset' /\ quality' = preset' /\ judged'[Kept].preset = preset'
  BY <1>4 DEF PassOn, GovernorInv
<1>9. \A i \in (Kept - dwell' + 1)..Kept : ~Change(i)'
  <2> SUFFICES ASSUME NEW i \in (Kept - dwell' + 1)..Kept PROVE ~Change(i)'
    OBVIOUS
  <2>1. ~drops /\ ~recovers /\ dwell' = UpTo(dwell + 1, MinDwell)
    BY <1>1, <1>7, KeptSize
  <2>2. CASE i = Kept
    BY <1>6, <2>1, <2>2
  <2>3. CASE i # Kept
    <3>0. dwell' \in Nat /\ dwell' <= dwell + 1 /\ dwell' <= MinDwell
      <4>1. dwell \in Nat /\ dwell <= MinDwell /\ MinDwell \in Nat
        BY <1>2, KeptSize
      <4>2. dwell' = UpTo(dwell + 1, MinDwell)
        BY <2>1
      <4>. QED  BY <4>1, <4>2 DEF UpTo
    <3>1. i \in 2..(Kept - 1) /\ i + 1 \in (Kept - dwell + 1)..Kept
      <4>1. dwell \in Nat
        BY <1>2
      <4>2. QED BY <1>a, <2>3, <3>0, <4>1, RangeStep
    <3>2. QED BY <1>5, <3>1 DEF GovernorInv
  <2>4. QED BY <2>2, <2>3
<1>10. dwell' < MinDwell => Change(Kept - dwell)'
  <2> SUFFICES ASSUME NEW n \in 0..MinDwell, n = dwell', n < MinDwell PROVE Change(Kept - n)'
    BY <1>7 DEF Change, Kept
  <2>1. CASE drops \/ recovers
    <3>1. n = 0 /\ Kept - n = Kept
      BY <1>1, <2>1, KeptSize
    <3>2. QED BY <1>6, <2>1, <3>1
  <2>2. CASE ~(drops \/ recovers)
    <3>1. n = dwell + 1 /\ dwell < MinDwell
      BY <1>1, <1>2, <2>2, KeptSize DEF UpTo
    <3>2. Change(Kept - dwell)
      BY <3>1 DEF GovernorInv
    <3>3. Kept - n \in 2..(Kept - 1) /\ (Kept - n) + 1 = Kept - dwell
      BY <1>2, <3>1, KeptSize
    <3>4. QED BY <1>5, <3>2, <3>3
  <2>3. QED BY <2>1, <2>2
<1>11. \A i \in (Kept - good' + 1)..Kept : judged'[i].was = "fast" /\ ~Change(i)'
  <2> SUFFICES ASSUME NEW i \in (Kept - good' + 1)..Kept
               PROVE  judged'[i].was = "fast" /\ ~Change(i)'
    OBVIOUS
  <2>1. v = "fast" /\ ~recovers /\ ~drops /\ good' = UpTo(good + 1, RecoverRequired)
    BY <1>1, <1>7, KeptSize DEF run, drops
  <2>2. CASE i = Kept
    BY <1>4, <1>6, <2>1, <2>2
  <2>3. CASE i # Kept
    <3>0. good' \in Nat /\ good' <= good + 1 /\ good' <= RecoverRequired
      BY <1>2, <2>1, KeptSize, SMTT(30) DEF UpTo
    <3>1. i \in 2..(Kept - 1) /\ i + 1 \in (Kept - good + 1)..Kept
      <4>1. good \in Nat
        BY <1>2
      <4>2. QED BY <1>a, <2>3, <3>0, <4>1, RangeStep
    <3>2. judged'[i] = judged[i + 1]
      BY <1>4, <3>1
    <3>3. QED BY <1>5, <3>1, <3>2 DEF GovernorInv
  <2>4. QED BY <2>2, <2>3
<1>12. ChangesAreApart'
  <2> SUFFICES ASSUME NEW i \in 2..Kept, NEW j \in 2..Kept, i < j, Change(i)', Change(j)'
               PROVE  j - i >= MinDwell
    BY DEF ChangesAreApart, Kept
  <2>1. i \in 2..(Kept - 1) /\ Change(i + 1) /\ i + 1 \in 2..Kept
    BY <1>5, KeptSize
  <2>2. CASE j = Kept
    <3>1. elapsed
      BY <1>6, <2>2 DEF drops, recovers
    <3>2. ~(i + 1 \in (Kept - dwell + 1)..Kept)
      BY <2>1 DEF GovernorInv
    <3>3. QED BY <1>2, <2>1, <2>2, <3>1, <3>2, KeptSize DEF elapsed
  <2>3. CASE j # Kept
    <3>1. Change(j + 1) /\ j + 1 \in 2..Kept
      BY <1>5, <2>3, KeptSize
    <3>2. (j + 1) - (i + 1) >= MinDwell
      BY <2>1, <3>1 DEF GovernorInv, ChangesAreApart
    <3>3. QED BY <3>2
  <2>4. QED BY <2>2, <2>3
<1>13. RisesAreEarned'
  <2> SUFFICES ASSUME NEW j \in (RecoverRequired + 1)..Kept,
                      judged'[j].preset > judged'[j - 1].preset
               PROVE  /\ judged'[j].preset = judged'[j - 1].preset + 1
                      /\ \A i \in (j - RecoverRequired + 1)..j : judged'[i].was = "fast"
                      /\ \A i \in (j - RecoverRequired + 1)..(j - 1) : ~Change(i)'
    BY DEF RisesAreEarned, Kept
  <2>1. CASE j = Kept
    <3>1. judged'[Kept - 1].preset = preset /\ judged'[Kept].preset = preset'
      BY <1>2, <1>4, KeptSize
    <3>2. recovers
      BY <1>2, <1>3, <2>1, <3>1 DEF drops
    <3>3. v = "fast" /\ preset' = preset + 1 /\ good + 1 >= RecoverRequired
      BY <1>2, <1>3, <3>2, KeptSize DEF recovers, run, UpTo
    <3>4. ASSUME NEW i \in (Kept - RecoverRequired + 1)..(Kept - 1)
          PROVE  judged'[i].was = "fast" /\ ~Change(i)'
      <4>1. i \in 2..(Kept - 1) /\ i + 1 \in (Kept - good + 1)..Kept
        BY <1>2, <3>3, KeptSize
      <4>2. judged'[i] = judged[i + 1]
        BY <1>4, <4>1
      <4>3. QED BY <1>5, <4>1, <4>2 DEF GovernorInv
    <3>5. judged'[Kept].was = "fast"
      BY <1>4, <3>3
    <3>6. \A i \in (Kept - RecoverRequired + 1)..Kept :
            i = Kept \/ i \in (Kept - RecoverRequired + 1)..(Kept - 1)
      BY KeptSize
    <3>7. QED BY <2>1, <3>1, <3>3, <3>4, <3>5, <3>6
  <2>2. CASE j # Kept
    <3>1. j + 1 \in (RecoverRequired + 1)..Kept /\ j \in 1..(Kept - 1) /\ j - 1 \in 1..(Kept - 1)
      BY <2>2, KeptSize
    <3>2. judged'[j] = judged[j + 1] /\ judged'[j - 1] = judged[j]
      BY <1>4, <3>1
    <3>3. judged[j + 1].preset > judged[(j + 1) - 1].preset
      BY <3>1, <3>2
    <3>4. /\ judged[j + 1].preset = judged[(j + 1) - 1].preset + 1
          /\ \A i \in ((j + 1) - RecoverRequired + 1)..(j + 1) : judged[i].was = "fast"
          /\ \A i \in ((j + 1) - RecoverRequired + 1)..((j + 1) - 1) : ~Change(i)
      BY <3>1, <3>3 DEF GovernorInv, RisesAreEarned
    <3>5. ASSUME NEW i \in (j - RecoverRequired + 1)..j
          PROVE  judged'[i].was = "fast" /\ (i # j => ~Change(i)')
      <4>1. i \in 2..(Kept - 1) /\ i + 1 \in ((j + 1) - RecoverRequired + 1)..(j + 1)
        BY <3>1, KeptSize
      <4>2. judged'[i] = judged[i + 1]
        BY <1>4, <4>1
      <4>3. i # j => i + 1 \in ((j + 1) - RecoverRequired + 1)..((j + 1) - 1)
        BY <4>1
      <4>4. QED BY <1>5, <3>4, <4>1, <4>2, <4>3
    <3>6. QED BY <3>1, <3>2, <3>4, <3>5
  <2>3. QED BY <2>1, <2>2
<1>14. OverloadIsAnswered'
  <2> SUFFICES ASSUME judged'[Kept].was = "slow",
                      \A i \in (Kept - MinDwell + 1)..Kept : ~Change(i)'
               PROVE  preset' = 0
    BY DEF OverloadIsAnswered, Kept
  <2>1. v = "slow" /\ ~drops /\ ~recovers
    BY <1>4, <1>6, KeptSize
  <2>2. elapsed
    <3> SUFFICES ASSUME ~elapsed PROVE FALSE
      OBVIOUS
    <3>1. dwell < MinDwell /\ dwell + 1 < MinDwell
      BY <1>2, KeptSize DEF elapsed
    <3>2. Change(Kept - dwell)
      BY <3>1 DEF GovernorInv
    <3>3. /\ Kept - dwell - 1 \in 2..(Kept - 1) /\ (Kept - dwell - 1) + 1 = Kept - dwell
          /\ Kept - dwell - 1 \in (Kept - MinDwell + 1)..Kept
      BY <1>2, <3>1, KeptSize
    <3>4. QED BY <1>5, <3>2, <3>3
  <2>3. QED BY <1>2, <1>3, <2>1, <2>2 DEF drops
<1>15. QED
  BY <1>3, <1>4, <1>7, <1>8, <1>9, <1>10, <1>11, <1>12, <1>13, <1>14, KeptSize
     DEF GovernorInv, Kept

LEMMA GovernorStepInv == ASSUME GovernorInv, [GovernorNext]_governorVars PROVE GovernorInv'
<1> USE DEF GovernorInv, ChangesAreApart, RisesAreEarned, OverloadIsAnswered, Change
<1>1. CASE UNCHANGED governorVars
  BY <1>1 DEF governorVars
<1>2. ASSUME NEW q \in 0..2, UserSetsQuality(q) PROVE GovernorInv'
  BY <1>2 DEF UserSetsQuality
<1>3. ASSUME NEW t \in Time, RecordRenderMs(t) PROVE GovernorInv'
  <2> DEFINE w == [window EXCEPT ![t] = @ + 1]
  <2>1. CASE Size(w) < WindowSize
    <3>1. UNCHANGED <<preset, dwell, good, judged, rendererPreset, quality>>
      BY <1>3, <2>1 DEF RecordRenderMs, PassOn
    <3>2. QED BY <3>1
  <2>2. CASE ~(Size(w) < WindowSize)
    <3>1. Percentile(w) \in Time
      BY DEF Percentile, Time
    <3>2. Judge(Percentile(w)) /\ PassOn
      BY <1>3, <2>2 DEF RecordRenderMs
    <3> HIDE DEF w
    <3>3. QED BY <3>1, <3>2, JudgeInv
  <2>3. QED BY <2>1, <2>2
<1>4. QED BY <1>1, <1>2, <1>3 DEF GovernorNext

\* The governor neither flaps nor sleeps, for every length of the windows, the dwell and
\* the run of fast windows.
THEOREM GovernorSteady == GovernorSpec => []GovernorIsSteady
<1>1. GovernorInv => GovernorIsSteady
  BY DEF GovernorInv, GovernorIsSteady
<1>2. QED BY <1>1, GovernorInitInv, GovernorStepInv, PTL DEF GovernorSpec

-----------------------------------------------------------------------------
(* The virtual camera.  The smooth step is a cubic in the tween, rounded down  *)
(* when it is laid on the way; that it climbs, and how steeply, are facts about *)
(* numbers.                                                                     *)

LEMMA DivIs ==
  ASSUME NEW x \in Nat, NEW a \in Nat \ {0}
  PROVE  x \div a \in Nat /\ a * (x \div a) <= x /\ x < a * (x \div a) + a
OBVIOUS

LEMMA TimesMonotone ==
  ASSUME NEW a \in Nat, NEW x \in Int, NEW y \in Int, x <= y
  PROVE  a * x <= a * y
OBVIOUS

LEMMA TimesCancels ==
  ASSUME NEW a \in Nat \ {0}, NEW x \in Int, NEW y \in Int, a * x <= a * y
  PROVE  x <= y
<1>1. SUFFICES ASSUME x >= y + 1 PROVE FALSE
  OBVIOUS
<1>2. a * (y + 1) <= a * x
  BY <1>1, TimesMonotone
<1>3. a * (y + 1) = a * y + a
  OBVIOUS
<1>. QED  BY <1>2, <1>3

\* A larger number divided is no smaller.
LEMMA DivMonotone ==
  ASSUME NEW x \in Nat, NEW y \in Nat, NEW a \in Nat \ {0}, x <= y
  PROVE  x \div a <= y \div a
<1>. DEFINE p == x \div a  q == y \div a
<1>1. p \in Nat /\ q \in Nat /\ a * p <= x /\ y < a * q + a
  BY DivIs
<1>. HIDE DEF p, q
<1>2. SUFFICES ASSUME p - q >= 1 PROVE FALSE
  BY <1>1 DEF p, q
<1>3. a * (q + 1) <= a * p
  BY <1>1, <1>2, TimesMonotone
<1>4. a * (q + 1) = a * q + a
  BY <1>1
<1>. QED  BY <1>1, <1>3, <1>4

\* The smooth step and its cube, in parts.
Smooth(t) == t * t * (3 * Duration - 2 * t)
Cube == Duration * Duration * Duration

\* The smooth step climbs, nowhere steeper than 3/2.
LEMMA SmoothClimbs ==
  ASSUME NEW a \in Nat, NEW b \in Nat, a <= b, b <= Duration
  PROVE  /\ Smooth(b) - Smooth(a) >= 0
         /\ 2 * (Smooth(b) - Smooth(a)) <= 3 * Duration * Duration * (b - a)
<1>. USE CameraConstants
<1>. DEFINE D == Duration
            c == 3 * D * (a + b) - 2 * (a * a + a * b + b * b)
            e == 3 * D * D - 6 * D * (a + b) + 4 * (a * a + a * b + b * b)
<1>1. Smooth(b) - Smooth(a) = (b - a) * c
  BY DEF Smooth
<1>2. e = 3 * ((D - a - b) * (D - a - b)) + (a - b) * (a - b)
  OBVIOUS
<1>3. (D - a - b) * (D - a - b) \in Nat /\ (a - b) * (a - b) \in Nat
  <2>1. \A x \in Int : x * x \in Nat
    OBVIOUS
  <2>2. D - a - b \in Int /\ a - b \in Int
    OBVIOUS
  <2>. HIDE DEF D
  <2>. QED  BY <2>1, <2>2
<1>4. 3 * D * D * (b - a) - 2 * ((b - a) * c) = (b - a) * e
  OBVIOUS
<1>5. c = 3 * ((D - b) * (a + b)) + (b - a) * (b + 2 * a)
  OBVIOUS
<1>6. (D - b) * (a + b) \in Nat /\ (b - a) * (b + 2 * a) \in Nat
  OBVIOUS
<1>7. c \in Nat /\ e \in Nat /\ c \in Int /\ e \in Int
  <2>1. c \in Int /\ e \in Int
    OBVIOUS
  <2>. HIDE DEF c, e
  <2>. QED  BY <1>2, <1>3, <1>5, <1>6, <2>1
<1>. HIDE DEF c, e
<1>8. (b - a) * c >= 0 /\ (b - a) * e >= 0
  <2>1. b - a \in Nat
    OBVIOUS
  <2>. QED  BY <1>7, <2>1
<1>. QED  BY <1>1, <1>4, <1>7, <1>8 DEF Smooth

\* How far the view has come on a way of m, and how far a tick takes it.
Come(m, t) == (m * Smooth(t)) \div Cube

LEMMA ComeIs ==
  ASSUME NEW m \in Nat, NEW t \in 0..Duration
  PROVE  /\ Smooth(t) \in 0..Cube /\ Cube \in Nat \ {0} /\ m * Smooth(t) \in Nat
         /\ Come(m, t) \in 0..m
         /\ Come(m, 0) = 0 /\ Come(m, Duration) = m
<1>. USE CameraConstants
<1>1. Smooth(0) = 0 /\ Smooth(Duration) = Cube /\ Smooth(t) \in Int /\ Cube \in Nat \ {0}
  BY DEF Smooth, Cube
<1>2. Smooth(t) - Smooth(0) >= 0 /\ Smooth(Duration) - Smooth(t) >= 0
  BY SmoothClimbs
<1>3. Smooth(t) \in 0..Cube
  BY <1>1, <1>2
<1>4. m * Smooth(t) \in Nat /\ m * Cube \in Nat /\ m * Smooth(t) <= m * Cube
  <2>1. Smooth(t) \in Nat /\ Cube \in Nat /\ Smooth(t) <= Cube
    BY <1>1, <1>3
  <2>. QED  BY <2>1, TimesMonotone
<1>5. (m * Cube) \div Cube = m
  <2>. DEFINE q == (m * Cube) \div Cube
  <2>1. q \in Nat /\ Cube * q <= m * Cube /\ m * Cube < Cube * q + Cube
    BY <1>1, <1>4, DivIs
  <2>. HIDE DEF q
  <2>2. Cube * q <= Cube * m /\ Cube * m < Cube * (q + 1)
    BY <1>1, <2>1
  <2>3. q <= m
    BY <1>1, <2>1, <2>2, TimesCancels
  <2>4. ~(q + 1 <= m)
    <3>1. SUFFICES ASSUME q + 1 <= m PROVE FALSE
      OBVIOUS
    <3>2. Cube * (q + 1) <= Cube * m
      BY <1>1, <2>1, <3>1, TimesMonotone
    <3>. HIDE DEF Cube
    <3>. QED  BY <1>1, <2>1, <2>2, <3>2
  <2>. QED  BY <2>1, <2>3, <2>4 DEF q
<1>6. Come(m, t) <= m /\ Come(m, t) \in Nat
  <2>1. Come(m, t) \in Nat
    BY <1>1, <1>4, DivIs DEF Come
  <2>2. (m * Smooth(t)) \div Cube <= (m * Cube) \div Cube
    BY <1>1, <1>4, DivMonotone
  <2>. QED  BY <1>5, <2>1, <2>2 DEF Come
<1>7. Come(m, 0) = 0 /\ Come(m, Duration) = m
  <2>1. m * 0 = 0 /\ 0 \div Cube = 0
    BY <1>1
  <2>. QED  BY <1>1, <1>5, <2>1 DEF Come
<1>. QED  BY <1>1, <1>3, <1>4, <1>6, <1>7

LEMMA ComeClimbs ==
  ASSUME NEW m \in Nat, NEW t \in 0..Duration, NEW u \in 0..Duration, t <= u, u <= t + Step
  PROVE  /\ Come(m, t) <= Come(m, u)
         /\ 2 * Duration * (Come(m, u) - Come(m, t)) <= 3 * Step * m + 2 * Duration
<1>. DEFINE D == Duration
            x == m * Smooth(t)  y == m * Smooth(u)
            p == Come(m, t)  q == Come(m, u)
<1>0. D \in Nat \ {0} /\ Step \in Nat /\ t \in Nat /\ u \in Nat
  BY CameraConstants
<1>1. /\ Smooth(t) \in Nat /\ Smooth(u) \in Nat /\ Cube \in Nat \ {0}
      /\ x \in Nat /\ y \in Nat /\ p \in Nat /\ q \in Nat
  <2>1. Smooth(t) \in 0..Cube /\ Cube \in Nat \ {0} /\ x \in Nat /\ p \in 0..m
    BY ComeIs
  <2>2. Smooth(u) \in 0..Cube /\ y \in Nat /\ q \in 0..m
    BY ComeIs
  <2>. HIDE DEF x, y, p, q
  <2>. QED  BY <2>1, <2>2
<1>2. /\ Smooth(u) - Smooth(t) >= 0
      /\ 2 * (Smooth(u) - Smooth(t)) <= 3 * D * D * (u - t)
  BY <1>0, SmoothClimbs
<1>3. x <= y
  BY <1>1, <1>2, TimesMonotone
<1>4. p <= q
  BY <1>1, <1>3, DivMonotone DEF Come
<1>5. Cube * q <= y /\ x < Cube * p + Cube
  BY <1>1, DivIs DEF Come
<1>6. 2 * (y - x) <= 3 * D * D * (m * Step)
  <2>1. 3 * D * D * (u - t) <= 3 * D * D * Step
    <3>1. 3 * D * D \in Nat /\ u - t \in Int /\ u - t <= Step
      BY <1>0
    <3>. QED  BY <1>0, <3>1, TimesMonotone
  <2>2. 2 * (Smooth(u) - Smooth(t)) <= 3 * D * D * Step
    BY <1>0, <1>1, <1>2, <2>1
  <2>3. m * (2 * (Smooth(u) - Smooth(t))) <= m * (3 * D * D * Step)
    BY <1>0, <1>1, <2>2, TimesMonotone
  <2>4. m * (2 * (Smooth(u) - Smooth(t))) = 2 * (y - x)
    BY <1>1
  <2>5. m * (3 * D * D * Step) = 3 * D * D * (m * Step)
    BY <1>0
  <2>. QED  BY <2>3, <2>4, <2>5
<1>7. (D * D) * (2 * D * (q - p)) <= (D * D) * (3 * Step * m + 2 * D)
  <2>1. Cube * (q - p) = Cube * q - Cube * p
    BY <1>1
  <2>2. 2 * (Cube * (q - p)) <= 2 * (y - x) + 2 * Cube
    <3>. HIDE DEF p, q, x, y
    <3>1. Cube * p \in Int /\ Cube * q \in Int
      BY <1>1
    <3>. QED  BY <1>1, <1>5, <2>1, <3>1
  <2>3. (D * D) * (2 * D * (q - p)) = 2 * (Cube * (q - p))
    BY <1>0, <1>1 DEF Cube
  <2>4. (D * D) * (3 * Step * m + 2 * D) = 3 * D * D * (m * Step) + 2 * Cube
    BY <1>0 DEF Cube
  <2>5. 2 * (Cube * (q - p)) \in Int /\ 2 * (y - x) \in Int /\ 3 * D * D * (m * Step) \in Int
    BY <1>0, <1>1
  <2>. QED  BY <1>1, <1>6, <2>2, <2>3, <2>4, <2>5
<1>8. D * D \in Nat \ {0} /\ 2 * D * (q - p) \in Int /\ 3 * Step * m + 2 * D \in Int
  BY <1>0, <1>1
<1>. HIDE DEF D, p, q
<1>9. 2 * D * (q - p) <= 3 * Step * m + 2 * D
  BY <1>7, <1>8, TimesCancels
<1>. QED  BY <1>4, <1>9 DEF D, p, q

\* The view is where the tween has brought it.
CameraInv ==
  /\ cur \in Int /\ src \in Int /\ dst \in Int
  /\ tween \in 0..Duration
  /\ active \in 0..5
  /\ cur = Between(src, dst, tween)
  /\ active # 0 => dst = Presets[active]

LEMMA BetweenIs ==
  ASSUME NEW s \in Int, NEW d \in Int, NEW t
  PROVE  Between(s, d, t) = IF d >= s THEN s + Come(d - s, t) ELSE s - Come(s - d, t)
BY DEF Between, Come, Smooth, Cube

LEMMA BetweenEnds ==
  ASSUME NEW s \in Int, NEW d \in Int
  PROVE  Between(s, d, 0) = s /\ Between(s, d, Duration) = d
<1>1. 0 \in 0..Duration /\ Duration \in 0..Duration
  BY CameraConstants
<1>2. CASE d >= s
  <2>1. d - s \in Nat
    BY <1>2
  <2>2. Come(d - s, 0) = 0 /\ Come(d - s, Duration) = d - s
    BY <1>1, <2>1, ComeIs
  <2>. QED  BY <1>2, <2>2, BetweenIs
<1>3. CASE ~(d >= s)
  <2>1. s - d \in Nat
    BY <1>3
  <2>2. Come(s - d, 0) = 0 /\ Come(s - d, Duration) = s - d
    BY <1>1, <2>1, ComeIs
  <2>. QED  BY <1>3, <2>2, BetweenIs
<1>. QED  BY <1>2, <1>3

LEMMA BetweenInt ==
  ASSUME NEW s \in Int, NEW d \in Int, NEW t \in 0..Duration
  PROVE  Between(s, d, t) \in Int
<1>1. CASE d >= s
  <2>1. d - s \in Nat
    BY <1>1
  <2>2. Come(d - s, t) \in Nat
    BY <2>1, ComeIs
  <2>. QED  BY <1>1, <2>2, BetweenIs
<1>2. CASE ~(d >= s)
  <2>1. s - d \in Nat
    BY <1>2
  <2>2. Come(s - d, t) \in Nat
    BY <2>1, ComeIs
  <2>. QED  BY <1>2, <2>2, BetweenIs
<1>. QED  BY <1>1, <1>2

LEMMA BetweenGlides ==
  ASSUME NEW s \in Int, NEW d \in Int, NEW t \in 0..Duration, NEW u \in 0..Duration,
         t <= u, u <= t + Step
  PROVE  LET x == Between(s, d, t) y == Between(s, d, u) IN
         /\ Distance(y, d) <= Distance(x, d)
         /\ 2 * Duration * Distance(y, x) <= 3 * Step * Distance(s, d) + 2 * Duration
<1>. DEFINE m == IF d >= s THEN d - s ELSE s - d
            p == Come(m, t)  q == Come(m, u)
<1>1. m \in Nat /\ m = Distance(s, d)
  BY DEF Distance
<1>2. /\ p \in 0..m /\ q \in 0..m /\ p <= q
      /\ 2 * Duration * (q - p) <= 3 * Step * m + 2 * Duration
  <2>. HIDE DEF m
  <2>. QED  BY <1>1, ComeIs, ComeClimbs
<1>3. CASE d >= s
  <2>1. Between(s, d, t) = s + p /\ Between(s, d, u) = s + q /\ m = d - s
    BY <1>3, BetweenIs
  <2>. HIDE DEF m, p, q
  <2>2. /\ Distance(s + q, d) = m - q /\ Distance(s + p, d) = m - p
        /\ Distance(s + q, s + p) = q - p
    BY <1>1, <1>2, <2>1 DEF Distance
  <2>. QED  BY <1>1, <1>2, <2>1, <2>2
<1>4. CASE ~(d >= s)
  <2>1. Between(s, d, t) = s - p /\ Between(s, d, u) = s - q /\ m = s - d
    BY <1>4, BetweenIs
  <2>. HIDE DEF m, p, q
  <2>2. /\ Distance(s - q, d) = m - q /\ Distance(s - p, d) = m - p
        /\ Distance(s - q, s - p) = q - p
    BY <1>1, <1>2, <2>1 DEF Distance
  <2>. QED  BY <1>1, <1>2, <2>1, <2>2
<1>. QED  BY <1>3, <1>4

\* A view that has come to rest is the preset the node reports, or the free look, whatever
\* was asked for on the way.
LEMMA CameraHeads == CameraInv => HeadsForTheActive
BY BetweenEnds, CameraConstants DEF CameraInv, HeadsForTheActive

LEMMA PresetsAreLooks == \A p \in 1..5 : Presets[p] \in Int
BY CameraConstants

LEMMA CameraInitInv == CameraInit => CameraInv
BY CameraConstants, PresetsAreLooks, BetweenEnds DEF CameraInit, CameraInv

\* A step keeps the invariant and is as ViewGlides says.
LEMMA CameraStep ==
  ASSUME CameraInv, CameraNext
  PROVE  CameraInv' /\ (cur' # cur => active' = 0 \/ GlidesTowards)
<1>. USE CameraConstants DEF CameraInv
<1>1. CASE AdvanceTween /\ tween < Duration
  <2>. DEFINE t == IF tween + Step > Duration THEN Duration ELSE tween + Step
  <2>1. /\ tween' = t /\ cur' = Between(src, dst, t)
        /\ src' = src /\ dst' = dst /\ active' = active
    BY <1>1 DEF AdvanceTween
  <2>2. t \in 0..Duration /\ tween <= t /\ t <= tween + Step
    BY <1>1
  <2>. HIDE DEF t
  <2>3. CameraInv'
    BY <2>1, <2>2, BetweenInt
  <2>4. GlidesTowards
    BY <2>1, <2>2, BetweenGlides DEF GlidesTowards
  <2>. QED  BY <2>3, <2>4
<1>2. CASE AdvanceTween /\ ~(tween < Duration)
  <2>1. UNCHANGED cameraVars
    BY <1>2 DEF AdvanceTween, cameraVars
  <2>. QED  BY <2>1 DEF cameraVars
<1>3. ASSUME NEW p \in 0..6, SetVirtualCam(p) PROVE CameraInv' /\ cur' = cur
  <2>1. DOMAIN Presets = 1..5
    OBVIOUS
  <2>2. CASE p \in 1..5
    <3>1. src' = cur /\ dst' = Presets[p] /\ tween' = 0 /\ active' = p /\ cur' = cur
      BY <1>3, <2>1, <2>2 DEF SetVirtualCam
    <3>2. Between(cur, Presets[p], 0) = cur
      BY <2>2, BetweenEnds, PresetsAreLooks
    <3>. QED  BY <2>2, <3>1, <3>2, PresetsAreLooks
  <2>3. CASE p \notin 1..5
    BY <1>3, <2>1, <2>3 DEF SetVirtualCam, cameraVars
  <2>. QED  BY <2>2, <2>3
<1>4. ASSUME NEW point \in Looks, SetLook(point) PROVE CameraInv' /\ active' = 0
  <2>1. /\ cur' = point /\ src' = point /\ dst' = point /\ tween' = Duration /\ active' = 0
        /\ point \in Int
    BY <1>4 DEF SetLook
  <2>. QED  BY <2>1, BetweenEnds
<1>. QED  BY <1>1, <1>2, <1>3, <1>4 DEF CameraNext

\* Whatever is asked for and when, the view glides to the preset it reports, ever closer,
\* by no more in a tick than the smooth step allows, and ends there; only a free look
\* moves it at once. For any presets, any length of the tween and of a tick.
THEOREM CameraViewGlides == CameraSpec => []HeadsForTheActive /\ ViewGlides
<1>1. CameraInv => HeadsForTheActive
  BY CameraHeads
<1>2. CameraInv /\ [CameraNext]_cameraVars => CameraInv'
  BY CameraStep DEF cameraVars, CameraInv
<1>3. CameraInv /\ CameraInv' /\ [CameraNext]_cameraVars =>
        [HeadsForTheActive' /\ (cur' # cur => active' = 0 \/ GlidesTowards)]_cameraVars
  <2>1. CameraInv' => HeadsForTheActive'
    <3>. QED BY <1>1, PTL
  <2>. QED  BY <2>1, CameraStep DEF cameraVars
<1>. QED  BY <1>1, <1>2, <1>3, CameraInitInv, PTL DEF CameraSpec, ViewGlides

-----------------------------------------------------------------------------
\* Nothing is moved before the bowl is there or an image has come; else the two copies of
\* the motions are one.
MotionInv ==
  /\ stamp \in [Camera -> Int]
  /\ motionDelta = last_deltas
  /\ Stamped = {} \/ ~config_applied => motionDelta = [c \in Camera |-> Identity]
  /\ OneReference

LEMMA NewestIsOne ==
  ASSUME stamp \in [Camera -> Int], NEW a, NEW b, NewestStamp(a), NewestStamp(b)
  PROVE  a = b
<1>1. PICK c \in Stamped : a = stamp[c]
  BY DEF NewestStamp
<1>2. PICK d \in Stamped : b = stamp[d]
  BY DEF NewestStamp
<1>3. a \in Int /\ b \in Int /\ a <= b /\ b <= a
  BY <1>1, <1>2 DEF NewestStamp, Stamped
<1>. QED  BY <1>3

\* A camera that is moved is moved to the reference.
LEMMA RigDeltaLeads ==
  ASSUME NEW from, NEW ref, RigDelta(from, ref) # Identity
  PROVE  RigDelta(from, ref)[2] = ref
BY DEF RigDelta

LEMMA MotionTickInv ==
  ASSUME MotionInv, NEW again \in BOOLEAN, NEW taken \in 0..MaxStamp, MotionTick(again, taken)
  PROVE  MotionInv'
<1>. USE DEF MotionInv
<1>1. stamp' = stamp /\ Stamped' = Stamped
  BY DEF MotionTick, ingestVars, Stamped
<1>2. CASE Stamped # {} /\ config_applied'
  <2>1. PICK ref \in 1..MaxStamp : NewestStamp(ref) /\ motionDelta' = Deltas(ref)
    BY <1>2 DEF MotionTick, Move
  <2>2. last_deltas' = motionDelta'
    BY <1>2 DEF MotionTick, Move
  <2>3. \A c \in Camera : motionDelta'[c] # Identity => motionDelta'[c][2] = ref
    BY <2>1, RigDeltaLeads DEF Deltas
  <2>4. cloudDelta' # Identity => cloudDelta'[2] = ref
    <3>. DEFINE newest == CHOOSE r \in 1..MaxStamp : NewestStamp(r)
    <3>1. newest = ref
      BY <2>1, NewestIsOne
    <3>2. cloudDelta' # Identity => cloudDelta' = RigDelta(taken, newest)
      BY DEF MotionTick, MoveCloud, CloudCompDelta
    <3>. QED  BY <3>1, <3>2, RigDeltaLeads
  <2>5. OneReference'
    BY <2>3, <2>4 DEF OneReference
  <2>. QED  BY <1>1, <1>2, <2>2, <2>5
<1>3. CASE Stamped = {} \/ ~config_applied'
  <2>1. config_applied => config_applied'
    BY DEF MotionTick
  <2>2. motionDelta = [c \in Camera |-> Identity]
    BY <1>3, <2>1
  <2>3. motionDelta' = [c \in Camera |-> Identity] /\ last_deltas' = last_deltas
    BY <1>3, <2>2 DEF MotionTick, Move, Slots
  <2>4. OneReference'
    BY <2>3 DEF OneReference
  <2>. QED  BY <1>1, <2>2, <2>3, <2>4
<1>. QED  BY <1>2, <1>3

LEMMA MotionNextInv == MotionInv /\ [MotionNext]_motionVars => MotionInv'
<1>. SUFFICES ASSUME MotionInv, [MotionNext]_motionVars PROVE MotionInv'
  OBVIOUS
<1>. USE DEF MotionInv
<1>1. ASSUME NEW c \in Camera, CameraInfo(c)
      PROVE  MotionInv'
  BY <1>1 DEF CameraInfo, deltaVars, Stamped, OneReference
<1>2. ASSUME NEW c \in Camera, NEW t \in 1..MaxStamp, Image(c, t)
      PROVE  MotionInv'
  <2>1. stamp' \in [Camera -> Int] /\ Stamped' # {}
    BY <1>2 DEF Image, Stamped
  <2>2. UNCHANGED <<motionDelta, last_deltas, cloudDelta, config_applied>>
    BY <1>2 DEF Image, deltaVars
  <2>. QED  BY <2>1, <2>2 DEF OneReference
<1>3. CASE Odometry
  BY <1>3 DEF Odometry, deltaVars, Stamped, OneReference
<1>4. CASE SetConsumed
  BY <1>4 DEF SetConsumed, ingestVars, deltaVars, Stamped,
              OneReference
<1>5. CASE UNCHANGED motionVars
  BY <1>5 DEF motionVars, ingestVars, deltaVars, Stamped,
              OneReference
<1>. QED  BY <1>1, <1>2, <1>3, <1>4, <1>5, MotionTickInv DEF MotionNext

LEMMA MotionInvariant == MotionSpec => []MotionInv
<1>1. MotionInit => MotionInv
  BY DEF MotionInit, MotionInv, OneReference
<1>. QED  BY <1>1, MotionNextInv, PTL DEF MotionSpec

\* What is moved in a picture is moved to one moment, whatever the order and the distance
\* of the stamps, and the cloud is coloured through the very motions that the bowl shader
\* applies, with the bowl baked again at any time (update_motion_deltas,
\* cloud_motion_delta, timer_callback, set_bowl_config).
THEOREM MotionOneMoment == MotionSpec => []OneMoment
<1>1. MotionInv => OneMoment
  BY DEF MotionInv, OneMoment, SameDeltas
<1>. QED  BY <1>1, MotionInvariant, PTL

-----------------------------------------------------------------------------
\* A set of numbers has a least one, and with it an induction over a set.
LEMMA Least ==
  ASSUME NEW S \in SUBSET Nat, S # {}
  PROVE  \E m \in S : \A k \in S : m <= k
<1>. DEFINE R == OpToRel(<, Nat)
<1>1. IsWellFoundedOn(R, Nat)
  BY NatLessThanWellFounded
<1>2. \A x, y \in Nat : x < y => <<x, y>> \in R
  BY DEF OpToRel
<1>. HIDE DEF R
<1>3. PICK m \in S : \A k \in S : <<k, m>> \notin R
  BY <1>1, WFMin
<1>4. ASSUME NEW k \in S, ~(m <= k) PROVE FALSE
  <2>1. k \in Nat /\ m \in Nat /\ k < m
    BY <1>4
  <2>. QED  BY <2>1, <1>2, <1>3
<1>. QED  BY <1>4

LEMMA Induction ==
  ASSUME NEW n \in Nat, NEW S, 0 \in S, \A k \in 0..n - 1 : k \in S => k + 1 \in S
  PROVE  n \in S
<1>. DEFINE B == {k \in 0..n : k \notin S}
<1>. SUFFICES ASSUME B # {} PROVE FALSE
  OBVIOUS
<1>0. B \in SUBSET Nat
  OBVIOUS
<1>. HIDE DEF B
<1>1. PICK m \in B : \A k \in B : m <= k
  BY <1>0, Least
<1>. USE DEF B
<1>2. m - 1 \in 0..n - 1
  BY <1>1
<1>3. m - 1 \in S
  BY <1>1, <1>2
<1>. QED  BY <1>1, <1>2, <1>3

-----------------------------------------------------------------------------
\* The geo anchor.  Everything happens along two axes, so that a quarter turn
\* swaps the coordinates and changes their signs.
Position == [north : Int, east : Int]
Pose == [x : Int, y : Int]

LEMMA Turns ==
  /\ Sin(0) = 0 /\ Sin(1) = 1 /\ Sin(2) = 0 /\ Sin(3) = -1
  /\ Cos(0) = 1 /\ Cos(1) = 0 /\ Cos(2) = -1 /\ Cos(3) = 0
BY DEF Sin, Cos

LEMMA TurnedPose ==
  ASSUME NEW a, a.north \in Int, a.east \in Int, a.heading \in 0..3, NEW xy \in Pose
  PROVE  /\ MapToWgs(a, xy) \in Position
         /\ a.heading = 0 => MapToWgs(a, xy).north = a.north + xy.x
                             /\ MapToWgs(a, xy).east = a.east - xy.y
         /\ a.heading = 1 => MapToWgs(a, xy).north = a.north + xy.y
                             /\ MapToWgs(a, xy).east = a.east + xy.x
         /\ a.heading = 2 => MapToWgs(a, xy).north = a.north - xy.x
                             /\ MapToWgs(a, xy).east = a.east + xy.y
         /\ a.heading = 3 => MapToWgs(a, xy).north = a.north - xy.y
                             /\ MapToWgs(a, xy).east = a.east - xy.x
BY Turns DEF MapToWgs, Position, Pose

\* The vehicle's place on its street, in the map.
LEMMA OnTheStreet ==
  ASSUME course \in 0..3, NEW p \in Int
  PROVE  /\ Along(p) \in Pose
         /\ course = 0 => Along(p).x = p /\ Along(p).y = 0
         /\ course = 1 => Along(p).x = 0 /\ Along(p).y = p
         /\ course = 2 => Along(p).x = -p /\ Along(p).y = 0
         /\ course = 3 => Along(p).x = 0 /\ Along(p).y = -p
BY Turns DEF Along, Pose

Heard(q) == MapToWgs(TrueAnchor, Along(q))

LEMMA TrueAnchorIsFrame ==
  /\ TrueAnchor.north \in Int /\ TrueAnchor.east \in Int /\ TrueAnchor.heading \in 0..3
BY AnchorConstants

LEMMA FixIsPosition == ASSUME course \in 0..3, NEW q \in Int PROVE Heard(q) \in Position
BY TurnedPose, OnTheStreet, TrueAnchorIsFrame DEF Heard

\* A pose and the fix that was taken d before it imply the true origin but for d.
LEMMA ImpliedIsNear ==
  ASSUME course \in 0..3, NEW p \in Int, NEW q \in Int, NEW d \in Nat, q - p \in -d..d
  PROVE  LET o == Implied(Heard(q), Along(p), TrueAnchor.heading)
         IN  /\ o.north \in Int /\ o.east \in Int
             /\ o.north - TrueAnchor.north \in -d..d
             /\ o.east - TrueAnchor.east \in -d..d
<1>. DEFINE h == TrueAnchor.heading
            z == [north |-> 0, east |-> 0, heading |-> h]
            at == MapToWgs(z, Along(p))
            f == Heard(q)
            o == Implied(f, Along(p), h)
<1>1. o.north = f.north - at.north /\ o.east = f.east - at.east
  BY DEF Implied
<1>2. /\ at \in Position
      /\ h = 0 => at.north = Along(p).x /\ at.east = -Along(p).y
      /\ h = 1 => at.north = Along(p).y /\ at.east = Along(p).x
      /\ h = 2 => at.north = -Along(p).x /\ at.east = Along(p).y
      /\ h = 3 => at.north = -Along(p).y /\ at.east = -Along(p).x
  <2>1. /\ z.north = 0 /\ z.east = 0 /\ z.heading = h
        /\ Along(p) \in Pose /\ Along(p).x \in Int /\ Along(p).y \in Int
    BY OnTheStreet DEF Pose
  <2>. HIDE DEF z, h
  <2>2. z.heading \in 0..3
    BY <2>1, TrueAnchorIsFrame DEF h
  <2>3. /\ at \in Position
        /\ z.heading = 0 => at.north = z.north + Along(p).x /\ at.east = z.east - Along(p).y
        /\ z.heading = 1 => at.north = z.north + Along(p).y /\ at.east = z.east + Along(p).x
        /\ z.heading = 2 => at.north = z.north - Along(p).x /\ at.east = z.east + Along(p).y
        /\ z.heading = 3 => at.north = z.north - Along(p).y /\ at.east = z.east - Along(p).x
    <3>1. z.north \in Int /\ z.east \in Int
      BY <2>1
    <3>. QED  BY <2>1, <2>2, <3>1, TurnedPose
  <2>. HIDE DEF at
  <2>. QED  BY <2>1, <2>3
<1>3. /\ f \in Position
      /\ h = 0 => f.north = TrueAnchor.north + Along(q).x /\ f.east = TrueAnchor.east - Along(q).y
      /\ h = 1 => f.north = TrueAnchor.north + Along(q).y /\ f.east = TrueAnchor.east + Along(q).x
      /\ h = 2 => f.north = TrueAnchor.north - Along(q).x /\ f.east = TrueAnchor.east + Along(q).y
      /\ h = 3 => f.north = TrueAnchor.north - Along(q).y /\ f.east = TrueAnchor.east - Along(q).x
  BY TurnedPose, OnTheStreet, TrueAnchorIsFrame DEF Heard
<1>. HIDE DEF o, at, f
<1>4. h \in 0..3 /\ TrueAnchor.north \in Int /\ TrueAnchor.east \in Int
  BY TrueAnchorIsFrame
<1>. HIDE DEF h
<1>5. o.north \in Int /\ o.east \in Int
  BY <1>1, <1>2, <1>3 DEF Position
<1>6. /\ course = 0 => Along(p).x = p /\ Along(p).y = 0 /\ Along(q).x = q /\ Along(q).y = 0
      /\ course = 1 => Along(p).x = 0 /\ Along(p).y = p /\ Along(q).x = 0 /\ Along(q).y = q
      /\ course = 2 => Along(p).x = -p /\ Along(p).y = 0 /\ Along(q).x = -q /\ Along(q).y = 0
      /\ course = 3 => Along(p).x = 0 /\ Along(p).y = -p /\ Along(q).x = 0 /\ Along(q).y = -q
  BY OnTheStreet
<1>7. /\ o.north - TrueAnchor.north \in {q - p, p - q, 0}
      /\ o.east - TrueAnchor.east \in {q - p, p - q, 0}
  <2>1. /\ Along(p).x \in Int /\ Along(p).y \in Int /\ Along(q).x \in Int /\ Along(q).y \in Int
        /\ Along(q).x - Along(p).x \in {q - p, p - q, 0}
        /\ Along(q).y - Along(p).y \in {q - p, p - q, 0}
        /\ Along(p).x - Along(q).x \in {q - p, p - q, 0}
        /\ Along(p).y - Along(q).y \in {q - p, p - q, 0}
    BY ONLY <1>6, course \in 0..3, p \in Int, q \in Int
  <2>2. /\ o.north - TrueAnchor.north = (f.north - TrueAnchor.north) - at.north
        /\ o.east - TrueAnchor.east = (f.east - TrueAnchor.east) - at.east
    BY <1>1, <1>2, <1>3, <1>4 DEF Position
  <2>3. CASE h = 0
    <3>1. /\ (f.north - TrueAnchor.north) - at.north = Along(q).x - Along(p).x
          /\ (f.east - TrueAnchor.east) - at.east = Along(p).y - Along(q).y
      BY ONLY <1>2, <1>3, <1>4, <2>1, <2>3
    <3>. QED  BY ONLY <2>1, <2>2, <3>1
  <2>4. CASE h = 1
    <3>1. /\ (f.north - TrueAnchor.north) - at.north = Along(q).y - Along(p).y
          /\ (f.east - TrueAnchor.east) - at.east = Along(q).x - Along(p).x
      BY ONLY <1>2, <1>3, <1>4, <2>1, <2>4
    <3>. QED  BY ONLY <2>1, <2>2, <3>1
  <2>5. CASE h = 2
    <3>1. /\ (f.north - TrueAnchor.north) - at.north = Along(p).x - Along(q).x
          /\ (f.east - TrueAnchor.east) - at.east = Along(q).y - Along(p).y
      BY ONLY <1>2, <1>3, <1>4, <2>1, <2>5
    <3>. QED  BY ONLY <2>1, <2>2, <3>1
  <2>6. CASE h = 3
    <3>1. /\ (f.north - TrueAnchor.north) - at.north = Along(p).y - Along(q).y
          /\ (f.east - TrueAnchor.east) - at.east = Along(p).x - Along(q).x
      BY ONLY <1>2, <1>3, <1>4, <2>1, <2>6
    <3>. QED  BY ONLY <2>1, <2>2, <3>1
  <2>. QED  BY <1>4, <2>3, <2>4, <2>5, <2>6
<1>. QED  BY <1>4, <1>5, <1>7 DEF o, f, h

LEMMA DriveGivesHeading ==
  ASSUME course \in 0..3, NEW p \in Int, NEW q \in Int, NEW r \in Int, NEW s \in Int,
         (r > p /\ s > q) \/ (r < p /\ s < q)
  PROVE  (Quarters(Heard(s).north - Heard(q).north, Heard(s).east - Heard(q).east)
            + Quarters(Along(r).x - Along(p).x, Along(r).y - Along(p).y)) % 4
         = TrueAnchor.heading
<1>. DEFINE h == TrueAnchor.heading
            n == Heard(s).north - Heard(q).north
            e == Heard(s).east - Heard(q).east
            x == Along(r).x - Along(p).x
            y == Along(r).y - Along(p).y
            d == s - q
            w == r - p
<1>1. /\ h = 0 => n = Along(s).x - Along(q).x /\ e = Along(q).y - Along(s).y
      /\ h = 1 => n = Along(s).y - Along(q).y /\ e = Along(s).x - Along(q).x
      /\ h = 2 => n = Along(q).x - Along(s).x /\ e = Along(s).y - Along(q).y
      /\ h = 3 => n = Along(q).y - Along(s).y /\ e = Along(q).x - Along(s).x
  <2>1. Along(s) \in Pose /\ Along(q) \in Pose
    BY OnTheStreet
  <2>. QED  BY <2>1, TurnedPose, TrueAnchorIsFrame DEF Heard, Pose
<1>2. /\ n \in Int /\ e \in Int /\ x \in Int /\ y \in Int /\ d \in Int /\ w \in Int
  <2>1. Heard(s) \in Position /\ Heard(q) \in Position /\ Along(r) \in Pose /\ Along(p) \in Pose
    BY FixIsPosition, OnTheStreet
  <2>. QED  BY <2>1 DEF Position, Pose
<1>3. /\ course = 0 => x = w /\ y = 0 /\ Along(s).x - Along(q).x = d /\ Along(s).y = 0 /\ Along(q).y = 0
      /\ course = 1 => x = 0 /\ y = w /\ Along(s).y - Along(q).y = d /\ Along(s).x = 0 /\ Along(q).x = 0
      /\ course = 2 => x = -w /\ y = 0 /\ Along(q).x - Along(s).x = d /\ Along(s).y = 0 /\ Along(q).y = 0
      /\ course = 3 => x = 0 /\ y = -w /\ Along(q).y - Along(s).y = d /\ Along(s).x = 0 /\ Along(q).x = 0
  BY OnTheStreet
<1>4. h \in 0..3
  BY TrueAnchorIsFrame
<1>5. (w > 0 /\ d > 0) \/ (w < 0 /\ d < 0)
  OBVIOUS
<1>6. /\ Along(s).x \in Int /\ Along(s).y \in Int /\ Along(q).x \in Int /\ Along(q).y \in Int
  BY OnTheStreet DEF Pose
<1>. HIDE DEF h, n, e, x, y, d, w
<1>7. CASE course = 0
  <2>1. /\ h = 0 => n = d /\ e = 0
        /\ h = 1 => n = 0 /\ e = d
        /\ h = 2 => n = -d /\ e = 0
        /\ h = 3 => n = 0 /\ e = -d
    BY <1>1, <1>2, <1>3, <1>6, <1>7, SMTT(60)
  <2>. QED  BY <1>2, <1>3, <1>4, <1>5, <1>7, <2>1 DEF Quarters, h, n, e, x, y
<1>8. CASE course = 1
  <2>1. /\ h = 0 => n = 0 /\ e = -d
        /\ h = 1 => n = d /\ e = 0
        /\ h = 2 => n = 0 /\ e = d
        /\ h = 3 => n = -d /\ e = 0
    BY <1>1, <1>2, <1>3, <1>6, <1>8, SMTT(60)
  <2>. QED  BY <1>2, <1>3, <1>4, <1>5, <1>8, <2>1 DEF Quarters, h, n, e, x, y
<1>9. CASE course = 2
  <2>1. /\ h = 0 => n = -d /\ e = 0
        /\ h = 1 => n = 0 /\ e = -d
        /\ h = 2 => n = d /\ e = 0
        /\ h = 3 => n = 0 /\ e = d
    BY <1>1, <1>2, <1>3, <1>6, <1>9, SMTT(60)
  <2>. QED  BY <1>2, <1>3, <1>4, <1>5, <1>9, <2>1 DEF Quarters, h, n, e, x, y
<1>10. CASE course = 3
  <2>1. /\ h = 0 => n = 0 /\ e = d
        /\ h = 1 => n = -d /\ e = 0
        /\ h = 2 => n = 0 /\ e = -d
        /\ h = 3 => n = d /\ e = 0
    BY <1>1, <1>2, <1>3, <1>6, <1>10, SMTT(60)
  <2>. QED  BY <1>2, <1>3, <1>4, <1>5, <1>10, <2>1 DEF Quarters, h, n, e, x, y
<1>. QED  BY <1>7, <1>8, <1>9, <1>10

LEMMA OneMore == \A k \in Nat, m \in Int : (k + 1) * m = k * m + m /\ k * m \in Int
OBVIOUS

LEMMA MinusTimes == \A k \in Nat, m \in Int : -k * m = -(k * m)
OBVIOUS

LEMMA TimesSum == \A k, m, n \in Int : k * (m + n) = k * n + k * m
OBVIOUS

LEMMA NoneYet == \A m \in Int : 0 * m = 0
OBVIOUS

LEMMA AddedUp ==
  \A a, b, m, n, c, d \in Int :
    a - m \in -c..c /\ b - n \in -d..d => (a + b) - (m + n) \in -(c + d)..(c + d)
OBVIOUS

\* Pair i is of a moment at which the pose was at most Lag from the fix.
IsPair(fix, xy) == \E p, q \in Int : q - p \in -Lag..Lag /\ fix = Heard(q) /\ xy = Along(p)

\* The sum that the origin is the mean of is what its definition says, and it is as far
\* from the truth as so many pairs can be.
LEMMA OriginSumIsNear ==
  ASSUME course \in 0..3, NEW fs, NEW xys, Len(fs) \in Nat,
         \A i \in 1..Len(fs) : IsPair(fs[i], xys[i])
  PROVE  LET sum == OriginSum(fs, xys, TrueAnchor.heading)
             n == Len(fs)
         IN  /\ sum.north \in Int /\ sum.east \in Int
             /\ sum.north - n * TrueAnchor.north \in -(n * Lag)..(n * Lag)
             /\ sum.east - n * TrueAnchor.east \in -(n * Lag)..(n * Lag)
<1>. DEFINE h == TrueAnchor.heading
            n == Len(fs)
            N == TrueAnchor.north
            E == TrueAnchor.east
            G(i) == Implied(fs[i], xys[i], h)
            Is(f, k) == f = [i \in 0..k |->
                               IF i = 0 THEN [north |-> 0, east |-> 0]
                               ELSE [north |-> f[i - 1].north + G(i).north,
                                     east |-> f[i - 1].east + G(i).east]]
<1>1. \E f : Is(f, n)
  <2>. DEFINE S == {k \in Nat : \E f : Is(f, k)}
  <2>1. 0 \in S
    <3>. DEFINE f == [i \in 0..0 |-> [north |-> 0, east |-> 0]]
    <3>1. Is(f, 0)
      OBVIOUS
    <3>. QED  BY <3>1
  <2>2. ASSUME NEW k \in 0..n - 1, k \in S PROVE k + 1 \in S
    <3>1. PICK f : Is(f, k)
      BY <2>2
    <3>. DEFINE g == [i \in 0..k + 1 |->
                        IF i <= k THEN f[i]
                        ELSE [north |-> f[k].north + G(i).north,
                              east |-> f[k].east + G(i).east]]
    <3>. HIDE DEF G
    <3>2. \A i \in 0..k + 1 : g[i] = IF i = 0 THEN [north |-> 0, east |-> 0]
                                     ELSE [north |-> g[i - 1].north + G(i).north,
                                           east |-> g[i - 1].east + G(i).east]
      <4>. SUFFICES ASSUME NEW i \in 0..k + 1
                    PROVE  g[i] = IF i = 0 THEN [north |-> 0, east |-> 0]
                                  ELSE [north |-> g[i - 1].north + G(i).north,
                                        east |-> g[i - 1].east + G(i).east]
        OBVIOUS
      <4>1. CASE i = 0
        BY <4>1, <3>1
      <4>2. CASE i \in 1..k
        <5>1. f[i] = [north |-> f[i - 1].north + G(i).north,
                      east |-> f[i - 1].east + G(i).east]
          BY <4>2, <3>1
        <5>2. g[i] = f[i] /\ g[i - 1] = f[i - 1]
          BY <4>2
        <5>. QED  BY <4>2, <5>1, <5>2
      <4>3. CASE i = k + 1
        BY <4>3
      <4>. QED  BY <4>1, <4>2, <4>3
    <3>3. Is(g, k + 1)
      <4>. DEFINE r == [i \in 0..k + 1 |-> IF i = 0 THEN [north |-> 0, east |-> 0]
                                     ELSE [north |-> g[i - 1].north + G(i).north,
                                           east |-> g[i - 1].east + G(i).east]]
      <4>1. DOMAIN g = 0..k + 1 /\ g = [i \in 0..k + 1 |-> g[i]]
        OBVIOUS
      <4>. HIDE DEF g
      <4>2. g = r
        BY <3>2, <4>1
      <4>. QED  BY <4>2
    <3>. HIDE DEF Is, g
    <3>. QED  BY <3>3
  <2>. HIDE DEF Is, S
  <2>3. n \in S
    BY <2>1, <2>2, Induction
  <2>. QED  BY <2>3 DEF S
<1>2. PICK g : Is(g, n) /\ OriginSum(fs, xys, h) = g[n]
  <2>. DEFINE c == CHOOSE f : Is(f, n)
  <2>1. Is(c, n)
    BY <1>1
  <2>2. OriginSum(fs, xys, h) = c[n]
    BY DEF OriginSum
  <2>. QED  BY <2>1, <2>2
<1>. DEFINE Near(k) == /\ g[k].north \in Int /\ g[k].east \in Int
                       /\ g[k].north - k * N \in -(k * Lag)..(k * Lag)
                       /\ g[k].east - k * E \in -(k * Lag)..(k * Lag)
            S == {k \in 0..n : Near(k)}
<1>3. N \in Int /\ E \in Int /\ Lag \in Nat
  BY TrueAnchorIsFrame, AnchorConstants
<1>4. 0 \in S
  <2>1. g[0] = [north |-> 0, east |-> 0]
    BY <1>2
  <2>. QED  BY <2>1, <1>3, NoneYet
<1>5. ASSUME NEW k \in 0..n - 1, k \in S PROVE k + 1 \in S
  <2>. DEFINE o == G(k + 1)
  <2>1. /\ o.north \in Int /\ o.east \in Int
        /\ o.north - N \in -Lag..Lag /\ o.east - E \in -Lag..Lag
    <3>1. PICK p \in Int, q \in Int :
            q - p \in -Lag..Lag /\ fs[k + 1] = Heard(q) /\ xys[k + 1] = Along(p)
      BY DEF IsPair
    <3>. QED  BY <3>1, <1>3, ImpliedIsNear
  <2>2. /\ g[k + 1].north = g[k].north + o.north
        /\ g[k + 1].east = g[k].east + o.east
    <3>. HIDE DEF G
    <3>1. g[k + 1] = [north |-> g[(k + 1) - 1].north + G(k + 1).north,
                      east |-> g[(k + 1) - 1].east + G(k + 1).east]
      BY <1>2
    <3>2. (k + 1) - 1 = k
      OBVIOUS
    <3>. QED  BY <3>1, <3>2
  <2>. HIDE DEF o, N, E
  <2>3. /\ (k + 1) * N = k * N + N /\ (k + 1) * E = k * E + E /\ (k + 1) * Lag = k * Lag + Lag
        /\ k * N \in Int /\ k * E \in Int /\ k * Lag \in Int
    BY <1>3, OneMore
  <2>. DEFINE kN == k * N  kE == k * E  kL == k * Lag
  <2>4. /\ g[k].north \in Int /\ g[k].east \in Int
        /\ g[k].north - kN \in -kL..kL /\ g[k].east - kE \in -kL..kL
        /\ kN \in Int /\ kE \in Int /\ kL \in Int
    BY <1>5, <2>3
  <2>. HIDE DEF kN, kE, kL
  <2>5. /\ g[k + 1].north \in Int /\ g[k + 1].east \in Int
        /\ g[k + 1].north - (kN + N) \in -(kL + Lag)..(kL + Lag)
        /\ g[k + 1].east - (kE + E) \in -(kL + Lag)..(kL + Lag)
    <3>1. /\ N \in Int /\ E \in Int /\ Lag \in Int
          /\ o.north \in Int /\ o.east \in Int
          /\ o.north - N \in -Lag..Lag /\ o.east - E \in -Lag..Lag
      BY <1>3, <2>1 DEF N, E
    <3>2. (g[k].north + o.north) - (kN + N) \in -(kL + Lag)..(kL + Lag)
      BY ONLY <3>1, <2>4, AddedUp
    <3>3. (g[k].east + o.east) - (kE + E) \in -(kL + Lag)..(kL + Lag)
      BY ONLY <3>1, <2>4, AddedUp
    <3>4. g[k].north + o.north \in Int /\ g[k].east + o.east \in Int
      <4>1. g[k].north \in Int /\ g[k].east \in Int
        BY ONLY <2>4
      <4>2. o.north \in Int /\ o.east \in Int
        BY ONLY <3>1
      <4>. QED  BY ONLY <4>1, <4>2, SMTT(30)
    <3>. QED  BY ONLY <3>2, <3>3, <3>4, <2>2, Zenon
  <2>6. Near(k + 1)
    BY <2>3, <2>5 DEF kN, kE, kL
  <2>. QED  BY <2>6
<1>6. n \in S
  <2>. HIDE DEF S
  <2>. QED  BY <1>4, <1>5, Induction
<1>. QED  BY <1>2, <1>6

\* A fix is where its pose was, if the transforms do not lag.
LEMMA WgsToMapUndoes ==
  ASSUME course \in 0..3, NEW q \in Int
  PROVE  WgsToMap(TrueAnchor, Heard(q)) = Along(q)
<1>. DEFINE a == TrueAnchor
            xy == Along(q)
            w == Heard(q)
            back == WgsToMap(a, w)
<1>1. xy \in Pose /\ xy.x \in Int /\ xy.y \in Int /\ xy = [x |-> xy.x, y |-> xy.y]
  BY OnTheStreet DEF Pose
<1>2. a.north \in Int /\ a.east \in Int /\ a.heading \in 0..3
  BY TrueAnchorIsFrame
<1>3. /\ a.heading = 0 => w.north = a.north + xy.x /\ w.east = a.east - xy.y
      /\ a.heading = 1 => w.north = a.north + xy.y /\ w.east = a.east + xy.x
      /\ a.heading = 2 => w.north = a.north - xy.x /\ w.east = a.east + xy.y
      /\ a.heading = 3 => w.north = a.north - xy.y /\ w.east = a.east - xy.x
  BY <1>1, <1>2, TurnedPose DEF Heard
<1>. HIDE DEF xy, w
<1>4. /\ back.x = (w.east - a.east) * Sin(a.heading) + (w.north - a.north) * Cos(a.heading)
      /\ back.y = (w.north - a.north) * Sin(a.heading) - (w.east - a.east) * Cos(a.heading)
      /\ back = [x |-> back.x, y |-> back.y]
  BY DEF WgsToMap
<1>. HIDE DEF a, back
<1>5. back.x = xy.x /\ back.y = xy.y
  <2>1. CASE a.heading = 0
    BY <1>1, <1>2, <1>3, <1>4, <2>1, Turns
  <2>2. CASE a.heading = 1
    BY <1>1, <1>2, <1>3, <1>4, <2>2, Turns
  <2>3. CASE a.heading = 2
    BY <1>1, <1>2, <1>3, <1>4, <2>3, Turns
  <2>4. CASE a.heading = 3
    BY <1>1, <1>2, <1>3, <1>4, <2>4, Turns
  <2>. QED  BY <1>2, <2>1, <2>2, <2>3, <2>4
<1>. QED  BY <1>1, <1>4, <1>5 DEF a, xy, w, back

LEMMA HypotIs ==
  ASSUME course \in 0..3, NEW p \in Int, NEW r \in Int
  PROVE  Hypot(Along(p), Along(r)) = IF p < r THEN r - p ELSE p - r
<1>. DEFINE u == Along(p).x - Along(r).x
            v == Along(p).y - Along(r).y
<1>1. /\ u \in Int /\ v \in Int
      /\ course \in {0, 2} => v = 0 /\ u \in {p - r, r - p}
      /\ course \in {1, 3} => u = 0 /\ v \in {p - r, r - p}
  <2>1. CASE course = 0
    BY <2>1, OnTheStreet
  <2>2. CASE course = 1
    BY <2>2, OnTheStreet
  <2>3. CASE course = 2
    BY <2>3, OnTheStreet
  <2>4. CASE course = 3
    BY <2>4, OnTheStreet
  <2>. QED  BY <2>1, <2>2, <2>3, <2>4
<1>2. Hypot(Along(p), Along(r)) = (IF u < 0 THEN -u ELSE u) + (IF v < 0 THEN -v ELSE v)
  BY DEF Hypot
<1>. HIDE DEF u, v
<1>. QED  BY <1>1, <1>2

\* What the solver keeps: the pairs it has heard, of one drive.
AnchorInv ==
  /\ course \in 0..3
  /\ overridden \in BOOLEAN /\ anchorSolved \in BOOLEAN /\ (overridden => anchorSolved)
  /\ givenHeight \in {NoHeight, DatumHeight}
  /\ altitudes \in Nat
  /\ fixes \in Seq(Position) /\ mapXY \in Seq(Pose) /\ Len(mapXY) = Len(fixes)
  /\ \A i \in 1..Len(fixes) : IsPair(fixes[i], mapXY[i])
  /\ AnchorIsTrue

LEMMA AnchorStutters == ASSUME AnchorInv, UNCHANGED anchorVars PROVE AnchorInv'
<1>1. AnchorIsTrue'
  BY DEF anchorVars, AnchorInv, AnchorIsTrue, HeightIsChosen, SolvedIsTrue, Off
<1>2. \A i \in 1..Len(fixes) : IsPair(fixes[i], mapXY[i])'
  BY DEF anchorVars, AnchorInv, IsPair, Heard, Along
<1>. QED  BY <1>1, <1>2 DEF anchorVars, AnchorInv

LEMMA InitAnchorInv == AnchorInit => AnchorInv
<1>. SUFFICES ASSUME AnchorInit PROVE AnchorInv
  OBVIOUS
<1>1. /\ course \in 0..3 /\ overridden \in BOOLEAN /\ anchorSolved \in BOOLEAN
      /\ overridden = anchorSolved
      /\ givenHeight \in {NoHeight, DatumHeight} /\ altitudes = 0
      /\ fixes = <<>> /\ mapXY = <<>>
      /\ overridden => anchor = Datum
  BY DEF AnchorInit
<1>2. overridden => HeightIsChosen
  <2>1. DatumHeight \in Int /\ HeightOffset \in Int /\ NoHeight \notin Int
    BY AnchorConstants
  <2>. QED  BY <2>1 DEF AnchorInit, HeightIsChosen
<1>3. Len(mapXY) < MinAnchorSamples
  BY <1>1, AnchorConstants
<1>4. AnchorIsTrue
  BY <1>1, <1>2, <1>3, AnchorConstants DEF AnchorIsTrue
<1>. QED  BY <1>1, <1>4 DEF AnchorInv

\* The anchor that is solved from the pairs of a drive that is long enough.
LEMMA SolveIsTrue ==
  ASSUME course \in 0..3, NEW fs \in Seq(Position), NEW xys \in Seq(Pose), Len(xys) = Len(fs),
         \A i \in 1..Len(fs) : IsPair(fs[i], xys[i]),
         Len(fs) >= MinAnchorSamples,
         Hypot(Head(xys), xys[Len(xys)]) >= MinAnchorBaseline
  PROVE  SolvedHeading(fs, xys) = TrueAnchor.heading
<1>. DEFINE n == Len(fs)
<1>1. /\ n \in Nat /\ n >= 2 /\ 1 \in 1..n /\ n \in 1..n
      /\ Head(fs) = fs[1] /\ Head(xys) = xys[1]
  BY AnchorConstants
<1>2. PICK p \in Int, q \in Int : q - p \in -Lag..Lag /\ fs[1] = Heard(q) /\ xys[1] = Along(p)
  BY <1>1 DEF IsPair
<1>3. PICK r \in Int, s \in Int : s - r \in -Lag..Lag /\ fs[n] = Heard(s) /\ xys[n] = Along(r)
  BY <1>1 DEF IsPair
<1>4. (IF p < r THEN r - p ELSE p - r) >= MinAnchorBaseline
  BY <1>1, <1>2, <1>3, HypotIs
<1>5. Lag \in Nat /\ MinAnchorBaseline \in Nat /\ MinAnchorBaseline > 2 * Lag
  BY AnchorConstants
<1>6. (r > p /\ s > q) \/ (r < p /\ s < q)
  BY <1>2, <1>3, <1>4, <1>5
<1>7. SolvedHeading(fs, xys) =
        (Quarters(Heard(s).north - Heard(q).north, Heard(s).east - Heard(q).east)
          + Quarters(Along(r).x - Along(p).x, Along(r).y - Along(p).y)) % 4
  BY <1>1, <1>2, <1>3 DEF SolvedHeading
<1>. QED  BY <1>6, <1>7, DriveGivesHeading

LEMMA OnFixInv ==
  ASSUME AnchorInv, NEW p \in Int, NEW q \in Int, q - p \in -Lag..Lag,
         NEW hasPose \in BOOLEAN, NEW hasAltitude \in BOOLEAN,
         OnFix(Heard(q), Along(p), hasPose, hasAltitude)
  PROVE  AnchorInv'
<1>1. CASE overridden \/ anchorSolved \/ ~hasPose
  <2>1. UNCHANGED anchorVars
    BY <1>1 DEF OnFix
  <2>. QED  BY <2>1, AnchorStutters
<1>2. CASE ~(overridden \/ anchorSolved \/ ~hasPose)
  <2>1. /\ fixes' = Append(fixes, Heard(q))
        /\ mapXY' = Append(mapXY, Along(p))
        /\ altitudes' = IF hasAltitude THEN altitudes + 1 ELSE altitudes
        /\ anchorSolved' = (/\ Len(fixes') >= MinAnchorSamples
                            /\ Hypot(Head(mapXY'), Along(p)) >= MinAnchorBaseline)
        /\ IF anchorSolved' THEN Solve(fixes', mapXY', altitudes')
                            ELSE UNCHANGED <<anchor, samples, height, heightOf, logged>>
        /\ UNCHANGED <<course, givenDatum, givenHeight, overridden>>
    BY <1>2 DEF OnFix
  <2>2. /\ course \in 0..3 /\ ~overridden /\ altitudes' \in Nat
        /\ givenHeight \in {NoHeight, DatumHeight}
    BY <1>2, <2>1 DEF AnchorInv
  <2>. DEFINE n == Len(fixes)
  <2>3. /\ fixes' \in Seq(Position) /\ mapXY' \in Seq(Pose)
        /\ Len(fixes') = n + 1 /\ Len(mapXY') = n + 1 /\ n \in Nat
        /\ mapXY'[n + 1] = Along(p) /\ fixes'[n + 1] = Heard(q)
        /\ \A i \in 1..n : fixes'[i] = fixes[i] /\ mapXY'[i] = mapXY[i]
    <3>1. Heard(q) \in Position /\ Along(p) \in Pose
      BY <2>2, FixIsPosition, OnTheStreet
    <3>. QED  BY <2>1, <3>1 DEF AnchorInv
  <2>4. \A i \in 1..Len(fixes') : IsPair(fixes'[i], mapXY'[i])
    <3>. SUFFICES ASSUME NEW i \in 1..n + 1 PROVE IsPair(fixes'[i], mapXY'[i])
      BY <2>3
    <3>1. CASE i \in 1..n
      BY <3>1, <2>3 DEF AnchorInv
    <3>2. CASE i = n + 1
      <4>1. IsPair(Heard(q), Along(p))
        BY DEF IsPair
      <4>. QED  BY <3>2, <4>1, <2>3
    <3>. QED  BY <3>1, <3>2
  <2>5. ASSUME ~anchorSolved', Len(mapXY') >= MinAnchorSamples
        PROVE  Hypot(Head(mapXY), mapXY[Len(mapXY)])' < MinAnchorBaseline
    <3>1. PICK r \in Int : mapXY'[1] = Along(r)
      BY <2>3, <2>4 DEF IsPair
    <3>2. Head(mapXY') = Along(r) /\ mapXY'[Len(mapXY')] = Along(p)
      BY <2>3, <3>1
    <3>3. Hypot(Along(r), Along(p)) \in Int
      <4>1. Hypot(Along(r), Along(p)) = IF r < p THEN p - r ELSE r - p
        BY <2>2, HypotIs
      <4>. HIDE DEF AnchorInv
      <4>. QED  BY <4>1
    <3>4. ~(Hypot(Along(r), Along(p)) >= MinAnchorBaseline)
      BY <2>1, <2>3, <2>5, <3>2
    <3>. QED  BY <3>2, <3>3, <3>4, AnchorConstants
  <2>6. ASSUME anchorSolved' PROVE HeightIsChosen' /\ SolvedIsTrue'
    <3>. DEFINE h == SolvedHeading(fixes', mapXY')
                sum == OriginSum(fixes', mapXY', h)
                m == IF givenHeight = NoHeight /\ altitudes' > 0 THEN altitudes' ELSE 1
                own == IF givenHeight # NoHeight THEN givenHeight ELSE altitudes' * Altitude
    <3>1. /\ anchor' = [north |-> sum.north, east |-> sum.east, heading |-> h]
          /\ samples' = Len(fixes') /\ height' = own + m * HeightOffset /\ heightOf' = m
      BY <2>1, <2>6 DEF Solve
    <3>2. h = TrueAnchor.heading
      <4>1. /\ Len(fixes') >= MinAnchorSamples
            /\ Hypot(Head(mapXY'), mapXY'[Len(mapXY')]) >= MinAnchorBaseline
        BY <2>1, <2>3, <2>6
      <4>2. Len(mapXY') = Len(fixes')
        BY <2>3
      <4>. QED  BY <2>2, <2>3, <2>4, <4>1, <4>2, SolveIsTrue
    <3>3. /\ sum.north \in Int /\ sum.east \in Int
          /\ sum.north - samples' * TrueAnchor.north \in -(samples' * Lag)..(samples' * Lag)
          /\ sum.east - samples' * TrueAnchor.east \in -(samples' * Lag)..(samples' * Lag)
      <4>1. Len(fixes') \in Nat
        BY <2>3
      <4>. QED  BY <2>2, <2>4, <3>1, <3>2, <4>1, OriginSumIsNear
    <3>4. ASSUME Lag = 0, NEW i \in DOMAIN fixes' PROVE WgsToMap(TrueAnchor, fixes'[i]) = mapXY'[i]
      <4>1. i \in 1..Len(fixes')
        BY <2>3
      <4>2. PICK r \in Int, s \in Int :
              s - r \in -Lag..Lag /\ fixes'[i] = Heard(s) /\ mapXY'[i] = Along(r)
        BY <2>4, <4>1 DEF IsPair
      <4>3. s = r
        BY <3>4, <4>2
      <4>. QED  BY <2>2, <4>2, <4>3, WgsToMapUndoes
    <3>5. SolvedIsTrue'
      <4>1. samples' \in Nat /\ Lag \in Nat
        BY <2>3, <3>1, AnchorConstants
      <4>2. -samples' * Lag = -(samples' * Lag)
        BY <4>1, MinusTimes
      <4>3. anchor'.heading = TrueAnchor.heading /\ anchor'.north = sum.north /\ anchor'.east = sum.east
        BY <3>1, <3>2
      <4>. HIDE DEF sum, h
      <4>. QED  BY <3>3, <3>4, <4>2, <4>3 DEF SolvedIsTrue, Off
    <3>6. HeightIsChosen'
      <4>1. /\ DatumHeight \in Int /\ HeightOffset \in Int /\ Altitude \in Int
            /\ NoHeight \notin Int /\ givenHeight' = givenHeight /\ altitudes' \in Nat
        BY <2>1, <2>2, AnchorConstants
      <4>2. CASE givenHeight # NoHeight
        <5>1. heightOf' = 1 /\ height' = givenHeight + 1 * HeightOffset
          BY <3>1, <4>2
        <5>. QED  BY <5>1, <4>1, <4>2, <2>2 DEF HeightIsChosen
      <4>3. CASE givenHeight = NoHeight /\ altitudes' > 0
        <5>1. heightOf' = altitudes' /\ height' = altitudes' * Altitude + altitudes' * HeightOffset
          BY <3>1, <4>3
        <5>2. altitudes' * (HeightOffset + Altitude)
                = altitudes' * Altitude + altitudes' * HeightOffset
          BY <4>1, TimesSum
        <5>. QED  BY <5>1, <5>2, <4>1, <4>3 DEF HeightIsChosen
      <4>4. CASE givenHeight = NoHeight /\ altitudes' = 0
        <5>1. heightOf' = 1 /\ height' = 0 * Altitude + 1 * HeightOffset
          BY <3>1, <4>4
        <5>. QED  BY <5>1, <4>1, <4>4, NoneYet DEF HeightIsChosen
      <4>. QED  BY <4>1, <4>2, <4>3, <4>4
    <3>. QED  BY <3>5, <3>6
  <2>7. AnchorIsTrue'
    BY <2>1, <2>2, <2>5, <2>6 DEF AnchorIsTrue
  <2>8. anchorSolved' \in BOOLEAN
    BY <2>1
  <2>9. \A i \in 1..Len(fixes') : IsPair(fixes[i], mapXY[i])'
    BY <2>1, <2>4 DEF IsPair, Heard, Along
  <2>. QED  BY <2>1, <2>2, <2>3, <2>7, <2>8, <2>9 DEF AnchorInv
<1>. QED  BY <1>1, <1>2

\* The anchor of the map is true after any number of fixes, wherever on a street of any
\* length they come from, with any lag of the transforms the base line is meant for.
THEOREM AnchorStaysTrue == AnchorSpec => []AnchorIsTrue
<1>1. AnchorInv /\ [AnchorNext]_anchorVars => AnchorInv'
  <2>. SUFFICES ASSUME AnchorInv, [AnchorNext]_anchorVars PROVE AnchorInv'
    OBVIOUS
  <2>1. CASE AnchorNext
    <3>1. PICK p \in 0..StreetLength, q \in 0..StreetLength,
               hasPose \in BOOLEAN, hasAltitude \in BOOLEAN :
            /\ q - p \in (-Lag)..Lag
            /\ OnFix(MapToWgs(TrueAnchor, Along(q)), Along(p), hasPose, hasAltitude)
      BY <2>1 DEF AnchorNext
    <3>2. p \in Int /\ q \in Int
      BY AnchorConstants
    <3>. QED  BY <3>1, <3>2, OnFixInv DEF Heard
  <2>2. CASE UNCHANGED anchorVars
    BY <2>2, AnchorStutters
  <2>. QED  BY <2>1, <2>2
<1>2. AnchorInv => AnchorIsTrue
  BY DEF AnchorInv
<1>. QED  BY <1>1, <1>2, InitAnchorInv, PTL DEF AnchorSpec

-----------------------------------------------------------------------------
\* The profile.  What rows are kept, and that a rejection has its reason.
KeptRowIsGood(row) == row \in ProfileRow /\ ParseRow(row) /\ ValidateRow(row)

HasReason == \E i \in DOMAIN file : \E e \in errors : e[1] = i /\ e[2] # "unknown key"

ProfileInv ==
  /\ file \in Seq(ProfileRow)
  /\ index \in 1..Len(file) + 1
  /\ hardFail \in BOOLEAN
  /\ rows \in Seq(ProfileRow) /\ rowIndex \in Seq(1..Len(file)) /\ Len(rowIndex) = Len(rows)
  /\ \A i \in 1..Len(rows) : KeptRowIsGood(rows[i])
  /\ ~hardFail => Len(rows) = index - 1 /\ \A i \in 1..index - 1 : rows[i] = file[i]
  /\ hardFail => HasReason
  /\ profile = "accepted" =>
       ~hardFail /\ index = Len(file) + 1 /\ Repeated = {} /\ MoreGrids = {}
  /\ profile = "rejected" => hardFail

\* Of the rules that match a name, no two are of one length.
LEMMA LongestIsOne ==
  ASSUME NEW rules \in Seq(NsRule), NEW name \in Name,
         \A i, j \in DOMAIN rules : i # j => rules[i].prefix # rules[j].prefix,
         NEW i \in Matches(rules, name), NEW j \in Matches(rules, name),
         Len(rules[i].prefix) = Len(rules[j].prefix)
  PROVE  i = j
<1>1. /\ i \in DOMAIN rules /\ j \in DOMAIN rules
      /\ IsPrefix(rules[i].prefix, name) /\ IsPrefix(rules[j].prefix, name)
  BY DEF Matches
<1>2. rules[i].prefix \in Name /\ rules[j].prefix \in Name
  <2>1. rules[i] \in NsRule /\ rules[j] \in NsRule
    BY <1>1
  <2>. QED  BY <2>1 DEF NsRule
<1>3. \A s \in Name : SubSeq(s, 1, Len(s)) = s
  BY DEF Name
<1>4. rules[i].prefix = rules[j].prefix
  BY <1>1, <1>2, <1>3 DEF IsPrefix
<1>. QED  BY <1>1, <1>4

Best(rules, name) ==
  {i \in Matches(rules, name) :
     \A j \in Matches(rules, name) : Len(rules[j].prefix) <= Len(rules[i].prefix)}

LEMMA BestIsOne ==
  ASSUME NEW rules \in Seq(NsRule), NEW name \in Name,
         \A i, j \in DOMAIN rules : i # j => rules[i].prefix # rules[j].prefix
  PROVE  /\ Best(rules, name) = {} => MatchRule(rules, name) = 0
         /\ \A i \in Best(rules, name) : MatchRule(rules, name) = i
         /\ Best(rules, name) \subseteq 1..Len(rules)
<1>1. Best(rules, name) \subseteq 1..Len(rules)
  BY DEF Best, Matches
<1>2. MatchRule(rules, name) =
        IF Best(rules, name) = {} THEN 0
        ELSE CHOOSE i \in Best(rules, name) : \A j \in Best(rules, name) : i <= j
  BY DEF MatchRule, Best
<1>3. ASSUME NEW i \in Best(rules, name), NEW j \in Best(rules, name) PROVE i = j
  <2>1. /\ i \in Matches(rules, name) /\ j \in Matches(rules, name)
        /\ Len(rules[i].prefix) <= Len(rules[j].prefix)
        /\ Len(rules[j].prefix) <= Len(rules[i].prefix)
    BY DEF Best
  <2>2. rules[i].prefix \in Seq(STRING) /\ rules[j].prefix \in Seq(STRING)
    <3>1. rules[i] \in NsRule /\ rules[j] \in NsRule
      BY <2>1 DEF Matches
    <3>. QED  BY <3>1 DEF NsRule, Name
  <2>3. Len(rules[i].prefix) = Len(rules[j].prefix)
    BY <2>1, <2>2
  <2>. QED  BY <2>1, <2>3, LongestIsOne
<1>4. ASSUME NEW i \in Best(rules, name) PROVE MatchRule(rules, name) = i
  <2>1. \A j \in Best(rules, name) : i <= j
    BY <1>1, <1>3
  <2>2. \A k \in Best(rules, name) : k = i
    BY <1>3
  <2>. QED  BY <1>2, <2>1, <2>2
<1>. QED  BY <1>1, <1>2, <1>4

\* Rules that are all different have one verdict in whatever order they are read.
LEMMA OrderDoesNotMatter ==
  ASSUME NEW row \in ProfileRow, PrefixesDiffer(row), NEW name \in Name
  PROVE  Classify(row, name) = Classify(Reordered(row), name)
<1>. DEFINE ns == row.namespaces
            n == Len(ns)
            rev == Reverse(ns)
<1>1. ns \in Seq(NsRule) /\ n \in Nat
  BY DEF ProfileRow
<1>2. /\ Reordered(row).namespaces = rev /\ Reordered(row).nsDefault = row.nsDefault
  BY DEF Reordered, ProfileRow
<1>. HIDE DEF ns
<1>3. /\ rev \in Seq(NsRule) /\ Len(rev) = n
      /\ \A i \in 1..n : n - i + 1 \in 1..n /\ rev[i] = ns[n - i + 1] /\ ns[i] = rev[n - i + 1]
  <2>1. rev = [i \in 1..n |-> ns[(n - i) + 1]]
    BY DEF Reverse
  <2>2. \A i \in 1..n : n - i + 1 \in 1..n /\ n - (n - i + 1) + 1 = i
    BY <1>1
  <2>. QED  BY <1>1, <2>1, <2>2
<1>0. DOMAIN ns = 1..n /\ DOMAIN rev = 1..n
  BY <1>1, <1>3
<1>. HIDE DEF rev, n
<1>4. \A i, j \in DOMAIN ns : i # j => ns[i].prefix # ns[j].prefix
  BY DEF PrefixesDiffer, ns
<1>5. \A i, j \in DOMAIN rev : i # j => rev[i].prefix # rev[j].prefix
  <2>. SUFFICES ASSUME NEW i \in 1..n, NEW j \in 1..n, i # j
                PROVE  rev[i].prefix # rev[j].prefix
    BY <1>0
  <2>1. n - i + 1 # n - j + 1 /\ n - i + 1 \in DOMAIN ns /\ n - j + 1 \in DOMAIN ns
    BY <1>0, <1>1, <1>3 DEF n
  <2>2. rev[i] = ns[n - i + 1] /\ rev[j] = ns[n - j + 1]
    BY <1>3
  <2>. QED  BY <2>1, <2>2, <1>4
<1>6. \A i \in 1..n : i \in Matches(ns, name) <=> n - i + 1 \in Matches(rev, name)
  BY <1>0, <1>3 DEF Matches
<1>7. \A i \in 1..n : i \in Matches(rev, name) <=> n - i + 1 \in Matches(ns, name)
  BY <1>0, <1>3 DEF Matches
<1>8. Matches(ns, name) \subseteq 1..n /\ Matches(rev, name) \subseteq 1..n
  BY <1>0 DEF Matches
<1>9. \A i \in 1..n : i \in Best(ns, name) <=> n - i + 1 \in Best(rev, name)
  <2>. SUFFICES ASSUME NEW i \in 1..n
                PROVE  i \in Best(ns, name) <=> n - i + 1 \in Best(rev, name)
    OBVIOUS
  <2>1. ns[i] = rev[n - i + 1] /\ n - i + 1 \in 1..n
    BY <1>3
  <2>2. ASSUME i \in Best(ns, name) PROVE n - i + 1 \in Best(rev, name)
    <3>1. n - i + 1 \in Matches(rev, name)
      BY <2>2, <1>6 DEF Best
    <3>2. ASSUME NEW j \in Matches(rev, name)
          PROVE  Len(rev[j].prefix) <= Len(rev[n - i + 1].prefix)
      <4>1. n - j + 1 \in Matches(ns, name) /\ rev[j] = ns[n - j + 1]
        BY <1>3, <1>7, <1>8
      <4>. QED  BY <2>1, <2>2, <4>1 DEF Best
    <3>. QED  BY <3>1, <3>2 DEF Best
  <2>3. ASSUME n - i + 1 \in Best(rev, name) PROVE i \in Best(ns, name)
    <3>1. i \in Matches(ns, name)
      BY <2>3, <1>6 DEF Best
    <3>2. ASSUME NEW j \in Matches(ns, name) PROVE Len(ns[j].prefix) <= Len(ns[i].prefix)
      <4>1. n - j + 1 \in Matches(rev, name) /\ ns[j] = rev[n - j + 1]
        BY <1>3, <1>6, <1>8
      <4>. QED  BY <2>1, <2>3, <4>1 DEF Best
    <3>. QED  BY <3>1, <3>2 DEF Best
  <2>. QED  BY <2>2, <2>3
<1>10. /\ Best(ns, name) = {} => MatchRule(ns, name) = 0
       /\ \A i \in Best(ns, name) : MatchRule(ns, name) = i
       /\ Best(ns, name) \subseteq 1..n
  BY <1>1, <1>4, BestIsOne DEF n
<1>11. /\ Best(rev, name) = {} => MatchRule(rev, name) = 0
       /\ \A i \in Best(rev, name) : MatchRule(rev, name) = i
       /\ Best(rev, name) \subseteq 1..n
  BY <1>3, <1>5, BestIsOne
<1>12. /\ Classify(row, name) = IF MatchRule(ns, name) = 0 THEN row.nsDefault
                                ELSE ns[MatchRule(ns, name)].render
       /\ Classify(Reordered(row), name) = IF MatchRule(rev, name) = 0 THEN row.nsDefault
                                           ELSE rev[MatchRule(rev, name)].render
  BY <1>2 DEF Classify, ns
<1>13. CASE Best(ns, name) = {}
  <2>1. Best(rev, name) = {}
    <3>. SUFFICES ASSUME NEW i \in Best(rev, name) PROVE FALSE
      OBVIOUS
    <3>1. i \in 1..n /\ n - i + 1 \in 1..n /\ n - (n - i + 1) + 1 = i
      BY <1>1, <1>3, <1>11 DEF n
    <3>. QED  BY <3>1, <1>9, <1>13
  <2>. QED  BY <1>10, <1>11, <1>12, <1>13, <2>1
<1>14. CASE Best(ns, name) # {}
  <2>1. PICK i \in Best(ns, name) : TRUE
    BY <1>14
  <2>2. i \in 1..n /\ n - i + 1 \in Best(rev, name) /\ n - i + 1 \in 1..n
    BY <1>3, <1>9, <1>10
  <2>3. MatchRule(ns, name) = i /\ MatchRule(rev, name) = n - i + 1
    BY <2>2, <1>10, <1>11
  <2>4. i # 0 /\ n - i + 1 # 0
    BY <2>2
  <2>. QED  BY <1>3, <1>12, <2>2, <2>3, <2>4
<1>. QED  BY <1>13, <1>14

LEMMA InitProfileInv == ProfileInit => ProfileInv
<1>. SUFFICES ASSUME ProfileInit PROVE ProfileInv
  OBVIOUS
<1>1. file \in Seq(ProfileRow)
  BY ProfileConstants DEF ProfileInit
<1>2. /\ index = 1 /\ rows = <<>> /\ rowIndex = <<>> /\ hardFail = FALSE /\ profile = "loading"
  BY DEF ProfileInit
<1>3. Len(rows) = 0 /\ Len(rowIndex) = 0 /\ index \in 1..Len(file) + 1
  BY <1>1, <1>2
<1>4. rows \in Seq(ProfileRow) /\ rowIndex \in Seq(1..Len(file))
  BY <1>2
<1>5. /\ \A i \in 1..Len(rows) : KeptRowIsGood(rows[i])
      /\ Len(rows) = index - 1 /\ \A i \in 1..index - 1 : rows[i] = file[i]
  BY <1>2, <1>3
<1>6. hardFail \in BOOLEAN
  BY <1>2
<1>. QED  BY ONLY <1>1, <1>2, <1>3, <1>4, <1>5, <1>6 DEF ProfileInv

LEMMA ReadRowInv == ASSUME ProfileInv, ReadRow PROVE ProfileInv'
<1>. DEFINE row == file[index]
            keeps == ParseRow(row) /\ ValidateRow(row)
<1>1. /\ profile = "loading" /\ index <= Len(file)
      /\ rows' = IF keeps THEN Append(rows, row) ELSE rows
      /\ rowIndex' = IF keeps THEN Append(rowIndex, index) ELSE rowIndex
      /\ hardFail' = (hardFail \/ ~keeps)
      /\ errors \subseteq errors'
      /\ ~ParseRow(row) => <<index, "parse">> \in errors'
      /\ ParseRow(row) /\ ~ValidateRow(row) => <<index, "validate">> \in errors'
      /\ index' = index + 1 /\ file' = file /\ profile' = profile
  BY DEF ReadRow
<1>2. index \in 1..Len(file) /\ row \in ProfileRow /\ Len(file) \in Nat
  BY <1>1 DEF ProfileInv
<1>. HIDE DEF row
<1>3. index' \in 1..Len(file') + 1 /\ file' \in Seq(ProfileRow) /\ hardFail' \in BOOLEAN
  <2>1. hardFail' \in BOOLEAN
    BY <1>1
  <2>. QED  BY <1>1, <1>2, <2>1 DEF ProfileInv
<1>4. /\ rows' \in Seq(ProfileRow) /\ rowIndex' \in Seq(1..Len(file'))
      /\ Len(rowIndex') = Len(rows')
      /\ \A i \in 1..Len(rows') : KeptRowIsGood(rows'[i])
  <2>1. CASE keeps
    <3>1. KeptRowIsGood(row)
      BY <1>2, <2>1 DEF KeptRowIsGood
    <3>2. rows' = Append(rows, row) /\ rowIndex' = Append(rowIndex, index)
      BY <1>1, <2>1
    <3>. HIDE DEF keeps
    <3>3. /\ rows \in Seq(ProfileRow) /\ rowIndex \in Seq(1..Len(file))
          /\ Len(rowIndex) = Len(rows) /\ \A i \in 1..Len(rows) : KeptRowIsGood(rows[i])
      BY DEF ProfileInv
    <3>4. /\ rows' \in Seq(ProfileRow) /\ rowIndex' \in Seq(1..Len(file'))
          /\ Len(rows') = Len(rows) + 1 /\ Len(rowIndex') = Len(rows')
      <4>1. rows' \in Seq(ProfileRow) /\ Len(rows') = Len(rows) + 1
        BY ONLY <1>2, <3>2, <3>3
      <4>2. rowIndex' \in Seq(1..Len(file)) /\ Len(rowIndex') = Len(rowIndex) + 1
        BY ONLY <1>2, <3>2, <3>3
      <4>3. file' = file
        BY <1>1
      <4>. QED  BY ONLY <3>3, <4>1, <4>2, <4>3
    <3>5. ASSUME NEW i \in 1..Len(rows') PROVE KeptRowIsGood(rows'[i])
      <4>1. (i \in 1..Len(rows) /\ rows'[i] = rows[i]) \/ rows'[i] = row
        BY <1>2, <3>2, <3>3, <3>4
      <4>. QED  BY <3>1, <3>3, <4>1
    <3>. QED  BY <3>4, <3>5
  <2>2. CASE ~keeps
    <3>1. rows' = rows /\ rowIndex' = rowIndex
      BY <1>1, <2>2
    <3>. HIDE DEF keeps
    <3>. QED  BY <1>1, <3>1 DEF ProfileInv
  <2>. QED  BY <2>1, <2>2
<1>5. ~hardFail' => Len(rows') = index' - 1 /\ \A i \in 1..index' - 1 : rows'[i] = file'[i]
  <2>. SUFFICES ASSUME ~hardFail'
                PROVE  Len(rows') = index' - 1 /\ \A i \in 1..index' - 1 : rows'[i] = file'[i]
    OBVIOUS
  <2>1. ~hardFail /\ rows' = Append(rows, row)
    BY <1>1
  <2>2. Len(rows) = index - 1 /\ \A i \in 1..index - 1 : rows[i] = file[i]
    BY <2>1 DEF ProfileInv
  <2>3. rows \in Seq(ProfileRow)
    BY DEF ProfileInv
  <2>4. Len(rows') = index /\ rows'[index] = file[index] /\ \A i \in 1..index - 1 : rows'[i] = rows[i]
    BY <1>2, <2>1, <2>2, <2>3 DEF row
  <2>5. index' - 1 = index
    BY <1>1, <1>2
  <2>6. \A i \in 1..index : i = index \/ i \in 1..index - 1
    BY <1>2
  <2>. HIDE DEF keeps
  <2>. QED  BY <1>1, <2>2, <2>4, <2>5, <2>6
<1>6. hardFail' => HasReason'
  <2>1. CASE hardFail
    BY <1>1, <2>1 DEF HasReason, ProfileInv
  <2>2. CASE ~keeps
    <3>1. \E e \in errors' : e[1] = index /\ e[2] # "unknown key"
      <4>1. CASE ~ParseRow(row)
        <5>1. <<index, "parse">>[1] = index /\ <<index, "parse">>[2] # "unknown key"
          OBVIOUS
        <5>. QED  BY <1>1, <4>1, <5>1
      <4>2. CASE ParseRow(row) /\ ~ValidateRow(row)
        <5>1. <<index, "validate">>[1] = index /\ <<index, "validate">>[2] # "unknown key"
          OBVIOUS
        <5>. QED  BY <1>1, <4>2, <5>1
      <4>. QED  BY <2>2, <4>1, <4>2
    <3>2. index \in DOMAIN file'
      BY <1>1, <1>2 DEF ProfileInv
    <3>. QED  BY <3>1, <3>2 DEF HasReason
  <2>. QED  BY <1>1, <2>1, <2>2
<1>7. profile' = "loading"
  BY <1>1
<1>. QED  BY <1>3, <1>4, <1>5, <1>6, <1>7 DEF ProfileInv

LEMMA FinishProfileInv == ASSUME ProfileInv, FinishProfile PROVE ProfileInv'
<1>1. /\ profile = "loading" /\ index = Len(file) + 1
      /\ errors \subseteq errors'
      /\ \A i \in Repeated : <<rowIndex[i], "duplicate">> \in errors'
      /\ \A i \in MoreGrids : <<rowIndex[i], "second grid">> \in errors'
      /\ hardFail' = (hardFail \/ Repeated # {} \/ MoreGrids # {})
      /\ profile' = IF hardFail' THEN "rejected" ELSE "accepted"
      /\ file' = file /\ index' = index /\ rows' = rows /\ rowIndex' = rowIndex
  BY DEF FinishProfile
<1>2. Repeated' = Repeated /\ MoreGrids' = MoreGrids
  BY <1>1 DEF Repeated, MoreGrids
<1>3. \A i \in DOMAIN rows : rowIndex[i] \in DOMAIN file
  BY DEF ProfileInv
<1>4. Repeated \subseteq DOMAIN rows /\ MoreGrids \subseteq DOMAIN rows
  BY DEF Repeated, MoreGrids
<1>5. hardFail' => HasReason'
  <2>1. CASE hardFail
    BY <1>1, <2>1 DEF HasReason, ProfileInv
  <2>2. CASE Repeated # {}
    <3>1. PICK i \in Repeated : TRUE
      BY <2>2
    <3>2. <<rowIndex[i], "duplicate">>[1] = rowIndex[i]
          /\ <<rowIndex[i], "duplicate">>[2] # "unknown key"
      OBVIOUS
    <3>. QED  BY <1>1, <1>3, <1>4, <3>1, <3>2 DEF HasReason
  <2>3. CASE MoreGrids # {}
    <3>1. PICK i \in MoreGrids : TRUE
      BY <2>3
    <3>2. <<rowIndex[i], "second grid">>[1] = rowIndex[i]
          /\ <<rowIndex[i], "second grid">>[2] # "unknown key"
      OBVIOUS
    <3>. QED  BY <1>1, <1>3, <1>4, <3>1, <3>2 DEF HasReason
  <2>. QED  BY <1>1, <2>1, <2>2, <2>3
<1>6. hardFail' \in BOOLEAN
  BY <1>1
<1>7. /\ profile' = "accepted" =>
           ~hardFail' /\ index' = Len(file') + 1 /\ Repeated' = {} /\ MoreGrids' = {}
      /\ profile' = "rejected" => hardFail'
  <2>1. ~hardFail' => Repeated = {} /\ MoreGrids = {}
    BY <1>1
  <2>. QED  BY <1>1, <1>2, <2>1
<1>8. ~hardFail' => ~hardFail
  BY <1>1
<1>. QED  BY <1>1, <1>5, <1>6, <1>7, <1>8 DEF ProfileInv

\* Two rows of one adapter that a profile keeps share no subscription but that of a grid's
\* updates, unless they have one topic.
LEMMA SharedSubscriptions ==
  ASSUME NEW a, NEW b, KeptRowIsGood(a), KeptRowIsGood(b), a.adapter = b.adapter,
         a.adapter # "tf_axes" => a.topic # b.topic
  PROVE  SubscriptionsFor(a) \intersect SubscriptionsFor(b)
           \subseteq {<<"updates", "OccupancyGridUpdate">>}
<1>1. CASE a.adapter = "tf_axes"
  BY <1>1 DEF SubscriptionsFor
<1>2. CASE a.adapter # "tf_axes"
  <2>1. /\ a.type = TypeOf(a.adapter) /\ b.type = TypeOf(b.adapter)
        /\ a.type # "OccupancyGridUpdate" /\ b.type # "OccupancyGridUpdate"
    BY <1>2 DEF KeptRowIsGood, ValidateRow, RowIsKnown, TypeOf
  <2>2. <<a.topic, a.type>> # <<b.topic, b.type>>
    BY <1>2
  <2>3. /\ SubscriptionsFor(a) \subseteq {<<a.topic, a.type>>, <<"updates", "OccupancyGridUpdate">>}
        /\ SubscriptionsFor(b) \subseteq {<<b.topic, b.type>>, <<"updates", "OccupancyGridUpdate">>}
    BY DEF SubscriptionsFor
  <2>. QED  BY <2>2, <2>3
<1>. QED  BY <1>1, <1>2

\* A rule that names a kind draws it as that kind is drawn.
KindIsDrawn(rule) ==
  rule.kind # "other" =>
    rule.render = IF rule.kind = "crosswalk" THEN "polygon" ELSE "polyline"

LEMMA InvMeansUnambiguous == ProfileInv => ProfileIsUnambiguous
<1>. SUFFICES ASSUME ProfileInv PROVE ProfileIsUnambiguous
  OBVIOUS
<1>1. ASSUME profile = "accepted"
      PROVE  /\ rows = file
             /\ \A i, j \in DOMAIN rows : i # j =>
                  /\ rows[i].adapter = rows[j].adapter
                       => SubscriptionsFor(rows[i]) \intersect SubscriptionsFor(rows[j])
                            \subseteq {<<"updates", "OccupancyGridUpdate">>}
                  /\ ~(rows[i].adapter = "height_grid" /\ rows[j].adapter = "height_grid")
             /\ \A i \in DOMAIN rows, name \in Namespaces :
                  Classify(rows[i], name) = Classify(Reordered(rows[i]), name)
             /\ \A i \in DOMAIN rows : \A r \in DOMAIN rows[i].namespaces :
                  KindIsDrawn(rows[i].namespaces[r])
  <2>1. /\ rows \in Seq(ProfileRow) /\ file \in Seq(ProfileRow)
        /\ Len(rows) = Len(file) /\ \A i \in 1..Len(file) : rows[i] = file[i]
        /\ Repeated = {} /\ MoreGrids = {}
        /\ \A i \in 1..Len(rows) : KeptRowIsGood(rows[i])
    BY <1>1 DEF ProfileInv
  <2>2. rows = file
    BY <2>1
  <2>3. DOMAIN rows = 1..Len(rows) /\ Len(rows) \in Nat
    BY <2>1
  <2>4. ASSUME NEW i \in DOMAIN rows, NEW j \in DOMAIN rows, j < i
        PROVE  /\ ~(/\ rows[i].adapter # "tf_axes"
                    /\ rows[i].topic = rows[j].topic /\ rows[i].adapter = rows[j].adapter)
               /\ ~(rows[i].adapter = "height_grid" /\ rows[j].adapter = "height_grid")
    <3>1. j \in 1..(i - 1)
      BY <2>3, <2>4
    <3>2. i \notin Repeated /\ i \notin MoreGrids
      BY <2>1
    <3>. QED  BY <3>1, <3>2 DEF Repeated, MoreGrids
  <2>5. ASSUME NEW i \in DOMAIN rows, NEW j \in DOMAIN rows, i # j
        PROVE  /\ rows[i].adapter = rows[j].adapter
                    => SubscriptionsFor(rows[i]) \intersect SubscriptionsFor(rows[j])
                         \subseteq {<<"updates", "OccupancyGridUpdate">>}
               /\ ~(rows[i].adapter = "height_grid" /\ rows[j].adapter = "height_grid")
    <3>1. KeptRowIsGood(rows[i]) /\ KeptRowIsGood(rows[j])
      BY <2>1, <2>3
    <3>2. i < j \/ j < i
      BY <2>3, <2>5
    <3>3. /\ ~(/\ rows[i].adapter # "tf_axes"
               /\ rows[i].topic = rows[j].topic /\ rows[i].adapter = rows[j].adapter)
          /\ ~(rows[i].adapter = "height_grid" /\ rows[j].adapter = "height_grid")
      BY <2>4, <3>2
    <3>. QED  BY <3>1, <3>3, SharedSubscriptions
  <2>6. ASSUME NEW i \in DOMAIN rows, NEW name \in Namespaces
        PROVE  Classify(rows[i], name) = Classify(Reordered(rows[i]), name)
    <3>1. KeptRowIsGood(rows[i])
      BY <2>1, <2>3
    <3>2. rows[i] \in ProfileRow /\ PrefixesDiffer(rows[i])
      BY <3>1 DEF KeptRowIsGood, ValidateRow
    <3>3. name \in Name
      BY ProfileConstants
    <3>. QED  BY <3>2, <3>3, OrderDoesNotMatter
  <2>7. ASSUME NEW i \in DOMAIN rows, NEW r \in DOMAIN rows[i].namespaces
        PROVE  KindIsDrawn(rows[i].namespaces[r])
    <3>1. KeptRowIsGood(rows[i])
      BY <2>1, <2>3
    <3>. QED  BY <3>1 DEF KeptRowIsGood, ValidateRow, KindIsLegalOnRender, KindIsDrawn
  <2>. QED  BY <2>2, <2>5, <2>6, <2>7
<1>2. profile = "rejected" => HasReason
  BY DEF ProfileInv
<1>. QED  BY <1>1, <1>2 DEF ProfileIsUnambiguous, HasReason, KindIsDrawn

\* Whatever a file says, an accepted profile has one reading and a rejected one a reason.
THEOREM ProfileHasOneReading == ProfileSpec => []ProfileIsUnambiguous
<1>1. ProfileInv /\ [ProfileNext]_profileVars => ProfileInv'
  <2>1. ASSUME ProfileInv, UNCHANGED profileVars PROVE ProfileInv'
    BY <2>1, ZenonT(60) DEF profileVars, ProfileInv, HasReason, Repeated, MoreGrids
  <2>. QED  BY <2>1, ReadRowInv, FinishProfileInv DEF ProfileNext
<1>. QED  BY <1>1, InitProfileInv, InvMeansUnambiguous, PTL DEF ProfileSpec

-----------------------------------------------------------------------------
\* The parts together.  A behaviour of NodeParts is one of each part.
LEMMA PartsAreParts ==
  PartsSpec => Spec /\ RowSpec /\ GovernorSpec /\ CameraSpec /\ AnchorSpec /\ ProfileSpec
               /\ MotionSpec
<1>1. PartsInit => /\ Init /\ RowInit /\ GovernorInit /\ CameraInit /\ AnchorInit
                   /\ ProfileInit /\ MotionInit
  BY DEF PartsInit
<1>2. ASSUME [PartsNext]_partsVars
      PROVE  /\ [Next]_vars /\ [RowNext]_rowVars /\ [GovernorNext]_governorVars
             /\ [CameraNext]_cameraVars /\ [AnchorNext]_anchorVars
             /\ [ProfileNext]_profileVars /\ [MotionNext]_motionVars
  BY <1>2 DEF PartsNext, partsVars
<1>. QED  BY <1>1, <1>2, PTL DEF PartsSpec, Spec, RowSpec, GovernorSpec, CameraSpec,
              AnchorSpec, ProfileSpec, MotionSpec

\* The invariants that a run checks of the node's parts, of all of them at once.
THEOREM PartsAreSafe ==
  PartsSpec => [](/\ FramesMatchTheMode /\ RowsLast /\ BoxesAreNamed /\ GovernorIsSteady
                  /\ AnchorIsTrue /\ ProfileIsUnambiguous /\ OneMoment)
BY PartsAreParts, NodeFramesMatchTheMode, RowDrawingsLast, RowBoxesAreNamed, GovernorSteady,
   AnchorStaysTrue, ProfileHasOneReading, MotionOneMoment, PTL

\* And the steps that none of them takes.
THEOREM PartsStepsAreSafe == PartsSpec => CreditsSettle /\ FadesBeforeTheCut /\ ViewGlides
BY PartsAreParts, NodeCreditsSettle, RowFadesBeforeTheCut, CameraViewGlides, PTL
=============================================================================
