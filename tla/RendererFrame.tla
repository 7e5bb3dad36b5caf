----------------------------- MODULE RendererFrame -----------------------------
(***************************************************************************)
(* What a frame of the renderer reads: the scene the caller published last *)
(* (scene_buffer.cpp) and the theme, which a set_theme eases from what is  *)
(* shown to what is asked for (renderer.cpp, theme.cpp,                    *)
(* theme_transition.cpp).                                                  *)
(*                                                                         *)
(* The library is called from one thread: set_scene, set_theme and         *)
(* render_frame are one action each, and the caller does as it likes with  *)
(* its own memory between them.  A theme is what the properties tell apart *)
(* of its tokens: the name, a tone for all that is lerped, the ribbon's    *)
(* length fade and the height ramp with its number of stops.  A value on   *)
(* the way from one theme to another is Between.                           *)
(***************************************************************************)
EXTENDS Integers

CONSTANTS
  Theme,     \* names set_theme may be given
  Fallback,  \* kFallbackTheme, when the initial theme does not load
  Loads,     \* the names whose file is there and parses
  LengthFade, \* the themes with ribbon.fade_end_m > fade_start_m
  Stops,     \* Stops[t]: stops of the height ramp in t's file
  Duration,  \* of a transition, in steps of the scene's clock
  MaxAsked,  \* bound on the calls of set_theme
  Content    \* what the caller's arrays may hold

VARIABLES
  caller,      \* what the caller's arrays, and the points their items refer to, hold
  buffer,      \* SceneBuffer::slots_
  active_idx,
  published,   \* what the caller's arrays held at the last set_scene
  active_theme, theme_transition,
  elapsed,     \* the published scene's time past the transition's start
  materials,   \* the tokens the shared material instances were given
  heightFade,  \* those of a height grid's own instance, while it is fading
  light,       \* those of the sun, the ambient light, the fog and the sky
  wanted,      \* the theme asked for last
  asked        \* calls of set_theme so far

bufferVars == <<caller, buffer, active_idx, published>>
themeVars == <<active_theme, theme_transition, elapsed, materials, heightFade, light,
               wanted, asked>>
vars == <<bufferVars, themeVars>>

None == <<>>        \* an optional without a value; with one it is <<value>>
CallerMemory == -1  \* where a pointer leads that leads to neither slot
Between == "between"

-----------------------------------------------------------------------------
\* parse: every token a file leaves out has a value, and a ramp without stops two.
Parse(t) ==
  [name |-> t, tone |-> t, fade |-> IF t \in LengthFade THEN t ELSE "off",
   stops |-> IF Stops[t] = 0 THEN 2 ELSE Stops[t], ramp |-> t]

\* lerpf and blend_color at weight zero, one, and in between.
Mix(x, y, t) ==
  IF x = y \/ t = 0 THEN x ELSE IF t = Duration THEN y ELSE Between

\* Two ribbon fades are lerped; of one fade and none, the fade is kept.
BlendFade(x, y, t) ==
  IF x # "off" /\ y # "off" THEN Mix(x, y, t) ELSE IF x # "off" THEN x ELSE y

\* blend: the height ramps are lerped stop by stop, or snap halfway.
Blend(a, b, t) ==
  LET late == 2 * t >= Duration IN
  [name |-> IF t = Duration THEN b.name ELSE a.name,
   tone |-> Mix(a.tone, b.tone, t),
   fade |-> BlendFade(a.fade, b.fade, t),
   stops |-> IF late THEN b.stops ELSE a.stops,
   ramp |-> IF a.stops = b.stops THEN Mix(a.ramp, b.ramp, t)
            ELSE IF late THEN b.ramp ELSE a.ramp]

\* OwnedScene: its arrays and points, and where the view's pointers lead.
Nothing == CHOOSE c \in Content : TRUE
EmptyScene(i) == [own |-> Nothing, itemsAt |-> i, pointsAt |-> i]

Init ==
  /\ caller = Nothing
  /\ buffer = [i \in 0..1 |-> EmptyScene(i)]
  /\ active_idx = 0
  /\ published = Nothing
  /\ wanted \in Theme \cup {Fallback}
  /\ wanted # Fallback => wanted \in Loads
  /\ active_theme = Parse(wanted)
  /\ materials = Parse(wanted)
  /\ theme_transition = None /\ elapsed = 0
  /\ heightFade = None /\ light = Parse(wanted)
  /\ asked = 0

-----------------------------------------------------------------------------
\* The caller's arrays are its own: it overwrites them when it likes.
CallerWrites ==
  /\ caller' \in Content
  /\ UNCHANGED <<buffer, active_idx, published, themeVars>>

\* Mutant: the points of the items are left where the caller has them.
AssignShallow(i) == [own |-> caller, itemsAt |-> i, pointsAt |-> CallerMemory]

\* OwnedScene::assign: every array is copied, and every pointer of the view and of
\* its items is led to the copy.
Assign(i) == [own |-> caller, itemsAt |-> i, pointsAt |-> i]

\* SceneBuffer::publish fills the slot not shown, then shows it.
SetScene(dt) ==
  LET next == 1 - active_idx IN
  /\ buffer' = [buffer EXCEPT ![next] = Assign(next)]
  /\ active_idx' = next
  /\ published' = caller
  /\ elapsed' = IF elapsed + dt > Duration THEN Duration ELSE elapsed + dt
  /\ UNCHANGED <<caller, active_theme, theme_transition, materials, heightFade, light,
                 wanted, asked>>

\* A name that does not load changes nothing: a stuttering step.  The caller's clock
\* may be ahead of the scene's.
SetTheme(t, ahead) ==
  /\ asked < MaxAsked
  /\ t \in Loads
  /\ theme_transition' = <<[from |-> active_theme, to |-> Parse(t)]>>
  /\ elapsed' = -ahead
  /\ wanted' = t
  /\ asked' = asked + 1
  /\ UNCHANGED <<bufferVars, active_theme, materials, heightFade, light>>

\* push_theme_to_scene, in its order: the instances the renderables share,
PushShared(theme) == materials' = theme

\* Mutant: the instances that fade are left for their layers.
LeaveFading(theme) == UNCHANGED heightFade

\* the grids' own, which update_height_grids, that follows, writes only when it makes them,
PushFading(theme) == heightFade' \in {None, <<theme>>}

\* and what the scene is lit by.
PushLight(theme) == light' = theme

Push(theme) == PushShared(theme) /\ PushFading(theme) /\ PushLight(theme)

\* Mutant: a finished transition is dropped before its last blend is shown.
ApplyEarlyEnd ==
  IF theme_transition = None \/ elapsed >= Duration
  THEN /\ theme_transition' = None
       /\ active_theme' = active_theme
       /\ heightFade' \in {None, <<active_theme>>, heightFade}
       /\ UNCHANGED <<materials, light>>
  ELSE LET blended == Blend(theme_transition[1].from, theme_transition[1].to,
                            IF elapsed < 0 THEN 0 ELSE elapsed)
       IN /\ Push(blended)
          /\ active_theme' = blended
          /\ theme_transition' = theme_transition

\* apply_current_theme, in render_frame, with the time of the scene shown.
ApplyCurrentTheme ==
  IF theme_transition = None
  THEN /\ heightFade' \in {None, IF heightFade = None THEN <<active_theme>> ELSE heightFade}
       /\ UNCHANGED <<active_theme, theme_transition, materials, light>>
  ELSE LET t == IF elapsed < 0 THEN 0 ELSE elapsed
           blended == Blend(theme_transition[1].from, theme_transition[1].to, t)
       IN /\ Push(blended)
          /\ active_theme' = blended
          /\ theme_transition' = IF t = Duration THEN None ELSE theme_transition

RenderFrame ==
  /\ ApplyCurrentTheme
  /\ UNCHANGED <<bufferVars, elapsed, wanted, asked>>

Next ==
  \/ CallerWrites
  \/ \E dt \in 0..Duration : SetScene(dt)
  \/ \E t \in Theme, ahead \in 0..1 : SetTheme(t, ahead)
  \/ RenderFrame

Spec == Init /\ [][Next]_vars

\* The program publishes and renders again and again, on a clock that advances.
SceneAdvances == \E dt \in 1..Duration : SetScene(dt)
TransitionIsDrawn == theme_transition # None /\ RenderFrame

Fairness == WF_vars(SceneAdvances) /\ WF_vars(TransitionIsDrawn)

FairSpec == Spec /\ Fairness

-----------------------------------------------------------------------------
\* What render_frame's layers read through the view they are given.
Deref(at) == IF at = CallerMemory THEN caller ELSE buffer[at].own

\* A frame shows the scene as it was when it was published, whatever the caller has
\* done to its arrays since and whatever the other slot holds (scene_buffer.cpp).
SceneIsFrozen ==
  /\ Deref(buffer[active_idx].itemsAt) = published
  /\ Deref(buffer[active_idx].pointsAt) = published

\* The theme asked for last is in the end shown, by the shared instances, by those that
\* fade and by the light, and stays: wherever a transition was when the next one began,
\* and whatever the number of stops of the ramps (set_theme, apply_current_theme).
ShowsWanted ==
  /\ theme_transition = None
  /\ [active_theme EXCEPT !.fade = "any"] = [Parse(wanted) EXCEPT !.fade = "any"]
  /\ materials = active_theme /\ light = active_theme
  /\ heightFade \in {None, <<active_theme>>}

ThemeArrives == <>[]ShowsWanted

\* Once a transition is over, the ribbons fade along their length if, and only if, the
\* theme asked for has them fade ("eases all tokens from the current theme to the
\* target", the visual-mode design).
ThemeSettles == theme_transition = None => active_theme.fade = Parse(wanted).fade
=============================================================================
