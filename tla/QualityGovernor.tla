---------------------------- MODULE QualityGovernor ----------------------------
(***************************************************************************)
(* The governor of the render quality (quality_governor.cpp): it gathers   *)
(* the render times of a window of frames, drops the preset when their     *)
(* 95th percentile is above one threshold and raises it again after some   *)
(* windows below another, never within the dwell of the last change; the   *)
(* timer of the node (overlume_node.cpp) passes a change on to the         *)
(* renderer and to the parameter, which the user may set as well.          *)
(***************************************************************************)
EXTENDS Integers, Sequences

CONSTANTS
  WindowSize,              \* window_size
  Percent,                 \* the percentile of a window that is judged: 95
  MinDwell,                \* min_dwell_windows
  RecoverRequired          \* recover_windows_required

ASSUME GovernorConstants ==
  /\ WindowSize \in Nat \ {0}
  /\ Percent \in 1..100
  /\ MinDwell \in Nat \ {0}
  /\ RecoverRequired \in Nat \ {0}

\* A render time: below recover_threshold_ms, above drop_threshold_ms, between.
Time == {"fast", "mid", "slow"}

VARIABLES
  preset,      \* QualityGovernor::preset_
  window,      \* window_, as the number of times of each class
  dwell,       \* windows_since_transition_, up to MinDwell
  good,        \* consecutive_good_windows_, up to RecoverRequired
  rendererPreset, \* VisualRenderer::qualityPreset
  quality,     \* the node's quality_
  parameter,   \* its parameter of that name
  judged       \* the last windows: what each was, and the preset it left

governorVars ==
  <<preset, window, dwell, good, rendererPreset, quality, parameter, judged>>

NoWindow == [t \in Time |-> 0]

\* How many windows the history keeps: as many as a change may have to wait for.
Kept == MinDwell + RecoverRequired

\* create_renderer and the governor are given the value on_configure has accepted; the
\* first change need not wait.
GovernorInit ==
  /\ quality \in 0..2
  /\ preset = quality /\ rendererPreset = quality /\ parameter = quality
  /\ window = NoWindow
  /\ dwell = MinDwell /\ good = 0
  /\ judged = [i \in 1..Kept |-> [was |-> "mid", preset |-> quality]]

-----------------------------------------------------------------------------
Size(w) == w["fast"] + w["mid"] + w["slow"]

\* Percentile(window_, 0.95): the time of rank ceil(0.95 n).
Percentile(w) ==
  LET rank == (Percent * Size(w) + 99) \div 100
  IN IF w["fast"] >= rank THEN "fast"
     ELSE IF w["fast"] + w["mid"] >= rank THEN "mid" ELSE "slow"

UpTo(n, cap) == IF n > cap THEN cap ELSE n

\* Mutant: a rise does not start the dwell anew.
JudgeRiseKeepsDwell(v) ==
  LET elapsed == dwell + 1 >= MinDwell
      run == IF v = "fast" THEN UpTo(good + 1, RecoverRequired) ELSE 0
      drops == v = "slow" /\ elapsed /\ preset > 0
      recovers == v = "fast" /\ elapsed /\ preset < 2 /\ run >= RecoverRequired
  IN /\ preset' = IF drops THEN preset - 1 ELSE IF recovers THEN preset + 1 ELSE preset
     /\ dwell' = IF drops THEN 0 ELSE UpTo(dwell + 1, MinDwell)
     /\ good' = IF recovers THEN 0 ELSE run
     /\ judged' = Append(Tail(judged), [was |-> v, preset |-> preset'])

\* record_render_ms, when the window is full and v is its percentile.
Judge(v) ==
  LET elapsed == dwell + 1 >= MinDwell
      run == IF v = "fast" THEN UpTo(good + 1, RecoverRequired) ELSE 0
      drops == v = "slow" /\ elapsed /\ preset > 0
      recovers == v = "fast" /\ elapsed /\ preset < 2 /\ run >= RecoverRequired
  IN /\ preset' = IF drops THEN preset - 1 ELSE IF recovers THEN preset + 1 ELSE preset
     /\ dwell' = IF drops \/ recovers THEN 0 ELSE UpTo(dwell + 1, MinDwell)
     /\ good' = IF recovers THEN 0 ELSE run
     /\ judged' = Append(Tail(judged), [was |-> v, preset |-> preset'])

\* set_quality, quality_ and set_parameter, in the frame of a change.
PassOn ==
  IF preset' # preset
    THEN rendererPreset' = preset' /\ quality' = preset' /\ parameter' = preset'
    ELSE UNCHANGED <<rendererPreset, quality, parameter>>

\* A frame that the timer has drawn: its render time goes to the governor.
RecordRenderMs(t) ==
  LET w == [window EXCEPT ![t] = @ + 1] IN
  /\ IF Size(w) < WindowSize
       THEN window' = w /\ UNCHANGED <<preset, dwell, good, judged>>
       ELSE window' = NoWindow /\ Judge(Percentile(w))
  /\ PassOn

\* on_params accepts a value for the parameter and does nothing with it.
UserSetsQuality(q) ==
  /\ parameter' = q
  /\ UNCHANGED <<preset, window, dwell, good, rendererPreset, quality, judged>>

GovernorNext ==
  \/ \E t \in Time : RecordRenderMs(t)
  \/ \E q \in 0..2 : UserSetsQuality(q)

GovernorSpec == GovernorInit /\ [][GovernorNext]_governorVars

-----------------------------------------------------------------------------
GovernorTypeOK ==
  /\ preset \in 0..2 /\ quality \in 0..2 /\ rendererPreset \in 0..2 /\ parameter \in 0..2
  /\ window \in [Time -> 0..WindowSize] /\ Size(window) < WindowSize
  /\ dwell \in 0..MinDwell /\ good \in 0..RecoverRequired
  /\ judged \in Seq([was : Time, preset : 0..2]) /\ Len(judged) = Kept

\* Window i of the history has changed the preset.
Change(i) == judged[i].preset # judged[i - 1].preset

\* A change is followed by MinDwell - 1 windows that change nothing.
ChangesAreApart ==
  \A i, j \in 2..Kept : i < j /\ Change(i) /\ Change(j) => j - i >= MinDwell

\* The preset rises only after RecoverRequired fast windows since the last rise.
RisesAreEarned ==
  \A j \in (RecoverRequired + 1)..Kept :
    judged[j].preset > judged[j - 1].preset
      => /\ judged[j].preset = judged[j - 1].preset + 1
         /\ \A i \in (j - RecoverRequired + 1)..j : judged[i].was = "fast"
         /\ \A i \in (j - RecoverRequired + 1)..(j - 1) : ~Change(i)

\* MinDwell windows without a change, the last of them slow: the preset is the lowest.
OverloadIsAnswered ==
  LET last == Kept
      since == (last - MinDwell + 1)..last
  IN judged[last].was = "slow" /\ (\A i \in since : ~Change(i)) => preset = 0

\* The governor does not flap and does not sleep: two changes of the preset are at least
\* MinDwell windows apart, it rises by one and only after RecoverRequired windows in a row
\* whose 95th percentile is fast, none of which changed it, and a slow window that ends the
\* dwell drops it; the renderer has the preset the governor believes in
\* (quality_governor.cpp:31, overlume_node.cpp:1316).
GovernorIsSteady ==
  /\ ChangesAreApart
  /\ RisesAreEarned
  /\ OverloadIsAnswered
  /\ rendererPreset = preset /\ quality = preset
=============================================================================
