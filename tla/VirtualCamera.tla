----------------------------- MODULE VirtualCamera -----------------------------
(***************************************************************************)
(* The virtual camera of the node (vcam.cpp): a service moves the view to  *)
(* one of five presets over half a second of ticks, along a smooth step, a *)
(* topic puts it anywhere at once, and the tick of the node takes the view *)
(* it renders from here.  A look point (eye and target) is one coordinate. *)
(***************************************************************************)
EXTENDS Integers

CONSTANTS
  Presets,       \* presets_: the look point of each preset
  Looks,         \* the points that set_look may ask for
  Duration,      \* a tween, in the unit of Step
  Step           \* what a tick adds to it: 0.033 of 0.5 s

ASSUME CameraConstants ==
  /\ Duration \in Nat \ {0} /\ Step \in Nat \ {0}
  /\ Presets \in [1..5 -> Int]
  /\ Looks \subseteq Int

VARIABLES
  cur,         \* cur_: what is looked at now
  src, dst,    \* src_, dst_: the ends of the tween
  tween,       \* tween_t_, in parts of Duration
  active       \* active_preset_; 0 is the free look

cameraVars == <<cur, src, dst, tween, active>>

\* The constructor; the seed pose is preset 1.
CameraInit ==
  /\ cur = Presets[1] /\ src = Presets[1] /\ dst = Presets[1]
  /\ tween = Duration
  /\ active = 1

-----------------------------------------------------------------------------
\* src + (dst - src) * smoothstep(t), rounded towards src.
Between(s, d, t) ==
  LET w == t * t * (3 * Duration - 2 * t)
      all == Duration * Duration * Duration
  IN IF d >= s THEN s + ((d - s) * w) \div all ELSE s - ((s - d) * w) \div all

\* advance_tween, in the node's timer.
AdvanceTween ==
  /\ IF tween < Duration
       THEN LET t == IF tween + Step > Duration THEN Duration ELSE tween + Step IN
            /\ tween' = t
            /\ cur' = Between(src, dst, t)
       ELSE UNCHANGED <<tween, cur>>
  /\ UNCHANGED <<src, dst, active>>

\* Mutant: a tween always starts where the last one was to end.
SetVirtualCamFromTarget(p) ==
  IF p \in DOMAIN Presets
    THEN /\ src' = dst /\ dst' = Presets[p]
         /\ tween' = 0
         /\ active' = p
         /\ UNCHANGED cur
    ELSE UNCHANGED cameraVars

\* on_set_virtual_cam; a preset that does not exist is refused.
SetVirtualCam(p) ==
  IF p \in DOMAIN Presets
    THEN /\ src' = cur /\ dst' = Presets[p]
         /\ tween' = 0
         /\ active' = p
         /\ UNCHANGED cur
    ELSE UNCHANGED cameraVars

\* on_set_look with six numbers; other lengths are dropped.
SetLook(point) ==
  /\ cur' = point /\ src' = point /\ dst' = point
  /\ tween' = Duration
  /\ active' = 0

CameraNext ==
  \/ AdvanceTween
  \/ \E p \in 0..6 : SetVirtualCam(p)
  \/ \E point \in Looks : SetLook(point)

CameraSpec == CameraInit /\ [][CameraNext]_cameraVars

-----------------------------------------------------------------------------
CameraTypeOK ==
  /\ cur \in Int /\ src \in Int /\ dst \in Int
  /\ tween \in 0..Duration
  /\ active \in 0..5

Distance(a, b) == IF a > b THEN a - b ELSE b - a

\* A free look is where it was put, a finished tween is at the preset it names, and one
\* under way leads there from where the view was.
HeadsForTheActive ==
  /\ active # 0 => dst = Presets[active]
  /\ tween = 0 => cur = src
  /\ tween = Duration => cur = dst

\* A step of the tween neither leaves the way to its end nor passes half of it: the
\* smooth step is steepest in the middle, 3/2 of the mean.
GlidesTowards ==
  /\ Distance(cur', dst') <= Distance(cur, dst')
  /\ 2 * Duration * Distance(cur', cur)
       <= 3 * Step * Distance(src', dst') + 2 * Duration

\* The view never jumps: whatever is asked for in the middle of a tween, it moves on from
\* where it is, closer to the preset it reports with every tick and by no more than the
\* smooth step allows, and it ends exactly there; only a free look moves it at once, and
\* that ends the tween it interrupts (vcam.cpp:41, vcam.cpp:63, vcam.cpp:82).
ViewGlides ==
  [][HeadsForTheActive' /\ (cur' # cur => active' = 0 \/ GlidesTowards)]_cameraVars
=============================================================================
