---------------------------- MODULE GeoAnchorSolver ----------------------------
(***************************************************************************)
(* Where the map frame lies on the Earth (geo_anchor.cpp): three           *)
(* parameters say it, or it is solved once from enough pairs of a GPS fix  *)
(* and the pose the transforms have at that moment, over a long enough     *)
(* base line; the callback of the node (overlume_node.cpp) then chooses    *)
(* the height.  The vehicle drives on a straight street along an axis of   *)
(* the map; metres north and east stand for degrees, quarter turns for     *)
(* angles, and a pose is at most Lag metres from where its fix was taken.  *)
(***************************************************************************)
EXTENDS Integers, Sequences

CONSTANTS
  MinAnchorSamples,     \* kMinAnchorSamples
  MinAnchorBaseline,    \* kMinAnchorBaselineM
  StreetLength,         \* the vehicle is at 0..StreetLength on its street
  Lag,                  \* how far the pose may be from where the fix was taken
  TrueAnchor,           \* where the map frame really lies
  Datum,                \* the anchor of the parameters, when all three are given
  DatumHeight,          \* geo_datum_height_m, when it is given
  HeightOffset,         \* geo_anchor_height_offset_m
  Altitude,             \* the altitude of a fix, when it has one
  MaxFixes,             \* bound: how many fixes are heard
  NoHeight              \* a height that is NaN

ASSUME AnchorConstants ==
  /\ MinAnchorSamples \in Nat \ {0, 1}
  /\ StreetLength \in Nat /\ Lag \in Nat /\ MaxFixes \in Nat
  /\ MinAnchorBaseline \in Nat /\ MinAnchorBaseline > 2 * Lag
  /\ {TrueAnchor, Datum} \subseteq [north : Int, east : Int, heading : 0..3]
  /\ {DatumHeight, HeightOffset, Altitude} \subseteq Int /\ NoHeight \notin Int

VARIABLES
  course,      \* the direction of the street, in quarter turns from the x axis
  givenDatum,  \* ClassifyGeoDatum of the parameters
  givenHeight, \* geo_datum_height_m
  overridden, anchorSolved, \* overridden_, solved_
  anchor,      \* anchor_; north and east are sums over the fixes it was solved from
  samples,     \* how many those are; 1 for an override
  height,      \* anchor_.origin_height_m, as a sum over heightOf altitudes
  heightOf,
  fixes,       \* fixes_
  mapXY,       \* map_xy_
  altitudes,   \* how many altitudes_ are kept
  logged       \* geo_anchor_logged_

anchorVars == <<course, givenDatum, givenHeight, overridden, anchorSolved, anchor, samples,
                height, heightOf, fixes, mapXY, altitudes, logged>>

NoAnchor == [north |-> 0, east |-> 0, heading |-> 0]

-----------------------------------------------------------------------------
Sin(quarters) == <<0, 1, 0, -1>>[(quarters % 4) + 1]
Cos(quarters) == <<1, 0, -1, 0>>[(quarters % 4) + 1]

\* WgsToMap, without the scale of degrees.
WgsToMap(a, wgs) ==
  LET east == wgs.east - a.east
      north == wgs.north - a.north
      s == Sin(a.heading)
      c == Cos(a.heading)
  IN [x |-> east * s + north * c, y |-> north * s - east * c]

\* MapToWgs: its inverse.
MapToWgs(a, xy) ==
  LET s == Sin(a.heading)
      c == Cos(a.heading)
  IN [east |-> a.east + xy.x * s - xy.y * c, north |-> a.north + xy.x * c + xy.y * s]

\* atan2(b, a) of a vector along an axis.
Quarters(a, b) == IF a > 0 THEN 0 ELSE IF b > 0 THEN 1 ELSE IF a < 0 THEN 2 ELSE 3

Along(p) == [x |-> p * Cos(course), y |-> p * Sin(course)]

\* The heading of SolveAnchor: the bearing of the drive and its angle in the map, from the
\* first pair to the last.
SolvedHeading(fs, xys) ==
  LET first == Head(fs)  last == fs[Len(fs)]
      from == Head(xys)  to == xys[Len(xys)]
  IN (Quarters(last.north - first.north, last.east - first.east)
        + Quarters(to.x - from.x, to.y - from.y)) % 4

\* The origin that a fix and its pose imply.
Implied(fix, xy, heading) ==
  LET at == MapToWgs([north |-> 0, east |-> 0, heading |-> heading], xy)
  IN [north |-> fix.north - at.north, east |-> fix.east - at.east]

\* The sum of the origins that the pairs imply.
OriginSum(fs, xys, heading) ==
  LET sum[i \in 0..Len(fs)] ==
        IF i = 0 THEN [north |-> 0, east |-> 0]
        ELSE LET o == Implied(fs[i], xys[i], heading)
             IN [north |-> sum[i - 1].north + o.north, east |-> sum[i - 1].east + o.east]
  IN sum[Len(fs)]

\* hypot of a vector along an axis.
Hypot(a, b) == LET abs(n) == IF n < 0 THEN -n ELSE n IN abs(a.x - b.x) + abs(a.y - b.y)

-----------------------------------------------------------------------------
\* on_configure: a complete datum is taken at once, with its height or none.
AnchorInit ==
  /\ course \in 0..3
  /\ givenDatum \in {"none", "partial", "complete"}
  /\ givenHeight \in {NoHeight, DatumHeight}
  /\ overridden = (givenDatum = "complete")
  /\ anchorSolved = overridden /\ logged = overridden
  /\ anchor = IF overridden THEN Datum ELSE NoAnchor
  /\ samples = 1
  /\ height = IF overridden THEN (IF givenHeight = NoHeight THEN 0 ELSE givenHeight)
                                 + HeightOffset
                            ELSE 0
  /\ heightOf = 1
  /\ fixes = <<>> /\ mapXY = <<>> /\ altitudes = 0

\* SolveAnchor, and ChooseAnchorHeightM with it, which the callback does once.
Solve(fs, xys, alts) ==
  LET heading == SolvedHeading(fs, xys)
      sum == OriginSum(fs, xys, heading)
      n == IF givenHeight = NoHeight /\ alts > 0 THEN alts ELSE 1
      own == IF givenHeight # NoHeight THEN givenHeight ELSE alts * Altitude
  IN /\ anchor' = [north |-> sum.north, east |-> sum.east, heading |-> heading]
     /\ samples' = Len(fs)
     /\ height' = own + n * HeightOffset
     /\ heightOf' = n
     /\ logged' = TRUE

\* Mutant: the fix is kept before the transform is looked up.
OnFixKeptFirst(wgs, pose, hasPose, hasAltitude) ==
  IF overridden \/ anchorSolved THEN UNCHANGED anchorVars
  ELSE /\ fixes' = Append(fixes, wgs)
       /\ mapXY' = IF hasPose THEN Append(mapXY, pose) ELSE mapXY
       /\ altitudes' = IF hasAltitude THEN altitudes + 1 ELSE altitudes
       /\ anchorSolved' = (hasPose /\ Len(mapXY') >= MinAnchorSamples
                       /\ Hypot(Head(mapXY'), pose) >= MinAnchorBaseline)
       /\ IF anchorSolved' THEN Solve(SubSeq(fixes', 1, Len(mapXY')), mapXY', altitudes')
                     ELSE UNCHANGED <<anchor, samples, height, heightOf, logged>>
       /\ UNCHANGED <<course, givenDatum, givenHeight, overridden>>

\* The callback of a fix: on_fix, and the height once it has solved the anchor.
OnFix(wgs, pose, hasPose, hasAltitude) ==
  IF overridden \/ anchorSolved \/ ~hasPose THEN UNCHANGED anchorVars
  ELSE /\ fixes' = Append(fixes, wgs)
       /\ mapXY' = Append(mapXY, pose)
       /\ altitudes' = IF hasAltitude THEN altitudes + 1 ELSE altitudes
       /\ anchorSolved' = (/\ Len(fixes') >= MinAnchorSamples
                     /\ Hypot(Head(mapXY'), pose) >= MinAnchorBaseline)
       /\ IF anchorSolved' THEN Solve(fixes', mapXY', altitudes')
                     ELSE UNCHANGED <<anchor, samples, height, heightOf, logged>>
       /\ UNCHANGED <<course, givenDatum, givenHeight, overridden>>

\* The vehicle is at p when the transforms are read, and was at q when the fix was taken.
AnchorNext ==
  /\ Len(fixes) < MaxFixes
  /\ \E p, q \in 0..StreetLength, hasPose, hasAltitude \in BOOLEAN :
       /\ q - p \in (-Lag)..Lag
       /\ OnFix(MapToWgs(TrueAnchor, Along(q)), Along(p), hasPose, hasAltitude)

AnchorSpec == AnchorInit /\ [][AnchorNext]_anchorVars

-----------------------------------------------------------------------------
\* How far the origin is from the true one, summed over the samples: north and east.
Off == [north |-> anchor.north - samples * TrueAnchor.north,
        east |-> anchor.east - samples * TrueAnchor.east]

SolvedIsTrue ==
  LET within(n) == n \in (-samples * Lag)..(samples * Lag) IN
  /\ anchor.heading = TrueAnchor.heading
  /\ within(Off.north) /\ within(Off.east)
  /\ Lag = 0 => \A i \in DOMAIN fixes : WgsToMap(TrueAnchor, fixes[i]) = mapXY[i]

HeightIsChosen ==
  height = heightOf * (HeightOffset
                         + IF givenHeight # NoHeight THEN givenHeight
                           ELSE IF altitudes > 0 THEN Altitude ELSE 0)

\* The anchor that everything on the map is placed by: whatever fixes came before the
\* transforms did, one that is solved has the heading of the vehicle's drive exactly and an
\* origin no further from the truth than a fix is from its pose, its height has the offset
\* once, a datum of the parameters is never overruled, and it is not solved later than the
\* samples and the base line allow (geo_anchor.cpp:124, overlume_node.cpp:281).
AnchorIsTrue ==
  /\ overridden => anchor = Datum /\ fixes = <<>>
  /\ anchorSolved => HeightIsChosen /\ (overridden \/ SolvedIsTrue)
  /\ ~anchorSolved /\ Len(mapXY) >= MinAnchorSamples
       => Hypot(Head(mapXY), mapXY[Len(mapXY)]) < MinAnchorBaseline
=============================================================================
