----------------------------- MODULE ProfileLoader -----------------------------
(***************************************************************************)
(* The profile a configured node works from (profile.cpp): the rows of a   *)
(* file are parsed and checked one after another, then checked against     *)
(* each other, and the profile is accepted as a whole or not at all.  A    *)
(* namespace prefix is a sequence of letters; the optional keys of a row   *)
(* are a set, with a value where the loader looks at it.                   *)
(***************************************************************************)
EXTENDS Integers, Sequences, SequencesExt

CONSTANTS
  Files,       \* the files: sequences of rows
  Namespaces   \* the names that markers come with

Name == Seq(STRING)

NsRule == [prefix : Name, render : STRING, kind : STRING]

ProfileRow ==
  [adapter : STRING, topic : STRING, type : STRING, role : STRING, keys : SUBSET STRING,
   encoding : STRING, nsDefault : STRING, namespaces : Seq(NsRule), timeout : Int, stride : Int,
   heightMin : Int, heightMax : Int]

ASSUME ProfileConstants ==
  /\ <<>> \in Files /\ Files \subseteq Seq(ProfileRow)
  /\ Namespaces \subseteq Name

VARIABLES
  file,        \* the YAML::Node, its rows
  index,       \* idx: the row that is read next
  rows,        \* Profile::rows
  rowIndex,    \* row_file_idx
  errors,      \* errors: the row and what is wrong with it
  hardFail,    \* hard_fail
  profile      \* "loading", then "accepted" or "rejected"

profileVars == <<file, index, rows, rowIndex, errors, hardFail, profile>>

ProfileInit ==
  /\ file \in Files
  /\ index = 1 /\ rows = <<>> /\ rowIndex = <<>> /\ errors = {}
  /\ hardFail = FALSE
  /\ profile = "loading"

-----------------------------------------------------------------------------
NsRenders == {"drop", "polyline", "polygon"}

MapKinds == {"other", "centerline", "left_boundary", "right_boundary", "crosswalk",
             "stopline", "junction", "road_edge"}

\* KindIsLegalOnRender
KindIsLegalOnRender(kind, render) ==
  \/ kind = "other"
  \/ kind = "crosswalk" /\ render = "polygon"
  \/ kind \notin {"other", "crosswalk"} /\ render = "polyline"

\* RoleSets; its keys are KnownAdapters.
RoleSets ==
  [path |-> {"behavior", "global", "local"}, hd_map |-> {"lane"},
   ogm |-> {"dynamic_ogm", "gradient_ogm"},
   collision |-> {"collision", "predicted", "merged_object", "sweep", "merged_ego"},
   dynamic_objects |-> {"tracked"}, generic |-> {"neutral"}, tf_axes |-> {"debug"},
   point_cloud |-> {"points"}, trajectory_carpet |-> {"carpet"},
   height_grid |-> {"terrain"}]

\* TypeSets
TypeOf(adapter) ==
  CASE adapter = "path" -> "Path"
    [] adapter \in {"ogm", "height_grid"} -> "OccupancyGrid"
    [] adapter = "point_cloud" -> "PointCloud2"
    [] OTHER -> "MarkerArray"

\* The adapters on which an optional key is legal, for those of KnownRowKeys that are not
\* legal on all.
OnlyOn ==
  [junction_interior_boundaries |-> {"hd_map"},
   color_mode |-> {"point_cloud"}, max_points |-> {"point_cloud"},
   stride |-> {"point_cloud"}, min_z_m |-> {"point_cloud"},
   frame_id |-> {"point_cloud", "ogm", "height_grid"},
   encoding |-> {"ogm", "height_grid"},
   height_min_m |-> {"height_grid"}, height_max_m |-> {"height_grid"}]

KnownRowKeys == DOMAIN OnlyOn \union {"update_topic"}

\* The entries of a row's namespaces, each with all it needs.
NamespacesParse(row) ==
  \A i \in DOMAIN row.namespaces :
    LET rule == row.namespaces[i] IN
      /\ rule.prefix # <<>>
      /\ rule.render \in NsRenders
      /\ rule.kind \in MapKinds

\* ParseRow
ParseRow(row) ==
  /\ \A key \in row.keys \intersect DOMAIN OnlyOn : row.adapter \in OnlyOn[key]
  /\ "encoding" \in row.keys =>
       row.encoding \in IF row.adapter = "ogm" THEN {"occupancy", "costmap"}
                        ELSE {"height_linear", "height_normalized"}
  /\ row.adapter = "height_grid" => {"height_min_m", "height_max_m"} \subseteq row.keys
  /\ row.nsDefault \in NsRenders
  /\ NamespacesParse(row)

\* Its remarks that reject nothing.
Remarks(row) == {key \in row.keys : key \notin KnownRowKeys}

PrefixesDiffer(row) ==
  \A i, j \in DOMAIN row.namespaces :
    i # j => row.namespaces[i].prefix # row.namespaces[j].prefix

\* The part of ValidateRow about what the row is.
RowIsKnown(row) ==
  /\ row.adapter \in DOMAIN RoleSets
  /\ IF row.adapter = "tf_axes" THEN row.topic = "" /\ row.type = ""
                                ELSE row.topic # "" /\ row.type = TypeOf(row.adapter)
  /\ row.role \in RoleSets[row.adapter]

\* Mutant: two rules of a row may have the same prefix.
ValidateRowSamePrefix(row) ==
  /\ RowIsKnown(row)
  /\ "update_topic" \in row.keys => row.adapter = "ogm"
  /\ row.adapter = "height_grid" => row.heightMax > row.heightMin
  /\ row.timeout >= 1
  /\ row.adapter = "point_cloud" => row.stride >= 1
  /\ \A i \in DOMAIN row.namespaces :
       KindIsLegalOnRender(row.namespaces[i].kind, row.namespaces[i].render)

\* ValidateRow
ValidateRow(row) ==
  /\ RowIsKnown(row)
  /\ "update_topic" \in row.keys => row.adapter = "ogm"
  /\ row.adapter = "height_grid" => row.heightMax > row.heightMin
  /\ row.timeout >= 1
  /\ row.adapter = "point_cloud" => row.stride >= 1
  /\ PrefixesDiffer(row)
  /\ \A i \in DOMAIN row.namespaces :
       KindIsLegalOnRender(row.namespaces[i].kind, row.namespaces[i].render)

\* One turn of the loop of BuildProfile.
ReadRow ==
  /\ profile = "loading" /\ index <= Len(file)
  /\ LET row == file[index]
         keeps == ParseRow(row) /\ ValidateRow(row)
     IN /\ rows' = IF keeps THEN Append(rows, row) ELSE rows
        /\ rowIndex' = IF keeps THEN Append(rowIndex, index) ELSE rowIndex
        /\ hardFail' = (hardFail \/ ~keeps)
        /\ errors' = errors
             \union {<<index, "unknown key">> : key \in Remarks(row)}
             \union (IF ParseRow(row) THEN {} ELSE {<<index, "parse">>})
             \union (IF ParseRow(row) /\ ~ValidateRow(row) THEN {<<index, "validate">>} ELSE {})
  /\ index' = index + 1
  /\ UNCHANGED <<file, profile>>

\* The kept rows that repeat the topic and the adapter of an earlier one, and the height
\* grids after the first; the axes of the transforms are exempt.
Repeated == {i \in DOMAIN rows : \E j \in 1..(i - 1) :
               /\ rows[i].adapter # "tf_axes"
               /\ rows[i].topic = rows[j].topic /\ rows[i].adapter = rows[j].adapter}

MoreGrids == {i \in DOMAIN rows : \E j \in 1..(i - 1) :
                rows[i].adapter = "height_grid" /\ rows[j].adapter = "height_grid"}

\* The rest of BuildProfile, once the rows are read.
FinishProfile ==
  /\ profile = "loading" /\ index = Len(file) + 1
  /\ errors' = errors \union {<<rowIndex[i], "duplicate">> : i \in Repeated}
                      \union {<<rowIndex[i], "second grid">> : i \in MoreGrids}
  /\ hardFail' = (hardFail \/ Repeated # {} \/ MoreGrids # {})
  /\ profile' = IF hardFail' THEN "rejected" ELSE "accepted"
  /\ UNCHANGED <<file, index, rows, rowIndex>>

ProfileNext == ReadRow \/ FinishProfile

ProfileSpec == ProfileInit /\ [][ProfileNext]_profileVars

-----------------------------------------------------------------------------
Matches(rules, name) == {i \in DOMAIN rules : IsPrefix(rules[i].prefix, name)}

\* match_rule: the first of the longest prefixes; 0 is the row's default.
MatchRule(rules, name) ==
  LET length(i) == Len(rules[i].prefix)
      best == {i \in Matches(rules, name) :
                 \A j \in Matches(rules, name) : length(j) <= length(i)}
  IN IF best = {} THEN 0 ELSE CHOOSE i \in best : \A j \in best : i <= j

\* classify
Classify(row, name) ==
  LET i == MatchRule(row.namespaces, name)
  IN IF i = 0 THEN row.nsDefault ELSE row.namespaces[i].render

\* subscriptions_for: topic and type of each subscription of a row.
SubscriptionsFor(row) ==
  IF row.adapter = "tf_axes" THEN {}
  ELSE {<<row.topic, row.type>>}
         \union IF row.adapter = "ogm" /\ "update_topic" \in row.keys
                  THEN {<<"updates", "OccupancyGridUpdate">>} ELSE {}

\* The same row with its rules in reverse: a file that means the same.
Reordered(row) == [row EXCEPT !.namespaces = Reverse(@)]

\* What an accepted profile says has one reading: the rows are those of the file in its
\* order, no two with one adapter subscribe to one topic with one type (but for the
\* updates of occupancy grids, whose topic nothing compares), at most one is the terrain
\* the ground hole follows, every marker's namespace has the same verdict in whatever
\* order the rules are written, and a rule that names a kind draws it, as an area if it
\* is a crosswalk and else as a line.  What is rejected has at least one error that
\* names a row (profile.cpp:358, 452, 467).
ProfileIsUnambiguous ==
  /\ profile = "accepted" =>
       /\ rows = file
       /\ \A i, j \in DOMAIN rows : i # j =>
            /\ rows[i].adapter = rows[j].adapter
                 => SubscriptionsFor(rows[i]) \intersect SubscriptionsFor(rows[j])
                      \subseteq {<<"updates", "OccupancyGridUpdate">>}
            /\ ~(rows[i].adapter = "height_grid" /\ rows[j].adapter = "height_grid")
       /\ \A i \in DOMAIN rows, name \in Namespaces :
            Classify(rows[i], name) = Classify(Reordered(rows[i]), name)
       /\ \A i \in DOMAIN rows : \A r \in DOMAIN rows[i].namespaces :
            LET rule == rows[i].namespaces[r]
            IN rule.kind # "other" =>
                 rule.render = IF rule.kind = "crosswalk" THEN "polygon" ELSE "polyline"
  /\ profile = "rejected" =>
       \E i \in DOMAIN file : \E e \in errors : e[1] = i /\ e[2] # "unknown key"
=============================================================================
