------------------------------ MODULE MCNodeParts ------------------------------
(* Four sources of the environment; a row with two keys, which are the         *)
(* boundaries of the one lane; a percentile of 75 over four frames leaves room *)
(* for one slow one, as 95 does over twenty; a street of three metres at       *)
(* three quarter turns; files of up to two rows, each legal or with one fault. *)
EXTENDS NodeParts

MCKind == [u \in Uri |-> CASE u = "mapbox" -> "MAPBOX" [] u = "google" -> "GOOGLE"
                           [] u = "osm" -> "ION" [] OTHER -> "BAKED"]

MCLeft == [l \in Lane |-> CHOOSE k \in Key : k # Whole]
MCRight == [l \in Lane |-> Whole]

MCPresets == <<-40, 40, 7, -7, 1>>
MCLooks == {-90, 12}

MCTrueAnchor == [north |-> 3, east |-> -5, heading |-> 3]
MCDatum == [north |-> 1, east |-> 1, heading |-> 2]

MCRow(adapt, topic) ==
  [adapter |-> adapt, topic |-> topic,
   type |-> IF adapt = "tf_axes" THEN "" ELSE TypeOf(adapt),
   role |-> IF adapt \in DOMAIN RoleSets THEN CHOOSE r \in RoleSets[adapt] : TRUE ELSE "",
   keys |-> IF adapt = "height_grid" THEN {"height_min_m", "height_max_m"} ELSE {},
   encoding |-> "", nsDefault |-> "polyline", namespaces |-> <<>>, timeout |-> 2,
   stride |-> 1, heightMin |-> 0, heightMax |-> 1]

MCRule(prefix, render, kind) == [prefix |-> prefix, render |-> render, kind |-> kind]

MCRules ==
  LET lane == MCRule(<<"l">>, "polyline", "centerline")
      edge == MCRule(<<"l", "b">>, "drop", "other")
  IN {<<lane>>, <<lane, edge>>, <<edge, lane>>, <<lane, MCRule(<<"l">>, "drop", "other")>>}
       \union {<<rule>> : rule \in {MCRule(<<"c">>, "polyline", "crosswalk"),
                                   MCRule(<<"c">>, "polygon", "crosswalk"),
                                   MCRule(<<>>, "drop", "other"),
                                   MCRule(<<"c">>, "", "other"),
                                   MCRule(<<"c">>, "drop", "wrong")}}

MCRows ==
  {MCRow(a, t) : a \in DOMAIN RoleSets \ {"tf_axes"}, t \in {"A", "B"}}
    \union {MCRow("tf_axes", ""), MCRow("tf_axes", "A"), MCRow("wrong", "A"), MCRow("path", "")}
    \union {[MCRow(a, "A") EXCEPT !.keys = @ \union {k}, !.encoding = "costmap"] :
              a \in {"hd_map", "point_cloud", "ogm", "height_grid"},
              k \in KnownRowKeys \union {"bogus"}}
    \union {[MCRow("point_cloud", "B") EXCEPT !.stride = 0],
            [MCRow("path", "B") EXCEPT !.timeout = 0],
            [MCRow("height_grid", "B") EXCEPT !.heightMax = 0],
            [MCRow("height_grid", "B") EXCEPT !.keys = {}]}
    \union {[MCRow("hd_map", "A") EXCEPT !.namespaces = rules] : rules \in MCRules}

MCFiles == UNION {[1..n -> MCRows] : n \in 0..2}

MCNamespaces == {<<"l">>, <<"l", "b">>, <<"l", "b", "x">>, <<"c">>, <<"x">>}
=============================================================================
