------------------------------ MODULE MCSceneLayers ------------------------------
(* A path and a point, an instance grown from none and then the cap, two    *)
(* slots, two chunks that can be drawn and one that cannot, the two rows of *)
(* occupancy grids a shipped profile has.                                   *)
EXTENDS SceneLayers

MCKindOf == [r \in Row |-> IF r = "dynamic" THEN 0 ELSE 1]
MCSignature == [p \in Path |-> p]
MCTrim == {[moving |-> FALSE, path |-> None]} \cup {[moving |-> TRUE, path |-> p] : p \in Path}
=============================================================================
