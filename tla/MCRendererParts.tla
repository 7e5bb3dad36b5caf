---------------------------- MODULE MCRendererParts ----------------------------
(* A theme whose file has no height ramp, one with three stops, and one    *)
(* whose file is not there.                                                *)
EXTENDS RendererParts

MCStops == [t \in Theme \cup {Fallback} |-> CASE t = "dark" -> 0 [] t = "light" -> 3 [] OTHER -> 2]
=============================================================================
