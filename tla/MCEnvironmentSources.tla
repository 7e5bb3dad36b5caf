------------------------- MODULE MCEnvironmentSources --------------------------
(* Two baked chunks; one tile with two assets, two failures and two pumps; three *)
(* tasks for two threads.                                                        *)
EXTENDS EnvironmentSources
=============================================================================
