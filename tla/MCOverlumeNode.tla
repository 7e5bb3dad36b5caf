----------------------------- MODULE MCOverlumeNode -----------------------------
EXTENDS OverlumeNode
MCKind == [u \in Uri |-> CASE u = "mapbox" -> "MAPBOX" [] u = "google" -> "GOOGLE"
                           [] u = "osm" -> "ION" [] OTHER -> "BAKED"]
=============================================================================
