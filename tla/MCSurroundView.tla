---------------------------- MODULE MCSurroundView ----------------------------
EXTENDS SurroundView
\* Two calibrations, of a landscape and of a portrait image.
MCSize(i) == IF i = "landscape" THEN <<4, 3>> ELSE <<3, 4>>
=============================================================================
