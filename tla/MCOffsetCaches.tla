--------------------------- MODULE MCOffsetCaches ---------------------------
(* Two callers of one key: keys share the goroutines, but no entry.          *)
EXTENDS OffsetCaches
CONSTANTS k1, c1, c2
MCKinds == {"L2", "L3"}
MCKey == {k1}
MCCaller == {c1, c2}
=============================================================================
