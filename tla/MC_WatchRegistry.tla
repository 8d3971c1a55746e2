------------------------- MODULE MC_WatchRegistry -------------------------
(* Model-checking instance of WatchRegistry: two sources a and b in one  *)
(* directory and two file-system operations, enough to rotate both.  With *)
(* these bounds and a alone the invariant holds (47 states): Watcher's    *)
(* single-source hazard, a file recreated and moved again before its dir *)
(* event is handled, needs three.                                         *)
EXTENDS WatchRegistry

CONSTANTS a, b, other

MCSources == {a, b}
=============================================================================
