--------------------------- MODULE MCDispatchRuns ---------------------------
(* Small instances of the dispatch runs for TLC: messages 1 and 2 come     *)
(* from one sender and are merged when they can be, message 3 from another.*)
EXTENDS DispatchRuns

MCSenderOf == [m \in Messages |-> IF m < 3 THEN "a" ELSE "b"]
=============================================================================
