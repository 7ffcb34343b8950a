----------------------------- MODULE MCWorkers -----------------------------
(* Two starts and two consoles of one defined agent, with one mishap: a    *)
(* process that ends or an upset.                                          *)
EXTENDS Workers

OneMishap == upsets' + Cardinality({t \in Terms : proc'[t] = "gone"}) <= 1

MCWorkersSpec == WorkersInit /\ [][WorkersNext /\ OneMishap]_workerVars
=============================================================================
