------------------------------- MODULE MCRuns -------------------------------
(* Two kinds of bridge side by side: claude sidecars (the constants of the  *)
(* cfg), and bridges that run managed workers themselves (the instance      *)
(* Managed, over the same variables).                                       *)
EXTENDS MCDispatchRuns, TLC

CONSTANT ManagedActs

VARIABLE kind

Managed == INSTANCE DispatchRuns WITH Mode <- "managed", Acts <- ManagedActs

runsVars == <<kind, vars>>

RunsInit == \/ kind = "claude" /\ Init
            \/ kind = "managed" /\ Managed!Init

RunsNext ==
    /\ UNCHANGED kind
    /\ \/ kind = "claude" /\ Next
       \/ kind = "managed" /\ Managed!Next

\* Neither the queue nor a sweep prefers one bridge to another.
AnyBridge == Permutations(Bridges)

RunsSpec == RunsInit /\ [][RunsNext]_runsVars
=============================================================================
