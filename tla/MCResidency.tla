---------------------------- MODULE MCResidency ----------------------------
(* Who drives an agent: CLIs started inside one another, a console beside a *)
(* CLI, and two agents that report the same session.  The three questions   *)
(* are asked of separate instances, chosen by `part` in the initial state.  *)
EXTENDS Bridges, SessionHandles

VARIABLE part

residencyVars == <<part, bridgeVars, handleVars>>

\* The bounds of each part: three CLIs of one session, no console and nothing misread; one CLI and a console, as long as nothing
\* disturbs them, which is when LiveNotRobbed speaks of them; one report and one parked CLI at a time.
NestedOnly ==
    part = "nested" =>
        ag'.mode = "resident" /\ defn' = "none" /\ upsets' = 0 /\ \A i \in DOMAIN started'.cli : started'.cli[i] = 1
ConsoleOnly == part = "console" => Undisturbed /\ Len(started'.cli) <= 1
OneReport ==
    \A a, b \in Agents :
        ((patch'[a].k # "none" /\ patch'[b].k # "none") \/ (sess'[a].cand # 0 /\ sess'[b].cand # 0)) => a = b

Init ==
    /\ part \in {"nested", "console", "handles"}
    /\ BridgesInit
    /\ part = "nested" => ag.mode = "resident" /\ defn = "none"
    /\ part = "handles" => ag.mode = "resident" /\ defn = "none"
    /\ HandlesInit

Next ==
    /\ UNCHANGED part
    /\ \/ /\ part \in {"nested", "console"}
          /\ BridgesNext
          /\ (part = "nested" => ~StartConsole) /\ NestedOnly /\ ConsoleOnly
          /\ UNCHANGED handleVars
       \/ /\ part = "handles"
          /\ HandlesNext
          /\ OneReport
          /\ UNCHANGED bridgeVars

Spec ==
    /\ Init /\ [][Next]_residencyVars
    /\ WF_residencyVars(part = "nested" /\ Reclaimed /\ UNCHANGED <<part, handleVars>>)
    /\ WF_residencyVars(part = "nested" /\ ResidentLost /\ UNCHANGED <<part, handleVars>>)
    /\ \A b \in Cli : WF_residencyVars(/\ part = "nested" /\ reclaim_on_beat(b, {ag.owner} \cap Ids)
                                       /\ UNCHANGED <<part, handleVars>>)

\* The hand-back is asked of the part whose CLIs keep beating.
NestedHandedBack == \A b \in Cli : (part = "nested" /\ Behind(b)) ~> ~Behind(b)

\* The first CLI of a session gets it back once every CLI started from inside it is gone.
NestedParentGetsItBack ==
    (part = "nested" /\ LeftAlone(1)) ~> (ag.owner = 1 \/ ag.mode # "resident" \/ alive \cap Cli # {1})

=============================================================================
