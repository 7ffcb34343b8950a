----------------------------- MODULE MCRunsLive -----------------------------
(* Every run settles, for two kinds of sidecar: hermes sidecars that may be *)
(* taken for gone (the constants of the cfg), and one claude sidecar that   *)
(* people interrupt (the instance Claude, over the same variables).         *)
EXTENDS MCDispatchRuns

CONSTANT b1

VARIABLE sidecar

ClaudeActs == {"unsend", "cancel", "terminal", "discard", "requeue", "orphan", "reap", "release"}

Claude == INSTANCE DispatchRuns WITH
    Mode <- "claude", Bridges <- {b1}, RequeueLimit <- 2, MaxFaults <- 1, Misjudge <- {}, Acts <- ClaudeActs

liveVars == <<sidecar, vars>>

Either(hermes, claude) ==
    /\ UNCHANGED sidecar
    /\ \/ sidecar = "hermes" /\ hermes
       \/ sidecar = "claude" /\ claude

LiveInit == \/ sidecar = "hermes" /\ Init
            \/ sidecar = "claude" /\ Claude!Init

\* The fairness of DispatchRuns, for whichever sidecar the behaviour has.
LiveFairness ==
    /\ WF_liveVars(Either(UnsendWrite, Claude!UnsendWrite))
    /\ WF_liveVars(Either(CloseWrite, Claude!CloseWrite))
    /\ WF_liveVars(Either(StopWrite, Claude!StopWrite))
    /\ WF_liveVars(\E d \in Elapse : Either(InboxWrite(d), Claude!InboxWrite(d)))
    /\ \A b \in Bridges :
        /\ WF_liveVars(Either(Polls(b), b = b1 /\ Claude!Polls(b)))
        /\ WF_liveVars(Either(Works(b), b = b1 /\ Claude!Works(b)))
        /\ WF_liveVars(Either(PatchWrite(b), b = b1 /\ Claude!PatchWrite(b)))
        /\ WF_liveVars(Either(Lapse(b), b = b1 /\ Claude!Lapse(b)))
    /\ \A s \in Sweepers :
        /\ WF_liveVars(Either(SweepWrite(s), Claude!SweepWrite(s)))
        /\ \A job \in Jobs \ {"terminal"}, r \in RunIds :
              SF_liveVars(Either(job \in Acts /\ SweepSelect(s, job, r),
                                 job \in ClaudeActs /\ Claude!SweepSelect(s, job, r)))

LiveNext ==
    /\ UNCHANGED sidecar
    /\ \/ sidecar = "hermes" /\ Next
       \/ sidecar = "claude" /\ Claude!Next

LiveSpec == LiveInit /\ [][LiveNext]_liveVars /\ LiveFairness

\* A message that a claude sidecar's claim marked as read without the agent seeing it does not stay so: it is handed
\* over, or unread again (or deleted).
ClaudeMarkedIsSeen ==
    \A m \in Messages : (sidecar = "claude" /\ receipt[m] # Unread /\ m \notin earned /\ handed[m] = 0)
                         ~> (handed[m] > 0 \/ receipt[m] = Unread)
=============================================================================
