----------------------------- MODULE MCTerminals -----------------------------
(* One run for two components of the terminals that share no state.  The    *)
(* first state says which of them moves, and it alone moves from then on,   *)
(* so each is checked on every behaviour it has.                            *)
EXTENDS TerminalOutput, TerminalLife

VARIABLE part

vars == <<part, outVars, lifeVars>>

Init ==
  /\ OutInit /\ LifeInit
  /\ part = "output" \/ (part = "life" /\ ~tui)

Next ==
  \/ part = "output" /\ OutNext /\ UNCHANGED <<part, lifeVars>>
  \/ part = "life" /\ LifeNext /\ UNCHANGED <<part, outVars>>

\* OutFairness and LifeFairness, each for the part that moves.
Fairness ==
  /\ WF_outVars(part = "output" /\ TimerFlush) /\ WF_outVars(part = "output" /\ SettleFires)
  /\ WF_outVars(part = "output" /\ WriteBegins) /\ WF_outVars(part = "output" /\ SettleBegins)
  /\ WF_outVars(part = "output" /\ (WriteCommits \/ WriteFails))
  /\ WF_outVars(part = "output" /\ ReportAppends)
  /\ WF_lifeVars(part = "life" /\ ClaimControls)
  /\ WF_lifeVars(part = "life" /\ \E w \in tHost.todo : HostApplies(w))
  /\ WF_lifeVars(part = "life" /\ \E m \in tMail : ControlReported(m) \/ ExitReported(m) \/ DeadReported(m))
  /\ WF_lifeVars(part = "life" /\ HeartBeat) /\ WF_lifeVars(part = "life" /\ ControlSweep)

Spec == Init /\ [][Next]_vars /\ Fairness
=============================================================================
