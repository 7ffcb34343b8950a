---------------------------- MODULE TerminalLife ----------------------------
(***************************************************************************)
(* The consoles of one managed session: the terminal row, the session's     *)
(* copy of its status, the agent's console pointer and the controls (start, *)
(* input, stop) a host claims and reports on, against a host whose bridge   *)
(* is replaced under a new id and whose reports may arrive late.            *)
(*                                                                         *)
(* A terminal is a number; terminals are opened in order, so a larger one   *)
(* is newer.  Bridge 0 is "none".  A row's age is how long nobody has       *)
(* touched updated_at: 1 is past the lease and silence windows (150 s and   *)
(* 90 s), 2 past STUCK_STOPPING_GRACE_SECONDS (900 s).                      *)
(***************************************************************************)
EXTENDS Integers, FiniteSets

CONSTANTS MaxTerms,    \* terminals ever opened
          MaxBridges,  \* bridge ids the host ever takes
          MaxEvents    \* silences, exits, repeated stops and waits together

ASSUME LifeBounds == MaxTerms \in Nat \ {0} /\ MaxBridges \in Nat \ {0} /\ MaxEvents \in Nat

VARIABLES tRow,      \* terminal_sessions
          tSess,     \* agent_sessions: terminal_id and terminal_status
          tPointer,  \* agents.runtime_state.terminalId
          tCtl,      \* terminal_controls, one of each action per terminal
          tEnv,      \* environments: bridge_id and a fresh last_seen
          tOpening,  \* start handlers between their reads and their writes
          tStopping, \* stop handlers between their reads and their writes
          tHost,     \* the host: bridge id, terminals it holds, claimed work
          tProc,     \* the processes on the host's machine
          tMail,     \* reports of the host on their way
          tTyped,    \* times each input reached its process
          tSpent     \* how much of MaxEvents is used

lifeVars == <<tRow, tSess, tPointer, tCtl, tEnv, tOpening, tStopping,
              tHost, tProc, tMail, tTyped, tSpent>>

hostVars == <<tHost, tProc, tMail, tTyped>>
handlerVars == <<tOpening, tStopping>>

Terms == 1 .. MaxTerms
Bridges == 1 .. MaxBridges
Paths == {"console", "dispatch"}
Ctls == Terms \X {"start", "input", "stop"}
TermActive == {"starting", "running"}
TermEnded == {"stopped", "failed"}
Open == {"pending", "claimed"}

LifeInit ==
  /\ tRow = [t \in Terms |-> [st |-> "none", bridge |-> 0, exited |-> FALSE,
                              pid |-> FALSE, age |-> 0]]
  /\ tSess = [bound |-> 0, mirror |-> ""]
  /\ tPointer = 0
  /\ tCtl = [c \in Ctls |-> [st |-> "none", bridge |-> 0]]
  /\ tEnv = [bridge |-> 1, fresh |-> TRUE]
  /\ tOpening = [p \in Paths |-> 0]
  /\ tStopping = [t \in Terms |-> "no"]
  /\ tHost = [bridge |-> 1, holds |-> {}, todo |-> {}]
  /\ tProc = [t \in Terms |-> "none"]
  /\ tMail = {}
  /\ tTyped = [t \in Terms |-> 0]
  /\ tSpent = 0

-----------------------------------------------------------------------------
(* What the handlers share.                                                *)

\* The row takes status s and a new updated_at.
Settled(row, s) == [row EXCEPT !.st = s, !.age = 0]

\* _clear_console_terminal_binding: only a pointer at this very terminal.
ClearPointer(t) == IF tPointer = t THEN 0 ELSE tPointer

\* _append_terminal_control: a pending row aimed at the terminal's bridge.
AppendControl(ctl, t, a, b) == [ctl EXCEPT ![<<t, a>>] = [st |-> "pending", bridge |-> b]]

\* _fail_pending_terminal_controls, with exclude_actions spared.
FailControls(ctl, t, spared) ==
  [c \in Ctls |-> IF c[1] = t /\ c[2] \notin spared /\ ctl[c].st \in Open
                    THEN [ctl[c] EXCEPT !.st = "failed"] ELSE ctl[c]]

\* The ending every reporter shares: outstanding controls fail, the row and the
\* copy in the terminal's own session take the status, the pointer is cleared.
EndTerminal(t, s, row) ==
  /\ tCtl' = FailControls(tCtl, t, {})
  /\ tRow' = [tRow EXCEPT ![t] = Settled(row, s)]
  /\ tSess' = [tSess EXCEPT !.mirror = s]
  /\ tPointer' = ClearPointer(t)

\* One event of the budget.
Spend == tSpent < MaxEvents /\ tSpent' = tSpent + 1

-----------------------------------------------------------------------------
(* Opening a console.                                                      *)

\* _release_stale_terminal_owner: row and copy failed, nothing else.
ReleaseOwner(t) ==
  /\ tRow' = [tRow EXCEPT ![t] = Settled(@, "failed")]
  /\ tSess' = [tSess EXCEPT !.mirror = "failed"]

\* _active_terminal_for_agent gives up an active terminal whose environment is
\* silent, or whose bridge is not the environment's and has not reported it.
OwnerIsStale(t) ==
  \/ ~tEnv.fresh
  \/ tRow[t].bridge # tEnv.bridge /\ tRow[t].age > 0

LiveTerms == {t \in Terms : tRow[t].st \in TermActive}
Unused == {t \in Terms : tRow[t].st = "none"}
NextTerm == CHOOSE t \in Unused : \A u \in Unused : t <= u

\* A console is started where the session has none to reuse and its
\* environment is online.
MayStart == tSess.bound \notin LiveTerms /\ tEnv.fresh

\* The reads of start_session_console and of _ensure_managed_pty_for_dispatch.
OpenReads(p) ==
  /\ tOpening[p] = 0 /\ MayStart
  /\ Cardinality({q \in Paths : tOpening[q] # 0}) < Cardinality(Unused)
  /\ tOpening' = [tOpening EXCEPT ![p] = tEnv.bridge]
  /\ UNCHANGED <<tRow, tSess, tPointer, tCtl, tEnv, tStopping, hostVars, tSpent>>

\* The dispatch path meeting a stale owner releases it.
OpenReleases ==
  LET b == tSess.bound IN
  /\ b \in LiveTerms /\ OwnerIsStale(b)
  /\ ReleaseOwner(b)
  /\ UNCHANGED <<tPointer, tCtl, tEnv, handlerVars, hostVars, tSpent>>

\* The new row, its start control and the session's binding.
Started(t, b) ==
  /\ tRow' = [tRow EXCEPT ![t] = [Settled(@, "starting") EXCEPT !.bridge = b]]
  /\ tCtl' = AppendControl(tCtl, t, "start", b)
  /\ tSess' = [bound |-> t, mirror |-> "starting"]

\* The writes of both, at the bridge they read.  Only the dispatch path
\* publishes runtime_state.terminalId.
OpenWrites(p) ==
  LET t == NextTerm IN
  /\ tOpening[p] # 0
  /\ Started(t, tOpening[p])
  /\ tPointer' = IF p = "dispatch" THEN t ELSE tPointer
  /\ tOpening' = [tOpening EXCEPT ![p] = 0]
  /\ UNCHANGED <<tEnv, tStopping, hostVars, tSpent>>

-----------------------------------------------------------------------------
(* Using and stopping it.                                                  *)

SendInput(t) ==
  /\ tRow[t].st # "none" /\ tCtl[<<t, "input">>].st = "none"
  /\ tCtl' = AppendControl(tCtl, t, "input", tRow[t].bridge)
  /\ UNCHANGED <<tRow, tSess, tPointer, tEnv, handlerVars, hostVars, tSpent>>

\* A stop is asked for where none is outstanding; asking again is an event.
AskAgain(terms) ==
  /\ \A t \in terms : tCtl[<<t, "stop">>].st \notin Open /\ tStopping[t] = "no"
  /\ IF \A t \in terms : tCtl[<<t, "stop">>].st = "none" THEN UNCHANGED tSpent ELSE Spend

\* stop_terminal reads the row and its environment before it writes.
StopReads(t) ==
  /\ tRow[t].st # "none" /\ AskAgain({t})
  /\ tStopping' = [tStopping EXCEPT ![t] =
       IF tRow[t].st \notin TermEnded /\ tRow[t].bridge = tEnv.bridge /\ tEnv.fresh
         THEN "claimable" ELSE "unclaimable"]
  /\ UNCHANGED <<tRow, tSess, tPointer, tCtl, tEnv, tOpening, hostVars>>

\* A bridge will claim the stop: the row and the copy say stopping.
StopQueued(t) ==
  /\ tStopping[t] = "claimable"
  /\ tCtl' = AppendControl(tCtl, t, "stop", tRow[t].bridge)
  /\ tRow' = [tRow EXCEPT ![t] = Settled(@, "stopping")]
  /\ tSess' = [tSess EXCEPT !.mirror = "stopping"]
  /\ tStopping' = [tStopping EXCEPT ![t] = "no"]
  /\ UNCHANGED <<tPointer, tEnv, tOpening, hostVars, tSpent>>

\* _reconcile_stop_for_unclaimable_terminal: settled in the control plane.
StopReconciled(t) ==
  /\ tStopping[t] = "unclaimable"
  /\ tCtl' = [tCtl EXCEPT ![<<t, "stop">>] = [st |-> "completed", bridge |-> tRow[t].bridge]]
  /\ tRow' = [tRow EXCEPT ![t] = Settled(@, "stopped")]
  /\ tSess' = [tSess EXCEPT !.mirror = "stopped"]
  /\ tPointer' = ClearPointer(t)
  /\ tStopping' = [tStopping EXCEPT ![t] = "no"]
  /\ UNCHANGED <<tEnv, tOpening, hostVars, tSpent>>

\* _request_stop_agent_terminals: every terminal not yet ended gets a stop,
\* whoever can claim it.
StopAgent ==
  LET live == {t \in Terms : tRow[t].st \in TermActive \cup {"stopping"}} IN
  /\ live # {} /\ AskAgain(live)
  /\ tCtl' = [c \in Ctls |-> IF c[1] \in live /\ c[2] = "stop"
                THEN [st |-> "pending", bridge |-> tRow[c[1]].bridge] ELSE tCtl[c]]
  /\ tRow' = [t \in Terms |-> IF t \in live THEN Settled(tRow[t], "stopping") ELSE tRow[t]]
  /\ tSess' = [tSess EXCEPT !.mirror = "stopping"]
  /\ UNCHANGED <<tPointer, tEnv, handlerVars, hostVars>>

-----------------------------------------------------------------------------
(* The host, known from the requests it makes.                             *)

\* _claim_terminal_controls_once: all pending work aimed at this bridge.
ClaimControls ==
  LET mine == {c \in Ctls : tCtl[c].st = "pending" /\ tCtl[c].bridge = tHost.bridge} IN
  /\ mine # {}
  /\ tCtl' = [c \in Ctls |-> IF c \in mine THEN [tCtl[c] EXCEPT !.st = "claimed"] ELSE tCtl[c]]
  /\ tHost' = [tHost EXCEPT !.todo = @ \cup {<<c, tRow[c[1]].pid>> : c \in mine}]
  /\ UNCHANGED <<tRow, tSess, tPointer, tEnv, handlerVars, tProc, tMail, tTyped, tSpent>>

Mailed(c, ok) == tMail \cup {[about |-> c, ok |-> ok]}

\* The host applies one control; a start goes before the rest of its terminal.
HostApplies(w) ==
  LET c == w[1]
      t == c[1]
      held == t \in tHost.holds
      done == [tHost EXCEPT !.todo = @ \ {w}]
  IN
  /\ \A v \in tHost.todo : v[1] = <<t, "start">> => v = w
  /\ \/ /\ c[2] = "start"
        /\ \/ /\ tProc' = [tProc EXCEPT ![t] = "up"]
              /\ tHost' = [done EXCEPT !.holds = @ \cup {t}]
              /\ tMail' = Mailed(c, TRUE)
           \/ /\ tHost' = done /\ tMail' = Mailed(c, FALSE) /\ UNCHANGED tProc
        /\ UNCHANGED tTyped
     \/ /\ c[2] = "input"
        /\ tTyped' = IF held THEN [tTyped EXCEPT ![t] = @ + 1] ELSE tTyped
        /\ tHost' = done /\ tMail' = Mailed(c, held) /\ UNCHANGED tProc
     \/ /\ c[2] = "stop"
        /\ tProc' = IF tProc[t] = "up" /\ (held \/ w[2]) THEN [tProc EXCEPT ![t] = "gone"] ELSE tProc
        /\ tHost' = [done EXCEPT !.holds = @ \ {t}]
        /\ tMail' = Mailed(c, TRUE) /\ UNCHANGED tTyped
  /\ UNCHANGED <<tRow, tSess, tPointer, tCtl, tEnv, handlerVars, tSpent>>

\* A process ends by itself; the host that holds it reports the exit.
ProcessExits(t) ==
  /\ tProc[t] = "up"
  /\ tProc' = [tProc EXCEPT ![t] = IF t \in tHost.holds THEN "gone" ELSE "unseen"]
  /\ tHost' = [tHost EXCEPT !.holds = @ \ {t}]
  /\ tMail' = IF t \in tHost.holds THEN Mailed(<<t, "exit">>, TRUE) ELSE tMail
  /\ Spend
  /\ UNCHANGED <<tRow, tSess, tPointer, tCtl, tEnv, handlerVars, tTyped>>

\* A row whose recorded pid died with nobody watching is reported dead.
HostFindsDead(t) ==
  /\ tRow[t].pid /\ tProc[t] = "unseen" /\ tRow[t].st \in TermActive
  /\ tMail' = Mailed(<<t, "dead">>, TRUE)
  /\ UNCHANGED <<tRow, tSess, tPointer, tCtl, tEnv, handlerVars, tHost, tProc, tTyped, tSpent>>

\* The bridge is replaced: claimed work is forgotten, the processes live on,
\* with their handles or without, and reports on their way may be lost.
HostRestarts(kept, mail) ==
  /\ tHost.bridge < MaxBridges
  /\ tHost' = [bridge |-> tHost.bridge + 1, holds |-> kept, todo |-> {}]
  /\ tMail' = mail
  /\ UNCHANGED <<tRow, tSess, tPointer, tCtl, tEnv, handlerVars, tProc, tTyped, tSpent>>

-----------------------------------------------------------------------------
(* Its reports.                                                            *)

\* _apply_terminal_status_from_control: a start's completion says running
\* unless an exit is already recorded, a failure fails the terminal and a
\* completed stop stops it.  No status the row already has refuses this.
StatusFromControl(c, ok, row) ==
  CASE c[2] = "start" /\ ok -> IF row.exited THEN "" ELSE "running"
    [] ~ok -> "failed"
    [] c[2] = "stop" -> "stopped"
    [] OTHER -> ""

\* update_terminal_control: the control takes the reported status whatever it
\* had, a start brings the process id, then the terminal follows.
ControlReported(m) ==
  LET c == m.about
      t == c[1]
      row == [tRow[t] EXCEPT !.pid = @ \/ (c[2] = "start" /\ m.ok)]
      s == StatusFromControl(c, m.ok, tRow[t])
      ctl == [tCtl EXCEPT ![c] = [@ EXCEPT !.st = IF m.ok THEN "completed" ELSE "failed"]]
  IN
  /\ m \in tMail /\ c \in Ctls
  /\ IF s \in TermEnded
       THEN /\ tCtl' = FailControls(ctl, t, {})
            /\ tRow' = [tRow EXCEPT ![t] = Settled(row, s)]
            /\ tSess' = [tSess EXCEPT !.mirror = s]
            /\ tPointer' = ClearPointer(t)
       ELSE /\ tCtl' = ctl
            /\ tRow' = [tRow EXCEPT ![t] = IF s = "" THEN row ELSE Settled(row, s)]
            /\ tSess' = IF s = "" THEN tSess ELSE [tSess EXCEPT !.mirror = s]
            /\ UNCHANGED tPointer
  /\ tMail' = tMail \ {m}
  /\ UNCHANGED <<tEnv, handlerVars, tHost, tProc, tTyped, tSpent>>

\* Output carrying the exit: _record_terminal_exit, then the close-out.
ExitReported(m) ==
  LET t == m.about[1] IN
  /\ m \in tMail /\ m.about[2] = "exit"
  /\ EndTerminal(t, "stopped", [tRow[t] EXCEPT !.exited = TRUE])
  /\ tMail' = tMail \ {m}
  /\ UNCHANGED <<tEnv, handlerVars, tHost, tProc, tTyped, tSpent>>

\* report_terminal_dead: nothing for a row already ended.
DeadReported(m) ==
  LET t == m.about[1] IN
  /\ m \in tMail /\ m.about[2] = "dead"
  /\ IF tRow[t].st \in TermEnded
       THEN UNCHANGED <<tCtl, tRow, tSess, tPointer>>
       ELSE EndTerminal(t, "stopped", tRow[t])
  /\ tMail' = tMail \ {m}
  /\ UNCHANGED <<tEnv, handlerVars, tHost, tProc, tTyped, tSpent>>

\* A contentless frame: the host still runs this terminal.
AliveReported(t) ==
  /\ t \in tHost.holds /\ tRow[t].age > 0
  /\ tRow' = [tRow EXCEPT ![t] = [@ EXCEPT !.age = 0]]
  /\ UNCHANGED <<tSess, tPointer, tCtl, tEnv, handlerVars, hostVars, tSpent>>

\* The confirmed terminals, silent for long enough, that the host does not hold.
NoLongerHeld ==
  {t \in Terms : tRow[t].st = "running" /\ t \notin tHost.holds /\ tRow[t].age > 0}

\* A heartbeat: the environment is this bridge's and fresh, and those are closed out.
HeartBeat ==
  LET over == NoLongerHeld IN
  /\ ~tEnv.fresh \/ tEnv.bridge # tHost.bridge \/ over # {}
  /\ tEnv' = [bridge |-> tHost.bridge, fresh |-> TRUE]
  /\ tRow' = [t \in Terms |-> IF t \in over THEN Settled(tRow[t], "stopped") ELSE tRow[t]]
  /\ tCtl' = [c \in Ctls |-> IF c[1] \in over THEN FailControls(tCtl, c[1], {})[c] ELSE tCtl[c]]
  /\ tSess' = IF over = {} THEN tSess ELSE [tSess EXCEPT !.mirror = "stopped"]
  /\ tPointer' = IF tPointer \in over THEN 0 ELSE tPointer
  /\ UNCHANGED <<handlerVars, hostVars, tSpent>>

EnvironmentSilent ==
  /\ tEnv.fresh
  /\ tEnv' = [tEnv EXCEPT !.fresh = FALSE]
  /\ Spend
  /\ UNCHANGED <<tRow, tSess, tPointer, tCtl, handlerVars, hostVars>>

TimePasses(t, age) ==
  /\ tRow[t].st # "none" /\ tRow[t].age < age
  /\ tRow' = [tRow EXCEPT ![t] = [@ EXCEPT !.age = age]]
  /\ Spend
  /\ UNCHANGED <<tSess, tPointer, tCtl, tEnv, handlerVars, hostVars>>

-----------------------------------------------------------------------------
(* The sweeps.                                                             *)

\* Keystrokes and starts of a terminal that is not active fail; a stop does not.
FailInactive(ctl) ==
  [c \in Ctls |-> IF ctl[c].st \in Open /\ c[2] # "stop" /\ tRow[c[1]].st \notin TermActive
                    THEN [ctl[c] EXCEPT !.st = "failed"] ELSE ctl[c]]

RetargetKeepsClaim(ctl) ==
  [c \in Ctls |-> IF ctl[c].st \in Open /\ c[2] = "stop" /\ tEnv.fresh /\ ctl[c].bridge # tEnv.bridge
                    THEN [ctl[c] EXCEPT !.bridge = tEnv.bridge] ELSE ctl[c]]

RetargetEverything(ctl) ==
  [c \in Ctls |-> IF ctl[c].st \in Open /\ tEnv.fresh /\ ctl[c].bridge # tEnv.bridge
                    THEN [st |-> "pending", bridge |-> tEnv.bridge] ELSE ctl[c]]

\* A stop aimed at a bridge that is no longer the environment's is aimed at the
\* current one, and a claim the old bridge had on it is dropped.
RetargetStops(ctl) ==
  [c \in Ctls |-> IF ctl[c].st \in Open /\ c[2] = "stop" /\ tEnv.fresh /\ ctl[c].bridge # tEnv.bridge
                    THEN [st |-> "pending", bridge |-> tEnv.bridge] ELSE ctl[c]]

\* What no bridge can reach fails, a stop included.
FailUnreachable(ctl) ==
  [c \in Ctls |-> IF ctl[c].st \in Open /\ ~(tEnv.fresh /\ ctl[c].bridge = tEnv.bridge)
                    THEN [ctl[c] EXCEPT !.st = "failed"] ELSE ctl[c]]

ControlSweep ==
  /\ tCtl' = FailUnreachable(RetargetStops(FailInactive(tCtl)))
  /\ tCtl' # tCtl
  /\ UNCHANGED <<tRow, tSess, tPointer, tEnv, handlerVars, hostVars, tSpent>>

\* _reconcile_stuck_terminal_and_session_rows: the row alone.
StuckSweep ==
  LET stuck == {t \in Terms : tRow[t].st = "stopping" /\ tRow[t].age = 2} IN
  /\ stuck # {}
  /\ tRow' = [t \in Terms |-> IF t \in stuck THEN [tRow[t] EXCEPT !.st = "stopped"] ELSE tRow[t]]
  /\ UNCHANGED <<tSess, tPointer, tCtl, tEnv, handlerVars, hostVars, tSpent>>

\* _repair_terminal_session_consistency: an active row takes the ended status
\* its session holds, an active row no session refers to stops, and a session
\* bound to an ended terminal is unbound; each clears the pointer it meets.
ConsistencySweep ==
  LET b == tSess.bound
      mismatched == {t \in Terms : t = b /\ tRow[t].st \in TermActive /\ tSess.mirror \in TermEnded}
      orphaned == {t \in Terms : t # b /\ tRow[t].st \in TermActive}
      row == [t \in Terms |-> CASE t \in mismatched -> Settled(tRow[t], tSess.mirror)
                                [] t \in orphaned -> Settled(tRow[t], "stopped")
                                [] OTHER -> tRow[t]]
      unbound == {t \in Terms : t = b /\ (tSess.mirror \in TermEnded \/ row[t].st \in TermEnded)}
  IN
  /\ mismatched \cup orphaned \cup unbound # {}
  /\ tRow' = row
  /\ tPointer' = IF tPointer \in mismatched \cup orphaned \cup unbound THEN 0 ELSE tPointer
  /\ tSess' = IF unbound = {} THEN tSess ELSE [bound |-> 0, mirror |-> ""]
  /\ UNCHANGED <<tCtl, tEnv, handlerVars, hostVars, tSpent>>

-----------------------------------------------------------------------------
LifeNext ==
  \/ \E p \in Paths : OpenReads(p) \/ OpenWrites(p)
  \/ OpenReleases
  \/ \E t \in Terms : \/ SendInput(t) \/ StopReads(t) \/ StopQueued(t)
                      \/ StopReconciled(t) \/ ProcessExits(t) \/ HostFindsDead(t)
                      \/ AliveReported(t) \/ (\E age \in 1 .. 2 : TimePasses(t, age))
  \/ StopAgent
  \/ ClaimControls
  \/ \E w \in tHost.todo : HostApplies(w)
  \/ \E kept \in {tHost.holds, {}}, mail \in {tMail, {}} : HostRestarts(kept, mail)
  \/ \E m \in tMail : ControlReported(m) \/ ExitReported(m) \/ DeadReported(m)
  \/ HeartBeat \/ EnvironmentSilent
  \/ ControlSweep \/ StuckSweep \/ ConsistencySweep

\* The host polls, works, reports and beats; handlers finish; the sweeps run.
LifeFairness ==
  /\ WF_lifeVars(ClaimControls)
  /\ WF_lifeVars(\E w \in tHost.todo : HostApplies(w))
  /\ WF_lifeVars(\E m \in tMail : ControlReported(m) \/ ExitReported(m) \/ DeadReported(m))
  /\ WF_lifeVars(HeartBeat)
  /\ WF_lifeVars(ControlSweep)

LifeSpec == LifeInit /\ [][LifeNext]_lifeVars /\ LifeFairness

-----------------------------------------------------------------------------
\* The rows, the pointer and the controls have the values the code writes.
LifeTypeOK ==
  /\ tRow \in [Terms -> [st : {"none", "stopping"} \cup TermActive \cup TermEnded,
                         bridge : 0 .. MaxBridges, exited : BOOLEAN, pid : BOOLEAN, age : 0 .. 2]]
  /\ tSess \in [bound : 0 .. MaxTerms, mirror : {"", "stopping"} \cup TermActive \cup TermEnded]
  /\ tPointer \in 0 .. MaxTerms
  /\ tCtl \in [Ctls -> [st : {"none", "completed", "failed"} \cup Open, bridge : 0 .. MaxBridges]]
  /\ tEnv \in [bridge : Bridges, fresh : BOOLEAN]

\* An input is typed at most once: the sweep re-aims only stops, so keystrokes
\* claimed by a bridge that went away are failed and never delivered again
\* (_reconcile_terminal_controls).
TypedOnce == \A t \in Terms : tTyped[t] <= 1

\* While the environment keeps beating, a queued stop of a process whose pid is
\* recorded gets that process killed, through any replacement of the bridge,
\* unless a late answer to the start turns the row back to running.
StopReaches ==
  \A t \in Terms :
    [](tCtl[<<t, "stop">>].st = "pending" /\ tRow[t].pid /\ []tEnv.fresh
         => <>(tProc[t] # "up" \/ tRow[t].st = "running"))

=============================================================================
