------------------------------ MODULE Workers ------------------------------
(***************************************************************************)
(* How the service starts the managed worker of one defined agent and keeps *)
(* its books about it: spawn requests (service/routers/spawn_requests.py,   *)
(* api_core/dispatch_start.py, api_core/running_spawn.py), the sessions and *)
(* consoles they lead to, and the sweeps that judge them afterwards         *)
(* (service/reconcilers/).  The host that claims a request, runs the        *)
(* console's process and reports on both is external: its reports may be    *)
(* repeated or never come, and its bridge id changes when it restarts.      *)
(* A handler that writes first is one step.  The sweeps and the queued-run  *)
(* backstop read before they write, so each of them is two; they share one  *)
(* task, so only one of them is between its steps at a time.                *)
(* How long ago a row was touched is an input of the step that asks.  A     *)
(* worker or host that is there and is read as silent costs an upset.       *)
(***************************************************************************)
EXTENDS Naturals, FiniteSets

CONSTANTS
    Spawns,      \* 1..n: spawn requests, numbered in creation order (bound)
    Terms,       \* 1..n: console rows, numbered in creation order (bound)
    MaxExits,    \* bound on consoles whose process ends
    MaxUpsets    \* bound on silences, restarts, repeated reports and
                 \* changes of the agent's definition, together

ASSUME WorkersAssumption ==
  /\ IsFiniteSet(Spawns) /\ Spawns = 1 .. Cardinality(Spawns)
  /\ IsFiniteSet(Terms) /\ Terms = 1 .. Cardinality(Terms)
  /\ MaxExits \in Nat /\ MaxUpsets \in Nat

VARIABLES
    sp,       \* spawn_requests: status, claiming bridge, definition revision
    ses,      \* agent_sessions: the session of spawn s has number s
    trm,      \* terminal_sessions
    last,     \* the session with the newest last_seen, 0 when there is none
    ebr,      \* bridge_id in the environment's row: the host that is there
    dfn,      \* the definition: its revision and whether it allows a start
    job,      \* external: the claimed requests the host is working on
    mail,     \* external: reports that will arrive again
    proc,     \* external: the process of each console
    pend,     \* what the sweep has read and not yet written
    upsets,   \* bound
    raced     \* history: "start" once a request was inserted while the backstop decided,
              \* "session" once a report made a session run again that had ended

workerVars == <<sp, ses, trm, last, ebr, dfn, job, mail, proc, pend, upsets, raced>>

OpenStates == {"starting", "attached"}
SpawnSettled == {"failed", "cancelled"}
Reports == [spawn : Spawns, st : {"starting", "running"}, by : Nat]
NoSpawn == [st |-> "none", by |-> 0, rev |-> 0]
NoTerm == [st |-> "none", ses |-> 0, by |-> 0, born |-> 0, ghost |-> FALSE, after |-> FALSE]
NoSession == [st |-> "none", term |-> 0]
Nothing == [task |-> "none", of |-> {}]

SpawnRow == [st : {"none", "queued", "claimed", "starting", "running"} \cup SpawnSettled, by : Nat, rev : Nat]
SessionRow == [st : {"none", "running", "ended"}, term : Terms \cup {0}]
TermRow == [st : {"none"} \cup OpenStates \cup {"ended"}, ses : Spawns \cup {0}, by : Nat, born : Nat,
            ghost : BOOLEAN, after : BOOLEAN]
Tasks == {"none", "backstop", "orphans", "dead", "ghosts", "back", "sessions"}

WorkersTypeOK ==
  /\ sp \in [Spawns -> SpawnRow]
  /\ ses \in [Spawns -> SessionRow]
  /\ trm \in [Terms -> TermRow]
  /\ last \in Spawns \cup {0} /\ ebr \in Nat
  /\ dfn \in [rev : Nat, ok : BOOLEAN]
  /\ job \subseteq Spawns
  /\ mail \subseteq Reports
  /\ proc \in [Terms -> {"none", "up", "gone"}]
  /\ pend.task \in Tasks
  /\ pend.task = "backstop" => pend.of \subseteq Nat
  /\ pend.task = "back" => pend.of \subseteq Terms
  /\ pend.task = "orphans" => \A o \in pend.of : o[2] \in {"claimed", "starting", "running"}
  /\ upsets \in 0 .. MaxUpsets /\ raced \subseteq {"start", "session"}

WorkersInit ==
  /\ sp = [s \in Spawns |-> NoSpawn]
  /\ ses = [s \in Spawns |-> NoSession]
  /\ trm = [t \in Terms |-> NoTerm]
  /\ last = 0 /\ ebr = 1
  /\ dfn = [rev |-> 1, ok |-> TRUE]
  /\ job = {}
  /\ mail = {}
  /\ proc = [t \in Terms |-> "none"]
  /\ pend = Nothing
  /\ upsets = 0 /\ raced = {}

(***************************************************************************)
(* What is read of the clock: online says whether the environment was heard *)
(* lately, heard whether wrapper child and sidecar were (2), the sidecar    *)
(* alone (1) or neither (0; 3 when the step does not ask), and fresh which  *)
(* consoles were touched lately.                                            *)
(***************************************************************************)
Upset == upsets < MaxUpsets /\ upsets' = upsets + 1
Running(t) == proc[t] = "up"

Heard(h) == h \in {1, 2} => \E t \in Terms : proc[t] \in {"up", "gone"}

Misread(online, h, fresh) ==
  \/ ~online
  \/ h < 2 /\ \E t \in Terms : Running(t)
  \/ \E t \in Terms : Running(t) /\ t \notin fresh

Reads(online, h, fresh) ==
  /\ Heard(h)
  /\ IF Misread(online, h, fresh) THEN Upset ELSE UNCHANGED upsets

(***************************************************************************)
(* What the service asks its tables, for a table tt of consoles.            *)
(***************************************************************************)
IsOpen(tt, t) == tt[t].st \in OpenStates
ConsolesOf(tt, s) == {t \in Terms : tt[t].ses = s /\ tt[t].st # "none"}
RunningSessions == {s \in Spawns : ses[s].st = "running"}

_has_live_terminal_session(tt) == \E t \in Terms : IsOpen(tt, t)

\* spawn_worker_ended_sql: it had consoles, and every one of them has ended.
spawn_worker_ended(tt, s) ==
  ConsolesOf(tt, s) # {} /\ \A t \in ConsolesOf(tt, s) : ~IsOpen(tt, t)

\* young: the requests updated within the window (all of them or none).
_has_pending_or_booting_spawn_request(tt, young) ==
  \E s \in Spawns :
    \/ sp[s].st \in {"queued", "claimed"}
    \/ sp[s].st \in {"starting", "running"} /\ s \in young /\ ~spawn_worker_ended(tt, s)

live_managed_worker(tt) == RunningSessions # {} /\ _has_live_terminal_session(tt)

\* The newest session with a console.
Pointing(ss, newest) ==
  LET with == {s \in Spawns : ss[s].term # 0}
  IN  IF newest \in with THEN newest ELSE IF with = {} THEN 0
      ELSE CHOOSE s \in with : \A r \in with : r <= s

\* _active_terminal_for_agent: its console, when it is open and its environment
\* is online and still has the row's bridge, or the row is fresh.
OwnsConsole(tt, ss, s, online, fresh) ==
  /\ s # 0
  /\ LET t == ss[s].term
     IN  IsOpen(tt, t) /\ online /\ (tt[t].by = ebr \/ t \in fresh)

\* _release_stale_terminal_owner: an open console failing that test is failed.
Released(tt, ss, s, online, fresh) ==
  IF s = 0 \/ OwnsConsole(tt, ss, s, online, fresh) \/ ~IsOpen(tt, ss[s].term) THEN tt
  ELSE [tt EXCEPT ![ss[s].term] = [@ EXCEPT !.st = "ended"]]

(***************************************************************************)
(* Starting a worker.                                                       *)
(***************************************************************************)
FreeSpawn == {s \in Spawns : sp[s].st = "none" /\ \A r \in Spawns : r < s => sp[r].st # "none"}
FreeConsole == {t \in Terms : trm[t].st = "none" /\ \A u \in Terms : u < t => trm[u].st # "none"}

MayColdStartTwice(tt, online, young) == dfn.ok /\ ~live_managed_worker(tt) /\ online

\* The refusals of _coldstart_spawn_request_for_dispatch, in their order: the
\* definition, a live worker, a start in flight, no environment that is online.
MayColdStart(tt, online, young) ==
  /\ dfn.ok
  /\ ~live_managed_worker(tt)
  /\ ~_has_pending_or_booting_spawn_request(tt, young)
  /\ online

\* The row is inserted only while the definition is the one that was read.
insert_spawn_request(s, rev) ==
  sp' = IF dfn.ok /\ dfn.rev = rev
        THEN [sp EXCEPT ![s] = [st |-> "queued", by |-> 0, rev |-> rev]]
        ELSE sp

_coldstart_spawn_request_for_dispatch ==
  /\ \E s \in FreeSpawn : insert_spawn_request(s, dfn.rev)
  /\ raced' = IF pend.task = "backstop" THEN raced \cup {"start"} ELSE raced

\* A console row for session s with its start control.
NewConsole(s) ==
  [NoTerm EXCEPT !.st = "starting", !.ses = s, !.by = ebr,
                 !.born = Cardinality({r \in Spawns : sp[r].st # "none"})]

\* _ensure_managed_pty_for_dispatch backs the newest running session.
SessionToBack ==
  IF last \in RunningSessions THEN {last}
  ELSE {s \in RunningSessions : \A r \in RunningSessions : r <= s}

_ensure_managed_pty_for_dispatch(tt) ==
  \E s \in SessionToBack, t \in FreeConsole :
    /\ trm' = [tt EXCEPT ![t] = NewConsole(s)]
    /\ ses' = [ses EXCEPT ![s] = [st |-> "running", term |-> t]]
    /\ last' = s

\* A message to the agent: an owned console whose wrapper is heard is used as it
\* is; one whose wrapper is not heard stays, and a cold start is tried; without
\* an owned console one is opened for the running session, or else a cold start
\* is tried.  What cannot be started leaves the message waiting.
_back_managed_claude_with_a_console(online, h, fresh, young) ==
  LET at == Pointing(ses, last)
      tt == Released(trm, ses, at, online, fresh)
      owned == OwnsConsole(trm, ses, at, online, fresh)
      canBack == dfn.ok /\ online /\ SessionToBack # {}
      may == MayColdStart(tt, online, young)
  IN  \/ /\ owned /\ h < 2 /\ may
         /\ _coldstart_spawn_request_for_dispatch
         /\ UNCHANGED <<trm, ses, last>>
      \/ /\ ~owned /\ canBack
         /\ _ensure_managed_pty_for_dispatch(tt)
         /\ UNCHANGED <<sp, raced>>
      \/ /\ ~owned /\ ~canBack
         /\ trm' = tt
         /\ last' = IF tt # trm THEN at ELSE last
         /\ IF may THEN _coldstart_spawn_request_for_dispatch ELSE UNCHANGED <<sp, raced>>
         /\ UNCHANGED ses

_launch_recipients_for_dispatch(online, h, fresh, young) ==
  /\ Reads(online, h, fresh)
  /\ _back_managed_claude_with_a_console(online, h, fresh, young)
  /\ UNCHANGED <<ebr, dfn, job, mail, proc, pend>>

\* The queued-run backstop decides on what it reads and writes afterwards.
BackstopReads(young) ==
  /\ pend = Nothing
  /\ Reads(TRUE, 0, Terms) /\ MayColdStart(trm, TRUE, young)
  /\ pend' = [task |-> "backstop", of |-> {dfn.rev}]
  /\ UNCHANGED <<sp, ses, trm, last, ebr, dfn, job, mail, proc, raced>>

_reap_undeliverable_queued_runs ==
  /\ pend.task = "backstop"
  /\ \/ \E s \in FreeSpawn, rev \in pend.of : insert_spawn_request(s, rev)
     \/ FreeSpawn = {} /\ UNCHANGED sp
  /\ pend' = Nothing
  /\ UNCHANGED <<ses, trm, last, ebr, dfn, job, mail, proc, upsets, raced>>

(***************************************************************************)
(* The host claims, starts and reports.                                     *)
(***************************************************************************)
\* The oldest queued request goes to the bridge the environment's row names.
\* A host that never gets the answer is one that never reports.
_claim_spawn_request_once ==
  /\ \E s \in Spawns :
       /\ sp[s].st = "queued" /\ \A r \in Spawns : sp[r].st = "queued" => s <= r
       /\ sp' = [sp EXCEPT ![s] = [@ EXCEPT !.st = "claimed", !.by = ebr]]
       /\ job' = job \cup {s}
  /\ UNCHANGED <<ses, trm, last, ebr, dfn, mail, proc, pend, upsets, raced>>

\* The open console of the same bridge that is at least as new as the request.
ToMigrate(s, by) ==
  LET new == {t \in Terms : IsOpen(trm, t) /\ trm[t].by = by /\ trm[t].born >= s}
  IN  {t \in new : \A u \in new : u <= t}

\* _upsert_running_agent_session, then the console that is moved to the session.
SessionUpserted(s, by) ==
  [st |-> "running",
   term |-> IF \E t \in ToMigrate(s, by) : trm[t].ses # s
            THEN CHOOSE t \in ToMigrate(s, by) : TRUE ELSE ses[s].term]

NotMigrated(s, by) == trm

_migrate_bridge_id_onto_live_terminal(s, by) ==
  [t \in Terms |-> IF t \in ToMigrate(s, by) THEN [trm[t] EXCEPT !.ses = s] ELSE trm[t]]

\* Every other running session of the agent ends.
OthersEnd(s) ==
  [r \in Spawns |-> IF r # s /\ ses[r].st = "running" THEN [ses[r] EXCEPT !.st = "ended"] ELSE ses[r]]

\* The session runs, the others end, and a console is ensured for this session;
\* what stops that is swallowed.
_settle_running_spawn(s, by, online, fresh) ==
  LET ss == [OthersEnd(s) EXCEPT ![s] = SessionUpserted(s, by)]
      moved == _migrate_bridge_id_onto_live_terminal(s, by)
      at == Pointing(ss, s)
      tt == Released(moved, ss, at, online, fresh)
      opens == /\ ~(OwnsConsole(moved, ss, at, online, fresh) /\ at = s)
               /\ dfn.ok /\ online /\ FreeConsole # {}
  IN  /\ last' = s
      /\ raced' = IF ses[s].st = "ended" THEN raced \cup {"session"} ELSE raced
      /\ IF opens
         THEN \E t \in FreeConsole : /\ trm' = [tt EXCEPT ![t] = NewConsole(s)]
                                     /\ ses' = [ss EXCEPT ![s] = [@ EXCEPT !.term = t]]
         ELSE trm' = tt /\ ses' = ss

AcceptsLateReport(m) == sp[m.spawn].by = m.by

\* A report is refused for a settled request and from another bridge.
AcceptsReport(m) ==
  /\ sp[m.spawn].st \in SpawnSettled => m.st = sp[m.spawn].st
  /\ sp[m.spawn].by = m.by

update_spawn_request(m, online, fresh) ==
  IF ~AcceptsReport(m) THEN UNCHANGED <<sp, ses, trm, last, raced>>
  ELSE /\ sp' = [sp EXCEPT ![m.spawn] = [@ EXCEPT !.st = m.st]]
       /\ IF m.st = "running" THEN _settle_running_spawn(m.spawn, m.by, online, fresh)
          ELSE UNCHANGED <<ses, trm, last, raced>>

\* External: the host starts what it claimed, or cannot, and says so.  A report
\* that arrives may be sent again; one that is lost is one never made.
\* Repeating a failure changes nothing.
HostReports(s, phase, online, fresh) ==
  LET m == [spawn |-> s, st |-> phase, by |-> sp[s].by]
  IN  /\ s \in job
      /\ job' = IF phase = "starting" THEN job ELSE job \ {s}
      /\ \/ Reads(online, 3, fresh) /\ update_spawn_request(m, online, fresh) /\ UNCHANGED mail
         \/ Upset /\ phase # "failed" /\ ~Misread(online, 3, fresh) /\ update_spawn_request(m, online, fresh) /\ mail' = mail \cup {m}
      /\ UNCHANGED <<ebr, dfn, proc, pend>>

ReportRepeated(m, online, fresh) ==
  /\ Reads(online, 3, fresh)
  /\ update_spawn_request(m, online, fresh)
  /\ mail' = mail \ {m}
  /\ UNCHANGED <<ebr, dfn, job, proc, pend>>

(***************************************************************************)
(* Consoles and their processes, in the steps the books here depend on.     *)
(***************************************************************************)
ConsoleStarts(t) ==
  /\ trm[t].st = "starting" /\ proc[t] = "none" /\ trm[t].by = ebr
  /\ proc' = [proc EXCEPT ![t] = "up"]
  /\ trm' = [trm EXCEPT ![t] = [@ EXCEPT !.st = "attached"]]
  /\ UNCHANGED <<sp, ses, last, ebr, dfn, job, mail, pend, upsets, raced>>

\* The host goes on reporting a console the sweep has given up.
HostReportsConsole(t) ==
  /\ Running(t) /\ trm[t].ghost /\ ~trm[t].after
  /\ trm' = [trm EXCEPT ![t] = [@ EXCEPT !.after = TRUE]]
  /\ UNCHANGED <<sp, ses, last, ebr, dfn, job, mail, proc, pend, upsets, raced>>

ProcessExits(t) ==
  /\ Running(t) /\ Cardinality({u \in Terms : proc[u] = "gone"}) < MaxExits
  /\ proc' = [proc EXCEPT ![t] = "gone"]
  /\ UNCHANGED <<sp, ses, trm, last, ebr, dfn, job, mail, pend, upsets, raced>>

\* A reported exit fails the running request of the console's session, unless
\* another console of that session is open.
_close_out_terminal_on_end_status(t) ==
  /\ proc[t] = "gone" /\ IsOpen(trm, t)
  /\ trm' = [trm EXCEPT ![t] = [@ EXCEPT !.st = "ended"]]
  /\ sp' = [s \in Spawns |->
              IF s = trm[t].ses /\ sp[s].st = "running"
                 /\ \A u \in ConsolesOf(trm, s) \ {t} : ~IsOpen(trm, u)
              THEN [sp[s] EXCEPT !.st = "failed"] ELSE sp[s]]
  /\ UNCHANGED <<ses, last, ebr, dfn, job, mail, proc, pend, upsets, raced>>

\* A host that finds the process dead reports the console instead.
report_terminal_dead(t) ==
  /\ proc[t] = "gone" /\ IsOpen(trm, t)
  /\ trm' = [trm EXCEPT ![t] = [@ EXCEPT !.st = "ended"]]
  /\ sp' = [s \in Spawns |-> IF s = trm[t].ses /\ sp[s].st = "running"
                              THEN [sp[s] EXCEPT !.st = "failed"] ELSE sp[s]]
  /\ UNCHANGED <<ses, last, ebr, dfn, job, mail, proc, pend, upsets, raced>>

\* The start of a console whose bridge is gone is given up (TerminalLife).
StartGivenUp(t) ==
  /\ trm[t].st = "starting" /\ trm[t].by # ebr
  /\ trm' = [trm EXCEPT ![t] = [@ EXCEPT !.st = "ended"]]
  /\ UNCHANGED <<sp, ses, last, ebr, dfn, job, mail, proc, pend, upsets, raced>>

(***************************************************************************)
(* Sessions stopped by hand, definitions and hosts.                         *)
(***************************************************************************)
\* control_session: a defined agent's stop goes to its host, so this is the
\* stop of an agent no host defines; its waiting requests are cancelled.
control_session(s) ==
  /\ ~dfn.ok /\ s \in SessionToBack
  /\ ses' = [ses EXCEPT ![s] = [@ EXCEPT !.st = "ended"]]
  /\ sp' = [r \in Spawns |-> IF sp[r].st \in {"queued", "claimed", "starting"}
                              THEN [sp[r] EXCEPT !.st = "cancelled"] ELSE sp[r]]
  /\ last' = s
  /\ UNCHANGED <<trm, ebr, dfn, job, mail, proc, pend, upsets, raced>>

\* The definition is withdrawn or turned resident, or comes back.
DefinitionChanges ==
  /\ Upset
  /\ dfn' = [rev |-> dfn.rev + 1, ok |-> ~dfn.ok]
  /\ UNCHANGED <<sp, ses, trm, last, ebr, job, mail, proc, pend, raced>>

HostRestarts ==
  /\ Upset
  /\ ebr' = ebr + 1
  /\ job' = {}
  /\ UNCHANGED <<sp, ses, trm, last, dfn, mail, proc, pend, raced>>

(***************************************************************************)
(* The sweeps.  Each reads what it will judge, and writes in a later step.  *)
(***************************************************************************)
Books == <<ses, trm, last>>
Outside == <<ebr, dfn, job, mail, proc, raced>>

\* A claim that never started is overdue after the grace; a start is overdue
\* after the grace when its bridge is gone, and after the ceiling otherwise.
Overdue(s, online, waited) ==
  /\ sp[s].st \in {"claimed", "starting", "running"}
  /\ (sp[s].st # "claimed" /\ online /\ sp[s].by = ebr) => waited = "ceiling"

OrphansRead(online, waited) ==
  LET late == {s \in Spawns : Overdue(s, online, waited)}
  IN  /\ pend = Nothing /\ late # {}
      /\ Reads(online, 3, Terms)
      /\ pend' = [task |-> "orphans", of |-> {<<s, sp[s].st, sp[s].by, online /\ sp[s].by = ebr>> : s \in late}]
      /\ UNCHANGED <<sp, Books, Outside>>

\* The write names the status and the bridge it judged, and spares a running
\* request of a live bridge whose session is alive.
OrphanStands(o) ==
  LET s == o[1]
  IN  /\ sp[s].st = o[2] /\ sp[s].by = o[3]
      /\ ~(o[2] = "running" /\ o[4] /\ ses[s].st = "running")

_fail_orphaned_running_spawn_requests ==
  /\ pend.task = "orphans"
  /\ sp' = [s \in Spawns |-> IF \E o \in pend.of : o[1] = s /\ OrphanStands(o)
                            THEN [sp[s] EXCEPT !.st = "failed"] ELSE sp[s]]
  /\ pend' = Nothing
  /\ UNCHANGED <<Books, Outside, upsets>>

\* _select_spawns_with_dead_terminals.
DeadWorker(s) == sp[s].st \in {"starting", "running"} /\ spawn_worker_ended(trm, s)

DeadRead ==
  /\ pend = Nothing /\ \E s \in Spawns : DeadWorker(s)
  /\ pend' = [task |-> "dead", of |-> {s \in Spawns : DeadWorker(s)}]
  /\ UNCHANGED <<sp, Books, Outside, upsets>>

_finalize_spawns_with_dead_terminals ==
  /\ pend.task = "dead"
  /\ sp' = [s \in Spawns |-> IF s \in pend.of /\ sp[s].st \in {"starting", "running"}
                            THEN [sp[s] EXCEPT !.st = "failed"] ELSE sp[s]]
  /\ pend' = Nothing
  /\ UNCHANGED <<Books, Outside, upsets>>

\* A running request older than the live current session's own request.
_fail_running_spawns_superseded_by_current_session(s) ==
  /\ ses[s].st = "running" /\ sp[s].st = "running"
  /\ LET t == ses[s].term IN t # 0 /\ trm[t].ses = s /\ IsOpen(trm, t)
  /\ \E r \in Spawns : r < s /\ sp[r].st = "running"
  /\ sp' = [r \in Spawns |-> IF r < s /\ sp[r].st = "running"
                            THEN [sp[r] EXCEPT !.st = "failed"] ELSE sp[r]]
  /\ UNCHANGED <<pend, Books, Outside, upsets>>

\* An open console nobody has heard of: neither sidecar nor wrapper nor report.
GhostsRead(fresh) ==
  LET ghosts == {t \in Terms : IsOpen(trm, t)} \ fresh
  IN  /\ pend = Nothing /\ ghosts # {}
      /\ Reads(TRUE, 0, fresh)
      /\ pend' = [task |-> "ghosts", of |-> ghosts]
      /\ UNCHANGED <<sp, Books, Outside>>

_reconcile_managed_worker_hygiene ==
  /\ pend.task = "ghosts"
  /\ trm' = [t \in Terms |-> IF t \in pend.of
               THEN [trm[t] EXCEPT !.st = "ended", !.ghost = TRUE, !.after = FALSE] ELSE trm[t]]
  /\ ses' = [s \in Spawns |-> IF ses[s].term \in pend.of THEN [ses[s] EXCEPT !.term = 0] ELSE ses[s]]
  /\ pend' = Nothing
  /\ UNCHANGED <<sp, last, Outside, upsets>>

\* A reaped console that has reported since, beside a live sidecar.
ResurrectedRead(t) ==
  /\ pend = Nothing /\ ~_has_live_terminal_session(trm)
  /\ trm[t].st = "ended" /\ trm[t].ghost /\ trm[t].after
  /\ \E h \in {1, 2} : Reads(TRUE, h, Terms)
  /\ pend' = [task |-> "back", of |-> {t}]
  /\ UNCHANGED <<sp, Books, Outside>>

_reconcile_resurrected_managed_consoles ==
  /\ pend.task = "back"
  /\ \E t \in pend.of :
       /\ trm' = IF trm[t].st = "ended"
                 THEN [trm EXCEPT ![t] = [@ EXCEPT !.st = "attached", !.ghost = FALSE, !.after = FALSE]]
                 ELSE trm
       /\ ses' = [ses EXCEPT ![trm[t].ses] = [st |-> "running", term |-> t]]
       /\ last' = trm[t].ses
  /\ pend' = Nothing
  /\ UNCHANGED <<sp, Outside, upsets>>

\* A running session without a console takes the attached one an ended session
\* still points at, unless another session that has not ended holds one.
rebind_orphaned_live_consoles(c, o) ==
  /\ ses[c].st = "running" /\ ses[c].term = 0
  /\ ses[o].st = "ended" /\ ses[o].term # 0 /\ trm[ses[o].term].st = "attached"
  /\ \A r \in Spawns \ {c} : ses[r].st = "running" => ses[r].term = 0
  /\ ses' = [ses EXCEPT ![c] = [@ EXCEPT !.term = ses[o].term], ![o] = [@ EXCEPT !.term = 0]]
  /\ trm' = [trm EXCEPT ![ses[o].term] = [@ EXCEPT !.ses = c]]
  /\ last' = c
  /\ UNCHANGED <<sp, pend, Outside, upsets>>

\* managed_sessions_with_dead_terminals.
DeadSession(s) == ses[s].st = "running" /\ spawn_worker_ended(trm, s)

DeadSessionsRead ==
  /\ pend = Nothing /\ \E s \in Spawns : DeadSession(s)
  /\ pend' = [task |-> "sessions", of |-> {s \in Spawns : DeadSession(s)}]
  /\ UNCHANGED <<sp, Books, Outside, upsets>>

_reconcile_dead_session_status ==
  /\ pend.task = "sessions"
  /\ ses' = [s \in Spawns |-> IF s \in pend.of /\ ses[s].st = "running"
                             THEN [ses[s] EXCEPT !.st = "ended"] ELSE ses[s]]
  /\ pend' = Nothing
  /\ UNCHANGED <<sp, trm, last, Outside, upsets>>

SweepReads ==
  \/ \E online \in BOOLEAN, waited \in {"grace", "ceiling"} : OrphansRead(online, waited)
  \/ DeadRead \/ DeadSessionsRead
  \/ \E fresh \in SUBSET Terms : GhostsRead(fresh)
  \/ \E t \in Terms : ResurrectedRead(t)
  \/ \E young \in {{}, Spawns} : BackstopReads(young)

SweepWrites ==
  \/ _fail_orphaned_running_spawn_requests
  \/ _finalize_spawns_with_dead_terminals
  \/ _reconcile_managed_worker_hygiene
  \/ _reconcile_resurrected_managed_consoles
  \/ _reconcile_dead_session_status
  \/ _reap_undeliverable_queued_runs

WorkersNext ==
  \/ \E online \in BOOLEAN, h \in {0, 2}, fresh \in {{}, Terms}, young \in {{}, Spawns} :
       _launch_recipients_for_dispatch(online, h, fresh, young)
  \/ _claim_spawn_request_once
  \/ \E s \in Spawns, phase \in {"starting", "failed"} : HostReports(s, phase, TRUE, Terms)
  \/ \E online \in BOOLEAN, fresh \in {{}, Terms} :
       \/ \E s \in Spawns : HostReports(s, "running", online, fresh)
       \/ \E m \in mail : ReportRepeated(m, online, fresh)
  \/ \E t \in Terms :
       \/ ConsoleStarts(t) \/ HostReportsConsole(t) \/ ProcessExits(t) \/ StartGivenUp(t)
       \/ _close_out_terminal_on_end_status(t) \/ report_terminal_dead(t)
  \/ \E s \in Spawns : control_session(s) \/ _fail_running_spawns_superseded_by_current_session(s)
  \/ \E c, o \in Spawns : rebind_orphaned_live_consoles(c, o)
  \/ DefinitionChanges \/ HostRestarts
  \/ SweepReads \/ SweepWrites

WorkersSpec == WorkersInit /\ [][WorkersNext]_workerVars

(***************************************************************************)
(* Properties.                                                              *)
(***************************************************************************)
\* A request that failed or was cancelled keeps that status, whatever report
\* arrives late (update_spawn_request refuses it) and whatever a sweep read
\* about the request before it was settled (the orphan sweep's WHERE clause).
SettledSpawnStays ==
  [][\A s \in Spawns : sp[s].st \in SpawnSettled => sp'[s].st = sp[s].st]_workerVars

\* At most one request waits for the host, unless a message started the agent
\* between the backstop's reads and its write (the one gap the in-flight test
\* of _coldstart_spawn_request_for_dispatch leaves).
OneStartWaiting ==
  "start" \in raced \/ Cardinality({s \in Spawns : sp[s].st \in {"queued", "claimed"}}) <= 1

\* The open console a running session points at names that session as its own,
\* through migrations, rebinds, reaped and resurrected consoles
\* (running_spawn._migrate_bridge_id_onto_live_terminal, console_binding), as
\* long as no late report made an ended session run again: that session takes
\* up its old pointer, and the console may have moved on since.
RunningSessionBound ==
  "session" \in raced \/ \A s \in RunningSessions : (ses[s].term # 0 /\ IsOpen(trm, ses[s].term)) => trm[ses[s].term].ses = s
=============================================================================
