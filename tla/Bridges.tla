------------------------------ MODULE Bridges ------------------------------
(***************************************************************************)
(* Which process drives an agent.  A resident agent is driven by a CLI     *)
(* that a person launched, a managed one by the worker in a console the    *)
(* environment host started.  Every process has a bridge that registers    *)
(* itself, beats, claims runs and, when it leaves cleanly, says so.  The   *)
(* service keeps one row per bridge and supersedes the rows a newer bridge *)
(* replaces; a CLI that was started from inside the session takes the      *)
(* session over and has to give it back.                                   *)
(*                                                                         *)
(* One agent on one machine.  Clis is the number of CLI processes, in the  *)
(* order they start; Worker and Sidecar are the bridges of the console's   *)
(* worker and of its delivery loop.  Time is an input of the step that     *)
(* asks for it: taking a live process for a silent one, a forced           *)
(* registration and a registration that lands after its process has gone   *)
(* each use one of MaxUpsets.                                              *)
(***************************************************************************)
EXTENDS Naturals, Sequences, FiniteSets

CONSTANTS Clis, MaxUpsets, MaxConsoles, Defined

ASSUME BridgesAssumption ==
    /\ Clis \in Nat \ {0}
    /\ MaxUpsets \in Nat
    /\ MaxConsoles \in Nat
    /\ Defined \subseteq {"none", "resident", "managed"}

Cli == 1 .. Clis
Worker == Clis + 1
Sidecar == Clis + 2
LostMark == Clis + 3
Ids == Cli \cup {Worker, Sidecar}
Handles == {1, 2}

VARIABLES
    ag,         \* the agents row: session_mode, status, driver_state, owner bridge, parked resident candidate
    br,         \* bridge_instances: one row per bridge
    defn,       \* the mode the agent's definition asks for
    con,        \* the console's row, its process, a stop queued for it
    run,        \* the bridge that holds the claimed run, 0 when no run is claimed
    alive,      \* the processes that run
    started,    \* the session handles of the CLIs that were started, and how many consoles were
    mail,       \* resident-lost reports on their way
    step,       \* a handler between its reads and its writes
    crossed,    \* a registration committed while another handler was between its reads and its writes
    upsets

bridgeVars == <<ag, br, defn, con, run, alive, started, mail, step, crossed, upsets>>

NoRow == [row |-> FALSE, mode |-> "managed", hd |-> 0, sup |-> 0, offer |-> 0]
Idle0 == [k |-> "none", b |-> 0, own |-> 0, cand |-> 0, mode |-> "managed", st |-> "up"]

BridgesTypeOK ==
    /\ ag \in [mode : {"resident", "managed"}, st : {"up", "offline", "stopped"},
               drv : BOOLEAN, owner : {0} \cup Ids, cand : {0} \cup Cli]
    /\ br \in [Ids -> [row : BOOLEAN, mode : {"resident", "managed"}, hd : {0} \cup Handles,
                       sup : {0, LostMark} \cup Ids, offer : {0} \cup Ids]]
    /\ defn \in {"none", "resident", "managed"}
    /\ con \in [st : {"none", "live", "stopping", "ended"}, proc : BOOLEAN, stop : BOOLEAN]
    /\ run \in {0} \cup Ids
    /\ alive \subseteq Ids
    /\ started.cli \in Seq(Handles) /\ started.con \in 0 .. MaxConsoles /\ crossed \in BOOLEAN
    /\ mail \subseteq Cli
    /\ step.k \in {"none", "reclaim", "lost", "switch"}
    /\ upsets \in 0 .. MaxUpsets
    \* A console's worker and its delivery loop live and die with the console's process.
    /\ (Worker \in alive \/ Sidecar \in alive) => con.proc

Current(b) == br[b].row /\ br[b].sup = 0

\* Reading b as silent: free for a process that is gone, an upset for one that lives.
Cost(q) == IF q \cap alive = {} THEN 0 ELSE 1

Spend(n) ==
    /\ upsets + n <= MaxUpsets
    /\ upsets' = upsets + n

----------------------------------------------------------------------------
(***************************************************************************)
(* Bridge rows.                                                            *)
(***************************************************************************)

\* The rows a registration of b replaces: a resident leaves delivery loops alone, a wrapper child and
\* a managed delivery loop are a pair and leave each other alone.
Replaced(f, b, as) ==
    {c \in Ids \ {b} : /\ f[c].row /\ f[c].sup = 0
                       /\ ~(as = "resident" /\ c = Sidecar)
                       /\ ~(as = "child" /\ c = Sidecar /\ f[c].mode = "managed")}

_record_bridge_registration(f, b, as, h) ==
    LET gone == Replaced(f, b, as)
    IN  [c \in Ids |->
            CASE c = b -> [row |-> TRUE, mode |-> IF as = "resident" THEN "resident" ELSE "managed",
                           hd |-> h, sup |-> 0, offer |-> 0]
              [] c \in gone -> [f[c] EXCEPT !.sup = b]
              [] OTHER -> f[c]]

_fail_active_runs_for_superseded_bridges(f, b, as) ==
    IF run \in Replaced(f, b, as) THEN 0 ELSE run

\* The bridges of b's session handle that b replaced, directly or through another.
_same_handle_chain_behind(b) ==
    LET same == {c \in Ids \ {b} : br[c].row /\ br[c].hd = br[b].hd}
        links[n \in 0 .. Clis] == IF n = 0 THEN {b}
                                  ELSE links[n - 1] \cup {c \in same : br[c].sup \in links[n - 1]}
    IN  IF br[b].row /\ br[b].hd # 0 THEN same \cap links[Clis] ELSE {}

----------------------------------------------------------------------------
(***************************************************************************)
(* The session mode.                                                       *)
(***************************************************************************)

managed_worker_drives(c) == c.st \in {"live", "stopping"}

\* _request_stop_agent_terminals: whatever can be stopped is asked to.
StopRequested(c) == IF managed_worker_drives(c) THEN [c EXCEPT !.st = "stopping", !.stop = TRUE] ELSE c

\* _supersede_stale_resident_terminals: the live console is written off and asked to stop.
_supersede_stale_resident_terminals(c) ==
    IF c.st = "live" THEN [c EXCEPT !.st = "ended", !.stop = TRUE] ELSE c

Unstopped(a) == IF a.st = "stopped" THEN "up" ELSE a.st

\* The agents row after a switch that read the owner and the candidate: the parked candidate becomes the owner of a resident.
_apply_session_mode_switch_to_agent(own, cand, mode) ==
    IF mode = "resident"
    THEN [mode |-> "resident", st |-> Unstopped(ag), drv |-> cand # 0,
          owner |-> IF cand # 0 THEN cand ELSE own, cand |-> cand]
    ELSE [mode |-> "managed", st |-> Unstopped(ag), drv |-> FALSE, owner |-> own, cand |-> 0]

\* follow_definition_mode, _follow_under_lock: the definition asks for resident and nothing managed drives.
follow_definition_mode(r, c) ==
    defn = "resident" /\ ag.mode = "managed" /\ ~managed_worker_drives(c) /\ r = 0

\* adopt_parked_resident: the parked CLI is made the owner once nothing managed drives.
adopt_parked_resident(r, c) == ag.cand # 0 /\ follow_definition_mode(r, c)

_enforce_switch_not_blocked_by_active_run(force) == run # 0 => force

\* PATCH session-mode of an agent no host defines; read here, written by the next step.
switch_agent_session_mode(force) ==
    /\ step.k = "none"
    /\ defn = "none" /\ ag.mode = "managed"
    /\ _enforce_switch_not_blocked_by_active_run(force)
    /\ step' = [Idle0 EXCEPT !.k = "switch", !.own = ag.owner, !.cand = ag.cand]
    /\ UNCHANGED <<ag, br, defn, con, run, alive, started, mail, crossed, upsets>>

switch_session_mode ==
    /\ step.k = "switch"
    /\ ag' = _apply_session_mode_switch_to_agent(step.own, step.cand, "resident")
    /\ con' = StopRequested(con)
    /\ step' = Idle0
    /\ UNCHANGED <<br, defn, run, alive, started, mail, crossed, upsets>>

channel_sidecar_state(q) == Current(Sidecar) /\ Sidecar \notin q

_resident_bridge_is_fresh(b, q) == b # 0 /\ Current(b) /\ b \notin q

\* resident_drives: a live console, a live delivery loop or a fresh owner.
resident_drives(q) ==
    \/ con.st = "live"
    \/ channel_sidecar_state(q)
    \/ _resident_bridge_is_fresh(ag.owner, q)

\* A push of the host's definitions, which may change the mode the definition asks for.
follow_definition_to_managed(m, q) ==
    /\ defn' = m
    /\ Spend(Cost(q) + IF m = defn THEN 0 ELSE 1)
    /\ IF m = "managed" /\ ag.mode = "resident" /\ ~resident_drives(q) /\ run = 0
       THEN ag' = _apply_session_mode_switch_to_agent(ag.owner, ag.cand, "managed")
       ELSE /\ q = {}
            /\ ag' = ag
    /\ UNCHANGED <<br, con, run, alive, started, mail, step, crossed>>

----------------------------------------------------------------------------
(***************************************************************************)
(* Registration.                                                           *)
(***************************************************************************)

\* _fresh_same_mode_bridge_conflict: a resident bridge that still holds the agent.
Conflicts(b, q) == {c \in Cli \ {b} : Current(c) /\ br[c].mode = "resident"} \ q

\* _enforce_same_mode_bridge_gate: the same session relaunched, by a newer process, with no run in flight.
MayTakeOver(b, h, c) == br[c].hd = h /\ b > c /\ run = 0

_enforce_same_mode_bridge_gate(b, h, q) ==
    \/ Conflicts(b, q) = {}
    \/ \E c \in Conflicts(b, q) : MayTakeOver(b, h, c)

\* The conflicting row is superseded before the registration is recorded.
Yielded(b, h, q) ==
    [c \in Ids |-> IF c \in Conflicts(b, q) /\ MayTakeOver(b, h, c) THEN [br[c] EXCEPT !.sup = b] ELSE br[c]]

\* Handles are interchangeable: a new one is the next.
Max1(s) == IF s = <<>> THEN 0 ELSE IF \E i \in DOMAIN s : s[i] = 2 THEN 2 ELSE 1

\* A CLI process starts, in its own session or from inside one.
StartCli(h) ==
    LET b == Len(started.cli) + 1
    IN  /\ b \in Cli
        /\ h <= Max1(started.cli) + 1
        /\ started' = [started EXCEPT !.cli = Append(@, h)]
        /\ alive' = alive \cup {b}
        /\ UNCHANGED <<ag, br, defn, con, run, mail, step, crossed, upsets>>

\* A CLI is its own owner; a worker leaves the recorded one.
registration_owner_bridge_id(b) == IF b \in Cli THEN b ELSE ag.owner

\* _upsert_registered_agent_row the row is refreshed, the parked candidate forgotten, and a stop is lifted by the launch.
_upsert_registered_agent_row(b) ==
    ag' = [mode |-> IF b \in Cli THEN "resident" ELSE "managed", st |-> "up", drv |-> TRUE,
           owner |-> registration_owner_bridge_id(b), cand |-> 0]

\* _stage_manual_resident_takeover: the agent stays managed and the CLI is parked.
_stage_manual_resident_takeover(b) == ag' = [ag EXCEPT !.cand = b]

_register_via_manual_resident_takeover(b) == _stage_manual_resident_takeover(b) /\ UNCHANGED con

\* _register_agent for a CLI; the definition is followed first when it asks for resident.
_register_agent(b, force, q) ==
    LET h == started.cli[b]
        f == IF force THEN br ELSE Yielded(b, h, q)
    IN  /\ ~Current(b)
        /\ ~force => _enforce_same_mode_bridge_gate(b, h, q)
        /\ Spend((IF force THEN 1 ELSE Cost(q)) + (IF b \in alive THEN 0 ELSE 1))
        /\ br' = _record_bridge_registration(f, b, "resident", h)
        /\ run' = _fail_active_runs_for_superseded_bridges(f, b, "resident")
        /\ IF ag.mode = "resident" \/ follow_definition_mode(run, con)
           THEN /\ _upsert_registered_agent_row(b)
                /\ con' = _supersede_stale_resident_terminals(con)
           ELSE _register_via_manual_resident_takeover(b)
        /\ crossed' = (crossed \/ step.k # "none")
        /\ UNCHANGED <<defn, alive, started, mail, step>>

_enforce_driving_mode_switch_gate == ~(ag.drv /\ ag.mode = "resident")

\* The console's worker registers as a wrapper child; refused while a CLI drives a resident.
RegisterWorker ==
    /\ Worker \in alive /\ ~Current(Worker)
    /\ _enforce_driving_mode_switch_gate
    /\ _upsert_registered_agent_row(Worker)
    /\ br' = _record_bridge_registration(br, Worker, "child", 1)
    /\ run' = _fail_active_runs_for_superseded_bridges(br, Worker, "child")
    /\ crossed' = (crossed \/ step.k # "none")
    /\ UNCHANGED <<defn, con, alive, started, mail, step, upsets>>

\* The agent that owns the console is marked present; a stop stays.
_adopt_console_terminal_on_register(a) == [a EXCEPT !.st = IF @ = "stopped" THEN @ ELSE "up"]

\* The CLI inside the console registers as a resident and is recorded as the console's.
_register_via_adopted_console_terminal(q) ==
    /\ Worker \in alive /\ ~Current(Worker)
    /\ con.st = "live"
    /\ Conflicts(Worker, q) = {}
    /\ Spend(Cost(q))
    /\ ag' = _adopt_console_terminal_on_register(ag)
    /\ br' = _record_bridge_registration(br, Worker, "console", 1)
    /\ run' = _fail_active_runs_for_superseded_bridges(br, Worker, "console")
    /\ crossed' = (crossed \/ step.k # "none")
    /\ UNCHANGED <<defn, con, alive, started, mail, step>>

----------------------------------------------------------------------------
(***************************************************************************)
(* Heartbeats, and the session given back.                                 *)
(***************************************************************************)

\* A heartbeat leaves a stopped agent stopped.
Beaten(a) == [a EXCEPT !.st = IF @ = "stopped" THEN @ ELSE "up"]

\* _upsert_bridge_liveness_beat: a bridge nobody registered gets a row of its own.
_upsert_bridge_liveness_beat(b) ==
    IF br[b].row THEN br ELSE [br EXCEPT ![b] = [NoRow EXCEPT !.row = TRUE]]

agent_heartbeat(b) ==
    /\ b \in alive \ {Sidecar}
    /\ ~(br[b].row /\ br[b].sup # 0)
    /\ ag' = Beaten(ag)
    /\ br' = _upsert_bridge_liveness_beat(b)
    /\ UNCHANGED <<defn, con, run, alive, started, mail, step, crossed, upsets>>

\* _adopt_live_resident_driver: a fresh resident bridge drives after all.
LiveResident(q) == {c \in Cli : Current(c)} \ q # {}

\* The delivery loop beats, or is told to release the agent and exits.
SidecarBeat(q) ==
    /\ Sidecar \in alive
    /\ Spend(Cost(q))
    /\ IF ag.mode = "managed" \/ ag.drv \/ LiveResident(q)
       THEN /\ IF br[Sidecar].row /\ br[Sidecar].sup # 0
               THEN /\ ag' = [ag EXCEPT !.drv = @ \/ (ag.mode = "resident" /\ LiveResident(q))]
                    /\ UNCHANGED br
               ELSE /\ ag' = [Beaten(ag) EXCEPT !.drv = @ \/ (ag.mode = "resident" /\ LiveResident(q))]
                    /\ br' = [br EXCEPT ![Sidecar].row = TRUE, ![Sidecar].mode = ag.mode]
            /\ UNCHANGED alive
       ELSE /\ alive' = alive \ {Sidecar}
            /\ UNCHANGED <<ag, br>>
    /\ UNCHANGED <<defn, con, run, started, mail, step, crossed>>

\* Mutant: the session goes back only when the owner said that it left.
MayReclaimOffered(b, q) ==
    /\ ag.owner \notin {0, b}
    /\ b \in _same_handle_chain_behind(ag.owner)
    /\ br[b].offer = ag.owner

\* Mutant: a bridge that was replaced takes the session back whenever it beats.
MayReclaimAlways(b, q) ==
    /\ ag.owner \notin {0, b}
    /\ b \in _same_handle_chain_behind(ag.owner)

\* reclaim_on_beat, its reads: b is behind the owner, which offered the session or is silent.
MayReclaim(b, q) ==
    /\ ag.owner \notin {0, b}
    /\ b \in _same_handle_chain_behind(ag.owner)
    /\ br[b].offer = ag.owner \/ ag.owner \in q

reclaim_on_beat(b, q) ==
    /\ step.k = "none"
    /\ b \in alive \cap Cli
    /\ br[b].row /\ br[b].sup # 0
    /\ MayReclaim(b, q)
    /\ Spend(Cost(q))
    /\ step' = [Idle0 EXCEPT !.k = "reclaim", !.b = b, !.own = ag.owner, !.cand = ag.cand]
    /\ UNCHANGED <<ag, br, defn, con, run, alive, started, mail, crossed>>

\* Its writes: the runtime state that was read is written back with the new owner.
Reclaimed ==
    /\ step.k = "reclaim"
    /\ LET b == step.b
           o == step.own
       IN  /\ br' = [br EXCEPT ![b].sup = 0, ![b].offer = 0, ![o].sup = IF @ = 0 THEN b ELSE @]
           /\ ag' = [Beaten(ag) EXCEPT !.owner = b, !.cand = step.cand]
    /\ step' = Idle0
    /\ UNCHANGED <<defn, con, run, alive, started, mail, crossed, upsets>>

\* A CLI ends: cleanly, with a report on its way, or without a word.
CliEnds(b, clean) ==
    /\ b \in alive \cap Cli
    /\ alive' = alive \ {b}
    /\ mail' = IF clean THEN mail \cup {b} ELSE mail
    /\ UNCHANGED <<ag, br, defn, con, run, started, step, crossed, upsets>>

\* resident_lost, its reads: a report from a bridge that is not the owner is ignored.
resident_lost(b) ==
    /\ step.k = "none"
    /\ b \in mail
    /\ mail' = mail \ {b}
    /\ step' = IF ag.owner \notin {0, b} THEN step ELSE [Idle0 EXCEPT !.k = "lost", !.b = b, !.mode = ag.mode, !.st = ag.st]
    /\ UNCHANGED <<ag, br, defn, con, run, alive, started, crossed, upsets>>

\* _settle_lost_resident_when_no_transition: a managed agent is startable again, a stop stays.
_settle_lost_resident_when_no_transition(a) ==
    IF a.mode = "managed" THEN "up" ELSE IF a.st = "stopped" THEN "stopped" ELSE "offline"

\* Every same-handle bridge behind the lost one is offered the session, unless an operator stopped the agent.
offer_handback(b) == IF step.mode = "resident" /\ step.st # "stopped" THEN _same_handle_chain_behind(b) ELSE {}

\* Its writes, with the offer to every same-handle bridge behind the lost one.
ResidentLost ==
    /\ step.k = "lost"
    /\ LET b == step.b
           offer == offer_handback(b)
       IN  /\ ag' = [ag EXCEPT !.st = _settle_lost_resident_when_no_transition(step)]
           /\ br' = [c \in Ids |->
                        IF c = b THEN [br[b] EXCEPT !.sup = IF br[b].row /\ @ = 0 THEN LostMark ELSE @]
                        ELSE IF c \in offer THEN [br[c] EXCEPT !.offer = b] ELSE br[c]]
    /\ step' = Idle0
    /\ UNCHANGED <<defn, con, run, alive, started, mail, crossed, upsets>>

----------------------------------------------------------------------------
(***************************************************************************)
(* Claims, stops and consoles.                                             *)
(***************************************************************************)

\* A managed agent's work is for the worker of the console that is live.
_active_wrapper_terminal_id(b) == b = Worker /\ br[b].row /\ con.st = "live"

\* _bridge_claim_block_reason: superseded, not the current bridge of a resident, or not the worker of
\* the console that is live.
_bridge_claim_block_reason(b) ==
    \/ br[b].row /\ br[b].sup # 0
    \/ b # Sidecar /\ ag.mode = "resident" /\ ag.owner \notin {0, b}
    \/ b # Sidecar /\ ag.mode = "managed" /\ ~_active_wrapper_terminal_id(b)

\* A claim of queued work; a run another bridge holds is taken over once that bridge is gone.
_claim_dispatch_once(b, q) ==
    /\ b \in alive \ {Sidecar}
    /\ ag.st # "stopped"
    /\ ~_bridge_claim_block_reason(b)
    /\ run # b
    /\ run # 0 => (br[run].sup # 0 \/ run \in q)
    /\ Spend(Cost(q))
    /\ run' = b
    /\ UNCHANGED <<ag, br, defn, con, alive, started, mail, step, crossed>>

\* The delivery loop's claim lifts its own supersession first.
SidecarClaims(q) ==
    /\ Sidecar \in alive
    /\ ag.st # "stopped"
    /\ ag.mode = "managed" \/ ag.drv
    /\ run # Sidecar
    /\ run # 0 => (br[run].sup # 0 \/ run \in q)
    /\ Spend(Cost(q))
    /\ br' = [br EXCEPT ![Sidecar] = [@ EXCEPT !.row = TRUE, !.sup = 0, !.mode = ag.mode]]
    /\ run' = Sidecar
    /\ UNCHANGED <<ag, defn, con, alive, started, mail, step, crossed>>

RunEnds ==
    /\ run # 0
    /\ run' = 0
    /\ UNCHANGED <<ag, br, defn, con, alive, started, mail, step, crossed, upsets>>

\* Stop of an agent no host defines; a managed one's console is asked to stop.
StopAgent ==
    /\ defn = "none"
    /\ ag' = [ag EXCEPT !.st = "stopped"]
    /\ con' = IF ag.mode = "managed" THEN StopRequested(con) ELSE con
    /\ UNCHANGED <<br, defn, run, alive, started, mail, step, crossed, upsets>>

ResumeAgent ==
    /\ defn = "none"
    /\ ag.st = "stopped"
    /\ ag' = [ag EXCEPT !.st = "up"]
    /\ UNCHANGED <<br, defn, con, run, alive, started, mail, step, crossed, upsets>>

\* stop_agent_worker.
stop_agent_worker ==
    /\ defn = "none"
    /\ con.st \in {"live", "stopping"}
    /\ con' = StopRequested(con)
    /\ UNCHANGED <<ag, br, defn, run, alive, started, mail, step, crossed, upsets>>

\* The host starts a console for a managed agent, with a worker and a delivery loop.
StartConsole ==
    /\ ag.mode = "managed" /\ ag.st # "stopped"
    /\ con.st \in {"none", "ended"} /\ ~con.proc
    /\ started.con < MaxConsoles
    /\ con' = [st |-> "live", proc |-> TRUE, stop |-> FALSE]
    /\ started' = [started EXCEPT !.con = @ + 1]
    /\ alive' = alive \cup {Worker, Sidecar}
    /\ br' = [br EXCEPT ![Worker] = NoRow]
    /\ UNCHANGED <<ag, defn, run, mail, step, crossed, upsets>>

\* The console's process ends, by itself or because the host carried out the stop.
ConsoleExits ==
    /\ con.proc
    /\ con' = [con EXCEPT !.proc = FALSE, !.stop = FALSE]
    /\ alive' = alive \ {Worker, Sidecar}
    /\ UNCHANGED <<ag, br, defn, run, started, mail, step, crossed, upsets>>

\* _close_out_terminal_on_end_status: its runs are closed and a parked resident is adopted.
_close_out_terminal_on_end_status ==
    /\ con.st \in {"live", "stopping"} /\ ~con.proc
    /\ LET r == IF run = Worker THEN 0 ELSE run
           c == [con EXCEPT !.st = "ended"]
       IN  /\ run' = r
           /\ con' = c
           /\ ag' = IF adopt_parked_resident(r, c)
                    THEN _apply_session_mode_switch_to_agent(ag.owner, ag.cand, "resident") ELSE ag
    /\ UNCHANGED <<br, defn, alive, started, mail, step, crossed, upsets>>

\* _reconcile_stale_managed_terminals_for_resident_agents, when the service starts.
StartupReconcile ==
    /\ ag.mode = "resident" /\ con.st = "live"
    /\ con' = [con EXCEPT !.st = "ended"]
    /\ step' = Idle0
    /\ UNCHANGED <<ag, br, defn, run, alive, started, mail, crossed, upsets>>

----------------------------------------------------------------------------

BridgesInit ==
    /\ ag \in [mode : {"resident", "managed"}, st : {"offline"}, drv : {FALSE}, owner : {0}, cand : {0}]
    /\ br = [b \in Ids |-> NoRow]
    /\ defn \in Defined
    /\ con = [st |-> "none", proc |-> FALSE, stop |-> FALSE]
    /\ run = 0
    /\ alive = {}
    /\ started = [cli |-> <<>>, con |-> 0]
    /\ mail = {}
    /\ step = Idle0
    /\ crossed = FALSE
    /\ upsets = 0

Starts ==
    \/ \E h \in Handles : StartCli(h)
    \/ StartConsole

Registers ==
    \/ \E b \in 1 .. Len(started.cli) : \E q \in SUBSET Conflicts(b, {}) : _register_agent(b, FALSE, q)
    \/ \E b \in 1 .. Len(started.cli) : _register_agent(b, TRUE, {})
    \/ RegisterWorker
    \/ \E q \in SUBSET Conflicts(Worker, {}) : _register_via_adopted_console_terminal(q)

Switches ==
    \/ \E force \in BOOLEAN : switch_agent_session_mode(force)
    \/ switch_session_mode
    \/ \E m \in Defined, q \in SUBSET ({ag.owner, Sidecar} \cap Ids) : follow_definition_to_managed(m, q)

Beats ==
    \/ \E b \in Ids : agent_heartbeat(b)
    \/ \E q \in SUBSET {c \in Cli : Current(c)} : SidecarBeat(q)
    \/ \E b \in Cli, q \in SUBSET ({ag.owner} \cap Ids) : reclaim_on_beat(b, q)
    \/ Reclaimed

Losses ==
    \/ \E b \in Cli, clean \in BOOLEAN : CliEnds(b, clean)
    \/ \E b \in Cli : resident_lost(b)
    \/ ResidentLost

Claims ==
    \/ \E b \in Ids, q \in SUBSET ({run} \cap Ids) : _claim_dispatch_once(b, q)
    \/ \E q \in SUBSET ({run} \cap Ids) : SidecarClaims(q)
    \/ RunEnds

Operates == StopAgent \/ ResumeAgent \/ stop_agent_worker

ConsoleSteps == ConsoleExits \/ _close_out_terminal_on_end_status \/ StartupReconcile

BridgesNext == Starts \/ Registers \/ Switches \/ Beats \/ Losses \/ Claims \/ Operates \/ ConsoleSteps

BridgesSpec == BridgesInit /\ [][BridgesNext]_bridgeVars

----------------------------------------------------------------------------

\* Nothing alive was taken for silent, forced aside or late, and no registration crossed another handler.
Undisturbed == upsets = 0 /\ ~crossed

\* A bridge that was replaced never takes the session from the newer process of the same session while that one runs.
LiveNotRobbed ==
    [][\A o \in Cli : (/\ Undisturbed /\ ag.mode = "resident" /\ ag.owner = o /\ o \in alive
                       /\ ag'.owner \in Cli /\ ag'.owner < o /\ br[ag'.owner].hd = br[o].hd)
                      => ~Undisturbed']_bridgeVars

Behind(b) == ag.mode = "resident" /\ ag.owner \in Cli \ alive /\ b \in alive /\ b \in _same_handle_chain_behind(ag.owner)

LeftAlone(b) ==
    /\ ag.mode = "resident" /\ alive \cap Cli = {b} /\ br[b].mode = "resident"
    /\ ag.owner \in Cli /\ ag.owner > b /\ br[ag.owner].hd = br[b].hd /\ ~crossed

=============================================================================
