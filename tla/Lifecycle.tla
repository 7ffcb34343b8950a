----------------------------- MODULE Lifecycle -----------------------------
(***************************************************************************)
(* Lifecycle requests on a defined agent: the operator asks for a start, a  *)
(* stop, a restart, a spawn or a delete, the owning host claims the         *)
(* request, prepares and attaches a launch, and reports one immutable       *)
(* result (api_core/agent_lifecycle_requests.py, lifecycle_delegation.py,   *)
(* lifecycle_launch.py, routers/agent_lifecycle_requests.py).  Composed     *)
(* with Definitions: the definition may be edited, moved, withdrawn or      *)
(* removed between any two of these steps.                                  *)
(***************************************************************************)
EXTENDS Definitions

VARIABLES
    gen,      \* the bridge id each store's aify-env runs under
    lhost,    \* external: what the host has done: none, received, started, or a result
    launch,   \* lifecycle_launches, with the state of the prepared terminal
    handed,   \* how often a request's brief was handed to dispatch
    owes      \* a done delete whose removal the report handler has yet to run

lifeOnly == <<gen, lhost, launch, handed, owes>>
custodyVars == <<defVars, lifeOnly>>

Launching == {"start", "spawn"}     \* LAUNCHING_ACTIONS; restart launches as start does
LifeResults == {"done", "refused", "failed"}
NoLaunch == [gen |-> 0, term |-> "none", attached |-> FALSE]

\* start_binding: the definition can start a worker now.
Startable == Defined /\ def.st = "valid"

-----------------------------------------------------------------------------
(* Asking.                                                                  *)

\* The request names the definition as it is now; one may be open.
admit_lifecycle(act, brief) ==
    /\ Defined
    /\ OpenLife(lreq) = {}
    /\ FreeSlot(LifeRequests, lreq) # 0
    /\ lreq' = queue_lifecycle(lreq, act, def, brief)
    /\ UNCHANGED <<hostVars, bridge, custody, dreq, told, rem, upsets, lifeOnly>>

\* submit_lifecycle: the API's own route, which asks only for a definition.
SubmitsLifecycle(act) == admit_lifecycle(act, FALSE)

\* delegate, for the start, restart, handoff and delete routes: a launching
\* action is refused at once when the definition cannot start; without a brief
\* an open request for the same action is reused, which changes nothing.
Delegates(act, brief) ==
    /\ act \in Launching => Startable
    /\ admit_lifecycle(act, brief)

\* The definition, the agent and the store have not moved since the request.
StillIts(q) ==
    /\ def.by = q.by /\ def.inc = q.inc /\ def.rev = q.rev
    /\ store[MachineOf[q.by]].by = q.by

\* claim_lifecycle_requests: a pending request whose definition moved is
\* refused; a claimed one is kept for the host's report and not handed out;
\* the others are handed out, again if need be.
ClaimsLifecycle(s) ==
    LET mine == {l \in OpenLife(lreq) : MachineOf[lreq[l].by] = MachineOf[s]}
        out == {l \in mine : StillIts(lreq[l])}
    IN  /\ Fenced(s)
        /\ mine # {}
        /\ lreq' = [l \in LifeRequests |->
                       IF l \in out THEN [lreq[l] EXCEPT !.st = "claimed"]
                       ELSE IF l \in mine /\ lreq[l].st = "pending" THEN [lreq[l] EXCEPT !.st = "refused"]
                       ELSE lreq[l]]
        /\ \/ /\ lhost' = [l \in LifeRequests |-> IF l \in out /\ lreq[l].by = s /\ lhost[l] = "none"
                                                  THEN "received" ELSE lhost[l]]
              /\ UNCHANGED upsets
           \/ lhost' = lhost /\ Upset
        /\ <<lreq', lhost'>> # <<lreq, lhost>>
        /\ UNCHANGED <<hostVars, bridge, custody, dreq, told, rem, gen, launch, handed, owes>>

-----------------------------------------------------------------------------
(* Launching.                                                               *)

\* _admitted: the fence, a claimed launching request, the very definition.
_admitted(q, replay) ==
    /\ Fenced(q.by)
    /\ q.act \in Launching
    /\ q.st = "claimed" \/ (replay /\ q.st \in LifeResults)
    /\ StillIts(q) /\ def.st = "valid"

\* prepare_launch: the session, the terminal and the launch row are made once
\* and belong to one bridge; the host starts the worker on the answer, which
\* may be lost.
PreparesLaunch(l) ==
    /\ lhost[l] = "received"
    /\ _admitted(lreq[l], FALSE)
    /\ \/ /\ launch[l].term = "none"
          /\ launch' = [launch EXCEPT ![l] = [gen |-> gen[lreq[l].by], term |-> "starting", attached |-> FALSE]]
       \/ /\ launch[l].term # "none" /\ launch[l].gen = gen[lreq[l].by]
          /\ UNCHANGED launch
    /\ \/ lhost' = [lhost EXCEPT ![l] = "started"] /\ UNCHANGED upsets
       \/ lhost' = lhost /\ launch' # launch /\ Upset
    /\ UNCHANGED <<hostVars, bridge, custody, dreq, told, rem, lreq, gen, handed, owes>>

\* Mutant: an attach that was admitted is admitted again, with its brief.
AttachesAgain(l) ==
    /\ lhost[l] = "started"
    /\ _admitted(lreq[l], launch[l].attached)
    /\ launch[l].gen = gen[lreq[l].by]
    /\ launch[l].term \in {"starting", "attached"}
    /\ handed[l] < 2
    /\ launch' = [launch EXCEPT ![l] = [launch[l] EXCEPT !.attached = TRUE, !.term = "attached"]]
    /\ handed' = [handed EXCEPT ![l] = @ + (IF lreq[l].brief THEN 1 ELSE 0)]
    /\ UNCHANGED <<defVars, gen, lhost, owes>>

\* attach: the exact prepared terminal, by the bridge it was prepared for; the
\* receipt is immutable and the brief is handed to dispatch with the first.
Attaches(l) ==
    /\ lhost[l] = "started"
    /\ _admitted(lreq[l], launch[l].attached)
    /\ launch[l].gen = gen[lreq[l].by]
    /\ ~launch[l].attached
    /\ launch[l].term = "starting"
    /\ launch' = [launch EXCEPT ![l] = [launch[l] EXCEPT !.attached = TRUE, !.term = "attached"]]
    /\ handed' = [handed EXCEPT ![l] = @ + (IF lreq[l].brief THEN 1 ELSE 0)]
    /\ UNCHANGED <<defVars, gen, lhost, owes>>

\* External: the host reaches a result it will repeat until it is heard.  A
\* request refused before any start leaves no worker; a delete removes the
\* definition it names.
HostFinishes(l) ==
    LET q == lreq[l]
        e == host[q.by].entry
        its == e.st # "absent" /\ e.inc = q.inc /\ e.rev = q.rev
    IN  /\ lhost[l] \in {"received", "started"}
        /\ \E res \in LifeResults :
              /\ res = "refused" => lhost[l] = "received"
              /\ res = "failed" => lhost[l] = "started"
              /\ res = "done" => its /\ (q.act \in Launching => lhost[l] = "started" /\ launch[l].attached)
              /\ lhost' = [lhost EXCEPT ![l] = res]
              /\ IF res = "done" /\ q.act = "delete" THEN HostWrites(q.by, NoEntry) ELSE UNCHANGED <<host, wire>>
        /\ UNCHANGED <<edits, bridge, custody, dreq, told, rem, lreq, upsets, gen, launch, handed, owes>>

\* settle_unstarted: a launch refused before it ran leaves no starting row.
settle_unstarted(l) ==
    IF lhost[l] = "refused" /\ ~launch[l].attached /\ launch[l].term = "starting"
    THEN [launch EXCEPT ![l] = [launch[l] EXCEPT !.term = "failed"]] ELSE launch

\* report_lifecycle_result: recorded once; a done delete then removes the
\* agent, in a transaction of its own (LifecycleRemoval).
ReportsLifecycle(l) ==
    /\ lhost[l] \in LifeResults
    /\ Fenced(lreq[l].by)
    /\ \/ /\ lreq[l].st = "claimed"
          /\ lreq' = [lreq EXCEPT ![l] = [lreq[l] EXCEPT !.st = lhost[l]]]
          /\ launch' = settle_unstarted(l)
       \/ /\ lreq[l].st = lhost[l]                   \* a repeat of the same result
          /\ lreq[l].act = "delete" /\ lhost[l] = "done" /\ l \notin owes
          /\ UNCHANGED <<lreq, launch>>
    /\ owes' = IF lreq[l].act = "delete" /\ lhost[l] = "done" THEN owes \cup {l} ELSE owes
    /\ UNCHANGED <<hostVars, bridge, custody, dreq, told, rem, upsets, gen, lhost, handed>>

\* finish_lifecycle_removal: the removal's fence and delete in one transaction.
LifecycleRemoval(l) ==
    /\ l \in owes
    /\ owes' = owes \ {l}
    /\ IF removal_refusal(lreq[l].by, lreq[l].inc) THEN UNCHANGED <<agent, tomb>>
       ELSE _remove_agent_record("definition_removed")
    /\ UNCHANGED <<hostVars, bridge, store, retired, def, dreq, told, rem, lreq, upsets, gen, lhost, launch, handed>>

\* aify-env restarts under a new bridge id; what it received and did is kept
\* in its own receipts.  A prepared launch of the old bridge is not its own.
HostRestarts(s) ==
    /\ Upset
    /\ gen' = [gen EXCEPT ![s] = @ + 1]
    /\ UNCHANGED <<hostVars, bridge, custody, dreq, told, rem, lreq, lhost, launch, handed, owes>>

LifecycleStep ==
    \/ \E act \in {"start", "delete"} : SubmitsLifecycle(act) \/ Delegates(act, act = "start")
    \/ \E s \in Stores : ClaimsLifecycle(s) \/ HostRestarts(s)
    \/ \E l \in LifeRequests :
          \/ PreparesLaunch(l) \/ Attaches(l) \/ HostFinishes(l)
          \/ ReportsLifecycle(l) \/ LifecycleRemoval(l)

CustodyInit ==
    /\ DefInit
    /\ gen = [s \in Stores |-> 1]
    /\ lhost = [l \in LifeRequests |-> "none"]
    /\ launch = [l \in LifeRequests |-> NoLaunch]
    /\ handed = [l \in LifeRequests |-> 0]
    /\ owes = {}

\* A service restart loses the removals of both kinds of report handler.
Restart == ServiceRestarts /\ owes' = {} /\ UNCHANGED <<gen, lhost, launch, handed>>

CustodyNext == (DefNext /\ UNCHANGED lifeOnly) \/ Restart \/ LifecycleStep

-----------------------------------------------------------------------------
(* Correctness.                                                             *)

CustodyTypeOK ==
    /\ def \in [by : Stores \cup {NoStore}, inc : Nat, rev : Nat, st : {"absent", "valid", "invalid", "unavailable"}]
    /\ agent \in [row : BOOLEAN, dstate : {"", "defined", "withdrawn"}, wd : (Stores \cup {NoStore}) \X Nat]
    /\ tomb \in {"none", "definition_removed", "delete_agent"}
    /\ \A r \in Changes : dreq[r].st \in Waiting \cup {"free", "superseded", "done", "refused", "expired"}
    /\ \A l \in LifeRequests : lreq[l].st \in Waiting \cup LifeResults \cup {"free"}

\* One request waits per agent in each queue, whichever of the paths that ask
\* (the operator's change, a creation, an owed spawn, a lifecycle action)
\* raced for it (the OPEN_SQL checks).
OneWaiting == Cardinality(OpenChanges(dreq)) <= 1 /\ Cardinality(OpenLife(lreq)) <= 1

\* What a machine defines is what its newest applied snapshot says: a
\* definition it does not list is not kept, and one it lists is not older.
DefinitionIsSnapshot ==
    Defined => LET p == store[Owner] IN
        /\ p.entry.st # "absent"
        /\ def.by = p.by /\ p.entry.st # "invalid" /\ ~_id_refusal(p.entry, p.by)
              => def.inc = p.entry.inc /\ def.rev = p.entry.rev

\* A removal takes only the lifetime it was asked for: when the row of an agent
\* goes because a host removed its definition, the definition the service
\* holds, or saw withdrawn, is the one a done removal names, although the
\* agent may have been defined again while the removal waited for its worker.
OnlyThatLifetime ==
    [][agent.row /\ ~agent'.row /\ tomb' = "definition_removed" =>
          LET life == IF Defined THEN <<def.by, def.inc>> ELSE agent.wd IN
          \/ \E r \in Changes : dreq[r].kind = "remove" /\ dreq[r].st = "done" /\ <<dreq[r].by, dreq[r].inc>> = life
          \/ \E l \in LifeRequests : lreq[l].act = "delete" /\ lreq[l].st = "done"
                                      /\ <<lreq[l].by, lreq[l].inc>> = life]_custodyVars

\* A brief is handed to dispatch at most once per request, and only with a
\* worker attached, over lost answers, repeated attachments and restarts.
BriefOnce == \A l \in LifeRequests : handed[l] <= (IF launch[l].attached THEN 1 ELSE 0)

CustodySpec == CustodyInit /\ [][CustodyNext]_custodyVars

=============================================================================
