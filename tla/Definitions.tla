---------------------------- MODULE Definitions ----------------------------
(***************************************************************************)
(* Who defines an agent, and how its definition is changed and removed.     *)
(*                                                                         *)
(* Hosts keep agent definitions in a store and push whole snapshots of it   *)
(* to the service (api_core/definition_push.py), which applies them in the  *)
(* order of the store's revisions.  The operator changes a definition by a  *)
(* queued request the owning host claims, applies and reports               *)
(* (api_core/definition_requests.py); a removal and a creation leave a      *)
(* consequence the service still owes after the report: to remove the       *)
(* agent (agent_remove.py, owed_removals.py), or to queue its first spawn   *)
(* (definition_creation.py).                                                *)
(*                                                                         *)
(* One agent id is followed; `Stores` are the host stores that may hold it, *)
(* each the store of one aify-env process.  A snapshot in `wire` may arrive *)
(* late, twice, out of order or never.                                      *)
(***************************************************************************)
EXTENDS Integers, FiniteSets, FiniteSetsExt

CONSTANTS
    Stores,         \* host definition stores
    Machines,       \* machines that run an aify-env
    MachineOf,      \* the machine of each store
    NoStore,        \* no store, no machine
    Changes,        \* ids of definition requests, in order of creation
    LifeRequests,   \* ids of lifecycle requests, in order of creation
    MaxEdits,       \* bound: definition edits made on the hosts themselves
    MaxUpsets       \* bound: restarts, lost answers, expiries and operator resets

ASSUME StoresAssumption == MachineOf \in [Stores -> Machines]
ASSUME NoStoreAssumption == NoStore \notin Stores \cup Machines
ASSUME IdsAssumption == Changes \subseteq Nat /\ LifeRequests \subseteq Nat
ASSUME BoundsAssumption == MaxEdits \in Nat /\ MaxUpsets \in Nat

VARIABLES
    host,     \* external: per store, its revision, last incarnation and entry
    edits,    \* external: host edits so far (bound)
    wire,     \* external: the snapshots taken, any of which may arrive
    bridge,   \* environments.bridge_id: the store whose process claims, per machine
    store,    \* definition_stores, per machine
    retired,  \* definition_stores_retired, per machine
    def,      \* the agent's row of agent_definitions
    agent,    \* the agent's row: exists, definition_state, definition_withdrawn
    tomb,     \* the reason in the agent's tombstone, or "none"
    dreq,     \* definition_requests
    told,     \* external: the result a host reached for a request
    rem,      \* the removals being carried out, per task
    lreq,     \* agent_lifecycle_requests
    upsets    \* what went wrong so far (bound)

hostVars == <<host, edits, wire>>
custody == <<store, retired, def, agent, tomb>>
defVars == <<hostVars, bridge, custody, dreq, told, rem, lreq, upsets>>

NoEntry == [inc |-> 0, rev |-> 0, st |-> "absent"]
NoDef == [by |-> NoStore, inc |-> 0, rev |-> 0, st |-> "absent"]
NoHost == [rev |-> 0, inc |-> 0, entry |-> NoEntry]       \* no aify-env installed
EmptyHost == [NoHost EXCEPT !.rev = 1]
Free == [st |-> "free", kind |-> "edit", by |-> NoStore, inc |-> 0, rev |-> 0,
         old |-> FALSE, res |-> 0, cons |-> ""]
LifeFree == [st |-> "free", act |-> "start", by |-> NoStore, inc |-> 0, rev |-> 0,
             brief |-> FALSE]

\* A request answered before the behaviour starts, so that its id is taken.
Spent == [Free EXCEPT !.st = "refused"]
LifeSpent == [LifeFree EXCEPT !.st = "refused"]

\* OPEN_STATUSES: one waiting request per agent at a time.
Waiting == {"pending", "claimed"}
OpenChanges(d) == {r \in Changes : d[r].st \in Waiting}
OpenLife(l) == {q \in LifeRequests : l[q].st \in Waiting}
FreeSlot(S, f) == LET free == {i \in S : f[i].st = "free"} IN IF free = {} THEN 0 ELSE Min(free)
Defined == def # NoDef
Owner == IF Defined THEN MachineOf[def.by] ELSE NoStore

\* Tasks that carry out a removal: a report's handler, the sweep, the API's delete.
RemovalTasks == {"report", "sweep", "api"}
Idle == [req |-> 0, at |-> "idle", why |-> ""]

-----------------------------------------------------------------------------
(* Hosts (external).                                                        *)

\* A host's store after its operator, or a request, writes the entry e.
Written(s, e) == [rev |-> host[s].rev + 1,
                  inc |-> IF e.inc > host[s].inc THEN e.inc ELSE host[s].inc, entry |-> e]
Snapshot(s, h) == [by |-> s, rev |-> h.rev, entry |-> h.entry]

HostWrites(s, e) ==
    /\ host' = [host EXCEPT ![s] = Written(s, e)]
    /\ wire' = wire \cup {Snapshot(s, Written(s, e))}

NextEntry(s) ==
    LET e == host[s].entry IN
    IF e.st = "absent" THEN [inc |-> host[s].inc + 1, rev |-> 1, st |-> "valid"]
                       ELSE [e EXCEPT !.rev = @ + 1, !.st = "valid"]

\* `aify-env agents set` and `remove`, a file made unreadable, a harness
\* removed; an edit of another agent moves only the store's revision.
HostEdits(s) ==
    /\ edits < MaxEdits /\ host[s].rev > 0
    /\ edits' = edits + 1
    /\ \E e \in {NextEntry(s), NoEntry, host[s].entry} \cup {[host[s].entry EXCEPT !.st = x] : x \in {"invalid", "unavailable"}} :
          /\ e.st \in {"invalid", "unavailable"} => host[s].entry.st # "absent"
          /\ HostWrites(s, e)
    /\ UNCHANGED <<bridge, custody, dreq, told, rem, lreq, upsets>>

\* A failure, or an operator's repair, of which a behaviour has a bounded number.
Upset == upsets < MaxUpsets /\ upsets' = upsets + 1

\* The environment's heartbeat is accepted from this store's aify-env.
Beats(s) ==
    /\ bridge[MachineOf[s]] # s /\ host[s].rev > 0
    /\ IF bridge[MachineOf[s]] = NoStore THEN UNCHANGED upsets ELSE Upset
    /\ bridge' = [bridge EXCEPT ![MachineOf[s]] = s]
    /\ UNCHANGED <<hostVars, custody, dreq, told, rem, lreq>>

\* fence_refusal: only the environment's current claimer is listened to.
Fenced(s) == bridge[MachineOf[s]] = s

-----------------------------------------------------------------------------
(* Requests: who may wait, what can still be delivered.                     *)

expire_unclaimed(d) ==
    [r \in Changes |-> IF d[r].st = "pending" /\ d[r].old THEN [d[r] EXCEPT !.st = "expired"] ELSE d[r]]

is_creation(q) == q.inc = 0 /\ q.rev = 0

\* No host may apply this request any more: its store was replaced, or the
\* definition was withdrawn or moved.
_undeliverable(q, held, current) ==
    \/ q.by # current
    \/ is_creation(q) /\ held # NoDef /\ held.by # q.by
    \/ ~is_creation(q) /\ held.by # q.by

_settle_undeliverable(q) ==
    [q EXCEPT !.st = IF q.st = "claimed" THEN "superseded" ELSE "refused"]

_refuse_undeliverable(d) ==
    [r \in Changes |->
        IF d[r].st \in Waiting /\ _undeliverable(d[r], def, store[MachineOf[d[r].by]].by)
        THEN _settle_undeliverable(d[r]) ELSE d[r]]

queue_lifecycle(l, act, held, brief) ==
    [l EXCEPT ![FreeSlot(LifeRequests, l)] =
        [st |-> "pending", act |-> act, by |-> held.by, inc |-> held.inc, rev |-> held.rev, brief |-> brief]]

\* spawn_created: the spawn a done creation owes is queued once its own
\* machine has published the definition it made; another lifetime, or a
\* lifecycle request already open, ends the debt with nothing spawned.
OwedSpawns(d, held, m) ==
    {r \in Changes : /\ d[r].st = "done" /\ d[r].cons = "spawn pending"
                     /\ MachineOf[d[r].by] = m /\ held # NoDef}
_spawn(q, held, l) ==
    /\ held.by = q.by /\ held.inc = q.res
    /\ OpenLife(l) = {}
SpawnsNow(d, held, m) == {r \in OwedSpawns(d, held, m) : _spawn(d[r], held, lreq)}
SpawnSettled(d, held, m) ==
    [r \in Changes |->
        IF r \in OwedSpawns(d, held, m)
        THEN [d[r] EXCEPT !.cons = IF r \in SpawnsNow(d, held, m) THEN "spawned" ELSE "nothing"]
        ELSE d[r]]
SpawnQueued(d, held, m) ==
    IF SpawnsNow(d, held, m) = {} THEN lreq ELSE queue_lifecycle(lreq, "spawn", held, TRUE)
spawn_created(d, held, m) ==
    /\ SpawnsNow(d, held, m) # {} => FreeSlot(LifeRequests, lreq) # 0
    /\ dreq' = SpawnSettled(d, held, m)
    /\ lreq' = SpawnQueued(d, held, m)

-----------------------------------------------------------------------------
(* The push.                                                                *)
push_order(cur, gone, p) ==
    CASE p.by \in gone -> "retired"
      [] p.by \notin gone /\ cur.by = NoStore -> "apply"
      [] p.by \notin gone /\ cur.by \notin {NoStore, p.by} -> "new-store"
      [] OTHER -> IF p.rev > cur.rev THEN "apply"
                  ELSE IF p.rev < cur.rev THEN "stale"
                  ELSE IF p.entry = cur.entry THEN "replay" ELSE "conflict"
\* The newest incarnation of this id a done removal took from this store.
_removed_incarnation(s) ==
    Max({0} \cup {dreq[r].inc : r \in {x \in Changes : dreq[x].kind = "remove" /\ dreq[x].by = s
                                         /\ dreq[x].st = "done" /\ dreq[x].cons \in {"pending", "removed"}}})

\* An invalid entry carries no incarnation and is judged as incarnation 0.
_id_refusal(e, s) ==
    \/ Defined /\ Owner # MachineOf[s]
    \/ LET taken == _removed_incarnation(s)
       IN taken > 0 /\ (IF e.st = "invalid" THEN 0 ELSE e.inc) <= taken

\* Mutant: a definition the host no longer has is kept.
ApplyNoWithdrawal(s, e) ==
    IF e.st \in {"valid", "unavailable"} /\ ~_id_refusal(e, s)
    THEN /\ def' = [by |-> s, inc |-> e.inc, rev |-> e.rev, st |-> e.st]
         /\ agent' = [agent EXCEPT !.row = TRUE, !.dstate = "defined"]
         /\ tomb' = "none"
    ELSE UNCHANGED <<def, agent, tomb>>

\* The agent's row is made, or marked defined.
_ensure_agent_row ==
    agent' = [agent EXCEPT !.row = TRUE, !.dstate = "defined", !.wd = IF agent.row THEN @ ELSE <<NoStore, 0>>]

\* The entries of a snapshot, for the one id followed.
_apply_entries(s, e) ==
    \/ /\ e.st # "absent" /\ _id_refusal(e, s)
       /\ UNCHANGED <<def, agent, tomb>>
    \/ /\ e.st = "invalid" /\ ~_id_refusal(e, s)
       /\ def' = IF Owner = MachineOf[s] THEN [def EXCEPT !.st = "invalid"] ELSE def
       /\ UNCHANGED <<agent, tomb>>
    \/ /\ e.st \in {"valid", "unavailable"} /\ ~_id_refusal(e, s)
       /\ def' = [by |-> s, inc |-> e.inc, rev |-> e.rev, st |-> e.st]
       /\ _ensure_agent_row
       /\ tomb' = "none"
    \/ /\ e.st = "absent"
       /\ IF Owner = MachineOf[s]
          THEN /\ def' = NoDef
               /\ agent' = IF agent.row THEN [agent EXCEPT !.dstate = "withdrawn", !.wd = <<def.by, def.inc>>]
                           ELSE agent
          ELSE UNCHANGED <<def, agent>>
       /\ UNCHANGED tomb

\* A replay changes nothing; a stale, conflicting or retired snapshot is refused.
apply_definition_push(p, m, order) ==
    \/ /\ order \in {"apply", "new-store"}
       /\ retired' = IF order = "new-store" THEN [retired EXCEPT ![m] = @ \cup {store[m].by}] ELSE retired
       /\ store' = [store EXCEPT ![m] = p]
       /\ _apply_entries(p.by, p.entry)
    \/ /\ order = "replay"
       /\ UNCHANGED custody

\* push_agent_definitions: a snapshot arrives from its machine's claimer; the
\* spawns it settles are queued in the same transaction, a replay's too.
PushArrives(p) ==
    LET m == MachineOf[p.by] IN
    /\ Fenced(p.by)
    /\ apply_definition_push(p, m, push_order(store[m], retired[m], p))
    /\ spawn_created(dreq, def', m)
    /\ UNCHANGED <<hostVars, bridge, told, rem, upsets>>

\* reset_definition_store: the operator lets a machine's retired stores back.
ResetsStore(m) ==
    /\ retired[m] # {} /\ Upset
    /\ retired' = [retired EXCEPT ![m] = {}]
    /\ UNCHANGED <<hostVars, bridge, store, def, agent, tomb, dreq, told, rem, lreq>>

\* release_agent_definition: the operator frees the id from a lost machine.
ReleasesDefinition ==
    /\ Defined /\ Upset
    /\ def' = NoDef
    /\ agent' = IF agent.row THEN [agent EXCEPT !.dstate = "withdrawn"] ELSE agent
    /\ UNCHANGED <<hostVars, bridge, store, retired, tomb, dreq, told, rem, lreq>>

-----------------------------------------------------------------------------
(* The operator's requests.                                                 *)

QueuedChange(kind, s, inc, rev) == [Free EXCEPT !.st = "pending", !.kind = kind, !.by = s, !.inc = inc, !.rev = rev]

\* Mutant: a request is taken while another one waits.
AdmitUnasked(kind, d, r) ==
    /\ Defined
    /\ dreq' = [d EXCEPT ![r] = QueuedChange(kind, def.by, def.inc, def.rev)]

\* A compare-and-set on the lifetime and revision held now; d is the queue
\* after what can no longer be delivered was settled.
admit(kind, d, r) ==
    /\ Defined
    /\ OpenChanges(d) = {}
    /\ dreq' = [d EXCEPT ![r] = QueuedChange(kind, def.by, def.inc, def.rev)]

\* request_definition_change, and the editors that queue a change the same way.
AdmitsChange(kind) ==
    LET d == _refuse_undeliverable(expire_unclaimed(dreq))
        r == FreeSlot(Changes, d)
    IN  /\ r # 0
        /\ admit(kind, d, r)
        /\ UNCHANGED <<hostVars, bridge, custody, told, rem, lreq, upsets>>

\* A creation is asked of the machine's current store.  This path expires no
\* old request.
admit_creation(m, r) ==
    /\ store[m].by # NoStore
    /\ OpenChanges(dreq) = {}
    /\ dreq' = [dreq EXCEPT ![r] = QueuedChange("create", store[m].by, 0, 0)]

\* create_spawn_request: a new agent, on an environment that is claiming.
AdmitsCreation(m) ==
    LET r == FreeSlot(Changes, dreq)
    IN  /\ ~Defined /\ ~agent.row
        /\ bridge[m] # NoStore
        /\ r # 0
        /\ admit_creation(m, r)
        /\ UNCHANGED <<hostVars, bridge, custody, told, rem, lreq, upsets>>

\* A pending request passes its time to live; requests_for (any look at the
\* queue) expires it.
RequestAges(r) ==
    /\ dreq[r].st = "pending" /\ ~dreq[r].old /\ Upset
    /\ dreq' = [dreq EXCEPT ![r].old = TRUE]
    /\ UNCHANGED <<hostVars, bridge, custody, told, rem, lreq>>
ListsChanges ==
    /\ dreq # expire_unclaimed(dreq)
    /\ dreq' = expire_unclaimed(dreq)
    /\ UNCHANGED <<hostVars, bridge, custody, told, rem, lreq, upsets>>

\* External: the host applies a request as it receives it, if its entry is
\* still at the lifetime and revision the request names, and keeps the result.
HostFits(q) == LET e == host[q.by].entry IN
    IF is_creation(q) THEN e.st = "absent" ELSE e.st # "absent" /\ e.inc = q.inc /\ e.rev = q.rev
HostApplies(r) ==
    LET q == dreq[r]
        to == IF q.kind = "remove" THEN NoEntry ELSE NextEntry(q.by)
    IN  IF told[r].st # "none" THEN UNCHANGED <<host, wire, told>>
        ELSE IF HostFits(q)
        THEN /\ HostWrites(q.by, to)
             /\ told' = [told EXCEPT ![r] = [st |-> "done", inc |-> IF to = NoEntry THEN q.inc ELSE to.inc]]
        ELSE /\ told' = [told EXCEPT ![r] = [st |-> "refused", inc |-> 0]]
             /\ UNCHANGED <<host, wire>>

\* A waiting request of the machine is settled as undeliverable or handed out,
\* again if it was claimed before.
claim(d, r, m) ==
    dreq' = [d EXCEPT ![r] = IF _undeliverable(d[r], def, store[m].by) THEN _settle_undeliverable(d[r])
                             ELSE [d[r] EXCEPT !.st = "claimed"]]

\* claim_definition_changes: at most one request is waiting (OneWaiting); the
\* answer may be lost.
ClaimsChanges(s) ==
    LET d == expire_unclaimed(dreq) IN
    \E r \in OpenChanges(d) :
        /\ Fenced(s) /\ MachineOf[d[r].by] = MachineOf[s]
        /\ claim(d, r, MachineOf[s])
        /\ \/ dreq'[r].st = "claimed" /\ d[r].by = s /\ HostApplies(r) /\ UNCHANGED upsets
           \/ dreq'[r].st = "claimed" /\ d[r].st = "pending" /\ Upset /\ UNCHANGED <<host, wire, told>>
           \/ dreq'[r].st # "claimed" /\ UNCHANGED <<host, wire, told, upsets>>
        /\ UNCHANGED <<edits, bridge, custody, rem, lreq>>

\* What the service owes once a host reports the request done.
Owed(q, t) == IF t.st # "done" THEN ""
              ELSE IF q.kind = "remove" THEN "pending"
              ELSE IF is_creation(q) THEN "spawn pending" ELSE ""

\* The result of a claimed or superseded request, as it is recorded.
report(q, t) == [q EXCEPT !.st = t.st, !.res = t.inc, !.cons = Owed(q, t)]

\* report_definition_change: a result is recorded once; the handler then
\* carries out the removal it owes (RemovalBegins).
ReportsChange(r) ==
    LET d == expire_unclaimed(dreq) IN
        /\ told[r].st # "none" /\ Fenced(d[r].by)
        /\ d[r].st \in {"claimed", "superseded"}
        /\ spawn_created([d EXCEPT ![r] = report(d[r], told[r])], def, MachineOf[d[r].by])
        /\ UNCHANGED <<hostVars, bridge, custody, told, rem, upsets>>

-----------------------------------------------------------------------------
(* Removal: stop the worker, wait, delete the row, settle the debt.         *)

settled_refusal(r) == dreq[r].cons # "pending"

\* removal_refusal: the definition is not at the removal's store and lifetime,
\* and was not withdrawn there either; a repeat of a removal done is allowed.
removal_refusal(s, inc) ==
    IF Defined THEN <<def.by, def.inc>> # <<s, inc>>
    ELSE IF agent.row THEN agent.wd # <<s, inc>> ELSE tomb = "none"

RemovalRefused(t, r) ==
    IF t = "api" THEN Defined ELSE settled_refusal(r) \/ removal_refusal(dreq[r].by, dreq[r].inc)

\* unregister_agent: the API deletes only an agent no host defines.
UndefinedAgent == IF ~Defined /\ agent.row THEN {0} ELSE {}
\* What a task sets out to remove: the report handler and the sweep a removal
\* still owed (finish_owed_removals), the API's delete an undefined agent.
RemovalWork(t) ==
    IF t = "api" THEN UndefinedAgent
    ELSE {r \in Changes : dreq[r].st = "done" /\ dreq[r].cons = "pending"}

\* _remove_agent_record, as far as this module's state goes: the row goes, a
\* tombstone stays; an absent row is left alone.
_remove_agent_record(reason) ==
    IF agent.row
    THEN /\ agent' = [row |-> FALSE, dstate |-> "", wd |-> <<NoStore, 0>>]
         /\ tomb' = reason
    ELSE UNCHANGED <<agent, tomb>>

RemovalEnds(t, r, why) ==
    rem' = [rem EXCEPT ![t] = IF t = "api" THEN Idle ELSE [req |-> r, at |-> "settle", why |-> why]]
Reason(t) == IF t = "api" THEN "delete_agent" ELSE "definition_removed"

\* remove_agent up to its first commit: the fence, then for a managed agent
\* the stop and the wait, else the delete in the same transaction.
RemovalBegins(t, r) ==
    /\ rem[t].at = "idle" /\ r \in RemovalWork(t)
    /\ \/ /\ RemovalRefused(t, r)
          /\ RemovalEnds(t, r, "kept")
          /\ UNCHANGED <<agent, tomb>>
       \/ /\ ~RemovalRefused(t, r) /\ agent.row      \* a managed agent: stop signalled
          /\ rem' = [rem EXCEPT ![t] = [req |-> r, at |-> "wait", why |-> ""]]
          /\ UNCHANGED <<agent, tomb>>
       \/ /\ ~RemovalRefused(t, r)                    \* a resident one: no stop
          /\ _remove_agent_record(Reason(t))
          /\ RemovalEnds(t, r, "removed")
    /\ UNCHANGED <<hostVars, bridge, store, retired, def, dreq, told, lreq, upsets>>

\* Mutant: the agent is removed whatever lifetime it has.
RemovalDeletesUnfenced(t) ==
    /\ rem[t].at = "wait"
    /\ _remove_agent_record(Reason(t))
    /\ RemovalEnds(t, rem[t].req, "removed")
    /\ UNCHANGED <<hostVars, bridge, store, retired, def, dreq, told, lreq, upsets>>

\* remove_agent after the wait: the fence is asked again where the row goes.
RemovalDeletes(t) ==
    /\ rem[t].at = "wait"
    /\ \/ /\ RemovalRefused(t, rem[t].req)
          /\ RemovalEnds(t, rem[t].req, "kept")
          /\ UNCHANGED <<agent, tomb>>
       \/ /\ ~RemovalRefused(t, rem[t].req)
          /\ _remove_agent_record(Reason(t))
          /\ RemovalEnds(t, rem[t].req, "removed")
    /\ UNCHANGED <<hostVars, bridge, store, retired, def, dreq, told, lreq, upsets>>

settle_removal(r, why) == IF dreq[r].cons = "pending" THEN [dreq EXCEPT ![r].cons = why] ELSE dreq

\* The end of finish_removal, in a transaction of its own.
RemovalSettles(t) ==
    /\ rem[t].at = "settle"
    /\ rem' = [rem EXCEPT ![t] = Idle]
    /\ dreq' = settle_removal(rem[t].req, rem[t].why)
    /\ UNCHANGED <<hostVars, bridge, custody, told, lreq, upsets>>

\* The service restarts: tasks are lost, the tables stay.
ServiceRestarts ==
    /\ Upset
    /\ rem' = [t \in RemovalTasks |-> Idle]
    /\ UNCHANGED <<hostVars, bridge, custody, dreq, told, lreq>>

-----------------------------------------------------------------------------
\* Any hosts may be installed, with nothing defined yet; part of the bounds
\* may be used up already.
DefInit ==
    /\ host \in [Stores -> {NoHost, EmptyHost}]
    /\ edits \in 0 .. MaxEdits
    /\ wire = {Snapshot(s, host[s]) : s \in {x \in Stores : host[x].rev > 0}}
    /\ bridge = [m \in Machines |-> NoStore]
    /\ store = [m \in Machines |-> [by |-> NoStore, rev |-> 0, entry |-> NoEntry]]
    /\ retired = [m \in Machines |-> {}]
    /\ def = NoDef
    /\ agent = [row |-> FALSE, dstate |-> "", wd |-> <<NoStore, 0>>]
    /\ tomb = "none"
    /\ dreq \in [Changes -> {Free, Spent}]
    /\ told = [r \in Changes |-> [st |-> "none", inc |-> 0]]
    /\ rem = [t \in RemovalTasks |-> Idle]
    /\ lreq \in [LifeRequests -> {LifeFree, LifeSpent}]
    /\ upsets \in 0 .. MaxUpsets

DefNext ==
    \/ \E s \in Stores : HostEdits(s) \/ Beats(s) \/ ClaimsChanges(s)
    \/ \E p \in wire : PushArrives(p)
    \/ \E m \in Machines : ResetsStore(m) \/ AdmitsCreation(m)
    \/ \E kind \in {"edit", "remove"} : AdmitsChange(kind)
    \/ \E r \in Changes : RequestAges(r) \/ ReportsChange(r)
    \/ \E t \in RemovalTasks, r \in Changes \cup {0} : RemovalBegins(t, r)
    \/ \E t \in RemovalTasks : RemovalDeletes(t) \/ RemovalSettles(t)
    \/ ReleasesDefinition \/ ListsChanges
=============================================================================
