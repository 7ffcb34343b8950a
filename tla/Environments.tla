---------------------------- MODULE Environments ---------------------------
(***************************************************************************)
(* One environment row and the bridges that claim it.  A host may run a    *)
(* bridge of the host tier (aify-env) beside bridges an older install left *)
(* behind; each beats with its start time, and the row goes to one of      *)
(* them.  Operators stop and forget the environment and edit its roots; the*)
(* bridge that lost the row is told to stop through a control it polls     *)
(* for.  A managed agent is bound to the environment and records which     *)
(* bridge runs it.                                                         *)
(*                                                                         *)
(* Time: a bridge's start, a request and a forget are stamped with `now`,  *)
(* which moves with every launch.  Reading a live bridge as silent uses    *)
(* one of MaxQuiet.                                                        *)
(***************************************************************************)
EXTENDS Naturals, Sequences

CONSTANTS Launches, HostTier, MaxControls, MaxQuiet, MaxRootEdits

ASSUME EnvironmentsAssumption ==
    /\ Launches \in Nat \ {0}
    /\ HostTier \subseteq 1 .. Launches
    /\ MaxControls \in Nat /\ MaxQuiet \in Nat /\ MaxRootEdits \in Nat

EnvBridge == 1 .. Launches

VARIABLES
    env,        \* the environments row
    now,        \* how many bridges were launched; a bridge's number is its start time
    up,         \* the bridges that run
    controls,   \* environment_controls, oldest first
    poll,       \* a claim between its reads and its write
    edit,       \* a roots request between its read and its write: the metadata it read
    edited,     \* how many roots requests were made; MaxRootEdits + 1 once one replaced newer metadata
    forgot,     \* `now` when the environment was last forgotten
    bound,      \* a managed agent: the environment of its sessions, its spawn spec, its open request, its bridge
    quiet

envVars == <<env, now, up, controls, poll, edit, edited, forgot, bound, quiet>>

NoPoll == [b |-> 0, k |-> 0, void |-> FALSE, late |-> FALSE]
NoEdit == [on |-> FALSE, start |-> 0, tier |-> FALSE, gone |-> 0]

ControlRow == [to : 0 .. Launches, by : 0 .. Launches, server : BOOLEAN, at : 0 .. Launches, late : BOOLEAN,
               st : {"pending", "claimed", "over"}]

EnvTypeOK ==
    /\ env \in [st : {"none", "online", "offline", "disabled", "forgotten"}, own : 0 .. Launches, start : 0 .. Launches,
                tier : BOOLEAN, gone : 0 .. Launches]
    /\ now \in 0 .. Launches /\ forgot \in 0 .. Launches
    /\ up \subseteq 1 .. now
    /\ controls \in Seq(ControlRow)
    /\ poll \in [b : 0 .. Launches, k : 0 .. MaxControls, void : BOOLEAN, late : BOOLEAN]
    /\ edit \in [on : BOOLEAN, start : 0 .. Launches, tier : BOOLEAN, gone : 0 .. Launches]
    /\ edited \in 0 .. MaxRootEdits + 1
    /\ bound \in [sess : 0 .. 2, spec : 0 .. 2, req : 0 .. 2, own : 0 .. Launches]
    /\ quiet \in 0 .. MaxQuiet
    \* The row names a bridge that was launched, or nobody; the table stays within its bound.
    /\ env.own <= now /\ forgot <= now /\ Len(controls) <= MaxControls

Quiet(b, q) ==
    LET n == IF q /\ b \in up THEN 1 ELSE 0
    IN  /\ quiet + n <= MaxQuiet
        /\ quiet' = quiet + n

----------------------------------------------------------------------------
(***************************************************************************)
(* Heartbeats.                                                             *)
(***************************************************************************)

\* Mutant: any bridge that beats brings a forgotten row back.
RelaunchedAlways(b) == TRUE

\* A forgotten row comes back only for a bridge that started after it was forgotten.
Relaunched(b) == env.st = "forgotten" => (b # 0 /\ b > env.gone)

_environment_has_live_bridge(q) == ~q

\* Whether b may hold the row: its own row or nobody's; the host tier outranks the others; a live
\* incumbent that started later keeps it; only an online beat takes it.
arbitrate_claim(b, s, q) ==
    \/ b \in {0, env.own} \/ env.own = 0
    \/ /\ s = "online"
       /\ ~(env.tier /\ b \notin HostTier)
       /\ \/ b \in HostTier /\ ~env.tier
          \/ ~(_environment_has_live_bridge(q) /\ env.start # 0 /\ b < env.start)

\* The bridge that loses the row.
Superseded(b) ==
    IF b \notin {0, env.own} /\ env.own # 0 THEN env.own ELSE 0

\* What a bridge tells of itself (no bridge's clock is ahead of the service's).
from_request(b) == [start |-> b, tier |-> b \in HostTier]

\* A beat without a bridge describes the host and keeps what the bridge told.
merge_with_stored(b) ==
    IF b = 0 THEN [start |-> env.start, tier |-> env.tier] ELSE from_request(b)

_record_environment_registration(b, s) ==
    LET m == merge_with_stored(b)
    IN  env' = [env EXCEPT !.st = s, !.own = IF b = 0 THEN @ ELSE b, !.start = m.start, !.tier = m.tier, !.gone = 0]

NewControl(b, server) ==
    [to |-> b, by |-> 0, server |-> server, at |-> now, late |-> FALSE, st |-> "pending"]

\* A control that failed, was carried out or was deleted: nothing asks which.
Over == [to |-> 0, by |-> 0, server |-> FALSE, at |-> 0, late |-> FALSE, st |-> "over"]

\* Stops nobody claimed for a while are drained, then one is queued unless that bridge has one.
_queue_stop_for_superseded_bridge(old, drain) ==
    LET kept == [k \in DOMAIN controls |->
                    IF k \in drain /\ controls[k].server /\ controls[k].st = "pending"
                    THEN Over ELSE controls[k]]
    IN  IF old = 0 THEN controls
        ELSE IF \E k \in DOMAIN kept : kept[k].to = old /\ kept[k].st \in {"pending", "claimed"} THEN kept
        ELSE Append(kept, NewControl(old, TRUE))

record_environment_heartbeat(b, s, q, drain) ==
    /\ b = 0 \/ (b \in up /\ \A k \in DOMAIN controls : controls[k].st = "claimed" => controls[k].by # b)
    /\ Relaunched(b)
    /\ arbitrate_claim(b, s, q)
    /\ Quiet(env.own, q)
    /\ LET old == Superseded(b)
       IN  /\ old = 0 => drain = {} /\ ~q
           /\ controls' = _queue_stop_for_superseded_bridge(old, drain)
           /\ Len(controls') <= MaxControls
    /\ _record_environment_registration(b, s)
    /\ poll' = [poll EXCEPT !.late = @ \/ (b # 0 /\ poll.b = b)]
    /\ UNCHANGED <<now, up, edit, edited, forgot, bound>>

----------------------------------------------------------------------------
(***************************************************************************)
(* Operators.                                                              *)
(***************************************************************************)

\* A stop for whoever holds the row; the row is disabled until the next beat.
control_environment ==
    /\ env.st \notin {"none"} /\ Len(controls) < MaxControls
    /\ controls' = Append(controls, NewControl(env.own, FALSE))
    /\ env' = [env EXCEPT !.st = "disabled"]
    /\ UNCHANGED <<now, up, poll, edit, edited, forgot, bound, quiet>>

\* Forgetting deletes the environment's controls; the metadata stays, with the time.
ForgetEnvironment ==
    /\ env.st # "none"
    /\ controls' = [k \in DOMAIN controls |-> Over]
    /\ env' = [env EXCEPT !.st = "forgotten", !.own = 0, !.gone = now]
    /\ forgot' = now
    /\ UNCHANGED <<now, up, poll, edit, edited, bound, quiet>>

\* update_environment_roots, its read.
update_environment_roots ==
    /\ env.st # "none" /\ ~edit.on /\ edited < MaxRootEdits
    /\ edit' = [on |-> TRUE, start |-> env.start, tier |-> env.tier, gone |-> env.gone]
    /\ edited' = edited + 1
    /\ UNCHANGED <<env, now, up, controls, poll, forgot, bound, quiet>>

\* Its write puts the metadata it read back, whatever a beat or a forget stored since.
RootsWritten ==
    /\ edit.on
    /\ env' = [env EXCEPT !.start = edit.start, !.tier = edit.tier, !.gone = edit.gone]
    /\ edited' = IF <<env.start, env.tier, env.gone>> = <<edit.start, edit.tier, edit.gone>> THEN edited ELSE MaxRootEdits + 1
    /\ edit' = NoEdit
    /\ UNCHANGED <<now, up, controls, poll, forgot, bound, quiet>>

----------------------------------------------------------------------------
(***************************************************************************)
(* Controls.                                                               *)
(***************************************************************************)

\* Mutant: the holder obeys whatever stop names it.
StaleStopNever(b, k) == FALSE

\* A stop the current holder must not obey: it was made by supersession, or before the holder started.
StaleStop(b, k) == env.own = b /\ (controls[k].server \/ controls[k].at < env.start)

\* _claim_environment_control_once, its reads: the oldest pending control that names b or nobody.
_claim_environment_control_once(b) ==
    /\ b \in up /\ poll = NoPoll
    /\ \E k \in DOMAIN controls :
        /\ controls[k].st = "pending" /\ controls[k].to \in {0, b}
        /\ \A j \in 1 .. k - 1 : ~(controls[j].st = "pending" /\ controls[j].to \in {0, b})
        /\ poll' = [b |-> b, k |-> k, void |-> StaleStop(b, k), late |-> FALSE]
    /\ UNCHANGED <<env, now, up, controls, edit, edited, forgot, bound, quiet>>

\* Its write, of a control that is still pending.
ControlClaimed ==
    /\ poll # NoPoll
    /\ controls' = IF controls[poll.k].st = "pending"
                   THEN [controls EXCEPT ![poll.k] = IF poll.void THEN Over
                                                      ELSE [@ EXCEPT !.st = "claimed", !.by = poll.b, !.late = poll.late]]
                   ELSE controls
    /\ poll' = NoPoll
    /\ UNCHANGED <<env, now, up, edit, edited, forgot, bound, quiet>>

\* The bridge obeys the stop it claimed and reports it.
update_environment_control(b) ==
    /\ \E k \in DOMAIN controls :
        /\ controls[k].st = "claimed" /\ controls[k].by = b /\ b \in up
        /\ controls' = [controls EXCEPT ![k] = Over]
    /\ up' = up \ {b}
    /\ UNCHANGED <<env, now, poll, edit, edited, forgot, bound, quiet>>

\* The service restarts: controls for a bridge that does not hold the row fail, requests in flight are lost.
_reconcile_terminal_controls ==
    /\ controls' = [k \in DOMAIN controls |->
                        IF controls[k].to # env.own \/ env.st # "online" THEN Over ELSE controls[k]]
    /\ poll' = NoPoll
    /\ edit' = NoEdit
    /\ UNCHANGED <<env, now, up, edited, forgot, bound, quiet>>

----------------------------------------------------------------------------
(***************************************************************************)
(* A managed agent.                                                        *)
(***************************************************************************)

_upsert_spawn_spec_for_assignment(e) == [bound EXCEPT !.spec = e]

\* Sessions, spawn spec and the open spawn request all move, and the recorded bridge is cleared (a request that would
\* change nothing is answered without a write).
assign_agent_environment(e) ==
    /\ e = 1 => env.st = "online"
    /\ bound' = [_upsert_spawn_spec_for_assignment(e) EXCEPT !.sess = e, !.own = 0, !.req = IF @ = 0 THEN 0 ELSE e]
    /\ UNCHANGED <<env, now, up, controls, poll, edit, edited, forgot, quiet>>

\* A start is requested where the spawn spec says.
RequestStart ==
    /\ bound.spec # 0 /\ bound.req = 0
    /\ bound' = [bound EXCEPT !.req = bound.spec]
    /\ UNCHANGED <<env, now, up, controls, poll, edit, edited, forgot, quiet>>

RequestSettles ==
    /\ bound.req # 0
    /\ bound' = [bound EXCEPT !.req = 0]
    /\ UNCHANGED <<env, now, up, controls, poll, edit, edited, forgot, quiet>>

environment_effective_status(q) == IF q /\ env.st = "online" THEN "offline" ELSE env.st

live_environment_bridge_ids(q) == IF environment_effective_status(q) = "online" THEN {env.own} \ {0} ELSE {}

\* A bridge reports the agent's runtime state: the recorded bridge moves to one that holds the row.
patched_owner_bridge_id(b, q) ==
    IF bound.own \in {0, b} \/ b \in live_environment_bridge_ids(q) THEN b ELSE bound.own

ReportRuntimeState(b, q) ==
    /\ b \in up
    /\ q => (env.own \notin up)
    /\ bound' = [bound EXCEPT !.own = patched_owner_bridge_id(b, q)]
    /\ UNCHANGED <<env, now, up, controls, poll, edit, edited, forgot, quiet>>

----------------------------------------------------------------------------

LaunchBridge ==
    /\ now < Launches
    /\ now' = now + 1
    /\ up' = up \cup {now + 1}
    /\ UNCHANGED <<env, controls, poll, edit, edited, forgot, bound, quiet>>

BridgeDies(b) ==
    /\ b \in up
    /\ up' = up \ {b}
    /\ UNCHANGED <<env, now, controls, poll, edit, edited, forgot, bound, quiet>>

EnvInit ==
    /\ env = [st |-> "none", own |-> 0, start |-> 0, tier |-> FALSE, gone |-> 0]
    /\ now = 0
    /\ up = {}
    /\ controls = <<>>
    /\ poll = NoPoll
    /\ edit = NoEdit
    /\ edited = 0
    /\ forgot = 0
    /\ bound = [sess |-> 0, spec |-> 0, req |-> 0, own |-> 0]
    /\ quiet = 0

EnvBeats ==
    \E b \in 0 .. Launches, s \in {"online", "offline"}, q \in BOOLEAN : \E drain \in {{}, DOMAIN controls} :
        record_environment_heartbeat(b, s, q, drain)

EnvOperators ==
    \/ control_environment
    \/ ForgetEnvironment
    \/ update_environment_roots
    \/ RootsWritten
    \/ _reconcile_terminal_controls

EnvControls ==
    \/ \E b \in EnvBridge : _claim_environment_control_once(b)
    \/ ControlClaimed
    \/ \E b \in EnvBridge : update_environment_control(b)

EnvAgent ==
    \/ \E e \in {1, 2} : assign_agent_environment(e)
    \/ RequestStart
    \/ RequestSettles
    \/ \E b \in EnvBridge, q \in BOOLEAN : ReportRuntimeState(b, q)

EnvNext ==
    \/ EnvBeats \/ EnvOperators \/ EnvControls \/ EnvAgent
    \/ LaunchBridge
    \/ \E b \in EnvBridge : BridgeDies(b)

EnvSpec == EnvInit /\ [][EnvNext]_envVars

----------------------------------------------------------------------------

\* No roots request wrote metadata over what a beat or a forget had stored meanwhile.
MetadataKept == edited <= MaxRootEdits

\* The bridge that holds the row is never handed a stop that a takeover queued for it earlier, or that an operator
\* made before it started, unless its own beat took the row while its poll was between reading and claiming.
OwnerNotStopped ==
    MetadataKept => \A k \in DOMAIN controls :
        LET c == controls[k]
        IN  (c.st = "claimed" /\ (c.server \/ c.at < c.by) /\ ~c.late) => env.own # c.by

\* A forgotten environment comes back only for a bridge that was launched after it was forgotten, whatever the bridges
\* that were running then, a description of the host, a roots request or a restart of the service does.  (An operator
\* who stops a forgotten environment makes it a disabled one.)
ForgottenStays ==
    [][(MetadataKept /\ env.st = "forgotten" /\ env'.st \notin {"forgotten", "disabled"}) => env'.own > forgot]_envVars

\* What the row stores about its bridge, and the next claim is judged by, is about the bridge that holds it.
RowDescribesOwner ==
    (MetadataKept /\ env.own # 0) => (env.start = env.own /\ env.tier = (env.own \in HostTier))

\* A running bridge that was not read as silent loses the row only to one that started later, or as a legacy bridge to
\* the host tier; the host tier loses it only to the host tier.
LiveHolderKept ==
    [][(/\ MetadataKept /\ quiet' = quiet /\ env.own \in up /\ env'.own \notin {0, env.own})
       => (IF env.own \in HostTier THEN env'.own \in HostTier /\ env'.own > env.own
           ELSE env'.own \in HostTier \/ env'.own > env.own)]_envVars

\* An agent's sessions, its spawn spec and the start that is still open name one environment.
BoundTogether == bound.spec = bound.sess /\ bound.req \in {0, bound.sess}

=============================================================================
