-------------------------- MODULE SessionHandles ---------------------------
(***************************************************************************)
(* Which agent a native session belongs to.  A session id reaches an       *)
(* agent's row by registration, by a bridge's report, by an operator who   *)
(* sets it, by the confirmation of an id that was parked, by a runtime     *)
(* state report and by a switch to resident that adopts the parked CLI.    *)
(* The first four look for a live agent that already holds the id; the     *)
(* last two do not, and `leaked` records that one of them, or a report     *)
(* whose check was overtaken, put an id on a second agent.                 *)
(***************************************************************************)
EXTENDS Naturals

CONSTANTS Agents, SessionIds, MaxSilent

ASSUME SessionHandlesAssumption ==
    /\ SessionIds \subseteq Nat \ {0}
    /\ MaxSilent \in Nat

VARIABLES
    sess,       \* per agent: session_handle, pending_session_id, the handle of the parked resident candidate
    present,    \* the agents whose process has registered and runs
    patch,      \* per agent: a session-handle request between its check and its write
    leaked,     \* an id was written that another live agent already held
    silent      \* how often a live agent was read as silent

handleVars == <<sess, present, patch, leaked, silent>>

NoPatch == [k |-> "none", h |-> 0]

HandlesTypeOK ==
    /\ sess \in [Agents -> [hd : {0} \cup SessionIds, pend : {0} \cup SessionIds, cand : {0} \cup SessionIds]]
    /\ present \subseteq Agents
    /\ patch \in [Agents -> [k : {"none", "set", "park"}, h : {0} \cup SessionIds]]
    /\ leaked \in BOOLEAN
    /\ silent \in 0 .. MaxSilent

Holders(a, h) == {o \in Agents \ {a} : h # 0 /\ sess[o].hd = h}

\* Reading the agents of q as silent costs nothing when their processes are gone.
SilentRead(q) ==
    LET n == IF q \cap present = {} THEN 0 ELSE 1
    IN  /\ silent + n <= MaxSilent
        /\ silent' = silent + n

\* Mutant: nobody looks for another holder.
NeverOwned(a, h, q) == FALSE

\* Another agent holds the id and was seen within the lease.
_session_handle_live_owner(a, h, q) == Holders(a, h) \ q # {}

----------------------------------------------------------------------------

\* A registration replaces the handle; a handle another live agent holds is parked instead.
registration_handle_owner(a, h, q) ==
    /\ SilentRead(q)
    /\ sess' = [sess EXCEPT ![a] = IF _session_handle_live_owner(a, h, q)
                                   THEN [@ EXCEPT !.hd = 0, !.pend = h] ELSE [@ EXCEPT !.hd = h]]
    /\ present' = present \cup {a}
    /\ UNCHANGED <<patch, leaked>>

\* A CLI of a managed agent is parked with its handle; the agent's own handle stays.
park_registration_handle_collision(a, h, q) ==
    /\ SilentRead(q)
    /\ sess' = [sess EXCEPT ![a] = IF _session_handle_live_owner(a, h, q)
                                   THEN [@ EXCEPT !.cand = 0, !.pend = h] ELSE [@ EXCEPT !.cand = h]]
    /\ UNCHANGED <<present, patch, leaked>>

\* Whether a report is parked: the id is not to be confirmed by itself, or its console was started anew.
_detect_fresh_start_terminal(a, h, fresh) == fresh /\ h # 0 /\ sess[a].hd \notin {0, h}

\* update_agent_session_handle, its checks.
update_agent_session_handle(a, h, fresh, q) ==
    /\ patch[a].k = "none"
    /\ SilentRead(q)
    /\ patch' = [patch EXCEPT ![a] =
            IF \/ h # sess[a].hd /\ _session_handle_live_owner(a, h, q)
               \/ _detect_fresh_start_terminal(a, h, fresh)
            THEN [k |-> "park", h |-> h] ELSE [k |-> "set", h |-> h]]
    /\ UNCHANGED <<sess, present, leaked>>

\* _park_pending_session_handle_change, _refuse_colliding_session_handle.
_park_pending_session_handle_change(a) ==
    /\ patch[a].k = "park"
    /\ sess' = [sess EXCEPT ![a].pend = patch[a].h]
    /\ patch' = [patch EXCEPT ![a] = NoPatch]
    /\ UNCHANGED <<present, leaked, silent>>

\* The checks' answer is a warning by now; the write follows whatever it is.
_mirror_handle_onto_live_session(a) ==
    /\ patch[a].k = "set"
    /\ sess' = [sess EXCEPT ![a].hd = patch[a].h, ![a].pend = 0]
    /\ leaked' = (leaked \/ Holders(a, patch[a].h) # {})
    /\ patch' = [patch EXCEPT ![a] = NoPatch]
    /\ UNCHANGED <<present, silent>>

confirm_agent_session(a, q) ==
    /\ sess[a].pend # 0
    /\ ~_session_handle_live_owner(a, sess[a].pend, q)
    /\ SilentRead(q)
    /\ sess' = [sess EXCEPT ![a].hd = sess[a].pend, ![a].pend = 0]
    /\ UNCHANGED <<present, patch, leaked>>

keep_agent_session(a) ==
    /\ sess[a].pend # 0
    /\ sess' = [sess EXCEPT ![a].pend = 0]
    /\ UNCHANGED <<present, patch, leaked, silent>>

\* A runtime state report carries its handle into the row.
update_agent_runtime_state(a, h) ==
    /\ a \in present
    /\ sess' = [sess EXCEPT ![a].hd = h]
    /\ leaked' = (leaked \/ Holders(a, h) # {})
    /\ UNCHANGED <<present, patch, silent>>

\* A switch to resident adopts the parked CLI's handle.
AdoptCandidate(a) ==
    /\ sess[a].cand # 0
    /\ sess' = [sess EXCEPT ![a].hd = sess[a].cand]
    /\ leaked' = (leaked \/ Holders(a, sess[a].cand) # {})
    /\ present' = present \cup {a}
    /\ UNCHANGED <<patch, silent>>

Leaves(a) ==
    /\ a \in present
    /\ present' = present \ {a}
    /\ UNCHANGED <<sess, patch, leaked, silent>>

----------------------------------------------------------------------------

HandlesInit ==
    /\ sess = [a \in Agents |-> [hd |-> 0, pend |-> 0, cand |-> 0]]
    /\ present = {}
    /\ patch = [a \in Agents |-> NoPatch]
    /\ leaked = FALSE
    /\ silent = 0

HandlesNext ==
    \E a \in Agents :
        \/ \E h \in {0} \cup SessionIds : \E q \in SUBSET Holders(a, h) :
              \/ registration_handle_owner(a, h, q)
              \/ park_registration_handle_collision(a, h, q)
              \/ \E fresh \in BOOLEAN : update_agent_session_handle(a, h, fresh, q)
        \/ _park_pending_session_handle_change(a)
        \/ _mirror_handle_onto_live_session(a)
        \/ \E q \in SUBSET Holders(a, sess[a].pend) : confirm_agent_session(a, q)
        \/ keep_agent_session(a)
        \/ \E h \in SessionIds : update_agent_runtime_state(a, h)
        \/ AdoptCandidate(a)
        \/ Leaves(a)

HandlesSpec == HandlesInit /\ [][HandlesNext]_handleVars

\* Two running agents share a session id only after a live one was read as silent, or after an id was written
\* by one of the paths that do not look for its holder: "Two live agents must not share one session id".
SessionNotShared ==
    (silent = 0 /\ ~leaked) =>
        \A a, b \in present : (a # b /\ sess[a].hd # 0) => sess[a].hd # sess[b].hd

=============================================================================
