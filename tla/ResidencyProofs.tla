-------------------------- MODULE ResidencyProofs --------------------------
(***************************************************************************)
(* Who holds a native session, and which process drives an agent.          *)
(*                                                                         *)
(* SessionHandles, for any agents, session ids and number of misreadings:  *)
(* SessionNotShared is inductive together with the typing, because the     *)
(* paths that look for a holder write an id only when every holder is      *)
(* down, and an agent comes up only by a path that writes its own id.      *)
(*                                                                         *)
(* Bridges, for any number of CLIs, consoles and upsets: LiveNotRobbed     *)
(* follows from DriverInv, which relates the owner of an agent, the rows   *)
(* of its bridges and what a handler has read while nothing alive was      *)
(* taken for silent.                                                       *)
(***************************************************************************)
EXTENDS SessionHandles, Bridges, TLAPS

HandlesInv == HandlesTypeOK /\ SessionNotShared

(* Agent a is given the id h, and nobody that runs holds it.               *)
GivenAlone(a, h) ==
    /\ \A o \in Agents \ {a} : sess'[o].hd = sess[o].hd
    /\ sess'[a].hd = h
    /\ present' \subseteq present \cup {a}
    /\ silent' = 0 => silent = 0
    /\ leaked => leaked'
    /\ (silent' = 0 /\ ~leaked') => (h = 0 \/ \A o \in present \ {a} : sess[o].hd # h)

(* Such a step keeps two running agents apart.                             *)
LEMMA GivenAloneKeeps ==
    ASSUME HandlesInv, NEW a \in Agents, NEW h \in {0} \cup SessionIds, GivenAlone(a, h)
    PROVE  SessionNotShared'
BY DEF HandlesInv, HandlesTypeOK, SessionNotShared, GivenAlone

(* A step that moves no id and starts no agent does too.                   *)
LEMMA NothingGivenKeeps ==
    ASSUME HandlesInv, \A o \in Agents : sess'[o].hd = sess[o].hd, present' \subseteq present,
           silent' = 0 => silent = 0, leaked' = leaked
    PROVE  SessionNotShared'
BY DEF HandlesInv, HandlesTypeOK, SessionNotShared

(* Reading agents as silent counts only those that run.                    *)
LEMMA SilentReads ==
    ASSUME HandlesTypeOK, NEW q, SilentRead(q)
    PROVE  /\ silent' \in 0 .. MaxSilent
           /\ silent' = 0 => silent = 0 /\ q \cap present = {}
BY SessionHandlesAssumption DEF HandlesTypeOK, SilentRead

(* No live holder was found and nobody was misread: the holders are down.  *)
LEMMA NotOwned ==
    ASSUME HandlesTypeOK, NEW a \in Agents, NEW h \in {0} \cup SessionIds, NEW q, q \cap present = {},
           ~_session_handle_live_owner(a, h, q)
    PROVE  h = 0 \/ \A o \in present \ {a} : sess[o].hd # h
BY DEF HandlesTypeOK, _session_handle_live_owner, Holders

(* The state stays well-typed.                                             *)
LEMMA HandlesTyped == HandlesTypeOK /\ [HandlesNext]_handleVars => HandlesTypeOK'
<1> SUFFICES ASSUME HandlesTypeOK, [HandlesNext]_handleVars PROVE HandlesTypeOK'
  OBVIOUS
<1> USE SessionHandlesAssumption DEF HandlesTypeOK
<1>1. ASSUME NEW a \in Agents, NEW h \in {0} \cup SessionIds, NEW q \in SUBSET Holders(a, h), registration_handle_owner(a, h, q)
      PROVE  HandlesTypeOK'
  <2> DEFINE row == IF _session_handle_live_owner(a, h, q) THEN [sess[a] EXCEPT !.hd = 0, !.pend = h]
                    ELSE [sess[a] EXCEPT !.hd = h]
  <2>1. sess[a] \in [hd : {0} \cup SessionIds, pend : {0} \cup SessionIds, cand : {0} \cup SessionIds]
    OBVIOUS
  <2>2. row \in [hd : {0} \cup SessionIds, pend : {0} \cup SessionIds, cand : {0} \cup SessionIds]
    BY <2>1
  <2>3. sess' = [sess EXCEPT ![a] = row] /\ present' = present \cup {a} /\ SilentRead(q) /\ UNCHANGED <<patch, leaked>>
    BY <1>1 DEF registration_handle_owner
  <2> HIDE DEF row
  <2> QED
    BY <2>2, <2>3, SilentReads
<1>2. ASSUME NEW a \in Agents, NEW h \in {0} \cup SessionIds, NEW q \in SUBSET Holders(a, h), park_registration_handle_collision(a, h, q)
      PROVE  HandlesTypeOK'
  BY <1>2, SilentReads DEF park_registration_handle_collision
<1>3. ASSUME NEW a \in Agents, NEW h \in {0} \cup SessionIds, NEW q \in SUBSET Holders(a, h), NEW fresh \in BOOLEAN,
             update_agent_session_handle(a, h, fresh, q)
      PROVE  HandlesTypeOK'
  BY <1>3, SilentReads DEF update_agent_session_handle
<1>4. ASSUME NEW a \in Agents, _park_pending_session_handle_change(a) PROVE HandlesTypeOK'
  BY <1>4 DEF _park_pending_session_handle_change, NoPatch
<1>5. ASSUME NEW a \in Agents, _mirror_handle_onto_live_session(a) PROVE HandlesTypeOK'
  BY <1>5 DEF _mirror_handle_onto_live_session, NoPatch
<1>6. ASSUME NEW a \in Agents, NEW q \in SUBSET Holders(a, sess[a].pend), confirm_agent_session(a, q) PROVE HandlesTypeOK'
  BY <1>6, SilentReads DEF confirm_agent_session
<1>7. ASSUME NEW a \in Agents, keep_agent_session(a) PROVE HandlesTypeOK'
  BY <1>7 DEF keep_agent_session
<1>8. ASSUME NEW a \in Agents, NEW h \in SessionIds, update_agent_runtime_state(a, h) PROVE HandlesTypeOK'
  BY <1>8 DEF update_agent_runtime_state
<1>9. ASSUME NEW a \in Agents, AdoptCandidate(a) PROVE HandlesTypeOK'
  BY <1>9 DEF AdoptCandidate
<1>10. ASSUME NEW a \in Agents, Leaves(a) PROVE HandlesTypeOK'
  BY <1>10 DEF Leaves
<1>11. CASE UNCHANGED handleVars
  BY <1>11 DEF handleVars
<1> QED
  BY <1>1, <1>2, <1>3, <1>4, <1>5, <1>6, <1>7, <1>8, <1>9, <1>10, <1>11 DEF HandlesNext

(* Every path by which an id reaches a row keeps two running agents apart. *)
LEMMA HandlesStep == HandlesInv /\ [HandlesNext]_handleVars => SessionNotShared'
<1> SUFFICES ASSUME HandlesInv, [HandlesNext]_handleVars PROVE SessionNotShared'
  OBVIOUS
<1> USE DEF HandlesInv
<1>1. ASSUME NEW a \in Agents, NEW h \in {0} \cup SessionIds, NEW q \in SUBSET Holders(a, h), registration_handle_owner(a, h, q)
      PROVE  SessionNotShared'
  <2>1. CASE _session_handle_live_owner(a, h, q)
    <3>1. GivenAlone(a, 0)
      BY <1>1, <2>1, SilentReads DEF HandlesTypeOK, registration_handle_owner, GivenAlone
    <3> QED BY <3>1, GivenAloneKeeps
  <2>2. CASE ~_session_handle_live_owner(a, h, q)
    <3>1. GivenAlone(a, h)
      BY <1>1, <2>2, SilentReads, NotOwned DEF HandlesTypeOK, registration_handle_owner, GivenAlone
    <3> QED BY <3>1, GivenAloneKeeps
  <2> QED BY <2>1, <2>2
<1>2. ASSUME NEW a \in Agents, NEW h \in {0} \cup SessionIds, NEW q \in SUBSET Holders(a, h), park_registration_handle_collision(a, h, q)
      PROVE  SessionNotShared'
  BY <1>2, SilentReads, NothingGivenKeeps DEF HandlesTypeOK, park_registration_handle_collision
<1>3. ASSUME NEW a \in Agents, NEW h \in {0} \cup SessionIds, NEW q \in SUBSET Holders(a, h), NEW fresh \in BOOLEAN,
             update_agent_session_handle(a, h, fresh, q)
      PROVE  SessionNotShared'
  BY <1>3, SilentReads, NothingGivenKeeps DEF update_agent_session_handle
<1>4. ASSUME NEW a \in Agents, _park_pending_session_handle_change(a) PROVE SessionNotShared'
  BY <1>4, NothingGivenKeeps DEF HandlesTypeOK, _park_pending_session_handle_change
<1>5. ASSUME NEW a \in Agents, _mirror_handle_onto_live_session(a) PROVE SessionNotShared'
  <2>1. GivenAlone(a, patch[a].h)
    BY <1>5 DEF HandlesTypeOK, _mirror_handle_onto_live_session, GivenAlone, Holders
  <2> QED BY <2>1, GivenAloneKeeps DEF HandlesTypeOK
<1>6. ASSUME NEW a \in Agents, NEW q \in SUBSET Holders(a, sess[a].pend), confirm_agent_session(a, q) PROVE SessionNotShared'
  <2>1. GivenAlone(a, sess[a].pend)
    BY <1>6, SilentReads, NotOwned DEF HandlesTypeOK, confirm_agent_session, GivenAlone
  <2> QED BY <2>1, GivenAloneKeeps DEF HandlesTypeOK
<1>7. ASSUME NEW a \in Agents, keep_agent_session(a) PROVE SessionNotShared'
  BY <1>7, NothingGivenKeeps DEF HandlesTypeOK, keep_agent_session
<1>8. ASSUME NEW a \in Agents, NEW h \in SessionIds, update_agent_runtime_state(a, h) PROVE SessionNotShared'
  <2>1. GivenAlone(a, h)
    BY <1>8 DEF HandlesTypeOK, update_agent_runtime_state, GivenAlone, Holders
  <2> QED BY <2>1, GivenAloneKeeps
<1>9. ASSUME NEW a \in Agents, AdoptCandidate(a) PROVE SessionNotShared'
  <2>1. GivenAlone(a, sess[a].cand)
    BY <1>9 DEF HandlesTypeOK, AdoptCandidate, GivenAlone, Holders
  <2> QED BY <2>1, GivenAloneKeeps DEF HandlesTypeOK
<1>10. ASSUME NEW a \in Agents, Leaves(a) PROVE SessionNotShared'
  BY <1>10, NothingGivenKeeps DEF Leaves
<1>11. CASE UNCHANGED handleVars
  BY <1>11, NothingGivenKeeps DEF handleVars
<1> QED
  BY <1>1, <1>2, <1>3, <1>4, <1>5, <1>6, <1>7, <1>8, <1>9, <1>10, <1>11 DEF HandlesNext

(* Two running agents share a session id only after a live one was misread *)
(* or an unchecked path wrote it, for any number of agents and ids         *)
(* (update_agent_session_handle, confirm_agent_session, registration).     *)
THEOREM SessionsAreNotShared == HandlesSpec => []SessionNotShared
<1>1. HandlesInit => HandlesInv
  <2> SUFFICES ASSUME HandlesInit PROVE HandlesInv
    OBVIOUS
  <2>1. sess \in [Agents -> [hd : {0} \cup SessionIds, pend : {0} \cup SessionIds, cand : {0} \cup SessionIds]]
    BY DEF HandlesInit
  <2>2. patch \in [Agents -> [k : {"none", "set", "park"}, h : {0} \cup SessionIds]]
    BY DEF HandlesInit, NoPatch
  <2>3. silent \in 0 .. MaxSilent
    BY SessionHandlesAssumption DEF HandlesInit
  <2>4. leaked \in BOOLEAN /\ present = {}
    BY DEF HandlesInit
  <2> QED
    BY <2>1, <2>2, <2>3, <2>4 DEF HandlesInv, HandlesTypeOK, SessionNotShared
<1>2. HandlesInv /\ [HandlesNext]_handleVars => HandlesInv'
  BY HandlesTyped, HandlesStep DEF HandlesInv
<1> QED
  BY <1>1, <1>2, PTL DEF HandlesSpec, HandlesInv

----------------------------------------------------------------------------
(* The process that drives an agent (Bridges): a CLI that was replaced does *)
(* not rob the newer process of the session while that one runs.           *)

(* The CLIs that were started, and those of them that have ended.  A CLI   *)
(* never comes back under its id.                                          *)
Launched == 1 .. Len(started.cli)
Gone == Launched \ alive

Modes == {"resident", "managed"}
BridgeRow == [row : BOOLEAN, mode : Modes, hd : {0} \cup Handles, sup : Nat, offer : Nat]
AgentRow == [mode : Modes, st : {"up", "offline", "stopped"}, drv : BOOLEAN, owner : Nat, cand : Nat]

(* Typing.  Reports and offers come from CLIs that have ended, and a CLI's *)
(* row that has a handle was written by its registration.                  *)
DriverTyped ==
  /\ ag \in AgentRow /\ ag.owner \in {0} \cup Launched /\ ag.cand \in {0} \cup Launched
  /\ br \in [Ids -> BridgeRow]
  /\ started \in [cli : Seq(Handles), con : Nat] /\ Len(started.cli) <= Clis
  /\ alive \subseteq Launched \cup {Worker, Sidecar}
  /\ mail \subseteq Gone
  /\ crossed \in BOOLEAN /\ upsets \in Nat
  /\ \A c \in Ids : br[c].offer \in {0} \cup Gone
  /\ \A c \in Cli : br[c].hd # 0 => br[c].row /\ br[c].mode = "resident"

(* What a handler between its reads and its writes carries.                *)
StepTyped ==
  /\ step \in [k : {"none", "reclaim", "lost", "switch"}, b : Nat, own : Nat, cand : Nat,
               mode : Modes, st : {"up", "offline", "stopped"}]
  /\ step.own \in {0} \cup Launched /\ step.cand \in {0} \cup Launched
  /\ step.k = "lost" => step.b \in Gone
  /\ step.k = "reclaim" => /\ step.b \in Launched \ {step.own} /\ step.own # 0
                           /\ br[step.b].row /\ br[step.b].mode = "resident"

(* The CLIs whose registration stands.                                     *)
Holding == {c \in Cli : Current(c) /\ br[c].mode = "resident"}

(* Nobody but x holds the agent, and x does while it runs.                 *)
Holds(x) == Holding \subseteq {x} /\ (x \in alive => x \in Holding)

(* While nothing is disturbed, a resident agent's owner is the one CLI     *)
(* whose registration stands, a managed agent that its definition does not *)
(* keep managed has no owner and its parked CLI is the one that stands, and *)
(* what a handler read is still so when it writes.                         *)
QuietInv ==
  Undisturbed =>
    /\ ag.mode = "resident" /\ ag.owner # 0 => ag.drv /\ Holds(ag.owner)
    /\ ag.mode = "managed" /\ defn # "managed" => ag.owner = 0 /\ (ag.cand # 0 => Holds(ag.cand))
    /\ step.k = "switch" => /\ ag.mode = "managed" /\ defn = "none"
                            /\ step.own = ag.owner /\ step.cand = ag.cand
    /\ step.k = "reclaim" => step.own = ag.owner /\ step.own \in Gone

DriverInv == DriverTyped /\ StepTyped /\ QuietInv

(* The ids of CLIs, worker and delivery loop differ, and none is 0.        *)
LEMMA IdFacts ==
  /\ Cli \subseteq Ids /\ Ids \subseteq Nat \ {0} /\ Worker \in Ids \ Cli /\ Sidecar \in Ids \ Cli
  /\ Worker # Sidecar /\ LostMark \in Nat \ {0}
BY BridgesAssumption DEF Ids, Cli, Worker, Sidecar, LostMark

(* The CLIs that were started are CLIs.                                    *)
LEMMA LaunchedFacts ==
  ASSUME DriverTyped
  PROVE  /\ Launched \subseteq Cli /\ Launched \subseteq Nat \ {0} /\ Gone \subseteq Launched
         /\ Worker \notin Launched /\ Sidecar \notin Launched
<1>1. Len(started.cli) \in Nat /\ Len(started.cli) <= Clis
  BY DEF DriverTyped
<1>2. Launched \subseteq Cli
  BY <1>1, BridgesAssumption DEF Launched, Cli
<1> QED
  BY <1>2, IdFacts, Zenon DEF Gone

(* A row that is marked superseded, and the row of a delivery loop that    *)
(* beats or claims.                                                        *)
LEMMA MarkedRow ==
  ASSUME NEW r \in BridgeRow, NEW b \in Nat
  PROVE  /\ [r EXCEPT !.sup = b] \in BridgeRow /\ [r EXCEPT !.sup = b].sup = b
         /\ [r EXCEPT !.sup = b].row = r.row /\ [r EXCEPT !.sup = b].mode = r.mode
         /\ [r EXCEPT !.sup = b].hd = r.hd /\ [r EXCEPT !.sup = b].offer = r.offer
BY Zenon DEF BridgeRow

(* The delivery loop's row after its beat or its claim.                    *)
LEMMA LoopRow ==
  ASSUME NEW r \in BridgeRow, NEW m \in Modes
  PROVE  /\ [r EXCEPT !.row = TRUE, !.sup = 0, !.mode = m] \in BridgeRow
         /\ [r EXCEPT !.row = TRUE, !.sup = 0, !.mode = m].offer = r.offer
         /\ [r EXCEPT !.row = TRUE, !.mode = m] \in BridgeRow
         /\ [r EXCEPT !.row = TRUE, !.mode = m].offer = r.offer
BY Zenon DEF BridgeRow

(* A row that is given the agent back.                                     *)
LEMMA FreedRow ==
  ASSUME NEW r \in BridgeRow
  PROVE  /\ [r EXCEPT !.sup = 0, !.offer = 0] \in BridgeRow
         /\ [r EXCEPT !.sup = 0, !.offer = 0].row = r.row /\ [r EXCEPT !.sup = 0, !.offer = 0].mode = r.mode
         /\ [r EXCEPT !.sup = 0, !.offer = 0].sup = 0 /\ [r EXCEPT !.sup = 0, !.offer = 0].offer = 0
         /\ [r EXCEPT !.sup = 0, !.offer = 0].hd = r.hd
BY Zenon DEF BridgeRow

Records(f, b, as, h) == br' = _record_bridge_registration(f, b, as, h)

\* What a recorded registration leaves: b's row current, the other rows as they
\* were but for who superseded them, and no other CLI's row current.
Recorded(f, b, as, h) ==
  /\ br' \in [Ids -> BridgeRow]
  /\ br'[b].row /\ br'[b].hd = h /\ br'[b].sup = 0 /\ br'[b].offer = 0 /\ (as = "resident" => br'[b].mode = "resident")
  /\ \A c \in Ids \ {b} : /\ br'[c].row = f[c].row /\ br'[c].mode = f[c].mode
                          /\ br'[c].hd = f[c].hd /\ br'[c].offer = f[c].offer
  /\ \A c \in Cli \ {b} : ~(br'[c].row /\ br'[c].sup = 0)

(* A registration stands alone among the CLIs.                             *)
LEMMA Registered ==
  ASSUME NEW f \in [Ids -> BridgeRow], NEW b \in Ids, NEW as,
         NEW h \in Handles, Records(f, b, as, h)
  PROVE  Recorded(f, b, as, h)
<1> SUFFICES /\ br' \in [Ids -> BridgeRow]
             /\ br'[b].row /\ br'[b].hd = h /\ br'[b].sup = 0 /\ br'[b].offer = 0 /\ (as = "resident" => br'[b].mode = "resident")
             /\ \A c \in Ids \ {b} : /\ br'[c].row = f[c].row /\ br'[c].mode = f[c].mode
                                     /\ br'[c].hd = f[c].hd /\ br'[c].offer = f[c].offer
             /\ \A c \in Cli \ {b} : ~(br'[c].row /\ br'[c].sup = 0)
  BY Zenon DEF Recorded
<1> DEFINE new == [row |-> TRUE, mode |-> IF as = "resident" THEN "resident" ELSE "managed",
                   hd |-> h, sup |-> 0, offer |-> 0]
           gone == Replaced(f, b, as)
<1>1. new \in BridgeRow /\ b \in Nat \ {0}
  BY IdFacts, Zenon DEF BridgeRow, Modes
<1>2. \A c \in gone : c \in Ids \ {b}
  BY Zenon DEF Replaced
<1>3. \A c \in Ids : /\ c = b => br'[c] = new
                     /\ c # b /\ c \in gone => br'[c] = [f[c] EXCEPT !.sup = b]
                     /\ c # b /\ c \notin gone => br'[c] = f[c]
  BY <1>2, Zenon DEF Records, _record_bridge_registration
<1>4. br' = [c \in Ids |-> br'[c]]
  BY DEF Records, _record_bridge_registration
<1>5. \A c \in Cli \ {b} : f[c].row /\ f[c].sup = 0 => c \in gone
  BY IdFacts, Zenon DEF Replaced
<1> HIDE DEF new, gone
<1>6. \A c \in Ids : /\ [f[c] EXCEPT !.sup = b] \in BridgeRow
                     /\ [f[c] EXCEPT !.sup = b].sup = b
                     /\ [f[c] EXCEPT !.sup = b].row = f[c].row /\ [f[c] EXCEPT !.sup = b].mode = f[c].mode
                     /\ [f[c] EXCEPT !.sup = b].hd = f[c].hd /\ [f[c] EXCEPT !.sup = b].offer = f[c].offer
  BY <1>1, MarkedRow
<1>7. br' \in [Ids -> BridgeRow]
  BY <1>1, <1>3, <1>4, <1>6, Zenon
<1>8. \A c \in Ids \ {b} : /\ br'[c].row = f[c].row /\ br'[c].mode = f[c].mode
                           /\ br'[c].hd = f[c].hd /\ br'[c].offer = f[c].offer
  BY <1>3, <1>6, Zenon
<1>9. \A c \in Cli \ {b} : ~(br'[c].row /\ br'[c].sup = 0)
  <2> TAKE c \in Cli \ {b}
  <2>1. c \in Ids /\ c # b
    BY IdFacts, Zenon
  <2>2. CASE c \in gone
    BY <1>1, <1>3, <1>6, <2>1, <2>2, Zenon
  <2>3. CASE c \notin gone
    BY <1>3, <1>5, <2>1, <2>3, Zenon
  <2> QED
    BY <2>2, <2>3, Zenon
<1>10. br'[b].row /\ br'[b].hd = h /\ br'[b].sup = 0 /\ br'[b].offer = 0 /\ (as = "resident" => br'[b].mode = "resident")
  <2>1. br'[b] = new
    BY <1>3, Zenon
  <2>2. new.row /\ new.hd = h /\ new.sup = 0 /\ new.offer = 0 /\ (as = "resident" => new.mode = "resident")
    BY Zenon DEF new
  <2> QED
    BY <2>1, <2>2, Zenon
<1> QED
  BY <1>7, <1>8, <1>9, <1>10, Zenon

GivesWay(f, b, h, q) == f \in {br, Yielded(b, h, q)}

\* Rows that differ from the stored ones in who superseded them only.
SameRows(f) ==
  /\ f \in [Ids -> BridgeRow]
  /\ \A c \in Ids : /\ f[c].row = br[c].row /\ f[c].mode = br[c].mode
                    /\ f[c].hd = br[c].hd /\ f[c].offer = br[c].offer

(* The row that gives way before the registration keeps all but its mark.  *)
LEMMA YieldedRows ==
  ASSUME DriverTyped, NEW b \in Ids, NEW h, NEW q, NEW f, GivesWay(f, b, h, q)
  PROVE  SameRows(f)
<1>1. \A c \in Ids : /\ [br[c] EXCEPT !.sup = b] \in BridgeRow
                     /\ [br[c] EXCEPT !.sup = b].row = br[c].row /\ [br[c] EXCEPT !.sup = b].mode = br[c].mode
                     /\ [br[c] EXCEPT !.sup = b].hd = br[c].hd /\ [br[c] EXCEPT !.sup = b].offer = br[c].offer
  <2>1. b \in Nat /\ \A c \in Ids : br[c] \in BridgeRow
    BY IdFacts, Zenon DEF DriverTyped
  <2> QED
    BY <2>1, MarkedRow, Zenon
<1>2. \A c \in Ids : f[c] \in {br[c], [br[c] EXCEPT !.sup = b]}
  BY Zenon DEF GivesWay, Yielded
<1>3. f = [c \in Ids |-> f[c]]
  BY Zenon DEF GivesWay, Yielded, DriverTyped
<1>4. \A c \in Ids : br[c] \in BridgeRow
  BY Zenon DEF DriverTyped
<1>5. f \in [Ids -> BridgeRow]
  BY <1>1, <1>2, <1>3, <1>4, Zenon
<1>6. \A c \in Ids : /\ f[c].row = br[c].row /\ f[c].mode = br[c].mode
                     /\ f[c].hd = br[c].hd /\ f[c].offer = br[c].offer
  BY <1>1, <1>2, Zenon
<1> QED
  BY <1>5, <1>6, Zenon DEF SameRows

(* A step that only lets CLIs end, or stand no more once they have, keeps  *)
(* what is so while nothing is disturbed.                                  *)
LEMMA SameHolders ==
  ASSUME DriverInv, DriverTyped', Undisturbed' => Undisturbed /\ defn' = defn,
         ag'.mode = ag.mode, ag'.owner = ag.owner, ag'.cand = ag.cand, ag.drv => ag'.drv,
         Holding' \subseteq Holding, Holding \cap alive' \subseteq Holding',
         alive' \cap Launched \subseteq alive, Gone \subseteq Gone',
         step' = step \/ step'.k \in {"none", "lost"}
  PROVE  QuietInv'
<1> SUFFICES ASSUME Undisturbed' PROVE QuietInv'
  BY Zenon DEF QuietInv
<1>1. ag.owner # 0 => ag.owner \in Launched
  BY Zenon DEF DriverInv, DriverTyped
<1>2. ag.cand # 0 => ag.cand \in Launched
  BY Zenon DEF DriverInv, DriverTyped
<1>3. ag.owner # 0 /\ Holds(ag.owner) => Holds(ag.owner)'
  BY <1>1, Zenon DEF Holds
<1>4. ag.cand # 0 /\ Holds(ag.cand) => Holds(ag.cand)'
  BY <1>2, Zenon DEF Holds
<1> QED
  BY <1>3, <1>4, Zenon DEF DriverInv, QuietInv

(* The steps that leave the rows of the agent and of the CLIs alone.       *)
LEMMA Frame ==
  ASSUME DriverInv, UNCHANGED <<ag, br, started, mail, step, crossed>>,
         upsets' \in Nat /\ upsets' >= upsets, Undisturbed' => defn' = defn,
         alive' \subseteq alive, alive' \cap Cli = alive \cap Cli
  PROVE  DriverInv'
<1> USE DEF DriverInv
<1>1. Launched' = Launched
  BY Zenon DEF Launched
<1>2. Gone' = Gone
  BY <1>1, LaunchedFacts, Zenon DEF Gone
<1>3. DriverTyped'
  BY <1>1, <1>2, Zenon DEF DriverTyped
<1>4. StepTyped'
  BY <1>1, <1>2, Zenon DEF StepTyped
<1>5. Holding' = Holding
  BY Zenon DEF Holding, Current
<1>6. Undisturbed' => Undisturbed
  BY DEF Undisturbed, DriverTyped
<1> QED
  BY <1>1, <1>2, <1>3, <1>4, <1>5, <1>6, SameHolders, LaunchedFacts, IdFacts, Zenon

(* Upsets only grow.                                                       *)
LEMMA SpendFacts ==
  ASSUME DriverTyped, NEW n \in Nat, Spend(n)
  PROVE  upsets' \in Nat /\ upsets' >= upsets /\ (upsets' = 0 => n = 0)
BY DEF Spend, DriverTyped

(* Taking nobody alive for silent is free.                                 *)
LEMMA CostFacts ==
  ASSUME NEW q PROVE Cost(q) \in Nat /\ (Cost(q) = 0 => q \cap alive = {})
BY DEF Cost

(* A CLI or a console starts.                                              *)
LEMMA StartKeeps ==
  ASSUME DriverInv, Starts
  PROVE  DriverInv'
<1> USE DEF DriverInv
<1>1. ASSUME NEW h \in Handles, StartCli(h) PROVE DriverInv'
  <2> DEFINE b == Len(started.cli) + 1
  <2>1. /\ b \in Cli
        /\ started' = [started EXCEPT !.cli = Append(@, h)]
        /\ alive' = alive \cup {b}
        /\ UNCHANGED <<ag, br, defn, con, run, mail, step, crossed, upsets>>
    BY <1>1, Zenon DEF StartCli
  <2>2. started.cli \in Seq(Handles)
    BY Zenon DEF DriverTyped
  <2>3. Len(started'.cli) = b /\ started' \in [cli : Seq(Handles), con : Nat]
    <3>1. /\ Append(started.cli, h) \in Seq(Handles)
          /\ Len(Append(started.cli, h)) = Len(started.cli) + 1
      BY <2>2
    <3>2. started' = [cli |-> Append(started.cli, h), con |-> started.con] /\ started.con \in Nat
      BY <2>1, Zenon DEF DriverTyped
    <3> QED
      BY <3>1, <3>2, Zenon
  <2>4. Launched' = Launched \cup {b} /\ b \notin Launched
    BY <2>2, <2>3 DEF Launched
  <2>5. b <= Clis
    BY <2>1 DEF Cli
  <2> HIDE DEF b
  <2>6. Gone' = Gone
    BY <2>1, <2>4, Zenon DEF Gone
  <2>7. DriverTyped'
    BY <2>1, <2>3, <2>4, <2>5, <2>6, Zenon DEF DriverTyped
  <2>8. StepTyped'
    BY <2>1, <2>4, <2>6, Zenon DEF StepTyped
  <2>9. Holding' = Holding
    BY <2>1, Zenon DEF Holding, Current
  <2>10. Undisturbed' = Undisturbed
    BY <2>1, Zenon DEF Undisturbed
  <2> QED
    BY <2>1, <2>4, <2>6, <2>7, <2>8, <2>9, <2>10, SameHolders, Zenon
<1>2. CASE StartConsole
  <2>1. /\ started' = [started EXCEPT !.con = @ + 1]
        /\ alive' = alive \cup {Worker, Sidecar}
        /\ br' = [br EXCEPT ![Worker] = NoRow]
        /\ UNCHANGED <<ag, defn, run, mail, step, crossed, upsets>>
    BY <1>2, Zenon DEF StartConsole
  <2>2. started' \in [cli : Seq(Handles), con : Nat] /\ started'.cli = started.cli
    BY <2>1 DEF DriverTyped
  <2>3. Launched' = Launched
    BY <2>2, Zenon DEF Launched
  <2>4. Gone' = Gone
    BY <2>1, <2>3, LaunchedFacts, Zenon DEF Gone
  <2>5. NoRow \in BridgeRow /\ NoRow.offer = 0
    BY Zenon DEF NoRow, BridgeRow, Modes
  <2>6. br' \in [Ids -> BridgeRow] /\ (\A c \in Cli : br'[c] = br[c]) /\ \A c \in Ids : br'[c].offer \in {0} \cup Gone
    BY <2>1, <2>5, IdFacts, Zenon DEF DriverTyped
  <2>7. DriverTyped'
    BY <2>1, <2>2, <2>3, <2>4, <2>6, Zenon DEF DriverTyped
  <2>8. StepTyped'
    BY <2>1, <2>3, <2>4, <2>6, LaunchedFacts DEF StepTyped
  <2>9. Holding' = Holding
    BY <2>6, Zenon DEF Holding, Current
  <2>10. Undisturbed' = Undisturbed
    BY <2>1, Zenon DEF Undisturbed
  <2> QED
    BY <2>1, <2>3, <2>4, <2>7, <2>8, <2>9, <2>10, SameHolders, LaunchedFacts, Zenon
<1> QED
  BY <1>1, <1>2, Zenon DEF Starts

(* Claims, and the end of a run.                                           *)
LEMMA ClaimKeepsDriver ==
  ASSUME DriverInv, Claims
  PROVE  DriverInv'
<1> USE DEF DriverInv
<1>1. ASSUME NEW b \in Ids, NEW q, _claim_dispatch_once(b, q) PROVE DriverInv'
  <2>1. UNCHANGED <<ag, br, started, mail, step, crossed, defn, alive>> /\ Spend(Cost(q))
    BY <1>1, Zenon DEF _claim_dispatch_once
  <2> QED
    BY <2>1, SpendFacts, CostFacts, Frame, Zenon
<1>2. ASSUME NEW q, SidecarClaims(q) PROVE DriverInv'
  <2>1. /\ UNCHANGED <<ag, started, mail, step, crossed, defn, alive>> /\ Spend(Cost(q))
        /\ br' = [br EXCEPT ![Sidecar] = [@ EXCEPT !.row = TRUE, !.sup = 0, !.mode = ag.mode]]
    BY <1>2, Zenon DEF SidecarClaims
  <2>2. upsets' \in Nat /\ upsets' >= upsets
    BY <2>1, SpendFacts, CostFacts, Zenon
  <2>3. /\ [br[Sidecar] EXCEPT !.row = TRUE, !.sup = 0, !.mode = ag.mode] \in BridgeRow
        /\ [br[Sidecar] EXCEPT !.row = TRUE, !.sup = 0, !.mode = ag.mode].offer = br[Sidecar].offer
    <3>1. br[Sidecar] \in BridgeRow /\ ag.mode \in Modes
      BY IdFacts, Zenon DEF DriverTyped, AgentRow
    <3> QED
      BY <3>1, LoopRow, Zenon
  <2>4. Launched' = Launched /\ Gone' = Gone
    BY <2>1, Zenon DEF Launched, Gone
  <2>5. br' \in [Ids -> BridgeRow] /\ (\A c \in Cli : br'[c] = br[c]) /\ \A c \in Ids : br'[c].offer = br[c].offer
    BY <2>1, <2>3, IdFacts, Zenon DEF DriverTyped
  <2>6. DriverTyped'
    BY <2>1, <2>2, <2>4, <2>5, Zenon DEF DriverTyped
  <2>7. StepTyped'
    BY <2>1, <2>4, <2>5, LaunchedFacts DEF StepTyped
  <2>8. Holding' = Holding
    BY <2>5, Zenon DEF Holding, Current
  <2>9. Undisturbed' => Undisturbed
    BY <2>1, <2>2 DEF Undisturbed, DriverTyped
  <2> QED
    BY <2>1, <2>4, <2>6, <2>7, <2>8, <2>9, SameHolders, Zenon
<1>3. CASE RunEnds
  <2>1. UNCHANGED <<ag, br, started, mail, step, crossed, defn, alive, upsets>>
    BY <1>3, Zenon DEF RunEnds
  <2> QED
    BY <2>1, Frame DEF DriverTyped
<1> QED
  BY <1>1, <1>2, <1>3, Zenon DEF Claims

(* The steps that write the agent's status, or drop a handler's step.      *)
LEMMA AgentFrame ==
  ASSUME DriverInv, UNCHANGED <<br, defn, started, alive, mail, crossed, upsets>>,
         ag' \in AgentRow, ag'.mode = ag.mode, ag'.owner = ag.owner, ag'.cand = ag.cand, ag.drv => ag'.drv,
         step' = step \/ step' = Idle0
  PROVE  DriverInv'
<1> USE DEF DriverInv
<1>1. Launched' = Launched /\ Gone' = Gone
  BY Zenon DEF Launched, Gone
<1>2. DriverTyped'
  BY <1>1, Zenon DEF DriverTyped
<1>3. StepTyped'
  BY <1>1 DEF StepTyped, Idle0, Modes
<1>4. Holding' = Holding
  BY Zenon DEF Holding, Current
<1>5. Undisturbed' = Undisturbed
  BY Zenon DEF Undisturbed
<1>6. step' = step \/ step'.k = "none"
  BY DEF Idle0
<1> QED
  BY <1>1, <1>2, <1>3, <1>4, <1>5, <1>6, SameHolders, Zenon

(* Stops and resumptions.                                                  *)
LEMMA OperateKeeps ==
  ASSUME DriverInv, Operates
  PROVE  DriverInv'
<1>1. CASE StopAgent \/ ResumeAgent
  <2>1. /\ UNCHANGED <<br, defn, started, alive, mail, crossed, upsets, step>>
        /\ \E x \in {"up", "stopped"} : ag' = [ag EXCEPT !.st = x]
    BY <1>1, Zenon DEF StopAgent, ResumeAgent
  <2>2. ag' \in AgentRow /\ ag'.mode = ag.mode /\ ag'.owner = ag.owner /\ ag'.cand = ag.cand /\ ag'.drv = ag.drv
    BY <2>1, Zenon DEF DriverInv, DriverTyped, AgentRow
  <2> QED
    BY <2>1, <2>2, AgentFrame, Zenon
<1>2. CASE stop_agent_worker
  <2>1. UNCHANGED <<ag, br, started, mail, step, crossed, defn, alive, upsets>>
    BY <1>2, Zenon DEF stop_agent_worker
  <2> QED
    BY <2>1, Frame DEF DriverInv, DriverTyped
<1> QED
  BY <1>1, <1>2, Zenon DEF Operates

(* A switch by the definition or by the operator, when its result is known. *)
LEMMA Switched ==
  ASSUME DriverTyped, NEW own \in {0} \cup Launched, NEW cand \in {0} \cup Launched, NEW mode \in Modes,
         ag' = _apply_session_mode_switch_to_agent(own, cand, mode)
  PROVE  /\ ag' \in AgentRow /\ ag'.mode = mode
         /\ mode = "resident" => /\ cand # 0 => ag'.drv /\ ag'.owner = cand
                                 /\ cand = 0 => ag'.owner = own
                                 /\ ag'.cand = cand
         /\ mode = "managed" => ag'.owner = own /\ ag'.cand = 0
<1>1. Unstopped(ag) \in {"up", "offline", "stopped"}
  BY Zenon DEF Unstopped, DriverTyped, AgentRow
<1>2. own \in Nat /\ cand \in Nat
  BY LaunchedFacts
<1> QED
  BY <1>1, <1>2, Zenon DEF _apply_session_mode_switch_to_agent, AgentRow, Modes

(* A console ends: a parked CLI that the definition wants is the owner, and *)
(* its registration stands.                                                *)
LEMMA ConsoleKeeps ==
  ASSUME DriverInv, ConsoleSteps
  PROVE  DriverInv'
<1> USE DEF DriverInv
<1>1. CASE ConsoleExits
  <2>1. UNCHANGED <<ag, br, started, mail, step, crossed, defn, upsets>> /\ alive' = alive \ {Worker, Sidecar}
    BY <1>1, Zenon DEF ConsoleExits
  <2> QED
    BY <2>1, IdFacts, Frame DEF DriverTyped
<1>2. CASE StartupReconcile
  <2>1. UNCHANGED <<ag, br, started, mail, crossed, defn, alive, upsets>> /\ step' = Idle0
    BY <1>2, Zenon DEF StartupReconcile
  <2> QED
    BY <2>1, AgentFrame, Zenon DEF DriverTyped
<1>3. CASE _close_out_terminal_on_end_status
  <2>1. /\ UNCHANGED <<br, defn, alive, started, mail, step, crossed, upsets>>
        /\ \/ ag' = ag
           \/ /\ ag.cand # 0 /\ defn = "resident" /\ ag.mode = "managed"
              /\ ag' = _apply_session_mode_switch_to_agent(ag.owner, ag.cand, "resident")
    BY <1>3, Zenon DEF _close_out_terminal_on_end_status, adopt_parked_resident, follow_definition_mode
  <2>2. CASE ag' = ag
    BY <2>1, <2>2, AgentFrame, Zenon DEF DriverTyped
  <2>3. CASE ag' # ag
    <3>1. /\ ag.cand # 0 /\ defn = "resident" /\ ag.mode = "managed"
          /\ ag' = _apply_session_mode_switch_to_agent(ag.owner, ag.cand, "resident")
      BY <2>1, <2>3, Zenon
    <3>2. /\ ag' \in AgentRow /\ ag'.mode = "resident" /\ ag'.drv /\ ag'.cand = ag.cand /\ ag'.owner = ag.cand
      <4>1. ag.owner \in {0} \cup Launched /\ ag.cand \in {0} \cup Launched
        BY Zenon DEF DriverTyped
      <4> QED
        BY <3>1, <4>1, Switched, Zenon DEF Modes
    <3>3. Launched' = Launched /\ Gone' = Gone /\ Holding' = Holding /\ Undisturbed' = Undisturbed
      BY <2>1, Zenon DEF Launched, Gone, Holding, Current, Undisturbed
    <3>4. DriverTyped'
      BY <2>1, <3>2, <3>3, Zenon DEF DriverTyped
    <3>5. StepTyped'
      BY <2>1, <3>3, Zenon DEF StepTyped
    <3>6. QuietInv'
      <4> SUFFICES ASSUME Undisturbed PROVE QuietInv'
        BY <3>3, Zenon DEF QuietInv
      <4>1. ag.owner = 0 /\ Holds(ag.cand) /\ step.k # "switch" /\ (step.k = "reclaim" => ag.owner \in Gone)
        BY <3>1, Zenon DEF QuietInv
      <4>2. step.k # "reclaim"
        BY <4>1, LaunchedFacts, Zenon
      <4>3. Holds(ag.owner)'
        BY <2>1, <3>2, <3>3, <4>1, Zenon DEF Holds
      <4> QED
        BY <2>1, <3>2, <4>1, <4>2, <4>3, Zenon DEF QuietInv
    <3> QED
      BY <3>4, <3>5, <3>6, Zenon
  <2> QED
    BY <2>2, <2>3, Zenon
<1> QED
  BY <1>1, <1>2, <1>3, Zenon DEF ConsoleSteps

(* A CLI ends, and its report is handled.                                  *)
LEMMA LossKeeps ==
  ASSUME DriverInv, Losses
  PROVE  DriverInv'
<1> USE DEF DriverInv
<1>1. ASSUME NEW b \in Cli, NEW clean \in BOOLEAN, CliEnds(b, clean) PROVE DriverInv'
  <2>1. /\ b \in alive /\ alive' = alive \ {b} /\ mail' \subseteq mail \cup {b}
        /\ UNCHANGED <<ag, br, defn, started, step, crossed, upsets>>
    BY <1>1, Zenon DEF CliEnds
  <2>2. b \in Launched
    BY <2>1, IdFacts, Zenon DEF DriverTyped
  <2>3. Launched' = Launched /\ Holding' = Holding /\ Undisturbed' = Undisturbed
    BY <2>1, Zenon DEF Launched, Holding, Current, Undisturbed
  <2>4. Gone' = Gone \cup {b}
    BY <2>1, <2>2, <2>3, Zenon DEF Gone
  <2>5. DriverTyped'
    BY <2>1, <2>3, <2>4, Zenon DEF DriverTyped
  <2>6. StepTyped'
    BY <2>1, <2>3, <2>4, Zenon DEF StepTyped
  <2> QED
    BY <2>1, <2>3, <2>4, <2>5, <2>6, SameHolders, Zenon
<1>2. ASSUME NEW b \in Cli, resident_lost(b) PROVE DriverInv'
  <2>1. /\ b \in mail /\ mail' = mail \ {b} /\ UNCHANGED <<ag, br, defn, started, alive, crossed, upsets>>
        /\ \/ step' = step
           \/ step' = [Idle0 EXCEPT !.k = "lost", !.b = b, !.mode = ag.mode, !.st = ag.st]
    BY <1>2, Zenon DEF resident_lost
  <2>2. Launched' = Launched /\ Gone' = Gone /\ Holding' = Holding /\ Undisturbed' = Undisturbed
    BY <2>1, Zenon DEF Launched, Gone, Holding, Current, Undisturbed
  <2>3. DriverTyped'
    BY <2>1, <2>2, Zenon DEF DriverTyped
  <2>4. step' = step \/ step' = [k |-> "lost", b |-> b, own |-> 0, cand |-> 0, mode |-> ag.mode, st |-> ag.st]
    BY <2>1, Zenon DEF Idle0
  <2>5. b \in Gone /\ b \in Nat /\ ag.mode \in Modes /\ ag.st \in {"up", "offline", "stopped"}
    BY <2>1, IdFacts, Zenon DEF DriverTyped, AgentRow
  <2>6. StepTyped'
    BY <2>1, <2>2, <2>4, <2>5 DEF StepTyped
  <2>7. step' = step \/ step'.k = "lost"
    BY <2>4
  <2> QED
    BY <2>1, <2>2, <2>3, <2>6, <2>7, SameHolders, Zenon
<1>3. CASE ResidentLost
  <2> DEFINE b == step.b
             offer == offer_handback(b)
  <2>1. /\ step.k = "lost" /\ step' = Idle0 /\ UNCHANGED <<defn, alive, started, mail, crossed, upsets>>
        /\ ag' = [ag EXCEPT !.st = _settle_lost_resident_when_no_transition(step)]
        /\ br' = [c \in Ids |->
                     IF c = b THEN [br[b] EXCEPT !.sup = IF br[b].row /\ @ = 0 THEN LostMark ELSE @]
                     ELSE IF c \in offer THEN [br[c] EXCEPT !.offer = b] ELSE br[c]]
    BY <1>3, Zenon DEF ResidentLost
  <2> HIDE DEF offer
  <2>2. b \in Gone /\ b \in Cli /\ b \in Ids /\ b \in Nat /\ b \notin alive
    BY <2>1, LaunchedFacts, IdFacts, Zenon DEF StepTyped, Gone
  <2> HIDE DEF b
  <2>3. /\ ag' \in AgentRow /\ ag'.mode = ag.mode /\ ag'.owner = ag.owner /\ ag'.cand = ag.cand
        /\ ag'.drv = ag.drv
    <3>1. _settle_lost_resident_when_no_transition(step) \in {"up", "offline", "stopped"}
      BY Zenon DEF _settle_lost_resident_when_no_transition
    <3> QED
      BY <2>1, <3>1, Zenon DEF DriverTyped, AgentRow
  <2>4. \A c \in Ids : br[c] \in BridgeRow
    BY Zenon DEF DriverTyped
  <2>5. \A c \in Ids : /\ br'[c] \in BridgeRow /\ br'[c].row = br[c].row /\ br'[c].mode = br[c].mode
                       /\ br'[c].hd = br[c].hd /\ br'[c].offer \in {br[c].offer, b}
                       /\ c # b => br'[c].sup = br[c].sup
                       /\ br[c].sup # 0 => br'[c].sup # 0
    <3> TAKE c \in Ids
    <3>1. CASE c = b
      <4>1. PICK n \in Nat : br'[c] = [br[c] EXCEPT !.sup = n] /\ (br[c].sup # 0 => n # 0)
        BY <2>1, <2>2, <2>4, <3>1, IdFacts, Zenon DEF BridgeRow
      <4> QED
        BY <2>4, <3>1, <4>1, MarkedRow
    <3>2. CASE c # b
      <4>1. br'[c] \in {br[c], [br[c] EXCEPT !.offer = b]}
        BY <2>1, <3>2, Zenon
      <4> QED
        BY <2>2, <2>4, <3>2, <4>1, Zenon DEF BridgeRow
    <3> QED
      BY <3>1, <3>2, Zenon
  <2>6. br' \in [Ids -> BridgeRow]
    <3>1. br' = [c \in Ids |-> br'[c]]
      BY <2>1, Zenon
    <3> QED
      BY <2>5, <3>1, Zenon
  <2>7. Launched' = Launched /\ Gone' = Gone /\ Undisturbed' = Undisturbed
    BY <2>1, Zenon DEF Launched, Gone, Undisturbed
  <2>8. DriverTyped'
    <3>1. \A c \in Ids : br'[c].offer \in {0} \cup Gone
      BY <2>2, <2>5, Zenon DEF DriverTyped
    <3>2. \A c \in Cli : br'[c].hd # 0 => br'[c].row /\ br'[c].mode = "resident"
      BY <2>5, IdFacts, Zenon DEF DriverTyped
    <3> QED
      BY <2>1, <2>3, <2>6, <2>7, <3>1, <3>2, Zenon DEF DriverTyped
  <2>9. StepTyped'
    BY <2>1, <2>7, Zenon DEF StepTyped, Idle0, Modes
  <2>10. Holding' \subseteq Holding /\ Holding \cap alive \subseteq Holding'
    BY <2>2, <2>5, IdFacts, Zenon DEF Holding, Current
  <2>11. step'.k = "none"
    BY <2>1, Zenon DEF Idle0
  <2> QED
    BY <2>1, <2>3, <2>7, <2>8, <2>9, <2>10, <2>11, SameHolders, Zenon
<1> QED
  BY <1>1, <1>2, <1>3, Zenon DEF Losses

(* A switch is read, and written with what was read.                       *)
LEMMA SwitchKeeps ==
  ASSUME DriverInv, Switches
  PROVE  DriverInv'
<1> USE DEF DriverInv
<1>0. ag.owner \in {0} \cup Launched /\ ag.cand \in {0} \cup Launched
  BY Zenon DEF DriverTyped
<1>1. ASSUME NEW force \in BOOLEAN, switch_agent_session_mode(force) PROVE DriverInv'
  <2>1. /\ defn = "none" /\ ag.mode = "managed"
        /\ step' = [k |-> "switch", b |-> 0, own |-> ag.owner, cand |-> ag.cand, mode |-> "managed", st |-> "up"]
        /\ UNCHANGED <<ag, br, defn, con, run, alive, started, mail, crossed, upsets>>
    BY <1>1, Zenon DEF switch_agent_session_mode, Idle0
  <2>2. Launched' = Launched /\ Gone' = Gone /\ Holding' = Holding /\ Undisturbed' = Undisturbed
    BY <2>1, Zenon DEF Launched, Gone, Holding, Current, Undisturbed
  <2>3. DriverTyped'
    BY <2>1, <2>2, Zenon DEF DriverTyped
  <2>4. StepTyped'
    BY <1>0, <2>1, <2>2, LaunchedFacts DEF StepTyped, Modes
  <2>5. Holds(ag.cand) => Holds(ag.cand)'
    BY <2>1, <2>2, Zenon DEF Holds
  <2>6. QuietInv'
    BY <2>1, <2>2, <2>5, Zenon DEF QuietInv
  <2> QED
    BY <2>3, <2>4, <2>6, Zenon
<1>2. CASE switch_session_mode
  <2>1. /\ step.k = "switch" /\ step' = Idle0
        /\ ag' = _apply_session_mode_switch_to_agent(step.own, step.cand, "resident")
        /\ UNCHANGED <<br, defn, run, alive, started, mail, crossed, upsets>>
    BY <1>2, Zenon DEF switch_session_mode
  <2>2. step.own \in {0} \cup Launched /\ step.cand \in {0} \cup Launched
    BY Zenon DEF StepTyped
  <2>3. /\ ag' \in AgentRow /\ ag'.mode = "resident" /\ (step.cand # 0 => ag'.drv) /\ ag'.cand = step.cand
        /\ ag'.owner = IF step.cand # 0 THEN step.cand ELSE step.own
    BY <2>1, <2>2, Switched, Zenon DEF Modes
  <2>4. Launched' = Launched /\ Gone' = Gone /\ Holding' = Holding /\ Undisturbed' = Undisturbed
    BY <2>1, Zenon DEF Launched, Gone, Holding, Current, Undisturbed
  <2>5. DriverTyped'
    BY <2>1, <2>2, <2>3, <2>4, Zenon DEF DriverTyped
  <2>6. StepTyped'
    BY <2>1, <2>4, Zenon DEF StepTyped, Idle0, Modes
  <2>7. QuietInv'
    <3> SUFFICES ASSUME Undisturbed PROVE QuietInv'
      BY <2>4, Zenon DEF QuietInv
    <3>1. /\ ag.mode = "managed" /\ defn = "none" /\ step.own = ag.owner /\ step.cand = ag.cand
          /\ ag.owner = 0 /\ (ag.cand # 0 => Holds(ag.cand))
      BY <2>1, Zenon DEF QuietInv
    <3>2. ag'.owner = ag.cand /\ (ag.cand # 0 => ag'.drv)
      BY <2>3, <3>1, Zenon
    <3>3. ag.cand # 0 => Holds(ag.owner)'
      BY <2>1, <2>4, <3>1, <3>2, Zenon DEF Holds
    <3>4. step'.k = "none"
      BY <2>1, Zenon DEF Idle0
    <3> QED
      BY <2>3, <3>2, <3>3, <3>4, Zenon DEF QuietInv
  <2> QED
    BY <2>5, <2>6, <2>7, Zenon
<1>3. ASSUME NEW m \in Defined, NEW q, follow_definition_to_managed(m, q) PROVE DriverInv'
  <2>1. /\ defn' = m /\ Spend(Cost(q) + IF m = defn THEN 0 ELSE 1)
        /\ UNCHANGED <<br, con, run, alive, started, mail, step, crossed>>
        /\ \/ ag' = ag
           \/ /\ m = "managed" /\ ag.mode = "resident"
              /\ ag' = _apply_session_mode_switch_to_agent(ag.owner, ag.cand, "managed")
    BY <1>3, Zenon DEF follow_definition_to_managed
  <2>2. upsets' \in Nat /\ upsets' >= upsets /\ (upsets' = 0 => defn' = defn)
    <3>1. Cost(q) \in Nat /\ (Cost(q) + IF m = defn THEN 0 ELSE 1) \in Nat
      BY CostFacts
    <3>2. upsets' \in Nat /\ upsets' >= upsets /\ (upsets' = 0 => (Cost(q) + IF m = defn THEN 0 ELSE 1) = 0)
      BY <2>1, <3>1, SpendFacts, Zenon
    <3> QED
      BY <2>1, <3>1, <3>2
  <2>3. CASE ag' = ag
    BY <2>1, <2>2, <2>3, Frame, Zenon DEF Undisturbed
  <2>4. CASE ag' # ag
    <3>1. /\ m = "managed" /\ ag.mode = "resident"
          /\ ag' = _apply_session_mode_switch_to_agent(ag.owner, ag.cand, "managed")
      BY <2>1, <2>4, Zenon
    <3>2. ag' \in AgentRow /\ ag'.mode = "managed" /\ ag'.owner = ag.owner /\ ag'.cand = 0
      BY <1>0, <3>1, Switched, Zenon DEF Modes
    <3>3. Launched' = Launched /\ Gone' = Gone
      BY <2>1, Zenon DEF Launched, Gone
    <3>4. DriverTyped'
      BY <2>1, <2>2, <3>2, <3>3, Zenon DEF DriverTyped
    <3>5. StepTyped'
      BY <2>1, <3>3, Zenon DEF StepTyped
    <3>6. Undisturbed' => Undisturbed
      BY <2>1, <2>2 DEF Undisturbed, DriverTyped
    <3>7. QuietInv'
      BY <2>1, <3>1, <3>2, <3>3, <3>6, Zenon DEF QuietInv
    <3> QED
      BY <3>4, <3>5, <3>7, Zenon
  <2> QED
    BY <2>3, <2>4, Zenon
<1> QED
  BY <1>1, <1>2, <1>3, Zenon DEF Switches

(* A session goes back to a CLI behind the owner: the one that offered it   *)
(* or fell silent has ended, while nothing is disturbed.                   *)
LEMMA ReclaimKeeps ==
  ASSUME DriverInv,
         \/ \E b \in Cli, q \in SUBSET ({ag.owner} \cap Ids) : reclaim_on_beat(b, q)
         \/ Reclaimed
  PROVE  DriverInv'
<1> USE DEF DriverInv
<1>1. ASSUME NEW b \in Cli, NEW q, reclaim_on_beat(b, q) PROVE DriverInv'
  <2>1. /\ b \in alive /\ MayReclaim(b, q) /\ Spend(Cost(q))
        /\ step' = [k |-> "reclaim", b |-> b, own |-> ag.owner, cand |-> ag.cand, mode |-> "managed", st |-> "up"]
        /\ UNCHANGED <<ag, br, defn, con, run, alive, started, mail, crossed>>
    BY <1>1, Zenon DEF reclaim_on_beat, Idle0
  <2>2. upsets' \in Nat /\ upsets' >= upsets /\ (upsets' = 0 => q \cap alive = {})
    BY <2>1, SpendFacts, CostFacts, Zenon
  <2>3. /\ ag.owner \in Launched \ {b} /\ ag.owner # 0 /\ b \in Launched
        /\ br[b].offer = ag.owner \/ ag.owner \in q
    BY <2>1, IdFacts, Zenon DEF MayReclaim, DriverTyped
  <2>4. br[b].row /\ br[b].hd = br[ag.owner].hd /\ br[ag.owner].hd # 0
    BY <2>1, Zenon DEF MayReclaim, _same_handle_chain_behind
  <2>5. br[b].row /\ br[b].mode = "resident"
    BY <2>4, Zenon DEF DriverTyped
  <2>6. Launched' = Launched /\ Gone' = Gone /\ Holding' = Holding
    BY <2>1, Zenon DEF Launched, Gone, Holding, Current
  <2>7. Undisturbed' => Undisturbed
    BY <2>1, <2>2 DEF Undisturbed, DriverTyped
  <2>8. DriverTyped'
    BY <2>1, <2>2, <2>6, Zenon DEF DriverTyped
  <2>9. StepTyped'
    <3>1. b \in Nat /\ ag.owner \in Nat /\ ag.cand \in Nat /\ ag.cand \in {0} \cup Launched
      BY LaunchedFacts, IdFacts, Zenon DEF DriverTyped, AgentRow
    <3> QED
      BY <2>1, <2>3, <2>5, <2>6, <3>1, Zenon DEF StepTyped, Modes
  <2>10. Undisturbed' => ag.owner \in Gone
    <3>1. br[b].offer = ag.owner => ag.owner \in Gone
      BY <2>3, IdFacts, Zenon DEF DriverTyped
    <3>2. upsets' = 0 /\ ag.owner \in q => ag.owner \in Gone
      BY <2>2, <2>3, Zenon DEF Gone
    <3> QED
      BY <2>3, <3>1, <3>2, Zenon DEF Undisturbed
  <2>11. /\ Holds(ag.owner) => Holds(ag.owner)'
         /\ Holds(ag.cand) => Holds(ag.cand)'
    BY <2>1, <2>6, Zenon DEF Holds
  <2>12. QuietInv'
    BY <2>1, <2>6, <2>7, <2>10, <2>11, Zenon DEF QuietInv
  <2> QED
    BY <2>8, <2>9, <2>12, Zenon
<1>2. CASE Reclaimed
  <2> DEFINE b == step.b
             o == step.own
  <2>1. /\ step.k = "reclaim" /\ step' = Idle0
        /\ br' = [br EXCEPT ![b].sup = 0, ![b].offer = 0, ![o].sup = IF @ = 0 THEN b ELSE @]
        /\ ag' = [Beaten(ag) EXCEPT !.owner = b, !.cand = step.cand]
        /\ UNCHANGED <<defn, con, run, alive, started, mail, crossed, upsets>>
    BY <1>2, Zenon DEF Reclaimed
  <2>2. /\ b \in Launched /\ o \in Launched /\ b # o /\ br[b].row /\ br[b].mode = "resident"
        /\ step.cand \in {0} \cup Launched
    BY <2>1, Zenon DEF StepTyped
  <2>3. b \in Cli /\ o \in Cli /\ b \in Ids /\ o \in Ids /\ b \in Nat /\ b # 0 /\ step.cand \in Nat
    BY <2>2, LaunchedFacts, IdFacts
  <2>4. br[b] \in BridgeRow /\ br[o] \in BridgeRow
    BY <2>3, Zenon DEF DriverTyped
  <2> HIDE DEF b, o
  <2>5. /\ br'[b] = [br[b] EXCEPT !.sup = 0, !.offer = 0]
        /\ br'[o] = [br[o] EXCEPT !.sup = IF @ = 0 THEN b ELSE @]
        /\ \A c \in Ids \ {b, o} : br'[c] = br[c]
        /\ br' = [c \in Ids |-> br'[c]]
    BY <2>1, <2>2, <2>3, Zenon DEF DriverTyped
  <2>6. /\ br'[b] \in BridgeRow /\ br'[b].row /\ br'[b].mode = "resident" /\ br'[b].sup = 0 /\ br'[b].offer = 0
        /\ br'[b].hd = br[b].hd
    <3> DEFINE t == [br[b] EXCEPT !.sup = 0, !.offer = 0]
    <3>1. /\ t \in BridgeRow /\ t.row = br[b].row /\ t.mode = br[b].mode /\ t.sup = 0
          /\ t.offer = 0 /\ t.hd = br[b].hd
      BY <2>4, FreedRow, Zenon
    <3>2. br'[b] = t
      BY <2>5, Zenon
    <3> HIDE DEF t
    <3> QED
      BY <2>2, <3>1, <3>2, Zenon
  <2>7. /\ br'[o] \in BridgeRow /\ br'[o].row = br[o].row /\ br'[o].mode = br[o].mode /\ br'[o].sup # 0
        /\ br'[o].offer = br[o].offer /\ br'[o].hd = br[o].hd
    BY <2>3, <2>4, <2>5, Zenon DEF BridgeRow
  <2>8. br' \in [Ids -> BridgeRow]
    BY <2>5, <2>6, <2>7 DEF DriverTyped
  <2>9. /\ ag' \in AgentRow /\ ag'.mode = ag.mode /\ ag'.drv = ag.drv /\ ag'.owner = b /\ ag'.cand = step.cand
    <3>1. Beaten(ag) \in AgentRow /\ Beaten(ag).mode = ag.mode /\ Beaten(ag).drv = ag.drv
      BY Zenon DEF Beaten, AgentRow, DriverTyped
    <3> QED
      BY <2>1, <2>3, <3>1, Zenon DEF AgentRow
  <2>10. Launched' = Launched /\ Gone' = Gone /\ Undisturbed' = Undisturbed
    BY <2>1, Zenon DEF Launched, Gone, Undisturbed
  <2>11. DriverTyped'
    <3>1. \A c \in Ids : br'[c].offer \in {0} \cup Gone
      BY <2>5, <2>6, <2>7, Zenon DEF DriverTyped
    <3>2. \A c \in Cli : br'[c].hd # 0 => br'[c].row /\ br'[c].mode = "resident"
      <4> TAKE c \in Cli
      <4>1. c \in Ids /\ (br[c].hd # 0 => br[c].row /\ br[c].mode = "resident")
        BY IdFacts, Zenon DEF DriverTyped
      <4>2. CASE c \in {b, o}
        BY <2>6, <2>7, <4>1, <4>2, Zenon
      <4>3. CASE c \notin {b, o}
        BY <2>5, <4>1, <4>3, Zenon
      <4> QED
        BY <4>2, <4>3, Zenon
    <3>3. ag'.owner \in {0} \cup Launched /\ ag'.cand \in {0} \cup Launched
      BY <2>2, <2>9, Zenon
    <3> QED
      BY <2>1, <3>3, <2>8, <2>9, <2>10, <3>1, <3>2, Zenon DEF DriverTyped
  <2>12. StepTyped'
    BY <2>1, <2>10, Zenon DEF StepTyped, Idle0, Modes
  <2>13. QuietInv'
    <3> SUFFICES ASSUME Undisturbed PROVE QuietInv'
      BY <2>10, Zenon DEF QuietInv
    <3>1. o = ag.owner /\ ag.owner # 0
      BY <2>1, <2>2, <2>3, LaunchedFacts, Zenon DEF QuietInv, o
    <3>2. step'.k = "none"
      BY <2>1, Zenon DEF Idle0
    <3>3. CASE ag.mode = "managed"
      <4>1. defn = "managed"
        BY <3>1, <3>3, Zenon DEF QuietInv
      <4> QED
        BY <2>1, <2>9, <3>2, <3>3, <4>1, Zenon DEF QuietInv
    <3>4. CASE ag.mode = "resident"
      <4>1. ag.drv /\ Holding \subseteq {o}
        BY <3>1, <3>4, Zenon DEF QuietInv, Holds
      <4>2. b \in Holding' /\ Holding' \subseteq {b}
        <5>1. br'[b].row /\ br'[b].sup = 0 /\ br'[b].mode = "resident" /\ br'[o].sup # 0
          BY <2>6, <2>7, Zenon
        <5>2. \A c \in Cli \ {b, o} : br'[c] = br[c]
          BY <2>5, IdFacts, Zenon
        <5>3. Holding' = {c \in Cli : br'[c].row /\ br'[c].sup = 0 /\ br'[c].mode = "resident"}
          BY Zenon DEF Holding, Current
        <5>4. \A c \in Cli \ {b, o} : c \in Holding' => c \in Holding
          BY <5>2, <5>3, Zenon DEF Holding, Current
        <5> QED
          BY <2>3, <4>1, <5>1, <5>3, <5>4, Zenon
      <4>3. Holds(ag.owner)'
        BY <2>9, <4>2, Zenon DEF Holds
      <4> QED
        BY <2>9, <3>2, <3>4, <4>1, <4>3, Zenon DEF QuietInv
    <3> QED
      BY <3>3, <3>4, Zenon DEF DriverTyped, AgentRow, Modes
  <2> QED
    BY <2>11, <2>12, <2>13, Zenon
<1> QED
  BY <1>1, <1>2, Zenon

(* Heartbeats write no CLI's registration.                                 *)
LEMMA BeatKeeps ==
  ASSUME DriverInv,
         \/ \E b \in Ids : agent_heartbeat(b)
         \/ \E q \in SUBSET {c \in Cli : Current(c)} : SidecarBeat(q)
  PROVE  DriverInv'
<1> USE DEF DriverInv
<1>0. ag \in AgentRow /\ br \in [Ids -> BridgeRow]
  BY Zenon DEF DriverTyped
<1>b. Beaten(ag) \in AgentRow /\ Beaten(ag).mode = ag.mode /\ Beaten(ag).drv = ag.drv
      /\ Beaten(ag).owner = ag.owner /\ Beaten(ag).cand = ag.cand
  BY <1>0, Zenon DEF Beaten, AgentRow
<1>k. ASSUME UNCHANGED <<defn, started, mail, step, crossed>>, upsets' \in Nat, upsets' >= upsets,
             alive' \subseteq alive, alive' \cap Cli = alive \cap Cli,
             ag' \in AgentRow, ag'.mode = ag.mode, ag'.owner = ag.owner, ag'.cand = ag.cand, ag.drv => ag'.drv,
             br' \in [Ids -> BridgeRow], \A c \in Ids : br'[c].offer \in {0, br[c].offer},
             \A c \in Cli : \/ br'[c] = br[c]
                            \/ ~br[c].row /\ br'[c].hd = 0 /\ br'[c].mode = "managed"
      PROVE  DriverInv'
  <2>1. Launched' = Launched
    BY <1>k, Zenon DEF Launched
  <2>2. Gone' = Gone
    BY <1>k, <2>1, LaunchedFacts, Zenon DEF Gone
  <2>3. DriverTyped'
    <3>1. \A c \in Ids : br'[c].offer \in {0} \cup Gone
      BY <1>k, Zenon DEF DriverTyped
    <3>2. \A c \in Cli : br'[c].hd # 0 => br'[c].row /\ br'[c].mode = "resident"
      BY <1>k, Zenon DEF DriverTyped
    <3> QED
      BY <1>k, <2>1, <2>2, <3>1, <3>2, Zenon DEF DriverTyped
  <2>4. StepTyped'
    BY <1>k, <2>1, <2>2, LaunchedFacts, Zenon DEF StepTyped
  <2>5. Holding' = Holding
    BY <1>k, Zenon DEF Holding, Current
  <2>6. Undisturbed' => Undisturbed
    BY <1>k DEF Undisturbed, DriverTyped
  <2> QED
    BY <1>k, <2>1, <2>2, <2>3, <2>4, <2>5, <2>6, SameHolders, LaunchedFacts, Zenon
<1>1. ASSUME NEW b \in Ids, agent_heartbeat(b) PROVE DriverInv'
  <2> DEFINE new == [NoRow EXCEPT !.row = TRUE]
  <2>1. /\ UNCHANGED <<defn, alive, started, mail, step, crossed, upsets>> /\ ag' = Beaten(ag)
        /\ br' = br \/ (~br[b].row /\ br' = [br EXCEPT ![b] = new])
    BY <1>1, Zenon DEF agent_heartbeat, _upsert_bridge_liveness_beat
  <2>2. new \in BridgeRow /\ new.hd = 0 /\ new.mode = "managed" /\ new.offer = 0
    BY Zenon DEF BridgeRow, Modes, NoRow
  <2> HIDE DEF new
  <2>3. CASE br' = br
    BY <1>0, <1>b, <1>k, <2>1, <2>3 DEF DriverTyped
  <2>4. CASE ~br[b].row /\ br' = [br EXCEPT ![b] = new]
    <3>1. br' \in [Ids -> BridgeRow] /\ br'[b] = new /\ \A c \in Ids \ {b} : br'[c] = br[c]
      BY <1>0, <2>2, <2>4, Zenon
    <3> QED
      BY <1>b, <1>k, <2>1, <2>2, <2>4, <3>1, IdFacts DEF DriverTyped
  <2> QED
    BY <2>1, <2>3, <2>4, Zenon
<1>2. ASSUME NEW q, SidecarBeat(q) PROVE DriverInv'
  <2>1. /\ UNCHANGED <<defn, started, mail, step, crossed>> /\ Spend(Cost(q))
        /\ alive' \in {alive, alive \ {Sidecar}}
        /\ br' \in {br, [br EXCEPT ![Sidecar].row = TRUE, ![Sidecar].mode = ag.mode]}
        /\ \/ ag' = ag
           \/ \E a \in {ag, Beaten(ag)} : ag' = [a EXCEPT !.drv = @ \/ (ag.mode = "resident" /\ LiveResident(q))]
    BY <1>2, Zenon DEF SidecarBeat
  <2>2. upsets' \in Nat /\ upsets' >= upsets
    BY <2>1, SpendFacts, CostFacts, Zenon
  <2>3. alive' \subseteq alive /\ alive' \cap Cli = alive \cap Cli
    BY <2>1, IdFacts, Zenon
  <2>4. /\ br' \in [Ids -> BridgeRow] /\ \A c \in Ids : br'[c].offer = br[c].offer
        /\ \A c \in Cli : br'[c] = br[c]
    <3>1. ag.mode \in Modes /\ br[Sidecar] \in BridgeRow
      BY <1>0, IdFacts, Zenon DEF AgentRow
    <3>2. [br EXCEPT ![Sidecar].row = TRUE, ![Sidecar].mode = ag.mode]
            = [br EXCEPT ![Sidecar] = [br[Sidecar] EXCEPT !.row = TRUE, !.mode = ag.mode]]
      BY <1>0, IdFacts, Zenon
    <3>3. /\ [br[Sidecar] EXCEPT !.row = TRUE, !.mode = ag.mode] \in BridgeRow
          /\ [br[Sidecar] EXCEPT !.row = TRUE, !.mode = ag.mode].offer = br[Sidecar].offer
      BY <3>1, LoopRow, Zenon
    <3> DEFINE new == [br[Sidecar] EXCEPT !.row = TRUE, !.mode = ag.mode]
    <3>4. br' = br \/ br' = [br EXCEPT ![Sidecar] = new]
      BY <2>1, <3>2, Zenon
    <3>5. new \in BridgeRow /\ new.offer = br[Sidecar].offer
      BY <3>3, Zenon
    <3> HIDE DEF new
    <3> QED
      BY <1>0, <3>4, <3>5, IdFacts, Zenon
  <2>5. ag' \in AgentRow /\ ag'.mode = ag.mode /\ ag'.owner = ag.owner /\ ag'.cand = ag.cand /\ (ag.drv => ag'.drv)
    <3> DEFINE x == ag.mode = "resident" /\ LiveResident(q)
    <3>1. x \in BOOLEAN
      BY Zenon
    <3>2. ag' = ag \/ \E a \in {ag, Beaten(ag)} : ag' = [a EXCEPT !.drv = a.drv \/ x]
      BY <2>1, Zenon
    <3> HIDE DEF x
    <3>3. PICK a \in {ag, Beaten(ag)} : ag' = ag \/ ag' = [a EXCEPT !.drv = a.drv \/ x]
      BY <3>2, Zenon
    <3>4. a \in AgentRow /\ a.mode = ag.mode /\ a.owner = ag.owner /\ a.cand = ag.cand /\ a.drv = ag.drv
      BY <1>0, <1>b, <3>3, Zenon
    <3>5. (a.drv \/ x) \in BOOLEAN
      BY <3>1, Zenon
    <3>6. CASE ag' = [a EXCEPT !.drv = a.drv \/ x]
      <4> DEFINE y == a.drv \/ x
      <4>1. ag' = [a EXCEPT !.drv = y] /\ y \in BOOLEAN /\ (ag.drv => y)
        BY <3>4, <3>5, <3>6, Zenon
      <4> HIDE DEF y
      <4> QED
        BY <3>4, <4>1, Zenon DEF AgentRow
    <3> QED
      BY <1>0, <3>3, <3>6, Zenon
  <2> QED
    BY <1>k, <2>1, <2>2, <2>3, <2>4, <2>5, Zenon
<1> QED
  BY <1>1, <1>2, Zenon

Crosses == crossed' = (crossed \/ step.k # "none")

(* What every registration writes: it stands alone among the CLIs, and one *)
(* that crosses another handler disturbs.                                  *)
LEMMA RegistrationWrites ==
  ASSUME DriverInv, NEW f \in [Ids -> BridgeRow], NEW b \in Ids, NEW as,
         NEW h \in Handles,
         SameRows(f),
         Records(f, b, as, h), b \in Cli <=> as = "resident",
         UNCHANGED <<defn, alive, started, mail, step>>, Crosses, upsets' \in Nat, upsets' >= upsets,
         ag' \in AgentRow, ag'.owner \in {0} \cup Launched, ag'.cand \in {0} \cup Launched
  PROVE  /\ DriverTyped' /\ StepTyped' /\ (b \in Cli => Holding' = {b}) /\ (b \notin Cli => Holding' = {})
         /\ Undisturbed' => Undisturbed /\ step'.k = "none"
<1> USE DEF DriverInv
<1>1. Launched' = Launched /\ Gone' = Gone
  BY Zenon DEF Launched, Gone
<1>2. /\ br' \in [Ids -> BridgeRow]
      /\ br'[b].row /\ br'[b].hd = h /\ br'[b].sup = 0 /\ br'[b].offer = 0
      /\ as = "resident" => br'[b].mode = "resident"
      /\ \A c \in Ids \ {b} : /\ br'[c].row = f[c].row /\ br'[c].mode = f[c].mode
                              /\ br'[c].hd = f[c].hd /\ br'[c].offer = f[c].offer
      /\ \A c \in Cli \ {b} : ~(br'[c].row /\ br'[c].sup = 0)
  <2>1. Recorded(f, b, as, h)
    BY Registered, Zenon
  <2> QED
    BY <2>1, Zenon DEF Recorded
<1>3. \A c \in Ids \ {b} : /\ br'[c].row = br[c].row /\ br'[c].mode = br[c].mode
                          /\ br'[c].hd = br[c].hd /\ br'[c].offer = br[c].offer
  BY <1>2, Zenon DEF SameRows
<1>4. \A c \in Ids : br'[c].offer \in {0} \cup Gone
  BY <1>2, <1>3, Zenon DEF DriverTyped
<1>5. /\ br'[b].row /\ br'[b].sup = 0 /\ (b \in Cli => br'[b].mode = "resident")
  BY <1>2, Zenon
<1>6. \A c \in Cli : /\ br[c].row /\ br[c].mode = "resident" => br'[c].row /\ br'[c].mode = "resident"
                     /\ br'[c].hd # 0 => br'[c].row /\ br'[c].mode = "resident"
  <2> TAKE c \in Cli
  <2>1. CASE c = b
    BY <1>5, <2>1, Zenon
  <2>2. CASE c # b
    BY <1>3, <2>2, IdFacts, Zenon DEF DriverTyped
  <2> QED
    BY <2>1, <2>2, Zenon
<1>7. DriverTyped'
  <2>1. br' \in [Ids -> BridgeRow]
    BY <1>2, Zenon
  <2>2. /\ started' \in [cli : Seq(Handles), con : Nat] /\ Len(started'.cli) <= Clis
        /\ alive' \subseteq Launched' \cup {Worker, Sidecar} /\ mail' \subseteq Gone'
    BY <1>1, Zenon DEF DriverTyped
  <2>3. crossed' \in BOOLEAN
    BY Zenon DEF Crosses
  <2>4. \A c \in Ids : br'[c].offer \in {0} \cup Gone'
    BY <1>1, <1>4, Zenon
  <2>5. \A c \in Cli : br'[c].hd # 0 => br'[c].row /\ br'[c].mode = "resident"
    BY <1>6, Zenon
  <2>6. ag' \in AgentRow /\ ag'.owner \in {0} \cup Launched' /\ ag'.cand \in {0} \cup Launched' /\ upsets' \in Nat
    BY <1>1, Zenon
  <2> QED
    BY <2>1, <2>2, <2>3, <2>4, <2>5, <2>6, Zenon DEF DriverTyped
<1>8. StepTyped'
  BY <1>1, <1>6, LaunchedFacts, Zenon DEF StepTyped
<1>9. Holding' = {c \in Cli : br'[c].row /\ br'[c].sup = 0 /\ br'[c].mode = "resident"}
  BY Zenon DEF Holding, Current
<1>10. (b \in Cli => Holding' = {b}) /\ (b \notin Cli => Holding' = {})
  <2>1. \A c \in Cli \ {b} : c \notin Holding'
    BY <1>2, <1>9, Zenon
  <2>2. b \in Cli => b \in Holding'
    BY <1>5, <1>9, Zenon
  <2>3. Holding' \subseteq Cli
    BY <1>9, Zenon
  <2> QED
    BY <2>1, <2>2, <2>3, Zenon
<1>11. Undisturbed' => Undisturbed /\ step'.k = "none"
  <2>1. upsets' = 0 => upsets = 0
    BY DEF DriverTyped
  <2>2. ~crossed' => ~crossed /\ step.k = "none"
    BY Zenon DEF Crosses
  <2> QED
    BY <2>1, <2>2, Zenon DEF Undisturbed
<1> QED
  BY <1>7, <1>8, <1>10, <1>11, Zenon

(* A registration: alone among the CLIs, and refused while the owner of a  *)
(* resident agent runs, unless it comes from a newer process.              *)
LEMMA RegisterKeeps ==
  ASSUME DriverInv, Registers
  PROVE  DriverInv'
<1> USE DEF DriverInv
<1>0. ag \in AgentRow /\ br \in [Ids -> BridgeRow]
  BY Zenon DEF DriverTyped
<1>s. SameRows(br)
  BY <1>0, Zenon DEF SameRows
<1>1. ASSUME NEW b \in 1 .. Len(started.cli), NEW force \in BOOLEAN, NEW q, _register_agent(b, force, q)
      PROVE  DriverInv'
  <2> DEFINE h == started.cli[b]
             f == IF force THEN br ELSE Yielded(b, h, q)
  <2>1. b \in Launched /\ b \in Cli /\ b \in Ids /\ b \in Nat /\ b # 0
    BY LaunchedFacts, IdFacts, Zenon DEF Launched
  <2>2. h \in Handles
    BY DEF DriverTyped
  <2>3. SameRows(f) /\ f \in [Ids -> BridgeRow]
    <3>1. GivesWay(f, b, h, q)
      BY Zenon DEF GivesWay
    <3> HIDE DEF f, h
    <3>2. SameRows(f)
      BY <2>1, <3>1, YieldedRows, Zenon
    <3> QED
      BY <3>2, Zenon DEF SameRows
  <2>4. /\ Records(f, b, "resident", h)
        /\ UNCHANGED <<defn, alive, started, mail, step>> /\ Crosses
        /\ Spend((IF force THEN 1 ELSE Cost(q)) + (IF b \in alive THEN 0 ELSE 1))
        /\ \/ ag' = [mode |-> "resident", st |-> "up", drv |-> TRUE, owner |-> b, cand |-> 0]
           \/ ag.mode # "resident" /\ ag' = [ag EXCEPT !.cand = b]
    BY <1>1, <2>1, Zenon DEF Crosses, Records, _register_agent, _upsert_registered_agent_row, registration_owner_bridge_id,
       _register_via_manual_resident_takeover, _stage_manual_resident_takeover
  <2> HIDE DEF h, f
  <2>5. upsets' \in Nat /\ upsets' >= upsets
    <3>1. (IF force THEN 1 ELSE Cost(q)) + (IF b \in alive THEN 0 ELSE 1) \in Nat
      BY CostFacts
    <3> QED
      BY <2>4, <3>1, SpendFacts, Zenon
  <2>6. /\ ag' \in AgentRow /\ ag'.owner \in {0} \cup Launched /\ ag'.cand \in {0} \cup Launched
        /\ \/ ag'.mode = "resident" /\ ag'.drv /\ ag'.owner = b
           \/ ag'.mode = "managed" /\ ag.mode = "managed" /\ ag'.owner = ag.owner /\ ag'.cand = b
    <3>1. CASE ag' = [mode |-> "resident", st |-> "up", drv |-> TRUE, owner |-> b, cand |-> 0]
      BY <2>1, <3>1, Zenon DEF AgentRow, Modes
    <3>2. CASE ag.mode # "resident" /\ ag' = [ag EXCEPT !.cand = b]
      <4>1. /\ ag' \in AgentRow /\ ag'.mode = ag.mode /\ ag'.owner = ag.owner /\ ag'.cand = b
            /\ ag.mode \in Modes
        BY <1>0, <2>1, <3>2, Zenon DEF AgentRow
      <4>2. ag.owner \in {0} \cup Launched
        BY Zenon DEF DriverTyped
      <4> QED
        BY <2>1, <3>2, <4>1, <4>2, Zenon DEF Modes
    <3> QED
      BY <2>4, <3>1, <3>2, Zenon
  <2>7. /\ DriverTyped' /\ StepTyped' /\ Holding' = {b} /\ (Undisturbed' => Undisturbed /\ step'.k = "none")
    BY RegistrationWrites, <2>1, <2>2, <2>3, <2>4, <2>5, <2>6, Zenon
  <2>8. QuietInv'
    <3> SUFFICES ASSUME Undisturbed' PROVE QuietInv'
      BY Zenon DEF QuietInv
    <3>1. Undisturbed /\ step'.k = "none"
      BY <2>7, Zenon
    <3>2. CASE ag'.mode = "resident" /\ ag'.drv /\ ag'.owner = b
      <4>1. Holds(ag.owner)'
        BY <2>7, <3>2, Zenon DEF Holds
      <4> QED
        BY <3>1, <3>2, <4>1, Zenon DEF QuietInv
    <3>3. CASE ag'.mode = "managed" /\ ag.mode = "managed" /\ ag'.owner = ag.owner /\ ag'.cand = b
      <4>1. Holds(ag.cand)'
        BY <2>7, <3>3, Zenon DEF Holds
      <4> QED
        BY <2>4, <3>1, <3>3, <4>1, Zenon DEF QuietInv
    <3> QED
      BY <2>6, <3>2, <3>3, Zenon
  <2> QED
    BY <2>7, <2>8, Zenon
<1>2. CASE RegisterWorker
  <2>1. /\ _enforce_driving_mode_switch_gate
        /\ ag' = [mode |-> "managed", st |-> "up", drv |-> TRUE, owner |-> ag.owner, cand |-> 0]
        /\ Records(br, Worker, "child", 1)
        /\ UNCHANGED <<defn, alive, started, mail, step, upsets>> /\ Crosses
    BY <1>2, IdFacts, Zenon DEF Crosses, Records, RegisterWorker, _upsert_registered_agent_row, registration_owner_bridge_id
  <2>2. /\ ag' \in AgentRow /\ ag'.owner = ag.owner /\ ag'.cand = 0 /\ ag'.mode = "managed"
        /\ ag.owner \in {0} \cup Launched
    BY <1>0, <2>1, Zenon DEF AgentRow, Modes, DriverTyped
  <2>3. Worker \in Ids /\ Worker \notin Cli /\ 1 \in Handles /\ upsets \in Nat
    BY IdFacts, Zenon DEF Handles, DriverTyped
  <2>4. /\ DriverTyped' /\ StepTyped' /\ (Undisturbed' => Undisturbed /\ step'.k = "none")
    <3>1. (Worker \in Cli <=> "child" = "resident") /\ upsets' \in Nat /\ upsets' >= upsets
      BY <2>1, <2>3
    <3>2. ag'.owner \in {0} \cup Launched /\ ag'.cand \in {0} \cup Launched
      BY <2>2, Zenon
    <3> QED
      BY <1>0, <1>s, <2>1, <2>2, <2>3, <3>1, <3>2, RegistrationWrites, Zenon
  <2>5. QuietInv'
    <3> SUFFICES ASSUME Undisturbed', defn # "managed" PROVE ag.owner = 0
      BY <2>1, <2>2, <2>4, Zenon DEF QuietInv
    <3>1. ag.mode = "resident" => ~ag.drv
      BY <2>1, Zenon DEF _enforce_driving_mode_switch_gate
    <3>2. ag.mode = "resident" \/ ag.mode = "managed"
      BY <1>0, Zenon DEF AgentRow, Modes
    <3> QED
      BY <2>4, <3>1, <3>2, Zenon DEF QuietInv
  <2> QED
    BY <2>4, <2>5, Zenon
<1>3. ASSUME NEW q, _register_via_adopted_console_terminal(q) PROVE DriverInv'
  <2>1. /\ Conflicts(Worker, q) = {} /\ Spend(Cost(q))
        /\ ag' = _adopt_console_terminal_on_register(ag)
        /\ Records(br, Worker, "console", 1)
        /\ UNCHANGED <<defn, alive, started, mail, step>> /\ Crosses
    BY <1>3, Zenon DEF Crosses, Records, _register_via_adopted_console_terminal
  <2>2. /\ ag' \in AgentRow /\ ag'.owner = ag.owner /\ ag'.cand = ag.cand /\ ag'.mode = ag.mode /\ ag'.drv = ag.drv
        /\ ag.owner \in {0} \cup Launched /\ ag.cand \in {0} \cup Launched
    BY <1>0, <2>1, Zenon DEF _adopt_console_terminal_on_register, AgentRow, DriverTyped
  <2>3. Worker \in Ids /\ Worker \notin Cli /\ 1 \in Handles
    BY IdFacts, Zenon DEF Handles
  <2>4. upsets' \in Nat /\ upsets' >= upsets /\ (upsets' = 0 => q \cap alive = {})
    BY <2>1, SpendFacts, CostFacts, Zenon
  <2>5. /\ DriverTyped' /\ StepTyped' /\ Holding' = {} /\ (Undisturbed' => Undisturbed /\ step'.k = "none")
    BY <1>0, <1>s, RegistrationWrites, <2>1, <2>2, <2>3, <2>4, Zenon
  <2>6. Undisturbed' => Holding \cap alive = {}
    BY <2>1, <2>3, <2>4, Zenon DEF Conflicts, Holding, Undisturbed
  <2>7. QuietInv'
    <3> SUFFICES ASSUME Undisturbed' PROVE QuietInv'
      BY Zenon DEF QuietInv
    <3>1. Holds(ag.owner) => Holds(ag.owner)'
      BY <2>1, <2>2, <2>5, <2>6, Zenon DEF Holds
    <3>2. Holds(ag.cand) => Holds(ag.cand)'
      BY <2>1, <2>2, <2>5, <2>6, Zenon DEF Holds
    <3> QED
      BY <2>1, <2>2, <2>5, <3>1, <3>2, Zenon DEF QuietInv
  <2> QED
    BY <2>5, <2>7, Zenon
<1> QED
  BY <1>1, <1>2, <1>3, Zenon DEF Registers

(* No process and no registration at first.                                *)
LEMMA DriverStarts ==
  BridgesInit => DriverInv
<1> SUFFICES ASSUME BridgesInit PROVE DriverInv
  BY Zenon
<1> USE DEF BridgesInit
<1>1. Launched = {} /\ Gone = {}
  BY DEF Launched, Gone
<1>2. NoRow \in BridgeRow /\ NoRow.offer = 0 /\ NoRow.hd = 0
  BY Zenon DEF NoRow, BridgeRow, Modes
<1>3. ag \in AgentRow /\ ag.owner = 0 /\ ag.cand = 0
  <2>1. PICK m \in Modes : ag = [mode |-> m, st |-> "offline", drv |-> FALSE, owner |-> 0, cand |-> 0]
    BY Zenon DEF Modes
  <2> HIDE DEF BridgesInit
  <2>2. [mode |-> m, st |-> "offline", drv |-> FALSE, owner |-> 0, cand |-> 0] \in AgentRow
    BY Zenon DEF AgentRow
  <2> QED
    BY <2>1, <2>2, Zenon
<1>4. /\ started \in [cli : Seq(Handles), con : Nat] /\ Len(started.cli) <= Clis
  BY BridgesAssumption
<1>5. br \in [Ids -> BridgeRow] /\ \A c \in Ids : br[c] = NoRow
  BY <1>2, Zenon
<1>6. DriverTyped
  BY <1>1, <1>2, <1>3, <1>4, <1>5, IdFacts, Zenon DEF DriverTyped
<1>7. StepTyped
  BY <1>1, Zenon DEF StepTyped, Idle0, Modes
<1>8. QuietInv
  BY <1>3, Zenon DEF QuietInv, Idle0
<1> QED
  BY <1>6, <1>7, <1>8, Zenon DEF DriverInv

(* Every step keeps the invariant.                                         *)
LEMMA DriverKeeps ==
  ASSUME DriverInv, [BridgesNext]_bridgeVars
  PROVE  DriverInv'
<1>1. CASE Beats
  BY <1>1, ReclaimKeeps, BeatKeeps, Zenon DEF Beats
<1>2. CASE UNCHANGED bridgeVars
  BY <1>2, Frame DEF bridgeVars, DriverInv, DriverTyped
<1> QED
  BY <1>1, <1>2, StartKeeps, RegisterKeeps, SwitchKeeps, LossKeeps, ClaimKeepsDriver, OperateKeeps, ConsoleKeeps, Zenon
     DEF BridgesNext

(* A resident agent's running owner, while nothing is disturbed, gives way *)
(* to a newer process only.                                                *)
LEMMA OwnerStays ==
  ASSUME DriverInv, BridgesNext, NEW o \in Cli, Undisturbed, Undisturbed',
         ag.mode = "resident", ag.owner = o, o \in alive
  PROVE  ag'.owner \in Cli => ag'.owner >= o
<1> USE DEF DriverInv
<1>0. o # 0 /\ o \in Nat
  BY IdFacts, Zenon
<1>1. Holding = {o} /\ step.k # "switch" /\ (step.k = "reclaim" => step.own = o /\ o \in Gone)
  BY <1>0, Zenon DEF QuietInv, Holds
<1>2. step.k # "reclaim"
  BY <1>1, Zenon DEF Gone
<1>3. ag \in AgentRow
  BY Zenon DEF DriverTyped
<1>4. ASSUME NEW b \in 1 .. Len(started.cli), NEW force \in BOOLEAN, NEW q, _register_agent(b, force, q)
      PROVE  ag'.owner >= o
  <2>1. b \in Cli /\ b \in Nat
    BY LaunchedFacts, IdFacts, Zenon DEF Launched
  <2>2. Spend((IF force THEN 1 ELSE Cost(q)) + (IF b \in alive THEN 0 ELSE 1))
    BY <1>4, Zenon DEF _register_agent
  <2>3. ~force /\ Cost(q) = 0
    <3>1. (IF force THEN 1 ELSE Cost(q)) + (IF b \in alive THEN 0 ELSE 1) \in Nat
      BY CostFacts
    <3>2. (IF force THEN 1 ELSE Cost(q)) + (IF b \in alive THEN 0 ELSE 1) = 0
      BY <2>2, <3>1, SpendFacts, Zenon DEF Undisturbed
    <3> QED
      BY <3>2, CostFacts
  <2>4. o \notin q
    BY <2>3, CostFacts, Zenon
  <2>5. b # o
    BY <1>1, <1>4, Zenon DEF Holding, _register_agent
  <2>6. Conflicts(b, q) = {o}
    BY <1>1, <2>4, <2>5, Zenon DEF Conflicts, Holding
  <2>7. b > o
    BY <1>4, <2>3, <2>6, Zenon DEF _register_agent, _enforce_same_mode_bridge_gate, MayTakeOver
  <2>8. ag'.owner = b
    BY <1>4, <2>1 DEF _register_agent, _upsert_registered_agent_row, registration_owner_bridge_id
  <2> QED
    BY <1>0, <2>1, <2>7, <2>8
<1>5. CASE Registers
  <2>1. ASSUME RegisterWorker PROVE ag'.owner = o
    BY <1>0, <2>1, IdFacts, Zenon DEF RegisterWorker, _upsert_registered_agent_row, registration_owner_bridge_id
  <2>2. ASSUME NEW q, _register_via_adopted_console_terminal(q) PROVE ag'.owner = o
    BY <1>3, <2>2, Zenon DEF _register_via_adopted_console_terminal, _adopt_console_terminal_on_register, AgentRow
  <2> QED
    <3>1. ag'.owner = o => ag'.owner >= o
      BY <1>0
    <3>2. TRUE \in BOOLEAN /\ FALSE \in BOOLEAN
      BY Zenon
    <3>3. RegisterWorker => ag'.owner = o
      BY <2>1, Zenon
    <3> QED
      BY <1>4, <1>5, <2>2, <3>1, <3>2, <3>3, Zenon DEF Registers
<1>6. CASE Switches
  <2>1. ASSUME NEW m, NEW q, follow_definition_to_managed(m, q) PROVE ag'.owner = o
    BY <2>1 DEF follow_definition_to_managed, _apply_session_mode_switch_to_agent
  <2> QED
    BY <1>0, <1>1, <1>6, <2>1 DEF Switches, switch_agent_session_mode, switch_session_mode
<1>7. CASE Beats
  <2>1. ASSUME NEW b, agent_heartbeat(b) PROVE ag'.owner = o
    BY <1>3, <2>1, Zenon DEF agent_heartbeat, Beaten, AgentRow
  <2>2. ASSUME NEW q, SidecarBeat(q) PROVE ag'.owner = o
    BY <1>3, <2>2, Zenon DEF SidecarBeat, Beaten, AgentRow
  <2>3. ASSUME NEW b, NEW q, reclaim_on_beat(b, q) PROVE ag'.owner = o
    BY <2>3, Zenon DEF reclaim_on_beat
  <2>4. ~Reclaimed
    BY <1>2, Zenon DEF Reclaimed
  <2> QED
    BY <1>0, <1>7, <2>1, <2>2, <2>3, <2>4 DEF Beats
<1>8. CASE Losses
  <2>1. ASSUME ResidentLost PROVE ag'.owner = o
    <3>1. ag' = [ag EXCEPT !.st = _settle_lost_resident_when_no_transition(step)]
      BY <2>1, Zenon DEF ResidentLost
    <3> QED
      BY <1>3, <3>1, Zenon DEF AgentRow
  <2>2. ASSUME NEW b, NEW clean, CliEnds(b, clean) PROVE ag'.owner = o
    BY <2>2, Zenon DEF CliEnds
  <2>3. ASSUME NEW b, resident_lost(b) PROVE ag'.owner = o
    BY <2>3, Zenon DEF resident_lost
  <2>4. ag'.owner = o
    BY <1>8, <2>1, <2>2, <2>3, Zenon DEF Losses
  <2> QED
    BY <1>0, <2>4
<1>9. CASE Starts \/ Claims
  BY <1>0, <1>9 DEF Starts, StartCli, StartConsole, Claims, _claim_dispatch_once, SidecarClaims, RunEnds
<1>10. CASE Operates
  BY <1>0, <1>3, <1>10 DEF Operates, StopAgent, ResumeAgent, stop_agent_worker, AgentRow
<1>11. CASE ConsoleSteps
  BY <1>0, <1>11 DEF ConsoleSteps, ConsoleExits, _close_out_terminal_on_end_status, StartupReconcile,
     adopt_parked_resident, follow_definition_mode
<1> QED
  BY <1>5, <1>6, <1>7, <1>8, <1>9, <1>10, <1>11, Zenon DEF BridgesNext

(* The typing and the quiet invariant hold in every reachable state of the *)
(* bridges: while nobody alive was taken for silent, a resident agent's    *)
(* owner is the one CLI whose registration stands, and what a handler read *)
(* about it is still so when it writes.                                    *)
THEOREM OwnersStand == BridgesSpec => []DriverInv
<1>1. DriverInv /\ [BridgesNext]_bridgeVars => DriverInv'
  BY DriverKeeps, Zenon
<1> QED
  BY <1>1, DriverStarts, PTL DEF BridgesSpec

(* reclaim_on_beat, registration and the adoption of a parked CLI never    *)
(* take a resident agent from its owner while that runs and hand it to an  *)
(* older process of the same session.                                      *)
THEOREM LiveOwnersAreNotRobbed == BridgesSpec => LiveNotRobbed
<1>1. DriverInv /\ [BridgesNext]_bridgeVars
      => [\A o \in Cli : (/\ Undisturbed /\ ag.mode = "resident" /\ ag.owner = o /\ o \in alive
                          /\ ag'.owner \in Cli /\ ag'.owner < o /\ br[ag'.owner].hd = br[o].hd)
                         => ~Undisturbed']_bridgeVars
  <2> SUFFICES ASSUME DriverInv, BridgesNext, NEW o \in Cli, Undisturbed, ag.mode = "resident", ag.owner = o, o \in alive,
                      ag'.owner \in Cli, ag'.owner < o, Undisturbed'
               PROVE  FALSE
    BY Zenon
  <2>1. ag'.owner >= o
    BY OwnerStays, Zenon
  <2> QED
    <3>1. o \in Nat /\ ag'.owner \in Nat
      BY IdFacts, Zenon
    <3> QED
      BY <2>1, <3>1
<1> QED
  BY <1>1, OwnersStand, PTL DEF BridgesSpec, LiveNotRobbed
=============================================================================
