---------------------------- MODULE DispatchRuns ----------------------------
(***************************************************************************)
(* The dispatch runs of one target agent: how a stored message becomes a   *)
(* queued run, how a bridge claims, delivers and reports it, and how the   *)
(* service recovers a run whose bridge is gone                             *)
(* (service/dispatch_claim.py, service/routers/dispatch_messages/,         *)
(* service/api_core/, service/reconcilers/, mcp/stdio/).                   *)
(*                                                                         *)
(* Steps and transactions.  A handler whose first statement is a write (a  *)
(* send touches the sender's row, a claim runs BEGIN IMMEDIATE) holds the  *)
(* database's one write lock throughout and is one step.  A handler that   *)
(* reads first and writes later is two steps, ...Read and ...Write, and    *)
(* anything may commit between them.                                       *)
(*                                                                         *)
(* Time is not kept.  A window that has passed (a heartbeat, a grace, a    *)
(* stale timeout) is a step that may happen; the one assumption is that a  *)
(* request in flight (seconds) does not outlast a heartbeat window (120 s).*)
(***************************************************************************)
EXTENDS Naturals, FiniteSets

CONSTANTS
  Messages,      \* messages addressed to the target agent
  SenderOf,      \* SenderOf[m]: who sends m
  NeedReply,     \* the messages that require a reply
  Bridges,       \* bridge instances that can claim for the target
  NoBridge,      \* an empty claim_bridge_id
  NoMessage,     \* a NULL message_id
  MaxRuns,       \* bound: runs that can be created
  BufferCap,     \* _DISPATCH_BUFFER_CAP
  RequeueLimit,  \* UNDELIVERED_CLAIM_REQUEUE_LIMIT
  MaxFaults,     \* bound: crashes, lost reports and hand-backs
  MarkUntil,     \* bound: the last time at which a message is marked unread
  Elapse,        \* the seconds that may pass between two stamped writes
  Sweepers,      \* recoveries that can run at the same time (the periodic
                 \* reconcile, a send, a roster read)
  Mode,          \* who delivers: a "claude" or a "hermes" sidecar pushes into a
                 \* session, a "managed" bridge runs a turn
  Acts,          \* the requests and recovery jobs an instance includes
  Misjudge       \* ways a live claimer may be taken for gone: "heartbeat" (its
                 \* host sleeps), "environment", "superseded"; {} = only dead
                 \* claimers are

ASSUME RunsAssumption == MaxRuns \in Nat /\ BufferCap \in Nat /\ RequeueLimit \in Nat
ASSUME FaultsAssumption == MaxFaults \in Nat
ASSUME BridgeAssumption == NoBridge \notin Bridges
ASSUME MessageAssumption == NoMessage \notin Messages /\ NeedReply \subseteq Messages
ASSUME ModeAssumption == Mode \in {"claude", "hermes", "managed"}
ASSUME ElapseAssumption == Elapse \subseteq Nat

VARIABLES
  run,       \* run[r]: the dispatch_runs row
  msg,       \* msg[m]: "new", "stored", or "gone" (deleted)
  receipt,   \* receipt[m]: read_at of the target's read receipt, 0 = unread
  earned,    \* the messages the agent read by itself (no column records it)
  clock,     \* the last time stamped, in whole seconds (clock.now truncates)
  life,      \* life[b]: the bridge's process and what its row shows
  held,      \* held[b]: the run bridge b is working on, 0 = none
  carried,   \* carried[b]: the messages in the payload b claimed
  phase,     \* phase[b]: how far b has come with the run it holds
  patch,     \* patch[b]: b's status report inside update_dispatch_run
  unsend,    \* an unsend between its SELECT and its UPDATE
  closing,   \* an operator close between its read and its UPDATE
  inbox,     \* the unread messages an inbox read has selected and not settled
  stopping,  \* the queued runs an agent stop has selected and not cancelled
  sweep,     \* sweep[s]: a recovery step between its SELECT and its UPDATE
  handed,    \* handed[m]: how often m was put in front of the agent
  faults     \* crashes, lost reports and hand-backs so far

rows == <<run, msg, receipt, earned, clock>>
bridge == <<life, held, carried, phase, patch>>
flight == <<unsend, closing, inbox, stopping, sweep>>
vars == <<run, msg, receipt, earned, clock, life, held, carried, phase, patch,
          unsend, closing, inbox, stopping, sweep, handed, faults>>

Channel == Mode # "managed"
RunIds == 1..MaxRuns      \* in order of requested_at
NoRun == 0
Unread == 0
Terminal == {"completed", "failed", "cancelled"}
Active == {"claimed", "running"}
Statuses == {"none", "queued", "delivered"} \cup Active \cup Terminal
Requests == {"read", "mark", "unsend", "clear", "reply", "cancel", "close", "stop"}
Jobs == {"superseded", "discard", "requeue", "orphan", "reap", "stranded",
         "reconcile", "release", "terminal"}

ASSUME ActsAssumption == Acts \subseteq Requests \cup Jobs

Runs == [status: Statuses, items: SUBSET Messages, message: Messages \cup {NoMessage},
         require: BOOLEAN, bridge: Bridges \cup {NoBridge}, claimedAt: Nat,
         started: BOOLEAN, summary: BOOLEAN, result: BOOLEAN, delivered: BOOLEAN,
         requeues: Nat]
Patches == [run: RunIds \cup {NoRun}, want: Statuses, seen: Statuses]
Unsends == [message: Messages \cup {NoMessage}, runs: SUBSET RunIds]
Closings == [run: RunIds \cup {NoRun}, seen: Statuses]

NoRow == [status |-> "none", items |-> {}, message |-> NoMessage, require |-> FALSE,
          bridge |-> NoBridge, claimedAt |-> 0, started |-> FALSE, summary |-> FALSE,
          result |-> FALSE, delivered |-> FALSE, requeues |-> 0]
NoPatch == [run |-> NoRun, want |-> "none", seen |-> "none"]
NoUnsend == [message |-> NoMessage, runs |-> {}]
NoClosing == [run |-> NoRun, seen |-> "none"]
NoSweep == [job |-> "idle", run |-> NoRun, seen |-> "none",
            bridge |-> NoBridge, claimedAt |-> 0]
Sweeps == {NoSweep} \cup [job: Jobs, run: RunIds, seen: Statuses,
                         bridge: Bridges \cup {NoBridge}, claimedAt: Nat]

TypeOK ==
  /\ run \in [RunIds -> Runs]
  /\ msg \in [Messages -> {"new", "stored", "gone"}]
  /\ receipt \in [Messages -> Nat]
  /\ earned \in SUBSET Messages
  /\ clock \in Nat
  /\ life \in [Bridges -> {"up", "down", "stale", "lapsed", "superseded"}]
  /\ held \in [Bridges -> RunIds \cup {NoRun}]
  /\ carried \in [Bridges -> SUBSET Messages]
  /\ phase \in [Bridges -> {"idle", "claimed", "started", "handed"}]
  /\ patch \in [Bridges -> Patches]
  /\ unsend \in Unsends
  /\ closing \in Closings
  /\ inbox \in SUBSET Messages
  /\ stopping \in SUBSET RunIds
  /\ sweep \in [Sweepers -> Sweeps]
  /\ handed \in [Messages -> Nat]
  /\ faults \in Nat

Init ==
  /\ run = [r \in RunIds |-> NoRow]
  /\ msg = [m \in Messages |-> "new"]
  /\ receipt = [m \in Messages |-> Unread]
  /\ earned = {}
  /\ clock = 1
  /\ life = [b \in Bridges |-> "up"]
  /\ held = [b \in Bridges |-> NoRun]
  /\ carried = [b \in Bridges |-> {}]
  /\ phase = [b \in Bridges |-> "idle"]
  /\ patch = [b \in Bridges |-> NoPatch]
  /\ unsend = NoUnsend
  /\ closing = NoClosing
  /\ inbox = {}
  /\ stopping = {}
  /\ sweep = [s \in Sweepers |-> NoSweep]
  /\ handed = [m \in Messages |-> 0]
  /\ faults = 0
-----------------------------------------------------------------------------
(* Storing a message and queueing it.                                      *)

Oldest(S) == CHOOSE r \in S : \A q \in S : r <= q

(* Mutant: a run already claimed takes further messages.                   *)
MergeableClaimed(s) ==
  {r \in RunIds : run[r].status \in {"queued", "claimed"}
                  /\ \E m \in run[r].items : SenderOf[m] = s}

(* The queued run a further message of sender s joins.                     *)
Mergeable(s) ==
  {r \in RunIds : run[r].status = "queued" /\ \E m \in run[r].items : SenderOf[m] = s}

(* A message opens a run, or joins its sender's oldest queued run; a full  *)
(* buffer stores the message and starts nothing.                           *)
Enqueued(m) ==
  LET same == Mergeable(SenderOf[m])
      free == {r \in RunIds : run[r].status = "none"}
  IN IF same = {}
     THEN /\ free # {}
          /\ run' = [run EXCEPT ![Oldest(free)] =
               [NoRow EXCEPT !.status = "queued", !.items = {m}, !.message = m,
                             !.require = IF m \in NeedReply THEN TRUE ELSE FALSE]]
     ELSE LET r == Oldest(same)
          IN IF Cardinality(run[r].items) < BufferCap
             THEN run' = [run EXCEPT ![r] =
                    [run[r] EXCEPT !.items = run[r].items \cup {m},
                              !.require = IF m \in NeedReply THEN TRUE ELSE run[r].require]]
             ELSE run' = run

Send(m) ==
  /\ msg[m] = "new"
  /\ msg' = [msg EXCEPT ![m] = "stored"]
  /\ Enqueued(m)
  /\ UNCHANGED <<receipt, earned, clock, bridge, flight, handed, faults>>

-----------------------------------------------------------------------------
(* Claiming.                                                               *)

ActiveRuns == {r \in RunIds : run[r].status \in Active}

(* A claimer the service takes for gone: no heartbeat for 120 s, or        *)
(* superseded, or no claimer recorded.                                     *)
Gone(b) == b = NoBridge \/ life[b] \in {"stale", "lapsed", "superseded"}

(* A bridge with nothing in hand polls.  A superseded sidecar's poll is    *)
(* proof of life and revives its row; any other superseded bridge is       *)
(* refused.                                                                *)
Polling(b) ==
  /\ held[b] = NoRun /\ patch[b] = NoPatch
  /\ life[b] = "up" \/ (Channel /\ life[b] = "superseded")

(* b's claim goes ahead when there is no active run, or the active run a   *)
(* it looks at is another bridge's and that bridge is gone.  The service   *)
(* looks at the run claimed or started first; with several, the model      *)
(* leaves it open which.                                                   *)
Heal(b, a) ==
  \/ a = NoRun /\ ActiveRuns = {}
  \/ a \in ActiveRuns /\ run[a].bridge # b /\ Gone(run[a].bridge)

(* A superseded sidecar's poll revives its row also when it is then        *)
(* refused: by its own active run, or one of a claimer that is alive.      *)
Revive(b) ==
  /\ Polling(b) /\ life[b] = "superseded"
  /\ life' = [life EXCEPT ![b] = "up"]
  /\ UNCHANGED <<rows, held, carried, phase, patch, flight, handed, faults>>

(* Auto-heal inside the claim: the active run of a claimer that is gone is *)
(* failed, with a summary; runs that can never start are settled.          *)
Cleared(a, fate) ==
  [q \in RunIds |-> IF q = a THEN [run[q] EXCEPT !.status = "failed", !.summary = TRUE]
                    ELSE IF q \in DOMAIN fate THEN [run[q] EXCEPT !.status = fate[q]]
                    ELSE run[q]]

(* Queued runs nobody has answered from the inbox.                         *)
Claimable == {r \in RunIds : run[r].status = "queued" /\ ~run[r].result}

(* The read receipts a claim writes at time t; one already there is kept.  *)
Marked(S, t) ==
  [m \in Messages |-> IF m \in S /\ msg[m] = "stored" /\ receipt[m] = Unread
                      THEN t ELSE receipt[m]]

(* One claim transaction of bridge b, d seconds after the last stamp.      *)
(* Selection walks the queue in order; a run meant for another execution   *)
(* mode or runtime, or held for a busy agent, is passed over and one that  *)
(* can never start meets its fate, so the run picked can be any claimable  *)
(* one.                                                                    *)
Claim(b, r, a, fate, d) ==
  /\ Polling(b) /\ Heal(b, a)
  /\ life' = [life EXCEPT ![b] = "up"]
  /\ r \in Claimable /\ DOMAIN fate \subseteq {q \in Claimable : q < r}
  /\ run' = [Cleared(a, fate) EXCEPT
               ![r] = [run[r] EXCEPT !.status = "claimed", !.bridge = b, !.claimedAt = clock + d]]
  /\ receipt' = Marked(run[r].items, clock + d)
  /\ clock' = clock + d
  /\ held' = [held EXCEPT ![b] = r]
  /\ carried' = [carried EXCEPT ![b] = run[r].items]
  /\ phase' = [phase EXCEPT ![b] = "claimed"]
  /\ UNCHANGED <<msg, earned, patch, flight, handed, faults>>

(* A claim that starts nothing: the gate withholds, or nothing fits.       *)
ClaimNothing(b, a, fate) ==
  /\ Polling(b) /\ Heal(b, a)
  /\ life' = [life EXCEPT ![b] = "up"]
  /\ DOMAIN fate \subseteq Claimable
  /\ run' = Cleared(a, fate)
  /\ UNCHANGED <<msg, receipt, earned, clock, held, carried, phase, patch, flight,
                 handed, faults>>
-----------------------------------------------------------------------------
(* The agent reads for itself.                                             *)

(* get_inbox selects a page of unread messages; _settle_inbox_read writes. *)
InboxRead(S) ==
  /\ inbox = {} /\ S # {}
  /\ \A m \in S : msg[m] = "stored" /\ receipt[m] = Unread
  /\ inbox' = S
  /\ UNCHANGED <<rows, bridge, unsend, closing, stopping, sweep, handed, faults>>

(* It stamps the page as read, a receipt already there is kept, and        *)
(* completes the claimed or running runs of the page.  A page with a       *)
(* message deleted meanwhile fails on the foreign key and writes nothing.  *)
InboxWrite(d) ==
  /\ inbox # {}
  /\ IF \A m \in inbox : msg[m] = "stored"
     THEN /\ receipt' = Marked(inbox, clock + d)
          /\ earned' = earned \cup {m \in inbox : receipt[m] = Unread}
          /\ clock' = clock + d
          /\ run' = [r \in RunIds |->
               IF run[r].message \in inbox /\ run[r].status \in Active
               THEN [run[r] EXCEPT !.status = "completed", !.summary = TRUE]
               ELSE run[r]]
     ELSE UNCHANGED <<run, receipt, earned, clock>>
  /\ inbox' = {}
  /\ UNCHANGED <<msg, bridge, unsend, closing, stopping, sweep, handed, faults>>

(* set_message_read_state, read and unread.                                *)
MarkRead(m, d) ==
  /\ msg[m] = "stored" /\ receipt[m] = Unread
  /\ receipt' = [receipt EXCEPT ![m] = clock + d]
  /\ earned' = earned \cup {m}
  /\ clock' = clock + d
  /\ UNCHANGED <<run, msg, bridge, flight, handed, faults>>

MarkUnread(m) ==
  /\ msg[m] = "stored" /\ receipt[m] # Unread /\ clock <= MarkUntil
  /\ receipt' = [receipt EXCEPT ![m] = Unread]
  /\ earned' = earned \ {m}
  /\ UNCHANGED <<run, msg, clock, bridge, flight, handed, faults>>
-----------------------------------------------------------------------------
(* Delivering, and reporting it.                                           *)

(* The payload goes in front of the agent: a channel sidecar pushes it     *)
(* right after the claim, a managed bridge once the run is reported as     *)
(* running.                                                                *)
Hand(b) ==
  /\ life[b] \in {"up", "superseded"} /\ patch[b] = NoPatch
  /\ phase[b] = IF Channel THEN "claimed" ELSE "started"
  /\ phase' = [phase EXCEPT ![b] = "handed"]
  /\ handed' = [m \in Messages |-> IF m \in carried[b] THEN handed[m] + 1 ELSE handed[m]]
  /\ UNCHANGED <<rows, life, held, carried, patch, flight, faults>>

(* What bridge b may report next.  A hermes sidecar may hand the run back  *)
(* untried ("queued"); a claude sidecar completes a run that owes no reply.*)
Reports(b) ==
  CASE Mode = "claude" /\ phase[b] = "claimed" -> {"failed"}
    [] Mode = "claude" /\ phase[b] = "handed" ->
         IF carried[b] \cap NeedReply # {} THEN {"delivered"} ELSE {"completed"}
    [] Mode = "hermes" /\ phase[b] = "claimed" -> {"failed", "queued"}
    [] Mode = "hermes" /\ phase[b] = "handed" -> {"delivered"}
    [] Mode = "managed" /\ phase[b] = "claimed" -> {"running", "failed", "cancelled"}
    [] Mode = "managed" /\ phase[b] = "started" -> {"failed"}
    [] Mode = "managed" /\ phase[b] = "handed" -> {"completed", "failed", "cancelled"}
    [] OTHER -> {}

(* update_dispatch_run reads the row the report is about.                  *)
PatchRead(b, want) ==
  /\ life[b] \in {"up", "superseded"} /\ held[b] # NoRun /\ patch[b] = NoPatch
  /\ want \in Reports(b)
  /\ faults' = IF want = "queued" THEN faults + 1 ELSE faults
  /\ want = "queued" => faults < MaxFaults
  /\ patch' = [patch EXCEPT ![b] = [run |-> held[b], want |-> want,
                                    seen |-> run[held[b]].status]]
  /\ UNCHANGED <<rows, life, held, carried, phase, flight, handed>>

(* The status a report writes: a run seen terminal keeps its status.       *)
Effective(p) ==
  IF p.seen \in Terminal /\ p.want # p.seen THEN run[p.run].status ELSE p.want

(* The summary a report leaves: a sidecar's delivery clears it, the end of *)
(* a turn writes the turn's own, a hermes failure writes one, any other    *)
(* report leaves it.                                                       *)
Summaries(p) ==
  CASE Channel /\ p.want \in {"delivered", "completed"} -> {FALSE}
    [] Mode = "managed" /\ p.want = "completed" -> BOOLEAN
    [] Mode = "managed" /\ p.want = "cancelled" /\ run[p.run].started -> BOOLEAN
    [] Mode = "hermes" /\ p.want = "failed" -> {TRUE}
    [] OTHER -> {run[p.run].summary}

(* The bridge has its answer: it goes on with a started turn, and is done  *)
(* with the run after any other report.                                    *)
Answered(b) ==
  /\ patch' = [patch EXCEPT ![b] = NoPatch]
  /\ IF patch[b].want = "running"
     THEN /\ phase' = [phase EXCEPT ![b] = IF held[b] = NoRun THEN "idle" ELSE "started"]
          /\ UNCHANGED <<held, carried>>
     ELSE /\ phase' = [phase EXCEPT ![b] = "idle"]
          /\ held' = [held EXCEPT ![b] = NoRun]
          /\ carried' = [carried EXCEPT ![b] = {}]

(* The turn's own result is sent on as the reply a completed run owes      *)
(* (_mirror_missing_dispatch_handoff; not for a sidecar's delivery).       *)
Mirrored(p) == Mode = "managed" /\ Effective(p) = "completed" /\ run[p.run].require

(* update_dispatch_run writes, by run id alone.                            *)
PatchWrite(b) ==
  LET p == patch[b]
  IN /\ p # NoPatch
     /\ \E text \in Summaries(p) :
          run' = [run EXCEPT ![p.run] =
            [run[p.run] EXCEPT !.status = Effective(p), !.summary = text,
                      !.started = IF Effective(p) = "running" THEN TRUE ELSE run[p.run].started,
                      !.result = IF Mirrored(p) THEN TRUE ELSE run[p.run].result,
                      !.delivered = IF Channel /\ p.want \in {"delivered", "completed"}
                                    THEN TRUE ELSE run[p.run].delivered]]
     /\ Answered(b)
     /\ UNCHANGED <<msg, receipt, earned, clock, life, flight, handed, faults>>

(* A report that never reaches the service and is given up on.             *)
PatchLost(b) ==
  /\ life[b] \in {"up", "superseded"} /\ held[b] # NoRun /\ patch[b] = NoPatch
  /\ faults < MaxFaults
  /\ faults' = faults + 1
  /\ held' = [held EXCEPT ![b] = NoRun]
  /\ carried' = [carried EXCEPT ![b] = {}]
  /\ phase' = [phase EXCEPT ![b] = "idle"]
  /\ UNCHANGED <<rows, life, patch, flight, handed>>

(* The agent's reply is linked to its run.  A managed turn stays active    *)
(* until its bridge reports; any other open run is completed.              *)
Answers(r) ==
  run[r].status \in {"queued", "delivered"} \/ (Channel /\ run[r].status \in Active)

Reply(r) ==
  /\ run[r].status # "none" /\ ~run[r].result
  /\ \E m \in run[r].items : msg[m] = "stored"
  /\ run' = [run EXCEPT ![r] =
       [run[r] EXCEPT !.result = TRUE,
                      !.status = IF Answers(r) THEN "completed" ELSE run[r].status]]
  /\ UNCHANGED <<msg, receipt, earned, clock, bridge, flight, handed, faults>>
-----------------------------------------------------------------------------
(* The bridge's process.                                                   *)

Dropped(b) ==
  /\ held' = [held EXCEPT ![b] = NoRun]
  /\ carried' = [carried EXCEPT ![b] = {}]
  /\ phase' = [phase EXCEPT ![b] = "idle"]

(* The process dies; a report it already sent is still carried out.        *)
Crash(b) ==
  /\ life[b] \in {"up", "superseded"} /\ faults < MaxFaults
  /\ faults' = faults + 1
  /\ life' = [life EXCEPT ![b] = "down"]
  /\ Dropped(b)
  /\ UNCHANGED <<rows, patch, flight, handed>>

(* The heartbeat window of a dead process passes.                          *)
Lapse(b) ==
  /\ life[b] = "down" /\ patch[b] = NoPatch
  /\ life' = [life EXCEPT ![b] = "stale"]
  /\ UNCHANGED <<rows, held, carried, phase, patch, flight, handed, faults>>

(* A new process under the same bridge id (a sidecar's id is its agent's). *)
Restart(b) ==
  /\ life[b] \in {"down", "stale"} /\ patch[b] = NoPatch
  /\ life' = [life EXCEPT ![b] = "up"]
  /\ UNCHANGED <<rows, held, carried, phase, patch, flight, handed, faults>>

(* A live claimer the service takes for gone: its host sleeps past the     *)
(* window,                                                                 *)
Sleep(b) ==
  /\ "heartbeat" \in Misjudge
  /\ life[b] = "up" /\ patch[b] = NoPatch /\ faults < MaxFaults
  /\ faults' = faults + 1
  /\ life' = [life EXCEPT ![b] = "lapsed"]
  /\ UNCHANGED <<rows, held, carried, phase, patch, flight, handed>>

(* or another registration supersedes it, and fails the runs it had active *)
(* when it comes from the same machine.                                    *)
Replaced(b) ==
  [r \in RunIds |-> IF run[r].bridge = b /\ run[r].status \in Active
                    THEN [run[r] EXCEPT !.status = "failed"] ELSE run[r]]

Supersede(b) ==
  /\ "superseded" \in Misjudge
  /\ life[b] = "up" /\ patch[b] = NoPatch /\ faults < MaxFaults
  /\ faults' = faults + 1
  /\ life' = [life EXCEPT ![b] = "superseded"]
  /\ run' = Replaced(b) \/ run' = run
  /\ UNCHANGED <<msg, receipt, earned, clock, held, carried, phase, patch, flight, handed>>

Wake(b) ==
  /\ life[b] = "lapsed"
  /\ life' = [life EXCEPT ![b] = "up"]
  /\ UNCHANGED <<rows, held, carried, phase, patch, flight, handed, faults>>
-----------------------------------------------------------------------------
(* Taking messages back, and the operator.                                 *)

(* _delete_messages_by_ids: the messages, their receipts and the links to  *)
(* them go; the text stays in the runs that carry it.                      *)
Deleted(S) ==
  /\ msg' = [m \in Messages |-> IF m \in S THEN "gone" ELSE msg[m]]
  /\ receipt' = [m \in Messages |-> IF m \in S THEN Unread ELSE receipt[m]]

Unlinked(r, S) == IF run[r].message \in S THEN NoMessage ELSE run[r].message

(* unsend_message selects the queued runs the message opened.              *)
UnsendRead(m) ==
  /\ unsend = NoUnsend /\ msg[m] = "stored"
  /\ unsend' = [message |-> m, runs |-> {r \in RunIds : run[r].status = "queued"
                                                        /\ run[r].message = m}]
  /\ UNCHANGED <<rows, bridge, closing, inbox, stopping, sweep, handed, faults>>

(* The reply contract an unsend withdraws.                                 *)
Withdrawn(r, m) == run[r].message = m /\ run[r].status = "delivered"
                   /\ run[r].require /\ ~run[r].result

(* It cancels the runs it selected, by id; withdraws the reply a delivered *)
(* run still owes; and deletes the message.                                *)
UnsendWrite ==
  LET m == unsend.message
  IN /\ unsend # NoUnsend
     /\ run' = [r \in RunIds |->
          IF r \in unsend.runs
          THEN [run[r] EXCEPT !.status = "cancelled", !.summary = TRUE, !.message = Unlinked(r, {m})]
          ELSE IF Withdrawn(r, m)
          THEN [run[r] EXCEPT !.status = "cancelled", !.summary = TRUE, !.require = FALSE,
                              !.message = NoMessage]
          ELSE [run[r] EXCEPT !.message = Unlinked(r, {m})]]
     /\ Deleted({m})
     /\ unsend' = NoUnsend
     /\ UNCHANGED <<earned, clock, bridge, closing, inbox, stopping, sweep, handed,
                    faults>>

(* Unsending the agent's reply re-opens the contract it answered.          *)
UnsendReply(r) ==
  /\ run[r].result
  /\ run' = [run EXCEPT ![r].result = FALSE]
  /\ UNCHANGED <<msg, receipt, earned, clock, bridge, flight, handed, faults>>

(* Clearing a conversation deletes a peer's messages and the replies.      *)
ClearConversation(peer) ==
  LET S == {m \in Messages : SenderOf[m] = peer /\ msg[m] = "stored"}
  IN /\ S # {}
     /\ run' = [r \in RunIds |->
          IF \E m \in run[r].items : SenderOf[m] = peer
          THEN [run[r] EXCEPT !.message = Unlinked(r, S), !.result = FALSE]
          ELSE run[r]]
     /\ Deleted(S)
     /\ UNCHANGED <<earned, clock, bridge, flight, handed, faults>>

(* An interrupt of a run nobody has claimed cancels it.                    *)
CancelQueued(r) ==
  /\ run[r].status = "queued"
  /\ run' = [run EXCEPT ![r] = [run[r] EXCEPT !.status = "cancelled", !.summary = TRUE]]
  /\ UNCHANGED <<msg, receipt, earned, clock, bridge, flight, handed, faults>>

(* The operator closes a run: update_dispatch_run with operator_closed.    *)
CloseRead(r) ==
  /\ closing = NoClosing /\ run[r].status # "none"
  /\ closing' = [run |-> r, seen |-> run[r].status]
  /\ UNCHANGED <<rows, bridge, unsend, inbox, stopping, sweep, handed, faults>>

CloseWrite ==
  LET r == closing.run
      open == run[r].status \notin Terminal
      keep == closing.seen \in Terminal \ {"completed"}
  IN /\ closing # NoClosing
     /\ run' = [run EXCEPT ![r] =
          [run[r] EXCEPT !.status = IF open /\ ~keep THEN "completed" ELSE run[r].status,
                    !.summary = IF open THEN TRUE ELSE run[r].summary,
                    !.require = FALSE]]
     /\ closing' = NoClosing
     /\ UNCHANGED <<msg, receipt, earned, clock, bridge, unsend, inbox, stopping,
                    sweep, handed, faults>>

(* Stopping the agent cancels what it has queued.  With an active run the  *)
(* interrupt it stores comes first and opens the transaction; otherwise    *)
(* the queued runs are selected before anything is written.                *)
Queued == {r \in RunIds : run[r].status = "queued"}

Stopped(S) ==
  run' = [r \in RunIds |-> IF r \in S
                           THEN [run[r] EXCEPT !.status = "cancelled", !.summary = TRUE]
                           ELSE run[r]]

StopBusy ==
  /\ ActiveRuns # {} /\ Queued # {}
  /\ Stopped(Queued)
  /\ UNCHANGED <<msg, receipt, earned, clock, bridge, flight, handed, faults>>

StopRead ==
  /\ stopping = {} /\ ActiveRuns = {} /\ Queued # {}
  /\ stopping' = Queued
  /\ UNCHANGED <<rows, bridge, unsend, closing, inbox, sweep, handed, faults>>

StopWrite ==
  /\ stopping # {}
  /\ Stopped(stopping)
  /\ stopping' = {}
  /\ UNCHANGED <<msg, receipt, earned, clock, bridge, unsend, closing, inbox, sweep,
                 handed, faults>>
-----------------------------------------------------------------------------
(* Recovery: each job selects a run, and writes later.                     *)

(* Mutant: any registered bridge counts as a live claimer.                 *)
LiveClaimerAny == \E b \in Bridges : TRUE

(* _agent_has_live_claimer: a bridge of the target with a fresh row that   *)
(* is not superseded.                                                      *)
LiveClaimer == \E b \in Bridges : life[b] \in {"up", "down"}

(* Mutant: the heartbeat test is dropped.                                  *)
UnfreshAny(b) == TRUE

(* The claimer's row is not fresh (the requeue's test).                    *)
Unfresh(b) == b = NoBridge \/ life[b] \in {"stale", "lapsed"}

(* Mutant: receipts from before the claim are looked for.                  *)
ReceiptedEarlier(r) ==
  {m \in run[r].items : receipt[m] # Unread /\ receipt[m] < run[r].claimedAt}

Receipted(r) == {m \in run[r].items : receipt[m] # Unread /\ receipt[m] = run[r].claimedAt}

(* What each job selects; its age condition is a window that may pass.     *)
(* The active run of a superseded claimer:                                 *)
Superseded(r) == run[r].status \in Active /\ run[r].bridge # NoBridge
                 /\ life[run[r].bridge] = "superseded"

(* the active run of a claimer that stopped beating, or whose environment  *)
(* reads offline:                                                          *)
Unclaimable(r) == run[r].status \in Active /\ run[r].bridge # NoBridge
                  /\ (Unfresh(run[r].bridge) \/ "environment" \in Misjudge)

(* a claim that was never delivered:                                       *)
OrphanedClaim(r) == run[r].status = "claimed" /\ run[r].claimedAt # 0 /\ ~run[r].delivered
                    /\ Unfresh(run[r].bridge)

(* a reply nobody is left to give:                                         *)
StrandedReply(r) == run[r].status = "delivered" /\ run[r].require /\ ~run[r].result
                    /\ ~LiveClaimer

(* a delivered run that was answered, owes nothing, or is the agent's last:*)
Reconcilable(r) ==
  /\ run[r].status = "delivered"
  /\ \/ run[r].result \/ ~run[r].require
     \/ \A q \in RunIds \ {r} : run[q].status \notin {"queued"} \cup Active

(* a run that ended without reaching the agent and keeps its receipts.     *)
Unstarted(r) ==
  /\ run[r].status \in {"failed", "cancelled"} /\ run[r].claimedAt # 0
  /\ ~run[r].started /\ ~run[r].result /\ ~run[r].summary
  /\ Receipted(r) # {}

(* "orphan" ages out any active run, "reap" a queued one nobody can claim, *)
(* "terminal" the queued ones of an agent whose terminal has ended.        *)
Selects(job, r) ==
  CASE job = "superseded" -> Superseded(r)
    [] job = "discard" -> Unclaimable(r)
    [] job = "requeue" -> OrphanedClaim(r)
    [] job = "orphan" -> run[r].status \in Active
    [] job = "reap" -> run[r].status = "queued" /\ ~LiveClaimer
    [] job = "stranded" -> StrandedReply(r)
    [] job = "reconcile" -> Reconcilable(r)
    [] job = "release" -> Unstarted(r)
    [] job = "terminal" -> Channel /\ run[r].status = "queued"

SweepSelect(s, job, r) ==
  /\ sweep[s] = NoSweep /\ Selects(job, r)
  /\ sweep' = [sweep EXCEPT ![s] = [job |-> job, run |-> r, seen |-> run[r].status,
                                    bridge |-> run[r].bridge, claimedAt |-> run[r].claimedAt]]
  /\ UNCHANGED <<rows, bridge, unsend, closing, inbox, stopping, handed, faults>>

(* release_claim_receipts: the receipts stamped with the claim's time.     *)
Released(r, stamp) ==
  [m \in Messages |-> IF m \in run[r].items /\ receipt[m] = stamp THEN Unread ELSE receipt[m]]

Rescues(r) == IF run[r].requeues < RequeueLimit THEN run[r].requeues + 1 ELSE RequeueLimit

(* Mutant: the receipts of the claim are kept.                             *)
RequeueKeeping(r) ==
  /\ run' = [run EXCEPT ![r] = [run[r] EXCEPT !.status = "queued", !.bridge = NoBridge,
                                         !.claimedAt = 0, !.requeues = Rescues(r)]]
  /\ UNCHANGED receipt

Requeue(r) ==
  /\ run' = [run EXCEPT ![r] = [run[r] EXCEPT !.status = "queued", !.bridge = NoBridge,
                                         !.claimedAt = 0, !.requeues = Rescues(r)]]
  /\ receipt' = Released(r, run[r].claimedAt)

(* A settlement by run id, and one that also needs its condition to hold.  *)
Settle(r, as, text) ==
  /\ run' = [run EXCEPT ![r] =
       [run[r] EXCEPT !.status = as, !.summary = IF text THEN TRUE ELSE run[r].summary]]
  /\ UNCHANGED receipt

SettleIf(ok, r, as, text) == IF ok THEN Settle(r, as, text) ELSE UNCHANGED <<run, receipt>>

(* _fail_stale_active_run: requeue a claim that never reached the agent,   *)
(* fail any other run.  A run that leaves "claimed" between the funnel's   *)
(* own read and its UPDATE is left as it is, with the rescue counted.      *)
Discard(w) ==
  LET r == w.run
      rescue == run[r].status = "claimed" /\ ~run[r].delivered /\ run[r].requeues < RequeueLimit
  IN \/ rescue /\ Requeue(r)
     \/ ~rescue /\ Settle(r, "failed", TRUE)
     \/ /\ w.seen = "claimed" /\ run[r].status # "claimed" /\ run[r].requeues < RequeueLimit
        /\ run' = [run EXCEPT ![r].requeues = @ + 1]
        /\ UNCHANGED receipt

(* _requeue_orphaned_claimed_runs: compare-and-set on the selected claim.  *)
RequeueClaim(w) ==
  IF /\ run[w.run].status = "claimed"
     /\ run[w.run].bridge = w.bridge /\ run[w.run].claimedAt = w.claimedAt
     /\ Unfresh(w.bridge)
  THEN Requeue(w.run)
  ELSE UNCHANGED <<run, receipt>>

Swept(w) ==
  LET r == w.run
  IN CASE w.job = "superseded" -> Settle(r, "failed", TRUE)
       [] w.job = "discard" -> Discard(w)
       [] w.job = "requeue" -> RequeueClaim(w)
       [] w.job = "orphan" -> Settle(r, "failed", FALSE)
       [] w.job = "reap" -> SettleIf(run[r].status = "queued", r, "failed", FALSE)
       [] w.job = "stranded" ->
            SettleIf(run[r].status = "delivered" /\ ~run[r].result, r, "failed", TRUE)
       [] w.job = "reconcile" -> SettleIf(run[r].status = "delivered", r, "completed", TRUE)
       [] w.job = "terminal" -> SettleIf(run[r].status = "queued", r, "failed", TRUE)
       [] w.job = "release" -> receipt' = Released(r, w.claimedAt) /\ UNCHANGED run

SweepWrite(s) ==
  /\ sweep[s] # NoSweep
  /\ Swept(sweep[s])
  /\ sweep' = [sweep EXCEPT ![s] = NoSweep]
  /\ UNCHANGED <<msg, earned, clock, bridge, unsend, closing, inbox, stopping, handed,
                 faults>>
-----------------------------------------------------------------------------
Fates == UNION {[D -> {"failed", "cancelled"}] : D \in SUBSET Claimable}

ServiceStep ==
  \/ \E m \in Messages : Send(m)
  \/ "read" \in Acts /\ \E S \in SUBSET Messages : InboxRead(S)
  \/ \E d \in Elapse : InboxWrite(d)
  \/ "mark" \in Acts /\ \E m \in Messages : MarkUnread(m) \/ \E d \in Elapse : MarkRead(m, d)
  \/ "unsend" \in Acts /\ \E m \in Messages : UnsendRead(m)
  \/ UnsendWrite
  \/ "clear" \in Acts /\ \E peer \in {SenderOf[m] : m \in Messages} : ClearConversation(peer)
  \/ "reply" \in Acts /\ \E r \in RunIds : Reply(r) \/ UnsendReply(r)
  \/ "cancel" \in Acts /\ \E r \in RunIds : CancelQueued(r)
  \/ "close" \in Acts /\ \E r \in RunIds : CloseRead(r)
  \/ CloseWrite
  \/ "stop" \in Acts /\ (StopBusy \/ StopRead)
  \/ StopWrite

BridgeStep(b) ==
  \/ \E r \in RunIds, a \in RunIds \cup {NoRun}, fate \in Fates, d \in Elapse :
       Claim(b, r, a, fate, d)
  \/ Revive(b)
  \/ \E a \in RunIds \cup {NoRun}, fate \in Fates : ClaimNothing(b, a, fate)
  \/ Hand(b) \/ (\E want \in Statuses : PatchRead(b, want)) \/ PatchWrite(b) \/ PatchLost(b)
  \/ Crash(b) \/ Lapse(b) \/ Restart(b) \/ Sleep(b) \/ Wake(b) \/ Supersede(b)

SweepStep(s) ==
  \/ \E job \in Jobs \cap Acts, r \in RunIds : SweepSelect(s, job, r)
  \/ SweepWrite(s)

Next ==
  \/ ServiceStep
  \/ \E b \in Bridges : BridgeStep(b)
  \/ \E s \in Sweepers : SweepStep(s)

Spec == Init /\ [][Next]_vars

(* Fairness.  A started request finishes; an idle bridge keeps polling and *)
(* a run it could take is not withheld for ever; a bridge that holds a run *)
(* goes on with it; a dead bridge's heartbeat window passes; and every     *)
(* reconcile pass runs every job.  Nothing is assumed of crashes,          *)
(* restarts, ended terminals, people or agents.                            *)
Polls(b) == \E r \in RunIds, a \in RunIds \cup {NoRun}, d \in Elapse : Claim(b, r, a, <<>>, d)
Works(b) == Hand(b) \/ \E want \in Statuses : PatchRead(b, want)

Fairness ==
  /\ WF_vars(UnsendWrite) /\ WF_vars(CloseWrite) /\ WF_vars(StopWrite)
  /\ WF_vars(\E d \in Elapse : InboxWrite(d))
  /\ \A b \in Bridges : /\ WF_vars(Polls(b)) /\ WF_vars(Works(b))
                        /\ WF_vars(PatchWrite(b)) /\ WF_vars(Lapse(b))
  /\ \A s \in Sweepers : /\ WF_vars(SweepWrite(s))
                         /\ \A job \in (Jobs \cap Acts) \ {"terminal"}, r \in RunIds :
                              SF_vars(SweepSelect(s, job, r))

FairSpec == Spec /\ Fairness
-----------------------------------------------------------------------------
(* A run a bridge is working on is recorded as that bridge's, and is not   *)
(* back in the queue for another to take: no recovery path gives away a    *)
(* claim whose bridge is alive.                                            *)
HolderOwns ==
  \A b \in Bridges : held[b] # NoRun =>
    /\ life[b] = "up"
    /\ run[held[b]].bridge = b /\ run[held[b]].status \notin {"none", "queued"}

(* So is a run whose report is on its way, also when its bridge died.      *)
ReportOwns ==
  \A b \in Bridges : patch[b] # NoPatch =>
    /\ life[b] \in {"up", "down"}
    /\ patch[b].run # NoRun /\ patch[b].want # "none"
    /\ run[patch[b].run].bridge = b /\ run[patch[b].run].status \notin {"none", "queued"}
    /\ held[b] # NoRun => held[b] = patch[b].run

(* A run being discarded is not queued, and nobody works on it.            *)
DiscardIsLoose ==
  \A s \in Sweepers : sweep[s].job = "discard" =>
    /\ sweep[s].run # NoRun /\ run[sweep[s].run].status \notin {"none", "queued"}
    /\ \A b \in Bridges : held[b] # sweep[s].run /\ patch[b].run # sweep[s].run

(* No recovery, claim, report, crash or restart, in any order, takes a run *)
(* away from the bridge that is working on it: the inductive invariant     *)
(* behind OneHolder.                                                       *)
HolderInv ==
  /\ HolderOwns /\ ReportOwns /\ DiscardIsLoose
  /\ \A b \in Bridges : life[b] \in {"up", "down", "stale"}

(* No run is in the hands of two bridges at once, through every order of   *)
(* claim, auto-heal, requeue, report and restart.                          *)
OneHolder == \A b, c \in Bridges : held[b] = held[c] /\ held[b] # NoRun => b = c

(* What a bridge delivers is all its run carries: a later message of the   *)
(* same sender never joins a run after its payload was taken.              *)
CarriedIsItems == \A b \in Bridges : held[b] # NoRun => carried[b] = run[held[b]].items

(* The agent is given a message again only after a failure: a managed turn *)
(* never, a sidecar's push at most once more for each crash.               *)
HandedOnce ==
  \A m \in Messages : handed[m] <= IF Channel THEN 1 + faults ELSE 1

(* A receipt a claim wrote carries the claim time of the run that holds    *)
(* the message, so the sweep that matches on it can give it back.          *)
ReceiptStamped ==
  \A m \in Messages : receipt[m] # Unread /\ m \notin earned =>
    \E r \in RunIds : m \in run[r].items /\ run[r].claimedAt = receipt[m]

(* A claimed run a live, fresh bridge is delivering goes back to the queue *)
(* only when that bridge itself hands it back.                             *)
FreshClaimIsLeft ==
  [][\A r \in RunIds, b \in Bridges :
       /\ run[r].status = "claimed" /\ held[b] = r /\ life[b] = "up"
       /\ run'[r].status = "queued"
       => patch[b].run = r /\ patch[b].want = "queued"]_vars

(* Every run that is queued, claimed or running is at last delivered or    *)
(* settled, whatever crashes: by a bridge, or by the recovery that ages it *)
(* out.                                                                    *)
RunSettles ==
  \A r \in RunIds : run[r].status \in {"queued"} \cup Active
                    ~> run[r].status \in {"delivered"} \cup Terminal
=============================================================================
