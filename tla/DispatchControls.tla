-------------------------- MODULE DispatchControls --------------------------
(***************************************************************************)
(* Dispatch controls: an operator or an agent asks that an active run be   *)
(* interrupted or steered.  The service stores the request as a row, the   *)
(* agent's bridge claims the row, applies it to the live session and       *)
(* reports the outcome; the run may meanwhile end, be taken back or be     *)
(* reopened, and a sweep closes what nobody answered.                      *)
(*                                                                         *)
(* A request handler that reads before it writes is two steps; one whose   *)
(* first statement takes the write lock is one.  A report is a PATCH whose *)
(* answer can be lost and which is then sent again, so that several of the *)
(* same report can be under way in the service.                            *)
(***************************************************************************)
EXTENDS Naturals

CONSTANTS
  Runs,        \* the runs of one agent
  Controls,    \* the controls that can be asked for
  Interrupts,  \* those that interrupt; the others steer
  Bridges,     \* the processes that serve the agent, one after the other or at once
  NoRun,
  NoControl,
  Attempts,    \* how often one report is sent before its sender gives up
  MaxFaults    \* bounds the answers lost, sessions that refuse and crashes of a behaviour

ASSUME ControlsAssumption ==
  /\ Interrupts \subseteq Controls
  /\ NoRun \notin Runs
  /\ NoControl \notin Controls
  /\ Attempts \in Nat \ {0}
  /\ MaxFaults \in Nat

VARIABLES
  runtime,  \* the agent's runtime: "claude" has a channel sidecar, "codex" a dispatch loop
  run,      \* status of a run: "queued", "active" (claimed, running), "delivered", "ended"
  mine,     \* the run a dispatch loop holds in ACTIVE_RUNS
  asking,   \* the run a control request has read, and the status it read
  ctl,      \* the dispatch_controls rows
  msg,      \* the message a steer carries: "none", "stored", "gone"
  receipt,  \* the steer's message is marked read for the agent
  work,     \* what a bridge is doing with the controls it claimed
  patch,    \* the reports under way in the service, and what they have read
  picked,   \* the controls the sweep has selected and not yet closed
  applied,  \* how often a control reached the session
  notes,    \* the "you were stopped" notes stored for a control
  faults    \* the faults so far

vars == <<runtime, run, mine, asking, ctl, msg, receipt, work, patch, picked, applied, notes, faults>>

Open == {"pending", "claimed"}
Settled == {"completed", "failed"}
RunStatuses == {"queued", "active", "delivered", "ended"}

NoAsk == [run |-> NoRun, saw |-> "none"]
NoRow == [status |-> "none", run |-> NoRun, by |-> "none", noticed |-> FALSE, source |-> FALSE]
Idle == [todo |-> {}, doing |-> {}, tell |-> {}, say |-> "none", on |-> NoControl, tries |-> 0]

Init ==
  /\ runtime \in {"claude", "codex"}
  /\ run = [r \in Runs |-> "queued"]
  /\ mine = [b \in Bridges |-> NoRun]
  /\ asking = [c \in Controls |-> NoAsk]
  /\ ctl = [c \in Controls |-> NoRow]
  /\ msg = [c \in Controls |-> "none"]
  /\ receipt = [c \in Controls |-> FALSE]
  /\ work = [b \in Bridges |-> Idle]
  /\ patch = {}
  /\ picked = {}
  /\ applied = [c \in Controls |-> 0]
  /\ notes = [c \in Controls |-> 0]
  /\ faults = 0

Fault == faults < MaxFaults /\ faults' = faults + 1

-----------------------------------------------------------------------------
(* Asking for a control.                                                   *)

Unasked(c) == ctl[c].status = "none" /\ asking[c] = NoAsk

(* request_dispatch_control reads the run and refuses one it cannot act on. *)
AskRead(c, r) ==
  /\ Unasked(c)
  /\ run[r] = "active" \/ (run[r] = "queued" /\ c \in Interrupts)
  /\ asking' = [asking EXCEPT ![c] = [run |-> r, saw |-> run[r]]]
  /\ UNCHANGED <<runtime, run, mine, ctl, msg, receipt, work, patch, picked, applied, notes, faults>>

Pending(r, source) ==
  [status |-> "pending", run |-> r, by |-> "none", noticed |-> FALSE, source |-> source]

(* ... then writes.  An interrupt of a run read as queued cancels it if it  *)
(* still is, under the write lock judges it again if not; a run read as     *)
(* active is not judged again.                                              *)
AskWrite(c) ==
  LET r == asking[c].run
      cancels == asking[c].saw = "queued" /\ run[r] = "queued"
      inserts == asking[c].saw = "active" \/ run[r] = "active"
  IN  /\ asking[c] # NoAsk
      /\ asking' = [asking EXCEPT ![c] = NoAsk]
      /\ run' = IF cancels THEN [run EXCEPT ![r] = "ended"] ELSE run
      /\ ctl' = IF inserts THEN [ctl EXCEPT ![c] = Pending(r, FALSE)] ELSE ctl
      /\ UNCHANGED <<runtime, mine, msg, receipt, work, patch, picked, applied, notes, faults>>

(* A send with steer=true to a busy agent: the message and the control are  *)
(* stored in one transaction that judges the run.                           *)
Steer(c, r) ==
  /\ Unasked(c) /\ c \notin Interrupts
  /\ run[r] = "active"
  /\ ctl' = [ctl EXCEPT ![c] = Pending(r, TRUE)]
  /\ msg' = [msg EXCEPT ![c] = "stored"]
  /\ UNCHANGED <<runtime, run, mine, asking, receipt, work, patch, picked, applied, notes, faults>>

(* The message is deleted with its receipts, and the row forgets it; the    *)
(* control itself stays.                                                    *)
Unsend(c) ==
  /\ msg[c] = "stored"
  /\ msg' = [msg EXCEPT ![c] = "gone"]
  /\ ctl' = [ctl EXCEPT ![c] = [ctl[c] EXCEPT !.source = FALSE]]
  /\ receipt' = [receipt EXCEPT ![c] = FALSE]
  /\ UNCHANGED <<runtime, run, mine, asking, work, patch, picked, applied, notes, faults>>

-----------------------------------------------------------------------------
(* The bridge.                                                             *)

(* Mutant: a claim also takes rows another claim took.                      *)
ClaimableOpen(b) ==
  {c \in Controls : ctl[c].status \in Open /\ (runtime = "claude" \/ ctl[c].run = mine[b])}

(* A sidecar asks for all of the agent's pending controls, a dispatch loop  *)
(* for those of the run it holds.                                           *)
Claimable(b) ==
  {c \in Controls : /\ ctl[c].status = "pending"
                    /\ runtime = "claude" \/ ctl[c].run = mine[b]}

Claim(b) ==
  /\ work[b] = Idle /\ Claimable(b) # {}
  /\ ctl' = [c \in Controls |->
               IF c \in Claimable(b) THEN [ctl[c] EXCEPT !.status = "claimed"] ELSE ctl[c]]
  /\ \/ /\ work' = [work EXCEPT ![b] = [work[b] EXCEPT !.todo = Claimable(b)]]
        /\ UNCHANGED faults
     \/ /\ Fault              \* the answer is lost, and a claim is not sent again
        /\ UNCHANGED work
  /\ UNCHANGED <<runtime, run, mine, asking, msg, receipt, patch, picked, applied, notes>>

(* What is applied next: a sidecar pushes one control after the other; a    *)
(* dispatch loop the interrupts one by one, then all the steers as one.     *)
Batches(b) ==
  IF runtime = "claude" THEN {{c} : c \in work[b].todo}
  ELSE IF work[b].todo \cap Interrupts # {} THEN {{c} : c \in work[b].todo \cap Interrupts}
  ELSE {work[b].todo}

Telling(b, batch, outcome) ==
  [work EXCEPT ![b] = [todo |-> work[b].todo \ batch, doing |-> batch, tell |-> batch,
                       say |-> outcome, on |-> NoControl, tries |-> 0]]

Apply(b) ==
  /\ work[b].say = "none" /\ work[b].todo # {}
  /\ \E batch \in Batches(b) :
       /\ applied' = [c \in Controls |-> IF c \in batch THEN applied[c] + 1 ELSE applied[c]]
       /\ work' = Telling(b, batch, "completed")
  /\ UNCHANGED <<runtime, run, mine, asking, ctl, msg, receipt, patch, picked, notes, faults>>

(* The session refuses.  A dispatch loop answers "failed"; a sidecar's tick *)
(* ends, and what it had claimed is left.                                   *)
ApplyThrows(b) ==
  /\ work[b].say = "none" /\ work[b].todo # {}
  /\ \E batch \in Batches(b) :
       work' = IF runtime = "claude" THEN [work EXCEPT ![b] = Idle]
               ELSE Telling(b, batch, "failed")
  /\ Fault
  /\ UNCHANGED <<runtime, run, mine, asking, ctl, msg, receipt, patch, picked, applied, notes>>

Report(c, outcome, try, seen) ==
  [control |-> c, outcome |-> outcome, try |-> try, seen |-> seen]

(* The next report of the batch is sent ...                                 *)
Send(b) ==
  /\ work[b].on = NoControl /\ work[b].tell # {}
  /\ \E c \in work[b].tell :
       /\ work' = [work EXCEPT ![b] = [work[b] EXCEPT !.on = c, !.tries = 1]]
       /\ patch' = patch \cup {Report(c, work[b].say, 1, "nothing")}
  /\ UNCHANGED <<runtime, run, mine, asking, ctl, msg, receipt, picked, applied, notes, faults>>

(* ... again when its answer does not come ...                              *)
Retry(b) ==
  /\ work[b].on # NoControl /\ work[b].tries < Attempts
  /\ work' = [work EXCEPT ![b] = [work[b] EXCEPT !.tries = work[b].tries + 1]]
  /\ patch' = patch \cup {Report(work[b].on, work[b].say, work[b].tries + 1, "nothing")}
  /\ Fault
  /\ UNCHANGED <<runtime, run, mine, asking, ctl, msg, receipt, picked, applied, notes>>

(* ... and answered.                                                        *)
Answered(b) ==
  LET rest == work[b].tell \ {work[b].on}
  IN  /\ work[b].on # NoControl
      /\ \A seen \in {"nothing", "row", "source"} :
           Report(work[b].on, work[b].say, work[b].tries, seen) \notin patch
      /\ work' = [work EXCEPT ![b] =
                    [work[b] EXCEPT !.tell = rest, !.on = NoControl, !.tries = 0,
                                    !.doing = IF rest = {} THEN {} ELSE work[b].doing,
                                    !.say = IF rest = {} THEN "none" ELSE work[b].say]]
      /\ UNCHANGED <<runtime, run, mine, asking, ctl, msg, receipt, patch, picked, applied, notes, faults>>

(* The report throws.  A dispatch loop whose "completed" did not get        *)
(* through answers "failed" for the whole batch; in every other case the    *)
(* pass ends and leaves the controls it still held.                         *)
GiveUp(b) ==
  /\ work[b].on # NoControl
  /\ work' = IF runtime = "codex" /\ work[b].say = "completed"
             THEN Telling(b, work[b].doing, "failed")
             ELSE [work EXCEPT ![b] = Idle]
  /\ Fault
  /\ UNCHANGED <<runtime, run, mine, asking, ctl, msg, receipt, patch, picked, applied, notes>>

Crash(b) ==
  /\ work[b] # Idle \/ mine[b] # NoRun
  /\ work' = [work EXCEPT ![b] = Idle]
  /\ mine' = [mine EXCEPT ![b] = NoRun]
  /\ Fault
  /\ UNCHANGED <<runtime, run, asking, ctl, msg, receipt, patch, picked, applied, notes>>

-----------------------------------------------------------------------------
(* The report in the service: update_dispatch_control reads the row, then   *)
(* writes the outcome whatever the row has become.                          *)

PatchRead(p) ==
  /\ p.seen = "nothing"
  /\ patch' = (patch \ {p}) \cup
                {[p EXCEPT !.seen = IF ctl[p.control].source THEN "source" ELSE "row"]}
  /\ UNCHANGED <<runtime, run, mine, asking, ctl, msg, receipt, work, picked, applied, notes, faults>>

(* Mutant: the message is not looked up again.                              *)
MarksReadUnasked(p) == p.outcome = "completed" /\ p.seen = "source"

(* A completed steer marks its message read, if it still exists.            *)
MarksRead(p) == p.outcome = "completed" /\ p.seen = "source" /\ msg[p.control] = "stored"

(* Mutant: the note is not claimed.                                         *)
TakesNoteAgain(p) == p.outcome = "completed" /\ p.control \in Interrupts

(* A completed interrupt is noted once: the first settlement to claim the   *)
(* note stores it, for a claude agent.                                      *)
TakesNote(p) == p.outcome = "completed" /\ p.control \in Interrupts /\ ~ctl[p.control].noticed

PatchWrite(p) ==
  LET c == p.control
  IN  /\ p.seen # "nothing"
      /\ patch' = patch \ {p}
      /\ ctl' = [ctl EXCEPT ![c] = [ctl[c] EXCEPT !.status = p.outcome, !.by = "bridge",
                                     !.noticed = ctl[c].noticed \/ TakesNote(p)]]
      /\ receipt' = [receipt EXCEPT ![c] = receipt[c] \/ MarksRead(p)]
      /\ notes' = IF TakesNote(p) /\ runtime = "claude" THEN [notes EXCEPT ![c] = notes[c] + 1]
                  ELSE notes
      /\ UNCHANGED <<runtime, run, mine, asking, msg, work, picked, applied, faults>>

-----------------------------------------------------------------------------
(* The run's own life, as far as a control can tell.                       *)

Start(b, r) ==
  /\ run[r] = "queued" /\ mine[b] = NoRun
  /\ run' = [run EXCEPT ![r] = "active"]
  /\ mine' = IF runtime = "codex" THEN [mine EXCEPT ![b] = r] ELSE mine
  /\ UNCHANGED <<runtime, asking, ctl, msg, receipt, work, patch, picked, applied, notes, faults>>

(* The dispatch loop's turn is over; a pass over its controls keeps the     *)
(* run's handle until it ends.                                              *)
Leave(b) ==
  /\ work[b] = Idle /\ mine[b] # NoRun
  /\ mine' = [mine EXCEPT ![b] = NoRun]
  /\ UNCHANGED <<runtime, run, asking, ctl, msg, receipt, work, patch, picked, applied, notes, faults>>

(* A delivery, a recovery to the queue, a reaper's or an unsend's ending,   *)
(* and a late report that reopens a run: the controls are left alone.       *)
RunMoves ==
  {<<"active", "delivered">>, <<"active", "queued">>, <<"queued", "ended">>, <<"active", "ended">>,
   <<"delivered", "ended">>, <<"ended", "delivered">>, <<"ended", "active">>}

Move(r) ==
  /\ \E m \in RunMoves : run[r] = m[1] /\ run' = [run EXCEPT ![r] = m[2]]
  /\ UNCHANGED <<runtime, mine, asking, ctl, msg, receipt, work, patch, picked, applied, notes, faults>>

Failed(row, by) == [row EXCEPT !.status = "failed", !.by = by]

(* A settling report (also of a run that has ended), a discard, an          *)
(* auto-heal or an agent's removal ends the run and fails its open controls *)
(* in the same transaction.                                                 *)
Finish(r) ==
  /\ run' = [run EXCEPT ![r] = "ended"]
  /\ ctl' = [c \in Controls |-> IF ctl[c].run = r /\ ctl[c].status \in Open
                                THEN Failed(ctl[c], ctl[c].by) ELSE ctl[c]]
  /\ UNCHANGED <<runtime, mine, asking, msg, receipt, work, patch, picked, applied, notes, faults>>

(* Mutant: claimed rows are not swept.                                      *)
StuckPending == {c \in Controls : ctl[c].status = "pending" /\ run[ctl[c].run] = "ended"}

(* _close_controls_for_ended_runs selects ...                               *)
Stuck == {c \in Controls : ctl[c].status \in Open /\ run[ctl[c].run] = "ended"}

SweepSelect ==
  /\ picked = {} /\ Stuck # {}
  /\ picked' = Stuck
  /\ UNCHANGED <<runtime, run, mine, asking, ctl, msg, receipt, work, patch, applied, notes, faults>>

(* Mutant: the write does not look at the status again.                     *)
SweepCloseAll ==
  /\ picked # {}
  /\ picked' = {}
  /\ ctl' = [c \in Controls |-> IF c \in picked THEN Failed(ctl[c], "reconcile") ELSE ctl[c]]
  /\ UNCHANGED <<runtime, run, mine, asking, msg, receipt, work, patch, applied, notes, faults>>

(* ... and closes those that are still open.                                *)
SweepClose ==
  /\ picked # {}
  /\ picked' = {}
  /\ ctl' = [c \in Controls |-> IF c \in picked /\ ctl[c].status \in Open
                                THEN Failed(ctl[c], "reconcile") ELSE ctl[c]]
  /\ UNCHANGED <<runtime, run, mine, asking, msg, receipt, work, patch, applied, notes, faults>>

-----------------------------------------------------------------------------
Next ==
  \/ \E c \in Controls : AskWrite(c) \/ Unsend(c)
  \/ \E c \in Controls, r \in Runs : AskRead(c, r) \/ Steer(c, r)
  \/ \E b \in Bridges : \/ Claim(b) \/ Apply(b) \/ ApplyThrows(b) \/ Send(b) \/ Retry(b)
                        \/ Answered(b) \/ GiveUp(b) \/ Crash(b) \/ Leave(b)
  \/ \E p \in patch : PatchRead(p) \/ PatchWrite(p)
  \/ \E b \in Bridges, r \in Runs : Start(b, r)
  \/ \E r \in Runs : Move(r) \/ Finish(r)
  \/ SweepSelect
  \/ SweepClose

Spec == Init /\ [][Next]_vars

(* The sweep is a periodic task of the service and keeps running.           *)
FairSpec == Spec /\ WF_vars(SweepSelect) /\ WF_vars(SweepClose)

-----------------------------------------------------------------------------
Rows == [status : {"none"} \cup Open \cup Settled, run : Runs \cup {NoRun},
         by : {"none", "bridge", "reconcile"}, noticed : BOOLEAN, source : BOOLEAN]
Works == [todo : SUBSET Controls, doing : SUBSET Controls, tell : SUBSET Controls,
          say : {"none"} \cup Settled, on : Controls \cup {NoControl}, tries : 0..Attempts]

Reports == [control : Controls, outcome : Settled, try : 1..Attempts,
            seen : {"nothing", "row", "source"}]

(* The values each piece of state can take.                                *)
TypeOK ==
  /\ runtime \in {"claude", "codex"}
  /\ run \in [Runs -> RunStatuses]
  /\ mine \in [Bridges -> Runs \cup {NoRun}]
  /\ asking \in [Controls -> [run : Runs \cup {NoRun}, saw : {"none", "queued", "active"}]]
  /\ ctl \in [Controls -> Rows]
  /\ msg \in [Controls -> {"none", "stored", "gone"}]
  /\ receipt \in [Controls -> BOOLEAN]
  /\ work \in [Bridges -> Works]
  /\ patch \subseteq Reports
  /\ picked \subseteq Controls
  /\ applied \in [Controls -> Nat]
  /\ notes \in [Controls -> Nat]
  /\ faults \in 0..MaxFaults

(* A control reaches the session at most once: a claim takes only pending   *)
(* rows and nothing makes a row pending again, whatever crashes, is lost or *)
(* is swept.                                                                *)
AppliedOnce == \A c \in Controls : applied[c] <= 1

(* A control is "completed", its message marked read or its note stored     *)
(* only if it reached the session, though the answer of any report can be   *)
(* lost and the report sent again.                                          *)
CompletedWasApplied ==
  \A c \in Controls :
    ctl[c].status = "completed" \/ receipt[c] \/ notes[c] > 0 => applied[c] = 1

(* However often an interrupt is settled, one note is stored.               *)
OneNotice == \A c \in Controls : notes[c] <= 1

(* A receipt always belongs to a stored message, though a message can be    *)
(* unsent between the read and the write of the settlement of its steer.    *)
ReceiptHasMessage == \A c \in Controls : receipt[c] => msg[c] = "stored"

(* Why the invariants above hold.  A row exists, names its run and has no   *)
(* trace of a bridge before it is claimed ...                               *)
Unclaimed(c) == ctl[c].status \in {"none", "pending"}

RowInv ==
  \A c \in Controls :
    /\ ctl[c].status # "none" => ctl[c].run \in Runs
    /\ asking[c] # NoAsk => asking[c].run \in Runs /\ ctl[c].status = "none"
    /\ Unclaimed(c) => applied[c] = 0 /\ notes[c] = 0 /\ ~receipt[c]
    /\ notes[c] > 0 => ctl[c].noticed

(* ... one bridge holds what has not been applied, and says "completed"     *)
(* only of what has ...                                                     *)
WorkInv ==
  \A b \in Bridges :
    /\ work[b].tell \subseteq work[b].doing
    /\ work[b].say = "none" => work[b].tell = {}
    /\ work[b].on # NoControl => work[b].on \in work[b].tell
    /\ \A c \in work[b].todo \cup work[b].doing : ~Unclaimed(c)
    /\ \A c \in work[b].doing : work[b].say = "completed" => applied[c] = 1

HeldInv ==
  \A b \in Bridges : \A c \in work[b].todo :
    /\ applied[c] = 0
    /\ \A other \in Bridges : c \notin work[other].doing /\ (c \in work[other].todo => other = b)

(* ... and a report under way is about a control that was claimed.          *)
PatchInv ==
  \A p \in patch : ~Unclaimed(p.control) /\ (p.outcome = "completed" => applied[p.control] = 1)

ControlInv == RowInv /\ WorkInv /\ HeldInv /\ PatchInv

(* What a step may do to a settled row.                                     *)
OutcomeKept(c) ==
  ctl[c].status \in Settled =>
    /\ ctl'[c].status \in Settled
    /\ ctl'[c].status # ctl[c].status => ctl'[c].by = "bridge"
    /\ ctl[c].by = "bridge" => ctl'[c].by = "bridge"

(* What a bridge reported stands: a settled control stays settled, and only *)
(* another report of the bridge changes how.  The sweep and the endings of  *)
(* a run never overwrite an outcome.                                        *)
RealOutcomeKept == [][\A c \in Controls : OutcomeKept(c)]_vars

(* A control whose run has ended for good is settled, even if the bridge    *)
(* that claimed it died.                                                    *)
ControlSettles ==
  \A c \in Controls :
    <>[](ctl[c].status # "none" /\ ctl[c].run \in Runs /\ run[ctl[c].run] = "ended")
      => <>(ctl[c].status \in Settled)
=============================================================================
