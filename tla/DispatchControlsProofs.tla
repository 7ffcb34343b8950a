----------------------- MODULE DispatchControlsProofs -----------------------
(***************************************************************************)
(* DispatchControls for every number of runs, controls, bridges, retries   *)
(* and faults.  The inductive invariant Inv adds ControlInv to the four    *)
(* safety invariants: what has not been applied is in one bridge's hands,  *)
(* and "completed" is said, sent or stored only of what has been applied.  *)
(* Each lemma XKeeps shows that action X preserves Inv.                    *)
(***************************************************************************)
EXTENDS DispatchControls, TLAPS

(* The invariants the runs check.                                          *)
Outcomes == AppliedOnce /\ CompletedWasApplied /\ OneNotice /\ ReceiptHasMessage

Inv == TypeOK /\ ControlInv /\ Outcomes

(* A row may be replaced by one that is no further from the bridge and not *)
(* newly completed: what claims, endings and the sweep do.                 *)
RowMayFollow(old, new) ==
  /\ new.run = old.run /\ new.noticed = old.noticed
  /\ new.status = "none" <=> old.status = "none"
  /\ new.status = "completed" => old.status = "completed"
  /\ new.status \in {"none", "pending"} => old.status \in {"none", "pending"}

SameRows ==
  /\ ctl' \in [Controls -> Rows]
  /\ \A c \in Controls : RowMayFollow(ctl[c], ctl'[c])

(* The rows those steps write are of that kind.                            *)
LEMMA FailedRow ==
  ASSUME NEW row \in Rows, row.status \in Open, NEW by \in {"none", "bridge", "reconcile"}
  PROVE  Failed(row, by) \in Rows /\ RowMayFollow(row, Failed(row, by))
BY DEF Failed, Rows, RowMayFollow, Open, Settled

(* The same of a claim ...                                                *)
LEMMA ClaimedRow ==
  ASSUME NEW row \in Rows, row.status = "pending"
  PROVE  /\ [row EXCEPT !.status = "claimed"] \in Rows
         /\ RowMayFollow(row, [row EXCEPT !.status = "claimed"])
BY DEF Rows, RowMayFollow, Open, Settled

(* ... and of an unsend.                                                   *)
LEMMA UnsentRow ==
  ASSUME NEW row \in Rows
  PROVE  /\ [row EXCEPT !.source = FALSE] \in Rows
         /\ RowMayFollow(row, [row EXCEPT !.source = FALSE])
         /\ [row EXCEPT !.source = FALSE].status = row.status
BY DEF Rows, RowMayFollow, Open, Settled

(* An idle bridge is well-typed.                                           *)
LEMMA IdleTyped == Idle \in Works
BY ControlsAssumption DEF Idle, Works

(* The fault counter keeps its bound.                                      *)
LEMMA FaultTyped ==
  ASSUME TypeOK, Fault
  PROVE  faults' \in 0..MaxFaults
BY ControlsAssumption DEF TypeOK, Fault

(* What is applied next was claimed.                                       *)
LEMMA BatchIsClaimed ==
  ASSUME NEW b \in Bridges, NEW batch \in Batches(b)
  PROVE  batch \subseteq work[b].todo
BY DEF Batches

(* A request that only reads.                                              *)
LEMMA AskReadKeeps ==
  ASSUME Inv, NEW c \in Controls, NEW r \in Runs, AskRead(c, r)
  PROVE  Inv'
<1>1. TypeOK'
  BY DEF Inv, TypeOK, AskRead
<1>2. RowInv'
  BY DEF Inv, ControlInv, RowInv, Unclaimed, AskRead, Unasked
<1>3. WorkInv'
  BY DEF Inv, ControlInv, WorkInv, Unclaimed, AskRead
<1>4. HeldInv'
  BY DEF Inv, ControlInv, HeldInv, AskRead
<1>5. PatchInv'
  BY DEF Inv, ControlInv, PatchInv, Unclaimed, AskRead
<1>6. Outcomes'
  BY DEF Inv, Outcomes, AppliedOnce, CompletedWasApplied, OneNotice, ReceiptHasMessage, AskRead
<1> QED BY <1>1, <1>2, <1>3, <1>4, <1>5, <1>6 DEF Inv, ControlInv

(* A cancelled run, or a new row.                                          *)
LEMMA AskWriteKeeps ==
  ASSUME Inv, NEW c \in Controls, AskWrite(c)
  PROVE  Inv'
<1>0. \A d \in Controls : Unclaimed(d)' <=> Unclaimed(d)
  BY DEF Inv, ControlInv, RowInv, AskWrite, Pending, Unclaimed, TypeOK
<1>1. TypeOK'
  <2>1. Pending(asking[c].run, FALSE) \in Rows
    BY DEF Inv, TypeOK, Pending, Rows, Open
  <2>2. NoAsk \in [run : Runs \cup {NoRun}, saw : {"none", "queued", "active"}]
    BY DEF NoAsk
  <2> QED BY <2>1, <2>2 DEF Inv, TypeOK, AskWrite, RunStatuses
<1>2. RowInv'
  BY DEF Inv, ControlInv, RowInv, Unclaimed, TypeOK, AskWrite, Pending
<1>3. WorkInv'
  BY <1>0 DEF Inv, ControlInv, AskWrite, WorkInv, TypeOK, Works
<1>4. HeldInv'
  BY DEF Inv, ControlInv, HeldInv, AskWrite
<1>5. PatchInv'
  BY <1>0 DEF Inv, ControlInv, AskWrite, PatchInv, TypeOK, Reports
<1>6. Outcomes'
  BY DEF Inv, Outcomes, AppliedOnce, CompletedWasApplied, OneNotice, ReceiptHasMessage,
         AskWrite, Pending
<1> QED BY <1>1, <1>2, <1>3, <1>4, <1>5, <1>6 DEF Inv, ControlInv

(* A new row with its message.                                             *)
LEMMA SteerKeeps ==
  ASSUME Inv, NEW c \in Controls, NEW r \in Runs, Steer(c, r)
  PROVE  Inv'
<1>1. TypeOK'
  BY DEF Inv, TypeOK, Rows, Works, Reports, Open, Settled, Steer, Unasked, Pending
<1>2. RowInv'
  BY DEF Inv, ControlInv, RowInv, Unclaimed, Steer, Unasked, Pending
<1>3. WorkInv'
  BY DEF Inv, ControlInv, WorkInv, Unclaimed, Steer, Unasked, Pending
<1>4. HeldInv'
  BY DEF Inv, ControlInv, HeldInv, Steer
<1>5. PatchInv'
  BY DEF Inv, ControlInv, PatchInv, Unclaimed, Steer, Unasked, Pending
<1>6. Outcomes'
  BY DEF Inv, Outcomes, AppliedOnce, CompletedWasApplied, OneNotice, ReceiptHasMessage, Steer,
         Unasked, Pending
<1> QED BY <1>1, <1>2, <1>3, <1>4, <1>5, <1>6 DEF Inv, ControlInv

(* A deleted message takes its receipt along.                              *)
LEMMA UnsendKeeps ==
  ASSUME Inv, NEW c \in Controls, Unsend(c)
  PROVE  Inv'
<1>0. SameRows /\ \A d \in Controls : ctl'[d].status = ctl[d].status
  <2>1. ctl' = [d \in Controls |-> IF d = c THEN [ctl[c] EXCEPT !.source = FALSE] ELSE ctl[d]]
    BY DEF Unsend, Inv, TypeOK
  <2> QED BY <2>1, UnsentRow DEF SameRows, RowMayFollow, Inv, TypeOK
<1>1. TypeOK'
  BY <1>0 DEF Inv, Unsend, SameRows, TypeOK, RunStatuses, Works
<1>2. RowInv'
  BY <1>0 DEF Inv, ControlInv, Unsend, SameRows, RowMayFollow, Unclaimed, RowInv, TypeOK
<1>3. WorkInv'
  BY <1>0 DEF Inv, ControlInv, Unsend, SameRows, RowMayFollow, Unclaimed, WorkInv, TypeOK, Works
<1>4. HeldInv'
  BY <1>0 DEF Inv, ControlInv, Unsend, HeldInv, TypeOK, Works
<1>5. PatchInv'
  BY <1>0 DEF Inv, ControlInv, Unsend, SameRows, RowMayFollow, Unclaimed, PatchInv, TypeOK,
              Reports
<1>6. Outcomes'
  BY <1>0 DEF Inv, ControlInv, Unsend, SameRows, RowMayFollow, Unclaimed, Outcomes,
              AppliedOnce, CompletedWasApplied, OneNotice, ReceiptHasMessage, TypeOK
<1> QED BY <1>1, <1>2, <1>3, <1>4, <1>5, <1>6 DEF Inv, ControlInv

(* A claim takes rows no bridge holds.                                     *)
LEMMA ClaimKeeps ==
  ASSUME Inv, NEW b \in Bridges, Claim(b)
  PROVE  Inv'
<1>0. SameRows
  <2>1. \A c \in Controls : ctl'[c] \in Rows /\ RowMayFollow(ctl[c], ctl'[c])
    <3> SUFFICES ASSUME NEW c \in Controls
                 PROVE  ctl'[c] \in Rows /\ RowMayFollow(ctl[c], ctl'[c])
      OBVIOUS
    <3>1. CASE c \in Claimable(b)
      <4>1. ctl[c].status = "pending"
        BY <3>1 DEF Claimable
      <4>2. ctl'[c] = [ctl[c] EXCEPT !.status = "claimed"]
        BY <3>1 DEF Claim
      <4> QED BY <4>1, <4>2, ClaimedRow DEF Inv, TypeOK
    <3>2. CASE c \notin Claimable(b)
      BY <3>2 DEF Claim, Inv, TypeOK, RowMayFollow
    <3> QED BY <3>1, <3>2
  <2> QED BY <2>1 DEF SameRows, Claim
<1> DEFINE taken == [work[b] EXCEPT !.todo = Claimable(b)]
<1>a. /\ taken \in Works
      /\ taken.todo = Claimable(b) /\ taken.doing = {} /\ taken.tell = {}
      /\ taken.say = "none" /\ taken.on = NoControl
  <2>1. taken = [Idle EXCEPT !.todo = Claimable(b)] /\ Claimable(b) \subseteq Controls
    BY DEF Claim, Claimable
  <2> QED BY <2>1, ControlsAssumption DEF Idle, Works
<1>b. /\ work' = work \/ work' = [work EXCEPT ![b] = taken]
      /\ faults' \in 0..MaxFaults
  BY ControlsAssumption DEF Claim, Fault, Inv, TypeOK
<1>c. \A c \in Claimable(b) : c \in Controls /\ Unclaimed(c) /\ ~Unclaimed(c)'
  <2>1. \A c \in Claimable(b) : ctl'[c] = [ctl[c] EXCEPT !.status = "claimed"]
    BY DEF Claim, Claimable
  <2>2. \A c \in Claimable(b) : ctl[c] \in Rows
    BY DEF Claimable, Inv, TypeOK
  <2>3. \A c \in Claimable(b) : ctl'[c].status = "claimed"
    BY <2>1, <2>2 DEF Rows
  <2> QED BY <2>3 DEF Claimable, Unclaimed
<1> HIDE DEF taken
<1>1. TypeOK'
  BY <1>0, <1>a, <1>b DEF Inv, TypeOK, Claim, SameRows
<1>2. RowInv'
  BY <1>0 DEF Inv, ControlInv, Claim, SameRows, RowMayFollow, Unclaimed, RowInv, TypeOK
<1>3. WorkInv'
  <2>1. \A c \in Controls : Unclaimed(c)' => Unclaimed(c)
    BY <1>0 DEF SameRows, RowMayFollow, Unclaimed
  <2>2. CASE work' = work
    BY <2>1, <2>2 DEF Inv, ControlInv, Claim, WorkInv, TypeOK, Works
  <2>3. CASE work' = [work EXCEPT ![b] = taken]
    BY <1>a, <1>c, <2>1, <2>3 DEF Inv, ControlInv, Claim, WorkInv, TypeOK, Works
  <2> QED BY <1>b, <2>2, <2>3
<1>4. HeldInv'
  <2>1. \A c \in Claimable(b) : applied[c] = 0
    BY <1>c DEF Inv, ControlInv, RowInv
  <2>2. \A c \in Claimable(b), d \in Bridges : c \notin work[d].todo /\ c \notin work[d].doing
    BY <1>c DEF Inv, ControlInv, WorkInv
  <2>3. CASE work' = work
    BY <2>3 DEF Inv, ControlInv, Claim, HeldInv
  <2>4. CASE work' = [work EXCEPT ![b] = taken]
    BY <1>a, <2>1, <2>2, <2>4 DEF Inv, ControlInv, Claim, HeldInv, TypeOK, Works
  <2> QED BY <1>b, <2>3, <2>4
<1>5. PatchInv'
  BY <1>0 DEF Inv, ControlInv, Claim, SameRows, RowMayFollow, Unclaimed, PatchInv, TypeOK, Reports
<1>6. Outcomes'
  BY <1>0 DEF Inv, ControlInv, Claim, SameRows, RowMayFollow, Unclaimed, Outcomes, AppliedOnce,
              CompletedWasApplied, OneNotice, ReceiptHasMessage, TypeOK
<1> QED BY <1>1, <1>2, <1>3, <1>4, <1>5, <1>6 DEF Inv, ControlInv

(* What is applied leaves the todo of the only bridge that had it.         *)
LEMMA ApplyKeeps ==
  ASSUME Inv, NEW b \in Bridges, Apply(b)
  PROVE  Inv'
<1>p. PICK batch \in Batches(b) :
        /\ applied' = [c \in Controls |-> IF c \in batch THEN applied[c] + 1 ELSE applied[c]]
        /\ work' = Telling(b, batch, "completed")
  BY DEF Apply
<1>s. batch \subseteq work[b].todo /\ batch \subseteq Controls
  BY BatchIsClaimed DEF Inv, TypeOK, Works
<1> DEFINE next == [todo |-> work[b].todo \ batch, doing |-> batch, tell |-> batch,
                    say |-> "completed", on |-> NoControl, tries |-> 0]
<1>w. work' = [work EXCEPT ![b] = next] /\ next \in Works
  BY <1>p, <1>s, ControlsAssumption DEF Telling, Inv, TypeOK, Works, Settled
<1>n. /\ \A c \in batch : ~Unclaimed(c) /\ applied[c] = 0 /\ applied'[c] = 1
      /\ \A c \in Controls \ batch : applied'[c] = applied[c]
  BY <1>p, <1>s DEF Inv, ControlInv, WorkInv, HeldInv, TypeOK
<1>v. UNCHANGED <<runtime, run, mine, asking, ctl, msg, receipt, patch, picked, notes, faults>>
  BY DEF Apply
<1>f. /\ next.tell = batch /\ next.doing = batch /\ next.todo = work[b].todo \ batch
      /\ next.say = "completed" /\ next.on = NoControl
  OBVIOUS
<1>u. \A c \in Controls : Unclaimed(c)' <=> Unclaimed(c)
  BY <1>v DEF Unclaimed
<1> HIDE DEF next
<1>1. TypeOK'
  BY <1>p, <1>w DEF Inv, TypeOK, Apply
<1>2. RowInv'
  BY <1>n, <1>u, <1>v DEF Inv, ControlInv, RowInv, TypeOK
<1>3. WorkInv'
  <2>1. \A d \in Bridges \ {b} : work'[d] = work[d] /\ work[d].doing \cap batch = {}
    BY <1>s, <1>w DEF Inv, ControlInv, HeldInv, TypeOK
  <2>2. work'[b] = next
    BY <1>w DEF Inv, TypeOK
  <2> QED BY <1>s, <1>n, <1>f, <1>u, <2>1, <2>2 DEF Inv, ControlInv, WorkInv, TypeOK, Works
<1>4. HeldInv'
  <2>1. \A d \in Bridges \ {b} : work'[d] = work[d] /\ work[d].todo \cap batch = {}
    BY <1>s, <1>w DEF Inv, ControlInv, HeldInv, TypeOK
  <2>2. work'[b] = next
    BY <1>w DEF Inv, TypeOK
  <2> SUFFICES ASSUME NEW d \in Bridges, NEW c \in work'[d].todo
               PROVE  /\ applied'[c] = 0
                      /\ \A other \in Bridges :
                           c \notin work'[other].doing /\ (c \in work'[other].todo => other = d)
    BY DEF HeldInv
  <2>3. c \in work[d].todo /\ c \notin batch /\ c \in Controls
    BY <1>f, <2>1, <2>2 DEF Inv, TypeOK, Works
  <2>4. applied'[c] = 0
    BY <1>n, <2>3 DEF Inv, ControlInv, HeldInv
  <2>5. ASSUME NEW other \in Bridges
        PROVE  c \notin work'[other].doing /\ (c \in work'[other].todo => other = d)
    BY <1>f, <2>1, <2>2, <2>3 DEF Inv, ControlInv, HeldInv
  <2> QED BY <2>4, <2>5
<1>5. PatchInv'
  <2>1. \A p \in patch : p.outcome = "completed" => p.control \notin batch
    BY <1>s, <1>n DEF Inv, ControlInv, PatchInv, TypeOK, Reports
  <2> QED BY <1>n, <1>u, <1>v, <2>1 DEF Inv, ControlInv, PatchInv, TypeOK, Reports
<1>6. Outcomes'
  BY <1>n, <1>v DEF Inv, Outcomes, AppliedOnce, CompletedWasApplied, OneNotice,
                    ReceiptHasMessage, TypeOK
<1> QED BY <1>1, <1>2, <1>3, <1>4, <1>5, <1>6 DEF Inv, ControlInv

(* A refusal says "failed".                                                *)
LEMMA ApplyThrowsKeeps ==
  ASSUME Inv, NEW b \in Bridges, ApplyThrows(b)
  PROVE  Inv'
<1>p. PICK batch \in Batches(b) :
        work' = IF runtime = "claude" THEN [work EXCEPT ![b] = Idle]
                ELSE Telling(b, batch, "failed")
  BY DEF ApplyThrows
<1>s. batch \subseteq work[b].todo /\ batch \subseteq Controls
  BY BatchIsClaimed DEF Inv, TypeOK, Works
<1> DEFINE next == [todo |-> work[b].todo \ batch, doing |-> batch, tell |-> batch,
                    say |-> "failed", on |-> NoControl, tries |-> 0]
<1>i. Idle \in Works
  BY ControlsAssumption DEF Idle, Works
<1>w. /\ next \in Works
      /\ work' = [work EXCEPT ![b] = Idle] \/ work' = [work EXCEPT ![b] = next]
      /\ faults' \in 0..MaxFaults
  <2>1. next \in Works
    <3>1. work[b].todo \ batch \subseteq Controls /\ 0 \in 0..Attempts
      BY ControlsAssumption DEF Inv, TypeOK, Works
    <3> QED BY <1>s, <3>1 DEF Works, Settled
  <2>2. work' = [work EXCEPT ![b] = Idle] \/ work' = [work EXCEPT ![b] = next]
    BY <1>p DEF Telling
  <2>3. faults' \in 0..MaxFaults
    BY ControlsAssumption DEF ApplyThrows, Fault, Inv, TypeOK
  <2> QED BY <2>1, <2>2, <2>3
<1>f. /\ next.tell = batch /\ next.doing = batch /\ next.todo = work[b].todo \ batch
      /\ next.say = "failed" /\ next.on = NoControl
      /\ Idle.tell = {} /\ Idle.doing = {} /\ Idle.todo = {}
      /\ Idle.say = "none" /\ Idle.on = NoControl
  BY DEF Idle
<1>u. \A c \in Controls : Unclaimed(c)' <=> Unclaimed(c)
  BY DEF ApplyThrows, Unclaimed
<1> HIDE DEF next
<1>1. TypeOK'
  BY <1>i, <1>w DEF Inv, TypeOK, ApplyThrows
<1>2. RowInv'
  BY DEF Inv, ControlInv, RowInv, Unclaimed, ApplyThrows
<1>3. WorkInv'
  <2>1. CASE work' = [work EXCEPT ![b] = Idle]
    BY <1>f, <1>u, <2>1 DEF Inv, ControlInv, WorkInv, TypeOK, Works, ApplyThrows
  <2>2. CASE work' = [work EXCEPT ![b] = next]
    BY <1>s, <1>f, <1>u, <2>2 DEF Inv, ControlInv, WorkInv, TypeOK, Works, ApplyThrows
  <2> QED BY <1>w, <2>1, <2>2
<1>4. HeldInv'
  <2>1. \A c \in batch : \A other \in Bridges : c \in work[other].todo => other = b
    BY <1>s DEF Inv, ControlInv, HeldInv
  <2>2. CASE work' = [work EXCEPT ![b] = Idle]
    BY <2>2, <1>f DEF Inv, ControlInv, HeldInv, TypeOK, Works, ApplyThrows
  <2>3. CASE work' = [work EXCEPT ![b] = next]
    BY <2>1, <2>3, <1>f, <1>s DEF Inv, ControlInv, HeldInv, TypeOK, Works, ApplyThrows
  <2> QED BY <1>w, <2>2, <2>3
<1>5. PatchInv'
  BY DEF Inv, ControlInv, PatchInv, Unclaimed, ApplyThrows
<1>6. Outcomes'
  BY DEF Inv, Outcomes, AppliedOnce, CompletedWasApplied, OneNotice, ReceiptHasMessage,
         ApplyThrows
<1> QED BY <1>1, <1>2, <1>3, <1>4, <1>5, <1>6 DEF Inv, ControlInv

(* A report repeats what its bridge says.                                  *)
LEMMA SendKeeps ==
  ASSUME Inv, NEW b \in Bridges, Send(b)
  PROVE  Inv'
<1> PICK c \in work[b].tell :
      /\ work' = [work EXCEPT ![b] = [work[b] EXCEPT !.on = c, !.tries = 1]]
      /\ patch' = patch \cup {Report(c, work[b].say, 1, "nothing")}
  BY DEF Send
<1> DEFINE new == Report(c, work[b].say, 1, "nothing")
           next == [work[b] EXCEPT !.on = c, !.tries = 1]
<1>a. next \in Works /\ new \in Reports
  <2>1. work[b] \in Works /\ c \in Controls
    BY DEF Inv, TypeOK, Works
  <2>2. work[b].say \in Settled
    BY <2>1 DEF Inv, ControlInv, WorkInv, Works
  <2>3. 1 \in 1..Attempts /\ 1 \in 0..Attempts
    BY ControlsAssumption
  <2> QED BY <2>1, <2>2, <2>3 DEF Works, Reports, Report
<1>1. TypeOK'
  BY <1>a DEF Inv, TypeOK, Send
<1>2. RowInv'
  BY DEF Inv, ControlInv, RowInv, Unclaimed, Send
<1>3. WorkInv'
  BY DEF Inv, ControlInv, WorkInv, Unclaimed, Send
<1>4. HeldInv'
  BY DEF Inv, ControlInv, HeldInv, Send
<1>5. PatchInv'
  BY DEF Inv, ControlInv, PatchInv, WorkInv, Unclaimed, TypeOK, Works, Reports, Send, Report
<1>6. Outcomes'
  BY DEF Inv, Outcomes, AppliedOnce, CompletedWasApplied, OneNotice, ReceiptHasMessage, Send
<1> QED BY <1>1, <1>2, <1>3, <1>4, <1>5, <1>6 DEF Inv, ControlInv

(* So does a repeated report.                                              *)
LEMMA RetryKeeps ==
  ASSUME Inv, NEW b \in Bridges, Retry(b)
  PROVE  Inv'
<1> DEFINE new == Report(work[b].on, work[b].say, work[b].tries + 1, "nothing")
           next == [work[b] EXCEPT !.tries = work[b].tries + 1]
<1>a. next \in Works /\ new \in Reports
  <2>1. work[b] \in Works /\ work[b].on \in Controls
    BY DEF Inv, TypeOK, Works, Retry
  <2>2. work[b].say \in Settled
    BY <2>1 DEF Inv, ControlInv, WorkInv, Works, Retry
  <2>3. work[b].tries + 1 \in 1..Attempts /\ work[b].tries + 1 \in 0..Attempts
    BY <2>1, ControlsAssumption DEF Works, Retry
  <2> QED BY <2>1, <2>2, <2>3 DEF Works, Reports, Report
<1>1. TypeOK'
  <2>1. faults' \in 0..MaxFaults
    BY ControlsAssumption DEF Inv, TypeOK, Retry, Fault
  <2> QED BY <1>a, <2>1 DEF Inv, TypeOK, Retry
<1>2. RowInv'
  BY DEF Inv, ControlInv, RowInv, Unclaimed, Retry
<1>3. WorkInv'
  BY DEF Inv, ControlInv, WorkInv, Unclaimed, Retry
<1>4. HeldInv'
  BY DEF Inv, ControlInv, HeldInv, Retry
<1>5. PatchInv'
  BY DEF Inv, ControlInv, PatchInv, WorkInv, Unclaimed, TypeOK, Works, Reports, Retry, Report,
         Fault
<1>6. Outcomes'
  BY DEF Inv, Outcomes, AppliedOnce, CompletedWasApplied, OneNotice, ReceiptHasMessage, Retry
<1> QED BY <1>1, <1>2, <1>3, <1>4, <1>5, <1>6 DEF Inv, ControlInv

(* An answer ends one report.                                              *)
LEMMA AnsweredKeeps ==
  ASSUME Inv, NEW b \in Bridges, Answered(b)
  PROVE  Inv'
<1> DEFINE rest == work[b].tell \ {work[b].on}
           next == [work[b] EXCEPT !.tell = rest, !.on = NoControl, !.tries = 0,
                                   !.doing = IF rest = {} THEN {} ELSE work[b].doing,
                                   !.say = IF rest = {} THEN "none" ELSE work[b].say]
<1>a. next \in Works
  <2>1. work[b] \in Works /\ rest \subseteq Controls /\ 0 \in 0..Attempts
    BY ControlsAssumption DEF Inv, TypeOK, Works
  <2>2. CASE rest = {}
    BY <2>1, <2>2 DEF Works
  <2>3. CASE rest # {}
    BY <2>1, <2>3 DEF Works
  <2> QED BY <2>2, <2>3
<1>1. TypeOK'
  BY <1>a DEF Inv, TypeOK, Answered
<1>2. RowInv'
  BY DEF Inv, ControlInv, RowInv, Unclaimed, Answered
<1>3. WorkInv'
  BY DEF Inv, ControlInv, WorkInv, Unclaimed, Answered
<1>4. HeldInv'
  BY DEF Inv, ControlInv, HeldInv, Answered
<1>5. PatchInv'
  BY DEF Inv, ControlInv, PatchInv, Unclaimed, Answered
<1>6. Outcomes'
  BY DEF Inv, Outcomes, AppliedOnce, CompletedWasApplied, OneNotice, ReceiptHasMessage, Answered
<1> QED BY <1>1, <1>2, <1>3, <1>4, <1>5, <1>6 DEF Inv, ControlInv

(* A report given up turns "completed" into "failed".                      *)
LEMMA GiveUpKeeps ==
  ASSUME Inv, NEW b \in Bridges, GiveUp(b)
  PROVE  Inv'
<1> DEFINE next == [todo |-> work[b].todo \ work[b].doing, doing |-> work[b].doing,
                    tell |-> work[b].doing, say |-> "failed", on |-> NoControl, tries |-> 0]
<1>a. /\ next \in Works
      /\ next.todo = work[b].todo \ work[b].doing
      /\ next.doing = work[b].doing /\ next.tell = work[b].doing
      /\ next.say = "failed" /\ next.on = NoControl
  <2>1. work[b] \in Works /\ 0 \in 0..Attempts
    BY ControlsAssumption DEF Inv, TypeOK
  <2> QED BY <2>1 DEF Works, Settled
<1>b. work' = [work EXCEPT ![b] = Idle] \/ work' = [work EXCEPT ![b] = next]
  BY DEF GiveUp, Telling
<1> HIDE DEF next
<1>1. TypeOK'
  <2>1. work' \in [Bridges -> Works]
    BY <1>a, <1>b, IdleTyped DEF Inv, TypeOK
  <2>2. faults' \in 0..MaxFaults
    BY FaultTyped DEF Inv, GiveUp
  <2> QED BY <2>1, <2>2 DEF Inv, TypeOK, GiveUp
<1>2. RowInv'
  BY DEF Inv, ControlInv, RowInv, Unclaimed, GiveUp
<1>3. WorkInv'
  BY DEF Inv, ControlInv, WorkInv, Unclaimed, Idle, TypeOK, Works, GiveUp, Telling, Fault
<1>4. HeldInv'
  <2>1. CASE work' = [work EXCEPT ![b] = Idle]
    <3>1. Idle.todo = {} /\ Idle.doing = {}
      BY DEF Idle
    <3>2. \A d \in Bridges : work'[d] = IF d = b THEN Idle ELSE work[d]
      BY <2>1 DEF Inv, TypeOK
    <3>3. UNCHANGED applied
      BY DEF GiveUp
    <3> QED BY <3>1, <3>2, <3>3 DEF Inv, ControlInv, HeldInv
  <2>2. CASE work' = [work EXCEPT ![b] = next]
    BY <1>a, <2>2 DEF Inv, ControlInv, HeldInv, TypeOK, GiveUp
  <2> QED BY <1>b, <2>1, <2>2
<1>5. PatchInv'
  BY DEF Inv, ControlInv, PatchInv, Unclaimed, GiveUp
<1>6. Outcomes'
  BY DEF Inv, Outcomes, AppliedOnce, CompletedWasApplied, OneNotice, ReceiptHasMessage, GiveUp
<1> QED BY <1>1, <1>2, <1>3, <1>4, <1>5, <1>6 DEF Inv, ControlInv

(* A crash forgets the work.                                               *)
LEMMA CrashKeeps ==
  ASSUME Inv, NEW b \in Bridges, Crash(b)
  PROVE  Inv'
<1>1. TypeOK'
  BY IdleTyped, FaultTyped DEF Inv, TypeOK, Crash
<1>2. RowInv'
  BY DEF Inv, ControlInv, RowInv, Unclaimed, Crash
<1>3. WorkInv'
  BY DEF Inv, ControlInv, WorkInv, Unclaimed, Idle, TypeOK, Works, Crash
<1>4. HeldInv'
  BY DEF Inv, ControlInv, HeldInv, WorkInv, Unclaimed, Idle, TypeOK, Works, Crash
<1>5. PatchInv'
  BY DEF Inv, ControlInv, PatchInv, Unclaimed, Crash
<1>6. Outcomes'
  BY DEF Inv, Outcomes, AppliedOnce, CompletedWasApplied, OneNotice, ReceiptHasMessage, Crash
<1> QED BY <1>1, <1>2, <1>3, <1>4, <1>5, <1>6 DEF Inv, ControlInv

(* A report that only reads.                                               *)
LEMMA PatchReadKeeps ==
  ASSUME Inv, NEW p \in patch, PatchRead(p)
  PROVE  Inv'
<1>1. TypeOK'
  BY DEF Inv, TypeOK, Rows, Works, Reports, Open, Settled, PatchRead
<1>2. RowInv'
  BY DEF Inv, ControlInv, RowInv, Unclaimed, PatchRead
<1>3. WorkInv'
  BY DEF Inv, ControlInv, WorkInv, Unclaimed, PatchRead
<1>4. HeldInv'
  BY DEF Inv, ControlInv, HeldInv, PatchRead
<1>5. PatchInv'
  BY DEF Inv, ControlInv, PatchInv, WorkInv, Unclaimed, TypeOK, Works, Reports, PatchRead
<1>6. Outcomes'
  BY DEF Inv, Outcomes, AppliedOnce, CompletedWasApplied, OneNotice, ReceiptHasMessage, PatchRead
<1> QED BY <1>1, <1>2, <1>3, <1>4, <1>5, <1>6 DEF Inv, ControlInv

(* A settlement: the note is claimed once, the receipt needs its message.  *)
LEMMA PatchWriteKeeps ==
  ASSUME Inv, NEW p \in patch, PatchWrite(p)
  PROVE  Inv'
<1> DEFINE c == p.control
           new == [ctl[c] EXCEPT !.status = p.outcome, !.by = "bridge",
                                 !.noticed = ctl[c].noticed \/ TakesNote(p)]
<1>t. /\ c \in Controls /\ p.outcome \in Settled
      /\ ctl' = [ctl EXCEPT ![c] = new]
      /\ ~Unclaimed(c) /\ (p.outcome = "completed" => applied[c] = 1)
  BY DEF Inv, ControlInv, PatchInv, TypeOK, Reports, PatchWrite
<1>r. /\ new \in Rows
      /\ new.run = ctl[c].run /\ new.status = p.outcome
      /\ new.noticed = (ctl[c].noticed \/ TakesNote(p))
  <2>1. ctl[c] \in Rows /\ (ctl[c].noticed \/ TakesNote(p)) \in BOOLEAN
    BY <1>t DEF Inv, TypeOK, Rows
  <2> HIDE DEF c
  <2> QED BY <1>t, <2>1 DEF Rows
<1>e. /\ receipt' = [receipt EXCEPT ![c] = receipt[c] \/ MarksRead(p)]
      /\ notes' = IF TakesNote(p) /\ runtime = "claude" THEN [notes EXCEPT ![c] = notes[c] + 1]
                  ELSE notes
      /\ patch' = patch \ {p}
      /\ UNCHANGED <<runtime, run, mine, asking, msg, work, picked, applied, faults>>
  BY DEF PatchWrite
<1>u. ctl'[c] = new /\ \A d \in Controls \ {c} : ctl'[d] = ctl[d]
  BY <1>t DEF Inv, TypeOK
<1>m. MarksRead(p) => p.outcome = "completed" /\ msg[c] = "stored"
  BY DEF MarksRead
<1>k. TakesNote(p) => p.outcome = "completed" /\ ~ctl[c].noticed
  BY DEF TakesNote
<1> HIDE DEF c, new
<1>1. TypeOK'
  <2>1. notes' \in [Controls -> Nat]
    <3>1. notes[c] + 1 \in Nat
      BY <1>t DEF Inv, TypeOK
    <3> QED BY <1>e, <1>t, <3>1 DEF Inv, TypeOK
  <2>2. receipt' \in [Controls -> BOOLEAN]
    BY <1>e, <1>t, Zenon DEF Inv, TypeOK
  <2>3. ctl' \in [Controls -> Rows] /\ patch' \subseteq Reports
    BY <1>t, <1>r, <1>e DEF Inv, TypeOK
  <2> QED BY <1>e, <2>1, <2>2, <2>3 DEF Inv, TypeOK
<1>2. RowInv'
  <2> SUFFICES ASSUME NEW d \in Controls
               PROVE  /\ ctl'[d].status # "none" => ctl'[d].run \in Runs
                      /\ asking'[d] # NoAsk => asking'[d].run \in Runs /\ ctl'[d].status = "none"
                      /\ Unclaimed(d)' => applied'[d] = 0 /\ notes'[d] = 0 /\ ~receipt'[d]
                      /\ notes'[d] > 0 => ctl'[d].noticed
    BY DEF RowInv
  <2>1. CASE d = c
    <3>1. ctl'[d] = new /\ ctl[c].status # "none" /\ new.status \notin {"none", "pending"}
      BY <1>t, <1>r, <1>u, <2>1 DEF Unclaimed, Settled
    <3>2. notes'[d] > 0 => new.noticed
      <4>1. CASE TakesNote(p)
        BY <1>r, <4>1
      <4>2. CASE ~TakesNote(p)
        BY <1>e, <1>r, <2>1, <4>2 DEF Inv, ControlInv, RowInv
      <4> QED BY <4>1, <4>2
    <3>3. asking'[d] = NoAsk
      BY <1>e, <2>1, <3>1 DEF Inv, ControlInv, RowInv
    <3> QED BY <1>r, <2>1, <3>1, <3>2, <3>3 DEF Inv, ControlInv, RowInv, Unclaimed
  <2>2. CASE d # c
    <3>1. ctl'[d] = ctl[d]
      BY <1>u, <2>2
    <3>2. notes'[d] = notes[d]
      BY <1>e, <2>2 DEF Inv, TypeOK
    <3>3. receipt'[d] = receipt[d]
      BY <1>e, <2>2, Zenon DEF Inv, TypeOK
    <3> QED BY <1>e, <3>1, <3>2, <3>3 DEF Inv, ControlInv, RowInv, Unclaimed
  <2> QED BY <2>1, <2>2
<1>3. WorkInv'
  <2>1. \A d \in Controls : Unclaimed(d)' => Unclaimed(d)
    BY <1>t, <1>r, <1>u DEF Unclaimed, Settled
  <2> QED BY <1>e, <2>1 DEF Inv, ControlInv, WorkInv, TypeOK, Works
<1>4. HeldInv'
  BY <1>e DEF Inv, ControlInv, HeldInv
<1>5. PatchInv'
  <2>1. \A d \in Controls : Unclaimed(d)' => Unclaimed(d)
    BY <1>t, <1>r, <1>u DEF Unclaimed, Settled
  <2> QED BY <1>e, <2>1 DEF Inv, ControlInv, PatchInv, TypeOK, Reports
<1>6. Outcomes'
  <2>1. AppliedOnce'
    BY <1>e DEF Inv, Outcomes, AppliedOnce
  <2>2. ReceiptHasMessage'
    <3>1. \A d \in Controls : receipt'[d] => receipt[d] \/ (d = c /\ msg[c] = "stored")
      BY <1>e, <1>m, <1>t, Zenon DEF Inv, TypeOK
    <3> QED BY <1>e, <3>1 DEF Inv, Outcomes, ReceiptHasMessage
  <2>3. CompletedWasApplied'
    <3>1. \A d \in Controls : receipt'[d] => receipt[d] \/ (d = c /\ p.outcome = "completed")
      BY <1>e, <1>m, <1>t, Zenon DEF Inv, TypeOK
    <3>2. \A d \in Controls : notes'[d] > 0 => notes[d] > 0 \/ (d = c /\ p.outcome = "completed")
      BY <1>e, <1>k, <1>t DEF Inv, TypeOK
    <3>3. \A d \in Controls : ctl'[d].status = "completed"
                               => ctl[d].status = "completed" \/ (d = c /\ p.outcome = "completed")
      BY <1>r, <1>u
    <3> QED BY <1>e, <1>t, <3>1, <3>2, <3>3 DEF Inv, Outcomes, CompletedWasApplied
  <2>4. OneNotice'
    <3>1. TakesNote(p) => notes[c] = 0
      BY <1>k, <1>t DEF Inv, ControlInv, RowInv, TypeOK
    <3> QED BY <1>e, <1>t, <3>1 DEF Inv, Outcomes, OneNotice, TypeOK
  <2> QED BY <2>1, <2>2, <2>3, <2>4 DEF Outcomes
<1> QED BY <1>1, <1>2, <1>3, <1>4, <1>5, <1>6 DEF Inv, ControlInv

(* A run that ends fails its open rows.                                    *)
LEMMA FinishKeeps ==
  ASSUME Inv, NEW r \in Runs, Finish(r)
  PROVE  Inv'
<1>0. SameRows
  <2>1. \A c \in Controls : ctl'[c] \in Rows /\ RowMayFollow(ctl[c], ctl'[c])
    <3> SUFFICES ASSUME NEW c \in Controls
                 PROVE  ctl'[c] \in Rows /\ RowMayFollow(ctl[c], ctl'[c])
      OBVIOUS
    <3>1. CASE ctl[c].run = r /\ ctl[c].status \in Open
      <4>1. ctl'[c] = Failed(ctl[c], ctl[c].by)
        BY <3>1 DEF Finish
      <4>2. ctl[c].by \in {"none", "bridge", "reconcile"}
        BY DEF Inv, TypeOK, Rows
      <4> QED BY <3>1, <4>1, <4>2, FailedRow DEF Inv, TypeOK
    <3>2. CASE ~(ctl[c].run = r /\ ctl[c].status \in Open)
      BY <3>2 DEF Finish, Inv, TypeOK, RowMayFollow
    <3> QED BY <3>1, <3>2
  <2> QED BY <2>1 DEF SameRows, Finish
<1>1. TypeOK'
  BY <1>0 DEF Inv, Finish, SameRows, TypeOK, RunStatuses, Works
<1>2. RowInv'
  BY <1>0 DEF Inv, ControlInv, Finish, SameRows, RowMayFollow, Unclaimed, RowInv, TypeOK
<1>3. WorkInv'
  BY <1>0 DEF Inv, ControlInv, Finish, SameRows, RowMayFollow, Unclaimed, WorkInv, TypeOK, Works
<1>4. HeldInv'
  BY <1>0 DEF Inv, ControlInv, Finish, HeldInv, TypeOK, Works
<1>5. PatchInv'
  BY <1>0 DEF Inv, ControlInv, Finish, SameRows, RowMayFollow, Unclaimed, PatchInv, TypeOK,
              Reports
<1>6. Outcomes'
  BY <1>0 DEF Inv, ControlInv, Finish, SameRows, RowMayFollow, Unclaimed, Outcomes,
              AppliedOnce, CompletedWasApplied, OneNotice, ReceiptHasMessage, TypeOK
<1> QED BY <1>1, <1>2, <1>3, <1>4, <1>5, <1>6 DEF Inv, ControlInv

(* The sweep fails rows that are still open.                               *)
LEMMA SweepCloseKeeps ==
  ASSUME Inv, SweepClose
  PROVE  Inv'
<1>0. SameRows
  <2>1. \A c \in Controls : ctl'[c] \in Rows /\ RowMayFollow(ctl[c], ctl'[c])
    <3> SUFFICES ASSUME NEW c \in Controls
                 PROVE  ctl'[c] \in Rows /\ RowMayFollow(ctl[c], ctl'[c])
      OBVIOUS
    <3>1. CASE c \in picked /\ ctl[c].status \in Open
      <4>1. ctl'[c] = Failed(ctl[c], "reconcile")
        BY <3>1 DEF SweepClose
      <4> QED BY <3>1, <4>1, FailedRow DEF Inv, TypeOK
    <3>2. CASE ~(c \in picked /\ ctl[c].status \in Open)
      BY <3>2 DEF SweepClose, Inv, TypeOK, RowMayFollow
    <3> QED BY <3>1, <3>2
  <2> QED BY <2>1 DEF SameRows, SweepClose
<1>1. TypeOK'
  BY <1>0 DEF Inv, SweepClose, SameRows, TypeOK, RunStatuses, Works
<1>2. RowInv'
  BY <1>0 DEF Inv, ControlInv, SweepClose, SameRows, RowMayFollow, Unclaimed, RowInv, TypeOK
<1>3. WorkInv'
  BY <1>0 DEF Inv, ControlInv, SweepClose, SameRows, RowMayFollow, Unclaimed, WorkInv, TypeOK,
              Works
<1>4. HeldInv'
  BY <1>0 DEF Inv, ControlInv, SweepClose, HeldInv, TypeOK, Works
<1>5. PatchInv'
  BY <1>0 DEF Inv, ControlInv, SweepClose, SameRows, RowMayFollow, Unclaimed, PatchInv, TypeOK,
              Reports
<1>6. Outcomes'
  BY <1>0 DEF Inv, ControlInv, SweepClose, SameRows, RowMayFollow, Unclaimed, Outcomes,
              AppliedOnce, CompletedWasApplied, OneNotice, ReceiptHasMessage, TypeOK
<1> QED BY <1>1, <1>2, <1>3, <1>4, <1>5, <1>6 DEF Inv, ControlInv

(* A step that touches none of the state the invariants relate.            *)
LEMMA QuietKeeps ==
  ASSUME Inv, TypeOK', UNCHANGED <<asking, ctl, msg, receipt, work, patch, applied, notes>>
  PROVE  Inv'
BY DEF Inv, ControlInv, RowInv, WorkInv, HeldInv, PatchInv, Unclaimed,
       Outcomes, AppliedOnce, CompletedWasApplied, OneNotice, ReceiptHasMessage

(* The steps of runs, the sweep's selection and stuttering.                *)
LEMMA RunKeeps ==
  ASSUME Inv,
         \/ \E b \in Bridges : Leave(b)
         \/ \E b \in Bridges, r \in Runs : Start(b, r)
         \/ \E r \in Runs : Move(r)
         \/ SweepSelect
         \/ UNCHANGED vars
  PROVE  Inv'
<1>1. ASSUME NEW b \in Bridges, Leave(b) PROVE Inv'
  BY <1>1, QuietKeeps DEF Inv, TypeOK, Leave
<1>2. ASSUME NEW b \in Bridges, NEW r \in Runs, Start(b, r) PROVE Inv'
  BY <1>2, QuietKeeps DEF Inv, TypeOK, Start, RunStatuses
<1>3. ASSUME NEW r \in Runs, Move(r) PROVE Inv'
  BY <1>3, QuietKeeps DEF Inv, TypeOK, Move, RunMoves, RunStatuses
<1>4. CASE SweepSelect
  BY <1>4, QuietKeeps DEF Inv, TypeOK, SweepSelect, Stuck
<1>5. CASE UNCHANGED vars
  BY <1>5, QuietKeeps DEF Inv, TypeOK, vars
<1> QED BY <1>1, <1>2, <1>3, <1>4, <1>5

(* The empty table satisfies the invariant ...                             *)
LEMMA InitInv == Init => Inv
<1> SUFFICES ASSUME Init PROVE Inv
  OBVIOUS
<1>1. NoRow \in Rows
  BY DEF NoRow, Rows
<1>2. TypeOK
  <2>1. NoAsk \in [run : Runs \cup {NoRun}, saw : {"none", "queued", "active"}]
    BY DEF NoAsk
  <2> QED BY <1>1, <2>1, IdleTyped, ControlsAssumption DEF Init, TypeOK, RunStatuses
<1>3. ControlInv
  <2>1. RowInv
    BY DEF Init, RowInv, Unclaimed, NoRow
  <2>2. WorkInv /\ HeldInv
    BY DEF Init, WorkInv, HeldInv, Idle
  <2>3. PatchInv
    BY DEF Init, PatchInv
  <2> QED BY <2>1, <2>2, <2>3 DEF ControlInv
<1>4. Outcomes
  BY DEF Init, Outcomes, AppliedOnce, CompletedWasApplied, OneNotice, ReceiptHasMessage, NoRow
<1> QED BY <1>2, <1>3, <1>4 DEF Inv

(* ... every step preserves it ...                                         *)
LEMMA NextInv == Inv /\ [Next]_vars => Inv'
<1> SUFFICES ASSUME Inv, [Next]_vars PROVE Inv'
  OBVIOUS
<1>1. ASSUME NEW c \in Controls, AskWrite(c) \/ Unsend(c) PROVE Inv'
  BY <1>1, AskWriteKeeps, UnsendKeeps
<1>2. ASSUME NEW c \in Controls, NEW r \in Runs, AskRead(c, r) \/ Steer(c, r) PROVE Inv'
  BY <1>2, AskReadKeeps, SteerKeeps
<1>3. ASSUME NEW b \in Bridges, Claim(b) \/ Apply(b) \/ ApplyThrows(b) PROVE Inv'
  BY <1>3, ClaimKeeps, ApplyKeeps, ApplyThrowsKeeps
<1>4. ASSUME NEW b \in Bridges,
             Send(b) \/ Retry(b) \/ Answered(b) \/ GiveUp(b) \/ Crash(b)
      PROVE  Inv'
  BY <1>4, SendKeeps, RetryKeeps, AnsweredKeeps, GiveUpKeeps, CrashKeeps
<1>5. ASSUME NEW p \in patch, PatchRead(p) \/ PatchWrite(p) PROVE Inv'
  BY <1>5, PatchReadKeeps, PatchWriteKeeps
<1>6. ASSUME NEW r \in Runs, Finish(r) PROVE Inv'
  BY <1>6, FinishKeeps
<1>7. CASE SweepClose
  BY <1>7, SweepCloseKeeps
<1> QED BY <1>1, <1>2, <1>3, <1>4, <1>5, <1>6, <1>7, RunKeeps DEF Next

(* ... and it always holds.                                                *)
LEMMA Invariance == Spec => []Inv
<1> QED BY InitInv, NextInv, PTL DEF Spec

(* The state of the controls stays well-typed for any number of runs,      *)
(* controls, bridges and retries.                                          *)
THEOREM Typing == Spec => []TypeOK
<1>1. Inv => TypeOK
  BY DEF Inv
<1> QED BY <1>1, Invariance, PTL

(* A control reaches the session at most once, whatever is lost, repeated, *)
(* crashes or is swept.                                                    *)
THEOREM AppliedAtMostOnce == Spec => []AppliedOnce
<1>1. Inv => AppliedOnce
  BY DEF Inv, Outcomes
<1> QED BY <1>1, Invariance, PTL

(* "completed", a receipt and a note each mean the session was reached.    *)
THEOREM CompletedMeansApplied == Spec => []CompletedWasApplied
<1>1. Inv => CompletedWasApplied
  BY DEF Inv, Outcomes
<1> QED BY <1>1, Invariance, PTL

(* One interrupt is noted at most once, however often it is settled.       *)
THEOREM NotedOnce == Spec => []OneNotice
<1>1. Inv => OneNotice
  BY DEF Inv, Outcomes
<1> QED BY <1>1, Invariance, PTL

(* A settlement never leaves a receipt without its message.                *)
THEOREM ReceiptsHaveMessages == Spec => []ReceiptHasMessage
<1>1. Inv => ReceiptHasMessage
  BY DEF Inv, Outcomes
<1> QED BY <1>1, Invariance, PTL

(* Only a report changes a settled row's outcome.                          *)
LEMMA OutcomeStep == Inv /\ [Next]_vars => \A c \in Controls : OutcomeKept(c)
<1> SUFFICES ASSUME Inv, [Next]_vars, NEW c \in Controls, ctl[c].status \in Settled
             PROVE  /\ ctl'[c].status \in Settled
                    /\ ctl'[c].status # ctl[c].status => ctl'[c].by = "bridge"
                    /\ ctl[c].by = "bridge" => ctl'[c].by = "bridge"
  BY DEF OutcomeKept
<1> DEFINE Kept == ctl'[c] = ctl[c]
<1>s. ctl[c].status \notin Open \cup {"none"}
  BY DEF Settled, Open
<1>1. CASE UNCHANGED ctl
  BY <1>1
<1>2. ASSUME NEW d \in Controls, AskWrite(d) PROVE Kept
  BY <1>s, <1>2 DEF AskWrite, Inv, ControlInv, RowInv, TypeOK
<1>3. ASSUME NEW d \in Controls, NEW r \in Runs, Steer(d, r) PROVE Kept
  BY <1>s, <1>3 DEF Steer, Unasked, Inv, TypeOK
<1>4. ASSUME NEW d \in Controls, Unsend(d)
      PROVE  ctl'[c].status = ctl[c].status /\ ctl'[c].by = ctl[c].by
  BY <1>4 DEF Unsend, Inv, TypeOK, Rows
<1>5. ASSUME NEW b \in Bridges, Claim(b) PROVE Kept
  BY <1>s, <1>5 DEF Claim, Claimable, Open
<1>6. ASSUME NEW p \in patch, PatchWrite(p)
      PROVE  Kept \/ (ctl'[c].status = p.outcome /\ ctl'[c].by = "bridge")
  BY <1>6 DEF PatchWrite, Inv, TypeOK, Rows, Reports
<1>7. ASSUME NEW r \in Runs, Finish(r) PROVE Kept
  BY <1>s, <1>7 DEF Finish
<1>8. CASE SweepClose
  BY <1>s, <1>8 DEF SweepClose
<1>9. \A p \in patch : p.outcome \in Settled
  BY DEF Inv, TypeOK, Reports
<1>10. \/ UNCHANGED ctl
       \/ \E d \in Controls : AskWrite(d) \/ Unsend(d) \/ \E r \in Runs : Steer(d, r)
       \/ \E b \in Bridges : Claim(b)
       \/ \E p \in patch : PatchWrite(p)
       \/ \E r \in Runs : Finish(r)
       \/ SweepClose
  BY DEF Next, vars, AskRead, Apply, ApplyThrows, Send, Retry, Answered, GiveUp, Crash, Leave,
         PatchRead, Start, Move, SweepSelect
<1> QED BY <1>1, <1>2, <1>3, <1>4, <1>5, <1>6, <1>7, <1>8, <1>9, <1>10

(* The sweep and the endings of a run never overwrite an outcome.          *)
THEOREM OutcomesAreKept == Spec => RealOutcomeKept
<1>1. Inv /\ [Next]_vars => [\A c \in Controls : OutcomeKept(c)]_vars
  BY OutcomeStep
<1> QED BY <1>1, Invariance, PTL DEF Spec, RealOutcomeKept

=============================================================================
