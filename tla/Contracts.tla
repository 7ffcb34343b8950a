----------------------------- MODULE Contracts -----------------------------
(***************************************************************************)
(* Reply contracts.  A run asks its target for a reply; the row records     *)
(* the message that answered it (result_message_id) and the notice by which *)
(* its sender was told that nobody will (handoff_message_id).  Replies,     *)
(* reports of the run, operators and five passes of the reconcile sweep all *)
(* write these two fields.                                                  *)
(*                                                                         *)
(* One target, a manager; runs are numbered in the order they were          *)
(* requested, and a letter (a message the target sends) by its place in     *)
(* `letters`.  A handler that writes before it reads is one step; a pass    *)
(* reads all rows and writes later, from what it read.  Ages are inputs.    *)
(***************************************************************************)
EXTENDS Naturals, Sequences, FiniteSets, SequencesExt

CONSTANTS MaxContracts, MaxLetters, MaxReminders, MaxRepairs

ASSUME ContractsAssumption ==
    /\ MaxContracts \in Nat /\ MaxLetters \in Nat /\ MaxReminders \in Nat \ {0} /\ MaxRepairs \in Nat

ContractIds == 1 .. MaxContracts

VARIABLES
    con,        \* dispatch_runs, with their events
    letters,    \* messages from the target, oldest first
    pass,       \* a pass between its read and its writes: the sweep's, and a request's
    repairs     \* repairs and reminder passes requested by operators

contractVars == <<con, letters, pass, repairs>>

Ended == {"completed", "failed", "cancelled"}
Unmet == {"failed", "cancelled"}

NoContract == [st |-> "none", mode |-> "managed", need |-> FALSE, sender |-> "peer", parent |-> 0, at |-> 0, go |-> 0,
               sum |-> "none", res |-> 0, note |-> 0, rems |-> 0, op |-> FALSE, rep |-> FALSE]
NoPass == [job |-> "none", runs |-> {}]

ContractsTypeOK ==
    /\ con \in [ContractIds ->
          [st : {"none", "queued", "running", "delivered"} \cup Ended, mode : {"managed", "channel", "terminal", "steer"},
           need : BOOLEAN, sender : {"peer", "dashboard"}, parent : 0 .. MaxContracts, at : 0 .. MaxLetters,
           go : 0 .. MaxLetters, sum : {"none", "text", "receipt"}, res : 0 .. MaxLetters, note : 0 .. MaxLetters,
           rems : Nat, op : BOOLEAN, rep : BOOLEAN]]
    /\ letters \in Seq([re : 0 .. MaxContracts, to : {"peer", "dashboard"}, auto : BOOLEAN,
                        kind : {"reply", "notice", "summary", "receipt", "report"}])
    /\ repairs \in 0 .. MaxRepairs
    \* The links point at letters that exist.
    /\ \A r \in ContractIds : con[r].res <= Len(letters) /\ con[r].note <= Len(letters)

Letter(r, to, auto, kind) == [re |-> r, to |-> to, auto |-> auto, kind |-> kind]

\* Rows and letters together, for handlers that write both several times.
Rows == [c |-> con, l |-> letters]

Write(S) ==
    /\ Len(S.l) <= MaxLetters
    /\ con' = S.c /\ letters' = S.l

----------------------------------------------------------------------------
(***************************************************************************)
(* Answering.                                                              *)
(***************************************************************************)

\* _mark_dispatch_run_answered: a run that no bridge will report on is completed by its answer.
_mark_dispatch_run_answered(S, r, k, st) ==
    IF st \in {"queued", "delivered"} \/ (S.c[r].mode \in {"channel", "terminal"} /\ st = "running")
    THEN [S EXCEPT !.c = [@ EXCEPT ![r] = [@ EXCEPT !.res = k, !.st = "completed"]]]
    ELSE [S EXCEPT !.c = [@ EXCEPT ![r] = [@ EXCEPT !.res = k]]]

\* Mutant: whatever the run has is replaced.
ReplaceableAlways(S, r) == TRUE

\* The text sent in a run's name when nobody answered: a notice, or its summary.
_auto_handoff_body_for_run(row) ==
    IF row.st \in Unmet THEN "notice" ELSE IF row.sum = "receipt" THEN "receipt" ELSE "summary"

\* The result may be replaced by a real reply: there is none, it is a notice to an agent, or it is this run's own text.
_is_replaceable_auto_handoff_message(S, r) ==
    LET k == S.c[r].res
    IN  \/ k = 0
        \/ /\ S.l[k].auto
           /\ \/ S.l[k].kind = "notice" /\ S.l[k].to = "peer"
              \/ S.l[k].re = r /\ S.l[k].kind = _auto_handoff_body_for_run(S.c[r])

_link_reply_message_to_dispatch_run(S, r, k) ==
    IF _is_replaceable_auto_handoff_message(S, r) THEN _mark_dispatch_run_answered(S, r, k, S.c[r].st) ELSE S

\* An unthreaded reply goes to the latest run of that sender that awaits one, if that run has no answer yet.
_link_unthreaded_reply_to_recent_dispatch_run(S, to, k) ==
    LET Candidates == {r \in ContractIds : /\ S.c[r].sender = to /\ S.c[r].st \notin {"none", "queued"}
                                           /\ S.c[r].need \/ (S.c[r].mode = "terminal" /\ S.c[r].st = "running")}
    IN  IF Candidates = {} THEN S
        ELSE _link_reply_message_to_dispatch_run(S, CHOOSE r \in Candidates : \A q \in Candidates : q <= r, k)

\* The target sends a message that satisfies a contract: to the run's sender, naming its message, or unthreaded.
_thread_reply_onto_dispatch_runs(r, to) ==
    /\ r # 0 => con[r].st # "none" /\ to = con[r].sender
    /\ LET S == [Rows EXCEPT !.l = Append(@, Letter(r, to, FALSE, "reply"))]
           k == Len(S.l)
       IN  Write(IF r # 0 THEN _link_reply_message_to_dispatch_run(S, r, k)
                 ELSE _link_unthreaded_reply_to_recent_dispatch_run(S, to, k))
    /\ UNCHANGED <<pass, repairs>>

----------------------------------------------------------------------------
(***************************************************************************)
(* What the service sends when a run ends without an answer.  `row` is the  *)
(* row the caller read, which may be older than S.                          *)
(***************************************************************************)

_already_mirrored(row) == IF row.st \in Unmet THEN row.note # 0 \/ row.res # 0 ELSE row.res # 0

\* The summary is the bridge's receipt, not the agent's words.
_is_delivery_only_claude_run(row) == row.mode = "channel" /\ row.st = "completed" /\ row.sum = "receipt"

_mirror_missing_dispatch_handoff(S, r, row) ==
    IF ~row.need \/ _already_mirrored(row) \/ _is_delivery_only_claude_run(row) \/ row.st \notin Ended THEN S
    ELSE LET k == Len(S.l) + 1
         IN  [c |-> [S.c EXCEPT ![r] = IF row.st \in Unmet THEN [@ EXCEPT !.note = k] ELSE [@ EXCEPT !.note = k, !.res = k]],
              l |-> Append(S.l, Letter(r, row.sender, TRUE, _auto_handoff_body_for_run(row)))]

\* Messages the target sent to the dashboard since the run started.
ToDashboardSince(S, row) == {k \in 1 .. Len(S.l) : k > row.go /\ S.l[k].to = "dashboard"}

\* A run of the dashboard that completed: link the first message the target sent it since, or store the summary.
_mirror_dashboard_run_summary_to_chat(S, r, row, op) ==
    IF \/ op \/ row.sender # "dashboard" \/ row.st # "completed" \/ row.res # 0 \/ _is_delivery_only_claude_run(row)
       \/ S.c[r].res # 0 \/ S.c[r].op \/ row.sum = "none"
    THEN S
    ELSE LET told == ToDashboardSince(S, row)
             k == IF told # {} THEN CHOOSE j \in told : \A i \in told : j <= i ELSE Len(S.l) + 1
         IN  [c |-> [S.c EXCEPT ![r] = [@ EXCEPT !.res = k]],
              l |-> IF told # {} THEN S.l
                    ELSE Append(S.l, Letter(r, "dashboard", TRUE, _auto_handoff_body_for_run(row)))]

\* A manager's run for an agent that wants no reply: the summary is reported to the dashboard, once.
_maybe_report_async_manager_result_to_dashboard(S, r, row, op) ==
    IF \/ op \/ row.need \/ row.sender = "dashboard" \/ row.st # "completed" \/ row.sum = "none"
       \/ S.c[r].rep \/ S.c[r].op \/ ToDashboardSince(S, row) # {}
    THEN S
    ELSE [c |-> [S.c EXCEPT ![r] = [@ EXCEPT !.rep = TRUE]],
          l |-> Append(S.l, Letter(r, "dashboard", TRUE, "report"))]

\* Contracts of the same sender that were steered into the run end with its result.
_close_steered_contracts_for_parent_run(S, r, k) ==
    LET Steered == {c \in ContractIds : /\ S.c[c].mode = "steer" /\ S.c[c].parent = r /\ S.c[c].st = "delivered"
                                        /\ S.c[c].sender = S.c[r].sender /\ S.c[c].res = 0}
    IN  IF k = 0 THEN S
        ELSE FoldLeft(LAMBDA T, c : _mark_dispatch_run_answered(T, c, k, "delivered"), S, SetToSeq(Steered))

----------------------------------------------------------------------------
(***************************************************************************)
(* Reminders.  A contract is due while it is unanswered and under way; the  *)
(* target is reminded when it is idle.  `late` are the runs old enough, and *)
(* `unbacked` says that the terminal of a terminal turn is gone.            *)
(***************************************************************************)

Running(c) == {r \in ContractIds : c[r].st = "running"}

\* Mutant: a contract is overdue before its run is claimed.
OverdueQueued(row, late) == row.need /\ row.res = 0 /\ row.st \notin {"none"} \cup Ended /\ late

\* _contract_state's overdue.
Overdue(row, late) == row.need /\ row.res = 0 /\ row.st \notin {"none", "queued"} \cup Ended /\ late

\* What the list shows for a row; `late` as above, `read` when the target has read the message.
_contract_state(row, late, read) ==
    CASE Overdue(row, late) -> "overdue"
      [] ~Overdue(row, late) /\ row.res # 0 -> "answered"
      [] row.res = 0 /\ row.st \in Unmet -> "failed"
      [] row.res = 0 /\ row.st = "completed" -> IF row.need THEN "missing_reply" ELSE "closed"
      [] ~Overdue(row, late) /\ row.res = 0 /\ row.st = "running" -> "working"
      [] row.res = 0 /\ row.st = "queued" -> "queued"
      [] ~Overdue(row, late) /\ row.res = 0 /\ row.st = "delivered" -> IF read THEN "seen" ELSE "sent"

_contract_reminder_due(row, late) == Overdue(row, late) /\ row.rems < MaxReminders
Due(c, late) == {r \in ContractIds : _contract_reminder_due(c[r], r \in late)}

\* The runs that were read as unanswered and under way, while the target is idle; a reminder is an event of the run.
_run_contract_reminders_once(S, runs, unbacked) ==
    LET Idle(r) == Running(S.c) = {} \/ (unbacked /\ S.c[r].mode = "terminal" /\ Running(S.c) = {r})
        Reminded == {r \in runs : Idle(r)}
    IN  [S EXCEPT !.c = [r \in ContractIds |-> IF r \in Reminded THEN [S.c[r] EXCEPT !.rems = @ + 1] ELSE S.c[r]]]

\* Mutant: only a run under way is looked at for an overdue contract.
ListRunningOnly(row, state, late, read, recent) == state = "overdue" => row.st = "running"

\* The list's filter for a state; `recent` when the run ended within contract_stale_hours.
list_work_contracts(row, state, late, read, recent) ==
    /\ CASE state = "open" -> row.res = 0 /\ row.st \notin Ended
         [] state = "answered" -> row.res # 0
         [] state = "closed" -> row.res = 0 /\ row.st = "completed" /\ ~row.need
         [] state = "missing_reply" -> row.res = 0 /\ row.st = "completed"
         [] state = "failed" -> row.res = 0 /\ row.st \in Unmet
         [] state = "working" -> row.res = 0 /\ row.st = "running"
         [] state = "queued" -> row.res = 0 /\ row.st = "queued"
         [] state = "overdue" -> row.res = 0 /\ row.st \notin {"queued"} \cup Ended /\ late
         [] state = "seen" -> row.res = 0 /\ row.st \notin {"queued", "running"} \cup Ended /\ read
         [] state = "sent" -> row.res = 0 /\ row.st \notin {"queued", "running"} \cup Ended /\ ~read
    /\ IF state \in {"answered", "closed", "missing_reply", "failed"}
       THEN row.res = 0 \/ row.st \in {"queued", "running"} \/ recent
       ELSE row.res = 0 /\ row.st \notin Ended

----------------------------------------------------------------------------
(***************************************************************************)
(* Requests and reports.                                                   *)
(***************************************************************************)

Free == {r \in ContractIds : con[r].st = "none"}
NextRun == CHOOSE r \in Free : \A q \in Free : r <= q

NewRun(st, mode, need, sender, parent) ==
    [NoContract EXCEPT !.st = st, !.mode = mode, !.need = need, !.sender = sender, !.parent = parent,
                       !.at = Len(letters), !.go = Len(letters)]

\* _create_dispatch_runs: a run to be claimed, or one steered into the turn the target is in.
RequestRun(mode, need, sender) ==
    /\ Free # {}
    /\ \/ /\ mode \in {"managed", "channel"}
          /\ con' = [con EXCEPT ![NextRun] = NewRun("queued", mode, need, sender, 0)]
       \/ /\ mode = "steer"
          /\ \E p \in Running(con) : con' = [con EXCEPT ![NextRun] = NewRun("delivered", mode, need, sender, p)]
    /\ UNCHANGED <<letters, pass, repairs>>

\* A message typed into the target's terminal opens a turn, or joins the one under way.
_record_terminal_delivery_contract(need, sender) ==
    /\ Free # {}
    /\ ~\E r \in Running(con) : con[r].mode = "terminal"
    /\ con' = [con EXCEPT ![NextRun] = NewRun("running", "terminal", need, sender, 0)]
    /\ UNCHANGED <<letters, pass, repairs>>

\* A bridge takes a queued run.
ClaimRun(r) ==
    /\ con[r].st = "queued"
    /\ con' = [con EXCEPT ![r].st = "running", ![r].go = Len(letters)]
    /\ UNCHANGED <<letters, pass, repairs>>

\* Everything that follows a run's end, in the transaction that ended it.
_settle_terminated_dispatch_run(S, r, op, late, unbacked) ==
    LET row == S.c[r]
        mirrored == _mirror_missing_dispatch_handoff(S, r, row)
        told == _mirror_dashboard_run_summary_to_chat(mirrored, r, row, op)
        result == IF row.res # 0 THEN row.res
                  ELSE IF Len(mirrored.l) > Len(S.l) THEN Len(mirrored.l) ELSE told.c[r].res
        closed == _close_steered_contracts_for_parent_run(told, r, result)
        reported == _maybe_report_async_manager_result_to_dashboard(closed, r, row, op)
    IN  IF row.st \notin Ended THEN S
        ELSE IF row.st # "completed" THEN reported
        ELSE _run_contract_reminders_once(reported, Due(reported.c, late), unbacked)

\* A report of status s with a summary, by the bridge, or by an operator who closes the run (op).
update_dispatch_run(r, s, sum, op, late, unbacked) ==
    /\ con[r].st # "none"
    /\ con[r].st \in Ended => s = con[r].st /\ ~op
    /\ LET row == [con[r] EXCEPT !.st = s, !.sum = IF sum = "none" THEN @ ELSE sum]
           S == _settle_terminated_dispatch_run([Rows EXCEPT !.c = [@ EXCEPT ![r] = row]], r, op, late, unbacked)
       IN  Write(IF op THEN [S EXCEPT !.c = [@ EXCEPT ![r] = [@ EXCEPT !.op = TRUE]]] ELSE S)
    /\ UNCHANGED <<pass, repairs>>

\* The target's terminal ends: its turn is over, and what the channel has not claimed fails with it.
_close_active_terminal_runs_for_terminal(s, current) ==
    /\ con' = [r \in ContractIds |->
          IF con[r].mode = "terminal" /\ con[r].st = "running"
          THEN [con[r] EXCEPT !.st = s, !.sum = IF @ = "none" THEN "text" ELSE @]
          ELSE IF current /\ con[r].mode = "channel" /\ con[r].st = "queued"
          THEN [con[r] EXCEPT !.st = "failed", !.sum = IF @ = "none" THEN "text" ELSE @]
          ELSE con[r]]
    /\ UNCHANGED <<letters, pass, repairs>>

----------------------------------------------------------------------------
(***************************************************************************)
(* Passes.  The sweep runs its passes one after the other; an operator's    *)
(* request runs beside it.  A pass writes from the rows it read.            *)
(***************************************************************************)

Ascending(runs) == SetToSortSeq(runs, <)

\* An ended row as it was read by a pass that selects on it being unanswered and untold.
AsRead(row) == [row EXCEPT !.res = 0, !.note = 0]

\* Delivered runs that nothing else will close: answered, or too old (`late`) with no reply wanted or nobody to give one.
_select_reconcilable_delivered_runs(c, late, gone) ==
    {r \in ContractIds : /\ c[r].st = "delivered"
                         /\ \/ c[r].res # 0
                            \/ ~c[r].need /\ r \in late
                            \/ /\ c[r].need /\ r \in late /\ gone
                               /\ ~\E q \in ContractIds \ {r} : c[q].st \in {"queued", "running"}}

_close_reconcilable_delivered_runs(S, runs) ==
    [S EXCEPT !.c = [r \in ContractIds |->
        IF r \in runs /\ S.c[r].st = "delivered"
        THEN [S.c[r] EXCEPT !.st = "completed", !.sum = IF @ = "none" THEN "text" ELSE @] ELSE S.c[r]]]

\* A delivered contract whose target has nobody left to answer.
_fail_stranded_delivered_reply_runs(S, runs) ==
    [S EXCEPT !.c = [r \in ContractIds |->
        IF r \in runs /\ S.c[r].st = "delivered" /\ S.c[r].res = 0
        THEN [S.c[r] EXCEPT !.st = "failed", !.sum = "text"] ELSE S.c[r]]]

\* Senders of contracts that ended badly are told, if nobody has.
_sweep_unmirrored_failed_handoffs(S, runs) ==
    FoldLeft(LAMBDA T, r : _mirror_missing_dispatch_handoff(T, r, AsRead(T.c[r])), S, Ascending(runs))

\* The first unthreaded message the target sent the run's sender since it was requested.
UnthreadedSince(S, row) ==
    {k \in 1 .. Len(S.l) : k > row.at /\ S.l[k].to = row.sender /\ S.l[k].re = 0}

_link_unthreaded_completion_message_for_run(S, r) ==
    LET said == UnthreadedSince(S, S.c[r])
    IN  IF (S.c[r].need \/ S.c[r].mode = "terminal") /\ said # {}
        THEN _mark_dispatch_run_answered(S, r, CHOOSE k \in said : \A j \in said : k <= j, "running")
        ELSE S

\* A terminal turn whose terminal shows an idle prompt ends without a reply.
_close_idle_claude_terminal_run_without_reply(S, r) ==
    IF S.c[r].mode = "terminal" /\ S.c[r].res = 0
    THEN [S EXCEPT !.c = [@ EXCEPT ![r] = [@ EXCEPT !.st = "completed", !.sum = IF @ = "none" THEN "text" ELSE @]]]
    ELSE S

\* The target's active run, read as unanswered: linked to what the target said, or closed when its terminal is idle.
_repair_unusable_active_runs(S, runs, idle) ==
    FoldLeft(LAMBDA T, r :
                IF ~(r \in Running(T.c) /\ \A q \in Running(T.c) : r <= q) THEN T
                ELSE LET linked == _link_unthreaded_completion_message_for_run(T, r)
                     IN  IF linked = T /\ idle THEN _close_idle_claude_terminal_run_without_reply(T, r) ELSE linked,
             S, Ascending(runs))

\* The second half of a repair: mirror what was read, then report.
MirrorAndReport(S, runs) ==
    LET mirrored == FoldLeft(LAMBDA T, r : _mirror_missing_dispatch_handoff(T, r, AsRead(T.c[r])), S, Ascending(runs))
        Quietly == {r \in ContractIds : ~mirrored.c[r].need /\ mirrored.c[r].st = "completed" /\ mirrored.c[r].sum # "none"}
    IN  FoldLeft(LAMBDA T, r : _maybe_report_async_manager_result_to_dashboard(T, r, T.c[r], FALSE), mirrored,
                 Reverse(Ascending(Quietly)))

\* The passes of the sweep, and those an operator requests.
Jobs(p) == IF p = "sweep" THEN {"close", "stranded", "unmirrored", "active", "remind"} ELSE {"repair", "mirror", "remind"}

\* The runs a pass selects.
Selects(job, c, late, gone) ==
    CASE job \in {"close", "repair"} -> _select_reconcilable_delivered_runs(c, late, gone)
      [] job = "stranded" -> {r \in late : c[r].st = "delivered" /\ c[r].need /\ c[r].res = 0}
      [] job = "unmirrored" -> {r \in ContractIds : c[r].need /\ c[r].st \in Unmet /\ c[r].note = 0 /\ c[r].res = 0}
      [] job = "active" -> {r \in Running(c) : c[r].res = 0}
      [] job = "remind" -> Due(c, late)
      [] job = "mirror" -> {r \in ContractIds : c[r].need /\ c[r].st \in Ended /\ c[r].res = 0 /\ ~_already_mirrored(c[r])}

\* A pass that selects nothing has no second step; a repair that closes nothing starts with what it mirrors.
PassReads(p, job, late, gone) ==
    /\ pass[p] = NoPass /\ job \in Jobs(p)
    /\ LET runs == Selects(job, con, late, gone)
       IN  /\ runs # {} \/ job = "mirror"
           /\ pass' = [pass EXCEPT ![p] = [job |-> job, runs |-> runs]]
    /\ IF p = "sweep" THEN UNCHANGED repairs ELSE repairs < MaxRepairs /\ repairs' = repairs + 1
    /\ UNCHANGED <<con, letters>>

\* A repair that closed a run holds the lock, and mirrors what it then reads.
repair_dispatch_handoffs(S, runs) ==
    LET closed == _close_reconcilable_delivered_runs(S, runs)
    IN  MirrorAndReport(closed, Selects("mirror", closed.c, {}, FALSE))

PassWrites(p, idle) ==
    /\ pass[p] # NoPass
    /\ LET runs == pass[p].runs
       IN  Write(CASE pass[p].job = "close" -> _close_reconcilable_delivered_runs(Rows, runs)
                   [] pass[p].job = "stranded" -> _fail_stranded_delivered_reply_runs(Rows, runs)
                   [] pass[p].job = "unmirrored" -> _sweep_unmirrored_failed_handoffs(Rows, runs)
                   [] pass[p].job = "active" -> _repair_unusable_active_runs(Rows, runs, idle)
                   [] pass[p].job = "remind" -> _run_contract_reminders_once(Rows, runs, idle)
                   [] pass[p].job = "repair" -> repair_dispatch_handoffs(Rows, runs)
                   [] pass[p].job = "mirror" -> MirrorAndReport(Rows, runs))
    /\ pass' = [pass EXCEPT ![p] = NoPass]
    /\ UNCHANGED repairs

----------------------------------------------------------------------------
ContractsInit ==
    /\ con = [r \in ContractIds |-> NoContract]
    /\ letters = <<>>
    /\ pass = [p \in {"sweep", "request"} |-> NoPass]
    /\ repairs = 0

\* What a bridge says of a run: a channel delivers and leaves a receipt, others report the agent's words.
Summaries(r) == IF con[r].mode = "channel" THEN {"none", "receipt"} ELSE {"none", "text"}

ContractsNext ==
    \/ \E mode \in {"managed", "channel", "steer"}, need \in BOOLEAN, sender \in {"peer", "dashboard"} :
          RequestRun(mode, need, sender)
    \/ \E need \in BOOLEAN, sender \in {"peer", "dashboard"} : _record_terminal_delivery_contract(need, sender)
    \/ \E r \in ContractIds :
          \/ ClaimRun(r)
          \/ \E s \in {"delivered"} \cup Ended, sum \in Summaries(r), late \in {{}, ContractIds} :
                /\ con[r].mode \in {"managed", "channel"} /\ con[r].st # "queued" /\ (s = "delivered" => con[r].mode = "channel") /\ (s \in Unmet => sum = "none")
                /\ update_dispatch_run(r, s, sum, FALSE, late, FALSE)
          \/ \E s \in {"completed", "cancelled"} : update_dispatch_run(r, s, "text", TRUE, {}, FALSE)
    \/ \E r \in 0 .. MaxContracts, to \in {"peer", "dashboard"} : _thread_reply_onto_dispatch_runs(r, to)
    \/ \E s \in Unmet, current \in BOOLEAN : _close_active_terminal_runs_for_terminal(s, current)
    \/ \E p \in {"sweep", "request"} :
          \/ \E job \in Jobs(p), late \in {{}, ContractIds}, gone \in BOOLEAN : PassReads(p, job, late, gone)
          \/ \E idle \in BOOLEAN : PassWrites(p, idle)

ContractsSpec == ContractsInit /\ [][ContractsNext]_contractVars

----------------------------------------------------------------------------
(***************************************************************************)
(* Properties.                                                             *)
(***************************************************************************)

\* The run was answered by the target itself.
Explicit(c, l, r) == c[r].res # 0 /\ ~l[c[r].res].auto

\* The step is the write of a pass that had selected the run for job.
Stale(r, jobs) == \E p \in {"sweep", "request"} : pass[p].job \in jobs /\ pass'[p] = NoPass /\ r \in pass[p].runs

\* An answer the agent gave is replaced by nothing (reply linking, mirrors, steered closes, reminders): only a pass that
\* read the row while it was unanswered can still do it.
AnswerKept ==
    [][\A r \in ContractIds :
         (Explicit(con, letters, r) /\ con'[r].res # con[r].res) => Stale(r, {"active", "mirror"})]_contractVars

\* Asking the contract list for a state finds every row that is in it: the query's filter, which runs first, lets through
\* each row whose computed state is the one asked for.
ListFindsState ==
    \A r \in ContractIds : con[r].st # "none" =>
        \A late, read \in BOOLEAN :
            list_work_contracts(con[r], _contract_state(con[r], late, read), late, read, TRUE)

\* A reminder goes out only for a contract that is owed and under way; only a pass that read it so can be late.
RemindedWhileOwed ==
    [][\A r \in ContractIds :
         con'[r].rems > con[r].rems =>
            \/ con[r].need /\ con'[r].res = 0 /\ con[r].st \notin {"queued"} \cup Ended
            \/ Stale(r, {"remind"})]_contractVars

=============================================================================
