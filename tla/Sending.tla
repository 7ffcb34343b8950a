------------------------------ MODULE Sending ------------------------------
(***************************************************************************)
(* Sending to one agent: how a stored message becomes work (a queued run, a *)
(* line merged into one, a steer of the turn under way, or text typed into  *)
(* a console) and what a sender is told when it becomes none.               *)
(*                                                                         *)
(* A send takes the database's write lock with its first statement (the     *)
(* sender's last_seen), so it is one step; the two passes of the sweep read *)
(* first and write later.  Starting a terminal and requesting a worker are  *)
(* the subject of Workers: here their outcome is an input.                  *)
(***************************************************************************)
EXTENDS Naturals, Sequences, FiniteSets

CONSTANTS MaxMail, MaxWork, BufferCap, MaxChanges

ASSUME SendingAssumption ==
    /\ MaxMail \in Nat /\ MaxWork \in Nat /\ BufferCap \in Nat \ {0} /\ MaxChanges \in Nat

VARIABLES
    conf,     \* settings: messages typed into consoles, consoles behind managed agents, workers through wrappers
    tgt,      \* the recipient's row and the processes behind it
    mail,     \* its messages, oldest first
    work,     \* dispatch_runs and terminal inputs, oldest first
    late,     \* a pass of the sweep between its read and its write
    changes   \* changes of the recipient so far

sendVars == <<conf, tgt, mail, work, late, changes>>

NoLate == [job |-> "none", ids |-> {}]

MailRow == [source : {"direct", "channel"}, nonce : 0 .. 1, trigger : BOOLEAN, read : BOOLEAN, told : BOOLEAN]
WorkRow == [kind : {"run", "steer", "typed"}, st : {"queued", "running", "delivered", "done"},
            mode : {"managed", "channel", "resident"}, key : 1 .. MaxMail, items : SUBSET (1 .. MaxMail)]

SendTypeOK ==
    /\ conf \in [typed : BOOLEAN, backing : BOOLEAN, wrapper : BOOLEAN]
    /\ tgt \in [known : BOOLEAN, rt : {"claude", "hermes", "codex", "pi"}, managed : BOOLEAN, flag : BOOLEAN, live : BOOLEAN,
                env : BOOLEAN, console : BOOLEAN, child : BOOLEAN, sidecar : BOOLEAN, spawn : BOOLEAN, steer : BOOLEAN]
    /\ mail \in Seq(MailRow) /\ work \in Seq(WorkRow)
    /\ late \in [job : {"none", "replay", "reroute"}, ids : SUBSET Nat]
    /\ changes \in 0 .. MaxChanges

----------------------------------------------------------------------------
(***************************************************************************)
(* How the recipient is reached.                                           *)
(***************************************************************************)

Native == {"hermes", "codex", "pi"}     \* _NATIVE_MANAGED_RUNTIMES; Claude Code is reached through its channel

\* _managed_via_wrapper_for_runtime
ViaWrapper == conf.wrapper /\ tgt.rt \in {"hermes", "codex"}

\* _channel_managed_eligible: the agent's own flag.
Eligible == tgt.rt \in {"claude", "hermes"} /\ tgt.flag

\* The way its runs are claimed, or "none".
_agent_execution_mode ==
    IF tgt.managed
    THEN IF ViaWrapper \/ tgt.rt = "claude" \/ (tgt.rt = "hermes" /\ Eligible) THEN "channel" ELSE "managed"
    ELSE IF tgt.rt = "pi" THEN "none" ELSE "resident"

\* _get_dispatch_state_for_agent: its active and its queued runs in a list of work.
Held(ws, states) == {w \in 1 .. Len(ws) : ws[w].st \in states}
Active(ws) == Held(ws, {"running"})
Occupied(ws) == Held(ws, {"running", "queued"}) # {}

\* _discard_unusable_active_run: an active run nobody can finish any more is failed.
Discarded(gone) == [w \in 1 .. Len(work) |-> IF w \in gone THEN [work[w] EXCEPT !.st = "done"] ELSE work[w]]

\* Whether a live send goes ahead; a refusal is told to the sender.
_preflight_live_send_recipients(ws, queue) ==
    /\ tgt.known /\ tgt.live
    /\ ~tgt.managed => tgt.child                          \* a resident's bridge is fresh
    /\ _agent_execution_mode # "none"
    /\ tgt.managed => tgt.env
    /\ Occupied(ws) => queue                              \* queueing or steering allowed

Outcome(to, console, spawn) == [to |-> to, console |-> console, spawn |-> spawn]

\* A worker is asked for when there is none; told when that is refused too.
ColdStart(console, cold) ==
    IF cold \/ tgt.spawn THEN Outcome("run", console, TRUE) ELSE Outcome("told", console, FALSE)

\* Managed Claude agents get a console behind their channel.
_back_managed_claude_with_a_console(started, cold) ==
    LET spawn == tgt.spawn \/ (~tgt.child /\ cold)
    IN  IF ~conf.backing THEN Outcome("run", tgt.console, spawn)
        ELSE IF (tgt.console /\ tgt.child) \/ started THEN Outcome("run", TRUE, spawn)
        ELSE ColdStart(tgt.console, cold)

\* Where a send that passed goes: typed into the console, a run, or nowhere because nothing could be started.
\* `started` and `cold`: a terminal could be started, a worker requested; `hold`: the agent is not known to be free.
_launch_recipients_for_dispatch(mode, hold, started, cold) ==
    LET console == tgt.console \/ started
        typed == IF hold THEN Outcome("run", console, tgt.spawn) ELSE Outcome("typed", console, tgt.spawn)
    IN  CASE tgt.rt \in Native /\ mode = "channel" /\ conf.backing /\ ViaWrapper ->
               IF tgt.console /\ tgt.child THEN Outcome("run", TRUE, tgt.spawn)
               ELSE IF started /\ tgt.child THEN Outcome("run", TRUE, tgt.spawn) ELSE ColdStart(console, cold)
          [] tgt.rt \in Native /\ mode = "managed" /\ conf.backing /\ conf.typed /\ tgt.rt # "pi" ->
               IF console THEN typed ELSE Outcome("run", FALSE, tgt.spawn)
          [] tgt.rt = "claude" /\ mode = "channel" /\ conf.typed ->
               IF console THEN typed ELSE Outcome("told", FALSE, tgt.spawn)
          [] tgt.rt = "claude" /\ mode = "channel" /\ ~conf.typed -> _back_managed_claude_with_a_console(started, cold)
          [] OTHER -> Outcome("run", tgt.console, tgt.spawn)

\* The same for a dispatch, which is not held back and has no preflight.
_resolve_dispatch_recipient_delivery(started) ==
    LET console == tgt.console \/ started
        mode == _agent_execution_mode
        Run(c) == Outcome("run", c, tgt.spawn)
        Told == Outcome("told", tgt.console, tgt.spawn)
    IN  IF ~tgt.known \/ mode = "none" THEN Told
        ELSE IF mode = "resident" THEN Run(tgt.console)
        ELSE IF tgt.rt = "claude"
        THEN IF ~tgt.env THEN Told
             ELSE IF ~conf.typed THEN Run(tgt.console)
             ELSE IF console THEN Outcome("typed", TRUE, tgt.spawn) ELSE Told
        ELSE IF mode = "channel" /\ conf.backing /\ ViaWrapper THEN (IF console THEN Run(TRUE) ELSE Told)
        ELSE IF mode = "managed" /\ conf.backing /\ conf.typed /\ tgt.rt # "pi"
        THEN (IF console THEN Outcome("typed", TRUE, tgt.spawn) ELSE IF tgt.env THEN Run(FALSE) ELSE Told)
        ELSE Run(tgt.console)

\* After a channel post: a worker is asked for when none runs.
_coldstart_cold_channel_members(cold) ==
    Outcome("run", tgt.console, tgt.spawn \/ (tgt.managed /\ tgt.rt # "pi" /\ ~tgt.child /\ cold))

----------------------------------------------------------------------------
(***************************************************************************)
(* Making work of a message.                                               *)
(***************************************************************************)

Work(kind, st, mode, k) == [kind |-> kind, st |-> st, mode |-> mode, key |-> k, items |-> {k}]

\* What became of a message: the work, the run its answer names (0 for none), and whether it was refused.
Became(ws, run, told) == [work |-> ws, run |-> run, told |-> told]

\* The sender's oldest queued run, or 0.
_find_mergeable_queued_run(ws) ==
    LET queued == Held(ws, {"queued"})
    IN  IF queued = {} THEN 0 ELSE CHOOSE w \in queued : \A v \in queued : w <= v

\* Mutant: the buffer has no limit.
AppendAlways(row, k) == [row EXCEPT !.items = @ \cup {k}]

\* One more item, unless the buffer is full.
_append_pending_dispatch_body(row, k) ==
    IF Cardinality(row.items) >= BufferCap THEN row ELSE [row EXCEPT !.items = @ \cup {k}]

\* Mutant: a line that did not fit is answered like one that did.
CreateSilently(ws, k, steer, merge, act) ==
    LET into == _find_mergeable_queued_run(ws)
    IN  IF into # 0 THEN Became([ws EXCEPT ![into] = _append_pending_dispatch_body(@, k)], into, FALSE)
        ELSE Became(Append(ws, Work("run", "queued", "managed", k)), Len(ws) + 1, FALSE)

\* A steer into the active run `act`, a line in the queued run, a refusal, or a run of its own.
_create_dispatch_runs(ws, k, steer, merge, act) ==
    LET into == _find_mergeable_queued_run(ws)
        viaClaim == tgt.rt = "hermes" /\ ws[act].mode \in {"channel", "resident"}
        merged == [ws EXCEPT ![into] = _append_pending_dispatch_body(@, k)]
    IN  IF steer /\ act # 0 /\ tgt.steer /\ ~viaClaim THEN Became(Append(ws, Work("steer", "delivered", "managed", k)), act, FALSE)
        ELSE IF merge /\ into # 0 THEN Became(merged, into, merged = ws)
        ELSE Became(Append(ws, Work("run", "queued", "managed", k)), Len(ws) + 1, FALSE)

\* The run answered gets the recipient's mode; a steered one keeps its own.
_finalize_dispatch_runs(b, mode) ==
    IF b.told \/ b.work[b.run].st # "queued" THEN b ELSE [b EXCEPT !.work[b.run] = [@ EXCEPT !.mode = mode]]

\* Runs of channel agents go to the channel; so does the active run a steer went into.
_apply_channel_routing_to_claude_runs(b) ==
    IF /\ ~b.told /\ ~conf.typed /\ tgt.managed
       /\ tgt.rt = "claude" \/ (tgt.rt = "hermes" /\ (tgt.flag \/ tgt.sidecar))
    THEN [b EXCEPT !.work[b.run] = [@ EXCEPT !.mode = "channel"]]
    ELSE b

\* Typed into the console: a turn of its own, or more text for the one under way; the message counts as read.
_queue_console_inputs_for_dispatch(ws, k) ==
    LET turns == {w \in Active(ws) : ws[w].kind = "typed"}
    IN  IF turns = {} THEN Became(Append(ws, Work("typed", "running", "managed", k)), 0, FALSE)
        ELSE Became([w \in 1 .. Len(ws) |-> IF w = CHOOSE v \in turns : \A u \in turns : v <= u
                                            THEN [ws[w] EXCEPT !.items = @ \cup {k}] ELSE ws[w]], 0, FALSE)

\* The answer to a send whose launch ended as `out`; its runs are `runs`.
Delivered(out, ws, k, runs) ==
    CASE out.to = "run"   -> runs
      [] out.to = "typed" -> _queue_console_inputs_for_dispatch(ws, k)
      [] out.to = "told"  -> Became(ws, 0, TRUE)

Mail(source, nonce, trigger, b, typed) ==
    [source |-> source, nonce |-> nonce, trigger |-> trigger, read |-> typed, told |-> b.told]

\* Commits the message with what became of it.
Commit(m, out, b) ==
    /\ Len(b.work) <= MaxWork
    /\ mail' = Append(mail, m)
    /\ work' = b.work
    /\ tgt' = [tgt EXCEPT !.console = out.console, !.spawn = out.spawn]
    /\ UNCHANGED <<conf, late, changes>>

----------------------------------------------------------------------------
(***************************************************************************)
(* The three ways to send.                                                 *)
(***************************************************************************)

Same(to) == Outcome(to, tgt.console, tgt.spawn)

\* Mutant: a retried send is a new one.
PriorNever(nonce) == FALSE

\* The message stored under this nonce answers its retry.
prior_send_for_nonce(nonce) == nonce # 0 /\ \E k \in 1 .. Len(mail) : mail[k].nonce = nonce

\* send_time_hold: not known to be free, or asked to wait for an agent that is occupied or busy.
send_time_hold(ws, hold, queue) == hold \/ (queue /\ Occupied(ws))

\* `gone`: the active run found unusable, if any; `act`: the active run after that.
ActiveAs(ws, gone, act) ==
    /\ gone \subseteq Active(work) /\ Cardinality(gone) <= 1
    /\ gone # {} => (tgt.known /\ (tgt.managed \/ tgt.child))
    /\ act \in Active(ws) \/ (act = 0 /\ Active(ws) = {})

\* How a send treats a busy agent: refused, steered or else queued, queued, or queued because it is a reply.
Ways == {"plain", "steer", "queue", "reply"}

\* A direct message that is only stored.
StoreOnly(nonce) ==
    /\ ~prior_send_for_nonce(nonce) /\ tgt.known
    /\ Commit(Mail("direct", nonce, FALSE, Became(work, 0, FALSE), FALSE), Same("told"), Became(work, 0, FALSE))

\* A direct message that is to wake the agent.
send_message(nonce, way, gone, act, hold, started, cold) ==
    LET k == Len(mail) + 1
        ws == Discarded(gone)
        mode == _agent_execution_mode
        out == IF ~_preflight_live_send_recipients(ws, way # "plain") THEN Same("told")
               ELSE _launch_recipients_for_dispatch(mode, send_time_hold(ws, hold, way = "queue"), started, cold)
        runs == _apply_channel_routing_to_claude_runs(
                    _finalize_dispatch_runs(_create_dispatch_runs(ws, k, way = "steer", TRUE, act), mode))
        b == Delivered(out, ws, k, runs)
    IN  /\ ~prior_send_for_nonce(nonce)
        /\ tgt.known \/ way = "reply"               \* a new message to nobody is refused
        /\ Commit(Mail("direct", nonce, TRUE, b, out.to = "typed"), out, b)

\* A channel post, as one member gets it: never typed, and a worker is asked for when there is none.
send_channel_message(way, gone, act, cold) ==
    LET k == Len(mail) + 1
        ws == Discarded(gone)
        passed == _preflight_live_send_recipients(ws, way # "plain")
        runs == _finalize_dispatch_runs(_create_dispatch_runs(ws, k, way = "steer", TRUE, act), _agent_execution_mode)
        b == IF passed THEN runs ELSE Became(ws, 0, TRUE)
    IN  /\ tgt.known /\ way # "reply"
        /\ Commit(Mail("channel", 0, TRUE, b, FALSE), IF passed THEN _coldstart_cold_channel_members(cold) ELSE Same("told"), b)

\* A tracked dispatch; one that requires a start is refused when there is none, and then not stored.
create_dispatch(required, steer, gone, act, started) ==
    LET k == Len(mail) + 1
        ws == Discarded(gone)
        out == _resolve_dispatch_recipient_delivery(started)
        runs == _apply_channel_routing_to_claude_runs(
                    _finalize_dispatch_runs(_create_dispatch_runs(ws, k, steer, TRUE, act), _agent_execution_mode))
        b == Delivered(out, ws, k, runs)
    IN  /\ ~(required /\ out.to = "told")
        /\ gone # {} => (steer /\ out.to = "run")
        /\ Commit(Mail("direct", 0, TRUE, b, out.to = "typed"), out, b)

----------------------------------------------------------------------------
(***************************************************************************)
(* The sweep's two passes over this work, each read before it writes.      *)
(***************************************************************************)

\* Unread posts that no run was made for; lines merged into a run are not looked at.
_select_undelivered_channel_messages ==
    {k \in 1 .. Len(mail) : /\ mail[k].source = "channel" /\ mail[k].trigger /\ ~mail[k].read
                           /\ \A w \in 1 .. Len(work) : work[w].key # k}

ReplayReads ==
    /\ late = NoLate /\ _select_undelivered_channel_messages # {}
    /\ late' = [job |-> "replay", ids |-> _select_undelivered_channel_messages]
    /\ UNCHANGED <<conf, tgt, mail, work, changes>>

\* A run for every post read, oldest first, for an agent that is managed in an environment that is there.
_replay_undelivered_channel_messages_on_env_recovery ==
    /\ late.job = "replay"
    /\ \/ /\ tgt.known /\ tgt.managed /\ tgt.env
          /\ Len(work) + Cardinality(late.ids) <= MaxWork
          /\ \E due \in [1 .. Cardinality(late.ids) -> late.ids] :
                /\ \A i, j \in DOMAIN due : i < j => due[i] < due[j]
                /\ work' = work \o [i \in 1 .. Cardinality(late.ids) |-> Work("run", "queued", "managed", due[i])]
       \/ /\ ~(tgt.known /\ tgt.managed /\ tgt.env)
          /\ UNCHANGED work
    /\ late' = NoLate
    /\ UNCHANGED <<conf, tgt, mail, changes>>

RerouteReads ==
    LET ids == {w \in Held(work, {"queued"}) : work[w].mode = "managed"}
    IN  /\ late = NoLate /\ ids # {}
        /\ ~conf.typed /\ tgt.managed /\ tgt.rt \in {"claude", "hermes"} /\ tgt.sidecar
        /\ late' = [job |-> "reroute", ids |-> ids]
        /\ UNCHANGED <<conf, tgt, mail, work, changes>>

\* Queued runs of a channel agent that no claimer would take go to its sidecar.
_reroute_orphaned_managed_channel_runs ==
    /\ late.job = "reroute"
    /\ work' = [w \in 1 .. Len(work) |-> IF w \in late.ids THEN [work[w] EXCEPT !.mode = "channel"] ELSE work[w]]
    /\ late' = NoLate
    /\ UNCHANGED <<conf, tgt, mail, changes>>

----------------------------------------------------------------------------
(***************************************************************************)
(* What happens to work and recipient meanwhile.                           *)
(***************************************************************************)

\* A bridge takes the oldest queued run when none is active; its lines count as read.
Claim ==
    /\ Active(work) = {} /\ Held(work, {"queued"}) # {}
    /\ LET w == _find_mergeable_queued_run(work)
       IN  /\ work' = [work EXCEPT ![w] = [@ EXCEPT !.st = "running"]]
           /\ mail' = [k \in 1 .. Len(mail) |-> IF k \in work[w].items THEN [mail[k] EXCEPT !.read = TRUE] ELSE mail[k]]
    /\ UNCHANGED <<conf, tgt, late, changes>>

Finish ==
    /\ \E w \in Held(work, {"running", "delivered"}) : work' = [work EXCEPT ![w] = [@ EXCEPT !.st = "done"]]
    /\ UNCHANGED <<conf, tgt, mail, late, changes>>

\* The agent reads its inbox.
ReadInbox ==
    /\ mail' = [k \in 1 .. Len(mail) |-> [mail[k] EXCEPT !.read = TRUE]]
    /\ mail' # mail
    /\ UNCHANGED <<conf, tgt, work, late, changes>>

\* The requested worker comes up; or one thing about the recipient, or where messages are typed, changes.
Change ==
    /\ changes < MaxChanges /\ changes' = changes + 1
    /\ \/ /\ tgt.spawn
          /\ tgt' = [tgt EXCEPT !.spawn = FALSE, !.console = TRUE, !.child = TRUE, !.sidecar = TRUE]
          /\ UNCHANGED conf
       \/ /\ \E f \in {"known", "managed", "flag", "live", "env", "console", "child", "sidecar"} :
                tgt' = [tgt EXCEPT ![f] = ~@]
          /\ UNCHANGED conf
       \/ /\ conf' = [conf EXCEPT !.typed = ~@]
          /\ UNCHANGED tgt
    /\ UNCHANGED <<mail, work, late>>

SendInit ==
    /\ conf \in [typed : BOOLEAN, backing : BOOLEAN, wrapper : BOOLEAN]
    /\ \E rt \in {"claude", "hermes", "codex", "pi"}, run, there, managed, flag \in BOOLEAN :
         tgt = [known |-> TRUE, rt |-> rt, managed |-> managed, flag |-> flag, live |-> TRUE, env |-> there, console |-> run,
                child |-> run, sidecar |-> run, spawn |-> FALSE, steer |-> rt # "hermes"]
    /\ mail = <<>> /\ work = <<>> /\ late = NoLate /\ changes = 0

Sends ==
    /\ Len(mail) < MaxMail
    /\ \/ \E nonce \in 0 .. 1 : StoreOnly(nonce)
       \/ \E act \in {0} \cup Active(work), gone \in {{}} \cup {{w} : w \in Active(work)} :
            /\ ActiveAs(Discarded(gone), gone, act)
            /\ \E cold, started \in BOOLEAN :
                 \/ \E nonce \in 0 .. 1, way \in Ways, hold \in BOOLEAN : send_message(nonce, way, gone, act, hold, started, cold)
                 \/ \E way \in Ways : send_channel_message(way, gone, act, cold)
                 \/ \E steer \in BOOLEAN : create_dispatch(cold, steer, gone, act, started)

Otherwise ==
    \/ ReplayReads \/ _replay_undelivered_channel_messages_on_env_recovery
    \/ RerouteReads \/ _reroute_orphaned_managed_channel_runs
    \/ Claim \/ Finish \/ ReadInbox \/ Change

SendNext == Sends \/ Otherwise

SendSpec == SendInit /\ [][SendNext]_sendVars

----------------------------------------------------------------------------
(***************************************************************************)
(* Properties.                                                             *)
(***************************************************************************)

Carriers(k) == {w \in 1 .. Len(work) : k \in work[w].items}

\* A direct message is stored once and handed over at most once: retried under its nonce because the answer was lost,
\* merged, steered, typed into a console or held back from it, and whatever the passes of the sweep do afterwards.
SentOnce ==
    /\ \A j, k \in 1 .. Len(mail) : (mail[j].nonce # 0 /\ mail[j].nonce = mail[k].nonce) => j = k
    /\ \A k \in 1 .. Len(mail) : \A v, w \in Carriers(k) : mail[k].source = "direct" => v = w

\* A message that was to wake the agent is carried by some work, or its sender was told it was not: the buffer
\* being full, the agent gone, a console or a worker that would not start, or a hold at the console.
NoLostWake == \A k \in 1 .. Len(mail) : mail[k].trigger => (mail[k].told \/ Carriers(k) # {})

\* A queued run never holds more lines than its buffer takes.
BufferBound == \A w \in 1 .. Len(work) : work[w].kind = "run" => Cardinality(work[w].items) <= BufferCap

\* The replay dispatches no channel post that some work carries already ("double-dispatch-safe: every channel run records
\* the member's fanout inbox id").
PostOnce == \A k \in 1 .. Len(mail) : \A v, w \in Carriers(k) : mail[k].source = "channel" => v = w

=============================================================================
