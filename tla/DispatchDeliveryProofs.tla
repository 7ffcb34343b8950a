---------------------- MODULE DispatchDeliveryProofs ----------------------
(* What reaches the agent, for any number of messages, runs, bridges and   *)
(* faults and for every requeue limit: a receipt that a claim wrote can be *)
(* found by its stamp, a bridge delivers all its run carries, and a        *)
(* message is given to the agent again only after a failure.  None of the  *)
(* three is inductive; StampInv and DeliveryInv are, the second one beside *)
(* HolderInv.                                                              *)
EXTENDS DispatchRunsProofs

USE DEF RunIds, NoRun, Unread, Terminal, Active, Statuses, Jobs, Channel

----------------------------------------------------------------------------
(* What the steps do to a row that is not sent to, claimed, requeued or    *)
(* handed back.                                                            *)

Ends == {"running", "delivered"} \cup Terminal

(* Row d becomes e: what it carries and its claim stay, and it does not    *)
(* go back to the queue.                                                   *)
Rewritten(d, e) == e.items = d.items /\ e.claimedAt = d.claimedAt /\ e.status \in Ends \cup {d.status}

RowKept(r) == Rewritten(run[r], run'[r])

(* People's requests other than a send.                                    *)
LEMMA RequestRows ==
  ASSUME TypeOK, ServiceStep, ~\E m \in Messages : Send(m), NEW r \in RunIds
  PROVE  RowKept(r)
<1>0. run \in [RunIds -> Runs] /\ run[r] \in Runs
  BY Zenon DEF TypeOK
<1>1. ASSUME NEW d \in Elapse, InboxWrite(d) PROVE RowKept(r)
  <2>1. CASE \A m \in inbox : msg[m] = "stored"
    <3>1. run' = [q \in RunIds |->
                    IF run[q].message \in inbox /\ run[q].status \in Active
                    THEN [run[q] EXCEPT !.status = "completed", !.summary = TRUE] ELSE run[q]]
      BY <1>1, <2>1, Zenon DEF InboxWrite
    <3>2. run'[r] = run[r] \/ run'[r] = [run[r] EXCEPT !.status = "completed", !.summary = TRUE]
      BY <3>1, Zenon
    <3> QED
      BY <1>0, <3>2, Zenon DEF Runs, RowKept, Rewritten, Ends
  <2>2. CASE ~\A m \in inbox : msg[m] = "stored"
    BY <1>0, <1>1, <2>2, Zenon DEF InboxWrite, RowKept, Rewritten
  <2> QED
    BY <2>1, <2>2, Zenon
<1>2. ASSUME UnsendWrite PROVE RowKept(r)
  <2>1. PICK x : \/ run'[r] = [run[r] EXCEPT !.status = "cancelled", !.summary = TRUE, !.message = x]
                 \/ run'[r] = [run[r] EXCEPT !.status = "cancelled", !.summary = TRUE, !.require = FALSE, !.message = x]
                 \/ run'[r] = [run[r] EXCEPT !.message = x]
    BY <1>2, Zenon DEF UnsendWrite
  <2> QED
    BY <1>0, <2>1, Zenon DEF Runs, RowKept, Rewritten, Ends
<1>3. ASSUME NEW peer, ClearConversation(peer) PROVE RowKept(r)
  <2>1. run'[r] = run[r] \/ \E x : run'[r] = [run[r] EXCEPT !.message = x, !.result = FALSE]
    BY <1>3, Zenon DEF ClearConversation
  <2> QED
    BY <1>0, <2>1, Zenon DEF Runs, RowKept, Rewritten, Ends
<1>4. ASSUME NEW q \in RunIds, Reply(q) \/ UnsendReply(q) PROVE RowKept(r)
  <2>1. CASE r # q
    BY <1>0, <1>4, <2>1, Zenon DEF Reply, UnsendReply, RowKept, Rewritten
  <2>2. CASE r = q
    <3>1. \/ run'[r] = [run[r] EXCEPT !.result = TRUE, !.status = "completed"]
          \/ run'[r] = [run[r] EXCEPT !.result = TRUE, !.status = run[r].status]
          \/ run'[r] = [run[r] EXCEPT !.result = FALSE]
      BY <1>0, <1>4, <2>2, Zenon DEF Reply, UnsendReply
    <3> QED
      BY <1>0, <3>1, Zenon DEF Runs, RowKept, Rewritten, Ends
  <2> QED
    BY <2>1, <2>2, Zenon
<1>5. ASSUME NEW q \in RunIds, CancelQueued(q) PROVE RowKept(r)
  <2>1. run'[r] = run[r] \/ run'[r] = [run[r] EXCEPT !.status = "cancelled", !.summary = TRUE]
    BY <1>0, <1>5, Zenon DEF CancelQueued
  <2> QED
    BY <1>0, <2>1, Zenon DEF Runs, RowKept, Rewritten, Ends
<1>6. ASSUME CloseWrite PROVE RowKept(r)
  <2>1. \/ run'[r] = run[r]
        \/ \E x \in Ends \cup {run[r].status} : \E y : run'[r] = [run[r] EXCEPT !.status = x, !.summary = y, !.require = FALSE]
    BY <1>0, <1>6, Zenon DEF CloseWrite, Ends
  <2> QED
    BY <1>0, <2>1, Zenon DEF Runs, RowKept, Rewritten, Ends
<1>7. ASSUME NEW S, Stopped(S) PROVE RowKept(r)
  <2>1. run'[r] = run[r] \/ run'[r] = [run[r] EXCEPT !.status = "cancelled", !.summary = TRUE]
    BY <1>7, Zenon DEF Stopped
  <2> QED
    BY <1>0, <2>1, Zenon DEF Runs, RowKept, Rewritten, Ends
<1>8. ASSUME UNCHANGED run PROVE RowKept(r)
  BY <1>0, <1>8, Zenon DEF Runs, RowKept, Rewritten, Ends
<1> QED
  BY <1>1, <1>2, <1>3, <1>4, <1>5, <1>6, <1>7, <1>8
     DEF ServiceStep, InboxRead, MarkRead, MarkUnread, UnsendRead, CloseRead, StopBusy, StopRead, StopWrite, rows

(* The rows a claim settles on its way.                                    *)
LEMMA ClearedRows ==
  ASSUME TypeOK, NEW a, NEW fate \in Fates, NEW r \in RunIds
  PROVE  Rewritten(run[r], Cleared(a, fate)[r])
<1>1. run[r] \in Runs
  BY Zenon DEF TypeOK
<1>2. r \in DOMAIN fate => fate[r] \in {"failed", "cancelled"}
  BY Zenon DEF Fates
<1>3. \/ Cleared(a, fate)[r] = [run[r] EXCEPT !.status = "failed", !.summary = TRUE]
      \/ r \in DOMAIN fate /\ Cleared(a, fate)[r] = [run[r] EXCEPT !.status = fate[r]]
      \/ Cleared(a, fate)[r] = run[r]
  BY Zenon DEF Cleared
<1> QED
  BY <1>1, <1>2, <1>3, Zenon DEF Runs, Rewritten, Ends

(* A settlement by run id.                                                 *)
LEMMA SettledRows ==
  ASSUME TypeOK, NEW q \in RunIds, NEW as \in Ends, NEW text, Settle(q, as, text), NEW r \in RunIds
  PROVE  RowKept(r)
<1>1. run \in [RunIds -> Runs] /\ run[r] \in Runs
  BY Zenon DEF TypeOK
<1>2. run'[r] = run[r] \/ \E y : run'[r] = [run[r] EXCEPT !.status = as, !.summary = y]
  BY <1>1, Zenon DEF Settle
<1> QED
  BY <1>1, <1>2, Zenon DEF Runs, RowKept, Rewritten, Ends

(* A recovery requeues the run it selected, or leaves every row out of the *)
(* queue that was out of it; and it writes no receipt but removes some.    *)
ReceiptsShrink == \A m \in Messages : receipt'[m] \in {Unread, receipt[m]}

Rescued(w) ==
  /\ w.run \in RunIds /\ Requeue(w.run) /\ run[w.run].status = "claimed"
  /\ w.job = "discard" \/ Unfresh(run[w.run].bridge)

(* A recovery's write gives receipts back and rewrites one row.            *)
LEMMA SweptRows ==
  ASSUME TypeOK, NEW s \in Sweepers, sweep[s] # NoSweep, Swept(sweep[s])
  PROVE  /\ ReceiptsShrink
         /\ Rescued(sweep[s]) \/ \A r \in RunIds : RowKept(r)
<1> DEFINE w == sweep[s]
<1>1. w \in [job: Jobs, run: RunIds, seen: Statuses, bridge: Bridges \cup {NoBridge}, claimedAt: Nat]
  BY Zenon DEF TypeOK, Sweeps
<1>2. w.run \in RunIds /\ w.job \in Jobs
  BY <1>1, Zenon
<1> HIDE DEF w
<1>3. /\ \A r \in RunIds : run[r] \in Runs
      /\ run \in [RunIds -> Runs]
      /\ receipt \in [Messages -> Nat]
  BY Zenon DEF TypeOK
<1>a. ASSUME UNCHANGED receipt PROVE ReceiptsShrink
  BY <1>a, Zenon DEF ReceiptsShrink
<1>b. ASSUME NEW stamp, receipt' = Released(w.run, stamp) PROVE ReceiptsShrink
  BY <1>3, <1>b, Zenon DEF ReceiptsShrink, Released
<1>c. ASSUME UNCHANGED run PROVE \A r \in RunIds : RowKept(r)
  BY <1>3, <1>c, Zenon DEF RowKept, Rewritten
<1>d. ASSUME NEW as \in Ends, NEW text, Settle(w.run, as, text)
      PROVE  ReceiptsShrink /\ \A r \in RunIds : RowKept(r)
  BY <1>2, <1>a, <1>d, SettledRows, Zenon DEF Settle
<1>e. ASSUME NEW ok, NEW as \in Ends, NEW text, SettleIf(ok, w.run, as, text)
      PROVE  ReceiptsShrink /\ \A r \in RunIds : RowKept(r)
  BY <1>a, <1>c, <1>d, <1>e, Zenon DEF SettleIf
<1>f. ASSUME Requeue(w.run) PROVE ReceiptsShrink
  BY <1>b, <1>f, Zenon DEF Requeue
<1>4. CASE w.job = "discard"
  <2>1. Discard(w)
    BY <1>4, Zenon DEF Swept, w
  <2>2. CASE run[w.run].status = "claimed" /\ Requeue(w.run)
    BY <1>2, <1>4, <1>f, <2>2, Zenon DEF Rescued, w
  <2>3. CASE Settle(w.run, "failed", TRUE)
    BY <1>d, <2>3, Zenon DEF Ends, w
  <2>4. CASE run' = [run EXCEPT ![w.run].requeues = @ + 1] /\ UNCHANGED receipt
    <3>1. ASSUME NEW r \in RunIds PROVE RowKept(r)
      <4>1. run'[r] = run[r] \/ \E y : run'[r] = [run[r] EXCEPT !.requeues = y]
        BY <1>3, <2>4, Zenon
      <4> QED
        BY <1>3, <4>1, Zenon DEF Runs, RowKept, Rewritten
    <3> QED
      BY <1>a, <2>4, <3>1, Zenon
  <2> QED
    BY <2>1, <2>2, <2>3, <2>4, Zenon DEF Discard
<1>5. CASE w.job = "requeue"
  <2>1. RequeueClaim(w)
    BY <1>5, Zenon DEF Swept, w
  <2>2. CASE UNCHANGED <<run, receipt>>
    BY <1>a, <1>c, <2>2, Zenon
  <2>3. CASE run[w.run].status = "claimed" /\ Unfresh(run[w.run].bridge) /\ Requeue(w.run)
    BY <1>2, <1>f, <2>3, Zenon DEF Rescued, w
  <2> QED
    BY <2>1, <2>2, <2>3, Zenon DEF RequeueClaim
<1>6. CASE w.job = "release"
  <2>1. receipt' = Released(w.run, w.claimedAt) /\ UNCHANGED run
    BY <1>6, Zenon DEF Swept, w
  <2> QED
    BY <1>b, <1>c, <2>1, Zenon
<1>7. CASE w.job \in {"superseded", "orphan"}
  <2>1. Settle(w.run, "failed", TRUE) \/ Settle(w.run, "failed", FALSE)
    BY <1>7, Zenon DEF Swept, w
  <2> QED
    BY <1>d, <2>1, Zenon DEF Ends
<1>8. CASE w.job \in {"reap", "stranded", "reconcile", "terminal"}
  <2>1. \E ok : \/ SettleIf(ok, w.run, "failed", FALSE)
                \/ SettleIf(ok, w.run, "failed", TRUE)
                \/ SettleIf(ok, w.run, "completed", TRUE)
    <3>1. CASE w.job = "reap"
      BY <3>1, Zenon DEF Swept, w
    <3>2. CASE w.job = "stranded"
      BY <3>2, Zenon DEF Swept, w
    <3>3. CASE w.job = "reconcile"
      BY <3>3, Zenon DEF Swept, w
    <3>4. CASE w.job = "terminal"
      BY <3>4, Zenon DEF Swept, w
    <3> QED
      BY <1>8, <3>1, <3>2, <3>3, <3>4, Zenon
  <2> QED
    BY <1>e, <2>1, Zenon DEF Ends
<1> QED
  BY <1>2, <1>4, <1>5, <1>6, <1>7, <1>8, Zenon DEF w

(* What a bridge's report writes.                                          *)
LEMMA ReportedRows ==
  ASSUME TypeOK, NEW b \in Bridges, PatchWrite(b), patch[b].run \in RunIds
  PROVE  /\ \A r \in RunIds \ {patch[b].run} : run'[r] = run[r]
         /\ run'[patch[b].run].items = run[patch[b].run].items
         /\ run'[patch[b].run].claimedAt = run[patch[b].run].claimedAt
         /\ run'[patch[b].run].status = Effective(patch[b])
<1> DEFINE p == patch[b]
           x(text) == [run[p.run] EXCEPT !.status = Effective(p), !.summary = text,
                      !.started = IF Effective(p) = "running" THEN TRUE ELSE run[p.run].started,
                      !.result = IF Mirrored(p) THEN TRUE ELSE run[p.run].result,
                      !.delivered = IF Channel /\ p.want \in {"delivered", "completed"}
                                    THEN TRUE ELSE run[p.run].delivered]
<1>1. run \in [RunIds -> Runs] /\ run[p.run] \in Runs
  BY Zenon DEF TypeOK
<1>2. PICK text : run' = [run EXCEPT ![p.run] = x(text)]
  BY Zenon DEF PatchWrite
<1>3. \A t : x(t).items = run[p.run].items /\ x(t).claimedAt = run[p.run].claimedAt /\ x(t).status = Effective(p)
  BY <1>1, Zenon DEF Runs
<1> HIDE DEF x
<1> QED
  BY <1>1, <1>2, <1>3, Zenon

----------------------------------------------------------------------------
(* Receipts.  A receipt that a claim wrote can be found by its stamp as    *)
(* long as no sidecar hands a claimed run back: a hand-back (hermes) keeps *)
(* the receipt and the next claim overwrites the time it carries.          *)

(* A claim that was not taken back has its time, and one that was, or      *)
(* never was, has none; no report puts a run back.                         *)
ClaimIsTimed ==
  /\ \A r \in RunIds : run[r].status \in {"none", "queued"} => run[r].claimedAt = 0
  /\ \A b \in Bridges : patch[b] # NoPatch => patch[b].want # "queued" /\ patch[b].want # "none" /\ patch[b].run # NoRun

StampInv == ClaimIsTimed /\ ReceiptStamped

(* Receipts written by a claim that are there after the step were there    *)
(* before.                                                                 *)
ReceiptsKept ==
  \A m \in Messages : receipt'[m] # Unread /\ m \notin earned' => receipt'[m] = receipt[m] /\ m \notin earned

(* No new report puts a run back.                                          *)
ReportsForward ==
  \A b \in Bridges : \/ patch'[b] = patch[b] \/ patch'[b] = NoPatch
                     \/ patch'[b].want \notin {"none", "queued"} /\ patch'[b].run # NoRun

(* A row keeps its claim and what it carries, or had no claim.             *)
StampKept(r) ==
  /\ run[r].claimedAt # 0 => run'[r].claimedAt = run[r].claimedAt /\ run'[r].items = run[r].items
  /\ run'[r].status \in {"none", "queued"} => run'[r].claimedAt = 0

(* A row that is kept keeps the time of its claim.                         *)
LEMMA KeptStamp ==
  ASSUME StampInv, NEW r \in RunIds, RowKept(r)
  PROVE  StampKept(r)
BY Zenon DEF StampInv, ClaimIsTimed, RowKept, Rewritten, StampKept, Ends

(* Reports on their way stay reports of a run.                             *)
LEMMA ReportsStay ==
  ASSUME StampInv, ReportsForward
  PROVE  \A b \in Bridges : patch'[b] # NoPatch => patch'[b].want \notin {"none", "queued"} /\ patch'[b].run # NoRun
BY Zenon DEF StampInv, ClaimIsTimed, ReportsForward

(* A step that keeps receipts, reports and stamps keeps StampInv.          *)
LEMMA StampsStay ==
  ASSUME TypeOK, StampInv, ReceiptsKept, ReportsForward, \A r \in RunIds : StampKept(r)
  PROVE  StampInv'
<1>1. ClaimIsTimed'
  BY ReportsStay, Zenon DEF ClaimIsTimed, StampKept
<1>2. ASSUME NEW m \in Messages, receipt'[m] # Unread, m \notin earned'
      PROVE  \E r \in RunIds : m \in run'[r].items /\ run'[r].claimedAt = receipt'[m]
  <2>1. receipt'[m] = receipt[m] /\ m \notin earned
    BY <1>2, Zenon DEF ReceiptsKept
  <2>2. PICK r \in RunIds : m \in run[r].items /\ run[r].claimedAt = receipt[m]
    BY <1>2, <2>1, Zenon DEF StampInv, ReceiptStamped
  <2> QED
    BY <1>2, <2>1, <2>2, Zenon DEF StampKept
<1> QED
  BY <1>1, <1>2, Zenon DEF StampInv, ReceiptStamped

(* Requests.                                                               *)
LEMMA RequestReceipts ==
  ASSUME TypeOK, ServiceStep
  PROVE  ReceiptsKept /\ UNCHANGED patch
<1>0. receipt \in [Messages -> Nat] /\ earned \subseteq Messages
  BY Zenon DEF TypeOK
<1>1. ASSUME UNCHANGED <<receipt, earned>> PROVE ReceiptsKept
  BY <1>1, Zenon DEF ReceiptsKept
<1>2. ASSUME NEW d \in Elapse, InboxWrite(d) PROVE ReceiptsKept
  <2>1. CASE \A m \in inbox : msg[m] = "stored"
    <3>1. /\ receipt' = Marked(inbox, clock + d)
          /\ earned' = earned \cup {m \in inbox : receipt[m] = Unread}
      BY <1>2, <2>1, Zenon DEF InboxWrite
    <3> QED
      BY <3>1, <1>0, Zenon DEF Marked, ReceiptsKept
  <2>2. CASE ~\A m \in inbox : msg[m] = "stored"
    BY <1>1, <1>2, <2>2, Zenon DEF InboxWrite
  <2> QED
    BY <2>1, <2>2, Zenon
<1>3. ASSUME NEW m \in Messages, NEW d \in Elapse, MarkRead(m, d) PROVE ReceiptsKept
  BY <1>0, <1>3, Zenon DEF MarkRead, ReceiptsKept
<1>4. ASSUME NEW m \in Messages, MarkUnread(m) PROVE ReceiptsKept
  BY <1>0, <1>4, Zenon DEF MarkUnread, ReceiptsKept
<1>5. ASSUME NEW S, Deleted(S), UNCHANGED earned PROVE ReceiptsKept
  BY <1>0, <1>5, Zenon DEF Deleted, ReceiptsKept
<1>6. ReceiptsKept
  BY <1>1, <1>2, <1>3, <1>4, <1>5, Zenon
     DEF ServiceStep, Send, InboxRead, UnsendRead, UnsendWrite, ClearConversation, Reply, UnsendReply,
         CancelQueued, CloseRead, CloseWrite, StopBusy, StopRead, StopWrite, rows
<1>7. UNCHANGED bridge
  BY Zenon DEF ServiceStep, Send, InboxRead, InboxWrite, MarkRead, MarkUnread, UnsendRead,
         UnsendWrite, ClearConversation, Reply, UnsendReply, CancelQueued, CloseRead,
         CloseWrite, StopBusy, StopRead, StopWrite
<1> QED
  BY <1>6, <1>7, Zenon DEF bridge

(* What the service does by itself or for a person keeps it.               *)
LEMMA RequestStamps ==
  ASSUME TypeOK, StampInv, ServiceStep
  PROVE  StampInv'
<1>1. ReceiptsKept /\ ReportsForward
  BY RequestReceipts, Zenon DEF ReportsForward
<1>2. CASE ~\E m \in Messages : Send(m)
  BY <1>1, <1>2, RequestRows, KeptStamp, StampsStay, Zenon
<1>3. ASSUME NEW m \in Messages, Send(m) PROVE StampInv'
  <2> DEFINE free == {q \in RunIds : run[q].status = "none"}
             same == Mergeable(SenderOf[m])
  <2>0. run \in [RunIds -> Runs]
    BY Zenon DEF TypeOK
  <2>1. free # {} => Oldest(free) \in free
    BY OldestIn, Zenon
  <2>2. same # {} => Oldest(same) \in same
    BY OldestIn, Zenon DEF Mergeable
  <2>3. ASSUME NEW q \in RunIds, run[q].status \in {"none", "queued"}
        PROVE  run[q].claimedAt = 0 /\ run[q] \in Runs
    BY <2>0, <2>3, Zenon DEF StampInv, ClaimIsTimed
  <2>4. ASSUME NEW r \in RunIds PROVE StampKept(r)
    <3>1. CASE run'[r] = run[r]
      BY <3>1, Zenon DEF StampKept, StampInv, ClaimIsTimed
    <3>2. CASE run[r].claimedAt = 0 /\ run'[r].claimedAt = 0
      BY <3>2, Zenon DEF StampKept
    <3>3. CASE same = {}
      <4>1. /\ free # {}
            /\ run' = [run EXCEPT ![Oldest(free)] =
                 [NoRow EXCEPT !.status = "queued", !.items = {m}, !.message = m,
                               !.require = IF m \in NeedReply THEN TRUE ELSE FALSE]]
        BY <1>3, <3>3, Zenon DEF Send, Enqueued
      <4>2. r = Oldest(free) => run'[r].claimedAt = 0
        BY <2>0, <4>1, Zenon DEF NoRow
      <4>3. r # Oldest(free) => run'[r] = run[r]
        BY <2>0, <4>1, Zenon
      <4>4. r = Oldest(free) => run[r].claimedAt = 0
        BY <2>1, <2>3, <4>1, Zenon
      <4> QED
        BY <3>1, <3>2, <4>2, <4>3, <4>4, Zenon
    <3>4. CASE same # {}
      <4>1. \/ run' = run
            \/ run' = [run EXCEPT ![Oldest(same)] =
                    [run[Oldest(same)] EXCEPT !.items = run[Oldest(same)].items \cup {m},
                              !.require = IF m \in NeedReply THEN TRUE ELSE run[Oldest(same)].require]]
        BY <1>3, <3>4, Zenon DEF Send, Enqueued
      <4>2. Oldest(same) \in RunIds /\ run[Oldest(same)].status = "queued"
        BY <2>2, <3>4, Zenon DEF Mergeable
      <4>3. run[Oldest(same)].claimedAt = 0 /\ run[Oldest(same)] \in Runs
        BY <2>3, <4>2, Zenon
      <4>4. r # Oldest(same) => run'[r] = run[r]
        BY <2>0, <4>1, Zenon
      <4>5. ASSUME r = Oldest(same) PROVE run'[r] = run[r] \/ run'[r].claimedAt = 0
        <5>1. \/ run'[r] = run[r]
              \/ run'[r] = [run[r] EXCEPT !.items = run[r].items \cup {m},
                              !.require = IF m \in NeedReply THEN TRUE ELSE run[r].require]
          BY <2>0, <4>1, <4>5, Zenon
        <5> QED
          BY <4>3, <4>5, <5>1, Zenon DEF Runs
      <4> HIDE DEF same
      <4> QED
        BY <3>1, <3>2, <4>3, <4>4, <4>5, Zenon
    <3> QED
      BY <3>3, <3>4, Zenon
  <2> QED
    BY <1>1, <2>4, StampsStay, Zenon
<1> QED
  BY <1>2, <1>3, Zenon

(* Claims.                                                                 *)
LEMMA ClaimStamps ==
  ASSUME TypeOK, StampInv, NEW b \in Bridges, NEW a, NEW fate \in Fates
  PROVE  /\ \A r \in RunIds, d \in Elapse : Claim(b, r, a, fate, d) => StampInv'
         /\ ClaimNothing(b, a, fate) => StampInv'
<1>0. /\ run \in [RunIds -> Runs] /\ receipt \in [Messages -> Nat]
      /\ \A q \in RunIds : run[q] \in Runs /\ run[q].items \subseteq Messages
  BY Zenon DEF TypeOK, Runs
<1>1. ASSUME ClaimNothing(b, a, fate) PROVE StampInv'
  <2>1. \A r \in RunIds : RowKept(r)
    BY <1>1, ClearedRows, Zenon DEF ClaimNothing, RowKept
  <2>2. ReceiptsKept /\ ReportsForward
    BY <1>1, Zenon DEF ClaimNothing, ReceiptsKept, ReportsForward
  <2> QED
    BY <2>1, <2>2, KeptStamp, StampsStay, Zenon
<1>2. ASSUME NEW r \in RunIds, NEW d \in Elapse, Claim(b, r, a, fate, d) PROVE StampInv'
  <2>1. /\ run[r].status = "queued" /\ run[r].claimedAt = 0
        /\ run' = [Cleared(a, fate) EXCEPT
             ![r] = [run[r] EXCEPT !.status = "claimed", !.bridge = b, !.claimedAt = clock + d]]
        /\ receipt' = Marked(run[r].items, clock + d)
        /\ UNCHANGED <<earned, patch>>
    BY <1>2, Zenon DEF Claim, Claimable, StampInv, ClaimIsTimed
  <2>2. run'[r].status = "claimed" /\ run'[r].claimedAt = clock + d /\ run'[r].items = run[r].items
    <3>1. Cleared(a, fate) = [q \in RunIds |-> Cleared(a, fate)[q]]
      BY Zenon DEF Cleared
    <3> DEFINE x == [run[r] EXCEPT !.status = "claimed", !.bridge = b, !.claimedAt = clock + d]
    <3>2. x.status = "claimed" /\ x.claimedAt = clock + d /\ x.items = run[r].items
      BY <1>0, Zenon DEF Runs
    <3>3. run'[r] = x
      BY <2>1, <3>1, Zenon
    <3> HIDE DEF x
    <3> QED
      BY <3>2, <3>3, Zenon
  <2>3. ASSUME NEW q \in RunIds, q # r PROVE StampKept(q)
    <3>1. run'[q] = Cleared(a, fate)[q]
      BY <2>1, <2>3, Zenon DEF Cleared
    <3> QED
      BY <3>1, ClearedRows, KeptStamp, Zenon DEF RowKept
  <2>4. ClaimIsTimed'
    <3>1. \A q \in RunIds : run'[q].status \in {"none", "queued"} => run'[q].claimedAt = 0
      BY <2>2, <2>3, Zenon DEF StampKept
    <3>2. \A c \in Bridges : patch'[c] # NoPatch => patch'[c].want \notin {"none", "queued"} /\ patch'[c].run # NoRun
      BY <2>1, Zenon DEF StampInv, ClaimIsTimed
    <3> QED
      BY <3>1, <3>2, Zenon DEF ClaimIsTimed
  <2>5. ASSUME NEW m \in Messages, receipt'[m] # Unread, m \notin earned'
        PROVE  \E q \in RunIds : m \in run'[q].items /\ run'[q].claimedAt = receipt'[m]
    <3>1. CASE receipt'[m] = receipt[m]
      <4>1. PICK q \in RunIds : m \in run[q].items /\ run[q].claimedAt = receipt[m]
        BY <2>1, <2>5, <3>1, Zenon DEF StampInv, ReceiptStamped
      <4>2. q # r
        BY <2>1, <2>5, <3>1, <4>1, Zenon
      <4> QED
        BY <2>3, <2>5, <3>1, <4>1, <4>2, Zenon DEF StampKept
    <3>2. CASE receipt'[m] # receipt[m]
      <4>1. m \in run[r].items /\ receipt'[m] = clock + d
        BY <2>1, <3>2, Zenon DEF Marked
      <4> QED
        BY <2>2, <4>1, Zenon
    <3> QED
      BY <3>1, <3>2, Zenon
  <2> QED
    BY <2>4, <2>5, Zenon DEF StampInv, ReceiptStamped
<1> QED
  BY <1>1, <1>2, Zenon

(* Reports, and the bridge's process.                                      *)
LEMMA BridgeStamps ==
  ASSUME Mode # "hermes", TypeOK, StampInv, NEW b \in Bridges, BridgeStep(b)
  PROVE  StampInv'
<1>0. run \in [RunIds -> Runs] /\ patch \in [Bridges -> Patches]
  BY Zenon DEF TypeOK
<1>a. ASSUME UNCHANGED <<receipt, earned>>, ReportsForward, \A r \in RunIds : RowKept(r)
      PROVE  StampInv'
  BY <1>a, KeptStamp, StampsStay, Zenon DEF ReceiptsKept
<1>b. ASSUME UNCHANGED run, NEW r \in RunIds PROVE RowKept(r)
  BY <1>0, <1>b, Zenon DEF RowKept, Rewritten
<1>c. ASSUME UNCHANGED patch PROVE ReportsForward
  BY <1>c, Zenon DEF ReportsForward
<1>1. CASE \/ \E r \in RunIds, a \in RunIds \cup {NoRun}, fate \in Fates, d \in Elapse : Claim(b, r, a, fate, d)
           \/ \E a \in RunIds \cup {NoRun}, fate \in Fates : ClaimNothing(b, a, fate)
  BY <1>1, ClaimStamps, Zenon
<1>2. ASSUME NEW want \in Statuses, PatchRead(b, want) PROVE StampInv'
  <2>1. want \notin {"none", "queued"}
    BY <1>2, ModeAssumption, Zenon DEF PatchRead, Reports
  <2>2. ReportsForward
    BY <1>0, <1>2, <2>1, Zenon DEF PatchRead, ReportsForward
  <2> QED
    BY <1>2, <1>a, <1>b, <2>2, Zenon DEF PatchRead, rows
<1>3. CASE PatchWrite(b)
  <2>1. patch[b] # NoPatch /\ UNCHANGED <<receipt, earned>>
    BY <1>3, Zenon DEF PatchWrite
  <2>2. patch[b].run \in RunIds /\ patch[b].want \in Statuses \ {"none", "queued"}
    BY <1>0, <2>1, Zenon DEF StampInv, ClaimIsTimed, Patches
  <2>3. Effective(patch[b]) \in Ends \cup {"claimed", run[patch[b].run].status}
    BY <2>2, Zenon DEF Effective, Ends
  <2>4. ReportsForward
    BY <1>0, <1>3, Zenon DEF PatchWrite, Answered, ReportsForward
  <2>5. ASSUME NEW r \in RunIds PROVE StampKept(r)
    <3>1. CASE r # patch[b].run
      BY <1>0, <1>3, <2>2, <2>5, <3>1, ReportedRows, KeptStamp, Zenon DEF RowKept, Rewritten
    <3>2. CASE r = patch[b].run
      <4>1. /\ run'[r].items = run[r].items /\ run'[r].claimedAt = run[r].claimedAt
            /\ run'[r].status = Effective(patch[b])
        BY <1>3, <2>2, <3>2, ReportedRows, Zenon
      <4>2. run'[r].status \in {"none", "queued"} => run[r].status \in {"none", "queued"}
        BY <2>3, <3>2, <4>1, Zenon DEF Ends
      <4> QED
        BY <2>5, <4>1, <4>2, Zenon DEF StampKept, StampInv, ClaimIsTimed
    <3> QED
      BY <3>1, <3>2, Zenon
  <2> QED
    BY <2>1, <2>4, <2>5, StampsStay, Zenon DEF ReceiptsKept
<1>4. CASE Supersede(b)
  <2>1. ASSUME NEW r \in RunIds PROVE RowKept(r)
    <3>1. run'[r] = run[r] \/ run'[r] = [run[r] EXCEPT !.status = "failed"]
      BY <1>4, Zenon DEF Supersede, Replaced
    <3> QED
      BY <1>0, <3>1, Zenon DEF Runs, RowKept, Rewritten, Ends
  <2> QED
    BY <1>4, <1>a, <1>c, <2>1, Zenon DEF Supersede
<1>5. CASE Revive(b) \/ Hand(b) \/ PatchLost(b) \/ Crash(b) \/ Lapse(b) \/ Restart(b) \/ Sleep(b) \/ Wake(b)
  <2>1. UNCHANGED <<run, receipt, earned, patch>>
    BY <1>5, Zenon DEF Revive, Hand, PatchLost, Crash, Lapse, Restart, Sleep, Wake, rows
  <2> QED
    BY <1>a, <1>b, <1>c, <2>1, Zenon
<1> QED
  BY <1>1, <1>2, <1>3, <1>4, <1>5, Zenon DEF BridgeStep

(* Recoveries.                                                             *)
LEMMA SweepStamps ==
  ASSUME TypeOK, StampInv, NEW s \in Sweepers, SweepStep(s)
  PROVE  StampInv'
<1>0. run \in [RunIds -> Runs] /\ receipt \in [Messages -> Nat]
  BY Zenon DEF TypeOK
<1>1. ASSUME NEW job \in Jobs, NEW r \in RunIds, SweepSelect(s, job, r) PROVE StampInv'
  <2>1. UNCHANGED <<run, receipt, earned, patch>>
    BY <1>1, Zenon DEF SweepSelect, rows, bridge
  <2>2. \A q \in RunIds : RowKept(q)
    BY <1>0, <2>1, Zenon DEF RowKept, Rewritten
  <2> QED
    BY <2>1, <2>2, KeptStamp, StampsStay, Zenon DEF ReceiptsKept, ReportsForward
<1>2. CASE SweepWrite(s)
  <2>1. sweep[s] # NoSweep /\ Swept(sweep[s]) /\ UNCHANGED <<earned, patch>>
    BY <1>2, Zenon DEF SweepWrite, bridge
  <2>2. ReceiptsKept /\ ReportsForward
    BY <2>1, SweptRows, Zenon DEF ReceiptsShrink, ReceiptsKept, ReportsForward
  <2>3. CASE \A r \in RunIds : RowKept(r)
    BY <2>2, <2>3, KeptStamp, StampsStay, Zenon
  <2>4. CASE Rescued(sweep[s])
    <3> DEFINE w == sweep[s]
    <3>1. /\ w.run \in RunIds /\ run[w.run] \in Runs
          /\ receipt' = Released(w.run, run[w.run].claimedAt)
          /\ run' = [run EXCEPT ![w.run] = [run[w.run] EXCEPT !.status = "queued", !.bridge = NoBridge,
                                         !.claimedAt = 0, !.requeues = Rescues(w.run)]]
      BY <1>0, <2>4, Zenon DEF Rescued, Requeue
    <3> HIDE DEF w
    <3>2. \A q \in RunIds \ {w.run} : run'[q] = run[q]
      BY <1>0, <3>1, Zenon
    <3>3. run'[w.run].claimedAt = 0
      BY <1>0, <3>1, Zenon DEF Runs
    <3>4. ClaimIsTimed'
      BY <2>2, <3>2, <3>3, ReportsStay, Zenon DEF ClaimIsTimed, StampInv
    <3>5. ASSUME NEW m \in Messages, receipt'[m] # Unread, m \notin earned'
          PROVE  \E q \in RunIds : m \in run'[q].items /\ run'[q].claimedAt = receipt'[m]
      <4>1. receipt'[m] = receipt[m] /\ m \notin earned
        BY <2>2, <3>5, Zenon DEF ReceiptsKept
      <4>2. PICK q \in RunIds : m \in run[q].items /\ run[q].claimedAt = receipt[m]
        BY <3>5, <4>1, Zenon DEF StampInv, ReceiptStamped
      <4>3. q # w.run
        BY <1>0, <3>1, <3>5, <4>1, <4>2, Zenon DEF Released
      <4> QED
        BY <3>2, <4>1, <4>2, <4>3, Zenon
    <3> QED
      BY <3>4, <3>5, Zenon DEF StampInv, ReceiptStamped
  <2> QED
    BY <2>1, <2>3, <2>4, SweptRows, Zenon
<1> QED
  BY <1>1, <1>2, Zenon DEF SweepStep

(* Nothing is claimed or marked at first.                                  *)
LEMMA StampInit == Init => StampInv
BY DEF Init, StampInv, ClaimIsTimed, ReceiptStamped, NoRow

(* As long as no sidecar hands a run back, every receipt that a claim      *)
(* wrote carries the claim time of a run that holds the message, so the    *)
(* sweep that looks for it by that time can give it back                   *)
(* (claim_receipt_release.py): through merges, re-claims, requeues, inbox  *)
(* reads, marks, unsends, clears and reports, by any number of bridges and *)
(* overlapping recoveries, and also when live claimers are taken for gone. *)
THEOREM ReceiptsAreStamped ==
  ASSUME Mode # "hermes"
  PROVE  Spec => []ReceiptStamped
<1>1. ASSUME TypeOK, StampInv, [Next]_vars PROVE StampInv'
  <2>1. CASE UNCHANGED vars
    BY <1>1, <2>1, Zenon DEF vars, StampInv, ClaimIsTimed, ReceiptStamped
  <2>2. CASE Next
    BY <1>1, <2>2, RequestStamps, BridgeStamps, SweepStamps, Zenon DEF Next
  <2> QED
    BY <1>1, <2>1, <2>2, Zenon
<1>2. StampInv => ReceiptStamped
  BY Zenon DEF StampInv
<1> QED
  BY <1>1, <1>2, StampInit, Typing, PTL DEF Spec

----------------------------------------------------------------------------
(* Deliveries.                                                             *)

(* A message that may be handed over without being handed over twice: no   *)
(* managed turn had it, and every push of it cost a fault.                 *)
Fresh(m) == IF Channel THEN handed[m] <= faults ELSE handed[m] = 0

(* No message is in two runs; one not yet sent is in none.                 *)
OneRunEach ==
  /\ \A r, q \in RunIds : \A m \in run[r].items : m \in run[q].items => r = q
  /\ \A m \in Messages : msg[m] = "new" => Fresh(m) /\ \A r \in RunIds : m \notin run[r].items

(* What a bridge does, and reports, fits the run it holds.                 *)
BridgeFits ==
  \A b \in Bridges :
    /\ phase[b] # "idle" <=> held[b] # NoRun
    /\ patch[b] # NoPatch /\ patch[b].seen \in Terminal => run[patch[b].run].status # "claimed"
    /\ patch[b].want # "claimed"
    /\ patch[b].want = "running" => phase[b] \in {"idle", "claimed"}
    /\ ~Channel /\ phase[b] \in {"started", "handed"} => run[held[b]].status # "claimed"

(* Every run that can still be handed over has fresh messages.             *)
FreshAhead ==
  /\ \A b \in Bridges : phase[b] \in {"claimed", "started"} => \A m \in run[held[b]].items : Fresh(m)
  /\ \A b \in Bridges : patch[b].want = "queued" => \A m \in run[patch[b].run].items : Fresh(m)
  /\ \A r \in RunIds : run[r].status = "queued" => \A m \in run[r].items : Fresh(m)
  /\ \A r \in RunIds : run[r].status = "claimed" /\ (~\E b \in Bridges : held[b] = r /\ phase[b] = "handed")
                       => \A m \in run[r].items : Fresh(m)

DeliveryInv == OneRunEach /\ BridgeFits /\ CarriedIsItems /\ FreshAhead /\ HandedOnce

(* A row that keeps what it carries, is not claimed by the step, and goes  *)
(* to the queue only with fresh messages.                                  *)
Steady(r) ==
  /\ run'[r].items = run[r].items
  /\ run'[r].status = "claimed" => run[r].status = "claimed"
  /\ run'[r].status = "queued" => run[r].status = "queued" \/ \A m \in run[r].items : Fresh(m)

(* A row that is kept is steady.                                           *)
LEMMA KeptSteady ==
  ASSUME NEW r \in RunIds, RowKept(r)
  PROVE  Steady(r)
BY Zenon DEF RowKept, Rewritten, Steady, Ends

(* Nothing is handed over and no fault undone.                             *)
NothingHanded == handed' = handed /\ faults' \in Nat /\ faults <= faults'

(* A message stays fresh while nothing is handed over.                     *)
LEMMA FreshStays ==
  ASSUME TypeOK, NothingHanded, NEW m \in Messages, Fresh(m)
  PROVE  Fresh(m)'
<1>1. faults \in Nat /\ handed \in [Messages -> Nat]
  BY Zenon DEF TypeOK
<1> QED
  BY <1>1 DEF Fresh, NothingHanded

(* A step that hands nothing over hands nothing over twice.                *)
LEMMA OnceStays ==
  ASSUME TypeOK, HandedOnce, NothingHanded
  PROVE  HandedOnce'
<1>1. faults \in Nat /\ handed \in [Messages -> Nat]
  BY Zenon DEF TypeOK
<1> QED
  BY <1>1 DEF HandedOnce, NothingHanded

(* Typing of what runs carry and bridges hold.                             *)
LEMMA ItemsTyped ==
  ASSUME TypeOK
  PROVE  /\ \A r \in RunIds : run[r] \in Runs /\ run[r].items \subseteq Messages
         /\ \A b \in Bridges : held[b] \in RunIds \cup {NoRun}
         /\ NoRun \notin RunIds
BY DEF TypeOK, Runs

(* A report under way is about a run.                                      *)
LEMMA ReportsRun ==
  ASSUME TypeOK, HolderInv, NEW b \in Bridges, patch[b] # NoPatch
  PROVE  /\ patch[b].run \in RunIds
         /\ run[patch[b].run].bridge = b /\ run[patch[b].run].status \notin {"none", "queued"}
         /\ held[b] # NoRun => held[b] = patch[b].run
<1>1. /\ patch[b].run # NoRun /\ run[patch[b].run].bridge = b
      /\ run[patch[b].run].status \notin {"none", "queued"}
      /\ held[b] # NoRun => held[b] = patch[b].run
  BY Zenon DEF HolderInv, ReportOwns
<1>2. patch[b] \in Patches
  BY Zenon DEF TypeOK
<1> QED
  BY <1>1, <1>2, Zenon DEF Patches

(* A step that leaves the bridges and their work alone.                    *)
LEMMA Calm ==
  ASSUME TypeOK, HolderInv, DeliveryInv, NothingHanded, UNCHANGED <<held, carried, phase, patch>>,
         \A m \in Messages : msg'[m] = "new" => msg[m] = "new",
         \A r \in RunIds : Steady(r)
  PROVE  DeliveryInv'
<1>1. OneRunEach'
  <2>1. \A r, q \in RunIds : \A m \in run'[r].items : m \in run'[q].items => r = q
    BY Zenon DEF Steady, DeliveryInv, OneRunEach
  <2>2. ASSUME NEW m \in Messages, msg'[m] = "new"
        PROVE  Fresh(m)' /\ \A r \in RunIds : m \notin run'[r].items
    <3>1. Fresh(m) /\ \A r \in RunIds : m \notin run[r].items
      BY <2>2, Zenon DEF DeliveryInv, OneRunEach
    <3> QED
      BY <3>1, FreshStays, Zenon DEF Steady
  <2> QED
    BY <2>1, <2>2, Zenon DEF OneRunEach
<1>2. BridgeFits'
  <2> SUFFICES ASSUME NEW b \in Bridges
               PROVE  /\ phase'[b] # "idle" <=> held'[b] # NoRun
                      /\ patch'[b] # NoPatch /\ patch'[b].seen \in Terminal => run'[patch'[b].run].status # "claimed"
                      /\ patch'[b].want # "claimed"
                      /\ patch'[b].want = "running" => phase'[b] \in {"idle", "claimed"}
                      /\ ~Channel /\ phase'[b] \in {"started", "handed"} => run'[held'[b]].status # "claimed"
    BY Zenon DEF BridgeFits
  <2>1. /\ phase[b] # "idle" <=> held[b] # NoRun
        /\ patch[b] # NoPatch /\ patch[b].seen \in Terminal => run[patch[b].run].status # "claimed"
        /\ patch[b].want # "claimed"
        /\ patch[b].want = "running" => phase[b] \in {"idle", "claimed"}
        /\ ~Channel /\ phase[b] \in {"started", "handed"} => run[held[b]].status # "claimed"
    BY Zenon DEF DeliveryInv, BridgeFits
  <2>2. patch[b] # NoPatch => Steady(patch[b].run)
    BY ReportsRun, Zenon
  <2>3. held[b] # NoRun => Steady(held[b])
    BY ItemsTyped, Zenon
  <2> QED
    BY <2>1, <2>2, <2>3, Zenon DEF Steady
<1>3. CarriedIsItems'
  <2> SUFFICES ASSUME NEW b \in Bridges, held'[b] # NoRun
               PROVE  carried'[b] = run'[held'[b]].items
    BY Zenon DEF CarriedIsItems
  <2>1. held[b] # NoRun /\ Steady(held[b]) /\ carried[b] = run[held[b]].items
    BY ItemsTyped, Zenon DEF DeliveryInv, CarriedIsItems
  <2> QED
    BY <2>1, Zenon DEF Steady
<1>4. FreshAhead'
  <2>1. ASSUME NEW b \in Bridges, phase'[b] \in {"claimed", "started"}, NEW m \in run'[held'[b]].items
        PROVE  Fresh(m)'
    <3>1. held[b] \in RunIds /\ phase[b] \in {"claimed", "started"} /\ held'[b] = held[b]
      BY <2>1, ItemsTyped, Zenon DEF DeliveryInv, BridgeFits
    <3>2. m \in run[held[b]].items
      BY <2>1, <3>1, Zenon DEF Steady
    <3>3. Fresh(m) /\ m \in Messages
      BY <3>1, <3>2, ItemsTyped, Zenon DEF DeliveryInv, FreshAhead
    <3> QED
      BY <3>3, FreshStays, Zenon
  <2>2. ASSUME NEW b \in Bridges, patch'[b].want = "queued", NEW m \in run'[patch'[b].run].items
        PROVE  Fresh(m)'
    <3>1. patch[b] # NoPatch /\ patch'[b] = patch[b]
      BY <2>2, NoPatchFields, Zenon
    <3>2. patch[b].run \in RunIds
      BY <3>1, ReportsRun, Zenon
    <3>3. m \in run[patch[b].run].items
      BY <2>2, <3>1, <3>2, Zenon DEF Steady
    <3>4. Fresh(m) /\ m \in Messages
      BY <2>2, <3>1, <3>2, <3>3, ItemsTyped, Zenon DEF DeliveryInv, FreshAhead
    <3> QED
      BY <3>4, FreshStays, Zenon
  <2>3. ASSUME NEW r \in RunIds, run'[r].status = "queued", NEW m \in run'[r].items
        PROVE  Fresh(m)'
    <3>1. Fresh(m) /\ m \in Messages
      BY <2>3, ItemsTyped, Zenon DEF Steady, DeliveryInv, FreshAhead
    <3> QED
      BY <3>1, FreshStays, Zenon
  <2>4. ASSUME NEW r \in RunIds, run'[r].status = "claimed",
               ~\E b \in Bridges : held'[b] = r /\ phase'[b] = "handed",
               NEW m \in run'[r].items
        PROVE  Fresh(m)'
    <3>1. run[r].status = "claimed" /\ m \in run[r].items /\ ~\E b \in Bridges : held[b] = r /\ phase[b] = "handed"
      BY <2>4, Zenon DEF Steady
    <3>2. Fresh(m) /\ m \in Messages
      BY <3>1, ItemsTyped, Zenon DEF DeliveryInv, FreshAhead
    <3> QED
      BY <3>2, FreshStays, Zenon
  <2> QED
    BY <2>1, <2>2, <2>3, <2>4, Zenon DEF FreshAhead
<1> QED
  BY <1>1, <1>2, <1>3, <1>4, OnceStays, Zenon DEF DeliveryInv

(* Two runs in the hands of two bridges are two runs, and what one carries *)
(* the other does not.                                                     *)
LEMMA Apart ==
  ASSUME HolderInv, NEW b \in Bridges, NEW c \in Bridges, b # c, held[b] # NoRun
  PROVE  /\ held[c] # held[b]
         /\ patch[c] # NoPatch => patch[c].run # held[b]
BY DEF HolderInv, HolderOwns, ReportOwns

(* A send: the message is in no run yet, and joins one that no bridge has. *)
LEMMA SendDelivers ==
  ASSUME TypeOK, HolderInv, DeliveryInv, NEW m \in Messages, Send(m)
  PROVE  DeliveryInv'
<1> DEFINE free == {q \in RunIds : run[q].status = "none"}
           same == Mergeable(SenderOf[m])
<1>0. run \in [RunIds -> Runs] /\ msg \in [Messages -> {"new", "stored", "gone"}]
  BY Zenon DEF TypeOK
<1>1. /\ msg[m] = "new" /\ msg' = [msg EXCEPT ![m] = "stored"]
      /\ UNCHANGED <<held, carried, phase, patch, handed, faults>>
  BY Zenon DEF Send, bridge
<1>2. Fresh(m) /\ \A r \in RunIds : m \notin run[r].items
  BY <1>1, Zenon DEF DeliveryInv, OneRunEach
<1>3. NothingHanded
  BY <1>1 DEF NothingHanded, TypeOK
<1>4. CASE run' = run
  <2>1. \A r \in RunIds : Steady(r)
    BY <1>4, Zenon DEF Steady
  <2> QED
    BY <1>0, <1>1, <1>3, <2>1, Calm, Zenon
<1>5. ASSUME NEW x \in RunIds, run[x].status \in {"none", "queued"}, run'[x].status = "queued",
             \A k \in run'[x].items : k = m \/ (k \in run[x].items /\ run[x].status = "queued"),
             \A q \in RunIds \ {x} : run'[q] = run[q]
      PROVE  DeliveryInv'
  <2>0. /\ \A k \in run'[x].items : k \in Messages /\ Fresh(k)
        /\ \A k : \A q \in RunIds : k \in run'[q].items => k \in run[q].items \/ (q = x /\ k = m)
    BY <1>2, <1>5, ItemsTyped, Zenon DEF DeliveryInv, FreshAhead
  <2>1. ASSUME NEW b \in Bridges
        PROVE  /\ held[b] # NoRun => held[b] \in RunIds \ {x}
               /\ patch[b] # NoPatch => patch[b].run \in RunIds \ {x}
    BY <1>5, ReportsRun, ItemsTyped, Zenon DEF HolderInv, HolderOwns
  <2>2. OneRunEach'
    <3>1. \A r, q \in RunIds : \A k \in run'[r].items : k \in run'[q].items => r = q
      BY <1>2, <2>0 DEF DeliveryInv, OneRunEach
    <3>2. ASSUME NEW k \in Messages, msg'[k] = "new"
          PROVE  Fresh(k)' /\ \A r \in RunIds : k \notin run'[r].items
      <4>1. k # m /\ msg[k] = "new"
        BY <1>0, <1>1, <3>2, Zenon
      <4>2. Fresh(k) /\ \A r \in RunIds : k \notin run[r].items
        BY <4>1, Zenon DEF DeliveryInv, OneRunEach
      <4> QED
        BY <1>3, <2>0, <4>1, <4>2, FreshStays, Zenon
    <3> QED
      BY <3>1, <3>2, Zenon DEF OneRunEach
  <2>3. BridgeFits'
    BY <1>1, <1>5, <2>1 DEF DeliveryInv, BridgeFits
  <2>4. CarriedIsItems'
    BY <1>1, <1>5, <2>1, Zenon DEF DeliveryInv, CarriedIsItems
  <2>5. FreshAhead'
    <3>1. ASSUME NEW b \in Bridges, phase'[b] \in {"claimed", "started"}, NEW k \in run'[held'[b]].items
          PROVE  Fresh(k)'
      <4>1. held[b] \in RunIds \ {x} /\ k \in run[held[b]].items /\ phase[b] \in {"claimed", "started"}
        BY <1>1, <1>5, <2>1, <3>1, Zenon DEF DeliveryInv, BridgeFits
      <4>2. Fresh(k) /\ k \in Messages
        BY <4>1, ItemsTyped, Zenon DEF DeliveryInv, FreshAhead
      <4> QED
        BY <1>3, <4>2, FreshStays, Zenon
    <3>2. ASSUME NEW b \in Bridges, patch'[b].want = "queued", NEW k \in run'[patch'[b].run].items
          PROVE  Fresh(k)'
      <4>1. patch[b] # NoPatch /\ patch'[b] = patch[b]
        BY <1>1, <3>2, NoPatchFields, Zenon
      <4>2. patch[b].run \in RunIds \ {x} /\ k \in run[patch[b].run].items
        BY <1>5, <2>1, <3>2, <4>1, Zenon
      <4>3. Fresh(k) /\ k \in Messages
        BY <3>2, <4>1, <4>2, ItemsTyped, Zenon DEF DeliveryInv, FreshAhead
      <4> QED
        BY <1>3, <4>3, FreshStays, Zenon
    <3>3. ASSUME NEW r \in RunIds, run'[r].status = "queued", NEW k \in run'[r].items
          PROVE  Fresh(k)'
      <4>1. Fresh(k) /\ k \in Messages
        BY <1>5, <2>0, <3>3, ItemsTyped DEF DeliveryInv, FreshAhead
      <4> QED
        BY <1>3, <4>1, FreshStays, Zenon
    <3>4. ASSUME NEW r \in RunIds, run'[r].status = "claimed",
                 ~\E b \in Bridges : held'[b] = r /\ phase'[b] = "handed",
                 NEW k \in run'[r].items
          PROVE  Fresh(k)'
      <4>1. r # x /\ run'[r] = run[r]
        BY <1>5, <3>4, Zenon
      <4>2. Fresh(k) /\ k \in Messages
        BY <1>1, <3>4, <4>1, ItemsTyped, Zenon DEF DeliveryInv, FreshAhead
      <4> QED
        BY <1>3, <4>2, FreshStays, Zenon
    <3> QED
      BY <3>1, <3>2, <3>3, <3>4, Zenon DEF FreshAhead
  <2> QED
    BY <1>3, <2>2, <2>3, <2>4, <2>5, OnceStays, Zenon DEF DeliveryInv
<1>6. CASE same = {}
  <2> DEFINE x == Oldest(free)
  <2>1. /\ free # {}
        /\ run' = [run EXCEPT ![x] =
             [NoRow EXCEPT !.status = "queued", !.items = {m}, !.message = m,
                           !.require = IF m \in NeedReply THEN TRUE ELSE FALSE]]
    BY <1>6, Zenon DEF Send, Enqueued
  <2>2. x \in RunIds /\ run[x].status = "none"
    BY <2>1, OldestIn, Zenon
  <2>3. run'[x].status = "queued" /\ run'[x].items = {m}
    BY <1>0, <2>1, <2>2, Zenon DEF NoRow
  <2>4. \A q \in RunIds \ {x} : run'[q] = run[q]
    BY <1>0, <2>1, Zenon
  <2> HIDE DEF x
  <2> QED
    BY <1>5, <2>2, <2>3, <2>4, Zenon
<1>7. CASE same # {} /\ run' # run
  <2> DEFINE x == Oldest(same)
  <2>1. run' = [run EXCEPT ![x] = [run[x] EXCEPT !.items = run[x].items \cup {m},
                              !.require = IF m \in NeedReply THEN TRUE ELSE run[x].require]]
    BY <1>7, Zenon DEF Send, Enqueued
  <2>2. x \in RunIds /\ run[x].status = "queued"
    BY <1>7, OldestIn, Zenon DEF Mergeable
  <2> HIDE DEF x
  <2>3. run'[x].status = "queued" /\ run'[x].items = run[x].items \cup {m}
    BY <1>0, <2>1, <2>2, Zenon DEF Runs
  <2>4. \A q \in RunIds \ {x} : run'[q] = run[q]
    BY <1>0, <2>1, Zenon
  <2> QED
    BY <1>5, <2>2, <2>3, <2>4, Zenon
<1> QED
  BY <1>4, <1>6, <1>7, Zenon

(* A claim: a queued run's messages are fresh.                             *)
LEMMA ClaimDelivers ==
  ASSUME TypeOK, HolderInv, DeliveryInv, NEW b \in Bridges, NEW a, NEW fate \in Fates
  PROVE  /\ \A r \in RunIds, d \in Elapse : Claim(b, r, a, fate, d) => DeliveryInv'
         /\ ClaimNothing(b, a, fate) => DeliveryInv'
<1>0. /\ run \in [RunIds -> Runs] /\ held \in [Bridges -> RunIds \cup {NoRun}]
      /\ carried \in [Bridges -> SUBSET Messages] /\ phase \in [Bridges -> {"idle", "claimed", "started", "handed"}]
      /\ faults \in Nat
  BY Zenon DEF TypeOK
<1>1. ASSUME ClaimNothing(b, a, fate) PROVE DeliveryInv'
  <2>1. \A r \in RunIds : Steady(r)
    BY <1>1, ClearedRows, KeptSteady, Zenon DEF ClaimNothing, RowKept
  <2>2. NothingHanded /\ UNCHANGED <<held, carried, phase, patch, msg>>
    BY <1>0, <1>1 DEF ClaimNothing, NothingHanded
  <2> QED
    BY <2>1, <2>2, Calm, Zenon
<1>2. ASSUME NEW r \in RunIds, NEW d \in Elapse, Claim(b, r, a, fate, d) PROVE DeliveryInv'
  <2>1. /\ run[r].status = "queued" /\ held[b] = NoRun /\ patch[b] = NoPatch
        /\ run' = [Cleared(a, fate) EXCEPT
             ![r] = [run[r] EXCEPT !.status = "claimed", !.bridge = b, !.claimedAt = clock + d]]
        /\ held' = [held EXCEPT ![b] = r] /\ carried' = [carried EXCEPT ![b] = run[r].items]
        /\ phase' = [phase EXCEPT ![b] = "claimed"]
        /\ UNCHANGED <<msg, patch, handed, faults>>
    BY <1>2, Zenon DEF Claim, Claimable, Polling
  <2>2. run'[r].status = "claimed" /\ run'[r].items = run[r].items
    <3> DEFINE x == [run[r] EXCEPT !.status = "claimed", !.bridge = b, !.claimedAt = clock + d]
    <3>1. x.status = "claimed" /\ x.items = run[r].items
      BY <1>0 DEF Runs
    <3>2. run'[r] = x
      BY <2>1, Zenon DEF Cleared
    <3> HIDE DEF x
    <3> QED
      BY <3>1, <3>2, Zenon
  <2>3. ASSUME NEW q \in RunIds, q # r PROVE Steady(q)
    <3>1. run'[q] = Cleared(a, fate)[q]
      BY <2>1, <2>3, Zenon DEF Cleared
    <3> QED
      BY <3>1, ClearedRows, KeptSteady, Zenon DEF RowKept
  <2>4. NothingHanded /\ \A q \in RunIds : run'[q].items = run[q].items
    BY <1>0, <2>1, <2>2, <2>3 DEF NothingHanded, Steady
  <2>5. ASSUME NEW c \in Bridges
        PROVE  /\ c # b => held'[c] = held[c] /\ phase'[c] = phase[c] /\ carried'[c] = carried[c]
               /\ c # b /\ held[c] # NoRun => held[c] \in RunIds /\ held[c] # r
               /\ patch[c] # NoPatch => patch[c].run \in RunIds /\ patch[c].run # r
               /\ c = b => held'[c] = r /\ phase'[c] = "claimed" /\ carried'[c] = run[r].items
    BY <1>0, <2>1, ReportsRun DEF HolderInv, HolderOwns
  <2>6. \A k \in run[r].items : k \in Messages /\ Fresh(k)
    BY <2>1, ItemsTyped, Zenon DEF DeliveryInv, FreshAhead
  <2>7. OneRunEach'
    <3>1. ASSUME NEW k \in Messages, msg'[k] = "new"
          PROVE  Fresh(k)' /\ \A q \in RunIds : k \notin run'[q].items
      BY <2>1, <2>4, <3>1, FreshStays, Zenon DEF DeliveryInv, OneRunEach
    <3>2. \A q, s \in RunIds : \A k \in run'[q].items : k \in run'[s].items => q = s
      BY <2>4, Zenon DEF DeliveryInv, OneRunEach
    <3> QED
      BY <3>1, <3>2, Zenon DEF OneRunEach
  <2>8. BridgeFits'
    <3> SUFFICES ASSUME NEW c \in Bridges
               PROVE  /\ phase'[c] # "idle" <=> held'[c] # NoRun
                      /\ patch'[c] # NoPatch /\ patch'[c].seen \in Terminal => run'[patch'[c].run].status # "claimed"
                      /\ patch'[c].want # "claimed"
                      /\ patch'[c].want = "running" => phase'[c] \in {"idle", "claimed"}
                      /\ ~Channel /\ phase'[c] \in {"started", "handed"} => run'[held'[c]].status # "claimed"
      BY Zenon DEF BridgeFits
    <3>1. /\ phase[c] # "idle" <=> held[c] # NoRun
          /\ patch[c] # NoPatch /\ patch[c].seen \in Terminal => run[patch[c].run].status # "claimed"
          /\ patch[c].want # "claimed"
          /\ patch[c].want = "running" => phase[c] \in {"idle", "claimed"}
          /\ ~Channel /\ phase[c] \in {"started", "handed"} => run[held[c]].status # "claimed"
      BY Zenon DEF DeliveryInv, BridgeFits
    <3>2. patch[c] # NoPatch => Steady(patch[c].run)
      BY <2>3, <2>5, Zenon
    <3>3. c # b /\ held[c] # NoRun => Steady(held[c])
      BY <2>3, <2>5, Zenon
    <3>4. r # NoRun
      BY ItemsTyped, Zenon
    <3> QED
      BY <2>1, <2>5, <3>1, <3>2, <3>3, <3>4, Zenon DEF Steady
  <2>9. CarriedIsItems'
    BY <2>2, <2>4, <2>5 DEF DeliveryInv, CarriedIsItems
  <2>10. FreshAhead'
    <3>1. ASSUME NEW c \in Bridges, phase'[c] \in {"claimed", "started"}, NEW k \in run'[held'[c]].items
          PROVE  Fresh(k)'
      <4>1. CASE c = b
        BY <2>2, <2>4, <2>5, <2>6, <3>1, <4>1, FreshStays, Zenon
      <4>2. CASE c # b
        <5>1. held[c] \in RunIds /\ k \in run[held[c]].items /\ phase[c] \in {"claimed", "started"}
          BY <2>4, <2>5, <3>1, <4>2 DEF DeliveryInv, BridgeFits
        <5>2. Fresh(k) /\ k \in Messages
          BY <5>1, ItemsTyped, Zenon DEF DeliveryInv, FreshAhead
        <5> QED
          BY <2>4, <5>2, FreshStays, Zenon
      <4> QED
        BY <4>1, <4>2, Zenon
    <3>2. ASSUME NEW c \in Bridges, patch'[c].want = "queued", NEW k \in run'[patch'[c].run].items
          PROVE  Fresh(k)'
      <4>1. patch[c] # NoPatch /\ patch'[c] = patch[c]
        BY <2>1, <3>2, NoPatchFields, Zenon
      <4>2. patch[c].run \in RunIds /\ k \in run[patch[c].run].items
        BY <2>4, <2>5, <3>2, <4>1
      <4>3. Fresh(k) /\ k \in Messages
        BY <3>2, <4>1, <4>2, ItemsTyped, Zenon DEF DeliveryInv, FreshAhead
      <4> QED
        BY <2>4, <4>3, FreshStays, Zenon
    <3>3. ASSUME NEW q \in RunIds, run'[q].status = "queued", NEW k \in run'[q].items
          PROVE  Fresh(k)'
      <4>1. Fresh(k) /\ k \in Messages
        BY <2>2, <2>3, <3>3, ItemsTyped, Zenon DEF Steady, DeliveryInv, FreshAhead
      <4> QED
        BY <2>4, <4>1, FreshStays, Zenon
    <3>4. ASSUME NEW q \in RunIds, run'[q].status = "claimed",
                 ~\E c \in Bridges : held'[c] = q /\ phase'[c] = "handed",
                 NEW k \in run'[q].items
          PROVE  Fresh(k)'
      <4>1. CASE q = r
        BY <2>2, <2>4, <2>6, <3>4, <4>1, FreshStays
      <4>2. CASE q # r
        <5>1. run[q].status = "claimed" /\ k \in run[q].items
          BY <2>3, <3>4, <4>2, Zenon DEF Steady
        <5>2. ~\E c \in Bridges : held[c] = q /\ phase[c] = "handed"
          <6>1. \A c \in Bridges : c # b => ~(held[c] = q /\ phase[c] = "handed")
            BY <2>5, <3>4, Zenon
          <6>2. held[b] # q
            BY <2>1, ItemsTyped, Zenon
          <6> QED
            BY <6>1, <6>2, Zenon
        <5>3. Fresh(k) /\ k \in Messages
          BY <5>1, <5>2, ItemsTyped, Zenon DEF DeliveryInv, FreshAhead
        <5> QED
          BY <2>4, <5>3, FreshStays, Zenon
      <4> QED
        BY <4>1, <4>2, Zenon
    <3> QED
      BY <3>1, <3>2, <3>3, <3>4, Zenon DEF FreshAhead
  <2> QED
    BY <2>4, <2>7, <2>8, <2>9, <2>10, OnceStays DEF DeliveryInv
<1> QED
  BY <1>1, <1>2, Zenon

(* The payload goes in front of the agent: its messages are fresh, and no  *)
(* run that can still be handed over shares one of them.                   *)
LEMMA HandDelivers ==
  ASSUME TypeOK, HolderInv, DeliveryInv, NEW b \in Bridges, Hand(b)
  PROVE  DeliveryInv'
<1> DEFINE r == held[b]
<1>0. /\ faults \in Nat /\ handed \in [Messages -> Nat]
      /\ phase \in [Bridges -> {"idle", "claimed", "started", "handed"}]
  BY Zenon DEF TypeOK
<1>1. /\ patch[b] = NoPatch /\ phase[b] \in {"claimed", "started"}
      /\ ~Channel => phase[b] = "started"
      /\ phase' = [phase EXCEPT ![b] = "handed"]
      /\ handed' = [m \in Messages |-> IF m \in carried[b] THEN handed[m] + 1 ELSE handed[m]]
      /\ UNCHANGED <<run, msg, held, carried, patch, faults>>
  BY Zenon DEF Hand, rows
<1>2. /\ r \in RunIds /\ carried[b] = run[r].items
      /\ \A m \in run[r].items : m \in Messages /\ Fresh(m)
      /\ run[r].bridge = b /\ run[r].status \notin {"none", "queued"}
      /\ ~Channel => run[r].status # "claimed"
  BY <1>1, ItemsTyped, Zenon DEF DeliveryInv, BridgeFits, CarriedIsItems, FreshAhead, HolderInv, HolderOwns
<1>3. phase'[b] = "handed" /\ \A c \in Bridges \ {b} : phase'[c] = phase[c]
  BY <1>0, <1>1, Zenon
<1>4. ASSUME NEW m \in Messages, m \notin run[r].items, Fresh(m) PROVE Fresh(m)'
  BY <1>1, <1>2, <1>4, Zenon DEF Fresh
<1>5. ASSUME NEW q \in RunIds, q # r, NEW m \in run[q].items, Fresh(m) PROVE Fresh(m)'
  <2>1. m \in Messages /\ m \notin run[r].items
    BY <1>2, <1>5, ItemsTyped, Zenon DEF DeliveryInv, OneRunEach
  <2> QED
    BY <1>4, <1>5, <2>1, Zenon
<1>6. HandedOnce'
  <2> SUFFICES ASSUME NEW m \in Messages
               PROVE  handed'[m] <= IF Channel THEN 1 + faults' ELSE 1
    BY Zenon DEF HandedOnce
  <2>1. handed[m] <= IF Channel THEN 1 + faults ELSE 1
    BY Zenon DEF DeliveryInv, HandedOnce
  <2> QED
    BY <1>0, <1>1, <1>2, <2>1 DEF Fresh
<1>7. OneRunEach'
  BY <1>1, <1>2, <1>4, Zenon DEF DeliveryInv, OneRunEach
<1>8. CarriedIsItems'
  BY <1>1, Zenon DEF DeliveryInv, CarriedIsItems
<1>9. BridgeFits'
  BY <1>1, <1>2, <1>3, NoPatchFields, ItemsTyped DEF DeliveryInv, BridgeFits
<1>10. FreshAhead'
  <2>1. ASSUME NEW c \in Bridges, phase'[c] \in {"claimed", "started"}, NEW m \in run'[held'[c]].items
        PROVE  Fresh(m)'
    <3>1. c # b /\ phase[c] \in {"claimed", "started"} /\ m \in run[held[c]].items
      BY <1>1, <1>3, <2>1, Zenon
    <3>2. held[c] \in RunIds /\ held[c] # r /\ Fresh(m)
      BY <1>2, <3>1, Apart, ItemsTyped, Zenon DEF DeliveryInv, BridgeFits, FreshAhead
    <3> QED
      BY <1>5, <3>1, <3>2, Zenon
  <2>2. ASSUME NEW c \in Bridges, patch'[c].want = "queued", NEW m \in run'[patch'[c].run].items
        PROVE  Fresh(m)'
    <3>1. c # b /\ patch[c] # NoPatch /\ patch[c].want = "queued" /\ m \in run[patch[c].run].items
      BY <1>1, <2>2, NoPatchFields, Zenon
    <3>2. patch[c].run \in RunIds /\ patch[c].run # r /\ Fresh(m)
      BY <1>2, <3>1, ReportsRun, Zenon DEF DeliveryInv, FreshAhead
    <3> QED
      BY <1>5, <3>1, <3>2, Zenon
  <2>3. ASSUME NEW q \in RunIds, run'[q].status = "queued", NEW m \in run'[q].items
        PROVE  Fresh(m)'
    <3>1. q # r /\ m \in run[q].items /\ Fresh(m)
      BY <1>1, <1>2, <2>3, Zenon DEF DeliveryInv, FreshAhead
    <3> QED
      BY <1>5, <3>1, Zenon
  <2>4. ASSUME NEW q \in RunIds, run'[q].status = "claimed",
               ~\E c \in Bridges : held'[c] = q /\ phase'[c] = "handed",
               NEW m \in run'[q].items
        PROVE  Fresh(m)'
    <3>1. q # r
      BY <1>1, <1>3, <2>4, Zenon
    <3>2. ~\E c \in Bridges : held[c] = q /\ phase[c] = "handed"
      BY <1>1, <1>3, <2>4, <3>1, Zenon
    <3>3. m \in run[q].items /\ Fresh(m)
      BY <1>1, <2>4, <3>2, Zenon DEF DeliveryInv, FreshAhead
    <3> QED
      BY <1>5, <3>1, <3>3, Zenon
  <2> QED
    BY <2>1, <2>2, <2>3, <2>4, Zenon DEF FreshAhead
<1> QED
  BY <1>6, <1>7, <1>8, <1>9, <1>10, Zenon DEF DeliveryInv

(* A report is read: what it says fits what the bridge has done.           *)
LEMMA PatchReadDelivers ==
  ASSUME TypeOK, HolderInv, DeliveryInv, NEW b \in Bridges, NEW want \in Statuses, PatchRead(b, want)
  PROVE  DeliveryInv'
<1> DEFINE p == [run |-> held[b], want |-> want, seen |-> run[held[b]].status]
<1>0. faults \in Nat /\ handed \in [Messages -> Nat] /\ patch \in [Bridges -> Patches]
  BY Zenon DEF TypeOK
<1>1. /\ held[b] # NoRun /\ patch[b] = NoPatch /\ want \in Reports(b)
      /\ patch' = [patch EXCEPT ![b] = p]
      /\ faults' = IF want = "queued" THEN faults + 1 ELSE faults
      /\ UNCHANGED <<run, msg, held, carried, phase, handed>>
  BY Zenon DEF PatchRead, rows
<1>2. /\ p.run = held[b] /\ p.want = want /\ p.seen = run[held[b]].status
      /\ patch'[b] = p /\ \A c \in Bridges \ {b} : patch'[c] = patch[c]
  BY <1>0, <1>1, Zenon
<1> HIDE DEF p
<1>3. /\ want # "claimed"
      /\ want = "running" => phase[b] = "claimed"
      /\ want = "queued" => phase[b] = "claimed"
  BY <1>1, Constants, Zenon DEF Reports
<1>4. NothingHanded
  BY <1>0, <1>1 DEF NothingHanded
<1>5. ASSUME NEW r \in RunIds, NEW m \in run[r].items, Fresh(m) PROVE Fresh(m)'
  BY <1>4, <1>5, FreshStays, ItemsTyped, Zenon
<1>6. OneRunEach'
  BY <1>1, <1>4, FreshStays, Zenon DEF DeliveryInv, OneRunEach
<1>7. CarriedIsItems'
  BY <1>1, Zenon DEF DeliveryInv, CarriedIsItems
<1>8. BridgeFits'
  BY <1>1, <1>2, <1>3 DEF DeliveryInv, BridgeFits
<1>9. FreshAhead'
  <2>1. ASSUME NEW c \in Bridges, phase'[c] \in {"claimed", "started"}, NEW m \in run'[held'[c]].items
        PROVE  Fresh(m)'
    <3>1. held[c] \in RunIds /\ m \in run[held[c]].items /\ Fresh(m)
      BY <1>1, <2>1, ItemsTyped, Zenon DEF DeliveryInv, BridgeFits, FreshAhead
    <3> QED
      BY <1>5, <3>1, Zenon
  <2>2. ASSUME NEW c \in Bridges, patch'[c].want = "queued", NEW m \in run'[patch'[c].run].items
        PROVE  Fresh(m)'
    <3>1. CASE c = b
      <4>1. held[b] \in RunIds
        BY <1>1, ItemsTyped, Zenon
      <4>2. phase[b] = "claimed" /\ m \in run[held[b]].items
        BY <1>1, <1>2, <1>3, <2>2, <3>1
      <4>3. Fresh(m)
        BY <4>2, Zenon DEF DeliveryInv, FreshAhead
      <4> QED
        BY <1>5, <4>1, <4>2, <4>3, Zenon
    <3>2. CASE c # b
      <4>1. patch[c] # NoPatch /\ patch[c].want = "queued" /\ m \in run[patch[c].run].items
        BY <1>1, <1>2, <2>2, <3>2, NoPatchFields, Zenon
      <4>2. patch[c].run \in RunIds /\ Fresh(m)
        BY <4>1, ReportsRun, Zenon DEF DeliveryInv, FreshAhead
      <4> QED
        BY <1>5, <4>1, <4>2, Zenon
    <3> QED
      BY <3>1, <3>2, Zenon
  <2>3. ASSUME NEW q \in RunIds, run'[q].status = "queued", NEW m \in run'[q].items
        PROVE  Fresh(m)'
    BY <1>1, <1>5, <2>3, Zenon DEF DeliveryInv, FreshAhead
  <2>4. ASSUME NEW q \in RunIds, run'[q].status = "claimed",
               ~\E c \in Bridges : held'[c] = q /\ phase'[c] = "handed",
               NEW m \in run'[q].items
        PROVE  Fresh(m)'
    <3>1. m \in run[q].items /\ Fresh(m)
      BY <1>1, <2>4, Zenon DEF DeliveryInv, FreshAhead
    <3> QED
      BY <1>5, <3>1, Zenon
  <2> QED
    BY <2>1, <2>2, <2>3, <2>4, Zenon DEF FreshAhead
<1> QED
  BY <1>4, <1>6, <1>7, <1>8, <1>9, OnceStays, Zenon DEF DeliveryInv

(* A report is written: it claims nothing, and queues only what was never  *)
(* handed over.                                                            *)
LEMMA PatchWriteDelivers ==
  ASSUME TypeOK, HolderInv, DeliveryInv, NEW b \in Bridges, PatchWrite(b)
  PROVE  DeliveryInv'
<1> DEFINE p == patch[b]
<1>0. /\ faults \in Nat /\ handed \in [Messages -> Nat] /\ patch \in [Bridges -> Patches]
      /\ held \in [Bridges -> RunIds \cup {NoRun}] /\ carried \in [Bridges -> SUBSET Messages]
      /\ phase \in [Bridges -> {"idle", "claimed", "started", "handed"}]
  BY Zenon DEF TypeOK
<1>1. p # NoPatch /\ UNCHANGED <<msg, handed, faults>> /\ Answered(b)
  BY Zenon DEF PatchWrite
<1>2. /\ p.run \in RunIds /\ run[p.run].bridge = b /\ run[p.run].status \notin {"none", "queued"}
      /\ held[b] # NoRun => held[b] = p.run
  BY <1>1, ReportsRun, Zenon
<1>3. /\ Effective(p) # "claimed"
      /\ Effective(p) = "queued" => \A m \in run[p.run].items : Fresh(m)
  BY <1>1, <1>2, Zenon DEF Effective, DeliveryInv, BridgeFits, FreshAhead
<1>4. /\ \A q \in RunIds \ {p.run} : run'[q] = run[q]
      /\ run'[p.run].items = run[p.run].items /\ run'[p.run].status = Effective(p)
  BY <1>2, ReportedRows, Zenon
<1>5. ASSUME NEW q \in RunIds PROVE Steady(q)
  <2>1. CASE q = p.run
    BY <1>3, <1>4, <2>1, Zenon DEF Steady
  <2>2. CASE q # p.run
    BY <1>4, <1>5, <2>2, Zenon DEF Steady
  <2> QED
    BY <2>1, <2>2, Zenon
<1>6. /\ patch'[b] = NoPatch
      /\ \/ /\ p.want = "running" /\ held'[b] = held[b] /\ carried'[b] = carried[b]
            /\ phase'[b] = IF held[b] = NoRun THEN "idle" ELSE "started"
         \/ held'[b] = NoRun /\ phase'[b] = "idle"
      /\ \A c \in Bridges \ {b} : /\ patch'[c] = patch[c] /\ held'[c] = held[c]
                                  /\ carried'[c] = carried[c] /\ phase'[c] = phase[c]
  BY <1>0, <1>1 DEF Answered
<1>7. ASSUME NEW c \in Bridges, c # b
      PROVE  /\ held[c] # NoRun => held[c] \in RunIds \ {p.run}
             /\ patch[c] # NoPatch => patch[c].run \in RunIds \ {p.run}
  BY <1>2, <1>7, ItemsTyped, ReportsRun DEF HolderInv, HolderOwns
<1> HIDE DEF p
<1>8. NothingHanded
  BY <1>0, <1>1 DEF NothingHanded
<1>9. ASSUME NEW r \in RunIds, NEW m \in run[r].items, Fresh(m) PROVE Fresh(m)'
  BY <1>8, <1>9, FreshStays, ItemsTyped, Zenon
<1>10. OneRunEach'
  <2>1. \A r, q \in RunIds : \A m \in run'[r].items : m \in run'[q].items => r = q
    BY <1>5, Zenon DEF Steady, DeliveryInv, OneRunEach
  <2>2. ASSUME NEW m \in Messages, msg'[m] = "new"
        PROVE  Fresh(m)' /\ \A r \in RunIds : m \notin run'[r].items
    BY <1>1, <1>5, <1>8, <2>2, FreshStays DEF Steady, DeliveryInv, OneRunEach
  <2> QED
    BY <2>1, <2>2, Zenon DEF OneRunEach
<1>11. CarriedIsItems'
  <2> SUFFICES ASSUME NEW c \in Bridges, held'[c] # NoRun
               PROVE  carried'[c] = run'[held'[c]].items
    BY Zenon DEF CarriedIsItems
  <2>1. held'[c] = held[c] /\ carried'[c] = carried[c] /\ held[c] \in RunIds
    BY <1>6, ItemsTyped, Zenon
  <2>2. carried[c] = run[held[c]].items /\ Steady(held[c])
    BY <1>5, <2>1, Zenon DEF DeliveryInv, CarriedIsItems
  <2> QED
    BY <2>1, <2>2, Zenon DEF Steady
<1>12. BridgeFits'
  <2> SUFFICES ASSUME NEW c \in Bridges
               PROVE  /\ phase'[c] # "idle" <=> held'[c] # NoRun
                      /\ patch'[c] # NoPatch /\ patch'[c].seen \in Terminal => run'[patch'[c].run].status # "claimed"
                      /\ patch'[c].want # "claimed"
                      /\ patch'[c].want = "running" => phase'[c] \in {"idle", "claimed"}
                      /\ ~Channel /\ phase'[c] \in {"started", "handed"} => run'[held'[c]].status # "claimed"
    BY Zenon DEF BridgeFits
  <2>1. CASE c = b
    <3>1. phase'[c] = "started" => run'[held'[c]].status # "claimed" /\ held'[c] # NoRun
      BY <1>2, <1>3, <1>4, <1>6, <2>1
    <3> QED
      BY <1>6, <2>1, <3>1, NoPatchFields, Zenon
  <2>2. CASE c # b
    <3>1. /\ phase[c] # "idle" <=> held[c] # NoRun
          /\ patch[c] # NoPatch /\ patch[c].seen \in Terminal => run[patch[c].run].status # "claimed"
          /\ patch[c].want # "claimed"
          /\ patch[c].want = "running" => phase[c] \in {"idle", "claimed"}
          /\ ~Channel /\ phase[c] \in {"started", "handed"} => run[held[c]].status # "claimed"
      BY Zenon DEF DeliveryInv, BridgeFits
    <3>2. patch[c] # NoPatch => run'[patch[c].run] = run[patch[c].run]
      BY <1>4, <1>7, <2>2, Zenon
    <3>3. held[c] # NoRun => run'[held[c]] = run[held[c]]
      BY <1>4, <1>7, <2>2, Zenon
    <3>4. patch'[c] = patch[c] /\ held'[c] = held[c] /\ phase'[c] = phase[c]
      BY <1>6, <2>2
    <3> QED
      BY <3>1, <3>2, <3>3, <3>4, Zenon
  <2> QED
    BY <2>1, <2>2, Zenon
<1>13. FreshAhead'
  <2>1. ASSUME NEW c \in Bridges, phase'[c] \in {"claimed", "started"}, NEW m \in run'[held'[c]].items
        PROVE  Fresh(m)'
    <3>1. held'[c] = held[c] /\ held[c] \in RunIds
      BY <1>6, <1>12, <2>1, ItemsTyped, Zenon DEF BridgeFits
    <3>2. phase[c] \in {"claimed", "started"}
      <4>1. CASE c # b
        BY <1>6, <2>1, <4>1, Zenon
      <4>2. CASE c = b
        <5>1. p.want = "running" /\ held[b] # NoRun
          BY <1>6, <2>1, <4>2, Zenon
        <5>2. phase[b] \in {"idle", "claimed"} /\ phase[b] # "idle"
          BY <5>1, Zenon DEF DeliveryInv, BridgeFits, p
        <5> QED
          BY <4>2, <5>2, Zenon
      <4> QED
        BY <4>1, <4>2, Zenon
    <3>3. m \in run[held[c]].items
      BY <1>5, <2>1, <3>1, Zenon DEF Steady
    <3>4. Fresh(m)
      BY <3>2, <3>3, Zenon DEF DeliveryInv, FreshAhead
    <3> QED
      BY <1>9, <3>1, <3>3, <3>4, Zenon
  <2>2. ASSUME NEW c \in Bridges, patch'[c].want = "queued", NEW m \in run'[patch'[c].run].items
        PROVE  Fresh(m)'
    <3>1. c # b /\ patch'[c] = patch[c] /\ patch[c] # NoPatch
      BY <1>6, <2>2, NoPatchFields, Zenon
    <3>2. patch[c].run \in RunIds /\ m \in run[patch[c].run].items
      BY <1>4, <1>7, <2>2, <3>1, Zenon
    <3>3. Fresh(m)
      BY <2>2, <3>1, <3>2, Zenon DEF DeliveryInv, FreshAhead
    <3> QED
      BY <1>9, <3>2, <3>3, Zenon
  <2>3. ASSUME NEW q \in RunIds, run'[q].status = "queued", NEW m \in run'[q].items
        PROVE  Fresh(m)'
    <3>1. m \in run[q].items /\ Fresh(m)
      BY <1>5, <2>3, Zenon DEF Steady, DeliveryInv, FreshAhead
    <3> QED
      BY <1>9, <3>1, Zenon
  <2>4. ASSUME NEW q \in RunIds, run'[q].status = "claimed",
               ~\E c \in Bridges : held'[c] = q /\ phase'[c] = "handed",
               NEW m \in run'[q].items
        PROVE  Fresh(m)'
    <3>1. q # p.run /\ run[q].status = "claimed" /\ m \in run[q].items
      BY <1>3, <1>4, <2>4, Zenon
    <3>2. ~\E c \in Bridges : held[c] = q /\ phase[c] = "handed"
      <4>1. held[b] # q
        BY <1>2, <3>1, ItemsTyped, Zenon
      <4>2. \A c \in Bridges \ {b} : ~(held[c] = q /\ phase[c] = "handed")
        BY <1>6, <2>4, Zenon
      <4> QED
        BY <4>1, <4>2, Zenon
    <3>3. Fresh(m)
      BY <3>1, <3>2, Zenon DEF DeliveryInv, FreshAhead
    <3> QED
      BY <1>9, <3>1, <3>3, Zenon
  <2> QED
    BY <2>1, <2>2, <2>3, <2>4, Zenon DEF FreshAhead
<1> QED
  BY <1>8, <1>10, <1>11, <1>12, <1>13, OnceStays DEF DeliveryInv

(* A bridge loses what it holds, at the price of a fault: a push it had    *)
(* made may then be made once more, and a managed turn is not started      *)
(* again, because its run is no longer just claimed.                       *)
LEMMA DropDelivers ==
  ASSUME TypeOK, HolderInv, DeliveryInv, NEW b \in Bridges, PatchLost(b) \/ Crash(b)
  PROVE  DeliveryInv'
<1>0. /\ faults \in Nat /\ handed \in [Messages -> Nat]
      /\ held \in [Bridges -> RunIds \cup {NoRun}] /\ carried \in [Bridges -> SUBSET Messages]
      /\ phase \in [Bridges -> {"idle", "claimed", "started", "handed"}]
  BY Zenon DEF TypeOK
<1>1. /\ faults' = faults + 1 /\ held' = [held EXCEPT ![b] = NoRun]
      /\ carried' = [carried EXCEPT ![b] = {}] /\ phase' = [phase EXCEPT ![b] = "idle"]
      /\ UNCHANGED <<run, msg, patch, handed>>
  BY Zenon DEF PatchLost, Crash, Dropped, rows
<1>2. /\ held'[b] = NoRun /\ phase'[b] = "idle"
      /\ \A c \in Bridges \ {b} : held'[c] = held[c] /\ carried'[c] = carried[c] /\ phase'[c] = phase[c]
  BY <1>0, <1>1, Zenon
<1>3. NothingHanded
  BY <1>0, <1>1 DEF NothingHanded
<1>4. ASSUME NEW r \in RunIds, NEW m \in run[r].items, Fresh(m) PROVE Fresh(m)'
  BY <1>3, <1>4, FreshStays, ItemsTyped, Zenon
<1>5. OneRunEach'
  BY <1>1, <1>3, FreshStays, Zenon DEF DeliveryInv, OneRunEach
<1>6. CarriedIsItems'
  BY <1>1, <1>2, Zenon DEF DeliveryInv, CarriedIsItems
<1>7. BridgeFits'
  BY <1>1, <1>2 DEF DeliveryInv, BridgeFits
<1>8. FreshAhead'
  <2>1. ASSUME NEW c \in Bridges, phase'[c] \in {"claimed", "started"}, NEW m \in run'[held'[c]].items
        PROVE  Fresh(m)'
    <3>1. c # b /\ phase[c] \in {"claimed", "started"} /\ m \in run[held[c]].items
      BY <1>1, <1>2, <2>1, Zenon
    <3>2. held[c] \in RunIds /\ Fresh(m)
      BY <3>1, ItemsTyped, Zenon DEF DeliveryInv, BridgeFits, FreshAhead
    <3> QED
      BY <1>4, <3>1, <3>2, Zenon
  <2>2. ASSUME NEW c \in Bridges, patch'[c].want = "queued", NEW m \in run'[patch'[c].run].items
        PROVE  Fresh(m)'
    <3>1. patch[c] # NoPatch /\ patch[c].want = "queued" /\ m \in run[patch[c].run].items
      BY <1>1, <2>2, NoPatchFields, Zenon
    <3>2. patch[c].run \in RunIds /\ Fresh(m)
      BY <3>1, ReportsRun, Zenon DEF DeliveryInv, FreshAhead
    <3> QED
      BY <1>4, <3>1, <3>2, Zenon
  <2>3. ASSUME NEW q \in RunIds, run'[q].status = "queued", NEW m \in run'[q].items
        PROVE  Fresh(m)'
    BY <1>1, <1>4, <2>3, Zenon DEF DeliveryInv, FreshAhead
  <2>4. ASSUME NEW q \in RunIds, run'[q].status = "claimed",
               ~\E c \in Bridges : held'[c] = q /\ phase'[c] = "handed",
               NEW m \in run'[q].items
        PROVE  Fresh(m)'
    <3>1. run[q].status = "claimed" /\ m \in run[q].items /\ m \in Messages
      BY <1>1, <2>4, ItemsTyped, Zenon
    <3>2. CASE held[b] = q /\ phase[b] = "handed"
      <4>1. Channel
        BY <3>1, <3>2, Zenon DEF DeliveryInv, BridgeFits
      <4>2. handed[m] <= 1 + faults
        BY <3>1, <4>1, Zenon DEF DeliveryInv, HandedOnce
      <4> QED
        BY <1>0, <1>1, <3>1, <4>1, <4>2 DEF Fresh
    <3>3. CASE ~(held[b] = q /\ phase[b] = "handed")
      <4>1. ~\E c \in Bridges : held[c] = q /\ phase[c] = "handed"
        BY <1>2, <2>4, <3>3, Zenon
      <4>2. Fresh(m)
        BY <3>1, <4>1, Zenon DEF DeliveryInv, FreshAhead
      <4> QED
        BY <1>4, <3>1, <4>2, Zenon
    <3> QED
      BY <3>2, <3>3, Zenon
  <2> QED
    BY <2>1, <2>2, <2>3, <2>4, Zenon DEF FreshAhead
<1> QED
  BY <1>3, <1>5, <1>6, <1>7, <1>8, OnceStays, Zenon DEF DeliveryInv

(* Recoveries: what one requeues, nobody holds.                            *)
LEMMA SweepDelivers ==
  ASSUME TypeOK, HolderInv, DeliveryInv, NEW s \in Sweepers, SweepStep(s)
  PROVE  DeliveryInv'
<1>0. run \in [RunIds -> Runs] /\ faults \in Nat
  BY Zenon DEF TypeOK
<1>1. /\ UNCHANGED <<held, carried, phase, patch, msg, handed, faults>>
      /\ UNCHANGED run \/ (sweep[s] # NoSweep /\ Swept(sweep[s]))
  BY Zenon DEF SweepStep, SweepSelect, SweepWrite, bridge, rows
<1>2. NothingHanded
  BY <1>0, <1>1 DEF NothingHanded
<1>3. CASE UNCHANGED run
  BY <1>1, <1>2, <1>3, Calm, Zenon DEF Steady
<1>4. CASE \A r \in RunIds : RowKept(r)
  BY <1>1, <1>2, <1>4, KeptSteady, Calm, Zenon
<1>5. CASE Rescued(sweep[s])
  <2> DEFINE w == sweep[s]
  <2>1. /\ w.run \in RunIds /\ run[w.run] \in Runs /\ run[w.run].status = "claimed"
        /\ run' = [run EXCEPT ![w.run] = [run[w.run] EXCEPT !.status = "queued", !.bridge = NoBridge,
                                         !.claimedAt = 0, !.requeues = Rescues(w.run)]]
        /\ w.job = "discard" \/ Unfresh(run[w.run].bridge)
    BY <1>0, <1>5, Zenon DEF Rescued, Requeue
  <2>2. \A b \in Bridges : held[b] # w.run
    <3>1. CASE w.job = "discard"
      BY <3>1, Zenon DEF HolderInv, DiscardIsLoose
    <3>2. CASE Unfresh(run[w.run].bridge)
      BY <2>1, <3>2, Constants DEF Unfresh, HolderInv, HolderOwns
    <3> QED
      BY <2>1, <3>1, <3>2, Zenon
  <2> HIDE DEF w
  <2>3. \A m \in run[w.run].items : Fresh(m)
    BY <2>1, <2>2, Zenon DEF DeliveryInv, FreshAhead
  <2>4. ASSUME NEW q \in RunIds PROVE Steady(q)
    <3>1. CASE q # w.run
      BY <1>0, <2>1, <3>1, Zenon DEF Steady
    <3>2. CASE q = w.run
      <4>1. run'[q].items = run[q].items /\ run'[q].status = "queued"
        BY <1>0, <2>1, <3>2, Zenon DEF Runs
      <4> QED
        BY <2>3, <3>2, <4>1, Zenon DEF Steady
    <3> QED
      BY <3>1, <3>2, Zenon
  <2> QED
    BY <1>1, <1>2, <2>4, Calm, Zenon
<1> QED
  BY <1>1, <1>3, <1>4, <1>5, SweptRows, Zenon

(* Requests.                                                               *)
LEMMA RequestDelivers ==
  ASSUME TypeOK, HolderInv, DeliveryInv, ServiceStep
  PROVE  DeliveryInv'
<1>1. CASE ~\E m \in Messages : Send(m)
  <2>1. \A r \in RunIds : Steady(r)
    BY <1>1, RequestRows, KeptSteady, Zenon
  <2>2. UNCHANGED <<bridge, handed, faults>>
    BY Zenon DEF ServiceStep, Send, InboxRead, InboxWrite, MarkRead, MarkUnread, UnsendRead,
           UnsendWrite, ClearConversation, Reply, UnsendReply, CancelQueued, CloseRead,
           CloseWrite, StopBusy, StopRead, StopWrite
  <2>3. UNCHANGED msg \/ \E S : Deleted(S)
    BY <1>1, Zenon DEF ServiceStep, InboxRead, InboxWrite, MarkRead, MarkUnread, UnsendRead,
           UnsendWrite, ClearConversation, Reply, UnsendReply, CancelQueued, CloseRead,
           CloseWrite, StopBusy, StopRead, StopWrite, rows
  <2>4. \A m \in Messages : msg'[m] = "new" => msg[m] = "new"
    BY <2>3, Zenon DEF Deleted
  <2>5. NothingHanded
    BY <2>2 DEF NothingHanded, TypeOK
  <2> QED
    BY <2>1, <2>2, <2>4, <2>5, Calm, Zenon DEF bridge
<1> QED
  BY <1>1, SendDelivers, Zenon

(* Nothing is sent or handed over at first.                                *)
LEMMA DeliveryInit == Init => DeliveryInv
<1> SUFFICES ASSUME Init PROVE DeliveryInv
  BY Zenon
<1>1. /\ run = [r \in RunIds |-> NoRow] /\ held = [b \in Bridges |-> NoRun]
      /\ phase = [b \in Bridges |-> "idle"] /\ patch = [b \in Bridges |-> NoPatch]
      /\ handed = [m \in Messages |-> 0] /\ faults = 0
  BY Zenon DEF Init
<1>2. \A r \in RunIds : run[r].items = {} /\ run[r].status = "none"
  BY <1>1, Zenon DEF NoRow
<1>3. \A m \in Messages : Fresh(m)
  BY <1>1 DEF Fresh
<1>4. OneRunEach
  BY <1>2, <1>3, Zenon DEF OneRunEach
<1>5. BridgeFits /\ CarriedIsItems
  BY <1>1, NoPatchFields, Zenon DEF BridgeFits, CarriedIsItems
<1>6. FreshAhead
  BY <1>1, <1>2, NoPatchFields, Zenon DEF FreshAhead
<1>7. HandedOnce
  BY <1>1 DEF HandedOnce
<1> QED
  BY <1>4, <1>5, <1>6, <1>7, Zenon DEF DeliveryInv

(* Every step keeps the invariant.                                         *)
LEMMA DeliveryStep ==
  ASSUME TypeOK, HolderInv, DeliveryInv, [Next]_vars
  PROVE  DeliveryInv'
<1>1. CASE ServiceStep
  BY <1>1, RequestDelivers, Zenon
<1>2. ASSUME NEW b \in Bridges, BridgeStep(b) PROVE DeliveryInv'
  <2>1. \A c \in Bridges : life[c] \in {"up", "down", "stale"}
    BY Zenon DEF HolderInv
  <2>2. ASSUME UNCHANGED <<run, msg, held, carried, phase, patch, handed>>, faults' \in {faults, faults + 1}
        PROVE  DeliveryInv'
    <3>1. NothingHanded
      BY <2>2 DEF NothingHanded, TypeOK
    <3> QED
      BY <2>2, <3>1, Calm, Zenon DEF Steady
  <2>3. CASE Supersede(b)
    <3>1. NothingHanded
      BY <2>3 DEF NothingHanded, TypeOK, Supersede
    <3>2. ASSUME NEW r \in RunIds PROVE Steady(r)
      <4>1. run'[r] = run[r] \/ run'[r] = [run[r] EXCEPT !.status = "failed"]
        BY <2>3, Zenon DEF Supersede, Replaced
      <4>2. run[r] \in Runs
        BY ItemsTyped, Zenon
      <4> QED
        BY <4>1, <4>2, Zenon DEF Steady, Runs
    <3>3. UNCHANGED <<held, carried, phase, patch, msg>>
      BY <2>3, Zenon DEF Supersede
    <3> QED
      BY <3>1, <3>2, <3>3, Calm, Zenon
  <2>4. CASE Revive(b) \/ Lapse(b) \/ Restart(b) \/ Sleep(b) \/ Wake(b)
    <3>1. UNCHANGED <<run, msg, held, carried, phase, patch, handed>> /\ faults' \in {faults, faults + 1}
      BY <2>4, Zenon DEF Revive, Lapse, Restart, Sleep, Wake, rows
    <3> QED
      BY <2>2, <3>1, Zenon
  <2> QED
    BY <1>2, <2>3, <2>4, ClaimDelivers, HandDelivers, PatchReadDelivers, PatchWriteDelivers, DropDelivers, Zenon
       DEF BridgeStep
<1>3. ASSUME NEW s \in Sweepers, SweepStep(s) PROVE DeliveryInv'
  BY <1>3, SweepDelivers, Zenon
<1>4. CASE UNCHANGED vars
  <2>1. NothingHanded
    BY <1>4 DEF vars, NothingHanded, TypeOK
  <2>2. \A r \in RunIds : Steady(r)
    BY <1>4, Zenon DEF vars, Steady
  <2> QED
    BY <1>4, <2>1, <2>2, Calm, Zenon DEF vars
<1> QED
  BY <1>1, <1>2, <1>3, <1>4, Zenon DEF Next

(* What a bridge delivers is all its run carries, and the agent is given a *)
(* message again only after a failure: for any number of messages, runs,   *)
(* bridges and faults.                                                     *)
THEOREM Delivering ==
  ASSUME Single
  PROVE  Spec => []DeliveryInv
<1>1. TypeOK /\ HolderInv /\ DeliveryInv /\ [Next]_vars => DeliveryInv'
  BY DeliveryStep, Zenon
<1> QED
  BY <1>1, DeliveryInit, Typing, Holding, PTL DEF Spec

(* No message joins a run whose payload a bridge already has               *)
(* (dispatch_buffer.py merges into queued runs only, under the lock that a *)
(* claim takes).                                                           *)
THEOREM PayloadIsWhole ==
  ASSUME Single
  PROVE  Spec => []CarriedIsItems
<1>1. DeliveryInv => CarriedIsItems
  BY Zenon DEF DeliveryInv
<1> QED
  BY <1>1, Delivering, PTL

(* A managed turn is given a message at most once, and a sidecar pushes it *)
(* at most once more for each fault, whatever is requeued, healed, handed  *)
(* back and restarted.                                                     *)
THEOREM GivenOnce ==
  ASSUME Single
  PROVE  Spec => []HandedOnce
<1>1. DeliveryInv => HandedOnce
  BY Zenon DEF DeliveryInv
<1> QED
  BY <1>1, Delivering, PTL
=============================================================================
