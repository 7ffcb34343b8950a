------------------------- MODULE DispatchRunsProofs -------------------------
(* The dispatch runs stay well-typed, and no run is ever in the hands of   *)
(* two bridges, for any number of messages, runs, bridges and faults and   *)
(* for every requeue limit, as long as only dead bridges are judged gone   *)
(* and recoveries do not overlap.  OneHolder is not inductive; HolderInv   *)
(* is, with the types.                                                     *)
EXTENDS DispatchRuns, WellFoundedInduction, TLAPS

(* Types: a lemma per action, on lemmas about the rows they write.         *)

USE DEF RunIds, NoRun, Unread, Terminal, Active, Statuses, Jobs, Channel

(* The constants' assumptions, gathered.                                   *)
LEMMA Constants ==
  /\ MaxRuns \in Nat /\ BufferCap \in Nat /\ RequeueLimit \in Nat /\ MaxFaults \in Nat
  /\ NoBridge \notin Bridges /\ NoMessage \notin Messages
  /\ Elapse \subseteq Nat
  /\ Mode \in {"claude", "hermes", "managed"}
BY RunsAssumption, FaultsAssumption, BridgeAssumption, MessageAssumption,
   ElapseAssumption, ModeAssumption, Zenon

(* Changing fields of a row, each to a value of its type, leaves a row.    *)
LEMMA RowTyping ==
  ASSUME NEW d \in Runs
  PROVE  /\ d.status \in Statuses /\ d.items \subseteq Messages
         /\ d.message \in Messages \cup {NoMessage} /\ d.bridge \in Bridges \cup {NoBridge}
         /\ d.require \in BOOLEAN /\ d.started \in BOOLEAN /\ d.summary \in BOOLEAN
         /\ d.result \in BOOLEAN /\ d.delivered \in BOOLEAN
         /\ d.claimedAt \in Nat /\ d.requeues \in Nat
BY Zenon DEF Runs

LEMMA MergeRow ==
  ASSUME NEW d \in Runs, NEW S \in SUBSET Messages, NEW q \in BOOLEAN
  PROVE  [d EXCEPT !.items = S, !.require = q] \in Runs
BY Zenon DEF Runs

LEMMA StatusRow ==
  ASSUME NEW d \in Runs, NEW x \in Statuses
  PROVE  [d EXCEPT !.status = x] \in Runs
BY Zenon DEF Runs

LEMMA SettleRow ==
  ASSUME NEW d \in Runs, NEW x \in Statuses, NEW y \in BOOLEAN
  PROVE  [d EXCEPT !.status = x, !.summary = y] \in Runs
BY Zenon DEF Runs

LEMMA ClaimRow ==
  ASSUME NEW d \in Runs, NEW x \in Statuses, NEW b \in Bridges \cup {NoBridge},
         NEW t \in Nat
  PROVE  [d EXCEPT !.status = x, !.bridge = b, !.claimedAt = t] \in Runs
BY Zenon DEF Runs

LEMMA ReportRow ==
  ASSUME NEW d \in Runs, NEW x \in Statuses, NEW y \in BOOLEAN,
         NEW z \in BOOLEAN, NEW v \in BOOLEAN, NEW u \in BOOLEAN
  PROVE  [d EXCEPT !.status = x, !.summary = y, !.started = z, !.result = v,
                   !.delivered = u] \in Runs
<1> DEFINE d1 == [d EXCEPT !.status = x, !.summary = y]
           d2 == [d1 EXCEPT !.started = z]
           d3 == [d2 EXCEPT !.result = v]
           d4 == [d3 EXCEPT !.delivered = u]
<1>1. [d EXCEPT !.status = x, !.summary = y, !.started = z, !.result = v, !.delivered = u] = d4
  BY Zenon
<1>2. d1 \in Runs
  BY SettleRow, Zenon
<1> HIDE DEF d1
<1>3. d2 \in Runs
  BY <1>2, Zenon DEF Runs
<1> HIDE DEF d2
<1>4. d3 \in Runs
  BY <1>3, Zenon DEF Runs
<1> HIDE DEF d3
<1>5. d4 \in Runs
  BY <1>4 DEF Runs
<1> QED BY <1>1, <1>5, Zenon

LEMMA AnswerRow ==
  ASSUME NEW d \in Runs, NEW v \in BOOLEAN, NEW x \in Statuses
  PROVE  [d EXCEPT !.result = v, !.status = x] \in Runs
BY Zenon DEF Runs

LEMMA ResultRow ==
  ASSUME NEW d \in Runs, NEW v \in BOOLEAN
  PROVE  [d EXCEPT !.result = v] \in Runs
BY Zenon DEF Runs

LEMMA CancelRow ==
  ASSUME NEW d \in Runs, NEW x \in Statuses, NEW y \in BOOLEAN,
         NEW m \in Messages \cup {NoMessage}
  PROVE  [d EXCEPT !.status = x, !.summary = y, !.message = m] \in Runs
BY Zenon DEF Runs

LEMMA WithdrawRow ==
  ASSUME NEW d \in Runs, NEW x \in Statuses, NEW y \in BOOLEAN,
         NEW q \in BOOLEAN, NEW m \in Messages \cup {NoMessage}
  PROVE  [d EXCEPT !.status = x, !.summary = y, !.require = q, !.message = m] \in Runs
BY Zenon DEF Runs

LEMMA UnlinkRow ==
  ASSUME NEW d \in Runs, NEW m \in Messages \cup {NoMessage}
  PROVE  [d EXCEPT !.message = m] \in Runs
BY Zenon DEF Runs

LEMMA ClearRow ==
  ASSUME NEW d \in Runs, NEW m \in Messages \cup {NoMessage}, NEW v \in BOOLEAN
  PROVE  [d EXCEPT !.message = m, !.result = v] \in Runs
BY Zenon DEF Runs

LEMMA CloseRow ==
  ASSUME NEW d \in Runs, NEW x \in Statuses, NEW y \in BOOLEAN, NEW q \in BOOLEAN
  PROVE  [d EXCEPT !.status = x, !.summary = y, !.require = q] \in Runs
BY Zenon DEF Runs

LEMMA RequeueRow ==
  ASSUME NEW d \in Runs, NEW x \in Statuses, NEW b \in Bridges \cup {NoBridge},
         NEW t \in Nat, NEW n \in Nat
  PROVE  [d EXCEPT !.status = x, !.bridge = b, !.claimedAt = t, !.requeues = n] \in Runs
BY Zenon DEF Runs

LEMMA RescueRow ==
  ASSUME NEW d \in Runs, NEW n \in Nat
  PROVE  [d EXCEPT !.requeues = n] \in Runs
BY Zenon DEF Runs

(* The initial rows are typed.                                             *)
LEMMA InitTyping == Init => TypeOK
<1> SUFFICES ASSUME Init PROVE TypeOK
  BY Zenon
<1>1. NoRow \in Runs
  BY Constants, Zenon DEF NoRow, Runs
<1>2. NoPatch \in Patches /\ NoUnsend \in Unsends /\ NoClosing \in Closings /\ NoSweep \in Sweeps
  BY Constants, Zenon DEF NoPatch, Patches, NoUnsend, Unsends, NoClosing, Closings, NoSweep, Sweeps
<1> QED
  BY <1>1, <1>2, Zenon DEF Init, TypeOK

LEMMA SendTyping == \A m \in Messages : TypeOK /\ Send(m) => TypeOK'
<1> SUFFICES ASSUME NEW m \in Messages, TypeOK, Send(m) PROVE TypeOK'
  BY Zenon
<1>1. \A q \in BOOLEAN :
        [NoRow EXCEPT !.status = "queued", !.items = {m}, !.message = m, !.require = q] \in Runs
  BY Constants, Zenon DEF NoRow, Runs
<1>2. \A r \in RunIds, q \in BOOLEAN :
        [run[r] EXCEPT !.items = run[r].items \cup {m}, !.require = q] \in Runs
  <2> SUFFICES ASSUME NEW r \in RunIds, NEW q \in BOOLEAN
               PROVE  [run[r] EXCEPT !.items = run[r].items \cup {m}, !.require = q] \in Runs
    BY Zenon
  <2>1. run[r] \in Runs
    BY Zenon DEF TypeOK
  <2>2. run[r].items \cup {m} \in SUBSET Messages
    BY <2>1, RowTyping, Zenon
  <2> QED
    BY <2>1, <2>2, MergeRow, Zenon
<1>3. \A r \in RunIds : run[r].require \in BOOLEAN
  BY RowTyping, Zenon DEF TypeOK
<1> DEFINE same == Mergeable(SenderOf[m])
           free == {r \in RunIds : run[r].status = "none"}
           r == Oldest(same)
           open == [NoRow EXCEPT !.status = "queued", !.items = {m}, !.message = m,
                                 !.require = IF m \in NeedReply THEN TRUE ELSE FALSE]
           joined == [run[r] EXCEPT !.items = run[r].items \cup {m},
                        !.require = IF m \in NeedReply THEN TRUE ELSE run[r].require]
<1>4. run' \in [RunIds -> Runs]
  <2>1. CASE same = {}
    <3>1. open \in Runs
      BY <1>1, Zenon
    <3>2. run' = [run EXCEPT ![Oldest(free)] = open]
      BY <2>1, Zenon DEF Send, Enqueued
    <3> QED
      BY <3>1, <3>2, Zenon DEF TypeOK
  <2>2. CASE same # {} /\ Cardinality(run[r].items) < BufferCap
    <3>1. run' = [run EXCEPT ![r] = joined]
      <4>1. CASE m \in NeedReply
        BY <2>2, <4>1, Zenon DEF Send, Enqueued
      <4>2. CASE m \notin NeedReply
        BY <2>2, <4>2, Zenon DEF Send, Enqueued
      <4> QED
        BY <4>1, <4>2, Zenon
    <3>2. CASE r \in RunIds
      <4>1. joined \in Runs
        BY <1>2, <1>3, <3>2, Zenon
      <4> QED
        BY <3>1, <4>1, Zenon DEF TypeOK
    <3>3. CASE r \notin RunIds
      BY <3>1, <3>3, Zenon DEF TypeOK
    <3> QED
      BY <3>2, <3>3, Zenon
  <2>3. CASE same # {} /\ ~(Cardinality(run[r].items) < BufferCap)
    BY <2>3, Zenon DEF Send, Enqueued, TypeOK
  <2> QED
    BY <2>1, <2>2, <2>3, Zenon
<1> QED
  BY <1>4, Zenon DEF TypeOK, Send, bridge, flight

(* A row of the table is a row, and replacing one by a row keeps the table.*)
LEMMA Table ==
  ASSUME run \in [RunIds -> Runs]
  PROVE  /\ \A r \in RunIds : run[r] \in Runs
         /\ \A r, d : d \in Runs => [run EXCEPT ![r] = d] \in [RunIds -> Runs]
BY Zenon

LEMMA ClaimTyping ==
  ASSUME TypeOK, NEW b \in Bridges, NEW a,
         NEW D \in SUBSET Claimable, NEW fate \in [D -> {"failed", "cancelled"}]
  PROVE  /\ Cleared(a, fate) \in [RunIds -> Runs]
         /\ \A r \in RunIds, d \in Elapse : Claim(b, r, a, fate, d) => TypeOK'
         /\ ClaimNothing(b, a, fate) => TypeOK'
<1>1. Cleared(a, fate) \in [RunIds -> Runs]
  <2> SUFFICES ASSUME NEW q \in RunIds PROVE Cleared(a, fate)[q] \in Runs
    BY Zenon DEF Cleared
  <2>1. run[q] \in Runs
    BY Zenon DEF TypeOK
  <2>2. [run[q] EXCEPT !.status = "failed", !.summary = TRUE] \in Runs
    BY <2>1, SettleRow, Zenon
  <2>3. ASSUME q \in DOMAIN fate PROVE [run[q] EXCEPT !.status = fate[q]] \in Runs
    BY <2>1, <2>3, StatusRow, Zenon
  <2> QED
    BY <2>1, <2>2, <2>3, Zenon DEF Cleared
<1>2. ASSUME NEW r \in RunIds, NEW d \in Elapse, Claim(b, r, a, fate, d) PROVE TypeOK'
  <2>1. run[r] \in Runs /\ clock + d \in Nat
    BY Constants DEF TypeOK
  <2>2. [run[r] EXCEPT !.status = "claimed", !.bridge = b, !.claimedAt = clock + d] \in Runs
    BY <2>1, ClaimRow, Zenon
  <2>3. run' \in [RunIds -> Runs]
    BY <1>1, <1>2, <2>2, Zenon DEF Claim
  <2>4. receipt' \in [Messages -> Nat]
    BY <1>2, <2>1, Zenon DEF Claim, Marked, TypeOK
  <2>5. run[r].items \in SUBSET Messages
    BY <2>1, RowTyping, Zenon
  <2> QED
    BY <1>2, <2>1, <2>3, <2>4, <2>5, Zenon DEF Claim, TypeOK, flight
<1>3. ASSUME ClaimNothing(b, a, fate) PROVE TypeOK'
  BY <1>1, <1>3, Zenon DEF ClaimNothing, TypeOK, flight
<1> QED
  BY <1>1, <1>2, <1>3, Zenon

LEMMA ReportTyping ==
  ASSUME TypeOK, NEW b \in Bridges
  PROVE  /\ Hand(b) => TypeOK'
         /\ \A want \in Statuses : PatchRead(b, want) => TypeOK'
         /\ PatchWrite(b) => TypeOK'
         /\ PatchLost(b) => TypeOK'
<1>1. ASSUME Hand(b) PROVE TypeOK'
  BY <1>1 DEF Hand, TypeOK, rows, flight
<1>2. ASSUME NEW want \in Statuses, PatchRead(b, want) PROVE TypeOK'
  <2>1. held[b] \in RunIds
    BY <1>2, Zenon DEF PatchRead, TypeOK
  <2>2. run[held[b]].status \in Statuses
    BY <2>1, RowTyping, Zenon DEF TypeOK
  <2>3. [run |-> held[b], want |-> want, seen |-> run[held[b]].status] \in Patches
    BY <2>1, <2>2, Zenon DEF Patches
  <2> QED
    BY <1>2, <2>3 DEF PatchRead, TypeOK, rows, flight
<1>3. ASSUME PatchWrite(b) PROVE TypeOK'
  <2> DEFINE p == patch[b]
  <2>1. p \in Patches
    BY Zenon DEF TypeOK
  <2>2. run' \in [RunIds -> Runs]
    <3>1. CASE p.run \in RunIds
      <4>1. run[p.run] \in Runs
        BY <3>1, Zenon DEF TypeOK
      <4>2. Effective(p) \in Statuses
        BY <2>1, <4>1, RowTyping, Zenon DEF Effective, Patches
      <4>3. Summaries(p) \subseteq BOOLEAN
        BY <4>1, RowTyping, Zenon DEF Summaries
      <4> DEFINE began == IF Effective(p) = "running" THEN TRUE ELSE run[p.run].started
                 reply == IF Mirrored(p) THEN TRUE ELSE run[p.run].result
                 there == IF Channel /\ p.want \in {"delivered", "completed"}
                          THEN TRUE ELSE run[p.run].delivered
      <4>4. PICK text \in Summaries(p) :
              run' = [run EXCEPT ![p.run] =
                [run[p.run] EXCEPT !.status = Effective(p), !.summary = text,
                   !.started = began, !.result = reply, !.delivered = there]]
        BY <1>3, Zenon DEF PatchWrite
      <4>5. began \in BOOLEAN /\ reply \in BOOLEAN /\ there \in BOOLEAN /\ text \in BOOLEAN
        BY <4>1, <4>3, RowTyping, Zenon
      <4> HIDE DEF began, reply, there, p
      <4>6. [run[p.run] EXCEPT !.status = Effective(p), !.summary = text, !.started = began,
                               !.result = reply, !.delivered = there] \in Runs
        <5> DEFINE d == run[p.run]
                   x == Effective(p)
        <5>1. d \in Runs /\ x \in Statuses
          BY <4>1, <4>2, Zenon
        <5> HIDE DEF d, x
        <5>2. [d EXCEPT !.status = x, !.summary = text, !.started = began, !.result = reply, !.delivered = there] \in Runs
          BY <4>5, <5>1, ReportRow, Zenon
        <5> QED BY <5>2, Zenon DEF d, x
      <4> QED
        BY <4>4, <4>6, Zenon DEF TypeOK
    <3>2. CASE p.run \notin RunIds
      BY <1>3, <3>2, Zenon DEF PatchWrite, TypeOK
    <3> QED
      BY <3>1, <3>2, Zenon
  <2>3. NoPatch \in Patches
    BY Zenon DEF NoPatch, Patches
  <2> QED
    BY <1>3, <2>2, <2>3, Zenon DEF PatchWrite, Answered, TypeOK, flight
<1>4. ASSUME PatchLost(b) PROVE TypeOK'
  BY <1>4 DEF PatchLost, TypeOK, rows, flight
<1> QED
  BY <1>1, <1>2, <1>3, <1>4, Zenon

(* The bridge's process.                                                   *)
LEMMA ProcessTyping ==
  ASSUME TypeOK, NEW b \in Bridges
  PROVE  /\ Crash(b) => TypeOK'
         /\ Lapse(b) => TypeOK'
         /\ Restart(b) => TypeOK'
         /\ Wake(b) => TypeOK'
         /\ Sleep(b) => TypeOK'
         /\ Supersede(b) => TypeOK'
<1>1. ASSUME Crash(b) PROVE TypeOK'
  BY <1>1 DEF Crash, Dropped, TypeOK, rows, flight
<1>2. ASSUME Lapse(b) PROVE TypeOK'
  BY <1>2, Zenon DEF Lapse, TypeOK, rows, flight
<1>3. ASSUME Restart(b) PROVE TypeOK'
  BY <1>3, Zenon DEF Restart, TypeOK, rows, flight
<1>4. ASSUME Wake(b) PROVE TypeOK'
  BY <1>4, Zenon DEF Wake, TypeOK, rows, flight
<1>5. ASSUME Sleep(b) PROVE TypeOK'
  BY <1>5 DEF Sleep, TypeOK, rows, flight
<1>6. ASSUME Supersede(b) PROVE TypeOK'
  <2>1. Replaced(b) \in [RunIds -> Runs]
    BY StatusRow, Zenon DEF Replaced, TypeOK
  <2> QED
    BY <1>6, <2>1 DEF Supersede, TypeOK, flight
<1> QED
  BY <1>1, <1>2, <1>3, <1>4, <1>5, <1>6, Zenon

(* The requests of people and agents.                                      *)
LEMMA RequestTyping ==
  ASSUME TypeOK
  PROVE  /\ \A S \in SUBSET Messages : InboxRead(S) => TypeOK'
         /\ \A d \in Elapse : InboxWrite(d) => TypeOK'
         /\ \A m \in Messages, d \in Elapse : MarkRead(m, d) => TypeOK'
         /\ \A m \in Messages : MarkUnread(m) => TypeOK'
         /\ \A m \in Messages : UnsendRead(m) => TypeOK'
         /\ UnsendWrite => TypeOK'
         /\ \A peer : ClearConversation(peer) => TypeOK'
         /\ \A r \in RunIds : Reply(r) => TypeOK'
         /\ \A r \in RunIds : UnsendReply(r) => TypeOK'
         /\ \A r \in RunIds : CancelQueued(r) => TypeOK'
         /\ \A r \in RunIds : CloseRead(r) => TypeOK'
         /\ CloseWrite => TypeOK'
         /\ StopBusy => TypeOK'
         /\ StopRead => TypeOK'
         /\ StopWrite => TypeOK'
<1> USE Table DEF TypeOK
<1>a. ASSUME NEW S \in SUBSET Messages, InboxRead(S) PROVE TypeOK'
  BY <1>a, Zenon DEF InboxRead, bridge, rows
<1>b. ASSUME NEW d \in Elapse, InboxWrite(d) PROVE TypeOK'
  <2>1. clock + d \in Nat
    BY Constants
  <2>2. run' \in [RunIds -> Runs]
    <3>1. \A r \in RunIds : run[r] \in Runs
                            /\ [run[r] EXCEPT !.status = "completed", !.summary = TRUE] \in Runs
      BY SettleRow, Zenon
    <3> QED
      BY <1>b, <3>1, Zenon DEF InboxWrite
  <2>3. receipt' \in [Messages -> Nat] /\ earned' \in SUBSET Messages /\ clock' \in Nat
    BY <1>b, <2>1, Zenon DEF InboxWrite, Marked
  <2> QED
    BY <1>b, <2>2, <2>3, Zenon DEF InboxWrite, bridge
<1>c. ASSUME NEW m \in Messages, NEW d \in Elapse, MarkRead(m, d) PROVE TypeOK'
  <2>1. clock + d \in Nat
    BY Constants
  <2> QED
    BY <1>c, <2>1, Zenon DEF MarkRead, bridge, flight
<1>d. ASSUME NEW m \in Messages, MarkUnread(m) PROVE TypeOK'
  BY <1>d, Zenon DEF MarkUnread, bridge, flight
<1>e. ASSUME NEW S, Stopped(S) PROVE run' \in [RunIds -> Runs]
  BY <1>e, SettleRow, Zenon DEF Stopped
<1>f. ASSUME StopBusy PROVE TypeOK'
  BY <1>e, <1>f, Zenon DEF StopBusy, bridge, flight
<1>g. ASSUME StopRead PROVE TypeOK'
  BY <1>g, Zenon DEF StopRead, Queued, bridge, rows
<1>h. ASSUME StopWrite PROVE TypeOK'
  BY <1>e, <1>h, Zenon DEF StopWrite, bridge
<1>2. ASSUME NEW m \in Messages, UnsendRead(m) PROVE TypeOK'
  <2>1. unsend' \in Unsends
    BY <1>2, Zenon DEF UnsendRead, Unsends
  <2> QED
    BY <1>2, <2>1, Zenon DEF UnsendRead, bridge, rows
<1>3. ASSUME UnsendWrite PROVE TypeOK'
  <2> DEFINE m == unsend.message
  <2>1. unsend' \in Unsends
    BY <1>3, Zenon DEF UnsendWrite, NoUnsend, Unsends
  <2>2. run' \in [RunIds -> Runs]
    <3> SUFFICES ASSUME NEW r \in RunIds PROVE run'[r] \in Runs
      BY <1>3, Zenon DEF UnsendWrite
    <3>1. run[r] \in Runs /\ Unlinked(r, {m}) \in Messages \cup {NoMessage}
      BY RowTyping, Zenon DEF Unlinked
    <3>2. [run[r] EXCEPT !.status = "cancelled", !.summary = TRUE,
                         !.message = Unlinked(r, {m})] \in Runs
      BY <3>1, CancelRow, Zenon
    <3>3. [run[r] EXCEPT !.status = "cancelled", !.summary = TRUE, !.require = FALSE,
                         !.message = NoMessage] \in Runs
      BY <3>1, WithdrawRow, Zenon
    <3>4. [run[r] EXCEPT !.message = Unlinked(r, {m})] \in Runs
      BY <3>1, UnlinkRow, Zenon
    <3> QED
      BY <1>3, <3>2, <3>3, <3>4, Zenon DEF UnsendWrite
  <2> QED
    BY <1>3, <2>1, <2>2, Zenon DEF UnsendWrite, Deleted, bridge
<1>4. ASSUME NEW peer, ClearConversation(peer) PROVE TypeOK'
  <2> DEFINE S == {m \in Messages : SenderOf[m] = peer /\ msg[m] = "stored"}
  <2>1. run' \in [RunIds -> Runs]
    <3> SUFFICES ASSUME NEW r \in RunIds PROVE run'[r] \in Runs
      BY <1>4, Zenon DEF ClearConversation
    <3>1. run[r] \in Runs /\ Unlinked(r, S) \in Messages \cup {NoMessage}
      BY RowTyping, Zenon DEF Unlinked
    <3>2. [run[r] EXCEPT !.message = Unlinked(r, S), !.result = FALSE] \in Runs
      BY <3>1, ClearRow, Zenon
    <3> QED
      BY <1>4, <3>1, <3>2, Zenon DEF ClearConversation
  <2> QED
    BY <1>4, <2>1, Zenon DEF ClearConversation, Deleted, bridge, flight
<1>5. ASSUME NEW r \in RunIds, Reply(r) PROVE TypeOK'
  <2>1. run[r] \in Runs /\ (IF Answers(r) THEN "completed" ELSE run[r].status) \in Statuses
    BY RowTyping, Zenon
  <2>2. [run[r] EXCEPT !.result = TRUE,
                       !.status = IF Answers(r) THEN "completed" ELSE run[r].status] \in Runs
    BY <2>1, AnswerRow, Zenon
  <2> QED
    BY <1>5, <2>2, Zenon DEF Reply, bridge, flight
<1>6. ASSUME NEW r \in RunIds, UnsendReply(r) PROVE TypeOK'
  <2>1. [run[r] EXCEPT !.result = FALSE] \in Runs
    BY ResultRow, Zenon
  <2> QED
    BY <1>6, <2>1, Zenon DEF UnsendReply, bridge, flight
<1>7. ASSUME NEW r \in RunIds, CancelQueued(r) PROVE TypeOK'
  <2>1. [run[r] EXCEPT !.status = "cancelled", !.summary = TRUE] \in Runs
    BY SettleRow, Zenon
  <2> QED
    BY <1>7, <2>1, Zenon DEF CancelQueued, bridge, flight
<1>8. ASSUME NEW r \in RunIds, CloseRead(r) PROVE TypeOK'
  <2>1. run[r].status \in Statuses
    BY RowTyping, Zenon
  <2> QED
    BY <1>8, <2>1, Zenon DEF CloseRead, Closings, bridge, rows
<1>9. ASSUME CloseWrite PROVE TypeOK'
  <2> DEFINE r == closing.run
             st == IF run[r].status \notin Terminal /\ ~(closing.seen \in Terminal \ {"completed"})
                   THEN "completed" ELSE run[r].status
             text == IF run[r].status \notin Terminal THEN TRUE ELSE run[r].summary
  <2>1. run' \in [RunIds -> Runs]
    <3>1. CASE r \in RunIds
      <4>1. run[r] \in Runs /\ st \in Statuses /\ text \in BOOLEAN
        BY <3>1, RowTyping, Zenon
      <4>2. [run[r] EXCEPT !.status = st, !.summary = text, !.require = FALSE] \in Runs
        BY <4>1, CloseRow, Zenon
      <4> QED
        BY <1>9, <4>2, Zenon DEF CloseWrite
    <3>2. CASE r \notin RunIds
      <4>1. \E x : run' = [run EXCEPT ![r] = x]
        BY <1>9, Zenon DEF CloseWrite
      <4>2. run \in [RunIds -> Runs]
        BY Zenon DEF TypeOK
      <4> QED
        BY <3>2, <4>1, <4>2
    <3> QED
      BY <3>1, <3>2, Zenon
  <2>2. closing' \in Closings
    BY <1>9, Zenon DEF CloseWrite, NoClosing, Closings
  <2> QED
    BY <1>9, <2>1, <2>2 DEF CloseWrite, bridge
<1> QED
  BY <1>a, <1>b, <1>c, <1>d, <1>f, <1>g, <1>h,
     <1>2, <1>3, <1>4, <1>5, <1>6, <1>7, <1>8, <1>9, Zenon

(* The recovery jobs.                                                      *)
LEMMA SelectTyping ==
  ASSUME TypeOK, NEW s \in Sweepers, NEW job \in Jobs, NEW r \in RunIds,
         SweepSelect(s, job, r)
  PROVE  TypeOK'
<1>1. run[r] \in Runs
  BY Zenon DEF TypeOK
<1>2. [job |-> job, run |-> r, seen |-> run[r].status,
       bridge |-> run[r].bridge, claimedAt |-> run[r].claimedAt] \in Sweeps
  BY <1>1, RowTyping, Zenon DEF Sweeps
<1> QED
  BY <1>2, Zenon DEF SweepSelect, TypeOK, rows, bridge

LEMMA ReleaseTyping ==
  ASSUME TypeOK, NEW r \in RunIds, NEW t
  PROVE  Released(r, t) \in [Messages -> Nat]
BY Zenon DEF Released, TypeOK

LEMMA RequeueTyping ==
  ASSUME TypeOK, NEW r \in RunIds, Requeue(r)
  PROVE  run' \in [RunIds -> Runs] /\ receipt' \in [Messages -> Nat]
<1>1. run[r] \in Runs
  BY Zenon DEF TypeOK
<1>2. Rescues(r) \in Nat
  BY <1>1, RowTyping, Constants DEF Rescues
<1>3. [run[r] EXCEPT !.status = "queued", !.bridge = NoBridge, !.claimedAt = 0,
                     !.requeues = Rescues(r)] \in Runs
  BY <1>1, <1>2, RequeueRow, Zenon
<1> QED
  BY <1>3, ReleaseTyping, Zenon DEF Requeue, TypeOK

LEMMA SettleTyping ==
  ASSUME TypeOK, NEW r \in RunIds, NEW as \in Statuses, NEW text \in BOOLEAN,
         Settle(r, as, text)
  PROVE  run' \in [RunIds -> Runs] /\ receipt' \in [Messages -> Nat]
<1>1. run[r] \in Runs /\ (IF text THEN TRUE ELSE run[r].summary) \in BOOLEAN
  BY RowTyping, Zenon DEF TypeOK
<1>2. [run[r] EXCEPT !.status = as,
                     !.summary = IF text THEN TRUE ELSE run[r].summary] \in Runs
  BY <1>1, SettleRow, Zenon
<1> QED
  BY <1>2, Zenon DEF Settle, TypeOK

LEMMA SweptTyping ==
  ASSUME TypeOK, NEW w \in Sweeps, w # NoSweep, Swept(w)
  PROVE  run' \in [RunIds -> Runs] /\ receipt' \in [Messages -> Nat]
<1> DEFINE Good == run' \in [RunIds -> Runs] /\ receipt' \in [Messages -> Nat]
<1>r. w.run \in RunIds /\ w.job \in Jobs
  BY Zenon DEF Sweeps
<1>u. UNCHANGED <<run, receipt>> => Good
  BY Zenon DEF TypeOK
<1>1. CASE w.job = "superseded"
  BY <1>r, <1>1, SettleTyping, Zenon DEF Swept
<1>2. CASE w.job = "discard"
  <2>1. ASSUME run' = [run EXCEPT ![w.run].requeues = @ + 1], UNCHANGED receipt PROVE Good
    <3>1. run[w.run] \in Runs /\ run[w.run].requeues + 1 \in Nat
      BY <1>r, RowTyping DEF TypeOK
    <3>2. [run[w.run] EXCEPT !.requeues = run[w.run].requeues + 1] \in Runs
      BY <3>1, RescueRow, Zenon
    <3> QED
      BY <2>1, <3>2, Zenon DEF TypeOK
  <2> QED
    BY <1>r, <1>2, <2>1, SettleTyping, RequeueTyping, Zenon DEF Swept, Discard
<1>3. CASE w.job = "requeue"
  BY <1>r, <1>u, <1>3, RequeueTyping, Zenon DEF Swept, RequeueClaim
<1>4. CASE w.job = "orphan"
  BY <1>r, <1>4, SettleTyping, Zenon DEF Swept
<1>5. CASE w.job = "reap"
  BY <1>r, <1>u, <1>5, SettleTyping, Zenon DEF Swept, SettleIf
<1>6. CASE w.job = "stranded"
  BY <1>r, <1>u, <1>6, SettleTyping, Zenon DEF Swept, SettleIf
<1>7. CASE w.job = "reconcile"
  BY <1>r, <1>u, <1>7, SettleTyping, Zenon DEF Swept, SettleIf
<1>8. CASE w.job = "release"
  BY <1>r, <1>8, ReleaseTyping DEF Swept, TypeOK
<1>9. CASE w.job = "terminal"
  BY <1>r, <1>u, <1>9, SettleTyping, Zenon DEF Swept, SettleIf
<1> QED
  BY <1>r, <1>1, <1>2, <1>3, <1>4, <1>5, <1>6, <1>7, <1>8, <1>9, Zenon

LEMMA SweepTyping ==
  ASSUME TypeOK, NEW s \in Sweepers, SweepWrite(s)
  PROVE  TypeOK'
<1>1. sweep[s] \in Sweeps /\ sweep[s] # NoSweep /\ Swept(sweep[s])
  BY Zenon DEF SweepWrite, TypeOK
<1>2. run' \in [RunIds -> Runs] /\ receipt' \in [Messages -> Nat]
  BY <1>1, SweptTyping, Zenon
<1>3. sweep' \in [Sweepers -> Sweeps]
  BY Zenon DEF SweepWrite, TypeOK, Sweeps
<1> QED
  BY <1>2, <1>3, Zenon DEF SweepWrite, TypeOK, bridge

(* Every step keeps the types.                                             *)
LEMMA StepTyping ==
  ASSUME TypeOK, [Next]_vars
  PROVE  TypeOK'
<1>1. CASE ServiceStep
  BY <1>1, SendTyping, RequestTyping, Zenon DEF ServiceStep
<1>2. ASSUME NEW b \in Bridges, BridgeStep(b) PROVE TypeOK'
  <2>1. ASSUME NEW fate \in Fates
        PROVE  \E D \in SUBSET Claimable : fate \in [D -> {"failed", "cancelled"}]
    BY Zenon DEF Fates
  <2>2. ASSUME NEW r \in RunIds, NEW a, NEW fate \in Fates, NEW d \in Elapse,
               Claim(b, r, a, fate, d)
        PROVE  TypeOK'
    BY <2>1, <2>2, ClaimTyping, Zenon
  <2>3. ASSUME NEW a, NEW fate \in Fates, ClaimNothing(b, a, fate)
        PROVE  TypeOK'
    BY <2>1, <2>3, ClaimTyping, Zenon
  <2>4. ASSUME Revive(b) PROVE TypeOK'
    BY <2>4, Zenon DEF Revive, TypeOK, rows, flight
  <2> QED
    BY <1>2, <2>2, <2>3, <2>4, ReportTyping, ProcessTyping, Zenon DEF BridgeStep
<1>3. ASSUME NEW s \in Sweepers, SweepStep(s) PROVE TypeOK'
  BY <1>3, SelectTyping, SweepTyping, Zenon DEF SweepStep
<1>4. CASE UNCHANGED vars
  BY <1>4, Zenon DEF vars, TypeOK
<1> QED
  BY <1>1, <1>2, <1>3, <1>4, Zenon DEF Next

(* Whatever claims, reports, crashes, requests and recoveries interleave,  *)
(* the rows, the bridges and the requests in flight stay well-typed.       *)
THEOREM Typing == Spec => []TypeOK
BY InitTyping, StepTyping, PTL DEF Spec

----------------------------------------------------------------------------
(* Who holds a run.                                                        *)

(* Row r, if it is out of the queue, stays out of it and its claimer's.    *)
Kept(r) ==
  run[r].status \notin {"none", "queued"} =>
    run'[r].bridge = run[r].bridge /\ run'[r].status \notin {"none", "queued"}

(* Someone still works on r, reports on it or discards it after the step.  *)
StillBusy(r) ==
  \/ \E b \in Bridges : held'[b] = r \/ patch'[b].run = r
  \/ \E s \in Sweepers : sweep'[s].job = "discard" /\ sweep'[s].run = r

(* What bridge b does when it takes nothing new on.                        *)
TakesNothing(b) ==
  /\ held'[b] = NoRun \/ (held'[b] = held[b] /\ life'[b] = life[b])
  /\ patch'[b] = NoPatch \/ (patch'[b] = patch[b] /\ life'[b] \in {"up", "down"})
  /\ life'[b] \in {"up", "down", "stale"}

Single == Misjudge = {} /\ \A s, t \in Sweepers : s = t

(* No report on its way.                                                   *)
LEMMA NoPatchFields == NoPatch.run = NoRun /\ NoPatch.want = "none"
BY Zenon DEF NoPatch

(* No recovery at work.                                                    *)
LEMMA NoSweepFields == NoSweep.job = "idle"
BY Zenon DEF NoSweep

(* A step that takes nothing new on, and keeps the rows somebody is still  *)
(* busy with, keeps the invariant.                                         *)
LEMMA Shrink ==
  ASSUME TypeOK, HolderInv,
         \A b \in Bridges : TakesNothing(b),
         \A s \in Sweepers : sweep'[s] = sweep[s] \/ sweep'[s].job # "discard",
         \A r \in RunIds : StillBusy(r) => Kept(r)
  PROVE  HolderInv'
<1>1. ASSUME NEW b \in Bridges, held'[b] # NoRun
      PROVE  /\ life'[b] = "up"
             /\ run'[held'[b]].bridge = b /\ run'[held'[b]].status \notin {"none", "queued"}
  <2>1. held'[b] = held[b] /\ life'[b] = life[b] /\ held[b] \in RunIds
    BY <1>1 DEF TakesNothing, TypeOK
  <2>2. life[b] = "up" /\ run[held[b]].bridge = b /\ run[held[b]].status \notin {"none", "queued"}
    BY <1>1, <2>1, Zenon DEF HolderInv, HolderOwns
  <2>3. Kept(held[b])
    BY <2>1, Zenon DEF StillBusy
  <2> QED
    BY <2>1, <2>2, <2>3, Zenon DEF Kept
<1>2. ASSUME NEW b \in Bridges, patch'[b] # NoPatch
      PROVE  /\ life'[b] \in {"up", "down"}
             /\ patch'[b].run # NoRun /\ patch'[b].want # "none"
             /\ run'[patch'[b].run].bridge = b
             /\ run'[patch'[b].run].status \notin {"none", "queued"}
             /\ held'[b] # NoRun => held'[b] = patch'[b].run
  <2>1. patch'[b] = patch[b] /\ life'[b] \in {"up", "down"}
    BY <1>2, Zenon DEF TakesNothing
  <2>2. /\ patch[b].run # NoRun /\ patch[b].want # "none"
        /\ run[patch[b].run].bridge = b /\ run[patch[b].run].status \notin {"none", "queued"}
        /\ held[b] # NoRun => held[b] = patch[b].run
    BY <1>2, <2>1, Zenon DEF HolderInv, ReportOwns
  <2>3. patch[b].run \in RunIds
    BY <2>2, Zenon DEF TypeOK, Patches
  <2>4. Kept(patch[b].run)
    BY <2>1, <2>3, Zenon DEF StillBusy
  <2>5. held'[b] # NoRun => held'[b] = held[b]
    BY Zenon DEF TakesNothing
  <2> QED
    BY <2>1, <2>2, <2>4, <2>5, Zenon DEF Kept
<1>3. ASSUME NEW s \in Sweepers, sweep'[s].job = "discard"
      PROVE  /\ sweep'[s].run # NoRun /\ run'[sweep'[s].run].status \notin {"none", "queued"}
             /\ \A b \in Bridges : held'[b] # sweep'[s].run /\ patch'[b].run # sweep'[s].run
  <2>1. sweep'[s] = sweep[s]
    BY <1>3, Zenon
  <2>2. /\ sweep[s].run # NoRun /\ run[sweep[s].run].status \notin {"none", "queued"}
        /\ \A b \in Bridges : held[b] # sweep[s].run /\ patch[b].run # sweep[s].run
    BY <1>3, <2>1, Zenon DEF HolderInv, DiscardIsLoose
  <2>3. sweep[s] \in Sweeps
    BY Zenon DEF TypeOK
  <2>4. sweep[s].run \in RunIds
    BY <1>3, <2>1, <2>3, NoSweepFields, Zenon DEF Sweeps
  <2>5. Kept(sweep[s].run)
    BY <1>3, <2>1, <2>4, Zenon DEF StillBusy
  <2>6. ASSUME NEW b \in Bridges
        PROVE  held'[b] # sweep[s].run /\ patch'[b].run # sweep[s].run
    BY <2>2, NoPatchFields, Zenon DEF TakesNothing
  <2> QED
    BY <2>1, <2>2, <2>5, <2>6, Zenon DEF Kept
<1>4. \A b \in Bridges : life'[b] \in {"up", "down", "stale"}
  BY Zenon DEF TakesNothing
<1> QED
  BY <1>1, <1>2, <1>3, <1>4, Zenon DEF HolderInv, HolderOwns, ReportOwns, DiscardIsLoose

(* In particular a step of the service that leaves the bridges alone.      *)
LEMMA Aside ==
  ASSUME TypeOK, HolderInv, UNCHANGED bridge,
         \A s \in Sweepers : sweep'[s] = sweep[s] \/ sweep'[s].job # "discard",
         \A r \in RunIds : StillBusy(r) => Kept(r)
  PROVE  HolderInv'
<1>1. ASSUME NEW b \in Bridges PROVE TakesNothing(b)
  <2>1. life[b] \in {"up", "down", "stale"}
    BY Zenon DEF HolderInv
  <2>2. patch[b] # NoPatch => life[b] \in {"up", "down"}
    BY Zenon DEF HolderInv, ReportOwns
  <2> QED
    BY <2>1, <2>2, Zenon DEF TakesNothing, bridge
<1> QED
  BY <1>1, Shrink, Zenon

(* The oldest run of a non-empty set of runs is one of them.               *)
LEMMA OldestIn ==
  ASSUME NEW S \in SUBSET RunIds, S # {}
  PROVE  Oldest(S) \in S
<1> DEFINE R == OpToRel(<, Nat)
<1>1. S \subseteq Nat
  BY Constants
<1>2. \E x \in S : \A y \in S : ~(<<y, x>> \in R)
  <2> HIDE DEF R
  <2>1. IsWellFoundedOn(R, Nat)
    BY NatLessThanWellFounded, Zenon DEF R
  <2> QED
    BY <1>1, <2>1, WFMin, Zenon
<1>3. \A x, y \in S : <<y, x>> \in R <=> y < x
  BY <1>1, Zenon DEF OpToRel
<1> HIDE DEF R
<1>4. PICK x \in S : \A y \in S : ~(<<y, x>> \in R)
  BY <1>2, Zenon
<1>5. \A y \in S : ~(y < x)
  BY <1>3, <1>4, Zenon
<1>6. \A y \in S : x <= y
  BY <1>1, <1>5
<1> QED
  BY <1>6, Zenon DEF Oldest

(* A row that is settled stays its claimer's.                              *)
LEMMA SettledKeeps ==
  ASSUME TypeOK, NEW r \in RunIds,
         \/ run'[r] = run[r]
         \/ \E x \in Terminal : run'[r] = [run[r] EXCEPT !.status = x, !.summary = TRUE]
  PROVE  Kept(r)
<1>1. run[r] \in Runs
  BY Zenon DEF TypeOK
<1>2. \A x \in Terminal : LET d == [run[r] EXCEPT !.status = x, !.summary = TRUE]
                          IN d.status = x /\ d.bridge = run[r].bridge
  BY <1>1, Zenon DEF Runs
<1> QED
  BY <1>2, Zenon DEF Kept

(* Requests: a send opens a run or joins a queued one; the others change   *)
(* no claimer, and only to a terminal status.                              *)
LEMMA RequestKeeps ==
  ASSUME TypeOK, HolderInv, ServiceStep
  PROVE  HolderInv'
<1> USE DEF TypeOK, Runs
<1>1. ASSUME NEW m \in Messages, Send(m), NEW r \in RunIds PROVE Kept(r)
  <2>1. \A S \in SUBSET RunIds : S # {} => Oldest(S) \in S
    BY OldestIn, Zenon
  <2>2. Mergeable(SenderOf[m]) # {} => Oldest(Mergeable(SenderOf[m])) \in Mergeable(SenderOf[m])
    BY <2>1, Zenon DEF Mergeable
  <2>3. {q \in RunIds : run[q].status = "none"} # {} =>
           Oldest({q \in RunIds : run[q].status = "none"}) \in {q \in RunIds : run[q].status = "none"}
    BY <2>1, Zenon
  <2> QED
    BY <1>1, <2>2, <2>3, Zenon DEF Send, Enqueued, Mergeable, Kept
<1>2. ASSUME UnsendWrite, NEW r \in RunIds PROVE Kept(r)
  <2>1. run[r] \in Runs
    BY Zenon
  <2> DEFINE cancelled(x) == [run[r] EXCEPT !.status = "cancelled", !.summary = TRUE, !.message = x]
             withdrawn(x) == [run[r] EXCEPT !.status = "cancelled", !.summary = TRUE,
                                            !.require = FALSE, !.message = x]
             unlinked(x) == [run[r] EXCEPT !.message = x]
  <2>2. \A x : cancelled(x).status = "cancelled" /\ cancelled(x).bridge = run[r].bridge
    BY <2>1, Zenon
  <2>3. \A x : withdrawn(x).status = "cancelled" /\ withdrawn(x).bridge = run[r].bridge
    BY <2>1, Zenon
  <2>4. \A x : unlinked(x).status = run[r].status /\ unlinked(x).bridge = run[r].bridge
    BY <2>1, Zenon
  <2>5. PICK x : run'[r] = cancelled(x) \/ run'[r] = withdrawn(x) \/ run'[r] = unlinked(x)
    BY <1>2, Zenon DEF UnsendWrite
  <2> HIDE DEF cancelled, withdrawn, unlinked
  <2>6. /\ run'[r].bridge = run[r].bridge
        /\ run'[r].status = "cancelled" \/ run'[r].status = run[r].status
    BY <2>2, <2>3, <2>4, <2>5
  <2> QED
    BY <2>6, Zenon DEF Kept
<1>3. ASSUME NEW peer, ClearConversation(peer), NEW r \in RunIds PROVE Kept(r)
  <2>1. run[r] \in Runs
    BY Zenon
  <2>2. \A x : LET d == [run[r] EXCEPT !.message = x, !.result = FALSE]
               IN d.status = run[r].status /\ d.bridge = run[r].bridge
    BY <2>1, Zenon
  <2>3. \/ run'[r] = run[r]
        \/ \E x : run'[r] = [run[r] EXCEPT !.message = x, !.result = FALSE]
    BY <1>3, Zenon DEF ClearConversation
  <2> QED
    BY <2>2, <2>3, Zenon DEF Kept
<1>4. ASSUME NEW q \in RunIds, Reply(q) \/ UnsendReply(q), NEW r \in RunIds PROVE Kept(r)
  <2>1. run[q] \in Runs
    BY Zenon
  <2>2. \A x : LET d == [run[q] EXCEPT !.result = TRUE, !.status = x]
               IN d.status = x /\ d.bridge = run[q].bridge
    BY <2>1, Zenon
  <2>3. CASE Reply(q)
    BY <2>2, <2>3 DEF Reply, Kept
  <2>4. CASE UnsendReply(q)
    BY <2>4 DEF UnsendReply, Kept
  <2> QED
    BY <1>4, <2>3, <2>4
<1>5. ASSUME NEW q \in RunIds, CancelQueued(q), NEW r \in RunIds PROVE Kept(r)
  BY <1>5, Zenon DEF CancelQueued, Kept
<1>6. ASSUME CloseWrite, NEW r \in RunIds PROVE Kept(r)
  BY <1>6 DEF CloseWrite, Kept
<1>a. ASSUME NEW d \in Elapse, InboxWrite(d), NEW r \in RunIds PROVE Kept(r)
  <2>1. run'[r] = run[r] \/ run'[r] = [run[r] EXCEPT !.status = "completed", !.summary = TRUE]
    <3>1. CASE \A m \in inbox : msg[m] = "stored"
      <4>1. run' = [q \in RunIds |->
                      IF run[q].message \in inbox /\ run[q].status \in Active
                      THEN [run[q] EXCEPT !.status = "completed", !.summary = TRUE]
                      ELSE run[q]]
        BY <1>a, <3>1, Zenon DEF InboxWrite
      <4> QED
        BY <4>1, Zenon
    <3>2. CASE ~\A m \in inbox : msg[m] = "stored"
      BY <1>a, <3>2, Zenon DEF InboxWrite
    <3> QED
      BY <3>1, <3>2, Zenon
  <2> QED
    BY <2>1, SettledKeeps, Zenon
<1>b. ASSUME NEW S, Stopped(S), NEW r \in RunIds PROVE Kept(r)
  <2>1. run'[r] = run[r] \/ run'[r] = [run[r] EXCEPT !.status = "cancelled", !.summary = TRUE]
    BY <1>b, Zenon DEF Stopped
  <2> QED
    BY <2>1, SettledKeeps, Zenon
<1>7. ASSUME UNCHANGED run, NEW r \in RunIds PROVE Kept(r)
  BY <1>7, Zenon DEF Kept
<1>8. UNCHANGED <<bridge, sweep>>
  BY Zenon DEF ServiceStep, Send, InboxRead, InboxWrite, MarkRead, MarkUnread, UnsendRead,
         UnsendWrite, ClearConversation, Reply, UnsendReply, CancelQueued, CloseRead,
         CloseWrite, StopBusy, StopRead, StopWrite, flight
<1>9. \A r \in RunIds : Kept(r)
  BY <1>1, <1>2, <1>3, <1>4, <1>5, <1>6, <1>7, <1>a, <1>b, Zenon
     DEF ServiceStep, InboxRead, MarkRead, MarkUnread, UnsendRead, CloseRead, StopBusy,
         StopRead, StopWrite, rows
<1> QED
  BY <1>8, <1>9, Aside, Zenon

(* A claim: nobody was busy with the queued run it takes, the run it heals *)
(* is failed, and the bridge had nothing in hand.                          *)
LEMMA ClaimKeeps ==
  ASSUME TypeOK, HolderInv, NEW b \in Bridges, NEW a, NEW fate \in Fates
  PROVE  /\ \A r \in RunIds, d \in Elapse : Claim(b, r, a, fate, d) => HolderInv'
         /\ ClaimNothing(b, a, fate) => HolderInv'
<1>1. ASSUME NEW q \in RunIds, run[q].status \notin {"none", "queued"}
      PROVE  /\ Cleared(a, fate)[q].bridge = run[q].bridge
             /\ Cleared(a, fate)[q].status \notin {"none", "queued"}
  <2>1. run[q] \in Runs
    BY Zenon DEF TypeOK
  <2>2. q \notin DOMAIN fate
    BY <1>1, Zenon DEF Fates, Claimable
  <2>3. LET d == [run[q] EXCEPT !.status = "failed", !.summary = TRUE]
        IN d.bridge = run[q].bridge /\ d.status = "failed"
    BY <2>1, Zenon DEF Runs
  <2> QED
    BY <1>1, <2>2, <2>3, Zenon DEF Cleared
<1>2. ASSUME Polling(b) PROVE life[b] = "up" /\ [life EXCEPT ![b] = "up"] = life
  BY <1>2, Zenon DEF Polling, HolderInv, TypeOK
<1>3. ASSUME ClaimNothing(b, a, fate) PROVE HolderInv'
  <2>1. \A r \in RunIds : Kept(r)
    BY <1>1, <1>3, Zenon DEF ClaimNothing, Kept
  <2>2. UNCHANGED <<bridge, sweep>>
    BY <1>2, <1>3, Zenon DEF ClaimNothing, bridge, flight
  <2> QED
    BY <2>1, <2>2, Aside, Zenon
<1>4. ASSUME NEW r \in RunIds, NEW d \in Elapse, Claim(b, r, a, fate, d) PROVE HolderInv'
  <2>1. /\ run[r].status = "queued" /\ run[r] \in Runs
        /\ held[b] = NoRun /\ patch[b] = NoPatch /\ life[b] = "up" /\ life' = life
        /\ held' = [held EXCEPT ![b] = r] /\ UNCHANGED <<patch, sweep>>
    BY <1>2, <1>4, Zenon DEF Claim, Claimable, Polling, flight, TypeOK
  <2>2. run'[r].bridge = b /\ run'[r].status = "claimed"
    BY <1>4, <2>1, Zenon DEF Claim, Cleared, Runs
  <2>3. ASSUME NEW q \in RunIds, q # r PROVE Kept(q)
    BY <1>1, <1>4, <2>3, Zenon DEF Claim, Cleared, Kept
  <2>4. HolderOwns'
    <3> SUFFICES ASSUME NEW c \in Bridges, held'[c] # NoRun
                 PROVE  /\ life'[c] = "up" /\ run'[held'[c]].bridge = c
                        /\ run'[held'[c]].status \notin {"none", "queued"}
      BY Zenon DEF HolderOwns
    <3>1. CASE c = b
      BY <2>1, <2>2, <3>1, Zenon DEF TypeOK
    <3>2. CASE c # b
      <4>1. held'[c] = held[c] /\ held[c] \in RunIds
        BY <2>1, <3>2, Zenon DEF TypeOK
      <4>2. /\ life[c] = "up" /\ run[held[c]].bridge = c
            /\ run[held[c]].status \notin {"none", "queued"}
        BY <4>1, Zenon DEF HolderInv, HolderOwns
      <4> QED
        BY <2>1, <2>3, <4>1, <4>2, Zenon DEF Kept
    <3> QED
      BY <3>1, <3>2, Zenon
  <2>5. ReportOwns'
    <3> SUFFICES ASSUME NEW c \in Bridges, patch[c] # NoPatch
                 PROVE  /\ life[c] \in {"up", "down"}
                        /\ patch[c].run # NoRun /\ patch[c].want # "none"
                        /\ run'[patch[c].run].bridge = c
                        /\ run'[patch[c].run].status \notin {"none", "queued"}
                        /\ held'[c] # NoRun => held'[c] = patch[c].run
      BY <2>1 DEF ReportOwns
    <3>1. /\ life[c] \in {"up", "down"} /\ patch[c].run # NoRun /\ patch[c].want # "none"
          /\ run[patch[c].run].bridge = c
          /\ run[patch[c].run].status \notin {"none", "queued"}
          /\ held[c] # NoRun => held[c] = patch[c].run
      BY Zenon DEF HolderInv, ReportOwns
    <3>2. patch[c].run \in RunIds /\ patch[c].run # r
      BY <2>1, <3>1, Zenon DEF TypeOK, Patches
    <3>3. held'[c] = held[c]
      BY <2>1, Zenon DEF TypeOK
    <3> QED
      BY <2>3, <3>1, <3>2, <3>3, Zenon DEF Kept
  <2>6. DiscardIsLoose'
    <3> SUFFICES ASSUME NEW s \in Sweepers, sweep[s].job = "discard"
                 PROVE  /\ sweep[s].run # NoRun
                        /\ run'[sweep[s].run].status \notin {"none", "queued"}
                        /\ \A c \in Bridges : held'[c] # sweep[s].run /\ patch[c].run # sweep[s].run
      BY <2>1, Zenon DEF DiscardIsLoose
    <3>1. /\ sweep[s].run # NoRun /\ run[sweep[s].run].status \notin {"none", "queued"}
          /\ \A c \in Bridges : held[c] # sweep[s].run /\ patch[c].run # sweep[s].run
      BY Zenon DEF HolderInv, DiscardIsLoose
    <3>2. sweep[s].run \in RunIds /\ sweep[s].run # r
      BY <2>1, <3>1, NoSweepFields, Zenon DEF TypeOK, Sweeps
    <3> QED
      BY <2>1, <2>3, <3>1, <3>2, Zenon DEF Kept, TypeOK
  <2> QED
    BY <2>1, <2>4, <2>5, <2>6, Zenon DEF HolderInv
<1> QED
  BY <1>3, <1>4, Zenon

(* Reports.  The one report that queues a run again, the hand-back, is the *)
(* holder's own and lets go of the run.                                    *)
LEMMA ReportKeeps ==
  ASSUME TypeOK, HolderInv, NEW b \in Bridges
  PROVE  /\ Hand(b) => HolderInv'
         /\ \A want \in Statuses : PatchRead(b, want) => HolderInv'
         /\ PatchWrite(b) => HolderInv'
         /\ PatchLost(b) => HolderInv'
<1>k. ASSUME UNCHANGED run PROVE \A r \in RunIds : Kept(r)
  BY <1>k, Zenon DEF Kept
<1>l. \A c \in Bridges : /\ life[c] \in {"up", "down", "stale"}
                         /\ patch[c] # NoPatch => life[c] \in {"up", "down"}
  BY Zenon DEF HolderInv, ReportOwns
<1>1. ASSUME Hand(b) PROVE HolderInv'
  <2>1. UNCHANGED <<run, life, held, patch, sweep>>
    BY <1>1, Zenon DEF Hand, rows, flight
  <2>2. \A c \in Bridges : TakesNothing(c)
    BY <1>l, <2>1, Zenon DEF TakesNothing
  <2> QED
    BY <1>k, <2>1, <2>2, Shrink, Zenon
<1>2. ASSUME NEW want \in Statuses, PatchRead(b, want) PROVE HolderInv'
  <2> DEFINE p == [run |-> held[b], want |-> want, seen |-> run[held[b]].status]
  <2>1. /\ held[b] # NoRun /\ life[b] = "up" /\ want # "none"
        /\ patch' = [patch EXCEPT ![b] = p] /\ UNCHANGED <<run, life, held, sweep>>
    BY <1>2, Constants, Zenon DEF PatchRead, Reports, rows, flight, HolderInv
  <2>2. patch'[b] = p /\ \A c \in Bridges \ {b} : patch'[c] = patch[c]
    BY <2>1, Zenon DEF TypeOK
  <2>3. HolderOwns'
    BY <2>1, Zenon DEF HolderInv, HolderOwns
  <2>4. ReportOwns'
    BY <2>1, <2>2 DEF HolderInv, HolderOwns, ReportOwns
  <2>5. DiscardIsLoose'
    BY <2>1, <2>2 DEF HolderInv, DiscardIsLoose
  <2> QED
    BY <1>l, <2>1, <2>3, <2>4, <2>5, Zenon DEF HolderInv
<1>3. ASSUME PatchWrite(b) PROVE HolderInv'
  <2> DEFINE p == patch[b]
  <2>1. /\ p # NoPatch /\ p.run \in RunIds /\ p.want \in Statuses /\ p.want # "none"
        /\ run[p.run].bridge = b /\ run[p.run].status \notin {"none", "queued"}
        /\ held[b] # NoRun => held[b] = p.run
    BY <1>3 DEF PatchWrite, HolderInv, ReportOwns, TypeOK, Patches
  <2>2. /\ UNCHANGED <<life, sweep>> /\ patch' = [patch EXCEPT ![b] = NoPatch]
        /\ \/ p.want = "running" /\ held' = held
           \/ p.want # "running" /\ held' = [held EXCEPT ![b] = NoRun]
    BY <1>3, Zenon DEF PatchWrite, Answered, flight
  <2>3. \A c \in Bridges : TakesNothing(c)
    BY <1>l, <2>2, Zenon DEF TakesNothing, TypeOK
  <2>4. ASSUME NEW r \in RunIds, StillBusy(r) PROVE Kept(r)
    <3>1. CASE r # p.run
      BY <1>3, <3>1, Zenon DEF PatchWrite, Kept, TypeOK
    <3>2. CASE r = p.run /\ p.want # "queued"
      <4>1. run'[r].bridge = run[r].bridge /\ run'[r].status = Effective(p)
        BY <1>3, <3>2 DEF PatchWrite, TypeOK, Runs
      <4>2. Effective(p) \notin {"none", "queued"}
        BY <2>1, <3>2, Zenon DEF Effective
      <4> QED
        BY <4>1, <4>2, Zenon DEF Kept
    <3>3. CASE r = p.run /\ p.want = "queued"
      <4>1. \A s \in Sweepers : sweep'[s].job = "discard" => sweep'[s].run # r
        BY <2>2, <3>3, Zenon DEF HolderInv, DiscardIsLoose
      <4>2. ASSUME NEW c \in Bridges PROVE held'[c] # r
        <5>1. CASE c = b
          BY <2>1, <2>2, <3>3, <5>1 DEF TypeOK
        <5>2. CASE c # b
          BY <2>1, <2>2, <3>3, <5>2 DEF HolderInv, HolderOwns, TypeOK
        <5> QED
          BY <5>1, <5>2, Zenon
      <4>3. ASSUME NEW c \in Bridges PROVE patch'[c].run # r
        <5>1. CASE c = b
          BY <2>1, <2>2, <3>3, <5>1, NoPatchFields DEF TypeOK
        <5>2. CASE c # b
          BY <2>1, <2>2, <3>3, <5>2, NoPatchFields DEF HolderInv, ReportOwns, TypeOK
        <5> QED
          BY <5>1, <5>2, Zenon
      <4> QED
        BY <2>4, <4>1, <4>2, <4>3, Zenon DEF StillBusy
    <3> QED
      BY <3>1, <3>2, <3>3, Zenon
  <2> QED
    BY <2>2, <2>3, <2>4, Shrink, Zenon
<1>4. ASSUME PatchLost(b) PROVE HolderInv'
  <2>1. UNCHANGED <<run, life, patch, sweep>> /\ held' = [held EXCEPT ![b] = NoRun]
    BY <1>4, Zenon DEF PatchLost, rows, flight
  <2>2. \A c \in Bridges : TakesNothing(c)
    BY <1>l, <2>1, Zenon DEF TakesNothing, TypeOK
  <2> QED
    BY <1>k, <2>1, <2>2, Shrink, Zenon
<1> QED
  BY <1>1, <1>2, <1>3, <1>4, Zenon

(* The bridge's process: a dead one holds nothing, and its window passes   *)
(* after its last report.                                                  *)
LEMMA ProcessKeeps ==
  ASSUME TypeOK, HolderInv, Misjudge = {}, NEW b \in Bridges
  PROVE  /\ Crash(b) => HolderInv'
         /\ Lapse(b) => HolderInv'
         /\ Restart(b) => HolderInv'
         /\ Wake(b) => HolderInv'
         /\ Sleep(b) => HolderInv'
         /\ Supersede(b) => HolderInv'
<1>k. ASSUME UNCHANGED run PROVE \A r \in RunIds : Kept(r)
  BY <1>k, Zenon DEF Kept
<1>l. \A c \in Bridges : /\ life[c] \in {"up", "down", "stale"}
                         /\ patch[c] # NoPatch => life[c] \in {"up", "down"}
                         /\ held[c] # NoRun => life[c] = "up"
  BY Zenon DEF HolderInv, ReportOwns, HolderOwns
<1>1. ASSUME Crash(b) PROVE HolderInv'
  <2>1. /\ UNCHANGED <<run, patch, sweep>> /\ held' = [held EXCEPT ![b] = NoRun]
        /\ life' = [life EXCEPT ![b] = "down"]
    BY <1>1, Zenon DEF Crash, Dropped, rows, flight
  <2>2. \A c \in Bridges : TakesNothing(c)
    BY <1>l, <2>1, Zenon DEF TakesNothing, TypeOK
  <2> QED
    BY <1>k, <2>1, <2>2, Shrink, Zenon
<1>2. ASSUME Lapse(b) \/ Restart(b) PROVE HolderInv'
  <2>1. /\ UNCHANGED <<run, held, patch, sweep>> /\ life[b] # "up" /\ patch[b] = NoPatch
        /\ \/ life' = [life EXCEPT ![b] = "stale"]
           \/ life' = [life EXCEPT ![b] = "up"]
    BY <1>2, Zenon DEF Lapse, Restart, rows, flight
  <2>2. \A c \in Bridges : TakesNothing(c)
    BY <1>l, <2>1 DEF TakesNothing, TypeOK
  <2> QED
    BY <1>k, <2>1, <2>2, Shrink, Zenon
<1>3. ~Wake(b) /\ ~Sleep(b) /\ ~Supersede(b)
  BY <1>l, Zenon DEF Wake, Sleep, Supersede
<1> QED
  BY <1>1, <1>2, <1>3, Zenon

(* Recoveries.  A discard is selected when the claimer is stale, so nobody *)
(* works on the run then; until the only sweeper writes, nobody can start  *)
(* to.  A requeue checks the claim and its claimer again as it writes.     *)
LEMMA SweepKeeps ==
  ASSUME TypeOK, HolderInv, Single, NEW s \in Sweepers, SweepStep(s)
  PROVE  HolderInv'
<1>l. /\ \A c \in Bridges : life[c] \in {"up", "down", "stale"}
      /\ \A c \in Bridges, r \in RunIds :
           held[c] = r => life[c] = "up" /\ run[r].bridge = c
      /\ \A c \in Bridges, r \in RunIds :
           patch[c].run = r => life[c] \in {"up", "down"} /\ run[r].bridge = c
  <2>1. \A c \in Bridges : life[c] \in {"up", "down", "stale"}
    BY Zenon DEF HolderInv
  <2>2. \A c \in Bridges, r \in RunIds : held[c] = r => life[c] = "up" /\ run[r].bridge = c
    BY Constants DEF HolderInv, HolderOwns
  <2>3. \A c \in Bridges, r \in RunIds : patch[c].run = r => life[c] \in {"up", "down"} /\ run[r].bridge = c
    BY NoPatchFields, Constants DEF HolderInv, ReportOwns
  <2> QED
    BY <2>1, <2>2, <2>3, Zenon
<1>1. ASSUME NEW job \in Jobs, NEW r \in RunIds, SweepSelect(s, job, r) PROVE HolderInv'
  <2>1. /\ UNCHANGED <<run, life, held, patch>> /\ UNCHANGED bridge
        /\ sweep' = [sweep EXCEPT ![s] = [job |-> job, run |-> r, seen |-> run[r].status,
              bridge |-> run[r].bridge, claimedAt |-> run[r].claimedAt]]
        /\ Selects(job, r)
    BY <1>1, Zenon DEF SweepSelect, rows, bridge
  <2>2. \A q \in RunIds : Kept(q)
    BY <2>1, Zenon DEF Kept
  <2>3. CASE job # "discard"
    <3>1. \A t \in Sweepers : sweep'[t] = sweep[t] \/ sweep'[t].job # "discard"
      BY <2>1, <2>3, Zenon DEF TypeOK
    <3> QED
      BY <2>1, <2>2, <3>1, Aside, Zenon
  <2>4. CASE job = "discard"
    <3>1. /\ run[r].status \in Active /\ run[r].bridge \in Bridges
          /\ life[run[r].bridge] \in {"stale", "lapsed"}
      BY <2>1, <2>4, Constants DEF Selects, Unclaimable, Unfresh, Single, TypeOK, Runs
    <3>2. \A c \in Bridges : held[c] # r /\ patch[c].run # r
      BY <1>l, <3>1
    <3>3. sweep'[s].run = r /\ \A t \in Sweepers : t = s
      BY <2>1, Zenon DEF Single, TypeOK
    <3>4. DiscardIsLoose'
      <4> SUFFICES ASSUME NEW t \in Sweepers
                   PROVE  /\ sweep'[t].run # NoRun /\ run'[sweep'[t].run].status \notin {"none", "queued"}
                          /\ \A c \in Bridges : held'[c] # sweep'[t].run /\ patch'[c].run # sweep'[t].run
        BY Zenon DEF DiscardIsLoose
      <4>1. sweep'[t].run = r /\ r # NoRun
        BY <3>3, Constants
      <4> QED
        BY <2>1, <3>1, <3>2, <4>1, Zenon
    <3> QED
      BY <2>1, <3>4, Zenon DEF HolderInv, HolderOwns, ReportOwns
  <2> QED
    BY <2>3, <2>4, Zenon
<1>2. ASSUME SweepWrite(s) PROVE HolderInv'
  <2> DEFINE w == sweep[s]
  <2>1. /\ UNCHANGED bridge /\ Swept(w) /\ sweep' = [sweep EXCEPT ![s] = NoSweep]
        /\ w \in Sweeps /\ w # NoSweep
    BY <1>2, Zenon DEF SweepWrite, TypeOK
  <2>2. w.run \in RunIds /\ w.job \in Jobs
    BY <2>1, Zenon DEF Sweeps
  <2>3. \A t \in Sweepers : sweep'[t].job # "discard"
    BY <2>1, NoSweepFields, Zenon DEF Single, TypeOK
  <2>4. ASSUME NEW q \in RunIds,
               \/ UNCHANGED run
               \/ \E as \in {"failed", "completed"}, text \in BOOLEAN : Settle(w.run, as, text)
        PROVE  Kept(q)
    <3>1. run[w.run] \in Runs
      BY <2>2, Zenon DEF TypeOK
    <3>2. \A x, y : LET d == [run[w.run] EXCEPT !.status = x, !.summary = y]
                    IN d.status = x /\ d.bridge = run[w.run].bridge
      BY <3>1, Zenon DEF Runs
    <3>3. ASSUME NEW as \in {"failed", "completed"}, NEW text \in BOOLEAN, Settle(w.run, as, text)
          PROVE  Kept(q)
      <4>1. CASE q # w.run
        BY <3>3, <4>1, Zenon DEF Settle, Kept, TypeOK
      <4>2. CASE q = w.run
        <5>1. \E y : run'[w.run] = [run[w.run] EXCEPT !.status = as, !.summary = y]
          BY <2>2, <3>3, Zenon DEF Settle, TypeOK
        <5>2. run'[w.run].status = as /\ run'[w.run].bridge = run[w.run].bridge
          BY <3>2, <5>1
        <5> QED
          BY <4>2, <5>2, Zenon DEF Kept
      <4> QED
        BY <4>1, <4>2, Zenon
    <3> QED
      BY <2>4, <3>3, Zenon DEF Kept
  <2>5. ASSUME NEW q \in RunIds, StillBusy(q), Requeue(w.run),
               \A b \in Bridges : held[b] # w.run /\ patch[b].run # w.run
        PROVE  Kept(q)
    <3>1. q # w.run
      BY <2>1, <2>3, <2>5, Zenon DEF StillBusy, bridge
    <3> QED
      BY <2>5, <3>1, Zenon DEF Requeue, Kept, TypeOK
  <2>6. ASSUME NEW q \in RunIds, StillBusy(q) PROVE Kept(q)
    <3>1. CASE w.job = "discard"
      <4>1. \A b \in Bridges : held[b] # w.run /\ patch[b].run # w.run
        BY <3>1, Zenon DEF HolderInv, DiscardIsLoose
      <4>2. CASE run' = [run EXCEPT ![w.run].requeues = @ + 1]
        BY <2>2, <4>2 DEF Kept, TypeOK, Runs
      <4> QED
        BY <2>1, <2>4, <2>5, <2>6, <3>1, <4>1, <4>2, Zenon DEF Swept, Discard
    <3>2. CASE w.job = "requeue"
      <4>1. CASE UNCHANGED run
        BY <2>4, <4>1, Zenon
      <4>2. CASE /\ run[w.run].bridge = w.bridge /\ Unfresh(w.bridge) /\ Requeue(w.run)
        <5>1. \A b \in Bridges : held[b] # w.run /\ patch[b].run # w.run
          BY <1>l, <2>2, <4>2, Constants DEF Unfresh
        <5> QED
          BY <2>5, <2>6, <4>2, <5>1, Zenon
      <4> QED
        BY <2>1, <3>2, <4>1, <4>2, Zenon DEF Swept, RequeueClaim
    <3>3. CASE w.job \notin {"discard", "requeue"}
      BY <2>1, <2>2, <2>4, <3>3, Zenon DEF Swept, SettleIf
    <3> QED
      BY <3>1, <3>2, <3>3, Zenon
  <2> QED
    BY <2>1, <2>3, <2>6, Aside, Zenon
<1> QED
  BY <1>1, <1>2, Zenon DEF SweepStep

(* No bridge holds a run at first.                                         *)
LEMMA HolderInit == Init => HolderInv
BY NoPatchFields, NoSweepFields
   DEF Init, HolderInv, HolderOwns, ReportOwns, DiscardIsLoose, NoPatch

(* Every step keeps HolderInv.                                             *)
LEMMA HolderStep ==
  ASSUME TypeOK, HolderInv, Single, [Next]_vars
  PROVE  HolderInv'
<1>1. CASE ServiceStep
  BY <1>1, RequestKeeps, Zenon
<1>2. ASSUME NEW b \in Bridges, BridgeStep(b) PROVE HolderInv'
  <2>1. ~Revive(b)
    BY Zenon DEF Revive, HolderInv
  <2> QED
    BY <1>2, <2>1, ClaimKeeps, ReportKeeps, ProcessKeeps, Zenon DEF BridgeStep, Single
<1>3. ASSUME NEW s \in Sweepers, SweepStep(s) PROVE HolderInv'
  BY <1>3, SweepKeeps, Zenon
<1>4. CASE UNCHANGED vars
  <2>1. UNCHANGED bridge /\ UNCHANGED <<run, sweep>>
    BY <1>4, Zenon DEF vars, bridge
  <2> QED
    BY <2>1, Aside, Zenon DEF Kept
<1> QED
  BY <1>1, <1>2, <1>3, <1>4, Zenon DEF Next

(* As long as only dead bridges are judged gone and recoveries do not      *)
(* overlap, the run a bridge works on or reports on is recorded as its own *)
(* and is out of the queue, whatever is sent, claimed, reported, crashed   *)
(* and recovered in the meantime.                                          *)
THEOREM Holding ==
  ASSUME Single
  PROVE  Spec => []HolderInv
<1>1. TypeOK /\ HolderInv /\ [Next]_vars => HolderInv'
  BY HolderStep, Zenon
<1> QED
  BY <1>1, HolderInit, Typing, PTL DEF Spec

(* So no run is ever in the hands of two bridges: a claim, an auto-heal, a *)
(* requeue, a report or a restart never gives a second bridge the run a    *)
(* first one is still delivering.                                          *)
THEOREM OneHolderAlways ==
  ASSUME Single
  PROVE  Spec => []OneHolder
<1>1. HolderInv => OneHolder
  BY DEF HolderInv, HolderOwns, OneHolder
<1> QED
  BY <1>1, Holding, PTL

(* The run a live bridge is delivering goes back to the queue only by that *)
(* bridge's own hand-back: of the steps that make it let go, the report is *)
(* the one that changes the row.                                           *)
THEOREM FreshClaimAlways ==
  ASSUME Single
  PROVE  Spec => FreshClaimIsLeft
<1> DEFINE Left == \A r \in RunIds, b \in Bridges :
       /\ run[r].status = "claimed" /\ held[b] = r /\ life[b] = "up"
       /\ run'[r].status = "queued"
       => patch[b].run = r /\ patch[b].want = "queued"
<1>1. ASSUME TypeOK, HolderInv, HolderInv', [Next]_vars PROVE Left
  <2> SUFFICES ASSUME NEW r \in RunIds, NEW b \in Bridges,
                      run[r].status = "claimed", held[b] = r, run'[r].status = "queued"
               PROVE  patch[b].run = r /\ patch[b].want = "queued"
    BY Zenon
  <2>1. held'[b] # held[b]
    BY <1>1 DEF HolderInv, HolderOwns
  <2>2. ~ServiceStep /\ ~UNCHANGED vars
    BY <2>1, Zenon DEF ServiceStep, Send, InboxRead, InboxWrite, MarkRead, MarkUnread, UnsendRead,
                UnsendWrite, ClearConversation, Reply, UnsendReply, CancelQueued, CloseRead,
                CloseWrite, StopBusy, StopRead, StopWrite, bridge, vars
  <2>3. \A s \in Sweepers : ~SweepStep(s)
    BY <2>1, Zenon DEF SweepStep, SweepSelect, SweepWrite, bridge
  <2>4. ASSUME NEW c \in Bridges, BridgeStep(c) PROVE PatchWrite(b)
    <3>1. \A q, a, fate, d : ~Claim(c, q, a, fate, d)
      BY <1>1, <2>1 DEF Claim, Polling, TypeOK
    <3>2. ~Revive(c) /\ \A a, fate : ~ClaimNothing(c, a, fate)
      BY <2>1, Zenon DEF Revive, ClaimNothing
    <3>3. ~Hand(c) /\ (\A want : ~PatchRead(c, want)) /\ ~PatchLost(c) /\ ~Crash(c)
      BY <2>1, Zenon DEF Hand, PatchRead, PatchLost, Crash, rows
    <3>4. ~Lapse(c) /\ ~Restart(c) /\ ~Wake(c) /\ ~Sleep(c) /\ ~Supersede(c)
      BY <2>1, Zenon DEF Lapse, Restart, Wake, Sleep, Supersede
    <3>5. PatchWrite(c)
      BY <2>4, <3>1, <3>2, <3>3, <3>4, Zenon DEF BridgeStep
    <3>6. c = b
      BY <1>1, <2>1, <3>5 DEF PatchWrite, Answered, TypeOK
    <3> QED
      BY <3>5, <3>6, Zenon
  <2>5. PatchWrite(b)
    BY <1>1, <2>2, <2>3, <2>4, Zenon DEF Next
  <2>6. patch[b].run = r
    BY <1>1, <2>5 DEF PatchWrite, HolderInv, ReportOwns
  <2>7. run'[r].status = Effective(patch[b])
    BY <1>1, <2>5, <2>6 DEF PatchWrite, TypeOK, Runs
  <2> QED
    BY <2>6, <2>7, Zenon DEF Effective
<1>2. TypeOK /\ HolderInv /\ HolderInv' /\ [Next]_vars => [Left]_vars
  BY <1>1, Zenon
<1> QED
  BY <1>2, Holding, Typing, PTL DEF Spec, FreshClaimIsLeft
=============================================================================
