--------------------------- MODULE SendingProofs ---------------------------
(***************************************************************************)
(* Sending for any buffer size and any number of messages.                 *)
(***************************************************************************)
EXTENDS Sending, FiniteSetTheorems, SequenceTheorems, WellFoundedInduction, TLAPS

(* What holds of a list of work beside the properties: it carries stored   *)
(* messages only, and what the replay read are channel posts.              *)
WorkCarriesStored == \A w \in 1 .. Len(work) : work[w].items \subseteq 1 .. Len(mail)
ReplayReadPosts ==
    late.job = "replay" => \A k \in late.ids : k \in 1 .. Len(mail) /\ mail[k].source = "channel"
RowsOK ==
    /\ mail \in Seq(MailRow) /\ Len(mail) <= MaxMail /\ work \in Seq(WorkRow)
    /\ late \in [job : {"none", "replay", "reroute"}, ids : SUBSET Nat]

SendInv == RowsOK /\ WorkCarriesStored /\ ReplayReadPosts /\ SentOnce /\ NoLostWake /\ BufferBound

(* ws2 is ws with message k carried once more, or not at all when told.    *)
Extends(ws, ws2, k, told) ==
    /\ ws2 \in Seq(WorkRow) /\ Len(ws) <= Len(ws2)
    /\ \A w \in 1 .. Len(ws) : ws[w].items \subseteq ws2[w].items /\ ws2[w].items \subseteq ws[w].items \cup {k}
    /\ \A w \in Len(ws) + 1 .. Len(ws2) : ws2[w].items \subseteq {k}
    /\ \A v, w \in 1 .. Len(ws2) : (k \in ws2[v].items /\ k \in ws2[w].items) => v = w
    /\ told \/ \E w \in 1 .. Len(ws2) : k \in ws2[w].items
    /\ \A w \in 1 .. Len(ws2) : ws2[w].kind = "run" => Cardinality(ws2[w].items) <= BufferCap

(* Same carriers: only states and modes differ.                            *)
Alike(ws, ws2) ==
    /\ ws2 \in Seq(WorkRow) /\ Len(ws2) = Len(ws)
    /\ \A w \in 1 .. Len(ws) : ws2[w].items = ws[w].items /\ ws2[w].kind = ws[w].kind

(* A list of work a send may start from.                                   *)
Ready(ws, k) ==
    /\ ws \in Seq(WorkRow) /\ k \in 1 .. MaxMail
    /\ \A w \in 1 .. Len(ws) : k \notin ws[w].items
    /\ \A w \in 1 .. Len(ws) : ws[w].kind = "run" => Cardinality(ws[w].items) <= BufferCap

LEMMA AlikeExtends ==
    ASSUME NEW ws, NEW ws1, NEW ws2, NEW k, NEW told, ws \in Seq(WorkRow),
           Extends(ws, ws1, k, told), Alike(ws1, ws2)
    PROVE  Extends(ws, ws2, k, told)
<1>1. ws1 \in Seq(WorkRow) /\ ws2 \in Seq(WorkRow) /\ Len(ws2) = Len(ws1) /\ Len(ws) <= Len(ws1)
  BY DEF Extends, Alike
<1>2. Len(ws) \in Nat /\ Len(ws1) \in Nat
  BY <1>1
<1>3. \A w \in 1 .. Len(ws1) : ws2[w].items = ws1[w].items /\ ws2[w].kind = ws1[w].kind
  BY DEF Alike
<1>4. \A w \in 1 .. Len(ws) : ws[w].items \subseteq ws2[w].items /\ ws2[w].items \subseteq ws[w].items \cup {k}
  BY <1>1, <1>2, <1>3 DEF Extends
<1>5. \A w \in Len(ws) + 1 .. Len(ws2) : ws2[w].items \subseteq {k}
  BY <1>1, <1>2, <1>3 DEF Extends
<1>6. told \/ \E w \in 1 .. Len(ws2) : k \in ws2[w].items
  BY <1>1, <1>3 DEF Extends
<1> QED
  BY <1>1, <1>3, <1>4, <1>5, <1>6 DEF Extends

LEMMA ExtendsAlike ==
    ASSUME NEW ws, NEW ws1, NEW ws2, NEW k, NEW told, ws1 \in Seq(WorkRow),
           Alike(ws, ws1), Extends(ws1, ws2, k, told)
    PROVE  Extends(ws, ws2, k, told)
BY DEF Extends, Alike

(* A message that is told stays out of the work.                           *)
LEMMA ToldExtends ==
    ASSUME NEW ws, NEW k, Ready(ws, k)
    PROVE  Extends(ws, ws, k, TRUE)
BY DEF Extends, Ready

(* A row made for a message.                                               *)
LEMMA WorkTyped ==
    ASSUME NEW k \in 1 .. MaxMail, NEW kind \in {"run", "steer", "typed"},
           NEW st \in {"queued", "running", "delivered", "done"}, NEW mode \in {"managed", "channel", "resident"}
    PROVE  /\ Work(kind, st, mode, k) \in WorkRow
           /\ Work(kind, st, mode, k).items = {k}
           /\ Work(kind, st, mode, k).kind = kind
           /\ Work(kind, st, mode, k).st = st
BY DEF Work, WorkRow

(* A row of its own carries the message once.                              *)
LEMMA AppendExtends ==
    ASSUME NEW ws, NEW k, Ready(ws, k), NEW kind \in {"run", "steer", "typed"},
           NEW st \in {"queued", "running", "delivered", "done"}, NEW told
    PROVE  Extends(ws, Append(ws, Work(kind, st, "managed", k)), k, told)
<1> DEFINE row == Work(kind, st, "managed", k)
           ws2 == Append(ws, row)
<1>1. row \in WorkRow /\ row.items = {k}
  BY WorkTyped DEF Ready
<1>2. ws \in Seq(WorkRow) /\ Len(ws) \in Nat
  BY DEF Ready
<1> HIDE DEF row
<1>3. /\ ws2 \in Seq(WorkRow) /\ Len(ws2) = Len(ws) + 1
      /\ ws2[Len(ws) + 1] = row
      /\ \A w \in 1 .. Len(ws) : ws2[w] = ws[w]
  BY <1>1, <1>2
<1>4. Cardinality(row.items) = 1
  BY <1>1, FS_Singleton
<1> HIDE DEF ws2
<1>5. \A w \in 1 .. Len(ws2) : w = Len(ws) + 1 \/ w \in 1 .. Len(ws)
  BY <1>2, <1>3
<1>6. \A w \in 1 .. Len(ws2) : k \in ws2[w].items => w = Len(ws) + 1
  BY <1>3, <1>5 DEF Ready
<1>7. \A w \in 1 .. Len(ws2) : ws2[w].kind = "run" => Cardinality(ws2[w].items) <= BufferCap
  BY <1>3, <1>4, <1>5, SendingAssumption DEF Ready
<1>8. Len(ws) + 1 \in 1 .. Len(ws2) /\ k \in ws2[Len(ws) + 1].items
  BY <1>1, <1>2, <1>3
<1>9. \A w \in Len(ws) + 1 .. Len(ws2) : ws2[w].items \subseteq {k}
  BY <1>1, <1>2, <1>3
<1>10. \A w \in 1 .. Len(ws) : ws[w].items \subseteq ws2[w].items /\ ws2[w].items \subseteq ws[w].items \cup {k}
  BY <1>3
<1>11. Len(ws) <= Len(ws2)
  BY <1>2, <1>3
<1>12. Extends(ws, ws2, k, told)
  BY <1>3, <1>6, <1>7, <1>8, <1>9, <1>10, <1>11 DEF Extends
<1> QED
  BY <1>12 DEF ws2, row

(* A set of natural numbers that is not empty has a least one.             *)
LEMMA LeastNatural ==
    ASSUME NEW T, T \subseteq Nat, T # {}
    PROVE  \E m \in T : \A n \in T : m <= n
<1> DEFINE R == {ss \in Nat \X Nat : ss[1] < ss[2]}
<1>1. IsWellFoundedOn(R, Nat)
  BY NatLessThanWellFounded DEF OpToRel
<1> HIDE DEF R
<1>2. \E m \in T : \A n \in T : ~(<<n, m>> \in R)
  BY <1>1, WFMin
<1>3. \A m, n \in T : ~(<<n, m>> \in R) => m <= n
  BY DEF R
<1> QED
  BY <1>2, <1>3

(* The run merged into is one of the queued ones.                          *)
LEMMA MergeableIsQueued ==
    ASSUME NEW ws \in Seq(WorkRow), _find_mergeable_queued_run(ws) # 0
    PROVE  _find_mergeable_queued_run(ws) \in 1 .. Len(ws) /\ ws[_find_mergeable_queued_run(ws)].st = "queued"
<1> DEFINE queued == Held(ws, {"queued"})
<1>1. queued # {} /\ queued \subseteq Nat
  BY DEF _find_mergeable_queued_run, Held
<1>2. \E w \in queued : \A v \in queued : w <= v
  BY <1>1, LeastNatural
<1>3. _find_mergeable_queued_run(ws) \in queued
  BY <1>1, <1>2 DEF _find_mergeable_queued_run
<1> QED
  BY <1>3 DEF Held

(* One more line in a row, or the row as it was because it is full.        *)
LEMMA AppendBody ==
    ASSUME NEW row \in WorkRow, NEW k \in 1 .. MaxMail, k \notin row.items,
           row.kind = "run" => Cardinality(row.items) <= BufferCap
    PROVE  LET new == _append_pending_dispatch_body(row, k)
           IN  /\ new \in WorkRow /\ new.kind = row.kind /\ new.st = row.st
               /\ new.kind = "run" => Cardinality(new.items) <= BufferCap
               /\ new = row \/ new.items = row.items \cup {k}
<1>1. CASE Cardinality(row.items) >= BufferCap
  BY <1>1 DEF _append_pending_dispatch_body
<1>2. CASE ~(Cardinality(row.items) >= BufferCap)
  <2> DEFINE new == [row EXCEPT !.items = @ \cup {k}]
  <2>1. new \in WorkRow /\ new.kind = row.kind /\ new.st = row.st /\ new.items = row.items \cup {k}
    BY DEF WorkRow
  <2>2. row.items \subseteq 1 .. MaxMail
    BY DEF WorkRow
  <2>3. IsFiniteSet(1 .. MaxMail)
    BY SendingAssumption, FS_Interval
  <2>4. IsFiniteSet(row.items)
    BY <2>2, <2>3, FS_Subset
  <2>5. Cardinality(row.items \cup {k}) = Cardinality(row.items) + 1 /\ Cardinality(row.items) \in Nat
    BY <2>4, FS_AddElement, FS_CardinalityType
  <2>6. Cardinality(new.items) <= BufferCap
    BY <1>2, <2>1, <2>5, SendingAssumption
  <2>7. _append_pending_dispatch_body(row, k) = new
    BY <1>2 DEF _append_pending_dispatch_body
  <2> HIDE DEF new
  <2> QED
    BY <2>1, <2>6, <2>7
<1> QED
  BY <1>1, <1>2

(* A merge that changes the list carries the message once.                 *)
LEMMA MergeExtends ==
    ASSUME NEW ws, NEW k, Ready(ws, k), NEW w0 \in 1 .. Len(ws), NEW row \in WorkRow,
           row.kind = ws[w0].kind, row.kind = "run" => Cardinality(row.items) <= BufferCap,
           row.items = ws[w0].items \cup {k}, NEW told
    PROVE  Extends(ws, [ws EXCEPT ![w0] = row], k, told)
<1> DEFINE ws2 == [ws EXCEPT ![w0] = row]
<1>1. ws \in Seq(WorkRow) /\ Len(ws) \in Nat
  BY DEF Ready
<1>2. /\ ws2 \in Seq(WorkRow) /\ Len(ws2) = Len(ws) /\ ws2[w0] = row
      /\ \A w \in 1 .. Len(ws) : w # w0 => ws2[w] = ws[w]
  BY <1>1
<1> HIDE DEF ws2
<1>3. \A w \in 1 .. Len(ws) : ws[w].items \subseteq ws2[w].items /\ ws2[w].items \subseteq ws[w].items \cup {k}
  BY <1>2
<1>4. \A w \in 1 .. Len(ws2) : k \in ws2[w].items => w = w0
  BY <1>2 DEF Ready
<1>5. \A w \in 1 .. Len(ws2) : ws2[w].kind = "run" => Cardinality(ws2[w].items) <= BufferCap
  BY <1>2 DEF Ready
<1>6. w0 \in 1 .. Len(ws2) /\ k \in ws2[w0].items
  BY <1>2
<1>7. Len(ws) <= Len(ws2) /\ Len(ws) + 1 .. Len(ws2) = {}
  BY <1>1, <1>2
<1>8. Extends(ws, ws2, k, told)
  BY <1>2, <1>3, <1>4, <1>5, <1>6, <1>7 DEF Extends
<1> QED
  BY <1>8 DEF ws2

(* What a send makes of a message: it is carried once more, or refused     *)
(* because the run it would join is full.                                  *)
LEMMA CreateExtends ==
    ASSUME NEW ws, NEW k, Ready(ws, k), NEW steer, NEW merge, NEW act, act \in Active(ws) \/ act = 0,
           NEW b, b = _create_dispatch_runs(ws, k, steer, merge, act)
    PROVE  /\ Extends(ws, b.work, k, b.told)
           /\ b.told \in BOOLEAN
           /\ ~b.told => b.run \in 1 .. Len(b.work)
<1> DEFINE into == _find_mergeable_queued_run(ws)
           viaClaim == tgt.rt = "hermes" /\ ws[act].mode \in {"channel", "resident"}
           merged == [ws EXCEPT ![into] = _append_pending_dispatch_body(@, k)]
           S == Became(Append(ws, Work("steer", "delivered", "managed", k)), act, FALSE)
           M == Became(merged, into, merged = ws)
           Q == Became(Append(ws, Work("run", "queued", "managed", k)), Len(ws) + 1, FALSE)
<1>0. ws \in Seq(WorkRow) /\ k \in 1 .. MaxMail /\ Len(ws) \in Nat
  BY DEF Ready
<1>1. CASE steer /\ act # 0 /\ tgt.steer /\ ~viaClaim
  <2>1. b = S
    BY <1>1 DEF _create_dispatch_runs
  <2>2. Extends(ws, Append(ws, Work("steer", "delivered", "managed", k)), k, FALSE)
    BY AppendExtends
  <2>3. Len(Append(ws, Work("steer", "delivered", "managed", k))) = Len(ws) + 1
    BY <1>0, WorkTyped
  <2>4. act \in 1 .. Len(ws) + 1
    BY <1>0, <1>1 DEF Active, Held
  <2>5. b.work = Append(ws, Work("steer", "delivered", "managed", k)) /\ b.run = act /\ b.told = FALSE
    BY <2>1 DEF Became
  <2> QED
    BY <2>2, <2>3, <2>4, <2>5
<1>2. CASE ~(steer /\ act # 0 /\ tgt.steer /\ ~viaClaim) /\ merge /\ into # 0
  <2>1. b = M
    BY <1>2 DEF _create_dispatch_runs
  <2>2. into \in 1 .. Len(ws)
    BY <1>0, <1>2, MergeableIsQueued
  <2> DEFINE row == _append_pending_dispatch_body(ws[into], k)
  <2>3. ws[into] \in WorkRow /\ k \notin ws[into].items
    BY <1>0, <2>2 DEF Ready
  <2>4. /\ row \in WorkRow /\ row.kind = ws[into].kind
        /\ row.kind = "run" => Cardinality(row.items) <= BufferCap
        /\ row = ws[into] \/ row.items = ws[into].items \cup {k}
    BY <1>0, <2>2, <2>3, AppendBody DEF Ready
  <2>5. merged = [ws EXCEPT ![into] = row]
    OBVIOUS
  <2> HIDE DEF into, row
  <2>6. CASE row = ws[into]
    <3>1. merged = ws
      BY <1>0, <2>2, <2>5, <2>6
    <3>2. b.work = merged /\ b.told = (merged = ws)
      BY <2>1 DEF Became
    <3>3. b.work = ws /\ b.told = TRUE
      BY <3>1, <3>2
    <3>4. Extends(ws, ws, k, TRUE)
      BY ToldExtends
    <3> QED
      BY <3>3, <3>4
  <2>7. CASE row.items = ws[into].items \cup {k}
    <3>1. Extends(ws, merged, k, b.told)
      BY <2>2, <2>4, <2>5, <2>7, MergeExtends
    <3>2. b.work = merged /\ b.run = into /\ b.told = (merged = ws)
      BY <2>1 DEF Became
    <3>3. Len(merged) = Len(ws)
      BY <1>0, <2>2, <2>4, <2>5
    <3> QED
      BY <2>2, <3>1, <3>2, <3>3
  <2> QED
    BY <2>4, <2>6, <2>7
<1>3. CASE ~(steer /\ act # 0 /\ tgt.steer /\ ~viaClaim) /\ ~(merge /\ into # 0)
  <2>1. b = Q
    BY <1>3 DEF _create_dispatch_runs
  <2>2. Extends(ws, Append(ws, Work("run", "queued", "managed", k)), k, FALSE)
    BY AppendExtends
  <2>3. Len(Append(ws, Work("run", "queued", "managed", k))) = Len(ws) + 1
    BY <1>0, WorkTyped
  <2>4. b.work = Append(ws, Work("run", "queued", "managed", k)) /\ b.run = Len(ws) + 1 /\ b.told = FALSE
    BY <2>1 DEF Became
  <2>5. Len(ws) + 1 \in 1 .. Len(ws) + 1
    BY <1>0
  <2> QED
    BY <2>2, <2>3, <2>4, <2>5
<1> QED
  BY <1>1, <1>2, <1>3

(* An answer: work that carries the message, or the message told.          *)
Answer(ws, k, b) ==
    /\ Extends(ws, b.work, k, b.told)
    /\ b.told \in BOOLEAN

(* Another mode for the run answered leaves what it carries.               *)
LEMMA ModeAlike ==
    ASSUME NEW ws \in Seq(WorkRow), NEW run \in 1 .. Len(ws), NEW mode \in {"managed", "channel", "resident"}
    PROVE  Alike(ws, [ws EXCEPT ![run] = [@ EXCEPT !.mode = mode]])
<1> DEFINE row == [ws[run] EXCEPT !.mode = mode]
<1>1. ws[run] \in WorkRow
  OBVIOUS
<1>2. row \in WorkRow /\ row.items = ws[run].items /\ row.kind = ws[run].kind
  BY <1>1 DEF WorkRow
<1> HIDE DEF row
<1>3. Alike(ws, [ws EXCEPT ![run] = row])
  BY <1>2 DEF Alike
<1> QED
  BY <1>3 DEF row

(* The modes the two last steps of a send set.                             *)
LEMMA RoutedAnswer ==
    ASSUME NEW ws \in Seq(WorkRow), NEW k, NEW steer, NEW merge, NEW act, act \in Active(ws) \/ act = 0, Ready(ws, k),
           NEW mode \in {"managed", "channel", "resident"}, NEW b, NEW c,
           b = _finalize_dispatch_runs(_create_dispatch_runs(ws, k, steer, merge, act), mode),
           c = _apply_channel_routing_to_claude_runs(b)
    PROVE  Answer(ws, k, b) /\ Answer(ws, k, c)
<1> DEFINE a == _create_dispatch_runs(ws, k, steer, merge, act)
<1>1. /\ Extends(ws, a.work, k, a.told) /\ a.told \in BOOLEAN
      /\ ~a.told => a.run \in 1 .. Len(a.work)
  BY CreateExtends
<1>2. a.work \in Seq(WorkRow)
  BY <1>1 DEF Extends
<1>3. b = _finalize_dispatch_runs(a, mode)
  OBVIOUS
<1>r. \E w, r, d : a = [work |-> w, run |-> r, told |-> d]
  BY DEF _create_dispatch_runs, Became
<1> HIDE DEF a
<1>4. /\ Answer(ws, k, b)
      /\ ~b.told => b.run \in 1 .. Len(b.work)
      /\ \E w, r, d : b = [work |-> w, run |-> r, told |-> d]
  <2>1. CASE a.told \/ a.work[a.run].st # "queued"
    <3>1. b = a
      BY <1>3, <2>1 DEF _finalize_dispatch_runs
    <3> QED
      BY <3>1, <1>1, <1>r DEF Answer
  <2>2. CASE ~(a.told \/ a.work[a.run].st # "queued")
    <3> DEFINE ws2 == [a.work EXCEPT ![a.run] = [@ EXCEPT !.mode = mode]]
    <3>1. b = [a EXCEPT !.work[a.run] = [@ EXCEPT !.mode = mode]]
      BY <1>3, <2>2 DEF _finalize_dispatch_runs
    <3>2. b.work = ws2 /\ b.run = a.run /\ b.told = a.told /\ \E w, r, d : b = [work |-> w, run |-> r, told |-> d]
      BY <3>1, <1>r
    <3>3. Alike(a.work, ws2)
      BY <1>1, <1>2, <2>2, ModeAlike
    <3> HIDE DEF ws2
    <3>4. Extends(ws, ws2, k, a.told)
      BY <1>1, <3>3, AlikeExtends
    <3>5. Len(ws2) = Len(a.work)
      BY <3>3 DEF Alike
    <3> QED
      BY <1>1, <3>2, <3>4, <3>5 DEF Answer
  <2> QED
    BY <2>1, <2>2
<1>5. b.work \in Seq(WorkRow)
  BY <1>4 DEF Answer, Extends
<1>6. CASE c = b
  BY <1>4, <1>6
<1>7. CASE c # b
  <2> DEFINE ws2 == [b.work EXCEPT ![b.run] = [@ EXCEPT !.mode = "channel"]]
  <2>1. c = [b EXCEPT !.work[b.run] = [@ EXCEPT !.mode = "channel"]] /\ ~b.told
    BY <1>7 DEF _apply_channel_routing_to_claude_runs
  <2>2. c.work = ws2 /\ c.told = b.told
    BY <2>1, <1>4
  <2>3. Alike(b.work, ws2)
    BY <1>4, <1>5, <2>1, ModeAlike
  <2> HIDE DEF ws2
  <2>4. Extends(ws, ws2, k, b.told)
    BY <1>4, <2>3, AlikeExtends DEF Answer
  <2> QED
    BY <1>4, <2>2, <2>4 DEF Answer
<1> QED
  BY <1>6, <1>7

(* Text typed into the console is a turn of its own or joins one.          *)
LEMMA TypedAnswer ==
    ASSUME NEW ws \in Seq(WorkRow), NEW k, Ready(ws, k), NEW b, b = _queue_console_inputs_for_dispatch(ws, k)
    PROVE  Answer(ws, k, b)
<1> DEFINE turns == {w \in Active(ws) : ws[w].kind = "typed"}
           first == CHOOSE v \in turns : \A u \in turns : v <= u
<1>1. CASE turns = {}
  <2>1. b.work = Append(ws, Work("typed", "running", "managed", k)) /\ b.told = FALSE
    BY <1>1 DEF _queue_console_inputs_for_dispatch, Became
  <2>2. Extends(ws, Append(ws, Work("typed", "running", "managed", k)), k, FALSE)
    BY AppendExtends
  <2> QED
    BY <2>1, <2>2 DEF Answer
<1>2. CASE turns # {}
  <2> DEFINE row == [ws[first] EXCEPT !.items = @ \cup {k}]
             ws2 == [w \in 1 .. Len(ws) |-> IF w = first THEN [ws[w] EXCEPT !.items = @ \cup {k}] ELSE ws[w]]
  <2>1. b.work = ws2 /\ b.told = FALSE
    BY <1>2 DEF _queue_console_inputs_for_dispatch, Became
  <2>2. turns \subseteq Nat
    BY DEF Active, Held
  <2>3. first \in turns
    BY <1>2, <2>2, LeastNatural
  <2>4. first \in 1 .. Len(ws) /\ ws[first].kind = "typed" /\ ws[first] \in WorkRow /\ k \in 1 .. MaxMail
    BY <2>3 DEF Active, Held, Ready
  <2> HIDE DEF first
  <2>5. row \in WorkRow /\ row.items = ws[first].items \cup {k} /\ row.kind = "typed"
    BY <2>4 DEF WorkRow
  <2>6. ws2 = [ws EXCEPT ![first] = row]
    <3>1. ws \in [1 .. Len(ws) -> WorkRow]
      OBVIOUS
    <3>2. ws2 = [w \in 1 .. Len(ws) |-> IF w = first THEN row ELSE ws[w]]
      OBVIOUS
    <3> HIDE DEF row, ws2
    <3> QED
      BY <2>4, <3>1, <3>2
  <2> HIDE DEF row, ws2
  <2>7. Extends(ws, ws2, k, FALSE)
    BY <2>4, <2>5, <2>6, MergeExtends
  <2> QED
    BY <2>1, <2>7 DEF Answer
<1> QED
  BY <1>1, <1>2

(* Failing an active run that nobody can finish changes its state only.    *)
LEMMA DiscardedAlike ==
    ASSUME work \in Seq(WorkRow), NEW gone
    PROVE  Alike(work, Discarded(gone)) /\ Discarded(gone) \in Seq(WorkRow)
<1>0. \A row \in WorkRow :
         /\ [row EXCEPT !.st = "done"] \in WorkRow
         /\ [row EXCEPT !.st = "done"].items = row.items
         /\ [row EXCEPT !.st = "done"].kind = row.kind
  BY DEF WorkRow
<1>1. \A w \in 1 .. Len(work) :
         /\ work[w] \in WorkRow
         /\ [work[w] EXCEPT !.st = "done"] \in WorkRow
         /\ [work[w] EXCEPT !.st = "done"].items = work[w].items
         /\ [work[w] EXCEPT !.st = "done"].kind = work[w].kind
  BY <1>0
<1>2. \A w \in 1 .. Len(work) : Discarded(gone)[w] \in WorkRow /\ Discarded(gone)[w].items = work[w].items
                               /\ Discarded(gone)[w].kind = work[w].kind
  BY <1>1 DEF Discarded
<1>3. Discarded(gone) \in Seq(WorkRow) /\ Len(Discarded(gone)) = Len(work)
  BY <1>1 DEF Discarded
<1> QED
  BY <1>2, <1>3 DEF Alike

(* Storing a message with work that carries it once, or with the sender    *)
(* told, keeps the invariant.                                              *)
LEMMA CommitKeeps ==
    ASSUME SendInv, Len(mail) < MaxMail, NEW m \in MailRow, NEW out, NEW b, Commit(m, out, b), NEW d,
           Extends(work, b.work, Len(mail) + 1, d), d => (m.told \/ ~m.trigger),
           m.nonce = 0 \/ ~prior_send_for_nonce(m.nonce)
    PROVE  SendInv'
<1> DEFINE k == Len(mail) + 1
<1>1. /\ mail \in Seq(MailRow) /\ work \in Seq(WorkRow) /\ Len(mail) \in Nat /\ Len(work) \in Nat
      /\ late \in [job : {"none", "replay", "reroute"}, ids : SUBSET Nat]
  BY DEF SendInv, RowsOK
<1>2. work' = b.work /\ mail' = Append(mail, m) /\ late' = late
  BY DEF Commit
<1>3. /\ mail' \in Seq(MailRow) /\ Len(mail') = k /\ mail'[k] = m
      /\ \A j \in 1 .. Len(mail) : mail'[j] = mail[j]
  BY <1>1, <1>2
<1>4. /\ work' \in Seq(WorkRow) /\ Len(work') \in Nat /\ Len(work) <= Len(work')
      /\ \A w \in 1 .. Len(work) : work[w].items \subseteq work'[w].items /\ work'[w].items \subseteq work[w].items \cup {k}
      /\ \A w \in Len(work) + 1 .. Len(work') : work'[w].items \subseteq {k}
      /\ \A v, w \in 1 .. Len(work') : (k \in work'[v].items /\ k \in work'[w].items) => v = w
      /\ \A w \in 1 .. Len(work') : work'[w].kind = "run" => Cardinality(work'[w].items) <= BufferCap
  <2>1. Extends(work, work', k, d)
    BY <1>2
  <2> HIDE DEF k
  <2> QED
    BY <2>1 DEF Extends
<1>5. d \/ \E w \in 1 .. Len(work') : k \in work'[w].items
  BY <1>2 DEF Extends
<1>6. \A w \in 1 .. Len(work) : work[w].items \subseteq 1 .. Len(mail)
  BY DEF SendInv, WorkCarriesStored
<1>7. \A w \in 1 .. Len(work') : w \in 1 .. Len(work) \/ w \in Len(work) + 1 .. Len(work')
  BY <1>1, <1>4
<1>8. k \notin 1 .. Len(mail) /\ 1 .. k = 1 .. Len(mail) \cup {k} /\ k \in Nat
  BY <1>1
<1>9. RowsOK'
  <2>1. Len(mail') <= MaxMail
    BY <1>1, <1>3, SendingAssumption
  <2> QED
    BY <1>1, <1>2, <1>3, <1>4, <2>1 DEF RowsOK
<1>10. WorkCarriesStored'
  BY <1>3, <1>4, <1>6, <1>7, <1>8 DEF WorkCarriesStored
<1>11. ReplayReadPosts'
  BY <1>2, <1>3, <1>8 DEF SendInv, ReplayReadPosts
<1> HIDE DEF k
(* Whoever carries an earlier message carried it before.                   *)
<1>12. \A j \in 1 .. Len(mail) : \A w \in 1 .. Len(work') :
         j \in work'[w].items => w \in 1 .. Len(work) /\ j \in work[w].items
  BY <1>4, <1>7, <1>8
<1>13. SentOnce'
  <2>1. ASSUME NEW i \in 1 .. k, NEW j \in 1 .. k, mail'[i].nonce # 0, mail'[i].nonce = mail'[j].nonce PROVE i = j
    <3>1. \A h \in 1 .. Len(mail) : m.nonce # 0 => mail[h].nonce # m.nonce
      BY DEF prior_send_for_nonce
    <3>2. \A h, l \in 1 .. Len(mail) : (mail[h].nonce # 0 /\ mail[h].nonce = mail[l].nonce) => h = l
      BY DEF SendInv, SentOnce
    <3> QED
      BY <1>3, <1>8, <2>1, <3>1, <3>2
  <2>2. ASSUME NEW j \in 1 .. k, NEW v \in 1 .. Len(work'), NEW w \in 1 .. Len(work'), j \in work'[v].items, j \in work'[w].items,
               mail'[j].source = "direct"
        PROVE  v = w
    <3>1. CASE j = k
      BY <1>4, <2>2, <3>1
    <3>2. CASE j \in 1 .. Len(mail)
      BY <1>3, <1>12, <2>2, <3>2 DEF SendInv, SentOnce, Carriers
    <3> QED
      BY <1>8, <3>1, <3>2
  <2> QED
    BY <1>3, <2>1, <2>2 DEF SentOnce, Carriers
<1>14. NoLostWake'
  <2>1. ASSUME NEW j \in 1 .. k, mail'[j].trigger PROVE mail'[j].told \/ \E w \in 1 .. Len(work') : j \in work'[w].items
    <3>1. CASE j = k
      BY <1>3, <1>5, <2>1, <3>1
    <3>2. CASE j \in 1 .. Len(mail)
      <4>1. mail[j].told \/ \E w \in 1 .. Len(work) : j \in work[w].items
        BY <1>3, <2>1, <3>2 DEF SendInv, NoLostWake, Carriers
      <4>2. \A w \in 1 .. Len(work) : w \in 1 .. Len(work')
        BY <1>1, <1>4
      <4> QED
        BY <1>3, <1>4, <3>2, <4>1, <4>2
    <3> QED
      BY <1>8, <3>1, <3>2
  <2> QED
    BY <1>3, <2>1 DEF NoLostWake, Carriers
<1>15. BufferBound'
  BY <1>4 DEF BufferBound
<1> QED
  BY <1>9, <1>10, <1>11, <1>13, <1>14, <1>15 DEF SendInv

Modes == {"managed", "channel", "resident"}

(* A send ends as a run, at the console, or told.                          *)
Ends(out, how) == \E to \in how : \E c, s : out = Outcome(to, c, s)

LEMMA LaunchEnds ==
    ASSUME NEW mode, NEW hold, NEW started, NEW cold
    PROVE  Ends(_launch_recipients_for_dispatch(mode, hold, started, cold), {"run", "typed", "told"})
<1> DEFINE how == {"run", "typed", "told"}
<1>0. \A to \in how : \A c, s : Ends(Outcome(to, c, s), how)
  BY DEF Ends
<1> HIDE DEF how
<1>h. "run" \in how /\ "typed" \in how /\ "told" \in how
  BY DEF how
<1>1. \A c : Ends(ColdStart(c, cold), how)
  BY <1>0, <1>h DEF ColdStart
<1>2. Ends(_back_managed_claude_with_a_console(started, cold), how)
  BY <1>0, <1>h, <1>1 DEF _back_managed_claude_with_a_console
<1>3. Ends(_launch_recipients_for_dispatch(mode, hold, started, cold), how)
  BY <1>0, <1>h, <1>1, <1>2 DEF _launch_recipients_for_dispatch
<1> QED
  BY <1>3 DEF how

LEMMA ResolveEnds ==
    ASSUME NEW started
    PROVE  \/ Ends(_resolve_dispatch_recipient_delivery(started), {"typed", "told"})
           \/ /\ Ends(_resolve_dispatch_recipient_delivery(started), {"run"})
              /\ _agent_execution_mode # "none"
<1>0. /\ \A c, s : Ends(Outcome("run", c, s), {"run"})
      /\ \A to \in {"typed", "told"} : \A c, s : Ends(Outcome(to, c, s), {"typed", "told"})
  BY DEF Ends
<1> QED
  BY <1>0 DEF _resolve_dispatch_recipient_delivery

LEMMA ModeKnown == _agent_execution_mode # "none" => _agent_execution_mode \in Modes
BY DEF _agent_execution_mode, Modes

(* The work a send starts from, after an unusable active run was failed.   *)
LEMMA SendReady ==
    ASSUME SendInv, Len(mail) < MaxMail, NEW gone
    PROVE  /\ Ready(Discarded(gone), Len(mail) + 1)
           /\ Discarded(gone) \in Seq(WorkRow)
           /\ Alike(work, Discarded(gone))
<1>1. mail \in Seq(MailRow) /\ Len(mail) \in Nat /\ work \in Seq(WorkRow)
  BY DEF SendInv, RowsOK
<1>2. Discarded(gone) \in Seq(WorkRow) /\ Alike(work, Discarded(gone))
  BY <1>1, DiscardedAlike
<1>3. Len(mail) + 1 \in 1 .. MaxMail /\ Len(mail) + 1 \notin 1 .. Len(mail)
  BY <1>1, SendingAssumption
<1>4. \A w \in 1 .. Len(work) : Len(mail) + 1 \notin work[w].items
  BY <1>3 DEF SendInv, WorkCarriesStored
<1>5. \A w \in 1 .. Len(work) : work[w].kind = "run" => Cardinality(work[w].items) <= BufferCap
  BY DEF SendInv, BufferBound
<1> QED
  BY <1>2, <1>3, <1>4, <1>5 DEF Ready, Alike

(* What a launch made of a message.                                        *)
LEMMA DeliveredAnswer ==
    ASSUME NEW ws \in Seq(WorkRow), NEW k, Ready(ws, k), NEW out, out.to \in {"run", "typed", "told"}, NEW runs,
           out.to = "run" => Answer(ws, k, runs), NEW b, b = Delivered(out, ws, k, runs)
    PROVE  Answer(ws, k, b)
<1>1. CASE out.to = "run"
  BY <1>1 DEF Delivered
<1>2. CASE out.to = "typed"
  BY <1>2, TypedAnswer DEF Delivered
<1>3. CASE out.to = "told"
  <2>1. b.work = ws /\ b.told = TRUE
    BY <1>3 DEF Delivered, Became
  <2>2. Extends(ws, ws, k, TRUE)
    BY ToldExtends
  <2> QED
    BY <2>1, <2>2 DEF Answer
<1> QED
  BY <1>1, <1>2, <1>3

(* An answer committed with its message keeps the invariant.               *)
LEMMA AnswerCommitted ==
    ASSUME SendInv, Len(mail) < MaxMail, NEW gone, NEW b, Answer(Discarded(gone), Len(mail) + 1, b),
           NEW source \in {"direct", "channel"}, NEW nonce \in 0 .. 1, NEW typed \in BOOLEAN, NEW out,
           Commit(Mail(source, nonce, TRUE, b, typed), out, b), nonce = 0 \/ ~prior_send_for_nonce(nonce)
    PROVE  SendInv'
<1> DEFINE m == Mail(source, nonce, TRUE, b, typed)
<1>1. b.told \in BOOLEAN /\ Extends(Discarded(gone), b.work, Len(mail) + 1, b.told)
  BY DEF Answer
<1>2. m \in MailRow
  BY <1>1 DEF Mail, MailRow
<1>3. m.told = b.told /\ m.nonce = nonce
  BY DEF Mail
<1>4. Extends(work, b.work, Len(mail) + 1, b.told)
  BY <1>1, SendReady, ExtendsAlike
<1>5. Commit(m, out, b)
  OBVIOUS
<1> HIDE DEF m
<1>6. b.told => (m.told \/ ~m.trigger)
  BY <1>3
<1>7. m.nonce = 0 \/ ~prior_send_for_nonce(m.nonce)
  BY <1>3
<1> QED
  BY <1>2, <1>4, <1>5, <1>6, <1>7, CommitKeeps

LEMMA StoreKeeps ==
    ASSUME SendInv, Len(mail) < MaxMail, NEW nonce \in 0 .. 1, StoreOnly(nonce)
    PROVE  SendInv'
<1> DEFINE b == Became(work, 0, FALSE)
           m == Mail("direct", nonce, FALSE, b, FALSE)
<1>1. Commit(m, Same("told"), b) /\ ~prior_send_for_nonce(nonce)
  BY DEF StoreOnly
<1>2. b.work = work /\ b.told = FALSE
  BY DEF Became
<1>3. m \in MailRow /\ m.nonce = nonce /\ m.trigger = FALSE
  BY <1>2 DEF Mail, MailRow
<1>4. Alike(Discarded({}), work)
  BY SendReady DEF Alike, SendInv, RowsOK
<1>5. Extends(Discarded({}), Discarded({}), Len(mail) + 1, TRUE)
  BY SendReady, ToldExtends
<1>6. Extends(work, work, Len(mail) + 1, TRUE)
  BY <1>4, <1>5, SendReady, AlikeExtends, ExtendsAlike
<1> HIDE DEF b, m
<1> QED
  BY <1>1, <1>2, <1>3, <1>6, CommitKeeps

LEMMA EndsTo ==
    ASSUME NEW out, NEW how, Ends(out, how)
    PROVE  out.to \in how
BY DEF Ends, Outcome

LEMMA SendKeeps ==
    ASSUME SendInv, Len(mail) < MaxMail, NEW nonce \in 0 .. 1, NEW way \in Ways, NEW gone, NEW act, NEW hold, NEW started, NEW cold,
           act \in Active(Discarded(gone)) \/ act = 0,
           send_message(nonce, way, gone, act, hold, started, cold)
    PROVE  SendInv'
<1> DEFINE k == Len(mail) + 1
           ws == Discarded(gone)
           mode == _agent_execution_mode
           passed == _preflight_live_send_recipients(ws, way # "plain")
           out == IF ~passed THEN Same("told")
                  ELSE _launch_recipients_for_dispatch(mode, send_time_hold(ws, hold, way = "queue"), started, cold)
           fin == _finalize_dispatch_runs(_create_dispatch_runs(ws, k, way = "steer", TRUE, act), mode)
           runs == _apply_channel_routing_to_claude_runs(fin)
           b == Delivered(out, ws, k, runs)
<1>1. Ready(ws, k) /\ ws \in Seq(WorkRow)
  BY SendReady
<1>2. /\ ~prior_send_for_nonce(nonce)
      /\ Commit(Mail("direct", nonce, TRUE, b, out.to = "typed"), out, b)
  BY DEF send_message
<1>3. out.to \in {"run", "typed", "told"} /\ (out.to = "run" => passed)
  <2>1. CASE ~passed
    <3>1. out = Outcome("told", tgt.console, tgt.spawn)
      BY <2>1 DEF Same
    <3>2. out.to = "told"
      BY <3>1 DEF Outcome
    <3> QED
      BY <3>2
  <2>2. CASE passed
    <3>1. Ends(out, {"run", "typed", "told"})
      BY <2>2, LaunchEnds
    <3> HIDE DEF out
    <3> QED
      BY <2>2, <3>1, EndsTo
  <2> QED
    BY <2>1, <2>2
<1>4. passed => mode \in Modes
  BY ModeKnown DEF _preflight_live_send_recipients
<1> HIDE DEF ws, k, mode, passed, out
<1>5. mode \in Modes => Answer(ws, k, runs)
  BY <1>1, RoutedAnswer DEF Modes, ws
<1> HIDE DEF runs
<1>6. Answer(ws, k, b)
  BY <1>1, <1>3, <1>4, <1>5, DeliveredAnswer
<1> HIDE DEF b
<1> QED
  BY <1>2, <1>6, AnswerCommitted DEF ws, k

LEMMA PostKeeps ==
    ASSUME SendInv, Len(mail) < MaxMail, NEW way \in Ways, NEW gone, NEW act, NEW cold,
           act \in Active(Discarded(gone)) \/ act = 0,
           send_channel_message(way, gone, act, cold)
    PROVE  SendInv'
<1> DEFINE k == Len(mail) + 1
           ws == Discarded(gone)
           mode == _agent_execution_mode
           passed == _preflight_live_send_recipients(ws, way # "plain")
           runs == _finalize_dispatch_runs(_create_dispatch_runs(ws, k, way = "steer", TRUE, act), mode)
           b == IF passed THEN runs ELSE Became(ws, 0, TRUE)
           out == IF passed THEN _coldstart_cold_channel_members(cold) ELSE Same("told")
<1>1. Ready(ws, k) /\ ws \in Seq(WorkRow)
  BY SendReady
<1>2. Commit(Mail("channel", 0, TRUE, b, FALSE), out, b)
  BY DEF send_channel_message
<1>3. passed => mode \in Modes
  BY ModeKnown DEF _preflight_live_send_recipients
<1> HIDE DEF ws, k, mode, passed, out
<1>4. mode \in Modes => Answer(ws, k, runs)
  BY <1>1, RoutedAnswer DEF Modes, ws
<1> HIDE DEF runs
<1>5. Answer(ws, k, b)
  <2>1. CASE passed
    BY <1>3, <1>4, <2>1
  <2>2. CASE ~passed
    <3>1. b.work = ws /\ b.told = TRUE
      BY <2>2 DEF Became
    <3>2. Extends(ws, ws, k, TRUE)
      BY <1>1, ToldExtends
    <3> QED
      BY <3>1, <3>2 DEF Answer
  <2> QED
    BY <2>1, <2>2
<1> HIDE DEF b
<1>6. 0 \in 0 .. 1
  OBVIOUS
<1> QED
  BY <1>2, <1>5, <1>6, AnswerCommitted DEF ws, k

LEMMA DispatchKeeps ==
    ASSUME SendInv, Len(mail) < MaxMail, NEW required, NEW steer, NEW gone, NEW act, NEW started,
           act \in Active(Discarded(gone)) \/ act = 0,
           create_dispatch(required, steer, gone, act, started)
    PROVE  SendInv'
<1> DEFINE k == Len(mail) + 1
           ws == Discarded(gone)
           mode == _agent_execution_mode
           out == _resolve_dispatch_recipient_delivery(started)
           fin == _finalize_dispatch_runs(_create_dispatch_runs(ws, k, steer, TRUE, act), mode)
           runs == _apply_channel_routing_to_claude_runs(fin)
           b == Delivered(out, ws, k, runs)
<1>1. Ready(ws, k) /\ ws \in Seq(WorkRow)
  BY SendReady
<1>2. Commit(Mail("direct", 0, TRUE, b, out.to = "typed"), out, b)
  BY DEF create_dispatch
<1>3. Ends(out, {"typed", "told"}) \/ (Ends(out, {"run"}) /\ mode # "none")
  BY ResolveEnds
<1>4. mode # "none" => mode \in Modes
  BY ModeKnown
<1> HIDE DEF ws, k, mode, out
<1>5. out.to \in {"run", "typed", "told"} /\ (out.to = "run" => mode \in Modes)
  <2>1. CASE Ends(out, {"typed", "told"})
    BY <2>1, EndsTo
  <2>2. CASE Ends(out, {"run"}) /\ mode # "none"
    BY <1>4, <2>2, EndsTo
  <2> QED
    BY <1>3, <2>1, <2>2
<1>6. mode \in Modes => Answer(ws, k, runs)
  BY <1>1, RoutedAnswer DEF Modes, ws
<1> HIDE DEF runs
<1>7. Answer(ws, k, b)
  BY <1>1, <1>5, <1>6, DeliveredAnswer
<1> HIDE DEF b
<1>8. 0 \in 0 .. 1 /\ (out.to = "typed") \in BOOLEAN
  OBVIOUS
<1> QED
  BY <1>2, <1>7, <1>8, AnswerCommitted DEF ws, k

(* A step that changes states, modes and read marks only.                  *)
LEMMA MarksKeep ==
    ASSUME SendInv, Alike(work, work'), mail' \in Seq(MailRow), Len(mail') = Len(mail),
           \A k \in 1 .. Len(mail) : /\ mail'[k].source = mail[k].source /\ mail'[k].nonce = mail[k].nonce
                                     /\ mail'[k].trigger = mail[k].trigger /\ mail'[k].told = mail[k].told,
           late' = late \/ late' = NoLate
    PROVE  SendInv'
<1>1. RowsOK /\ work' \in Seq(WorkRow) /\ Len(work') = Len(work)
  BY DEF SendInv, Alike
<1>2. \A w \in 1 .. Len(work) : work'[w].items = work[w].items /\ work'[w].kind = work[w].kind
  BY DEF Alike
<1>3. late' \in [job : {"none", "replay", "reroute"}, ids : SUBSET Nat]
  BY <1>1 DEF RowsOK, NoLate
<1>4. RowsOK'
  BY <1>1, <1>3 DEF RowsOK
<1>5. WorkCarriesStored'
  BY <1>1, <1>2 DEF SendInv, WorkCarriesStored
<1>6. ReplayReadPosts'
  BY DEF SendInv, ReplayReadPosts, NoLate
<1>7. \A k \in 1 .. Len(mail) : Carriers(k)' = Carriers(k)
  BY <1>1, <1>2 DEF Carriers
<1>8. SentOnce'
  BY <1>7 DEF SendInv, SentOnce
<1>9. NoLostWake'
  BY <1>7 DEF SendInv, NoLostWake
<1>10. BufferBound'
  BY <1>1, <1>2 DEF SendInv, BufferBound
<1> QED
  BY <1>4, <1>5, <1>6, <1>8, <1>9, <1>10 DEF SendInv

(* A row in another state carries the same.                                *)
LEMMA StateAlike ==
    ASSUME NEW ws \in Seq(WorkRow), NEW w \in 1 .. Len(ws), NEW st \in {"queued", "running", "delivered", "done"}
    PROVE  Alike(ws, [ws EXCEPT ![w] = [@ EXCEPT !.st = st]])
<1> DEFINE row == [ws[w] EXCEPT !.st = st]
<1>1. ws[w] \in WorkRow
  OBVIOUS
<1>2. row \in WorkRow /\ row.items = ws[w].items /\ row.kind = ws[w].kind
  BY <1>1 DEF WorkRow
<1> HIDE DEF row
<1>3. Alike(ws, [ws EXCEPT ![w] = row])
  BY <1>2 DEF Alike
<1> QED
  BY <1>3 DEF row

LEMMA ReadMark ==
    ASSUME NEW m \in MailRow
    PROVE  LET r == [m EXCEPT !.read = TRUE]
           IN  /\ r \in MailRow /\ r.source = m.source /\ r.nonce = m.nonce
               /\ r.trigger = m.trigger /\ r.told = m.told
BY DEF MailRow

LEMMA SameKeeps == ASSUME SendInv, UNCHANGED <<mail, work>>, late' = late \/ late' = NoLate PROVE SendInv'
<1>1. mail \in Seq(MailRow) /\ work \in Seq(WorkRow)
  BY DEF SendInv, RowsOK
<1>2. Alike(work, work')
  BY <1>1 DEF Alike
<1> QED
  BY <1>1, <1>2, MarksKeep

LEMMA JoinRows ==
    ASSUME NEW ws \in Seq(WorkRow), NEW rows \in Seq(WorkRow), NEW new, new = ws \o rows
    PROVE  /\ new \in Seq(WorkRow) /\ Len(new) = Len(ws) + Len(rows)
           /\ \A w \in 1 .. Len(ws) : new[w] = ws[w]
           /\ \A w \in Len(ws) + 1 .. Len(new) : w - Len(ws) \in 1 .. Len(rows) /\ new[w] = rows[w - Len(ws)]
<1>1. Len(ws) \in Nat /\ Len(rows) \in Nat
  OBVIOUS
<1>2. new \in Seq(WorkRow) /\ Len(new) = Len(ws) + Len(rows)
  BY ConcatProperties
<1>3. \A w \in 1 .. Len(new) : new[w] = IF w <= Len(ws) THEN ws[w] ELSE rows[w - Len(ws)]
  BY ConcatProperties
<1> QED
  BY <1>1, <1>2, <1>3

(* The replay's runs carry channel posts only.                             *)
LEMMA ReplayKeeps ==
    ASSUME SendInv, _replay_undelivered_channel_messages_on_env_recovery
    PROVE  SendInv'
<1> DEFINE n == Cardinality(late.ids)
<1>1. late' = NoLate /\ mail' = mail /\ late.job = "replay"
  BY DEF _replay_undelivered_channel_messages_on_env_recovery
<1>2. CASE work' = work
  BY <1>1, <1>2, SameKeeps
<1>3. CASE \E due \in [1 .. n -> late.ids] :
             work' = work \o [i \in 1 .. n |-> Work("run", "queued", "managed", due[i])]
  <2>0. PICK due \in [1 .. n -> late.ids] : work' = work \o [i \in 1 .. n |-> Work("run", "queued", "managed", due[i])]
    BY <1>3
  <2>1. /\ mail \in Seq(MailRow) /\ work \in Seq(WorkRow) /\ Len(mail) \in Nat /\ Len(work) \in Nat /\ Len(mail) <= MaxMail
        /\ \A k \in late.ids : k \in 1 .. Len(mail) /\ mail[k].source = "channel"
    BY <1>1 DEF SendInv, RowsOK, ReplayReadPosts
  <2>2. IsFiniteSet(1 .. Len(mail)) /\ late.ids \in SUBSET (1 .. Len(mail))
    <3>1. 1 \in Int /\ Len(mail) \in Int
      BY <2>1
    <3> QED
      BY <2>1, <3>1, FS_Interval
  <2>3. n \in Nat
    BY <2>2, FS_Subset, FS_CardinalityType
  <2> DEFINE rows == [i \in 1 .. n |-> Work("run", "queued", "managed", due[i])]
  <2> HIDE DEF n
  <2>4. \A i \in 1 .. n : due[i] \in 1 .. MaxMail /\ due[i] \in 1 .. Len(mail) /\ mail[due[i]].source = "channel"
    BY <2>1, SendingAssumption
  <2>5. \A i \in 1 .. n : rows[i] \in WorkRow /\ rows[i].items = {due[i]}
    BY <2>4, WorkTyped
  <2>6. rows \in Seq(WorkRow) /\ Len(rows) = n
    BY <2>3, <2>5
  <2>r. work' = work \o rows
    BY <2>0
  <2> HIDE DEF rows
  <2>7. /\ work' \in Seq(WorkRow) /\ Len(work') = Len(work) + n
        /\ \A w \in 1 .. Len(work) : work'[w] = work[w]
        /\ \A w \in Len(work) + 1 .. Len(work') : w - Len(work) \in 1 .. n /\ work'[w] = rows[w - Len(work)]
    BY <2>1, <2>6, <2>r, JoinRows
  <2>8. \A w \in 1 .. Len(work') : w \in 1 .. Len(work) \/ w \in Len(work) + 1 .. Len(work')
    BY <2>1, <2>3, <2>7
  <2>9. \A w \in Len(work) + 1 .. Len(work') : \E k \in 1 .. Len(mail) : work'[w].items = {k} /\ mail[k].source = "channel"
    BY <2>4, <2>5, <2>7
  <2>10. RowsOK'
    BY <1>1, <2>1, <2>7 DEF RowsOK, NoLate
  <2>11. WorkCarriesStored'
    BY <1>1, <2>7, <2>8, <2>9 DEF SendInv, WorkCarriesStored
  <2>12. ReplayReadPosts'
    BY <1>1 DEF ReplayReadPosts, NoLate
  <2>13. SentOnce'
    <3>1. \A k \in 1 .. Len(mail) : mail[k].source = "direct" => Carriers(k)' \subseteq Carriers(k)
      BY <2>7, <2>8, <2>9 DEF Carriers
    <3> QED
      BY <1>1, <3>1 DEF SendInv, SentOnce
  <2>14. NoLostWake'
    <3>1. \A k \in 1 .. Len(mail) : Carriers(k) \subseteq Carriers(k)'
      BY <2>1, <2>3, <2>7 DEF Carriers
    <3> QED
      BY <1>1, <3>1 DEF SendInv, NoLostWake
  <2>15. BufferBound'
    <3>1. \A k : Cardinality({k}) = 1
      BY FS_Singleton
    <3>2. \A w \in Len(work) + 1 .. Len(work') : Cardinality(work'[w].items) = 1
      BY <2>9, <3>1
    <3>3. \A w \in 1 .. Len(work) : work'[w].kind = "run" => Cardinality(work'[w].items) <= BufferCap
      BY <2>7 DEF SendInv, BufferBound
    <3> QED
      BY <2>8, <3>2, <3>3, SendingAssumption DEF BufferBound
  <2> QED
    BY <2>10, <2>11, <2>12, <2>13, <2>14, <2>15 DEF SendInv
<1> QED
  BY <1>2, <1>3 DEF _replay_undelivered_channel_messages_on_env_recovery

LEMMA ReplayReadsKeep == ASSUME SendInv, ReplayReads PROVE SendInv'
<1> DEFINE due == _select_undelivered_channel_messages
<1>1. late' = [job |-> "replay", ids |-> due] /\ mail' = mail /\ work' = work
  BY DEF ReplayReads
<1>2. mail \in Seq(MailRow) /\ work \in Seq(WorkRow) /\ Len(mail) <= MaxMail /\ Len(mail) \in Nat
  BY DEF SendInv, RowsOK
<1>3. \A k \in due : k \in 1 .. Len(mail) /\ mail[k].source = "channel"
  BY DEF _select_undelivered_channel_messages
<1>4. due \in SUBSET Nat
  BY <1>2, <1>3
<1> HIDE DEF due
<1>5. late' \in [job : {"none", "replay", "reroute"}, ids : SUBSET Nat] /\ late'.ids = due
  BY <1>1, <1>4
<1>6. RowsOK'
  BY <1>1, <1>2, <1>5 DEF RowsOK
<1>7. ReplayReadPosts'
  BY <1>1, <1>3, <1>5 DEF ReplayReadPosts
<1>8. WorkCarriesStored' /\ SentOnce' /\ NoLostWake' /\ BufferBound'
  BY <1>1 DEF SendInv, WorkCarriesStored, SentOnce, NoLostWake, BufferBound, Carriers
<1> QED
  BY <1>6, <1>7, <1>8 DEF SendInv

LEMMA RerouteReadsKeep == ASSUME SendInv, RerouteReads PROVE SendInv'
<1> DEFINE ids == {w \in Held(work, {"queued"}) : work[w].mode = "managed"}
<1>1. late' = [job |-> "reroute", ids |-> ids] /\ mail' = mail /\ work' = work
  BY DEF RerouteReads
<1>2. mail \in Seq(MailRow) /\ work \in Seq(WorkRow) /\ Len(mail) <= MaxMail /\ Len(work) \in Nat
  BY DEF SendInv, RowsOK
<1>3. ids \in SUBSET Nat
  BY <1>2 DEF Held
<1> HIDE DEF ids
<1>4. late' \in [job : {"none", "replay", "reroute"}, ids : SUBSET Nat] /\ late'.job = "reroute"
  BY <1>1, <1>3
<1>5. RowsOK' /\ ReplayReadPosts'
  BY <1>1, <1>2, <1>4 DEF RowsOK, ReplayReadPosts
<1>6. WorkCarriesStored' /\ SentOnce' /\ NoLostWake' /\ BufferBound'
  BY <1>1 DEF SendInv, WorkCarriesStored, SentOnce, NoLostWake, BufferBound, Carriers
<1> QED
  BY <1>5, <1>6 DEF SendInv

LEMMA RerouteKeeps == ASSUME SendInv, _reroute_orphaned_managed_channel_runs PROVE SendInv'
<1>1. mail \in Seq(MailRow) /\ work \in Seq(WorkRow)
  BY DEF SendInv, RowsOK
<1>2. \A row \in WorkRow :
         /\ [row EXCEPT !.mode = "channel"] \in WorkRow
         /\ [row EXCEPT !.mode = "channel"].items = row.items
         /\ [row EXCEPT !.mode = "channel"].kind = row.kind
  BY DEF WorkRow
<1>3. \A w \in 1 .. Len(work) :
         /\ work[w] \in WorkRow
         /\ [work[w] EXCEPT !.mode = "channel"] \in WorkRow
         /\ [work[w] EXCEPT !.mode = "channel"].items = work[w].items
         /\ [work[w] EXCEPT !.mode = "channel"].kind = work[w].kind
  BY <1>1, <1>2
<1>4. work' = [w \in 1 .. Len(work) |-> IF w \in late.ids THEN [work[w] EXCEPT !.mode = "channel"] ELSE work[w]]
  BY DEF _reroute_orphaned_managed_channel_runs
<1>5. Alike(work, work')
  BY <1>1, <1>3, <1>4 DEF Alike
<1> QED
  BY <1>1, <1>5, MarksKeep DEF _reroute_orphaned_managed_channel_runs

LEMMA ClaimKeeps == ASSUME SendInv, Claim PROVE SendInv'
<1> DEFINE w == _find_mergeable_queued_run(work)
<1>1. mail \in Seq(MailRow) /\ work \in Seq(WorkRow)
  BY DEF SendInv, RowsOK
<1>2. /\ work' = [work EXCEPT ![w] = [@ EXCEPT !.st = "running"]]
      /\ mail' = [k \in 1 .. Len(mail) |-> IF k \in work[w].items THEN [mail[k] EXCEPT !.read = TRUE] ELSE mail[k]]
      /\ late' = late /\ Held(work, {"queued"}) # {}
  BY DEF Claim
<1>3. w # 0
  <2>1. Held(work, {"queued"}) \subseteq Nat \ {0}
    BY <1>1 DEF Held
  <2>2. \E v \in Held(work, {"queued"}) : \A u \in Held(work, {"queued"}) : v <= u
    BY <1>2, <2>1, LeastNatural
  <2>3. w \in Held(work, {"queued"})
    BY <1>2, <2>2 DEF _find_mergeable_queued_run
  <2> QED
    BY <2>1, <2>3
<1>4. w \in 1 .. Len(work)
  BY <1>1, <1>3, MergeableIsQueued
<1> HIDE DEF w
<1>5. Alike(work, work')
  BY <1>1, <1>2, <1>4, StateAlike
<1>6. \A k \in 1 .. Len(mail) : mail[k] \in MailRow
  BY <1>1
<1>7. mail' \in Seq(MailRow) /\ Len(mail') = Len(mail)
  BY <1>1, <1>2, <1>6, ReadMark
<1>8. \A k \in 1 .. Len(mail) : /\ mail'[k].source = mail[k].source /\ mail'[k].nonce = mail[k].nonce
                                /\ mail'[k].trigger = mail[k].trigger /\ mail'[k].told = mail[k].told
  BY <1>2, <1>6, ReadMark
<1> QED
  BY <1>2, <1>5, <1>7, <1>8, MarksKeep

LEMMA FinishKeeps == ASSUME SendInv, Finish PROVE SendInv'
<1>1. mail \in Seq(MailRow) /\ work \in Seq(WorkRow)
  BY DEF SendInv, RowsOK
<1>2. PICK w \in 1 .. Len(work) : work' = [work EXCEPT ![w] = [@ EXCEPT !.st = "done"]]
  BY DEF Finish, Held
<1>3. Alike(work, work')
  BY <1>1, <1>2, StateAlike
<1> QED
  BY <1>1, <1>3, MarksKeep DEF Finish

LEMMA ReadInboxKeeps == ASSUME SendInv, ReadInbox PROVE SendInv'
<1>1. mail \in Seq(MailRow) /\ work \in Seq(WorkRow)
  BY DEF SendInv, RowsOK
<1>2. mail' = [k \in 1 .. Len(mail) |-> [mail[k] EXCEPT !.read = TRUE]] /\ late' = late /\ work' = work
  BY DEF ReadInbox
<1>3. \A k \in 1 .. Len(mail) : mail[k] \in MailRow
  BY <1>1
<1>4. mail' \in Seq(MailRow) /\ Len(mail') = Len(mail)
  BY <1>1, <1>2, <1>3, ReadMark
<1>5. \A k \in 1 .. Len(mail) : /\ mail'[k].source = mail[k].source /\ mail'[k].nonce = mail[k].nonce
                                /\ mail'[k].trigger = mail[k].trigger /\ mail'[k].told = mail[k].told
  BY <1>2, <1>3, ReadMark
<1>6. Alike(work, work')
  BY <1>1, <1>2 DEF Alike
<1> QED
  BY <1>2, <1>4, <1>5, <1>6, MarksKeep

(* Every operation keeps the invariant.                                    *)
LEMMA SendStep == SendInv /\ [SendNext]_sendVars => SendInv'
<1> SUFFICES ASSUME SendInv, [SendNext]_sendVars PROVE SendInv'
  OBVIOUS
<1>1. CASE Sends
  <2>1. Len(mail) < MaxMail
    BY <1>1 DEF Sends
  <2>2. ASSUME NEW nonce \in 0 .. 1, StoreOnly(nonce) PROVE SendInv'
    BY <2>1, <2>2, StoreKeeps
  <2>3. ASSUME NEW act \in {0} \cup Active(work), NEW gone \in {{}} \cup {{w} : w \in Active(work)}, ActiveAs(Discarded(gone), gone, act),
               NEW cold \in BOOLEAN, NEW started \in BOOLEAN,
               \/ \E nonce \in 0 .. 1, way \in Ways, hold \in BOOLEAN : send_message(nonce, way, gone, act, hold, started, cold)
               \/ \E way \in Ways : send_channel_message(way, gone, act, cold)
               \/ \E steer \in BOOLEAN : create_dispatch(cold, steer, gone, act, started)
        PROVE  SendInv'
    <3>1. act \in Active(Discarded(gone)) \/ act = 0
      BY <2>3 DEF ActiveAs
    <3> QED
      BY <2>1, <2>3, <3>1, SendKeeps, PostKeeps, DispatchKeeps
  <2> QED
    BY <1>1, <2>2, <2>3 DEF Sends
<1>2. CASE Otherwise
  <2>1. CASE Change
    BY <2>1, SameKeeps DEF Change
  <2> QED
    BY <1>2, <2>1, ReplayReadsKeep, ReplayKeeps, RerouteReadsKeep, RerouteKeeps, ClaimKeeps, FinishKeeps, ReadInboxKeeps
       DEF Otherwise
<1>3. CASE UNCHANGED sendVars
  BY <1>3, SameKeeps DEF sendVars
<1> QED
  BY <1>1, <1>2, <1>3 DEF SendNext

LEMMA Delivering == SendSpec => []SendInv
<1>1. SendInit => SendInv
  <2> SUFFICES ASSUME SendInit PROVE SendInv
    OBVIOUS
  <2>1. mail = <<>> /\ work = <<>> /\ late = NoLate /\ Len(mail) = 0 /\ Len(work) = 0
    BY DEF SendInit
  <2>2. RowsOK
    BY <2>1, SendingAssumption DEF RowsOK, NoLate
  <2> QED
    BY <2>1, <2>2 DEF SendInv, WorkCarriesStored, ReplayReadPosts, SentOnce, NoLostWake, BufferBound, NoLate
<1> QED
  BY <1>1, SendStep, PTL DEF SendSpec

(* A direct message is stored once under its nonce and carried by at most  *)
(* one piece of work, whatever is merged, steered, typed, held, replayed   *)
(* or rerouted (messages.send_message, channel_delivery).                  *)
THEOREM DirectSentOnce == SendSpec => []SentOnce
BY Delivering, PTL DEF SendInv

(* A message that was to wake its agent is carried by some work, or its    *)
(* sender was told (the live-send preflight, the launch, a full buffer).   *)
THEOREM NoWakeIsLost == SendSpec => []NoLostWake
BY Delivering, PTL DEF SendInv

(* No queued run outgrows its buffer (_append_pending_dispatch_body).      *)
THEOREM BuffersAreBounded == SendSpec => []BufferBound
BY Delivering, PTL DEF SendInv
=============================================================================
