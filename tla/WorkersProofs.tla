--------------------------- MODULE WorkersProofs ---------------------------
(***************************************************************************)
(* Workers for any number of starts, consoles, exits and upsets.           *)
(***************************************************************************)
EXTENDS Workers, TLAPS, FiniteSetTheorems, NaturalsInduction, WellFoundedInduction

(* The requests that wait for the host.                                    *)
Waiting == {s \in Spawns : sp[s].st \in {"queued", "claimed"}}

(* A session points at a console that exists, one that was never made      *)
(* points nowhere, and so does the sweep that brings a console back.       *)
PointersExist ==
  /\ \A s \in Spawns : ses[s].term # 0 => trm[ses[s].term].st # "none"
  /\ \A s \in Spawns : ses[s].st = "none" => ses[s].term = 0
  /\ pend.task = "back" => \A t \in pend.of : trm[t].st # "none"

(* The console of a running session, open or not, names that session.      *)
Bound ==
  "session" \in raced \/ \A s \in Spawns :
    (ses[s].st = "running" /\ ses[s].term # 0) => trm[ses[s].term].ses = s

(* One request waits, and none while the backstop has decided to start.    *)
Alone ==
  "start" \in raced \/ /\ \A r, s \in Waiting : r = s
                       /\ pend.task = "backstop" => Waiting = {}

WorkersInv == WorkersTypeOK /\ PointersExist /\ Bound /\ Alone

(* Requests and consoles are numbered from one.                            *)
LEMMA Numbered == (\E n \in Nat : Spawns = 1 .. n) /\ (\E n \in Nat : Terms = 1 .. n)
BY WorkersAssumption, FS_CardinalityType

LEMMA ZeroIsNobody == 0 \notin Spawns /\ 0 \notin Terms /\ Spawns \subseteq Nat /\ Terms \subseteq Nat
BY Numbered

----------------------------------------------------------------------------
(* What a step does to the requests.                                       *)

(* No settled request moves, and none starts to wait.                      *)
Judged ==
  /\ sp' \in [Spawns -> SpawnRow]
  /\ \A s \in Spawns : /\ sp[s].st \in SpawnSettled => sp'[s].st = sp[s].st
                       /\ sp'[s].st \in {"queued", "claimed"} => sp[s].st \in {"queued", "claimed"}

(* A request is inserted where none waits.                                 *)
Inserted ==
  /\ sp' \in [Spawns -> SpawnRow]
  /\ Waiting = {}
  /\ \E s \in Spawns : sp[s].st = "none" /\ \A r \in Spawns : r # s => sp'[r] = sp[r]
  /\ "start" \in raced' \/ pend'.task # "backstop"

LEMMA JudgedKeeps ==
    ASSUME Alone, Judged, raced \subseteq raced', pend'.task = "backstop" => pend.task = "backstop"
    PROVE  Alone'
<1>1. Waiting' \subseteq Waiting
  BY DEF Judged, Waiting
<1> QED
  BY <1>1 DEF Alone

LEMMA InsertedKeeps ==
    ASSUME Inserted
    PROVE  Alone'
<1>1. PICK s \in Spawns : \A r \in Spawns : r # s => sp'[r] = sp[r]
  BY DEF Inserted
<1>2. Waiting' \subseteq {s}
  BY <1>1 DEF Inserted, Waiting
<1> QED
  BY <1>2 DEF Alone, Inserted

(* A write that gives some of the requests that are not settled a status.  *)
LEMMA MarkedIsJudged ==
    ASSUME sp \in [Spawns -> SpawnRow], NEW st \in {"starting", "running", "failed", "cancelled"},
           NEW which, \A s \in which \cap Spawns : sp[s].st \notin SpawnSettled \/ sp[s].st = st,
           sp' = [s \in Spawns |-> IF s \in which THEN [sp[s] EXCEPT !.st = st] ELSE sp[s]]
    PROVE  Judged
<1>1. \A s \in Spawns : [sp[s] EXCEPT !.st = st] \in SpawnRow /\ [sp[s] EXCEPT !.st = st].st = st
  BY DEF SpawnRow, SpawnSettled
<1>2. sp' \in [Spawns -> SpawnRow]
  BY <1>1
<1>3. \A s \in Spawns : sp'[s] = sp[s] \/ (s \in which /\ sp'[s].st = st)
  BY <1>1
<1> QED
  BY <1>2, <1>3 DEF Judged, SpawnSettled

LEMMA InsertKeeps ==
    ASSUME WorkersTypeOK, NEW s \in FreeSpawn, NEW rev \in Nat, insert_spawn_request(s, rev)
    PROVE  /\ sp' \in [Spawns -> SpawnRow] /\ s \in Spawns /\ sp[s].st = "none"
           /\ \A r \in Spawns : r # s => sp'[r] = sp[r]
<1>1. s \in Spawns /\ sp[s].st = "none" /\ sp \in [Spawns -> SpawnRow]
  BY DEF FreeSpawn, WorkersTypeOK
<1>2. [st |-> "queued", by |-> 0, rev |-> rev] \in SpawnRow
  BY DEF SpawnRow
<1>3. sp' = sp \/ sp' = [sp EXCEPT ![s] = [st |-> "queued", by |-> 0, rev |-> rev]]
  BY DEF insert_spawn_request
<1> QED
  BY <1>1, <1>2, <1>3

LEMMA ColdStartInserts ==
    ASSUME WorkersTypeOK, NEW tt, NEW online, NEW young, MayColdStart(tt, online, young),
           _coldstart_spawn_request_for_dispatch, pend' = pend
    PROVE  Inserted /\ raced \subseteq raced' /\ raced' \subseteq {"start", "session"}
<1>1. PICK s \in FreeSpawn : insert_spawn_request(s, dfn.rev)
  BY DEF _coldstart_spawn_request_for_dispatch
<1>2. dfn.rev \in Nat
  BY DEF WorkersTypeOK
<1>3. Waiting = {}
  BY DEF MayColdStart, _has_pending_or_booting_spawn_request, Waiting
<1>4. /\ raced' = IF pend.task = "backstop" THEN raced \cup {"start"} ELSE raced
      /\ raced \subseteq {"start", "session"}
  BY DEF _coldstart_spawn_request_for_dispatch, WorkersTypeOK
<1> QED
  BY <1>1, <1>2, <1>3, <1>4, InsertKeeps DEF Inserted

----------------------------------------------------------------------------
(* What a step does to the consoles and the sessions.                      *)

(* Consoles stay with their sessions and none is made; sessions end or     *)
(* lose their pointer.                                                     *)
Quietly ==
  /\ trm' \in [Terms -> TermRow] /\ ses' \in [Spawns -> SessionRow]
  /\ \A t \in Terms : trm'[t].ses = trm[t].ses /\ (trm[t].st # "none" => trm'[t].st # "none")
  /\ \A s \in Spawns : /\ ses'[s].term \in {0, ses[s].term}
                       /\ ses'[s].st = "running" => ses[s].st = "running"
                       /\ ses'[s].st = "none" => ses[s].st = "none"

LEMMA QuietlyKeeps ==
    ASSUME WorkersTypeOK, PointersExist, Bound, Quietly, raced \subseteq raced',
           pend'.task = "back" => pend' = pend \/ (pend'.of \subseteq Terms /\ \A t \in pend'.of : trm[t].st # "none")
    PROVE  PointersExist' /\ Bound'
<1>1. \A s \in Spawns : ses[s].term \in Terms \cup {0}
  BY DEF WorkersTypeOK, SessionRow
<1>2. PointersExist'
  <2>1. \A s \in Spawns : ses'[s].term # 0 => trm'[ses'[s].term].st # "none"
    BY <1>1 DEF PointersExist, Quietly
  <2>2. \A s \in Spawns : ses'[s].st = "none" => ses'[s].term = 0
    BY DEF PointersExist, Quietly
  <2>3. pend'.task = "back" => \A t \in pend'.of : trm'[t].st # "none"
    BY DEF PointersExist, Quietly, WorkersTypeOK
  <2> QED
    BY <2>1, <2>2, <2>3 DEF PointersExist
<1>3. Bound'
  BY <1>1 DEF Bound, Quietly
<1> QED
  BY <1>2, <1>3

(* An upset, or none.                                                      *)
LEMMA UpsetsTyped ==
    ASSUME upsets \in 0 .. MaxUpsets,
           Upset \/ upsets' = upsets \/ \E online, h, fresh : Reads(online, h, fresh)
    PROVE  upsets' \in 0 .. MaxUpsets
<1>1. Upset \/ upsets' = upsets
  BY DEF Reads
<1> QED
  BY <1>1, WorkersAssumption DEF Upset

(* A console that ends.                                                    *)
LEMMA EndedTyped ==
    ASSUME NEW row \in TermRow, NEW st \in OpenStates \cup {"ended"}
    PROVE  [row EXCEPT !.st = st] \in TermRow /\ [row EXCEPT !.st = st].ses = row.ses /\ [row EXCEPT !.st = st].st = st
<1>1. st \in {"none"} \cup OpenStates \cup {"ended"}
  OBVIOUS
<1>2. [row EXCEPT !.st = st].ses = row.ses /\ [row EXCEPT !.st = st].st = st
  BY DEF TermRow
<1>3. [row EXCEPT !.st = st] \in TermRow
  BY <1>1 DEF TermRow
<1> QED
  BY <1>2, <1>3

(* A console that fails the ownership test ends; nothing else changes.     *)
LEMMA ReleasedKeeps ==
    ASSUME NEW tt \in [Terms -> TermRow], NEW ss, NEW s, NEW online, NEW fresh,
           NEW rr, rr = Released(tt, ss, s, online, fresh)
    PROVE  /\ rr \in [Terms -> TermRow]
           /\ \A t \in Terms : rr[t].ses = tt[t].ses /\ (rr[t].st = "none" <=> tt[t].st = "none")
<1> DEFINE u == ss[s].term
<1>1. CASE rr = tt
  BY <1>1
<1>2. CASE IsOpen(tt, u) /\ rr = [tt EXCEPT ![u] = [@ EXCEPT !.st = "ended"]]
  <2> HIDE DEF u
  <2>1. \A t \in Terms : /\ [tt[t] EXCEPT !.st = "ended"] \in TermRow /\ [tt[t] EXCEPT !.st = "ended"].ses = tt[t].ses
                         /\ [tt[t] EXCEPT !.st = "ended"].st = "ended"
    BY EndedTyped
  <2>2. \A t \in Terms : rr[t] = IF t = u THEN [tt[t] EXCEPT !.st = "ended"] ELSE tt[t]
    BY <1>2
  <2>3. rr \in [Terms -> TermRow]
    <3>1. rr = [t \in Terms |-> IF t = u THEN [tt[t] EXCEPT !.st = "ended"] ELSE tt[t]]
      BY <1>2
    <3> QED
      BY <2>1, <3>1
  <2> QED
    BY <1>2, <2>1, <2>2, <2>3 DEF IsOpen, OpenStates
<1> QED
  BY <1>1, <1>2 DEF Released

LEMMA LeastNatural ==
    ASSUME NEW T, T \subseteq Nat, T # {}
    PROVE  \E m \in T : \A n \in T : m <= n
<1> DEFINE R == {ss \in Nat \X Nat : ss[1] < ss[2]}
<1>1. IsWellFoundedOn(R, Nat)
  BY NatLessThanWellFounded DEF OpToRel
<1> HIDE DEF R
<1>2. \E m \in T : \A n \in T : ~(<<n, m>> \in R)
  BY <1>1, WFMin
<1>3. \A m, n \in T : ~(<<n, m>> \in R) => m <= n
  BY DEF R
<1> QED
  BY <1>2, <1>3

(* The newest session with a console is a session, or there is none.       *)
LEMMA PointingTyped ==
    ASSUME NEW ss, NEW newest, NEW at, at = Pointing(ss, newest)
    PROVE  at \in Spawns \cup {0} /\ (at # 0 => ss[at].term # 0)
<1> DEFINE with == {s \in Spawns : ss[s].term # 0}
<1>0. 0 \notin Spawns
  BY ZeroIsNobody
<1>1. CASE newest \in with \/ with = {}
  BY <1>0, <1>1 DEF Pointing
<1>2. CASE newest \notin with /\ with # {}
  <2>1. PICK n \in Nat : Spawns = 1 .. n
    BY Numbered
  <2> DEFINE back == {k \in Nat : n - k \in with}
  <2>2. back \subseteq Nat /\ back # {}
    <3>1. PICK s \in with : TRUE
      BY <1>2
    <3>2. n - s \in Nat /\ n - (n - s) = s
      BY <2>1, <3>1
    <3> QED
      BY <3>1, <3>2
  <2>3. PICK k \in back : \A j \in back : k <= j
    BY <2>2, LeastNatural
  <2>4. \A r \in with : r <= n - k
    <3> SUFFICES ASSUME NEW r \in with PROVE r <= n - k
      OBVIOUS
    <3>1. r \in Nat /\ n - r \in Nat /\ n - (n - r) = r
      BY <2>1
    <3>2. n - r \in back
      BY <3>1
    <3>3. k <= n - r /\ k \in Nat
      BY <2>3, <3>2
    <3> QED
      BY <2>1, <3>1, <3>3
  <2>5. \E s \in with : \A r \in with : r <= s
    BY <2>3, <2>4
  <2>6. at = CHOOSE s \in with : \A r \in with : r <= s
    BY <1>2 DEF Pointing
  <2>7. at \in with
    BY <2>5, <2>6
  <2> QED
    BY <2>7
<1> QED
  BY <1>1, <1>2

(* A new console of session s.                                             *)
LEMMA NewConsoleTyped ==
    ASSUME WorkersTypeOK, NEW s \in Spawns
    PROVE  NewConsole(s) \in TermRow /\ NewConsole(s).ses = s /\ NewConsole(s).st = "starting"
<1> DEFINE known == {r \in Spawns : sp[r].st # "none"}
<1>1. Cardinality(known) \in Nat
  <2>1. PICK n \in Nat : Spawns = 1 .. n
    BY Numbered
  <2>2. IsFiniteSet(Spawns)
    BY <2>1, FS_Interval, 1 \in Int
  <2>3. IsFiniteSet(known)
    BY <2>2, FS_Subset
  <2> QED
    BY <2>3, FS_CardinalityType
<1>2. ebr \in Nat
  BY DEF WorkersTypeOK
<1>3. NoTerm \in TermRow
  BY DEF NoTerm, TermRow
<1>4. NewConsole(s) = [NoTerm EXCEPT !.st = "starting", !.ses = s, !.by = ebr, !.born = Cardinality(known)]
  BY DEF NewConsole
<1> HIDE DEF known
<1>5. "starting" \in {"none"} \cup OpenStates \cup {"ended"} /\ s \in Spawns \cup {0}
  BY DEF OpenStates
<1>6. NewConsole(s) \in TermRow
  BY <1>1, <1>2, <1>3, <1>4, <1>5 DEF TermRow
<1>7. NewConsole(s).ses = s /\ NewConsole(s).st = "starting"
  BY <1>3, <1>4 DEF TermRow
<1> QED
  BY <1>6, <1>7

(* Whether the sessions ss and the consoles tt agree.                      *)
Agree(ss, tt) ==
  /\ ss \in [Spawns -> SessionRow] /\ tt \in [Terms -> TermRow]
  /\ \A t \in Terms : tt[t].st = "none" <=> trm[t].st = "none"
  /\ \A r \in Spawns : ss[r].term # 0 => tt[ss[r].term].st # "none"
  /\ \A r \in Spawns : ss[r].st = "none" => ss[r].term = 0

Bind(ss, tt) == \A r \in Spawns : (ss[r].st = "running" /\ ss[r].term # 0) => tt[ss[r].term].ses = r

(* A console opened for session s, in a table tt and for sessions ss that  *)
(* are as they should be.                                                  *)
LEMMA OpenedKeeps ==
    ASSUME WorkersTypeOK, NEW tt, NEW ss, NEW s \in Spawns, NEW t \in FreeConsole,
           Agree(ss, tt), "session" \in raced' \/ Bind(ss, tt),
           pend' = pend, pend.task = "back" => \A u \in pend.of : trm[u].st # "none",
           trm' = [tt EXCEPT ![t] = NewConsole(s)],
           ses' = [ss EXCEPT ![s] = [st |-> "running", term |-> t]]
    PROVE  /\ trm' \in [Terms -> TermRow] /\ ses' \in [Spawns -> SessionRow]
           /\ PointersExist' /\ Bound'
<1>0. ss \in [Spawns -> SessionRow] /\ tt \in [Terms -> TermRow]
  BY DEF Agree
<1>1. t \in Terms /\ tt[t].st = "none"
  BY DEF FreeConsole, Agree
<1>2. NewConsole(s) \in TermRow /\ NewConsole(s).ses = s /\ NewConsole(s).st = "starting"
  BY NewConsoleTyped
<1>3. [st |-> "running", term |-> t] \in SessionRow
  BY <1>1 DEF SessionRow
<1>4. trm' \in [Terms -> TermRow] /\ ses' \in [Spawns -> SessionRow]
  BY <1>0, <1>1, <1>2, <1>3
<1>5. /\ trm'[t] = NewConsole(s) /\ \A u \in Terms : u # t => trm'[u] = tt[u]
      /\ ses'[s] = [st |-> "running", term |-> t] /\ \A r \in Spawns : r # s => ses'[r] = ss[r]
  BY <1>0, <1>1
<1>6. \A r \in Spawns : ss[r].term # t /\ ss[r].term \in Terms \cup {0}
  BY <1>0, <1>1, ZeroIsNobody DEF SessionRow, Agree
<1>7. PointersExist'
  <2>1. \A r \in Spawns : ses'[r].term # 0 => trm'[ses'[r].term].st # "none"
    BY <1>1, <1>2, <1>5, <1>6 DEF Agree
  <2>2. \A r \in Spawns : ses'[r].st = "none" => ses'[r].term = 0
    BY <1>5 DEF Agree
  <2>3. pend'.task = "back" => \A u \in pend'.of : trm'[u].st # "none"
    BY <1>1, <1>2, <1>5 DEF WorkersTypeOK, Agree
  <2> QED
    BY <2>1, <2>2, <2>3 DEF PointersExist
<1>8. Bound'
  BY <1>1, <1>2, <1>5, <1>6 DEF Bound, Bind
<1> QED
  BY <1>4, <1>7, <1>8

----------------------------------------------------------------------------
(* The steps.                                                              *)

SettledKept == \A s \in Spawns : sp[s].st \in SpawnSettled => sp'[s].st = sp[s].st

LEMMA SameIsJudged ==
    ASSUME WorkersTypeOK, sp' = sp
    PROVE  Judged
BY DEF WorkersTypeOK, Judged

LEMMA Combine ==
    ASSUME WorkersInv, WorkersTypeOK', PointersExist', Bound',
           \/ Inserted
           \/ Judged /\ raced \subseteq raced' /\ (pend'.task = "backstop" => pend.task = "backstop")
    PROVE  WorkersInv' /\ SettledKept
<1>1. Alone'
  BY JudgedKeeps, InsertedKeeps DEF WorkersInv
<1>2. SettledKept
  BY DEF SettledKept, Judged, Inserted, SpawnSettled
<1> QED
  BY <1>1, <1>2 DEF WorkersInv

(* A message to the agent.                                                 *)
LEMMA DispatchKeeps ==
    ASSUME WorkersInv, NEW online, NEW h, NEW fresh, NEW young,
           _launch_recipients_for_dispatch(online, h, fresh, young)
    PROVE  WorkersInv' /\ SettledKept
<1> DEFINE at == Pointing(ses, last)
           tt == Released(trm, ses, at, online, fresh)
           owned == OwnsConsole(trm, ses, at, online, fresh)
           canBack == dfn.ok /\ online /\ SessionToBack # {}
           may == MayColdStart(tt, online, young)
<1>0. /\ WorkersTypeOK /\ UNCHANGED <<ebr, dfn, job, mail, proc, pend>>
      /\ PointersExist /\ Bound
  BY DEF WorkersInv, _launch_recipients_for_dispatch
<1>1. upsets' \in 0 .. MaxUpsets
  BY <1>0, UpsetsTyped DEF WorkersTypeOK, _launch_recipients_for_dispatch
<1>2. trm \in [Terms -> TermRow] /\ ses \in [Spawns -> SessionRow]
  BY <1>0 DEF WorkersTypeOK
<1>3. at \in Spawns \cup {0}
  BY PointingTyped
<1>4. /\ tt \in [Terms -> TermRow]
      /\ \A t \in Terms : tt[t].ses = trm[t].ses /\ (tt[t].st = "none" <=> trm[t].st = "none")
  BY <1>2, ReleasedKeeps
<1>5. \/ owned /\ h < 2 /\ may /\ _coldstart_spawn_request_for_dispatch /\ UNCHANGED <<trm, ses, last>>
      \/ ~owned /\ canBack /\ _ensure_managed_pty_for_dispatch(tt) /\ UNCHANGED <<sp, raced>>
      \/ /\ trm' = tt
         /\ last' = IF tt # trm THEN at ELSE last
         /\ IF may THEN _coldstart_spawn_request_for_dispatch ELSE UNCHANGED <<sp, raced>>
         /\ UNCHANGED ses
  BY DEF _launch_recipients_for_dispatch, _back_managed_claude_with_a_console
<1> HIDE DEF at, tt, owned, canBack
<1>6. CASE may /\ _coldstart_spawn_request_for_dispatch /\ UNCHANGED ses /\ (trm' = trm \/ trm' = tt) /\ last' \in {at, last}
  <2>1. Inserted /\ raced \subseteq raced' /\ raced' \subseteq {"start", "session"}
    BY <1>0, <1>6, ColdStartInserts
  <2>2. Quietly
    BY <1>2, <1>4, <1>6 DEF Quietly
  <2>3. PointersExist' /\ Bound'
    BY <1>0, <2>1, <2>2, QuietlyKeeps
  <2>4. WorkersTypeOK'
    BY <1>0, <1>1, <1>3, <1>6, <2>1, <2>2 DEF WorkersTypeOK, Inserted, Quietly
  <2> QED
    BY <2>1, <2>3, <2>4, Combine
<1>7. CASE UNCHANGED <<sp, raced, ses>> /\ trm' = tt /\ last' \in {at, last}
  <2>1. Judged
    BY <1>0, <1>7, SameIsJudged
  <2>2. Quietly
    BY <1>2, <1>4, <1>7 DEF Quietly
  <2>3. PointersExist' /\ Bound'
    BY <1>0, <1>7, <2>2, QuietlyKeeps
  <2>4. WorkersTypeOK'
    BY <1>0, <1>1, <1>3, <1>7, <2>2 DEF WorkersTypeOK, Quietly
  <2> QED
    BY <1>0, <1>7, <2>1, <2>3, <2>4, Combine
<1>8. CASE _ensure_managed_pty_for_dispatch(tt) /\ UNCHANGED <<sp, raced>>
  <2>1. PICK s \in SessionToBack, t \in FreeConsole :
          trm' = [tt EXCEPT ![t] = NewConsole(s)] /\ ses' = [ses EXCEPT ![s] = [st |-> "running", term |-> t]] /\ last' = s
    BY <1>8 DEF _ensure_managed_pty_for_dispatch
  <2>2. s \in Spawns
    BY DEF SessionToBack, RunningSessions
  <2>3. \A r \in Spawns : ses[r].term # 0 => tt[ses[r].term].st # "none"
    BY <1>0, <1>2, <1>4 DEF PointersExist, SessionRow
  <2>4. \A r \in Spawns : ses[r].st = "none" => ses[r].term = 0
    BY <1>0 DEF PointersExist
  <2>5. pend.task = "back" => \A u \in pend.of : trm[u].st # "none"
    BY <1>0 DEF PointersExist
  <2>6. "session" \in raced' \/ \A r \in Spawns : (ses[r].st = "running" /\ ses[r].term # 0) => tt[ses[r].term].ses = r
    BY <1>0, <1>2, <1>4, <1>8 DEF Bound, SessionRow
  <2>7. /\ trm' \in [Terms -> TermRow] /\ ses' \in [Spawns -> SessionRow]
        /\ PointersExist' /\ Bound'
    <3>1. Agree(ses, tt)
      BY <1>2, <1>4, <2>3, <2>4 DEF Agree
    <3>2. "session" \in raced' \/ Bind(ses, tt)
      BY <2>6 DEF Bind
    <3> QED
      BY <1>0, <2>1, <2>2, <2>5, <3>1, <3>2, OpenedKeeps
  <2>8. WorkersTypeOK'
    BY <1>0, <1>1, <1>8, <2>1, <2>2, <2>7 DEF WorkersTypeOK
  <2>9. Judged
    BY <1>0, <1>8, SameIsJudged
  <2> QED
    BY <1>0, <1>8, <2>7, <2>8, <2>9, Combine
<1> QED
  BY <1>5, <1>6, <1>7, <1>8

(* A request's session runs: the others end, a console may move to it.     *)
SessionsAfter(s, by) == [OthersEnd(s) EXCEPT ![s] = SessionUpserted(s, by)]

LEMMA SettledSessions ==
    ASSUME WorkersInv, NEW s \in Spawns, NEW by \in Nat
    PROVE  /\ Agree(SessionsAfter(s, by), _migrate_bridge_id_onto_live_terminal(s, by))
           /\ SessionsAfter(s, by)[s].st = "running"
           /\ "session" \in raced \/ ses[s].st = "ended"
              \/ Bind(SessionsAfter(s, by), _migrate_bridge_id_onto_live_terminal(s, by))
<1> DEFINE ss == SessionsAfter(s, by)
           moved == _migrate_bridge_id_onto_live_terminal(s, by)
           M == ToMigrate(s, by)
           c == CHOOSE t \in M : TRUE
<1>0. /\ WorkersTypeOK /\ ses \in [Spawns -> SessionRow] /\ trm \in [Terms -> TermRow] /\ PointersExist /\ Bound
  BY DEF WorkersInv, WorkersTypeOK
<1>1. M \subseteq Terms /\ \A t \in M : trm[t].st # "none"
  BY DEF ToMigrate, IsOpen, OpenStates
<1>2. M # {} => c \in M
  OBVIOUS
<1>3. /\ moved \in [Terms -> TermRow]
      /\ \A t \in Terms : moved[t].st = trm[t].st /\ moved[t].ses = IF t \in M THEN s ELSE trm[t].ses
  <2>1. moved = [t \in Terms |-> IF t \in M THEN [trm[t] EXCEPT !.ses = s] ELSE trm[t]]
    BY DEF _migrate_bridge_id_onto_live_terminal
  <2> HIDE DEF M
  <2>2. \A t \in Terms : [trm[t] EXCEPT !.ses = s] \in TermRow
    BY <1>0 DEF TermRow
  <2>3. \A t \in Terms : [trm[t] EXCEPT !.ses = s].ses = s /\ [trm[t] EXCEPT !.ses = s].st = trm[t].st
    BY <1>0 DEF TermRow
  <2> QED
    BY <1>0, <2>1, <2>2, <2>3
<1>4. \A r \in Spawns : \/ OthersEnd(s)[r] = ses[r] /\ ~(r # s /\ ses[r].st = "running")
                        \/ OthersEnd(s)[r] = [st |-> "ended", term |-> ses[r].term]
  <2>1. \A r \in Spawns : [ses[r] EXCEPT !.st = "ended"] = [st |-> "ended", term |-> ses[r].term]
    BY <1>0 DEF SessionRow
  <2> QED
    BY <2>1 DEF OthersEnd
<1>5. \A r \in Spawns : [st |-> "ended", term |-> ses[r].term] \in SessionRow
  BY <1>0 DEF SessionRow
<1>6. OthersEnd(s) \in [Spawns -> SessionRow]
  <2>1. OthersEnd(s) = [r \in Spawns |-> OthersEnd(s)[r]]
    BY DEF OthersEnd
  <2> QED
    BY <1>0, <1>4, <1>5, <2>1
<1>7. PICK u \in Terms \cup {0} : /\ SessionUpserted(s, by) = [st |-> "running", term |-> u]
                                  /\ (u \in M \/ u = ses[s].term)
  <2>1. ses[s].term \in Terms \cup {0}
    BY <1>0 DEF SessionRow
  <2> QED
    BY <1>1, <1>2, <2>1 DEF SessionUpserted
<1>8. [st |-> "running", term |-> u] \in SessionRow
  BY DEF SessionRow
<1>9. /\ ss \in [Spawns -> SessionRow] /\ ss[s] = [st |-> "running", term |-> u]
      /\ \A r \in Spawns : r # s => ss[r] = OthersEnd(s)[r]
  <2>1. ss = [OthersEnd(s) EXCEPT ![s] = [st |-> "running", term |-> u]]
    BY <1>7 DEF SessionsAfter
  <2> HIDE DEF ss
  <2> QED
    BY <1>6, <1>8, <2>1
<1> HIDE DEF M, ss, moved
<1>10. \A r \in Spawns : r # s => ss[r].term = ses[r].term /\ ss[r].st # "running" /\ (ss[r].st = "none" => ses[r].st = "none")
  <2> SUFFICES ASSUME NEW r \in Spawns, r # s
               PROVE  ss[r].term = ses[r].term /\ ss[r].st # "running" /\ (ss[r].st = "none" => ses[r].st = "none")
    OBVIOUS
  <2>1. CASE ss[r] = ses[r] /\ ses[r].st # "running"
    BY <2>1
  <2>2. CASE ss[r] = [st |-> "ended", term |-> ses[r].term]
    BY <2>2
  <2> QED
    BY <1>4, <1>9, <2>1, <2>2
<1>11. \A r \in Spawns : ses[r].term \in Terms \cup {0} /\ (ses[r].term # 0 => trm[ses[r].term].st # "none")
  BY <1>0 DEF SessionRow, PointersExist
<1>12. \A r \in Spawns : ss[r].term # 0 => moved[ss[r].term].st # "none"
  <2>1. u # 0 => moved[u].st # "none"
    BY <1>1, <1>3, <1>7, <1>11, ZeroIsNobody
  <2>2. \A r \in Spawns : r # s => (ss[r].term # 0 => moved[ss[r].term].st # "none")
    BY <1>3, <1>10, <1>11
  <2> QED
    BY <1>9, <2>1, <2>2
<1>13. \A r \in Spawns : ss[r].st = "none" => ss[r].term = 0
  BY <1>0, <1>9, <1>10 DEF PointersExist
<1>14. "session" \in raced \/ ses[s].st = "ended" \/ (u # 0 => moved[u].ses = s)
  <2> SUFFICES ASSUME "session" \notin raced, ses[s].st # "ended", u # 0 PROVE moved[u].ses = s
    OBVIOUS
  <2>1. CASE u \in M
    BY <1>1, <1>3, <2>1
  <2>2. CASE u = ses[s].term
    <3>1. ses[s].st \in {"none", "running"}
      BY <1>0 DEF SessionRow
    <3>2. ses[s].st = "running"
      BY <1>0, <2>2, <3>1 DEF PointersExist
    <3>3. trm[u].ses = s
      BY <1>0, <2>2, <3>2 DEF Bound
    <3> QED
      BY <1>3, <3>3
  <2> QED
    BY <1>7, <2>1, <2>2
<1>15. Agree(ss, moved)
  BY <1>3, <1>9, <1>12, <1>13 DEF Agree
<1>16. ss[s].st = "running" /\ ("session" \in raced \/ ses[s].st = "ended" \/ Bind(ss, moved))
  BY <1>9, <1>10, <1>14 DEF Bind
<1> QED
  BY <1>15, <1>16 DEF ss, moved

(* A report on a request.                                                  *)
LEMMA ReportKeeps ==
    ASSUME WorkersInv, NEW m \in [spawn : Spawns, st : {"starting", "running", "failed"}, by : Nat], NEW online, NEW fresh,
           update_spawn_request(m, online, fresh),
           UNCHANGED <<ebr, dfn, proc, pend>>, upsets' \in 0 .. MaxUpsets, job' \subseteq Spawns, mail' \subseteq Reports
    PROVE  WorkersInv' /\ SettledKept
<1> DEFINE s == m.spawn
<1>0. /\ WorkersTypeOK /\ PointersExist /\ Bound /\ s \in Spawns /\ m.by \in Nat
      /\ sp \in [Spawns -> SpawnRow] /\ raced \subseteq {"start", "session"}
      /\ trm \in [Terms -> TermRow] /\ ses \in [Spawns -> SessionRow]
  BY DEF WorkersInv, WorkersTypeOK
<1>1. CASE UNCHANGED <<sp, ses, trm, last, raced>>
  <2>1. Judged
    BY <1>0, <1>1, SameIsJudged
  <2>2. WorkersTypeOK' /\ PointersExist' /\ Bound'
    BY <1>0, <1>1 DEF WorkersTypeOK, PointersExist, Bound
  <2> QED
    BY <1>1, <2>1, <2>2, Combine
<1>2. CASE AcceptsReport(m) /\ sp' = [sp EXCEPT ![s] = [@ EXCEPT !.st = m.st]]
  <2>1. Judged
    <3>1. sp' = [r \in Spawns |-> IF r \in {s} THEN [sp[r] EXCEPT !.st = m.st] ELSE sp[r]]
      BY <1>0, <1>2
    <3>2. \A r \in {s} \cap Spawns : sp[r].st \notin SpawnSettled \/ sp[r].st = m.st
      BY <1>2 DEF AcceptsReport
    <3>3. m.st \in {"starting", "running", "failed", "cancelled"}
      OBVIOUS
    <3> QED
      BY <1>0, <3>1, <3>2, <3>3, MarkedIsJudged
  <2>2. sp' \in [Spawns -> SpawnRow]
    BY <2>1 DEF Judged
  <2>3. CASE UNCHANGED <<ses, trm, last, raced>>
    <3>1. WorkersTypeOK' /\ PointersExist' /\ Bound'
      BY <1>0, <2>2, <2>3 DEF WorkersTypeOK, PointersExist, Bound
    <3> QED
      BY <2>1, <2>3, <3>1, Combine
  <2>4. CASE _settle_running_spawn(s, m.by, online, fresh)
    <3> DEFINE ss == SessionsAfter(s, m.by)
               moved == _migrate_bridge_id_onto_live_terminal(s, m.by)
               tt == Released(moved, ss, Pointing(ss, s), online, fresh)
    <3>1. /\ last' = s
          /\ raced' = IF ses[s].st = "ended" THEN raced \cup {"session"} ELSE raced
          /\ \/ \E t \in FreeConsole : trm' = [tt EXCEPT ![t] = NewConsole(s)] /\ ses' = [ss EXCEPT ![s] = [@ EXCEPT !.term = t]]
             \/ trm' = tt /\ ses' = ss
      BY <2>4 DEF _settle_running_spawn, SessionsAfter
    <3>2. Agree(ss, moved) /\ ss[s].st = "running" /\ ("session" \in raced \/ ses[s].st = "ended" \/ Bind(ss, moved))
      BY <1>0, SettledSessions
    <3> HIDE DEF ss, moved, s
    <3>3. /\ tt \in [Terms -> TermRow]
          /\ \A t \in Terms : tt[t].ses = moved[t].ses /\ (tt[t].st = "none" <=> moved[t].st = "none")
      BY <3>2, ReleasedKeeps DEF Agree
    <3> HIDE DEF tt
    <3>4. Agree(ss, tt)
      BY <3>2, <3>3 DEF Agree, SessionRow
    <3>5. raced \subseteq raced' /\ raced' \subseteq {"start", "session"} /\ last' \in Spawns
      BY <1>0, <3>1
    <3>6. "session" \in raced' \/ Bind(ss, tt)
      BY <3>1, <3>2, <3>3 DEF Bind, Agree, SessionRow
    <3>7. trm' \in [Terms -> TermRow] /\ ses' \in [Spawns -> SessionRow] /\ PointersExist' /\ Bound'
      <4>0. pend' = pend /\ (pend.task = "back" => \A t \in pend.of : trm[t].st # "none")
        BY <1>0 DEF PointersExist
      <4>1. CASE trm' = tt /\ ses' = ss
        <5>1. PointersExist'
          BY <1>0, <3>4, <4>0, <4>1 DEF PointersExist, WorkersTypeOK, Agree
        <5>2. Bound'
          BY <3>6, <4>1 DEF Bound, Bind
        <5> QED
          BY <3>4, <4>1, <5>1, <5>2 DEF Agree
      <4>2. ASSUME NEW t \in FreeConsole, trm' = [tt EXCEPT ![t] = NewConsole(s)], ses' = [ss EXCEPT ![s] = [@ EXCEPT !.term = t]]
            PROVE  trm' \in [Terms -> TermRow] /\ ses' \in [Spawns -> SessionRow] /\ PointersExist' /\ Bound'
        <5>1. [ss[s] EXCEPT !.term = t] = [st |-> "running", term |-> t]
          BY <1>0, <3>2 DEF SessionRow, Agree
        <5>2. ses' = [ss EXCEPT ![s] = [st |-> "running", term |-> t]]
          BY <4>2, <5>1
        <5> QED
          BY <1>0, <3>4, <3>6, <4>0, <4>2, <5>2, OpenedKeeps
      <4> QED
        BY <3>1, <4>1, <4>2
    <3>8. WorkersTypeOK'
      BY <1>0, <2>2, <3>5, <3>7 DEF WorkersTypeOK
    <3> QED
      BY <2>1, <3>5, <3>7, <3>8, Combine
  <2> QED
    BY <1>2, <2>3, <2>4 DEF update_spawn_request
<1> QED
  BY <1>1, <1>2 DEF update_spawn_request

(***************************************************************************)
(* The steps that open no console and move none.                           *)
(***************************************************************************)
(* What such a step may do to the rest of the state.                       *)
Aside ==
  /\ last' \in Spawns \cup {0} /\ ebr' \in Nat /\ dfn' \in [rev : Nat, ok : BOOLEAN]
  /\ job' \subseteq Spawns /\ mail' \subseteq Reports /\ proc' \in [Terms -> {"none", "up", "gone"}]
  /\ upsets' \in 0 .. MaxUpsets /\ raced' = raced
  /\ \/ pend' = pend
     \/ pend'.task \in {"none", "dead", "ghosts", "sessions"}
     \/ pend'.task = "orphans" /\ \A o \in pend'.of : o[2] \in {"claimed", "starting", "running"}
     \/ pend'.task = "back" /\ pend'.of \subseteq Terms /\ \A t \in pend'.of : trm[t].st # "none"

LEMMA QuietStep ==
    ASSUME WorkersInv, Judged, Quietly, Aside
    PROVE  WorkersInv' /\ SettledKept
<1>1. WorkersTypeOK /\ PointersExist /\ Bound
  BY DEF WorkersInv
<1>2. WorkersTypeOK'
  BY <1>1 DEF WorkersTypeOK, Judged, Quietly, Aside, Tasks
<1>3. PointersExist' /\ Bound'
  BY <1>1, QuietlyKeeps DEF Aside
<1>4. raced \subseteq raced' /\ (pend'.task = "backstop" => pend.task = "backstop")
  BY DEF Aside
<1> QED
  BY <1>2, <1>3, <1>4, Combine

LEMMA SameIsQuiet ==
    ASSUME WorkersTypeOK, trm' = trm, ses' = ses
    PROVE  Quietly
BY DEF WorkersTypeOK, Quietly

(* One console is written, and stays with its session.                     *)
LEMMA ConsoleWritten ==
    ASSUME WorkersTypeOK, NEW t \in Terms, NEW row \in TermRow, row.ses = trm[t].ses, row.st # "none",
           trm' = [trm EXCEPT ![t] = row], ses' = ses
    PROVE  Quietly
BY DEF WorkersTypeOK, Quietly

(* One console changes its status.                                         *)
LEMMA ConsoleMoves ==
    ASSUME WorkersTypeOK, NEW t \in Terms, NEW st \in OpenStates \cup {"ended"},
           trm' = [trm EXCEPT ![t] = [@ EXCEPT !.st = st]], ses' = ses
    PROVE  Quietly
<1>1. trm[t] \in TermRow /\ st # "none"
  BY DEF WorkersTypeOK, OpenStates
<1>2. /\ [trm[t] EXCEPT !.st = st] \in TermRow /\ [trm[t] EXCEPT !.st = st].ses = trm[t].ses
      /\ [trm[t] EXCEPT !.st = st].st = st
  BY <1>1, EndedTyped
<1>3. trm' = [trm EXCEPT ![t] = [trm[t] EXCEPT !.st = st]]
  OBVIOUS
<1> QED
  BY <1>1, <1>2, <1>3, ConsoleWritten

(* The consoles' own steps.                                                *)
LEMMA ConsoleStepsKeep ==
    ASSUME WorkersInv, NEW t \in Terms,
           \/ ConsoleStarts(t) \/ HostReportsConsole(t) \/ ProcessExits(t) \/ StartGivenUp(t)
           \/ _close_out_terminal_on_end_status(t) \/ report_terminal_dead(t)
    PROVE  WorkersInv' /\ SettledKept
<1>0. WorkersTypeOK /\ sp \in [Spawns -> SpawnRow]
  BY DEF WorkersInv, WorkersTypeOK
<1>1. CASE ConsoleStarts(t)
  <2>1. Quietly
    BY <1>0, <1>1, ConsoleMoves DEF ConsoleStarts, OpenStates
  <2>2. Judged /\ Aside
    BY <1>0, <1>1, SameIsJudged DEF ConsoleStarts, Aside, WorkersTypeOK
  <2> QED BY <2>1, <2>2, QuietStep
<1>2. CASE HostReportsConsole(t)
  <2>1. trm[t] \in TermRow
    BY <1>0 DEF WorkersTypeOK
  <2>2. Quietly
    BY <1>0, <1>2, <2>1 DEF HostReportsConsole, Quietly, WorkersTypeOK, TermRow
  <2>3. Judged /\ Aside
    BY <1>0, <1>2, SameIsJudged DEF HostReportsConsole, Aside, WorkersTypeOK
  <2> QED BY <2>2, <2>3, QuietStep
<1>3. CASE ProcessExits(t)
  <2>1. Quietly
    BY <1>0, <1>3, SameIsQuiet DEF ProcessExits
  <2>2. Judged /\ Aside
    BY <1>0, <1>3, SameIsJudged DEF ProcessExits, Aside, WorkersTypeOK
  <2> QED BY <2>1, <2>2, QuietStep
<1>4. CASE StartGivenUp(t)
  <2>1. Quietly
    BY <1>0, <1>4, ConsoleMoves DEF StartGivenUp
  <2>2. Judged /\ Aside
    BY <1>0, <1>4, SameIsJudged DEF StartGivenUp, Aside, WorkersTypeOK
  <2> QED BY <2>1, <2>2, QuietStep
<1>5. CASE _close_out_terminal_on_end_status(t)
  <2>1. Quietly
    BY <1>0, <1>5, ConsoleMoves DEF _close_out_terminal_on_end_status
  <2>2. Judged
    <3> DEFINE which == {s \in Spawns : s = trm[t].ses /\ sp[s].st = "running"
                                       /\ \A u \in ConsolesOf(trm, s) \ {t} : ~IsOpen(trm, u)}
    <3>1. sp' = [s \in Spawns |-> IF s \in which THEN [sp[s] EXCEPT !.st = "failed"] ELSE sp[s]]
      BY <1>5 DEF _close_out_terminal_on_end_status
    <3>2. \A s \in which \cap Spawns : sp[s].st \notin SpawnSettled
      BY DEF SpawnSettled
    <3> HIDE DEF which
    <3> QED BY <1>0, <3>1, <3>2, MarkedIsJudged
  <2>3. Aside
    BY <1>0, <1>5 DEF _close_out_terminal_on_end_status, Aside, WorkersTypeOK
  <2> QED BY <2>1, <2>2, <2>3, QuietStep
<1>6. CASE report_terminal_dead(t)
  <2>1. Quietly
    BY <1>0, <1>6, ConsoleMoves DEF report_terminal_dead
  <2>2. Judged
    <3> DEFINE which == {s \in Spawns : s = trm[t].ses /\ sp[s].st = "running"}
    <3>1. sp' = [s \in Spawns |-> IF s \in which THEN [sp[s] EXCEPT !.st = "failed"] ELSE sp[s]]
      BY <1>6 DEF report_terminal_dead
    <3>2. \A s \in which \cap Spawns : sp[s].st \notin SpawnSettled
      BY DEF SpawnSettled
    <3> HIDE DEF which
    <3> QED BY <1>0, <3>1, <3>2, MarkedIsJudged
  <2>3. Aside
    BY <1>0, <1>6 DEF report_terminal_dead, Aside, WorkersTypeOK
  <2> QED BY <2>1, <2>2, <2>3, QuietStep
<1> QED
  BY <1>1, <1>2, <1>3, <1>4, <1>5, <1>6

(* What the host reports, once or again.                                   *)
LEMMA HostReportsKeep ==
    ASSUME WorkersInv, NEW s \in Spawns, NEW phase \in {"starting", "running", "failed"}, NEW online, NEW fresh,
           HostReports(s, phase, online, fresh)
    PROVE  WorkersInv' /\ SettledKept
<1> DEFINE m == [spawn |-> s, st |-> phase, by |-> sp[s].by]
<1>0. WorkersTypeOK
  BY DEF WorkersInv
<1>1. m \in [spawn : Spawns, st : {"starting", "running", "failed"}, by : Nat]
  BY <1>0 DEF WorkersTypeOK, SpawnRow
<1>2. phase # "failed" => m \in Reports
  BY <1>1 DEF Reports
<1>3. /\ update_spawn_request(m, online, fresh) /\ UNCHANGED <<ebr, dfn, proc, pend>>
      /\ job' \subseteq job /\ (mail' = mail \/ (phase # "failed" /\ mail' = mail \cup {m}))
      /\ Upset \/ Reads(online, 3, fresh)
  BY DEF HostReports
<1>4. upsets' \in 0 .. MaxUpsets
  BY <1>0, <1>3, UpsetsTyped DEF WorkersTypeOK
<1>5. job' \subseteq Spawns /\ mail' \subseteq Reports
  BY <1>0, <1>2, <1>3 DEF WorkersTypeOK
<1> HIDE DEF m
<1> QED
  BY <1>1, <1>3, <1>4, <1>5, ReportKeeps

LEMMA RepeatedKeeps ==
    ASSUME WorkersInv, NEW m \in mail, NEW online, NEW fresh, ReportRepeated(m, online, fresh)
    PROVE  WorkersInv' /\ SettledKept
<1>0. WorkersTypeOK
  BY DEF WorkersInv
<1>1. m \in [spawn : Spawns, st : {"starting", "running", "failed"}, by : Nat]
  BY <1>0 DEF WorkersTypeOK, Reports
<1>2. /\ update_spawn_request(m, online, fresh) /\ UNCHANGED <<ebr, dfn, proc, pend, job>>
      /\ mail' = mail \ {m} /\ Reads(online, 3, fresh)
  BY DEF ReportRepeated
<1>3. upsets' \in 0 .. MaxUpsets
  BY <1>0, <1>2, UpsetsTyped DEF WorkersTypeOK
<1>4. job' \subseteq Spawns /\ mail' \subseteq Reports
  BY <1>0, <1>2 DEF WorkersTypeOK
<1> QED
  BY <1>1, <1>2, <1>3, <1>4, ReportKeeps

(* Claims, stops, definitions and hosts.                                   *)
LEMMA OutsideKeeps ==
    ASSUME WorkersInv,
           \/ _claim_spawn_request_once \/ DefinitionChanges \/ HostRestarts
           \/ \E s \in Spawns : control_session(s) \/ _fail_running_spawns_superseded_by_current_session(s)
    PROVE  WorkersInv' /\ SettledKept
<1>0. /\ WorkersTypeOK /\ sp \in [Spawns -> SpawnRow] /\ ses \in [Spawns -> SessionRow]
      /\ trm \in [Terms -> TermRow] /\ ebr \in Nat /\ job \subseteq Spawns
  BY DEF WorkersInv, WorkersTypeOK
<1>1. CASE _claim_spawn_request_once
  <2>1. PICK s \in Spawns : /\ sp[s].st = "queued" /\ job' = job \cup {s}
                            /\ sp' = [sp EXCEPT ![s] = [@ EXCEPT !.st = "claimed", !.by = ebr]]
    BY <1>1 DEF _claim_spawn_request_once
  <2>2. Quietly
    BY <1>0, <1>1, SameIsQuiet DEF _claim_spawn_request_once
  <2>3. Judged
    <3>1. [sp[s] EXCEPT !.st = "claimed", !.by = ebr] \in SpawnRow
      BY <1>0 DEF SpawnRow
    <3> QED BY <1>0, <2>1, <3>1 DEF Judged, SpawnSettled
  <2>4. Aside
    BY <1>0, <1>1, <2>1 DEF _claim_spawn_request_once, Aside, WorkersTypeOK
  <2> QED BY <2>2, <2>3, <2>4, QuietStep
<1>2. CASE DefinitionChanges
  <2>1. Quietly /\ Judged
    BY <1>0, <1>2, SameIsQuiet, SameIsJudged DEF DefinitionChanges
  <2>2. upsets' \in 0 .. MaxUpsets
    BY <1>0, <1>2, UpsetsTyped DEF DefinitionChanges, WorkersTypeOK
  <2>3. dfn' \in [rev : Nat, ok : BOOLEAN]
    <3>1. dfn.rev + 1 \in Nat /\ dfn' = [rev |-> dfn.rev + 1, ok |-> ~dfn.ok]
      BY <1>0, <1>2 DEF DefinitionChanges, WorkersTypeOK
    <3>2. (~dfn.ok) \in BOOLEAN
      BY Zenon
    <3> QED BY <3>1, <3>2, Zenon
  <2>4. Aside
    BY <1>0, <1>2, <2>2, <2>3 DEF DefinitionChanges, Aside, WorkersTypeOK
  <2> QED BY <2>1, <2>4, QuietStep
<1>3. CASE HostRestarts
  <2>1. Quietly /\ Judged
    BY <1>0, <1>3, SameIsQuiet, SameIsJudged DEF HostRestarts
  <2>2. upsets' \in 0 .. MaxUpsets
    BY <1>0, <1>3, UpsetsTyped DEF HostRestarts, WorkersTypeOK
  <2>3. Aside
    BY <1>0, <1>3, <2>2 DEF HostRestarts, Aside, WorkersTypeOK
  <2> QED BY <2>1, <2>3, QuietStep
<1>4. ASSUME NEW s \in Spawns, control_session(s)
      PROVE  WorkersInv' /\ SettledKept
  <2>1. Judged
    <3> DEFINE which == {r \in Spawns : sp[r].st \in {"queued", "claimed", "starting"}}
    <3>1. sp' = [r \in Spawns |-> IF r \in which THEN [sp[r] EXCEPT !.st = "cancelled"] ELSE sp[r]]
      BY <1>4 DEF control_session
    <3>2. \A r \in which \cap Spawns : sp[r].st \notin SpawnSettled
      BY DEF SpawnSettled
    <3> HIDE DEF which
    <3> QED BY <1>0, <3>1, <3>2, MarkedIsJudged
  <2>2. Quietly
    <3>1. ses' = [ses EXCEPT ![s] = [@ EXCEPT !.st = "ended"]] /\ trm' = trm
      BY <1>4 DEF control_session
    <3>2. /\ [ses[s] EXCEPT !.st = "ended"] \in SessionRow /\ [ses[s] EXCEPT !.st = "ended"].term = ses[s].term
          /\ [ses[s] EXCEPT !.st = "ended"].st = "ended"
      BY <1>0 DEF SessionRow
    <3> QED BY <1>0, <3>1, <3>2 DEF Quietly
  <2>3. Aside
    BY <1>0, <1>4 DEF control_session, Aside, WorkersTypeOK
  <2> QED BY <2>1, <2>2, <2>3, QuietStep
<1>5. ASSUME NEW s \in Spawns, _fail_running_spawns_superseded_by_current_session(s)
      PROVE  WorkersInv' /\ SettledKept
  <2>1. Judged
    <3> DEFINE which == {r \in Spawns : r < s /\ sp[r].st = "running"}
    <3>1. sp' = [r \in Spawns |-> IF r \in which THEN [sp[r] EXCEPT !.st = "failed"] ELSE sp[r]]
      BY <1>5 DEF _fail_running_spawns_superseded_by_current_session
    <3>2. \A r \in which \cap Spawns : sp[r].st \notin SpawnSettled
      BY DEF SpawnSettled
    <3> HIDE DEF which
    <3> QED BY <1>0, <3>1, <3>2, MarkedIsJudged
  <2>2. Quietly
    BY <1>0, <1>5, SameIsQuiet DEF _fail_running_spawns_superseded_by_current_session, Books
  <2>3. Aside
    BY <1>0, <1>5 DEF _fail_running_spawns_superseded_by_current_session, Books, Outside, Aside, WorkersTypeOK
  <2> QED BY <2>1, <2>2, <2>3, QuietStep
<1> QED
  BY <1>1, <1>2, <1>3, <1>4, <1>5

(* The sweeps' reads.  The backstop decides only where no request waits.   *)
LEMMA ReadsKeep ==
    ASSUME WorkersInv, SweepReads
    PROVE  WorkersInv' /\ SettledKept
<1>0. WorkersTypeOK /\ PointersExist /\ Bound /\ dfn.rev \in Nat
  BY DEF WorkersInv, WorkersTypeOK
<1>1. /\ UNCHANGED <<sp, ses, trm, last, ebr, dfn, job, mail, proc, raced>>
      /\ upsets' = upsets \/ \E online, h, fresh : Reads(online, h, fresh)
  BY DEF SweepReads, OrphansRead, DeadRead, DeadSessionsRead, GhostsRead, ResurrectedRead, BackstopReads, Books, Outside
<1>2. upsets' \in 0 .. MaxUpsets
  BY <1>0, <1>1, UpsetsTyped DEF WorkersTypeOK
<1>3. Judged /\ Quietly
  BY <1>0, <1>1, SameIsJudged, SameIsQuiet
<1>4. CASE \/ pend'.task \in {"dead", "ghosts", "sessions"}
           \/ pend'.task = "orphans" /\ \A o \in pend'.of : o[2] \in {"claimed", "starting", "running"}
  <2>1. Aside
    BY <1>0, <1>1, <1>2, <1>4 DEF Aside, WorkersTypeOK
  <2> QED BY <1>3, <2>1, QuietStep
<1>5. ASSUME NEW t \in Terms, ResurrectedRead(t)
      PROVE  WorkersInv' /\ SettledKept
  <2>1. pend' = [task |-> "back", of |-> {t}] /\ trm[t].st = "ended"
    BY <1>5 DEF ResurrectedRead
  <2>2. pend'.task = "back" /\ pend'.of \subseteq Terms /\ \A u \in pend'.of : trm[u].st # "none"
    BY <2>1
  <2>3. Aside
    BY <1>0, <1>1, <1>2, <2>2 DEF Aside, WorkersTypeOK
  <2> QED BY <1>3, <2>3, QuietStep
<1>6. ASSUME NEW young, BackstopReads(young)
      PROVE  WorkersInv' /\ SettledKept
  <2>1. pend'.task = "backstop" /\ pend'.of \subseteq Nat
    BY <1>0, <1>6 DEF BackstopReads
  <2>2. Waiting' = {}
    BY <1>1, <1>6 DEF BackstopReads, MayColdStart, _has_pending_or_booting_spawn_request, Waiting
  <2>3. WorkersTypeOK'
    BY <1>0, <1>1, <1>2, <2>1 DEF WorkersTypeOK, Tasks
  <2>4. PointersExist' /\ Bound' /\ SettledKept
    BY <1>0, <1>1, <2>1 DEF PointersExist, Bound, SettledKept
  <2>5. Alone'
    BY <2>2 DEF Alone
  <2> QED BY <2>3, <2>4, <2>5 DEF WorkersInv
<1>7. \/ pend'.task \in {"dead", "ghosts", "sessions"}
      \/ pend'.task = "orphans" /\ \A o \in pend'.of : o[2] \in {"claimed", "starting", "running"}
      \/ \E t \in Terms : ResurrectedRead(t)
      \/ \E young : BackstopReads(young)
  <2>1. \A online, waited : OrphansRead(online, waited) =>
          pend'.task = "orphans" /\ \A o \in pend'.of : o[2] \in {"claimed", "starting", "running"}
    BY DEF OrphansRead, Overdue
  <2>2. \A fresh : GhostsRead(fresh) => pend'.task = "ghosts"
    BY DEF GhostsRead
  <2>3. (DeadRead => pend'.task = "dead") /\ (DeadSessionsRead => pend'.task = "sessions")
    BY DEF DeadRead, DeadSessionsRead
  <2> QED
    BY <2>1, <2>2, <2>3 DEF SweepReads
<1> QED
  BY <1>4, <1>5, <1>6, <1>7

(* A running session takes the console of one that has ended.              *)
LEMMA RebindKeeps ==
    ASSUME WorkersInv, NEW c \in Spawns, NEW o \in Spawns, rebind_orphaned_live_consoles(c, o)
    PROVE  WorkersInv' /\ SettledKept
<1> DEFINE u == ses[o].term
<1>0. /\ WorkersTypeOK /\ PointersExist /\ Bound
      /\ ses \in [Spawns -> SessionRow] /\ trm \in [Terms -> TermRow]
  BY DEF WorkersInv, WorkersTypeOK
<1>1. /\ ses[c].st = "running" /\ ses[c].term = 0 /\ ses[o].st = "ended" /\ u # 0 /\ trm[u].st = "attached"
      /\ \A r \in Spawns \ {c} : ses[r].st = "running" => ses[r].term = 0
      /\ ses' = [ses EXCEPT ![c] = [@ EXCEPT !.term = u], ![o] = [@ EXCEPT !.term = 0]]
      /\ trm' = [trm EXCEPT ![u] = [@ EXCEPT !.ses = c]]
      /\ last' = c /\ UNCHANGED <<sp, pend, ebr, dfn, job, mail, proc, raced, upsets>>
  BY DEF rebind_orphaned_live_consoles, Outside
<1>2. u \in Terms /\ c # o
  BY <1>0, <1>1 DEF SessionRow
<1>3. /\ [ses[c] EXCEPT !.term = u] = [st |-> "running", term |-> u]
      /\ [ses[o] EXCEPT !.term = 0] = [st |-> "ended", term |-> 0]
  BY <1>0, <1>1 DEF SessionRow
<1>4. [st |-> "running", term |-> u] \in SessionRow /\ [st |-> "ended", term |-> 0] \in SessionRow
  BY <1>2 DEF SessionRow
<1>5. /\ [trm[u] EXCEPT !.ses = c] \in TermRow /\ [trm[u] EXCEPT !.ses = c].ses = c
      /\ [trm[u] EXCEPT !.ses = c].st = trm[u].st
  BY <1>0, <1>2 DEF TermRow
<1> HIDE DEF u
<1>6. /\ ses' \in [Spawns -> SessionRow] /\ ses'[c] = [st |-> "running", term |-> u]
      /\ ses'[o] = [st |-> "ended", term |-> 0] /\ \A r \in Spawns \ {c, o} : ses'[r] = ses[r]
  BY <1>0, <1>1, <1>2, <1>3, <1>4
<1>7. /\ trm' \in [Terms -> TermRow] /\ trm'[u].ses = c
      /\ \A t \in Terms : trm'[t].st = trm[t].st
  BY <1>0, <1>1, <1>2, <1>5
<1>8. \A r \in Spawns : ses[r].term \in Terms \cup {0}
  BY <1>0 DEF SessionRow
<1>9. PointersExist'
  <2>1. \A r \in Spawns : ses'[r].term # 0 => trm'[ses'[r].term].st # "none"
    BY <1>0, <1>1, <1>2, <1>6, <1>7, <1>8 DEF PointersExist
  <2>2. \A r \in Spawns : ses'[r].st = "none" => ses'[r].term = 0
    BY <1>0, <1>6 DEF PointersExist
  <2>3. pend'.task = "back" => \A t \in pend'.of : trm'[t].st # "none"
    BY <1>0, <1>1, <1>7 DEF PointersExist, WorkersTypeOK
  <2> QED BY <2>1, <2>2, <2>3 DEF PointersExist
<1>10. Bound'
  BY <1>1, <1>6, <1>7 DEF Bound
<1>11. WorkersTypeOK'
  BY <1>0, <1>1, <1>6, <1>7 DEF WorkersTypeOK
<1>12. Judged
  BY <1>0, <1>1, SameIsJudged
<1> QED
  BY <1>1, <1>9, <1>10, <1>11, <1>12, Combine

(* The sweep that brings a console back runs the session it names.         *)
LEMMA ResurrectedKeeps ==
    ASSUME WorkersInv, _reconcile_resurrected_managed_consoles
    PROVE  WorkersInv' /\ SettledKept
<1>0. /\ WorkersTypeOK /\ PointersExist /\ Bound
      /\ ses \in [Spawns -> SessionRow] /\ trm \in [Terms -> TermRow]
  BY DEF WorkersInv, WorkersTypeOK
<1>1. PICK t \in pend.of :
        /\ trm' = IF trm[t].st = "ended"
                  THEN [trm EXCEPT ![t] = [@ EXCEPT !.st = "attached", !.ghost = FALSE, !.after = FALSE]] ELSE trm
        /\ ses' = [ses EXCEPT ![trm[t].ses] = [st |-> "running", term |-> t]]
        /\ last' = trm[t].ses
  BY DEF _reconcile_resurrected_managed_consoles
<1>2. /\ pend' = Nothing /\ UNCHANGED <<sp, ebr, dfn, job, mail, proc, raced, upsets>>
      /\ t \in Terms /\ trm[t].st # "none"
  BY <1>0 DEF _reconcile_resurrected_managed_consoles, Outside, WorkersTypeOK, PointersExist
<1> DEFINE o == trm[t].ses
           row == [trm[t] EXCEPT !.st = "attached", !.ghost = FALSE, !.after = FALSE]
<1>3. o \in Spawns \cup {0}
  BY <1>0, <1>2 DEF TermRow
<1>4. row \in TermRow /\ row.ses = o /\ row.st = "attached"
  <2>1. row.ses = o /\ row.st = "attached"
    BY <1>0, <1>2 DEF TermRow
  <2>2. "attached" \in {"none"} \cup OpenStates \cup {"ended"} /\ trm[t] \in TermRow
    BY <1>0, <1>2 DEF OpenStates
  <2>3. row \in TermRow
    BY <2>2 DEF TermRow
  <2> QED BY <2>1, <2>3
<1>5. trm' = trm \/ trm' = [trm EXCEPT ![t] = row]
  BY <1>1
<1> HIDE DEF row
<1>6. /\ trm' \in [Terms -> TermRow]
      /\ \A u \in Terms : trm'[u].ses = trm[u].ses /\ (trm[u].st # "none" => trm'[u].st # "none")
  BY <1>0, <1>2, <1>4, <1>5
<1>7. [st |-> "running", term |-> t] \in SessionRow
  BY <1>2 DEF SessionRow
<1>8. ses' = [r \in Spawns |-> IF r = o THEN [st |-> "running", term |-> t] ELSE ses[r]]
  BY <1>0, <1>1
<1>9. ses' \in [Spawns -> SessionRow]
  BY <1>0, <1>7, <1>8
<1>10. \A r \in Spawns : IF r = o THEN ses'[r].st = "running" /\ ses'[r].term = t ELSE ses'[r] = ses[r]
  BY <1>8
<1>11. \A r \in Spawns : ses[r].term \in Terms \cup {0}
  BY <1>0 DEF SessionRow
<1>12. PointersExist'
  <2>1. \A r \in Spawns : ses'[r].term # 0 => trm'[ses'[r].term].st # "none"
    BY <1>0, <1>2, <1>6, <1>10, <1>11 DEF PointersExist
  <2>2. \A r \in Spawns : ses'[r].st = "none" => ses'[r].term = 0
    BY <1>0, <1>10 DEF PointersExist
  <2> QED BY <1>2, <2>1, <2>2 DEF PointersExist, Nothing
<1>13. Bound'
  BY <1>0, <1>2, <1>6, <1>10, <1>11 DEF Bound
<1>14. WorkersTypeOK'
  BY <1>0, <1>1, <1>2, <1>3, <1>6, <1>9 DEF WorkersTypeOK, Nothing, Tasks
<1>15. Judged
  BY <1>0, <1>2, SameIsJudged
<1> QED
  BY <1>2, <1>12, <1>13, <1>14, <1>15, Combine DEF Nothing

(* The sweeps' other writes.                                               *)
LEMMA WritesKeep ==
    ASSUME WorkersInv, SweepWrites
    PROVE  WorkersInv' /\ SettledKept
<1>0. /\ WorkersTypeOK /\ PointersExist /\ Bound /\ Alone /\ sp \in [Spawns -> SpawnRow]
      /\ ses \in [Spawns -> SessionRow] /\ trm \in [Terms -> TermRow]
  BY DEF WorkersInv, WorkersTypeOK
<1>1. CASE _fail_orphaned_running_spawn_requests
  <2>1. Judged
    <3> DEFINE which == {s \in Spawns : \E o \in pend.of : o[1] = s /\ OrphanStands(o)}
    <3>1. sp' = [s \in Spawns |-> IF s \in which THEN [sp[s] EXCEPT !.st = "failed"] ELSE sp[s]]
      BY <1>1 DEF _fail_orphaned_running_spawn_requests
    <3>2. \A s \in which \cap Spawns : sp[s].st \notin SpawnSettled
      <4>1. pend.task = "orphans"
        BY <1>1 DEF _fail_orphaned_running_spawn_requests
      <4>2. \A o \in pend.of : o[2] \in {"claimed", "starting", "running"}
        BY <1>0, <4>1 DEF WorkersTypeOK
      <4> QED BY <4>2 DEF OrphanStands, SpawnSettled
    <3> HIDE DEF which
    <3> QED BY <1>0, <3>1, <3>2, MarkedIsJudged
  <2>2. Quietly
    BY <1>0, <1>1, SameIsQuiet DEF _fail_orphaned_running_spawn_requests, Books
  <2>3. Aside
    BY <1>0, <1>1 DEF _fail_orphaned_running_spawn_requests, Books, Outside, Aside, WorkersTypeOK, Nothing
  <2> QED BY <2>1, <2>2, <2>3, QuietStep
<1>2. CASE _finalize_spawns_with_dead_terminals
  <2>1. Judged
    <3> DEFINE which == {s \in Spawns : s \in pend.of /\ sp[s].st \in {"starting", "running"}}
    <3>1. sp' = [s \in Spawns |-> IF s \in which THEN [sp[s] EXCEPT !.st = "failed"] ELSE sp[s]]
      BY <1>2 DEF _finalize_spawns_with_dead_terminals
    <3>2. \A s \in which \cap Spawns : sp[s].st \notin SpawnSettled
      BY DEF SpawnSettled
    <3> HIDE DEF which
    <3> QED BY <1>0, <3>1, <3>2, MarkedIsJudged
  <2>2. Quietly
    BY <1>0, <1>2, SameIsQuiet DEF _finalize_spawns_with_dead_terminals, Books
  <2>3. Aside
    BY <1>0, <1>2 DEF _finalize_spawns_with_dead_terminals, Books, Outside, Aside, WorkersTypeOK, Nothing
  <2> QED BY <2>1, <2>2, <2>3, QuietStep
<1>3. CASE _reconcile_managed_worker_hygiene
  <2>1. Judged
    BY <1>0, <1>3, SameIsJudged DEF _reconcile_managed_worker_hygiene
  <2>2. \A t \in Terms : [trm[t] EXCEPT !.st = "ended", !.ghost = TRUE, !.after = FALSE].ses = trm[t].ses
                         /\ [trm[t] EXCEPT !.st = "ended", !.ghost = TRUE, !.after = FALSE].st = "ended"
    BY <1>0 DEF TermRow
  <2>3. \A t \in Terms : [trm[t] EXCEPT !.st = "ended", !.ghost = TRUE, !.after = FALSE] \in TermRow
    <3>1. "ended" \in {"none"} \cup OpenStates \cup {"ended"}
      OBVIOUS
    <3> QED BY <1>0, <3>1 DEF TermRow
  <2>4. \A s \in Spawns : /\ [ses[s] EXCEPT !.term = 0] \in SessionRow /\ [ses[s] EXCEPT !.term = 0].st = ses[s].st
                           /\ [ses[s] EXCEPT !.term = 0].term = 0
    BY <1>0 DEF SessionRow
  <2>5. /\ trm' = [t \in Terms |-> IF t \in pend.of
                    THEN [trm[t] EXCEPT !.st = "ended", !.ghost = TRUE, !.after = FALSE] ELSE trm[t]]
        /\ ses' = [s \in Spawns |-> IF ses[s].term \in pend.of THEN [ses[s] EXCEPT !.term = 0] ELSE ses[s]]
    BY <1>3 DEF _reconcile_managed_worker_hygiene
  <2>6. Quietly
    <3>1. /\ trm' \in [Terms -> TermRow]
          /\ \A t \in Terms : trm'[t].ses = trm[t].ses /\ (trm[t].st # "none" => trm'[t].st # "none")
      BY <1>0, <2>2, <2>3, <2>5
    <3>2. /\ ses' \in [Spawns -> SessionRow]
          /\ \A s \in Spawns : ses'[s].term \in {0, ses[s].term} /\ ses'[s].st = ses[s].st
      BY <1>0, <2>4, <2>5
    <3> QED BY <3>1, <3>2 DEF Quietly
  <2>7. Aside
    BY <1>0, <1>3 DEF _reconcile_managed_worker_hygiene, Outside, Aside, WorkersTypeOK, Nothing
  <2> QED BY <2>1, <2>6, <2>7, QuietStep
<1>4. CASE _reconcile_dead_session_status
  <2>1. Judged
    BY <1>0, <1>4, SameIsJudged DEF _reconcile_dead_session_status
  <2>2. \A s \in Spawns : /\ [ses[s] EXCEPT !.st = "ended"] \in SessionRow /\ [ses[s] EXCEPT !.st = "ended"].st = "ended"
                           /\ [ses[s] EXCEPT !.st = "ended"].term = ses[s].term
    BY <1>0 DEF SessionRow
  <2>3. /\ trm' = trm
        /\ ses' = [s \in Spawns |-> IF s \in pend.of /\ ses[s].st = "running" THEN [ses[s] EXCEPT !.st = "ended"] ELSE ses[s]]
    BY <1>4 DEF _reconcile_dead_session_status
  <2>4. Quietly
    BY <1>0, <2>2, <2>3 DEF Quietly
  <2>5. Aside
    BY <1>0, <1>4 DEF _reconcile_dead_session_status, Outside, Aside, WorkersTypeOK, Nothing
  <2> QED BY <2>1, <2>4, <2>5, QuietStep
<1>5. CASE _reap_undeliverable_queued_runs
  <2>1. pend.task = "backstop" /\ pend' = Nothing /\ UNCHANGED <<ses, trm, last, ebr, dfn, job, mail, proc, upsets, raced>>
    BY <1>5 DEF _reap_undeliverable_queued_runs
  <2>2. PointersExist' /\ Bound'
    BY <1>0, <2>1 DEF PointersExist, Bound, Nothing
  <2>3. CASE UNCHANGED sp
    <3>1. Judged
      BY <1>0, <2>3, SameIsJudged
    <3>2. WorkersTypeOK'
      BY <1>0, <2>1, <2>3 DEF WorkersTypeOK, Nothing, Tasks
    <3> QED BY <2>1, <2>2, <3>1, <3>2, Combine DEF Nothing
  <2>4. ASSUME NEW s \in FreeSpawn, NEW rev \in pend.of, insert_spawn_request(s, rev)
        PROVE  WorkersInv' /\ SettledKept
    <3>1. rev \in Nat
      BY <1>0, <2>1 DEF WorkersTypeOK
    <3>2. /\ sp' \in [Spawns -> SpawnRow] /\ s \in Spawns /\ sp[s].st = "none"
          /\ \A r \in Spawns : r # s => sp'[r] = sp[r]
      BY <1>0, <2>4, <3>1, InsertKeeps
    <3>3. WorkersTypeOK'
      BY <1>0, <2>1, <3>2 DEF WorkersTypeOK, Nothing, Tasks
    <3>4. SettledKept
      BY <3>2 DEF SettledKept, SpawnSettled
    <3>5. Alone'
      <4>1. "start" \notin raced => Inserted
        BY <1>0, <2>1, <3>2 DEF Alone, Inserted, Nothing
      <4> QED BY <2>1, <4>1, InsertedKeeps DEF Alone
    <3> QED BY <2>2, <3>3, <3>4, <3>5 DEF WorkersInv
  <2> QED
    BY <1>5, <2>3, <2>4 DEF _reap_undeliverable_queued_runs
<1> QED
  BY <1>1, <1>2, <1>3, <1>4, <1>5, ResurrectedKeeps DEF SweepWrites

----------------------------------------------------------------------------
(* The inductive invariant: at the start, after a step, throughout.        *)
LEMMA WorkersStart == WorkersInit => WorkersInv
<1> SUFFICES ASSUME WorkersInit PROVE WorkersInv
  OBVIOUS
<1>1. NoSpawn \in SpawnRow /\ NoSession \in SessionRow /\ NoTerm \in TermRow
  BY DEF NoSpawn, SpawnRow, NoSession, SessionRow, NoTerm, TermRow
<1>2. upsets \in 0 .. MaxUpsets
  BY WorkersAssumption DEF WorkersInit
<1>3. WorkersTypeOK
  BY <1>1, <1>2 DEF WorkersInit, WorkersTypeOK, Nothing, Tasks
<1>4. PointersExist /\ Bound
  BY DEF WorkersInit, PointersExist, Bound, NoSession, Nothing
<1>5. Alone
  BY DEF WorkersInit, Alone, Waiting, NoSpawn, Nothing
<1> QED
  BY <1>3, <1>4, <1>5 DEF WorkersInv

(* Every step keeps it, and no settled request moves.                      *)
LEMMA WorkersStep == WorkersInv /\ [WorkersNext]_workerVars => WorkersInv' /\ SettledKept
<1> SUFFICES ASSUME WorkersInv, [WorkersNext]_workerVars PROVE WorkersInv' /\ SettledKept
  OBVIOUS
<1>1. CASE UNCHANGED workerVars
  <2>1. WorkersTypeOK /\ PointersExist /\ Bound /\ Alone
    BY DEF WorkersInv
  <2>2. WorkersTypeOK'
    BY <1>1, <2>1 DEF WorkersTypeOK, workerVars
  <2>3. PointersExist' /\ Bound' /\ Alone' /\ SettledKept
    BY <1>1, <2>1 DEF PointersExist, Bound, Alone, Waiting, SettledKept, workerVars
  <2> QED BY <2>2, <2>3 DEF WorkersInv
<1>2. CASE WorkersNext
  <2>1. \/ \E online, h, fresh, young : _launch_recipients_for_dispatch(online, h, fresh, young)
        \/ \E s \in Spawns, phase \in {"starting", "running", "failed"} : \E online, fresh : HostReports(s, phase, online, fresh)
        \/ \E m \in mail : \E online, fresh : ReportRepeated(m, online, fresh)
        \/ \E t \in Terms : \/ ConsoleStarts(t) \/ HostReportsConsole(t) \/ ProcessExits(t) \/ StartGivenUp(t)
                             \/ _close_out_terminal_on_end_status(t) \/ report_terminal_dead(t)
        \/ \E c, o \in Spawns : rebind_orphaned_live_consoles(c, o)
        \/ \/ _claim_spawn_request_once \/ DefinitionChanges \/ HostRestarts
           \/ \E s \in Spawns : control_session(s) \/ _fail_running_spawns_superseded_by_current_session(s)
        \/ SweepReads \/ SweepWrites
    BY <1>2 DEF WorkersNext
  <2> QED
    BY <2>1, DispatchKeeps, HostReportsKeep, RepeatedKeeps, ConsoleStepsKeep, RebindKeeps, OutsideKeeps, ReadsKeep, WritesKeep
<1> QED
  BY <1>1, <1>2

(* It holds throughout.                                                    *)
LEMMA WorkersInvariant == WorkersSpec => []WorkersInv
<1>1. WorkersInv /\ [WorkersNext]_workerVars => WorkersInv'
  BY WorkersStep
<1> QED
  BY WorkersStart, <1>1, PTL DEF WorkersSpec

(* The books of requests, sessions and consoles, and what a sweep holds    *)
(* between its read and its write, stay well-typed.                        *)
THEOREM WorkersTyping == WorkersSpec => []WorkersTypeOK
<1>1. WorkersInv => WorkersTypeOK
  BY DEF WorkersInv
<1> QED
  BY WorkersInvariant, <1>1, PTL

(* However many starts, restarts, repeated reports and sweeps there are,   *)
(* at most one request waits for the host unless a message started the     *)
(* agent between the backstop's read and its write: the in-flight test of  *)
(* _coldstart_spawn_request_for_dispatch needs no lock but for that gap.   *)
THEOREM StartsAreNotDoubled == WorkersSpec => []OneStartWaiting
<1>1. WorkersInv => OneStartWaiting
  <2> SUFFICES ASSUME WorkersInv, "start" \notin raced PROVE Cardinality(Waiting) <= 1
    BY DEF OneStartWaiting, Waiting
  <2>1. \A r, s \in Waiting : r = s
    BY DEF WorkersInv, Alone
  <2>2. CASE Waiting = {}
    BY <2>2, FS_EmptySet
  <2>3. ASSUME NEW s \in Waiting PROVE Cardinality(Waiting) <= 1
    <3>1. Waiting = {s}
      BY <2>1
    <3> QED BY <3>1, FS_Singleton
  <2> QED BY <2>2, <2>3
<1> QED
  BY WorkersInvariant, <1>1, PTL

(* A running session and the open console it points at name each other,    *)
(* through every migration (running_spawn), rebind (console_binding), reap *)
(* and resurrection, until a late report makes an ended session run again. *)
THEOREM RunningSessionsAreBound == WorkersSpec => []RunningSessionBound
<1>1. WorkersInv => RunningSessionBound
  BY DEF WorkersInv, Bound, RunningSessionBound, RunningSessions
<1> QED
  BY WorkersInvariant, <1>1, PTL

(* No report and no sweep takes a request out of "failed" or "cancelled",  *)
(* whatever either of them read before the request was settled.            *)
THEOREM SettledSpawnsStay == WorkersSpec => SettledSpawnStays
<1>1. WorkersInv /\ [WorkersNext]_workerVars =>
        [\A s \in Spawns : sp[s].st \in SpawnSettled => sp'[s].st = sp[s].st]_workerVars
  BY WorkersStep DEF SettledKept
<1> QED
  BY WorkersInvariant, <1>1, PTL DEF WorkersSpec, SettledSpawnStays
=============================================================================
