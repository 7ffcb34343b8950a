--------------------------- MODULE CustodyProofs ---------------------------
(***************************************************************************)
(* Custody of a definition for any number of hosts, stores, requests,      *)
(* edits, restarts and lost answers: one request waits in each queue, a    *)
(* brief is handed over once, and a removal takes only its own lifetime.   *)
(***************************************************************************)
EXTENDS Lifecycle, FiniteSetTheorems, WellFoundedInduction, TLAPS

(* Rows.                                                                    *)
By == Stores \cup {NoStore}
Entries == [inc : Nat, rev : Nat, st : {"absent", "valid", "invalid", "unavailable"}]
DefRows == [by : By, inc : Nat, rev : Nat, st : {"absent", "valid", "invalid", "unavailable"}]
HostRows == [rev : Nat, inc : Nat, entry : Entries]
Snapshots == [by : By, rev : Nat, entry : Entries]
Settlements == {"", "pending", "spawn pending", "removed", "kept", "spawned", "nothing"}
ChangeRows ==
  [st : Waiting \cup {"free", "superseded", "done", "refused", "expired"}, kind : {"edit", "remove", "create"},
   by : By, inc : Nat, rev : Nat, old : BOOLEAN, res : Nat, cons : Settlements]
LifeRows ==
  [st : Waiting \cup LifeResults \cup {"free"}, act : {"start", "spawn", "delete"},
   by : By, inc : Nat, rev : Nat, brief : BOOLEAN]
Launches == [gen : Nat, term : {"none", "starting", "attached", "failed"}, attached : BOOLEAN]
Removals == [req : Changes \cup {0}, at : {"idle", "wait", "settle"}, why : {"", "kept", "removed"}]

(* Type correctness of the tables, the hosts and the tasks.                 *)
HostTyped ==
  /\ host \in [Stores -> HostRows] /\ wire \in SUBSET Snapshots
  /\ edits \in Nat /\ upsets \in Nat
  /\ told \in [Changes -> [st : {"none", "done", "refused"}, inc : Nat]]
CustodyTyped ==
  /\ bridge \in [Machines -> By]
  /\ store \in [Machines -> Snapshots]
  /\ retired \in [Machines -> SUBSET By]
  /\ def \in DefRows
  /\ agent \in [row : BOOLEAN, dstate : {"", "defined", "withdrawn"}, wd : By \X Nat]
  /\ tomb \in {"none", "definition_removed", "delete_agent"}
LaunchTyped ==
  /\ gen \in [Stores -> Nat]
  /\ lhost \in [LifeRequests -> {"none", "received", "started"} \cup LifeResults]
  /\ launch \in [LifeRequests -> Launches]
  /\ handed \in [LifeRequests -> Nat]
  /\ owes \in SUBSET LifeRequests

(* One change waits; the removal a change still owes was asked for and is done. *)
ChangesOK(d) ==
  /\ d \in [Changes -> ChangeRows]
  /\ \A r, q \in Changes : d[r].st \in Waiting /\ d[q].st \in Waiting => r = q
  /\ \A r \in Changes : d[r].cons = "pending" => d[r].kind = "remove" /\ d[r].st = "done"

(* One lifecycle request waits.                                             *)
LivesOK(l) ==
  /\ l \in [LifeRequests -> LifeRows]
  /\ \A r, q \in LifeRequests : l[r].st \in Waiting /\ l[q].st \in Waiting => r = q

(* A removal task works for a change; only a report's or the sweep's settles. *)
TasksOK ==
  /\ rem \in [RemovalTasks -> Removals]
  /\ \A t \in RemovalTasks : /\ rem[t].at # "idle" /\ t # "api" => rem[t].req \in Changes
                             /\ rem[t].at = "settle" => t # "api"

(* A host acts on requests that were made; a delete it owes is done; a worker *)
(* attached is the attached one, and its brief went with it.                 *)
HostHeard == \A l \in LifeRequests : lhost[l] # "none" => lreq[l].st # "free" /\ lreq[l].by \in Stores
DeleteOwed == \A l \in owes : lreq[l].act = "delete" /\ lreq[l].st = "done"
AttachedOnce == \A l \in LifeRequests : launch[l].attached => launch[l].term = "attached"

LifeInv ==
  /\ LaunchTyped /\ LivesOK(lreq)
  /\ HostHeard /\ DeleteOwed /\ AttachedOnce /\ BriefOnce

CustodyInv == HostTyped /\ CustodyTyped /\ ChangesOK(dreq) /\ TasksOK /\ LifeInv

-----------------------------------------------------------------------------
(* A free slot, when there is one, is a row nothing was written to.         *)
LEMMA SlotIsFree ==
  ASSUME NEW S \in SUBSET Nat, NEW f, FreeSlot(S, f) # 0
  PROVE  FreeSlot(S, f) \in S /\ f[FreeSlot(S, f)].st = "free"
<1> DEFINE R == OpToRel(<, Nat)
           open == {i \in S : f[i].st = "free"}
<1>0. FreeSlot(S, f) = IF open = {} THEN 0 ELSE Min(open)
  BY Zenon DEF FreeSlot
<1> HIDE DEF open
<1>1. open # {} /\ FreeSlot(S, f) = Min(open)
  <2>1. CASE open = {}
    BY <1>0, <2>1, Zenon
  <2>2. CASE open # {}
    BY <1>0, <2>2, Zenon
  <2> QED
    BY <2>1, <2>2, Zenon
<1> USE DEF open
<1>2. \E x \in open : \A y \in open : ~(<<y, x>> \in R)
  <2> HIDE DEF R
  <2>1. IsWellFoundedOn(R, Nat)
    BY NatLessThanWellFounded, Zenon DEF R
  <2>2. open \subseteq Nat
    BY Zenon
  <2> HIDE DEF open
  <2> QED
    BY <1>1, <2>1, <2>2, WFMin, Zenon
<1>3. \A x, y \in open : <<y, x>> \in R <=> y < x
  BY Zenon DEF OpToRel
<1> HIDE DEF R
<1>4. PICK x \in open : \A y \in open : ~(<<y, x>> \in R)
  BY <1>2, Zenon
<1>5. \A y \in open : ~(y < x)
  BY <1>3, <1>4, Zenon
<1>6. \A y \in open : x <= y
  <2>1. x \in Nat /\ \A y \in open : y \in Nat
    BY Zenon DEF open
  <2> QED
    BY <1>5, <2>1
<1>7. Min(open) \in open
  BY <1>6, Zenon DEF Min
<1> QED
  BY <1>1, <1>7, Zenon

(* Requests are numbered and no store stands for nobody.                   *)
LEMMA Ids == Changes \in SUBSET Nat /\ LifeRequests \in SUBSET Nat /\ NoStore \notin Stores
BY IdsAssumption, NoStoreAssumption, Zenon

-----------------------------------------------------------------------------
(* The queue of changes.                                                    *)

(* Every row of e is d's, but for waiting ones that were given up.          *)
GivesUp(d, e) ==
  /\ e \in [Changes -> ChangeRows]
  /\ \A r \in Changes :
       \/ e[r] = d[r]
       \/ /\ d[r].st \in Waiting /\ e[r].st \in {"expired", "refused", "superseded"}
          /\ e[r].kind = d[r].kind /\ e[r].by = d[r].by /\ e[r].cons = d[r].cons

(* Giving up waiting changes keeps the queue as it should be.              *)
LEMMA GivenUp ==
  ASSUME NEW d, NEW e, ChangesOK(d), GivesUp(d, e)
  PROVE  ChangesOK(e)
BY DEF ChangesOK, GivesUp, Waiting

(* expire_unclaimed only gives up changes.                                 *)
LEMMA ExpireGivesUp ==
  ASSUME NEW d, ChangesOK(d)
  PROVE  GivesUp(d, expire_unclaimed(d)) /\ ChangesOK(expire_unclaimed(d))
<1> DEFINE e == expire_unclaimed(d)
<1>1. GivesUp(d, e)
  <2> SUFFICES ASSUME NEW r \in Changes
               PROVE  /\ e[r] \in ChangeRows
                      /\ \/ e[r] = d[r]
                         \/ /\ d[r].st \in Waiting /\ e[r].st \in {"expired", "refused", "superseded"}
                            /\ e[r].kind = d[r].kind /\ e[r].by = d[r].by /\ e[r].cons = d[r].cons
    BY Zenon DEF GivesUp, expire_unclaimed
  <2>1. d[r] \in ChangeRows
    BY Zenon DEF ChangesOK
  <2> QED
    BY <2>1, Zenon DEF expire_unclaimed, ChangeRows, Waiting
<1> QED
  BY <1>1, GivenUp, Zenon

(* _refuse_undeliverable only gives up changes.                            *)
LEMMA RefuseGivesUp ==
  ASSUME NEW d, ChangesOK(d)
  PROVE  ChangesOK(_refuse_undeliverable(d))
<1> DEFINE e == _refuse_undeliverable(d)
           no(r) == _undeliverable(d[r], def, store[MachineOf[d[r].by]].by)
<1>1. GivesUp(d, e)
  <2> SUFFICES ASSUME NEW r \in Changes
               PROVE  /\ e[r] \in ChangeRows
                      /\ \/ e[r] = d[r]
                         \/ /\ d[r].st \in Waiting /\ e[r].st \in {"expired", "refused", "superseded"}
                            /\ e[r].kind = d[r].kind /\ e[r].by = d[r].by /\ e[r].cons = d[r].cons
    BY Zenon DEF GivesUp, _refuse_undeliverable
  <2>1. d[r] \in ChangeRows
    BY Zenon DEF ChangesOK
  <2>2. e[r] = IF d[r].st \in Waiting /\ no(r) THEN _settle_undeliverable(d[r]) ELSE d[r]
    BY Zenon DEF _refuse_undeliverable
  <2> HIDE DEF no
  <2> QED
    BY <2>1, <2>2 DEF _settle_undeliverable, ChangeRows, Waiting
<1> QED
  BY <1>1, GivenUp, Zenon

(* A row of an empty queue is asked for.                                    *)
LEMMA AskedAlone ==
  ASSUME NEW d, ChangesOK(d), NEW r, NEW x \in ChangeRows, OpenChanges(d) = {}, x.cons = ""
  PROVE  ChangesOK([d EXCEPT ![r] = x])
<1> DEFINE e == [d EXCEPT ![r] = x]
<1>1. d \in [Changes -> ChangeRows] /\ \A q \in Changes : d[q].st \notin Waiting
  BY Zenon DEF ChangesOK, OpenChanges
<1>2. e \in [Changes -> ChangeRows] /\ \A q \in Changes : e[q] = IF q = r THEN x ELSE d[q]
  BY <1>1, Zenon
<1> HIDE DEF e
<1> QED
  BY <1>1, <1>2, Zenon DEF ChangesOK

(* One row is written; what waits already waited.                           *)
LEMMA RowWritten ==
  ASSUME NEW d, ChangesOK(d), NEW r \in Changes, NEW x \in ChangeRows,
         x.st \in Waiting => d[r].st \in Waiting,
         x.cons = "pending" => x.kind = "remove" /\ x.st = "done"
  PROVE  ChangesOK([d EXCEPT ![r] = x])
<1> DEFINE e == [d EXCEPT ![r] = x]
<1>1. e \in [Changes -> ChangeRows] /\ \A q \in Changes : e[q] = IF q = r THEN x ELSE d[q]
  BY Zenon DEF ChangesOK
<1> HIDE DEF e
<1> QED
  BY <1>1, Zenon DEF ChangesOK

(* A change that is queued is a change, and owes nothing yet.              *)
LEMMA QueuedTyped ==
  ASSUME NEW kind \in {"edit", "remove", "create"}, NEW s \in By, NEW inc \in Nat, NEW rev \in Nat
  PROVE  QueuedChange(kind, s, inc, rev) \in ChangeRows /\ QueuedChange(kind, s, inc, rev).cons = ""
BY Zenon DEF QueuedChange, Free, ChangeRows, By, Waiting, Settlements

(* spawn_created settles debts of creations and asks for one spawn at most, *)
(* when no lifecycle request waits.                                         *)
LEMMA SpawnSettles ==
  ASSUME NEW d, ChangesOK(d), NEW k, NEW m
  PROVE  ChangesOK(SpawnSettled(d, k, m))
<1> DEFINE e == SpawnSettled(d, k, m)
           owed == OwedSpawns(d, k, m)
           now == SpawnsNow(d, k, m)
<1>1. \A r \in Changes : e[r] = IF r \in owed THEN [d[r] EXCEPT !.cons = IF r \in now THEN "spawned" ELSE "nothing"]
                                 ELSE d[r]
  BY Zenon DEF SpawnSettled
<1>2. e = [r \in Changes |-> e[r]]
  BY Zenon DEF SpawnSettled
<1> HIDE DEF e, owed, now
<1>3. ASSUME NEW r \in Changes
      PROVE  /\ e[r] \in ChangeRows /\ e[r].st = d[r].st /\ e[r].kind = d[r].kind
             /\ e[r].cons = d[r].cons \/ e[r].cons \in {"spawned", "nothing"}
  <2>1. d[r] \in ChangeRows
    BY Zenon DEF ChangesOK
  <2> QED
    BY <1>1, <2>1 DEF ChangeRows, Settlements
<1>4. e \in [Changes -> ChangeRows]
  BY <1>2, <1>3, Zenon
<1>5. ChangesOK(e)
  BY <1>3, <1>4, Zenon DEF ChangesOK
<1> QED
  BY <1>5, Zenon DEF e

(* The queue of lifecycle requests: one is asked for only when none waits.  *)
LEMMA LifeAsked ==
  ASSUME NEW l, LivesOK(l), OpenLife(l) = {}, NEW act \in {"start", "spawn", "delete"},
         NEW k \in DefRows,
         NEW brief \in BOOLEAN, FreeSlot(LifeRequests, l) # 0
  PROVE  /\ LivesOK(queue_lifecycle(l, act, k, brief))
         /\ \A q \in LifeRequests : l[q].st # "free" => queue_lifecycle(l, act, k, brief)[q] = l[q]
<1> DEFINE x == [st |-> "pending", act |-> act, by |-> k.by, inc |-> k.inc, rev |-> k.rev, brief |-> brief]
           s == FreeSlot(LifeRequests, l)
           e == [l EXCEPT ![s] = x]
<1>1. s \in LifeRequests /\ l[s].st = "free"
  BY SlotIsFree, Ids, Zenon
<1>2. x \in LifeRows
  BY Zenon DEF LifeRows, DefRows, Waiting
<1>3. l \in [LifeRequests -> LifeRows] /\ \A q \in LifeRequests : l[q].st \notin Waiting
  BY Zenon DEF LivesOK, OpenLife
<1>4. e = queue_lifecycle(l, act, k, brief)
  BY Zenon DEF queue_lifecycle
<1> HIDE DEF x, s
<1>5. e \in [LifeRequests -> LifeRows] /\ \A q \in LifeRequests : e[q] = IF q = s THEN x ELSE l[q]
  BY <1>2, <1>3, Zenon
<1> HIDE DEF e
<1> QED
  BY <1>1, <1>3, <1>4, <1>5, Zenon DEF LivesOK
-----------------------------------------------------------------------------
(* What a step leaves alone stays as it is.                                 *)
LEMMA HostStays ==
  ASSUME HostTyped, UNCHANGED <<host, wire, edits, told>>, upsets' \in Nat
  PROVE  HostTyped'
BY Zenon DEF HostTyped

(* A step that leaves the service's books leaves them typed.               *)
LEMMA CustodyStays ==
  ASSUME CustodyTyped, UNCHANGED <<bridge, custody>>
  PROVE  CustodyTyped'
BY Zenon DEF CustodyTyped, custody

(* A step that leaves the removal tasks leaves them well formed.           *)
LEMMA TasksStay ==
  ASSUME TasksOK, UNCHANGED rem
  PROVE  TasksOK'
BY Zenon DEF TasksOK

(* New requests go into free rows, of which no host has heard.              *)
LEMMA LifeMoves ==
  ASSUME LifeInv, UNCHANGED lifeOnly, LivesOK(lreq'),
         \A q \in LifeRequests : lreq[q].st # "free" => lreq'[q] = lreq[q]
  PROVE  LifeInv'
<1>1. UNCHANGED <<gen, lhost, launch, handed, owes>>
  BY Zenon DEF lifeOnly
<1>2. LaunchTyped' /\ AttachedOnce' /\ BriefOnce'
  BY <1>1, Zenon DEF LifeInv, LaunchTyped, AttachedOnce, BriefOnce
<1>3. HostHeard'
  BY <1>1, Zenon DEF LifeInv, HostHeard
<1>4. DeleteOwed'
  BY <1>1, Zenon DEF LifeInv, LaunchTyped, DeleteOwed
<1> QED
  BY <1>2, <1>3, <1>4, Zenon DEF LifeInv

(* A step that leaves the lifecycle requests keeps their invariant.        *)
LEMMA LifeStays ==
  ASSUME LifeInv, UNCHANGED <<lreq, lifeOnly>>
  PROVE  LifeInv'
<1>1. LivesOK(lreq')
  BY Zenon DEF LifeInv
<1> QED
  BY <1>1, LifeMoves, Zenon

(* A spawn owed to a creation takes a free slot when none waits.           *)
LEMMA SpawnMoves ==
  ASSUME LifeInv, UNCHANGED lifeOnly, NEW d, NEW k \in DefRows, NEW m, spawn_created(d, k, m)
  PROVE  LifeInv'
<1>1. /\ SpawnsNow(d, k, m) # {} => FreeSlot(LifeRequests, lreq) # 0
      /\ lreq' = IF SpawnsNow(d, k, m) = {} THEN lreq ELSE queue_lifecycle(lreq, "spawn", k, TRUE)
  BY Zenon DEF spawn_created, SpawnQueued
<1>2. CASE SpawnsNow(d, k, m) = {}
  BY <1>1, <1>2, LifeStays, Zenon
<1>3. CASE SpawnsNow(d, k, m) # {}
  <2>1. OpenLife(lreq) = {}
    BY <1>3, Zenon DEF SpawnsNow, _spawn
  <2>2. LivesOK(lreq)
    BY Zenon DEF LifeInv
  <2>3. lreq' = queue_lifecycle(lreq, "spawn", k, TRUE)
    BY <1>1, <1>3, Zenon
  <2>4. /\ LivesOK(queue_lifecycle(lreq, "spawn", k, TRUE))
        /\ \A q \in LifeRequests : lreq[q].st # "free" => queue_lifecycle(lreq, "spawn", k, TRUE)[q] = lreq[q]
    BY <1>1, <1>3, <2>1, <2>2, LifeAsked, Zenon
  <2> QED
    BY <2>3, <2>4, LifeMoves, Zenon
<1> QED
  BY <1>2, <1>3, Zenon

-----------------------------------------------------------------------------
(* The hosts (external) keep their types.                                   *)
LEMMA NextTyped ==
  ASSUME HostTyped, NEW s \in Stores
  PROVE  /\ NextEntry(s) \in Entries /\ NoEntry \in Entries /\ host[s].entry \in Entries
         /\ \A x \in {"invalid", "unavailable"} : [host[s].entry EXCEPT !.st = x] \in Entries
<1>1. host[s] \in HostRows
  BY Zenon DEF HostTyped
<1>2. host[s].entry \in Entries /\ host[s].inc \in Nat
  BY <1>1, Zenon DEF HostRows
<1> DEFINE e == host[s].entry
           f == [e EXCEPT !.rev = e.rev + 1]
           g == [f EXCEPT !.st = "valid"]
<1> HIDE DEF e
<1>3. e \in Entries /\ e.rev \in Nat
  BY <1>2, Zenon DEF e, Entries
<1>4. f \in Entries
  BY <1>3 DEF Entries
<1>5. g \in Entries
  <2> HIDE DEF f
  <2> QED
    BY <1>4, Zenon DEF Entries
<1>6. NextEntry(s) = IF e.st = "absent" THEN [inc |-> host[s].inc + 1, rev |-> 1, st |-> "valid"] ELSE g
  BY Zenon DEF NextEntry, e
<1> HIDE DEF g
<1>7. NextEntry(s) \in Entries
  BY <1>2, <1>5, <1>6 DEF Entries
<1>8. NoEntry \in Entries /\ \A x \in {"invalid", "unavailable"} : [e EXCEPT !.st = x] \in Entries
  BY <1>3, Zenon DEF NoEntry, Entries
<1> QED
  BY <1>2, <1>7, <1>8, Zenon DEF e

(* What a host writes and sends is an entry and a snapshot.                *)
LEMMA HostWritesTyped ==
  ASSUME HostTyped, NEW s \in Stores, NEW e \in Entries, HostWrites(s, e)
  PROVE  host' \in [Stores -> HostRows] /\ wire' \in SUBSET Snapshots
<1> DEFINE h == Written(s, e)
<1>1. host[s] \in HostRows /\ e.inc \in Nat
  BY Zenon DEF HostTyped, Entries
<1>2. h \in HostRows
  BY <1>1 DEF Written, HostRows
<1> HIDE DEF h
<1>3. Snapshot(s, h) \in Snapshots
  BY <1>2, Zenon DEF Snapshot, Snapshots, HostRows, By
<1>4. host' = [host EXCEPT ![s] = h] /\ wire' = wire \cup {Snapshot(s, h)}
  BY Zenon DEF HostWrites, h
<1> QED
  BY <1>2, <1>3, <1>4, Zenon DEF HostTyped

(* The host's own edits.                                                   *)
LEMMA HostEditsKeeps ==
  ASSUME CustodyInv, NEW s \in Stores, HostEdits(s), UNCHANGED lifeOnly
  PROVE  CustodyInv'
<1>1. /\ edits' = edits + 1 /\ UNCHANGED <<bridge, custody, dreq, told, rem, lreq, upsets>>
      /\ \E e \in {NextEntry(s), NoEntry, host[s].entry}
                   \cup {[host[s].entry EXCEPT !.st = x] : x \in {"invalid", "unavailable"}} : HostWrites(s, e)
  BY Zenon DEF HostEdits
<1>2. PICK e \in Entries : HostWrites(s, e)
  BY <1>1, NextTyped, Zenon DEF CustodyInv
<1>3. HostTyped'
  BY <1>1, <1>2, HostWritesTyped DEF CustodyInv, HostTyped
<1> QED
  BY <1>1, <1>3, CustodyStays, TasksStay, LifeStays, Zenon DEF CustodyInv

(* A bridge's beat.                                                        *)
LEMMA BeatsKeeps ==
  ASSUME CustodyInv, NEW s \in Stores, Beats(s), UNCHANGED lifeOnly
  PROVE  CustodyInv'
<1>1. /\ upsets' = upsets \/ upsets' = upsets + 1
      /\ bridge' = [bridge EXCEPT ![MachineOf[s]] = s]
      /\ UNCHANGED <<host, wire, edits, custody, dreq, told, rem, lreq>>
  BY Zenon DEF Beats, Upset, hostVars
<1>2. HostTyped'
  BY <1>1, HostStays DEF CustodyInv, HostTyped
<1>3. CustodyTyped'
  BY <1>1, Zenon DEF CustodyInv, CustodyTyped, custody, By
<1> QED
  BY <1>1, <1>2, <1>3, TasksStay, LifeStays, Zenon DEF CustodyInv

(* A host applies what it was handed at most once.                          *)
LEMMA ApplyTyped ==
  ASSUME CustodyInv, NEW r \in Changes, dreq[r].by \in Stores, HostApplies(r)
  PROVE  /\ host' \in [Stores -> HostRows] /\ wire' \in SUBSET Snapshots
         /\ told' \in [Changes -> [st : {"none", "done", "refused"}, inc : Nat]]
<1> DEFINE q == dreq[r]
           to == IF q.kind = "remove" THEN NoEntry ELSE NextEntry(q.by)
           x == [st |-> "done", inc |-> IF to = NoEntry THEN q.inc ELSE to.inc]
           y == [st |-> "refused", inc |-> 0]
<1>1. /\ HostTyped /\ told \in [Changes -> [st : {"none", "done", "refused"}, inc : Nat]]
      /\ host \in [Stores -> HostRows] /\ wire \in SUBSET Snapshots
      /\ q \in ChangeRows
  BY Zenon DEF CustodyInv, HostTyped, ChangesOK
<1>2. to \in Entries
  BY <1>1, NextTyped, Zenon
<1>3. x \in [st : {"none", "done", "refused"}, inc : Nat] /\ y \in [st : {"none", "done", "refused"}, inc : Nat]
  BY <1>1, <1>2, Zenon DEF Entries, ChangeRows
<1>4. \/ UNCHANGED <<host, wire, told>>
      \/ HostWrites(q.by, to) /\ told' = [told EXCEPT ![r] = x]
      \/ told' = [told EXCEPT ![r] = y] /\ UNCHANGED <<host, wire>>
  BY Zenon DEF HostApplies
<1> HIDE DEF x, y, to
<1>5. CASE HostWrites(q.by, to) /\ told' = [told EXCEPT ![r] = x]
  BY <1>1, <1>2, <1>3, <1>5, HostWritesTyped, Zenon
<1> QED
  BY <1>1, <1>3, <1>4, <1>5, Zenon

(* A claim of the waiting change.                                          *)
LEMMA ClaimsChangesKeeps ==
  ASSUME CustodyInv, NEW s \in Stores, ClaimsChanges(s), UNCHANGED lifeOnly
  PROVE  CustodyInv'
<1> DEFINE d == expire_unclaimed(dreq)
<1>1. GivesUp(dreq, d) /\ ChangesOK(d)
  BY ExpireGivesUp, Zenon DEF CustodyInv
<1> HIDE DEF d
<1>2. PICK r \in OpenChanges(d) :
        /\ claim(d, r, MachineOf[s])
        /\ \/ d[r].by = s /\ HostApplies(r) /\ UNCHANGED upsets
           \/ Upset /\ UNCHANGED <<host, wire, told>>
           \/ UNCHANGED <<host, wire, told, upsets>>
        /\ UNCHANGED <<edits, bridge, custody, rem, lreq>>
  BY Zenon DEF ClaimsChanges, d
<1>3. r \in Changes /\ d[r].st \in Waiting /\ d[r] \in ChangeRows /\ d[r].cons # "pending"
  BY <1>1, <1>2, Zenon DEF OpenChanges, ChangesOK, Waiting
<1>4. ChangesOK(dreq')
  <2> DEFINE no == _undeliverable(d[r], def, store[MachineOf[s]].by)
             x == IF no THEN _settle_undeliverable(d[r]) ELSE [d[r] EXCEPT !.st = "claimed"]
  <2>1. dreq' = [d EXCEPT ![r] = x]
    BY <1>2, Zenon DEF claim
  <2> HIDE DEF no
  <2>2. x \in ChangeRows /\ x.cons = d[r].cons
    BY <1>3, Zenon DEF _settle_undeliverable, ChangeRows, Waiting
  <2> HIDE DEF x
  <2> QED
    BY <1>1, <1>3, <2>1, <2>2, RowWritten, Zenon
<1>5. dreq[r].by = d[r].by
  BY <1>1, <1>3, Zenon DEF GivesUp
<1>6. HostTyped'
  <2>0. edits' \in Nat /\ upsets \in Nat
    BY <1>2, Zenon DEF CustodyInv, HostTyped
  <2>1. CASE d[r].by = s /\ HostApplies(r) /\ UNCHANGED upsets
    BY <1>3, <1>5, <2>0, <2>1, ApplyTyped, Zenon DEF HostTyped
  <2>2. CASE UNCHANGED <<host, wire, told>> /\ (Upset \/ UNCHANGED upsets)
    <3>1. upsets' \in Nat
      BY <2>0, <2>2 DEF Upset
    <3> QED
      BY <1>2, <2>2, <3>1, HostStays, Zenon DEF CustodyInv
  <2> QED
    BY <1>2, <2>1, <2>2, Zenon
<1> QED
  BY <1>2, <1>4, <1>6, CustodyStays, TasksStay, LifeStays, Zenon DEF CustodyInv

-----------------------------------------------------------------------------
(* A snapshot is applied, or replayed.                                      *)
LEMMA ApplyEntriesTyped ==
  ASSUME CustodyTyped, NEW s \in By, NEW e \in Entries, _apply_entries(s, e)
  PROVE  /\ def' \in DefRows /\ tomb' \in {"none", "definition_removed", "delete_agent"}
         /\ agent' \in [row : BOOLEAN, dstate : {"", "defined", "withdrawn"}, wd : By \X Nat]
<1>1. /\ def \in DefRows /\ tomb \in {"none", "definition_removed", "delete_agent"}
      /\ agent \in [row : BOOLEAN, dstate : {"", "defined", "withdrawn"}, wd : By \X Nat]
  BY Zenon DEF CustodyTyped
<1>2. CASE UNCHANGED <<def, agent, tomb>>
  BY <1>1, <1>2, Zenon
<1>3. CASE /\ def' = def \/ def' = [def EXCEPT !.st = "invalid"]
           /\ UNCHANGED <<agent, tomb>>
  BY <1>1, <1>3, Zenon DEF DefRows
<1>4. CASE /\ def' = [by |-> s, inc |-> e.inc, rev |-> e.rev, st |-> e.st]
           /\ _ensure_agent_row /\ tomb' = "none"
  <2>1. def' \in DefRows
    BY <1>4, Zenon DEF DefRows, Entries
  <2> DEFINE w == IF agent.row THEN agent.wd ELSE <<NoStore, 0>>
             a == [agent EXCEPT !.row = TRUE]
             b == [a EXCEPT !.dstate = "defined"]
             c == [b EXCEPT !.wd = w]
  <2>2. w \in By \X Nat
    BY <1>1, Zenon DEF By
  <2>3. a \in [row : BOOLEAN, dstate : {"", "defined", "withdrawn"}, wd : By \X Nat] /\ a.wd = agent.wd
    BY <1>1, Zenon
  <2>4. agent' = c
    BY <1>4, Zenon DEF _ensure_agent_row
  <2> HIDE DEF w, a
  <2>5. b \in [row : BOOLEAN, dstate : {"", "defined", "withdrawn"}, wd : By \X Nat]
    BY <2>3, Zenon
  <2> HIDE DEF b
  <2>6. c \in [row : BOOLEAN, dstate : {"", "defined", "withdrawn"}, wd : By \X Nat]
    BY <2>2, <2>5, Zenon
  <2> QED
    BY <1>4, <2>1, <2>4, <2>6, Zenon
<1>5. CASE /\ def' = NoDef /\ UNCHANGED tomb
           /\ agent' = IF agent.row THEN [agent EXCEPT !.dstate = "withdrawn", !.wd = <<def.by, def.inc>>] ELSE agent
  <2>1. def' \in DefRows
    BY <1>5, Zenon DEF NoDef, DefRows, By
  <2> DEFINE w == <<def.by, def.inc>>
             a == [agent EXCEPT !.dstate = "withdrawn"]
  <2>2. w \in By \X Nat
    BY <1>1, Zenon DEF DefRows
  <2> HIDE DEF w
  <2>3. a \in [row : BOOLEAN, dstate : {"", "defined", "withdrawn"}, wd : By \X Nat]
    BY <1>1, Zenon
  <2>4. agent' = IF agent.row THEN [a EXCEPT !.wd = w] ELSE agent
    BY <1>5, Zenon DEF w
  <2> HIDE DEF a
  <2> QED
    BY <1>1, <1>5, <2>1, <2>2, <2>3, <2>4
<1> QED
  BY <1>2, <1>3, <1>4, <1>5, Zenon DEF _apply_entries

(* A snapshot that arrives, on time, late or again.                        *)
LEMMA PushKeeps ==
  ASSUME CustodyInv, NEW p \in wire, PushArrives(p), UNCHANGED lifeOnly
  PROVE  CustodyInv'
<1> DEFINE m == MachineOf[p.by]
           order == push_order(store[m], retired[m], p)
<1>1. /\ apply_definition_push(p, m, order)
      /\ spawn_created(dreq, def', m)
      /\ UNCHANGED <<hostVars, bridge, told, rem, upsets>>
  BY Zenon DEF PushArrives
<1> HIDE DEF m, order
<1>2. p \in Snapshots /\ p.by \in By /\ p.entry \in Entries
  BY Zenon DEF CustodyInv, HostTyped, Snapshots
<1>3. CustodyTyped'
  <2>1. CASE UNCHANGED custody
    BY <1>1, <2>1, CustodyStays, Zenon DEF CustodyInv
  <2>2. CASE /\ retired' = IF order = "new-store" THEN [retired EXCEPT ![m] = @ \cup {store[m].by}] ELSE retired
             /\ store' = [store EXCEPT ![m] = p]
             /\ _apply_entries(p.by, p.entry)
    <3>1. /\ def' \in DefRows /\ tomb' \in {"none", "definition_removed", "delete_agent"}
          /\ agent' \in [row : BOOLEAN, dstate : {"", "defined", "withdrawn"}, wd : By \X Nat]
      BY <1>2, <2>2, ApplyEntriesTyped, Zenon DEF CustodyInv
    <3>2. store \in [Machines -> Snapshots] /\ retired \in [Machines -> SUBSET By]
      BY Zenon DEF CustodyInv, CustodyTyped
    <3>3. store' \in [Machines -> Snapshots]
      BY <1>2, <2>2, <3>2, Zenon
    <3>4. retired' \in [Machines -> SUBSET By]
      <4>1. \A k \in Machines : store[k].by \in By
        BY <3>2, Zenon DEF Snapshots
      <4>2. CASE m \in Machines
        BY <2>2, <3>2, <4>1, <4>2, Zenon
      <4>3. CASE m \notin Machines
        <5>1. [retired EXCEPT ![m] = retired[m] \cup {store[m].by}] = retired
          BY <3>2, <4>3, Zenon
        <5> QED
          BY <2>2, <3>2, <5>1, Zenon
      <4> QED
        BY <4>2, <4>3, Zenon
    <3>5. bridge' \in [Machines -> By]
      BY <1>1, Zenon DEF CustodyInv, CustodyTyped
    <3> QED
      BY <3>1, <3>3, <3>4, <3>5, Zenon DEF CustodyTyped
  <2> QED
    BY <1>1, <2>1, <2>2, Zenon DEF apply_definition_push
<1>4. HostTyped'
  BY <1>1, HostStays, Zenon DEF CustodyInv, HostTyped, hostVars
<1>5. ChangesOK(dreq')
  BY <1>1, SpawnSettles, Zenon DEF CustodyInv, spawn_created
<1>6. LifeInv'
  BY <1>1, <1>3, SpawnMoves, Zenon DEF CustodyInv, CustodyTyped
<1> QED
  BY <1>1, <1>3, <1>4, <1>5, <1>6, TasksStay, Zenon DEF CustodyInv

-----------------------------------------------------------------------------
(* The operator's requests, their expiry and their reports.                 *)
LEMMA AdmitsKeeps ==
  ASSUME CustodyInv, UNCHANGED lifeOnly
  PROVE  /\ \A kind \in {"edit", "remove"} : AdmitsChange(kind) => CustodyInv'
         /\ \A m \in Machines : AdmitsCreation(m) => CustodyInv'
         /\ \A r \in Changes : RequestAges(r) => CustodyInv'
         /\ ListsChanges => CustodyInv'
<1>0. ASSUME ChangesOK(dreq'), upsets' \in Nat, UNCHANGED <<hostVars, bridge, custody, told, rem, lreq>>
      PROVE  CustodyInv'
  <2>1. UNCHANGED <<host, wire, edits, told>>
    BY <1>0, Zenon DEF hostVars
  <2> QED
    BY <1>0, <2>1, HostStays, CustodyStays, TasksStay, LifeStays, Zenon DEF CustodyInv
<1>1. upsets \in Nat /\ ChangesOK(dreq)
  BY Zenon DEF CustodyInv, HostTyped
<1>2. ASSUME NEW kind \in {"edit", "remove"}, AdmitsChange(kind) PROVE CustodyInv'
  <2> DEFINE d == _refuse_undeliverable(expire_unclaimed(dreq))
             x == QueuedChange(kind, def.by, def.inc, def.rev)
  <2>1. ChangesOK(d)
    BY <1>1, ExpireGivesUp, RefuseGivesUp, Zenon
  <2>2. PICK r : OpenChanges(d) = {} /\ dreq' = [d EXCEPT ![r] = x]
    BY <1>2, Zenon DEF AdmitsChange, admit
  <2>3. x \in ChangeRows /\ x.cons = ""
    <3>1. def.by \in By /\ def.inc \in Nat /\ def.rev \in Nat /\ kind \in {"edit", "remove", "create"}
      BY Zenon DEF CustodyInv, CustodyTyped, DefRows
    <3> QED
      BY <3>1, QueuedTyped, Zenon
  <2> HIDE DEF d, x
  <2>4. ChangesOK(dreq')
    BY <2>1, <2>2, <2>3, AskedAlone, Zenon
  <2> QED
    BY <1>0, <1>1, <1>2, <2>4, Zenon DEF AdmitsChange
<1>3. ASSUME NEW m \in Machines, AdmitsCreation(m) PROVE CustodyInv'
  <2> DEFINE x == QueuedChange("create", store[m].by, 0, 0)
  <2>1. PICK r : OpenChanges(dreq) = {} /\ dreq' = [dreq EXCEPT ![r] = x]
    BY <1>3, Zenon DEF AdmitsCreation, admit_creation
  <2>2. x \in ChangeRows /\ x.cons = ""
    <3>1. store[m].by \in By /\ 0 \in Nat /\ "create" \in {"edit", "remove", "create"}
      BY Zenon DEF CustodyInv, CustodyTyped, Snapshots
    <3> QED
      BY <3>1, QueuedTyped, Zenon
  <2> HIDE DEF x
  <2>3. ChangesOK(dreq')
    BY <1>1, <2>1, <2>2, AskedAlone, Zenon
  <2> QED
    BY <1>0, <1>1, <1>3, <2>3, Zenon DEF AdmitsCreation
<1>4. ASSUME NEW r \in Changes, RequestAges(r) PROVE CustodyInv'
  <2> DEFINE x == [dreq[r] EXCEPT !.old = TRUE]
  <2>1. dreq[r] \in ChangeRows /\ (dreq[r].cons = "pending" => dreq[r].kind = "remove" /\ dreq[r].st = "done")
    BY <1>1, Zenon DEF ChangesOK
  <2>2. x \in ChangeRows /\ x.st = dreq[r].st /\ x.cons = dreq[r].cons /\ x.kind = dreq[r].kind
    BY <2>1, Zenon DEF ChangeRows
  <2>3. dreq' = [dreq EXCEPT ![r] = x]
    BY <1>4, Zenon DEF RequestAges
  <2> HIDE DEF x
  <2>4. ChangesOK(dreq')
    BY <1>1, <2>1, <2>2, <2>3, RowWritten, Zenon
  <2> QED
    BY <1>0, <1>1, <1>4, <2>4 DEF RequestAges, Upset
<1>5. ASSUME ListsChanges PROVE CustodyInv'
  <2>1. ChangesOK(dreq')
    BY <1>1, <1>5, ExpireGivesUp, Zenon DEF ListsChanges
  <2> QED
    BY <1>0, <1>1, <1>5, <2>1, Zenon DEF ListsChanges
<1> QED
  BY <1>2, <1>3, <1>4, <1>5, Zenon

(* The report of a change.                                                 *)
LEMMA ReportsKeeps ==
  ASSUME CustodyInv, NEW r \in Changes, ReportsChange(r), UNCHANGED lifeOnly
  PROVE  CustodyInv'
<1> DEFINE d == expire_unclaimed(dreq)
           x == report(d[r], told[r])
<1>1. ChangesOK(d) /\ d[r] \in ChangeRows
  BY ExpireGivesUp, Zenon DEF CustodyInv, ChangesOK
<1>2. /\ told[r].st # "none" /\ d[r].st \in {"claimed", "superseded"}
      /\ spawn_created([d EXCEPT ![r] = x], def, MachineOf[d[r].by])
      /\ UNCHANGED <<hostVars, bridge, custody, told, rem, upsets>>
  BY Zenon DEF ReportsChange
<1> HIDE DEF d
<1>3. told[r].st \in {"done", "refused"} /\ told[r].inc \in Nat
  BY <1>2, Zenon DEF CustodyInv, HostTyped
<1>4. /\ x \in ChangeRows /\ x.st = told[r].st /\ x.cons = Owed(d[r], told[r]) /\ x.kind = d[r].kind
  <2> DEFINE y == [d[r] EXCEPT !.st = told[r].st]
             z == [y EXCEPT !.res = told[r].inc]
             c == Owed(d[r], told[r])
  <2>1. y \in ChangeRows /\ y.st = told[r].st /\ y.kind = d[r].kind
    BY <1>1, <1>3, Zenon DEF ChangeRows
  <2>2. x = [z EXCEPT !.cons = c]
    BY Zenon DEF report
  <2>3. c \in Settlements
    BY Zenon DEF Owed, Settlements
  <2> HIDE DEF c, y
  <2>4. z \in ChangeRows /\ z.st = told[r].st /\ z.kind = d[r].kind
    BY <1>3, <2>1, Zenon DEF ChangeRows
  <2> HIDE DEF z
  <2>5. [z EXCEPT !.cons = c] \in ChangeRows /\ [z EXCEPT !.cons = c].st = told[r].st
        /\ [z EXCEPT !.cons = c].cons = c /\ [z EXCEPT !.cons = c].kind = d[r].kind
    BY <2>3, <2>4, Zenon DEF ChangeRows
  <2> QED
    BY <2>2, <2>5, Zenon DEF c
<1> HIDE DEF x
<1>5. x.st \notin Waiting /\ (x.cons = "pending" => x.kind = "remove" /\ x.st = "done")
  BY <1>3, <1>4, Zenon DEF Waiting, Owed
<1>6. ChangesOK([d EXCEPT ![r] = x])
  BY <1>1, <1>4, <1>5, RowWritten, Zenon
<1>7. ChangesOK(dreq')
  BY <1>2, <1>6, SpawnSettles, Zenon DEF spawn_created
<1>8. LifeInv'
  BY <1>2, SpawnMoves, Zenon DEF CustodyInv, CustodyTyped
<1>9. HostTyped'
  BY <1>2, HostStays, Zenon DEF CustodyInv, HostTyped, hostVars
<1> QED
  BY <1>2, <1>7, <1>8, <1>9, CustodyStays, TasksStay, Zenon DEF CustodyInv

(* The operator's repairs.                                                  *)
LEMMA RepairsKeep ==
  ASSUME CustodyInv, UNCHANGED lifeOnly, ReleasesDefinition \/ \E m \in Machines : ResetsStore(m)
  PROVE  CustodyInv'
<1>1. upsets' = upsets + 1 /\ UNCHANGED <<hostVars, bridge, store, tomb, dreq, told, rem, lreq>>
  BY Zenon DEF ReleasesDefinition, ResetsStore, Upset
<1>2. HostTyped'
  BY <1>1, HostStays DEF CustodyInv, HostTyped, hostVars
<1>3. /\ def \in DefRows /\ retired \in [Machines -> SUBSET By]
      /\ agent \in [row : BOOLEAN, dstate : {"", "defined", "withdrawn"}, wd : By \X Nat]
  BY Zenon DEF CustodyInv, CustodyTyped
<1>4. def' \in DefRows
  <2>1. def' = def \/ def' = NoDef
    BY Zenon DEF ReleasesDefinition, ResetsStore
  <2>2. NoDef \in DefRows
    BY Zenon DEF NoDef, DefRows, By
  <2> QED
    BY <1>3, <2>1, <2>2, Zenon
<1>5. agent' \in [row : BOOLEAN, dstate : {"", "defined", "withdrawn"}, wd : By \X Nat]
  <2>1. agent' = agent \/ agent' = [agent EXCEPT !.dstate = "withdrawn"]
    BY Zenon DEF ReleasesDefinition, ResetsStore
  <2> QED
    BY <1>3, <2>1, Zenon
<1>6. retired' \in [Machines -> SUBSET By]
  <2>1. retired' = retired \/ \E m \in Machines : retired' = [retired EXCEPT ![m] = {}]
    BY Zenon DEF ReleasesDefinition, ResetsStore
  <2> QED
    BY <1>3, <2>1, Zenon
<1>7. CustodyTyped'
  BY <1>1, <1>4, <1>5, <1>6, Zenon DEF CustodyInv, CustodyTyped
<1> QED
  BY <1>1, <1>2, <1>7, TasksStay, LifeStays, Zenon DEF CustodyInv

-----------------------------------------------------------------------------
(* Removal.                                                                 *)
LEMMA RecordTyped ==
  ASSUME CustodyTyped, NEW t \in RemovalTasks, _remove_agent_record(Reason(t)),
         UNCHANGED <<bridge, store, retired, def>>
  PROVE  CustodyTyped'
<1>1. Reason(t) \in {"none", "definition_removed", "delete_agent"}
  BY Zenon DEF Reason
<1>2. [row |-> FALSE, dstate |-> "", wd |-> <<NoStore, 0>>]
        \in [row : BOOLEAN, dstate : {"", "defined", "withdrawn"}, wd : By \X Nat]
  BY Zenon DEF By
<1> QED
  BY <1>1, <1>2, Zenon DEF CustodyTyped, _remove_agent_record

(* A removal that ends leaves its task idle or about to settle.            *)
LEMMA EndTyped ==
  ASSUME TasksOK, NEW t \in RemovalTasks, NEW r \in Changes \cup {0}, NEW why \in {"kept", "removed"},
         t # "api" => r \in Changes, RemovalEnds(t, r, why)
  PROVE  TasksOK'
<1> DEFINE x == IF t = "api" THEN Idle ELSE [req |-> r, at |-> "settle", why |-> why]
<1>1. x \in Removals /\ (x.at # "idle" => r \in Changes /\ x.req = r /\ t # "api")
  BY Zenon DEF Idle, Removals
<1>2. rem' = [rem EXCEPT ![t] = x]
  BY Zenon DEF RemovalEnds
<1> HIDE DEF x
<1>3. rem \in [RemovalTasks -> Removals]
  BY Zenon DEF TasksOK
<1>4. rem' \in [RemovalTasks -> Removals] /\ \A u \in RemovalTasks : rem'[u] = IF u = t THEN x ELSE rem[u]
  BY <1>1, <1>2, <1>3, Zenon
<1> QED
  BY <1>1, <1>4, Zenon DEF TasksOK

(* The three steps of a removal.                                           *)
LEMMA RemovalKeeps ==
  ASSUME CustodyInv, UNCHANGED lifeOnly, NEW t \in RemovalTasks
  PROVE  /\ \A r \in Changes \cup {0} : RemovalBegins(t, r) => CustodyInv'
         /\ RemovalDeletes(t) => CustodyInv'
         /\ RemovalSettles(t) => CustodyInv'
<1>0. ASSUME CustodyTyped', TasksOK', UNCHANGED <<hostVars, dreq, told, lreq, upsets>> PROVE CustodyInv'
  <2>1. HostTyped'
    BY <1>0, HostStays, Zenon DEF CustodyInv, HostTyped, hostVars
  <2> QED
    BY <1>0, <2>1, LifeStays, Zenon DEF CustodyInv
<1>1. CustodyTyped /\ TasksOK /\ rem \in [RemovalTasks -> Removals]
  BY Zenon DEF CustodyInv, TasksOK
<1>2. ASSUME NEW r \in Changes \cup {0}, RemovalBegins(t, r) PROVE CustodyInv'
  <2>1. t # "api" => r \in Changes
    BY <1>2, Zenon DEF RemovalBegins, RemovalWork
  <2>2. UNCHANGED <<hostVars, bridge, store, retired, def, dreq, told, lreq, upsets>>
    BY <1>2, Zenon DEF RemovalBegins
  <2>3. CASE RemovalEnds(t, r, "kept") /\ UNCHANGED <<agent, tomb>>
    <3>1. CustodyTyped'
      BY <1>1, <2>2, <2>3, CustodyStays, Zenon DEF custody
    <3>2. TasksOK'
      BY <1>1, <2>1, <2>3, EndTyped, Zenon
    <3> QED
      BY <1>0, <2>2, <3>1, <3>2, Zenon
  <2>4. CASE rem' = [rem EXCEPT ![t] = [req |-> r, at |-> "wait", why |-> ""]] /\ UNCHANGED <<agent, tomb>>
    <3>1. CustodyTyped'
      BY <1>1, <2>2, <2>4, CustodyStays, Zenon DEF custody
    <3> DEFINE x == [req |-> r, at |-> "wait", why |-> ""]
    <3>2. x \in Removals /\ x.at = "wait" /\ x.req = r
      BY Zenon DEF Removals
    <3> HIDE DEF x
    <3>3. rem' \in [RemovalTasks -> Removals] /\ \A u \in RemovalTasks : rem'[u] = IF u = t THEN x ELSE rem[u]
      BY <1>1, <2>4, <3>2, Zenon DEF x
    <3>4. TasksOK'
      BY <1>1, <2>1, <3>2, <3>3 DEF TasksOK
    <3> QED
      BY <1>0, <2>2, <3>1, <3>4, Zenon
  <2>5. CASE RemovalEnds(t, r, "removed") /\ _remove_agent_record(Reason(t))
    <3>1. CustodyTyped'
      BY <1>1, <2>2, <2>5, RecordTyped, Zenon
    <3>2. TasksOK'
      BY <1>1, <2>1, <2>5, EndTyped, Zenon
    <3> QED
      BY <1>0, <2>2, <3>1, <3>2, Zenon
  <2> QED
    BY <1>2, <2>3, <2>4, <2>5, Zenon DEF RemovalBegins
<1>3. ASSUME RemovalDeletes(t) PROVE CustodyInv'
  <2> DEFINE r == rem[t].req
  <2>1. r \in Changes \cup {0} /\ (t # "api" => r \in Changes)
    BY <1>1, <1>3, Zenon DEF RemovalDeletes, TasksOK, Removals
  <2>2. UNCHANGED <<hostVars, bridge, store, retired, def, dreq, told, lreq, upsets>>
    BY <1>3, Zenon DEF RemovalDeletes
  <2>3. \/ RemovalEnds(t, r, "kept") /\ UNCHANGED <<agent, tomb>>
        \/ RemovalEnds(t, r, "removed") /\ _remove_agent_record(Reason(t))
    BY <1>3, Zenon DEF RemovalDeletes
  <2> HIDE DEF r
  <2>4. TasksOK'
    BY <1>1, <2>1, <2>3, EndTyped, Zenon
  <2>5. CustodyTyped'
    BY <1>1, <2>2, <2>3, CustodyStays, RecordTyped, Zenon DEF custody
  <2> QED
    BY <1>0, <2>2, <2>4, <2>5, Zenon
<1>4. ASSUME RemovalSettles(t) PROVE CustodyInv'
  <2> DEFINE r == rem[t].req
             x == [dreq[r] EXCEPT !.cons = rem[t].why]
  <2>1. /\ rem[t].at = "settle" /\ rem' = [rem EXCEPT ![t] = Idle]
        /\ dreq' = dreq \/ dreq' = [dreq EXCEPT ![r] = x]
        /\ UNCHANGED <<hostVars, bridge, custody, told, lreq, upsets>>
    BY <1>4, Zenon DEF RemovalSettles, settle_removal
  <2>2. r \in Changes /\ rem[t].why \in {"", "kept", "removed"}
    BY <1>1, <2>1, Zenon DEF TasksOK, Removals
  <2>3. dreq[r] \in ChangeRows /\ ChangesOK(dreq)
    BY <2>2, Zenon DEF CustodyInv, ChangesOK
  <2>4. x \in ChangeRows /\ x.st = dreq[r].st /\ x.cons # "pending"
    BY <2>2, <2>3, Zenon DEF ChangeRows, Settlements
  <2> HIDE DEF r, x
  <2>5. ChangesOK(dreq')
    <3>1. ChangesOK([dreq EXCEPT ![r] = x])
      BY <2>2, <2>3, <2>4, RowWritten, Zenon
    <3> QED
      BY <2>1, <2>3, <3>1, Zenon
  <2>6. Idle \in Removals /\ Idle.at = "idle"
    BY Zenon DEF Idle, Removals
  <2>7. rem' \in [RemovalTasks -> Removals] /\ \A u \in RemovalTasks : rem'[u] = IF u = t THEN Idle ELSE rem[u]
    BY <1>1, <2>1, <2>6, Zenon
  <2>8. TasksOK'
    BY <1>1, <2>6, <2>7, Zenon DEF TasksOK
  <2>9. HostTyped'
    BY <2>1, HostStays, Zenon DEF CustodyInv, HostTyped, hostVars
  <2> QED
    BY <2>1, <2>5, <2>8, <2>9, CustodyStays, LifeStays, Zenon DEF CustodyInv
<1> QED
  BY <1>2, <1>3, <1>4, Zenon

(* A restart of the service.                                               *)
LEMMA RestartKeeps ==
  ASSUME CustodyInv, Restart
  PROVE  CustodyInv'
<1>1. /\ upsets' = upsets + 1 /\ rem' = [t \in RemovalTasks |-> Idle] /\ owes' = {}
      /\ UNCHANGED <<hostVars, bridge, custody, dreq, told, lreq, gen, lhost, launch, handed>>
  BY Zenon DEF Restart, ServiceRestarts, Upset
<1>2. HostTyped'
  BY <1>1, HostStays DEF CustodyInv, HostTyped, hostVars
<1>3. TasksOK'
  BY <1>1, Zenon DEF TasksOK, Idle, Removals
<1>4. LaunchTyped' /\ LivesOK(lreq') /\ HostHeard' /\ AttachedOnce' /\ BriefOnce'
  BY <1>1, Zenon DEF CustodyInv, LifeInv, LaunchTyped, HostHeard, AttachedOnce, BriefOnce
<1>5. DeleteOwed'
  BY <1>1, Zenon DEF DeleteOwed
<1> QED
  BY <1>1, <1>2, <1>3, <1>4, <1>5, CustodyStays, Zenon DEF CustodyInv, LifeInv

-----------------------------------------------------------------------------
(* Lifecycle requests.                                                      *)
LEMMA AskKeeps ==
  ASSUME CustodyInv, NEW act \in {"start", "delete"}, NEW brief \in BOOLEAN, admit_lifecycle(act, brief)
  PROVE  CustodyInv'
<1>1. /\ OpenLife(lreq) = {} /\ FreeSlot(LifeRequests, lreq) # 0
      /\ lreq' = queue_lifecycle(lreq, act, def, brief)
      /\ UNCHANGED <<hostVars, bridge, custody, dreq, told, rem, upsets, lifeOnly>>
  BY Zenon DEF admit_lifecycle
<1>2. def \in DefRows /\ LivesOK(lreq) /\ act \in {"start", "spawn", "delete"}
  BY Zenon DEF CustodyInv, CustodyTyped, LifeInv
<1>3. /\ LivesOK(lreq')
      /\ \A q \in LifeRequests : lreq[q].st # "free" => lreq'[q] = lreq[q]
  BY <1>1, <1>2, LifeAsked
<1>4. LifeInv'
  BY <1>1, <1>3, LifeMoves, Zenon DEF CustodyInv
<1>5. HostTyped'
  BY <1>1, HostStays, Zenon DEF CustodyInv, HostTyped, hostVars
<1> QED
  BY <1>1, <1>4, <1>5, CustodyStays, TasksStay, Zenon DEF CustodyInv

(* Nothing but the lifecycle tables, the hosts and a bound changes.         *)
LEMMA OnlyLife ==
  ASSUME CustodyInv, HostTyped', LifeInv', UNCHANGED <<bridge, custody, dreq, rem>>
  PROVE  CustodyInv'
BY CustodyStays, TasksStay, Zenon DEF CustodyInv

(* A claim of the waiting lifecycle request.                               *)
LEMMA ClaimsLifeKeeps ==
  ASSUME CustodyInv, NEW s \in Stores, ClaimsLifecycle(s)
  PROVE  CustodyInv'
<1> DEFINE mine == {l \in OpenLife(lreq) : MachineOf[lreq[l].by] = MachineOf[s]}
           out == {l \in mine : StillIts(lreq[l])}
<1>1. /\ lreq' = [l \in LifeRequests |->
                    IF l \in out THEN [lreq[l] EXCEPT !.st = "claimed"]
                    ELSE IF l \in mine /\ lreq[l].st = "pending" THEN [lreq[l] EXCEPT !.st = "refused"]
                    ELSE lreq[l]]
      /\ \/ /\ lhost' = [l \in LifeRequests |-> IF l \in out /\ lreq[l].by = s /\ lhost[l] = "none"
                                                THEN "received" ELSE lhost[l]]
            /\ UNCHANGED upsets
         \/ lhost' = lhost /\ Upset
      /\ UNCHANGED <<hostVars, bridge, custody, dreq, told, rem, gen, launch, handed, owes>>
  BY Zenon DEF ClaimsLifecycle
<1>2. /\ lreq \in [LifeRequests -> LifeRows] /\ lhost \in [LifeRequests -> {"none", "received", "started"} \cup LifeResults]
      /\ HostHeard /\ owes \in SUBSET LifeRequests /\ upsets \in Nat
  BY Zenon DEF CustodyInv, LifeInv, LivesOK, LaunchTyped, HostTyped
<1>3. ASSUME NEW l \in LifeRequests
      PROVE  /\ l \in mine => lreq[l].st \in Waiting
             /\ l \in out => l \in mine
  BY Zenon DEF OpenLife
<1> HIDE DEF mine, out
<1>4. ASSUME NEW l \in LifeRequests
      PROVE  /\ lreq'[l] \in LifeRows /\ lreq'[l].by = lreq[l].by /\ lreq'[l].act = lreq[l].act
             /\ lreq'[l].st \in Waiting => lreq[l].st \in Waiting
             /\ lreq'[l] = lreq[l] \/ lreq[l].st \in Waiting
             /\ lreq'[l].st = "free" => lreq[l].st = "free"
             /\ l \in out => lreq'[l].st = "claimed"
  <2>1. lreq[l] \in LifeRows
    BY <1>2, Zenon
  <2>2. lreq'[l] = IF l \in out THEN [lreq[l] EXCEPT !.st = "claimed"]
                   ELSE IF l \in mine /\ lreq[l].st = "pending" THEN [lreq[l] EXCEPT !.st = "refused"]
                   ELSE lreq[l]
    BY <1>1, Zenon
  <2> QED
    BY <1>3, <2>1, <2>2 DEF LifeRows, Waiting, LifeResults
<1>5. LivesOK(lreq')
  <2>1. lreq' \in [LifeRequests -> LifeRows]
    BY <1>1, <1>4, Zenon
  <2> QED
    BY <1>4, <2>1, Zenon DEF CustodyInv, LifeInv, LivesOK
<1>6. lhost' \in [LifeRequests -> {"none", "received", "started"} \cup LifeResults]
  BY <1>1, <1>2, Zenon
<1>7. HostHeard'
  <2> SUFFICES ASSUME NEW l \in LifeRequests, lhost'[l] # "none"
               PROVE  lreq'[l].st # "free" /\ lreq'[l].by \in Stores
    BY Zenon DEF HostHeard
  <2>1. CASE lhost'[l] = lhost[l]
    BY <1>2, <1>4, <2>1, Zenon DEF HostHeard
  <2>2. CASE l \in out /\ lreq[l].by = s
    BY <1>4, <2>2, Zenon
  <2> QED
    BY <1>1, <2>1, <2>2, Zenon
<1>8. DeleteOwed'
  BY <1>1, <1>2, <1>4, Zenon DEF CustodyInv, LifeInv, DeleteOwed, Waiting
<1>9. LaunchTyped' /\ AttachedOnce' /\ BriefOnce'
  BY <1>1, <1>6, Zenon DEF CustodyInv, LifeInv, LaunchTyped, AttachedOnce, BriefOnce
<1>10. LifeInv'
  BY <1>5, <1>7, <1>8, <1>9, Zenon DEF LifeInv
<1>11. HostTyped'
  <2>1. upsets' \in Nat
    BY <1>1, <1>2 DEF Upset
  <2> QED
    BY <1>1, <2>1, HostStays, Zenon DEF CustodyInv, hostVars
<1> QED
  BY <1>1, <1>10, <1>11, OnlyLife, Zenon

(* A restart of the host.                                                  *)
LEMMA HostRestartsKeeps ==
  ASSUME CustodyInv, NEW s \in Stores, HostRestarts(s)
  PROVE  CustodyInv'
<1>1. /\ upsets' = upsets + 1 /\ gen' = [gen EXCEPT ![s] = gen[s] + 1]
      /\ UNCHANGED <<hostVars, bridge, custody, dreq, told, rem, lreq, lhost, launch, handed, owes>>
  BY Zenon DEF HostRestarts, Upset
<1>2. HostTyped'
  BY <1>1, HostStays DEF CustodyInv, HostTyped, hostVars
<1>3. LaunchTyped'
  BY <1>1 DEF CustodyInv, LifeInv, LaunchTyped
<1>4. LivesOK(lreq') /\ HostHeard' /\ DeleteOwed' /\ AttachedOnce' /\ BriefOnce'
  BY <1>1, Zenon DEF CustodyInv, LifeInv, HostHeard, DeleteOwed, AttachedOnce, BriefOnce
<1> QED
  BY <1>1, <1>2, <1>3, <1>4, OnlyLife, Zenon DEF LifeInv

-----------------------------------------------------------------------------
(* Launching, results and the removal of a delete.                          *)
LEMMA PreparesKeeps ==
  ASSUME CustodyInv, NEW l \in LifeRequests, PreparesLaunch(l)
  PROVE  CustodyInv'
<1> DEFINE x == [gen |-> gen[lreq[l].by], term |-> "starting", attached |-> FALSE]
<1>1. /\ lhost[l] = "received"
      /\ \/ launch[l].term = "none" /\ launch' = [launch EXCEPT ![l] = x]
         \/ UNCHANGED launch
      /\ lhost' = lhost \/ lhost' = [lhost EXCEPT ![l] = "started"]
      /\ UNCHANGED upsets \/ Upset
      /\ UNCHANGED <<hostVars, bridge, custody, dreq, told, rem, lreq, gen, handed, owes>>
  BY Zenon DEF PreparesLaunch
<1>2. /\ LaunchTyped /\ HostHeard /\ AttachedOnce /\ BriefOnce /\ LivesOK(lreq) /\ DeleteOwed
      /\ launch \in [LifeRequests -> Launches] /\ upsets \in Nat
      /\ lhost \in [LifeRequests -> {"none", "received", "started"} \cup LifeResults]
  BY Zenon DEF CustodyInv, LifeInv, LaunchTyped, HostTyped
<1>3. x \in Launches /\ x.attached = FALSE
  BY <1>1, <1>2, Zenon DEF LaunchTyped, HostHeard, Launches
<1> HIDE DEF x
<1>4. /\ launch' \in [LifeRequests -> Launches]
      /\ \A k \in LifeRequests : launch'[k] = launch[k] \/ (launch[k].term = "none" /\ launch'[k] = x)
  BY <1>1, <1>2, <1>3, Zenon
<1>5. \A k \in LifeRequests : ~launch'[k].attached \/ launch'[k] = launch[k]
  BY <1>3, <1>4, Zenon
<1>6. AttachedOnce' /\ BriefOnce'
  <2>1. AttachedOnce'
    BY <1>2, <1>5, Zenon DEF AttachedOnce
  <2>2. ASSUME NEW k \in LifeRequests PROVE handed'[k] <= IF launch'[k].attached THEN 1 ELSE 0
    <3>1. CASE launch'[k] = launch[k]
      BY <1>1, <1>2, <3>1, Zenon DEF BriefOnce
    <3>2. CASE launch[k].term = "none" /\ launch'[k] = x
      <4>1. ~launch[k].attached
        BY <1>2, <3>2, Zenon DEF AttachedOnce
      <4> QED
        BY <1>1, <1>2, <1>3, <3>2, <4>1, Zenon DEF BriefOnce
    <3> QED
      BY <1>4, <3>1, <3>2, Zenon
  <2> QED
    BY <2>1, <2>2, Zenon DEF BriefOnce
<1>7. /\ lhost' \in [LifeRequests -> {"none", "received", "started"} \cup LifeResults]
      /\ \A k \in LifeRequests : lhost'[k] # "none" => lhost[k] # "none"
  BY <1>1, <1>2, Zenon
<1>8. HostHeard' /\ LivesOK(lreq') /\ DeleteOwed'
  BY <1>1, <1>2, <1>7, Zenon DEF HostHeard, DeleteOwed
<1>9. LaunchTyped'
  BY <1>1, <1>2, <1>4, <1>7, Zenon DEF LaunchTyped
<1>10. HostTyped'
  <2>1. upsets' \in Nat
    BY <1>1, <1>2 DEF Upset
  <2> QED
    BY <1>1, <2>1, HostStays, Zenon DEF CustodyInv, hostVars
<1> QED
  BY <1>1, <1>6, <1>8, <1>9, <1>10, OnlyLife, Zenon DEF LifeInv

(* A worker that attaches, and the brief that goes with it.                *)
LEMMA AttachesKeeps ==
  ASSUME CustodyInv, NEW l \in LifeRequests, Attaches(l)
  PROVE  CustodyInv'
<1> DEFINE x == [launch[l] EXCEPT !.attached = TRUE, !.term = "attached"]
           n == handed[l] + (IF lreq[l].brief THEN 1 ELSE 0)
<1>1. /\ ~launch[l].attached
      /\ launch' = [launch EXCEPT ![l] = x] /\ handed' = [handed EXCEPT ![l] = n]
      /\ UNCHANGED <<defVars, gen, lhost, owes>>
  BY Zenon DEF Attaches
<1>2. /\ LaunchTyped /\ HostHeard /\ AttachedOnce /\ BriefOnce /\ LivesOK(lreq) /\ DeleteOwed
      /\ launch \in [LifeRequests -> Launches] /\ handed \in [LifeRequests -> Nat]
  BY Zenon DEF CustodyInv, LifeInv, LaunchTyped
<1>3. x \in Launches /\ x.attached = TRUE /\ x.term = "attached"
  <2> DEFINE y == [launch[l] EXCEPT !.attached = TRUE]
  <2>1. y \in Launches /\ y.attached = TRUE
    BY <1>2, Zenon DEF Launches
  <2>2. x = [y EXCEPT !.term = "attached"]
    BY Zenon
  <2> HIDE DEF x, y
  <2> QED
    BY <2>1, <2>2, Zenon DEF Launches
<1>4. n \in Nat /\ n <= 1
  BY <1>1, <1>2 DEF BriefOnce
<1> HIDE DEF x, n
<1>5. /\ launch' \in [LifeRequests -> Launches] /\ handed' \in [LifeRequests -> Nat]
      /\ \A k \in LifeRequests : launch'[k] = IF k = l THEN x ELSE launch[k]
      /\ \A k \in LifeRequests : handed'[k] = IF k = l THEN n ELSE handed[k]
  BY <1>1, <1>2, <1>3, <1>4, Zenon
<1>6. AttachedOnce' /\ BriefOnce'
  BY <1>2, <1>3, <1>4, <1>5, Zenon DEF AttachedOnce, BriefOnce
<1>7. UNCHANGED <<host, wire, edits, told, upsets, bridge, custody, dreq, rem, lreq>>
  BY <1>1, Zenon DEF defVars, hostVars
<1>8. HostHeard' /\ LivesOK(lreq') /\ DeleteOwed' /\ LaunchTyped'
  BY <1>1, <1>2, <1>5, <1>7, Zenon DEF HostHeard, DeleteOwed, LaunchTyped
<1>9. HostTyped'
  BY <1>7, HostStays, Zenon DEF CustodyInv, HostTyped
<1> QED
  BY <1>6, <1>7, <1>8, <1>9, OnlyLife, Zenon DEF LifeInv

(* The host reaches a result.                                              *)
LEMMA FinishesKeeps ==
  ASSUME CustodyInv, NEW l \in LifeRequests, HostFinishes(l)
  PROVE  CustodyInv'
<1>1. /\ lhost[l] \in {"received", "started"}
      /\ \E res \in LifeResults : lhost' = [lhost EXCEPT ![l] = res]
      /\ HostWrites(lreq[l].by, NoEntry) \/ UNCHANGED <<host, wire>>
      /\ UNCHANGED <<edits, bridge, custody, dreq, told, rem, lreq, upsets, gen, launch, handed, owes>>
  BY Zenon DEF HostFinishes
<1>2. /\ LaunchTyped /\ HostHeard /\ AttachedOnce /\ BriefOnce /\ LivesOK(lreq) /\ DeleteOwed /\ HostTyped
      /\ lhost \in [LifeRequests -> {"none", "received", "started"} \cup LifeResults]
  BY Zenon DEF CustodyInv, LifeInv, LaunchTyped
<1>3. lreq[l].by \in Stores
  BY <1>1, <1>2, Zenon DEF HostHeard
<1>4. host' \in [Stores -> HostRows] /\ wire' \in SUBSET Snapshots
  <2>1. CASE HostWrites(lreq[l].by, NoEntry)
    BY <1>2, <1>3, <2>1, NextTyped, HostWritesTyped, Zenon
  <2>2. CASE UNCHANGED <<host, wire>>
    BY <1>2, <2>2, Zenon DEF HostTyped
  <2> QED
    BY <1>1, <2>1, <2>2, Zenon
<1>5. HostTyped'
  BY <1>1, <1>2, <1>4, Zenon DEF HostTyped
<1>6. /\ lhost' \in [LifeRequests -> {"none", "received", "started"} \cup LifeResults]
      /\ \A k \in LifeRequests : lhost'[k] # "none" => lhost[k] # "none"
  BY <1>1, <1>2, Zenon
<1>7. LaunchTyped' /\ HostHeard'
  BY <1>1, <1>2, <1>6, Zenon DEF LaunchTyped, HostHeard
<1>8. LivesOK(lreq') /\ DeleteOwed' /\ AttachedOnce' /\ BriefOnce'
  BY <1>1, <1>2, Zenon DEF DeleteOwed, AttachedOnce, BriefOnce
<1> QED
  BY <1>1, <1>5, <1>7, <1>8, OnlyLife, Zenon DEF LifeInv

(* The report of a lifecycle result.                                       *)
LEMMA ReportsLifeKeeps ==
  ASSUME CustodyInv, NEW l \in LifeRequests, ReportsLifecycle(l)
  PROVE  CustodyInv'
<1> DEFINE x == [lreq[l] EXCEPT !.st = lhost[l]]
           y == [launch[l] EXCEPT !.term = "failed"]
<1>1. /\ lhost[l] \in LifeResults
      /\ \/ lreq[l].st = "claimed" /\ lreq' = [lreq EXCEPT ![l] = x]
         \/ lreq[l].st = lhost[l] /\ UNCHANGED lreq
      /\ launch' = launch \/ (~launch[l].attached /\ launch' = [launch EXCEPT ![l] = y])
      /\ owes' = IF lreq[l].act = "delete" /\ lhost[l] = "done" THEN owes \cup {l} ELSE owes
      /\ UNCHANGED <<hostVars, bridge, custody, dreq, told, rem, upsets, gen, lhost, handed>>
  BY Zenon DEF ReportsLifecycle, settle_unstarted
<1>2. /\ LaunchTyped /\ HostHeard /\ AttachedOnce /\ BriefOnce /\ LivesOK(lreq) /\ DeleteOwed
      /\ launch \in [LifeRequests -> Launches] /\ lreq \in [LifeRequests -> LifeRows]
      /\ owes \in SUBSET LifeRequests
  BY Zenon DEF CustodyInv, LifeInv, LaunchTyped, LivesOK
<1>3. x \in LifeRows /\ x.st = lhost[l] /\ x.by = lreq[l].by /\ x.act = lreq[l].act
  BY <1>1, <1>2 DEF LifeRows
<1>4. y \in Launches /\ y.attached = launch[l].attached
  BY <1>2, Zenon DEF Launches
<1> HIDE DEF x, y
<1>5. ASSUME NEW k \in LifeRequests
      PROVE  /\ lreq'[k] \in LifeRows /\ lreq'[k].by = lreq[k].by /\ lreq'[k].act = lreq[k].act
             /\ lreq'[k] = lreq[k] \/ (k = l /\ lreq[k].st = "claimed" /\ lreq'[k].st = lhost[l])
             /\ k = l => lreq'[k].st = lhost[l]
  BY <1>1, <1>2, <1>3, Zenon
<1>6. LivesOK(lreq')
  <2>1. lreq' \in [LifeRequests -> LifeRows]
    BY <1>1, <1>2, <1>3, Zenon
  <2>2. \A k \in LifeRequests : lreq'[k].st \in Waiting => lreq[k].st \in Waiting
    BY <1>1, <1>5, Zenon DEF Waiting, LifeResults
  <2> QED
    BY <1>2, <2>1, <2>2, Zenon DEF LivesOK
<1>7. HostHeard'
  <2> SUFFICES ASSUME NEW k \in LifeRequests, lhost[k] # "none"
               PROVE  lreq'[k].st # "free" /\ lreq'[k].by \in Stores
    BY <1>1, Zenon DEF HostHeard
  <2>1. lreq[k].st # "free" /\ lreq[k].by \in Stores
    BY <1>2, Zenon DEF HostHeard
  <2> QED
    BY <1>1, <1>5, <2>1, Zenon DEF LifeResults
<1>8. owes' \in SUBSET LifeRequests /\ DeleteOwed'
  <2>1. owes' \in SUBSET LifeRequests
    BY <1>1, <1>2, Zenon
  <2>2. ASSUME NEW k \in owes' PROVE lreq'[k].act = "delete" /\ lreq'[k].st = "done"
    <3>1. CASE k \in owes
      BY <1>2, <1>5, <3>1, Zenon DEF DeleteOwed
    <3>2. CASE k = l /\ lreq[l].act = "delete" /\ lhost[l] = "done"
      BY <1>5, <3>2, Zenon
    <3> QED
      BY <1>1, <2>2, <3>1, <3>2, Zenon
  <2> QED
    BY <2>1, <2>2, Zenon DEF DeleteOwed
<1>9. /\ launch' \in [LifeRequests -> Launches]
      /\ \A k \in LifeRequests : launch'[k] = launch[k] \/ (~launch[k].attached /\ ~launch'[k].attached)
  BY <1>1, <1>2, <1>4, Zenon
<1>10. AttachedOnce' /\ BriefOnce'
  BY <1>1, <1>2, <1>9, Zenon DEF AttachedOnce, BriefOnce
<1>11. LaunchTyped'
  BY <1>1, <1>2, <1>8, <1>9, Zenon DEF LaunchTyped
<1>12. HostTyped'
  BY <1>1, HostStays, Zenon DEF CustodyInv, HostTyped, hostVars
<1> QED
  BY <1>1, <1>6, <1>7, <1>8, <1>10, <1>11, <1>12, OnlyLife, Zenon DEF LifeInv

(* The removal a done delete owes.                                         *)
LEMMA LifeRemovalKeeps ==
  ASSUME CustodyInv, NEW l \in LifeRequests, LifecycleRemoval(l)
  PROVE  CustodyInv'
<1>1. /\ owes' = owes \ {l}
      /\ UNCHANGED <<agent, tomb>> \/ _remove_agent_record("definition_removed")
      /\ UNCHANGED <<hostVars, bridge, store, retired, def, dreq, told, rem, lreq, upsets, gen, lhost, launch, handed>>
  BY Zenon DEF LifecycleRemoval
<1>2. CustodyTyped /\ TasksOK /\ HostTyped /\ LifeInv
  BY Zenon DEF CustodyInv
<1>3. CustodyTyped'
  <2>1. CASE UNCHANGED <<agent, tomb>>
    BY <1>1, <1>2, <2>1, CustodyStays, Zenon DEF custody
  <2>2. CASE _remove_agent_record("definition_removed")
    <3>1. "report" \in RemovalTasks /\ Reason("report") = "definition_removed"
      BY Zenon DEF RemovalTasks, Reason
    <3> QED
      BY <1>1, <1>2, <2>2, <3>1, RecordTyped, Zenon
  <2> QED
    BY <1>1, <2>1, <2>2, Zenon
<1>4. LaunchTyped' /\ LivesOK(lreq') /\ HostHeard' /\ DeleteOwed' /\ AttachedOnce' /\ BriefOnce'
  BY <1>1, <1>2, Zenon DEF LifeInv, LaunchTyped, HostHeard, DeleteOwed, AttachedOnce, BriefOnce
<1>5. HostTyped'
  BY <1>1, <1>2, HostStays, Zenon DEF HostTyped, hostVars
<1> QED
  BY <1>1, <1>3, <1>4, <1>5, TasksStay, Zenon DEF CustodyInv, LifeInv

-----------------------------------------------------------------------------
(* The initial states and the steps.                                        *)
LEMMA CustodyStarts == CustodyInit => CustodyInv
<1> SUFFICES ASSUME CustodyInit PROVE CustodyInv
  BY Zenon
<1>0. /\ NoEntry \in Entries /\ NoHost \in HostRows /\ EmptyHost \in HostRows /\ NoStore \in By
      /\ NoDef \in DefRows /\ Stores \subseteq By
  <2>1. NoEntry \in Entries /\ NoStore \in By /\ Stores \subseteq By
    BY Zenon DEF NoEntry, Entries, By
  <2>2. NoHost \in HostRows
    BY <2>1, Zenon DEF NoHost, HostRows
  <2>3. EmptyHost \in HostRows
    BY <2>2, Zenon DEF EmptyHost, HostRows
  <2>4. NoDef \in DefRows
    BY <2>1, Zenon DEF NoDef, DefRows
  <2> QED
    BY <2>1, <2>2, <2>3, <2>4, Zenon
<1>1. HostTyped
  <2>1. host \in [Stores -> HostRows]
    BY <1>0, Zenon DEF CustodyInit, DefInit
  <2>2. edits \in Nat /\ upsets \in Nat
    <3>1. edits \in 0 .. MaxEdits /\ upsets \in 0 .. MaxUpsets
      BY Zenon DEF CustodyInit, DefInit
    <3> QED
      BY <3>1, BoundsAssumption
  <2>3. \A s \in Stores : Snapshot(s, host[s]) \in Snapshots
    BY <1>0, <2>1, Zenon DEF Snapshot, Snapshots, HostRows
  <2>4. wire \in SUBSET Snapshots
    BY <2>3, Zenon DEF CustodyInit, DefInit
  <2>5. told \in [Changes -> [st : {"none", "done", "refused"}, inc : Nat]]
    BY Zenon DEF CustodyInit, DefInit
  <2> QED
    BY <2>1, <2>2, <2>4, <2>5, Zenon DEF HostTyped
<1>2. CustodyTyped
  <2>1. /\ [by |-> NoStore, rev |-> 0, entry |-> NoEntry] \in Snapshots
        /\ [row |-> FALSE, dstate |-> "", wd |-> <<NoStore, 0>>]
              \in [row : BOOLEAN, dstate : {"", "defined", "withdrawn"}, wd : By \X Nat]
    BY <1>0, Zenon DEF Snapshots
  <2> QED
    BY <1>0, <2>1, Zenon DEF CustodyInit, DefInit, CustodyTyped
<1>3. ChangesOK(dreq)
  <2>1. /\ Free \in ChangeRows /\ Free.cons = "" /\ Free.st = "free"
        /\ Spent \in ChangeRows /\ Spent.cons = "" /\ Spent.st = "refused"
    <3>1. Free \in ChangeRows /\ Free.cons = "" /\ Free.st = "free"
      BY <1>0, Zenon DEF Free, ChangeRows, Settlements
    <3> QED
      BY <3>1, Zenon DEF Spent, ChangeRows
  <2>2. \A r \in Changes : dreq[r] \in {Free, Spent}
    BY Zenon DEF CustodyInit, DefInit
  <2>3. dreq \in [Changes -> ChangeRows]
    BY <2>1, Zenon DEF CustodyInit, DefInit
  <2> QED
    BY <2>1, <2>2, <2>3, Zenon DEF ChangesOK, Waiting
<1>4. TasksOK
  BY Zenon DEF CustodyInit, DefInit, TasksOK, Idle, Removals
<1>5. LivesOK(lreq)
  <2>1. LifeFree \in LifeRows /\ LifeFree.st = "free" /\ LifeSpent \in LifeRows /\ LifeSpent.st = "refused"
    <3>1. LifeFree \in LifeRows /\ LifeFree.st = "free"
      BY <1>0, Zenon DEF LifeFree, LifeRows
    <3> QED
      BY <3>1, Zenon DEF LifeSpent, LifeRows, LifeResults
  <2>2. \A l \in LifeRequests : lreq[l] \in {LifeFree, LifeSpent}
    BY Zenon DEF CustodyInit, DefInit
  <2>3. lreq \in [LifeRequests -> LifeRows]
    BY <2>1, Zenon DEF CustodyInit, DefInit
  <2> QED
    BY <2>1, <2>2, <2>3, Zenon DEF LivesOK, Waiting
<1>6. LaunchTyped /\ HostHeard /\ DeleteOwed /\ AttachedOnce /\ BriefOnce
  <2>1. NoLaunch \in Launches /\ NoLaunch.attached = FALSE
    BY Zenon DEF NoLaunch, Launches
  <2> QED
    BY <2>1 DEF CustodyInit, LaunchTyped, HostHeard, DeleteOwed, AttachedOnce, BriefOnce
<1> QED
  BY <1>1, <1>2, <1>3, <1>4, <1>5, <1>6, Zenon DEF CustodyInv, LifeInv

(* Every step keeps the invariant.                                         *)
LEMMA CustodyStep == CustodyInv /\ [CustodyNext]_custodyVars => CustodyInv'
<1> SUFFICES ASSUME CustodyInv, [CustodyNext]_custodyVars PROVE CustodyInv'
  BY Zenon
<1>1. CASE DefNext /\ UNCHANGED lifeOnly
  <2>1. ASSUME NEW s \in Stores, HostEdits(s) \/ Beats(s) \/ ClaimsChanges(s) PROVE CustodyInv'
    BY <1>1, <2>1, HostEditsKeeps, BeatsKeeps, ClaimsChangesKeeps, Zenon
  <2>2. ASSUME NEW p \in wire, PushArrives(p) PROVE CustodyInv'
    BY <1>1, <2>2, PushKeeps, Zenon
  <2>3. ASSUME NEW m \in Machines, ResetsStore(m) \/ AdmitsCreation(m) PROVE CustodyInv'
    BY <1>1, <2>3, RepairsKeep, AdmitsKeeps, Zenon
  <2>4. ASSUME NEW kind \in {"edit", "remove"}, AdmitsChange(kind) PROVE CustodyInv'
    BY <1>1, <2>4, AdmitsKeeps, Zenon
  <2>5. ASSUME NEW r \in Changes, RequestAges(r) \/ ReportsChange(r) PROVE CustodyInv'
    BY <1>1, <2>5, AdmitsKeeps, ReportsKeeps, Zenon
  <2>6. ASSUME NEW t \in RemovalTasks, NEW r \in Changes \cup {0}, RemovalBegins(t, r) PROVE CustodyInv'
    BY <1>1, <2>6, RemovalKeeps, Zenon
  <2>7. ASSUME NEW t \in RemovalTasks, RemovalDeletes(t) \/ RemovalSettles(t) PROVE CustodyInv'
    BY <1>1, <2>7, RemovalKeeps, Zenon
  <2>8. CASE ReleasesDefinition \/ ListsChanges
    BY <1>1, <2>8, RepairsKeep, AdmitsKeeps, Zenon
  <2> QED
    BY <1>1, <2>1, <2>2, <2>3, <2>4, <2>5, <2>6, <2>7, <2>8, Zenon DEF DefNext
<1>2. CASE Restart
  BY <1>2, RestartKeeps, Zenon
<1>3. CASE LifecycleStep
  <2>1. ASSUME NEW act \in {"start", "delete"}, SubmitsLifecycle(act) \/ Delegates(act, act = "start") PROVE CustodyInv'
    <3>1. admit_lifecycle(act, FALSE) \/ admit_lifecycle(act, act = "start")
      BY <2>1, Zenon DEF SubmitsLifecycle, Delegates
    <3>2. FALSE \in BOOLEAN /\ (act = "start") \in BOOLEAN
      BY Zenon
    <3> QED
      BY <3>1, <3>2, AskKeeps, Zenon
  <2>2. ASSUME NEW s \in Stores, ClaimsLifecycle(s) \/ HostRestarts(s) PROVE CustodyInv'
    BY <2>2, ClaimsLifeKeeps, HostRestartsKeeps, Zenon
  <2>3. ASSUME NEW l \in LifeRequests,
               \/ PreparesLaunch(l) \/ Attaches(l) \/ HostFinishes(l)
               \/ ReportsLifecycle(l) \/ LifecycleRemoval(l)
        PROVE  CustodyInv'
    BY <2>3, PreparesKeeps, AttachesKeeps, FinishesKeeps, ReportsLifeKeeps, LifeRemovalKeeps, Zenon
  <2> QED
    BY <1>3, <2>1, <2>2, <2>3, Zenon DEF LifecycleStep
<1>4. CASE UNCHANGED custodyVars
  <2>1. UNCHANGED <<host, wire, edits, told, upsets, bridge, custody, dreq, rem, lreq, lifeOnly>>
    BY <1>4, Zenon DEF custodyVars, defVars, hostVars
  <2>2. HostTyped'
    BY <2>1, HostStays, Zenon DEF CustodyInv, HostTyped
  <2> QED
    BY <2>1, <2>2, CustodyStays, TasksStay, LifeStays, Zenon DEF CustodyInv
<1> QED
  BY <1>1, <1>2, <1>3, <1>4, Zenon DEF CustodyNext

-----------------------------------------------------------------------------
(* The tables of the definitions, their requests and the hosts' receipts    *)
(* keep the shape, and the tasks the places, the rest of the argument rests *)
(* on (CustodyInv), over every lost answer and every restart.               *)
THEOREM CustodyInvariant == CustodySpec => []CustodyInv
BY CustodyStarts, CustodyStep, PTL DEF CustodySpec

(* One definition change and one lifecycle request wait per agent, although *)
(* the operator's change, a creation, an owed spawn and a delegated action  *)
(* each look before they ask (OPEN_SQL).                                    *)
THEOREM OneRequestWaits == CustodySpec => []OneWaiting
<1>1. CustodyInv => OneWaiting
  <2> SUFFICES ASSUME CustodyInv
               PROVE  Cardinality(OpenChanges(dreq)) <= 1 /\ Cardinality(OpenLife(lreq)) <= 1
    BY Zenon DEF OneWaiting
  <2>1. ASSUME NEW S, \A r, q \in S : r = q PROVE Cardinality(S) <= 1
    <3>1. CASE S = {}
      BY <3>1, FS_EmptySet
    <3>2. ASSUME NEW r \in S PROVE Cardinality(S) <= 1
      <4>1. S = {r}
        BY <2>1, Zenon
      <4> QED
        BY <4>1, FS_Singleton
    <3> QED
      BY <3>1, <3>2, Zenon
  <2>2. \A r, q \in OpenChanges(dreq) : r = q
    BY Zenon DEF CustodyInv, ChangesOK, OpenChanges
  <2>3. \A r, q \in OpenLife(lreq) : r = q
    BY Zenon DEF CustodyInv, LifeInv, LivesOK, OpenLife
  <2> HIDE DEF OpenChanges, OpenLife
  <2> QED
    BY <2>1, <2>2, <2>3, Zenon
<1> QED
  BY CustodyInvariant, <1>1, PTL

(* The brief of a request is handed to dispatch at most once, and only with *)
(* a worker attached (lifecycle_launch.py: the receipt is immutable),       *)
(* however often the host attaches, restarts or loses the answer.           *)
THEOREM BriefsGoOnce == CustodySpec => []BriefOnce
<1>1. CustodyInv => BriefOnce
  BY Zenon DEF CustodyInv, LifeInv
<1> QED
  BY CustodyInvariant, <1>1, PTL

(* The lifetime the service holds or saw withdrawn, and a done request that *)
(* asked for its removal.                                                   *)
Life == IF Defined THEN <<def.by, def.inc>> ELSE agent.wd
Asked ==
  \/ \E r \in Changes : dreq[r].kind = "remove" /\ dreq[r].st = "done" /\ <<dreq[r].by, dreq[r].inc>> = Life
  \/ \E l \in LifeRequests : lreq[l].act = "delete" /\ lreq[l].st = "done" /\ <<lreq[l].by, lreq[l].inc>> = Life
RowGoes == agent.row /\ ~agent'.row /\ tomb' = "definition_removed"

(* Every other step leaves the row of an agent where it is.                 *)
LEMMA PushLeavesRow ==
  ASSUME CustodyInv, NEW p \in wire, PushArrives(p), agent.row
  PROVE  agent'.row
<1>1. agent \in [row : BOOLEAN, dstate : {"", "defined", "withdrawn"}, wd : By \X Nat]
  BY Zenon DEF CustodyInv, CustodyTyped
<1>2. \/ UNCHANGED agent
      \/ \E w : agent' = [agent EXCEPT !.row = TRUE, !.dstate = "defined", !.wd = w]
      \/ \E w : agent' = [agent EXCEPT !.dstate = "withdrawn", !.wd = w]
  <2>1. (\E s, e : _apply_entries(s, e)) \/ UNCHANGED custody
    BY Zenon DEF PushArrives, apply_definition_push
  <2>2. CASE UNCHANGED custody
    BY <2>2, Zenon DEF custody
  <2>3. ASSUME NEW s, NEW e, _apply_entries(s, e)
        PROVE  \/ UNCHANGED agent
               \/ \E w : agent' = [agent EXCEPT !.row = TRUE, !.dstate = "defined", !.wd = w]
               \/ \E w : agent' = [agent EXCEPT !.dstate = "withdrawn", !.wd = w]
    <3>1. \/ UNCHANGED agent
          \/ _ensure_agent_row
          \/ agent' = [agent EXCEPT !.dstate = "withdrawn", !.wd = <<def.by, def.inc>>]
      BY <2>3, Zenon DEF _apply_entries
    <3> QED
      BY <3>1, Zenon DEF _ensure_agent_row
  <2> QED
    BY <2>1, <2>2, <2>3, Zenon
<1> QED
  BY <1>1, <1>2, Zenon

(* Releasing a definition removes no agent.                                *)
LEMMA ReleaseLeavesRow ==
  ASSUME CustodyInv, ReleasesDefinition, agent.row
  PROVE  agent'.row
<1>1. agent \in [row : BOOLEAN, dstate : {"", "defined", "withdrawn"}, wd : By \X Nat]
  BY Zenon DEF CustodyInv, CustodyTyped
<1>2. agent' = [agent EXCEPT !.dstate = "withdrawn"]
  BY Zenon DEF ReleasesDefinition
<1> QED
  BY <1>1, <1>2, Zenon

(* A removal that passes its fence names the lifetime.                      *)
LEMMA FenceNames ==
  ASSUME CustodyInv, agent.row, NEW t \in RemovalTasks, t # "api", NEW r \in Changes, ~RemovalRefused(t, r)
  PROVE  Asked
<1>1. dreq[r].cons = "pending" /\ ~removal_refusal(dreq[r].by, dreq[r].inc)
  BY Zenon DEF RemovalRefused, settled_refusal
<1>2. dreq[r].kind = "remove" /\ dreq[r].st = "done"
  BY <1>1, Zenon DEF CustodyInv, ChangesOK
<1>3. <<dreq[r].by, dreq[r].inc>> = Life
  BY <1>1, Zenon DEF removal_refusal, Life
<1> QED
  BY <1>2, <1>3, Zenon DEF Asked

(* A removal task that deletes the row names its lifetime.                 *)
LEMMA RemovalNames ==
  ASSUME CustodyInv, RowGoes, NEW t \in RemovalTasks,
         NEW r \in Changes \cup {0}, RemovalBegins(t, r) \/ RemovalDeletes(t)
  PROVE  Asked
<1>1. t # "api"
  <2> SUFFICES ASSUME t = "api" PROVE FALSE
    BY Zenon
  <2>1. UNCHANGED <<agent, tomb>> \/ _remove_agent_record("delete_agent")
    BY Zenon DEF RemovalBegins, RemovalDeletes, Reason
  <2> QED
    BY <2>1, Zenon DEF RowGoes, _remove_agent_record
<1>2. agent' # agent /\ agent.row
  BY Zenon DEF RowGoes
<1>3. CASE RemovalBegins(t, r)
  <2>1. ~RemovalRefused(t, r) /\ r \in RemovalWork(t)
    BY <1>2, <1>3, Zenon DEF RemovalBegins
  <2>2. r \in Changes
    BY <1>1, <2>1, Zenon DEF RemovalWork
  <2> QED
    BY <1>1, <1>2, <2>1, <2>2, FenceNames, Zenon
<1>4. CASE RemovalDeletes(t)
  <2>1. ~RemovalRefused(t, rem[t].req) /\ rem[t].at = "wait"
    BY <1>2, <1>4, Zenon DEF RemovalDeletes
  <2>2. rem[t].req \in Changes
    BY <1>1, <2>1, Zenon DEF CustodyInv, TasksOK
  <2> QED
    BY <1>1, <1>2, <2>1, <2>2, FenceNames, Zenon
<1> QED
  BY <1>3, <1>4, Zenon

(* So does a delete that a host carried out.                               *)
LEMMA DeleteNames ==
  ASSUME CustodyInv, RowGoes, NEW l \in LifeRequests, LifecycleRemoval(l)
  PROVE  Asked
<1>1. agent' # agent /\ agent.row
  BY Zenon DEF RowGoes
<1>2. l \in owes /\ ~removal_refusal(lreq[l].by, lreq[l].inc)
  BY <1>1, Zenon DEF LifecycleRemoval
<1>3. lreq[l].act = "delete" /\ lreq[l].st = "done"
  BY <1>2, Zenon DEF CustodyInv, LifeInv, DeleteOwed
<1>4. <<lreq[l].by, lreq[l].inc>> = Life
  BY <1>1, <1>2, Zenon DEF removal_refusal, Life
<1> QED
  BY <1>3, <1>4, Zenon DEF Asked

(* No other step deletes the row.                                          *)
LEMMA RemovalStep == CustodyInv /\ CustodyNext /\ RowGoes => Asked
<1> SUFFICES ASSUME CustodyInv, CustodyNext, RowGoes PROVE Asked
  BY Zenon
<1>0. agent.row /\ ~agent'.row /\ agent' # agent
  BY Zenon DEF RowGoes
<1>1. ~UNCHANGED custody
  BY <1>0, Zenon DEF custody
<1>2. CASE DefNext
  <2>1. \/ \E p \in wire : PushArrives(p)
        \/ ReleasesDefinition
        \/ \E t \in RemovalTasks, r \in Changes \cup {0} : RemovalBegins(t, r)
        \/ \E t \in RemovalTasks : RemovalDeletes(t)
    BY <1>0, <1>1, <1>2, Zenon DEF DefNext, HostEdits, Beats, ClaimsChanges, ResetsStore, AdmitsCreation, AdmitsChange,
       RequestAges, ReportsChange, RemovalSettles, ListsChanges
  <2> QED
    BY <1>0, <2>1, PushLeavesRow, ReleaseLeavesRow, RemovalNames, Zenon
<1>3. CASE LifecycleStep
  <2>1. \E l \in LifeRequests : LifecycleRemoval(l)
    BY <1>1, <1>3, Zenon DEF LifecycleStep, SubmitsLifecycle, Delegates, admit_lifecycle, ClaimsLifecycle, HostRestarts,
       PreparesLaunch, Attaches, HostFinishes, ReportsLifecycle, defVars
  <2> QED
    BY <2>1, DeleteNames, Zenon
<1>4. CASE Restart
  BY <1>1, <1>4, Zenon DEF Restart, ServiceRestarts
<1> QED
  BY <1>2, <1>3, <1>4, Zenon DEF CustodyNext

(* A removal takes only the lifetime it was asked for: when an agent's row  *)
(* goes with its definition, a done removal or a done delete names the      *)
(* lifetime the service holds or saw withdrawn (removal_refusal is asked    *)
(* again where the row goes, agent_remove.py), although the agent may have  *)
(* been defined again, or moved, while the removal waited for its worker.   *)
THEOREM RemovalsAreExact == CustodySpec => OnlyThatLifetime
<1>1. CustodyInv /\ [CustodyNext]_custodyVars =>
        [agent.row /\ ~agent'.row /\ tomb' = "definition_removed" =>
          LET life == IF Defined THEN <<def.by, def.inc>> ELSE agent.wd IN
          \/ \E r \in Changes : dreq[r].kind = "remove" /\ dreq[r].st = "done" /\ <<dreq[r].by, dreq[r].inc>> = life
          \/ \E l \in LifeRequests : lreq[l].act = "delete" /\ lreq[l].st = "done"
                                      /\ <<lreq[l].by, lreq[l].inc>> = life]_custodyVars
  BY RemovalStep, Zenon DEF RowGoes, Asked, Life
<1> QED
  BY CustodyInvariant, <1>1, PTL DEF CustodySpec, OnlyThatLifetime
=============================================================================
