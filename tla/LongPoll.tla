------------------------------ MODULE LongPoll ------------------------------
(***************************************************************************)
(* The in-process long poll behind the bridges' claim endpoints            *)
(* (service/longpoll.py): a caller's request runs a claim attempt, sleeps  *)
(* on a waiter future while the attempts come back empty, and is woken by  *)
(* notify(), by its fallback timer or by its own caller leaving.           *)
(*                                                                         *)
(* The work that is claimed is abstract: an item is "absent", "queued" (a  *)
(* committed row an attempt can claim), or "claimed".  Every point where   *)
(* the coroutine awaits is a step boundary of its own.                     *)
(***************************************************************************)
EXTENDS Naturals, FiniteSets

CONSTANTS Callers,   \* concurrent requests to one claim endpoint
          Items      \* units of claimable work

VARIABLES
  pc,          \* pc[c]: where caller c's request is
  waits,       \* waits[c]: the request asked to wait (wait_ms > 0)
  result,      \* result[c]: what the last attempt returned, {} or {item}
  expired,     \* expired[c]: the request's deadline has passed
  left,        \* left[c]: the caller has disconnected
  watch,       \* watch[c]: the disconnect watcher: "off", "on", or "gone" once
               \* it has seen the caller leave
  fired,       \* fired[c]: c's waiter future or its timer is done
  item,        \* item[i]: the state of a unit of work
  unreported   \* commits whose notify() has not run yet

pollVars == <<pc, waits, result, expired, left, watch, fired, item, unreported>>
request == <<pc, waits, result, expired, left, watch, fired>>

PCs == {"idle", "attempt", "answered", "sleep"}

PollTypeOK ==
  /\ pc \in [Callers -> PCs]
  /\ waits \in [Callers -> BOOLEAN]
  /\ result \in [Callers -> SUBSET Items]
  /\ expired \in [Callers -> BOOLEAN]
  /\ left \in [Callers -> BOOLEAN]
  /\ watch \in [Callers -> {"off", "on", "gone"}]
  /\ fired \in [Callers -> BOOLEAN]
  /\ item \in [Items -> {"absent", "queued", "claimed", "delivered", "stranded"}]
  /\ unreported \in SUBSET Items

PollInit ==
  /\ pc = [c \in Callers |-> "idle"]
  /\ waits = [c \in Callers |-> FALSE]
  /\ result = [c \in Callers |-> {}]
  /\ expired = [c \in Callers |-> FALSE]
  /\ left = [c \in Callers |-> FALSE]
  /\ watch = [c \in Callers |-> "off"]
  /\ fired = [c \in Callers |-> FALSE]
  /\ item = [i \in Items |-> "absent"]
  /\ unreported = {}
-----------------------------------------------------------------------------
(* A bridge opens a claim request; the first attempt runs unconditionally. *)
Request(c, wait) ==
  /\ pc[c] = "idle"
  /\ pc' = [pc EXCEPT ![c] = "attempt"]
  /\ waits' = [waits EXCEPT ![c] = wait]
  /\ result' = [result EXCEPT ![c] = {}]
  /\ expired' = [expired EXCEPT ![c] = FALSE]
  /\ left' = [left EXCEPT ![c] = FALSE]
  /\ fired' = [fired EXCEPT ![c] = FALSE]
  /\ UNCHANGED <<watch, item, unreported>>

(* Mutant of PollClaim: a claim that does not test the row is still queued.    *)
PollClaimUnguarded(c, i) ==
  /\ pc[c] = "attempt" /\ item[i] \in {"queued", "claimed"}
  /\ item' = [item EXCEPT ![i] = "claimed"]
  /\ result' = [result EXCEPT ![c] = {i}]
  /\ pc' = [pc EXCEPT ![c] = "answered"]
  /\ UNCHANGED <<waits, expired, left, watch, fired, unreported>>

(* One claim transaction.  It claims a queued item; with none queued, or   *)
(* when the write lock is contended (lock_result), it returns empty.       *)
PollClaim(c, i) ==
  /\ pc[c] = "attempt" /\ item[i] = "queued"
  /\ item' = [item EXCEPT ![i] = "claimed"]
  /\ result' = [result EXCEPT ![c] = {i}]
  /\ pc' = [pc EXCEPT ![c] = "answered"]
  /\ UNCHANGED <<waits, expired, left, watch, fired, unreported>>

ClaimNothing(c) ==
  /\ pc[c] = "attempt"
  /\ result' = [result EXCEPT ![c] = {}]
  /\ pc' = [pc EXCEPT ![c] = "answered"]
  /\ UNCHANGED <<waits, expired, left, watch, fired, item, unreported>>

(* The handler returns and its watcher is cancelled: what it claimed       *)
(* reaches the caller, or nobody.                                          *)
Return(c) ==
  /\ pc' = [pc EXCEPT ![c] = "idle"]
  /\ watch' = [watch EXCEPT ![c] = "off"]
  /\ item' = [i \in Items |-> IF i \in result[c]
                              THEN IF left[c] THEN "stranded" ELSE "delivered"
                              ELSE item[i]]
  /\ UNCHANGED <<waits, result, expired, left, fired, unreported>>

(* Mutant of Decide: the remaining time is never looked at.                *)
DecideNoDeadline(c) ==
  /\ pc[c] = "answered"
  /\ IF result[c] # {} \/ ~waits[c] \/ watch[c] = "gone"
     THEN Return(c)
     ELSE /\ pc' = [pc EXCEPT ![c] = "sleep"]
          /\ fired' = [fired EXCEPT ![c] = FALSE]
          /\ watch' = [watch EXCEPT ![c] = "on"]
          /\ UNCHANGED <<waits, result, expired, left, item, unreported>>

(* After an attempt: a non-empty result, a short poll, a passed deadline or *)
(* a caller that has gone returns; otherwise a fresh waiter is registered.  *)
Decide(c) ==
  /\ pc[c] = "answered"
  /\ IF result[c] # {} \/ ~waits[c] \/ expired[c] \/ watch[c] = "gone"
     THEN Return(c)
     ELSE /\ pc' = [pc EXCEPT ![c] = "sleep"]
          /\ fired' = [fired EXCEPT ![c] = FALSE]
          /\ watch' = [watch EXCEPT ![c] = "on"]
          /\ UNCHANGED <<waits, result, expired, left, item, unreported>>

(* Mutant of Resume: the wake goes straight to the next attempt.           *)
ResumeUnasked(c) ==
  /\ pc[c] = "sleep" /\ (fired[c] \/ watch[c] = "gone")
  /\ pc' = [pc EXCEPT ![c] = "attempt"]
  /\ UNCHANGED <<waits, result, expired, left, watch, fired, item, unreported>>

(* _wait_once returns.  gone is asked after the wake and before the next   *)
(* attempt.                                                                *)
Resume(c) ==
  /\ pc[c] = "sleep" /\ (fired[c] \/ watch[c] = "gone")
  /\ IF watch[c] = "gone"
     THEN Return(c)
     ELSE /\ pc' = [pc EXCEPT ![c] = "attempt"]
          /\ UNCHANGED <<waits, result, expired, left, watch, fired, item, unreported>>
-----------------------------------------------------------------------------
(* Mutant of Fallback: a waiter that sleeps until it is notified.          *)
FallbackNever(c) == FALSE /\ UNCHANGED pollVars /\ c = c

(* The sleep's own timeout, min(remaining, fallback_s).                    *)
Fallback(c) ==
  /\ pc[c] = "sleep" /\ ~fired[c]
  /\ fired' = [fired EXCEPT ![c] = TRUE]
  /\ UNCHANGED <<pc, waits, result, expired, left, watch, item, unreported>>

(* The clock passes the deadline, which is set when the wait loop starts.  *)
Deadline(c) ==
  /\ watch[c] # "off" /\ ~expired[c]
  /\ expired' = [expired EXCEPT ![c] = TRUE]
  /\ UNCHANGED <<pc, waits, result, left, watch, fired, item, unreported>>

(* The caller drops the connection, at any time of its request.            *)
Disconnect(c) ==
  /\ pc[c] # "idle" /\ ~left[c]
  /\ left' = [left EXCEPT ![c] = TRUE]
  /\ UNCHANGED <<pc, waits, result, expired, watch, fired, item, unreported>>

(* The watcher task, which exists once the request is in its wait loop,    *)
(* receives http.disconnect.                                               *)
Watch(c) ==
  /\ left[c] /\ watch[c] = "on"
  /\ watch' = [watch EXCEPT ![c] = "gone"]
  /\ UNCHANGED <<pc, waits, result, expired, left, fired, item, unreported>>

(* A transaction that enqueues work commits on the connection's thread;    *)
(* the event loop reports it afterwards.                                   *)
Commit(i) ==
  /\ item[i] = "absent"
  /\ item' = [item EXCEPT ![i] = "queued"]
  /\ unreported' = unreported \cup {i}
  /\ UNCHANGED request

(* notify(scope): every registered waiter's future is resolved.            *)
Notify(i) ==
  /\ i \in unreported
  /\ unreported' = unreported \ {i}
  /\ fired' = [c \in Callers |-> IF pc[c] = "sleep" THEN TRUE ELSE fired[c]]
  /\ UNCHANGED <<pc, waits, result, expired, left, watch, item>>

(* A missed notify: a writer without a hook, or a report that raised.      *)
MissNotify(i) ==
  /\ i \in unreported
  /\ unreported' = unreported \ {i}
  /\ UNCHANGED <<request, item>>

(* Delivered work is finished and its row is gone; the id is free again.   *)
ItemFinishes(i) ==
  /\ item[i] = "delivered" /\ i \notin unreported
  /\ item' = [item EXCEPT ![i] = "absent"]
  /\ UNCHANGED <<request, unreported>>

PollNext ==
  \/ \E c \in Callers :
       \/ \E wait \in BOOLEAN : Request(c, wait)
       \/ \E i \in Items : PollClaim(c, i)
       \/ ClaimNothing(c) \/ Decide(c) \/ Resume(c)
       \/ Fallback(c) \/ Deadline(c) \/ Disconnect(c) \/ Watch(c)
  \/ \E i \in Items : Commit(i) \/ Notify(i) \/ MissNotify(i) \/ ItemFinishes(i)

PollSpec == PollInit /\ [][PollNext]_pollVars

(* The event loop runs every ready callback and fires every timer; bridges *)
(* poll for ever.  An attempt claims the oldest row and the write lock is  *)
(* contended only now and then, so an item that can be claimed again and   *)
(* again is claimed.                                                       *)
PollFairness ==
  /\ \A c \in Callers :
       /\ WF_pollVars(Request(c, TRUE) \/ Request(c, FALSE))
       /\ WF_pollVars(ClaimNothing(c) \/ \E i \in Items : PollClaim(c, i))
       /\ WF_pollVars(Decide(c)) /\ WF_pollVars(Resume(c))
       /\ WF_pollVars(Fallback(c)) /\ WF_pollVars(Deadline(c))
  /\ \A i \in Items : SF_pollVars(\E c \in Callers : PollClaim(c, i))

FairPollSpec == PollSpec /\ PollFairness
-----------------------------------------------------------------------------
(* Work an attempt has marked is carried by exactly one response in flight *)
(* (longpoll.py: the claim marks what it returns): no committed claim is   *)
(* dropped by the retry loop, and no two requests return the same item.    *)
ClaimedIsCarried ==
  /\ \A i \in Items : item[i] = "claimed" =>
       \E c \in Callers : pc[c] = "answered" /\ i \in result[c]
  /\ \A c \in Callers : pc[c] = "answered" =>
       /\ \A i \in result[c] : item[i] = "claimed"
       /\ \A d \in Callers \ {c} : pc[d] = "answered" => result[c] \cap result[d] = {}

(* Once the watcher has seen its caller leave, the request starts no       *)
(* further attempt, so it cannot take work it will hand to nobody          *)
(* (longpoll.py: "no attempt runs after that").                            *)
NoAttemptAfterGone ==
  [][\A c \in Callers : watch[c] = "gone" /\ pc[c] # "attempt" => pc[c]' # "attempt"]_pollVars

(* Queued work is claimed even when its notify() was missed: the fallback  *)
(* timer degrades the long poll to a short one, "never lose" work.         *)
QueuedIsClaimed ==
  \A i \in Items : item[i] = "queued" ~> item[i] # "queued"

(* Every held request is answered, however many notifies wake it early.    *)
RequestReturns ==
  \A c \in Callers : pc[c] # "idle" ~> pc[c] = "idle"
=============================================================================
