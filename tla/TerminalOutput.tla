--------------------------- MODULE TerminalOutput ---------------------------
(* One terminal's output on its way from the host to the row and to a          *)
(* dashboard: the process-wide write queue (terminal_write_queue.py), the tail  *)
(* held in memory between row writes (terminal_tail_buffer.py), the live        *)
(* screen (terminal_snapshot.py), the row, and one console that paints frames   *)
(* by their sequence number.  A POST is answered when its chunk is queued.      *)
(* asyncio runs one step at a time: a step ends at an await that can wait.      *)
(* A chunk is its position in the stream; text is a sequence of chunks.         *)
EXTENDS Integers, Sequences, FiniteSets
LOCAL INSTANCE SequencesExt

CONSTANTS
  MaxPosts,    \* chunks the host posts
  MaxPending,  \* chunks a pending batch holds (max_pending_chars)
  MaxRetry,    \* handed-back batches kept (MAX_RETRY_BATCHES)
  MaxFaults    \* refused writes, control reports with output, restarts and
               \* fetches the console starts, together

ASSUME OutBounds ==
  /\ MaxPosts \in Nat /\ MaxFaults \in Nat
  /\ MaxPending \in Nat \ {0} /\ MaxRetry \in Nat \ {0}

VARIABLES
  tui,      \* the program draws with ANSI, so a live screen is kept
  posted,   \* chunks accepted so far
  frame,    \* frame[c]: the sequence number chunk c was accepted under
  pend,     \* the pending batch of the queue
  floor,    \* _seq_floor
  timer,    \* a flush timer is armed
  drains,   \* tasks holding or waiting for _write_lock, first come first served
  draft,    \* the row update the first of them is waiting to commit
  saved,    \* the held tail before that write
  held,     \* the tail buffer: tail, number, not yet written
  settle,   \* the settle timer is armed
  screen,   \* the live screen and the number of the last chunk fed to it
  row,      \* output, output_seq and status of the terminal_sessions row
  dbLock,   \* a control report holds SQLite's write lock
  view,     \* the console: what it painted, its cursor, frames held in a fetch
  answer,   \* the answer to the console's fetch
  gone,     \* chunks given up: over a bound, or in memory when it was lost
  spent     \* the faults that happened

outVars == <<tui, posted, frame, pend, floor, timer, drains, draft, saved, held,
             settle, screen, row, dbLock, view, answer, gone, spent>>

Unnumbered == -1           \* a NULL sequence number, and an unknown cursor
Report == 0                \* bytes a control report carries: no number, no frame
Stopped == "stopped"

Elems(s) == {s[i] : i \in 1..Len(s)}
NoPend == [on |-> FALSE, retry |-> <<>>, out |-> <<>>, status |-> "", seq |-> 0]
NoHeld == [on |-> FALSE, tail |-> <<>>, seq |-> Unnumbered, dirty |-> FALSE]
NoScreen == [on |-> FALSE, text |-> <<>>, seq |-> Unnumbered]
NoDraft == [on |-> FALSE, out |-> <<>>, seq |-> 0, status |-> "", paint |-> <<>>, tag |-> 0]
NoAnswer == [on |-> FALSE, text |-> <<>>, seq |-> 0]
Batch(out, status, seq) == [out |-> out, status |-> status, seq |-> seq]
Drain(kind, batches, tracked) == [kind |-> kind, batches |-> batches, tracked |-> tracked]

OutInit ==
  /\ tui \in BOOLEAN
  /\ posted = 0 /\ frame = <<>>
  /\ pend = NoPend /\ floor = 0 /\ timer = FALSE
  /\ drains = <<>> /\ draft = NoDraft /\ saved = NoHeld
  /\ held = NoHeld /\ settle = FALSE /\ screen = NoScreen
  /\ row = [out |-> <<>>, seq |-> 0, status |-> "running"]
  /\ dbLock = FALSE
  /\ view = [text |-> <<>>, last |-> Unnumbered, fetching |-> TRUE, kept |-> {}]
  /\ answer = NoAnswer
  /\ gone = {}
  /\ spent = [count |-> 0, direct |-> 0, refused |-> FALSE, crossed |-> FALSE]

MayFault == spent.count < MaxFaults

\* ------------------------------------------------------------------ the queue

(* The first post of a batch claims its number, above every number issued and  *)
(* above the row's; later posts of the batch share it.                         *)
Claim(p) == IF p.seq # 0 THEN p.seq
            ELSE (IF row.seq > floor THEN row.seq ELSE floor) + 1

(* A backlog over its bound gives up its oldest chunks.                        *)
Bounded(out) == IF Len(out) > MaxPending THEN SubSeq(out, Len(out) - MaxPending + 1, Len(out))
                ELSE out

Enqueue ==
  \E bytes \in BOOLEAN, status \in {"", Stopped} :
    /\ bytes \/ status # ""
    /\ posted < MaxPosts
    /\ LET c == posted + 1
           n == Claim(pend)
           out == IF bytes THEN Append(pend.out, c) ELSE pend.out
       IN /\ posted' = c
          /\ frame' = Append(frame, n)
          /\ pend' = [pend EXCEPT !.on = TRUE, !.out = Bounded(out), !.seq = n,
                                  !.status = IF status # "" THEN status ELSE @]
          /\ floor' = IF pend.seq = 0 THEN n ELSE floor
          /\ gone' = gone \union (Elems(out) \ Elems(Bounded(out)))
                          \union (IF bytes THEN {} ELSE {c})
    /\ timer' = TRUE
    /\ UNCHANGED <<tui, drains, draft, saved, held, settle, screen, row, dbLock, view, answer, spent>>

(* flush_terminal takes the batch off the queue, then waits for _write_lock.   *)
(* A timer's task is tracked: its failure schedules another flush.             *)
PopInto(tracked) ==
  /\ pend' = NoPend
  /\ timer' = FALSE
  /\ drains' = Append(drains, Drain("flush",
       SelectSeq(Append(pend.retry, Batch(pend.out, pend.status, pend.seq)),
                 LAMBDA b : b.out # <<>> \/ b.status # ""), tracked))

TimerFlush ==
  /\ pend.on /\ timer
  /\ PopInto(TRUE)
  /\ UNCHANGED <<tui, posted, frame, floor, draft, saved, held, settle, screen, row, dbLock,
                 view, answer, gone, spent>>

(* settle_terminal_tail: the held tail of a terminal that fell quiet.          *)
SettleFires ==
  /\ settle
  /\ settle' = FALSE
  /\ drains' = IF held.dirty THEN Append(drains, Drain("settle", <<>>, FALSE)) ELSE drains
  /\ UNCHANGED <<tui, posted, frame, pend, floor, timer, draft, saved, held, screen, row, dbLock,
                 view, answer, gone, spent>>

\* ------------------------------------------------------------ the write itself

Ends(status) == status = Stopped
Transition(status) == IF status = "" \/ (row.status = Stopped /\ ~Ends(status)) THEN "" ELSE status

(* Mutant: the buffer even when this process holds nothing yet.                *)
CurrentTailHeld == held.tail

(* current_tail: the buffer, or the row when this process holds nothing.       *)
CurrentTail == IF held.on THEN held.tail ELSE row.out

(* record: hold the tail and say whether the row gets it now.  The interval    *)
(* may or may not have passed; a terminal's first tail is always written.      *)
Recorded(tail, seq, due) ==
  IF ~held.on THEN [on |-> TRUE, tail |-> tail, seq |-> seq, dirty |-> FALSE]
  ELSE [held EXCEPT !.tail = tail, !.seq = IF seq = Unnumbered THEN @ ELSE seq, !.dirty = ~due]

Fed(out, seq) ==
  IF ~tui \/ out = <<>> THEN screen
  ELSE [on |-> TRUE, text |-> (IF screen.on THEN screen.text ELSE CurrentTail) \o out, seq |-> seq]

(* _append_terminal_output up to its UPDATE.  The row is given the tail when   *)
(* the interval has passed, when the terminal ends, and by a settle; with the  *)
(* tail goes its number, never one without the other.                          *)
PrepareAppend(out, status, seq, due, settling, tag) ==
  LET tail == CurrentTail \o out
      ends == Ends(Transition(status))
      write == due \/ ~held.on \/ ends \/ settling
  IN /\ screen' = Fed(out, seq)
     /\ held' = IF ends THEN NoHeld ELSE Recorded(tail, seq, write)
     /\ draft' = [on |-> TRUE,
                  out |-> IF write THEN tail ELSE row.out,
                  seq |-> IF write /\ seq # Unnumbered THEN seq ELSE row.seq,
                  status |-> IF Transition(status) = "" THEN row.status ELSE status,
                  paint |-> out, tag |-> tag]

WriteBegins ==
  \E due \in BOOLEAN :
    /\ drains # <<>> /\ ~draft.on /\ Head(drains).kind = "flush"
    /\ Head(drains).batches # <<>>
    /\ LET b == Head(Head(drains).batches)
           seq == IF b.seq = 0 THEN row.seq ELSE b.seq
       IN PrepareAppend(b.out, b.status, seq, due, FALSE, seq)
    /\ saved' = held
    /\ UNCHANGED <<tui, posted, frame, pend, floor, timer, drains, settle, row, dbLock,
                   view, answer, gone, spent>>

(* A settle asks again under the lock, and writes the number it finds there.   *)
SettleBegins ==
  /\ drains # <<>> /\ ~draft.on /\ Head(drains).kind = "settle"
  /\ IF held.dirty
     THEN /\ PrepareAppend(<<>>, "", IF held.seq = Unnumbered THEN row.seq ELSE held.seq, TRUE, TRUE, 0)
          /\ saved' = held
          /\ UNCHANGED drains
     ELSE /\ drains' = Tail(drains)
          /\ UNCHANGED <<screen, held, draft, saved>>
  /\ UNCHANGED <<tui, posted, frame, pend, floor, timer, settle, row, dbLock, view, answer, gone, spent>>

(* The console's socket: what it does with frame n carrying out.               *)
Painted(v, out, n) == [v EXCEPT !.text = @ \o out, !.last = n]
Received(v, out, n) ==
  IF out = <<>> THEN v
  ELSE IF v.fetching THEN [v EXCEPT !.kept = @ \union {[out |-> out, seq |-> n]}]
  ELSE IF v.last >= 0 /\ n <= v.last THEN v
  ELSE IF v.last >= 0 /\ n > v.last + 1
       THEN [v EXCEPT !.kept = @ \union {[out |-> out, seq |-> n]}, !.fetching = TRUE]
  ELSE Painted(v, out, n)

Released == IF Len(Head(drains).batches) <= 1 THEN Tail(drains)
            ELSE [drains EXCEPT ![1].batches = Tail(@)]

(* The commit, and the broadcast after it.  A socket that was away misses the  *)
(* frame and fetches when it comes back.                                       *)
WriteCommits ==
  \E away \in BOOLEAN :
    /\ draft.on /\ ~dbLock
    /\ away => MayFault
    /\ row' = [out |-> draft.out, seq |-> draft.seq, status |-> draft.status]
    /\ view' = IF away THEN [view EXCEPT !.fetching = TRUE] ELSE Received(view, draft.paint, draft.tag)
    /\ spent' = IF away THEN [spent EXCEPT !.count = @ + 1] ELSE spent
    /\ draft' = NoDraft
    /\ drains' = Released
    /\ settle' = (settle \/ held.dirty)
    /\ saved' = NoHeld
    /\ UNCHANGED <<tui, posted, frame, pend, floor, timer, held, screen, dbLock, answer, gone>>

(* _requeue_front: this batch and the later ones go back, each with its own    *)
(* number, ahead of what is already handed back; the last status wins.         *)
HandBack(batches) ==
  LET keep == SelectSeq(batches, LAMBDA b : b.out # <<>>)
      word == SelectSeq(batches, LAMBDA b : b.status # "")
      all  == [i \in 1..Len(keep) |-> Batch(keep[i].out, "", keep[i].seq)] \o pend.retry
      lost == IF Len(all) > MaxRetry THEN Len(all) - MaxRetry ELSE 0
  IN /\ pend' = [pend EXCEPT !.on = TRUE, !.retry = SubSeq(all, lost + 1, Len(all)),
                             !.status = IF word # <<>> THEN word[Len(word)].status ELSE @]
     /\ gone' = gone \union UNION {Elems(all[i].out) : i \in 1..lost}

(* Mutants: the held tail keeps the bytes of the failed write; a write never   *)
(* gives up while a control report holds the database.                         *)
WriteFailsTailKept ==
  /\ draft.on
  /\ dbLock \/ MayFault
  /\ spent' = [spent EXCEPT !.refused = TRUE, !.count = IF dbLock THEN @ ELSE @ + 1]
  /\ screen' = NoScreen /\ saved' = NoHeld
  /\ draft' = NoDraft
  /\ drains' = Tail(drains)
  /\ IF Head(drains).kind = "flush"
     THEN HandBack(Head(drains).batches) /\ timer' = (timer \/ Head(drains).tracked)
     ELSE UNCHANGED <<pend, gone, timer>>
  /\ UNCHANGED <<tui, posted, frame, floor, held, settle, row, dbLock, view, answer>>
WriteFailsNoTimeout ==
  /\ ~dbLock
  /\ WriteFailsTailKept

(* The database refuses the write, or its busy timeout passes while a control  *)
(* report holds the lock.  The held tail goes back, the screen is dropped.     *)
WriteFails ==
  /\ draft.on
  /\ dbLock \/ MayFault
  /\ spent' = [spent EXCEPT !.refused = TRUE, !.count = IF dbLock THEN @ ELSE @ + 1]
  /\ held' = saved /\ saved' = NoHeld
  /\ screen' = NoScreen
  /\ draft' = NoDraft
  /\ drains' = Tail(drains)
  /\ IF Head(drains).kind = "flush"
     THEN HandBack(Head(drains).batches) /\ timer' = (timer \/ Head(drains).tracked)
     ELSE UNCHANGED <<pend, gone, timer>>
  /\ UNCHANGED <<tui, posted, frame, floor, settle, row, dbLock, view, answer>>

\* -------------------------------------------------------- other users of the tail

(* A control report with output: it holds SQLite's write lock from its first   *)
(* statement (BEGIN IMMEDIATE) and waits for the queue's lock.                 *)
ReportArrives ==
  /\ MayFault /\ ~dbLock /\ spent.direct = 0
  /\ dbLock' = TRUE
  /\ spent' = [spent EXCEPT !.direct = 1, !.count = @ + 1]
  /\ drains' = Append(drains, Drain("report", <<>>, FALSE))
  /\ UNCHANGED <<tui, posted, frame, pend, floor, timer, draft, saved, held, settle, screen, row,
                 view, answer, gone>>

ReportAppends ==
  \E due \in BOOLEAN, status \in {"", Stopped} :
    /\ drains # <<>> /\ ~draft.on /\ Head(drains).kind = "report"
    /\ LET tail == Append(CurrentTail, Report)
           ends == Ends(Transition(status))
           write == due \/ ~held.on \/ ends
       IN /\ screen' = Fed(<<Report>>, Unnumbered)
          /\ held' = IF ends THEN NoHeld ELSE Recorded(tail, Unnumbered, write)
          /\ row' = [row EXCEPT !.out = IF write THEN tail ELSE @,
                                !.status = IF Transition(status) = "" THEN @ ELSE status]
    /\ dbLock' = FALSE
    /\ drains' = Tail(drains)
    /\ UNCHANGED <<tui, posted, frame, pend, floor, timer, draft, saved, settle, view, answer, gone, spent>>

(* A terminal ended by anything but its own output (a stop, a reaper).         *)
EndedElsewhere ==
  /\ row.status # Stopped /\ ~dbLock /\ ~draft.on
  /\ row' = [row EXCEPT !.status = Stopped]
  /\ UNCHANGED <<tui, posted, frame, pend, floor, timer, drains, draft, saved, held, settle, screen,
                 dbLock, view, answer, gone, spent>>

(* Chunks that are in memory and not in the row.                               *)
Unwritten == Elems(held.tail) \ Elems(row.out)

(* _release_tail_buffers_for_dead_terminals: a terminal that is not active     *)
(* keeps no tail, written or not.                                              *)
ReleaseTail ==
  /\ row.status = Stopped /\ held.on /\ ~draft.on
  /\ held' = NoHeld
  /\ gone' = gone \union Unwritten
  /\ UNCHANGED <<tui, posted, frame, pend, floor, timer, drains, draft, saved, settle, screen, row,
                 dbLock, view, answer, spent>>

(* The process ends: everything but the row is its memory.                     *)
ProcessEnds ==
  /\ MayFault
  /\ spent' = [spent EXCEPT !.count = @ + 1, !.crossed = @ \/ view.kept # {}]
  /\ gone' = gone \union (1..posted \ Elems(row.out))
  /\ pend' = NoPend /\ floor' = 0 /\ timer' = FALSE /\ drains' = <<>> /\ draft' = NoDraft
  /\ saved' = NoHeld /\ held' = NoHeld /\ settle' = FALSE /\ screen' = NoScreen /\ dbLock' = FALSE
  /\ view' = [view EXCEPT !.fetching = TRUE] /\ answer' = NoAnswer
  /\ UNCHANGED <<tui, posted, frame, row>>

Restart == ProcessEnds

(* A shutdown whose drain (flush_all) returned: nothing pending, nothing popped *)
(* and unwritten.  The drain itself is TimerFlush and the writes.               *)
CleanStop == ~pend.on /\ drains = <<>> /\ ProcessEnds

\* ------------------------------------------------------------------ the console

(* GET /terminals/{id} flushes the queue first ...                             *)
ReaderFlush ==
  /\ view.fetching /\ ~answer.on /\ pend.on
  /\ PopInto(FALSE)
  /\ UNCHANGED <<tui, posted, frame, floor, draft, saved, held, settle, screen, row, dbLock,
                 view, answer, gone, spent>>

(* Mutant: the held tail under the row's number.                               *)
ServedMixed ==
  IF screen.on THEN [on |-> TRUE, text |-> screen.text, seq |-> screen.seq]
  ELSE [on |-> TRUE, text |-> CurrentTail, seq |-> row.seq]

(* ... and answers with the screen and its number, or with the held tail and   *)
(* its number, or with the row's pair: never one of each.                      *)
Served ==
  IF screen.on THEN [on |-> TRUE, text |-> screen.text, seq |-> screen.seq]
  ELSE [on |-> TRUE, text |-> CurrentTail,
        seq |-> IF held.on /\ held.seq # Unnumbered THEN held.seq ELSE row.seq]

ReaderServed ==
  /\ view.fetching /\ ~answer.on
  /\ answer' = Served
  /\ UNCHANGED <<tui, posted, frame, pend, floor, timer, drains, draft, saved, held, settle, screen,
                 row, dbLock, view, gone, spent>>

(* drainHeldFrames: from the painted position, or from the lowest held frame    *)
(* when the position is unknown, only frames adjacent to what is painted.       *)
FrameOf(kept, n) == CHOOSE f \in kept : f.seq = n
Drained(v) ==
  LET ns    == {f.seq : f \in v.kept}
      first == IF v.last < 0 /\ ns # {} THEN CHOOSE n \in ns : \A m \in ns : n <= m ELSE v.last + 1
      run   == {n \in ns : n >= first /\ first..n \subseteq ns}
      last  == first + Cardinality(run) - 1
  IN IF run = {} THEN [v EXCEPT !.kept = {f \in @ : f.seq > v.last}]
     ELSE [v EXCEPT !.text = FoldLeft(LAMBDA t, n : t \o FrameOf(v.kept, n).out, @,
                                      [i \in 1..Cardinality(run) |-> first + i - 1]),
                    !.last = last,
                    !.kept = {f \in @ : f.seq > last}]

Repaint ==
  /\ answer.on
  /\ LET v == Drained([view EXCEPT !.text = answer.text, !.last = answer.seq])
     IN \/ view' = [v EXCEPT !.fetching = (v.kept # {})]
        \/ v.kept # {} /\ view' = [v EXCEPT !.fetching = FALSE, !.kept = {}]
  /\ answer' = NoAnswer
  /\ UNCHANGED <<tui, posted, frame, pend, floor, timer, drains, draft, saved, held, settle, screen,
                 row, dbLock, gone, spent>>

Refresh ==
  /\ ~view.fetching /\ MayFault
  /\ spent' = [spent EXCEPT !.count = @ + 1]
  /\ view' = [view EXCEPT !.fetching = TRUE]
  /\ UNCHANGED <<tui, posted, frame, pend, floor, timer, drains, draft, saved, held, settle, screen,
                 row, dbLock, answer, gone>>

OutNext ==
  \/ Enqueue \/ TimerFlush \/ SettleFires \/ WriteBegins \/ SettleBegins \/ WriteCommits
  \/ WriteFails \/ ReportArrives \/ ReportAppends \/ EndedElsewhere \/ ReleaseTail \/ Restart
  \/ CleanStop \/ ReaderFlush \/ ReaderServed \/ Repaint \/ Refresh

\* Timers fire, locks are handed on in order, and a write that waits for the
\* database either commits or fails when its busy timeout passes.
OutFairness ==
  /\ WF_outVars(TimerFlush) /\ WF_outVars(SettleFires)
  /\ WF_outVars(WriteBegins) /\ WF_outVars(SettleBegins)
  /\ WF_outVars(WriteCommits \/ WriteFails) /\ WF_outVars(ReportAppends)

OutSpec == OutInit /\ [][OutNext]_outVars /\ OutFairness

\* ------------------------------------------------------------------ properties

Increasing(s) == \A i, j \in 1..Len(s) : i < j /\ s[i] > 0 /\ s[j] > 0 => s[i] < s[j]

(* A console that is not fetching shows exactly the frames up to its cursor,    *)
(* also after a restart, provided it held no frame of the old process then.     *)
ConsoleFollows ==
  ~spent.refused /\ ~spent.crossed /\ spent.direct = 0 /\ ~view.fetching /\ view.last >= 0 =>
    /\ Increasing(view.text)
    /\ Elems(view.text) \subseteq {c \in 1..posted : frame[c] <= view.last}
    /\ \A c \in 1..posted : frame[c] <= view.last => c \in Elems(view.text) \union gone

AllStored == \A c \in 1..posted : c \in Elems(row.out) \union gone
Stranded == spent.refused /\ ((pend.on /\ ~timer) \/ (held.dirty /\ ~settle))

(* What was accepted reaches the row, unless a refused write left it without a  *)
(* timer (a reader's flush or a settle that failed); nobody waits for a lock    *)
(* for ever.                                                                    *)
StoredInTheEnd == <>[](AllStored \/ Stranded) /\ []<>(drains = <<>>)

(* The durable column is an append-only log of accepted chunks.                 *)
Log == INSTANCE OutputLog WITH
         LogChunks <- 0..MaxPosts,
         accepted <- (1..posted) \union {x \in {Report} : spent.direct > 0},
         stored <- row.out
ImplementsLog == Log!LogSpec

=============================================================================
