------------------------------ MODULE OutputLog ------------------------------
(* What the terminal-output path promises about the durable column            *)
(* terminal_sessions.output: it is a log.  A chunk the service has accepted    *)
(* is appended to it at most once and nothing that was appended is rewritten.  *)
(* An accepted chunk may be given up (a backlog over its bound, a crash).      *)
EXTENDS Naturals, Sequences

CONSTANT LogChunks   \* the chunks a host can post

VARIABLES
  accepted,   \* chunks whose POST was answered
  stored      \* the durable column, as a sequence of chunks

LogVars == <<accepted, stored>>

LogElems(s) == {s[i] : i \in 1..Len(s)}

LogInit == accepted = {} /\ stored = <<>>

Accept ==
  \E c \in LogChunks \ accepted :
    /\ accepted' = accepted \union {c}
    /\ UNCHANGED stored

(* One write appends some accepted chunks that are not in the log yet.         *)
AppendSome ==
  /\ Len(stored') > Len(stored)
  /\ SubSeq(stored', 1, Len(stored)) = stored
  /\ LogElems(stored') \subseteq accepted
  /\ \A i, j \in 1..Len(stored') : stored'[i] = stored'[j] => i = j
  /\ UNCHANGED accepted

LogNext == Accept \/ AppendSome

LogSpec == LogInit /\ [][LogNext]_LogVars
=============================================================================
