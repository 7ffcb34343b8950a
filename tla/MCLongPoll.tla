----------------------------- MODULE MCLongPoll -----------------------------
(* Two concurrent claim requests and two units of work: enough for a       *)
(* notify to race a registration, and for two requests to race for a row.  *)
(* One of the callers stays to hear its answer.                            *)
EXTENDS LongPoll

CONSTANTS c1, c2, i1, i2

MCCallers == {c1, c2}
MCItems == {i1, i2}

MCPollSpec == PollInit /\ [][PollNext /\ ~left'[c2]]_pollVars /\ PollFairness
=============================================================================
