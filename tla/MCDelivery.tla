----------------------------- MODULE MCDelivery -----------------------------
(***************************************************************************)
(* Components that share no state, side by side: the rigid variable `part`  *)
(* says which one a behaviour is about, and with which bounds.  Environments *)
(* has three parts: takeovers and controls, roots requests that cross them, *)
(* an agent that is bound.  Contracts has three: two contracts under        *)
(* reports and replies, reminders, and one contract that operators close    *)
(* and repair.  Sending has three: one message and every kind of recipient, *)
(* three messages into the queue of a channel agent, three into a console.  *)
(***************************************************************************)
EXTENDS Environments, Contracts, Sending

VARIABLE part

deliveryVars == <<part, envVars, contractVars, sendVars>>

\* What each part of Environments leaves out.
EnvBound ==
    CASE part = "takeover" -> edited' = 0 /\ quiet' = 0 /\ bound' = bound /\ (now' = 3 => Len(controls') <= 1)
      [] part = "roots" -> now' <= 2 /\ Len(controls') <= 1 /\ bound' = bound
      [] part = "agent" -> controls' = <<>> /\ edited' = 0

Wanted(r) == con'[r].need = (con'[r].st # "none")
NoOperators == repairs' = 0 /\ \A r \in ContractIds : ~con'[r].op

ContractsBound ==
    CASE part = "pair" ->
           /\ NoOperators /\ Wanted(1) /\ Wanted(2) /\ con'[1].rems = 0 /\ con'[2].rems = 0
           /\ con'[1].mode # "channel" /\ con'[2].mode \in {"managed", "steer"}
           /\ \A r \in ContractIds : con'[r].sender = "peer"
      [] part = "remind" ->
           /\ NoOperators /\ Len(letters') <= 1 /\ con'[1].mode # "managed"
           /\ \A r \in ContractIds : Wanted(r) /\ con'[r].sender = "peer"
      [] part = "one" -> con'[2] = NoContract

SendStart ==
    CASE part = "route" -> tgt.env
      [] part = "queue" -> /\ tgt.rt = "claude" /\ tgt.managed /\ ~tgt.flag /\ tgt.console
                           /\ conf = [typed |-> FALSE, backing |-> TRUE, wrapper |-> FALSE]
      [] part = "type" ->  /\ tgt.rt = "codex" /\ tgt.managed /\ ~tgt.flag /\ tgt.env /\ tgt.console
                           /\ conf = [typed |-> TRUE, backing |-> TRUE, wrapper |-> FALSE]
      [] OTHER -> tgt.rt = "pi" /\ ~tgt.managed /\ ~tgt.flag /\ tgt.env /\ tgt.console /\ conf.typed /\ conf.backing /\ conf.wrapper

SendOnce == ((part = "route" => mail = <<>>) /\ Sends) \/ Otherwise
SendBound ==
    CASE part = "route" -> Len(work') <= 2
      [] part = "queue" -> Len(work') <= 2 /\ conf' = conf /\ tgt' = [tgt EXCEPT !.env = tgt'.env, !.sidecar = tgt'.sidecar]
      [] part = "type" -> conf' = conf /\ tgt' = tgt

EnvParts == {"takeover", "roots", "agent"}
ContractParts == {"pair", "remind", "one"}
SendParts == {"route", "queue", "type"}

DeliveryInit ==
    /\ part \in EnvParts \cup ContractParts \cup SendParts
    /\ EnvInit /\ ContractsInit /\ SendInit /\ SendStart

DeliveryNext ==
    /\ UNCHANGED part
    /\ \/ part \in EnvParts /\ EnvNext /\ EnvBound /\ UNCHANGED <<contractVars, sendVars>>
       \/ part \in ContractParts /\ ContractsNext /\ ContractsBound /\ UNCHANGED <<envVars, sendVars>>
       \/ part \in SendParts /\ SendOnce /\ SendBound /\ UNCHANGED <<envVars, contractVars>>

DeliverySpec == DeliveryInit /\ [][DeliveryNext]_deliveryVars

=============================================================================
