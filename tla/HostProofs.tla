----------------------------- MODULE HostProofs -----------------------------
(***************************************************************************)
(* The service's side of an environment host: which bridge owns the        *)
(* environment's row (Environments), how a request that waits for work is  *)
(* answered (LongPoll), and what becomes of the controls of a terminal     *)
(* (TerminalLife).                                                         *)
(*                                                                         *)
(* Environments, for any number of bridges, controls and roots requests:   *)
(* EnvInv adds to OwnerNotStopped what a poll that has read a stop knows.  *)
(* LongPoll, for any callers and items: what a caller claimed is either in *)
(* its answer or still queued.  TerminalLife, for any number of terminals, *)
(* bridges and mishaps: LifeInv adds to TypedOnce that an input nobody has *)
(* claimed has reached nobody, and that the host has a claimed one once.   *)
(***************************************************************************)
EXTENDS Environments, LongPoll, TerminalLife, TLAPS

(* A forgotten row carries the time it was forgotten, and no bridge.       *)
ForgottenStamped == (MetadataKept /\ env.st = "forgotten") => (env.gone = forgot /\ env.own = 0)

(* A stop that a poll is about to claim does not name the row's holder,    *)
(* unless it is one the holder may obey.                                   *)
PollApart ==
    LET c == controls[poll.k]
    IN  poll # NoPoll =>
          /\ poll.b \in EnvBridge /\ poll.k \in DOMAIN controls
          /\ (/\ MetadataKept /\ ~poll.void /\ ~poll.late /\ c.st = "pending"
              /\ (c.server \/ c.at < poll.b)) => env.own # poll.b

(* A claimed stop names a bridge.                                          *)
ClaimsNamed == \A k \in DOMAIN controls : controls[k].st = "claimed" => controls[k].by \in EnvBridge

EnvInv ==
    /\ EnvTypeOK /\ RowDescribesOwner /\ ForgottenStamped /\ PollApart /\ ClaimsNamed
    /\ OwnerNotStopped /\ BoundTogether

EnvRow == [st : {"none", "online", "offline", "disabled", "forgotten"}, own : 0 .. Launches, start : 0 .. Launches,
           tier : BOOLEAN, gone : 0 .. Launches]

(* A row made by a takeover or an operator, and one that is over.          *)
LEMMA RowsTyped ==
    ASSUME EnvTypeOK
    PROVE  /\ \A b \in 0 .. Launches, server \in BOOLEAN :
                 NewControl(b, server) \in ControlRow /\ NewControl(b, server).st = "pending"
           /\ Over \in ControlRow /\ Over.st = "over"
           /\ NoPoll \in [b : 0 .. Launches, k : 0 .. MaxControls, void : BOOLEAN, late : BOOLEAN]
           /\ NoEdit \in [on : BOOLEAN, start : 0 .. Launches, tier : BOOLEAN, gone : 0 .. Launches]
<1>0. now \in 0 .. Launches /\ 0 \in 0 .. Launches /\ 0 \in 0 .. MaxControls
  BY EnvironmentsAssumption DEF EnvTypeOK
<1>1. ASSUME NEW b \in 0 .. Launches, NEW server \in BOOLEAN
      PROVE  NewControl(b, server) \in ControlRow /\ NewControl(b, server).st = "pending"
  BY <1>0, <1>1, Zenon DEF NewControl, ControlRow
<1>2. Over \in ControlRow /\ Over.st = "over"
  BY <1>0, Zenon DEF Over, ControlRow
<1>3. NoPoll \in [b : 0 .. Launches, k : 0 .. MaxControls, void : BOOLEAN, late : BOOLEAN]
  BY <1>0, Zenon DEF NoPoll
<1>4. NoEdit \in [on : BOOLEAN, start : 0 .. Launches, tier : BOOLEAN, gone : 0 .. Launches]
  BY <1>0, Zenon DEF NoEdit
<1> QED
  BY <1>1, <1>2, <1>3, <1>4, Zenon

(* A step of the table of controls that only ends rows and adds one that   *)
(* is pending.                                                             *)
OnlyEnds(cs) ==
    /\ cs \in Seq(ControlRow) /\ Len(controls) <= Len(cs)
    /\ \A k \in DOMAIN cs : cs[k].st = "over" \/ (k \in DOMAIN controls /\ cs[k] = controls[k])
                           \/ (k \notin DOMAIN controls /\ cs[k].st = "pending")

(* Such a step keeps polls and claims apart from the holder as long as the *)
(* holder stays, goes, or is a bridge that has no claimed stop and whose   *)
(* poll is marked late.                                                    *)
LEMMA EndsKeep ==
    ASSUME EnvInv, OnlyEnds(controls'), MetadataKept' => MetadataKept,
           poll' = poll \/ poll' = NoPoll \/ (poll'.b = poll.b /\ poll'.k = poll.k /\ poll'.void = poll.void /\ poll'.late = TRUE /\ poll # NoPoll),
           \/ env'.own = env.own
           \/ env'.own = 0
           \/ /\ \A k \in DOMAIN controls : controls[k].st = "claimed" => controls[k].by # env'.own
              /\ poll'.b = env'.own => poll'.late
    PROVE  PollApart' /\ ClaimsNamed' /\ OwnerNotStopped'
<1>1. controls \in Seq(ControlRow) /\ controls' \in Seq(ControlRow) /\ Len(controls) <= Len(controls')
  BY Zenon DEF EnvInv, EnvTypeOK, OnlyEnds
<1>2. DOMAIN controls \subseteq DOMAIN controls'
  BY <1>1
<1>3. \A k \in DOMAIN controls' : controls'[k].st = "over" \/ (k \in DOMAIN controls /\ controls'[k] = controls[k])
                           \/ (k \notin DOMAIN controls /\ controls'[k].st = "pending")
  BY Zenon DEF OnlyEnds
<1>4. ClaimsNamed'
  BY <1>3, Zenon DEF EnvInv, ClaimsNamed, EnvBridge
<1>5. OwnerNotStopped'
  <2> SUFFICES ASSUME MetadataKept', NEW k \in DOMAIN controls', controls'[k].st = "claimed",
                      controls'[k].server \/ controls'[k].at < controls'[k].by, ~controls'[k].late
               PROVE  env'.own # controls'[k].by
    BY Zenon DEF OwnerNotStopped
  <2>1. k \in DOMAIN controls /\ controls'[k] = controls[k]
    BY <1>3, Zenon
  <2>2. env.own # controls[k].by /\ controls[k].by # 0
    BY <2>1 DEF EnvInv, OwnerNotStopped, ClaimsNamed, EnvBridge
  <2> QED
    BY <2>1, <2>2, Zenon
<1>6. PollApart'
  <2> SUFFICES ASSUME poll' # NoPoll
               PROVE  /\ poll'.b \in EnvBridge /\ poll'.k \in DOMAIN controls'
                      /\ (/\ MetadataKept' /\ ~poll'.void /\ ~poll'.late /\ controls'[poll'.k].st = "pending"
                          /\ (controls'[poll'.k].server \/ controls'[poll'.k].at < poll'.b)) => env'.own # poll'.b
    BY Zenon DEF PollApart, EnvBridge
  <2>1. poll # NoPoll /\ poll'.b = poll.b /\ poll'.k = poll.k
    BY Zenon
  <2>2. poll.b \in EnvBridge /\ poll.k \in DOMAIN controls
    BY <2>1, Zenon DEF EnvInv, PollApart
  <2>3. ASSUME MetadataKept', ~poll'.void, ~poll'.late, controls'[poll'.k].st = "pending",
               controls'[poll'.k].server \/ controls'[poll'.k].at < poll'.b
        PROVE  env'.own # poll'.b
    <3>1. poll' = poll
      BY <2>3, Zenon
    <3>2. controls'[poll.k] = controls[poll.k]
      BY <1>2, <1>3, <2>2, <2>3, <3>1, Zenon
    <3>3. env.own # poll.b /\ poll.b # 0
      BY <2>1, <2>2, <2>3, <3>1, <3>2 DEF EnvInv, PollApart, EnvBridge
    <3> QED
      BY <2>3, <3>1, <3>3, Zenon
  <2> QED
    BY <1>2, <2>1, <2>2, <2>3, Zenon
<1> QED
  BY <1>4, <1>5, <1>6, Zenon

(* A takeover's drain and its stop for the bridge that lost the row.       *)
LEMMA QueueEnds ==
    ASSUME EnvTypeOK, NEW old \in 0 .. Launches, NEW drain
    PROVE  OnlyEnds(_queue_stop_for_superseded_bridge(old, drain))
<1> DEFINE kept == [k \in DOMAIN controls |->
                       IF k \in drain /\ controls[k].server /\ controls[k].st = "pending" THEN Over ELSE controls[k]]
           row == NewControl(old, TRUE)
<1>1. controls \in Seq(ControlRow)
  BY Zenon DEF EnvTypeOK
<1>2. Over \in ControlRow /\ Over.st = "over" /\ row \in ControlRow /\ row.st = "pending"
  BY RowsTyped, Zenon
<1>3. kept \in Seq(ControlRow) /\ Len(kept) = Len(controls) /\ DOMAIN kept = DOMAIN controls
  BY <1>1, <1>2
<1>4. \A k \in DOMAIN kept : kept[k].st = "over" \/ kept[k] = controls[k]
  BY <1>2, Zenon
<1> HIDE DEF kept, row
<1>5. OnlyEnds(controls)
  BY <1>1 DEF OnlyEnds
<1>6. OnlyEnds(kept)
  BY <1>1, <1>3, <1>4 DEF OnlyEnds
<1>7. OnlyEnds(Append(kept, row))
  <2>1. Append(kept, row) \in Seq(ControlRow) /\ Len(Append(kept, row)) = Len(kept) + 1
    BY <1>2, <1>3
  <2>2. \A k \in DOMAIN Append(kept, row) : (k \in DOMAIN kept /\ Append(kept, row)[k] = kept[k])
                                         \/ (k \notin DOMAIN kept /\ Append(kept, row)[k] = row)
    BY <1>2, <1>3
  <2>3. Len(controls) <= Len(kept) + 1
    BY <1>1, <1>3
  <2> QED
    BY <1>2, <1>3, <1>4, <2>1, <2>2, <2>3, Zenon DEF OnlyEnds
<1> QED
  BY <1>5, <1>6, <1>7, Zenon DEF _queue_stop_for_superseded_bridge, kept, row

(* Heartbeats.                                                             *)
LEMMA BeatKeeps ==
    ASSUME EnvInv, NEW b \in 0 .. Launches, NEW s \in {"online", "offline"}, NEW q \in BOOLEAN, NEW drain,
           record_environment_heartbeat(b, s, q, drain)
    PROVE  EnvInv'
<1>0. EnvTypeOK /\ UNCHANGED <<now, up, edit, edited, forgot, bound>> /\ MetadataKept' = MetadataKept
  BY Zenon DEF EnvInv, record_environment_heartbeat, MetadataKept
<1>1. env \in EnvRow /\ env.own <= now /\ now \in 0 .. Launches /\ up \subseteq 1 .. now /\ Launches \in Nat
  BY <1>0, EnvironmentsAssumption, Zenon DEF EnvTypeOK, EnvRow
<1>2. b <= now /\ (b # 0 => b \in 1 .. now)
  BY <1>1 DEF record_environment_heartbeat
<1>3. /\ env' \in EnvRow
      /\ env'.st = s /\ env'.gone = 0
      /\ env'.own = IF b = 0 THEN env.own ELSE b
      /\ env'.start = IF b = 0 THEN env.start ELSE b
      /\ env'.tier = IF b = 0 THEN env.tier ELSE b \in HostTier
  <2> DEFINE m == merge_with_stored(b)
             o == IF b = 0 THEN env.own ELSE b
  <2>1. m.start = IF b = 0 THEN env.start ELSE b
    BY Zenon DEF merge_with_stored, from_request
  <2>2. m.tier = IF b = 0 THEN env.tier ELSE b \in HostTier
    BY Zenon DEF merge_with_stored, from_request
  <2>3. m.start \in 0 .. Launches /\ o \in 0 .. Launches /\ 0 \in 0 .. Launches
    BY <1>1, <2>1 DEF EnvRow
  <2>4. m.tier \in BOOLEAN
    <3>1. env.tier \in BOOLEAN
      BY <1>1, Zenon DEF EnvRow
    <3>2. CASE b = 0
      <4>1. m.tier = env.tier
        BY <2>2, <3>2, Zenon
      <4> QED
        BY <3>1, <4>1, Zenon
    <3>3. CASE b # 0
      <4>1. m.tier = (b \in HostTier)
        BY <2>2, <3>3, Zenon
      <4> QED
        BY <4>1, (b \in HostTier) = TRUE \/ (b \in HostTier) = FALSE, Zenon
    <3> QED
      BY <3>2, <3>3, Zenon
  <2>5. env' = [env EXCEPT !.st = s, !.own = o, !.start = m.start, !.tier = m.tier, !.gone = 0]
    BY Zenon DEF record_environment_heartbeat, _record_environment_registration
  <2> HIDE DEF m
  <2>6. env' \in EnvRow
    BY <1>1, <2>3, <2>4, <2>5, Zenon DEF EnvRow
  <2>7. env'.st = s /\ env'.gone = 0 /\ env'.own = o /\ env'.start = m.start /\ env'.tier = m.tier
    BY <1>1, <2>5, Zenon DEF EnvRow
  <2> QED
    BY <2>1, <2>2, <2>6, <2>7, Zenon
<1>4. OnlyEnds(controls') /\ Len(controls') <= MaxControls /\ controls' \in Seq(ControlRow)
  <2>1. Superseded(b) \in 0 .. Launches
    BY <1>1 DEF Superseded, EnvRow
  <2> QED
    BY <1>0, <2>1, QueueEnds, Zenon DEF record_environment_heartbeat, OnlyEnds
<1>5. /\ poll' \in [b : 0 .. Launches, k : 0 .. MaxControls, void : BOOLEAN, late : BOOLEAN]
      /\ poll'.b = poll.b /\ poll'.k = poll.k /\ poll'.void = poll.void
      /\ (b # 0 /\ poll.b = b) => poll'.late = TRUE
      /\ ~(b # 0 /\ poll.b = b) => poll' = poll
  <2>0. poll \in [b : 0 .. Launches, k : 0 .. MaxControls, void : BOOLEAN, late : BOOLEAN]
    BY <1>0, Zenon DEF EnvTypeOK
  <2>1. poll' = [poll EXCEPT !.late = @ \/ (b # 0 /\ poll.b = b)]
    BY Zenon DEF record_environment_heartbeat
  <2>2. CASE b # 0 /\ poll.b = b
    <3>1. poll' = [poll EXCEPT !.late = TRUE]
      BY <2>0, <2>1, <2>2, Zenon
    <3> QED
      BY <2>0, <2>2, <3>1, Zenon
  <2>3. CASE ~(b # 0 /\ poll.b = b)
    <3>1. (poll.late \/ (b # 0 /\ poll.b = b)) = poll.late
      BY <2>0, <2>3, Zenon
    <3>2. poll' = poll
      BY <2>0, <2>1, <3>1, Zenon
    <3> QED
      BY <2>0, <2>3, <3>2, Zenon
  <2> QED
    BY <2>2, <2>3, Zenon
<1>6. quiet' \in 0 .. MaxQuiet
  <2>1. quiet \in 0 .. MaxQuiet
    BY <1>0, Zenon DEF EnvTypeOK
  <2>2. Quiet(env.own, q)
    BY Zenon DEF record_environment_heartbeat
  <2>3. PICK n \in {0, 1} : quiet + n <= MaxQuiet /\ quiet' = quiet + n
    BY <2>2, Zenon DEF Quiet
  <2> QED
    BY <2>1, <2>3, EnvironmentsAssumption
<1>7. EnvTypeOK'
  BY <1>0, <1>1, <1>2, <1>3, <1>4, <1>5, <1>6, Zenon DEF EnvTypeOK, EnvRow
<1>8. RowDescribesOwner'
  BY <1>0, <1>3, Zenon DEF RowDescribesOwner, EnvInv
<1>9. ForgottenStamped'
  BY <1>3, Zenon DEF ForgottenStamped
<1>10. PollApart' /\ ClaimsNamed' /\ OwnerNotStopped'
  <2>1. b # 0 => \A k \in DOMAIN controls : controls[k].st = "claimed" => controls[k].by # b
    BY Zenon DEF record_environment_heartbeat
  <2>2. (b # 0 /\ poll.b = b) => poll # NoPoll
    BY DEF NoPoll
  <2>3. poll' = poll \/ poll' = NoPoll
        \/ (poll'.b = poll.b /\ poll'.k = poll.k /\ poll'.void = poll.void /\ poll'.late = TRUE /\ poll # NoPoll)
    BY <1>5, <2>2, Zenon
  <2>4. \/ env'.own = env.own
        \/ env'.own = 0
        \/ /\ \A k \in DOMAIN controls : controls[k].st = "claimed" => controls[k].by # env'.own
           /\ poll'.b = env'.own => poll'.late
    BY <1>3, <1>5, <2>1, Zenon
  <2> QED
    BY <1>0, <1>4, <2>3, <2>4, EndsKeep, Zenon
<1>11. BoundTogether'
  BY <1>0, Zenon DEF EnvInv, BoundTogether
<1> QED
  BY <1>7, <1>8, <1>9, <1>10, <1>11, Zenon DEF EnvInv

(* An operator's stop.                                                     *)
LEMMA StopKeeps ==
    ASSUME EnvInv, control_environment
    PROVE  EnvInv'
<1> USE DEF control_environment
<1>0. EnvTypeOK /\ UNCHANGED <<now, up, poll, edit, edited, forgot, bound, quiet>> /\ MetadataKept' = MetadataKept
  BY Zenon DEF EnvInv, MetadataKept
<1>1. env \in EnvRow /\ controls \in Seq(ControlRow) /\ Len(controls) <= MaxControls
  BY <1>0, Zenon DEF EnvTypeOK, EnvRow
<1>2. env' \in EnvRow /\ env' = [env EXCEPT !.st = "disabled"]
  BY <1>1, Zenon DEF EnvRow
<1>3. env'.own = env.own /\ env'.start = env.start /\ env'.tier = env.tier /\ env'.gone = env.gone /\ env'.st = "disabled"
  BY <1>1, <1>2, Zenon DEF EnvRow
<1>4. PICK row \in ControlRow : row.st = "pending" /\ controls' = Append(controls, row)
  <2>1. env.own \in 0 .. Launches
    BY <1>1, Zenon DEF EnvRow
  <2> QED
    BY <1>0, <2>1, RowsTyped, Zenon
<1>5. OnlyEnds(controls') /\ Len(controls') = Len(controls) + 1 /\ controls' \in Seq(ControlRow)
  <2> HIDE DEF control_environment
  <2>1. controls' \in Seq(ControlRow) /\ Len(controls') = Len(controls) + 1
    BY <1>1, <1>4
  <2>2. \A k \in DOMAIN controls' : (k \in DOMAIN controls /\ controls'[k] = controls[k])
                                 \/ (k \notin DOMAIN controls /\ controls'[k] = row)
    BY <1>1, <1>4
  <2>3. Len(controls) <= Len(controls')
    BY <1>1, <2>1
  <2> QED
    BY <1>4, <2>1, <2>2, <2>3, Zenon DEF OnlyEnds
<1>6. Len(controls') <= MaxControls
  BY <1>1, <1>5, EnvironmentsAssumption
<1>7. EnvTypeOK'
  <2>1. env'.own <= now' /\ env' \in EnvRow
    BY <1>0, <1>2, <1>3, Zenon DEF EnvTypeOK
  <2> HIDE DEF control_environment
  <2> QED
    BY <1>0, <1>5, <1>6, <2>1, Zenon DEF EnvTypeOK, EnvRow
<1>8. RowDescribesOwner' /\ ForgottenStamped' /\ BoundTogether'
  BY <1>0, <1>3, Zenon DEF EnvInv, RowDescribesOwner, ForgottenStamped, BoundTogether
<1>9. PollApart' /\ ClaimsNamed' /\ OwnerNotStopped'
  BY <1>0, <1>3, <1>5, EndsKeep, Zenon
<1> QED
  BY <1>7, <1>8, <1>9, Zenon DEF EnvInv

(* Forgetting the environment.                                             *)
LEMMA ForgetKeeps ==
    ASSUME EnvInv, ForgetEnvironment
    PROVE  EnvInv'
<1> USE DEF ForgetEnvironment
<1>0. EnvTypeOK /\ UNCHANGED <<now, up, poll, edit, edited, bound, quiet>> /\ forgot' = now /\ MetadataKept' = MetadataKept
  BY Zenon DEF EnvInv, MetadataKept
<1>1. env \in EnvRow /\ controls \in Seq(ControlRow) /\ Len(controls) <= MaxControls /\ now \in 0 .. Launches
  BY <1>0, Zenon DEF EnvTypeOK, EnvRow
<1>2. env' \in EnvRow /\ env' = [env EXCEPT !.st = "forgotten", !.own = 0, !.gone = now]
  <2>1. env' = [env EXCEPT !.st = "forgotten", !.own = 0, !.gone = now]
    BY Zenon
  <2>2. 0 \in 0 .. Launches
    BY EnvironmentsAssumption
  <2> HIDE DEF ForgetEnvironment
  <2> QED
    BY <1>1, <2>1, <2>2, Zenon DEF EnvRow
<1>3. env'.own = 0 /\ env'.gone = now /\ env'.st = "forgotten"
  BY <1>1, <1>2, Zenon DEF EnvRow
<1>4. Over \in ControlRow /\ Over.st = "over"
  BY <1>0, RowsTyped, Zenon
<1>5. OnlyEnds(controls') /\ Len(controls') = Len(controls) /\ controls' \in Seq(ControlRow)
  <2>1. controls' = [k \in DOMAIN controls |-> Over]
    BY Zenon
  <2> HIDE DEF ForgetEnvironment
  <2>2. controls' \in Seq(ControlRow) /\ Len(controls') = Len(controls) /\ DOMAIN controls' = DOMAIN controls
    BY <1>1, <1>4, <2>1
  <2>3. \A k \in DOMAIN controls' : controls'[k].st = "over"
    BY <1>4, <2>1, Zenon
  <2> QED
    BY <1>1, <2>2, <2>3 DEF OnlyEnds
<1>6. EnvTypeOK'
  <2>1. env'.own <= now' /\ env' \in EnvRow /\ forgot' <= now' /\ forgot' \in 0 .. Launches
    BY <1>0, <1>1, <1>2, <1>3
  <2> HIDE DEF ForgetEnvironment
  <2> QED
    BY <1>0, <1>1, <1>5, <2>1, Zenon DEF EnvTypeOK, EnvRow
<1>7. RowDescribesOwner' /\ ForgottenStamped' /\ BoundTogether'
  BY <1>0, <1>3, Zenon DEF EnvInv, RowDescribesOwner, ForgottenStamped, BoundTogether
<1>8. PollApart' /\ ClaimsNamed' /\ OwnerNotStopped'
  BY <1>0, <1>3, <1>5, EndsKeep, Zenon
<1> QED
  BY <1>6, <1>7, <1>8, Zenon DEF EnvInv

(* A roots request, its read and its write.                                *)
LEMMA RootsKeep ==
    ASSUME EnvInv, update_environment_roots \/ RootsWritten
    PROVE  EnvInv'
<1> DEFINE Edits == [on : BOOLEAN, start : 0 .. Launches, tier : BOOLEAN, gone : 0 .. Launches]
<1>0. EnvTypeOK /\ UNCHANGED <<now, up, controls, poll, forgot, bound, quiet>>
  BY Zenon DEF EnvInv, update_environment_roots, RootsWritten
<1>1. env \in EnvRow /\ edit \in Edits /\ edited \in 0 .. MaxRootEdits + 1 /\ MaxRootEdits \in Nat
  BY <1>0, EnvironmentsAssumption, Zenon DEF EnvTypeOK, EnvRow
<1>2. OnlyEnds(controls')
  BY <1>0 DEF EnvTypeOK, OnlyEnds
<1>3. CASE update_environment_roots
  <2>1. env' = env /\ edited' = edited + 1 /\ edited < MaxRootEdits
    BY <1>3, Zenon DEF update_environment_roots
  <2>2. edit' \in Edits
    <3>1. edit' = [on |-> TRUE, start |-> env.start, tier |-> env.tier, gone |-> env.gone]
      BY <1>3, Zenon DEF update_environment_roots
    <3>2. env.start \in 0 .. Launches /\ env.gone \in 0 .. Launches
      BY <1>1, Zenon DEF EnvRow
    <3>3. env.tier \in BOOLEAN
      BY <1>1, Zenon DEF EnvRow
    <3> QED
      BY <3>1, <3>2, <3>3, Zenon
  <2>3. MetadataKept /\ edited' \in 0 .. MaxRootEdits + 1
    BY <1>1, <2>1 DEF MetadataKept
  <2>4. EnvTypeOK'
    BY <1>0, <2>1, <2>2, <2>3, Zenon DEF EnvTypeOK
  <2>5. RowDescribesOwner' /\ ForgottenStamped' /\ BoundTogether'
    BY <1>0, <2>1, <2>3, Zenon DEF EnvInv, RowDescribesOwner, ForgottenStamped, BoundTogether
  <2>6. PollApart' /\ ClaimsNamed' /\ OwnerNotStopped'
    BY <1>0, <1>2, <2>1, <2>3, EndsKeep, Zenon
  <2> QED
    BY <2>4, <2>5, <2>6, Zenon DEF EnvInv
<1>4. CASE RootsWritten
  <2>1. /\ env' = [env EXCEPT !.start = edit.start, !.tier = edit.tier, !.gone = edit.gone]
        /\ edit' = NoEdit
        /\ edited' = IF <<env.start, env.tier, env.gone>> = <<edit.start, edit.tier, edit.gone>> THEN edited ELSE MaxRootEdits + 1
    BY <1>4, Zenon DEF RootsWritten
  <2>2. edit.start \in 0 .. Launches /\ edit.gone \in 0 .. Launches
    BY <1>1, Zenon
  <2>3. edit.tier \in BOOLEAN
    BY <1>1, Zenon
  <2>4. env' \in EnvRow /\ env'.own = env.own /\ env'.st = env.st
        /\ env'.start = edit.start /\ env'.tier = edit.tier /\ env'.gone = edit.gone
    BY <1>1, <2>1, <2>2, <2>3, Zenon DEF EnvRow
  <2>5. edited' \in 0 .. MaxRootEdits + 1
    BY <1>1, <2>1
  <2>6. MetadataKept' => (MetadataKept /\ env'.start = env.start /\ env'.tier = env.tier /\ env'.gone = env.gone)
    <3>1. CASE <<env.start, env.tier, env.gone>> = <<edit.start, edit.tier, edit.gone>>
      BY <2>1, <2>4, <3>1, Zenon DEF MetadataKept
    <3>2. CASE <<env.start, env.tier, env.gone>> # <<edit.start, edit.tier, edit.gone>>
      BY <1>1, <2>1, <3>2 DEF MetadataKept
    <3> QED
      BY <3>1, <3>2, Zenon
  <2>7. EnvTypeOK'
    BY <1>0, <2>1, <2>4, <2>5, RowsTyped, Zenon DEF EnvTypeOK, EnvRow
  <2>8. RowDescribesOwner' /\ ForgottenStamped' /\ BoundTogether'
    BY <1>0, <2>4, <2>6, Zenon DEF EnvInv, RowDescribesOwner, ForgottenStamped, BoundTogether
  <2>9. PollApart' /\ ClaimsNamed' /\ OwnerNotStopped'
    BY <1>0, <1>2, <2>4, <2>6, EndsKeep, Zenon
  <2> QED
    BY <2>7, <2>8, <2>9, Zenon DEF EnvInv
<1> QED
  BY <1>3, <1>4, Zenon

(* A restart of the service.                                               *)
LEMMA RestartKeeps ==
    ASSUME EnvInv, _reconcile_terminal_controls
    PROVE  EnvInv'
<1> USE DEF _reconcile_terminal_controls
<1>0. EnvTypeOK /\ UNCHANGED <<env, now, up, edited, forgot, bound, quiet>> /\ MetadataKept' = MetadataKept
  BY Zenon DEF EnvInv, MetadataKept
<1>1. controls \in Seq(ControlRow) /\ Len(controls) <= MaxControls
  BY <1>0, Zenon DEF EnvTypeOK
<1>2. Over \in ControlRow /\ Over.st = "over"
  BY <1>0, RowsTyped, Zenon
<1>3. controls' \in Seq(ControlRow) /\ Len(controls') = Len(controls) /\ DOMAIN controls' = DOMAIN controls
  BY <1>1, <1>2
<1>4. OnlyEnds(controls')
  BY <1>1, <1>2, <1>3 DEF OnlyEnds
<1>5. EnvTypeOK'
  BY <1>0, <1>1, <1>3, RowsTyped DEF EnvTypeOK
<1>6. RowDescribesOwner' /\ ForgottenStamped' /\ BoundTogether'
  BY <1>0, Zenon DEF EnvInv, RowDescribesOwner, ForgottenStamped, BoundTogether
<1>7. PollApart' /\ ClaimsNamed' /\ OwnerNotStopped'
  BY <1>0, <1>4, EndsKeep, Zenon
<1> QED
  BY <1>5, <1>6, <1>7, Zenon DEF EnvInv

(* A bridge's poll, its reads.                                             *)
LEMMA PollKeeps ==
    ASSUME EnvInv, NEW b \in EnvBridge, _claim_environment_control_once(b)
    PROVE  EnvInv'
<1>0. EnvTypeOK /\ UNCHANGED <<env, now, up, controls, edit, edited, forgot, bound, quiet>>
  BY Zenon DEF EnvInv, _claim_environment_control_once
<1>1. PICK k \in DOMAIN controls : poll' = [b |-> b, k |-> k, void |-> StaleStop(b, k), late |-> FALSE]
  BY Zenon DEF _claim_environment_control_once
<1>2. poll'.b = b /\ poll'.k = k /\ (poll'.void <=> StaleStop(b, k))
  BY <1>1, Zenon
<1>3. poll' \in [b : 0 .. Launches, k : 0 .. MaxControls, void : BOOLEAN, late : BOOLEAN]
  <2>1. k \in 0 .. MaxControls /\ b \in 0 .. Launches
    BY <1>0, EnvironmentsAssumption DEF EnvTypeOK, EnvBridge
  <2>2. StaleStop(b, k) \in BOOLEAN
    BY Zenon DEF StaleStop
  <2> QED
    BY <1>1, <2>1, <2>2, Zenon
<1>4. EnvTypeOK'
  BY <1>0, <1>3, Zenon DEF EnvTypeOK
<1>5. PollApart'
  <2>1. ASSUME MetadataKept, ~poll'.void, controls[k].server \/ controls[k].at < b
        PROVE  env.own # b
    <3> SUFFICES ASSUME env.own = b PROVE FALSE
      BY Zenon
    <3>1. env.start = b
      BY <2>1 DEF EnvInv, RowDescribesOwner, EnvBridge
    <3>2. StaleStop(b, k)
      BY <2>1, <3>1, Zenon DEF StaleStop
    <3> QED
      BY <1>2, <2>1, <3>2, Zenon
  <2>2. MetadataKept' = MetadataKept
    BY <1>0, Zenon DEF MetadataKept
  <2> QED
    BY <1>0, <1>2, <2>1, <2>2, Zenon DEF PollApart, EnvBridge
<1>6. /\ RowDescribesOwner' /\ ForgottenStamped' /\ BoundTogether'
      /\ ClaimsNamed' /\ OwnerNotStopped'
  BY <1>0, Zenon DEF EnvInv, RowDescribesOwner, ForgottenStamped, BoundTogether, ClaimsNamed, OwnerNotStopped, MetadataKept, EnvBridge
<1> QED
  BY <1>4, <1>5, <1>6, Zenon DEF EnvInv

(* Its write.                                                              *)
LEMMA ClaimKeeps ==
    ASSUME EnvInv, ControlClaimed
    PROVE  EnvInv'
<1> DEFINE i == poll.k
           row == IF poll.void THEN Over
                  ELSE [controls[i] EXCEPT !.st = "claimed", !.by = poll.b, !.late = poll.late]
<1>0. EnvTypeOK /\ UNCHANGED <<env, now, up, edit, edited, forgot, bound, quiet>> /\ poll # NoPoll /\ poll' = NoPoll
  BY Zenon DEF EnvInv, ControlClaimed
<1>1. controls \in Seq(ControlRow) /\ Len(controls) <= MaxControls
  BY <1>0, Zenon DEF EnvTypeOK
<1>2. i \in DOMAIN controls /\ poll.b \in EnvBridge
  BY <1>0, Zenon DEF EnvInv, PollApart
<1>3. MetadataKept' = MetadataKept
  BY <1>0, Zenon DEF MetadataKept
<1>4. RowDescribesOwner' /\ ForgottenStamped' /\ BoundTogether' /\ PollApart'
  BY <1>0, <1>3, Zenon DEF EnvInv, RowDescribesOwner, ForgottenStamped, BoundTogether, PollApart
<1>5. CASE controls' = controls
  <2>1. EnvTypeOK'
    BY <1>0, <1>5, RowsTyped, Zenon DEF EnvTypeOK
  <2>2. ClaimsNamed' /\ OwnerNotStopped'
    BY <1>0, <1>3, <1>5, Zenon DEF EnvInv, ClaimsNamed, OwnerNotStopped, EnvBridge
  <2> QED
    BY <1>4, <2>1, <2>2, Zenon DEF EnvInv
<1>6. CASE controls[i].st = "pending" /\ controls' = [controls EXCEPT ![i] = row]
  <2>1. controls[i] \in ControlRow
    BY <1>1, <1>2
  <2>2. row \in ControlRow
    <3>1. Over \in ControlRow
      BY <1>0, RowsTyped, Zenon
    <3>2. poll.b \in 0 .. Launches
      BY <1>0, Zenon DEF EnvTypeOK
    <3>3. poll.late \in BOOLEAN
      BY <1>0, Zenon DEF EnvTypeOK
    <3>4. [controls[i] EXCEPT !.st = "claimed", !.by = poll.b, !.late = poll.late] \in ControlRow
      BY <2>1, <3>2, <3>3, Zenon DEF ControlRow
    <3> QED
      BY <3>1, <3>4, Zenon
  <2>3. row.st = "claimed" => /\ ~poll.void /\ row.by = poll.b /\ (row.late <=> poll.late)
                              /\ (row.server <=> controls[i].server) /\ row.at = controls[i].at
    BY <2>1, Zenon DEF ControlRow, Over
  <2> HIDE DEF row
  <2>4. /\ controls' \in Seq(ControlRow) /\ Len(controls') = Len(controls) /\ DOMAIN controls' = DOMAIN controls
        /\ controls'[i] = row /\ \A k \in DOMAIN controls : k # i => controls'[k] = controls[k]
    BY <1>1, <1>2, <1>6, <2>2
  <2>5. EnvTypeOK'
    BY <1>0, <1>1, <2>4, RowsTyped, Zenon DEF EnvTypeOK
  <2>6. ClaimsNamed'
    BY <1>2, <2>3, <2>4, Zenon DEF EnvInv, ClaimsNamed, EnvBridge
  <2>7. OwnerNotStopped'
    <3> SUFFICES ASSUME MetadataKept, NEW k \in DOMAIN controls', controls'[k].st = "claimed",
                        controls'[k].server \/ controls'[k].at < controls'[k].by, ~controls'[k].late
                 PROVE  env.own # controls'[k].by
      BY <1>0, <1>3, Zenon DEF OwnerNotStopped
    <3>1. CASE k = i
      BY <1>0, <1>6, <2>3, <2>4, <3>1, Zenon DEF EnvInv, PollApart
    <3>2. CASE k # i
      BY <2>4, <3>2, Zenon DEF EnvInv, OwnerNotStopped
    <3> QED
      BY <3>1, <3>2, Zenon
  <2> QED
    BY <1>4, <2>5, <2>6, <2>7, Zenon DEF EnvInv
<1> QED
  BY <1>5, <1>6, Zenon DEF ControlClaimed

(* A bridge obeys a stop, dies or is launched.                             *)
LEMMA BridgesKeep ==
    ASSUME EnvInv, LaunchBridge \/ \E b \in EnvBridge : update_environment_control(b) \/ BridgeDies(b)
    PROVE  EnvInv'
<1>0. /\ EnvTypeOK /\ UNCHANGED <<env, poll, edit, edited, forgot, bound, quiet>>
      /\ MetadataKept' = MetadataKept
  BY Zenon DEF EnvInv, LaunchBridge, update_environment_control, BridgeDies, MetadataKept
<1>1. controls \in Seq(ControlRow) /\ Len(controls) <= MaxControls /\ now \in 0 .. Launches /\ up \subseteq 1 .. now
  BY <1>0, Zenon DEF EnvTypeOK
<1>2. now' \in 0 .. Launches /\ now <= now' /\ up' \subseteq 1 .. now'
  BY <1>1, EnvironmentsAssumption DEF LaunchBridge, update_environment_control, BridgeDies
<1>3. OnlyEnds(controls') /\ Len(controls') = Len(controls) /\ controls' \in Seq(ControlRow)
  <2>1. CASE controls' = controls
    BY <1>1, <2>1 DEF OnlyEnds
  <2>2. CASE \E k \in DOMAIN controls : controls' = [controls EXCEPT ![k] = Over]
    <3>1. PICK k \in DOMAIN controls : controls' = [controls EXCEPT ![k] = Over]
      BY <2>2, Zenon
    <3>2. Over \in ControlRow /\ Over.st = "over"
      BY <1>0, RowsTyped, Zenon
    <3>3. controls' \in Seq(ControlRow) /\ Len(controls') = Len(controls) /\ DOMAIN controls' = DOMAIN controls
      BY <1>1, <3>1, <3>2
    <3>4. \A j \in DOMAIN controls' : controls'[j] = Over \/ controls'[j] = controls[j]
      BY <1>1, <3>1, Zenon
    <3> QED
      BY <1>1, <3>2, <3>3, <3>4 DEF OnlyEnds
  <2> QED
    BY <2>1, <2>2, Zenon DEF LaunchBridge, update_environment_control, BridgeDies
<1>4. EnvTypeOK'
  <2>1. env'.own <= now' /\ forgot' <= now'
    BY <1>0, <1>1, <1>2, EnvironmentsAssumption DEF EnvTypeOK
  <2> QED
    BY <1>0, <1>1, <1>2, <1>3, <2>1, Zenon DEF EnvTypeOK
<1>5. RowDescribesOwner' /\ ForgottenStamped' /\ BoundTogether'
  BY <1>0, Zenon DEF EnvInv, RowDescribesOwner, ForgottenStamped, BoundTogether
<1>6. PollApart' /\ ClaimsNamed' /\ OwnerNotStopped'
  BY <1>0, <1>3, EndsKeep, Zenon
<1> QED
  BY <1>4, <1>5, <1>6, Zenon DEF EnvInv

(* The agent's binding, its starts and its bridge's reports.               *)
LEMMA AgentKeeps ==
    ASSUME EnvInv, EnvAgent
    PROVE  EnvInv'
<1> DEFINE Bound == [sess : 0 .. 2, spec : 0 .. 2, req : 0 .. 2, own : 0 .. Launches]
<1>0. EnvTypeOK /\ UNCHANGED <<env, now, up, controls, poll, edit, edited, forgot, quiet>>
  BY Zenon DEF EnvInv, EnvAgent, assign_agent_environment, RequestStart, RequestSettles, ReportRuntimeState
<1>1. bound \in Bound /\ bound.spec = bound.sess /\ bound.req \in {0, bound.sess} /\ Launches \in Nat
  BY <1>0, EnvironmentsAssumption, Zenon DEF EnvTypeOK, EnvInv, BoundTogether
<1>2. bound' \in Bound /\ BoundTogether'
  <2>1. CASE \E e \in {1, 2} : assign_agent_environment(e)
    <3>1. PICK e \in {1, 2} : bound' = [[bound EXCEPT !.spec = e] EXCEPT !.sess = e, !.own = 0, !.req = IF @ = 0 THEN 0 ELSE e]
      BY <2>1, Zenon DEF assign_agent_environment, _upsert_spawn_spec_for_assignment
    <3>2. PICK r \in {0, e} : bound' = [[bound EXCEPT !.spec = e] EXCEPT !.sess = e, !.own = 0, !.req = r]
      BY <1>1, <3>1, Zenon
    <3>3. bound' = [sess |-> e, spec |-> e, req |-> r, own |-> 0]
      BY <1>1, <3>2, Zenon
    <3>4. e \in 0 .. 2 /\ r \in 0 .. 2 /\ 0 \in 0 .. Launches
      BY <1>1
    <3> QED
      BY <3>3, <3>4, Zenon DEF BoundTogether
  <2>2. CASE RequestStart \/ RequestSettles
    BY <1>1, <2>2 DEF RequestStart, RequestSettles, BoundTogether
  <2>3. CASE \E b \in EnvBridge, q \in BOOLEAN : ReportRuntimeState(b, q)
    <3>1. PICK n \in 0 .. Launches : bound' = [bound EXCEPT !.own = n]
      <4>1. PICK b \in EnvBridge, q \in BOOLEAN : bound' = [bound EXCEPT !.own = patched_owner_bridge_id(b, q)]
        BY <2>3, Zenon DEF ReportRuntimeState
      <4>2. patched_owner_bridge_id(b, q) \in 0 .. Launches
        BY <1>1 DEF patched_owner_bridge_id, EnvBridge
      <4> QED
        BY <4>1, <4>2, Zenon
    <3> QED
      BY <1>1, <3>1, Zenon DEF BoundTogether
  <2> QED
    BY <2>1, <2>2, <2>3, Zenon DEF EnvAgent
<1>3. EnvTypeOK'
  BY <1>0, <1>2, Zenon DEF EnvTypeOK
<1>4. /\ RowDescribesOwner' /\ ForgottenStamped' /\ PollApart'
      /\ ClaimsNamed' /\ OwnerNotStopped'
  BY <1>0, Zenon DEF EnvInv, RowDescribesOwner, ForgottenStamped, PollApart, ClaimsNamed, OwnerNotStopped, MetadataKept, EnvBridge
<1> QED
  BY <1>2, <1>3, <1>4, Zenon DEF EnvInv

(* No row, no control and no bridge at first.                              *)
LEMMA EnvInvInitially == EnvInit => EnvInv
<1> SUFFICES ASSUME EnvInit PROVE EnvInv
  BY Zenon
<1> USE DEF EnvInit
<1>1. EnvTypeOK
  <2>1. /\ 0 \in 0 .. Launches /\ 0 \in 0 .. MaxControls /\ 0 \in 0 .. MaxRootEdits + 1 /\ 0 \in 0 .. MaxQuiet
        /\ 0 <= MaxControls
    BY EnvironmentsAssumption
  <2>2. controls \in Seq(ControlRow) /\ Len(controls) = 0
    OBVIOUS
  <2>3. up \subseteq 1 .. now
    BY Zenon
  <2> QED
    BY <2>1, <2>2, <2>3 DEF EnvTypeOK, NoPoll, NoEdit
<1>2. RowDescribesOwner /\ ForgottenStamped /\ BoundTogether
  BY Zenon DEF RowDescribesOwner, ForgottenStamped, BoundTogether
<1>3. PollApart /\ ClaimsNamed /\ OwnerNotStopped
  BY DEF PollApart, ClaimsNamed, OwnerNotStopped
<1> QED
  BY <1>1, <1>2, <1>3, Zenon DEF EnvInv

(* Every step keeps EnvInv.                                                *)
LEMMA EnvInvKept == EnvInv /\ [EnvNext]_envVars => EnvInv'
<1> SUFFICES ASSUME EnvInv, [EnvNext]_envVars PROVE EnvInv'
  BY Zenon
<1>1. CASE EnvBeats
  BY <1>1, BeatKeeps, Zenon DEF EnvBeats
<1>2. CASE EnvOperators
  BY <1>2, StopKeeps, ForgetKeeps, RootsKeep, RestartKeeps, Zenon DEF EnvOperators
<1>3. CASE EnvControls
  BY <1>3, PollKeeps, ClaimKeeps, BridgesKeep, Zenon DEF EnvControls
<1>4. CASE EnvAgent
  BY <1>4, AgentKeeps, Zenon
<1>5. CASE LaunchBridge \/ \E b \in EnvBridge : BridgeDies(b)
  BY <1>5, BridgesKeep, Zenon
<1>6. CASE UNCHANGED envVars
  BY <1>6 DEF envVars, EnvInv, EnvTypeOK, RowDescribesOwner, ForgottenStamped, PollApart, ClaimsNamed, OwnerNotStopped,
              BoundTogether, MetadataKept
<1> QED
  BY <1>1, <1>2, <1>3, <1>4, <1>5, <1>6, Zenon DEF EnvNext

(* The inductive invariant holds throughout.                               *)
LEMMA EnvInvariant == EnvSpec => []EnvInv
BY EnvInvInitially, EnvInvKept, PTL DEF EnvSpec

----------------------------------------------------------------------------

(* claim_environment_control: whatever beats, takeovers, operator stops,   *)
(* forgets and restarts come between a poll's read and its claim, the      *)
(* bridge that holds the row is never handed a stop made for it before it  *)
(* took the row, unless its own beat crossed its poll.                     *)
THEOREM HolderIsNotStopped == EnvSpec => []OwnerNotStopped
BY EnvInvariant, PTL DEF EnvInv

(* arbitrate_claim reads start and tier off the row: they are always those *)
(* of the bridge that holds it.                                            *)
THEOREM RowsDescribeOwners == EnvSpec => []RowDescribesOwner
BY EnvInvariant, PTL DEF EnvInv

(* assign_agent_environment: sessions, spawn spec and an open request move *)
(* together, whatever starts and reports come between.                     *)
THEOREM BindingsMoveTogether == EnvSpec => []BoundTogether
BY EnvInvariant, PTL DEF EnvInv

(* A step that brings a forgotten row back is a beat of a bridge that was  *)
(* launched after it was forgotten.                                        *)
LEMMA BackByRelaunch ==
    ASSUME EnvInv, [EnvNext]_envVars, MetadataKept, env.st = "forgotten", env'.st \notin {"forgotten", "disabled"}
    PROVE  env'.own > forgot
<1>1. PICK b \in 0 .. Launches, s \in {"online", "offline"}, q \in BOOLEAN, drain \in {{}, DOMAIN controls} :
        record_environment_heartbeat(b, s, q, drain)
  <2>1. ASSUME EnvOperators \/ EnvControls \/ EnvAgent \/ LaunchBridge \/ (\E b \in EnvBridge : BridgeDies(b))
               \/ UNCHANGED envVars
        PROVE  FALSE
    <3>1. env \in EnvRow
      BY Zenon DEF EnvInv, EnvTypeOK, EnvRow
    <3>2. env' = env \/ env'.st \in {env.st, "forgotten", "disabled"}
      BY <2>1, <3>1, Zenon DEF EnvOperators, EnvControls, EnvAgent, LaunchBridge, BridgeDies, envVars, control_environment,
           ForgetEnvironment, update_environment_roots, RootsWritten, _reconcile_terminal_controls,
           _claim_environment_control_once, ControlClaimed, update_environment_control, assign_agent_environment,
           RequestStart, RequestSettles, ReportRuntimeState, EnvRow
    <3> QED
      BY <3>2, Zenon
  <2> QED
    BY <2>1, Zenon DEF EnvNext, EnvBeats
<1>2. b # 0 /\ b > env.gone
  BY <1>1, Zenon DEF record_environment_heartbeat, Relaunched
<1>3. env.gone = forgot
  BY Zenon DEF EnvInv, ForgottenStamped
<1>4. env'.own = b
  <2>1. env \in EnvRow
    BY Zenon DEF EnvInv, EnvTypeOK, EnvRow
  <2> QED
    BY <1>1, <1>2, <2>1, Zenon DEF record_environment_heartbeat, _record_environment_registration, EnvRow
<1> QED
  BY <1>2, <1>3, <1>4, Zenon

(* record_environment_heartbeat: a forgotten environment comes back only   *)
(* for a bridge launched after it was forgotten.                           *)
THEOREM ForgottenStaysForgotten == EnvSpec => ForgottenStays
<1>1. EnvInv /\ [EnvNext]_envVars =>
        [(MetadataKept /\ env.st = "forgotten" /\ env'.st \notin {"forgotten", "disabled"}) => env'.own > forgot]_envVars
  BY BackByRelaunch, Zenon
<1> QED
  BY <1>1, EnvInvariant, PTL DEF EnvSpec, ForgottenStays

(* A step that moves the row from one bridge to another is a beat that won *)
(* it.                                                                     *)
LEMMA TakenByRank ==
    ASSUME EnvInv, [EnvNext]_envVars, MetadataKept, quiet' = quiet, env.own \in up, env'.own \notin {0, env.own}
    PROVE  IF env.own \in HostTier THEN env'.own \in HostTier /\ env'.own > env.own
           ELSE env'.own \in HostTier \/ env'.own > env.own
<1>0. env \in EnvRow /\ quiet \in 0 .. MaxQuiet /\ up \subseteq 1 .. now /\ now \in 0 .. Launches /\ Launches \in Nat
  BY EnvironmentsAssumption, Zenon DEF EnvInv, EnvTypeOK, EnvRow
<1>1. PICK b \in 0 .. Launches, s \in {"online", "offline"}, q \in BOOLEAN, drain \in {{}, DOMAIN controls} :
        record_environment_heartbeat(b, s, q, drain)
  <2>1. ASSUME EnvOperators \/ EnvControls \/ EnvAgent \/ LaunchBridge \/ (\E b \in EnvBridge : BridgeDies(b))
               \/ UNCHANGED envVars
        PROVE  FALSE
    <3>2. env' = env \/ env'.own \in {env.own, 0}
      BY <2>1, <1>0, Zenon DEF EnvOperators, EnvControls, EnvAgent, LaunchBridge, BridgeDies, envVars, control_environment,
           ForgetEnvironment, update_environment_roots, RootsWritten, _reconcile_terminal_controls,
           _claim_environment_control_once, ControlClaimed, update_environment_control, assign_agent_environment,
           RequestStart, RequestSettles, ReportRuntimeState, EnvRow
    <3> QED
      BY <3>2, Zenon
  <2> QED
    BY <2>1, Zenon DEF EnvNext, EnvBeats
<1>2. env'.own = (IF b = 0 THEN env.own ELSE b)
  BY <1>0, <1>1, Zenon DEF record_environment_heartbeat, _record_environment_registration, EnvRow
<1>3. b \notin {0, env.own} /\ env'.own = b /\ env.own # 0
  BY <1>0, <1>2
<1>4. ~q
  <2> SUFFICES ASSUME q PROVE FALSE
    BY Zenon
  <2>1. quiet' = quiet + 1
    BY <1>1, Zenon DEF record_environment_heartbeat, Quiet
  <2> QED
    BY <1>0, <2>1
<1>5. env.start = env.own /\ (env.tier <=> env.own \in HostTier)
  BY <1>3, Zenon DEF EnvInv, RowDescribesOwner
<1>6. ~(env.tier /\ b \notin HostTier) /\ ((b \in HostTier /\ ~env.tier) \/ ~(env.start # 0 /\ b < env.start))
  BY <1>1, <1>3, <1>4, Zenon DEF record_environment_heartbeat, arbitrate_claim, _environment_has_live_bridge
<1>7. env.own \in Nat /\ b \in Nat
  BY <1>0 DEF EnvRow
<1> QED
  BY <1>3, <1>5, <1>6, <1>7

(* arbitrate_claim: a live bridge loses the row only by rank.              *)
THEOREM LiveHoldersAreKept == EnvSpec => LiveHolderKept
<1>1. EnvInv /\ [EnvNext]_envVars =>
        [(/\ MetadataKept /\ quiet' = quiet /\ env.own \in up /\ env'.own \notin {0, env.own})
         => (IF env.own \in HostTier THEN env'.own \in HostTier /\ env'.own > env.own
             ELSE env'.own \in HostTier \/ env'.own > env.own)]_envVars
  BY TakenByRank, Zenon
<1> QED
  BY <1>1, EnvInvariant, PTL DEF EnvSpec, LiveHolderKept

-----------------------------------------------------------------------------
(* Long polls.                                                             *)

(* Every state of the long poll is well typed.                             *)
THEOREM PollTyping == PollSpec => []PollTypeOK
<1>1. PollInit => PollTypeOK
  BY DEF PollInit, PollTypeOK, PCs
<1>2. PollTypeOK /\ [PollNext]_pollVars => PollTypeOK'
  <2> SUFFICES ASSUME PollTypeOK, [PollNext]_pollVars PROVE PollTypeOK'
    BY Zenon
  <2> USE DEF PollTypeOK, PCs
  <2>1. ASSUME NEW c \in Callers, NEW wait \in BOOLEAN, Request(c, wait) PROVE PollTypeOK'
    BY <2>1, Zenon DEF Request
  <2>2. ASSUME NEW c \in Callers, NEW i \in Items, PollClaim(c, i) PROVE PollTypeOK'
    BY <2>2, Zenon DEF PollClaim
  <2>3. ASSUME NEW c \in Callers, ClaimNothing(c) PROVE PollTypeOK'
    BY <2>3, Zenon DEF ClaimNothing
  <2>4. ASSUME NEW c \in Callers, Return(c) PROVE PollTypeOK'
    BY <2>4, Zenon DEF Return
  <2>5. ASSUME NEW c \in Callers, Decide(c) PROVE PollTypeOK'
    BY <2>4, <2>5, Zenon DEF Decide
  <2>6. ASSUME NEW c \in Callers, Resume(c) PROVE PollTypeOK'
    BY <2>4, <2>6, Zenon DEF Resume
  <2>7. ASSUME NEW c \in Callers, Fallback(c) \/ Deadline(c) PROVE PollTypeOK'
    BY <2>7, Zenon DEF Fallback, Deadline
  <2>8. ASSUME NEW c \in Callers, Disconnect(c) \/ Watch(c) PROVE PollTypeOK'
    BY <2>8, Zenon DEF Disconnect, Watch
  <2>9. ASSUME NEW i \in Items, Commit(i) PROVE PollTypeOK'
    BY <2>9, Zenon DEF Commit, request
  <2>10. ASSUME NEW i \in Items, Notify(i) PROVE PollTypeOK'
    BY <2>10, Zenon DEF Notify
  <2>11. ASSUME NEW i \in Items, MissNotify(i) \/ ItemFinishes(i) PROVE PollTypeOK'
    BY <2>11 DEF MissNotify, ItemFinishes, request
  <2>12. CASE UNCHANGED pollVars
    BY <2>12, Zenon DEF pollVars
  <2> QED
    BY <2>1, <2>2, <2>3, <2>5, <2>6, <2>7, <2>8, <2>9, <2>10, <2>11, <2>12, Zenon DEF PollNext
<1> QED
  BY <1>1, <1>2, PTL DEF PollSpec

(* What ClaimedIsCarried rests on: a request that sleeps carries nothing,  *)
(* so what its return marks as handed over is nothing; and a request that  *)
(* is over has no watcher.                                                 *)
NobodyWaits ==
  \A c \in Callers : /\ pc[c] = "sleep" => result[c] = {}
                     /\ pc[c] = "idle" => watch[c] = "off"

PollInv == PollTypeOK /\ ClaimedIsCarried /\ NobodyWaits

(* A claim that is answered, or a sleep that is cut short, returns.        *)
LEMMA ReturnKeeps ==
  ASSUME PollInv, NEW c \in Callers, pc[c] \in {"answered", "sleep"}, Return(c)
  PROVE  ClaimedIsCarried' /\ NobodyWaits'
<1> USE DEF PollInv, PollTypeOK, PCs, Return
<1>1. \A d \in Callers \ {c} : pc'[d] = pc[d] /\ watch'[d] = watch[d]
  BY Zenon
<1>2. pc'[c] = "idle" /\ watch'[c] = "off" /\ result' = result
  BY Zenon
<1>3. \A i \in Items : item'[i] = "claimed" => item[i] = "claimed" /\ i \notin result[c]
  BY Zenon
<1>4. \A d \in Callers \ {c}, i \in Items : (pc[d] = "answered" /\ i \in result[d]) => item'[i] = item[i]
  BY Zenon DEF ClaimedIsCarried, NobodyWaits
<1>5. ClaimedIsCarried'
  BY <1>1, <1>2, <1>3, <1>4 DEF ClaimedIsCarried
<1>6. NobodyWaits'
  BY <1>1, <1>2, Zenon DEF NobodyWaits
<1> QED
  BY <1>5, <1>6, Zenon

(* Every step keeps the three together.                                    *)
LEMMA PollStep == PollInv /\ [PollNext]_pollVars => ClaimedIsCarried' /\ NobodyWaits'
<1> SUFFICES ASSUME PollInv, [PollNext]_pollVars PROVE ClaimedIsCarried' /\ NobodyWaits'
  BY Zenon
<1> USE DEF PollInv, PollTypeOK, PCs
<1>1. ASSUME NEW c \in Callers, NEW wait \in BOOLEAN, Request(c, wait) PROVE ClaimedIsCarried' /\ NobodyWaits'
  BY <1>1 DEF Request, ClaimedIsCarried, NobodyWaits
<1>2. ASSUME NEW c \in Callers, NEW i \in Items, PollClaim(c, i) PROVE ClaimedIsCarried' /\ NobodyWaits'
  <2>1. \A d \in Callers \ {c} : pc'[d] = pc[d] /\ result'[d] = result[d]
    BY <1>2, Zenon DEF PollClaim
  <2>2. pc'[c] = "answered" /\ result'[c] = {i} /\ item'[i] = "claimed" /\ watch' = watch
    BY <1>2, Zenon DEF PollClaim
  <2>3. \A j \in Items \ {i} : item'[j] = item[j]
    BY <1>2, Zenon DEF PollClaim
  <2>4. \A d \in Callers : pc[d] = "answered" => i \notin result[d]
    BY <1>2, Zenon DEF PollClaim, ClaimedIsCarried
  <2>5. ClaimedIsCarried'
    BY <2>1, <2>2, <2>3, <2>4, <1>2 DEF ClaimedIsCarried, PollClaim
  <2> QED
    BY <2>1, <2>2, <2>5, Zenon DEF NobodyWaits
<1>3. ASSUME NEW c \in Callers, ClaimNothing(c) PROVE ClaimedIsCarried' /\ NobodyWaits'
  BY <1>3 DEF ClaimNothing, ClaimedIsCarried, NobodyWaits
<1>4. ASSUME NEW c \in Callers, Decide(c) PROVE ClaimedIsCarried' /\ NobodyWaits'
  <2>1. CASE Return(c)
    BY <1>4, <2>1, ReturnKeeps, Zenon DEF Decide
  <2>2. CASE ~Return(c)
    BY <1>4, <2>2 DEF Decide, ClaimedIsCarried, NobodyWaits
  <2> QED
    BY <2>1, <2>2, Zenon
<1>5. ASSUME NEW c \in Callers, Resume(c) PROVE ClaimedIsCarried' /\ NobodyWaits'
  <2>1. CASE Return(c)
    BY <1>5, <2>1, ReturnKeeps, Zenon DEF Resume
  <2>2. CASE ~Return(c)
    BY <1>5, <2>2 DEF Resume, ClaimedIsCarried, NobodyWaits
  <2> QED
    BY <2>1, <2>2, Zenon
<1>6. ASSUME NEW c \in Callers, Fallback(c) \/ Deadline(c) \/ Disconnect(c) PROVE ClaimedIsCarried' /\ NobodyWaits'
  BY <1>6 DEF Fallback, Deadline, Disconnect, ClaimedIsCarried, NobodyWaits
<1>7. ASSUME NEW c \in Callers, Watch(c) PROVE ClaimedIsCarried' /\ NobodyWaits'
  BY <1>7 DEF Watch, ClaimedIsCarried, NobodyWaits
<1>8. ASSUME NEW i \in Items, Commit(i) PROVE ClaimedIsCarried' /\ NobodyWaits'
  BY <1>8 DEF Commit, request, ClaimedIsCarried, NobodyWaits
<1>9. ASSUME NEW i \in Items, Notify(i) \/ MissNotify(i) PROVE ClaimedIsCarried' /\ NobodyWaits'
  <2>1. pc' = pc /\ result' = result /\ watch' = watch /\ item' = item
    BY <1>9, Zenon DEF Notify, MissNotify, request
  <2> QED
    BY <2>1 DEF ClaimedIsCarried, NobodyWaits
<1>10. ASSUME NEW i \in Items, ItemFinishes(i) PROVE ClaimedIsCarried' /\ NobodyWaits'
  BY <1>10 DEF ItemFinishes, request, ClaimedIsCarried, NobodyWaits
<1>11. CASE UNCHANGED pollVars
  BY <1>11 DEF pollVars, ClaimedIsCarried, NobodyWaits
<1> QED
  BY <1>1, <1>2, <1>3, <1>4, <1>5, <1>6, <1>7, <1>8, <1>9, <1>10, <1>11, Zenon DEF PollNext

(* The invariant of the long poll.                                         *)
LEMMA Polling == PollSpec => []PollInv
<1>1. PollInit => ClaimedIsCarried /\ NobodyWaits
  BY Zenon DEF PollInit, ClaimedIsCarried, NobodyWaits
<1> QED
  BY <1>1, PollTyping, PollStep, PTL DEF PollSpec, PollInv

(* What an attempt has marked as claimed is in exactly one response, for   *)
(* any number of concurrent requests: the retry loop of longpoll drops no  *)
(* claim and no two requests return one item.                              *)
THEOREM ClaimsAreCarried == PollSpec => []ClaimedIsCarried
BY Polling, PTL DEF PollInv

(* A request whose watcher has seen the caller leave starts no attempt.    *)
THEOREM NoLateAttempt == PollSpec => NoAttemptAfterGone
<1>1. ASSUME PollInv, [PollNext]_pollVars, NEW c \in Callers, watch[c] = "gone", pc[c] # "attempt"
      PROVE  pc[c]' # "attempt"
  <2> USE <1>1 DEF PollInv, PollTypeOK, PCs, NobodyWaits
  <2>1. ASSUME NEW d \in Callers, NEW wait \in BOOLEAN, Request(d, wait) PROVE pc[c]' # "attempt"
    BY <2>1, Zenon DEF Request
  <2>2. ASSUME NEW d \in Callers, Resume(d) PROVE pc[c]' # "attempt"
    BY <2>2 DEF Resume, Return
  <2>3. ASSUME NEW d \in Callers, Decide(d) PROVE pc[c]' # "attempt"
    BY <2>3, Zenon DEF Decide, Return
  <2>4. ASSUME NEW d \in Callers, ClaimNothing(d) \/ \E i \in Items : PollClaim(d, i) PROVE pc[c]' # "attempt"
    BY <2>4 DEF ClaimNothing, PollClaim
  <2>5. ASSUME NEW d \in Callers, Fallback(d) \/ Deadline(d) \/ Disconnect(d) \/ Watch(d) PROVE pc[c]' # "attempt"
    BY <2>5, Zenon DEF Fallback, Deadline, Disconnect, Watch
  <2>6. ASSUME NEW i \in Items, Commit(i) \/ Notify(i) \/ MissNotify(i) \/ ItemFinishes(i) PROVE pc[c]' # "attempt"
    BY <2>6, Zenon DEF Commit, Notify, MissNotify, ItemFinishes, request
  <2>7. CASE UNCHANGED pollVars
    BY <2>7, Zenon DEF pollVars
  <2> QED
    BY <2>1, <2>2, <2>3, <2>4, <2>5, <2>6, <2>7, Zenon DEF PollNext
<1>2. PollInv /\ [PollNext]_pollVars =>
        [\A c \in Callers : watch[c] = "gone" /\ pc[c] # "attempt" => pc[c]' # "attempt"]_pollVars
  BY <1>1, Zenon
<1> QED
  BY <1>2, Polling, PTL DEF PollSpec, NoAttemptAfterGone

-----------------------------------------------------------------------------
(* Terminals and their controls.                                           *)

CtlStates == {"none", "completed", "failed"} \cup Open

RowStates == {"none", "stopping"} \cup TermActive \cup TermEnded

Row == [st : RowStates, bridge : Nat, exited : BOOLEAN, pid : BOOLEAN, age : Nat]
Rows == [Terms -> Row]
Controls == [Ctls -> [st : CtlStates, bridge : Nat]]

Hosts == [bridge : Nat, holds : SUBSET Terms, todo : SUBSET (Ctls \X BOOLEAN)]

LifeTyped ==
  /\ tRow \in Rows
  /\ tCtl \in Controls
  /\ tEnv \in [bridge : Nat, fresh : BOOLEAN]
  /\ tOpening \in [Paths -> Nat]
  /\ tHost \in Hosts
  /\ tTyped \in [Terms -> Nat]

(* The input of terminal t. *)
Input(t) == <<t, "input">>

(* An input that is not claimed yet has reached nobody; the host has a     *)
(* claimed one once, and has not typed what it still has to do.            *)
InputOnce ==
  \A t \in Terms :
    /\ tCtl[Input(t)].st \in {"none", "pending"} =>
         tTyped[t] = 0 /\ \A w \in tHost.todo : w[1] # Input(t)
    /\ \A w \in tHost.todo : w[1] = Input(t) =>
         tTyped[t] = 0 /\ \A v \in tHost.todo : v[1] = Input(t) => v = w

LifeInv == LifeTyped /\ TypedOnce /\ InputOnce

(* A control that is no longer open for a claim never becomes so again.   *)
Later(old, new) ==
  \A t \in Terms : new[Input(t)].st \in {"none", "pending"} => old[Input(t)].st \in {"none", "pending"}

(* A step that hands out, types and reopens nothing keeps the invariant.   *)
LEMMA LaterKeeps ==
  ASSUME LifeInv, LifeTyped', Later(tCtl, tCtl'), tTyped' = tTyped, tHost'.todo \subseteq tHost.todo
  PROVE  LifeInv'
BY Zenon DEF LifeInv, TypedOnce, InputOnce, Later

USE DEF CtlStates, Row, Rows, Controls, Hosts

(* An input is one of the controls.                                        *)
LEMMA InputIsCtl == \A t \in Terms : Input(t) \in Ctls /\ Input(t)[1] = t /\ Input(t)[2] = "input"
BY Zenon DEF Input, Ctls

(* Closing a terminal's controls as failed reopens none.                   *)
LEMMA FailedControls ==
  ASSUME NEW ctl \in Controls, NEW t, NEW spared
  PROVE  FailControls(ctl, t, spared) \in Controls /\ Later(ctl, FailControls(ctl, t, spared))
BY InputIsCtl DEF FailControls, Controls, Later, Open

(* Asking for a start or a stop touches no input.                          *)
LEMMA AppendedControl ==
  ASSUME NEW ctl \in Controls, NEW t, NEW a \in {"start", "stop"}, NEW b \in Nat
  PROVE  AppendControl(ctl, t, a, b) \in Controls /\ Later(ctl, AppendControl(ctl, t, a, b))
<1>1. AppendControl(ctl, t, a, b) \in Controls
  BY Zenon DEF AppendControl, Controls, Open
<1>2. \A u \in Terms : AppendControl(ctl, t, a, b)[Input(u)] = ctl[Input(u)]
  BY InputIsCtl, Zenon DEF AppendControl, Controls, Input
<1> QED
  BY <1>1, <1>2, Zenon DEF Later

(* A settled row is a row.                                                 *)
LEMMA SettledRow ==
  ASSUME NEW row \in Row,
         NEW s \in RowStates
  PROVE  Settled(row, s) \in Row
BY Zenon DEF Settled

(* Settling rows gives rows.                                               *)
LEMMA SettledRows ==
  ASSUME tRow \in Rows, NEW t, NEW s \in RowStates
  PROVE  [tRow EXCEPT ![t] = Settled(@, s)] \in Rows
BY SettledRow, Zenon DEF Rows

(* The sweep of old controls reopens no input.                             *)
LEMMA SweptControls ==
  ASSUME LifeTyped
  PROVE  LET new == FailUnreachable(RetargetStops(FailInactive(tCtl)))
         IN  new \in Controls /\ Later(tCtl, new)
<1> DEFINE one == FailInactive(tCtl)
           two == RetargetStops(one)
<1>1. one \in Controls /\ Later(tCtl, one)
  BY InputIsCtl DEF FailInactive, LifeTyped, Controls, Later, Open
<1> HIDE DEF one
<1>2. two \in Controls /\ Later(one, two)
  BY <1>1, InputIsCtl, Zenon DEF RetargetStops, LifeTyped, Controls, Later, Open
<1> HIDE DEF two
<1>3. FailUnreachable(two) \in Controls /\ Later(two, FailUnreachable(two))
  BY <1>2, InputIsCtl DEF FailUnreachable, Controls, Later, Open
<1> QED
  BY <1>1, <1>2, <1>3, Zenon DEF Later, one, two

(* No terminal and no control at first.                                    *)
LEMMA LifeStarts == ASSUME LifeInit PROVE LifeInv
<1>1. LifeTyped
  BY Zenon DEF LifeInit, LifeTyped, RowStates, TermActive, TermEnded, Open
<1>2. tHost.todo = {} /\ \A t \in Terms : tTyped[t] = 0
  BY Zenon DEF LifeInit
<1> QED
  BY <1>1, <1>2 DEF LifeInv, TypedOnce, InputOnce

(* Opening a console, or giving up a stale one.                            *)
LEMMA OpenKeeps ==
  ASSUME LifeInv, NEW p \in Paths, OpenReads(p) \/ OpenWrites(p) \/ OpenReleases
  PROVE  LifeInv'
<1> USE DEF LifeInv
<1>0. tRow \in Rows /\ tCtl \in Controls
  BY Zenon DEF LifeTyped, Rows, Controls
<1>1. CASE OpenReads(p)
  <2>1. LifeTyped'
    BY <1>1, Zenon DEF OpenReads, LifeTyped, hostVars
  <2> QED
    BY <1>1, <2>1, LaterKeeps, Zenon DEF OpenReads, Later, hostVars
<1>2. CASE OpenWrites(p)
  <2> DEFINE t == NextTerm
             b == tOpening[p]
  <2>1. b \in Nat
    BY Zenon DEF LifeTyped
  <2>2. tRow' = [tRow EXCEPT ![t] = [Settled(@, "starting") EXCEPT !.bridge = b]]
    BY <1>2, Zenon DEF OpenWrites, Started
  <2>3. tCtl' = AppendControl(tCtl, t, "start", b)
    BY <1>2, Zenon DEF OpenWrites, Started
  <2>4. UNCHANGED <<tHost, tTyped, tEnv>> /\ tOpening' \in [Paths -> Nat]
    BY <1>2, Zenon DEF OpenWrites, hostVars, LifeTyped
  <2> HIDE DEF t, b
  <2>5. tRow' \in Rows
    <3>1. "starting" \in RowStates
      BY Zenon DEF RowStates, TermActive
    <3>2. ASSUME t \in Terms PROVE [Settled(tRow[t], "starting") EXCEPT !.bridge = b] \in Row
      <4>1. Settled(tRow[t], "starting") \in Row
        BY <1>0, <3>1, <3>2, SettledRow, Zenon DEF Rows
      <4> QED
        BY <2>1, <4>1, Zenon DEF Row
    <3> QED
      BY <1>0, <2>2, <3>2, Zenon DEF Rows
  <2>6. tCtl' \in Controls /\ Later(tCtl, tCtl')
    BY <1>0, <2>1, <2>3, AppendedControl, Zenon
  <2>7. LifeTyped'
    BY <2>4, <2>5, <2>6, Zenon DEF LifeTyped, Rows, Controls
  <2> QED
    BY <2>4, <2>6, <2>7, LaterKeeps, Zenon
<1>3. CASE OpenReleases
  <2>1. "failed" \in RowStates
    BY Zenon DEF RowStates, TermEnded
  <2>2. tRow' \in Rows
    BY <1>0, <1>3, <2>1, SettledRows, Zenon DEF OpenReleases, ReleaseOwner
  <2>3. UNCHANGED <<tCtl, tHost, tTyped, tEnv, tOpening>>
    BY <1>3, Zenon DEF OpenReleases, hostVars, handlerVars
  <2>4. LifeTyped'
    BY <2>2, <2>3, Zenon DEF LifeTyped, Rows
  <2> QED
    BY <2>3, <2>4, LaterKeeps, Zenon DEF Later
<1> QED
  BY <1>1, <1>2, <1>3, Zenon

(* An input is asked for once, and nobody has it yet.                      *)
LEMMA InputKeeps ==
  ASSUME LifeInv, NEW t \in Terms, SendInput(t)
  PROVE  LifeInv'
<1>1. UNCHANGED <<tRow, tHost, tTyped, tEnv, tOpening>>
  BY Zenon DEF SendInput, hostVars, handlerVars
<1>2. Input(t) \in Ctls /\ tCtl[Input(t)].st = "none" /\ tRow[t].bridge \in Nat
  BY InputIsCtl, Zenon DEF SendInput, Input, LifeInv, LifeTyped
<1>3. tCtl' = [tCtl EXCEPT ![Input(t)] = [st |-> "pending", bridge |-> tRow[t].bridge]]
  BY Zenon DEF SendInput, AppendControl, Input
<1>4. tCtl' \in Controls
  BY <1>2, <1>3, Zenon DEF LifeInv, LifeTyped, Controls, Open
<1>5. Later(tCtl, tCtl')
  <2> SUFFICES ASSUME NEW u \in Terms, tCtl'[Input(u)].st \in {"none", "pending"}
               PROVE  tCtl[Input(u)].st \in {"none", "pending"}
    BY Zenon DEF Later
  <2>1. CASE Input(u) = Input(t)
    BY <1>2, <2>1, Zenon
  <2>2. CASE Input(u) # Input(t)
    BY <1>3, <2>2, InputIsCtl, Zenon DEF LifeInv, LifeTyped
  <2> QED
    BY <2>1, <2>2, Zenon
<1>6. LifeTyped'
  BY <1>1, <1>4, Zenon DEF LifeInv, LifeTyped, Controls
<1> QED
  BY <1>1, <1>5, <1>6, LaterKeeps, Zenon

(* Stops touch no input.                                                   *)
LEMMA StopKeepsInput ==
  ASSUME LifeInv, NEW t \in Terms, StopReads(t) \/ StopQueued(t) \/ StopReconciled(t) \/ StopAgent
  PROVE  LifeInv'
<1> USE DEF LifeInv
<1>0. tRow \in Rows /\ tCtl \in Controls /\ \A u \in Terms : tRow[u].bridge \in Nat
  BY Zenon DEF LifeTyped, Rows, Controls
<1>s. "stopping" \in RowStates /\ "stopped" \in RowStates
  BY Zenon DEF RowStates, TermEnded
<1>t. ASSUME UNCHANGED <<tHost, tTyped, tEnv, tOpening>>, tRow' \in Rows, tCtl' \in Controls, Later(tCtl, tCtl')
      PROVE  LifeInv'
  <2>1. LifeTyped'
    BY <1>t, Zenon DEF LifeTyped, Rows, Controls
  <2> QED
    BY <1>t, <2>1, LaterKeeps, Zenon
<1>1. CASE StopReads(t)
  BY <1>0, <1>1, <1>t, Zenon DEF StopReads, hostVars, Later
<1>2. CASE StopQueued(t)
  <2>1. UNCHANGED <<tHost, tTyped, tEnv, tOpening>>
    BY <1>2, Zenon DEF StopQueued, hostVars
  <2>2. tRow' \in Rows
    BY <1>0, <1>2, <1>s, SettledRows, Zenon DEF StopQueued
  <2>3. tCtl' \in Controls /\ Later(tCtl, tCtl')
    BY <1>0, <1>2, AppendedControl, Zenon DEF StopQueued
  <2> QED
    BY <1>t, <2>1, <2>2, <2>3, Zenon
<1>3. CASE StopReconciled(t)
  <2>1. UNCHANGED <<tHost, tTyped, tEnv, tOpening>>
    BY <1>3, Zenon DEF StopReconciled, hostVars
  <2>2. tRow' \in Rows
    BY <1>0, <1>3, <1>s, SettledRows, Zenon DEF StopReconciled
  <2>3. tCtl' = [tCtl EXCEPT ![<<t, "stop">>] = [st |-> "completed", bridge |-> tRow[t].bridge]]
    BY <1>3, Zenon DEF StopReconciled
  <2>4. tCtl' \in Controls
    BY <1>0, <2>3, Zenon DEF Controls
  <2>5. \A u \in Terms : tCtl'[Input(u)] = tCtl[Input(u)]
    BY <1>0, <2>3, InputIsCtl, Zenon DEF Controls, Input
  <2> QED
    BY <1>t, <2>1, <2>2, <2>4, <2>5, Zenon DEF Later
<1>4. CASE StopAgent
  <2>1. UNCHANGED <<tHost, tTyped, tEnv, tOpening>>
    BY <1>4, Zenon DEF StopAgent, hostVars, handlerVars
  <2>2. tRow' \in Rows
    BY <1>0, <1>4, <1>s, SettledRow, Zenon DEF StopAgent, Rows
  <2>3. tCtl' \in Controls
    BY <1>0, <1>4, Zenon DEF StopAgent, Controls, Ctls, Open
  <2>4. \A u \in Terms : tCtl'[Input(u)] = tCtl[Input(u)]
    BY <1>4, InputIsCtl, Zenon DEF StopAgent
  <2> QED
    BY <1>t, <2>1, <2>2, <2>3, <2>4, Zenon DEF Later
<1> QED
  BY <1>1, <1>2, <1>3, <1>4, Zenon

(* A claim hands an input out, which nobody had before.                    *)
LEMMA ClaimKeepsInput ==
  ASSUME LifeInv, ClaimControls
  PROVE  LifeInv'
<1> DEFINE mine == {c \in Ctls : tCtl[c].st = "pending" /\ tCtl[c].bridge = tHost.bridge}
           new == {<<c, tRow[c[1]].pid>> : c \in mine}
<1>1. UNCHANGED <<tRow, tTyped, tEnv, tOpening>>
  BY Zenon DEF ClaimControls, handlerVars
<1>2. /\ tCtl' = [c \in Ctls |-> IF c \in mine THEN [tCtl[c] EXCEPT !.st = "claimed"] ELSE tCtl[c]]
      /\ tHost' = [tHost EXCEPT !.todo = @ \cup new]
  BY Zenon DEF ClaimControls
<1>3. mine \subseteq Ctls /\ \A c \in mine : tCtl[c].st = "pending"
  BY Zenon
<1>4. new \subseteq Ctls \X BOOLEAN
  BY <1>3 DEF LifeInv, LifeTyped, Ctls
<1>5. /\ \A w \in new : w[1] \in mine
      /\ \A v, w \in new : v[1] = w[1] => v = w
  OBVIOUS
<1> HIDE DEF mine, new
<1>6. tCtl' \in Controls
  BY <1>2 DEF LifeInv, LifeTyped, Open
<1>7. /\ tHost' \in Hosts
      /\ tHost'.todo = tHost.todo \cup new
  BY <1>2, <1>4, Zenon DEF LifeInv, LifeTyped
<1>8. LifeTyped'
  BY <1>1, <1>6, <1>7, Zenon DEF LifeInv, LifeTyped
<1>9. \A t \in Terms : /\ Input(t) \in mine => tCtl[Input(t)].st = "pending" /\ tCtl'[Input(t)].st = "claimed"
                       /\ Input(t) \notin mine => tCtl'[Input(t)] = tCtl[Input(t)]
  BY <1>2, <1>3, InputIsCtl DEF LifeInv, LifeTyped
<1>10. InputOnce'
  <2> SUFFICES ASSUME NEW t \in Terms
      PROVE /\ tCtl'[Input(t)].st \in {"none", "pending"} =>
                 tTyped[t] = 0 /\ \A w \in tHost'.todo : w[1] # Input(t)
            /\ \A w \in tHost'.todo : w[1] = Input(t) =>
                 tTyped[t] = 0 /\ \A v \in tHost'.todo : v[1] = Input(t) => v = w
    BY <1>1, Zenon DEF InputOnce
  <2>0. /\ tCtl[Input(t)].st \in {"none", "pending"} =>
             tTyped[t] = 0 /\ \A w \in tHost.todo : w[1] # Input(t)
        /\ \A w \in tHost.todo : w[1] = Input(t) =>
             tTyped[t] = 0 /\ \A v \in tHost.todo : v[1] = Input(t) => v = w
    BY Zenon DEF LifeInv, InputOnce
  <2>1. CASE Input(t) \in mine
    BY <1>5, <1>7, <1>9, <2>0, <2>1
  <2>2. CASE Input(t) \notin mine
    BY <1>5, <1>7, <1>9, <2>0, <2>2
  <2> QED
    BY <2>1, <2>2, Zenon
<1> QED
  BY <1>1, <1>8, <1>10, Zenon DEF LifeInv, TypedOnce

(* What the host does leaves its list, so an input is typed by the only    *)
(* entry that names it.                                                    *)
LEMMA AppliesKeeps ==
  ASSUME LifeInv, NEW w \in tHost.todo, HostApplies(w)
  PROVE  LifeInv'
<1> DEFINE c == w[1]
           t == c[1]
<1>1. UNCHANGED <<tRow, tCtl, tEnv, tOpening>>
  BY Zenon DEF HostApplies, handlerVars
<1>2. w \in Ctls \X BOOLEAN /\ c \in Ctls /\ t \in Terms /\ c = <<t, c[2]>>
  BY DEF LifeInv, LifeTyped, Ctls
<1>3. /\ tHost' \in Hosts
      /\ tHost'.todo = tHost.todo \ {w}
  <2> DEFINE done == [tHost EXCEPT !.todo = @ \ {w}]
  <2>1. done \in Hosts /\ done.todo = tHost.todo \ {w}
    BY Zenon DEF LifeInv, LifeTyped
  <2>2. \/ tHost' = done
        \/ tHost' = [done EXCEPT !.holds = @ \cup {t}]
        \/ tHost' = [done EXCEPT !.holds = @ \ {t}]
    BY Zenon DEF HostApplies
  <2> HIDE DEF done, t
  <2> QED
    BY <1>2, <2>1, <2>2
<1>4. \/ tTyped' = tTyped
      \/ c[2] = "input" /\ tTyped' = [tTyped EXCEPT ![t] = @ + 1]
  BY Zenon DEF HostApplies
<1>5. tTyped' \in [Terms -> Nat]
  BY <1>2, <1>4 DEF LifeInv, LifeTyped
<1>6. LifeTyped'
  BY <1>1, <1>3, <1>5, Zenon DEF LifeInv, LifeTyped
<1>7. CASE tTyped' = tTyped
  BY <1>1, <1>3, <1>6, <1>7, LaterKeeps, Zenon DEF Later
<1>8. CASE c[2] = "input" /\ tTyped' = [tTyped EXCEPT ![t] = @ + 1]
  <2>1. w[1] = Input(t)
    BY <1>2, <1>8, Zenon DEF Input
  <2> HIDE DEF c, t
  <2>2. tTyped[t] = 0 /\ \A v \in tHost.todo : v[1] = Input(t) => v = w
    BY <1>2, <2>1, Zenon DEF LifeInv, InputOnce
  <2>3. tTyped'[t] = 1 /\ \A u \in Terms \ {t} : tTyped'[u] = tTyped[u]
    BY <1>2, <1>8, <2>2 DEF LifeInv, LifeTyped
  <2>4. tCtl[Input(t)].st \notin {"none", "pending"}
    BY <1>2, <2>1, Zenon DEF LifeInv, InputOnce
  <2>5. TypedOnce'
    BY <2>3 DEF LifeInv, TypedOnce
  <2>6. \A v \in tHost'.todo : v[1] # Input(t) /\ v \in tHost.todo
    BY <1>3, <2>2, Zenon
  <2>7. InputOnce'
    BY <1>1, <2>3, <2>4, <2>6, Zenon DEF LifeInv, InputOnce
  <2> QED
    BY <1>6, <2>5, <2>7, Zenon DEF LifeInv
<1> QED
  BY <1>4, <1>7, <1>8, Zenon

(* The rest of the host: exits, deaths it finds, and its replacement, which *)
(* forgets what was claimed.                                               *)
LEMMA HostKeeps ==
  ASSUME LifeInv,
         \/ \E t \in Terms : ProcessExits(t) \/ HostFindsDead(t)
         \/ \E kept \in {tHost.holds, {}}, mail \in {tMail, {}} : HostRestarts(kept, mail)
  PROVE  LifeInv'
<1>1. UNCHANGED <<tRow, tCtl, tEnv, tOpening, tTyped>>
  BY Zenon DEF ProcessExits, HostFindsDead, HostRestarts, handlerVars
<1>2. /\ tHost' \in Hosts
      /\ tHost'.todo \subseteq tHost.todo
  <2>1. \/ tHost' = tHost
        \/ \E t \in Terms : tHost' = [tHost EXCEPT !.holds = @ \ {t}]
        \/ \E kept \in {tHost.holds, {}} : tHost' = [bridge |-> tHost.bridge + 1, holds |-> kept, todo |-> {}]
    BY Zenon DEF ProcessExits, HostFindsDead, HostRestarts
  <2> QED
    BY <2>1 DEF LifeInv, LifeTyped
<1>3. LifeTyped'
  BY <1>1, <1>2, Zenon DEF LifeInv, LifeTyped
<1> QED
  BY <1>1, <1>2, <1>3, LaterKeeps, Zenon DEF Later

(* A step that changes rows and controls, and reopens no input.            *)
LEMMA RowsKeep ==
  ASSUME LifeInv, UNCHANGED <<tHost, tTyped, tOpening>>,
         tEnv' \in [bridge : Nat, fresh : BOOLEAN],
         tRow' \in Rows, tCtl' \in Controls, Later(tCtl, tCtl')
  PROVE  LifeInv'
<1>1. LifeTyped'
  BY Zenon DEF LifeInv, LifeTyped
<1> QED
  BY <1>1, LaterKeeps, Zenon

(* The states that a report or a sweep writes are states of a row.         *)
LEMMA EndedStates == {"stopped", "failed", "running", "stopping", "starting"} \subseteq RowStates
BY Zenon DEF RowStates, TermActive, TermEnded

(* The host's reports close controls and end terminals.                    *)
LEMMA ReportsKeep ==
  ASSUME LifeInv, NEW m, ControlReported(m) \/ ExitReported(m) \/ DeadReported(m)
  PROVE  LifeInv'
<1>0. tRow \in Rows /\ tCtl \in Controls /\ tEnv \in [bridge : Nat, fresh : BOOLEAN]
  BY Zenon DEF LifeInv, LifeTyped
<1>u. UNCHANGED <<tHost, tTyped, tOpening, tEnv>>
  BY Zenon DEF ControlReported, ExitReported, DeadReported, handlerVars
<1>e. ASSUME NEW t, NEW row, t \in Terms => row \in Row, EndTerminal(t, "stopped", row)
      PROVE  tRow' \in Rows /\ tCtl' \in Controls /\ Later(tCtl, tCtl')
  <2>1. tRow' \in Rows
    BY <1>0, <1>e, SettledRow, EndedStates, Zenon DEF EndTerminal
  <2> QED
    BY <1>0, <1>e, <2>1, FailedControls, Zenon DEF EndTerminal
<1>1. CASE ExitReported(m)
  <2> DEFINE t == m.about[1]
  <2>1. t \in Terms => [tRow[t] EXCEPT !.exited = TRUE] \in Row
    BY <1>0
  <2>2. EndTerminal(t, "stopped", [tRow[t] EXCEPT !.exited = TRUE])
    BY <1>1, Zenon DEF ExitReported
  <2> HIDE DEF t
  <2> QED
    BY <1>0, <1>u, <1>e, <2>1, <2>2, RowsKeep, Zenon
<1>2. CASE DeadReported(m)
  <2>1. tRow' \in Rows /\ tCtl' \in Controls /\ Later(tCtl, tCtl')
    <3>1. CASE tRow[m.about[1]].st \in TermEnded
      BY <1>0, <1>2, <3>1, Zenon DEF DeadReported, Later
    <3>2. CASE tRow[m.about[1]].st \notin TermEnded
      <4>1. EndTerminal(m.about[1], "stopped", tRow[m.about[1]])
        BY <1>2, <3>2, Zenon DEF DeadReported
      <4>2. m.about[1] \in Terms => tRow[m.about[1]] \in Row
        BY <1>0, Zenon
      <4> QED
        BY <1>e, <4>1, <4>2, Zenon
    <3> QED
      BY <3>1, <3>2, Zenon
  <2> QED
    BY <1>0, <1>u, <2>1, RowsKeep, Zenon
<1>3. CASE ControlReported(m)
  <2> DEFINE c == m.about
             t == c[1]
             row == [tRow[t] EXCEPT !.pid = @ \/ (c[2] = "start" /\ m.ok)]
             s == StatusFromControl(c, m.ok, tRow[t])
             ctl == [tCtl EXCEPT ![c] = [@ EXCEPT !.st = IF m.ok THEN "completed" ELSE "failed"]]
  <2>1. /\ c \in Ctls
        /\ \/ tCtl' = FailControls(ctl, t, {}) \/ tCtl' = ctl
        /\ \/ tRow' = [tRow EXCEPT ![t] = row]
           \/ s \in {"stopped", "failed", "running"} /\ tRow' = [tRow EXCEPT ![t] = Settled(row, s)]
    <3>1. s \in {"stopped", "failed", "running", ""}
      BY Zenon DEF StatusFromControl
    <3> HIDE DEF s, ctl, row
    <3>2. /\ c \in Ctls
          /\ IF s \in TermEnded
             THEN tCtl' = FailControls(ctl, t, {}) /\ tRow' = [tRow EXCEPT ![t] = Settled(row, s)]
             ELSE tCtl' = ctl /\ tRow' = [tRow EXCEPT ![t] = IF s = "" THEN row ELSE Settled(row, s)]
      BY <1>3, Zenon DEF ControlReported, s, ctl, row
    <3> HIDE DEF c, t
    <3> QED
      BY <3>1, <3>2, Zenon DEF TermEnded
  <2>2. t \in Terms /\ row \in Row
    <3>1. t \in Terms
      BY <2>1, Zenon DEF Ctls
    <3>2. tRow[t].pid \in BOOLEAN /\ tRow[t] \in Row
      BY <1>0, <3>1, Zenon
    <3> QED
      BY <3>1, <3>2, Zenon
  <2>3. ctl \in Controls /\ Later(tCtl, ctl)
    <3>1. [tCtl[c] EXCEPT !.st = IF m.ok THEN "completed" ELSE "failed"] \in [st : CtlStates, bridge : Nat]
      BY <1>0, <2>1
    <3>2. [tCtl[c] EXCEPT !.st = IF m.ok THEN "completed" ELSE "failed"].st \in {"completed", "failed"}
      BY <1>0, <2>1
    <3> QED
      BY <1>0, <2>1, <3>1, <3>2, InputIsCtl DEF Later
  <2> HIDE DEF c, t, row, s, ctl
  <2>4. tCtl' \in Controls /\ Later(tCtl, tCtl')
    <3>1. FailControls(ctl, t, {}) \in Controls /\ Later(ctl, FailControls(ctl, t, {}))
      BY <2>3, FailedControls, Zenon
    <3> QED
      BY <2>1, <2>3, <3>1, Zenon DEF Later
  <2>5. tRow' \in Rows
    BY <1>0, <2>1, <2>2, SettledRow, EndedStates
  <2> QED
    BY <1>0, <1>u, <2>4, <2>5, RowsKeep, Zenon
<1> QED
  BY <1>1, <1>2, <1>3, Zenon

(* Beats, silences and the passage of time.                                *)
LEMMA BeatsKeep ==
  ASSUME LifeInv, \/ HeartBeat \/ EnvironmentSilent
                  \/ \E t \in Terms : AliveReported(t) \/ (\E age \in 1 .. 2 : TimePasses(t, age))
  PROVE  LifeInv'
<1>0. tRow \in Rows /\ tCtl \in Controls /\ tEnv \in [bridge : Nat, fresh : BOOLEAN]
  BY Zenon DEF LifeInv, LifeTyped
<1>1. CASE HeartBeat
  <2>1. UNCHANGED <<tHost, tTyped, tOpening>>
    BY <1>1, Zenon DEF HeartBeat, handlerVars, hostVars
  <2>2. tEnv' \in [bridge : Nat, fresh : BOOLEAN]
    BY <1>1, Zenon DEF HeartBeat, LifeInv, LifeTyped
  <2>3. tRow' \in Rows
    BY <1>0, <1>1, SettledRow, EndedStates, Zenon DEF HeartBeat
  <2>4. \A u \in Terms, x \in Ctls : /\ FailControls(tCtl, u, {})[x] \in [st : CtlStates, bridge : Nat]
                                    /\ FailControls(tCtl, u, {}) \in Controls /\ Later(tCtl, FailControls(tCtl, u, {}))
    BY <1>0, FailedControls
  <2>5. \A x \in Ctls : \/ tCtl'[x] = tCtl[x]
                        \/ x[1] \in Terms /\ tCtl'[x] = FailControls(tCtl, x[1], {})[x]
    BY <1>1, Zenon DEF HeartBeat, NoLongerHeld
  <2>6. tCtl' \in Controls
    <3>1. tCtl' = [x \in Ctls |-> tCtl'[x]]
      BY <1>1, Zenon DEF HeartBeat
    <3> QED
      BY <1>0, <2>4, <2>5, <3>1, Zenon
  <2>7. Later(tCtl, tCtl')
    BY <2>4, <2>5, InputIsCtl DEF Later
  <2> QED
    BY <2>1, <2>2, <2>3, <2>6, <2>7, RowsKeep, Zenon
<1>2. CASE EnvironmentSilent
  <2>1. UNCHANGED <<tHost, tTyped, tOpening, tRow, tCtl>> /\ tEnv' \in [bridge : Nat, fresh : BOOLEAN]
    BY <1>0, <1>2, Zenon DEF EnvironmentSilent, handlerVars, hostVars
  <2> QED
    BY <1>0, <2>1, RowsKeep, Zenon DEF Later
<1>3. CASE \E t \in Terms : AliveReported(t) \/ (\E age \in 1 .. 2 : TimePasses(t, age))
  <2>1. UNCHANGED <<tHost, tTyped, tOpening, tEnv, tCtl>>
    BY <1>3, Zenon DEF AliveReported, TimePasses, handlerVars, hostVars
  <2>2. tRow' \in Rows
    <3>1. PICK t \in Terms, age \in 0 .. 2 : tRow' = [tRow EXCEPT ![t] = [@ EXCEPT !.age = age]]
      BY <1>3 DEF AliveReported, TimePasses
    <3>2. [tRow[t] EXCEPT !.age = age] \in Row
      BY <1>0, <3>1
    <3> QED
      BY <1>0, <3>1, <3>2, Zenon
  <2> QED
    BY <1>0, <2>1, <2>2, RowsKeep, Zenon DEF Later
<1> QED
  BY <1>1, <1>2, <1>3, Zenon

(* The sweeps.                                                             *)
LEMMA SweepsKeep ==
  ASSUME LifeInv, ControlSweep \/ StuckSweep \/ ConsistencySweep
  PROVE  LifeInv'
<1>0. tRow \in Rows /\ tCtl \in Controls /\ tEnv \in [bridge : Nat, fresh : BOOLEAN]
  BY Zenon DEF LifeInv, LifeTyped
<1>u. UNCHANGED <<tHost, tTyped, tOpening, tEnv>>
  BY Zenon DEF ControlSweep, StuckSweep, ConsistencySweep, handlerVars, hostVars
<1>1. CASE ControlSweep
  <2>1. tCtl' = FailUnreachable(RetargetStops(FailInactive(tCtl))) /\ tRow' = tRow
    BY <1>1, Zenon DEF ControlSweep
  <2> QED
    BY <1>0, <1>u, <2>1, SweptControls, RowsKeep, Zenon DEF LifeInv
<1>2. CASE StuckSweep
  <2>1. tCtl' = tCtl /\ tRow' \in Rows
    BY <1>0, <1>2, EndedStates DEF StuckSweep
  <2> QED
    BY <1>0, <1>u, <2>1, RowsKeep, Zenon DEF Later
<1>3. CASE ConsistencySweep
  <2>1. tCtl' = tCtl
    BY <1>3, Zenon DEF ConsistencySweep
  <2>2. tRow' \in Rows
    BY <1>0, <1>3, SettledRow, EndedStates DEF ConsistencySweep, TermEnded
  <2> QED
    BY <1>0, <1>u, <2>1, <2>2, RowsKeep, Zenon DEF Later
<1> QED
  BY <1>1, <1>2, <1>3, Zenon

(* Keystrokes are claimed by one bridge, once: whatever becomes of that    *)
(* bridge, its terminal or its environment, an input is typed at most once. *)
THEOREM InputsAreTypedOnce == LifeSpec => []TypedOnce
<1>1. LifeInit => LifeInv
  BY LifeStarts, Zenon
<1>2. LifeInv /\ [LifeNext]_lifeVars => LifeInv'
  <2> SUFFICES ASSUME LifeInv, [LifeNext]_lifeVars PROVE LifeInv'
    BY Zenon
  <2>1. CASE UNCHANGED lifeVars
    <3>1. UNCHANGED <<tRow, tCtl, tEnv, tOpening, tHost, tTyped>>
      BY <2>1, Zenon DEF lifeVars
    <3> QED
      BY <3>1, Zenon DEF LifeInv, LifeTyped, TypedOnce, InputOnce
  <2>2. CASE LifeNext
    <3>1. "console" \in Paths /\ 1 \in Terms
      BY LifeBounds DEF Paths, Terms
    <3> QED
      BY <2>2, <3>1, OpenKeeps, InputKeeps, StopKeepsInput, ClaimKeepsInput, AppliesKeeps, HostKeeps, ReportsKeep, BeatsKeep,
       SweepsKeep, Zenon DEF LifeNext
  <2> QED
    BY <2>1, <2>2, Zenon
<1>3. LifeInv => TypedOnce
  BY Zenon DEF LifeInv
<1> QED
  BY <1>1, <1>2, <1>3, PTL DEF LifeSpec
=============================================================================
