------------------------ MODULE NotificationOutbox_proofs ------------------------
(***************************************************************************)
(* Proofs about NotificationOutbox.  The argument has three layers:        *)
(*   - every transaction moves each row of the outbox by one of a few row  *)
(*     moves (Same, Expire, Hold, or the one row it is about);             *)
(*   - the lease invariant LeaseInv is inductive under those moves;        *)
(*   - if the mail server always closes a session after acceptance, the    *)
(*     ledger's knowledge of acceptance is true as well (CopiesAccounted), *)
(*     and no message is sent twice.                                       *)
(***************************************************************************)
EXTENDS NotificationOutbox, TLAPS

-----------------------------------------------------------------------------
(* Row moves.                                                              *)

Same(m) == outbox'[m] = outbox[m] /\ delivery'[m] = delivery[m]

Expire(m) ==
  /\ outbox[m].state = "leased"
  /\ outbox'[m] = [outbox[m] EXCEPT !.state = "dead_letter", !.expires = 0]
  /\ delivery'[m] = [delivery[m] EXCEPT ![outbox[m].attempts] = "ambiguous"]

Hold(m) ==
  /\ outbox[m].state = "pending"
  /\ outbox'[m] = [outbox[m] EXCEPT !.state = "held"]
  /\ delivery'[m] = delivery[m]

Quiet(m) == Same(m) \/ Expire(m) \/ Hold(m)

-----------------------------------------------------------------------------

LEMMA InitLeaseInv == Init => LeaseInv
  BY OutboxAssumption
  DEF Init, LeaseInv, TypeOK, RowsWritten, AuditTrail, QueueOnLiveActivation,
      HoldersOfLeases, ExclusiveWorker, NoIncident, NoMessage, Idle, MsgId, None,
      IncidentRow, RouteRow, MessageRow, WorkerState, Outcome, ActiveTypes

\* The record updates the transactions make keep a message row well formed.
LEMMA RowUpdates ==
  ASSUME NEW r \in MessageRow
  PROVE  /\ [r EXCEPT !.state = "dead_letter", !.expires = 0] \in MessageRow
         /\ [r EXCEPT !.state = "dead_letter"] \in MessageRow
         /\ [r EXCEPT !.state = "held"] \in MessageRow
         /\ [r EXCEPT !.state = "delivered", !.expires = 0] \in MessageRow
         /\ \A t \in Int :
              [r EXCEPT !.state = "pending", !.expires = 0, !.available = t] \in MessageRow
         /\ \A t \in Int, k \in 0..MaxAttempts :
              [r EXCEPT !.state = "leased", !.attempts = k, !.expires = t] \in MessageRow
<1>1. ASSUME NEW s \in {"dead_letter", "delivered"}, NEW t \in Int
      PROVE  [r EXCEPT !.state = s, !.expires = t] \in MessageRow
  BY DEF MessageRow
<1>2. ASSUME NEW s \in {"dead_letter", "held"}
      PROVE  [r EXCEPT !.state = s] \in MessageRow
  BY DEF MessageRow
<1>3. ASSUME NEW t \in Int, NEW e \in Int
      PROVE  [r EXCEPT !.state = "pending", !.expires = e, !.available = t] \in MessageRow
  BY DEF MessageRow
<1>4. ASSUME NEW t \in Int, NEW k \in 0..MaxAttempts
      PROVE  [r EXCEPT !.state = "leased", !.attempts = k, !.expires = t] \in MessageRow
  BY DEF MessageRow
<1>5. 0 \in Int
  OBVIOUS
<1>6. /\ [r EXCEPT !.state = "dead_letter", !.expires = 0] \in MessageRow
      /\ [r EXCEPT !.state = "delivered", !.expires = 0] \in MessageRow
  BY <1>1, <1>5, Zenon
<1>7. \A t \in Int :
        [r EXCEPT !.state = "pending", !.expires = 0, !.available = t] \in MessageRow
  BY <1>3, <1>5, Zenon
<1>8. /\ [r EXCEPT !.state = "dead_letter"] \in MessageRow
      /\ [r EXCEPT !.state = "held"] \in MessageRow
  BY <1>2, Zenon
<1> QED BY <1>4, <1>6, <1>7, <1>8, Zenon

\* Lease recovery leaves a row alone, gives up an expired lease as ambiguous,
\* or holds a pending recovery message.
LEMMA RecoveredTypes ==
  ASSUME LeaseInv
  PROVE  /\ RecoveredOutbox \in [MsgId -> MessageRow]
         /\ RecoveredDelivery \in [MsgId -> [1..MaxAttempts -> Outcome \cup {"none", "started"}]]
<1> DEFINE o == [n \in MsgId |->
                   IF Expired(n)
                   THEN [outbox[n] EXCEPT !.state = "dead_letter", !.expires = 0]
                   ELSE IF Exhausted(n) THEN [outbox[n] EXCEPT !.state = "dead_letter"]
                   ELSE outbox[n]]
<1>1. \A n \in MsgId : outbox[n] \in MessageRow
  BY DEF LeaseInv, TypeOK
<1>2. o \in [MsgId -> MessageRow]
  BY <1>1, RowUpdates
<1>3. \A n \in MsgId : o[n] \in MessageRow /\ [o[n] EXCEPT !.state = "held"] \in MessageRow
  BY <1>2, RowUpdates
<1>4. RecoveredOutbox = HoldUnreachable(o)
  BY DEF RecoveredOutbox
<1>5. RecoveredOutbox \in [MsgId -> MessageRow]
  BY <1>3, <1>4 DEF HoldUnreachable
<1>6. RecoveredDelivery \in [MsgId -> [1..MaxAttempts -> Outcome \cup {"none", "started"}]]
  BY DEF RecoveredDelivery, LeaseInv, TypeOK, Outcome
<1> QED BY <1>5, <1>6

LEMMA RecoveredRows ==
  ASSUME LeaseInv, NEW m \in MsgId
  PROVE  \/ /\ RecoveredOutbox[m] = outbox[m] /\ ~Expired(m)
            /\ RecoveredDelivery[m] = delivery[m]
         \/ /\ Expired(m)
            /\ RecoveredOutbox[m] = [outbox[m] EXCEPT !.state = "dead_letter", !.expires = 0]
            /\ RecoveredDelivery[m] = [delivery[m] EXCEPT ![outbox[m].attempts] = "ambiguous"]
         \/ /\ outbox[m].state = "pending"
            /\ RecoveredOutbox[m] = [outbox[m] EXCEPT !.state = "held"]
            /\ RecoveredDelivery[m] = delivery[m]
<1> DEFINE o == [n \in MsgId |->
                   IF Expired(n)
                   THEN [outbox[n] EXCEPT !.state = "dead_letter", !.expires = 0]
                   ELSE IF Exhausted(n) THEN [outbox[n] EXCEPT !.state = "dead_letter"]
                   ELSE outbox[n]]
<1>1. ASSUME NEW n \in MsgId PROVE ~Exhausted(n)
  <2>1. outbox[n].attempts \in 0..MaxAttempts
    BY DEF LeaseInv, TypeOK, MessageRow
  <2>2. outbox[n].state = "pending" => outbox[n].attempts < MaxAttempts
    BY DEF LeaseInv, RowsWritten
  <2> QED BY <2>1, <2>2, OutboxAssumption DEF Exhausted
<1>2. outbox[m] \in MessageRow
  BY DEF LeaseInv, TypeOK
<1>3. RecoveredOutbox = HoldUnreachable(o)
  BY DEF RecoveredOutbox
<1>4. CASE Expired(m)
  <2>1. o[m] = [outbox[m] EXCEPT !.state = "dead_letter", !.expires = 0]
    BY <1>4
  <2>2. RecoveredOutbox[m] = o[m]
    BY <1>2, <1>3, <2>1 DEF HoldUnreachable, MessageRow
  <2>3. outbox[m].attempts \in 1..MaxAttempts /\ delivery[m][outbox[m].attempts] = "started"
    BY <1>4, <1>2, OutboxAssumption
    DEF LeaseInv, RowsWritten, AuditTrail, Expired, MessageRow
  <2>4. RecoveredDelivery[m] = [delivery[m] EXCEPT ![outbox[m].attempts] = "ambiguous"]
    BY <1>4, <2>3 DEF RecoveredDelivery, LeaseInv, TypeOK
  <2> QED BY <1>4, <2>1, <2>2, <2>4
<1>5. CASE ~Expired(m)
  <2>1. o[m] = outbox[m]
    BY <1>1, <1>5
  <2>2. RecoveredDelivery[m] = delivery[m]
    BY <1>5 DEF RecoveredDelivery, LeaseInv, TypeOK
  <2>3. \/ RecoveredOutbox[m] = outbox[m]
        \/ outbox[m].state = "pending" /\ RecoveredOutbox[m] = [outbox[m] EXCEPT !.state = "held"]
    BY <1>3, <2>1 DEF HoldUnreachable
  <2> QED BY <1>5, <2>2, <2>3
<1> QED BY <1>4, <1>5

\* What a quiet move does to the fields the invariant is about.
LEMMA QuietFields ==
  ASSUME LeaseInv, NEW m \in MsgId, Quiet(m)
  PROVE  /\ outbox'[m].attempts = outbox[m].attempts
         /\ outbox'[m].activation = outbox[m].activation
         /\ \/ outbox'[m].state = outbox[m].state /\ delivery'[m] = delivery[m]
            \/ /\ outbox[m].state = "leased" /\ outbox'[m].state = "dead_letter"
               /\ outbox[m].attempts \in 1..MaxAttempts
               /\ delivery'[m][outbox[m].attempts] = "ambiguous"
               /\ \A k \in 1..MaxAttempts \ {outbox[m].attempts} :
                    delivery'[m][k] = delivery[m][k]
            \/ /\ outbox[m].state = "pending" /\ outbox'[m].state = "held"
               /\ delivery'[m] = delivery[m]
<1>1. outbox[m] \in MessageRow
  BY DEF LeaseInv, TypeOK
<1>2. CASE Same(m)
  BY <1>2 DEF Same
<1>3. CASE Expire(m)
  <2>1. outbox[m].attempts \in 1..MaxAttempts
    BY <1>1, <1>3, OutboxAssumption DEF LeaseInv, RowsWritten, Expire, MessageRow
  <2>2. delivery[m] \in [1..MaxAttempts -> Outcome \cup {"none", "started"}]
    BY DEF LeaseInv, TypeOK
  <2> QED BY <1>1, <1>3, <2>1, <2>2 DEF Expire, MessageRow
<1>4. CASE Hold(m)
  BY <1>1, <1>4 DEF Hold, MessageRow
<1> QED BY <1>2, <1>3, <1>4 DEF Quiet

\* Quiet moves of all rows, with the workers left alone, keep the invariant;
\* that nothing is left queued under an activation that ended is the route's part.
LEMMA QuietStep ==
  ASSUME LeaseInv, \A m \in MsgId : Quiet(m), UNCHANGED <<rows, worker>>
  PROVE  RowsWritten' /\ AuditTrail' /\ HoldersOfLeases' /\ ExclusiveWorker'
<1>1. \A m \in MsgId :
         /\ outbox'[m].attempts = outbox[m].attempts
         /\ \/ outbox'[m].state = outbox[m].state /\ delivery'[m] = delivery[m]
            \/ /\ outbox[m].state = "leased" /\ outbox'[m].state = "dead_letter"
               /\ outbox[m].attempts \in 1..MaxAttempts
               /\ delivery'[m][outbox[m].attempts] = "ambiguous"
               /\ \A k \in 1..MaxAttempts \ {outbox[m].attempts} :
                    delivery'[m][k] = delivery[m][k]
            \/ /\ outbox[m].state = "pending" /\ outbox'[m].state = "held"
               /\ delivery'[m] = delivery[m]
  BY QuietFields
<1>2. RowsWritten'
  BY <1>1 DEF LeaseInv, RowsWritten, MsgId
<1>3. AuditTrail'
  <2> SUFFICES ASSUME NEW m \in MsgId, NEW k \in 1..MaxAttempts
               PROVE  /\ delivery'[m][k] = "started" <=>
                           outbox'[m].state = "leased" /\ k = outbox'[m].attempts
                      /\ k < outbox'[m].attempts \/ (k = outbox'[m].attempts /\ outbox'[m].state = "pending")
                           => delivery'[m][k] = "retryable_failure"
                      /\ k > outbox'[m].attempts => delivery'[m][k] = "none"
    BY DEF AuditTrail, MsgId
  <2>1. /\ delivery[m][k] = "started" <=> outbox[m].state = "leased" /\ k = outbox[m].attempts
        /\ k < outbox[m].attempts \/ (k = outbox[m].attempts /\ outbox[m].state = "pending")
             => delivery[m][k] = "retryable_failure"
        /\ k > outbox[m].attempts => delivery[m][k] = "none"
    BY DEF LeaseInv, AuditTrail
  <2> QED BY <1>1, <2>1
<1>4. HoldersOfLeases'
  BY <1>1 DEF LeaseInv, HoldersOfLeases, MsgId
<1>5. ExclusiveWorker'
  BY DEF LeaseInv, ExclusiveWorker
<1> QED BY <1>2, <1>3, <1>4, <1>5

-----------------------------------------------------------------------------
(* The route, and passes that claim nothing.                               *)

\* Quarantining what lease recovery left is still a quiet move of every row,
\* and nothing stays queued when no delivery is under way.
LEMMA QuarantinedRows ==
  ASSUME LeaseInv, delivery' = RecoveredDelivery, outbox' = Quarantined(RecoveredOutbox)
  PROVE  /\ \A m \in MsgId : Quiet(m)
         /\ outbox' \in [MsgId -> MessageRow]
         /\ ~InFlight => \A m \in MsgId : outbox'[m].state \notin {"pending", "leased"}
<1>1. RecoveredOutbox \in [MsgId -> MessageRow]
  BY RecoveredTypes
<1>2. \A m \in MsgId : Quiet(m)
  <2> SUFFICES ASSUME NEW m \in MsgId PROVE Quiet(m)
    OBVIOUS
  <2>1. outbox[m] \in MessageRow
    BY DEF LeaseInv, TypeOK
  <2>2. \/ outbox'[m] = RecoveredOutbox[m]
        \/ /\ RecoveredOutbox[m].state = "pending"
           /\ outbox'[m] = [RecoveredOutbox[m] EXCEPT !.state = "held"]
    BY DEF Quarantined
  <2> QED BY <2>1, <2>2, RecoveredRows DEF Quiet, Same, Expire, Hold, Expired, MessageRow
<1>3. outbox' \in [MsgId -> MessageRow]
  <2>1. \A m \in MsgId : RecoveredOutbox[m] \in MessageRow
                        /\ [RecoveredOutbox[m] EXCEPT !.state = "held"] \in MessageRow
    BY <1>1, RowUpdates
  <2> QED BY <2>1 DEF Quarantined
<1>4. ASSUME ~InFlight, NEW m \in MsgId
      PROVE  outbox'[m].state \notin {"pending", "leased"}
  <2>1. RecoveredOutbox[m] \in MessageRow /\ outbox[m] \in MessageRow
    BY <1>1 DEF LeaseInv, TypeOK
  <2>2. RecoveredOutbox[m].state # "leased"
    <3>1. SUFFICES ASSUME RecoveredOutbox[m].state = "leased" PROVE FALSE
      OBVIOUS
    <3>2. outbox[m].state = "leased" /\ RecoveredDelivery[m] = delivery[m]
      BY <3>1, <2>1, RecoveredRows DEF MessageRow
    <3>3. outbox[m].attempts \in 1..MaxAttempts
      BY <3>2, <2>1, OutboxAssumption DEF LeaseInv, RowsWritten, MessageRow
    <3>4. delivery[m][outbox[m].attempts] = "started"
      BY <3>2, <3>3 DEF LeaseInv, AuditTrail
    <3> QED BY <1>4, <3>2, <3>3, <3>4 DEF InFlight
  <2>3. RecoveredOutbox[m].state = "pending" => RecoveredOutbox[m].activation = route.activation
    BY <2>1, RecoveredRows DEF LeaseInv, QueueOnLiveActivation, MessageRow, Expired
  <2> QED BY <2>1, <2>2, <2>3 DEF Quarantined, MessageRow
<1> QED BY <1>2, <1>3, <1>4

LEMMA EnableUnchangedStep ==
  ASSUME LeaseInv, NEW c \in Config, EnableUnchanged(c)
  PROVE  LeaseInv'
<1>1. \A m \in MsgId : Quiet(m)
  BY RecoveredRows DEF EnableUnchanged, Quiet, Same, Expire, Hold, Expired
<1>2. RowsWritten' /\ AuditTrail' /\ HoldersOfLeases' /\ ExclusiveWorker'
  BY <1>1, QuietStep DEF EnableUnchanged
<1>3. TypeOK'
  BY RecoveredTypes DEF LeaseInv, TypeOK, EnableUnchanged, MsgId
<1>4. QueueOnLiveActivation'
  BY <1>1, QuietFields DEF LeaseInv, QueueOnLiveActivation, EnableUnchanged, MsgId
<1> QED BY <1>2, <1>3, <1>4 DEF LeaseInv

LEMMA ClaimNothingStep ==
  ASSUME LeaseInv, NEW w \in Worker, ClaimNothing(w)
  PROVE  LeaseInv'
<1>1. \A m \in MsgId : Quiet(m)
  BY RecoveredRows DEF ClaimNothing, Quiet, Same, Expire, Hold, Expired
<1>2. RowsWritten' /\ AuditTrail' /\ HoldersOfLeases' /\ ExclusiveWorker'
  BY <1>1, QuietStep DEF ClaimNothing
<1>3. TypeOK'
  BY RecoveredTypes DEF LeaseInv, TypeOK, ClaimNothing, MsgId
<1>4. QueueOnLiveActivation'
  BY <1>1, QuietFields DEF LeaseInv, QueueOnLiveActivation, ClaimNothing, MsgId
<1> QED BY <1>2, <1>3, <1>4 DEF LeaseInv

LEMMA EnableRouteStep ==
  ASSUME LeaseInv, NEW c \in Config, EnableRoute(c)
  PROVE  LeaseInv'
<1>1. CASE route.state = "absent"
  \* Nothing was ever queued, so lease recovery finds nothing.
  <2>1. \A m \in MsgId : outbox[m].state \notin {"pending", "leased"}
    BY <1>1 DEF LeaseInv, QueueOnLiveActivation
  <2>2. outbox' = RecoveredOutbox /\ delivery' = RecoveredDelivery
    BY <1>1 DEF EnableRoute
  <2>3. \A m \in MsgId : Quiet(m) /\ outbox'[m].state \notin {"pending", "leased"}
    BY <2>1, <2>2, RecoveredRows DEF Quiet, Same, Expired
  <2>4. RowsWritten' /\ AuditTrail' /\ HoldersOfLeases' /\ ExclusiveWorker'
    BY <2>3, QuietStep DEF EnableRoute
  <2>5. TypeOK'
    BY <2>2, RecoveredTypes, OutboxAssumption
    DEF LeaseInv, TypeOK, EnableRoute, RouteRow, MsgId
  <2>6. QueueOnLiveActivation'
    BY <2>3 DEF QueueOnLiveActivation, MsgId
  <2> QED BY <2>4, <2>5, <2>6 DEF LeaseInv
<1>2. CASE route.state # "absent"
  <2>1. outbox' = Quarantined(RecoveredOutbox) /\ delivery' = RecoveredDelivery /\ ~InFlight
    BY <1>2 DEF EnableRoute
  <2>2. RowsWritten' /\ AuditTrail' /\ HoldersOfLeases' /\ ExclusiveWorker'
    BY <2>1, QuarantinedRows, QuietStep DEF EnableRoute
  <2>3. TypeOK'
    BY <2>1, RecoveredTypes, QuarantinedRows, OutboxAssumption, SMTT(30)
    DEF LeaseInv, TypeOK, EnableRoute, RouteRow, MsgId
  <2>4. QueueOnLiveActivation'
    BY <2>1, QuarantinedRows DEF QueueOnLiveActivation, MsgId
  <2> QED BY <2>2, <2>3, <2>4 DEF LeaseInv
<1> QED BY <1>1, <1>2

LEMMA DisableRouteStep ==
  ASSUME LeaseInv, DisableRoute
  PROVE  LeaseInv'
<1>1. CASE route.state = "enabled"
  <2>1. outbox' = Quarantined(RecoveredOutbox) /\ delivery' = RecoveredDelivery /\ ~InFlight
    BY <1>1 DEF DisableRoute
  <2>2. RowsWritten' /\ AuditTrail' /\ HoldersOfLeases' /\ ExclusiveWorker'
    BY <2>1, QuarantinedRows, QuietStep DEF DisableRoute
  <2>3. TypeOK'
    BY <2>1, RecoveredTypes, QuarantinedRows
    DEF LeaseInv, TypeOK, DisableRoute, RouteRow, MsgId
  <2>4. QueueOnLiveActivation'
    BY <2>1, QuarantinedRows DEF QueueOnLiveActivation, MsgId
  <2> QED BY <2>2, <2>3, <2>4 DEF LeaseInv
<1>2. CASE route.state # "enabled"
  <2>1. \A m \in MsgId : outbox[m].state \notin {"pending", "leased"}
    BY <1>2 DEF LeaseInv, QueueOnLiveActivation
  <2>2. outbox' = RecoveredOutbox /\ delivery' = RecoveredDelivery
    BY <1>2 DEF DisableRoute
  <2>3. \A m \in MsgId : Quiet(m) /\ outbox'[m].state \notin {"pending", "leased"}
    BY <2>1, <2>2, RecoveredRows DEF Quiet, Same, Expired
  <2>4. RowsWritten' /\ AuditTrail' /\ HoldersOfLeases' /\ ExclusiveWorker'
    BY <2>3, QuietStep DEF DisableRoute
  <2>5. TypeOK'
    BY <2>2, RecoveredTypes DEF LeaseInv, TypeOK, DisableRoute, RouteRow, MsgId
  <2>6. QueueOnLiveActivation'
    BY <2>3 DEF QueueOnLiveActivation, MsgId
  <2> QED BY <2>4, <2>5, <2>6 DEF LeaseInv
<1> QED BY <1>1, <1>2

-----------------------------------------------------------------------------
(* Incident transitions.                                                   *)

\* The new row is held, or queued under the activation that is enabled.
LEMMA EnqueueStep ==
  ASSUME LeaseInv, NEW i \in Incident, NEW r \in IncidentRow,
         NEW type \in ActiveTypes \cup {"resolved"},
         Enqueue(i, r, type),
         UNCHANGED <<route, delivery, worker>>
  PROVE  /\ rows' \in 0..MaxMessages /\ outbox' \in [MsgId -> MessageRow]
         /\ RowsWritten' /\ AuditTrail' /\ QueueOnLiveActivation'
         /\ HoldersOfLeases' /\ ExclusiveWorker'
<1>1. PICK dep \in (IF type = "resolved" THEN RecoveryDependency(i) ELSE {None}) :
        outbox' = [outbox EXCEPT ![rows + 1] =
          [state |-> IF route.state # "enabled" \/ (type = "resolved" /\ dep = None)
                     THEN "held" ELSE "pending",
           incident |-> i, type |-> type,
           severity |-> IF type = "resolved" THEN 0 ELSE r.severity,
           cycle |-> r.cycle,
           activation |-> IF route.state = "enabled" THEN route.activation ELSE None,
           dep |-> dep, created |-> clock, available |-> clock,
           expires |-> 0, attempts |-> 0]]
  BY DEF Enqueue
<1> DEFINE new == outbox'[rows + 1]
<1>2. dep \in 0..MaxMessages
  <2>1. dep = None \/ dep \in MsgId
    BY DEF RecoveryDependency, Newest, ActiveCandidates
  <2> QED BY <2>1, OutboxAssumption DEF MsgId, None
<1>3. rows + 1 \in MsgId /\ rows' = rows + 1 /\ rows \in 0..MaxMessages
  BY OutboxAssumption DEF Enqueue, MsgId, LeaseInv, TypeOK
<1>4. /\ \A m \in MsgId \ {rows + 1} : outbox'[m] = outbox[m]
      /\ new.state \in {"held", "pending"} /\ new.attempts = 0
      /\ new.state = "pending" => route.state = "enabled" /\ new.activation = route.activation
  BY <1>1, <1>3 DEF LeaseInv, TypeOK
<1>5. new \in MessageRow
  <2>1. /\ clock \in Int /\ route.activation \in 0..MaxActivations
        /\ r.severity \in 0..2 /\ r.cycle \in Nat /\ 0 \in 0..2 /\ 0 \in Int
        /\ None \in 0..MaxActivations /\ 0 \in 0..MaxAttempts
    BY OutboxAssumption DEF LeaseInv, TypeOK, RouteRow, IncidentRow, None
  <2> QED BY <1>1, <1>2, <1>3, <2>1 DEF MessageRow, LeaseInv, TypeOK
<1>6. outbox' \in [MsgId -> MessageRow]
  BY <1>1, <1>3, <1>5 DEF LeaseInv, TypeOK
<1>7. outbox[rows + 1].state = "absent" /\ outbox[rows + 1].attempts = 0
  BY <1>3 DEF LeaseInv, RowsWritten
<1>8. RowsWritten'
  <2> SUFFICES ASSUME NEW m \in MsgId
               PROVE  /\ outbox'[m].state = "absent" <=> m > rows'
                      /\ outbox'[m].state = "absent" => outbox'[m].attempts = 0
                      /\ outbox'[m].state = "pending" => outbox'[m].attempts < MaxAttempts
                      /\ outbox'[m].state \in {"leased", "dead_letter"} =>
                           outbox'[m].attempts > 0
    BY DEF RowsWritten, MsgId
  <2>1. CASE m = rows + 1
    BY <2>1, <1>3, <1>4, OutboxAssumption
  <2>2. CASE m # rows + 1
    BY <2>2, <1>3, <1>4 DEF LeaseInv, RowsWritten, MsgId
  <2> QED BY <2>1, <2>2
<1>9. AuditTrail'
  <2>1. \A m \in MsgId : \/ outbox'[m] = outbox[m]
                         \/ /\ outbox'[m].attempts = outbox[m].attempts
                            /\ outbox[m].state # "leased" /\ outbox'[m].state # "leased"
                            /\ outbox[m].attempts = 0
    BY <1>4, <1>7
  <2> QED BY <2>1 DEF LeaseInv, AuditTrail, MsgId
<1>10. QueueOnLiveActivation'
  BY <1>4 DEF LeaseInv, QueueOnLiveActivation, MsgId
<1>11. HoldersOfLeases'
  BY <1>4, <1>7 DEF LeaseInv, HoldersOfLeases, MsgId
<1>12. ExclusiveWorker'
  BY DEF LeaseInv, ExclusiveWorker
<1>13. rows' \in 0..MaxMessages
  BY <1>3 DEF MsgId
<1> QED BY <1>6, <1>8, <1>9, <1>10, <1>11, <1>12, <1>13

LEMMA EnqueueUnlessQuietStep ==
  ASSUME LeaseInv, NEW i \in Incident, NEW r \in IncidentRow,
         NEW type \in ActiveTypes \cup {"resolved", "none"},
         EnqueueUnlessQuiet(i, r, type), UNCHANGED <<route, delivery, worker>>
  PROVE  /\ rows' \in 0..MaxMessages /\ outbox' \in [MsgId -> MessageRow]
         /\ RowsWritten' /\ AuditTrail' /\ QueueOnLiveActivation'
         /\ HoldersOfLeases' /\ ExclusiveWorker'
<1>1. CASE r.notify /\ type # "none"
  BY <1>1, EnqueueStep DEF EnqueueUnlessQuiet
<1>2. CASE ~(r.notify /\ type # "none")
  <2>1. UNCHANGED <<rows, outbox, route, delivery, worker>>
    BY <1>2 DEF EnqueueUnlessQuiet
  <2> QED BY <2>1 DEF LeaseInv, TypeOK, RowsWritten, AuditTrail,
              QueueOnLiveActivation, HoldersOfLeases, ExclusiveWorker, MsgId
<1> QED BY <1>1, <1>2

LEMMA EmitStep ==
  ASSUME LeaseInv, NEW i \in Incident, NEW s \in Severities, NEW n \in BOOLEAN,
         Emit(i, s, n)
  PROVE  LeaseInv'
<1> DEFINE old == incident[i]
           severity == IF old.state = "absent" THEN s ELSE MaxOf(old.severity, s)
           newCycle == old.state # "open"
           type == IF old.state = "absent" THEN "opened"
                   ELSE IF newCycle THEN "reopened"
                   ELSE IF severity # old.severity THEN "escalated" ELSE "none"
           anchor == IF old.state = "absent" THEN clock
                     ELSE IF newCycle THEN MaxOf(old.anchor, clock) ELSE old.anchor
           r == [state |-> "open", severity |-> severity, anchor |-> anchor,
                 notify |-> IF old.state = "absent" THEN n ELSE old.notify,
                 cycle |-> IF newCycle THEN old.cycle + 1 ELSE old.cycle]
<1>1. old \in IncidentRow /\ clock \in Int /\ s \in 0..2
  BY OutboxAssumption DEF LeaseInv, TypeOK
<1>2. /\ severity \in 0..2 /\ anchor \in Int
      /\ (IF newCycle THEN old.cycle + 1 ELSE old.cycle) \in Nat
      /\ (IF old.state = "absent" THEN n ELSE old.notify) \in BOOLEAN
  BY <1>1 DEF MaxOf, IncidentRow
<1>3. r \in IncidentRow
  BY <1>2 DEF IncidentRow
<1>4. type \in ActiveTypes \cup {"resolved", "none"}
  BY DEF ActiveTypes
<1>5. /\ incident' = [incident EXCEPT ![i] = r] /\ EnqueueUnlessQuiet(i, r, type)
      /\ UNCHANGED <<clock, backSteps, route, delivery, worker, copies>>
  BY DEF Emit
<1> HIDE DEF r, type
<1>6. /\ rows' \in 0..MaxMessages /\ outbox' \in [MsgId -> MessageRow]
      /\ RowsWritten' /\ AuditTrail' /\ QueueOnLiveActivation'
      /\ HoldersOfLeases' /\ ExclusiveWorker'
  BY <1>3, <1>4, <1>5, EnqueueUnlessQuietStep
<1>7. TypeOK'
  BY <1>3, <1>5, <1>6 DEF LeaseInv, TypeOK, MsgId
<1> QED BY <1>6, <1>7 DEF LeaseInv

LEMMA ResolveStep ==
  ASSUME LeaseInv, NEW i \in Incident, Resolve(i)
  PROVE  LeaseInv'
<1>1. incident[i] \in IncidentRow
  BY DEF LeaseInv, TypeOK
<1>2. /\ rows' \in 0..MaxMessages /\ outbox' \in [MsgId -> MessageRow]
      /\ RowsWritten' /\ AuditTrail' /\ QueueOnLiveActivation'
      /\ HoldersOfLeases' /\ ExclusiveWorker'
  BY <1>1, EnqueueUnlessQuietStep DEF Resolve
<1>3. [incident[i] EXCEPT !.state = "resolved"] \in IncidentRow
  BY <1>1 DEF IncidentRow
<1>4. TypeOK'
  BY <1>2, <1>3 DEF LeaseInv, TypeOK, Resolve, MsgId
<1> QED BY <1>2, <1>4 DEF LeaseInv

LEMMA AcknowledgeStep ==
  ASSUME LeaseInv, NEW i \in Incident, Acknowledge(i)
  PROVE  LeaseInv'
<1>1. incident' \in [Incident -> IncidentRow]
  BY DEF LeaseInv, TypeOK, Acknowledge, IncidentRow
<1>2. UNCHANGED <<clock, backSteps, route, rows, outbox, delivery, worker, copies>>
  BY DEF Acknowledge
<1> QED BY <1>1, <1>2 DEF LeaseInv, TypeOK, RowsWritten, AuditTrail, QueueOnLiveActivation,
                          HoldersOfLeases, ExclusiveWorker, MsgId

-----------------------------------------------------------------------------
(* Workers.                                                                *)

\* A worker that moves on with its message, or drops it, while the ledger
\* stays as it is.
LEMMA WorkerMove ==
  ASSUME LeaseInv, NEW w \in Worker, NEW x \in WorkerState,
         worker' = [worker EXCEPT ![w] = x],
         UNCHANGED <<clock, backSteps, ledger>>,
         copies' \in [MsgId -> Nat],
         \/ x.pc = "idle"
         \/ /\ worker[w].pc # "idle" /\ x.msg = worker[w].msg
            /\ x.attempt = worker[w].attempt
            /\ x.pc = "reporting" => x.outcome \in Outcome
  PROVE  LeaseInv'
<1>1. UNCHANGED <<clock, backSteps, incident, route, rows, outbox, delivery>>
  BY DEF ledger
<1>2. worker' \in [Worker -> WorkerState] /\ worker'[w] = x
      /\ \A v \in Worker \ {w} : worker'[v] = worker[v]
  BY DEF LeaseInv, TypeOK
<1>3. TypeOK'
  BY <1>1, <1>2 DEF LeaseInv, TypeOK, MsgId
<1>4. RowsWritten' /\ AuditTrail' /\ QueueOnLiveActivation'
  BY <1>1 DEF LeaseInv, RowsWritten, AuditTrail, QueueOnLiveActivation, MsgId
<1>5. HoldersOfLeases'
  BY <1>1, <1>2 DEF LeaseInv, HoldersOfLeases, MsgId
<1>6. ExclusiveWorker'
  BY <1>2 DEF LeaseInv, ExclusiveWorker
<1> QED BY <1>3, <1>4, <1>5, <1>6 DEF LeaseInv

LEMMA GotoStep ==
  ASSUME LeaseInv, NEW w \in Worker, worker[w].pc # "idle",
         NEW pc \in {"sending", "accepted", "reporting"},
         NEW o \in Outcome \cup {"none"}, pc = "reporting" => o \in Outcome,
         Goto(w, pc, o), UNCHANGED <<clock, backSteps, ledger>>,
         copies' \in [MsgId -> Nat]
  PROVE  LeaseInv'
<1> DEFINE x == [worker[w] EXCEPT !.pc = pc, !.outcome = o]
<1>1. worker[w] \in WorkerState
  BY DEF LeaseInv, TypeOK
<1>2. /\ x \in WorkerState /\ x.msg = worker[w].msg /\ x.attempt = worker[w].attempt
      /\ x.pc = "reporting" => x.outcome \in Outcome
  BY <1>1 DEF WorkerState
<1>3. worker' = [worker EXCEPT ![w] = x]
  BY DEF Goto
<1> HIDE DEF x
<1> QED BY <1>2, <1>3, WorkerMove

LEMMA SmtpLeaseStep ==
  ASSUME LeaseInv, NEW w \in Worker, SmtpStep(w)
  PROVE  LeaseInv'
<1>1. copies \in [MsgId -> Nat]
  BY DEF LeaseInv, TypeOK
<1>2. CASE ConnectFails(w)
  BY <1>1, <1>2, GotoStep DEF ConnectFails, Outcome
<1>3. CASE StartSend(w)
  BY <1>1, <1>3, GotoStep DEF StartSend, Outcome
<1>4. CASE Accepted(w)
  <2>1. copies' \in [MsgId -> Nat]
    BY <1>1, <1>4 DEF Accepted, LeaseInv, HoldersOfLeases
  <2> QED BY <2>1, <1>4, GotoStep DEF Accepted, Outcome
<1>5. CASE Refused(w)
  BY <1>1, <1>5, GotoStep DEF Refused, Outcome
<1>6. CASE LinkLost(w)
  <2>1. copies' \in [MsgId -> Nat]
    BY <1>1, <1>6 DEF LinkLost, LeaseInv, HoldersOfLeases
  <2> QED BY <2>1, <1>6, GotoStep DEF LinkLost, LostInSend, Outcome
<1>7. CASE Quit(w)
  <2>1. PICK a \in QuitAnswers : Goto(w, "reporting", QuitOutcome(a))
    BY <1>7 DEF Quit
  <2>2. QuitOutcome(a) \in Outcome
    BY OutboxAssumption DEF QuitOutcome, Outcome
  <2> QED BY <1>1, <1>7, <2>1, <2>2, GotoStep DEF Quit
<1> QED BY <1>2, <1>3, <1>4, <1>5, <1>6, <1>7 DEF SmtpStep

LEMMA DropStep ==
  ASSUME LeaseInv, NEW w \in Worker, CompletionRefused(w) \/ Crash(w)
  PROVE  LeaseInv'
<1>1. /\ worker' = [worker EXCEPT ![w] = Idle]
      /\ UNCHANGED <<clock, backSteps, ledger, copies>>
  BY DEF CompletionRefused, Crash
<1>2. Idle \in WorkerState /\ Idle.pc = "idle"
  BY OutboxAssumption DEF Idle, WorkerState, None
<1>3. copies' \in [MsgId -> Nat]
  BY <1>1 DEF LeaseInv, TypeOK
<1> HIDE DEF Idle
<1> QED BY <1>1, <1>2, <1>3, WorkerMove

\* A claim leases one queued message after lease recovery of all rows.
LEMMA ClaimRows ==
  ASSUME LeaseInv, NEW w \in Worker, Claim(w)
  PROVE  \E m \in MsgId : \E k \in 1..MaxAttempts :
           /\ outbox[m].state = "pending" /\ k = outbox[m].attempts + 1
           /\ outbox'[m] = [outbox[m] EXCEPT !.state = "leased", !.attempts = k,
                                            !.expires = clock + LeaseTicks]
           /\ delivery'[m] = [delivery[m] EXCEPT ![k] = "started"]
           /\ \A n \in MsgId \ {m} : Quiet(n)
           /\ outbox' \in [MsgId -> MessageRow]
           /\ delivery' \in [MsgId -> [1..MaxAttempts -> Outcome \cup {"none", "started"}]]
           /\ worker' = [worker EXCEPT ![w] =
                [pc |-> "connecting", msg |-> m, attempt |-> k, outcome |-> "none"]]
<1>1. PICK m \in FirstDue(RecoveredOutbox) :
        /\ outbox' = [RecoveredOutbox EXCEPT
             ![m] = [@ EXCEPT !.state = "leased", !.attempts = RecoveredOutbox[m].attempts + 1,
                              !.expires = clock + LeaseTicks]]
        /\ delivery' = [RecoveredDelivery EXCEPT
             ![m][RecoveredOutbox[m].attempts + 1] = "started"]
        /\ worker' = [worker EXCEPT ![w] =
             [pc |-> "connecting", msg |-> m, attempt |-> RecoveredOutbox[m].attempts + 1,
              outcome |-> "none"]]
  BY DEF Claim
<1> DEFINE k == outbox[m].attempts + 1
<1>2. m \in MsgId /\ RecoveredOutbox[m].state = "pending"
      /\ RecoveredOutbox[m].attempts < MaxAttempts
  BY DEF FirstDue, Due
<1>3. /\ RecoveredOutbox \in [MsgId -> MessageRow]
      /\ RecoveredDelivery \in [MsgId -> [1..MaxAttempts -> Outcome \cup {"none", "started"}]]
      /\ outbox[m] \in MessageRow
  BY <1>2, RecoveredTypes DEF LeaseInv, TypeOK
<1>4. RecoveredOutbox[m] = outbox[m] /\ RecoveredDelivery[m] = delivery[m]
  BY <1>2, <1>3, RecoveredRows DEF MessageRow, Expired
<1>5. k \in 1..MaxAttempts /\ outbox[m].state = "pending"
  BY <1>2, <1>3, <1>4, OutboxAssumption DEF MessageRow
<1>6. /\ outbox' = [RecoveredOutbox EXCEPT
           ![m] = [outbox[m] EXCEPT !.state = "leased", !.attempts = k,
                                    !.expires = clock + LeaseTicks]]
      /\ delivery' = [RecoveredDelivery EXCEPT ![m] = [delivery[m] EXCEPT ![k] = "started"]]
  BY <1>1, <1>2, <1>3, <1>4
<1>7. [outbox[m] EXCEPT !.state = "leased", !.attempts = k,
                        !.expires = clock + LeaseTicks] \in MessageRow
  <2>1. clock + LeaseTicks \in Int /\ k \in 0..MaxAttempts
    BY <1>5, OutboxAssumption DEF LeaseInv, TypeOK
  <2> QED BY <2>1, <1>3, RowUpdates
<1>8. [delivery[m] EXCEPT ![k] = "started"]
        \in [1..MaxAttempts -> Outcome \cup {"none", "started"}]
  BY <1>2, <1>5 DEF LeaseInv, TypeOK
<1>9. /\ outbox' \in [MsgId -> MessageRow]
      /\ delivery' \in [MsgId -> [1..MaxAttempts -> Outcome \cup {"none", "started"}]]
      /\ outbox'[m] = [outbox[m] EXCEPT !.state = "leased", !.attempts = k,
                                        !.expires = clock + LeaseTicks]
      /\ delivery'[m] = [delivery[m] EXCEPT ![k] = "started"]
      /\ \A n \in MsgId \ {m} : outbox'[n] = RecoveredOutbox[n]
                               /\ delivery'[n] = RecoveredDelivery[n]
  BY <1>2, <1>3, <1>6, <1>7, <1>8
<1>10. \A n \in MsgId \ {m} : Quiet(n)
  BY <1>9, RecoveredRows DEF Quiet, Same, Expire, Hold, Expired
<1> QED BY <1>1, <1>2, <1>4, <1>5, <1>9, <1>10

LEMMA ClaimStep ==
  ASSUME LeaseInv, NEW w \in Worker, Claim(w)
  PROVE  LeaseInv'
<1>1. PICK m \in MsgId, k \in 1..MaxAttempts :
           /\ outbox[m].state = "pending" /\ k = outbox[m].attempts + 1
           /\ outbox'[m] = [outbox[m] EXCEPT !.state = "leased", !.attempts = k,
                                            !.expires = clock + LeaseTicks]
           /\ delivery'[m] = [delivery[m] EXCEPT ![k] = "started"]
           /\ \A n \in MsgId \ {m} : Quiet(n)
           /\ outbox' \in [MsgId -> MessageRow]
           /\ delivery' \in [MsgId -> [1..MaxAttempts -> Outcome \cup {"none", "started"}]]
           /\ worker' = [worker EXCEPT ![w] =
                [pc |-> "connecting", msg |-> m, attempt |-> k, outcome |-> "none"]]
  BY ClaimRows
<1>2. /\ UNCHANGED <<clock, backSteps, incident, route, rows, copies>>
      /\ worker[w].pc = "idle" /\ route.state = "enabled"
  BY DEF Claim
<1>3. outbox[m] \in MessageRow /\ outbox[m].activation = route.activation
  BY <1>1 DEF LeaseInv, TypeOK, QueueOnLiveActivation
<1>4. /\ outbox'[m].state = "leased" /\ outbox'[m].attempts = k
      /\ outbox'[m].activation = outbox[m].activation
      /\ delivery'[m][k] = "started"
      /\ \A j \in 1..MaxAttempts \ {k} : delivery'[m][j] = delivery[m][j]
  <2>1. delivery[m] \in [1..MaxAttempts -> Outcome \cup {"none", "started"}]
    BY DEF LeaseInv, TypeOK
  <2>2. /\ outbox'[m].state = "leased" /\ outbox'[m].attempts = k
        /\ outbox'[m].activation = outbox[m].activation
    BY <1>1, <1>3 DEF MessageRow
  <2> QED BY <1>1, <2>1, <2>2
<1>5. \A n \in MsgId \ {m} :
         /\ outbox'[n].attempts = outbox[n].attempts
         /\ outbox'[n].activation = outbox[n].activation
         /\ \/ outbox'[n].state = outbox[n].state /\ delivery'[n] = delivery[n]
            \/ /\ outbox[n].state = "leased" /\ outbox'[n].state = "dead_letter"
               /\ outbox[n].attempts \in 1..MaxAttempts
               /\ delivery'[n][outbox[n].attempts] = "ambiguous"
               /\ \A j \in 1..MaxAttempts \ {outbox[n].attempts} :
                    delivery'[n][j] = delivery[n][j]
            \/ /\ outbox[n].state = "pending" /\ outbox'[n].state = "held"
               /\ delivery'[n] = delivery[n]
  BY <1>1, QuietFields
<1>6. TypeOK'
  <2>1. [pc |-> "connecting", msg |-> m, attempt |-> k, outcome |-> "none"] \in WorkerState
    BY DEF WorkerState, MsgId
  <2> QED BY <1>1, <1>2, <2>1 DEF LeaseInv, TypeOK, MsgId
<1>7. RowsWritten'
  <2> SUFFICES ASSUME NEW n \in MsgId
               PROVE  /\ outbox'[n].state = "absent" <=> n > rows'
                      /\ outbox'[n].state = "absent" => outbox'[n].attempts = 0
                      /\ outbox'[n].state = "pending" => outbox'[n].attempts < MaxAttempts
                      /\ outbox'[n].state \in {"leased", "dead_letter"} =>
                           outbox'[n].attempts > 0
    BY DEF RowsWritten, MsgId
  <2>1. CASE n = m
    BY <2>1, <1>1, <1>2, <1>4 DEF LeaseInv, RowsWritten
  <2>2. CASE n # m
    BY <2>2, <1>2, <1>5 DEF LeaseInv, RowsWritten
  <2> QED BY <2>1, <2>2
<1>8. AuditTrail'
  <2> SUFFICES ASSUME NEW n \in MsgId, NEW j \in 1..MaxAttempts
               PROVE  /\ delivery'[n][j] = "started" <=>
                           outbox'[n].state = "leased" /\ j = outbox'[n].attempts
                      /\ j < outbox'[n].attempts \/ (j = outbox'[n].attempts /\ outbox'[n].state = "pending")
                           => delivery'[n][j] = "retryable_failure"
                      /\ j > outbox'[n].attempts => delivery'[n][j] = "none"
    BY DEF AuditTrail, MsgId
  <2>1. /\ delivery[n][j] = "started" <=> outbox[n].state = "leased" /\ j = outbox[n].attempts
        /\ j < outbox[n].attempts \/ (j = outbox[n].attempts /\ outbox[n].state = "pending")
             => delivery[n][j] = "retryable_failure"
        /\ j > outbox[n].attempts => delivery[n][j] = "none"
    BY DEF LeaseInv, AuditTrail
  <2>2. CASE n = m
    <3>1. outbox[m].attempts \in Int /\ j \in Int /\ k = outbox[m].attempts + 1
      BY <1>1, <1>3 DEF MessageRow
    <3>2. j < outbox[m].attempts \/ j = outbox[m].attempts => delivery[m][j] = "retryable_failure"
      BY <1>1, <2>1, <2>2
    <3>3. CASE j = k
      BY <3>1, <3>3, <1>4, <2>2
    <3>4. CASE j # k
      <4>1. delivery'[m][j] = delivery[m][j] /\ delivery[m][j] # "started"
        BY <3>4, <1>1, <1>4, <2>1, <2>2
      <4>2. j < k => delivery[m][j] = "retryable_failure"
        BY <3>1, <3>2
      <4>3. j > k => delivery[m][j] = "none"
        BY <3>1, <2>1, <2>2
      <4> QED BY <4>1, <4>2, <4>3, <1>4, <2>2, <3>4
    <3> QED BY <3>3, <3>4
  <2>3. CASE n # m
    BY <2>1, <2>3, <1>5
  <2> QED BY <2>2, <2>3
<1>9. QueueOnLiveActivation'
  BY <1>2, <1>3, <1>4, <1>5 DEF LeaseInv, QueueOnLiveActivation, MsgId
<1>10. \A v \in Worker \ {w} : worker'[v] = worker[v]
       /\ (worker[v].pc # "idle" => worker[v].msg \in MsgId \ {m})
  BY <1>1 DEF LeaseInv, TypeOK, HoldersOfLeases
<1>11. worker'[w] = [pc |-> "connecting", msg |-> m, attempt |-> k, outcome |-> "none"]
  BY <1>1 DEF LeaseInv, TypeOK
<1>12. HoldersOfLeases'
  BY <1>4, <1>5, <1>10, <1>11, SMTT(30) DEF LeaseInv, HoldersOfLeases, MsgId
<1>13. ExclusiveWorker'
  BY <1>10, <1>11 DEF LeaseInv, ExclusiveWorker
<1> QED BY <1>6, <1>7, <1>8, <1>9, <1>12, <1>13 DEF LeaseInv

\* A completed attempt settles its message or queues it again; the other rows
\* move quietly.
LEMMA CompleteRows ==
  ASSUME LeaseInv, NEW w \in Worker, Complete(w)
  PROVE  LET m == worker[w].msg
             k == worker[w].attempt
         IN  /\ m \in MsgId /\ k \in 1..MaxAttempts /\ worker[w].outcome \in Outcome
             /\ outbox[m].state = "leased" /\ outbox[m].attempts = k
             /\ outbox'[m] = CompletedRow(outbox[m], worker[w].outcome, k)
             /\ delivery' = [delivery EXCEPT ![m][k] = worker[w].outcome]
             /\ \A n \in MsgId \ {m} : Quiet(n)
             /\ outbox' \in [MsgId -> MessageRow]
<1> DEFINE m == worker[w].msg
           k == worker[w].attempt
           row == CompletedRow(outbox[m], worker[w].outcome, k)
           o == [outbox EXCEPT ![m] = row]
<1>1. /\ m \in MsgId /\ worker[w].outcome \in Outcome
      /\ outbox[m].state = "leased" /\ outbox[m].attempts = k
  BY DEF Complete, OwnsLease, LeaseInv, HoldersOfLeases
<1>2. outbox \in [MsgId -> MessageRow] /\ outbox[m] \in MessageRow
  BY <1>1 DEF LeaseInv, TypeOK
<1>3. k \in 1..MaxAttempts
  BY <1>1, <1>2, OutboxAssumption DEF LeaseInv, RowsWritten, MessageRow
<1>4. row \in MessageRow
  <2>1. RetryAt(k) \in Int
    BY <1>3, OutboxAssumption DEF RetryAt, LeaseInv, TypeOK
  <2> QED BY <1>2, <2>1, RowUpdates DEF CompletedRow
<1>5. o \in [MsgId -> MessageRow] /\ o[m] = row
      /\ \A n \in MsgId \ {m} : o[n] = outbox[n]
  BY <1>1, <1>2, <1>4
<1>6. /\ outbox' = IF o[m].state = "dead_letter" THEN HoldUnreachable(o) ELSE o
      /\ delivery' = [delivery EXCEPT ![m][k] = worker[w].outcome]
  BY DEF Complete
<1>7. outbox' \in [MsgId -> MessageRow] /\ outbox'[m] = row
      /\ \A n \in MsgId \ {m} :
           \/ outbox'[n] = outbox[n]
           \/ outbox[n].state = "pending" /\ outbox'[n] = [outbox[n] EXCEPT !.state = "held"]
  <2>1. CASE o[m].state = "dead_letter"
    <3>1. \A n \in MsgId : o[n] \in MessageRow /\ [o[n] EXCEPT !.state = "held"] \in MessageRow
      BY <1>5, RowUpdates
    <3>2. outbox' = HoldUnreachable(o)
      BY <2>1, <1>6
    <3> HIDE DEF o
    <3>3. HoldUnreachable(o) \in [MsgId -> MessageRow]
      BY <3>1 DEF HoldUnreachable
    <3>4. \A n \in MsgId :
            \/ HoldUnreachable(o)[n] = o[n]
            \/ o[n].state = "pending"
               /\ HoldUnreachable(o)[n] = [o[n] EXCEPT !.state = "held"]
      BY DEF HoldUnreachable
    <3> QED BY <1>1, <1>5, <2>1, <3>2, <3>3, <3>4
  <2>2. CASE o[m].state # "dead_letter"
    BY <2>2, <1>5, <1>6
  <2> QED BY <2>1, <2>2
<1>8. \A n \in MsgId \ {m} : delivery'[n] = delivery[n]
  BY <1>6 DEF LeaseInv, TypeOK
<1>9. \A n \in MsgId \ {m} : Quiet(n)
  BY <1>7, <1>8 DEF Quiet, Same, Hold
<1> QED BY <1>1, <1>3, <1>6, <1>7, <1>9

LEMMA CompleteStep ==
  ASSUME LeaseInv, NEW w \in Worker, Complete(w)
  PROVE  LeaseInv'
<1> DEFINE m == worker[w].msg
           k == worker[w].attempt
           oc == worker[w].outcome
<1>1. /\ m \in MsgId /\ k \in 1..MaxAttempts /\ oc \in Outcome
      /\ outbox[m].state = "leased" /\ outbox[m].attempts = k
      /\ outbox'[m] = CompletedRow(outbox[m], oc, k)
      /\ delivery' = [delivery EXCEPT ![m][k] = oc]
      /\ \A n \in MsgId \ {m} : Quiet(n)
      /\ outbox' \in [MsgId -> MessageRow]
  BY CompleteRows
<1>2. /\ worker' = [worker EXCEPT ![w] = Idle]
      /\ UNCHANGED <<clock, backSteps, incident, route, rows, copies>>
      /\ worker[w].pc = "reporting"
  BY DEF Complete
<1> HIDE DEF m, k, oc
<1>3. outbox[m] \in MessageRow
      /\ delivery \in [MsgId -> [1..MaxAttempts -> Outcome \cup {"none", "started"}]]
  BY <1>1 DEF LeaseInv, TypeOK
<1>4. /\ outbox'[m].attempts = k /\ outbox'[m].activation = outbox[m].activation
      /\ \/ outbox'[m].state \in {"delivered", "dead_letter"}
         \/ outbox'[m].state = "pending" /\ oc = "retryable_failure" /\ k < MaxAttempts
  BY <1>1, <1>3 DEF CompletedRow, MessageRow
<1>5. /\ delivery' \in [MsgId -> [1..MaxAttempts -> Outcome \cup {"none", "started"}]]
      /\ delivery'[m][k] = oc
      /\ \A j \in 1..MaxAttempts \ {k} : delivery'[m][j] = delivery[m][j]
  BY <1>1, <1>3
<1>6. \A n \in MsgId \ {m} :
         /\ outbox'[n].attempts = outbox[n].attempts
         /\ outbox'[n].activation = outbox[n].activation
         /\ \/ outbox'[n].state = outbox[n].state /\ delivery'[n] = delivery[n]
            \/ /\ outbox[n].state = "leased" /\ outbox'[n].state = "dead_letter"
               /\ outbox[n].attempts \in 1..MaxAttempts
               /\ delivery'[n][outbox[n].attempts] = "ambiguous"
               /\ \A j \in 1..MaxAttempts \ {outbox[n].attempts} :
                    delivery'[n][j] = delivery[n][j]
            \/ /\ outbox[n].state = "pending" /\ outbox'[n].state = "held"
               /\ delivery'[n] = delivery[n]
  BY <1>1, QuietFields
<1>7. Idle \in WorkerState /\ Idle.pc = "idle"
  BY OutboxAssumption DEF Idle, WorkerState, None
<1>8. TypeOK'
  <2> HIDE DEF Idle
  <2> QED BY <1>1, <1>2, <1>5, <1>7 DEF LeaseInv, TypeOK, MsgId
<1>9. RowsWritten'
  <2> SUFFICES ASSUME NEW n \in MsgId
               PROVE  /\ outbox'[n].state = "absent" <=> n > rows'
                      /\ outbox'[n].state = "absent" => outbox'[n].attempts = 0
                      /\ outbox'[n].state = "pending" => outbox'[n].attempts < MaxAttempts
                      /\ outbox'[n].state \in {"leased", "dead_letter"} =>
                           outbox'[n].attempts > 0
    BY DEF RowsWritten, MsgId
  <2>1. CASE n = m
    BY <2>1, <1>1, <1>2, <1>4 DEF LeaseInv, RowsWritten
  <2>2. CASE n # m
    BY <2>2, <1>2, <1>6 DEF LeaseInv, RowsWritten
  <2> QED BY <2>1, <2>2
<1>10. AuditTrail'
  <2> SUFFICES ASSUME NEW n \in MsgId, NEW j \in 1..MaxAttempts
               PROVE  /\ delivery'[n][j] = "started" <=>
                           outbox'[n].state = "leased" /\ j = outbox'[n].attempts
                      /\ j < outbox'[n].attempts
                           \/ (j = outbox'[n].attempts /\ outbox'[n].state = "pending")
                           => delivery'[n][j] = "retryable_failure"
                      /\ j > outbox'[n].attempts => delivery'[n][j] = "none"
    BY DEF AuditTrail, MsgId
  <2>1. /\ delivery[n][j] = "started" <=> outbox[n].state = "leased" /\ j = outbox[n].attempts
        /\ j < outbox[n].attempts \/ (j = outbox[n].attempts /\ outbox[n].state = "pending")
             => delivery[n][j] = "retryable_failure"
        /\ j > outbox[n].attempts => delivery[n][j] = "none"
    BY DEF LeaseInv, AuditTrail
  <2>2. CASE n = m /\ j = k
    BY <2>2, <1>4, <1>5, <1>1 DEF Outcome
  <2>3. CASE n = m /\ j # k
    <3>1. delivery'[m][j] = delivery[m][j] /\ outbox'[m].state # "leased"
      BY <2>3, <1>4, <1>5
    <3> QED BY <2>1, <2>3, <3>1, <1>1, <1>4
  <2>4. CASE n # m
    BY <2>1, <2>4, <1>6
  <2> QED BY <2>2, <2>3, <2>4
<1>11. QueueOnLiveActivation'
  BY <1>1, <1>2, <1>4, <1>6 DEF LeaseInv, QueueOnLiveActivation, MsgId
<1>12. /\ worker'[w].pc = "idle"
       /\ \A v \in Worker \ {w} : worker'[v] = worker[v]
            /\ (worker[v].pc # "idle" => worker[v].msg \in MsgId \ {m})
  <2>1. worker \in [Worker -> WorkerState]
    BY DEF LeaseInv, TypeOK
  <2>2. \A v \in Worker \ {w} : worker[v].pc # "idle" => worker[v].msg \in MsgId \ {m}
    BY <1>2 DEF m, LeaseInv, HoldersOfLeases, ExclusiveWorker
  <2> HIDE DEF Idle
  <2> QED BY <2>1, <2>2, <1>2, <1>7
<1>13. HoldersOfLeases'
  BY <1>6, <1>12 DEF LeaseInv, HoldersOfLeases, MsgId
<1>14. ExclusiveWorker'
  BY <1>12 DEF LeaseInv, ExclusiveWorker
<1> QED BY <1>8, <1>9, <1>10, <1>11, <1>13, <1>14 DEF LeaseInv

LEMMA ClockStep ==
  ASSUME LeaseInv, Tick \/ SetBack
  PROVE  LeaseInv'
<1>1. UNCHANGED <<ledger, worker, copies>> /\ clock' \in Int /\ backSteps' \in 0..MaxBackSteps
  BY OutboxAssumption DEF Tick, SetBack, LeaseInv, TypeOK
<1> QED BY <1>1 DEF ledger, LeaseInv, TypeOK, RowsWritten, AuditTrail, QueueOnLiveActivation,
                    HoldersOfLeases, ExclusiveWorker, MsgId

LEMMA StutterStep ==
  ASSUME LeaseInv, UNCHANGED vars
  PROVE  LeaseInv'
BY DEF vars, LeaseInv, TypeOK, RowsWritten, AuditTrail, QueueOnLiveActivation,
       HoldersOfLeases, ExclusiveWorker, MsgId

-----------------------------------------------------------------------------
(* The lease invariant holds for every number of incidents, workers,       *)
(* messages, attempts and activations, whatever the clock does.            *)

LEMMA NextLeaseInv == LeaseInv /\ [Next]_vars => LeaseInv'
<1> SUFFICES ASSUME LeaseInv, [Next]_vars PROVE LeaseInv'
  OBVIOUS
<1>1. ASSUME NEW i \in Incident, NEW s \in Severities, NEW n \in BOOLEAN, Emit(i, s, n)
      PROVE  LeaseInv'
  BY <1>1, EmitStep
<1>2. ASSUME NEW i \in Incident, Acknowledge(i) PROVE LeaseInv'
  BY <1>2, AcknowledgeStep
<1>3. ASSUME NEW i \in Incident, Resolve(i) PROVE LeaseInv'
  BY <1>3, ResolveStep
<1>4. ASSUME NEW c \in Config, EnableUnchanged(c) PROVE LeaseInv'
  BY <1>4, EnableUnchangedStep
<1>5. ASSUME NEW c \in Config, EnableRoute(c) PROVE LeaseInv'
  BY <1>5, EnableRouteStep
<1>6. CASE DisableRoute
  BY <1>6, DisableRouteStep
<1>7. ASSUME NEW w \in Worker, WorkerStep(w) \/ Crash(w) PROVE LeaseInv'
  <2>1. CASE Claim(w)
    BY <2>1, ClaimStep
  <2>2. CASE ClaimNothing(w)
    BY <2>2, ClaimNothingStep
  <2>3. CASE SmtpStep(w)
    BY <2>3, SmtpLeaseStep
  <2>4. CASE Complete(w)
    BY <2>4, CompleteStep
  <2>5. CASE CompletionRefused(w) \/ Crash(w)
    BY <2>5, DropStep
  <2> QED BY <1>7, <2>1, <2>2, <2>3, <2>4, <2>5 DEF WorkerStep
<1>8. CASE Tick \/ SetBack
  BY <1>8, ClockStep
<1>9. CASE UNCHANGED vars
  BY <1>9, StutterStep
<1> QED BY <1>1, <1>2, <1>3, <1>4, <1>5, <1>6, <1>7, <1>8, <1>9 DEF Next

THEOREM LeaseInvariant == Spec => []LeaseInv
<1>1. Init => LeaseInv
  BY InitLeaseInv
<1>2. LeaseInv /\ [Next]_vars => LeaseInv'
  BY NextLeaseInv
<1> QED BY <1>1, <1>2, PTL DEF Spec

\* Every state of the specification is well typed: the tables of the store and
\* the places of the workers (TypeOK).
THEOREM TypeCorrect == Spec => []TypeOK
<1>1. LeaseInv => TypeOK
  BY DEF LeaseInv
<1> QED BY <1>1, LeaseInvariant, PTL

\* Nothing that can still be sent belongs to an activation that has ended.
THEOREM LiveActivation == Spec => []QueueOnLiveActivation
<1>1. LeaseInv => QueueOnLiveActivation
  BY DEF LeaseInv
<1> QED BY <1>1, LeaseInvariant, PTL

\* No two delivery processes ever work on one message, not even after a lease
\* expired or the clock was set back.
THEOREM Exclusive == Spec => []ExclusiveWorker
<1>1. LeaseInv => ExclusiveWorker
  BY DEF LeaseInv
<1> QED BY <1>1, LeaseInvariant, PTL

\* The rows of notification_deliveries and of notification_outbox agree on
\* which attempt is under way and on why a message may be tried again.
THEOREM AuditTrailKept == Spec => []AuditTrail
<1>1. LeaseInv => AuditTrail
  BY DEF LeaseInv
<1> QED BY <1>1, LeaseInvariant, PTL

-----------------------------------------------------------------------------
(* Acceptance.  The invariant of the ledger is extended by what it and the *)
(* workers know about copies; this needs a mail server that answers QUIT   *)
(* as it should, or a session that simply drops.                           *)

CopyOfMessage(m) ==
  /\ copies[m] \in {0, 1}
  /\ outbox[m].state = "delivered" => copies[m] = 1
  /\ outbox[m].state \in {"absent", "held", "pending"} => copies[m] = 0
  /\ outbox[m].state = "dead_letter"
       /\ delivery[m][outbox[m].attempts] # "ambiguous" => copies[m] = 0

CopyOfWorker(w) ==
  /\ worker[w].pc \in {"connecting", "sending"} => copies[worker[w].msg] = 0
  /\ worker[w].pc = "accepted" => copies[worker[w].msg] = 1
  /\ worker[w].pc = "reporting" =>
       /\ worker[w].outcome = "succeeded" => copies[worker[w].msg] = 1
       /\ worker[w].outcome \in {"retryable_failure", "permanent_failure"} =>
            copies[worker[w].msg] = 0

LEMMA CopiesParts ==
  /\ CopiesAccounted <=> /\ \A m \in MsgId : CopyOfMessage(m)
                         /\ \A w \in Worker : CopyOfWorker(w)
  /\ CopiesAccounted' <=> /\ \A m \in MsgId : CopyOfMessage(m)'
                          /\ \A w \in Worker : CopyOfWorker(w)'
BY DEF CopiesAccounted, CopyOfMessage, CopyOfWorker, MsgId

\* A quiet move of a row keeps what is known about its copies.
LEMMA QuietCopy ==
  ASSUME LeaseInv, NEW m \in MsgId, Quiet(m), CopyOfMessage(m), copies'[m] = copies[m]
  PROVE  CopyOfMessage(m)'
<1>1. /\ outbox'[m].attempts = outbox[m].attempts
      /\ \/ outbox'[m].state = outbox[m].state /\ delivery'[m] = delivery[m]
         \/ /\ outbox[m].state = "leased" /\ outbox'[m].state = "dead_letter"
            /\ delivery'[m][outbox[m].attempts] = "ambiguous"
         \/ /\ outbox[m].state = "pending" /\ outbox'[m].state = "held"
            /\ delivery'[m] = delivery[m]
  BY QuietFields
<1> QED BY <1>1 DEF CopyOfMessage

\* Transactions of the route, and passes that claim nothing, move every row
\* quietly and touch neither workers nor copies.
LEMMA RecoveryCopies ==
  ASSUME LeaseInv, CopiesAccounted, UNCHANGED <<worker, copies>>,
         delivery' = RecoveredDelivery,
         outbox' = RecoveredOutbox \/ outbox' = Quarantined(RecoveredOutbox)
  PROVE  CopiesAccounted'
<1>1. \A m \in MsgId : Quiet(m)
  <2>1. CASE outbox' = RecoveredOutbox
    BY <2>1, RecoveredRows DEF Quiet, Same, Expire, Hold, Expired
  <2>2. CASE outbox' = Quarantined(RecoveredOutbox)
    BY <2>2, QuarantinedRows
  <2> QED BY <2>1, <2>2
<1>2. \A m \in MsgId : CopyOfMessage(m)'
  BY <1>1, CopiesParts, QuietCopy
<1>3. \A w \in Worker : CopyOfWorker(w)'
  BY CopiesParts DEF CopyOfWorker
<1> QED BY <1>2, <1>3, CopiesParts

\* The only row a transition of an incident writes is a fresh one.
LEMMA NewRow ==
  ASSUME LeaseInv, NEW i \in Incident, NEW r, NEW type, EnqueueUnlessQuiet(i, r, type),
         NEW m \in MsgId
  PROVE  \/ outbox'[m] = outbox[m]
         \/ outbox[m].state = "absent" /\ outbox'[m].state \in {"held", "pending"}
<1>1. CASE UNCHANGED outbox
  BY <1>1
<1>2. CASE Enqueue(i, r, type)
  <2>1. /\ rows + 1 \in MsgId /\ outbox[rows + 1].state = "absent"
        /\ outbox \in [MsgId -> MessageRow]
    BY <1>2, OutboxAssumption DEF Enqueue, MsgId, LeaseInv, TypeOK, RowsWritten
  <2>2. PICK dep \in (IF type = "resolved" THEN RecoveryDependency(i) ELSE {None}) :
          LET held == route.state # "enabled" \/ (type = "resolved" /\ dep = None)
          IN  outbox' = [outbox EXCEPT ![rows + 1] =
                [state |-> IF held THEN "held" ELSE "pending",
                 incident |-> i, type |-> type,
                 severity |-> IF type = "resolved" THEN 0 ELSE r.severity,
                 cycle |-> r.cycle,
                 activation |-> IF route.state = "enabled" THEN route.activation ELSE None,
                 dep |-> dep, created |-> clock, available |-> clock,
                 expires |-> 0, attempts |-> 0]]
    BY <1>2 DEF Enqueue
  <2> QED BY <2>1, <2>2
<1> QED BY <1>1, <1>2 DEF EnqueueUnlessQuiet

\* A new row has never been sent.
LEMMA EnqueueCopies ==
  ASSUME LeaseInv, CopiesAccounted, NEW i \in Incident, NEW r, NEW type,
         EnqueueUnlessQuiet(i, r, type), UNCHANGED <<delivery, worker, copies>>
  PROVE  CopiesAccounted'
<1>1. \A m \in MsgId : \/ outbox'[m] = outbox[m]
                       \/ /\ outbox[m].state = "absent"
                          /\ outbox'[m].state \in {"held", "pending"}
  BY NewRow
<1>2. \A m \in MsgId : CopyOfMessage(m)'
  BY <1>1, CopiesParts DEF CopyOfMessage
<1>3. \A w \in Worker : CopyOfWorker(w)'
  BY CopiesParts DEF CopyOfWorker
<1> QED BY <1>2, <1>3, CopiesParts

LEMMA ClaimCopies ==
  ASSUME LeaseInv, CopiesAccounted, NEW w \in Worker, Claim(w)
  PROVE  CopiesAccounted'
<1>1. PICK m \in MsgId, k \in 1..MaxAttempts :
           /\ outbox[m].state = "pending"
           /\ outbox'[m] = [outbox[m] EXCEPT !.state = "leased", !.attempts = k,
                                            !.expires = clock + LeaseTicks]
           /\ \A n \in MsgId \ {m} : Quiet(n)
           /\ worker' = [worker EXCEPT ![w] =
                [pc |-> "connecting", msg |-> m, attempt |-> k, outcome |-> "none"]]
  BY ClaimRows
<1>2. copies' = copies
  BY DEF Claim
<1>3. copies[m] = 0
  BY <1>1, CopiesParts DEF CopyOfMessage
<1>4. outbox'[m].state = "leased"
  BY <1>1 DEF LeaseInv, TypeOK, MessageRow
<1>5. ASSUME NEW n \in MsgId PROVE CopyOfMessage(n)'
  <2>1. CASE n = m
    BY <2>1, <1>2, <1>3, <1>4 DEF CopyOfMessage
  <2>2. CASE n # m
    BY <2>2, <1>1, <1>2, CopiesParts, QuietCopy
  <2> QED BY <2>1, <2>2
<1>6. ASSUME NEW v \in Worker PROVE CopyOfWorker(v)'
  <2>1. CASE v = w
    <3>1. worker'[v].pc = "connecting" /\ worker'[v].msg = m
      BY <2>1, <1>1 DEF LeaseInv, TypeOK
    <3> QED BY <3>1, <1>2, <1>3 DEF CopyOfWorker
  <2>2. CASE v # w
    <3>1. worker'[v] = worker[v]
      BY <2>2, <1>1 DEF LeaseInv, TypeOK
    <3> QED BY <3>1, <1>2, CopiesParts DEF CopyOfWorker
  <2> QED BY <2>1, <2>2
<1> QED BY <1>5, <1>6, CopiesParts

LEMMA CompleteCopies ==
  ASSUME LeaseInv, CopiesAccounted, NEW w \in Worker, Complete(w)
  PROVE  CopiesAccounted'
<1> DEFINE m == worker[w].msg
           k == worker[w].attempt
           oc == worker[w].outcome
<1>1. /\ m \in MsgId /\ k \in 1..MaxAttempts /\ oc \in Outcome
      /\ outbox[m].state = "leased" /\ outbox[m].attempts = k
      /\ outbox'[m] = CompletedRow(outbox[m], oc, k)
      /\ delivery' = [delivery EXCEPT ![m][k] = oc]
      /\ \A n \in MsgId \ {m} : Quiet(n)
  BY CompleteRows
<1>2. /\ worker' = [worker EXCEPT ![w] = Idle] /\ copies' = copies
      /\ worker[w].pc = "reporting"
  BY DEF Complete
<1>3. /\ oc = "succeeded" => copies[m] = 1
      /\ oc \in {"retryable_failure", "permanent_failure"} => copies[m] = 0
      /\ copies[m] \in {0, 1}
  BY <1>1, <1>2, CopiesParts DEF CopyOfWorker, CopyOfMessage
<1> HIDE DEF m, k, oc
<1>4. outbox[m] \in MessageRow /\ delivery'[m][k] = oc
  BY <1>1 DEF LeaseInv, TypeOK
<1>5. /\ outbox'[m].attempts = k
      /\ \/ outbox'[m].state = "delivered" /\ oc = "succeeded"
         \/ outbox'[m].state = "pending" /\ oc = "retryable_failure"
         \/ outbox'[m].state = "dead_letter" /\ oc # "succeeded"
  BY <1>1, <1>4 DEF CompletedRow, MessageRow
<1>6. ASSUME NEW n \in MsgId PROVE CopyOfMessage(n)'
  <2>1. CASE n = m
    BY <2>1, <1>1, <1>2, <1>3, <1>4, <1>5 DEF CopyOfMessage, Outcome
  <2>2. CASE n # m
    BY <2>2, <1>1, <1>2, CopiesParts, QuietCopy
  <2> QED BY <2>1, <2>2
<1>7. ASSUME NEW v \in Worker PROVE CopyOfWorker(v)'
  <2>1. CASE v = w
    <3>1. worker'[v].pc = "idle"
      BY <2>1, <1>2 DEF LeaseInv, TypeOK, Idle
    <3> QED BY <3>1 DEF CopyOfWorker
  <2>2. CASE v # w
    <3>1. worker'[v] = worker[v]
      BY <2>2, <1>2 DEF LeaseInv, TypeOK
    <3> QED BY <3>1, <1>2, CopiesParts DEF CopyOfWorker
  <2> QED BY <2>1, <2>2
<1> QED BY <1>6, <1>7, CopiesParts

\* A worker that moves on while the ledger stays as it is: only the copies of
\* its own message may change, and only while that message is not settled.
LEMMA WorkerCopies ==
  ASSUME LeaseInv, CopiesAccounted, NEW w \in Worker, worker[w].pc # "idle",
         NEW x, worker' = [worker EXCEPT ![w] = x], UNCHANGED ledger,
         NEW c \in {0, 1},
         copies' = [copies EXCEPT ![worker[w].msg] = c],
         /\ x.pc \in {"connecting", "sending"} => c = 0
         /\ x.pc = "accepted" => c = 1
         /\ x.pc = "reporting" =>
              /\ x.outcome = "succeeded" => c = 1
              /\ x.outcome \in {"retryable_failure", "permanent_failure"} => c = 0,
         x.pc # "idle" => x.msg = worker[w].msg,
         x.pc \in {"idle", "connecting", "sending", "accepted", "reporting"}
  PROVE  CopiesAccounted'
<1> DEFINE m == worker[w].msg
<1>1. /\ m \in MsgId /\ outbox[m].state \in {"leased", "dead_letter"}
      /\ outbox[m].state = "dead_letter" => delivery[m][outbox[m].attempts] = "ambiguous"
  BY DEF LeaseInv, HoldersOfLeases
<1>2. outbox' = outbox /\ delivery' = delivery
  BY DEF ledger
<1>3. copies'[m] = c /\ \A n \in MsgId \ {m} : copies'[n] = copies[n]
  BY <1>1 DEF LeaseInv, TypeOK
<1>4. worker'[w] = x /\ \A v \in Worker \ {w} : worker'[v] = worker[v]
  BY DEF LeaseInv, TypeOK
<1>5. \A v \in Worker \ {w} : worker[v].pc # "idle" => worker[v].msg \in MsgId \ {m}
  BY DEF LeaseInv, HoldersOfLeases, ExclusiveWorker
<1> HIDE DEF m
<1>6. ASSUME NEW n \in MsgId PROVE CopyOfMessage(n)'
  <2>1. CASE n = m
    BY <2>1, <1>1, <1>2, <1>3 DEF CopyOfMessage
  <2>2. CASE n # m
    BY <2>2, <1>2, <1>3, CopiesParts DEF CopyOfMessage
  <2> QED BY <2>1, <2>2
<1>7. ASSUME NEW v \in Worker PROVE CopyOfWorker(v)'
  <2>1. CASE v = w
    BY <2>1, <1>3, <1>4 DEF CopyOfWorker, m
  <2>2. CASE v # w /\ worker[v].pc = "idle"
    BY <2>2, <1>4 DEF CopyOfWorker
  <2>3. CASE v # w /\ worker[v].pc # "idle"
    BY <2>3, <1>3, <1>4, <1>5, CopiesParts DEF CopyOfWorker
  <2> QED BY <2>1, <2>2, <2>3
<1> QED BY <1>6, <1>7, CopiesParts

LEMMA SmtpCopies ==
  ASSUME QuitAnswers = {"closing"}, LeaseInv, CopiesAccounted,
         NEW w \in Worker, SmtpStep(w) \/ CompletionRefused(w) \/ Crash(w)
  PROVE  CopiesAccounted'
<1> DEFINE m == worker[w].msg
           X(pc, o) == [worker[w] EXCEPT !.pc = pc, !.outcome = o]
<1>1. worker[w].pc # "idle" /\ UNCHANGED ledger
  BY DEF SmtpStep, ConnectFails, StartSend, Accepted, Refused, LinkLost, Quit,
         CompletionRefused, Crash
<1>2. /\ m \in MsgId /\ copies[m] \in {0, 1}
      /\ worker[w].pc \in {"connecting", "sending"} => copies[m] = 0
      /\ worker[w].pc = "accepted" => copies[m] = 1
      /\ copies = [copies EXCEPT ![m] = copies[m]]
  BY <1>1, CopiesParts DEF CopyOfMessage, CopyOfWorker, LeaseInv, TypeOK, HoldersOfLeases
<1>3. \A pc, o : X(pc, o).pc = pc /\ X(pc, o).outcome = o /\ X(pc, o).msg = m
  BY DEF LeaseInv, TypeOK, WorkerState
<1>4. CASE CompletionRefused(w) \/ Crash(w)
  <2>1. worker' = [worker EXCEPT ![w] = Idle] /\ copies' = copies
    BY <1>4 DEF CompletionRefused, Crash
  <2>2. Idle.pc = "idle"
    BY DEF Idle
  <2> HIDE DEF Idle
  <2> QED BY <1>1, <1>2, <2>1, <2>2, WorkerCopies
<1>5. CASE SmtpStep(w)
  <2>1. \E pc \in {"sending", "accepted", "reporting"},
          o \in Outcome \cup {"none"}, c \in {0, 1} :
          /\ worker' = [worker EXCEPT ![w] = X(pc, o)]
          /\ copies' = [copies EXCEPT ![m] = c]
          /\ pc = "sending" => c = 0
          /\ pc = "accepted" => c = 1
          /\ pc = "reporting" => /\ o = "succeeded" => c = 1
                                 /\ o \in {"retryable_failure", "permanent_failure"} => c = 0
    <3>1. CASE ConnectFails(w) \/ Refused(w)
      <4>1. \E o \in {"retryable_failure", "permanent_failure"} :
               worker' = [worker EXCEPT ![w] = X("reporting", o)]
        BY <3>1 DEF ConnectFails, Refused, Goto
      <4>2. copies' = [copies EXCEPT ![m] = 0]
        BY <3>1, <1>2 DEF ConnectFails, Refused
      <4> HIDE DEF X, m
      <4> QED BY <4>1, <4>2 DEF Outcome
    <3>2. CASE StartSend(w)
      <4>1. worker' = [worker EXCEPT ![w] = X("sending", "none")]
        BY <3>2 DEF StartSend, Goto
      <4>2. copies' = [copies EXCEPT ![m] = 0]
        BY <3>2, <1>2 DEF StartSend
      <4> HIDE DEF X, m
      <4> QED BY <4>1, <4>2
    <3>3. CASE Accepted(w)
      <4>1. worker' = [worker EXCEPT ![w] = X("accepted", "none")]
        BY <3>3 DEF Accepted, Goto
      <4>2. copies[m] + 1 = 1 /\ copies' = [copies EXCEPT ![m] = copies[m] + 1]
        BY <3>3, <1>2 DEF Accepted
      <4> HIDE DEF X, m
      <4> QED BY <4>1, <4>2
    <3>4. CASE LinkLost(w)
      <4>1. worker' = [worker EXCEPT ![w] = X("reporting", "ambiguous")]
        BY <3>4 DEF LinkLost, LostInSend, Goto
      <4>2. copies[m] = 0
        BY <3>4, <1>2 DEF LinkLost
      <4>3. PICK t \in {0, 1} : copies' = [copies EXCEPT ![m] = copies[m] + t]
        BY <3>4 DEF LinkLost
      <4>4. copies[m] + t = t
        BY <4>2
      <4>5. copies' = [copies EXCEPT ![m] = t]
        BY <4>3, <4>4
      <4> USE DEF Outcome
      <4> HIDE DEF X, m
      <4> WITNESS "reporting" \in {"sending", "accepted", "reporting"},
                  "ambiguous" \in Outcome \cup {"none"}, t \in {0, 1}
      <4> QED BY <4>1, <4>5
    <3>5. CASE Quit(w)
      <4>1. worker' = [worker EXCEPT ![w] = X("reporting", "succeeded")]
        BY <3>5 DEF Quit, QuitOutcome, Goto
      <4>2. copies' = [copies EXCEPT ![m] = 1]
        BY <3>5, <1>2 DEF Quit
      <4> HIDE DEF X, m
      <4> QED BY <4>1, <4>2 DEF Outcome
    <3> QED BY <1>5, <3>1, <3>2, <3>3, <3>4, <3>5 DEF SmtpStep
  <2>2. PICK pc \in {"sending", "accepted", "reporting"},
             o \in Outcome \cup {"none"}, c \in {0, 1} :
          /\ worker' = [worker EXCEPT ![w] = X(pc, o)]
          /\ copies' = [copies EXCEPT ![m] = c]
          /\ pc = "sending" => c = 0
          /\ pc = "accepted" => c = 1
          /\ pc = "reporting" => /\ o = "succeeded" => c = 1
                                 /\ o \in {"retryable_failure", "permanent_failure"} => c = 0
    BY <2>1
  <2> DEFINE x == X(pc, o)
  <2>3. x.pc = pc /\ x.outcome = o /\ x.msg = m
    BY <1>3
  <2>4. worker' = [worker EXCEPT ![w] = x]
    BY <2>2
  <2> HIDE DEF x, X
  <2> QED BY <1>1, <2>2, <2>3, <2>4, WorkerCopies
<1> QED BY <1>4, <1>5

LEMMA NextOutboxInv ==
  ASSUME QuitAnswers = {"closing"}, OutboxInv, [Next]_vars
  PROVE  OutboxInv'
<1>1. LeaseInv /\ CopiesAccounted /\ LeaseInv'
  BY NextLeaseInv DEF OutboxInv
<1> SUFFICES CopiesAccounted'
  BY <1>1 DEF OutboxInv
<1>2. ASSUME NEW i \in Incident, NEW s \in Severities, NEW n \in BOOLEAN, Emit(i, s, n)
      PROVE  CopiesAccounted'
  BY <1>1, <1>2, EnqueueCopies DEF Emit
<1>3. ASSUME NEW i \in Incident, Resolve(i) PROVE CopiesAccounted'
  BY <1>1, <1>3, EnqueueCopies DEF Resolve
<1>4. ASSUME NEW c \in Config, EnableUnchanged(c) \/ EnableRoute(c)
      PROVE  CopiesAccounted'
  BY <1>1, <1>4, RecoveryCopies DEF EnableUnchanged, EnableRoute
<1>5. CASE DisableRoute
  BY <1>1, <1>5, RecoveryCopies DEF DisableRoute
<1>6. ASSUME NEW w \in Worker, WorkerStep(w) \/ Crash(w) PROVE CopiesAccounted'
  <2>1. CASE Claim(w)
    BY <1>1, <2>1, ClaimCopies
  <2>2. CASE ClaimNothing(w)
    BY <1>1, <2>2, RecoveryCopies DEF ClaimNothing
  <2>3. CASE SmtpStep(w) \/ CompletionRefused(w) \/ Crash(w)
    BY <1>1, <2>3, SmtpCopies
  <2>4. CASE Complete(w)
    BY <1>1, <2>4, CompleteCopies
  <2> QED BY <1>6, <2>1, <2>2, <2>3, <2>4 DEF WorkerStep
<1>7. ASSUME UNCHANGED <<outbox, delivery, worker, copies>> PROVE CopiesAccounted'
  BY <1>1, <1>7 DEF CopiesAccounted, MsgId
<1>8. ASSUME NEW i \in Incident, Acknowledge(i) PROVE CopiesAccounted'
  BY <1>7, <1>8 DEF Acknowledge
<1>9. CASE Tick \/ SetBack
  BY <1>7, <1>9 DEF Tick, SetBack, ledger
<1>10. CASE UNCHANGED vars
  BY <1>7, <1>10 DEF vars
<1> QED BY <1>2, <1>3, <1>4, <1>5, <1>6, <1>8, <1>9, <1>10 DEF Next

\* When the mail server closes sessions as it should, what the ledger and the
\* workers record about acceptance is true in every state.
THEOREM OutboxInvariant ==
  ASSUME QuitAnswers = {"closing"}
  PROVE  Spec => []OutboxInv
<1>1. Init => OutboxInv
  <2>1. Init => CopiesAccounted
    BY OutboxAssumption DEF Init, CopiesAccounted, MsgId, NoMessage, Idle
  <2> QED BY <2>1, InitLeaseInv DEF OutboxInv
<1>2. OutboxInv /\ [Next]_vars => OutboxInv'
  BY NextOutboxInv
<1> QED BY <1>1, <1>2, PTL DEF Spec

\* No message reaches the mail server's queue twice, for every number of
\* workers, attempts and crashes, however the clock moves.
THEOREM SentAtMostOnce ==
  ASSUME QuitAnswers = {"closing"}
  PROVE  Spec => []NeverSentTwice
<1>1. OutboxInv => NeverSentTwice
  BY DEF OutboxInv, CopiesAccounted, NeverSentTwice
<1> QED BY <1>1, OutboxInvariant, PTL

-----------------------------------------------------------------------------
(* Every step of the outbox is a step of the promise.                      *)

\* A move of the promise, written without the refinement mapping.
PromiseMove(m) ==
  \/ StatusOf(m)' = StatusOf(m) /\ copies'[m] = copies[m]
  \/ /\ StatusOf(m) = "absent" /\ StatusOf(m)' \in {"queued", "withheld"}
     /\ copies'[m] = copies[m]
  \/ /\ StatusOf(m) \in {"queued", "uncertain"} /\ copies[m] = 0
     /\ StatusOf(m)' = StatusOf(m) /\ copies'[m] = 1
  \/ /\ StatusOf(m) = "queued" /\ copies[m] = 1
     /\ StatusOf(m)' = "delivered" /\ copies'[m] = copies[m]
  \/ /\ StatusOf(m) = "queued" /\ copies'[m] = copies[m]
     /\ StatusOf(m)' = "uncertain" \/ (StatusOf(m)' = "failed" /\ copies[m] = 0)
  \/ /\ StatusOf(m) = "queued" /\ copies[m] = 0
     /\ StatusOf(m)' = "withheld" /\ copies'[m] = copies[m]

\* The ledger states of a message and the status it has.
LEMMA StatusCases ==
  ASSUME NEW m \in MsgId
  PROVE  /\ outbox[m].state \in {"pending", "leased"} => StatusOf(m) = "queued"
         /\ outbox[m].state = "held" => StatusOf(m) = "withheld"
         /\ outbox[m].state \in {"absent", "delivered"} => StatusOf(m) = outbox[m].state
         /\ outbox[m].state = "dead_letter" =>
              StatusOf(m) = IF delivery[m][outbox[m].attempts] = "ambiguous"
                            THEN "uncertain" ELSE "failed"
BY DEF StatusOf

LEMMA StatusCasesNext ==
  ASSUME NEW m \in MsgId
  PROVE  /\ outbox'[m].state \in {"pending", "leased"} => StatusOf(m)' = "queued"
         /\ outbox'[m].state = "held" => StatusOf(m)' = "withheld"
         /\ outbox'[m].state \in {"absent", "delivered"} => StatusOf(m)' = outbox'[m].state
         /\ outbox'[m].state = "dead_letter" =>
              StatusOf(m)' = IF delivery'[m][outbox'[m].attempts] = "ambiguous"
                             THEN "uncertain" ELSE "failed"
BY DEF StatusOf

LEMMA UnchangedMove ==
  ASSUME NEW m \in MsgId, Same(m), copies'[m] = copies[m]
  PROVE  PromiseMove(m)
BY DEF Same, PromiseMove, StatusOf

LEMMA QuietMove ==
  ASSUME OutboxInv, NEW m \in MsgId, Quiet(m), copies'[m] = copies[m]
  PROVE  PromiseMove(m)
<1>1. LeaseInv /\ CopyOfMessage(m)
  BY CopiesParts DEF OutboxInv
<1>2. CASE Same(m)
  BY <1>2, UnchangedMove
<1>3. CASE ~Same(m)
  <2>1. \/ /\ outbox[m].state = "leased" /\ outbox'[m].state = "dead_letter"
           /\ outbox'[m].attempts = outbox[m].attempts
           /\ delivery'[m][outbox[m].attempts] = "ambiguous"
        \/ outbox[m].state = "pending" /\ outbox'[m].state = "held"
    <3>1. outbox[m] \in MessageRow
      BY <1>1 DEF LeaseInv, TypeOK
    <3>2. CASE Hold(m)
      BY <3>1, <3>2 DEF Hold, MessageRow
    <3>3. CASE Expire(m)
      <4>1. outbox[m].state = "leased" /\ outbox'[m].state = "dead_letter"
        BY <3>1, <3>3 DEF Expire, MessageRow
      <4> QED BY <1>1, <4>1, QuietFields
    <3> QED BY <1>3, <3>2, <3>3 DEF Quiet
  <2>2. outbox[m].state = "pending" => copies[m] = 0
    BY <1>1 DEF CopyOfMessage
  <2> QED BY <2>1, <2>2, StatusCases, StatusCasesNext DEF PromiseMove
<1> QED BY <1>2, <1>3

LEMMA RecoveryMoves ==
  ASSUME OutboxInv, UNCHANGED copies, delivery' = RecoveredDelivery,
         outbox' = RecoveredOutbox \/ outbox' = Quarantined(RecoveredOutbox)
  PROVE  \A m \in MsgId : PromiseMove(m)
<1>1. LeaseInv
  BY DEF OutboxInv
<1>2. \A m \in MsgId : Quiet(m)
  <2>1. CASE outbox' = RecoveredOutbox
    BY <1>1, <2>1, RecoveredRows DEF Quiet, Same, Expire, Hold, Expired
  <2>2. CASE outbox' = Quarantined(RecoveredOutbox)
    BY <1>1, <2>2, QuarantinedRows
  <2> QED BY <2>1, <2>2
<1> QED BY <1>2, QuietMove

LEMMA EnqueueMoves ==
  ASSUME OutboxInv, NEW i \in Incident, NEW r, NEW type,
         EnqueueUnlessQuiet(i, r, type), UNCHANGED <<delivery, copies>>
  PROVE  \A m \in MsgId : PromiseMove(m)
<1>1. ASSUME NEW m \in MsgId
      PROVE  \/ outbox'[m] = outbox[m]
             \/ /\ outbox[m].state = "absent"
                /\ outbox'[m].state \in {"held", "pending"}
  BY <1>1, NewRow DEF OutboxInv
<1> QED BY <1>1, StatusCases, StatusCasesNext, UnchangedMove DEF PromiseMove, Same

LEMMA ClaimMoves ==
  ASSUME OutboxInv, NEW w \in Worker, Claim(w)
  PROVE  \A m \in MsgId : PromiseMove(m)
<1>1. LeaseInv /\ copies' = copies
  BY DEF OutboxInv, Claim
<1>2. PICK m \in MsgId, k \in 1..MaxAttempts :
           /\ outbox[m].state = "pending"
           /\ outbox'[m] = [outbox[m] EXCEPT !.state = "leased", !.attempts = k,
                                            !.expires = clock + LeaseTicks]
           /\ \A n \in MsgId \ {m} : Quiet(n)
  BY <1>1, ClaimRows
<1>3. outbox'[m].state = "leased"
  BY <1>1, <1>2 DEF LeaseInv, TypeOK, MessageRow
<1>4. PromiseMove(m)
  BY <1>1, <1>2, <1>3, StatusCases, StatusCasesNext DEF PromiseMove
<1> QED BY <1>1, <1>2, <1>4, QuietMove

LEMMA CompleteMoves ==
  ASSUME OutboxInv, NEW w \in Worker, Complete(w)
  PROVE  \A n \in MsgId : PromiseMove(n)
<1> DEFINE m == worker[w].msg
           k == worker[w].attempt
           oc == worker[w].outcome
<1>1. LeaseInv /\ CopiesAccounted /\ copies' = copies /\ worker[w].pc = "reporting"
  BY DEF OutboxInv, Complete
<1>2. /\ m \in MsgId /\ k \in 1..MaxAttempts /\ oc \in Outcome
      /\ outbox[m].state = "leased" /\ outbox[m].attempts = k
      /\ outbox'[m] = CompletedRow(outbox[m], oc, k)
      /\ delivery' = [delivery EXCEPT ![m][k] = oc]
      /\ \A n \in MsgId \ {m} : Quiet(n)
  BY <1>1, CompleteRows
<1>3. /\ oc = "succeeded" => copies[m] = 1
      /\ oc \in {"retryable_failure", "permanent_failure"} => copies[m] = 0
  BY <1>1, CopiesParts DEF CopyOfWorker
<1> HIDE DEF m, k, oc
<1>4. outbox[m] \in MessageRow /\ delivery'[m][k] = oc
  BY <1>1, <1>2 DEF LeaseInv, TypeOK
<1>5. /\ outbox'[m].attempts = k
      /\ \/ outbox'[m].state = "delivered" /\ oc = "succeeded"
         \/ outbox'[m].state = "pending"
         \/ outbox'[m].state = "dead_letter" /\ oc # "succeeded"
  BY <1>2, <1>4 DEF CompletedRow, MessageRow
<1>6. ASSUME NEW n \in MsgId, n = m PROVE PromiseMove(n)
  <2>1. StatusOf(n) = "queued" /\ copies'[n] = copies[n]
    BY <1>1, <1>2, <1>6, StatusCases
  <2>2. CASE outbox'[n].state = "delivered" /\ oc = "succeeded"
    BY <1>3, <1>6, <2>1, <2>2, StatusCasesNext DEF PromiseMove
  <2>3. CASE outbox'[n].state = "pending"
    BY <2>1, <2>3, StatusCasesNext DEF PromiseMove
  <2>4. CASE outbox'[n].state = "dead_letter" /\ oc # "succeeded"
    <3>1. StatusOf(n)' = IF oc = "ambiguous" THEN "uncertain" ELSE "failed"
      BY <1>4, <1>5, <1>6, <2>4, StatusCasesNext
    <3>2. oc # "ambiguous" => copies[n] = 0
      BY <1>2, <1>3, <1>6, <2>4 DEF Outcome
    <3> QED BY <2>1, <3>1, <3>2 DEF PromiseMove
  <2> QED BY <1>5, <1>6, <2>2, <2>3, <2>4
<1> QED BY <1>1, <1>2, <1>6, QuietMove

\* A worker's move changes at most the copies of its own message, from 0 to 1.
LEMMA SmtpMoves ==
  ASSUME OutboxInv, NEW w \in Worker, SmtpStep(w) \/ CompletionRefused(w) \/ Crash(w)
  PROVE  \A n \in MsgId : PromiseMove(n)
<1> DEFINE m == worker[w].msg
<1>1. LeaseInv /\ CopiesAccounted
  BY DEF OutboxInv
<1>2. worker[w].pc # "idle" /\ outbox' = outbox /\ delivery' = delivery
  BY DEF SmtpStep, ConnectFails, StartSend, Accepted, Refused, LinkLost, Quit,
         CompletionRefused, Crash, ledger
<1>3. \A n \in MsgId : StatusOf(n)' = StatusOf(n)
  BY <1>2 DEF StatusOf
<1>4. /\ m \in MsgId /\ copies \in [MsgId -> Nat]
      /\ outbox[m].state \in {"leased", "dead_letter"}
      /\ outbox[m].state = "dead_letter" => delivery[m][outbox[m].attempts] = "ambiguous"
      /\ worker[w].pc = "sending" => copies[m] = 0
  BY <1>1, <1>2, CopiesParts DEF CopyOfWorker, LeaseInv, TypeOK, HoldersOfLeases
<1>5. StatusOf(m) \in {"queued", "uncertain"}
  BY <1>4, StatusCases
<1>6. \/ copies' = copies
      \/ copies[m] = 0 /\ copies' = [copies EXCEPT ![m] = 1]
  <2>1. CASE Accepted(w)
    <3>1. copies[m] = 0 /\ copies' = [copies EXCEPT ![m] = copies[m] + 1]
      BY <2>1, <1>4 DEF Accepted
    <3>2. copies[m] + 1 = 1
      BY <3>1
    <3> QED BY <3>1, <3>2
  <2>2. CASE LinkLost(w)
    <3>1. copies[m] = 0
      BY <2>2, <1>4 DEF LinkLost
    <3>2. PICK t \in {0, 1} : copies' = [copies EXCEPT ![m] = copies[m] + t]
      BY <2>2 DEF LinkLost
    <3>3. CASE t = 0
      BY <3>1, <3>2, <3>3, <1>4
    <3>4. CASE t = 1
      BY <3>1, <3>2, <3>4, <1>4
    <3> QED BY <3>2, <3>3, <3>4
  <2>3. CASE ~Accepted(w) /\ ~LinkLost(w)
    BY <2>3 DEF SmtpStep, ConnectFails, StartSend, Refused, Quit, CompletionRefused, Crash
  <2> QED BY <2>1, <2>2, <2>3
<1> HIDE DEF m
<1> QED BY <1>3, <1>4, <1>5, <1>6 DEF PromiseMove

LEMMA NextMoves ==
  ASSUME OutboxInv, Next
  PROVE  \A m \in MsgId : PromiseMove(m)
<1>1. ASSUME UNCHANGED <<outbox, delivery, copies>>
      PROVE  \A m \in MsgId : PromiseMove(m)
  BY <1>1, UnchangedMove DEF Same
<1>2. ASSUME NEW i \in Incident, NEW s \in Severities, NEW n \in BOOLEAN, Emit(i, s, n)
      PROVE  \A m \in MsgId : PromiseMove(m)
  BY <1>2, EnqueueMoves DEF Emit
<1>3. ASSUME NEW i \in Incident, Acknowledge(i)
      PROVE  \A m \in MsgId : PromiseMove(m)
  BY <1>1, <1>3 DEF Acknowledge
<1>4. ASSUME NEW i \in Incident, Resolve(i)
      PROVE  \A m \in MsgId : PromiseMove(m)
  BY <1>4, EnqueueMoves DEF Resolve
<1>5. ASSUME NEW c \in Config, EnableUnchanged(c) \/ EnableRoute(c)
      PROVE  \A m \in MsgId : PromiseMove(m)
  BY <1>5, RecoveryMoves DEF EnableUnchanged, EnableRoute
<1>6. CASE DisableRoute
  BY <1>6, RecoveryMoves DEF DisableRoute
<1>7. ASSUME NEW w \in Worker, WorkerStep(w) \/ Crash(w)
      PROVE  \A m \in MsgId : PromiseMove(m)
  <2>1. CASE Claim(w)
    BY <2>1, ClaimMoves
  <2>2. CASE ClaimNothing(w)
    BY <2>2, RecoveryMoves DEF ClaimNothing
  <2>3. CASE SmtpStep(w) \/ CompletionRefused(w) \/ Crash(w)
    BY <2>3, SmtpMoves
  <2>4. CASE Complete(w)
    BY <2>4, CompleteMoves
  <2> QED BY <1>7, <2>1, <2>2, <2>3, <2>4 DEF WorkerStep
<1>8. CASE Tick \/ SetBack
  BY <1>1, <1>8 DEF Tick, SetBack, ledger
<1> QED BY <1>2, <1>3, <1>4, <1>5, <1>6, <1>7, <1>8 DEF Next

LEMMA MovesArePromised ==
  ASSUME TypeOK', \A m \in MsgId : PromiseMove(m)
  PROVE  Promise!PromiseNext
<1>1. \A m \in MsgId : Promise!Move(m)
  BY DEF MsgId, PromiseMove, Promise!Move, Promise!Stay, Promise!Post, Promise!Accept,
         Promise!Confirm, Promise!GiveUp, Promise!Withhold
<1>2. \A m \in MsgId : StatusOf(m)' \in Promise!Status
  BY StatusCasesNext DEF TypeOK, MsgId, MessageRow, Promise!Status
<1> QED BY <1>1, <1>2 DEF Promise!PromiseNext, MsgId

\* The outbox implements the delivery promise: at most one copy of a message
\* ever reaches the recipient, and a message is recorded as delivered, failed
\* or withheld only when that is the truth about its copies.
THEOREM PromiseKept ==
  ASSUME QuitAnswers = {"closing"}
  PROVE  Spec => PromiseSpec
<1>1. Init => Promise!PromiseInit
  BY DEF Init, Promise!PromiseInit, StatusOf, NoMessage, MsgId
<1>2. OutboxInv /\ OutboxInv' /\ [Next]_vars => [Promise!PromiseNext]_(Promise!promiseVars)
  <2> SUFFICES ASSUME OutboxInv, OutboxInv', [Next]_vars
               PROVE  [Promise!PromiseNext]_(Promise!promiseVars)
    OBVIOUS
  <2>1. CASE Next
    BY <2>1, NextMoves, MovesArePromised DEF OutboxInv, LeaseInv
  <2>2. CASE UNCHANGED vars
    BY <2>2 DEF vars, Promise!promiseVars, StatusOf, MsgId
  <2> QED BY <2>1, <2>2
<1> QED BY <1>1, <1>2, OutboxInvariant, PTL DEF Spec, PromiseSpec, Promise!PromiseSpec

-----------------------------------------------------------------------------
(* Settled messages.                                                       *)

Settled(m) == outbox[m].state \in {"held", "delivered", "dead_letter"}

\* Only queued and absent rows are ever written.
LEMMA SettledRows ==
  ASSUME LeaseInv, Next, NEW m \in MsgId, Settled(m)
  PROVE  outbox'[m] = outbox[m]
<1>1. ASSUME UNCHANGED outbox PROVE outbox'[m] = outbox[m]
  BY <1>1
<1>2. Quiet(m) => outbox'[m] = outbox[m]
  BY DEF Quiet, Same, Expire, Hold, Settled
<1>3. ASSUME delivery' = RecoveredDelivery,
             outbox' = RecoveredOutbox \/ outbox' = Quarantined(RecoveredOutbox)
      PROVE  outbox'[m] = outbox[m]
  <2>1. CASE outbox' = RecoveredOutbox
    BY <2>1, RecoveredRows DEF Settled, Expired
  <2>2. CASE outbox' = Quarantined(RecoveredOutbox)
    BY <1>2, <1>3, <2>2, QuarantinedRows
  <2> QED BY <1>3, <2>1, <2>2
<1>4. ASSUME NEW i \in Incident, NEW s \in Severities, NEW n \in BOOLEAN, Emit(i, s, n)
      PROVE  outbox'[m] = outbox[m]
  BY <1>4, NewRow DEF Emit, Settled
<1>5. ASSUME NEW i \in Incident, Acknowledge(i) PROVE outbox'[m] = outbox[m]
  BY <1>5 DEF Acknowledge
<1>6. ASSUME NEW i \in Incident, Resolve(i) PROVE outbox'[m] = outbox[m]
  BY <1>6, NewRow DEF Resolve, Settled
<1>7. ASSUME NEW c \in Config, EnableUnchanged(c) \/ EnableRoute(c)
      PROVE  outbox'[m] = outbox[m]
  BY <1>3, <1>7 DEF EnableUnchanged, EnableRoute
<1>8. CASE DisableRoute
  BY <1>3, <1>8 DEF DisableRoute
<1>9. ASSUME NEW w \in Worker, WorkerStep(w) \/ Crash(w) PROVE outbox'[m] = outbox[m]
  <2>1. CASE Claim(w)
    BY <1>2, <2>1, ClaimRows DEF Settled
  <2>2. CASE ClaimNothing(w)
    BY <1>3, <2>2 DEF ClaimNothing
  <2>3. CASE SmtpStep(w) \/ CompletionRefused(w) \/ Crash(w)
    BY <2>3 DEF SmtpStep, ConnectFails, StartSend, Accepted, Refused, LinkLost, Quit,
                CompletionRefused, Crash, ledger
  <2>4. CASE Complete(w)
    BY <1>2, <2>4, CompleteRows DEF Settled
  <2> QED BY <1>9, <2>1, <2>2, <2>3, <2>4 DEF WorkerStep
<1>10. CASE Tick \/ SetBack
  BY <1>10 DEF Tick, SetBack, ledger
<1> QED BY <1>4, <1>5, <1>6, <1>7, <1>8, <1>9, <1>10 DEF Next

\* Held, delivered and given-up messages are never touched again.
THEOREM SettledStay == Spec => SettledForGood
<1> DEFINE A == \A m \in MsgId : outbox[m].state \in {"held", "delivered", "dead_letter"} =>
                                outbox'[m] = outbox[m]
<1>1. LeaseInv /\ [Next]_vars => [A]_vars
  BY SettledRows DEF Settled
<1> QED BY <1>1, LeaseInvariant, PTL DEF Spec, SettledForGood

-----------------------------------------------------------------------------
(* A recovery waits for its alert.                                         *)

\* What a recovery depends on is written once, and the message that is not held
\* or still waiting has a delivered alert.
Alerting(m) ==
  outbox[m].type = "resolved" /\ outbox[m].state \in {"pending", "leased", "delivered", "dead_letter"} =>
    /\ outbox[m].dep \in MsgId
    /\ outbox[outbox[m].dep].state # "absent"
    /\ outbox[outbox[m].dep].type \in ActiveTypes
    /\ outbox[outbox[m].dep].incident = outbox[m].incident
    /\ outbox[outbox[m].dep].activation = outbox[m].activation
    /\ outbox[m].state # "pending" => outbox[outbox[m].dep].state = "delivered"

Alerted == \A m \in MsgId : Alerting(m)

\* A row keeps what it says and moves through the states of a delivery.
Moved(m) ==
  /\ outbox'[m].type = outbox[m].type /\ outbox'[m].incident = outbox[m].incident
  /\ outbox'[m].activation = outbox[m].activation /\ outbox'[m].dep = outbox[m].dep
  /\ \/ outbox'[m].state = outbox[m].state
     \/ outbox[m].state = "pending" /\ outbox'[m].state = "held"
     \/ outbox[m].state = "leased" /\ outbox'[m].state \in {"pending", "delivered", "dead_letter"}
     \/ /\ outbox[m].state = "pending" /\ outbox'[m].state = "leased"
        /\ outbox[m].dep # None => outbox[outbox[m].dep].state = "delivered"

Written(m) ==
  /\ outbox[m].state = "absent"
  /\ \/ outbox'[m].state = "held"
     \/ /\ outbox'[m].state = "pending"
        /\ outbox'[m].type = "resolved" =>
             /\ outbox'[m].dep \in ActiveCandidates(outbox'[m].incident)
             /\ outbox'[m].activation = route.activation

LEMMA StillMoved ==
  ASSUME NEW m \in MsgId, outbox'[m] = outbox[m] PROVE Moved(m)
  BY DEF Moved

LEMMA QuietMoved ==
  ASSUME LeaseInv, NEW m \in MsgId, Quiet(m) PROVE Moved(m)
<1>1. outbox[m] \in MessageRow
  BY DEF LeaseInv, TypeOK
<1>2. CASE Same(m)
  BY <1>2, StillMoved DEF Same
<1>3. CASE Expire(m)
  BY <1>1, <1>3 DEF Expire, Moved, MessageRow
<1>4. CASE Hold(m)
  BY <1>1, <1>4 DEF Hold, Moved, MessageRow
<1> QED BY <1>2, <1>3, <1>4 DEF Quiet

LEMMA RecoveryMoved ==
  ASSUME LeaseInv, delivery' = RecoveredDelivery,
         outbox' = RecoveredOutbox \/ outbox' = Quarantined(RecoveredOutbox),
         NEW m \in MsgId
  PROVE  Moved(m)
<1>1. Quiet(m)
  <2>1. CASE outbox' = RecoveredOutbox
    BY <2>1, RecoveredRows DEF Quiet, Same, Expire, Hold, Expired
  <2>2. CASE outbox' = Quarantined(RecoveredOutbox)
    BY <2>2, QuarantinedRows
  <2> QED BY <2>1, <2>2
<1> QED BY <1>1, QuietMoved

LEMMA EnqueueMoved ==
  ASSUME LeaseInv, NEW i \in Incident, NEW r, NEW type,
         EnqueueUnlessQuiet(i, r, type), NEW m \in MsgId
  PROVE  Moved(m) \/ Written(m)
<1>1. CASE UNCHANGED outbox
  BY <1>1, StillMoved
<1>2. CASE Enqueue(i, r, type)
  <2>1. /\ rows + 1 \in MsgId /\ outbox[rows + 1].state = "absent"
        /\ outbox \in [MsgId -> MessageRow]
    BY <1>2, OutboxAssumption DEF Enqueue, MsgId, LeaseInv, TypeOK, RowsWritten
  <2>2. PICK dep \in (IF type = "resolved" THEN RecoveryDependency(i) ELSE {None}) :
          LET held == route.state # "enabled" \/ (type = "resolved" /\ dep = None)
          IN  outbox' = [outbox EXCEPT ![rows + 1] =
                [state |-> IF held THEN "held" ELSE "pending",
                 incident |-> i, type |-> type,
                 severity |-> IF type = "resolved" THEN 0 ELSE r.severity,
                 cycle |-> r.cycle,
                 activation |-> IF route.state = "enabled" THEN route.activation ELSE None,
                 dep |-> dep, created |-> clock, available |-> clock,
                 expires |-> 0, attempts |-> 0]]
    BY <1>2 DEF Enqueue
  <2>3. CASE m # rows + 1
    BY <2>1, <2>2, <2>3, StillMoved
  <2>4. CASE m = rows + 1
    <3>1. /\ outbox'[m].type = type /\ outbox'[m].dep = dep /\ outbox'[m].incident = i
          /\ outbox'[m].state = IF route.state # "enabled" \/ (type = "resolved" /\ dep = None)
                                THEN "held" ELSE "pending"
          /\ outbox'[m].activation = IF route.state = "enabled" THEN route.activation ELSE None
      BY <2>1, <2>2, <2>4
    <3>2. type = "resolved" /\ route.state = "enabled" /\ dep # None =>
            dep \in ActiveCandidates(i)
      BY <2>2 DEF RecoveryDependency, Newest
    <3> QED BY <2>1, <2>4, <3>1, <3>2 DEF Written
  <2> QED BY <2>3, <2>4
<1> QED BY <1>1, <1>2 DEF EnqueueUnlessQuiet

\* What is claimed waited for a delivery that is recorded before the claim.
LEMMA ClaimMoved ==
  ASSUME LeaseInv, NEW w \in Worker, Claim(w), NEW n \in MsgId
  PROVE  Moved(n)
<1>1. PICK m \in FirstDue(RecoveredOutbox) :
        outbox' = [RecoveredOutbox EXCEPT
             ![m] = [@ EXCEPT !.state = "leased", !.attempts = RecoveredOutbox[m].attempts + 1,
                              !.expires = clock + LeaseTicks]]
  BY DEF Claim
<1>2. m \in MsgId /\ RecoveredOutbox[m].state = "pending"
  BY DEF FirstDue, Due
<1>3. RecoveredOutbox[m].dep # None =>
         RecoveredOutbox[RecoveredOutbox[m].dep].state = "delivered"
  BY DEF FirstDue, Due
<1>4. RecoveredOutbox \in [MsgId -> MessageRow] /\ outbox[m] \in MessageRow
  BY <1>2, RecoveredTypes DEF LeaseInv, TypeOK
<1>5. RecoveredOutbox[m] = outbox[m]
  BY <1>2, <1>4, RecoveredRows DEF MessageRow, Expired
<1>6. CASE n = m
  <2>1. outbox'[m] = [outbox[m] EXCEPT !.state = "leased",
                          !.attempts = RecoveredOutbox[m].attempts + 1,
                          !.expires = clock + LeaseTicks]
    BY <1>1, <1>2, <1>4, <1>5
  <2>2. outbox[m].dep # None => outbox[outbox[m].dep].state = "delivered"
    <3> SUFFICES ASSUME outbox[m].dep # None PROVE outbox[outbox[m].dep].state = "delivered"
      OBVIOUS
    <3> PICK d : d = outbox[m].dep
      OBVIOUS
    <3>1. d \in MsgId
      BY <1>4, OutboxAssumption DEF MessageRow, MsgId, None
    <3>2. RecoveredOutbox[d].state = "delivered" /\ outbox[d] \in MessageRow
      BY <1>5, <1>3, <3>1 DEF LeaseInv, TypeOK
    <3>3. outbox[d].state = "delivered"
      BY <3>1, <3>2, RecoveredRows DEF MessageRow
    <3> QED BY <3>3
  <2> QED BY <1>2, <1>4, <1>5, <1>6, <2>1, <2>2 DEF Moved, MessageRow
<1>7. CASE n # m
  <2>1. \E k \in MsgId : n # k /\ \A x \in MsgId \ {k} : Quiet(x)
    <3>1. PICK k \in MsgId : outbox'[k].state = "leased" /\ outbox[k].state = "pending"
                             /\ \A x \in MsgId \ {k} : Quiet(x)
      <4>1. PICK x \in MsgId, k \in 1..MaxAttempts :
               /\ outbox[x].state = "pending"
               /\ outbox'[x] = [outbox[x] EXCEPT !.state = "leased", !.attempts = k,
                                                !.expires = clock + LeaseTicks]
               /\ \A y \in MsgId \ {x} : Quiet(y)
        BY ClaimRows
      <4>2. outbox'[x].state = "leased"
        BY <4>1 DEF LeaseInv, TypeOK, MessageRow
      <4> QED BY <4>1, <4>2
    <3>2. outbox'[n] = RecoveredOutbox[n] /\ outbox[n] \in MessageRow
      BY <1>1, <1>4, <1>7 DEF LeaseInv, TypeOK
    <3>3. ~(outbox'[n].state = "leased" /\ outbox[n].state = "pending")
      BY <3>2, RecoveredRows DEF MessageRow
    <3> QED BY <3>1, <3>3
  <2> QED BY <2>1, QuietMoved
<1> QED BY <1>6, <1>7

LEMMA RowMoves ==
  ASSUME LeaseInv, Next, NEW m \in MsgId
  PROVE  Moved(m) \/ Written(m)
<1>1. ASSUME UNCHANGED outbox PROVE Moved(m)
  BY <1>1, StillMoved
<1>2. ASSUME NEW i \in Incident, NEW s \in Severities, NEW n \in BOOLEAN, Emit(i, s, n)
      PROVE  Moved(m) \/ Written(m)
  BY <1>2, EnqueueMoved DEF Emit
<1>3. ASSUME NEW i \in Incident, Acknowledge(i) PROVE Moved(m)
  BY <1>1, <1>3 DEF Acknowledge
<1>4. ASSUME NEW i \in Incident, Resolve(i) PROVE Moved(m) \/ Written(m)
  BY <1>4, EnqueueMoved DEF Resolve
<1>5. ASSUME NEW c \in Config, EnableUnchanged(c) \/ EnableRoute(c) PROVE Moved(m)
  BY <1>5, RecoveryMoved DEF EnableUnchanged, EnableRoute
<1>6. CASE DisableRoute
  BY <1>6, RecoveryMoved DEF DisableRoute
<1>7. ASSUME NEW w \in Worker, WorkerStep(w) \/ Crash(w) PROVE Moved(m)
  <2>1. CASE Claim(w)
    BY <2>1, ClaimMoved
  <2>2. CASE ClaimNothing(w)
    BY <2>2, RecoveryMoved DEF ClaimNothing
  <2>3. CASE SmtpStep(w) \/ CompletionRefused(w) \/ Crash(w)
    BY <1>1, <2>3 DEF SmtpStep, ConnectFails, StartSend, Accepted, Refused, LinkLost, Quit,
                      CompletionRefused, Crash, ledger
  <2>4. CASE Complete(w)
    <3>1. CASE m # worker[w].msg
      BY <2>4, <3>1, CompleteRows, QuietMoved
    <3>2. CASE m = worker[w].msg
      <4>1. outbox[m] \in MessageRow /\ outbox[m].state = "leased"
            /\ outbox'[m] = CompletedRow(outbox[m], worker[w].outcome, worker[w].attempt)
        BY <2>4, <3>2, CompleteRows DEF LeaseInv, TypeOK
      <4> QED BY <4>1 DEF CompletedRow, Moved, MessageRow
    <3> QED BY <3>1, <3>2
  <2> QED BY <1>7, <2>1, <2>2, <2>3, <2>4 DEF WorkerStep
<1>8. CASE Tick \/ SetBack
  BY <1>1, <1>8 DEF Tick, SetBack, ledger
<1> QED BY <1>2, <1>3, <1>4, <1>5, <1>6, <1>7, <1>8 DEF Next

LEMMA NextAlerted ==
  ASSUME LeaseInv, Alerted, [Next]_vars
  PROVE  Alerted'
<1>1. CASE UNCHANGED vars
  BY <1>1 DEF vars, Alerted, Alerting, MsgId
<1>2. CASE Next
  <2> SUFFICES ASSUME NEW m \in MsgId PROVE Alerting(m)'
    BY DEF Alerted, MsgId
  <2>1. ASSUME NEW d \in MsgId, outbox[d].state # "absent"
        PROVE  /\ outbox'[d].state # "absent" /\ outbox'[d].type = outbox[d].type
               /\ outbox'[d].incident = outbox[d].incident
               /\ outbox'[d].activation = outbox[d].activation
               /\ outbox[d].state = "delivered" => outbox'[d].state = "delivered"
    BY <1>2, <2>1, RowMoves DEF Moved, Written
  <2>2. CASE Moved(m)
    <3> PICK d : d = outbox[m].dep
      OBVIOUS
    <3>1. outbox'[m].dep = d /\ outbox'[m].type = outbox[m].type
      BY <2>2 DEF Moved
    <3> SUFFICES ASSUME outbox[m].type = "resolved",
                        outbox'[m].state \in {"pending", "leased", "delivered", "dead_letter"}
                 PROVE  Alerting(m)'
      BY <3>1 DEF Alerting
    <3>2. outbox[m].state \in {"pending", "leased", "delivered", "dead_letter"}
      BY <2>2 DEF Moved
    <3>3. /\ d \in MsgId /\ outbox[d].state # "absent" /\ outbox[d].type \in ActiveTypes
          /\ outbox[d].incident = outbox[m].incident
          /\ outbox[d].activation = outbox[m].activation
          /\ outbox[m].state # "pending" => outbox[d].state = "delivered"
      BY <3>2 DEF Alerted, Alerting
    <3>4. outbox'[m].state # "pending" => outbox[d].state = "delivered"
      BY <2>2, <3>3, OutboxAssumption DEF Moved, MsgId, None
    <3> QED BY <2>1, <2>2, <3>1, <3>3, <3>4 DEF Moved, Alerting, MsgId
  <2>3. CASE Written(m)
    <3> SUFFICES ASSUME outbox'[m].type = "resolved",
                        outbox'[m].state \in {"pending", "leased", "delivered", "dead_letter"}
                 PROVE  Alerting(m)'
      BY DEF Alerting
    <3> PICK d : d = outbox'[m].dep
      OBVIOUS
    <3>1. /\ outbox'[m].state = "pending" /\ outbox'[m].activation = route.activation
          /\ d \in ActiveCandidates(outbox'[m].incident)
      BY <2>3 DEF Written
    <3>2. /\ d \in MsgId /\ outbox[d].state # "absent" /\ outbox[d].type \in ActiveTypes
          /\ outbox[d].incident = outbox'[m].incident
          /\ outbox[d].activation = route.activation
      BY <3>1 DEF ActiveCandidates
    <3> QED BY <2>1, <3>1, <3>2 DEF Alerting, MsgId
  <2> QED BY <1>2, <2>2, <2>3, RowMoves
<1> QED BY <1>1, <1>2

\* A recovery reaches the recipient only after an alert about the same incident,
\* under the same activation, did, and was recorded (RecoveryDependency, Due).
THEOREM RecoveryFollowsAlert ==
  ASSUME QuitAnswers = {"closing"}
  PROVE  Spec => []RecoveryAfterAlert
<1>1. Init => Alerted
  BY DEF Init, Alerted, Alerting, NoMessage
<1>2. LeaseInv /\ Alerted /\ [Next]_vars => Alerted'
  BY NextAlerted
<1>3. OutboxInv /\ Alerted => RecoveryAfterAlert
  <2> SUFFICES ASSUME OutboxInv, Alerted, NEW m \in MsgId, outbox[m].type = "resolved",
                      copies[m] > 0
               PROVE  \E d \in MsgId :
                        /\ outbox[d].type \in ActiveTypes /\ outbox[d].state = "delivered"
                        /\ copies[d] > 0 /\ outbox[d].incident = outbox[m].incident
                        /\ outbox[d].activation = outbox[m].activation
    BY DEF RecoveryAfterAlert
  <2>1. outbox[m].state \in {"leased", "delivered", "dead_letter"}
    <3>1. outbox[m].state \in {"absent", "held", "pending", "leased", "delivered", "dead_letter"}
      BY DEF OutboxInv, LeaseInv, TypeOK, MessageRow
    <3> QED BY <3>1 DEF OutboxInv, CopiesAccounted
  <2>2. /\ outbox[m].dep \in MsgId /\ outbox[outbox[m].dep].state = "delivered"
        /\ outbox[outbox[m].dep].type \in ActiveTypes
        /\ outbox[outbox[m].dep].incident = outbox[m].incident
        /\ outbox[outbox[m].dep].activation = outbox[m].activation
    BY <2>1 DEF Alerted, Alerting
  <2>3. copies[outbox[m].dep] = 1
    BY <2>2 DEF OutboxInv, CopiesAccounted
  <2> QED BY <2>2, <2>3
<1> QED BY <1>1, <1>2, <1>3, LeaseInvariant, OutboxInvariant, PTL DEF Spec

=============================================================================
