-------------------------- MODULE NotificationOutbox --------------------------
(***************************************************************************)
(* The incident notification path of src/aios/alerts.py and                *)
(* src/aios/notifications.py: incident transitions that copy a message     *)
(* into the outbox, the opt-in route with its activations, the workers     *)
(* that lease messages and hand them to an SMTP server, and the recovery   *)
(* of leases whose worker never reported.                                  *)
(*                                                                         *)
(* Every public method of AlertStore runs in one BEGIN IMMEDIATE           *)
(* transaction and is one action here.  The SMTP dialogue happens between  *)
(* two transactions (claim and complete) and is several steps, so that     *)
(* other workers, the operator, a crash and the clock can come between.    *)
(*                                                                         *)
(* Time: one tick is one second of the stored timestamps, the granularity  *)
(* of _timestamp; several events of one tick carry equal timestamps.       *)
(***************************************************************************)
EXTENDS Integers, FiniteSets

CONSTANTS
  Incident,        \* deduplication keys of incidents
  Severities,      \* severities alerts are emitted with, 0 = info .. 2 = critical
  Worker,          \* email-deliver processes
  Config,          \* fingerprints of SMTP settings
  MaxAttempts,     \* NOTIFICATION_MAX_ATTEMPTS
  LeaseTicks,      \* NOTIFICATION_LEASE_SECONDS
  RetryBase,       \* NOTIFICATION_RETRY_BASE_SECONDS
  RetryCap,        \* NOTIFICATION_RETRY_MAX_SECONDS
  QuitAnswers,     \* how the mail server may answer the closing QUIT
  MaxStepBack,     \* how far the wall clock may be set back at once
  MaxMessages,     \* bound: messages ever written to the outbox
  MaxActivations,  \* bound: activations of the route
  MaxBackSteps     \* bound: times the clock is set back

ASSUME OutboxAssumption ==
  /\ MaxAttempts \in Nat \ {0} /\ LeaseTicks \in Nat \ {0}
  /\ RetryBase \in Nat /\ RetryCap \in Nat
  /\ Severities \subseteq 0..2
  /\ QuitAnswers \subseteq {"closing", "refused_4xx", "refused_5xx"}
  /\ MaxStepBack \in Nat /\ MaxMessages \in Nat
  /\ MaxActivations \in Nat /\ MaxBackSteps \in Nat

VARIABLES
  clock,      \* the host's UTC wall clock, in seconds
  backSteps,  \* times the clock was set back so far
  incident,   \* table incidents, with the cycle anchor of incident_events
  route,      \* the row of notification_routes
  rows,       \* number of rows of notification_outbox: rowid of the last one
  outbox,     \* table notification_outbox, by rowid
  delivery,   \* table notification_deliveries, by message and attempt number
  worker,     \* where each delivery process is
  copies      \* history: how many times the mail server accepted a message

vars == <<clock, backSteps, incident, route, rows, outbox, delivery, worker, copies>>
ledger == <<incident, route, rows, outbox, delivery>>

MsgId == 1..MaxMessages
None == 0
ActiveTypes == {"opened", "reopened", "escalated"}
Outcome == {"succeeded", "retryable_failure", "permanent_failure", "ambiguous"}

IncidentRow == [state : {"absent", "open", "acknowledged", "resolved"},
                severity : 0..2,
                notify : BOOLEAN,    \* notifications_enabled, fixed when first opened
                anchor : Int,        \* greatest created_at of an (re)opened event
                cycle : Nat]         \* how often it was opened or reopened
RouteRow == [state : {"absent", "enabled", "disabled"},
             activation : 0..MaxActivations, config : Config \cup {None}]
MessageRow == [state : {"absent", "held", "pending", "leased", "delivered",
                        "dead_letter"},
               incident : Incident \cup {None},
               type : ActiveTypes \cup {"resolved", "none"},
               severity : 0..2, cycle : Nat,
               activation : 0..MaxActivations,  \* None when no route was enabled
               dep : 0..MaxMessages,            \* depends_on_notification_id
               created : Int, available : Int, expires : Int,
               attempts : 0..MaxAttempts]
WorkerState == [pc : {"idle", "connecting", "sending", "accepted", "reporting"},
                msg : 0..MaxMessages, attempt : 0..MaxAttempts,
                outcome : Outcome \cup {"none"}]

TypeOK ==
  /\ clock \in Int /\ backSteps \in 0..MaxBackSteps
  /\ incident \in [Incident -> IncidentRow]
  /\ route \in RouteRow
  /\ rows \in 0..MaxMessages
  /\ outbox \in [MsgId -> MessageRow]
  /\ delivery \in [MsgId -> [1..MaxAttempts -> Outcome \cup {"none", "started"}]]
  /\ worker \in [Worker -> WorkerState]
  /\ copies \in [MsgId -> Nat]

NoIncident == [state |-> "absent", severity |-> 0, notify |-> FALSE, anchor |-> 0,
               cycle |-> 0]
NoMessage == [state |-> "absent", incident |-> None, type |-> "none",
              severity |-> 0, cycle |-> 0, activation |-> None, dep |-> None,
              created |-> 0, available |-> 0, expires |-> 0, attempts |-> 0]
Idle == [pc |-> "idle", msg |-> None, attempt |-> 0, outcome |-> "none"]

Init ==
  /\ clock = 0 /\ backSteps = 0
  /\ incident = [i \in Incident |-> NoIncident]
  /\ route = [state |-> "absent", activation |-> None, config |-> None]
  /\ rows = 0
  /\ outbox = [m \in MsgId |-> NoMessage]
  /\ delivery = [m \in MsgId |-> [k \in 1..MaxAttempts |-> "none"]]
  /\ worker = [w \in Worker |-> Idle]
  /\ copies = [m \in MsgId |-> 0]

-----------------------------------------------------------------------------
(* Incident transitions and the message copied in the same transaction.    *)

MaxOf(a, b) == IF a >= b THEN a ELSE b

\* Messages of the current cycle that told, or may still tell, the recipient
\* about incident i: the cycle is recognised by its timestamp.
ActiveCandidates(i) ==
  {m \in MsgId :
     /\ outbox[m].incident = i /\ outbox[m].type \in ActiveTypes
     /\ outbox[m].activation = route.activation
     /\ outbox[m].state \in {"pending", "leased", "delivered"}
     /\ outbox[m].created >= incident[i].anchor}

Newest(S) ==
  {m \in S : \A n \in S \ {m} :
     \/ outbox[m].created > outbox[n].created
     \/ outbox[m].created = outbox[n].created /\ m > n}

\* depends_on_notification_id of a recovery message: at most one candidate.
RecoveryDependency(i) ==
  IF route.state # "enabled" \/ ActiveCandidates(i) = {}
  THEN {None} ELSE Newest(ActiveCandidates(i))

\* _enqueue_incident_notification for an incident whose row is now r.
Enqueue(i, r, type) ==
  /\ rows < MaxMessages
  /\ rows' = rows + 1
  /\ \E dep \in IF type = "resolved" THEN RecoveryDependency(i) ELSE {None} :
       LET held == route.state # "enabled" \/ (type = "resolved" /\ dep = None)
       IN  outbox' = [outbox EXCEPT ![rows + 1] =
             [state |-> IF held THEN "held" ELSE "pending",
              incident |-> i, type |-> type,
              severity |-> IF type = "resolved" THEN 0 ELSE r.severity,
              cycle |-> r.cycle,
              activation |-> IF route.state = "enabled" THEN route.activation ELSE None,
              dep |-> dep, created |-> clock, available |-> clock,
              expires |-> 0, attempts |-> 0]]

\* Type "none" is a repeated observation that does not escalate.
EnqueueUnlessQuiet(i, r, type) ==
  IF r.notify /\ type # "none" THEN Enqueue(i, r, type) ELSE UNCHANGED <<rows, outbox>>

\* emit: open, repeat, escalate or reopen one incident.
Emit(i, s, notify) ==
  LET old == incident[i]
      severity == IF old.state = "absent" THEN s ELSE MaxOf(old.severity, s)
      newCycle == old.state # "open"
      type == IF old.state = "absent" THEN "opened"
              ELSE IF newCycle THEN "reopened"
              ELSE IF severity # old.severity THEN "escalated" ELSE "none"
      anchor == IF old.state = "absent" THEN clock
                ELSE IF newCycle THEN MaxOf(old.anchor, clock) ELSE old.anchor
      r == [state |-> "open", severity |-> severity, anchor |-> anchor,
            notify |-> IF old.state = "absent" THEN notify ELSE old.notify,
            cycle |-> IF newCycle THEN old.cycle + 1 ELSE old.cycle]
  IN  /\ r.cycle <= MaxMessages    \* bounds the cycles of a muted incident
      /\ incident' = [incident EXCEPT ![i] = r]
      /\ EnqueueUnlessQuiet(i, r, type)
      /\ UNCHANGED <<clock, backSteps, route, delivery, worker, copies>>

Acknowledge(i) ==
  /\ incident[i].state = "open"
  /\ incident' = [incident EXCEPT ![i].state = "acknowledged"]
  /\ UNCHANGED <<clock, backSteps, route, rows, outbox, delivery, worker, copies>>

\* resolve by the operator and resolve_fingerprint by a recovered producer;
\* an attestation of an incident that is already resolved writes no message.
Resolve(i) ==
  /\ incident[i].state \in {"open", "acknowledged"}
  /\ incident' = [incident EXCEPT ![i].state = "resolved"]
  /\ EnqueueUnlessQuiet(i, incident[i], "resolved")
  /\ UNCHANGED <<clock, backSteps, route, delivery, worker, copies>>

-----------------------------------------------------------------------------
(* Lease recovery, which every claim and route change runs first.  The     *)
(* available_at, dead_lettered_at and last_error_type the code also writes *)
(* to a message it gives up or holds are read by nothing that follows.     *)

Expired(m) == outbox[m].state = "leased" /\ outbox[m].expires <= clock
Exhausted(m) == outbox[m].state = "pending" /\ outbox[m].attempts >= MaxAttempts

\* Fault: recoveries whose alert was given up are left queued.
HoldUnreachable_Never(o) == o

\* _hold_unreachable_recoveries applied to the table o.
HoldUnreachable(o) ==
  [m \in MsgId |->
     IF /\ o[m].state = "pending" /\ o[m].type = "resolved" /\ o[m].dep # None
        /\ o[o[m].dep].state = "dead_letter"
     THEN [o[m] EXCEPT !.state = "held"] ELSE o[m]]

\* Fault: an expired lease puts its message back into the queue.
RecoveredOutbox_Requeue ==
  [m \in MsgId |-> IF Expired(m) THEN [outbox[m] EXCEPT !.state = "pending", !.expires = 0]
                   ELSE outbox[m]]

RecoveredOutbox ==
  HoldUnreachable(
    [m \in MsgId |->
       IF Expired(m)
       THEN [outbox[m] EXCEPT !.state = "dead_letter", !.expires = 0]
       ELSE IF Exhausted(m) THEN [outbox[m] EXCEPT !.state = "dead_letter"]
       ELSE outbox[m]])

\* Fault: the attempt of an expired lease counts as one that reached nobody.
RecoveredDelivery_Retryable ==
  [m \in MsgId |-> [k \in 1..MaxAttempts |->
     IF Expired(m) /\ k = outbox[m].attempts /\ delivery[m][k] = "started"
     THEN "retryable_failure" ELSE delivery[m][k]]]

RecoveredDelivery ==
  [m \in MsgId |-> [k \in 1..MaxAttempts |->
     IF Expired(m) /\ k = outbox[m].attempts /\ delivery[m][k] = "started"
     THEN "ambiguous" ELSE delivery[m][k]]]

\* A delivery that is still under way once expired leases are recovered.
InFlight == \E m \in MsgId : \E k \in 1..MaxAttempts : RecoveredDelivery[m][k] = "started"

-----------------------------------------------------------------------------
(* The operator's opt-in route.                                            *)

\* Fault: every message of the activation that ends is held, settled or not.
Quarantined_Everything(o) ==
  [m \in MsgId |-> IF o[m].state # "absent" /\ o[m].activation = route.activation
                   THEN [o[m] EXCEPT !.state = "held"] ELSE o[m]]

\* Pending messages of the activation that ends are kept local.
Quarantined(o) ==
  [m \in MsgId |-> IF o[m].state = "pending" /\ o[m].activation = route.activation
                   THEN [o[m] EXCEPT !.state = "held"] ELSE o[m]]

\* enable_notification_route with the settings already enabled.
EnableUnchanged(c) ==
  /\ route.state = "enabled" /\ route.config = c
  /\ outbox' = RecoveredOutbox
  /\ delivery' = RecoveredDelivery
  /\ UNCHANGED <<clock, backSteps, incident, route, rows, worker, copies>>

\* enable_notification_route otherwise; a delivery under way raises and the
\* transaction is rolled back.
EnableRoute(c) ==
  /\ ~(route.state = "enabled" /\ route.config = c)
  /\ route.state # "absent" => ~InFlight
  /\ route.activation < MaxActivations
  /\ outbox' = IF route.state = "absent" THEN RecoveredOutbox
                                         ELSE Quarantined(RecoveredOutbox)
  /\ delivery' = RecoveredDelivery
  /\ route' = [state |-> "enabled", activation |-> route.activation + 1, config |-> c]
  /\ UNCHANGED <<clock, backSteps, incident, rows, worker, copies>>

\* disable_notification_route; already disabled, it only recovers leases.
DisableRoute ==
  /\ route.state # "absent"
  /\ route.state = "enabled" => ~InFlight
  /\ outbox' = IF route.state = "enabled" THEN Quarantined(RecoveredOutbox)
                                          ELSE RecoveredOutbox
  /\ delivery' = RecoveredDelivery
  /\ route' = [route EXCEPT !.state = "disabled"]
  /\ UNCHANGED <<clock, backSteps, incident, rows, worker, copies>>

-----------------------------------------------------------------------------
(* A delivery worker: claim, send, complete.                               *)

\* Fault: a recovery does not wait for its alert.
Due_WithoutDependency(o) ==
  {m \in MsgId : /\ o[m].state = "pending" /\ o[m].available <= clock
                 /\ o[m].attempts < MaxAttempts /\ o[m].activation = route.activation}

\* The messages of table o that claim_notifications may lease for the route.
Due(o) ==
  {m \in MsgId :
     /\ o[m].state = "pending" /\ o[m].available <= clock
     /\ o[m].attempts < MaxAttempts
     /\ o[m].activation = route.activation
     /\ o[m].dep # None => /\ o[o[m].dep].state = "delivered"
                           /\ o[o[m].dep].activation = o[m].activation}

\* Most severe first, then oldest, then lowest rowid.
Precedes(o, m, n) ==
  \/ o[m].severity > o[n].severity
  \/ /\ o[m].severity = o[n].severity
     /\ o[m].created < o[n].created \/ (o[m].created = o[n].created /\ m < n)

FirstDue(o) == {m \in Due(o) : \A n \in Due(o) \ {m} : Precedes(o, m, n)}

\* claim_notifications with limit 1, by a worker whose settings are those of
\* the enabled route; any other worker is refused and its transaction undone.
Claim(w) ==
  /\ worker[w].pc = "idle" /\ route.state = "enabled"
  /\ \E m \in FirstDue(RecoveredOutbox) :
       LET k == RecoveredOutbox[m].attempts + 1 IN
       /\ outbox' = [RecoveredOutbox EXCEPT
            ![m] = [@ EXCEPT !.state = "leased", !.attempts = k,
                             !.expires = clock + LeaseTicks]]
       /\ delivery' = [RecoveredDelivery EXCEPT ![m][k] = "started"]
       /\ worker' = [worker EXCEPT ![w] =
            [pc |-> "connecting", msg |-> m, attempt |-> k, outcome |-> "none"]]
  /\ UNCHANGED <<clock, backSteps, incident, route, rows, copies>>

\* The same when nothing is due: the pass ends, expired leases are recovered.
ClaimNothing(w) ==
  /\ worker[w].pc = "idle" /\ route.state = "enabled"
  /\ Due(RecoveredOutbox) = {}
  /\ outbox' = RecoveredOutbox
  /\ delivery' = RecoveredDelivery
  /\ UNCHANGED <<clock, backSteps, incident, route, rows, worker, copies>>

Goto(w, pc, outcome) ==
  worker' = [worker EXCEPT ![w] = [@ EXCEPT !.pc = pc, !.outcome = outcome]]

\* SmtpEmailChannel.send, before the message is handed over: a timeout or a
\* broken connection is retryable, a refused login or certificate is not.
ConnectFails(w) ==
  /\ worker[w].pc = "connecting"
  /\ \E o \in {"retryable_failure", "permanent_failure"} : Goto(w, "reporting", o)
  /\ UNCHANGED <<clock, backSteps, ledger, copies>>

StartSend(w) ==
  /\ worker[w].pc = "connecting"
  /\ Goto(w, "sending", "none")
  /\ UNCHANGED <<clock, backSteps, ledger, copies>>

\* stage "send": the server answers that it took the message.
Accepted(w) ==
  /\ worker[w].pc = "sending"
  /\ copies' = [copies EXCEPT ![worker[w].msg] = @ + 1]
  /\ Goto(w, "accepted", "none")
  /\ UNCHANGED <<clock, backSteps, ledger>>

\* stage "send": a 4xx answer is retryable; a 5xx answer or a refused address is not.
Refused(w) ==
  /\ worker[w].pc = "sending"
  /\ \E o \in {"retryable_failure", "permanent_failure"} : Goto(w, "reporting", o)
  /\ UNCHANGED <<clock, backSteps, ledger, copies>>

\* Fault: a lost connection is always worth another attempt.
LostInSend_Retryable == "retryable_failure"

\* What a connection lost in stage "send" is reported as.
LostInSend == "ambiguous"

\* stage "send": the connection is lost, before or after the server took it.
LinkLost(w) ==
  /\ worker[w].pc = "sending"
  /\ \E taken \in {0, 1} : copies' = [copies EXCEPT ![worker[w].msg] = @ + taken]
  /\ Goto(w, "reporting", LostInSend)
  /\ UNCHANGED <<clock, backSteps, ledger>>

\* How leaving the smtplib session after acceptance is reported: a connection
\* that drops here is success, but a QUIT answered by anything but 221 raises
\* SMTPResponseException inside the same try block.
QuitOutcome(a) ==
  CASE a = "closing"     -> "succeeded"
    [] a = "refused_4xx" -> "retryable_failure"
    [] a = "refused_5xx" -> "permanent_failure"

Quit(w) ==
  /\ worker[w].pc = "accepted"
  /\ \E a \in QuitAnswers : Goto(w, "reporting", QuitOutcome(a))
  /\ UNCHANGED <<clock, backSteps, ledger, copies>>

\* complete_notification_delivery accepts a report only for a started attempt
\* whose lease is still owned and has not expired.
OwnsLease(w) ==
  LET m == worker[w].msg IN
  /\ delivery[m][worker[w].attempt] = "started"
  /\ outbox[m].state = "leased" /\ outbox[m].attempts = worker[w].attempt
  /\ outbox[m].expires > clock

\* _notification_retry_at: exponential back-off with a cap.
RetryAt(k) == clock + (IF RetryBase * 2 ^ (k - 1) <= RetryCap
                       THEN RetryBase * 2 ^ (k - 1) ELSE RetryCap)

CompletedRow(r, o, k) ==
  IF o = "succeeded" THEN [r EXCEPT !.state = "delivered", !.expires = 0]
  ELSE IF o = "retryable_failure" /\ k < MaxAttempts
  THEN [r EXCEPT !.state = "pending", !.expires = 0, !.available = RetryAt(k)]
  ELSE [r EXCEPT !.state = "dead_letter", !.expires = 0]

Complete(w) ==
  LET m == worker[w].msg
      k == worker[w].attempt
      o == [outbox EXCEPT ![m] = CompletedRow(outbox[m], worker[w].outcome, k)]
  IN  /\ worker[w].pc = "reporting"
      /\ OwnsLease(w)
      /\ delivery' = [delivery EXCEPT ![m][k] = worker[w].outcome]
      /\ outbox' = IF o[m].state = "dead_letter" THEN HoldUnreachable(o) ELSE o
      /\ worker' = [worker EXCEPT ![w] = Idle]
      /\ UNCHANGED <<clock, backSteps, incident, route, rows, copies>>

\* The report comes too late: ValueError ends the pass, the ledger is unchanged.
CompletionRefused(w) ==
  /\ worker[w].pc = "reporting" /\ ~OwnsLease(w)
  /\ worker' = [worker EXCEPT ![w] = Idle]
  /\ UNCHANGED <<clock, backSteps, ledger, copies>>

\* The process dies; its lease stays until it expires.
Crash(w) ==
  /\ worker[w].pc # "idle"
  /\ worker' = [worker EXCEPT ![w] = Idle]
  /\ UNCHANGED <<clock, backSteps, ledger, copies>>

-----------------------------------------------------------------------------
(* The clock.  It advances while some stored time is still ahead of it, or *)
(* a new event could still share the timestamp of the latest cycle; beyond *)
(* that, waiting longer changes nothing the code can tell.                 *)

TimeMatters ==
  \/ \E i \in Incident : incident[i].state # "absent" /\ clock <= incident[i].anchor
  \/ \E m \in MsgId : outbox[m].state = "pending" /\ clock < outbox[m].available
  \/ \E m \in MsgId : outbox[m].state = "leased" /\ clock < outbox[m].expires

Tick ==
  /\ TimeMatters
  /\ clock' = clock + 1
  /\ UNCHANGED <<backSteps, ledger, worker, copies>>

SetBack ==
  /\ backSteps < MaxBackSteps
  /\ backSteps' = backSteps + 1
  /\ \E d \in 1..MaxStepBack : clock' = clock - d
  /\ UNCHANGED <<ledger, worker, copies>>

-----------------------------------------------------------------------------

SmtpStep(w) ==
  ConnectFails(w) \/ StartSend(w) \/ Accepted(w) \/ Refused(w) \/ LinkLost(w) \/ Quit(w)

WorkerStep(w) ==
  Claim(w) \/ ClaimNothing(w) \/ SmtpStep(w) \/ Complete(w) \/ CompletionRefused(w)

Next ==
  \/ \E i \in Incident : (\E s \in Severities, n \in BOOLEAN : Emit(i, s, n))
                          \/ Acknowledge(i) \/ Resolve(i)
  \/ \E c \in Config : EnableUnchanged(c) \/ EnableRoute(c)
  \/ DisableRoute
  \/ \E w \in Worker : WorkerStep(w) \/ Crash(w)
  \/ Tick \/ SetBack

Spec == Init /\ [][Next]_vars

\* The timer starts a pass every five minutes and every SMTP operation ends
\* within its timeout, so no worker waits for ever; time passes.
Fairness == WF_vars(Tick) /\ \A w \in Worker : WF_vars(WorkerStep(w))

FairSpec == Spec /\ Fairness

-----------------------------------------------------------------------------
(* Properties.                                                             *)

\* "Uncertain outcomes are not retried automatically because that could send
\* a duplicate" (BEGINNER_GUIDE.md): whatever crashes, times out or is
\* retried, the mail server takes no message twice.
NeverSentTwice == \A m \in MsgId : copies[m] <= 1

\* A message that can still be sent belongs to the activation that is enabled
\* now: disabling or reconfiguring the route leaves nothing behind to retarget.
QueueOnLiveActivation ==
  \A m \in MsgId : outbox[m].state \in {"pending", "leased"} =>
    /\ route.state = "enabled" /\ outbox[m].activation = route.activation

\* "Claims use exclusive leases": two processes never work on one message, not
\* even when the lease of one of them has expired.
ExclusiveWorker ==
  \A v, w \in Worker : v # w /\ worker[v].pc # "idle" /\ worker[w].pc # "idle" =>
    worker[v].msg # worker[w].msg

\* The audit trail: exactly the leased messages have a started attempt, it is
\* the latest one, and whatever was or can be tried again failed retryably.
AuditTrail ==
  \A m \in MsgId : \A k \in 1..MaxAttempts :
    /\ delivery[m][k] = "started" <=> outbox[m].state = "leased" /\ k = outbox[m].attempts
    /\ k < outbox[m].attempts \/ (k = outbox[m].attempts /\ outbox[m].state = "pending")
         => delivery[m][k] = "retryable_failure"
    /\ k > outbox[m].attempts => delivery[m][k] = "none"

\* No recovery reaches the recipient before an alert about the same incident,
\* sent under the same activation, did.
RecoveryAfterAlert ==
  \A m \in MsgId : outbox[m].type = "resolved" /\ copies[m] > 0 =>
    \E d \in MsgId : /\ outbox[d].type \in ActiveTypes /\ outbox[d].state = "delivered"
                     /\ copies[d] > 0 /\ outbox[d].incident = outbox[m].incident
                     /\ outbox[d].activation = outbox[m].activation

\* "A recovery message directly depends on the delivered active message from
\* the same incident cycle and activation" (ARCHITECTURE.md).
RecoveryOfSameCycle ==
  \A m \in MsgId : outbox[m].dep # None => outbox[outbox[m].dep].cycle = outbox[m].cycle

\* Held, delivered and given-up messages stay so, with the same content:
\* "Existing held messages remain local forever" (BEGINNER_GUIDE.md).
SettledForGood ==
  [][\A m \in MsgId : outbox[m].state \in {"held", "delivered", "dead_letter"} =>
       outbox'[m] = outbox[m]]_vars

\* "External email is stopped" once email-disable has returned (cli.py): the
\* mail server accepts nothing while the route is off.
NothingSentWhileOff == [][route.state # "enabled" => copies' = copies]_vars

\* Every queued message is delivered, given up or withheld in the end: again
\* and again nothing is left in the queue.
QueueDrains == []<>(\A m \in MsgId : outbox[m].state \notin {"pending", "leased"})

-----------------------------------------------------------------------------
(* The inductive invariant behind the safety properties.                   *)

\* Rows are written in rowid order; a queued message has an attempt left and
\* a message given up was attempted.
RowsWritten ==
  \A m \in MsgId :
    /\ outbox[m].state = "absent" <=> m > rows
    /\ outbox[m].state = "absent" => outbox[m].attempts = 0
    /\ outbox[m].state = "pending" => outbox[m].attempts < MaxAttempts
    /\ outbox[m].state \in {"leased", "dead_letter"} => outbox[m].attempts > 0

\* A worker holds the latest attempt of its message, leased or already given
\* up as ambiguous behind its back.
HoldersOfLeases ==
  \A w \in Worker : worker[w].pc # "idle" =>
    LET m == worker[w].msg IN
    /\ m \in MsgId /\ worker[w].attempt = outbox[m].attempts
    /\ outbox[m].state \in {"leased", "dead_letter"}
    /\ outbox[m].state = "dead_letter" => delivery[m][outbox[m].attempts] = "ambiguous"
    /\ worker[w].pc = "reporting" => worker[w].outcome \in Outcome

\* What the ledger and the workers know about acceptance is true.
CopiesAccounted ==
  /\ \A m \in MsgId :
       /\ copies[m] \in {0, 1}
       /\ outbox[m].state = "delivered" => copies[m] = 1
       /\ outbox[m].state \in {"absent", "held", "pending"} => copies[m] = 0
       /\ outbox[m].state = "dead_letter"
            /\ delivery[m][outbox[m].attempts] # "ambiguous" => copies[m] = 0
  /\ \A w \in Worker :
       /\ worker[w].pc \in {"connecting", "sending"} => copies[worker[w].msg] = 0
       /\ worker[w].pc = "accepted" => copies[worker[w].msg] = 1
       /\ worker[w].pc = "reporting" =>
            /\ worker[w].outcome = "succeeded" => copies[worker[w].msg] = 1
            /\ worker[w].outcome \in {"retryable_failure", "permanent_failure"} =>
                 copies[worker[w].msg] = 0

LeaseInv == TypeOK /\ RowsWritten /\ AuditTrail /\ QueueOnLiveActivation
            /\ HoldersOfLeases /\ ExclusiveWorker
OutboxInv == LeaseInv /\ CopiesAccounted

-----------------------------------------------------------------------------
(* The outbox keeps the delivery promise.                                  *)

StatusOf(m) ==
  CASE outbox[m].state \in {"pending", "leased"} -> "queued"
    [] outbox[m].state = "held" -> "withheld"
    [] outbox[m].state = "dead_letter" ->
         IF delivery[m][outbox[m].attempts] = "ambiguous" THEN "uncertain" ELSE "failed"
    [] OTHER -> outbox[m].state

Promise == INSTANCE DeliveryPromise WITH
             Message <- MsgId, status <- [m \in MsgId |-> StatusOf(m)]
PromiseSpec == Promise!PromiseSpec
=============================================================================
