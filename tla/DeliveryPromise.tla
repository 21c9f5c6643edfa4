--------------------------- MODULE DeliveryPromise ---------------------------
(***************************************************************************)
(* What the notification outbox promises about each message, whatever the  *)
(* workers, the mail server and the operator do: at most one copy ever     *)
(* reaches the recipient, and the ledger never says more than is known.    *)
(*                                                                         *)
(*   queued     will be delivered, or given up, by some later attempt      *)
(*   delivered  the one copy was accepted by the mail server               *)
(*   failed     given up; no copy was accepted and none ever will be       *)
(*   uncertain  given up; a copy may have been accepted                    *)
(*   withheld   kept local for ever; no copy was accepted                  *)
(***************************************************************************)
EXTENDS Naturals

CONSTANT Message

VARIABLES
  status,   \* status[m]: what the ledger says of m
  copies    \* copies[m]: how many times the mail server accepted m

promiseVars == <<status, copies>>

Status == {"absent", "queued", "delivered", "failed", "uncertain", "withheld"}

PromiseInit ==
  /\ status = [m \in Message |-> "absent"]
  /\ copies = [m \in Message |-> 0]

Stay(m) == status'[m] = status[m] /\ copies'[m] = copies[m]

\* A new message is queued, or withheld when nothing may be sent.
Post(m) ==
  /\ status[m] = "absent" /\ status'[m] \in {"queued", "withheld"}
  /\ copies'[m] = copies[m]

\* The mail server takes the copy; a worker that lost its lease may still be
\* sending a message already counted as uncertain.
Accept(m) ==
  /\ status[m] \in {"queued", "uncertain"} /\ copies[m] = 0
  /\ status'[m] = status[m] /\ copies'[m] = 1

Confirm(m) ==
  /\ status[m] = "queued" /\ copies[m] = 1
  /\ status'[m] = "delivered" /\ copies'[m] = copies[m]

GiveUp(m) ==
  /\ status[m] = "queued"
  /\ \/ status'[m] = "uncertain"
     \/ status'[m] = "failed" /\ copies[m] = 0
  /\ copies'[m] = copies[m]

Withhold(m) ==
  /\ status[m] = "queued" /\ copies[m] = 0
  /\ status'[m] = "withheld" /\ copies'[m] = copies[m]

Move(m) == Stay(m) \/ Post(m) \/ Accept(m) \/ Confirm(m) \/ GiveUp(m) \/ Withhold(m)

\* One transaction of the ledger may move several messages at once.
PromiseNext ==
  /\ status' \in [Message -> Status]
  /\ \A m \in Message : Move(m)

PromiseSpec == PromiseInit /\ [][PromiseNext]_promiseVars
=============================================================================
