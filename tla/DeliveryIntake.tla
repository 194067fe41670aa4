---------------------------- MODULE DeliveryIntake ----------------------------
(***************************************************************************)
(* From a webhook request to a receipt: handleGitHubWebhookHttp of         *)
(* src/src/http-contract.ts, receiveGitHubWebhook of src/src/webhook.ts    *)
(* and, behind it, acceptTrustedDelivery and reconcileAcceptance over the  *)
(* store of TrustedIngress.  Requests are handled side by side; the answer *)
(* of the store may be ambiguous, the answer to GitHub may be lost, and    *)
(* GitHub sends a request again as often as it likes.                      *)
(*                                                                         *)
(* The listener that joins them is the deployment's: its durable store     *)
(* hands a record to acceptTrustedDelivery, and after an ambiguous answer  *)
(* it reconciles or answers 503.                                           *)
(***************************************************************************)
EXTENDS TrustedIngress

CONSTANTS
  Request,  \* what may be sent: the HTTP parts and the delivery, see Shapes
  Handler,  \* requests handled side by side
  MaxSends  \* bound: requests that arrive and claims that are repeated

VARIABLES
  handler,  \* [Handler -> [at, q, received, outcome]]
  told,     \* [Request -> the last status GitHub got, 0 for none]
  sends,
  claimed,  \* history: requests whose claim took effect
  accepted  \* history: [q, received, when] of every new receipt, in order

intake == <<handler, told, sends, claimed, accepted>>

Idle == [at |-> "idle", q |-> None, received |-> 0, outcome |-> None]

ASSUME IntakeAssumption ==
  /\ MaxSends \in Nat
  /\ \A q \in Request :
       /\ q.binding \in Binding /\ q.body \in Body
       /\ q.id \in DeliveriesOf[q.binding.tenant]

-----------------------------------------------------------------------------
(* handleGitHubWebhookHttp, before it calls receiveGitHubWebhook *)

HttpRefusal(q) ==
  IF q.method # "POST" THEN 405
  ELSE IF q.size = "large" THEN 413
  ELSE IF q.type # "application/json" \/ q.length = "odd" THEN 400
  ELSE IF q.length = "large" THEN 413
  ELSE IF q.length = "other" THEN 400
  ELSE 0

(* receiveGitHubWebhook: the headers, the signature over the raw body, the   *)
(* payload, the allowlists.                                                  *)
EventActions ==
  [pull_request |-> {"opened", "reopened", "synchronize", "edited", "labeled",
                     "unlabeled", "ready_for_review", "converted_to_draft"},
   pull_request_review |-> {"submitted", "edited", "dismissed"}]

(* verifyWebhookSignature; hookId is the configured one. *)
Authentic(q) == q.signed /\ q.hook

Understood(q) ==
  /\ q.event \in DOMAIN EventActions
  /\ q.action \in EventActions[q.event]
  /\ q.ownBase
  /\ q.event = "pull_request_review" <=> q.review

Admissible(q) == Authentic(q) /\ Understood(q) /\ q.allowed

(* The replay window, in both modules with the same two times. *)
Timely(received) == clock - received <= ReplayAge /\ received - clock <= FutureSkew

-----------------------------------------------------------------------------
(* What claim finds, and what reconcileAcceptance finds *)

SameWork(r, q) == records[r].body = q.body /\ records[r].binding = q.binding

Compared(r, q) == IF SameWork(r, q) THEN "duplicate" ELSE "conflict"

(* Seeded fault: a body seen before is a conflict under another GUID. *)
FoundByGuid(q) ==
  LET k == q.binding
      r == deliveries[k.tenant][q.id]
      s == bodies[k.tenant][q.body]
  IN IF r # None THEN IF r \notin Live THEN "unknown" ELSE Compared(r, q)
     ELSE IF s # None THEN "conflict" ELSE "new"

Found(q) ==
  LET k == q.binding
      r == deliveries[k.tenant][q.id]
      s == bodies[k.tenant][q.body]
  IN IF r # None THEN IF r \notin Live THEN "unknown" ELSE Compared(r, q)
     ELSE IF s = None THEN "new"
     ELSE IF s \notin Live THEN "unknown"
     ELSE IF records[s].binding = k THEN "duplicate" ELSE "conflict"

(* reconcileAcceptance *)
Reconciled(q) ==
  CASE Found(q) = "new" -> "missing"
    [] Found(q) = "unknown" /\ deliveries[q.binding.tenant][q.id] = None -> "conflict"
    [] OTHER -> Found(q)

(* Seeded fault: an ambiguous claim is acknowledged. *)
StatusHopeful(outcome) ==
  CASE outcome \in {"new", "unknown"} -> 202 [] outcome = "duplicate" -> 200
    [] outcome = "conflict" -> 409 [] outcome = "invalid" -> 400

(* The result of acceptTrustedDelivery, as receiveGitHubWebhook and the HTTP *)
(* contract pass it on.                                                      *)
Status(outcome) ==
  CASE outcome = "new" -> 202 [] outcome = "duplicate" -> 200
    [] outcome = "conflict" -> 409 [] outcome = "unknown" -> 503
    [] outcome = "invalid" -> 400

-----------------------------------------------------------------------------
(* A handler *)

Becomes(h, at, outcome) ==
  handler' = [handler EXCEPT ![h] =
    [at |-> at, q |-> handler[h].q, outcome |-> outcome,
     received |-> IF at = "answer" THEN 0 ELSE handler[h].received]]

Refusal(q) == IF HttpRefusal(q) # 0 THEN HttpRefusal(q) ELSE Status("invalid")

(* A request arrives, for the first time or again; the host says when it was *)
(* received.                                                                 *)
Arrive(h) ==
  /\ handler[h].at = "idle" /\ sends < MaxSends
  /\ sends' = sends + 1
  /\ \E q \in Request, received \in 0 .. clock + FutureSkew :
       IF HttpRefusal(q) = 0 /\ Admissible(q) /\ Timely(received)
       THEN /\ handler' = [handler EXCEPT ![h] =
                 [at |-> "claim", q |-> q, received |-> received, outcome |-> None]]
            /\ UNCHANGED told
       ELSE /\ told' = [told EXCEPT ![q] = Refusal(q)]
            /\ UNCHANGED handler
  /\ UNCHANGED <<vars, claimed, accepted>>

(* acceptTrustedDelivery: one transaction of the store, whose answer may be  *)
(* ambiguous whether it took effect or not.                                  *)
AcceptTrusted(h) ==
  LET q == handler[h].q
      found == Found(q)
      effective == acceptFault # "unknown-before-commit"
  IN /\ handler[h].at = "claim"
     /\ acceptFault' = "none"
     /\ IF effective
        THEN ClaimKnown(q.id, q.body, q.binding, handler[h].received)
        ELSE UNCHANGED <<records, indexes>>
     /\ claimed' = IF effective /\ found \in {"new", "duplicate"}
                   THEN claimed \cup {q} ELSE claimed
     /\ accepted' = IF effective /\ found = "new"
                    THEN Append(accepted, [q |-> q, received |-> handler[h].received,
                                           when |-> clock])
                    ELSE accepted
     /\ LET outcome == IF acceptFault = "none" THEN found ELSE "unknown"
        IN Becomes(h, IF outcome = "unknown" THEN "unresolved" ELSE "answer", outcome)
     /\ UNCHANGED <<clock, outbox, mode, told, sends>>

(* requiresReconciliation: a durable read before any retry.  Only what is    *)
(* missing is claimed again.                                                 *)
ReconcileAcceptance(h) ==
  /\ handler[h].at = "unresolved"
  /\ LET outcome == Reconciled(handler[h].q)
     IN IF outcome = "missing"
        THEN /\ sends < MaxSends /\ sends' = sends + 1
             /\ Becomes(h, "claim", None)
        ELSE Becomes(h, "answer", outcome) /\ UNCHANGED sends
  /\ UNCHANGED <<vars, told, claimed, accepted>>

(* The answer is sent; "unresolved" is 503.  It may be lost on the way, or   *)
(* the process ends first.                                                   *)
Answer(h) ==
  /\ handler[h].at \in {"answer", "unresolved"}
  /\ handler' = [handler EXCEPT ![h] = Idle]
  /\ \/ told' = [told EXCEPT ![handler[h].q] = Status(handler[h].outcome)]
     \/ UNCHANGED told
  /\ UNCHANGED <<vars, sends, claimed, accepted>>

IntakeInit ==
  /\ Init
  /\ handler = [h \in Handler |-> Idle]
  /\ told = [q \in Request |-> 0]
  /\ sends = 0 /\ claimed = {} /\ accepted = <<>>

StoreStep ==
  /\ \/ Cleanup \/ Tick
     \/ /\ acceptFault = "none" /\ \E h \in Handler : handler[h].at = "claim"
        /\ \E fault \in InjectedFaults : SetAcceptFault(fault)
  /\ UNCHANGED intake

IntakeNext ==
  \/ \E h \in Handler :
       Arrive(h) \/ AcceptTrusted(h) \/ ReconcileAcceptance(h) \/ Answer(h)
  \/ StoreStep

IntakeSpec == IntakeInit /\ [][IntakeNext]_<<vars, intake>>

-----------------------------------------------------------------------------
(* Properties *)

SameBody(p, q) == p.binding.tenant = q.binding.tenant /\ p.body = q.body

(* GitHub is told 2xx only about a delivery whose body has a receipt for the *)
(* same binding, and for as long as the tombstone must be kept the store     *)
(* knows that body: no answer that was ambiguous, lost or given to another   *)
(* handler acknowledges work nobody will do.                                 *)
AnsweredIsHeld ==
  \A q \in Request : told[q] \in {200, 202} =>
    \E i \in DOMAIN accepted :
      LET a == accepted[i]
      IN /\ SameBody(a.q, q) /\ a.q.binding = q.binding
         /\ clock < a.received + Retention =>
              /\ KnownBody(q.body, q.binding)
              /\ records[bodies[q.binding.tenant][q.body]].binding = q.binding

(* A delivery is not refused as a conflict with itself: after a lost or      *)
(* ambiguous answer, 409 means that another request took its GUID or its     *)
(* body.                                                                     *)
NotRefusedForItself ==
  \A q \in Request : told[q] = 409 =>
    \E p \in claimed :
      /\ p.binding.tenant = q.binding.tenant
      /\ p.id = q.id \/ p.body = q.body
      /\ p.body # q.body \/ p.binding # q.binding

(* One body is accepted once, and again only when the retention of its first *)
(* receipt has passed: not by a redelivery, a new GUID, a retry after an     *)
(* ambiguous answer or two handlers at once.                                 *)
AcceptedOnce ==
  \A i, j \in DOMAIN accepted :
    i < j /\ SameBody(accepted[i].q, accepted[j].q) =>
      accepted[j].when >= accepted[i].received + Retention
=============================================================================
