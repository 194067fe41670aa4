------------------------- MODULE DeliveryIntakeProofs -------------------------
(***************************************************************************)
(* Theorems about DeliveryIntake for any number of handlers, deliveries,   *)
(* bodies and tenants.  They rest on the invariants of the store, which    *)
(* are proved in TrustedIngressProofs and hold in the composition as well, *)
(* and like those of the replay keys need DisjointDeliveries.              *)
(***************************************************************************)
EXTENDS DeliveryIntake, TrustedIngressProofs

allVars == <<vars, intake>>

Outcome == {"new", "duplicate", "conflict", "unknown", "invalid"}

HandlerState ==
  [at : {"idle", "claim", "unresolved", "answer"}, q : Request \cup {None},
   received : Nat, outcome : Outcome \cup {None}]

Decided(h) == handler[h].at \in {"unresolved", "answer"}

IntakeTypeOK ==
  /\ handler \in [Handler -> HandlerState]
  /\ \A h \in Handler : handler[h].at # "idle" => handler[h].q \in Request
  /\ \A h \in Handler : Decided(h) => handler[h].outcome \in Outcome
  /\ DOMAIN told = Request
  /\ accepted \in Seq([q : Request, received : Nat, when : Nat])

(* A body was accepted for the binding of q. *)
Answered(q) ==
  \E i \in DOMAIN accepted :
    accepted[i].q.body = q.body /\ accepted[i].q.binding = q.binding

(* Another request that took effect has q's GUID or body for other work.     *)
Contested(q) ==
  \E p \in claimed :
    /\ p.binding.tenant = q.binding.tenant
    /\ p.id = q.id \/ p.body = q.body
    /\ p.body # q.body \/ p.binding # q.binding

(* Outcomes that were found, and statuses that were sent, are so for good.   *)
Truthful ==
  /\ \A h \in Handler : Decided(h) =>
       /\ handler[h].outcome \in {"new", "duplicate"} => Answered(handler[h].q)
       /\ handler[h].outcome = "conflict" => Contested(handler[h].q)
  /\ \A q \in Request :
       /\ told[q] \in {200, 202} => Answered(q)
       /\ told[q] = 409 => Contested(q)

(* Every receipt, and every GUID it answers to, comes from a request.        *)
Backed ==
  \A r \in Live :
    /\ \E i \in DOMAIN accepted :
         /\ accepted[i].q.body = records[r].body
         /\ accepted[i].q.binding = records[r].binding
    /\ \A d \in records[r].deliveryIds : \E p \in claimed :
         p.id = d /\ p.body = records[r].body /\ p.binding = records[r].binding

(* r is the receipt of what was accepted in i.                               *)
ReceiptOf(r, i) ==
  /\ records[r].body = accepted[i].q.body
  /\ records[r].binding = accepted[i].q.binding
  /\ records[r].receivedAt = accepted[i].received

(* What was accepted has its receipt until the retention ends.               *)
Held ==
  \A i \in DOMAIN accepted :
    clock < accepted[i].received + Retention => \E r \in Live : ReceiptOf(r, i)

Store == TypeOK /\ Index
IInv == Store /\ IntakeTypeOK /\ Truthful /\ Backed /\ Held /\ AcceptedOnce

LEMMA AcceptedEntry ==
  ASSUME IntakeTypeOK, NEW i \in DOMAIN accepted
  PROVE  /\ accepted[i].q \in Request
         /\ accepted[i].received \in Nat /\ accepted[i].when \in Nat
<1> DEFINE S == [q : Request, received : Nat, when : Nat]
<1>1. accepted \in Seq(S) /\ i \in 1 .. Len(accepted)
  BY DEF IntakeTypeOK
<1>2. accepted[i] \in S
  <2> HIDE DEF S
  <2> QED BY <1>1
<1>3. QED BY <1>2

-----------------------------------------------------------------------------
(* The three properties follow from the invariant.                           *)

LEMMA HeldIsAnswered ==
  ASSUME Store, IntakeTypeOK, Truthful, Held PROVE AnsweredIsHeld
<1> SUFFICES ASSUME NEW q \in Request, told[q] \in {200, 202}
    PROVE \E i \in DOMAIN accepted :
      /\ SameBody(accepted[i].q, q) /\ accepted[i].q.binding = q.binding
      /\ clock < accepted[i].received + Retention =>
           /\ KnownBody(q.body, q.binding)
           /\ records[bodies[q.binding.tenant][q.body]].binding = q.binding
  BY DEF AnsweredIsHeld
<1>1. PICK i \in DOMAIN accepted :
        accepted[i].q.body = q.body /\ accepted[i].q.binding = q.binding
  BY DEF Truthful, Answered
<1>2. ASSUME clock < accepted[i].received + Retention
      PROVE  /\ KnownBody(q.body, q.binding)
             /\ records[bodies[q.binding.tenant][q.body]].binding = q.binding
  <2>1. PICK r \in Live : ReceiptOf(r, i)
    BY <1>2 DEF Held
  <2>2. bodies[q.binding.tenant][q.body] = r
    BY <1>1, <2>1 DEF ReceiptOf, Store, Index, ReceiptsIndexed
  <2>3. r # None
    BY NamesAssumption DEF Live
  <2>4. QED BY <1>1, <2>1, <2>2, <2>3 DEF ReceiptOf, KnownBody
<1>3. QED BY <1>1, <1>2 DEF SameBody

LEMMA ContestedIsConflict == Truthful => NotRefusedForItself
BY DEF Truthful, NotRefusedForItself, Contested

-----------------------------------------------------------------------------
(* What claim finds                                                          *)

(* 2xx and 409 mean one thing each.                                          *)
LEMMA StatusMeans ==
  ASSUME NEW o \in Outcome
  PROVE  /\ Status(o) \in {200, 202} => o \in {"new", "duplicate"}
         /\ Status(o) = 409 => o = "conflict"
BY DEF Status, Outcome

LEMMA RequestType ==
  ASSUME NEW q \in Request
  PROVE  /\ q.binding \in Binding /\ q.body \in Body
         /\ q.id \in DeliveriesOf[q.binding.tenant] /\ q.id \in DeliveryId
         /\ q.binding.tenant \in Tenant /\ q.binding.pull \in Pull
BY IntakeAssumption, DeliveryOfTenant

(* A duplicate has been accepted before.                                     *)
LEMMA DuplicateAnswered ==
  ASSUME Store, Backed, NEW q \in Request, Found(q) = "duplicate"
  PROVE  Answered(q)
<1> DEFINE k == q.binding
           r == deliveries[k.tenant][q.id]
           s == bodies[k.tenant][q.body]
<1>1. CASE r # None
  <2>1. r \in Live /\ SameWork(r, q)
    BY <1>1 DEF Found, Compared
  <2>2. QED BY <2>1 DEF SameWork, Backed, Answered
<1>2. CASE r = None
  <2>1. s # None /\ s \in Live /\ records[s].binding = k
    BY <1>2 DEF Found
  <2>2. records[s].body = q.body
    BY <2>1, RequestType DEF Store, Index, TenantIsolation
  <2>3. QED BY <2>1, <2>2 DEF Backed, Answered
<1>3. QED BY <1>1, <1>2

(* A conflict is with another request, of the same GUID or the same body.    *)
LEMMA ConflictContested ==
  ASSUME Store, Backed, NEW q \in Request, Found(q) = "conflict"
  PROVE  Contested(q)
<1> DEFINE k == q.binding
           r == deliveries[k.tenant][q.id]
           s == bodies[k.tenant][q.body]
<1>1. CASE r # None
  <2>1. r \in Live /\ ~SameWork(r, q)
    BY <1>1 DEF Found, Compared
  <2>2. records[r].binding.tenant = k.tenant /\ q.id \in records[r].deliveryIds
    BY <1>1, RequestType DEF Store, Index, TenantIsolation
  <2>3. PICK p \in claimed :
          /\ p.id = q.id /\ p.body = records[r].body
          /\ p.binding = records[r].binding
    BY <2>1, <2>2 DEF Backed
  <2>4. QED BY <2>1, <2>2, <2>3 DEF Contested, SameWork
<1>2. CASE r = None
  <2>1. s # None /\ s \in Live /\ records[s].binding # k
    BY <1>2 DEF Found
  <2>2. records[s].body = q.body /\ records[s].binding.tenant = k.tenant
    <3>1. k.tenant \in Tenant /\ q.body \in Body
      BY RequestType
    <3>2. QED BY <2>1, <3>1 DEF Store, Index, TenantIsolation
  <2>3. s \in records[s].deliveryIds
    BY <2>1 DEF Store, Index, ReceiptsIndexed
  <2>4. PICK p \in claimed :
          p.body = records[s].body /\ p.binding = records[s].binding
    BY <2>1, <2>3 DEF Backed
  <2>5. QED BY <2>1, <2>2, <2>4 DEF Contested
<1>3. QED BY <1>1, <1>2

(* A record that is gone is never found.                                     *)
LEMMA NeverUnknown ==
  ASSUME Store, NEW q \in Request
  PROVE  Found(q) \in {"new", "duplicate", "conflict"}
<1> DEFINE k == q.binding
           r == deliveries[k.tenant][q.id]
           s == bodies[k.tenant][q.body]
<1>1. /\ r # None => r \in Live
      /\ s # None => s \in Live
  BY RequestType DEF Store, Index, TenantIsolation
<1>2. Compared(r, q) \in {"duplicate", "conflict"}
  BY DEF Compared
<1>3. QED BY <1>1, <1>2 DEF Found

-----------------------------------------------------------------------------
(* Steps that touch neither the receipts nor what was accepted               *)

StoreKept == UNCHANGED <<records, indexes, outbox, mode>>

(* What a handler was told stays true while the histories only grow.         *)
LEMMA StoreKeptHolds ==
  ASSUME IInv, StoreKept, UNCHANGED <<claimed, accepted>>,
         clock' \in Nat, clock' >= clock, acceptFault' \in Fault
  PROVE  Store' /\ Backed' /\ Held' /\ AcceptedOnce'
<1>1. Live' = Live /\ \A r \in Live : SameKeys(records'[r], records[r])
  BY DEF StoreKept, Live, SameKeys
<1>2. TypeOK'
  BY DEF IInv, Store, TypeOK, StoreKept, indexes
<1>3. Index'
  BY <1>1, SameKeysIndex DEF IInv, Store, StoreKept
<1>4. Backed'
  BY <1>1 DEF IInv, Backed, StoreKept
<1>5. Held'
  <2>1. SUFFICES ASSUME NEW i \in DOMAIN accepted,
                        clock' < accepted[i].received + Retention
                 PROVE  \E r \in Live : ReceiptOf(r, i)
    BY <1>1 DEF Held, ReceiptOf, StoreKept
  <2>2. accepted[i].received \in Nat
    BY <2>1, AcceptedEntry DEF IInv
  <2>3. clock < accepted[i].received + Retention
    <3>1. Retention \in Nat /\ clock \in Nat
      BY LimitsAssumption DEF IInv, Store, TypeOK
    <3>2. QED BY <2>1, <2>2, <3>1
  <2>4. QED BY <2>3 DEF IInv, Held
<1>6. AcceptedOnce'
  BY DEF IInv, AcceptedOnce, SameBody
<1>7. QED BY <1>2, <1>3, <1>4, <1>5, <1>6 DEF Store

LEMMA ArriveKeeps ==
  ASSUME IInv, NEW h \in Handler, Arrive(h) PROVE IInv'
<1>1. /\ UNCHANGED <<vars, claimed, accepted>> /\ clock \in Nat
      /\ acceptFault \in Fault
  BY DEF Arrive, IInv, Store, TypeOK
<1>2. Store' /\ Backed' /\ Held' /\ AcceptedOnce'
  BY <1>1, StoreKeptHolds DEF vars, indexes, StoreKept
<1>3. PICK q \in Request, received \in 0 .. clock + FutureSkew :
        \/ /\ handler' = [handler EXCEPT ![h] =
                 [at |-> "claim", q |-> q, received |-> received, outcome |-> None]]
           /\ UNCHANGED told
        \/ /\ told' = [told EXCEPT ![q] = Refusal(q)]
           /\ UNCHANGED handler
  BY Zenon DEF Arrive
<1>4. CASE /\ handler' = [handler EXCEPT ![h] =
                 [at |-> "claim", q |-> q, received |-> received, outcome |-> None]]
           /\ UNCHANGED told
  <2>1. [at |-> "claim", q |-> q, received |-> received, outcome |-> None]
          \in HandlerState
    BY <1>1, LimitsAssumption DEF HandlerState
  <2>2. IntakeTypeOK'
    BY <1>1, <1>4, <2>1 DEF IInv, IntakeTypeOK, Decided
  <2>3. Truthful'
    BY <1>1, <1>4 DEF IInv, IntakeTypeOK, Truthful, Decided, Answered, Contested
  <2>4. QED BY <1>2, <2>2, <2>3 DEF IInv
<1>5. CASE /\ told' = [told EXCEPT ![q] = Refusal(q)]
           /\ UNCHANGED handler
  <2>1. Refusal(q) \in {405, 413, 400}
    BY DEF Refusal, HttpRefusal, Status
  <2>2. IntakeTypeOK'
    BY <1>1, <1>5 DEF IInv, IntakeTypeOK, Decided
  <2>3. Truthful'
    BY <1>1, <1>5, <2>1 DEF IInv, IntakeTypeOK, Truthful, Decided, Answered, Contested
  <2>4. QED BY <1>2, <2>2, <2>3 DEF IInv
<1>6. QED BY <1>3, <1>4, <1>5

LEMMA AnswerKeeps ==
  ASSUME IInv, NEW h \in Handler, Answer(h) PROVE IInv'
<1>1. /\ UNCHANGED <<vars, claimed, accepted>> /\ clock \in Nat
      /\ acceptFault \in Fault
  BY DEF Answer, IInv, Store, TypeOK
<1>2. Store' /\ Backed' /\ Held' /\ AcceptedOnce'
  BY <1>1, StoreKeptHolds DEF vars, indexes, StoreKept
<1> DEFINE q == handler[h].q
           o == handler[h].outcome
<1>3. /\ q \in Request /\ handler[h] \in HandlerState
      /\ handler' = [handler EXCEPT ![h] = Idle]
      /\ told' \in {told, [told EXCEPT ![q] = Status(o)]}
  BY DEF Answer, IInv, IntakeTypeOK
<1>4. IntakeTypeOK'
  <2>1. Idle \in HandlerState /\ Idle.at = "idle"
    BY DEF Idle, HandlerState
  <2>2. QED BY <1>1, <1>3, <2>1 DEF IInv, IntakeTypeOK, Decided
<1>5. /\ Status(o) \in {200, 202} => o \in {"new", "duplicate"}
      /\ Status(o) = 409 => o = "conflict"
  <2>1. o \in Outcome
    BY DEF Answer, IInv, IntakeTypeOK, Decided
  <2>2. QED BY <2>1, StatusMeans
<1>6. Truthful'
  <2>1. Decided(h)
    BY DEF Answer, Decided
  <2>2. /\ o \in {"new", "duplicate"} => Answered(q)
        /\ o = "conflict" => Contested(q)
    BY <2>1 DEF IInv, Truthful
  <2>3. \A g \in Handler : g # h => handler'[g] = handler[g]
    BY <1>3 DEF IInv, IntakeTypeOK
  <2>4. handler'[h].at = "idle"
    BY <1>3 DEF IInv, IntakeTypeOK, Idle
  <2>5. \A p \in Request : told'[p] # told[p] => p = q /\ told'[p] = Status(o)
    BY <1>3 DEF IInv, IntakeTypeOK
  <2>6. QED
    BY <1>1, <1>5, <2>2, <2>3, <2>4, <2>5 DEF IInv, Truthful, Decided, Answered,
      Contested
<1>7. QED BY <1>2, <1>4, <1>6 DEF IInv

(* What a handler may become, when what it found is true.                    *)
LEMMA BecomesTrue ==
  ASSUME IntakeTypeOK, Truthful,
         NEW h \in Handler, handler[h].at # "idle",
         NEW q \in Request, handler[h].q = q,
         NEW at \in {"claim", "unresolved", "answer"},
         NEW o \in Outcome \cup {None}, at # "claim" => o \in Outcome,
         Becomes(h, at, o), UNCHANGED told,
         claimed \subseteq claimed',
         \A p \in Request : Answered(p) => Answered(p)',
         at # "claim" /\ o \in {"new", "duplicate"} => Answered(q)',
         at # "claim" /\ o = "conflict" => Contested(q)'
  PROVE  /\ handler' \in [Handler -> HandlerState]
         /\ \A g \in Handler : handler'[g].at # "idle" => handler'[g].q \in Request
         /\ \A g \in Handler : Decided(g)' => handler'[g].outcome \in Outcome
         /\ Truthful'
<1> DEFINE new == [at |-> at, q |-> handler[h].q, outcome |-> o,
                   received |-> IF at = "answer" THEN 0 ELSE handler[h].received]
<1>1. handler' = [handler EXCEPT ![h] = new]
  BY DEF Becomes
<1>2. handler[h] \in HandlerState /\ handler[h].q \in Request
  BY DEF IntakeTypeOK
<1>3. new \in HandlerState
  BY <1>2 DEF HandlerState
<1>4. handler' \in [Handler -> HandlerState]
  BY <1>1, <1>3 DEF IntakeTypeOK
<1>5. /\ handler'[h] = new
      /\ \A g \in Handler : g # h => handler'[g] = handler[g]
  BY <1>1 DEF IntakeTypeOK
<1>6. \A p \in Request : Contested(p) => Contested(p)'
  BY DEF Contested
<1>7. ASSUME NEW g \in Handler, NEW p \in Request, Decided(g)', handler'[g].q = p
      PROVE  /\ handler'[g].outcome \in {"new", "duplicate"} => Answered(p)'
             /\ handler'[g].outcome = "conflict" => Contested(p)'
  <2>1. CASE g = h
    <3>1. handler'[g].at = at /\ p = q /\ handler'[g].outcome = o
      BY <1>5, <1>7, <2>1
    <3>2. at # "claim"
      BY <1>7, <3>1 DEF Decided
    <3>3. QED BY <3>1, <3>2
  <2>2. CASE g # h
    <3>1. handler'[g] = handler[g] /\ Decided(g) /\ handler[g].q = p
      BY <1>5, <1>7, <2>2 DEF Decided
    <3>2. /\ handler[g].outcome \in {"new", "duplicate"} => Answered(p)
          /\ handler[g].outcome = "conflict" => Contested(p)
      BY <3>1 DEF Truthful
    <3>3. QED BY <1>6, <3>1, <3>2
  <2>3. QED BY <2>1, <2>2
<1>8. \A g \in Handler : Decided(g)' => handler'[g].outcome \in Outcome
  BY <1>5 DEF Decided, IntakeTypeOK
<1>9. \A g \in Handler : handler'[g].at # "idle" => handler'[g].q \in Request
  BY <1>2, <1>5 DEF IntakeTypeOK
<1>10. Truthful'
  <2>1. \A p \in Request :
          /\ told'[p] \in {200, 202} => Answered(p)'
          /\ told'[p] = 409 => Contested(p)'
    BY <1>6 DEF Truthful
  <2>2. ASSUME NEW g \in Handler, Decided(g)'
        PROVE  handler'[g].q \in Request
    BY <1>9, <2>2 DEF Decided
  <2>3. QED BY <1>7, <2>1, <2>2 DEF Truthful, Answered, Contested
<1>11. QED BY <1>4, <1>8, <1>9, <1>10

LEMMA ReconcileKeeps ==
  ASSUME IInv, NEW h \in Handler, ReconcileAcceptance(h) PROVE IInv'
<1>0. handler[h].at = "unresolved" /\ handler[h].q \in Request
  BY DEF ReconcileAcceptance, IInv, IntakeTypeOK
<1> PICK q \in Request : q = handler[h].q
  BY <1>0
<1> DEFINE o == Reconciled(q)
<1>1. /\ UNCHANGED <<vars, told, claimed, accepted>> /\ clock \in Nat
      /\ acceptFault \in Fault
  BY DEF ReconcileAcceptance, IInv, Store, TypeOK, IntakeTypeOK
<1>2. Store' /\ Backed' /\ Held' /\ AcceptedOnce'
  BY <1>1, StoreKeptHolds DEF vars, indexes, StoreKept
<1>3. /\ o \in {"missing", "duplicate", "conflict"}
      /\ o = "duplicate" => Found(q) = "duplicate"
      /\ o = "conflict" => Found(q) = "conflict"
  BY <1>1, NeverUnknown DEF Reconciled, IInv
<1>4. /\ o = "duplicate" => Answered(q)'
      /\ o = "conflict" => Contested(q)'
  BY <1>1, <1>3, DuplicateAnswered, ConflictContested DEF IInv, Answered, Contested
<1>5. \A p \in Request : Answered(p) => Answered(p)'
  BY <1>1 DEF Answered
<1>6. IntakeTypeOK' /\ Truthful'
  <2>1. CASE o = "missing"
    <3>1. Becomes(h, "claim", None)
      BY <2>1 DEF ReconcileAcceptance
    <3>2. QED BY <1>0, <1>1, <1>5, <3>1, BecomesTrue DEF IInv, IntakeTypeOK
  <2>2. CASE o # "missing"
    <3>1. Becomes(h, "answer", o) /\ o \in Outcome /\ o # "new"
      BY <1>3, <2>2 DEF ReconcileAcceptance, Outcome
    <3>2. QED BY <1>0, <1>1, <1>4, <1>5, <3>1, BecomesTrue DEF IInv,
      IntakeTypeOK
  <2>3. QED BY <2>1, <2>2
<1>7. QED BY <1>2, <1>6 DEF IInv

-----------------------------------------------------------------------------
(* Cleanup forgets no receipt before its retention has passed.               *)

LEMMA CleanupKeeps ==
  ASSUME IInv, Cleanup, UNCHANGED intake PROVE IInv'
<1>1. PICK P \in PurgeSets : Purge(P)
  BY DEF Cleanup
<1>2. Store'
  BY <1>1, CleanupType, PurgeIndex DEF IInv, Store
<1>3. ASSUME NEW r \in Live, r \notin P
      PROVE  /\ r \in Live'
             /\ records'[r].body = records[r].body
             /\ records'[r].binding = records[r].binding
             /\ records'[r].receivedAt = records[r].receivedAt
             /\ records'[r].deliveryIds = records[r].deliveryIds
  <2> DEFINE e == records[r]
             f == [e EXCEPT !.bodyRetained = @ /\ clock < e.receivedAt + ReplayAge]
  <2>1. r \in DeliveryId /\ e \in Entry
    BY LiveEntry DEF IInv, Store
  <2>2. records'[r] = f
    BY <1>1, <1>3, <2>1 DEF Purge
  <2>3. f \in Entry /\ f # NoEntry
    BY <2>1, NamesAssumption DEF Entry
  <2>4. /\ f.body = e.body /\ f.binding = e.binding
        /\ f.receivedAt = e.receivedAt /\ f.deliveryIds = e.deliveryIds
    BY <2>1 DEF Entry
  <2>5. QED BY <2>1, <2>2, <2>3, <2>4 DEF Live
<1>4. ASSUME NEW r \in Live' PROVE r \in Live /\ r \notin P
  <2>1. r \in DeliveryId /\ records'[r] # NoEntry
    BY DEF Live
  <2>2. QED BY <1>1, <2>1 DEF Purge
<1>5. UNCHANGED <<clock, claimed, accepted, handler, told>>
  BY DEF Cleanup, intake
<1>6. Backed'
  BY <1>3, <1>4, <1>5 DEF IInv, Backed
<1>7. Held'
  <2>1. SUFFICES ASSUME NEW i \in DOMAIN accepted,
                        clock < accepted[i].received + Retention
                 PROVE  \E r \in Live' : ReceiptOf(r, i)'
    BY <1>5 DEF Held
  <2>2. PICK r \in Live : ReceiptOf(r, i)
    BY <2>1 DEF IInv, Held
  <2>3. r \notin P
    <3>1. accepted[i].received \in Nat /\ clock \in Nat /\ Retention \in Nat
      BY AcceptedEntry, LimitsAssumption DEF IInv, Store, TypeOK
    <3>2. ~(clock - records[r].receivedAt >= Retention)
      BY <2>1, <2>2, <3>1 DEF ReceiptOf
    <3>3. QED BY <1>1, <3>2 DEF PurgeSets, Due
  <2>4. QED BY <1>3, <1>5, <2>2, <2>3 DEF ReceiptOf
<1>8. IntakeTypeOK' /\ Truthful' /\ AcceptedOnce'
  BY <1>5 DEF IInv, IntakeTypeOK, Truthful, Decided, Answered, Contested,
              AcceptedOnce, SameBody
<1>9. QED BY <1>2, <1>6, <1>7, <1>8 DEF IInv

-----------------------------------------------------------------------------
(* acceptTrustedDelivery                                                     *)

(* The receipt of new work.                                                  *)
LEMMA NewReceipt ==
  ASSUME Store, DisjointDeliveries, NEW q \in Request, NEW at \in Nat,
         ClaimNew(q.id, q.body, q.binding, at)
  PROVE  /\ q.id \notin Live /\ Live' = Live \cup {q.id}
         /\ \A r \in Live : records'[r] = records[r]
         /\ records'[q.id].body = q.body
         /\ records'[q.id].binding = q.binding
         /\ records'[q.id].receivedAt = at
         /\ records'[q.id].deliveryIds = {q.id}
<1> DEFINE d == q.id
           e == NewEntry(d, q.body, q.binding, at, SlotOf(q.binding).generation + 1)
<1>1. d \in DeliveryId /\ d \notin Live
  BY RequestType, ClaimedIsNew DEF Store, Index, ClaimNew
<1>2. records' = [records EXCEPT ![d] = e]
  BY DEF ClaimNew
<1>3. SlotOf(q.binding).generation + 1 \in Nat \ {0}
  <2>1. SlotOf(q.binding) \in Slot
    BY RequestType DEF Store, TypeOK, SlotOf
  <2>2. QED BY <2>1 DEF Slot
<1>4. e # NoEntry
  BY <1>1, <1>3, RequestType, NewEntryType
<1>5. records'[d] = e /\ \A r \in DeliveryId : r # d => records'[r] = records[r]
  BY <1>1, <1>2 DEF Store, TypeOK
<1>6. Live' = Live \cup {d} /\ \A r \in Live : records'[r] = records[r]
  BY <1>1, <1>4, <1>5 DEF Live
<1>7. QED BY <1>1, <1>5, <1>6 DEF NewEntry

(* The receipt of known work, under one more GUID.                           *)
LEMMA AliasReceipt ==
  ASSUME Store, NEW q \in Request, ClaimAlias(q.id, q.body, q.binding)
  PROVE  /\ Live' = Live
         /\ \A r \in Live :
              /\ records'[r].body = records[r].body
              /\ records'[r].binding = records[r].binding
              /\ records'[r].receivedAt = records[r].receivedAt
              /\ \/ records'[r].deliveryIds = records[r].deliveryIds
                 \/ /\ records[r].body = q.body /\ records[r].binding = q.binding
                    /\ records'[r].deliveryIds = records[r].deliveryIds \cup {q.id}
<1> DEFINE s == bodies[q.binding.tenant][q.body]
           f == [records[s] EXCEPT !.deliveryIds = @ \cup {q.id}]
<1>1. s # None /\ records[s].binding = q.binding
  BY DEF ClaimAlias, KnownBody
<1>2. s \in Live /\ records[s].body = q.body
  BY <1>1, RequestType DEF Store, Index, TenantIsolation
<1>3. s \in DeliveryId /\ records[s] \in Entry
  BY <1>2, LiveEntry DEF Store
<1>4. f \in Entry /\ f # NoEntry
  <2>1. records[s].deliveryIds \cup {q.id} \in SUBSET DeliveryId
    BY <1>3, RequestType DEF Entry
  <2>2. f \in Entry
    BY <1>3, <2>1 DEF Entry
  <2>3. QED BY <2>2, NamesAssumption
<1>5. records'[s] = f /\ \A r \in DeliveryId : r # s => records'[r] = records[r]
  BY <1>3 DEF ClaimAlias, Store, TypeOK
<1>6. Live' = Live
  BY <1>2, <1>4, <1>5 DEF Live
<1>7. /\ f.body = records[s].body /\ f.binding = records[s].binding
      /\ f.receivedAt = records[s].receivedAt
      /\ f.deliveryIds = records[s].deliveryIds \cup {q.id}
  BY <1>3 DEF Entry
<1>8. \A r \in Live : r \in DeliveryId
  BY DEF Live
<1>9. QED BY <1>1, <1>2, <1>5, <1>6, <1>7, <1>8

(* The three ways a claim may go, with what is found.                        *)
LEMMA ClaimFinds ==
  ASSUME Store, NEW q \in Request, NEW at \in Nat,
         ClaimKnown(q.id, q.body, q.binding, at)
  PROVE  \/ Found(q) = "new" /\ ClaimNew(q.id, q.body, q.binding, at)
         \/ Found(q) = "duplicate" /\ ClaimAlias(q.id, q.body, q.binding)
         \/ /\ Found(q) \in {"duplicate", "conflict"}
            /\ UNCHANGED <<records, indexes>>
<1> DEFINE k == q.binding
           r == deliveries[k.tenant][q.id]
           s == bodies[k.tenant][q.body]
<1>1. CASE ClaimNew(q.id, q.body, k, at)
  <2>1. r = None /\ s = None
    BY <1>1 DEF ClaimNew, KnownDelivery, KnownBody
  <2>2. QED BY <1>1, <2>1 DEF Found
<1>2. CASE ClaimAlias(q.id, q.body, k)
  <2>1. r = None /\ s # None /\ records[s].binding = k
    BY <1>2 DEF ClaimAlias, KnownDelivery, KnownBody
  <2>2. s \in Live
    BY <2>1, RequestType DEF Store, Index, TenantIsolation
  <2>3. QED BY <1>2, <2>1, <2>2 DEF Found
<1>3. CASE ClaimRefused(q.id, q.body, k)
  <2>1. r # None \/ s # None
    BY <1>3 DEF ClaimRefused, KnownDelivery, KnownBody
  <2>2. Found(q) # "new"
    <3>1. Compared(r, q) # "new"
      BY DEF Compared
    <3>2. QED BY <2>1, <3>1 DEF Found
  <2>3. QED BY <1>3, <2>2, NeverUnknown DEF ClaimRefused
<1>4. QED BY <1>1, <1>2, <1>3 DEF ClaimKnown

(* New work: one more is accepted, and its body was not before, but for what *)
(* the retention has forgotten.                                              *)
LEMMA NewHolds ==
  ASSUME IInv, DisjointDeliveries, NEW q \in Request, NEW at \in Nat,
         ClaimNew(q.id, q.body, q.binding, at), UNCHANGED clock,
         claimed' = claimed \cup {q},
         accepted' = Append(accepted, [q |-> q, received |-> at, when |-> clock])
  PROVE  /\ Backed' /\ Held' /\ AcceptedOnce' /\ Answered(q)'
         /\ accepted' \in Seq([q : Request, received : Nat, when : Nat])
         /\ \A p \in Request : Answered(p) => Answered(p)'
<1> DEFINE a == [q |-> q, received |-> at, when |-> clock]
           S == [q : Request, received : Nat, when : Nat]
<1> PICK n : n = Len(accepted) + 1
  OBVIOUS
<1>0. Store /\ IntakeTypeOK /\ Backed /\ Held /\ AcceptedOnce /\ clock \in Nat
  BY DEF IInv, Store, TypeOK
<1>1. accepted \in Seq(S) /\ a \in S
  BY <1>0 DEF IntakeTypeOK
<1>2. /\ accepted' \in Seq(S)
      /\ DOMAIN accepted' = DOMAIN accepted \cup {n} /\ n \notin DOMAIN accepted
      /\ \A i \in DOMAIN accepted : i < n /\ accepted'[i] = accepted[i]
      /\ accepted'[n] = a
  <2> HIDE DEF S, a
  <2>1. accepted' = Append(accepted, a)
    BY DEF a
  <2>2. QED BY <1>1, <2>1
<1> HIDE DEF S
<1>3. /\ q.id \notin Live /\ Live' = Live \cup {q.id}
      /\ \A r \in Live : records'[r] = records[r]
      /\ records'[q.id].body = q.body
      /\ records'[q.id].binding = q.binding
      /\ records'[q.id].receivedAt = at
      /\ records'[q.id].deliveryIds = {q.id}
  BY <1>0, NewReceipt
<1>4. Backed'
  <2>1. ASSUME NEW r \in Live
        PROVE  /\ \E i \in DOMAIN accepted' :
                    /\ accepted'[i].q.body = records'[r].body
                    /\ accepted'[i].q.binding = records'[r].binding
               /\ \A d \in records'[r].deliveryIds : \E p \in claimed' :
                    /\ p.id = d /\ p.body = records'[r].body
                    /\ p.binding = records'[r].binding
    <3>1. records'[r] = records[r] /\ claimed \subseteq claimed'
      BY <1>3
    <3>2. PICK i \in DOMAIN accepted : /\ accepted[i].q.body = records[r].body
                                      /\ accepted[i].q.binding = records[r].binding
      BY <1>0 DEF Backed
    <3>3. i \in DOMAIN accepted' /\ accepted'[i] = accepted[i]
      BY <1>2
    <3>4. \A d \in records[r].deliveryIds : \E p \in claimed :
            p.id = d /\ p.body = records[r].body /\ p.binding = records[r].binding
      BY <1>0 DEF Backed
    <3>5. QED BY <3>1, <3>2, <3>3, <3>4
  <2>2. /\ accepted'[n].q.body = records'[q.id].body
        /\ accepted'[n].q.binding = records'[q.id].binding
    BY <1>2, <1>3
  <2>3. \A d \in records'[q.id].deliveryIds : \E p \in claimed' :
          /\ p.id = d /\ p.body = records'[q.id].body
          /\ p.binding = records'[q.id].binding
    BY <1>3
  <2>4. QED BY <1>2, <1>3, <2>1, <2>2, <2>3 DEF Backed
<1>5. Held'
  <2>1. ASSUME NEW i \in DOMAIN accepted, clock < accepted[i].received + Retention
        PROVE  \E r \in Live' : ReceiptOf(r, i)'
    <3>1. PICK r \in Live : ReceiptOf(r, i)
      BY <1>0, <2>1 DEF Held
    <3>2. QED BY <1>2, <1>3, <3>1 DEF ReceiptOf
  <2>2. ReceiptOf(q.id, n)'
    BY <1>2, <1>3 DEF ReceiptOf
  <2>3. QED BY <1>2, <1>3, <2>1, <2>2 DEF Held
<1>6. AcceptedOnce'
  <2>1. ASSUME NEW i \in DOMAIN accepted, SameBody(accepted[i].q, q)
        PROVE  clock >= accepted[i].received + Retention
    <3>1. SUFFICES ASSUME clock < accepted[i].received + Retention PROVE FALSE
      BY <1>0, AcceptedEntry, LimitsAssumption
    <3>2. PICK r \in Live : ReceiptOf(r, i)
      BY <1>0, <3>1 DEF Held
    <3>3. bodies[q.binding.tenant][q.body] = r /\ r # None
      BY <1>0, <2>1, <3>2, NamesAssumption
      DEF ReceiptOf, SameBody, Store, Index, ReceiptsIndexed, Live
    <3>4. QED BY <3>3 DEF ClaimNew, KnownBody
  <2>2. SUFFICES ASSUME NEW i \in DOMAIN accepted', NEW j \in DOMAIN accepted',
                        i < j, SameBody(accepted'[i].q, accepted'[j].q)
                 PROVE  accepted'[j].when >= accepted'[i].received + Retention
    BY DEF AcceptedOnce, SameBody
  <2>3. i \in DOMAIN accepted
    <3>1. DOMAIN accepted = 1 .. Len(accepted) /\ Len(accepted) \in Nat
      BY <1>1
    <3>2. QED BY <1>2, <2>2, <3>1
  <2>4. CASE j = n
    BY <1>2, <2>1, <2>2, <2>3, <2>4
  <2>5. CASE j \in DOMAIN accepted
    BY <1>0, <1>2, <2>2, <2>3, <2>5 DEF AcceptedOnce
  <2>6. QED BY <1>2, <2>4, <2>5
<1>7. Answered(q)'
  BY <1>2 DEF Answered
<1>8. \A p \in Request : Answered(p) => Answered(p)'
  BY <1>2 DEF Answered
<1>9. QED BY <1>2, <1>4, <1>5, <1>6, <1>7, <1>8 DEF S

(* Known work, and work that is refused.                                     *)
LEMMA KnownHolds ==
  ASSUME IInv, NEW q \in Request, claimed' \in {claimed, claimed \cup {q}},
         UNCHANGED <<clock, accepted>>,
         \/ q \in claimed' /\ ClaimAlias(q.id, q.body, q.binding)
         \/ UNCHANGED <<records, indexes>>
  PROVE  Backed' /\ Held' /\ AcceptedOnce'
<1>0. Store /\ IntakeTypeOK /\ Backed /\ Held /\ AcceptedOnce
  BY DEF IInv
<1>1. /\ Live' = Live
      /\ \A r \in Live :
           /\ records'[r].body = records[r].body
           /\ records'[r].binding = records[r].binding
           /\ records'[r].receivedAt = records[r].receivedAt
           /\ \/ records'[r].deliveryIds = records[r].deliveryIds
              \/ /\ records[r].body = q.body /\ records[r].binding = q.binding
                 /\ records'[r].deliveryIds = records[r].deliveryIds \cup {q.id}
                 /\ q \in claimed'
  <2>1. CASE q \in claimed' /\ ClaimAlias(q.id, q.body, q.binding)
    BY <1>0, <2>1, AliasReceipt
  <2>2. CASE UNCHANGED <<records, indexes>>
    BY <2>2 DEF Live
  <2>3. QED BY <2>1, <2>2
<1>2. Backed'
  BY <1>0, <1>1 DEF Backed
<1>3. Held'
  BY <1>0, <1>1 DEF Held, ReceiptOf
<1>4. AcceptedOnce'
  BY <1>0 DEF AcceptedOnce, SameBody
<1>5. QED BY <1>2, <1>3, <1>4

(* The store's own invariant over a claim of the intake.                     *)
LEMMA ClaimKeepsStore ==
  ASSUME Store, DisjointDeliveries, NEW q \in Request, NEW at \in Nat,
         UNCHANGED <<clock, outbox, mode>>, acceptFault' = "none",
         \/ ClaimKnown(q.id, q.body, q.binding, at)
         \/ UNCHANGED <<records, indexes>>
  PROVE  Store'
<1>1. TypeOK'
  BY RequestType, ClaimKnownType DEF Store
<1>2. CASE UNCHANGED <<records, indexes>>
  <2>1. Live' = Live /\ \A r \in Live : SameKeys(records'[r], records[r])
    BY <1>2 DEF Live, SameKeys
  <2>2. QED BY <1>1, <1>2, <2>1, SameKeysIndex DEF Store
<1>3. CASE ClaimNew(q.id, q.body, q.binding, at) \/ ClaimAlias(q.id, q.body, q.binding)
  <2>1. Index'
    BY <1>3, RequestType, ClaimNewIndex, ClaimAliasIndex DEF Store
  <2>2. QED BY <1>1, <2>1 DEF Store
<1>4. QED BY <1>2, <1>3 DEF ClaimKnown, ClaimRefused

LEMMA AcceptKeeps ==
  ASSUME IInv, DisjointDeliveries, NEW h \in Handler, AcceptTrusted(h) PROVE IInv'
<1>0. handler[h].at = "claim" /\ handler[h].q \in Request
  BY DEF AcceptTrusted, IInv, IntakeTypeOK
<1>1. PICK q \in Request, at \in Nat : q = handler[h].q /\ at = handler[h].received
  BY <1>0 DEF IInv, IntakeTypeOK, HandlerState
<1> DEFINE effective == acceptFault # "unknown-before-commit"
           found == Found(q)
           o == IF acceptFault = "none" THEN found ELSE "unknown"
<1>2. /\ UNCHANGED <<clock, outbox, mode, told, sends>> /\ acceptFault' = "none"
      /\ IF effective THEN ClaimKnown(q.id, q.body, q.binding, at)
         ELSE UNCHANGED <<records, indexes>>
      /\ claimed' = IF effective /\ found \in {"new", "duplicate"}
                    THEN claimed \cup {q} ELSE claimed
      /\ accepted' = IF effective /\ found = "new"
           THEN Append(accepted, [q |-> q, received |-> at, when |-> clock])
           ELSE accepted
      /\ Becomes(h, IF o = "unknown" THEN "unresolved" ELSE "answer", o)
  BY <1>1 DEF AcceptTrusted
<1>3. Store /\ IntakeTypeOK /\ Truthful /\ Backed
  BY DEF IInv
<1>4. Store'
  BY <1>2, <1>3, ClaimKeepsStore
<1>5. found \in {"new", "duplicate", "conflict"}
  BY <1>3, NeverUnknown
<1>6. /\ Backed' /\ Held' /\ AcceptedOnce'
      /\ accepted' \in Seq([q : Request, received : Nat, when : Nat])
      /\ \A p \in Request : Answered(p) => Answered(p)'
      /\ effective /\ found = "new" => Answered(q)'
  <2>1. CASE effective /\ found = "new"
    <3>1. ClaimNew(q.id, q.body, q.binding, at)
      BY <1>2, <1>3, <2>1, ClaimFinds
    <3>2. claimed' = claimed \cup {q}
      BY <1>2, <2>1
    <3>3. accepted' = Append(accepted, [q |-> q, received |-> at, when |-> clock])
      BY <1>2, <2>1
    <3>4. QED BY <1>2, <3>1, <3>2, <3>3, NewHolds
  <2>2. CASE ~(effective /\ found = "new")
    <3>1. UNCHANGED accepted
      BY <1>2, <2>2
    <3>2. \/ q \in claimed' /\ ClaimAlias(q.id, q.body, q.binding)
          \/ UNCHANGED <<records, indexes>>
      <4>1. CASE effective
        <5>1. ClaimKnown(q.id, q.body, q.binding, at)
          BY <1>2, <4>1
        <5>2. \/ found = "duplicate" /\ ClaimAlias(q.id, q.body, q.binding)
              \/ UNCHANGED <<records, indexes>>
          BY <1>3, <2>2, <4>1, <5>1, ClaimFinds
        <5>3. QED BY <1>2, <4>1, <5>2
      <4>2. CASE ~effective
        BY <1>2, <4>2
      <4>3. QED BY <4>1, <4>2
    <3>3. claimed' \in {claimed, claimed \cup {q}}
      BY <1>2
    <3>4. Backed' /\ Held' /\ AcceptedOnce'
      BY <1>2, <3>1, <3>2, <3>3, KnownHolds
    <3>5. QED BY <1>3, <2>2, <3>1, <3>4 DEF IntakeTypeOK, Answered
  <2>3. QED BY <2>1, <2>2
<1>7. /\ o \in Outcome
      /\ o \in {"new", "duplicate"} => Answered(q)'
      /\ o = "conflict" => Contested(q)'
  <2>1. o \in Outcome /\ o # "unknown" => o = found /\ acceptFault = "none"
    BY <1>5 DEF Outcome
  <2>2. o = "new" => Answered(q)'
    BY <1>6, <2>1
  <2>3. o = "duplicate" => Answered(q)'
    BY <1>3, <1>6, <2>1, DuplicateAnswered
  <2>4. o = "conflict" => Contested(q)'
    <3>1. o = "conflict" => Contested(q)
      BY <1>3, <2>1, ConflictContested
    <3>2. claimed \subseteq claimed'
      BY <1>2
    <3>3. QED BY <3>1, <3>2 DEF Contested
  <2>5. o \in Outcome
    BY <1>5 DEF Outcome
  <2>6. QED BY <2>2, <2>3, <2>4, <2>5
<1>8. IntakeTypeOK' /\ Truthful'
  <2>1. claimed \subseteq claimed' /\ UNCHANGED told
    BY <1>2
  <2>2. PICK place \in {"claim", "unresolved", "answer"} :
          place # "claim" /\ Becomes(h, place, o)
    BY <1>2
  <2>3. /\ handler' \in [Handler -> HandlerState]
        /\ \A g \in Handler : handler'[g].at # "idle" => handler'[g].q \in Request
        /\ \A g \in Handler : Decided(g)' => handler'[g].outcome \in Outcome
        /\ Truthful'
    BY <1>0, <1>1, <1>3, <1>6, <1>7, <2>1, <2>2, BecomesTrue
  <2>4. QED BY <1>3, <1>6, <2>1, <2>3 DEF IntakeTypeOK
<1>9. QED BY <1>4, <1>6, <1>8 DEF IInv

-----------------------------------------------------------------------------
(* The invariant                                                             *)

LEMMA InitHolds == IntakeInit => IInv
<1> SUFFICES ASSUME IntakeInit PROVE IInv
  OBVIOUS
<1>1. Init /\ accepted = <<>> /\ claimed = {}
  BY DEF IntakeInit
<1>2. Store
  BY <1>1, InitType, InitIndex DEF Store
<1>3. Live = {} /\ DOMAIN accepted = {}
  BY <1>1 DEF Init, Live
<1>4. IntakeTypeOK
  <2>1. Idle \in HandlerState
    BY DEF Idle, HandlerState
  <2>2. \A h \in Handler : handler[h].at = "idle"
    BY DEF IntakeInit, Idle
  <2>3. QED BY <1>1, <2>1, <2>2 DEF IntakeInit, IntakeTypeOK, Decided
<1>5. Truthful
  BY DEF IntakeInit, Truthful, Decided, Idle
<1>6. Backed /\ Held /\ AcceptedOnce
  BY <1>3 DEF Backed, Held, AcceptedOnce
<1>7. QED BY <1>2, <1>4, <1>5, <1>6 DEF IInv

(* Time passing, an ambiguity to come and a stutter leave everything true.   *)
LEMMA QuietKeeps ==
  ASSUME IInv, StoreKept, UNCHANGED intake,
         clock' \in Nat, clock' >= clock, acceptFault' \in Fault
  PROVE  IInv'
<1>1. Store' /\ Backed' /\ Held' /\ AcceptedOnce'
  BY StoreKeptHolds DEF intake
<1>2. IntakeTypeOK' /\ Truthful'
  BY DEF IInv, intake, IntakeTypeOK, Truthful, Decided, Answered, Contested
<1>3. QED BY <1>1, <1>2 DEF IInv

LEMMA IntakeKeeps ==
  ASSUME IInv, DisjointDeliveries, [IntakeNext]_allVars PROVE IInv'
<1>1. clock \in Nat /\ acceptFault \in Fault
  BY DEF IInv, Store, TypeOK
<1>2. ASSUME NEW h \in Handler,
             Arrive(h) \/ AcceptTrusted(h) \/ ReconcileAcceptance(h) \/ Answer(h)
      PROVE  IInv'
  BY <1>2, ArriveKeeps, AcceptKeeps, ReconcileKeeps, AnswerKeeps
<1>3. CASE Cleanup /\ UNCHANGED intake
  BY <1>3, CleanupKeeps
<1>4. CASE Tick /\ UNCHANGED intake
  <2>1. clock' \in Nat /\ clock' >= clock
    BY <1>1, <1>4 DEF Tick
  <2>2. QED BY <1>1, <1>4, <2>1, QuietKeeps DEF Tick, StoreKept
<1>5. ASSUME NEW fault \in InjectedFaults, SetAcceptFault(fault), UNCHANGED intake
      PROVE  IInv'
  BY <1>1, <1>5, NamesAssumption, QuietKeeps DEF SetAcceptFault, StoreKept
<1>6. CASE UNCHANGED allVars
  BY <1>1, <1>6, QuietKeeps DEF allVars, vars, indexes, StoreKept
<1>7. QED BY <1>2, <1>3, <1>4, <1>5, <1>6 DEF IntakeNext, StoreStep

LEMMA InvAlways == ASSUME DisjointDeliveries PROVE IntakeSpec => []IInv
<1>1. IInv /\ [IntakeNext]_allVars => IInv'
  BY IntakeKeeps
<1>2. QED BY <1>1, InitHolds, PTL DEF IntakeSpec, allVars

(* Whatever answers are ambiguous, lost or given to several handlers, GitHub *)
(* is told 2xx only about work that has, or had, its receipt.                *)
THEOREM AnsweredAlwaysHeld ==
  ASSUME DisjointDeliveries PROVE IntakeSpec => []AnsweredIsHeld
<1>1. IInv => AnsweredIsHeld
  BY HeldIsAnswered DEF IInv
<1>2. QED BY <1>1, InvAlways, PTL

(* A delivery is refused as a conflict only because of another one.          *)
THEOREM NeverRefusedForItself ==
  ASSUME DisjointDeliveries PROVE IntakeSpec => []NotRefusedForItself
<1>1. IInv => NotRefusedForItself
  BY ContestedIsConflict DEF IInv
<1>2. QED BY <1>1, InvAlways, PTL

(* No body is accepted twice within its retention.                           *)
THEOREM AlwaysAcceptedOnce ==
  ASSUME DisjointDeliveries PROVE IntakeSpec => []AcceptedOnce
<1>1. IInv => AcceptedOnce
  BY DEF IInv
<1>2. QED BY <1>1, InvAlways, PTL
=============================================================================
