--------------------------- MODULE TrustedIngress ---------------------------
(***************************************************************************)
(* The durable ingress state machine of src/src/ta3-ingress.ts: the class  *)
(* InMemoryTrustedIngressStore with the publication gate of                *)
(* TrustedIngressModeController.                                           *)
(*                                                                         *)
(* A webhook delivery is claimed (replay tombstones by delivery id and by  *)
(* body digest), leased by a worker, prepared (an outbox event is queued), *)
(* committed, reconciled with the provider's Check Run and published; a    *)
(* newer delivery for the same pull request supersedes it, and cleanup     *)
(* purges it.  Every public method of the class is one action.  A method   *)
(* that returns early (missing, stale, busy, exhausted, duplicate,         *)
(* conflict, blocked, invalid) leaves the store as it was: such a call is  *)
(* a stuttering step and has no disjunct of its own.                       *)
(*                                                                         *)
(* Data abstraction: a binding is [tenant, pull, revision]: `tenant' is    *)
(* (appId, hookId, installationId, repositoryId), `pull' is (pullNumber,   *)
(* checkName), `revision' is every other field of TrustedIngressBinding.   *)
(* SHA-256 digests are the values they digest, so an external id is the    *)
(* pair (binding, generation).  Time is one shared clock.                  *)
(***************************************************************************)
EXTENDS Integers, Sequences

CONSTANTS
  Tenant,         \* namespaces: (app, hook, installation, repository)
  Pull,           \* pull request and check name within a namespace
  Revision,       \* base, head, policy and root of a binding
  DeliveryId,     \* delivery GUIDs
  Body,           \* raw-body digests
  Digest,         \* result digests a worker may commit
  DeliveriesOf,   \* [Tenant -> SUBSET DeliveryId]: the GUIDs sent to a tenant
  ReplayAge,      \* TA3_MAX_REPLAY_AGE_MS
  FutureSkew,     \* MAX_FUTURE_SKEW_MS
  LeaseTerm,      \* the lease lengths workers ask for, at most TA3_MAX_LEASE_MS
  Retention,      \* TA3_TOMBSTONE_RETENTION_MS
  MaxAttempts,    \* TA3_MAX_ATTEMPTS
  InitialModes,   \* the modes the gate may be constructed in
  InjectedFaults, \* the ambiguous answers the store may give
  MaxClock,       \* bound: the clock stops here
  MaxGeneration,  \* bound: no new delivery is sent to a slot at this generation
  None,           \* an undefined reference
  NoEntry         \* an undefined record

VARIABLES
  clock,        \* nowMs of the next call
  acceptFault,  \* the ambiguous answer the next claim will give
  deliveries,   \* Map (namespace, delivery id) -> receipt
  bodies,       \* Map (namespace, body digest) -> receipt
  records,      \* Map receipt -> ReceiptEntry
  slots,        \* Map (namespace, pull) -> GenerationSlot
  outbox,       \* Map external id -> OutboxRecord
  mode          \* currentMode of the publication gate

vars == <<clock, acceptFault, deliveries, bodies, records, slots, outbox, mode>>
indexes == <<deliveries, bodies, slots>>

Binding == [tenant : Tenant, pull : Pull, revision : Revision]
ExternalId == Binding \X (Nat \ {0})

State == {"accepted", "processing", "prepared", "provider_adopted",
          "committed", "published"}
Mode == {"disabled", "shadow", "advisory", "required"}
Fault == {"none", "unknown-before-commit", "unknown-after-commit"}
Conclusion == {"success", "failure", "neutral"}

(* `enqueued' stands for externalId and outboxEnqueued, which prepare sets   *)
(* together and nothing resets; an undefined lease is one that ended at 0.   *)
Entry == [body : Body, binding : Binding, receivedAt : Nat,
          generation : Nat \ {0}, deliveryIds : SUBSET DeliveryId,
          bodyRetained : BOOLEAN, attempts : Nat, leaseUntil : Nat,
          state : State, enqueued : BOOLEAN,
          resultDigest : Digest \cup {None}, providerAdopted : BOOLEAN]

Slot == [receipt : DeliveryId \cup {None}, generation : Nat]
NoSlot == [receipt |-> None, generation |-> 0]

OutboxRecord == [externalId : ExternalId, receipt : DeliveryId,
                 acknowledged : BOOLEAN]

ASSUME NamesAssumption ==
  /\ None \notin DeliveryId \cup Digest
  /\ NoEntry \notin Entry
  /\ DeliveriesOf \in [Tenant -> SUBSET DeliveryId]
  /\ InitialModes \subseteq Mode /\ InjectedFaults \subseteq Fault

ASSUME LimitsAssumption ==
  /\ ReplayAge \in Nat /\ FutureSkew \in Nat /\ MaxAttempts \in Nat
  /\ LeaseTerm \subseteq Nat \ {0}
  /\ Retention \in Nat /\ ReplayAge < Retention
  /\ MaxClock \in Nat /\ MaxGeneration \in Nat

(* A delivery GUID is sent to one tenant only.  The store does not need this *)
(* to run, but the record map is keyed by the bare GUID: see TenantIsolation.*)
DisjointDeliveries ==
  \A t, u \in Tenant : t # u => DeliveriesOf[t] \cap DeliveriesOf[u] = {}

-----------------------------------------------------------------------------
(* Helpers *)

Live == {r \in DeliveryId : records[r] # NoEntry}

SlotOf(k) == slots[k.tenant][k.pull]

IsCurrent(r) ==
  SlotOf(records[r].binding)
    = [receipt |-> r, generation |-> records[r].generation]

ExternalIdOf(r) == <<records[r].binding, records[r].generation>>

Fresh(at) == clock - at <= ReplayAge /\ at - clock <= FutureSkew

-----------------------------------------------------------------------------
(* claim: the two replay keys, the record and the slot change together. *)

(* Seeded fault: the generation of the slot is not advanced. *)
NewEntryUnadvanced(d, b, k, at, g) ==
  [body |-> b, binding |-> k, receivedAt |-> at, generation |-> g - 1,
   deliveryIds |-> {d}, bodyRetained |-> TRUE, attempts |-> 0,
   leaseUntil |-> 0, state |-> "accepted", enqueued |-> FALSE,
   resultDigest |-> None, providerAdopted |-> FALSE]

NewEntry(d, b, k, at, g) ==
  [body |-> b, binding |-> k, receivedAt |-> at, generation |-> g,
   deliveryIds |-> {d}, bodyRetained |-> TRUE, attempts |-> 0,
   leaseUntil |-> 0, state |-> "accepted", enqueued |-> FALSE,
   resultDigest |-> None, providerAdopted |-> FALSE]

KnownDelivery(d, k) == deliveries[k.tenant][d] # None

(* Seeded fault: no body namespace, only GUIDs are remembered. *)
KnownBodyForgotten(b, k) == FALSE

KnownBody(b, k) == bodies[k.tenant][b] # None

ClaimNew(d, b, k, at) ==
  LET g == SlotOf(k).generation + 1 IN
  /\ ~KnownDelivery(d, k)
  /\ ~KnownBody(b, k)
  /\ records' = [records EXCEPT ![d] = NewEntry(d, b, k, at, g)]
  /\ deliveries' = [deliveries EXCEPT ![k.tenant][d] = d]
  /\ bodies' = [bodies EXCEPT ![k.tenant][b] = d]
  /\ slots' = [slots EXCEPT ![k.tenant][k.pull] =
                 [receipt |-> d, generation |-> g]]

(* Seeded fault: the alias is noted on the receipt but not indexed. *)
ClaimAliasUnindexed(d, b, k) ==
  /\ ~KnownDelivery(d, k)
  /\ KnownBody(b, k)
  /\ records[bodies[k.tenant][b]] # NoEntry
  /\ records[bodies[k.tenant][b]].binding = k
  /\ records' = [records EXCEPT ![bodies[k.tenant][b]].deliveryIds = @ \cup {d}]
  /\ UNCHANGED indexes

ClaimAlias(d, b, k) ==
  LET r == bodies[k.tenant][b] IN
  /\ ~KnownDelivery(d, k)
  /\ KnownBody(b, k)
  /\ records[r] # NoEntry
  /\ records[r].binding = k
  /\ deliveries' = [deliveries EXCEPT ![k.tenant][d] = r]
  /\ records' = [records EXCEPT ![r].deliveryIds = @ \cup {d}]
  /\ UNCHANGED <<bodies, slots>>

(* duplicate, conflict, or unknown because the record is gone. *)
ClaimRefused(d, b, k) ==
  /\ \/ KnownDelivery(d, k)
     \/ /\ KnownBody(b, k)
        /\ \/ records[bodies[k.tenant][b]] = NoEntry
           \/ records[bodies[k.tenant][b]].binding # k
  /\ UNCHANGED <<records, indexes>>

ClaimKnown(d, b, k, at) ==
  \/ ClaimNew(d, b, k, at)
  \/ ClaimAlias(d, b, k)
  \/ ClaimRefused(d, b, k)

Claim(d, b, k, at) ==
  /\ Fresh(at)
  /\ acceptFault' = "none"
  /\ IF acceptFault = "unknown-before-commit"
     THEN UNCHANGED <<records, indexes>>
     ELSE ClaimKnown(d, b, k, at)
  /\ UNCHANGED <<clock, outbox, mode>>

-----------------------------------------------------------------------------
(* lease, prepare, commit: the worker's three calls. *)

(* Seeded fault: a published receipt may be leased again. *)
CanLeasePublished(r) ==
  /\ r \in Live
  /\ IsCurrent(r)
  /\ records[r].attempts < MaxAttempts
  /\ records[r].leaseUntil <= clock

CanLease(r) ==
  /\ r \in Live
  /\ IsCurrent(r)
  /\ records[r].state # "published"
  /\ records[r].attempts < MaxAttempts
  /\ records[r].leaseUntil <= clock

Lease(r, term) ==
  /\ CanLease(r)
  /\ records' = [records EXCEPT ![r].attempts = @ + 1,
                                ![r].leaseUntil = clock + term,
                                ![r].state = "processing"]
  /\ UNCHANGED <<clock, acceptFault, indexes, outbox, mode>>

(* Seeded fault: prepare does not look at the slot. *)
CanPrepareUnfenced(r, attempt) ==
  /\ r \in Live
  /\ records[r].state = "processing"
  /\ clock < records[r].leaseUntil
  /\ records[r].attempts = attempt

CanPrepare(r, attempt) ==
  /\ r \in Live
  /\ IsCurrent(r)
  /\ records[r].state = "processing"
  /\ clock < records[r].leaseUntil
  /\ records[r].attempts = attempt

Enqueue(r) ==
  {o \in outbox : o.externalId # ExternalIdOf(r)}
    \cup {[externalId |-> ExternalIdOf(r), receipt |-> r,
           acknowledged |-> FALSE]}

Prepare(r, attempt) ==
  /\ CanPrepare(r, attempt)
  /\ records' = [records EXCEPT ![r].state = "prepared",
                                ![r].enqueued = TRUE]
  /\ outbox' = Enqueue(r)
  /\ UNCHANGED <<clock, acceptFault, indexes, mode>>

(* Seeded faults: no generation fence; no idempotency check. *)
CanCommitUnfenced(r, generation, attempt) ==
  /\ r \in Live
  /\ records[r].generation = generation
  /\ records[r].attempts = attempt
  /\ records[r].state \in {"prepared", "provider_adopted"}

CanCommitAgain(r, generation, attempt) ==
  /\ r \in Live
  /\ records[r].generation = generation
  /\ IsCurrent(r)
  /\ records[r].attempts = attempt
  /\ records[r].state \in {"prepared", "provider_adopted", "committed"}

CanCommit(r, generation, attempt) ==
  /\ r \in Live
  /\ records[r].generation = generation
  /\ IsCurrent(r)
  /\ records[r].attempts = attempt
  /\ records[r].state \in {"prepared", "provider_adopted"}

Commit(r, generation, digest, attempt) ==
  /\ CanCommit(r, generation, attempt)
  /\ records' = [records EXCEPT ![r].resultDigest = digest,
                                ![r].state = "committed"]
  /\ UNCHANGED <<clock, acceptFault, indexes, outbox, mode>>

-----------------------------------------------------------------------------
(* reconcileCheckRun, completeCheckRun: the provider's answers. *)

CanAdopt(r, matches) ==
  /\ r \in Live
  /\ IsCurrent(r)
  /\ records[r].enqueued
  /\ matches = <<ExternalIdOf(r)>>

ReconcileCheckRun(r, matches) ==
  /\ CanAdopt(r, matches)
  /\ records' = [records EXCEPT
       ![r].providerAdopted = TRUE,
       ![r].state = IF @ \in {"committed", "published"}
                    THEN @ ELSE "provider_adopted"]
  /\ UNCHANGED <<clock, acceptFault, indexes, outbox, mode>>

CanPublishSuccess == mode = "required"

(* Seeded fault: success is published without an adopted Check Run. *)
CanCompleteUnadopted(r, generation, conclusion) ==
  /\ r \in Live
  /\ records[r].generation = generation
  /\ IsCurrent(r)
  /\ conclusion = "success"
  /\ records[r].state = "committed"
  /\ CanPublishSuccess

CanComplete(r, generation, conclusion) ==
  /\ r \in Live
  /\ records[r].generation = generation
  /\ IsCurrent(r)
  /\ conclusion = "success"
  /\ records[r].providerAdopted
  /\ records[r].state = "committed"
  /\ CanPublishSuccess

CompleteCheckRun(r, generation, conclusion) ==
  /\ CanComplete(r, generation, conclusion)
  /\ records' = [records EXCEPT ![r].state = "published"]
  /\ UNCHANGED <<clock, acceptFault, indexes, outbox, mode>>

AcknowledgeOutbox(id) ==
  /\ \E o \in outbox : o.externalId = id /\ ~o.acknowledged
  /\ outbox' = {IF o.externalId = id THEN [o EXCEPT !.acknowledged = TRUE]
                ELSE o : o \in outbox}
  /\ UNCHANGED <<clock, acceptFault, indexes, records, mode>>

-----------------------------------------------------------------------------
(* cleanup: raw bodies go after the replay window, whole receipts after the  *)
(* retention, unless an outbox event of theirs is still unacknowledged.      *)

(* Seeded fault: the outbox does not hold a receipt back. *)
CanPurgeAlways(r) == TRUE

CanPurge(r) ==
  \/ ~records[r].enqueued
  \/ \E o \in outbox : o.externalId = ExternalIdOf(r) /\ o.acknowledged

(* Seeded fault: the tombstone goes with the raw body. *)
DueWithBody == {r \in Live : /\ clock - records[r].receivedAt >= ReplayAge
                             /\ CanPurge(r)}

Due == {r \in Live : /\ clock - records[r].receivedAt >= Retention
                     /\ CanPurge(r)}

SharesExternalId(q, r) ==
  records[q].enqueued /\ records[r].enqueued /\ ExternalIdOf(q) = ExternalIdOf(r)

(* The loop purges one of two receipts that share an external id: with the   *)
(* outbox record gone, canPurge is false for the other.  Which one comes     *)
(* first in the map is left open.                                            *)
PurgeSets ==
  {P \in SUBSET Due :
     /\ \A r \in Due : \E q \in P : q = r \/ SharesExternalId(q, r)
     /\ \A q, r \in P : SharesExternalId(q, r) => q = r}

(* Seeded fault: only the receipt's own GUID is forgotten. *)
PurgesOwnId(P, t, d) == \E r \in P : records[r].binding.tenant = t /\ d = r

Purges(P, t, d) ==
  \E r \in P : records[r].binding.tenant = t /\ d \in records[r].deliveryIds

Purge(P) ==
  /\ deliveries' = [t \in Tenant |-> [d \in DeliveryId |->
       IF Purges(P, t, d) THEN None ELSE deliveries[t][d]]]
  /\ bodies' = [t \in Tenant |-> [b \in Body |->
       IF \E r \in P : records[r].binding.tenant = t /\ records[r].body = b
       THEN None ELSE bodies[t][b]]]
  /\ slots' = [t \in Tenant |-> [p \in Pull |->
       IF \E r \in P : /\ records[r].binding.tenant = t
                       /\ records[r].binding.pull = p
                       /\ slots[t][p].receipt = r
       THEN NoSlot ELSE slots[t][p]]]
  /\ outbox' = {o \in outbox :
       ~ \E r \in P : records[r].enqueued /\ ExternalIdOf(r) = o.externalId}
  /\ records' = [r \in DeliveryId |->
       IF r \in P \/ r \notin Live THEN NoEntry
       ELSE [records[r] EXCEPT !.bodyRetained =
               @ /\ clock < records[r].receivedAt + ReplayAge]]

Cleanup ==
  /\ \E P \in PurgeSets : Purge(P)
  /\ UNCHANGED <<clock, acceptFault, mode>>

-----------------------------------------------------------------------------
(* The environment of the store *)

(* The transaction of the next claim will be ambiguous.                      *)
SetAcceptFault(fault) ==
  /\ acceptFault' = fault
  /\ UNCHANGED <<clock, indexes, records, outbox, mode>>

(* observeProfile with a digest other than the expected one.                 *)
ObserveDrift ==
  /\ mode' = "advisory"
  /\ UNCHANGED <<clock, acceptFault, indexes, records, outbox>>

Tick ==
  /\ clock < MaxClock
  /\ clock' = clock + 1
  /\ UNCHANGED <<acceptFault, indexes, records, outbox, mode>>

(* Deliveries as GitHub and the host present them: a GUID of the tenant and  *)
(* a receipt time the freshness check will or will not accept.               *)
AcceptDelivery ==
  \E k \in Binding, b \in Body, at \in 0 .. MaxClock + FutureSkew :
    \E d \in DeliveriesOf[k.tenant] :
      /\ \/ KnownDelivery(d, k) \/ KnownBody(b, k)
         \/ SlotOf(k).generation < MaxGeneration
      /\ Claim(d, b, k, at)

(* What a bounded Check Run query may return for a receipt.                  *)
MatchLists(r) ==
  {<<>>, <<ExternalIdOf(r)>>, <<ExternalIdOf(r), ExternalIdOf(r)>>}

WorkerCall ==
  \E r \in DeliveryId :
    \/ \E term \in LeaseTerm : Lease(r, term)
    \/ \E attempt \in 1 .. MaxAttempts : Prepare(r, attempt)
    \/ \E g \in 1 .. MaxGeneration, x \in Digest, attempt \in 1 .. MaxAttempts :
         Commit(r, g, x, attempt)

ProviderCall ==
  \/ \E r \in Live : \E matches \in MatchLists(r) : ReconcileCheckRun(r, matches)
  \/ \E r \in DeliveryId, g \in 1 .. MaxGeneration, c \in Conclusion :
       CompleteCheckRun(r, g, c)
  \/ \E o \in outbox : AcknowledgeOutbox(o.externalId)

Init ==
  /\ clock = 0
  /\ acceptFault = "none"
  /\ deliveries = [t \in Tenant |-> [d \in DeliveryId |-> None]]
  /\ bodies = [t \in Tenant |-> [b \in Body |-> None]]
  /\ records = [r \in DeliveryId |-> NoEntry]
  /\ slots = [t \in Tenant |-> [p \in Pull |-> NoSlot]]
  /\ outbox = {}
  /\ mode \in InitialModes

Next ==
  \/ AcceptDelivery
  \/ WorkerCall
  \/ ProviderCall
  \/ Cleanup
  \/ \E fault \in InjectedFaults : SetAcceptFault(fault)
  \/ ObserveDrift
  \/ Tick

Spec == Init /\ [][Next]_vars

-----------------------------------------------------------------------------
(* Properties *)

(* Every map holds values of its declared type.                              *)
TypeOK ==
  /\ clock \in Nat
  /\ acceptFault \in Fault
  /\ deliveries \in [Tenant -> [DeliveryId -> DeliveryId \cup {None}]]
  /\ bodies \in [Tenant -> [Body -> DeliveryId \cup {None}]]
  /\ records \in [DeliveryId -> Entry \cup {NoEntry}]
  /\ slots \in [Tenant -> [Pull -> Slot]]
  /\ outbox \in SUBSET OutboxRecord
  /\ mode \in Mode

(* A receipt can be found under every delivery id it answered and under its  *)
(* body, whatever was claimed, aliased, superseded or purged since.          *)
ReceiptsIndexed ==
  \A r \in Live :
    LET e == records[r] IN
    /\ e.deliveryIds \subseteq DeliveriesOf[e.binding.tenant]
    /\ r \in e.deliveryIds
    /\ \A d \in e.deliveryIds : deliveries[e.binding.tenant][d] = r
    /\ bodies[e.binding.tenant][e.body] = r

(* The other direction: a tombstone, a body key or a slot never points at a  *)
(* receipt that is gone or that belongs to another namespace, so claim's     *)
(* "unknown" for a missing record cannot happen and each tenant's keys name  *)
(* that tenant's work.                                                       *)
TenantIsolation ==
  \A t \in Tenant :
    /\ \A d \in DeliveryId : deliveries[t][d] # None =>
         /\ deliveries[t][d] \in Live
         /\ records[deliveries[t][d]].binding.tenant = t
         /\ d \in records[deliveries[t][d]].deliveryIds
    /\ \A b \in Body : bodies[t][b] # None =>
         /\ bodies[t][b] \in Live
         /\ records[bodies[t][b]].binding.tenant = t
         /\ records[bodies[t][b]].body = b
    /\ \A p \in Pull : slots[t][p] # NoSlot =>
         /\ slots[t][p].receipt \in Live
         /\ LET e == records[slots[t][p].receipt] IN
              /\ e.binding.tenant = t /\ e.binding.pull = p
              /\ e.generation = slots[t][p].generation

(* One raw body has at most one receipt, hence one evaluation: redelivery    *)
(* under a new GUID is a duplicate (threat T05).                             *)
OneEvaluationPerBody ==
  \A q, r \in Live :
    /\ records[q].binding.tenant = records[r].binding.tenant
    /\ records[q].body = records[r].body
    => q = r

(* What a published receipt has been through, in any order of worker and     *)
(* provider calls, reclaims and retries: an attempt, a prepared outbox event,*)
(* an adopted Check Run and a committed result.                              *)
Earned(e) ==
  /\ e.state = "accepted" => e.attempts = 0
  /\ e.state # "accepted" => e.attempts > 0
  /\ e.state \in {"prepared", "provider_adopted", "committed", "published"}
       => e.enqueued
  /\ e.state \in {"committed", "published"} => e.resultDigest # None
  /\ e.state \in {"published", "provider_adopted"} => e.providerAdopted
  /\ e.providerAdopted => e.enqueued
  /\ e.enqueued => e.attempts > 0
  /\ e.attempts <= MaxAttempts

PublishedIsEarned == \A r \in Live : Earned(records[r])

Processing(e) ==
  <<e.generation, e.binding, e.attempts, e.leaseUntil, e.state, e.enqueued,
    e.resultDigest, e.providerAdopted>>

(* Once a newer delivery has taken the slot, no call of any worker or        *)
(* provider that still holds the old receipt changes it, and it never        *)
(* becomes current again: until it is purged it stays as it was.             *)
SupersededIsFrozen ==
  [][\A r \in Live : ~IsCurrent(r) /\ r \in Live' =>
       /\ ~IsCurrent(r)'
       /\ Processing(records[r])' = Processing(records[r])]_vars

(* A published result is final: until purged, neither a reclaim, a retry of  *)
(* commit nor a provider answer takes it back or changes its digest.         *)
PublishedIsFinal ==
  [][\A r \in Live : records[r].state = "published" /\ r \in Live' =>
       Processing(records[r])' = Processing(records[r])]_vars

(* An outbox event that nobody has acknowledged is still there after the     *)
(* next step: cleanup deletes no receipt whose event is pending.             *)
NoPendingEventLost ==
  [][\A o \in outbox : ~o.acknowledged =>
       \E p \in outbox' : p.externalId = o.externalId]_vars

(* The verdict of a slot as SlotLedger sees it. *)
PhaseOf(state) ==
  IF state \in {"committed", "published"}
  THEN IF state = "committed" THEN "decided" ELSE "published"
  ELSE "open"

VerdictOf(s) ==
  IF s = NoSlot
  THEN [generation |-> 0, phase |-> "idle", digest |-> None]
  ELSE LET e == records[s.receipt] IN
       [generation |-> s.generation, phase |-> PhaseOf(e.state),
        digest |-> IF PhaseOf(e.state) = "open" THEN None ELSE e.resultDigest]

Ledger == INSTANCE SlotLedger WITH
  verdict <- [t \in Tenant |-> [p \in Pull |-> VerdictOf(slots[t][p])]]

(* The store implements the ledger: interleaved leases, retries, provider    *)
(* answers and cleanup amount to superseding, deciding, publishing and       *)
(* forgetting one verdict per slot.                                          *)
ImplementsLedger == Ledger!LedgerSpec

(* A committed result stands: the receipt does not go back to processing and *)
(* its digest is not replaced.  (Violated: Lease takes a committed receipt.) *)
CommittedResultStands ==
  [][\A r \in Live :
       /\ records[r].state = "committed" /\ r \in Live'
       => records'[r].state \in {"committed", "published"}]_vars
=============================================================================
