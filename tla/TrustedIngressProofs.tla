------------------------ MODULE TrustedIngressProofs -------------------------
(***************************************************************************)
(* Theorems about TrustedIngress for every value of its constants: types,  *)
(* the order of publication, the replay keys, what a step may never do to  *)
(* a receipt, that the store implements SlotLedger, what cleanup may       *)
(* delete, and what the store refuses that it has forgotten.  From the     *)
(* replay keys on they need DisjointDeliveries (except for the outbox):    *)
(* where a GUID reaches two tenants, the second claim overwrites the first *)
(* one's record.                                                           *)
(***************************************************************************)
EXTENDS TrustedIngressHistory, TLAPS

(* A new entry, and a lease, prepare, commit, adoption or publication of an  *)
(* entry, are entries.                                                       *)
LEMMA NewEntryType ==
  ASSUME NEW d \in DeliveryId, NEW b \in Body, NEW k \in Binding,
         NEW at \in Nat, NEW g \in Nat \ {0}
  PROVE  /\ NewEntry(d, b, k, at, g) \in Entry
         /\ NewEntry(d, b, k, at, g) # NoEntry
<1>1. NewEntry(d, b, k, at, g) \in Entry
  BY NamesAssumption DEF NewEntry, Entry, State
<1>2. QED BY <1>1, NamesAssumption

LEMMA LiveEntry ==
  ASSUME TypeOK, NEW r \in Live
  PROVE  /\ r \in DeliveryId
         /\ records[r] \in Entry
         /\ records[r].binding \in Binding
         /\ records[r].binding.tenant \in Tenant
         /\ records[r].binding.pull \in Pull
<1>1. r \in DeliveryId /\ records[r] \in Entry
  BY DEF Live, TypeOK
<1>2. QED BY <1>1 DEF Entry, Binding

-----------------------------------------------------------------------------
(* Type correctness, one lemma per action. *)

LEMMA InitType == Init => TypeOK
<1> SUFFICES ASSUME Init PROVE TypeOK
  OBVIOUS
<1>1. clock \in Nat /\ acceptFault \in Fault /\ mode \in Mode
  BY NamesAssumption DEF Init, Fault
<1>2. deliveries \in [Tenant -> [DeliveryId -> DeliveryId \cup {None}]]
  BY DEF Init
<1>3. bodies \in [Tenant -> [Body -> DeliveryId \cup {None}]]
  BY DEF Init
<1>4. records \in [DeliveryId -> Entry \cup {NoEntry}]
  BY DEF Init
<1>5. slots \in [Tenant -> [Pull -> Slot]]
  BY DEF Init, NoSlot, Slot
<1>6. outbox \in SUBSET OutboxRecord
  BY DEF Init
<1>7. QED BY <1>1, <1>2, <1>3, <1>4, <1>5, <1>6 DEF TypeOK

(* A claim keeps the types, timely or not.                                   *)
LEMMA ClaimKnownType ==
  ASSUME TypeOK,
         NEW d \in DeliveryId, NEW b \in Body, NEW k \in Binding, NEW at \in Nat,
         UNCHANGED <<clock, outbox, mode>>, acceptFault' = "none",
         ClaimKnown(d, b, k, at) \/ UNCHANGED <<records, indexes>>
  PROVE  TypeOK'
<1>0. k.tenant \in Tenant /\ k.pull \in Pull
  BY DEF Binding
<1>1. UNCHANGED <<clock, outbox, mode>> /\ acceptFault' \in Fault
  BY DEF Fault
<1>2. CASE UNCHANGED <<records, indexes>>
  BY <1>1, <1>2 DEF TypeOK, indexes
<1>3. CASE ClaimNew(d, b, k, at)
  <2> DEFINE g == SlotOf(k).generation + 1
  <2>1. g \in Nat \ {0}
    BY <1>0 DEF TypeOK, SlotOf, Slot
  <2>2. NewEntry(d, b, k, at, g) \in Entry
    BY <2>1, NewEntryType
  <2>3. records' \in [DeliveryId -> Entry \cup {NoEntry}]
    BY <1>3, <2>2 DEF TypeOK, ClaimNew
  <2>4. deliveries' \in [Tenant -> [DeliveryId -> DeliveryId \cup {None}]]
    BY <1>0, <1>3 DEF TypeOK, ClaimNew
  <2>5. bodies' \in [Tenant -> [Body -> DeliveryId \cup {None}]]
    BY <1>0, <1>3 DEF TypeOK, ClaimNew
  <2>6. [receipt |-> d, generation |-> g] \in Slot
    BY <2>1 DEF Slot
  <2>7. slots' \in [Tenant -> [Pull -> Slot]]
    BY <1>0, <1>3, <2>6 DEF TypeOK, ClaimNew
  <2>8. QED BY <1>1, <2>3, <2>4, <2>5, <2>7 DEF TypeOK
<1>4. CASE ClaimAlias(d, b, k)
  <2> DEFINE r == bodies[k.tenant][b]
  <2>1. r \in DeliveryId /\ records[r] \in Entry
    BY <1>0, <1>4 DEF TypeOK, ClaimAlias, KnownBody
  <2>2. [records[r] EXCEPT !.deliveryIds = @ \cup {d}] \in Entry
    BY <2>1 DEF Entry
  <2>3. records' = [records EXCEPT ![r] =
                      [records[r] EXCEPT !.deliveryIds = @ \cup {d}]]
    BY <1>4, <2>1 DEF TypeOK, ClaimAlias
  <2>4. records' \in [DeliveryId -> Entry \cup {NoEntry}]
    BY <2>1, <2>2, <2>3 DEF TypeOK
  <2>5. deliveries' \in [Tenant -> [DeliveryId -> DeliveryId \cup {None}]]
    BY <1>0, <1>4, <2>1 DEF TypeOK, ClaimAlias
  <2>6. QED BY <1>1, <1>4, <2>4, <2>5 DEF TypeOK, ClaimAlias
<1>5. QED BY <1>2, <1>3, <1>4 DEF ClaimKnown, ClaimRefused

LEMMA ClaimType ==
  ASSUME TypeOK,
         NEW d \in DeliveryId, NEW b \in Body, NEW k \in Binding, NEW at \in Nat,
         Claim(d, b, k, at)
  PROVE  TypeOK'
BY ClaimKnownType DEF Claim

(* An action that only rewrites one live entry into another entry.           *)
LEMMA EntryUpdateType ==
  ASSUME TypeOK, NEW r \in Live, NEW e \in Entry,
         records' = [records EXCEPT ![r] = e],
         UNCHANGED <<clock, acceptFault, indexes, mode>>,
         outbox' \in SUBSET OutboxRecord
  PROVE  TypeOK'
BY LiveEntry DEF TypeOK, indexes

LEMMA LeaseType ==
  ASSUME TypeOK, NEW r \in DeliveryId, NEW term \in LeaseTerm, Lease(r, term)
  PROVE  TypeOK'
<1> DEFINE e == [records[r] EXCEPT !.attempts = @ + 1,
                                   !.leaseUntil = clock + term,
                                   !.state = "processing"]
<1>1. r \in Live /\ records[r] \in Entry
  BY LiveEntry DEF Lease, CanLease
<1>2. clock + term \in Nat /\ records[r].attempts + 1 \in Nat
  <2>1. clock \in Nat /\ term \in Nat /\ records[r].attempts \in Nat
    BY <1>1, LimitsAssumption DEF Entry, TypeOK
  <2>2. QED BY <2>1
<1>3. e \in Entry
  BY <1>1, <1>2 DEF Entry, State
<1>4. records' = [records EXCEPT ![r] = e]
  BY <1>1 DEF Lease, TypeOK
<1>5. QED BY <1>1, <1>3, <1>4, EntryUpdateType DEF Lease, TypeOK

LEMMA ExternalIdType ==
  ASSUME TypeOK, NEW r \in Live
  PROVE  ExternalIdOf(r) \in ExternalId
BY LiveEntry DEF ExternalIdOf, ExternalId, Entry

LEMMA PrepareType ==
  ASSUME TypeOK, NEW r \in DeliveryId, NEW attempt, Prepare(r, attempt)
  PROVE  TypeOK'
<1> DEFINE e == [records[r] EXCEPT !.state = "prepared", !.enqueued = TRUE]
<1>1. r \in Live /\ records[r] \in Entry
  BY LiveEntry DEF Prepare, CanPrepare
<1>2. e \in Entry
  BY <1>1 DEF Entry, State
<1>3. records' = [records EXCEPT ![r] = e]
  BY <1>1 DEF Prepare, TypeOK
<1>4. outbox' \in SUBSET OutboxRecord
  <2>1. [externalId |-> ExternalIdOf(r), receipt |-> r, acknowledged |-> FALSE]
          \in OutboxRecord
    BY <1>1, ExternalIdType DEF OutboxRecord
  <2>2. outbox \in SUBSET OutboxRecord
    BY DEF TypeOK
  <2>3. QED BY <2>1, <2>2 DEF Prepare, Enqueue
<1>5. QED BY <1>1, <1>2, <1>3, <1>4, EntryUpdateType DEF Prepare

LEMMA CommitType ==
  ASSUME TypeOK, NEW r \in DeliveryId, NEW g, NEW x \in Digest, NEW attempt,
         Commit(r, g, x, attempt)
  PROVE  TypeOK'
<1> DEFINE e == [records[r] EXCEPT !.resultDigest = x, !.state = "committed"]
<1>1. r \in Live /\ records[r] \in Entry
  BY LiveEntry DEF Commit, CanCommit
<1>2. e \in Entry
  BY <1>1 DEF Entry, State
<1>3. records' = [records EXCEPT ![r] = e]
  BY <1>1 DEF Commit, TypeOK
<1>4. QED BY <1>1, <1>2, <1>3, EntryUpdateType DEF Commit, TypeOK

LEMMA ReconcileType ==
  ASSUME TypeOK, NEW r \in DeliveryId, NEW matches,
         ReconcileCheckRun(r, matches)
  PROVE  TypeOK'
<1> DEFINE e == [records[r] EXCEPT
                   !.providerAdopted = TRUE,
                   !.state = IF @ \in {"committed", "published"}
                             THEN @ ELSE "provider_adopted"]
<1>1. r \in Live /\ records[r] \in Entry
  BY LiveEntry DEF ReconcileCheckRun, CanAdopt
<1>2. e \in Entry
  BY <1>1 DEF Entry, State
<1>3. records' = [records EXCEPT ![r] = e]
  BY <1>1 DEF ReconcileCheckRun, TypeOK
<1>4. QED BY <1>1, <1>2, <1>3, EntryUpdateType DEF ReconcileCheckRun, TypeOK

LEMMA CompleteType ==
  ASSUME TypeOK, NEW r \in DeliveryId, NEW g, NEW c, CompleteCheckRun(r, g, c)
  PROVE  TypeOK'
<1> DEFINE e == [records[r] EXCEPT !.state = "published"]
<1>1. r \in Live /\ records[r] \in Entry
  BY LiveEntry DEF CompleteCheckRun, CanComplete
<1>2. e \in Entry
  BY <1>1 DEF Entry, State
<1>3. records' = [records EXCEPT ![r] = e]
  BY <1>1 DEF CompleteCheckRun, TypeOK
<1>4. QED BY <1>1, <1>2, <1>3, EntryUpdateType DEF CompleteCheckRun, TypeOK

LEMMA AcknowledgeType ==
  ASSUME TypeOK, NEW id, AcknowledgeOutbox(id)
  PROVE  TypeOK'
<1> DEFINE After(o) == IF o.externalId = id THEN [o EXCEPT !.acknowledged = TRUE]
                       ELSE o
<1>0. ASSUME NEW o \in outbox PROVE After(o) \in OutboxRecord
  <2>1. o \in OutboxRecord
    BY DEF TypeOK
  <2>2. QED BY <2>1 DEF OutboxRecord
<1>1. outbox' \in SUBSET OutboxRecord
  <2>1. outbox' = {After(o) : o \in outbox}
    BY DEF AcknowledgeOutbox
  <2> HIDE DEF After
  <2>2. QED BY <1>0, <2>1
<1>2. QED BY <1>1 DEF TypeOK, AcknowledgeOutbox, indexes

(* What cleanup leaves of an entry it does not purge.                        *)
LEMMA PurgedRecordsType ==
  ASSUME TypeOK, NEW P \in SUBSET DeliveryId, Purge(P)
  PROVE  records' \in [DeliveryId -> Entry \cup {NoEntry}]
<1>1. ASSUME NEW r \in Live
      PROVE  [records[r] EXCEPT !.bodyRetained =
                @ /\ clock < records[r].receivedAt + ReplayAge] \in Entry
  BY LiveEntry DEF Entry
<1>2. QED BY <1>1 DEF Purge, TypeOK, Live

LEMMA CleanupType == ASSUME TypeOK, Cleanup PROVE TypeOK'
<1>1. PICK P \in PurgeSets : Purge(P)
  BY DEF Cleanup
<1>2. P \in SUBSET DeliveryId
  BY DEF PurgeSets, Due, Live
<1>3. records' \in [DeliveryId -> Entry \cup {NoEntry}]
  BY <1>1, <1>2, PurgedRecordsType
<1>4. deliveries' \in [Tenant -> [DeliveryId -> DeliveryId \cup {None}]]
  BY <1>1 DEF Purge, TypeOK
<1>5. bodies' \in [Tenant -> [Body -> DeliveryId \cup {None}]]
  BY <1>1 DEF Purge, TypeOK
<1>6. NoSlot \in Slot
  BY DEF NoSlot, Slot
<1>7. slots' \in [Tenant -> [Pull -> Slot]]
  BY <1>1, <1>6 DEF Purge, TypeOK
<1>8. outbox' \in SUBSET OutboxRecord
  BY <1>1 DEF Purge, TypeOK
<1>9. QED BY <1>3, <1>4, <1>5, <1>7, <1>8 DEF Cleanup, TypeOK

(* What a worker may do keeps the types. *)
LEMMA WorkerType == ASSUME TypeOK, WorkerCall PROVE TypeOK'
BY LeaseType, PrepareType, CommitType DEF WorkerCall

(* So does whatever the provider's answers bring. *)
LEMMA ProviderType == ASSUME TypeOK, ProviderCall PROVE TypeOK'
BY ReconcileType, CompleteType, AcknowledgeType DEF ProviderCall, Live

LEMMA AcceptType == ASSUME TypeOK, AcceptDelivery PROVE TypeOK'
<1>1. PICK k \in Binding, b \in Body, at \in 0 .. MaxClock + FutureSkew :
        \E d \in DeliveriesOf[k.tenant] : Claim(d, b, k, at)
  BY DEF AcceptDelivery
<1>2. PICK d \in DeliveriesOf[k.tenant] : Claim(d, b, k, at)
  BY <1>1
<1>3. d \in DeliveryId
  BY <1>2, NamesAssumption DEF Binding
<1>4. at \in Nat
  BY <1>1
<1>5. QED BY <1>2, <1>3, <1>4, ClaimType

LEMMA EnvironmentType ==
  ASSUME TypeOK,
         \/ \E fault \in InjectedFaults : SetAcceptFault(fault)
         \/ ObserveDrift
         \/ Tick
  PROVE  TypeOK'
<1>1. CASE \E fault \in InjectedFaults : SetAcceptFault(fault)
  BY <1>1, NamesAssumption DEF SetAcceptFault, TypeOK, indexes
<1>2. CASE ObserveDrift
  BY <1>2 DEF ObserveDrift, TypeOK, indexes, Mode
<1>3. CASE Tick
  <2>1. clock' \in Nat
    BY <1>3 DEF Tick, TypeOK
  <2>2. QED BY <1>3, <2>1 DEF Tick, TypeOK, indexes
<1>4. QED BY <1>1, <1>2, <1>3

LEMMA NextType == ASSUME TypeOK, [Next]_vars PROVE TypeOK'
<1>1. CASE AcceptDelivery
  BY <1>1, AcceptType
<1>2. CASE WorkerCall
  BY <1>2, WorkerType
<1>3. CASE ProviderCall
  BY <1>3, ProviderType
<1>4. CASE Cleanup
  BY <1>4, CleanupType
<1>5. CASE \/ \E fault \in InjectedFaults : SetAcceptFault(fault)
           \/ ObserveDrift
           \/ Tick
  BY <1>5, EnvironmentType
<1>6. CASE UNCHANGED vars
  BY <1>6 DEF vars, TypeOK
<1>7. QED BY <1>1, <1>2, <1>3, <1>4, <1>5, <1>6 DEF Next

(* Whatever is claimed, leased, committed, adopted, published and purged, in *)
(* any order, every map of InMemoryTrustedIngressStore holds values of its   *)
(* declared type.                                                            *)
THEOREM TypeCorrect == Spec => []TypeOK
<1>1. TypeOK /\ [Next]_vars => TypeOK'
  BY NextType
<1>2. QED BY <1>1, InitType, PTL DEF Spec

-----------------------------------------------------------------------------
(* PublishedIsEarned.  It is inductive with TypeOK: each call that moves an  *)
(* entry on finds in it what the next state asks for.                        *)

(* One entry is rewritten into an earned one, the others stay.               *)
LEMMA EarnedUpdate ==
  ASSUME TypeOK, PublishedIsEarned, NEW r \in DeliveryId, NEW e, Earned(e),
         records' = [records EXCEPT ![r] = e]
  PROVE  PublishedIsEarned'
<1>1. SUFFICES ASSUME NEW q \in DeliveryId, records'[q] # NoEntry
               PROVE  Earned(records'[q])
  BY DEF PublishedIsEarned, Earned, Live
<1>2. CASE q = r
  BY <1>2 DEF TypeOK
<1>3. CASE q # r
  <2>1. records'[q] = records[q] /\ q \in Live
    BY <1>1, <1>3 DEF TypeOK, Live
  <2>2. QED BY <2>1 DEF PublishedIsEarned
<1>4. QED BY <1>2, <1>3

(* No entry is rewritten in what Earned looks at.                            *)
LEMMA EarnedKept ==
  ASSUME PublishedIsEarned,
         \A q \in Live' :
           /\ q \in Live
           /\ records'[q].state = records[q].state
           /\ records'[q].attempts = records[q].attempts
           /\ records'[q].enqueued = records[q].enqueued
           /\ records'[q].resultDigest = records[q].resultDigest
           /\ records'[q].providerAdopted = records[q].providerAdopted
  PROVE  PublishedIsEarned'
BY DEF PublishedIsEarned, Earned

LEMMA ClaimEarned ==
  ASSUME TypeOK, PublishedIsEarned, NEW d \in DeliveryId, NEW b \in Body,
         NEW k \in Binding, NEW at \in Nat, Claim(d, b, k, at)
  PROVE  PublishedIsEarned'
<1>0. k.tenant \in Tenant /\ k.pull \in Pull
  BY DEF Binding
<1>1. CASE UNCHANGED <<records, indexes>>
  BY <1>1 DEF PublishedIsEarned, Earned, Live
<1>2. CASE ClaimNew(d, b, k, at)
  <2> DEFINE e == NewEntry(d, b, k, at, SlotOf(k).generation + 1)
  <2>1. Earned(e)
    BY LimitsAssumption DEF Earned, NewEntry
  <2>2. records' = [records EXCEPT ![d] = e]
    BY <1>2 DEF ClaimNew
  <2>3. QED BY <2>1, <2>2, EarnedUpdate
<1>3. CASE ClaimAlias(d, b, k)
  <2> DEFINE r == bodies[k.tenant][b]
             e == [records[r] EXCEPT !.deliveryIds = @ \cup {d}]
  <2>1. r \in Live /\ records[r] \in Entry
    BY <1>0, <1>3 DEF TypeOK, ClaimAlias, KnownBody, Live
  <2>2. records' = [records EXCEPT ![r] = e]
    BY <1>3, <2>1 DEF ClaimAlias, TypeOK
  <2>3. Earned(records[r])
    BY <2>1 DEF PublishedIsEarned
  <2>4. Earned(e)
    BY <2>1, <2>3 DEF Earned, Entry
  <2>5. r \in DeliveryId
    BY <2>1 DEF Live
  <2>6. QED BY <2>2, <2>4, <2>5, EarnedUpdate
<1>4. QED BY <1>1, <1>2, <1>3 DEF Claim, ClaimKnown, ClaimRefused

LEMMA LeaseEarned ==
  ASSUME TypeOK, PublishedIsEarned, NEW r \in DeliveryId,
         NEW term \in LeaseTerm, Lease(r, term)
  PROVE  PublishedIsEarned'
<1> DEFINE e == [records[r] EXCEPT !.attempts = @ + 1,
                                   !.leaseUntil = clock + term,
                                   !.state = "processing"]
<1>1. r \in Live /\ records[r] \in Entry /\ Earned(records[r])
  BY LiveEntry DEF Lease, CanLease, PublishedIsEarned
<1>2. records[r].attempts \in Nat /\ records[r].attempts < MaxAttempts
  BY <1>1 DEF Entry, Lease, CanLease
<1>3. Earned(e)
  BY <1>1, <1>2, LimitsAssumption DEF Earned, Entry
<1>4. records' = [records EXCEPT ![r] = e]
  BY <1>1 DEF Lease, TypeOK
<1>5. QED BY <1>3, <1>4, EarnedUpdate

LEMMA PrepareEarned ==
  ASSUME TypeOK, PublishedIsEarned, NEW r \in DeliveryId, NEW attempt,
         Prepare(r, attempt)
  PROVE  PublishedIsEarned'
<1> DEFINE e == [records[r] EXCEPT !.state = "prepared", !.enqueued = TRUE]
<1>1. r \in Live /\ records[r] \in Entry /\ Earned(records[r])
  BY LiveEntry DEF Prepare, CanPrepare, PublishedIsEarned
<1>2. records[r].state = "processing"
  BY DEF Prepare, CanPrepare
<1>3. Earned(e)
  BY <1>1, <1>2 DEF Earned, Entry
<1>4. records' = [records EXCEPT ![r] = e]
  BY <1>1 DEF Prepare, TypeOK
<1>5. QED BY <1>3, <1>4, EarnedUpdate

LEMMA CommitEarned ==
  ASSUME TypeOK, PublishedIsEarned, NEW r \in DeliveryId, NEW g,
         NEW x \in Digest, NEW attempt, Commit(r, g, x, attempt)
  PROVE  PublishedIsEarned'
<1> DEFINE e == [records[r] EXCEPT !.resultDigest = x, !.state = "committed"]
<1>1. r \in Live /\ records[r] \in Entry /\ Earned(records[r])
  BY LiveEntry DEF Commit, CanCommit, PublishedIsEarned
<1>2. records[r].state \in {"prepared", "provider_adopted"}
  BY DEF Commit, CanCommit
<1>3. x # None
  BY NamesAssumption
<1>4. Earned(e)
  BY <1>1, <1>2, <1>3 DEF Earned, Entry
<1>5. records' = [records EXCEPT ![r] = e]
  BY <1>1 DEF Commit, TypeOK
<1>6. QED BY <1>4, <1>5, EarnedUpdate

LEMMA ReconcileEarned ==
  ASSUME TypeOK, PublishedIsEarned, NEW r \in DeliveryId, NEW matches,
         ReconcileCheckRun(r, matches)
  PROVE  PublishedIsEarned'
<1> DEFINE s == IF records[r].state \in {"committed", "published"}
                THEN records[r].state ELSE "provider_adopted"
           e == [records[r] EXCEPT !.providerAdopted = TRUE, !.state = s]
<1>1. r \in Live /\ records[r] \in Entry /\ Earned(records[r])
  BY LiveEntry DEF ReconcileCheckRun, CanAdopt, PublishedIsEarned
<1>2. records[r].enqueued
  BY DEF ReconcileCheckRun, CanAdopt
<1>3. records[r].attempts > 0
  BY <1>1, <1>2 DEF Earned, Entry
<1>4. Earned(e)
  BY <1>1, <1>2, <1>3 DEF Earned, Entry
<1>5. records' = [records EXCEPT ![r] = e]
  BY <1>1 DEF ReconcileCheckRun, TypeOK
<1>6. QED BY <1>4, <1>5, EarnedUpdate

LEMMA CompleteEarned ==
  ASSUME TypeOK, PublishedIsEarned, NEW r \in DeliveryId, NEW g, NEW c,
         CompleteCheckRun(r, g, c)
  PROVE  PublishedIsEarned'
<1> DEFINE e == [records[r] EXCEPT !.state = "published"]
<1>1. r \in Live /\ records[r] \in Entry /\ Earned(records[r])
  BY LiveEntry DEF CompleteCheckRun, CanComplete, PublishedIsEarned
<1>2. records[r].providerAdopted /\ records[r].state = "committed"
  BY DEF CompleteCheckRun, CanComplete
<1>3. Earned(e)
  BY <1>1, <1>2 DEF Earned, Entry
<1>4. records' = [records EXCEPT ![r] = e]
  BY <1>1 DEF CompleteCheckRun, TypeOK
<1>5. QED BY <1>3, <1>4, EarnedUpdate

LEMMA CleanupEarned ==
  ASSUME TypeOK, PublishedIsEarned, Cleanup PROVE PublishedIsEarned'
<1>1. PICK P \in PurgeSets : Purge(P)
  BY DEF Cleanup
<1>2. ASSUME NEW q \in Live'
      PROVE  /\ q \in Live
             /\ records'[q] = [records[q] EXCEPT !.bodyRetained =
                  @ /\ clock < records[q].receivedAt + ReplayAge]
  BY <1>1, <1>2 DEF Purge, Live
<1>3. ASSUME NEW q \in Live'
      PROVE  /\ q \in Live
             /\ records'[q].state = records[q].state
             /\ records'[q].attempts = records[q].attempts
             /\ records'[q].enqueued = records[q].enqueued
             /\ records'[q].resultDigest = records[q].resultDigest
             /\ records'[q].providerAdopted = records[q].providerAdopted
  <2>1. q \in Live /\ records[q] \in Entry
    BY <1>2, LiveEntry
  <2>2. QED BY <1>2, <2>1 DEF Entry
<1>4. QED BY <1>3, EarnedKept

LEMMA NextEarned ==
  ASSUME TypeOK, PublishedIsEarned, [Next]_vars PROVE PublishedIsEarned'
<1>1. CASE AcceptDelivery
  <2>1. PICK k \in Binding, b \in Body, at \in 0 .. MaxClock + FutureSkew :
          \E d \in DeliveriesOf[k.tenant] : Claim(d, b, k, at)
    BY <1>1 DEF AcceptDelivery
  <2>2. PICK d \in DeliveriesOf[k.tenant] : Claim(d, b, k, at)
    BY <2>1
  <2>3. d \in DeliveryId /\ at \in Nat
    BY NamesAssumption DEF Binding
  <2>4. QED BY <2>2, <2>3, ClaimEarned
<1>2. CASE WorkerCall
  BY <1>2, LeaseEarned, PrepareEarned, CommitEarned DEF WorkerCall
<1>3. CASE \/ \E r \in Live : \E m \in MatchLists(r) : ReconcileCheckRun(r, m)
           \/ \E r \in DeliveryId, g \in 1 .. MaxGeneration, c \in Conclusion :
                CompleteCheckRun(r, g, c)
  BY <1>3, ReconcileEarned, CompleteEarned DEF Live
<1>4. CASE Cleanup
  BY <1>4, CleanupEarned
<1>5. CASE UNCHANGED records
  BY <1>5 DEF PublishedIsEarned, Earned, Live
<1>6. CASE \/ \E o \in outbox : AcknowledgeOutbox(o.externalId)
           \/ \E fault \in InjectedFaults : SetAcceptFault(fault)
           \/ ObserveDrift
           \/ Tick
           \/ UNCHANGED vars
  <2>1. UNCHANGED records
    BY <1>6 DEF AcknowledgeOutbox, SetAcceptFault, ObserveDrift, Tick, vars
  <2>2. QED BY <1>5, <2>1
<1>7. QED BY <1>1, <1>2, <1>3, <1>4, <1>6 DEF Next, ProviderCall

(* Every published receipt was leased, prepared, adopted and committed, and  *)
(* no order of the worker's and the provider's calls gets around a step.     *)
THEOREM EarnedAlways == Spec => []PublishedIsEarned
<1>1. Init => PublishedIsEarned
  BY DEF Init, PublishedIsEarned, Live
<1>2. TypeOK /\ PublishedIsEarned /\ [Next]_vars => PublishedIsEarned'
  BY NextEarned
<1>3. QED BY <1>1, <1>2, TypeCorrect, PTL DEF Spec

-----------------------------------------------------------------------------
(* Replay keys *)

Index == ReceiptsIndexed /\ TenantIsolation

(* The deliveries of a claim are of the claimed tenant.                      *)
LEMMA DeliveryOfTenant ==
  ASSUME NEW k \in Binding, NEW d \in DeliveriesOf[k.tenant]
  PROVE  d \in DeliveryId /\ k.tenant \in Tenant /\ k.pull \in Pull
BY NamesAssumption DEF Binding

(* A GUID that claim does not know has no record under its name.             *)
LEMMA ClaimedIsNew ==
  ASSUME TypeOK, ReceiptsIndexed, DisjointDeliveries,
         NEW k \in Binding, NEW d \in DeliveriesOf[k.tenant],
         ~KnownDelivery(d, k)
  PROVE  d \notin Live
<1>1. SUFFICES ASSUME d \in Live PROVE FALSE
  OBVIOUS
<1> DEFINE t == records[d].binding.tenant
<1>2. t \in Tenant /\ d \in DeliveriesOf[t] /\ deliveries[t][d] = d
  BY <1>1, LiveEntry DEF ReceiptsIndexed
<1>3. t = k.tenant
  BY <1>2, DeliveryOfTenant DEF DisjointDeliveries
<1>4. d # None
  BY NamesAssumption, DeliveryOfTenant
<1>5. QED BY <1>2, <1>3, <1>4 DEF KnownDelivery

(* What a step may rewrite of an entry without touching the indexes.         *)
SameKeys(e, f) == /\ e.deliveryIds = f.deliveryIds
                  /\ e.binding = f.binding
                  /\ e.body = f.body
                  /\ e.generation = f.generation
                  /\ e.receivedAt = f.receivedAt

LEMMA SameKeysIndex ==
  ASSUME Index, UNCHANGED indexes, Live' = Live,
         \A r \in Live : SameKeys(records'[r], records[r])
  PROVE  Index'
<1>1. ReceiptsIndexed'
  BY DEF Index, ReceiptsIndexed, SameKeys, indexes
<1>2. TenantIsolation'
  BY DEF Index, TenantIsolation, SameKeys, indexes
<1>3. QED BY <1>1, <1>2 DEF Index

LEMMA ClaimNewIndex ==
  ASSUME TypeOK, Index, DisjointDeliveries,
         NEW k \in Binding, NEW d \in DeliveriesOf[k.tenant], NEW b \in Body,
         NEW at \in Nat, ClaimNew(d, b, k, at)
  PROVE  Index'
<1> DEFINE g == SlotOf(k).generation + 1
           e == NewEntry(d, b, k, at, g)
<1>0. d \in DeliveryId /\ k.tenant \in Tenant /\ k.pull \in Pull
  BY DeliveryOfTenant
<1>1. d \notin Live
  BY ClaimedIsNew DEF ClaimNew, Index
<1>2. g \in Nat \ {0}
  BY <1>0 DEF TypeOK, SlotOf, Slot
<1>3. e # NoEntry /\ e.deliveryIds = {d} /\ e.binding = k /\ e.body = b
        /\ e.generation = g
  BY <1>0, <1>2, NewEntryType DEF NewEntry
<1>4. /\ records'[d] = e
      /\ \A r \in DeliveryId \ {d} : records'[r] = records[r]
      /\ Live' = Live \cup {d}
  BY <1>0, <1>3 DEF ClaimNew, TypeOK, Live
<1>5. /\ \A t \in Tenant, c \in DeliveryId : deliveries'[t][c] =
           IF t = k.tenant /\ c = d THEN d ELSE deliveries[t][c]
      /\ \A t \in Tenant, c \in Body : bodies'[t][c] =
           IF t = k.tenant /\ c = b THEN d ELSE bodies[t][c]
      /\ \A t \in Tenant, p \in Pull : slots'[t][p] =
           IF t = k.tenant /\ p = k.pull
           THEN [receipt |-> d, generation |-> g] ELSE slots[t][p]
  BY <1>0 DEF ClaimNew, TypeOK
<1>6. /\ deliveries[k.tenant][d] = None /\ bodies[k.tenant][b] = None
      /\ None \notin DeliveryId
  BY NamesAssumption DEF ClaimNew, KnownDelivery, KnownBody
<1>7. ReceiptsIndexed'
  <2>1. SUFFICES ASSUME NEW r \in Live'
                 PROVE  LET f == records'[r] IN
                        /\ f.deliveryIds \subseteq DeliveriesOf[f.binding.tenant]
                        /\ r \in f.deliveryIds
                        /\ \A c \in f.deliveryIds :
                             deliveries'[f.binding.tenant][c] = r
                        /\ bodies'[f.binding.tenant][f.body] = r
    BY DEF ReceiptsIndexed
  <2>2. CASE r = d
    BY <2>2, <1>0, <1>3, <1>4, <1>5
  <2>3. CASE r # d
    <3>1. r \in Live /\ records'[r] = records[r] /\ r \in DeliveryId
      BY <1>4, <2>1, <2>3 DEF Live
    <3>2. /\ records[r].binding.tenant \in Tenant /\ records[r].body \in Body
          /\ records[r].deliveryIds \subseteq DeliveryId
      BY <3>1, LiveEntry DEF Entry
    <3>3. LET f == records[r] IN
          /\ f.deliveryIds \subseteq DeliveriesOf[f.binding.tenant]
          /\ r \in f.deliveryIds
          /\ \A c \in f.deliveryIds : deliveries[f.binding.tenant][c] = r
          /\ bodies[f.binding.tenant][f.body] = r
      BY <3>1 DEF Index, ReceiptsIndexed
    <3>4. QED BY <1>5, <1>6, <3>1, <3>2, <3>3
  <2>4. QED BY <2>2, <2>3
<1>8. TenantIsolation'
  <2>1. SUFFICES ASSUME NEW t \in Tenant
                 PROVE
         /\ \A c \in DeliveryId : deliveries'[t][c] # None =>
              /\ deliveries'[t][c] \in Live'
              /\ records'[deliveries'[t][c]].binding.tenant = t
              /\ c \in records'[deliveries'[t][c]].deliveryIds
         /\ \A c \in Body : bodies'[t][c] # None =>
              /\ bodies'[t][c] \in Live'
              /\ records'[bodies'[t][c]].binding.tenant = t
              /\ records'[bodies'[t][c]].body = c
         /\ \A p \in Pull : slots'[t][p] # NoSlot =>
              /\ slots'[t][p].receipt \in Live'
              /\ records'[slots'[t][p].receipt].binding.tenant = t
              /\ records'[slots'[t][p].receipt].binding.pull = p
              /\ records'[slots'[t][p].receipt].generation
                   = slots'[t][p].generation
    BY DEF TenantIsolation
  <2>2. \A r \in Live : r \in Live' /\ records'[r] = records[r]
    BY <1>1, <1>4 DEF Live
  <2>3. ASSUME NEW c \in DeliveryId, deliveries'[t][c] # None
        PROVE  /\ deliveries'[t][c] \in Live'
               /\ records'[deliveries'[t][c]].binding.tenant = t
               /\ c \in records'[deliveries'[t][c]].deliveryIds
    BY <1>3, <1>4, <1>5, <2>2, <2>3 DEF Index, TenantIsolation
  <2>4. ASSUME NEW c \in Body, bodies'[t][c] # None
        PROVE  /\ bodies'[t][c] \in Live'
               /\ records'[bodies'[t][c]].binding.tenant = t
               /\ records'[bodies'[t][c]].body = c
    BY <1>3, <1>4, <1>5, <2>2, <2>4 DEF Index, TenantIsolation
  <2>5. ASSUME NEW p \in Pull, slots'[t][p] # NoSlot
        PROVE  /\ slots'[t][p].receipt \in Live'
               /\ records'[slots'[t][p].receipt].binding.tenant = t
               /\ records'[slots'[t][p].receipt].binding.pull = p
               /\ records'[slots'[t][p].receipt].generation
                    = slots'[t][p].generation
    BY <1>3, <1>4, <1>5, <2>2, <2>5 DEF Index, TenantIsolation
  <2>6. QED BY <2>3, <2>4, <2>5
<1>9. QED BY <1>7, <1>8 DEF Index

LEMMA ClaimAliasIndex ==
  ASSUME TypeOK, Index,
         NEW k \in Binding, NEW d \in DeliveriesOf[k.tenant], NEW b \in Body,
         ClaimAlias(d, b, k)
  PROVE  Index'
<1> DEFINE r == bodies[k.tenant][b]
<1>0. d \in DeliveryId /\ k.tenant \in Tenant /\ k.pull \in Pull
  BY DeliveryOfTenant
<1>1. r \in Live /\ r \in DeliveryId /\ records[r] \in Entry
        /\ records[r].binding = k
  BY <1>0 DEF TypeOK, ClaimAlias, KnownBody, Live
<1>2. /\ records'[r] = [records[r] EXCEPT !.deliveryIds = @ \cup {d}]
      /\ \A q \in DeliveryId \ {r} : records'[q] = records[q]
  BY <1>1 DEF ClaimAlias, TypeOK
<1>3. /\ records'[r].deliveryIds = records[r].deliveryIds \cup {d}
      /\ records'[r].binding = k
      /\ records'[r].body = records[r].body
      /\ records'[r].generation = records[r].generation
      /\ records'[r] \in Entry
  BY <1>0, <1>1, <1>2 DEF Entry
<1>4. Live' = Live
  BY <1>1, <1>2, <1>3, NamesAssumption DEF Live
<1>5. /\ bodies' = bodies /\ slots' = slots
      /\ \A t \in Tenant, c \in DeliveryId : deliveries'[t][c] =
           IF t = k.tenant /\ c = d THEN r ELSE deliveries[t][c]
  BY <1>0 DEF ClaimAlias, TypeOK
<1>6. deliveries[k.tenant][d] = None /\ None \notin DeliveryId
  BY NamesAssumption DEF ClaimAlias, KnownDelivery
<1>7. ReceiptsIndexed'
  <2>1. SUFFICES ASSUME NEW q \in Live'
                 PROVE  LET f == records'[q] IN
                        /\ f.deliveryIds \subseteq DeliveriesOf[f.binding.tenant]
                        /\ q \in f.deliveryIds
                        /\ \A c \in f.deliveryIds :
                             deliveries'[f.binding.tenant][c] = q
                        /\ bodies'[f.binding.tenant][f.body] = q
    BY DEF ReceiptsIndexed
  <2>2. /\ q \in Live /\ q \in DeliveryId /\ records[q] \in Entry
        /\ records[q].deliveryIds \subseteq DeliveryId
        /\ records[q].binding.tenant \in Tenant
    BY <1>4, LiveEntry DEF Entry
  <2>3. LET f == records[q] IN
        /\ f.deliveryIds \subseteq DeliveriesOf[f.binding.tenant]
        /\ q \in f.deliveryIds
        /\ \A c \in f.deliveryIds : deliveries[f.binding.tenant][c] = q
        /\ bodies[f.binding.tenant][f.body] = q
    BY <2>2 DEF Index, ReceiptsIndexed
  <2>4. CASE q = r
    <3>1. /\ records[q].deliveryIds \cup {d} = records'[q].deliveryIds
          /\ records'[q].binding = k /\ records[q].binding = k
          /\ records'[q].body = records[q].body
      BY <1>1, <1>3, <2>4
    <3>2. \A c \in records'[q].deliveryIds : deliveries'[k.tenant][c] = q
      <4>1. ASSUME NEW c \in records[q].deliveryIds
            PROVE  c \in DeliveryId /\ deliveries[k.tenant][c] = q
        BY <2>2, <2>3, <3>1
      <4>2. QED BY <1>0, <1>5, <2>4, <3>1, <4>1
    <3>3. QED BY <1>5, <2>3, <3>1, <3>2
  <2>5. CASE q # r
    BY <1>2, <1>5, <1>6, <2>2, <2>3, <2>5
  <2>6. QED BY <2>4, <2>5
<1>8. TenantIsolation'
  <2>1. \A q \in Live : /\ q \in Live' /\ q \in DeliveryId
                        /\ records'[q].binding = records[q].binding
                        /\ records'[q].body = records[q].body
                        /\ records'[q].generation = records[q].generation
                        /\ records[q].deliveryIds \subseteq records'[q].deliveryIds
    BY <1>1, <1>2, <1>3, <1>4 DEF Live
  <2>2. ASSUME NEW t \in Tenant, NEW c \in DeliveryId, deliveries'[t][c] # None
        PROVE  /\ deliveries'[t][c] \in Live'
               /\ records'[deliveries'[t][c]].binding.tenant = t
               /\ c \in records'[deliveries'[t][c]].deliveryIds
    <3>1. CASE t = k.tenant /\ c = d
      BY <1>1, <1>3, <1>4, <1>5, <3>1
    <3>2. CASE ~(t = k.tenant /\ c = d)
      BY <1>5, <2>1, <2>2, <3>2 DEF Index, TenantIsolation
    <3>3. QED BY <3>1, <3>2
  <2>3. ASSUME NEW t \in Tenant, NEW c \in Body, bodies'[t][c] # None
        PROVE  /\ bodies'[t][c] \in Live'
               /\ records'[bodies'[t][c]].binding.tenant = t
               /\ records'[bodies'[t][c]].body = c
    BY <1>5, <2>1, <2>3 DEF Index, TenantIsolation
  <2>4. ASSUME NEW t \in Tenant, NEW p \in Pull, slots'[t][p] # NoSlot
        PROVE  /\ slots'[t][p].receipt \in Live'
               /\ records'[slots'[t][p].receipt].binding.tenant = t
               /\ records'[slots'[t][p].receipt].binding.pull = p
               /\ records'[slots'[t][p].receipt].generation
                    = slots'[t][p].generation
    BY <1>5, <2>1, <2>4 DEF Index, TenantIsolation
  <2>5. QED BY <2>2, <2>3, <2>4 DEF TenantIsolation
<1>9. QED BY <1>7, <1>8 DEF Index

(* Purging forgets exactly the keys of the purged receipts: what is left is  *)
(* indexed, and no key of a purged receipt is.                               *)
LEMMA PurgeIndex ==
  ASSUME TypeOK, Index, NEW P \in PurgeSets, Purge(P) PROVE Index'
<1>0. P \subseteq Live /\ None \notin DeliveryId
  BY NamesAssumption DEF PurgeSets, Due
<1>1. /\ Live' = Live \ P
      /\ \A q \in Live \ P :
           /\ q \in DeliveryId
           /\ SameKeys(records'[q], records[q])
  <2>1. \A q \in DeliveryId : records'[q] =
          IF q \in P \/ q \notin Live THEN NoEntry
          ELSE [records[q] EXCEPT !.bodyRetained =
                  @ /\ clock < records[q].receivedAt + ReplayAge]
    BY DEF Purge
  <2>2. ASSUME NEW q \in Live, q \notin P
        PROVE  /\ records'[q] \in Entry /\ SameKeys(records'[q], records[q])
               /\ q \in DeliveryId
    <3> DEFINE f == [records[q] EXCEPT !.bodyRetained =
                       @ /\ clock < records[q].receivedAt + ReplayAge]
    <3>1. records[q] \in Entry /\ q \in DeliveryId
      BY <2>2, LiveEntry
    <3>2. f \in Entry /\ SameKeys(f, records[q])
      BY <3>1 DEF Entry, SameKeys
    <3>3. records'[q] = f
      BY <2>1, <2>2, <3>1
    <3>4. QED BY <3>1, <3>2, <3>3
  <2>3. \A q \in Live \ P : records'[q] # NoEntry
    BY <2>2, NamesAssumption
  <2>4. QED BY <1>0, <2>1, <2>2, <2>3 DEF Live
<1>2. /\ \A t \in Tenant, d \in DeliveryId : deliveries'[t][d] =
           IF \E q \in P : records[q].binding.tenant = t /\ d \in records[q].deliveryIds
           THEN None ELSE deliveries[t][d]
      /\ \A t \in Tenant, b \in Body : bodies'[t][b] =
           IF \E q \in P : records[q].binding.tenant = t /\ records[q].body = b
           THEN None ELSE bodies[t][b]
      /\ \A t \in Tenant, p \in Pull : slots'[t][p] =
           IF \E q \in P : /\ records[q].binding.tenant = t
                           /\ records[q].binding.pull = p
                           /\ slots[t][p].receipt = q
           THEN NoSlot ELSE slots[t][p]
  BY DEF Purge, Purges
<1>3. ReceiptsIndexed'
  <2>1. SUFFICES ASSUME NEW q \in Live'
                 PROVE  LET f == records'[q] IN
                        /\ f.deliveryIds \subseteq DeliveriesOf[f.binding.tenant]
                        /\ q \in f.deliveryIds
                        /\ \A c \in f.deliveryIds :
                             deliveries'[f.binding.tenant][c] = q
                        /\ bodies'[f.binding.tenant][f.body] = q
    BY DEF ReceiptsIndexed
  <2>2. q \in Live /\ q \notin P /\ SameKeys(records'[q], records[q])
    BY <1>1
  <2>3. /\ records[q].binding.tenant \in Tenant
        /\ records[q].deliveryIds \subseteq DeliveryId
        /\ records[q].body \in Body
    BY <2>2, LiveEntry DEF Entry
  <2>4. LET f == records[q] IN
        /\ f.deliveryIds \subseteq DeliveriesOf[f.binding.tenant]
        /\ q \in f.deliveryIds
        /\ \A c \in f.deliveryIds : deliveries[f.binding.tenant][c] = q
        /\ bodies[f.binding.tenant][f.body] = q
    BY <2>2 DEF Index, ReceiptsIndexed
  <2>5. \A c \in records[q].deliveryIds :
          deliveries'[records[q].binding.tenant][c] = q
    <3>1. SUFFICES ASSUME NEW c \in records[q].deliveryIds
                   PROVE  ~ \E s \in P :
                            /\ records[s].binding.tenant = records[q].binding.tenant
                            /\ c \in records[s].deliveryIds
      BY <1>2, <2>3, <2>4
    <3>2. SUFFICES ASSUME NEW s \in P,
                          records[s].binding.tenant = records[q].binding.tenant,
                          c \in records[s].deliveryIds
                   PROVE  FALSE
      OBVIOUS
    <3>3. s \in Live /\ deliveries[records[q].binding.tenant][c] = s
      BY <1>0, <3>2 DEF Index, ReceiptsIndexed
    <3>4. QED BY <2>2, <2>4, <3>3
  <2>6. bodies'[records[q].binding.tenant][records[q].body] = q
    <3>1. SUFFICES ASSUME NEW s \in P,
                          records[s].binding.tenant = records[q].binding.tenant,
                          records[s].body = records[q].body
                   PROVE  FALSE
      BY <1>2, <2>3, <2>4
    <3>2. bodies[records[q].binding.tenant][records[q].body] = s
      BY <1>0, <3>1 DEF Index, ReceiptsIndexed
    <3>3. QED BY <2>2, <2>4, <3>2
  <2>7. QED BY <2>2, <2>4, <2>5, <2>6 DEF SameKeys
<1>4. TenantIsolation'
  <2>1. ASSUME NEW t \in Tenant, NEW c \in DeliveryId, deliveries'[t][c] # None
        PROVE  /\ deliveries'[t][c] \in Live'
               /\ records'[deliveries'[t][c]].binding.tenant = t
               /\ c \in records'[deliveries'[t][c]].deliveryIds
    <3> DEFINE q == deliveries[t][c]
    <3>1. /\ deliveries'[t][c] = q /\ q # None
          /\ ~ \E s \in P : records[s].binding.tenant = t /\ c \in records[s].deliveryIds
      BY <1>2, <2>1
    <3>2. q \in Live /\ records[q].binding.tenant = t /\ c \in records[q].deliveryIds
      BY <3>1 DEF Index, TenantIsolation
    <3>3. QED BY <1>1, <3>1, <3>2 DEF SameKeys
  <2>2. ASSUME NEW t \in Tenant, NEW c \in Body, bodies'[t][c] # None
        PROVE  /\ bodies'[t][c] \in Live'
               /\ records'[bodies'[t][c]].binding.tenant = t
               /\ records'[bodies'[t][c]].body = c
    <3> DEFINE q == bodies[t][c]
    <3>1. /\ bodies'[t][c] = q /\ q # None
          /\ ~ \E s \in P : records[s].binding.tenant = t /\ records[s].body = c
      BY <1>2, <2>2
    <3>2. q \in Live /\ records[q].binding.tenant = t /\ records[q].body = c
      BY <3>1 DEF Index, TenantIsolation
    <3>3. QED BY <1>1, <3>1, <3>2 DEF SameKeys
  <2>3. ASSUME NEW t \in Tenant, NEW p \in Pull, slots'[t][p] # NoSlot
        PROVE  /\ slots'[t][p].receipt \in Live'
               /\ records'[slots'[t][p].receipt].binding.tenant = t
               /\ records'[slots'[t][p].receipt].binding.pull = p
               /\ records'[slots'[t][p].receipt].generation
                    = slots'[t][p].generation
    <3> DEFINE q == slots[t][p].receipt
    <3>1. /\ slots'[t][p] = slots[t][p] /\ slots[t][p] # NoSlot
          /\ ~ \E s \in P : /\ records[s].binding.tenant = t
                            /\ records[s].binding.pull = p
                            /\ slots[t][p].receipt = s
      BY <1>2, <2>3
    <3>2. /\ q \in Live /\ records[q].binding.tenant = t
          /\ records[q].binding.pull = p
          /\ records[q].generation = slots[t][p].generation
      BY <3>1 DEF Index, TenantIsolation
    <3>3. QED BY <1>1, <3>1, <3>2 DEF SameKeys
  <2>4. QED BY <2>1, <2>2, <2>3 DEF TenantIsolation
<1>5. QED BY <1>3, <1>4 DEF Index

-----------------------------------------------------------------------------
(* The five things a step can do to the records and their keys.              *)

Untouched == UNCHANGED <<records, indexes>>

Created == \E k \in Binding, b \in Body, at \in Nat :
             \E d \in DeliveriesOf[k.tenant] : ClaimNew(d, b, k, at)

Aliased == \E k \in Binding, b \in Body :
             \E d \in DeliveriesOf[k.tenant] : ClaimAlias(d, b, k)

(* How a rewrite moves a verdict: not at all, back to open, to a decision,   *)
(* or to the publication of what was decided.                                *)
MovesVerdict(old, new) ==
  LET phase == PhaseOf(old.state)
      next == PhaseOf(new.state) IN
  \/ phase = next /\ (phase # "open" => old.resultDigest = new.resultDigest)
  \/ phase = "decided" /\ next = "open"
  \/ phase = "open" /\ next = "decided" /\ new.resultDigest \in Digest
  \/ /\ phase = "decided" /\ next = "published"
     /\ old.resultDigest = new.resultDigest

(* A worker's or the provider's call rewrites the current receipt of a slot  *)
(* and leaves a published one as it is.                                      *)
Rewrites(r, e) ==
  /\ r \in Live /\ IsCurrent(r)
  /\ e \in Entry /\ SameKeys(e, records[r])
  /\ records' = [records EXCEPT ![r] = e]
  /\ UNCHANGED indexes
  /\ MovesVerdict(records[r], e)
  /\ records[r].state = "published" /\ records[r].providerAdopted
       => e = records[r]

Rewritten == \E r \in Live : \E e \in Entry : Rewrites(r, e)

Purged == \E P \in PurgeSets : Purge(P)

LEMMA AcceptKind ==
  ASSUME TypeOK, AcceptDelivery PROVE Untouched \/ Created \/ Aliased
<1>1. PICK k \in Binding, b \in Body, at \in 0 .. MaxClock + FutureSkew :
        \E d \in DeliveriesOf[k.tenant] : Claim(d, b, k, at)
  BY DEF AcceptDelivery
<1>2. PICK d \in DeliveriesOf[k.tenant] : Claim(d, b, k, at)
  BY <1>1
<1>3. at \in Nat
  BY <1>1
<1>4. \/ Untouched
      \/ ClaimNew(d, b, k, at)
      \/ ClaimAlias(d, b, k)
  BY <1>2 DEF Claim, ClaimKnown, ClaimRefused, Untouched
<1>5. QED BY <1>2, <1>3, <1>4 DEF Created, Aliased

LEMMA WorkerKind == ASSUME TypeOK, WorkerCall PROVE Rewritten
<1>1. PICK r \in DeliveryId :
        \/ \E term \in LeaseTerm : Lease(r, term)
        \/ \E attempt \in 1 .. MaxAttempts : Prepare(r, attempt)
        \/ \E g \in 1 .. MaxGeneration, x \in Digest, attempt \in 1 .. MaxAttempts :
             Commit(r, g, x, attempt)
  BY DEF WorkerCall
<1>2. r \in Live /\ IsCurrent(r) /\ records[r].state # "published"
  BY <1>1 DEF Lease, CanLease, Prepare, CanPrepare, Commit, CanCommit
<1>3. records[r] \in Entry
  BY <1>2, LiveEntry
<1>4. ASSUME NEW term \in LeaseTerm, Lease(r, term) PROVE Rewritten
  <2> DEFINE e == [records[r] EXCEPT !.attempts = @ + 1,
                                     !.leaseUntil = clock + term,
                                     !.state = "processing"]
  <2>1. clock + term \in Nat /\ records[r].attempts + 1 \in Nat
    <3>1. clock \in Nat /\ term \in Nat /\ records[r].attempts \in Nat
      BY <1>3, LimitsAssumption DEF Entry, TypeOK
    <3>2. QED BY <3>1
  <2>2. e \in Entry /\ SameKeys(e, records[r])
    BY <1>3, <2>1 DEF Entry, State, SameKeys
  <2>3. records' = [records EXCEPT ![r] = e] /\ UNCHANGED indexes
    BY <1>2, <1>4 DEF Lease, TypeOK
  <2>4. MovesVerdict(records[r], e)
    BY <1>2, <1>3 DEF MovesVerdict, PhaseOf, Entry, State
  <2>5. QED BY <1>2, <2>2, <2>3, <2>4 DEF Rewritten, Rewrites
<1>5. ASSUME NEW attempt, Prepare(r, attempt) PROVE Rewritten
  <2> DEFINE e == [records[r] EXCEPT !.state = "prepared", !.enqueued = TRUE]
  <2>1. e \in Entry /\ SameKeys(e, records[r])
    BY <1>3 DEF Entry, State, SameKeys
  <2>2. records' = [records EXCEPT ![r] = e] /\ UNCHANGED indexes
    BY <1>2, <1>5 DEF Prepare, TypeOK
  <2>3. MovesVerdict(records[r], e)
    BY <1>3, <1>5 DEF Prepare, CanPrepare, MovesVerdict, PhaseOf, Entry
  <2>4. QED BY <1>2, <2>1, <2>2, <2>3 DEF Rewritten, Rewrites
<1>6. ASSUME NEW g, NEW x \in Digest, NEW attempt, Commit(r, g, x, attempt)
      PROVE  Rewritten
  <2> DEFINE e == [records[r] EXCEPT !.resultDigest = x, !.state = "committed"]
  <2>1. e \in Entry /\ SameKeys(e, records[r])
    BY <1>3 DEF Entry, State, SameKeys
  <2>2. records' = [records EXCEPT ![r] = e] /\ UNCHANGED indexes
    BY <1>2, <1>6 DEF Commit, TypeOK
  <2>3. MovesVerdict(records[r], e)
    BY <1>3, <1>6 DEF Commit, CanCommit, MovesVerdict, PhaseOf, Entry
  <2>4. QED BY <1>2, <2>1, <2>2, <2>3 DEF Rewritten, Rewrites
<1>7. QED BY <1>1, <1>4, <1>5, <1>6

LEMMA ProviderKind ==
  ASSUME TypeOK, ProviderCall PROVE Rewritten \/ Untouched
<1>1. ASSUME NEW r \in Live, NEW matches, ReconcileCheckRun(r, matches)
      PROVE  Rewritten
  <2> DEFINE s == IF records[r].state \in {"committed", "published"}
                  THEN records[r].state ELSE "provider_adopted"
             e == [records[r] EXCEPT !.providerAdopted = TRUE, !.state = s]
  <2>1. IsCurrent(r) /\ records[r] \in Entry
    BY <1>1, LiveEntry DEF ReconcileCheckRun, CanAdopt
  <2>2. e \in Entry /\ SameKeys(e, records[r])
    BY <2>1 DEF Entry, State, SameKeys
  <2>3. records' = [records EXCEPT ![r] = e] /\ UNCHANGED indexes
    BY <1>1, <2>1 DEF ReconcileCheckRun, TypeOK
  <2>4. records[r].state = "published" /\ records[r].providerAdopted
          => e = records[r]
    <3>1. SUFFICES ASSUME records[r].state = "published",
                          records[r].providerAdopted
                   PROVE  e = records[r]
      OBVIOUS
    <3>2. s = "published" /\ records[r].providerAdopted = TRUE
      BY <2>1, <3>1 DEF Entry
    <3>3. QED BY <2>1, <3>1, <3>2 DEF Entry
  <2>5. MovesVerdict(records[r], e)
    BY <2>1 DEF MovesVerdict, PhaseOf, Entry
  <2>6. QED BY <2>1, <2>2, <2>3, <2>4, <2>5 DEF Rewritten, Rewrites
<1>2. ASSUME NEW r \in DeliveryId, NEW g, NEW c, CompleteCheckRun(r, g, c)
      PROVE  Rewritten
  <2> DEFINE e == [records[r] EXCEPT !.state = "published"]
  <2>1. /\ r \in Live /\ IsCurrent(r) /\ records[r].state = "committed"
        /\ records[r] \in Entry
    BY <1>2, LiveEntry DEF CompleteCheckRun, CanComplete
  <2>2. e \in Entry /\ SameKeys(e, records[r])
    BY <2>1 DEF Entry, State, SameKeys
  <2>3. records' = [records EXCEPT ![r] = e] /\ UNCHANGED indexes
    BY <1>2, <2>1 DEF CompleteCheckRun, TypeOK
  <2>4. MovesVerdict(records[r], e)
    BY <2>1 DEF MovesVerdict, PhaseOf, Entry
  <2>5. QED BY <2>1, <2>2, <2>3, <2>4 DEF Rewritten, Rewrites
<1>3. ASSUME NEW id, AcknowledgeOutbox(id) PROVE Untouched
  BY <1>3 DEF AcknowledgeOutbox, Untouched
<1>4. QED BY <1>1, <1>2, <1>3 DEF ProviderCall

LEMMA StepKind ==
  ASSUME TypeOK, [Next]_vars
  PROVE  Untouched \/ Created \/ Aliased \/ Rewritten \/ Purged
<1>1. CASE AcceptDelivery
  BY <1>1, AcceptKind
<1>2. CASE WorkerCall
  BY <1>2, WorkerKind
<1>3. CASE ProviderCall
  BY <1>3, ProviderKind
<1>4. CASE Cleanup
  BY <1>4 DEF Cleanup, Purged
<1>5. CASE \/ \E fault \in InjectedFaults : SetAcceptFault(fault)
           \/ ObserveDrift
           \/ Tick
           \/ UNCHANGED vars
  BY <1>5 DEF SetAcceptFault, ObserveDrift, Tick, vars, indexes, Untouched
<1>6. QED BY <1>1, <1>2, <1>3, <1>4, <1>5 DEF Next

-----------------------------------------------------------------------------
(* The replay keys.                                                          *)

LEMMA RewritesIndex ==
  ASSUME TypeOK, Index, NEW r \in Live, NEW e \in Entry, Rewrites(r, e)
  PROVE  Index'
<1>1. r \in DeliveryId /\ e # NoEntry
  BY NamesAssumption DEF Live
<1>2. \A q \in DeliveryId : records'[q] = IF q = r THEN e ELSE records[q]
  BY <1>1 DEF Rewrites, TypeOK
<1>3. Live' = Live
  BY <1>1, <1>2 DEF Live
<1>4. \A q \in Live : SameKeys(records'[q], records[q])
  BY <1>2 DEF Rewrites, SameKeys, Live
<1>5. QED BY <1>3, <1>4, SameKeysIndex DEF Rewrites

LEMMA NextIndex ==
  ASSUME TypeOK, Index, DisjointDeliveries, [Next]_vars PROVE Index'
<1>1. CASE Untouched
  <2>1. Live' = Live /\ \A r \in Live : SameKeys(records'[r], records[r])
    BY <1>1 DEF Untouched, Live, SameKeys
  <2>2. QED BY <1>1, <2>1, SameKeysIndex DEF Untouched
<1>2. CASE Created
  BY <1>2, ClaimNewIndex DEF Created
<1>3. CASE Aliased
  BY <1>3, ClaimAliasIndex DEF Aliased
<1>4. CASE Rewritten
  BY <1>4, RewritesIndex DEF Rewritten
<1>5. CASE Purged
  BY <1>5, PurgeIndex DEF Purged
<1>6. QED BY <1>1, <1>2, <1>3, <1>4, <1>5, StepKind

LEMMA InitIndex == Init => Index
<1> SUFFICES ASSUME Init PROVE Index
  OBVIOUS
<1>1. Live = {}
  BY DEF Init, Live
<1>2. ReceiptsIndexed
  BY <1>1 DEF ReceiptsIndexed
<1>3. TenantIsolation
  BY DEF Init, TenantIsolation
<1>4. QED BY <1>2, <1>3 DEF Index

(* Where every GUID belongs to one tenant, the replay keys and the records   *)
(* point at each other and never across tenants, whatever is claimed,        *)
(* aliased, superseded and purged.                                           *)
THEOREM IndexAlways ==
  ASSUME DisjointDeliveries
  PROVE  Spec => [](ReceiptsIndexed /\ TenantIsolation)
<1>1. TypeOK /\ Index /\ [Next]_vars => Index'
  BY NextIndex
<1>2. Spec => []Index
  BY <1>1, InitIndex, TypeCorrect, PTL DEF Spec
<1>3. QED BY <1>2 DEF Index

(* Half of it by its own name: a redelivery, under any GUID that a receipt   *)
(* has answered, finds that receipt.                                         *)
THEOREM ReceiptsAlwaysIndexed ==
  ASSUME DisjointDeliveries PROVE Spec => []ReceiptsIndexed
<1>1. Spec => [](ReceiptsIndexed /\ TenantIsolation)
  BY IndexAlways
<1>2. QED BY <1>1, PTL

(* Two receipts of one tenant never stand for the same raw body.             *)
THEOREM OneEvaluationAlways ==
  ASSUME DisjointDeliveries PROVE Spec => []OneEvaluationPerBody
<1>1. TypeOK /\ Index => OneEvaluationPerBody
  BY DEF Index, ReceiptsIndexed, OneEvaluationPerBody
<1>2. TypeOK /\ Index /\ [Next]_vars => Index'
  BY NextIndex
<1>3. QED BY <1>1, <1>2, InitIndex, TypeCorrect, PTL DEF Spec

-----------------------------------------------------------------------------
(* What a step may never do to a receipt.                                    *)

(* A claim, new or alias, rewrites of the receipts there were only the list  *)
(* of delivery ids.                                                          *)
LEMMA ClaimKeeps ==
  ASSUME TypeOK, Index, DisjointDeliveries, Created \/ Aliased, NEW r \in Live
  PROVE  Processing(records'[r]) = Processing(records[r])
<1>1. CASE Created
  <2>1. PICK k \in Binding, b \in Body, at \in Nat :
          \E d \in DeliveriesOf[k.tenant] : ClaimNew(d, b, k, at)
    BY <1>1 DEF Created
  <2>2. PICK d \in DeliveriesOf[k.tenant] : ClaimNew(d, b, k, at)
    BY <2>1
  <2>3. d \notin Live
    BY <2>2, ClaimedIsNew DEF ClaimNew, Index
  <2>4. records'[r] = records[r]
    BY <2>2, <2>3, LiveEntry DEF ClaimNew, TypeOK
  <2>5. QED BY <2>4
<1>2. CASE Aliased
  <2>1. PICK k \in Binding, b \in Body :
          \E d \in DeliveriesOf[k.tenant] : ClaimAlias(d, b, k)
    BY <1>2 DEF Aliased
  <2>2. PICK d \in DeliveriesOf[k.tenant] : ClaimAlias(d, b, k)
    BY <2>1
  <2> DEFINE q == bodies[k.tenant][b]
  <2>3. records' = [records EXCEPT ![q].deliveryIds = @ \cup {d}]
    BY <2>2 DEF ClaimAlias
  <2>4. r \in DeliveryId /\ records[r] \in Entry
    BY LiveEntry
  <2>5. CASE r = q
    <3>1. records'[r] = [records[r] EXCEPT !.deliveryIds = @ \cup {d}]
      BY <2>3, <2>4, <2>5 DEF TypeOK
    <3> DEFINE e == records[r]
               f == [e EXCEPT !.deliveryIds = e.deliveryIds \cup {d}]
    <3>2. e \in Entry /\ records'[r] = f
      BY <2>4, <3>1
    <3>3. /\ f.generation = e.generation /\ f.binding = e.binding
          /\ f.attempts = e.attempts /\ f.leaseUntil = e.leaseUntil
          /\ f.state = e.state /\ f.enqueued = e.enqueued
          /\ f.resultDigest = e.resultDigest
          /\ f.providerAdopted = e.providerAdopted
      BY <3>2 DEF Entry
    <3>4. QED BY <3>2, <3>3 DEF Processing
  <2>6. CASE r # q
    <3>1. records'[r] = records[r]
      BY <2>3, <2>4, <2>6 DEF TypeOK
    <3>2. QED BY <3>1
  <2>7. QED BY <2>5, <2>6
<1>3. QED BY <1>1, <1>2

(* Cleanup rewrites of the receipts it keeps only the flag of the raw body.  *)
LEMMA PurgeKeeps ==
  ASSUME TypeOK, NEW P \in PurgeSets, Purge(P), NEW r \in Live, r \in Live'
  PROVE  Processing(records'[r]) = Processing(records[r])
<1>1. r \in DeliveryId /\ records[r] \in Entry /\ records'[r] # NoEntry
  BY LiveEntry DEF Live
<1>2. records'[r] = [records[r] EXCEPT !.bodyRetained =
                       @ /\ clock < records[r].receivedAt + ReplayAge]
  BY <1>1 DEF Purge
<1>3. QED BY <1>1, <1>2 DEF Entry, Processing

(* A claim or a purge never makes a superseded receipt current again.        *)
LEMMA StaysSuperseded ==
  ASSUME TypeOK, Index, DisjointDeliveries, Created \/ Aliased \/ Purged,
         NEW r \in Live, ~IsCurrent(r), r \in Live'
  PROVE  ~IsCurrent(r)'
<1> DEFINE t == records[r].binding.tenant
           p == records[r].binding.pull
           me == [receipt |-> r, generation |-> records[r].generation]
<1>1. /\ r \in DeliveryId /\ t \in Tenant /\ p \in Pull
      /\ slots[t][p] # me
  BY LiveEntry DEF IsCurrent, SlotOf
<1>2. /\ records'[r].binding = records[r].binding
      /\ records'[r].generation = records[r].generation
  <2>1. Processing(records'[r]) = Processing(records[r])
    BY ClaimKeeps, PurgeKeeps DEF Purged
  <2>2. QED BY <2>1 DEF Processing
<1>3. slots'[t][p] # me
  <2>1. CASE Created
    <3>1. PICK k \in Binding, b \in Body, at \in Nat :
            \E d \in DeliveriesOf[k.tenant] : ClaimNew(d, b, k, at)
      BY <2>1 DEF Created
    <3>2. PICK d \in DeliveriesOf[k.tenant] : ClaimNew(d, b, k, at)
      BY <3>1
    <3>3. d # r
      BY <3>2, ClaimedIsNew DEF ClaimNew, Index
    <3>4. QED BY <1>1, <3>2, <3>3 DEF ClaimNew, TypeOK
  <2>2. CASE Aliased
    BY <1>1, <2>2 DEF Aliased, ClaimAlias
  <2>3. CASE Purged
    <3>1. slots'[t][p] \in {slots[t][p], NoSlot}
      <4>1. PICK P \in PurgeSets : Purge(P)
        BY <2>3 DEF Purged
      <4>2. slots'[t][p] =
              IF \E q \in P : /\ records[q].binding.tenant = t
                              /\ records[q].binding.pull = p
                              /\ slots[t][p].receipt = q
              THEN NoSlot ELSE slots[t][p]
        BY <1>1, <4>1, Zenon DEF Purge
      <4>3. QED BY <4>2
    <3>2. NoSlot # me
      BY <1>1, NamesAssumption DEF NoSlot
    <3>3. QED BY <1>1, <3>1, <3>2
  <2>4. QED BY <2>1, <2>2, <2>3
<1>4. QED BY <1>2, <1>3 DEF IsCurrent, SlotOf

(* A rewrite is of one receipt and leaves the slots and the keys alone.      *)
LEMMA RewritesOne ==
  ASSUME TypeOK, NEW q \in Live, NEW e \in Entry, Rewrites(q, e),
         NEW r \in Live, r # q
  PROVE  records'[r] = records[r] /\ IsCurrent(r)' = IsCurrent(r)
<1>1. records'[r] = records[r]
  BY LiveEntry DEF Rewrites, TypeOK
<1>2. QED BY <1>1 DEF Rewrites, indexes, IsCurrent, SlotOf

LEMMA NextFreezes ==
  ASSUME TypeOK, Index, DisjointDeliveries, [Next]_vars,
         NEW r \in Live, ~IsCurrent(r), r \in Live'
  PROVE  ~IsCurrent(r)' /\ Processing(records'[r]) = Processing(records[r])
<1>1. CASE Untouched
  BY <1>1 DEF Untouched, indexes, IsCurrent, SlotOf
<1>2. CASE Created \/ Aliased
  BY <1>2, ClaimKeeps, StaysSuperseded
<1>3. CASE Purged
  BY <1>3, PurgeKeeps, StaysSuperseded DEF Purged
<1>4. CASE Rewritten
  <2>1. PICK q \in Live : \E e \in Entry : Rewrites(q, e)
    BY <1>4 DEF Rewritten
  <2>2. PICK e \in Entry : Rewrites(q, e)
    BY <2>1
  <2>3. q # r
    BY <2>2 DEF Rewrites
  <2>4. QED BY <2>2, <2>3, RewritesOne
<1>5. QED BY <1>1, <1>2, <1>3, <1>4, StepKind

(* No call that still holds a superseded receipt changes it or revives it.   *)
THEOREM SupersededStaysFrozen ==
  ASSUME DisjointDeliveries PROVE Spec => SupersededIsFrozen
<1>1. TypeOK /\ Index /\ [Next]_vars
      => [\A r \in Live : ~IsCurrent(r) /\ r \in Live' =>
            /\ ~IsCurrent(r)'
            /\ Processing(records[r])' = Processing(records[r])]_vars
  BY NextFreezes DEF Processing
<1>2. TypeOK /\ Index /\ [Next]_vars => Index'
  BY NextIndex
<1>3. QED BY <1>1, <1>2, InitIndex, TypeCorrect, PTL DEF Spec, SupersededIsFrozen

LEMMA NextKeepsPublished ==
  ASSUME TypeOK, PublishedIsEarned, Index, DisjointDeliveries, [Next]_vars,
         NEW r \in Live, records[r].state = "published", r \in Live'
  PROVE  Processing(records'[r]) = Processing(records[r])
<1>1. CASE Untouched
  BY <1>1 DEF Untouched
<1>2. CASE Created \/ Aliased
  BY <1>2, ClaimKeeps
<1>3. CASE Purged
  BY <1>3, PurgeKeeps DEF Purged
<1>4. CASE Rewritten
  <2>1. PICK q \in Live : \E e \in Entry : Rewrites(q, e)
    BY <1>4 DEF Rewritten
  <2>2. PICK e \in Entry : Rewrites(q, e)
    BY <2>1
  <2>3. CASE q = r
    <3>1. records[r].providerAdopted
      BY DEF PublishedIsEarned, Earned
    <3>2. e = records[r]
      BY <2>2, <2>3, <3>1 DEF Rewrites
    <3>3. QED BY <2>2, <2>3, <3>2, LiveEntry DEF Rewrites, TypeOK
  <2>4. CASE q # r
    BY <2>2, <2>4, RewritesOne
  <2>5. QED BY <2>3, <2>4
<1>5. QED BY <1>1, <1>2, <1>3, <1>4, StepKind

(* A published receipt is not taken back by a reclaim, a late commit or a    *)
(* second answer of the provider.                                            *)
THEOREM PublishedStaysFinal ==
  ASSUME DisjointDeliveries PROVE Spec => PublishedIsFinal
<1>1. TypeOK /\ PublishedIsEarned /\ Index /\ [Next]_vars
      => [\A r \in Live : records[r].state = "published" /\ r \in Live' =>
            Processing(records[r])' = Processing(records[r])]_vars
  BY NextKeepsPublished DEF Processing
<1>2. TypeOK /\ Index /\ [Next]_vars => Index'
  BY NextIndex
<1>3. QED BY <1>1, <1>2, InitIndex, TypeCorrect, EarnedAlways, PTL
          DEF Spec, PublishedIsFinal

-----------------------------------------------------------------------------
(* The store implements SlotLedger: each step supersedes, decides, reopens,  *)
(* publishes or forgets verdicts, or leaves them alone.                      *)

V == [t \in Tenant |-> [p \in Pull |-> VerdictOf(slots[t][p])]]

(* What VerdictOf reads of an entry. *)
Reading(e, generation) ==
  [generation |-> generation, phase |-> PhaseOf(e.state),
   digest |-> IF PhaseOf(e.state) = "open" THEN None ELSE e.resultDigest]

(* The verdict of a slot is what its current entry reads as, if it has one.  *)
LEMMA VerdictNow ==
  ASSUME NEW t \in Tenant, NEW p \in Pull
  PROVE  /\ slots[t][p] = NoSlot => V[t][p] = Ledger!Idle
         /\ slots[t][p] # NoSlot =>
              V[t][p] = Reading(records[slots[t][p].receipt],
                                slots[t][p].generation)
BY DEF V, VerdictOf, Reading, Ledger!Idle

(* The same of the state after a step.                                       *)
LEMMA VerdictNext ==
  ASSUME NEW t \in Tenant, NEW p \in Pull
  PROVE  /\ slots'[t][p] = NoSlot => V'[t][p] = Ledger!Idle
         /\ slots'[t][p] # NoSlot =>
              V'[t][p] = Reading(records'[slots'[t][p].receipt],
                                 slots'[t][p].generation)
BY DEF V, VerdictOf, Reading, Ledger!Idle

(* A step that alters the verdict of one slot.                               *)
LEMMA OneVerdict ==
  ASSUME NEW u \in Tenant, NEW w \in Pull, NEW new, V'[u][w] = new,
         \A t \in Tenant, p \in Pull : ~(t = u /\ p = w) => V'[t][p] = V[t][p]
  PROVE  V' = [V EXCEPT ![u][w] = new]
<1> DEFINE W == [V EXCEPT ![u][w] = new]
<1>1. /\ V = [t \in Tenant |-> V[t]] /\ V' = [t \in Tenant |-> V'[t]]
      /\ \A t \in Tenant : V[t] = [p \in Pull |-> V[t][p]]
      /\ \A t \in Tenant : V'[t] = [p \in Pull |-> V'[t][p]]
  BY DEF V
<1>2. W = [t \in Tenant |-> IF t = u THEN [V[t] EXCEPT ![w] = new] ELSE V[t]]
  BY <1>1
<1>3. [V[u] EXCEPT ![w] = new] = [p \in Pull |-> IF p = w THEN new ELSE V[u][p]]
  BY <1>1
<1>4. V'[u] = [V[u] EXCEPT ![w] = new]
  BY <1>1, <1>3
<1>5. ASSUME NEW t \in Tenant, t # u PROVE V'[t] = V[t]
  BY <1>1, <1>5
<1>6. QED BY <1>1, <1>2, <1>4, <1>5

(* A slot that a step leaves alone, whose receipt it may alter in no part    *)
(* that Processing lists, keeps its verdict.                                 *)
LEMMA KeptVerdict ==
  ASSUME NEW t \in Tenant, NEW p \in Pull, slots'[t][p] = slots[t][p],
         LET r == slots[t][p].receipt IN
           slots[t][p] # NoSlot => Processing(records'[r]) = Processing(records[r])
  PROVE  V'[t][p] = V[t][p]
<1> DEFINE s == slots[t][p]
           r == s.receipt
<1>1. CASE s = NoSlot
  BY <1>1 DEF V, VerdictOf
<1>2. CASE s # NoSlot
  <2>1. /\ records'[r].state = records[r].state
        /\ records'[r].resultDigest = records[r].resultDigest
    BY <1>2 DEF Processing
  <2>2. V[t][p] = Reading(records[r], s.generation)
    BY <1>2 DEF V, VerdictOf, Reading
  <2>3. V'[t][p] = Reading(records'[r], s.generation)
    BY <1>2 DEF V, VerdictOf, Reading
  <2>4. QED BY <2>1, <2>2, <2>3 DEF Reading
<1>3. QED BY <1>1, <1>2

(* A step that keeps the verdict of each slot stutters.                      *)
LEMMA SameVerdicts ==
  ASSUME \A t \in Tenant, p \in Pull : V'[t][p] = V[t][p]
  PROVE  V' = V
BY DEF V

(* The receipt of a slot is a live record of the slot's own binding.         *)
LEMMA SlotReceipt ==
  ASSUME TypeOK, Index, NEW t \in Tenant, NEW p \in Pull, slots[t][p] # NoSlot
  PROVE  LET r == slots[t][p].receipt IN
         /\ r \in Live /\ r \in DeliveryId
         /\ records[r].binding.tenant = t /\ records[r].binding.pull = p
         /\ records[r].generation = slots[t][p].generation
BY DEF Index, TenantIsolation, Live

-----------------------------------------------------------------------------
(* An empty store maps to the empty ledger.                                  *)
LEMMA InitLedger == Init => Ledger!LedgerInit
<1> SUFFICES ASSUME Init PROVE Ledger!LedgerInit
  OBVIOUS
<1>1. \A t \in Tenant, p \in Pull : slots[t][p] = NoSlot
  BY DEF Init
<1>2. QED BY <1>1 DEF Ledger!LedgerInit, Ledger!Idle, VerdictOf

(* A new delivery supersedes the verdict of its slot and no other.           *)
LEMMA CreatedLedger ==
  ASSUME TypeOK, Index, DisjointDeliveries, Created
  PROVE  \E t \in Tenant, p \in Pull : Ledger!Supersede(t, p)
<1>1. PICK k \in Binding, b \in Body, at \in Nat :
        \E d \in DeliveriesOf[k.tenant] : ClaimNew(d, b, k, at)
  BY DEF Created
<1>2. PICK d \in DeliveriesOf[k.tenant] : ClaimNew(d, b, k, at)
  BY <1>1
<1> DEFINE u == k.tenant
           w == k.pull
           g == SlotOf(k).generation + 1
<1>3. u \in Tenant /\ w \in Pull /\ d \in DeliveryId /\ d # None
  BY DeliveryOfTenant, NamesAssumption
<1>4. d \notin Live
  BY <1>2, ClaimedIsNew DEF ClaimNew, Index
<1>5. /\ records'[d] = NewEntry(d, b, k, at, g)
      /\ slots'[u][w] = [receipt |-> d, generation |-> g]
  BY <1>2, <1>3 DEF ClaimNew, TypeOK
<1>6. V'[u][w] = [generation |-> V[u][w].generation + 1, phase |-> "open",
                  digest |-> None]
  <2>1. V'[u][w] = Reading(records'[d], g)
    <3>1. slots'[u][w] # NoSlot
      BY <1>3, <1>5 DEF NoSlot
    <3>2. slots'[u][w].receipt = d /\ slots'[u][w].generation = g
      BY <1>5
    <3>3. QED BY <1>3, <3>1, <3>2, VerdictNext
  <2>2. records'[d].state = "accepted"
    BY <1>5 DEF NewEntry
  <2>3. V[u][w].generation = SlotOf(k).generation
    <3>1. CASE slots[u][w] = NoSlot
      BY <1>3, <3>1, VerdictNow DEF SlotOf, NoSlot, Ledger!Idle
    <3>2. CASE slots[u][w] # NoSlot
      <4>1. V[u][w] = Reading(records[slots[u][w].receipt],
                              slots[u][w].generation)
        BY <1>3, <3>2, VerdictNow
      <4>2. QED BY <4>1 DEF SlotOf, Reading
    <3>3. QED BY <3>1, <3>2
  <2>4. QED BY <2>1, <2>2, <2>3 DEF Reading, PhaseOf
<1>7. ASSUME NEW t \in Tenant, NEW p \in Pull, ~(t = u /\ p = w)
      PROVE  V'[t][p] = V[t][p]
  <2>1. slots'[t][p] = slots[t][p]
    BY <1>2, <1>3, <1>7 DEF ClaimNew, TypeOK
  <2>2. ASSUME slots[t][p] # NoSlot
        PROVE  records'[slots[t][p].receipt] = records[slots[t][p].receipt]
    <3>1. slots[t][p].receipt \in DeliveryId /\ slots[t][p].receipt # d
      BY <1>4, <2>2, SlotReceipt
    <3>2. QED BY <1>2, <3>1 DEF ClaimNew, TypeOK
  <2>3. QED BY <2>1, <2>2, KeptVerdict
<1>8. Ledger!Supersede(u, w)
  <2>1. V' = [V EXCEPT ![u][w] = [generation |-> V[u][w].generation + 1,
                                  phase |-> "open", digest |-> None]]
    BY <1>3, <1>6, <1>7, OneVerdict
  <2>2. QED BY <2>1 DEF Ledger!Supersede, Ledger!Becomes, V
<1>9. QED BY <1>3, <1>8

(* A worker's or the provider's call moves the verdict of one slot.          *)
LEMMA RewrittenLedger ==
  ASSUME TypeOK, Index, Rewritten
  PROVE  \/ V' = V
         \/ \E t \in Tenant, p \in Pull :
              \/ \E x \in Digest : Ledger!Decide(t, p, x)
              \/ Ledger!Reopen(t, p)
              \/ Ledger!Publish(t, p)
<1>1. PICK r \in Live : \E e \in Entry : Rewrites(r, e)
  BY DEF Rewritten
<1>2. PICK e \in Entry : Rewrites(r, e)
  BY <1>1
<1> DEFINE old == records[r]
           u == old.binding.tenant
           w == old.binding.pull
           g == old.generation
<1>3. /\ r \in DeliveryId /\ old \in Entry /\ u \in Tenant /\ w \in Pull
      /\ slots[u][w] = [receipt |-> r, generation |-> g]
  BY <1>2, LiveEntry DEF Rewrites, IsCurrent, SlotOf
<1>4. records'[r] = e /\ slots' = slots
  BY <1>2, <1>3 DEF Rewrites, TypeOK, indexes
<1>5. slots[u][w] # NoSlot
  BY <1>3, NamesAssumption DEF NoSlot
<1>6. V[u][w] = Reading(old, g) /\ V'[u][w] = Reading(e, g)
  BY <1>3, <1>4, <1>5, VerdictNow, VerdictNext
<1>7. ASSUME NEW t \in Tenant, NEW p \in Pull, ~(t = u /\ p = w)
      PROVE  V'[t][p] = V[t][p]
  <2>1. ASSUME slots[t][p] # NoSlot
        PROVE  records'[slots[t][p].receipt] = records[slots[t][p].receipt]
    <3>1. slots[t][p].receipt \in DeliveryId /\ slots[t][p].receipt # r
      BY <1>7, <2>1, SlotReceipt
    <3>2. QED BY <1>2, <3>1 DEF Rewrites, TypeOK
  <2>2. QED BY <1>4, <2>1, KeptVerdict
<1>8. CASE /\ PhaseOf(old.state) = PhaseOf(e.state)
           /\ PhaseOf(old.state) # "open" => old.resultDigest = e.resultDigest
  <2>1. V'[u][w] = V[u][w]
    BY <1>6, <1>8 DEF Reading
  <2>2. QED BY <1>7, <2>1, SameVerdicts
<1>9. V' = [V EXCEPT ![u][w] = Reading(e, g)]
  BY <1>3, <1>6, <1>7, OneVerdict
<1>10. CASE PhaseOf(old.state) = "decided" /\ PhaseOf(e.state) = "open"
  <2>1. /\ V[u][w].phase = "decided" /\ V[u][w].generation = g
        /\ Reading(e, g) = [generation |-> g, phase |-> "open", digest |-> None]
    BY <1>6, <1>10 DEF Reading
  <2>2. Ledger!Reopen(u, w)
    BY <1>9, <2>1 DEF Ledger!Reopen, Ledger!Becomes, V
  <2>3. QED BY <1>3, <2>2
<1>11. CASE /\ PhaseOf(old.state) = "open" /\ PhaseOf(e.state) = "decided"
            /\ e.resultDigest \in Digest
  <2>1. /\ V[u][w].phase = "open" /\ V[u][w].generation = g
        /\ Reading(e, g) = [generation |-> g, phase |-> "decided",
                            digest |-> e.resultDigest]
    BY <1>6, <1>11 DEF Reading
  <2>2. Ledger!Decide(u, w, e.resultDigest)
    BY <1>9, <2>1 DEF Ledger!Decide, Ledger!Becomes, V
  <2>3. QED BY <1>3, <1>11, <2>2
<1>12. CASE /\ PhaseOf(old.state) = "decided"
            /\ PhaseOf(e.state) = "published"
            /\ old.resultDigest = e.resultDigest
  <2>1. /\ V[u][w].phase = "decided" /\ V[u][w].generation = g
        /\ Reading(e, g) = [generation |-> g, phase |-> "published",
                            digest |-> V[u][w].digest]
    BY <1>6, <1>12 DEF Reading
  <2>2. Ledger!Publish(u, w)
    BY <1>9, <2>1 DEF Ledger!Publish, Ledger!Becomes, V
  <2>3. QED BY <1>3, <2>2
<1>13. MovesVerdict(old, e)
  BY <1>2 DEF Rewrites
<1>14. QED BY <1>8, <1>10, <1>11, <1>12, <1>13 DEF MovesVerdict

(* Cleanup forgets the verdicts whose receipts it purges.                    *)
LEMMA PurgedLedger ==
  ASSUME TypeOK, Index, Purged
  PROVE  \E S \in SUBSET (Tenant \X Pull) : Ledger!Forget(S)
<1>1. PICK P \in PurgeSets : Purge(P)
  BY DEF Purged
<1> DEFINE Gone(t, p) == \E r \in P : /\ records[r].binding.tenant = t
                                      /\ records[r].binding.pull = p
                                      /\ slots[t][p].receipt = r
           S == {x \in Tenant \X Pull : Gone(x[1], x[2])}
<1>2. ASSUME NEW t \in Tenant, NEW p \in Pull
      PROVE  V'[t][p] = IF <<t, p>> \in S THEN Ledger!Idle ELSE V[t][p]
  <2>1. slots'[t][p] = IF Gone(t, p) THEN NoSlot ELSE slots[t][p]
    BY <1>1, Zenon DEF Purge
  <2>2. <<t, p>> \in S <=> Gone(t, p)
    OBVIOUS
  <2>3. CASE Gone(t, p)
    <3>1. slots'[t][p] = NoSlot
      BY <2>1, <2>3
    <3>2. V'[t][p] = Ledger!Idle
      BY <3>1 DEF V, VerdictOf, Ledger!Idle
    <3>3. QED BY <2>2, <2>3, <3>2
  <2>4. CASE ~Gone(t, p)
    <3>1. slots'[t][p] = slots[t][p]
      BY <2>1, <2>4
    <3>2. ASSUME slots[t][p] # NoSlot
          PROVE  LET r == slots[t][p].receipt IN
                 Processing(records'[r]) = Processing(records[r])
      <4> DEFINE r == slots[t][p].receipt
      <4>1. /\ r \in Live /\ r \in DeliveryId
            /\ records[r].binding.tenant = t /\ records[r].binding.pull = p
        BY <3>2, SlotReceipt
      <4>2. r \notin P
        BY <2>4, <4>1
      <4>3. r \in Live'
        <5>1. records'[r] = [records[r] EXCEPT !.bodyRetained =
                               @ /\ clock < records[r].receivedAt + ReplayAge]
          BY <1>1, <4>1, <4>2 DEF Purge
        <5>2. records'[r] \in Entry
          BY <4>1, <5>1, LiveEntry DEF Entry
        <5>3. QED BY <4>1, <5>2, NamesAssumption DEF Live
      <4>4. QED BY <1>1, <4>1, <4>3, PurgeKeeps
    <3>3. V'[t][p] = V[t][p]
      BY <3>1, <3>2, KeptVerdict
    <3>4. QED BY <2>2, <2>4, <3>3
  <2>5. QED BY <2>3, <2>4
<1>3. V' = [t \in Tenant |-> [p \in Pull |->
              IF <<t, p>> \in S THEN Ledger!Idle ELSE V[t][p]]]
  BY <1>2 DEF V
<1>4. Ledger!Forget(S)
  BY <1>3 DEF Ledger!Forget, V
<1>5. QED BY <1>4

-----------------------------------------------------------------------------
(* Each step of the store maps to a step of the ledger or to a stutter.      *)
LEMMA NextLedger ==
  ASSUME TypeOK, Index, DisjointDeliveries, [Next]_vars
  PROVE  [Ledger!LedgerNext]_V
<1>1. CASE Untouched
  BY <1>1 DEF Untouched, indexes, V, VerdictOf
<1>2. CASE Created
  BY <1>2, CreatedLedger DEF Ledger!LedgerNext
<1>3. CASE Aliased
  <2>1. slots' = slots
    BY <1>3 DEF Aliased, ClaimAlias
  <2>2. ASSUME NEW t \in Tenant, NEW p \in Pull PROVE V'[t][p] = V[t][p]
    BY <1>3, <2>1, SlotReceipt, ClaimKeeps, KeptVerdict
  <2>3. QED BY <2>2, SameVerdicts
<1>4. CASE Rewritten
  BY <1>4, RewrittenLedger DEF Ledger!LedgerNext
<1>5. CASE Purged
  BY <1>5, PurgedLedger DEF Ledger!LedgerNext
<1>6. QED BY <1>1, <1>2, <1>3, <1>4, <1>5, StepKind

(* The store implements the ledger: whatever the interleaving of deliveries, *)
(* leases, retries, provider answers and cleanup, a slot's verdict is        *)
(* published only after it was decided under the same generation, and a      *)
(* published verdict leaves only by being superseded or forgotten.           *)
THEOREM StoreImplementsLedger ==
  ASSUME DisjointDeliveries PROVE Spec => ImplementsLedger
<1>1. TypeOK /\ Index /\ [Next]_vars => [Ledger!LedgerNext]_V
  BY NextLedger
<1>2. TypeOK /\ Index /\ [Next]_vars => Index'
  BY NextIndex
<1>3. TypeOK /\ Index /\ [Next]_vars
      => [Ledger!LedgerNext]_[t \in Tenant |-> [p \in Pull |-> VerdictOf(slots[t][p])]]
  BY <1>1 DEF V
<1>4. QED BY <1>2, <1>3, InitLedger, InitIndex, TypeCorrect, PTL
          DEF Spec, ImplementsLedger, Ledger!LedgerSpec

-----------------------------------------------------------------------------
(* The outbox. *)

(* The outbox is a map: one event for an external id.                        *)
OutboxKeyed == \A o, p \in outbox : o.externalId = p.externalId => o = p

(* What becomes of the outbox and of the event o in it.                      *)
LEMMA OutboxStep ==
  ASSUME OutboxKeyed, TypeOK, [Next]_vars
  PROVE  /\ OutboxKeyed'
         /\ \A o \in outbox : ~o.acknowledged =>
              \E p \in outbox' : p.externalId = o.externalId
<1>1. CASE UNCHANGED outbox
  BY <1>1 DEF OutboxKeyed
<1>2. ASSUME NEW r, outbox' = Enqueue(r)
      PROVE  /\ OutboxKeyed'
             /\ \A o \in outbox : \E p \in outbox' : p.externalId = o.externalId
  <2> DEFINE new == [externalId |-> ExternalIdOf(r), receipt |-> r, acknowledged |-> FALSE]
             id == ExternalIdOf(r)
  <2>1. outbox' = {o \in outbox : o.externalId # id} \cup {new} /\ new.externalId = id
    BY <1>2 DEF Enqueue
  <2> HIDE DEF new, id
  <2>2. QED BY <2>1 DEF OutboxKeyed
<1>3. ASSUME NEW id, AcknowledgeOutbox(id)
      PROVE  /\ OutboxKeyed'
             /\ \A o \in outbox : \E p \in outbox' : p.externalId = o.externalId
  <2> DEFINE After(o) == IF o.externalId = id THEN [o EXCEPT !.acknowledged = TRUE] ELSE o
  <2>1. outbox' = {After(o) : o \in outbox}
    BY <1>3 DEF AcknowledgeOutbox
  <2>2. \A o \in outbox : After(o).externalId = o.externalId
    BY DEF TypeOK, OutboxRecord
  <2> HIDE DEF After
  <2>3. QED BY <2>1, <2>2 DEF OutboxKeyed
<1>4. ASSUME NEW P \in PurgeSets, Purge(P)
      PROVE  /\ OutboxKeyed'
             /\ \A o \in outbox : ~o.acknowledged => o \in outbox'
  <2>1. outbox' = {o \in outbox :
          ~ \E r \in P : records[r].enqueued /\ ExternalIdOf(r) = o.externalId}
    BY <1>4 DEF Purge
  <2>2. ASSUME NEW r \in P, records[r].enqueued
        PROVE  \E o \in outbox : o.externalId = ExternalIdOf(r) /\ o.acknowledged
    BY <2>2 DEF PurgeSets, Due, CanPurge
  <2>3. QED BY <2>1, <2>2 DEF OutboxKeyed
<1>5. CASE WorkerCall
  BY <1>1, <1>2, <1>5 DEF WorkerCall, Lease, Prepare, Commit
<1>6. CASE ProviderCall
  BY <1>1, <1>3, <1>6 DEF ProviderCall, ReconcileCheckRun, CompleteCheckRun
<1>7. CASE AcceptDelivery
  BY <1>1, <1>7 DEF AcceptDelivery, Claim
<1>8. CASE Cleanup
  BY <1>4, <1>8 DEF Cleanup
<1>9. CASE \/ \E fault \in InjectedFaults : SetAcceptFault(fault)
           \/ ObserveDrift \/ Tick \/ UNCHANGED vars
  BY <1>1, <1>9 DEF SetAcceptFault, ObserveDrift, Tick, vars
<1>10. QED BY <1>5, <1>6, <1>7, <1>8, <1>9 DEF Next

(* Cleanup deletes no receipt whose event nobody has acknowledged, and a     *)
(* repeated prepare replaces an event by one of the same external id.        *)
THEOREM PendingEventsStay == Spec => NoPendingEventLost
<1>1. TypeOK /\ OutboxKeyed /\ [Next]_vars
      => [\A o \in outbox : ~o.acknowledged =>
            \E p \in outbox' : p.externalId = o.externalId]_vars
  BY OutboxStep
<1>2. TypeOK /\ OutboxKeyed /\ [Next]_vars => OutboxKeyed'
  BY OutboxStep
<1>3. Init => OutboxKeyed
  BY DEF Init, OutboxKeyed
<1>4. QED BY <1>1, <1>2, <1>3, TypeCorrect, PTL DEF Spec, NoPendingEventLost

-----------------------------------------------------------------------------
(* Claims the store has forgotten. *)

(* What becomes of the key of a body: it stays on a receipt that was         *)
(* received when it was, or it goes when the retention has passed.           *)
LEMMA BodyKeyStep ==
  ASSUME TypeOK, Index, DisjointDeliveries, [Next]_vars,
         NEW t \in Tenant, NEW b \in Body, bodies[t][b] # None
  PROVE  \/ /\ bodies'[t][b] = bodies[t][b]
            /\ records'[bodies[t][b]].receivedAt = records[bodies[t][b]].receivedAt
         \/ /\ bodies'[t][b] = None
            /\ clock - records[bodies[t][b]].receivedAt >= Retention
<1> DEFINE r == bodies[t][b]
<1>1. /\ r \in Live /\ records[r].binding.tenant = t /\ records[r].body = b
      /\ r \in DeliveryId /\ records[r] \in Entry
  <2>1. r \in Live /\ records[r].binding.tenant = t /\ records[r].body = b
    BY DEF Index, TenantIsolation
  <2>2. QED BY <2>1, LiveEntry
<1> HIDE DEF r
<1>2. CASE Untouched
  BY <1>2 DEF Untouched, indexes, r
<1>3. CASE Created
  <2>1. PICK k \in Binding, c \in Body, at \in Nat :
          \E d \in DeliveriesOf[k.tenant] : ClaimNew(d, c, k, at)
    BY <1>3 DEF Created
  <2>2. PICK d \in DeliveriesOf[k.tenant] : ClaimNew(d, c, k, at)
    BY <2>1
  <2>3. d \notin Live /\ k.tenant \in Tenant /\ d \in DeliveryId
    BY <2>2, ClaimedIsNew, DeliveryOfTenant DEF ClaimNew, Index
  <2>4. records'[r] = records[r]
    BY <1>1, <2>2, <2>3 DEF ClaimNew, TypeOK
  <2>5. bodies'[t][b] = bodies[t][b]
    <3>1. bodies[k.tenant][c] = None
      BY <2>2 DEF ClaimNew, KnownBody
    <3>2. bodies' = [bodies EXCEPT ![k.tenant][c] = d]
      BY <2>2 DEF ClaimNew
    <3>3. QED BY <2>3, <3>1, <3>2 DEF TypeOK
  <2>6. QED BY <2>4, <2>5 DEF r
<1>4. CASE Aliased
  <2>1. PICK k \in Binding, c \in Body :
          \E d \in DeliveriesOf[k.tenant] : ClaimAlias(d, c, k)
    BY <1>4 DEF Aliased
  <2>2. PICK d \in DeliveriesOf[k.tenant] : ClaimAlias(d, c, k)
    BY <2>1
  <2>3. PICK q : q = bodies[k.tenant][c]
    OBVIOUS
  <2>4. records' = [records EXCEPT ![q].deliveryIds = @ \cup {d}] /\ bodies' = bodies
    BY <2>2, <2>3 DEF ClaimAlias
  <2>5. records'[r].receivedAt = records[r].receivedAt
    BY <1>1, <2>4 DEF TypeOK, Entry
  <2>6. QED BY <2>4, <2>5 DEF r
<1>5. CASE Rewritten
  <2>1. PICK q \in Live : \E e \in Entry : Rewrites(q, e)
    BY <1>5 DEF Rewritten
  <2>2. PICK e \in Entry : Rewrites(q, e)
    BY <2>1
  <2>3. bodies' = bodies /\ records' = [records EXCEPT ![q] = e]
        /\ e.receivedAt = records[q].receivedAt
    BY <2>2 DEF Rewrites, SameKeys, indexes
  <2>4. records'[r].receivedAt = records[r].receivedAt
    BY <1>1, <2>3 DEF TypeOK
  <2>5. QED BY <2>3, <2>4 DEF r
<1>6. CASE Purged
  <2>1. PICK P \in PurgeSets : Purge(P)
    BY <1>6 DEF Purged
  <2>2. P \subseteq Live /\ \A q \in P : clock - records[q].receivedAt >= Retention
    BY DEF PurgeSets, Due
  <2>3. bodies'[t][b] =
          IF \E q \in P : records[q].binding.tenant = t /\ records[q].body = b
          THEN None ELSE bodies[t][b]
    BY <2>1 DEF Purge
  <2>4. CASE r \in P
    BY <1>1, <2>2, <2>3, <2>4 DEF r
  <2>5. CASE r \notin P
    <3>1. \A q \in P : ~(records[q].binding.tenant = t /\ records[q].body = b)
      <4>1. \A q \in Live : bodies[records[q].binding.tenant][records[q].body] = q
        BY DEF Index, ReceiptsIndexed
      <4>2. QED BY <2>2, <2>5, <4>1 DEF r
    <3>2. records'[r] = [records[r] EXCEPT !.bodyRetained =
                           @ /\ clock < records[r].receivedAt + ReplayAge]
      BY <1>1, <2>1, <2>5 DEF Purge
    <3>3. records'[r].receivedAt = records[r].receivedAt
      BY <1>1, <3>2 DEF Entry
    <3>4. QED BY <2>3, <3>1, <3>3 DEF r
  <2>6. QED BY <2>4, <2>5
<1>7. QED BY <1>2, <1>3, <1>4, <1>5, <1>6, StepKind

LEMMA ClockAdvances ==
  ASSUME TypeOK, [Next]_vars PROVE clock' \in Nat /\ clock' >= clock
<1>1. clock' = clock \/ clock' = clock + 1
  BY DEF Next, AcceptDelivery, Claim, WorkerCall, Lease, Prepare, Commit, ProviderCall,
         ReconcileCheckRun, CompleteCheckRun, AcknowledgeOutbox, Cleanup,
         SetAcceptFault, ObserveDrift, Tick, vars
<1>2. clock \in Nat
  BY DEF TypeOK
<1>3. QED BY <1>1, <1>2

(* What the history remembers of a body, while its key lives and after.      *)
Remembered ==
  \A t \in Tenant, b \in Body :
    /\ acceptedAt[t][b] \in Int
    /\ bodies[t][b] # None =>
         acceptedAt[t][b] = records[bodies[t][b]].receivedAt
    /\ bodies[t][b] = None /\ acceptedAt[t][b] # Never =>
         clock - acceptedAt[t][b] >= Retention

LEMMA RememberedNext ==
  ASSUME TypeOK, TypeOK', Index, Index', DisjointDeliveries, Remembered,
         [Next /\ Record]_<<vars, history>>
  PROVE  Remembered'
<1>1. CASE UNCHANGED <<vars, history>>
  BY <1>1 DEF vars, history, Remembered
<1>2. CASE Next /\ Record
  <2> SUFFICES ASSUME NEW t \in Tenant, NEW b \in Body
               PROVE  /\ acceptedAt'[t][b] \in Int
                      /\ bodies'[t][b] # None =>
                           acceptedAt'[t][b] = records'[bodies'[t][b]].receivedAt
                      /\ bodies'[t][b] = None /\ acceptedAt'[t][b] # Never =>
                           clock' - acceptedAt'[t][b] >= Retention
    BY DEF Remembered
  <2>1. acceptedAt'[t][b] = IF bodies[t][b] = None /\ bodies'[t][b] # None
                            THEN records'[bodies'[t][b]].receivedAt
                            ELSE acceptedAt[t][b]
    BY <1>2 DEF Record, Appears
  <2>2. /\ acceptedAt[t][b] \in Int
        /\ bodies[t][b] # None => acceptedAt[t][b] = records[bodies[t][b]].receivedAt
        /\ bodies[t][b] = None /\ acceptedAt[t][b] # Never =>
             clock - acceptedAt[t][b] >= Retention
    BY DEF Remembered
  <2>3. clock \in Nat /\ clock' \in Nat /\ clock' >= clock /\ Retention \in Nat
    BY <1>2, ClockAdvances, LimitsAssumption DEF TypeOK
  <2>4. CASE bodies[t][b] = None /\ bodies'[t][b] # None
    <3>1. bodies'[t][b] \in Live'
      BY <2>4 DEF Index, TenantIsolation
    <3>2. records'[bodies'[t][b]] \in Entry
      BY <3>1 DEF Live, TypeOK
    <3>3. records'[bodies'[t][b]].receivedAt \in Int
      BY <3>2 DEF Entry
    <3>4. QED BY <2>1, <2>4, <3>3
  <2>5. CASE bodies[t][b] = None /\ bodies'[t][b] = None
    BY <2>1, <2>2, <2>3, <2>5
  <2>6. CASE bodies[t][b] # None
    <3>1. \/ /\ bodies'[t][b] = bodies[t][b]
             /\ records'[bodies[t][b]].receivedAt = records[bodies[t][b]].receivedAt
          \/ /\ bodies'[t][b] = None
             /\ clock - records[bodies[t][b]].receivedAt >= Retention
      BY <1>2, <2>6, BodyKeyStep
    <3>2. acceptedAt'[t][b] = acceptedAt[t][b]
      BY <2>1, <2>6
    <3>3. QED BY <2>2, <2>3, <2>6, <3>1, <3>2
  <2>7. QED BY <2>4, <2>5, <2>6
<1>3. QED BY <1>1, <1>2

(* Where every GUID belongs to one tenant, no body is evaluated a second     *)
(* time before the retention of its first receipt has passed, although the   *)
(* store remembers nothing of a receipt it has purged.                       *)
THEOREM ReplaysAlwaysRefused ==
  ASSUME DisjointDeliveries PROVE HSpec => ReplayRefused
<1> DEFINE Refused ==
      \A t \in Tenant, b \in Body :
        acceptedAt[t][b] # Never /\ Appears(bodies, bodies', t, b)
        => clock - acceptedAt[t][b] >= Retention
<1>1. Init /\ HistoryInit => Remembered
  <2> SUFFICES ASSUME Init, HistoryInit PROVE Remembered
    OBVIOUS
  <2>1. \A t \in Tenant, b \in Body : bodies[t][b] = None /\ acceptedAt[t][b] = -1
    BY DEF Init, HistoryInit, Never
  <2>2. QED BY <2>1 DEF Remembered, Never
<1>2. [Next /\ Record]_<<vars, history>> => [Next]_vars
  BY DEF vars
<1>3. TypeOK /\ [Next /\ Record]_<<vars, history>> => TypeOK'
  BY <1>2, NextType
<1>4. TypeOK /\ Index /\ [Next /\ Record]_<<vars, history>> => Index'
  BY <1>2, NextIndex
<1>5. /\ TypeOK /\ TypeOK' /\ Index /\ Index' /\ Remembered
      /\ [Next /\ Record]_<<vars, history>>
      => Remembered'
  BY RememberedNext
<1>6. Remembered => [Refused]_<<vars, history>>
  BY DEF Remembered, Appears
<1>7. QED
  BY <1>1, <1>3, <1>4, <1>5, <1>6, InitType, InitIndex, PTL DEF HSpec, ReplayRefused
=============================================================================
