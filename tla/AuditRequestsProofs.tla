------------------------- MODULE AuditRequestsProofs -------------------------
(***************************************************************************)
(* Theorems about ConcurrentMap for any number of values and any limit,    *)
(* and about AuditRequests, whose steps refine its steps, for any budgets. *)
(***************************************************************************)
EXTENDS AuditRequests, FiniteSetTheorems, TLAPS

(* The concurrent map *)

Inv ==
  TypeOK /\ AskedOnce /\ TakenIsHeld /\ ResolvedIsComplete /\ NothingRunsOn

LEMMA WorkerIsIndex == Worker \subseteq Index /\ 0 \notin Index
BY MapAssumption DEF Worker, Index

LEMMA ReturnedFinite ==
  /\ IsFiniteSet(Worker) /\ Cardinality(Worker) \in Nat
  /\ IsFiniteSet(Returned) /\ Cardinality(Returned) \in Nat
  /\ Cardinality(Returned) <= Cardinality(Worker)
<1>1. Worker \subseteq 1..Limit /\ Limit \in Nat
  BY MapAssumption DEF Worker
<1>2. IsFiniteSet(1..Limit)
  BY <1>1, FS_Interval
<1>3. IsFiniteSet(Worker)
  BY <1>1, <1>2, FS_Subset
<1>4. Returned \subseteq Worker
  BY DEF Returned
<1>5. IsFiniteSet(Returned) /\ Cardinality(Returned) <= Cardinality(Worker)
  BY <1>3, <1>4, FS_Subset
<1>6. QED BY <1>3, <1>5, FS_CardinalityType

LEMMA ReturnedFiniteNext == Cardinality(Returned') \in Nat
<1>1. Returned' \subseteq Worker
  BY DEF Returned
<1>2. QED BY <1>1, ReturnedFinite, FS_Subset, FS_CardinalityType

(* A worker that returns is one more that has returned.                      *)
LEMMA ReturnCounts ==
  ASSUME TypeOK, NEW w \in Worker, holds[w] # 0, Return(w)
  PROVE  Cardinality(Returned') = Cardinality(Returned) + 1
<1>1. holds' = [holds EXCEPT ![w] = 0]
  BY DEF Return
<1>2. w \notin Returned /\ Returned' = Returned \cup {w}
  BY <1>1 DEF Returned, TypeOK
<1>3. QED BY <1>2, ReturnedFinite, FS_AddElement

(* A worker that takes a value had not returned, so no fewer have returned   *)
(* after its turn.                                                           *)
LEMMA AnswerCounts ==
  ASSUME TypeOK, NEW w \in Worker, Answer(w)
  PROVE  Cardinality(Returned) <= Cardinality(Returned')
<1>1. \A v \in Worker : v # w => holds'[v] = holds[v]
  BY DEF TypeOK, Answer, Take, Continue, Return
<1>2. w \notin Returned
  BY DEF Answer, Returned
<1>3. Returned \subseteq Returned' /\ Returned' \subseteq Worker
  BY <1>1, <1>2 DEF Returned
<1>4. IsFiniteSet(Returned')
  BY <1>3, ReturnedFinite, FS_Subset
<1>5. QED BY <1>3, <1>4, FS_Subset

(* The end that a cursor may reach only moves on. *)
LEMMA Farther ==
  ASSUME NEW n, NEW p \in Nat, NEW q \in Nat, p <= q, n \in 1 .. Count + 1 + p
  PROVE  n \in 1 .. Count + 1 + q
BY MapAssumption

LEMMA InitInv == Init => Inv
<1> SUFFICES ASSUME Init PROVE Inv
  OBVIOUS
<1> USE MapAssumption
<1>0. PastEnd \in Nat
  BY ReturnedFinite DEF PastEnd
<1>1. TypeOK
  <2>1. nextIndex \in 1 .. Count + 1
    BY DEF Init
  <2>2. nextIndex \in 1 .. Count + 1 + PastEnd
    BY <1>0, <2>1
  <2>3. holds \in [Worker -> 0 .. Count]
    BY DEF Init, Worker
  <2>4. results \in [Index -> 0 .. Count] /\ asked \in [Index -> Nat]
    BY DEF Init
  <2>5. QED BY <2>2, <2>3, <2>4 DEF Init, TypeOK
<1>2. AskedOnce
  BY DEF Init, AskedOnce, Worker, Index
<1>3. TakenIsHeld
  BY DEF Init, TakenIsHeld, Worker, Index
<1>4. ResolvedIsComplete /\ NothingRunsOn
  BY DEF Init, ResolvedIsComplete, NothingRunsOn, Index, Worker
<1>5. QED BY <1>1, <1>2, <1>3, <1>4 DEF Inv

LEMMA AnswerInv ==
  ASSUME Inv, NEW w \in Worker, Answer(w) PROVE Inv'
<1> USE MapAssumption
<1> DEFINE i == holds[w]
<1>1. i \in Index /\ i < nextIndex /\ nextIndex \in Nat /\ nextIndex >= 1
  <2>1. PastEnd \in Nat
    BY ReturnedFinite DEF PastEnd
  <2>2. QED BY <2>1 DEF Inv, TypeOK, TakenIsHeld, Answer, Index
<1>2. /\ results' = [results EXCEPT ![i] = i]
      /\ outcome' = IF outcome = "pending" /\ AllReturned THEN Verdict ELSE outcome
      /\ UNCHANGED <<copy, firstError>>
  BY DEF Answer
<1>3. /\ outcome # "resolved"
      /\ CatchesErrors => outcome = "pending"
  <2>1. holds[w] # 0
    BY DEF Answer
  <2>2. QED BY <2>1 DEF Inv, TakenIsHeld, NothingRunsOn
<1>4. /\ firstError => CatchesErrors /\ outcome \in {"pending", "rejected"}
      /\ firstError' => CatchesErrors' /\ outcome' \in {"pending", "rejected"}
  BY <1>2 DEF Inv, TakenIsHeld, CatchesErrors, Verdict
<1>5. results' \in [Index -> 0 .. Count] /\ outcome' \in {"pending", "resolved", "rejected", "timedout"}
  <2>1. i \in 0 .. Count
    BY <1>1 DEF Index
  <2>2. QED BY <1>2, <2>1 DEF Inv, TypeOK, Verdict
<1>6. CASE ~firstError /\ nextIndex <= Count
  <2>1. /\ holds' = [holds EXCEPT ![w] = nextIndex]
        /\ asked' = [asked EXCEPT ![nextIndex] = @ + 1]
        /\ nextIndex' = nextIndex + 1
    BY <1>6 DEF Answer, Take, Continue
  <2>2. \A v \in Worker : holds'[v] = IF v = w THEN nextIndex ELSE holds[v]
    BY <2>1 DEF Inv, TypeOK
  <2>3. outcome' = outcome
    BY <1>1, <1>2, <2>2 DEF AllReturned
  <2>4. TypeOK'
    <3>1. nextIndex' \in 1 .. Count + 1 /\ nextIndex \in 0 .. Count /\ nextIndex \in Index
      BY <1>1, <1>6, <2>1 DEF Index
    <3>2. PastEnd' \in Nat
      BY ReturnedFiniteNext DEF PastEnd
    <3>3. nextIndex' \in 1 .. Count + 1 + PastEnd'
      <4>1. nextIndex' \in 1 .. Count + 1 + 0 /\ 0 <= PastEnd'
        BY <3>1, <3>2
      <4>2. QED BY <3>2, <4>1, Farther
    <3>4. holds' \in [Worker -> 0 .. Count]
      BY <2>1, <3>1 DEF Inv, TypeOK
    <3>5. asked' \in [Index -> Nat]
      BY <2>1, <3>1 DEF Inv, TypeOK
    <3>6. copy' \in {"permissions", "sources", "rulesets"} /\ firstError' \in BOOLEAN
      BY <1>2 DEF Inv, TypeOK
    <3>7. QED BY <1>5, <3>3, <3>4, <3>5, <3>6 DEF TypeOK
  <2>5. AskedOnce'
    <3>1. ASSUME NEW j \in Index PROVE asked'[j] = IF j < nextIndex' THEN 1 ELSE 0
      <4>1. asked[j] = IF j < nextIndex THEN 1 ELSE 0
        BY DEF Inv, AskedOnce
      <4>2. asked'[j] = IF j = nextIndex THEN asked[j] + 1 ELSE asked[j]
        BY <2>1 DEF Inv, TypeOK
      <4>3. QED BY <1>1, <2>1, <4>1, <4>2 DEF Index
    <3>2. QED BY <3>1 DEF AskedOnce
  <2>6. TakenIsHeld'
    <3>1. \A v \in Worker : holds[v] < nextIndex /\ holds[v] \in Nat
      BY DEF Inv, TypeOK, TakenIsHeld
    <3>2. \A v, u \in Worker : holds'[v] = holds'[u] /\ holds'[v] # 0 => v = u
      BY <2>2, <3>1 DEF Inv, TakenIsHeld
    <3>3. \A v \in Worker : holds'[v] < nextIndex'
      BY <1>1, <2>1, <2>2, <3>1
    <3>4. ASSUME outcome' \in {"pending", "resolved"}, NEW j \in Index, j < nextIndex'
          PROVE  results'[j] = j \/ \E v \in Worker : holds'[v] = j
      <4>1. CASE j = i
        BY <1>1, <1>2, <4>1 DEF Inv, TypeOK
      <4>2. CASE j = nextIndex
        BY <2>2, <4>2
      <4>3. CASE j # i /\ j # nextIndex
        <5>1. j < nextIndex
          BY <1>1, <2>1, <3>4, <4>3 DEF Index
        <5>2. results[j] = j \/ \E v \in Worker : holds[v] = j
          BY <1>6, <2>3, <3>4, <5>1 DEF Inv, TakenIsHeld
        <5>3. results'[j] = results[j]
          BY <1>2, <4>3, <3>4 DEF Inv, TypeOK
        <5>4. QED BY <2>2, <4>3, <5>2, <5>3
      <4>4. QED BY <4>1, <4>2, <4>3
    <3>5. ASSUME outcome' \in {"pending", "resolved"}, NEW v \in Worker, holds'[v] = 0
          PROVE  nextIndex' > Count
      <4>1. v # w /\ holds[v] = 0
        BY <1>1, <2>2, <3>5
      <4>2. nextIndex > Count
        BY <1>6, <2>3, <3>5, <4>1 DEF Inv, TakenIsHeld
      <4>3. QED BY <1>1, <1>6, <4>2
    <3>6. QED BY <1>3, <1>4, <2>3, <3>2, <3>3, <3>4, <3>5 DEF TakenIsHeld
  <2>7. ResolvedIsComplete' /\ NothingRunsOn'
    BY <1>2, <1>3, <2>3 DEF ResolvedIsComplete, NothingRunsOn, CatchesErrors
  <2>8. QED BY <2>4, <2>5, <2>6, <2>7 DEF Inv
<1>7. CASE firstError \/ nextIndex > Count
  <2>1. /\ Return(w) /\ holds[w] # 0
        /\ holds' = [holds EXCEPT ![w] = 0] /\ asked' = asked
        /\ nextIndex' = IF CatchesErrors /\ ~firstError
                        THEN nextIndex + 1 ELSE nextIndex
    BY <1>1, <1>7 DEF Answer, Take, Return
  <2>2. \A v \in Worker : holds'[v] = IF v = w THEN 0 ELSE holds[v]
    BY <2>1 DEF Inv, TypeOK
  <2>3. nextIndex' \in Nat /\ nextIndex <= nextIndex'
    BY <1>1, <2>1
  <2>4. TypeOK'
    <3>1. Cardinality(Returned') = Cardinality(Returned) + 1 /\ Cardinality(Returned) \in Nat
      BY <2>1, ReturnCounts, ReturnedFinite DEF Inv
    <3>2. PastEnd' = IF CatchesErrors THEN PastEnd + 1 ELSE PastEnd
      BY <1>2, <3>1 DEF PastEnd, CatchesErrors
    <3>3. PastEnd \in Nat
      BY <3>1 DEF PastEnd
    <3>4. nextIndex \in 1 .. Count + 1 + PastEnd
      BY DEF Inv, TypeOK
    <3>5. nextIndex' \in 1 .. Count + 1 + PastEnd'
      BY <2>1, <3>2, <3>3, <3>4
    <3>6. holds' \in [Worker -> 0 .. Count] /\ asked' \in [Index -> Nat]
      BY <2>1 DEF Inv, TypeOK
    <3>7. copy' \in {"permissions", "sources", "rulesets"} /\ firstError' \in BOOLEAN
      BY <1>2 DEF Inv, TypeOK
    <3>8. QED BY <1>5, <3>5, <3>6, <3>7 DEF TypeOK
  <2>5. AskedOnce'
    <3>1. ASSUME NEW j \in Index PROVE j < nextIndex' <=> j < nextIndex
      BY <1>1, <1>7, <2>1 DEF Index
    <3>2. QED BY <2>1, <3>1 DEF Inv, AskedOnce
  <2>6. ASSUME ~firstError', outcome' \in {"pending", "resolved"}, NEW j \in Index
        PROVE  results'[j] = j \/ \E v \in Worker : holds'[v] = j
    <3>1. ~firstError /\ outcome \in {"pending", "resolved"}
      BY <1>2, <2>6
    <3>2. j < nextIndex
      BY <1>1, <1>7, <3>1 DEF Index
    <3>3. results[j] = j \/ \E v \in Worker : holds[v] = j
      BY <3>1, <3>2 DEF Inv, TakenIsHeld
    <3>4. results'[j] = IF j = i THEN i ELSE results[j]
      BY <1>2 DEF Inv, TypeOK
    <3>5. QED BY <2>2, <3>3, <3>4
  <2>7. outcome' = "resolved" => ~firstError' /\ \A v \in Worker : holds'[v] = 0
    BY <1>2, <1>3 DEF AllReturned, Verdict
  <2>8. ~firstError' => nextIndex' > Count
    BY <1>1, <1>2, <1>7, <2>3
  <2>9. TakenIsHeld'
    <3>1. \A v, u \in Worker : holds'[v] = holds'[u] /\ holds'[v] # 0 => v = u
      BY <2>2 DEF Inv, TakenIsHeld
    <3>2. \A v \in Worker : holds'[v] < nextIndex'
      <4>1. \A v \in Worker : holds[v] < nextIndex /\ holds[v] \in Nat
        BY DEF Inv, TypeOK, TakenIsHeld
      <4>2. QED BY <1>1, <2>2, <2>3, <4>1
    <3>3. QED BY <1>4, <2>6, <2>7, <2>8, <3>1, <3>2 DEF TakenIsHeld
  <2>10. ResolvedIsComplete'
    <3>1. SUFFICES ASSUME outcome' = "resolved", NEW j \in Index
                   PROVE  results'[j] = j
      BY DEF ResolvedIsComplete
    <3>2. j # 0
      BY DEF Index
    <3>3. QED BY <2>6, <2>7, <3>1, <3>2
  <2>11. NothingRunsOn'
    BY <1>2, <1>3 DEF NothingRunsOn, CatchesErrors, AllReturned
  <2>12. QED BY <2>4, <2>5, <2>9, <2>10, <2>11 DEF Inv
<1>8. QED BY <1>1, <1>6, <1>7

LEMMA RejectInv ==
  ASSUME Inv, NEW w \in Worker, Reject(w) PROVE Inv'
<1> USE MapAssumption
<1>1. /\ Return(w) /\ holds' = [holds EXCEPT ![w] = 0] /\ holds[w] # 0
      /\ firstError' = CatchesErrors
      /\ outcome' = IF outcome = "pending" /\ (CatchesErrors => AllReturned)
                    THEN "rejected" ELSE outcome
      /\ UNCHANGED <<copy, nextIndex, results, asked>>
  BY DEF Reject, Return
<1>2. outcome # "resolved" /\ (CatchesErrors => outcome = "pending")
  BY <1>1 DEF Inv, TakenIsHeld, NothingRunsOn
<1>3. outcome' # "resolved" /\ (~firstError' => outcome' # "pending")
  BY <1>1, <1>2
<1>4. \A v \in Worker : holds'[v] = IF v = w THEN 0 ELSE holds[v]
  BY <1>1 DEF Inv, TypeOK
<1>5. TypeOK'
  <2>1. Cardinality(Returned') = Cardinality(Returned) + 1 /\ Cardinality(Returned) \in Nat
    BY <1>1, ReturnCounts, ReturnedFinite DEF Inv
  <2>2. PastEnd \in Nat /\ PastEnd' \in Nat /\ PastEnd <= PastEnd'
    BY <1>1, <2>1 DEF PastEnd, CatchesErrors
  <2>3. nextIndex \in 1 .. Count + 1 + PastEnd
    BY DEF Inv, TypeOK
  <2>4. nextIndex' \in 1 .. Count + 1 + PastEnd'
    BY <1>1, <2>2, <2>3, Farther
  <2>5. holds' \in [Worker -> 0 .. Count]
    BY <1>1 DEF Inv, TypeOK
  <2>6. outcome' \in {"pending", "resolved", "rejected", "timedout"}
    BY <1>1 DEF Inv, TypeOK
  <2>7. firstError' \in BOOLEAN
    BY <1>1 DEF CatchesErrors
  <2>8. QED BY <1>1, <2>4, <2>5, <2>6, <2>7 DEF Inv, TypeOK
<1>6. AskedOnce'
  BY <1>1 DEF Inv, AskedOnce
<1>7. TakenIsHeld'
  <2>1. \A v \in Worker : holds'[v] < nextIndex'
    <3>1. \A v \in Worker : holds[v] < nextIndex /\ holds[v] \in Nat
      BY DEF Inv, TypeOK, TakenIsHeld
    <3>2. 0 < nextIndex
      BY DEF Inv, TypeOK
    <3>3. QED BY <1>1, <1>4, <3>1, <3>2
  <2>2. \A v, u \in Worker : holds'[v] = holds'[u] /\ holds'[v] # 0 => v = u
    BY <1>4 DEF Inv, TakenIsHeld
  <2>3. firstError' => CatchesErrors' /\ outcome' \in {"pending", "rejected"}
    BY <1>1, <1>2 DEF CatchesErrors
  <2>4. QED BY <1>3, <2>1, <2>2, <2>3 DEF TakenIsHeld
<1>8. ResolvedIsComplete' /\ NothingRunsOn'
  BY <1>1, <1>2, <1>3 DEF ResolvedIsComplete, NothingRunsOn, CatchesErrors, AllReturned
<1>9. QED BY <1>5, <1>6, <1>7, <1>8 DEF Inv

LEMMA NextInv == ASSUME Inv, [Next]_vars PROVE Inv'
<1>1. CASE Calls
  BY <1>1, AnswerInv, RejectInv DEF Calls
<1>2. CASE Deadline
  <2>1. ~CatchesErrors /\ outcome = "pending" /\ outcome' = "timedout"
    BY <1>2 DEF Deadline, CatchesErrors
  <2>2. UNCHANGED <<copy, nextIndex, holds, results, firstError, asked>>
    BY <1>2 DEF Deadline
  <2>3. UNCHANGED <<CatchesErrors, PastEnd>>
    BY <2>2 DEF CatchesErrors, PastEnd, Returned
  <2>4. TypeOK'
    BY <2>1, <2>2, <2>3 DEF Inv, TypeOK
  <2>5. AskedOnce'
    BY <2>2 DEF Inv, AskedOnce
  <2>6. TakenIsHeld'
    BY <2>1, <2>2, <2>3 DEF Inv, TakenIsHeld
  <2>7. ResolvedIsComplete' /\ NothingRunsOn'
    BY <2>1, <2>3 DEF ResolvedIsComplete, NothingRunsOn
  <2>8. QED BY <2>4, <2>5, <2>6, <2>7 DEF Inv
<1>3. CASE UNCHANGED vars
  <2>1. UNCHANGED <<CatchesErrors, PastEnd>>
    BY <1>3 DEF vars, CatchesErrors, PastEnd, Returned
  <2>2. QED
    BY <1>3, <2>1
    DEF vars, Inv, TypeOK, AskedOnce, TakenIsHeld, ResolvedIsComplete, NothingRunsOn
<1>4. QED BY <1>1, <1>2, <1>3 DEF Next

LEMMA InvAlways == Spec => []Inv
BY InitInv, NextInv, PTL DEF Spec

(* What the workers hold stays within the values, and the cursor too, but    *)
(* for one step past the end of each worker that returned, where errors are  *)
(* caught.                                                                   *)
THEOREM MapTypeCorrect == Spec => []TypeOK
<1>1. Inv => TypeOK
  BY DEF Inv
<1>2. QED BY <1>1, InvAlways, PTL

(* No value is asked for twice or skipped, for any number of values and      *)
(* workers.                                                                  *)
THEOREM AskedOnceAlways == Spec => []AskedOnce
<1>1. Inv => AskedOnce
  BY DEF Inv
<1>2. QED BY <1>1, InvAlways, PTL

(* A caller that is given results is given all of them, each in its place,   *)
(* also by the copy whose workers catch errors and all return.               *)
THEOREM ResolvedAlwaysComplete == Spec => []ResolvedIsComplete
<1>1. Inv => ResolvedIsComplete
  BY DEF Inv
<1>2. QED BY <1>1, InvAlways, PTL

(* The caller of the copy that catches errors is answered after the last     *)
(* call of the mapper has ended, whatever fails and in whichever order.      *)
THEOREM NothingEverRunsOn == Spec => []NothingRunsOn
<1>1. Inv => NothingRunsOn
  BY DEF Inv
<1>2. QED BY <1>1, InvAlways, PTL

-----------------------------------------------------------------------------
(* The budgets of the audit client *)

allVars == <<vars, requests>>

CountersOK ==
  /\ requestCount \in Nat /\ fetched \in Nat
  /\ totalBytes \in Nat /\ received \in Nat

(* A request is counted before it is sent.                                   *)
RequestsCounted == fetched = requestCount /\ requestCount <= MaxRequests

(* What was received is charged, but for the last answer of a worker that    *)
(* has gone.                                                                 *)
BytesCharged ==
  /\ totalBytes <= MaxTotal
  /\ received <= totalBytes + MaxResponse * Cardinality(Returned)

BInv == Inv /\ CountersOK /\ RequestsCounted /\ BytesCharged

-----------------------------------------------------------------------------
(* A response more is allowed for each worker more that has gone.            *)
LEMMA Scaled ==
  ASSUME NEW r \in Nat, NEW c \in Nat, NEW d \in Nat
  PROVE  /\ r * c \in Nat
         /\ r * (c + 1) = r * c + r
         /\ c <= d => r * c <= r * d
<1>1. r * c \in Nat /\ r * (c + 1) = r * c + r
  OBVIOUS
<1>2. ASSUME c <= d PROVE r * c <= r * d
  <2>1. PICK e \in Nat : d = c + e
    <3>1. d - c \in Nat /\ d = c + (d - c)
      BY <1>2
    <3>2. QED BY <3>1
  <2>2. r * d = r * c + r * e /\ r * e \in Nat /\ r * c \in Nat
    BY <2>1
  <2>3. QED BY <2>2
<1>3. QED BY <1>1, <1>2

-----------------------------------------------------------------------------
(* Every step of the audit client is a step of the map, or leaves it alone.  *)
LEMMA MapStep == ASSUME [AuditNext]_allVars PROVE [Next]_vars
<1>1. CASE \E w \in Worker : Read(w)
  <2>1. PICK w \in Worker : Read(w)
    BY <1>1
  <2>2. Answer(w) \/ Reject(w) \/ UNCHANGED vars
    BY <2>1 DEF Read, Refetch, Wake, Rejected, Succeed, Retry, GiveUp, TimeOut
  <2>3. QED BY <2>2 DEF Next, Calls
<1>2. CASE Permissions /\ (Calls \/ Deadline)
  BY <1>2 DEF Next
<1>3. CASE Late
  BY <1>3 DEF Late
<1>4. CASE UNCHANGED allVars
  BY <1>4 DEF allVars
<1>5. QED BY <1>1, <1>2, <1>3, <1>4 DEF AuditNext, Settled

LEMMA InitBudgets == AuditInit => BInv
<1> SUFFICES ASSUME AuditInit PROVE BInv
  OBVIOUS
<1>1. Inv
  BY InitInv DEF AuditInit
<1> DEFINE sent == {w \in Worker : Audit /\ w <= MaxRequests}
<1>2. requestCount = Cardinality(sent) /\ fetched = Cardinality(sent)
  BY DEF AuditInit
<1>3. sent \subseteq 1..MaxRequests /\ MaxRequests \in Nat
  BY MapAssumption, RequestsAssumption DEF Worker
<1>4. IsFiniteSet(1..MaxRequests) /\ Cardinality(1..MaxRequests) = MaxRequests
  BY <1>3, FS_Interval
<1>5. IsFiniteSet(sent) /\ Cardinality(sent) <= MaxRequests
  BY <1>3, <1>4, FS_Subset
<1>6. Cardinality(sent) \in Nat
  BY <1>5, FS_CardinalityType
<1>7. totalBytes = 0 /\ received = 0
  BY DEF AuditInit
<1>8. MaxTotal \in Nat /\ MaxResponse * Cardinality(Returned) \in Nat
  BY ReturnedFinite, RequestsAssumption
<1>9. QED
  BY <1>1, <1>2, <1>5, <1>6, <1>7, <1>8
  DEF BInv, CountersOK, RequestsCounted, BytesCharged

(* An attempt counts what it sends.                                          *)
LEMMA AttemptCounted ==
  ASSUME CountersOK, RequestsCounted, NEW w, NEW n, Attempt(w, n)
  PROVE  RequestsCounted' /\ requestCount' \in Nat /\ fetched' \in Nat
BY RequestsAssumption DEF CountersOK, RequestsCounted, Attempt, Spent

(* What an answer of a living worker brings is charged.                      *)
LEMMA ChargedBytes ==
  ASSUME CountersOK, BytesCharged, NEW bytes \in Nat, Fits(bytes), Charge(bytes),
         received' = received + bytes, Cardinality(Returned) <= Cardinality(Returned'),
         Cardinality(Returned') \in Nat
  PROVE  BytesCharged' /\ totalBytes' \in Nat /\ received' \in Nat
<1>1. totalBytes' = totalBytes + bytes /\ totalBytes' <= MaxTotal
  BY DEF Charge, Fits
<1>2. MaxResponse * Cardinality(Returned) <= MaxResponse * Cardinality(Returned')
  BY Scaled, ReturnedFinite, RequestsAssumption
<1>3. /\ MaxResponse * Cardinality(Returned) \in Nat
      /\ MaxResponse * Cardinality(Returned') \in Nat
  BY Scaled, ReturnedFinite, RequestsAssumption
<1>4. received' <= totalBytes' + MaxResponse * Cardinality(Returned)
  BY <1>1, <1>3 DEF CountersOK, BytesCharged
<1>5. received' <= totalBytes' + MaxResponse * Cardinality(Returned')
  BY <1>1, <1>2, <1>3, <1>4 DEF CountersOK
<1>6. QED BY <1>1, <1>5 DEF CountersOK, BytesCharged

(* The last answer of a worker may be charged or not.                        *)
LEMMA LastBytes ==
  ASSUME CountersOK, BytesCharged, NEW bytes \in 0..MaxResponse,
         Charge(bytes) \/ UNCHANGED totalBytes,
         received' = received + bytes, Cardinality(Returned') = Cardinality(Returned) + 1
  PROVE  BytesCharged' /\ totalBytes' \in Nat /\ received' \in Nat
<1>1. /\ totalBytes' \in Nat /\ totalBytes <= totalBytes'
      /\ totalBytes' <= MaxTotal
  BY DEF Charge, Fits, CountersOK, BytesCharged
<1>2. /\ MaxResponse * Cardinality(Returned) \in Nat
      /\ MaxResponse * Cardinality(Returned')
           = MaxResponse * Cardinality(Returned) + MaxResponse
  BY Scaled, ReturnedFinite, RequestsAssumption
<1>3. QED
  BY <1>1, <1>2, RequestsAssumption DEF CountersOK, BytesCharged

LEMMA ReadBudgets ==
  ASSUME BInv, NEW w \in Worker, Read(w)
  PROVE  (CountersOK /\ RequestsCounted /\ BytesCharged)'
<1> USE DEF BInv
<1>0. TypeOK
  BY DEF Inv
<1>1. CASE Refetch(w)
  <2>1. UNCHANGED <<holds, totalBytes, received>>
    BY <1>1 DEF Refetch, vars
  <2>2. BytesCharged'
    BY <2>1 DEF BytesCharged, Returned
  <2>3. QED
    BY <1>1, <2>1, <2>2, RequestsAssumption
    DEF Refetch, CountersOK, RequestsCounted, Spent
<1>2. CASE Wake(w)
  <2>1. UNCHANGED <<holds, totalBytes, received>>
    BY <1>2 DEF Wake, vars
  <2>2. BytesCharged'
    BY <2>1 DEF BytesCharged, Returned
  <2>3. Attempt(w, call[w].attempt + 1)
    BY <1>2 DEF Wake
  <2>4. QED BY <2>1, <2>2, <2>3, AttemptCounted DEF CountersOK
<1>3. CASE Rejected(w)
  <2>1. Reject(w) /\ UNCHANGED <<budgets, fetched, received>>
    BY <1>3 DEF Rejected, requests
  <2>2. Cardinality(Returned') = Cardinality(Returned) + 1
    BY <1>0, <2>1, ReturnCounts DEF Reject
  <2>3. 0 \in 0..MaxResponse /\ received' = received + 0
    BY <2>1, RequestsAssumption DEF CountersOK
  <2>4. UNCHANGED <<totalBytes, requestCount, fetched>>
    BY <2>1 DEF budgets
  <2>5. BytesCharged' /\ totalBytes' \in Nat /\ received' \in Nat
    BY <2>2, <2>3, <2>4, LastBytes
  <2>6. QED BY <2>4, <2>5 DEF CountersOK, RequestsCounted
<1>4. ASSUME NEW bytes \in 0..MaxResponse, Succeed(w, bytes)
      PROVE  (CountersOK /\ RequestsCounted /\ BytesCharged)'
  <2>1. /\ Fits(bytes) /\ Charge(bytes) /\ received' = received + bytes
        /\ Answer(w) /\ bytes \in Nat
    BY <1>4, RequestsAssumption DEF Succeed
  <2>2. Cardinality(Returned) <= Cardinality(Returned')
    BY <1>0, <2>1, AnswerCounts
  <2>3. Cardinality(Returned') \in Nat
    BY ReturnedFiniteNext
  <2>4. BytesCharged' /\ totalBytes' \in Nat /\ received' \in Nat
    BY <2>1, <2>2, <2>3, ChargedBytes
  <2>5. RequestsCounted' /\ requestCount' \in Nat /\ fetched' \in Nat
    <3>1. CASE holds'[w] # 0
      <4>1. Attempt(w, 0)
        BY <1>4, <3>1 DEF Succeed
      <4>2. QED BY <4>1, AttemptCounted
    <3>2. CASE holds'[w] = 0
      BY <1>4, <3>2 DEF Succeed, CountersOK, RequestsCounted
    <3>3. QED BY <3>1, <3>2
  <2>6. QED BY <2>4, <2>5 DEF CountersOK
<1>5. ASSUME NEW bytes \in 0..MaxResponse, Retry(w, bytes)
      PROVE  (CountersOK /\ RequestsCounted /\ BytesCharged)'
  <2>1. /\ Fits(bytes) /\ Charge(bytes) /\ received' = received + bytes
        /\ UNCHANGED <<holds, requestCount, fetched>> /\ bytes \in Nat
    BY <1>5, RequestsAssumption DEF Retry, vars
  <2>2. Cardinality(Returned) <= Cardinality(Returned') /\ Cardinality(Returned') \in Nat
    BY <2>1, ReturnedFinite DEF Returned
  <2>3. BytesCharged' /\ totalBytes' \in Nat /\ received' \in Nat
    BY <2>1, <2>2, ChargedBytes
  <2>4. QED BY <2>1, <2>3 DEF CountersOK, RequestsCounted
<1>6. ASSUME NEW bytes \in 0..MaxResponse, GiveUp(w, bytes) \/ TimeOut(w, bytes)
      PROVE  (CountersOK /\ RequestsCounted /\ BytesCharged)'
  <2>1. /\ Charge(bytes) \/ UNCHANGED totalBytes
        /\ received' = received + bytes /\ Reject(w)
        /\ UNCHANGED <<requestCount, fetched>>
    BY <1>6 DEF GiveUp, TimeOut
  <2>2. Cardinality(Returned') = Cardinality(Returned) + 1
    BY <1>0, <2>1, ReturnCounts DEF Reject
  <2>3. BytesCharged' /\ totalBytes' \in Nat /\ received' \in Nat
    BY <2>1, <2>2, LastBytes
  <2>4. QED BY <2>1, <2>3 DEF CountersOK, RequestsCounted
<1>7. QED BY <1>1, <1>2, <1>3, <1>4, <1>5, <1>6 DEF Read

(* A step that sends nothing and receives nothing: the budgets hold if no    *)
(* worker that was gone comes back.                                          *)
LEMMA MapBudgets ==
  ASSUME BInv, UNCHANGED requests, Calls \/ UNCHANGED holds
  PROVE  (CountersOK /\ RequestsCounted /\ BytesCharged)'
<1> USE DEF BInv
<1>1. /\ UNCHANGED <<totalBytes, requestCount, fetched, received>>
  BY DEF requests, budgets
<1>2. Cardinality(Returned) <= Cardinality(Returned') /\ Cardinality(Returned') \in Nat
  <2>1. CASE UNCHANGED holds
    BY <2>1, ReturnedFinite DEF Returned
  <2>2. CASE Calls
    <3>1. PICK w \in Worker : Answer(w) \/ Reject(w)
      BY <2>2 DEF Calls
    <3>2. Cardinality(Returned') \in Nat
      BY ReturnedFiniteNext
    <3>3. Cardinality(Returned) <= Cardinality(Returned')
      <4>1. CASE Answer(w)
        BY <4>1, AnswerCounts DEF Inv
      <4>2. CASE Reject(w)
        <5>1. Cardinality(Returned') = Cardinality(Returned) + 1
          BY <4>2, ReturnCounts DEF Inv, Reject
        <5>2. QED BY <5>1, ReturnedFinite
      <4>3. QED BY <3>1, <4>1, <4>2
    <3>4. QED BY <3>2, <3>3
  <2>3. QED BY <2>1, <2>2
<1>3. /\ MaxResponse * Cardinality(Returned) <= MaxResponse * Cardinality(Returned')
      /\ MaxResponse * Cardinality(Returned) \in Nat
      /\ MaxResponse * Cardinality(Returned') \in Nat
  BY <1>2, Scaled, ReturnedFinite, RequestsAssumption
<1>4. BytesCharged'
  BY <1>1, <1>3 DEF CountersOK, BytesCharged
<1>5. QED BY <1>1, <1>4 DEF CountersOK, RequestsCounted

LEMMA NextBudgets == ASSUME BInv, [AuditNext]_allVars PROVE BInv'
<1>1. Inv'
  BY MapStep, NextInv DEF BInv
<1>2. (CountersOK /\ RequestsCounted /\ BytesCharged)'
  <2>1. CASE \E w \in Worker : Read(w)
    BY <2>1, ReadBudgets
  <2>2. CASE Permissions /\ (Calls \/ Deadline)
    BY <2>2, MapBudgets DEF Permissions, Deadline
  <2>3. CASE Late
    <3>1. /\ UNCHANGED <<holds, totalBytes, requestCount, fetched, received>>
      BY <2>3 DEF Late, vars, budgets
    <3>2. QED
      BY <3>1 DEF BInv, CountersOK, RequestsCounted, BytesCharged, Returned
  <2>4. CASE UNCHANGED allVars
    BY <2>4, MapBudgets DEF allVars, vars
  <2>5. QED BY <2>1, <2>2, <2>3, <2>4 DEF AuditNext, Settled
<1>3. QED BY <1>1, <1>2 DEF BInv

LEMMA BudgetsImplied == BInv => BudgetsHold
<1> SUFFICES ASSUME BInv PROVE BudgetsHold
  OBVIOUS
<1>1. /\ MaxResponse * Cardinality(Returned) <= MaxResponse * Cardinality(Worker)
      /\ MaxResponse * Cardinality(Returned) \in Nat
      /\ MaxResponse * Cardinality(Worker) \in Nat
  BY ReturnedFinite, Scaled, RequestsAssumption
<1>2. received <= MaxTotal + MaxResponse * Cardinality(Worker)
  BY <1>1, RequestsAssumption DEF BInv, CountersOK, BytesCharged
<1>3. QED BY <1>2 DEF BInv, RequestsCounted, BudgetsHold

LEMMA BInvAlways == AuditSpec => []BInv
<1>1. BInv /\ [AuditNext]_allVars => BInv'
  BY NextBudgets
<1>2. QED BY <1>1, InitBudgets, PTL DEF AuditSpec, allVars

(* No more requests are sent than MAX_API_REQUESTS, and no more bytes come   *)
(* in than the byte budget and one response of each worker, however the      *)
(* reads of github-audit-api.ts interleave, fail and retry.                  *)
THEOREM BudgetsAlwaysHold == AuditSpec => []BudgetsHold
BY BInvAlways, BudgetsImplied, PTL

(* What is proved of the map alone holds of the copies the audit client      *)
(* uses: the results it goes on with are complete and in their places, and   *)
(* the rulesets are answered after their last read.                          *)
THEOREM AuditResolvedComplete ==
  AuditSpec => [](AskedOnce /\ ResolvedIsComplete /\ NothingRunsOn)
<1>1. BInv => AskedOnce /\ ResolvedIsComplete /\ NothingRunsOn
  BY DEF BInv, Inv
<1>2. QED BY <1>1, BInvAlways, PTL
=============================================================================
