---------------------------- MODULE AuditRequests ----------------------------
(***************************************************************************)
(* read of createGitHubAuditApi, src/src/github-audit-api.ts, called by    *)
(* the workers of mapWithConcurrency: attempts, retries and received bytes *)
(* are counted against budgets that all reads of an audit share, and every *)
(* wait ends at the deadline of the audit.                                 *)
(*                                                                         *)
(* The audit reads workflow sources and rulesets this way.  The third copy *)
(* of the map, for the permissions of reviewers, has none of these budgets *)
(* and is ConcurrentMap as it stands.  A byte of the model is a unit of    *)
(* response size.                                                          *)
(***************************************************************************)
EXTENDS ConcurrentMap

CONSTANTS
  MaxRequests, \* MAX_API_REQUESTS
  MaxRetries,  \* MAX_RETRIES of one read
  MaxResponse, \* MAX_RESPONSE_BYTES
  MaxTotal     \* MAX_TOTAL_RESPONSE_BYTES

ASSUME RequestsAssumption ==
  {MaxRequests, MaxRetries, MaxResponse, MaxTotal} \subseteq Nat

VARIABLES
  call,         \* the read each worker awaits: [phase, attempt]
  requestCount,
  retryCount,
  totalBytes,   \* totalResponseBytes
  late,         \* the deadline has passed
  fetched,      \* history: requests that were sent
  received      \* history: bytes that came over the wire

budgets == <<requestCount, retryCount, totalBytes>>
requests == <<call, budgets, late, fetched, received>>

Audit == copy \in {"sources", "rulesets"}

-----------------------------------------------------------------------------
(* An attempt *)

Phase(phase, attempt) == [phase |-> phase, attempt |-> attempt]

(* Seeded fault: the last request of the budget is checked one too late. *)
SpentLate(count) == count > MaxRequests

(* requestCount >= MAX_API_REQUESTS *)
Spent(count) == count >= MaxRequests

(* Up to its first await an attempt checks the deadline and the budget and   *)
(* charges the request; where it throws, the read is rejected.               *)
Attempt(w, n) ==
  IF late \/ Spent(requestCount)
  THEN /\ call' = [call EXCEPT ![w] = Phase("rejected", n)]
       /\ UNCHANGED <<requestCount, retryCount, fetched>>
  ELSE /\ call' = [call EXCEPT ![w] = Phase("sent", n)]
       /\ requestCount' = requestCount + 1
       /\ retryCount' = IF n > 0 THEN retryCount + 1 ELSE retryCount
       /\ fetched' = fetched + 1

(* addResponseBytes: what does not fit is refused and not charged. *)
Fits(bytes) == totalBytes + bytes <= MaxTotal

Charge(bytes) ==
  totalBytes' = IF Fits(bytes) THEN totalBytes + bytes ELSE totalBytes

AuditInit ==
  /\ Init
  /\ LET sent == {w \in Worker : Audit /\ w <= MaxRequests}
     IN /\ call = [w \in Worker |->
                     Phase(IF w \in sent THEN "sent" ELSE "rejected", 0)]
        /\ requestCount = Cardinality(sent) /\ fetched = Cardinality(sent)
  /\ retryCount = 0 /\ totalBytes = 0 /\ late = FALSE /\ received = 0

-----------------------------------------------------------------------------
(* A read *)

Sent(w) == Audit /\ holds[w] # 0 /\ call[w].phase = "sent"

(* The client underneath calls the transport again for one request; the      *)
(* answer it gave up has no body.                                            *)
Refetch(w) ==
  /\ Sent(w) /\ ~late
  /\ IF Spent(requestCount)
     THEN /\ call' = [call EXCEPT ![w].phase = "rejected"]
          /\ UNCHANGED <<requestCount, fetched>>
     ELSE /\ requestCount' = requestCount + 1 /\ fetched' = fetched + 1
          /\ UNCHANGED call
  /\ UNCHANGED <<vars, retryCount, totalBytes, late, received>>

(* A response, of a size that boundedResponse cuts off at MaxResponse: the   *)
(* worker takes the next value, whose read starts at once, or returns.       *)
Succeed(w, bytes) ==
  /\ Sent(w) /\ ~late /\ Fits(bytes)
  /\ received' = received + bytes /\ Charge(bytes)
  /\ Answer(w)
  /\ IF holds'[w] # 0 THEN Attempt(w, 0)
     ELSE UNCHANGED <<call, requestCount, retryCount, fetched>>
  /\ UNCHANGED late

(* An error: it is charged like an answer, and if its status is one of       *)
(* retryDelay's and attempts are left the read waits.                        *)
Retry(w, bytes) ==
  /\ Sent(w) /\ ~late /\ Fits(bytes) /\ call[w].attempt < MaxRetries
  /\ received' = received + bytes /\ Charge(bytes)
  /\ call' = [call EXCEPT ![w].phase = "asleep"]
  /\ UNCHANGED <<vars, requestCount, retryCount, late, fetched>>

Wake(w) ==
  /\ Audit /\ holds[w] # 0 /\ call[w].phase = "asleep"
  /\ Attempt(w, call[w].attempt + 1)
  /\ UNCHANGED <<vars, totalBytes, late, received>>

(* Any other answer, one that does not fit, and one that is invalid.         *)
GiveUp(w, bytes) ==
  /\ Sent(w) /\ ~late
  /\ received' = received + bytes /\ Charge(bytes)
  /\ Reject(w)
  /\ UNCHANGED <<call, requestCount, retryCount, late, fetched>>

(* withDeadline rejects whatever is awaited; an answer that came just before *)
(* is charged, one that comes later is not.                                  *)
TimeOut(w, bytes) ==
  /\ Audit /\ late /\ holds[w] # 0 /\ call[w].phase # "rejected"
  /\ call[w].phase = "asleep" => bytes = 0
  /\ received' = received + bytes
  /\ Charge(bytes) \/ UNCHANGED totalBytes
  /\ Reject(w)
  /\ UNCHANGED <<call, requestCount, retryCount, late, fetched>>

Rejected(w) ==
  /\ Audit /\ call[w].phase = "rejected"
  /\ Reject(w)
  /\ UNCHANGED requests

Read(w) ==
  \/ Refetch(w) \/ Wake(w) \/ Rejected(w)
  \/ \E bytes \in 0..MaxResponse :
       Succeed(w, bytes) \/ Retry(w, bytes) \/ GiveUp(w, bytes) \/ TimeOut(w, bytes)

Late ==
  /\ Audit /\ ~late
  /\ late' = TRUE
  /\ UNCHANGED <<vars, call, budgets, fetched, received>>

Permissions == copy = "permissions" /\ UNCHANGED requests

Settled == (Permissions /\ Calls) \/ \E w \in Worker : Read(w)

AuditNext == Settled \/ (Permissions /\ Deadline) \/ Late

(* Every request is settled, by its answer or by withDeadline's timer.       *)
AuditSpec == AuditInit /\ [][AuditNext]_<<vars, requests>> /\ WF_<<vars, requests>>(Settled)

-----------------------------------------------------------------------------
(* However many reads are under way, and also when one has failed and the    *)
(* other workers go on: no more requests are sent than the budget, and       *)
(* what comes over the wire exceeds the byte budget by no more than one      *)
(* response of each worker, because a read that is refused ends its worker.  *)
BudgetsHold ==
  /\ fetched <= MaxRequests
  /\ received <= MaxTotal + MaxResponse * Cardinality(Worker)
=============================================================================
