---------------------------- MODULE ConcurrentMap ----------------------------
(***************************************************************************)
(* mapWithConcurrency(values, limit, mapper) of src/src, of which there    *)
(* are three copies that handle failure in two ways:                       *)
(*                                                                         *)
(*   "permissions"  github.ts, raced against a timer by                    *)
(*                  lookupReviewerPermissions, and                         *)
(*   "sources"      github-audit.ts: a rejection of the mapper rejects the *)
(*                  map at once and the other workers go on;               *)
(*   "rulesets"     github-audit-api.ts: it is caught, every worker stops  *)
(*                  at its next turn, and when all have returned the map   *)
(*                  throws.  The cursor is moved before it is compared     *)
(*                  with the length, so it runs past the end.              *)
(*                                                                         *)
(* Workers share a cursor into the values.  What a worker does between two *)
(* awaits is one step: nothing else runs meanwhile.  The result of value i *)
(* is i, so that a result in the wrong place is seen.                      *)
(***************************************************************************)
EXTENDS Naturals, FiniteSets

CONSTANTS
  Count,  \* values.length
  Limit   \* the concurrency limit

ASSUME MapAssumption == Count \in Nat /\ Limit \in Nat \ {0}

VARIABLES
  copy,        \* which of the three copies runs, fixed from the start
  nextIndex,   \* the shared cursor
  holds,       \* the index each worker awaits, 0 once it has returned
  results,     \* 0 where nothing was stored
  firstError,  \* whether "rulesets" has caught an error
  outcome,     \* how the caller's promise was settled
  asked        \* history: how often the mapper was called for an index

vars == <<copy, nextIndex, holds, results, firstError, outcome, asked>>

Index == 1 .. Count
Worker == {w \in 1 .. Limit : w <= Count}

CatchesErrors == copy = "rulesets"

(* The workers are started in one go, each up to its first await.            *)
Init ==
  /\ copy \in {"permissions", "sources", "rulesets"}
  /\ nextIndex = (IF Limit <= Count THEN Limit ELSE Count) + 1
  /\ holds = [w \in Worker |-> w]
  /\ results = [i \in Index |-> 0]
  /\ firstError = FALSE
  /\ outcome = IF Count = 0 THEN "resolved" ELSE "pending"
  /\ asked = [i \in Index |-> IF i \in Worker THEN 1 ELSE 0]

-----------------------------------------------------------------------------
(* Workers *)

Continue(w) ==
  /\ holds' = [holds EXCEPT ![w] = nextIndex]
  /\ asked' = [asked EXCEPT ![nextIndex] = @ + 1]
  /\ nextIndex' = nextIndex + 1

Return(w) == holds' = [holds EXCEPT ![w] = 0] /\ UNCHANGED asked

(* Seeded fault: `<=' for `<' in the loop's condition. *)
TakePastEnd(w) ==
  /\ holds' = [holds EXCEPT ![w] = IF nextIndex <= Count + 1 THEN nextIndex ELSE 0]
  /\ nextIndex' = IF nextIndex <= Count + 1 THEN nextIndex + 1 ELSE nextIndex
  /\ asked' = [i \in Index |-> IF i = nextIndex THEN asked[i] + 1 ELSE asked[i]]

(* Seeded fault: only the first worker moves the cursor. *)
TakeWithoutMoving(w) ==
  IF nextIndex <= Count
  THEN /\ holds' = [holds EXCEPT ![w] = nextIndex]
       /\ asked' = [asked EXCEPT ![nextIndex] = @ + 1]
       /\ nextIndex' = IF w = 1 THEN nextIndex + 1 ELSE nextIndex
  ELSE Return(w) /\ UNCHANGED nextIndex

(* A worker goes round its loop: the next value, or return.                  *)
Take(w) ==
  IF ~firstError /\ nextIndex <= Count
  THEN Continue(w)
  ELSE /\ Return(w)
       /\ nextIndex' = IF CatchesErrors /\ ~firstError
                       THEN nextIndex + 1 ELSE nextIndex

(* Seeded fault: the last worker to return is not counted. *)
HadReturned == \A w \in Worker : holds[w] = 0

(* Promise.all *)
AllReturned == \A w \in Worker : holds'[w] = 0

(* Seeded fault: what was caught is not thrown. *)
VerdictForgotten == "resolved"

(* After Promise.all a caught error is thrown. *)
Verdict == IF firstError THEN "rejected" ELSE "resolved"

(* The mapper answers worker w. *)
Answer(w) ==
  /\ holds[w] # 0
  /\ results' = [results EXCEPT ![holds[w]] = holds[w]]
  /\ Take(w)
  /\ outcome' = IF outcome = "pending" /\ AllReturned THEN Verdict ELSE outcome
  /\ UNCHANGED <<copy, firstError>>

(* Seeded fault: the copy that catches errors rejects at once all the same.  *)
RejectAtOnce(w) ==
  /\ holds[w] # 0
  /\ Return(w)
  /\ firstError' = CatchesErrors
  /\ outcome' = IF outcome = "pending" THEN "rejected" ELSE outcome
  /\ UNCHANGED <<copy, nextIndex, results>>

(* The mapper rejects and this worker is gone.  Where errors are caught the  *)
(* caller waits for the others; elsewhere it is answered, and the others go  *)
(* on taking values whose results nobody will read.                          *)
Reject(w) ==
  /\ holds[w] # 0
  /\ Return(w)
  /\ firstError' = CatchesErrors
  /\ outcome' = IF outcome = "pending" /\ (CatchesErrors => AllReturned)
                THEN "rejected" ELSE outcome
  /\ UNCHANGED <<copy, nextIndex, results>>

(* The timer of PERMISSION_LOOKUP_TIMEOUT_MS fires first. *)
Deadline ==
  /\ copy = "permissions"
  /\ outcome = "pending"
  /\ outcome' = "timedout"
  /\ UNCHANGED <<copy, nextIndex, holds, results, firstError, asked>>

Calls == \E w \in Worker : Answer(w) \/ Reject(w)

Next == Calls \/ Deadline

(* Every call of the mapper is settled. *)
Spec == Init /\ [][Next]_vars /\ WF_vars(Calls)

-----------------------------------------------------------------------------
Returned == {w \in Worker : holds[w] = 0}

PastEnd == IF CatchesErrors THEN Cardinality(Returned) ELSE 0

(* Every variable holds a value of its declared type; the cursor stops at    *)
(* the end, or passes it once for each worker that returned there.           *)
TypeOK ==
  /\ copy \in {"permissions", "sources", "rulesets"}
  /\ nextIndex \in 1 .. Count + 1 + PastEnd
  /\ holds \in [Worker -> 0 .. Count]
  /\ results \in [Index -> 0 .. Count]
  /\ firstError \in BOOLEAN
  /\ outcome \in {"pending", "resolved", "rejected", "timedout"}
  /\ asked \in [Index -> Nat]

(* The mapper is called at most once per value, and for no value before the  *)
(* ones ahead of it, whichever worker comes round first.                     *)
AskedOnce == \A i \in Index : asked[i] = IF i < nextIndex THEN 1 ELSE 0

(* When the caller is given the results, no value is missing and each result *)
(* is in the place of its value, although a caught error leaves its own      *)
(* place and those after it empty and lets every worker return.              *)
ResolvedIsComplete ==
  outcome = "resolved" => \A i \in Index : results[i] = i

(* The caller of "rulesets" is answered only when no call of the mapper is   *)
(* under way any more, also when one of them failed.                         *)
NothingRunsOn ==
  CatchesErrors /\ outcome # "pending" => \A w \in Worker : holds[w] = 0

(* What these rest on: no two workers await the same index, a value that was *)
(* taken is awaited or answered unless the map has failed, a worker returns  *)
(* only at the end, and only the copy that catches errors keeps one.         *)
TakenIsHeld ==
  /\ firstError => CatchesErrors /\ outcome \in {"pending", "rejected"}
  /\ \A v, w \in Worker : holds[v] = holds[w] /\ holds[v] # 0 => v = w
  /\ \A w \in Worker : holds[w] < nextIndex
  /\ ~firstError /\ outcome \in {"pending", "resolved"} =>
       /\ \A i \in Index : i < nextIndex =>
            results[i] = i \/ \E w \in Worker : holds[w] = i
       /\ \A w \in Worker : holds[w] = 0 => nextIndex > Count
  /\ outcome = "resolved" => /\ \A w \in Worker : holds[w] = 0
                             /\ nextIndex > Count

(* The caller is answered: with the results, the rejection or the deadline.  *)
Settles == <>(outcome # "pending")
=============================================================================
