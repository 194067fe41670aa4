----------------------------- MODULE SlotLedger -----------------------------
(***************************************************************************)
(* What the ingress store promises about one pull request's verdict, with  *)
(* no receipts, leases, attempts, outbox or clock: a slot carries the      *)
(* verdict of its newest generation; a verdict is published only after it  *)
(* was decided under that same generation; a published verdict stays until *)
(* a newer generation supersedes it or the slot is forgotten.              *)
(***************************************************************************)
EXTENDS Naturals

CONSTANTS
  Tenant, Pull,
  Digest,        \* verdicts
  None           \* no verdict

VARIABLE verdict \* [Tenant -> [Pull -> Verdict]]

Phase == {"idle", "open", "decided", "published"}
Verdict == [generation : Nat, phase : Phase, digest : Digest \cup {None}]

Idle == [generation |-> 0, phase |-> "idle", digest |-> None]

LedgerInit == verdict = [t \in Tenant |-> [p \in Pull |-> Idle]]

Becomes(t, p, generation, phase, digest) ==
  verdict' = [verdict EXCEPT ![t][p] =
    [generation |-> generation, phase |-> phase, digest |-> digest]]

(* A newer delivery takes the slot. *)
Supersede(t, p) ==
  Becomes(t, p, verdict[t][p].generation + 1, "open", None)

Decide(t, p, x) ==
  /\ verdict[t][p].phase = "open"
  /\ Becomes(t, p, verdict[t][p].generation, "decided", x)

(* A decided verdict that was not published may be evaluated again. *)
Reopen(t, p) ==
  /\ verdict[t][p].phase = "decided"
  /\ Becomes(t, p, verdict[t][p].generation, "open", None)

Publish(t, p) ==
  /\ verdict[t][p].phase = "decided"
  /\ Becomes(t, p, verdict[t][p].generation, "published", verdict[t][p].digest)

(* Retention has passed for any number of slots at once. *)
Forget(S) ==
  verdict' = [t \in Tenant |-> [p \in Pull |->
               IF <<t, p>> \in S THEN Idle ELSE verdict[t][p]]]

LedgerNext ==
  \/ \E t \in Tenant, p \in Pull :
       \/ Supersede(t, p)
       \/ \E x \in Digest : Decide(t, p, x)
       \/ Reopen(t, p)
       \/ Publish(t, p)
  \/ \E S \in SUBSET (Tenant \X Pull) : Forget(S)

LedgerSpec == LedgerInit /\ [][LedgerNext]_verdict
=============================================================================
