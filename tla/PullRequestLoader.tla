-------------------------- MODULE PullRequestLoader --------------------------
(***************************************************************************)
(* loadGitHubPullRequest of src/src/github.ts: evidence for one pull       *)
(* request is collected by many requests while the pull request, its       *)
(* checks, its reviews, its linked issues and its reviewers' permissions   *)
(* change.  The loader reads the snapshot three times and the evidence     *)
(* twice, and retries once when two readings differ.                       *)
(*                                                                         *)
(* Each gateway call is one step that reads the world once.  The reads of  *)
(* one Promise.all, and the permission lookups, happen in any order.       *)
(*                                                                         *)
(* Data abstraction: a snapshot is [head, text, stamp]: the head commit,   *)
(* every other compared field (base, body, labels), and updatedAt.  The    *)
(* file list is the head it belongs to; a reading of evidence is one of    *)
(* Value (reviews: the set of actionable reviewers).                       *)
(***************************************************************************)
EXTENDS Naturals, FiniteSets

CONSTANTS
  Head,        \* head commits of the pull request
  Text,        \* base, body and labels
  Login,       \* reviewers
  Value,       \* check conclusions, linked issues, permissions
  NeedsOf,     \* [Text \X Head -> SUBSET Kind]: evidence the policy asks for
  InitialWorlds, \* the worlds a load may start in
  MaxLookups,  \* MAX_PERMISSION_LOOKUPS
  MaxAttempts, \* MAX_SNAPSHOT_ATTEMPTS
  MaxChanges,  \* bound: changes of the world during a load
  Nothing      \* not read yet

VARIABLES
  world,     \* the repository as GitHub holds it
  pc,        \* the gateway call the loader waits for, or its outcome
  attempt,
  initial,   \* initialSnapshot of this attempt
  files,     \* filePaths of this attempt
  pending,   \* reads of the running collectEvidence still to answer
  first,     \* firstEvidence
  second,    \* secondEvidence
  changes,   \* bound: changes so far
  past,      \* history: the worlds of this attempt
  reverted,  \* history: in this attempt something took an earlier value again
  mid,       \* history: the world when the final snapshot was read
  pulls      \* history: the pull request at each read of this attempt

loader == <<pc, attempt, initial, files, pending, first, second>>
history == <<past, reverted, mid, pulls>>
vars == <<world, loader, changes, history>>

Kind == {"checks", "reviews", "links"}
Pull == [head : Head, text : Text, stamp : Nat]
World == [pull : Pull, checks : [Head -> Value], reviews : SUBSET Login,
          links : Value, permission : [Login -> Value]]

Reading == {"initial", "policy", "files", "first", "firstLookups", "final",
            "second", "secondLookups", "ending"}
Outcome == {"loaded", "changed", "incomplete", "failed"}

ASSUME LoaderAssumption ==
  /\ NeedsOf \in [Text \X Head -> SUBSET Kind]
  /\ \A w \in InitialWorlds : w \in World
  /\ MaxLookups \in Nat /\ MaxAttempts \in Nat \ {0} /\ MaxChanges \in Nat
  /\ (Head \cup Text \cup Login \cup Value) \cap {Nothing} = {}
  /\ Login \cap Kind = {}

-----------------------------------------------------------------------------
(* What a read of evidence k answers in world w. *)
Answer(w, k) ==
  CASE k = "checks" -> w.checks[initial.head]
    [] k = "reviews" -> w.reviews
    [] k = "links" -> w.links
    [] k \in Login -> w.permission[k]

With(evidence, k) ==
  [x \in DOMAIN evidence \cup {k} |->
     IF x = k THEN Answer(world, k) ELSE evidence[x]]

NoEvidence == [x \in {} |-> Nothing]

Reviewers(evidence) ==
  IF "reviews" \in DOMAIN evidence THEN evidence.reviews ELSE {}

Needs == NeedsOf[<<initial.text, files>>]

Saw == pulls' = pulls \cup {world.pull}

-----------------------------------------------------------------------------
(* One attempt *)

(* Seeded fault: evidence of the attempt before is kept. *)
StartWithOldEvidence ==
  /\ pc = "initial"
  /\ initial' = world.pull
  /\ pc' = "policy"
  /\ past' = {world} /\ reverted' = FALSE
  /\ pulls' = {world.pull} /\ mid' = Nothing
  /\ files' = Nothing /\ pending' = {}
  /\ UNCHANGED <<world, attempt, changes, first, second>>

Start ==
  /\ pc = "initial"
  /\ initial' = world.pull
  /\ pc' = "policy"
  /\ past' = {world} /\ reverted' = FALSE
  /\ pulls' = {world.pull} /\ mid' = Nothing
  /\ files' = Nothing /\ pending' = {}
  /\ first' = NoEvidence /\ second' = NoEvidence
  /\ UNCHANGED <<world, attempt, changes>>

(* The policy is read at the base commit of the initial snapshot, whose      *)
(* content never changes.                                                    *)
ReadPolicy ==
  /\ pc = "policy"
  /\ pc' = "files"
  /\ UNCHANGED <<world, attempt, initial, files, pending, first, second,
                 changes, history>>

(* Seeded fault: with no reviewer to look up, the lookups never resolve.     *)
CollectHanging(reads, evidence, gather, lookups, next) ==
  IF reads # {}
  THEN pc' = gather /\ pending' = reads
  ELSE LET logins == Reviewers(evidence) IN
       /\ pc' = IF Cardinality(logins) > MaxLookups THEN "incomplete"
                ELSE lookups
       /\ pending' = logins

(* What collectEvidence does when nothing is left to read: it looks up the   *)
(* reviewers' permissions, refusing too many, and returns.                   *)
Collect(reads, evidence, gather, lookups, next) ==
  IF reads # {}
  THEN pc' = gather /\ pending' = reads
  ELSE LET logins == Reviewers(evidence) IN
       /\ pc' = IF Cardinality(logins) > MaxLookups THEN "incomplete"
                ELSE IF logins = {} THEN next ELSE lookups
       /\ pending' = logins

ReadFiles ==
  /\ pc = "files"
  /\ files' = world.pull.head
  /\ Collect(NeedsOf[<<initial.text, files'>>], NoEvidence,
             "first", "firstLookups", "final")
  /\ Saw
  /\ UNCHANGED <<world, attempt, initial, first, second, changes, past, reverted, mid>>

ReadFirst(k) ==
  /\ pc = "first"
  /\ k \in pending
  /\ first' = With(first, k)
  /\ Collect(pending \ {k}, first', "first", "firstLookups", "final")
  /\ Saw
  /\ UNCHANGED <<world, attempt, initial, files, second, changes, past, reverted, mid>>

LookUpFirst(login) ==
  /\ pc = "firstLookups"
  /\ login \in pending
  /\ first' = With(first, login)
  /\ pending' = pending \ {login}
  /\ pc' = IF pending' = {} THEN "final" ELSE pc
  /\ Saw
  /\ UNCHANGED <<world, attempt, initial, files, second, changes, past, reverted, mid>>

(* Seeded fault: a change counts only if the head moved. *)
SameSnapshotByHead(a, b) == a.head = b.head

SameSnapshot(a, b) == a = b

Retry ==
  IF attempt < MaxAttempts
  THEN pc' = "initial" /\ attempt' = attempt + 1
  ELSE pc' = "changed" /\ UNCHANGED attempt

ReadFinal ==
  /\ pc = "final"
  /\ mid' = world
  /\ Saw
  /\ IF SameSnapshot(initial, world.pull)
     THEN /\ Collect(Needs, NoEvidence, "second", "secondLookups", "ending")
          /\ UNCHANGED attempt
     ELSE Retry /\ UNCHANGED pending
  /\ UNCHANGED <<world, initial, files, first, second, changes, past, reverted>>

ReadSecond(k) ==
  /\ pc = "second"
  /\ k \in pending
  /\ second' = With(second, k)
  /\ Collect(pending \ {k}, second', "second", "secondLookups", "ending")
  /\ Saw
  /\ UNCHANGED <<world, attempt, initial, files, first, changes, past, reverted, mid>>

LookUpSecond(login) ==
  /\ pc = "secondLookups"
  /\ login \in pending
  /\ second' = With(second, login)
  /\ pending' = pending \ {login}
  /\ pc' = IF pending' = {} THEN "ending" ELSE pc
  /\ Saw
  /\ UNCHANGED <<world, attempt, initial, files, first, changes, past, reverted, mid>>

(* Seeded faults: only the evidence, or only the snapshot, is compared.      *)
AcceptsAnySnapshot == first = second
AcceptsAnyEvidence == SameSnapshot(initial, world.pull)

Accepts == SameSnapshot(initial, world.pull) /\ first = second

ReadEnding ==
  /\ pc = "ending"
  /\ Saw
  /\ IF Accepts THEN pc' = "loaded" /\ UNCHANGED attempt ELSE Retry
  /\ UNCHANGED <<world, initial, files, pending, first, second, changes,
                 past, reverted, mid>>

(* A gateway call rejects, a payload is not valid, or (lookups) the deadline *)
(* of 120 s passes first.                                                    *)
GatewayFails ==
  /\ \/ pc \in {"initial", "policy", "files", "final", "ending"}
     \/ pc \in Reading /\ pending # {}
  /\ pc' = "failed"
  /\ UNCHANGED <<world, attempt, initial, files, pending, first, second,
                 changes, history>>

DeadlinePasses ==
  /\ pc \in {"firstLookups", "secondLookups"} /\ pending # {}
  /\ pc' = "incomplete"
  /\ UNCHANGED <<world, attempt, initial, files, pending, first, second,
                 changes, history>>

-----------------------------------------------------------------------------
(* The world.  An edit within the second of the last one keeps updatedAt.    *)
Edits ==
  {[world EXCEPT !.pull = [head |-> h, text |-> t, stamp |-> world.pull.stamp + s]]
     : h \in Head, t \in Text, s \in {0, 1}}
    \cup {[world EXCEPT !.checks[h] = v] : h \in Head, v \in Value}
    \cup {[world EXCEPT !.reviews = R] : R \in SUBSET Login}
    \cup {[world EXCEPT !.links = v] : v \in Value}
    \cup {[world EXCEPT !.permission[l] = v] : l \in Login, v \in Value}

(* Whether in world w some part has a value it had, and lost, before. *)
Reverts(w) ==
  \E v \in past :
    \/ w.pull # world.pull /\ v.pull = w.pull
    \/ \E h \in Head : w.checks[h] # world.checks[h] /\ v.checks[h] = w.checks[h]
    \/ w.reviews # world.reviews /\ v.reviews = w.reviews
    \/ w.links # world.links /\ v.links = w.links
    \/ \E l \in Login : /\ w.permission[l] # world.permission[l]
                        /\ v.permission[l] = w.permission[l]

Change ==
  /\ pc \in Reading
  /\ changes < MaxChanges
  /\ changes' = changes + 1
  /\ world' \in Edits \ {world}
  /\ past' = past \cup {world'}
  /\ reverted' = (reverted \/ Reverts(world'))
  /\ UNCHANGED <<loader, mid, pulls>>

Init ==
  /\ world \in InitialWorlds
  /\ pc = "initial" /\ attempt = 1
  /\ initial = Nothing /\ files = Nothing /\ pending = {}
  /\ first = NoEvidence /\ second = NoEvidence
  /\ changes = 0
  /\ past = {} /\ reverted = FALSE /\ mid = Nothing /\ pulls = {}

Load ==
  \/ Start
  \/ ReadPolicy
  \/ ReadFiles
  \/ \E k \in Kind : ReadFirst(k) \/ ReadSecond(k)
  \/ \E l \in Login : LookUpFirst(l) \/ LookUpSecond(l)
  \/ ReadFinal
  \/ ReadEnding
  \/ GatewayFails
  \/ DeadlinePasses

Next == Load \/ Change

(* Every gateway call is answered or rejected: requests carry an abort       *)
(* timeout.  Nothing is assumed of the world.                                *)
Spec == Init /\ [][Next]_vars /\ WF_vars(Load)

-----------------------------------------------------------------------------
(* Properties *)

(* Every variable holds a value of its declared type.                        *)
TypeOK ==
  /\ world \in World
  /\ pc \in Reading \cup Outcome
  /\ attempt \in 1 .. MaxAttempts
  /\ initial \in Pull \cup {Nothing}
  /\ files \in Head \cup {Nothing}
  /\ pending \subseteq Kind \cup Login
  /\ DOMAIN first \subseteq Kind \cup Login
  /\ DOMAIN second \subseteq Kind \cup Login
  /\ changes \in 0 .. MaxChanges

(* What is returned was true at one instant: snapshot, file list, checks,    *)
(* reviews, linked issues and permissions are those of the world at the      *)
(* moment the snapshot between the two evidence readings was read, unless    *)
(* something changed and changed back while the attempt ran.                 *)
AtomicSnapshot ==
  pc = "loaded" /\ ~reverted =>
    /\ initial = mid.pull
    /\ files = mid.pull.head
    /\ LET kinds == NeedsOf[<<mid.pull.text, mid.pull.head>>] IN
         DOMAIN second =
           kinds \cup (IF "reviews" \in kinds THEN mid.reviews ELSE {})
    /\ \A k \in DOMAIN second : second[k] = Answer(mid, k)

(* No evidence is paired with a pull request it was not read under: at every *)
(* read of the attempt the pull request was the one that is returned.        *)
PairedWithHead ==
  pc = "loaded" /\ ~reverted => pulls = {initial}

(* An attempt is given up only because the world changed while it ran: a     *)
(* quiet repository is never reported as a changing one.                     *)
RetryIsJustified ==
  [][(pc \in {"final", "ending"} /\ pc' \in {"initial", "changed"})
       => (past # {world})]_vars

(* However the world keeps changing, the load ends.                          *)
LoadEnds == <>(pc \in Outcome)
=============================================================================
