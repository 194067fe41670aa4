----------------------- MODULE PullRequestLoaderProofs -----------------------
(***************************************************************************)
(* Theorems about PullRequestLoader for any repository, any policy and any *)
(* number of changes.                                                      *)
(***************************************************************************)
EXTENDS PullRequestLoader, FiniteSetTheorems, TLAPS

(* An attempt has read its initial snapshot.                                 *)
Underway == pc \in Reading \ {"initial"}

(* A reading holds, under each name, what some moment of the attempt held.   *)
Held(e) ==
  /\ e = [k \in DOMAIN e |-> e[k]]
  /\ DOMAIN e \subseteq Kind \cup Login
  /\ \A k \in DOMAIN e : \E v \in past : e[k] = Answer(v, k)

ReadSoFar ==
  Underway =>
    /\ initial \in Pull
    /\ world \in past /\ past \subseteq World
    /\ \A p \in pulls : \E v \in past : p = v.pull
    /\ initial \in pulls
    /\ pc \notin {"policy", "files"} => \E p \in pulls : files = p.head
    /\ Held(first) /\ Held(second)
    /\ pc \in {"policy", "files"} => first = NoEvidence
    /\ pc \in {"policy", "files", "first", "firstLookups", "final"} =>
         second = NoEvidence

(* A pull request that was not the initial one rules it out for good: it     *)
(* could come back only by a change back.                                    *)
PullMoved ==
  Underway /\ ~reverted =>
    \A p \in pulls : p # initial => world.pull # initial

(* What a reading still lacks is pending.                                    *)
Complete(e) == DOMAIN e = Needs \cup Reviewers(e)

Collected ==
  /\ pc = "first" => DOMAIN first \cup pending = Needs
  /\ pc = "firstLookups" => DOMAIN first \cup pending = Needs \cup Reviewers(first)
  /\ pc \in {"final", "second", "secondLookups", "ending"} => Complete(first)
  /\ pc = "second" => DOMAIN second \cup pending = Needs
  /\ pc = "secondLookups" =>
       DOMAIN second \cup pending = Needs \cup Reviewers(second)
  /\ pc = "ending" => Complete(second)

(* What the first reading had and the world had no longer at the final       *)
(* snapshot, the second reading does not have either.                        *)
LostForGood ==
  pc \in {"second", "secondLookups", "ending"} =>
    /\ mid \in past /\ mid.pull = initial
    /\ ~reverted =>
         \A k \in DOMAIN first : first[k] # Answer(mid, k) =>
           /\ first[k] # Answer(world, k)
           /\ k \in DOMAIN second => second[k] # first[k]

Inv ==
  /\ TypeOK /\ ReadSoFar /\ PullMoved /\ Collected /\ LostForGood
  /\ AtomicSnapshot /\ PairedWithHead

-----------------------------------------------------------------------------
LEMMA AnswerCases ==
  ASSUME NEW w
  PROVE  /\ Answer(w, "checks") = w.checks[initial.head]
         /\ Answer(w, "reviews") = w.reviews
         /\ Answer(w, "links") = w.links
         /\ \A l \in Login : Answer(w, l) = w.permission[l]
<1>1. \A l \in Login : l # "checks" /\ l # "reviews" /\ l # "links"
  BY LoaderAssumption DEF Kind
<1>2. "checks" \notin Login /\ "reviews" \notin Login /\ "links" \notin Login
  BY LoaderAssumption DEF Kind
<1>3. QED BY <1>1, <1>2 DEF Answer

(* An answer that a world gives again was lost in between.                   *)
LEMMA AnswerReverts ==
  ASSUME NEW k \in Kind \cup Login, initial \in Pull, NEW v \in past, NEW w,
         Answer(w, k) # Answer(world, k), Answer(v, k) = Answer(w, k)
  PROVE  Reverts(w)
<1>1. initial.head \in Head
  BY DEF Pull
<1>2. CASE k = "checks"
  <2>1. /\ w.checks[initial.head] # world.checks[initial.head]
        /\ v.checks[initial.head] = w.checks[initial.head]
    BY <1>2, AnswerCases
  <2>2. QED BY <1>1, <2>1 DEF Reverts
<1>3. CASE k = "reviews"
  <2>1. w.reviews # world.reviews /\ v.reviews = w.reviews
    BY <1>3, AnswerCases
  <2>2. QED BY <2>1 DEF Reverts
<1>4. CASE k = "links"
  <2>1. w.links # world.links /\ v.links = w.links
    BY <1>4, AnswerCases
  <2>2. QED BY <2>1 DEF Reverts
<1>5. CASE k \in Login
  <2>1. w.permission[k] # world.permission[k] /\ v.permission[k] = w.permission[k]
    BY <1>5, AnswerCases
  <2>2. QED BY <1>5, <2>1 DEF Reverts
<1>6. QED BY <1>2, <1>3, <1>4, <1>5 DEF Kind

LEMMA ReviewersAre ==
  ASSUME NEW e, Held(e), past \subseteq World
  PROVE  /\ Reviewers(e) \subseteq Login
         /\ "reviews" \in DOMAIN e =>
              \E v \in past : Reviewers(e) = v.reviews
<1>1. ASSUME "reviews" \in DOMAIN e
      PROVE  \E v \in past : Reviewers(e) = v.reviews /\ v.reviews \subseteq Login
  <2>1. PICK v \in past : e["reviews"] = Answer(v, "reviews")
    BY <1>1 DEF Held
  <2>2. e["reviews"] = v.reviews
    BY <2>1, AnswerCases
  <2>3. Reviewers(e) = v.reviews
    BY <1>1, <2>2 DEF Reviewers
  <2>4. v.reviews \subseteq Login
    BY DEF World
  <2>5. QED BY <2>3, <2>4
<1>2. ASSUME "reviews" \notin DOMAIN e PROVE Reviewers(e) = {}
  BY <1>2 DEF Reviewers
<1>3. QED BY <1>1, <1>2

LEMMA NeedsAreKinds ==
  ASSUME NEW t \in Text, NEW h \in Head PROVE NeedsOf[<<t, h>>] \subseteq Kind
BY LoaderAssumption

(* One more answer.                                                          *)
LEMMA HeldWith ==
  ASSUME NEW e, Held(e), NEW k \in Kind \cup Login, world \in past
  PROVE  /\ Held(With(e, k))
         /\ DOMAIN With(e, k) = DOMAIN e \cup {k}
         /\ With(e, k)[k] = Answer(world, k)
         /\ \A j \in DOMAIN e : j # k => With(e, k)[j] = e[j]
<1> DEFINE f == With(e, k)
<1>1. /\ DOMAIN f = DOMAIN e \cup {k} /\ f = [j \in DOMAIN f |-> f[j]]
      /\ f[k] = Answer(world, k)
      /\ \A j \in DOMAIN e : j # k => f[j] = e[j]
  BY DEF With
<1> HIDE DEF f
<1>2. \A j \in DOMAIN f : \E v \in past : f[j] = Answer(v, j)
  BY <1>1 DEF Held
<1>3. QED BY <1>1, <1>2 DEF Held, f

LEMMA LoginKeepsReviewers ==
  ASSUME NEW e, NEW l \in Login
  PROVE  Reviewers(With(e, l)) = Reviewers(e)
<1>1. l # "reviews"
  BY LoaderAssumption DEF Kind
<1>2. QED BY <1>1 DEF Reviewers, With

(* Where collectEvidence stands after one more answer.                       *)
LEMMA CollectGoesOn ==
  ASSUME NEW reads, NEW e, NEW gather, NEW lookups, NEW next,
         Collect(reads, e, gather, lookups, next)
  PROVE  \/ pc' = gather /\ pending' = reads
         \/ pc' = "incomplete" /\ pending' \subseteq Reviewers(e)
         \/ reads = {} /\ pc' = lookups /\ pending' = Reviewers(e)
         \/ reads = {} /\ pc' = next /\ pending' = {} /\ Reviewers(e) = {}
BY DEF Collect

-----------------------------------------------------------------------------
(* What the actions have in common *)

(* Reading the pull request once more tells nothing against it, or rules it  *)
(* out.                                                                      *)
LEMMA SawKeeps ==
  ASSUME Inv, Underway, Saw, UNCHANGED <<world, initial, past, reverted>>
  PROVE  /\ initial' \in Pull /\ world' \in past' /\ past' \subseteq World
         /\ \A p \in pulls' : \E v \in past' : p = v.pull
         /\ initial' \in pulls' /\ pulls \subseteq pulls'
         /\ PullMoved'
<1>1. /\ initial \in Pull /\ world \in past /\ past \subseteq World
      /\ \A p \in pulls : \E v \in past : p = v.pull
      /\ initial \in pulls
  BY DEF Inv, ReadSoFar
<1>2. pulls' = pulls \cup {world.pull}
  BY DEF Saw
<1>3. ~reverted => \A p \in pulls : p # initial => world.pull # initial
  BY DEF Inv, PullMoved
<1>4. PullMoved'
  BY <1>2, <1>3 DEF PullMoved
<1>5. QED BY <1>1, <1>2, <1>4

LEMMA SameHeld ==
  ASSUME UNCHANGED initial, past \subseteq past', NEW e, Held(e)
  PROVE  /\ e = [k \in DOMAIN e |-> e[k]]
         /\ DOMAIN e \subseteq Kind \cup Login
         /\ \A k \in DOMAIN e : \E v \in past' : e[k] = Answer(v, k)'
<1>1. ASSUME NEW k \in DOMAIN e PROVE \E v \in past' : e[k] = Answer(v, k)'
  <2>1. PICK v \in past : e[k] = Answer(v, k)
    BY DEF Held
  <2>2. Answer(v, k)' = Answer(v, k)
    BY DEF Answer
  <2>3. QED BY <2>1, <2>2
<1>2. QED BY <1>1 DEF Held

(* The files belong to a head, so the policy's needs are kinds of evidence.  *)
LEMMA FilesKnown ==
  ASSUME Inv, Underway, pc \notin {"policy", "files"}
  PROVE  files \in Head /\ initial.text \in Text /\ Needs \subseteq Kind
<1>1. PICK p \in pulls : files = p.head
  BY DEF Inv, ReadSoFar
<1>2. PICK v \in past : p = v.pull
  BY <1>1 DEF Inv, ReadSoFar
<1>3. v \in World /\ initial \in Pull
  BY <1>2 DEF Inv, ReadSoFar
<1>4. files \in Head /\ initial.text \in Text
  BY <1>1, <1>2, <1>3 DEF World, Pull
<1>5. QED BY <1>4, NeedsAreKinds DEF Needs

LEMMA StartKeeps == ASSUME Inv, Start PROVE Inv'
<1> USE DEF Start
<1>1. world \in World /\ initial' = world.pull /\ initial' \in Pull
  BY DEF Inv, TypeOK, World
<1>2. TypeOK'
  BY <1>1 DEF Inv, TypeOK, Reading, NoEvidence
<1>3. ReadSoFar'
  BY <1>1 DEF ReadSoFar, Held, NoEvidence
<1>4. (PullMoved /\ Collected /\ LostForGood)'
  BY DEF PullMoved, Collected, LostForGood
<1>5. (AtomicSnapshot /\ PairedWithHead)'
  BY DEF AtomicSnapshot, PairedWithHead
<1>6. QED BY <1>2, <1>3, <1>4, <1>5 DEF Inv

LEMMA ReadPolicyKeeps == ASSUME Inv, ReadPolicy PROVE Inv'
<1>1. /\ pc = "policy" /\ pc' = "files"
      /\ UNCHANGED <<world, attempt, initial, files, pending, first, second,
                     changes, past, reverted, mid, pulls>>
  BY DEF ReadPolicy, history
<1>2. TypeOK'
  BY <1>1 DEF Inv, TypeOK, Reading
<1>3. Held(first)' /\ Held(second)'
  BY <1>1, SameHeld DEF Inv, ReadSoFar, Held, Underway, Reading
<1>4. ReadSoFar'
  BY <1>1, <1>3 DEF Inv, ReadSoFar, Underway, Reading
<1>5. (PullMoved /\ Collected /\ LostForGood /\ AtomicSnapshot /\ PairedWithHead)'
  BY <1>1 DEF Inv, PullMoved, Underway, Reading, Collected, LostForGood,
              AtomicSnapshot, PairedWithHead
<1>6. QED BY <1>2, <1>4, <1>5 DEF Inv

(* A step that adds to a reading is right if it keeps the account of what is *)
(* pending (and, in the second reading, of what was lost).                   *)
LEMMA ReadingKeeps ==
  ASSUME Inv, Underway, Saw,
         UNCHANGED <<world, initial, changes, past, reverted>>,
         attempt' \in 1 .. MaxAttempts,
         pc' \in (Reading \ {"initial", "policy", "files"}) \cup {"incomplete"},
         Held(first'), Held(second'),
         pc' \in {"first", "firstLookups", "final"} => second' = NoEvidence,
         \E p \in pulls' : files' = p.head,
         pending' \subseteq Kind \cup Login,
         Collected', LostForGood'
  PROVE  Inv'
<1>1. /\ initial' \in Pull /\ world' \in past' /\ past' \subseteq World
      /\ \A p \in pulls' : \E v \in past' : p = v.pull
      /\ initial' \in pulls'
      /\ PullMoved'
  BY SawKeeps
<1>2. files' \in Head
  BY <1>1 DEF World, Pull
<1>3. Held(first)' /\ Held(second)'
  BY SameHeld DEF Held
<1>4. TypeOK'
  BY <1>2 DEF Inv, TypeOK, Held, Reading, Outcome
<1>5. ReadSoFar'
  BY <1>1, <1>3 DEF ReadSoFar, Underway, Reading
<1>6. (AtomicSnapshot /\ PairedWithHead)'
  BY DEF AtomicSnapshot, PairedWithHead, Reading
<1>7. QED BY <1>1, <1>4, <1>5, <1>6 DEF Inv

LEMMA ReadFilesKeeps == ASSUME Inv, ReadFiles PROVE Inv'
<1> DEFINE needs == NeedsOf[<<initial.text, files'>>]
<1>1. /\ pc = "files" /\ files' = world.pull.head /\ Saw
      /\ Collect(needs, NoEvidence, "first", "firstLookups", "final")
      /\ UNCHANGED <<world, attempt, initial, first, second, changes, past,
                     reverted, mid>>
  BY DEF ReadFiles
<1>2. Underway
  BY <1>1 DEF Underway, Reading
<1>3. /\ initial \in Pull /\ world \in past /\ past \subseteq World
      /\ first = NoEvidence /\ second = NoEvidence
      /\ Held(first) /\ Held(second)
  BY <1>1, <1>2 DEF Inv, ReadSoFar
<1>4. needs \subseteq Kind
  BY <1>1, <1>3, NeedsAreKinds DEF World, Pull
<1>5. DOMAIN NoEvidence = {} /\ Reviewers(NoEvidence) = {}
  BY DEF NoEvidence, Reviewers
<1>6. Needs' = needs /\ Reviewers(first)' = {} /\ DOMAIN first' = {}
  BY <1>1, <1>3, <1>5 DEF Needs
<1>7. \/ pc' = "first" /\ pending' = needs
      \/ pc' = "incomplete" /\ pending' \subseteq {}
      \/ needs = {} /\ pc' \in {"firstLookups", "final"} /\ pending' = {}
  BY <1>1, <1>5, CollectGoesOn
<1>8. Collected' /\ LostForGood'
  BY <1>6, <1>7 DEF Collected, LostForGood, Complete
<1>9. pending' \subseteq Kind
  BY <1>4, <1>7
<1>10. \E p \in pulls' : files' = p.head
  BY <1>1 DEF Saw
<1>11. attempt' \in 1 .. MaxAttempts
  BY <1>1 DEF Inv, TypeOK
<1>12. pc' \in (Reading \ {"initial", "policy", "files"}) \cup {"incomplete"}
  BY <1>7 DEF Reading
<1>13. QED
  BY <1>1, <1>2, <1>3, <1>8, <1>9, <1>10, <1>11, <1>12, ReadingKeeps

LEMMA ReadFirstKeeps == ASSUME Inv, NEW k, ReadFirst(k) PROVE Inv'
<1>1. /\ pc = "first" /\ k \in pending /\ first' = With(first, k) /\ Saw
      /\ Collect(pending \ {k}, first', "first", "firstLookups", "final")
      /\ UNCHANGED <<world, attempt, initial, files, second, changes, past,
                     reverted, mid>>
  BY DEF ReadFirst
<1>2. Underway
  BY <1>1 DEF Underway, Reading
<1>3. /\ world \in past /\ past \subseteq World
      /\ Held(first) /\ Held(second) /\ second = NoEvidence
      /\ \E p \in pulls' : files' = p.head
  BY <1>1, <1>2, SawKeeps DEF Inv, ReadSoFar
<1>4. DOMAIN first \cup pending = Needs /\ Needs \subseteq Kind
  BY <1>1, <1>2, FilesKnown DEF Inv, Collected
<1>5. Held(first') /\ DOMAIN first' = DOMAIN first \cup {k}
  BY <1>1, <1>3, <1>4, HeldWith
<1>6. DOMAIN first' \cup (pending \ {k}) = Needs
  BY <1>1, <1>4, <1>5
<1>7. Reviewers(first') \subseteq Login
  BY <1>3, <1>5, ReviewersAre
<1>8. Needs' = Needs /\ Reviewers(first)' = Reviewers(first')
  BY <1>1 DEF Needs, Reviewers
<1>9. \/ pc' = "first" /\ pending' = pending \ {k}
      \/ pc' = "incomplete" /\ pending' \subseteq Reviewers(first')
      \/ pending \ {k} = {} /\ pc' = "firstLookups" /\ pending' = Reviewers(first')
      \/ pending \ {k} = {} /\ pc' = "final" /\ pending' = {} /\ Reviewers(first') = {}
  BY <1>1, CollectGoesOn
<1>10. Collected' /\ LostForGood'
  BY <1>6, <1>8, <1>9 DEF Collected, LostForGood, Complete
<1>11. pending' \subseteq Kind \cup Login
  BY <1>4, <1>7, <1>9
<1>12. pc' \in (Reading \ {"initial", "policy", "files"}) \cup {"incomplete"}
  BY <1>9 DEF Reading
<1>13. attempt' \in 1 .. MaxAttempts
  BY <1>1 DEF Inv, TypeOK
<1>14. QED
  BY <1>1, <1>2, <1>3, <1>5, <1>10, <1>11, <1>12, <1>13, ReadingKeeps

LEMMA LookUpFirstKeeps == ASSUME Inv, NEW l \in Login, LookUpFirst(l) PROVE Inv'
<1>1. /\ pc = "firstLookups" /\ l \in pending /\ first' = With(first, l) /\ Saw
      /\ pending' = pending \ {l}
      /\ pc' = IF pending' = {} THEN "final" ELSE pc
      /\ UNCHANGED <<world, attempt, initial, files, second, changes, past,
                     reverted, mid>>
  BY DEF LookUpFirst
<1>2. Underway
  BY <1>1 DEF Underway, Reading
<1>3. /\ world \in past /\ Held(first) /\ Held(second) /\ second = NoEvidence
      /\ \E p \in pulls' : files' = p.head
  BY <1>1, <1>2, SawKeeps DEF Inv, ReadSoFar
<1>4. DOMAIN first \cup pending = Needs \cup Reviewers(first)
  BY <1>1 DEF Inv, Collected
<1>5. Held(first') /\ DOMAIN first' = DOMAIN first \cup {l}
  BY <1>1, <1>3, HeldWith
<1>6. Reviewers(first') = Reviewers(first)
  BY <1>1, LoginKeepsReviewers
<1>7. DOMAIN first' \cup pending' = Needs \cup Reviewers(first')
  BY <1>1, <1>4, <1>5, <1>6
<1>8. Needs' = Needs /\ Reviewers(first)' = Reviewers(first')
  BY <1>1 DEF Needs, Reviewers
<1>9. Collected' /\ LostForGood'
  BY <1>1, <1>7, <1>8 DEF Collected, LostForGood, Complete
<1>10. pending' \subseteq Kind \cup Login /\ attempt' \in 1 .. MaxAttempts
  BY <1>1 DEF Inv, TypeOK
<1>11. pc' \in (Reading \ {"initial", "policy", "files"}) \cup {"incomplete"}
  BY <1>1 DEF Reading
<1>12. QED
  BY <1>1, <1>2, <1>3, <1>5, <1>9, <1>10, <1>11, ReadingKeeps

(* A step that ends the attempt claims nothing.                              *)
LEMMA EndKeeps ==
  ASSUME Inv, pc' \in {"initial", "changed", "incomplete", "failed"},
         UNCHANGED <<world, initial, files, first, second, changes>>,
         attempt' \in 1 .. MaxAttempts, pending' \subseteq Kind \cup Login
  PROVE  Inv'
<1>1. TypeOK'
  BY DEF Inv, TypeOK, Reading, Outcome
<1>2. (ReadSoFar /\ PullMoved /\ Collected /\ LostForGood)'
  BY DEF ReadSoFar, PullMoved, Collected, LostForGood, Underway, Reading
<1>3. (AtomicSnapshot /\ PairedWithHead)'
  BY DEF AtomicSnapshot, PairedWithHead
<1>4. QED BY <1>1, <1>2, <1>3 DEF Inv

LEMMA RetryEnds ==
  ASSUME Inv, Retry
  PROVE  pc' \in {"initial", "changed"} /\ attempt' \in 1 .. MaxAttempts
BY LoaderAssumption DEF Inv, TypeOK, Retry

LEMMA ReadFinalKeeps == ASSUME Inv, ReadFinal PROVE Inv'
<1>1. /\ pc = "final" /\ mid' = world /\ Saw
      /\ UNCHANGED <<world, initial, files, first, second, changes, past, reverted>>
  BY DEF ReadFinal
<1>2. Underway
  BY <1>1 DEF Underway, Reading
<1>3. /\ world \in past /\ past \subseteq World
      /\ Held(first) /\ Held(second) /\ second = NoEvidence
      /\ \E p \in pulls' : files' = p.head
  BY <1>1, <1>2, SawKeeps DEF Inv, ReadSoFar
<1>4. CASE SameSnapshot(initial, world.pull)
  <2>1. /\ Collect(Needs, NoEvidence, "second", "secondLookups", "ending")
        /\ UNCHANGED attempt /\ world.pull = initial
    BY <1>4 DEF ReadFinal, SameSnapshot
  <2>2. DOMAIN NoEvidence = {} /\ Reviewers(NoEvidence) = {}
    BY DEF NoEvidence, Reviewers
  <2>3. \/ pc' = "second" /\ pending' = Needs
        \/ pc' = "incomplete" /\ pending' \subseteq {}
        \/ Needs = {} /\ pc' \in {"secondLookups", "ending"} /\ pending' = {}
    BY <2>1, <2>2, CollectGoesOn
  <2>4. /\ Needs' = Needs /\ Reviewers(first)' = Reviewers(first)
        /\ Reviewers(second)' = {} /\ DOMAIN second' = {}
    BY <1>1, <1>3, <2>2 DEF Needs, Reviewers
  <2>5. Collected'
    BY <1>1, <2>3, <2>4 DEF Inv, Collected, Complete
  <2>6. LostForGood'
    <3>1. \A k : Answer(mid, k)' = Answer(world, k)'
      BY <1>1 DEF Answer
    <3>2. mid' \in past' /\ mid'.pull = initial'
      BY <1>1, <1>3, <2>1
    <3>3. QED BY <2>4, <3>1, <3>2 DEF LostForGood
  <2>7. pending' \subseteq Kind \cup Login
    BY <1>1, <1>2, <2>3, FilesKnown
  <2>8. pc' \in {"second", "secondLookups", "ending", "incomplete"}
    BY <2>3
  <2>9. attempt' \in 1 .. MaxAttempts
    BY <2>1 DEF Inv, TypeOK
  <2>10. QED
    BY <1>1, <1>2, <1>3, <2>5, <2>6, <2>7, <2>8, <2>9, ReadingKeeps DEF Reading
<1>5. CASE ~SameSnapshot(initial, world.pull)
  <2>1. Retry /\ UNCHANGED pending
    BY <1>5 DEF ReadFinal
  <2>2. QED BY <1>1, <2>1, RetryEnds, EndKeeps DEF Inv, TypeOK
<1>6. QED BY <1>4, <1>5

(* What is lost stays lost when the second reading gains an answer.          *)
LEMMA LostOnAnswer ==
  ASSUME Inv, pc \in {"second", "secondLookups"}, Held(second),
         NEW k \in Kind \cup Login, second' = With(second, k), world \in past,
         UNCHANGED <<world, initial, first, past, reverted, mid>>
  PROVE  LostForGood'
<1>1. /\ mid \in past /\ mid.pull = initial
      /\ ~reverted =>
           \A j \in DOMAIN first : first[j] # Answer(mid, j) =>
             /\ first[j] # Answer(world, j)
             /\ j \in DOMAIN second => second[j] # first[j]
  BY DEF Inv, LostForGood
<1>2. /\ DOMAIN second' = DOMAIN second \cup {k}
      /\ second'[k] = Answer(world, k)
      /\ \A j \in DOMAIN second : j # k => second'[j] = second[j]
  BY HeldWith
<1>3. \A j : Answer(mid, j)' = Answer(mid, j) /\ Answer(world, j)' = Answer(world, j)
  BY DEF Answer
<1>4. ASSUME ~reverted, NEW j \in DOMAIN first, first[j] # Answer(mid, j)
      PROVE  /\ first[j] # Answer(world, j)
             /\ j \in DOMAIN second' => second'[j] # first[j]
  BY <1>1, <1>2, <1>4
<1>5. QED BY <1>1, <1>3, <1>4 DEF LostForGood

LEMMA ReadSecondKeeps == ASSUME Inv, NEW k, ReadSecond(k) PROVE Inv'
<1>1. /\ pc = "second" /\ k \in pending /\ second' = With(second, k) /\ Saw
      /\ Collect(pending \ {k}, second', "second", "secondLookups", "ending")
      /\ UNCHANGED <<world, attempt, initial, files, first, changes, past,
                     reverted, mid>>
  BY DEF ReadSecond
<1>2. Underway
  BY <1>1 DEF Underway, Reading
<1>3. /\ world \in past /\ past \subseteq World /\ Held(first) /\ Held(second)
      /\ \E p \in pulls' : files' = p.head
  BY <1>1, <1>2, SawKeeps DEF Inv, ReadSoFar
<1>4. DOMAIN second \cup pending = Needs /\ Needs \subseteq Kind /\ Complete(first)
  BY <1>1, <1>2, FilesKnown DEF Inv, Collected
<1>5. Held(second') /\ DOMAIN second' = DOMAIN second \cup {k}
  BY <1>1, <1>3, <1>4, HeldWith
<1>6. DOMAIN second' \cup (pending \ {k}) = Needs
  BY <1>1, <1>4, <1>5
<1>7. Reviewers(second') \subseteq Login
  BY <1>3, <1>5, ReviewersAre
<1>8. /\ Needs' = Needs /\ Reviewers(second)' = Reviewers(second')
      /\ Complete(first)'
  BY <1>1, <1>4 DEF Needs, Reviewers, Complete
<1>9. \/ pc' = "second" /\ pending' = pending \ {k}
      \/ pc' = "incomplete" /\ pending' \subseteq Reviewers(second')
      \/ pending \ {k} = {} /\ pc' = "secondLookups" /\ pending' = Reviewers(second')
      \/ pending \ {k} = {} /\ pc' = "ending" /\ pending' = {} /\ Reviewers(second') = {}
  BY <1>1, CollectGoesOn
<1>10. Collected'
  BY <1>6, <1>8, <1>9 DEF Collected, Complete
<1>11. LostForGood'
  BY <1>1, <1>3, <1>4, LostOnAnswer
<1>12. pending' \subseteq Kind \cup Login
  BY <1>4, <1>7, <1>9
<1>13. pc' \in {"second", "secondLookups", "ending", "incomplete"}
  BY <1>9
<1>14. attempt' \in 1 .. MaxAttempts
  BY <1>1 DEF Inv, TypeOK
<1>15. QED
  BY <1>1, <1>2, <1>3, <1>5, <1>10, <1>11, <1>12, <1>13, <1>14, ReadingKeeps
  DEF Reading

LEMMA LookUpSecondKeeps == ASSUME Inv, NEW l \in Login, LookUpSecond(l) PROVE Inv'
<1>1. /\ pc = "secondLookups" /\ l \in pending /\ second' = With(second, l) /\ Saw
      /\ pending' = pending \ {l}
      /\ pc' = IF pending' = {} THEN "ending" ELSE pc
      /\ UNCHANGED <<world, attempt, initial, files, first, changes, past,
                     reverted, mid>>
  BY DEF LookUpSecond
<1>2. Underway
  BY <1>1 DEF Underway, Reading
<1>3. /\ world \in past /\ Held(first) /\ Held(second)
      /\ \E p \in pulls' : files' = p.head
  BY <1>1, <1>2, SawKeeps DEF Inv, ReadSoFar
<1>4. DOMAIN second \cup pending = Needs \cup Reviewers(second) /\ Complete(first)
  BY <1>1 DEF Inv, Collected
<1>5. Held(second') /\ DOMAIN second' = DOMAIN second \cup {l}
  BY <1>1, <1>3, HeldWith
<1>6. Reviewers(second') = Reviewers(second)
  BY <1>1, LoginKeepsReviewers
<1>7. DOMAIN second' \cup pending' = Needs \cup Reviewers(second')
  BY <1>1, <1>4, <1>5, <1>6
<1>8. /\ Needs' = Needs /\ Reviewers(second)' = Reviewers(second')
      /\ Complete(first)'
  BY <1>1, <1>4 DEF Needs, Reviewers, Complete
<1>9. Collected'
  BY <1>1, <1>7, <1>8 DEF Collected, Complete
<1>10. LostForGood'
  BY <1>1, <1>3, LostOnAnswer
<1>11. pending' \subseteq Kind \cup Login /\ attempt' \in 1 .. MaxAttempts
  BY <1>1 DEF Inv, TypeOK
<1>12. pc' \in {"secondLookups", "ending"}
  BY <1>1
<1>13. QED
  BY <1>1, <1>2, <1>3, <1>5, <1>9, <1>10, <1>11, <1>12, ReadingKeeps DEF Reading

-----------------------------------------------------------------------------
(* The end of the attempt *)

(* Two equal readings around the final snapshot are that snapshot's world.   *)
LEMMA AcceptedIsHeld ==
  ASSUME Inv, pc = "ending", Accepts, ~reverted
  PROVE  /\ initial = mid.pull /\ files = mid.pull.head
         /\ pulls \cup {world.pull} = {initial}
         /\ DOMAIN second =
              NeedsOf[<<mid.pull.text, mid.pull.head>>] \cup
                (IF "reviews" \in NeedsOf[<<mid.pull.text, mid.pull.head>>]
                 THEN mid.reviews ELSE {})
         /\ \A k \in DOMAIN second : second[k] = Answer(mid, k)
<1>1. Underway
  BY DEF Underway, Reading
<1>2. /\ past \subseteq World /\ Held(second) /\ initial \in pulls
      /\ \E p \in pulls : files = p.head
  BY <1>1 DEF Inv, ReadSoFar
<1>3. world.pull = initial /\ first = second
  BY DEF Accepts, SameSnapshot
<1>4. \A p \in pulls : p = initial
  BY <1>1, <1>3 DEF Inv, PullMoved
<1>5. initial = mid.pull
  BY DEF Inv, LostForGood
<1>6. files = mid.pull.head
  BY <1>2, <1>4, <1>5
<1>7. \A k \in DOMAIN second : second[k] = Answer(mid, k)
  BY <1>3 DEF Inv, LostForGood
<1>8. Needs = NeedsOf[<<mid.pull.text, mid.pull.head>>]
  BY <1>5, <1>6 DEF Needs
<1>9. DOMAIN second = Needs \cup Reviewers(second)
  BY DEF Inv, Collected, Complete
<1>10. Reviewers(second) = IF "reviews" \in Needs THEN mid.reviews ELSE {}
  <2>1. "reviews" \notin Reviewers(second)
    BY <1>2, ReviewersAre, LoaderAssumption DEF Kind
  <2>2. "reviews" \in DOMAIN second <=> "reviews" \in Needs
    BY <1>9, <2>1
  <2>3. CASE "reviews" \in Needs
    <3>1. second["reviews"] = mid.reviews
      BY <1>7, <2>2, <2>3, AnswerCases
    <3>2. Reviewers(second) = second.reviews
      BY <2>2, <2>3 DEF Reviewers
    <3>3. QED BY <2>3, <3>1, <3>2
  <2>4. CASE "reviews" \notin Needs
    BY <2>2, <2>4 DEF Reviewers
  <2>5. QED BY <2>3, <2>4
<1>11. QED
  BY <1>2, <1>3, <1>4, <1>5, <1>6, <1>7, <1>8, <1>9, <1>10

LEMMA ReadEndingKeeps == ASSUME Inv, ReadEnding PROVE Inv'
<1>1. /\ pc = "ending" /\ Saw
      /\ UNCHANGED <<world, initial, files, pending, first, second, changes,
                     past, reverted, mid>>
  BY DEF ReadEnding
<1>2. CASE Accepts
  <2>1. pc' = "loaded" /\ UNCHANGED attempt
    BY <1>2 DEF ReadEnding
  <2>2. TypeOK'
    BY <1>1, <2>1 DEF Inv, TypeOK, Reading, Outcome
  <2>3. (ReadSoFar /\ PullMoved /\ Collected /\ LostForGood)'
    BY <2>1 DEF ReadSoFar, PullMoved, Collected, LostForGood, Underway, Reading
  <2>4. AtomicSnapshot'
    <3>1. \A k : Answer(mid, k)' = Answer(mid, k)
      BY <1>1 DEF Answer
    <3>2. QED BY <1>1, <1>2, <3>1, AcceptedIsHeld DEF AtomicSnapshot
  <2>5. PairedWithHead'
    BY <1>1, <1>2, AcceptedIsHeld DEF PairedWithHead, Saw
  <2>6. QED BY <2>2, <2>3, <2>4, <2>5 DEF Inv
<1>3. CASE ~Accepts
  <2>1. Retry
    BY <1>3 DEF ReadEnding
  <2>2. QED BY <1>1, <2>1, RetryEnds, EndKeeps DEF Inv, TypeOK
<1>4. QED BY <1>2, <1>3

-----------------------------------------------------------------------------
(* The world *)

LEMMA EditsAreWorlds ==
  ASSUME world \in World, NEW w \in Edits PROVE w \in World
<1> USE DEF World, Pull
<1>1. CASE \E h \in Head, t \in Text, s \in {0, 1} :
             w = [world EXCEPT !.pull =
                    [head |-> h, text |-> t, stamp |-> world.pull.stamp + s]]
  BY <1>1
<1>2. CASE \E h \in Head, v \in Value : w = [world EXCEPT !.checks[h] = v]
  BY <1>2
<1>3. CASE \E R \in SUBSET Login : w = [world EXCEPT !.reviews = R]
  BY <1>3
<1>4. CASE \E v \in Value : w = [world EXCEPT !.links = v]
  BY <1>4
<1>5. CASE \E l \in Login, v \in Value : w = [world EXCEPT !.permission[l] = v]
  BY <1>5
<1>6. QED BY <1>1, <1>2, <1>3, <1>4, <1>5 DEF Edits

LEMMA ChangeKeeps == ASSUME Inv, Change PROVE Inv'
<1>1. /\ pc \in Reading /\ changes < MaxChanges /\ changes' = changes + 1
      /\ world' \in Edits \ {world} /\ past' = past \cup {world'}
      /\ reverted' = (reverted \/ Reverts(world'))
      /\ UNCHANGED <<pc, attempt, initial, files, pending, first, second, mid, pulls>>
  BY DEF Change, loader
<1>2. world' \in World
  BY <1>1, EditsAreWorlds DEF Inv, TypeOK
<1>3. \A w, k : Answer(w, k)' = Answer(w', k)
  BY <1>1 DEF Answer
<1>4. TypeOK'
  BY <1>1, <1>2, LoaderAssumption DEF Inv, TypeOK
<1>5. ReadSoFar'
  <2>1. SUFFICES ASSUME Underway PROVE ReadSoFar'
    BY <1>1 DEF ReadSoFar, Underway
  <2>2. ReadSoFar /\ Held(first) /\ Held(second)
    BY <2>1 DEF Inv, ReadSoFar
  <2>3. Held(first)' /\ Held(second)'
    BY <1>1, <2>2, SameHeld DEF Held
  <2>4. QED BY <1>1, <1>2, <2>1, <2>2, <2>3 DEF ReadSoFar
<1>6. PullMoved'
  <2>1. SUFFICES ASSUME Underway, ~reverted', NEW p \in pulls, p # initial,
                        world'.pull = initial
                 PROVE  FALSE
    BY <1>1 DEF PullMoved, Underway
  <2>2. world.pull # initial
    BY <1>1, <2>1 DEF Inv, PullMoved
  <2>3. PICK v \in past : v.pull = initial
    BY <2>1 DEF Inv, ReadSoFar
  <2>4. Reverts(world')
    BY <2>1, <2>2, <2>3 DEF Reverts
  <2>5. QED BY <1>1, <2>1, <2>4
<1>7. Collected'
  BY <1>1 DEF Inv, Collected, Complete, Needs, Reviewers
<1>8. LostForGood'
  <2>1. SUFFICES ASSUME pc \in {"second", "secondLookups", "ending"}
                 PROVE  LostForGood'
    BY <1>1 DEF LostForGood
  <2>2. mid \in past /\ mid.pull = initial
    BY <2>1 DEF Inv, LostForGood
  <2>3. ASSUME ~reverted', NEW k \in DOMAIN first, first[k] # Answer(mid, k)
        PROVE  /\ first[k] # Answer(world', k)
               /\ k \in DOMAIN second => second[k] # first[k]
    <3>1. /\ first[k] # Answer(world, k)
          /\ k \in DOMAIN second => second[k] # first[k]
      BY <1>1, <2>1, <2>3 DEF Inv, LostForGood
    <3>2. Held(first) /\ initial \in Pull
      BY <2>1 DEF Inv, ReadSoFar, Underway, Reading
    <3>3. PICK v \in past : first[k] = Answer(v, k)
      BY <2>3, <3>2 DEF Held
    <3>4. k \in Kind \cup Login
      BY <2>3, <3>2 DEF Held
    <3>5. first[k] = Answer(world', k) => Reverts(world')
      BY <3>1, <3>2, <3>3, <3>4, AnswerReverts
    <3>6. QED BY <1>1, <2>3, <3>1, <3>5
  <2>4. \A k : Answer(mid, k)' = Answer(mid, k) /\ Answer(world, k)' = Answer(world', k)
    BY <1>1 DEF Answer
  <2>5. QED BY <1>1, <2>2, <2>3, <2>4 DEF LostForGood
<1>9. (AtomicSnapshot /\ PairedWithHead)'
  BY <1>1 DEF AtomicSnapshot, PairedWithHead, Reading
<1>10. QED BY <1>4, <1>5, <1>6, <1>7, <1>8, <1>9 DEF Inv

-----------------------------------------------------------------------------
LEMMA InitKeeps == Init => Inv
<1> SUFFICES ASSUME Init PROVE Inv
  OBVIOUS
<1> USE DEF Init
<1>1. TypeOK
  BY LoaderAssumption DEF TypeOK, Reading, NoEvidence
<1>2. ReadSoFar /\ PullMoved /\ Collected /\ LostForGood
  BY DEF ReadSoFar, PullMoved, Collected, LostForGood, Underway
<1>3. AtomicSnapshot /\ PairedWithHead
  BY DEF AtomicSnapshot, PairedWithHead
<1>4. QED BY <1>1, <1>2, <1>3 DEF Inv

LEMMA LoadKeeps == ASSUME Inv, Load PROVE Inv'
<1>1. CASE GatewayFails \/ DeadlinePasses
  BY <1>1, EndKeeps DEF GatewayFails, DeadlinePasses, Inv, TypeOK
<1>2. QED
  BY <1>1, StartKeeps, ReadPolicyKeeps, ReadFilesKeeps, ReadFirstKeeps,
     LookUpFirstKeeps, ReadFinalKeeps, ReadSecondKeeps, LookUpSecondKeeps,
     ReadEndingKeeps
  DEF Load

LEMMA StutterKeeps == ASSUME Inv, UNCHANGED vars PROVE Inv'
<1>1. UNCHANGED <<world, pc, attempt, initial, files, pending, first, second,
                  changes, past, reverted, mid, pulls>>
  BY DEF vars, loader, history
<1>2. Needs' = Needs /\ \A w, k : Answer(w, k)' = Answer(w', k)
  BY <1>1 DEF Needs, Answer
<1>3. (TypeOK /\ PullMoved /\ Collected)'
  BY <1>1, <1>2
  DEF Inv, TypeOK, PullMoved, Underway, Collected, Complete, Reviewers
<1>4. ReadSoFar'
  <2>1. SUFFICES ASSUME Underway PROVE ReadSoFar'
    BY <1>1 DEF ReadSoFar, Underway
  <2>2. ReadSoFar
    BY DEF Inv
  <2>3. Held(first)' /\ Held(second)'
    BY <1>1, <2>1, <2>2, SameHeld DEF ReadSoFar, Held
  <2>4. QED BY <1>1, <2>1, <2>2, <2>3 DEF ReadSoFar
<1>5. (LostForGood /\ AtomicSnapshot /\ PairedWithHead)'
  BY <1>1 DEF Inv, LostForGood, AtomicSnapshot, PairedWithHead, Answer
<1>6. QED BY <1>3, <1>4, <1>5 DEF Inv

LEMMA InvAlways == Spec => []Inv
<1>1. Inv /\ [Next]_vars => Inv'
  BY LoadKeeps, ChangeKeeps, StutterKeeps DEF Next
<1>2. QED BY <1>1, InitKeeps, PTL DEF Spec

(* Every variable of the loader keeps its type.                              *)
THEOREM LoaderTypeCorrect == Spec => []TypeOK
<1>1. Inv => TypeOK
  BY DEF Inv
<1>2. QED BY <1>1, InvAlways, PTL

(* What loadGitHubPullRequest returns was true at one instant, whatever      *)
(* changed while it ran, if nothing changed and changed back.                *)
THEOREM LoadedIsAtomic == Spec => []AtomicSnapshot
<1>1. Inv => AtomicSnapshot
  BY DEF Inv
<1>2. QED BY <1>1, InvAlways, PTL

(* Under the same proviso no evidence was read under another pull request.   *)
THEOREM LoadedIsPaired == Spec => []PairedWithHead
<1>1. Inv => PairedWithHead
  BY DEF Inv
<1>2. QED BY <1>1, InvAlways, PTL

(* Equal readings are made of equal answers: while nothing changes, the      *)
(* snapshots and the evidence of an attempt agree.                           *)
LEMMA QuietAgrees ==
  ASSUME Inv, pc \in {"final", "ending"}, past = {world}
  PROVE  initial = world.pull /\ (pc = "ending" => first = second)
<1>1. Underway
  BY DEF Underway, Reading
<1>2. /\ initial = world.pull /\ past \subseteq World
      /\ Held(first) /\ Held(second)
  BY <1>1 DEF Inv, ReadSoFar
<1>3. ASSUME NEW e, Held(e), Complete(e)
      PROVE  /\ \A k \in DOMAIN e : e[k] = Answer(world, k)
             /\ DOMAIN e = Needs \cup
                  (IF "reviews" \in Needs THEN world.reviews ELSE {})
  <2>1. \A k \in DOMAIN e : e[k] = Answer(world, k)
    BY <1>3 DEF Held
  <2>2. "reviews" \in DOMAIN e <=> "reviews" \in Needs
    <3>1. "reviews" \notin Reviewers(e)
      BY <1>2, <1>3, ReviewersAre, LoaderAssumption DEF Kind
    <3>2. QED BY <1>3, <3>1 DEF Complete
  <2>3. "reviews" \in DOMAIN e => Reviewers(e) = world.reviews
    BY <1>2, <1>3, ReviewersAre
  <2>4. "reviews" \notin DOMAIN e => Reviewers(e) = {}
    BY DEF Reviewers
  <2>5. QED BY <1>3, <2>1, <2>2, <2>3, <2>4 DEF Complete
<1>4. ASSUME pc = "ending" PROVE first = second
  <2>1. Complete(first) /\ Complete(second)
    BY <1>4 DEF Inv, Collected
  <2>2. DOMAIN first = DOMAIN second
        /\ \A k \in DOMAIN first : first[k] = second[k]
    BY <1>2, <1>3, <2>1
  <2>3. first = [k \in DOMAIN first |-> first[k]]
        /\ second = [k \in DOMAIN second |-> second[k]]
    BY <1>2 DEF Held
  <2>4. QED BY <2>2, <2>3
<1>5. QED BY <1>2, <1>4

LEMMA NextJustified ==
  ASSUME Inv, [Next]_vars, pc \in {"final", "ending"}, pc' \in {"initial", "changed"}
  PROVE  past # {world}
<1>1. SUFFICES ASSUME past = {world} PROVE FALSE
  OBVIOUS
<1>2. ReadFinal \/ ReadEnding
  BY DEF Next, Load, Start, ReadPolicy, ReadFiles, ReadFirst, ReadSecond,
         LookUpFirst, LookUpSecond, GatewayFails, DeadlinePasses, Change,
         loader, vars
<1>3. CASE ReadFinal
  <2>1. pc = "final" /\ SameSnapshot(initial, world.pull)
    BY <1>1, <1>3, QuietAgrees DEF ReadFinal, SameSnapshot
  <2>2. Collect(Needs, NoEvidence, "second", "secondLookups", "ending")
    BY <1>3, <2>1 DEF ReadFinal
  <2>3. QED BY <2>2 DEF Collect
<1>4. CASE ReadEnding
  <2>1. Accepts
    BY <1>1, <1>4, QuietAgrees DEF ReadEnding, Accepts, SameSnapshot
  <2>2. QED BY <1>4, <2>1 DEF ReadEnding
<1>5. QED BY <1>2, <1>3, <1>4

(* The loader starts again, or reports a changing repository, only when      *)
(* something changed during the attempt.                                     *)
THEOREM RetryAlwaysJustified == Spec => RetryIsJustified
<1>1. Inv /\ [Next]_vars =>
        [(pc \in {"final", "ending"} /\ pc' \in {"initial", "changed"})
           => (past # {world})]_vars
  BY NextJustified
<1>2. QED BY <1>1, InvAlways, PTL DEF Spec, RetryIsJustified
=============================================================================
