-------------------------- MODULE ActionRunnerProofs --------------------------
(***************************************************************************)
(* Theorems about ActionRunner for any policy, pull request and evidence.  *)
(***************************************************************************)
EXTENDS ActionRunner, FiniteSetTheorems, WellFoundedInduction, TLAPS

-----------------------------------------------------------------------------
(* The three writes *)

Statuses == {"ready", "not_ready"}

(* What has been written at each point of the run. *)
WrittenSoFar ==
  /\ pc \in {"load", "summary", "report", "status", "conclude", "done"}
  /\ pc \in {"summary", "report", "status", "conclude"} =>
       result.status \in Statuses
  /\ pc \in {"load", "summary"} => summary = None
  /\ pc \in {"load", "summary", "report"} => report = None
  /\ pc \in {"load", "summary", "report", "status"} => status = None
  /\ pc \in {"report", "status", "conclude"} => summary = result.status
  /\ pc \in {"status", "conclude"} => report = result.status
  /\ pc = "conclude" => status = result.status
  /\ pc # "done" => ~failed
  /\ pc = "done" =>
       \/ failed /\ status = None
       \/ failed /\ status = "not_ready" /\ summary = status /\ report = status
       \/ ~failed /\ status = "ready" /\ summary = status /\ report = status

LEMMA EvaluateStatus == ASSUME NEW p, NEW i PROVE Evaluate(p, i).status \in Statuses
BY DEF Evaluate, Statuses

LEMMA AuthorLeaves ==
  ASSUME Author
  PROVE  /\ pc = "load" /\ UNCHANGED <<pr, pc, input, result, outputs, failed>>
<1> USE DEF Moving, Open
<1>1. CASE \E name \in RunName, app \in App, t \in {clock, NoTime} :
             OpenRun(name, app, t)
  BY <1>1 DEF OpenRun
<1>2. CASE \E r \in records, conclusion \in {"success", "failure"},
              t \in {clock, NoTime, BadTime} : CompleteRun(r, conclusion, t)
  BY <1>2 DEF CompleteRun
<1>3. CASE \E name \in StatusName, state \in State : PostStatus(name, state)
  BY <1>3 DEF PostStatus
<1>4. CASE Tick
  BY <1>4 DEF Tick
<1>5. CASE \E login \in Login, at \in 1..2 \cup {NoTime},
              state \in {"approved", "changes_requested", "commented", "dismissed"} :
             AddReview(login, state, at)
  BY <1>5 DEF AddReview
<1>6. CASE \E kind \in LineKinds : WriteLine(kind)
  BY <1>6 DEF WriteLine
<1>7. QED BY <1>1, <1>2, <1>3, <1>4, <1>5, <1>6 DEF Author

LEMMA WrittenNext == ASSUME WrittenSoFar, [Next]_vars PROVE WrittenSoFar'
<1> USE RunnerAssumption
<1>1. CASE Author
  BY <1>1, AuthorLeaves DEF WrittenSoFar, outputs
<1>2. CASE Load
  <2>1. result'.status \in Statuses
    BY <1>2, EvaluateStatus DEF Load
  <2>2. QED BY <1>2, <2>1 DEF Load, WrittenSoFar, outputs
<1>3. CASE WriteSummary
  BY <1>3 DEF WriteSummary, WrittenSoFar
<1>4. CASE SetReport
  BY <1>4 DEF SetReport, WrittenSoFar
<1>5. CASE SetStatus
  BY <1>5 DEF SetStatus, WrittenSoFar
<1>6. CASE Conclude
  BY <1>6 DEF Conclude, WrittenSoFar, outputs, Statuses
<1>7. CASE Fail
  BY <1>7 DEF Fail, WrittenSoFar, outputs
<1>8. CASE UNCHANGED vars
  BY <1>8 DEF vars, outputs, WrittenSoFar
<1>9. QED
  BY <1>1, <1>2, <1>3, <1>4, <1>5, <1>6, <1>7, <1>8 DEF Next, Run

LEMMA WrittenPublished == WrittenSoFar => PublishedTogether
BY RunnerAssumption DEF WrittenSoFar, PublishedTogether, Statuses

(* A status is never published without the summary and the report of the     *)
(* same result, and the run fails exactly when it has not published "ready". *)
THEOREM PublishedAlwaysTogether == Spec => []PublishedTogether
<1>1. Init => WrittenSoFar
  BY RunnerAssumption DEF Init, WrittenSoFar
<1>2. WrittenSoFar /\ [Next]_vars => WrittenSoFar'
  BY WrittenNext
<1>3. QED BY <1>1, <1>2, WrittenPublished, PTL DEF Spec

-----------------------------------------------------------------------------
(* The matched rules *)

(* What was evaluated is what the pull request held, and stays so.           *)
EvaluatedOnce ==
  /\ pr \in Cases
  /\ pc = "load" => result = None
  /\ Evaluated =>
       /\ result = Evaluate(pr.policy, input)
       /\ Merge(records) # Incomplete
       /\ input = [changed |-> pr.changed, previous |-> pr.previous,
                   labels |-> pr.labels, linked |-> pr.linked, body |-> body,
                   checks |-> Merge(records), reviews |-> reviews]

LEMMA EvaluatedNext == ASSUME EvaluatedOnce, [Next]_vars PROVE EvaluatedOnce'
<1> USE DEF EvaluatedOnce, Evaluated
<1>1. CASE Author
  BY <1>1, AuthorLeaves
<1>2. CASE Load
  BY <1>2 DEF Load, pullRequest
<1>3. CASE WriteSummary \/ SetReport \/ SetStatus \/ Conclude \/ Fail \/ UNCHANGED vars
  <2>1. UNCHANGED <<pullRequest, input, result>> /\ (pc' = "load" => pc = "load")
    BY <1>3 DEF WriteSummary, SetReport, SetStatus, Conclude, Fail, vars
  <2>2. QED BY <2>1 DEF pullRequest
<1>4. QED BY <1>1, <1>2, <1>3 DEF Next, Run

LEMMA EvaluatedAlways == Spec => []EvaluatedOnce
<1>1. Init => EvaluatedOnce
  BY DEF Init, EvaluatedOnce, Evaluated
<1>2. EvaluatedOnce /\ [Next]_vars => EvaluatedOnce'
  BY EvaluatedNext
<1>3. QED BY <1>1, <1>2, PTL DEF Spec

(* Asking equal requirements once leaves none out. *)
LEMMA EvaluateReady ==
  ASSUME NEW policy, NEW in
  PROVE  Evaluate(policy, in).status = "ready" <=>
           \A rule \in policy : MatchesRule(rule, in) =>
             \A q \in rule.require : Satisfied(q, in)
<1> DEFINE triggered == {rule \in policy : MatchesRule(rule, in)}
           required == UNION {rule.require : rule \in triggered}
           keys == {RequirementIdentity(q) : q \in required}
           chosen(k) == CHOOSE x \in required : RequirementIdentity(x) = k
           rules(k) == {rule.id : rule \in
                          {x \in triggered : \E y \in x.require :
                             RequirementIdentity(y) = k}}
           results == [k \in keys |-> [satisfied |-> Satisfied(chosen(k), in),
                                      rules |-> rules(k)]]
<1>1. Evaluate(policy, in).status = "ready"
        <=> \A k \in keys : Satisfied(chosen(k), in)
  <2>1. Evaluate(policy, in).status =
          IF \A k \in DOMAIN results : results[k].satisfied
          THEN "ready" ELSE "not_ready"
    BY ZenonT(30) DEF Evaluate
  <2>2. DOMAIN results = keys
        /\ \A k \in keys : results[k].satisfied = Satisfied(chosen(k), in)
    OBVIOUS
  <2>3. QED BY <2>1, <2>2
<1>2. \A q \in required : chosen(RequirementIdentity(q)) = q
  BY DEF RequirementIdentity
<1>3. (\A k \in keys : Satisfied(chosen(k), in))
        <=> \A q \in required : Satisfied(q, in)
  <2>1. ASSUME \A k \in keys : Satisfied(chosen(k), in), NEW q \in required
        PROVE  Satisfied(q, in)
    <3>1. RequirementIdentity(q) \in keys
      OBVIOUS
    <3>2. Satisfied(chosen(RequirementIdentity(q)), in)
      BY <2>1, <3>1
    <3> HIDE DEF chosen
    <3>3. QED BY <1>2, <3>2
  <2>2. ASSUME \A q \in required : Satisfied(q, in), NEW k \in keys
        PROVE  Satisfied(chosen(k), in)
    <3>1. PICK q \in required : k = RequirementIdentity(q)
      OBVIOUS
    <3>2. chosen(k) = q
      BY <1>2, <3>1
    <3> HIDE DEF chosen
    <3>3. QED BY <2>2, <3>2
  <2>3. QED BY <2>1, <2>2
<1>4. (\A q \in required : Satisfied(q, in))
        <=> \A rule \in triggered : \A q \in rule.require : Satisfied(q, in)
  OBVIOUS
<1>5. QED BY <1>1, <1>3, <1>4

(* A ready result leaves no matching rule out.                               *)
THEOREM MatchedAlwaysHold == Spec => []MatchedRulesHold
<1> DEFINE names == pr.changed \cup pr.previous
           applies(rule) ==
             /\ rule.paths.any # {} =>
                  \E p \in rule.paths.any, n \in names : n \in Hits[p]
             /\ \A p \in rule.paths.all : \E n \in names : n \in Hits[p]
             /\ \A p \in rule.paths.none, n \in names : n \notin Hits[p]
             /\ rule.labels.any # {} => rule.labels.any \cap pr.labels # {}
             /\ rule.labels.all \subseteq pr.labels
             /\ rule.labels.none \cap pr.labels = {}
<1>1. ASSUME EvaluatedOnce, Evaluated PROVE MatchedRulesHold
  <2>1. /\ input.changed = pr.changed /\ input.previous = pr.previous
        /\ input.labels = pr.labels /\ result = Evaluate(pr.policy, input)
    BY <1>1 DEF EvaluatedOnce
  <2>2. ASSUME NEW rule \in pr.policy
        PROVE  MatchesRule(rule, input) <=> applies(rule)
    <3>1. /\ rule.paths.any \subseteq DOMAIN Hits
          /\ rule.paths.all \subseteq DOMAIN Hits
          /\ rule.paths.none \subseteq DOMAIN Hits
      BY <1>1, RunnerAssumption DEF EvaluatedOnce
    <3> DEFINE hits == {p \in DOMAIN Hits : Hits[p] \cap names # {}}
    <3>2. MatchesRule(rule, input)
            <=> MatchSetHolds(rule.paths, hits) /\ MatchSetHolds(rule.labels, pr.labels)
      BY <2>1 DEF MatchesRule
    <3>3. MatchSetHolds(rule.paths, hits) <=>
            /\ rule.paths.any # {} =>
                 \E p \in rule.paths.any, n \in names : n \in Hits[p]
            /\ \A p \in rule.paths.all : \E n \in names : n \in Hits[p]
            /\ \A p \in rule.paths.none, n \in names : n \notin Hits[p]
      BY <3>1 DEF MatchSetHolds
    <3>4. MatchSetHolds(rule.labels, pr.labels) <=>
            /\ rule.labels.any # {} => rule.labels.any \cap pr.labels # {}
            /\ rule.labels.all \subseteq pr.labels
            /\ rule.labels.none \cap pr.labels = {}
      BY DEF MatchSetHolds
    <3>5. QED BY <3>2, <3>3, <3>4
  <2>3. result.status = "ready" <=>
          \A rule \in pr.policy : MatchesRule(rule, input) =>
            \A q \in rule.require : Satisfied(q, input)
    BY <2>1, EvaluateReady
  <2>4. result.status = "ready" <=>
          \A rule \in pr.policy : applies(rule) =>
            \A q \in rule.require : Satisfied(q, input)
    BY <2>2, <2>3
  <2>5. QED BY <2>4 DEF MatchedRulesHold
<1>2. EvaluatedOnce => MatchedRulesHold
  BY <1>1 DEF MatchedRulesHold
<1>3. QED BY <1>2, EvaluatedAlways, PTL

-----------------------------------------------------------------------------
(* The merged checks *)

Time == Nat \cup {NoTime, BadTime}

(* What mergeCheckAndStatusEvidence is given: only a completed Check Run has *)
(* an end, and a status always has one and never an app.                     *)
Evidence(r) ==
  /\ r \in [id : Nat, kind : {"run", "status"}, name : RunName \cup StatusName,
            app : App \cup {NoApp}, done : BOOLEAN,
            conclusion : {"success", "failure", Pending},
            start : Time, end : Time]
  /\ r.kind = "status" => r.app = NoApp /\ r.done /\ r.end \in Nat

AllEvidence(R) == IsFiniteSet(R) /\ \A r \in R : Evidence(r)

(* r is a record of R and later than every other one of its group.           *)
IsNewestOf(r, group) ==
  /\ r \in group
  /\ \A s \in group \ {r} :
       Ordered(s) /\ Ordered(r) /\ EventTime(s) < EventTime(r)

LEMMA SmallestId ==
  ASSUME NEW G, AllEvidence(G), G # {}
  PROVE  \E r \in G : \A s \in G : r.id <= s.id
<1> DEFINE ids == {r.id : r \in G}
           less == {ss \in Nat \X Nat : ss[1] < ss[2]}
<1>1. ids \subseteq Nat /\ ids # {}
  BY DEF AllEvidence, Evidence
<1>2. IsWellFoundedOn(less, Nat)
  BY NatLessThanWellFounded DEF OpToRel
<1>3. PICK x \in ids : \A y \in ids : <<y, x>> \notin less
  <2> HIDE DEF ids, less
  <2>1. QED BY <1>1, <1>2, WFMin
<1>4. ASSUME NEW y \in ids PROVE x <= y
  <2> HIDE DEF ids
  <2>1. x \in Nat /\ y \in Nat
    BY <1>1, <1>3, <1>4
  <2>2. y < x => <<y, x>> \in less
    BY <2>1
  <2>3. QED BY <1>3, <2>1, <2>2
<1>5. QED BY <1>3, <1>4

(* Either a group has one newest record, which stands for it, or it is       *)
(* reduced to a record that has no time and no conclusion.                   *)
LEMMA OneStandsForGroup ==
  ASSUME NEW G, AllEvidence(G), G # {}
  PROVE  \/ IsNewestOf(LatestOf(G), G)
         \/ \E r \in G : LatestOf(G) = Ambiguous(r)
<1>1. CASE Cardinality(G) = 1
  <2>1. PICK x : G = {x}
    BY <1>1, FS_Singleton DEF AllEvidence
  <2>2. LatestOf(G) = x
    BY <1>1, <2>1 DEF LatestOf
  <2>3. QED BY <2>1, <2>2 DEF IsNewestOf
<1>2. CASE Cardinality(G) # 1 /\ (\A r \in G : Ordered(r)) /\ Newest(G) # {}
  <2>1. LatestOf(G) \in Newest(G)
    BY <1>2 DEF LatestOf
  <2>2. QED BY <1>2, <2>1 DEF Newest, IsNewestOf
<1>3. CASE Cardinality(G) # 1 /\ ~((\A r \in G : Ordered(r)) /\ Newest(G) # {})
  <2>1. LatestOf(G) = Ambiguous(CHOOSE r \in G : \A s \in G : r.id <= s.id)
    BY <1>3 DEF LatestOf
  <2>2. (CHOOSE r \in G : \A s \in G : r.id <= s.id) \in G
    BY SmallestId
  <2>3. QED BY <2>1, <2>2
<1>4. QED BY <1>1, <1>2, <1>3

LEMMA AmbiguousSaysNothing ==
  ASSUME NEW r, Evidence(r)
  PROVE  /\ Ambiguous(r).kind = r.kind /\ Ambiguous(r).name = r.name
         /\ Ambiguous(r).app = r.app
         /\ Conclusion(Ambiguous(r)) = Pending /\ ~Ordered(Ambiguous(r))
<1>1. /\ Ambiguous(r).kind = r.kind /\ Ambiguous(r).name = r.name
      /\ Ambiguous(r).app = r.app /\ Ambiguous(r).conclusion = Pending
      /\ Ambiguous(r).done = FALSE
      /\ Ambiguous(r).start = NoTime /\ Ambiguous(r).end = NoTime
  BY DEF Evidence, Ambiguous
<1>2. QED BY <1>1 DEF Conclusion, Ordered, EventTime, Known

(* A record with a conclusion has completed, at a known time.                *)
LEMMA ConcludedHasEnded ==
  ASSUME NEW r, Evidence(r), Conclusion(r) # Pending
  PROVE  /\ r.done /\ r.conclusion = Conclusion(r)
         /\ Known(r.end) /\ EventTime(r) = r.end
BY TimesAssumption DEF Evidence, Conclusion, InvalidTime, Known, EventTime

Group(R, r) == {s \in R : Key(s) = Key(r)}

(* Every record's group is represented, under the record's own key.          *)
LEMMA Represented ==
  ASSUME NEW R, AllEvidence(R), NEW s \in R
  PROVE  /\ AllEvidence(Group(R, s)) /\ s \in Group(R, s)
         /\ LatestOf(Group(R, s)) \in Latest(R)
         /\ LatestOf(Group(R, s)).kind = s.kind
         /\ LatestOf(Group(R, s)).name = s.name
         /\ LatestOf(Group(R, s)).app = s.app
<1> DEFINE G == Group(R, s)
           l == LatestOf(G)
<1>1. AllEvidence(G) /\ s \in G
  BY FS_Subset DEF AllEvidence, Group
<1>2. l \in Latest(R)
  BY DEF Latest, Group
<1>3. \A r \in G : r.kind = s.kind /\ r.name = s.name /\ r.app = s.app
  BY DEF Group, Key
<1>4. IsNewestOf(l, G) \/ \E r \in G : l = Ambiguous(r)
  BY <1>1, OneStandsForGroup
<1>5. l.kind = s.kind /\ l.name = s.name /\ l.app = s.app
  <2> HIDE DEF G, l
  <2>1. CASE IsNewestOf(l, G)
    BY <1>3, <2>1 DEF IsNewestOf
  <2>2. CASE \E r \in G : l = Ambiguous(r)
    BY <1>1, <1>3, <2>2, AmbiguousSaysNothing DEF AllEvidence
  <2>3. QED BY <1>4, <2>1, <2>2
<1>6. QED BY <1>1, <1>2, <1>5

(* What Latest returns represents the group of some record.                  *)
LEMMA OfSomeGroup ==
  ASSUME NEW R, AllEvidence(R), NEW l \in Latest(R)
  PROVE  \E s \in R : l = LatestOf(Group(R, s))
BY DEF Latest, Group

(* A representative with a time is a record of its group, and the newest.    *)
LEMMA OrderedIsRecord ==
  ASSUME NEW R, AllEvidence(R), NEW s \in R,
         Ordered(LatestOf(Group(R, s))) \/ Conclusion(LatestOf(Group(R, s))) # Pending
  PROVE  IsNewestOf(LatestOf(Group(R, s)), Group(R, s))
<1>1. AllEvidence(Group(R, s)) /\ s \in Group(R, s)
  BY Represented
<1>2. SUFFICES ASSUME NEW r \in Group(R, s), LatestOf(Group(R, s)) = Ambiguous(r)
               PROVE  FALSE
  BY <1>1, OneStandsForGroup
<1>3. QED BY <1>1, <1>2, AmbiguousSaysNothing DEF AllEvidence

(* r has concluded and everything else of its name ended before it, or has   *)
(* started before it ended.                                                  *)
IsNewest(r, R) ==
  /\ r \in R /\ Conclusion(r) # Pending
  /\ \A s \in R \ {r} : s.name = r.name =>
       Ordered(s) /\ EventTime(s) < EventTime(r)

LEMMA PairHasTwo == ASSUME NEW a, NEW b, a # b PROVE Cardinality({a, b}) = 2
<1>1. Cardinality({a}) = 1 /\ IsFiniteSet({a})
  BY FS_Singleton
<1>2. Cardinality({a} \cup {b}) = IF b \in {a} THEN 1 ELSE 2
  BY <1>1, FS_AddElement
<1>3. {a} \cup {b} = {a, b}
  OBVIOUS
<1>4. QED BY <1>2, <1>3

(* A name with one provider: its records are one group.                      *)
LEMMA SoleProvider ==
  ASSUME NEW R, AllEvidence(R), NEW l \in Latest(R),
         ~Aggregated(Latest(R), l.name), Conclusion(l) # Pending
  PROVE  IsNewest(l, R)
<1> DEFINE named == {r \in Latest(R) : r.name = l.name}
           runs == {r \in named : r.kind = "run"}
<1>1. PICK t \in R : l = LatestOf(Group(R, t))
  BY OfSomeGroup
<1>2. IsNewestOf(l, Group(R, t))
  BY <1>1, OrderedIsRecord
<1>3. l \in R /\ Key(l) = Key(t)
  BY <1>2 DEF IsNewestOf, Group
<1>4. ASSUME NEW s \in R, s.name = l.name PROVE Key(s) = Key(l)
  <2> DEFINE k == LatestOf(Group(R, s))
  <2>1. k \in named /\ l \in named /\ k.kind = s.kind /\ k.app = s.app
    BY <1>4, Represented
  <2>2. s.kind \in {"run", "status"} /\ l.kind \in {"run", "status"}
    BY <1>3 DEF AllEvidence, Evidence
  <2>3. ~({"run", "status"} \subseteq {r.kind : r \in named})
    BY DEF Aggregated
  <2>4. s.kind = l.kind
    BY <2>1, <2>2, <2>3
  <2>5. CASE s.kind = "status"
    BY <1>3, <1>4, <2>4, <2>5 DEF AllEvidence, Evidence, Key
  <2>6. CASE s.kind = "run"
    <3>1. k \in runs /\ l \in runs
      BY <2>1, <2>4, <2>6
    <3>2. IsFiniteSet(runs)
      <4>1. Latest(R) = {LatestOf(Group(R, r)) : r \in R}
        BY DEF Latest, Group
      <4>2. IsFiniteSet(Latest(R))
        <5> DEFINE f == [r \in R |-> LatestOf(Group(R, r))]
        <5>1. f \in Surjection(R, Latest(R))
          BY <4>1 DEF Surjection
        <5>2. QED BY <5>1, FS_Surjection DEF AllEvidence
      <4>3. QED BY <4>2, FS_Subset
    <3> DEFINE apps == {r.app : r \in runs}
    <3>3. IsFiniteSet(apps)
      <4> DEFINE g == [r \in runs |-> r.app]
      <4>1. g \in Surjection(runs, apps)
        BY DEF Surjection
      <4>2. QED BY <3>2, <4>1, FS_Surjection
    <3>4. ~(Cardinality(apps) > 1)
      BY DEF Aggregated
    <3>5. {k.app, l.app} \subseteq apps
      BY <3>1
    <3>6. k.app = l.app
      <4> HIDE DEF apps, k
      <4>1. SUFFICES ASSUME k.app # l.app PROVE FALSE
        OBVIOUS
      <4>2. Cardinality({k.app, l.app}) = 2
        BY <4>1, PairHasTwo
      <4>3. Cardinality({k.app, l.app}) <= Cardinality(apps)
        BY <3>3, <3>5, FS_Subset
      <4>4. Cardinality(apps) \in Nat
        BY <3>3, FS_CardinalityType
      <4>5. QED BY <3>4, <4>2, <4>3, <4>4
    <3>7. QED BY <1>4, <2>1, <2>4, <3>6 DEF Key
  <2>7. QED BY <2>2, <2>5, <2>6
<1>5. ASSUME NEW s \in R \ {l}, s.name = l.name
      PROVE  Ordered(s) /\ EventTime(s) < EventTime(l)
  BY <1>2, <1>3, <1>4, <1>5 DEF Group, IsNewestOf
<1>6. QED BY <1>3, <1>5 DEF IsNewest

(* A name several answer for: the newest of the representatives is later     *)
(* than every record they stand for.                                         *)
LEMMA SeveralProviders ==
  ASSUME NEW R, AllEvidence(R), NEW n,
         NEW t \in R, t.name = n,
         AggregateConclusion({s \in Latest(R) : s.name = n}) # Pending
  PROVE  \E r \in R :
           /\ r.name = n /\ IsNewest(r, R)
           /\ Conclusion(r) = AggregateConclusion({s \in Latest(R) : s.name = n})
<1> DEFINE named == {s \in Latest(R) : s.name = n}
           r == CHOOSE x \in Newest(named) : TRUE
<1>1. /\ \A s \in named : Ordered(s) /\ ~InvalidTime(s)
      /\ Newest(named) # {} /\ AggregateConclusion(named) = Conclusion(r)
  BY DEF AggregateConclusion
<1>2. r \in Newest(named)
  BY <1>1
<1> HIDE DEF r
<1>3. r \in named /\ \A s \in named \ {r} : EventTime(s) < EventTime(r)
  BY <1>2 DEF Newest
<1>4. ASSUME NEW s \in R, s.name = n
      PROVE  /\ LatestOf(Group(R, s)) \in named
             /\ IsNewestOf(LatestOf(Group(R, s)), Group(R, s))
  <2>1. LatestOf(Group(R, s)) \in named
    BY <1>4, Represented
  <2>2. QED BY <1>1, <2>1, OrderedIsRecord
<1>5. PICK u \in R : r = LatestOf(Group(R, u))
  BY <1>3, OfSomeGroup
<1>6. u.name = n
  BY <1>3, <1>5, Represented
<1>7. r \in R
  BY <1>4, <1>5, <1>6 DEF IsNewestOf, Group
<1>8. Conclusion(r) # Pending
  BY <1>1
<1>9. ASSUME NEW s \in R \ {r}, s.name = n
      PROVE  Ordered(s) /\ EventTime(s) < EventTime(r)
  <2> DEFINE l == LatestOf(Group(R, s))
  <2>1. l \in named /\ IsNewestOf(l, Group(R, s)) /\ s \in Group(R, s)
    BY <1>4, <1>9, Represented
  <2>2. l \in R
    BY <2>1 DEF IsNewestOf, Group
  <2> HIDE DEF l
  <2>3. \A x \in R : Ordered(x) => EventTime(x) \in Nat
    BY DEF AllEvidence, Evidence, Ordered, EventTime, Known, Time
  <2>4. CASE l = s
    BY <1>1, <1>3, <1>9, <2>1, <2>4
  <2>5. CASE l # s
    <3>1. Ordered(s) /\ Ordered(l) /\ EventTime(s) < EventTime(l)
      BY <2>1, <2>5 DEF IsNewestOf
    <3>2. CASE l = r
      BY <3>1, <3>2
    <3>3. CASE l # r
      <4>1. EventTime(l) < EventTime(r) /\ Ordered(r)
        BY <1>1, <1>3, <2>1, <3>3
      <4>2. /\ EventTime(s) \in Nat /\ EventTime(l) \in Nat
            /\ EventTime(r) \in Nat
        BY <1>7, <2>2, <2>3, <3>1, <4>1
      <4>3. QED BY <3>1, <4>1, <4>2
    <3>4. QED BY <3>2, <3>3
  <2>6. QED BY <2>4, <2>5
<1>10. r.name = n
  BY <1>3
<1>11. IsNewest(r, R)
  BY <1>7, <1>8, <1>9, <1>10 DEF IsNewest
<1>12. QED BY <1>1, <1>7, <1>10, <1>11

LEMMA CheckIsNewest ==
  ASSUME NEW R, AllEvidence(R), NEW c \in Checks(Latest(R)),
         c.conclusion # Pending
  PROVE  \E r \in R :
           /\ r.name = c.name /\ IsNewest(r, R) /\ Conclusion(r) = c.conclusion
           /\ c.app # NoApp => r.app = c.app
<1> DEFINE named(n) == {s \in Latest(R) : s.name = n}
<1>1. PICK l \in Latest(R) :
        c = IF Aggregated(Latest(R), l.name)
            THEN Check(l.name, NoApp, AggregateConclusion(named(l.name)))
            ELSE Check(l.name, l.app, Conclusion(l))
  BY DEF Checks
<1>2. CASE Aggregated(Latest(R), l.name)
  <2>1. /\ c.name = l.name /\ c.app = NoApp
        /\ c.conclusion = AggregateConclusion(named(l.name))
    BY <1>1, <1>2 DEF Check
  <2>2. PICK t \in R : l = LatestOf(Group(R, t))
    BY OfSomeGroup
  <2>3. t.name = l.name
    BY <2>2, Represented
  <2>4. QED BY <2>1, <2>3, SeveralProviders
<1>3. CASE ~Aggregated(Latest(R), l.name)
  <2>1. c.name = l.name /\ c.app = l.app /\ c.conclusion = Conclusion(l)
    BY <1>1, <1>3 DEF Check
  <2>2. IsNewest(l, R)
    BY <1>3, <2>1, SoleProvider
  <2>3. QED BY <2>1, <2>2 DEF IsNewest
<1>4. QED BY <1>2, <1>3

(* The records of the pull request are evidence at every moment.             *)
RecordsAreEvidence == AllEvidence(records) /\ clock \in Nat

LEMMA EvidenceNext ==
  ASSUME RecordsAreEvidence, [Next]_vars PROVE RecordsAreEvidence'
<1> USE DEF RecordsAreEvidence, Evidence, Time
<1>1. Cardinality(records) \in Nat
  BY FS_CardinalityType DEF AllEvidence
<1>2. ASSUME NEW r, Evidence(r), NEW old, records' = (records \ old) \cup {r},
             clock' = clock
      PROVE  RecordsAreEvidence'
  <2>1. IsFiniteSet(records \ old)
    BY FS_Subset DEF AllEvidence
  <2>2. IsFiniteSet(records')
    BY <1>2, <2>1, FS_AddElement
  <2>3. QED BY <1>2, <2>2 DEF AllEvidence
<1>3. ASSUME NEW name \in RunName, NEW app \in App, NEW t \in {clock, NoTime},
             OpenRun(name, app, t)
      PROVE  RecordsAreEvidence'
  <2> DEFINE r == Record("run", name, app, FALSE, Pending, t, NoTime)
  <2>1. Evidence(r)
    BY <1>1 DEF Record
  <2>2. records' = (records \ {}) \cup {r} /\ clock' = clock
    BY <1>3 DEF OpenRun
  <2> HIDE DEF r
  <2>3. QED BY <1>2, <2>1, <2>2
<1>4. ASSUME NEW x \in records, NEW conclusion \in {"success", "failure"},
             NEW t \in {clock, NoTime, BadTime}, CompleteRun(x, conclusion, t)
      PROVE  RecordsAreEvidence'
  <2> DEFINE r == [x EXCEPT !.done = TRUE, !.conclusion = conclusion, !.end = t]
  <2>1. Evidence(x) /\ x.kind = "run"
    BY <1>4 DEF AllEvidence, CompleteRun
  <2>2. Evidence(r)
    BY <2>1
  <2>3. records' = (records \ {x}) \cup {r} /\ clock' = clock
    BY <1>4 DEF CompleteRun
  <2> HIDE DEF r
  <2>4. QED BY <1>2, <2>2, <2>3
<1>5. ASSUME NEW name \in StatusName, NEW state \in State, PostStatus(name, state)
      PROVE  RecordsAreEvidence'
  <2> DEFINE r == Record("status", name, NoApp, TRUE, StatusConclusion[state],
                         clock, clock)
  <2>1. StatusConclusion[state] \in {"success", "failure", Pending}
    BY RunnerAssumption DEF StatusConclusion
  <2>2. Evidence(r)
    BY <1>1, <2>1 DEF Record
  <2>3. records' = (records \ {}) \cup {r} /\ clock' = clock
    BY <1>5 DEF PostStatus
  <2> HIDE DEF r
  <2>4. QED BY <1>2, <2>2, <2>3
<1>6. CASE Tick
  BY <1>6 DEF Tick, AllEvidence
<1>7. CASE UNCHANGED <<records, clock>>
  BY <1>7
<1>8. CASE Author
  <2>1. CASE \E login \in Login, at \in 1..2 \cup {NoTime},
                state \in {"approved", "changes_requested", "commented", "dismissed"} :
               AddReview(login, state, at)
    BY <1>7, <2>1 DEF AddReview
  <2>2. CASE \E kind \in LineKinds : WriteLine(kind)
    BY <1>7, <2>2 DEF WriteLine
  <2>3. QED BY <1>3, <1>4, <1>5, <1>6, <1>8, <2>1, <2>2 DEF Author
<1>9. CASE Run \/ UNCHANGED vars
  BY <1>7, <1>9
  DEF Run, Load, WriteSummary, SetReport, SetStatus, Conclude, Fail, vars,
      pullRequest
<1>10. QED BY <1>8, <1>9 DEF Next

LEMMA MetIsNewest ==
  ASSUME RecordsAreEvidence, EvaluatedOnce PROVE GreenIsNewest
<1>1. SUFFICES ASSUME Evaluated, NEW rule \in pr.policy, NEW q \in rule.require,
                      q.type = "check", Satisfied(q, input)
      PROVE  \E r \in records :
               /\ r.name = q.name /\ r.done /\ r.conclusion \in q.conclusions
               /\ q.app # NoApp => r.app = q.app
               /\ \A s \in records \ {r} :
                    s.name = q.name =>
                      /\ Known(r.end)
                      /\ IF s.end = NoTime THEN Known(s.start) /\ s.start < r.end
                         ELSE Known(s.end) /\ s.end < r.end
  BY DEF GreenIsNewest
<1>2. input.checks = Merge(records) /\ Merge(records) # Incomplete
  BY <1>1 DEF EvaluatedOnce
<1>3. input.checks = Checks(Latest(records))
  BY <1>2 DEF Merge
<1>4. CheckSatisfied(q, input.checks)
  BY <1>1 DEF Satisfied
<1>5. PICK c \in input.checks :
        /\ c.name = q.name /\ c.conclusion \in q.conclusions
        /\ q.app # NoApp => c.app = q.app
  <2> DEFINE named == {x \in input.checks : x.name = q.name}
             unqualified == {x \in named : x.app = NoApp}
  <2>1. CASE q.app # NoApp
    <3>1. Accepts(q, {x \in named : x.app = q.app})
      BY <1>4, <2>1 DEF CheckSatisfied
    <3>2. QED BY <3>1 DEF Accepts
  <2>2. CASE q.app = NoApp /\ unqualified # {}
    <3>1. Accepts(q, unqualified)
      BY <1>4, <2>2 DEF CheckSatisfied
    <3>2. QED BY <2>2, <3>1 DEF Accepts
  <2>3. CASE q.app = NoApp /\ unqualified = {}
    <3>1. Accepts(q, named)
      BY <1>4, <2>3 DEF CheckSatisfied
    <3>2. QED BY <2>3, <3>1 DEF Accepts
  <2>4. QED BY <2>1, <2>2, <2>3
<1>6. c.conclusion # Pending
  BY <1>1, <1>5, RunnerAssumption DEF EvaluatedOnce
<1>7. PICK r \in records :
        /\ r.name = c.name /\ IsNewest(r, records)
        /\ Conclusion(r) = c.conclusion /\ (c.app # NoApp => r.app = c.app)
  BY <1>3, <1>5, <1>6, CheckIsNewest DEF RecordsAreEvidence
<1>8. r.done /\ r.conclusion = c.conclusion /\ Known(r.end) /\ EventTime(r) = r.end
  BY <1>6, <1>7, ConcludedHasEnded DEF RecordsAreEvidence, AllEvidence
<1>9. ASSUME NEW s \in records \ {r}, s.name = q.name
      PROVE  IF s.end = NoTime THEN Known(s.start) /\ s.start < r.end
             ELSE Known(s.end) /\ s.end < r.end
  <2>1. Ordered(s) /\ EventTime(s) < EventTime(r)
    BY <1>5, <1>7, <1>9 DEF IsNewest
  <2>2. QED BY <1>8, <2>1 DEF Ordered, EventTime
<1>10. QED BY <1>5, <1>7, <1>8, <1>9

(* A requirement for a check is met only by the newest record of its name,   *)
(* however many apps and statuses answer for it and at whatever times.       *)
THEOREM GreenIsAlwaysNewest == Spec => []GreenIsNewest
<1>1. Init => RecordsAreEvidence
  BY FS_EmptySet DEF Init, RecordsAreEvidence, AllEvidence
<1>2. RecordsAreEvidence /\ [Next]_vars => RecordsAreEvidence'
  BY EvidenceNext
<1>3. QED BY <1>1, <1>2, MetIsNewest, EvaluatedAlways, PTL DEF Spec

-----------------------------------------------------------------------------
(* Last words *)

NoneKnown == [p \in {Person[l] : l \in DOMAIN Person} |-> NoReview]

ReviewsUpTo(rs, n, f) ==
  f = [i \in 0..n |-> IF i = 0 THEN NoneKnown ELSE TakeReview(f[i - 1], rs[i])]

(* A set of numbers that holds 0 and with each number the next holds all. *)
LEMMA NaturalInduction ==
  ASSUME NEW S, 0 \in S, \A n \in Nat : n \in S => n + 1 \in S
  PROVE  Nat \subseteq S
<1> DEFINE T == Nat \ S
           less == {ss \in Nat \X Nat : ss[1] < ss[2]}
<1>1. IsWellFoundedOn(less, Nat)
  BY NatLessThanWellFounded DEF OpToRel
<1>2. SUFFICES ASSUME T # {} PROVE FALSE
  OBVIOUS
<1>3. PICK x \in T : \A y \in T : <<y, x>> \notin less
  <2>1. T \subseteq Nat
    OBVIOUS
  <2> HIDE DEF T, less
  <2>2. QED BY <1>1, <1>2, <2>1, WFMin
<1>4. x - 1 \in Nat /\ (x - 1) + 1 = x
  BY <1>3
<1>5. x - 1 \in T /\ <<x - 1, x>> \in less
  BY <1>3, <1>4
<1>6. QED BY <1>3, <1>5

LEMMA ReviewsRecursive ==
  ASSUME NEW rs, NEW n \in Nat
  PROVE  \E f : ReviewsUpTo(rs, n, f)
<1> DEFINE S == {m \in Nat : \E f : ReviewsUpTo(rs, m, f)}
<1>1. 0 \in S
  <2> DEFINE f == [i \in 0..0 |-> NoneKnown]
  <2>1. ReviewsUpTo(rs, 0, f)
    BY DEF ReviewsUpTo
  <2>2. QED BY <2>1
<1>2. ASSUME NEW m \in Nat, m \in S PROVE m + 1 \in S
  <2>1. PICK f : ReviewsUpTo(rs, m, f)
    BY <1>2
  <2> DEFINE g == [i \in 0..(m + 1) |-> IF i = m + 1 THEN TakeReview(f[m], rs[m + 1]) ELSE f[i]]
             h == [i \in 0..(m + 1) |-> IF i = 0 THEN NoneKnown ELSE TakeReview(g[i - 1], rs[i])]
  <2>2. ASSUME NEW i \in 0..(m + 1) PROVE g[i] = h[i]
    <3>1. CASE i = m + 1
      <4>1. g[i] = TakeReview(f[m], rs[i])
        BY <3>1
      <4>2. i - 1 = m /\ i # 0 /\ m \in 0..(m + 1) /\ m # m + 1
        BY <3>1
      <4>3. h[i] = TakeReview(g[m], rs[i])
        BY <4>2
      <4>4. g[m] = f[m]
        BY <4>2
      <4>5. QED BY <4>1, <4>3, <4>4
    <3>2. CASE i # m + 1
      <4>1. g[i] = f[i] /\ i \in 0..m
        BY <3>2
      <4>2. f[i] = IF i = 0 THEN NoneKnown ELSE TakeReview(f[i - 1], rs[i])
        BY <2>1, <4>1 DEF ReviewsUpTo
      <4>3. i # 0 => i - 1 \in 0..(m + 1) /\ i - 1 # m + 1
        BY <4>1
      <4>4. i # 0 => g[i - 1] = f[i - 1]
        BY <4>3
      <4>5. QED BY <4>1, <4>2, <4>4
    <3>3. QED BY <3>1, <3>2
  <2>3. g = h
    <3> HIDE DEF TakeReview, NoneKnown
    <3>1. DOMAIN g = 0..(m + 1) /\ DOMAIN h = 0..(m + 1)
      OBVIOUS
    <3>2. QED BY <2>2
  <2>4. ReviewsUpTo(rs, m + 1, g)
    BY <2>3 DEF ReviewsUpTo
  <2> HIDE DEF g
  <2>5. QED BY <2>4
<1> HIDE DEF S
<1>3. Nat \subseteq S
  BY <1>1, <1>2, NaturalInduction
<1>4. n \in S
  BY <1>3
<1>5. QED BY <1>4 DEF S

LEMMA LatestIs ==
  ASSUME NEW rs, Len(rs) \in Nat
  PROVE  ReviewsUpTo(rs, Len(rs), LatestReviews(rs))
<1>1. \E f : ReviewsUpTo(rs, Len(rs), f)
  BY ReviewsRecursive
<1>2. LatestReviews(rs) = CHOOSE f : ReviewsUpTo(rs, Len(rs), f)
  BY DEF LatestReviews, ReviewsUpTo, NoneKnown
<1>3. QED BY <1>1, <1>2

Persons == {Person[l] : l \in DOMAIN Person}
Review == [login : Login, at : 1..2 \cup {NoTime},
           state : {"approved", "changes_requested", "commented", "dismissed"}]
KnownReview == [state : {"none", "approved", "changes_requested", "dismissed"},
                at : 1..2 \cup {NoTime}]

(* One review changes what is known of its author alone. *)
LEMMA TakenReview ==
  ASSUME NEW f \in [Persons -> KnownReview], NEW r \in Review, NEW p \in Persons
  PROVE  /\ TakeReview(f, r) \in [Persons -> KnownReview]
         /\ TakeReview(f, r)[p] =
              IF \/ p # Person[r.login] \/ r.state = "commented"
                 \/ /\ f[p].state # "none"
                    /\ ~Conflicts(f[p], r) /\ ~IsLater(f[p], r)
              THEN f[p]
              ELSE [state |-> IF f[p].state # "none" /\ Conflicts(f[p], r)
                              THEN "dismissed" ELSE r.state,
                    at |-> r.at]
<1> DEFINE q == Person[r.login]
           put(state) == [f EXCEPT ![q] = [state |-> state, at |-> r.at]]
<1>1. /\ r.login \in DOMAIN Person /\ r.at \in 1..2 \cup {NoTime} /\ q \in Persons
      /\ r.state \in {"approved", "changes_requested", "commented", "dismissed"}
  BY RunnerAssumption DEF Review, Persons
<1>2. ASSUME NEW state \in {"approved", "changes_requested", "dismissed"}
      PROVE  /\ put(state) \in [Persons -> KnownReview]
             /\ put(state)[p] = IF p = q THEN [state |-> state, at |-> r.at] ELSE f[p]
  <2>1. [state |-> state, at |-> r.at] \in KnownReview
    BY <1>1 DEF KnownReview
  <2> HIDE DEF q
  <2>2. QED BY <1>1, <2>1
<1>3. TakeReview(f, r) =
        IF r.state = "commented" THEN f
        ELSE IF f[q].state # "none" /\ Conflicts(f[q], r) THEN put("dismissed")
        ELSE IF f[q].state # "none" /\ ~IsLater(f[q], r) THEN f
        ELSE put(r.state)
  BY DEF TakeReview
<1> HIDE DEF put
<1>4. CASE r.state = "commented"
  BY <1>3, <1>4
<1>5. CASE r.state # "commented" /\ f[q].state # "none" /\ Conflicts(f[q], r)
  BY <1>2, <1>3, <1>5
<1>6. CASE /\ r.state # "commented" /\ f[q].state # "none" /\ ~Conflicts(f[q], r)
           /\ ~IsLater(f[q], r)
  BY <1>3, <1>6
<1>7. CASE /\ r.state # "commented"
           /\ f[q].state = "none" \/ (~Conflicts(f[q], r) /\ IsLater(f[q], r))
  <2>1. TakeReview(f, r) = put(r.state)
    BY <1>3, <1>7
  <2>2. QED BY <1>1, <1>2, <1>7, <2>1
<1>8. QED BY <1>4, <1>5, <1>6, <1>7

(* The reviews of p among the first i that say something, and those of them  *)
(* that have a time.                                                         *)
Said(p, i) ==
  {j \in 1..i : Person[reviews[j].login] = p /\ reviews[j].state # "commented"}
SaidTimed(p, i) == {j \in Said(p, i) : reviews[j].at # NoTime}

(* What is known of p after i reviews: nothing, or the last review of those  *)
(* without a time, or of those with one whether all of the latest approve.   *)
KnowsLast(s, p, i) ==
  /\ s.state = "none" <=> Said(p, i) = {}
  /\ Said(p, i) # {} /\ SaidTimed(p, i) = {} =>
       /\ s.at = NoTime
       /\ \E j \in Said(p, i) :
            (\A k \in Said(p, i) : k <= j) /\ s.state = reviews[j].state
  /\ SaidTimed(p, i) # {} =>
       /\ s.at # NoTime
       /\ \E j \in SaidTimed(p, i) : reviews[j].at = s.at
       /\ \A j \in SaidTimed(p, i) : reviews[j].at <= s.at
       /\ s.state = "approved" <=>
            \A j \in SaidTimed(p, i) : reviews[j].at = s.at => reviews[j].state = "approved"

ReviewsTyped == reviews \in Seq(Review)

LEMMA SaysMore ==
  ASSUME ReviewsTyped, NEW i \in Nat, i + 1 \in 1..Len(reviews), NEW p \in Persons,
         NEW s \in KnownReview, KnowsLast(s, p, i),
         NEW r, r = reviews[i + 1], NEW t,
         t = IF \/ p # Person[r.login] \/ r.state = "commented"
                \/ /\ s.state # "none" /\ ~Conflicts(s, r) /\ ~IsLater(s, r)
             THEN s
             ELSE [state |-> IF s.state # "none" /\ Conflicts(s, r)
                             THEN "dismissed" ELSE r.state,
                   at |-> r.at]
  PROVE  KnowsLast(t, p, i + 1)
<1>1. /\ r \in Review /\ \A j \in 1..(i + 1) : reviews[j] \in Review
  <2>1. \A j \in 1..Len(reviews) : reviews[j] \in Review
    BY DEF ReviewsTyped
  <2>2. Len(reviews) \in Nat
    BY DEF ReviewsTyped
  <2>3. QED BY <2>1, <2>2
<1>2. /\ r.at \in 1..2 \cup {NoTime} /\ s.at \in 1..2 \cup {NoTime} /\ NoTime \notin Nat
      /\ r.state \in {"approved", "changes_requested", "commented", "dismissed"}
      /\ \A j \in 1..(i + 1) : reviews[j].at \in 1..2 \cup {NoTime}
  BY <1>1, TimesAssumption DEF Review, KnownReview
<1>3. CASE p # Person[r.login] \/ r.state = "commented"
  <2>1. Said(p, i + 1) = Said(p, i)
    BY <1>3 DEF Said
  <2>2. SaidTimed(p, i + 1) = SaidTimed(p, i) /\ t = s
    BY <1>3, <2>1 DEF SaidTimed
  <2>3. QED BY <2>1, <2>2 DEF KnowsLast
<1>4. CASE p = Person[r.login] /\ r.state # "commented"
  <2> DEFINE old == Said(p, i)
             timed == SaidTimed(p, i)
  <2>1. /\ Said(p, i + 1) = old \cup {i + 1} /\ old \subseteq 1..i /\ timed \subseteq old
        /\ r.at = NoTime => SaidTimed(p, i + 1) = timed
        /\ r.at # NoTime => SaidTimed(p, i + 1) = timed \cup {i + 1}
    <3>1. Said(p, i + 1) = old \cup {i + 1} /\ old \subseteq 1..i /\ timed \subseteq old
      BY <1>4 DEF Said, SaidTimed
    <3>2. QED BY <3>1 DEF SaidTimed
  <2>8. \A j \in timed : j \in 1..(i + 1) /\ reviews[j].at \in 1..2
    BY <1>2, <2>1 DEF timed, SaidTimed
  <2>2. /\ s.state = "none" <=> old = {}
        /\ old # {} /\ timed = {} => s.at = NoTime
        /\ timed # {} =>
             /\ s.at # NoTime
             /\ \E j \in timed : reviews[j].at = s.at
             /\ \A j \in timed : reviews[j].at <= s.at
             /\ s.state = "approved" <=>
                  \A j \in timed : reviews[j].at = s.at => reviews[j].state = "approved"
    BY DEF KnowsLast
  <2> HIDE DEF old, timed
  <2>3. CASE r.at = NoTime /\ timed = {}
    <3>1. t = [state |-> r.state, at |-> NoTime]
      BY <1>2, <1>4, <2>2, <2>3 DEF Conflicts, IsLater
    <3>2. \A k \in old \cup {i + 1} : k <= i + 1
      BY <2>1
    <3>3. SaidTimed(p, i + 1) = {}
      BY <2>1, <2>3
    <3>4. t.at = NoTime /\ t.state = r.state /\ t.state # "none"
      BY <1>2, <1>4, <3>1
    <3>5. i + 1 \in Said(p, i + 1) /\ \A k \in Said(p, i + 1) : k <= i + 1
      BY <2>1, <3>2
    <3>6. QED BY <3>3, <3>4, <3>5 DEF KnowsLast
  <2>4. CASE r.at = NoTime /\ timed # {}
    <3>1. t = s /\ old # {}
      BY <1>2, <1>4, <2>1, <2>2, <2>4 DEF Conflicts, IsLater
    <3>2. QED BY <2>1, <2>2, <2>4, <3>1 DEF KnowsLast
  <2>5. CASE r.at # NoTime /\ timed = {}
    <3>1. t = [state |-> r.state, at |-> r.at]
      BY <1>2, <1>4, <2>2, <2>5 DEF Conflicts, IsLater
    <3>2. SaidTimed(p, i + 1) = {i + 1}
      BY <2>1, <2>5
    <3>3. r.at \in Nat /\ r.at <= r.at
      BY <1>2, <2>5
    <3>4. /\ t.at = r.at /\ t.state = r.state /\ t.state # "none" /\ Said(p, i + 1) # {}
      BY <1>2, <1>4, <2>1, <3>1
    <3>5. QED BY <2>5, <3>2, <3>3, <3>4 DEF KnowsLast
  <2>6. CASE r.at # NoTime /\ timed # {}
    <3>1. /\ SaidTimed(p, i + 1) = timed \cup {i + 1} /\ r.at \in 1..2 /\ s.at \in 1..2
          /\ s.state # "none"
      BY <1>2, <2>1, <2>2, <2>6
    <3>2. CASE r.at < s.at
      <4>1. t = s
        BY <1>2, <1>4, <2>6, <3>1, <3>2 DEF Conflicts, IsLater
      <4>2. r.at # s.at /\ r.at <= s.at
        BY <3>1, <3>2
      <4>3. /\ t.state # "none" /\ Said(p, i + 1) # {} /\ SaidTimed(p, i + 1) # {}
            /\ t.at # NoTime
        BY <2>1, <2>2, <2>6, <3>1, <4>1
      <4>4. \E j \in SaidTimed(p, i + 1) : reviews[j].at = t.at
        BY <2>2, <2>6, <3>1, <4>1
      <4>5. \A j \in SaidTimed(p, i + 1) : reviews[j].at <= t.at
        BY <2>2, <2>6, <3>1, <4>1, <4>2
      <4>6. t.state = "approved" <=>
              \A j \in SaidTimed(p, i + 1) :
                reviews[j].at = t.at => reviews[j].state = "approved"
        BY <2>2, <2>6, <3>1, <4>1, <4>2
      <4>7. QED BY <4>3, <4>4, <4>5, <4>6 DEF KnowsLast
    <3>3. CASE r.at > s.at
      <4>1. t = [state |-> r.state, at |-> r.at]
        BY <1>2, <1>4, <2>6, <3>1, <3>3 DEF Conflicts, IsLater
      <4>2. \A j \in timed : reviews[j].at # r.at /\ reviews[j].at <= r.at
        BY <2>2, <2>6, <2>8, <3>1, <3>3
      <4>3. r.at <= r.at
        BY <3>1
      <4>4. /\ t.state = r.state /\ t.at = r.at /\ t.state # "none"
            /\ Said(p, i + 1) # {} /\ SaidTimed(p, i + 1) # {} /\ t.at # NoTime
        BY <1>2, <1>4, <2>1, <2>6, <3>1, <4>1
      <4>5. /\ i + 1 \in SaidTimed(p, i + 1)
            /\ \A j \in SaidTimed(p, i + 1) : j = i + 1 \/ j \in timed
        BY <3>1
      <4>6. QED BY <4>2, <4>3, <4>4, <4>5 DEF KnowsLast
    <3>4. CASE r.at = s.at
      <4>1. t = [state |-> IF r.state # s.state THEN "dismissed" ELSE r.state, at |-> r.at]
        BY <1>2, <1>4, <2>6, <3>1, <3>4 DEF Conflicts, IsLater
      <4>2. t.at = s.at /\ (t.state = "approved" <=> s.state = "approved" /\ r.state = "approved")
            /\ t.state # "none" /\ r.at <= s.at
        BY <1>2, <3>1, <3>4, <4>1
      <4>3. QED BY <2>1, <2>2, <2>6, <3>1, <3>4, <4>2 DEF KnowsLast
    <3>5. QED BY <3>1, <3>2, <3>3, <3>4
  <2>7. QED BY <2>3, <2>4, <2>5, <2>6
<1>5. QED BY <1>3, <1>4

LEMMA KnownAfterEach ==
  ASSUME ReviewsTyped, NEW n \in 0..Len(reviews)
  PROVE  /\ LatestReviews(reviews)[n] \in [Persons -> KnownReview]
         /\ \A p \in Persons : KnowsLast(LatestReviews(reviews)[n][p], p, n)
<1> DEFINE f == LatestReviews(reviews)
           Holds(i) == /\ f[i] \in [Persons -> KnownReview]
                       /\ \A p \in Persons : KnowsLast(f[i][p], p, i)
           S == {i \in Nat : i <= Len(reviews) => Holds(i)}
<1>1. Len(reviews) \in Nat /\ \A i \in 1..Len(reviews) : reviews[i] \in Review
  BY DEF ReviewsTyped
<1>2. ASSUME NEW i \in 0..Len(reviews)
      PROVE  f[i] = IF i = 0 THEN NoneKnown ELSE TakeReview(f[i - 1], reviews[i])
  <2>1. ReviewsUpTo(reviews, Len(reviews), f)
    BY <1>1, LatestIs
  <2> HIDE DEF f
  <2>2. QED BY <2>1 DEF ReviewsUpTo
<1> HIDE DEF f
<1>3. 0 \in S
  <2>1. f[0] = NoneKnown
    BY <1>1, <1>2
  <2>2. NoneKnown \in [Persons -> KnownReview] /\ \A p \in Persons : NoneKnown[p] = NoReview
    BY DEF NoneKnown, NoReview, Persons, KnownReview
  <2>3. \A p : Said(p, 0) = {} /\ SaidTimed(p, 0) = {}
    BY DEF Said, SaidTimed
  <2>4. \A p \in Persons : KnowsLast(NoReview, p, 0)
    BY <2>3 DEF KnowsLast, NoReview
  <2>5. QED BY <2>1, <2>2, <2>4
<1>4. ASSUME NEW i \in Nat, i \in S PROVE i + 1 \in S
  <2> SUFFICES ASSUME i + 1 <= Len(reviews) PROVE Holds(i + 1)
    OBVIOUS
  <2>1. i \in 0..Len(reviews) /\ i + 1 \in 1..Len(reviews) /\ i + 1 \in 0..Len(reviews)
        /\ i + 1 # 0 /\ (i + 1) - 1 = i
    BY <1>1
  <2>2. Holds(i) /\ f[i + 1] = TakeReview(f[i], reviews[i + 1])
    BY <1>1, <1>2, <1>4, <2>1
  <2>3. reviews[i + 1] \in Review
    BY <1>1, <2>1
  <2>4. ASSUME NEW p \in Persons PROVE KnowsLast(f[i + 1][p], p, i + 1)
    <3>1. f[i][p] \in KnownReview /\ KnowsLast(f[i][p], p, i)
      BY <2>2
    <3>2. PICK r : r = reviews[i + 1]
      OBVIOUS
    <3>3. r \in Review /\ f[i + 1][p] = TakeReview(f[i], r)[p]
      BY <2>2, <2>3, <3>2
    <3>4. PICK t : t = f[i + 1][p]
      OBVIOUS
    <3>5. t = IF \/ p # Person[r.login] \/ r.state = "commented"
                 \/ /\ f[i][p].state # "none"
                    /\ ~Conflicts(f[i][p], r) /\ ~IsLater(f[i][p], r)
              THEN f[i][p]
              ELSE [state |-> IF f[i][p].state # "none" /\ Conflicts(f[i][p], r)
                              THEN "dismissed" ELSE r.state,
                    at |-> r.at]
      BY <2>2, <3>3, <3>4, TakenReview
    <3>6. KnowsLast(t, p, i + 1)
      BY <2>1, <3>1, <3>2, <3>5, SaysMore
    <3>7. QED BY <3>4, <3>6
  <2>5. f[i + 1] \in [Persons -> KnownReview]
    <3>1. reviews[i + 1].login \in DOMAIN Person
      BY <2>3, RunnerAssumption DEF Review
    <3>2. PICK p \in Persons : TRUE
      BY <3>1 DEF Persons
    <3>3. f[i] \in [Persons -> KnownReview] /\ f[i + 1] = TakeReview(f[i], reviews[i + 1])
      BY <2>2
    <3>4. TakeReview(f[i], reviews[i + 1]) \in [Persons -> KnownReview]
      BY <2>3, <3>2, <3>3, TakenReview
    <3>5. QED BY <3>3, <3>4
  <2>6. QED BY <2>4, <2>5
<1>5. Nat \subseteq S
  <2> HIDE DEF S
  <2>1. QED BY <1>3, <1>4, NaturalInduction
<1>6. n \in Nat /\ n <= Len(reviews)
  BY <1>1
<1>7. QED BY <1>5, <1>6 DEF f

LEMMA LastWordsCount ==
  ASSUME ReviewsTyped, EvaluatedOnce
  PROVE  ApprovalsAreLastWords
<1> SUFFICES ASSUME Evaluated
             PROVE  Approvers(reviews) =
                      {p \in Maintainer :
                         /\ LastWord(p) # {}
                         /\ \A i \in LastWord(p) : reviews[i].state = "approved"}
  BY DEF ApprovalsAreLastWords, EvaluatedOnce
<1> DEFINE n == Len(reviews)
           latest == LatestReviews(reviews)[n]
<1>1. n \in Nat /\ n \in 0..n /\ DOMAIN reviews = 1..n
      /\ \A i \in 1..n : reviews[i] \in Review
  BY DEF ReviewsTyped
<1>2. /\ latest \in [Persons -> KnownReview]
      /\ \A p \in Persons : KnowsLast(latest[p], p, n)
  BY <1>1, KnownAfterEach
<1>3. Approvers(reviews) = {p \in Persons : p \in Maintainer /\ latest[p].state = "approved"}
  <2>1. Approvers(reviews) =
          {p \in DOMAIN latest : p \in Maintainer /\ latest[p].state = "approved"}
    BY DEF Approvers
  <2> HIDE DEF latest
  <2>2. QED BY <1>2, <2>1
<1> HIDE DEF latest
<1>4. \A p : Actionable(p) = Said(p, n) /\ Timed(p) = SaidTimed(p, n)
  BY <1>1 DEF Actionable, Timed, Said, SaidTimed
<1> HIDE DEF n
<1>5. ASSUME NEW p, p \notin Persons PROVE LastWord(p) = {}
  <2>1. Said(p, n) = {}
    BY <1>1, <1>5, RunnerAssumption DEF Said, Persons, Review
  <2>2. Actionable(p) = {} /\ Timed(p) = {}
    BY <1>4, <2>1 DEF SaidTimed
  <2>3. QED BY <2>2 DEF LastWord
<1>6. ASSUME NEW p \in Persons
      PROVE  latest[p].state = "approved" <=>
               /\ LastWord(p) # {}
               /\ \A i \in LastWord(p) : reviews[i].state = "approved"
  <2> PICK s : s = latest[p]
    OBVIOUS
  <2>1. KnowsLast(s, p, n)
    BY <1>2
  <2>2. CASE Said(p, n) = {}
    <3>1. s.state = "none" /\ Timed(p) = {} /\ Actionable(p) = {}
      BY <1>4, <2>1, <2>2 DEF KnowsLast, SaidTimed
    <3>2. QED BY <3>1 DEF LastWord
  <2>3. CASE Said(p, n) # {} /\ SaidTimed(p, n) = {}
    <3>1. PICK j \in Said(p, n) :
            (\A k \in Said(p, n) : k <= j) /\ s.state = reviews[j].state
      BY <2>1, <2>3 DEF KnowsLast
    <3>2. LastWord(p) = {i \in Said(p, n) : \A k \in Said(p, n) : k <= i}
      BY <1>4, <2>3 DEF LastWord
    <3>3. Said(p, n) \subseteq Nat
      BY <1>1 DEF Said
    <3>4. LastWord(p) = {j}
      <4>1. \A i \in LastWord(p) : i <= j /\ j <= i /\ i \in Nat
        BY <3>1, <3>2, <3>3
      <4>2. j \in LastWord(p) /\ j \in Nat
        BY <3>1, <3>2, <3>3
      <4>3. \A i \in LastWord(p) : i = j
        BY <4>1, <4>2
      <4>4. QED BY <4>2, <4>3
    <3>5. QED BY <3>1, <3>4
  <2>4. CASE SaidTimed(p, n) # {}
    <3> DEFINE T == SaidTimed(p, n)
    <3>1. /\ \E j \in T : reviews[j].at = s.at
          /\ \A j \in T : reviews[j].at <= s.at
          /\ s.state = "approved" <=>
               \A j \in T : reviews[j].at = s.at => reviews[j].state = "approved"
      BY <2>1, <2>4 DEF KnowsLast
    <3>2. LastWord(p) = {i \in T : \A j \in T : reviews[j].at <= reviews[i].at}
      BY <1>4, <2>4 DEF LastWord
    <3>3. \A j \in T : reviews[j].at \in Nat
      BY <1>1 DEF SaidTimed, Said, Review
    <3> HIDE DEF T
    <3>4. LastWord(p) = {i \in T : reviews[i].at = s.at}
      BY <3>1, <3>2, <3>3
    <3>5. QED BY <3>1, <3>4
  <2>5. QED BY <2>2, <2>3, <2>4 DEF SaidTimed
<1>7. QED BY <1>3, <1>5, <1>6

LEMMA ReviewsTypedNext ==
  ASSUME ReviewsTyped, [Next]_vars PROVE ReviewsTyped'
<1>1. ASSUME NEW login \in Login, NEW at \in 1..2 \cup {NoTime},
             NEW state \in {"approved", "changes_requested", "commented", "dismissed"},
             AddReview(login, state, at)
      PROVE  ReviewsTyped'
  <2>1. [login |-> login, state |-> state, at |-> at] \in Review
    BY DEF Review
  <2>2. reviews' = Append(reviews, [login |-> login, state |-> state, at |-> at])
    BY <1>1 DEF AddReview
  <2>3. QED BY <2>1, <2>2 DEF ReviewsTyped
<1>2. CASE UNCHANGED reviews
  BY <1>2 DEF ReviewsTyped
<1>3. CASE Author
  <2>1. CASE UNCHANGED reviews
    BY <1>2, <2>1
  <2>2. CASE \E login \in Login, at \in 1..2 \cup {NoTime},
                state \in {"approved", "changes_requested", "commented", "dismissed"} :
               AddReview(login, state, at)
    BY <1>1, <2>2
  <2>3. QED
    BY <1>3, <2>1, <2>2 DEF Author, OpenRun, CompleteRun, PostStatus, Tick, WriteLine
<1>4. CASE Run \/ UNCHANGED vars
  BY <1>2, <1>4
  DEF Run, Load, WriteSummary, SetReport, SetStatus, Conclude, Fail, vars,
      pullRequest
<1>5. QED BY <1>3, <1>4 DEF Next

(* The maintainers whose approval counts are those whose every last word is  *)
(* one, in whatever order GitHub lists the reviews and however many there    *)
(* are.                                                                      *)
THEOREM ApprovalsAreAlwaysLastWords == Spec => []ApprovalsAreLastWords
<1>1. Init => ReviewsTyped
  BY DEF Init, ReviewsTyped
<1>2. ReviewsTyped /\ [Next]_vars => ReviewsTyped'
  BY ReviewsTypedNext
<1>3. QED BY <1>1, <1>2, LastWordsCount, EvaluatedAlways, PTL DEF Spec

-----------------------------------------------------------------------------
(* Hidden text *)

(* The scanner's states.                                                     *)
Scanning ==
  [fence : {"none", "tick", "tilde"}, comment : BOOLEAN, fragment : Nat,
   torn : BOOLEAN, tags : Nat, special : Nat, failed : BOOLEAN,
   label : BOOLEAN, visible : SUBSET Nat]

(* An update of two fields is two updates of one.                            *)
LEMMA FragmentEnds ==
  ASSUME NEW s \in Scanning, NEW f \in Nat, NEW n \in Nat, NEW t,
         t = [s EXCEPT !.fragment = f, !.tags = n]
  PROVE  t \in Scanning
<1> PICK u \in Scanning : u = [s EXCEPT !.fragment = f]
  BY DEF Scanning
<1>1. [u EXCEPT !.tags = n] \in Scanning
  BY ONLY u \in Scanning, n \in Nat DEF Scanning
<1>2. [u EXCEPT !.tags = n] = t
  BY DEF Scanning
<1>3. QED BY <1>1, <1>2

LEMMA FragmentGoesOn ==
  ASSUME NEW s \in Scanning, NEW f \in Nat, NEW b \in BOOLEAN, NEW t,
         t = [s EXCEPT !.fragment = f, !.torn = b]
  PROVE  t \in Scanning
<1> PICK u \in Scanning : u = [s EXCEPT !.fragment = f]
  BY DEF Scanning
<1>1. [u EXCEPT !.torn = b] \in Scanning
  BY ONLY u \in Scanning, b \in BOOLEAN DEF Scanning
<1>2. [u EXCEPT !.torn = b] = t
  BY DEF Scanning
<1>3. QED BY <1>1, <1>2

LEMMA FragmentIs ==
  ASSUME NEW s \in Scanning, NEW kind, NEW t, t = InFragment(s, kind)
  PROVE  /\ t \in Scanning /\ t.comment = s.comment /\ t.special = s.special
         /\ t.fence = s.fence /\ t.visible = s.visible
<1>1. CASE s.fragment >= MaxFragment \/ (kind \in HasGreater /\ (s.torn \/ kind \in HasLess))
  <2>1. t = [s EXCEPT !.failed = TRUE]
    BY <1>1 DEF InFragment
  <2>2. QED BY <2>1 DEF Scanning
<1>2. CASE /\ ~(s.fragment >= MaxFragment \/ (kind \in HasGreater /\ (s.torn \/ kind \in HasLess)))
           /\ kind \in HasGreater
  <2>1. t = [s EXCEPT !.fragment = 0, !.tags = s.tags + 1]
    BY <1>2 DEF InFragment
  <2>2. s.tags + 1 \in Nat /\ 0 \in Nat
    BY DEF Scanning
  <2>3. t \in Scanning
    BY <2>1, <2>2, FragmentEnds
  <2>4. QED BY <2>1, <2>3 DEF Scanning
<1>3. CASE /\ ~(s.fragment >= MaxFragment \/ (kind \in HasGreater /\ (s.torn \/ kind \in HasLess)))
           /\ kind \notin HasGreater
  <2> PICK b \in BOOLEAN : b = (s.torn \/ kind \in HasLess)
    OBVIOUS
  <2>1. t = [s EXCEPT !.fragment = s.fragment + 1, !.torn = b]
    BY <1>3 DEF InFragment
  <2>2. s.fragment + 1 \in Nat
    BY DEF Scanning
  <2>3. t \in Scanning
    BY <2>1, <2>2, FragmentGoesOn
  <2>4. QED BY <2>1, <2>3 DEF Scanning
<1>4. QED BY <1>1, <1>2, <1>3

LEMMA SpecialIs ==
  ASSUME NEW s \in Scanning, s.special > 0, NEW kind, NEW t, t = InSpecial(s, kind)
  PROVE  /\ t \in Scanning /\ t.comment = s.comment /\ t.fragment = s.fragment
         /\ t.tags = s.tags /\ t.fence = s.fence /\ t.visible = s.visible
         /\ kind # "unpi" => t.special > 0
<1>1. CASE s.special >= MaxFragment
  <2>1. t = [s EXCEPT !.failed = TRUE]
    BY <1>1 DEF InSpecial
  <2>2. QED BY <2>1 DEF Scanning
<1>2. CASE ~(s.special >= MaxFragment)
  <2> PICK n \in Nat : n = IF kind = "unpi" THEN 0 ELSE s.special + 1
    BY DEF Scanning
  <2>1. t = [s EXCEPT !.special = n]
    BY <1>2 DEF InSpecial
  <2>2. kind # "unpi" => n > 0
    BY DEF Scanning
  <2>3. QED BY <2>1, <2>2 DEF Scanning
<1>3. QED BY <1>1, <1>2

LEMMA MarkerIs ==
  ASSUME NEW kind
  PROVE  /\ Marker(kind) \in {"none", "tick", "tilde"}
         /\ Marker(kind) # "none" <=> kind \in Fences
BY DEF Marker, Fences

LEMMA TextIs ==
  ASSUME NEW s \in Scanning, NEW kind, NEW i \in Nat, NEW definitions, NEW titles,
         NEW t, t = InText(s, kind, i, definitions, titles)
  PROVE  /\ t \in Scanning /\ t.comment = s.comment /\ t.fragment = s.fragment
         /\ t.tags = s.tags /\ t.special = s.special /\ t.failed = s.failed
         /\ \/ t.visible = s.visible
            \/ /\ t.visible = s.visible \cup {i} /\ t.fence = s.fence
               /\ kind \notin Blanks
         /\ i \notin definitions.lines \cup titles /\ kind \in Fences =>
              t.fence = Marker(kind)
<1>1. CASE i \in definitions.lines
  <2> PICK b \in BOOLEAN : b = (s.label \/ i \in definitions.starts)
    OBVIOUS
  <2>1. t = [s EXCEPT !.label = b]
    BY <1>1 DEF InText
  <2>2. QED BY <1>1, <2>1 DEF Scanning
<1>2. CASE i \notin definitions.lines /\ (i \in titles \/ kind \in Blanks)
  <2>1. t = s
    BY <1>2 DEF InText
  <2>2. kind \in Blanks => kind \notin Fences
    BY DEF Blanks, Fences
  <2>3. QED BY <1>2, <2>1, <2>2
<1> DEFINE plain == i \notin definitions.lines /\ i \notin titles /\ kind \notin Blanks
<1>3. CASE plain /\ Marker(kind) # "none"
  <2>1. t = [s EXCEPT !.fence = Marker(kind)]
    BY <1>3 DEF InText
  <2>2. QED BY <2>1, MarkerIs DEF Scanning
<1>4. CASE plain /\ Marker(kind) = "none" /\ kind = "definition"
  <2>1. t = [s EXCEPT !.label = TRUE] /\ kind \notin Fences
    BY <1>4, MarkerIs DEF InText
  <2>2. QED BY <2>1 DEF Scanning
<1>5. CASE plain /\ Marker(kind) = "none" /\ kind # "definition"
  <2>1. t = [s EXCEPT !.visible = s.visible \cup {i}] /\ kind \notin Fences
    BY <1>5, MarkerIs DEF InText
  <2>2. s.visible \cup {i} \in SUBSET Nat
    BY DEF Scanning
  <2>3. QED BY <1>5, <2>1, <2>2 DEF Scanning
<1>6. QED BY <1>1, <1>2, <1>3, <1>4, <1>5

(* What a line does to what hides the lines after it.                        *)
Hides(s, t, whole, i, definitions, titles) ==
  /\ s.comment /\ whole # "close" => t.comment
  /\ s.special > 0 /\ whole # "unpi" => t.special > 0
  /\ /\ s.tags > 0 /\ s.fence = "none" /\ ~s.comment /\ s.fragment = 0
     /\ whole \notin {"open", "tagstart"}
     => /\ t.tags = Tags(whole, s.tags) /\ t.fence = "none" /\ ~t.comment
        /\ t.fragment = 0
  /\ Outside(s) /\ i \notin definitions.lines \cup titles =>
       /\ whole = "open" => t.comment
       /\ whole = "pi" => t.special > 0
       /\ whole = "div" =>
            t.tags = 1 /\ t.fence = "none" /\ ~t.comment /\ t.fragment = 0
       /\ whole \in Fences => t.fence = Marker(whole)

LEMMA LineIs ==
  ASSUME NEW s \in Scanning, s.fence = "none", ~s.failed, NEW whole, NEW i \in Nat,
         NEW definitions, NEW titles,
         NEW t, t = ScanLine(s, whole, i, definitions, titles)
  PROVE  /\ t \in Scanning
         /\ Hides(s, t, whole, i, definitions, titles)
         /\ \/ t.visible = s.visible
            \/ t.visible = s.visible \cup {i} /\ Outside(t) /\ ~t.failed
<1>13. PICK c \in BOOLEAN : c = CommentAfter(s, whole)
  BY DEF CommentAfter
<1>14. PICK u \in Scanning : u = [s EXCEPT !.comment = c]
  BY DEF Scanning
<1>15. PICK kind : kind = Uncommented(s, whole)
  OBVIOUS
<1>1. /\ u.fence = "none" /\ u.fragment = s.fragment /\ u.tags = s.tags
      /\ u.special = s.special /\ ~u.failed /\ u.visible = s.visible /\ u.comment = c
  BY <1>14 DEF Scanning
<1>2. /\ s.comment \/ whole = "open" => kind = "blank"
      /\ ~s.comment /\ whole # "open" => kind = whole
      /\ s.comment => c = (whole # "close")
      /\ ~s.comment => c = (whole = "open")
  BY <1>13, <1>15 DEF Uncommented, CommentAfter
<1>3. /\ u.fragment \in Nat /\ u.tags \in Nat /\ u.special \in Nat
      /\ "blank" \in Blanks /\ "blank" \notin Fences
      /\ {"div", "pi", "open", "tagstart"} \cap (Fences \cup Blanks) = {}
  BY <1>14 DEF Scanning, Blanks, Fences
<1>4. t = IF u.fragment > 0 THEN InFragment(u, kind)
          ELSE IF kind = "tagstart" THEN [u EXCEPT !.fragment = 1, !.torn = FALSE]
          ELSE IF u.tags > 0 THEN [u EXCEPT !.tags = Tags(kind, u.tags)]
          ELSE IF u.special > 0 THEN InSpecial(u, kind)
          ELSE IF kind = "pi" THEN [u EXCEPT !.special = 1]
          ELSE IF kind \in {"div", "undiv"} THEN [u EXCEPT !.tags = Tags(kind, 0)]
          ELSE InText(u, kind, i, definitions, titles)
  BY <1>13, <1>14, <1>15 DEF ScanLine
<1>5. CASE u.fragment > 0
  <2>1. t = InFragment(u, kind)
    BY <1>4, <1>5
  <2>2. /\ t \in Scanning /\ t.comment = c /\ t.special = s.special
        /\ t.visible = s.visible
    BY <1>1, <2>1, FragmentIs
  <2>3. s.fragment # 0
    BY <1>1, <1>3, <1>5
  <2>4. Hides(s, t, whole, i, definitions, titles)
    BY <1>2, <2>2, <2>3 DEF Hides, Outside
  <2>5. QED BY <2>2, <2>4
<1>6. CASE ~(u.fragment > 0) /\ kind = "tagstart"
  <2>1. t = [u EXCEPT !.fragment = 1, !.torn = FALSE]
    BY <1>4, <1>6
  <2>2. t \in Scanning
    BY <2>1, FragmentGoesOn
  <2>3. t.comment = c /\ t.special = s.special /\ t.visible = s.visible
    BY <1>1, <2>1 DEF Scanning
  <2>4. whole = "tagstart" /\ whole \notin Fences
    BY <1>2, <1>3, <1>6
  <2>5. Hides(s, t, whole, i, definitions, titles)
    BY <1>2, <2>3, <2>4 DEF Hides
  <2>6. QED BY <2>2, <2>3, <2>5
<1>7. CASE ~(u.fragment > 0) /\ kind # "tagstart" /\ u.tags > 0
  <2> PICK n \in Nat : n = Tags(kind, u.tags)
    BY <1>3 DEF Tags
  <2>1. t = [u EXCEPT !.tags = n]
    BY <1>4, <1>7
  <2>2. /\ t \in Scanning /\ t.comment = c /\ t.special = s.special /\ t.visible = s.visible
        /\ t.tags = n /\ t.fence = "none" /\ t.fragment = s.fragment
    BY <1>1, <2>1 DEF Scanning
  <2>3. s.tags # 0
    BY <1>1, <1>3, <1>7
  <2>4. Hides(s, t, whole, i, definitions, titles)
    BY <1>1, <1>2, <2>2, <2>3 DEF Hides, Outside
  <2>5. QED BY <2>2, <2>4
<1>8. CASE ~(u.fragment > 0) /\ kind # "tagstart" /\ ~(u.tags > 0) /\ u.special > 0
  <2>1. t = InSpecial(u, kind)
    BY <1>4, <1>8
  <2>2. /\ t \in Scanning /\ t.comment = c /\ t.visible = s.visible
        /\ kind # "unpi" => t.special > 0
    BY <1>1, <1>8, <2>1, SpecialIs
  <2>3. s.special # 0 /\ s.tags = 0
    BY <1>1, <1>3, <1>8
  <2>4. ~(s.tags > 0)
    BY <2>3
  <2>5. Hides(s, t, whole, i, definitions, titles)
    BY <1>2, <2>2, <2>3, <2>4 DEF Hides, Outside
  <2>6. QED BY <2>2, <2>5
<1> DEFINE text == /\ ~(u.fragment > 0) /\ kind # "tagstart" /\ ~(u.tags > 0)
                   /\ ~(u.special > 0)
<1>9. CASE text /\ kind = "pi"
  <2>1. t = [u EXCEPT !.special = 1]
    BY <1>4, <1>9
  <2>2. /\ t \in Scanning /\ t.comment = c /\ t.visible = s.visible /\ t.special = 1
    BY <1>1, <2>1 DEF Scanning
  <2>3. whole = "pi" /\ ~(s.tags > 0) /\ t.special > 0
    BY <1>1, <1>2, <1>9, <2>2
  <2>4. Hides(s, t, whole, i, definitions, titles)
    BY <1>2, <1>3, <2>2, <2>3 DEF Hides
  <2>5. QED BY <2>2, <2>4
<1>10. CASE text /\ kind \in {"div", "undiv"}
  <2> PICK n \in Nat : n = Tags(kind, 0)
    BY DEF Tags
  <2>1. t = [u EXCEPT !.tags = n]
    BY <1>4, <1>10
  <2>2. /\ t \in Scanning /\ t.comment = c /\ t.visible = s.visible /\ t.tags = n
        /\ t.fence = "none" /\ t.fragment = s.fragment /\ t.special = s.special
    BY <1>1, <2>1 DEF Scanning
  <2>3. whole = kind /\ ~(s.tags > 0) /\ ~s.comment /\ ~c /\ kind \notin Fences
    BY <1>1, <1>2, <1>10 DEF Fences
  <2>4. kind = "div" => n = 1
    BY DEF Tags
  <2>5. Hides(s, t, whole, i, definitions, titles)
    BY <1>10, <2>2, <2>3, <2>4 DEF Hides, Outside
  <2>6. QED BY <2>2, <2>5
<1>11. CASE text /\ kind # "pi" /\ kind \notin {"div", "undiv"}
  <2>1. t = InText(u, kind, i, definitions, titles)
    BY <1>4, <1>11
  <2>2. /\ t \in Scanning /\ t.comment = c /\ t.fragment = u.fragment
        /\ t.tags = u.tags /\ t.special = u.special /\ t.failed = u.failed
        /\ \/ t.visible = u.visible
           \/ /\ t.visible = u.visible \cup {i} /\ t.fence = u.fence
              /\ kind \notin Blanks
        /\ i \notin definitions.lines \cup titles /\ kind \in Fences =>
             t.fence = Marker(kind)
    BY <1>1, <2>1, TextIs
  <2>3. ~(s.tags > 0) /\ ~(s.special > 0) /\ u.tags = 0 /\ u.special = 0 /\ u.fragment = 0
    BY <1>1, <1>3, <1>11
  <2>4. whole \notin {"pi", "div"} \/ s.comment
    BY <1>2, <1>11
  <2>5. ~s.comment /\ whole \in Fences => kind = whole
    BY <1>2, <1>3
  <2>6. Hides(s, t, whole, i, definitions, titles)
    BY <1>2, <1>3, <2>2, <2>3, <2>4, <2>5 DEF Hides, Outside
  <2>7. kind \notin Blanks => ~c
    BY <1>2, <1>3
  <2>8. \/ t.visible = s.visible
        \/ t.visible = s.visible \cup {i} /\ Outside(t) /\ ~t.failed
    BY <1>1, <2>2, <2>3, <2>7 DEF Outside
  <2>9. QED BY <2>2, <2>6, <2>8
<1>12. QED BY <1>5, <1>6, <1>7, <1>8, <1>9, <1>10, <1>11

(* The scanner's step as the code takes it, and the states it runs through.  *)
AfterLine(doc, s, i) ==
  LET fenced == FinalFences(doc)
      definitions == Definitions(doc, fenced)
  IN IF s.failed THEN s
     ELSE IF s.fence = "none"
     THEN ScanLine(s, doc[i], i, definitions, Titles(doc, definitions.lines, fenced))
     ELSE IF Closes(doc[i], s.fence) THEN [s EXCEPT !.fence = "none"]
     ELSE s

ScanUpTo(doc, n, f) ==
  f = [i \in 0..n |-> IF i = 0 THEN Plain ELSE AfterLine(doc, f[i - 1], i)]

LEMMA ScanRecursive ==
  ASSUME NEW doc, NEW n \in Nat
  PROVE  \E f : ScanUpTo(doc, n, f)
<1> DEFINE S == {m \in Nat : \E f : ScanUpTo(doc, m, f)}
<1>1. 0 \in S
  <2> DEFINE f == [i \in 0..0 |-> Plain]
  <2>1. ScanUpTo(doc, 0, f)
    BY DEF ScanUpTo
  <2>2. QED BY <2>1
<1>2. ASSUME NEW m \in Nat, m \in S PROVE m + 1 \in S
  <2>1. PICK f : ScanUpTo(doc, m, f)
    BY <1>2
  <2> DEFINE g == [i \in 0..(m + 1) |-> IF i = m + 1 THEN AfterLine(doc, f[m], m + 1) ELSE f[i]]
             h == [i \in 0..(m + 1) |-> IF i = 0 THEN Plain ELSE AfterLine(doc, g[i - 1], i)]
  <2>2. ASSUME NEW i \in 0..(m + 1) PROVE g[i] = h[i]
    <3>1. CASE i = m + 1
      <4>1. g[i] = AfterLine(doc, f[m], i)
        BY <3>1
      <4>2. i - 1 = m /\ i # 0 /\ m \in 0..(m + 1) /\ m # m + 1
        BY <3>1
      <4>3. h[i] = AfterLine(doc, g[m], i)
        BY <4>2
      <4>4. g[m] = f[m]
        BY <4>2
      <4>5. QED BY <4>1, <4>3, <4>4
    <3>2. CASE i # m + 1
      <4>1. g[i] = f[i] /\ i \in 0..m
        BY <3>2
      <4>2. f[i] = IF i = 0 THEN Plain ELSE AfterLine(doc, f[i - 1], i)
        BY <2>1, <4>1 DEF ScanUpTo
      <4>3. i # 0 => i - 1 \in 0..(m + 1) /\ i - 1 # m + 1
        BY <4>1
      <4>4. i # 0 => g[i - 1] = f[i - 1]
        BY <4>3
      <4>5. QED BY <4>1, <4>2, <4>4
    <3>3. QED BY <3>1, <3>2
  <2>3. g = h
    <3>1. DOMAIN g = 0..(m + 1) /\ DOMAIN h = 0..(m + 1)
      OBVIOUS
    <3>2. QED BY <2>2
  <2>4. ScanUpTo(doc, m + 1, g)
    BY <2>3 DEF ScanUpTo
  <2> HIDE DEF g
  <2>5. QED BY <2>4
<1> HIDE DEF S
<1>3. Nat \subseteq S
  BY <1>1, <1>2, NaturalInduction
<1>4. n \in S
  BY <1>3
<1>5. QED BY <1>4 DEF S

LEMMA ScanIs ==
  ASSUME NEW doc, Len(doc) \in Nat, NEW i \in 0..Len(doc)
  PROVE  Scan(doc)[i] = IF i = 0 THEN Plain ELSE AfterLine(doc, Scan(doc)[i - 1], i)
<1>1. \E f : ScanUpTo(doc, Len(doc), f)
  BY ScanRecursive
<1>2. Scan(doc) = CHOOSE f : ScanUpTo(doc, Len(doc), f)
  BY DEF Scan, ScanUpTo, AfterLine
<1>3. ScanUpTo(doc, Len(doc), Scan(doc))
  BY <1>1, <1>2
<1>4. PICK f : f = Scan(doc)
  OBVIOUS
<1>5. ScanUpTo(doc, Len(doc), f)
  BY <1>3, <1>4
<1>6. f[i] = IF i = 0 THEN Plain ELSE AfterLine(doc, f[i - 1], i)
  BY <1>5 DEF ScanUpTo
<1>7. QED BY <1>4, <1>6

(* One step of the scanner, whatever the line before left.                   *)
LEMMA StepIs ==
  ASSUME NEW doc, NEW s \in Scanning, NEW i \in Nat,
         NEW whole, whole = doc[i], NEW t, t = AfterLine(doc, s, i)
  PROVE  /\ t \in Scanning
         /\ s.failed => t = s
         /\ ~s.failed /\ s.fence # "none" =>
              /\ t.comment = s.comment /\ t.fragment = s.fragment /\ t.tags = s.tags
              /\ t.special = s.special /\ t.visible = s.visible
              /\ whole = s.fence => t.fence = "none"
              /\ whole # s.fence => t.fence = s.fence
         /\ ~s.failed /\ s.fence = "none" =>
              /\ \/ t.visible = s.visible
                 \/ t.visible = s.visible \cup {i} /\ Outside(t) /\ ~t.failed
              /\ \E definitions, titles :
                   /\ definitions.lines \cup titles = Consumed(doc, FinalFences(doc))
                   /\ Hides(s, t, whole, i, definitions, titles)
<1> DEFINE definitions == Definitions(doc, FinalFences(doc))
           titles == Titles(doc, definitions.lines, FinalFences(doc))
<1>1. t = IF s.failed THEN s
          ELSE IF s.fence = "none" THEN ScanLine(s, doc[i], i, definitions, titles)
          ELSE IF doc[i] = s.fence THEN [s EXCEPT !.fence = "none"]
          ELSE s
  BY DEF AfterLine, Closes
<1>2. definitions.lines \cup titles = Consumed(doc, FinalFences(doc))
  BY DEF Consumed
<1> HIDE DEF definitions, titles
<1>3. CASE s.failed
  BY <1>1, <1>3
<1>4. CASE ~s.failed /\ s.fence = "none"
  <2>1. t = ScanLine(s, doc[i], i, definitions, titles)
    BY <1>1, <1>4
  <2>3. t = ScanLine(s, whole, i, definitions, titles)
    BY <2>1
  <2>4. /\ t \in Scanning
        /\ Hides(s, t, whole, i, definitions, titles)
        /\ \/ t.visible = s.visible
           \/ t.visible = s.visible \cup {i} /\ Outside(t) /\ ~t.failed
    BY <1>4, <2>3, LineIs
  <2>5. QED BY <1>2, <1>4, <2>4
<1>5. CASE ~s.failed /\ s.fence # "none" /\ doc[i] = s.fence
  <2>1. t = [s EXCEPT !.fence = "none"]
    BY <1>1, <1>5
  <2>2. QED BY <1>5, <2>1 DEF Scanning
<1>6. CASE ~s.failed /\ s.fence # "none" /\ doc[i] # s.fence
  BY <1>1, <1>6
<1>7. QED BY <1>3, <1>4, <1>5, <1>6

(* A line is visible only where the scanner is outside everything after it.  *)
LEMMA VisibleIs ==
  ASSUME NEW doc, Len(doc) \in Nat, NEW n \in 0..Len(doc)
  PROVE  /\ Scan(doc)[n] \in Scanning
         /\ \A i \in Scan(doc)[n].visible :
              i \in 1..n /\ Outside(Scan(doc)[i]) /\ ~Scan(doc)[i].failed
         /\ ~Scan(doc)[n].failed => \A i \in 0..n : ~Scan(doc)[i].failed
<1> DEFINE Visibly(m) ==
             /\ Scan(doc)[m] \in Scanning
             /\ \A i \in Scan(doc)[m].visible :
                  i \in 1..m /\ Outside(Scan(doc)[i]) /\ ~Scan(doc)[i].failed
             /\ ~Scan(doc)[m].failed => \A i \in 0..m : ~Scan(doc)[i].failed
           S == {m \in Nat : m <= Len(doc) => Visibly(m)}
<1>1. 0 \in S
  <2>1. Scan(doc)[0] = Plain
    BY ScanIs
  <2>2. Plain \in Scanning /\ Plain.visible = {} /\ ~Plain.failed
    BY DEF Plain, Scanning
  <2>3. 0..0 = {0}
    OBVIOUS
  <2>4. QED BY <2>1, <2>2, <2>3
<1>2. ASSUME NEW m \in Nat, m \in S PROVE m + 1 \in S
  <2> SUFFICES ASSUME m + 1 <= Len(doc) PROVE Visibly(m + 1)
    OBVIOUS
  <2>1. Visibly(m)
    BY <1>2
  <2>2. m + 1 \in 0..Len(doc) /\ m + 1 # 0 /\ (m + 1) - 1 = m /\ m + 1 \in Nat
    OBVIOUS
  <2>3. PICK s : s = Scan(doc)[m]
    OBVIOUS
  <2>4. PICK t : t = Scan(doc)[m + 1]
    OBVIOUS
  <2>5. t = AfterLine(doc, s, m + 1)
    BY <2>2, <2>3, <2>4, ScanIs
  <2>6. s \in Scanning
    BY <2>1, <2>3
  <2> PICK whole : whole = doc[m + 1]
    OBVIOUS
  <2>7. /\ t \in Scanning /\ (s.failed => t = s)
        /\ \/ t.visible = s.visible
           \/ t.visible = s.visible \cup {m + 1} /\ Outside(t) /\ ~t.failed
    BY <2>2, <2>5, <2>6, StepIs
  <2>8. /\ \A i \in s.visible : i \in 1..m /\ Outside(Scan(doc)[i]) /\ ~Scan(doc)[i].failed
        /\ ~s.failed => \A i \in 0..m : ~Scan(doc)[i].failed
    BY <2>1, <2>3
  <2>9. /\ 1..m \subseteq 1..(m + 1) /\ m + 1 \in 1..(m + 1)
        /\ \A i \in 0..(m + 1) : i \in 0..m \/ i = m + 1
    OBVIOUS
  <2>10. \A i \in t.visible :
           i \in 1..(m + 1) /\ Outside(Scan(doc)[i]) /\ ~Scan(doc)[i].failed
    BY <2>4, <2>7, <2>8, <2>9
  <2>11. ~t.failed => \A i \in 0..(m + 1) : ~Scan(doc)[i].failed
    BY <2>4, <2>7, <2>8, <2>9
  <2>12. QED BY <2>4, <2>7, <2>10, <2>11
<1> HIDE DEF S
<1>3. Nat \subseteq S
  BY <1>1, <1>2, NaturalInduction
<1>4. n \in S /\ n <= Len(doc)
  BY <1>3
<1>5. QED BY <1>4 DEF S

(* The lines of a kind between j and i.                                      *)
Of(doc, kind, j, i) == {k \in (j + 1)..i : doc[k] = kind}

LEMMA OfIs ==
  ASSUME NEW doc, NEW kind, NEW j \in Nat, NEW i \in Nat, i >= j
  PROVE  /\ IsFiniteSet(Of(doc, kind, j, i))
         /\ Cardinality(Of(doc, kind, j, i)) \in Nat
         /\ Cardinality(Of(doc, kind, j, i)) = 0 => \A k \in (j + 1)..i : doc[k] # kind
         /\ Cardinality(Of(doc, kind, j, j)) = 0
<1>1. IsFiniteSet(Of(doc, kind, j, i))
  <2>1. IsFiniteSet((j + 1)..i)
    BY FS_Interval
  <2>2. Of(doc, kind, j, i) \subseteq (j + 1)..i
    BY DEF Of
  <2>3. QED BY <2>1, <2>2, FS_Subset
<1>2. Cardinality(Of(doc, kind, j, i)) \in Nat
  BY <1>1, FS_CardinalityType
<1>3. Cardinality(Of(doc, kind, j, i)) = 0 => \A k \in (j + 1)..i : doc[k] # kind
  BY <1>1, FS_EmptySet DEF Of
<1>4. Of(doc, kind, j, j) = {}
  BY DEF Of
<1>5. QED BY <1>1, <1>2, <1>3, <1>4, FS_EmptySet

LEMMA OfOneMore ==
  ASSUME NEW doc, NEW kind, NEW j \in Nat, NEW i \in Nat, i >= j,
         NEW n \in Nat, n = i + 1, doc[n] = kind
  PROVE  Cardinality(Of(doc, kind, j, n)) = Cardinality(Of(doc, kind, j, i)) + 1
<1>1. (j + 1)..n = (j + 1)..i \cup {n} /\ n \notin (j + 1)..i
  OBVIOUS
<1>2. Of(doc, kind, j, n) = Of(doc, kind, j, i) \cup {n} /\ n \notin Of(doc, kind, j, i)
  BY <1>1 DEF Of
<1>3. IsFiniteSet(Of(doc, kind, j, i))
  BY OfIs
<1>4. QED BY <1>2, <1>3, FS_AddElement

LEMMA OfNoMore ==
  ASSUME NEW doc, NEW kind, NEW j \in Nat, NEW i \in Nat, i >= j,
         NEW n \in Nat, n = i + 1, doc[n] # kind
  PROVE  Cardinality(Of(doc, kind, j, n)) = Cardinality(Of(doc, kind, j, i))
<1>1. (j + 1)..n = (j + 1)..i \cup {n} /\ n \notin (j + 1)..i
  OBVIOUS
<1>2. Of(doc, kind, j, n) = Of(doc, kind, j, i)
  BY <1>1 DEF Of
<1>3. QED BY <1>2

LEMMA StillOpenIs ==
  ASSUME NEW doc, NEW j \in Nat, NEW i \in Nat, i >= j, StillOpen(doc, j, i)
  PROVE  /\ doc[j] \in {"open", "pi", "div"} \cup Fences
         /\ doc[j] = "open" => \A k \in (j + 1)..i : doc[k] # "close"
         /\ doc[j] = "pi" => \A k \in (j + 1)..i : doc[k] # "unpi"
         /\ doc[j] = "div" =>
              /\ \A k \in (j + 1)..i : doc[k] \notin {"open", "tagstart"}
              /\ \A k \in (j + 1)..i :
                   Cardinality(Of(doc, "undiv", j, k)) <= Cardinality(Of(doc, "div", j, k))
         /\ doc[j] \in Fences => \A k \in (j + 1)..i : doc[k] # Marker(doc[j])
<1>1. CASE doc[j] = "open"
  <2>1. Cardinality(Of(doc, "close", j, i)) = 0
    BY <1>1 DEF StillOpen, Of
  <2>2. \A k \in (j + 1)..i : doc[k] # "close"
    BY <2>1, OfIs
  <2>3. QED BY <1>1, <2>2 DEF Fences
<1>2. CASE doc[j] = "pi"
  <2>1. Cardinality(Of(doc, "unpi", j, i)) = 0
    BY <1>2 DEF StillOpen, Of
  <2>2. \A k \in (j + 1)..i : doc[k] # "unpi"
    BY <2>1, OfIs
  <2>3. QED BY <1>2, <2>2 DEF Fences
<1>3. CASE doc[j] = "div"
  <2>1. /\ {doc[k] : k \in (j + 1)..i} \cap {"open", "tagstart"} = {}
        /\ \A k \in (j + 1)..i :
             Cardinality(Of(doc, "undiv", j, k)) <= Cardinality(Of(doc, "div", j, k))
    BY <1>3 DEF StillOpen, Of
  <2>2. \A k \in (j + 1)..i : doc[k] \notin {"open", "tagstart"}
    BY <2>1
  <2>3. QED BY <1>3, <2>1, <2>2 DEF Fences
<1>4. CASE doc[j] \in {"tick", "info"}
  <2>1. Cardinality(Of(doc, "tick", j, i)) = 0
    BY <1>4 DEF StillOpen, Of
  <2>2. \A k \in (j + 1)..i : doc[k] # "tick"
    BY <2>1, OfIs
  <2>3. Marker(doc[j]) = "tick"
    BY <1>4 DEF Marker, Fences
  <2>4. QED BY <1>4, <2>2, <2>3 DEF Fences
<1>5. CASE doc[j] = "tilde"
  <2>1. Cardinality(Of(doc, "tilde", j, i)) = 0
    BY <1>5 DEF StillOpen, Of
  <2>2. \A k \in (j + 1)..i : doc[k] # "tilde"
    BY <2>1, OfIs
  <2>3. Marker(doc[j]) = "tilde"
    BY <1>5 DEF Marker, Fences
  <2>4. QED BY <1>5, <2>2, <2>3 DEF Fences
<1>6. CASE doc[j] \notin {"open", "pi", "div", "tick", "info", "tilde"}
  <2>1. ~StillOpen(doc, j, i)
    BY <1>6 DEF StillOpen
  <2>2. QED BY <2>1
<1>7. QED BY <1>1, <1>2, <1>3, <1>4, <1>5, <1>6

(* What is open on line i of what line j opened.                             *)
Covers(doc, j, i, t) ==
  /\ doc[j] = "open" => t.comment
  /\ doc[j] = "pi" => t.special > 0
  /\ doc[j] = "div" =>
       /\ t.tags + Cardinality(Of(doc, "undiv", j, i))
            = 1 + Cardinality(Of(doc, "div", j, i))
       /\ t.fence = "none" /\ ~t.comment /\ t.fragment = 0
  /\ doc[j] \in Fences => t.fence = Marker(doc[j])

(* While it is open, the next line does not end it.                          *)
LEMMA GoesOn ==
  ASSUME NEW doc, NEW j \in Nat, NEW end \in Nat, StillOpen(doc, j, end),
         NEW i \in Nat, j <= i, i < end,
         NEW s \in Scanning, ~s.failed, Covers(doc, j, i, s),
         NEW t, t = AfterLine(doc, s, i + 1)
  PROVE  Covers(doc, j, i + 1, t)
<1>1. /\ i + 1 \in Nat /\ i + 1 >= j /\ i + 1 \in (j + 1)..end /\ i >= j /\ end >= j
      /\ i > j => i \in (j + 1)..end
  OBVIOUS
<1>2. PICK whole : whole = doc[i + 1]
  OBVIOUS
<1>3. PICK from : from = doc[j]
  OBVIOUS
<1>4. /\ from \in {"open", "pi", "div"} \cup Fences
      /\ from = "open" => whole # "close"
      /\ from = "pi" => whole # "unpi"
      /\ from = "div" => whole \notin {"open", "tagstart"}
      /\ from \in Fences => whole # Marker(from)
  BY <1>1, <1>2, <1>3, StillOpenIs
<1>5. /\ t \in Scanning
      /\ s.fence # "none" =>
           /\ t.comment = s.comment /\ t.special = s.special
           /\ whole # s.fence => t.fence = s.fence
      /\ s.fence = "none" =>
           \E definitions, titles : Hides(s, t, whole, i + 1, definitions, titles)
  <2>1. PICK n \in Nat : n = i + 1
    BY <1>1
  <2>2. t = AfterLine(doc, s, n) /\ whole = doc[n]
    BY <1>2, <2>1
  <2>3. t \in Scanning
    BY ONLY <2>2, s \in Scanning, ~s.failed, n \in Nat, StepIs
  <2>4. s.fence # "none" =>
          /\ t.comment = s.comment /\ t.special = s.special
          /\ whole # s.fence => t.fence = s.fence
    BY ONLY <2>2, s \in Scanning, ~s.failed, n \in Nat, StepIs
  <2>5. s.fence = "none" =>
          \E definitions, titles : Hides(s, t, whole, n, definitions, titles)
    BY ONLY <2>2, s \in Scanning, ~s.failed, n \in Nat, StepIs
  <2>6. QED BY <2>1, <2>3, <2>4, <2>5
<1>6. /\ s.fence = "none" =>
           /\ s.comment /\ whole # "close" => t.comment
           /\ s.special > 0 /\ whole # "unpi" => t.special > 0
           /\ /\ s.tags > 0 /\ ~s.comment /\ s.fragment = 0
              /\ whole \notin {"open", "tagstart"}
              => /\ t.tags = Tags(whole, s.tags) /\ t.fence = "none" /\ ~t.comment
                 /\ t.fragment = 0
  BY <1>5 DEF Hides
<1>7. /\ from = "open" => s.comment
      /\ from = "pi" => s.special > 0
      /\ from \in Fences => s.fence = Marker(from)
  BY <1>3 DEF Covers
<1>8. from = "open" => t.comment
  BY <1>4, <1>5, <1>6, <1>7
<1>9. from = "pi" => t.special > 0
  BY <1>4, <1>5, <1>6, <1>7
<1>10. from \in Fences => t.fence = Marker(from)
  <2>1. from \in Fences => Marker(from) # "none"
    BY MarkerIs
  <2>2. QED BY <1>4, <1>5, <1>7, <2>1
<1>11. ASSUME from = "div"
       PROVE  /\ t.tags + Cardinality(Of(doc, "undiv", j, i + 1))
                   = 1 + Cardinality(Of(doc, "div", j, i + 1))
              /\ t.fence = "none" /\ ~t.comment /\ t.fragment = 0
  <2>1. /\ s.tags + Cardinality(Of(doc, "undiv", j, i))
             = 1 + Cardinality(Of(doc, "div", j, i))
        /\ s.fence = "none" /\ ~s.comment /\ s.fragment = 0
    BY <1>3, <1>11 DEF Covers
  <2>2. PICK ins \in Nat : ins = Cardinality(Of(doc, "div", j, i))
    BY OfIs
  <2>3. PICK outs \in Nat : outs = Cardinality(Of(doc, "undiv", j, i))
    BY OfIs
  <2>4. outs <= ins
    <3>1. CASE i = j
      <4>1. outs = 0
        BY <2>3, <3>1, OfIs
      <4>2. QED BY <2>2, <4>1
    <3>2. CASE i > j
      <4>1. \A k \in (j + 1)..end :
              Cardinality(Of(doc, "undiv", j, k)) <= Cardinality(Of(doc, "div", j, k))
        BY <1>1, <1>3, <1>11, StillOpenIs
      <4>2. QED BY <1>1, <2>2, <2>3, <3>2, <4>1
    <3>3. QED BY <3>1, <3>2
  <2>5. PICK tags \in Nat : tags = s.tags
    BY DEF Scanning
  <2>6. tags + outs = 1 + ins
    BY <2>1, <2>2, <2>3, <2>5
  <2>7. tags > 0
    BY <2>4, <2>6
  <2>8. t.tags = Tags(whole, tags) /\ t.fence = "none" /\ ~t.comment /\ t.fragment = 0
    BY <1>4, <1>6, <1>11, <2>1, <2>5, <2>7
  <2>9. /\ Cardinality(Of(doc, "div", j, i + 1)) = ins + IF whole = "div" THEN 1 ELSE 0
        /\ Cardinality(Of(doc, "undiv", j, i + 1)) = outs + IF whole = "undiv" THEN 1 ELSE 0
    <3>1. PICK n \in Nat : n = i + 1
      BY <1>1
    <3>2. whole = doc[n]
      BY <1>2, <3>1
    <3>3. /\ whole = "div" => Cardinality(Of(doc, "div", j, n)) = ins + 1
          /\ whole # "div" => Cardinality(Of(doc, "div", j, n)) = ins
      BY <2>2, <3>1, <3>2, OfOneMore, OfNoMore
    <3>4. /\ whole = "undiv" => Cardinality(Of(doc, "undiv", j, n)) = outs + 1
          /\ whole # "undiv" => Cardinality(Of(doc, "undiv", j, n)) = outs
      BY <2>3, <3>1, <3>2, OfOneMore, OfNoMore
    <3>5. QED BY <3>1, <3>3, <3>4
  <2>10. Tags(whole, tags) + (outs + IF whole = "undiv" THEN 1 ELSE 0)
           = 1 + (ins + IF whole = "div" THEN 1 ELSE 0)
    BY <2>6, <2>7 DEF Tags
  <2>11. QED BY <2>8, <2>9, <2>10
<1>12. QED BY <1>3, <1>8, <1>9, <1>10, <1>11 DEF Covers

(* What line j opened covers every line up to the last it is open on.        *)
LEMMA CoversAll ==
  ASSUME NEW doc, Len(doc) \in Nat, NEW j \in 1..Len(doc),
         Outside(Scan(doc)[j - 1]), ~Scan(doc)[j - 1].failed,
         j \notin Consumed(doc, FinalFences(doc)),
         NEW end \in j..Len(doc), ~Scan(doc)[end].failed, StillOpen(doc, j, end)
  PROVE  Covers(doc, j, end, Scan(doc)[end])
<1> DEFINE S == {m \in Nat : j + m <= end => Covers(doc, j, j + m, Scan(doc)[j + m])}
<1>1. /\ j \in Nat /\ end \in Nat /\ end >= j /\ end \in 0..Len(doc)
      /\ \A i \in 0..end : i \in 0..Len(doc)
  OBVIOUS
<1>2. \A i \in 0..end : Scan(doc)[i] \in Scanning /\ ~Scan(doc)[i].failed
  BY <1>1, VisibleIs
<1>3. 0 \in S
  <2>1. j - 1 \in 0..end /\ j \in 0..Len(doc) /\ j # 0
    BY <1>1
  <2>2. PICK s : s = Scan(doc)[j - 1]
    OBVIOUS
  <2>3. PICK t : t = Scan(doc)[j]
    OBVIOUS
  <2>4. s \in Scanning /\ ~s.failed /\ Outside(s) /\ t = AfterLine(doc, s, j)
    BY <1>2, <2>1, <2>2, <2>3, ScanIs
  <2>5. PICK whole : whole = doc[j]
    OBVIOUS
  <2>6. s.fence = "none"
    BY <2>4 DEF Outside
  <2>7. PICK definitions, titles :
          /\ definitions.lines \cup titles = Consumed(doc, FinalFences(doc))
          /\ Hides(s, t, whole, j, definitions, titles)
    BY <1>1, <2>4, <2>5, <2>6, StepIs
  <2>8. /\ whole = "open" => t.comment
        /\ whole = "pi" => t.special > 0
        /\ whole = "div" =>
             t.tags = 1 /\ t.fence = "none" /\ ~t.comment /\ t.fragment = 0
        /\ whole \in Fences => t.fence = Marker(whole)
    BY <2>4, <2>7 DEF Hides
  <2>9. /\ Cardinality(Of(doc, "undiv", j, j)) = 0
        /\ Cardinality(Of(doc, "div", j, j)) = 0
    BY <1>1, OfIs
  <2>10. Covers(doc, j, j, t)
    BY <2>5, <2>8, <2>9 DEF Covers
  <2>11. j + 0 = j
    BY <1>1
  <2>12. QED BY <2>3, <2>10, <2>11
<1>4. ASSUME NEW m \in Nat, m \in S PROVE m + 1 \in S
  <2> SUFFICES ASSUME j + (m + 1) <= end
               PROVE  Covers(doc, j, j + (m + 1), Scan(doc)[j + (m + 1)])
    OBVIOUS
  <2>1. PICK i \in Nat : i = j + m
    BY <1>1
  <2>2. /\ j + (m + 1) = i + 1 /\ j <= i /\ i < end /\ i \in 0..end
        /\ i + 1 \in 0..Len(doc) /\ i + 1 # 0 /\ (i + 1) - 1 = i
    BY <1>1, <2>1
  <2>3. PICK s : s = Scan(doc)[i]
    OBVIOUS
  <2>4. PICK t : t = Scan(doc)[i + 1]
    OBVIOUS
  <2>5. s \in Scanning /\ ~s.failed
    BY <1>2, <2>2, <2>3
  <2>6. t = AfterLine(doc, s, i + 1)
    BY <2>2, <2>3, <2>4, ScanIs
  <2>7. Covers(doc, j, i, s)
    BY <1>1, <1>4, <2>1, <2>2, <2>3
  <2>8. Covers(doc, j, i + 1, t)
    BY <1>1, <2>2, <2>5, <2>6, <2>7, GoesOn
  <2>9. QED BY <2>2, <2>4, <2>8
<1> HIDE DEF S
<1>5. Nat \subseteq S
  BY <1>3, <1>4, NaturalInduction
<1>6. PICK m \in Nat : j + m = end
  <2>1. end - j \in Nat /\ j + (end - j) = end
    BY <1>1
  <2>2. QED BY <2>1
<1>7. m \in S /\ j + m <= end
  BY <1>1, <1>5, <1>6
<1>8. QED BY <1>6, <1>7 DEF S

(* While it is open nothing is outside.                                      *)
LEMMA CoveredIsInside ==
  ASSUME NEW doc, NEW j \in Nat, NEW i \in Nat, i >= j, StillOpen(doc, j, i),
         NEW s \in Scanning, Covers(doc, j, i, s)
  PROVE  /\ ~Outside(s)
         /\ doc[j] \in {"open", "pi", "div"} => ~Legible(s)
<1>1. CASE doc[j] = "open"
  BY <1>1 DEF Covers, Outside, Legible, Fences
<1>2. CASE doc[j] = "pi"
  <2>1. s.special > 0
    BY <1>2 DEF Covers
  <2>2. s.special # 0
    BY <2>1
  <2>3. QED BY <2>2 DEF Outside, Legible
<1>3. CASE doc[j] = "div"
  <2>1. PICK ins \in Nat : ins = Cardinality(Of(doc, "div", j, i))
    BY OfIs
  <2>2. PICK outs \in Nat : outs = Cardinality(Of(doc, "undiv", j, i))
    BY OfIs
  <2>3. s.tags + outs = 1 + ins
    BY <1>3, <2>1, <2>2 DEF Covers
  <2>4. outs <= ins
    <3>1. CASE i = j
      <4>1. outs = 0
        BY <2>2, <3>1, OfIs
      <4>2. QED BY <2>1, <4>1
    <3>2. CASE i > j
      <4>1. \A k \in (j + 1)..i :
              Cardinality(Of(doc, "undiv", j, k)) <= Cardinality(Of(doc, "div", j, k))
        BY <1>3, StillOpenIs
      <4>2. i \in (j + 1)..i
        BY <3>2
      <4>3. QED BY <2>1, <2>2, <4>1, <4>2
    <3>3. QED BY <3>1, <3>2
  <2>5. s.tags \in Nat
    BY DEF Scanning
  <2>6. s.tags # 0
    BY <2>3, <2>4, <2>5
  <2>7. QED BY <2>6 DEF Outside, Legible
<1>4. CASE doc[j] \in Fences
  <2>1. s.fence = Marker(doc[j]) /\ Marker(doc[j]) # "none"
    BY <1>4, MarkerIs DEF Covers
  <2>2. QED BY <1>4, <2>1 DEF Outside, Fences
<1>5. QED BY <1>1, <1>2, <1>3, <1>4, StillOpenIs

(* What counts is visible, and only when the document ended legible.         *)
LEMMA CountedIsVisible ==
  ASSUME NEW doc, NEW i \in SectionEvidence(doc) \cup AttestationEvidence(doc)
  PROVE  i \in Scan(doc)[Len(doc)].visible /\ Legible(Scan(doc)[Len(doc)])
<1>1. PICK end : end = Scan(doc)[Len(doc)]
  OBVIOUS
<1>2. CASE i \in AttestationEvidence(doc)
  BY <1>1, <1>2 DEF AttestationEvidence
<1>3. CASE i \in SectionEvidence(doc)
  <2> DEFINE sections == {SectionOf(doc, end.visible, h) :
                            h \in {k \in end.visible : doc[k] = "wanted"}}
  <2>1. /\ Legible(end)
        /\ i \in UNION {s \in sections : \A k \in s : doc[k] # "inlinehtml"}
    BY <1>1, <1>3 DEF SectionEvidence
  <2>2. PICK h : i \in SectionOf(doc, end.visible, h)
    BY <2>1
  <2>3. QED BY <1>1, <2>1, <2>2 DEF SectionOf
<1>4. QED BY <1>2, <1>3

BodyTyped == body \in Seq(LineKind)

LEMMA NothingHiddenCounts == ASSUME BodyTyped PROVE HiddenNeverCounts
<1> DEFINE doc == body
           scan == Scan(doc)
           counted == SectionEvidence(doc) \cup AttestationEvidence(doc)
           definitions == Consumed(doc, FinalFences(doc))
           opened == {j \in DOMAIN doc \ definitions :
                        Outside(scan[j - 1]) /\ ~scan[j - 1].failed}
<1>1. PICK n \in Nat : n = Len(doc) /\ DOMAIN doc = 1..n
  BY DEF BodyTyped
<1>2. ASSUME NEW i \in counted
      PROVE  /\ i \in 1..n /\ Outside(scan[i]) /\ ~scan[i].failed
             /\ Legible(scan[n]) /\ ~scan[n].failed
  <2>1. i \in scan[n].visible /\ Legible(scan[n])
    BY <1>1, CountedIsVisible
  <2>2. n \in 0..Len(doc) /\ Len(doc) \in Nat
    BY <1>1
  <2>3. i \in 1..n /\ Outside(scan[i]) /\ ~scan[i].failed
    BY <2>1, <2>2, VisibleIs
  <2>4. QED BY <2>1, <2>3 DEF Legible
<1>3. ASSUME NEW j \in opened, NEW i \in j..n, ~scan[i].failed, StillOpen(doc, j, i)
      PROVE  /\ ~Outside(scan[i])
             /\ doc[j] \in {"open", "pi", "div"} => ~Legible(scan[i])
  <2>1. /\ j \in 1..Len(doc) /\ Len(doc) \in Nat /\ i \in j..Len(doc)
        /\ Outside(scan[j - 1]) /\ ~scan[j - 1].failed
        /\ j \notin Consumed(doc, FinalFences(doc))
    BY <1>1, <1>3
  <2>2. Covers(doc, j, i, scan[i])
    BY <1>3, <2>1, CoversAll
  <2>3. j \in Nat /\ i \in Nat /\ i >= j /\ i \in 0..Len(doc)
    BY <2>1
  <2>4. scan[i] \in Scanning
    BY <2>1, <2>3, VisibleIs
  <2>5. QED BY <1>3, <2>2, <2>3, <2>4, CoveredIsInside
<1> HIDE DEF counted, definitions, scan
<1>4. ASSUME NEW i \in counted, NEW j \in opened, j < i
      PROVE  ~StillOpen(doc, j, i)
  <2>1. j \in 1..n /\ i \in 1..n
    BY <1>1, <1>2
  <2>2. i \in j..n
    BY <1>4, <2>1
  <2>3. QED BY <1>2, <1>3, <2>2
<1>5. ASSUME counted # {}, NEW j \in opened, doc[j] \in {"open", "pi", "div"}
      PROVE  ~StillOpen(doc, j, Len(doc))
  <2>1. Legible(scan[n]) /\ ~scan[n].failed
    BY <1>2, <1>5
  <2>2. j \in 1..n
    BY <1>1
  <2>3. n \in j..n
    BY <2>2
  <2>4. QED BY <1>1, <1>3, <1>5, <2>1, <2>3
<1>6. QED BY <1>4, <1>5 DEF HiddenNeverCounts, counted, definitions, scan

LEMMA BodyTypedNext == ASSUME BodyTyped, [Next]_vars PROVE BodyTyped'
<1>1. ASSUME NEW kind \in LineKinds, WriteLine(kind) PROVE BodyTyped'
  <2>1. kind \in LineKind
    BY RunnerAssumption
  <2>2. body' = Append(body, kind)
    BY <1>1 DEF WriteLine
  <2>3. QED BY <2>1, <2>2 DEF BodyTyped
<1>2. CASE UNCHANGED body
  BY <1>2 DEF BodyTyped
<1>3. CASE Author
  <2>1. CASE UNCHANGED body
    BY <1>2, <2>1
  <2>2. CASE \E kind \in LineKinds : WriteLine(kind)
    BY <1>1, <2>2
  <2>3. QED
    BY <1>3, <2>1, <2>2 DEF Author, OpenRun, CompleteRun, PostStatus, Tick, AddReview
<1>4. CASE Run \/ UNCHANGED vars
  BY <1>2, <1>4
  DEF Run, Load, WriteSummary, SetReport, SetStatus, Conclude, Fail, vars,
      pullRequest
<1>5. QED BY <1>3, <1>4 DEF Next

(* Whatever the author writes, however long, text inside a comment, a fence, *)
(* a processing instruction or an HTML element is no evidence, and nothing   *)
(* in a body that ends inside one of those that hide is.                     *)
THEOREM HiddenTextNeverCounts == Spec => []HiddenNeverCounts
<1>1. Init => BodyTyped
  <2> SUFFICES ASSUME Init PROVE BodyTyped
    OBVIOUS
  <2>1. body \in FirstLines \/ body = <<"text">>
    BY DEF Init
  <2>2. "text" \in LineKind
    BY DEF LineKind, Words
  <2>3. <<"text">> \in Seq(LineKind)
    BY <2>2
  <2>4. QED BY <2>1, <2>3, RunnerAssumption DEF BodyTyped
<1>2. BodyTyped /\ [Next]_vars => BodyTyped'
  BY BodyTypedNext
<1>3. QED BY <1>1, <1>2, NothingHiddenCounts, PTL DEF Spec
=============================================================================
