--------------------------- MODULE ReadinessEngine ---------------------------
(***************************************************************************)
(* evaluate of src/src/engine.ts and matchesRule of src/src/matcher.ts:    *)
(* which rules of a policy apply to a pull request, and whether each       *)
(* requirement of theirs is met by the evidence.                           *)
(*                                                                         *)
(* A policy is a set of rules [id, paths, labels, require], as parsePolicy *)
(* lets them through: a match set is [any, all, none], an absent part is   *)
(* {}.  An input is [changed, previous, labels, body, linked, checks,      *)
(* reviews], as normalizeInput leaves it.                                  *)
(***************************************************************************)
EXTENDS CheckEvidence, MarkdownVisibility, SequencesExt

CONSTANTS
  Hits,      \* [pattern -> SUBSET Path]: the paths a glob pattern matches
  Person,    \* [login -> person]: toLocaleLowerCase of a login
  Maintainer \* the people whose permission makes them maintainers

NoMatchSet == [any |-> {}, all |-> {}, none |-> {}]

-----------------------------------------------------------------------------
(* Matching *)

(* hits is what of the match set the pull request touches. *)
MatchSetHolds(matchset, hits) ==
  /\ matchset.any # {} => matchset.any \cap hits # {}
  /\ matchset.all \subseteq hits
  /\ matchset.none \cap hits = {}

(* matchesRule, matchesPaths, matchesLabels *)
MatchesRule(rule, input) ==
  LET names == input.changed \cup input.previous
  IN /\ MatchSetHolds(rule.paths, {p \in DOMAIN Hits : Hits[p] \cap names # {}})
     /\ MatchSetHolds(rule.labels, input.labels)

-----------------------------------------------------------------------------
(* Requirements *)

Accepts(requirement, checks) ==
  /\ checks # {}
  /\ \A c \in checks : c.conclusion \in requirement.conclusions

(* The case "check" of evaluateRequirement. *)
CheckSatisfied(requirement, checks) ==
  LET named == {c \in checks : c.name = requirement.name}
      unqualified == {c \in named : c.app = NoApp}
  IN Accepts(requirement,
       CASE requirement.app # NoApp ->
              {c \in named : c.app = requirement.app}
         [] requirement.app = NoApp /\ unqualified # {} -> unqualified
         [] OTHER -> named)

(* isLaterReview *)
IsLater(current, candidate) ==
  IF candidate.at = NoTime \/ current.at = NoTime
  THEN candidate.at # NoTime \/ current.at = NoTime
  ELSE candidate.at >= current.at

(* hasConflictingTimestampedState *)
Conflicts(current, candidate) ==
  /\ current.at # NoTime /\ candidate.at = current.at
  /\ candidate.state # current.state

NoReview == [state |-> "none", at |-> NoTime]

(* Seeded fault: two states at one time are settled by their order. *)
TakeReviewInOrder(latest, review) ==
  LET current == latest[Person[review.login]]
  IN IF \/ review.state = "commented"
        \/ current.state # "none" /\ ~IsLater(current, review)
     THEN latest
     ELSE [latest EXCEPT ![Person[review.login]] =
             [state |-> review.state, at |-> review.at]]

(* One review of the loop in the case "maintainer_review". *)
TakeReview(latest, review) ==
  LET current == latest[Person[review.login]]
      known == current.state # "none"
      put(state) == [latest EXCEPT ![Person[review.login]] =
                       [state |-> state, at |-> review.at]]
  IN IF review.state = "commented" THEN latest
     ELSE IF known /\ Conflicts(current, review) THEN put("dismissed")
     ELSE IF known /\ ~IsLater(current, review) THEN latest
     ELSE put(review.state)

(* What the loop knows of each person after each review. *)
LatestReviews(reviews) ==
  LET after[i \in 0..Len(reviews)] ==
        IF i = 0 THEN [p \in {Person[l] : l \in DOMAIN Person} |-> NoReview]
        ELSE TakeReview(after[i - 1], reviews[i])
  IN after

(* The maintainers whose review counts as an approval. *)
Approvers(reviews) ==
  LET latest == LatestReviews(reviews)[Len(reviews)]
  IN {p \in DOMAIN latest : p \in Maintainer /\ latest[p].state = "approved"}

(* evaluateRequirement *)
Satisfied(requirement, input) ==
  CASE requirement.type = "pr_body_section" -> SectionEvidence(input.body) # {}
    [] requirement.type = "human_attestation" ->
         AttestationEvidence(input.body) # {}
    [] requirement.type = "linked_issue" -> input.linked
    [] requirement.type = "check" -> CheckSatisfied(requirement, input.checks)
    [] requirement.type = "maintainer_review" ->
         Cardinality(Approvers(input.reviews)) >= requirement.minimum

(* Seeded fault: checks of one name are one requirement. *)
RequirementIdentityByName(requirement) ==
  IF requirement.type = "check"
  THEN <<requirement.type, requirement.name>>
  ELSE <<requirement.type, requirement>>

(* requirementIdentity: requirements that are asked once. *)
RequirementIdentity(requirement) == <<requirement.type, requirement>>

-----------------------------------------------------------------------------
(* evaluate: the triggered rules, and one result per distinct requirement.   *)
Evaluate(policy, input) ==
  LET triggered == {rule \in policy : MatchesRule(rule, input)}
      required == UNION {rule.require : rule \in triggered}
      results ==
        [k \in {RequirementIdentity(q) : q \in required} |->
           LET q == CHOOSE x \in required : RequirementIdentity(x) = k
           IN [satisfied |-> Satisfied(q, input),
               rules |-> {rule.id : rule \in
                            {x \in triggered : \E y \in x.require :
                               RequirementIdentity(y) = k}}]]
  IN [status |-> IF \A k \in DOMAIN results : results[k].satisfied
                 THEN "ready" ELSE "not_ready",
      triggered |-> {rule.id : rule \in triggered},
      results |-> results]
=============================================================================
