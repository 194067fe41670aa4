---------------------------- MODULE AuditProvider ----------------------------
(***************************************************************************)
(* How src/src/github-audit-api.ts turns GitHub's answers into facts: the  *)
(* protection of a branch, a ruleset and the protection of tags.           *)
(*                                                                         *)
(* An answer keeps the fields the facts depend on: a list of people is a   *)
(* set, a list the token may not see is left out.  Refused stands for      *)
(* every answer the client throws on.                                      *)
(***************************************************************************)
EXTENDS Integers, FiniteSets

CONSTANTS
  Absent,   \* a field that is null or left out, an answer 404
  Refused,  \* the client throws
  NoApp,    \* a required check any app may answer
  OwnerType \* "organization" or "user": who owns the repository

Lists == {"users", "teams", "apps"}

(* reviewBypassActors: a is the function of the lists that are visible. *)
ReviewBypass(a) ==
  IF a = Absent THEN [actors |-> {}, known |-> FALSE]
  ELSE [actors |-> UNION {{[type |-> l, id |-> i] : i \in a[l]} : l \in DOMAIN a},
        known |-> DOMAIN a = Lists]

(* checksFromBranchProtection: structured checks and, from before they       *)
(* existed, bare contexts.                                                   *)
ProtectionChecks(c) ==
  LET names == {k.name : k \in c.structured}
      listed == c.structured # Absent /\ c.structured # {}
  IN IF c = Absent THEN Absent
     ELSE IF c.structured = Absent /\ c.contexts = Absent THEN Refused
     ELSE IF listed /\ c.contexts # Absent
             /\ ~(names = c.contexts
                  /\ Cardinality(c.structured) = Cardinality(c.contexts))
     THEN Refused
     ELSE [strict |-> c.strict,
           checks |-> IF listed THEN c.structured
                      ELSE IF c.contexts = Absent THEN {}
                      ELSE {[name |-> n, app |-> NoApp] : n \in c.contexts}]

(* mapBranchProtection, and the 404 of getBranchProtection. *)
MapProtection(raw) ==
  IF raw = Absent THEN Absent
  ELSE IF raw.odd \/ ProtectionChecks(raw.checks) = Refused THEN Refused
  ELSE [admins |-> raw.admins, force |-> raw.force,
        deletions |-> raw.deletions,
        checks |-> ProtectionChecks(raw.checks),
        reviews |->
          IF raw.reviews = Absent THEN Absent
          ELSE [count |-> raw.reviews.count,
                bypass |-> ReviewBypass(raw.reviews.allowances).actors,
                known |-> ReviewBypass(raw.reviews.allowances).known]]

(* actor: who may bypass a ruleset; some kinds of actor have no id of their  *)
(* own.                                                                      *)
Identity(a) ==
  <<a.type, IF a.type \in {"organization_admin", "deploy_key"} THEN 0 ELSE a.id>>

(* The checks on bypass_actors that depend on the ruleset. *)
BypassRefused(raw) ==
  /\ raw.bypass # Absent
  /\ \/ OwnerType # "organization"
          /\ \E a \in raw.bypass : a.type = "organization_admin"
     \/ \E a \in raw.bypass :
          /\ a.mode = "pull_request"
          /\ raw.target # "branch" \/ a.type = "deploy_key"
     \/ \E a, b \in raw.bypass : a # b /\ Identity(a) = Identity(b)

(* The scope of a ruleset: excludes are not supported, and a list of         *)
(* repositories must not be empty.                                           *)
ScopeRefused(raw) ==
  \/ raw.excludes
  \/ raw.repos = Absent /\ raw.target = "repository"
  \/ raw.repos = {}

(* mapRuleset; odd is any other field, rule or parameter it does not know.   *)
(* A rule on reviews, and a rule on status checks that says when it applies  *)
(* (status_policy), are facts of the second version of the bundle.           *)
MapRuleset(raw) ==
  LET onRefs == raw.target \in {"branch", "tag"}
  IN IF \/ raw.odd \/ ScopeRefused(raw) \/ BypassRefused(raw)
        \/ raw.target = "repository" /\ raw.enforcement = "evaluate"
     THEN Refused
     ELSE [target |-> raw.target, enforcement |-> raw.enforcement,
           refs |-> IF onRefs THEN raw.refs ELSE {},
           repos |-> raw.repos,
           known |-> raw.bypass # Absent,
           bypass |-> IF raw.bypass = Absent THEN {} ELSE raw.bypass,
           force |-> onRefs /\ "non_fast_forward" \notin raw.rules,
           deletions |-> onRefs /\ "deletion" \notin raw.rules,
           checks |-> raw.checks,
           versioned |-> raw.rules \cap {"pull_request", "status_policy"} # {}]

(* getTagProtection: the patterns tags are protected by. *)
MapTags(raw) ==
  LET open == raw = Absent \/ raw \cap {"*", "~ALL", "refs/tags/*"} = {}
  IN [known |-> raw # Absent, deletion |-> open, update |-> open]
=============================================================================
