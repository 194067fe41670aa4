------------------------------ MODULE AuditRules ------------------------------
(***************************************************************************)
(* auditSnapshot of src/src/audit.ts: the findings about a snapshot and    *)
(* the status they give it.  A finding is <<code, where>>; one that makes  *)
(* the audit incomplete is in Incomplete(s).                               *)
(*                                                                         *)
(* A snapshot is [sha, policy, workflows, missing, protection, rulesets,   *)
(* tags]: rulesets a function from ids, workflows a set of [path, sha,     *)
(* issue], policy a set of checks [name, app].                             *)
(***************************************************************************)
EXTENDS AuditProvider

CONSTANTS
  ThisRef,    \* patterns that match refs/heads/<default branch>
  ThisRepo,   \* patterns that match the repository's name
  BadPattern  \* patterns validRefPattern refuses

-----------------------------------------------------------------------------
(* Scope of a ruleset *)

(* evaluateRulesetRepositoryScope *)
RepoScopeValid(r) == r.repos # Absent => r.repos # {} /\ r.repos \cap BadPattern = {}
InRepoScope(r) == r.repos # Absent => r.repos \cap ThisRepo # {}

(* evaluateRulesetScope *)
RefScopeValid(r) ==
  r.target = "branch" => r.refs # {} /\ r.refs \cap BadPattern = {}
InRefScope(r) == r.target = "branch" => r.refs \cap ThisRef # {}

ScopeValid(r) == RepoScopeValid(r) /\ (InRepoScope(r) => RefScopeValid(r))

(* Seeded fault: the rulesets of every branch concern the default one. *)
RelevantAnywhere(s) ==
  {i \in DOMAIN s.rulesets :
     LET r == s.rulesets[i]
     IN ScopeValid(r) /\ InRepoScope(r) /\ r.target \in {"branch", "repository"}}

(* The rulesets that concern the default branch. *)
Relevant(s) ==
  {i \in DOMAIN s.rulesets :
     LET r == s.rulesets[i]
     IN /\ RepoScopeValid(r) /\ InRepoScope(r)
        /\ RefScopeValid(r) /\ InRefScope(r)
        /\ r.target \in {"branch", "repository"}}

(* The rulesets whose checks are required. *)
Applicable(s) == {i \in Relevant(s) : s.rulesets[i].enforcement = "active"}

-----------------------------------------------------------------------------
(* Required checks *)

ProtectionRequires(s) ==
  IF s.protection = Absent \/ s.protection.checks = Absent THEN {}
  ELSE s.protection.checks.checks

EffectiveChecks(s) ==
  ProtectionRequires(s) \cup UNION {s.rulesets[i].checks : i \in Applicable(s)}

(* appendCheckFindings: an app is named by id in GitHub's settings and by    *)
(* slug in a policy; only equal names are one identity.                      *)
CheckFindings(s) ==
  LET identities(n) == {c.app : c \in {e \in EffectiveChecks(s) : e.name = n}}
      names == {c.name : c \in EffectiveChecks(s)}
  IN {<<"check_provenance_unknown", n>> : n \in {m \in names : NoApp \in identities(m)}}
     \cup {<<"check_name_ambiguous", n>> :
             n \in {m \in names : Cardinality(identities(m)) > 1}}

PolicyFindings(s) ==
  {<<"check_provenance_mismatch", c.name>> :
     c \in {p \in s.policy :
              LET matching == {e \in EffectiveChecks(s) : e.name = p.name}
              IN /\ matching # {} /\ p.app # NoApp
                 /\ \A e \in matching : e.app # p.app}}

MissingChecks(s) ==
  {<<"required_check_missing", c.name>> :
     c \in {p \in s.policy : \A e \in EffectiveChecks(s) : e.name # p.name}}

-----------------------------------------------------------------------------
(* Findings *)

When(condition, code, where) == IF condition THEN {<<code, where>>} ELSE {}

ProtectionFindings(p) ==
  IF p = Absent THEN {}
  ELSE When(p.force, "force_push_allowed", "branch")
       \cup When(p.deletions, "branch_deletion_allowed", "branch")
       \cup When(~p.admins, "admin_bypass_allowed", "branch")
       \cup When(p.reviews # Absent /\ p.reviews.count = 0,
                 "reviews_not_required", "branch")
       \cup When(p.reviews # Absent /\ p.reviews.bypass # {},
                 "bypass_actor_allowed", "branch")
       \cup When(p.checks # Absent /\ ~p.checks.strict,
                 "status_checks_not_strict", "branch")

ProtectionUnknown(s) ==
  LET p == s.protection
  IN IF p = Absent THEN {<<"branch_protection_unknown", "branch">>}
     ELSE When(p.reviews = Absent, "review_rules_unknown", "branch")
          \cup When(p.reviews # Absent /\ ~p.reviews.known,
                    "review_bypass_unknown", "branch")
          \cup When(p.checks = Absent /\ s.policy # {},
                    "required_checks_unknown", "branch")

RulesetFindings(s) ==
  UNION {LET r == s.rulesets[i]
         IN When(r.bypass # {}, "bypass_actor_allowed", i)
            \cup When(r.force, "force_push_allowed", i)
            \cup When(r.deletions, "branch_deletion_allowed", i) :
           i \in Relevant(s)}

RulesetUnknown(s) ==
  UNION {LET r == s.rulesets[i]
         IN When(~ScopeValid(r), "ruleset_scope_invalid", i)
            \cup When(/\ ScopeValid(r) /\ InRepoScope(r)
                      /\ r.target = "tag" /\ r.enforcement = "active",
                      "ruleset_scope_unsupported", i)
            \cup When(i \in Relevant(s) /\ ~r.known, "ruleset_bypass_unknown", i)
            \cup When(/\ i \in Relevant(s) /\ r.target = "branch"
                      /\ r.enforcement # "active", "ruleset_not_active", i) :
           i \in DOMAIN s.rulesets}

TagFindings(t) ==
  When(t.known /\ t.deletion, "tag_deletion_allowed", "tags")
  \cup When(t.known /\ t.update, "tag_update_allowed", "tags")

(* No collector marks a workflow as protected or as a trusted root. *)
WorkflowFindings(s) ==
  UNION {{<<"workflow_not_protected", w.path>>, <<"trusted_root_missing", w.path>>}
         \cup When(w.issue = "unsafe", "workflow_unsafe", w.path) :
           w \in s.workflows}

(* The findings that make the audit incomplete. *)
Incomplete(s) ==
  When(s.missing # {}, "snapshot_incomplete", "completeness")
  \cup ProtectionUnknown(s) \cup RulesetUnknown(s) \cup MissingChecks(s)
  \cup When(~s.tags.known, "tag_protection_unknown", "tags")
  \cup {<<"workflow_not_from_base", w.path>> :
          w \in {v \in s.workflows : v.sha # s.sha}}
  \cup {<<"workflow_findings_truncated", w.path>> :
          w \in {v \in s.workflows : v.issue = "truncated"}}

(* auditSnapshot *)
AuditSnapshot(s) ==
  LET findings == ProtectionFindings(s.protection) \cup RulesetFindings(s)
                  \cup CheckFindings(s) \cup PolicyFindings(s)
                  \cup TagFindings(s.tags) \cup WorkflowFindings(s)
                  \cup Incomplete(s)
  IN [findings |-> findings,
      status |-> IF Incomplete(s) # {} THEN "incomplete"
                 ELSE IF findings # {} THEN "fail" ELSE "pass"]
=============================================================================
