-------------------------------- MODULE MCAudit --------------------------------
(* Repositories, commits and directories for EvidenceReview. *)
EXTENDS EvidenceReview

CONSTANTS c1, c2, c3, r1, r2, ciApp, slugApp

MCCheck(name, app) == [name |-> name, app |-> app]
To(piece, value) == [piece |-> piece, value |-> value]

-----------------------------------------------------------------------------
(* Commits: c1 needs the check test, c2 also runs a workflow and names the   *)
(* app of its check, the policy of c3 cannot be read.                        *)
MCTree ==
  [c \in {c1, c2, c3} |->
     [policy |-> {MCCheck("test", IF c = c2 THEN slugApp ELSE NoApp)},
      workflows |-> [p \in (IF c = c2 THEN {"ci.yml"} ELSE {}) |-> "unsafe"],
      readable |-> c # c3]]

-----------------------------------------------------------------------------
(* Settings *)

Strong ==
  [odd |-> FALSE, admins |-> TRUE, force |-> FALSE, deletions |-> FALSE,
   checks |-> [strict |-> TRUE, structured |-> {MCCheck("test", ciApp)},
               contexts |-> {"test"}],
   reviews |-> [count |-> 1, allowances |-> [l \in Lists |-> {}]]]
Weak == [Strong EXCEPT !.reviews.allowances["users"] = {1, 2}]
Unchecked == [Strong EXCEPT !.checks.structured = {}, !.checks.contexts = {}]

Protections ==
  {Absent, Strong, Weak, Unchecked,
   [Strong EXCEPT !.force = TRUE],
   [Strong EXCEPT !.deletions = TRUE],
   [Strong EXCEPT !.admins = FALSE],
   [Strong EXCEPT !.odd = TRUE],
   [Strong EXCEPT !.reviews = Absent],
   [Strong EXCEPT !.reviews.count = 0],
   [Strong EXCEPT !.reviews.allowances = Absent],
   [Strong EXCEPT !.reviews.allowances = [l \in {"users"} |-> {}]],
   [Strong EXCEPT !.checks = Absent],
   [Strong EXCEPT !.checks.strict = FALSE],
   [Strong EXCEPT !.checks.contexts = {}],
   [Strong EXCEPT !.checks.structured = Absent],
   [Strong EXCEPT !.checks.structured = {MCCheck("test", ciApp), MCCheck("test", NoApp)},
                  !.checks.contexts = Absent]}

Guard ==
  [odd |-> FALSE, target |-> "branch", enforcement |-> "active",
   refs |-> {"~DEFAULT_BRANCH"}, repos |-> Absent, excludes |-> FALSE,
   rules |-> {"non_fast_forward", "deletion"},
   checks |-> {MCCheck("test", ciApp)}, bypass |-> {}]
Actor(type, mode) == [type |-> type, mode |-> mode, id |-> 1]

Rulesets ==
  {Absent, Guard,
   [Guard EXCEPT !.enforcement = "evaluate"],
   [Guard EXCEPT !.target = "tag"],
   [Guard EXCEPT !.target = "repository", !.repos = {"~ALL"}, !.checks = {}],
   [Guard EXCEPT !.refs = {"refs/heads/release"}],
   [Guard EXCEPT !.refs = {"bad"}],
   [Guard EXCEPT !.repos = {"other"}],
   [Guard EXCEPT !.excludes = TRUE],
   [Guard EXCEPT !.rules = {"pull_request"}, !.checks = {}],
   [Guard EXCEPT !.rules = @ \cup {"status_policy"}],
   [Guard EXCEPT !.bypass = Absent],
   [Guard EXCEPT !.bypass = {Actor("team", "always")}],
   [Guard EXCEPT !.bypass = {Actor("deploy_key", "pull_request")}]}

Base ==
  [p \in {"id", "head", "protection", "tags"} \cup RulesetId |->
     CASE p = "id" -> 1 [] p = "head" -> c1 [] p = "protection" -> Strong
       [] p = "tags" -> {"*"} [] OTHER -> Absent]

-----------------------------------------------------------------------------
(* Directories: a bundle is the run's own, another one, or invalid. *)

Bundles == {BundleOf("own", "pass"), BundleOf("other", "fail"),
            BundleOf("other", "invalid")}
MCForgeries ==
  [n \in Public |->
     CASE n \in {"pending", "bundle"} -> Bundles \ {BundleOf("other", "invalid")}
       [] n = "replay" -> {ReportOf("pass"), Torn}
       [] n = "manifest" -> {Torn}]

SavedDirectories ==
  [manifest : {None} \cup
     {ManifestOf(b, ReportOf(r), s) : b \in Bundles, r \in {"pass", "fail"},
                                      s \in {"pass", "fail"}},
   bundle : Bundles,
   replay : {ReportOf("pass"), ReportOf("fail"), Torn}]

-----------------------------------------------------------------------------
(* Cases *)

NoFiles == [n \in {"manifest", "bundle", "replay"} |-> None]
Case(mode, r, edits, n) ==
  [mode |-> mode, repository |-> r, edits |-> edits, roots |-> {},
   mishaps |-> n, saved |-> NoFiles]

(* Settings change while they are read. *)
Moving ==
  {Case(m, Base,
        {To("protection", Weak), To("protection", Strong), To("tags", {}),
         To("tags", {"*"}), To("head", c2), To("id", 2),
         To(r1, Guard), To(r1, [Guard EXCEPT !.checks = {}]), To(r1, Absent)}, 0) : m \in {"live", "collect"}}
  \cup
  {Case("collect", [Base EXCEPT !["protection"] = Unchecked, ![r1] = r],
        {To("protection", Strong), To(r1, Absent), To(r1, Guard), To(r2, Guard)}, 0) :
     r \in {Absent, Guard, [Guard EXCEPT !.enforcement = "evaluate"]}}
  \cup
  {Case("collect", [Base EXCEPT ![r1] = Guard, ![r2] = Guard],
        {To(r, [Guard EXCEPT !.rules = {}]) : r \in {r1, r2}}, 0)}

(* Settings of every kind, at rest. *)
Standing ==
  {Case(m, [Base EXCEPT !["protection"] = p, ![r1] = r, !["tags"] = t], {}, 0) :
     m \in {"live", "collect"}, p \in Protections, r \in Rulesets, t \in {Absent, {"*"}}}
  \cup
  {[Case("collect", [Base EXCEPT !["head"] = h], {}, 0) EXCEPT !.roots = w] :
     h \in {c2, c3}, w \in {{}, {"ci.yml"}, {"gone.yml"}}}

(* A promotion that is disturbed, by its outcome. *)
Promoting ==
  {Case("collect", [Base EXCEPT !["protection"] = p], {}, 3) :
     p \in {Strong, [Strong EXCEPT !.reviews.allowances = Absent]}}

(* A directory somebody else saved. *)
Reviewed ==
  {[Case("review", Base, {}, 1) EXCEPT !.saved = d] : d \in SavedDirectories}

MCCases == Moving \cup Standing \cup Promoting \cup Reviewed
=============================================================================
