---------------------------- MODULE EvidenceBundle ----------------------------
(***************************************************************************)
(* The audit evidence bundle: buildAuditEvidenceBundle of                  *)
(* src/src/audit-evidence-collection.ts makes one from a snapshot,         *)
(* validateAuditEvidenceBundle and hydrateAuditEvidenceBundle of           *)
(* src/src/audit-evidence-bundle.ts check one and audit it again.          *)
(*                                                                         *)
(* A bundle is [body, seal].  A digest is what it is the digest of, and a  *)
(* source is what is derived from it: a policy is its required checks, a   *)
(* workflow its issue.                                                     *)
(***************************************************************************)
EXTENDS AuditRules

CONSTANT NoBundle \* nothing was built

EvidenceCodes == {"settings-authority-incomplete", "settings-observation-mismatch"}
ReportOnlyCodes ==
  {"trusted-workflow-root", "workflow-protection-root", "workflow-root-not-observed"}

-----------------------------------------------------------------------------
(* What leaves the collector: actors become counts. *)

BranchBypassSummaries(actors) ==
  [k \in {[type |-> a.type] : a \in actors} |->
     Cardinality({a \in actors : a.type = k.type})]

RulesetBypassSummaries(actors) ==
  [k \in {[type |-> a.type, mode |-> a.mode] : a \in actors} |->
     Cardinality({a \in actors : a.type = k.type /\ a.mode = k.mode})]

(* projectBranchProtection *)
ProjectProtection(p) ==
  IF p = Absent \/ p.reviews = Absent THEN p
  ELSE [p EXCEPT !.reviews.bypass = BranchBypassSummaries(@)]

(* projectRulesets *)
ProjectRulesets(rulesets) ==
  [i \in DOMAIN rulesets |->
     [rulesets[i] EXCEPT !.bypass = RulesetBypassSummaries(@)]]

(* hasUnknownAuthorityFact, and hasUnknownMutableAuthority of the collector *)
UnknownAuthority(s) ==
  \/ ~s.tags.known
  \/ s.protection = Absent
  \/ s.protection.reviews = Absent \/ ~s.protection.reviews.known
  \/ \E i \in DOMAIN s.rulesets : ~s.rulesets[i].known

(* projectEvidenceCompleteness: the codes a bundle carries, or a refusal. *)
EvidenceMissing(s) ==
  IF \/ s.missing \ (EvidenceCodes \cup ReportOnlyCodes) # {}
     \/ EvidenceCodes \subseteq s.missing
     \/ "settings-authority-incomplete" \in s.missing /\ ~UnknownAuthority(s)
  THEN Refused
  ELSE s.missing \cap EvidenceCodes

(* assertCompleteAuthority *)
CompleteWithoutAuthority(s) == EvidenceMissing(s) = {} /\ UnknownAuthority(s)

-----------------------------------------------------------------------------
(* hydrateAuditSnapshot: counts become actors again, without their names. *)

HydrateActors(summaries) ==
  UNION {{[kind |-> k, id |-> n] : n \in 1..summaries[k]} : k \in DOMAIN summaries}

HydrateProtection(p) ==
  IF p = Absent \/ p.reviews = Absent THEN p
  ELSE [p EXCEPT !.reviews.bypass = HydrateActors(@)]

HydrateRulesets(rulesets) ==
  [i \in DOMAIN rulesets |-> [rulesets[i] EXCEPT !.bypass = HydrateActors(@)]]

(* hydrateWorkflows: the source comes from the artifact of the same path. *)
HydrateWorkflows(body) ==
  {[path |-> w.path, sha |-> body.sha,
    issue |-> (CHOOSE a \in body.sources : a.path = w.path).source] :
     w \in body.snapshot.workflows}

Hydrate(body) ==
  [sha |-> body.sha, policy |-> body.snapshot.policy,
   workflows |-> HydrateWorkflows(body), missing |-> body.snapshot.missing,
   protection |-> HydrateProtection(body.snapshot.protection),
   rulesets |-> HydrateRulesets(body.snapshot.rulesets),
   tags |-> body.snapshot.tags]

-----------------------------------------------------------------------------
(* validateAuditEvidenceBundleCore *)

ValidSubject(b) == b.start = b.sha /\ b.end = b.sha

ValidCollection(b) ==
  /\ b.missing \subseteq EvidenceCodes /\ ~(EvidenceCodes \subseteq b.missing)
  /\ b.status = "complete" <=> b.missing = {}

ValidProtection(b) ==
  LET p == b.snapshot.protection
  IN b.status = "complete" =>
       p # Absent /\ p.reviews # Absent /\ p.reviews.known

(* assertRulesetBypasses, and the owner's type *)
ValidBypass(r) ==
  \A k \in DOMAIN r.bypass :
    /\ k.mode = "pull_request" => r.target = "branch"
    /\ k.type \in {"deploy_key", "organization_admin"} => r.bypass[k] = 1
    /\ k.type = "organization_admin" => OwnerType # "user"

ValidRuleset(r, version) ==
  /\ r.target \in {"branch", "tag"} <=> r.refs # {}
  /\ r.repos # {}
  /\ r.target = "repository" => r.repos # Absent /\ r.enforcement # "evaluate"
  /\ r.target \in {"push", "repository"} => ~r.force /\ ~r.deletions
  /\ ValidBypass(r)
  /\ version = 1 => ~r.versioned

ValidRulesets(b) ==
  LET rulesets == b.snapshot.rulesets
  IN /\ \A i \in DOMAIN rulesets :
          /\ ValidRuleset(rulesets[i], b.version)
          /\ b.status = "complete" => rulesets[i].known
     /\ b.version = 2 => \E i \in DOMAIN rulesets : rulesets[i].versioned

(* Settings that were read differently twice are projected as unknown. *)
ValidMismatch(b) ==
  "settings-observation-mismatch" \in b.missing =>
    /\ b.snapshot.protection = Absent
    /\ b.snapshot.rulesets = <<>>
    /\ b.snapshot.tags = MapTags(Absent)

ValidSnapshot(b) ==
  /\ b.snapshot.version = b.version
  /\ b.snapshot.missing = b.missing
  /\ ValidProtection(b) /\ ValidRulesets(b) /\ ValidMismatch(b)
  /\ b.status = "complete" => b.snapshot.tags.known
  /\ "settings-authority-incomplete" \in b.missing => UnknownAuthority(b.snapshot)
  /\ \A w \in b.snapshot.workflows : w.sha = b.sha

(* The sources are those the snapshot names, and every root is among them. *)
ValidArtifacts(b) ==
  /\ b.policySource = b.snapshot.policy
  /\ b.sources = {[path |-> w.path, source |-> w.issue] : w \in b.snapshot.workflows}
  /\ b.roots \subseteq {a.path : a \in b.sources}

ValidReport(b) == b.status = "incomplete" <=> b.report.status = "incomplete"

(* recomputeAuditReport: the report is the one the facts give. *)
ValidBundle(bundle) ==
  LET b == bundle.body
  IN /\ bundle.seal = b
     /\ ValidSubject(b) /\ ValidCollection(b) /\ ValidSnapshot(b)
     /\ ValidArtifacts(b) /\ ValidReport(b)
     /\ AuditSnapshot(Hydrate(b)) = b.report

-----------------------------------------------------------------------------
(* buildAuditEvidenceBundle *)

(* hasVersionedRulesetSemantics *)
BundleVersion(s) == IF \E i \in DOMAIN s.rulesets : s.rulesets[i].versioned THEN 2 ELSE 1

ProjectSnapshot(s) ==
  [version |-> BundleVersion(s), policy |-> s.policy, workflows |-> s.workflows,
   missing |-> EvidenceMissing(s), protection |-> ProjectProtection(s.protection),
   rulesets |-> ProjectRulesets(s.rulesets), tags |-> s.tags]

Bundle(s, ending, policySource, roots) ==
  LET missing == EvidenceMissing(s)
      body == [version |-> BundleVersion(s), sha |-> s.sha,
               start |-> s.sha, end |-> ending,
               status |-> IF missing = {} THEN "complete" ELSE "incomplete",
               missing |-> missing, roots |-> roots,
               snapshot |-> ProjectSnapshot(s), policySource |-> policySource,
               sources |-> {[path |-> w.path, source |-> w.issue] : w \in s.workflows},
               report |-> AuditSnapshot([s EXCEPT !.missing = missing])]
  IN [body |-> body, seal |-> body]

Build(s, ending, policySource, roots) ==
  IF \/ EvidenceMissing(s) = Refused \/ CompleteWithoutAuthority(s)
     \/ ending # s.sha \/ policySource # s.policy
  THEN NoBundle
  ELSE LET bundle == Bundle(s, ending, policySource, roots)
       IN IF ValidBundle(bundle) THEN bundle ELSE NoBundle

(* The exit code of audit collect and audit replay. *)
ExitCode(status) ==
  CASE status = "pass" -> 0 [] status = "fail" -> 1 [] status = "incomplete" -> 2
=============================================================================
