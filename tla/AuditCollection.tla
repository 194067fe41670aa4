---------------------------- MODULE AuditCollection ----------------------------
(***************************************************************************)
(* The repository audit of src/src/github-audit.ts, as audit --github and  *)
(* audit collect of src/src/cli.ts run it: the settings are read twice     *)
(* around the tree of the base commit, while their owners change them.     *)
(*                                                                         *)
(* The repository is a function of its pieces: its id, the head of the     *)
(* default branch, the protection of the branch and of the tags, and each  *)
(* ruleset.  What a commit holds never changes.                            *)
(***************************************************************************)
EXTENDS EvidenceBundle, Sequences

CONSTANTS
  Cases,     \* [mode, repository, edits, roots, ...]: what is audited and what
             \* may change meanwhile; mode is "live", "collect", or "review"
             \* when there is nothing to collect
  Tree,      \* [commit -> [policy, workflows, readable]]
  RulesetId, \* ids of rulesets
  Unread,    \* a setting that was not read yet
  MaxEdits   \* bound: changes during a collection

VARIABLES
  case,
  repository,
  past,   \* the repository at every moment since the collection began
  at,     \* where the collector is
  id,     \* repository.id, as first read
  base,   \* baseSha
  seen,   \* firstSettings and secondSettings
  out     \* what the process leaves: [bundle, report, snapshot, exit]

observed == <<id, base, seen>>
collection == <<repository, past, at, observed, out>>

NoSettings ==
  [protection |-> Unread, tags |-> Unread, listed |-> Unread,
   rulesets |-> [i \in {} |-> Unread]]

Ended == {"exited", "taken"}

(* What a piece of the repository is, or may become while it is audited. *)
Values(c, p) ==
  {c.repository[p]} \cup {e.value : e \in {d \in c.edits : d.piece = p}}

Fixed == {"id", "head", "protection", "tags"}

(* Lists in GitHub's answers are finite, of people, teams and apps, and what *)
(* GitHub holds for a repository target are rules about repositories, never  *)
(* required checks.  Absent is a token and no facts.                         *)
ASSUME CollectionAssumption ==
  /\ MaxEdits \in Nat
  /\ RulesetId \cap Fixed = {}
  /\ \A c \in Cases :
       /\ c.mode \in {"live", "collect", "review"}
       /\ Fixed \cup RulesetId \subseteq DOMAIN c.repository
       /\ c.repository = [p \in DOMAIN c.repository |-> c.repository[p]]
       /\ \A e \in c.edits : e.piece \in DOMAIN c.repository
       /\ \A v \in Values(c, "protection") \ {Absent} :
            v.reviews # Absent /\ v.reviews.allowances # Absent =>
              LET a == v.reviews.allowances
              IN DOMAIN a \subseteq Lists /\ \A l \in DOMAIN a : IsFiniteSet(a[l])
       /\ \A i \in RulesetId : \A v \in Values(c, i) \ {Absent} :
            /\ v.bypass # Absent => IsFiniteSet(v.bypass)
            /\ v.target = "repository" => v.checks = {}
            /\ MapRuleset(v) # Absent

CollectionInit ==
  /\ case \in Cases
  /\ repository = case.repository
  /\ past = <<repository>>
  /\ at = IF case.mode = "review" THEN "taken" ELSE "repository"
  /\ id = Unread /\ base = Unread
  /\ seen = [k \in 1..2 |-> NoSettings]
  /\ out = NoBundle

-----------------------------------------------------------------------------
(* The repository *)

(* Somebody changes a setting, pushes, or replaces the repository. *)
Edit ==
  /\ at \notin Ended
  /\ Len(past) <= MaxEdits
  /\ \E e \in case.edits :
       /\ repository[e.piece] # e.value
       /\ repository' = [repository EXCEPT ![e.piece] = e.value]
  /\ past' = Append(past, repository')
  /\ UNCHANGED <<case, at, observed, out>>

-----------------------------------------------------------------------------
(* The collector *)

Collecting == UNCHANGED <<case, repository, past>>

(* runCli: a failure leaves nothing but the exit code 2. *)
Exit(report, snapshot, bundle) ==
  /\ at' = "exited"
  /\ out' = [bundle |-> bundle, report |-> report, snapshot |-> snapshot,
             exit |-> ExitCode(report.status)]

NoReport == [findings |-> {}, status |-> "incomplete"]

(* A request fails for good, an answer is refused or the budget is used up;  *)
(* an incomplete snapshot is reported with exit code 2, and no bundle.       *)
Stop == Exit(NoReport, Unread, NoBundle) /\ UNCHANGED observed

Fail ==
  /\ at \notin Ended
  /\ Stop /\ Collecting

ReadRepository ==
  /\ at = "repository"
  /\ id' = repository["id"] /\ at' = "branch"
  /\ UNCHANGED <<base, seen, out>> /\ Collecting

(* The evidence is asked for the commit the workflow runs on. *)
ReadBranch ==
  /\ at = "branch"
  /\ IF case.mode = "collect" /\ repository["head"] # case.repository["head"]
     THEN Stop
     ELSE /\ base' = repository["head"] /\ at' = "first"
          /\ UNCHANGED <<id, seen, out>>
  /\ Collecting

(* The settings read now are the first, then the second ones. *)
Reading == CASE at = "first" -> 1 [] at = "second" -> 2 [] OTHER -> 0

Read(field, value) ==
  /\ IF value = Refused THEN Stop
     ELSE /\ seen' = [seen EXCEPT ![Reading][field] = value]
          /\ UNCHANGED <<at, id, base, out>>
  /\ Collecting

ReadProtection ==
  /\ Reading # 0
  /\ seen[Reading].protection = Unread
  /\ Read("protection", MapProtection(repository["protection"]))

ReadTags ==
  /\ Reading # 0
  /\ seen[Reading].tags = Unread
  /\ Read("tags", MapTags(repository["tags"]))

ListRulesets ==
  /\ Reading # 0
  /\ seen[Reading].protection # Unread /\ seen[Reading].tags # Unread
  /\ seen[Reading].listed = Unread
  /\ Read("listed", {i \in RulesetId : repository[i] # Absent})

(* One request for each ruleset listed; one that is gone is an error. *)
ReadRuleset ==
  /\ Reading # 0
  /\ seen[Reading].listed # Unread
  /\ \E i \in seen[Reading].listed \ DOMAIN seen[Reading].rulesets :
       LET facts == IF repository[i] = Absent THEN Refused
                    ELSE MapRuleset(repository[i])
           known == seen[Reading].rulesets
       IN IF facts = Refused THEN Stop /\ Collecting
          ELSE Read("rulesets", [j \in DOMAIN known \cup {i} |->
                                   IF j = i THEN facts ELSE known[j]])

SettingsRead ==
  /\ Reading # 0
  /\ seen[Reading].listed # Unread
  /\ seen[Reading].listed = DOMAIN seen[Reading].rulesets
  /\ at' = IF at = "first" THEN "tree" ELSE "end repository"
  /\ UNCHANGED <<observed, out>> /\ Collecting

(* The workflow list, the policy and the sources of the base commit. *)
ReadTree ==
  /\ at = "tree"
  /\ IF Tree[base].readable THEN at' = "second" /\ UNCHANGED <<observed, out>>
     ELSE Stop
  /\ Collecting

-----------------------------------------------------------------------------
(* The snapshot *)

(* Seeded fault: of the rulesets only the ids are compared. *)
SettingsMismatchByList ==
  \/ seen[1].protection # seen[2].protection
  \/ seen[1].tags # seen[2].tags
  \/ DOMAIN seen[1].rulesets # DOMAIN seen[2].rulesets

(* canonicalMutableSettings *)
SettingsMismatch ==
  \/ seen[1].protection # seen[2].protection
  \/ seen[1].tags # seen[2].tags
  \/ seen[1].rulesets # seen[2].rulesets

Workflows == {[path |-> p, sha |-> base, issue |-> Tree[base].workflows[p]] :
                p \in DOMAIN Tree[base].workflows}

When2(condition, code) == IF condition THEN {code} ELSE {}

Missing(moved) ==
  LET paths == {w.path : w \in Workflows}
  IN When2(~(case.roots \subseteq paths), "workflow-root-not-observed")
     \cup When2(paths # {} /\ case.roots = {}, "workflow-protection-root")
     \cup When2(paths # {} /\ case.roots = {}, "trusted-workflow-root")
     \cup When2(SettingsMismatch, "settings-observation-mismatch")
     \cup When2(~SettingsMismatch /\ UnknownAuthority(seen[1]),
                "settings-authority-incomplete")
     \cup moved

Snapshot(moved) ==
  [sha |-> base, policy |-> Tree[base].policy, workflows |-> Workflows,
   missing |-> Missing(moved),
   protection |-> IF SettingsMismatch THEN Absent ELSE seen[1].protection,
   rulesets |-> IF SettingsMismatch THEN <<>> ELSE seen[1].rulesets,
   tags |-> IF SettingsMismatch THEN MapTags(Absent) ELSE seen[1].tags]

-----------------------------------------------------------------------------
(* The end of a collection *)

(* The repository and the branch are read again: endingRepository,           *)
(* endingBranch.  The evidence stops when one has changed, a live audit is   *)
(* incomplete.                                                               *)
EndRepository ==
  /\ at = "end repository"
  /\ IF repository["id"] = id
     THEN at' = "end branch" /\ UNCHANGED <<observed, out>>
     ELSE IF case.mode = "collect" THEN Stop
     ELSE at' = "end branch of another" /\ UNCHANGED <<observed, out>>
  /\ Collecting

EndBranch ==
  /\ at \in {"end branch", "end branch of another"}
  /\ LET moved == When2(repository["head"] # base, "base-revision-changed")
                  \cup When2(at # "end branch", "repository-identity-changed")
     IN IF case.mode = "live"
        THEN /\ Exit(AuditSnapshot(Snapshot(moved)), Snapshot(moved), NoBundle)
             /\ UNCHANGED observed
        ELSE IF moved # {} THEN Stop
        ELSE at' = "evidence repository" /\ UNCHANGED <<observed, out>>
  /\ Collecting

(* collectRepositoryAuditEvidenceData reads them once more, and the policy.  *)
EvidenceRepository ==
  /\ at = "evidence repository"
  /\ IF repository["id"] = id
     THEN at' = "evidence branch" /\ UNCHANGED <<observed, out>>
     ELSE Stop
  /\ Collecting

EvidenceBranch ==
  /\ at = "evidence branch"
  /\ LET snapshot == Snapshot({})
         bundle == Build(snapshot, repository["head"], Tree[base].policy, case.roots)
     IN IF repository["head"] # base \/ bundle = NoBundle THEN Stop
        ELSE /\ Exit(AuditSnapshot(Hydrate(bundle.body)), snapshot, bundle)
             /\ UNCHANGED observed
  /\ Collecting

Collect ==
  \/ ReadRepository \/ ReadBranch
  \/ ReadProtection \/ ReadTags \/ ListRulesets \/ ReadRuleset \/ SettingsRead
  \/ ReadTree
  \/ EndRepository \/ EndBranch
  \/ EvidenceRepository \/ EvidenceBranch
  \/ Fail

-----------------------------------------------------------------------------
(* Properties *)

(* The facts about piece p while it is v. *)
FactsOf(p, v) ==
  CASE p = "protection" -> MapProtection(v)
    [] p = "tags" -> MapTags(v)
    [] p \in RulesetId /\ v # Absent -> MapRuleset(v)
    [] OTHER -> v

(* The facts about a piece changed and came back.  Of two settings that have *)
(* the same facts the collector takes one for the other, so a return to      *)
(* either of them is a return.                                               *)
Reverted ==
  \E i, j, k \in DOMAIN past : \E p \in DOMAIN repository :
    LET facts(n) == FactsOf(p, past[n][p])
    IN i < j /\ j < k /\ facts(i) = facts(k) /\ facts(i) # facts(j)

Judged == at = "exited" /\ out.report.status # "incomplete"

(* What the snapshot says was so at one moment: although the settings are    *)
(* read one after the other, a pass or a fail is a verdict on a state the    *)
(* repository was in, unless a setting was changed and changed back.         *)
FactsHeldTogether ==
  Judged /\ ~Reverted =>
    \E i \in DOMAIN past :
      LET r == past[i]
          ids == {j \in RulesetId : r[j] # Absent}
          s == out.snapshot
      IN /\ r["head"] = s.sha /\ r["id"] = id
         /\ MapProtection(r["protection"]) = s.protection
         /\ MapTags(r["tags"]) = s.tags
         /\ [j \in ids |-> MapRuleset(r[j])] = s.rulesets

(* What GitHub lets somebody do, told from its settings and not from the     *)
(* facts: force-push or delete the branch, merge without a review or without *)
(* a check the policy of the head requires, move or delete a tag.            *)
CanRewrite(r) ==
  LET p == r["protection"]
  IN p = Absent \/ p.force \/ p.deletions \/ ~p.admins

CanMergeUnreviewed(r) ==
  LET v == r["protection"].reviews
  IN v = Absent \/ v.count = 0 \/ v.allowances = Absent
     \/ \E l \in DOMAIN v.allowances : v.allowances[l] # {}

Requires(r, name) ==
  LET c == r["protection"].checks
  IN \/ c # Absent /\ c.structured # Absent /\ \E k \in c.structured : k.name = name
     \/ c # Absent /\ c.contexts # Absent /\ name \in c.contexts
     \/ \E i \in RulesetId :
          /\ r[i] # Absent /\ r[i].enforcement = "active"
          /\ r[i].target = "branch" /\ r[i].refs \cap ThisRef # {}
          /\ r[i].repos # Absent => r[i].repos \cap ThisRepo # {}
          /\ r[i].bypass = {}
          /\ \E k \in r[i].checks : k.name = name

CanMergeUnchecked(r) ==
  \E c \in Tree[r["head"]].policy : ~Requires(r, c.name)

CanMoveTags(r) ==
  r["tags"] = Absent \/ r["tags"] \cap {"*", "~ALL", "refs/tags/*"} = {}

(* Exit code 0 means that there was a moment at which nobody could rewrite   *)
(* the branch or the tags, or merge without review and the policy's checks.  *)
PassMeansProtected ==
  at = "exited" /\ out.exit = 0 /\ ~Reverted =>
    \E i \in DOMAIN past :
      LET r == past[i]
      IN ~(CanRewrite(r) \/ CanMergeUnreviewed(r)
           \/ CanMergeUnchecked(r) \/ CanMoveTags(r))
=============================================================================
