------------------------- MODULE AuditCollectionProofs -------------------------
(***************************************************************************)
(* Theorems about AuditCollection, as a part of EvidenceReview, for any    *)
(* repository, any settings and any number of changes.                     *)
(***************************************************************************)
EXTENDS EvidenceReview, FiniteSetTheorems, SequenceTheorems, TLAPS

Pieces == DOMAIN case.repository
Repositories ==
  {r \in [Pieces -> UNION {Values(case, p) : p \in Pieces}] :
     \A p \in Pieces : r[p] \in Values(case, p)}

Now == Len(past)

(* The facts about a piece at one moment, and at some moment of an interval. *)
Was(p, facts, i) == FactsOf(p, past[i][p]) = facts
Between(p, facts, i, j) == \E k \in i..j : Was(p, facts, k)

(* What the settings s hold was read from moment i to moment j. *)
ReadIn(s, i, j) ==
  /\ s.protection # Unread =>
       s.protection # Refused /\ Between("protection", s.protection, i, j)
  /\ s.tags # Unread => Between("tags", s.tags, i, j)
  /\ s.listed # Unread =>
       /\ s.protection # Unread /\ s.tags # Unread
       /\ s.listed \subseteq RulesetId
       /\ \A r \in RulesetId \ s.listed : Between(r, Absent, i, j)
  /\ s.listed = Unread => DOMAIN s.rulesets = {}
  /\ s.listed # Unread => DOMAIN s.rulesets \subseteq s.listed
  /\ \A r \in DOMAIN s.rulesets :
       /\ s.rulesets[r] \notin {Absent, Refused}
       /\ Between(r, s.rulesets[r], i, j)

Settings(s) ==
  /\ s = [protection |-> s.protection, tags |-> s.tags, listed |-> s.listed,
          rulesets |-> s.rulesets]
  /\ s.rulesets = [r \in DOMAIN s.rulesets |-> s.rulesets[r]]

Full(s) == s.listed # Unread /\ s.listed = DOMAIN s.rulesets

CollectionType ==
  /\ case \in Cases
  /\ seen = [k \in 1..2 |-> seen[k]] /\ Settings(seen[1]) /\ Settings(seen[2])
  /\ at # "taken" =>
       past \in Seq(Repositories) /\ Now >= 1 /\ repository = past[Now]

Late == {"end branch", "end branch of another", "evidence repository", "evidence branch"}
Turned == {"tree", "second", "end repository"} \cup Late

(* The first settings were read before moment m and the second ones since.   *)
TurnedAt(m) ==
  /\ Between("id", id, 1, m) /\ Between("head", base, 1, m)
  /\ ReadIn(seen[1], 1, m) /\ Full(seen[1])
  /\ ReadIn(seen[2], m, Now)
  /\ at \in {"tree", "second"} \/ Full(seen[2])
  /\ at \in Late \ {"end branch of another"} => Between("id", id, m, Now)
  /\ at \in {"evidence repository", "evidence branch"} =>
       Between("head", base, m, Now)

CollectionInv ==
  /\ CollectionType
  /\ at \in {"branch", "first"} => Between("id", id, 1, Now)
  /\ at \in {"repository", "branch"} => seen[1] = NoSettings
  /\ at \in {"repository", "branch", "first", "tree"} => seen[2] = NoSettings
  /\ at = "first" => Between("head", base, 1, Now) /\ ReadIn(seen[1], 1, Now)
  /\ at \in Turned => \E m \in 1..Now : TurnedAt(m)
  /\ at \in {"repository", "branch", "first", "exited", "taken"} \cup Turned
  /\ FactsHeldTogether /\ PassMeansProtected

-----------------------------------------------------------------------------
(* What the steps leave alone *)

LEMMA CollectionSteps ==
  ASSUME [Next]_vars
  PROVE  Edit \/ Collect \/ Take \/ UNCHANGED <<case, collection>>
<1>1. ASSUME Promote PROVE Take \/ UNCHANGED <<case, collection>>
  BY <1>1 DEF Promote, WriteNew, WriteSeen, WriteCleanUp, WriteUnlink, Own, Replay,
     Compare, Complete, Skip, Quarantine, RemoveVerified, RefuseUnverified, Restore, Held
<1>2. ASSUME Review PROVE UNCHANGED <<case, collection>>
  BY <1>2 DEF Review, ListFiles, ReadManifest, ReadBundle, ReadReplay, ReadFile,
     CompareDigests, Judge, ReviewFails, saved
<1>3. ASSUME Meddle PROVE UNCHANGED <<case, collection>>
  BY <1>3 DEF Meddle
<1>4. QED BY <1>1, <1>2, <1>3 DEF Next, vars

LEMMA PastType ==
  ASSUME CollectionType, at # "taken"
  PROVE  /\ Now \in Nat /\ Now >= 1 /\ DOMAIN past = 1..Now
         /\ \A k \in 1..Now : past[k] \in Repositories
         /\ repository \in Repositories /\ repository = past[Now]
         /\ Fixed \cup RulesetId \subseteq Pieces
         /\ DOMAIN repository = Pieces
<1>1. past \in Seq(Repositories) /\ Now >= 1 /\ repository = past[Now]
  BY DEF CollectionType
<1>2. Now \in Nat /\ DOMAIN past = 1..Now
  BY <1>1, LenProperties DEF Now
<1>3. \A k \in 1..Now : past[k] \in Repositories
  BY <1>1, ElementOfSeq DEF Now
<1>4. repository \in Repositories
  BY <1>1, <1>2, <1>3
<1>5. Fixed \cup RulesetId \subseteq Pieces
  BY CollectionAssumption DEF CollectionType, Pieces
<1>6. DOMAIN repository = Pieces
  BY <1>4 DEF Repositories
<1>7. QED BY <1>1, <1>2, <1>3, <1>4, <1>5, <1>6

(* The facts of each kind of piece. *)
LEMMA FactsAre ==
  ASSUME NEW v
  PROVE  /\ FactsOf("id", v) = v /\ FactsOf("head", v) = v
         /\ FactsOf("protection", v) = MapProtection(v)
         /\ FactsOf("tags", v) = MapTags(v)
         /\ \A j \in RulesetId :
              FactsOf(j, v) = IF v # Absent THEN MapRuleset(v) ELSE v
<1>1. RulesetId \cap {"id", "head", "protection", "tags"} = {}
  BY CollectionAssumption DEF Fixed
<1>2. QED BY <1>1 DEF FactsOf

LEMMA RulesetIsSomething ==
  ASSUME case \in Cases, NEW j \in RulesetId, NEW v \in Values(case, j), v # Absent
  PROVE  MapRuleset(v) # Absent
BY CollectionAssumption

(* A change adds a moment and leaves the earlier ones.                       *)
LEMMA EditAdds ==
  ASSUME CollectionType, Edit
  PROVE  /\ CollectionType'
         /\ Now' = Now + 1
         /\ \A k \in 1..Now : past'[k] = past[k]
<1>1. at # "taken" /\ UNCHANGED <<case, at, observed, out>>
  BY DEF Edit, Ended
<1>2. PICK e \in case.edits : repository' = [repository EXCEPT ![e.piece] = e.value]
  BY DEF Edit
<1>3. case \in Cases /\ e.piece \in Pieces
  BY CollectionAssumption DEF CollectionType, Pieces
<1>4. repository \in Repositories
  BY <1>1, PastType
<1>5. e.value \in Values(case, e.piece)
  BY DEF Values
<1>6. repository' \in Repositories
  BY <1>2, <1>3, <1>4, <1>5 DEF Repositories
<1>7. past' = Append(past, repository') /\ past \in Seq(Repositories)
  BY <1>1 DEF Edit, CollectionType
<1>8. /\ past' \in Seq(Repositories) /\ Len(past') = Len(past) + 1
      /\ \A k \in 1..Len(past) : past'[k] = past[k]
      /\ past'[Len(past) + 1] = repository'
  BY <1>6, <1>7, AppendProperties
<1>9. Repositories' = Repositories
  BY <1>1 DEF Repositories, Pieces
<1>10. Now' = Now + 1 /\ Now \in Nat
  BY <1>1, <1>8, PastType DEF Now
<1>11. Now' >= 1 /\ repository' = past'[Now']
  BY <1>8, <1>10 DEF Now
<1>12. QED
  BY <1>1, <1>8, <1>9, <1>10, <1>11 DEF CollectionType, Settings, observed, Now

(* What was read stays read in the interval, and in a longer one.            *)
LEMMA ReadStays ==
  ASSUME CollectionType, Edit
  PROVE  /\ \A p, f : \A i, j \in 1..Now : Between(p, f, i, j) => Between(p, f, i, j)'
         /\ \A p, f : \A i \in 1..Now : Between(p, f, i, Now) => Between(p, f, i, Now)'
         /\ \A s : \A i, j \in 1..Now : ReadIn(s, i, j) => ReadIn(s, i, j)'
         /\ \A s : \A i \in 1..Now : ReadIn(s, i, Now) => ReadIn(s, i, Now)'
<1>1. Now \in Nat /\ Now' = Now + 1 /\ \A k \in 1..Now : past'[k] = past[k]
  BY EditAdds, PastType DEF Edit, Ended
<1>2. ASSUME NEW p, NEW f, NEW i \in 1..Now, NEW j \in 1..Now, Between(p, f, i, j)
      PROVE  Between(p, f, i, j)' /\ Between(p, f, i, j + 1)'
  <2>1. PICK k \in i..j : FactsOf(p, past[k][p]) = f
    BY <1>2 DEF Between, Was
  <2>2. past'[k] = past[k] /\ k \in i..(j + 1)
    BY <1>1, <2>1
  <2>3. QED BY <2>1, <2>2 DEF Between, Was
<1>3. \A p, f : \A i \in 1..Now : Between(p, f, i, Now) => Between(p, f, i, Now)'
  <2>1. Now \in 1..Now \/ Now = 0
    BY <1>1
  <2>2. QED BY <1>1, <1>2, <2>1
<1>4. \A s : \A i, j \in 1..Now : ReadIn(s, i, j) => ReadIn(s, i, j)'
  BY <1>2 DEF ReadIn
<1>5. \A s : \A i \in 1..Now : ReadIn(s, i, Now) => ReadIn(s, i, Now)'
  BY <1>3 DEF ReadIn
<1>6. QED BY <1>2, <1>3, <1>4, <1>5

-----------------------------------------------------------------------------
(* Reading the settings *)

SettingsStep == ReadProtection \/ ReadTags \/ ListRulesets \/ ReadRuleset

LEMMA StoppedReports ==
  ASSUME Stop PROVE at' = "exited" /\ out'.report.status = "incomplete" /\ UNCHANGED observed
BY DEF Stop, Exit, NoReport

LEMMA ReadingSettings ==
  ASSUME CollectionType, NEW k \in 1..2, Reading = k, NEW i \in 1..Now,
         ReadIn(seen[k], i, Now), SettingsStep
  PROVE  \/ Stop /\ Collecting
         \/ /\ Collecting /\ UNCHANGED <<at, id, base, out>>
            /\ seen' = [seen EXCEPT ![k] = seen'[k]]
            /\ Settings(seen'[k]) /\ ReadIn(seen'[k], i, Now)
<1> DEFINE s == seen[k]
<1>1. /\ at # "taken" /\ Settings(s) /\ case \in Cases
      /\ seen = [j \in 1..2 |-> seen[j]]
  BY DEF Reading, CollectionType
<1>2. /\ Now \in Nat /\ Now >= 1 /\ repository = past[Now]
      /\ repository \in Repositories /\ Fixed \cup RulesetId \subseteq Pieces
  BY <1>1, PastType
<1>3. \A p, f : Was(p, f, Now) => Between(p, f, i, Now)
  BY <1>2 DEF Between
<1>4. \A p : Was(p, FactsOf(p, repository[p]), Now)
  BY <1>2 DEF Was
<1>5. CASE ReadProtection
  <2> DEFINE f == MapProtection(repository["protection"])
  <2>1. CASE f = Refused
    BY <1>5, <2>1 DEF ReadProtection, Read, Collecting
  <2>2. CASE f # Refused
    <3>1. seen' = [seen EXCEPT ![k] = [s EXCEPT !.protection = f]]
          /\ Collecting /\ UNCHANGED <<at, id, base, out>>
      BY <1>1, <1>5, <2>2 DEF ReadProtection, Read, Collecting
    <3>2. seen'[k] = [s EXCEPT !.protection = f]
      BY <1>1, <3>1
    <3>3. Between("protection", f, i, Now)
      <4>1. FactsOf("protection", repository["protection"]) = f
        BY FactsAre
      <4>2. QED BY <1>3, <1>4, <4>1
    <3>4. ReadIn(seen'[k], i, Now) /\ Settings(seen'[k])
      BY <1>1, <3>2, <3>3, <1>5, <2>2 DEF ReadIn, Settings, ReadProtection
    <3>5. QED BY <1>1, <3>1, <3>2, <3>4
  <2>3. QED BY <2>1, <2>2
<1>6. CASE ReadTags
  <2> DEFINE f == MapTags(repository["tags"])
  <2>1. CASE f = Refused
    BY <1>6, <2>1 DEF ReadTags, Read, Collecting
  <2>2. CASE f # Refused
    <3>1. seen' = [seen EXCEPT ![k] = [s EXCEPT !.tags = f]]
          /\ Collecting /\ UNCHANGED <<at, id, base, out>>
      BY <1>1, <1>6, <2>2 DEF ReadTags, Read, Collecting
    <3>2. seen'[k] = [s EXCEPT !.tags = f]
      BY <1>1, <3>1
    <3>3. Between("tags", f, i, Now)
      <4>1. FactsOf("tags", repository["tags"]) = f
        BY FactsAre
      <4>2. QED BY <1>3, <1>4, <4>1
    <3>4. ReadIn(seen'[k], i, Now) /\ Settings(seen'[k])
      BY <1>1, <3>2, <3>3, <1>6 DEF ReadIn, Settings, ReadTags
    <3>5. QED BY <1>1, <3>1, <3>2, <3>4
  <2>3. QED BY <2>1, <2>2
<1>7. CASE ListRulesets
  <2> DEFINE f == {j \in RulesetId : repository[j] # Absent}
  <2>1. CASE f = Refused
    BY <1>7, <2>1 DEF ListRulesets, Read, Collecting
  <2>2. CASE f # Refused
    <3>1. seen' = [seen EXCEPT ![k] = [s EXCEPT !.listed = f]]
          /\ Collecting /\ UNCHANGED <<at, id, base, out>>
      BY <1>1, <1>7, <2>2 DEF ListRulesets, Read, Collecting
    <3>2. seen'[k] = [s EXCEPT !.listed = f]
      BY <1>1, <3>1
    <3>3. \A j \in RulesetId \ f : Between(j, Absent, i, Now)
      BY <1>3, <1>4, FactsAre
    <3>4. ReadIn(seen'[k], i, Now) /\ Settings(seen'[k])
      BY <1>1, <3>2, <3>3, <1>7 DEF ReadIn, Settings, ListRulesets
    <3>5. QED BY <1>1, <3>1, <3>2, <3>4
  <2>3. QED BY <2>1, <2>2
<1>8. CASE ReadRuleset
  <2> DEFINE facts(j) == IF repository[j] = Absent THEN Refused
                         ELSE MapRuleset(repository[j])
             with(j) == [l \in DOMAIN s.rulesets \cup {j} |->
                           IF l = j THEN facts(j) ELSE s.rulesets[l]]
  <2>1. PICK j \in s.listed \ DOMAIN s.rulesets :
          IF facts(j) = Refused THEN Stop /\ Collecting ELSE Read("rulesets", with(j))
    BY <1>8 DEF ReadRuleset
  <2>2. CASE facts(j) = Refused
    BY <2>1, <2>2
  <2>3. CASE with(j) = Refused
    BY <2>1, <2>3 DEF Read
  <2>4. CASE facts(j) # Refused /\ with(j) # Refused
    <3>1. seen' = [seen EXCEPT ![k] = [s EXCEPT !.rulesets = with(j)]]
          /\ Collecting /\ UNCHANGED <<at, id, base, out>>
      BY <1>1, <2>1, <2>4 DEF Read, Collecting
    <3>2. seen'[k] = [s EXCEPT !.rulesets = with(j)]
      BY <1>1, <3>1
    <3>3. s.listed # Unread /\ j \in RulesetId
      BY <1>8, <2>1 DEF ReadRuleset, ReadIn
    <3>4. repository[j] # Absent /\ repository[j] \in Values(case, j)
      BY <1>2, <2>4, <3>3 DEF Repositories
    <3>5. facts(j) # Absent
      BY <1>1, <3>3, <3>4, RulesetIsSomething
    <3>6. facts(j) = FactsOf(j, repository[j])
      BY <3>3, <3>4, FactsAre
    <3>7. Between(j, facts(j), i, Now)
      BY <1>3, <1>4, <3>6
    <3>8. DOMAIN with(j) = DOMAIN s.rulesets \cup {j}
          /\ \A l \in DOMAIN with(j) :
               with(j)[l] = IF l = j THEN facts(j) ELSE s.rulesets[l]
      OBVIOUS
    <3>9. /\ seen'[k].protection = s.protection /\ seen'[k].tags = s.tags
          /\ seen'[k].listed = s.listed /\ seen'[k].rulesets = with(j)
          /\ seen'[k] = [protection |-> s.protection, tags |-> s.tags,
                         listed |-> s.listed, rulesets |-> with(j)]
      BY <1>1, <3>2 DEF Settings
    <3>10. with(j) = [l \in DOMAIN with(j) |-> with(j)[l]]
      OBVIOUS
    <3> HIDE DEF with, facts
    <3>11. Settings(seen'[k])
      BY <3>9, <3>10 DEF Settings
    <3>12. ReadIn(seen'[k], i, Now)
      BY <2>1, <2>4, <3>3, <3>5, <3>7, <3>8, <3>9 DEF ReadIn
    <3>13. QED BY <1>1, <3>1, <3>2, <3>11, <3>12
  <2>5. QED BY <2>2, <2>3, <2>4
<1>9. QED BY <1>5, <1>6, <1>7, <1>8 DEF SettingsStep

-----------------------------------------------------------------------------
(* What was read held together *)

(* Facts that were so before a moment and after it were so at it, or came    *)
(* back.                                                                     *)
LEMMA Sandwiched ==
  ASSUME CollectionType, at # "taken", ~Reverted, NEW m \in 1..Now,
         NEW p \in Pieces, NEW f, Between(p, f, 1, m), Between(p, f, m, Now)
  PROVE  Was(p, f, m)
<1>1. Now \in Nat /\ DOMAIN past = 1..Now /\ p \in DOMAIN repository
  BY PastType
<1>2. PICK i \in 1..m : FactsOf(p, past[i][p]) = f
  BY DEF Between, Was
<1>3. PICK k \in m..Now : FactsOf(p, past[k][p]) = f
  BY DEF Between, Was
<1>4. CASE i = m \/ k = m
  BY <1>2, <1>3, <1>4 DEF Was
<1>5. CASE i # m /\ k # m
  <2>1. i < m /\ m < k /\ i \in DOMAIN past /\ m \in DOMAIN past /\ k \in DOMAIN past
    BY <1>1, <1>2, <1>3, <1>5
  <2>2. FactsOf(p, past[i][p]) = FactsOf(p, past[m][p])
    BY <1>1, <1>2, <1>3, <2>1 DEF Reverted
  <2>3. QED BY <1>2, <2>2 DEF Was
<1>6. QED BY <1>4, <1>5

(* The repository at moment m is what the settings s, the id and the base    *)
(* say.                                                                      *)
HeldAt(m, s) ==
  /\ past[m]["id"] = id /\ past[m]["head"] = base
  /\ MapProtection(past[m]["protection"]) = s.protection
  /\ MapTags(past[m]["tags"]) = s.tags
  /\ [j \in {i \in RulesetId : past[m][i] # Absent} |-> MapRuleset(past[m][j])]
       = s.rulesets

LEMMA TurnHeld ==
  ASSUME CollectionType, at # "taken", ~Reverted, NEW m \in 1..Now,
         Between("id", id, 1, m), Between("id", id, m, Now),
         Between("head", base, 1, m), Between("head", base, m, Now),
         ReadIn(seen[1], 1, m), ReadIn(seen[2], m, Now),
         Full(seen[1]), Full(seen[2]), ~SettingsMismatch
  PROVE  HeldAt(m, seen[1])
<1> DEFINE r == past[m]
           ids == {i \in RulesetId : r[i] # Absent}
<1>1. /\ Fixed \cup RulesetId \subseteq Pieces /\ case \in Cases
      /\ past[m] \in Repositories
  BY PastType DEF CollectionType
<1>2. /\ seen[1].protection = seen[2].protection /\ seen[1].tags = seen[2].tags
      /\ seen[1].rulesets = seen[2].rulesets
      /\ DOMAIN seen[1].rulesets = seen[1].listed
      /\ seen[1].listed = seen[2].listed
  BY DEF SettingsMismatch, Full
<1>3. Was("id", id, m) /\ Was("head", base, m)
  BY <1>1, Sandwiched DEF Fixed
<1>4. Was("protection", seen[1].protection, m)
  BY <1>1, <1>2, Sandwiched DEF Fixed, ReadIn, Full
<1>5. Was("tags", seen[1].tags, m)
  BY <1>1, <1>2, Sandwiched DEF Fixed, ReadIn, Full
<1>6. ASSUME NEW j \in RulesetId \ seen[1].listed PROVE r[j] = Absent
  <2>1. Was(j, Absent, m)
    <3>1. j \in Pieces /\ Between(j, Absent, 1, m) /\ Between(j, Absent, m, Now)
      BY <1>1, <1>2, <1>6 DEF ReadIn, Full
    <3>2. QED BY <3>1, Sandwiched
  <2>2. r[j] \in Values(case, j)
    BY <1>1 DEF Repositories
  <2>3. FactsOf(j, r[j]) = Absent
    BY <2>1 DEF Was
  <2>4. QED BY <1>1, <2>2, <2>3, FactsAre, RulesetIsSomething
<1>7. ASSUME NEW j \in seen[1].listed
      PROVE  j \in RulesetId /\ r[j] # Absent /\ MapRuleset(r[j]) = seen[1].rulesets[j]
  <2>1. j \in RulesetId /\ j \in DOMAIN seen[1].rulesets /\ j \in DOMAIN seen[2].rulesets
    BY <1>2, <1>7 DEF ReadIn, Full
  <2>2. Was(j, seen[1].rulesets[j], m) /\ seen[1].rulesets[j] # Absent
    BY <1>1, <1>2, <2>1, Sandwiched DEF ReadIn
  <2>3. FactsOf(j, r[j]) = seen[1].rulesets[j]
    BY <2>2 DEF Was
  <2>4. QED BY <2>1, <2>2, <2>3, FactsAre
<1>8. ids = seen[1].listed
  BY <1>6, <1>7
<1>9. seen[1].rulesets = [j \in DOMAIN seen[1].rulesets |-> seen[1].rulesets[j]]
  BY DEF CollectionType, Settings
<1>10. [j \in ids |-> MapRuleset(r[j])] = seen[1].rulesets
  BY <1>2, <1>7, <1>8, <1>9
<1>11. r["id"] = id /\ r["head"] = base
  BY <1>3, FactsAre DEF Was
<1>12. MapProtection(r["protection"]) = seen[1].protection
  BY <1>4, FactsAre DEF Was
<1>13. MapTags(r["tags"]) = seen[1].tags
  BY <1>5, FactsAre DEF Was
<1>14. QED BY <1>10, <1>11, <1>12, <1>13 DEF HeldAt

-----------------------------------------------------------------------------
(* The verdict *)

(* Codes of the snapshot, and nothing is missing, only if the settings agree. *)
LEMMA MissingNothing ==
  ASSUME NEW moved, "settings-observation-mismatch" \notin Missing(moved)
  PROVE  /\ ~SettingsMismatch
         /\ Snapshot(moved).protection = seen[1].protection
         /\ Snapshot(moved).tags = seen[1].tags
         /\ Snapshot(moved).rulesets = seen[1].rulesets
         /\ Snapshot(moved).sha = base
<1>1. ~SettingsMismatch
  BY DEF Missing, When2
<1>2. QED BY <1>1 DEF Snapshot

LEMMA CompleteAudit ==
  ASSUME NEW s, AuditSnapshot(s).status # "incomplete"
  PROVE  s.missing = {} /\ Incomplete(s) = {}
<1>1. Incomplete(s) = {}
  BY DEF AuditSnapshot
<1>2. QED BY <1>1 DEF Incomplete, When

(* What a pass says about the facts.                                         *)
Sound(s) ==
  /\ s.protection # Absent /\ s.protection.reviews # Absent
  /\ s.protection.admins /\ ~s.protection.force /\ ~s.protection.deletions
  /\ s.protection.reviews.known /\ s.protection.reviews.count # 0
  /\ s.protection.reviews.bypass = {}
  /\ \A c \in s.policy : \E e \in EffectiveChecks(s) : e.name = c.name
  /\ \A i \in Relevant(s) : s.rulesets[i].known /\ s.rulesets[i].bypass = {}
  /\ s.tags.known /\ ~s.tags.deletion /\ ~s.tags.update

LEMMA PassIsSound ==
  ASSUME NEW s, AuditSnapshot(s).status = "pass" PROVE Sound(s)
<1>1. /\ ProtectionFindings(s.protection) = {} /\ RulesetFindings(s) = {}
      /\ TagFindings(s.tags) = {} /\ Incomplete(s) = {}
  BY DEF AuditSnapshot
<1>2. /\ ProtectionUnknown(s) = {} /\ RulesetUnknown(s) = {}
      /\ MissingChecks(s) = {} /\ s.tags.known
  BY <1>1 DEF Incomplete, When
<1>3. /\ s.protection # Absent /\ s.protection.reviews # Absent
      /\ s.protection.reviews.known
  BY <1>2 DEF ProtectionUnknown, When
<1>4. /\ s.protection.admins /\ ~s.protection.force /\ ~s.protection.deletions
      /\ s.protection.reviews.count # 0 /\ s.protection.reviews.bypass = {}
  BY <1>1, <1>3 DEF ProtectionFindings, When
<1>5. \A c \in s.policy : \E e \in EffectiveChecks(s) : e.name = c.name
  BY <1>2 DEF MissingChecks
<1>6. ASSUME NEW i \in Relevant(s) PROVE s.rulesets[i].known /\ s.rulesets[i].bypass = {}
  <2>1. i \in DOMAIN s.rulesets
    BY DEF Relevant
  <2>2. s.rulesets[i].known
    <3> DEFINE unknown == When(i \in Relevant(s) /\ ~s.rulesets[i].known,
                               "ruleset_bypass_unknown", i)
    <3> DEFINE r(j) == s.rulesets[j]
               all(j) ==
                 When(~ScopeValid(r(j)), "ruleset_scope_invalid", j)
                 \cup When(/\ ScopeValid(r(j)) /\ InRepoScope(r(j))
                           /\ r(j).target = "tag" /\ r(j).enforcement = "active",
                           "ruleset_scope_unsupported", j)
                 \cup When(j \in Relevant(s) /\ ~r(j).known, "ruleset_bypass_unknown", j)
                 \cup When(/\ j \in Relevant(s) /\ r(j).target = "branch"
                           /\ r(j).enforcement # "active", "ruleset_not_active", j)
    <3>0. RulesetUnknown(s) = UNION {all(j) : j \in DOMAIN s.rulesets}
      BY DEF RulesetUnknown
    <3>1. unknown \subseteq RulesetUnknown(s)
      <4>1. unknown \subseteq all(i)
        OBVIOUS
      <4> HIDE DEF all, unknown
      <4>2. QED BY <2>1, <3>0, <4>1
    <3>2. QED BY <1>2, <1>6, <3>1 DEF When
  <2>3. s.rulesets[i].bypass = {}
    <3>1. When(s.rulesets[i].bypass # {}, "bypass_actor_allowed", i) = {}
      BY <1>1 DEF RulesetFindings
    <3>2. QED BY <3>1 DEF When
  <2>4. QED BY <2>2, <2>3
<1>7. ~s.tags.deletion /\ ~s.tags.update
  BY <1>1, <1>2 DEF TagFindings, When
<1>8. QED BY <1>2, <1>3, <1>4, <1>5, <1>6, <1>7 DEF Sound

(* A bundle counts the actors instead of naming them; somebody stays         *)
(* somebody.                                                                 *)
LEMMA SomebodyStays ==
  ASSUME NEW summaries, NEW k \in DOMAIN summaries, summaries[k] \in Nat \ {0}
  PROVE  HydrateActors(summaries) # {}
<1>1. 1 \in 1..summaries[k]
  OBVIOUS
<1>2. [kind |-> k, id |-> 1] \in HydrateActors(summaries)
  BY <1>1 DEF HydrateActors
<1>3. QED BY <1>2

LEMMA FinitePositive ==
  ASSUME NEW S, IsFiniteSet(S), NEW x \in S
  PROVE  Cardinality(S) \in Nat \ {0}
BY FS_CardinalityType, FS_EmptySet

LEMMA BranchActorsStay ==
  ASSUME NEW a, \A l \in DOMAIN a : IsFiniteSet(a[l]), a # Absent,
         HydrateActors(BranchBypassSummaries(ReviewBypass(a).actors)) = {}
  PROVE  ReviewBypass(a).actors = {}
<1> DEFINE actors == ReviewBypass(a).actors
<1> SUFFICES ASSUME NEW x \in actors PROVE FALSE
  OBVIOUS
<1>1. actors = UNION {{[type |-> l, id |-> i] : i \in a[l]} : l \in DOMAIN a}
  BY DEF ReviewBypass
<1>2. PICK l \in DOMAIN a : \E i \in a[l] : x = [type |-> l, id |-> i]
  BY <1>1
<1> DEFINE k == [type |-> l]
           same == {y \in actors : y.type = l}
           image == {[type |-> l, id |-> j] : j \in a[l]}
           f == [j \in a[l] |-> [type |-> l, id |-> j]]
<1>3. IsFiniteSet(image)
  <2>1. f \in Surjection(a[l], image)
    BY DEF Surjection
  <2>2. QED BY <2>1, FS_Surjection
<1>4. same \subseteq image
  BY <1>1
<1>5. IsFiniteSet(same) /\ x \in same
  BY <1>2, <1>3, <1>4, FS_Subset
<1>6. k \in DOMAIN BranchBypassSummaries(actors)
  BY <1>2 DEF BranchBypassSummaries
<1>7. BranchBypassSummaries(actors)[k] = Cardinality(same)
  BY <1>6 DEF BranchBypassSummaries
<1>8. QED BY <1>5, <1>6, <1>7, FinitePositive, SomebodyStays

LEMMA RulesetActorsStay ==
  ASSUME NEW actors, IsFiniteSet(actors),
         HydrateActors(RulesetBypassSummaries(actors)) = {}
  PROVE  actors = {}
<1> SUFFICES ASSUME NEW x \in actors PROVE FALSE
  OBVIOUS
<1> DEFINE k == [type |-> x.type, mode |-> x.mode]
           same == {y \in actors : y.type = x.type /\ y.mode = x.mode}
<1>1. IsFiniteSet(same) /\ x \in same
  BY FS_Subset
<1>2. k \in DOMAIN RulesetBypassSummaries(actors)
  BY DEF RulesetBypassSummaries
<1>3. RulesetBypassSummaries(actors)[k] = Cardinality(same)
  BY <1>2 DEF RulesetBypassSummaries
<1>4. QED BY <1>1, <1>2, <1>3, FinitePositive, SomebodyStays

LEMMA ProtectionReplayed ==
  ASSUME NEW raw, NEW p, p = MapProtection(raw), p # Refused,
         NEW h, h = HydrateProtection(ProjectProtection(p)),
         h # Absent, h.reviews # Absent
  PROVE  /\ p # Absent /\ p.reviews # Absent /\ raw # Absent /\ raw.reviews # Absent
         /\ h.admins = p.admins /\ h.force = p.force /\ h.deletions = p.deletions
         /\ h.checks = p.checks
         /\ h.reviews.known = p.reviews.known /\ h.reviews.count = p.reviews.count
         /\ h.reviews.bypass = HydrateActors(BranchBypassSummaries(p.reviews.bypass))
         /\ p.reviews.bypass = ReviewBypass(raw.reviews.allowances).actors
         /\ p.reviews.known = ReviewBypass(raw.reviews.allowances).known
<1>1. p # Absent /\ p.reviews # Absent
  BY DEF ProjectProtection, HydrateProtection
<1>2. raw # Absent
  BY <1>1 DEF MapProtection
<1> DEFINE b == ReviewBypass(raw.reviews.allowances)
           v == [count |-> raw.reviews.count, bypass |-> b.actors, known |-> b.known]
<1>3. p = [admins |-> raw.admins, force |-> raw.force,
           deletions |-> raw.deletions,
           checks |-> ProtectionChecks(raw.checks),
           reviews |-> IF raw.reviews = Absent THEN Absent ELSE v]
  BY <1>2 DEF MapProtection
<1>4. raw.reviews # Absent /\ p.reviews = v
  BY <1>1, <1>3
<1> DEFINE summed == [p EXCEPT !.reviews.bypass = BranchBypassSummaries(@)]
<1>5. ProjectProtection(p) = summed
  BY <1>1 DEF ProjectProtection
<1> DEFINE w == [count |-> v.count, known |-> v.known,
                 bypass |-> BranchBypassSummaries(v.bypass)]
<1>6. summed = [admins |-> p.admins, force |-> p.force, deletions |-> p.deletions,
                checks |-> p.checks, reviews |-> w]
  BY <1>3, <1>4
<1>7. summed # Absent /\ summed.reviews # Absent
  BY <1>5 DEF HydrateProtection
<1>8. h = [summed EXCEPT !.reviews.bypass = HydrateActors(@)]
  BY <1>5, <1>7 DEF HydrateProtection
<1>9. [w EXCEPT !.bypass = HydrateActors(@)] =
        [count |-> v.count, known |-> v.known,
         bypass |-> HydrateActors(BranchBypassSummaries(v.bypass))]
  OBVIOUS
<1>10. h = [admins |-> p.admins, force |-> p.force, deletions |-> p.deletions,
            checks |-> p.checks,
            reviews |-> [w EXCEPT !.bypass = HydrateActors(@)]]
  <2> HIDE DEF w, summed
  <2>1. QED BY <1>6, <1>8
<1>11. QED BY <1>1, <1>2, <1>4, <1>9, <1>10

LEMMA RulesetsReplayed ==
  ASSUME NEW ids, NEW raw, NEW rulesets,
         rulesets = [i \in ids |-> MapRuleset(raw[i])],
         \A i \in ids : rulesets[i] # Refused,
         NEW h, h = HydrateRulesets(ProjectRulesets(rulesets))
  PROVE  /\ DOMAIN h = ids
         /\ \A i \in ids :
              /\ h[i].target = rulesets[i].target /\ h[i].refs = rulesets[i].refs
              /\ h[i].repos = rulesets[i].repos /\ h[i].checks = rulesets[i].checks
              /\ h[i].enforcement = rulesets[i].enforcement
              /\ h[i].known = rulesets[i].known
              /\ h[i].bypass = HydrateActors(RulesetBypassSummaries(rulesets[i].bypass))
<1>1. DOMAIN ProjectRulesets(rulesets) = ids /\ DOMAIN h = ids
  BY DEF ProjectRulesets, HydrateRulesets
<1>2. ASSUME NEW i \in ids
      PROVE  /\ h[i].target = rulesets[i].target /\ h[i].refs = rulesets[i].refs
             /\ h[i].repos = rulesets[i].repos /\ h[i].checks = rulesets[i].checks
             /\ h[i].enforcement = rulesets[i].enforcement
             /\ h[i].known = rulesets[i].known
             /\ h[i].bypass = HydrateActors(RulesetBypassSummaries(rulesets[i].bypass))
  <2> DEFINE x == rulesets[i]
             y == [x EXCEPT !.bypass = RulesetBypassSummaries(@)]
  <2>1. x = MapRuleset(raw[i]) /\ x # Refused
    OBVIOUS
  <2>2. x = [target |-> x.target, enforcement |-> x.enforcement, refs |-> x.refs,
             repos |-> x.repos, known |-> x.known, bypass |-> x.bypass,
             force |-> x.force, deletions |-> x.deletions, checks |-> x.checks,
             versioned |-> x.versioned]
    BY <2>1 DEF MapRuleset
  <2>3. ProjectRulesets(rulesets)[i] = y
    BY <1>1 DEF ProjectRulesets
  <2>4. h[i] = [y EXCEPT !.bypass = HydrateActors(@)]
    BY <1>1, <2>3 DEF HydrateRulesets
  <2> HIDE DEF x
  <2>5. y = [target |-> x.target, enforcement |-> x.enforcement, refs |-> x.refs,
             repos |-> x.repos, known |-> x.known,
             bypass |-> RulesetBypassSummaries(x.bypass),
             force |-> x.force, deletions |-> x.deletions, checks |-> x.checks,
             versioned |-> x.versioned]
    BY <2>2
  <2>6. h[i] = [target |-> x.target, enforcement |-> x.enforcement, refs |-> x.refs,
                repos |-> x.repos, known |-> x.known,
                bypass |-> HydrateActors(RulesetBypassSummaries(x.bypass)),
                force |-> x.force, deletions |-> x.deletions, checks |-> x.checks,
                versioned |-> x.versioned]
    BY <2>4, <2>5
  <2>7. QED BY <2>6 DEF x
<1>3. QED BY <1>1, <1>2

LEMMA RulesetValues ==
  ASSUME case \in Cases, NEW i \in RulesetId, NEW v \in Values(case, i), v # Absent
  PROVE  /\ v.bypass # Absent => IsFiniteSet(v.bypass)
         /\ v.target = "repository" => v.checks = {}
BY CollectionAssumption

(* The settings s are those of the repository r.                             *)
Tells(s, r) ==
  /\ s.protection = MapProtection(r["protection"]) /\ s.protection # Refused
  /\ s.tags = MapTags(r["tags"])
  /\ s.rulesets = [j \in {i \in RulesetId : r[i] # Absent} |-> MapRuleset(r[j])]
  /\ \A j \in DOMAIN s.rulesets : s.rulesets[j] # Refused

LEMMA ReplayIsSound ==
  ASSUME case \in Cases, Fixed \cup RulesetId \subseteq Pieces,
         NEW r \in Repositories, NEW s, Tells(s, r),
         NEW body, body.snapshot = ProjectSnapshot(s),
         AuditSnapshot(Hydrate(body)).status = "pass"
  PROVE  Sound(s)
<1> DEFINE h == Hydrate(body)
           ids == {i \in RulesetId : r[i] # Absent}
           raw == r["protection"]
<1>1. Sound(h)
  BY PassIsSound
<1>2. /\ h.policy = s.policy /\ h.tags = s.tags
      /\ h.protection = HydrateProtection(ProjectProtection(s.protection))
      /\ h.rulesets = HydrateRulesets(ProjectRulesets(s.rulesets))
  BY DEF Hydrate, ProjectSnapshot
<1> HIDE DEF h
<1>3. /\ s.protection # Absent /\ s.protection.reviews # Absent
      /\ raw # Absent /\ raw.reviews # Absent
      /\ h.protection.admins = s.protection.admins
      /\ h.protection.force = s.protection.force
      /\ h.protection.deletions = s.protection.deletions
      /\ h.protection.checks = s.protection.checks
      /\ h.protection.reviews.known = s.protection.reviews.known
      /\ h.protection.reviews.count = s.protection.reviews.count
      /\ h.protection.reviews.bypass =
           HydrateActors(BranchBypassSummaries(s.protection.reviews.bypass))
      /\ s.protection.reviews.bypass = ReviewBypass(raw.reviews.allowances).actors
      /\ s.protection.reviews.known = ReviewBypass(raw.reviews.allowances).known
  <2>1. s.protection = MapProtection(raw) /\ s.protection # Refused
    BY DEF Tells
  <2>2. h.protection # Absent /\ h.protection.reviews # Absent
    BY <1>1 DEF Sound
  <2>3. QED BY <1>2, <2>1, <2>2, ProtectionReplayed
<1>4. s.protection.reviews.bypass = {}
  <2>1. raw \in Values(case, "protection")
    BY DEF Repositories, Fixed
  <2>2. raw.reviews.allowances # Absent
    BY <1>1, <1>3 DEF Sound, ReviewBypass
  <2>3. \A l \in DOMAIN raw.reviews.allowances : IsFiniteSet(raw.reviews.allowances[l])
    BY <1>3, <2>1, <2>2, CollectionAssumption
  <2>4. QED BY <1>1, <1>3, <2>2, <2>3, BranchActorsStay DEF Sound
<1>5. /\ DOMAIN h.rulesets = ids /\ DOMAIN s.rulesets = ids
      /\ \A i \in ids :
           /\ h.rulesets[i].target = s.rulesets[i].target
           /\ h.rulesets[i].refs = s.rulesets[i].refs
           /\ h.rulesets[i].repos = s.rulesets[i].repos
           /\ h.rulesets[i].checks = s.rulesets[i].checks
           /\ h.rulesets[i].enforcement = s.rulesets[i].enforcement
           /\ h.rulesets[i].known = s.rulesets[i].known
           /\ h.rulesets[i].bypass =
                HydrateActors(RulesetBypassSummaries(s.rulesets[i].bypass))
  BY <1>2, RulesetsReplayed DEF Tells
<1>6. Relevant(s) = Relevant(h)
  BY <1>5 DEF Relevant, RepoScopeValid, InRepoScope, RefScopeValid, InRefScope
<1>7. ASSUME NEW i \in Relevant(s)
      PROVE  s.rulesets[i].known /\ s.rulesets[i].bypass = {}
  <2>1. i \in ids /\ i \in RulesetId /\ r[i] # Absent /\ r[i] \in Values(case, i)
    BY <1>5 DEF Relevant, Repositories
  <2>2. s.rulesets[i].known /\ h.rulesets[i].bypass = {}
    BY <1>1, <1>5, <1>6, <2>1 DEF Sound
  <2>3. s.rulesets[i] = MapRuleset(r[i]) /\ MapRuleset(r[i]) # Refused
    BY <1>5, <2>1 DEF Tells
  <2>4. /\ s.rulesets[i].known = (r[i].bypass # Absent)
        /\ s.rulesets[i].bypass = IF r[i].bypass = Absent THEN {} ELSE r[i].bypass
    BY <2>3 DEF MapRuleset
  <2>5. IsFiniteSet(s.rulesets[i].bypass)
    BY <2>1, <2>2, <2>4, RulesetValues
  <2>6. QED BY <1>5, <2>1, <2>2, <2>5, RulesetActorsStay
<1>8. EffectiveChecks(s) = EffectiveChecks(h)
  <2>1. Applicable(s) = Applicable(h) /\ Applicable(s) \subseteq ids
    BY <1>5, <1>6 DEF Applicable, Relevant
  <2>2. {s.rulesets[i].checks : i \in Applicable(s)} = {h.rulesets[i].checks : i \in Applicable(h)}
    BY <1>5, <2>1
  <2>3. ProtectionRequires(s) = ProtectionRequires(h)
    BY <1>1, <1>3 DEF ProtectionRequires, Sound
  <2>4. QED BY <2>2, <2>3 DEF EffectiveChecks
<1>9. QED BY <1>1, <1>2, <1>3, <1>4, <1>7, <1>8 DEF Sound

(* Sound facts are protection: what CanRewrite and the others tell from the  *)
(* settings is denied.                                                       *)
LEMMA SoundProtects ==
  ASSUME case \in Cases, Fixed \cup RulesetId \subseteq Pieces,
         NEW r \in Repositories, NEW s, Tells(s, r), Sound(s),
         s.policy = Tree[r["head"]].policy
  PROVE  ~(CanRewrite(r) \/ CanMergeUnreviewed(r) \/ CanMergeUnchecked(r)
           \/ CanMoveTags(r))
<1> DEFINE p == r["protection"]
           ids == {i \in RulesetId : r[i] # Absent}
<1>1. p # Absent
  BY DEF Sound, Tells, MapProtection
<1>2. /\ ProtectionChecks(p.checks) # Refused
      /\ s.protection.admins = p.admins /\ s.protection.force = p.force
      /\ s.protection.deletions = p.deletions
      /\ s.protection.checks = ProtectionChecks(p.checks)
      /\ s.protection.reviews =
           IF p.reviews = Absent THEN Absent
           ELSE [count |-> p.reviews.count,
                 bypass |-> ReviewBypass(p.reviews.allowances).actors,
                 known |-> ReviewBypass(p.reviews.allowances).known]
  BY <1>1 DEF Tells, MapProtection
<1>3. ~CanRewrite(r)
  BY <1>1, <1>2 DEF CanRewrite, Sound
<1>4. ~CanMergeUnreviewed(r)
  <2> DEFINE a == p.reviews.allowances
  <2>1. p.reviews # Absent /\ p.reviews.count # 0
    BY <1>2 DEF Sound
  <2>2. ReviewBypass(a).actors = {} /\ ReviewBypass(a).known
    BY <1>2, <2>1 DEF Sound
  <2>3. a # Absent
    BY <2>2 DEF ReviewBypass
  <2>4. UNION {{[type |-> l, id |-> i] : i \in a[l]} : l \in DOMAIN a} = {}
    BY <2>2, <2>3 DEF ReviewBypass
  <2>5. ASSUME NEW l \in DOMAIN a, NEW i \in a[l] PROVE FALSE
    <3>1. [type |-> l, id |-> i] \in UNION {{[type |-> m, id |-> j] : j \in a[m]} : m \in DOMAIN a}
      OBVIOUS
    <3>2. QED BY <2>4, <3>1
  <2>6. QED BY <2>1, <2>3, <2>5 DEF CanMergeUnreviewed
<1>5. ASSUME NEW c \in Tree[r["head"]].policy PROVE Requires(r, c.name)
  <2>1. PICK e \in EffectiveChecks(s) : e.name = c.name
    BY DEF Sound
  <2>2. CASE e \in ProtectionRequires(s)
    <3> DEFINE k == p.checks
    <3>1. ProtectionChecks(k) # Absent /\ e \in ProtectionChecks(k).checks
      BY <1>2, <2>2 DEF ProtectionRequires
    <3>2. k # Absent
      BY <3>1 DEF ProtectionChecks
    <3>3. ProtectionChecks(k).checks =
            IF k.structured # Absent /\ k.structured # {} THEN k.structured
            ELSE IF k.contexts = Absent THEN {}
            ELSE {[name |-> n, app |-> NoApp] : n \in k.contexts}
      BY <1>2, <3>2 DEF ProtectionChecks
    <3>4. QED BY <2>1, <3>1, <3>2, <3>3 DEF Requires
  <2>3. CASE e \in UNION {s.rulesets[i].checks : i \in Applicable(s)}
    <3>1. PICK i \in Applicable(s) : e \in s.rulesets[i].checks
      BY <2>3
    <3>2. i \in ids /\ s.rulesets[i] = MapRuleset(r[i]) /\ MapRuleset(r[i]) # Refused
      BY DEF Applicable, Relevant, Tells
    <3>3. /\ s.rulesets[i].target = r[i].target /\ s.rulesets[i].repos = r[i].repos
          /\ s.rulesets[i].enforcement = r[i].enforcement
          /\ s.rulesets[i].checks = r[i].checks
          /\ r[i].target = "branch" => s.rulesets[i].refs = r[i].refs
          /\ s.rulesets[i].known = (r[i].bypass # Absent)
          /\ s.rulesets[i].bypass = IF r[i].bypass = Absent THEN {} ELSE r[i].bypass
      BY <3>2 DEF MapRuleset
    <3>4. r[i] \in Values(case, i) /\ r[i] # Absent /\ i \in RulesetId
      BY <3>2 DEF Repositories
    <3>5. r[i].target = "branch"
      <4>1. r[i].target \in {"branch", "repository"}
        BY <3>3 DEF Applicable, Relevant
      <4>2. r[i].target # "repository"
        BY <3>1, <3>3, <3>4, RulesetValues
      <4>3. QED BY <4>1, <4>2
    <3>6. r[i].bypass = {} /\ r[i].enforcement = "active"
      BY <3>1, <3>3 DEF Sound, Applicable
    <3>7. r[i].refs \cap ThisRef # {} /\ (r[i].repos # Absent => r[i].repos \cap ThisRepo # {})
      BY <3>3, <3>5 DEF Applicable, Relevant, InRefScope, InRepoScope
    <3>8. QED BY <2>1, <3>1, <3>3, <3>4, <3>5, <3>6, <3>7 DEF Requires
  <2>4. QED BY <2>2, <2>3 DEF EffectiveChecks
<1>6. ~CanMergeUnchecked(r)
  BY <1>5 DEF CanMergeUnchecked
<1>7. ~CanMoveTags(r)
  <2>1. s.tags = MapTags(r["tags"]) /\ ~s.tags.deletion
    BY DEF Sound, Tells
  <2>2. s.tags.deletion =
          (r["tags"] = Absent \/ r["tags"] \cap {"*", "~ALL", "refs/tags/*"} = {})
    BY <2>1 DEF MapTags
  <2>3. QED BY <2>1, <2>2 DEF CanMoveTags
<1>8. QED BY <1>3, <1>4, <1>6, <1>7

-----------------------------------------------------------------------------
(* The collection *)

LEMMA SamePast ==
  ASSUME past' = past
  PROVE  /\ Now' = Now
         /\ \A p, f, i, j : Between(p, f, i, j) => Between(p, f, i, j)'
         /\ \A s, i, j : ReadIn(s, i, j) => ReadIn(s, i, j)'
<1>1. Now' = Now /\ \A p, f, i : Was(p, f, i) => Was(p, f, i)'
  BY DEF Now, Was
<1>2. \A p, f, i, j : Between(p, f, i, j) => Between(p, f, i, j)'
  BY <1>1 DEF Between
<1>3. \A s, i, j : ReadIn(s, i, j) => ReadIn(s, i, j)'
  BY <1>2 DEF ReadIn
<1>4. QED BY <1>1, <1>2, <1>3

LEMMA TypeKept ==
  ASSUME CollectionType, at # "taken", Collecting, UNCHANGED seen
  PROVE  CollectionType'
BY DEF CollectionType, Collecting, Settings, Repositories, Pieces, Now

LEMMA NotJudged ==
  (at # "exited" \/ (out.report.status = "incomplete" /\ out.exit = 2))
    => FactsHeldTogether /\ PassMeansProtected
BY DEF FactsHeldTogether, PassMeansProtected, Judged

LEMMA StopKeeps ==
  ASSUME CollectionInv, at # "taken", Stop, Collecting PROVE CollectionInv'
<1>1. at' = "exited" /\ out'.report.status = "incomplete" /\ out'.exit = 2
      /\ UNCHANGED observed
  BY DEF Stop, Exit, NoReport, ExitCode
<1>2. CollectionType'
  BY <1>1, TypeKept DEF CollectionInv, observed
<1>3. (FactsHeldTogether /\ PassMeansProtected)'
  BY <1>1, NotJudged DEF FactsHeldTogether, PassMeansProtected, Judged
<1>4. QED BY <1>1, <1>2, <1>3 DEF CollectionInv, Turned, Late

LEMMA NothingRead == \A i, j : ReadIn(NoSettings, i, j) /\ Settings(NoSettings)
BY DEF ReadIn, NoSettings, Settings

LEMMA EditKeeps == ASSUME CollectionInv, Edit PROVE CollectionInv'
<1>1. /\ CollectionType' /\ Now' = Now + 1 /\ Now \in Nat /\ Now >= 1
      /\ UNCHANGED <<case, at, observed, out>> /\ at \notin Ended
  BY EditAdds, PastType DEF CollectionInv, Edit, Ended
<1>2. UNCHANGED <<id, base, seen>>
  BY <1>1 DEF observed
<1>3. (FactsHeldTogether /\ PassMeansProtected)'
  BY <1>1 DEF FactsHeldTogether, PassMeansProtected, Judged, Ended
<1>4. at \in {"branch", "first"} => Between("id", id, 1, Now)'
  BY <1>1, <1>2, ReadStays DEF CollectionInv
<1>5. at = "first" => Between("head", base, 1, Now)' /\ ReadIn(seen[1], 1, Now)'
  BY <1>1, <1>2, ReadStays DEF CollectionInv
<1>6. ASSUME at \in Turned PROVE \E m \in 1..Now' : TurnedAt(m)'
  <2>1. PICK m \in 1..Now : TurnedAt(m)
    BY <1>6 DEF CollectionInv
  <2>2. 1 \in 1..Now /\ m \in 1..Now' /\ CollectionType
    BY <1>1 DEF CollectionInv
  <2>3. Between("id", id, 1, m)' /\ Between("head", base, 1, m)'
    BY <1>2, <2>1, <2>2, ReadStays DEF TurnedAt
  <2>4. ReadIn(seen[1], 1, m)' /\ Full(seen[1])'
    BY <1>2, <2>1, <2>2, ReadStays DEF TurnedAt, Full
  <2>5. ReadIn(seen[2], m, Now)' /\ (Full(seen[2]) => Full(seen[2])')
    BY <1>2, <2>1, <2>2, ReadStays DEF TurnedAt, Full
  <2>6. /\ Between("id", id, m, Now) => Between("id", id, m, Now)'
        /\ Between("head", base, m, Now) => Between("head", base, m, Now)'
    BY <1>2, <2>1, <2>2, ReadStays
  <2>7. TurnedAt(m)'
    BY <1>1, <2>1, <2>3, <2>4, <2>5, <2>6 DEF TurnedAt
  <2>8. QED BY <2>2, <2>7
<1>7. QED BY <1>1, <1>2, <1>3, <1>4, <1>5, <1>6 DEF CollectionInv, NoSettings

(* A piece read now is so now. *)
LEMMA IsNow ==
  ASSUME CollectionType, at # "taken", NEW p \in {"id", "head"}
  PROVE  \A i \in 1..Now : Between(p, repository[p], i, Now)
<1>1. Now \in Nat /\ repository = past[Now]
  BY PastType
<1>2. Was(p, repository[p], Now)
  BY <1>1, FactsAre DEF Was
<1>3. QED BY <1>1, <1>2 DEF Between

(* The end of a collection: what the snapshot says held at the turn.         *)
LEMMA EndsHeld ==
  ASSUME CollectionType, at # "taken", ~Reverted, NEW m \in 1..Now, TurnedAt(m),
         at \in Late, Between("id", id, m, Now), Between("head", base, m, Now),
         NEW moved, "settings-observation-mismatch" \notin Missing(moved)
  PROVE  /\ past[m]["id"] = id /\ past[m] \in Repositories
         /\ past[m]["head"] = Snapshot(moved).sha
         /\ Tells(Snapshot(moved), past[m])
         /\ Snapshot(moved).policy = Tree[past[m]["head"]].policy
<1> DEFINE s == Snapshot(moved)
<1>1. /\ ~SettingsMismatch /\ s.sha = base
      /\ s.protection = seen[1].protection /\ s.tags = seen[1].tags
      /\ s.rulesets = seen[1].rulesets /\ s.policy = Tree[base].policy
  BY MissingNothing DEF Snapshot
<1>2. HeldAt(m, seen[1])
  BY <1>1, TurnHeld DEF TurnedAt, Late
<1>3. s.protection # Refused /\ \A j \in DOMAIN s.rulesets : s.rulesets[j] # Refused
  BY <1>1 DEF TurnedAt, ReadIn, Full
<1>4. past[m] \in Repositories
  BY PastType
<1> HIDE DEF s
<1>5. QED BY <1>1, <1>2, <1>3, <1>4 DEF HeldAt, Tells, s

LEMMA ExitHeld ==
  ASSUME CollectionType, at # "taken", Collecting, UNCHANGED observed,
         at' = "exited", NEW m \in 1..Now, NEW s, out'.snapshot = s,
         out'.report.status \in {"pass", "fail", "incomplete"},
         out'.exit = ExitCode(out'.report.status),
         ~Reverted /\ out'.report.status # "incomplete" =>
           /\ past[m]["id"] = id /\ past[m] \in Repositories
           /\ past[m]["head"] = s.sha
           /\ Tells(s, past[m])
           /\ s.policy = Tree[past[m]["head"]].policy
           /\ out'.report.status = "pass" => Sound(s)
  PROVE  (FactsHeldTogether /\ PassMeansProtected)'
<1>1. past' = past /\ repository' = repository /\ case' = case /\ id' = id
  BY DEF Collecting, observed
<1>2. DOMAIN past = 1..Now /\ Fixed \cup RulesetId \subseteq Pieces /\ case \in Cases
  BY PastType DEF CollectionType
<1>3. Reverted' <=> Reverted
  BY <1>1 DEF Reverted
<1>4. FactsHeldTogether'
  <2> SUFFICES ASSUME Judged', ~Reverted' PROVE FactsHeldTogether'
    BY DEF FactsHeldTogether
  <2>1. /\ past[m]["id"] = id /\ past[m]["head"] = s.sha /\ Tells(s, past[m])
    BY <1>3 DEF Judged
  <2>2. /\ MapProtection(past[m]["protection"]) = s.protection
        /\ MapTags(past[m]["tags"]) = s.tags
        /\ [j \in {i \in RulesetId : past[m][i] # Absent} |-> MapRuleset(past[m][j])]
             = s.rulesets
    BY <2>1 DEF Tells
  <2>3. QED BY <1>1, <1>2, <2>1, <2>2 DEF FactsHeldTogether
<1>5. PassMeansProtected'
  <2> SUFFICES ASSUME out'.exit = 0, ~Reverted' PROVE PassMeansProtected'
    BY DEF PassMeansProtected
  <2>1. out'.report.status = "pass"
    BY DEF ExitCode
  <2>2. ~(CanRewrite(past[m]) \/ CanMergeUnreviewed(past[m])
          \/ CanMergeUnchecked(past[m]) \/ CanMoveTags(past[m]))
    BY <1>2, <1>3, <2>1, SoundProtects
  <2>3. QED BY <1>1, <1>2, <2>2 DEF PassMeansProtected
<1>6. QED BY <1>4, <1>5

LEMMA AuditStatus ==
  ASSUME NEW s PROVE AuditSnapshot(s).status \in {"pass", "fail", "incomplete"}
BY DEF AuditSnapshot

LEMMA EndBranchKeeps ==
  ASSUME CollectionInv, EndBranch PROVE CollectionInv'
<1> DEFINE moved == When2(repository["head"] # base, "base-revision-changed")
                    \cup When2(at # "end branch", "repository-identity-changed")
<1>1. /\ at \in {"end branch", "end branch of another"} /\ Collecting
      /\ past' = past /\ repository' = repository /\ case' = case
  BY DEF EndBranch, Collecting
<1>2. CollectionType /\ at # "taken" /\ at \in Turned /\ at \in Late /\ Now \in Nat
  BY <1>1, PastType DEF CollectionInv, Turned, Late
<1>3. PICK m \in 1..Now : TurnedAt(m)
  BY <1>2 DEF CollectionInv
<1>4. moved = {} => at = "end branch" /\ repository["head"] = base
  BY <1>1 DEF When2
<1>5. moved = {} => Between("id", id, m, Now) /\ Between("head", base, m, Now)
  BY <1>2, <1>3, <1>4, IsNow DEF TurnedAt, Late
<1>6. CASE case.mode = "live"
  <2> DEFINE s == Snapshot(moved)
  <2>1. Exit(AuditSnapshot(s), s, NoBundle) /\ UNCHANGED observed
    BY <1>6 DEF EndBranch
  <2>2. /\ at' = "exited" /\ out'.snapshot = s /\ out'.report = AuditSnapshot(s)
        /\ out'.exit = ExitCode(AuditSnapshot(s).status)
    BY <2>1 DEF Exit
  <2>3. ASSUME ~Reverted, AuditSnapshot(s).status # "incomplete"
        PROVE  /\ past[m]["id"] = id /\ past[m] \in Repositories
               /\ past[m]["head"] = s.sha
               /\ Tells(s, past[m])
               /\ s.policy = Tree[past[m]["head"]].policy
               /\ AuditSnapshot(s).status = "pass" => Sound(s)
    <3>1. Missing(moved) = {}
      <4> HIDE DEF moved
      <4>1. s.missing = Missing(moved)
        BY DEF Snapshot
      <4>2. s.missing = {}
        BY <2>3, CompleteAudit
      <4>3. QED BY <4>1, <4>2
    <3>2. moved = {} /\ "settings-observation-mismatch" \notin Missing(moved)
      BY <3>1 DEF Missing
    <3> HIDE DEF moved
    <3>3. QED BY <1>2, <1>3, <1>5, <2>3, <3>2, EndsHeld, PassIsSound
  <2> HIDE DEF s
  <2>4. (FactsHeldTogether /\ PassMeansProtected)'
    BY <1>1, <1>2, <2>1, <2>2, <2>3, AuditStatus, ExitHeld
  <2>5. CollectionType'
    BY <1>1, <1>2, <2>1, TypeKept DEF observed
  <2>6. QED BY <2>2, <2>4, <2>5 DEF CollectionInv, Turned, Late
<1>7. CASE case.mode # "live" /\ moved # {}
  <2>1. Stop
    BY <1>7 DEF EndBranch
  <2>2. QED BY <1>1, <1>2, <2>1, StopKeeps
<1>8. CASE case.mode # "live" /\ moved = {}
  <2>1. at' = "evidence repository" /\ UNCHANGED <<observed, out>>
    BY <1>8 DEF EndBranch
  <2>2. CollectionType'
    BY <1>1, <1>2, <2>1, TypeKept DEF observed
  <2>3. id' = id /\ base' = base /\ seen' = seen
    BY <2>1 DEF observed
  <2>4. TurnedAt(m)' /\ Now' = Now
    BY <1>1, <1>3, <1>5, <1>8, <2>1, <2>3, SamePast DEF TurnedAt, Late, Full
  <2>5. QED
    BY <1>1, <2>1, <2>2, <2>4, NotJudged
       DEF CollectionInv, Turned, Late, FactsHeldTogether, PassMeansProtected, Judged
<1>9. QED BY <1>6, <1>7, <1>8

LEMMA EvidenceBranchKeeps ==
  ASSUME CollectionInv, EvidenceBranch PROVE CollectionInv'
<1> DEFINE s == Snapshot({})
           b == Build(s, repository["head"], Tree[base].policy, case.roots)
<1>1. at = "evidence branch" /\ Collecting /\ past' = past
  BY DEF EvidenceBranch, Collecting
<1>2. CollectionType /\ at # "taken" /\ at \in Turned /\ at \in Late /\ Now \in Nat
  BY <1>1, PastType DEF CollectionInv, Turned, Late
<1>3. PICK m \in 1..Now : TurnedAt(m)
  BY <1>2 DEF CollectionInv
<1>4. Between("id", id, m, Now) /\ Between("head", base, m, Now)
  BY <1>1, <1>3 DEF TurnedAt, Late
<1>5. CASE repository["head"] # base \/ b = NoBundle
  <2>1. Stop
    BY <1>5 DEF EvidenceBranch
  <2>2. QED BY <1>1, <1>2, <2>1, StopKeeps
<1>6. CASE ~(repository["head"] # base \/ b = NoBundle)
  <2> DEFINE h == Hydrate(b.body)
  <2>1. Exit(AuditSnapshot(h), s, b) /\ UNCHANGED observed
    BY <1>6 DEF EvidenceBranch
  <2>2. /\ at' = "exited" /\ out'.snapshot = s /\ out'.report = AuditSnapshot(h)
        /\ out'.exit = ExitCode(AuditSnapshot(h).status)
    BY <2>1 DEF Exit
  <2>3. EvidenceMissing(s) # Refused /\ b.body.snapshot = ProjectSnapshot(s)
    BY <1>6 DEF Build, Bundle
  <2>4. ASSUME ~Reverted, AuditSnapshot(h).status # "incomplete"
        PROVE  /\ past[m]["id"] = id /\ past[m] \in Repositories
               /\ past[m]["head"] = s.sha
               /\ Tells(s, past[m])
               /\ s.policy = Tree[past[m]["head"]].policy
               /\ AuditSnapshot(h).status = "pass" => Sound(s)
    <3>1. EvidenceMissing(s) = {}
      BY <2>3, <2>4, CompleteAudit DEF Hydrate, ProjectSnapshot
    <3>2. s.missing = Missing({})
      BY DEF Snapshot
    <3>3. "settings-observation-mismatch" \notin Missing({})
      BY <2>3, <3>1, <3>2 DEF EvidenceMissing, EvidenceCodes
    <3>4. /\ past[m]["id"] = id /\ past[m] \in Repositories
          /\ past[m]["head"] = s.sha /\ Tells(s, past[m])
          /\ s.policy = Tree[past[m]["head"]].policy
      BY <1>2, <1>3, <1>4, <2>4, <3>3, EndsHeld
    <3> HIDE DEF s, b
    <3>5. ASSUME AuditSnapshot(h).status = "pass" PROVE Sound(s)
      BY <1>2, <2>3, <3>4, <3>5, PastType, ReplayIsSound DEF CollectionType
    <3>6. QED BY <3>4, <3>5
  <2> HIDE DEF s, h
  <2>5. (FactsHeldTogether /\ PassMeansProtected)'
    BY <1>1, <1>2, <2>1, <2>2, <2>4, AuditStatus, ExitHeld
  <2>6. CollectionType'
    BY <1>1, <1>2, <2>1, TypeKept DEF observed
  <2>7. QED BY <2>2, <2>5, <2>6 DEF CollectionInv, Turned, Late
<1>7. QED BY <1>5, <1>6

LEMMA CollectKeeps ==
  ASSUME CollectionInv, Collect PROVE CollectionInv'
<1>1. /\ CollectionType /\ at # "taken" /\ Collecting
      /\ past' = past /\ repository' = repository /\ case' = case
  BY DEF Collect, ReadRepository, ReadBranch, ReadProtection, ReadTags, ListRulesets,
         ReadRuleset, SettingsRead, ReadTree, EndRepository, EndBranch,
         EvidenceRepository, EvidenceBranch, Fail, Read, Reading, Ended, Collecting,
         CollectionInv
<1>2. Now \in Nat /\ Now >= 1 /\ Now' = Now
  BY <1>1, PastType, SamePast
<1>3. at' # "exited" => (FactsHeldTogether /\ PassMeansProtected)'
  BY DEF FactsHeldTogether, PassMeansProtected, Judged
<1>4. CASE Stop
  BY <1>1, <1>4, StopKeeps
<1>5. CASE ReadRepository
  <2>1. id' = repository["id"] /\ at' = "branch" /\ UNCHANGED <<base, seen, out>>
        /\ at = "repository"
    BY <1>5 DEF ReadRepository
  <2>2. CollectionType' /\ Between("id", id, 1, Now)'
    BY <1>1, <1>2, <2>1, TypeKept, IsNow, SamePast
  <2>3. QED BY <1>1, <1>2, <1>3, <2>1, <2>2 DEF CollectionInv, Turned, Late, NoSettings
<1>6. CASE ReadBranch /\ ~Stop
  <2>1. base' = repository["head"] /\ at' = "first" /\ UNCHANGED <<id, seen, out>>
        /\ at = "branch"
    BY <1>6 DEF ReadBranch
  <2>2. CollectionType' /\ Between("head", base, 1, Now)' /\ Between("id", id, 1, Now)'
    BY <1>1, <1>2, <2>1, TypeKept, IsNow, SamePast DEF CollectionInv
  <2>3. ReadIn(seen[1], 1, Now)'
    <3>1. seen'[1] = NoSettings
      BY <2>1 DEF CollectionInv
    <3>2. QED BY <1>1, <3>1, NothingRead, SamePast
  <2>4. QED BY <1>1, <1>2, <1>3, <2>1, <2>2, <2>3 DEF CollectionInv, Turned, Late, NoSettings
<1>7. CASE SettingsStep /\ at = "first" /\ ~Stop
  <2>1. Reading = 1 /\ ReadIn(seen[1], 1, Now)
    BY <1>7 DEF Reading, CollectionInv
  <2>2. /\ UNCHANGED <<at, id, base, out>> /\ seen' = [seen EXCEPT ![1] = seen'[1]]
        /\ Settings(seen'[1]) /\ ReadIn(seen'[1], 1, Now)
    BY <1>1, <1>2, <1>7, <2>1, ReadingSettings
  <2>3. seen'[2] = seen[2] /\ seen' = [k \in 1..2 |-> seen'[k]]
    BY <1>1, <2>2 DEF CollectionType
  <2>4. CollectionType'
    BY <1>1, <2>2, <2>3 DEF CollectionType, Settings, Repositories, Pieces, Now
  <2>5. ReadIn(seen[1], 1, Now)'
    BY <1>1, <1>2, <2>2, SamePast
  <2>6. Between("id", id, 1, Now)' /\ Between("head", base, 1, Now)'
    BY <1>1, <1>2, <1>7, <2>2, SamePast DEF CollectionInv
  <2>7. QED
    BY <1>3, <1>7, <2>2, <2>3, <2>4, <2>5, <2>6 DEF CollectionInv, Turned, Late, NoSettings
<1>8. CASE SettingsStep /\ at = "second" /\ ~Stop
  <2>1. PICK m \in 1..Now : TurnedAt(m)
    BY <1>8 DEF CollectionInv, Turned
  <2>2. Reading = 2 /\ ReadIn(seen[2], m, Now)
    BY <1>8, <2>1 DEF Reading, TurnedAt
  <2>3. /\ UNCHANGED <<at, id, base, out>> /\ seen' = [seen EXCEPT ![2] = seen'[2]]
        /\ Settings(seen'[2]) /\ ReadIn(seen'[2], m, Now)
    BY <1>1, <1>2, <1>8, <2>2, ReadingSettings
  <2>4. seen'[1] = seen[1] /\ seen' = [k \in 1..2 |-> seen'[k]]
    BY <1>1, <2>3 DEF CollectionType
  <2>5. CollectionType'
    BY <1>1, <2>3, <2>4 DEF CollectionType, Settings, Repositories, Pieces, Now
  <2>6. ReadIn(seen[1], 1, m)' /\ ReadIn(seen[2], m, Now)' /\ Full(seen[1])'
    BY <1>1, <1>2, <2>1, <2>3, <2>4, SamePast DEF TurnedAt, Full
  <2>7. Between("id", id, 1, m)' /\ Between("head", base, 1, m)'
    BY <1>1, <1>2, <2>1, <2>3, SamePast DEF TurnedAt
  <2>8. TurnedAt(m)'
    BY <1>8, <2>3, <2>6, <2>7 DEF TurnedAt, Late
  <2>9. QED
    BY <1>2, <1>3, <1>8, <2>3, <2>5, <2>8 DEF CollectionInv, Turned, Late, NoSettings
<1>9. CASE SettingsRead /\ at = "first"
  <2>1. at' = "tree" /\ UNCHANGED <<observed, out>> /\ Full(seen[1])
    BY <1>9 DEF SettingsRead, Reading, Full
  <2>2. CollectionType' /\ UNCHANGED <<id, base, seen>>
    BY <1>1, <2>1, TypeKept DEF observed
  <2>3. /\ Between("id", id, 1, Now)' /\ Between("head", base, 1, Now)'
        /\ ReadIn(seen[1], 1, Now)' /\ Full(seen[1])'
    BY <1>1, <1>2, <1>9, <2>1, <2>2, SamePast DEF CollectionInv, Full
  <2>4. ReadIn(seen[2], Now, Now)'
    <3>1. seen'[2] = NoSettings
      BY <1>9, <2>2 DEF CollectionInv
    <3>2. QED BY <1>1, <1>2, <3>1, NothingRead, SamePast
  <2>5. TurnedAt(Now)'
    BY <1>2, <2>1, <2>3, <2>4 DEF TurnedAt, Late
  <2>6. Now \in 1..Now' /\ TurnedAt(Now)'
    BY <1>2, <2>5
  <2>7. \E m \in 1..Now' : TurnedAt(m)'
    BY <1>2, <2>1, <2>3, <2>4 DEF TurnedAt, Late
  <2>8. QED
    BY <1>2, <1>3, <1>9, <2>1, <2>2, <2>7 DEF CollectionInv, Turned, Late, NoSettings
<1>10. CASE SettingsRead /\ at = "second"
  <2>1. at' = "end repository" /\ UNCHANGED <<observed, out>> /\ Full(seen[2])
    BY <1>10 DEF SettingsRead, Reading, Full
  <2>2. CollectionType' /\ UNCHANGED <<id, base, seen>>
    BY <1>1, <2>1, TypeKept DEF observed
  <2>3. PICK m \in 1..Now : TurnedAt(m)
    BY <1>10 DEF CollectionInv, Turned
  <2>4. TurnedAt(m)'
    BY <1>1, <1>2, <2>1, <2>2, <2>3, SamePast DEF TurnedAt, Late, Full
  <2>5. QED
    BY <1>2, <1>3, <1>10, <2>1, <2>2, <2>4 DEF CollectionInv, Turned, Late, NoSettings
<1>11. CASE ReadTree /\ ~Stop
  <2>1. at' = "second" /\ UNCHANGED <<observed, out>> /\ at = "tree"
    BY <1>11 DEF ReadTree
  <2>2. CollectionType' /\ UNCHANGED <<id, base, seen>>
    BY <1>1, <2>1, TypeKept DEF observed
  <2>3. PICK m \in 1..Now : TurnedAt(m)
    BY <2>1 DEF CollectionInv, Turned
  <2>4. TurnedAt(m)'
    BY <1>1, <1>2, <2>1, <2>2, <2>3, SamePast DEF TurnedAt, Late, Full
  <2>5. QED
    BY <1>2, <1>3, <2>1, <2>2, <2>4 DEF CollectionInv, Turned, Late, NoSettings
<1>12. CASE EndRepository /\ ~Stop
  <2>1. /\ at' \in {"end branch", "end branch of another"} /\ at = "end repository"
        /\ UNCHANGED <<observed, out>>
        /\ at' = "end branch" => repository["id"] = id
    BY <1>12 DEF EndRepository
  <2>2. CollectionType' /\ UNCHANGED <<id, base, seen>>
    BY <1>1, <2>1, TypeKept DEF observed
  <2>3. PICK m \in 1..Now : TurnedAt(m)
    BY <2>1 DEF CollectionInv, Turned
  <2>4. at' = "end branch" => Between("id", id, m, Now)
    BY <1>1, <1>2, <2>1, IsNow
  <2>5. TurnedAt(m)'
    BY <1>1, <1>2, <2>1, <2>2, <2>3, <2>4, SamePast DEF TurnedAt, Late, Full
  <2>6. QED
    BY <1>2, <1>3, <2>1, <2>2, <2>5 DEF CollectionInv, Turned, Late, NoSettings
<1>13. CASE EvidenceRepository /\ ~Stop
  <2>1. at' = "evidence branch" /\ at = "evidence repository" /\ UNCHANGED <<observed, out>>
    BY <1>13 DEF EvidenceRepository
  <2>2. CollectionType' /\ UNCHANGED <<id, base, seen>>
    BY <1>1, <2>1, TypeKept DEF observed
  <2>3. PICK m \in 1..Now : TurnedAt(m)
    BY <2>1 DEF CollectionInv, Turned, Late
  <2>4. TurnedAt(m)'
    BY <1>1, <1>2, <2>1, <2>2, <2>3, SamePast DEF TurnedAt, Late, Full
  <2>5. QED
    BY <1>2, <1>3, <2>1, <2>2, <2>4 DEF CollectionInv, Turned, Late, NoSettings
<1>14. CASE SettingsStep \/ SettingsRead
  BY <1>4, <1>7, <1>8, <1>9, <1>10, <1>14
     DEF SettingsStep, ReadProtection, ReadTags, ListRulesets, ReadRuleset,
         SettingsRead, Reading
<1>15. QED
  BY <1>4, <1>5, <1>6, <1>11, <1>12, <1>13, <1>14, EndBranchKeeps, EvidenceBranchKeeps
     DEF Collect, Fail, SettingsStep

LEMMA CollectionInitially == Init => CollectionInv
<1> SUFFICES ASSUME Init PROVE CollectionInv
  OBVIOUS
<1>1. /\ case \in Cases /\ repository = case.repository /\ past = <<repository>>
      /\ at = IF case.mode = "review" THEN "taken" ELSE "repository"
      /\ seen = [k \in 1..2 |-> NoSettings]
  BY DEF Init, CollectionInit
<1>2. repository \in Repositories
  <2>1. /\ Pieces = DOMAIN case.repository
        /\ case.repository = [p \in Pieces |-> case.repository[p]]
    BY <1>1, CollectionAssumption DEF Pieces
  <2>2. \A p \in Pieces : case.repository[p] \in Values(case, p)
    BY DEF Values
  <2>3. QED BY <1>1, <2>1, <2>2 DEF Repositories
<1>3. past \in Seq(Repositories) /\ Now = 1 /\ past[Now] = repository
  BY <1>1, <1>2 DEF Now
<1>4. CollectionType
  BY <1>1, <1>3, NothingRead DEF CollectionType
<1>5. QED
  BY <1>1, <1>4 DEF CollectionInv, Turned, Late, FactsHeldTogether,
                    PassMeansProtected, Judged

LEMMA CollectionAlways == Spec => []CollectionInv
<1>1. ASSUME CollectionInv, [Next]_vars PROVE CollectionInv'
  <2>1. CASE Take
    <3>1. /\ case' = case /\ at' = "taken" /\ seen' = [k \in 1..2 |-> NoSettings]
      BY <2>1 DEF Take
    <3>2. CollectionType'
      BY <1>1, <3>1, NothingRead DEF CollectionType, CollectionInv, Settings
    <3>3. FactsHeldTogether' /\ PassMeansProtected'
      BY <3>1 DEF FactsHeldTogether, PassMeansProtected, Judged
    <3>4. (at \in Turned => \E m \in 1..Now : TurnedAt(m))'
      BY <3>1 DEF Turned, Late
    <3>5. /\ (at = "first" => Between("head", base, 1, Now) /\ ReadIn(seen[1], 1, Now))'
          /\ (at \in {"branch", "first"} => Between("id", id, 1, Now))'
      BY <3>1
    <3>6. /\ (at \in {"repository", "branch"} => seen[1] = NoSettings)'
          /\ (at \in {"repository", "branch", "first", "tree"} => seen[2] = NoSettings)'
          /\ (at \in {"repository", "branch", "first", "exited", "taken"} \cup Turned)'
      BY <3>1
    <3>7. QED
      BY <3>2, <3>3, <3>4, <3>5, <3>6 DEF CollectionInv
  <2>2. CASE UNCHANGED <<case, collection>>
    <3>1. UNCHANGED <<case, repository, past, at, id, base, seen, out>>
      BY <2>2 DEF collection, observed
    <3>2. CollectionType'
      BY <1>1, <3>1 DEF CollectionInv, CollectionType, Settings, Repositories, Pieces, Now
    <3>3. FactsHeldTogether' /\ PassMeansProtected'
      <4>1. Reverted' = Reverted
        BY <3>1 DEF Reverted
      <4>2. QED
        BY <1>1, <3>1, <4>1 DEF CollectionInv, FactsHeldTogether, PassMeansProtected, Judged
    <3>4. \A m : TurnedAt(m) => TurnedAt(m)'
      BY <3>1, SamePast DEF TurnedAt, Full
    <3>5. (at \in Turned => \E m \in 1..Now : TurnedAt(m))'
      BY <1>1, <3>1, <3>4, SamePast DEF CollectionInv, Turned, Late
    <3>6. /\ (at \in {"branch", "first"} => Between("id", id, 1, Now))'
          /\ (at = "first" => Between("head", base, 1, Now) /\ ReadIn(seen[1], 1, Now))'
      BY <1>1, <3>1, SamePast DEF CollectionInv
    <3>7. /\ (at \in {"repository", "branch"} => seen[1] = NoSettings)'
          /\ (at \in {"repository", "branch", "first", "tree"} => seen[2] = NoSettings)'
          /\ (at \in {"repository", "branch", "first", "exited", "taken"} \cup Turned)'
      BY <1>1, <3>1 DEF CollectionInv, NoSettings, Turned, Late
    <3>8. QED
      BY <3>2, <3>3, <3>5, <3>6, <3>7 DEF CollectionInv
  <2>3. QED BY <1>1, <2>1, <2>2, CollectionSteps, EditKeeps, CollectKeeps
<1>2. QED BY <1>1, CollectionInitially, PTL DEF Spec

(* What a snapshot says was so at one moment: however the settings change    *)
(* while github-audit.ts reads them one after the other, unless the facts    *)
(* about one of them change and come back.                                   *)
THEOREM FactsAlwaysHeldTogether == Spec => []FactsHeldTogether
<1>1. CollectionInv => FactsHeldTogether
  BY DEF CollectionInv
<1>2. QED BY <1>1, CollectionAlways, PTL

(* Exit code 0 of an audit means that the branch and its tags were protected *)
(* at one moment, through every conversion from GitHub's settings to facts,  *)
(* and from facts to a bundle and back.                                      *)
THEOREM PassAlwaysMeansProtected == Spec => []PassMeansProtected
<1>1. CollectionInv => PassMeansProtected
  BY DEF CollectionInv
<1>2. QED BY <1>1, CollectionAlways, PTL
=============================================================================
