------------------------- MODULE EvidenceReviewProofs -------------------------
(***************************************************************************)
(* Proofs about EvidencePromotion and EvidenceReview: what the clean-up of *)
(* a promotion removes, what it reports, and what a review accepts.        *)
(***************************************************************************)
EXTENDS EvidenceReview, SequenceTheorems, TLAPS

AnyFile == [doc : Documents(case) \cup {None}, own : BOOLEAN, ver : Nat]
Numbers == 1..Len(files)

Cleaning == {"written", "partial", "rejected", "unlink"}
Aside == {"verify", "restore"}

PromotionType ==
  /\ case \in Cases
  /\ at = "exited" => out.report.status \in Verdicts
  /\ files \in Seq(AnyFile)
  /\ names \in [Names -> {None} \cup Numbers]
  /\ owned \in [Public -> {None} \cup Numbers]
  /\ mishaps \in Nat
  /\ step \in 1..(Len(Program) + 1)
  /\ step \in 2..(Discard - 1) => bundle \in OwnBundles
  /\ phase \in {"start"} \cup Cleaning \cup Aside
  /\ phase \in Cleaning =>
       At("write") /\ stat \in [ino : Numbers, ver : {0}, known : 0..Len(files)]
  /\ phase \in Aside => Removing
  /\ phase = "restore" => stat \in [ino : {None}, ver : {0}, known : 0..Len(files)]

(* A file has one name, and a file the run owns has its own.  A file is      *)
(* aside while it is verified and restored; what came to its name meanwhile  *)
(* is not the one that is owned.                                             *)
AtHome ==
  /\ \A m, n \in Names : names[m] = names[n] /\ names[m] # None => m = n
  /\ names["quarantine"] # None <=> phase \in Aside
  /\ \A m \in Names, n \in Public :
       owned[n] # None /\ names[m] = owned[n] =>
         m = n \/ (m = "quarantine" /\ Name = n)
  /\ phase \in Aside => names[Name] = None \/ names[Name] # owned[Name]

(* What stands under the name a clean-up is about to take or to overwrite is *)
(* a file of the run, or came after the clean-up looked.                     *)
ComesLater ==
  /\ phase \in Cleaning => files[stat.ino].own
  /\ phase = "unlink" =>
       names[Name] \in {None, stat.ino} \/ names[Name] > stat.known
  /\ phase = "restore" => names[Name] = None \/ names[Name] > stat.known

LossInv == PromotionType /\ AtHome /\ ComesLater /\ LosesNothingSeen

(* The step of the catch block that is about name n. *)
DiscardOf(n) ==
  CASE n = "pending" -> Discard [] n = "bundle" -> Discard + 1
    [] n = "replay" -> Discard + 2 [] n = "manifest" -> Discard + 3

BeingWritten(n) == phase \in Cleaning /\ Name = n /\ stat.ino = names[n]
ToDiscard(n) == owned[n] # None /\ step <= DiscardOf(n)

(* A file of the run under a public name is reported, is being written, or   *)
(* its removal is to come; one that is stranded will fail its verification.  *)
Accounted ==
  step <= Len(Program) =>
    /\ \A n \in Public : Exists(n) /\ files[names[n]].own =>
         n \in reported \/ BeingWritten(n) \/ (ToDiscard(n) /\ owned[n] = names[n])
    /\ phase \in Aside /\ files[names["quarantine"]].own =>
         Name \in reported \/ owned[Name] = names["quarantine"]
    /\ \A s \in stranded :
         /\ s[1] \in Public
         /\ \/ s[1] \in reported
            \/ ToDiscard(s[1]) /\ \A n \in Names : names[n] # owned[s[1]]
    /\ step < Discard => stranded = {}
    /\ At("remove") => owned[Name] # None

ReportInv == LossInv /\ Accounted

(* What the last checks of an undisturbed promotion have seen. *)
Settled(i) == mishaps = 0 /\ (step \in i..(Discard - 1) \/ step = Len(Program) + 1)
Holds(n) == Exists(n) /\ Doc(n) = Content(n)

(* What a review has read by the time it is there. *)
ManifestRead == {"bundle", "replay", "digests", "audit", "accepted"}
BundleRead == ManifestRead \ {"bundle"}
ReplayRead == BundleRead \ {"replay"}

Undisturbed ==
  /\ Settled(13) => bundle \in OwnBundles /\ ~Exists("pending") /\ stranded = {}
  /\ Settled(18) => Holds("manifest")
  /\ Settled(19) => Holds("bundle")
  /\ Settled(20) => Holds("replay")
  /\ review.at # "start" => step >= Len(Program)
  /\ Settled(26) =>
       /\ review.at # "refused"
       /\ review.at \in ManifestRead => review.manifest = Doc("manifest")
       /\ review.at \in BundleRead => review.bundle = bundle
       /\ review.at \in ReplayRead => review.replay = Doc("replay")

ReadShaped ==
  /\ \A n \in Names : Exists(n) => Doc(n) # None
  /\ review = [at |-> review.at, manifest |-> review.manifest,
               bundle |-> review.bundle, replay |-> review.replay]
  /\ review.at \in {"start", "manifest", "refused"} \cup ManifestRead
  /\ review.at \in ManifestRead => review.manifest = ManifestOf(review.manifest.bundle,
                                        review.manifest.replay, review.manifest.status)
  /\ review.at \in ReplayRead => review.replay # None
  /\ review.at \in {"audit", "accepted"} =>
       /\ review.manifest.bundle = review.bundle
       /\ review.manifest.replay = review.replay

ReviewInv == ReportInv /\ Undisturbed /\ ReadShaped /\ ReviewIsRight

-----------------------------------------------------------------------------
(* The program of a promotion *)

LEMMA ProgramIs ==
  /\ DOMAIN Program = 1..25 /\ Len(Program) = 25
  /\ \A i \in 1..25 :
       /\ Program[i][1] = "collect" <=> i = 1
       /\ Program[i][1] = "write" <=> i \in {2, 9, 13, 16}
       /\ Program[i][1] = "own" <=> i \in {3, 5, 7, 10, 11, 14, 15, 17, 18, 19}
       /\ Program[i][1] = "replay" <=> i \in {4, 6}
       /\ Program[i][1] = "compare" <=> i = 8
       /\ Program[i][1] = "remove" <=> i = 12
       /\ Program[i][1] = "complete" <=> i = 20
       /\ Program[i][1] = "discard" <=> i \in 21..24
       /\ Program[i][1] = "failed" <=> i = 25
  /\ \A i \in 1..25 :
       /\ Program[i][2] \in Public
       /\ Program[i][2] = "pending" <=> i \in 1..8 \cup {11, 12, 21}
       /\ Program[i][2] = "bundle" <=> i \in {9, 10, 15, 18, 22}
       /\ Program[i][2] = "replay" <=> i \in {13, 14, 19, 23}
  BY DEF Program, Public

LEMMA DiscardIs == Discard = 21
<1>1. /\ 21 \in DOMAIN Program /\ Program[21] = <<"discard", "pending">>
      /\ \A i \in DOMAIN Program : Program[i] = <<"discard", "pending">> => i = 21
  <2>1. 21 \in DOMAIN Program /\ Program[21] = <<"discard", "pending">>
    BY DEF Program
  <2>2. ASSUME NEW i \in DOMAIN Program, Program[i] = <<"discard", "pending">>
        PROVE  i = 21
    <3>1. Program[i][1] = "discard" /\ Program[i][2] = "pending"
      BY <2>2
    <3>2. QED BY <2>2, <3>1, ProgramIs
  <2>3. QED BY <2>1, <2>2
<1>2. QED BY <1>1 DEF Discard

(* What an exit of the collector leaves is a verdict. *)
LEMMA ExitsWithVerdict ==
  ASSUME Edit \/ Collect, at' = "exited"
  PROVE  out'.report.status \in Verdicts
<1>1. ASSUME NEW s PROVE AuditSnapshot(s).status \in Verdicts
  BY DEF AuditSnapshot, Verdicts
<1>2. NoReport.status \in Verdicts
  BY DEF NoReport, Verdicts
<1>3. ASSUME NEW r, NEW s, NEW b, Exit(r, s, b) PROVE out'.report = r
  BY <1>3 DEF Exit
<1>4. Stop => out'.report.status \in Verdicts
  BY <1>2, <1>3 DEF Stop
<1>5. CASE Edit
  BY <1>5 DEF Edit, Ended
<1>6. ASSUME NEW f, NEW v, Read(f, v), at # "exited"
      PROVE  out'.report.status \in Verdicts
  BY <1>4, <1>6 DEF Read
<1>7. CASE ReadProtection \/ ReadTags \/ ListRulesets \/ ReadRuleset
  BY <1>4, <1>6, <1>7 DEF ReadProtection, ReadTags, ListRulesets, ReadRuleset, Reading
<1>8. CASE ReadRepository \/ ReadBranch \/ SettingsRead \/ ReadTree
  BY <1>4, <1>8 DEF ReadRepository, ReadBranch, SettingsRead, ReadTree, Reading
<1>9. CASE EndRepository \/ EvidenceRepository \/ Fail
  BY <1>4, <1>9 DEF EndRepository, EvidenceRepository, Fail
<1>10. CASE EndBranch
  BY <1>1, <1>3, <1>4, <1>10 DEF EndBranch
<1>11. CASE EvidenceBranch
  BY <1>1, <1>3, <1>4, <1>11 DEF EvidenceBranch
<1>12. QED
  BY <1>5, <1>7, <1>8, <1>9, <1>10, <1>11 DEF Collect

-----------------------------------------------------------------------------
(* The directory *)

LEMMA NamesAre ==
  /\ Names = {"pending", "bundle", "replay", "manifest", "quarantine"}
  /\ Public = Names \ {"quarantine"} /\ None \notin Nat
BY PromotionAssumption DEF Names, Public

(* A new file takes a name; the others stay as they are. *)
LEMMA PutFile ==
  ASSUME PromotionType, case' = case, NEW n \in Names, NEW own \in BOOLEAN,
         NEW doc \in Documents(case) \cup {None}, Put(n, doc, own)
  PROVE  /\ files' \in Seq(AnyFile)' /\ Len(files') = Len(files) + 1
         /\ names' \in [Names -> {None} \cup 1..Len(files')]
         /\ \A i \in Numbers : files'[i] = files[i]
         /\ files'[names'[n]] = File(doc, own) /\ names'[n] = Len(files) + 1
         /\ \A m \in Names \ {n} : names'[m] = names[m]
<1> DEFINE f == File(doc, own)
<1>1. AnyFile' = AnyFile /\ f \in AnyFile /\ files \in Seq(AnyFile)
  BY DEF AnyFile, File, PromotionType
<1>2. files' = Append(files, f)
  BY DEF Put
<1>3. /\ files' \in Seq(AnyFile) /\ Len(files') = Len(files) + 1
      /\ \A i \in 1..Len(files) : files'[i] = files[i]
      /\ files'[Len(files) + 1] = f
  <2> HIDE DEF f
  <2> QED BY <1>1, <1>2, AppendProperties
<1>4. Len(files) \in Nat
  BY <1>1, LenProperties
<1>5. QED
  BY <1>1, <1>3, <1>4 DEF Put, PromotionType, Numbers

(* Somebody overwrites a file: it stays whose it is. *)
LEMMA OverwriteFile ==
  ASSUME PromotionType, case' = case, NEW i \in Numbers, NEW doc \in Documents(case),
         files' = [files EXCEPT ![i] =
                     [doc |-> doc, own |-> @.own, ver |-> @.ver + 1]]
  PROVE  /\ files' \in Seq(AnyFile)' /\ Len(files') = Len(files)
         /\ \A j \in Numbers : files'[j].own = files[j].own
         /\ \A j \in Numbers : files'[j].doc = IF j = i THEN doc ELSE files[j].doc
<1> DEFINE f == [doc |-> doc, own |-> files[i].own, ver |-> files[i].ver + 1]
<1>1. AnyFile' = AnyFile /\ files \in Seq(AnyFile) /\ files[i] \in AnyFile
  BY ElementOfSeq DEF AnyFile, PromotionType, Numbers
<1>2. f \in AnyFile /\ f.own = files[i].own /\ f.doc = doc
  BY <1>1 DEF AnyFile
<1>3. files' = [files EXCEPT ![i] = f]
  BY <1>1
<1>4. /\ files' \in Seq(AnyFile) /\ Len(files') = Len(files)
      /\ \A j \in 1..Len(files) : files'[j] = IF j = i THEN f ELSE files[j]
  <2> HIDE DEF f
  <2>1. i \in 1..Len(files)
    BY DEF Numbers
  <2>2. QED BY <1>1, <1>2, <1>3, <2>1, ExceptSeq
<1>5. QED
  BY <1>1, <1>2, <1>4 DEF Numbers

LEMMA FileShapes ==
  ASSUME PromotionType
  PROVE  /\ Len(files) \in Nat
         /\ \A i \in Numbers : files[i].own \in BOOLEAN
         /\ \A n \in Names : names[n] \in {None} \cup Numbers
         /\ \A n \in Public : owned[n] \in {None} \cup Numbers
         /\ \A n \in Names : Exists(n) <=> names[n] \in Numbers
<1>1. Len(files) \in Nat /\ \A i \in Numbers : files[i] \in AnyFile
  BY LenProperties, ElementOfSeq DEF PromotionType, Numbers
<1>2. \A i \in Numbers : files[i].own \in BOOLEAN
  BY <1>1 DEF AnyFile
<1>3. QED
  BY <1>1, <1>2, NamesAre DEF PromotionType, Exists, Numbers

-----------------------------------------------------------------------------
(* Types *)

(* The steps that start over, and those that stay within an operation. *)
LEMMA StepMoves ==
  ASSUME PromotionType, step \in DOMAIN Program
  PROVE  /\ step \in 1..25 /\ Name \in Public
         /\ Done \/ Throw => step' \in 2..26 /\ phase' = "start"
         /\ Throw /\ step # 25 => step' \in 21..25
<1>1. step \in 1..25 /\ Name \in Public
  BY ProgramIs DEF Name
<1>2. /\ Done => step' = step + 1 /\ phase' = "start"
      /\ Throw => step' = (IF step < 21 THEN 21 ELSE step + 1) /\ phase' = "start"
  BY DiscardIs DEF Done, Throw, Go
<1>3. QED BY <1>1, <1>2

(* What the run writes is a document. *)
LEMMA ContentIsDocument ==
  ASSUME PromotionType, At("write")
  PROVE  Content(Name) \in Documents(case) /\ Torn \in Documents(case)
<1>1. step \in 2..20 /\ Name \in Public
  BY ProgramIs DEF At, Name
<1>2. PICK v \in Verdicts : bundle = BundleOf("own", v)
  BY <1>1, DiscardIs DEF PromotionType, OwnBundles
<1>3. bundle.status = v
  BY <1>2 DEF BundleOf
<1>4. /\ bundle \in Documents(case) /\ ReportOf(v) \in Documents(case)
      /\ ManifestOf(bundle, ReportOf(v), v) \in Documents(case)
      /\ Torn \in Documents(case)
  BY <1>2 DEF Documents, OwnBundles
<1>5. QED
  BY <1>1, <1>3, <1>4 DEF Content, Public

(* An operation that ends leaves the directory as it is, or takes a name     *)
(* from a file.                                                              *)
LEMMA TypeOfEnd ==
  ASSUME PromotionType, step \in DOMAIN Program, Done \/ Throw, step # 1 \/ step' # 2,
         step' # step + 1 \/ step # 20,
         UNCHANGED <<case, at, out, files, bundle>>,
         names' \in [Names -> {None} \cup Numbers],
         owned' \in [Public -> {None} \cup Numbers],
         mishaps' \in Nat
  PROVE  PromotionType'
<1>1. /\ step' \in 2..26 /\ phase' = "start" /\ Numbers' = Numbers
      /\ AnyFile' = AnyFile
  BY StepMoves DEF Numbers, AnyFile
<1>2. step' \in 2..20 => step' = step + 1 /\ step \in 2..19
  BY StepMoves, ProgramIs, DiscardIs DEF Throw, Done, Go
<1>3. (step \in 2..(Discard - 1) => bundle \in OwnBundles)'
  BY <1>2, DiscardIs DEF PromotionType
<1>4. (step \in 1..(Len(Program) + 1))'
  BY <1>1, ProgramIs
<1>5. QED
  BY <1>1, <1>3, <1>4, Zenon DEF PromotionType, Cleaning, Aside

(* A step within an operation. *)
LEMMA TypeWithin ==
  ASSUME PromotionType, UNCHANGED <<case, at, out, files, step, bundle, owned>>,
         names' \in [Names -> {None} \cup Numbers], mishaps' \in Nat,
         \/ /\ phase' \in Cleaning /\ At("write")
            /\ stat' \in [ino : Numbers, ver : {0}, known : 0..Len(files)]
         \/ phase' = "verify" /\ Removing
         \/ /\ phase' = "restore" /\ Removing
            /\ stat' \in [ino : {None}, ver : {0}, known : 0..Len(files)]
  PROVE  PromotionType'
<1>1. /\ AnyFile' = AnyFile /\ Numbers' = Numbers
      /\ At("write")' = At("write") /\ Removing' = Removing
  BY DEF AnyFile, Numbers, At, Removing, Name
<1>2. phase' \in {"start"} \cup Cleaning \cup Aside
  BY DEF Cleaning, Aside
<1>3. (phase \in Cleaning =>
         At("write") /\ stat \in [ino : Numbers, ver : {0}, known : 0..Len(files)])'
  BY <1>1 DEF Cleaning
<1>4. /\ (phase \in Aside => Removing)'
      /\ (phase = "restore" => stat \in [ino : {None}, ver : {0}, known : 0..Len(files)])'
  BY <1>1 DEF Cleaning, Aside
<1>5. QED
  BY <1>1, <1>2, <1>3, <1>4 DEF PromotionType

LEMMA MishapsCount ==
  ASSUME PromotionType, Mishap \/ NoMishap
  PROVE  mishaps' \in Nat
BY DEF PromotionType, Mishap, NoMishap

LEMMA MeddleType ==
  ASSUME PromotionType, Meddle
  PROVE  PromotionType'
<1>1. UNCHANGED <<case, at, out, step, phase, bundle, owned, stat>> /\ mishaps' \in Nat
  BY MishapsCount DEF Meddle, collection, promotion
<1>2. PICK n \in Public :
        \/ \E doc \in Forgeries[n] : Put(n, doc, FALSE)
        \/ /\ Exists(n)
           /\ \E doc \in Forgeries[n] :
                files' = [files EXCEPT ![names[n]] =
                            [doc |-> doc, own |-> @.own, ver |-> @.ver + 1]]
           /\ UNCHANGED names
        \/ Exists(n) /\ Gone(n)
  BY DEF Meddle
<1>3. \A doc \in Forgeries[n] : doc \in Documents(case)
  BY <1>2 DEF Documents
<1>4. /\ files' \in Seq(AnyFile)' /\ Len(files') \in Nat /\ Len(files) \in Nat
      /\ Len(files) <= Len(files') /\ names' \in [Names -> {None} \cup 1..Len(files')]
  <2>1. CASE \E doc \in Forgeries[n] : Put(n, doc, FALSE)
    <3>1. PICK doc \in Forgeries[n] : Put(n, doc, FALSE)
      BY <2>1
    <3>2. doc \in Documents(case) \cup {None} /\ n \in Names /\ FALSE \in BOOLEAN
      BY <1>3, NamesAre
    <3>3. /\ files' \in Seq(AnyFile)' /\ Len(files') = Len(files) + 1
          /\ names' \in [Names -> {None} \cup 1..Len(files')]
      BY <1>1, <3>1, <3>2, PutFile
    <3>4. Len(files) \in Nat
      BY FileShapes
    <3>5. QED BY <3>3, <3>4
  <2>2. CASE /\ Exists(n) /\ UNCHANGED names
             /\ \E doc \in Forgeries[n] :
                  files' = [files EXCEPT ![names[n]] =
                              [doc |-> doc, own |-> @.own, ver |-> @.ver + 1]]
    <3>1. names[n] \in Numbers
      BY <2>2, FileShapes, NamesAre
    <3>2. PICK doc \in Forgeries[n] :
            files' = [files EXCEPT ![names[n]] =
                        [doc |-> doc, own |-> @.own, ver |-> @.ver + 1]]
      BY <2>2
    <3>3. files' \in Seq(AnyFile)' /\ Len(files') = Len(files)
      BY <1>1, <1>3, <3>1, <3>2, OverwriteFile
    <3>4. Len(files) \in Nat /\ names \in [Names -> {None} \cup 1..Len(files)]
      BY FileShapes DEF PromotionType, Numbers
    <3>5. QED BY <2>2, <3>3, <3>4
  <2>3. CASE Exists(n) /\ Gone(n)
    <3>1. UNCHANGED files /\ names' = [names EXCEPT ![n] = None]
      BY <2>3 DEF Gone
    <3>2. AnyFile' = AnyFile /\ Len(files) \in Nat /\ files \in Seq(AnyFile)
          /\ names \in [Names -> {None} \cup 1..Len(files)]
      BY <1>1, FileShapes DEF AnyFile, PromotionType, Numbers
    <3>3. names' \in [Names -> {None} \cup 1..Len(files')]
      BY <3>1, <3>2
    <3>4. QED BY <3>1, <3>2, <3>3
  <2>4. QED BY <1>2, <2>1, <2>2, <2>3
<1>5. At("write")' = At("write") /\ Removing' = Removing
  BY <1>1 DEF At, Removing, Name
<1>6. (phase \in Cleaning =>
         At("write") /\ stat \in [ino : Numbers, ver : {0}, known : 0..Len(files)])'
  BY <1>1, <1>4, <1>5 DEF PromotionType, Numbers
<1>7. (phase = "restore" => stat \in [ino : {None}, ver : {0}, known : 0..Len(files)])'
  BY <1>1, <1>4 DEF PromotionType
<1>8. /\ names' \in [Names -> {None} \cup Numbers'] /\ files' \in Seq(AnyFile)'
      /\ owned' \in [Public -> {None} \cup Numbers']
  BY <1>1, <1>4 DEF PromotionType, Numbers
<1>9. QED
  BY <1>1, <1>5, <1>6, <1>7, <1>8 DEF PromotionType

(* The operations of the program that neither take the collected bundle nor  *)
(* complete the promotion.                                                   *)
LEMMA Operation ==
  ASSUME PromotionType, \E op \in {"write", "own", "replay", "compare", "remove", "discard"} : At(op)
  PROVE  /\ step \in DOMAIN Program /\ step \in 1..25 /\ step \notin {1, 20, 25}
         /\ Name \in Public /\ Name \in Names
BY ProgramIs, NamesAre DEF At, Name

LEMMA TypeOfEndIn ==
  ASSUME PromotionType,
         \E op \in {"write", "own", "replay", "compare", "remove", "discard"} : At(op),
         Done \/ Throw,
         UNCHANGED <<case, at, out, files, bundle>>,
         names' \in [Names -> {None} \cup Numbers],
         owned' \in [Public -> {None} \cup Numbers],
         Mishap \/ NoMishap
  PROVE  PromotionType'
BY TypeOfEnd, Operation, MishapsCount

LEMMA WriteNewType ==
  ASSUME PromotionType, WriteNew
  PROVE  PromotionType'
<1>1. At("write") /\ UNCHANGED <<case, at, out, bundle, owned>>
  BY DEF WriteNew, Held, Kept, collection
<1>2. CASE Throw /\ Stays /\ NoMishap
  BY <1>1, <1>2, TypeOfEndIn DEF Stays, PromotionType
<1>3. CASE /\ stat' = [ino |-> Len(files) + 1, ver |-> 0, known |-> Len(files)]
           /\ UNCHANGED step /\ (Mishap \/ NoMishap)
           /\ \E doc \in {Content(Name), Torn} : Put(Name, doc, TRUE)
           /\ phase' \in {"written", "partial"}
  <2>1. Name \in Names /\ TRUE \in BOOLEAN /\ Len(files) \in Nat
    BY <1>1, Operation, FileShapes
  <2>2. PICK doc \in {Content(Name), Torn} : Put(Name, doc, TRUE)
    BY <1>3
  <2>3. doc \in Documents(case) \cup {None}
    BY <1>1, ContentIsDocument
  <2>4. /\ files' \in Seq(AnyFile)' /\ Len(files') = Len(files) + 1
        /\ names' \in [Names -> {None} \cup 1..Len(files')]
    BY <1>1, <2>1, <2>2, <2>3, PutFile
  <2>5. At("write")' /\ mishaps' \in Nat
    BY <1>1, <1>3, MishapsCount DEF At
  <2>6. stat' \in [ino : 1..Len(files'), ver : {0}, known : 0..Len(files')]
    BY <1>3, <2>1, <2>4
  <2>7. owned' \in [Public -> {None} \cup 1..Len(files')]
    BY <1>1, <2>1, <2>4 DEF PromotionType, Numbers
  <2>8. phase' \in Cleaning /\ phase' \notin Aside \cup {"restore"}
    BY <1>3 DEF Cleaning, Aside
  <2>9. QED
    BY <1>1, <1>3, <2>4, <2>5, <2>6, <2>7, <2>8 DEF PromotionType, Numbers
<1>4. QED
  BY <1>2, <1>3 DEF WriteNew

LEMMA WriteType ==
  ASSUME PromotionType, WriteSeen \/ WriteCleanUp \/ WriteUnlink
  PROVE  PromotionType'
<1>1. At("write") /\ UNCHANGED <<case, at, out, bundle>> /\ UNCHANGED files
  BY DEF WriteSeen, WriteCleanUp, WriteUnlink, Held, collection, Stays, Gone
<1>2. /\ Name \in Public /\ Name \in Names
      /\ names \in [Names -> {None} \cup Numbers]
      /\ owned \in [Public -> {None} \cup Numbers]
  BY <1>1, Operation DEF PromotionType
<1>3. phase \in Cleaning =>
        stat \in [ino : Numbers, ver : {0}, known : 0..Len(files)]
  BY DEF PromotionType
<1>4. CASE WriteSeen
  <2>1. Mishap \/ NoMishap
    BY <1>4 DEF WriteSeen
  <2>2. CASE Fits /\ owned' = [owned EXCEPT ![Name] = names[Name]] /\ Done
    BY <1>1, <1>2, <1>4, <2>1, <2>2, TypeOfEndIn DEF WriteSeen, Stays, Held
  <2>3. CASE phase' = "rejected" /\ UNCHANGED <<step, stat, owned>>
    <3>1. phase' \in Cleaning /\ mishaps' \in Nat /\ phase \in Cleaning /\ UNCHANGED names
      BY <1>4, <2>1, <2>3, MishapsCount DEF WriteSeen, Cleaning, Stays
    <3>2. QED BY <1>1, <1>2, <1>3, <2>3, <3>1, TypeWithin
  <2>4. QED BY <1>4, <2>2, <2>3 DEF WriteSeen
<1>5. CASE WriteCleanUp
  <2>1. NoMishap /\ UNCHANGED <<names, owned>> /\ phase \in Cleaning
    BY <1>5 DEF WriteCleanUp, Stays, Cleaning
  <2>2. CASE Throw
    BY <1>1, <1>2, <1>5, <2>1, <2>2, TypeOfEndIn
  <2>3. CASE phase' = "unlink" /\ stat' = [stat EXCEPT !.known = Len(files)] /\ UNCHANGED step
    <3>1. phase' \in Cleaning /\ mishaps' \in Nat /\ Len(files) \in Nat
      BY <2>1, <2>3, MishapsCount, FileShapes DEF Cleaning
    <3>2. stat' \in [ino : Numbers, ver : {0}, known : 0..Len(files)]
      BY <1>3, <2>1, <2>3, <3>1
    <3>3. QED BY <1>1, <1>2, <2>1, <2>3, <3>1, <3>2, TypeWithin
  <2>4. QED BY <1>5, <2>2, <2>3 DEF WriteCleanUp
<1>6. CASE WriteUnlink
  <2>1. (Mishap \/ NoMishap) /\ UNCHANGED owned /\ Throw
    BY <1>6 DEF WriteUnlink
  <2>2. names' \in [Names -> {None} \cup Numbers]
    BY <1>2, <1>6 DEF WriteUnlink, Stays, Gone
  <2>3. QED BY <1>1, <1>2, <2>1, <2>2, TypeOfEndIn
<1>7. QED BY <1>4, <1>5, <1>6

LEMMA RunType ==
  ASSUME PromotionType, Own \/ Replay \/ Compare \/ Skip
  PROVE  PromotionType'
<1>1. /\ \E op \in {"write", "own", "replay", "compare", "remove", "discard"} : At(op)
      /\ Done \/ Throw
      /\ UNCHANGED <<case, at, out, bundle, files, names, owned>> /\ NoMishap
  BY DEF Own, Replay, Compare, Skip, Held, Kept, collection, Stays
<1>2. QED BY <1>1, TypeOfEndIn DEF PromotionType

LEMMA RemovalType ==
  ASSUME PromotionType, Quarantine \/ RemoveVerified \/ RefuseUnverified \/ Restore
  PROVE  PromotionType'
<1>1. Removing /\ UNCHANGED <<case, at, out, bundle, files>>
  BY DEF Quarantine, RemoveVerified, RefuseUnverified, Restore, Held, collection,
         Stays, Gone, Strand
<1>2. At("remove") \/ At("discard")
  BY <1>1 DEF Removing
<1>3. /\ Name \in Public /\ Name \in Names /\ "quarantine" \in Names
      /\ names \in [Names -> {None} \cup Numbers]
      /\ owned \in [Public -> {None} \cup Numbers]
  BY <1>2, Operation, NamesAre DEF PromotionType
<1>4. GiveUp => Throw
  BY DEF GiveUp
<1>5. Mishap \/ NoMishap
  BY DEF Quarantine, RemoveVerified, RefuseUnverified, Restore
<1>6. names' \in [Names -> {None} \cup Numbers]
  BY <1>3 DEF Quarantine, RemoveVerified, RefuseUnverified, Restore, Stays, Gone, Strand
<1>7. owned' \in [Public -> {None} \cup Numbers]
  BY <1>3 DEF Quarantine, RemoveVerified, RefuseUnverified, Restore
<1>8. CASE Done \/ Throw
  BY <1>1, <1>2, <1>5, <1>6, <1>7, <1>8, TypeOfEndIn
<1>9. CASE phase' = "verify" /\ UNCHANGED <<step, owned>>
  BY <1>1, <1>5, <1>6, <1>9, TypeWithin, MishapsCount
<1>10. CASE /\ phase' = "restore" /\ UNCHANGED <<step, owned>>
            /\ stat' = [ino |-> None, ver |-> 0, known |-> Len(files)]
  <2>1. stat' \in [ino : {None}, ver : {0}, known : 0..Len(files)]
    BY <1>10, FileShapes
  <2>2. QED BY <1>1, <1>5, <1>6, <1>10, <2>1, TypeWithin, MishapsCount
<1>11. QED
  BY <1>4, <1>8, <1>9, <1>10 DEF Quarantine, RemoveVerified, RefuseUnverified, Restore

LEMMA TakeType ==
  ASSUME PromotionType, Take
  PROVE  PromotionType'
<1>1. /\ step = 1 /\ at = "exited" /\ at' = "taken"
      /\ UNCHANGED <<case, names, files, mishaps, owned>> /\ phase' = "start"
  BY ProgramIs DEF Take, At, directory, Throw, Done, Go
<1>2. /\ step' = 21 \/ (step' = 2 /\ bundle' = BundleOf("own", out.report.status))
      /\ step' \in 1..26
  BY <1>1, DiscardIs DEF Take, Throw, Done, Go
<1>3. step' = 2 => bundle' \in OwnBundles
  BY <1>1, <1>2 DEF PromotionType, OwnBundles
<1>4. /\ (step \in 2..(Discard - 1) => bundle \in OwnBundles)'
      /\ (step \in 1..(Len(Program) + 1))'
  BY <1>2, <1>3, ProgramIs, DiscardIs
<1>5. UNCHANGED AnyFile /\ UNCHANGED Numbers
  BY <1>1 DEF AnyFile, Numbers
<1>6. QED
  BY <1>1, <1>4, <1>5 DEF PromotionType, Cleaning, Aside

LEMMA CompleteType ==
  ASSUME PromotionType, Complete
  PROVE  PromotionType'
<1>1. /\ step = 20 /\ step' = 26 /\ phase' = "start"
      /\ UNCHANGED <<case, at, out, bundle, names, files, owned, mishaps>>
  BY ProgramIs DEF Complete, At, Go, Held, Kept, collection, Stays, NoMishap
<1>2. /\ (step \in 2..(Discard - 1) => bundle \in OwnBundles)'
      /\ (step \in 1..(Len(Program) + 1))'
  BY <1>1, ProgramIs, DiscardIs
<1>3. UNCHANGED AnyFile /\ UNCHANGED Numbers
  BY <1>1 DEF AnyFile, Numbers
<1>4. QED
  BY <1>1, <1>2, <1>3 DEF PromotionType, Cleaning, Aside

(* Everything but the collector and the count of mishaps stays.              *)
LEMMA TypeAside ==
  ASSUME PromotionType, UNCHANGED <<case, names, files, promotion>>,
         at' = "exited" => out'.report.status \in Verdicts, mishaps' \in Nat
  PROVE  PromotionType'
<1>1. /\ UNCHANGED <<case, names, files, step, phase, bundle, owned, stat>>
      /\ UNCHANGED AnyFile /\ UNCHANGED Numbers
      /\ UNCHANGED At("write") /\ UNCHANGED Removing
  BY DEF promotion, AnyFile, Numbers, At, Removing, Name
<1>2. QED
  BY <1>1 DEF PromotionType

LEMMA PromotionTypeNext ==
  ASSUME PromotionType, [Next]_vars
  PROVE  PromotionType'
<1>1. CASE (Edit \/ Collect) /\ Others
  <2>1. /\ UNCHANGED <<names, files, mishaps, promotion>>
        /\ at' = "exited" => out'.report.status \in Verdicts
    BY <1>1, ExitsWithVerdict DEF Others, directory
  <2>2. UNCHANGED case
    BY <1>1 DEF Edit, Collect, Collecting, ReadRepository, ReadBranch, ReadProtection,
      ReadTags, ListRulesets, ReadRuleset, Read, SettingsRead, ReadTree, EndRepository,
      EndBranch, EvidenceRepository, EvidenceBranch, Fail
  <2>3. mishaps' \in Nat
    BY <2>1 DEF PromotionType
  <2>4. QED BY <2>1, <2>2, <2>3, TypeAside
<1>2. CASE Review
  <2>1. /\ UNCHANGED <<case, collection, names, files, promotion>>
        /\ Mishap \/ UNCHANGED mishaps
    BY <1>2 DEF Review, ListFiles, ReadManifest, ReadBundle, ReadReplay, ReadFile,
                CompareDigests, Judge, ReviewFails, saved, directory
  <2>2. (at' = "exited" => out'.report.status \in Verdicts) /\ mishaps' \in Nat
    BY <2>1 DEF PromotionType, collection, Mishap
  <2>3. QED BY <2>1, <2>2, TypeAside
<1>3. CASE UNCHANGED vars
  BY <1>3, TypeAside DEF vars, PromotionType, collection, directory
<1>4. QED
  BY <1>1, <1>2, <1>3, MeddleType, TakeType, WriteNewType, WriteType, RunType,
     CompleteType, RemovalType DEF Next, Promote

(* The three files of a saved directory. *)
LEMMA SavedFiles ==
  ASSUME Init, case.mode = "review"
  PROVE  /\ files \in Seq(AnyFile) /\ Len(files) = 3
         /\ \A i \in 1..3 : files[i].own = FALSE /\ files[i].doc = case.saved[Saved[i]]
         /\ names \in [Names -> {None} \cup 1..3]
         /\ \A i \in 1..3, n \in Names : names[n] = i => Saved[i] = n
         /\ \A n \in Names : names[n] # None => case.saved[n] # None
<1>1. /\ DOMAIN Saved = 1..3
      /\ Saved[1] = "bundle" /\ Saved[2] = "replay" /\ Saved[3] = "manifest"
  BY DEF Saved
<1>2. files = [i \in 1..3 |-> File(case.saved[Saved[i]], FALSE)]
  BY <1>1 DEF Init, PromotionInit
<1>3. /\ \A i \in 1..3 : files[i] = File(case.saved[Saved[i]], FALSE)
      /\ \A i \in 1..3 : files[i].own = FALSE /\ files[i].doc = case.saved[Saved[i]]
  BY <1>2 DEF File
<1>4. \A i \in 1..3 : files[i] \in AnyFile
  <2>1. \A i \in 1..3 : case.saved[Saved[i]] \in Documents(case) \cup {None}
    <3>1. \A m \in {"bundle", "replay", "manifest"} :
            case.saved[m] # None => case.saved[m] \in Documents(case)
      <4>1. ASSUME NEW d \in SavedDocuments(case) PROVE d \in Documents(case)
        BY <4>1 DEF Documents
      <4>2. QED BY <4>1 DEF SavedDocuments
    <3>2. QED BY <1>1, <3>1
  <2>2. ASSUME NEW i \in 1..3 PROVE files[i] \in AnyFile
    <3>1. files[i] = [doc |-> case.saved[Saved[i]], own |-> FALSE, ver |-> 0]
      BY <1>3 DEF File
    <3>2. case.saved[Saved[i]] \in Documents(case) \cup {None}
      BY <2>1
    <3>3. QED BY <3>1, <3>2 DEF AnyFile
  <2>3. QED BY <2>2
<1>5. files \in [1..3 -> AnyFile]
  BY <1>2, <1>4
<1>6. files \in Seq(AnyFile) /\ Len(files) = 3
  <2>1. 3 \in Nat /\ [1..3 -> AnyFile] \in {[1..n -> AnyFile] : n \in Nat}
    OBVIOUS
  <2>2. files \in Seq(AnyFile)
    BY <1>5, <2>1, SeqDef, Zenon
  <2>3. DOMAIN files = 1..3 /\ DOMAIN files = 1..Len(files) /\ Len(files) \in Nat
    BY <1>5, <2>2, LenProperties
  <2>4. QED BY <2>2, <2>3
<1>7. \A n \in Names :
        names[n] = IF (\E i \in 1..3 : Saved[i] = n /\ case.saved[n] # None)
                   THEN CHOOSE i \in 1..3 : Saved[i] = n
                   ELSE None
  BY <1>1 DEF Init, PromotionInit
<1>8. \A n \in Names :
        names[n] # None => names[n] \in 1..3 /\ Saved[names[n]] = n /\ case.saved[n] # None
  <2> SUFFICES ASSUME NEW n \in Names, names[n] # None
               PROVE  names[n] \in 1..3 /\ Saved[names[n]] = n /\ case.saved[n] # None
    OBVIOUS
  <2>1. case.saved[n] # None /\ \E i \in 1..3 : Saved[i] = n
    BY <1>7
  <2>2. names[n] = CHOOSE i \in 1..3 : Saved[i] = n
    BY <1>7, <2>1
  <2>3. QED BY <2>1, <2>2
<1>9. names = [n \in Names |-> names[n]]
  BY DEF Init, PromotionInit
<1>10. names \in [Names -> {None} \cup 1..3]
  BY <1>8, <1>9
<1>11. QED
  BY <1>3, <1>6, <1>8, <1>10, NamesAre

LEMMA PromotionTypeInit == Init => PromotionType
<1> SUFFICES ASSUME Init PROVE PromotionType
  OBVIOUS
<1>1. /\ case \in Cases /\ at # "exited" /\ mishaps = 0 /\ phase = "start"
      /\ step \in {1, 25} /\ owned = [n \in Public |-> None]
  BY ProgramIs DEF Init, CollectionInit, PromotionInit
<1>2. files \in Seq(AnyFile) /\ names \in [Names -> {None} \cup Numbers]
  <2>1. CASE case.mode = "review"
    BY <2>1, SavedFiles DEF Numbers
  <2>2. CASE case.mode # "review"
    <3>1. files = <<>> /\ names = [n \in Names |-> None]
      BY <2>2 DEF Init, PromotionInit
    <3>2. QED BY <3>1, EmptySeq
  <2>3. QED BY <2>1, <2>2
<1>3. owned \in [Public -> {None} \cup Numbers]
  BY <1>1
<1>4. /\ step \in 1..(Len(Program) + 1) /\ step \notin 2..(Discard - 1)
      /\ phase \notin Cleaning /\ phase \notin Aside /\ phase # "restore"
  BY <1>1, ProgramIs, DiscardIs DEF Cleaning, Aside
<1>5. QED
  BY <1>1, <1>2, <1>3, <1>4, Zenon DEF PromotionType

-----------------------------------------------------------------------------
(* Where files are *)

(* Between two operations the phase is "start". *)
LEMMA StartsOver ==
  ASSUME PromotionType
  PROVE  /\ Done \/ Throw => phase' = "start" /\ phase' \notin Cleaning \cup Aside
         /\ \A op \in {"collect", "own", "replay", "compare", "complete", "failed"} :
              At(op) => phase = "start"
         /\ At("write") => phase \notin Aside
         /\ At("discard") /\ owned[Name] = None => phase = "start"
         /\ At("remove") \/ At("discard") => phase \notin Cleaning
         /\ phase = "start" => phase \notin Cleaning \cup Aside
         /\ "restore" \in Aside /\ "verify" \in Aside
<1>1. \A op \in {"collect", "own", "replay", "compare", "complete", "failed"} :
        At(op) => ~At("write") /\ ~Removing
  BY ProgramIs DEF At, Removing
<1>2. /\ At("write") => ~Removing
      /\ At("discard") => ~At("remove") /\ ~At("write")
      /\ At("remove") => ~At("write")
  BY ProgramIs DEF At, Removing
<1>3. QED
  BY <1>1, <1>2 DEF Removing, PromotionType, Cleaning, Aside, Done, Throw, Go

LEMMA HomeKept ==
  ASSUME PromotionType, AtHome, NEW n \in Public, UNCHANGED owned,
         \A m \in Names \ {n} : names'[m] = names[m],
         names'[n] \in {names[n], None, Len(files) + 1},
         UNCHANGED <<step, phase>> \/ (phase \notin Aside /\ phase' \notin Aside)
  PROVE  AtHome'
<1>1. /\ Len(files) \in Nat /\ n \in Names /\ n # "quarantine" /\ None \notin Nat
      /\ \A m \in Names : names[m] \in {None} \cup 1..Len(files)
      /\ \A m \in Public : owned[m] \in {None} \cup 1..Len(files)
  BY FileShapes, NamesAre DEF Numbers
<1>2. (\A l, m \in Names : names[l] = names[m] /\ names[l] # None => l = m)'
  BY <1>1 DEF AtHome
<1>3. names'["quarantine"] = names["quarantine"]
  BY <1>1, NamesAre
<1>4. (names["quarantine"] # None <=> phase \in Aside)'
  BY <1>3 DEF AtHome
<1>5. (\A l \in Names, m \in Public :
         owned[m] # None /\ names[l] = owned[m] =>
           l = m \/ (l = "quarantine" /\ Name = m))'
  <2> SUFFICES ASSUME NEW l \in Names, NEW m \in Public, owned[m] # None, l # m,
                      names'[l] = owned[m]
               PROVE  l = "quarantine" /\ Name' = m
    OBVIOUS
  <2>1. names[l] = owned[m]
    BY <1>1
  <2>2. l = "quarantine" /\ Name = m /\ names["quarantine"] # None
    BY <2>1 DEF AtHome
  <2>3. UNCHANGED step
    BY <2>2 DEF AtHome
  <2>4. QED BY <2>2, <2>3 DEF Name
<1>6. (phase \in Aside => names[Name] = None \/ names[Name] # owned[Name])'
  <2> SUFFICES ASSUME phase \in Aside, UNCHANGED <<step, phase>>
               PROVE  names'[Name] = None \/ names'[Name] # owned[Name]
    BY DEF Name
  <2>1. Name \in Public
    BY Operation DEF PromotionType, Removing
  <2>2. names[Name] = None \/ names[Name] # owned[Name]
    BY DEF AtHome
  <2>3. Name \in Names
    BY <2>1, NamesAre
  <2>4. QED BY <1>1, <2>1, <2>2, <2>3
<1>7. QED
  BY <1>2, <1>4, <1>5, <1>6 DEF AtHome

(* A step outside the removals that moves no file. *)
LEMMA HomeStands ==
  ASSUME PromotionType, AtHome, UNCHANGED <<names, owned>>,
         UNCHANGED <<step, phase>> \/ (phase \notin Aside /\ phase' \notin Aside)
  PROVE  AtHome'
BY HomeKept, NamesAre

LEMMA WriteHome ==
  ASSUME PromotionType, AtHome, WriteNew \/ WriteSeen \/ WriteCleanUp \/ WriteUnlink
  PROVE  AtHome'
<1>1. /\ At("write") /\ Name \in Public /\ Name \in Names /\ phase \notin Aside
  BY StartsOver, Operation DEF WriteNew, WriteSeen, WriteCleanUp, WriteUnlink
<1>2. phase' \notin Aside
  <2>1. phase' = "start" \/ phase' \in Cleaning
    BY StartsOver DEF WriteNew, WriteSeen, WriteCleanUp, WriteUnlink, Cleaning
  <2>2. QED BY <2>1 DEF Cleaning, Aside
<1>3. names \in [Names -> {None} \cup Numbers] /\ owned \in [Public -> {None} \cup Numbers]
  BY DEF PromotionType
<1>4. CASE WriteNew
  <2>1. UNCHANGED owned
    BY <1>4 DEF WriteNew, Kept
  <2>2. UNCHANGED names \/ names' = [names EXCEPT ![Name] = Len(files) + 1]
    BY <1>4 DEF WriteNew, Stays, Put
  <2>3. QED BY <1>1, <1>2, <1>3, <2>1, <2>2, HomeKept
<1>5. CASE WriteUnlink
  <2>1. UNCHANGED owned
    BY <1>5 DEF WriteUnlink
  <2>2. UNCHANGED names \/ names' = [names EXCEPT ![Name] = None]
    BY <1>5 DEF WriteUnlink, Stays, Gone
  <2>3. QED BY <1>1, <1>2, <1>3, <2>1, <2>2, HomeKept
<1>6. CASE WriteCleanUp
  BY <1>1, <1>2, <1>6, HomeStands DEF WriteCleanUp, Stays
<1>7. CASE WriteSeen
  <2>1. CASE UNCHANGED owned
    BY <1>1, <1>2, <1>7, <2>1, HomeStands DEF WriteSeen, Stays
  <2>2. CASE owned' = [owned EXCEPT ![Name] = names[Name]]
    <3>1. UNCHANGED names
      BY <1>7 DEF WriteSeen, Stays
    <3>2. (\A l \in Names, m \in Public :
             owned[m] # None /\ names[l] = owned[m] =>
               l = m \/ (l = "quarantine" /\ Name = m))'
      <4> SUFFICES ASSUME NEW l \in Names, NEW m \in Public, owned'[m] # None,
                          names'[l] = owned'[m]
                   PROVE  l = m
        OBVIOUS
      <4>1. CASE m = Name
        BY <1>1, <1>3, <2>2, <3>1, <4>1 DEF AtHome
      <4>2. CASE m # Name
        BY <1>1, <1>3, <2>2, <3>1, <4>2 DEF AtHome
      <4>3. QED BY <4>1, <4>2
    <3>3. QED BY <1>1, <1>2, <3>1, <3>2 DEF AtHome
  <2>3. QED BY <1>7, <2>1, <2>2 DEF WriteSeen
<1>8. QED BY <1>4, <1>5, <1>6, <1>7

(* A file moves out of its name, is removed, left where it is, or put back.  *)
LEMMA RemovalHome ==
  ASSUME PromotionType, AtHome, Quarantine \/ RemoveVerified \/ RefuseUnverified \/ Restore
  PROVE  AtHome'
<1>1. Removing /\ (At("remove") \/ At("discard"))
  BY DEF Removing, Quarantine, RemoveVerified, RefuseUnverified, Restore
<1>2. /\ Name \in Public /\ Name \in Names /\ Name # "quarantine"
      /\ names \in [Names -> {None} \cup Numbers]
      /\ owned \in [Public -> {None} \cup Numbers]
      /\ "quarantine" \in Names
  BY <1>1, Operation, NamesAre DEF PromotionType
<1>3. GiveUp => phase' = "start"
  BY StartsOver DEF GiveUp
<1>4. "start" \notin Aside /\ "verify" \in Aside /\ "restore" \in Aside
  BY DEF Aside
<1>5. CASE Quarantine
  <2>1. UNCHANGED owned /\ phase = "start"
    BY <1>5 DEF Quarantine
  <2>2. CASE GiveUp /\ Stays
    BY <1>3, <1>4, <2>1, <2>2, HomeStands DEF Stays
  <2>3. CASE /\ Exists(Name) /\ phase' = "verify" /\ UNCHANGED step
             /\ names' = [names EXCEPT !["quarantine"] = names[Name], ![Name] = None]
    <3>1. /\ names'["quarantine"] = names[Name] /\ names'[Name] = None
          /\ \A m \in Names \ {Name, "quarantine"} : names'[m] = names[m]
          /\ names[Name] # None /\ UNCHANGED Name
      BY <1>2, <2>3 DEF Exists, Name
    <3>2. (\A l, m \in Names : names[l] = names[m] /\ names[l] # None => l = m)'
      BY <1>2, <3>1 DEF AtHome
    <3>3. (names["quarantine"] # None <=> phase \in Aside)'
      BY <1>4, <2>3, <3>1
    <3>4. (\A l \in Names, m \in Public :
             owned[m] # None /\ names[l] = owned[m] =>
               l = m \/ (l = "quarantine" /\ Name = m))'
      <4> SUFFICES ASSUME NEW l \in Names, NEW m \in Public, owned[m] # None, l # m,
                          names'[l] = owned[m]
                   PROVE  l = "quarantine" /\ Name = m
        BY <2>1, <3>1
      <4>1. names["quarantine"] = None
        BY <1>4, <2>1 DEF AtHome
      <4>2. CASE l = "quarantine"
        BY <1>2, <3>1, <4>1, <4>2 DEF AtHome
      <4>3. CASE l = Name
        BY <3>1, <4>3
      <4>4. CASE l \notin {Name, "quarantine"}
        BY <3>1, <4>4 DEF AtHome
      <4>5. QED BY <4>2, <4>3, <4>4
    <3>5. QED
      BY <2>1, <3>1, <3>2, <3>3, <3>4 DEF AtHome
  <2>4. QED BY <1>5, <2>2, <2>3 DEF Quarantine
<1>6. CASE /\ names' = [names EXCEPT !["quarantine"] = None] /\ phase' = "start"
           /\ owned' \in {owned, [owned EXCEPT ![Name] = None]}
  <2>1. /\ names'["quarantine"] = None
        /\ \A m \in Names \ {"quarantine"} : names'[m] = names[m]
        /\ \A m \in Public : owned'[m] \in {None, owned[m]}
    BY <1>2, <1>6
  <2>2. QED
    BY <1>2, <1>4, <1>6, <2>1 DEF AtHome
<1>7. CASE RemoveVerified
  BY <1>3, <1>6, <1>7, StartsOver DEF RemoveVerified, Gone, Strand
<1>8. CASE RefuseUnverified
  <2>1. UNCHANGED owned /\ phase \in Aside
    BY <1>4, <1>8 DEF RefuseUnverified
  <2>2. CASE GiveUp /\ Strand
    BY <1>3, <1>6, <2>1, <2>2 DEF Strand, Gone
  <2>3. CASE phase' = "restore" /\ Stays /\ UNCHANGED step
    BY <1>4, <2>1, <2>3 DEF Stays, AtHome, Name
  <2>4. QED BY <1>8, <2>2, <2>3 DEF RefuseUnverified
<1>9. CASE Restore /\ Strand
  <2>1. UNCHANGED owned /\ phase' = "start" /\ Gone("quarantine")
    BY <1>3, <1>9 DEF Restore, Strand
  <2>2. QED BY <1>6, <2>1 DEF Gone
<1>10. CASE Restore /\ ~Strand
  <2>1. /\ names'["quarantine"] = None /\ names'[Name] = names["quarantine"]
        /\ \A m \in Names \ {Name, "quarantine"} : names'[m] = names[m]
        /\ UNCHANGED owned /\ phase' = "start"
    BY <1>2, <1>3, <1>10 DEF Restore
  <2>2. (\A l, m \in Names : names[l] = names[m] /\ names[l] # None => l = m)'
    BY <1>2, <2>1 DEF AtHome
  <2>3. (names["quarantine"] # None <=> phase \in Aside)'
    BY <1>4, <2>1
  <2>4. (\A l \in Names, m \in Public :
           owned[m] # None /\ names[l] = owned[m] =>
             l = m \/ (l = "quarantine" /\ Name = m))'
    <3> SUFFICES ASSUME NEW l \in Names, NEW m \in Public, owned[m] # None,
                        names'[l] = owned[m]
                 PROVE  l = m
      BY <2>1
    <3>1. CASE l = Name
      BY <1>2, <2>1, <3>1, NamesAre DEF AtHome
    <3>2. CASE l # Name
      BY <2>1, <3>2 DEF AtHome
    <3>3. QED BY <3>1, <3>2
  <2>5. QED
    BY <1>4, <2>1, <2>2, <2>3, <2>4 DEF AtHome
<1>11. QED BY <1>5, <1>7, <1>8, <1>9, <1>10

(* Somebody else takes one public name, from nobody or from another file, or *)
(* overwrites a file; the file that is new is not the run's.                 *)
LEMMA MeddleEffect ==
  ASSUME PromotionType, Meddle
  PROVE  /\ UNCHANGED <<case, collection, promotion, lost>>
         /\ mishaps' = mishaps + 1
         /\ \A i \in Numbers : files'[i].own = files[i].own
         /\ \E n \in Public :
              /\ \A m \in Names \ {n} : names'[m] = names[m]
              /\ names'[n] \in {names[n], None, Len(files) + 1}
              /\ names'[n] = Len(files) + 1 =>
                   ~files'[names'[n]].own /\ files'[names'[n]].doc # None
         /\ \A i \in Numbers : files[i].doc # None => files'[i].doc # None
<1>1. UNCHANGED <<case, collection, promotion, lost>> /\ mishaps' = mishaps + 1
  BY DEF Meddle, Mishap
<1>2. PICK n \in Public :
        \/ \E doc \in Forgeries[n] : Put(n, doc, FALSE)
        \/ /\ Exists(n)
           /\ \E doc \in Forgeries[n] :
                files' = [files EXCEPT ![names[n]] =
                            [doc |-> doc, own |-> @.own, ver |-> @.ver + 1]]
           /\ UNCHANGED names
        \/ Exists(n) /\ Gone(n)
  BY DEF Meddle
<1>3. /\ \A doc \in Forgeries[n] : doc \in Documents(case) /\ doc # None
      /\ n \in Names /\ Len(files) \in Nat
      /\ Len(files) + 1 \notin Numbers /\ None \notin Numbers
  <2>1. case \in Cases
    BY DEF PromotionType
  <2>2. \A doc \in Forgeries[n] : doc \in Documents(case)
    BY DEF Documents
  <2>3. QED BY <2>1, <2>2, PromotionAssumption, NamesAre, FileShapes DEF Numbers
<1>4. CASE \E doc \in Forgeries[n] : Put(n, doc, FALSE)
  <2>1. PICK doc \in Forgeries[n] : Put(n, doc, FALSE)
    BY <1>4
  <2>2. /\ \A i \in Numbers : files'[i] = files[i]
        /\ files'[names'[n]] = File(doc, FALSE) /\ names'[n] = Len(files) + 1
        /\ \A m \in Names \ {n} : names'[m] = names[m]
    BY <1>1, <1>3, <2>1, PutFile
  <2>3. ~files'[names'[n]].own /\ files'[names'[n]].doc # None
    BY <1>3, <2>2 DEF File
  <2>4. QED BY <1>1, <1>3, <2>2, <2>3
<1>5. CASE /\ Exists(n) /\ UNCHANGED names
           /\ \E doc \in Forgeries[n] :
                files' = [files EXCEPT ![names[n]] =
                            [doc |-> doc, own |-> @.own, ver |-> @.ver + 1]]
  <2>1. names[n] \in Numbers
    BY <1>3, <1>5, FileShapes
  <2>2. PICK doc \in Forgeries[n] :
          files' = [files EXCEPT ![names[n]] =
                      [doc |-> doc, own |-> @.own, ver |-> @.ver + 1]]
    BY <1>5
  <2>3. /\ \A j \in Numbers : files'[j].own = files[j].own
        /\ \A j \in Numbers : files'[j].doc = IF j = names[n] THEN doc ELSE files[j].doc
    BY <1>1, <1>3, <2>1, <2>2, OverwriteFile
  <2>4. names'[n] # Len(files) + 1
    BY <1>3, <1>5, <2>1
  <2>5. QED BY <1>1, <1>3, <1>5, <2>3, <2>4
<1>6. CASE Exists(n) /\ Gone(n)
  <2>1. names' = [names EXCEPT ![n] = None] /\ UNCHANGED files
    BY <1>6 DEF Gone
  <2>2. names \in [Names -> {None} \cup Numbers]
    BY DEF PromotionType
  <2>3. names'[n] = None /\ None # Len(files) + 1
        /\ \A m \in Names \ {n} : names'[m] = names[m]
    BY <1>3, <2>1, <2>2, NamesAre
  <2>4. QED BY <1>1, <2>1, <2>3
<1>7. QED BY <1>2, <1>4, <1>5, <1>6

LEMMA HomeNext ==
  ASSUME PromotionType, AtHome, [Next]_vars
  PROVE  AtHome'
<1>1. CASE Meddle
  <2>1. UNCHANGED <<step, phase, owned>>
    BY <1>1 DEF Meddle, promotion
  <2>2. QED BY <1>1, <2>1, MeddleEffect, HomeKept
<1>2. CASE Own \/ Replay \/ Compare \/ Skip \/ Complete \/ Take
  <2>1. UNCHANGED <<names, owned>> /\ phase = "start" /\ phase' = "start"
    BY <1>2, StartsOver DEF Own, Replay, Compare, Skip, Complete, Take, Held, Kept, Stays,
      directory, Go
  <2>2. QED BY <2>1, HomeStands DEF Aside
<1>3. CASE ((Edit \/ Collect) /\ Others) \/ Review \/ UNCHANGED vars
  <2>1. UNCHANGED <<names, owned, step, phase>>
    BY <1>3 DEF Others, Review, ListFiles, ReadManifest, ReadBundle, ReadReplay, ReadFile,
                CompareDigests, Judge, ReviewFails, saved, directory, promotion, vars
  <2>2. QED BY <2>1, HomeStands
<1>4. QED
  BY <1>1, <1>2, <1>3, WriteHome, RemovalHome DEF Next, Promote

LEMMA HomeInit == Init => AtHome
<1> SUFFICES ASSUME Init PROVE AtHome
  OBVIOUS
<1>1. phase = "start" /\ owned = [n \in Public |-> None]
  BY DEF Init, PromotionInit
<1>2. /\ \A m, n \in Names : names[m] = names[n] /\ names[m] # None => m = n
      /\ names["quarantine"] = None
  <2>1. CASE case.mode = "review"
    <3>1. /\ names \in [Names -> {None} \cup 1..3]
          /\ \A i \in 1..3, n \in Names : names[n] = i => Saved[i] = n
      BY <2>1, SavedFiles
    <3>2. Saved[1] = "bundle" /\ Saved[2] = "replay" /\ Saved[3] = "manifest"
      BY DEF Saved
    <3>3. QED BY <3>1, <3>2, NamesAre
  <2>2. CASE case.mode # "review"
    <3>1. names = [n \in Names |-> None]
      BY <2>2 DEF Init, PromotionInit
    <3>2. QED BY <3>1, NamesAre
  <2>3. QED BY <2>1, <2>2
<1>3. QED
  BY <1>1, <1>2 DEF AtHome, Aside

-----------------------------------------------------------------------------
(* What is removed *)

LEMMA LossStart ==
  ASSUME phase' = "start"
  PROVE  ComesLater'
BY DEF ComesLater, Cleaning

LEMMA ComesLaterMeddle ==
  ASSUME PromotionType, ComesLater, Meddle
  PROVE  ComesLater'
<1>1. UNCHANGED <<step, phase, stat>> /\ \A i \in Numbers : files'[i].own = files[i].own
  BY MeddleEffect DEF promotion
<1>2. \A m \in Names : names'[m] \in {names[m], None, Len(files) + 1}
  BY MeddleEffect
<1>3. phase \in Cleaning \cup {"restore"} => Name \in Names /\ stat.known \in 0..Len(files)
  <2>1. phase \in Cleaning => stat.known \in 0..Len(files) /\ At("write")
    BY DEF PromotionType
  <2>2. phase = "restore" => stat.known \in 0..Len(files) /\ Removing
    BY DEF PromotionType, Aside
  <2>3. QED BY <2>1, <2>2, Operation DEF Removing
<1>4. Len(files) + 1 > stat.known \/ phase \notin Cleaning \cup {"restore"}
  BY <1>3, FileShapes
<1>5. phase \in Cleaning => stat.ino \in Numbers
  BY DEF PromotionType
<1>6. (phase \in Cleaning => files[stat.ino].own)'
  BY <1>1, <1>5 DEF ComesLater
<1>7. (phase = "unlink" =>
         names[Name] \in {None, stat.ino} \/ names[Name] > stat.known)'
  BY <1>1, <1>2, <1>3, <1>4 DEF ComesLater, Name, Cleaning
<1>8. (phase = "restore" => names[Name] = None \/ names[Name] > stat.known)'
  BY <1>1, <1>2, <1>3, <1>4 DEF ComesLater, Name
<1>9. QED BY <1>6, <1>7, <1>8 DEF ComesLater

LEMMA ComesLaterNext ==
  ASSUME PromotionType, ComesLater, [Next]_vars
  PROVE  ComesLater'
<1>1. CASE UNCHANGED <<names, files, step, phase, stat>>
  BY <1>1 DEF ComesLater, Name
<1>2. ((Edit \/ Collect) /\ Others) \/ Review \/ UNCHANGED vars =>
        UNCHANGED <<names, files, step, phase, stat>>
  BY DEF Others, Review, ListFiles, ReadManifest, ReadBundle, ReadReplay, ReadFile,
         CompareDigests, Judge, ReviewFails, saved, directory, promotion, vars
<1>3. CASE Take \/ Own \/ Replay \/ Compare \/ Skip \/ Complete \/ WriteUnlink
           \/ RemoveVerified \/ Restore
  BY <1>3, LossStart DEF Take, Own, Replay, Compare, Skip, Complete, WriteUnlink,
     RemoveVerified, Restore, Done, Throw, GiveUp, Go
<1>4. CASE WriteNew
  <2>1. CASE Throw
    BY <2>1, LossStart DEF Throw, Go
  <2>2. CASE /\ stat' = [ino |-> Len(files) + 1, ver |-> 0, known |-> Len(files)]
             /\ \E doc \in {Content(Name), Torn} : Put(Name, doc, TRUE)
             /\ phase' \in {"written", "partial"}
    <3>1. At("write") /\ UNCHANGED case
      BY <1>4 DEF WriteNew, Held
    <3>2. PICK doc \in {Content(Name), Torn} : Put(Name, doc, TRUE)
      BY <2>2
    <3>3. doc \in Documents(case) \cup {None} /\ Name \in Names /\ TRUE \in BOOLEAN
      BY <3>1, ContentIsDocument, Operation
    <3>4. files'[Len(files) + 1] = File(doc, TRUE)
      BY <3>1, <3>2, <3>3, PutFile
    <3>5. files'[stat'.ino].own
      BY <2>2, <3>4 DEF File
    <3>6. QED BY <2>2, <3>5 DEF ComesLater
  <2>3. QED BY <1>4, <2>1, <2>2 DEF WriteNew
<1>5. CASE WriteSeen
  <2>1. CASE Done
    BY <2>1, LossStart DEF Done, Go
  <2>2. CASE phase' = "rejected" /\ UNCHANGED <<step, stat>>
    BY <1>5, <2>2 DEF WriteSeen, Stays, ComesLater, Cleaning
  <2>3. QED BY <1>5, <2>1, <2>2 DEF WriteSeen
<1>6. CASE WriteCleanUp
  <2>1. CASE Throw
    BY <2>1, LossStart DEF Throw, Go
  <2>2. CASE /\ names[Name] = stat.ino /\ phase' = "unlink" /\ UNCHANGED step
             /\ stat' = [stat EXCEPT !.known = Len(files)]
    <3>1. phase \in Cleaning /\ UNCHANGED <<names, files>>
      BY <1>6 DEF WriteCleanUp, Stays, Cleaning
    <3>2. stat \in [ino : Numbers, ver : {0}, known : 0..Len(files)]
      BY <3>1 DEF PromotionType
    <3>3. stat'.ino = stat.ino
      BY <2>2, <3>2
    <3>4. QED BY <2>2, <3>1, <3>3 DEF ComesLater, Name
  <2>3. QED BY <1>6, <2>1, <2>2 DEF WriteCleanUp
<1>7. CASE Quarantine
  <2>1. CASE GiveUp
    BY <2>1, LossStart DEF GiveUp, Throw, Go
  <2>2. CASE phase' = "verify"
    BY <2>2 DEF ComesLater, Cleaning
  <2>3. QED BY <1>7, <2>1, <2>2 DEF Quarantine
<1>8. CASE RefuseUnverified
  <2>1. CASE GiveUp
    BY <2>1, LossStart DEF GiveUp, Throw, Go
  <2>2. CASE ~Exists(Name) /\ phase' = "restore" /\ Stays /\ UNCHANGED step
    BY <2>2 DEF ComesLater, Cleaning, Stays, Exists, Name
  <2>3. QED BY <1>8, <2>1, <2>2 DEF RefuseUnverified
<1>9. QED
  BY <1>1, <1>2, <1>3, <1>4, <1>5, <1>6, <1>7, <1>8, ComesLaterMeddle DEF Next, Promote

LEMMA LosesNothing ==
  ASSUME PromotionType, ComesLater, LosesNothingSeen, [Next]_vars
  PROVE  LosesNothingSeen'
<1>1. CASE WriteUnlink
  <2>1. /\ phase = "unlink" /\ At("write") /\ Loses(names[Name], stat.known)
        /\ stat.known \in Nat /\ files[stat.ino].own
        /\ names[Name] \in {None, stat.ino} \/ names[Name] > stat.known
        /\ names[Name] \in {None} \cup Numbers
    BY <1>1, Operation, FileShapes DEF WriteUnlink, PromotionType, ComesLater, Cleaning
  <2>2. \A i \in {names[Name]} \ {None} :
          ~(i <= stat.known /\ ~files[i].own /\ files[i].doc # Content(Name))
    BY <2>1 DEF Numbers
  <2>3. QED BY <2>1, <2>2 DEF Loses, LosesNothingSeen
<1>2. CASE RemoveVerified
  <2>1. Loses(names["quarantine"], Len(files))
        /\ files[names["quarantine"]].doc = Content(Name)
    BY <1>2 DEF RemoveVerified, Verified, Owns, Doc
  <2>2. \A i \in {names["quarantine"]} \ {None} :
          ~(i <= Len(files) /\ ~files[i].own /\ files[i].doc # Content(Name))
    BY <2>1
  <2>3. QED BY <2>1, <2>2 DEF Loses, LosesNothingSeen
<1>3. CASE Restore /\ ~UNCHANGED lost
  <2>1. /\ phase = "restore" /\ Removing /\ Loses(names[Name], stat.known)
        /\ stat.known \in Nat
        /\ names[Name] = None \/ names[Name] > stat.known
    BY <1>3 DEF Restore, PromotionType, ComesLater
  <2>2. names[Name] \in {None} \cup Numbers
    BY <2>1, Operation, FileShapes DEF Removing
  <2>3. \A i \in {names[Name]} \ {None} :
          ~(i <= stat.known /\ ~files[i].own /\ files[i].doc # Content(Name))
    BY <2>1, <2>2 DEF Numbers
  <2>4. QED BY <2>1, <2>3 DEF Loses, LosesNothingSeen
<1>4. CASE UNCHANGED lost
  BY <1>4 DEF LosesNothingSeen
<1>5. UNCHANGED lost \/ WriteUnlink \/ RemoveVerified \/ Restore
  BY DEF Next, Promote, Others, Review, ListFiles, ReadManifest, ReadBundle, ReadReplay,
    ReadFile, CompareDigests, Judge, ReviewFails, saved, vars, Meddle, Take, WriteNew,
    WriteSeen, WriteCleanUp, Own, Replay, Compare, Complete, Skip, Quarantine,
    RefuseUnverified, Kept
<1>6. QED BY <1>1, <1>2, <1>3, <1>4, <1>5

LEMMA LossAlways == Spec => []LossInv
<1>1. Init => LossInv
  BY PromotionTypeInit, HomeInit
     DEF LossInv, Init, PromotionInit, ComesLater, Cleaning, LosesNothingSeen
<1>2. LossInv /\ [Next]_vars => LossInv'
  BY PromotionTypeNext, HomeNext, ComesLaterNext, LosesNothing DEF LossInv
<1>3. QED BY <1>1, <1>2, PTL DEF Spec

(* The clean-up of a failed promotion removes no file of somebody else that  *)
(* was there when the run last looked, whatever is put, replaced,            *)
(* overwritten and removed meanwhile, and however often.                     *)
THEOREM NothingSeenIsLost == Spec => []LosesNothingSeen
<1>1. LossInv => LosesNothingSeen
  BY DEF LossInv
<1>2. QED BY <1>1, LossAlways, PTL

-----------------------------------------------------------------------------
(* What is reported *)

LEMMA DiscardSteps ==
  \A n \in Public :
    DiscardOf(n) \in 21..24 /\ \A i \in 21..24 : Program[i][2] = n <=> i = DiscardOf(n)
<1>1. \A i \in 21..24 :
        /\ Program[i][2] = "pending" <=> i = 21
        /\ Program[i][2] = "bundle" <=> i = 22
        /\ Program[i][2] = "replay" <=> i = 23
        /\ Program[i][2] = "manifest" <=> i = 24
  BY DEF Program
<1>2. QED
  BY <1>1, DiscardIs DEF DiscardOf, Public

(* The end of an operation passes no removal but the one it is itself.       *)
LEMMA ToDiscardKept ==
  ASSUME PromotionType, step \in 1..24, Done \/ Throw, NEW n \in Public,
         ToDiscard(n), owned'[n] = owned[n]
  PROVE  ToDiscard(n)' \/ (At("discard") /\ n = Name)
<1>1. DiscardOf(n) \in 21..24 /\ step <= DiscardOf(n) /\ owned'[n] # None
  BY DiscardSteps DEF ToDiscard
<1>2. CASE step < 21
  <2>1. step' <= 21
    BY <1>2, DiscardIs DEF Done, Throw, Go
  <2>2. step' \in 2..26
    BY StepMoves, ProgramIs
  <2>3. QED BY <1>1, <2>1, <2>2 DEF ToDiscard
<1>3. CASE step >= 21
  <2>1. step' = step + 1 /\ step \in 21..24
    BY <1>3, DiscardIs DEF Done, Throw, Go
  <2>2. At("discard") /\ (n = Name <=> step = DiscardOf(n))
    BY <2>1, ProgramIs, DiscardSteps DEF At, Name
  <2>3. step # DiscardOf(n) => ToDiscard(n)'
    BY <1>1, <2>1 DEF ToDiscard
  <2>4. QED BY <2>2, <2>3
<1>4. QED BY <1>2, <1>3

(* A step that moves no file and ends no operation keeps the account.        *)
LEMMA AccountStands ==
  ASSUME Accounted, UNCHANGED <<names, files, owned, stranded, reported, step, phase, stat>>
  PROVE  Accounted'
BY DEF Accounted, Exists, ToDiscard, BeingWritten, Name, DiscardOf, At

(* An operation that neither writes nor removes.                             *)
LEMMA AccountRuns ==
  ASSUME PromotionType, Accounted, Own \/ Replay \/ Compare \/ Skip \/ Take \/ Complete
  PROVE  Accounted'
<1>1. UNCHANGED <<names, files, owned, stranded, reported>> /\ phase = "start" /\ phase' = "start"
  BY StartsOver DEF Own, Replay, Compare, Skip, Take, Complete, Kept, Stays, directory, Go
<1>2. CASE Complete
  BY <1>2, ProgramIs DEF Complete, Go, Accounted
<1>3. CASE Own \/ Replay \/ Compare \/ Skip \/ Take
  <2>1. step \in 1..24 /\ (Done \/ Throw) /\ step \in 1..25 /\ step <= Len(Program)
    <3>1. Done \/ Throw
      BY <1>3 DEF Own, Replay, Compare, Skip, Take
    <3>2. At("own") \/ At("replay") \/ At("compare") \/ At("discard") \/ At("collect")
      BY <1>3 DEF Own, Replay, Compare, Skip, Take
    <3>3. QED BY <3>1, <3>2, ProgramIs DEF At
  <2>2. \A n \in Public : ToDiscard(n) => ToDiscard(n)'
    <3>1. ~(At("discard") /\ owned[Name] # None)
      BY <1>3, ProgramIs DEF Own, Replay, Compare, Skip, Take, At
    <3>2. QED BY <1>1, <2>1, <3>1, ToDiscardKept DEF ToDiscard
  <2>3. phase \notin Cleaning \cup Aside /\ phase' \notin Cleaning \cup Aside
    BY <1>1 DEF Cleaning, Aside
  <2>4. (step < Discard => stranded = {})'
    <3>1. step' > step
      BY <2>1, DiscardIs DEF Done, Throw, Go
    <3>2. step' < Discard => step < Discard
      BY <2>1, <3>1, DiscardIs, StepMoves, ProgramIs
    <3>3. QED BY <1>1, <2>1, <3>2 DEF Accounted
  <2>5. (At("remove") => owned[Name] # None)'
    <3>1. SUFFICES ASSUME step' = 12 PROVE owned["pending"] # None
      BY <1>1, ProgramIs DEF At, Name
    <3>2. step = 11
      BY <2>1, <3>1, DiscardIs DEF Done, Throw, Go
    <3>3. At("own") /\ Name = "pending" /\ Own
      <4>1. Program[11][1] = "own" /\ Program[11][2] = "pending" /\ 11 \in DOMAIN Program
        BY ProgramIs
      <4>2. At("own") /\ Name = "pending"
        BY <3>2, <4>1 DEF At, Name
      <4>3. ~(Replay \/ Compare \/ Skip \/ Take)
        BY <3>2, <4>1 DEF Replay, Compare, Skip, Take, At
      <4>4. QED BY <1>3, <4>2, <4>3
    <3>4. ~Throw
      BY <3>1, <3>2, DiscardIs DEF Throw, Go
    <3>5. QED BY <3>3, <3>4 DEF Own, Owns
  <2>6. \A n \in Public : (Exists(n) /\ files[names[n]].own)' =>
          (n \in reported \/ BeingWritten(n) \/ (ToDiscard(n) /\ owned[n] = names[n]))'
    BY <1>1, <2>1, <2>2, <2>3 DEF Accounted, Exists, BeingWritten
  <2>7. \A s \in stranded' :
          /\ s[1] \in Public
          /\ \/ s[1] \in reported'
             \/ ToDiscard(s[1])' /\ \A n \in Names : names'[n] # owned'[s[1]]
    BY <1>1, <2>1, <2>2 DEF Accounted
  <2>8. QED
    BY <2>3, <2>4, <2>5, <2>6, <2>7 DEF Accounted
<1>4. QED BY <1>2, <1>3

LEMMA AccountMeddle ==
  ASSUME PromotionType, AtHome, Accounted, Meddle
  PROVE  Accounted'
<1>1. /\ UNCHANGED <<step, phase, stat, owned, stranded, reported>>
      /\ UNCHANGED Name /\ UNCHANGED At("remove")
  BY MeddleEffect DEF promotion, Name, At
<1>2. PICK k \in Public :
        /\ \A m \in Names \ {k} : names'[m] = names[m]
        /\ names'[k] \in {names[k], None, Len(files) + 1}
        /\ names'[k] = Len(files) + 1 => ~files'[names'[k]].own
  BY MeddleEffect
<1>3. /\ \A i \in Numbers : files'[i].own = files[i].own
      /\ \A m \in Names : names[m] \in {None} \cup Numbers
      /\ \A m \in Public : owned[m] \in {None} \cup Numbers /\ m \in Names
      /\ Len(files) + 1 \notin Numbers /\ Len(files) + 1 # None /\ None \notin Numbers
      /\ "quarantine" \in Names /\ "quarantine" # k
  BY MeddleEffect, FileShapes, NamesAre DEF Numbers
<1> SUFFICES ASSUME step <= Len(Program) PROVE Accounted'
  BY <1>1 DEF Accounted
<1>4. ASSUME NEW n \in Public, (Exists(n) /\ files[names[n]].own)'
      PROVE  (n \in reported \/ BeingWritten(n) \/ (ToDiscard(n) /\ owned[n] = names[n]))'
  <2>1. names'[n] = names[n] /\ Exists(n) /\ files[names[n]].own
    BY <1>2, <1>3, <1>4 DEF Exists
  <2>2. n \in reported \/ BeingWritten(n) \/ (ToDiscard(n) /\ owned[n] = names[n])
    BY <2>1 DEF Accounted
  <2>3. QED BY <1>1, <2>1, <2>2 DEF BeingWritten, ToDiscard
<1>5. ASSUME phase \in Aside, files'[names'["quarantine"]].own
      PROVE  Name \in reported \/ owned[Name] = names'["quarantine"]
  <2>1. names'["quarantine"] = names["quarantine"] /\ names["quarantine"] \in Numbers
    BY <1>2, <1>3, <1>5 DEF AtHome
  <2>2. QED BY <1>3, <1>5, <2>1 DEF Accounted
<1>6. ASSUME NEW s \in stranded
      PROVE  /\ s[1] \in Public
             /\ \/ s[1] \in reported
                \/ ToDiscard(s[1])' /\ \A n \in Names : names'[n] # owned'[s[1]]
  <2>1. s[1] \in Public
    BY DEF Accounted
  <2>2. CASE ToDiscard(s[1]) /\ \A n \in Names : names[n] # owned[s[1]]
    <3>1. ToDiscard(s[1])' /\ owned[s[1]] \in Numbers
      BY <1>1, <1>3, <2>1, <2>2 DEF ToDiscard
    <3>2. \A n \in Names : names'[n] # owned'[s[1]]
      BY <1>1, <1>2, <1>3, <2>2, <3>1
    <3>3. QED BY <2>1, <3>1, <3>2
  <2>3. QED BY <2>1, <2>2 DEF Accounted
<1>7. QED
  BY <1>1, <1>4, <1>5, <1>6 DEF Accounted

LEMMA AccountWrites ==
  ASSUME PromotionType, Accounted, WriteNew \/ WriteSeen \/ WriteCleanUp \/ WriteUnlink
  PROVE  Accounted'
<1>1. /\ At("write") /\ step \in {2, 9, 13, 16} /\ Name \in Public /\ Name \in Names
      /\ step \in 1..24 /\ step <= Len(Program) /\ stranded = {} /\ phase \notin Aside
  <2>1. At("write")
    BY DEF WriteNew, WriteSeen, WriteCleanUp, WriteUnlink
  <2>2. step \in {2, 9, 13, 16} /\ step <= Len(Program) /\ step < Discard
    BY <2>1, ProgramIs, DiscardIs DEF At
  <2>3. stranded = {}
    BY <2>2 DEF Accounted
  <2>4. QED BY <2>1, <2>2, <2>3, Operation, StartsOver
<1>2. /\ UNCHANGED stranded /\ reported \subseteq reported'
      /\ (Done \/ Throw) \/ (UNCHANGED step /\ phase' \in Cleaning)
      /\ phase' \notin Aside
  BY DEF WriteNew, WriteSeen, WriteCleanUp, WriteUnlink, Kept, Report, Cleaning, Aside,
         Done, Throw, Go
<1>3. \A n \in Public : ToDiscard(n) /\ owned'[n] = owned[n] => ToDiscard(n)'
  <2>1. ~At("discard")
    BY <1>1, ProgramIs DEF At
  <2>2. QED BY <1>1, <1>2, <2>1, ToDiscardKept DEF ToDiscard
<1>4. (At("remove") => owned[Name] # None)'
  <2>1. step' # 12
    BY <1>1, <1>2, DiscardIs DEF Done, Throw, Go
  <2>2. QED BY <2>1, ProgramIs DEF At
<1>5. /\ \A i \in Numbers : files'[i].own = files[i].own
      /\ \A m \in Public \ {Name} : names'[m] = names[m] /\ owned'[m] = owned[m]
  <2>1. CASE WriteNew
    <3>1. UNCHANGED <<owned, case>>
      BY <2>1 DEF WriteNew, Kept, Held
    <3>2. CASE Stays
      BY <3>1, <3>2 DEF Stays
    <3>3. CASE \E doc \in {Content(Name), Torn} : Put(Name, doc, TRUE)
      <4>1. PICK doc \in {Content(Name), Torn} : Put(Name, doc, TRUE)
        BY <3>3
      <4>2. doc \in Documents(case) \cup {None} /\ TRUE \in BOOLEAN
        BY <1>1, ContentIsDocument
      <4>3. QED BY <1>1, <3>1, <4>1, <4>2, PutFile, NamesAre
    <3>4. QED BY <2>1, <3>2, <3>3 DEF WriteNew
  <2>2. CASE WriteSeen \/ WriteCleanUp \/ WriteUnlink
    BY <1>1, <2>2, NamesAre DEF WriteSeen, WriteCleanUp, WriteUnlink, Stays, Gone, PromotionType
  <2>3. QED BY <2>1, <2>2
<1>6. ASSUME NEW n \in Public \ {Name}, (Exists(n) /\ files[names[n]].own)'
      PROVE  (n \in reported \/ BeingWritten(n) \/ (ToDiscard(n) /\ owned[n] = names[n]))'
  <2>1. names[n] \in Numbers
    BY <1>5, <1>6, FileShapes, NamesAre DEF Exists
  <2>2. Exists(n) /\ files[names[n]].own
    BY <1>5, <1>6, <2>1 DEF Exists
  <2>3. ~BeingWritten(n)
    BY <1>6 DEF BeingWritten
  <2>4. QED BY <1>1, <1>2, <1>3, <1>5, <2>2, <2>3 DEF Accounted
<1>7. ASSUME NEW n \in Public, n = Name, (Exists(n) /\ files[names[n]].own)'
      PROVE  (n \in reported \/ BeingWritten(n) \/ (ToDiscard(n) /\ owned[n] = names[n]))'
  <2>1. Exists(n) /\ files[names[n]].own /\ names'[n] = names[n] =>
          n \in reported \/ BeingWritten(n) \/ (ToDiscard(n) /\ owned[n] = names[n])
    BY <1>1 DEF Accounted
  <2>2. CASE WriteNew
    <3>1. CASE Throw /\ Stays
      <4>1. UNCHANGED <<names, files, owned>> /\ phase = "start"
        BY <2>2, <3>1 DEF WriteNew, Stays, Kept
      <4>2. QED BY <1>2, <1>3, <1>7, <2>1, <4>1 DEF Exists, BeingWritten, Cleaning
    <3>2. CASE /\ stat' = [ino |-> Len(files) + 1, ver |-> 0, known |-> Len(files)]
               /\ UNCHANGED step /\ phase' \in {"written", "partial"}
               /\ \E doc \in {Content(Name), Torn} : Put(Name, doc, TRUE)
      <4>1. names' = [names EXCEPT ![Name] = Len(files) + 1]
        BY <3>2 DEF Put
      <4>2. names'[n] = Len(files) + 1
        BY <1>1, <1>7, <4>1 DEF PromotionType
      <4>3. QED BY <1>7, <3>2, <4>2 DEF BeingWritten, Cleaning, Name
    <3>3. QED BY <2>2, <3>1, <3>2 DEF WriteNew
  <2>3. CASE WriteSeen
    <3>1. UNCHANGED <<names, files, reported>> /\ phase = "written"
      BY <2>3 DEF WriteSeen, Stays
    <3>2. CASE owned' = [owned EXCEPT ![Name] = names[Name]] /\ Done
      <4>1. owned'[n] = names[n] /\ names[n] # None /\ step' \in 2..20
        BY <1>1, <1>7, <3>1, <3>2, DiscardIs DEF PromotionType, Exists, Done, Go
      <4>2. DiscardOf(n) \in 21..24
        BY DiscardSteps
      <4>3. QED BY <3>1, <4>1, <4>2 DEF ToDiscard
    <3>3. CASE phase' = "rejected" /\ UNCHANGED <<step, stat, owned>>
      BY <1>3, <1>7, <2>1, <3>1, <3>3 DEF Exists, BeingWritten, Cleaning, Name
    <3>4. QED BY <2>3, <3>2, <3>3 DEF WriteSeen
  <2>4. CASE WriteCleanUp
    <3>1. UNCHANGED <<names, files, owned>> /\ phase \in Cleaning /\ Exists(n)
      BY <1>7, <2>4 DEF WriteCleanUp, Stays, Cleaning, Exists
    <3>2. CASE phase' = "unlink" /\ stat' = [stat EXCEPT !.known = Len(files)] /\ UNCHANGED step
      <4>1. stat'.ino = stat.ino
        BY <3>1, <3>2 DEF PromotionType
      <4>2. QED BY <1>2, <1>3, <1>7, <2>1, <3>1, <3>2, <4>1 DEF Exists, BeingWritten, Cleaning, Name
    <3>3. CASE Throw /\ (phase = "rejected" => Report(Name))
               /\ ~(names[Name] = stat.ino /\ phase = "partial")
      <4>1. CASE phase = "rejected"
        BY <1>7, <3>3, <4>1 DEF Report
      <4>2. CASE phase = "partial"
        BY <1>2, <1>3, <1>7, <2>1, <3>1, <3>3, <4>2 DEF BeingWritten, Exists
      <4>3. QED BY <2>4, <4>1, <4>2 DEF WriteCleanUp
    <3>4. QED BY <2>4, <3>1, <1>7, <3>2, <3>3 DEF WriteCleanUp
  <2>5. CASE WriteUnlink
    <3>1. CASE Report(Name)
      BY <1>7, <3>1 DEF Report
    <3>2. CASE Gone(Name)
      <4>1. names'[n] = None
        BY <1>1, <1>7, <3>2 DEF Gone, PromotionType
      <4>2. QED BY <1>7, <4>1 DEF Exists
    <3>3. QED BY <2>5, <3>1, <3>2 DEF WriteUnlink
  <2>6. QED BY <2>2, <2>3, <2>4, <2>5
<1>8. QED
  BY <1>1, <1>2, <1>4, <1>6, <1>7 DEF Accounted

LEMMA RemovalSteps ==
  ASSUME PromotionType, Removing
  PROVE  /\ Name \in Public /\ Name \in Names /\ step \in 1..24 /\ step <= Len(Program)
         /\ phase \notin Cleaning
         /\ \/ At("remove") /\ step = 12 /\ Name = "pending" /\ ~At("discard")
            \/ At("discard") /\ step \in 21..24
<1>1. At("remove") \/ At("discard")
  BY DEF Removing
<1>2. /\ step \in 1..24 /\ step <= Len(Program)
      /\ \/ At("remove") /\ step = 12 /\ Name = "pending" /\ ~At("discard")
         \/ At("discard") /\ step \in 21..24
  BY <1>1, ProgramIs DEF At, Name
<1>3. QED BY <1>1, <1>2, Operation, StartsOver

(* A removal that gives up leaves the file to a removal to come, or reports  *)
(* its name.                                                                 *)
LEMMA GiveUpAccounts ==
  ASSUME PromotionType, AtHome, Accounted, Removing, GiveUp, UNCHANGED <<files, owned>>,
         \A m \in Public \ {Name} : names'[m] = names[m],
         \A m \in Names : names'[m] # None => \E l \in Names : names'[m] = names[l],
         names'[Name] # None /\ files[names'[Name]].own =>
           Name \in reported \/ owned[Name] = names'[Name],
         \A s \in stranded' \ stranded :
           s[1] = Name /\ \A m \in Names : names'[m] # owned[Name]
  PROVE  Accounted'
<1>1. /\ Throw /\ reported \subseteq reported' /\ phase' \notin Cleaning \cup Aside
      /\ At("discard") => Name \in reported'
  BY StartsOver DEF GiveUp, Report
<1>2. /\ Name \in Public /\ step \in 1..24 /\ step <= Len(Program)
      /\ phase \notin Cleaning
  BY RemovalSteps
<1>3. step' \in 21..25
  BY <1>1, <1>2, StepMoves, ProgramIs
<1>4. ASSUME NEW n \in Public, ToDiscard(n) PROVE ToDiscard(n)' \/ n \in reported'
  BY <1>1, <1>2, <1>4, ToDiscardKept
<1>5. owned[Name] # None
  BY <1>2 DEF Removing, Accounted
<1>6. \A n \in Public : n = Name => ToDiscard(n)' \/ n \in reported'
  <2>1. CASE At("discard")
    BY <1>1, <2>1
  <2>2. CASE step = 12 /\ Name = "pending"
    <3>1. DiscardOf("pending") \in 21..24
      BY <1>2, <2>2, DiscardSteps
    <3>2. ToDiscard("pending")
      BY <1>5, <2>2, <3>1 DEF ToDiscard
    <3>3. ToDiscard("pending")' \/ "pending" \in reported'
      BY <1>2, <1>4, <2>2, <3>2
    <3>4. QED BY <2>2, <3>3
  <2>3. QED BY <2>1, <2>2, RemovalSteps
<1>7. ASSUME NEW n \in Public, (Exists(n) /\ files[names[n]].own)'
      PROVE  (n \in reported \/ BeingWritten(n) \/ (ToDiscard(n) /\ owned[n] = names[n]))'
  <2>1. CASE n = Name
    <3>1. names'[n] # None /\ files[names'[n]].own
      BY <1>7 DEF Exists
    <3>2. n \in reported \/ owned'[n] = names'[n]
      BY <2>1, <3>1
    <3>3. QED BY <1>1, <1>6, <2>1, <3>2
  <2>2. CASE n # Name
    <3>1. Exists(n) /\ files[names[n]].own /\ names'[n] = names[n] /\ ~BeingWritten(n)
      BY <1>2, <1>7, <2>2 DEF Exists, BeingWritten
    <3>2. QED BY <1>1, <1>2, <1>4, <3>1 DEF Accounted
  <2>3. QED BY <2>1, <2>2
<1>8. ASSUME NEW s \in stranded'
      PROVE  /\ s[1] \in Public
             /\ \/ s[1] \in reported'
                \/ ToDiscard(s[1])' /\ \A n \in Names : names'[n] # owned'[s[1]]
  <2>1. CASE s \in stranded
    <3>1. s[1] \in Public
      BY <1>2, <2>1 DEF Accounted
    <3>2. CASE ToDiscard(s[1]) /\ \A n \in Names : names[n] # owned[s[1]]
      <4>1. owned[s[1]] # None
        BY <3>2 DEF ToDiscard
      <4>2. \A n \in Names : names'[n] # owned'[s[1]]
        BY <3>2, <4>1
      <4>3. QED BY <1>4, <3>1, <3>2, <4>2
    <3>3. QED BY <1>1, <1>2, <2>1, <3>1, <3>2 DEF Accounted
  <2>2. CASE s \notin stranded
    <3>1. s[1] = Name /\ \A m \in Names : names'[m] # owned[Name]
      BY <1>8, <2>2
    <3>2. owned'[s[1]] = owned[Name] /\ s[1] \in Public
      BY <1>2, <3>1
    <3>3. ToDiscard(s[1])' \/ s[1] \in reported'
      BY <1>6, <3>1, <3>2
    <3>4. QED BY <3>1, <3>2, <3>3
  <2>3. QED BY <2>1, <2>2
<1>9. /\ ~(step < Discard)' /\ ~At("remove")'
  BY <1>3, DiscardIs, ProgramIs DEF At
<1>10. QED
  BY <1>1, <1>7, <1>8, <1>9 DEF Accounted

(* A file that is removed needs no report.                                   *)
LEMMA RemovedAccounts ==
  ASSUME PromotionType, AtHome, Accounted, Removing, Done, Verified, phase \in Aside,
         ~Exists(Name), Gone("quarantine"), owned' = [owned EXCEPT ![Name] = None],
         UNCHANGED <<stranded, reported>>
  PROVE  Accounted'
<1>1. /\ Name \in Public /\ Name \in Names /\ step \in 1..24 /\ step <= Len(Program)
      /\ phase \notin Cleaning /\ phase' \notin Cleaning \cup Aside
      /\ owned \in [Public -> {None} \cup Numbers]
      /\ names \in [Names -> {None} \cup Numbers]
      /\ Name # "quarantine"
  BY RemovalSteps, StartsOver, NamesAre DEF PromotionType
<1>2. /\ \A m \in Public : names'[m] = names[m] /\ UNCHANGED files
      /\ \A m \in Names : names'[m] \in {None, names[m]}
      /\ \A m \in Public \ {Name} : owned'[m] = owned[m]
      /\ names["quarantine"] = owned[Name]
  BY <1>1, NamesAre DEF Gone, Verified, Owns
<1>3. ASSUME NEW n \in Public \ {Name}, ToDiscard(n) PROVE ToDiscard(n)'
  BY <1>1, <1>2, <1>3, ToDiscardKept
<1>4. ASSUME NEW n \in Public, (Exists(n) /\ files[names[n]].own)'
      PROVE  (n \in reported \/ BeingWritten(n) \/ (ToDiscard(n) /\ owned[n] = names[n]))'
  <2>1. n # Name /\ Exists(n) /\ files[names[n]].own /\ ~BeingWritten(n)
    BY <1>1, <1>2, <1>4 DEF Exists, BeingWritten
  <2>2. QED BY <1>1, <1>2, <1>3, <2>1 DEF Accounted
<1>5. ASSUME NEW s \in stranded
      PROVE  /\ s[1] \in Public
             /\ \/ s[1] \in reported'
                \/ ToDiscard(s[1])' /\ \A n \in Names : names'[n] # owned'[s[1]]
  <2>1. s[1] \in Public
    BY <1>1 DEF Accounted
  <2>2. CASE ToDiscard(s[1]) /\ \A n \in Names : names[n] # owned[s[1]]
    <3>1. s[1] # Name /\ owned[s[1]] # None
      BY <1>2, <2>2, NamesAre DEF ToDiscard
    <3>2. \A n \in Names : names'[n] # owned'[s[1]]
      BY <1>2, <2>1, <2>2, <3>1
    <3>3. QED BY <1>3, <2>1, <2>2, <3>1, <3>2
  <2>3. QED BY <1>1, <2>1, <2>2 DEF Accounted
<1>6. (step < Discard => stranded = {})' /\ ~At("remove")'
  <2>1. step' = step + 1
    BY DEF Done, Go
  <2>2. step' # 12 /\ (step' < 21 => step < 21)
    BY <2>1, RemovalSteps
  <2>3. QED BY <1>1, <2>2, DiscardIs, ProgramIs DEF Accounted, At
<1>7. QED
  BY <1>1, <1>4, <1>5, <1>6 DEF Accounted

LEMMA AccountRemovals ==
  ASSUME PromotionType, AtHome, Accounted,
         Quarantine \/ RemoveVerified \/ RefuseUnverified \/ Restore
  PROVE  Accounted'
<1>1. Removing /\ UNCHANGED files
  BY DEF Quarantine, RemoveVerified, RefuseUnverified, Restore, Stays, Gone, Strand
<1>2. /\ Name \in Public /\ Name \in Names /\ Name # "quarantine" /\ step <= Len(Program)
      /\ phase \notin Cleaning /\ "quarantine" \in Names
      /\ names \in [Names -> {None} \cup Numbers]
  BY <1>1, RemovalSteps, NamesAre DEF PromotionType
<1>3. Exists(Name) /\ files[names[Name]].own =>
        Name \in reported \/ owned[Name] = names[Name]
  BY <1>2 DEF Accounted, BeingWritten
<1>4. CASE GiveUp /\ Stays /\ UNCHANGED <<owned, stranded>>
  BY <1>1, <1>3, <1>4, GiveUpAccounts DEF Stays, Exists
<1>5. ASSUME Gone("quarantine")
      PROVE  /\ names'["quarantine"] = None
             /\ \A m \in Public : names'[m] = names[m]
             /\ \A m \in Names : names'[m] # None => names'[m] = names[m]
  BY <1>2, <1>5, NamesAre DEF Gone
<1>6. CASE GiveUp /\ Gone("quarantine") /\ UNCHANGED <<owned, stranded>>
  BY <1>1, <1>2, <1>3, <1>5, <1>6, GiveUpAccounts DEF Exists
<1>7. CASE GiveUp /\ Strand /\ UNCHANGED owned /\ phase \in Aside
  <2>1. /\ Gone("quarantine")
        /\ stranded' = stranded \cup {<<Name, names["quarantine"]>>}
    BY <1>7 DEF Strand
  <2>2. owned[Name] # None
    BY <1>1, <1>2 DEF Removing, Accounted
  <2>3. \A m \in Names : names'[m] # owned[Name]
    BY <1>2, <1>5, <1>7, <2>1, <2>2 DEF AtHome
  <2>4. \A s \in stranded' \ stranded :
          s[1] = Name /\ \A m \in Names : names'[m] # owned[Name]
    BY <2>1, <2>3
  <2>5. QED BY <1>1, <1>2, <1>3, <1>5, <1>7, <2>1, <2>4, GiveUpAccounts DEF Exists
<1>8. CASE Quarantine
  <2>1. CASE /\ Exists(Name) /\ phase' = "verify" /\ UNCHANGED <<step, reported>>
             /\ names' = [names EXCEPT !["quarantine"] = names[Name], ![Name] = None]
    <3>1. /\ names'["quarantine"] = names[Name] /\ names'[Name] = None
          /\ \A m \in Names \ {Name, "quarantine"} : names'[m] = names[m]
          /\ phase' \in Aside /\ phase' \notin Cleaning /\ phase = "start"
          /\ UNCHANGED <<owned, stranded>> /\ UNCHANGED Name
      BY <1>2, <1>8, <2>1 DEF Name, Aside, Cleaning, Quarantine
    <3>2. ASSUME NEW n \in Public, (Exists(n) /\ files[names[n]].own)'
          PROVE  (n \in reported \/ BeingWritten(n)
                  \/ (ToDiscard(n) /\ owned[n] = names[n]))'
      <4>1. n # Name /\ n # "quarantine"
        BY <1>2, <3>1, <3>2, NamesAre DEF Exists
      <4>2. names'[n] = names[n] /\ Exists(n) /\ files[names[n]].own /\ ~BeingWritten(n)
        BY <1>1, <1>2, <3>1, <3>2, <4>1, NamesAre DEF Exists, BeingWritten
      <4>3. n \in reported \/ (ToDiscard(n) /\ owned[n] = names[n])
        BY <1>2, <4>2 DEF Accounted
      <4>4. QED BY <2>1, <3>1, <4>2, <4>3 DEF ToDiscard
    <3>3. (phase \in Aside /\ files[names["quarantine"]].own =>
             Name \in reported \/ owned[Name] = names["quarantine"])'
      BY <1>1, <1>3, <2>1, <3>1
    <3>4. ASSUME NEW s \in stranded
          PROVE  /\ s[1] \in Public
                 /\ \/ s[1] \in reported'
                    \/ ToDiscard(s[1])' /\ \A n \in Names : names'[n] # owned'[s[1]]
      <4>1. s[1] \in Public
        BY <1>2 DEF Accounted
      <4>2. CASE ToDiscard(s[1]) /\ \A n \in Names : names[n] # owned[s[1]]
        <5>1. owned[s[1]] # None /\ ToDiscard(s[1])'
          BY <2>1, <3>1, <4>2 DEF ToDiscard
        <5>2. \A n \in Names : names'[n] # owned'[s[1]]
          BY <1>2, <3>1, <4>2, <5>1
        <5>3. QED BY <4>1, <5>1, <5>2
      <4>3. QED BY <1>2, <2>1, <4>1, <4>2 DEF Accounted
    <3>5. /\ (step < Discard => stranded = {})'
          /\ (At("remove") => owned[Name] # None)'
      BY <1>2, <2>1, <3>1 DEF Accounted, At
    <3>6. QED
      BY <3>1, <3>2, <3>3, <3>4, <3>5 DEF Accounted
  <2>2. QED BY <1>4, <1>8, <2>1 DEF Quarantine
<1>9. CASE RemoveVerified
  BY <1>1, <1>6, <1>7, <1>9, RemovedAccounts, StartsOver DEF RemoveVerified
<1>10. CASE RefuseUnverified
  <2>1. phase \in Aside /\ UNCHANGED owned
    BY <1>10, StartsOver DEF RefuseUnverified
  <2>2. CASE GiveUp /\ Strand
    BY <1>7, <2>1, <2>2
  <2>3. CASE phase' = "restore" /\ Stays /\ UNCHANGED <<step, stranded, reported>>
    <3>1. phase' \in Aside /\ phase' \notin Cleaning /\ UNCHANGED <<names, files>>
          /\ UNCHANGED Name /\ UNCHANGED At("remove")
      BY <2>3 DEF Aside, Cleaning, Stays, Name, At
    <3>2. QED
      BY <1>2, <2>1, <2>3, <3>1 DEF Accounted, Exists, ToDiscard, BeingWritten
  <2>4. QED BY <1>10, <2>2, <2>3 DEF RefuseUnverified
<1>11. CASE Restore /\ Strand
  <2>1. GiveUp /\ UNCHANGED owned /\ phase \in Aside
    BY <1>11, StartsOver DEF Restore
  <2>2. QED BY <1>7, <1>11, <2>1
<1>12. CASE Restore /\ ~Strand
  <2>1. /\ names'["quarantine"] = None /\ names'[Name] = names["quarantine"]
        /\ \A m \in Names \ {Name, "quarantine"} : names'[m] = names[m]
        /\ GiveUp /\ UNCHANGED <<owned, stranded>> /\ phase \in Aside
    BY <1>2, <1>12, StartsOver DEF Restore
  <2>2. names'[Name] # None /\ files[names'[Name]].own =>
          Name \in reported \/ owned[Name] = names'[Name]
    BY <1>2, <2>1 DEF Accounted
  <2>3. /\ \A m \in Public \ {Name} : names'[m] = names[m]
        /\ \A m \in Names : names'[m] # None => \E l \in Names : names'[m] = names[l]
    BY <1>2, <2>1, NamesAre
  <2>4. QED BY <1>1, <2>1, <2>2, <2>3, GiveUpAccounts
<1>13. QED BY <1>8, <1>9, <1>10, <1>11, <1>12

LEMMA AccountNext ==
  ASSUME LossInv, Accounted, [Next]_vars
  PROVE  Accounted'
<1>1. CASE ((Edit \/ Collect) /\ Others) \/ Review \/ UNCHANGED vars
  <2>1. UNCHANGED <<names, files, owned, stranded, reported, step, phase, stat>>
    BY <1>1 DEF Others, Review, ListFiles, ReadManifest, ReadBundle, ReadReplay, ReadFile,
                CompareDigests, Judge, ReviewFails, saved, directory, promotion, vars
  <2>2. QED BY <2>1, AccountStands
<1>2. QED
  BY <1>1, AccountMeddle, AccountRuns, AccountWrites, AccountRemovals
     DEF Next, Promote, LossInv

LEMMA AccountInit == Init => Accounted
<1> SUFFICES ASSUME Init PROVE Accounted
  OBVIOUS
<1>1. phase \notin Cleaning \cup Aside /\ stranded = {} /\ step \in {1, 25}
  BY ProgramIs DEF Init, PromotionInit, Cleaning, Aside
<1>2. \A n \in Public : ~(Exists(n) /\ files[names[n]].own)
  <2>1. CASE case.mode = "review"
    BY <2>1, SavedFiles, NamesAre DEF Exists
  <2>2. CASE case.mode # "review"
    BY <2>2, NamesAre DEF Init, PromotionInit, Exists
  <2>3. QED BY <2>1, <2>2
<1>3. ~At("remove")
  BY <1>1, ProgramIs DEF At
<1>4. QED
  BY <1>1, <1>2, <1>3 DEF Accounted

LEMMA ReportAlways == Spec => []ReportInv
<1>1. Init => ReportInv
  BY PromotionTypeInit, HomeInit, AccountInit
     DEF ReportInv, LossInv, Init, PromotionInit, ComesLater, Cleaning, LosesNothingSeen
<1>2. ReportInv /\ [Next]_vars => ReportInv'
  BY PromotionTypeNext, HomeNext, ComesLaterNext, LosesNothing, AccountNext
     DEF ReportInv, LossInv
<1>3. QED BY <1>1, <1>2, PTL DEF Spec

(* When a promotion has failed, every file of the run that is still in the   *)
(* directory is named in its message, whichever calls failed and whatever    *)
(* was exchanged.                                                            *)
THEOREM NothingIsLeftUnreported == Spec => []LeavesNothingUnreported
<1>1. ReportInv => LeavesNothingUnreported
  <2> SUFFICES ASSUME ReportInv, At("failed") PROVE LeavesNothingUnreported
    BY DEF LeavesNothingUnreported
  <2>1. step = 25 /\ step <= Len(Program) /\ phase \notin Cleaning
    BY ProgramIs, StartsOver DEF At, ReportInv, LossInv
  <2>2. \A n \in Public : ~ToDiscard(n) /\ ~BeingWritten(n)
    BY <2>1, DiscardSteps DEF ToDiscard, BeingWritten
  <2>3. QED
    BY <2>1, <2>2 DEF ReportInv, Accounted, LeavesNothingUnreported
<1>2. QED BY <1>1, ReportAlways, PTL

-----------------------------------------------------------------------------
(* What is accepted *)

LEMMA ReviewLeaves ==
  ASSUME Review
  PROVE  /\ UNCHANGED <<case, collection, names, files, promotion, lost>>
         /\ UNCHANGED mishaps \/ (Mishap /\ ReviewFails)
BY DEF Review, ListFiles, ReadManifest, ReadBundle, ReadReplay, ReadFile,
       CompareDigests, Judge, ReviewFails, saved, directory

(* Nobody disturbed the promotion up to this step, if nobody did up to the   *)
(* next one.                                                                 *)
LEMMA NobodyDisturbs ==
  ASSUME PromotionType, [Next]_vars, mishaps' = 0
  PROVE  mishaps = 0 /\ ~Meddle /\ ~Mishap
<1>1. mishaps \in Nat
  BY DEF PromotionType
<1>2. Mishap \/ UNCHANGED mishaps
  BY ReviewLeaves DEF Next, Promote, Others, directory, vars, Meddle, Take, WriteNew,
     WriteSeen, WriteCleanUp, WriteUnlink, Own, Replay, Compare, Complete, Skip,
     Quarantine, RemoveVerified, RefuseUnverified, Restore, NoMishap
<1>3. ~Mishap
  BY <1>1 DEF Mishap
<1>4. Meddle => Mishap
  BY DEF Meddle
<1>5. QED
  BY <1>2, <1>3, <1>4

LEMMA SettledSteps ==
  ASSUME PromotionType, Accounted, Undisturbed, Promote, mishaps = 0, ~Mishap, mishaps' = 0,
         step' \in 13..20 \/ step' = 26
  PROVE  /\ bundle' = bundle /\ bundle \in OwnBundles
         /\ ~Exists("pending")' /\ stranded' = {}
         /\ \/ Own /\ Done /\ step \in {14, 15, 17, 18, 19} /\ step' = step + 1
               /\ UNCHANGED <<names, files>>
            \/ Complete /\ step = 20 /\ step' = 26 /\ UNCHANGED <<names, files>>
            \/ step' \in 13..17
<1>1. CASE WriteNew \/ WriteSeen \/ WriteCleanUp \/ WriteUnlink
  <2>1. /\ At("write")
        /\ Done \/ Throw \/ UNCHANGED step
        /\ UNCHANGED <<bundle, stranded>>
    BY <1>1 DEF WriteNew, WriteSeen, WriteCleanUp, WriteUnlink, Held, Kept
  <2>2. step \in {2, 9, 13, 16}
    BY <2>1, ProgramIs DEF At
  <2>3. step \in {13, 16} /\ step' \in {13, 14, 16, 17}
    BY <2>1, <2>2, DiscardIs DEF Done, Throw, Go
  <2>4. Name \in Public \ {"pending"}
    BY <2>3, ProgramIs DEF Name
  <2>5. names'["pending"] = names["pending"]
    BY <1>1, <2>4, NamesAre DEF WriteNew, WriteSeen, WriteCleanUp, WriteUnlink, Stays, Put,
                       Gone, PromotionType
  <2>6. Settled(13)
    BY <2>3, DiscardIs DEF Settled
  <2>7. QED BY <2>1, <2>3, <2>5, <2>6 DEF Undisturbed, Exists
<1>2. CASE Own
  <2>1. At("own")
    BY <1>2 DEF Own
  <2>2. step \in {3, 5, 7, 10, 11, 14, 15, 17, 18, 19}
    BY <2>1, ProgramIs DEF At
  <2>3. UNCHANGED <<bundle, stranded, names, files>> /\ (Done \/ Throw)
    BY <1>2 DEF Own, Stays, Held, Kept
  <2>4. Done /\ step' = step + 1 /\ step \in {14, 15, 17, 18, 19}
    BY <2>2, <2>3, DiscardIs DEF Done, Throw, Go
  <2>5. Settled(13)
    BY <2>4, DiscardIs DEF Settled
  <2>6. QED BY <1>2, <2>3, <2>4, <2>5 DEF Undisturbed, Exists
<1>3. CASE Complete
  <2>1. step = 20 /\ step' = 26 /\ UNCHANGED <<bundle, stranded, names, files>>
    BY <1>3, ProgramIs DEF Complete, At, Go, Stays, Held, Kept
  <2>2. Settled(13)
    BY <2>1, DiscardIs DEF Settled
  <2>3. QED BY <1>3, <2>1, <2>2 DEF Undisturbed, Exists
<1>4. CASE Take \/ Replay \/ Compare \/ Skip
  <2>1. (Done \/ Throw) /\ step \in {1, 4, 6, 8, 21, 22, 23, 24}
    <3>1. Done \/ Throw
      BY <1>4 DEF Take, Replay, Compare, Skip
    <3>2. At("collect") \/ At("replay") \/ At("compare") \/ At("discard")
      BY <1>4 DEF Take, Replay, Compare, Skip
    <3>3. QED BY <3>1, <3>2, ProgramIs DEF At
  <2>2. QED BY <2>1, DiscardIs DEF Done, Throw, Go
<1>5. CASE Quarantine \/ RemoveVerified \/ RefuseUnverified \/ Restore
  <2>1. Removing /\ (Done \/ Throw \/ UNCHANGED step)
    BY <1>5 DEF Quarantine, RemoveVerified, RefuseUnverified, Restore, GiveUp
  <2>2. step = 12 \/ step \in 21..24
    BY <2>1, RemovalSteps
  <2>3. step = 12 /\ ~Throw /\ ~UNCHANGED step /\ step' = 13
    BY <2>1, <2>2, DiscardIs DEF Done, Throw, Go
  <2>4. RemoveVerified /\ ~GiveUp /\ Name = "pending"
    BY <1>5, <2>1, <2>3, RemovalSteps
       DEF Quarantine, RemoveVerified, RefuseUnverified, Restore, GiveUp
  <2>5. ~Exists("pending") /\ Gone("quarantine") /\ UNCHANGED <<stranded, bundle>>
    BY <2>4 DEF RemoveVerified, Held
  <2>6. names'["pending"] = names["pending"]
    BY <2>5, NamesAre DEF Gone, PromotionType
  <2>7. stranded = {} /\ bundle \in OwnBundles
    BY <2>3, ProgramIs, DiscardIs DEF Accounted, PromotionType
  <2>8. QED BY <2>3, <2>5, <2>6, <2>7 DEF Exists
<1>6. QED BY <1>1, <1>2, <1>3, <1>4, <1>5 DEF Promote

(* The last checks of the run: what each has seen to be so stays so.         *)
LEMMA SettledNext ==
  ASSUME ReportInv, Undisturbed, [Next]_vars
  PROVE  /\ Settled(13)' => bundle' \in OwnBundles /\ ~Exists("pending")' /\ stranded' = {}
         /\ Settled(18)' => Holds("manifest")'
         /\ Settled(19)' => Holds("bundle")'
         /\ Settled(20)' => Holds("replay")'
<1> DEFINE Goal == /\ Settled(13)' => bundle' \in OwnBundles /\ ~Exists("pending")' /\ stranded' = {}
                   /\ Settled(18)' => Holds("manifest")'
                   /\ Settled(19)' => Holds("bundle")'
                   /\ Settled(20)' => Holds("replay")'
<1>1. PromotionType /\ Accounted
  BY DEF ReportInv, LossInv
<1>2. ASSUME UNCHANGED <<names, files, step, bundle, stranded>>, mishaps' = 0 => mishaps = 0
      PROVE  Goal
  BY <1>2 DEF Undisturbed, Settled, Holds, Exists, Doc, Content
<1>3. CASE ((Edit \/ Collect) /\ Others) \/ Review \/ UNCHANGED vars
  <2>1. UNCHANGED <<names, files, step, bundle, stranded>>
    BY <1>3, ReviewLeaves DEF Others, directory, promotion, vars
  <2>2. mishaps' = 0 => mishaps = 0
    BY <1>1, NobodyDisturbs
  <2>3. QED BY <1>2, <2>1, <2>2
<1>4. CASE Meddle
  BY <1>1, <1>4, NobodyDisturbs DEF Settled
<1>5. CASE Promote
  <2> SUFFICES ASSUME Settled(13)' PROVE Goal
    BY DEF Settled
  <2>1. mishaps' = 0 /\ mishaps = 0 /\ ~Mishap /\ (step' \in 13..20 \/ step' = 26)
    BY <1>1, NobodyDisturbs, DiscardIs, ProgramIs DEF Settled
  <2>2. /\ bundle' = bundle /\ bundle \in OwnBundles
        /\ ~Exists("pending")' /\ stranded' = {}
    BY <1>1, <1>5, <2>1, SettledSteps
  <2>3. CASE Own /\ Done /\ step \in {14, 15, 17, 18, 19} /\ step' = step + 1
             /\ UNCHANGED <<names, files>>
    <3>1. Name \in Public /\ (step = 17 => Name = "manifest")
          /\ (step = 18 => Name = "bundle") /\ (step = 19 => Name = "replay")
      BY <2>3, ProgramIs DEF Name, Public
    <3>2. step # step' /\ ~Throw
      BY <2>1, <2>3, DiscardIs DEF Throw, Go
    <3>3. Holds(Name)
      BY <2>3, <3>2 DEF Own, Owns, Holds, Exists, Doc
    <3>4. /\ step' >= 18 => Holds("manifest")
          /\ step' >= 19 => Holds("bundle")
          /\ step' >= 20 => Holds("replay")
      <4>1. step \in {18, 19} => Settled(18)
        BY <2>1, DiscardIs DEF Settled
      <4>2. step = 19 => Settled(19)
        BY <2>1, DiscardIs DEF Settled
      <4>3. QED BY <2>3, <3>1, <3>3, <4>1, <4>2 DEF Undisturbed
    <3>5. \A n \in Public : Holds(n) => Holds(n)'
      BY <2>2, <2>3 DEF Holds, Exists, Doc, Content
    <3>6. /\ Settled(18)' => step' >= 18
          /\ Settled(19)' => step' >= 19
          /\ Settled(20)' => step' >= 20
      BY <2>1, <2>3, DiscardIs, ProgramIs DEF Settled
    <3>7. QED BY <2>2, <3>4, <3>5, <3>6 DEF Public
  <2>4. CASE Complete /\ step = 20 /\ step' = 26 /\ UNCHANGED <<names, files>>
    <3>1. Settled(18) /\ Settled(19) /\ Settled(20)
      BY <2>1, <2>4, DiscardIs DEF Settled
    <3>2. \A n \in Public : Holds(n) => Holds(n)'
      BY <2>2, <2>4 DEF Holds, Exists, Doc, Content
    <3>3. QED BY <2>2, <3>1, <3>2 DEF Undisturbed, Public
  <2>5. CASE step' \in 13..17
    <3>1. ~Settled(18)' /\ ~Settled(19)' /\ ~Settled(20)'
      BY <2>5, DiscardIs, ProgramIs DEF Settled
    <3>2. QED BY <2>2, <3>1
  <2>6. QED BY <1>1, <1>5, <2>1, <2>3, <2>4, <2>5, SettledSteps
<1>6. QED BY <1>3, <1>4, <1>5 DEF Next

(* Nothing that stands under a name is no document.                          *)
LEMMA DocumentsStay ==
  ASSUME PromotionType, \A n \in Names : Exists(n) => Doc(n) # None, [Next]_vars
  PROVE  (\A n \in Names : Exists(n) => Doc(n) # None)'
<1>1. \A n \in Names : names[n] # None => names[n] \in Numbers
  BY FileShapes DEF Exists
<1>2. ASSUME UNCHANGED files,
             \A n \in Names : names'[n] # None => \E m \in Names : names'[n] = names[m]
      PROVE  (\A n \in Names : Exists(n) => Doc(n) # None)'
  BY <1>2 DEF Exists, Doc
<1>3. CASE UNCHANGED <<names, files>>
  BY <1>2, <1>3
<1>4. CASE Meddle
  <2>1. /\ \A i \in Numbers : files[i].doc # None => files'[i].doc # None
        /\ \E n \in Public :
             /\ \A m \in Names \ {n} : names'[m] = names[m]
             /\ names'[n] \in {names[n], None, Len(files) + 1}
             /\ names'[n] = Len(files) + 1 => files'[names'[n]].doc # None
    BY <1>4, MeddleEffect
  <2>2. QED BY <1>1, <2>1 DEF Exists, Doc
<1>5. CASE WriteNew
  <2>1. CASE Stays
    BY <1>3, <2>1 DEF Stays
  <2>2. CASE \E doc \in {Content(Name), Torn} : Put(Name, doc, TRUE)
    <3>1. PICK doc \in {Content(Name), Torn} : Put(Name, doc, TRUE)
      BY <2>2
    <3>2. At("write") /\ UNCHANGED case /\ case \in Cases
      BY <1>5 DEF WriteNew, Held, PromotionType
    <3>3. doc \in Documents(case) /\ doc # None /\ Name \in Names /\ TRUE \in BOOLEAN
      BY <3>2, ContentIsDocument, Operation, PromotionAssumption
    <3>4. /\ \A i \in Numbers : files'[i] = files[i]
          /\ files'[names'[Name]] = File(doc, TRUE)
          /\ \A m \in Names \ {Name} : names'[m] = names[m]
      BY <3>1, <3>2, <3>3, PutFile
    <3>5. files'[names'[Name]].doc # None
      BY <3>3, <3>4 DEF File
    <3>6. ASSUME NEW n \in Names, Exists(n)' PROVE Doc(n)' # None
      BY <1>1, <3>4, <3>5, <3>6 DEF Exists, Doc
    <3>7. QED BY <3>6
  <2>3. QED BY <1>5, <2>1, <2>2 DEF WriteNew
<1>6. CASE WriteUnlink \/ Quarantine \/ RemoveVerified \/ RefuseUnverified \/ Restore
  <2>1. /\ Name \in Names /\ "quarantine" \in Names
        /\ names \in [Names -> {None} \cup Numbers]
    BY <1>6, Operation, RemovalSteps, NamesAre
       DEF WriteUnlink, Quarantine, RemoveVerified, RefuseUnverified, Restore, PromotionType
  <2>2. UNCHANGED files
    BY <1>6 DEF WriteUnlink, Quarantine, RemoveVerified, RefuseUnverified, Restore, Stays,
      Gone, Strand
  <2>3. \/ UNCHANGED names
        \/ \E n \in Names : names' = [names EXCEPT ![n] = None]
        \/ names' = [names EXCEPT !["quarantine"] = names[Name], ![Name] = None]
        \/ names' = [names EXCEPT ![Name] = names["quarantine"], !["quarantine"] = None]
    BY <1>6, <2>1 DEF WriteUnlink, Quarantine, RemoveVerified, RefuseUnverified, Restore,
      Stays, Gone, Strand
  <2>4. \A n \in Names : names'[n] # None => \E m \in Names : names'[n] = names[m]
    BY <2>1, <2>3
  <2>5. QED BY <1>2, <2>2, <2>4
<1>7. Take \/ WriteSeen \/ WriteCleanUp \/ Own \/ Replay \/ Compare \/ Complete \/ Skip
        => UNCHANGED <<names, files>>
  BY DEF Take, WriteSeen, WriteCleanUp, Own, Replay, Compare, Complete, Skip, Stays, directory
<1>8. ((Edit \/ Collect) /\ Others) \/ Review \/ UNCHANGED vars => UNCHANGED <<names, files>>
  BY ReviewLeaves DEF Others, directory, vars
<1>9. QED
  BY <1>3, <1>4, <1>5, <1>6, <1>7, <1>8 DEF Next, Promote

(* The three files of a promotion that completed undisturbed.                *)
LEMMA CompletedFiles ==
  ASSUME ReviewInv, Settled(26)
  PROVE  /\ bundle \in OwnBundles /\ stranded = {}
         /\ {n \in Public : Exists(n)} = {"manifest", "bundle", "replay"}
         /\ Doc("bundle") = bundle /\ Doc("replay") = ReportOf(bundle.status)
         /\ Doc("manifest") = ManifestOf(bundle, ReportOf(bundle.status), bundle.status)
         /\ \A n \in {"manifest", "bundle", "replay"} : Exists(n) /\ Doc(n).kind = n
         /\ bundle.status # "invalid"
<1>1. Settled(13) /\ Settled(18) /\ Settled(19) /\ Settled(20)
  BY DiscardIs, ProgramIs DEF Settled
<1>2. /\ bundle \in OwnBundles /\ stranded = {} /\ ~Exists("pending")
      /\ Holds("manifest") /\ Holds("bundle") /\ Holds("replay")
  BY <1>1 DEF ReviewInv, Undisturbed
<1>3. PICK v \in Verdicts : bundle = BundleOf("own", v)
  BY <1>2 DEF OwnBundles
<1>4. bundle.status = v /\ v # "invalid" /\ bundle.kind = "bundle"
  BY <1>3 DEF BundleOf, Verdicts
<1>5. /\ Content("bundle") = bundle /\ Content("replay") = ReportOf(bundle.status)
      /\ Content("manifest") = ManifestOf(bundle, ReportOf(bundle.status), bundle.status)
  BY DEF Content
<1>6. /\ Content("replay").kind = "replay"
      /\ Content("manifest").kind = "manifest"
  BY <1>5 DEF ReportOf, ManifestOf
<1>7. QED
  BY <1>2, <1>4, <1>5, <1>6 DEF Holds, Public

(* What is read of a file that is a manifest is one.                         *)
LEMMA ManifestsAre ==
  ASSUME PromotionType, NEW n \in Names, Exists(n), Doc(n) # None, Doc(n).kind = "manifest"
  PROVE  Doc(n) = ManifestOf(Doc(n).bundle, Doc(n).replay, Doc(n).status)
<1>1. files[names[n]] \in AnyFile /\ case \in Cases
  BY FileShapes, ElementOfSeq DEF PromotionType, Numbers
<1>2. Doc(n) \in Documents(case)
  BY <1>1 DEF AnyFile, Doc
<1>3. QED BY <1>1, <1>2, PromotionAssumption

(* A step of the review, by what it leaves in review.                        *)
ReadSoFar(r) ==
  /\ r = [at |-> r.at, manifest |-> r.manifest, bundle |-> r.bundle, replay |-> r.replay]
  /\ r.at \in {"start", "manifest", "refused"} \cup ManifestRead
  /\ r.at \in ManifestRead =>
       r.manifest = ManifestOf(r.manifest.bundle, r.manifest.replay, r.manifest.status)
  /\ r.at \in ReplayRead => r.replay # None
  /\ r.at \in {"audit", "accepted"} =>
       r.manifest.bundle = r.bundle /\ r.manifest.replay = r.replay

ReadOfCompleted(r) ==
  /\ r.at # "refused"
  /\ r.at \in ManifestRead => r.manifest = Doc("manifest")
  /\ r.at \in BundleRead => r.bundle = bundle
  /\ r.at \in ReplayRead => r.replay = Doc("replay")

Accepted(r) ==
  r.at = "accepted" =>
    /\ r.replay = ReportOf(r.bundle.status)
    /\ r.manifest = ManifestOf(r.bundle, r.replay, r.bundle.status)

LEMMA ReadStep ==
  ASSUME ReviewInv, Review
  PROVE  /\ ReadSoFar(review') /\ Accepted(review') /\ step >= 25
         /\ Settled(26) /\ ~ReviewFails => ReadOfCompleted(review')
<1>1. /\ PromotionType /\ ReadShaped /\ Undisturbed
      /\ \A n \in Names : Exists(n) => Doc(n) # None
  BY DEF ReviewInv, ReportInv, LossInv, ReadShaped
<1>2. ReadSoFar(review) /\ (Settled(26) => ReadOfCompleted(review))
  BY <1>1, Zenon DEF ReadShaped, Undisturbed, ReadSoFar, ReadOfCompleted
<1>3. review.at # "start" => step >= 25
  BY <1>1, ProgramIs DEF Undisturbed
<1>4. ASSUME Ends("refused") PROVE ReadSoFar(review') /\ Accepted(review')
  <2>1. review'.at = "refused"
        /\ review' = [at |-> review'.at, manifest |-> review'.manifest,
                      bundle |-> review'.bundle, replay |-> review'.replay]
    BY <1>4 DEF Ends
  <2>2. QED
    BY <2>1 DEF ReadSoFar, Accepted, ManifestRead, BundleRead, ReplayRead
<1>5. CASE ListFiles
  <2>1. step >= 25 /\ review.at = "start"
    BY <1>5, ProgramIs DEF ListFiles
  <2>2. CASE review' = [review EXCEPT !.at = "manifest"]
    <3>1. review'.at = "manifest"
          /\ review' = [at |-> review'.at, manifest |-> review'.manifest,
                        bundle |-> review'.bundle, replay |-> review'.replay]
      BY <1>2, <2>2 DEF ReadSoFar
    <3>2. QED
      BY <2>1, <3>1 DEF ReadSoFar, Accepted, ReadOfCompleted, ManifestRead, BundleRead, ReplayRead
  <2>3. CASE Ends("refused") /\ ~Settled(26)
    BY <1>4, <2>1, <2>3
  <2>4. QED BY <1>5, <2>2, <2>3, CompletedFiles DEF ListFiles
<1>6. CASE ReviewFails
  BY <1>3, <1>4, <1>6 DEF ReviewFails
<1>7. CASE ReadManifest
  <2>1. review.at = "manifest" /\ "manifest" \in Names
    BY <1>7, NamesAre DEF ReadManifest
  <2>2. CASE /\ Exists("manifest") /\ Doc("manifest").kind = "manifest"
             /\ review' = [review EXCEPT !["manifest"] = Doc("manifest"), !.at = "bundle"]
    <3>1. review' = [at |-> "bundle", manifest |-> Doc("manifest"),
                     bundle |-> review.bundle, replay |-> review.replay]
      BY <1>2, <2>2 DEF ReadSoFar
    <3>2. review'.manifest = Doc("manifest")
          /\ Doc("manifest") = ManifestOf(Doc("manifest").bundle, Doc("manifest").replay,
                                          Doc("manifest").status)
      BY <1>1, <2>1, <2>2, <3>1, ManifestsAre
    <3>3. QED
      BY <1>3, <2>1, <3>1, <3>2
         DEF ReadSoFar, Accepted, ReadOfCompleted, ManifestRead, BundleRead, ReplayRead
  <2>3. CASE Ends("refused") /\ ~Settled(26)
    BY <1>3, <1>4, <2>1, <2>3
  <2>4. QED BY <1>7, <2>2, <2>3, CompletedFiles DEF ReadManifest, ReadFile
<1>8. CASE ReadBundle
  <2>1. review.at = "bundle"
    BY <1>8 DEF ReadBundle
  <2>2. CASE review' = [review EXCEPT !["bundle"] = Doc("bundle"), !.at = "replay"]
    <3>1. review' = [at |-> "replay", manifest |-> review.manifest,
                     bundle |-> Doc("bundle"), replay |-> review.replay]
      BY <1>2, <2>2 DEF ReadSoFar
    <3>2. QED
      BY <1>2, <1>3, <2>1, <3>1, CompletedFiles
         DEF ReadSoFar, Accepted, ReadOfCompleted, ManifestRead, BundleRead, ReplayRead
  <2>3. CASE Ends("refused") /\ ~Settled(26)
    BY <1>3, <1>4, <2>1, <2>3
  <2>4. QED BY <1>8, <2>2, <2>3, CompletedFiles DEF ReadBundle, ReadFile
<1>9. CASE ReadReplay
  <2>1. review.at = "replay" /\ "replay" \in Names
    BY <1>9, NamesAre DEF ReadReplay
  <2>2. CASE Exists("replay") /\ review' = [review EXCEPT !["replay"] = Doc("replay"), !.at = "digests"]
    <3>1. review' = [at |-> "digests", manifest |-> review.manifest,
                     bundle |-> review.bundle, replay |-> Doc("replay")]
      BY <1>2, <2>2 DEF ReadSoFar
    <3>2. Doc("replay") # None
      BY <1>1, <2>1, <2>2
    <3>3. QED
      BY <1>2, <1>3, <2>1, <3>1, <3>2
         DEF ReadSoFar, Accepted, ReadOfCompleted, ManifestRead, BundleRead, ReplayRead
  <2>3. CASE Ends("refused") /\ ~Settled(26)
    BY <1>3, <1>4, <2>1, <2>3
  <2>4. QED BY <1>9, <2>2, <2>3, CompletedFiles DEF ReadReplay, ReadFile
<1>10. CASE CompareDigests
  <2>1. review.at = "digests"
    BY <1>10 DEF CompareDigests
  <2>2. CASE /\ review.manifest.bundle = review.bundle
             /\ review.manifest.replay = review.replay
             /\ review' = [review EXCEPT !.at = "audit"]
    <3>1. review' = [at |-> "audit", manifest |-> review.manifest,
                     bundle |-> review.bundle, replay |-> review.replay]
      BY <1>2, <2>2 DEF ReadSoFar
    <3>2. QED
      BY <1>2, <1>3, <2>1, <2>2, <3>1
         DEF ReadSoFar, Accepted, ReadOfCompleted, ManifestRead, BundleRead, ReplayRead
  <2>3. CASE /\ Ends("refused")
             /\ ~(/\ review.manifest.bundle = review.bundle
                  /\ review.manifest.replay = review.replay)
    <3>1. ~Settled(26)
      <4> SUFFICES ASSUME Settled(26) PROVE FALSE
        OBVIOUS
      <4>1. /\ review.manifest = Doc("manifest") /\ review.bundle = bundle
            /\ review.replay = Doc("replay")
        BY <1>2, <2>1 DEF ReadOfCompleted, ManifestRead, BundleRead, ReplayRead
      <4>2. QED BY <2>3, <4>1, CompletedFiles DEF ManifestOf
    <3>2. QED BY <1>3, <1>4, <2>1, <2>3, <3>1
  <2>4. QED BY <1>10, <2>2, <2>3 DEF CompareDigests
<1>11. CASE Judge
  <2>1. review.at = "audit"
    BY <1>11 DEF Judge
  <2>2. /\ review.manifest = ManifestOf(review.manifest.bundle, review.manifest.replay,
                                        review.manifest.status)
        /\ review.manifest.bundle = review.bundle /\ review.manifest.replay = review.replay
        /\ review.replay # None
    BY <1>2, <2>1 DEF ReadSoFar, ManifestRead, BundleRead, ReplayRead
  <2>3. CASE /\ Ends("accepted") /\ Audited = review.replay
             /\ review.manifest.status = review.replay.status
    <3>1. review' = [at |-> "accepted", manifest |-> review.manifest,
                     bundle |-> review.bundle, replay |-> review.replay]
      BY <2>3 DEF Ends
    <3>2. review.replay = ReportOf(review.bundle.status)
      BY <2>2, <2>3 DEF Audited
    <3>3. review.replay.status = review.bundle.status
      BY <3>2 DEF ReportOf
    <3>4. review.manifest = ManifestOf(review.bundle, review.replay, review.bundle.status)
      BY <2>2, <2>3, <3>3
    <3>5. ReadSoFar(review') /\ Accepted(review')
      BY <2>2, <3>1, <3>2, <3>4
         DEF ReadSoFar, Accepted, ManifestRead, BundleRead, ReplayRead
    <3>6. Settled(26) => ReadOfCompleted(review')
      BY <1>2, <2>1, <3>1 DEF ReadOfCompleted, ManifestRead, BundleRead, ReplayRead
    <3>7. QED BY <1>3, <2>1, <3>5, <3>6
  <2>4. CASE /\ Ends("refused")
             /\ ~(Audited = review.replay /\ review.manifest.status = review.replay.status)
    <3>1. ~Settled(26)
      <4> SUFFICES ASSUME Settled(26) PROVE FALSE
        OBVIOUS
      <4>1. /\ review.manifest = Doc("manifest") /\ review.bundle = bundle
            /\ review.replay = Doc("replay")
        BY <1>2, <2>1 DEF ReadOfCompleted, ManifestRead, BundleRead, ReplayRead
      <4>2. Audited = ReportOf(bundle.status)
        BY <4>1, CompletedFiles DEF Audited
      <4>3. QED BY <2>4, <4>1, <4>2, CompletedFiles DEF ManifestOf, ReportOf
    <3>2. QED BY <1>3, <1>4, <2>1, <2>4, <3>1
  <2>5. QED BY <1>11, <2>3, <2>4 DEF Judge
<1>12. QED
  BY <1>5, <1>6, <1>7, <1>8, <1>9, <1>10, <1>11 DEF Review

(* What stays when a step does not belong to the review.                     *)
LEMMA ReviewStands ==
  ASSUME ReviewInv, [Next]_vars, UNCHANGED review,
         \/ UNCHANGED <<names, files, step, bundle, mishaps>>
         \/ review.at = "start"
         \/ UNCHANGED step /\ mishaps' > 0
  PROVE  Undisturbed' /\ ReadShaped' /\ ReviewIsRight'
<1>1. /\ PromotionType /\ ReadShaped /\ Undisturbed /\ ReviewIsRight /\ mishaps \in Nat
      /\ ReportInv /\ \A n \in Names : Exists(n) => Doc(n) # None
  BY DEF ReviewInv, ReportInv, LossInv, ReadShaped, PromotionType
<1>2. step \in 1..26 /\ Len(Program) = 25 /\ Discard = 21
  BY <1>1, ProgramIs, DiscardIs DEF PromotionType
<1>3. /\ Settled(13)' => bundle' \in OwnBundles /\ ~Exists("pending")' /\ stranded' = {}
      /\ Settled(18)' => Holds("manifest")'
      /\ Settled(19)' => Holds("bundle")'
      /\ Settled(20)' => Holds("replay")'
  BY <1>1, SettledNext
<1>4. (\A n \in Names : Exists(n) => Doc(n) # None)'
  BY <1>1, DocumentsStay
<1>5. ReadShaped'
  BY <1>1, <1>4, Zenon DEF ReadShaped
<1>6. CASE UNCHANGED <<names, files, step, bundle, mishaps>>
  <2>1. /\ Settled(26)' = Settled(26)
        /\ Doc("manifest")' = Doc("manifest") /\ Doc("replay")' = Doc("replay")
    BY <1>6 DEF Settled, Doc
  <2>2. (Settled(26) =>
           /\ review.at # "refused"
           /\ review.at \in ManifestRead => review.manifest = Doc("manifest")
           /\ review.at \in BundleRead => review.bundle = bundle
           /\ review.at \in ReplayRead => review.replay = Doc("replay"))'
    BY <1>1, <1>6, <2>1 DEF Undisturbed
  <2>3. (review.at # "start" => step >= Len(Program))'
    BY <1>1, <1>6 DEF Undisturbed
  <2>4. Undisturbed'
    BY <1>3, <2>2, <2>3 DEF Undisturbed
  <2>5. ReviewIsRight'
    BY <1>1, <1>6 DEF ReviewIsRight
  <2>6. QED BY <1>5, <2>4, <2>5
<1>7. CASE review.at = "start"
  <2>1. /\ review'.at = "start" /\ review'.at \notin ManifestRead
        /\ review'.at \notin BundleRead /\ review'.at \notin ReplayRead
        /\ review'.at \notin {"accepted", "refused"}
    BY <1>7 DEF ManifestRead, BundleRead, ReplayRead
  <2>2. Undisturbed'
    BY <1>3, <2>1 DEF Undisturbed
  <2>3. ReviewIsRight'
    BY <2>1 DEF ReviewIsRight
  <2>4. QED BY <1>5, <2>2, <2>3
<1>8. CASE UNCHANGED step /\ mishaps' > 0
  <2>1. ~Settled(26)'
    BY <1>8 DEF Settled
  <2>2. (review.at # "start" => step >= Len(Program))'
    BY <1>1, <1>8 DEF Undisturbed
  <2>3. Undisturbed'
    BY <1>3, <2>1, <2>2 DEF Undisturbed
  <2>4. ReviewIsRight'
    BY <1>1, <1>8 DEF ReviewIsRight
  <2>5. QED BY <1>5, <2>3, <2>4
<1>9. QED BY <1>6, <1>7, <1>8

(* A promotion takes a step only before its review starts.                   *)
LEMMA PromotesFirst ==
  ASSUME ReviewInv, Promote
  PROVE  review.at = "start"
<1>1. \E op \in {"collect", "write", "own", "replay", "compare", "complete", "remove",
                 "discard"} : At(op)
  BY DEF Promote, Take, WriteNew, WriteSeen, WriteCleanUp, WriteUnlink, Own, Replay, Compare,
     Complete, Skip, Quarantine, RemoveVerified, RefuseUnverified, Restore, Removing
<1>2. step \in 1..24 /\ Len(Program) = 25
  BY <1>1, ProgramIs DEF At
<1>3. QED BY <1>2 DEF ReviewInv, Undisturbed

(* A step of the review.                                                     *)
LEMMA ReviewGoesOn ==
  ASSUME ReviewInv, [Next]_vars, Review
  PROVE  Undisturbed' /\ ReadShaped' /\ ReviewIsRight'
<1>1. /\ PromotionType /\ ReportInv /\ Undisturbed /\ mishaps \in Nat
      /\ \A n \in Names : Exists(n) => Doc(n) # None
  BY DEF ReviewInv, ReportInv, LossInv, ReadShaped, PromotionType
<1>2. step \in 1..26 /\ Len(Program) = 25 /\ Discard = 21
  BY <1>1, ProgramIs, DiscardIs DEF PromotionType
<1>3. /\ UNCHANGED <<names, files, step, bundle>>
      /\ UNCHANGED mishaps \/ (Mishap /\ ReviewFails)
  BY ReviewLeaves DEF promotion
<1>4. /\ ReadSoFar(review') /\ Accepted(review') /\ step >= 25
      /\ Settled(26) /\ ~ReviewFails => ReadOfCompleted(review')
  BY ReadStep
<1>5. Settled(26)' => Settled(26) /\ ~ReviewFails
  <2>1. ReviewFails => Mishap
    BY DEF ReviewFails
  <2>2. mishaps' = 0 => mishaps = 0 /\ ~Mishap
    BY <1>1, NobodyDisturbs
  <2>3. QED BY <1>3, <2>1, <2>2 DEF Settled
<1>6. Doc("manifest")' = Doc("manifest") /\ Doc("replay")' = Doc("replay")
  BY <1>3 DEF Doc
<1>7. (Settled(26) =>
         /\ review.at # "refused"
         /\ review.at \in ManifestRead => review.manifest = Doc("manifest")
         /\ review.at \in BundleRead => review.bundle = bundle
         /\ review.at \in ReplayRead => review.replay = Doc("replay"))'
  BY <1>3, <1>4, <1>5, <1>6 DEF ReadOfCompleted
<1>8. Undisturbed'
  <2>1. /\ Settled(13)' => bundle' \in OwnBundles /\ ~Exists("pending")' /\ stranded' = {}
        /\ Settled(18)' => Holds("manifest")'
        /\ Settled(19)' => Holds("bundle")'
        /\ Settled(20)' => Holds("replay")'
    BY <1>1, SettledNext
  <2>2. (review.at # "start" => step >= Len(Program))'
    BY <1>2, <1>3, <1>4
  <2>3. QED BY <1>7, <2>1, <2>2 DEF Undisturbed
<1>9. ReadShaped'
  <2>1. (\A n \in Names : Exists(n) => Doc(n) # None)'
    BY <1>1, DocumentsStay
  <2>2. QED BY <1>4, <2>1, Zenon DEF ReadShaped, ReadSoFar
<1>10. ReviewIsRight'
  <2>1. review'.at = "refused" => step' <= 25 \/ mishaps' > 0
    <3>1. mishaps' \in Nat
      BY <1>1, <1>3, MishapsCount DEF NoMishap
    <3>2. step' = 26 /\ mishaps' = 0 => Settled(26)'
      BY <1>2 DEF Settled
    <3>3. QED BY <1>2, <1>3, <1>4, <1>5, <3>1, <3>2 DEF ReadOfCompleted
  <2>2. QED BY <1>2, <1>4, <2>1 DEF ReviewIsRight, Accepted
<1>11. QED BY <1>8, <1>9, <1>10

LEMMA ReviewStarts == Init => Undisturbed /\ ReadShaped /\ ReviewIsRight
<1> SUFFICES ASSUME Init PROVE Undisturbed /\ ReadShaped /\ ReviewIsRight
  OBVIOUS
<1>1. /\ step \in {1, 25} /\ mishaps = 0
      /\ review = [at |-> "start", manifest |-> None, bundle |-> None, replay |-> None]
  BY ProgramIs DEF Init, PromotionInit, ReviewInit
<1>2. /\ review.at = "start" /\ review.at \notin ManifestRead
      /\ review.at \notin BundleRead /\ review.at \notin ReplayRead
      /\ review.at \notin {"accepted", "refused", "audit"}
  BY <1>1 DEF ManifestRead, BundleRead, ReplayRead
<1>3. \A i \in {13, 18, 19, 20, 26} : ~Settled(i)
  BY <1>1, ProgramIs, DiscardIs DEF Settled
<1>4. Undisturbed
  BY <1>2, <1>3 DEF Undisturbed
<1>5. ASSUME NEW n \in Names, Exists(n) PROVE Doc(n) # None
  <2>1. case.mode = "review"
    BY <1>5 DEF Init, PromotionInit, Exists
  <2>2. /\ files = [i \in DOMAIN Saved |-> File(case.saved[Saved[i]], FALSE)]
        /\ names[n] = IF \E i \in DOMAIN Saved : Saved[i] = n /\ case.saved[n] # None
                      THEN CHOOSE i \in DOMAIN Saved : Saved[i] = n
                      ELSE None
    BY <2>1 DEF Init, PromotionInit
  <2>3. PICK i \in DOMAIN Saved : Saved[i] = n /\ case.saved[n] # None
    BY <1>5, <2>2 DEF Exists
  <2>4. names[n] \in DOMAIN Saved /\ Saved[names[n]] = n
    BY <2>2, <2>3
  <2>5. Doc(n) = case.saved[n]
    BY <2>2, <2>4 DEF Doc, File
  <2>6. QED BY <2>3, <2>5
<1>6. ReadShaped
  BY <1>1, <1>2, <1>5, Zenon DEF ReadShaped
<1>7. ReviewIsRight
  BY <1>2 DEF ReviewIsRight
<1>8. QED BY <1>4, <1>6, <1>7

LEMMA ReviewAlways == Spec => []ReviewInv
<1>1. Init => Undisturbed /\ ReadShaped /\ ReviewIsRight
  BY ReviewStarts
<1>2. ReviewInv /\ [Next]_vars => Undisturbed' /\ ReadShaped' /\ ReviewIsRight'
  <2> SUFFICES ASSUME ReviewInv, [Next]_vars
               PROVE  Undisturbed' /\ ReadShaped' /\ ReviewIsRight'
    OBVIOUS
  <2>1. CASE Review
    BY <2>1, ReviewGoesOn
  <2>2. CASE Promote /\ UNCHANGED review
    BY <2>2, PromotesFirst, ReviewStands
  <2>3. CASE Meddle /\ UNCHANGED review
    <3>1. UNCHANGED step /\ Mishap /\ mishaps \in Nat
      BY <2>3 DEF Meddle, promotion, ReviewInv, ReportInv, LossInv, PromotionType
    <3>2. mishaps' > 0
      BY <3>1 DEF Mishap
    <3>3. QED BY <2>3, <3>1, <3>2, ReviewStands
  <2>4. CASE ((Edit \/ Collect) /\ Others) \/ UNCHANGED vars
    BY <2>4, ReviewStands DEF Others, vars, directory, promotion
  <2>5. QED BY <2>1, <2>2, <2>3, <2>4 DEF Next
<1>3. QED
  <2>1. ReportInv /\ Undisturbed /\ ReadShaped /\ ReviewIsRight => ReviewInv
    BY DEF ReviewInv
  <2>2. QED BY <1>1, <1>2, <2>1, ReportAlways, PTL DEF Spec

(* reviewSavedEvidence accepts a directory only when the verdict in it is    *)
(* the one the audit of its bundle gives, whoever wrote it and whatever was  *)
(* exchanged between its reads; and it refuses nothing that runPromotion     *)
(* completed while nobody disturbed it.                                      *)
THEOREM ReviewIsAlwaysRight == Spec => []ReviewIsRight
<1>1. ReviewInv => ReviewIsRight
  BY DEF ReviewInv
<1>2. QED BY <1>1, ReviewAlways, PTL
=============================================================================
