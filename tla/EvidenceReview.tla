---------------------------- MODULE EvidenceReview ----------------------------
(***************************************************************************)
(* reviewSavedEvidence of src/scripts/ta2-artifact-review.mjs, after the   *)
(* promotion or over a directory somebody else saved: the three files are  *)
(* read, compared with the manifest, and the bundle is audited again.      *)
(***************************************************************************)
EXTENDS EvidencePromotion

VARIABLE
  review  \* [at, manifest, bundle, replay]: where it is, and what it read

saved == <<case, collection, directory, promotion, lost>>

ReviewInit ==
  review = [at |-> "start", manifest |-> None, bundle |-> None, replay |-> None]

Ends(verdict) ==
  review' = [at |-> verdict, manifest |-> review.manifest,
             bundle |-> review.bundle, replay |-> review.replay]

Reviewing == review.at \notin {"accepted", "refused"}

(* readStableFile: like assertEvidenceOwnership, the bytes are those the     *)
(* name led to when the file was looked at for the last time.                *)
ReadFile(n, next) ==
  /\ IF Exists(n) /\ Doc(n).kind = n
     THEN review' = [review EXCEPT ![n] = Doc(n), !.at = next]
     ELSE Ends("refused")
  /\ UNCHANGED saved

(* The directory holds the three files and nothing else. *)
ListFiles ==
  /\ step >= Len(Program) /\ review.at = "start"
  /\ IF /\ {n \in Public : Exists(n)} = {"manifest", "bundle", "replay"}
        /\ stranded = {}
     THEN review' = [review EXCEPT !.at = "manifest"]
     ELSE Ends("refused")
  /\ UNCHANGED saved

ReadManifest == review.at = "manifest" /\ ReadFile("manifest", "bundle")
ReadBundle == review.at = "bundle" /\ ReadFile("bundle", "replay")
ReadReplay == review.at = "replay" /\ ReadFile("replay", "digests")

CompareDigests ==
  /\ review.at = "digests"
  /\ IF /\ review.manifest.bundle = review.bundle
        /\ review.manifest.replay = review.replay
     THEN review' = [review EXCEPT !.at = "audit"]
     ELSE Ends("refused")
  /\ UNCHANGED saved

(* Seeded fault: the child is not told the digest of the bundle. *)
AuditedUnpinned ==
  IF Exists("bundle") /\ Doc("bundle").kind = "bundle"
  THEN ReportOf(Doc("bundle").status) ELSE None

(* defaultReplayRunner: audit replay reads the bundle once more, pinned to   *)
(* the digest of the one read before, and fails on an invalid one.           *)
Audited ==
  IF /\ Exists("bundle") /\ Doc("bundle") = review.bundle
     /\ review.bundle.status # "invalid"
  THEN ReportOf(review.bundle.status) ELSE None

Judge ==
  /\ review.at = "audit"
  /\ Ends(IF Audited = review.replay
             /\ review.manifest.status = review.replay.status
          THEN "accepted" ELSE "refused")
  /\ UNCHANGED saved

(* A file that cannot be read, or changes while it is; a child that fails. *)
ReviewFails ==
  /\ Reviewing /\ review.at # "start"
  /\ Mishap /\ Ends("refused")
  /\ UNCHANGED <<case, collection, names, files, promotion, lost>>

Review ==
  \/ ListFiles \/ ReadManifest \/ ReadBundle \/ ReadReplay
  \/ CompareDigests \/ Judge \/ ReviewFails

-----------------------------------------------------------------------------
Init == CollectionInit /\ PromotionInit /\ ReviewInit

Others == UNCHANGED <<directory, promotion, lost, review>>

Next ==
  \/ (Edit \/ Collect) /\ Others
  \/ (Meddle \/ Promote) /\ UNCHANGED review
  \/ Review

vars == <<case, collection, directory, promotion, lost, review>>
Spec == Init /\ [][Next]_vars

-----------------------------------------------------------------------------
(* Properties *)

(* An accepted directory holds the verdict the audit of its bundle gives,    *)
(* whoever wrote it and whatever was exchanged during the review; and what a *)
(* promotion completed undisturbed is not refused.                           *)
ReviewIsRight ==
  /\ review.at = "accepted" =>
       /\ review.replay = ReportOf(review.bundle.status)
       /\ review.manifest =
            ManifestOf(review.bundle, review.replay, review.bundle.status)
  /\ review.at = "refused" => step <= Len(Program) \/ mishaps > 0
=============================================================================
