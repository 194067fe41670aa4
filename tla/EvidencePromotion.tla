--------------------------- MODULE EvidencePromotion ---------------------------
(***************************************************************************)
(* runPromotion of src/scripts/ta2-promotion.mjs: the bundle audit collect *)
(* wrote to its output is replayed twice and saved with its report and a   *)
(* manifest, in a directory where somebody else may put, replace,          *)
(* overwrite and remove files, and where a write or a removal may fail.    *)
(*                                                                         *)
(* A name of the directory leads to a file, a number that is never used    *)
(* again.  A document is a bundle, the report of one, or a manifest; those *)
(* of a kind have one size.  A digest is the document it is the digest of. *)
(***************************************************************************)
EXTENDS AuditCollection

CONSTANTS
  None,     \* no file, no document
  Forgeries \* [name -> documents somebody else may put there]

VARIABLES
  names, files,     \* the directory, and [doc, own, ver] of every file
  mishaps,          \* what somebody else did, and what failed, so far
  step, phase,      \* where runPromotion is, and where in its file operation
  bundle, replays,  \* the collected bundle, the outputs of the replays
  owned,            \* pendingEvidence, finalEvidence, ...: files it wrote
  stat,             \* the file the current operation looked at, and the
                    \* number of files there were
  stranded,         \* <<name, file>> left in a quarantine
  reported,         \* names whose cleanup is reported incomplete
  lost              \* history: files of others it removed after seeing them

directory == <<names, files, mishaps>>
promotion == <<step, phase, bundle, replays, owned, stat, stranded, reported>>

Public == {"pending", "bundle", "replay", "manifest"}
Names == Public \cup {"quarantine"}

BundleOf(run, status) == [kind |-> "bundle", run |-> run, status |-> status]
ReportOf(status) == [kind |-> "replay", status |-> status]
ManifestOf(b, r, status) ==
  [kind |-> "manifest", bundle |-> b, replay |-> r, status |-> status]
Torn == [kind |-> "torn"]

(* The calls of runPromotion, and of its catch block from Discard on. *)
Program ==
  << <<"collect", "pending">>,
     <<"write", "pending">>, <<"own", "pending">>,
     <<"replay", "pending">>, <<"own", "pending">>,
     <<"replay", "pending">>, <<"own", "pending">>, <<"compare", "pending">>,
     <<"write", "bundle">>, <<"own", "bundle">>, <<"own", "pending">>,
     <<"remove", "pending">>,
     <<"write", "replay">>, <<"own", "replay">>, <<"own", "bundle">>,
     <<"write", "manifest">>, <<"own", "manifest">>, <<"own", "bundle">>,
     <<"own", "replay">>, <<"complete", "manifest">>,
     <<"discard", "pending">>, <<"discard", "bundle">>, <<"discard", "replay">>,
     <<"discard", "manifest">>, <<"failed", "manifest">> >>
Discard == CHOOSE i \in DOMAIN Program : Program[i] = <<"discard", "pending">>

Saved == <<"bundle", "replay", "manifest">>
File(doc, own) == [doc |-> doc, own |-> own, ver |-> 0]

Verdicts == {"pass", "fail", "incomplete"}
OwnBundles == {BundleOf("own", v) : v \in Verdicts}

SavedDocuments(c) == {c.saved[n] : n \in {"bundle", "replay", "manifest"}} \ {None}

(* What a file of the directory may hold. *)
Documents(c) ==
  OwnBundles \cup {Torn}
  \cup {ReportOf(v) : v \in Verdicts}
  \cup {ManifestOf(BundleOf("own", v), ReportOf(v), v) : v \in Verdicts}
  \cup SavedDocuments(c)
  \cup UNION {Forgeries[n] : n \in Public}

(* None is no file and no document, and what parses as a manifest has the    *)
(* members of one and no more.                                               *)
ASSUME PromotionAssumption ==
  /\ None \notin Nat
  /\ \A c \in Cases :
       /\ None \notin Documents(c)
       /\ \A d \in Documents(c) :
            d.kind = "manifest" => d = ManifestOf(d.bundle, d.replay, d.status)

PromotionInit ==
  /\ IF case.mode = "review"
     THEN /\ files = [i \in DOMAIN Saved |-> File(case.saved[Saved[i]], FALSE)]
          /\ names = [n \in Names |->
                        IF \E i \in DOMAIN Saved :
                             Saved[i] = n /\ case.saved[n] # None
                        THEN CHOOSE i \in DOMAIN Saved : Saved[i] = n
                        ELSE None]
     ELSE files = <<>> /\ names = [n \in Names |-> None]
  /\ mishaps = 0
  /\ step = IF case.mode = "collect" THEN 1 ELSE Len(Program)
  /\ phase = "start"
  /\ bundle = None /\ replays = <<>>
  /\ owned = [n \in Public |-> None] /\ stat = None
  /\ stranded = {} /\ reported = {} /\ lost = {}

-----------------------------------------------------------------------------
(* The directory *)

Exists(n) == names[n] # None
Doc(n) == files[names[n]].doc

(* open with O_CREAT | O_EXCL, or a rename over the name. *)
Put(n, doc, own) ==
  /\ files' = Append(files, File(doc, own))
  /\ names' = [names EXCEPT ![n] = Len(files) + 1]

Gone(n) == names' = [names EXCEPT ![n] = None] /\ UNCHANGED files

Mishap == mishaps < case.mishaps /\ mishaps' = mishaps + 1

(* Somebody else puts a file there, overwrites it in place, or removes it. *)
Meddle ==
  /\ at = "taken"
  /\ Mishap
  /\ \E n \in Public :
       \/ \E doc \in Forgeries[n] : Put(n, doc, FALSE)
       \/ /\ Exists(n)
          /\ \E doc \in Forgeries[n] :
               files' = [files EXCEPT ![names[n]] =
                           [doc |-> doc, own |-> @.own, ver |-> @.ver + 1]]
          /\ UNCHANGED names
       \/ Exists(n) /\ Gone(n)
  /\ UNCHANGED <<case, collection, promotion, lost>>

-----------------------------------------------------------------------------
(* The steps of runPromotion *)

At(op) == step \in DOMAIN Program /\ Program[step][1] = op
Name == Program[step][2]

Go(i) == step' = i /\ phase' = "start" /\ stat' = None
Done == Go(step + 1)
(* An exception: of the body, or of one removal of the catch block. *)
Throw == Go(IF step < Discard THEN Discard ELSE step + 1)

Report(n) == reported' = reported \cup {n}

Stays == UNCHANGED <<names, files>>
NoMishap == UNCHANGED mishaps
Held == UNCHANGED <<case, collection, bundle, replays>>
Kept == UNCHANGED <<owned, stranded, reported, lost>>

(* The child's output; the rest of the collection no longer matters. *)
Take ==
  /\ At("collect") /\ at = "exited"
  /\ at' = "taken" /\ past' = <<>> /\ repository' = case.repository
  /\ id' = Unread /\ base' = Unread
  /\ seen' = [k \in 1..2 |-> NoSettings] /\ out' = NoBundle
  /\ IF out.bundle = NoBundle
     THEN Throw /\ UNCHANGED bundle
     ELSE Done /\ bundle' = BundleOf("own", out.report.status)
  /\ UNCHANGED <<case, directory, replays, owned, stranded, reported, lost>>

(* What the run means to write under a name. *)
Content(n) ==
  CASE n \in {"pending", "bundle"} -> bundle
    [] n = "replay" -> ReportOf(bundle.status)
    [] n = "manifest" -> ManifestOf(bundle, ReportOf(bundle.status), bundle.status)

(* writeEvidenceFile: the file must be new.  A failing write leaves part of  *)
(* it, which goes through the first clean-up.                                *)
WriteNew ==
  /\ At("write") /\ phase = "start"
  /\ \/ Exists(Name) /\ Throw /\ Stays /\ NoMishap
     \/ /\ ~Exists(Name)
        /\ stat' = [ino |-> Len(files) + 1, ver |-> 0, known |-> Len(files)]
        /\ UNCHANGED step
        /\ \/ Put(Name, Content(Name), TRUE) /\ NoMishap /\ phase' = "written"
           \/ Put(Name, Torn, TRUE) /\ Mishap /\ phase' = "partial"
  /\ Held /\ Kept

(* The second lstat: what stands there now, if its size fits, is taken for   *)
(* the file; otherwise, or when the lstat fails, the second clean-up.        *)
Fits == Exists(Name) /\ Doc(Name).kind = Content(Name).kind

WriteSeen ==
  /\ At("write") /\ phase = "written"
  /\ \/ /\ Fits /\ NoMishap
        /\ owned' = [owned EXCEPT ![Name] = names[Name]] /\ Done
     \/ /\ IF Fits THEN Mishap ELSE NoMishap
        /\ phase' = "rejected" /\ UNCHANGED <<step, stat, owned>>
  /\ Stays /\ Held /\ UNCHANGED <<stranded, reported, lost>>

(* The lstat before the unlink of a clean-up.  After a failed write the      *)
(* identity is enough; the second clean-up wants the file unchanged.         *)
WriteCleanUp ==
  /\ At("write") /\ phase \in {"partial", "rejected"}
  /\ IF /\ Exists(Name) /\ names[Name] = stat.ino
        /\ phase = "rejected" => files[stat.ino].ver = stat.ver
     THEN /\ phase' = "unlink" /\ stat' = [stat EXCEPT !.known = Len(files)]
          /\ UNCHANGED <<step, reported>>
     ELSE /\ Throw
          /\ IF phase = "rejected" \/ ~Exists(Name)
             THEN Report(Name) ELSE UNCHANGED reported
  /\ Stays /\ NoMishap /\ Held /\ UNCHANGED <<owned, stranded, lost>>

(* History: a file of somebody else with bytes of its own that was there     *)
(* when the run last looked is gone for good.                                *)
Loses(ino, known) ==
  lost' = lost \cup {i \in {ino} \ {None} :
                       i <= known /\ ~files[i].own /\ files[i].doc # Content(Name)}

WriteUnlink ==
  /\ At("write") /\ phase = "unlink"
  /\ \/ Exists(Name) /\ NoMishap /\ Gone(Name) /\ UNCHANGED reported
     \/ Exists(Name) /\ Mishap /\ Stays /\ Report(Name)
     \/ ~Exists(Name) /\ NoMishap /\ Stays /\ Report(Name)
  /\ Loses(names[Name], stat.known)
  /\ Throw /\ Held /\ UNCHANGED <<owned, stranded>>

(* assertEvidenceOwnership.  The file is looked at, opened, read and looked  *)
(* at again; all of it agrees only if the name led to that file with those   *)
(* bytes when it was looked at again, so that is the step.                   *)
Owns(n, expected) ==
  expected # None /\ names[n] = expected /\ Doc(n) = Content(Name)

Own ==
  /\ At("own")
  /\ IF Owns(Name, owned[Name]) THEN Done ELSE Throw
  /\ Stays /\ NoMishap /\ Held /\ Kept

(* The child audits the bundle it reads, pinned to the collected one. *)
Replay ==
  /\ At("replay")
  /\ replays' = Append(replays, IF Exists("pending") /\ Doc("pending") = bundle
                                THEN bundle.status ELSE "error")
  /\ Done
  /\ Stays /\ NoMishap /\ UNCHANGED <<case, collection, bundle>> /\ Kept

(* The exit codes, the status and the two reports agree. *)
Compare ==
  /\ At("compare")
  /\ IF replays = <<bundle.status, bundle.status>> THEN Done ELSE Throw
  /\ replays' = <<>>
  /\ Stays /\ NoMishap /\ UNCHANGED <<case, collection, bundle>> /\ Kept

-----------------------------------------------------------------------------
(* unlinkOwnedEvidenceFile, in the body and in the catch block *)

Removing == At("remove") \/ (At("discard") /\ owned[Name] # None)

Skip ==
  /\ At("discard") /\ owned[Name] = None
  /\ Done
  /\ Stays /\ NoMishap /\ Held /\ Kept

(* Seeded fault: a removal that fails is not reported. *)
GiveUpQuietly == Throw /\ UNCHANGED reported

(* tryRemoveEvidenceFile reports what the body only throws. *)
GiveUp ==
  /\ Throw
  /\ IF At("discard") THEN Report(Name) ELSE UNCHANGED reported

(* The file is moved out of the way, under a name nobody else knows. *)
Quarantine ==
  /\ Removing /\ phase = "start"
  /\ \/ /\ Exists(Name) /\ NoMishap /\ phase' = "verify"
        /\ names' = [names EXCEPT !["quarantine"] = names[Name], ![Name] = None]
        /\ UNCHANGED <<files, step, stat, reported>>
     \/ /\ IF Exists(Name) THEN Mishap ELSE NoMishap
        /\ GiveUp /\ Stays
  /\ Held /\ UNCHANGED <<owned, stranded, lost>>

(* Seeded fault: the file is recognised without its bytes. *)
VerifiedUnread == names["quarantine"] = owned[Name]

Verified == Owns("quarantine", owned[Name])

Strand ==
  /\ Gone("quarantine")
  /\ stranded' = stranded \cup {<<Name, names["quarantine"]>>}

(* A file of its own is removed, even when another took the public name. *)
RemoveVerified ==
  /\ Removing /\ phase = "verify" /\ Verified
  /\ Loses(names["quarantine"], Len(files))
  /\ \/ /\ ~Exists(Name) /\ NoMishap /\ Done
        /\ Gone("quarantine") /\ owned' = [owned EXCEPT ![Name] = None]
        /\ UNCHANGED <<stranded, reported>>
     \/ /\ (IF Exists(Name) THEN NoMishap ELSE Mishap)
        /\ Gone("quarantine") /\ GiveUp /\ UNCHANGED <<owned, stranded>>
     \/ Mishap /\ Strand /\ GiveUp /\ UNCHANGED owned
  /\ Held

(* restoreQuarantinedEvidenceFile: another file goes back to its name, if    *)
(* nothing stands there when it looks; a look that fails leaves it.          *)
RefuseUnverified ==
  /\ Removing /\ phase = "verify" /\ ~Verified
  /\ \/ /\ IF Exists(Name) THEN NoMishap ELSE Mishap
        /\ GiveUp /\ Strand
     \/ /\ ~Exists(Name) /\ NoMishap
        /\ phase' = "restore"
        /\ stat' = [ino |-> None, ver |-> 0, known |-> Len(files)]
        /\ Stays /\ UNCHANGED <<step, stranded, reported>>
  /\ Held /\ UNCHANGED <<owned, lost>>

(* What came to the name since it looked is overwritten; a rename that fails *)
(* is swallowed and leaves the file in the quarantine.                       *)
Restore ==
  /\ Removing /\ phase = "restore"
  /\ \/ /\ NoMishap
        /\ names' = [names EXCEPT ![Name] = names["quarantine"], !["quarantine"] = None]
        /\ Loses(names[Name], stat.known)
        /\ UNCHANGED <<files, stranded>>
     \/ Mishap /\ Strand /\ UNCHANGED lost
  /\ GiveUp /\ Held /\ UNCHANGED owned

Complete ==
  /\ At("complete")
  /\ Go(Len(Program) + 1)
  /\ Stays /\ NoMishap /\ Held /\ Kept

Promote ==
  \/ Take \/ WriteNew \/ WriteSeen \/ WriteCleanUp \/ WriteUnlink
  \/ Own \/ Replay \/ Compare \/ Complete
  \/ Skip \/ Quarantine \/ RemoveVerified \/ RefuseUnverified \/ Restore

-----------------------------------------------------------------------------
(* Properties *)

(* Cleaning up after a failure never costs somebody else a file that was     *)
(* there when the run last looked: the quarantine of unlinkOwnedEvidenceFile *)
(* and the identity checks of writeEvidenceFile see to it.  (What comes to a *)
(* name between such a look and the next call can be lost: the code has no   *)
(* call that would look and move at once.)                                   *)
LosesNothingSeen == lost = {}

(* After a failure a file of the run that is still in the directory, under a *)
(* public name or in a quarantine, is named in the message: "TA-2 cleanup    *)
(* incomplete".                                                              *)
LeavesNothingUnreported ==
  At("failed") =>
    /\ \A n \in Public : Exists(n) /\ files[names[n]].own => n \in reported
    /\ \A s \in stranded : s[1] \in reported
=============================================================================
