---------------------------- MODULE CheckEvidence ----------------------------
(***************************************************************************)
(* mergeCheckAndStatusEvidence of src/src/github-api.ts: the Check Runs    *)
(* and commit statuses of one head commit are reduced to at most one       *)
(* conclusion per name and app.  Records that cannot be ordered in time    *)
(* give no conclusion at all.                                              *)
(*                                                                         *)
(* A record is [id, kind, name, app, done, conclusion, start, end].  For a *)
(* status, start and end are createdAt and updatedAt and the app is NoApp. *)
(***************************************************************************)
EXTENDS Naturals, FiniteSets

CONSTANTS
  NoApp,        \* a record without an app slug
  Pending,      \* no conclusion (null)
  NoTime,       \* a timestamp that is missing
  BadTime,      \* a timestamp that does not parse
  MaxCheckRuns, \* MAX_CHECK_RUNS
  Incomplete    \* the merge is refused (GITHUB_EVIDENCE_INCOMPLETE)

ASSUME TimesAssumption == NoTime \notin Nat /\ BadTime \notin Nat

(* commitStatusConclusion: what a commit status state says; any other state  *)
(* is refused.                                                               *)
StatusConclusion ==
  [success |-> "success", failure |-> "failure", error |-> "failure",
   pending |-> Pending]

Known(t) == t # NoTime /\ t # BadTime

(* checkRunEventTime, commitStatusEventTime *)
EventTime(r) ==
  IF r.end = NoTime THEN r.start ELSE r.end

Ordered(r) == Known(EventTime(r))

(* hasInvalidCheckRunTimestamp, hasInvalidCommitStatusTimestamp *)
InvalidTime(r) ==
  \/ BadTime \in {r.start, r.end}
  \/ Known(r.start) /\ Known(r.end) /\ r.end < r.start

(* checkRunResult, commitStatusResult *)
Conclusion(r) ==
  IF \/ InvalidTime(r)
     \/ r.kind = "run" /\ (~r.done \/ r.end = NoTime)
  THEN Pending ELSE r.conclusion

(* The records of group that no other one is as late as. *)
Newest(group) ==
  {r \in group : \A s \in group \ {r} : EventTime(s) < EventTime(r)}

Key(r) == <<r.kind, r.name, r.app>>

Ambiguous(r) ==
  [r EXCEPT !.conclusion = Pending, !.done = FALSE,
            !.start = NoTime, !.end = NoTime]

(* One group of latestCheckRunRecords, latestCommitStatusRecords. *)
LatestOf(group) ==
  IF Cardinality(group) = 1 THEN CHOOSE r \in group : TRUE
  ELSE IF (\A r \in group : Ordered(r)) /\ Newest(group) # {}
       THEN CHOOSE r \in Newest(group) : TRUE
       ELSE Ambiguous(CHOOSE r \in group : \A s \in group : r.id <= s.id)

Latest(records) ==
  {LatestOf({r \in records : Key(r) = k}) : k \in {Key(r) : r \in records}}

(* Seeded fault: only an app answering beside a status is aggregated. *)
AggregatedWithStatus(latest, name) ==
  {"run", "status"} \subseteq {r.kind : r \in {s \in latest : s.name = name}}

(* A name several providers, or a Check Run and a status, answer for. *)
Aggregated(latest, name) ==
  LET named == {r \in latest : r.name = name}
  IN \/ {"run", "status"} \subseteq {r.kind : r \in named}
     \/ Cardinality({r.app : r \in {s \in named : s.kind = "run"}}) > 1

(* uniquelyLatestEvidence: the aggregated conclusion of a name. *)
AggregateConclusion(named) ==
  IF /\ \A r \in named : Ordered(r) /\ ~InvalidTime(r)
     /\ Newest(named) # {}
  THEN Conclusion(CHOOSE r \in Newest(named) : TRUE)
  ELSE Pending

Check(name, app, conclusion) ==
  [name |-> name, app |-> app, conclusion |-> conclusion]

Checks(latest) ==
  {IF Aggregated(latest, r.name)
     THEN Check(r.name, NoApp,
                AggregateConclusion({s \in latest : s.name = r.name}))
     ELSE Check(r.name, r.app, Conclusion(r)) : r \in latest}

(* mergeCheckAndStatusEvidence *)
Merge(records) ==
  LET checks == Checks(Latest(records))
  IN IF Cardinality(checks) > MaxCheckRuns THEN Incomplete ELSE checks
=============================================================================
