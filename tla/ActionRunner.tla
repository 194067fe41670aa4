---------------------------- MODULE ActionRunner ----------------------------
(***************************************************************************)
(* runAction of src/src/action-runner.ts, over the pull request it is run  *)
(* for: checks run and complete, reviews arrive and the author writes the  *)
(* body until the Action has loaded them; then the policy is evaluated and *)
(* the result is published in three writes, each of which may fail.        *)
(*                                                                         *)
(* loadGitHubPullRequest is module PullRequestLoader: here it yields what  *)
(* the pull request holds, or an error.                                    *)
(***************************************************************************)
EXTENDS ReadinessEngine

CONSTANTS
  Cases,      \* the pull requests: [policy, changed, previous, labels, linked,
              \*                     moving], moving the evidence that changes
  RunName,    \* names of Check Runs
  StatusName, \* contexts of commit statuses
  State,      \* states a commit status is posted with
  App,        \* app slugs
  Login,      \* reviewers' logins
  LineKinds,  \* kinds of line the author writes
  FirstLines, \* what the body starts with
  MaxRecords, \* bound: checks and statuses
  MaxReviews, \* bound: reviews
  MaxLines,   \* bound: lines the author adds
  MaxClock,   \* bound: the provider's clock
  None        \* nothing written, no result

VARIABLES
  pr,      \* the case
  records, \* Check Runs and commit statuses of the head
  reviews, \* reviews in the order GitHub lists them
  body,
  clock,   \* the second timestamps are taken from
  pc,
  input,   \* loaded.input
  result,  \* what evaluate returned
  summary, \* the job summary
  report,  \* the output report-json
  status,  \* the output status
  failed   \* setFailed was called

pullRequest == <<pr, records, reviews, body, clock>>
outputs == <<summary, report, status>>
vars == <<pullRequest, pc, input, result, outputs, failed>>

ASSUME RunnerAssumption ==
  /\ LineKinds \subseteq LineKind
  /\ \A b \in FirstLines : b \in Seq(LineKind)
  /\ State \subseteq DOMAIN StatusConclusion
  /\ Login \subseteq DOMAIN Person
  /\ \A c \in Cases :
       /\ c.moving \in {"checks", "reviews", "body", "nothing"}
       /\ \A rule \in c.policy :
            /\ \A field \in {"any", "all", "none"} :
                 rule.paths[field] \subseteq DOMAIN Hits
            /\ \A q \in rule.require :
                 q.type = "check" => Pending \notin q.conclusions
  /\ MaxRecords \in Nat /\ MaxReviews \in Nat /\ MaxLines \in Nat
  /\ MaxClock \in Nat
  /\ None \notin {"ready", "not_ready"}

Init ==
  /\ pr \in Cases
  /\ records = {} /\ reviews = <<>> /\ clock = 1
  /\ body \in IF pr.moving = "body" THEN FirstLines ELSE {<<"text">>}
  /\ pc = "load"
  /\ input = None /\ result = None
  /\ summary = None /\ report = None /\ status = None /\ failed = FALSE

-----------------------------------------------------------------------------
(* The pull request *)

Open == pc = "load"

Moving(kind) ==
  /\ Open /\ pr.moving = kind
  /\ UNCHANGED <<pr, pc, input, result, outputs, failed>>

Record(kind, name, app, done, conclusion, start, end) ==
  [id |-> Cardinality(records), kind |-> kind, name |-> name, app |-> app,
   done |-> done, conclusion |-> conclusion, start |-> start, end |-> end]

(* GitHub opens a Check Run; a queued one has no start yet. *)
OpenRun(name, app, start) ==
  /\ Moving("checks")
  /\ Cardinality(records) < MaxRecords
  /\ records' = records \cup
       {Record("run", name, app, FALSE, Pending, start, NoTime)}
  /\ UNCHANGED <<reviews, body, clock>>

(* A Check Run completes; some apps send no usable time. *)
CompleteRun(r, conclusion, end) ==
  /\ Moving("checks")
  /\ r.kind = "run" /\ ~r.done
  /\ records' = (records \ {r}) \cup
       {[r EXCEPT !.done = TRUE, !.conclusion = conclusion, !.end = end]}
  /\ UNCHANGED <<reviews, body, clock>>

(* A commit status is posted. *)
PostStatus(name, state) ==
  /\ Moving("checks")
  /\ Cardinality(records) < MaxRecords
  /\ records' = records \cup
       {Record("status", name, NoApp, TRUE, StatusConclusion[state],
               clock, clock)}
  /\ UNCHANGED <<reviews, body, clock>>

Tick ==
  /\ Moving("checks")
  /\ clock < MaxClock
  /\ clock' = clock + 1
  /\ UNCHANGED <<records, reviews, body>>

(* A review is listed, in any order; a local input may have no times. *)
AddReview(login, state, at) ==
  /\ Moving("reviews")
  /\ Len(reviews) < MaxReviews
  /\ reviews' = Append(reviews, [login |-> login, state |-> state, at |-> at])
  /\ UNCHANGED <<records, body, clock>>

WriteLine(kind) ==
  /\ Moving("body")
  /\ Len(body) < MaxLines + 1
  /\ body' = Append(body, kind)
  /\ UNCHANGED <<records, reviews, clock>>

Author ==
  \/ \E name \in RunName, app \in App, t \in {clock, NoTime} :
       OpenRun(name, app, t)
  \/ \E r \in records, conclusion \in {"success", "failure"},
        t \in {clock, NoTime, BadTime} : CompleteRun(r, conclusion, t)
  \/ \E name \in StatusName, state \in State :
       PostStatus(name, state)
  \/ Tick
  \/ \E login \in Login, at \in 1..2 \cup {NoTime},
        state \in {"approved", "changes_requested", "commented", "dismissed"} :
       AddReview(login, state, at)
  \/ \E kind \in LineKinds : WriteLine(kind)

-----------------------------------------------------------------------------
(* runAction *)

(* Every failure ends in setFailed: the event, the token, the load, the      *)
(* policy, the input, a budget, a size or a write.                           *)
Fail ==
  /\ pc \in {"load", "summary", "report", "status"}
  /\ pc' = "done" /\ failed' = TRUE
  /\ UNCHANGED <<pullRequest, input, result, outputs>>

(* The evidence is loaded and, without a further await, evaluated; a list of *)
(* checks that is too long is refused.                                       *)
Load ==
  /\ pc = "load"
  /\ Merge(records) # Incomplete
  /\ input' = [changed |-> pr.changed, previous |-> pr.previous,
               labels |-> pr.labels, linked |-> pr.linked, body |-> body,
               checks |-> Merge(records), reviews |-> reviews]
  /\ result' = Evaluate(pr.policy, input')
  /\ pc' = "summary"
  /\ UNCHANGED <<pullRequest, outputs, failed>>

(* Seeded fault: the status is written with the summary. *)
WriteSummaryAndStatus ==
  /\ pc = "summary"
  /\ summary' = result.status /\ status' = result.status
  /\ pc' = "report"
  /\ UNCHANGED <<pullRequest, input, result, report, failed>>

WriteSummary ==
  /\ pc = "summary"
  /\ summary' = result.status
  /\ pc' = "report"
  /\ UNCHANGED <<pullRequest, input, result, report, status, failed>>

SetReport ==
  /\ pc = "report"
  /\ report' = result.status
  /\ pc' = "status"
  /\ UNCHANGED <<pullRequest, input, result, summary, status, failed>>

SetStatus ==
  /\ pc = "status"
  /\ status' = result.status
  /\ pc' = "conclude"
  /\ UNCHANGED <<pullRequest, input, result, summary, report, failed>>

Conclude ==
  /\ pc = "conclude"
  /\ failed' = (result.status = "not_ready")
  /\ pc' = "done"
  /\ UNCHANGED <<pullRequest, input, result, outputs>>

Run == Load \/ WriteSummary \/ SetReport \/ SetStatus \/ Conclude \/ Fail

Next == Author \/ Run

Spec == Init /\ [][Next]_vars

-----------------------------------------------------------------------------
(* Properties *)

(* Every variable has its type: the records, the reviews and the lines that  *)
(* the functions of engine.ts and github-api.ts are defined on, and outputs  *)
(* that are written at most with the result's status.                        *)
TypeOK ==
  /\ pr \in Cases
  /\ Cardinality(records) <= MaxRecords
  /\ \A r \in records :
       /\ r.name \in RunName \cup StatusName /\ r.app \in App \cup {NoApp}
       /\ {r.start, r.end} \subseteq 1..MaxClock \cup {NoTime, BadTime}
       /\ r.done \/ r.end = NoTime
  /\ Cardinality({r.id : r \in records}) = Cardinality(records)
  /\ \A i \in DOMAIN reviews : reviews[i].login \in Login
  /\ \A i \in DOMAIN body : body[i] \in LineKind
  /\ {summary, report, status} \subseteq {None, "ready", "not_ready"}
  /\ failed \in BOOLEAN

Evaluated == result # None

(* SECURITY.md:114-116 for what has ended: when a requirement for a check is *)
(* met, one record of its name is a completed success, of the app asked for, *)
(* and whatever else goes by that name, from any app or as a status, ended   *)
(* before it or has started before it ended.                                 *)
GreenIsNewest ==
  Evaluated =>
    \A rule \in pr.policy : \A q \in rule.require :
      q.type = "check" /\ Satisfied(q, input) =>
        \E r \in records :
          /\ r.name = q.name /\ r.done /\ r.conclusion \in q.conclusions
          /\ q.app # NoApp => r.app = q.app
          /\ \A s \in records \ {r} :
               s.name = q.name =>
                 /\ Known(r.end)
                 /\ IF s.end = NoTime THEN Known(s.start) /\ s.start < r.end
                    ELSE Known(s.end) /\ s.end < r.end

Actionable(p) ==
  {i \in DOMAIN reviews :
     Person[reviews[i].login] = p /\ reviews[i].state # "commented"}

Timed(p) == {i \in Actionable(p) : reviews[i].at # NoTime}

(* The reviews of p nothing of p's is later than: by time when one has a     *)
(* time, else by place in the list.                                          *)
LastWord(p) ==
  IF Timed(p) # {}
  THEN {i \in Timed(p) : \A j \in Timed(p) : reviews[j].at <= reviews[i].at}
  ELSE {i \in Actionable(p) : \A j \in Actionable(p) : j <= i}

(* The maintainers who count are exactly those whose every last word is an   *)
(* approval: in whatever order GitHub lists reviews, a change request or a   *)
(* dismissal at the same second withdraws an approval.                       *)
ApprovalsAreLastWords ==
  Evaluated =>
    Approvers(input.reviews) =
      {p \in Maintainer : /\ LastWord(p) # {}
                          /\ \A i \in LastWord(p) :
                               reviews[i].state = "approved"}

(* Whether what a line opened outside every other region is still open on    *)
(* line i.                                                                   *)
StillOpen(doc, j, i) ==
  LET between == (j + 1)..i
      count(kind) == Cardinality({k \in between : doc[k] = kind})
  IN CASE doc[j] = "open" -> count("close") = 0
       [] doc[j] = "pi" -> count("unpi") = 0
       [] doc[j] = "div" ->
            /\ {doc[k] : k \in between} \cap {"open", "tagstart"} = {}
            /\ \A k \in between :
                 Cardinality({m \in (j + 1)..k : doc[m] = "undiv"})
                   <= Cardinality({m \in (j + 1)..k : doc[m] = "div"})
       [] doc[j] \in {"tick", "info"} -> count("tick") = 0
       [] doc[j] = "tilde" -> count("tilde") = 0
       [] OTHER -> FALSE

(* Text that is commented out, inside a fence, a processing instruction or   *)
(* an HTML element never counts as evidence, and nothing counts in a body    *)
(* that ends inside a comment or a processing instruction.                   *)
HiddenNeverCounts ==
  Evaluated /\ pr.moving = "body" =>
    LET counted == SectionEvidence(body) \cup AttestationEvidence(body)
        scan == Scan(body)
        definitions == Consumed(body, FinalFences(body))
        opened == {j \in DOMAIN body \ definitions :
                     Outside(scan[j - 1]) /\ ~scan[j - 1].failed}
    IN /\ \A i \in counted, j \in opened :
            j < i => ~StillOpen(body, j, i)
       /\ counted # {} =>
            \A j \in opened : body[j] \in {"open", "pi", "div"} =>
              ~StillOpen(body, j, Len(body))

(* A ready result leaves no rule out: every rule whose paths and labels, old *)
(* names of renamed files included, match the pull request has every one of  *)
(* its requirements met, although equal requirements are asked only once.    *)
MatchedRulesHold ==
  Evaluated =>
    LET names == pr.changed \cup pr.previous
        applies(rule) ==
          /\ rule.paths.any # {} =>
               \E p \in rule.paths.any, n \in names : n \in Hits[p]
          /\ \A p \in rule.paths.all : \E n \in names : n \in Hits[p]
          /\ \A p \in rule.paths.none, n \in names : n \notin Hits[p]
          /\ rule.labels.any # {} => rule.labels.any \cap pr.labels # {}
          /\ rule.labels.all \subseteq pr.labels
          /\ rule.labels.none \cap pr.labels = {}
    IN result.status = "ready" <=>
         \A rule \in pr.policy : applies(rule) =>
           \A q \in rule.require : Satisfied(q, input)

(* The three writes of one run: a status is never published without the      *)
(* summary and the report of the same result, a run that published "ready"   *)
(* does not fail, and one that does not fail published "ready".              *)
PublishedTogether ==
  /\ status # None => summary = status /\ report = status
  /\ status = "ready" => ~failed
  /\ pc = "done" /\ ~failed => status = "ready"
=============================================================================
