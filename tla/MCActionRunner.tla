---------------------------- MODULE MCActionRunner ----------------------------
(* Instances of ActionRunner: one case per kind of evidence that changes. *)
EXTENDS ActionRunner

MCHits == [src |-> {"src/a", "src/b"}, old |-> {"old/a"},
           all |-> {"src/a", "src/b", "old/a"}]
MCPerson == [u |-> "u", U |-> "u", v |-> "v"]
MCMaintainer == {"u", "v"}

Rule(id, paths, labels, require) ==
  [id |-> id, paths |-> paths, labels |-> labels, require |-> require]
AnyOf(patterns) == [NoMatchSet EXCEPT !.any = patterns]
Always(require) == {Rule("always", AnyOf({"all"}), NoMatchSet, require)}

Green(app) == [type |-> "check", name |-> "test", app |-> app,
               conclusions |-> {"success"}]
Ended == [type |-> "check", name |-> "test", app |-> NoApp,
          conclusions |-> {"success", "failure"}]
Review(n) == [type |-> "maintainer_review", minimum |-> n]
Section == [type |-> "pr_body_section"]
Attestation == [type |-> "human_attestation"]
Linked == [type |-> "linked_issue"]

Case(policy, moving) ==
  [policy |-> policy, changed |-> {"src/a"}, previous |-> {}, labels |-> {},
   linked |-> FALSE, moving |-> moving]

(* Rules that match by old path, by label and by exclusion, and share        *)
(* requirements.                                                             *)
MatchPolicy ==
  {Rule("old", AnyOf({"old"}), NoMatchSet, {Linked}),
   Rule("none", [NoMatchSet EXCEPT !.none = {"old"}, !.all = {"src"}],
        AnyOf({"big"}), {Linked, Review(1)}),
   Rule("label", NoMatchSet, [NoMatchSet EXCEPT !.all = {"big"},
                                               !.none = {"skip"}], {Linked})}

MCCases ==
  {Case(Always({Green(NoApp), Green("ci"), Ended}), "checks"),
   Case(Always({Review(2)}), "reviews"),
   Case(Always({Section}), "body"),
   Case(Always({Attestation}), "body")}
  \cup
  {[policy |-> MatchPolicy, changed |-> changed, previous |-> previous,
    labels |-> labels, linked |-> linked, moving |-> "nothing"] :
     changed \in {{"src/a"}, {"src/a", "src/b"}, {"old/a"}},
     previous \in {{}, {"old/a"}}, labels \in SUBSET {"big", "skip"},
     linked \in BOOLEAN}
MCFirstLines == {<<"wanted">>, <<"text">>}
MCLineKinds == LineKind

(* Once the summary is written only the status of the result, the outputs    *)
(* and the failure flag are read again: the pull request the run has         *)
(* evaluated, checked in the state before, is left out of the view.          *)
View ==
  IF pc \in {"load", "summary"} THEN <<pullRequest, pc, result>>
  ELSE <<pc, outputs, failed,
         IF result = None THEN None ELSE result.status>>
=============================================================================
