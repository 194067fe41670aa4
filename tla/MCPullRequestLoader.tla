------------------------ MODULE MCPullRequestLoader -------------------------
(* Finite instances of PullRequestLoader for TLC. *)
EXTENDS PullRequestLoader

CONSTANTS h1, t1, t2, v1

(* Under one text the policy asks for all evidence, under the other for the  *)
(* reviews only.                                                             *)
MCNeeds == [x \in Text \X Head |-> IF x[1] = t1 THEN Kind ELSE {"reviews"}]

MCWorlds ==
  {[pull |-> [head |-> h1, text |-> t, stamp |-> 0],
    checks |-> [h \in Head |-> v1], reviews |-> R, links |-> v1,
    permission |-> [l \in Login |-> v1]] : t \in Text, R \in SUBSET Login}
=============================================================================
