--------------------------- MODULE MCDeliveryIntake ---------------------------
(* Requests for DeliveryIntake: a delivery, its body under a second GUID,    *)
(* another body and revision under its GUID, and a request that is refused   *)
(* because it is not from the configured hook.                               *)
EXTENDS DeliveryIntake, TLC

CONSTANTS t1, p1, v1, v2, d1, d2, b1, b2

Work(v) == [tenant |-> t1, pull |-> p1, revision |-> v]

Sound(d, b, v) ==
  [id |-> d, body |-> b, binding |-> Work(v),
   method |-> "POST", size |-> "small", type |-> "application/json",
   length |-> "equal", signed |-> TRUE, hook |-> TRUE, ownBase |-> TRUE,
   event |-> "pull_request", action |-> "opened", review |-> FALSE,
   allowed |-> TRUE]

Refused ==
  LET q == Sound(d1, b1, v1)
  IN {[q EXCEPT !.hook = FALSE]}

MCRequest ==
  {Sound(d1, b1, v1), Sound(d2, b1, v1), Sound(d1, b2, v2)}
  \cup Refused
MCSymmetry == Permutations(Handler)
MCDeliveries == [t \in Tenant |-> DeliveryId]
=============================================================================
