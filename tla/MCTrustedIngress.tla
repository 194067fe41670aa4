-------------------------- MODULE MCTrustedIngress --------------------------
(* Finite instances of TrustedIngress for TLC. *)
EXTENDS TrustedIngress, TLC

(* Every GUID may be sent to every tenant. *)
MCSharedDeliveries == [t \in Tenant |-> DeliveryId]

MCSymmetry ==
  Permutations(DeliveryId) \cup Permutations(Body) \cup Permutations(Revision)
    \cup Permutations(Digest)
=============================================================================
