---------------------- MODULE MCTrustedIngressHistory -----------------------
(* Finite instances of TrustedIngressHistory for TLC. *)
EXTENDS TrustedIngressHistory, TLC

MCSharedDeliveries == [t \in Tenant |-> DeliveryId]

MCSymmetry == Permutations(DeliveryId) \cup Permutations(Body)
=============================================================================
