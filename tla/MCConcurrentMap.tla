--------------------------- MODULE MCConcurrentMap ---------------------------
(* Finite instance of ConcurrentMap and of the reads of an audit over it. *)
EXTENDS AuditRequests
=============================================================================
