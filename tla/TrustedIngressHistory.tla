----------------------- MODULE TrustedIngressHistory ------------------------
(***************************************************************************)
(* TrustedIngress with history variables that no code reads, for the       *)
(* retention promises: they relate a claim to claims that the store itself *)
(* has forgotten.                                                          *)
(***************************************************************************)
EXTENDS TrustedIngress

VARIABLES
  acceptedAt,  \* receivedAt of the last receipt created for a body
  answeredAt,  \* clock when a delivery id was last given a tombstone
  issued       \* newest generation ever issued to a slot

history == <<acceptedAt, answeredAt, issued>>

Never == -1

HistoryInit ==
  /\ acceptedAt = [t \in Tenant |-> [b \in Body |-> Never]]
  /\ answeredAt = [t \in Tenant |-> [d \in DeliveryId |-> Never]]
  /\ issued = [t \in Tenant |-> [p \in Pull |-> 0]]

Appears(map, map2, t, x) == map[t][x] = None /\ map2[t][x] # None

Record ==
  /\ acceptedAt' = [t \in Tenant |-> [b \in Body |->
       IF Appears(bodies, bodies', t, b)
       THEN records'[bodies'[t][b]].receivedAt ELSE acceptedAt[t][b]]]
  /\ answeredAt' = [t \in Tenant |-> [d \in DeliveryId |->
       IF Appears(deliveries, deliveries', t, d)
       THEN clock ELSE answeredAt[t][d]]]
  /\ issued' = [t \in Tenant |-> [p \in Pull |->
       IF slots'[t][p].generation > issued[t][p]
       THEN slots'[t][p].generation ELSE issued[t][p]]]

HSpec == /\ Init /\ HistoryInit
         /\ [][Next /\ Record]_<<vars, history>>

-----------------------------------------------------------------------------
(* A body that was evaluated is not evaluated again before the retention of  *)
(* its first receipt has passed, whatever GUIDs it comes under and however   *)
(* cleanup is interleaved with claims (threats T04, T05).                    *)
ReplayRefused ==
  [][\A t \in Tenant, b \in Body :
       acceptedAt[t][b] # Never /\ Appears(bodies, bodies', t, b)
       => clock - acceptedAt[t][b] >= Retention]_<<vars, history>>

(* The tombstone of a delivery id outlives the replay window counted from    *)
(* when the store answered that id.  (Violated for the alias of a body: the  *)
(* alias goes when the first receipt of the body does.)                      *)
TombstoneOutlivesWindow ==
  [][\A t \in Tenant, d \in DeliveryId :
       deliveries[t][d] # None /\ deliveries'[t][d] = None
       => clock - answeredAt[t][d] >= ReplayAge]_<<vars, history>>

(* Each generation a slot is given is newer than every one it ever had.      *)
(* (Violated: purging the current receipt forgets the slot's generation.)    *)
GenerationMonotone ==
  [][\A t \in Tenant, p \in Pull :
       slots'[t][p] \notin {slots[t][p], NoSlot}
       => slots'[t][p].generation > issued[t][p]]_<<vars, history>>
=============================================================================
