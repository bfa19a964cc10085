------------------------------ MODULE MCHubSync ------------------------------
(* Instances of HubSync for TLC: see HubSync.cfg, HubSyncDouble.cfg, HubSyncDropped.cfg. *)
EXTENDS HubSync

\* Every till covers the first sale.
MCTillSales == [t \in Tills |-> {1}]

\* The fifth document gets the number of the fourth.
MCNumber == [d \in Docs |-> IF d = 5 THEN 4 ELSE d]
=============================================================================
