--------------------------- MODULE MCModelDiscovery ---------------------------
(* A fresh installation, or one that has an endpoint and its key.  Endpoints   *)
(* are interchangeable, so that one of them is enough there.                   *)
EXTENDS ModelDiscovery

CONSTANT e

MCInit ==
  Init /\ saved \in {[endpoint |-> NoEndpoint, key |-> NoKey],
                     [endpoint |-> e, key |-> e]}
MCSpec == MCInit /\ [][Next]_vars /\ Fairness

===============================================================================
