----------------------------- MODULE MCDelivery -----------------------------
(***************************************************************************)
(* The MQTT service, one part at a time: the service alone, under messages *)
(* that anybody publishes and with stops and starts; and the service with  *)
(* one simulated device, which it serves with one worker.                  *)
(***************************************************************************)
EXTENDS DeviceDelivery, TLC

VARIABLE part

Alone == \A i \in DOMAIN uplink : uplink[i].id = 1
OneWorker == Cardinality({w \in Workers : busy[w] # IdleWorker}) <= 1

Parts ==
    \/ /\ part = "service"
       /\ IngressNext /\ Alone' /\ UNCHANGED deviceVars
    \/ /\ part = "device"
       /\ Next /\ OneWorker'

PartsInit ==
    \/ /\ part = "service"
       /\ IngressInit /\ Device /\ mode = "continuous"
    \/ /\ part = "device"
       /\ Init

PartsSpec == PartsInit /\ [][Parts /\ UNCHANGED part]_<<vars, part>>

\* Workers are interchangeable.
Symmetry == Permutations(Workers)
=============================================================================
