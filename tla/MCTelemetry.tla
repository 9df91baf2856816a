---------------------------- MODULE MCTelemetry -----------------------------
(***************************************************************************)
(* Telemetry beside administration, in three scenarios that do not mix:    *)
(* a device is replaced while both devices report and the quiet hours are  *)
(* switched; it is unbound while coverage messages are redelivered; it is  *)
(* disabled or unbound while messages of every kind are on the way.        *)
(***************************************************************************)
EXTENDS MCPlacement

VARIABLE scenario

Scenarios ==
  {[commands |-> MoveCommands, messages |-> MoveMessages, workers |-> 2, quiet |-> TRUE],
   [commands |-> CoverageCommands, messages |-> CoverageMessages, workers |-> 2, quiet |-> FALSE],
   [commands |-> LifecycleCommands, messages |-> LifecycleMessages, workers |-> 1, quiet |-> FALSE]}

InScenario ==
  /\ \A r \in Requests : phase[r] # "new" => cmd[r] \in scenario.commands
  /\ \A w \in Workers : stage[w] # "idle" => msg[w] \in scenario.messages
  /\ Cardinality({w \in Workers : stage[w] # "idle"}) <= scenario.workers
  /\ scenario.quiet \/ \A m \in Points : settings[m] # "on"

ScenarioInit == Init /\ scenario \in Scenarios
ScenarioNext == UNCHANGED scenario /\ Next /\ InScenario'
ScenarioSpec == ScenarioInit /\ [][ScenarioNext]_<<vars, scenario>>

\* Workers are interchangeable.
AnyWorker == Permutations(Workers)
=============================================================================
