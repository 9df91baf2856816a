----------------------------- MODULE MCProvider -----------------------------
(***************************************************************************)
(* The control schema and the authority that allows its installation, one  *)
(* part at a time: the authority's ledger under callers of any order; the  *)
(* controller and runners that use it to install into one target; and the  *)
(* catalog of the target under edits by hand.                              *)
(***************************************************************************)
EXTENDS CatalogInstall, ControlCatalog, TLC

VARIABLE part

\* The runs need one authority process, which keeps its first epoch; the only
\* calls are their own.
RunnersOnly ==
    /\ Cardinality({p \in Processes : session[p] # "none"}) <= 1
    /\ epoch <= 1 /\ made = 0

Parts ==
    \/ /\ part = "ledger"
       /\ LedgerNext /\ UNCHANGED <<installVars, catalogVars>>
    \/ /\ part = "install"
       /\ InstallNext /\ RunnersOnly' /\ UNCHANGED catalogVars
    \/ /\ part = "catalog"
       /\ CatalogNext /\ UNCHANGED allVars

PartsInit ==
    /\ part \in {"ledger", "install", "catalog"}
    /\ InstallInit /\ CatalogInit
    /\ part # "install" => catalog = "V5_BASE"

PartsSpec == PartsInit /\ [][Parts /\ UNCHANGED part]_<<allVars, catalogVars, part>>

\* Processes, requests, attempts and consume requests are interchangeable.
Symmetry == Permutations(Processes) \cup Permutations(Consumes)
                 \cup Permutations(Requests) \cup Permutations(Attempts)

\* Nothing that has ended starts again: terminal rows stay, and a catalog is
\* taken forward only from a state that was proven.
NothingReopens == [][TerminalIsFinal /\ OnlyProvenSteps]_<<allVars, catalogVars>>
=============================================================================
