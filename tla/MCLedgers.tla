----------------------------- MODULE MCLedgers ------------------------------
(***************************************************************************)
(* The two ledgers of a protected change, one at a time: the D1-L ledger   *)
(* of provenance, leases and boundaries, and the D4 record of one owner    *)
(* tuple with the executor behind it.                                      *)
(***************************************************************************)
EXTENDS D1LLease, D4Ledger, TLC

VARIABLE part

\* All attempts belong to one operation.
OneOperation == [a \in Attempts |-> "op"]

Parts ==
    \/ part = "lease" /\ LeaseNext /\ UNCHANGED vars
    \/ part = "d4" /\ Next /\ UNCHANGED leaseVars

PartsInit ==
    /\ part \in {"lease", "d4"}
    /\ LeaseInit /\ Init
    /\ part # "d4" => row = Blank /\ mapped

PartsSpec == PartsInit /\ [][Parts /\ UNCHANGED part]_<<leaseVars, vars, part>>

\* The calls of the D4 service are interchangeable.
Symmetry == Permutations(Calls)

\* Ended leases, decided records and values of others stay as they are, and
\* "verified" is said of what was seen.
NothingIsReplaced ==
    [][EndedStays /\ DecisionsStay /\ ForeignKept /\ VerifiedWasSeen]_<<leaseVars, vars>>
=============================================================================
