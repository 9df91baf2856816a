--------------------------- MODULE ControlCatalog ---------------------------
(***************************************************************************)
(* What the D1-L recognizer proves about a target database: the reserved   *)
(* schema security_control as a set of catalog entries, its manifest, and  *)
(* the order of tests that ends in one catalog state.  The schema is       *)
(* installed, upgraded and edited by hand; a state may be called VALID     *)
(* only when nothing was edited.                                           *)
(***************************************************************************)
EXTENDS Naturals, FiniteSets

CONSTANTS MaxEdits    \* bound on edits by hand

ASSUME EditsAssumption == MaxEdits \in Nat

VARIABLES
    application,  \* the application schema: its metadata and its 18 relations
    present,      \* whether security_control exists
    entries,      \* what pg_catalog holds under it
    manifest,     \* rows of control_schema_migrations
    edits

catalogVars == <<application, present, entries, manifest, edits>>

-----------------------------------------------------------------------------
Manifest == "control_schema_migrations"
Leases == "admission_leases"
Boundaries == "admission_boundaries"
Generation == "admission_generation_seq"
Provenance == "admission_provenance"

\* A catalog entry: its class, its name, the relation it belongs to, whether
\* its definition is the frozen one, and whether it depends on a user object
\* outside the schema.
Entry(kind, name, on) == [kind |-> kind, name |-> name, on |-> on, def |-> "frozen", foreign |-> FALSE]

\* The frozen expectations, one or two entries for each descriptor table.
V1Tables == {Manifest, Leases, Boundaries}
V1Relations == {Entry("relation", t, t) : t \in V1Tables \cup {Generation}}
V1Indexes == {Entry("index", "pkey", t) : t \in V1Tables}
               \cup {Entry("index", "one_live_generation", Leases)}
V1Constraints == {Entry("constraint", "pkey", t) : t \in V1Tables}
               \cup {Entry("constraint", "version_check", Manifest),
                     Entry("constraint", "lease_fk", Boundaries)}
V1Columns == {Entry("column", "id", t) : t \in V1Tables}
V1Sequence == {Entry("sequence", Generation, Leases)}
V1PhysicalExpectation == V1Relations \cup V1Indexes \cup V1Constraints \cup V1Columns \cup V1Sequence

\* The version check admits two versions after the transition.
WiderCheck == [Entry("constraint", "version_check", Manifest) EXCEPT !.def = "frozen2"]
LedgerObjects ==
    {Entry("relation", Provenance, Provenance), Entry("column", "id", Provenance)}
        \cup {Entry("index", n, Provenance) : n \in {"pkey", "issue_key"}}
        \cup {Entry("constraint", n, Provenance) : n \in {"pkey", "lease_link_check"}}
NextPhysicalExpectation ==
    (V1PhysicalExpectation \ {Entry("constraint", "version_check", Manifest)})
        \cup {WiderCheck} \cup LedgerObjects

Row(version, dirty, target, installer) ==
    [version |-> version, dirty |-> dirty, target |-> target, installer |-> installer]
V1Row == Row(1, FALSE, "this", "v1")
NextRow == Row(2, FALSE, "this", "next")

-----------------------------------------------------------------------------
Of(e, kind) == {x \in e : x.kind = kind}
Named(x) == <<x.kind, x.name, x.on>>
\* Nothing extra, nothing altered, nothing missing.
Matches(got, want) == \A x \in got : x \in want
Complete(got, want) == {Named(x) : x \in want} \subseteq {Named(x) : x \in got}
\* What a definition test compares; dependencies are a test of their own.
Plain(e) == {[x EXCEPT !.foreign = FALSE] : x \in e}

RelationsExact(e, want) ==
    /\ Matches(Plain(Of(e, "relation")), Of(want, "relation"))
    /\ Complete(Of(e, "relation"), Of(want, "relation"))
    /\ Of(e, "function") = {}
VerifyTriggers(e) == {x \in Of(e, "trigger") : x.on \in V1Tables \cup {Provenance}} = {}
VerifyRules(e) == {x \in Of(e, "rule") : x.on \in V1Tables \cup {Provenance}} = {}
VerifyNamespaceObjects(e) == Of(e, "type") = {} /\ Of(e, "collation") = {}
VerifyColumns(e, want) ==
    \A t \in {x.on : x \in Of(want, "column")} :
        Plain({x \in Of(e, "column") : x.on = t}) = {x \in Of(want, "column") : x.on = t}
VerifySequence(e) == Plain(Of(e, "sequence")) = V1Sequence
VerifyConstraintsX(e, want) == Matches(Plain(Of(e, "constraint")), Of(want, "constraint"))
VerifyConstraints(e, want) ==
    /\ Matches(Plain(Of(e, "constraint")), Of(want, "constraint"))
    /\ Complete(Of(e, "constraint"), Of(want, "constraint"))
VerifyIndexKeys(x) == x.def # "other keys"
VerifyIndexes(e, want) ==
    /\ \A x \in Plain(Of(e, "index")) : VerifyIndexKeys(x) /\ x \in Of(want, "index")
    /\ Complete(Of(e, "index"), Of(want, "index"))
VerifyDependencies(e) ==
    \A x \in Of(e, "relation") \cup Of(e, "index") \cup Of(e, "constraint") \cup Of(e, "column") :
        ~x.foreign

VerifyPhysical(e, want) ==
    /\ RelationsExact(e, want)
    /\ VerifyTriggers(e) /\ VerifyRules(e) /\ VerifyNamespaceObjects(e)
    /\ VerifyColumns(e, want) /\ VerifySequence(e)
    /\ VerifyConstraints(e, want) /\ VerifyIndexes(e, want)
    /\ VerifyDependencies(e)

\* The probe for the ledger looks for one relation.
LedgerObjectsPresent(e) == \E x \in Of(e, "relation") : x.name = Provenance

\* Metadata of the application must be clean version 5 and its relations the
\* authoritative ones before the control schema is looked at.
ExactV5Application(a) == a.metadata = "clean v5" /\ a.relations = "exact"

-----------------------------------------------------------------------------
\* RecognizeD1LCatalogWithConfig for this target: the tests in their order.
OfV1(e, r) ==
    IF LedgerObjectsPresent(e) THEN "FUTURE_OR_HYBRID"
    ELSE IF ~VerifyPhysical(e, V1PhysicalExpectation) THEN "WRONG_PHYSICAL_DEFINITION"
    ELSE IF r.installer # "v1" THEN "WRONG_INSTALLER_DIGEST"
    ELSE "VALID_V1"

OfNext(e, r) ==
    IF ~LedgerObjectsPresent(e) THEN "PARTIAL"
    ELSE IF r.installer # "next" THEN "WRONG_INSTALLER_DIGEST"
    ELSE IF ~VerifyPhysical(e, NextPhysicalExpectation) THEN "WRONG_PHYSICAL_DEFINITION"
    ELSE "VALID_NEXT_LEDGER_READY"

OfDirty(e, r) ==
    IF r.version = 1 /\ ~LedgerObjectsPresent(e) /\ ~VerifyPhysical(e, V1PhysicalExpectation)
    THEN "WRONG_PHYSICAL_DEFINITION" ELSE "DIRTY"

OfRow(e, r) ==
    IF r.dirty THEN OfDirty(e, r)
    ELSE IF r.target # "this" THEN "WRONG_TARGET"
    ELSE IF r.version = 1 THEN OfV1(e, r)
    ELSE IF r.version = 2 THEN OfNext(e, r)
    ELSE "PARTIAL"

RecognizeX(a, p, e, rows) ==
    IF ~ExactV5Application(a) THEN "PARTIAL"
    ELSE IF ~p \/ Of(e, "relation") = {} THEN "V5_BASE"
    ELSE IF \A x \in Of(e, "relation") : x.name # Manifest THEN "PARTIAL"
    ELSE IF Cardinality(rows) # 1 THEN "PARTIAL"
    ELSE OfRow(e, CHOOSE r \in rows : TRUE)

Recognize(a, p, e, rows) ==
    IF ~ExactV5Application(a) THEN "PARTIAL"
    ELSE IF ~p THEN "V5_BASE"
    ELSE IF Of(e, "relation") = {} THEN "EMPTY_SCHEMA"
    ELSE IF \A x \in Of(e, "relation") : x.name # Manifest THEN "PARTIAL"
    ELSE IF Cardinality(rows) # 1 THEN "PARTIAL"
    ELSE OfRow(e, CHOOSE r \in rows : TRUE)

CatalogState == Recognize(application, present, entries, manifest)

-----------------------------------------------------------------------------
CatalogInit ==
    /\ application = [metadata |-> "clean v5", relations |-> "exact"]
    /\ present = FALSE /\ entries = {} /\ manifest = {} /\ edits = 0

\* One transaction: installer, manifest row and the exact proof before commit.
Install ==
    /\ CatalogState = "V5_BASE"
    /\ present' = TRUE
    /\ entries' = V1PhysicalExpectation
    /\ manifest' = {V1Row}
    /\ Recognize(application, present', entries', manifest') = "VALID_V1"
    /\ UNCHANGED <<application, edits>>

\* The additive transition replaces the singleton row.
UpgradeLedgerX ==
    /\ \E r \in manifest : r.version = 1 /\ ~r.dirty
    /\ entries' = (entries \ V1PhysicalExpectation) \cup NextPhysicalExpectation
    /\ manifest' = {NextRow}
    /\ UNCHANGED <<application, present, edits>>
UpgradeLedger ==
    /\ CatalogState = "VALID_V1"
    /\ entries' = (entries \ V1PhysicalExpectation) \cup NextPhysicalExpectation
    /\ manifest' = {NextRow}
    /\ Recognize(application, present, entries', manifest') = "VALID_NEXT_LEDGER_READY"
    /\ UNCHANGED <<application, present, edits>>

\* Somebody edits the schema by hand: one statement changes one entry.
ForeignEntries ==
    {Entry(k, "x", t) : k \in {"trigger", "rule", "column", "constraint", "index"}, t \in {Leases, Provenance}}
        \cup {Entry("relation", "x", "x")}
        \cup {Entry(k, "x", "none") : k \in {"function", "type", "collation"}}
Dependents(t) == {x \in entries : x.on = t}
EditEntries ==
    \/ \E x \in ForeignEntries :
         /\ x.on \in {"x", "none"} \/ \E y \in Of(entries, "relation") : y.name = x.on
         /\ entries' = entries \cup {x}
    \/ \E x \in entries : entries' = entries \ IF x.kind = "relation" THEN Dependents(x.on) ELSE {x}
    \/ \E x \in entries, d \in {"frozen", "frozen2", "altered", "other keys"} :
         entries' = (entries \ {x}) \cup {[x EXCEPT !.def = d]}
    \/ \E x \in {y \in entries : y.kind \in {"relation", "index", "constraint", "column"}} :
         entries' = (entries \ {x}) \cup {[x EXCEPT !.foreign = TRUE]}

Rows == {Row(v, d, t, i) : v \in 1..3, d \in BOOLEAN, t \in {"this", "other"}, i \in {"v1", "next"}}
EditByHand ==
    /\ edits < MaxEdits /\ edits' = edits + 1
    /\ \/ present /\ EditEntries /\ UNCHANGED <<application, present, manifest>>
       \/ /\ present /\ \E r \in Rows : manifest' = {r} \/ manifest' = manifest \cup {r}
          /\ UNCHANGED <<application, present, entries>>
       \/ /\ present /\ manifest' = {} /\ UNCHANGED <<application, present, entries>>
       \/ present' = ~present /\ entries' = {} /\ manifest' = {} /\ UNCHANGED application
       \/ /\ application' \in {[application EXCEPT !.metadata = "dirty"],
                               [application EXCEPT !.relations = "drifted"]}
          /\ UNCHANGED <<present, entries, manifest>>

CatalogNext == Install \/ UpgradeLedger \/ EditByHand
CatalogSpec == CatalogInit /\ [][CatalogNext]_catalogVars

-----------------------------------------------------------------------------
CatalogStates == {"PARTIAL", "V5_BASE", "EMPTY_SCHEMA", "WRONG_PHYSICAL_DEFINITION", "DIRTY", "WRONG_TARGET",
    "FUTURE_OR_HYBRID", "WRONG_INSTALLER_DIGEST", "VALID_V1", "VALID_NEXT_LEDGER_READY"}

Untouched == application = [metadata |-> "clean v5", relations |-> "exact"]

\* A catalog is recognized as installed exactly when it is the installed one:
\* every foreign, missing or altered entry, every second or foreign manifest
\* row and every drift of the application is caught by one of the tests
\* (RecognizeD1LCatalogWithConfig).
RecognizedIsExact ==
    /\ CatalogState \in CatalogStates
    /\ CatalogState = "VALID_V1" <=>
          Untouched /\ present /\ entries = V1PhysicalExpectation /\ manifest = {V1Row}
    /\ CatalogState = "VALID_NEXT_LEDGER_READY" <=>
          Untouched /\ present /\ entries = NextPhysicalExpectation /\ manifest = {NextRow}

\* The bootstrap starts only where there is no control schema at all: an empty
\* or half removed one is never installed over (D1LBootstrap).
BaseIsBare == CatalogState = "V5_BASE" <=> Untouched /\ ~present

\* The transition never turns a catalog that was not valid into a valid one,
\* and installing never discards anything (D1LUpgradeLedger, D1LBootstrap).
OnlyProvenSteps ==
  /\ manifest' = {NextRow} /\ manifest # {NextRow} /\ edits' = edits
        => CatalogState = "VALID_V1" /\ CatalogState' = "VALID_NEXT_LEDGER_READY"
  /\ entries # {} /\ edits' = edits => entries' \in {entries, NextPhysicalExpectation}

\* The recognizer's verdicts are exact, for installed and for bare targets.
CatalogIsExact == RecognizedIsExact /\ BaseIsBare
=============================================================================
