------------------------------ MODULE MCSchema ------------------------------
(***************************************************************************)
(* Databases and commands for a small instance of SchemaMigrations.        *)
(***************************************************************************)
EXTENDS SchemaMigrations, TLC

\* Operators and backends are interchangeable.
Symmetry == Permutations(Operators) \cup Permutations(Backends)

Database(meta, bodies) ==
    [meta |-> meta, bodies |-> bodies, unresolved |-> FALSE,
     found |-> IF meta.row THEN {} ELSE bodies]

\* An empty database, one at V3 and one at V4; and catalogs without metadata, of
\* V3, V4 and V5.
PublicDBs == {Database(NoRow, {}), Database(Row(3, FALSE), 1..3), Database(Row(4, FALSE), 1..4)}
                \cup {Database(NoRow, 1..k) : k \in 3..5}
PublicCommands == {"up", "down", "admit"}

\* A V5 database, and one whose legacy rows are not reconciled yet.
V5DBs == {Database(Row(5, FALSE), 1..5),
          [Database(Row(5, FALSE), 1..5) EXCEPT !.unresolved = TRUE]}
ProtectedCommands == {"d5", "restore5", "complete6", "down"}

\* A V6 database, and a B-02 database that predates the follow-ups.
V6DBs == {Database(Row(6, FALSE), 1..6), Database(Row(7, FALSE), 1..7)}
B02Commands == {"b02", "complete6", "admit", "down"}
AllDBs == PublicDBs \cup V5DBs \cup V6DBs
AllCommands == PublicCommands \cup ProtectedCommands \cup B02Commands
=============================================================================
