-------------------------- MODULE SchemaMigrations --------------------------
(***************************************************************************)
(* Schema migrations behind the writer fence: the public runner (Up, Down),*)
(* the protected V5->V6 runner and its recovery, the B-02 runner with its  *)
(* standalone follow-ups, and the server's startup admission.  The         *)
(* database is the one metadata row of golang-migrate and the set of       *)
(* migration bodies its catalog shows.  A commit may be acknowledged,      *)
(* refused, or lost: lost, its backend decides it later.                   *)
(***************************************************************************)
EXTENDS WriterFence, Integers

CONSTANTS
    Commands,     \* the commands this instance's operators may start
    InitialDBs,   \* the databases they may find
    MaxCommands,  \* bound on commands started
    MaxFaults     \* bound on failures, lost commits, timeouts and crashes

ASSUME MigrationAssumption == MaxCommands \in Nat /\ MaxFaults \in Nat

VARIABLES
    db,           \* [meta, bodies, unresolved, found]; found are the bodies that
                  \* were there before there was metadata
    pending,      \* per backend, the commit it has received and not decided
    mlock,        \* the backend that holds golang-migrate's advisory lock
    op,           \* per operator, the command it runs and its report
    saw,          \* per writer, the schema at its fence acquisition
    started, faults

vars == <<fenceVars, db, pending, mlock, op, saw, started, faults>>

-----------------------------------------------------------------------------
\* Metadata: no row, or one row; version -1 is golang-migrate's NilVersion.
NoRow == [version |-> 0, dirty |-> FALSE, row |-> FALSE]
Row(v, d) == [version |-> v, dirty |-> d, row |-> TRUE]

\* SetVersion keeps no row for a clean NilVersion.
SetVersion(v, d) == IF v = -1 /\ ~d THEN NoRow ELSE Row(v, d)

NoCommit == [none |-> TRUE]

SetMeta(v, d) == [db EXCEPT !.meta = SetVersion(v, d)]

\* What Version reports: a row with NilVersion reads as clean 0.
VersionOf(m) ==
    IF ~m.row \/ m.version = -1 THEN [version |-> 0, dirty |-> FALSE]
                                ELSE [version |-> m.version, dirty |-> m.dirty]

\* migrationCatalogVersion: 2 and 3 add no table; a catalog past V5 is none
\* of the public ones.
CatalogVersion(bodies) ==
    CASE bodies = {} -> 0
      [] 1 \in bodies /\ bodies \subseteq 1..3 -> 1
      [] bodies \in {1..4, 1..5} -> Cardinality(bodies)
      [] OTHER -> -1

GateY(action, m, catalog) ==
    IF ~m.row THEN action = "up" /\ catalog \in 0..4
    ELSE /\ ~m.dirty
         /\ m.version \in 0..6
         /\ m.version = 0 => catalog = 0
         /\ m.version \in {1, 4, 5} => catalog = m.version
         /\ m.version \in {2, 3} => catalog = 1

GateX(action, m, catalog) ==
    IF ~m.row THEN action = "up" /\ catalog \in 0..4
    ELSE /\ m.version \in 0..5
         /\ m.version = 0 => catalog = 0
         /\ m.version \in {1, 4, 5} => catalog = m.version
         /\ m.version \in {2, 3} => catalog = 1

\* classifyMigrationAdmission: only an exact, clean public state passes.
Gate(action, m, catalog) ==
    IF ~m.row THEN action = "up" /\ catalog \in 0..4
    ELSE /\ ~m.dirty
         /\ m.version \in 0..5
         /\ m.version = 0 => catalog = 0
         /\ m.version \in {1, 4, 5} => catalog = m.version
         /\ m.version \in {2, 3} => catalog = 1

\* The structural proofs of inspectProtectedOn.  A body runs in one
\* transaction, so an object of the catalog stands for the body that made it.
\* Unrelated relations are ignored: later bodies do not disturb a proof.
ContainExpected(bodies, v) == v \in bodies
SecurityCatalog(bodies, validated) == IF validated THEN 6 \in bodies ELSE 5 \in bodies /\ 6 \notin bodies
D5Catalog(bodies) == 6 \in bodies
B02Catalog(bodies) == 7 \in bodies
IdentityCatalog(bodies) == 10 \in bodies
LifecycleCatalog(bodies) == 12 \in bodies

\* D5's semantic verifiers: no row is left that the V6 constraints refuse.
Semantics(d) == ~d.unresolved

Catalog(d) ==
    LET v6 == /\ ContainExpected(d.bodies, 6)
              /\ SecurityCatalog(d.bodies, TRUE) /\ D5Catalog(d.bodies)
        v5 == ContainExpected(d.bodies, 5) /\ SecurityCatalog(d.bodies, FALSE) IN
    CASE d.bodies = {} -> "EMPTY"
      [] (v5 \/ v6) /\ ~Semantics(d) -> "PARTIAL"
      [] v6 /\ d.meta.version = 7 /\ ~B02Catalog(d.bodies) -> "PARTIAL"
      [] v6 /\ d.meta.version = 7 /\ B02Catalog(d.bodies) /\ ~IdentityCatalog(d.bodies) ->
            "IDENTITY_REQUIRED"
      [] v6 /\ Semantics(d) /\ (d.meta.version = 7 =>
            B02Catalog(d.bodies) /\ IdentityCatalog(d.bodies)) -> "EXACT_V6"
      [] ~v6 /\ v5 /\ Semantics(d) -> "EXACT_V5"
      [] OTHER -> "PARTIAL"

\* classifyProtectedState.
State(d) ==
    LET m == d.meta  c == Catalog(d) IN
    CASE ~m.row -> IF c = "EMPTY" THEN "BOOTSTRAP" ELSE "AMBIGUOUS"
      [] m.row /\ m.version = 5 /\ m.dirty -> "DIRTY_V5"
      [] m.row /\ m.version = 5 /\ ~m.dirty /\ c = "EXACT_V5" -> "CLEAN_V5"
      [] m.row /\ m.version = 6 /\ m.dirty -> "TRANSITION_V6"
      [] m.row /\ m.version = 6 /\ ~m.dirty /\ c = "EXACT_V6" -> "CLEAN_V6"
      [] m.row /\ m.version = 7 /\ m.dirty -> "TRANSITION_B02"
      [] m.row /\ m.version = 7 /\ ~m.dirty /\ c = "EXACT_V6" -> "CLEAN_B02"
      [] m.row /\ m.version = 7 /\ ~m.dirty /\ c = "IDENTITY_REQUIRED" -> "IDENTITY_REQUIRED"
      [] OTHER -> "AMBIGUOUS"

\* inspectRuntimeCatalog: the tables the version needs, and for B-02 the
\* columns too, are present.  Later bodies and the metadata row do not matter.
RuntimeExact(v, bodies) ==
    CASE v = 5 -> 5 \in bodies
      [] v = 6 -> 6 \in bodies
      [] v = 7 -> 6..12 \subseteq bodies
      [] OTHER -> FALSE

-----------------------------------------------------------------------------
\* An operator's command: where it is, the version it read, the next body or
\* follow-up, the outcome of its report and, for admission, the metadata in it.
Idle == [cmd |-> "none", pc |-> "idle", v |-> 0, next |-> 0,
         out |-> "none", meta |-> NoRow]

Outcomes == {"none", "error", "already", "not_committed", "verified", "postfail",
             "unknown", "guarded", "unrecovered", "serve6", "serve7"}

FollowUps == <<10, 8, 9, 11, 12>>

Init ==
    /\ FenceInit
    /\ db \in InitialDBs
    /\ pending = [b \in Backends |-> NoCommit]
    /\ mlock = NoBackend
    /\ op = [o \in Operators |-> Idle]
    /\ saw = [w \in Writers |-> NoCommit]
    /\ started = 0 /\ faults = 0

Fault == faults < MaxFaults /\ faults' = faults + 1
At(o, cmd, pc) == op[o].cmd = cmd /\ op[o].pc = pc
Goto(o, pc) == op' = [op EXCEPT ![o].pc = pc]
Finish(o, out) == op' = [op EXCEPT ![o].pc = "close", ![o].out = out]
Back(o) == op' = [op EXCEPT ![o].pc = "done"]

-----------------------------------------------------------------------------
\* Writers: the schema the transaction sees when the fence lets it in.
WriterStep(w) ==
    /\ \/ (AcquireSharedWriterFence(w) \/ SharedCancelled(w)) /\ UNCHANGED saw
       \/ WriterEnds(w) /\ saw' = [saw EXCEPT ![w] = NoCommit]
    /\ UNCHANGED <<db, pending, mlock, op, started, faults>>

LockManager(i) ==
    /\ Grant(i)
    /\ saw' = IF queue[i] \in Writers THEN [saw EXCEPT ![queue[i]] = db] ELSE saw
    /\ UNCHANGED <<db, pending, mlock, op, started, faults>>

\* A backend without a client decides the commit it had received, then ends.
OrphanEnds(b) ==
    /\ BackendExit(b)
    /\ \/ UNCHANGED db
       \/ pending[b] # NoCommit /\ db' = pending[b]
    /\ pending' = [pending EXCEPT ![b] = NoCommit]
    /\ mlock' = IF mlock = b THEN NoBackend ELSE mlock
    /\ UNCHANGED <<op, saw, started, faults>>

-----------------------------------------------------------------------------
\* One transaction of operator o that leaves the database d: acknowledged,
\* rolled back, or lost with its connection.
Write(o, d, acked, failed, lost) ==
    \/ /\ db' = d
       /\ op' = [op EXCEPT ![o] = acked]
       /\ UNCHANGED <<fenceVars, pending, mlock, saw, started, faults>>
    \/ /\ Fault
       /\ op' = [op EXCEPT ![o] = failed]
       /\ UNCHANGED <<fenceVars, db, pending, mlock, saw, started>>
    \/ /\ Fault
       /\ pending' = [pending EXCEPT ![conn[o]] = d]
       /\ conn' = [conn EXCEPT ![o] = NoBackend]
       /\ fstate' = [fstate EXCEPT ![o] = "unknown"]
       /\ op' = [op EXCEPT ![o] = lost]
       /\ UNCHANGED <<queue, shared, owner, alive, pid, db, mlock, saw, started>>

\* A lost commit of the generic runners ends in the fence's own cleanup.
Plain(o, d, acked, out) ==
    Write(o, d, acked,
          [op[o] EXCEPT !.pc = "close", !.out = out],
          [op[o] EXCEPT !.pc = "probe", !.out = out])

\* Start a command: a new report, and for all but admission a fence window.
Start(o, cmd) ==
    /\ op[o].pc = "idle" /\ started < MaxCommands
    /\ cmd \in Commands
    /\ started' = started + 1
    /\ op' = [op EXCEPT ![o] =
              [Idle EXCEPT !.cmd = cmd,
                           !.pc = IF cmd = "admit" THEN "version" ELSE "open"]]
    /\ fstate' = [fstate EXCEPT ![o] = "not_attempted"]
    /\ UNCHANGED <<queue, shared, owner, alive, conn, pid,
                   db, pending, mlock, saw, faults>>

OpenWindow(o) ==
    /\ op[o].pc = "open"
    /\ \E b \in Backends : OpenExclusiveWriterFence(o, b)
    /\ Goto(o, "fence")
    /\ UNCHANGED <<db, pending, mlock, saw, started, faults>>

\* newMigratorLocked gates Up and Down inside the fence; the protected
\* commands inspect under golang-migrate's lock first; the second window of
\* B-02 and of a follow-up writes at once.
EnterWindow(o) ==
    /\ op[o].pc = "fence"
    /\ Acquired(o)
    /\ Goto(o, CASE op[o].cmd \in {"up", "down", "admit"} -> "gate"
                 [] op[o].cmd = "b02" /\ op[o].v = 6 -> "mark"
                 [] op[o].cmd = "b02" /\ op[o].v = 7 -> "apply"
                 [] OTHER -> "lock")
    /\ UNCHANGED <<db, pending, mlock, saw, started, faults>>

WindowRefused(o) ==
    /\ op[o].pc = "fence"
    /\ Fault
    /\ AcquireFails(o)
    /\ op' = [op EXCEPT ![o].pc = "probe", ![o].out = "error"]
    /\ UNCHANGED <<db, pending, mlock, saw, started>>

\* discardUnknown in Close: proven released, or given up after the timeout.
Probe(o) ==
    /\ op[o].pc = "probe"
    /\ DiscardUnknown(o) \/ UNCHANGED fenceVars
    /\ Back(o)
    /\ UNCHANGED <<db, pending, mlock, saw, started, faults>>

\* acquireMigrationAdvisoryLock polls until the lock is free or it times out.
TakeLock(o) ==
    /\ op[o].pc = "lock"
    /\ \/ mlock = NoBackend /\ mlock' = conn[o] /\ Goto(o, "inspect") /\ UNCHANGED faults
       \/ Fault /\ Finish(o, "error") /\ UNCHANGED mlock
    /\ UNCHANGED <<fenceVars, db, pending, saw, started>>

\* amendProtectedCleanupError: a failed cleanup fails the command, and of the
\* protected runner's reports none says committed and verified any more.
Amend(cmd, out) ==
    CASE out = "none" -> "error"
      [] out = "verified" /\ cmd # "b02" -> "postfail"
      [] OTHER -> out

Unlock(o) == mlock' = IF mlock = conn[o] THEN NoBackend ELSE mlock

CleanupFails(o, pc) ==
    op' = [op EXCEPT ![o].pc = pc, ![o].out = Amend(op[o].cmd, op[o].out)]

CloseX(o) ==
    /\ op[o].pc = "close"
    /\ Unlock(o)
    /\ Goto(o, "done")
    /\ UNCHANGED <<fenceVars, db, pending, saw, started, faults>>

\* The deferred lock.Close and fence.Close.  The admission reads the version
\* again after its bootstrap; B-02 goes on with its next window.
Close(o) ==
    /\ op[o].pc = "close"
    /\ Release(o)
    /\ Unlock(o)
    /\ Goto(o, CASE op[o].cmd = "admit" /\ op[o].out = "none" -> "reread"
                 [] op[o].cmd = "b02" /\ op[o].out = "none" -> "open"
                 [] OTHER -> "done")
    /\ UNCHANGED <<db, pending, saw, started, faults>>

\* lock.Close fails: the lock stays with the backend until that ends.
CloseLockFails(o) ==
    /\ op[o].pc = "close" /\ mlock = conn[o]
    /\ Fault
    /\ Release(o)
    /\ CleanupFails(o, "done")
    /\ UNCHANGED <<db, pending, mlock, saw, started>>

CloseFenceFails(o) ==
    /\ op[o].pc = "close"
    /\ Fault
    /\ ReleaseFails(o)
    /\ Unlock(o)
    /\ CleanupFails(o, "probe")
    /\ UNCHANGED <<db, pending, saw, started>>

Return(o) ==
    /\ op[o].pc = "done"
    /\ op' = [op EXCEPT ![o] = IF op[o].out \in {"serve6", "serve7"}
                               THEN [op[o] EXCEPT !.pc = "serving"] ELSE Idle]
    /\ UNCHANGED <<fenceVars, db, pending, mlock, saw, started, faults>>

\* The process dies between any two steps.
Crash(o) ==
    /\ op[o].pc \notin {"idle", "done", "serving"}
    /\ Fault
    /\ conn' = [conn EXCEPT ![o] = NoBackend]
    /\ fstate' = [fstate EXCEPT ![o] = "not_attempted"]
    /\ op' = [op EXCEPT ![o] = Idle]
    /\ UNCHANGED <<queue, shared, owner, alive, pid, db, pending, mlock, saw, started>>

-----------------------------------------------------------------------------
\* Up and Down: newMigratorLocked's admission, then golang-migrate's lock.
PublicGate(o) ==
    /\ op[o].pc = "gate"
    /\ LET action == IF op[o].cmd = "down" THEN "down" ELSE "up" IN
       IF ~Gate(action, db.meta, CatalogVersion(db.bodies))
       THEN Finish(o, "error") /\ UNCHANGED <<mlock, faults>>
       ELSE \/ /\ mlock = NoBackend /\ mlock' = conn[o]
               /\ op' = [op EXCEPT
                    ![o].v = IF db.meta.row THEN db.meta.version ELSE -1,
                    ![o].pc = IF action = "down"
                              THEN IF db.meta.row THEN "downmark" ELSE "close"
                              ELSE "up"]
               /\ UNCHANGED faults
            \/ Fault /\ Finish(o, "error") /\ UNCHANGED mlock
    /\ UNCHANGED <<fenceVars, db, pending, saw, started>>

UpNextX(o) ==
    /\ op[o].pc = "up"
    /\ op' = [op EXCEPT ![o].pc = "upmark",
                        ![o].next = IF op[o].v < 1 THEN 1 ELSE op[o].v + 1]
    /\ UNCHANGED <<fenceVars, db, pending, mlock, saw, started, faults>>

\* migrate.Migrate(5) takes the next version up, or is through.
UpNext(o) ==
    /\ op[o].pc = "up"
    /\ IF op[o].v = 5 THEN Finish(o, "none")
       ELSE op' = [op EXCEPT ![o].pc = "upmark",
                             ![o].next = IF op[o].v < 1 THEN 1 ELSE op[o].v + 1]
    /\ UNCHANGED <<fenceVars, db, pending, mlock, saw, started, faults>>

UpMark(o) ==
    /\ op[o].pc = "upmark"
    /\ Plain(o, SetMeta(op[o].next, TRUE), [op[o] EXCEPT !.pc = "upbody"], "error")

\* The bodies that create and alter IF NOT EXISTS.  Body 4 adds a constraint and
\* body 5 tables without it: where their objects are, they fail.
Repeatable == 1..3

\* A catalog that was found without metadata has its bodies applied again.
UpBody(o) ==
    /\ op[o].pc = "upbody"
    /\ IF op[o].next \in db.bodies \ Repeatable
       THEN /\ Finish(o, "error")
            /\ UNCHANGED <<fenceVars, db, pending, mlock, saw, started, faults>>
       ELSE Plain(o, [db EXCEPT !.bodies = @ \cup {op[o].next}],
                  [op[o] EXCEPT !.pc = "upclean"], "error")

UpClean(o) ==
    /\ op[o].pc = "upclean"
    /\ Plain(o, SetMeta(op[o].next, FALSE),
             [op[o] EXCEPT !.pc = "up", !.v = op[o].next], "error")

\* runDownMigrationLocked: the target marked dirty, the body, the clean target.
Previous(v) == IF v <= 1 THEN -1 ELSE v - 1

DownMark(o) ==
    /\ op[o].pc = "downmark"
    /\ Plain(o, SetMeta(Previous(op[o].v), TRUE),
             [op[o] EXCEPT !.pc = "downbody"], "error")

\* The first one drops the tables, and with them what 2 and 3 did to them.
Dropped(v) == IF v = 1 THEN 1..3 ELSE {v}

DownBody(o) ==
    /\ op[o].pc = "downbody"
    /\ Plain(o, [db EXCEPT !.bodies = @ \ Dropped(op[o].v)],
             [op[o] EXCEPT !.pc = "downclean"], "error")

DownClean(o) ==
    /\ op[o].pc = "downclean"
    /\ Plain(o, SetMeta(Previous(op[o].v), FALSE),
             [op[o] EXCEPT !.pc = "close"], "error")

\* The body raises MIGRATION_GUARDED_DOWN because durable data exists.
DownGuarded(o) ==
    /\ op[o].pc = "downbody"
    /\ Goto(o, "restore")
    /\ UNCHANGED <<fenceVars, db, pending, mlock, saw, started, faults>>

RestoreX(o) ==
    /\ op[o].pc = "restore"
    /\ Plain(o, SetMeta(Previous(op[o].v), FALSE),
             [op[o] EXCEPT !.pc = "close", !.out = "guarded"], "unrecovered")

\* recoverGuardedDown puts the original version back.
Restore(o) ==
    /\ op[o].pc = "restore"
    /\ IF db.meta = Row(Previous(op[o].v), TRUE)
       THEN Plain(o, SetMeta(op[o].v, FALSE),
                  [op[o] EXCEPT !.pc = "close", !.out = "guarded"], "unrecovered")
       ELSE /\ Finish(o, "unrecovered")
            /\ UNCHANGED <<fenceVars, db, pending, mlock, saw, started, faults>>

-----------------------------------------------------------------------------
\* The protected commands' inspection under fence and lock.
Inspect(o) ==
    /\ op[o].pc = "inspect"
    /\ LET s == State(db) IN
       CASE op[o].cmd = "d5" ->
              IF s = "CLEAN_V5" THEN Goto(o, "marker")
              ELSE Finish(o, IF s = "CLEAN_V6" THEN "already" ELSE "not_committed")
         [] op[o].cmd = "restore5" ->
              IF s \in {"DIRTY_V5", "TRANSITION_V6"} /\ Catalog(db) = "EXACT_V5"
              THEN Goto(o, "recover") ELSE Finish(o, "not_committed")
         [] op[o].cmd = "complete6" ->
              IF s = "TRANSITION_V6" /\ Catalog(db) = "EXACT_V6"
              THEN Goto(o, "recover") ELSE Finish(o, "not_committed")
         [] op[o].cmd = "b02" /\ op[o].next = 0 ->
              IF s = "CLEAN_V6"
              THEN op' = [op EXCEPT ![o].pc = "close", ![o].v = 6, ![o].next = 7]
              ELSE IF s \in {"CLEAN_B02", "IDENTITY_REQUIRED"}
              THEN op' = [op EXCEPT ![o].pc = "close", ![o].next = 1]
              ELSE Finish(o, "error")
         [] op[o].cmd = "b02" /\ op[o].next \in 1..5 ->
              IF \/ s = "CLEAN_B02"
                 \/ s = "IDENTITY_REQUIRED" /\ FollowUps[op[o].next] = 10
              THEN op' = [op EXCEPT ![o].pc = "close", ![o].v = 7]
              ELSE Finish(o, "error")
    /\ UNCHANGED <<fenceVars, db, pending, mlock, saw, started, faults>>

\* runProtectedMigration's three transactions, each with its recheck.
Protected(o, from, d, acked, failed) ==
    IF State(db) = from
    THEN Write(o, d, acked,
               [op[o] EXCEPT !.pc = "close", !.out = failed],
               [op[o] EXCEPT !.pc = "resolve", !.out = "unknown"])
    ELSE /\ Finish(o, failed)
         /\ UNCHANGED <<fenceVars, db, pending, mlock, saw, started, faults>>

Marker(o) ==
    /\ At(o, "d5", "marker")
    /\ Protected(o, "CLEAN_V5", SetMeta(6, TRUE),
                 [op[o] EXCEPT !.pc = "body"], "not_committed")

Body(o) ==
    /\ At(o, "d5", "body")
    /\ Protected(o, "TRANSITION_V6", [db EXCEPT !.bodies = @ \cup {6}],
                 [op[o] EXCEPT !.pc = "final"], "not_committed")

\* The body failed: the metadata goes back to clean V5 when the catalog is
\* still exactly V5, and the report is COMMITTED_POST_VERIFY_FAILED.
BodyFails(o) ==
    /\ At(o, "d5", "body")
    /\ faults < MaxFaults
    /\ IF State(db) = "TRANSITION_V6" /\ Catalog(db) = "EXACT_V5"
       THEN Write(o, SetMeta(5, FALSE),
                  [op[o] EXCEPT !.pc = "close", !.out = "postfail"],
                  [op[o] EXCEPT !.pc = "close", !.out = "postfail"],
                  [op[o] EXCEPT !.pc = "resolve", !.out = "unknown"])
       ELSE /\ Finish(o, "postfail")
            /\ UNCHANGED <<fenceVars, db, pending, mlock, saw, started, faults>>

Final(o) ==
    /\ At(o, "d5", "final")
    /\ IF Catalog(db) = "EXACT_V6"
       THEN Protected(o, "TRANSITION_V6", SetMeta(6, FALSE),
                      [op[o] EXCEPT !.pc = "proof"], "postfail")
       ELSE /\ Finish(o, "postfail")
            /\ UNCHANGED <<fenceVars, db, pending, mlock, saw, started, faults>>

\* recoverProtectedMigration's metadata transaction.
Recover(o) ==
    /\ op[o].pc = "recover"
    /\ Write(o, IF op[o].cmd = "restore5" THEN SetMeta(5, FALSE) ELSE SetMeta(6, FALSE),
             [op[o] EXCEPT !.pc = "proof"],
             [op[o] EXCEPT !.pc = "close", !.out = "not_committed"],
             [op[o] EXCEPT !.pc = "resolve", !.out = "unknown"])

\* The last pinned inspection decides between verified and not.
Proof(o) ==
    /\ op[o].pc = "proof"
    /\ LET want == IF op[o].cmd = "restore5" THEN "CLEAN_V5" ELSE "CLEAN_V6" IN
       \/ Finish(o, IF State(db) = want THEN "verified" ELSE "postfail") /\ UNCHANGED faults
       \/ Fault /\ Finish(o, "postfail")
    /\ UNCHANGED <<fenceVars, db, pending, mlock, saw, started>>

ResolveUnknownX(o) ==
    /\ op[o].pc = "resolve"
    /\ fstate' = [fstate EXCEPT ![o] = "released"]
    /\ op' = [op EXCEPT ![o].pc = "done"]
    /\ UNCHANGED <<queue, shared, owner, alive, conn, pid,
                   db, pending, mlock, saw, started, faults>>

\* resolveUnknown: the old backend must be gone and both locks obtainable
\* before the outcome is inspected; after cleanupTimeout the handle stays
\* UNKNOWN.
ResolveUnknown(o) ==
    /\ op[o].pc = "resolve"
    /\ \/ pid[o] \notin alive /\ mlock = NoBackend /\ DiscardUnknown(o)
       \/ UNCHANGED fenceVars
    /\ Back(o)
    /\ UNCHANGED <<db, pending, mlock, saw, started, faults>>

-----------------------------------------------------------------------------
\* RunB02Migration's second window: marker, bodies 7..12, verified final row.
B02Mark(o) ==
    /\ op[o].pc = "mark"
    /\ IF db.meta = Row(6, FALSE)
       THEN Plain(o, SetMeta(6, TRUE), [op[o] EXCEPT !.pc = "bodies"], "error")
       ELSE /\ Finish(o, "error")
            /\ UNCHANGED <<fenceVars, db, pending, mlock, saw, started, faults>>

B02Body(o) ==
    /\ op[o].pc = "bodies"
    /\ Plain(o, [db EXCEPT !.bodies = @ \cup {op[o].next}],
             [op[o] EXCEPT !.next = @ + 1,
                           !.pc = IF op[o].next = 12 THEN "b02final" ELSE "bodies"],
             "error")

B02FinalX(o) ==
    /\ op[o].pc \in {"b02final", "bodies"}
    /\ Plain(o, SetMeta(7, FALSE), [op[o] EXCEPT !.pc = "close", !.out = "verified"], "error")

B02Final(o) ==
    /\ op[o].pc = "b02final"
    /\ IF db.meta = Row(6, TRUE) /\ B02Catalog(db.bodies) /\ LifecycleCatalog(db.bodies)
       THEN Plain(o, SetMeta(7, FALSE),
                  [op[o] EXCEPT !.pc = "close", !.out = "verified"], "error")
       ELSE /\ Finish(o, "error")
            /\ UNCHANGED <<fenceVars, db, pending, mlock, saw, started, faults>>

\* A standalone follow-up on a clean B-02 database; its inspection was an
\* earlier window.
FollowUp(o) ==
    /\ op[o].pc = "apply"
    /\ Plain(o, [db EXCEPT !.bodies = @ \cup {FollowUps[op[o].next]}],
             [op[o] EXCEPT !.pc = "close", !.v = 0, !.next = @ + 1,
                           !.out = IF op[o].next = 5 THEN "already" ELSE "none"],
             "error")

Applies(o, body) == op[o].pc = "apply" /\ FollowUps[op[o].next] = body

RunMeasurementPointIdentity(o) == Applies(o, 10) /\ FollowUp(o)
RunDashboardCarbon(o) == Applies(o, 8) /\ FollowUp(o)
RunBillingV1(o) == Applies(o, 9) /\ FollowUp(o)
RunMeasurementPointAlerts(o) == Applies(o, 11) /\ FollowUp(o)
RunDeviceLifecycle(o) == Applies(o, 12) /\ FollowUp(o)

-----------------------------------------------------------------------------
\* BootstrapAndAdmit.  Version and inspectRuntimeCatalog are two short
\* read transactions under the shared fence.
SharedReadAllowed ==
    owner = NoBackend /\ \A i \in DOMAIN queue : queue[i] \in Writers

Version(o) ==
    /\ op[o].cmd = "admit" /\ op[o].pc \in {"version", "reread"}
    /\ SharedReadAllowed
    /\ LET r == VersionOf(db.meta) IN
       op' = [op EXCEPT
         ![o].v = r.version,
         ![o].pc = IF r.dirty THEN "done"
                   ELSE IF r.version < 5 /\ op[o].pc = "version" THEN "open"
                   ELSE "catalog",
         ![o].out = IF r.dirty THEN "error" ELSE op[o].out]
    /\ UNCHANGED <<fenceVars, db, pending, mlock, saw, started, faults>>

AdmitX(o) ==
    /\ At(o, "admit", "catalog")
    /\ SharedReadAllowed
    /\ op' = [op EXCEPT ![o].pc = "done",
              ![o].out = CASE op[o].v = 6 -> "serve6"
                           [] op[o].v = 7 -> "serve7"
                           [] OTHER -> "error"]
    /\ UNCHANGED <<fenceVars, db, pending, mlock, saw, started, faults>>

\* inspectRuntimeCatalog for the version read before, and the disposition.
Admit(o) ==
    /\ At(o, "admit", "catalog")
    /\ SharedReadAllowed
    /\ op' = [op EXCEPT ![o].pc = "done", ![o].meta = db.meta,
              ![o].out = CASE op[o].v = 6 /\ RuntimeExact(6, db.bodies) -> "serve6"
                           [] op[o].v = 7 /\ RuntimeExact(7, db.bodies) -> "serve7"
                           [] OTHER -> "error"]
    /\ UNCHANGED <<fenceVars, db, pending, mlock, saw, started, faults>>

-----------------------------------------------------------------------------
Step(o) ==
    \/ \E cmd \in Commands : Start(o, cmd)
    \/ OpenWindow(o) \/ EnterWindow(o) \/ WindowRefused(o) \/ Probe(o)
    \/ TakeLock(o) \/ Close(o) \/ CloseLockFails(o) \/ CloseFenceFails(o)
    \/ Return(o) \/ Crash(o)
    \/ PublicGate(o) \/ UpNext(o) \/ UpMark(o) \/ UpBody(o) \/ UpClean(o)
    \/ DownMark(o) \/ DownBody(o) \/ DownClean(o) \/ DownGuarded(o) \/ Restore(o)
    \/ Inspect(o) \/ Marker(o) \/ Body(o) \/ BodyFails(o) \/ Final(o)
    \/ Recover(o) \/ Proof(o) \/ ResolveUnknown(o)
    \/ B02Mark(o) \/ B02Body(o) \/ B02Final(o)
    \/ RunMeasurementPointIdentity(o) \/ RunDashboardCarbon(o) \/ RunBillingV1(o)
    \/ RunMeasurementPointAlerts(o) \/ RunDeviceLifecycle(o)
    \/ Version(o) \/ Admit(o)

Next ==
    \/ \E w \in Writers : WriterStep(w)
    \/ \E i \in DOMAIN queue : LockManager(i)
    \/ \E b \in Backends : OrphanEnds(b)
    \/ \E o \in Operators : Step(o)

Spec == Init /\ [][Next]_vars

-----------------------------------------------------------------------------
MetaRows == {NoRow} \cup [version : -1..7, dirty : BOOLEAN, row : {TRUE}]
DBs == [meta : MetaRows, bodies : SUBSET (1..12), unresolved : BOOLEAN,
        found : SUBSET (1..12)]

TypeOK ==
    /\ FenceTypeOK
    /\ db \in DBs
    /\ \A b \in Backends : pending[b] \in DBs \cup {NoCommit}
    /\ mlock \in Backends \cup {NoBackend}
    /\ \A o \in Operators :
        op[o].out \in Outcomes /\ op[o].v \in -1..7 /\ op[o].next \in 0..13
    /\ \A w \in Writers : saw[w] \in DBs \cup {NoCommit}

\* A business transaction inside the fence sees one schema from its fence
\* acquisition to its end, also when an operator's connection was lost and
\* the server commits for it later.
WriterSeesOneSchema == \A w \in shared : saw[w] = db

\* Clean metadata names bodies that the catalog has: of V4 and V5 exactly
\* those, up to V3 those and what was found before there was metadata, from V6
\* on at least those.
Complete(d) ==
    d.meta.row /\ ~d.meta.dirty =>
        /\ 1..d.meta.version \subseteq d.bodies
        /\ d.meta.version <= 3 => d.bodies \subseteq (1..d.meta.version) \cup d.found
        /\ d.meta.version \in 4..5 => d.bodies = 1..d.meta.version

\* Bodies were applied in order, but for 2 and 3, which leave the tables of 1 as
\* they are; metadata names a migration.
InOrder(d) ==
    /\ \/ d.bodies \in {{}, 1..4, 1..5}
       \/ 1 \in d.bodies /\ d.bodies \subseteq 1..3
       \/ 1..6 \subseteq d.bodies
    /\ d.meta.row => d.meta.version # 0

\* The commands there are, and databases as they leave them or as the product
\* was installed without metadata.
ASSUME DatabaseAssumption ==
    /\ Commands \subseteq {"up", "down", "admit", "d5", "restore5", "complete6", "b02"}
    /\ \A d \in InitialDBs :
           /\ d \in DBs /\ InOrder(d) /\ Complete(d)
           /\ d.found = IF d.meta.row THEN {} ELSE d.bodies

\* Clean metadata tells the truth about the catalog after any crash, lost
\* commit or guarded refusal: no body it names is missing, and up to V5 none is
\* there that it does not name, but for what a catalog had when Up adopted it
\* without metadata, which is all named when V4 is clean.
CleanMeansComplete == Complete(db)

\* Once a handle says RELEASED, no commit of its session is undecided: the
\* outcome an operator inspects after an unknown commit is final
\* (discardUnknown, resolveUnknown).
NoLateCommit ==
    \A o \in Operators :
        fstate[o] = "released" /\ pid[o] # NoBackend => pending[pid[o]] = NoCommit

\* What a report claims holds while the fence is still held.
ReportsAreTrue ==
    \A o \in Operators : op[o].pc = "close" =>
        /\ op[o].out = "verified" =>
            State(db) = CASE op[o].cmd = "restore5" -> "CLEAN_V5"
                          [] op[o].cmd = "b02" -> "CLEAN_B02"
                          [] OTHER -> "CLEAN_V6"
        /\ op[o].out = "guarded" =>
            db.meta = Row(op[o].v, FALSE) /\ op[o].v \in db.bodies

\* A server that was admitted keeps the schema it was admitted for: no
\* command takes away a body the disposition promised.
ServingStaysComplete ==
    \A o \in Operators :
        /\ op[o].out = "serve6" => 1..6 \subseteq db.bodies
        /\ op[o].out = "serve7" => 1..12 \subseteq db.bodies

\* The generic route never crosses back over the protected boundary: a clean
\* protected schema is never marked below V6 and loses no body.
NoDowngrade ==
    [][db.meta.row /\ ~db.meta.dirty /\ db.meta.version >= 6 =>
         db'.meta.version >= db.meta.version /\ db.bodies \subseteq db'.bodies]_vars

\* runtime_admission.go: the server "admits only a clean pre-existing V6 or
\* B-02 runtime schema".
AdmittedCleanSchema ==
    \A o \in Operators :
        /\ op[o].out = "serve6" => op[o].meta = Row(6, FALSE)
        /\ op[o].out = "serve7" => op[o].meta = Row(7, FALSE)

\* 000005_security_schema_foundation.down.sql: "The migration runner restores
\* clean version-4 metadata after the guarded signal."
GuardedDownRestoresV4 ==
    \A o \in Operators :
        op[o].pc = "close" /\ op[o].out = "guarded" /\ op[o].v = 5 =>
            db.meta = Row(4, FALSE)

\* The fence keeps schema changes and writers apart: a handle that says it
\* holds the fence holds it, a released one has given it up on the server, and
\* no writer sees two schemas.
FenceIsExclusive == TypeOK /\ CapabilityIsReal /\ ReleasedIsProven /\ WriterSeesOneSchema

\* Clean metadata and admitted servers have the bodies they promise.
SchemaIsWhole == CleanMeansComplete /\ ServingStaysComplete

\* What is reported is so, and no late commit changes it.
ReportsStand == ReportsAreTrue /\ NoLateCommit
=============================================================================
