---------------------------- MODULE WriterFence ----------------------------
(***************************************************************************)
(* The writer fence: one PostgreSQL advisory lock.  A business transaction *)
(* takes it shared (transaction scoped); a schema operator takes it        *)
(* exclusively on one pinned session and keeps the ownership state in a    *)
(* handle, ExclusiveWriterFence.  The handle and the server may disagree:  *)
(* an acquire or an unlock can fail after the server acted on it, and a    *)
(* backend outlives the connection the client closed.                      *)
(***************************************************************************)
EXTENDS Naturals, Sequences, FiniteSets

CONSTANTS
    Writers,      \* business transactions that take the fence shared
    Operators,    \* processes that take it exclusively
    Backends,     \* PostgreSQL backends an operator's session may run on
    NoBackend     \* no session; not a backend

ASSUME FenceAssumption ==
    /\ NoBackend \notin Backends
    /\ Writers \cap Backends = {}
    /\ IsFiniteSet(Backends)

VARIABLES
    queue,        \* the lock manager's queue of waiting writers and backends
    shared,       \* the writers that hold the fence
    owner,        \* the backend that holds it exclusively, or NoBackend
    alive,        \* backends that have not exited
    conn,         \* the backend an operator's handle is connected to
    pid,          \* the backend PID the handle captured when it was pinned
    fstate        \* the handle's ExclusiveOwnershipState

fenceVars == <<queue, shared, owner, alive, conn, pid, fstate>>

OwnershipStates ==
    {"not_attempted", "waiting", "owned", "released", "unknown"}

FenceTypeOK ==
    /\ queue \in Seq(Writers \cup Backends)
    /\ shared \subseteq Writers
    /\ owner \in Backends \cup {NoBackend}
    /\ alive \subseteq Backends
    /\ conn \in [Operators -> Backends \cup {NoBackend}]
    /\ pid \in [Operators -> Backends \cup {NoBackend}]
    /\ fstate \in [Operators -> OwnershipStates]

FenceInit ==
    /\ queue = <<>>
    /\ shared = {}
    /\ owner = NoBackend
    /\ alive = {}
    /\ conn = [o \in Operators |-> NoBackend]
    /\ pid = [o \in Operators |-> NoBackend]
    /\ fstate = [o \in Operators |-> "not_attempted"]

(***************************************************************************)
(* The lock manager                                                        *)
(***************************************************************************)
Waiting(x) == \E i \in DOMAIN queue : queue[i] = x

Place(x) == CHOOSE i \in DOMAIN queue : queue[i] = x

\* The queue when x, which is in it at most once, has left it.
Without(x) ==
    IF Waiting(x)
    THEN [i \in 1..(Len(queue) - 1) |-> IF i < Place(x) THEN queue[i] ELSE queue[i + 1]]
    ELSE queue

\* pg_try_advisory_lock by a fresh session: nobody holds the fence or waits.
Free == owner = NoBackend /\ shared = {} /\ queue = <<>>

GrantableX(i) ==
    /\ owner = NoBackend
    /\ queue[i] \in Backends => shared = {} /\ i = 1

\* A request is granted when it conflicts with no holder and with no request
\* queued before it.
Grantable(i) ==
    /\ owner = NoBackend
    /\ IF queue[i] \in Writers
       THEN \A j \in 1..i : queue[j] \in Writers
       ELSE shared = {} /\ i = 1

Grant(i) ==
    /\ i \in DOMAIN queue
    /\ Grantable(i)
    /\ queue' = Without(queue[i])
    /\ IF queue[i] \in Writers
       THEN shared' = shared \cup {queue[i]} /\ UNCHANGED owner
       ELSE owner' = queue[i] /\ UNCHANGED shared
    /\ UNCHANGED <<alive, conn, pid, fstate>>

\* A backend whose client is gone ends, and its session locks go with it.
BackendExit(b) ==
    /\ b \in alive
    /\ \A o \in Operators : conn[o] # b
    /\ alive' = alive \ {b}
    /\ queue' = Without(b)
    /\ owner' = IF owner = b THEN NoBackend ELSE owner
    /\ UNCHANGED <<shared, conn, pid, fstate>>

(***************************************************************************)
(* Writers: AcquireSharedWriterFence inside the business transaction       *)
(***************************************************************************)
AcquireSharedWriterFence(w) ==
    /\ w \notin shared /\ ~Waiting(w)
    /\ queue' = Append(queue, w)
    /\ UNCHANGED <<shared, owner, alive, conn, pid, fstate>>

\* The context ends while the statement waits.
SharedCancelled(w) ==
    /\ Waiting(w)
    /\ queue' = Without(w)
    /\ UNCHANGED <<shared, owner, alive, conn, pid, fstate>>

\* The transaction's commit or rollback releases the lock.
WriterEnds(w) ==
    /\ w \in shared
    /\ shared' = shared \ {w}
    /\ UNCHANGED <<queue, owner, alive, conn, pid, fstate>>

(***************************************************************************)
(* The operator's handle                                                   *)
(***************************************************************************)
\* pinExclusiveWriterFence and the request of acquire.
OpenExclusiveWriterFence(o, b) ==
    /\ conn[o] = NoBackend
    /\ b \notin alive
    /\ \A p \in Operators \ {o} : pid[p] # b
    /\ alive' = alive \cup {b}
    /\ conn' = [conn EXCEPT ![o] = b]
    /\ pid' = [pid EXCEPT ![o] = b]
    /\ fstate' = [fstate EXCEPT ![o] = "waiting"]
    /\ queue' = Append(queue, b)
    /\ UNCHANGED <<shared, owner>>

AcquiredX(o) ==
    /\ fstate[o] = "waiting"
    /\ fstate' = [fstate EXCEPT ![o] = "owned"]
    /\ UNCHANGED <<queue, shared, owner, alive, conn, pid>>

\* The lock statement returned.
Acquired(o) ==
    /\ fstate[o] = "waiting"
    /\ owner = conn[o]
    /\ fstate' = [fstate EXCEPT ![o] = "owned"]
    /\ UNCHANGED <<queue, shared, owner, alive, conn, pid>>

\* The statement failed or ran into exclusiveAcquireTimeout: the server may
\* have granted the lock, may still grant it, or may have cancelled the wait.
AcquireFails(o) ==
    /\ fstate[o] = "waiting"
    /\ fstate' = [fstate EXCEPT ![o] = "unknown"]
    /\ conn' = [conn EXCEPT ![o] = NoBackend]
    /\ queue' \in {queue, Without(conn[o])}
    /\ UNCHANGED <<shared, owner, alive, pid>>

\* Release and closeResources on the owning session.
Release(o) ==
    /\ fstate[o] = "owned"
    /\ owner' = NoBackend
    /\ fstate' = [fstate EXCEPT ![o] = "released"]
    /\ conn' = [conn EXCEPT ![o] = NoBackend]
    /\ UNCHANGED <<queue, shared, alive, pid>>

\* The unlock was not confirmed; the server may have executed it or not.
ReleaseFails(o) ==
    /\ fstate[o] = "owned"
    /\ owner' \in {owner, NoBackend}
    /\ fstate' = [fstate EXCEPT ![o] = "unknown"]
    /\ conn' = [conn EXCEPT ![o] = NoBackend]
    /\ UNCHANGED <<queue, shared, alive, pid>>

DiscardUnknownT(o) ==
    /\ fstate[o] = "unknown"
    /\ Free
    /\ fstate' = [fstate EXCEPT ![o] = "discarded"]
    /\ UNCHANGED <<queue, shared, owner, alive, conn, pid>>

DiscardUnknownX(o) ==
    /\ fstate[o] = "unknown"
    /\ fstate' = [fstate EXCEPT ![o] = "released"]
    /\ UNCHANGED <<queue, shared, owner, alive, conn, pid>>

\* discardUnknown: an independent session acquired the fence and unlocked it.
DiscardUnknown(o) ==
    /\ fstate[o] = "unknown"
    /\ Free
    /\ fstate' = [fstate EXCEPT ![o] = "released"]
    /\ UNCHANGED <<queue, shared, owner, alive, conn, pid>>

-----------------------------------------------------------------------------
\* A handle that says OWNED, the ground of every ProtectedWorkCapability
\* (RequireProtectedWork), is backed by the lock on its own live session,
\* and no business transaction is inside the fence.
CapabilityIsReal ==
    \A o \in Operators : fstate[o] = "owned" =>
        /\ conn[o] # NoBackend /\ owner = conn[o] /\ conn[o] \in alive
        /\ shared = {}

\* A handle that says RELEASED left nothing behind: its backend neither holds
\* the fence nor waits for it, however the acquire or the unlock had failed
\* (Release, discardUnknown).
ReleasedIsProven ==
    \A o \in Operators : fstate[o] = "released" =>
        owner # pid[o] /\ ~Waiting(pid[o])
=============================================================================
