------------------------------ MODULE D1LLease ------------------------------
(***************************************************************************)
(* The D1-L ledger: an attempt's provenance is recorded, reserved (T0) and *)
(* turned into one lease (T1); the lease is activated, consumed, revoked,  *)
(* quarantined, recovered or expired under its row lock and by the clock   *)
(* of the database; boundaries are granted below an active lease.          *)
(*                                                                         *)
(* attempt_id is unique in both tables, so prov and lease are functions of *)
(* the attempt.  A transaction takes its row lock in one step, reads the   *)
(* clock in another and writes and commits in a third: nobody sees a row   *)
(* between its UPDATE and the commit, for it is locked.                    *)
(***************************************************************************)
EXTENDS Naturals, FiniteSets

CONSTANTS
    Callers,        \* processes that use the ledger
    Attempts,       \* attempts, each with a sealed provenance value
    Operation,      \* [Attempts -> operations]: the operation of an attempt
    NoCaller,       \* no process
    Lifetime,       \* lifetime of a lease, in ticks of the database clock
    MaxTime,        \* bound on the database clock
    MaxCalls,       \* bound on calls
    MaxBoundaries,  \* bound on granted boundaries
    MaxLeaseFaults       \* bound on database errors, lost commits and crashes

ASSUME LeaseAssumption ==
    /\ NoCaller \notin Callers
    /\ DOMAIN Operation = Attempts
    /\ Lifetime \in Nat \ {0}
    /\ {MaxTime, MaxCalls, MaxBoundaries, MaxLeaseFaults} \subseteq Nat

VARIABLES
    now,         \* clock_timestamp()
    prov,        \* admission_provenance: row of an attempt
    lease,       \* admission_leases: row of an attempt
    boundaries,  \* admission_boundaries
    lockP,       \* holder of the lock of a provenance row
    lockL,       \* holder of the lock of a lease row
    inCall,        \* the call a process is in
    told,        \* what calls that returned nil have promised
    calls,       \* calls begun
    leaseFaults       \* faults suffered

leaseVars == <<now, prov, lease, boundaries, lockP, lockL, inCall, told, calls,
               leaseFaults>>

-----------------------------------------------------------------------------
(* Rows and calls. *)

Never == MaxTime + 1

Live == {"ISSUED", "ACTIVE", "QUARANTINE_PENDING"}

Terminal == {"CONSUMED", "EXPIRED", "REVOKED"}

NoProvenance == [state |-> "NONE", issue |-> NoCaller, linked |-> FALSE]

NoLease == [status |-> "NONE", verifier |-> NoCaller, issued |-> Never,
            expires |-> Never, activated |-> Never, terminal |-> Never,
            used |-> Never, quarantined |-> FALSE]

IssueOps == {"issue", "issueAndActivate"}

RowOps == {"reserve", "invalidate", "resolveReserved"}

LeaseOps == {"inspect", "consume", "revoke", "begin", "quarantine",
             "recover", "boundary"}

\* The grant a caller asks for is part of the call; other calls carry none.
NoGrant == [started |-> 0, expires |-> 0]

Grants == {g \in [started: 0..MaxTime, expires: 0..(MaxTime + 1)] :
              g.expires > g.started}

Idle == [op |-> "none", at |-> "idle", a |-> NoCaller, bound |-> TRUE,
         rec |-> NoProvenance, seen |-> "NONE", clk |-> 0, key |-> NoCaller,
         grant |-> NoGrant]

-----------------------------------------------------------------------------
(* A call begins and ends. *)

BeginCall(c, next) ==
    /\ inCall[c] = Idle
    /\ calls < MaxCalls
    /\ calls' = calls + 1
    /\ inCall' = [inCall EXCEPT ![c] = next]
    /\ UNCHANGED <<now, prov, lease, boundaries, lockP, lockL, told, leaseFaults>>

StartIssue(c) == \E op \in IssueOps, a \in Attempts :
    BeginCall(c, [Idle EXCEPT !.op = op, !.a = a, !.at = "record"])

StartRow(c) == \E op \in RowOps, a \in Attempts :
    /\ prov[a] # NoProvenance
    /\ BeginCall(c, [Idle EXCEPT !.op = op, !.a = a, !.at = "read"])

\* The caller may present a tuple that is not the lease's own.
StartLease(c) == \E op \in LeaseOps, a \in Attempts, bound \in BOOLEAN,
                    g \in Grants \cup {NoGrant} :
    /\ lease[a] # NoLease
    /\ (op = "boundary") <=> (g # NoGrant)
    /\ op = "boundary" => bound /\ Cardinality(boundaries) < MaxBoundaries
    /\ BeginCall(c, [Idle EXCEPT !.op = op, !.a = a, !.at = "lock",
                             !.bound = bound, !.grant = g])

ReleasedX(lock, c) == IF inCall[c].op = "consume" THEN lock
                      ELSE [a \in Attempts |-> IF lock[a] = c THEN NoCaller ELSE lock[a]]

\* Rollback, deferred in every operation, gives up the locks.
Released(lock, c) == [a \in Attempts |-> IF lock[a] = c THEN NoCaller ELSE lock[a]]

Unlock(c) ==
    /\ lockP' = Released(lockP, c)
    /\ lockL' = Released(lockL, c)

\* An error goes back to the caller and the transaction is rolled back.
Refuse(c) ==
    /\ Unlock(c)
    /\ inCall' = [inCall EXCEPT ![c] = Idle]
    /\ UNCHANGED <<now, prov, lease, boundaries, told, calls, leaseFaults>>

\* What a nil error tells the caller of an operation.
Promise(c) ==
    CASE inCall[c].op = "consume" ->
             [told EXCEPT ![inCall[c].a].consumed = @ + 1]
      [] inCall[c].op \in {"revoke", "recover"} ->
             [told EXCEPT ![inCall[c].a].ended = TRUE]
      [] inCall[c].op \in {"invalidate", "resolveReserved"} ->
             [told EXCEPT ![inCall[c].a].invalidated = TRUE]
      [] OTHER -> told

LostPromiseX(c) == Promise(c)

\* The commit whose answer is lost is reported as UNKNOWN, never as nil.
LostPromise(c) == told

-----------------------------------------------------------------------------
(* Provenance: Record, Resolve, T0, T1 and the end of a reservation. *)

\* Record is one INSERT; the answer may be lost after it.
Record(c) == LET a == inCall[c].a IN
    /\ inCall[c].at = "record"
    /\ IF prov[a] # NoProvenance
       THEN Refuse(c)
       ELSE LET row == [NoProvenance EXCEPT !.state = "AVAILABLE"] IN
            /\ prov' = [prov EXCEPT ![a] = row]
            /\ \/ /\ inCall' = [inCall EXCEPT ![c].at = "reserve", ![c].rec = row]
                  /\ UNCHANGED leaseFaults
               \/ /\ leaseFaults < MaxLeaseFaults
                  /\ leaseFaults' = leaseFaults + 1
                  /\ inCall' = [inCall EXCEPT ![c] = Idle]
            /\ UNCHANGED <<now, lease, boundaries, lockP, lockL, told, calls>>

\* Resolve, ResolveExact, ResolveProducer: the committed row, without a lock.
ResolveProvenance(c) == LET a == inCall[c].a IN
    /\ inCall[c].at = "read"
    /\ inCall' = [inCall EXCEPT ![c].rec = prov[a],
                            ![c].at = IF inCall[c].op = "reserve"
                                      THEN "reserve" ELSE "invalidate"]
    /\ UNCHANGED <<now, prov, lease, boundaries, lockP, lockL, told, calls, leaseFaults>>

StillReservedX(c) == TRUE

\* The row that the statement of a provenance transaction selects.
StillReserved(c) == LET a == inCall[c].a IN
    prov[a].state = "RESERVED" /\ prov[a].issue = inCall[c].rec.issue

\* The lock of the provenance row, taken when its predicate still holds.
LockRow(c, from, to, legal) == LET a == inCall[c].a IN
    /\ inCall[c].at = from
    /\ lockP[a] = NoCaller
    /\ IF ~legal
       THEN Refuse(c)
       ELSE /\ lockP' = [lockP EXCEPT ![a] = c]
            /\ inCall' = [inCall EXCEPT ![c].at = to]
            /\ UNCHANGED <<now, prov, lease, boundaries, lockL, told, calls, leaseFaults>>

\* T0: the record must be AVAILABLE when it was read and when it is updated.
Reserve(c) ==
    LockRow(c, "reserve", "t0", /\ inCall[c].rec.state = "AVAILABLE"
                                /\ prov[inCall[c].a].state = "AVAILABLE")

\* T1 locks the reservation of this call.
CompleteIssue(c) == LockRow(c, "complete", "t1", StillReserved(c))

\* Invalidate and ResolveReservedNonCommit lock the reservation they read.
Invalidate(c) ==
    LockRow(c, "invalidate", "inv", /\ inCall[c].rec.state = "RESERVED"
                                    /\ StillReserved(c)
                                    /\ ~prov[inCall[c].a].linked)

\* The unique indexes on attempt_id and, for live leases, on operation_id.
LeaseUnique(a) ==
    /\ lease[a] = NoLease
    /\ \A b \in Attempts \ {a} :
           Operation[b] = Operation[a] => lease[b].status \notin Live

\* d1LCreateOwnedLeaseSQL: times are the database's.
NewLease(c) == [NoLease EXCEPT !.status = "ISSUED", !.verifier = c,
                               !.issued = now, !.expires = now + Lifetime]

\* The provenance row after the transaction; T1 links only a RESERVED row.
RowAfter(c) == LET a == inCall[c].a IN
    CASE inCall[c].at = "t0" -> [prov[a] EXCEPT !.state = "RESERVED", !.issue = c]
      [] inCall[c].at = "t1" /\ prov[a].state = "RESERVED" ->
             [prov[a] EXCEPT !.state = "CONSUMED", !.linked = TRUE]
      [] inCall[c].at = "inv" -> [prov[a] EXCEPT !.state = "INVALIDATED"]
      [] OTHER -> prov[a]

\* Where the call goes on after the transaction has committed.
Continue(c) ==
    CASE inCall[c].at = "t0" /\ inCall[c].op \in IssueOps ->
             [inCall[c] EXCEPT !.at = "complete", !.rec = RowAfter(c)]
      [] inCall[c].at = "t1" /\ inCall[c].op = "issueAndActivate" ->
             [inCall[c] EXCEPT !.at = "lock", !.key = c, !.rec = NoProvenance]
      [] OTHER -> Idle

\* A transaction on the provenance row ends.
CommitRow(c) == LET a == inCall[c].a IN
    /\ inCall[c].at \in {"t0", "t1", "inv"}
    /\ IF inCall[c].at = "t1" /\ ~LeaseUnique(a)
       THEN Refuse(c)
       ELSE \E outcome \in {"committed", "lost", "none"} :
            /\ outcome # "committed" => leaseFaults < MaxLeaseFaults
            /\ leaseFaults' = IF outcome = "committed" THEN leaseFaults ELSE leaseFaults + 1
            /\ prov' = IF outcome = "none" THEN prov
                       ELSE [prov EXCEPT ![a] = RowAfter(c)]
            /\ lease' = IF outcome = "none" \/ inCall[c].at # "t1" THEN lease
                        ELSE [lease EXCEPT ![a] = NewLease(c)]
            /\ told' = IF outcome = "committed" THEN Promise(c) ELSE LostPromise(c)
            /\ inCall' = [inCall EXCEPT ![c] =
                           IF outcome = "committed" THEN Continue(c) ELSE Idle]
            /\ Unlock(c)
            /\ UNCHANGED <<now, boundaries, calls>>

-----------------------------------------------------------------------------
(* The lease. *)

RowFreeX(a) == TRUE

\* SELECT ... FOR UPDATE waits for the holder of the row.
RowFree(a) == lockL[a] = NoCaller

DemandedX(op) == Live \cup {"QUARANTINED"} \cup Terminal

\* The status an operation demands before it reads the clock.
Demanded(op) ==
    CASE op = "issueAndActivate" -> {"ISSUED"}
      [] op = "consume" -> {"ACTIVE"}
      [] op = "recover" -> Live \cup {"QUARANTINED"}
      [] OTHER -> Live \cup {"QUARANTINED"} \cup Terminal

\* lockLeaseForLifecycle: the row is locked and the whole tuple compared.
LockLease(c) == LET a == inCall[c].a IN
    /\ inCall[c].at = "lock"
    /\ RowFree(a)
    /\ IF ~inCall[c].bound \/ lease[a].status \notin Demanded(inCall[c].op)
       THEN Refuse(c)
       ELSE /\ lockL' = [lockL EXCEPT ![a] = c]
            /\ inCall' = [inCall EXCEPT ![c].seen = lease[a].status,
                                    ![c].at = IF inCall[c].op = "recover"
                                              THEN "write" ELSE "clock"]
            /\ UNCHANGED <<now, prov, lease, boundaries, lockP, told, calls, leaseFaults>>

\* The clock is read only when the lock is held.
ReadClock(c) ==
    /\ inCall[c].at = "clock"
    /\ inCall' = [inCall EXCEPT ![c].clk = now, ![c].at = "write"]
    /\ UNCHANGED <<now, prov, lease, boundaries, lockP, lockL, told, calls, leaseFaults>>

ExpiredX(c) == lease[inCall[c].a].expires < inCall[c].clk

\* ! expires_at.After(dbNow)
Expired(c) == lease[inCall[c].a].expires <= inCall[c].clk

Ended(row, status) == [row EXCEPT !.status = status, !.terminal = now]

LapsedX(row) == Ended(row, "EXPIRED")

\* A lease that was never active ends EXPIRED, another one REVOKED.
Lapsed(row) == Ended(row, IF row.status = "ISSUED" THEN "EXPIRED" ELSE "REVOKED")

\* The presentation fits the stored verifier and the tuple.
ActivationValid(c) == inCall[c].key = lease[inCall[c].a].verifier

Activate(c) == LET row == lease[inCall[c].a] IN
    IF Expired(c) THEN [ok |-> FALSE, row |-> Ended(row, "EXPIRED")]
    ELSE [ok |-> ActivationValid(c),
          row |-> IF ActivationValid(c) /\ row.status = "ISSUED"
                  THEN [row EXCEPT !.status = "ACTIVE", !.activated = now]
                  ELSE row]

ConsumeLease(c) == LET row == lease[inCall[c].a] IN
    CASE row.status # "ACTIVE" -> [ok |-> FALSE, row |-> row]
      [] row.status = "ACTIVE" /\ Expired(c) ->
             [ok |-> FALSE, row |-> Ended(row, "REVOKED")]
      [] OTHER ->
             [ok |-> row.expires > inCall[c].clk,
              row |-> IF row.expires > inCall[c].clk
                      THEN [Ended(row, "CONSUMED") EXCEPT !.used = inCall[c].clk]
                      ELSE row]

\* transitionLease, with the predicate and the target of its three callers.
TransitionLease(c, from, to) == LET row == lease[inCall[c].a] IN
    IF inCall[c].seen \in Live /\ Expired(c)
    THEN [ok |-> FALSE, row |-> IF row.status \in Live THEN Lapsed(row) ELSE row]
    ELSE [ok |-> inCall[c].seen \notin Terminal /\ row.status \in from,
          row |-> CASE row.status \notin from \/ inCall[c].seen \in Terminal -> row
                    [] to = "REVOKED" /\ row.status \in from -> Ended(row, to)
                    [] OTHER -> [row EXCEPT !.status = to,
                                            !.quarantined = (to = "QUARANTINED")]]

InspectLease(c) == LET row == lease[inCall[c].a] IN
    [ok |-> TRUE,
     row |-> IF row.status \in Live /\ Expired(c) THEN Lapsed(row) ELSE row]

RecoverLease(c) == LET row == lease[inCall[c].a] IN
    [ok |-> TRUE, row |-> Lapsed(row)]

\* CreateBoundary decides from the parent it has locked.
MayGrant(c) == LET row == lease[inCall[c].a] IN
    /\ inCall[c].seen = "ACTIVE"
    /\ ~Expired(c)
    /\ inCall[c].grant.started <= inCall[c].clk
    /\ inCall[c].grant.expires <= row.expires

Decision(c) ==
    CASE inCall[c].op = "issueAndActivate" -> Activate(c)
      [] inCall[c].op = "inspect" -> InspectLease(c)
      [] inCall[c].op = "consume" -> ConsumeLease(c)
      [] inCall[c].op = "revoke" -> TransitionLease(c, Live, "REVOKED")
      [] inCall[c].op = "begin" ->
             TransitionLease(c, {"ACTIVE"}, "QUARANTINE_PENDING")
      [] inCall[c].op = "quarantine" ->
             TransitionLease(c, {"QUARANTINE_PENDING"}, "QUARANTINED")
      [] inCall[c].op = "recover" -> RecoverLease(c)
      [] OTHER -> [ok |-> MayGrant(c), row |-> lease[inCall[c].a]]

\* Only a grant inserts a boundary; granted is the clock that allowed it.
Granted(c) ==
    IF inCall[c].op = "boundary" /\ MayGrant(c)
    THEN {[a |-> inCall[c].a, started |-> inCall[c].grant.started,
           expires |-> inCall[c].grant.expires, granted |-> inCall[c].clk]}
    ELSE {}

\* IssueAndActivate inspects the lease it has activated.
AfterLease(c) ==
    IF inCall[c].op = "issueAndActivate"
    THEN [Idle EXCEPT !.op = "inspect", !.a = inCall[c].a, !.at = "lock"]
    ELSE Idle

\* The lease is written and the transaction ends.
CommitLease(c) == LET a == inCall[c].a
                      d == Decision(c) IN
    /\ inCall[c].at = "write"
    /\ \E outcome \in {"committed", "lost", "none"} :
       /\ outcome # "committed" => leaseFaults < MaxLeaseFaults
       /\ leaseFaults' = IF outcome = "committed" THEN leaseFaults ELSE leaseFaults + 1
       /\ lease' = IF outcome = "none" THEN lease ELSE [lease EXCEPT ![a] = d.row]
       /\ boundaries' = IF outcome = "none" THEN boundaries
                        ELSE boundaries \cup Granted(c)
       /\ told' = CASE ~d.ok -> told
                    [] d.ok /\ outcome = "committed" -> Promise(c)
                    [] OTHER -> LostPromise(c)
       /\ inCall' = [inCall EXCEPT ![c] =
                      IF d.ok /\ outcome = "committed" THEN AfterLease(c) ELSE Idle]
       /\ Unlock(c)
       /\ UNCHANGED <<now, prov, calls>>

-----------------------------------------------------------------------------
(* Faults and time. *)

\* A database error, a closed gate (ensureD1LNextLedgerReady) or the end of
\* the process: the transaction is rolled back, the activation key is lost.
CallFails(c) ==
    /\ inCall[c] # Idle
    /\ leaseFaults < MaxLeaseFaults
    /\ leaseFaults' = leaseFaults + 1
    /\ Unlock(c)
    /\ inCall' = [inCall EXCEPT ![c] = Idle]
    /\ UNCHANGED <<now, prov, lease, boundaries, told, calls>>

Tick ==
    /\ now < MaxTime
    /\ now' = now + 1
    /\ UNCHANGED <<prov, lease, boundaries, lockP, lockL, inCall, told, calls, leaseFaults>>

-----------------------------------------------------------------------------
LeaseInit ==
    /\ now = 0
    /\ prov = [a \in Attempts |-> NoProvenance]
    /\ lease = [a \in Attempts |-> NoLease]
    /\ boundaries = {}
    /\ lockP = [a \in Attempts |-> NoCaller]
    /\ lockL = [a \in Attempts |-> NoCaller]
    /\ inCall = [c \in Callers |-> Idle]
    /\ told = [a \in Attempts |-> [consumed |-> 0, ended |-> FALSE,
                                   invalidated |-> FALSE]]
    /\ calls = 0
    /\ leaseFaults = 0

\* One step of a call that has begun.
StepOf(c) ==
    \/ Record(c)
    \/ ResolveProvenance(c)
    \/ Reserve(c)
    \/ CompleteIssue(c)
    \/ Invalidate(c)
    \/ CommitRow(c)
    \/ LockLease(c)
    \/ ReadClock(c)
    \/ CommitLease(c)

LeaseNext ==
    \/ \E c \in Callers : \/ StartIssue(c)
                          \/ StartRow(c)
                          \/ StartLease(c)
                          \/ StepOf(c)
                          \/ CallFails(c)
    \/ Tick

LeaseSpec == LeaseInit /\ [][LeaseNext]_leaseVars

-----------------------------------------------------------------------------
(* Properties. *)

\* The tables keep their shape, and a call inside a transaction holds the row
\* it decides on.
LeaseTypeOK ==
    /\ now \in 0..MaxTime
    /\ prov \in [Attempts -> [state: {"NONE", "AVAILABLE", "RESERVED", "CONSUMED",
                                      "INVALIDATED"},
                              issue: Callers \cup {NoCaller}, linked: BOOLEAN]]
    /\ \A a \in Attempts :
           /\ lease[a].status \in Live \cup Terminal \cup {"NONE", "QUARANTINED"}
           /\ lease[a].issued \in 0..Never
           /\ lease[a].verifier \in Callers \cup {NoCaller}
           /\ lockP[a] \in Callers \cup {NoCaller}
           /\ lockL[a] \in Callers \cup {NoCaller}
    /\ \A c \in Callers : LET a == inCall[c].a IN
           /\ inCall[c].at \in {"t0", "t1", "inv"} => lockP[a] = c
           /\ inCall[c].at \in {"clock", "write"} => lockL[a] = c
    /\ leaseFaults \in 0..MaxLeaseFaults

\* An attempt's provenance is CONSUMED exactly when its lease exists: neither
\* a lost T1 commit nor a reservation invalidated while its issuer is still
\* running leaves a lease without provenance, or the reverse.
ProvenanceMatchesLease == \A a \in Attempts :
    /\ (lease[a] # NoLease) <=> (prov[a].state = "CONSUMED")
    /\ prov[a].linked <=> (prov[a].state = "CONSUMED")

\* No path of the code writes a row that the table's lifecycle check
\* (admission_leases_lifecycle_fields_check) would refuse: an activated lease
\* never ends EXPIRED, one that was never active is not consumed.
LifecycleFields == \A a \in Attempts : LET row == lease[a] IN
    /\ row.status \in {"ISSUED", "EXPIRED"} => row.activated = Never
    /\ row.status \in {"ACTIVE", "QUARANTINE_PENDING", "QUARANTINED", "CONSUMED"}
           => row.activated # Never
    /\ (row.status \in Terminal) <=> (row.terminal # Never)
    /\ row.quarantined => row.status \in {"QUARANTINED", "REVOKED"}

\* A lease is used, by its consumer or by a boundary, only at a clock reading
\* inside its life: after its activation, before its expiry and not after its
\* end, however long the caller waited for the row.
UsedInsideLife ==
    /\ \A a \in Attempts : lease[a].used # Never =>
           /\ lease[a].activated <= lease[a].used
           /\ lease[a].used < lease[a].expires
    /\ \A b \in boundaries : LET row == lease[b.a] IN
           /\ row.activated <= b.granted
           /\ b.granted < row.expires
           /\ b.granted <= row.terminal
           /\ b.started <= b.granted
           /\ b.expires <= row.expires

\* What a nil error promised stays true: one consumer at most, and the lease
\* is CONSUMED; a revoked or recovered lease has ended unused; an invalidated
\* reservation never becomes a lease.
PromisesKept == \A a \in Attempts :
    /\ told[a].consumed <= 1
    /\ told[a].consumed = 1 => lease[a].status = "CONSUMED"
    /\ told[a].ended => lease[a].status \in {"EXPIRED", "REVOKED"}
    /\ told[a].invalidated => prov[a].state = "INVALIDATED" /\ lease[a] = NoLease

\* A lease that has ended and a provenance that is resolved never change, also
\* when a slow caller reaches them with what it read before.
EndedStays ==
  \A a \in Attempts :
    /\ lease[a].status \in Terminal => lease'[a] = lease[a]
    /\ prov[a].state \in {"CONSUMED", "INVALIDATED"} => prov'[a] = prov[a]

\* A lease exists with its provenance, is used while it lives, and what callers
\* were told of it holds.
LeaseIsTrue ==
    LeaseTypeOK /\ ProvenanceMatchesLease /\ LifecycleFields /\ UsedInsideLife /\ PromisesKept
=============================================================================
