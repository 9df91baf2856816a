-------------------------- MODULE AdminOperations ---------------------------
(***************************************************************************)
(* The administrative transactions on device placement: the five commands  *)
(* of the Admin Binding executor (create a measurement point, bind,        *)
(* replace, relocate, unbind) and the three device lifecycle commands      *)
(* (disable, enable, retire), which share one idempotency ledger.          *)
(*                                                                         *)
(* A request runs one transaction (a binding request up to MaxAttempts):   *)
(*                                                                         *)
(*   new -> admit -> resolve -> claim -> lock -> applied -> done           *)
(*                                                                         *)
(*   admit    the session row is locked FOR UPDATE, the user's grants FOR  *)
(*            SHARE and, for a binding command, every device of its scope  *)
(*            FOR SHARE; then the ledger is looked up                      *)
(*   resolve  a binding command is planned, to learn its tenant            *)
(*   claim    the ledger row is inserted (ON CONFLICT DO NOTHING)          *)
(*   lock     devices and points are locked FOR UPDATE, in id order, then  *)
(*            the command is planned again and applied                     *)
(*   applied  every row is written; COMMIT publishes them                  *)
(***************************************************************************)
EXTENDS PlacementStore

CONSTANTS
  Keys,          \* idempotency keys chosen by clients
  Commands,      \* the commands requests may carry
  MaxAttempts,   \* Executor.maxAttempts
  MaxWithdrawn,  \* bound on sessions and grants that are withdrawn
  NoCommand

BindingActions == {"create", "bind", "replace", "relocate", "unbind"}
LifecycleActions == {"disable", "enable", "retire"}
Actions == BindingActions \cup LifecycleActions

\* A field that an action does not use has an arbitrary value.
CommandType ==
  [session : Sessions, action : Actions, key : Keys, client : Clients,
   shop : Shops, dev : Devices, mp : Points, cur : AssignmentIds]

ASSUME CommandAssumption ==
  /\ Commands \subseteq CommandType
  /\ MaxAttempts \in Nat \ {0}
  /\ MaxWithdrawn \in Nat
  /\ NoCommand \notin CommandType

VARIABLES
  phase,      \* where each request is
  cmd,        \* its command
  attempt,    \* the transaction attempt it is in
  sampled,    \* the transition time it sampled
  outcome,    \* what its caller was told
  response,   \* the operation its caller was told about: the one that ran it
  ledger,     \* committed admin_binding_operations
  audit,      \* committed admin_binding_audits
  session,    \* refresh_sessions: "live", "expired", "revoked"
  scope       \* the active shops a user administers; {} for a non-admin

requestVars == <<phase, cmd, attempt, sampled, outcome, response>>
ledgerVars == <<ledger, audit>>
authorityVars == <<session, scope>>

Phases == {"new", "admit", "resolve", "claim", "lock", "applied", "done"}
InTx == {"admit", "resolve", "claim", "lock", "applied"}
Outcomes == {"none", "ok", "replayed", "forbidden", "reused", "refused",
             "overlap", "concurrent", "deadlock", "failed"}

User(c) == UserOf[c.session]
Moves(c) == c.action \in {"replace", "relocate", "unbind"}
Inserts(c) == c.action \in {"bind", "replace", "relocate"}

-----------------------------------------------------------------------------
(***************************************************************************)
(* What a command works on.  The device and the point of an assignment row *)
(* and the shop of a point never change, so these are stable from the      *)
(* moment the HTTP handler has resolved them.                              *)
(***************************************************************************)
DevicesOf(c) ==
  CASE c.action = "create" -> {}
    [] c.action = "replace" -> {assign[c.cur].dev, c.dev}
    [] c.action \in {"relocate", "unbind"} -> {assign[c.cur].dev}
    [] OTHER -> {c.dev}

PointsOf(c) ==
  CASE c.action = "bind" -> {c.mp}
    [] c.action = "relocate" -> {assign[c.cur].mp, c.mp}
    [] c.action \in {"replace", "unbind"} -> {assign[c.cur].mp}
    [] OTHER -> {}

ShopsOf(c) ==
  IF c.action \in LifecycleActions \cup {"create"} THEN {c.shop}
  ELSE {shopOf[m] : m \in PointsOf(c)}

\* The targets an HTTP handler resolves before the transaction, and the
\* scope actorFor builds from them: one tenant that owns every device.
Resolvable(c) ==
  /\ Moves(c) => c.cur \in rows
  /\ \A m \in PointsOf(c) : PointExists(m)
  /\ \A s \in ShopsOf(c) : ClientOf[s] = c.client
  /\ \A d \in DevicesOf(c) : OwnerOf[d] = c.client
  /\ c.action \in LifecycleActions =>
       \A a \in rows : IsCurrent(a) /\ assign[a].dev = c.dev
                         => shopOf[assign[a].mp] = c.shop

\* ensureEligibleDevice: only a device in service is placed.
Eligible(d) == lifecycle[d] = "ACTIVE"

\* authorizeRelational: the user has every shop the command touches.
Authorized(c) == ShopsOf(c) \subseteq scope[User(c)]

\* The planner's conditions on placement, read from committed rows.  It is
\* run before the claim, after it, and again once the rows are locked.
PlanOK(c) ==
  /\ Moves(c) => IsCurrent(c.cur)
  /\ Authorized(c)
  /\ c.action \in {"bind", "replace"} => Eligible(c.dev) /\ ~DeviceAssigned(c.dev)
  /\ c.action = "replace" => c.dev # assign[c.cur].dev
  /\ c.action = "relocate" => c.mp # assign[c.cur].mp
  /\ c.action \in {"bind", "relocate"} => ~PointOccupied(c.mp)

LifecycleTarget(action) ==
  CASE action = "disable" -> "DISABLED"
    [] action = "enable" -> "ACTIVE"
    [] OTHER -> "RETIRED"

CanTransition(from, to) ==
  \/ from = "ACTIVE" /\ to \in {"DISABLED", "RETIRED"}
  \/ from = "DISABLED" /\ to \in {"ACTIVE", "RETIRED"}

\* Faulty variant: only disable looks for an assignment.
LifecycleOK_RetireAssigned(c) ==
  /\ CanTransition(lifecycle[c.dev], LifecycleTarget(c.action))
  /\ c.action = "disable" => ~DeviceAssigned(c.dev)

\* ValidateDeviceLifecycleTransition, and disable and retire refuse a device
\* that is in use.
LifecycleOK(c) ==
  /\ CanTransition(lifecycle[c.dev], LifecycleTarget(c.action))
  /\ c.action \in {"disable", "retire"} => ~DeviceAssigned(c.dev)

\* The unique index of the ledger, and the canonical request hash.
Slot(c) == <<User(c), c.client, c.action, c.key>>
Slots == Users \X Clients \X Actions \X Keys

Hash(c) ==
  CASE c.action = "create" -> <<c.shop>>
    [] c.action = "bind" -> <<c.dev, c.mp>>
    [] c.action = "replace" -> <<c.cur, c.dev>>
    [] c.action = "relocate" -> <<c.cur, c.mp>>
    [] c.action = "unbind" -> <<c.cur>>
    [] OTHER -> <<c.dev>>

Committed(c) == Slot(c) \in DOMAIN ledger

-----------------------------------------------------------------------------
(***************************************************************************)
(* Lock sets.  Rows of the admission are locked session first, then the    *)
(* grants, then devices by id; rows of the work devices first, then points *)
(* by id.                                                                  *)
(***************************************************************************)
Exclusive(r, row) == phase[r] = "lock" \/ row[1] = "session"

\* Faulty variants: the grants, or the devices, are read without a lock; a
\* lifecycle command shares its device as well.
AdmissionRows_NoGrants(c) ==
  {<<"session", c.session>>}
    \cup (IF c.action \in BindingActions THEN {"device"} \X DevicesOf(c) ELSE {})
AdmissionRows_NoShare(c) == {<<"session", c.session>>, <<"scope", User(c)>>}
AdmissionRows_ShareAll(c) ==
  AdmissionRows_NoShare(c) \cup ({"device"} \X DevicesOf(c))

AdmissionRows(c) ==
  {<<"session", c.session>>, <<"scope", User(c)>>}
    \cup (IF c.action \in BindingActions THEN {"device"} \X DevicesOf(c) ELSE {})

\* Faulty variants: the points, or the devices, are not locked.
WorkRows_NoPoints(c) == {"device"} \X DevicesOf(c)
WorkRows_NoDevices(c) == {"point"} \X PointsOf(c)

WorkRows(c) == ({"device"} \X DevicesOf(c)) \cup ({"point"} \X PointsOf(c))

Needed(r) == IF phase[r] = "admit" THEN AdmissionRows(cmd[r]) ELSE WorkRows(cmd[r])

Holds(r, row) ==
  IF Exclusive(r, row) THEN xlock[row] = r ELSE r \in slock[row]

Outstanding(r) == {row \in Needed(r) : ~Holds(r, row)}

Stage(row) == CASE row[1] = "session" -> 1
                [] row[1] = "scope" -> 2
                [] row[1] = "device" -> 3
                [] OTHER -> 4

Before(x, y) ==
  \/ Stage(x) < Stage(y)
  \/ Stage(x) = Stage(y) /\ Stage(x) \in {3, 4} /\ x[2] < y[2]

IsNext(r, row) ==
  /\ row \in Outstanding(r)
  /\ \A x \in Outstanding(r) : ~Before(x, row)

Free(r, row) == IF Exclusive(r, row) THEN FreeX(r, row) ELSE FreeS(r, row)

\* What a row must show when it has been locked during admission.
Admits(r, row) ==
  LET c == cmd[r] IN
  CASE row[1] = "session" -> session[c.session] = "live"
    [] row[1] = "scope" -> /\ scope[User(c)] # {}
                           /\ Authorized(c)
    [] OTHER -> OwnerOf[row[2]] = c.client

\* The ledger row a request has inserted and not yet committed.
HasClaimed(r) == phase[r] \in {"lock", "applied"}

-----------------------------------------------------------------------------
(***************************************************************************)
(* Steps of a request                                                      *)
(***************************************************************************)
Finish(r, what, op) ==
  /\ phase' = [phase EXCEPT ![r] = "done"]
  /\ outcome' = [outcome EXCEPT ![r] = what]
  /\ response' = [response EXCEPT ![r] = op]
  /\ ReleaseLocks(r)
  /\ UNCHANGED <<cmd, attempt, sampled>>

Goto(r, where) ==
  /\ phase' = [phase EXCEPT ![r] = where]
  /\ UNCHANGED <<cmd, attempt, sampled, outcome, response, lockVars>>

KeepStore == UNCHANGED <<clock, catalogVars, assign, readings>>
KeepDatabase == KeepStore /\ UNCHANGED <<ledgerVars, authorityVars>>

\* The HTTP handler resolves the targets and derives the actor's scope.
Submit(r, c) ==
  /\ phase[r] = "new"
  /\ Resolvable(c)
  /\ session[c.session] = "live"
  /\ Authorized(c)
  /\ phase' = [phase EXCEPT ![r] = "admit"]
  /\ cmd' = [cmd EXCEPT ![r] = c]
  /\ attempt' = [attempt EXCEPT ![r] = 1]
  /\ UNCHANGED <<sampled, outcome, response, lockVars>>
  /\ KeepDatabase

Acquire(r, row) ==
  /\ phase[r] \in {"admit", "lock"}
  /\ IsNext(r, row)
  /\ Free(r, row)
  /\ phase[r] = "admit" => Admits(r, row)
  /\ IF Exclusive(r, row) THEN LockX(r, row) ELSE LockS(r, row)
  /\ UNCHANGED requestVars
  /\ KeepDatabase

\* revalidateAdminSession, revalidateAdminActor, authorizeActorTx: the locked
\* row no longer authorises the request.
Deny(r, row) ==
  /\ phase[r] = "admit"
  /\ IsNext(r, row)
  /\ Free(r, row)
  /\ ~Admits(r, row)
  /\ Finish(r, "forbidden", {})
  /\ KeepDatabase

\* Faulty variant: the request hash is not compared.
Replay_AnyHash(r) ==
  /\ Committed(cmd[r])
  /\ Finish(r, "replayed", {ledger[Slot(cmd[r])].op})
  /\ KeepDatabase

\* A committed ledger row answers the request: the stored response, or a
\* refusal when the key was used for a different request.
Replay(r) ==
  /\ Committed(cmd[r])
  /\ LET entry == ledger[Slot(cmd[r])] IN
     IF entry.hash = Hash(cmd[r])
     THEN Finish(r, "replayed", {entry.op})
     ELSE Finish(r, "reused", {})
  /\ KeepDatabase

\* LoadAdminBindingOperation
Load(r) ==
  /\ phase[r] = "admit"
  /\ Outstanding(r) = {}
  /\ \/ Replay(r)
     \/ /\ ~Committed(cmd[r])
        /\ Goto(r, IF cmd[r].action \in BindingActions THEN "resolve" ELSE "claim")
        /\ KeepDatabase

\* resolveClient: a binding command is planned before the ledger row is
\* claimed, by statements of their own that see what has committed since.
Resolve(r) ==
  /\ phase[r] = "resolve"
  /\ IF PlanOK(cmd[r]) THEN Goto(r, "claim") ELSE Finish(r, "refused", {})
  /\ KeepDatabase

\* ClaimAdminBindingOperation waits for a transaction that has inserted the
\* same key, and loses to it if it commits.  A binding command is then
\* planned again, to learn which rows to lock.
Claim(r) ==
  /\ phase[r] = "claim"
  /\ \A q \in Requests \ {r} : HasClaimed(q) => Slot(cmd[q]) # Slot(cmd[r])
  /\ \/ Replay(r)
     \/ /\ ~Committed(cmd[r])
        /\ IF cmd[r].action \in LifecycleActions \/ PlanOK(cmd[r])
           THEN Goto(r, "lock")
           ELSE Finish(r, "refused", {})
        /\ KeepDatabase

\* The assignment row an in-transaction insert would add.
NewRow(r) ==
  LET c == cmd[r] IN
  [dev |-> IF c.action = "relocate" THEN assign[c.cur].dev ELSE c.dev,
   mp |-> IF c.action = "replace" THEN assign[c.cur].mp ELSE c.mp,
   from |-> sampled[r], to |-> NULL]

\* Faulty variant: the assignment that ends is deleted.
Written_Deletes(r) ==
  [a \in (rows \ (IF Moves(cmd[r]) THEN {cmd[r].cur} ELSE {}))
           \cup (IF Inserts(cmd[r]) THEN {r} ELSE {}) |->
     IF a = r THEN NewRow(r) ELSE assign[a]]

\* The assignment table as the transaction would leave it.
Written(r) ==
  [a \in rows \cup (IF Inserts(cmd[r]) THEN {r} ELSE {}) |->
     IF a = r THEN NewRow(r)
     ELSE IF Moves(cmd[r]) /\ a = cmd[r].cur THEN [assign[a] EXCEPT !.to = sampled[r]]
     ELSE assign[a]]

\* Nothing the executor checks after its locks forbids the transition at t.
Transition(c, t) ==
  /\ c.action \in BindingActions => PlanOK(c)
  /\ c.action \in LifecycleActions => LifecycleOK(c)
  /\ Moves(c) => /\ t > assign[c.cur].from
                 /\ ~HasCommittedTelemetryConflict(c.cur, t)

\* Faulty variants: a clock that runs ahead of the database; a refusal that
\* leaves the transaction open.
Apply_Ahead(r) ==
  /\ phase[r] = "lock"
  /\ Outstanding(r) = {}
  /\ IF Transition(cmd[r], clock)
     THEN /\ sampled' = [sampled EXCEPT
                           ![r] = IF clock < MaxTime THEN clock + 1 ELSE clock]
          /\ phase' = [phase EXCEPT ![r] = "applied"]
          /\ UNCHANGED <<cmd, attempt, outcome, response, lockVars>>
     ELSE Finish(r, "refused", {})
  /\ KeepDatabase
Apply_KeepsLocks(r) ==
  /\ phase[r] = "lock"
  /\ Outstanding(r) = {}
  /\ IF Transition(cmd[r], clock)
     THEN /\ sampled' = [sampled EXCEPT ![r] = clock]
          /\ phase' = [phase EXCEPT ![r] = "applied"]
          /\ UNCHANGED <<cmd, attempt, outcome, response, lockVars>>
     ELSE /\ phase' = [phase EXCEPT ![r] = "done"]
          /\ outcome' = [outcome EXCEPT ![r] = "refused"]
          /\ UNCHANGED <<cmd, attempt, sampled, response, lockVars>>
  /\ KeepDatabase

\* Every row is locked: plan again, sample the clock, write.
Apply(r) ==
  /\ phase[r] = "lock"
  /\ Outstanding(r) = {}
  /\ IF Transition(cmd[r], clock)
     THEN /\ sampled' = [sampled EXCEPT ![r] = clock]
          /\ phase' = [phase EXCEPT ![r] = "applied"]
          /\ UNCHANGED <<cmd, attempt, outcome, response, lockVars>>
     ELSE Finish(r, "refused", {})
  /\ KeepDatabase

\* Faulty variant: only unbind names the assignment it closed.
AuditRow_NoOld(r) ==
  LET c == cmd[r] IN
  [op |-> r, action |-> c.action, user |-> User(c), at |-> sampled[r],
   old |-> IF c.action = "unbind" THEN {c.cur} ELSE {},
   new |-> IF Inserts(c) THEN {r} ELSE {}]

AuditRow(r) ==
  LET c == cmd[r] IN
  [op |-> r, action |-> c.action, user |-> User(c), at |-> sampled[r],
   old |-> IF Moves(c) THEN {c.cur} ELSE {},
   new |-> IF Inserts(c) THEN {r} ELSE {}]

\* The exclusion constraints refuse a row that would overlap another one.
ConstraintsHold(table) ==
  \A a, b \in DOMAIN table : a # b => Excludes(table[a], table[b])

Install(r) ==
  LET c == cmd[r] IN
  /\ assign' = Written(r)
  /\ shopOf' = IF c.action = "create"
               THEN [shopOf EXCEPT ![NewPoint[r]] = c.shop] ELSE shopOf
  /\ settings' = IF c.action = "create"
                 THEN [settings EXCEPT ![NewPoint[r]] = "off"] ELSE settings
  /\ lifecycle' = IF c.action \in LifecycleActions
                  THEN [lifecycle EXCEPT ![c.dev] = LifecycleTarget(c.action)]
                  ELSE lifecycle
  /\ ledger' = [s \in DOMAIN ledger \cup {Slot(c)} |->
                  IF s = Slot(c) THEN [op |-> r, hash |-> Hash(c), at |-> sampled[r]]
                  ELSE ledger[s]]
  /\ audit' = IF c.action \in BindingActions THEN audit \cup {AuditRow(r)}
              ELSE audit
  /\ Finish(r, "ok", {r})
  /\ UNCHANGED <<clock, readings, authorityVars>>

Commit(r) ==
  /\ phase[r] = "applied"
  /\ IF ConstraintsHold(Written(r))
     THEN Install(r)
     ELSE Finish(r, "overlap", {}) /\ KeepDatabase

\* The connection drops, the context ends or the server dies: ROLLBACK.
Abort(r) ==
  /\ phase[r] \in InTx
  /\ Finish(r, "failed", {})
  /\ KeepDatabase

-----------------------------------------------------------------------------
(***************************************************************************)
(* Deadlocks.  PostgreSQL aborts one transaction of a waits-for cycle with *)
(* 40P01.                                                                  *)
(***************************************************************************)
WaitsFor(r, q) ==
  /\ r # q
  /\ \/ /\ phase[r] \in {"admit", "lock"}
        /\ \E row \in Outstanding(r) :
              /\ IsNext(r, row)
              /\ \/ xlock[row] = q
                 \/ Exclusive(r, row) /\ q \in slock[row]
     \/ /\ phase[r] = "claim"
        /\ q \in Requests /\ HasClaimed(q)
        /\ Slot(cmd[q]) = Slot(cmd[r])

\* r is on a cycle: it belongs to a strongly connected set of waiters.
InDeadlock(r) ==
  \E S \in SUBSET Requests :
     /\ r \in S
     /\ Cardinality(S) > 1
     /\ \A T \in (SUBSET S) \ {{}, S} :
           \E p \in T, q \in S \ T : WaitsFor(p, q)

\* run retries the whole transaction of a binding command, but only when the
\* error still carries its cause: admission replaces it by a domain error.
Retriable(r) == cmd[r].action \in BindingActions /\ phase[r] # "admit"

\* Faulty variants: the retries are not bounded, or not counted.
DeadlockVictim_Unbounded(r) ==
  /\ InDeadlock(r)
  /\ IF Retriable(r)
     THEN /\ phase' = [phase EXCEPT ![r] = "admit"]
          /\ attempt' = [attempt EXCEPT ![r] = @ + 1]
          /\ ReleaseLocks(r)
          /\ UNCHANGED <<cmd, sampled, outcome, response>>
     ELSE Finish(r, "deadlock", {})
  /\ KeepDatabase
DeadlockVictim_Uncounted(r) ==
  /\ InDeadlock(r)
  /\ phase' = [phase EXCEPT ![r] = "admit"]
  /\ ReleaseLocks(r)
  /\ UNCHANGED <<cmd, attempt, sampled, outcome, response>>
  /\ KeepDatabase

DeadlockVictim(r) ==
  /\ InDeadlock(r)
  /\ IF Retriable(r) /\ attempt[r] < MaxAttempts
     THEN /\ phase' = [phase EXCEPT ![r] = "admit"]
          /\ attempt' = [attempt EXCEPT ![r] = @ + 1]
          /\ ReleaseLocks(r)
          /\ UNCHANGED <<cmd, sampled, outcome, response>>
     ELSE Finish(r, IF Retriable(r) THEN "concurrent" ELSE "deadlock", {})
  /\ KeepDatabase

-----------------------------------------------------------------------------
(***************************************************************************)
(* The authority rows change under the requests.  Each change is an UPDATE *)
(* and waits for the locks on its row; expiry is the passing of time and   *)
(* waits for nothing.                                                      *)
(***************************************************************************)
Withdrawn ==
  Cardinality({s \in Sessions : session[s] # "live"})
    + Cardinality({g \in Users \X Shops : g[2] \notin scope[g[1]]})

RevokeSession(s) ==
  /\ session[s] # "revoked"
  /\ session[s] = "live" => Withdrawn < MaxWithdrawn
  /\ FreeX(NoTx, <<"session", s>>)
  /\ session' = [session EXCEPT ![s] = "revoked"]
  /\ UNCHANGED <<requestVars, ledgerVars, scope, lockVars>>
  /\ KeepStore

ExpireSession(s) ==
  /\ session[s] = "live"
  /\ Withdrawn < MaxWithdrawn
  /\ session' = [session EXCEPT ![s] = "expired"]
  /\ UNCHANGED <<requestVars, ledgerVars, scope, lockVars>>
  /\ KeepStore

RevokeScope(u, shop) ==
  /\ shop \in scope[u]
  /\ Withdrawn < MaxWithdrawn
  /\ FreeX(NoTx, <<"scope", u>>)
  /\ scope' = [scope EXCEPT ![u] = @ \ {shop}]
  /\ UNCHANGED <<requestVars, ledgerVars, session, lockVars>>
  /\ KeepStore

-----------------------------------------------------------------------------
AdminTypeOK ==
  /\ phase \in [Requests -> Phases]
  /\ cmd \in [Requests -> Commands \cup {NoCommand}]
  /\ \A r \in Requests : phase[r] # "new" => cmd[r] \in Commands
  /\ attempt \in [Requests -> 0 .. MaxAttempts]
  /\ sampled \in [Requests -> Time]
  /\ outcome \in [Requests -> Outcomes]
  /\ response \in [Requests -> SUBSET Requests]
  /\ DOMAIN ledger \subseteq Slots
  /\ \A s \in DOMAIN ledger : ledger[s].op \in Requests
  /\ session \in [Sessions -> {"live", "expired", "revoked"}]
  /\ scope \in [Users -> SUBSET Shops]

AdminInit ==
  /\ phase = [r \in Requests |-> "new"]
  /\ cmd = [r \in Requests |-> NoCommand]
  /\ attempt = [r \in Requests |-> 0]
  /\ sampled = [r \in Requests |-> 0]
  /\ outcome = [r \in Requests |-> "none"]
  /\ response = [r \in Requests |-> {}]
  /\ ledger = [s \in {} |-> {}]
  /\ audit = {}
  /\ session = [s \in Sessions |-> "live"]
  /\ scope = [u \in Users |-> Shops]

Work(r) ==
  \/ \E row \in Rows : Acquire(r, row) \/ Deny(r, row)
  \/ Load(r)
  \/ Resolve(r)
  \/ Claim(r)
  \/ Apply(r)
  \/ Commit(r)
  \/ DeadlockVictim(r)

=============================================================================
