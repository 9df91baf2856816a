-------------------------- MODULE PlacementProofs ---------------------------
(***************************************************************************)
(* What is proved about PlacementSystem for every number of devices,       *)
(* points, requests, workers and commands: the consistency of the          *)
(* assignments, that placement implements the registry, the action         *)
(* properties that follow from the same invariant, and the books: the      *)
(* idempotency ledger, the audit and the authority of a request.           *)
(*                                                                         *)
(* Then what telemetry leaves behind: readings, ingest keys,               *)
(* acknowledgements, presence and alerts, beside the administrative        *)
(* transactions that move the devices.  And that every deadlock of the two *)
(* kinds of transactions is an upgrade of a shared lock.                   *)
(***************************************************************************)
EXTENDS PlacementSystem, FiniteSetTheorems, TLAPS

(***************************************************************************)
(* The inductive invariant.  A request that has applied its command holds  *)
(* every row it works on FOR UPDATE, so what it checked under those locks  *)
(* is still true of the committed rows.                                    *)
(***************************************************************************)
Clear(r) ==
  \A b \in rows :
     assign[b].dev = NewRow(r).dev \/ assign[b].mp = NewRow(r).mp =>
        \/ Moves(cmd[r]) /\ b = cmd[r].cur
        \/ assign[b].to # NULL /\ assign[b].to <= sampled[r]

Ready(r) ==
  /\ \A row \in WorkRows(cmd[r]) : xlock[row] = r
  /\ sampled[r] <= clock
  /\ Moves(cmd[r]) => IsCurrent(cmd[r].cur) /\ assign[cmd[r].cur].from < sampled[r]
  /\ Inserts(cmd[r]) => Clear(r)
  /\ cmd[r].action = "replace" => cmd[r].dev # assign[cmd[r].cur].dev
  /\ cmd[r].action = "relocate" => cmd[r].mp # assign[cmd[r].cur].mp
  /\ cmd[r].action \in {"bind", "replace"} => lifecycle[cmd[r].dev] = "ACTIVE"
  /\ cmd[r].action \in LifecycleActions => LifecycleOK(cmd[r])

AppliedIsReady == \A r \in Requests : phase[r] = "applied" => Ready(r)

\* The row a request inserts is new until the request is done.
RowIdsAreFresh == \A r \in Requests : r \in rows => phase[r] = "done"

Safe ==
  /\ TypeOK
  /\ NoOverlap
  /\ AssignedDeviceInService
  /\ RowIdsAreFresh
  /\ AppliedIsReady

-----------------------------------------------------------------------------
(***************************************************************************)
(* Type correctness                                                        *)
(***************************************************************************)
LockTypes ==
  /\ xlock \in [Rows -> Txs \cup {NoTx}]
  /\ slock \in [Rows -> SUBSET Txs]

\* The part of the type invariant that a request's own step may disturb.
RequestTypes ==
  /\ phase \in [Requests -> Phases]
  /\ cmd \in [Requests -> Commands \cup {NoCommand}]
  /\ \A r \in Requests : phase[r] # "new" => cmd[r] \in Commands
  /\ attempt \in [Requests -> 0 .. MaxAttempts]
  /\ sampled \in [Requests -> Time]
  /\ outcome \in [Requests -> Outcomes]
  /\ response \in [Requests -> SUBSET Requests]

\* No lock FOR UPDATE of another transaction than t is lost.
OthersKeepLocks(t) ==
  \A row \in Rows : xlock[row] \notin {NoTx, t} => xlock'[row] = xlock[row]

\* COMMIT or ROLLBACK of a transaction (ReleaseLocks) takes no lock FOR UPDATE
\* from another transaction.
LEMMA ReleaseIsLocal ==
  ASSUME NEW t, ReleaseLocks(t)
  PROVE  OthersKeepLocks(t)
  BY DEF ReleaseLocks, OthersKeepLocks

\* Neither does SELECT ... FOR UPDATE of a row that is free, nor FOR SHARE.
LEMMA AcquireIsLocal ==
  ASSUME LockTypes, NEW t, NEW row \in Rows,
         (FreeX(t, row) /\ LockX(t, row)) \/ LockS(t, row)
  PROVE  OthersKeepLocks(t)
  BY DEF FreeX, LockX, LockS, OthersKeepLocks, LockTypes

\* COMMIT and ROLLBACK (ReleaseLocks) keep the lock table well typed.
LEMMA ReleaseTypes ==
  ASSUME LockTypes, NEW t \in Txs, ReleaseLocks(t)
  PROVE  LockTypes'
  BY DEF LockTypes, ReleaseLocks

\* Taking a row FOR UPDATE or FOR SHARE keeps the lock table well typed.
LEMMA AcquireTypes ==
  ASSUME LockTypes, NEW t \in Txs, NEW row \in Rows, LockX(t, row) \/ LockS(t, row)
  PROVE  LockTypes'
  BY DEF LockTypes, LockX, LockS

\* Returning to the caller of run or transition (Finish) keeps the record of
\* a request and the lock table well typed.
LEMMA FinishTypes ==
  ASSUME RequestTypes, LockTypes, NEW r \in Requests, phase[r] # "new",
         NEW what \in Outcomes, NEW op \in SUBSET Requests,
         Finish(r, what, op)
  PROVE  RequestTypes' /\ LockTypes'
  <1>1. RequestTypes'
    BY DEF RequestTypes, Finish, Phases
  <1>2. LockTypes'
    BY ReleaseTypes DEF Finish, Txs
  <1> QED BY <1>1, <1>2

\* Moving a request on inside executeClaimed (Goto) keeps its record well
\* typed.
LEMMA GotoTypes ==
  ASSUME RequestTypes, LockTypes, NEW r \in Requests, phase[r] # "new",
         NEW where \in Phases, Goto(r, where)
  PROVE  RequestTypes' /\ LockTypes'
  BY DEF RequestTypes, LockTypes, Goto, Phases, lockVars

\* What the type invariant says of the committed rows and of authority.
DatabaseTypes ==
  /\ clock \in Time
  /\ lifecycle \in [Devices -> Lifecycles]
  /\ shopOf \in [Points -> Shops \cup {NoShop}]
  /\ settings \in [Points -> Settings]
  /\ rows \subseteq AssignmentIds
  /\ assign \in [rows -> AssignmentRow]
  /\ DOMAIN ledger \subseteq Slots
  /\ \A s \in DOMAIN ledger : ledger[s].op \in Requests
  /\ session \in [Sessions -> {"live", "expired", "revoked"}]
  /\ scope \in [Users -> SUBSET Shops]

\* The type invariant in the four parts that the code writes separately: the
\* lock table, the request records, the database rows and the workers.
LEMMA TypeParts ==
  TypeOK <=> DatabaseTypes /\ RequestTypes /\ LockTypes /\ IngestTypeOK
  BY DEF TypeOK, StoreTypeOK, AdminTypeOK, DatabaseTypes, RequestTypes, LockTypes

\* The same split of the type invariant in the next state.
LEMMA TypePartsNext ==
  TypeOK' <=> DatabaseTypes' /\ RequestTypes' /\ LockTypes' /\ IngestTypeOK'
  BY DEF TypeOK, StoreTypeOK, AdminTypeOK, DatabaseTypes, RequestTypes, LockTypes

\* A statement that writes no committed row (every step of executeClaimed
\* short of COMMIT) keeps the database well typed.
LEMMA KeepDatabaseTypes ==
  ASSUME DatabaseTypes, KeepDatabase
  PROVE  DatabaseTypes'
  BY DEF DatabaseTypes, KeepDatabase, KeepStore, ledgerVars, authorityVars,
         catalogVars, rows

\* A command the HTTP handler has accepted names an existing session, user,
\* device and point.
LEMMA CommandTypes ==
  ASSUME RequestTypes, NEW r \in Requests, phase[r] # "new"
  PROVE  /\ cmd[r] \in CommandType
         /\ User(cmd[r]) \in Users
         /\ Slot(cmd[r]) \in Slots
  <1>1. cmd[r] \in CommandType
    BY CommandAssumption DEF RequestTypes
  <1>2. User(cmd[r]) \in Users
    BY <1>1, StoreAssumption DEF CommandType, User
  <1>3. Slot(cmd[r]) \in Slots
    BY <1>1, <1>2 DEF CommandType, Slot, Slots
  <1> QED BY <1>1, <1>2, <1>3

\* The assignment table that bind, replace, relocate or unbind writes at
\* COMMIT is well typed.
LEMMA WrittenTypes ==
  ASSUME DatabaseTypes, RequestTypes, NEW r \in Requests, phase[r] # "new",
         r \notin rows, Moves(cmd[r]) => cmd[r].cur \in rows
  PROVE  /\ DOMAIN Written(r) \subseteq AssignmentIds
         /\ Written(r) \in [DOMAIN Written(r) -> AssignmentRow]
  <1>1. cmd[r] \in CommandType
    BY CommandTypes
  <1>2. \A a \in rows : assign[a] \in AssignmentRow
    BY DEF DatabaseTypes
  <1>3. sampled[r] \in Time
    BY DEF RequestTypes
  <1>4. Inserts(cmd[r]) => NewRow(r) \in AssignmentRow
    <2> SUFFICES ASSUME Inserts(cmd[r]) PROVE NewRow(r) \in AssignmentRow
      OBVIOUS
    <2>1. CASE cmd[r].action = "bind"
      BY <2>1, <1>1, <1>3 DEF NewRow, AssignmentRow, CommandType
    <2>2. CASE cmd[r].action = "replace"
      <3>1. assign[cmd[r].cur] \in AssignmentRow
        BY <2>2, <1>2 DEF Moves
      <3> QED BY <2>2, <3>1, <1>1, <1>3 DEF NewRow, AssignmentRow, CommandType
    <2>3. CASE cmd[r].action = "relocate"
      <3>1. assign[cmd[r].cur] \in AssignmentRow
        BY <2>3, <1>2 DEF Moves
      <3> QED BY <2>3, <3>1, <1>1, <1>3 DEF NewRow, AssignmentRow, CommandType
    <2> QED BY <2>1, <2>2, <2>3 DEF Inserts
  <1>5. \A a \in rows : [assign[a] EXCEPT !.to = sampled[r]] \in AssignmentRow
    BY <1>2, <1>3 DEF AssignmentRow
  <1>6. DOMAIN Written(r) = rows \cup (IF Inserts(cmd[r]) THEN {r} ELSE {})
    BY DEF Written
  <1>7. DOMAIN Written(r) \subseteq AssignmentIds
    BY <1>6 DEF DatabaseTypes, AssignmentIds
  <1>8. \A a \in DOMAIN Written(r) : Written(r)[a] \in AssignmentRow
    <2> SUFFICES ASSUME NEW a \in DOMAIN Written(r)
                 PROVE  Written(r)[a] \in AssignmentRow
      OBVIOUS
    <2>1. Written(r)[a] = IF a = r THEN NewRow(r)
                          ELSE IF Moves(cmd[r]) /\ a = cmd[r].cur
                               THEN [assign[a] EXCEPT !.to = sampled[r]]
                               ELSE assign[a]
      BY <1>6 DEF Written
    <2>2. CASE a = r
      BY <2>1, <2>2, <1>4, <1>6
    <2>3. CASE a # r
      <3>1. a \in rows
        BY <2>3, <1>6
      <3> QED BY <2>1, <2>3, <3>1, <1>2, <1>5
    <2> QED BY <2>2, <2>3
  <1> QED BY <1>7, <1>8, <1>6 DEF Written

-----------------------------------------------------------------------------
(***************************************************************************)
(* Workers: their steps are well typed and leave assignments, lifecycle,   *)
(* clock and the locks of others alone.                                    *)
(***************************************************************************)
WorkerTypes ==
  /\ stage \in [Workers -> Stages]
  /\ msg \in [Workers -> Messages \cup {Idle}]
  /\ \A w \in Workers : stage[w] # "idle" => msg[w] \in Messages
  /\ recv \in [Workers -> Time]
  /\ result \in [Workers -> Statuses]

PresenceTypes ==
  /\ online \in [Devices -> BOOLEAN]
  /\ lastSeen \in [Devices -> Time \cup {NULL}]

CurfewTypes == curfew \in [Points -> [in : BOOLEAN, last : Time \cup {NULL}]]

AckTypes == acks \subseteq Messages \X Statuses

\* The type invariant of the ingest service without its lock table: the part
\* that only IngestContext, storeLegacyTelemetry and processStatus write.
LEMMA IngestParts ==
  IngestTypeOK <=> WorkerTypes /\ PresenceTypes /\ CurfewTypes /\ AckTypes
  BY DEF IngestTypeOK, WorkerTypes, PresenceTypes, CurfewTypes, AckTypes

\* Ending an ingest transaction with a status for the device (Answer) keeps
\* the worker and the lock table well typed.
LEMMA AnswerTypes ==
  ASSUME WorkerTypes, LockTypes, AckTypes, NEW w \in Workers, stage[w] # "idle",
         NEW status \in Statuses, Answer(w, status)
  PROVE  WorkerTypes' /\ LockTypes' /\ AckTypes'
  <1>1. LockTypes'
    BY ReleaseTypes DEF Answer, Txs
  <1>2. WorkerTypes'
    BY DEF WorkerTypes, Answer, Stages
  <1>3. AckTypes'
    BY DEF AckTypes, Answer
  <1> QED BY <1>1, <1>2, <1>3

\* Handing a worker back to the queue (GoIdle) keeps it and the lock table
\* well typed.
LEMMA GoIdleTypes ==
  ASSUME WorkerTypes, LockTypes, NEW w \in Workers, GoIdle(w)
  PROVE  WorkerTypes' /\ LockTypes'
  <1>1. LockTypes'
    BY ReleaseTypes DEF GoIdle, Txs
  <1>2. WorkerTypes'
    BY StoreAssumption DEF WorkerTypes, GoIdle, Stages, Statuses, Time
  <1> QED BY <1>1, <1>2

\* An ingest transaction that fails (Drop) keeps every type: it rolls back.
LEMMA DropTypes ==
  ASSUME IngestTypeOK, LockTypes, NEW w \in Workers, Drop(w)
  PROVE  IngestTypeOK' /\ LockTypes' /\ KeepRows
  <1>1. WorkerTypes' /\ LockTypes'
    BY GoIdleTypes, IngestParts DEF Drop
  <1>2. PresenceTypes' /\ CurfewTypes' /\ AckTypes'
    BY IngestParts DEF Drop, PresenceTypes, CurfewTypes, AckTypes, presenceVars, alertVars
  <1>3. IngestTypeOK'
    BY <1>1, <1>2 DEF IngestTypeOK, WorkerTypes, PresenceTypes, CurfewTypes, AckTypes
  <1> QED BY <1>1, <1>3 DEF Drop

\* markDeviceSeen keeps presence well typed.
LEMMA MarkSeenTypes ==
  ASSUME PresenceTypes, NEW d, NEW t \in Time, MarkSeen(d, t)
  PROVE  PresenceTypes'
  BY DEF PresenceTypes, MarkSeen

\* telemetryTimeAt yields a time, be it of the device or of the receiver.
LEMMA MessageTimes ==
  ASSUME WorkerTypes, NEW w \in Workers, stage[w] # "idle"
  PROVE  msg[w] \in MessageType /\ recv[w] \in Time /\ RecordedAt(w) \in Time
  <1>1. msg[w] \in MessageType /\ recv[w] \in Time
    BY IngestAssumption DEF WorkerTypes
  <1>2. msg[w].at \in Time \cup {NULL}
    BY <1>1 DEF MessageType
  <1> QED BY <1>1, <1>2 DEF RecordedAt

\* checkTelemetryAlerts keeps the curfew states well typed.
LEMMA CheckAlertsTypes ==
  ASSUME WorkerTypes, CurfewTypes, NEW w \in Workers, stage[w] # "idle",
         NEW m, CheckAlerts(m, w)
  PROVE  CurfewTypes'
  <1>1. RecordedAt(w) \in Time /\ msg[w].high \in BOOLEAN
    BY MessageTimes DEF MessageType
  <1> QED BY <1>1 DEF CurfewTypes, CheckAlerts

\* Every step of an MQTT worker keeps the types and touches no committed
\* assignment, lifecycle, clock or lock of a request.
LEMMA WorkerStep ==
  ASSUME TypeOK, NEW w \in Workers,
         \/ Process(w) \/ WorkerFails(w)
         \/ \E m \in Messages : Receive(w, m)
  PROVE  IngestTypeOK' /\ LockTypes' /\ KeepRows /\ OthersKeepLocks(w)
  <1> USE DEF presenceVars, alertVars, workerVars
  <1>0. /\ WorkerTypes /\ PresenceTypes /\ CurfewTypes /\ AckTypes
        /\ IngestTypeOK /\ LockTypes
    BY TypeParts, IngestParts
  <1>i. (WorkerTypes' /\ PresenceTypes' /\ CurfewTypes' /\ AckTypes') => IngestTypeOK'
    BY DEF IngestTypeOK, WorkerTypes, PresenceTypes, CurfewTypes, AckTypes
  <1>p. (UNCHANGED presenceVars) => PresenceTypes'
    BY <1>0 DEF PresenceTypes
  <1>c. (UNCHANGED curfew) => CurfewTypes'
    BY <1>0 DEF CurfewTypes
  <1>k. (UNCHANGED acks) => AckTypes'
    BY <1>0 DEF AckTypes
  <1>a. ASSUME NEW status \in Statuses, stage[w] # "idle", Answer(w, status)
        PROVE  WorkerTypes' /\ LockTypes' /\ AckTypes' /\ OthersKeepLocks(w)
    BY <1>a, <1>0, AnswerTypes, ReleaseIsLocal DEF Answer
  <1>g. ASSUME GoIdle(w)
        PROVE  WorkerTypes' /\ LockTypes' /\ OthersKeepLocks(w)
    BY <1>g, <1>0, GoIdleTypes, ReleaseIsLocal DEF GoIdle
  <1>d. ASSUME Drop(w)
        PROVE  IngestTypeOK' /\ LockTypes' /\ KeepRows /\ OthersKeepLocks(w)
    BY <1>d, <1>0, DropTypes, ReleaseIsLocal DEF Drop, GoIdle
  <1>s. ASSUME stage[w] # "idle", MarkSeen(msg[w].dev, recv[w])
        PROVE  PresenceTypes'
    BY <1>s, <1>0, MessageTimes, MarkSeenTypes
  <1>r. ASSUME stage[w] # "idle", StoreReading(w)
        PROVE  CurfewTypes'
    BY <1>r, <1>0, CheckAlertsTypes DEF StoreReading
  <1>1. CASE UnknownDevice(w)
    <2>1. CASE Drop(w)
      BY <2>1, <1>d
    <2>2. CASE Answer(w, "unknown_device") /\ UNCHANGED <<presenceVars, alertVars>> /\ KeepRows
      BY <2>2, <1>1, <1>a, <1>i, <1>p, <1>c DEF UnknownDevice, Statuses
    <2> QED BY <1>1, <2>1, <2>2 DEF UnknownDevice
  <1>2. CASE LockDevice(w)
    <2>1. DeviceRow(w) \in Rows
      BY <1>2 DEF LockDevice, DeviceRow, Rows
    <2>2. LockTypes' /\ OthersKeepLocks(w)
      BY <1>2, <2>1, <1>0, AcquireTypes, AcquireIsLocal DEF LockDevice, Txs
    <2>3. WorkerTypes'
      BY <1>2, <1>0 DEF LockDevice, WorkerTypes, Stages
    <2> QED BY <1>2, <2>2, <2>3, <1>i, <1>p, <1>c, <1>k DEF LockDevice
  <1>3. CASE LifecycleBlocked(w)
    <2>1. CASE Drop(w)
      BY <2>1, <1>d
    <2>2. CASE Answer(w, "lifecycle_blocked") /\ UNCHANGED <<presenceVars, alertVars>> /\ KeepRows
      BY <2>2, <1>3, <1>a, <1>i, <1>p, <1>c DEF LifecycleBlocked, Statuses
    <2> QED BY <1>3, <2>1, <2>2 DEF LifecycleBlocked
  <1>4. CASE IntervalRefused(w)
    BY <1>4, <1>d DEF IntervalRefused
  <1>5. CASE Duplicate(w)
    <2>1. stage[w] # "idle" /\ MarkSeen(msg[w].dev, recv[w]) /\ UNCHANGED alertVars /\ KeepRows
      BY <1>5 DEF Duplicate
    <2>2. Answer(w, "duplicate") \/ Answer(w, "conflict")
      BY <1>5 DEF Duplicate
    <2>3. WorkerTypes' /\ LockTypes' /\ AckTypes' /\ OthersKeepLocks(w)
      BY <2>1, <2>2, <1>a DEF Statuses
    <2> QED BY <2>1, <2>3, <1>s, <1>c, <1>i
  <1>6. CASE UnknownAssignment(w)
    BY <1>6, <1>a, <1>i, <1>p, <1>c DEF UnknownAssignment, Statuses
  <1>7. CASE Store(w)
    <2>1. CASE Drop(w)
      BY <2>1, <1>d
    <2>2. CASE ~Drop(w)
      <3>1. /\ stage[w] # "idle" /\ StoreReading(w) /\ MarkSeen(msg[w].dev, recv[w])
            /\ Answer(w, "stored") /\ KeepRows
        BY <1>7, <2>2 DEF Store
      <3> QED BY <3>1, <1>r, <1>s, <1>a, <1>i DEF Statuses
    <2> QED BY <2>1, <2>2
  <1>8. CASE StoreLegacy(w)
    <2>1. CASE Drop(w)
      BY <2>1, <1>d
    <2>2. CASE ~Drop(w)
      <3>1. /\ stage[w] # "idle" /\ MarkSeen(msg[w].dev, recv[w])
            /\ StoreReading(w) \/ UNCHANGED alertVars
            /\ GoIdle(w) /\ UNCHANGED acks /\ KeepRows
        BY <1>8, <2>2 DEF StoreLegacy
      <3> QED BY <3>1, <1>r, <1>c, <1>s, <1>g, <1>k, <1>i
    <2> QED BY <2>1, <2>2
  <1>9. CASE ProcessStatus(w)
    <2>1. stage[w] # "idle" /\ GoIdle(w) /\ UNCHANGED <<alertVars, acks>> /\ KeepRows
      BY <1>9 DEF ProcessStatus
    <2>2. msg[w].high \in BOOLEAN /\ recv[w] \in Time
      BY <2>1, <1>0, MessageTimes DEF MessageType
    <2>3. PresenceTypes'
      BY <1>9, <2>2, <1>0 DEF ProcessStatus, PresenceTypes
    <2> QED BY <2>1, <2>3, <1>g, <1>c, <1>k, <1>i
  <1>10. CASE Publish(w)
    <2>1. /\ stage[w] # "idle" /\ GoIdle(w) /\ KeepRows
          /\ UNCHANGED <<presenceVars, alertVars>>
          /\ acks' = acks \cup {<<msg[w], result[w]>>}
      BY <1>10 DEF Publish
    <2>2. msg[w] \in Messages /\ result[w] \in Statuses
      BY <2>1, <1>0 DEF WorkerTypes
    <2>3. AckTypes'
      BY <2>1, <2>2, <1>0 DEF AckTypes
    <2> QED BY <2>1, <2>3, <1>g, <1>p, <1>c, <1>i
  <1>11. CASE WorkerFails(w)
    BY <1>11, <1>d DEF WorkerFails
  <1>12. ASSUME NEW m \in Messages, Receive(w, m)
         PROVE  IngestTypeOK' /\ LockTypes' /\ KeepRows /\ OthersKeepLocks(w)
    <2>1. WorkerTypes'
      <3>1. clock \in Time
        BY TypeParts DEF DatabaseTypes
      <3> QED BY <1>12, <1>0, <3>1 DEF Receive, WorkerTypes, Stages
    <2>2. LockTypes' /\ OthersKeepLocks(w)
      BY <1>12, <1>0 DEF Receive, LockTypes, OthersKeepLocks, lockVars
    <2> QED BY <1>12, <2>1, <2>2, <1>p, <1>c, <1>k, <1>i DEF Receive
  <1> QED BY <1>1, <1>2, <1>3, <1>4, <1>5, <1>6, <1>7, <1>8, <1>9, <1>10, <1>11, <1>12
          DEF Process

-----------------------------------------------------------------------------
(***************************************************************************)
(* Requests                                                                *)
(***************************************************************************)

\* The devices and points a command locks FOR UPDATE (WorkRows) are rows of
\* the lock table.
LEMMA WorkRowsAreRows ==
  ASSUME DatabaseTypes, NEW c \in CommandType, Moves(c) => c.cur \in rows
  PROVE  /\ DevicesOf(c) \subseteq Devices
         /\ PointsOf(c) \subseteq Points
         /\ WorkRows(c) \subseteq Rows
  <1>1. /\ c.action \in Actions /\ c.dev \in Devices /\ c.mp \in Points
        /\ Moves(c) => assign[c.cur].dev \in Devices /\ assign[c.cur].mp \in Points
    <2>1. Moves(c) => assign[c.cur] \in AssignmentRow
      BY DEF DatabaseTypes
    <2> QED BY <2>1 DEF CommandType, AssignmentRow
  <1>2. DevicesOf(c) \subseteq Devices
    BY <1>1 DEF DevicesOf, Moves, Actions, BindingActions, LifecycleActions
  <1>3. PointsOf(c) \subseteq Points
    BY <1>1 DEF PointsOf, Moves, Actions, BindingActions, LifecycleActions
  <1> QED BY <1>2, <1>3 DEF WorkRows, Rows

\* A step keeps Safe when it leaves the assignments and the lifecycle alone,
\* takes no lock from a request at the point of commit, and brings another
\* one there only when it is ready.
LEMMA FrameKeepsSafe ==
  ASSUME Safe, TypeOK', UNCHANGED <<assign, lifecycle>>, clock <= clock',
         \A r \in Requests :
            /\ phase[r] = "done" => phase'[r] = "done"
            /\ phase'[r] = "applied" =>
                 \/ Ready(r)'
                 \/ /\ phase[r] = "applied"
                    /\ cmd'[r] = cmd[r] /\ sampled'[r] = sampled[r]
                    /\ \A row \in Rows : xlock[row] = r => xlock'[row] = r
  PROVE  Safe'
  <1>0. clock \in Time /\ clock' \in Time
    BY DEF Safe, TypeOK, StoreTypeOK
  <1>1. NoOverlap'
    <2>1. \A a \in rows : assign[a] \in AssignmentRow
      BY DEF Safe, TypeOK, StoreTypeOK
    <2>2. \A a \in rows : assign[a].from \in Int /\ assign[a].to \in Int
      BY <2>1 DEF AssignmentRow, Time, NULL
    <2> QED BY <1>0, <2>2 DEF Safe, NoOverlap, ConstraintsHold, rows, Time
  <1>2. AssignedDeviceInService'
    BY DEF Safe, AssignedDeviceInService, IsCurrent, rows
  <1>3. RowIdsAreFresh'
    BY DEF Safe, RowIdsAreFresh, rows
  <1>4. AppliedIsReady'
    <2> SUFFICES ASSUME NEW r \in Requests, phase'[r] = "applied", ~Ready(r)'
                 PROVE  Ready(r)'
      BY DEF AppliedIsReady
    <2>1. /\ phase[r] = "applied" /\ cmd'[r] = cmd[r] /\ sampled'[r] = sampled[r]
          /\ \A row \in Rows : xlock[row] = r => xlock'[row] = r
      OBVIOUS
    <2>2. Ready(r)
      BY <2>1 DEF Safe, AppliedIsReady
    <2>3. DatabaseTypes /\ RequestTypes
      BY TypeParts DEF Safe
    <2>4. cmd[r] \in CommandType /\ sampled[r] \in Time
      BY <2>1, <2>3, CommandTypes DEF RequestTypes
    <2>5. WorkRows(cmd[r]) \subseteq Rows
      BY <2>2, <2>3, <2>4, WorkRowsAreRows DEF Ready, IsCurrent
    <2>6. WorkRows(cmd[r])' = WorkRows(cmd[r])
      BY <2>1 DEF WorkRows, DevicesOf, PointsOf
    <2>7. \A row \in WorkRows(cmd[r])' : xlock'[row] = r
      BY <2>1, <2>2, <2>5, <2>6 DEF Ready
    <2>8. (Inserts(cmd[r]) => Clear(r)) => (Inserts(cmd[r]) => Clear(r))'
      BY <2>1 DEF Clear, Inserts, NewRow, Moves, rows
    <2>9. sampled'[r] <= clock'
      BY <1>0, <2>1, <2>2, <2>4 DEF Ready, Time
    <2> QED BY <2>1, <2>2, <2>7, <2>8, <2>9
            DEF Ready, Moves, Inserts, IsCurrent, LifecycleOK, DeviceAssigned, rows
  <1> QED BY <1>1, <1>2, <1>3, <1>4 DEF Safe

\* The workers keep their types across a step of an administrative request.
LEMMA IngestUnchanged ==
  ASSUME IngestTypeOK, UNCHANGED ingestVars
  PROVE  IngestTypeOK'
  BY DEF IngestTypeOK, ingestVars, workerVars, presenceVars, alertVars

\* A request that ends without writing (a refusal, a replay, ROLLBACK) keeps
\* the inductive invariant.
LEMMA FinishKeepsSafe ==
  ASSUME Safe, NEW r \in Requests, phase[r] # "new",
         NEW what \in Outcomes, NEW op \in SUBSET Requests,
         Finish(r, what, op), KeepDatabase, UNCHANGED ingestVars
  PROVE  Safe'
  <1>1. DatabaseTypes /\ RequestTypes /\ LockTypes /\ IngestTypeOK
    BY TypeParts DEF Safe
  <1>2. TypeOK'
    BY <1>1, FinishTypes, KeepDatabaseTypes, IngestUnchanged, TypePartsNext
  <1>3. UNCHANGED <<assign, lifecycle>> /\ clock <= clock'
    BY <1>1 DEF KeepDatabase, KeepStore, catalogVars, DatabaseTypes, Time
  <1>4. OthersKeepLocks(r)
    BY ReleaseIsLocal DEF Finish
  <1>5. ASSUME NEW q \in Requests
        PROVE  /\ phase[q] = "done" => phase'[q] = "done"
               /\ phase'[q] = "applied" =>
                    /\ phase[q] = "applied"
                    /\ cmd'[q] = cmd[q] /\ sampled'[q] = sampled[q]
                    /\ \A row \in Rows : xlock[row] = q => xlock'[row] = q
    <2>1. /\ phase'[q] = (IF q = r THEN "done" ELSE phase[q])
          /\ cmd' = cmd /\ sampled' = sampled
      BY <1>1 DEF Finish, RequestTypes
    <2>2. q # r => \A row \in Rows : xlock[row] = q => xlock'[row] = q
      BY <1>4, StoreAssumption DEF OthersKeepLocks, Txs
    <2> QED BY <2>1, <2>2
  <1> QED BY <1>2, <1>3, <1>5, FrameKeepsSafe

\* So does one that moves on inside executeClaimed, short of the point at
\* which it has written its rows.
LEMMA GotoKeepsSafe ==
  ASSUME Safe, NEW r \in Requests, phase[r] \notin {"new", "done"},
         NEW where \in Phases \ {"applied"},
         Goto(r, where), KeepDatabase, UNCHANGED ingestVars
  PROVE  Safe'
  <1>1. DatabaseTypes /\ RequestTypes /\ LockTypes /\ IngestTypeOK
    BY TypeParts DEF Safe
  <1>2. TypeOK'
    BY <1>1, GotoTypes, KeepDatabaseTypes, IngestUnchanged, TypePartsNext
  <1>3. UNCHANGED <<assign, lifecycle>> /\ clock <= clock'
    BY <1>1 DEF KeepDatabase, KeepStore, catalogVars, DatabaseTypes, Time
  <1>4. ASSUME NEW q \in Requests
        PROVE  /\ phase[q] = "done" => phase'[q] = "done"
               /\ phase'[q] = "applied" =>
                    /\ phase[q] = "applied"
                    /\ cmd'[q] = cmd[q] /\ sampled'[q] = sampled[q]
                    /\ \A row \in Rows : xlock[row] = q => xlock'[row] = q
    BY <1>1 DEF Goto, RequestTypes, lockVars
  <1> QED BY <1>2, <1>3, <1>4, FrameKeepsSafe

\* The exclusion constraints leave a current row of a device or point alone
\* in the present: every other row of it has ended by the time it started.
LEMMA OthersAreOver ==
  ASSUME TypeOK, NoOverlap, NEW a, IsCurrent(a), NEW b \in rows, b # a,
         assign[b].dev = assign[a].dev \/ assign[b].mp = assign[a].mp
  PROVE  assign[b].to # NULL /\ assign[b].to <= assign[a].from
  BY DEF NoOverlap, ConstraintsHold, Excludes, DisjointRows, IsCurrent, rows

\* What the executor checks once its rows are locked (the repeated plan, the
\* clock, HasCommittedTelemetryConflict) makes the request ready to commit.
LEMMA CheckedIsReady ==
  ASSUME Safe, NEW r \in Requests, phase[r] = "lock", Outstanding(r) = {},
         Transition(cmd[r], clock), KeepDatabase,
         cmd' = cmd, UNCHANGED lockVars, sampled'[r] = clock
  PROVE  Ready(r)'
  <1> DEFINE c == cmd[r]
  <1>1. DatabaseTypes /\ RequestTypes
    BY TypeParts DEF Safe
  <1>2. c \in CommandType
    BY <1>1, CommandTypes
  <1>3. UNCHANGED <<assign, lifecycle, clock, xlock>>
    BY DEF KeepDatabase, KeepStore, catalogVars, lockVars
  <1>4. clock \in Time /\ \A b \in rows : assign[b] \in AssignmentRow
    BY <1>1 DEF DatabaseTypes
  <1>5. \A row \in WorkRows(c) : xlock[row] = r
    BY DEF Outstanding, Needed, Holds, Exclusive
  <1>6. Moves(c) => IsCurrent(c.cur) /\ assign[c.cur].from < clock
    <2>1. Moves(c) => c.action \in BindingActions
      BY DEF Moves, BindingActions
    <2>2. Moves(c) => IsCurrent(c.cur) /\ clock > assign[c.cur].from
      BY <2>1 DEF Transition, PlanOK
    <2>3. IsCurrent(c.cur) => assign[c.cur].from \in Int
      BY <1>4 DEF IsCurrent, AssignmentRow, Time
    <2> QED BY <2>2, <2>3, <1>4 DEF Time
  <1>7. \A b \in rows : assign[b].to # NULL => assign[b].to <= clock
    BY DEF Safe, NoOverlap
  <1>8. c.action \in {"bind", "replace"} =>
           lifecycle[c.dev] = "ACTIVE" /\ ~DeviceAssigned(c.dev)
    BY DEF Transition, PlanOK, Eligible, BindingActions
  <1>9. c.action \in {"bind", "relocate"} => ~PointOccupied(c.mp)
    BY DEF Transition, PlanOK, BindingActions
  <1>10. c.action \in LifecycleActions => LifecycleOK(c)
    BY DEF Transition
  <1>m. /\ c.action = "replace" => c.dev # assign[c.cur].dev
        /\ c.action = "relocate" => c.mp # assign[c.cur].mp
    BY DEF Transition, PlanOK, BindingActions
  <1>11. Inserts(c) => Clear(r)'
    <2> SUFFICES ASSUME Inserts(c), NEW b \in rows, ~(Moves(c) /\ b = c.cur),
                        \/ assign[b].dev = NewRow(r)'.dev
                        \/ assign[b].mp = NewRow(r)'.mp
                 PROVE  assign[b].to # NULL /\ assign[b].to <= clock
      BY <1>3 DEF Clear, rows
    <2>1. CASE c.action = "bind"
      <3>1. assign[b].dev = c.dev \/ assign[b].mp = c.mp
        BY <2>1, <1>3 DEF NewRow
      <3> QED BY <2>1, <3>1, <1>7, <1>8, <1>9 DEF DeviceAssigned, PointOccupied, IsCurrent
    <2>2. CASE c.action = "replace"
      <3>1. assign[b].dev = c.dev \/ assign[b].mp = assign[c.cur].mp
        BY <2>2, <1>3 DEF NewRow
      <3>2. CASE assign[b].dev = c.dev
        BY <2>2, <3>2, <1>7, <1>8 DEF DeviceAssigned, IsCurrent
      <3>3. CASE assign[b].mp = assign[c.cur].mp
        <4>1. IsCurrent(c.cur) /\ b # c.cur
          BY <2>2, <1>6 DEF Moves
        <4> QED BY <3>3, <4>1, <1>7, OthersAreOver DEF Safe
      <3> QED BY <3>1, <3>2, <3>3
    <2>3. CASE c.action = "relocate"
      <3>1. assign[b].dev = assign[c.cur].dev \/ assign[b].mp = c.mp
        BY <2>3, <1>3 DEF NewRow
      <3>2. CASE assign[b].mp = c.mp
        BY <2>3, <3>2, <1>7, <1>9 DEF PointOccupied, IsCurrent
      <3>3. CASE assign[b].dev = assign[c.cur].dev
        <4>1. IsCurrent(c.cur) /\ b # c.cur
          BY <2>3, <1>6 DEF Moves
        <4> QED BY <3>3, <4>1, <1>7, OthersAreOver DEF Safe
      <3> QED BY <3>1, <3>2, <3>3
    <2> QED BY <2>1, <2>2, <2>3 DEF Inserts
  <1>12. \A row \in WorkRows(cmd[r])' : xlock'[row] = r
    <2>1. WorkRows(cmd[r])' = WorkRows(c)
      BY <1>3 DEF WorkRows, DevicesOf, PointsOf
    <2> QED BY <2>1, <1>3, <1>5
  <1>13. sampled'[r] <= clock'
    BY <1>3, <1>4 DEF Time
  <1> QED BY <1>3, <1>6, <1>8, <1>m, <1>10, <1>11, <1>12, <1>13
          DEF Ready, Moves, Inserts, IsCurrent, LifecycleOK, DeviceAssigned, rows

\* Applying a command under its locks (Apply) keeps the inductive invariant.
LEMMA ApplyKeepsSafe ==
  ASSUME Safe, NEW r \in Requests, Apply(r), UNCHANGED ingestVars
  PROVE  Safe'
  <1>1. CASE ~Transition(cmd[r], clock)
    BY <1>1, FinishKeepsSafe DEF Apply, Outcomes
  <1>2. CASE Transition(cmd[r], clock)
    <2>1. DatabaseTypes /\ RequestTypes /\ LockTypes /\ IngestTypeOK
      BY TypeParts DEF Safe
    <2>2. /\ phase[r] = "lock" /\ Outstanding(r) = {} /\ KeepDatabase
          /\ sampled' = [sampled EXCEPT ![r] = clock]
          /\ phase' = [phase EXCEPT ![r] = "applied"]
          /\ UNCHANGED <<cmd, attempt, outcome, response, lockVars>>
      BY <1>2 DEF Apply
    <2>3. RequestTypes' /\ LockTypes'
      BY <2>1, <2>2 DEF RequestTypes, LockTypes, lockVars, DatabaseTypes, Phases
    <2>4. TypeOK'
      BY <2>1, <2>2, <2>3, KeepDatabaseTypes, IngestUnchanged, TypePartsNext
    <2>5. UNCHANGED <<assign, lifecycle>> /\ clock <= clock'
      BY <2>1, <2>2 DEF KeepDatabase, KeepStore, catalogVars, DatabaseTypes, Time
    <2>6. Ready(r)'
      BY <1>2, <2>1, <2>2, CheckedIsReady DEF RequestTypes
    <2>7. ASSUME NEW q \in Requests
          PROVE  /\ phase[q] = "done" => phase'[q] = "done"
                 /\ phase'[q] = "applied" =>
                      \/ Ready(q)'
                      \/ /\ phase[q] = "applied"
                         /\ cmd'[q] = cmd[q] /\ sampled'[q] = sampled[q]
                         /\ \A row \in Rows : xlock[row] = q => xlock'[row] = q
      <3>1. CASE q = r
        BY <3>1, <2>1, <2>2, <2>6 DEF RequestTypes
      <3>2. CASE q # r
        BY <3>2, <2>1, <2>2 DEF RequestTypes, lockVars
      <3> QED BY <3>1, <3>2
    <2> QED BY <2>4, <2>5, <2>7, FrameKeepsSafe
  <1> QED BY <1>1, <1>2

-----------------------------------------------------------------------------
(***************************************************************************)
(* COMMIT                                                                  *)
(***************************************************************************)

\* A request at the point of commit: what closeAssignment and the insert
\* write, and that their device and point are among the rows it has locked.
LEMMA WrittenRows ==
  ASSUME Safe, NEW r \in Requests, phase[r] = "applied"
  PROVE  /\ r \notin rows
         /\ cmd[r] \in CommandType
         /\ Moves(cmd[r]) => cmd[r].cur \in rows
         /\ DOMAIN Written(r) = rows \cup (IF Inserts(cmd[r]) THEN {r} ELSE {})
         /\ \A a \in rows : ~(Moves(cmd[r]) /\ a = cmd[r].cur) =>
               Written(r)[a] = assign[a]
         /\ Moves(cmd[r]) =>
               /\ Written(r)[cmd[r].cur] = [assign[cmd[r].cur] EXCEPT !.to = sampled[r]]
               /\ assign[cmd[r].cur].dev \in DevicesOf(cmd[r])
               /\ assign[cmd[r].cur].mp \in PointsOf(cmd[r])
         /\ Inserts(cmd[r]) =>
               /\ Written(r)[r] = NewRow(r)
               /\ NewRow(r).dev \in DevicesOf(cmd[r])
               /\ NewRow(r).mp \in PointsOf(cmd[r])
         /\ cmd[r].action \in LifecycleActions => cmd[r].dev \in DevicesOf(cmd[r])
         /\ cmd[r].action \in {"bind", "replace"} => cmd[r].dev \in DevicesOf(cmd[r])
  <1>1. DatabaseTypes /\ RequestTypes /\ Ready(r) /\ r \notin rows
    BY TypeParts DEF Safe, AppliedIsReady, RowIdsAreFresh
  <1>2. cmd[r] \in CommandType
    BY <1>1, CommandTypes
  <1>3. Moves(cmd[r]) => cmd[r].cur \in rows
    BY <1>1 DEF Ready, IsCurrent
  <1>4. /\ DOMAIN Written(r) = rows \cup (IF Inserts(cmd[r]) THEN {r} ELSE {})
        /\ \A a \in DOMAIN Written(r) : Written(r)[a] =
              IF a = r THEN NewRow(r)
              ELSE IF Moves(cmd[r]) /\ a = cmd[r].cur
                   THEN [assign[a] EXCEPT !.to = sampled[r]] ELSE assign[a]
    BY DEF Written
  <1>5. \A a \in rows : ~(Moves(cmd[r]) /\ a = cmd[r].cur) => Written(r)[a] = assign[a]
    BY <1>1, <1>4
  <1>6. Moves(cmd[r]) =>
          Written(r)[cmd[r].cur] = [assign[cmd[r].cur] EXCEPT !.to = sampled[r]]
    BY <1>1, <1>3, <1>4
  <1>7. Inserts(cmd[r]) => Written(r)[r] = NewRow(r)
    BY <1>4
  <1>8. Moves(cmd[r]) => /\ assign[cmd[r].cur].dev \in DevicesOf(cmd[r])
                         /\ assign[cmd[r].cur].mp \in PointsOf(cmd[r])
    BY DEF Moves, DevicesOf, PointsOf
  <1>9. Inserts(cmd[r]) => /\ NewRow(r).dev \in DevicesOf(cmd[r])
                           /\ NewRow(r).mp \in PointsOf(cmd[r])
    BY DEF Inserts, NewRow, DevicesOf, PointsOf
  <1>10. cmd[r].action \in LifecycleActions \cup {"bind", "replace"} =>
           cmd[r].dev \in DevicesOf(cmd[r])
    BY DEF LifecycleActions, DevicesOf
  <1> QED BY <1>1, <1>2, <1>3, <1>4, <1>5, <1>6, <1>7, <1>8, <1>9, <1>10

\* A request at the point of commit never meets the exclusion constraints of
\* device_assignments.
LEMMA ReadyRespectsConstraints ==
  ASSUME Safe, NEW r \in Requests, phase[r] = "applied"
  PROVE  ConstraintsHold(Written(r))
  <1> DEFINE c == cmd[r]
             old == assign[c.cur]
             closed == [old EXCEPT !.to = sampled[r]]
  <1>1. DatabaseTypes /\ RequestTypes /\ Ready(r)
    BY TypeParts DEF Safe, AppliedIsReady
  <1>2. /\ sampled[r] \in Time
        /\ \A a \in rows : assign[a] \in AssignmentRow
    BY <1>1 DEF RequestTypes, DatabaseTypes
  <1>3. Moves(c) => /\ IsCurrent(c.cur) /\ old.from < sampled[r]
                    /\ closed.dev = old.dev /\ closed.mp = old.mp
                    /\ closed.from = old.from /\ closed.to = sampled[r]
    BY <1>1, <1>2 DEF Ready, IsCurrent, AssignmentRow
  <1>4. \A a, b \in rows : a # b => Excludes(assign[a], assign[b])
    BY DEF Safe, NoOverlap, ConstraintsHold, rows
  <1>5. ASSUME NEW b \in rows, Moves(c), b # c.cur
        PROVE  Excludes(closed, assign[b]) /\ Excludes(assign[b], closed)
    <2> SUFFICES ASSUME assign[b].dev = old.dev \/ assign[b].mp = old.mp
                 PROVE  DisjointRows(closed, assign[b]) /\ DisjointRows(assign[b], closed)
      BY <1>3, <1>5 DEF Excludes
    <2>1. assign[b].to # NULL /\ assign[b].to <= old.from
      BY <1>3, <1>5, OthersAreOver DEF Safe
    <2> QED BY <2>1, <1>3, <1>5 DEF DisjointRows
  <1>6. ASSUME NEW b \in rows, Inserts(c), ~(Moves(c) /\ b = c.cur)
        PROVE  Excludes(NewRow(r), assign[b]) /\ Excludes(assign[b], NewRow(r))
    <2>1. Clear(r) /\ NewRow(r).from = sampled[r]
      BY <1>1, <1>6 DEF Ready, NewRow
    <2> QED BY <2>1, <1>6 DEF Clear, Excludes, DisjointRows
  <1>7. ASSUME Inserts(c), Moves(c)
        PROVE  Excludes(NewRow(r), closed) /\ Excludes(closed, NewRow(r))
    <2>1. closed.to <= NewRow(r).from /\ closed.to # NULL
      BY <1>2, <1>3, <1>7 DEF NewRow, Time, NULL
    <2> QED BY <2>1 DEF Excludes, DisjointRows
  <1>8. ASSUME NEW a \in DOMAIN Written(r), NEW b \in DOMAIN Written(r), a # b
        PROVE  Excludes(Written(r)[a], Written(r)[b])
    <2>1. /\ a \in rows \/ (a = r /\ Inserts(c))
          /\ b \in rows \/ (b = r /\ Inserts(c))
          /\ r \notin rows
      <3>1. /\ DOMAIN Written(r) = rows \cup (IF Inserts(c) THEN {r} ELSE {})
            /\ r \notin rows
        BY WrittenRows
      <3> QED BY <3>1, <1>8
    <2>2. Inserts(c) => Written(r)[r] = NewRow(r)
      BY WrittenRows
    <2>3. Moves(c) => Written(r)[c.cur] = closed /\ c.cur \in rows
      BY WrittenRows
    <2>4. \A x \in rows : ~(Moves(c) /\ x = c.cur) => Written(r)[x] = assign[x]
      BY WrittenRows
    <2> HIDE DEF closed, old
    <2>5. CASE a = r
      BY <2>5, <2>1, <2>2, <2>3, <2>4, <1>6, <1>7, <1>8
    <2>6. CASE b = r
      BY <2>6, <2>1, <2>2, <2>3, <2>4, <1>6, <1>7, <1>8
    <2>7. CASE a \in rows /\ b \in rows
      BY <2>7, <2>3, <2>4, <1>4, <1>5, <1>8
    <2> QED BY <2>1, <2>5, <2>6, <2>7
  <1> QED BY <1>8 DEF ConstraintsHold

\* What COMMIT publishes of an administrative request is well typed.
LEMMA InstallTypes ==
  ASSUME Safe, NEW r \in Requests, phase[r] = "applied", Install(r),
         UNCHANGED ingestVars
  PROVE  TypeOK'
  <1> DEFINE c == cmd[r]
  <1>1. DatabaseTypes /\ RequestTypes /\ LockTypes /\ IngestTypeOK
    BY TypeParts DEF Safe
  <1>2. /\ c \in CommandType /\ c.shop \in Shops /\ NewPoint[r] \in Points
        /\ Slot(c) \in Slots
    BY <1>1, CommandTypes, StoreAssumption DEF CommandType
  <1>3. RequestTypes' /\ LockTypes'
    BY <1>1, FinishTypes DEF Install, Outcomes
  <1>4. IngestTypeOK'
    BY <1>1, IngestUnchanged
  <1>5. DatabaseTypes'
    <2>1. clock' \in Time /\ session' = session /\ scope' = scope
      BY <1>1 DEF Install, DatabaseTypes, authorityVars
    <2>2. lifecycle' \in [Devices -> Lifecycles]
      <3>1. LifecycleTarget(c.action) \in Lifecycles
        BY DEF LifecycleTarget, Lifecycles
      <3> QED BY <1>1, <3>1 DEF Install, DatabaseTypes
    <2>3. shopOf' \in [Points -> Shops \cup {NoShop}]
      BY <1>1, <1>2 DEF Install, DatabaseTypes
    <2>4. settings' \in [Points -> Settings]
      BY <1>1 DEF Install, DatabaseTypes, Settings
    <2>5. rows' \subseteq AssignmentIds /\ assign' \in [rows' -> AssignmentRow]
      <3>1. r \notin rows /\ (Moves(c) => c.cur \in rows)
        BY WrittenRows
      <3>2. assign' = Written(r)
        BY DEF Install
      <3> QED BY <1>1, <3>1, <3>2, WrittenTypes DEF rows
    <2>6. /\ DOMAIN ledger' \subseteq Slots
          /\ \A s \in DOMAIN ledger' : ledger'[s].op \in Requests
      <3>1. ledger' = [s \in DOMAIN ledger \cup {Slot(c)} |->
                         IF s = Slot(c)
                         THEN [op |-> r, hash |-> Hash(c), at |-> sampled[r]]
                         ELSE ledger[s]]
        BY DEF Install
      <3>2. DOMAIN ledger \subseteq Slots /\ \A s \in DOMAIN ledger : ledger[s].op \in Requests
        BY <1>1 DEF DatabaseTypes
      <3> QED BY <1>2, <3>1, <3>2
    <2> QED BY <1>1, <2>1, <2>2, <2>3, <2>4, <2>5, <2>6 DEF DatabaseTypes
  <1> QED BY <1>3, <1>4, <1>5, TypePartsNext

\* LockDevices and LockPoints keep two requests at the point of commit on
\* different devices and points.
LEMMA AppliedAreDisjoint ==
  ASSUME Safe, NEW r \in Requests, NEW q \in Requests, q # r,
         phase[r] = "applied", phase[q] = "applied"
  PROVE  /\ DevicesOf(cmd[q]) \cap DevicesOf(cmd[r]) = {}
         /\ PointsOf(cmd[q]) \cap PointsOf(cmd[r]) = {}
  <1>1. /\ \A row \in WorkRows(cmd[r]) : xlock[row] = r
        /\ \A row \in WorkRows(cmd[q]) : xlock[row] = q
    BY DEF Safe, AppliedIsReady, Ready
  <1>2. /\ \A d \in DevicesOf(cmd[r]) : xlock[<<"device", d>>] = r
        /\ \A d \in DevicesOf(cmd[q]) : xlock[<<"device", d>>] = q
        /\ \A m \in PointsOf(cmd[r]) : xlock[<<"point", m>>] = r
        /\ \A m \in PointsOf(cmd[q]) : xlock[<<"point", m>>] = q
    BY <1>1 DEF WorkRows
  <1>3. ASSUME NEW d \in DevicesOf(cmd[q]), d \in DevicesOf(cmd[r])
        PROVE  FALSE
    <2>1. xlock[<<"device", d>>] = r
      BY <1>2, <1>3
    <2>2. xlock[<<"device", d>>] = q
      BY <1>2, <1>3
    <2> QED BY <2>1, <2>2
  <1>4. ASSUME NEW m \in PointsOf(cmd[q]), m \in PointsOf(cmd[r])
        PROVE  FALSE
    <2>1. xlock[<<"point", m>>] = r
      BY <1>2, <1>4
    <2>2. xlock[<<"point", m>>] = q
      BY <1>2, <1>4
    <2> QED BY <2>1, <2>2
  <1> QED BY <1>3, <1>4

\* The commit of one request leaves what another one checked under its locks
\* true.
LEMMA InstallKeepsReady ==
  ASSUME Safe, NEW r \in Requests, phase[r] = "applied", Install(r),
         NEW q \in Requests, q # r, phase[q] = "applied"
  PROVE  Ready(q)'
  <1> DEFINE c == cmd[q]
  <1>1. /\ assign' = Written(r) /\ cmd' = cmd /\ sampled' = sampled /\ clock' = clock
        /\ OthersKeepLocks(r)
    BY ReleaseIsLocal DEF Install, Finish
  <1>2. Ready(q) /\ DatabaseTypes /\ RequestTypes
    BY TypeParts DEF Safe, AppliedIsReady
  <1>3. /\ DevicesOf(c) \cap DevicesOf(cmd[r]) = {}
        /\ PointsOf(c) \cap PointsOf(cmd[r]) = {}
    BY AppliedAreDisjoint
  <1>4. /\ c \in CommandType
        /\ Moves(c) => /\ c.cur \in rows
                       /\ assign[c.cur].dev \in DevicesOf(c)
                       /\ assign[c.cur].mp \in PointsOf(c)
        /\ Inserts(c) => /\ NewRow(q).dev \in DevicesOf(c)
                         /\ NewRow(q).mp \in PointsOf(c)
        /\ c.action \in LifecycleActions => c.dev \in DevicesOf(c)
        /\ c.action \in {"bind", "replace"} => c.dev \in DevicesOf(c)
    BY WrittenRows
  \* Rows of the devices and points of q are as they were, and none is new.
  <1>5. ASSUME NEW b \in rows'
        PROVE  \/ /\ b \in rows /\ assign'[b] = assign[b]
               \/ /\ assign'[b].dev \in DevicesOf(cmd[r])
                  /\ assign'[b].mp \in PointsOf(cmd[r])
                  /\ b \in rows =>
                       assign'[b].dev = assign[b].dev /\ assign'[b].mp = assign[b].mp
    <2>1. DOMAIN Written(r) = rows \cup (IF Inserts(cmd[r]) THEN {r} ELSE {})
      BY WrittenRows
    <2>2. b \in rows \/ (b = r /\ Inserts(cmd[r]))
      BY <2>1, <1>1, <1>5 DEF rows
    <2>3. CASE b = r /\ Inserts(cmd[r])
      BY <2>3, <1>1, WrittenRows
    <2>4. CASE b \in rows /\ Moves(cmd[r]) /\ b = cmd[r].cur
      <3>1. assign[b] \in AssignmentRow
        BY <2>4, <1>2 DEF DatabaseTypes
      <3>2. assign'[b] = [assign[b] EXCEPT !.to = sampled[r]]
        BY <2>4, <1>1, WrittenRows
      <3>3. assign'[b].dev = assign[b].dev /\ assign'[b].mp = assign[b].mp
        BY <3>1, <3>2 DEF AssignmentRow
      <3>4. assign[b].dev \in DevicesOf(cmd[r]) /\ assign[b].mp \in PointsOf(cmd[r])
        BY <2>4, WrittenRows
      <3> QED BY <2>4, <3>3, <3>4
    <2>5. CASE b \in rows /\ ~(Moves(cmd[r]) /\ b = cmd[r].cur)
      BY <2>5, <1>1, WrittenRows
    <2> QED BY <2>2, <2>3, <2>4, <2>5
  <1>6. rows \subseteq rows'
    <2>1. DOMAIN Written(r) = rows \cup (IF Inserts(cmd[r]) THEN {r} ELSE {})
      BY WrittenRows
    <2> QED BY <1>1, <2>1 DEF rows
  <1>7. Moves(c) => c.cur \in rows' /\ assign'[c.cur] = assign[c.cur]
    BY <1>3, <1>4, <1>5, <1>6
  <1>8. WorkRows(cmd[q])' = WorkRows(c) /\ WorkRows(c) \subseteq Rows
    <2>1. WorkRows(c) \subseteq Rows
      BY <1>2, <1>4, WorkRowsAreRows
    <2>2. DevicesOf(cmd[q])' = DevicesOf(c)
      BY <1>1, <1>7 DEF DevicesOf, Moves
    <2>3. PointsOf(cmd[q])' = PointsOf(c)
      BY <1>1, <1>7 DEF PointsOf, Moves
    <2> QED BY <2>1, <2>2, <2>3 DEF WorkRows
  <1>9. \A row \in WorkRows(cmd[q])' : xlock'[row] = q
    <2>1. q # NoTx
      BY StoreAssumption DEF Txs
    <2> QED BY <1>1, <1>2, <1>8, <2>1 DEF Ready, OthersKeepLocks
  <1>10. Moves(c) => IsCurrent(c.cur)' /\ assign'[c.cur].from < sampled'[q]
    BY <1>1, <1>2, <1>7 DEF Ready, IsCurrent, rows
  <1>11. Inserts(c) => Clear(q)'
    <2> SUFFICES ASSUME Inserts(c), NEW b \in rows',
                        \/ assign'[b].dev = NewRow(q)'.dev
                        \/ assign'[b].mp = NewRow(q)'.mp
                 PROVE  \/ Moves(c) /\ b = c.cur
                        \/ assign'[b].to # NULL /\ assign'[b].to <= sampled[q]
      BY <1>1 DEF Clear
    <2>1. NewRow(q)'.dev = NewRow(q).dev /\ NewRow(q)'.mp = NewRow(q).mp
      BY <1>1, <1>7 DEF NewRow, Moves
    <2>2. b \in rows /\ assign'[b] = assign[b]
      BY <2>1, <1>3, <1>4, <1>5
    <2>3. Clear(q)
      BY <1>2 DEF Ready
    <2> QED BY <2>1, <2>2, <2>3 DEF Clear
  <1>12. c.action \in LifecycleActions \cup {"bind", "replace"} =>
           lifecycle'[c.dev] = lifecycle[c.dev]
    <2> SUFFICES ASSUME c.action \in LifecycleActions \cup {"bind", "replace"}
                 PROVE  lifecycle'[c.dev] = lifecycle[c.dev]
      OBVIOUS
    <2>1. c.dev \in DevicesOf(c)
      BY <1>4
    <2>2. cmd[r].action \in LifecycleActions => cmd[r].dev \in DevicesOf(cmd[r])
      BY WrittenRows
    <2>3. cmd[r].action \in LifecycleActions => cmd[r].dev # c.dev
      BY <2>1, <2>2, <1>3
    <2>4. lifecycle \in [Devices -> Lifecycles] /\ c.dev \in Devices
      BY <1>2, <1>4 DEF DatabaseTypes, CommandType
    <2> QED BY <2>1, <2>3, <2>4 DEF Install
  <1>13. c.action \in {"disable", "retire"} => ~(DeviceAssigned(c.dev)')
    <2> SUFFICES ASSUME c.action \in {"disable", "retire"}, NEW b \in rows',
                        assign'[b].to = NULL, assign'[b].dev = c.dev
                 PROVE  FALSE
      BY <1>1 DEF DeviceAssigned, IsCurrent
    <2>1. c.dev \in DevicesOf(c) /\ ~DeviceAssigned(c.dev)
      BY <1>2, <1>4 DEF Ready, LifecycleActions, LifecycleOK
    <2>2. b \in rows /\ assign'[b] = assign[b]
      BY <2>1, <1>3, <1>5
    <2> QED BY <2>1, <2>2 DEF DeviceAssigned, IsCurrent
  <1>14. sampled'[q] <= clock'
    BY <1>1, <1>2 DEF Ready
  <1>15. c.action \in LifecycleActions => LifecycleOK(cmd[q])'
    BY <1>1, <1>2, <1>12, <1>13 DEF Ready, LifecycleOK
  <1>16. c.action \in {"bind", "replace"} => lifecycle'[c.dev] = "ACTIVE"
    BY <1>2, <1>12 DEF Ready
  <1>17. /\ c.action = "replace" => c.dev # assign'[c.cur].dev
         /\ c.action = "relocate" => c.mp # assign'[c.cur].mp
    BY <1>2, <1>7 DEF Ready, Moves
  <1> QED BY <1>1, <1>9, <1>10, <1>11, <1>14, <1>15, <1>16, <1>17 DEF Ready, Moves, Inserts

\* COMMIT keeps the inductive invariant: the published rows are in the past,
\* disjoint, and of devices in service.
LEMMA InstallKeepsSafe ==
  ASSUME Safe, NEW r \in Requests, phase[r] = "applied", Install(r),
         UNCHANGED ingestVars
  PROVE  Safe'
  <1> DEFINE c == cmd[r]
  <1>1. /\ assign' = Written(r) /\ clock' = clock
        /\ phase' = [phase EXCEPT ![r] = "done"]
    BY DEF Install, Finish
  <1>2. Ready(r) /\ DatabaseTypes /\ RequestTypes
    BY TypeParts DEF Safe, AppliedIsReady
  <1>3. TypeOK'
    BY InstallTypes
  <1>4. rows' = rows \cup (IF Inserts(c) THEN {r} ELSE {})
    BY <1>1, WrittenRows DEF rows
  <1>5. /\ sampled[r] \in Time /\ clock \in Time
        /\ \A a \in rows : assign[a] \in AssignmentRow
    BY <1>2 DEF RequestTypes, DatabaseTypes
  <1>6. NoOverlap'
    <2>1. ConstraintsHold(assign)'
      <3>1. ConstraintsHold(Written(r))
        BY ReadyRespectsConstraints
      <3> QED BY <3>1, <1>1 DEF ConstraintsHold
    <2>2. ASSUME NEW a \in rows'
          PROVE  assign'[a].from <= clock' /\ assign'[a].to <= clock'
      <3>1. CASE a = r /\ Inserts(c)
        <4>1. assign'[a] = NewRow(r)
          BY <3>1, <1>1, WrittenRows
        <4> QED BY <4>1, <1>1, <1>2, <1>5 DEF NewRow, NULL, Time, Ready
      <3>2. CASE a \in rows /\ Moves(c) /\ a = c.cur
        <4>1. assign'[a] = [assign[a] EXCEPT !.to = sampled[r]]
          BY <3>2, <1>1, WrittenRows
        <4>2. assign[a] \in AssignmentRow /\ assign[a].from <= clock
          BY <3>2, <1>5 DEF Safe, NoOverlap
        <4>3. assign'[a].from = assign[a].from /\ assign'[a].to = sampled[r]
          BY <4>1, <4>2 DEF AssignmentRow
        <4> QED BY <4>2, <4>3, <1>1, <1>2 DEF Ready
      <3>3. CASE a \in rows /\ ~(Moves(c) /\ a = c.cur)
        <4>1. assign'[a] = assign[a]
          BY <3>3, <1>1, WrittenRows
        <4> QED BY <3>3, <4>1, <1>1 DEF Safe, NoOverlap
      <3> QED BY <1>4, <2>2, <3>1, <3>2, <3>3
    <2> QED BY <2>1, <2>2 DEF NoOverlap
  <1>7. AssignedDeviceInService'
    <2> SUFFICES ASSUME NEW a \in rows', assign'[a].to = NULL
                 PROVE  lifecycle'[assign'[a].dev] = "ACTIVE"
      BY DEF AssignedDeviceInService, IsCurrent
    <2>1. lifecycle \in [Devices -> Lifecycles]
      BY <1>2 DEF DatabaseTypes
    <2>2. CASE a = r /\ Inserts(c)
      <3>1. assign'[a] = NewRow(r) /\ cmd[r].action \notin LifecycleActions
        BY <2>2, <1>1, WrittenRows DEF Inserts, LifecycleActions
      <3>2. lifecycle' = lifecycle
        BY <3>1 DEF Install
      <3>3. CASE c.action \in {"bind", "replace"}
        BY <3>1, <3>2, <3>3, <1>2 DEF Ready, NewRow
      <3>4. CASE c.action = "relocate"
        <4>1. IsCurrent(c.cur)
          BY <3>4, <1>2 DEF Ready, Moves
        <4>2. lifecycle[assign[c.cur].dev] = "ACTIVE"
          BY <4>1 DEF Safe, AssignedDeviceInService, IsCurrent
        <4> QED BY <3>1, <3>2, <3>4, <4>2 DEF NewRow
      <3> QED BY <2>2, <3>3, <3>4 DEF Inserts
    <2>3. CASE a \in rows /\ Moves(c) /\ a = c.cur
      <3>1. assign'[a] = [assign[a] EXCEPT !.to = sampled[r]]
        BY <2>3, <1>1, WrittenRows
      <3>2. assign'[a].to = sampled[r]
        BY <2>3, <3>1, <1>5 DEF AssignmentRow
      <3> QED BY <3>2, <1>5 DEF Time, NULL
    <2>4. CASE a \in rows /\ ~(Moves(c) /\ a = c.cur)
      <3>1. assign'[a] = assign[a]
        BY <2>4, <1>1, WrittenRows
      <3>2. IsCurrent(a) /\ lifecycle[assign[a].dev] = "ACTIVE"
        BY <2>4, <3>1 DEF Safe, AssignedDeviceInService, IsCurrent
      <3>3. assign[a].dev \in Devices
        BY <2>4, <1>5 DEF AssignmentRow
      <3>4. CASE c.action \notin LifecycleActions
        BY <3>1, <3>2, <3>4 DEF Install
      <3>5. CASE c.action \in {"disable", "retire"}
        <4>1. c.dev # assign[a].dev
          BY <3>2, <3>5, <2>4, <1>2 DEF Ready, LifecycleOK, LifecycleActions, DeviceAssigned
        <4>2. lifecycle' = [lifecycle EXCEPT ![c.dev] = LifecycleTarget(c.action)]
          BY <3>5 DEF Install, LifecycleActions
        <4> QED BY <4>1, <4>2, <3>1, <3>2, <3>3, <2>1
      <3>6. CASE c.action = "enable"
        <4>1. lifecycle' = [lifecycle EXCEPT ![c.dev] = "ACTIVE"]
          BY <3>6 DEF Install, LifecycleActions, LifecycleTarget
        <4> QED BY <4>1, <3>1, <3>2, <3>3, <2>1
      <3> QED BY <3>4, <3>5, <3>6 DEF LifecycleActions
    <2> QED BY <1>4, <2>2, <2>3, <2>4
  <1>8. RowIdsAreFresh'
    <2> SUFFICES ASSUME NEW q \in Requests, q \in rows'
                 PROVE  phase'[q] = "done"
      BY DEF RowIdsAreFresh
    <2>1. CASE q = r
      BY <2>1, <1>1, <1>2 DEF RequestTypes
    <2>2. CASE q # r
      <3>1. q \in rows
        BY <2>2, <1>4
      <3> QED BY <2>2, <3>1, <1>1, <1>2 DEF Safe, RowIdsAreFresh, RequestTypes
    <2> QED BY <2>1, <2>2
  <1>9. AppliedIsReady'
    <2> SUFFICES ASSUME NEW q \in Requests, phase'[q] = "applied"
                 PROVE  Ready(q)'
      BY DEF AppliedIsReady
    <2>1. q # r /\ phase[q] = "applied"
      BY <1>1, <1>2 DEF RequestTypes
    <2> QED BY <2>1, InstallKeepsReady
  <1> QED BY <1>3, <1>6, <1>7, <1>8, <1>9 DEF Safe

-----------------------------------------------------------------------------
(***************************************************************************)
(* The other steps of a request, and the steps of everyone else            *)
(***************************************************************************)

\* A step that changes no request and takes no request's lock (an UPDATE of a
\* session or grant, a worker) keeps the inductive invariant.
LEMMA BystanderKeepsSafe ==
  ASSUME Safe, TypeOK', UNCHANGED <<assign, lifecycle, phase, cmd, sampled>>,
         clock <= clock',
         \A row \in Rows, q \in Requests : xlock[row] = q => xlock'[row] = q
  PROVE  Safe'
  BY FrameKeepsSafe

\* Answering from the ledger (LoadAdminBindingOperation) keeps the inductive
\* invariant: it writes nothing.
LEMMA ReplayKeepsSafe ==
  ASSUME Safe, NEW r \in Requests, phase[r] # "new", Replay(r), UNCHANGED ingestVars
  PROVE  Safe'
  <1> DEFINE entry == ledger[Slot(cmd[r])]
  <1>1. entry.op \in Requests
    BY TypeParts DEF Safe, DatabaseTypes, Replay, Committed
  <1>2. KeepDatabase /\ (Finish(r, "replayed", {entry.op}) \/ Finish(r, "reused", {}))
    BY DEF Replay
  <1>3. {entry.op} \in SUBSET Requests /\ {} \in SUBSET Requests
    BY <1>1
  <1>4. "replayed" \in Outcomes /\ "reused" \in Outcomes
    BY DEF Outcomes
  <1> HIDE DEF entry
  <1> QED BY <1>2, <1>3, <1>4, FinishKeepsSafe

\* A request that locks the next row it needs keeps the inductive invariant.
LEMMA AcquireKeepsSafe ==
  ASSUME Safe, NEW r \in Requests, NEW row \in Rows, Acquire(r, row),
         UNCHANGED ingestVars
  PROVE  Safe'
  <1>1. DatabaseTypes /\ RequestTypes /\ LockTypes /\ IngestTypeOK
    BY TypeParts DEF Safe
  <1>2. r \in Txs /\ KeepDatabase /\ UNCHANGED requestVars
    BY DEF Acquire, Txs
  <1>3. (FreeX(r, row) /\ LockX(r, row)) \/ LockS(r, row)
    BY DEF Acquire, Free
  <1>4. LockTypes' /\ OthersKeepLocks(r)
    BY <1>1, <1>2, <1>3, AcquireTypes, AcquireIsLocal
  <1>5. RequestTypes'
    BY <1>1, <1>2 DEF RequestTypes, requestVars
  <1>6. TypeOK'
    BY <1>1, <1>2, <1>4, <1>5, KeepDatabaseTypes, IngestUnchanged, TypePartsNext
  <1>7. \A x \in Rows, q \in Requests : xlock[x] = q => xlock'[x] = q
    <2> SUFFICES ASSUME NEW x \in Rows, xlock[x] \in Requests PROVE xlock'[x] = xlock[x]
      OBVIOUS
    <2>1. CASE xlock[x] # r
      BY <2>1, <1>4, StoreAssumption DEF OthersKeepLocks, Txs
    <2>2. CASE xlock[x] = r
      BY <2>2, <1>1, <1>3 DEF LockX, LockS, LockTypes
    <2> QED BY <2>1, <2>2
  <1>8. UNCHANGED <<assign, lifecycle, phase, cmd, sampled>> /\ clock <= clock'
    BY <1>1, <1>2 DEF KeepDatabase, KeepStore, catalogVars, requestVars, DatabaseTypes, Time
  <1> QED BY <1>6, <1>7, <1>8, BystanderKeepsSafe

\* A request that the HTTP handler hands to the executor keeps the inductive
\* invariant.
LEMMA SubmitKeepsSafe ==
  ASSUME Safe, NEW r \in Requests, NEW c \in Commands, Submit(r, c),
         UNCHANGED ingestVars
  PROVE  Safe'
  <1>1. DatabaseTypes /\ RequestTypes /\ LockTypes /\ IngestTypeOK
    BY TypeParts DEF Safe
  <1>2. RequestTypes' /\ LockTypes'
    BY <1>1, CommandAssumption DEF Submit, RequestTypes, LockTypes, lockVars, Phases
  <1>3. KeepDatabase
    BY DEF Submit
  <1>4. TypeOK'
    BY <1>1, <1>2, <1>3, KeepDatabaseTypes, IngestUnchanged, TypePartsNext
  <1>5. UNCHANGED <<assign, lifecycle, sampled, xlock>> /\ clock <= clock'
    BY <1>1, <1>3 DEF Submit, KeepDatabase, KeepStore, catalogVars, lockVars, DatabaseTypes, Time
  <1>6. ASSUME NEW q \in Requests
        PROVE  /\ phase[q] = "done" => phase'[q] = "done"
               /\ phase'[q] = "applied" => phase[q] = "applied" /\ cmd'[q] = cmd[q]
    BY <1>1 DEF Submit, RequestTypes
  <1> QED BY <1>4, <1>5, <1>6, FrameKeepsSafe

\* A request that run retries, or gives up on, after 40P01 keeps the
\* inductive invariant.
LEMMA VictimKeepsSafe ==
  ASSUME Safe, NEW r \in Requests, phase[r] \notin {"new", "done"},
         DeadlockVictim(r), UNCHANGED ingestVars
  PROVE  Safe'
  <1>1. CASE ~(Retriable(r) /\ attempt[r] < MaxAttempts)
    <2>1. "concurrent" \in Outcomes /\ "deadlock" \in Outcomes /\ {} \in SUBSET Requests
      BY DEF Outcomes
    <2>2. KeepDatabase /\ (Finish(r, "concurrent", {}) \/ Finish(r, "deadlock", {}))
      BY <1>1 DEF DeadlockVictim
    <2> QED BY <2>1, <2>2, FinishKeepsSafe
  <1>2. CASE Retriable(r) /\ attempt[r] < MaxAttempts
    <2>1. DatabaseTypes /\ RequestTypes /\ LockTypes /\ IngestTypeOK
      BY TypeParts DEF Safe
    <2>2. /\ phase' = [phase EXCEPT ![r] = "admit"]
          /\ attempt' = [attempt EXCEPT ![r] = @ + 1]
          /\ ReleaseLocks(r) /\ KeepDatabase
          /\ UNCHANGED <<cmd, sampled, outcome, response>>
      BY <1>2 DEF DeadlockVictim
    <2>3. LockTypes' /\ OthersKeepLocks(r)
      BY <2>1, <2>2, ReleaseTypes, ReleaseIsLocal DEF Txs
    <2>4. attempt' \in [Requests -> 0 .. MaxAttempts]
      BY <1>2, <2>1, <2>2, CommandAssumption DEF RequestTypes
    <2>5. RequestTypes'
      BY <2>1, <2>2, <2>4 DEF RequestTypes, Phases
    <2>6. TypeOK'
      BY <2>1, <2>2, <2>3, <2>5, KeepDatabaseTypes, IngestUnchanged, TypePartsNext
    <2>7. UNCHANGED <<assign, lifecycle>> /\ clock <= clock'
      BY <2>1, <2>2 DEF KeepDatabase, KeepStore, catalogVars, DatabaseTypes, Time
    <2>8. ASSUME NEW q \in Requests
          PROVE  /\ phase[q] = "done" => phase'[q] = "done"
                 /\ phase'[q] = "applied" =>
                      /\ phase[q] = "applied"
                      /\ cmd'[q] = cmd[q] /\ sampled'[q] = sampled[q]
                      /\ \A row \in Rows : xlock[row] = q => xlock'[row] = q
      <3>1. phase'[q] = (IF q = r THEN "admit" ELSE phase[q])
        BY <2>1, <2>2 DEF RequestTypes
      <3>2. q # r => \A row \in Rows : xlock[row] = q => xlock'[row] = q
        BY <2>3, StoreAssumption DEF OthersKeepLocks, Txs
      <3> QED BY <2>2, <3>1, <3>2
    <2> QED BY <2>6, <2>7, <2>8, FrameKeepsSafe
  <1> QED BY <1>1, <1>2

\* Only a transaction that waits for a lock or for a ledger key is in a
\* deadlock; one at the point of commit is not.
LEMMA VictimWaits ==
  ASSUME NEW r \in Requests, InDeadlock(r)
  PROVE  phase[r] \in {"admit", "lock", "claim"}
  <1>1. PICK S \in SUBSET Requests :
           /\ r \in S
           /\ Cardinality(S) > 1
           /\ \A T \in (SUBSET S) \ {{}, S} : \E p \in T, q \in S \ T : WaitsFor(p, q)
    BY DEF InDeadlock
  <1>2. S # {r}
    <2>1. Cardinality({r}) = 1
      BY FS_Singleton
    <2> QED BY <1>1, <2>1
  <1>3. {r} \in (SUBSET S) \ {{}, S}
    <2>1. {r} \in SUBSET S /\ {r} # {}
      BY <1>1
    <2> QED BY <1>2, <2>1
  <1>4. PICK q \in S : WaitsFor(r, q)
    <2>1. \E p \in {r}, q \in S \ {r} : WaitsFor(p, q)
      BY <1>1, <1>3
    <2> QED BY <2>1
  <1> QED BY <1>4 DEF WaitsFor

\* Every step of an administrative request keeps the inductive invariant.
LEMMA WorkKeepsSafe ==
  ASSUME Safe, NEW r \in Requests, Work(r), UNCHANGED ingestVars
  PROVE  Safe'
  <1> USE DEF Outcomes, Phases
  <1>1. ASSUME NEW row \in Rows, Acquire(r, row) PROVE Safe'
    BY <1>1, AcquireKeepsSafe
  <1>2. ASSUME NEW row \in Rows, Deny(r, row) PROVE Safe'
    BY <1>2, FinishKeepsSafe DEF Deny
  <1>3. CASE Load(r)
    <2>1. CASE Replay(r)
      BY <1>3, <2>1, ReplayKeepsSafe DEF Load
    <2>2. CASE ~Replay(r)
      <3>1. /\ phase[r] = "admit" /\ KeepDatabase
            /\ Goto(r, "resolve") \/ Goto(r, "claim")
        BY <1>3, <2>2 DEF Load
      <3> QED BY <3>1, GotoKeepsSafe
    <2> QED BY <2>1, <2>2
  <1>4. CASE Resolve(r)
    <2>1. /\ phase[r] = "resolve" /\ KeepDatabase
          /\ Goto(r, "claim") \/ Finish(r, "refused", {})
      BY <1>4 DEF Resolve
    <2> QED BY <2>1, GotoKeepsSafe, FinishKeepsSafe
  <1>5. CASE Claim(r)
    <2>1. CASE Replay(r)
      BY <1>5, <2>1, ReplayKeepsSafe DEF Claim
    <2>2. CASE ~Replay(r)
      <3>1. /\ phase[r] = "claim" /\ KeepDatabase
            /\ Goto(r, "lock") \/ Finish(r, "refused", {})
        BY <1>5, <2>2 DEF Claim
      <3> QED BY <3>1, GotoKeepsSafe, FinishKeepsSafe
    <2> QED BY <2>1, <2>2
  <1>6. CASE Apply(r)
    BY <1>6, ApplyKeepsSafe
  <1>7. CASE Commit(r)
    <2>1. phase[r] = "applied"
      BY <1>7 DEF Commit
    <2>2. CASE Install(r)
      BY <2>1, <2>2, InstallKeepsSafe
    <2>3. CASE ~Install(r)
      <3>1. Finish(r, "overlap", {}) /\ KeepDatabase
        BY <1>7, <2>3 DEF Commit
      <3> QED BY <2>1, <3>1, FinishKeepsSafe
    <2> QED BY <2>2, <2>3
  <1>8. CASE DeadlockVictim(r)
    <2>1. phase[r] \notin {"new", "done"}
      BY <1>8, VictimWaits DEF DeadlockVictim
    <2> QED BY <1>8, <2>1, VictimKeepsSafe
  <1> QED BY <1>1, <1>2, <1>3, <1>4, <1>5, <1>6, <1>7, <1>8 DEF Work

\* Revoking or expiring a session and withdrawing a grant keep the inductive
\* invariant.
LEMMA AuthorityKeepsSafe ==
  ASSUME Safe, UNCHANGED ingestVars,
         \/ \E s \in Sessions : RevokeSession(s) \/ ExpireSession(s)
         \/ \E u \in Users, shop \in Shops : RevokeScope(u, shop)
  PROVE  Safe'
  <1>1. DatabaseTypes /\ RequestTypes /\ LockTypes /\ IngestTypeOK
    BY TypeParts DEF Safe
  <1>2. KeepStore /\ UNCHANGED <<requestVars, ledgerVars, lockVars>>
    BY DEF RevokeSession, ExpireSession, RevokeScope
  <1>3. /\ session' \in [Sessions -> {"live", "expired", "revoked"}]
        /\ scope' \in [Users -> SUBSET Shops]
    <2>1. ASSUME NEW s \in Sessions, RevokeSession(s) \/ ExpireSession(s)
          PROVE  /\ session' \in [Sessions -> {"live", "expired", "revoked"}]
                 /\ scope' = scope
      BY <1>1, <2>1 DEF RevokeSession, ExpireSession, DatabaseTypes
    <2>2. ASSUME NEW u \in Users, NEW shop \in Shops, RevokeScope(u, shop)
          PROVE  scope' \in [Users -> SUBSET Shops] /\ session' = session
      BY <1>1, <2>2 DEF RevokeScope, DatabaseTypes
    <2> QED BY <1>1, <2>1, <2>2 DEF DatabaseTypes
  <1>4. DatabaseTypes'
    BY <1>1, <1>2, <1>3 DEF DatabaseTypes, KeepStore, ledgerVars, catalogVars, rows
  <1>5. RequestTypes' /\ LockTypes'
    BY <1>1, <1>2 DEF RequestTypes, LockTypes, requestVars, lockVars
  <1>6. TypeOK'
    BY <1>1, <1>4, <1>5, IngestUnchanged, TypePartsNext
  <1>7. UNCHANGED <<assign, lifecycle, phase, cmd, sampled, xlock>> /\ clock <= clock'
    BY <1>1, <1>2 DEF KeepStore, catalogVars, requestVars, lockVars, DatabaseTypes, Time
  <1> QED BY <1>6, <1>7, BystanderKeepsSafe

\* So does every step of an MQTT worker: findDeviceForUpdate waits for the
\* device rows that requests hold.
LEMMA WorkerKeepsSafe ==
  ASSUME Safe, NEW w \in Workers, UNCHANGED adminVars,
         \/ Process(w) \/ WorkerFails(w)
         \/ \E m \in Messages : Receive(w, m)
  PROVE  Safe'
  <1>1. DatabaseTypes /\ RequestTypes /\ TypeOK
    BY TypeParts DEF Safe
  <1>2. IngestTypeOK' /\ LockTypes' /\ KeepRows /\ OthersKeepLocks(w)
    BY <1>1, WorkerStep
  <1>3. DatabaseTypes' /\ RequestTypes'
    BY <1>1, <1>2 DEF DatabaseTypes, RequestTypes, KeepRows, catalogVars, rows,
       adminVars, requestVars, ledgerVars, authorityVars
  <1>4. TypeOK'
    BY <1>2, <1>3, TypePartsNext
  <1>5. UNCHANGED <<assign, lifecycle, phase, cmd, sampled>> /\ clock <= clock'
    BY <1>1, <1>2 DEF KeepRows, catalogVars, adminVars, requestVars, DatabaseTypes, Time
  <1>6. \A row \in Rows, q \in Requests : xlock[row] = q => xlock'[row] = q
    BY <1>2, StoreAssumption DEF OthersKeepLocks, Txs
  <1> QED BY <1>4, <1>5, <1>6, BystanderKeepsSafe

\* So do the database clock and SetMeasurementPointAlertSettings.
LEMMA SurroundingsKeepSafe ==
  ASSUME Safe,
         \/ Pass
         \/ \E u \in Users, m \in Points, value \in QuietHours :
               ChangeAlertSettings(u, m, value)
  PROVE  Safe'
  <1>1. DatabaseTypes /\ RequestTypes /\ LockTypes /\ IngestTypeOK
    BY TypeParts DEF Safe
  <1>2. CASE Pass
    <2>1. UNCHANGED <<assign, catalogVars, lockVars, adminVars, ingestVars>>
      BY <1>2 DEF Pass, Tick
    <2>2. clock' \in Time /\ clock <= clock'
      BY <1>1, <1>2, StoreAssumption DEF Pass, Tick, DatabaseTypes, Time
    <2>3. DatabaseTypes' /\ RequestTypes' /\ LockTypes'
      BY <1>1, <2>1, <2>2 DEF DatabaseTypes, RequestTypes, LockTypes, catalogVars, lockVars,
         rows, adminVars, requestVars, ledgerVars, authorityVars
    <2>4. TypeOK'
      BY <1>1, <2>1, <2>3, IngestUnchanged, TypePartsNext
    <2>5. UNCHANGED <<assign, lifecycle, phase, cmd, sampled, xlock>>
      BY <2>1 DEF catalogVars, lockVars, adminVars, requestVars
    <2> QED BY <2>2, <2>4, <2>5, BystanderKeepsSafe
  <1>3. ASSUME NEW u \in Users, NEW m \in Points, NEW value \in QuietHours,
               ChangeAlertSettings(u, m, value)
        PROVE  Safe'
    <2>1. /\ UNCHANGED <<clock, assign, lifecycle, shopOf, lockVars, adminVars,
                         workerVars, presenceVars, acks>>
          /\ settings' = [settings EXCEPT ![m] = value]
          /\ curfew' = [curfew EXCEPT ![m].in = FALSE]
      BY <1>3 DEF ChangeAlertSettings, SetAlertSettings
    <2>2. DatabaseTypes' /\ RequestTypes' /\ LockTypes'
      BY <1>1, <2>1, IngestAssumption DEF DatabaseTypes, RequestTypes, LockTypes, lockVars,
         rows, adminVars, requestVars, ledgerVars, authorityVars, Settings
    <2>3. IngestTypeOK'
      BY <1>1, <2>1 DEF IngestTypeOK, workerVars, presenceVars
    <2>4. TypeOK'
      BY <2>2, <2>3, TypePartsNext
    <2>5. UNCHANGED <<assign, lifecycle, phase, cmd, sampled, xlock>> /\ clock <= clock'
      BY <1>1, <2>1 DEF lockVars, adminVars, requestVars, DatabaseTypes, Time
    <2> QED BY <2>4, <2>5, BystanderKeepsSafe
  <1> QED BY <1>2, <1>3

-----------------------------------------------------------------------------
(***************************************************************************)
(* The invariant                                                           *)
(***************************************************************************)

\* The database that earlier transactions left satisfies the inductive
\* invariant: its assignments are of different devices and points.
LEMMA InitSafe == Init => Safe
  <1> SUFFICES ASSUME Init PROVE Safe
    OBVIOUS
  <1> USE DEF Init
  <1>1. rows = Seeds
    BY DEF StoreInit, PlacementAtStart, rows
  <1>2. ASSUME NEW a \in Seeds
        PROVE  /\ assign[a] = [dev |-> PlacedAt[a].dev, mp |-> PlacedAt[a].mp,
                               from |-> 0, to |-> NULL]
               /\ assign[a].dev = PlacedAt[a].dev /\ assign[a].mp = PlacedAt[a].mp
               /\ assign[a].from = 0 /\ assign[a].to = NULL
               /\ PlacedAt[a].dev \in Devices /\ PlacedAt[a].mp \in Points
               /\ assign[a] \in AssignmentRow
    <2>1. assign[a] = [dev |-> PlacedAt[a].dev, mp |-> PlacedAt[a].mp,
                       from |-> 0, to |-> NULL]
      BY DEF StoreInit, PlacementAtStart
    <2>2. PlacedAt[a].dev \in Devices /\ PlacedAt[a].mp \in Points
      BY StoreAssumption
    <2>3. 0 \in Time
      BY StoreAssumption DEF Time
    <2> QED BY <2>1, <2>2, <2>3 DEF AssignmentRow
  <1>3. DatabaseTypes
    <2>1. \A a \in Seeds : assign[a] \in AssignmentRow
      BY <1>2
    <2>2. assign \in [rows -> AssignmentRow]
      BY <1>1, <2>1 DEF StoreInit, PlacementAtStart
    <2>3. clock \in Time /\ lifecycle \in [Devices -> Lifecycles]
      BY StoreAssumption DEF StoreInit, Time, Lifecycles
    <2>4. shopOf \in [Points -> Shops \cup {NoShop}] /\ settings \in [Points -> Settings]
      BY StoreAssumption DEF StoreInit, Settings
    <2>5. DOMAIN ledger = {}
      BY DEF AdminInit
    <2> QED BY <1>1, <2>2, <2>3, <2>4, <2>5 DEF DatabaseTypes, AdminInit, AssignmentIds
  <1>4. RequestTypes
    BY StoreAssumption, CommandAssumption
       DEF AdminInit, RequestTypes, Phases, Outcomes, Time
  <1>5. LockTypes
    BY DEF StoreInit, LockTypes
  <1>6. IngestTypeOK
    BY StoreAssumption DEF IngestInit, IngestTypeOK, Stages, Statuses, Time
  <1>7. TypeOK
    BY <1>3, <1>4, <1>5, <1>6, TypeParts
  <1>8. NoOverlap
    <2>1. ASSUME NEW a \in Seeds, NEW b \in Seeds, a # b
          PROVE  Excludes(assign[a], assign[b])
      <3>1. PlacedAt[a].dev # PlacedAt[b].dev /\ PlacedAt[a].mp # PlacedAt[b].mp
        BY <2>1, StoreAssumption
      <3>2. /\ assign[a].dev = PlacedAt[a].dev /\ assign[a].mp = PlacedAt[a].mp
            /\ assign[b].dev = PlacedAt[b].dev /\ assign[b].mp = PlacedAt[b].mp
        BY <1>2
      <3> QED BY <3>1, <3>2 DEF Excludes
    <2>2. ASSUME NEW a \in Seeds
          PROVE  assign[a].from <= clock /\ assign[a].to <= clock
      <3>1. assign[a].from = 0 /\ assign[a].to = -1 /\ clock = 1
        BY <1>2 DEF StoreInit, NULL
      <3> QED BY <3>1
    <2> QED BY <1>1, <2>1, <2>2 DEF NoOverlap, ConstraintsHold, rows
  <1>9. AssignedDeviceInService
    <2>1. \A a \in Seeds : assign[a].dev \in Devices
      BY <1>2
    <2> QED BY <1>1, <2>1 DEF AssignedDeviceInService, StoreInit
  <1>10. RowIdsAreFresh
    BY <1>1, StoreAssumption DEF RowIdsAreFresh
  <1>11. AppliedIsReady
    BY DEF AppliedIsReady, AdminInit
  <1> QED BY <1>7, <1>8, <1>9, <1>10, <1>11 DEF Safe

\* The inductive invariant is preserved by every step of placement.
LEMMA NextSafe == Safe /\ [Next]_vars => Safe'
  <1> SUFFICES ASSUME Safe, [Next]_vars PROVE Safe'
    OBVIOUS
  <1>1. CASE Pass
    BY <1>1, SurroundingsKeepSafe
  <1>2. ASSUME NEW r \in Requests, WorkRequest(r) PROVE Safe'
    BY <1>2, WorkKeepsSafe DEF WorkRequest
  <1>3. ASSUME NEW r \in Requests, Abort(r), UNCHANGED ingestVars PROVE Safe'
    <2>1. phase[r] # "new" /\ Finish(r, "failed", {}) /\ KeepDatabase
      BY <1>3 DEF Abort, InTx
    <2> QED BY <1>3, <2>1, FinishKeepsSafe DEF Outcomes
  <1>4. ASSUME NEW r \in Requests, NEW c \in Commands, Submit(r, c), UNCHANGED ingestVars
        PROVE  Safe'
    BY <1>4, SubmitKeepsSafe
  <1>5. ASSUME UNCHANGED ingestVars,
               \/ \E s \in Sessions : RevokeSession(s) \/ ExpireSession(s)
               \/ \E u \in Users, shop \in Shops : RevokeScope(u, shop)
        PROVE  Safe'
    BY <1>5, AuthorityKeepsSafe
  <1>6. ASSUME NEW w \in Workers, UNCHANGED adminVars,
               Process(w) \/ WorkerFails(w) \/ \E m \in Messages : Receive(w, m)
        PROVE  Safe'
    BY <1>6, WorkerKeepsSafe
  <1>7. ASSUME NEW u \in Users, NEW m \in Points, NEW value \in QuietHours,
               ChangeAlertSettings(u, m, value)
        PROVE  Safe'
    BY <1>7, SurroundingsKeepSafe
  <1>8. CASE UNCHANGED vars
    <2> USE DEF vars, storeVars, adminVars, catalogVars, lockVars, requestVars,
                ledgerVars, authorityVars
    <2>1. UNCHANGED ingestVars /\ UNCHANGED <<assign, lifecycle, phase, cmd, sampled, xlock>>
      BY <1>8
    <2>2. DatabaseTypes /\ RequestTypes /\ LockTypes /\ IngestTypeOK
      BY TypeParts DEF Safe
    <2>3. DatabaseTypes'
      BY <1>8, <2>2 DEF DatabaseTypes, rows
    <2>4. RequestTypes' /\ LockTypes'
      BY <1>8, <2>2 DEF RequestTypes, LockTypes
    <2>5. TypeOK'
      BY <2>1, <2>2, <2>3, <2>4, IngestUnchanged, TypePartsNext
    <2>6. clock <= clock'
      BY <1>8, <2>2 DEF DatabaseTypes, Time
    <2> QED BY <2>1, <2>5, <2>6, BystanderKeepsSafe
  <1> QED BY <1>1, <1>2, <1>3, <1>4, <1>5, <1>6, <1>7, <1>8 DEF Next, ProcessMessage

\* The inductive invariant holds in every state: what the executor checked
\* under its row locks is still true when it commits.
THEOREM Invariance == Spec => []Safe
  BY InitSafe, NextSafe, PTL DEF Spec

\* Placement is type correct: among others, a retried request never exceeds
\* maxAttempts, and every row in assign names an existing device and point.
THEOREM TypeCorrect == Spec => []TypeOK
  <1>1. Safe => TypeOK
    BY DEF Safe
  <1> QED BY <1>1, Invariance, PTL

\* The row locks alone keep assignment intervals disjoint: no administrative
\* request ever meets the exclusion constraints of device_assignments.
THEOREM LocksSuffice == Spec => []LocksPreventOverlap
  <1>1. Safe => LocksPreventOverlap
    BY ReadyRespectsConstraints DEF LocksPreventOverlap
  <1> QED BY <1>1, Invariance, PTL

\* Whatever administrators and workers do, the committed device_assignments
\* hold no overlap and nothing that starts or ends in the future.
THEOREM HistoryIsConsistent == Spec => []NoOverlap
  <1>1. Safe => NoOverlap
    BY DEF Safe
  <1> QED BY <1>1, Invariance, PTL

\* Disable and retire against bind and replace: no device is assigned while
\* it is out of service.
THEOREM AssignedMeansInService == Spec => []AssignedDeviceInService
  <1>1. Safe => AssignedDeviceInService
    BY DEF Safe
  <1> QED BY <1>1, Invariance, PTL

(***************************************************************************)
(* The only step that writes an assignment or a lifecycle status is the    *)
(* COMMIT of a request that has applied its command.                       *)
(***************************************************************************)
Keeps == UNCHANGED <<assign, lifecycle>>

\* Of the steps of a request only its COMMIT writes device_assignments or
\* devices.lifecycle_status.
LEMMA RequestWrites ==
  ASSUME NEW r \in Requests, Work(r)
  PROVE  clock' = clock /\ (Keeps \/ (phase[r] = "applied" /\ Install(r)))
  <1> USE DEF Keeps
  <1>k. KeepDatabase => clock' = clock /\ Keeps
    BY DEF KeepDatabase, KeepStore, catalogVars
  <1>1. ASSUME NEW row \in Rows, Acquire(r, row) \/ Deny(r, row)
        PROVE  KeepDatabase
    BY <1>1 DEF Acquire, Deny
  <1>2. CASE Load(r) \/ Resolve(r) \/ Claim(r) \/ Apply(r) \/ DeadlockVictim(r)
    BY <1>2, <1>k DEF Load, Resolve, Claim, Apply, DeadlockVictim, Replay
  <1>3. CASE Commit(r)
    BY <1>3, <1>k DEF Commit, Install
  <1> QED BY <1>1, <1>2, <1>3, <1>k DEF Work

\* Nor does any other step of the system, by the clock, a worker or an
\* administrator of sessions, grants and alert settings.
LEMMA OnlyCommitWrites ==
  ASSUME Safe, [Next]_vars
  PROVE  \/ UNCHANGED <<clock, assign, lifecycle>>
         \/ Tick /\ Keeps
         \/ \E r \in Requests : phase[r] = "applied" /\ Install(r) /\ clock' = clock
  <1> USE DEF Keeps
  <1>k. KeepStore => UNCHANGED <<clock, assign, lifecycle>>
    BY DEF KeepStore, catalogVars
  <1>1. CASE Pass
    BY <1>1 DEF Pass, Tick, catalogVars
  <1>2. ASSUME NEW r \in Requests, WorkRequest(r)
        PROVE  \/ UNCHANGED <<clock, assign, lifecycle>>
               \/ phase[r] = "applied" /\ Install(r) /\ clock' = clock
    BY <1>2, RequestWrites DEF WorkRequest
  <1>3. ASSUME NEW r \in Requests, Abort(r) \/ \E c \in Commands : Submit(r, c)
        PROVE  UNCHANGED <<clock, assign, lifecycle>>
    BY <1>3, <1>k DEF Abort, Submit, KeepDatabase
  <1>4. ASSUME NEW s \in Sessions, RevokeSession(s) \/ ExpireSession(s)
        PROVE  UNCHANGED <<clock, assign, lifecycle>>
    BY <1>4, <1>k DEF RevokeSession, ExpireSession
  <1>5. ASSUME NEW u \in Users, NEW shop \in Shops, RevokeScope(u, shop)
        PROVE  UNCHANGED <<clock, assign, lifecycle>>
    BY <1>5, <1>k DEF RevokeScope
  <1>6. ASSUME NEW w \in Workers,
               Process(w) \/ WorkerFails(w) \/ \E m \in Messages : Receive(w, m)
        PROVE  UNCHANGED <<clock, assign, lifecycle>>
    <2>1. KeepRows
      BY <1>6, WorkerStep DEF Safe
    <2> QED BY <2>1 DEF KeepRows, catalogVars
  <1>7. ASSUME NEW u \in Users, NEW m \in Points, NEW value \in QuietHours,
               ChangeAlertSettings(u, m, value)
        PROVE  UNCHANGED <<clock, assign, lifecycle>>
    BY <1>7 DEF ChangeAlertSettings, SetAlertSettings
  <1>8. CASE UNCHANGED vars
    BY <1>8 DEF vars, storeVars, catalogVars
  <1> QED BY <1>1, <1>2, <1>3, <1>4, <1>5, <1>6, <1>7, <1>8 DEF Next, ProcessMessage

-----------------------------------------------------------------------------
(***************************************************************************)
(* What a commit does is one operation of the registry.                    *)
(***************************************************************************)

\* No other row of the device or point that a request is about to place
\* reaches beyond the transition time the executor sampled.
LEMMA ReadyIsFree ==
  ASSUME Safe, NEW r \in Requests, phase[r] = "applied", Inserts(cmd[r]),
         NEW skip, Moves(cmd[r]) => cmd[r].cur \in skip
  PROVE  /\ Registry!DeviceFree(NewRow(r).dev, sampled[r], skip)
         /\ Registry!PointFree(NewRow(r).mp, sampled[r], skip)
  <1>1. Clear(r)
    BY DEF Safe, AppliedIsReady, Ready
  <1>2. \A b \in rows \ skip :
           assign[b].dev = NewRow(r).dev \/ assign[b].mp = NewRow(r).mp =>
              assign[b].to # NULL /\ assign[b].to <= sampled[r]
    BY <1>1 DEF Clear
  <1> QED BY <1>2 DEF Registry!DeviceFree, Registry!PointFree, rows, NULL, Registry!NULL

\* The rows closeAssignment and the insert publish, as the registry writes
\* them.
LEMMA InstalledRows ==
  ASSUME Safe, NEW r \in Requests, phase[r] = "applied", Install(r)
  PROVE  /\ ~Moves(cmd[r]) /\ ~Inserts(cmd[r]) => assign' = assign
         /\ ~Moves(cmd[r]) /\ Inserts(cmd[r]) =>
              assign' = Registry!With(assign, r, NewRow(r))
         /\ Moves(cmd[r]) /\ ~Inserts(cmd[r]) =>
              assign' = Registry!Closed(cmd[r].cur, sampled[r])
         /\ Moves(cmd[r]) /\ Inserts(cmd[r]) =>
              assign' = Registry!With(Registry!Closed(cmd[r].cur, sampled[r]), r, NewRow(r))
  <1> DEFINE c == cmd[r]
             closed == Registry!Closed(c.cur, sampled[r])
  <1>1. /\ r \notin rows /\ (Moves(c) => c.cur \in rows)
        /\ DOMAIN Written(r) = rows \cup (IF Inserts(c) THEN {r} ELSE {})
        /\ \A a \in rows : ~(Moves(c) /\ a = c.cur) => Written(r)[a] = assign[a]
        /\ Moves(c) => Written(r)[c.cur] = [assign[c.cur] EXCEPT !.to = sampled[r]]
        /\ Inserts(c) => Written(r)[r] = NewRow(r)
    BY WrittenRows
  <1>2. assign' = Written(r) /\ Written(r) = [a \in DOMAIN Written(r) |-> Written(r)[a]]
    BY DEF Install, Written
  <1>3. assign = [a \in rows |-> assign[a]]
    BY TypeParts DEF Safe, DatabaseTypes
  <1>4. /\ DOMAIN closed = rows
        /\ closed = [a \in rows |-> closed[a]]
        /\ Moves(c) => \A a \in rows :
             closed[a] = IF a = c.cur THEN [assign[a] EXCEPT !.to = sampled[r]] ELSE assign[a]
    BY <1>1, <1>3 DEF Registry!Closed, rows
  <1> HIDE DEF closed
  <1>5. CASE ~Moves(c) /\ ~Inserts(c)
    <2>1. DOMAIN Written(r) = rows /\ \A a \in rows : Written(r)[a] = assign[a]
      BY <1>1, <1>5
    <2> QED BY <1>2, <1>3, <1>5, <2>1
  <1>6. CASE ~Moves(c) /\ Inserts(c)
    <2>1. DOMAIN Written(r) = rows \cup {r} /\ \A a \in rows : Written(r)[a] = assign[a]
      BY <1>1, <1>6
    <2>2. \A a \in rows \cup {r} : Written(r)[a] = IF a = r THEN NewRow(r) ELSE assign[a]
      BY <1>1, <1>6, <2>1
    <2>3. assign' = [a \in rows \cup {r} |-> IF a = r THEN NewRow(r) ELSE assign[a]]
      BY <1>2, <2>1, <2>2
    <2> QED BY <1>6, <2>3 DEF Registry!With, rows
  <1>7. CASE Moves(c) /\ ~Inserts(c)
    <2>1. DOMAIN Written(r) = rows /\ \A a \in rows : Written(r)[a] = closed[a]
      BY <1>1, <1>4, <1>7
    <2>2. assign' = closed
      BY <1>2, <1>4, <2>1
    <2> QED BY <1>7, <2>2 DEF closed
  <1>8. CASE Moves(c) /\ Inserts(c)
    <2>1. DOMAIN Written(r) = rows \cup {r} /\ \A a \in rows : Written(r)[a] = closed[a]
      BY <1>1, <1>4, <1>8
    <2>2. \A a \in rows \cup {r} : Written(r)[a] = IF a = r THEN NewRow(r) ELSE closed[a]
      BY <1>1, <1>8, <2>1
    <2>3. assign' = [a \in rows \cup {r} |-> IF a = r THEN NewRow(r) ELSE closed[a]]
      BY <1>2, <2>1, <2>2
    <2>4. assign' = Registry!With(closed, r, NewRow(r))
      BY <1>4, <2>3 DEF Registry!With
    <2> QED BY <1>8, <2>4 DEF closed
  <1> QED BY <1>5, <1>6, <1>7, <1>8

\* A COMMIT is one operation of the registry, or none (create).
LEMMA InstallRefines ==
  ASSUME Safe, NEW r \in Requests, phase[r] = "applied", Install(r), clock' = clock
  PROVE  Registry!Next \/ UNCHANGED <<clock, assign, lifecycle>>
  <1> DEFINE c == cmd[r]
             t == sampled[r]
  <1>1. DatabaseTypes /\ RequestTypes /\ Ready(r)
    BY TypeParts DEF Safe, AppliedIsReady
  <1>2. /\ c \in CommandType /\ c.action \in Actions /\ c.dev \in Devices
        /\ c.mp \in Points /\ c.cur \in AssignmentIds
    BY <1>1, CommandTypes DEF CommandType
  <1>3. t \in 0 .. clock /\ r \in AssignmentIds /\ r \notin DOMAIN assign
    <2>1. t \in Time /\ clock \in Time /\ t <= clock
      BY <1>1 DEF RequestTypes, DatabaseTypes, Ready
    <2>2. r \notin rows
      BY WrittenRows
    <2> QED BY <2>1, <2>2 DEF Time, AssignmentIds, rows
  <1>4. Moves(c) => Registry!Current(c.cur) /\ assign[c.cur].from < t
    BY <1>1 DEF Ready, IsCurrent, Registry!Current, rows, NULL, Registry!NULL
  <1>5. c.action \notin LifecycleActions => lifecycle' = lifecycle
    BY DEF Install
  <1>6. CASE c.action = "create"
    <2>1. ~Moves(c) /\ ~Inserts(c) /\ c.action \notin LifecycleActions
      BY <1>6 DEF Moves, Inserts, LifecycleActions
    <2> QED BY <2>1, <1>5, InstalledRows
  <1>7. CASE c.action = "bind"
    <2>1. ~Moves(c) /\ Inserts(c) /\ c.action \notin LifecycleActions
      BY <1>7 DEF Moves, Inserts, LifecycleActions
    <2>2. NewRow(r) = Registry!Row(c.dev, c.mp, t)
      BY <1>7 DEF NewRow, Registry!Row, NULL, Registry!NULL
    <2>3. assign' = Registry!With(assign, r, Registry!Row(c.dev, c.mp, t))
      BY <2>1, <2>2, InstalledRows
    <2>4. Registry!DeviceFree(c.dev, t, {}) /\ Registry!PointFree(c.mp, t, {})
      <3>1. NewRow(r).dev = c.dev /\ NewRow(r).mp = c.mp
        BY <1>7 DEF NewRow
      <3>2. /\ Registry!DeviceFree(NewRow(r).dev, t, {})
            /\ Registry!PointFree(NewRow(r).mp, t, {})
        BY <2>1, ReadyIsFree
      <3> QED BY <3>1, <3>2
    <2>5. lifecycle[c.dev] = "ACTIVE"
      BY <1>1, <1>7 DEF Ready
    <2>6. Registry!Place(r, c.dev, c.mp, t)
      BY <1>3, <1>5, <2>1, <2>3, <2>4, <2>5 DEF Registry!Place
    <2> QED BY <1>2, <1>3, <2>6 DEF Registry!Next, Registry!Operate
  <1>8. CASE c.action = "unbind"
    <2>1. Moves(c) /\ ~Inserts(c) /\ c.action \notin LifecycleActions
      BY <1>8 DEF Moves, Inserts, LifecycleActions
    <2>2. assign' = Registry!Closed(c.cur, t)
      BY <2>1, InstalledRows
    <2>3. Registry!Vacate(c.cur, t)
      BY <1>4, <1>5, <2>1, <2>2 DEF Registry!Vacate
    <2> QED BY <1>2, <1>3, <2>3 DEF Registry!Next, Registry!Operate
  <1>9. CASE c.action = "replace"
    <2>1. Moves(c) /\ Inserts(c) /\ c.action \notin LifecycleActions
      BY <1>9 DEF Moves, Inserts, LifecycleActions
    <2>2. /\ NewRow(r) = Registry!Row(c.dev, assign[c.cur].mp, t)
          /\ NewRow(r).dev = c.dev /\ NewRow(r).mp = assign[c.cur].mp
      BY <1>9 DEF NewRow, Registry!Row, NULL, Registry!NULL
    <2>3. assign' = Registry!With(Registry!Closed(c.cur, t), r,
                                  Registry!Row(c.dev, assign[c.cur].mp, t))
      BY <2>1, <2>2, InstalledRows
    <2>4. /\ Registry!DeviceFree(c.dev, t, {c.cur})
          /\ Registry!PointFree(assign[c.cur].mp, t, {c.cur})
      <3>1. /\ Registry!DeviceFree(NewRow(r).dev, t, {c.cur})
            /\ Registry!PointFree(NewRow(r).mp, t, {c.cur})
        BY <2>1, ReadyIsFree
      <3> QED BY <2>2, <3>1
    <2>5. lifecycle[c.dev] = "ACTIVE" /\ c.dev # assign[c.cur].dev
      BY <1>1, <1>9 DEF Ready
    <2>6. Registry!DeviceFree(c.dev, t, {})
      BY <2>4, <2>5 DEF Registry!DeviceFree
    <2>7. Registry!Replace(c.cur, r, c.dev, t)
      BY <1>3, <1>4, <1>5, <2>1, <2>3, <2>4, <2>5, <2>6 DEF Registry!Replace
    <2> QED BY <1>2, <1>3, <2>7 DEF Registry!Next, Registry!Operate
  <1>10. CASE c.action = "relocate"
    <2>1. Moves(c) /\ Inserts(c) /\ c.action \notin LifecycleActions
      BY <1>10 DEF Moves, Inserts, LifecycleActions
    <2>2. /\ NewRow(r) = Registry!Row(assign[c.cur].dev, c.mp, t)
          /\ NewRow(r).dev = assign[c.cur].dev /\ NewRow(r).mp = c.mp
      BY <1>10 DEF NewRow, Registry!Row, NULL, Registry!NULL
    <2>3. assign' = Registry!With(Registry!Closed(c.cur, t), r,
                                  Registry!Row(assign[c.cur].dev, c.mp, t))
      BY <2>1, <2>2, InstalledRows
    <2>4. /\ Registry!DeviceFree(assign[c.cur].dev, t, {c.cur})
          /\ Registry!PointFree(c.mp, t, {c.cur})
      <3>1. /\ Registry!DeviceFree(NewRow(r).dev, t, {c.cur})
            /\ Registry!PointFree(NewRow(r).mp, t, {c.cur})
        BY <2>1, ReadyIsFree
      <3> QED BY <2>2, <3>1
    <2>5. c.mp # assign[c.cur].mp
      BY <1>1, <1>10 DEF Ready
    <2>6. Registry!PointFree(c.mp, t, {})
      BY <2>4, <2>5 DEF Registry!PointFree
    <2>7. Registry!Relocate(c.cur, r, c.mp, t)
      BY <1>3, <1>4, <1>5, <2>1, <2>3, <2>4, <2>5, <2>6 DEF Registry!Relocate
    <2> QED BY <1>2, <1>3, <2>7 DEF Registry!Next, Registry!Operate
  <1>11. CASE c.action \in LifecycleActions
    <2>1. ~Moves(c) /\ ~Inserts(c)
      BY <1>11 DEF Moves, Inserts, LifecycleActions
    <2>2. assign' = assign
      BY <2>1, InstalledRows
    <2>3. /\ LifecycleOK(c)
          /\ lifecycle' = [lifecycle EXCEPT ![c.dev] = LifecycleTarget(c.action)]
      BY <1>1, <1>11 DEF Ready, Install
    <2> DEFINE target == LifecycleTarget(c.action)
    <2>4. /\ target \in {"ACTIVE", "DISABLED", "RETIRED"}
          /\ \/ lifecycle[c.dev] = "ACTIVE" /\ target \in {"DISABLED", "RETIRED"}
             \/ lifecycle[c.dev] = "DISABLED" /\ target \in {"ACTIVE", "RETIRED"}
      BY <1>11, <2>3 DEF LifecycleOK, CanTransition, LifecycleTarget, LifecycleActions
    <2>5. target # "ACTIVE" => ~DeviceAssigned(c.dev)
      BY <1>11, <2>3 DEF LifecycleOK, CanTransition, LifecycleTarget, LifecycleActions
    <2> HIDE DEF target
    <2>6. target # "ACTIVE" =>
            \A a \in DOMAIN assign : Registry!Current(a) => assign[a].dev # c.dev
      BY <2>5 DEF DeviceAssigned, IsCurrent, rows, Registry!Current, NULL, Registry!NULL
    <2>7. <<lifecycle[c.dev], target>> \in
            {<<"ACTIVE", "DISABLED">>, <<"DISABLED", "ACTIVE">>,
             <<"ACTIVE", "RETIRED">>, <<"DISABLED", "RETIRED">>}
      BY <2>4
    <2>8. Registry!SetService(c.dev, target)
      BY <2>2, <2>3, <2>6, <2>7 DEF Registry!SetService, target
    <2> QED BY <1>2, <2>4, <2>8 DEF Registry!Next
  <1> QED BY <1>2, <1>6, <1>7, <1>8, <1>9, <1>10, <1>11
          DEF Actions, BindingActions, LifecycleActions

\* Device placement implements the registry: what commits, however requests
\* and workers interleave, is one legal registry operation at a time.
THEOREM PlacementRefinesRegistry == Spec => ImplementsRegistry
  <1>1. Init => Registry!Init
    BY DEF Init, StoreInit, Registry!Init
  <1>2. Safe /\ [Next]_vars => [Registry!Next]_(Registry!registryVars)
    <2> SUFFICES ASSUME Safe, [Next]_vars
                 PROVE  Registry!Next \/ UNCHANGED <<clock, assign, lifecycle>>
      BY DEF Registry!registryVars
    <2>1. CASE Tick /\ Keeps
      BY <2>1 DEF Tick, Keeps, Registry!Next, Registry!Advance
    <2>2. CASE \E r \in Requests : phase[r] = "applied" /\ Install(r) /\ clock' = clock
      BY <2>2, InstallRefines
    <2> QED BY <2>1, <2>2, OnlyCommitWrites
  <1> QED BY <1>1, <1>2, Invariance, PTL DEF Spec, ImplementsRegistry, Registry!Spec

-----------------------------------------------------------------------------
(***************************************************************************)
(* Action properties                                                       *)
(***************************************************************************)

\* device_assignments is append-only: the executor never deletes a row and
\* changes one only by closing it, after its start.
THEOREM HistoryAppends == Spec => HistoryIsAppendOnly
  <1> DEFINE Appends ==
        \A a \in rows :
           /\ a \in DOMAIN assign'
           /\ \/ assign'[a] = assign[a]
              \/ /\ assign[a].to = NULL
                 /\ assign[a].from < assign'[a].to
                 /\ assign'[a] = [assign[a] EXCEPT !.to = assign'[a].to]
  <1>1. Safe /\ [Next]_vars => Appends
    <2> SUFFICES ASSUME Safe, [Next]_vars PROVE Appends
      OBVIOUS
    <2>1. CASE assign' = assign
      BY <2>1 DEF rows
    <2>2. ASSUME NEW r \in Requests, phase[r] = "applied", Install(r) PROVE Appends
      <3> SUFFICES ASSUME NEW a \in rows
                   PROVE  /\ a \in DOMAIN assign'
                          /\ \/ assign'[a] = assign[a]
                             \/ /\ assign[a].to = NULL
                                /\ assign[a].from < assign'[a].to
                                /\ assign'[a] = [assign[a] EXCEPT !.to = assign'[a].to]
        OBVIOUS
      <3>1. assign' = Written(r) /\ Ready(r) /\ DatabaseTypes
        BY <2>2, TypeParts DEF Install, Safe, AppliedIsReady
      <3>2. DOMAIN Written(r) = rows \cup (IF Inserts(cmd[r]) THEN {r} ELSE {})
        BY <2>2, WrittenRows
      <3>3. a \in DOMAIN assign'
        BY <3>1, <3>2
      <3>4. CASE Moves(cmd[r]) /\ a = cmd[r].cur
        <4>1. assign'[a] = [assign[a] EXCEPT !.to = sampled[r]]
          BY <2>2, <3>1, <3>4, WrittenRows
        <4>2. assign[a] \in AssignmentRow
          BY <3>1 DEF DatabaseTypes
        <4>3. assign'[a].to = sampled[r]
          BY <4>1, <4>2 DEF AssignmentRow
        <4>4. assign[a].to = NULL /\ assign[a].from < sampled[r]
          BY <3>1, <3>4 DEF Ready, IsCurrent
        <4> QED BY <3>3, <4>1, <4>3, <4>4
      <3>5. CASE ~(Moves(cmd[r]) /\ a = cmd[r].cur)
        <4>1. assign'[a] = assign[a]
          BY <2>2, <3>1, <3>5, WrittenRows
        <4> QED BY <3>3, <4>1
      <3> QED BY <3>4, <3>5
    <2> QED BY <2>1, <2>2, OnlyCommitWrites DEF Keeps
  <1> QED BY <1>1, Invariance, PTL DEF Spec, HistoryIsAppendOnly

\* RETIRED is final: no lifecycle command commits a transition out of it.
THEOREM RetirementIsFinal == Spec => RetiredIsFinal
  <1> DEFINE Final == \A d \in Devices : lifecycle[d] = "RETIRED" => lifecycle'[d] = "RETIRED"
  <1>1. Safe /\ [Next]_vars => Final
    <2> SUFFICES ASSUME Safe, [Next]_vars PROVE Final
      OBVIOUS
    <2>1. CASE lifecycle' = lifecycle
      BY <2>1
    <2>2. ASSUME NEW r \in Requests, phase[r] = "applied", Install(r) PROVE Final
      <3>1. Ready(r) /\ lifecycle \in [Devices -> Lifecycles]
        BY <2>2, TypeParts DEF Safe, AppliedIsReady, DatabaseTypes
      <3>2. CASE cmd[r].action \in LifecycleActions
        <4>1. lifecycle[cmd[r].dev] # "RETIRED"
          BY <3>1, <3>2 DEF Ready, LifecycleOK, CanTransition
        <4>2. lifecycle' = [lifecycle EXCEPT ![cmd[r].dev] = LifecycleTarget(cmd[r].action)]
          BY <2>2, <3>2 DEF Install
        <4> QED BY <3>1, <4>1, <4>2
      <3>3. CASE cmd[r].action \notin LifecycleActions
        BY <2>2, <3>3 DEF Install
      <3> QED BY <3>2, <3>3
    <2> QED BY <2>1, <2>2, OnlyCommitWrites DEF Keeps
  <1> QED BY <1>1, Invariance, PTL DEF Spec, RetiredIsFinal
-----------------------------------------------------------------------------
(***************************************************************************)
(* The idempotency ledger, the audit history and authority.  A request     *)
(* keeps the rows of its admission locked until it ends; that is what      *)
(* keeps its authority, and what keeps another request with the same key   *)
(* from committing between its look at the ledger and its plan.            *)
(***************************************************************************)

\* The ledger holds the answer to c.
Answered(c) == Committed(c) /\ ledger[Slot(c)].hash = Hash(c)

\* What the HTTP handler resolved; rows and points do not go away.
Resolved(c) ==
  /\ Moves(c) => c.cur \in rows
  /\ \A m \in PointsOf(c) : PointExists(m)

\* What a row of the admission showed when it was locked, it still shows.
Trusted(r) ==
  /\ xlock[<<"session", cmd[r].session>>] = r => session[cmd[r].session] # "revoked"
  /\ r \in slock[<<"scope", User(cmd[r])>>] => Authorized(cmd[r])

HoldsAdmission(r) ==
  /\ xlock[<<"session", cmd[r].session>>] = r
  /\ r \in slock[<<"scope", User(cmd[r])>>]
  /\ cmd[r].action \in BindingActions =>
       \A d \in DevicesOf(cmd[r]) : r \in slock[<<"device", d>>]

\* A request in the middle of its transaction, and one that has ended.  While
\* it plans, its key may only be taken by a request of another hash, or by
\* one that creates a point: that one locks no device.
Sound(r) ==
  /\ phase[r] # "done" => shopOf[NewPoint[r]] = NoShop /\ outcome[r] = "none"
  /\ phase[r] \in InTx => Resolved(cmd[r]) /\ Trusted(r)
  /\ phase[r] \in InTx \ {"admit"} => HoldsAdmission(r)
  /\ phase[r] = "resolve" => /\ cmd[r].action \in BindingActions
                             /\ Answered(cmd[r]) => cmd[r].action = "create"
  /\ HasClaimed(r) => ~Committed(cmd[r])
  /\ outcome[r] = "ok" => /\ Committed(cmd[r]) /\ ledger[Slot(cmd[r])].op = r
                          /\ response[r] = {r}
  /\ outcome[r] = "replayed" => /\ Answered(cmd[r])
                                /\ response[r] = {ledger[Slot(cmd[r])].op}

\* FOR UPDATE and FOR SHARE exclude each other.
LocksExclude ==
  \A row \in Rows : xlock[row] # NoTx => slock[row] \subseteq {xlock[row]}

OneClaim ==
  \A r, q \in Requests :
     r # q /\ HasClaimed(r) /\ HasClaimed(q) => Slot(cmd[r]) # Slot(cmd[q])

LedgerSound ==
  \A s \in DOMAIN ledger :
     /\ outcome[ledger[s].op] = "ok" /\ phase[ledger[s].op] = "done"
     /\ Slot(cmd[ledger[s].op]) = s
     /\ ledger[s].hash = Hash(cmd[ledger[s].op])

AuditSound ==
  /\ \A x \in audit :
       /\ x.op \in Requests /\ phase[x.op] = "done"
       /\ \A a \in AssignmentIds : x.new = {a} => a = x.op
       /\ \A a \in AssignmentIds : x.old = {a} => a \in rows /\ assign[a].to # NULL
  /\ AuditExplainsAssignments

Books ==
  /\ LocksExclude
  /\ OneClaim
  /\ LedgerSound
  /\ AuditSound
  /\ \A r \in Requests : Sound(r)

-----------------------------------------------------------------------------
(***************************************************************************)
(* Steps of others                                                         *)
(***************************************************************************)

\* The locks of every request but t are as they were.
KeepsOthers(t) ==
  \A row \in Rows, q \in Requests \ {t} :
     /\ xlock'[row] = q <=> xlock[row] = q
     /\ q \in slock'[row] <=> q \in slock[row]

\* COMMIT or ROLLBACK (ReleaseLocks) neither gives another request a lock nor
\* takes one from it, and leaves FOR UPDATE and FOR SHARE exclusive.
LEMMA ReleaseIsOwn ==
  ASSUME LockTypes, LocksExclude, NEW t \in Txs, ReleaseLocks(t)
  PROVE  KeepsOthers(t) /\ LocksExclude'
  <1>1. \A row \in Rows : /\ xlock'[row] = (IF xlock[row] = t THEN NoTx ELSE xlock[row])
                          /\ slock'[row] = slock[row] \ {t}
    BY DEF ReleaseLocks
  <1>2. KeepsOthers(t)
    BY <1>1, StoreAssumption DEF KeepsOthers, Txs
  <1>3. LocksExclude'
    BY <1>1 DEF LocksExclude
  <1> QED BY <1>2, <1>3

\* So does SELECT ... FOR UPDATE or FOR SHARE of a row that is free for it.
LEMMA AcquireIsOwn ==
  ASSUME LockTypes, LocksExclude, NEW t \in Txs, NEW row \in Rows,
         \/ FreeX(t, row) /\ LockX(t, row)
         \/ FreeS(t, row) /\ LockS(t, row)
  PROVE  KeepsOthers(t) /\ LocksExclude'
  <1>1. CASE FreeX(t, row) /\ LockX(t, row)
    <2>1. \A x \in Rows : /\ xlock'[x] = (IF x = row THEN t ELSE xlock[x])
                          /\ slock'[x] = slock[x]
      BY <1>1 DEF LockX, LockTypes
    <2>2. KeepsOthers(t)
      BY <1>1, <2>1, StoreAssumption DEF KeepsOthers, FreeX, Txs
    <2>3. LocksExclude'
      BY <1>1, <2>1 DEF LocksExclude, FreeX
    <2> QED BY <2>2, <2>3
  <1>2. CASE FreeS(t, row) /\ LockS(t, row)
    <2>1. \A x \in Rows :
             /\ xlock'[x] = xlock[x]
             /\ slock'[x] = (IF x = row THEN slock[x] \cup {t} ELSE slock[x])
      BY <1>2 DEF LockS, LockTypes
    <2>2. KeepsOthers(t)
      BY <2>1 DEF KeepsOthers
    <2>3. LocksExclude'
      <3> SUFFICES ASSUME NEW x \in Rows, xlock'[x] # NoTx
                   PROVE  slock'[x] \subseteq {xlock'[x]}
        BY DEF LocksExclude
      <3>1. slock[x] \subseteq {xlock[x]} /\ xlock'[x] = xlock[x]
        BY <2>1 DEF LocksExclude
      <3>2. x = row => xlock[x] = t
        BY <1>2, <3>1 DEF FreeS
      <3> QED BY <2>1, <3>1, <3>2
    <2> QED BY <2>2, <2>3
  <1> QED BY <1>1, <1>2

\* A request that a step neither moves nor unlocks, and whose session and
\* grants it does not withdraw, stays sound while the committed rows stay.
LEMMA OthersStaySound ==
  ASSUME TypeOK, NEW q \in Requests, Sound(q), UNCHANGED <<assign, shopOf, ledger>>,
         phase'[q] = phase[q], cmd'[q] = cmd[q],
         outcome'[q] = outcome[q], response'[q] = response[q],
         \A row \in Rows : /\ xlock'[row] = q <=> xlock[row] = q
                           /\ q \in slock'[row] <=> q \in slock[row],
         \A s \in Sessions :
            xlock[<<"session", s>>] = q /\ session[s] # "revoked" => session'[s] # "revoked",
         \A u \in Users : q \in slock[<<"scope", u>>] => scope'[u] = scope[u]
  PROVE  Sound(q)'
  <1> DEFINE c == cmd[q]
  <1>1. DatabaseTypes /\ RequestTypes
    BY TypeParts
  <1>2. /\ shopOf'[NewPoint[q]] = shopOf[NewPoint[q]]
        /\ Committed(cmd[q])' <=> Committed(c)
        /\ Answered(cmd[q])' <=> Answered(c)
        /\ ledger'[Slot(cmd[q])'] = ledger[Slot(c)]
    BY DEF Committed, Answered, Slot, Hash, User
  <1>3. DevicesOf(cmd[q])' = DevicesOf(c) /\ PointsOf(cmd[q])' = PointsOf(c)
    BY DEF DevicesOf, PointsOf
  <1>4. Resolved(c) => Resolved(cmd[q])'
    BY <1>3 DEF Resolved, Moves, rows, PointExists
  <1>5. ASSUME phase[q] \in InTx PROVE Trusted(q)'
    <2>1. c \in CommandType /\ User(c) \in Users
      BY <1>1, <1>5, CommandTypes DEF InTx
    <2>2. <<"session", c.session>> \in Rows /\ <<"scope", User(c)>> \in Rows /\ c.session \in Sessions
      BY <2>1 DEF Rows, CommandType
    <2>3. Trusted(q)
      BY <1>5 DEF Sound
    <2>4. ShopsOf(cmd[q])' = ShopsOf(c) /\ User(cmd[q])' = User(c)
      BY <1>3 DEF ShopsOf, User
    <2>5. xlock'[<<"session", c.session>>] = q => session'[c.session] # "revoked"
      BY <2>2, <2>3 DEF Trusted
    <2>6. q \in slock'[<<"scope", User(c)>>] => ShopsOf(c) \subseteq scope'[User(c)]
      BY <2>1, <2>2, <2>3 DEF Trusted, Authorized
    <2> QED BY <2>4, <2>5, <2>6 DEF Trusted, Authorized
  <1>6. ASSUME phase[q] \in InTx \ {"admit"} PROVE HoldsAdmission(q)'
    <2>1. c \in CommandType /\ User(c) \in Users
      BY <1>1, <1>6, CommandTypes DEF InTx
    <2>2. <<"session", c.session>> \in Rows /\ <<"scope", User(c)>> \in Rows
      BY <2>1 DEF Rows, CommandType
    <2>3. HoldsAdmission(q) /\ Resolved(c)
      BY <1>6 DEF Sound
    <2>4. \A d \in DevicesOf(c) : <<"device", d>> \in Rows
      BY <1>1, <2>1, <2>3, WorkRowsAreRows DEF Resolved, Rows
    <2> QED BY <2>2, <2>3, <2>4, <1>3 DEF HoldsAdmission, User
  <1> QED BY <1>2, <1>4, <1>5, <1>6 DEF Sound, HasClaimed
\* A step of one request that writes no committed row keeps the books when it
\* leaves that request sound and claims no key that is claimed already.
LEMMA RequestKeepsBooks ==
  ASSUME Safe, Books, NEW r \in Requests, phase[r] # "done", KeepDatabase,
         KeepsOthers(r), LocksExclude', Sound(r)',
         \A q \in Requests \ {r} :
            /\ phase'[q] = phase[q] /\ cmd'[q] = cmd[q]
            /\ outcome'[q] = outcome[q] /\ response'[q] = response[q],
         HasClaimed(r)' =>
           \A q \in Requests \ {r} : HasClaimed(q) => Slot(cmd[q]) # Slot(cmd[r])'
  PROVE  Books'
  <1>1. UNCHANGED <<assign, shopOf, ledger, audit, session, scope>>
    BY DEF KeepDatabase, KeepStore, catalogVars, ledgerVars, authorityVars
  <1>2. ASSUME NEW q \in Requests, q # r PROVE Sound(q)'
    <2>1. \A row \in Rows : /\ xlock'[row] = q <=> xlock[row] = q
                            /\ q \in slock'[row] <=> q \in slock[row]
      BY <1>2 DEF KeepsOthers
    <2>2. Sound(q) /\ TypeOK
      BY DEF Books, Safe
    <2> QED BY <1>1, <1>2, <2>1, <2>2, OthersStaySound
  <1>3. OneClaim'
    <2> SUFFICES ASSUME NEW p \in Requests, NEW q \in Requests, p # q,
                        HasClaimed(p)', HasClaimed(q)'
                 PROVE  Slot(cmd[p])' # Slot(cmd[q])'
      BY DEF OneClaim
    <2>1. \A x \in Requests \ {r} :
             (HasClaimed(x)' <=> HasClaimed(x)) /\ Slot(cmd[x])' = Slot(cmd[x])
      BY DEF HasClaimed, Slot, User
    <2>2. CASE p = r
      BY <2>1, <2>2
    <2>3. CASE q = r
      BY <2>1, <2>3
    <2>4. CASE p # r /\ q # r
      BY <2>1, <2>4 DEF Books, OneClaim
    <2> QED BY <2>2, <2>3, <2>4
  <1>4. LedgerSound'
    <2> SUFFICES ASSUME NEW s \in DOMAIN ledger
                 PROVE  LET q == ledger[s].op IN
                        /\ outcome'[q] = "ok" /\ phase'[q] = "done"
                        /\ Slot(cmd'[q]) = s /\ ledger[s].hash = Hash(cmd'[q])
      BY <1>1 DEF LedgerSound, Slot, User, Hash
    <2> DEFINE q == ledger[s].op
    <2>1. q \in Requests
      BY TypeParts DEF Safe, DatabaseTypes
    <2>2. /\ outcome[q] = "ok" /\ phase[q] = "done"
          /\ Slot(cmd[q]) = s /\ ledger[s].hash = Hash(cmd[q])
      BY DEF Books, LedgerSound
    <2>3. q # r
      BY <2>2
    <2> HIDE DEF q
    <2>4. phase'[q] = phase[q] /\ cmd'[q] = cmd[q] /\ outcome'[q] = outcome[q]
      BY <2>1, <2>3
    <2>5. /\ outcome'[q] = "ok" /\ phase'[q] = "done"
          /\ Slot(cmd'[q]) = s /\ ledger[s].hash = Hash(cmd'[q])
      BY <2>2, <2>4
    <2> QED BY <2>5 DEF q
  <1>5. AuditSound'
    <2>1. AuditExplainsAssignments'
      BY <1>1 DEF Books, AuditSound, AuditExplainsAssignments, rows
    <2>2. \A x \in audit : phase'[x.op] = "done"
      BY DEF Books, AuditSound
    <2> QED BY <1>1, <2>1, <2>2 DEF Books, AuditSound, rows
  <1> QED BY <1>2, <1>3, <1>4, <1>5 DEF Books

\* A request that ends without a commit keeps the books: a refusal, a failure
\* or an answer from the ledger.
LEMMA FinishKeepsBooks ==
  ASSUME Safe, Books, NEW r \in Requests, phase[r] \in InTx,
         NEW what \in Outcomes \ {"ok"}, NEW op, Finish(r, what, op), KeepDatabase,
         what = "replayed" =>
           Answered(cmd[r]) /\ op = {ledger[Slot(cmd[r])].op}
  PROVE  Books'
  <1>1. RequestTypes /\ LockTypes /\ LocksExclude /\ r \in Txs /\ phase[r] # "done"
    BY TypeParts DEF Safe, Books, Txs, InTx
  <1>2. KeepsOthers(r) /\ LocksExclude'
    BY <1>1, ReleaseIsOwn DEF Finish
  <1>3. /\ phase'[r] = "done" /\ outcome'[r] = what /\ response'[r] = op
        /\ cmd' = cmd
        /\ \A q \in Requests \ {r} :
             /\ phase'[q] = phase[q]
             /\ outcome'[q] = outcome[q] /\ response'[q] = response[q]
    BY <1>1 DEF Finish, RequestTypes
  <1>4. UNCHANGED ledger
    BY DEF KeepDatabase, ledgerVars
  <1>5. Sound(r)'
    <2>1. what = "replayed" =>
            Answered(cmd[r])' /\ response'[r] = {ledger'[Slot(cmd[r])'].op}
      BY <1>3, <1>4 DEF Answered, Committed, Slot, User, Hash
    <2> QED BY <1>3, <2>1 DEF Sound, InTx, HasClaimed
  <1>6. ~(HasClaimed(r)')
    BY <1>3 DEF HasClaimed
  <1> QED BY <1>1, <1>2, <1>3, <1>5, <1>6, RequestKeepsBooks

\* LoadAdminBindingOperation and a lost claim answer with the ledger row of
\* the key, or refuse the key.
LEMMA ReplayKeepsBooks ==
  ASSUME Safe, Books, NEW r \in Requests, phase[r] \in InTx, Replay(r)
  PROVE  Books'
  <1>1. "replayed" \in Outcomes \ {"ok"} /\ "reused" \in Outcomes \ {"ok"}
    BY DEF Outcomes
  <1>2. KeepDatabase
    BY DEF Replay
  <1>3. \/ /\ Answered(cmd[r])
           /\ Finish(r, "replayed", {ledger[Slot(cmd[r])].op})
        \/ Finish(r, "reused", {})
    BY DEF Replay, Answered
  <1> QED BY <1>1, <1>2, <1>3, FinishKeepsBooks
\* A request that has been admitted moves on inside executeClaimed: to its
\* plan with its key unused, and past the claim only alone with its key.
LEMMA AdvanceKeepsBooks ==
  ASSUME Safe, Books, NEW r \in Requests, phase[r] \in InTx, HoldsAdmission(r),
         NEW where \in InTx \ {"admit"}, phase' = [phase EXCEPT ![r] = where],
         UNCHANGED <<cmd, outcome, response, lockVars>>, KeepDatabase,
         where = "resolve" => cmd[r].action \in BindingActions /\ ~Committed(cmd[r]),
         where \in {"lock", "applied"} =>
           /\ ~Committed(cmd[r])
           /\ \A q \in Requests \ {r} : HasClaimed(q) => Slot(cmd[q]) # Slot(cmd[r])
  PROVE  Books'
  <1>1. RequestTypes /\ Sound(r) /\ phase[r] # "done"
    BY TypeParts DEF Safe, Books, InTx
  <1>2. /\ phase'[r] = where /\ where # "done"
        /\ \A q \in Requests \ {r} : phase'[q] = phase[q]
    BY <1>1 DEF RequestTypes, InTx
  <1>3. UNCHANGED <<assign, shopOf, ledger, session, scope, xlock, slock>>
    BY DEF KeepDatabase, KeepStore, catalogVars, ledgerVars, authorityVars, lockVars
  <1>4. KeepsOthers(r) /\ LocksExclude'
    BY <1>3 DEF KeepsOthers, LocksExclude, Books
  <1>5. /\ Committed(cmd[r])' <=> Committed(cmd[r])
        /\ Answered(cmd[r])' <=> Answered(cmd[r])
        /\ Slot(cmd[r])' = Slot(cmd[r])
    BY <1>3 DEF Committed, Answered, Slot, User, Hash
  <1>6. Resolved(cmd[r])' /\ Trusted(r)' /\ HoldsAdmission(r)'
    <2>1. Resolved(cmd[r]) /\ Trusted(r)
      BY <1>1 DEF Sound
    <2> QED BY <1>3, <2>1
            DEF Resolved, Trusted, HoldsAdmission, PointsOf, DevicesOf, ShopsOf, Moves, rows,
                PointExists, Authorized, User
  <1>7. Sound(r)'
    <2>1. outcome'[r] = "none" /\ shopOf'[NewPoint[r]] = NoShop
      BY <1>1, <1>3 DEF Sound
    <2>2. where = "resolve" => ~Answered(cmd[r])
      BY DEF Answered
    <2> QED BY <1>2, <1>5, <1>6, <2>1, <2>2 DEF Sound, HasClaimed, InTx
  <1>8. HasClaimed(r)' =>
          \A q \in Requests \ {r} : HasClaimed(q) => Slot(cmd[q]) # Slot(cmd[r])'
    BY <1>2, <1>5 DEF HasClaimed
  <1> QED BY <1>1, <1>2, <1>4, <1>7, <1>8, RequestKeepsBooks

\* A request whose admission has nothing left to lock holds all of it.
LEMMA AdmittedHolds ==
  ASSUME NEW r \in Requests, phase[r] = "admit", Outstanding(r) = {}
  PROVE  HoldsAdmission(r)
  <1>1. \A row \in AdmissionRows(cmd[r]) : Holds(r, row)
    BY DEF Outstanding, Needed
  <1>2. /\ <<"session", cmd[r].session>> \in AdmissionRows(cmd[r])
        /\ <<"scope", User(cmd[r])>> \in AdmissionRows(cmd[r])
        /\ cmd[r].action \in BindingActions =>
             \A d \in DevicesOf(cmd[r]) : <<"device", d>> \in AdmissionRows(cmd[r])
    BY DEF AdmissionRows
  <1>3. xlock[<<"session", cmd[r].session>>] = r
    BY <1>1, <1>2 DEF Holds, Exclusive
  <1>4. r \in slock[<<"scope", User(cmd[r])>>]
    <2>1. ~Exclusive(r, <<"scope", User(cmd[r])>>)
      BY DEF Exclusive
    <2> QED BY <1>1, <1>2, <2>1 DEF Holds
  <1>5. ASSUME cmd[r].action \in BindingActions, NEW d \in DevicesOf(cmd[r])
        PROVE  r \in slock[<<"device", d>>]
    <2>1. ~Exclusive(r, <<"device", d>>)
      BY DEF Exclusive
    <2> QED BY <1>1, <1>2, <1>5, <2>1 DEF Holds
  <1> QED BY <1>3, <1>4, <1>5 DEF HoldsAdmission

\* The look at the ledger keeps the books: it answers, or goes on with a key
\* that is not used.
LEMMA LoadKeepsBooks ==
  ASSUME Safe, Books, NEW r \in Requests, Load(r)
  PROVE  Books'
  <1>1. phase[r] = "admit" /\ phase[r] \in InTx /\ HoldsAdmission(r)
    BY AdmittedHolds DEF Load, InTx
  <1>2. CASE Replay(r)
    BY <1>1, <1>2, ReplayKeepsBooks
  <1>3. CASE ~Replay(r)
    <2>1. /\ ~Committed(cmd[r]) /\ KeepDatabase
          /\ \/ cmd[r].action \in BindingActions /\ Goto(r, "resolve")
             \/ Goto(r, "claim")
      BY <1>3 DEF Load
    <2>2. "resolve" \in InTx \ {"admit"} /\ "claim" \in InTx \ {"admit"}
      BY DEF InTx
    <2> QED BY <1>1, <2>1, <2>2, AdvanceKeepsBooks DEF Goto
  <1> QED BY <1>2, <1>3

\* The plan of resolveClient keeps the books.
LEMMA ResolveKeepsBooks ==
  ASSUME Safe, Books, NEW r \in Requests, Resolve(r)
  PROVE  Books'
  <1>1. phase[r] \in InTx /\ HoldsAdmission(r) /\ KeepDatabase
    BY DEF Resolve, InTx, Books, Sound
  <1>2. "claim" \in InTx \ {"admit"} /\ "refused" \in Outcomes \ {"ok"}
    BY DEF InTx, Outcomes
  <1>3. Goto(r, "claim") \/ Finish(r, "refused", {})
    BY DEF Resolve
  <1> QED BY <1>1, <1>2, <1>3, AdvanceKeepsBooks, FinishKeepsBooks DEF Goto

\* ClaimAdminBindingOperation keeps the books: it waits for every request
\* that holds the same key.
LEMMA ClaimKeepsBooks ==
  ASSUME Safe, Books, NEW r \in Requests, Claim(r)
  PROVE  Books'
  <1>1. phase[r] \in InTx /\ HoldsAdmission(r)
    BY DEF Claim, InTx, Books, Sound
  <1>2. CASE Replay(r)
    BY <1>1, <1>2, ReplayKeepsBooks
  <1>3. CASE ~Replay(r)
    <2>1. /\ ~Committed(cmd[r]) /\ KeepDatabase
          /\ \A q \in Requests \ {r} : HasClaimed(q) => Slot(cmd[q]) # Slot(cmd[r])
          /\ Goto(r, "lock") \/ Finish(r, "refused", {})
      BY <1>3 DEF Claim
    <2>2. "lock" \in InTx \ {"admit"} /\ "refused" \in Outcomes \ {"ok"}
      BY DEF InTx, Outcomes
    <2> QED BY <1>1, <2>1, <2>2, AdvanceKeepsBooks, FinishKeepsBooks DEF Goto
  <1> QED BY <1>2, <1>3

\* Applying the command under its locks keeps the books.
LEMMA ApplyKeepsBooks ==
  ASSUME Safe, Books, NEW r \in Requests, Apply(r)
  PROVE  Books'
  <1>1. /\ phase[r] = "lock" /\ phase[r] \in InTx /\ HoldsAdmission(r) /\ KeepDatabase
        /\ HasClaimed(r) /\ ~Committed(cmd[r])
    BY DEF Apply, InTx, Books, Sound, HasClaimed
  <1>2. \A q \in Requests \ {r} : HasClaimed(q) => Slot(cmd[q]) # Slot(cmd[r])
    BY <1>1 DEF Books, OneClaim
  <1>3. "applied" \in InTx \ {"admit"} /\ "refused" \in Outcomes \ {"ok"}
    BY DEF InTx, Outcomes
  <1>4. \/ /\ phase' = [phase EXCEPT ![r] = "applied"]
           /\ UNCHANGED <<cmd, outcome, response, lockVars>>
        \/ Finish(r, "refused", {})
    BY DEF Apply
  <1> QED BY <1>1, <1>2, <1>3, <1>4, AdvanceKeepsBooks, FinishKeepsBooks
\* A request that locks its next row keeps the books: a session or grant that
\* it locks still authorises it.
LEMMA AcquireKeepsBooks ==
  ASSUME Safe, Books, NEW r \in Requests, NEW row \in Rows, Acquire(r, row)
  PROVE  Books'
  <1> DEFINE c == cmd[r]
  <1>1. DatabaseTypes /\ RequestTypes /\ LockTypes /\ LocksExclude /\ r \in Txs /\ Sound(r)
    BY TypeParts DEF Safe, Books, Txs
  <1>2. /\ phase[r] \in {"admit", "lock"} /\ KeepDatabase /\ row \in Needed(r)
        /\ UNCHANGED <<phase, cmd, outcome, response>>
        /\ phase[r] = "admit" => Admits(r, row)
    BY DEF Acquire, requestVars, IsNext, Outstanding
  <1>3. UNCHANGED <<assign, shopOf, ledger, session, scope>>
    BY <1>2 DEF KeepDatabase, KeepStore, catalogVars, ledgerVars, authorityVars
  <1>4. \/ Exclusive(r, row) /\ FreeX(r, row) /\ LockX(r, row)
        \/ ~Exclusive(r, row) /\ FreeS(r, row) /\ LockS(r, row)
    BY DEF Acquire, Free
  <1>5. KeepsOthers(r) /\ LocksExclude'
    BY <1>1, <1>4, AcquireIsOwn
  <1>6. \A x \in Rows :
           /\ xlock[x] = r => xlock'[x] = r
           /\ r \in slock[x] => r \in slock'[x]
           /\ x # row => (xlock'[x] = r => xlock[x] = r) /\ (r \in slock'[x] => r \in slock[x])
    BY <1>1, <1>4 DEF LockX, LockS, LockTypes
  <1>7. c \in CommandType /\ User(c) \in Users
    BY <1>1, <1>2, CommandTypes
  <1>8. /\ <<"session", c.session>> \in Rows /\ <<"scope", User(c)>> \in Rows
    BY <1>7 DEF Rows, CommandType
  <1>9. Resolved(c) /\ Trusted(r)
    BY <1>1, <1>2 DEF Sound, InTx
  <1>10. phase[r] = "lock" => row[1] \in {"device", "point"}
    BY <1>2 DEF Needed, WorkRows
  <1>11. Trusted(r)'
    <2>1. xlock'[<<"session", c.session>>] = r => session[c.session] # "revoked"
      <3>1. CASE row = <<"session", c.session>>
        <4>1. phase[r] = "admit" /\ Admits(r, row) /\ row[1] = "session"
          BY <1>2, <1>10, <3>1
        <4> QED BY <4>1 DEF Admits
      <3>2. CASE row # <<"session", c.session>>
        BY <1>6, <1>8, <1>9, <3>2 DEF Trusted
      <3> QED BY <3>1, <3>2
    <2>2. r \in slock'[<<"scope", User(c)>>] => Authorized(c)
      <3>1. CASE row = <<"scope", User(c)>>
        <4>1. phase[r] = "admit" /\ Admits(r, row) /\ row[1] = "scope"
          BY <1>2, <1>10, <3>1
        <4> QED BY <4>1 DEF Admits
      <3>2. CASE row # <<"scope", User(c)>>
        BY <1>6, <1>8, <1>9, <3>2 DEF Trusted
      <3> QED BY <3>1, <3>2
    <2>3. Authorized(c) => Authorized(cmd[r])'
      BY <1>2, <1>3 DEF Authorized, ShopsOf, PointsOf, User
    <2> QED BY <1>2, <1>3, <2>1, <2>2, <2>3 DEF Trusted, User
  <1>12. HoldsAdmission(r) => HoldsAdmission(r)'
    <2>1. \A d \in DevicesOf(c) : <<"device", d>> \in Rows
      BY <1>1, <1>7, <1>9, WorkRowsAreRows DEF Resolved, Rows
    <2>2. DevicesOf(cmd[r])' = DevicesOf(c)
      BY <1>2, <1>3 DEF DevicesOf
    <2> QED BY <1>2, <1>6, <1>8, <2>1, <2>2 DEF HoldsAdmission, User
  <1>13. Resolved(cmd[r])'
    BY <1>2, <1>3, <1>9 DEF Resolved, PointsOf, Moves, rows, PointExists
  <1>14. Committed(cmd[r])' <=> Committed(c)
    BY <1>2, <1>3 DEF Committed, Slot, User
  <1>15. Sound(r)'
    <2>1. outcome[r] = "none" /\ shopOf[NewPoint[r]] = NoShop
      BY <1>1, <1>2 DEF Sound
    <2>2. phase[r] = "lock" => HoldsAdmission(r) /\ ~Committed(c)
      BY <1>1 DEF Sound, InTx, HasClaimed
    <2> QED BY <1>2, <1>3, <1>11, <1>12, <1>13, <1>14, <2>1, <2>2 DEF Sound, HasClaimed, InTx
  <1>16. HasClaimed(r)' =>
           \A q \in Requests \ {r} : HasClaimed(q) => Slot(cmd[q]) # Slot(cmd[r])'
    BY <1>2 DEF HasClaimed, Books, OneClaim, Slot, User
  <1> QED BY <1>2, <1>5, <1>15, <1>16, RequestKeepsBooks

\* A request that the HTTP handler hands to the executor keeps the books.
LEMMA SubmitKeepsBooks ==
  ASSUME Safe, Books, NEW r \in Requests, NEW c \in Commands, Submit(r, c)
  PROVE  Books'
  <1>1. RequestTypes /\ Sound(r)
    BY TypeParts DEF Safe, Books
  <1>2. /\ phase[r] = "new" /\ phase'[r] = "admit" /\ cmd'[r] = c
        /\ \A q \in Requests \ {r} : phase'[q] = phase[q] /\ cmd'[q] = cmd[q]
        /\ UNCHANGED <<outcome, response, xlock, slock>> /\ KeepDatabase
    BY <1>1 DEF Submit, RequestTypes, lockVars
  <1>3. UNCHANGED <<assign, shopOf, ledger, session, scope>>
    BY <1>2 DEF KeepDatabase, KeepStore, catalogVars, ledgerVars, authorityVars
  <1>4. KeepsOthers(r) /\ LocksExclude'
    BY <1>2 DEF KeepsOthers, LocksExclude, Books
  <1>5. Resolved(cmd[r])'
    <2>1. Resolved(c)
      BY DEF Submit, Resolvable, Resolved
    <2> QED BY <1>2, <1>3, <2>1 DEF Resolved, PointsOf, Moves, rows, PointExists
  <1>6. Trusted(r)'
    <2>1. session[c.session] = "live" /\ Authorized(c)
      BY DEF Submit
    <2> QED BY <1>2, <1>3, <2>1 DEF Trusted, Authorized, ShopsOf, PointsOf, User
  <1>7. Sound(r)'
    <2>1. outcome[r] = "none" /\ shopOf[NewPoint[r]] = NoShop
      BY <1>1, <1>2 DEF Sound
    <2> QED BY <1>2, <1>3, <1>5, <1>6, <2>1 DEF Sound, HasClaimed, InTx
  <1>8. ~(HasClaimed(r)')
    BY <1>2 DEF HasClaimed
  <1> QED BY <1>2, <1>4, <1>7, <1>8, RequestKeepsBooks

\* A request that run retries, or gives up on, after 40P01 keeps the books:
\* it holds nothing any more.
LEMMA VictimKeepsBooks ==
  ASSUME Safe, Books, NEW r \in Requests, DeadlockVictim(r)
  PROVE  Books'
  <1>1. phase[r] \in InTx /\ phase[r] # "done" /\ KeepDatabase
    BY VictimWaits DEF DeadlockVictim, InTx
  <1>2. CASE ~(Retriable(r) /\ attempt[r] < MaxAttempts)
    <2>1. "concurrent" \in Outcomes \ {"ok"} /\ "deadlock" \in Outcomes \ {"ok"}
      BY DEF Outcomes
    <2>2. Finish(r, "concurrent", {}) \/ Finish(r, "deadlock", {})
      BY <1>2 DEF DeadlockVictim
    <2> QED BY <1>1, <2>1, <2>2, FinishKeepsBooks
  <1>3. CASE Retriable(r) /\ attempt[r] < MaxAttempts
    <2>1. /\ phase' = [phase EXCEPT ![r] = "admit"] /\ ReleaseLocks(r)
          /\ UNCHANGED <<cmd, outcome, response>>
      BY <1>3 DEF DeadlockVictim
    <2>2. DatabaseTypes /\ RequestTypes /\ LockTypes /\ LocksExclude /\ r \in Txs /\ Sound(r)
      BY TypeParts DEF Safe, Books, Txs
    <2>3. /\ phase'[r] = "admit"
          /\ \A q \in Requests \ {r} : phase'[q] = phase[q]
      BY <2>1, <2>2 DEF RequestTypes
    <2>4. KeepsOthers(r) /\ LocksExclude'
      BY <2>1, <2>2, ReleaseIsOwn
    <2>5. UNCHANGED <<assign, shopOf, ledger>>
      BY <1>1 DEF KeepDatabase, KeepStore, catalogVars, ledgerVars
    <2>6. Resolved(cmd[r])'
      <3>1. Resolved(cmd[r])
        BY <1>1, <2>2 DEF Sound
      <3> QED BY <2>1, <2>5, <3>1 DEF Resolved, PointsOf, Moves, rows, PointExists
    <2>7. Trusted(r)'
      <3>1. cmd[r] \in CommandType /\ User(cmd[r]) \in Users
        BY <1>1, <2>2, CommandTypes DEF InTx
      <3>2. /\ <<"session", cmd[r].session>> \in Rows /\ <<"scope", User(cmd[r])>> \in Rows
        BY <3>1 DEF Rows, CommandType
      <3>3. \A row \in Rows : xlock'[row] # r /\ r \notin slock'[row]
        BY <2>1, StoreAssumption DEF ReleaseLocks, Txs
      <3> QED BY <2>1, <3>2, <3>3 DEF Trusted, User
    <2>8. Sound(r)'
      <3>1. outcome[r] = "none" /\ shopOf[NewPoint[r]] = NoShop
        BY <1>1, <2>2 DEF Sound
      <3> QED BY <2>1, <2>3, <2>5, <2>6, <2>7, <3>1 DEF Sound, HasClaimed, InTx
    <2>9. ~(HasClaimed(r)')
      BY <2>3 DEF HasClaimed
    <2> QED BY <1>1, <2>1, <2>3, <2>4, <2>8, <2>9, RequestKeepsBooks
  <1> QED BY <1>2, <1>3
-----------------------------------------------------------------------------
(***************************************************************************)
(* COMMIT                                                                  *)
(***************************************************************************)

\* closeAssignment and the insert leave the device, the point and the start
\* of every row as they are, and a closed row altogether.
LEMMA InstallKeepsPlaces ==
  ASSUME Safe, NEW r \in Requests, phase[r] = "applied", Install(r), NEW a \in rows
  PROVE  /\ a \in rows'
         /\ assign'[a].dev = assign[a].dev /\ assign'[a].mp = assign[a].mp
         /\ assign'[a].from = assign[a].from
         /\ ~(Moves(cmd[r]) /\ a = cmd[r].cur) => assign'[a] = assign[a]
         /\ Moves(cmd[r]) /\ a = cmd[r].cur =>
              assign[a].to = NULL /\ assign'[a].to = sampled[r] /\ sampled[r] # NULL
  <1>1. assign' = Written(r) /\ Ready(r) /\ DatabaseTypes /\ RequestTypes
    BY TypeParts DEF Install, Safe, AppliedIsReady
  <1>2. assign[a] \in AssignmentRow /\ sampled[r] \in Time
    BY <1>1 DEF DatabaseTypes, RequestTypes
  <1>3. a \in rows'
    <2>1. DOMAIN Written(r) = rows \cup (IF Inserts(cmd[r]) THEN {r} ELSE {})
      BY WrittenRows
    <2> QED BY <1>1, <2>1 DEF rows
  <1>4. CASE Moves(cmd[r]) /\ a = cmd[r].cur
    <2>1. assign'[a] = [assign[a] EXCEPT !.to = sampled[r]]
      BY <1>1, <1>4, WrittenRows
    <2>2. assign[a].to = NULL
      BY <1>1, <1>4 DEF Ready, IsCurrent
    <2>3. sampled[r] # NULL
      BY <1>2 DEF Time, NULL
    <2> QED BY <1>2, <1>3, <1>4, <2>1, <2>2, <2>3 DEF AssignmentRow
  <1>5. CASE ~(Moves(cmd[r]) /\ a = cmd[r].cur)
    <2>1. assign'[a] = assign[a]
      BY <1>1, <1>5, WrittenRows
    <2> QED BY <1>3, <1>5, <2>1
  <1> QED BY <1>4, <1>5

\* CompleteAdminBindingOperation adds one ledger row, under a key that had
\* none.
LEMMA InstallAddsKey ==
  ASSUME Books, NEW r \in Requests, phase[r] = "applied", Install(r)
  PROVE  /\ Slot(cmd[r]) \notin DOMAIN ledger
         /\ DOMAIN ledger' = DOMAIN ledger \cup {Slot(cmd[r])}
         /\ \A s \in DOMAIN ledger : ledger'[s] = ledger[s]
         /\ ledger'[Slot(cmd[r])].op = r
         /\ ledger'[Slot(cmd[r])].hash = Hash(cmd[r])
  <1>1. Slot(cmd[r]) \notin DOMAIN ledger
    BY DEF Books, Sound, HasClaimed, Committed
  <1>2. ledger' = [s \in DOMAIN ledger \cup {Slot(cmd[r])} |->
                     IF s = Slot(cmd[r])
                     THEN [op |-> r, hash |-> Hash(cmd[r]), at |-> sampled[r]]
                     ELSE ledger[s]]
    BY DEF Install
  <1>3. ledger'[Slot(cmd[r])] = [op |-> r, hash |-> Hash(cmd[r]), at |-> sampled[r]]
    BY <1>2
  <1>4. \A s \in DOMAIN ledger : ledger'[s] = ledger[s]
    BY <1>1, <1>2
  <1> QED BY <1>1, <1>2, <1>3, <1>4

\* Two commands of one canonical hash work on a common device, unless they
\* create a point.
LEMMA SameHashSameDevice ==
  ASSUME NEW c \in CommandType, NEW e \in CommandType,
         c.action \in BindingActions \ {"create"}, e.action = c.action, Hash(c) = Hash(e)
  PROVE  \E d \in DevicesOf(c) : d \in DevicesOf(e)
  <1>1. CASE c.action = "bind"
    <2>1. c.dev = e.dev
      BY <1>1 DEF Hash
    <2>2. DevicesOf(c) = {c.dev} /\ DevicesOf(e) = {e.dev}
      BY <1>1 DEF DevicesOf
    <2> QED BY <2>1, <2>2
  <1>2. CASE c.action = "replace"
    <2>1. c.cur = e.cur
      BY <1>2 DEF Hash
    <2>2. assign[c.cur].dev \in DevicesOf(c) /\ assign[e.cur].dev \in DevicesOf(e)
      BY <1>2 DEF DevicesOf
    <2> QED BY <2>1, <2>2
  <1>3. CASE c.action = "relocate"
    <2>1. c.cur = e.cur
      BY <1>3 DEF Hash
    <2>2. assign[c.cur].dev \in DevicesOf(c) /\ assign[e.cur].dev \in DevicesOf(e)
      BY <1>3 DEF DevicesOf
    <2> QED BY <2>1, <2>2
  <1>4. CASE c.action = "unbind"
    <2>1. c.cur = e.cur
      BY <1>4 DEF Hash
    <2>2. assign[c.cur].dev \in DevicesOf(c) /\ assign[e.cur].dev \in DevicesOf(e)
      BY <1>4 DEF DevicesOf
    <2> QED BY <2>1, <2>2
  <1> QED BY <1>1, <1>2, <1>3, <1>4 DEF BindingActions

\* While a request plans, no other one commits the same command under the
\* same key: it would need a device FOR UPDATE that the first holds FOR SHARE.
LEMMA PlannerKeepsKey ==
  ASSUME Safe, Books, NEW r \in Requests, phase[r] = "applied",
         NEW q \in Requests, q # r, phase[q] = "resolve",
         Slot(cmd[q]) = Slot(cmd[r]), Hash(cmd[q]) = Hash(cmd[r])
  PROVE  cmd[q].action = "create"
  <1> SUFFICES ASSUME cmd[q].action # "create" PROVE FALSE
    OBVIOUS
  <1>1. DatabaseTypes /\ RequestTypes
    BY TypeParts DEF Safe
  <1>2. cmd[q] \in CommandType /\ cmd[r] \in CommandType
    BY <1>1, CommandTypes
  <1>3. cmd[q].action \in BindingActions \ {"create"} /\ cmd[r].action = cmd[q].action
    BY DEF Books, Sound, Slot
  <1>4. PICK d \in DevicesOf(cmd[q]) : d \in DevicesOf(cmd[r])
    BY <1>2, <1>3, SameHashSameDevice
  <1>5. HoldsAdmission(q) /\ Resolved(cmd[q])
    BY DEF Books, Sound, InTx
  <1>6. q \in slock[<<"device", d>>]
    BY <1>3, <1>4, <1>5 DEF HoldsAdmission
  <1>7. xlock[<<"device", d>>] = r
    <2>1. Ready(r)
      BY DEF Safe, AppliedIsReady
    <2> QED BY <1>4, <2>1 DEF Ready, WorkRows
  <1>8. <<"device", d>> \in Rows
    <2>1. DevicesOf(cmd[q]) \subseteq Devices
      BY <1>1, <1>2, <1>5, WorkRowsAreRows DEF Resolved
    <2> QED BY <1>4, <2>1 DEF Rows
  <1>9. r # NoTx
    BY StoreAssumption DEF Txs
  <1> QED BY <1>6, <1>7, <1>8, <1>9 DEF Books, LocksExclude
\* A COMMIT leaves every other request sound.
LEMMA InstallKeepsSound ==
  ASSUME Safe, Books, NEW r \in Requests, phase[r] = "applied", Install(r),
         NEW q \in Requests, q # r
  PROVE  Sound(q)'
  <1> DEFINE c == cmd[q]
  <1>1. DatabaseTypes /\ RequestTypes /\ LockTypes /\ LocksExclude /\ r \in Txs
    BY TypeParts DEF Safe, Books, Txs
  <1>2. Sound(q) /\ Sound(r)
    BY DEF Books
  <1>3. /\ phase'[q] = phase[q] /\ cmd' = cmd
        /\ outcome'[q] = outcome[q] /\ response'[q] = response[q]
        /\ UNCHANGED <<session, scope>>
    BY <1>1 DEF Install, Finish, RequestTypes, authorityVars
  <1>4. KeepsOthers(r)
    BY <1>1, ReleaseIsOwn DEF Install, Finish
  <1>5. /\ shopOf[NewPoint[r]] = NoShop
        /\ \A m \in Points : m # NewPoint[r] => shopOf'[m] = shopOf[m]
    BY <1>1, <1>2 DEF Sound, Install, DatabaseTypes
  <1>6. phase[q] # "done" => shopOf'[NewPoint[q]] = NoShop
    BY <1>2, <1>5, StoreAssumption DEF Sound
  <1>7. Slot(cmd[q])' = Slot(c) /\ Hash(cmd[q])' = Hash(c)
    BY <1>3 DEF Slot, User, Hash
  <1>8. ASSUME Committed(c)
        PROVE  /\ Committed(cmd[q])' /\ ledger'[Slot(cmd[q])'] = ledger[Slot(c)]
               /\ Answered(cmd[q])' <=> Answered(c)
    <2>1. Slot(c) \in DOMAIN ledger
      BY <1>8 DEF Committed
    <2>2. Slot(c) \in DOMAIN ledger' /\ ledger'[Slot(c)] = ledger[Slot(c)]
      BY <2>1, InstallAddsKey
    <2> QED BY <1>7, <2>1, <2>2 DEF Committed, Answered
  <1>9. ASSUME phase[q] \in InTx
        PROVE  /\ Resolved(cmd[q])' /\ Trusted(q)' /\ DevicesOf(cmd[q])' = DevicesOf(c)
               /\ <<"session", c.session>> \in Rows /\ <<"scope", User(c)>> \in Rows
               /\ \A d \in DevicesOf(c) : <<"device", d>> \in Rows
    <2>1. c \in CommandType /\ User(c) \in Users
      BY <1>1, <1>9, CommandTypes DEF InTx
    <2>2. Resolved(c) /\ Trusted(q)
      BY <1>2, <1>9 DEF Sound
    <2>3. Moves(c) => /\ c.cur \in rows /\ c.cur \in rows'
                      /\ assign'[c.cur].dev = assign[c.cur].dev
                      /\ assign'[c.cur].mp = assign[c.cur].mp
      BY <2>2, InstallKeepsPlaces DEF Resolved
    <2>4. DevicesOf(cmd[q])' = DevicesOf(c) /\ PointsOf(cmd[q])' = PointsOf(c)
      BY <1>3, <2>3 DEF DevicesOf, PointsOf, Moves
    <2>5. /\ PointsOf(c) \subseteq Points
          /\ \A d \in DevicesOf(c) : <<"device", d>> \in Rows
      BY <1>1, <2>1, <2>2, WorkRowsAreRows DEF Resolved, Rows
    <2>6. \A m \in PointsOf(c) : shopOf'[m] = shopOf[m] /\ shopOf[m] # NoShop
      BY <1>5, <2>2, <2>5 DEF Resolved, PointExists
    <2>7. Resolved(cmd[q])'
      BY <1>3, <2>3, <2>4, <2>6 DEF Resolved, PointExists, Moves
    <2>8. ShopsOf(cmd[q])' = ShopsOf(c)
      BY <1>3, <2>4, <2>6 DEF ShopsOf
    <2>9. <<"session", c.session>> \in Rows /\ <<"scope", User(c)>> \in Rows
      BY <2>1 DEF Rows, CommandType
    <2>10. Trusted(q)'
      <3>1. /\ xlock'[<<"session", c.session>>] = q => xlock[<<"session", c.session>>] = q
            /\ q \in slock'[<<"scope", User(c)>>] => q \in slock[<<"scope", User(c)>>]
        BY <1>4, <2>9 DEF KeepsOthers
      <3> QED BY <1>3, <2>2, <2>8, <3>1 DEF Trusted, Authorized, User
    <2> QED BY <2>4, <2>5, <2>7, <2>9, <2>10
  <1>10. ASSUME phase[q] \in InTx \ {"admit"} PROVE HoldsAdmission(q)'
    <2>1. HoldsAdmission(q)
      BY <1>2, <1>10 DEF Sound
    <2>2. DevicesOf(cmd[q])' = DevicesOf(c)
      BY <1>9, <1>10
    <2> QED BY <1>3, <1>4, <1>9, <1>10, <2>1, <2>2 DEF HoldsAdmission, KeepsOthers, User
  <1>11. ASSUME phase[q] = "resolve", Answered(cmd[q])' PROVE c.action = "create"
    <2>1. CASE Committed(c)
      BY <1>2, <1>8, <1>11, <2>1 DEF Sound
    <2>2. CASE ~Committed(c)
      <3>1. Slot(c) = Slot(cmd[r])
        <4>1. Slot(c) \in DOMAIN ledger' /\ Slot(c) \notin DOMAIN ledger
          BY <1>7, <1>11, <2>2 DEF Answered, Committed
        <4>2. DOMAIN ledger' = DOMAIN ledger \cup {Slot(cmd[r])}
          BY InstallAddsKey
        <4> QED BY <4>1, <4>2
      <3>2. Hash(c) = Hash(cmd[r])
        <4>1. ledger'[Slot(c)].hash = Hash(c)
          BY <1>7, <1>11 DEF Answered
        <4> QED BY <3>1, <4>1, InstallAddsKey
      <3> QED BY <1>11, <3>1, <3>2, PlannerKeepsKey
    <2> QED BY <2>1, <2>2
  <1>12. ASSUME HasClaimed(q) PROVE ~(Committed(cmd[q])')
    <2>1. Slot(c) # Slot(cmd[r]) /\ Slot(c) \notin DOMAIN ledger
      BY <1>2, <1>12 DEF Books, OneClaim, HasClaimed, Sound, Committed
    <2> QED BY <1>7, <2>1, InstallAddsKey DEF Committed
  <1>13. ASSUME outcome[q] = "ok"
         PROVE  Committed(cmd[q])' /\ ledger'[Slot(cmd[q])'].op = q /\ response'[q] = {q}
    BY <1>2, <1>3, <1>8, <1>13 DEF Sound
  <1>14. ASSUME outcome[q] = "replayed"
         PROVE  Answered(cmd[q])' /\ response'[q] = {ledger'[Slot(cmd[q])'].op}
    BY <1>2, <1>3, <1>8, <1>14 DEF Sound, Answered
  <1>15. HasClaimed(q)' <=> HasClaimed(q)
    BY <1>3 DEF HasClaimed
  <1>16. phase[q] # "done" => outcome[q] = "none"
    BY <1>2 DEF Sound
  <1>17. phase[q] = "resolve" => c.action \in BindingActions
    BY <1>2 DEF Sound
  <1> QED BY <1>3, <1>6, <1>9, <1>10, <1>11, <1>12, <1>13, <1>14, <1>15, <1>16, <1>17 DEF Sound

\* The audit row of a COMMIT explains the rows it writes, and no row that was
\* explained before.
LEMMA InstallKeepsAudit ==
  ASSUME Safe, Books, NEW r \in Requests, phase[r] = "applied", Install(r)
  PROVE  AuditSound'
  <1> DEFINE c == cmd[r]
             row == AuditRow(r)
  <1>1. DatabaseTypes /\ RequestTypes /\ r \notin rows /\ c \in CommandType
    BY TypeParts, WrittenRows DEF Safe
  <1>2. /\ row.op = r /\ row.at = sampled[r]
        /\ row.old = (IF Moves(c) THEN {c.cur} ELSE {})
        /\ row.new = (IF Inserts(c) THEN {r} ELSE {})
    BY DEF AuditRow
  <1>3. audit' = IF c.action \in BindingActions THEN audit \cup {row} ELSE audit
    BY DEF Install
  <1>4. Moves(c) \/ Inserts(c) => row \in audit'
    BY <1>3 DEF Moves, Inserts, BindingActions
  <1>5. audit \subseteq audit' /\ \A x \in audit' : x \in audit \/ x = row
    BY <1>3
  <1> HIDE DEF row
  <1>6. phase'[r] = "done" /\ \A q \in Requests \ {r} : phase'[q] = phase[q]
    BY <1>1 DEF Install, Finish, RequestTypes
  <1>7. \A x \in audit :
           /\ x.op \in Requests /\ phase[x.op] = "done" /\ x.op # r
           /\ \A a \in AssignmentIds : x.new = {a} => a = x.op
           /\ \A a \in AssignmentIds : x.old = {a} => a \in rows /\ assign[a].to # NULL
    BY DEF Books, AuditSound
  <1>8. /\ rows' = rows \cup (IF Inserts(c) THEN {r} ELSE {})
        /\ rows \subseteq AssignmentIds /\ r \in AssignmentIds
        /\ Moves(c) => c.cur \in rows /\ assign[c.cur].to = NULL
    <2>1. rows' = rows \cup (IF Inserts(c) THEN {r} ELSE {})
      BY WrittenRows DEF Install, rows
    <2>2. Moves(c) => IsCurrent(c.cur)
      BY DEF Safe, AppliedIsReady, Ready
    <2> QED BY <1>1, <2>1, <2>2 DEF DatabaseTypes, AssignmentIds, IsCurrent
  <1>9. ASSUME NEW x \in audit'
        PROVE  /\ x.op \in Requests /\ phase'[x.op] = "done"
               /\ \A a \in AssignmentIds : x.new = {a} => a = x.op
               /\ \A a \in AssignmentIds : x.old = {a} => a \in rows' /\ assign'[a].to # NULL
    <2>1. CASE x \in audit
      <3>1. phase'[x.op] = "done" /\ x.op \in Requests
        BY <1>6, <1>7, <2>1
      <3>2. ASSUME NEW a \in AssignmentIds, x.old = {a}
            PROVE  a \in rows' /\ assign'[a].to # NULL
        <4>1. a \in rows /\ assign[a].to # NULL
          BY <1>7, <2>1, <3>2
        <4>2. ~(Moves(c) /\ a = c.cur)
          BY <1>8, <4>1
        <4> QED BY <4>1, <4>2, InstallKeepsPlaces
      <3> QED BY <1>7, <2>1, <3>1, <3>2
    <2>2. CASE x = row
      <3>1. ASSUME NEW a \in AssignmentIds, x.old = {a}
            PROVE  a \in rows' /\ assign'[a].to # NULL
        <4>1. Moves(c) /\ a = c.cur
          BY <1>2, <2>2, <3>1
        <4> QED BY <1>8, <4>1, InstallKeepsPlaces
      <3>2. \A a \in AssignmentIds : x.new = {a} => a = x.op
        BY <1>2, <2>2
      <3> QED BY <1>2, <1>6, <2>2, <3>1, <3>2
    <2> QED BY <1>5, <1>9, <2>1, <2>2
  <1>10. ASSUME NEW a \in rows', a \notin Seeds
         PROVE  \E x \in audit' : /\ x.new = {a} /\ x.at = assign'[a].from
                                  /\ \A y \in audit' : y.new = {a} => y = x
    <2>1. CASE a = r /\ Inserts(c)
      <3>1. assign'[r].from = sampled[r]
        <4>1. assign'[r] = NewRow(r)
          BY <2>1, WrittenRows DEF Install
        <4> QED BY <4>1 DEF NewRow
      <3>2. \A y \in audit' : y.new = {r} => y = row
        BY <1>5, <1>7, <1>8
      <3>3. row \in audit' /\ row.new = {r} /\ row.at = assign'[r].from
        BY <1>2, <1>4, <2>1, <3>1
      <3> QED BY <2>1, <3>2, <3>3
    <2>2. CASE a \in rows
      <3>1. PICK x \in audit : /\ x.new = {a} /\ x.at = assign[a].from
                               /\ \A y \in audit : y.new = {a} => y = x
        BY <1>10, <2>2 DEF Books, AuditSound, AuditExplainsAssignments
      <3>2. assign'[a].from = assign[a].from
        BY <2>2, InstallKeepsPlaces
      <3>3. row.new # {a}
        BY <1>1, <1>2, <2>2
      <3> QED BY <1>5, <3>1, <3>2, <3>3
    <2> QED BY <1>8, <1>10, <2>1, <2>2
  <1>11. ASSUME NEW a \in rows', assign'[a].to # NULL
         PROVE  \E x \in audit' : /\ x.old = {a} /\ x.at = assign'[a].to
                                  /\ \A y \in audit' : y.old = {a} => y = x
    <2>1. CASE Moves(c) /\ a = c.cur
      <3>1. assign'[a].to = sampled[r]
        BY <1>8, <2>1, InstallKeepsPlaces
      <3>2. \A y \in audit' : y.old = {a} => y = row
        BY <1>5, <1>7, <1>8, <2>1
      <3>3. row \in audit' /\ row.old = {a} /\ row.at = assign'[a].to
        BY <1>2, <1>4, <2>1, <3>1
      <3> QED BY <3>2, <3>3
    <2>2. CASE a \in rows /\ ~(Moves(c) /\ a = c.cur)
      <3>1. assign'[a] = assign[a]
        BY <2>2, InstallKeepsPlaces
      <3>2. PICK x \in audit : /\ x.old = {a} /\ x.at = assign[a].to
                               /\ \A y \in audit : y.old = {a} => y = x
        BY <1>11, <2>2, <3>1 DEF Books, AuditSound, AuditExplainsAssignments
      <3>3. row.old # {a}
        BY <1>2, <2>2
      <3> QED BY <1>5, <3>1, <3>2, <3>3
    <2>3. CASE a = r /\ Inserts(c)
      <3>1. assign'[r] = NewRow(r)
        BY <2>3, WrittenRows DEF Install
      <3> QED BY <1>11, <2>3, <3>1 DEF NewRow
    <2> QED BY <1>8, <1>11, <2>1, <2>2, <2>3
  <1>12. AuditExplainsAssignments'
    BY <1>10, <1>11 DEF AuditExplainsAssignments
  <1> QED BY <1>9, <1>12 DEF AuditSound

\* COMMIT keeps the books.
LEMMA InstallKeepsBooks ==
  ASSUME Safe, Books, NEW r \in Requests, phase[r] = "applied", Install(r)
  PROVE  Books'
  <1>1. DatabaseTypes /\ RequestTypes /\ LockTypes /\ LocksExclude /\ r \in Txs
    BY TypeParts DEF Safe, Books, Txs
  <1>2. LocksExclude'
    BY <1>1, ReleaseIsOwn DEF Install, Finish
  <1>3. /\ phase'[r] = "done" /\ cmd' = cmd /\ outcome'[r] = "ok" /\ response'[r] = {r}
        /\ \A q \in Requests \ {r} : phase'[q] = phase[q] /\ outcome'[q] = outcome[q]
    BY <1>1 DEF Install, Finish, RequestTypes
  <1>4. \A q \in Requests : Slot(cmd[q])' = Slot(cmd[q]) /\ Hash(cmd[q])' = Hash(cmd[q])
    BY <1>3 DEF Slot, User, Hash
  <1>5. Sound(r)'
    <2>1. Committed(cmd[r])' /\ ledger'[Slot(cmd[r])'].op = r
      BY <1>4, InstallAddsKey DEF Committed
    <2> QED BY <1>3, <2>1 DEF Sound, InTx, HasClaimed
  <1>6. \A q \in Requests : Sound(q)'
    BY <1>5, InstallKeepsSound
  <1>7. OneClaim'
    <2>1. \A q \in Requests : HasClaimed(q)' => HasClaimed(q)
      BY <1>3 DEF HasClaimed
    <2> QED BY <1>4, <2>1 DEF Books, OneClaim
  <1>8. LedgerSound'
    <2> SUFFICES ASSUME NEW s \in DOMAIN ledger'
                 PROVE  /\ outcome'[ledger'[s].op] = "ok" /\ phase'[ledger'[s].op] = "done"
                        /\ Slot(cmd[ledger'[s].op]) = s
                        /\ ledger'[s].hash = Hash(cmd[ledger'[s].op])
      BY <1>3 DEF LedgerSound, Slot, User, Hash
    <2>1. CASE s = Slot(cmd[r])
      BY <1>3, <2>1, InstallAddsKey
    <2>2. CASE s \in DOMAIN ledger
      <3>1. ledger'[s] = ledger[s]
        BY <2>2, InstallAddsKey
      <3>2. /\ outcome[ledger[s].op] = "ok" /\ phase[ledger[s].op] = "done"
            /\ Slot(cmd[ledger[s].op]) = s /\ ledger[s].hash = Hash(cmd[ledger[s].op])
            /\ ledger[s].op \in Requests
        BY <1>1, <2>2 DEF Books, LedgerSound, DatabaseTypes
      <3>3. ledger[s].op # r
        BY <3>2
      <3> QED BY <1>3, <3>1, <3>2, <3>3
    <2> QED BY <2>1, <2>2, InstallAddsKey
  <1> QED BY <1>2, <1>6, <1>7, <1>8, InstallKeepsAudit DEF Books
-----------------------------------------------------------------------------
(***************************************************************************)
(* Everyone else                                                           *)
(***************************************************************************)

\* A step that moves no request, takes no lock from one and withdraws no
\* session or grant that one has locked keeps the books.
LEMMA BystanderKeepsBooks ==
  ASSUME Safe, Books,
         UNCHANGED <<assign, shopOf, ledger, audit, phase, cmd, outcome, response>>,
         \A row \in Rows, q \in Requests : /\ xlock'[row] = q <=> xlock[row] = q
                                           /\ q \in slock'[row] <=> q \in slock[row],
         LocksExclude',
         \A s \in Sessions :
            xlock[<<"session", s>>] \in Requests /\ session[s] # "revoked"
              => session'[s] # "revoked",
         \A u \in Users :
            (\E q \in Requests : q \in slock[<<"scope", u>>]) => scope'[u] = scope[u]
  PROVE  Books'
  <1>1. ASSUME NEW q \in Requests PROVE Sound(q)'
    <2>1. Sound(q) /\ TypeOK
      BY DEF Books, Safe
    <2>2. \A s \in Sessions :
             xlock[<<"session", s>>] = q /\ session[s] # "revoked" => session'[s] # "revoked"
      OBVIOUS
    <2>3. \A u \in Users : q \in slock[<<"scope", u>>] => scope'[u] = scope[u]
      OBVIOUS
    <2> QED BY <2>1, <2>2, <2>3, OthersStaySound
  <1>2. OneClaim'
    BY DEF Books, OneClaim, HasClaimed, Slot, User
  <1>3. LedgerSound'
    BY DEF Books, LedgerSound, Slot, User, Hash
  <1>4. AuditSound'
    <2>1. AuditSound /\ AuditExplainsAssignments
      BY DEF Books, AuditSound
    <2>2. AuditExplainsAssignments'
      BY <2>1 DEF AuditExplainsAssignments, rows
    <2> QED BY <2>1, <2>2 DEF AuditSound, rows
  <1> QED BY <1>1, <1>2, <1>3, <1>4 DEF Books

\* UPDATEs that revoke a session or withdraw a grant wait for the requests
\* that were admitted with it.
LEMMA AuthorityKeepsBooks ==
  ASSUME Safe, Books,
         \/ \E s \in Sessions : RevokeSession(s) \/ ExpireSession(s)
         \/ \E u \in Users, shop \in Shops : RevokeScope(u, shop)
  PROVE  Books'
  <1>1. UNCHANGED <<assign, shopOf, ledger, audit, phase, cmd, outcome, response, xlock, slock>>
    BY DEF RevokeSession, ExpireSession, RevokeScope, KeepStore, catalogVars, requestVars,
           ledgerVars, lockVars
  <1>2. LocksExclude'
    BY <1>1 DEF Books, LocksExclude
  <1>3. DatabaseTypes /\ NoTx \notin Requests
    BY TypeParts, StoreAssumption DEF Safe, Txs
  <1>4. ASSUME NEW s \in Sessions, RevokeSession(s) \/ ExpireSession(s) PROVE Books'
    <2>1. scope' = scope
      BY <1>4 DEF RevokeSession, ExpireSession
    <2>2. ASSUME NEW x \in Sessions, xlock[<<"session", x>>] \in Requests,
                 session[x] # "revoked"
          PROVE  session'[x] # "revoked"
      <3>1. CASE ExpireSession(s)
        BY <2>2, <3>1, <1>3 DEF ExpireSession, DatabaseTypes
      <3>2. CASE RevokeSession(s)
        <4>1. x # s
          BY <1>3, <2>2, <3>2 DEF RevokeSession, FreeX
        <4> QED BY <1>3, <2>2, <3>2, <4>1 DEF RevokeSession, DatabaseTypes
      <3> QED BY <1>4, <3>1, <3>2
    <2> QED BY <1>1, <1>2, <2>1, <2>2, BystanderKeepsBooks
  <1>5. ASSUME NEW u \in Users, NEW shop \in Shops, RevokeScope(u, shop) PROVE Books'
    <2>1. session' = session
      BY <1>5 DEF RevokeScope
    <2>2. ASSUME NEW x \in Users, NEW q \in Requests, q \in slock[<<"scope", x>>]
          PROVE  scope'[x] = scope[x]
      <3>1. x # u
        BY <1>3, <1>5, <2>2 DEF RevokeScope, FreeX
      <3> QED BY <1>3, <1>5, <3>1 DEF RevokeScope, DatabaseTypes
    <2> QED BY <1>1, <1>2, <2>1, <2>2, BystanderKeepsBooks
  <1> QED BY <1>4, <1>5

\* An MQTT worker locks and releases only rows of its own.
LEMMA WorkerLocks ==
  ASSUME LockTypes, LocksExclude, NEW w \in Workers,
         \/ Process(w) \/ WorkerFails(w)
         \/ \E m \in Messages : Receive(w, m)
  PROVE  KeepsOthers(w) /\ LocksExclude'
  <1>1. w \in Txs
    BY DEF Txs
  <1>2. CASE ReleaseLocks(w)
    BY <1>1, <1>2, ReleaseIsOwn
  <1>3. CASE UNCHANGED lockVars
    BY <1>3 DEF KeepsOthers, LocksExclude, lockVars
  <1>4. CASE LockDevice(w)
    <2>1. DeviceRow(w) \in Rows /\ FreeX(w, DeviceRow(w)) /\ LockX(w, DeviceRow(w))
      BY <1>4 DEF LockDevice, DeviceRow, Rows
    <2> QED BY <1>1, <2>1, AcquireIsOwn
  <1>5. CASE WorkerFails(w) \/ \E m \in Messages : Receive(w, m)
    BY <1>2, <1>3, <1>5 DEF WorkerFails, Receive, Drop, GoIdle
  <1>6. CASE Process(w) /\ ~LockDevice(w)
    <2>1. (\E status \in Statuses : Answer(w, status)) \/ GoIdle(w)
      BY <1>6 DEF Process, UnknownDevice, LifecycleBlocked, IntervalRefused, Duplicate,
         UnknownAssignment, Store, StoreLegacy, ProcessStatus, Publish, Drop, Statuses
    <2> QED BY <1>2, <2>1 DEF Answer, GoIdle
  <1> QED BY <1>4, <1>5, <1>6

\* The workers, the clock and the alert settings keep the books.
LEMMA OutsidersKeepBooks ==
  ASSUME Safe, Books,
         \/ Pass
         \/ UNCHANGED vars
         \/ \E w \in Workers : UNCHANGED adminVars /\
              (Process(w) \/ WorkerFails(w) \/ \E m \in Messages : Receive(w, m))
         \/ \E u \in Users, m \in Points, value \in QuietHours :
               ChangeAlertSettings(u, m, value)
  PROVE  Books'
  <1> USE DEF adminVars, requestVars, ledgerVars, authorityVars
  <1>1. CASE \/ Pass \/ UNCHANGED vars
             \/ \E u \in Users, m \in Points, value \in QuietHours :
                   ChangeAlertSettings(u, m, value)
    <2>1. UNCHANGED <<assign, shopOf, xlock, slock, adminVars>>
      BY <1>1 DEF Pass, Tick, catalogVars, lockVars, vars, storeVars, ChangeAlertSettings,
                  SetAlertSettings
    <2>2. LocksExclude'
      BY <2>1 DEF Books, LocksExclude
    <2> QED BY <2>1, <2>2, BystanderKeepsBooks
  <1>2. ASSUME NEW w \in Workers, UNCHANGED adminVars,
               Process(w) \/ WorkerFails(w) \/ \E m \in Messages : Receive(w, m)
        PROVE  Books'
    <2>1. KeepRows /\ LockTypes
      BY <1>2, WorkerStep, TypeParts DEF Safe
    <2>2. UNCHANGED <<assign, shopOf>>
      BY <2>1 DEF KeepRows, catalogVars
    <2>3. KeepsOthers(w) /\ LocksExclude'
      BY <1>2, <2>1, WorkerLocks DEF Books
    <2>4. w \notin Requests
      BY StoreAssumption
    <2>5. \A row \in Rows, q \in Requests : /\ xlock'[row] = q <=> xlock[row] = q
                                            /\ q \in slock'[row] <=> q \in slock[row]
      BY <2>3, <2>4 DEF KeepsOthers
    <2> QED BY <1>2, <2>2, <2>3, <2>5, BystanderKeepsBooks
  <1> QED BY <1>1, <1>2

\* The books are in order when nothing has been submitted.
LEMMA InitBooks == Init => Books
  <1> SUFFICES ASSUME Init PROVE Books
    OBVIOUS
  <1> USE DEF Init, StoreInit, AdminInit
  <1>1. \A r \in Requests : phase[r] = "new" /\ outcome[r] = "none"
    OBVIOUS
  <1>2. \A r \in Requests : Sound(r)
    BY <1>1, StoreAssumption DEF Sound, InTx, HasClaimed
  <1>3. LocksExclude /\ OneClaim /\ LedgerSound
    BY <1>1 DEF LocksExclude, OneClaim, LedgerSound, HasClaimed
  <1>4. AuditSound
    <2>1. rows = Seeds /\ audit = {}
      BY DEF PlacementAtStart, rows
    <2>2. \A a \in Seeds : assign[a].to = NULL
      BY DEF PlacementAtStart
    <2> QED BY <2>1, <2>2 DEF AuditSound, AuditExplainsAssignments
  <1> QED BY <1>2, <1>3, <1>4 DEF Books

\* Every step keeps the books.
LEMMA NextBooks == Safe /\ Books /\ [Next]_vars => Books'
  <1> SUFFICES ASSUME Safe, Books, [Next]_vars PROVE Books'
    OBVIOUS
  <1>1. ASSUME NEW r \in Requests, Work(r) PROVE Books'
    <2>1. ASSUME NEW row \in Rows, Acquire(r, row) PROVE Books'
      BY <2>1, AcquireKeepsBooks
    <2>2. ASSUME NEW row \in Rows, Deny(r, row) PROVE Books'
      <3>1. phase[r] \in InTx /\ Finish(r, "forbidden", {}) /\ KeepDatabase
        BY <2>2 DEF Deny, InTx
      <3>2. "forbidden" \in Outcomes \ {"ok"}
        BY DEF Outcomes
      <3> QED BY <3>1, <3>2, FinishKeepsBooks
    <2>3. CASE Load(r) \/ Resolve(r) \/ Claim(r) \/ Apply(r) \/ DeadlockVictim(r)
      BY <2>3, LoadKeepsBooks, ResolveKeepsBooks, ClaimKeepsBooks, ApplyKeepsBooks,
         VictimKeepsBooks
    <2>4. CASE Commit(r)
      <3>1. phase[r] = "applied" /\ ConstraintsHold(Written(r))
        BY <2>4, ReadyRespectsConstraints DEF Commit
      <3>2. Install(r)
        BY <2>4, <3>1 DEF Commit
      <3> QED BY <3>1, <3>2, InstallKeepsBooks
    <2> QED BY <1>1, <2>1, <2>2, <2>3, <2>4 DEF Work
  <1>2. ASSUME NEW r \in Requests, Abort(r) PROVE Books'
    <2>1. phase[r] \in InTx /\ Finish(r, "failed", {}) /\ KeepDatabase
      BY <1>2 DEF Abort
    <2>2. "failed" \in Outcomes \ {"ok"}
      BY DEF Outcomes
    <2> QED BY <2>1, <2>2, FinishKeepsBooks
  <1>3. ASSUME NEW r \in Requests, NEW c \in Commands, Submit(r, c) PROVE Books'
    BY <1>3, SubmitKeepsBooks
  <1> QED BY <1>1, <1>2, <1>3, AuthorityKeepsBooks, OutsidersKeepBooks
          DEF Next, WorkRequest, ProcessMessage

\* The books are in order in every state.
THEOREM BooksInvariance == Spec => [](Safe /\ Books)
  BY InitSafe, NextSafe, InitBooks, NextBooks, PTL DEF Spec

\* An idempotency key runs a command once and its callers are told of that
\* run, and the audit history explains every row of device_assignments: for
\* any number of requests, retries, deadlocks and failures.
THEOREM LedgerStaysFaithful == Spec => []LedgerIsFaithful
  <1>1. Safe /\ Books => LedgerIsFaithful
    <2> SUFFICES ASSUME Safe, Books PROVE LedgerIsFaithful
      OBVIOUS
    <2>1. ASSUME NEW r \in Requests, outcome[r] \in {"ok", "replayed"}
          PROVE  \E q \in Requests :
                    /\ response[r] = {q}
                    /\ outcome[q] = "ok"
                    /\ Slot(cmd[q]) = Slot(cmd[r]) /\ Hash(cmd[q]) = Hash(cmd[r])
                    /\ \A p \in Requests \ {q} :
                          outcome[p] = "ok" => Slot(cmd[p]) # Slot(cmd[q])
      <3> DEFINE s == Slot(cmd[r])
                 q == ledger[s].op
      <3>1. /\ s \in DOMAIN ledger /\ response[r] = {q}
            /\ outcome[r] = "replayed" => ledger[s].hash = Hash(cmd[r])
            /\ outcome[r] = "ok" => q = r
        BY <2>1 DEF Books, Sound, Committed, Answered
      <3>2. /\ q \in Requests /\ outcome[q] = "ok" /\ Slot(cmd[q]) = s
            /\ ledger[s].hash = Hash(cmd[q])
        BY <3>1, TypeParts DEF Books, LedgerSound, Safe, DatabaseTypes
      <3>3. \A p \in Requests : outcome[p] = "ok" => ledger[Slot(cmd[p])].op = p
        BY DEF Books, Sound
      <3> HIDE DEF s, q
      <3>4. Hash(cmd[q]) = Hash(cmd[r])
        BY <2>1, <3>1, <3>2
      <3>5. \A p \in Requests \ {q} : outcome[p] = "ok" => Slot(cmd[p]) # Slot(cmd[q])
        <4> SUFFICES ASSUME NEW p \in Requests, outcome[p] = "ok", Slot(cmd[p]) = Slot(cmd[q])
                     PROVE  p = q
          OBVIOUS
        <4>1. ledger[Slot(cmd[p])].op = p /\ ledger[Slot(cmd[q])].op = q
          BY <3>2, <3>3
        <4> QED BY <4>1
      <3>6. Slot(cmd[q]) = Slot(cmd[r])
        BY <3>2 DEF s
      <3> QED BY <3>1, <3>2, <3>4, <3>5, <3>6
    <2>2. KeyRunsOnce
      BY <2>1 DEF KeyRunsOnce
    <2> QED BY <2>2 DEF LedgerIsFaithful, Books, AuditSound
  <1> QED BY <1>1, BooksInvariance, PTL

\* An admitted request keeps its session and its shop grants to its end:
\* revalidateAdminSession and revalidateAdminActor lock what they read.
THEOREM AuthorityIsHeld == Spec => []AuthorityHeldUntilCommit
  <1>1. Books => AuthorityHeldUntilCommit
    BY DEF Books, Sound, Trusted, HoldsAdmission, AuthorityHeldUntilCommit
  <1> QED BY <1>1, BooksInvariance, PTL

\* A retry of a committed command is answered from the ledger: no request is
\* refused because of what the first run of its key changed.
THEOREM RetriesAreAnswered == Spec => CommittedKeyIsNeverRefused
  <1> DEFINE NeverRefused ==
        \A r \in Requests :
           outcome'[r] = "refused" /\ outcome[r] = "none" =>
              ~(Committed(cmd[r]) /\ ledger[Slot(cmd[r])].hash = Hash(cmd[r]))
  <1>1. Safe /\ Books /\ [Next]_vars => NeverRefused
    <2> SUFFICES ASSUME Safe, Books, [Next]_vars, NEW r \in Requests,
                        outcome'[r] = "refused", outcome[r] = "none", Answered(cmd[r])
                 PROVE  FALSE
      BY DEF Answered
    <2>1. RequestTypes /\ Sound(r)
      BY TypeParts DEF Safe, Books
    <2>2. ASSUME NEW q \in Requests, NEW what, NEW op, what # "refused", Finish(q, what, op)
          PROVE  FALSE
      BY <2>1, <2>2 DEF Finish, RequestTypes
    <2>3. ASSUME NEW q \in Requests, Finish(q, "refused", {}) PROVE q = r
      BY <2>1, <2>3 DEF Finish, RequestTypes
    <2>4. CASE UNCHANGED outcome
      BY <2>4
    <2>5. ASSUME NEW q \in Requests, Replay(q) PROVE FALSE
      BY <2>2, <2>5 DEF Replay
    <2>6. ASSUME NEW q \in Requests, Work(q) PROVE FALSE
      <3>1. ASSUME NEW row \in Rows, Acquire(q, row) \/ Deny(q, row) PROVE FALSE
        BY <2>2, <2>4, <3>1 DEF Acquire, Deny, requestVars
      <3>2. CASE Load(q)
        BY <2>4, <2>5, <3>2 DEF Load, Goto
      <3>3. CASE Resolve(q)
        <4>1. q = r /\ phase[r] = "resolve" /\ ~PlanOK(cmd[r])
          BY <2>3, <2>4, <3>3 DEF Resolve, Goto
        <4>2. cmd[r].action = "create"
          BY <2>1, <4>1 DEF Sound
        <4>3. Authorized(cmd[r])
          BY <2>1, <4>1 DEF Sound, Trusted, HoldsAdmission, InTx
        <4> QED BY <4>1, <4>2, <4>3 DEF PlanOK, Moves
      <3>4. CASE Claim(q)
        BY <2>3, <2>4, <2>5, <3>4 DEF Claim, Goto, Answered
      <3>5. CASE Apply(q)
        <4>1. q = r /\ phase[r] = "lock"
          BY <2>3, <2>4, <3>5 DEF Apply
        <4> QED BY <2>1, <4>1 DEF Sound, HasClaimed, Answered
      <3>6. CASE Commit(q)
        BY <2>2, <3>6 DEF Commit, Install
      <3>7. CASE DeadlockVictim(q)
        BY <2>2, <2>4, <3>7 DEF DeadlockVictim
      <3> QED BY <2>6, <3>1, <3>2, <3>3, <3>4, <3>5, <3>6, <3>7 DEF Work
    <2>7. ASSUME NEW q \in Requests, Abort(q) PROVE FALSE
      BY <2>2, <2>7 DEF Abort
    <2>8. CASE \/ Pass \/ UNCHANGED vars
               \/ \E q \in Requests, c \in Commands : Submit(q, c)
               \/ \E s \in Sessions : RevokeSession(s) \/ ExpireSession(s)
               \/ \E u \in Users, shop \in Shops : RevokeScope(u, shop)
               \/ UNCHANGED adminVars
               \/ \E u \in Users, m \in Points, value \in QuietHours :
                     ChangeAlertSettings(u, m, value)
      BY <2>4, <2>8 DEF Pass, vars, adminVars, requestVars, Submit, RevokeSession,
         ExpireSession, RevokeScope, ChangeAlertSettings
    <2> QED BY <2>6, <2>7, <2>8 DEF Next, WorkRequest, ProcessMessage
  <1> QED BY <1>1, BooksInvariance, PTL DEF Spec, CommittedKeyIsNeverRefused

-----------------------------------------------------------------------------
(***************************************************************************)
(* Telemetry: the inductive invariant.  A transition checks the committed  *)
(* readings with the device row locked FOR UPDATE; a worker stores a       *)
(* reading with the same row locked, so none comes in between the check    *)
(* and the COMMIT.                                                         *)
(***************************************************************************)
\* Some assignment accounts for the reading.
Inside(x) ==
  \E a \in rows : /\ assign[a].dev = x.dev /\ assign[a].mp = x.mp
                  /\ Covers(assign[a], x.at)

\* No reading of the assignment r is about to close lies at or after its end.
Uncut(r) ==
  Moves(cmd[r]) =>
    \A x \in readings :
       (/\ x.dev = assign[cmd[r].cur].dev /\ x.mp = assign[cmd[r].cur].mp
        /\ assign[cmd[r].cur].from <= x.at)
       => x.at < sampled[r]

HoldsDevice(w) ==
  msg[w].dev \in Devices /\ xlock[DeviceRow(w)] = w

Filed ==
  /\ \A x \in readings : x.at \in Time /\ (x.mp # NULL => Inside(x))
  /\ \A r \in Requests : phase[r] = "applied" => Uncut(r)
  /\ \A w \in Workers : stage[w] = "locked" => HoldsDevice(w)

\* A reading has the identity of m, and the contents of a coverage message.
Kept(m) ==
  \E x \in readings :
     /\ x.msg.kind # "legacy"
     /\ KeyOf(x.msg) = KeyOf(m)
     /\ m.kind = "coverage" => Digest(x.msg) = Digest(m)

\* telemetry_ingest_keys holds the identities of the readings, with their digests.
KeysMatch ==
  /\ \A x \in readings : x.msg.kind # "legacy" => KeyOf(x.msg) \in DOMAIN keys
  /\ \A k \in DOMAIN keys :
        /\ DOMAIN keys[k] = {"digest", "conflict"}
        /\ \E x \in readings : /\ x.msg.kind # "legacy" /\ KeyOf(x.msg) = k
                               /\ Digest(x.msg) = keys[k].digest

\* What a worker is about to acknowledge is there.
AnswersMatch ==
  \A w \in Workers :
     stage[w] = "acking" /\ result[w] \in {"stored", "duplicate"} => Kept(msg[w])

Identified == KeysMatch /\ StoredOnce /\ AnswersMatch /\ AcksAreTrue

\* The last event of a point is not older than any of its alerts.
Raised ==
  /\ \A y \in alerts : /\ y.at \in Time /\ y.mp \in Points
                       /\ y.at <= curfew[y.mp].last
  /\ CurfewHasAlert

Records == Filed /\ Identified /\ Raised

-----------------------------------------------------------------------------
(***************************************************************************)
(* Steps of requests                                                       *)
(***************************************************************************)

\* q, at the point of commit after the step, was there before it.
WasApplied(q) ==
  phase'[q] = "applied" =>
    phase[q] = "applied" /\ cmd'[q] = cmd[q] /\ sampled'[q] = sampled[q]

\* A step of a request takes no lock from anyone else and stores no reading;
\* only Apply brings it to the point of commit, and only COMMIT writes rows.
LEMMA RequestStep ==
  ASSUME Safe, NEW r \in Requests,
         Work(r) \/ Abort(r) \/ \E c \in Commands : Submit(r, c)
  PROVE  /\ OthersKeepLocks(r) /\ readings' = readings
         /\ \/ phase[r] = "applied" /\ Install(r)
            \/ Apply(r)
            \/ assign' = assign /\ \A q \in Requests : WasApplied(q)
  <1>1. RequestTypes /\ LockTypes /\ r \in Txs
    BY TypeParts DEF Safe, Txs
  <1>2. ASSUME NEW what, NEW op, Finish(r, what, op), KeepDatabase
        PROVE  /\ OthersKeepLocks(r) /\ readings' = readings
               /\ assign' = assign /\ \A q \in Requests : WasApplied(q)
    <2>1. OthersKeepLocks(r)
      BY <1>2, ReleaseIsLocal DEF Finish
    <2> QED BY <1>1, <1>2, <2>1 DEF Finish, KeepDatabase, KeepStore, RequestTypes, WasApplied
  <1>3. ASSUME NEW where \in {"resolve", "claim", "lock"}, Goto(r, where), KeepDatabase
        PROVE  /\ OthersKeepLocks(r) /\ readings' = readings
               /\ assign' = assign /\ \A q \in Requests : WasApplied(q)
    BY <1>1, <1>3 DEF Goto, KeepDatabase, KeepStore, RequestTypes, WasApplied, lockVars,
       OthersKeepLocks
  <1>4. CASE Replay(r)
    BY <1>2, <1>4 DEF Replay
  <1>5. ASSUME NEW row \in Rows, Acquire(r, row)
        PROVE  /\ OthersKeepLocks(r) /\ readings' = readings
               /\ assign' = assign /\ \A q \in Requests : WasApplied(q)
    <2>1. (FreeX(r, row) /\ LockX(r, row)) \/ LockS(r, row)
      BY <1>5 DEF Acquire, Free
    <2>2. OthersKeepLocks(r)
      BY <1>1, <2>1, AcquireIsLocal
    <2> QED BY <1>5, <2>2 DEF Acquire, requestVars, KeepDatabase, KeepStore, WasApplied
  <1>6. ASSUME NEW row \in Rows, Deny(r, row)
        PROVE  /\ OthersKeepLocks(r) /\ readings' = readings
               /\ assign' = assign /\ \A q \in Requests : WasApplied(q)
    BY <1>2, <1>6 DEF Deny
  <1>7. CASE Load(r)
    <2>1. CASE ~Replay(r)
      <3>1. KeepDatabase /\ (Goto(r, "resolve") \/ Goto(r, "claim"))
        BY <1>7, <2>1 DEF Load
      <3> QED BY <1>3, <3>1
    <2> QED BY <1>4, <2>1
  <1>8. CASE Resolve(r)
    BY <1>2, <1>3, <1>8 DEF Resolve
  <1>9. CASE Claim(r)
    <2>1. CASE ~Replay(r)
      <3>1. KeepDatabase /\ (Goto(r, "lock") \/ Finish(r, "refused", {}))
        BY <1>9, <2>1 DEF Claim
      <3> QED BY <1>2, <1>3, <3>1
    <2> QED BY <1>4, <2>1
  <1>10. CASE Apply(r)
    <2>1. CASE Finish(r, "refused", {})
      BY <1>2, <1>10, <2>1 DEF Apply
    <2>2. CASE UNCHANGED lockVars
      BY <1>10, <2>2 DEF Apply, lockVars, OthersKeepLocks, KeepDatabase, KeepStore
    <2> QED BY <1>10, <2>1, <2>2 DEF Apply
  <1>11. CASE Commit(r)
    <2>1. CASE Install(r)
      BY <1>11, <2>1, ReleaseIsLocal DEF Commit, Install, Finish
    <2>2. CASE ~Install(r)
      BY <1>2, <1>11, <2>2 DEF Commit
    <2> QED BY <2>1, <2>2
  <1>12. CASE DeadlockVictim(r)
    <2>1. CASE ReleaseLocks(r) /\ phase' = [phase EXCEPT ![r] = "admit"] /\ KeepDatabase
               /\ UNCHANGED <<cmd, sampled>>
      <3>1. OthersKeepLocks(r)
        BY <2>1, ReleaseIsLocal
      <3> QED BY <1>1, <2>1, <3>1 DEF KeepDatabase, KeepStore, RequestTypes, WasApplied
    <2> QED BY <1>2, <1>12, <2>1 DEF DeadlockVictim
  <1>13. CASE Abort(r)
    BY <1>2, <1>13 DEF Abort
  <1>14. ASSUME NEW c \in Commands, Submit(r, c)
         PROVE  /\ OthersKeepLocks(r) /\ readings' = readings
                /\ assign' = assign /\ \A q \in Requests : WasApplied(q)
    BY <1>1, <1>14 DEF Submit, KeepDatabase, KeepStore, RequestTypes, WasApplied, lockVars,
       OthersKeepLocks
  <1>15. CASE Work(r)
    BY <1>5, <1>6, <1>7, <1>8, <1>9, <1>10, <1>11, <1>12, <1>15 DEF Work
  <1> QED BY <1>13, <1>14, <1>15
-----------------------------------------------------------------------------
(***************************************************************************)
(* Readings lie in their assignments                                       *)
(***************************************************************************)

\* findDeviceForUpdate: the device row a worker works under stays its own
\* while others act.
LEMMA DeviceStaysHeld ==
  ASSUME Filed, NEW t, OthersKeepLocks(t), NEW w \in Workers, w # t,
         stage[w] = "locked", msg'[w] = msg[w]
  PROVE  HoldsDevice(w)'
  <1>1. msg[w].dev \in Devices /\ xlock[DeviceRow(w)] = w
    BY DEF Filed, HoldsDevice
  <1>2. DeviceRow(w) \in Rows /\ w # NoTx
    BY <1>1, StoreAssumption DEF DeviceRow, Rows, Txs
  <1>3. xlock'[DeviceRow(w)] = w
    BY <1>1, <1>2 DEF OthersKeepLocks
  <1>4. DeviceRow(w)' = DeviceRow(w)
    BY DEF DeviceRow
  <1> QED BY <1>1, <1>3, <1>4 DEF HoldsDevice

\* A step that writes neither assignments nor readings and brings no request
\* to the point of commit keeps the readings filed.
LEMMA FrameKeepsFiled ==
  ASSUME Filed, UNCHANGED <<assign, readings>>, \A q \in Requests : WasApplied(q),
         \A w \in Workers : stage'[w] = "locked" => HoldsDevice(w)'
  PROVE  Filed'
  <1>1. \A x \in readings' : x.at \in Time /\ (x.mp # NULL => Inside(x)')
    BY DEF Filed, Inside, rows
  <1>2. ASSUME NEW q \in Requests, phase'[q] = "applied" PROVE Uncut(q)'
    <2>1. Uncut(q) /\ cmd'[q] = cmd[q] /\ sampled'[q] = sampled[q]
      BY <1>2 DEF Filed, WasApplied
    <2> QED BY <2>1 DEF Uncut, Moves
  <1> QED BY <1>1, <1>2 DEF Filed

\* The workers' locks outlast a step of a request.
LEMMA RequestKeepsDevices ==
  ASSUME Filed, NEW r \in Requests, OthersKeepLocks(r), UNCHANGED ingestVars
  PROVE  \A w \in Workers : stage'[w] = "locked" => HoldsDevice(w)'
  <1>1. UNCHANGED <<stage, msg>>
    BY DEF ingestVars, workerVars
  <1>2. \A w \in Workers : w # r
    BY StoreAssumption
  <1> QED BY <1>1, <1>2, DeviceStaysHeld

\* HasCommittedTelemetryConflict, checked with the device locked: no reading
\* of the assignment lies at or after the transition time.
LEMMA ApplyKeepsFiled ==
  ASSUME Safe, Filed, NEW r \in Requests, Apply(r), OthersKeepLocks(r),
         readings' = readings, UNCHANGED ingestVars
  PROVE  Filed'
  <1>1. DatabaseTypes /\ RequestTypes
    BY TypeParts DEF Safe
  <1>2. assign' = assign
    BY DEF Apply, KeepDatabase, KeepStore
  <1>3. \A w \in Workers : stage'[w] = "locked" => HoldsDevice(w)'
    BY RequestKeepsDevices
  <1>4. ASSUME NEW q \in Requests, phase'[q] = "applied" PROVE Uncut(q)'
    <2>1. CASE q # r
      <3>1. WasApplied(q)
        BY <1>1, <2>1 DEF Apply, Finish, RequestTypes, WasApplied
      <3>2. Uncut(q) /\ cmd'[q] = cmd[q] /\ sampled'[q] = sampled[q]
        BY <1>4, <3>1 DEF Filed, WasApplied
      <3> QED BY <1>2, <3>2 DEF Uncut, Moves
    <2>2. CASE q = r
      <3>1. /\ Transition(cmd[r], clock) /\ cmd' = cmd /\ sampled'[r] = clock
        BY <1>1, <1>4, <2>2 DEF Apply, Finish, RequestTypes
      <3>2. ASSUME Moves(cmd[r]), NEW x \in readings,
                   x.dev = assign[cmd[r].cur].dev, x.mp = assign[cmd[r].cur].mp,
                   assign[cmd[r].cur].from <= x.at
            PROVE  x.at < clock
        <4>1. IsCurrent(cmd[r].cur) /\ ~HasCommittedTelemetryConflict(cmd[r].cur, clock)
          BY <3>1, <3>2 DEF Transition, PlanOK, Moves, BindingActions
        <4>2. Covers(assign[cmd[r].cur], x.at)
          BY <3>2, <4>1 DEF Covers, IsCurrent
        <4>3. ~(x.at >= clock)
          BY <3>2, <4>1, <4>2 DEF HasCommittedTelemetryConflict
        <4>4. x.at \in Int /\ clock \in Int
          BY <1>1 DEF Filed, DatabaseTypes, Time
        <4> QED BY <4>3, <4>4
      <3> QED BY <1>2, <2>2, <3>1, <3>2 DEF Uncut, Moves
    <2> QED BY <2>1, <2>2
  <1>5. \A x \in readings' : x.at \in Time /\ (x.mp # NULL => Inside(x)')
    BY <1>2 DEF Filed, Inside, rows
  <1> QED BY <1>3, <1>4, <1>5 DEF Filed

\* COMMIT keeps the readings filed: the row it closes ends after the last of
\* its readings.
LEMMA InstallKeepsFiled ==
  ASSUME Safe, Filed, NEW r \in Requests, phase[r] = "applied", Install(r),
         OthersKeepLocks(r), UNCHANGED ingestVars
  PROVE  Filed'
  <1>1. DatabaseTypes /\ RequestTypes
    BY TypeParts DEF Safe
  <1>2. readings' = readings /\ cmd' = cmd /\ sampled' = sampled
    BY DEF Install, Finish
  <1>3. \A w \in Workers : stage'[w] = "locked" => HoldsDevice(w)'
    BY RequestKeepsDevices
  <1>4. ASSUME NEW q \in Requests, phase'[q] = "applied" PROVE Uncut(q)'
    <2>1. q # r /\ phase[q] = "applied"
      BY <1>1, <1>4 DEF Install, Finish, RequestTypes
    <2>2. Uncut(q)
      BY <2>1 DEF Filed
    <2>3. Moves(cmd[q]) => cmd[q].cur \in rows
      BY <2>1, WrittenRows
    <2>4. Moves(cmd[q]) =>
            /\ assign'[cmd[q].cur].dev = assign[cmd[q].cur].dev
            /\ assign'[cmd[q].cur].mp = assign[cmd[q].cur].mp
            /\ assign'[cmd[q].cur].from = assign[cmd[q].cur].from
      BY <2>3, InstallKeepsPlaces
    <2> QED BY <1>2, <2>2, <2>4 DEF Uncut, Moves
  <1>5. ASSUME NEW x \in readings, x.mp # NULL PROVE Inside(x)'
    <2>1. PICK a \in rows : /\ assign[a].dev = x.dev /\ assign[a].mp = x.mp
                            /\ Covers(assign[a], x.at)
      BY <1>5 DEF Filed, Inside
    <2>2. /\ a \in rows' /\ assign'[a].dev = x.dev /\ assign'[a].mp = x.mp
          /\ assign'[a].from = assign[a].from
      BY <2>1, InstallKeepsPlaces
    <2>3. CASE Moves(cmd[r]) /\ a = cmd[r].cur
      <3>1. Uncut(r)
        BY DEF Filed
      <3>2. x.at < sampled[r]
        BY <2>1, <2>3, <3>1 DEF Uncut, Covers
      <3>3. assign'[a].to = sampled[r]
        BY <2>3, InstallKeepsPlaces
      <3>4. Covers(assign'[a], x.at)
        BY <2>1, <2>2, <3>2, <3>3 DEF Covers
      <3> QED BY <2>2, <3>4 DEF Inside, Covers
    <2>4. CASE ~(Moves(cmd[r]) /\ a = cmd[r].cur)
      <3>1. assign'[a] = assign[a]
        BY <2>4, InstallKeepsPlaces
      <3>2. Covers(assign'[a], x.at)
        BY <2>1, <3>1
      <3> QED BY <2>2, <3>2 DEF Inside, Covers
    <2> QED BY <2>3, <2>4
  <1> QED BY <1>2, <1>3, <1>4, <1>5 DEF Filed

\* What a step of a worker stores: nothing, or one reading, with the device
\* row held and the device in service.
LEMMA WorkerStores ==
  ASSUME NEW w \in Workers,
         \/ Process(w) \/ WorkerFails(w)
         \/ \E m \in Messages : Receive(w, m)
  PROVE  \/ UNCHANGED <<readings, curfew, alerts>>
         \/ /\ stage[w] = "locked" /\ InService(w)
            /\ \/ /\ readings' = readings \cup {Reading(w, NULL)}
                  /\ UNCHANGED <<curfew, alerts>>
               \/ StoreReading(w)
  <1> USE DEF alertVars
  <1>1. CASE \/ UnknownDevice(w) \/ LockDevice(w) \/ LifecycleBlocked(w) \/ IntervalRefused(w)
             \/ Duplicate(w) \/ UnknownAssignment(w) \/ ProcessStatus(w) \/ Publish(w)
             \/ WorkerFails(w) \/ \E m \in Messages : Receive(w, m)
    BY <1>1 DEF UnknownDevice, LockDevice, LifecycleBlocked, IntervalRefused, Duplicate,
       UnknownAssignment, ProcessStatus, Publish, WorkerFails, Receive, Drop
  <1>2. CASE Store(w)
    BY <1>2 DEF Store, Drop
  <1>3. CASE StoreLegacy(w)
    BY <1>3 DEF StoreLegacy, Drop
  <1> QED BY <1>1, <1>2, <1>3 DEF Process

\* A step of a worker moves no other worker, and one that ends with the
\* device row held has just locked it.
LEMMA WorkerMoves ==
  ASSUME WorkerTypes, NEW w \in Workers,
         \/ Process(w) \/ WorkerFails(w)
         \/ \E m \in Messages : Receive(w, m)
  PROVE  /\ \A v \in Workers \ {w} :
              stage'[v] = stage[v] /\ msg'[v] = msg[v] /\ result'[v] = result[v]
         /\ stage'[w] = "locked" => LockDevice(w)
  <1>1. CASE LockDevice(w)
    BY <1>1 DEF LockDevice, WorkerTypes
  <1>2. CASE \E m \in Messages : Receive(w, m)
    BY <1>2 DEF Receive, WorkerTypes
  <1>3. CASE \E status \in Statuses : Answer(w, status)
    BY <1>3 DEF Answer, WorkerTypes
  <1>4. CASE GoIdle(w)
    BY <1>4 DEF GoIdle, WorkerTypes
  <1>5. CASE Process(w) /\ ~LockDevice(w)
    <2>1. (\E status \in Statuses : Answer(w, status)) \/ GoIdle(w)
      BY <1>5 DEF Process, UnknownDevice, LifecycleBlocked, IntervalRefused, Duplicate,
         UnknownAssignment, Store, StoreLegacy, ProcessStatus, Publish, Drop, Statuses
    <2> QED BY <1>3, <1>4, <2>1
  <1>6. CASE WorkerFails(w)
    BY <1>4, <1>6 DEF WorkerFails, Drop
  <1> QED BY <1>1, <1>2, <1>5, <1>6

\* findAssignmentAt: the assignment it finds accounts for the reading; for a
\* coverage message it lasts beyond the end of the interval.
LEMMA FoundIsInside ==
  ASSUME TypeOK, NEW w \in Workers, stage[w] # "idle", NEW a \in AssignmentsFor(w)
  PROVE  /\ a \in rows /\ assign[a].dev = msg[w].dev
         /\ Covers(assign[a], RecordedAt(w))
  <1>1. WorkerTypes /\ DatabaseTypes
    BY TypeParts, IngestParts
  <1>2. msg[w] \in Messages /\ msg[w] \in MessageType /\ RecordedAt(w) \in Time
    BY <1>1, MessageTimes DEF WorkerTypes
  <1>3. /\ a \in rows /\ assign[a].dev = msg[w].dev
        /\ assign[a].from <= RecordedAt(w)
        /\ \/ assign[a].to = NULL
           \/ IF msg[w].kind = "coverage" THEN msg[w].end <= assign[a].to
              ELSE RecordedAt(w) < assign[a].to
    BY DEF AssignmentsFor
  <1>4. assign[a].to \in Int /\ assign[a].from \in Int
    BY <1>1, <1>3 DEF DatabaseTypes, AssignmentRow, Time, NULL
  <1>5. CASE msg[w].kind = "coverage"
    <2>1. msg[w].at # NULL /\ msg[w].at < msg[w].end
      BY <1>2, <1>5, IngestAssumption
    <2>2. msg[w].at \in Int /\ msg[w].end \in Int
      BY <1>2 DEF MessageType, Time, NULL
    <2>3. RecordedAt(w) = msg[w].at
      BY <2>1 DEF RecordedAt
    <2>4. assign[a].to = NULL \/ msg[w].end <= assign[a].to
      BY <1>3, <1>5
    <2>5. assign[a].to = NULL \/ RecordedAt(w) < assign[a].to
      BY <1>4, <2>1, <2>2, <2>3, <2>4
    <2> QED BY <1>3, <2>5 DEF Covers
  <1>6. CASE msg[w].kind # "coverage"
    BY <1>3, <1>6 DEF Covers
  <1> QED BY <1>5, <1>6

\* A worker files what it stores, and stores nothing for a device that a
\* request at the point of commit has locked.
LEMMA WorkerKeepsFiled ==
  ASSUME Safe, Filed, NEW w \in Workers, UNCHANGED adminVars,
         \/ Process(w) \/ WorkerFails(w)
         \/ \E m \in Messages : Receive(w, m)
  PROVE  Filed'
  <1>1. DatabaseTypes /\ RequestTypes /\ WorkerTypes /\ LockTypes /\ TypeOK
    BY TypeParts, IngestParts DEF Safe
  <1>2. KeepRows /\ OthersKeepLocks(w)
    BY <1>1, WorkerStep
  <1>3. UNCHANGED <<assign, clock, lifecycle, phase, cmd, sampled>>
    BY <1>2 DEF KeepRows, catalogVars, adminVars, requestVars
  <1>4. ASSUME NEW v \in Workers, stage'[v] = "locked" PROVE HoldsDevice(v)'
    <2>1. CASE v = w
      <3>1. LockDevice(w)
        BY <1>1, <1>4, <2>1, WorkerMoves
      <3>2. DeviceRow(w) \in Rows
        BY <3>1 DEF LockDevice, DeviceRow, Rows
      <3> QED BY <1>1, <2>1, <3>1, <3>2 DEF LockDevice, LockX, HoldsDevice, LockTypes, DeviceRow
    <2>2. CASE v # w
      <3>1. stage[v] = "locked" /\ msg'[v] = msg[v]
        BY <1>1, <1>4, <2>2, WorkerMoves
      <3> QED BY <1>2, <2>2, <3>1, DeviceStaysHeld
    <2> QED BY <2>1, <2>2
  <1>5. CASE readings' = readings
    <2>1. \A q \in Requests : WasApplied(q)
      BY <1>3 DEF WasApplied
    <2> QED BY <1>3, <1>4, <1>5, <2>1, FrameKeepsFiled
  <1>6. ASSUME NEW mp, stage[w] = "locked", readings' = readings \cup {Reading(w, mp)},
               mp # NULL => \E a \in AssignmentsFor(w) : mp = assign[a].mp
        PROVE  Filed'
    <2> DEFINE new == Reading(w, mp)
    <2>1. new.dev = msg[w].dev /\ new.mp = mp /\ new.at = RecordedAt(w)
      BY DEF Reading
    <2>2. new.at \in Time
      BY <1>1, <1>6, <2>1, MessageTimes
    <2>3. mp # NULL => Inside(new)
      BY <1>1, <1>6, <2>1, FoundIsInside DEF Inside
    <2> HIDE DEF new
    <2>4. \A x : Inside(x) => Inside(x)'
      BY <1>3 DEF Inside, rows
    <2>5. \A x \in readings' : x.at \in Time /\ (x.mp # NULL => Inside(x)')
      <3>1. ASSUME NEW x \in readings'
            PROVE  x.at \in Time /\ (x.mp # NULL => Inside(x))
        <4>1. CASE x \in readings
          BY <4>1 DEF Filed
        <4>2. CASE x = new
          BY <2>1, <2>2, <2>3, <4>2
        <4> QED BY <1>6, <3>1, <4>1, <4>2 DEF new
      <3> QED BY <2>4, <3>1
    <2>6. ASSUME NEW q \in Requests, phase'[q] = "applied" PROVE Uncut(q)'
      <3>1. phase[q] = "applied" /\ Uncut(q) /\ Ready(q)
        BY <1>3, <2>6 DEF Filed, Safe, AppliedIsReady
      <3>2. ASSUME Moves(cmd[q]), NEW x \in readings',
                   x.dev = assign[cmd[q].cur].dev, x.mp = assign[cmd[q].cur].mp,
                   assign[cmd[q].cur].from <= x.at
            PROVE  x.at < sampled[q]
        <4>1. CASE x \in readings
          BY <3>1, <3>2, <4>1 DEF Uncut
        <4>2. CASE x = new
          <5>1. assign[cmd[q].cur].dev \in DevicesOf(cmd[q])
            BY <3>1, <3>2, WrittenRows
          <5>2. xlock[<<"device", msg[w].dev>>] = q
            BY <2>1, <3>1, <3>2, <4>2, <5>1 DEF Ready, WorkRows
          <5>3. xlock[<<"device", msg[w].dev>>] = w
            BY <1>6 DEF Filed, HoldsDevice, DeviceRow
          <5> QED BY <5>2, <5>3, StoreAssumption
        <4> QED BY <1>6, <3>2, <4>1, <4>2 DEF new
      <3> QED BY <1>3, <3>2 DEF Uncut, Moves
    <2> QED BY <1>4, <2>5, <2>6 DEF Filed
  <1>7. CASE stage[w] = "locked" /\ readings' = readings \cup {Reading(w, NULL)}
    BY <1>6, <1>7
  <1>8. CASE stage[w] = "locked" /\ StoreReading(w)
    <2>1. PICK a \in AssignmentsFor(w) : readings' = readings \cup {Reading(w, assign[a].mp)}
      BY <1>8 DEF StoreReading
    <2> QED BY <1>6, <1>8, <2>1
  <1> QED BY <1>5, <1>7, <1>8, WorkerStores

-----------------------------------------------------------------------------
(***************************************************************************)
(* Identities and acknowledgements                                         *)
(***************************************************************************)

\* Readings are never deleted, so what was kept stays kept, and so does the
\* truth of the acknowledgements that were sent.
LEMMA KeptStays ==
  ASSUME readings \subseteq readings'
  PROVE  /\ \A m : Kept(m) => \E x \in readings' :
                       /\ x.msg.kind # "legacy"
                       /\ KeyOf(x.msg) = KeyOf(m)
                       /\ m.kind = "coverage" => Digest(x.msg) = Digest(m)
         /\ AcksAreTrue /\ acks' = acks => AcksAreTrue'
  BY DEF Kept, AcksAreTrue

\* A step that changes neither readings nor keys, and in which no worker comes
\* to acknowledge a stored message, keeps the identities.
LEMMA FrameKeepsIdentified ==
  ASSUME Identified, UNCHANGED <<readings, keys, acks>>,
         \A w \in Workers :
            stage'[w] = "acking" /\ result'[w] \in {"stored", "duplicate"} =>
               stage[w] = "acking" /\ result[w] = result'[w] /\ msg'[w] = msg[w]
  PROVE  Identified'
  <1>1. KeysMatch'
    BY DEF Identified, KeysMatch
  <1>2. StoredOnce'
    BY DEF Identified, StoredOnce
  <1>3. AnswersMatch'
    BY DEF Identified, AnswersMatch, Kept
  <1>4. AcksAreTrue'
    BY DEF Identified, AcksAreTrue
  <1> QED BY <1>1, <1>2, <1>3, <1>4 DEF Identified

\* IngestContext, its identity already claimed: a message answered "duplicate" has a
\* reading, with the digest of the claim when it is a coverage message.
LEMMA DuplicateKeepsIdentified ==
  ASSUME WorkerTypes, Identified, NEW w \in Workers, Duplicate(w)
  PROVE  Identified'
  <1> DEFINE k == KeyOf(msg[w])
  <1>1. /\ k \in DOMAIN keys /\ readings' = readings /\ msg' = msg /\ acks' = acks
        /\ \A v \in Workers \ {w} : stage'[v] = stage[v] /\ result'[v] = result[v]
    BY DEF Duplicate, Claimed, Answer, WorkerTypes
  <1>2. /\ DOMAIN keys' = DOMAIN keys
        /\ \A j \in DOMAIN keys : /\ DOMAIN keys'[j] = {"digest", "conflict"}
                                  /\ keys'[j].digest = keys[j].digest
    <2>1. CASE keys' = keys
      BY <2>1 DEF Identified, KeysMatch
    <2>2. CASE keys' = [keys EXCEPT ![k].conflict = TRUE]
      <3>1. \A j \in DOMAIN keys : DOMAIN keys[j] = {"digest", "conflict"}
        BY DEF Identified, KeysMatch
      <3> HIDE DEF k
      <3> QED BY <1>1, <2>2, <3>1
    <2> QED BY <2>1, <2>2 DEF Duplicate
  <1>3. KeysMatch'
    BY <1>1, <1>2 DEF Identified, KeysMatch
  <1>4. StoredOnce' /\ AcksAreTrue'
    BY <1>1 DEF Identified, StoredOnce, AcksAreTrue
  <1>5. ASSUME NEW v \in Workers, stage'[v] = "acking", result'[v] \in {"stored", "duplicate"}
        PROVE  Kept(msg[v])
    <2>1. CASE v # w
      BY <1>1, <1>5, <2>1 DEF Identified, AnswersMatch
    <2>2. CASE v = w
      <3>1. msg[w].kind = "v1" \/ keys[k].digest = Digest(msg[w])
        BY <1>5, <2>2 DEF Duplicate, Answer, WorkerTypes
      <3>2. PICK x \in readings : /\ x.msg.kind # "legacy" /\ KeyOf(x.msg) = k
                                  /\ Digest(x.msg) = keys[k].digest
        BY <1>1 DEF Identified, KeysMatch
      <3> QED BY <2>2, <3>1, <3>2 DEF Kept
    <2> QED BY <2>1, <2>2
  <1>6. AnswersMatch'
    BY <1>1, <1>5 DEF AnswersMatch, Kept
  <1> QED BY <1>3, <1>4, <1>6 DEF Identified

\* IngestContext: the first delivery of an identity stores its reading and
\* its key together.
LEMMA StoreKeepsIdentified ==
  ASSUME WorkerTypes, Identified, NEW w \in Workers, Store(w), ~Ambiguous(w)
  PROVE  Identified'
  <1> DEFINE k == KeyOf(msg[w])
  <1>1. PICK a \in AssignmentsFor(w) : readings' = readings \cup {Reading(w, assign[a].mp)}
    BY DEF Store, StoreReading
  <1> DEFINE new == Reading(w, assign[a].mp)
  <1>2. readings' = readings \cup {new} /\ new.msg = msg[w]
    BY <1>1 DEF Reading
  <1>3. /\ k \notin DOMAIN keys /\ msg[w].kind # "legacy"
        /\ msg' = msg /\ acks' = acks
        /\ \A v \in Workers \ {w} : stage'[v] = stage[v] /\ result'[v] = result[v]
        /\ keys' = [j \in DOMAIN keys \cup {k} |->
                      IF j = k THEN [digest |-> Digest(msg[w]), conflict |-> FALSE]
                      ELSE keys[j]]
    BY DEF Store, Claimed, Answer, WorkerTypes
  <1>4. /\ DOMAIN keys' = DOMAIN keys \cup {k}
        /\ \A j \in DOMAIN keys : keys'[j] = keys[j]
        /\ DOMAIN keys'[k] = {"digest", "conflict"} /\ keys'[k].digest = Digest(msg[w])
    BY <1>3
  <1>k. \A j : j \in DOMAIN keys' => j \in DOMAIN keys \/ j = KeyOf(msg[w])
    BY <1>4
  <1> HIDE DEF new
  <1>5. KeysMatch'
    <2>1. ASSUME NEW x \in readings', x.msg.kind # "legacy"
          PROVE  KeyOf(x.msg) \in DOMAIN keys'
      BY <1>2, <1>4, <2>1 DEF Identified, KeysMatch
    <2>2. ASSUME NEW j \in DOMAIN keys'
          PROVE  /\ DOMAIN keys'[j] = {"digest", "conflict"}
                 /\ \E x \in readings' : /\ x.msg.kind # "legacy" /\ KeyOf(x.msg) = j
                                         /\ Digest(x.msg) = keys'[j].digest
      <3>1. CASE j \in DOMAIN keys
        BY <1>2, <1>4, <3>1 DEF Identified, KeysMatch
      <3>2. CASE j = KeyOf(msg[w])
        BY <1>2, <1>3, <1>4, <3>2
      <3> QED BY <1>k, <3>1, <3>2
    <2> QED BY <2>1, <2>2 DEF KeysMatch
  <1>6. StoredOnce'
    <2>1. \A x \in readings : x.msg.kind # "legacy" => KeyOf(x.msg) # KeyOf(msg[w])
      BY <1>3 DEF Identified, KeysMatch
    <2> QED BY <1>2, <2>1 DEF Identified, StoredOnce
  <1>7. AcksAreTrue'
    BY <1>2, <1>3, KeptStays DEF Identified
  <1>8. ASSUME NEW v \in Workers, stage'[v] = "acking", result'[v] \in {"stored", "duplicate"}
        PROVE  \E x \in readings' : /\ x.msg.kind # "legacy"
                                    /\ KeyOf(x.msg) = KeyOf(msg[v])
                                    /\ msg[v].kind = "coverage" => Digest(x.msg) = Digest(msg[v])
    <2>1. CASE v # w
      <3>1. Kept(msg[v])
        BY <1>3, <1>8, <2>1 DEF Identified, AnswersMatch
      <3> QED BY <1>2, <3>1, KeptStays
    <2>2. CASE v = w
      BY <1>2, <1>3, <2>2
    <2> QED BY <2>1, <2>2
  <1>9. AnswersMatch'
    BY <1>3, <1>8 DEF AnswersMatch, Kept
  <1> QED BY <1>5, <1>6, <1>7, <1>9 DEF Identified

\* storeLegacyTelemetry: a reading without identity disturbs none.
LEMMA LegacyKeepsIdentified ==
  ASSUME WorkerTypes, Identified, NEW w \in Workers, StoreLegacy(w), ~Drop(w)
  PROVE  Identified'
  <1>1. PICK mp : readings' = readings \cup {Reading(w, mp)}
    BY DEF StoreLegacy, StoreReading
  <1> DEFINE new == Reading(w, mp)
  <1>2. readings' = readings \cup {new} /\ new.msg = msg[w]
    BY <1>1 DEF Reading
  <1> HIDE DEF new
  <1>3. new.msg.kind = "legacy" /\ GoIdle(w) /\ keys' = keys /\ acks' = acks
    BY <1>2 DEF StoreLegacy
  <1>4. KeysMatch'
    BY <1>2, <1>3 DEF Identified, KeysMatch
  <1>5. StoredOnce'
    BY <1>2, <1>3 DEF Identified, StoredOnce
  <1>6. AcksAreTrue'
    BY <1>2, <1>3, KeptStays DEF Identified
  <1>7. AnswersMatch'
    <2>1. ASSUME NEW v \in Workers, stage'[v] = "acking", result'[v] \in {"stored", "duplicate"}
          PROVE  Kept(msg[v]) /\ msg'[v] = msg[v]
      BY <1>3, <2>1 DEF GoIdle, WorkerTypes, Identified, AnswersMatch
    <2> QED BY <1>2, <2>1, KeptStays DEF AnswersMatch, Kept
  <1> QED BY <1>4, <1>5, <1>6, <1>7 DEF Identified

\* publishIngestResult: a true answer becomes a true acknowledgement.
LEMMA PublishKeepsIdentified ==
  ASSUME WorkerTypes, Identified, NEW w \in Workers, Publish(w)
  PROVE  Identified'
  <1>1. /\ stage[w] = "acking" /\ acks' = acks \cup {<<msg[w], result[w]>>}
        /\ readings' = readings /\ keys' = keys /\ GoIdle(w)
    BY DEF Publish
  <1>2. KeysMatch' /\ StoredOnce'
    BY <1>1 DEF Identified, KeysMatch, StoredOnce
  <1>3. AnswersMatch'
    BY <1>1 DEF GoIdle, WorkerTypes, Identified, AnswersMatch, Kept
  <1>4. AcksAreTrue'
    <2>1. result[w] \in {"stored", "duplicate"} => Kept(msg[w])
      BY <1>1 DEF Identified, AnswersMatch
    <2>2. ASSUME NEW ack \in acks', ack[2] \in {"stored", "duplicate"}
          PROVE  Kept(ack[1])
      <3>1. CASE ack \in acks
        BY <2>2, <3>1 DEF Identified, AcksAreTrue, Kept
      <3>2. CASE ack = <<msg[w], result[w]>>
        BY <2>1, <2>2, <3>2
      <3> QED BY <1>1, <2>2, <3>1, <3>2
    <2> QED BY <1>1, <2>2 DEF AcksAreTrue, Kept
  <1> QED BY <1>2, <1>3, <1>4 DEF Identified

\* Every step of a worker keeps the identities, failures included: its
\* transaction rolls back with the key, the reading and the answer.
LEMMA WorkerKeepsIdentified ==
  ASSUME WorkerTypes, Identified, NEW w \in Workers,
         \/ Process(w) \/ WorkerFails(w)
         \/ \E m \in Messages : Receive(w, m)
  PROVE  Identified'
  <1>1. CASE Drop(w)
    BY <1>1, FrameKeepsIdentified DEF Drop, GoIdle, WorkerTypes
  <1>2. CASE \E m \in Messages : Receive(w, m)
    BY <1>2, FrameKeepsIdentified DEF Receive, WorkerTypes
  <1>3. CASE LockDevice(w)
    BY <1>3, FrameKeepsIdentified DEF LockDevice, WorkerTypes
  <1>4. ASSUME NEW status \in {"unknown_device", "lifecycle_blocked", "unknown_assignment"},
               Answer(w, status), UNCHANGED <<readings, keys>>
        PROVE  Identified'
    BY <1>4, FrameKeepsIdentified DEF Answer, WorkerTypes
  <1>5. CASE UnknownDevice(w) \/ LifecycleBlocked(w) \/ UnknownAssignment(w) \/ IntervalRefused(w)
    BY <1>1, <1>4, <1>5 DEF UnknownDevice, LifecycleBlocked, UnknownAssignment, IntervalRefused
  <1>6. CASE ProcessStatus(w)
    <2>1. UNCHANGED <<readings, keys, acks>> /\ GoIdle(w)
      BY <1>6 DEF ProcessStatus
    <2> QED BY <2>1, FrameKeepsIdentified DEF GoIdle, WorkerTypes
  <1>7. CASE Store(w)
    BY <1>1, <1>7, StoreKeepsIdentified DEF Store
  <1>8. CASE StoreLegacy(w)
    BY <1>1, <1>8, LegacyKeepsIdentified
  <1>9. CASE WorkerFails(w)
    BY <1>1, <1>9 DEF WorkerFails
  <1> QED BY <1>2, <1>3, <1>5, <1>6, <1>7, <1>8, <1>9, DuplicateKeepsIdentified,
             PublishKeepsIdentified DEF Process

-----------------------------------------------------------------------------
(***************************************************************************)
(* Alerts                                                                  *)
(***************************************************************************)

\* checkTelemetryAlerts takes only an event later than the last one of the
\* point, so an alert it raises is later than every alert of the point.
LEMMA AlertsKeepRaised ==
  ASSUME WorkerTypes, CurfewTypes, Raised, NEW w \in Workers, stage[w] # "idle",
         NEW m \in Points, CheckAlerts(m, w)
  PROVE  Raised' /\ AlertsAdvance /\ \A x \in alerts' \ alerts : x.dev = msg[w].dev
  <1> DEFINE t == RecordedAt(w)
             active == t \in QuietTimes /\ msg[w].high
             fresh == settings[m] = "on" /\ (curfew[m].last = NULL \/ curfew[m].last < t)
             event == [mp |-> m, dev |-> msg[w].dev, at |-> t]
  <1>1. t \in Time
    BY MessageTimes
  <1>2. \A p \in Points : curfew[p].last \in Time \cup {NULL} /\ curfew[p].in \in BOOLEAN
    BY DEF CurfewTypes
  <1>3. event.mp = m /\ event.dev = msg[w].dev /\ event.at = t
    OBVIOUS
  <1>4. /\ curfew' = IF fresh THEN [curfew EXCEPT ![m] = [in |-> active, last |-> t]] ELSE curfew
        /\ alerts' = IF fresh /\ active /\ ~curfew[m].in THEN alerts \cup {event} ELSE alerts
    BY DEF CheckAlerts
  <1>5. \A y \in alerts : y.at \in Time /\ y.mp \in Points /\ y.at <= curfew[y.mp].last
    BY DEF Raised
  <1>6. /\ \A p \in Points \ {m} : curfew'[p] = curfew[p]
        /\ fresh => curfew'[m].last = t /\ curfew'[m].in = active
        /\ ~fresh => curfew'[m] = curfew[m]
    BY <1>4 DEF CurfewTypes
  <1> HIDE DEF event, active
  <1>7. fresh => \A y \in alerts : y.mp = m => y.at < t
    BY <1>1, <1>2, <1>5 DEF Time, NULL
  <1> HIDE DEF t
  <1>8. ASSUME NEW y \in alerts'
        PROVE  y.at \in Time /\ y.mp \in Points /\ y.at <= curfew'[y.mp].last
    <2>1. CASE y \in alerts
      <3>1. CASE y.mp = m /\ fresh
        BY <1>1, <1>5, <1>6, <1>7, <2>1, <3>1 DEF Time
      <3>2. CASE y.mp # m \/ ~fresh
        <4>1. curfew'[y.mp] = curfew[y.mp]
          BY <1>5, <1>6, <2>1, <3>2
        <4> QED BY <1>5, <2>1, <4>1
      <3> QED BY <3>1, <3>2
    <2>2. CASE y \notin alerts
      <3>1. y = event /\ fresh
        BY <1>4, <1>8, <2>2
      <3> QED BY <1>1, <1>3, <1>6, <3>1 DEF Time
    <2> QED BY <2>1, <2>2
  <1>9. ASSUME NEW p \in Points, curfew'[p].in
        PROVE  \E x \in alerts' : x.mp = p /\ x.at <= curfew'[p].last
    <2>0. alerts \subseteq alerts'
      BY <1>4
    <2>1. CASE p # m \/ ~fresh
      <3>1. curfew'[p] = curfew[p]
        BY <1>6, <2>1
      <3>2. PICK x \in alerts : x.mp = p /\ x.at <= curfew[p].last
        BY <1>9, <3>1 DEF Raised, CurfewHasAlert
      <3> QED BY <2>0, <3>1, <3>2
    <2>2. CASE p = m /\ fresh /\ curfew[m].in
      <3>1. PICK x \in alerts : x.mp = m /\ x.at <= curfew[m].last
        BY <2>2 DEF Raised, CurfewHasAlert
      <3>2. x \in alerts' /\ x.mp = p
        BY <2>0, <2>2, <3>1
      <3> QED BY <1>8, <3>2
    <2>3. CASE p = m /\ fresh /\ ~curfew[m].in
      <3>1. event \in alerts'
        BY <1>4, <1>6, <1>9, <2>3
      <3>2. event.mp = p
        BY <1>3, <2>3
      <3> QED BY <1>8, <3>1, <3>2
    <2> QED BY <2>1, <2>2, <2>3
  <1>10. AlertsAdvance
    BY <1>3, <1>4, <1>7 DEF AlertsAdvance
  <1>11. \A x \in alerts' \ alerts : x.dev = msg[w].dev
    BY <1>3, <1>4
  <1>12. Raised'
    BY <1>8, <1>9 DEF Raised, CurfewHasAlert
  <1> QED BY <1>10, <1>11, <1>12

\* A step that raises no alert and leaves the curfew states alone.
LEMMA FrameKeepsRaised ==
  ASSUME Raised, UNCHANGED alertVars
  PROVE  Raised' /\ AlertsAdvance
  BY DEF Raised, CurfewHasAlert, AlertsAdvance, alertVars

\* A reading takes part in the alerts of the point it is filed under.
LEMMA WorkerKeepsRaised ==
  ASSUME TypeOK, Raised, NEW w \in Workers,
         \/ Process(w) \/ WorkerFails(w)
         \/ \E m \in Messages : Receive(w, m)
  PROVE  Raised' /\ AlertsAdvance
         /\ \A x \in alerts' \ alerts : stage[w] = "locked" /\ InService(w) /\ x.dev = msg[w].dev
  <1>1. DatabaseTypes /\ WorkerTypes /\ CurfewTypes
    BY TypeParts, IngestParts
  <1>2. CASE UNCHANGED <<curfew, alerts>>
    BY <1>2, FrameKeepsRaised DEF alertVars
  <1>3. CASE stage[w] = "locked" /\ InService(w) /\ StoreReading(w)
    <2>1. PICK a \in AssignmentsFor(w) : CheckAlerts(assign[a].mp, w)
      BY <1>3 DEF StoreReading
    <2>2. assign[a].mp \in Points
      BY <1>1, <2>1 DEF AssignmentsFor, DatabaseTypes, AssignmentRow
    <2> QED BY <1>1, <1>3, <2>1, <2>2, AlertsKeepRaised
  <1> QED BY <1>2, <1>3, WorkerStores

\* SetMeasurementPointAlertSettings takes a point out of curfew and keeps the
\* time of its last event, so no later alert is older than an earlier one.
LEMMA SettingsKeepRaised ==
  ASSUME CurfewTypes, Raised, NEW m \in Points, NEW value, SetAlertSettings(m, value)
  PROVE  Raised' /\ AlertsAdvance
  <1>1. alerts' = alerts /\ curfew' = [curfew EXCEPT ![m].in = FALSE]
    BY DEF SetAlertSettings
  <1>2. \A p \in Points : /\ curfew'[p].last = curfew[p].last
                          /\ curfew'[p].in => curfew[p].in
    BY <1>1 DEF CurfewTypes
  <1>3. ASSUME NEW y \in alerts'
        PROVE  y.at \in Time /\ y.mp \in Points /\ y.at <= curfew'[y.mp].last
    BY <1>1, <1>2, <1>3 DEF Raised
  <1>4. CurfewHasAlert'
    BY <1>1, <1>2 DEF Raised, CurfewHasAlert
  <1>5. AlertsAdvance
    BY <1>1 DEF AlertsAdvance
  <1> QED BY <1>3, <1>4, <1>5 DEF Raised

-----------------------------------------------------------------------------
(***************************************************************************)
(* Presence                                                                *)
(***************************************************************************)

\* A step of a worker touches the presence of no device but the one of its
\* message, only while that is in service, and never takes last_seen back.
LEMMA WorkerMarks ==
  ASSUME TypeOK, NEW w \in Workers, NEW d \in Devices,
         \/ Process(w) \/ WorkerFails(w)
         \/ \E m \in Messages : Receive(w, m)
  PROVE  /\ lastSeen[d] <= lastSeen'[d]
         /\ lifecycle[d] # "ACTIVE" => online'[d] = online[d] /\ lastSeen'[d] = lastSeen[d]
  <1>1. WorkerTypes /\ PresenceTypes
    BY TypeParts, IngestParts
  <1>2. /\ lastSeen[d] \in Int /\ recv[w] \in Int /\ lastSeen[d] <= lastSeen[d]
        /\ lastSeen[d] = NULL => lastSeen[d] <= recv[w]
    BY <1>1 DEF WorkerTypes, PresenceTypes, Time, NULL
  <1>3. CASE UNCHANGED presenceVars
    BY <1>2, <1>3 DEF presenceVars
  <1>4. CASE InService(w) /\ MarkSeen(msg[w].dev, recv[w])
    <2>1. CASE d = msg[w].dev
      <3>1. lifecycle[d] = "ACTIVE"
        BY <1>4, <2>1 DEF InService
      <3>2. lastSeen'[d] = IF lastSeen[d] = NULL \/ lastSeen[d] < recv[w]
                           THEN recv[w] ELSE lastSeen[d]
        BY <1>1, <1>4, <2>1 DEF MarkSeen, PresenceTypes
      <3>3. lastSeen[d] <= lastSeen'[d]
        BY <1>2, <3>2
      <3> QED BY <3>1, <3>3
    <2>2. CASE d # msg[w].dev
      BY <1>1, <1>2, <1>4, <2>2 DEF MarkSeen, PresenceTypes
    <2> QED BY <2>1, <2>2
  <1>5. CASE ProcessStatus(w)
    <2>1. CASE d = msg[w].dev
      BY <1>1, <1>2, <1>3, <1>5, <2>1 DEF ProcessStatus, PresenceTypes
    <2>2. CASE d # msg[w].dev
      BY <1>1, <1>2, <1>3, <1>5, <2>2 DEF ProcessStatus, PresenceTypes
    <2> QED BY <2>1, <2>2
  <1>6. CASE \/ UnknownDevice(w) \/ LockDevice(w) \/ LifecycleBlocked(w) \/ IntervalRefused(w)
             \/ UnknownAssignment(w) \/ Publish(w) \/ WorkerFails(w)
             \/ \E m \in Messages : Receive(w, m)
    BY <1>3, <1>6 DEF UnknownDevice, LockDevice, LifecycleBlocked, IntervalRefused,
       UnknownAssignment, Publish, WorkerFails, Receive, Drop
  <1>7. CASE Duplicate(w)
    BY <1>4, <1>7 DEF Duplicate
  <1>8. CASE Store(w)
    BY <1>3, <1>4, <1>8 DEF Store, Drop
  <1>9. CASE StoreLegacy(w)
    BY <1>3, <1>4, <1>9 DEF StoreLegacy, Drop
  <1> QED BY <1>5, <1>6, <1>7, <1>8, <1>9 DEF Process

-----------------------------------------------------------------------------
(***************************************************************************)
(* The invariant of telemetry                                              *)
(***************************************************************************)

\* Who takes a step: an administrative request, a worker, or neither.
RequestActs(r) ==
  /\ Work(r) \/ Abort(r) \/ \E c \in Commands : Submit(r, c)
  /\ UNCHANGED ingestVars

WorkerActs(w) ==
  /\ Process(w) \/ WorkerFails(w) \/ \E m \in Messages : Receive(w, m)
  /\ UNCHANGED adminVars

\* The clock, a withdrawn session or grant, and changed alert settings leave
\* assignments, readings, locks and workers alone.
NobodyActs ==
  /\ UNCHANGED <<assign, readings, xlock, slock, requestVars, workerVars, keys, presenceVars,
                 acks>>
  /\ \/ UNCHANGED alertVars
     \/ \E m \in Points, value \in QuietHours : SetAlertSettings(m, value)

\* Next, by who acts: a request of AdminService, a worker of MqttService, or
\* the surroundings.
LEMMA WhoActs ==
  ASSUME [Next]_vars
  PROVE  \/ \E r \in Requests : RequestActs(r)
         \/ \E w \in Workers : WorkerActs(w)
         \/ NobodyActs
  <1>1. CASE Pass
    BY <1>1 DEF Pass, Tick, NobodyActs, adminVars, ingestVars, lockVars
  <1>2. CASE UNCHANGED vars
    BY <1>2 DEF vars, storeVars, adminVars, ingestVars, lockVars, NobodyActs
  <1>3. CASE \E s \in Sessions : (RevokeSession(s) \/ ExpireSession(s)) /\ UNCHANGED ingestVars
    BY <1>3 DEF RevokeSession, ExpireSession, KeepStore, ingestVars, lockVars, NobodyActs
  <1>4. CASE \E u \in Users, shop \in Shops : RevokeScope(u, shop) /\ UNCHANGED ingestVars
    BY <1>4 DEF RevokeScope, KeepStore, ingestVars, lockVars, NobodyActs
  <1>5. CASE \E u \in Users, m \in Points, value \in QuietHours :
               ChangeAlertSettings(u, m, value)
    <2>1. PICK u \in Users, m \in Points, value \in QuietHours :
                 ChangeAlertSettings(u, m, value)
      BY <1>5
    <2>2. SetAlertSettings(m, value)
      BY <2>1 DEF ChangeAlertSettings
    <2>3. UNCHANGED <<assign, readings, xlock, slock, requestVars, workerVars, keys, presenceVars,
                      acks>>
      BY <2>1 DEF ChangeAlertSettings, SetAlertSettings, adminVars, lockVars
    <2> QED BY <2>2, <2>3 DEF NobodyActs
  <1>6. CASE \E r \in Requests : RequestActs(r)
    BY <1>6
  <1>7. CASE \E w \in Workers : WorkerActs(w)
    BY <1>7
  <1> QED BY <1>1, <1>2, <1>3, <1>4, <1>5, <1>6, <1>7
          DEF Next, WorkRequest, ProcessMessage, RequestActs, WorkerActs

\* Before the first message nothing is recorded.
LEMMA InitRecords == Init => Records
  <1> SUFFICES ASSUME Init PROVE Records
    OBVIOUS
  <1>1. /\ readings = {} /\ alerts = {} /\ acks = {} /\ DOMAIN keys = {}
        /\ \A r \in Requests : phase[r] = "new"
        /\ \A w \in Workers : stage[w] = "idle"
        /\ \A m \in Points : curfew[m].in = FALSE
    BY DEF Init, StoreInit, AdminInit, IngestInit
  <1>2. Filed
    BY <1>1 DEF Filed
  <1>3. Identified
    BY <1>1 DEF Identified, KeysMatch, StoredOnce, AnswersMatch, AcksAreTrue
  <1>4. Raised
    BY <1>1 DEF Raised, CurfewHasAlert
  <1> QED BY <1>2, <1>3, <1>4 DEF Records

\* Every step keeps the records true.
LEMMA NextRecords == Safe /\ Records /\ [Next]_vars => Records'
  <1> SUFFICES ASSUME Safe, Records, [Next]_vars PROVE Records'
    OBVIOUS
  <1>1. Filed /\ Identified /\ Raised /\ TypeOK
    BY DEF Records, Safe
  <1>2. WorkerTypes /\ CurfewTypes
    BY <1>1, TypeParts, IngestParts
  <1>3. ASSUME NEW r \in Requests, RequestActs(r) PROVE Records'
    <2>1. /\ UNCHANGED <<readings, keys, acks, stage, msg, result, alertVars, ingestVars>>
          /\ OthersKeepLocks(r)
          /\ \/ phase[r] = "applied" /\ Install(r)
             \/ Apply(r)
             \/ assign' = assign /\ \A q \in Requests : WasApplied(q)
      BY <1>3, RequestStep DEF RequestActs, ingestVars, workerVars
    <2>2. \A w \in Workers : stage'[w] = "locked" => HoldsDevice(w)'
      BY <1>1, <2>1, RequestKeepsDevices
    <2>3. Filed'
      BY <1>1, <2>1, <2>2, FrameKeepsFiled, ApplyKeepsFiled, InstallKeepsFiled
    <2>4. Identified'
      BY <1>1, <2>1, FrameKeepsIdentified
    <2>5. Raised'
      BY <1>1, <2>1, FrameKeepsRaised
    <2> QED BY <2>3, <2>4, <2>5 DEF Records
  <1>4. ASSUME NEW w \in Workers, WorkerActs(w) PROVE Records'
    <2>1. Filed' /\ Identified' /\ Raised'
      BY <1>1, <1>2, <1>4, WorkerKeepsFiled, WorkerKeepsIdentified, WorkerKeepsRaised
         DEF WorkerActs
    <2> QED BY <2>1 DEF Records
  <1>5. CASE NobodyActs
    <2>1. UNCHANGED <<assign, readings, keys, acks, stage, msg, result, xlock, phase, cmd, sampled>>
      BY <1>5 DEF NobodyActs, requestVars, workerVars
    <2>2. \A q \in Requests : WasApplied(q)
      BY <2>1 DEF WasApplied
    <2>3. \A w \in Workers : stage'[w] = "locked" => HoldsDevice(w)'
      BY <1>1, <2>1 DEF Filed, HoldsDevice, DeviceRow
    <2>4. Filed'
      BY <1>1, <2>1, <2>2, <2>3, FrameKeepsFiled
    <2>5. Identified'
      BY <1>1, <2>1, FrameKeepsIdentified
    <2>6. Raised'
      BY <1>1, <1>2, <1>5, FrameKeepsRaised, SettingsKeepRaised DEF NobodyActs
    <2> QED BY <2>4, <2>5, <2>6 DEF Records
  <1> QED BY <1>3, <1>4, <1>5, WhoActs

\* The records of telemetry are in order in every state.
THEOREM RecordsInvariance == Spec => [](Safe /\ Records)
  BY InitSafe, NextSafe, InitRecords, NextRecords, PTL DEF Spec

\* A reading lies in the one assignment of its device at its time, also after
\* that was closed; an identity is stored once whatever is delivered again;
\* what was acknowledged as stored is there; and a point is in curfew only
\* with an alert.
THEOREM TelemetryStaysTrue == Spec => []TelemetryIsTrue
  <1>1. Safe /\ Records => TelemetryIsTrue
    <2> SUFFICES ASSUME Safe, Records PROVE TelemetryIsTrue
      OBVIOUS
    <2>1. Filed /\ Identified /\ Raised /\ NoOverlap /\ DatabaseTypes
      BY TypeParts DEF Records, Safe
    <2>2. ASSUME NEW x \in readings, x.mp # NULL
          PROVE  \E a \in rows : /\ assign[a].dev = x.dev /\ assign[a].mp = x.mp
                                 /\ Covers(assign[a], x.at)
                                 /\ \A b \in rows : assign[b].dev = x.dev /\ Covers(assign[b], x.at)
                                                     => b = a
      <3>1. x.at \in Time
        BY <2>1 DEF Filed
      <3>2. PICK a \in rows : /\ assign[a].dev = x.dev /\ assign[a].mp = x.mp
                              /\ Covers(assign[a], x.at)
        BY <2>1, <2>2 DEF Filed, Inside
      <3>3. ASSUME NEW b \in rows, assign[b].dev = x.dev, Covers(assign[b], x.at), b # a
            PROVE  FALSE
        <4>1. DisjointRows(assign[a], assign[b])
          BY <2>1, <3>2, <3>3 DEF NoOverlap, ConstraintsHold, Excludes, rows
        <4>2. /\ assign[a].from \in Int /\ assign[a].to \in Int
              /\ assign[b].from \in Int /\ assign[b].to \in Int /\ x.at \in Int
          BY <2>1, <3>1, <3>2, <3>3 DEF DatabaseTypes, AssignmentRow, Time, NULL
        <4> QED BY <3>2, <3>3, <4>1, <4>2 DEF DisjointRows, Covers
      <3> QED BY <3>2, <3>3
    <2>3. ReadingsInsideAssignment
      BY <2>2 DEF ReadingsInsideAssignment
    <2> QED BY <2>1, <2>3 DEF TelemetryIsTrue, Identified, Raised
  <1> QED BY <1>1, RecordsInvariance, PTL

\* However messages overtake each other: last_seen of a device never goes
\* back, and an alert of a point is later than every alert of it before.
THEOREM NothingIsTakenBack == Spec => NothingGoesBack
  <1>1. Safe /\ Records /\ [Next]_vars => [LastSeenAdvances /\ AlertsAdvance]_vars
    <2> SUFFICES ASSUME Safe, Records, [Next]_vars PROVE LastSeenAdvances /\ AlertsAdvance
      OBVIOUS
    <2>1. TypeOK /\ Raised /\ PresenceTypes /\ CurfewTypes
      BY TypeParts, IngestParts DEF Safe, Records
    <2>2. \A d \in Devices : lastSeen[d] <= lastSeen[d]
      BY <2>1 DEF PresenceTypes, Time, NULL
    <2>3. CASE \E w \in Workers : WorkerActs(w)
      BY <2>1, <2>3, WorkerMarks, WorkerKeepsRaised DEF WorkerActs, LastSeenAdvances
    <2>4. CASE \E r \in Requests : RequestActs(r)
      <3>1. UNCHANGED <<presenceVars, alertVars>>
        BY <2>4 DEF RequestActs, ingestVars
      <3> QED BY <2>1, <2>2, <3>1, FrameKeepsRaised DEF presenceVars, LastSeenAdvances
    <2>5. CASE NobodyActs
      <3>1. UNCHANGED presenceVars
        BY <2>5 DEF NobodyActs
      <3>2. AlertsAdvance
        BY <2>1, <2>5, FrameKeepsRaised, SettingsKeepRaised DEF NobodyActs
      <3> QED BY <2>2, <3>1, <3>2 DEF presenceVars, LastSeenAdvances
    <2> QED BY <2>3, <2>4, <2>5, WhoActs
  <1> QED BY <1>1, RecordsInvariance, PTL DEF Spec, NothingGoesBack

\* A device out of service gets no reading, presence or alert, also from a
\* message that was received while it was in service.
THEOREM SilenceIsKept == Spec => BlockedDeviceIsSilent
  <1> DEFINE Silent(d) ==
        lifecycle[d] # "ACTIVE" =>
          /\ online'[d] = online[d] /\ lastSeen'[d] = lastSeen[d]
          /\ \A x \in readings' \ readings : x.dev # d
          /\ \A x \in alerts' \ alerts : x.dev # d
  <1>1. ASSUME Safe, Records, [Next]_vars, NEW d \in Devices, lifecycle[d] # "ACTIVE"
        PROVE  /\ online'[d] = online[d] /\ lastSeen'[d] = lastSeen[d]
               /\ \A x \in readings' \ readings : x.dev # d
               /\ \A x \in alerts' \ alerts : x.dev # d
    <2>1. TypeOK /\ Raised
      BY <1>1 DEF Safe, Records
    <2>2. ASSUME NEW w \in Workers, WorkerActs(w)
          PROVE  /\ online'[d] = online[d] /\ lastSeen'[d] = lastSeen[d]
                 /\ \A x \in readings' \ readings : x.dev # d
                 /\ \A x \in alerts' \ alerts : x.dev # d
      <3>1. online'[d] = online[d] /\ lastSeen'[d] = lastSeen[d]
        BY <1>1, <2>1, <2>2, WorkerMarks DEF WorkerActs
      <3>2. \A x \in alerts' \ alerts : x.dev # d
        BY <1>1, <2>1, <2>2, WorkerKeepsRaised DEF WorkerActs, InService
      <3>3. CASE readings' = readings
        BY <3>1, <3>2, <3>3
      <3>4. CASE readings' # readings
        <4>1. InService(w) /\ \E mp : readings' = readings \cup {Reading(w, mp)}
          BY <2>2, <3>4, WorkerStores DEF WorkerActs, StoreReading
        <4>2. \A mp : Reading(w, mp).dev = msg[w].dev
          BY DEF Reading
        <4>3. \A x \in readings' \ readings : x.dev = msg[w].dev
          BY <4>1, <4>2
        <4> QED BY <1>1, <3>1, <3>2, <4>1, <4>3 DEF InService
      <3> QED BY <3>3, <3>4
    <2>3. CASE (\E r \in Requests : RequestActs(r)) \/ NobodyActs
      <3>1. UNCHANGED <<presenceVars, alerts>>
        BY <2>3 DEF RequestActs, ingestVars, NobodyActs, SetAlertSettings, alertVars
      <3>2. readings' = readings
        BY <1>1, <2>3, RequestStep DEF RequestActs, NobodyActs
      <3> QED BY <3>1, <3>2 DEF presenceVars
    <2> QED BY <1>1, <2>2, <2>3, WhoActs
  <1>2. Safe /\ Records /\ [Next]_vars => [\A d \in Devices : Silent(d)]_vars
    BY <1>1
  <1> QED BY <1>2, RecordsInvariance, PTL DEF Spec, BlockedDeviceIsSilent
-----------------------------------------------------------------------------
(***************************************************************************)
(* Deadlocks.  Which rows a transaction may hold where it is, and that a   *)
(* point is locked only after the rows before it.                          *)
(***************************************************************************)

\* A request shares rows of its admission, the session first; it holds that
\* session, and the rows of its work once it has claimed its key, the lowest
\* first.
OwnRows(r) ==
  /\ \A row \in Rows : xlock[row] = r =>
        \/ phase[r] \in InTx /\ row = <<"session", cmd[r].session>>
        \/ HasClaimed(r) /\ row \in WorkRows(cmd[r])
  /\ \A row \in Rows : r \in slock[row] =>
        /\ phase[r] \in InTx
        /\ row \in AdmissionRows(cmd[r]) /\ row[1] # "session"
        /\ xlock[<<"session", cmd[r].session>>] = r
  /\ phase[r] = "lock" =>
        \A m \in Points, row \in WorkRows(cmd[r]) :
           xlock[<<"point", m>>] = r /\ Before(row, <<"point", m>>) => xlock[row] = r

\* A worker holds the row of its device while it works under it.
WorkerRows(w) ==
  \A row \in Rows :
     /\ w \notin slock[row]
     /\ xlock[row] = w => stage[w] = "locked" /\ row = DeviceRow(w)

LockOrder == (\A r \in Requests : OwnRows(r)) /\ (\A w \in Workers : WorkerRows(w))

\* No transaction but t has a lock that it did not have.
NoGain(t) ==
  \A row \in Rows, q \in Txs \ {t} :
     /\ xlock'[row] = q => xlock[row] = q
     /\ q \in slock'[row] => q \in slock[row]

\* t holds nothing.
Bare(t) == \A row \in Rows : xlock[row] # t /\ t \notin slock[row]

\* COMMIT and ROLLBACK drop every lock of the transaction and give none.
LEMMA ReleaseGains ==
  ASSUME NEW t \in Txs, ReleaseLocks(t)
  PROVE  NoGain(t) /\ Bare(t)'
  <1>1. \A row \in Rows : /\ xlock'[row] = (IF xlock[row] = t THEN NoTx ELSE xlock[row])
                          /\ slock'[row] = slock[row] \ {t}
    BY DEF ReleaseLocks
  <1> QED BY <1>1, StoreAssumption DEF NoGain, Bare

\* SELECT ... FOR gives a lock to the transaction that runs it and to no other.
LEMMA LockGains ==
  ASSUME LockTypes, NEW t \in Txs, NEW row \in Rows, LockX(t, row) \/ LockS(t, row)
  PROVE  NoGain(t)
  BY DEF NoGain, LockX, LockS, LockTypes

\* What a step of a request does to its locks: COMMIT or ROLLBACK drops all,
\* SELECT ... FOR adds one, any other step leaves them.
LEMMA RequestLocks ==
  ASSUME Safe, Books, NEW r \in Requests, RequestActs(r)
  PROVE  /\ \A q \in Requests \ {r} : phase'[q] = phase[q] /\ cmd'[q] = cmd[q]
         /\ assign' = assign \/ (phase[r] = "applied" /\ Install(r))
         /\ \/ ReleaseLocks(r)
            \/ /\ UNCHANGED lockVars /\ assign' = assign
               /\ \/ phase[r] = "new"
                  \/ /\ phase[r] \in InTx /\ phase'[r] \in InTx /\ cmd'[r] = cmd[r]
                     /\ HasClaimed(r) => HasClaimed(r)'
                     /\ phase'[r] = "lock" => phase[r] = "claim"
            \/ \E row \in Rows : Acquire(r, row)
  <1> DEFINE Others == \A q \in Requests \ {r} : phase'[q] = phase[q] /\ cmd'[q] = cmd[q]
             Moved == /\ UNCHANGED lockVars /\ assign' = assign
                      /\ phase[r] \in InTx /\ phase'[r] \in InTx /\ cmd'[r] = cmd[r]
                      /\ HasClaimed(r) => HasClaimed(r)'
                      /\ phase'[r] = "lock" => phase[r] = "claim"
  <1>1. RequestTypes /\ LockTypes
    BY TypeParts DEF Safe
  <1>2. ASSUME NEW what, NEW op, Finish(r, what, op), KeepDatabase
        PROVE  Others /\ assign' = assign /\ ReleaseLocks(r)
    BY <1>1, <1>2 DEF Finish, KeepDatabase, KeepStore, RequestTypes
  <1>3. ASSUME NEW where \in {"resolve", "claim", "lock"}, Goto(r, where), KeepDatabase,
               phase[r] \in {"admit", "resolve", "claim"}, where = "lock" => phase[r] = "claim"
        PROVE  Others /\ Moved
    BY <1>1, <1>3 DEF Goto, KeepDatabase, KeepStore, RequestTypes, InTx, HasClaimed
  <1>4. CASE Replay(r)
    BY <1>2, <1>4 DEF Replay
  <1>5. ASSUME NEW row \in Rows, Acquire(r, row)
        PROVE  Others /\ assign' = assign
    BY <1>5 DEF Acquire, requestVars, KeepDatabase, KeepStore
  <1>6. ASSUME NEW row \in Rows, Deny(r, row)
        PROVE  Others /\ assign' = assign /\ ReleaseLocks(r)
    BY <1>2, <1>6 DEF Deny
  <1>7. CASE Load(r) /\ ~Replay(r)
    <2>1. KeepDatabase /\ (Goto(r, "resolve") \/ Goto(r, "claim")) /\ phase[r] = "admit"
      BY <1>7 DEF Load
    <2> QED BY <1>3, <2>1
  <1>8. CASE Resolve(r)
    <2>1. KeepDatabase /\ (Goto(r, "claim") \/ Finish(r, "refused", {})) /\ phase[r] = "resolve"
      BY <1>8 DEF Resolve
    <2> QED BY <1>2, <1>3, <2>1
  <1>9. CASE Claim(r) /\ ~Replay(r)
    <2>1. KeepDatabase /\ (Goto(r, "lock") \/ Finish(r, "refused", {})) /\ phase[r] = "claim"
      BY <1>9 DEF Claim
    <2> QED BY <1>2, <1>3, <2>1
  <1>10. CASE Apply(r)
    <2>1. CASE Finish(r, "refused", {})
      BY <1>2, <1>10, <2>1 DEF Apply
    <2>2. CASE phase' = [phase EXCEPT ![r] = "applied"] /\ UNCHANGED <<cmd, lockVars>>
      BY <1>1, <1>10, <2>2 DEF Apply, KeepDatabase, KeepStore, RequestTypes, InTx, HasClaimed
    <2> QED BY <1>10, <2>1, <2>2 DEF Apply
  <1>11. CASE Commit(r)
    <2>1. CASE Install(r)
      BY <1>1, <1>11, <2>1 DEF Commit, Install, Finish, RequestTypes
    <2>2. CASE ~Install(r)
      BY <1>2, <1>11, <2>2 DEF Commit
    <2> QED BY <2>1, <2>2
  <1>12. CASE DeadlockVictim(r)
    <2>1. CASE ReleaseLocks(r) /\ phase' = [phase EXCEPT ![r] = "admit"] /\ KeepDatabase
               /\ UNCHANGED cmd
      BY <1>1, <2>1 DEF KeepDatabase, KeepStore, RequestTypes
    <2> QED BY <1>2, <1>12, <2>1 DEF DeadlockVictim
  <1>13. CASE Abort(r)
    BY <1>2, <1>13 DEF Abort
  <1>14. ASSUME NEW c \in Commands, Submit(r, c)
         PROVE  Others /\ assign' = assign /\ UNCHANGED lockVars /\ phase[r] = "new"
    BY <1>1, <1>14 DEF Submit, KeepDatabase, KeepStore, RequestTypes, lockVars
  <1> QED BY <1>4, <1>5, <1>6, <1>7, <1>8, <1>9, <1>10, <1>11, <1>12, <1>13, <1>14
          DEF RequestActs, Work, Load, Claim

\* The rows a request has resolved stay the rows of its command.
LEMMA CommandRowsStay ==
  ASSUME Safe, Books, NEW q \in Requests, phase[q] \in InTx, cmd'[q] = cmd[q],
         \/ assign' = assign
         \/ \E r \in Requests : phase[r] = "applied" /\ Install(r)
  PROVE  /\ WorkRows(cmd[q])' = WorkRows(cmd[q])
         /\ AdmissionRows(cmd[q])' = AdmissionRows(cmd[q])
  <1> DEFINE c == cmd[q]
  <1>1. Moves(c) => c.cur \in rows
    BY DEF Books, Sound, Resolved
  <1>2. Moves(c) => assign'[c.cur].dev = assign[c.cur].dev /\ assign'[c.cur].mp = assign[c.cur].mp
    BY <1>1, InstallKeepsPlaces
  <1>3. DevicesOf(cmd[q])' = DevicesOf(c) /\ PointsOf(cmd[q])' = PointsOf(c)
    BY <1>2 DEF DevicesOf, PointsOf, Moves
  <1> QED BY <1>3 DEF WorkRows, AdmissionRows, User

\* The rows of a command, by the names they have in the lock table.
LEMMA RowsOfCommand ==
  ASSUME Safe, Books, NEW q \in Requests, phase[q] \in InTx
  PROVE  /\ cmd[q] \in CommandType
         /\ WorkRows(cmd[q]) \subseteq Rows /\ AdmissionRows(cmd[q]) \subseteq Rows
         /\ <<"session", cmd[q].session>> \in Rows
         /\ DevicesOf(cmd[q]) \subseteq Devices /\ PointsOf(cmd[q]) \subseteq Points
  <1>1. DatabaseTypes /\ RequestTypes /\ Resolved(cmd[q])
    BY TypeParts DEF Safe, Books, Sound
  <1>2. cmd[q] \in CommandType /\ User(cmd[q]) \in Users
    BY <1>1, CommandTypes DEF InTx
  <1>3. /\ WorkRows(cmd[q]) \subseteq Rows /\ DevicesOf(cmd[q]) \subseteq Devices
        /\ PointsOf(cmd[q]) \subseteq Points
    BY <1>1, <1>2, WorkRowsAreRows DEF Resolved
  <1>4. <<"session", cmd[q].session>> \in Rows /\ <<"scope", User(cmd[q])>> \in Rows
    BY <1>2 DEF Rows, CommandType
  <1>5. AdmissionRows(cmd[q]) \subseteq Rows
    BY <1>3, <1>4 DEF AdmissionRows, Rows
  <1> QED BY <1>2, <1>3, <1>4, <1>5

\* A request whose locks stay, and whose phase goes no further than the point
\* of commit, holds what it may hold.
LEMMA OrderStays ==
  ASSUME Safe, Books, NEW q \in Requests, OwnRows(q),
         \A row \in Rows : /\ xlock'[row] = q <=> xlock[row] = q
                           /\ q \in slock'[row] <=> q \in slock[row],
         phase[q] \in InTx =>
            /\ phase'[q] \in InTx /\ cmd'[q] = cmd[q]
            /\ HasClaimed(q) => HasClaimed(q)'
            /\ phase'[q] = "lock" => phase[q] \in {"claim", "lock"},
         \/ assign' = assign
         \/ \E r \in Requests : phase[r] = "applied" /\ Install(r)
  PROVE  OwnRows(q)'
  <1>1. CASE phase[q] \notin InTx
    <2>1. Bare(q) /\ Bare(q)'
      BY <1>1 DEF OwnRows, Bare, HasClaimed, InTx
    <2>2. \A m \in Points : <<"point", m>> \in Rows
      BY DEF Rows
    <2> QED BY <2>1, <2>2 DEF OwnRows, Bare
  <1>2. CASE phase[q] \in InTx
    <2>1. /\ WorkRows(cmd[q])' = WorkRows(cmd[q]) /\ AdmissionRows(cmd[q])' = AdmissionRows(cmd[q])
          /\ cmd'[q] = cmd[q]
      BY <1>2, CommandRowsStay
    <2>2. WorkRows(cmd[q]) \subseteq Rows /\ <<"session", cmd[q].session>> \in Rows
      BY <1>2, RowsOfCommand
    <2>3. ASSUME phase'[q] = "lock", NEW m \in Points, NEW row \in WorkRows(cmd[q]),
                 xlock'[<<"point", m>>] = q, Before(row, <<"point", m>>)
          PROVE  xlock'[row] = q
      <3>1. <<"point", m>> \in Rows /\ row \in Rows
        BY <2>2 DEF Rows
      <3>2. xlock[<<"point", m>>] = q
        BY <2>3, <3>1
      <3>3. <<"point", m>> # <<"session", cmd[q].session>>
        OBVIOUS
      <3>4. phase[q] = "lock"
        BY <1>2, <2>3, <3>1, <3>2, <3>3 DEF OwnRows, HasClaimed
      <3> QED BY <2>3, <3>1, <3>2, <3>4 DEF OwnRows
    <2>4. ASSUME NEW x, NEW y PROVE Before(x, y)' <=> Before(x, y)
      BY DEF Before, Stage
    <2>5. ASSUME NEW row \in Rows, xlock'[row] = q
          PROVE  \/ phase'[q] \in InTx /\ row = <<"session", cmd'[q].session>>
                 \/ HasClaimed(q)' /\ row \in WorkRows(cmd[q])'
      BY <1>2, <2>1, <2>5 DEF OwnRows
    <2>6. ASSUME NEW row \in Rows, q \in slock'[row]
          PROVE  /\ phase'[q] \in InTx
                 /\ row \in AdmissionRows(cmd[q])' /\ row[1] # "session"
                 /\ xlock'[<<"session", cmd'[q].session>>] = q
      BY <1>2, <2>1, <2>2, <2>6 DEF OwnRows
    <2> QED BY <2>1, <2>3, <2>4, <2>5, <2>6 DEF OwnRows
  <1> QED BY <1>1, <1>2

\* Rows are locked in order: a row that is taken FOR UPDATE comes after the
\* others of the command, the session before everything.
LEMMA AcquireKeepsOrder ==
  ASSUME Safe, Books, NEW r \in Requests, OwnRows(r), NEW row \in Rows, Acquire(r, row)
  PROVE  OwnRows(r)'
  <1> DEFINE c == cmd[r]
  <1>1. LockTypes /\ phase[r] \in {"admit", "lock"} /\ phase[r] \in InTx
        /\ UNCHANGED <<phase, cmd, assign>> /\ IsNext(r, row)
    BY TypeParts DEF Safe, Acquire, InTx, requestVars, KeepDatabase, KeepStore
  <1>2. /\ WorkRows(cmd[r])' = WorkRows(c) /\ AdmissionRows(cmd[r])' = AdmissionRows(c)
    BY <1>1, CommandRowsStay
  <1>3. /\ c \in CommandType /\ WorkRows(c) \subseteq Rows /\ <<"session", c.session>> \in Rows
    BY <1>1, RowsOfCommand
  <1>4. \A x, y : Before(x, y)' <=> Before(x, y)
    BY DEF Before, Stage
  <1>5. row \in Needed(r) /\ \A x \in Needed(r) : Before(x, row) => Holds(r, x)
    BY <1>1 DEF IsNext, Outstanding
  <1>6. CASE phase[r] = "lock"
    <2>1. LockX(r, row) /\ row \in WorkRows(c)
      BY <1>5, <1>6 DEF Acquire, Exclusive, Needed
    <2>2. \A x \in Rows : /\ xlock'[x] = (IF x = row THEN r ELSE xlock[x])
                          /\ slock'[x] = slock[x]
      BY <1>1, <2>1 DEF LockX, LockTypes
    <2>3. \A x \in WorkRows(c) : Before(x, row) => xlock[x] = r
      BY <1>5, <1>6 DEF Needed, Holds, Exclusive
    <2>4. ASSUME NEW m \in Points, NEW x \in WorkRows(c), xlock'[<<"point", m>>] = r,
                 Before(x, <<"point", m>>)
          PROVE  xlock'[x] = r
      <3>1. <<"point", m>> \in Rows /\ x \in Rows
        BY <1>3 DEF Rows
      <3>2. xlock[x] = r
        BY <1>6, <2>2, <2>3, <2>4, <3>1 DEF OwnRows
      <3> QED BY <2>2, <3>1, <3>2
    <2>5. HasClaimed(r)
      BY <1>6 DEF HasClaimed
    <2>6. ASSUME NEW x \in Rows, xlock'[x] = r
          PROVE  x = <<"session", c.session>> \/ x \in WorkRows(c)
      BY <2>1, <2>2, <2>6 DEF OwnRows
    <2>7. ASSUME NEW x \in Rows, r \in slock'[x]
          PROVE  x \in AdmissionRows(c) /\ x[1] # "session" /\ xlock'[<<"session", c.session>>] = r
      BY <1>3, <2>2, <2>7 DEF OwnRows
    <2> QED BY <1>1, <1>2, <1>4, <2>4, <2>5, <2>6, <2>7 DEF OwnRows, HasClaimed
  <1>7. CASE phase[r] = "admit"
    <2>1. row \in AdmissionRows(c)
      BY <1>5, <1>7 DEF Needed
    <2>2. CASE row[1] = "session"
      <3>1. row = <<"session", c.session>> /\ LockX(r, row)
        BY <2>1, <2>2 DEF AdmissionRows, Acquire, Exclusive
      <3>2. \A x \in Rows : /\ xlock'[x] = (IF x = row THEN r ELSE xlock[x])
                            /\ slock'[x] = slock[x]
        BY <1>1, <3>1 DEF LockX, LockTypes
      <3>3. \A x \in Rows : xlock'[x] = r => x = <<"session", c.session>>
        BY <1>7, <3>1, <3>2 DEF OwnRows, HasClaimed
      <3>4. ASSUME NEW x \in Rows, r \in slock'[x]
            PROVE  x \in AdmissionRows(c) /\ x[1] # "session" /\ xlock'[<<"session", c.session>>] = r
        BY <3>1, <3>2, <3>4 DEF OwnRows
      <3> QED BY <1>1, <1>2, <1>7, <3>3, <3>4 DEF OwnRows
    <2>3. CASE row[1] # "session"
      <3>1. ~Exclusive(r, row) /\ LockS(r, row)
        BY <1>7, <2>3 DEF Acquire, Exclusive
      <3>2. \A x \in Rows : /\ xlock'[x] = xlock[x]
                            /\ slock'[x] = (IF x = row THEN slock[x] \cup {r} ELSE slock[x])
        BY <1>1, <3>1 DEF LockS, LockTypes
      <3>3. xlock[<<"session", c.session>>] = r
        <4>1. <<"session", c.session>> \in Needed(r)
          BY <1>7 DEF Needed, AdmissionRows
        <4>2. Before(<<"session", c.session>>, row)
          <5>1. Stage(<<"session", c.session>>) = 1
            BY DEF Stage
          <5>2. Stage(row) \in {2, 3, 4}
            BY <2>3 DEF Stage
          <5> QED BY <5>1, <5>2 DEF Before
        <4> QED BY <1>5, <4>1, <4>2 DEF Holds, Exclusive
      <3>4. ASSUME NEW x \in Rows, r \in slock'[x]
            PROVE  x \in AdmissionRows(c) /\ x[1] # "session" /\ xlock'[<<"session", c.session>>] = r
        BY <1>3, <2>1, <2>3, <3>2, <3>3, <3>4 DEF OwnRows
      <3>5. \A x \in Rows : xlock'[x] = r => x = <<"session", c.session>>
        BY <1>7, <3>2 DEF OwnRows, HasClaimed
      <3> QED BY <1>1, <1>2, <1>7, <3>4, <3>5 DEF OwnRows
    <2> QED BY <2>2, <2>3
  <1> QED BY <1>1, <1>6, <1>7

\* A worker that does not act keeps what it may hold.
LEMMA WorkersStayOrdered ==
  ASSUME NEW t \in Txs, NoGain(t), NEW v \in Workers, v # t, WorkerRows(v),
         stage'[v] = stage[v], msg'[v] = msg[v]
  PROVE  WorkerRows(v)'
  <1>1. v \in Txs \ {t} /\ DeviceRow(v)' = DeviceRow(v)
    BY DEF Txs, DeviceRow
  <1> QED BY <1>1 DEF WorkerRows, NoGain

\* Statements of AdminService keep the order of locks.
LEMMA RequestKeepsOrder ==
  ASSUME Safe, Books, LockOrder, NEW r \in Requests, RequestActs(r)
  PROVE  LockOrder'
  <1>1. LockTypes /\ LocksExclude /\ r \in Txs
    BY TypeParts DEF Safe, Books, Txs
  <1>2. /\ \A q \in Requests \ {r} : phase'[q] = phase[q] /\ cmd'[q] = cmd[q]
        /\ assign' = assign \/ (phase[r] = "applied" /\ Install(r))
        /\ \/ ReleaseLocks(r)
           \/ /\ UNCHANGED lockVars /\ assign' = assign
              /\ \/ phase[r] = "new"
                 \/ /\ phase[r] \in InTx /\ phase'[r] \in InTx /\ cmd'[r] = cmd[r]
                    /\ HasClaimed(r) => HasClaimed(r)'
                    /\ phase'[r] = "lock" => phase[r] = "claim"
           \/ \E row \in Rows : Acquire(r, row)
    BY RequestLocks
  <1>3. ASSUME NEW row \in Rows, Acquire(r, row)
        PROVE  \/ FreeX(r, row) /\ LockX(r, row)
               \/ FreeS(r, row) /\ LockS(r, row)
    BY <1>3 DEF Acquire, Free
  <1>4. KeepsOthers(r) /\ NoGain(r)
    <2>1. CASE ReleaseLocks(r)
      BY <1>1, <2>1, ReleaseGains, ReleaseIsOwn
    <2>2. CASE UNCHANGED lockVars
      BY <2>2 DEF KeepsOthers, NoGain, lockVars
    <2>3. ASSUME NEW row \in Rows, Acquire(r, row) PROVE KeepsOthers(r) /\ NoGain(r)
      BY <1>1, <1>3, <2>3, AcquireIsOwn, LockGains
    <2> QED BY <1>2, <2>1, <2>2, <2>3
  <1>5. ASSUME NEW q \in Requests, q # r PROVE OwnRows(q)'
    <2>1. OwnRows(q) /\ phase'[q] = phase[q] /\ cmd'[q] = cmd[q]
      BY <1>2, <1>5 DEF LockOrder
    <2>2. HasClaimed(q) => HasClaimed(q)'
      BY <2>1 DEF HasClaimed
    <2>3. \A row \in Rows : /\ xlock'[row] = q <=> xlock[row] = q
                            /\ q \in slock'[row] <=> q \in slock[row]
      BY <1>4, <1>5 DEF KeepsOthers
    <2> QED BY <1>2, <2>1, <2>2, <2>3, OrderStays
  <1>6. OwnRows(r)'
    <2>1. CASE ReleaseLocks(r)
      <3>1. Bare(r)' /\ \A m \in Points : <<"point", m>> \in Rows
        BY <1>1, <2>1, ReleaseGains DEF Rows
      <3> QED BY <3>1 DEF Bare, OwnRows
    <2>2. CASE /\ UNCHANGED lockVars /\ assign' = assign
               /\ \/ phase[r] = "new"
                  \/ /\ phase[r] \in InTx /\ phase'[r] \in InTx /\ cmd'[r] = cmd[r]
                     /\ HasClaimed(r) => HasClaimed(r)'
                     /\ phase'[r] = "lock" => phase[r] = "claim"
      <3>1. OwnRows(r)
        BY DEF LockOrder
      <3>2. UNCHANGED <<xlock, slock>>
        BY <2>2 DEF lockVars
      <3>3. phase[r] = "new" => phase[r] \notin InTx
        BY DEF InTx
      <3> QED BY <2>2, <3>1, <3>2, <3>3, OrderStays
    <2>3. ASSUME NEW row \in Rows, Acquire(r, row) PROVE OwnRows(r)'
      BY <2>3, AcquireKeepsOrder DEF LockOrder
    <2> QED BY <1>2, <2>1, <2>2, <2>3
  <1>7. ASSUME NEW v \in Workers PROVE WorkerRows(v)'
    <2>1. v # r /\ stage' = stage /\ msg' = msg
      BY StoreAssumption DEF RequestActs, ingestVars, workerVars
    <2> QED BY <1>1, <1>4, <2>1, WorkersStayOrdered DEF LockOrder
  <1> QED BY <1>5, <1>6, <1>7 DEF LockOrder

\* The workers of MqttService keep it too.
LEMMA WorkerKeepsOrder ==
  ASSUME Safe, Books, LockOrder, NEW w \in Workers, WorkerActs(w)
  PROVE  LockOrder'
  <1>1. LockTypes /\ LocksExclude /\ WorkerTypes /\ w \in Txs /\ w \notin Requests
    BY TypeParts, IngestParts, StoreAssumption DEF Safe, Books, Txs
  <1>2. /\ \A v \in Workers \ {w} : stage'[v] = stage[v] /\ msg'[v] = msg[v]
        /\ stage'[w] = "locked" => LockDevice(w)
    BY <1>1, WorkerMoves DEF WorkerActs
  <1>3. KeepRows /\ KeepsOthers(w) /\ UNCHANGED <<phase, cmd>>
    BY <1>1, WorkerStep, WorkerLocks DEF WorkerActs, Safe, adminVars, requestVars
  <1>4. \/ ReleaseLocks(w)
        \/ stage[w] = "idle" /\ UNCHANGED lockVars
        \/ LockDevice(w)
    <2>1. CASE Process(w) /\ ~LockDevice(w)
      <3>1. (\E status \in Statuses : Answer(w, status)) \/ GoIdle(w)
        BY <2>1 DEF Process, UnknownDevice, LifecycleBlocked, IntervalRefused, Duplicate,
           UnknownAssignment, Store, StoreLegacy, ProcessStatus, Publish, Drop, Statuses
      <3> QED BY <3>1 DEF Answer, GoIdle
    <2> QED BY <2>1 DEF WorkerActs, WorkerFails, Drop, GoIdle, Receive
  <1>5. NoGain(w) /\ WorkerRows(w)'
    <2>1. CASE ReleaseLocks(w)
      BY <1>1, <2>1, ReleaseGains DEF Bare, WorkerRows
    <2>2. CASE stage[w] = "idle" /\ UNCHANGED lockVars
      <3>1. WorkerRows(w)
        BY DEF LockOrder
      <3> QED BY <2>2, <3>1 DEF NoGain, lockVars, WorkerRows
    <2>3. CASE LockDevice(w)
      <3>1. /\ LockX(w, DeviceRow(w)) /\ DeviceRow(w) \in Rows /\ stage[w] = "queued"
            /\ stage'[w] = "locked" /\ DeviceRow(w)' = DeviceRow(w)
        BY <1>1, <2>3 DEF LockDevice, DeviceRow, Rows, WorkerTypes
      <3>2. WorkerRows(w)
        BY DEF LockOrder
      <3>3. \A x \in Rows : /\ xlock'[x] = (IF x = DeviceRow(w) THEN w ELSE xlock[x])
                            /\ slock'[x] = slock[x]
        BY <1>1, <3>1 DEF LockX, LockTypes
      <3> QED BY <1>1, <3>1, <3>2, <3>3, LockGains DEF WorkerRows
    <2> QED BY <1>4, <2>1, <2>2, <2>3
  <1>6. ASSUME NEW v \in Workers PROVE WorkerRows(v)'
    BY <1>1, <1>2, <1>5, WorkersStayOrdered DEF LockOrder
  <1>7. ASSUME NEW q \in Requests PROVE OwnRows(q)'
    <2>1. \A row \in Rows : /\ xlock'[row] = q <=> xlock[row] = q
                            /\ q \in slock'[row] <=> q \in slock[row]
      BY <1>1, <1>3 DEF KeepsOthers
    <2>2. assign' = assign /\ (HasClaimed(q) => HasClaimed(q)') /\ OwnRows(q)
      BY <1>3 DEF KeepRows, HasClaimed, LockOrder
    <2> QED BY <1>3, <2>1, <2>2, OrderStays
  <1> QED BY <1>6, <1>7 DEF LockOrder

\* Every step keeps the order in which rows are locked (RequestKeepsOrder,
\* WorkerKeepsOrder; the clock and the alert settings touch no lock).
LEMMA NextOrder == Safe /\ Books /\ LockOrder /\ [Next]_vars => LockOrder'
  <1> SUFFICES ASSUME Safe, Books, LockOrder, [Next]_vars PROVE LockOrder'
    OBVIOUS
  <1>1. CASE NobodyActs
    <2>1. UNCHANGED <<assign, xlock, slock, phase, cmd, stage, msg>>
      BY <1>1 DEF NobodyActs, requestVars, workerVars
    <2>2. ASSUME NEW q \in Requests PROVE OwnRows(q)'
      <3>1. OwnRows(q) /\ (HasClaimed(q) => HasClaimed(q)')
        BY <2>1 DEF LockOrder, HasClaimed
      <3> QED BY <2>1, <3>1, OrderStays
    <2>3. ASSUME NEW v \in Workers PROVE WorkerRows(v)'
      <3>1. WorkerRows(v)
        BY DEF LockOrder
      <3> QED BY <2>1, <3>1 DEF WorkerRows, DeviceRow
    <2> QED BY <2>2, <2>3 DEF LockOrder
  <1> QED BY <1>1, WhoActs, RequestKeepsOrder, WorkerKeepsOrder

\* No transaction holds a lock when the server starts.
LEMMA InitOrder == Init => LockOrder
  <1> SUFFICES ASSUME Init PROVE LockOrder
    OBVIOUS
  <1>1. \A row \in Rows : xlock[row] = NoTx /\ slock[row] = {}
    BY DEF Init, StoreInit
  <1>2. \A r \in Requests : phase[r] = "new" /\ r # NoTx
    BY StoreAssumption DEF Init, AdminInit, Txs
  <1>3. \A w \in Workers : w # NoTx
    BY StoreAssumption DEF Txs
  <1>4. \A m \in Points : <<"point", m>> \in Rows
    BY DEF Rows
  <1> QED BY <1>1, <1>2, <1>3, <1>4 DEF LockOrder, OwnRows, WorkerRows

-----------------------------------------------------------------------------
(***************************************************************************)
(* Who can wait for whom                                                   *)
(***************************************************************************)

\* In front of its session: a request that still holds nothing.
AtSession(t) ==
  t \in Requests /\ phase[t] = "admit" /\ xlock[<<"session", cmd[t].session>>] # t

\* Sharing the devices of a binding command.
AtShare(t, q) ==
  /\ t \in Requests /\ phase[t] = "admit" /\ cmd[t].action \in BindingActions
  /\ \E d \in Devices : xlock[<<"device", d>>] = q

\* In front of a claimed key.
AtKey(t, q) ==
  /\ t \in Requests /\ phase[t] = "claim"
  /\ q \in Requests /\ HasClaimed(q) /\ Slot(cmd[q]) = Slot(cmd[t])

\* Locking the devices of its work.
AtDevice(t, q) ==
  /\ t \in Requests /\ phase[t] = "lock"
  /\ \E d \in Devices :
        /\ <<"device", d>> \in Outstanding(t)
        /\ xlock[<<"device", d>>] = q \/ q \in slock[<<"device", d>>]

\* Locking the points of its work, m next.
NextPoint(t, m) == t \in Requests /\ phase[t] = "lock" /\ IsNext(t, <<"point", m>>)

AtPoint(t, q) ==
  \E m \in Points :
     /\ xlock[<<"point", m>>] = q
     /\ NextPoint(t, m) \/ (t \in Workers /\ stage[t] = "locked")

\* A worker in front of the row of its device.
AtQueue(t) == t \in Workers /\ stage[t] = "queued"

\* Every wait is one of these: nobody locks a grant FOR UPDATE, and points
\* are never shared.
LEMMA KindsOfWaiting ==
  ASSUME Safe, Books, LockOrder, NEW t \in Txs, NEW q \in Txs, Waits(t, q)
  PROVE  AtSession(t) \/ AtShare(t, q) \/ AtKey(t, q) \/ AtDevice(t, q) \/ AtPoint(t, q) \/ AtQueue(t)
  <1>1. DatabaseTypes
    BY TypeParts DEF Safe
  <1>2. CASE t \notin Requests
    <2>1. t \in Workers /\ WorkerWaitsFor(t, q)
      BY <1>2 DEF Waits, Txs
    <2>2. CASE stage[t] = "locked"
      <3>1. PICK a \in AssignmentsFor(t) : xlock[<<"point", assign[a].mp>>] = q
        BY <2>1, <2>2 DEF WorkerWaitsFor
      <3>2. assign[a].mp \in Points
        BY <1>1, <3>1 DEF AssignmentsFor, DatabaseTypes, AssignmentRow
      <3> QED BY <2>1, <2>2, <3>1, <3>2 DEF AtPoint
    <2> QED BY <2>1, <2>2 DEF WorkerWaitsFor, AtQueue
  <1>3. CASE t \in Requests /\ phase[t] = "claim"
    BY <1>3 DEF Waits, WaitsFor, AtKey
  <1>4. CASE t \in Requests /\ phase[t] # "claim"
    <2>1. PICK row \in Outstanding(t) :
             /\ IsNext(t, row)
             /\ xlock[row] = q \/ (Exclusive(t, row) /\ q \in slock[row])
      BY <1>4 DEF Waits, WaitsFor
    <2>2. phase[t] \in {"admit", "lock"} /\ phase[t] \in InTx
      BY <1>4 DEF Waits, WaitsFor, InTx
    <2>3. /\ DevicesOf(cmd[t]) \subseteq Devices /\ PointsOf(cmd[t]) \subseteq Points
          /\ WorkRows(cmd[t]) \subseteq Rows /\ AdmissionRows(cmd[t]) \subseteq Rows
      BY <1>4, <2>2, RowsOfCommand
    <2>4. CASE phase[t] = "lock"
      <3>1. row \in WorkRows(cmd[t]) /\ row \in Rows
        BY <2>1, <2>3, <2>4 DEF Outstanding, Needed
      <3>2. CASE \E d \in DevicesOf(cmd[t]) : row = <<"device", d>>
        BY <1>4, <2>1, <2>3, <2>4, <3>2 DEF AtDevice
      <3>3. ASSUME NEW m \in PointsOf(cmd[t]), row = <<"point", m>>
            PROVE  AtPoint(t, q)
        <4>1. m \in Points /\ NextPoint(t, m) /\ row \in Rows
          BY <1>4, <2>1, <2>3, <2>4, <3>1, <3>3 DEF NextPoint
        <4>2. q \notin slock[row]
          <5>1. CASE q \in Workers
            BY <4>1, <5>1 DEF LockOrder, WorkerRows
          <5>2. CASE q \in Requests
            <6>1. row \notin AdmissionRows(cmd[q])
              BY <3>3 DEF AdmissionRows
            <6> QED BY <4>1, <5>2, <6>1 DEF LockOrder, OwnRows
          <5> QED BY <5>1, <5>2 DEF Txs
        <4> QED BY <2>1, <3>3, <4>1, <4>2 DEF AtPoint
      <3> QED BY <3>1, <3>2, <3>3 DEF WorkRows
    <2>5. CASE phase[t] = "admit"
      <3>1. row \in AdmissionRows(cmd[t]) /\ ~Holds(t, row) /\ row \in Rows
        BY <2>1, <2>3, <2>5 DEF Outstanding, Needed
      <3>2. CASE row = <<"session", cmd[t].session>>
        BY <1>4, <2>5, <3>1, <3>2 DEF AtSession, Holds, Exclusive
      <3>3. CASE row # <<"session", cmd[t].session>>
        <4>1. row[1] # "session" /\ xlock[row] = q
          BY <2>1, <2>5, <3>1, <3>3 DEF AdmissionRows, Exclusive
        <4>2. row[1] # "scope"
          <5>1. CASE q \in Workers
            BY <3>1, <4>1, <5>1 DEF LockOrder, WorkerRows, DeviceRow
          <5>2. CASE q \in Requests
            <6>1. row = <<"session", cmd[q].session>> \/ row \in WorkRows(cmd[q])
              BY <3>1, <4>1, <5>2 DEF LockOrder, OwnRows
            <6> QED BY <4>1, <6>1 DEF WorkRows
          <5> QED BY <5>1, <5>2 DEF Txs
        <4>3. cmd[t].action \in BindingActions /\ \E d \in DevicesOf(cmd[t]) : row = <<"device", d>>
          BY <3>1, <4>1, <4>2 DEF AdmissionRows
        <4> QED BY <1>4, <2>3, <2>5, <4>1, <4>3 DEF AtShare
      <3> QED BY <3>2, <3>3
    <2> QED BY <2>2, <2>4, <2>5
  <1> QED BY <1>2, <1>3, <1>4

\* Where a transaction is that is waited for.
LEMMA KindsOfHolding ==
  ASSUME Safe, Books, LockOrder, NEW t \in Txs, NEW q \in Txs
  PROVE  /\ AtShare(q, t) => (t \in Requests /\ HasClaimed(t)) \/ (t \in Workers /\ stage[t] = "locked")
         /\ AtPoint(q, t) => t \in Requests /\ HasClaimed(t)
         /\ AtDevice(q, t) =>
              \/ t \in Workers /\ stage[t] = "locked"
              \/ t \in Requests /\ HasClaimed(t)
              \/ t \in Requests /\ cmd[t].action \in BindingActions /\ ~AtSession(t)
  <1>1. \A d \in Devices : <<"device", d>> \in Rows
    BY DEF Rows
  <1>2. \A m \in Points : <<"point", m>> \in Rows
    BY DEF Rows
  <1>3. ASSUME NEW d \in Devices, xlock[<<"device", d>>] = t
        PROVE  (t \in Requests /\ HasClaimed(t)) \/ (t \in Workers /\ stage[t] = "locked")
    <2>1. CASE t \in Workers
      BY <1>1, <1>3, <2>1 DEF LockOrder, WorkerRows
    <2>2. CASE t \in Requests
      BY <1>1, <1>3, <2>2 DEF LockOrder, OwnRows
    <2> QED BY <2>1, <2>2 DEF Txs
  <1>4. ASSUME NEW m \in Points, xlock[<<"point", m>>] = t
        PROVE  t \in Requests /\ HasClaimed(t)
    <2>1. CASE t \in Workers
      BY <1>2, <1>4, <2>1 DEF LockOrder, WorkerRows, DeviceRow
    <2>2. CASE t \in Requests
      BY <1>2, <1>4, <2>2 DEF LockOrder, OwnRows
    <2> QED BY <2>1, <2>2 DEF Txs
  <1>5. ASSUME NEW d \in Devices, t \in slock[<<"device", d>>]
        PROVE  t \in Requests /\ cmd[t].action \in BindingActions /\ ~AtSession(t)
    <2>1. CASE t \in Workers
      BY <1>1, <1>5, <2>1 DEF LockOrder, WorkerRows
    <2>2. CASE t \in Requests
      <3>1. /\ <<"device", d>> \in AdmissionRows(cmd[t])
            /\ xlock[<<"session", cmd[t].session>>] = t
        BY <1>1, <1>5, <2>2 DEF LockOrder, OwnRows
      <3> QED BY <2>2, <3>1 DEF AdmissionRows, AtSession
    <2> QED BY <2>1, <2>2 DEF Txs
  <1> QED BY <1>3, <1>4, <1>5 DEF AtShare, AtPoint, AtDevice

\* A request that waits for a point waits for nothing else, and whoever holds
\* that point, if it waits for anything, waits for a later point.
LEMMA PointsAreLast ==
  ASSUME Safe, Books, LockOrder, NEW t \in Txs, NEW q \in Txs, NEW m \in Points
  PROVE  /\ NextPoint(t, m) /\ Waits(t, q) => xlock[<<"point", m>>] = q
         /\ xlock[<<"point", m>>] = t /\ Waits(t, q) =>
              \E k \in Points : m < k /\ NextPoint(t, k)
         /\ \A k \in Points : NextPoint(t, m) /\ NextPoint(t, k) => ~(m < k)
  <1>1. \A k \in Points, d \in Devices : Before(<<"device", d>>, <<"point", k>>)
    BY DEF Before, Stage
  <1>2. \A k, n \in Points : Before(<<"point", k>>, <<"point", n>>) <=> k < n
    <2> SUFFICES ASSUME NEW k \in Points, NEW n \in Points
                 PROVE  Before(<<"point", k>>, <<"point", n>>) <=> k < n
      OBVIOUS
    <2>1. Stage(<<"point", k>>) = 4 /\ Stage(<<"point", n>>) = 4
      BY DEF Stage
    <2> QED BY <2>1 DEF Before
  <1>3. \A k, n \in Points : k \in Nat /\ n \in Nat
    BY StoreAssumption
  <1>4. \A k \in Points : NextPoint(t, m) /\ NextPoint(t, k) => ~(m < k)
    BY <1>2 DEF NextPoint, IsNext
  <1>5. ASSUME NextPoint(t, m), Waits(t, q) PROVE xlock[<<"point", m>>] = q
    <2>1. ~AtSession(t) /\ ~AtShare(t, q) /\ ~AtKey(t, q) /\ ~AtQueue(t)
      BY <1>5, StoreAssumption DEF NextPoint, AtSession, AtShare, AtKey, AtQueue
    <2>2. ~AtDevice(t, q)
      BY <1>1, <1>5 DEF AtDevice, NextPoint, IsNext
    <2>3. AtPoint(t, q) /\ t \notin Workers
      BY <1>5, <2>1, <2>2, KindsOfWaiting, StoreAssumption DEF NextPoint
    <2>4. PICK k \in Points : xlock[<<"point", k>>] = q /\ NextPoint(t, k)
      BY <2>3 DEF AtPoint
    <2>5. ~(k < m) /\ ~(m < k)
      BY <1>2, <1>5, <2>4 DEF NextPoint, IsNext
    <2>6. k = m
      BY <1>3, <2>5
    <2> QED BY <2>4, <2>6
  <1>6. ASSUME xlock[<<"point", m>>] = t, Waits(t, q)
        PROVE  \E k \in Points : m < k /\ NextPoint(t, k)
    <2>1. <<"point", m>> \in Rows
      BY DEF Rows
    <2>2. t \in Requests /\ HasClaimed(t)
      <3>1. CASE t \in Workers
        BY <1>6, <2>1, <3>1 DEF LockOrder, WorkerRows, DeviceRow
      <3>2. CASE t \in Requests
        BY <1>6, <2>1, <3>2 DEF LockOrder, OwnRows
      <3> QED BY <3>1, <3>2 DEF Txs
    <2>3. phase[t] = "lock" /\ OwnRows(t)
      BY <1>6, <2>2 DEF Waits, WaitsFor, HasClaimed, LockOrder
    <2>4. \A row \in Outstanding(t) : ~Before(row, <<"point", m>>)
      BY <1>6, <2>3 DEF OwnRows, Outstanding, Needed, Holds, Exclusive
    <2>5. ~AtSession(t) /\ ~AtShare(t, q) /\ ~AtKey(t, q) /\ ~AtQueue(t) /\ t \notin Workers
      BY <2>2, <2>3, StoreAssumption DEF AtSession, AtShare, AtKey, AtQueue
    <2>6. ~AtDevice(t, q)
      BY <1>1, <2>4 DEF AtDevice
    <2>7. AtPoint(t, q)
      BY <1>6, <2>5, <2>6, KindsOfWaiting
    <2>8. PICK k \in Points : NextPoint(t, k)
      BY <2>5, <2>7 DEF AtPoint
    <2>9. ~(k < m)
      BY <1>2, <2>4, <2>8 DEF NextPoint, IsNext
    <2>10. k # m
      BY <1>6, <2>8 DEF NextPoint, IsNext, Outstanding, Holds, Exclusive
    <2>11. m < k
      BY <1>3, <2>9, <2>10
    <2> QED BY <2>8, <2>11
  <1> QED BY <1>4, <1>5, <1>6

-----------------------------------------------------------------------------
(***************************************************************************)
(* A deadlock: each waits for another of the set, and no part of the set   *)
(* waits only for itself.                                                  *)
(***************************************************************************)
Knot(S) ==
  /\ Cardinality(S) > 1
  /\ \A T \in (SUBSET S) \ {{}, S} : \E t \in T, q \in S \ T : Waits(t, q)

\* In a deadlock everyone waits for someone of it and is waited for by someone
\* of it: the two singletons the definition speaks of.
LEMMA KnotIsTied ==
  ASSUME NEW S \in SUBSET Txs, Knot(S), NEW t \in S
  PROVE  (\E q \in S : Waits(t, q)) /\ (\E q \in S : Waits(q, t))
  <1>1. S # {t}
    BY FS_Singleton DEF Knot
  <1>2. {t} \in (SUBSET S) \ {{}, S} /\ S \ {t} \in (SUBSET S) \ {{}, S}
    <2>1. {t} \in SUBSET S /\ {t} # {} /\ S \ {t} \in SUBSET S /\ t \notin S \ {t}
      OBVIOUS
    <2>2. S \ {t} # {}
      BY <1>1
    <2> QED BY <1>1, <2>1, <2>2
  <1>3. \E q \in S : Waits(t, q)
    <2>1. \E p \in {t}, q \in S \ {t} : Waits(p, q)
      BY <1>2 DEF Knot
    <2> QED BY <2>1
  <1>4. \E q \in S : Waits(q, t)
    <2>1. \E p \in S \ {t}, q \in S \ (S \ {t}) : Waits(p, q)
      BY <1>2 DEF Knot
    <2> QED BY <2>1
  <1> QED BY <1>3, <1>4

\* Nobody in a deadlock waits for a point: the holders would wait for ever
\* later points.
LEMMA NobodyAtPoint ==
  ASSUME Safe, Books, LockOrder, NEW S \in SUBSET Txs, Knot(S), NEW t \in S, NEW q \in S,
         Waits(t, q)
  PROVE  ~AtPoint(t, q)
  <1> SUFFICES ASSUME AtPoint(t, q) PROVE FALSE
    OBVIOUS
  <1>1. PICK m \in Points : /\ xlock[<<"point", m>>] = q
                            /\ NextPoint(t, m) \/ t \in Workers
    BY DEF AtPoint
  <1> DEFINE Later(s) == \E k \in Points : m < k /\ NextPoint(s, k)
             T == {s \in S : Later(s)}
  <1>2. \A s \in S : s \in Txs
    OBVIOUS
  <1>3. \A k, n, p \in Points : k < n /\ n < p => k < p
    BY StoreAssumption
  <1>4. Later(q)
    <2>1. \E p \in S : Waits(q, p)
      BY KnotIsTied
    <2> QED BY <1>1, <1>2, <2>1, PointsAreLast
  <1>5. ~Later(t)
    <2>1. CASE NextPoint(t, m)
      BY <1>2, <2>1, PointsAreLast
    <2>2. CASE t \in Workers
      BY <2>2, StoreAssumption DEF NextPoint
    <2> QED BY <1>1, <2>1, <2>2
  <1>6. T \in (SUBSET S) \ {{}, S}
    BY <1>4, <1>5
  <1>7. PICK s \in T, p \in S \ T : Waits(s, p)
    BY <1>6 DEF Knot
  <1>8. PICK k \in Points : m < k /\ NextPoint(s, k)
    BY <1>7
  <1>9. xlock[<<"point", k>>] = p
    BY <1>2, <1>7, <1>8, PointsAreLast
  <1>10. \E o \in S : Waits(p, o)
    BY <1>7, KnotIsTied
  <1>11. \E n \in Points : k < n /\ NextPoint(p, n)
    BY <1>2, <1>7, <1>9, <1>10, PointsAreLast
  <1>12. Later(p)
    BY <1>3, <1>8, <1>11
  <1> QED BY <1>7, <1>12

\* Who holds nothing is waited for only at a key.
LEMMA BareBlocksNobody ==
  ASSUME Safe, Books, NEW q \in Txs, NEW t \in Txs, Waits(q, t), Bare(t)
  PROVE  AtKey(q, t)
  <1>1. DatabaseTypes
    BY TypeParts DEF Safe
  <1>2. CASE q \notin Requests
    <2>1. \A a \in AssignmentsFor(q) : <<"point", assign[a].mp>> \in Rows
      BY <1>1 DEF AssignmentsFor, DatabaseTypes, AssignmentRow, Rows
    <2>2. msg[q].dev \in Devices => DeviceRow(q) \in Rows
      BY DEF DeviceRow, Rows
    <2> QED BY <1>2, <2>1, <2>2 DEF Waits, WorkerWaitsFor, Bare
  <1>3. CASE q \in Requests /\ phase[q] \in {"admit", "lock"}
    <2>1. AdmissionRows(cmd[q]) \subseteq Rows /\ WorkRows(cmd[q]) \subseteq Rows
      BY <1>3, RowsOfCommand DEF InTx
    <2>2. Outstanding(q) \subseteq Rows
      BY <2>1 DEF Outstanding, Needed
    <2> QED BY <1>3, <2>2 DEF Waits, WaitsFor, Bare
  <1> QED BY <1>2, <1>3 DEF Waits, WaitsFor, AtKey

\* A session is the first row of a request, the row of its device the first
\* of a worker: what waits for those holds nothing and is waited for by none.
LEMMA NobodyAtSession ==
  ASSUME Safe, Books, LockOrder, NEW S \in SUBSET Txs, Knot(S), NEW t \in S
  PROVE  ~AtSession(t) /\ ~AtQueue(t)
  <1> SUFFICES ASSUME AtSession(t) \/ AtQueue(t) PROVE FALSE
    OBVIOUS
  <1>1. PICK q \in S : Waits(q, t)
    BY KnotIsTied
  <1>2. Bare(t) /\ ~(t \in Requests /\ HasClaimed(t)) /\ t # NoTx
    <2>1. CASE AtSession(t)
      <3>1. phase[t] \in InTx /\ OwnRows(t) /\ ~HasClaimed(t) /\ t \in Requests
        BY <2>1 DEF AtSession, InTx, HasClaimed, LockOrder
      <3>2. ASSUME NEW row \in Rows PROVE xlock[row] # t /\ t \notin slock[row]
        BY <2>1, <3>1 DEF OwnRows, AtSession
      <3> QED BY <3>1, <3>2, StoreAssumption DEF Bare
    <2>2. CASE AtQueue(t)
      <3>1. WorkerRows(t) /\ t \in Workers /\ t \notin Requests
        BY <2>2, StoreAssumption DEF AtQueue, LockOrder
      <3> QED BY <2>2, <3>1, StoreAssumption DEF WorkerRows, Bare, AtQueue
    <2> QED BY <2>1, <2>2
  <1>3. q \in Txs /\ t \in Txs
    OBVIOUS
  <1> QED BY <1>1, <1>2, <1>3, BareBlocksNobody DEF AtKey

\* Telemetry is in no deadlock, and a lifecycle command in none: the one row
\* it locks is its last, and it is claimed for by commands of its own kind
\* only.
LEMMA KnotOfBindings ==
  ASSUME Safe, Books, LockOrder, NEW S \in SUBSET Txs, Knot(S), NEW t \in S
  PROVE  t \in Requests /\ cmd[t].action \in BindingActions
  <1>1. \A s \in S : s \in Txs /\ ~AtSession(s) /\ ~AtQueue(s)
    BY NobodyAtSession
  <1>2. ASSUME NEW s \in S, NEW q \in S, Waits(s, q)
        PROVE  AtShare(s, q) \/ AtKey(s, q) \/ AtDevice(s, q)
    BY <1>1, <1>2, KindsOfWaiting, NobodyAtPoint
  <1>3. S \subseteq Requests
    <2> SUFFICES ASSUME NEW s \in S PROVE s \in Requests
      OBVIOUS
    <2>1. PICK q \in S : Waits(s, q)
      BY KnotIsTied
    <2> QED BY <1>2, <2>1 DEF AtShare, AtKey, AtDevice
  <1>4. ASSUME NEW s \in S, NEW q \in S, Waits(q, s), cmd[s].action \notin BindingActions
        PROVE  HasClaimed(s)
    <2>1. s \in Requests /\ s \notin Workers
      BY <1>3, StoreAssumption
    <2> QED BY <1>1, <1>2, <1>4, <2>1, KindsOfHolding DEF AtKey
  <1>5. SUFFICES ASSUME cmd[t].action \notin BindingActions PROVE FALSE
    BY <1>3
  <1>6. PICK q \in S : Waits(q, t)
    BY KnotIsTied
  <1>7. PICK p \in S : Waits(t, p)
    BY KnotIsTied
  <1>8. t \in Requests /\ HasClaimed(t) /\ phase[t] = "lock" /\ OwnRows(t)
    BY <1>3, <1>4, <1>5, <1>6, <1>7 DEF Waits, WaitsFor, HasClaimed, LockOrder
  <1>9. AtDevice(t, p)
    BY <1>2, <1>7, <1>8 DEF AtShare, AtKey
  <1>10. \A d \in Devices : xlock[<<"device", d>>] # t /\ t \notin slock[<<"device", d>>]
    <2>1. cmd[t].action \in LifecycleActions
      <3>1. cmd[t] \in CommandType
        BY <1>8, RowsOfCommand DEF InTx
      <3> QED BY <1>5, <3>1 DEF CommandType, Actions
    <2>2. WorkRows(cmd[t]) = {<<"device", cmd[t].dev>>}
      BY <2>1 DEF WorkRows, DevicesOf, PointsOf, LifecycleActions
    <2>3. xlock[<<"device", cmd[t].dev>>] # t
      BY <1>8, <1>9, <2>2 DEF AtDevice, Outstanding, Needed, Holds, Exclusive
    <2>4. \A d \in Devices : <<"device", d>> \notin AdmissionRows(cmd[t])
      BY <1>5 DEF AdmissionRows
    <2>5. \A d \in Devices : <<"device", d>> \in Rows
      BY DEF Rows
    <2>6. \A d \in Devices : <<"device", d>> # <<"session", cmd[t].session>>
      OBVIOUS
    <2> QED BY <1>8, <2>2, <2>3, <2>4, <2>5, <2>6 DEF OwnRows
  <1>11. AtKey(q, t)
    BY <1>2, <1>6, <1>10 DEF AtShare, AtDevice
  <1>12. cmd[q].action = cmd[t].action /\ phase[q] = "claim"
    BY <1>11 DEF AtKey, Slot
  <1>13. HasClaimed(q)
    <2>1. PICK s \in S : Waits(s, q)
      BY KnotIsTied
    <2> QED BY <1>4, <1>5, <1>12, <2>1
  <1> QED BY <1>12, <1>13 DEF HasClaimed

\* Some request of a deadlock wants FOR UPDATE a device it already shares:
\* lockDevices after the FOR SHARE of revalidateAdminActor.
LEMMA KnotIsUpgrade ==
  ASSUME Safe, Books, LockOrder, NEW S \in SUBSET Txs, Knot(S)
  PROVE  \E t \in S : phase[t] = "lock" /\ \E row \in Outstanding(t) : t \in slock[row]
  <1>1. \A s \in S : /\ s \in Txs /\ ~AtSession(s) /\ ~AtQueue(s)
                     /\ s \in Requests /\ cmd[s].action \in BindingActions
    BY NobodyAtSession, KnotOfBindings
  <1>2. ASSUME NEW s \in S, NEW q \in S, Waits(s, q)
        PROVE  AtShare(s, q) \/ AtKey(s, q) \/ AtDevice(s, q)
    BY <1>1, <1>2, KindsOfWaiting, NobodyAtPoint
  <1>3. PICK t \in S : TRUE
    <2>1. Cardinality({}) = 0
      BY FS_EmptySet
    <2>2. Cardinality(S) > 1
      BY DEF Knot
    <2>3. S # {}
      BY <2>1, <2>2
    <2> QED BY <2>3
  <1>4. \E s \in S : HasClaimed(s)
    <2>1. PICK q \in S : Waits(t, q)
      BY KnotIsTied
    <2>2. q \notin Workers
      BY <1>1, StoreAssumption
    <2>3. CASE AtDevice(t, q)
      BY <2>3 DEF AtDevice, HasClaimed
    <2> QED BY <1>1, <1>2, <2>1, <2>2, <2>3, KindsOfHolding DEF AtKey
  <1>5. PICK s \in S : HasClaimed(s)
    BY <1>4
  <1>6. PICK q \in S : Waits(s, q)
    BY KnotIsTied
  <1>7. phase[s] = "lock"
    BY <1>1, <1>5, <1>6 DEF Waits, WaitsFor, HasClaimed
  <1>8. AtDevice(s, q)
    BY <1>2, <1>6, <1>7 DEF AtShare, AtKey
  <1>9. PICK d \in Devices : <<"device", d>> \in Outstanding(s)
    BY <1>8 DEF AtDevice
  <1>10. d \in DevicesOf(cmd[s])
    BY <1>7, <1>9 DEF Outstanding, Needed, WorkRows
  <1>11. HoldsAdmission(s)
    BY <1>1, <1>7 DEF Books, Sound, InTx
  <1>12. s \in slock[<<"device", d>>]
    BY <1>1, <1>10, <1>11 DEF HoldsAdmission
  <1> QED BY <1>7, <1>9, <1>12

\* Whatever requests and workers there are, a deadlock is one of binding
\* requests, which run retries, and in it some request waits to upgrade the
\* FOR SHARE lock of its admission (revalidateAdminActor, lockDevices,
\* LockMeasurementPointsForUpdate, findDeviceForUpdate).
THEOREM DeadlocksNeedUpgrades == Spec => []DeadlocksAreUpgrades
  <1>1. Safe /\ Books /\ LockOrder => DeadlocksAreUpgrades
    <2> SUFFICES ASSUME Safe, Books, LockOrder, NEW S \in SUBSET Txs, Knot(S)
                 PROVE  /\ \A t \in S : t \in Requests /\ cmd[t].action \in BindingActions
                        /\ \E t \in S : /\ phase[t] = "lock"
                                        /\ \E row \in Outstanding(t) : t \in slock[row]
      BY DEF DeadlocksAreUpgrades, Knot
    <2> QED BY KnotOfBindings, KnotIsUpgrade
  <1> QED BY <1>1, InitSafe, NextSafe, InitBooks, NextBooks, InitOrder, NextOrder, PTL DEF Spec
=============================================================================
