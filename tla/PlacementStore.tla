--------------------------- MODULE PlacementStore ---------------------------
(***************************************************************************)
(* The PostgreSQL rows that device placement is built on, and the row      *)
(* locks that serialise the transactions working on them.                  *)
(*                                                                         *)
(* Transactions run at READ COMMITTED: a statement sees what is committed  *)
(* when it starts, so the variables below are the COMMITTED rows; a        *)
(* transaction's own uncommitted writes are kept by the transaction and    *)
(* installed when it commits.                                              *)
(***************************************************************************)
EXTENDS Integers, FiniteSets

CONSTANTS
  Devices,    \* devices.id, natural numbers: they are locked in this order
  Points,     \* measurement_points.id, in PostgreSQL's uuid order
  Shops,      \* shops.id
  Clients,    \* clients.id, the tenants
  Users,      \* users.id
  Sessions,   \* refresh_sessions.id: one login of a user
  Requests,   \* admin requests; also the ids of the rows they insert
  Workers,    \* MQTT workers that ingest telemetry
  Seeds,      \* assignment rows left by earlier transactions
  PlacedAt,   \* their device and point
  ClientOf,   \* shops.client_id
  OwnerOf,    \* devices.inventory_owner_client_id
  UserOf,     \* refresh_sessions.user_id
  NewPoint,   \* the fresh uuid a request's planner draws for a point
  ShopAtStart,  \* shop_id of the points that exist at the start
  MaxTime,    \* bound of the database clock
  NoTx,       \* no transaction holds the row
  NoShop      \* the measurement point does not exist

NULL == -1                        \* SQL NULL in a timestamp column
Time == 0 .. MaxTime
AssignmentIds == Seeds \cup Requests
Txs == Requests \cup Workers

ASSUME StoreAssumption ==
  /\ Devices \subseteq Nat
  /\ Points \subseteq Nat
  /\ MaxTime \in Nat \ {0}
  /\ ClientOf \in [Shops -> Clients]
  /\ OwnerOf \in [Devices -> Clients]
  /\ UserOf \in [Sessions -> Users]
  /\ NewPoint \in [Requests -> Points]
  /\ \A r, q \in Requests : r # q => NewPoint[r] # NewPoint[q]
  /\ Seeds \cap Requests = {}
  /\ Workers \cap Requests = {}
  /\ NoTx \notin Txs
  /\ NoShop \notin Shops
  /\ ShopAtStart \in [Points -> Shops \cup {NoShop}]
  /\ \A r \in Requests : ShopAtStart[NewPoint[r]] = NoShop
  /\ PlacedAt \in [Seeds -> [dev : Devices, mp : Points]]
  /\ \A a \in Seeds :
        /\ ShopAtStart[PlacedAt[a].mp] # NoShop
        /\ ClientOf[ShopAtStart[PlacedAt[a].mp]] = OwnerOf[PlacedAt[a].dev]
  /\ \A a, b \in Seeds :
        a # b => /\ PlacedAt[a].dev # PlacedAt[b].dev
                 /\ PlacedAt[a].mp # PlacedAt[b].mp

VARIABLES
  clock,       \* clock_timestamp()
  lifecycle,   \* devices.lifecycle_status
  shopOf,      \* measurement_points.shop_id, NoShop if there is no such row
  settings,    \* measurement_point_alert_settings: "none", "off", "on"
  assign,      \* device_assignments, by id
  readings,    \* power_readings
  xlock,       \* row -> the transaction that holds it FOR UPDATE
  slock        \* row -> the transactions that hold it FOR SHARE

catalogVars == <<lifecycle, shopOf, settings>>
lockVars == <<xlock, slock>>

Lifecycles == {"ACTIVE", "DISABLED", "RETIRED"}

\* Quiet hours are on only for an enabled row with a start and an end.
Settings == {"none", "off", "on"}

\* valid_to is NULL while the assignment is current.
AssignmentRow ==
  [dev : Devices, mp : Points, from : Time, to : Time \cup {NULL}]

-----------------------------------------------------------------------------
(***************************************************************************)
(* Reads                                                                   *)
(***************************************************************************)
rows == DOMAIN assign

IsCurrent(a) == a \in rows /\ assign[a].to = NULL

\* FindActiveAssignmentByDevice and FindActiveAssignmentByMeasurementPoint
DeviceAssigned(d) == \E a \in rows : IsCurrent(a) /\ assign[a].dev = d
PointOccupied(m) == \E a \in rows : IsCurrent(a) /\ assign[a].mp = m

PointExists(m) == shopOf[m] # NoShop

\* The half-open interval [valid_from, valid_to) of an assignment row.
Covers(row, t) == row.from <= t /\ (row.to = NULL \/ t < row.to)

DisjointRows(x, y) ==
  \/ x.to # NULL /\ x.to <= y.from
  \/ y.to # NULL /\ y.to <= x.from

\* The exclusion constraints of device_assignments: two rows of a device, or
\* of a measurement point, may not overlap.
Excludes(x, y) == (x.dev = y.dev \/ x.mp = y.mp) => DisjointRows(x, y)

\* Faulty variant: a reading at the transition time itself is overlooked.
HasCommittedTelemetryConflict_Strict(a, t) ==
  /\ IsCurrent(a)
  /\ \E x \in readings : /\ x.dev = assign[a].dev /\ x.mp = assign[a].mp
                         /\ x.at > t

\* HasCommittedTelemetryConflict: a reading of the current assignment that
\* was recorded at or after the transition time.
HasCommittedTelemetryConflict(a, t) ==
  /\ IsCurrent(a)
  /\ \E x \in readings :
        /\ x.dev = assign[a].dev
        /\ x.mp = assign[a].mp
        /\ Covers(assign[a], x.at)
        /\ x.at >= t

-----------------------------------------------------------------------------
(***************************************************************************)
(* Row locks.  FOR UPDATE conflicts with every lock of another             *)
(* transaction, FOR SHARE only with FOR UPDATE; a transaction never        *)
(* conflicts with itself, so it may upgrade.                               *)
(***************************************************************************)
Rows ==
  ({"session"} \X Sessions) \cup ({"scope"} \X Users)
    \cup ({"device"} \X Devices) \cup ({"point"} \X Points)

FreeX(t, row) == xlock[row] \in {NoTx, t} /\ slock[row] \subseteq {t}
FreeS(t, row) == xlock[row] \in {NoTx, t}

LockX(t, row) ==
  /\ xlock' = [xlock EXCEPT ![row] = t]
  /\ UNCHANGED slock

LockS(t, row) ==
  /\ slock' = [slock EXCEPT ![row] = @ \cup {t}]
  /\ UNCHANGED xlock

\* COMMIT and ROLLBACK release everything the transaction holds.
ReleaseLocks(t) ==
  /\ xlock' = [row \in Rows |-> IF xlock[row] = t THEN NoTx ELSE xlock[row]]
  /\ slock' = [row \in Rows |-> slock[row] \ {t}]

-----------------------------------------------------------------------------
StoreTypeOK ==
  /\ clock \in Time
  /\ lifecycle \in [Devices -> Lifecycles]
  /\ shopOf \in [Points -> Shops \cup {NoShop}]
  /\ settings \in [Points -> Settings]
  /\ rows \subseteq AssignmentIds
  /\ assign \in [rows -> AssignmentRow]
  /\ xlock \in [Rows -> Txs \cup {NoTx}]
  /\ slock \in [Rows -> SUBSET Txs]

PlacementAtStart ==
  [a \in Seeds |-> [dev |-> PlacedAt[a].dev, mp |-> PlacedAt[a].mp,
                    from |-> 0, to |-> NULL]]

\* The database as earlier transactions left it: the seed assignments are
\* current since time 0, of devices in service and of the points' tenants.
StoreInit ==
  /\ clock = 1
  /\ lifecycle = [d \in Devices |-> "ACTIVE"]
  /\ shopOf = ShopAtStart
  /\ settings = [m \in Points |-> IF PointExists(m) THEN "off" ELSE "none"]
  /\ assign = PlacementAtStart
  /\ readings = {}
  /\ xlock = [row \in Rows |-> NoTx]
  /\ slock = [row \in Rows |-> {}]

\* The database clock; it never goes back.
Tick ==
  /\ clock < MaxTime
  /\ clock' = clock + 1
  /\ UNCHANGED <<catalogVars, assign, readings, lockVars>>

=============================================================================
