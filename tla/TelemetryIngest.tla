-------------------------- MODULE TelemetryIngest ---------------------------
(***************************************************************************)
(* Telemetry and status messages of the devices, as the MQTT workers of    *)
(* the backend store them.  A worker runs one message at a time:           *)
(*                                                                         *)
(*   idle -> queued -> locked -> acking -> idle                            *)
(*                                                                         *)
(*   queued   the receive time is sampled when the broker delivers the     *)
(*            message; the message then waits, for a worker and for the    *)
(*            row of its device                                            *)
(*   locked   the device row is held FOR UPDATE; everything else the       *)
(*            transaction reads about the device is stable from here on.   *)
(*            A reading with a measurement point still needs the row of    *)
(*            that point before it can commit                              *)
(*   acking   committed (or rolled back with an answer); the application   *)
(*            acknowledgement is still to be published                     *)
(***************************************************************************)
EXTENDS PlacementStore

CONSTANTS
  Messages,      \* what devices send; each may be delivered many times
  LegacyAlerts,  \* devices that still have a device_alert_settings row
  MaxInterval,   \* system_configs coverage.max_interval_ms
  QuietHours,    \* the alert settings administrators ask for
  QuietTimes,    \* the times inside the quiet hours of a point
  Idle           \* no message

\* kind    v1        protocol 1, identified by (device, boot counter, seq)
\*         coverage  v1 with a measured interval [at, end)
\*         legacy    protocol 0: no identity, no acknowledgement
\*         status    presence report; "high" is its online flag
\* at      the device's timestamp, NULL while its clock is not set
\* high    the power is above the threshold
MessageType ==
  [kind : {"v1", "coverage", "legacy", "status"}, dev : Nat, seq : Nat,
   at : Time \cup {NULL}, end : Time, body : Nat, high : BOOLEAN]

ASSUME IngestAssumption ==
  /\ Messages \subseteq MessageType
  /\ \A m \in Messages : m.kind = "coverage" => m.at # NULL /\ m.at < m.end
  /\ LegacyAlerts \subseteq Devices
  /\ MaxInterval \in Nat
  /\ QuietHours \subseteq {"off", "on"}
  /\ QuietTimes \subseteq Time
  /\ Idle \notin Messages

VARIABLES
  stage,     \* where each worker is
  msg,       \* its message
  recv,      \* the receive time it carries
  result,    \* the status its acknowledgement will carry
  keys,      \* telemetry_ingest_keys, by (device, sequence)
  online,    \* devices.is_online
  lastSeen,  \* devices.last_seen
  curfew,    \* measurement_point_curfew_states
  alerts,    \* alert_logs
  acks       \* acknowledgements the server has published

workerVars == <<stage, msg, recv, result>>
presenceVars == <<online, lastSeen>>
alertVars == <<curfew, alerts>>
ingestVars == <<workerVars, keys, presenceVars, alertVars, acks>>

Stages == {"idle", "queued", "locked", "acking"}
Statuses == {"none", "stored", "duplicate", "conflict", "unknown_device",
             "unknown_assignment", "lifecycle_blocked"}

IngestTypeOK ==
  /\ stage \in [Workers -> Stages]
  /\ msg \in [Workers -> Messages \cup {Idle}]
  /\ \A w \in Workers : stage[w] # "idle" => msg[w] \in Messages
  /\ recv \in [Workers -> Time]
  /\ result \in [Workers -> Statuses]
  /\ online \in [Devices -> BOOLEAN]
  /\ lastSeen \in [Devices -> Time \cup {NULL}]
  /\ curfew \in [Points -> [in : BOOLEAN, last : Time \cup {NULL}]]
  /\ acks \subseteq Messages \X Statuses

-----------------------------------------------------------------------------
DeviceRow(w) == <<"device", msg[w].dev>>

\* telemetryTimeAt, and the interval start of a coverage message.
RecordedAt(w) == IF msg[w].at = NULL THEN recv[w] ELSE msg[w].at

\* coverage.Digest; a message without coverage has none.
Digest(m) == IF m.kind = "coverage" THEN <<m.at, m.end, m.body>> ELSE <<>>

\* Interval.Validate with the configured maximum.
IntervalValid(m) == m.kind = "coverage" => m.end - m.at <= MaxInterval

\* findAssignmentAt; a coverage message needs one assignment for its interval.
AssignmentsFor(w) ==
  {a \in rows :
     /\ assign[a].dev = msg[w].dev
     /\ assign[a].from <= RecordedAt(w)
     /\ \/ assign[a].to = NULL
        \/ IF msg[w].kind = "coverage" THEN msg[w].end <= assign[a].to
           ELSE RecordedAt(w) < assign[a].to}

KeyOf(m) == <<m.dev, m.seq>>

\* Faulty variant: the claim is not looked at.
Claimed_Never(m) == FALSE

Claimed(m) == KeyOf(m) \in DOMAIN keys

\* Faulty variant: an older receive time overwrites a newer one.
MarkSeen_Always(d, t) ==
  /\ online' = [online EXCEPT ![d] = TRUE]
  /\ lastSeen' = [lastSeen EXCEPT ![d] = t]

\* markDeviceSeen
MarkSeen(d, t) ==
  /\ online' = [online EXCEPT ![d] = TRUE]
  /\ lastSeen' = [lastSeen EXCEPT ![d] = IF @ = NULL \/ @ < t THEN t ELSE @]

\* Faulty variants: events are taken in any order; the first event of a point
\* sets its state without an alert.
CheckAlerts_AnyOrder(m, w) ==
  LET t == RecordedAt(w)
      active == t \in QuietTimes /\ msg[w].high
  IN /\ curfew' = IF settings[m] = "on"
                  THEN [curfew EXCEPT ![m] =
                          [in |-> active, last |-> IF @.last < t THEN t ELSE @.last]]
                  ELSE curfew
     /\ alerts' = IF settings[m] = "on" /\ active /\ ~curfew[m].in
                  THEN alerts \cup {[mp |-> m, dev |-> msg[w].dev, at |-> t]}
                  ELSE alerts
CheckAlerts_NotFirst(m, w) ==
  LET t == RecordedAt(w)
      active == t \in QuietTimes /\ msg[w].high
      fresh == settings[m] = "on" /\ (curfew[m].last = NULL \/ curfew[m].last < t)
  IN /\ curfew' = IF fresh
                  THEN [curfew EXCEPT ![m] = [in |-> active, last |-> t]]
                  ELSE curfew
     /\ alerts' = IF fresh /\ active /\ ~curfew[m].in /\ curfew[m].last # NULL
                  THEN alerts \cup {[mp |-> m, dev |-> msg[w].dev, at |-> t]}
                  ELSE alerts

\* checkTelemetryAlerts: with quiet hours on, an event later than the last
\* one sets the state of the point, and a rising edge is an alert.
CheckAlerts(m, w) ==
  LET t == RecordedAt(w)
      active == t \in QuietTimes /\ msg[w].high
      fresh == settings[m] = "on" /\ (curfew[m].last = NULL \/ curfew[m].last < t)
  IN /\ curfew' = IF fresh
                  THEN [curfew EXCEPT ![m] = [in |-> active, last |-> t]]
                  ELSE curfew
     /\ alerts' = IF fresh /\ active /\ ~curfew[m].in
                  THEN alerts \cup {[mp |-> m, dev |-> msg[w].dev, at |-> t]}
                  ELSE alerts

Reading(w, m) ==
  [dev |-> msg[w].dev, mp |-> m, at |-> RecordedAt(w), recv |-> recv[w],
   msg |-> msg[w]]

-----------------------------------------------------------------------------
(***************************************************************************)
(* Steps of a worker                                                       *)
(***************************************************************************)
KeepRows == UNCHANGED <<clock, catalogVars, assign>>

\* The transaction ends: its locks go and the worker is to send `status`.
Answer(w, status) ==
  /\ stage' = [stage EXCEPT ![w] = "acking"]
  /\ result' = [result EXCEPT ![w] = status]
  /\ ReleaseLocks(w)
  /\ UNCHANGED <<msg, recv, acks>>

\* The transaction ends and nothing is sent.
GoIdle(w) ==
  /\ stage' = [stage EXCEPT ![w] = "idle"]
  /\ msg' = [msg EXCEPT ![w] = Idle]
  /\ recv' = [recv EXCEPT ![w] = 0]
  /\ result' = [result EXCEPT ![w] = "none"]
  /\ ReleaseLocks(w)

Drop(w) ==
  /\ GoIdle(w)
  /\ UNCHANGED <<readings, keys, presenceVars, alertVars, acks>>
  /\ KeepRows

\* handleMessage: QoS 1 may deliver a message again at any time.
Receive(w, m) ==
  /\ stage[w] = "idle"
  /\ stage' = [stage EXCEPT ![w] = "queued"]
  /\ msg' = [msg EXCEPT ![w] = m]
  /\ recv' = [recv EXCEPT ![w] = clock]
  /\ UNCHANGED <<result, readings, keys, presenceVars, alertVars, acks, lockVars>>
  /\ KeepRows

\* findDeviceForUpdate finds no such device.
UnknownDevice(w) ==
  /\ stage[w] = "queued"
  /\ msg[w].dev \notin Devices
  /\ \/ /\ msg[w].kind \in {"v1", "coverage"}
        /\ Answer(w, "unknown_device")
        /\ UNCHANGED <<readings, keys, presenceVars, alertVars>>
        /\ KeepRows
     \/ /\ msg[w].kind \in {"legacy", "status"}
        /\ Drop(w)

LockDevice(w) ==
  /\ stage[w] = "queued"
  /\ msg[w].kind # "status"
  /\ msg[w].dev \in Devices
  /\ FreeX(w, DeviceRow(w))
  /\ LockX(w, DeviceRow(w))
  /\ stage' = [stage EXCEPT ![w] = "locked"]
  /\ UNCHANGED <<msg, recv, result, readings, keys, presenceVars, alertVars, acks>>
  /\ KeepRows

InService(w) == lifecycle[msg[w].dev] = "ACTIVE"

\* A device that is not in service claims no key and marks no presence.
LifecycleBlocked(w) ==
  /\ stage[w] = "locked"
  /\ ~InService(w)
  /\ \/ /\ msg[w].kind # "legacy"
        /\ Answer(w, "lifecycle_blocked")
        /\ UNCHANGED <<readings, keys, presenceVars, alertVars>>
        /\ KeepRows
     \/ /\ msg[w].kind = "legacy"
        /\ Drop(w)

\* The interval is longer than the configured maximum: an error, no answer.
IntervalRefused(w) ==
  /\ stage[w] = "locked"
  /\ InService(w)
  /\ ~IntervalValid(msg[w])
  /\ Drop(w)

\* The identity is already claimed.  A coverage message must also have the
\* digest of the claim; a mismatch marks the claim for good.
Duplicate(w) ==
  LET m == msg[w] key == keys[KeyOf(m)] IN
  /\ stage[w] = "locked"
  /\ m.kind # "legacy"
  /\ InService(w) /\ IntervalValid(m) /\ Claimed(m)
  /\ IF m.kind = "v1" \/ (~key.conflict /\ key.digest = Digest(m))
     THEN Answer(w, "duplicate") /\ UNCHANGED keys
     ELSE /\ Answer(w, "conflict")
          /\ keys' = [keys EXCEPT ![KeyOf(m)].conflict = TRUE]
  /\ MarkSeen(m.dev, recv[w])
  /\ UNCHANGED <<readings, alertVars>>
  /\ KeepRows

\* Faulty variant: the claim is committed although nothing is stored.
UnknownAssignment_KeepsKey(w) ==
  LET m == msg[w] IN
  /\ stage[w] = "locked"
  /\ m.kind # "legacy"
  /\ InService(w) /\ IntervalValid(m) /\ ~Claimed(m)
  /\ AssignmentsFor(w) = {}
  /\ keys' = [k \in DOMAIN keys \cup {KeyOf(m)} |->
                IF k = KeyOf(m) THEN [digest |-> Digest(m), conflict |-> FALSE]
                ELSE keys[k]]
  /\ Answer(w, "unknown_assignment")
  /\ UNCHANGED <<readings, presenceVars, alertVars>>
  /\ KeepRows

\* No assignment covers the message: the key is rolled back with the rest,
\* so a later delivery may still be stored.
UnknownAssignment(w) ==
  /\ stage[w] = "locked"
  /\ msg[w].kind # "legacy"
  /\ InService(w) /\ IntervalValid(msg[w]) /\ ~Claimed(msg[w])
  /\ AssignmentsFor(w) = {}
  /\ Answer(w, "unknown_assignment")
  /\ UNCHANGED <<readings, keys, presenceVars, alertVars>>
  /\ KeepRows

\* The reading is stored under the point of its assignment; the point row is
\* locked for the alert state, so the commit waits for it.
StoreReading(w) ==
  \E a \in AssignmentsFor(w) :
     /\ FreeX(w, <<"point", assign[a].mp>>)
     /\ readings' = readings \cup {Reading(w, assign[a].mp)}
     /\ CheckAlerts(assign[a].mp, w)

\* findAssignmentAt finds two rows: an error, nothing is stored or sent.
Ambiguous(w) == Cardinality(AssignmentsFor(w)) > 1

\* The first delivery of an identity claims it.
Store(w) ==
  LET m == msg[w] IN
  /\ stage[w] = "locked"
  /\ m.kind # "legacy"
  /\ InService(w) /\ IntervalValid(m) /\ ~Claimed(m)
  /\ AssignmentsFor(w) # {}
  /\ IF Ambiguous(w) THEN Drop(w)
     ELSE /\ StoreReading(w)
          /\ keys' = [k \in DOMAIN keys \cup {KeyOf(m)} |->
                        IF k = KeyOf(m)
                        THEN [digest |-> Digest(m), conflict |-> FALSE]
                        ELSE keys[k]]
          /\ MarkSeen(m.dev, recv[w])
          /\ Answer(w, "stored")
          /\ KeepRows

\* storeLegacyTelemetry: no identity, so every delivery is stored, with a
\* point if an assignment covers it; without one only if the device has no
\* alert setting of its own.
StoreLegacy(w) ==
  /\ stage[w] = "locked"
  /\ msg[w].kind = "legacy"
  /\ InService(w)
  /\ IF \/ Ambiguous(w)
        \/ AssignmentsFor(w) = {} /\ msg[w].dev \in LegacyAlerts
     THEN Drop(w)
     ELSE /\ IF AssignmentsFor(w) = {}
             THEN /\ readings' = readings \cup {Reading(w, NULL)}
                  /\ UNCHANGED alertVars
             ELSE StoreReading(w)
          /\ MarkSeen(msg[w].dev, recv[w])
          /\ GoIdle(w)
          /\ UNCHANGED <<keys, acks>>
          /\ KeepRows

\* Faulty variant: the lifecycle is not part of the condition.
ProcessStatus_AnyLifecycle(w) ==
  LET d == msg[w].dev IN
  /\ stage[w] = "queued"
  /\ msg[w].kind = "status"
  /\ d \in Devices
  /\ FreeX(w, DeviceRow(w))
  /\ online' = [online EXCEPT ![d] = msg[w].high]
  /\ lastSeen' = [lastSeen EXCEPT ![d] = recv[w]]
  /\ GoIdle(w)
  /\ UNCHANGED <<readings, keys, alertVars, acks>>
  /\ KeepRows

\* processStatus is one UPDATE: it waits for the row, then its condition is
\* evaluated on the row as it is.
ProcessStatus(w) ==
  LET d == msg[w].dev IN
  /\ stage[w] = "queued"
  /\ msg[w].kind = "status"
  /\ d \in Devices
  /\ FreeX(w, DeviceRow(w))
  /\ IF lifecycle[d] = "ACTIVE" /\ (lastSeen[d] = NULL \/ lastSeen[d] < recv[w])
     THEN /\ online' = [online EXCEPT ![d] = msg[w].high]
          /\ lastSeen' = [lastSeen EXCEPT ![d] = recv[w]]
     ELSE UNCHANGED presenceVars
  /\ GoIdle(w)
  /\ UNCHANGED <<readings, keys, alertVars, acks>>
  /\ KeepRows

\* publishIngestResult
Publish(w) ==
  /\ stage[w] = "acking"
  /\ acks' = acks \cup {<<msg[w], result[w]>>}
  /\ GoIdle(w)
  /\ UNCHANGED <<readings, keys, presenceVars, alertVars>>
  /\ KeepRows

\* The database fails, the server dies, or the acknowledgement is lost.
WorkerFails(w) ==
  /\ stage[w] # "idle"
  /\ Drop(w)

\* SetMeasurementPointAlertSettings: the point row is locked, the settings
\* row is replaced and the curfew state forgets that it is in curfew.
SetAlertSettings(m, value) ==
  /\ PointExists(m)
  /\ FreeX(NoTx, <<"point", m>>)
  /\ settings' = [settings EXCEPT ![m] = value]
  /\ curfew' = [curfew EXCEPT ![m].in = FALSE]
  /\ UNCHANGED <<clock, lifecycle, shopOf, assign, readings, lockVars, workerVars,
                 keys, presenceVars, alerts, acks>>

-----------------------------------------------------------------------------
IngestInit ==
  /\ stage = [w \in Workers |-> "idle"]
  /\ msg = [w \in Workers |-> Idle]
  /\ recv = [w \in Workers |-> 0]
  /\ result = [w \in Workers |-> "none"]
  /\ keys = [k \in {} |-> {}]
  /\ online = [d \in Devices |-> FALSE]
  /\ lastSeen = [d \in Devices |-> NULL]
  /\ curfew = [m \in Points |-> [in |-> FALSE, last |-> NULL]]
  /\ alerts = {}
  /\ acks = {}

Process(w) ==
  \/ UnknownDevice(w)
  \/ LockDevice(w)
  \/ LifecycleBlocked(w)
  \/ IntervalRefused(w)
  \/ Duplicate(w)
  \/ UnknownAssignment(w)
  \/ Store(w)
  \/ StoreLegacy(w)
  \/ ProcessStatus(w)
  \/ Publish(w)

=============================================================================
