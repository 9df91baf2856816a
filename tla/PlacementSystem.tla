-------------------------- MODULE PlacementSystem ---------------------------
(***************************************************************************)
(* Device placement as a whole: administrative transactions and telemetry  *)
(* workers over the same rows and row locks, with the clock running.       *)
(***************************************************************************)
EXTENDS AdminOperations, TelemetryIngest

adminVars == <<requestVars, ledgerVars, authorityVars>>
storeVars == <<clock, catalogVars, assign, readings, lockVars>>
vars == <<storeVars, adminVars, ingestVars>>

TypeOK ==
  /\ StoreTypeOK
  /\ AdminTypeOK
  /\ IngestTypeOK

Init == StoreInit /\ AdminInit /\ IngestInit

Pass == Tick /\ UNCHANGED <<adminVars, ingestVars>>

\* A shop administrator changes the quiet hours of a point.  Membership is
\* read in the same statement that locks the point, and is not locked.
ChangeAlertSettings(u, m, value) ==
  /\ shopOf[m] \in scope[u]
  /\ SetAlertSettings(m, value)
  /\ UNCHANGED adminVars

WorkRequest(r) == Work(r) /\ UNCHANGED ingestVars
ProcessMessage(w) == Process(w) /\ UNCHANGED adminVars

Next ==
  \/ Pass
  \/ \E r \in Requests : WorkRequest(r)
  \/ \E r \in Requests : Abort(r) /\ UNCHANGED ingestVars
  \/ \E r \in Requests, c \in Commands : Submit(r, c) /\ UNCHANGED ingestVars
  \/ \E s \in Sessions :
        (RevokeSession(s) \/ ExpireSession(s)) /\ UNCHANGED ingestVars
  \/ \E u \in Users, shop \in Shops : RevokeScope(u, shop) /\ UNCHANGED ingestVars
  \/ \E w \in Workers : ProcessMessage(w)
  \/ \E w \in Workers : WorkerFails(w) /\ UNCHANGED adminVars
  \/ \E w \in Workers, m \in Messages : Receive(w, m) /\ UNCHANGED adminVars
  \/ \E u \in Users, m \in Points, value \in QuietHours :
        ChangeAlertSettings(u, m, value)

Spec == Init /\ [][Next]_vars

\* PostgreSQL grants a lock that stays free and aborts a deadlock; the Go
\* scheduler runs every request and every worker.
Fairness ==
  /\ \A r \in Requests : SF_vars(WorkRequest(r))
  /\ \A w \in Workers : SF_vars(ProcessMessage(w))

FairSpec == Spec /\ Fairness

-----------------------------------------------------------------------------
(***************************************************************************)
(* Placement                                                               *)
(***************************************************************************)

\* The planner's checks, repeated under the row locks, already keep the
\* assignment intervals of a device and of a point disjoint: an INSERT or
\* UPDATE of the executor never meets the exclusion constraints, so no
\* request fails with overlapping_assignment.
LocksPreventOverlap ==
  \A r \in Requests : phase[r] = "applied" => ConstraintsHold(Written(r))

\* No two assignments of a device, or of a point, overlap, and none starts
\* or ends in the future: whatever time one asks about up to now, a device
\* is at one point at most.
NoOverlap ==
  /\ ConstraintsHold(assign)
  /\ \A a \in rows : assign[a].from <= clock /\ assign[a].to <= clock

\* Disable and retire refuse an assigned device and bind and replace refuse
\* a device out of service, each in a transaction of its own; together they
\* never leave a device both assigned and out of service.
AssignedDeviceInService ==
  \A a \in rows : IsCurrent(a) => lifecycle[assign[a].dev] = "ACTIVE"

\* Assignment history is append-only: no row goes away, a closed row never
\* changes, and an open one only by being closed after its start.
HistoryIsAppendOnly ==
  [][\A a \in rows :
       /\ a \in DOMAIN assign'
       /\ \/ assign'[a] = assign[a]
          \/ /\ assign[a].to = NULL
             /\ assign[a].from < assign'[a].to
             /\ assign'[a] = [assign[a] EXCEPT !.to = assign'[a].to]]_vars

\* RETIRED is final, also for an enable that was planned before it.
RetiredIsFinal ==
  [][\A d \in Devices : lifecycle[d] = "RETIRED" => lifecycle'[d] = "RETIRED"]_vars

\* Placement implements the registry: however transactions interleave, wait,
\* deadlock, retry or fail, what commits is one legal registry operation at a
\* time, applied to the committed state as it is at that moment.
Registry ==
  INSTANCE PlacementRegistry WITH
    Ids <- AssignmentIds, StartPlace <- PlacementAtStart,
    now <- clock, place <- assign, service <- lifecycle

ImplementsRegistry == Registry!Spec

-----------------------------------------------------------------------------
(***************************************************************************)
(* The ledger, the audit history and authority                             *)
(***************************************************************************)

\* The audit history explains the assignment table: every row that is not
\* older than the history was opened by exactly one audited operation, and
\* every closed one was closed by exactly one, at the times they record.
AuditExplainsAssignments ==
  /\ \A a \in rows \ Seeds :
        \E x \in audit : /\ x.new = {a} /\ x.at = assign[a].from
                         /\ \A y \in audit : y.new = {a} => y = x
  /\ \A a \in rows : assign[a].to # NULL =>
        \E x \in audit : /\ x.old = {a} /\ x.at = assign[a].to
                         /\ \A y \in audit : y.old = {a} => y = x

\* An idempotency key runs a command once: a caller is told about one
\* operation, the operation it is told about ran the same command under the
\* same key, and no other operation ran under that key.
KeyRunsOnce ==
  \A r \in Requests : outcome[r] \in {"ok", "replayed"} =>
     \E q \in Requests :
        /\ response[r] = {q}
        /\ outcome[q] = "ok"
        /\ Slot(cmd[q]) = Slot(cmd[r]) /\ Hash(cmd[q]) = Hash(cmd[r])
        /\ \A p \in Requests \ {q} :
              outcome[p] = "ok" => Slot(cmd[p]) # Slot(cmd[q])

\* A retry of a committed command is answered from the ledger, never with a
\* domain refusal because of what the first execution changed, although the
\* plan is checked by later statements than the ledger is.
CommittedKeyIsNeverRefused ==
  [][\A r \in Requests :
       outcome'[r] = "refused" /\ outcome[r] = "none" =>
          ~(Committed(cmd[r]) /\ ledger[Slot(cmd[r])].hash = Hash(cmd[r]))]_vars

\* Once a request has been admitted, its session is not revoked and its shop
\* grants are not withdrawn until it ends.  (The session may expire.)
AuthorityHeldUntilCommit ==
  \A r \in Requests : phase[r] \in InTx \ {"admit"} =>
     /\ session[cmd[r].session] # "revoked"
     /\ Authorized(cmd[r])

-----------------------------------------------------------------------------
(***************************************************************************)
(* Locking                                                                 *)
(***************************************************************************)

\* A worker waits for q.
WorkerWaitsFor(w, q) ==
  /\ q # w
  /\ \/ /\ stage[w] = "queued"
        /\ msg[w].dev \in Devices
        /\ xlock[DeviceRow(w)] = q \/ q \in slock[DeviceRow(w)]
     \/ /\ stage[w] = "locked"
        /\ \E a \in AssignmentsFor(w) : xlock[<<"point", assign[a].mp>>] = q

Waits(t, q) == IF t \in Requests THEN WaitsFor(t, q) ELSE WorkerWaitsFor(t, q)

\* Rows are locked in one order by everyone, except that a binding request
\* upgrades the share locks of its admission: in every deadlock some request
\* is waiting for a device row that it already holds FOR SHARE.  Telemetry
\* and lifecycle commands, which nobody retries, are in none.
DeadlocksAreUpgrades ==
  \A S \in SUBSET Txs :
     (/\ Cardinality(S) > 1
      /\ \A T \in (SUBSET S) \ {{}, S} : \E t \in T, q \in S \ T : Waits(t, q))
     => /\ \A t \in S : t \in Requests /\ cmd[t].action \in BindingActions
        /\ \E t \in S : /\ phase[t] = "lock"
                         /\ \E row \in Outstanding(t) : t \in slock[row]

\* The executor's public methods "own a bounded whole-transaction retry": a
\* binding request gives up on a deadlock only after its last attempt.
WholeTransactionIsRetried ==
  \A r \in Requests :
     outcome[r] = "deadlock" => attempt[r] = MaxAttempts

\* Every submitted request is answered: lock waits end and the retries of a
\* deadlock victim are bounded.
RequestsEnd == \A r \in Requests : phase[r] = "admit" ~> phase[r] = "done"

-----------------------------------------------------------------------------
(***************************************************************************)
(* Telemetry                                                               *)
(***************************************************************************)

\* A reading filed under a point was recorded while its device was assigned
\* to that point, also after the assignment has been closed: transitions
\* never cut off a reading that is already committed.
ReadingsInsideAssignment ==
  \A x \in readings : x.mp # NULL =>
     \E a \in rows : /\ assign[a].dev = x.dev /\ assign[a].mp = x.mp
                     /\ Covers(assign[a], x.at)
                     /\ \A b \in rows : assign[b].dev = x.dev /\ Covers(assign[b], x.at)
                                         => b = a

\* A coverage reading is filed under one assignment for its whole interval:
\* ingest refuses an interval that straddles the end of an assignment, and
\* a transition would have to refuse to cut one that is stored.
IntervalsInsideAssignment ==
  \A x \in readings : x.mp # NULL /\ x.msg.kind = "coverage" =>
     \E a \in rows : /\ assign[a].dev = x.dev /\ assign[a].mp = x.mp
                     /\ assign[a].from <= x.at
                     /\ assign[a].to = NULL \/ x.msg.end <= assign[a].to

\* A telemetry identity is stored at most once, whatever the redeliveries.
StoredOnce ==
  \A x, y \in readings :
     (/\ x.msg.kind # "legacy" /\ y.msg.kind # "legacy"
      /\ KeyOf(x.msg) = KeyOf(y.msg)) => x = y

\* A device may discard a message that was answered "stored" or "duplicate":
\* its identity has a reading, and for a coverage message that reading is of
\* the same interval and energy.
AcksAreTrue ==
  \A ack \in acks : ack[2] \in {"stored", "duplicate"} =>
     \E x \in readings :
        /\ x.msg.kind # "legacy"
        /\ KeyOf(x.msg) = KeyOf(ack[1])
        /\ ack[1].kind = "coverage" => Digest(x.msg) = Digest(ack[1])

\* A device out of service is silent: no reading, presence change or alert
\* of it commits, also when its message was received while it was in service.
BlockedDeviceIsSilent ==
  [][\A d \in Devices : lifecycle[d] # "ACTIVE" =>
       /\ online'[d] = online[d] /\ lastSeen'[d] = lastSeen[d]
       /\ \A x \in readings' \ readings : x.dev # d
       /\ \A x \in alerts' \ alerts : x.dev # d]_vars

\* last_seen never goes back, however messages overtake each other.
LastSeenAdvances ==
  \A d \in Devices : lastSeen[d] <= lastSeen'[d]

\* Alerts of a point are raised in the order of their events, one per event,
\* across replacement of its device, redelivery and changes of the settings.
AlertsAdvance ==
  \A x \in alerts' \ alerts : \A y \in alerts : y.mp = x.mp => y.at < x.at

\* A point is in curfew only by an event that raised an alert.
CurfewHasAlert ==
  \A m \in Points : curfew[m].in =>
     \E x \in alerts : x.mp = m /\ x.at <= curfew[m].last

\* Every delivered message is worked off.
MessagesEnd == \A w \in Workers : stage[w] = "queued" ~> stage[w] = "idle"

\* Key and history agree with the assignment table, whatever fails in between.
LedgerIsFaithful == AuditExplainsAssignments /\ KeyRunsOnce

\* What telemetry leaves behind is true: readings lie in their assignments and
\* are stored once, acknowledged ones exist, and a curfew has its alert.
TelemetryIsTrue ==
  ReadingsInsideAssignment /\ StoredOnce /\ AcksAreTrue /\ CurfewHasAlert

\* No message that is overtaken takes presence or alerts back.
NothingGoesBack == [][LastSeenAdvances /\ AlertsAdvance]_vars

\* Requests and messages end, beside and behind each other.
EverythingEnds == RequestsEnd /\ MessagesEnd
=============================================================================
