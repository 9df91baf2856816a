----------------------------- MODULE MCProgress -----------------------------
(***************************************************************************)
(* What must come to an end, one part of the system at a time: operators   *)
(* behind the writer fence, a stop of the MQTT service, a device and its   *)
(* shutdown, a controlled installation, calls of the D4 service and calls  *)
(* on the D1-L ledger.  The parts that are not looked at stand still.       *)
(***************************************************************************)
EXTENDS Naturals, Sequences

VARIABLES
    part,
    queue, shared, owner, alive, conn, pid, fstate,
    db, pending, mlock, op, saw, started, faults,
    uplink, session, gate, restoring, routed, work, busy, inFlight, drain,
    stored, refused, acks, losses,
    mode, life, links, wills, retained, pub, restore, items, completed,
    authorized, deferred, waiter, inbox, call, next, cancelled, stop,
    request, auth, intent, epoch, lock, pinned, mine, serving, sent, answered,
    resolved, secrets, made, lost,
    catalog, target, sess, tx, run, frame, ctl, installed,
    row, trigger, fence, d1lease, mapped, x, tx1, errors, foreign,
    led, jour, worker, refusals, crashes, invoked, resumed, doubtful, offer, answer,
    now, prov, lease, boundaries, lockP, lockL, inCall, told, calls, leaseFaults

V5 == [meta |-> [version |-> 5, dirty |-> FALSE, row |-> TRUE],
       bodies |-> 1..5, unresolved |-> FALSE, found |-> {}]

Schema == INSTANCE SchemaMigrations WITH
    Writers <- {"w1"}, Operators <- {"o1", "o2"}, Backends <- {"b1", "b2"},
    NoBackend <- "none", Commands <- {"d5", "down"}, InitialDBs <- {V5},
    MaxCommands <- 2, MaxFaults <- 1

Device == INSTANCE DeviceDelivery WITH
    MaxSeq <- 1, Workers <- {"w1"}, QueueSize <- 1, MaxUplink <- 1, MaxLosses <- 1,
    Modes <- {"duplicate", "offline-replay"}, QueueCapacity <- 1, MaxClients <- 1

Install == INSTANCE CatalogInstall WITH
    Processes <- {"p1"}, Requests <- {"r1"}, Attempts <- {"t1"}, Consumes <- {"c1"},
    NoProcess <- "none", NoAttempt <- "none", NoConsume <- "none", NoRun <- "none",
    MaxEpochs <- 2, MaxCalls <- 1, MaxFaults <- 2,
    session <- pinned, op <- serving, calls <- sent, answer <- answered,
    faults <- lost, fence <- target

D4 == INSTANCE D4Ledger WITH
    Calls <- {"c1", "c2"}, None <- "none", MaxFaults <- 1, MaxForeign <- 0,
    MappingSeam <- TRUE, MaxAcks <- 0, MaxCrashes <- 0,
    faults <- errors, call <- worker, acks <- refusals

Lease == INSTANCE D1LLease WITH
    Callers <- {"p1", "p2"}, Attempts <- {"a1"}, Operation <- [a \in {"a1"} |-> "op"],
    NoCaller <- "none", Lifetime <- 1, MaxTime <- 0, MaxCalls <- 3,
    MaxBoundaries <- 1, MaxLeaseFaults <- 1

schema == <<queue, shared, owner, alive, conn, pid, fstate,
            db, pending, mlock, op, saw, started, faults>>
service == <<uplink, session, gate, restoring, routed, work, busy, inFlight, drain,
             stored, refused, acks, losses>>
simulator == <<mode, life, links, wills, retained, pub, restore, items, completed,
               authorized, deferred, waiter, inbox, call, next, cancelled, stop>>
device == <<service, simulator>>
install == <<request, auth, intent, epoch, lock, pinned, mine, serving, sent, answered,
             resolved, secrets, made, lost, catalog, target, sess, tx, run, frame, ctl, installed>>
d4 == <<row, trigger, fence, d1lease, mapped, x, tx1, errors, foreign,
        led, jour, worker, refusals, crashes, invoked, resumed, doubtful, offer, answer>>
leases == <<now, prov, lease, boundaries, lockP, lockL, inCall, told, calls, leaseFaults>>

PartsInit ==
    /\ part \in {"migration", "service", "device", "install", "d4", "lease"}
    /\ Schema!Init /\ Device!IngressInit /\ Device!Device /\ Install!InstallInit
    /\ D4!Init /\ Lease!LeaseInit
    /\ part # "service" => ~gate.blocked /\ ~gate.smokeOnly
    /\ part # "device" => mode = "duplicate"
    /\ part # "install" => catalog = "V5_BASE"
    /\ part # "d4" => mapped /\ row = D4!Blank

Parts ==
    \/ /\ part = "migration" /\ Schema!Next
       /\ UNCHANGED <<device, install, d4, leases>>
    \/ /\ part = "service" /\ Device!IngressNext /\ losses' = 0
       /\ \A i \in DOMAIN uplink' : uplink'[i].topic = "status"  \* no growing set of ACKs
       /\ UNCHANGED <<schema, simulator, install, d4, leases>>
    \/ /\ part = "device" /\ Device!Next
       /\ UNCHANGED <<schema, install, d4, leases>>
    \/ /\ part = "install" /\ Install!InstallNext
       /\ UNCHANGED <<schema, device, d4, leases>>
    \/ /\ part = "d4" /\ D4!Next
       /\ UNCHANGED <<schema, device, install, leases>>
    \/ /\ part = "lease" /\ Lease!LeaseNext
       /\ UNCHANGED <<schema, device, install, d4>>

\* A started command is driven on, the lock manager grants, the server notices
\* closed connections, and business transactions end.
MigrationRuns ==
    /\ \A o \in {"o1", "o2"} :
        WF_schema(part = "migration" /\ Schema!Step(o) /\ op[o].pc # "idle")
    /\ \A s \in {"w1", "b1", "b2"} :
        WF_schema(part = "migration" /\ \E i \in DOMAIN queue : queue[i] = s /\ Schema!LockManager(i))
    /\ \A b \in {"b1", "b2"} : WF_schema(part = "migration" /\ Schema!OrphanEnds(b))
    /\ WF_schema(part = "migration" /\ "w1" \in shared /\ Schema!WriterStep("w1"))

\* Goroutines of the service run, and a stop runs to its wait.
ServiceRuns ==
    /\ WF_service(part = "service" /\ Device!Admit) /\ WF_service(part = "service" /\ Device!Offer)
    /\ WF_service(part = "service" /\ Device!Take("w1"))
    /\ WF_service(part = "service" /\ Device!Process("w1"))
    /\ WF_service(part = "service" /\ Device!Done("w1"))
    /\ WF_service(part = "service" /\ Device!Disconnect)
    /\ WF_service(part = "service" /\ Device!Drained)

\* Goroutines and callbacks of the device run, the broker delivers, timers fire.
DeviceRuns ==
    /\ WF_device(part = "device" /\ Device!Goroutine) /\ WF_device(part = "device" /\ Device!Backend)
    /\ WF_device(part = "device" /\ Device!Delivery)
    /\ WF_device(part = "device" /\ Device!Callbacks(1))
    /\ WF_device(part = "device" /\ Device!OnClientLost(1))
    /\ WF_device(part = "device" /\ Device!BeginShutdown)
    /\ WF_device(part = "device" /\ Device!PublishOffline)

\* Calls to the provider and waits for locks have timeouts, the server ends
\* every transaction, and the controller waits for the process.
InstallRuns ==
    /\ WF_install(part = "install" /\ Install!Runner("r1"))
    /\ WF_install(part = "install" /\ Install!Server("r1"))
    /\ WF_install(part = "install" /\ Install!Launch("r1"))
    /\ WF_install(part = "install" /\ Install!ReturnResult("r1"))

\* A call that has started keeps running, and PostgreSQL ends the session of a
\* client that is gone; a free row lock is granted.
LedgersRun ==
    /\ \A c \in {"c1", "c2"} : WF_d4(part = "d4" /\ D4!CallStep(c))
    /\ WF_d4(part = "d4" /\ D4!SessionEnds /\ UNCHANGED <<led, jour, worker, refusals, crashes, invoked, resumed, doubtful, offer, answer>>)
    /\ \A c \in {"p1", "p2"} : WF_leases(part = "lease" /\ Lease!StepOf(c))

PartsSpec ==
    /\ PartsInit
    /\ [][Parts /\ UNCHANGED part]_<<schema, device, install, d4, leases, part>>
    /\ MigrationRuns /\ ServiceRuns /\ DeviceRuns /\ InstallRuns /\ LedgersRun

-----------------------------------------------------------------------------
\* The two callers of each part: operators that asked for the fence, the
\* device's goroutine and its shutdown, a controller that launched a run,
\* callers of the D4 service and of the D1-L ledger.
Inside(i) ==
    \/ part = "migration" /\ op[<<"o1", "o2">>[i]].pc \notin {"idle", "serving"}
    \/ part = "device" /\ <<call.pc \notin {"idle", "exit"}, stop.pc = "closing">>[i]
    \/ part = "install" /\ i = 1 /\ ctl["r1"].at \notin {"idle", "done"}
    \/ part = "d4" /\ worker[<<"c1", "c2">>[i]].pc \notin {"idle", "done", "dead"}
    \/ part = "lease" /\ inCall[<<"p1", "p2">>[i]] # Lease!Idle

\* Every call returns, through lock waits, timeouts, lost commits, refusals and
\* sessions that could not be closed.
CallersReturn == \A i \in 1..2 : Inside(i) ~> ~Inside(i)

\* What others wait for comes: a writer leaves the queue of the fence; a stop
\* of the service returns, as every admitted message, the ones a full queue
\* drops included, gives its share of the WaitGroup back; a D4 record in work
\* comes to rest where an owner can act on it.
Waits ==
    \/ part = "migration" /\ Schema!Waiting("w1")
    \/ part = "service" /\ drain \in {"gated", "waiting"}
    \/ part = "d4" /\ led.state \in D4!Claimed \ {"WAITING_FOR_MAPPING"}
WaitsEnd == Waits ~> ~Waits
=============================================================================
