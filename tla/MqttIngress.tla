---------------------------- MODULE MqttIngress ----------------------------
(***************************************************************************)
(* The backend's MQTT service: the broker connection it keeps, the gate    *)
(* that admits a message, the bounded queue behind the callback, the       *)
(* workers, and StopIngestion, which must not return success while a       *)
(* message it admitted can still write.                                    *)
(***************************************************************************)
EXTENDS Naturals, Sequences, FiniteSets

CONSTANTS
    MaxSeq,       \* bound: telemetry identities are 1..MaxSeq
    Workers,      \* the goroutines startWorkers creates
    QueueSize,    \* capacity of the channel work
    MaxUplink,    \* bound: messages on their way from the broker
    MaxLosses     \* bound: connection losses, lost messages and lost ACKs

ASSUME IngressAssumption ==
    /\ MaxSeq \in Nat /\ MaxUplink \in Nat /\ MaxLosses \in Nat
    /\ QueueSize \in Nat \ {0}
    /\ Workers # {} /\ IsFiniteSet(Workers)

VARIABLES
    uplink,       \* messages published and not yet handed to the backend
    session,      \* the Paho client: "down", "up", or "closed" by Disconnect
    gate,         \* what stateMu guards
    restoring,    \* where the onConnect callback is, and whether all went well
    routed,       \* the message inside the callback, and whether it is admitted
    work,         \* the channel of admitted messages
    busy,         \* the message a worker processes, and whether it is written
    inFlight,     \* the WaitGroup
    drain,        \* where the latest StopIngestion is
    stored,       \* identities the database holds
    refused,      \* identities reported lifecycle_blocked
    acks,         \* ACKs published to the device
    losses        \* faults so far

ingressVars == <<uplink, session, gate, restoring, routed, work, busy,
                 inFlight, drain, stored, refused, acks, losses>>

Items == 1..MaxSeq
Topics == {"telemetry", "status"}
Messages == [topic : Topics, id : Items]
NoMessage == [topic |-> "none", id |-> 0]

Statuses == {"stored", "duplicate", "lifecycle_blocked", "unknown_device"}
Acks == [id : Items, status : Statuses]

NotRouted == [msg |-> NoMessage, admitted |-> FALSE]
IdleWorker == [msg |-> NoMessage, written |-> FALSE]
NotRestoring == [pc |-> "none", ok |-> TRUE]

IngressTypeOK ==
    /\ uplink \in Seq(Messages)
    /\ session \in {"down", "up", "closed"}
    /\ gate \in [blocked : BOOLEAN, smokeOnly : BOOLEAN,
                 connected : BOOLEAN, subscribed : BOOLEAN]
    /\ restoring \in [pc : {"none", "begin", "telemetry", "status", "end"},
                      ok : BOOLEAN]
    /\ routed \in [msg : Messages \cup {NoMessage}, admitted : BOOLEAN]
    /\ work \in Seq(Messages) /\ Len(work) <= QueueSize
    /\ busy \in [Workers -> [msg : Messages \cup {NoMessage}, written : BOOLEAN]]
    /\ inFlight \in Nat
    /\ drain \in {"none", "gated", "waiting", "drained", "incomplete"}
    /\ stored \subseteq Items /\ refused \subseteq Items
    /\ acks \subseteq Acks
    /\ losses \in 0..MaxLosses

\* NewMqttServiceWithConfig: POST_CUTOVER opens the gate, a bounded smoke opens
\* it for telemetry only, PRE_CUTOVER keeps it closed.
IngressInit ==
    /\ uplink = <<>> /\ session = "down"
    /\ \E mode \in {"PRE_CUTOVER", "SMOKE", "POST_CUTOVER"} :
          gate = [blocked |-> mode = "PRE_CUTOVER", smokeOnly |-> mode = "SMOKE",
                  connected |-> FALSE, subscribed |-> FALSE]
    /\ restoring = NotRestoring /\ routed = NotRouted
    /\ work = <<>> /\ busy = [w \in Workers |-> IdleWorker]
    /\ inFlight = 0 /\ drain = "none"
    /\ stored = {} /\ refused = {} /\ acks = {} /\ losses = 0

Fault == losses < MaxLosses /\ losses' = losses + 1

(***************************************************************************)
(* The connection                                                          *)
(***************************************************************************)
\* Connect, and every automatic reconnection, ends in the onConnect callback.
Connect ==
    /\ session = "down" /\ restoring.pc = "none"
    /\ session' = "up"
    /\ restoring' = [pc |-> "begin", ok |-> TRUE]
    /\ UNCHANGED <<uplink, gate, routed, work, busy, inFlight, drain, stored,
                   refused, acks, losses>>

\* setConnected(true), whatever the denial state says.
OnConnect ==
    /\ restoring.pc = "begin"
    /\ gate' = [gate EXCEPT !.connected = TRUE]
    /\ restoring' = [restoring EXCEPT !.pc = "telemetry"]
    /\ UNCHANGED <<uplink, session, routed, work, busy, inFlight, drain, stored,
                   refused, acks, losses>>

\* subscribeTopics: each topic in turn, three attempts; a session that is not
\* up grants nothing.
SubscribeTopic ==
    /\ restoring.pc \in Topics
    /\ \E granted \in {session = "up", FALSE} :
          restoring' = [pc |-> IF restoring.pc = "telemetry" THEN "status" ELSE "end",
                        ok |-> restoring.ok /\ granted]
    /\ UNCHANGED <<uplink, session, gate, routed, work, busy, inFlight, drain,
                   stored, refused, acks, losses>>

SetSubscriptionsReady ==
    /\ restoring.pc = "end"
    /\ gate' = [gate EXCEPT !.subscribed = restoring.ok]
    /\ restoring' = NotRestoring
    /\ UNCHANGED <<uplink, session, routed, work, busy, inFlight, drain, stored,
                   refused, acks, losses>>

OnConnectionLost ==
    /\ session = "up"
    /\ Fault
    /\ session' = "down"
    /\ gate' = [gate EXCEPT !.connected = FALSE, !.subscribed = FALSE]
    /\ UNCHANGED <<uplink, restoring, routed, work, busy, inFlight, drain, stored,
                   refused, acks>>

Ready == gate.connected /\ gate.subscribed

(***************************************************************************)
(* From the broker to the database                                         *)
(***************************************************************************)
\* The router hands the oldest message to the callback, one at a time.
Route ==
    /\ session = "up" /\ routed = NotRouted /\ uplink # <<>>
    /\ restoring.pc = "none"
    /\ routed' = [msg |-> Head(uplink), admitted |-> FALSE]
    /\ uplink' = Tail(uplink)
    /\ UNCHANGED <<session, gate, restoring, work, busy, inFlight, drain, stored,
                   refused, acks, losses>>

\* The check and the WaitGroup's Add are outside one critical section.
AdmitUnlocked ==
    /\ routed.msg # NoMessage /\ ~routed.admitted
    /\ IF gate.blocked \/ (gate.smokeOnly /\ routed.msg.topic # "telemetry")
       THEN routed' = NotRouted
       ELSE routed' = [routed EXCEPT !.admitted = TRUE]
    /\ UNCHANGED inFlight
    /\ UNCHANGED <<uplink, session, gate, restoring, work, busy, drain, stored,
                   refused, acks, losses>>

\* handleMessage under stateMu.
Admit ==
    /\ routed.msg # NoMessage /\ ~routed.admitted
    /\ IF gate.blocked \/ (gate.smokeOnly /\ routed.msg.topic # "telemetry")
       THEN routed' = NotRouted /\ UNCHANGED inFlight
       ELSE /\ routed' = [routed EXCEPT !.admitted = TRUE]
            /\ inFlight' = inFlight + 1
    /\ UNCHANGED <<uplink, session, gate, restoring, work, busy, drain, stored,
                   refused, acks, losses>>

\* The queue grows without a bound.
OfferUnbounded ==
    /\ routed.admitted
    /\ routed' = NotRouted
    /\ work' = Append(work, routed.msg)
    /\ UNCHANGED <<uplink, session, gate, restoring, busy, inFlight, drain, stored,
                   refused, acks, losses>>

\* A message dropped on a full queue keeps its share of the WaitGroup.
OfferLeaks ==
    /\ routed.admitted
    /\ routed' = NotRouted
    /\ work' = IF Len(work) < QueueSize THEN Append(work, routed.msg) ELSE work
    /\ UNCHANGED inFlight
    /\ UNCHANGED <<uplink, session, gate, restoring, busy, drain, stored, refused,
                   acks, losses>>

\* handleMessage after the unlock: queue the message, or drop it when full.
Offer ==
    /\ routed.admitted
    /\ routed' = NotRouted
    /\ IF Len(work) < QueueSize
       THEN work' = Append(work, routed.msg) /\ UNCHANGED inFlight
       ELSE inFlight' = inFlight - 1 /\ UNCHANGED work
    /\ UNCHANGED <<uplink, session, gate, restoring, busy, drain, stored, refused,
                   acks, losses>>

Take(w) ==
    /\ busy[w] = IdleWorker /\ work # <<>>
    /\ busy' = [busy EXCEPT ![w].msg = Head(work)]
    /\ work' = Tail(work)
    /\ UNCHANGED <<uplink, session, gate, restoring, routed, inFlight, drain,
                   stored, refused, acks, losses>>

\* What telemetryIngest may answer for an identity.
Verdicts(id) ==
    IF id \in stored THEN {"duplicate"}
    ELSE {"stored", "lifecycle_blocked", "unknown_device"}

\* publishAck: the ACK reaches the broker, or its token fails.
PublishAck(a) ==
    \/ acks' = acks \cup {a} /\ UNCHANGED losses
    \/ UNCHANGED acks /\ Fault

\* processTelemetryAt and publishIngestResult; processStatus writes the device
\* row and answers nothing.  A failed transaction answers nothing either.
Process(w) ==
    /\ busy[w].msg # NoMessage /\ ~busy[w].written
    /\ busy' = [busy EXCEPT ![w].written = TRUE]
    /\ LET id == busy[w].msg.id IN
       \/ /\ busy[w].msg.topic = "status"
          /\ UNCHANGED <<stored, refused, acks, losses>>
       \/ /\ busy[w].msg.topic = "telemetry"
          /\ \E v \in Verdicts(id) :
                /\ stored' = IF v = "stored" THEN stored \cup {id} ELSE stored
                /\ refused' = IF v = "lifecycle_blocked" THEN refused \cup {id} ELSE refused
                /\ PublishAck([id |-> id, status |-> v])
       \/ /\ busy[w].msg.topic = "telemetry"
          /\ Fault
          /\ UNCHANGED <<stored, refused, acks>>
    /\ UNCHANGED <<uplink, session, gate, restoring, routed, work, inFlight, drain>>

\* The deferred inFlight.Done of handleQueuedMessage.
Done(w) ==
    /\ busy[w].written
    /\ busy' = [busy EXCEPT ![w] = IdleWorker]
    /\ inFlight' = inFlight - 1
    /\ UNCHANGED <<uplink, session, gate, restoring, routed, work, drain, stored,
                   refused, acks, losses>>

(***************************************************************************)
(* StopIngestion and the two starts                                        *)
(***************************************************************************)
StopIngestion ==
    /\ drain = "none"
    /\ drain' = "gated"
    /\ gate' = [gate EXCEPT !.blocked = TRUE, !.connected = FALSE, !.subscribed = FALSE]
    /\ UNCHANGED <<uplink, session, restoring, routed, work, busy, inFlight,
                   stored, refused, acks, losses>>

Disconnect ==
    /\ drain = "gated"
    /\ drain' = "waiting"
    /\ session' = "closed"
    /\ UNCHANGED <<uplink, gate, restoring, routed, work, busy, inFlight, stored,
                   refused, acks, losses>>

Drained ==
    /\ drain = "waiting" /\ inFlight = 0
    /\ drain' = "drained"
    /\ UNCHANGED <<uplink, session, gate, restoring, routed, work, busy, inFlight,
                   stored, refused, acks, losses>>

\* The caller's context ends first.
DrainIncomplete ==
    /\ drain = "waiting"
    /\ drain' = "incomplete"
    /\ UNCHANGED <<uplink, session, gate, restoring, routed, work, busy, inFlight,
                   stored, refused, acks, losses>>

\* StartIngestion, or StartBoundedSmoke, after a stop.
Start(smoke) ==
    /\ drain \in {"drained", "incomplete"} /\ restoring.pc = "none"
    /\ drain' = "none"
    /\ session' = "down"
    /\ gate' = [blocked |-> FALSE, smokeOnly |-> smoke,
                connected |-> FALSE, subscribed |-> FALSE]
    /\ UNCHANGED <<uplink, restoring, routed, work, busy, inFlight, stored,
                   refused, acks, losses>>

(***************************************************************************)
(* The service on its own: any device may publish at any time              *)
(***************************************************************************)
Publish(m) ==
    /\ Len(uplink) < MaxUplink
    /\ uplink' = Append(uplink, m)
    /\ UNCHANGED <<session, gate, restoring, routed, work, busy, inFlight, drain,
                   stored, refused, acks, losses>>

Connection == Connect \/ OnConnect \/ SubscribeTopic \/ SetSubscriptionsReady
Pipeline == Route \/ Admit \/ Offer \/ \E w \in Workers : Take(w) \/ Process(w) \/ Done(w)

IngressNext ==
    \/ Connection
    \/ OnConnectionLost
    \/ Pipeline
    \/ StopIngestion \/ Disconnect \/ Drained \/ DrainIncomplete
    \/ \E smoke \in BOOLEAN : Start(smoke)
    \/ \E m \in Messages : Publish(m)

IngressSpec == IngressInit /\ [][IngressNext]_ingressVars

-----------------------------------------------------------------------------
\* Once StopIngestion has returned nil, and until a start is called, nothing it
\* admitted is left: no message between the callback's unlock and the queue,
\* none queued, none with a worker (mqtt_service.go:87).
DrainedIsQuiet ==
    drain = "drained" =>
        /\ ~routed.admitted
        /\ work = <<>>
        /\ \A w \in Workers : busy[w] = IdleWorker

\* After StopIngestion has returned nil nothing more is written or answered
\* before a start, even by a callback or a reconnection that was under way.
DrainedWritesNothing ==
  drain = "drained" /\ drain' = "drained"
  => UNCHANGED <<stored, refused>> /\ acks' \subseteq acks

\* After StopIngestion has returned nil, and until a start, the service does not
\* report itself ready (the comment of StopIngestion: onConnect checks the
\* denial state).
StoppedIsNotReady == drain = "drained" => ~Ready
=============================================================================
