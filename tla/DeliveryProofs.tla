--------------------------- MODULE DeliveryProofs ---------------------------
(***************************************************************************)
(* Theorems about the MQTT service and the simulated device: a drained     *)
(* service is quiet, no value is lost or overtaken between the device's    *)
(* queue and the database, and the offline status of a shutdown is final.  *)
(***************************************************************************)
EXTENDS DeviceDelivery, FiniteSetTheorems, SequenceTheorems, TLAPS

-----------------------------------------------------------------------------
\* The device, and the service it reports to, which besides is stopped and
\* started and serves anybody else's messages.
Together == Next \/ (IngressNext /\ UNCHANGED deviceVars)
TogetherSpec == IngressInit /\ Device /\ [][Together]_vars

BusyWorkers == {w \in Workers : busy[w] # IdleWorker}
Routed == IF routed.admitted THEN 1 ELSE 0

\* The WaitGroup counts what is admitted and not done, wherever it is.
CountIsExact == inFlight = Routed + Len(work) + Cardinality(BusyWorkers)

\* A stop keeps the gate closed until the next start.
StopHolds ==
    /\ drain # "none" => gate.blocked
    /\ drain = "drained" => inFlight = 0

Recorded == stored \cup refused

\* A terminal answer speaks of a value the backend recorded.
AnswersAreTrue == \A a \in acks : Terminal(a.status) => a.id \in Recorded

ServiceInv ==
    /\ IngressTypeOK
    /\ routed.admitted => routed.msg # NoMessage
    /\ CountIsExact /\ StopHolds /\ AnswersAreTrue

\* So does one the device has received and not applied yet.
ReceivedIsTrue ==
    /\ \A x \in inbox : Terminal(x.ack.status) => x.ack.id \in Recorded
    /\ deferred \subseteq Recorded

Attempting == {"register", "publish", "sending", "token", "release"}
Waiting == {"publish", "sending", "token", "release", "wait"}

CallType == [pc : Pcs, id : 0..MaxSeq, todo : Seq(Items), queued : BOOLEAN,
             client : 0..MaxClients, epoch : Nat, ok : BOOLEAN, step : Nat]
WaiterType == [id : 0..MaxSeq, epoch : Nat, queued : BOOLEAN, auth : BOOLEAN,
               listed : BOOLEAN, got : {"none", "terminal", "nonterminal"}]
RestoreType == [Clients -> [pc : {"none", "begin", "ack", "command", "status",
                                  "publishing", "token", "done"}, epoch : Nat]]

DeviceTypes ==
    /\ mode \in Modes
    /\ life \in [client : 0..MaxClients, epoch : Nat, restoring : Nat,
                 ready : BOOLEAN, stopping : BOOLEAN]
    /\ links \in [Clients -> {"none", "dialing", "up", "lost", "dead", "closed"}]
    /\ wills \subseteq Clients
    /\ retained \in {"none", "online", "offline"}
    /\ pub \in {"free", "restore", "send"}
    /\ restore \in RestoreType
    /\ items \in Seq(Items) /\ Len(items) <= QueueCapacity
    /\ completed \in Seq(Items) /\ Len(completed) <= QueueCapacity
    /\ authorized \subseteq Items /\ deferred \subseteq Items
    /\ next \in 1..(MaxSeq + 1)
    /\ cancelled \in BOOLEAN
    /\ waiter \in WaiterType
    /\ inbox \subseteq [client : Clients, epoch : Nat, ack : Acks]
    /\ call \in CallType
    /\ stop \in [pc : {"none", "closing", "done"}, client : 0..MaxClients]

\* onConnect runs once for each client, after it is up.
CallbackFollowsLink ==
    \A c \in Clients : links[c] \in {"none", "dialing"} => restore[c].pc = "none"

\* publishMu admits one publication to Paho.
PublicationsExclude ==
    /\ call.pc = "sending" => pub = "send"
    /\ \A c \in Clients : restore[c].pc = "publishing" => pub = "restore"
    /\ \A c, d \in Clients :
          restore[c].pc = "publishing" /\ restore[d].pc = "publishing" => c = d

\* Shutdown denies every later publication and waits for an admitted one.
ShutdownHolds ==
    /\ stop.pc # "none" => life.stopping
    /\ stop.pc = "done" => \A c \in Clients : restore[c].pc # "publishing"

SessionInv == ReadyIsRestored /\ CallbackFollowsLink /\ PublicationsExclude /\ ShutdownHolds

Ascending(s) == \A i, j \in DOMAIN s : i < j => s[i] < s[j]

\* The queue holds values in the order they were generated.
QueueIsOrdered ==
    /\ Ascending(items)
    /\ \A id \in Pending : id < next
    /\ call.pc = "boot" => items = <<>>
    /\ call.pc = "enqueue" => /\ call.id \in Items /\ call.id < next
                              /\ \A id \in Pending : id < call.id

\* Only the attempt that waits is authorized, and only while its session holds.
AuthorizedIsWaiting ==
    /\ \A id \in authorized : call.pc = "wait" /\ call.queued /\ call.id = id
    /\ call.id \in authorized \cap Pending => StillReady

\* The registered waiter is the attempt's; a terminal answer has emptied it.
WaiterIsOfCall ==
    /\ call.pc \in Waiting => waiter.id = call.id /\ waiter.queued = call.queued
    /\ call.pc \in Attempting \ {"register"} => ~waiter.auth /\ waiter.got # "terminal"
    /\ call.pc = "wait" /\ call.queued /\ waiter.got = "terminal" => call.id \notin Pending

\* What a replay has still to send is what is pending, oldest first.
ReplayIsOrdered ==
    /\ Ascending(call.todo)
    /\ call.pc \in {"enqueue", "snapshot"} => call.todo = <<>> /\ call.queued
    /\ call.pc = "next" => Pending \subseteq Range(call.todo) /\ call.queued
    /\ call.pc \in Attempting \cup {"wait"} =>
          /\ call.todo # <<>> => /\ Pending \subseteq Range(call.todo)
                                 /\ Head(call.todo) = call.id /\ call.queued
          /\ call.todo = <<>> => ~call.queued \/ DisconnectFirst
    /\ call.pc \in Attempting /\ call.queued => items # <<>> /\ Head(items) = call.id

\* The modes generate as many values as they have calls for.
CallsAreCounted ==
    /\ call.pc = "boot" => call.step = 0
    /\ mode \in {"duplicate", "reconnect"} /\ call.step = 0 => next = 1
    /\ mode = "reconnect" /\ call.step \in 1..3 => next = 2
    /\ call.pc \in Attempting \cup {"wait"} => call.id \in Items

\* A deliberate disconnect has one value, and never waits for its answer.
DisconnectIsFirst ==
    /\ mode = "reconnect" /\ call.step = 0 => items = <<>>
    /\ DisconnectFirst =>
          /\ call.pc \notin {"boot", "install", "dialing", "snapshot", "next", "release", "wait"}
          /\ call.pc = "enqueue" => items = <<>>
          /\ call.todo = <<>>
    /\ call.pc \in {"boot", "install", "dialing"} => call.id = 0
    /\ call.pc = "detach" /\ ~DisconnectFirst => call.id = 0

AttemptInv ==
    /\ QueueIsOrdered /\ AuthorizedIsWaiting /\ WaiterIsOfCall
    /\ ReplayIsOrdered /\ CallsAreCounted /\ DisconnectIsFirst /\ SuccessIsComplete

DeliveryInv == DeviceTypes /\ ServiceInv /\ ReceivedIsTrue /\ SessionInv /\ AttemptInv

-----------------------------------------------------------------------------
(***************************************************************************)
(* The service                                                             *)
(***************************************************************************)
\* The bounds are numbers, and a message is not the absence of one.
LEMMA Bounds ==
    /\ MaxSeq \in Nat /\ MaxUplink \in Nat /\ MaxLosses \in Nat /\ QueueSize \in Nat \ {0}
    /\ IsFiniteSet(Workers)
  BY IngressAssumption

LEMMA NoMessageIsNone ==
  ASSUME NEW m \in Messages PROVE m # NoMessage /\ m.id \in Items
  BY DEF Messages, NoMessage, Topics

\* The workers that are busy are finitely many.
LEMMA BusyIsFinite ==
    /\ IsFiniteSet(BusyWorkers) /\ Cardinality(BusyWorkers) \in Nat
    /\ IsFiniteSet(BusyWorkers') /\ Cardinality(BusyWorkers') \in Nat
  <1>1. BusyWorkers \subseteq Workers /\ BusyWorkers' \subseteq Workers
    BY DEF BusyWorkers
  <1> QED BY <1>1, Bounds, FS_Subset, FS_CardinalityType

\* The service starts with nothing admitted (NewMqttServiceWithConfig).
LEMMA ServiceStart == IngressInit => ServiceInv
  <1> SUFFICES ASSUME IngressInit PROVE ServiceInv
    OBVIOUS
  <1> USE DEF IngressInit
  <1>1. IngressTypeOK
    <2>1. busy \in [Workers -> [msg : Messages \cup {NoMessage}, written : BOOLEAN]]
      BY DEF IdleWorker
    <2>2. gate \in [blocked : BOOLEAN, smokeOnly : BOOLEAN,
                    connected : BOOLEAN, subscribed : BOOLEAN]
      OBVIOUS
    <2>3. uplink \in Seq(Messages) /\ work \in Seq(Messages) /\ Len(work) = 0
      OBVIOUS
    <2>4. routed \in [msg : Messages \cup {NoMessage}, admitted : BOOLEAN]
      BY DEF NotRouted
    <2> QED BY <2>1, <2>2, <2>3, <2>4, Bounds DEF IngressTypeOK, NotRestoring
  <1>2. BusyWorkers = {} /\ Routed = 0 /\ ~routed.admitted
    BY DEF BusyWorkers, Routed, NotRouted
  <1>3. CountIsExact
    BY <1>2, FS_EmptySet DEF CountIsExact
  <1> QED BY <1>1, <1>2, <1>3 DEF ServiceInv, StopHolds, AnswersAreTrue

\* A step that only queues or loses messages of the broker, or takes an ACK
\* from it, is no business of the WaitGroup.
LEMMA ServiceUntouched ==
  ASSUME ServiceInv,
         UNCHANGED <<gate, restoring, routed, work, busy, inFlight, drain, stored, refused>>,
         session' \in {"down", "up", "closed"},
         uplink' \in Seq(Messages), acks' \subseteq acks, losses' \in 0..MaxLosses
  PROVE  ServiceInv'
  <1>1. IngressTypeOK'
    BY DEF ServiceInv, IngressTypeOK
  <1>2. CountIsExact' /\ StopHolds'
    BY DEF ServiceInv, CountIsExact, StopHolds, BusyWorkers, Routed
  <1>3. AnswersAreTrue'
    BY DEF ServiceInv, AnswersAreTrue, Recorded, IngressTypeOK
  <1> QED BY <1>1, <1>2, <1>3 DEF ServiceInv

\* The connection and its restoration write the gate's two flags only.
LEMMA ConnectionKeeps ==
  ASSUME ServiceInv, Connection \/ OnConnectionLost
  PROVE  ServiceInv'
  <1>1. UNCHANGED <<uplink, routed, work, busy, inFlight, drain, stored, refused, acks>>
    BY DEF Connection, Connect, OnConnect, SubscribeTopic, SetSubscriptionsReady,
           OnConnectionLost
  <1>2. gate' \in [blocked : BOOLEAN, smokeOnly : BOOLEAN,
                   connected : BOOLEAN, subscribed : BOOLEAN]
        /\ gate'.blocked = gate.blocked
    BY DEF Connection, Connect, OnConnect, SubscribeTopic, SetSubscriptionsReady,
           OnConnectionLost, ServiceInv, IngressTypeOK
  <1>3. session' \in {"down", "up", "closed"}
    BY DEF Connection, Connect, OnConnect, SubscribeTopic, SetSubscriptionsReady,
           OnConnectionLost, ServiceInv, IngressTypeOK
  <1>4. restoring' \in [pc : {"none", "begin", "telemetry", "status", "end"}, ok : BOOLEAN]
    <2>1. restoring \in [pc : {"none", "begin", "telemetry", "status", "end"}, ok : BOOLEAN]
      BY DEF ServiceInv, IngressTypeOK
    <2>2. CASE SubscribeTopic
      <3>1. PICK granted \in {session = "up", FALSE} :
              restoring' = [pc |-> IF restoring.pc = "telemetry" THEN "status" ELSE "end",
                            ok |-> restoring.ok /\ granted]
        BY <2>2 DEF SubscribeTopic
      <3>2. granted \in BOOLEAN /\ (restoring.ok /\ granted) \in BOOLEAN
        BY Zenon
      <3> QED BY <3>1, <3>2
    <2>3. CASE Connect
      BY <2>3 DEF Connect
    <2>4. CASE OnConnect
      BY <2>1, <2>4 DEF OnConnect
    <2>5. CASE SetSubscriptionsReady
      BY <2>5 DEF SetSubscriptionsReady, NotRestoring
    <2>6. CASE OnConnectionLost
      BY <2>1, <2>6 DEF OnConnectionLost
    <2> QED BY <2>2, <2>3, <2>4, <2>5, <2>6 DEF Connection
  <1>5. losses' \in 0..MaxLosses
    BY Bounds DEF Connection, Connect, OnConnect, SubscribeTopic, SetSubscriptionsReady,
           OnConnectionLost, ServiceInv, IngressTypeOK, Fault
  <1>6. IngressTypeOK'
    BY <1>1, <1>2, <1>3, <1>4, <1>5 DEF ServiceInv, IngressTypeOK
  <1>7. CountIsExact' /\ StopHolds' /\ AnswersAreTrue'
    BY <1>1, <1>2 DEF ServiceInv, CountIsExact, StopHolds, BusyWorkers, Routed,
                      AnswersAreTrue, Recorded
  <1> QED BY <1>1, <1>6, <1>7 DEF ServiceInv

\* A stop closes the gate, a start opens it; a drain ends on a count of zero.
LEMMA StopsKeep ==
  ASSUME ServiceInv,
         StopIngestion \/ Disconnect \/ Drained \/ DrainIncomplete
         \/ \E smoke \in BOOLEAN : Start(smoke)
  PROVE  ServiceInv'
  <1>1. UNCHANGED <<uplink, restoring, routed, work, busy, inFlight, stored, refused,
                    acks, losses>>
    BY DEF StopIngestion, Disconnect, Drained, DrainIncomplete, Start
  <1>2. gate' \in [blocked : BOOLEAN, smokeOnly : BOOLEAN,
                   connected : BOOLEAN, subscribed : BOOLEAN]
    <2>1. gate \in [blocked : BOOLEAN, smokeOnly : BOOLEAN,
                    connected : BOOLEAN, subscribed : BOOLEAN]
      BY DEF ServiceInv, IngressTypeOK
    <2>2. CASE \E smoke \in BOOLEAN : Start(smoke)
      BY <2>2 DEF Start
    <2>3. CASE StopIngestion
      BY <2>1, <2>3 DEF StopIngestion
    <2> QED BY <2>1, <2>2, <2>3 DEF Disconnect, Drained, DrainIncomplete
  <1>3. session' \in {"down", "up", "closed"}
        /\ drain' \in {"none", "gated", "waiting", "drained", "incomplete"}
    BY DEF StopIngestion, Disconnect, Drained, DrainIncomplete, Start, ServiceInv,
           IngressTypeOK
  <1>4. StopHolds'
    BY DEF StopIngestion, Disconnect, Drained, DrainIncomplete, Start, ServiceInv,
           IngressTypeOK, StopHolds
  <1>5. IngressTypeOK'
    BY <1>1, <1>2, <1>3 DEF ServiceInv, IngressTypeOK
  <1>6. CountIsExact' /\ AnswersAreTrue'
    BY <1>1 DEF ServiceInv, CountIsExact, BusyWorkers, Routed, AnswersAreTrue, Recorded
  <1> QED BY <1>1, <1>4, <1>5, <1>6 DEF ServiceInv

\* handleMessage: what it admits it counts, and what it drops it takes back.
LEMMA CallbackKeeps ==
  ASSUME ServiceInv, Route \/ Admit \/ Offer
  PROVE  ServiceInv'
  <1>t. /\ uplink \in Seq(Messages) /\ work \in Seq(Messages) /\ inFlight \in Nat
        /\ routed \in [msg : Messages \cup {NoMessage}, admitted : BOOLEAN]
        /\ Len(work) \in Nat /\ Len(work) <= QueueSize
    BY DEF ServiceInv, IngressTypeOK
  <1>n. NoMessage \notin Messages
    BY NoMessageIsNone
  <1>c. inFlight = Routed + Len(work) + Cardinality(BusyWorkers)
        /\ Cardinality(BusyWorkers) \in Nat /\ Routed \in {0, 1}
    BY BusyIsFinite DEF ServiceInv, CountIsExact, Routed
  <1>b. UNCHANGED <<session, gate, restoring, busy, drain, stored, refused, acks, losses>>
        /\ BusyWorkers' = BusyWorkers
    BY DEF Route, Admit, Offer, BusyWorkers
  <1>a. AnswersAreTrue'
    BY <1>b DEF ServiceInv, AnswersAreTrue, Recorded
  <1>1. CASE Route
    <2>1. uplink' \in Seq(Messages) /\ Head(uplink) \in Messages
      BY <1>1, <1>t DEF Route
    <2>2. /\ routed' \in [msg : Messages \cup {NoMessage}, admitted : BOOLEAN]
          /\ ~routed'.admitted /\ ~routed.admitted /\ UNCHANGED <<work, inFlight>>
      BY <1>1, <2>1 DEF Route, NotRouted
    <2>3. IngressTypeOK'
      BY <1>b, <2>1, <2>2 DEF ServiceInv, IngressTypeOK
    <2>4. CountIsExact' /\ StopHolds'
      BY <1>b, <2>2 DEF ServiceInv, CountIsExact, StopHolds, Routed
    <2> QED BY <1>a, <2>2, <2>3, <2>4 DEF ServiceInv
  <1>2. CASE Admit
    <2>1. UNCHANGED <<uplink, work>>
      BY <1>2 DEF Admit
    <2>2. CASE gate.blocked \/ (gate.smokeOnly /\ routed.msg.topic # "telemetry")
      <3>1. /\ routed' \in [msg : Messages \cup {NoMessage}, admitted : BOOLEAN]
            /\ ~routed'.admitted /\ ~routed.admitted /\ UNCHANGED inFlight
        <4>1. routed' = NotRouted /\ ~routed.admitted /\ UNCHANGED inFlight
          BY <1>2, <2>2 DEF Admit
        <4> QED BY <4>1 DEF NotRouted
      <3>2. IngressTypeOK'
        BY <1>b, <2>1, <3>1 DEF ServiceInv, IngressTypeOK
      <3>3. CountIsExact' /\ StopHolds'
        BY <1>b, <2>1, <3>1 DEF ServiceInv, CountIsExact, StopHolds, Routed
      <3> QED BY <1>a, <3>1, <3>2, <3>3 DEF ServiceInv
    <2>3. CASE ~(gate.blocked \/ (gate.smokeOnly /\ routed.msg.topic # "telemetry"))
      <3>1. /\ routed' \in [msg : Messages \cup {NoMessage}, admitted : BOOLEAN]
            /\ routed'.admitted /\ ~routed.admitted /\ inFlight' = inFlight + 1
            /\ routed'.msg = routed.msg /\ routed.msg # NoMessage
        BY <1>2, <1>t, <2>3 DEF Admit
      <3>2. IngressTypeOK'
        BY <1>b, <1>t, <2>1, <3>1 DEF ServiceInv, IngressTypeOK
      <3>3. Routed' = 1 /\ Routed = 0
        BY <3>1 DEF Routed
      <3>4. CountIsExact'
        BY <1>b, <1>c, <1>t, <2>1, <3>1, <3>3 DEF CountIsExact
      <3>5. StopHolds'
        BY <1>b, <2>3 DEF ServiceInv, StopHolds
      <3> QED BY <1>a, <3>1, <3>2, <3>4, <3>5 DEF ServiceInv
    <2> QED BY <2>2, <2>3
  <1>3. CASE Offer
    <2>1. /\ routed' \in [msg : Messages \cup {NoMessage}, admitted : BOOLEAN]
          /\ ~routed'.admitted /\ routed.admitted /\ UNCHANGED uplink
      BY <1>3 DEF Offer, NotRouted
    <2>2. routed.msg \in Messages
      BY <1>t, <2>1 DEF ServiceInv
    <2>3. Routed' = 0 /\ Routed = 1
      BY <2>1 DEF Routed
    <2>4. drain # "drained"
      BY <1>c, <1>t, <2>3 DEF ServiceInv, StopHolds
    <2>5. CASE Len(work) < QueueSize
      <3>1. work' = Append(work, routed.msg) /\ UNCHANGED inFlight
        BY <1>3, <2>5 DEF Offer
      <3>2. work' \in Seq(Messages) /\ Len(work') = Len(work) + 1
        BY <1>t, <2>2, <3>1
      <3>3. IngressTypeOK'
        BY <1>b, <1>t, <2>1, <2>5, <3>1, <3>2, Bounds DEF ServiceInv, IngressTypeOK
      <3>4. CountIsExact'
        BY <1>b, <1>c, <1>t, <2>3, <3>1, <3>2 DEF CountIsExact
      <3>5. StopHolds'
        BY <1>b, <2>4 DEF ServiceInv, StopHolds
      <3> QED BY <1>a, <2>1, <3>3, <3>4, <3>5 DEF ServiceInv
    <2>6. CASE ~(Len(work) < QueueSize)
      <3>1. inFlight' = inFlight - 1 /\ UNCHANGED work
        BY <1>3, <2>6 DEF Offer
      <3>2. inFlight' \in Nat
        BY <1>c, <1>t, <2>3, <3>1
      <3>3. IngressTypeOK'
        BY <1>b, <2>1, <3>1, <3>2 DEF ServiceInv, IngressTypeOK
      <3>4. CountIsExact'
        BY <1>b, <1>c, <1>t, <2>3, <3>1 DEF CountIsExact
      <3>5. StopHolds'
        BY <1>b, <2>4 DEF ServiceInv, StopHolds
      <3> QED BY <1>a, <2>1, <3>3, <3>4, <3>5 DEF ServiceInv
    <2> QED BY <2>5, <2>6
  <1> QED BY <1>1, <1>2, <1>3

\* A worker takes, writes and gives back one message at a time.
LEMMA WorkersKeep ==
  ASSUME ServiceInv, NEW w \in Workers, Take(w) \/ Process(w) \/ Done(w)
  PROVE  ServiceInv'
  <1>t. /\ work \in Seq(Messages) /\ inFlight \in Nat /\ Len(work) \in Nat
        /\ Len(work) <= QueueSize
        /\ busy \in [Workers -> [msg : Messages \cup {NoMessage}, written : BOOLEAN]]
    BY DEF ServiceInv, IngressTypeOK
  <1>c. inFlight = Routed + Len(work) + Cardinality(BusyWorkers)
        /\ Cardinality(BusyWorkers) \in Nat /\ Routed \in {0, 1}
    BY BusyIsFinite DEF ServiceInv, CountIsExact, Routed
  <1>b. UNCHANGED <<uplink, session, gate, restoring, routed, drain>>
        /\ Routed' = Routed
    BY DEF Take, Process, Done, Routed
  <1>1. CASE Take(w)
    <2>1. /\ busy[w] = IdleWorker /\ work # <<>> /\ work' = Tail(work)
          /\ busy' = [busy EXCEPT ![w].msg = Head(work)]
          /\ UNCHANGED <<inFlight, stored, refused, acks, losses>>
      BY <1>1 DEF Take
    <2>2. /\ Head(work) \in Messages /\ work' \in Seq(Messages)
          /\ Len(work') = Len(work) - 1 /\ Len(work) > 0
      BY <1>t, <2>1
    <2>l. Len(work') <= QueueSize
      BY <1>t, <2>2, Bounds
    <2>u. UNCHANGED <<inFlight, stored, refused, acks, losses>>
      BY <2>1
    <2>3. busy' \in [Workers -> [msg : Messages \cup {NoMessage}, written : BOOLEAN]]
      BY <1>t, <2>1, <2>2
    <2>4. busy'[w].msg = Head(work) /\ \A v \in Workers \ {w} : busy'[v] = busy[v]
      BY <1>t, <2>1
    <2>5. busy'[w] # IdleWorker
      BY <2>2, <2>4, NoMessageIsNone DEF IdleWorker
    <2>6. BusyWorkers' = BusyWorkers \cup {w} /\ w \notin BusyWorkers
      BY <2>1, <2>4, <2>5 DEF BusyWorkers
    <2>7. Cardinality(BusyWorkers') = Cardinality(BusyWorkers) + 1
      BY <2>6, BusyIsFinite, FS_AddElement
    <2>8. IngressTypeOK'
      BY <1>b, <2>2, <2>3, <2>l, <2>u DEF ServiceInv, IngressTypeOK
    <2>9. CountIsExact'
      BY <1>b, <1>c, <1>t, <2>2, <2>7, <2>u DEF CountIsExact
    <2>10. StopHolds' /\ AnswersAreTrue'
      BY <1>b, <2>1 DEF ServiceInv, StopHolds, AnswersAreTrue, Recorded
    <2> QED BY <1>b, <2>8, <2>9, <2>10 DEF ServiceInv
  <1>2. CASE Process(w)
    <2> DEFINE id == busy[w].msg.id
    <2>1. /\ busy[w].msg # NoMessage /\ ~busy[w].written
          /\ busy' = [busy EXCEPT ![w].written = TRUE] /\ UNCHANGED <<work, inFlight>>
      BY <1>2 DEF Process
    <2>2. id \in Items
      BY <1>t, <2>1, NoMessageIsNone
    <2>e. busy' = [busy EXCEPT ![w] = [busy[w] EXCEPT !.written = TRUE]]
          /\ [busy[w] EXCEPT !.written = TRUE]
                \in [msg : Messages \cup {NoMessage}, written : BOOLEAN]
          /\ [busy[w] EXCEPT !.written = TRUE].msg = busy[w].msg
      BY <1>t, <2>1
    <2>3. busy' \in [Workers -> [msg : Messages \cup {NoMessage}, written : BOOLEAN]]
      BY <1>t, <2>e
    <2>4. busy'[w].msg = busy[w].msg /\ \A v \in Workers \ {w} : busy'[v] = busy[v]
      BY <1>t, <2>e
    <2>5. BusyWorkers' = BusyWorkers
      BY <2>1, <2>4 DEF BusyWorkers, IdleWorker
    <2>6. CASE UNCHANGED <<stored, refused, acks>>
      <3>1. losses' \in 0..MaxLosses
        BY <1>2, Bounds DEF Process, Fault, PublishAck, ServiceInv, IngressTypeOK
      <3>2. IngressTypeOK'
        BY <1>b, <2>1, <2>3, <2>6, <3>1 DEF ServiceInv, IngressTypeOK
      <3>3. CountIsExact' /\ StopHolds' /\ AnswersAreTrue'
        BY <1>b, <2>1, <2>5, <2>6 DEF ServiceInv, CountIsExact, StopHolds, AnswersAreTrue,
                                      Recorded
      <3> QED BY <1>b, <3>2, <3>3 DEF ServiceInv
    <2>7. ASSUME NEW v \in Verdicts(id),
                 stored' = IF v = "stored" THEN stored \cup {id} ELSE stored,
                 refused' = IF v = "lifecycle_blocked" THEN refused \cup {id} ELSE refused,
                 PublishAck([id |-> id, status |-> v])
          PROVE  ServiceInv'
      <3>1. v \in Statuses /\ [id |-> id, status |-> v] \in Acks
        BY <2>2 DEF Verdicts, Statuses, Acks
      <3>2. stored' \subseteq Items /\ refused' \subseteq Items
        BY <2>2, <2>7 DEF ServiceInv, IngressTypeOK
      <3>3. acks' \subseteq acks \cup {[id |-> id, status |-> v]}
        BY <2>7 DEF PublishAck
      <3>4. losses' \in 0..MaxLosses
        BY <2>7, Bounds DEF PublishAck, Fault, ServiceInv, IngressTypeOK
      <3>5. acks' \subseteq Acks
        BY <3>1, <3>3 DEF ServiceInv, IngressTypeOK
      <3>6. IngressTypeOK'
        BY <1>b, <2>1, <2>3, <3>2, <3>4, <3>5 DEF ServiceInv, IngressTypeOK
      <3>7. CountIsExact' /\ StopHolds'
        BY <1>b, <2>1, <2>5 DEF ServiceInv, CountIsExact, StopHolds
      <3>8. Recorded \subseteq Recorded' /\ (Terminal(v) => id \in Recorded')
        BY <2>7 DEF Recorded, Verdicts, Terminal
      <3>9. AnswersAreTrue'
        <4> SUFFICES ASSUME NEW a \in acks', Terminal(a.status) PROVE a.id \in Recorded'
          BY DEF AnswersAreTrue
        <4>1. CASE a \in acks
          BY <3>8, <4>1 DEF ServiceInv, AnswersAreTrue
        <4>2. CASE a = [id |-> id, status |-> v]
          BY <3>8, <4>2
        <4> QED BY <3>3, <4>1, <4>2
      <3> QED BY <1>b, <3>6, <3>7, <3>9 DEF ServiceInv
    <2> QED BY <1>2, <2>6, <2>7 DEF Process
  <1>3. CASE Done(w)
    <2>1. /\ busy[w].written /\ inFlight' = inFlight - 1
          /\ busy' = [busy EXCEPT ![w] = IdleWorker]
          /\ UNCHANGED <<work, stored, refused, acks, losses>>
      BY <1>3 DEF Done
    <2>2. busy' \in [Workers -> [msg : Messages \cup {NoMessage}, written : BOOLEAN]]
      BY <1>t, <2>1 DEF IdleWorker
    <2>3. busy[w] # IdleWorker
      BY <2>1 DEF IdleWorker
    <2>4. BusyWorkers' = BusyWorkers \ {w} /\ w \in BusyWorkers
      BY <1>t, <2>1, <2>3 DEF BusyWorkers
    <2>5. Cardinality(BusyWorkers') = Cardinality(BusyWorkers) - 1
      BY <2>4, BusyIsFinite, FS_RemoveElement
    <2>6. Cardinality(BusyWorkers) > 0
      BY <2>4, <2>5, BusyIsFinite
    <2>7. inFlight' \in Nat /\ inFlight # 0
      BY <1>c, <1>t, <2>1, <2>6
    <2>8. IngressTypeOK'
      BY <1>b, <2>1, <2>2, <2>7 DEF ServiceInv, IngressTypeOK
    <2>9. CountIsExact'
      BY <1>b, <1>c, <1>t, <2>1, <2>5 DEF CountIsExact
    <2>10. StopHolds' /\ AnswersAreTrue'
      BY <1>b, <2>1, <2>7 DEF ServiceInv, StopHolds, AnswersAreTrue, Recorded
    <2> QED BY <1>b, <2>8, <2>9, <2>10 DEF ServiceInv
  <1> QED BY <1>1, <1>2, <1>3

\* Every step of the service keeps its invariant.
LEMMA ServiceKeeps ==
  ASSUME ServiceInv, IngressNext PROVE ServiceInv'
  <1>1. ASSUME NEW m \in Messages, Publish(m) PROVE ServiceInv'
    <2>1. uplink' \in Seq(Messages)
      BY <1>1 DEF Publish, ServiceInv, IngressTypeOK
    <2>2. UNCHANGED <<session, gate, restoring, routed, work, busy, inFlight, drain, stored,
                      refused, acks, losses>>
      BY <1>1 DEF Publish
    <2>3. session \in {"down", "up", "closed"} /\ losses \in 0..MaxLosses
      BY DEF ServiceInv, IngressTypeOK
    <2> QED BY <2>1, <2>2, <2>3, ServiceUntouched
  <1> QED BY <1>1, ConnectionKeeps, StopsKeep, CallbackKeeps, WorkersKeep
          DEF IngressNext, Pipeline

\* What the count says when it is zero (mqtt_service.go, StopIngestion).
LEMMA ZeroIsQuiet == ServiceInv => DrainedIsQuiet
  <1> SUFFICES ASSUME ServiceInv, drain = "drained"
               PROVE  /\ ~routed.admitted /\ work = <<>>
                      /\ \A w \in Workers : busy[w] = IdleWorker
    BY DEF DrainedIsQuiet
  <1>1. inFlight = 0 /\ inFlight = Routed + Len(work) + Cardinality(BusyWorkers)
    BY DEF ServiceInv, StopHolds, CountIsExact
  <1>2. Len(work) \in Nat /\ Cardinality(BusyWorkers) \in Nat /\ Routed \in {0, 1}
        /\ work \in Seq(Messages)
    BY BusyIsFinite DEF ServiceInv, IngressTypeOK, Routed
  <1>3. Routed = 0 /\ Len(work) = 0 /\ Cardinality(BusyWorkers) = 0
    BY <1>1, <1>2
  <1>4. BusyWorkers = {}
    BY <1>3, BusyIsFinite, FS_EmptySet
  <1> QED BY <1>2, <1>3, <1>4 DEF Routed, BusyWorkers

\* What is recorded stays recorded, and a drained service records and answers
\* nothing.
LEMMA ServiceWrites ==
  ASSUME ServiceInv, IngressNext
  PROVE  Recorded \subseteq Recorded' /\ DrainedWritesNothing
  <1>1. CASE \E w \in Workers : Process(w)
    <2>1. PICK w \in Workers : Process(w)
      BY <1>1
    <2>2. busy[w] # IdleWorker
      BY <2>1 DEF Process, IdleWorker
    <2>3. drain # "drained"
      BY <2>2, ZeroIsQuiet DEF DrainedIsQuiet
    <2>4. stored \subseteq stored' /\ refused \subseteq refused'
      BY <2>1 DEF Process
    <2> QED BY <2>3, <2>4 DEF DrainedWritesNothing, Recorded
  <1>2. CASE ~\E w \in Workers : Process(w)
    <2>1. UNCHANGED <<stored, refused, acks>>
      BY <1>2 DEF IngressNext, Connection, Connect, OnConnect, SubscribeTopic,
             SetSubscriptionsReady, OnConnectionLost, Pipeline, Route, Admit, Offer, Take,
             Done, StopIngestion, Disconnect, Drained, DrainIncomplete, Start, Publish
    <2> QED BY <2>1 DEF DrainedWritesNothing, Recorded
  <1> QED BY <1>1, <1>2

\* StopIngestion returns nil only when the service is quiet: for any number of
\* workers, any queue and any interleaving of stops, starts, reconnections and
\* callbacks that were under way, nothing it admitted is left.
THEOREM DrainIsQuiet == IngressSpec => []DrainedIsQuiet
  <1>1. IngressInit => ServiceInv
    BY ServiceStart
  <1>2. ServiceInv /\ [IngressNext]_ingressVars => ServiceInv'
    <2>1. ServiceInv /\ UNCHANGED ingressVars => ServiceInv'
      BY DEF ingressVars, ServiceInv, IngressTypeOK, CountIsExact, StopHolds, AnswersAreTrue,
             BusyWorkers, Routed, Recorded
    <2> QED BY <2>1, ServiceKeeps
  <1> QED BY <1>1, <1>2, ZeroIsQuiet, PTL DEF IngressSpec

-----------------------------------------------------------------------------
(***************************************************************************)
(* Sequences                                                               *)
(***************************************************************************)
\* Removing one element moves the later ones up by one place.
LEMMA Removing ==
  ASSUME NEW S, NEW s \in Seq(S), NEW k \in 1..Len(s)
  PROVE  /\ RemoveAt(s, k) \in Seq(S) /\ Len(RemoveAt(s, k)) = Len(s) - 1
         /\ \A i \in 1..(Len(s) - 1) : RemoveAt(s, k)[i] = IF i < k THEN s[i] ELSE s[i + 1]
  <1> DEFINE a == SubSeq(s, 1, k - 1)
             b == SubSeq(s, k + 1, Len(s))
  <1>0. Len(s) \in Nat /\ k \in Nat /\ k >= 1 /\ k <= Len(s)
    OBVIOUS
  <1>1. /\ a \in Seq(S) /\ Len(a) = k - 1
        /\ \A i \in 1..(k - 1) : a[i] = s[i]
    OBVIOUS
  <1>2. /\ b \in Seq(S) /\ Len(b) = Len(s) - k
        /\ \A i \in 1..(Len(s) - k) : b[i] = s[k + i]
    OBVIOUS
  <1>3. RemoveAt(s, k) = a \o b
    BY DEF RemoveAt
  <1> HIDE DEF a, b
  <1>4. /\ a \o b \in Seq(S) /\ Len(a \o b) = Len(a) + Len(b)
        /\ \A i \in 1..(Len(a) + Len(b)) : (a \o b)[i] = IF i <= Len(a) THEN a[i] ELSE b[i - Len(a)]
    BY <1>1, <1>2, ConcatProperties
  <1>5. Len(a) + Len(b) = Len(s) - 1
    BY <1>0, <1>1, <1>2
  <1>6. ASSUME NEW i \in 1..(Len(s) - 1)
        PROVE  (a \o b)[i] = IF i < k THEN s[i] ELSE s[i + 1]
    <2>1. CASE i < k
      <3>1. i \in 1..(k - 1) /\ i <= Len(a) /\ i \in 1..(Len(a) + Len(b))
        BY <1>0, <1>1, <1>5, <2>1
      <3>2. (a \o b)[i] = a[i]
        BY <1>4, <3>1
      <3> QED BY <1>1, <2>1, <3>1, <3>2
    <2>2. CASE ~(i < k)
      <3>1. i - (k - 1) \in 1..(Len(s) - k) /\ ~(i <= Len(a)) /\ i \in 1..(Len(a) + Len(b))
        BY <1>0, <1>1, <1>5, <2>2
      <3>2. (a \o b)[i] = b[i - (k - 1)]
        BY <1>1, <1>4, <3>1
      <3>3. b[i - (k - 1)] = s[k + (i - (k - 1))] /\ k + (i - (k - 1)) = i + 1
        BY <1>0, <1>2, <3>1
      <3> QED BY <2>2, <3>2, <3>3
    <2> QED BY <2>1, <2>2
  <1> QED BY <1>3, <1>4, <1>5, <1>6

\* The rest of an ordered sequence is ordered and lacks only its head.
LEMMA TailOfAscending ==
  ASSUME NEW s \in Seq(Items), s # <<>>, Ascending(s)
  PROVE  /\ Tail(s) \in Seq(Items) /\ Head(s) \in Items /\ Ascending(Tail(s))
         /\ Range(s) \subseteq Range(Tail(s)) \cup {Head(s)}
         /\ \A x \in Range(s) : Head(s) <= x
  <1>0. Len(s) \in Nat /\ Len(s) >= 1 /\ DOMAIN s = 1..Len(s) /\ Head(s) = s[1]
    OBVIOUS
  <1>1. /\ Tail(s) \in Seq(Items) /\ Len(Tail(s)) = Len(s) - 1
        /\ \A i \in 1..(Len(s) - 1) : Tail(s)[i] = s[i + 1]
        /\ DOMAIN Tail(s) = 1..(Len(s) - 1)
    BY <1>0
  <1>2. \A i \in 1..Len(s) : s[i] \in Nat /\ s[i] \in Items
    BY <1>0, Bounds DEF Items
  <1>3. Ascending(Tail(s))
    <2> SUFFICES ASSUME NEW i \in 1..(Len(s) - 1), NEW j \in 1..(Len(s) - 1), i < j
                 PROVE  Tail(s)[i] < Tail(s)[j]
      BY <1>1 DEF Ascending
    <2>1. i + 1 \in DOMAIN s /\ j + 1 \in DOMAIN s /\ i + 1 < j + 1
      BY <1>0
    <2> QED BY <1>1, <2>1 DEF Ascending
  <1>4. ASSUME NEW x \in Range(s)
        PROVE  x \in Range(Tail(s)) \cup {Head(s)} /\ Head(s) <= x
    <2>1. PICK i \in 1..Len(s) : s[i] = x
      BY <1>0 DEF Range
    <2>2. CASE i = 1
      BY <1>0, <1>2, <2>1, <2>2
    <2>3. CASE i # 1
      <3>1. i - 1 \in 1..(Len(s) - 1) /\ (i - 1) + 1 = i
        BY <1>0, <2>3
      <3>2. Tail(s)[i - 1] = x
        BY <1>1, <2>1, <3>1
      <3>3. s[1] < s[i]
        BY <1>0, <2>3 DEF Ascending
      <3>4. x \in Range(Tail(s))
        <4>1. i - 1 \in DOMAIN Tail(s)
          BY <1>1, <3>1
        <4> QED BY <3>2, <4>1 DEF Range
      <3>5. Head(s) <= x
        BY <1>0, <1>2, <2>1, <3>3
      <3> QED BY <3>4, <3>5
    <2> QED BY <2>2, <2>3
  <1> QED BY <1>0, <1>1, <1>2, <1>3, <1>4

\* HandleAck takes the one value out and leaves the others in their order.
LEMMA CompletingTakesOne ==
  ASSUME DeviceTypes, Ascending(items), NEW id \in Pending, Completing(id)
  PROVE  /\ items' \in Seq(Items) /\ Len(items') <= QueueCapacity
         /\ Ascending(items') /\ Pending' = Pending \ {id}
         /\ completed' \in Seq(Items) /\ Len(completed') <= QueueCapacity
  <1> DEFINE k == Position(id)
  <1>0. items \in Seq(Items) /\ Len(items) \in Nat /\ DOMAIN items = 1..Len(items)
        /\ Len(items) <= QueueCapacity /\ QueueCapacity \in Nat /\ QueueCapacity >= 1
    BY DeviceAssumption DEF DeviceTypes
  <1>1. k \in 1..Len(items) /\ items[k] = id
    BY <1>0 DEF Pending, Range, Position
  <1> HIDE DEF k
  <1>2. items' = RemoveAt(items, k)
    BY DEF Completing, k
  <1>3. /\ items' \in Seq(Items) /\ Len(items') = Len(items) - 1
        /\ \A i \in 1..(Len(items) - 1) : items'[i] = IF i < k THEN items[i] ELSE items[i + 1]
        /\ DOMAIN items' = 1..(Len(items) - 1)
    <2>1. /\ RemoveAt(items, k) \in Seq(Items) /\ Len(RemoveAt(items, k)) = Len(items) - 1
          /\ \A i \in 1..(Len(items) - 1) :
                RemoveAt(items, k)[i] = IF i < k THEN items[i] ELSE items[i + 1]
      BY <1>0, <1>1, Removing
    <2>2. DOMAIN RemoveAt(items, k) = 1..(Len(items) - 1)
      BY <2>1
    <2> QED BY <1>2, <2>1, <2>2
  <1>4. \A i \in 1..Len(items) : items[i] \in Items /\ items[i] \in Nat
    BY <1>0, Bounds DEF Items
  <1>5. Ascending(items')
    <2> SUFFICES ASSUME NEW i \in 1..(Len(items) - 1), NEW j \in 1..(Len(items) - 1), i < j
                 PROVE  items'[i] < items'[j]
      BY <1>3 DEF Ascending
    <2>1. \A p, q \in 1..Len(items) : p < q => items[p] < items[q]
      BY <1>0 DEF Ascending
    <2>2. i + 1 \in 1..Len(items) /\ j + 1 \in 1..Len(items)
          /\ i \in 1..Len(items) /\ j \in 1..Len(items)
      BY <1>0
    <2>3. CASE i < k /\ j < k
      BY <1>3, <2>1, <2>2, <2>3
    <2>4. CASE i < k /\ ~(j < k)
      <3>1. i < j + 1
        BY <1>0
      <3> QED BY <1>3, <2>1, <2>2, <2>4, <3>1
    <2>5. CASE ~(i < k)
      <3>1. ~(j < k) /\ i + 1 < j + 1
        BY <1>0, <1>1, <2>5
      <3> QED BY <1>3, <2>1, <2>2, <2>5, <3>1
    <2> QED BY <2>3, <2>4, <2>5
  <1>6. Pending' = Pending \ {id}
    <2>1. ASSUME NEW x \in Pending' PROVE x \in Pending \ {id}
      <3>1. PICK i \in 1..(Len(items) - 1) : items'[i] = x
        BY <1>3 DEF Pending, Range
      <3>2. PICK j \in 1..Len(items) : items[j] = x /\ j # k
        <4>1. CASE i < k
          BY <1>0, <1>3, <3>1, <4>1
        <4>2. CASE ~(i < k)
          <5>1. i + 1 \in 1..Len(items) /\ i + 1 # k
            BY <1>0, <1>1, <4>2
          <5> QED BY <1>3, <3>1, <4>2, <5>1
        <4> QED BY <4>1, <4>2
      <3>3. items[j] # items[k]
        BY <1>0, <1>1, <1>4, <3>2 DEF Ascending
      <3> QED BY <1>0, <1>1, <3>2, <3>3 DEF Pending, Range
    <2>2. ASSUME NEW x \in Pending, x # id PROVE x \in Pending'
      <3>1. PICK j \in 1..Len(items) : items[j] = x
        BY <1>0 DEF Pending, Range
      <3>2. j # k
        BY <1>1, <2>2, <3>1
      <3>3. CASE j < k
        <4>1. j \in 1..(Len(items) - 1)
          BY <1>0, <1>1, <3>3
        <4> QED BY <1>3, <3>1, <3>3, <4>1 DEF Pending, Range
      <3>4. CASE ~(j < k)
        <4>1. j - 1 \in 1..(Len(items) - 1) /\ ~(j - 1 < k) /\ (j - 1) + 1 = j
          BY <1>0, <1>1, <3>2, <3>4
        <4>2. items'[j - 1] = x
          BY <1>3, <3>1, <4>1
        <4> QED BY <1>3, <4>1, <4>2 DEF Pending, Range
      <3> QED BY <3>3, <3>4
    <2> QED BY <2>1, <2>2
  <1>7. completed' \in Seq(Items) /\ Len(completed') <= QueueCapacity
    <2> DEFINE all == Append(completed, id)
    <2>1. id \in Items
      BY <1>1, <1>4
    <2>2. completed \in Seq(Items) /\ Len(completed) <= QueueCapacity /\ Len(completed) \in Nat
      BY DEF DeviceTypes
    <2>3. all \in Seq(Items) /\ Len(all) = Len(completed) + 1
      BY <2>1, <2>2
    <2>4. completed' = IF Len(all) > QueueCapacity THEN Tail(all) ELSE all
      BY DEF Completing
    <2> HIDE DEF all
    <2>5. CASE Len(all) > QueueCapacity
      <3>1. all # <<>> /\ Tail(all) \in Seq(Items) /\ Len(Tail(all)) = Len(all) - 1
        BY <2>2, <2>3
      <3> QED BY <1>0, <2>2, <2>3, <2>4, <2>5, <3>1
    <2>6. CASE ~(Len(all) > QueueCapacity)
      BY <1>0, <2>2, <2>3, <2>4, <2>6
    <2> QED BY <2>5, <2>6
  <1> QED BY <1>0, <1>3, <1>5, <1>6, <1>7

-----------------------------------------------------------------------------
(***************************************************************************)
(* The device: what a step that leaves a part alone keeps                  *)
(***************************************************************************)
LifeType == [client : 0..MaxClients, epoch : Nat, restoring : Nat,
             ready : BOOLEAN, stopping : BOOLEAN]
LinkStates == {"none", "dialing", "up", "lost", "dead", "closed"}

LEMMA DeviceBounds ==
    /\ Modes \subseteq AllModes /\ QueueCapacity \in Nat /\ QueueCapacity >= 1
    /\ MaxClients \in Nat /\ MaxClients >= 1 /\ MaxSeq \in Nat /\ MaxSeq >= 1
    /\ "reconnect" \in Modes => MaxSeq >= 2
  BY DeviceAssumption, IngressAssumption

\* A client is not the absence of one.
LEMMA ClientIsNotZero ==
  ASSUME NEW c \in Clients PROVE c # 0 /\ c \in 0..MaxClients
  BY DeviceBounds DEF Clients

LEMMA ServiceFrame ==
  ASSUME ServiceInv, UNCHANGED ingressVars PROVE ServiceInv'
  BY DEF ingressVars, ServiceInv, IngressTypeOK, CountIsExact, StopHolds, AnswersAreTrue,
         BusyWorkers, Routed, Recorded

LEMMA ReceivedFrame ==
  ASSUME ReceivedIsTrue, UNCHANGED <<inbox, deferred>>, Recorded \subseteq Recorded'
  PROVE  ReceivedIsTrue'
  BY DEF ReceivedIsTrue

LEMMA SessionFrame ==
  ASSUME SessionInv, UNCHANGED <<life, links, restore, pub, stop>>,
         call'.pc = "sending" => call.pc = "sending"
  PROVE  SessionInv'
  <1>1. ReadyIsRestored'
    BY DEF SessionInv, ReadyIsRestored
  <1>2. CallbackFollowsLink' /\ ShutdownHolds'
    BY DEF SessionInv, CallbackFollowsLink, ShutdownHolds
  <1>3. PublicationsExclude'
    BY DEF SessionInv, PublicationsExclude
  <1> QED BY <1>1, <1>2, <1>3 DEF SessionInv

\* A step of somebody else cannot disturb the attempt, unless it ends the
\* session under an authorization.
LEMMA AttemptFrame ==
  ASSUME AttemptInv, UNCHANGED <<mode, items, call, next>>,
         authorized' \subseteq authorized,
         waiter' = waiter \/ waiter' = [waiter EXCEPT !.listed = FALSE],
         waiter \in WaiterType,
         call.id \in authorized' \cap Pending => StillReady'
  PROVE  AttemptInv'
  <1>1. Pending' = Pending /\ (DisconnectFirst <=> DisconnectFirst')
    BY DEF Pending, DisconnectFirst
  <1>2. waiter'.id = waiter.id /\ waiter'.queued = waiter.queued /\ waiter'.auth = waiter.auth
        /\ waiter'.got = waiter.got
    BY DEF WaiterType
  <1>3. QueueIsOrdered'
    BY <1>1 DEF AttemptInv, QueueIsOrdered, Ascending
  <1>4. AuthorizedIsWaiting'
    BY <1>1 DEF AttemptInv, AuthorizedIsWaiting
  <1>5. WaiterIsOfCall'
    BY <1>1, <1>2 DEF AttemptInv, WaiterIsOfCall
  <1>6. ReplayIsOrdered' /\ CallsAreCounted' /\ DisconnectIsFirst' /\ SuccessIsComplete'
    BY <1>1 DEF AttemptInv, ReplayIsOrdered, CallsAreCounted, DisconnectIsFirst,
                SuccessIsComplete, Ascending
  <1> QED BY <1>3, <1>4, <1>5, <1>6 DEF AttemptInv

LEMMA TypesFrame ==
  ASSUME DeviceTypes, UNCHANGED <<mode, items, completed, deferred, inbox, call, next, cancelled, stop>>,
         life' \in LifeType, links' \in [Clients -> LinkStates], wills' \subseteq Clients,
         retained' \in {"none", "online", "offline"}, pub' \in {"free", "restore", "send"},
         restore' \in RestoreType, authorized' \subseteq authorized, waiter' \in WaiterType
  PROVE  DeviceTypes'
  BY DEF DeviceTypes, LifeType, LinkStates

\* The device before its process starts.
LEMMA DeviceStart ==
  ASSUME IngressInit, Device PROVE DeliveryInv
  <1> USE DEF Device
  <1>1. ServiceInv
    BY ServiceStart
  <1>2. DeviceTypes
    <2>1. life \in LifeType /\ 0 \in 0..MaxClients
      BY DeviceBounds DEF LifeType
    <2>2. links \in [Clients -> LinkStates] /\ restore \in RestoreType
      BY DEF LinkStates, RestoreType
    <2>3. waiter \in WaiterType
      BY DeviceBounds DEF NoWaiter, WaiterType
    <2>4. call \in CallType
      BY DeviceBounds DEF Call, CallType, Pcs
    <2>5. stop \in [pc : {"none", "closing", "done"}, client : 0..MaxClients]
      BY <2>1
    <2>6. items \in Seq(Items) /\ completed \in Seq(Items) /\ Len(items) = 0 /\ Len(completed) = 0
      OBVIOUS
    <2>7. next \in 1..(MaxSeq + 1)
      BY DeviceBounds
    <2>8. /\ mode \in Modes /\ wills \subseteq Clients /\ retained \in {"none", "online", "offline"}
          /\ pub \in {"free", "restore", "send"} /\ authorized \subseteq Items
          /\ deferred \subseteq Items /\ cancelled \in BOOLEAN
          /\ inbox \subseteq [client : Clients, epoch : Nat, ack : Acks]
      OBVIOUS
    <2> HIDE DEF Device
    <2>9. Len(items) <= QueueCapacity /\ Len(completed) <= QueueCapacity
      BY <2>6, DeviceBounds
    <2> QED BY <2>1, <2>2, <2>3, <2>4, <2>5, <2>6, <2>7, <2>8, <2>9
            DEF DeviceTypes, LifeType, LinkStates
  <1>3. ReceivedIsTrue
    BY DEF ReceivedIsTrue
  <1>4. SessionInv
    BY DEF SessionInv, ReadyIsRestored, CallbackFollowsLink, PublicationsExclude, ShutdownHolds,
           Call
  <1>5. AttemptInv
    <2>1. call.pc = "boot" /\ call.id = 0 /\ call.todo = <<>> /\ call.step = 0
      BY DEF Call
    <2>2. DOMAIN items = {} /\ DOMAIN call.todo = {}
      BY <2>1
    <2>p. Pending = {}
      BY <2>2 DEF Pending, Range
    <2>3. QueueIsOrdered /\ AuthorizedIsWaiting /\ WaiterIsOfCall
      BY <2>1, <2>2, <2>p DEF QueueIsOrdered, AuthorizedIsWaiting, WaiterIsOfCall, Ascending,
                        Attempting, Waiting
    <2>4. ReplayIsOrdered /\ CallsAreCounted /\ DisconnectIsFirst /\ SuccessIsComplete
      BY <2>1, <2>2 DEF ReplayIsOrdered, CallsAreCounted, DisconnectIsFirst, SuccessIsComplete,
                        Ascending, Attempting, DisconnectFirst
    <2> QED BY <2>3, <2>4 DEF AttemptInv
  <1> QED BY <1>1, <1>2, <1>3, <1>4, <1>5 DEF DeliveryInv

(***************************************************************************)
(* The callbacks of the Paho clients                                       *)
(***************************************************************************)
\* A restoration that is under way is not the one a ready device has behind it.
LEMMA RestorationIsNotReady ==
  ASSUME DeliveryInv, NEW c \in Clients, restore[c].pc # "done"
  PROVE  ~(life.ready /\ life.client = c)
  BY DEF DeliveryInv, SessionInv, ReadyIsRestored

LEMMA DialedKeeps ==
  ASSUME DeliveryInv, NEW c \in Clients, Dialed(c) PROVE DeliveryInv'
  <1>1. /\ links[c] = "dialing" /\ links' = [links EXCEPT ![c] = "up"]
        /\ restore' = [restore EXCEPT ![c].pc = "begin"]
        /\ UNCHANGED <<ingressVars, mode, life, wills, retained, pub, items, completed,
                       authorized, deferred, waiter, inbox, call, next, cancelled, stop>>
    BY DEF Dialed
  <1>t. /\ links \in [Clients -> LinkStates] /\ restore \in RestoreType /\ waiter \in WaiterType
        /\ life \in LifeType /\ wills \subseteq Clients
        /\ retained \in {"none", "online", "offline"} /\ pub \in {"free", "restore", "send"}
    BY DEF DeliveryInv, DeviceTypes, LinkStates, LifeType
  <1>2. restore[c].pc = "none"
    BY <1>1 DEF DeliveryInv, SessionInv, CallbackFollowsLink
  <1>3. /\ links' \in [Clients -> LinkStates] /\ links'[c] = "up"
        /\ \A d \in Clients \ {c} : links'[d] = links[d]
    BY <1>1, <1>t DEF LinkStates
  <1>4. /\ restore' \in RestoreType /\ restore'[c].pc = "begin"
        /\ \A d \in Clients \ {c} : restore'[d] = restore[d]
    BY <1>1, <1>t DEF RestoreType
  <1>5. ServiceInv' /\ ReceivedIsTrue'
    BY <1>1, ServiceFrame, ReceivedFrame DEF DeliveryInv, ingressVars, Recorded
  <1>6. DeviceTypes'
    BY <1>1, <1>3, <1>4, <1>t, TypesFrame DEF DeliveryInv
  <1>7. SessionInv'
    <2>1. ReadyIsRestored'
      <3>1. life.ready => life.client # c
        BY <1>2, RestorationIsNotReady
      <3> QED BY <1>1, <1>4, <1>t, <3>1 DEF DeliveryInv, SessionInv, ReadyIsRestored, LifeType, Clients
    <2>2. CallbackFollowsLink'
      BY <1>3, <1>4 DEF DeliveryInv, SessionInv, CallbackFollowsLink
    <2>3. \A d \in Clients : restore'[d].pc = "publishing" => d # c /\ restore[d].pc = "publishing"
      BY <1>4
    <2>4. PublicationsExclude'
      BY <1>1, <2>3 DEF DeliveryInv, SessionInv, PublicationsExclude
    <2>5. ShutdownHolds'
      BY <1>1, <2>3 DEF DeliveryInv, SessionInv, ShutdownHolds
    <2> QED BY <2>1, <2>2, <2>4, <2>5 DEF SessionInv
  <1>8. AttemptInv'
    <2>1. call.id \in authorized' \cap Pending => StillReady'
      BY <1>1 DEF DeliveryInv, AttemptInv, AuthorizedIsWaiting, StillReady
    <2> QED BY <1>1, <1>t, <2>1, AttemptFrame DEF DeliveryInv
  <1> QED BY <1>5, <1>6, <1>7, <1>8 DEF DeliveryInv

\* One step of the restoration of client c.
LEMMA RestorationSession ==
  ASSUME DeliveryInv, NEW c \in Clients, restore[c].pc \notin {"none", "done"},
         restore' \in RestoreType, \A d \in Clients \ {c} : restore'[d] = restore[d],
         UNCHANGED <<links, stop, call>>,
         life' \in LifeType, life'.stopping = life.stopping,
         life'.ready => \/ life' = life
                        \/ /\ restore'[c] = [pc |-> "done", epoch |-> life'.epoch]
                           /\ life'.client = c /\ ~life'.stopping,
         restore'[c].pc = "publishing" => pub = "free" /\ pub' = "restore" /\ ~life.stopping,
         restore'[c].pc # "publishing" => \/ pub' = pub /\ restore[c].pc # "publishing"
                                          \/ pub' = "free" /\ restore[c].pc = "publishing"
  PROVE  SessionInv'
  <1>1. ReadyIsRestored'
    <2> SUFFICES ASSUME life'.ready
                 PROVE  /\ ~life'.stopping /\ life'.client # 0
                        /\ restore'[life'.client] = [pc |-> "done", epoch |-> life'.epoch]
      BY DEF ReadyIsRestored
    <2>1. CASE life' = life
      <3>1. life.client # c
        BY <2>1, RestorationIsNotReady
      <3>2. /\ ~life.stopping /\ life.client # 0
            /\ restore[life.client] = [pc |-> "done", epoch |-> life.epoch]
        BY <2>1 DEF DeliveryInv, SessionInv, ReadyIsRestored
      <3>3. life.client \in Clients \ {c}
        BY <2>1, <3>1, <3>2, DeviceBounds DEF LifeType, Clients
      <3> QED BY <2>1, <3>2, <3>3
    <2>2. CASE life' # life
      BY <2>2, ClientIsNotZero
    <2> QED BY <2>1, <2>2
  <1>2. CallbackFollowsLink'
    BY DEF DeliveryInv, SessionInv, CallbackFollowsLink
  <1>3. PublicationsExclude'
    <2>1. /\ call.pc = "sending" => pub = "send"
          /\ \A d \in Clients : restore[d].pc = "publishing" => pub = "restore"
          /\ \A d, e \in Clients :
                restore[d].pc = "publishing" /\ restore[e].pc = "publishing" => d = e
      BY DEF DeliveryInv, SessionInv, PublicationsExclude
    <2>2. CASE restore'[c].pc = "publishing"
      <3>1. \A d \in Clients : restore'[d].pc = "publishing" => d = c
        BY <2>1, <2>2
      <3> QED BY <2>1, <2>2, <3>1 DEF PublicationsExclude
    <2>3. CASE restore'[c].pc # "publishing"
      <3>1. \A d \in Clients : restore'[d].pc = "publishing"
              => d # c /\ restore[d].pc = "publishing" /\ restore[c].pc # "publishing"
        BY <2>1, <2>3
      <3> QED BY <2>1, <2>3, <3>1 DEF PublicationsExclude
    <2> QED BY <2>2, <2>3
  <1>4. ShutdownHolds'
    BY DEF DeliveryInv, SessionInv, ShutdownHolds
  <1> QED BY <1>1, <1>2, <1>3, <1>4 DEF SessionInv

\* Such a step keeps the whole invariant when it keeps the attempt's session.
LEMMA RestorationKeeps ==
  ASSUME DeliveryInv, ServiceInv', SessionInv', Recorded \subseteq Recorded',
         UNCHANGED <<mode, links, wills, items, completed, authorized, deferred, waiter,
                     inbox, call, next, cancelled, stop>>,
         life' \in LifeType, restore' \in RestoreType, pub' \in {"free", "restore", "send"},
         retained' \in {"none", "online", "offline"},
         StillReady => StillReady'
  PROVE  DeliveryInv'
  <1>t. /\ links \in [Clients -> LinkStates] /\ waiter \in WaiterType /\ wills \subseteq Clients
    BY DEF DeliveryInv, DeviceTypes, LinkStates
  <1>1. DeviceTypes'
    BY <1>t, TypesFrame DEF DeliveryInv
  <1>2. ReceivedIsTrue'
    BY ReceivedFrame DEF DeliveryInv
  <1>3. call.id \in authorized' \cap Pending => StillReady'
    BY DEF DeliveryInv, AttemptInv, AuthorizedIsWaiting
  <1>4. AttemptInv'
    BY <1>3, <1>t, AttemptFrame DEF DeliveryInv
  <1> QED BY <1>1, <1>2, <1>4 DEF DeliveryInv

\* What the restoration's steps need of the types.
LEMMA RestorationTypes ==
  ASSUME DeliveryInv, NEW c \in Clients
  PROVE  /\ restore \in RestoreType /\ life \in LifeType
         /\ restore[c].epoch \in Nat /\ life.epoch \in Nat /\ life.epoch + 1 \in Nat
         /\ pub \in {"free", "restore", "send"} /\ retained \in {"none", "online", "offline"}
  BY DEF DeliveryInv, DeviceTypes, RestoreType, LifeType

LEMMA BeginRestorationKeeps ==
  ASSUME DeliveryInv, NEW c \in Clients, BeginRestoration(c) PROVE DeliveryInv'
  <1>1. /\ restore[c].pc = "begin"
        /\ UNCHANGED <<ingressVars, mode, links, wills, retained, pub, items, completed,
                       authorized, deferred, waiter, inbox, call, next, cancelled, stop>>
    BY DEF BeginRestoration
  <1>2. ServiceInv' /\ Recorded \subseteq Recorded'
    BY <1>1, ServiceFrame DEF DeliveryInv, ingressVars, Recorded
  <1>3. CASE life.stopping \/ life.client # c
    <2>1. restore' = [restore EXCEPT ![c].pc = "done"] /\ life' = life
      BY <1>3 DEF BeginRestoration
    <2>2. restore' \in RestoreType /\ restore'[c].pc = "done"
          /\ \A d \in Clients \ {c} : restore'[d] = restore[d]
      BY <2>1, RestorationTypes DEF RestoreType
    <2>3. SessionInv'
      BY <1>1, <2>1, <2>2, RestorationTypes, RestorationSession
    <2>4. StillReady => StillReady'
      BY <1>1, <2>1 DEF StillReady
    <2> QED BY <1>1, <1>2, <2>1, <2>2, <2>3, <2>4, RestorationTypes, RestorationKeeps
  <1>4. CASE ~(life.stopping \/ life.client # c)
    <2>1. /\ life' = [Invalidated(life) EXCEPT !.restoring = life.epoch + 1]
          /\ restore' = [restore EXCEPT ![c] = [pc |-> "ack", epoch |-> life.epoch + 1]]
      BY <1>4 DEF BeginRestoration
    <2>2. restore' \in RestoreType /\ restore'[c].pc = "ack"
          /\ \A d \in Clients \ {c} : restore'[d] = restore[d]
      BY <2>1, RestorationTypes DEF RestoreType
    <2>3. life' \in LifeType /\ ~life'.ready /\ life'.stopping = life.stopping
      BY <2>1, RestorationTypes DEF LifeType, Invalidated
    <2>4. SessionInv'
      BY <1>1, <2>2, <2>3, RestorationSession
    <2>5. ~StillReady
      BY <1>1, <1>4, RestorationIsNotReady DEF StillReady
    <2> QED BY <1>1, <1>2, <2>2, <2>3, <2>4, <2>5, RestorationTypes, RestorationKeeps
  <1> QED BY <1>3, <1>4

LEMMA SubscribeKeeps ==
  ASSUME DeliveryInv, NEW c \in Clients, SubscribeRequired(c) PROVE DeliveryInv'
  <1>1. /\ restore[c].pc \in {"ack", "command"}
        /\ UNCHANGED <<uplink, session, gate, restoring, routed, work, busy, inFlight,
                       drain, stored, refused, acks>>
        /\ UNCHANGED <<mode, life, links, wills, retained, pub, items, completed,
                       authorized, deferred, waiter, inbox, call, next, cancelled, stop>>
    BY DEF SubscribeRequired
  <1>2. PICK q \in {"command", "status", "done"} : restore' = [restore EXCEPT ![c].pc = q]
    BY RestorationTypes DEF SubscribeRequired, RestoreType
  <1>3. losses' \in 0..MaxLosses
    BY Bounds DEF SubscribeRequired, Fault, DeliveryInv, ServiceInv, IngressTypeOK
  <1>4. ServiceInv' /\ Recorded \subseteq Recorded'
    <2>1. uplink \in Seq(Messages) /\ session \in {"down", "up", "closed"}
      BY DEF DeliveryInv, ServiceInv, IngressTypeOK
    <2> QED BY <1>1, <1>3, <2>1, ServiceUntouched DEF DeliveryInv, Recorded
  <1>5. restore' \in RestoreType /\ restore'[c].pc = q
        /\ \A d \in Clients \ {c} : restore'[d] = restore[d]
    BY <1>2, RestorationTypes DEF RestoreType
  <1>6. SessionInv'
    BY <1>1, <1>5, RestorationTypes, RestorationSession
  <1>7. StillReady => StillReady'
    BY <1>1 DEF StillReady
  <1> QED BY <1>1, <1>4, <1>5, <1>6, <1>7, RestorationTypes, RestorationKeeps

LEMMA AdmitStatusKeeps ==
  ASSUME DeliveryInv, NEW c \in Clients, AdmitStatus(c) PROVE DeliveryInv'
  <1>1. /\ restore[c].pc = "status" /\ pub = "free"
        /\ UNCHANGED <<ingressVars, mode, life, links, wills, retained, items, completed,
                       authorized, deferred, waiter, inbox, call, next, cancelled, stop>>
    BY DEF AdmitStatus
  <1>2. ServiceInv' /\ Recorded \subseteq Recorded'
    BY <1>1, ServiceFrame DEF DeliveryInv, ingressVars, Recorded
  <1>3. PICK q \in {"publishing", "done"} :
           /\ restore' = [restore EXCEPT ![c].pc = q]
           /\ q = "publishing" => pub' = "restore" /\ ~life.stopping
           /\ q = "done" => pub' = pub
    BY DEF AdmitStatus, CurrentRestoration
  <1>4. restore' \in RestoreType /\ restore'[c].pc = q
        /\ \A d \in Clients \ {c} : restore'[d] = restore[d]
    BY <1>3, RestorationTypes DEF RestoreType
  <1>5. SessionInv'
    BY <1>1, <1>3, <1>4, RestorationTypes, RestorationSession
  <1>6. StillReady => StillReady'
    BY <1>1 DEF StillReady
  <1>7. pub' \in {"free", "restore", "send"}
    BY <1>1, <1>3
  <1> QED BY <1>1, <1>2, <1>4, <1>5, <1>6, <1>7, RestorationTypes, RestorationKeeps

LEMMA PublishStatusKeeps ==
  ASSUME DeliveryInv, NEW c \in Clients, PublishStatus(c) PROVE DeliveryInv'
  <1>1. /\ restore[c].pc = "publishing" /\ pub' = "free"
        /\ UNCHANGED <<ingressVars, mode, life, links, wills, items, completed,
                       authorized, deferred, waiter, inbox, call, next, cancelled, stop>>
    BY DEF PublishStatus
  <1>2. ServiceInv' /\ Recorded \subseteq Recorded'
    BY <1>1, ServiceFrame DEF DeliveryInv, ingressVars, Recorded
  <1>3. PICK q \in {"token", "done"} : restore' = [restore EXCEPT ![c].pc = q]
    BY DEF PublishStatus
  <1>4. restore' \in RestoreType /\ restore'[c].pc = q
        /\ \A d \in Clients \ {c} : restore'[d] = restore[d]
    BY <1>3, RestorationTypes DEF RestoreType
  <1>5. SessionInv'
    BY <1>1, <1>4, RestorationTypes, RestorationSession
  <1>6. StillReady => StillReady'
    BY <1>1 DEF StillReady
  <1>7. retained' \in {"none", "online", "offline"}
    BY RestorationTypes DEF PublishStatus
  <1> QED BY <1>1, <1>2, <1>4, <1>5, <1>6, <1>7, RestorationTypes, RestorationKeeps

LEMMA CommitReadyKeeps ==
  ASSUME DeliveryInv, NEW c \in Clients, CommitReady(c) PROVE DeliveryInv'
  <1>1. /\ restore[c].pc = "token" /\ restore' = [restore EXCEPT ![c].pc = "done"]
        /\ UNCHANGED <<ingressVars, mode, links, wills, retained, pub, items, completed,
                       authorized, deferred, waiter, inbox, call, next, cancelled, stop>>
    BY DEF CommitReady
  <1>2. ServiceInv' /\ Recorded \subseteq Recorded'
    BY <1>1, ServiceFrame DEF DeliveryInv, ingressVars, Recorded
  <1>3. /\ restore' \in RestoreType /\ restore'[c].pc = "done"
        /\ restore'[c] = [pc |-> "done", epoch |-> restore[c].epoch]
        /\ \A d \in Clients \ {c} : restore'[d] = restore[d]
    BY <1>1, RestorationTypes DEF RestoreType
  <1>4. CASE life' = life
    <2>1. SessionInv'
      BY <1>1, <1>3, <1>4, RestorationTypes, RestorationSession
    <2>2. StillReady => StillReady'
      BY <1>1, <1>4 DEF StillReady
    <2> QED BY <1>1, <1>2, <1>3, <1>4, <2>1, <2>2, RestorationTypes, RestorationKeeps
  <1>5. CASE life' = [life EXCEPT !.ready = TRUE] /\ CurrentRestoration(c)
    <2>1. /\ life' \in LifeType /\ life'.client = c /\ life'.epoch = restore[c].epoch
          /\ ~life'.stopping /\ life'.stopping = life.stopping
      BY <1>5, RestorationTypes DEF LifeType, CurrentRestoration
    <2>2. SessionInv'
      BY <1>1, <1>3, <2>1, RestorationSession
    <2>3. StillReady => StillReady'
      BY <1>1, <1>5, RestorationTypes DEF StillReady, LifeType
    <2> QED BY <1>1, <1>2, <1>3, <2>1, <2>2, <2>3, RestorationTypes, RestorationKeeps
  <1> QED BY <1>4, <1>5 DEF CommitReady

(***************************************************************************)
(* Breaks, ACKs under way, and the end                                     *)
(***************************************************************************)
\* The session after a step that invalidates it, or leaves it alone.
LEMMA EndingSession ==
  ASSUME DeliveryInv, UNCHANGED <<restore, pub>>,
         call'.pc = "sending" => call.pc = "sending",
         life' = life \/ ~life'.ready, life.stopping => life'.stopping,
         \A c \in Clients : links'[c] \in {"none", "dialing"} => links[c] \in {"none", "dialing"},
         stop'.pc # "none" => life'.stopping,
         stop'.pc = "done" => stop.pc = "done" \/ pub = "free"
  PROVE  SessionInv'
  <1>1. ReadyIsRestored'
    BY DEF DeliveryInv, SessionInv, ReadyIsRestored
  <1>2. CallbackFollowsLink'
    BY DEF DeliveryInv, SessionInv, CallbackFollowsLink
  <1>3. PublicationsExclude'
    BY DEF DeliveryInv, SessionInv, PublicationsExclude
  <1>4. ShutdownHolds'
    BY DEF DeliveryInv, SessionInv, ShutdownHolds, PublicationsExclude
  <1> QED BY <1>1, <1>2, <1>3, <1>4 DEF SessionInv

LEMMA LinkBreaksKeeps ==
  ASSUME DeliveryInv, NEW c \in Clients, LinkBreaks(c) PROVE DeliveryInv'
  <1>1. /\ links' = [links EXCEPT ![c] = "lost"] /\ wills' = wills \cup {c}
        /\ UNCHANGED <<uplink, session, gate, restoring, routed, work, busy, inFlight,
                       drain, stored, refused, acks>>
        /\ UNCHANGED <<mode, life, retained, pub, restore, items, completed, authorized,
                       deferred, waiter, inbox, call, next, cancelled, stop>>
        /\ losses' \in 0..MaxLosses
    BY Bounds DEF LinkBreaks, Fault, DeliveryInv, ServiceInv, IngressTypeOK
  <1>t. /\ links \in [Clients -> LinkStates] /\ wills \subseteq Clients /\ waiter \in WaiterType
    BY DEF DeliveryInv, DeviceTypes, LinkStates
  <1>2. ServiceInv' /\ Recorded \subseteq Recorded'
    <2>1. uplink \in Seq(Messages) /\ session \in {"down", "up", "closed"}
      BY DEF DeliveryInv, ServiceInv, IngressTypeOK
    <2> QED BY <1>1, <2>1, ServiceUntouched DEF DeliveryInv, Recorded
  <1>3. ReceivedIsTrue'
    BY <1>1, <1>2, ReceivedFrame DEF DeliveryInv
  <1>4. links' \in [Clients -> LinkStates] /\ wills' \subseteq Clients
        /\ \A d \in Clients : links'[d] \in {"none", "dialing"} => links[d] \in {"none", "dialing"}
    BY <1>1, <1>t DEF LinkStates
  <1>5. DeviceTypes'
    BY <1>1, <1>4, <1>t, RestorationTypes, TypesFrame DEF DeliveryInv
  <1>6. SessionInv'
    BY <1>1, <1>4, EndingSession DEF DeliveryInv, SessionInv, ShutdownHolds
  <1>7. call.id \in authorized' \cap Pending => StillReady'
    BY <1>1 DEF DeliveryInv, AttemptInv, AuthorizedIsWaiting, StillReady
  <1>8. AttemptInv'
    BY <1>1, <1>7, <1>t, AttemptFrame DEF DeliveryInv
  <1> QED BY <1>2, <1>3, <1>5, <1>6, <1>8 DEF DeliveryInv

LEMMA WillKeeps ==
  ASSUME DeliveryInv, NEW c \in Clients, BrokerPublishesWill(c) PROVE DeliveryInv'
  <1>1. /\ wills' \subseteq wills /\ retained' = "offline"
        /\ UNCHANGED <<ingressVars, mode, life, links, pub, restore, items, completed,
                       authorized, deferred, waiter, inbox, call, next, cancelled, stop>>
    BY DEF BrokerPublishesWill
  <1>t. /\ links \in [Clients -> LinkStates] /\ wills \subseteq Clients /\ waiter \in WaiterType
    BY DEF DeliveryInv, DeviceTypes, LinkStates
  <1>2. ServiceInv' /\ ReceivedIsTrue'
    BY <1>1, ServiceFrame, ReceivedFrame DEF DeliveryInv, ingressVars, Recorded
  <1>3. wills' \subseteq Clients /\ retained' \in {"none", "online", "offline"}
    BY <1>1, <1>t
  <1>4. DeviceTypes'
    BY <1>1, <1>3, <1>t, RestorationTypes, TypesFrame DEF DeliveryInv
  <1>5. SessionInv'
    BY <1>1, SessionFrame DEF DeliveryInv
  <1>6. call.id \in authorized' \cap Pending => StillReady'
    BY <1>1 DEF DeliveryInv, AttemptInv, AuthorizedIsWaiting, StillReady
  <1>7. AttemptInv'
    BY <1>1, <1>6, <1>t, AttemptFrame DEF DeliveryInv
  <1> QED BY <1>2, <1>4, <1>5, <1>7 DEF DeliveryInv

\* pruneStaleQueueWaiters leaves no authorization of a pending value behind.
LEMMA Pruned ==
  ASSUME DeliveryInv, Prune, UNCHANGED <<mode, items, call, next>>
  PROVE  /\ AttemptInv' /\ waiter' \in WaiterType /\ authorized' \subseteq authorized
  <1>1. /\ waiter' = [waiter EXCEPT !.listed = FALSE] /\ authorized' = authorized \ Pending
        /\ waiter \in WaiterType
    BY DEF Prune, DeliveryInv, DeviceTypes
  <1>2. waiter' \in WaiterType
    BY <1>1 DEF WaiterType
  <1>3. call.id \in authorized' \cap Pending => StillReady'
    BY <1>1
  <1> QED BY <1>1, <1>2, <1>3, AttemptFrame DEF DeliveryInv

LEMMA OnClientLostKeeps ==
  ASSUME DeliveryInv, NEW c \in Clients, OnClientLost(c) PROVE DeliveryInv'
  <1>1. /\ links' = [links EXCEPT ![c] = "dead"]
        /\ UNCHANGED <<ingressVars, mode, wills, retained, pub, restore, items, completed,
                       deferred, inbox, call, next, cancelled, stop>>
    BY DEF OnClientLost
  <1>t. /\ links \in [Clients -> LinkStates] /\ wills \subseteq Clients /\ waiter \in WaiterType
    BY DEF DeliveryInv, DeviceTypes, LinkStates
  <1>2. ServiceInv' /\ ReceivedIsTrue'
    BY <1>1, ServiceFrame, ReceivedFrame DEF DeliveryInv, ingressVars, Recorded
  <1>3. links' \in [Clients -> LinkStates]
        /\ \A d \in Clients : links'[d] \in {"none", "dialing"} => links[d] \in {"none", "dialing"}
    BY <1>1, <1>t DEF LinkStates
  <1>4. CASE UNCHANGED <<life, waiter, authorized>>
    <2>1. DeviceTypes'
      BY <1>1, <1>3, <1>4, <1>t, RestorationTypes, TypesFrame DEF DeliveryInv
    <2>2. SessionInv'
      BY <1>1, <1>3, <1>4, EndingSession DEF DeliveryInv, SessionInv, ShutdownHolds
    <2>3. call.id \in authorized' \cap Pending => StillReady'
      BY <1>1, <1>4 DEF DeliveryInv, AttemptInv, AuthorizedIsWaiting, StillReady
    <2>4. AttemptInv'
      BY <1>1, <1>4, <1>t, <2>3, AttemptFrame DEF DeliveryInv
    <2> QED BY <1>2, <2>1, <2>2, <2>4 DEF DeliveryInv
  <1>5. CASE life' = Invalidated(life) /\ Prune
    <2>1. life' \in LifeType /\ ~life'.ready /\ life'.stopping = life.stopping
      BY <1>5, RestorationTypes DEF LifeType, Invalidated
    <2>2. AttemptInv' /\ waiter' \in WaiterType /\ authorized' \subseteq authorized
      BY <1>1, <1>5, Pruned
    <2>3. DeviceTypes'
      BY <1>1, <1>3, <1>t, <2>1, <2>2, RestorationTypes, TypesFrame DEF DeliveryInv
    <2>4. SessionInv'
      BY <1>1, <1>3, <2>1, EndingSession DEF DeliveryInv, SessionInv, ShutdownHolds
    <2> QED BY <1>2, <2>2, <2>3, <2>4 DEF DeliveryInv
  <1> QED BY <1>4, <1>5 DEF OnClientLost

\* An ACK between the broker and onMessage's second critical section.
LEMMA AckUnderWayKeeps ==
  ASSUME DeliveryInv, NEW a \in acks,
         (\E c \in Clients : OnMessage(a, c)) \/ AckUndelivered(a)
  PROVE  DeliveryInv'
  <1>1. /\ acks' \subseteq acks
        /\ UNCHANGED <<uplink, session, gate, restoring, routed, work, busy, inFlight,
                       drain, stored, refused, losses>>
        /\ UNCHANGED <<mode, life, links, wills, retained, pub, restore, items, completed,
                       authorized, deferred, waiter, call, next, cancelled, stop>>
    BY DEF OnMessage, AckUndelivered, deviceVars
  <1>t. DeviceTypes /\ life.epoch \in Nat /\ a \in Acks
    BY DEF DeliveryInv, DeviceTypes, ServiceInv, IngressTypeOK
  <1>2. ServiceInv' /\ Recorded' = Recorded
    <2>1. uplink \in Seq(Messages) /\ session \in {"down", "up", "closed"} /\ losses \in 0..MaxLosses
      BY DEF DeliveryInv, ServiceInv, IngressTypeOK
    <2> QED BY <1>1, <2>1, ServiceUntouched DEF DeliveryInv, Recorded
  <1>3. \/ inbox' = inbox
        \/ \E c \in Clients : inbox' = inbox \cup {[client |-> c, epoch |-> life.epoch, ack |-> a]}
    BY DEF OnMessage, AckUndelivered, deviceVars
  <1>4. inbox' \subseteq [client : Clients, epoch : Nat, ack : Acks]
    <2>1. inbox \subseteq [client : Clients, epoch : Nat, ack : Acks]
      BY <1>t DEF DeviceTypes
    <2> QED BY <1>3, <1>t, <2>1
  <1>5. DeviceTypes'
    BY <1>1, <1>4, <1>t DEF DeviceTypes
  <1>6. \A x \in inbox' : x \in inbox \/ x.ack = a
    BY <1>3
  <1>7. ReceivedIsTrue'
    BY <1>1, <1>2, <1>6 DEF DeliveryInv, ReceivedIsTrue, ServiceInv, AnswersAreTrue
  <1>8. SessionInv'
    BY <1>1, SessionFrame DEF DeliveryInv
  <1>9. call.id \in authorized' \cap Pending => StillReady'
    BY <1>1 DEF DeliveryInv, AttemptInv, AuthorizedIsWaiting, StillReady
  <1>10. AttemptInv'
    BY <1>1, <1>9, <1>t, AttemptFrame DEF DeliveryInv, DeviceTypes
  <1> QED BY <1>2, <1>5, <1>7, <1>8, <1>10 DEF DeliveryInv

\* A step of the service, or of the network before it.
LEMMA BackendKeeps ==
  ASSUME DeliveryInv, ServiceInv', Recorded \subseteq Recorded', UNCHANGED deviceVars
  PROVE  DeliveryInv'
  <1>1. UNCHANGED <<mode, life, links, wills, retained, pub, restore, items, completed,
                    authorized, deferred, waiter, inbox, call, next, cancelled, stop>>
    BY DEF deviceVars
  <1>2. DeviceTypes'
    BY <1>1 DEF DeliveryInv, DeviceTypes
  <1>3. ReceivedIsTrue'
    BY <1>1, ReceivedFrame DEF DeliveryInv
  <1>4. SessionInv'
    BY <1>1, SessionFrame DEF DeliveryInv
  <1>5. call.id \in authorized' \cap Pending => StillReady'
    BY <1>1 DEF DeliveryInv, AttemptInv, AuthorizedIsWaiting, StillReady
  <1>6. AttemptInv'
    BY <1>1, <1>5, AttemptFrame DEF DeliveryInv, DeviceTypes
  <1> QED BY <1>2, <1>3, <1>4, <1>6 DEF DeliveryInv

LEMMA InterruptKeeps ==
  ASSUME DeliveryInv, Interrupt PROVE DeliveryInv'
  <1>1. /\ cancelled' = TRUE
        /\ UNCHANGED <<ingressVars, mode, life, links, wills, retained, pub, restore, items,
                       completed, authorized, deferred, waiter, inbox, call, next, stop>>
    BY DEF Interrupt
  <1>2. ServiceInv' /\ ReceivedIsTrue'
    BY <1>1, ServiceFrame, ReceivedFrame DEF DeliveryInv, ingressVars, Recorded
  <1>3. DeviceTypes'
    BY <1>1 DEF DeliveryInv, DeviceTypes
  <1>4. SessionInv'
    BY <1>1, SessionFrame DEF DeliveryInv
  <1>5. call.id \in authorized' \cap Pending => StillReady'
    BY <1>1 DEF DeliveryInv, AttemptInv, AuthorizedIsWaiting, StillReady
  <1>6. AttemptInv'
    BY <1>1, <1>5, AttemptFrame DEF DeliveryInv, DeviceTypes
  <1> QED BY <1>2, <1>3, <1>4, <1>6 DEF DeliveryInv

\* shutdown ends the session and denies the next one.
LEMMA BeginShutdownKeeps ==
  ASSUME DeliveryInv, BeginShutdown PROVE DeliveryInv'
  <1>1. /\ stop' = [pc |-> "closing", client |-> life.client] /\ Prune
        /\ life' = [Invalidated(life) EXCEPT !.stopping = TRUE, !.client = 0]
        /\ UNCHANGED <<ingressVars, mode, links, wills, retained, pub, restore, items,
                       completed, deferred, inbox, call, next, cancelled>>
    BY DEF BeginShutdown
  <1>t. DeviceTypes /\ life \in LifeType /\ 0 \in 0..MaxClients
    BY DeviceBounds DEF DeliveryInv, DeviceTypes, LifeType
  <1>2. ServiceInv' /\ ReceivedIsTrue'
    BY <1>1, ServiceFrame, ReceivedFrame DEF DeliveryInv, ingressVars, Recorded
  <1>3. life' \in LifeType /\ ~life'.ready /\ life'.stopping
    <2> DEFINE l == Invalidated(life)
    <2>e. life.epoch \in Nat /\ life.epoch + 1 \in Nat
      BY <1>t DEF LifeType
    <2>1. l \in LifeType /\ ~l.ready
      BY <1>t, <2>e DEF LifeType, Invalidated
    <2>2. life' = [l EXCEPT !.stopping = TRUE, !.client = 0]
      BY <1>1
    <2> HIDE DEF l
    <2> QED BY <1>t, <2>1, <2>2 DEF LifeType
  <1>4. stop' \in [pc : {"none", "closing", "done"}, client : 0..MaxClients] /\ stop'.pc = "closing"
    BY <1>1, <1>t DEF LifeType
  <1>5. AttemptInv' /\ waiter' \in WaiterType /\ authorized' \subseteq authorized
    BY <1>1, Pruned
  <1>6. DeviceTypes'
    BY <1>1, <1>3, <1>4, <1>5, <1>t DEF DeviceTypes, LifeType
  <1>7. SessionInv'
    BY <1>1, <1>3, <1>4, EndingSession
  <1> QED BY <1>2, <1>5, <1>6, <1>7 DEF DeliveryInv

\* The offline status waits for publishMu.
LEMMA PublishOfflineKeeps ==
  ASSUME DeliveryInv, PublishOffline PROVE DeliveryInv'
  <1>1. /\ stop.pc = "closing" /\ pub = "free" /\ stop' = [stop EXCEPT !.pc = "done"]
        /\ UNCHANGED <<ingressVars, mode, life, wills, pub, restore, items, completed,
                       authorized, deferred, waiter, inbox, call, next, cancelled>>
    BY DEF PublishOffline
  <1>t. /\ DeviceTypes /\ links \in [Clients -> LinkStates]
        /\ stop \in [pc : {"none", "closing", "done"}, client : 0..MaxClients]
    BY DEF DeliveryInv, DeviceTypes, LinkStates
  <1>2. ServiceInv' /\ ReceivedIsTrue'
    BY <1>1, ServiceFrame, ReceivedFrame DEF DeliveryInv, ingressVars, Recorded
  <1>3. stop' \in [pc : {"none", "closing", "done"}, client : 0..MaxClients] /\ stop'.pc = "done"
    BY <1>1, <1>t
  <1>4. links' \in [Clients -> LinkStates]
        /\ \A d \in Clients : links'[d] \in {"none", "dialing"} => links[d] \in {"none", "dialing"}
    <2>1. CASE links' = links
      BY <1>t, <2>1
    <2>2. CASE stop.client # 0 /\ links' = [links EXCEPT ![stop.client] = "closed"]
      <3>1. stop.client \in Clients
        BY <1>t, <2>2, DeviceBounds DEF Clients
      <3> QED BY <1>t, <2>2, <3>1 DEF LinkStates
    <2> QED BY <2>1, <2>2 DEF PublishOffline
  <1>5. retained' \in {"none", "online", "offline"}
    BY <1>t DEF PublishOffline, DeviceTypes
  <1>6. DeviceTypes'
    BY <1>1, <1>3, <1>4, <1>5, <1>t DEF DeviceTypes, LinkStates
  <1>7. SessionInv'
    <2>1. life.stopping
      BY <1>1 DEF DeliveryInv, SessionInv, ShutdownHolds
    <2> QED BY <1>1, <1>3, <1>4, <2>1, EndingSession
  <1>8. call.id \in authorized' \cap Pending => StillReady'
    BY <1>1 DEF DeliveryInv, AttemptInv, AuthorizedIsWaiting, StillReady
  <1>9. AttemptInv'
    BY <1>1, <1>8, <1>t, AttemptFrame DEF DeliveryInv, DeviceTypes
  <1> QED BY <1>2, <1>6, <1>7, <1>9 DEF DeliveryInv

(***************************************************************************)
(* The answers                                                             *)
(***************************************************************************)
\* handleAck under the queue's lock: a value leaves it only by an answer that
\* the backend gave, and only while the attempt for it waits in its session.
LEMMA ResolveAckKeeps ==
  ASSUME DeliveryInv, NEW x \in inbox, ResolveAck(x)
  PROVE  /\ DeliveryInv'
         /\ \A id \in Pending : id \notin Pending' =>
               /\ id \in Recorded
               /\ call.id = id /\ call.queued /\ call.pc = "wait" /\ StillReady
  <1> DEFINE id == x.ack.id
             terminal == Terminal(x.ack.status)
             stale == ~SessionOf(x.client) \/ life.epoch # x.epoch
  <1>1. /\ inbox' = inbox \ {x}
        /\ UNCHANGED <<ingressVars, mode, life, links, wills, retained, pub, restore,
                       call, next, cancelled, stop>>
    BY DEF ResolveAck
  <1>t. /\ DeviceTypes /\ waiter \in WaiterType /\ id \in Items /\ AttemptInv
        /\ deferred \subseteq Items /\ authorized \subseteq Items
        /\ inbox \subseteq [client : Clients, epoch : Nat, ack : Acks]
    BY DEF DeliveryInv, DeviceTypes, Acks
  <1>r. /\ terminal => id \in Recorded
        /\ deferred \subseteq Recorded
        /\ \A y \in inbox : Terminal(y.ack.status) => y.ack.id \in Recorded
    BY DEF DeliveryInv, ReceivedIsTrue
  <1>2. ServiceInv' /\ Recorded' = Recorded
    BY <1>1, ServiceFrame DEF DeliveryInv, ingressVars, Recorded
  <1>3. SessionInv'
    BY <1>1, SessionFrame DEF DeliveryInv
  <1>s. StillReady' <=> StillReady
    BY <1>1 DEF StillReady
  <1>4. CASE stale \/ (terminal /\ id \in Pending /\ id \notin authorized)
    <2>1. /\ UNCHANGED <<items, completed, authorized, waiter>>
          /\ deferred' = deferred \/ (deferred' = deferred \cup {id} /\ terminal)
      BY <1>4 DEF ResolveAck
    <2>2. DeviceTypes'
      BY <1>1, <1>t, <2>1 DEF DeviceTypes
    <2>3. ReceivedIsTrue'
      BY <1>1, <1>2, <1>r, <2>1 DEF ReceivedIsTrue
    <2>4. call.id \in authorized' \cap Pending => StillReady'
      BY <1>s, <1>t, <2>1 DEF AttemptInv, AuthorizedIsWaiting
    <2>5. AttemptInv'
      BY <1>1, <1>t, <2>1, <2>4, AttemptFrame
    <2>6. Pending' = Pending
      BY <2>1 DEF Pending
    <2> QED BY <1>2, <1>3, <2>2, <2>3, <2>5, <2>6 DEF DeliveryInv
  <1>5. CASE ~stale /\ terminal /\ id \in Pending /\ id \in authorized
    <2>1. /\ Completing(id) /\ authorized' = authorized \ {id} /\ deferred' = deferred \ {id}
          /\ waiter' = waiter \/ waiter' = Notified("terminal")
      BY <1>5 DEF ResolveAck
    <2>2. /\ items' \in Seq(Items) /\ Len(items') <= QueueCapacity
          /\ Ascending(items') /\ Pending' = Pending \ {id}
          /\ completed' \in Seq(Items) /\ Len(completed') <= QueueCapacity
      BY <1>5, <1>t, <2>1, CompletingTakesOne DEF AttemptInv, QueueIsOrdered
    <2>3. call.pc = "wait" /\ call.queued /\ call.id = id /\ StillReady
      BY <1>5, <1>t DEF AttemptInv, AuthorizedIsWaiting
    <2>4. waiter' \in WaiterType /\ waiter'.id = waiter.id /\ waiter'.queued = waiter.queued
      BY <1>t, <2>1 DEF WaiterType, Notified
    <2>5. DeviceTypes'
      <3>1. authorized' \subseteq Items /\ deferred' \subseteq Items
            /\ inbox' \subseteq [client : Clients, epoch : Nat, ack : Acks]
        BY <1>1, <1>t, <2>1
      <3> QED BY <1>1, <1>t, <2>2, <2>4, <3>1 DEF DeviceTypes
    <2>6. ReceivedIsTrue'
      BY <1>1, <1>2, <1>r, <2>1 DEF ReceivedIsTrue
    <2>7. AttemptInv'
      <3>u. UNCHANGED <<mode, call, next>> /\ (DisconnectFirst' <=> DisconnectFirst)
        BY <1>1 DEF DisconnectFirst
      <3>1. QueueIsOrdered'
        BY <1>t, <2>2, <2>3, <3>u DEF AttemptInv, QueueIsOrdered
      <3>2. AuthorizedIsWaiting'
        BY <1>t, <2>1, <2>3, <3>u DEF AttemptInv, AuthorizedIsWaiting
      <3>3. WaiterIsOfCall'
        BY <1>t, <2>2, <2>3, <2>4, <3>u DEF AttemptInv, WaiterIsOfCall, Attempting, Waiting
      <3>4. ReplayIsOrdered'
        BY <1>t, <2>2, <2>3, <3>u DEF AttemptInv, ReplayIsOrdered, Attempting, Ascending
      <3>5. items # <<>>
        BY <1>5 DEF Pending, Range
      <3>6. CallsAreCounted' /\ DisconnectIsFirst' /\ SuccessIsComplete'
        BY <1>t, <2>3, <3>5, <3>u DEF AttemptInv, CallsAreCounted, DisconnectIsFirst,
                                      SuccessIsComplete, Attempting
      <3> QED BY <3>1, <3>2, <3>3, <3>4, <3>6 DEF AttemptInv
    <2> QED BY <1>2, <1>3, <1>5, <1>r, <2>2, <2>3, <2>5, <2>6, <2>7 DEF DeliveryInv
  <1>6. CASE ~stale /\ ~(terminal /\ id \in Pending)
    <2>1. /\ UNCHANGED <<items, completed, authorized, deferred>>
          /\ waiter' = IF Accepts(id, terminal)
                       THEN Notified(IF terminal THEN "terminal" ELSE "nonterminal")
                       ELSE waiter
      BY <1>6 DEF ResolveAck
    <2>2. /\ waiter' \in WaiterType /\ waiter'.id = waiter.id /\ waiter'.queued = waiter.queued
          /\ waiter'.auth = waiter.auth
          /\ waiter'.got = waiter.got
             \/ (Accepts(id, terminal) /\ waiter'.got = IF terminal THEN "terminal" ELSE "nonterminal")
      BY <1>t, <2>1 DEF WaiterType, Notified
    <2>3. waiter'.got = "terminal" /\ waiter.got # "terminal" => waiter.auth /\ ~waiter.queued
      BY <1>6, <2>2 DEF Accepts
    <2>4. DeviceTypes'
      BY <1>1, <1>t, <2>1, <2>2 DEF DeviceTypes
    <2>5. ReceivedIsTrue'
      BY <1>1, <1>2, <1>r, <2>1 DEF ReceivedIsTrue
    <2>6. AttemptInv'
      <3>u. UNCHANGED <<mode, call, next, items, authorized>> /\ Pending' = Pending
            /\ (DisconnectFirst' <=> DisconnectFirst)
        BY <1>1, <2>1 DEF DisconnectFirst, Pending
      <3>1. QueueIsOrdered'
        BY <1>t, <3>u DEF AttemptInv, QueueIsOrdered, Ascending
      <3>2. AuthorizedIsWaiting'
        BY <1>s, <1>t, <3>u DEF AttemptInv, AuthorizedIsWaiting
      <3>3. WaiterIsOfCall'
        BY <1>t, <2>2, <2>3, <3>u DEF AttemptInv, WaiterIsOfCall, Attempting, Waiting
      <3>4. ReplayIsOrdered' /\ CallsAreCounted' /\ DisconnectIsFirst' /\ SuccessIsComplete'
        BY <1>t, <3>u DEF AttemptInv, ReplayIsOrdered, CallsAreCounted, DisconnectIsFirst,
                          SuccessIsComplete, Ascending
      <3> QED BY <3>1, <3>2, <3>3, <3>4 DEF AttemptInv
    <2>7. Pending' = Pending
      BY <2>1 DEF Pending
    <2> QED BY <1>2, <1>3, <2>4, <2>5, <2>6, <2>7 DEF DeliveryInv
  <1> QED BY <1>4, <1>5, <1>6

(***************************************************************************)
(* The goroutine                                                           *)
(***************************************************************************)
LEMMA CallTypes ==
  ASSUME DeliveryInv
  PROVE  /\ call \in CallType /\ waiter \in WaiterType /\ AttemptInv /\ DeviceTypes
         /\ items \in Seq(Items) /\ life \in LifeType /\ links \in [Clients -> LinkStates]
         /\ call.pc # "wait" => authorized = {}
  BY DEF DeliveryInv, DeviceTypes, AttemptInv, AuthorizedIsWaiting, LifeType, LinkStates

\* Outside an attempt nothing is authorized, and what holds is about the call.
LEMMA AtRest ==
  ASSUME DeliveryInv, UNCHANGED <<mode, items, next>>, authorized' = {},
         call'.pc \in {"exit", "idle", "install", "dialing", "detach"},
         call'.todo = <<>> \/ (call'.todo = call.todo /\ ~DisconnectFirst'),
         CallsAreCounted', mode = "reconnect" /\ call'.step = 0 => items = <<>>,
         call'.pc \in {"install", "dialing"} => call'.id = 0 /\ ~DisconnectFirst',
         call'.pc = "detach" => call'.id = 0 \/ DisconnectFirst',
         SuccessIsComplete'
  PROVE  AttemptInv'
  <1>1. Pending' = Pending
    BY DEF Pending
  <1>2. QueueIsOrdered'
    BY <1>1 DEF DeliveryInv, AttemptInv, QueueIsOrdered, Ascending
  <1>3. AuthorizedIsWaiting' /\ WaiterIsOfCall'
    BY DEF AuthorizedIsWaiting, WaiterIsOfCall, Attempting, Waiting
  <1>4. Ascending(call'.todo)
    BY DEF DeliveryInv, AttemptInv, ReplayIsOrdered, Ascending
  <1>5. ReplayIsOrdered'
    BY <1>4 DEF ReplayIsOrdered, Attempting, Ascending
  <1>6. DisconnectIsFirst'
    BY DEF DisconnectIsFirst
  <1> QED BY <1>2, <1>3, <1>5, <1>6 DEF AttemptInv

\* The end of an attempt: the replay goes on only behind a completed value.
LEMMA EndAttemptKeeps ==
  ASSUME DeliveryInv, call.pc \in Attempting \cup {"wait"}, NEW ok \in BOOLEAN, EndAttempt(ok),
         UNCHANGED <<mode, items, next>>,
         ok => call.pc = "wait" /\ (call.queued => call.id \notin Pending)
  PROVE  /\ AttemptInv' /\ call' \in CallType /\ waiter' \in WaiterType /\ authorized' = {}
         /\ call'.pc # "sending"
  <1>t. /\ call \in CallType /\ AttemptInv /\ call.todo \in Seq(Items)
        /\ call.pc # "wait" => authorized = {}
    BY CallTypes DEF CallType
  <1>1. waiter' \in WaiterType
    BY DeviceBounds DEF EndAttempt, NoWaiter, WaiterType
  <1>2. authorized' = {}
    BY <1>t DEF EndAttempt, AttemptInv, AuthorizedIsWaiting
  <1>3. CASE ok /\ call.todo # <<>>
    <2>1. call' = [call EXCEPT !.pc = "next", !.todo = Tail(@)]
      BY <1>3 DEF EndAttempt
    <2>2. /\ Tail(call.todo) \in Seq(Items) /\ Ascending(Tail(call.todo))
          /\ Range(call.todo) \subseteq Range(Tail(call.todo)) \cup {Head(call.todo)}
      BY <1>3, <1>t, TailOfAscending DEF AttemptInv, ReplayIsOrdered
    <2>3. /\ call' \in CallType /\ call'.pc = "next" /\ call'.todo = Tail(call.todo)
          /\ call'.queued = call.queued /\ call'.step = call.step /\ call'.id = call.id
      BY <1>t, <2>1, <2>2 DEF CallType, Pcs
    <2>4. /\ Pending \subseteq Range(call.todo) /\ Head(call.todo) = call.id /\ call.queued
          /\ call.id \notin Pending /\ call.pc = "wait"
      BY <1>3, <1>t DEF AttemptInv, ReplayIsOrdered, Attempting
    <2>5. Pending' = Pending /\ Pending \subseteq Range(Tail(call.todo))
      BY <2>2, <2>4 DEF Pending
    <2>6. ~DisconnectFirst /\ ~DisconnectFirst'
      BY <1>t, <2>3, <2>4 DEF AttemptInv, DisconnectIsFirst, DisconnectFirst
    <2>7. QueueIsOrdered'
      BY <1>t, <2>3, <2>5 DEF AttemptInv, QueueIsOrdered, Ascending
    <2>8. AuthorizedIsWaiting' /\ WaiterIsOfCall'
      BY <1>2, <2>3 DEF AuthorizedIsWaiting, WaiterIsOfCall, Attempting, Waiting
    <2>9. ReplayIsOrdered'
      BY <2>2, <2>3, <2>4, <2>5 DEF ReplayIsOrdered, Attempting, Ascending
    <2>10. CallsAreCounted' /\ DisconnectIsFirst' /\ SuccessIsComplete'
      BY <1>t, <2>3, <2>6 DEF AttemptInv, CallsAreCounted, DisconnectIsFirst, SuccessIsComplete,
                              Attempting
    <2> QED BY <1>1, <1>2, <2>3, <2>7, <2>8, <2>9, <2>10 DEF AttemptInv
  <1>4. CASE ~(ok /\ call.todo # <<>>)
    <2>1. call' = [call EXCEPT !.pc = "idle", !.ok = ok]
      BY <1>4 DEF EndAttempt
    <2>2. /\ call' \in CallType /\ call'.pc = "idle" /\ call'.todo = call.todo /\ call'.ok = ok
          /\ call'.queued = call.queued /\ call'.step = call.step /\ call'.id = call.id
      BY <1>t, <2>1 DEF CallType, Pcs
    <2>3. CallsAreCounted'
      BY <1>t, <2>2 DEF AttemptInv, CallsAreCounted, Attempting
    <2>4. call'.todo = <<>> \/ (call'.todo = call.todo /\ ~DisconnectFirst')
      BY <1>t, <2>2 DEF AttemptInv, DisconnectIsFirst, DisconnectFirst
    <2>5. mode = "reconnect" /\ call'.step = 0 => items = <<>>
      BY <1>t, <2>2 DEF AttemptInv, DisconnectIsFirst
    <2>6. SuccessIsComplete'
      BY <2>2 DEF SuccessIsComplete, Pending
    <2>7. AttemptInv'
      BY <1>2, <2>2, <2>3, <2>4, <2>5, <2>6, AtRest
    <2> QED BY <1>1, <1>2, <2>2, <2>7
  <1> QED BY <1>3, <1>4

\* The steps of the goroutine that touch neither the service nor the session.
LEMMA GoroutineFrame ==
  ASSUME DeliveryInv, AttemptInv', call' \in CallType, call'.pc # "sending",
         UNCHANGED <<ingressVars, mode, life, links, wills, retained, pub, restore, inbox,
                     deferred, cancelled, stop>>,
         waiter' \in WaiterType, authorized' \subseteq Items, next' \in 1..(MaxSeq + 1),
         items' \in Seq(Items), Len(items') <= QueueCapacity, UNCHANGED completed
  PROVE  DeliveryInv'
  <1>1. ServiceInv' /\ ReceivedIsTrue'
    BY ServiceFrame, ReceivedFrame DEF DeliveryInv, ingressVars, Recorded
  <1>2. SessionInv'
    BY SessionFrame DEF DeliveryInv
  <1>3. DeviceTypes'
    BY DEF DeliveryInv, DeviceTypes
  <1> QED BY <1>1, <1>2, <1>3 DEF DeliveryInv

\* The numbers of the queue and of the generator.
LEMMA QueueTypes ==
  ASSUME DeliveryInv
  PROVE  /\ next \in 1..(MaxSeq + 1) /\ items \in Seq(Items) /\ Len(items) <= QueueCapacity
         /\ authorized \subseteq Items /\ call.step \in Nat /\ call.step + 1 \in Nat
         /\ mode \in AllModes /\ mode \in Modes /\ Pending \subseteq Items
  <1>1. /\ next \in 1..(MaxSeq + 1) /\ items \in Seq(Items) /\ Len(items) <= QueueCapacity
        /\ authorized \subseteq Items /\ call \in CallType /\ mode \in Modes
    BY DEF DeliveryInv, DeviceTypes
  <1>2. call.step \in Nat
    BY <1>1 DEF CallType
  <1> QED BY <1>1, <1>2, DeviceBounds DEF Pending, Range

LEMMA BootKeeps ==
  ASSUME DeliveryInv, Boot PROVE DeliveryInv' /\ Pending = {}
  <1> DEFINE fill == IF mode = "offline-replay" /\ MaxSeq <= QueueCapacity THEN MaxSeq ELSE 0
             q == IF cancelled THEN "exit" ELSE "install"
  <1>1. /\ call.pc = "boot" /\ call' = [call EXCEPT !.pc = q]
        /\ items' = [i \in 1..fill |-> i] /\ next' = fill + 1
        /\ UNCHANGED <<ingressVars, mode, life, links, wills, retained, pub, restore,
                   completed, authorized, deferred, waiter, inbox, cancelled, stop>>
    BY DEF Boot
  <1>t. /\ call \in CallType /\ waiter \in WaiterType /\ AttemptInv /\ authorized = {}
    BY <1>1, CallTypes
  <1>0. Pending = {} /\ call.id = 0
    BY <1>1, <1>t DEF AttemptInv, QueueIsOrdered, DisconnectIsFirst, Pending, Range
  <1>2. /\ fill \in Nat /\ fill <= MaxSeq /\ fill <= QueueCapacity
        /\ mode # "offline-replay" => fill = 0
    BY DeviceBounds
  <1>3. q \in {"exit", "install"}
    OBVIOUS
  <1> HIDE DEF fill, q
  <1>4. /\ items' \in Seq(Items) /\ Len(items') = fill /\ DOMAIN items' = 1..fill
        /\ \A i \in 1..fill : items'[i] = i
    <2>1. \A i \in 1..fill : i \in Items
      BY <1>2, DeviceBounds DEF Items
    <2>2. items' \in [1..fill -> Items] /\ items' \in Seq(Items)
      BY <1>1, <1>2, <2>1
    <2> QED BY <1>1, <1>2, <2>2
  <1>5. /\ call' \in CallType /\ call'.pc = q /\ call'.id = 0 /\ call'.todo = call.todo
        /\ call'.step = call.step
    BY <1>0, <1>1, <1>3, <1>t DEF CallType, Pcs
  <1>6. Ascending(items') /\ \A id \in Pending' : id < next'
    BY <1>1, <1>2, <1>4 DEF Ascending, Pending, Range
  <1>7. fill = 0 => items' = <<>> /\ next' = 1
    BY <1>1, <1>2, <1>4
  <1>8. AttemptInv'
    <2>1. QueueIsOrdered'
      BY <1>3, <1>5, <1>6 DEF QueueIsOrdered
    <2>2. AuthorizedIsWaiting' /\ WaiterIsOfCall'
      BY <1>1, <1>3, <1>5, <1>t DEF AuthorizedIsWaiting, WaiterIsOfCall, Attempting, Waiting
    <2>3. ReplayIsOrdered'
      BY <1>3, <1>5, <1>t DEF AttemptInv, ReplayIsOrdered, Attempting, Ascending
    <2>4. ~DisconnectFirst
      BY <1>1, <1>t DEF AttemptInv, DisconnectIsFirst
    <2>5. ~DisconnectFirst'
      BY <1>1, <1>5, <2>4 DEF DisconnectFirst
    <2>6. call.step = 0
      BY <1>1, <1>t DEF AttemptInv, CallsAreCounted
    <2>7. CallsAreCounted'
      BY <1>1, <1>2, <1>3, <1>5, <1>7, <1>t, <2>6 DEF AttemptInv, CallsAreCounted, Attempting
    <2>8. DisconnectIsFirst' /\ SuccessIsComplete'
      BY <1>1, <1>2, <1>3, <1>5, <1>7, <2>5 DEF DisconnectIsFirst, SuccessIsComplete
    <2> QED BY <2>1, <2>2, <2>3, <2>7, <2>8 DEF AttemptInv
  <1>9. next' \in 1..(MaxSeq + 1) /\ Len(items') <= QueueCapacity
    BY <1>1, <1>2, <1>4, DeviceBounds
  <1> QED BY <1>0, <1>1, <1>3, <1>4, <1>5, <1>8, <1>9, <1>t, GoroutineFrame

\* connect: a new client invalidates the session, and nobody waits in it.
LEMMA InstallKeeps ==
  ASSUME DeliveryInv, Install PROVE DeliveryInv'
  <1>1. /\ call.pc = "install"
        /\ UNCHANGED <<ingressVars, mode, wills, retained, pub, restore, items, completed,
                       authorized, deferred, waiter, inbox, next, cancelled, stop>>
    BY DEF Install
  <1>t. /\ call \in CallType /\ waiter \in WaiterType /\ AttemptInv /\ authorized = {}
        /\ DeviceTypes /\ life \in LifeType /\ links \in [Clients -> LinkStates]
        /\ life.epoch + 1 \in Nat
    BY <1>1, CallTypes DEF LifeType
  <1>0. call.id = 0 /\ ~DisconnectFirst
    BY <1>1, <1>t DEF AttemptInv, DisconnectIsFirst
  <1>2. ASSUME NEW q \in {"exit", "dialing"}, NEW k \in 0..MaxClients,
               call' = [call EXCEPT !.pc = q, !.client = k]
        PROVE  call' \in CallType /\ call'.pc = q /\ AttemptInv'
    <2>1. /\ call' \in CallType /\ call'.pc = q /\ call'.todo = call.todo
          /\ call'.id = call.id /\ call'.step = call.step
      BY <1>2, <1>t DEF CallType, Pcs
    <2>2. CallsAreCounted'
      BY <1>1, <1>t, <2>1 DEF AttemptInv, CallsAreCounted, Attempting
    <2>3. ~DisconnectFirst'
      BY <1>0, <1>1, <2>1 DEF DisconnectFirst
    <2>4. mode = "reconnect" /\ call'.step = 0 => items = <<>>
      BY <1>t, <2>1 DEF AttemptInv, DisconnectIsFirst
    <2>5. SuccessIsComplete'
      BY <1>0, <2>1 DEF SuccessIsComplete
    <2> QED BY <1>0, <1>1, <1>t, <2>1, <2>2, <2>3, <2>4, <2>5, AtRest
  <1>3. CASE life.stopping /\ call' = [call EXCEPT !.pc = "exit"] /\ UNCHANGED <<life, links>>
    <2>1. call' = [call EXCEPT !.pc = "exit", !.client = call.client] /\ call.client \in 0..MaxClients
      BY <1>3, <1>t DEF CallType
    <2>2. call' \in CallType /\ call'.pc = "exit" /\ AttemptInv'
      BY <1>2, <2>1
    <2> QED BY <1>1, <1>3, <1>t, <2>2, QueueTypes, GoroutineFrame
  <1>4. ASSUME NEW c \in Clients, links[c] = "none",
               links' = [links EXCEPT ![c] = "dialing"],
               life' = [Invalidated(life) EXCEPT !.client = c],
               call' = [call EXCEPT !.pc = "dialing", !.client = c]
        PROVE  DeliveryInv'
    <2>1. call' \in CallType /\ call'.pc = "dialing" /\ AttemptInv'
      BY <1>2, <1>4, ClientIsNotZero
    <2>2. life' \in LifeType /\ ~life'.ready /\ life'.stopping = life.stopping
      <3> DEFINE l == Invalidated(life)
      <3>1. l \in LifeType /\ ~l.ready /\ l.stopping = life.stopping
        BY <1>t DEF LifeType, Invalidated
      <3>2. life' = [l EXCEPT !.client = c] /\ c \in 0..MaxClients
        BY <1>4, ClientIsNotZero
      <3> HIDE DEF l
      <3> QED BY <3>1, <3>2 DEF LifeType
    <2>3. /\ links' \in [Clients -> LinkStates]
          /\ \A d \in Clients : links'[d] \in {"none", "dialing"} => links[d] \in {"none", "dialing"}
      BY <1>4, <1>t DEF LinkStates
    <2>4. ServiceInv' /\ ReceivedIsTrue'
      BY <1>1, ServiceFrame, ReceivedFrame DEF DeliveryInv, ingressVars, Recorded
    <2>5. DeviceTypes'
      BY <1>1, <1>t, <2>1, <2>2, <2>3 DEF DeviceTypes, LifeType, LinkStates
    <2>6. SessionInv'
      BY <1>1, <2>1, <2>2, <2>3, EndingSession DEF DeliveryInv, SessionInv, ShutdownHolds
    <2> QED BY <2>1, <2>4, <2>5, <2>6 DEF DeliveryInv
  <1> QED BY <1>3, <1>4 DEF Install

LEMMA AwaitReadyKeeps ==
  ASSUME DeliveryInv, AwaitReady PROVE DeliveryInv'
  <1>1. /\ call.pc = "dialing"
        /\ UNCHANGED <<ingressVars, mode, life, links, wills, retained, pub, restore, items,
                       completed, authorized, deferred, waiter, inbox, next, cancelled, stop>>
    BY DEF AwaitReady
  <1>t. /\ call \in CallType /\ waiter \in WaiterType /\ AttemptInv /\ authorized = {}
    BY <1>1, CallTypes
  <1>0. call.id = 0 /\ ~DisconnectFirst
    BY <1>1, <1>t DEF AttemptInv, DisconnectIsFirst
  <1>2. PICK q \in {"exit", "idle"} : call' = [call EXCEPT !.pc = q]
    BY DEF AwaitReady
  <1>3. /\ call' \in CallType /\ call'.pc = q /\ call'.todo = call.todo
        /\ call'.id = call.id /\ call'.step = call.step
    BY <1>2, <1>t DEF CallType, Pcs
  <1>4. CallsAreCounted'
    BY <1>1, <1>3, <1>t DEF AttemptInv, CallsAreCounted, Attempting
  <1>5. ~DisconnectFirst'
    BY <1>0, <1>1, <1>3 DEF DisconnectFirst
  <1>6. mode = "reconnect" /\ call'.step = 0 => items = <<>>
    BY <1>3, <1>t DEF AttemptInv, DisconnectIsFirst
  <1>7. SuccessIsComplete'
    BY <1>0, <1>3 DEF SuccessIsComplete
  <1>8. AttemptInv'
    BY <1>0, <1>1, <1>3, <1>4, <1>5, <1>6, <1>7, <1>t, AtRest
  <1> QED BY <1>1, <1>3, <1>8, <1>t, QueueTypes, GoroutineFrame

\* A call begins: a fresh value to enqueue, a replay, or the repeated value.
LEMMA BeginCallKeeps ==
  ASSUME DeliveryInv, call.pc = "idle", UNCHANGED <<mode, items, authorized, waiter>>,
         NEW q \in {"enqueue", "snapshot", "register"}, NEW id \in 0..MaxSeq,
         NEW queued \in BOOLEAN, BeginCall(q, id, queued),
         q = "enqueue" => id = next /\ next' = next + 1 /\ queued,
         q = "snapshot" => queued,
         q = "register" => mode = "duplicate" /\ id \in Items /\ ~queued,
         mode = "duplicate" => call.step # 0 \/ next = 1,
         mode = "reconnect" => call.step \in {0, 2, 3},
         mode = "reconnect" /\ call.step = 2 => next' = next,
         mode = "reconnect" /\ call.step = 0 => q = "enqueue",
         q # "enqueue" => next' = next
  PROVE  AttemptInv' /\ call' \in CallType /\ call'.pc # "sending"
  <1>t. /\ call \in CallType /\ AttemptInv /\ authorized = {} /\ call.step \in Nat
        /\ call.step + 1 \in Nat /\ next \in 1..(MaxSeq + 1) /\ Pending \subseteq Items
    BY CallTypes, QueueTypes
  <1>1. /\ call' \in CallType /\ call'.pc = q /\ call'.id = id /\ call'.todo = <<>>
        /\ call'.queued = queued /\ call'.step = call.step + 1
    <2>1. call' = [pc |-> q, id |-> id, todo |-> <<>>, queued |-> queued, client |-> 0,
                   epoch |-> 0, ok |-> TRUE, step |-> call.step + 1]
      BY DEF BeginCall, Call
    <2> QED BY <1>t, <2>1, DeviceBounds DEF CallType, Pcs
  <1>2. Pending' = Pending
    BY DEF Pending
  <1>3. QueueIsOrdered'
    <2>1. \A x \in Pending : x < next /\ x \in Nat
      BY <1>t DEF AttemptInv, QueueIsOrdered, Items
    <2>2. \A x \in Pending : x < next'
      BY <1>t, <2>1
    <2>3. q = "enqueue" => id \in Items /\ id < next'
      BY <1>t, DeviceBounds DEF Items
    <2>4. Ascending(items')
      BY <1>t DEF AttemptInv, QueueIsOrdered, Ascending
    <2> QED BY <1>1, <1>2, <2>1, <2>2, <2>3, <2>4 DEF QueueIsOrdered
  <1>4. AuthorizedIsWaiting' /\ WaiterIsOfCall'
    BY <1>1, <1>t DEF AuthorizedIsWaiting, WaiterIsOfCall, Attempting, Waiting
  <1>5. ReplayIsOrdered'
    BY <1>1 DEF ReplayIsOrdered, Attempting, Ascending
  <1>6. CallsAreCounted'
    <2>1. mode = "reconnect" => (call.step = 0 => next = 1) /\ (call.step \in 1..3 => next = 2)
      BY <1>t DEF AttemptInv, CallsAreCounted
    <2>2. mode' = "reconnect" /\ call'.step \in 1..3 => next' = 2
      BY <1>1, <1>t, <2>1
    <2> QED BY <1>1, <1>t, <2>2 DEF CallsAreCounted, Attempting
  <1>7. DisconnectIsFirst'
    <2>1. DisconnectFirst' => mode = "reconnect" /\ call.step = 0 /\ items = <<>> /\ q = "enqueue"
      BY <1>1, <1>t DEF DisconnectFirst, AttemptInv, DisconnectIsFirst
    <2> QED BY <1>1, <1>t, <2>1 DEF DisconnectIsFirst
  <1>8. SuccessIsComplete'
    BY <1>1 DEF SuccessIsComplete
  <1> QED BY <1>1, <1>3, <1>4, <1>5, <1>6, <1>7, <1>8 DEF AttemptInv

LEMMA RunModeKeeps ==
  ASSUME DeliveryInv, RunMode PROVE DeliveryInv'
  <1>1. /\ call.pc = "idle"
        /\ UNCHANGED <<ingressVars, mode, life, links, wills, retained, pub, restore, items,
                       completed, authorized, deferred, waiter, inbox, cancelled, stop>>
    BY DEF RunMode
  <1>t. /\ call \in CallType /\ waiter \in WaiterType /\ AttemptInv /\ authorized = {}
        /\ next \in 1..(MaxSeq + 1) /\ call.step \in Nat
    BY <1>1, CallTypes, QueueTypes
  <1>c. /\ mode \in {"duplicate", "reconnect"} /\ call.step = 0 => next = 1
        /\ mode = "reconnect" /\ call.step \in 1..3 => next = 2
        /\ mode = "reconnect" => MaxSeq >= 2
    BY <1>t, QueueTypes, DeviceBounds DEF AttemptInv, CallsAreCounted
  <1>2. CASE call' = [call EXCEPT !.pc = "exit"] /\ UNCHANGED next
    <2>1. /\ call' \in CallType /\ call'.pc = "exit" /\ call'.todo = call.todo
          /\ call'.step = call.step
      BY <1>2, <1>t DEF CallType, Pcs
    <2>2. CallsAreCounted'
      BY <1>1, <1>2, <1>t, <2>1 DEF AttemptInv, CallsAreCounted, Attempting
    <2>3. call'.todo = <<>> \/ (call'.todo = call.todo /\ ~DisconnectFirst')
      BY <1>1, <1>t, <2>1 DEF AttemptInv, DisconnectIsFirst, DisconnectFirst
    <2>4. mode = "reconnect" /\ call'.step = 0 => items = <<>>
      BY <1>t, <2>1 DEF AttemptInv, DisconnectIsFirst
    <2>5. SuccessIsComplete'
      BY <2>1 DEF SuccessIsComplete
    <2>6. AttemptInv'
      BY <1>1, <1>2, <1>t, <2>1, <2>2, <2>3, <2>4, <2>5, AtRest
    <2> QED BY <1>1, <1>2, <1>t, <2>1, <2>6, QueueTypes, GoroutineFrame
  <1>3. CASE /\ BeginCall("enqueue", next, TRUE) /\ next' = next + 1 /\ next <= MaxSeq
             /\ mode \in {"duplicate", "reconnect"} => call.step \in {0, 3}
    <2>1. next \in 0..MaxSeq /\ next' \in 1..(MaxSeq + 1)
      BY <1>3, <1>t, DeviceBounds
    <2>2. /\ mode = "duplicate" => call.step # 0 \/ next = 1
          /\ mode = "reconnect" => call.step \in {0, 2, 3} /\ call.step # 2
      BY <1>3, <1>c
    <2>3. AttemptInv' /\ call' \in CallType /\ call'.pc # "sending"
      BY <1>1, <1>3, <2>1, <2>2, BeginCallKeeps
    <2> QED BY <1>1, <1>t, <2>1, <2>3, QueueTypes, GoroutineFrame
  <1>4. CASE /\ BeginCall("register", 1, FALSE) /\ UNCHANGED next
             /\ mode = "duplicate" /\ call.step = 1
    <2>1. 1 \in 0..MaxSeq /\ 1 \in Items
      BY DeviceBounds DEF Items
    <2>a. /\ "register" \in {"enqueue", "snapshot", "register"} /\ FALSE \in BOOLEAN
          /\ mode # "reconnect" /\ call.step # 0 /\ next' = next
      BY <1>4
    <2>2. AttemptInv' /\ call' \in CallType /\ call'.pc # "sending"
      BY <1>1, <1>4, <2>1, <2>a, BeginCallKeeps
    <2> QED BY <1>1, <1>4, <1>t, <2>2, QueueTypes, GoroutineFrame
  <1>5. CASE /\ BeginCall("snapshot", 0, TRUE) /\ UNCHANGED next
             /\ mode = "offline-replay" \/ (mode = "reconnect" /\ call.step = 2)
    <2>1. 0 \in 0..MaxSeq
      BY DeviceBounds
    <2>a. /\ "snapshot" \in {"enqueue", "snapshot", "register"} /\ TRUE \in BOOLEAN
          /\ mode # "duplicate" /\ next' = next
          /\ mode = "reconnect" => call.step = 2 /\ call.step \in {0, 2, 3} /\ call.step # 0
      BY <1>5
    <2>2. AttemptInv' /\ call' \in CallType /\ call'.pc # "sending"
      BY <1>1, <1>5, <2>1, <2>a, BeginCallKeeps
    <2> QED BY <1>1, <1>5, <1>t, <2>2, QueueTypes, GoroutineFrame
  <1>6. CASE /\ mode = "reconnect" /\ call.step = 1 /\ UNCHANGED next
             /\ \E q \in {"exit", "detach", "install"} : call' = [Call(q) EXCEPT !.step = 2]
    <2>1. PICK q \in {"exit", "detach", "install"} : call' = [Call(q) EXCEPT !.step = 2]
      BY <1>6
    <2>2. call' = [pc |-> q, id |-> 0, todo |-> <<>>, queued |-> TRUE, client |-> 0,
                   epoch |-> 0, ok |-> TRUE, step |-> 2]
      BY <2>1 DEF Call
    <2>3. /\ call' \in CallType /\ call'.pc = q /\ call'.id = 0 /\ call'.todo = <<>>
          /\ call'.step = 2
      BY <2>2, DeviceBounds DEF CallType, Pcs
    <2>4. CallsAreCounted' /\ SuccessIsComplete' /\ ~DisconnectFirst'
      BY <1>1, <1>6, <1>c, <2>3 DEF CallsAreCounted, SuccessIsComplete, DisconnectFirst, Attempting
    <2>5. AttemptInv'
      BY <1>1, <1>6, <1>t, <2>3, <2>4, AtRest
    <2> QED BY <1>1, <1>6, <1>t, <2>3, <2>5, QueueTypes, GoroutineFrame
  <1>7. CASE RunContinuous
    BY <1>2, <1>3, <1>7 DEF RunContinuous
  <1>8. CASE RunDuplicate
    <2>1. call.step = 0 => next <= MaxSeq
      BY <1>8, <1>c, DeviceBounds DEF RunDuplicate
    <2> QED BY <1>2, <1>3, <1>4, <1>8, <2>1 DEF RunDuplicate
  <1>9. CASE RunOfflineReplay
    BY <1>2, <1>5, <1>9 DEF RunOfflineReplay
  <1>10. CASE RunReconnect
    <2>1. call.step \in {0, 3} => next <= MaxSeq
      BY <1>10, <1>c, DeviceBounds DEF RunReconnect
    <2>2. CASE call.step = 0 /\ next' = next + 1 /\ BeginCall("enqueue", next, TRUE)
      BY <1>3, <2>1, <2>2
    <2>3. CASE /\ call.step = 1 /\ UNCHANGED next
               /\ call' = [Call(IF cancelled THEN "exit"
                           ELSE IF life.client # 0 THEN "detach" ELSE "install")
                         EXCEPT !.step = 2]
      BY <1>6, <1>10, <2>3 DEF RunReconnect
    <2>4. CASE call.step = 2 /\ BeginCall("snapshot", 0, TRUE) /\ UNCHANGED next
      BY <1>5, <1>10, <2>4 DEF RunReconnect
    <2>5. CASE call.step = 3 /\ call.ok /\ BeginCall("enqueue", next, TRUE) /\ next' = next + 1
      BY <1>3, <2>1, <2>5
    <2> QED BY <1>2, <1>10, <2>2, <2>3, <2>4, <2>5 DEF RunReconnect
  <1> QED BY <1>7, <1>8, <1>9, <1>10 DEF RunMode

\* Enqueue: the new value is the youngest.
LEMMA EnqueueKeeps ==
  ASSUME DeliveryInv, Enqueue PROVE DeliveryInv' /\ Pending \subseteq Pending'
  <1>1. /\ call.pc = "enqueue"
        /\ UNCHANGED <<ingressVars, mode, life, links, wills, retained, pub, restore,
                       completed, authorized, deferred, waiter, inbox, next, cancelled, stop>>
    BY DEF Enqueue
  <1>t. /\ call \in CallType /\ waiter \in WaiterType /\ AttemptInv /\ authorized = {}
        /\ items \in Seq(Items) /\ Len(items) \in Nat
    BY <1>1, CallTypes
  <1>q. /\ call.id \in Items /\ call.id < next /\ Ascending(items)
        /\ \A x \in Pending : x < call.id
        /\ \A x \in Pending : x < next
        /\ call.todo = <<>> /\ call.queued
        /\ DisconnectFirst => items = <<>>
        /\ mode = "reconnect" /\ call.step = 0 => items = <<>>
    BY <1>1, <1>t DEF AttemptInv, QueueIsOrdered, ReplayIsOrdered, DisconnectIsFirst
  <1>2. CASE /\ Len(items) < QueueCapacity /\ items' = Append(items, call.id)
             /\ call' = [call EXCEPT !.pc = IF DisconnectFirst THEN "register" ELSE "snapshot"]
    <2> DEFINE q == IF DisconnectFirst THEN "register" ELSE "snapshot"
    <2>1. /\ call' \in CallType /\ call'.pc = q /\ call'.id = call.id /\ call'.todo = <<>>
          /\ call'.queued /\ call'.step = call.step
      BY <1>2, <1>q, <1>t DEF CallType, Pcs
    <2>2. /\ items' \in Seq(Items) /\ Len(items') = Len(items) + 1 /\ items' # <<>>
          /\ \A i \in 1..Len(items) : items'[i] = items[i]
          /\ items'[Len(items) + 1] = call.id /\ DOMAIN items' = 1..(Len(items) + 1)
      BY <1>2, <1>q, <1>t
    <2>3. Pending' = Pending \cup {call.id}
      <3>1. \A x \in Pending : x \in Pending'
        BY <1>t, <2>2 DEF Pending, Range
      <3>2. call.id \in Pending'
        BY <1>t, <2>2 DEF Pending, Range
      <3>3. ASSUME NEW x \in Pending' PROVE x \in Pending \cup {call.id}
        <4>1. PICK i \in 1..(Len(items) + 1) : items'[i] = x
          BY <2>2 DEF Pending, Range
        <4>2. CASE i = Len(items) + 1
          BY <2>2, <4>1, <4>2
        <4>3. CASE i # Len(items) + 1
          <5>1. i \in 1..Len(items)
            BY <1>t, <4>3
          <5> QED BY <1>t, <2>2, <4>1, <5>1 DEF Pending, Range
        <4> QED BY <4>2, <4>3
      <3> QED BY <3>1, <3>2, <3>3
    <2>4. Ascending(items')
      <3> SUFFICES ASSUME NEW i \in 1..(Len(items) + 1), NEW j \in 1..(Len(items) + 1), i < j
                   PROVE  items'[i] < items'[j]
        BY <2>2 DEF Ascending
      <3>1. i \in 1..Len(items) /\ i \in DOMAIN items
        BY <1>t
      <3>2. CASE j = Len(items) + 1
        <4>1. items[i] \in Pending
          BY <3>1 DEF Pending, Range
        <4> QED BY <1>q, <2>2, <3>1, <3>2, <4>1
      <3>3. CASE j # Len(items) + 1
        <4>1. j \in 1..Len(items) /\ j \in DOMAIN items
          BY <1>t, <3>3
        <4> QED BY <1>q, <2>2, <3>1, <4>1 DEF Ascending
      <3> QED BY <3>2, <3>3
    <2>5. DisconnectFirst' <=> DisconnectFirst
      BY <1>1, <2>1 DEF DisconnectFirst
    <2>6. ~(mode = "reconnect" /\ call.step = 0)
      BY <1>1, <1>t, <1>q DEF AttemptInv, CallsAreCounted, Items
    <2>7. QueueIsOrdered'
      BY <1>1, <1>q, <2>1, <2>3, <2>4 DEF QueueIsOrdered
    <2>8. AuthorizedIsWaiting' /\ WaiterIsOfCall'
      BY <1>1, <1>t, <2>1 DEF AuthorizedIsWaiting, WaiterIsOfCall, Attempting, Waiting
    <2>9. DisconnectFirst => Head(items') = call.id
      BY <1>q, <1>t, <2>2
    <2>10. ReplayIsOrdered'
      BY <2>1, <2>2, <2>5, <2>9 DEF ReplayIsOrdered, Attempting, Ascending
    <2>11. CallsAreCounted' /\ DisconnectIsFirst' /\ SuccessIsComplete'
      BY <1>1, <1>q, <1>t, <2>1, <2>5, <2>6 DEF AttemptInv, CallsAreCounted, DisconnectIsFirst,
                                                SuccessIsComplete, Attempting
    <2>12. AttemptInv'
      BY <2>7, <2>8, <2>10, <2>11 DEF AttemptInv
    <2>13. Len(items') <= QueueCapacity
      BY <1>2, <1>t, <2>2, DeviceBounds
    <2> QED BY <1>1, <1>t, <2>1, <2>2, <2>3, <2>12, <2>13, QueueTypes, GoroutineFrame
  <1>3. CASE call' = [call EXCEPT !.pc = "idle", !.ok = FALSE] /\ UNCHANGED items
    <2>1. /\ call' \in CallType /\ call'.pc = "idle" /\ call'.todo = call.todo
          /\ call'.step = call.step /\ ~call'.ok
      BY <1>3, <1>t DEF CallType, Pcs
    <2>2. CallsAreCounted' /\ SuccessIsComplete'
      BY <1>1, <1>t, <2>1 DEF AttemptInv, CallsAreCounted, Attempting, SuccessIsComplete
    <2>3. AttemptInv'
      BY <1>1, <1>3, <1>q, <1>t, <2>1, <2>2, AtRest
    <2>4. Pending' = Pending
      BY <1>3 DEF Pending
    <2> QED BY <1>1, <1>3, <1>t, <2>1, <2>3, <2>4, QueueTypes, GoroutineFrame
  <1> QED BY <1>2, <1>3 DEF Enqueue

\* replayPendingLocked takes its snapshot.
LEMMA SnapshotKeeps ==
  ASSUME DeliveryInv, Snapshot PROVE DeliveryInv'
  <1>1. /\ call.pc = "snapshot" /\ call' = [call EXCEPT !.pc = "next", !.todo = items]
        /\ UNCHANGED <<ingressVars, mode, life, links, wills, retained, pub, restore, items,
                       completed, authorized, deferred, waiter, inbox, next, cancelled, stop>>
    BY DEF Snapshot
  <1>t. /\ call \in CallType /\ waiter \in WaiterType /\ AttemptInv /\ authorized = {}
        /\ items \in Seq(Items)
    BY <1>1, CallTypes
  <1>q. call.queued /\ ~DisconnectFirst
    BY <1>1, <1>t DEF AttemptInv, ReplayIsOrdered, DisconnectIsFirst
  <1>2. /\ call' \in CallType /\ call'.pc = "next" /\ call'.id = call.id /\ call'.todo = items
        /\ call'.queued = call.queued /\ call'.step = call.step
    BY <1>1, <1>t DEF CallType, Pcs
  <1>3. Pending' = Pending /\ Pending = Range(items) /\ ~DisconnectFirst'
    BY <1>1, <1>2, <1>q DEF Pending, DisconnectFirst
  <1>4. QueueIsOrdered'
    BY <1>1, <1>2, <1>3, <1>t DEF AttemptInv, QueueIsOrdered, Ascending
  <1>5. AuthorizedIsWaiting' /\ WaiterIsOfCall'
    BY <1>1, <1>2, <1>t DEF AuthorizedIsWaiting, WaiterIsOfCall, Attempting, Waiting
  <1>6. ReplayIsOrdered'
    BY <1>1, <1>2, <1>3, <1>q, <1>t
       DEF AttemptInv, QueueIsOrdered, ReplayIsOrdered, Attempting, Ascending
  <1>7. CallsAreCounted' /\ DisconnectIsFirst' /\ SuccessIsComplete'
    BY <1>1, <1>2, <1>3, <1>t DEF AttemptInv, CallsAreCounted, DisconnectIsFirst,
                                  SuccessIsComplete, Attempting
  <1>8. AttemptInv'
    BY <1>4, <1>5, <1>6, <1>7 DEF AttemptInv
  <1> QED BY <1>1, <1>2, <1>8, <1>t, QueueTypes, GoroutineFrame

\* The next value a replay sends is the oldest one still pending.
LEMMA ReplayNextKeeps ==
  ASSUME DeliveryInv, ReplayNext PROVE DeliveryInv'
  <1>1. /\ call.pc = "next"
        /\ UNCHANGED <<ingressVars, mode, life, links, wills, retained, pub, restore, items,
                       completed, authorized, deferred, waiter, inbox, next, cancelled, stop>>
    BY DEF ReplayNext
  <1>t. /\ call \in CallType /\ waiter \in WaiterType /\ AttemptInv /\ authorized = {}
        /\ items \in Seq(Items) /\ call.todo \in Seq(Items)
    BY <1>1, CallTypes DEF CallType
  <1>q. /\ call.queued /\ ~DisconnectFirst /\ Pending \subseteq Range(call.todo)
        /\ Ascending(call.todo) /\ Ascending(items)
        /\ mode = "reconnect" /\ call.step = 0 => items = <<>>
    BY <1>1, <1>t DEF AttemptInv, QueueIsOrdered, ReplayIsOrdered, DisconnectIsFirst
  <1>p. Pending' = Pending
    BY <1>1 DEF Pending
  <1>2. CASE call.todo = <<>> \/ cancelled
    <2>1. PICK ok \in BOOLEAN : /\ call' = [call EXCEPT !.pc = "idle", !.ok = ok]
                                /\ ok => call.todo = <<>>
      BY <1>2 DEF ReplayNext
    <2>2. /\ call' \in CallType /\ call'.pc = "idle" /\ call'.todo = call.todo /\ call'.id = call.id
          /\ call'.queued = call.queued /\ call'.step = call.step /\ call'.ok = ok
      BY <1>t, <2>1 DEF CallType, Pcs
    <2>3. ok => Pending = {}
      BY <1>q, <2>1 DEF Range
    <2>4. CallsAreCounted' /\ SuccessIsComplete' /\ ~DisconnectFirst'
      BY <1>1, <1>p, <1>q, <1>t, <2>2, <2>3
         DEF AttemptInv, CallsAreCounted, SuccessIsComplete, DisconnectFirst, Attempting
    <2>5. AttemptInv'
      BY <1>1, <1>q, <1>t, <2>2, <2>4, AtRest
    <2> QED BY <1>1, <1>t, <2>2, <2>5, QueueTypes, GoroutineFrame
  <1>3. CASE call.todo # <<>> /\ ~cancelled
    <2> DEFINE h == Head(call.todo)
    <2>1. /\ Tail(call.todo) \in Seq(Items) /\ h \in Items /\ Ascending(Tail(call.todo))
          /\ Range(call.todo) \subseteq Range(Tail(call.todo)) \cup {h}
          /\ \A x \in Range(call.todo) : h <= x
      BY <1>3, <1>q, <1>t, TailOfAscending
    <2>2. CASE h \notin Pending
      <3>1. call' = [call EXCEPT !.todo = Tail(@)]
        BY <1>3, <2>2 DEF ReplayNext
      <3>2. /\ call' \in CallType /\ call'.pc = "next" /\ call'.todo = Tail(call.todo)
            /\ call'.id = call.id /\ call'.queued = call.queued /\ call'.step = call.step
        BY <1>1, <1>t, <2>1, <3>1 DEF CallType
      <3>3. Pending \subseteq Range(Tail(call.todo)) /\ ~DisconnectFirst'
        BY <1>1, <1>q, <2>1, <2>2, <3>2 DEF DisconnectFirst
      <3>4. QueueIsOrdered'
        BY <1>1, <1>p, <1>t, <3>2 DEF AttemptInv, QueueIsOrdered, Ascending
      <3>5. AuthorizedIsWaiting' /\ WaiterIsOfCall'
        BY <1>1, <1>t, <3>2 DEF AuthorizedIsWaiting, WaiterIsOfCall, Attempting, Waiting
      <3>6. ReplayIsOrdered'
        BY <1>p, <1>q, <2>1, <3>2, <3>3 DEF ReplayIsOrdered, Attempting, Ascending
      <3>7. CallsAreCounted' /\ DisconnectIsFirst' /\ SuccessIsComplete'
        BY <1>1, <1>t, <3>2, <3>3 DEF AttemptInv, CallsAreCounted, DisconnectIsFirst,
                                      SuccessIsComplete, Attempting
      <3>8. AttemptInv'
        BY <3>4, <3>5, <3>6, <3>7 DEF AttemptInv
      <3> QED BY <1>1, <1>t, <3>2, <3>8, QueueTypes, GoroutineFrame
    <2>3. CASE h \in Pending
      <3>1. call' = [call EXCEPT !.pc = "register", !.id = h]
        BY <1>3, <2>3 DEF ReplayNext
      <3>2. h \in 0..MaxSeq
        BY <2>1, DeviceBounds DEF Items
      <3>3. /\ call' \in CallType /\ call'.pc = "register" /\ call'.todo = call.todo
            /\ call'.id = h /\ call'.queued = call.queued /\ call'.step = call.step
        BY <1>t, <3>1, <3>2 DEF CallType, Pcs
      <3>4. items # <<>> /\ Head(items) = h
        <4>1. items # <<>>
          BY <2>3 DEF Pending, Range
        <4>2. Head(items) \in Items /\ \A x \in Range(items) : Head(items) <= x
          BY <1>q, <1>t, <4>1, TailOfAscending
        <4>3. Head(items) \in Range(items)
          BY <1>t, <4>1 DEF Range
        <4>4. h <= Head(items) /\ Head(items) <= h
          BY <1>q, <2>1, <2>3, <4>2, <4>3 DEF Pending
        <4>5. h \in Nat /\ Head(items) \in Nat
          BY <2>1, <4>2, DeviceBounds DEF Items
        <4> QED BY <4>1, <4>4, <4>5
      <3>5. ~DisconnectFirst'
        BY <1>1, <1>q, <3>3 DEF DisconnectFirst
      <3>6. QueueIsOrdered'
        BY <1>1, <1>p, <1>t, <3>3 DEF AttemptInv, QueueIsOrdered, Ascending
      <3>7. AuthorizedIsWaiting' /\ WaiterIsOfCall'
        BY <1>1, <1>t, <3>3 DEF AuthorizedIsWaiting, WaiterIsOfCall, Attempting, Waiting
      <3>8. ReplayIsOrdered'
        BY <1>1, <1>3, <1>p, <1>q, <3>3, <3>4 DEF ReplayIsOrdered, Attempting, Ascending
      <3>9. CallsAreCounted' /\ DisconnectIsFirst' /\ SuccessIsComplete'
        BY <1>1, <1>t, <2>1, <3>3, <3>5 DEF AttemptInv, CallsAreCounted, DisconnectIsFirst,
                                            SuccessIsComplete, Attempting
      <3>10. AttemptInv'
        BY <3>6, <3>7, <3>8, <3>9 DEF AttemptInv
      <3> QED BY <1>1, <1>t, <3>3, <3>10, QueueTypes, GoroutineFrame
    <2> QED BY <2>2, <2>3
  <1> QED BY <1>2, <1>3

\* From one stage of an attempt to the next.
LEMMA AttemptGoesOn ==
  ASSUME DeliveryInv, call.pc \in Attempting, UNCHANGED <<mode, items, next>>,
         authorized' = {}, NEW q \in {"publish", "sending", "token", "release"},
         call'.pc = q, call'.id = call.id, call'.todo = call.todo,
         call'.queued = call.queued, call'.step = call.step,
         waiter'.id = call.id, waiter'.queued = call.queued,
         ~waiter'.auth, waiter'.got # "terminal",
         q = "release" => ~DisconnectFirst
  PROVE  AttemptInv'
  <1>t. AttemptInv
    BY DEF DeliveryInv
  <1>1. Pending' = Pending /\ (DisconnectFirst' <=> DisconnectFirst)
    BY DEF Pending, DisconnectFirst
  <1>2. QueueIsOrdered'
    BY <1>1, <1>t DEF AttemptInv, QueueIsOrdered, Ascending
  <1>3. AuthorizedIsWaiting' /\ WaiterIsOfCall'
    BY DEF AuthorizedIsWaiting, WaiterIsOfCall, Attempting, Waiting
  <1>4. ReplayIsOrdered'
    BY <1>1, <1>t DEF AttemptInv, ReplayIsOrdered, Attempting, Ascending
  <1>5. CallsAreCounted' /\ DisconnectIsFirst' /\ SuccessIsComplete'
    BY <1>1, <1>t DEF AttemptInv, CallsAreCounted, DisconnectIsFirst, SuccessIsComplete,
                      Attempting
  <1> QED BY <1>2, <1>3, <1>4, <1>5 DEF AttemptInv

LEMMA RegisterAckKeeps ==
  ASSUME DeliveryInv, RegisterAck PROVE DeliveryInv'
  <1>1. /\ call.pc = "register" /\ call' = [call EXCEPT !.pc = "publish"]
        /\ waiter' = [NoWaiter EXCEPT !.id = call.id, !.epoch = life.epoch,
                                      !.queued = call.queued, !.listed = TRUE]
        /\ authorized' \subseteq authorized
        /\ UNCHANGED <<ingressVars, mode, life, links, wills, retained, pub, restore, items,
                       completed, deferred, inbox, next, cancelled, stop>>
    BY DEF RegisterAck
  <1>t. /\ call \in CallType /\ AttemptInv /\ authorized = {} /\ life.epoch \in Nat
    BY <1>1, CallTypes DEF LifeType
  <1>2. /\ call' \in CallType /\ call'.pc = "publish" /\ call'.todo = call.todo
        /\ call'.id = call.id /\ call'.queued = call.queued /\ call'.step = call.step
    BY <1>1, <1>t DEF CallType, Pcs
  <1>3. waiter' = [id |-> call.id, epoch |-> life.epoch, queued |-> call.queued,
                   auth |-> FALSE, listed |-> TRUE, got |-> "none"]
    BY <1>1 DEF NoWaiter
  <1>4. /\ waiter' \in WaiterType /\ waiter'.id = call.id /\ waiter'.queued = call.queued
        /\ ~waiter'.auth /\ waiter'.got # "terminal"
    BY <1>3, <1>t DEF WaiterType, CallType
  <1>5. authorized' = {} /\ call.pc \in Attempting
    BY <1>1, <1>t DEF Attempting
  <1>6. AttemptInv'
    BY <1>1, <1>2, <1>4, <1>5, AttemptGoesOn
  <1> QED BY <1>1, <1>2, <1>4, <1>5, <1>6, QueueTypes, GoroutineFrame

\* A telemetry publication enters, or leaves, its Paho call.
LEMMA SendingSession ==
  ASSUME DeliveryInv, UNCHANGED <<life, links, restore, stop>>,
         \/ pub = "free" /\ pub' = "send"
         \/ call.pc = "sending" /\ pub' = "free" /\ call'.pc # "sending"
  PROVE  SessionInv'
  <1>1. ReadyIsRestored'
    BY DEF DeliveryInv, SessionInv, ReadyIsRestored
  <1>2. CallbackFollowsLink' /\ ShutdownHolds'
    BY DEF DeliveryInv, SessionInv, CallbackFollowsLink, ShutdownHolds
  <1>3. \A c \in Clients : restore[c].pc # "publishing"
    BY DEF DeliveryInv, SessionInv, PublicationsExclude
  <1>4. PublicationsExclude'
    BY <1>3 DEF PublicationsExclude
  <1> QED BY <1>1, <1>2, <1>4 DEF SessionInv

\* The waiter of an attempt whose publication has not been validated.
LEMMA WaiterBeforeRelease ==
  ASSUME DeliveryInv, call.pc \in {"publish", "sending", "token", "release"}
  PROVE  /\ waiter.id = call.id /\ waiter.queued = call.queued /\ ~waiter.auth
         /\ waiter.got # "terminal" /\ authorized = {} /\ call.pc \in Attempting
         /\ call.id \in Items
  BY CallTypes DEF AttemptInv, WaiterIsOfCall, CallsAreCounted, Attempting, Waiting

LEMMA AdmitPublishKeeps ==
  ASSUME DeliveryInv, AdmitPublish PROVE DeliveryInv'
  <1>1. /\ call.pc = "publish" /\ pub = "free"
        /\ UNCHANGED <<ingressVars, mode, life, links, wills, retained, restore, items,
                       completed, deferred, inbox, next, cancelled, stop>>
    BY DEF AdmitPublish
  <1>t. /\ call \in CallType /\ waiter \in WaiterType /\ DeviceTypes /\ life.client \in 0..MaxClients
        /\ life.epoch \in Nat
    BY CallTypes DEF LifeType
  <1>w. /\ waiter.id = call.id /\ waiter.queued = call.queued /\ ~waiter.auth
        /\ waiter.got # "terminal" /\ authorized = {} /\ call.pc \in Attempting
    BY <1>1, WaiterBeforeRelease
  <1>2. CASE EndAttempt(FALSE) /\ UNCHANGED pub
    <2>1. /\ AttemptInv' /\ call' \in CallType /\ waiter' \in WaiterType /\ authorized' = {}
          /\ call'.pc # "sending"
      BY <1>1, <1>2, <1>w, EndAttemptKeeps
    <2> QED BY <1>1, <1>2, <2>1, QueueTypes, GoroutineFrame
  <1>3. CASE /\ pub' = "send" /\ UNCHANGED <<waiter, authorized>>
             /\ call' = [call EXCEPT !.pc = "sending", !.client = life.client, !.epoch = life.epoch]
    <2>1. /\ call' \in CallType /\ call'.pc = "sending" /\ call'.todo = call.todo
          /\ call'.id = call.id /\ call'.queued = call.queued /\ call'.step = call.step
      BY <1>3, <1>t DEF CallType, Pcs
    <2>2. AttemptInv'
      BY <1>1, <1>3, <1>w, <2>1, AttemptGoesOn
    <2>3. ServiceInv' /\ ReceivedIsTrue'
      BY <1>1, ServiceFrame, ReceivedFrame DEF DeliveryInv, ingressVars, Recorded
    <2>4. DeviceTypes'
      BY <1>1, <1>3, <1>t, <2>1 DEF DeviceTypes
    <2>5. SessionInv'
      BY <1>1, <1>3, SendingSession
    <2> QED BY <2>2, <2>3, <2>4, <2>5 DEF DeliveryInv
  <1> QED BY <1>2, <1>3 DEF AdmitPublish

LEMMA SendTelemetryKeeps ==
  ASSUME DeliveryInv, SendTelemetry PROVE DeliveryInv'
  <1>1. /\ call.pc = "sending" /\ pub' = "free"
        /\ UNCHANGED <<session, gate, restoring, routed, work, busy, inFlight, drain, stored,
                       refused, acks, losses>>
        /\ UNCHANGED <<mode, life, links, wills, retained, restore, items, completed, deferred,
                       inbox, next, cancelled, stop>>
    BY DEF SendTelemetry
  <1>t. /\ call \in CallType /\ waiter \in WaiterType /\ DeviceTypes
    BY CallTypes
  <1>w. /\ waiter.id = call.id /\ waiter.queued = call.queued /\ ~waiter.auth
        /\ waiter.got # "terminal" /\ authorized = {} /\ call.pc \in Attempting
        /\ call.id \in Items
    BY <1>1, WaiterBeforeRelease
  <1>2. ServiceInv' /\ Recorded \subseteq Recorded'
    <2>1. uplink \in Seq(Messages) /\ session \in {"down", "up", "closed"} /\ losses \in 0..MaxLosses
      BY DEF DeliveryInv, ServiceInv, IngressTypeOK
    <2>2. [topic |-> "telemetry", id |-> call.id] \in Messages
      BY <1>w DEF Messages, Topics
    <2>3. uplink' \in Seq(Messages)
      BY <2>1, <2>2 DEF SendTelemetry
    <2> QED BY <1>1, <2>1, <2>3, ServiceUntouched DEF DeliveryInv, Recorded
  <1>3. /\ AttemptInv' /\ call' \in CallType /\ waiter' \in WaiterType /\ authorized' = {}
        /\ call'.pc # "sending"
    <2>1. CASE EndAttempt(FALSE)
      BY <1>1, <1>w, <2>1, EndAttemptKeeps
    <2>2. CASE call' = [call EXCEPT !.pc = "token"] /\ UNCHANGED <<waiter, authorized>>
      <3>1. /\ call' \in CallType /\ call'.pc = "token" /\ call'.todo = call.todo
            /\ call'.id = call.id /\ call'.queued = call.queued /\ call'.step = call.step
        BY <1>t, <2>2 DEF CallType, Pcs
      <3>2. AttemptInv'
        BY <1>1, <1>w, <2>2, <3>1, AttemptGoesOn
      <3> QED BY <1>t, <1>w, <2>2, <3>1, <3>2
    <2> QED BY <2>1, <2>2 DEF SendTelemetry
  <1>4. ReceivedIsTrue'
    BY <1>1, <1>2, ReceivedFrame DEF DeliveryInv
  <1>5. DeviceTypes'
    BY <1>1, <1>3, <1>t DEF DeviceTypes
  <1>6. SessionInv'
    BY <1>1, <1>3, SendingSession
  <1> QED BY <1>2, <1>3, <1>4, <1>5, <1>6 DEF DeliveryInv

LEMMA TokenDoneKeeps ==
  ASSUME DeliveryInv, TokenDone PROVE DeliveryInv'
  <1>1. /\ call.pc = "token"
        /\ UNCHANGED <<ingressVars, mode, life, links, wills, retained, pub, restore, items,
                       completed, deferred, inbox, next, cancelled, stop>>
    BY DEF TokenDone
  <1>t. /\ call \in CallType /\ waiter \in WaiterType /\ AttemptInv
    BY CallTypes
  <1>w. /\ waiter.id = call.id /\ waiter.queued = call.queued /\ ~waiter.auth
        /\ waiter.got # "terminal" /\ authorized = {} /\ call.pc \in Attempting
    BY <1>1, WaiterBeforeRelease
  <1>2. CASE EndAttempt(FALSE)
    <2>1. /\ AttemptInv' /\ call' \in CallType /\ waiter' \in WaiterType /\ authorized' = {}
          /\ call'.pc # "sending"
      BY <1>1, <1>2, <1>w, EndAttemptKeeps
    <2> QED BY <1>1, <2>1, QueueTypes, GoroutineFrame
  <1>3. ASSUME NEW q \in {"detach", "release"}, call' = [call EXCEPT !.pc = q],
               UNCHANGED <<waiter, authorized>>, q = "detach" <=> DisconnectFirst
        PROVE  DeliveryInv'
    <2>1. /\ call' \in CallType /\ call'.pc = q /\ call'.todo = call.todo
          /\ call'.id = call.id /\ call'.queued = call.queued /\ call'.step = call.step
      BY <1>3, <1>t DEF CallType, Pcs
    <2>2. CASE q = "release"
      <3>1. AttemptInv'
        BY <1>1, <1>3, <1>w, <2>1, <2>2, AttemptGoesOn
      <3> QED BY <1>1, <1>3, <1>t, <2>1, <2>2, <3>1, QueueTypes, GoroutineFrame
    <2>3. CASE q = "detach"
      <3>1. DisconnectFirst /\ DisconnectFirst' /\ call.todo = <<>>
        BY <1>1, <1>3, <1>t, <2>1, <2>3 DEF AttemptInv, DisconnectIsFirst, DisconnectFirst
      <3>2. CallsAreCounted' /\ SuccessIsComplete'
        BY <1>1, <1>t, <2>1, <2>3 DEF AttemptInv, CallsAreCounted, SuccessIsComplete, Attempting
      <3>3. mode = "reconnect" /\ call'.step = 0 => items = <<>>
        BY <1>t, <2>1 DEF AttemptInv, DisconnectIsFirst
      <3>4. AttemptInv'
        BY <1>1, <1>3, <1>w, <2>1, <2>3, <3>1, <3>2, <3>3, AtRest
      <3> QED BY <1>1, <1>3, <1>t, <2>1, <2>3, <3>4, QueueTypes, GoroutineFrame
    <2> QED BY <2>2, <2>3
  <1> QED BY <1>2, <1>3 DEF TokenDone

\* releaseAckAttempt: an ACK that came before the validation is applied now.
LEMMA ReleaseAttemptKeeps ==
  ASSUME DeliveryInv, ReleaseAttempt
  PROVE  /\ DeliveryInv'
         /\ \A id \in Pending : id \notin Pending' =>
               id \in Recorded /\ call.id = id /\ call.queued /\ StillReady
  <1>1. /\ call.pc = "release" /\ call' = [call EXCEPT !.pc = "wait"]
        /\ UNCHANGED <<ingressVars, mode, life, links, wills, retained, pub, restore, inbox,
                       next, cancelled, stop>>
    BY DEF ReleaseAttempt
  <1>t. /\ call \in CallType /\ waiter \in WaiterType /\ AttemptInv /\ DeviceTypes
        /\ items \in Seq(Items)
    BY CallTypes
  <1>w. /\ waiter.id = call.id /\ waiter.queued = call.queued /\ ~waiter.auth
        /\ waiter.got # "terminal" /\ authorized = {} /\ call.id \in Items
    BY <1>1, WaiterBeforeRelease
  <1>2. /\ call' \in CallType /\ call'.pc = "wait" /\ call'.todo = call.todo
        /\ call'.id = call.id /\ call'.queued = call.queued /\ call'.step = call.step
        /\ call'.client = call.client /\ call'.epoch = call.epoch
    BY <1>1, <1>t DEF CallType, Pcs
  <1>s. (StillReady' <=> StillReady) /\ ~DisconnectFirst /\ ~DisconnectFirst'
    BY <1>1, <1>2, <1>t DEF StillReady, AttemptInv, DisconnectIsFirst, DisconnectFirst
  <1>3. ServiceInv' /\ Recorded' = Recorded
    BY <1>1, ServiceFrame DEF DeliveryInv, ingressVars, Recorded
  <1>4. SessionInv'
    BY <1>1, <1>2, SessionFrame DEF DeliveryInv
  <1>5. ASSUME items' \in Seq(Items), Len(items') <= QueueCapacity, Ascending(items'),
               Pending' = Pending \/ Pending' = Pending \ {call.id},
               completed' \in Seq(Items), Len(completed') <= QueueCapacity,
               mode = "reconnect" /\ call.step = 0 => items' = <<>>,
               authorized' \subseteq {call.id}, deferred' \subseteq deferred,
               waiter' \in WaiterType, waiter'.id = waiter.id, waiter'.queued = waiter.queued,
               authorized' # {} => call.queued /\ StillReady,
               call.queued /\ waiter'.got = "terminal" => call.id \notin Pending'
        PROVE  DeliveryInv'
    <2>1. QueueIsOrdered'
      BY <1>1, <1>2, <1>5, <1>t DEF AttemptInv, QueueIsOrdered
    <2>2. AuthorizedIsWaiting'
      BY <1>2, <1>5, <1>s DEF AuthorizedIsWaiting
    <2>3. WaiterIsOfCall'
      BY <1>2, <1>5, <1>w DEF WaiterIsOfCall, Attempting, Waiting
    <2>4. ReplayIsOrdered'
      BY <1>1, <1>2, <1>5, <1>s, <1>t DEF AttemptInv, ReplayIsOrdered, Attempting, Ascending
    <2>5. CallsAreCounted' /\ DisconnectIsFirst' /\ SuccessIsComplete'
      BY <1>1, <1>2, <1>5, <1>s, <1>t, <1>w DEF AttemptInv, CallsAreCounted, DisconnectIsFirst,
                                               SuccessIsComplete, Attempting
    <2>6. DeviceTypes'
      <3>1. authorized' \subseteq Items /\ deferred' \subseteq Items
        BY <1>5, <1>t, <1>w DEF DeviceTypes
      <3> QED BY <1>1, <1>2, <1>5, <1>t, <3>1 DEF DeviceTypes
    <2>7. ReceivedIsTrue'
      BY <1>1, <1>3, <1>5 DEF DeliveryInv, ReceivedIsTrue
    <2> QED BY <1>3, <1>4, <2>1, <2>2, <2>3, <2>4, <2>5, <2>6, <2>7 DEF DeliveryInv, AttemptInv
  <1>q. /\ Ascending(items) /\ Len(items) <= QueueCapacity
        /\ completed \in Seq(Items) /\ Len(completed) <= QueueCapacity
        /\ mode = "reconnect" /\ call.step = 0 => items = <<>>
    BY <1>t DEF AttemptInv, QueueIsOrdered, DisconnectIsFirst, DeviceTypes
  <1>6. CASE UNCHANGED <<items, completed, authorized, deferred, waiter>>
    <2>1. Pending' = Pending
      BY <1>6 DEF Pending
    <2>2. DeliveryInv'
      BY <1>5, <1>6, <1>q, <1>t, <1>w, <2>1
    <2> QED BY <2>1, <2>2
  <1>7. CASE waiter' = [waiter EXCEPT !.auth = TRUE]
             /\ UNCHANGED <<items, completed, authorized, deferred>>
    <2>1. Pending' = Pending
      BY <1>7 DEF Pending
    <2>2. /\ waiter' \in WaiterType /\ waiter'.id = waiter.id /\ waiter'.queued = waiter.queued
          /\ waiter'.got = waiter.got
      BY <1>7, <1>t DEF WaiterType
    <2>3. DeliveryInv'
      BY <1>5, <1>7, <1>q, <1>t, <1>w, <2>1, <2>2
    <2> QED BY <2>1, <2>3
  <1>8. CASE /\ StillReady /\ call.queued /\ authorized' = authorized \cup {call.id}
             /\ deferred' = deferred \ {call.id}
             /\ waiter' = [waiter EXCEPT !.auth = TRUE] /\ UNCHANGED <<items, completed>>
    <2>1. Pending' = Pending
      BY <1>8 DEF Pending
    <2>2. /\ waiter' \in WaiterType /\ waiter'.id = waiter.id /\ waiter'.queued = waiter.queued
          /\ waiter'.got = waiter.got
      BY <1>8, <1>t DEF WaiterType
    <2>3. DeliveryInv'
      BY <1>5, <1>8, <1>q, <1>t, <1>w, <2>1, <2>2
    <2> QED BY <2>1, <2>3
  <1>9. CASE /\ StillReady /\ call.queued /\ authorized' = authorized \cup {call.id}
             /\ deferred' = deferred \ {call.id} /\ call.id \in deferred /\ call.id \in Pending
             /\ Completing(call.id) /\ waiter' = Notified("terminal")
    <2>1. /\ items' \in Seq(Items) /\ Len(items') <= QueueCapacity
          /\ Ascending(items') /\ Pending' = Pending \ {call.id}
          /\ completed' \in Seq(Items) /\ Len(completed') <= QueueCapacity
      BY <1>9, <1>q, <1>t, CompletingTakesOne
    <2>2. /\ waiter' \in WaiterType /\ waiter'.id = waiter.id /\ waiter'.queued = waiter.queued
      BY <1>9, <1>t DEF WaiterType, Notified
    <2>3. items # <<>>
      BY <1>9 DEF Pending, Range
    <2>4. DeliveryInv'
      BY <1>5, <1>9, <1>q, <1>w, <2>1, <2>2, <2>3
    <2>5. call.id \in Recorded
      BY <1>9 DEF DeliveryInv, ReceivedIsTrue
    <2> QED BY <1>9, <2>1, <2>4, <2>5
  <1> QED BY <1>6, <1>7, <1>8, <1>9 DEF ReleaseAttempt

\* The select: only a terminal answer in the attempt's session is a success.
LEMMA AwaitAckKeeps ==
  ASSUME DeliveryInv, AwaitAck PROVE DeliveryInv'
  <1>1. /\ call.pc = "wait"
        /\ UNCHANGED <<uplink, session, gate, restoring, routed, work, busy, inFlight, drain,
                       stored, refused, acks>>
        /\ UNCHANGED <<mode, life, links, wills, retained, pub, restore, items, completed,
                       deferred, inbox, next, cancelled, stop>>
    BY DEF AwaitAck
  <1>t. AttemptInv /\ DeviceTypes
    BY CallTypes
  <1>2. PICK ok \in BOOLEAN : EndAttempt(ok) /\ (ok => waiter.got = "terminal")
    <2>1. CASE EndAttempt(FALSE)
      BY <2>1
    <2>2. CASE EndAttempt(waiter.got = "terminal" /\ StillReady)
      <3>1. (waiter.got = "terminal" /\ StillReady) \in BOOLEAN
        BY DEF StillReady
      <3> QED BY <2>2, <3>1
    <2> QED BY <2>1, <2>2 DEF AwaitAck
  <1>3. ok /\ call.queued => call.id \notin Pending
    BY <1>1, <1>2, <1>t DEF AttemptInv, WaiterIsOfCall
  <1>4. /\ AttemptInv' /\ call' \in CallType /\ waiter' \in WaiterType /\ authorized' = {}
        /\ call'.pc # "sending"
    <2>1. call.pc \in Attempting \cup {"wait"}
      BY <1>1
    <2> QED BY <1>1, <1>2, <1>3, <2>1, EndAttemptKeeps
  <1>5. losses' \in 0..MaxLosses
    <2>1. losses' = losses \/ Fault
      BY Zenon DEF AwaitAck
    <2>2. losses \in 0..MaxLosses
      BY DEF DeliveryInv, ServiceInv, IngressTypeOK
    <2> QED BY <2>1, <2>2, Bounds DEF Fault
  <1>6. ServiceInv' /\ Recorded \subseteq Recorded'
    <2>1. uplink \in Seq(Messages) /\ session \in {"down", "up", "closed"}
      BY DEF DeliveryInv, ServiceInv, IngressTypeOK
    <2> QED BY <1>1, <1>5, <2>1, ServiceUntouched DEF DeliveryInv, Recorded
  <1>7. ReceivedIsTrue'
    BY <1>1, <1>6, ReceivedFrame DEF DeliveryInv
  <1>8. SessionInv'
    BY <1>1, <1>4, SessionFrame DEF DeliveryInv
  <1>9. DeviceTypes'
    BY <1>1, <1>4, <1>t DEF DeviceTypes
  <1> QED BY <1>4, <1>6, <1>7, <1>8, <1>9 DEF DeliveryInv

\* disconnectClientForReconnect.
LEMMA DetachKeeps ==
  ASSUME DeliveryInv, Detach PROVE DeliveryInv'
  <1>1. /\ call.pc = "detach" /\ waiter' = NoWaiter
        /\ UNCHANGED <<ingressVars, mode, wills, retained, pub, restore, items, completed,
                       deferred, inbox, next, cancelled, stop>>
    BY DEF Detach
  <1>t. /\ call \in CallType /\ AttemptInv /\ DeviceTypes /\ authorized = {}
        /\ life \in LifeType /\ links \in [Clients -> LinkStates] /\ life.epoch + 1 \in Nat
    BY <1>1, CallTypes DEF LifeType
  <1>2. PICK q \in {"idle", "exit", "install"} :
           /\ DisconnectFirst => call' = [call EXCEPT !.pc = "idle", !.ok = FALSE]
           /\ ~DisconnectFirst => call' = [call EXCEPT !.pc = q] /\ q # "idle"
    BY DEF Detach
  <1>3. /\ call' \in CallType /\ call'.pc \in {"idle", "exit", "install"}
        /\ call'.todo = call.todo /\ call'.id = call.id /\ call'.step = call.step
        /\ DisconnectFirst => call'.pc = "idle" /\ ~call'.ok
        /\ call'.pc = "idle" => DisconnectFirst
    <2>1. CASE DisconnectFirst
      BY <1>2, <1>t, <2>1 DEF CallType, Pcs
    <2>2. CASE ~DisconnectFirst
      <3>1. call' = [call EXCEPT !.pc = q] /\ q \in {"exit", "install"}
        BY <1>2, <2>2
      <3> QED BY <1>t, <2>2, <3>1 DEF CallType, Pcs
    <2> QED BY <2>1, <2>2
  <1>4. authorized' = {}
    BY <1>t DEF Detach
  <1>5. waiter' \in WaiterType
    BY <1>1, DeviceBounds DEF NoWaiter, WaiterType
  <1>6. AttemptInv'
    <2>1. DisconnectFirst' <=> DisconnectFirst
      BY <1>1, <1>3 DEF DisconnectFirst
    <2>2. CallsAreCounted'
      BY <1>1, <1>3, <1>t DEF AttemptInv, CallsAreCounted, Attempting
    <2>3. SuccessIsComplete'
      BY <1>3 DEF SuccessIsComplete
    <2>4. call'.todo = <<>> \/ (call'.todo = call.todo /\ ~DisconnectFirst')
      BY <1>3, <1>t, <2>1 DEF AttemptInv, DisconnectIsFirst
    <2>5. /\ mode = "reconnect" /\ call'.step = 0 => items = <<>>
          /\ call'.pc \in {"install", "dialing"} => call'.id = 0 /\ ~DisconnectFirst'
      BY <1>1, <1>3, <1>t, <2>1 DEF AttemptInv, DisconnectIsFirst
    <2> QED BY <1>1, <1>3, <1>4, <2>2, <2>3, <2>4, <2>5, AtRest
  <1>7. /\ life' \in LifeType /\ (life' = life \/ ~life'.ready)
        /\ (life.stopping => life'.stopping)
    <2>1. CASE life' = life
      BY <1>t, <2>1
    <2>2. CASE ~life.stopping /\ life' = [Invalidated(life) EXCEPT !.client = 0]
      <3> DEFINE l == Invalidated(life)
      <3>1. l \in LifeType /\ ~l.ready
        BY <1>t DEF LifeType, Invalidated
      <3>2. life' = [l EXCEPT !.client = 0] /\ 0 \in 0..MaxClients
        BY <2>2, DeviceBounds
      <3> HIDE DEF l
      <3> QED BY <2>2, <3>1, <3>2 DEF LifeType
    <2> QED BY <2>1, <2>2 DEF Detach
  <1>8. /\ links' \in [Clients -> LinkStates]
        /\ \A d \in Clients : links'[d] \in {"none", "dialing"} => links[d] \in {"none", "dialing"}
    <2>1. CASE links' = links
      BY <1>t, <2>1
    <2>2. CASE life.client # 0 /\ links' = [links EXCEPT ![life.client] = "closed"]
      <3>1. life.client \in Clients
        BY <1>t, <2>2, DeviceBounds DEF LifeType, Clients
      <3> QED BY <1>t, <2>2, <3>1 DEF LinkStates
    <2> QED BY <2>1, <2>2 DEF Detach
  <1>9. ServiceInv' /\ ReceivedIsTrue'
    BY <1>1, ServiceFrame, ReceivedFrame DEF DeliveryInv, ingressVars, Recorded
  <1>10. DeviceTypes'
    BY <1>1, <1>3, <1>4, <1>5, <1>7, <1>8, <1>t DEF DeviceTypes, LifeType, LinkStates
  <1>11. SessionInv'
    BY <1>1, <1>3, <1>7, <1>8, EndingSession DEF DeliveryInv, SessionInv, ShutdownHolds
  <1> QED BY <1>6, <1>9, <1>10, <1>11 DEF DeliveryInv

-----------------------------------------------------------------------------
(***************************************************************************)
(* The composed system                                                     *)
(***************************************************************************)
LEMMA LoseUplinkKeeps ==
  ASSUME DeliveryInv, LoseUplink PROVE DeliveryInv'
  <1>1. /\ uplink' = Tail(uplink) /\ uplink # <<>>
        /\ UNCHANGED <<session, gate, restoring, routed, work, busy, inFlight, drain, stored,
                       refused, acks>>
        /\ UNCHANGED deviceVars
    BY DEF LoseUplink
  <1>2. losses' \in 0..MaxLosses
    BY Bounds DEF LoseUplink, Fault, DeliveryInv, ServiceInv, IngressTypeOK
  <1>3. uplink' \in Seq(Messages) /\ session \in {"down", "up", "closed"}
    BY <1>1 DEF DeliveryInv, ServiceInv, IngressTypeOK
  <1>4. ServiceInv' /\ Recorded \subseteq Recorded'
    BY <1>1, <1>2, <1>3, ServiceUntouched DEF DeliveryInv, Recorded
  <1> QED BY <1>1, <1>4, BackendKeeps

\* The invariant is inductive.
LEMMA DeliveryKeeps ==
  ASSUME DeliveryInv, [Together]_vars PROVE DeliveryInv'
  <1>1. CASE UNCHANGED vars
    <2>1. UNCHANGED ingressVars /\ UNCHANGED deviceVars
      BY <1>1 DEF vars
    <2>2. ServiceInv' /\ Recorded \subseteq Recorded'
      BY <2>1, ServiceFrame DEF DeliveryInv, ingressVars, Recorded
    <2> QED BY <2>1, <2>2, BackendKeeps
  <1>2. CASE IngressNext /\ UNCHANGED deviceVars
    <2>1. ServiceInv' /\ Recorded \subseteq Recorded'
      BY <1>2, ServiceKeeps, ServiceWrites DEF DeliveryInv
    <2> QED BY <1>2, <2>1, BackendKeeps
  <1>3. CASE Backend
    BY <1>2, <1>3 DEF Backend, IngressNext
  <1>4. CASE Goroutine
    BY <1>4, BootKeeps, InstallKeeps, AwaitReadyKeeps, RunModeKeeps, EnqueueKeeps, SnapshotKeeps,
       ReplayNextKeeps, RegisterAckKeeps, AdmitPublishKeeps, SendTelemetryKeeps, TokenDoneKeeps,
       ReleaseAttemptKeeps, AwaitAckKeeps, DetachKeeps DEF Goroutine
  <1>5. ASSUME NEW c \in Clients, Callbacks(c) \/ LinkBreaks(c) \/ BrokerPublishesWill(c)
                                  \/ OnClientLost(c)
        PROVE  DeliveryInv'
    BY <1>5, DialedKeeps, BeginRestorationKeeps, SubscribeKeeps, AdmitStatusKeeps,
       PublishStatusKeeps, CommitReadyKeeps, LinkBreaksKeeps, WillKeeps, OnClientLostKeeps
       DEF Callbacks
  <1>6. CASE Delivery
    BY <1>6, AckUnderWayKeeps, ResolveAckKeeps DEF Delivery
  <1> QED BY <1>1, <1>2, <1>3, <1>4, <1>5, <1>6, LoseUplinkKeeps, InterruptKeeps,
             BeginShutdownKeeps, PublishOfflineKeeps DEF Together, Next

\* The invariant says what the run checks.
LEMMA InvariantIsSound == DeliveryInv => DeliveryIsSound
  <1> SUFFICES ASSUME DeliveryInv PROVE DeliveryIsSound
    OBVIOUS
  <1>1. DrainedIsQuiet /\ ReadyIsRestored /\ SuccessIsComplete
    BY ZeroIsQuiet DEF DeliveryInv, SessionInv, AttemptInv
  <1>2. DeviceTypeOK
    <2>1. /\ \A c \in Clients : /\ restore[c].epoch \in Nat
                          /\ restore[c].pc \in {"none", "begin", "ack", "command",
                               "status", "publishing", "token", "done"}
      BY DEF DeliveryInv, DeviceTypes, RestoreType
    <2>2. waiter.id \in 0..MaxSeq /\ waiter.got \in {"none", "terminal", "nonterminal"}
      BY DEF DeliveryInv, DeviceTypes, WaiterType
    <2>3. call.pc \in Pcs /\ call.id \in 0..MaxSeq
      BY DEF DeliveryInv, DeviceTypes, CallType
    <2>4. \A x \in inbox : x.client \in Clients /\ x.epoch \in Nat /\ x.ack \in Acks
      BY DEF DeliveryInv, DeviceTypes
    <2>5. IngressTypeOK
      BY DEF DeliveryInv, ServiceInv
    <2> QED BY <2>1, <2>2, <2>3, <2>4, <2>5 DEF DeliveryInv, DeviceTypes, DeviceTypeOK
  <1> QED BY <1>1, <1>2 DEF DeliveryIsSound

\* Every step but the two that complete a value leaves the queue as long.
LEMMA QueueOnlyGrows ==
  ASSUME DeliveryInv, [Together]_vars
  PROVE  \/ Pending \subseteq Pending'
         \/ ReleaseAttempt \/ \E x \in inbox : ResolveAck(x)
  <1>1. CASE UNCHANGED items
    BY <1>1 DEF Pending
  <1>2. CASE Boot \/ Enqueue
    BY <1>2, BootKeeps, EnqueueKeeps
  <1>3. CASE UNCHANGED deviceVars
    BY <1>1, <1>3 DEF deviceVars
  <1>4. CASE Goroutine
    BY <1>1, <1>2, <1>4 DEF Goroutine, Install, AwaitReady, RunMode, Snapshot, ReplayNext,
       RegisterAck, AdmitPublish, SendTelemetry, TokenDone, AwaitAck, Detach
  <1>5. ASSUME NEW c \in Clients, Callbacks(c) \/ LinkBreaks(c) \/ BrokerPublishesWill(c)
                                  \/ OnClientLost(c)
        PROVE  UNCHANGED items
    BY <1>5 DEF Callbacks, Dialed, BeginRestoration, SubscribeRequired, AdmitStatus,
       PublishStatus, CommitReady, LinkBreaks, BrokerPublishesWill, OnClientLost
  <1>6. ASSUME NEW a \in acks, (\E c \in Clients : OnMessage(a, c)) \/ AckUndelivered(a)
        PROVE  UNCHANGED items
    BY <1>6 DEF OnMessage, AckUndelivered, deviceVars
  <1>7. CASE Interrupt \/ BeginShutdown \/ PublishOffline
    BY <1>1, <1>7 DEF Interrupt, BeginShutdown, PublishOffline
  <1> QED BY <1>1, <1>3, <1>4, <1>5, <1>6, <1>7
          DEF Together, Next, Backend, LoseUplink, Delivery, vars

\* What a step may do to the queue.
LEMMA StepsLoseNothing ==
  ASSUME DeliveryInv, [Together]_vars
  PROVE  CompletedMeansRecorded /\ RemovedByFreshAttempt /\ NoOvertaking
  <1>1. NoOvertaking
    BY DEF NoOvertaking, DeliveryInv, AttemptInv, ReplayIsOrdered, Attempting
  <1>2. \A id \in Pending : id \notin Pending' =>
           /\ id \in Recorded
           /\ call.id = id /\ call.queued /\ call.pc \in {"release", "wait"} /\ StillReady
    <2>1. CASE ReleaseAttempt
      <3>1. call.pc = "release"
        BY <2>1 DEF ReleaseAttempt
      <3> QED BY <2>1, <3>1, ReleaseAttemptKeeps
    <2>2. CASE \E x \in inbox : ResolveAck(x)
      BY <2>2, ResolveAckKeeps
    <2> QED BY <2>1, <2>2, QueueOnlyGrows
  <1> QED BY <1>1, <1>2 DEF CompletedMeansRecorded, RemovedByFreshAttempt, Recorded

\* The retained status is published by the restoration, the broker and shutdown.
LEMMA OfflineStays ==
  ASSUME DeliveryInv, [Together]_vars PROVE OfflineIsFinal
  <1> SUFFICES ASSUME stop.pc = "done", retained = "offline" PROVE retained' = "offline"
    BY DEF OfflineIsFinal
  <1>1. \A c \in Clients : restore[c].pc # "publishing"
    BY DEF DeliveryInv, SessionInv, ShutdownHolds
  <1>2. CASE UNCHANGED deviceVars
    BY <1>2 DEF deviceVars
  <1>3. CASE Goroutine
    BY <1>3 DEF Goroutine, Boot, Install, AwaitReady, RunMode, Enqueue, Snapshot, ReplayNext,
       RegisterAck, AdmitPublish, SendTelemetry, TokenDone, ReleaseAttempt, AwaitAck, Detach
  <1>4. ASSUME NEW c \in Clients, Callbacks(c) \/ LinkBreaks(c) \/ BrokerPublishesWill(c)
                                  \/ OnClientLost(c)
        PROVE  retained' = "offline"
    BY <1>1, <1>4 DEF Callbacks, Dialed, BeginRestoration, SubscribeRequired, AdmitStatus,
       PublishStatus, CommitReady, LinkBreaks, BrokerPublishesWill, OnClientLost
  <1>5. CASE Delivery
    BY <1>5 DEF Delivery, OnMessage, AckUndelivered, ResolveAck, deviceVars
  <1>6. CASE Interrupt \/ BeginShutdown \/ PublishOffline
    BY <1>6 DEF Interrupt, BeginShutdown, PublishOffline
  <1> QED BY <1>2, <1>3, <1>4, <1>5, <1>6 DEF Together, Next, Backend, LoseUplink, vars

\* The device takes ACKs; only the service writes and answers.
LEMMA DrainStays ==
  ASSUME DeliveryInv, [Together]_vars PROVE DrainedWritesNothing
  <1>1. CASE IngressNext
    BY <1>1, ServiceWrites DEF DeliveryInv
  <1>2. CASE UNCHANGED <<stored, refused>> /\ acks' \subseteq acks
    BY <1>2 DEF DrainedWritesNothing
  <1>3. CASE UNCHANGED ingressVars
    BY <1>2, <1>3 DEF ingressVars
  <1>4. CASE Goroutine
    BY <1>2, <1>3, <1>4 DEF Goroutine, Boot, Install, AwaitReady, RunMode, Enqueue, Snapshot,
       ReplayNext, RegisterAck, AdmitPublish, SendTelemetry, TokenDone, ReleaseAttempt, AwaitAck,
       Detach
  <1>5. ASSUME NEW c \in Clients, Callbacks(c) \/ LinkBreaks(c) \/ BrokerPublishesWill(c)
                                  \/ OnClientLost(c)
        PROVE  DrainedWritesNothing
    BY <1>2, <1>3, <1>5 DEF Callbacks, Dialed, BeginRestoration, SubscribeRequired, AdmitStatus,
       PublishStatus, CommitReady, LinkBreaks, BrokerPublishesWill, OnClientLost
  <1>6. CASE Delivery
    BY <1>2, <1>3, <1>6 DEF Delivery, OnMessage, AckUndelivered, ResolveAck
  <1>7. CASE Interrupt \/ BeginShutdown \/ PublishOffline
    BY <1>3, <1>7 DEF Interrupt, BeginShutdown, PublishOffline
  <1>8. CASE Backend \/ LoseUplink
    BY <1>1, <1>2, <1>8 DEF Backend, LoseUplink, IngressNext
  <1> QED BY <1>1, <1>3, <1>4, <1>5, <1>6, <1>7, <1>8 DEF Together, Next, vars

\* The invariant of the device and the service together.
LEMMA DeliveryInvariance == TogetherSpec => []DeliveryInv
  <1>1. IngressInit /\ Device => DeliveryInv
    BY DeviceStart
  <1>2. DeliveryInv /\ [Together]_vars => DeliveryInv'
    BY DeliveryKeeps
  <1> QED BY <1>1, <1>2, PTL DEF TogetherSpec

\* The device against an undisturbed service is one way they run together.
LEMMA SpecIsTogether == Spec => TogetherSpec
  <1>1. Init => IngressInit /\ Device
    BY DEF Init
  <1>2. [Next]_vars => [Together]_vars
    BY DEF Together
  <1> QED BY <1>1, <1>2, PTL DEF Spec, TogetherSpec

\* At any moment of any run, whatever the bounds, the number of workers, the
\* modes, and however the service is stopped and started under the device: a
\* drained service is quiet (StopIngestion), a ready device is restored
\* (onConnect), and a publishAndWait that returned nil has left nothing it sent
\* in the queue.
THEOREM DeliveryStaysSound == TogetherSpec => []DeliveryIsSound
  BY DeliveryInvariance, InvariantIsSound, PTL

\* The same of the device against a service nobody stops.
THEOREM DeliveryIsAlwaysSound == Spec => []DeliveryIsSound
  BY SpecIsTogether, DeliveryStaysSound, PTL

\* No value is lost on the way: it leaves the device's queue once the backend
\* recorded it, by the answer to its own attempt in a session that still holds,
\* and no value is sent before an older one that is pending (HandleAck,
\* resolveAckForSession, replayPendingLocked).
THEOREM NoValueIsLost == TogetherSpec => NothingIsLost
  <1>1. DeliveryInv /\ [Together]_vars
        => [CompletedMeansRecorded /\ RemovedByFreshAttempt /\ NoOvertaking]_vars
    BY StepsLoseNothing
  <1> QED BY <1>1, DeliveryInvariance, PTL DEF TogetherSpec, NothingIsLost

\* What has ended stays ended: after StopIngestion has returned nil nothing is
\* written or answered before a start, and after shutdown has published the
\* offline status no online status follows.
THEOREM EndsStayFinal == TogetherSpec => EndsAreFinal
  <1>1. DeliveryInv /\ [Together]_vars => [DrainedWritesNothing /\ OfflineIsFinal]_vars
    BY DrainStays, OfflineStays
  <1> QED BY <1>1, DeliveryInvariance, PTL DEF TogetherSpec, EndsAreFinal
=============================================================================
