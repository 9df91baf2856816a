--------------------------- MODULE DeviceDelivery ---------------------------
(***************************************************************************)
(* One simulated device and the MQTT service it reports to.  The device    *)
(* keeps unacknowledged telemetry in a bounded FIFO queue, publishes one   *)
(* value at a time, and lets an ACK complete a value only while an attempt *)
(* whose publication was validated in the present session waits for it.    *)
(* Its Paho clients call back concurrently (onConnect, onConnectionLost,   *)
(* onMessage), and shutdown may run at any point of it.                    *)
(***************************************************************************)
EXTENDS MqttIngress, SequencesExt

CONSTANTS
    Modes,        \* the run modes: a subset of AllModes
    QueueCapacity,
    MaxClients    \* bound: Paho clients the process creates

AllModes == {"continuous", "duplicate", "offline-replay", "reconnect"}

ASSUME DeviceAssumption ==
    /\ Modes \subseteq AllModes
    /\ QueueCapacity \in Nat \ {0} /\ MaxClients \in Nat \ {0}
    /\ MaxSeq >= 1 /\ ("reconnect" \in Modes => MaxSeq >= 2)

VARIABLES
    mode,         \* the configured mode
    life,         \* what lifecycleMu guards
    links,        \* each Paho client's connection
    wills,        \* sessions that broke and whose will the broker still owes
    retained,     \* the retained status message of the device
    pub,          \* the holder of publishMu while it is inside a Paho call
    restore,      \* each client's onConnect callback
    items,        \* TelemetryQueue.items, as identities
    completed,    \* its quarantine of completed identities
    authorized,   \* ackAuthorized
    deferred,     \* deferredACK
    waiter,       \* the registered waiter of the one attempt replayMu admits
    inbox,        \* ACKs between onMessage's two critical sections
    call,         \* the device's goroutine
    next,         \* the generator's next sequence number
    cancelled,    \* the process context
    stop          \* where shutdown is, and the client it closes

deviceVars == <<mode, life, links, wills, retained, pub, restore, items,
                completed, authorized, deferred, waiter, inbox, call, next,
                cancelled, stop>>
vars == <<ingressVars, deviceVars>>

Clients == 1..MaxClients
NoWaiter == [id |-> 0, epoch |-> 0, queued |-> FALSE, auth |-> FALSE,
             listed |-> FALSE, got |-> "none"]
Call(pc) == [pc |-> pc, id |-> 0, todo |-> <<>>, queued |-> TRUE,
             client |-> 0, epoch |-> 0, ok |-> TRUE, step |-> 0]

Pcs == {"boot", "install", "dialing", "await", "idle", "enqueue", "snapshot",
        "next", "register", "publish", "sending", "token", "release", "wait",
        "detach", "exit"}

DeviceTypeOK ==
    /\ IngressTypeOK
    /\ mode \in Modes
    /\ life \in [client : 0..MaxClients, epoch : Nat, restoring : Nat,
                 ready : BOOLEAN, stopping : BOOLEAN]
    /\ links \in [Clients -> {"none", "dialing", "up", "lost", "dead", "closed"}]
    /\ wills \subseteq Clients
    /\ retained \in {"none", "online", "offline"}
    /\ pub \in {"free", "restore", "send"}
    /\ \A c \in Clients : /\ restore[c].epoch \in Nat
                          /\ restore[c].pc \in {"none", "begin", "ack", "command",
                               "status", "publishing", "token", "done"}
    /\ items \in Seq(Items) /\ Len(items) <= QueueCapacity
    /\ completed \in Seq(Items) /\ Len(completed) <= QueueCapacity
    /\ authorized \subseteq Items /\ deferred \subseteq Items
    /\ waiter.id \in 0..MaxSeq
    /\ waiter.got \in {"none", "terminal", "nonterminal"}
    /\ \A x \in inbox : x.client \in Clients /\ x.epoch \in Nat /\ x.ack \in Acks
    /\ call.pc \in Pcs /\ call.id \in 0..MaxSeq
    /\ next \in 1..(MaxSeq + 1)
    /\ cancelled \in BOOLEAN
    /\ stop.pc \in {"none", "closing", "done"} /\ stop.client \in 0..MaxClients

\* The device before its process starts.
Device ==
    /\ mode \in Modes
    /\ life = [client |-> 0, epoch |-> 0, restoring |-> 0, ready |-> FALSE,
               stopping |-> FALSE]
    /\ links = [c \in Clients |-> "none"] /\ wills = {} /\ retained = "none"
    /\ pub = "free"
    /\ restore = [c \in Clients |-> [pc |-> "none", epoch |-> 0]]
    /\ items = <<>> /\ completed = <<>> /\ authorized = {} /\ deferred = {}
    /\ waiter = NoWaiter /\ inbox = {} /\ call = Call("boot") /\ next = 1
    /\ cancelled = FALSE /\ stop = [pc |-> "none", client |-> 0]

Init == IngressInit /\ ~gate.blocked /\ ~gate.smokeOnly /\ Device

Pending == Range(items)

\* Where the value is in the queue.
Position(id) == CHOOSE i \in DOMAIN items : items[i] = id

\* HandleAck and rememberCompletedLocked.
Completing(id) ==
    /\ items' = RemoveAt(items, Position(id))
    /\ completed' = LET all == Append(completed, id)
                    IN IF Len(all) > QueueCapacity THEN Tail(all) ELSE all

Invalidated(l) == [l EXCEPT !.epoch = @ + 1, !.restoring = 0, !.ready = FALSE]

\* pruneStaleQueueWaiters.
Prune ==
    /\ waiter' = [waiter EXCEPT !.listed = FALSE]
    /\ authorized' = authorized \ Pending

\* Any answer of the backend completes the value.
AnyAnswer(status) == status \in Statuses

Terminal(status) == status \in {"stored", "duplicate", "lifecycle_blocked"}

(***************************************************************************)
(* Starting and connecting                                                 *)
(***************************************************************************)
\* startConfiguredDevices: offline-replay fills its queue before connecting.
Boot ==
    /\ call.pc = "boot"
    /\ call' = [call EXCEPT !.pc = IF cancelled THEN "exit" ELSE "install"]
    /\ LET fill == IF mode = "offline-replay" /\ MaxSeq <= QueueCapacity THEN MaxSeq ELSE 0
       IN items' = [i \in 1..fill |-> i] /\ next' = fill + 1
    /\ UNCHANGED <<ingressVars, mode, life, links, wills, retained, pub, restore,
                   completed, authorized, deferred, waiter, inbox, cancelled, stop>>

\* connect up to client.Connect, setClient included.
Install ==
    /\ call.pc = "install" /\ pub = "free"
    /\ \/ /\ life.stopping
          /\ call' = [call EXCEPT !.pc = "exit"]
          /\ UNCHANGED <<life, links>>
       \/ /\ ~life.stopping
          /\ \E c \in Clients :
                /\ links[c] = "none" /\ \A d \in Clients : d < c => links[d] # "none"
                /\ links' = [links EXCEPT ![c] = "dialing"]
                /\ life' = [Invalidated(life) EXCEPT !.client = c]
                /\ call' = [call EXCEPT !.pc = "dialing", !.client = c]
    /\ UNCHANGED <<ingressVars, mode, wills, retained, pub, restore, items,
                   completed, authorized, deferred, waiter, inbox, next,
                   cancelled, stop>>

Dialed(c) ==
    /\ links[c] = "dialing"
    /\ links' = [links EXCEPT ![c] = "up"]
    /\ restore' = [restore EXCEPT ![c].pc = "begin"]
    /\ UNCHANGED <<ingressVars, mode, life, wills, retained, pub, items, completed,
                   authorized, deferred, waiter, inbox, call, next, cancelled, stop>>

\* waitForReady, its timeout included (the restoration failed or is slow).
AwaitReady ==
    /\ call.pc = "dialing"
    /\ \/ life.stopping /\ call' = [call EXCEPT !.pc = "exit"]
       \/ life.ready /\ ~life.stopping /\ call' = [call EXCEPT !.pc = "idle"]
       \/ /\ ~life.ready /\ restore[call.client].pc = "done"
          /\ call' = [call EXCEPT !.pc = "exit"]
    /\ UNCHANGED <<ingressVars, mode, life, links, wills, retained, pub, restore,
                   items, completed, authorized, deferred, waiter, inbox, next,
                   cancelled, stop>>

(***************************************************************************)
(* The onConnect callback of client c                                      *)
(***************************************************************************)
CurrentRestoration(c) ==
    /\ ~life.stopping /\ life.client = c
    /\ life.epoch = restore[c].epoch /\ life.restoring = restore[c].epoch

BeginRestoration(c) ==
    /\ restore[c].pc = "begin"
    /\ IF life.stopping \/ life.client # c
       THEN restore' = [restore EXCEPT ![c].pc = "done"] /\ UNCHANGED life
       ELSE /\ life' = [Invalidated(life) EXCEPT !.restoring = life.epoch + 1]
            /\ restore' = [restore EXCEPT ![c] = [pc |-> "ack", epoch |-> life.epoch + 1]]
    /\ UNCHANGED <<ingressVars, mode, links, wills, retained, pub, items, completed,
                   authorized, deferred, waiter, inbox, call, next, cancelled, stop>>

\* Subscribe to the ACK topic, then to the command topic; a refused or short
\* grant ends the callback.
SubscribeRequired(c) ==
    /\ restore[c].pc \in {"ack", "command"}
    /\ \/ /\ CurrentRestoration(c) /\ links[c] = "up"
          /\ restore' = [restore EXCEPT ![c].pc = IF @ = "ack" THEN "command" ELSE "status"]
          /\ UNCHANGED losses
       \/ /\ IF CurrentRestoration(c) /\ links[c] = "up" THEN Fault ELSE UNCHANGED losses
          /\ restore' = [restore EXCEPT ![c].pc = "done"]
    /\ UNCHANGED <<uplink, session, gate, restoring, routed, work, busy, inFlight,
                   drain, stored, refused, acks>>
    /\ UNCHANGED <<mode, life, links, wills, retained, pub, items, completed,
                   authorized, deferred, waiter, inbox, call, next, cancelled, stop>>

\* publishForEpoch up to the Paho call, under publishMu.
AdmitStatus(c) ==
    /\ restore[c].pc = "status" /\ pub = "free"
    /\ IF CurrentRestoration(c)
       THEN pub' = "restore" /\ restore' = [restore EXCEPT ![c].pc = "publishing"]
       ELSE UNCHANGED pub /\ restore' = [restore EXCEPT ![c].pc = "done"]
    /\ UNCHANGED <<ingressVars, mode, life, links, wills, retained, items, completed,
                   authorized, deferred, waiter, inbox, call, next, cancelled, stop>>

\* A stale restoration returns without unlocking publishMu.
PublishStatusKeepsLock(c) ==
    /\ restore[c].pc = "publishing"
    /\ pub' = IF CurrentRestoration(c) THEN "free" ELSE pub
    /\ retained' = IF links[c] = "up" THEN "online" ELSE retained
    /\ restore' = [restore EXCEPT ![c].pc = IF CurrentRestoration(c) THEN "token" ELSE "done"]
    /\ UNCHANGED <<ingressVars, mode, life, links, wills, items, completed,
                   authorized, deferred, waiter, inbox, call, next, cancelled, stop>>

PublishStatus(c) ==
    /\ restore[c].pc = "publishing"
    /\ pub' = "free"
    /\ retained' = IF links[c] = "up" THEN "online" ELSE retained
    /\ restore' = [restore EXCEPT ![c].pc = IF CurrentRestoration(c) THEN "token" ELSE "done"]
    /\ UNCHANGED <<ingressVars, mode, life, links, wills, items, completed,
                   authorized, deferred, waiter, inbox, call, next, cancelled, stop>>

CommitReadyAnyway(c) ==
    /\ restore[c].pc = "token"
    /\ restore' = [restore EXCEPT ![c].pc = "done"]
    /\ life' = IF links[c] = "up" THEN [life EXCEPT !.ready = TRUE] ELSE life
    /\ UNCHANGED <<ingressVars, mode, links, wills, retained, pub, items, completed,
                   authorized, deferred, waiter, inbox, call, next, cancelled, stop>>

CommitReady(c) ==
    /\ restore[c].pc = "token"
    /\ restore' = [restore EXCEPT ![c].pc = "done"]
    /\ life' = IF links[c] = "up" /\ CurrentRestoration(c)
               THEN [life EXCEPT !.ready = TRUE] ELSE life
    /\ UNCHANGED <<ingressVars, mode, links, wills, retained, pub, items, completed,
                   authorized, deferred, waiter, inbox, call, next, cancelled, stop>>

\* The connection breaks; the broker will publish the will when it notices.
LinkBreaks(c) ==
    /\ links[c] = "up" /\ Fault
    /\ links' = [links EXCEPT ![c] = "lost"]
    /\ wills' = wills \cup {c}
    /\ UNCHANGED <<uplink, session, gate, restoring, routed, work, busy, inFlight,
                   drain, stored, refused, acks>>
    /\ UNCHANGED <<mode, life, retained, pub, restore, items, completed, authorized,
                   deferred, waiter, inbox, call, next, cancelled, stop>>

BrokerPublishesWill(c) ==
    /\ c \in wills
    /\ wills' = wills \ {c}
    /\ retained' = "offline"
    /\ UNCHANGED <<ingressVars, mode, life, links, pub, restore, items, completed,
                   authorized, deferred, waiter, inbox, call, next, cancelled, stop>>

OnClientLost(c) ==
    /\ links[c] = "lost"
    /\ links' = [links EXCEPT ![c] = "dead"]
    /\ IF life.stopping \/ life.client # c
       THEN UNCHANGED <<life, waiter, authorized>>
       ELSE life' = Invalidated(life) /\ Prune
    /\ UNCHANGED <<ingressVars, mode, wills, retained, pub, restore, items, completed,
                   deferred, inbox, call, next, cancelled, stop>>

(***************************************************************************)
(* ACKs                                                                    *)
(***************************************************************************)
SessionOf(c) == ~life.stopping /\ life.ready /\ life.client = c

\* onMessage up to resolveAckForSession; a stale client's message is ignored.
OnMessage(a, c) ==
    /\ a \in acks /\ links[c] = "up"
    /\ acks' = acks \ {a}
    /\ inbox' = IF SessionOf(c)
                THEN inbox \cup {[client |-> c, epoch |-> life.epoch, ack |-> a]}
                ELSE inbox
    /\ UNCHANGED <<uplink, session, gate, restoring, routed, work, busy, inFlight,
                   drain, stored, refused, losses>>
    /\ UNCHANGED <<mode, life, links, wills, retained, pub, restore, items, completed,
                   authorized, deferred, waiter, call, next, cancelled, stop>>

\* Nobody is subscribed: the broker keeps nothing for the clean session.
AckUndelivered(a) ==
    /\ a \in acks /\ \A c \in Clients : links[c] # "up"
    /\ acks' = acks \ {a}
    /\ UNCHANGED <<uplink, session, gate, restoring, routed, work, busy, inFlight,
                   drain, stored, refused, losses>>
    /\ UNCHANGED deviceVars

Notified(got) == [waiter EXCEPT !.listed = FALSE, !.got = got]

\* Whether the registered waiter takes this ACK.
Accepts(id, terminal) ==
    /\ waiter.listed /\ waiter.id = id
    /\ waiter.epoch = life.epoch
    /\ waiter.queued => id \in Pending
    /\ terminal => waiter.auth

\* A terminal ACK completes whatever is pending, authorized or not.
ResolveUnauthorized(x) ==
    /\ x \in inbox
    /\ inbox' = inbox \ {x}
    /\ LET id == x.ack.id
           terminal == Terminal(x.ack.status)
       IN IF ~SessionOf(x.client) \/ life.epoch # x.epoch
          THEN UNCHANGED <<items, completed, authorized, deferred, waiter>>
          ELSE /\ IF terminal /\ id \in Pending
                  THEN Completing(id) ELSE UNCHANGED <<items, completed>>
               /\ waiter' = IF Accepts(id, terminal)
                            THEN Notified(IF terminal THEN "terminal" ELSE "nonterminal")
                            ELSE waiter
               /\ UNCHANGED <<authorized, deferred>>
    /\ UNCHANGED <<ingressVars, mode, life, links, wills, retained, pub, restore,
                   call, next, cancelled, stop>>

\* resolveAckForSession.
ResolveAck(x) ==
    /\ x \in inbox
    /\ inbox' = inbox \ {x}
    /\ LET id == x.ack.id
           terminal == Terminal(x.ack.status)
       IN IF ~SessionOf(x.client) \/ life.epoch # x.epoch
          THEN UNCHANGED <<items, completed, authorized, deferred, waiter>>
          ELSE IF terminal /\ id \in Pending /\ id \notin authorized
          THEN /\ deferred' = deferred \cup {id}
               /\ UNCHANGED <<items, completed, authorized, waiter>>
          ELSE /\ IF terminal /\ id \in Pending
                  THEN /\ Completing(id)
                       /\ authorized' = authorized \ {id}
                       /\ deferred' = deferred \ {id}
                  ELSE UNCHANGED <<items, completed, authorized, deferred>>
               /\ waiter' = IF Accepts(id, terminal)
                            THEN Notified(IF terminal THEN "terminal" ELSE "nonterminal")
                            ELSE waiter
    /\ UNCHANGED <<ingressVars, mode, life, links, wills, retained, pub, restore,
                   call, next, cancelled, stop>>

(***************************************************************************)
(* The device's goroutine: what each mode does between two calls           *)
(***************************************************************************)
BeginCall(pc, id, queued) ==
    /\ call' = [Call(pc) EXCEPT !.id = id, !.queued = queued, !.step = call.step + 1]

RunContinuous ==
    /\ mode = "continuous"
    /\ \/ cancelled /\ call' = [call EXCEPT !.pc = "exit"] /\ UNCHANGED next
       \/ ~cancelled /\ next <= MaxSeq /\ BeginCall("enqueue", next, TRUE) /\ next' = next + 1

\* The second publication of the same identity is not a queue item.
RunDuplicate ==
    /\ mode = "duplicate"
    /\ \/ call.step = 0 /\ BeginCall("enqueue", next, TRUE) /\ next' = next + 1
       \/ call.step = 1 /\ call.ok /\ BeginCall("register", 1, FALSE) /\ UNCHANGED next
       \/ /\ call.step = 2 \/ (call.step = 1 /\ ~call.ok)
          /\ call' = [call EXCEPT !.pc = "exit"] /\ UNCHANGED next

RunOfflineReplay ==
    /\ mode = "offline-replay" /\ UNCHANGED next
    /\ IF call.step = 0 THEN BeginCall("snapshot", 0, TRUE)
                        ELSE call' = [call EXCEPT !.pc = "exit"]

\* publishAndDisconnectBeforeACK, detach if that left the client in place,
\* reconnect, replay, and publish one more value.
RunReconnect ==
    /\ mode = "reconnect"
    /\ \/ /\ call.step = 0 /\ next' = next + 1
          /\ BeginCall("enqueue", next, TRUE)
       \/ /\ call.step = 1 /\ UNCHANGED next
          /\ call' = [Call(IF cancelled THEN "exit"
                           ELSE IF life.client # 0 THEN "detach" ELSE "install")
                         EXCEPT !.step = 2]
       \/ call.step = 2 /\ BeginCall("snapshot", 0, TRUE) /\ UNCHANGED next
       \/ call.step = 3 /\ call.ok /\ BeginCall("enqueue", next, TRUE) /\ next' = next + 1
       \/ /\ call.step = 4 \/ (call.step = 3 /\ ~call.ok)
          /\ call' = [call EXCEPT !.pc = "exit"] /\ UNCHANGED next

RunMode ==
    /\ call.pc = "idle"
    /\ RunContinuous \/ RunDuplicate \/ RunOfflineReplay \/ RunReconnect
    /\ UNCHANGED <<ingressVars, mode, life, links, wills, retained, pub, restore,
                   items, completed, authorized, deferred, waiter, inbox,
                   cancelled, stop>>

DisconnectFirst == mode = "reconnect" /\ call.step = 1

\* Enqueue neither looks for room nor for the identity.
EnqueueUnbounded ==
    /\ call.pc = "enqueue"
    /\ items' = items \o <<call.id, call.id>>
    /\ call' = [call EXCEPT !.pc = IF DisconnectFirst THEN "register" ELSE "snapshot"]
    /\ UNCHANGED <<ingressVars, mode, life, links, wills, retained, pub, restore,
                   completed, authorized, deferred, waiter, inbox, next, cancelled, stop>>

\* Enqueue: waits for room until the context ends.
Enqueue ==
    /\ call.pc = "enqueue"
    /\ \/ /\ Len(items) < QueueCapacity
          /\ items' = Append(items, call.id)
          /\ call' = [call EXCEPT !.pc = IF DisconnectFirst THEN "register" ELSE "snapshot"]
       \/ /\ Len(items) = QueueCapacity /\ cancelled
          /\ call' = [call EXCEPT !.pc = "idle", !.ok = FALSE]
          /\ UNCHANGED items
    /\ UNCHANGED <<ingressVars, mode, life, links, wills, retained, pub, restore,
                   completed, authorized, deferred, waiter, inbox, next, cancelled, stop>>

\* A new value is sent without its elders.
SnapshotNewest ==
    /\ call.pc = "snapshot"
    /\ call' = [call EXCEPT !.pc = "next",
                            !.todo = IF items = <<>> THEN <<>> ELSE <<items[Len(items)]>>]
    /\ UNCHANGED <<ingressVars, mode, life, links, wills, retained, pub, restore,
                   items, completed, authorized, deferred, waiter, inbox, next,
                   cancelled, stop>>

\* replayPendingLocked takes its snapshot ...
Snapshot ==
    /\ call.pc = "snapshot"
    /\ call' = [call EXCEPT !.pc = "next", !.todo = items]
    /\ UNCHANGED <<ingressVars, mode, life, links, wills, retained, pub, restore,
                   items, completed, authorized, deferred, waiter, inbox, next,
                   cancelled, stop>>

\* ... and rechecks each identity before it is sent.
ReplayNext ==
    /\ call.pc = "next"
    /\ call' = IF call.todo = <<>> THEN [call EXCEPT !.pc = "idle", !.ok = TRUE]
               ELSE IF cancelled THEN [call EXCEPT !.pc = "idle", !.ok = FALSE]
               ELSE IF Head(call.todo) \notin Pending THEN [call EXCEPT !.todo = Tail(@)]
               ELSE [call EXCEPT !.pc = "register", !.id = Head(call.todo)]
    /\ UNCHANGED <<ingressVars, mode, life, links, wills, retained, pub, restore,
                   items, completed, authorized, deferred, waiter, inbox, next,
                   cancelled, stop>>

\* registerAckMode.
RegisterAck ==
    /\ call.pc = "register"
    /\ waiter' = [NoWaiter EXCEPT !.id = call.id, !.epoch = life.epoch,
                                  !.queued = call.queued, !.listed = TRUE]
    /\ authorized' = IF call.queued THEN authorized \ {call.id} ELSE authorized
    /\ call' = [call EXCEPT !.pc = "publish"]
    /\ UNCHANGED <<ingressVars, mode, life, links, wills, retained, pub, restore,
                   items, completed, deferred, inbox, next, cancelled, stop>>

\* The end of an attempt: its authorization is revoked and its waiter removed.
EndAttempt(ok) ==
    /\ waiter' = NoWaiter
    /\ authorized' = IF call.queued THEN authorized \ {call.id} ELSE authorized
    /\ call' = IF ok /\ call.todo # <<>>
               THEN [call EXCEPT !.pc = "next", !.todo = Tail(@)]
               ELSE [call EXCEPT !.pc = "idle", !.ok = ok]

\* publishWhenReady up to the Paho call.
AdmitPublish ==
    /\ call.pc = "publish" /\ pub = "free"
    /\ IF life.stopping \/ ~life.ready \/ life.client = 0
       THEN EndAttempt(FALSE) /\ UNCHANGED pub
       ELSE /\ pub' = "send"
            /\ call' = [call EXCEPT !.pc = "sending", !.client = life.client,
                                    !.epoch = life.epoch]
            /\ UNCHANGED <<waiter, authorized>>
    /\ UNCHANGED <<ingressVars, mode, life, links, wills, retained, restore, items,
                   completed, deferred, inbox, next, cancelled, stop>>

\* validateReadyPublish.
StillReady ==
    /\ ~life.stopping /\ life.ready
    /\ life.client = call.client /\ life.epoch = call.epoch

\* The Paho call, which may wait for room, and the check behind it.
SendTelemetry ==
    /\ call.pc = "sending"
    /\ \/ /\ links[call.client] = "up" /\ Len(uplink) < MaxUplink
          /\ uplink' = Append(uplink, [topic |-> "telemetry", id |-> call.id])
       \/ links[call.client] # "up" /\ UNCHANGED uplink
    /\ pub' = "free"
    /\ IF StillReady
       THEN call' = [call EXCEPT !.pc = "token"] /\ UNCHANGED <<waiter, authorized>>
       ELSE EndAttempt(FALSE)
    /\ UNCHANGED <<session, gate, restoring, routed, work, busy, inFlight, drain,
                   stored, refused, acks, losses>>
    /\ UNCHANGED <<mode, life, links, wills, retained, restore, items, completed,
                   deferred, inbox, next, cancelled, stop>>

\* waitMQTTToken; the deliberate disconnect goes on without validating.
TokenDone ==
    /\ call.pc = "token"
    /\ IF DisconnectFirst
       THEN call' = [call EXCEPT !.pc = "detach"] /\ UNCHANGED <<waiter, authorized>>
       ELSE IF StillReady
       THEN call' = [call EXCEPT !.pc = "release"] /\ UNCHANGED <<waiter, authorized>>
       ELSE EndAttempt(FALSE)
    /\ UNCHANGED <<ingressVars, mode, life, links, wills, retained, pub, restore,
                   items, completed, deferred, inbox, next, cancelled, stop>>

\* releaseAckAttempt: from here an ACK completes the item; one that came
\* before is applied now.
ReleaseAttempt ==
    /\ call.pc = "release"
    /\ call' = [call EXCEPT !.pc = "wait"]
    /\ IF ~StillReady \/ ~waiter.listed
       THEN UNCHANGED <<items, completed, authorized, deferred, waiter>>
       ELSE IF ~call.queued
       THEN waiter' = [waiter EXCEPT !.auth = TRUE]
            /\ UNCHANGED <<items, completed, authorized, deferred>>
       ELSE /\ authorized' = authorized \cup {call.id}
            /\ deferred' = deferred \ {call.id}
            /\ IF call.id \in deferred /\ call.id \in Pending
               THEN Completing(call.id) /\ waiter' = Notified("terminal")
               ELSE waiter' = [waiter EXCEPT !.auth = TRUE]
                    /\ UNCHANGED <<items, completed>>
    /\ UNCHANGED <<ingressVars, mode, life, links, wills, retained, pub, restore,
                   inbox, next, cancelled, stop>>

\* No copy of the published value, or of its ACK, is under way.
NothingUnderWay(id) ==
    /\ \A i \in DOMAIN uplink : uplink[i].id # id
    /\ routed.msg.id # id
    /\ \A i \in DOMAIN work : work[i].id # id
    /\ \A w \in Workers : busy[w].msg.id # id
    /\ \A a \in acks : a.id # id
    /\ \A x \in inbox : x.ack.id # id

\* Without the timer.
AwaitAckForever ==
    /\ call.pc = "wait"
    /\ \/ (cancelled \/ life.epoch # call.epoch) /\ EndAttempt(FALSE)
       \/ waiter.got # "none" /\ EndAttempt(waiter.got = "terminal" /\ StillReady)
    /\ UNCHANGED <<ingressVars, mode, life, links, wills, retained, pub, restore,
                   items, completed, deferred, inbox, next, cancelled, stop>>

\* Any ACK counts as success.
AwaitAnyAck ==
    /\ call.pc = "wait"
    /\ (cancelled \/ life.epoch # call.epoch) \/ waiter.got # "none"
    /\ EndAttempt(waiter.got # "none")
    /\ UNCHANGED <<ingressVars, mode, life, links, wills, retained, pub, restore,
                   items, completed, deferred, inbox, next, cancelled, stop>>

\* The select: the context, the session, the waiter (handleACK), the timer with
\* its arbitration.  A timer that beats an answer under way counts as a fault.
AwaitAck ==
    /\ call.pc = "wait"
    /\ \/ (cancelled \/ life.epoch # call.epoch) /\ EndAttempt(FALSE) /\ UNCHANGED losses
       \/ /\ waiter.got # "none" /\ UNCHANGED losses
          /\ EndAttempt(waiter.got = "terminal" /\ StillReady)
       \/ /\ waiter.got = "none"
          /\ IF NothingUnderWay(call.id) THEN UNCHANGED losses ELSE Fault
          /\ EndAttempt(FALSE)
    /\ UNCHANGED <<uplink, session, gate, restoring, routed, work, busy, inFlight,
                   drain, stored, refused, acks>>
    /\ UNCHANGED <<mode, life, links, wills, retained, pub, restore, items, completed,
                   deferred, inbox, next, cancelled, stop>>

\* disconnectClientForReconnect.  A graceful Disconnect withdraws the will.
Detach ==
    /\ call.pc = "detach" /\ pub = "free"
    /\ IF life.stopping
       THEN /\ call' = IF DisconnectFirst THEN [call EXCEPT !.pc = "idle", !.ok = FALSE]
                                          ELSE [call EXCEPT !.pc = "exit"]
            /\ waiter' = NoWaiter
            /\ UNCHANGED <<life, links, authorized>>
       ELSE /\ life' = [Invalidated(life) EXCEPT !.client = 0]
            /\ links' = IF life.client # 0 /\ links[life.client] \in {"dialing", "up"}
                        THEN [links EXCEPT ![life.client] = "closed"] ELSE links
            /\ waiter' = NoWaiter
            /\ authorized' = authorized \ Pending
            /\ call' = IF DisconnectFirst THEN [call EXCEPT !.pc = "idle", !.ok = FALSE]
                                          ELSE [call EXCEPT !.pc = "install"]
    /\ UNCHANGED <<ingressVars, mode, wills, retained, pub, restore, items, completed,
                   deferred, inbox, next, cancelled, stop>>

(***************************************************************************)
(* Ending                                                                  *)
(***************************************************************************)
Interrupt ==
    /\ ~cancelled /\ call.pc # "exit"
    /\ cancelled' = TRUE
    /\ UNCHANGED <<ingressVars, mode, life, links, wills, retained, pub, restore,
                   items, completed, authorized, deferred, waiter, inbox, call,
                   next, stop>>

\* shutdown's first critical section, called by the watcher of the context or
\* when the run is over.
BeginShutdown ==
    /\ stop.pc = "none" /\ call.pc # "boot"
    /\ cancelled \/ call.pc = "exit"
    /\ stop' = [pc |-> "closing", client |-> life.client]
    /\ life' = [Invalidated(life) EXCEPT !.stopping = TRUE, !.client = 0]
    /\ Prune
    /\ UNCHANGED <<ingressVars, mode, links, wills, retained, pub, restore, items,
                   completed, deferred, inbox, call, next, cancelled>>

\* The offline status is published without waiting for publishMu.
PublishOfflineAtOnce ==
    /\ stop.pc = "closing"
    /\ stop' = [stop EXCEPT !.pc = "done"]
    /\ retained' = IF stop.client # 0 /\ links[stop.client] = "up" THEN "offline" ELSE retained
    /\ links' = links
    /\ UNCHANGED <<ingressVars, mode, life, wills, pub, restore, items, completed,
                   authorized, deferred, waiter, inbox, call, next, cancelled>>

\* shutdown under publishMu.
PublishOffline ==
    /\ stop.pc = "closing" /\ pub = "free"
    /\ stop' = [stop EXCEPT !.pc = "done"]
    /\ IF stop.client = 0 THEN UNCHANGED <<retained, links>>
       ELSE /\ retained' = IF links[stop.client] = "up" THEN "offline" ELSE retained
            /\ links' = IF links[stop.client] \in {"dialing", "up"}
                        THEN [links EXCEPT ![stop.client] = "closed"] ELSE links
    /\ UNCHANGED <<ingressVars, mode, life, wills, pub, restore, items, completed,
                   authorized, deferred, waiter, inbox, call, next, cancelled>>

(***************************************************************************)
(* The composed system                                                     *)
(***************************************************************************)
\* A QoS 0 publication is lost between device and backend.
LoseUplink ==
    /\ uplink # <<>> /\ Fault
    /\ uplink' = Tail(uplink)
    /\ UNCHANGED <<session, gate, restoring, routed, work, busy, inFlight, drain,
                   stored, refused, acks>>
    /\ UNCHANGED deviceVars

Backend == (Connection \/ Pipeline) /\ UNCHANGED deviceVars

Callbacks(c) == Dialed(c) \/ BeginRestoration(c) \/ SubscribeRequired(c)
                \/ AdmitStatus(c) \/ PublishStatus(c) \/ CommitReady(c)

Goroutine == Boot \/ Install \/ AwaitReady \/ RunMode \/ Enqueue \/ Snapshot
             \/ ReplayNext \/ RegisterAck \/ AdmitPublish \/ SendTelemetry
             \/ TokenDone \/ ReleaseAttempt \/ AwaitAck \/ Detach

Delivery == \/ \E a \in acks : (\E c \in Clients : OnMessage(a, c)) \/ AckUndelivered(a)
            \/ \E x \in inbox : ResolveAck(x)

Next ==
    \/ Backend \/ LoseUplink
    \/ Goroutine
    \/ \E c \in Clients : Callbacks(c) \/ LinkBreaks(c) \/ BrokerPublishesWill(c)
                          \/ OnClientLost(c)
    \/ Delivery
    \/ Interrupt \/ BeginShutdown \/ PublishOffline

Spec == Init /\ [][Next]_vars

-----------------------------------------------------------------------------
\* A value leaves the device's queue only if the backend stored it or reported
\* it lifecycle_blocked, whatever was lost, dropped on a full queue
\* (mqtt_service.go:259), delayed or repeated on the way.
CompletedMeansRecorded ==
  \A id \in Pending : id \notin Pending' => id \in stored \cup refused

\* An ACK takes a value from the queue only while an attempt for that very
\* value, validated after its publication in the session that still is
\* current, waits for it (resolveAckForSession, releaseAckAttempt).
RemovedByFreshAttempt ==
  \A id \in Pending : id \notin Pending' =>
     /\ call.id = id /\ call.queued /\ call.pc \in {"release", "wait"}
     /\ StillReady

\* A value is never published while an older one is still pending
\* (publishAndWait, replayPendingLocked).
NoOvertaking ==
  uplink' # uplink /\ call.pc = "sending" /\ call.queued
  => items # <<>> /\ call.id = Head(items)

\* The device is ready only for the session whose subscriptions and online
\* status the running restoration of the current client established.
ReadyIsRestored ==
    life.ready => /\ ~life.stopping /\ life.client # 0
                  /\ restore[life.client] = [pc |-> "done", epoch |-> life.epoch]

\* A call that reports success has left nothing it sent in the queue.
SuccessIsComplete ==
    call.pc = "idle" /\ call.ok /\ call.id # 0 /\ call.queued
    /\ call.step # 0 => call.id \notin Pending

\* Once shutdown has published the offline status, no online status follows
\* (shutdown: every admitted Publish leaves its Paho call first).
OfflineIsFinal ==
  stop.pc = "done" /\ retained = "offline" => retained' = "offline"

\* When the process is over and the broker has published every will it owes,
\* the retained status says offline (shutdown: "retained offline is the final
\* status publication").
EndsOffline ==
    stop.pc = "done" /\ wills = {} /\ retained # "none"
    /\ (\A c \in Clients : links[c] \in {"none", "dead", "closed"})
    => retained = "offline"

\* At any moment: a drained service is quiet, a ready device is restored, and a
\* call that reported success has nothing left to send.
DeliveryIsSound == DeviceTypeOK /\ DrainedIsQuiet /\ ReadyIsRestored /\ SuccessIsComplete

\* A value leaves the device once it is recorded, by the answer to its own
\* attempt, and in order.
NothingIsLost == [][CompletedMeansRecorded /\ RemovedByFreshAttempt /\ NoOvertaking]_vars

\* After a drain nothing is written, after a shutdown nobody is online again.
EndsAreFinal == [][DrainedWritesNothing /\ OfflineIsFinal]_vars
=============================================================================
