--------------------------- MODULE AuthorityLedger ---------------------------
(***************************************************************************)
(* The D1-L provider of the deployment control plane: authority processes  *)
(* that compete for one advisory lock, the ledger of issue requests,       *)
(* authorizations and consume intents, and the API that mutates it.        *)
(* Every transaction runs on the session that holds the lock, so it is one *)
(* step; its commit may be acknowledged, rolled back, or lost with the     *)
(* session after it took effect.                                           *)
(***************************************************************************)
EXTENDS Naturals, FiniteSets

CONSTANTS
    Processes,    \* authority processes
    Requests,     \* issuer requests; each mints at most one authorization
    Attempts,     \* attempt identities
    Consumes,     \* consume request identities
    NoProcess, NoAttempt, NoConsume,
    MaxEpochs,    \* bound on authority startups
    MaxCalls,     \* bound on API calls
    MaxFaults     \* bound on failed commits, lost sessions and crashes

ASSUME LedgerAssumption ==
    /\ NoProcess \notin Processes /\ NoAttempt \notin Attempts
    /\ NoConsume \notin Consumes
    /\ MaxEpochs \in Nat /\ MaxCalls \in Nat \ {0} /\ MaxFaults \in Nat

VARIABLES
    request,      \* d1l_issue_requests
    auth,         \* d1l_bootstrap_authorizations, by the request that owns it
    intent,       \* d1l_bootstrap_consume_intents
    epoch,        \* provider_control.current_epoch
    lock,         \* the process whose session holds the advisory lock
    session,      \* per process, its pinned session
    mine,         \* per process, the epoch it acquired
    op,           \* per process, the Consume between two transactions
    calls,        \* runner calls in the network
    answer,       \* per consume and issuer request, the last answer to a Consume
    resolved,     \* and the last answer to a Resolve
    secrets,      \* per request, the answers that carried the envelope
    made, faults

tables == <<request, auth, intent>>
ledgerVars == <<request, auth, intent, epoch, lock, session, mine, op, calls,
                answer, resolved, secrets, made, faults>>

-----------------------------------------------------------------------------
RequestStates == {"none", "REQUESTED", "ISSUED", "TERMINAL", "CANCELLED"}
AuthStates == {"none", "ISSUED", "CONSUME_PENDING", "CONSUMED", "REVOKED",
               "EXPIRED", "CONSUME_UNKNOWN"}
IntentStates == {"none", "PENDING", "CLAIMED", "CONSUMED", "ABORTED", "UNKNOWN"}
TerminalAuth == {"CONSUMED", "REVOKED", "EXPIRED", "CONSUME_UNKNOWN"}
TerminalIntent == {"CONSUMED", "ABORTED", "UNKNOWN"}
Live == {"PENDING", "CLAIMED"}

NoRequest == [state |-> "none", attempt |-> NoAttempt]
NoAuth == [state |-> "none", epoch |-> 0, consumer |-> NoConsume, lapsed |-> FALSE]
NoIntent(r) == [state |-> "none", r |-> r]
Idle == [stage |-> "idle"]

\* ConsumeResult: the intent and the authorization it reports, and whether it
\* repeats a durable outcome.
Report(s, a, d) == [state |-> s, auth |-> a, durable |-> d]
NoReport == Report("none", "none", FALSE)
\* normalizeConsumeFailure: what is not an expected rejection is unknown.
Unknown == Report("UNKNOWN", "none", FALSE)
Rejected == Report("REJECTED", "none", FALSE)
Unavailable == Report("UNAVAILABLE", "none", FALSE)
Forbidden == Report("FORBIDDEN", "none", FALSE)

\* auth.Allowed for the two certificates that act on a consume request.
Allowed(role, kind) ==
    \/ role = "runner" /\ kind \in {"consume", "resolve"}
    \/ role = "recovery" /\ kind = "resolve"

LiveIntents(i, r) == {c \in Consumes : i[c].r = r /\ i[c].state \in Live}

LedgerInit ==
    /\ request = [r \in Requests |-> NoRequest]
    /\ auth = [r \in Requests |-> NoAuth]
    /\ \E r \in Requests : intent = [c \in Consumes |-> NoIntent(r)]
    /\ epoch = 0 /\ lock = NoProcess
    /\ session = [p \in Processes |-> "none"]
    /\ mine = [p \in Processes |-> 0]
    /\ op = [p \in Processes |-> Idle]
    /\ calls = {}
    /\ answer = [c \in Consumes |-> [r \in Requests |-> NoReport]]
    /\ resolved = answer
    /\ secrets = [r \in Requests |-> 0]
    /\ made = 0 /\ faults = 0

-----------------------------------------------------------------------------
\* A process's session ends: the server rolls back and frees the lock.
EndSession(p, s) ==
    /\ session' = [session EXCEPT ![p] = s]
    /\ lock' = IF lock = p THEN NoProcess ELSE lock

Fault == faults < MaxFaults /\ faults' = faults + 1

\* assertAuthorityLocked: the pinned session answers, its epoch is the
\* current one and it still owns the lock.
Authority(p) == session[p] = "live" /\ mine[p] = epoch /\ lock = p

\* The outcomes of a transaction on the pinned session (beginAuthorityTx).
Committed(p, q, a, i) ==
    /\ session[p] = "live"
    /\ request' = q /\ auth' = a /\ intent' = i
    /\ UNCHANGED <<session, lock, faults>>
Lost(p, q, a, i) ==
    /\ session[p] = "live" /\ Fault
    /\ request' = q /\ auth' = a /\ intent' = i
    /\ EndSession(p, "dead")
RolledBack(p) ==
    /\ session[p] = "live" /\ Fault
    /\ UNCHANGED <<tables, session, lock>>
\* The session was gone before the transaction began.
NoSession(p) == session[p] # "live" /\ UNCHANGED <<tables, session, lock, faults>>

\* A transaction that may fail: good is answered only when it is known to
\* have committed.
Failed(p, q, a, i) == Lost(p, q, a, i) \/ RolledBack(p) \/ NoSession(p)

-----------------------------------------------------------------------------
\* Startup poisons what the old epoch left, parents before children.
PoisonRequests ==
    [r \in Requests |-> IF request[r].state = "REQUESTED"
                        THEN [request[r] EXCEPT !.state = "TERMINAL"] ELSE request[r]]
PoisonAuthsX ==
    [r \in Requests |->
        CASE auth[r].state = "CONSUME_PENDING" -> [auth[r] EXCEPT !.state = "CONSUME_UNKNOWN"]
          [] OTHER -> auth[r]]
PoisonAuths ==
    [r \in Requests |->
        CASE auth[r].state = "ISSUED" -> [auth[r] EXCEPT !.state = "REVOKED"]
          [] auth[r].state = "CONSUME_PENDING" -> [auth[r] EXCEPT !.state = "CONSUME_UNKNOWN"]
          [] OTHER -> auth[r]]
\* A live intent under a parent of these rows.
PoisonIntents(a) ==
    [c \in Consumes |->
        CASE intent[c].state = "PENDING" /\ a[intent[c].r].state # "ISSUED" ->
                [intent[c] EXCEPT !.state = "ABORTED"]
          [] intent[c].state = "CLAIMED" -> [intent[c] EXCEPT !.state = "UNKNOWN"]
          [] OTHER -> intent[c]]

\* acquireAuthority by a process that starts: lock, schema admission, epoch
\* and poison in one transaction.  A commit it cannot confirm ends it.
AcquireX(p) ==
    /\ session[p] # "live" /\ op[p] = Idle
    /\ lock = NoProcess /\ epoch < MaxEpochs
    /\ epoch' = epoch + 1
    /\ request' = PoisonRequests /\ auth' = PoisonAuths /\ intent' = PoisonIntents(auth)
    /\ session' = [session EXCEPT ![p] = "live"] /\ lock' = p
    /\ mine' = [mine EXCEPT ![p] = epoch + 1]
    /\ UNCHANGED <<op, calls, answer, resolved, secrets, made, faults>>

Acquire(p) ==
    /\ session[p] # "live" /\ op[p] = Idle
    /\ lock = NoProcess /\ epoch < MaxEpochs
    /\ epoch' = epoch + 1
    /\ request' = PoisonRequests /\ auth' = PoisonAuths /\ intent' = PoisonIntents(PoisonAuths)
    /\ \/ /\ session' = [session EXCEPT ![p] = "live"] /\ lock' = p
          /\ mine' = [mine EXCEPT ![p] = epoch + 1]
          /\ UNCHANGED faults
       \/ Fault /\ UNCHANGED <<session, lock, mine>>
    /\ UNCHANGED <<op, calls, answer, resolved, secrets, made>>

\* The server or the network drops the pinned session.
LoseSession(p) ==
    /\ session[p] = "live" /\ Fault /\ EndSession(p, "dead")
    /\ UNCHANGED <<tables, epoch, mine, op, calls, answer, resolved, secrets, made>>

\* Stop, by Monitor or by a failed RequireMutation; ReleaseAuthority waits
\* for the mutation in progress.
Stop(p) ==
    /\ session[p] = "dead" /\ op[p] = Idle /\ EndSession(p, "none")
    /\ mine' = [mine EXCEPT ![p] = 0]
    /\ UNCHANGED <<tables, epoch, op, calls, answer, resolved, secrets, made, faults>>

\* The process dies; a restarted one begins with Acquire.
Crash(p) ==
    /\ session[p] = "live" /\ Fault /\ EndSession(p, "none")
    /\ mine' = [mine EXCEPT ![p] = 0] /\ op' = [op EXCEPT ![p] = Idle]
    /\ UNCHANGED <<tables, epoch, calls, answer, resolved, secrets, made>>

-----------------------------------------------------------------------------
Made == made < MaxCalls /\ made' = made + 1
\* A mutation entry point: RequireMutation in the API and requireAuthority in
\* the store.
Enter(p) == op[p] = Idle /\ Authority(p)

Mint(r) == [NoAuth EXCEPT !.state = "ISSUED", !.epoch = epoch]

\* Issue.  A fresh request is minted in one transaction; every other finds
\* its row and gets no secret.
IssueRow(r, t) == [state |-> "ISSUED", attempt |-> t]
IssueFresh(p, r, t) ==
    /\ request[r].state = "none"
    /\ \A q \in Requests : request[q].attempt # t
    /\ LET q == [request EXCEPT ![r] = IssueRow(r, t)]
           a == [auth EXCEPT ![r] = Mint(r)] IN
       \/ /\ Committed(p, q, a, intent)
          /\ secrets' = [secrets EXCEPT ![r] = @ + 1]
       \/ Failed(p, q, a, intent) /\ UNCHANGED secrets
IssueReplayX(p, r, t) ==
    /\ request[r].attempt = t
    /\ Committed(p, request, auth, intent)
    /\ secrets' = IF request[r].state = "ISSUED" THEN [secrets EXCEPT ![r] = @ + 1] ELSE secrets
IssueReplay(p, r, t) ==
    /\ request[r].attempt = t
    /\ LET q == IF request[r].state = "REQUESTED"
                THEN [request EXCEPT ![r].state = "TERMINAL"] ELSE request IN
       Committed(p, q, auth, intent)
    /\ UNCHANGED secrets
Issue(p, r, t) ==
    /\ Enter(p)
    /\ IssueFresh(p, r, t) \/ IssueReplay(p, r, t)
    /\ UNCHANGED <<epoch, mine, op, calls, answer, resolved>>

\* ResolveIssue: a request that was never seen becomes a tombstone; an
\* authorization whose secret nobody presented is revoked.
ResolveIssueRows(r) ==
    LET a == auth[r]
        l == LiveIntents(intent, r)
        child(c) == IF intent[c].state = "CLAIMED" THEN "UNKNOWN" ELSE "ABORTED" IN
    CASE request[r].state = "none" ->
            <<[request EXCEPT ![r] = [state |-> "CANCELLED", attempt |-> NoAttempt]], auth, intent>>
      [] request[r].state = "REQUESTED" ->
            <<[request EXCEPT ![r].state = "TERMINAL"], auth, intent>>
      [] a.state = "ISSUED" /\ l = {} ->
            <<request, [auth EXCEPT ![r].state = "REVOKED"], intent>>
      [] a.state \in TerminalAuth /\ l # {} ->
            <<request, auth, [c \in Consumes |-> IF c \in l
                THEN [intent[c] EXCEPT !.state = child(c)] ELSE intent[c]]>>
      [] OTHER -> <<request, auth, intent>>
ResolveIssue(p, r) ==
    /\ Enter(p)
    /\ LET n == ResolveIssueRows(r) IN
       Committed(p, n[1], n[2], n[3]) \/ Failed(p, n[1], n[2], n[3])
    /\ UNCHANGED <<epoch, mine, op, calls, answer, resolved, secrets>>

\* lifecycle: Expire acts only after the expiry; a claimed intent is left
\* alone, a pending pair ends together.
AbortLive(r) == [c \in Consumes |-> IF c \in LiveIntents(intent, r)
                    THEN [intent[c] EXCEPT !.state = "ABORTED"] ELSE intent[c]]
LifecycleRowsX(r, action) ==
    LET a == auth[r]
        reason == IF action = "expire" THEN "EXPIRED" ELSE "REVOKED" IN
    IF \/ action = "expire" /\ ~a.lapsed
       \/ \E c \in LiveIntents(intent, r) : intent[c].state = "CLAIMED"
    THEN <<auth, intent>>
    ELSE <<[auth EXCEPT ![r].state = reason], AbortLive(r)>>
LifecycleRows(r, action) ==
    LET a == auth[r]
        reason == IF action = "expire" THEN "EXPIRED" ELSE "REVOKED" IN
    IF \/ action = "expire" /\ ~a.lapsed
       \/ \E c \in LiveIntents(intent, r) : intent[c].state = "CLAIMED"
    THEN <<auth, intent>>
    ELSE <<IF a.state = "ISSUED" THEN [auth EXCEPT ![r].state = reason] ELSE auth, AbortLive(r)>>
Lifecycle(p, r, action) ==
    /\ Enter(p) /\ auth[r].state # "none"
    /\ LET n == LifecycleRows(r, action) IN
       Committed(p, request, n[1], n[2]) \/ Failed(p, request, n[1], n[2])
    /\ UNCHANGED <<epoch, mine, op, calls, answer, resolved, secrets>>
Expire(p, r) == Lifecycle(p, r, "expire")
Revoke(p, r) == Lifecycle(p, r, "revoke")

\* The clock passes the expiry.
Lapse(r) ==
    /\ auth[r].state # "none" /\ ~auth[r].lapsed
    /\ auth' = [auth EXCEPT ![r].lapsed = TRUE]
    /\ UNCHANGED <<request, intent, epoch, lock, session, mine, op, calls, answer,
                   resolved, secrets, made, faults>>

-----------------------------------------------------------------------------
\* A runner or the recovery runner sends a request; it may arrive late.
Call(kind, role, c, r) ==
    calls' = calls \cup {[kind |-> kind, role |-> role, c |-> c, r |-> r]}

\* The API refuses a certificate that may not act.
Forbid(p, m) ==
    /\ m \in calls /\ ~Allowed(m.role, m.kind) /\ op[p] = Idle
    /\ calls' = calls \ {m}
    /\ answer' = [answer EXCEPT ![m.c][m.r] = Forbidden]
    /\ UNCHANGED <<tables, epoch, lock, session, mine, op, resolved, secrets, made, faults>>

\* 503: the process is not the authority.
Refuse(p, m) ==
    /\ m \in calls /\ Allowed(m.role, m.kind) /\ op[p] = Idle /\ ~Authority(p)
    /\ calls' = calls \ {m}
    /\ IF m.kind = "consume"
       THEN answer' = [answer EXCEPT ![m.c][m.r] = Unavailable] /\ UNCHANGED resolved
       ELSE resolved' = [resolved EXCEPT ![m.c][m.r] = Unavailable] /\ UNCHANGED answer
    /\ UNCHANGED <<tables, epoch, lock, session, mine, op, secrets, made, faults>>

\* beginConsume: the rows it leaves, the answer, and whether Consume goes on.
Step(a, i, s, next) == [auth |-> a, intent |-> i, report |-> s, next |-> next]
OfParent(s) ==
    CASE s = "CONSUME_PENDING" -> Report("CLAIMED", s, FALSE)
      [] s = "CONSUMED" -> Report("CONSUMED", s, TRUE)
      [] s = "CONSUME_UNKNOWN" -> Report("UNKNOWN", s, FALSE)
      [] OTHER -> Report("ABORTED", s, FALSE)
\* The first presentation of c under an issued parent.
BeginFresh(c, r) ==
    LET a == auth[r] IN
    CASE a.lapsed ->
            Step([auth EXCEPT ![r].state = "EXPIRED"], AbortLive(r),
                 Report("ABORTED", "EXPIRED", FALSE), "done")
      [] ~a.lapsed /\ LiveIntents(intent, r) # {} ->
            Step(auth, intent, Report("PENDING", a.state, FALSE), "done")
      [] OTHER ->
            Step(auth, [intent EXCEPT ![c] = [state |-> "PENDING", r |-> r]],
                 Report("PENDING", a.state, FALSE), "claim")
BeginConsume(c, r) ==
    LET i == intent[c]
        a == auth[r]
        same(report, next) == Step(auth, intent, report, next) IN
    CASE a.state = "none" -> same(Rejected, "done")
      [] a.state # "none" /\ i.state # "none" /\ i.r # r -> same(Rejected, "done")
      [] i.state = "PENDING" /\ i.r = r /\ a.state = "CONSUME_PENDING" ->
            same(Report("CLAIMED", a.state, FALSE), "done")
      [] i.state = "PENDING" /\ i.r = r /\ a.state \in TerminalAuth -> same(Rejected, "done")
      [] i.state = "CLAIMED" /\ i.r = r /\ a.state \in {"ISSUED", "REVOKED", "EXPIRED"} ->
            same(Rejected, "done")
      [] i.state = "PENDING" /\ i.r = r /\ a.state = "ISSUED" ->
            same(Report("PENDING", a.state, TRUE), "claim")
      [] i.state \in TerminalIntent \cup {"CLAIMED"} /\ i.r = r
            /\ ~(i.state = "CLAIMED" /\ a.state \in {"ISSUED", "REVOKED", "EXPIRED"}) ->
            same(Report(i.state, a.state, TRUE), "done")
      [] i.state = "none" /\ a.state \notin {"none", "ISSUED"} -> same(OfParent(a.state), "done")
      [] OTHER -> BeginFresh(c, r)

\* claimConsume: the only ISSUED -> CONSUME_PENDING step.
ClaimConsume(c, r) ==
    LET i == intent[c]
        a == auth[r]
        abort == [intent EXCEPT ![c].state = "ABORTED"] IN
    CASE i.state = "PENDING" /\ a.state # "ISSUED" ->
            Step(auth, abort, Report("ABORTED", a.state, FALSE), "done")
      [] i.state = "PENDING" /\ a.state = "ISSUED" /\ a.lapsed ->
            Step([auth EXCEPT ![r].state = "EXPIRED"], abort, Report("ABORTED", "EXPIRED", FALSE), "done")
      [] i.state = "PENDING" /\ a.state = "ISSUED" /\ ~a.lapsed ->
            Step([auth EXCEPT ![r].state = "CONSUME_PENDING", ![r].consumer = c],
                 [intent EXCEPT ![c].state = "CLAIMED"], NoReport, "final")
      [] OTHER -> Step(auth, intent, Report(i.state, a.state, FALSE), "done")

\* finalizeConsume: the exact claimed pair becomes CONSUMED.
FinalizeConsumeX(c, r) ==
    Step([auth EXCEPT ![r].state = "TERMINAL"], [intent EXCEPT ![c].state = "CONSUMED"],
         Report("CONSUMED", "CONSUMED", FALSE), "done")
FinalizeConsume(c, r) ==
    IF auth[r].state = "CONSUME_PENDING" /\ auth[r].consumer = c /\ intent[c].state = "CLAIMED"
    THEN Step([auth EXCEPT ![r].state = "CONSUMED"], [intent EXCEPT ![c].state = "CONSUMED"],
              Report("CONSUMED", "CONSUMED", FALSE), "done")
    ELSE Step(auth, intent, Unknown, "done")

\* One of the three transactions of Consume; the mutex is held until the last.
RunStepX(p, c, r, n) ==
    /\ \/ /\ Committed(p, request, n.auth, n.intent)
          /\ op' = [op EXCEPT ![p] = IF n.next = "done" THEN Idle
                                     ELSE [stage |-> n.next, c |-> c, r |-> r]]
          /\ answer' = IF n.next = "done" THEN [answer EXCEPT ![c][r] = n.report] ELSE answer
       \/ /\ Failed(p, request, n.auth, n.intent)
          /\ op' = [op EXCEPT ![p] = Idle]
          /\ answer' = [answer EXCEPT ![c][r] = n.report]
    /\ UNCHANGED <<epoch, mine, resolved, secrets, made>>
RunStep(p, c, r, n) ==
    /\ \/ /\ Committed(p, request, n.auth, n.intent)
          /\ op' = [op EXCEPT ![p] = IF n.next = "done" THEN Idle
                                     ELSE [stage |-> n.next, c |-> c, r |-> r]]
          /\ answer' = IF n.next = "done" THEN [answer EXCEPT ![c][r] = n.report] ELSE answer
       \/ /\ Failed(p, request, n.auth, n.intent)
          /\ op' = [op EXCEPT ![p] = Idle]
          /\ answer' = [answer EXCEPT ![c][r] = Unknown]
    /\ UNCHANGED <<epoch, mine, resolved, secrets, made>>

Begin(p, m) ==
    /\ m \in calls /\ m.kind = "consume" /\ Allowed(m.role, m.kind) /\ Enter(p)
    /\ calls' = calls \ {m}
    /\ RunStep(p, m.c, m.r, BeginConsume(m.c, m.r))
Claim(p) ==
    /\ op[p].stage = "claim" /\ UNCHANGED calls
    /\ RunStep(p, op[p].c, op[p].r, ClaimConsume(op[p].c, op[p].r))
Finalize(p) ==
    /\ op[p].stage = "final" /\ UNCHANGED calls
    /\ RunStep(p, op[p].c, op[p].r, FinalizeConsume(op[p].c, op[p].r))

\* ResolveConsume: terminal reconciliation only; it never makes CONSUMED of
\* what was not.
ResolveRowsX(c, r) ==
    LET i == intent[c]
        a == auth[r]
        reason == IF a.lapsed THEN "EXPIRED" ELSE "REVOKED" IN
    CASE a.state = "none" \/ i.state = "none" \/ i.r # r -> Step(auth, intent, Rejected, "done")
      [] i.state = "PENDING" /\ i.r = r /\ a.state = "ISSUED" ->
            Step([auth EXCEPT ![r].state = reason], [intent EXCEPT ![c].state = "ABORTED"],
                 Report("ABORTED", reason, FALSE), "done")
      [] i.state = "CLAIMED" /\ i.r = r /\ a.state = "CONSUME_PENDING" ->
            Step([auth EXCEPT ![r].state = "CONSUME_UNKNOWN"], intent,
                 Report("UNKNOWN", "CONSUME_UNKNOWN", FALSE), "done")
      [] OTHER -> Step(auth, intent, Report(i.state, a.state, FALSE), "done")
ResolveRows(c, r) ==
    LET i == intent[c]
        a == auth[r]
        reason == IF a.lapsed THEN "EXPIRED" ELSE "REVOKED"
        unbound == IF i.state = "PENDING" THEN a.state # "ISSUED" \/ a.consumer # NoConsume
                   ELSE i.state # "ABORTED" /\ a.consumer # c IN
    CASE a.state = "none" \/ i.state = "none" \/ i.r # r \/ unbound ->
            Step(auth, intent, Rejected, "done")
      [] i.state = "PENDING" /\ i.r = r /\ ~unbound ->
            Step([auth EXCEPT ![r].state = reason], [intent EXCEPT ![c].state = "ABORTED"],
                 Report("ABORTED", reason, FALSE), "done")
      [] i.state = "CLAIMED" /\ i.r = r /\ a.state = "CONSUMED" ->
            Step(auth, [intent EXCEPT ![c].state = "CONSUMED"], Report("CONSUMED", a.state, FALSE), "done")
      [] i.state = "CLAIMED" /\ i.r = r /\ a.state = "CONSUME_PENDING" ->
            Step([auth EXCEPT ![r].state = "CONSUME_UNKNOWN"], [intent EXCEPT ![c].state = "UNKNOWN"],
                 Report("UNKNOWN", "CONSUME_UNKNOWN", FALSE), "done")
      [] OTHER -> Step(auth, intent, Report(i.state, a.state, FALSE), "done")

\* The owner names its request; recovery may leave it out and gets a live one.
ResolveConsume(p, m) ==
    /\ m \in calls /\ m.kind = "resolve" /\ Enter(p)
    /\ calls' = calls \ {m}
    /\ \E c \in {m.c} \cup (IF m.role = "recovery" THEN LiveIntents(intent, m.r) ELSE {}) :
         LET n == ResolveRows(c, m.r) IN
         \/ /\ Committed(p, request, n.auth, n.intent)
            /\ resolved' = [resolved EXCEPT ![c][m.r] = n.report]
         \/ /\ Failed(p, request, n.auth, n.intent)
            /\ resolved' = [resolved EXCEPT ![c][m.r] = Unknown]
    /\ UNCHANGED <<epoch, mine, op, answer, secrets, made>>

-----------------------------------------------------------------------------
\* The runbook, the clock and the authority processes.
Runbook(p) ==
    Made /\ \E r \in Requests :
        \/ \E t \in Attempts : Issue(p, r, t)
        \/ ResolveIssue(p, r) \/ Expire(p, r) \/ Revoke(p, r)
Handle(p) ==
    \/ \E m \in calls : Begin(p, m) \/ ResolveConsume(p, m) \/ Refuse(p, m) \/ Forbid(p, m)
    \/ Claim(p) \/ Finalize(p)
Authorities(p) == Acquire(p) \/ LoseSession(p) \/ Stop(p) \/ Crash(p)

\* A caller with the envelope, in any order and with any identity.
Caller ==
    \E c \in Consumes, r \in Requests, kind \in {"consume", "resolve"}, role \in {"runner", "recovery"} :
        /\ secrets[r] > 0 /\ Made /\ Call(kind, role, c, r)
        /\ UNCHANGED <<tables, epoch, lock, session, mine, op, answer, resolved, secrets, faults>>

LedgerNext ==
    \/ \E p \in Processes : Runbook(p) \/ Handle(p) \/ Authorities(p)
    \/ \E r \in Requests : Lapse(r)
    \/ Caller

LedgerSpec == LedgerInit /\ [][LedgerNext]_ledgerVars

-----------------------------------------------------------------------------
Reports == [state : IntentStates \cup {"REJECTED", "UNAVAILABLE", "FORBIDDEN"},
            auth : AuthStates, durable : BOOLEAN]

LedgerTypeOK ==
    /\ request \in [Requests -> [state : RequestStates, attempt : Attempts \cup {NoAttempt}]]
    /\ auth \in [Requests -> [state : AuthStates, epoch : 0..MaxEpochs,
                              consumer : Consumes \cup {NoConsume}, lapsed : BOOLEAN]]
    /\ intent \in [Consumes -> [state : IntentStates, r : Requests]]
    /\ epoch \in 0..MaxEpochs /\ lock \in Processes \cup {NoProcess}
    /\ session \in [Processes -> {"none", "live", "dead"}]
    /\ mine \in [Processes -> 0..MaxEpochs]
    /\ \A p \in Processes : op[p] = Idle \/ op[p] \in
            [stage : {"claim", "final"}, c : Consumes, r : Requests]
    /\ calls \subseteq [kind : {"consume", "resolve"}, role : {"runner", "recovery"},
                        c : Consumes, r : Requests]
    /\ answer \in [Consumes -> [Requests -> Reports]] /\ resolved \in [Consumes -> [Requests -> Reports]]
    /\ secrets \in [Requests -> 0..MaxCalls] /\ made \in 0..MaxCalls /\ faults \in 0..MaxFaults

\* Between transactions an intent and its authorization tell one story: a
\* pending child under an issued parent, a claimed child that its parent
\* names, and CONSUMED or UNKNOWN on both sides (beginConsume, claimConsume,
\* finalizeConsume, ResolveConsume, acquireAuthority).
PairsAgree ==
    /\ \A c \in Consumes : LET a == auth[intent[c].r] IN
        /\ intent[c].state = "PENDING" => a.state = "ISSUED"
        /\ intent[c].state = "CLAIMED" => a.state = "CONSUME_PENDING" /\ a.consumer = c
        /\ intent[c].state = "CONSUMED" => a.state = "CONSUMED" /\ a.consumer = c
        /\ intent[c].state = "UNKNOWN" => a.state = "CONSUME_UNKNOWN" /\ a.consumer = c
    /\ \A r \in Requests :
        /\ Cardinality(LiveIntents(intent, r)) <= 1
        /\ auth[r].state \in {"CONSUME_PENDING", "CONSUMED", "CONSUME_UNKNOWN"} =>
              /\ auth[r].consumer # NoConsume
              /\ intent[auth[r].consumer].r = r
              /\ intent[auth[r].consumer].state =
                    CASE auth[r].state = "CONSUME_PENDING" -> "CLAIMED"
                      [] auth[r].state = "CONSUMED" -> "CONSUMED"
                      [] OTHER -> "UNKNOWN"

\* An authorization that can still be consumed was minted in the current
\* epoch: a new authority leaves nothing of the old one alive
\* (acquireAuthority).
LiveIsCurrent ==
    \A r \in Requests : auth[r].state \in {"ISSUED", "CONSUME_PENDING"} => auth[r].epoch = epoch

\* The envelope of a request is handed out once, and never for a request
\* that was cancelled first (Issue, ResolveIssue).
SecretOnce ==
    \A r \in Requests : /\ secrets[r] <= 1
                        /\ request[r].state = "CANCELLED" => secrets[r] = 0

\* An answer that claims an outcome is true for good, whatever failed between
\* the three transactions: a fresh CONSUMED means this request consumed this
\* authorization, a repeated one that somebody did, ABORTED that nobody did or
\* ever will (Consume, normalizeConsumeFailure).
AnswersTrue ==
    \A c \in Consumes, r \in Requests : LET x == answer[c][r] IN
        /\ x.state = "CONSUMED" => auth[r].state = "CONSUMED"
        /\ x.state = "CONSUMED" /\ ~x.durable => auth[r].consumer = c
        /\ x.state = "ABORTED" => auth[r].state \in {"REVOKED", "EXPIRED"}

\* What a Resolve reports holds of that consume request for good
\* (ResolveConsume).
ResolvesTrue ==
    \A c \in Consumes, r \in Requests : LET x == resolved[c][r] IN
        x.state \in TerminalIntent /\ x # Unknown => intent[c] = [state |-> x.state, r |-> r]

\* Terminal rows are never reopened or rewritten, by any handler, retry or
\* new authority.
TerminalIsFinal ==
  /\ \A r \in Requests :
       /\ auth[r].state \in TerminalAuth => auth'[r].state = auth[r].state
       /\ request[r].state \in {"TERMINAL", "CANCELLED"} => request'[r] = request[r]
  /\ \A c \in Consumes : intent[c].state \in TerminalIntent => intent'[c] = intent[c]

\* The authority's ledger tells one story: the rows of a pair agree, what is
\* live belongs to the current authority, a secret is disclosed once, and every
\* answer given still holds.
LedgerIsConsistent ==
    LedgerTypeOK /\ PairsAgree /\ LiveIsCurrent /\ SecretOnce /\ AnswersTrue /\ ResolvesTrue
=============================================================================
