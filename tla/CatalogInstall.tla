--------------------------- MODULE CatalogInstall ---------------------------
(***************************************************************************)
(* The D1-L bootstrap end to end: a controller gets an authorization from  *)
(* the provider and launches a runner; the runner takes the fence of the   *)
(* target database, presents the authorization once, installs the control  *)
(* catalog in one transaction, upgrades it, and reports one frame.  A run  *)
(* is named by its issue request.                                          *)
(***************************************************************************)
EXTENDS AuthorityLedger

CONSTANTS NoRun

ASSUME RunAssumption == NoRun \notin Requests

VARIABLES
    catalog,      \* the state the recognizer finds (module ControlCatalog)
    fence,        \* the run whose session holds the fence and the migration lock
    sess,         \* per run, its pinned session on the target
    tx,           \* per run, its transaction on the target server
    run,          \* per run, the runner process
    frame,        \* per run, what it wrote to the result descriptor
    ctl,          \* per run, the controller
    installed     \* the runs whose installation committed

targetVars == <<catalog, fence, sess, tx, installed>>
installVars == <<catalog, fence, sess, tx, run, frame, ctl, installed>>
allVars == <<ledgerVars, installVars>>

-----------------------------------------------------------------------------
TargetStates == {"V5_BASE", "VALID_V1", "VALID_NEXT_LEDGER_READY", "PARTIAL"}
InstallStates == {"UNKNOWN", "NOT_INSTALLED", "COMMITTED_READY"}
NoTx == [at |-> "none", to |-> "none"]
NoFrame == [state |-> "none", digest |-> "none", error |-> FALSE]
\* mode: how the run got into recovery; base: whether an untouched target
\* may then be called NOT_INSTALLED.
FreshRun == [pc |-> "off", c |-> NoConsume, state |-> "UNKNOWN", digest |-> "v1",
             error |-> FALSE, mode |-> "plain", base |-> TRUE]
NewControl == [at |-> "idle", delivery |-> "none", operation |-> "UNAVAILABLE"]

InstallInit ==
    /\ LedgerInit
    /\ catalog \in {"V5_BASE", "VALID_V1", "PARTIAL"}
    /\ fence = NoRun /\ installed = {}
    /\ sess = [r \in Requests |-> "none"]
    /\ tx = [r \in Requests |-> NoTx]
    /\ run = [r \in Requests |-> FreshRun]
    /\ frame = [r \in Requests |-> NoFrame]
    /\ ctl = [r \in Requests |-> NewControl]

At(r, pc) == run[r].pc = pc
Usable(r) == sess[r] = "open"
Go(r, pc) == run' = [run EXCEPT ![r].pc = pc]
\* An error on the way: the protected session is discarded first.
Recover(r, mode) ==
    run' = [run EXCEPT ![r].pc = "discard", ![r].mode = mode, ![r].error = TRUE,
                       ![r].base = (mode = "plain")]
\* The run ends with this state.
Finish(r, state, error) ==
    run' = [run EXCEPT ![r].pc = "report", ![r].state = state, ![r].error = error]
\* The session of r is gone from the target server.
Gone(r) ==
    /\ sess' = [sess EXCEPT ![r] = "none"]
    /\ fence' = IF fence = r THEN NoRun ELSE fence

-----------------------------------------------------------------------------
\* Controller.Run: one Issue, and an answer without the envelope is refused.
IssueAuthorization(r) ==
    /\ ctl[r].at = "idle"
    /\ \E p \in Processes, t \in Attempts : Issue(p, r, t)
    /\ ctl' = [ctl EXCEPT ![r].at = IF secrets'[r] > secrets[r] THEN "issued" ELSE "done"]
    /\ UNCHANGED <<targetVars, run, frame, made>>
IssueUnavailable(r) ==
    /\ ctl[r].at = "idle" /\ \A p \in Processes : ~Authority(p)
    /\ ctl' = [ctl EXCEPT ![r].at = "done"]
    /\ UNCHANGED <<ledgerVars, targetVars, run, frame>>
Launch(r) ==
    /\ ctl[r].at = "issued" /\ Go(r, "pin")
    /\ ctl' = [ctl EXCEPT ![r].at = "launched"]
    /\ UNCHANGED <<ledgerVars, targetVars, frame>>

\* validateResultFrame: the frame must name the installer the controller knows.
ValidFrame(f) == f.digest = "v1"
ReturnResultX(r) ==
    /\ ctl[r].at = "launched" /\ At(r, "gone")
    /\ ctl' = [ctl EXCEPT ![r] =
         IF frame[r] # NoFrame /\ ValidFrame(frame[r])
         THEN [at |-> "done", delivery |-> "DELIVERED", operation |-> frame[r].state]
         ELSE [at |-> "done", delivery |-> "FAILED", operation |-> "NOT_INSTALLED"]]
    /\ UNCHANGED <<ledgerVars, targetVars, run, frame>>
ReturnResult(r) ==
    /\ ctl[r].at = "launched" /\ At(r, "gone")
    /\ ctl' = [ctl EXCEPT ![r] =
         IF frame[r] # NoFrame /\ ValidFrame(frame[r])
         THEN [at |-> "done", delivery |-> "DELIVERED", operation |-> frame[r].state]
         ELSE [at |-> "done", delivery |-> "FAILED", operation |-> "UNAVAILABLE"]]
    /\ UNCHANGED <<ledgerVars, targetVars, run, frame>>

-----------------------------------------------------------------------------
\* Pin the session, verify the target, take the fence and the migration lock.
Pin(r) ==
    /\ At(r, "pin")
    /\ \/ /\ fence = NoRun /\ fence' = r
          /\ sess' = [sess EXCEPT ![r] = "open"]
          /\ Go(r, "recognize") /\ UNCHANGED faults
       \/ /\ fence # NoRun /\ Finish(r, "UNKNOWN", TRUE) /\ UNCHANGED <<fence, sess, faults>>
       \/ Fault /\ Finish(r, "UNKNOWN", TRUE) /\ UNCHANGED <<fence, sess>>
    /\ UNCHANGED <<tables, epoch, lock, session, mine, op, calls, answer, resolved, secrets,
                   made, catalog, tx, frame, ctl, installed>>

\* Return with the catalog proved ready.  Only a clean release goes on to the
\* ledger transition; a release that fails leaves the session to the server.
Ready(r) ==
    \/ /\ Gone(r) /\ UNCHANGED faults
       /\ run' = [run EXCEPT ![r].pc = "upgrade", ![r].state = "COMMITTED_READY"]
    \/ Fault /\ Finish(r, "COMMITTED_READY", TRUE) /\ UNCHANGED <<sess, fence>>

RecognizeTarget(r) ==
    /\ At(r, "recognize")
    /\ \/ Usable(r) /\ catalog = "VALID_V1" /\ Ready(r)
       \/ /\ Usable(r) /\ catalog = "V5_BASE" /\ Go(r, "inspect")
          /\ UNCHANGED <<sess, fence, faults>>
       \/ /\ ~Usable(r) \/ catalog \notin {"VALID_V1", "V5_BASE"}
          /\ Recover(r, "plain") /\ UNCHANGED <<sess, fence, faults>>
    /\ UNCHANGED <<tables, epoch, lock, session, mine, op, calls, answer, resolved, secrets,
                   made, catalog, tx, frame, ctl, installed>>

\* Inspect, what its answer says, and validateD1LInspect: this authorization
\* must be issued and in time.
InspectOutcome(s) ==
    CASE s = "ISSUED" -> "success"
      [] s = "CONSUME_PENDING" -> "in progress"
      [] s = "CONSUMED" -> "already consumed"
      [] s \in {"EXPIRED", "REVOKED"} -> "revoked"
      [] OTHER -> "unknown"
ValidateInspect(a) == InspectOutcome(a.state) = "success" /\ ~a.lapsed
Inspect(r) ==
    /\ At(r, "inspect")
    /\ IF (\E p \in Processes : Enter(p)) /\ ValidateInspect(auth[r])
       THEN Go(r, "consume") ELSE Recover(r, "plain")
    /\ UNCHANGED <<ledgerVars, targetVars, frame, ctl>>

\* The only Consume call of the run, under a fresh identity.
SendConsume(r) ==
    /\ At(r, "consume")
    /\ \/ \E c \in Consumes :
            /\ \A q \in Requests : run[q].c # c
            /\ Call("consume", "runner", c, r)
            /\ run' = [run EXCEPT ![r].pc = "wait", ![r].c = c]
            /\ UNCHANGED faults
       \/ Fault /\ Recover(r, "plain") /\ UNCHANGED calls
    /\ UNCHANGED <<tables, epoch, lock, session, mine, op, answer, resolved, secrets, made,
                   targetVars, frame, ctl>>

\* responseError: what a refusal without a result means to the client.
ResponseError(s) ==
    CASE s = "REJECTED" -> "binding mismatch"
      [] s = "FORBIDDEN" -> "unauthorized"
      [] s = "UNAVAILABLE" -> "unavailable"
      [] OTHER -> "unknown"
\* validConsume: the two states of a result must fit together.
ValidConsume(x) ==
    \/ x.state = "PENDING" /\ x.auth = "ISSUED"
    \/ x.state = "CLAIMED" /\ x.auth = "CONSUME_PENDING"
    \/ x.state = "CONSUMED" /\ x.auth = "CONSUMED"
    \/ x.state = "ABORTED" /\ x.auth \in {"EXPIRED", "REVOKED"}
    \/ x.state = "UNKNOWN" /\ x.auth = "CONSUME_UNKNOWN"
ConsumeOutcome(x) ==
    CASE x.state \notin IntentStates -> ResponseError(x.state)
      [] x.state \in IntentStates /\ ~ValidConsume(x) -> "unknown"
      [] ValidConsume(x) /\ x.state = "CONSUMED" -> IF x.durable THEN "already consumed" ELSE "success"
      [] ValidConsume(x) /\ x.state = "ABORTED" -> "revoked"
      [] ValidConsume(x) /\ x.state \in Live -> "in progress"
      [] OTHER -> "unknown"
\* classifyD1LConsume: an outcome in doubt is never a success nor a denial.
ClassifyConsumeX(x) ==
    CASE ConsumeOutcome(x) \in {"success", "unknown"} -> "success"
      [] ConsumeOutcome(x) \in {"revoked", "binding mismatch", "unauthorized", "already consumed"} -> "terminal"
      [] OTHER -> "ambiguous"
ClassifyConsume(x) ==
    CASE ConsumeOutcome(x) = "success" -> "success"
      [] ConsumeOutcome(x) \in {"revoked", "binding mismatch", "unauthorized", "already consumed"} -> "terminal"
      [] OTHER -> "ambiguous"
AwaitConsumeX(r) ==
    /\ At(r, "wait") /\ answer[run[r].c][r] # NoReport
    /\ Go(r, IF ClassifyConsume(answer[run[r].c][r]) = "success" THEN "guard" ELSE "discard")
    /\ UNCHANGED <<ledgerVars, targetVars, frame, ctl>>
AwaitConsume(r) ==
    /\ At(r, "wait")
    /\ \/ /\ answer[run[r].c][r] # NoReport
          /\ CASE ClassifyConsume(answer[run[r].c][r]) = "success" -> Go(r, "guard")
               [] ClassifyConsume(answer[run[r].c][r]) = "terminal" -> Recover(r, "plain")
               [] OTHER -> Recover(r, "ambiguous")
       \/ Recover(r, "ambiguous")
    /\ UNCHANGED <<ledgerVars, targetVars, frame, ctl>>

\* After Consume the target must still be untouched.
Guard(r) ==
    /\ At(r, "guard")
    /\ IF Usable(r) /\ catalog = "V5_BASE" THEN Go(r, "ddl") ELSE Recover(r, "plain")
    /\ UNCHANGED <<ledgerVars, targetVars, frame, ctl>>

\* Installer, manifest row and the exact proof inside the transaction; any
\* error and any other observation rolls back.
Ddl(r) ==
    /\ At(r, "ddl")
    /\ \/ /\ Usable(r) /\ Go(r, "commit") /\ UNCHANGED faults
          /\ tx' = [tx EXCEPT ![r] = [at |-> "open", to |-> "VALID_V1"]]
       \/ Usable(r) /\ Fault /\ Recover(r, "plain") /\ UNCHANGED tx
       \/ ~Usable(r) /\ Recover(r, "plain") /\ UNCHANGED <<tx, faults>>
    /\ UNCHANGED <<tables, epoch, lock, session, mine, op, calls, answer, resolved, secrets,
                   made, catalog, fence, sess, frame, ctl, installed>>

\* COMMIT: acknowledged, or unknown while the server still works on it.
Applied(r) ==
    /\ catalog' = tx[r].to /\ tx' = [tx EXCEPT ![r] = NoTx]
    /\ installed' = IF tx[r].to = "VALID_V1" THEN installed \cup {r} ELSE installed
CommitX(r) ==
    /\ At(r, "commit")
    /\ \/ Usable(r) /\ Applied(r) /\ Go(r, "prove") /\ UNCHANGED <<faults, sess, fence>>
       \/ /\ Usable(r) /\ Fault /\ Recover(r, "plain") /\ Gone(r)
          /\ tx' = [tx EXCEPT ![r].at = "sent"] /\ UNCHANGED <<catalog, installed>>
    /\ UNCHANGED <<tables, epoch, lock, session, mine, op, calls, answer, resolved, secrets,
                   made, frame, ctl>>
Commit(r) ==
    /\ At(r, "commit")
    /\ \/ Usable(r) /\ Applied(r) /\ Go(r, "prove") /\ UNCHANGED faults
       \/ /\ Usable(r) /\ Fault /\ Recover(r, "plain")
          /\ tx' = [tx EXCEPT ![r].at = "sent"] /\ UNCHANGED <<catalog, installed>>
       \/ ~Usable(r) /\ Recover(r, "plain") /\ UNCHANGED <<catalog, tx, installed, faults>>
    /\ UNCHANGED <<tables, epoch, lock, session, mine, op, calls, answer, resolved, secrets,
                   made, fence, sess, frame, ctl>>

\* The proof after COMMIT, on the same session.
Prove(r) ==
    /\ At(r, "prove")
    /\ \/ Usable(r) /\ Ready(r)
       \/ Usable(r) /\ Fault /\ Recover(r, "committed") /\ UNCHANGED <<sess, fence>>
       \/ ~Usable(r) /\ Recover(r, "committed") /\ UNCHANGED <<sess, fence, faults>>
    /\ UNCHANGED <<tables, epoch, lock, session, mine, op, calls, answer, resolved, secrets,
                   made, catalog, tx, frame, ctl, installed>>

-----------------------------------------------------------------------------
\* discardUnknownProtectedSession: a second session proves that the backend
\* is gone and that both locks can be had; it gives up after a while.
DiscardX(r) ==
    /\ At(r, "discard")
    /\ Go(r, IF run[r].mode = "ambiguous" THEN "resolve" ELSE "fresh")
    /\ IF tx[r].at = "sent" THEN UNCHANGED <<sess, fence>> ELSE Gone(r)
    /\ UNCHANGED <<ledgerVars, catalog, tx, frame, ctl, installed>>
Discard(r) ==
    /\ At(r, "discard")
    /\ \/ /\ fence \in {r, NoRun} /\ tx[r].at # "sent" /\ Gone(r)
          /\ Go(r, IF run[r].mode = "ambiguous" THEN "resolve" ELSE "fresh")
       \/ /\ fence \notin {r, NoRun} \/ tx[r].at = "sent"
          /\ Finish(r, "UNKNOWN", TRUE)
          /\ UNCHANGED <<sess, fence>>
    /\ UNCHANGED <<ledgerVars, catalog, tx, frame, ctl, installed>>

\* An ambiguous Consume is resolved with its own identity, after the discard.
SendResolve(r) ==
    /\ At(r, "resolve")
    /\ Call("resolve", "runner", run[r].c, r) /\ Go(r, "resolving")
    /\ UNCHANGED <<tables, epoch, lock, session, mine, op, answer, resolved, secrets, made, faults,
                   targetVars, frame, ctl>>
\* classifyD1LResolve: whether the provider's outcome is durable.
ResolveOutcome(x) ==
    CASE x.auth = "CONSUMED" /\ x.state = "CONSUMED" -> "success"
      [] x.auth \in {"EXPIRED", "REVOKED"} /\ x.state # "UNKNOWN" -> "revoked"
      [] OTHER -> "unknown"
ProviderTruth(x) ==
    /\ ValidConsume(x)
    /\ \/ ResolveOutcome(x) = "success"
       \/ ResolveOutcome(x) = "revoked" /\ x.state = "ABORTED"
AwaitResolve(r) ==
    /\ At(r, "resolving")
    /\ \E truth \in {FALSE} \cup {ProviderTruth(x) : x \in {resolved[run[r].c][r]} \ {NoReport}} :
         run' = [run EXCEPT ![r].pc = "fresh", ![r].base = truth]
    /\ UNCHANGED <<ledgerVars, targetVars, frame, ctl>>

\* classifyFreshD1LTarget on an independent connection.
ClassifyFreshX(r) ==
    CASE catalog = "VALID_V1" -> "COMMITTED_READY"
      [] catalog = "V5_BASE" /\ run[r].base -> "NOT_INSTALLED"
      [] OTHER -> catalog
ClassifyFresh(r) ==
    CASE catalog = "VALID_V1" -> "COMMITTED_READY"
      [] catalog = "V5_BASE" /\ run[r].base -> "NOT_INSTALLED"
      [] OTHER -> "UNKNOWN"
InspectFresh(r) ==
    /\ At(r, "fresh")
    /\ \/ Finish(r, ClassifyFresh(r), TRUE) /\ UNCHANGED faults
       \/ Fault /\ Finish(r, "UNKNOWN", TRUE)
    /\ UNCHANGED <<tables, epoch, lock, session, mine, op, calls, answer, resolved, secrets, made,
                   targetVars, frame, ctl>>

\* D1LUpgradeLedger, on a session and under the locks of its own, without the
\* provider; any doubt turns the whole result into UNKNOWN.
ApplyUpgrade(r) ==
    /\ At(r, "upgrade")
    /\ \/ /\ fence = NoRun /\ catalog \in {"VALID_V1", "VALID_NEXT_LEDGER_READY"}
          /\ catalog' = "VALID_NEXT_LEDGER_READY"
          /\ run' = [run EXCEPT ![r].pc = "report", ![r].digest = "next"]
          /\ UNCHANGED <<fence, sess, tx, faults>>
       \/ /\ fence = NoRun /\ catalog = "VALID_V1" /\ Fault
          /\ tx' = [tx EXCEPT ![r] = [at |-> "sent", to |-> "VALID_NEXT_LEDGER_READY"]]
          /\ fence' = r /\ sess' = [sess EXCEPT ![r] = "open"]
          /\ Finish(r, "UNKNOWN", TRUE) /\ UNCHANGED catalog
       \/ fence # NoRun /\ Finish(r, "UNKNOWN", TRUE) /\ UNCHANGED <<catalog, fence, sess, tx, faults>>
    /\ UNCHANGED <<tables, epoch, lock, session, mine, op, calls, answer, resolved, secrets, made,
                   frame, ctl, installed>>

\* One frame on the result descriptor, then exit.
Deliver(r) ==
    /\ At(r, "report") /\ Go(r, "gone")
    /\ frame' = [frame EXCEPT ![r] = [state |-> run[r].state, digest |-> run[r].digest, error |-> run[r].error]]
    /\ UNCHANGED <<ledgerVars, targetVars, ctl>>

-----------------------------------------------------------------------------
\* The target server ends an unacknowledged COMMIT one way or the other, and
\* the backend with it.
ServerEndsCommit(r) ==
    /\ tx[r].at = "sent" /\ Gone(r)
    /\ \/ Applied(r)
       \/ tx' = [tx EXCEPT ![r] = NoTx] /\ UNCHANGED <<catalog, installed>>
    /\ UNCHANGED <<ledgerVars, run, frame, ctl>>
\* The server notices that nobody uses a session any more.
ServerReaps(r) ==
    /\ sess[r] = "open" /\ tx[r] = NoTx /\ run[r].pc \in {"report", "gone"}
    /\ Gone(r) /\ UNCHANGED <<ledgerVars, catalog, tx, run, frame, ctl, installed>>
\* The session is lost; an open transaction rolls back.
LoseTarget(r) ==
    /\ sess[r] = "open" /\ tx[r].at # "sent" /\ Fault /\ Gone(r)
    /\ tx' = [tx EXCEPT ![r] = NoTx]
    /\ UNCHANGED <<tables, epoch, lock, session, mine, op, calls, answer, resolved, secrets, made,
                   catalog, run, frame, ctl, installed>>
\* The runner dies without a frame.
CrashRunner(r) ==
    /\ run[r].pc \notin {"off", "gone"} /\ Fault /\ Go(r, "gone")
    /\ IF tx[r].at = "sent" THEN UNCHANGED <<sess, fence, tx>>
       ELSE Gone(r) /\ tx' = [tx EXCEPT ![r] = NoTx]
    /\ UNCHANGED <<tables, epoch, lock, session, mine, op, calls, answer, resolved, secrets, made,
                   catalog, frame, ctl, installed>>

Runner(r) ==
    \/ Pin(r) \/ RecognizeTarget(r) \/ Inspect(r) \/ SendConsume(r) \/ AwaitConsume(r) \/ Guard(r)
    \/ Ddl(r) \/ Commit(r) \/ Prove(r) \/ Discard(r) \/ SendResolve(r) \/ AwaitResolve(r)
    \/ InspectFresh(r) \/ ApplyUpgrade(r) \/ Deliver(r)
Controller(r) == IssueAuthorization(r) \/ IssueUnavailable(r) \/ Launch(r) \/ ReturnResult(r)
Server(r) == ServerEndsCommit(r) \/ ServerReaps(r)

\* Meanwhile the runbook revokes, and the recovery runner resolves.
Operator(p) ==
    /\ \E r \in Requests : Revoke(p, r) /\ Made
    /\ UNCHANGED installVars
RecoveryCalls ==
    /\ \E r \in Requests : run[r].c # NoConsume /\ Made /\ Call("resolve", "recovery", run[r].c, r)
    /\ UNCHANGED <<tables, epoch, lock, session, mine, op, answer, resolved, secrets, faults, installVars>>
Provider(p) == (Handle(p) \/ Authorities(p)) /\ UNCHANGED installVars

InstallNext ==
    \/ \E r \in Requests : Runner(r) \/ Controller(r) \/ Server(r) \/ LoseTarget(r) \/ CrashRunner(r)
    \/ \E p \in Processes : Provider(p) \/ Operator(p)
    \/ RecoveryCalls
    \/ \E r \in Requests : Lapse(r) /\ UNCHANGED installVars

InstallSpec == InstallInit /\ [][InstallNext]_allVars

-----------------------------------------------------------------------------
InstallTypeOK ==
    /\ catalog \in TargetStates /\ fence \in Requests \cup {NoRun} /\ installed \subseteq Requests
    /\ sess \in [Requests -> {"none", "open"}]
    /\ tx \in [Requests -> [at : {"none", "open", "sent"}, to : TargetStates \cup {"none"}]]
    /\ \A r \in Requests : run[r].state \in InstallStates /\ run[r].c \in Consumes \cup {NoConsume}
    /\ \A r \in Requests : ctl[r].at \in {"idle", "issued", "launched", "done"}

\* The control catalog is installed only by a run whose own Consume is durably
\* CONSUMED, and at most once (d1LBootstrapWithHooks).
InstalledUnderConsumed ==
    /\ Cardinality(installed) <= 1
    /\ \A r \in installed : auth[r].state = "CONSUMED" /\ auth[r].consumer = run[r].c

\* What a run reports about the target stays true after it: COMMITTED_READY
\* finds the catalog installed, NOT_INSTALLED is never overtaken by a commit
\* of that run which the server finishes late (recoverD1LTargetFailure).
ReportsTrue ==
    \A r \in Requests : run[r].pc \in {"report", "gone"} =>
        /\ run[r].state = "COMMITTED_READY" => catalog \in {"VALID_V1", "VALID_NEXT_LEDGER_READY"}
        /\ run[r].state = "NOT_INSTALLED" => r \notin installed /\ tx[r] = NoTx

\* The controller never makes a result up: what it returns as the operation's
\* truth holds of the target, and a run without a frame has no truth
\* (Controller.Run, operationTruth).
ControllerTruth ==
    \A r \in Requests : ctl[r].at = "done" =>
        /\ ctl[r].operation = "COMMITTED_READY" => catalog \in {"VALID_V1", "VALID_NEXT_LEDGER_READY"}
        /\ ctl[r].operation = "NOT_INSTALLED" => r \notin installed
        /\ frame[r] = NoFrame => ctl[r].operation = "UNAVAILABLE"

\* The session that holds the locks is the only one with a transaction on the
\* target, also after its runner has given up (fence, migration lock).
TransactionHoldsFence ==
    \A r \in Requests : tx[r] # NoTx => fence = r

\* A run that reports COMMITTED_READY delivers COMMITTED_READY: the controller's
\* comment that delivery never rewrites truth (validateResultFrame).
SuccessIsDelivered ==
    \A r \in Requests :
        ctl[r].at = "done" /\ frame[r].state = "COMMITTED_READY" => ctl[r].operation = "COMMITTED_READY"

\* A target is changed only under a consumed authorization and the fence, and
\* runner and controller report what happened to it.
InstallIsTrue ==
    /\ InstallTypeOK /\ InstalledUnderConsumed /\ TransactionHoldsFence
    /\ ReportsTrue /\ ControllerTruth
=============================================================================
