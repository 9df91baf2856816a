------------------------------ MODULE D4Ledger ------------------------------
(***************************************************************************)
(* D4 and its PostgreSQL store: the durable record of one owner tuple,     *)
(* moved by owner-approved events through a compare-and-swap, and the calls *)
(* that move it: Process, ResumeMapping, FinalizePreClaim, the startup     *)
(* classification and the resolution of recovery, and the hand-off of      *)
(* bundles. Process and ResumeMapping run the protected executor once and  *)
(* turn its report into the safe result they record. Nothing but the row   *)
(* survives the process of a call.                                         *)
(***************************************************************************)
EXTENDS ProtectedExecutor, Sequences

CONSTANTS MappingSeam,  \* the composite answers a blocked plan with MappingWait
          MaxAcks,      \* refusals of the owner and lost answers of the ledger
          MaxCrashes    \* ends of a process in the middle of a call

ASSUME LedgerAssumption == MappingSeam \in BOOLEAN /\ MaxAcks \in Nat /\ MaxCrashes \in Nat

VARIABLES led,      \* the row of d4_operation_ledger
          jour,     \* the rows of d4_operation_journal, in the order of their commits
          call,     \* the calls
          acks, crashes,
          invoked, resumed,     \* executor invocations, resumptions stored
          doubtful,             \* an invocation ended without a certain result
          offer,                \* what became of the bundle of a finished Process
          answer                \* recovery classes with which a complete successful resolution was refused

d4vars == <<led, jour, call, acks, crashes, invoked, resumed, doubtful, offer, answer>>
vars == <<xvars, d4vars>>

States == {"RECEIVED", "ADMITTED", "EXECUTING", "RESULT_RECORDED", "CONTINUATION_PENDING", "CONTINUATION_CONSUMED",
           "WAITING_FOR_MAPPING", "TERMINAL", "RECOVERY_REQUIRED"}
Claimed == {"ADMITTED", "EXECUTING", "RESULT_RECORDED", "CONTINUATION_PENDING", "CONTINUATION_CONSUMED", "WAITING_FOR_MAPPING"}
Classes == {"", "UNKNOWN_COMMIT_OR_CLEANUP", "COMMITTED_POSTVERIFY_FAILED"}

(* d4TransitionTable: the edges as triples. *)
TransitionTable ==
  {<<"RECEIVED", "ADMIT", "ADMITTED">>, <<"ADMITTED", "BEGIN", "EXECUTING">>, <<"EXECUTING", "RECORD_RESULT", "RESULT_RECORDED">>,
   <<"CONTINUATION_PENDING", "CONSUME", "CONTINUATION_CONSUMED">>, <<"WAITING_FOR_MAPPING", "RESUME", "ADMITTED">>,
   <<"RECOVERY_REQUIRED", "RESOLVE", "TERMINAL">>}
  \cup ({"EXECUTING", "RESULT_RECORDED"} \X {"REQUEST"} \X {"CONTINUATION_PENDING"})
  \cup ({"ADMITTED", "EXECUTING", "RESULT_RECORDED"} \X {"WAIT"} \X {"WAITING_FOR_MAPPING"})
  \cup ((States \ {"TERMINAL", "RECOVERY_REQUIRED"}) \X {"TERMINAL"} \X {"TERMINAL"})
  \cup ((States \ {"TERMINAL", "RECOVERY_REQUIRED"}) \X {"REQUIRE_RECOVERY"} \X {"RECOVERY_REQUIRED"})

LegalEdge(from, to) == \E e \in TransitionTable : e[1] = from /\ e[3] = to
Target(from, kind) == (CHOOSE e \in TransitionTable : e[1] = from /\ e[2] = kind)[3]

(***************************************************************************)
(* Safe results. The certainty column always follows "unknown".            *)
(***************************************************************************)
Results == [disp : {"SUCCESS", "NON_SUCCESS"}, commit : {"NOT_COMMITTED", "COMMITTED", "COMMIT_UNKNOWN"},
            post : {"NOT_VERIFIED", "VERIFIED", "FAILED"}, cleanup : {"CONFIRMED", "UNCERTAIN"},
            unknown : BOOLEAN, required : BOOLEAN, class : Classes]

NoResult == [disp |-> "none", commit |-> "none", post |-> "none", cleanup |-> "none",
             unknown |-> FALSE, required |-> FALSE, class |-> ""]
NotRun == [disp |-> "NON_SUCCESS", commit |-> "NOT_COMMITTED", post |-> "NOT_VERIFIED", cleanup |-> "CONFIRMED",
           unknown |-> FALSE, required |-> FALSE, class |-> ""]

KnownSuccess(r) == r.disp = "SUCCESS" /\ r.commit = "COMMITTED" /\ r.post = "VERIFIED" /\ ~r.unknown /\ ~r.required

(* D4SafeResult.ValidateFor. *)
ValidateFor(r) ==
  /\ r \in Results
  /\ r.unknown = (r.commit = "COMMIT_UNKNOWN" \/ r.cleanup = "UNCERTAIN")
  /\ r.required = (r.unknown \/ r.post = "FAILED")
  /\ r.disp = "SUCCESS" => KnownSuccess(r) /\ r.cleanup = "CONFIRMED" /\ r.class = ""
  /\ r.post = "FAILED" => r.class = "COMMITTED_POSTVERIFY_FAILED"
  /\ r.unknown => r.class = "UNKNOWN_COMMIT_OR_CLEANUP"

(* d4SafeResultFromReport, and the override for a report whose handoff did *)
(* not match; the class of the result is left empty by both.               *)
SafeResultX(run, projected) ==
  [NotRun EXCEPT !.disp = IF run.outcome = "COMMITTED_AND_VERIFIED" THEN "SUCCESS" ELSE "NON_SUCCESS",
                 !.commit = IF run.outcome = "COMMITTED_AND_VERIFIED" THEN "COMMITTED" ELSE "NOT_COMMITTED",
                 !.post = IF run.outcome = "COMMITTED_AND_VERIFIED" THEN "VERIFIED" ELSE "NOT_VERIFIED"]
SafeResult(run, projected) ==
  LET commit == CASE run.outcome \in {"COMMITTED_AND_VERIFIED", "COMMITTED_BUT_POSTVERIFY_FAILED"} -> "COMMITTED"
                  [] run.outcome = "COMMIT_OUTCOME_UNKNOWN" -> "COMMIT_UNKNOWN"
                  [] OTHER -> "NOT_COMMITTED"
      post == CASE run.outcome = "COMMITTED_AND_VERIFIED" -> "VERIFIED"
                [] run.outcome = "COMMITTED_BUT_POSTVERIFY_FAILED" -> "FAILED"
                [] OTHER -> "NOT_VERIFIED"
      unknown == commit = "COMMIT_UNKNOWN" \/ run.cleanup = "UNCERTAIN" \/ ~projected
  IN [disp |-> IF run.outcome = "COMMITTED_AND_VERIFIED" THEN "SUCCESS" ELSE "NON_SUCCESS",
      commit |-> commit, post |-> post, cleanup |-> run.cleanup,
      unknown |-> unknown, required |-> unknown \/ post = "FAILED", class |-> ""]

(* PR1ToD4Result: a verified report needs the unused handoff that was      *)
(* issued for it, still fresh; any other report carries no continuation.   *)
HandoffMatches(run, fresh) == run.d010 = "unused" /\ fresh
Projected(run, fresh) == run.outcome = "COMMITTED_AND_VERIFIED" => HandoffMatches(run, fresh)

(* RecoveryRequiredFromReport. *)
RecoveryRequiredFromReport(run) ==
  run.outcome \in {"COMMIT_OUTCOME_UNKNOWN", "COMMITTED_BUT_POSTVERIFY_FAILED"} \/ run.cleanup = "UNCERTAIN"

(***************************************************************************)
(* The row and the events.                                                 *)
(***************************************************************************)
NoRow == [state |-> "none", claim |-> None, result |-> NoResult, class |-> "", corr |-> "none"]
Received == [NoRow EXCEPT !.state = "RECEIVED"]

Event(kind, expected) == [kind |-> kind, expected |-> expected, result |-> NoResult, class |-> ""]
ResultEvent(kind, expected, r) == [Event(kind, expected) EXCEPT !.result = r]
RecoveryEvent(expected) == [Event("REQUIRE_RECOVERY", expected) EXCEPT !.class = "UNKNOWN_COMMIT_OR_CLEANUP"]
NoEvent == Event("none", "none")

NoComposite == [safe |-> NoResult, cont |-> FALSE, wait |-> FALSE]
NewCall == [pc |-> "idle", job |-> "none", claim |-> None, ev |-> NoEvent, comp |-> NoComposite]
Returned == [NewCall EXCEPT !.pc = "done"]

(* validateD4EventForRecord; the owner revalidates a mapping that is there. *)
ValidateEvent(rec, ev) ==
  /\ rec.state # "TERMINAL"
  /\ \E e \in TransitionTable : e[1] = rec.state /\ e[2] = ev.kind
  /\ ev.kind = "RESUME" => mapped
  /\ ev.kind \in {"REQUEST", "CONSUME"} => KnownSuccess(rec.result)
  /\ ev.kind \in {"RECORD_RESULT", "TERMINAL", "RESOLVE"} => ValidateFor(ev.result)
  /\ ev.kind \in {"REQUIRE_RECOVERY", "RESOLVE"} => ev.class # ""

(* The claim of the request against the claim of the row. *)
PreClaim(rec, ev) ==
  /\ rec.claim = None
  /\ \/ rec.state = "RECEIVED" /\ ev.kind \in {"TERMINAL", "REQUIRE_RECOVERY"}
     \/ rec.state = "RECOVERY_REQUIRED" /\ ev.kind = "RESOLVE"
ClaimCurrent(rec, claim, ev) == IF claim = None THEN PreClaim(rec, ev) ELSE rec.claim = claim

(* requiresD4Claim and the claim constraint of the table. *)
RequiresClaim(state) == state \in Claimed

(* prevent_d4_terminal_mutation: the trigger refuses every UPDATE. *)
PreventTerminalMutationX(rec) == FALSE
PreventTerminalMutation(rec) == rec.state = "TERMINAL"

UpdatedX(rec, ev) ==
  [rec EXCEPT !.state = Target(ev.expected, ev.kind),
              !.result = IF ev.result # NoResult THEN ev.result ELSE rec.result,
              !.class = IF ev.class # "" THEN ev.class ELSE rec.class,
              !.claim = IF ev.kind = "WAIT" THEN None ELSE rec.claim]
Updated(rec, ev) ==
  [rec EXCEPT !.state = Target(ev.expected, ev.kind),
              !.result = IF ev.result # NoResult THEN ev.result ELSE rec.result,
              !.class = IF ev.class # "" THEN ev.class ELSE rec.class]

Goto(c, new) == call' = [call EXCEPT ![c] = new]
Return(c) == Goto(c, Returned)
Send(c, ev) == Goto(c, [call[c] EXCEPT !.pc = "read", !.ev = ev])

(* The owner refuses, or the answer of the ledger is lost. *)
Refusal == acks > 0 /\ acks' = acks - 1

(***************************************************************************)
(* The calls.                                                              *)
(***************************************************************************)
Start(c) ==
  /\ call[c].pc = "idle"
  /\ \E job \in {"process", "finalize", "resume", "classify", "resolve", "bundle"} :
       Goto(c, [NewCall EXCEPT !.job = job, !.pc = CASE job \in {"process", "finalize"} -> "receive"
                                                       [] job = "bundle" -> "bundle"
                                                       [] OTHER -> "get"])
  /\ UNCHANGED <<xvars, led, jour, acks, crashes, invoked, resumed, doubtful, offer, answer>>

(* INSERT ... ON CONFLICT DO NOTHING, and the row that is then there. *)
StoreReceive == IF led = NoRow THEN Received ELSE led

PreClaimEvents == {ResultEvent("TERMINAL", "RECEIVED", NotRun), RecoveryEvent("RECEIVED")}

Receive(c) ==
  /\ call[c].pc = "receive"
  /\ led' = StoreReceive
  /\ \/ led'.state # "RECEIVED" /\ Return(c)
     \/ led'.state = "RECEIVED" /\ call[c].job = "process" /\ Goto(c, [call[c] EXCEPT !.pc = "claim"])
     \/ led'.state = "RECEIVED" /\ call[c].job = "finalize" /\ \E ev \in PreClaimEvents : Send(c, ev)
  /\ UNCHANGED <<xvars, jour, acks, crashes, invoked, resumed, doubtful, offer, answer>>

(* The claim is an UPDATE of its own and has no journal event. *)
ClaimWon(rec) == rec.state = "RECEIVED" /\ rec.claim = None

Claim(c) ==
  /\ call[c].pc = "claim"
  /\ IF ClaimWon(led)
     THEN /\ led' = [led EXCEPT !.state = "ADMITTED", !.claim = c]
          /\ \/ /\ Goto(c, [call[c] EXCEPT !.pc = "read", !.claim = c, !.ev = Event("BEGIN", "ADMITTED")])
                /\ UNCHANGED acks
             \/ Refusal /\ Return(c)
     ELSE Return(c) /\ UNCHANGED <<led, acks>>
  /\ UNCHANGED <<xvars, jour, crashes, invoked, resumed, doubtful, offer, answer>>

(* ResumeMapping: the claim of the waiting row is taken over. *)
ResumeMapping(c) ==
  IF led.state = "WAITING_FOR_MAPPING"
  THEN Goto(c, [call[c] EXCEPT !.pc = "read", !.claim = led.claim, !.ev = Event("RESUME", "WAITING_FOR_MAPPING")])
  ELSE Return(c)

(* ClassifyStartup: work that may have been interrupted goes to recovery. *)
ClassifyStartup(c) ==
  IF led.state \in {"EXECUTING", "CONTINUATION_PENDING"}
  THEN Goto(c, [call[c] EXCEPT !.pc = "read", !.claim = led.claim, !.ev = RecoveryEvent(led.state)])
  ELSE Return(c)

(* The answers of an owner who looks at the database once no executor runs. *)
Answers ==
  IF tx1 = 0 THEN {NotRun}
  ELSE {[NotRun EXCEPT !.commit = "COMMITTED"],
        [NotRun EXCEPT !.disp = "SUCCESS", !.commit = "COMMITTED", !.post = "VERIFIED"]}

(* The condition that Resolve sets on the answer. *)
ResolutionSafe(r, class) == ValidateFor(r) /\ ~r.unknown /\ ~r.required /\ (r.disp = "SUCCESS" => class = "")

Resolve(c) ==
  \/ led.state # "RECOVERY_REQUIRED" /\ Return(c) /\ UNCHANGED answer
  \/ /\ led.state = "RECOVERY_REQUIRED" /\ \A d \in Calls : ~Inside(d)
     /\ \E r \in Answers, class \in {"", "UNKNOWN_COMMIT_OR_CLEANUP"} :
          IF ResolutionSafe(r, class)
          THEN /\ Goto(c, [call[c] EXCEPT !.pc = "read", !.claim = led.claim,
                                          !.ev = [ResultEvent("RESOLVE", "RECOVERY_REQUIRED", r) EXCEPT !.class = class]])
               /\ UNCHANGED answer
          ELSE /\ Return(c)
               /\ answer' = IF r.disp = "SUCCESS" THEN answer \cup {class} ELSE answer

GetRecord(c) ==
  /\ call[c].pc = "get"
  /\ \/ call[c].job = "resume" /\ ResumeMapping(c) /\ UNCHANGED answer
     \/ call[c].job = "classify" /\ ClassifyStartup(c) /\ UNCHANGED answer
     \/ call[c].job = "resolve" /\ Resolve(c)
  /\ UNCHANGED <<xvars, led, jour, acks, crashes, invoked, resumed, doubtful, offer>>

(* The first half of Transition: approval, the row, its validation. *)
TransitionRead(c) ==
  LET ev == call[c].ev
      ok == led.state = ev.expected /\ ValidateEvent(led, ev) /\ ClaimCurrent(led, call[c].claim, ev)
      solved == ev.kind = "RESOLVE" /\ ev.result.disp = "SUCCESS"
  IN
  /\ call[c].pc = "read"
  /\ \/ /\ IF ok THEN Goto(c, [call[c] EXCEPT !.pc = "cas"]) ELSE Return(c)
        /\ answer' = IF solved /\ ~ok /\ led.state = ev.expected THEN answer \cup {ev.class} ELSE answer
        /\ UNCHANGED acks
     \/ Refusal /\ Return(c) /\ UNCHANGED answer
  /\ UNCHANGED <<xvars, led, jour, crashes, invoked, resumed, doubtful, offer>>

(* What processClaimed does once an event has been stored. *)
AfterResult(comp) ==
  IF comp.wait THEN Event("WAIT", "RESULT_RECORDED")
  ELSE IF comp.cont THEN (IF KnownSuccess(comp.safe) THEN Event("REQUEST", "RESULT_RECORDED") ELSE RecoveryEvent("RESULT_RECORDED"))
  ELSE IF comp.safe.required \/ comp.safe.unknown THEN RecoveryEvent("RESULT_RECORDED")
  ELSE ResultEvent("TERMINAL", "RESULT_RECORDED", comp.safe)

Stored(c, ev) ==
  CASE ev.kind = "RESUME" -> Send(c, Event("BEGIN", "ADMITTED"))
    [] ev.kind = "BEGIN" -> Goto(c, [call[c] EXCEPT !.pc = "run", !.ev = NoEvent])
    [] ev.kind = "RECORD_RESULT" -> Send(c, AfterResult(call[c].comp))
    [] ev.kind = "REQUEST" -> Goto(c, [call[c] EXCEPT !.pc = "continue", !.ev = NoEvent])
    [] ev.kind = "CONSUME" -> Send(c, ResultEvent("TERMINAL", "CONTINUATION_CONSUMED", call[c].comp.safe))
    [] ev.kind = "TERMINAL" /\ call[c].comp.cont -> Goto(c, [NewCall EXCEPT !.pc = "offer"])
    [] OTHER -> Return(c)

(* The UPDATE with its WHERE clause, refused by the trigger on a terminal row. *)
CasHoldsX(rec, claim, ev) == rec.claim = claim /\ ~PreventTerminalMutation(rec)
CasHolds(rec, claim, ev) == rec.state = ev.expected /\ rec.claim = claim /\ ~PreventTerminalMutation(rec)

(* appendJournalTx, in the transaction of the update. *)
AppendJournal(ev) == LegalEdge(ev.expected, Target(ev.expected, ev.kind)) /\ jour' = Append(jour, <<ev.expected, Target(ev.expected, ev.kind)>>)

(* The second half of Transition: the update, the journal event, the commit. *)
TransitionCas(c) ==
  LET ev == call[c].ev IN
  /\ call[c].pc = "cas"
  /\ UNCHANGED <<crashes, doubtful, offer, answer>>
  /\ IF CasHolds(led, call[c].claim, ev)
     THEN /\ led' = Updated(led, ev)
          /\ AppendJournal(ev)
          /\ resumed' = resumed + (IF ev.kind = "RESUME" THEN 1 ELSE 0)
          /\ \/ /\ Stored(c, ev) /\ UNCHANGED acks
                /\ IF ev.kind = "BEGIN" THEN invoked' = invoked + 1 /\ Step(c, [FreshRun EXCEPT !.at = "open"]) ELSE UNCHANGED <<invoked, x>>
             \/ Refusal /\ Return(c) /\ UNCHANGED <<invoked, x>>
     ELSE Return(c) /\ UNCHANGED <<led, jour, resumed, acks, invoked, x>>
  /\ UNCHANGED <<row, trigger, fence, d1lease, mapped, tx1, faults, foreign>>

(* InvokeD4 after the executor has returned. *)
ComposedX(c, comp) == IF ValidateFor(comp.safe) THEN Send(c, ResultEvent("RECORD_RESULT", "EXECUTING", comp.safe)) ELSE Return(c)
Composed(c, comp) ==
  Goto(c, [call[c] EXCEPT !.pc = "read",
                          !.comp = IF ValidateFor(comp.safe) THEN comp ELSE NoComposite,
                          !.ev = IF ValidateFor(comp.safe) THEN ResultEvent("RECORD_RESULT", "EXECUTING", comp.safe)
                                 ELSE RecoveryEvent("EXECUTING")])

InvokeD4(c) ==
  LET run == x[c] IN
  /\ call[c].pc = "run" /\ run.at = "returned"
  /\ \E fresh \in BOOLEAN :
       LET projected == Projected(run, fresh) IN
       /\ IF fresh THEN UNCHANGED faults ELSE Fault
       /\ Composed(c, [safe |-> SafeResult(run, projected), cont |-> run.outcome = "COMMITTED_AND_VERIFIED" /\ projected,
                       wait |-> MappingSeam /\ run.blocked])
  /\ Step(c, [FreshRun EXCEPT !.d010 = run.d010])
  /\ doubtful' = (doubtful \/ RecoveryRequiredFromReport(run))
  /\ UNCHANGED <<row, trigger, fence, d1lease, mapped, tx1, foreign, led, jour, acks, crashes, invoked, resumed, offer, answer>>

(* composite.continuation: the handoff is consumed or the record goes to recovery. *)
Continuation(c) ==
  /\ call[c].pc = "continue"
  /\ \E fresh \in BOOLEAN :
       LET run == ContinueD3(x[c], fresh) IN
       /\ IF fresh THEN UNCHANGED faults ELSE Fault
       /\ Send(c, IF run.d010 = "consumed" THEN Event("CONSUME", "CONTINUATION_PENDING") ELSE RecoveryEvent("CONTINUATION_PENDING"))
       /\ Step(c, run)
  /\ UNCHANGED <<row, trigger, fence, d1lease, mapped, tx1, foreign, led, jour, acks, crashes, invoked, resumed, doubtful, offer, answer>>

(***************************************************************************)
(* Bundles. The row is locked from the SELECT to the commit.               *)
(***************************************************************************)
AcceptBundle(rec, state, corr) ==
  IF rec.state # state \/ rec.corr \notin {"none", corr} \/ (rec.corr = "none" /\ PreventTerminalMutation(rec))
  THEN [ok |-> FALSE, rec |-> rec]
  ELSE [ok |-> TRUE, rec |-> [rec EXCEPT !.corr = corr]]

(* A bundle made before the work: it may create the row. *)
ReceivedBundle(c) ==
  /\ call[c].pc = "bundle"
  /\ \E corr \in {"k1", "k2"} :
       LET a == AcceptBundle(StoreReceive, "RECEIVED", corr) IN led' = IF a.ok THEN a.rec ELSE led
  /\ Return(c)
  /\ UNCHANGED <<xvars, jour, acks, crashes, invoked, resumed, doubtful, offer, answer>>

(* The bundle of a Process that succeeded (D4ProcessResult.NewD5Bundle). *)
OfferBundle(c) ==
  LET a == AcceptBundle(led, "TERMINAL", "own") IN
  /\ call[c].pc = "offer"
  /\ led' = a.rec
  /\ offer' = IF a.ok THEN "accepted" ELSE IF led.corr = "none" THEN "refused" ELSE "conflict"
  /\ Return(c)
  /\ UNCHANGED <<xvars, jour, acks, crashes, invoked, resumed, doubtful, answer>>

(* The process ends; the row and the database are all that is left. *)
Crash(c) ==
  /\ crashes > 0 /\ crashes' = crashes - 1
  /\ call[c].pc \notin {"idle", "done", "dead"}
  /\ Goto(c, [NewCall EXCEPT !.pc = "dead"])
  /\ AbandonRun(c)
  /\ doubtful' = (doubtful \/ call[c].pc = "run")
  /\ UNCHANGED <<led, jour, acks, invoked, resumed, offer, answer>>

Run(c) == call[c].pc = "run" /\ RunX(c) /\ UNCHANGED d4vars
World == (SessionEnds \/ ForeignWrite \/ SupplyMapping) /\ UNCHANGED d4vars

Init ==
  /\ InitX
  /\ led = NoRow /\ jour = <<>> /\ call = [c \in Calls |-> NewCall]
  /\ acks = MaxAcks /\ crashes = MaxCrashes /\ invoked = 0 /\ resumed = 0
  /\ doubtful = FALSE /\ offer = "none" /\ answer = {}

CallStep(c) == Receive(c) \/ Claim(c) \/ GetRecord(c) \/ TransitionRead(c) \/ TransitionCas(c) \/ Run(c) \/ InvokeD4(c)
               \/ Continuation(c) \/ ReceivedBundle(c) \/ OfferBundle(c)

Next == (\E c \in Calls : Start(c) \/ CallStep(c) \/ Crash(c)) \/ World

Spec == Init /\ [][Next]_vars

-----------------------------------------------------------------------------
(* The types, and the claim constraint of the table: a row in a claimed    *)
(* state has a claim and a received one has none.                          *)
D4TypeOK ==
  /\ led.state \in States \cup {"none"} /\ led.class \in Classes /\ led.corr \in {"none", "k1", "k2", "own"}
  /\ led.result \in Results \cup {NoResult} /\ led.claim \in Calls \cup {None}
  /\ RequiresClaim(led.state) => led.claim # None
  /\ led.state = "RECEIVED" => led.claim = None
  /\ jour \in Seq(States \X States)
  /\ x \in [Calls -> [at : Phases, before : Facts, work : Facts, off : BOOLEAN, blocked : BOOLEAN, outcome : Outcomes,
                      verified : BOOLEAN, cleanup : {"CONFIRMED", "UNCERTAIN"}, d007 : {"none", "live", "spent"},
                      d010 : {"none", "unused", "consumed", "rejected"}]]
  /\ row \in Facts /\ fence \in Calls \cup {None, "orphan"} /\ tx1 \in Nat /\ invoked \in Nat

(* D4Service "never treats an ambiguous outcome as permission to invoke D3 *)
(* again": whatever is delivered twice, lost or restarted, one executor at *)
(* a time runs for the tuple, and it runs again only after a mapping was   *)
(* resumed; its database work is committed at most once.                   *)
OneExecutor ==
  /\ Cardinality({c \in Calls : Inside(c)}) <= 1
  /\ invoked <= 1 + resumed
  /\ tx1 <= 1

(* A recorded success has its first transaction in the database and, once  *)
(* terminal, its handoff consumed; it never comes from a recovery.         *)
SuccessIsTrue ==
  led.result.disp = "SUCCESS" =>
    /\ tx1 > 0
    /\ led.state = "TERMINAL" => <<"CONTINUATION_PENDING", "CONTINUATION_CONSUMED">> \in {jour[i] : i \in DOMAIN jour}

(* What a terminal row says about the commit is what the database did. *)
TerminalKnowsCommit ==
  led.state = "TERMINAL" =>
    /\ led.result.commit = "NOT_COMMITTED" => tx1 = 0
    /\ led.result.commit = "COMMITTED" => tx1 > 0
    /\ led.result.commit # "COMMIT_UNKNOWN"

(* After an invocation that was lost with its process or whose commit or   *)
(* cleanup is uncertain, the row becomes terminal only by way of recovery. *)
UncertaintyKept ==
  doubtful /\ led.state = "TERMINAL" => jour[Len(jour)] = <<"RECOVERY_REQUIRED", "TERMINAL">>

(* The journal is one path through the states that ends where the row is;  *)
(* only the claim, which is not journaled, can precede it.                 *)
JournalLinks ==
  /\ jour = <<>> => led.state \in {"none", "RECEIVED", "ADMITTED"}
  /\ jour # <<>> => jour[1][1] \in {"RECEIVED", "ADMITTED"} /\ jour[Len(jour)][2] = led.state
  /\ \A i \in 1..(Len(jour) - 1) : jour[i][2] = jour[i + 1][1]

(* Whatever ends an execution, and wherever, the immutability trigger of   *)
(* the audit table is enabled in every committed state.                    *)
TriggerOn == trigger

(* "Verified" is said only when the second transaction finds the facts the *)
(* plan promised: no row of the plan is missing or foreign, and the first  *)
(* transaction is committed.                                               *)
VerifiedWasSeen ==
  \A c \in Calls : ~x[c].verified /\ x'[c].verified => tx1 > 0 /\ trigger /\ row = ApplyExpectedFacts(x[c].before, NullItems(x[c].before))

(* A value that another session stored before the row was locked is never  *)
(* overwritten by a plan made before it.                                   *)
ForeignKept ==
  \A r \in Rows : row[r] = "other" => row'[r] = "other"

(* Durable decisions stay: a terminal row, a claim and a correlation are   *)
(* never replaced.                                                         *)
DecisionsStay ==
  /\ led.state = "TERMINAL" => led' = led
  /\ led.claim # None => led'.claim = led.claim
  /\ led.corr # "none" => led'.corr = led.corr

(* AcceptD4ToD5Bundle "validates and correlates a complete safe bundle":   *)
(* the bundle of a Process that succeeded is not refused while the row has *)
(* no correlation.                                                         *)
BundleCorrelates == offer # "refused"

(* Resolve asks the owner for "a complete safe result": a truthful,        *)
(* successful one is not refused both with a recovery class and without.   *)
ResolutionStored == answer # {"", "UNKNOWN_COMMIT_OR_CLEANUP"}

\* One executor runs per record, and what the record says of its commit is so.
RecordIsTrue ==
  /\ D4TypeOK /\ OneExecutor /\ JournalLinks /\ TriggerOn
  /\ SuccessIsTrue /\ TerminalKnowsCommit /\ UncertaintyKept
=============================================================================
