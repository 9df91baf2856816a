------------------------- MODULE ProtectedExecutor -------------------------
(***************************************************************************)
(* D3, the protected executor of internal/data/reconciliation: one call    *)
(* opens the exclusive writer fence, plans from facts it reads itself,     *)
(* spends the D1 lease, fills in the missing owner of each row by          *)
(* compare-and-swap, commits, reads everything again in a second           *)
(* transaction, and exchanges the D007 readiness capability for the one    *)
(* D010 handoff. The rows stand for the owner columns of the tables the    *)
(* plan writes; "other" is a value that a session outside the fence wrote. *)
(***************************************************************************)
EXTENDS Naturals, FiniteSets

CONSTANTS Calls,        \* calls of the service, each in a process of its own
          None,
          MaxFaults,    \* database errors and delays that the executor meets
          MaxForeign    \* writes of a session that does not take the fence

ASSUME ExecutorAssumption == MaxFaults \in Nat /\ MaxForeign \in Nat /\ None \notin Calls

VARIABLES row,      \* the owner value of each row, committed
          trigger,  \* the immutability trigger of admin_binding_audits is enabled
          fence,    \* holder of the exclusive writer fence, "orphan" after a failed Close
          d1lease,    \* the D1 lease of the tuple
          mapped,   \* every mapping that the facts require has been given
          x,        \* the executor of each call
          tx1,      \* number of first transactions that were committed
          faults, foreign

xvars == <<row, trigger, fence, d1lease, mapped, x, tx1, faults, foreign>>

Rows == {"device", "shop", "audit"}
Rank == [device |-> 1, shop |-> 2, audit |-> 3]
Facts == [Rows -> {"null", "own", "other"}]
Outcomes == {"NOT_COMMITTED", "COMMITTED_AND_VERIFIED", "COMMITTED_BUT_POSTVERIFY_FAILED", "COMMIT_OUTCOME_UNKNOWN"}
InTX1 == {"plan", "lease", "write", "verify", "commit"}
Phases == InTX1 \cup {"idle", "open", "begin", "tx2", "ready", "exchange", "close", "returned"}

(* The facts after a plan has been carried out. *)
ApplyExpectedFacts(before, items) == [r \in Rows |-> IF r \in items THEN "own" ELSE before[r]]

NullItems(facts) == {r \in Rows : facts[r] = "null"}
Blank == [r \in Rows |-> "own"]

(* An executor with its report: what the caller may know when it returns. *)
FreshRun == [at |-> "idle", before |-> Blank, work |-> Blank, off |-> FALSE, blocked |-> FALSE,
             outcome |-> "NOT_COMMITTED", verified |-> FALSE, cleanup |-> "CONFIRMED", d007 |-> "none", d010 |-> "none"]

Forget(run) == [run EXCEPT !.before = Blank, !.work = Blank, !.off = FALSE]

(* fail: roll back and report that nothing was committed. *)
FailX(run) == [Forget(run) EXCEPT !.at = "tx2"]
FailPhase(run) == [Forget(run) EXCEPT !.at = "close", !.outcome = "NOT_COMMITTED"]

(* After the commit an error is never NOT_COMMITTED. *)
PostVerifyFailed(run) == [Forget(run) EXCEPT !.at = "close", !.outcome = "COMMITTED_BUT_POSTVERIFY_FAILED"]

Step(c, run) == x' = [x EXCEPT ![c] = run]

(* An error of the database or a delay, from the bounded supply. *)
Fault == faults > 0 /\ faults' = faults - 1

(***************************************************************************)
(* The protected window.                                                   *)
(***************************************************************************)
OpenFence(c) ==
  /\ x[c].at = "open"
  /\ UNCHANGED <<row, trigger, d1lease, mapped, tx1, foreign>>
  /\ \/ fence = None /\ fence' = c /\ Step(c, [x[c] EXCEPT !.at = "begin"]) /\ UNCHANGED faults
     \/ Fault /\ Step(c, [x[c] EXCEPT !.at = "returned"]) /\ UNCHANGED fence

(* BeginTx at REPEATABLE READ, lockProtectedEntityPrefix, the frozen time  *)
(* and the facts: the snapshot is that of the first locking statement.     *)
Begin(c) ==
  /\ x[c].at = "begin"
  /\ UNCHANGED <<row, trigger, fence, d1lease, mapped, tx1, foreign>>
  /\ \/ Step(c, [x[c] EXCEPT !.at = "plan", !.before = row, !.work = row]) /\ UNCHANGED faults
     \/ Fault /\ Step(c, FailPhase(x[c]))

(* BuildPlan: a conflicting owner or a missing mapping blocks the plan. *)
Plan(c) ==
  LET items == NullItems(x[c].before)
      blocked == ~mapped \/ \E r \in Rows : x[c].before[r] = "other"
  IN
  /\ x[c].at = "plan"
  /\ Step(c, IF blocked THEN [FailPhase(x[c]) EXCEPT !.blocked = TRUE]
             ELSE [x[c] EXCEPT !.at = IF items = {} THEN "verify" ELSE "lease"])
  /\ UNCHANGED <<row, trigger, fence, d1lease, mapped, tx1, faults, foreign>>

(* The last gate before the first write; an error may follow a consumption *)
(* that took place.                                                        *)
SpendLease(c) ==
  /\ x[c].at = "lease"
  /\ UNCHANGED <<row, trigger, fence, mapped, tx1, foreign>>
  /\ \/ /\ Step(c, IF d1lease = "ACTIVE" THEN [x[c] EXCEPT !.at = "write"] ELSE FailPhase(x[c]))
        /\ d1lease' = "CONSUMED" /\ UNCHANGED faults
     \/ Fault /\ d1lease' = "CONSUMED" /\ Step(c, FailPhase(x[c]))

(* executableItems orders the writes: devices, shops, admin provenance. *)
NextItem(todo) == CHOOSE r \in todo : \A s \in todo : Rank[r] <= Rank[s]

(* executeCASItem: a row that changed after the snapshot cannot be updated. *)
ExecuteCASItemX(c, r) == [x[c] EXCEPT !.work[r] = "own"]
ExecuteCASItem(c, r) ==
  IF row[r] = x[c].before[r] THEN [x[c] EXCEPT !.work[r] = "own"] ELSE FailPhase(x[c])

Write(c) ==
  LET todo == NullItems(x[c].work)
      r == NextItem(todo)
      run == ExecuteCASItem(c, r)
  IN
  /\ x[c].at = "write"
  /\ Step(c, IF run.at # "write" THEN run
             ELSE [run EXCEPT !.off = x[c].off \/ r = "audit",      \* DISABLE TRIGGER before the audit row
                              !.at = IF todo = {r} THEN "verify" ELSE "write"])
  /\ UNCHANGED <<row, trigger, fence, d1lease, mapped, tx1, faults, foreign>>

(* restoreTrigger and the verification inside the transaction. *)
RestoreTriggerX(run) == run
RestoreTrigger(run) == [run EXCEPT !.off = FALSE]

VerifyPlanItems(before, after, items) == \A r \in items : before[r] = "null" /\ after[r] = "own"
EqualCanonicalFacts(a, b) == a = b

Verify(c) ==
  LET items == NullItems(x[c].before)
      expected == ApplyExpectedFacts(x[c].before, items)
      run == RestoreTrigger(x[c])
  IN
  /\ x[c].at = "verify"
  /\ UNCHANGED <<row, trigger, fence, d1lease, mapped, tx1, foreign>>
  /\ \/ /\ Step(c, IF VerifyPlanItems(run.before, run.work, items) /\ EqualCanonicalFacts(expected, run.work)
                   THEN [run EXCEPT !.at = "commit"] ELSE FailPhase(x[c]))
        /\ UNCHANGED faults
     \/ Fault /\ Step(c, FailPhase(x[c]))

Persist(c) ==
  /\ row' = [r \in Rows |-> IF x[c].work[r] # x[c].before[r] THEN x[c].work[r] ELSE row[r]]
  /\ trigger' = ~x[c].off
  /\ tx1' = tx1 + 1

CommitFailedX(run) == FailPhase(run)
CommitFailed(run) == [Forget(run) EXCEPT !.at = "close", !.outcome = "COMMIT_OUTCOME_UNKNOWN"]

Commit(c) ==
  /\ x[c].at = "commit"
  /\ UNCHANGED <<fence, d1lease, mapped, foreign>>
  /\ \/ Persist(c) /\ Step(c, [x[c] EXCEPT !.at = "tx2"]) /\ UNCHANGED faults
     \/ Fault /\ Persist(c) /\ Step(c, CommitFailed(x[c]))
     \/ Fault /\ Step(c, CommitFailed(x[c])) /\ UNCHANGED <<row, trigger, tx1>>

(* inspectAuditTrigger on the connection, after the second transaction. *)
AuditTriggerAsExpected == trigger

(* TX2 reads all facts again; only now is the execution called verified. *)
PostVerifyX(c) ==
  /\ x[c].at = "tx2"
  /\ Step(c, [Forget(x[c]) EXCEPT !.at = "ready", !.verified = TRUE, !.outcome = "COMMITTED_AND_VERIFIED"])
  /\ UNCHANGED <<row, trigger, fence, d1lease, mapped, tx1, foreign, faults>>
PostVerify(c) ==
  LET items == NullItems(x[c].before)
      expected == ApplyExpectedFacts(x[c].before, items)
      ok == /\ VerifyPlanItems(x[c].before, row, items)
            /\ EqualCanonicalFacts(expected, row)
            /\ "audit" \in items => AuditTriggerAsExpected
  IN
  /\ x[c].at = "tx2"
  /\ UNCHANGED <<row, trigger, fence, d1lease, mapped, tx1, foreign>>
  /\ \/ /\ Step(c, IF ok THEN [Forget(x[c]) EXCEPT !.at = "ready", !.verified = TRUE, !.outcome = "COMMITTED_AND_VERIFIED",
                                                   !.before = row]
                   ELSE PostVerifyFailed(x[c]))
        /\ UNCHANGED faults
     \/ Fault /\ Step(c, PostVerifyFailed(x[c]))

(***************************************************************************)
(* D007 and D010. Freshness is one minute after TX2; a delay that uses it  *)
(* up is a fault.                                                          *)
(***************************************************************************)
EvidenceValid(run) == run.outcome = "COMMITTED_AND_VERIFIED" /\ run.verified
EvaluateReadiness(run) == EvidenceValid(run) /\ \A r \in Rows : run.before[r] = "own"
IssueD007(run, fresh) == IF EvaluateReadiness(run) /\ fresh THEN "live" ELSE "none"

Readiness(c) ==
  /\ x[c].at = "ready"
  /\ UNCHANGED <<row, trigger, fence, d1lease, mapped, tx1, foreign>>
  /\ \E fresh \in BOOLEAN :
       LET cap == IssueD007(x[c], fresh) IN
       /\ IF fresh THEN UNCHANGED faults ELSE Fault
       /\ Step(c, IF cap = "live" THEN [x[c] EXCEPT !.at = "exchange", !.d007 = cap] ELSE PostVerifyFailed(x[c]))

(* A presentation of the capability ends it, also one that fails. *)
ConsumeD007(run, fresh) == IF run.d007 = "live" /\ fresh THEN "CONSUMED" ELSE "none"
IssueD010(terminal, run) == IF terminal = "CONSUMED" /\ EvidenceValid(run) THEN "unused" ELSE "none"
InstallHandoff(run, handoff) == [Forget(run) EXCEPT !.at = "close", !.d007 = "spent", !.d010 = handoff]

Exchange(c) ==
  /\ x[c].at = "exchange"
  /\ UNCHANGED <<row, trigger, fence, d1lease, mapped, tx1, foreign>>
  /\ \E fresh \in BOOLEAN :
       LET handoff == IssueD010(ConsumeD007(x[c], fresh), x[c]) IN
       /\ IF fresh THEN UNCHANGED faults ELSE Fault
       /\ Step(c, IF handoff = "unused" THEN InstallHandoff(x[c], handoff)
                  ELSE [PostVerifyFailed(x[c]) EXCEPT !.d007 = "spent"])

(* The deferred Close; a failed one leaves it open whether the server still *)
(* holds the lock.                                                          *)
CloseFenceX(c) ==
  /\ x[c].at = "close"
  /\ Step(c, [x[c] EXCEPT !.at = "returned"])
  /\ UNCHANGED <<row, trigger, fence, d1lease, mapped, tx1, faults, foreign>>
CloseFence(c) ==
  /\ x[c].at = "close"
  /\ UNCHANGED <<row, trigger, d1lease, mapped, tx1, foreign>>
  /\ \/ fence' = None /\ Step(c, [x[c] EXCEPT !.at = "returned"]) /\ UNCHANGED faults
     \/ Fault /\ fence' = "orphan" /\ Step(c, [x[c] EXCEPT !.at = "returned", !.cleanup = "UNCERTAIN"])

(* continueD3ProtectedLocked: verify and consume under one lock. *)
VerifyD010(run, fresh) == run.d010 = "unused" /\ fresh
ContinueD3(run, fresh) == [run EXCEPT !.d010 = IF VerifyD010(run, fresh) THEN "consumed" ELSE "rejected"]

(* The process of a call ends: its session rolls back and frees the fence. *)
AbandonRun(c) ==
  /\ Step(c, FreshRun)
  /\ fence' = IF fence = c THEN None ELSE fence
  /\ UNCHANGED <<row, trigger, d1lease, mapped, tx1, faults, foreign>>

SessionEnds == fence = "orphan" /\ fence' = None /\ UNCHANGED <<row, trigger, d1lease, mapped, x, tx1, faults, foreign>>

(* Row locks of an open first transaction: the whole prefix, and what it wrote. *)
Locked(r) == \E c \in Calls : x[c].at \in InTX1 /\ (r = "device" \/ x[c].work[r] # x[c].before[r])

(* A session that ignores the fence; the audit rows are immutable to it. *)
ForeignWrite ==
  /\ foreign > 0 /\ foreign' = foreign - 1
  /\ \E r \in {"device", "shop"} : ~Locked(r) /\ row' = [row EXCEPT ![r] = "other"]
  /\ UNCHANGED <<trigger, fence, d1lease, mapped, x, tx1, faults>>

(* The operator supplies the mapping that the facts require. *)
SupplyMapping == ~mapped /\ mapped' = TRUE /\ UNCHANGED <<row, trigger, fence, d1lease, x, tx1, faults, foreign>>

InitX ==
  /\ row \in {Blank, [Blank EXCEPT !["shop"] = "null", !["audit"] = "null"]}
  /\ mapped \in BOOLEAN
  /\ trigger = TRUE /\ fence = None /\ d1lease = "ACTIVE" /\ tx1 = 0
  /\ x = [c \in Calls |-> FreshRun]
  /\ faults = MaxFaults /\ foreign = MaxForeign

RunX(c) == OpenFence(c) \/ Begin(c) \/ Plan(c) \/ SpendLease(c) \/ Write(c) \/ Verify(c) \/ Commit(c)
           \/ PostVerify(c) \/ Readiness(c) \/ Exchange(c) \/ CloseFence(c)

Inside(c) == x[c].at \notin {"idle", "returned"}
=============================================================================
