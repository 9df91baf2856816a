----------------------------- MODULE LeaseProofs ----------------------------
(***************************************************************************)
(* Proofs about the two ledgers of a protected change. D1LLease, for any   *)
(* callers, attempts and operations and any lifetime of a lease. D4Ledger  *)
(* with ProtectedExecutor, for any calls of the service. Both for any      *)
(* number of faults, lost answers, crashes and foreign writes.             *)
(***************************************************************************)
EXTENDS MCLedgers, FiniteSetTheorems, TLAPS

-----------------------------------------------------------------------------
(* The lease: the inductive invariant *)

Somebody == Callers \cup {NoCaller}

Statuses == Live \cup Terminal \cup {"NONE", "QUARANTINED"}

ProvenanceRows ==
    [state: {"NONE", "AVAILABLE", "RESERVED", "CONSUMED", "INVALIDATED"},
     issue: Somebody, linked: BOOLEAN]

LeaseRows ==
    [status: Statuses, verifier: Somebody, issued: 0..Never, expires: Nat,
     activated: 0..Never, terminal: 0..Never, used: Nat, quarantined: BOOLEAN]

Places == {"idle", "record", "read", "reserve", "complete", "invalidate",
           "t0", "t1", "inv", "lock", "clock", "write"}

CallStates ==
    [op: {"none"} \cup IssueOps \cup RowOps \cup LeaseOps, at: Places,
     a: Attempts \cup {NoCaller}, bound: BOOLEAN, rec: ProvenanceRows,
     seen: Statuses, clk: Nat, key: Somebody, grant: [started: Nat, expires: Nat]]

TypeInv ==
    /\ now \in 0..MaxTime
    /\ prov \in [Attempts -> ProvenanceRows]
    /\ lease \in [Attempts -> LeaseRows]
    /\ boundaries \subseteq [a: Attempts, started: Nat, expires: Nat, granted: Nat]
    /\ lockP \in [Attempts -> Somebody]
    /\ lockL \in [Attempts -> Somebody]
    /\ inCall \in [Callers -> CallStates]
    /\ told \in [Attempts -> [consumed: Nat, ended: BOOLEAN, invalidated: BOOLEAN]]
    /\ leaseFaults \in 0..MaxLeaseFaults

\* A call inside a transaction on a provenance row has it locked, and the row
\* is still the one its statement selected.
RowCall(c) == LET k == inCall[c] IN
    /\ k.at # "idle" => k.a \in Attempts
    /\ k.at \in {"t0", "t1", "inv"} => lockP[k.a] = c
    /\ k.at = "t0" => /\ k.op \in IssueOps \cup {"reserve"}
                      /\ prov[k.a].state = "AVAILABLE"
    /\ k.at = "t1" => k.op \in IssueOps /\ prov[k.a].state = "RESERVED"
    /\ k.at = "inv" => /\ k.op \in {"invalidate", "resolveReserved"}
                       /\ prov[k.a].state = "RESERVED"
    /\ k.at = "record" => k.op \in IssueOps
    /\ k.at = "read" => k.op \in RowOps
    /\ k.at = "reserve" => k.op \in IssueOps \cup {"reserve"}
    /\ k.at = "complete" => k.op \in IssueOps
    /\ k.at = "invalidate" => k.op \in {"invalidate", "resolveReserved"}

\* A call inside a transaction on a lease has the row locked: its status is
\* the one the call has seen, and an activation lies before the clock it read.
LeaseCall(c) == LET k == inCall[c] IN
    /\ k.at \in {"lock", "clock", "write"} =>
           k.op \in LeaseOps \cup {"issueAndActivate"} /\ lease[k.a].status # "NONE"
    /\ k.at \in {"clock", "write"} =>
           /\ lockL[k.a] = c
           /\ k.seen = lease[k.a].status
           /\ k.seen \in Demanded(k.op)
    /\ k.at = "write" /\ k.op # "recover" =>
           /\ k.clk <= now
           /\ lease[k.a].activated # Never => lease[k.a].activated <= k.clk

\* Times of a lease lie in the past, an unused lease has no time of use.
TimeInv ==
    /\ \A a \in Attempts : LET old == lease[a] IN
           /\ old.status = "NONE" <=> old = NoLease
           /\ old.activated # Never => old.activated <= now
           /\ old.used # Never => old.status = "CONSUMED"
    /\ \A b \in boundaries : b.granted <= now

IInv ==
    /\ TypeInv /\ TimeInv
    /\ \A c \in Callers : RowCall(c) /\ LeaseCall(c)
    /\ ProvenanceMatchesLease /\ LifecycleFields /\ UsedInsideLife /\ PromisesKept

-----------------------------------------------------------------------------
(* Steps that write no row *)

\* The step of c leaves the locks of the other callers alone.
KeepsLocks(c) == \A d \in Callers \ {c}, a \in Attempts :
    /\ lockP[a] = d => lockP'[a] = d
    /\ lockL[a] = d => lockL'[a] = d

\* The other callers are where they were.
KeepsCalls(c) == \A d \in Callers \ {c} : inCall'[d] = inCall[d]

LEMMA IdleType == Idle \in CallStates /\ NoProvenance \in ProvenanceRows /\ NoLease \in LeaseRows
BY LeaseAssumption DEF Idle, CallStates, NoProvenance, ProvenanceRows, NoLease, LeaseRows,
   Somebody, Statuses, Places, NoGrant, Never

LEMMA InitSafe == LeaseInit => IInv
<1> SUFFICES ASSUME LeaseInit PROVE IInv
  OBVIOUS
<1> USE DEF LeaseInit
<1>1. TypeInv
  BY IdleType, LeaseAssumption DEF TypeInv, Somebody
<1>2. TimeInv /\ LifecycleFields /\ UsedInsideLife
  BY DEF TimeInv, LifecycleFields, UsedInsideLife, NoLease, Terminal
<1>3. \A c \in Callers : RowCall(c) /\ LeaseCall(c)
  BY DEF RowCall, LeaseCall, Idle
<1>4. ProvenanceMatchesLease /\ PromisesKept
  BY DEF ProvenanceMatchesLease, PromisesKept, NoProvenance
<1> QED  BY <1>1, <1>2, <1>3, <1>4 DEF IInv

LEMMA UnlockKeepsOthers ==
  ASSUME TypeInv, NEW c \in Callers, Unlock(c)
  PROVE  /\ KeepsLocks(c)
         /\ lockP' \in [Attempts -> Somebody] /\ lockL' \in [Attempts -> Somebody]
BY DEF TypeInv, Unlock, Released, KeepsLocks, Somebody

\* What holds of the call of d also holds after a step of c that writes nothing.
LEMMA OtherCalls ==
  ASSUME IInv, NEW c \in Callers, NEW d \in Callers \ {c},
         KeepsCalls(c), KeepsLocks(c), UNCHANGED <<now, prov, lease>>
  PROVE  RowCall(d)' /\ LeaseCall(d)'
BY DEF IInv, KeepsCalls, KeepsLocks, RowCall, LeaseCall

LEMMA QuietStep ==
  ASSUME IInv, TypeInv', NEW c \in Callers, KeepsCalls(c), KeepsLocks(c),
         UNCHANGED <<now, prov, lease, boundaries, told>>,
         RowCall(c)', LeaseCall(c)'
  PROVE  IInv'
<1>1. \A d \in Callers : RowCall(d)' /\ LeaseCall(d)'
  BY OtherCalls
<1>2. TimeInv' /\ ProvenanceMatchesLease' /\ LifecycleFields' /\ UsedInsideLife' /\ PromisesKept'
  BY DEF IInv, TimeInv, ProvenanceMatchesLease, LifecycleFields, UsedInsideLife, PromisesKept
<1> QED  BY <1>1, <1>2 DEF IInv

LEMMA GoIdle ==
  ASSUME IInv, NEW c \in Callers, KeepsLocks(c),
         lockP' \in [Attempts -> Somebody], lockL' \in [Attempts -> Somebody],
         inCall' = [inCall EXCEPT ![c] = Idle],
         UNCHANGED <<now, prov, lease, boundaries, told>>,
         leaseFaults' \in 0..MaxLeaseFaults
  PROVE  IInv'
<1>1. TypeInv'
  BY IdleType DEF IInv, TypeInv
<1>2. inCall'[c] = Idle /\ KeepsCalls(c)
  BY DEF IInv, TypeInv, KeepsCalls
<1>3. RowCall(c)' /\ LeaseCall(c)'
  BY <1>2 DEF RowCall, LeaseCall, Idle
<1> QED  BY <1>1, <1>2, <1>3, QuietStep

LEMMA RefusePreserves ==
  ASSUME IInv, NEW c \in Callers, Refuse(c)
  PROVE  IInv'
BY UnlockKeepsOthers, GoIdle DEF Refuse, IInv, TypeInv

LEMMA CallFailsPreserves ==
  ASSUME IInv, NEW c \in Callers, CallFails(c)
  PROVE  IInv'
<1>1. leaseFaults' \in 0..MaxLeaseFaults
  BY LeaseAssumption DEF CallFails, IInv, TypeInv
<1> QED  BY <1>1, UnlockKeepsOthers, GoIdle DEF CallFails, IInv

\* A call that has begun stands before its first statement.
LEMMA BeginPreserves ==
  ASSUME IInv, NEW c \in Callers, NEW k \in CallStates, BeginCall(c, k),
         k.a \in Attempts,
         \/ k.at = "record" /\ k.op \in IssueOps
         \/ k.at = "read" /\ k.op \in RowOps
         \/ k.at = "lock" /\ k.op \in LeaseOps /\ lease[k.a].status # "NONE"
  PROVE  IInv'
<1>1. TypeInv'
  BY DEF IInv, TypeInv, BeginCall
<1>2. inCall'[c] = k /\ KeepsCalls(c) /\ KeepsLocks(c)
  BY DEF IInv, TypeInv, KeepsCalls, KeepsLocks, BeginCall
<1>3. RowCall(c)' /\ LeaseCall(c)'
  BY <1>2 DEF RowCall, LeaseCall, BeginCall
<1> QED  BY <1>1, <1>2, <1>3, QuietStep DEF BeginCall

LEMMA StartPreserves ==
  ASSUME IInv, NEW c \in Callers, StartIssue(c) \/ StartRow(c) \/ StartLease(c)
  PROVE  IInv'
<1> USE DEF CallStates, Places
<1>1. CASE StartIssue(c)
  <2>1. PICK op \in IssueOps, a \in Attempts :
          BeginCall(c, [Idle EXCEPT !.op = op, !.a = a, !.at = "record"])
    BY <1>1 DEF StartIssue
  <2> DEFINE k == [Idle EXCEPT !.op = op, !.a = a, !.at = "record"]
  <2>2. k \in CallStates /\ k.a = a /\ k.at = "record" /\ k.op = op
    BY IdleType
  <2> QED  BY <2>1, <2>2, BeginPreserves
<1>2. CASE StartRow(c)
  <2>1. PICK op \in RowOps, a \in Attempts :
          BeginCall(c, [Idle EXCEPT !.op = op, !.a = a, !.at = "read"])
    BY <1>2 DEF StartRow
  <2> DEFINE k == [Idle EXCEPT !.op = op, !.a = a, !.at = "read"]
  <2>2. k \in CallStates /\ k.a = a /\ k.at = "read" /\ k.op = op
    BY IdleType
  <2> QED  BY <2>1, <2>2, BeginPreserves
<1>3. CASE StartLease(c)
  <2>1. PICK op \in LeaseOps, a \in Attempts, bound \in BOOLEAN, g \in Grants \cup {NoGrant} :
          /\ lease[a] # NoLease
          /\ BeginCall(c, [Idle EXCEPT !.op = op, !.a = a, !.at = "lock",
                                       !.bound = bound, !.grant = g])
    BY <1>3 DEF StartLease
  <2> DEFINE k == [Idle EXCEPT !.op = op, !.a = a, !.at = "lock",
                               !.bound = bound, !.grant = g]
  <2>2. g \in [started: Nat, expires: Nat]
    BY LeaseAssumption DEF Grants, NoGrant
  <2>3. k \in CallStates /\ k.a = a /\ k.at = "lock" /\ k.op = op
    BY <2>2, IdleType
  <2>4. lease[a].status # "NONE"
    BY <2>1 DEF IInv, TimeInv
  <2> QED  BY <2>1, <2>3, <2>4, BeginPreserves
<1> QED  BY <1>1, <1>2, <1>3

\* A call that goes on keeps its type.
LEMMA CallTypes ==
  ASSUME NEW k \in CallStates, NEW to \in Places
  PROVE  /\ [k EXCEPT !.at = to] \in CallStates
         /\ \A r \in ProvenanceRows : /\ [k EXCEPT !.rec = r, !.at = to] \in CallStates
                                      /\ [k EXCEPT !.at = to, !.rec = r] \in CallStates
         /\ \A s \in Statuses : [k EXCEPT !.seen = s, !.at = to] \in CallStates
         /\ \A t \in Nat : [k EXCEPT !.clk = t, !.at = to] \in CallStates
         /\ \A key \in Somebody, r \in ProvenanceRows :
              [k EXCEPT !.at = to, !.key = key, !.rec = r] \in CallStates
BY DEF CallStates

LEMMA CallType ==
  ASSUME IInv, NEW c \in Callers
  PROVE  inCall[c] \in CallStates
BY DEF IInv, TypeInv

\* A call in progress names an attempt.
LEMMA AttemptOf ==
  ASSUME IInv, NEW c \in Callers, inCall[c].at # "idle"
  PROVE  inCall[c].a \in Attempts
BY DEF IInv, RowCall

\* The lock of a provenance row is taken by one caller, in a state of the row
\* that its statement demands.
LEMMA LockRowPreserves ==
  ASSUME IInv, NEW c \in Callers, NEW from \in Places \ {"idle"}, NEW to \in Places,
         NEW legal \in BOOLEAN, LockRow(c, from, to, legal),
         legal => \/ /\ to = "t0" /\ inCall[c].op \in IssueOps \cup {"reserve"}
                     /\ prov[inCall[c].a].state = "AVAILABLE"
                  \/ /\ to = "t1" /\ inCall[c].op \in IssueOps
                     /\ prov[inCall[c].a].state = "RESERVED"
                  \/ /\ to = "inv" /\ inCall[c].op \in {"invalidate", "resolveReserved"}
                     /\ prov[inCall[c].a].state = "RESERVED"
  PROVE  IInv'
<1>1. CASE ~legal
  BY <1>1, RefusePreserves DEF LockRow
<1>2. CASE legal
  <2> DEFINE a == inCall[c].a
  <2>a. a \in Attempts
    BY AttemptOf DEF LockRow
  <2>b. /\ lockP[a] = NoCaller /\ lockP' = [lockP EXCEPT ![a] = c]
        /\ inCall' = [inCall EXCEPT ![c].at = to]
        /\ UNCHANGED <<now, prov, lease, boundaries, lockL, told, calls, leaseFaults>>
    BY <1>2 DEF LockRow
  <2>0. inCall' \in [Callers -> CallStates]
    <3>1. [inCall[c] EXCEPT !.at = to] \in CallStates
      BY CallType, CallTypes
    <3> QED  BY <2>b, <3>1 DEF IInv, TypeInv
  <2>1. TypeInv'
    BY <2>a, <2>b, <2>0 DEF IInv, TypeInv, Somebody
  <2>2. KeepsCalls(c) /\ KeepsLocks(c)
    BY <2>a, <2>b, LeaseAssumption DEF IInv, TypeInv, KeepsCalls, KeepsLocks
  <2>3. /\ inCall'[c].at = to /\ inCall'[c].a = a /\ inCall'[c].op = inCall[c].op
        /\ lockP'[a] = c
    BY <2>a, <2>b DEF IInv, TypeInv, CallStates
  <2>4. RowCall(c)' /\ LeaseCall(c)'
    BY <1>2, <2>a, <2>b, <2>3 DEF RowCall, LeaseCall
  <2> QED  BY <2>b, <2>1, <2>2, <2>4, QuietStep
<1> QED  BY <1>1, <1>2

LEMMA RowLocksPreserve ==
  ASSUME IInv, NEW c \in Callers, Reserve(c) \/ CompleteIssue(c) \/ Invalidate(c)
  PROVE  IInv'
<1>1. CASE Reserve(c)
  <2>1. inCall[c].at = "reserve" => inCall[c].op \in IssueOps \cup {"reserve"}
    BY DEF IInv, RowCall
  <2> QED  BY <1>1, <2>1, LockRowPreserves DEF Reserve, LockRow, Places
<1>2. CASE CompleteIssue(c)
  <2>1. inCall[c].at = "complete" => inCall[c].op \in IssueOps
    BY DEF IInv, RowCall
  <2> QED  BY <1>2, <2>1, LockRowPreserves DEF CompleteIssue, LockRow, Places, StillReserved
<1>3. CASE Invalidate(c)
  <2>1. inCall[c].at = "invalidate" => inCall[c].op \in {"invalidate", "resolveReserved"}
    BY DEF IInv, RowCall
  <2> QED  BY <1>3, <2>1, LockRowPreserves DEF Invalidate, LockRow, Places, StillReserved
<1> QED  BY <1>1, <1>2, <1>3

LEMMA ResolveProvenancePreserves ==
  ASSUME IInv, NEW c \in Callers, ResolveProvenance(c)
  PROVE  IInv'
<1> DEFINE a == inCall[c].a
           to == IF inCall[c].op = "reserve" THEN "reserve" ELSE "invalidate"
<1>a. a \in Attempts /\ inCall[c].op \in RowOps
  BY AttemptOf DEF ResolveProvenance, IInv, RowCall
<1>b. /\ inCall' = [inCall EXCEPT ![c].rec = prov[a], ![c].at = to]
      /\ UNCHANGED <<now, prov, lease, boundaries, lockP, lockL, told, calls, leaseFaults>>
  BY DEF ResolveProvenance
<1>0. inCall' \in [Callers -> CallStates]
  <2>1. [inCall[c] EXCEPT !.rec = prov[a], !.at = to] \in CallStates
    <3>1. prov[a] \in ProvenanceRows /\ to \in Places
      BY <1>a DEF IInv, TypeInv, Places
    <3> QED  BY <3>1, CallType, CallTypes
  <2> QED  BY <1>b, <2>1 DEF IInv, TypeInv
<1>1. TypeInv'
  BY <1>a, <1>b, <1>0 DEF IInv, TypeInv
<1>2. KeepsCalls(c) /\ KeepsLocks(c)
  BY <1>b DEF IInv, TypeInv, KeepsCalls, KeepsLocks
<1>3. inCall'[c].at = to /\ inCall'[c].a = a /\ inCall'[c].op = inCall[c].op
  BY <1>b DEF IInv, TypeInv, CallStates
<1>4. RowCall(c)' /\ LeaseCall(c)'
  BY <1>a, <1>b, <1>3 DEF RowCall, LeaseCall, RowOps
<1> QED  BY <1>b, <1>1, <1>2, <1>4, QuietStep

LEMMA LockLeasePreserves ==
  ASSUME IInv, NEW c \in Callers, LockLease(c)
  PROVE  IInv'
<1> DEFINE a == inCall[c].a
           to == IF inCall[c].op = "recover" THEN "write" ELSE "clock"
<1>1. CASE ~inCall[c].bound \/ lease[a].status \notin Demanded(inCall[c].op)
  BY <1>1, RefusePreserves DEF LockLease
<1>2. CASE ~(~inCall[c].bound \/ lease[a].status \notin Demanded(inCall[c].op))
  <2>a. a \in Attempts /\ lease[a].status # "NONE"
        /\ inCall[c].op \in LeaseOps \cup {"issueAndActivate"}
    BY AttemptOf DEF LockLease, IInv, LeaseCall
  <2>b. /\ lockL[a] = NoCaller /\ lockL' = [lockL EXCEPT ![a] = c]
        /\ inCall' = [inCall EXCEPT ![c].seen = lease[a].status, ![c].at = to]
        /\ UNCHANGED <<now, prov, lease, boundaries, lockP, told, calls, leaseFaults>>
    BY <1>2 DEF LockLease, RowFree
  <2>0. inCall' \in [Callers -> CallStates]
    <3>1. lease[a].status \in Statuses
      BY <2>a DEF IInv, TypeInv, LeaseRows
    <3>2. [inCall[c] EXCEPT !.seen = lease[a].status, !.at = to] \in CallStates
      <4>1. to \in Places
        BY DEF Places
      <4> QED  BY <4>1, <3>1, CallType, CallTypes
    <3> QED  BY <2>b, <3>2 DEF IInv, TypeInv
  <2>1. TypeInv'
    BY <2>a, <2>b, <2>0 DEF IInv, TypeInv, Somebody
  <2>2. KeepsCalls(c) /\ KeepsLocks(c)
    BY <2>a, <2>b, LeaseAssumption DEF IInv, TypeInv, KeepsCalls, KeepsLocks
  <2>3. /\ inCall'[c].at = to /\ inCall'[c].a = a /\ inCall'[c].op = inCall[c].op
        /\ inCall'[c].seen = lease[a].status /\ lockL'[a] = c
    BY <2>a, <2>b DEF IInv, TypeInv, CallStates
  <2>4. RowCall(c)' /\ LeaseCall(c)'
    BY <1>2, <2>a, <2>b, <2>3 DEF RowCall, LeaseCall
  <2> QED  BY <2>b, <2>1, <2>2, <2>4, QuietStep
<1> QED  BY <1>1, <1>2

LEMMA ReadClockPreserves ==
  ASSUME IInv, NEW c \in Callers, ReadClock(c)
  PROVE  IInv'
<1> DEFINE a == inCall[c].a
<1>a. /\ a \in Attempts
      /\ inCall[c].op \in LeaseOps \cup {"issueAndActivate"} /\ lease[a].status # "NONE"
      /\ lockL[a] = c /\ inCall[c].seen = lease[a].status
      /\ inCall[c].seen \in Demanded(inCall[c].op)
  BY AttemptOf DEF ReadClock, IInv, LeaseCall
<1>b. /\ inCall' = [inCall EXCEPT ![c].clk = now, ![c].at = "write"]
      /\ UNCHANGED <<now, prov, lease, boundaries, lockP, lockL, told, calls, leaseFaults>>
  BY DEF ReadClock
<1>0. inCall' \in [Callers -> CallStates]
  <2>1. now \in Nat
    BY LeaseAssumption DEF IInv, TypeInv
  <2>2. [inCall[c] EXCEPT !.clk = now, !.at = "write"] \in CallStates
    BY <2>1, CallType, CallTypes DEF Places
  <2> QED  BY <1>b, <2>2 DEF IInv, TypeInv
<1>1. TypeInv'
  BY <1>a, <1>b, <1>0 DEF IInv, TypeInv
<1>2. KeepsCalls(c) /\ KeepsLocks(c)
  BY <1>b DEF IInv, TypeInv, KeepsCalls, KeepsLocks
<1>3. /\ inCall'[c].at = "write" /\ inCall'[c].a = a /\ inCall'[c].op = inCall[c].op
      /\ inCall'[c].clk = now /\ inCall'[c].seen = inCall[c].seen
  BY <1>b DEF IInv, TypeInv, CallStates
<1>4. lease[a].activated # Never => lease[a].activated <= now
  BY <1>a DEF IInv, TimeInv
<1>5. RowCall(c)' /\ LeaseCall(c)'
  BY <1>a, <1>b, <1>3, <1>4, LeaseAssumption DEF RowCall, LeaseCall, IInv, TypeInv
<1> QED  BY <1>b, <1>1, <1>2, <1>5, QuietStep

\* Time passes: what lay in the past still does.
LEMMA TickPreserves ==
  ASSUME IInv, Tick
  PROVE  IInv'
<1>1. now \in Nat /\ now' = now + 1 /\ now' \in 0..MaxTime
  BY LeaseAssumption DEF Tick, IInv, TypeInv
<1>2. TypeInv'
  BY <1>1 DEF IInv, TypeInv, Tick
<1>3. TimeInv'
  BY <1>1, LeaseAssumption DEF IInv, TimeInv, TypeInv, LeaseRows, Never, Tick
<1>4. \A c \in Callers : RowCall(c)'
  BY DEF IInv, RowCall, Tick
<1>5. \A c \in Callers : LeaseCall(c)'
  BY <1>1 DEF IInv, TypeInv, CallStates, LeaseCall, Tick
<1>6. ProvenanceMatchesLease' /\ LifecycleFields' /\ UsedInsideLife' /\ PromisesKept'
  BY DEF IInv, ProvenanceMatchesLease, LifecycleFields, UsedInsideLife, PromisesKept, Tick
<1> QED  BY <1>2, <1>3, <1>4, <1>5, <1>6 DEF IInv

-----------------------------------------------------------------------------
(* Steps that write a row *)

\* A provenance row is written by the holder of its lock or, the first time,
\* by INSERT: the calls of others do not notice.
LEMMA OthersKeepRow ==
  ASSUME IInv, NEW c \in Callers, NEW d \in Callers \ {c}, NEW a \in Attempts,
         NEW r \in ProvenanceRows, prov' = [prov EXCEPT ![a] = r],
         lockP[a] = c \/ prov[a].state = "NONE",
         KeepsCalls(c), KeepsLocks(c)
  PROVE  RowCall(d)'
<1>1. inCall'[d] = inCall[d] /\ (inCall[d].at # "idle" => inCall[d].a \in Attempts)
  BY DEF KeepsCalls, IInv, RowCall
<1>2. inCall[d].at \in {"t0", "t1", "inv"} =>
        lockP'[inCall[d].a] = d /\ prov'[inCall[d].a] = prov[inCall[d].a]
  BY <1>1 DEF IInv, TypeInv, RowCall, KeepsLocks
<1> QED  BY <1>1, <1>2 DEF IInv, RowCall

\* The same for the row of a lease, which is never deleted.
LEMMA OthersKeepLease ==
  ASSUME IInv, NEW c \in Callers, NEW d \in Callers \ {c}, NEW a \in Attempts,
         NEW r \in LeaseRows, r.status # "NONE", lease' = [lease EXCEPT ![a] = r],
         lockL[a] = c \/ lease[a].status = "NONE",
         now' = now, KeepsCalls(c), KeepsLocks(c)
  PROVE  LeaseCall(d)'
<1>1. inCall'[d] = inCall[d] /\ (inCall[d].at # "idle" => inCall[d].a \in Attempts)
  BY DEF KeepsCalls, IInv, RowCall
<1>2. inCall[d].at \in {"lock", "clock", "write"} => lease'[inCall[d].a].status # "NONE"
  BY <1>1 DEF IInv, TypeInv, LeaseCall
<1>3. inCall[d].at \in {"clock", "write"} =>
        lockL'[inCall[d].a] = d /\ lease'[inCall[d].a] = lease[inCall[d].a]
  BY <1>1 DEF IInv, TypeInv, LeaseCall, KeepsLocks
<1> QED  BY <1>1, <1>2, <1>3 DEF IInv, LeaseCall

LEMMA RecordPreserves ==
  ASSUME IInv, NEW c \in Callers, Record(c)
  PROVE  IInv'
<1> DEFINE a == inCall[c].a
           r == [NoProvenance EXCEPT !.state = "AVAILABLE"]
<1>a. a \in Attempts /\ inCall[c].op \in IssueOps
  BY AttemptOf DEF Record, IInv, RowCall
<1>1. CASE prov[a] # NoProvenance
  BY <1>1, RefusePreserves DEF Record
<1>2. CASE prov[a] = NoProvenance
  <2>b. /\ prov' = [prov EXCEPT ![a] = r]
        /\ \/ /\ inCall' = [inCall EXCEPT ![c].at = "reserve", ![c].rec = r]
              /\ UNCHANGED leaseFaults
           \/ /\ leaseFaults < MaxLeaseFaults
              /\ leaseFaults' = leaseFaults + 1
              /\ inCall' = [inCall EXCEPT ![c] = Idle]
        /\ UNCHANGED <<now, lease, boundaries, lockP, lockL, told, calls>>
    BY <1>2 DEF Record
  <2>c. r \in ProvenanceRows /\ r.state = "AVAILABLE" /\ r.linked = FALSE
    BY DEF NoProvenance, ProvenanceRows, Somebody
  <2>d. prov[a].state = "NONE" /\ prov'[a] = r
    BY <1>a, <1>2, <2>b DEF NoProvenance, IInv, TypeInv
  <2>0. inCall' \in [Callers -> CallStates]
    <3>1. [inCall[c] EXCEPT !.at = "reserve", !.rec = r] \in CallStates
      BY <2>c, CallType, CallTypes DEF Places
    <3> QED  BY <2>b, <3>1, IdleType DEF IInv, TypeInv
  <2>1. TypeInv'
    BY <1>a, <2>b, <2>c, <2>0, LeaseAssumption DEF IInv, TypeInv
  <2>2. KeepsCalls(c) /\ KeepsLocks(c)
    BY <2>b DEF IInv, TypeInv, KeepsCalls, KeepsLocks
  <2>3. /\ inCall'[c].at \in {"reserve", "idle"}
        /\ inCall'[c].at = "reserve" => inCall'[c].a = a /\ inCall'[c].op = inCall[c].op
    BY <2>b DEF IInv, TypeInv, CallStates, Idle
  <2>4. RowCall(c)' /\ LeaseCall(c)'
    BY <1>a, <2>3 DEF RowCall, LeaseCall
  <2>5. \A d \in Callers : RowCall(d)'
    BY <1>a, <2>b, <2>c, <2>d, <2>2, <2>4, OthersKeepRow
  <2>6. \A d \in Callers \ {c} : LeaseCall(d)'
    BY <2>b, <2>2 DEF IInv, LeaseCall, KeepsCalls, KeepsLocks
  <2>7. TimeInv' /\ LifecycleFields' /\ UsedInsideLife'
    BY <2>b DEF IInv, TimeInv, LifecycleFields, UsedInsideLife
  <2>8. ProvenanceMatchesLease' /\ PromisesKept'
    BY <1>a, <2>b, <2>c, <2>d DEF IInv, TypeInv, ProvenanceMatchesLease, PromisesKept
  <2> QED  BY <2>1, <2>4, <2>5, <2>6, <2>7, <2>8 DEF IInv
<1> QED  BY <1>1, <1>2

LEMMA NoLeaseFields ==
  /\ NoLease.status = "NONE" /\ NoLease.activated = Never /\ NoLease.terminal = Never
  /\ NoLease.used = Never /\ NoLease.quarantined = FALSE
BY DEF NoLease

\* The row that T1 inserts.
LEMMA NewLeaseFields ==
  ASSUME IInv, NEW c \in Callers
  PROVE  LET r == NewLease(c) IN
         /\ r \in LeaseRows
         /\ r.status = "ISSUED" /\ r.activated = Never /\ r.terminal = Never
         /\ r.used = Never /\ r.quarantined = FALSE
<1>1. now \in 0..Never /\ now + Lifetime \in Nat /\ c \in Somebody
  BY LeaseAssumption DEF IInv, TypeInv, Never, Somebody
<1> QED  BY <1>1, NoLeaseFields, IdleType DEF NewLease, LeaseRows, Statuses, Live

\* The provenance row that a transaction of c writes.
LEMMA RowAfterFields ==
  ASSUME IInv, NEW c \in Callers, inCall[c].at \in {"t0", "t1", "inv"}
  PROVE  LET r == RowAfter(c) IN
         /\ r \in ProvenanceRows
         /\ inCall[c].at = "t0" => r.state = "RESERVED" /\ ~r.linked
         /\ inCall[c].at = "t1" => r.state = "CONSUMED" /\ r.linked
         /\ inCall[c].at = "inv" => r.state = "INVALIDATED" /\ ~r.linked
<1> DEFINE a == inCall[c].a
<1>1. a \in Attempts /\ prov[a] \in ProvenanceRows /\ c \in Somebody
  BY AttemptOf DEF IInv, TypeInv, Somebody
<1>2. /\ inCall[c].at = "t0" => prov[a].state = "AVAILABLE"
      /\ inCall[c].at \in {"t1", "inv"} => prov[a].state = "RESERVED"
  BY DEF IInv, RowCall
<1>3. prov[a].linked = FALSE
  BY <1>1, <1>2 DEF IInv, ProvenanceMatchesLease, ProvenanceRows
<1>4. CASE inCall[c].at = "t0"
  BY <1>1, <1>3, <1>4 DEF RowAfter, ProvenanceRows
<1>5. CASE inCall[c].at = "t1"
  BY <1>1, <1>2, <1>5 DEF RowAfter, ProvenanceRows
<1>6. CASE inCall[c].at = "inv"
  BY <1>1, <1>3, <1>6 DEF RowAfter, ProvenanceRows
<1> QED  BY <1>4, <1>5, <1>6

\* Where the call goes on.
LEMMA ContinueFields ==
  ASSUME IInv, NEW c \in Callers, inCall[c].at \in {"t0", "t1", "inv"}
  PROVE  LET k == Continue(c) IN
         /\ k \in CallStates
         /\ \/ k = Idle
            \/ k.at = "complete" /\ k.op \in IssueOps /\ k.a = inCall[c].a
            \/ /\ k.at = "lock" /\ k.op = "issueAndActivate" /\ k.a = inCall[c].a
               /\ inCall[c].at = "t1"
<1>1. inCall[c] \in CallStates /\ RowAfter(c) \in ProvenanceRows /\ c \in Somebody
  BY CallType, RowAfterFields DEF Somebody
<1>2. CASE inCall[c].at = "t0" /\ inCall[c].op \in IssueOps
  <2>1. Continue(c) = [inCall[c] EXCEPT !.at = "complete", !.rec = RowAfter(c)]
    BY <1>2 DEF Continue
  <2>2. Continue(c) \in CallStates
    <3>1. "complete" \in Places
      BY DEF Places
    <3>2. [inCall[c] EXCEPT !.at = "complete", !.rec = RowAfter(c)] \in CallStates
      BY <1>1, <3>1, CallTypes
    <3> QED  BY <2>1, <3>2
  <2> QED  BY <1>1, <1>2, <2>1, <2>2 DEF CallStates
<1>3. CASE inCall[c].at = "t1" /\ inCall[c].op = "issueAndActivate"
  <2>1. Continue(c) = [inCall[c] EXCEPT !.at = "lock", !.key = c, !.rec = NoProvenance]
    BY <1>3 DEF Continue
  <2>2. Continue(c) \in CallStates
    <3>1. "lock" \in Places
      BY DEF Places
    <3>2. [inCall[c] EXCEPT !.at = "lock", !.key = c, !.rec = NoProvenance] \in CallStates
      BY <1>1, <3>1, CallTypes, IdleType
    <3> QED  BY <2>1, <3>2
  <2> QED  BY <1>1, <1>3, <2>1, <2>2 DEF CallStates
<1>4. CASE /\ ~(inCall[c].at = "t0" /\ inCall[c].op \in IssueOps)
           /\ ~(inCall[c].at = "t1" /\ inCall[c].op = "issueAndActivate")
  BY <1>4, IdleType DEF Continue
<1> QED  BY <1>2, <1>3, <1>4

\* T0, T1 and the end of a reservation, committed with or without an answer.
LEMMA CommitRowPreserves ==
  ASSUME IInv, NEW c \in Callers, CommitRow(c)
  PROVE  IInv'
<1> DEFINE a == inCall[c].a
           r == RowAfter(c)
<1>1. CASE inCall[c].at = "t1" /\ ~LeaseUnique(a)
  BY <1>1, RefusePreserves DEF CommitRow
<1>2. CASE ~(inCall[c].at = "t1" /\ ~LeaseUnique(a))
  <2>1. PICK outcome \in {"committed", "lost", "none"} :
          /\ outcome # "committed" => leaseFaults < MaxLeaseFaults
          /\ leaseFaults' = IF outcome = "committed" THEN leaseFaults ELSE leaseFaults + 1
          /\ prov' = IF outcome = "none" THEN prov ELSE [prov EXCEPT ![a] = r]
          /\ lease' = IF outcome = "none" \/ inCall[c].at # "t1" THEN lease
                      ELSE [lease EXCEPT ![a] = NewLease(c)]
          /\ told' = IF outcome = "committed" THEN Promise(c) ELSE LostPromise(c)
          /\ inCall' = [inCall EXCEPT ![c] = IF outcome = "committed" THEN Continue(c) ELSE Idle]
          /\ Unlock(c)
          /\ UNCHANGED <<now, boundaries, calls>>
    BY <1>2 DEF CommitRow
  <2>2. leaseFaults' \in 0..MaxLeaseFaults
    BY <2>1, LeaseAssumption DEF IInv, TypeInv
  <2>3. /\ KeepsLocks(c)
        /\ lockP' \in [Attempts -> Somebody] /\ lockL' \in [Attempts -> Somebody]
    BY <2>1, UnlockKeepsOthers DEF IInv
  <2>4. CASE outcome = "none"
    BY <2>1, <2>2, <2>3, <2>4, GoIdle DEF LostPromise
  <2>5. CASE outcome # "none"
    <3> DEFINE at == inCall[c].at
               k == IF outcome = "committed" THEN Continue(c) ELSE Idle
    <3>a. /\ at \in {"t0", "t1", "inv"} /\ a \in Attempts /\ lockP[a] = c
          /\ at = "t0" => /\ prov[a].state = "AVAILABLE"
                          /\ inCall[c].op \in IssueOps \cup {"reserve"}
          /\ at = "t1" => prov[a].state = "RESERVED" /\ inCall[c].op \in IssueOps
          /\ at = "inv" => /\ prov[a].state = "RESERVED"
                           /\ inCall[c].op \in {"invalidate", "resolveReserved"}
      BY AttemptOf DEF CommitRow, IInv, RowCall
    <3>b. /\ r \in ProvenanceRows
          /\ at = "t0" => r.state = "RESERVED" /\ ~r.linked
          /\ at = "t1" => r.state = "CONSUMED" /\ r.linked
          /\ at = "inv" => r.state = "INVALIDATED" /\ ~r.linked
      BY <3>a, RowAfterFields
    <3>c. lease[a] = NoLease /\ lease[a].status = "NONE"
      BY <3>a, NoLeaseFields DEF IInv, ProvenanceMatchesLease
    <3>d. prov' = [prov EXCEPT ![a] = r] /\ prov'[a] = r
      BY <2>1, <2>5, <3>a DEF IInv, TypeInv
    <3>e. /\ at = "t1" => lease' = [lease EXCEPT ![a] = NewLease(c)] /\ lease'[a] = NewLease(c)
          /\ at # "t1" => lease' = lease
      BY <2>1, <2>5, <3>a DEF IInv, TypeInv
    <3>f. /\ told' \in [Attempts -> [consumed: Nat, ended: BOOLEAN, invalidated: BOOLEAN]]
          /\ at = "inv" => \A b \in Attempts :
               /\ told'[b].consumed = told[b].consumed /\ told'[b].ended = told[b].ended
               /\ b # a => told'[b].invalidated = told[b].invalidated
          /\ at # "inv" => told' = told
      <4>1. CASE at = "inv" /\ outcome = "committed"
        <5>1. told' = [told EXCEPT ![a].invalidated = TRUE]
          BY <2>1, <3>a, <4>1 DEF Promise
        <5> QED  BY <5>1, <4>1, <3>a DEF IInv, TypeInv
      <4>2. CASE ~(at = "inv" /\ outcome = "committed")
        <5>1. told' = told
          BY <2>1, <3>a, <4>2 DEF Promise, LostPromise, IssueOps
        <5> QED  BY <5>1, <4>2 DEF IInv, TypeInv
      <4> QED  BY <4>1, <4>2
    <3>g. /\ k \in CallStates /\ inCall'[c] = k
          /\ \/ k = Idle
             \/ k.at = "complete" /\ k.op \in IssueOps /\ k.a = a
             \/ k.at = "lock" /\ k.op = "issueAndActivate" /\ k.a = a /\ at = "t1"
      BY <2>1, <3>a, ContinueFields, IdleType DEF IInv, TypeInv
    <3>h. NewLease(c) \in LeaseRows /\ NewLease(c).status = "ISSUED"
      BY NewLeaseFields
    <3>1. TypeInv'
      <4>1. prov' \in [Attempts -> ProvenanceRows] /\ lease' \in [Attempts -> LeaseRows]
        BY <3>a, <3>b, <3>d, <3>e, <3>h DEF IInv, TypeInv
      <4>2. inCall' \in [Callers -> CallStates]
        BY <2>1, <3>g DEF IInv, TypeInv
      <4> QED  BY <2>1, <2>2, <2>3, <3>f, <4>1, <4>2 DEF IInv, TypeInv
    <3>2. KeepsCalls(c)
      BY <2>1 DEF IInv, TypeInv, KeepsCalls
    <3>3. RowCall(c)' /\ LeaseCall(c)'
      BY <3>a, <3>e, <3>g, <3>h DEF RowCall, LeaseCall, Idle
    <3>4. \A d \in Callers \ {c} : RowCall(d)'
      BY <2>3, <3>a, <3>b, <3>d, <3>2, OthersKeepRow
    <3>5. \A d \in Callers \ {c} : LeaseCall(d)'
      <4>1. CASE at = "t1"
        BY <2>1, <2>3, <3>a, <3>c, <3>e, <3>h, <3>2, <4>1, OthersKeepLease
      <4>2. CASE at # "t1"
        <5>1. now' = now /\ lease' = lease
          BY <2>1, <3>e, <4>2
        <5> QED  BY <5>1, <2>3, <3>2 DEF IInv, RowCall, LeaseCall, KeepsCalls, KeepsLocks
      <4> QED  BY <4>1, <4>2
    <3>6. TimeInv'
      BY <2>1, <3>a, <3>e, NewLeaseFields, NoLeaseFields DEF IInv, TypeInv, TimeInv
    <3>7. LifecycleFields'
      BY <3>a, <3>e, NewLeaseFields DEF IInv, TypeInv, LifecycleFields, Terminal
    <3>8. UsedInsideLife'
      <4>1. ASSUME at = "t1", NEW b \in boundaries PROVE b.a # a
        <5>1. b.granted <= now /\ lease[b.a].activated <= b.granted /\ now <= MaxTime
              /\ now \in Nat /\ b.granted \in Nat
          BY LeaseAssumption DEF IInv, TypeInv, TimeInv, UsedInsideLife
        <5>2. lease[a].activated = MaxTime + 1
          BY <3>c, NoLeaseFields DEF Never
        <5> QED  BY <5>1, <5>2, LeaseAssumption
      <4> QED  BY <2>1, <3>a, <3>e, <4>1, NewLeaseFields DEF IInv, TypeInv, UsedInsideLife
    <3>9. ProvenanceMatchesLease'
      BY <3>a, <3>b, <3>c, <3>d, <3>e, <3>h, NoLeaseFields
      DEF IInv, TypeInv, ProvenanceMatchesLease
    <3>10. PromisesKept'
      <4> SUFFICES ASSUME NEW b \in Attempts
                   PROVE  /\ told'[b].consumed <= 1
                          /\ told'[b].consumed = 1 => lease'[b].status = "CONSUMED"
                          /\ told'[b].ended => lease'[b].status \in {"EXPIRED", "REVOKED"}
                          /\ told'[b].invalidated =>
                               prov'[b].state = "INVALIDATED" /\ lease'[b] = NoLease
        BY DEF PromisesKept
      <4>1. /\ told[b].consumed <= 1
            /\ told[b].consumed = 1 => lease[b].status = "CONSUMED"
            /\ told[b].ended => lease[b].status \in {"EXPIRED", "REVOKED"}
            /\ told[b].invalidated => prov[b].state = "INVALIDATED" /\ lease[b] = NoLease
        BY DEF IInv, PromisesKept
      <4>2. CASE b # a
        <5>1. lease'[b] = lease[b] /\ prov'[b] = prov[b]
          BY <3>a, <3>d, <3>e, <4>2 DEF IInv, TypeInv
        <5> QED  BY <3>f, <4>1, <4>2, <5>1
      <4>3. CASE b = a
        BY <3>a, <3>b, <3>c, <3>d, <3>e, <3>f, <4>1, <4>3
      <4> QED  BY <4>2, <4>3
    <3> QED  BY <3>1, <3>3, <3>4, <3>5, <3>6, <3>7, <3>8, <3>9, <3>10 DEF IInv
  <2> QED  BY <2>4, <2>5
<1> QED  BY <1>1, <1>2

-----------------------------------------------------------------------------
(* What an operation may make of a lease *)

\* The fields that the lifecycle check of admission_leases relates.
Lifecycle(r) ==
    /\ r.status \in {"ISSUED", "EXPIRED"} => r.activated = Never
    /\ r.status \in {"ACTIVE", "QUARANTINE_PENDING", "QUARANTINED", "CONSUMED"}
           => r.activated # Never
    /\ (r.status \in Terminal) <=> (r.terminal # Never)
    /\ r.quarantined => r.status \in {"QUARANTINED", "REVOKED"}

\* r is a legal successor of the row: an ended row stays, the times are kept
\* or set once, to the present, and a use lies inside the life.
Follows(old, r) ==
    /\ r \in LeaseRows /\ r.status # "NONE"
    /\ old.status \in Terminal => r = old
    /\ r.expires = old.expires
    /\ r.activated = old.activated \/ (old.activated = Never /\ r.activated = now)
    /\ r.terminal = old.terminal \/ (old.terminal = Never /\ r.terminal = now)
    /\ Lifecycle(r)
    /\ r.used # Never => /\ r.status = "CONSUMED"
                         /\ r.activated <= r.used /\ r.used < r.expires

LEMMA NowIsATime ==
  ASSUME IInv
  PROVE  now \in 0..Never /\ now \in Nat /\ now # Never /\ now < Never
BY LeaseAssumption DEF IInv, TypeInv, Never

\* What the invariant says of one lease.
LEMMA RowFacts ==
  ASSUME IInv, NEW a \in Attempts, lease[a].status # "NONE"
  PROVE  Lifecycle(lease[a]) /\ Follows(lease[a], lease[a])
<1>1. Lifecycle(lease[a]) /\ lease[a] \in LeaseRows
  BY DEF IInv, TypeInv, LifecycleFields, Lifecycle
<1>2. lease[a].used # Never => /\ lease[a].status = "CONSUMED"
                               /\ lease[a].activated <= lease[a].used
                               /\ lease[a].used < lease[a].expires
  BY DEF IInv, TimeInv, UsedInsideLife
<1> QED  BY <1>1, <1>2 DEF Follows

\* A lease may end, as EXPIRED only when it was never active.
LEMMA EndedFollows ==
  ASSUME IInv, NEW a \in Attempts, lease[a].status \in Live \cup {"QUARANTINED"},
         NEW s \in {"EXPIRED", "REVOKED"}, s = "EXPIRED" => lease[a].status = "ISSUED"
  PROVE  Follows(lease[a], Ended(lease[a], s)) /\ Ended(lease[a], s).status = s
<1> DEFINE old == lease[a]
           r == Ended(old, s)
<1>1. old.status # "NONE" /\ old.status \notin Terminal
  BY DEF Live, Terminal
<1>2. Lifecycle(old) /\ Follows(old, old)
  BY <1>1, RowFacts
<1>3. old \in LeaseRows /\ s \in Statuses /\ now \in 0..Never /\ now # Never
  BY <1>2, NowIsATime DEF Follows, Statuses, Terminal
<1>4. r \in LeaseRows
  BY <1>3 DEF Ended, LeaseRows
<1>5. /\ r.status = s /\ r.terminal = now /\ r.activated = old.activated
      /\ r.expires = old.expires /\ r.used = old.used /\ r.quarantined = old.quarantined
  BY <1>3 DEF Ended, LeaseRows
<1>6. old.terminal = Never /\ old.used = Never
  BY <1>1, <1>2 DEF Lifecycle, Follows, Terminal
<1>7. old.status = "ISSUED" => old.activated = Never /\ ~old.quarantined
  BY <1>2, <1>3 DEF Lifecycle, LeaseRows
<1>8. old.quarantined => old.status = "QUARANTINED"
  BY <1>1, <1>2 DEF Lifecycle, Terminal
<1>9. Lifecycle(r)
  BY <1>2, <1>3, <1>5, <1>7, <1>8 DEF Lifecycle, Terminal
<1> QED  BY <1>1, <1>4, <1>5, <1>6, <1>9 DEF Follows, Terminal

LEMMA LapsedFollows ==
  ASSUME IInv, NEW a \in Attempts, lease[a].status \in Live \cup {"QUARANTINED"}
  PROVE  /\ Follows(lease[a], Lapsed(lease[a]))
         /\ Lapsed(lease[a]).status \in {"EXPIRED", "REVOKED"}
BY EndedFollows DEF Lapsed

\* What a call before its commit knows of the lease it has locked.
LEMMA AtWrite ==
  ASSUME IInv, NEW c \in Callers, inCall[c].at = "write"
  PROVE  LET a == inCall[c].a IN
         /\ a \in Attempts /\ lease[a] \in LeaseRows /\ inCall[c] \in CallStates
         /\ inCall[c].op \in LeaseOps \cup {"issueAndActivate"}
         /\ lease[a].status # "NONE" /\ lockL[a] = c
         /\ inCall[c].seen = lease[a].status
         /\ lease[a].status \in Demanded(inCall[c].op)
         /\ inCall[c].op # "recover" =>
              /\ inCall[c].clk <= now
              /\ lease[a].activated # Never => lease[a].activated <= inCall[c].clk
<1>1. inCall[c].a \in Attempts
  BY AttemptOf
<1> QED  BY <1>1 DEF IInv, TypeInv, LeaseCall

\* The decision of an operation is a legal successor of the lease, and what it
\* answers is true of it.
Decided(c) == LET old == lease[inCall[c].a]
                  d == Decision(c) IN
    /\ Follows(old, d.row)
    /\ d.ok /\ inCall[c].op = "consume" => old.status = "ACTIVE" /\ d.row.status = "CONSUMED"
    /\ d.ok /\ inCall[c].op \in {"revoke", "recover"} =>
         old.status \notin Terminal /\ d.row.status \in {"EXPIRED", "REVOKED"}
    /\ inCall[c].op = "boundary" => d.row = old

LEMMA ActivateDecided ==
  ASSUME IInv, NEW c \in Callers, inCall[c].at = "write", inCall[c].op = "issueAndActivate"
  PROVE  Decided(c)
<1> DEFINE a == inCall[c].a
           old == lease[a]
           r == [old EXCEPT !.status = "ACTIVE", !.activated = now]
<1>1. a \in Attempts /\ old \in LeaseRows /\ old.status = "ISSUED"
  BY AtWrite DEF Demanded
<1>2. Decision(c) = Activate(c)
  BY DEF Decision
<1>3. Follows(old, old) /\ Lifecycle(old)
  BY <1>1, RowFacts
<1>4. Follows(old, Ended(old, "EXPIRED"))
  BY <1>1, EndedFollows DEF Live
<1>5. Follows(old, r)
  <2>1. now \in 0..Never /\ now # Never
    BY NowIsATime
  <2>2. r \in LeaseRows
    BY <1>1, <2>1 DEF LeaseRows, Statuses, Live
  <2>3. /\ r.status = "ACTIVE" /\ r.activated = now /\ r.terminal = old.terminal
        /\ r.expires = old.expires /\ r.used = old.used /\ r.quarantined = old.quarantined
    BY <1>1 DEF LeaseRows
  <2>4. old.activated = Never /\ old.terminal = Never /\ old.used = Never /\ ~old.quarantined
    BY <1>1, <1>3 DEF Lifecycle, Follows, Terminal
  <2> QED  BY <1>1, <2>1, <2>2, <2>3, <2>4 DEF Follows, Lifecycle, Terminal
<1>6. Activate(c).row \in {old, r, Ended(old, "EXPIRED")}
  BY DEF Activate
<1> QED  BY <1>2, <1>3, <1>4, <1>5, <1>6 DEF Decided

LEMMA ConsumeDecided ==
  ASSUME IInv, NEW c \in Callers, inCall[c].at = "write", inCall[c].op = "consume"
  PROVE  Decided(c)
<1> DEFINE a == inCall[c].a
           old == lease[a]
           k == inCall[c]
           r == [Ended(old, "CONSUMED") EXCEPT !.used = k.clk]
<1>1. /\ a \in Attempts /\ old \in LeaseRows /\ old.status = "ACTIVE"
      /\ k.clk \in Nat /\ k.clk <= now
      /\ old.activated # Never => old.activated <= k.clk
  BY AtWrite DEF Demanded, CallStates
<1>2. Decision(c) = ConsumeLease(c)
  BY DEF Decision
<1>3. Follows(old, old) /\ Lifecycle(old)
  BY <1>1, RowFacts
<1>4. Follows(old, Ended(old, "REVOKED"))
  BY <1>1, EndedFollows DEF Live
<1>5. CASE Expired(c)
  <2>1. ConsumeLease(c) = [ok |-> FALSE, row |-> Ended(old, "REVOKED")]
    BY <1>1, <1>5 DEF ConsumeLease
  <2> QED  BY <1>2, <1>4, <2>1 DEF Decided
<1>6. CASE ~Expired(c)
  <2>1. old.expires > k.clk
    BY <1>1, <1>6 DEF Expired, LeaseRows
  <2>2. ConsumeLease(c) = [ok |-> TRUE, row |-> r]
    BY <1>1, <1>6, <2>1 DEF ConsumeLease
  <2>3. now \in 0..Never /\ now # Never
    BY NowIsATime
  <2>4. r \in LeaseRows
    BY <1>1, <2>3 DEF Ended, LeaseRows, Statuses, Terminal
  <2>5. /\ r.status = "CONSUMED" /\ r.terminal = now /\ r.activated = old.activated
        /\ r.expires = old.expires /\ r.used = k.clk /\ r.quarantined = old.quarantined
    BY <1>1 DEF Ended, LeaseRows
  <2>6. old.activated # Never /\ old.terminal = Never /\ ~old.quarantined
    BY <1>1, <1>3 DEF Lifecycle, Terminal
  <2>7. Follows(old, r)
    BY <1>1, <2>1, <2>3, <2>4, <2>5, <2>6 DEF Follows, Lifecycle, Terminal
  <2> HIDE DEF r
  <2> QED  BY <1>1, <1>2, <2>2, <2>5, <2>7 DEF Decided
<1> QED  BY <1>5, <1>6

LEMMA TransitionDecided ==
  ASSUME IInv, NEW c \in Callers, inCall[c].at = "write",
         inCall[c].op \in {"revoke", "begin", "quarantine"}
  PROVE  Decided(c)
<1> DEFINE a == inCall[c].a
           old == lease[a]
           from == CASE inCall[c].op = "revoke" -> Live
                     [] inCall[c].op = "begin" -> {"ACTIVE"}
                     [] OTHER -> {"QUARANTINE_PENDING"}
           to == CASE inCall[c].op = "revoke" -> "REVOKED"
                     [] inCall[c].op = "begin" -> "QUARANTINE_PENDING"
                     [] OTHER -> "QUARANTINED"
           r == [old EXCEPT !.status = to, !.quarantined = (to = "QUARANTINED")]
           d == TransitionLease(c, from, to)
<1>1. /\ a \in Attempts /\ old \in LeaseRows /\ old.status # "NONE"
      /\ inCall[c].seen = old.status
  BY AtWrite
<1>2. Decision(c) = d
  BY DEF Decision
<1>3. Follows(old, old) /\ Lifecycle(old)
  BY <1>1, RowFacts
<1>4. CASE old.status \in Live /\ Expired(c)
  <2>1. d = [ok |-> FALSE, row |-> Lapsed(old)]
    BY <1>1, <1>4 DEF TransitionLease
  <2>2. Follows(old, Lapsed(old))
    BY <1>1, <1>4, LapsedFollows
  <2> HIDE DEF d
  <2> QED  BY <1>2, <2>1, <2>2 DEF Decided
<1>5. CASE ~(old.status \in Live /\ Expired(c)) /\ old.status \notin from
  <2>1. d.ok = FALSE /\ d.row = old
    BY <1>1, <1>5 DEF TransitionLease
  <2> QED  BY <1>2, <1>3, <2>1 DEF Decided
<1>6. CASE ~(old.status \in Live /\ Expired(c)) /\ old.status \in from
  <2>1. old.status \in Live /\ old.status \notin Terminal
    BY <1>6 DEF Live, Terminal
  <2>2. CASE inCall[c].op = "revoke"
    <3>1. d.row = Ended(old, "REVOKED")
      BY <1>1, <1>6, <2>1, <2>2 DEF TransitionLease
    <3> QED  BY <1>1, <1>2, <2>1, <2>2, <3>1, EndedFollows DEF Decided
  <2>3. CASE inCall[c].op # "revoke"
    <3>1. d.row = r
      BY <1>1, <1>6, <2>1, <2>3 DEF TransitionLease
    <3>2. to \in {"QUARANTINE_PENDING", "QUARANTINED"} /\ old.status \in {"ACTIVE", "QUARANTINE_PENDING"}
      BY <1>6, <2>3
    <3>3. r \in LeaseRows
      BY <1>1, <3>2 DEF LeaseRows, Statuses, Live
    <3>4. /\ r.status = to /\ r.terminal = old.terminal /\ r.activated = old.activated
          /\ r.expires = old.expires /\ r.used = old.used
          /\ r.quarantined = (to = "QUARANTINED")
      BY <1>1 DEF LeaseRows
    <3>5. old.activated # Never /\ old.terminal = Never /\ old.used = Never
      BY <1>3, <3>2 DEF Lifecycle, Follows, Terminal
    <3>6. Follows(old, r)
      BY <2>1, <3>2, <3>3, <3>4, <3>5 DEF Follows, Lifecycle, Terminal
    <3> QED  BY <1>2, <2>3, <3>1, <3>6 DEF Decided
  <2> QED  BY <2>2, <2>3
<1> QED  BY <1>4, <1>5, <1>6

LEMMA DecisionFollows ==
  ASSUME IInv, NEW c \in Callers, inCall[c].at = "write"
  PROVE  Decided(c)
<1> DEFINE a == inCall[c].a
           old == lease[a]
<1>1. /\ a \in Attempts /\ old.status # "NONE" /\ old.status \in Demanded(inCall[c].op)
      /\ inCall[c].op \in LeaseOps \cup {"issueAndActivate"}
  BY AtWrite
<1>2. Follows(old, old)
  BY <1>1, RowFacts
<1>3. CASE inCall[c].op = "inspect"
  <2>1. Decision(c) = InspectLease(c)
    BY <1>3 DEF Decision
  <2> QED  BY <1>1, <1>2, <1>3, <2>1, LapsedFollows DEF Decided, InspectLease
<1>4. CASE inCall[c].op = "recover"
  <2>1. Decision(c) = [ok |-> TRUE, row |-> Lapsed(old)]
    BY <1>4 DEF Decision, RecoverLease
  <2>2. old.status \in Live \cup {"QUARANTINED"} /\ old.status \notin Terminal
    BY <1>1, <1>4 DEF Demanded, Live, Terminal
  <2> QED  BY <1>1, <1>4, <2>1, <2>2, LapsedFollows DEF Decided
<1>5. CASE inCall[c].op = "boundary"
  <2>1. Decision(c) = [ok |-> MayGrant(c), row |-> old]
    BY <1>5 DEF Decision
  <2> QED  BY <1>2, <1>5, <2>1 DEF Decided
<1> QED
  BY <1>1, <1>3, <1>4, <1>5, ActivateDecided, ConsumeDecided, TransitionDecided DEF LeaseOps

-----------------------------------------------------------------------------
(* The commit of an operation on a lease *)

LEMMA AfterLeaseFields ==
  ASSUME IInv, NEW c \in Callers, inCall[c].at = "write"
  PROVE  LET k == AfterLease(c) IN
         /\ k \in CallStates
         /\ k = Idle \/ (k.at = "lock" /\ k.op = "inspect" /\ k.a = inCall[c].a)
<1> DEFINE a == inCall[c].a
<1>1. a \in Attempts
  BY AtWrite
<1>2. [Idle EXCEPT !.op = "inspect", !.a = a, !.at = "lock"] \in CallStates
  BY <1>1, IdleType DEF CallStates, Places, LeaseOps
<1> QED  BY <1>1, <1>2, IdleType DEF AfterLease, CallStates

\* What a nil answer adds to the promises.
LEMMA ToldAfter ==
  ASSUME IInv, NEW c \in Callers, inCall[c].at = "write", told' \in {told, Promise(c)}
  PROVE  LET a == inCall[c].a IN
         /\ told' \in [Attempts -> [consumed: Nat, ended: BOOLEAN, invalidated: BOOLEAN]]
         /\ \A b \in Attempts \ {a} : told'[b] = told[b]
         /\ told'[a].invalidated = told[a].invalidated
         /\ told'[a].consumed \in {told[a].consumed, told[a].consumed + 1}
         /\ told'[a].consumed # told[a].consumed => inCall[c].op = "consume" /\ told' # told
         /\ told'[a].ended # told[a].ended => inCall[c].op \in {"revoke", "recover"} /\ told' # told
<1> DEFINE a == inCall[c].a
<1>1. /\ a \in Attempts /\ inCall[c].op \in LeaseOps \cup {"issueAndActivate"}
      /\ told \in [Attempts -> [consumed: Nat, ended: BOOLEAN, invalidated: BOOLEAN]]
  BY AtWrite DEF IInv, TypeInv
<1>2. CASE told' = told
  BY <1>1, <1>2
<1>3. CASE told' = Promise(c) /\ inCall[c].op = "consume"
  <2>1. told' = [told EXCEPT ![a].consumed = @ + 1]
    BY <1>3 DEF Promise
  <2> QED  BY <1>1, <1>3, <2>1
<1>4. CASE told' = Promise(c) /\ inCall[c].op \in {"revoke", "recover"}
  <2>1. told' = [told EXCEPT ![a].ended = TRUE]
    BY <1>4 DEF Promise
  <2> QED  BY <1>1, <1>4, <2>1
<1>5. CASE told' = Promise(c) /\ inCall[c].op \notin {"consume", "revoke", "recover"}
  BY <1>1, <1>2, <1>5 DEF Promise, LeaseOps
<1> QED  BY <1>2, <1>3, <1>4, <1>5

LEMMA CommitLeasePreserves ==
  ASSUME IInv, NEW c \in Callers, CommitLease(c)
  PROVE  IInv'
<1> DEFINE a == inCall[c].a
           d == Decision(c)
           old == lease[a]
<1>a. /\ inCall[c].at = "write" /\ a \in Attempts /\ old \in LeaseRows /\ old.status # "NONE"
      /\ lockL[a] = c /\ inCall[c].seen = old.status /\ inCall[c] \in CallStates
      /\ inCall[c].op # "recover" =>
           /\ inCall[c].clk <= now
           /\ old.activated # Never => old.activated <= inCall[c].clk
  BY AtWrite DEF CommitLease
<1>b. Decided(c) /\ Lifecycle(old)
  BY <1>a, DecisionFollows, RowFacts
<1>1. PICK outcome \in {"committed", "lost", "none"} :
       /\ outcome # "committed" => leaseFaults < MaxLeaseFaults
       /\ leaseFaults' = IF outcome = "committed" THEN leaseFaults ELSE leaseFaults + 1
       /\ lease' = IF outcome = "none" THEN lease ELSE [lease EXCEPT ![a] = d.row]
       /\ boundaries' = IF outcome = "none" THEN boundaries
                        ELSE boundaries \cup Granted(c)
       /\ told' = CASE ~d.ok -> told
                    [] d.ok /\ outcome = "committed" -> Promise(c)
                    [] OTHER -> LostPromise(c)
       /\ inCall' = [inCall EXCEPT ![c] =
                      IF d.ok /\ outcome = "committed" THEN AfterLease(c) ELSE Idle]
       /\ Unlock(c)
       /\ UNCHANGED <<now, prov, calls>>
  BY DEF CommitLease
<1> HIDE DEF d
<1>2. leaseFaults' \in 0..MaxLeaseFaults
  BY <1>1, LeaseAssumption DEF IInv, TypeInv
<1>3. /\ KeepsLocks(c)
      /\ lockP' \in [Attempts -> Somebody] /\ lockL' \in [Attempts -> Somebody]
  BY <1>1, UnlockKeepsOthers DEF IInv
<1>4. told' \in {told, Promise(c)} /\ (told' # told => d.ok /\ outcome = "committed")
  BY <1>1 DEF LostPromise
<1>5. CASE outcome = "none"
  <2>1. told' = told /\ inCall' = [inCall EXCEPT ![c] = Idle] /\ lease' = lease
        /\ boundaries' = boundaries
    BY <1>1, <1>4, <1>5
  <2> QED  BY <1>1, <1>2, <1>3, <2>1, GoIdle
<1>6. CASE outcome # "none"
  <2> DEFINE k == IF d.ok /\ outcome = "committed" THEN AfterLease(c) ELSE Idle
             r == d.row
  <2>a. lease' = [lease EXCEPT ![a] = r] /\ lease'[a] = r
    BY <1>1, <1>6, <1>a DEF IInv, TypeInv
  <2>b. Follows(old, r)
    BY <1>b DEF Decided, d
  <2>c. /\ r \in LeaseRows /\ r.status # "NONE"
        /\ old.status \in Terminal => r = old
        /\ r.expires = old.expires
        /\ r.activated = old.activated \/ (old.activated = Never /\ r.activated = now)
        /\ r.terminal = old.terminal \/ (old.terminal = Never /\ r.terminal = now)
        /\ Lifecycle(r)
        /\ r.used # Never => /\ r.status = "CONSUMED"
                             /\ r.activated <= r.used /\ r.used < r.expires
    BY <2>b DEF Follows
  <2>d. /\ k \in CallStates /\ inCall'[c] = k
        /\ k = Idle \/ (k.at = "lock" /\ k.op = "inspect" /\ k.a = a)
    BY <1>1, <1>a, AfterLeaseFields, IdleType DEF IInv, TypeInv
  <2>e. now \in Nat /\ now \in 0..Never /\ now < Never /\ Never \in Nat
    BY NowIsATime, LeaseAssumption DEF Never
  <2>1. TypeInv'
    <3>1. lease' \in [Attempts -> LeaseRows] /\ inCall' \in [Callers -> CallStates]
      BY <1>1, <2>a, <2>c, <2>d DEF IInv, TypeInv
    <3>2. boundaries' \subseteq [a: Attempts, started: Nat, expires: Nat, granted: Nat]
      <4>1. /\ inCall[c].grant.started \in Nat /\ inCall[c].grant.expires \in Nat
            /\ inCall[c].clk \in Nat
        BY <1>a DEF CallStates
      <4>2. Granted(c) \subseteq [a: Attempts, started: Nat, expires: Nat, granted: Nat]
        BY <1>a, <4>1 DEF Granted
      <4> QED  BY <1>1, <1>6, <4>2 DEF IInv, TypeInv
    <3>3. told' \in [Attempts -> [consumed: Nat, ended: BOOLEAN, invalidated: BOOLEAN]]
      BY <1>a, <1>4, ToldAfter
    <3> QED  BY <1>1, <1>2, <1>3, <3>1, <3>2, <3>3 DEF IInv, TypeInv
  <2>2. KeepsCalls(c)
    BY <1>1 DEF IInv, TypeInv, KeepsCalls
  <2>3. RowCall(c)' /\ LeaseCall(c)'
    <3>1. CASE inCall'[c] = Idle
      BY <3>1 DEF RowCall, LeaseCall, Idle
    <3>2. CASE inCall'[c].at = "lock" /\ inCall'[c].op = "inspect" /\ inCall'[c].a = a
      BY <3>2, <1>a, <2>a, <2>c DEF RowCall, LeaseCall, LeaseOps
    <3> HIDE DEF k
    <3> QED  BY <3>1, <3>2, <2>d
  <2>4. \A e \in Callers \ {c} : LeaseCall(e)'
    BY <1>1, <1>3, <1>a, <2>a, <2>c, <2>2, OthersKeepLease
  <2>5. \A e \in Callers \ {c} : RowCall(e)'
    <3>1. prov' = prov
      BY <1>1
    <3> QED  BY <3>1, <1>3, <2>2 DEF IInv, RowCall, KeepsCalls, KeepsLocks
  <2>6. TimeInv'
    <3>1. ASSUME NEW b \in Attempts
          PROVE  /\ lease'[b].status = "NONE" <=> lease'[b] = NoLease
                 /\ lease'[b].activated # Never => lease'[b].activated <= now
                 /\ lease'[b].used # Never => lease'[b].status = "CONSUMED"
      <4>1. CASE b = a
        BY <4>1, <1>a, <2>a, <2>c, <2>e, NoLeaseFields DEF IInv, TimeInv
      <4>2. CASE b # a
        BY <4>2, <1>a, <2>a DEF IInv, TypeInv, TimeInv
      <4> QED  BY <4>1, <4>2
    <3>2. ASSUME NEW b \in boundaries' PROVE b.granted <= now
      BY <1>1, <1>6, <1>a DEF IInv, TimeInv, Granted
    <3>3. now' = now
      BY <1>1
    <3> QED  BY <3>1, <3>2, <3>3 DEF TimeInv
  <2>7. LifecycleFields'
    BY <1>a, <2>a, <2>c DEF IInv, TypeInv, LifecycleFields, Lifecycle
  <2>8. UsedInsideLife'
    <3>1. ASSUME NEW b \in Attempts, lease'[b].used # Never
          PROVE  lease'[b].activated <= lease'[b].used /\ lease'[b].used < lease'[b].expires
      BY <3>1, <1>a, <2>a, <2>c DEF IInv, TypeInv, UsedInsideLife
    <3>2. ASSUME NEW b \in boundaries'
          PROVE  /\ lease'[b.a].activated <= b.granted
                 /\ b.granted < lease'[b.a].expires
                 /\ b.granted <= lease'[b.a].terminal
                 /\ b.started <= b.granted
                 /\ b.expires <= lease'[b.a].expires
      <4>1. CASE b \in boundaries
        <5>1. /\ b.a \in Attempts /\ b.granted \in Nat /\ b.granted <= now
              /\ lease[b.a].activated <= b.granted
              /\ b.granted < lease[b.a].expires
              /\ b.granted <= lease[b.a].terminal
              /\ b.started <= b.granted
              /\ b.expires <= lease[b.a].expires
          BY <4>1 DEF IInv, TypeInv, TimeInv, UsedInsideLife
        <5>2. CASE b.a = a
          <6>1. old.activated # Never
            BY <5>1, <5>2, <2>e
          <6> QED  BY <5>1, <5>2, <6>1, <2>a, <2>c
        <5>3. CASE b.a # a
          BY <5>1, <5>3, <1>a, <2>a DEF IInv, TypeInv
        <5> QED  BY <5>2, <5>3
      <4>2. CASE b \notin boundaries
        <5>1. /\ inCall[c].op = "boundary" /\ MayGrant(c) /\ b.a = a
              /\ b.started = inCall[c].grant.started /\ b.expires = inCall[c].grant.expires
              /\ b.granted = inCall[c].clk
          BY <4>2, <1>1, <1>6 DEF Granted
        <5>2. r = old
          BY <1>b, <5>1 DEF Decided, d
        <5>3. old.status = "ACTIVE" /\ old.activated # Never /\ old.terminal = Never
          BY <5>1, <1>a, <1>b DEF MayGrant, Lifecycle, Terminal
        <5>4. inCall[c].clk \in Nat /\ old.expires \in Nat
          BY <1>a DEF CallStates, LeaseRows
        <5>5. /\ old.expires > inCall[c].clk
              /\ inCall[c].grant.started <= inCall[c].clk
              /\ inCall[c].grant.expires <= old.expires
          BY <5>1, <5>4 DEF MayGrant, Expired
        <5> QED  BY <1>a, <2>a, <2>e, <5>1, <5>2, <5>3, <5>4, <5>5
      <4> QED  BY <4>1, <4>2
    <3> QED  BY <3>1, <3>2 DEF UsedInsideLife
  <2>9. ProvenanceMatchesLease'
    BY <1>1, <1>a, <2>a, <2>c, NoLeaseFields DEF IInv, TypeInv, ProvenanceMatchesLease
  <2>10. PromisesKept'
    <3> SUFFICES ASSUME NEW b \in Attempts
                 PROVE  /\ told'[b].consumed <= 1
                        /\ told'[b].consumed = 1 => lease'[b].status = "CONSUMED"
                        /\ told'[b].ended => lease'[b].status \in {"EXPIRED", "REVOKED"}
                        /\ told'[b].invalidated =>
                             prov'[b].state = "INVALIDATED" /\ lease'[b] = NoLease
      BY DEF PromisesKept
    <3>1. /\ told[b].consumed <= 1 /\ told[b].consumed \in Nat
          /\ told[b].consumed = 1 => lease[b].status = "CONSUMED"
          /\ told[b].ended => lease[b].status \in {"EXPIRED", "REVOKED"}
          /\ told[b].invalidated => prov[b].state = "INVALIDATED" /\ lease[b] = NoLease
          /\ prov'[b] = prov[b]
      BY <1>1 DEF IInv, TypeInv, PromisesKept
    <3>2. CASE b # a
      <4>1. lease'[b] = lease[b] /\ told'[b] = told[b]
        BY <3>2, <1>a, <1>4, <2>a, ToldAfter DEF IInv, TypeInv
      <4> QED  BY <3>1, <4>1
    <3>3. CASE b = a
      <4>1. /\ told'[a].invalidated = told[a].invalidated
            /\ told'[a].consumed \in {told[a].consumed, told[a].consumed + 1}
            /\ told'[a].consumed # told[a].consumed => inCall[c].op = "consume" /\ d.ok
            /\ told'[a].ended # told[a].ended => inCall[c].op \in {"revoke", "recover"} /\ d.ok
        BY <1>a, <1>4, ToldAfter
      <4>2. /\ d.ok /\ inCall[c].op = "consume" => old.status = "ACTIVE" /\ r.status = "CONSUMED"
            /\ d.ok /\ inCall[c].op \in {"revoke", "recover"} =>
                 old.status \notin Terminal /\ r.status \in {"EXPIRED", "REVOKED"}
        BY <1>b DEF Decided, d
      <4>3. ~told[a].invalidated
        BY <3>1, <3>3, <1>a, NoLeaseFields
      <4> QED  BY <3>1, <3>3, <4>1, <4>2, <4>3, <2>a, <2>c DEF Terminal
    <3> QED  BY <3>2, <3>3
  <2> QED  BY <2>1, <2>3, <2>4, <2>5, <2>6, <2>7, <2>8, <2>9, <2>10 DEF IInv
<1> QED  BY <1>5, <1>6

-----------------------------------------------------------------------------
(* Every step *)

LEMMA NextSafe == IInv /\ [LeaseNext]_leaseVars => IInv'
<1> SUFFICES ASSUME IInv, [LeaseNext]_leaseVars PROVE IInv'
  OBVIOUS
<1>1. ASSUME NEW c \in Callers, StartIssue(c) \/ StartRow(c) \/ StartLease(c) PROVE IInv'
  BY <1>1, StartPreserves
<1>2. ASSUME NEW c \in Callers, Record(c) PROVE IInv'
  BY <1>2, RecordPreserves
<1>3. ASSUME NEW c \in Callers, ResolveProvenance(c) PROVE IInv'
  BY <1>3, ResolveProvenancePreserves
<1>4. ASSUME NEW c \in Callers, Reserve(c) \/ CompleteIssue(c) \/ Invalidate(c) PROVE IInv'
  BY <1>4, RowLocksPreserve
<1>5. ASSUME NEW c \in Callers, CommitRow(c) PROVE IInv'
  BY <1>5, CommitRowPreserves
<1>6. ASSUME NEW c \in Callers, LockLease(c) PROVE IInv'
  BY <1>6, LockLeasePreserves
<1>7. ASSUME NEW c \in Callers, ReadClock(c) PROVE IInv'
  BY <1>7, ReadClockPreserves
<1>8. ASSUME NEW c \in Callers, CommitLease(c) PROVE IInv'
  BY <1>8, CommitLeasePreserves
<1>9. ASSUME NEW c \in Callers, CallFails(c) PROVE IInv'
  BY <1>9, CallFailsPreserves
<1>10. CASE Tick
  BY <1>10, TickPreserves
<1>11. CASE UNCHANGED leaseVars
  <2>1. /\ now' = now /\ prov' = prov /\ lease' = lease /\ boundaries' = boundaries
        /\ lockP' = lockP /\ lockL' = lockL /\ inCall' = inCall /\ told' = told
        /\ leaseFaults' = leaseFaults
    BY <1>11 DEF leaseVars
  <2>2. TypeInv' /\ TimeInv'
    BY <2>1 DEF IInv, TypeInv, TimeInv
  <2>3. \A c \in Callers : RowCall(c)' /\ LeaseCall(c)'
    BY <2>1 DEF IInv, RowCall, LeaseCall
  <2>4. ProvenanceMatchesLease' /\ LifecycleFields' /\ UsedInsideLife' /\ PromisesKept'
    BY <2>1 DEF IInv, ProvenanceMatchesLease, LifecycleFields, UsedInsideLife, PromisesKept
  <2> QED  BY <2>2, <2>3, <2>4 DEF IInv
<1> QED
  BY <1>1, <1>2, <1>3, <1>4, <1>5, <1>6, <1>7, <1>8, <1>9, <1>10, <1>11 DEF LeaseNext, StepOf

\* The invariant holds in every reachable state.
THEOREM LeaseInvariance == LeaseSpec => []IInv
BY InitSafe, NextSafe, PTL DEF LeaseSpec

\* For any callers, lifetimes and faults a lease exists exactly with its
\* consumed provenance, every row fits the lifecycle check of the table, a
\* lease is used and a boundary granted only inside its life, and what a nil
\* error promised stays true.
THEOREM LeaseStaysTrue == LeaseSpec => []LeaseIsTrue
<1>1. IInv => LeaseTypeOK
  <2> SUFFICES ASSUME IInv PROVE LeaseTypeOK
    OBVIOUS
  <2>1. /\ now \in 0..MaxTime /\ leaseFaults \in 0..MaxLeaseFaults
        /\ prov \in [Attempts -> [state: {"NONE", "AVAILABLE", "RESERVED", "CONSUMED",
                                          "INVALIDATED"},
                                  issue: Callers \cup {NoCaller}, linked: BOOLEAN]]
    BY DEF IInv, TypeInv, ProvenanceRows, Somebody
  <2>2. ASSUME NEW a \in Attempts
        PROVE  /\ lease[a].status \in Live \cup Terminal \cup {"NONE", "QUARANTINED"}
               /\ lease[a].issued \in 0..Never
               /\ lease[a].verifier \in Callers \cup {NoCaller}
               /\ lockP[a] \in Callers \cup {NoCaller}
               /\ lockL[a] \in Callers \cup {NoCaller}
    BY DEF IInv, TypeInv, LeaseRows, Statuses, Somebody
  <2>3. ASSUME NEW c \in Callers
        PROVE  /\ inCall[c].at \in {"t0", "t1", "inv"} => lockP[inCall[c].a] = c
               /\ inCall[c].at \in {"clock", "write"} => lockL[inCall[c].a] = c
    BY DEF IInv, RowCall, LeaseCall
  <2> QED  BY <2>1, <2>2, <2>3 DEF LeaseTypeOK
<1>2. IInv => LeaseIsTrue
  BY <1>1 DEF IInv, LeaseIsTrue
<1> QED  BY <1>2, LeaseInvariance, PTL

\* A step that leaves the committed rows alone leaves the ended ones.
LEMMA UnwrittenStays ==
  ASSUME UNCHANGED <<prov, lease>>
  PROVE  EndedStays
BY DEF EndedStays

LEMMA EndedKept ==
  ASSUME IInv, LeaseNext
  PROVE  EndedStays
<1>1. ASSUME NEW c \in Callers, Record(c) PROVE EndedStays
  <2>1. CASE prov[inCall[c].a] # NoProvenance
    BY <1>1, <2>1, UnwrittenStays DEF Record, Refuse
  <2>2. CASE prov[inCall[c].a] = NoProvenance
    <3>1. /\ prov' = [prov EXCEPT ![inCall[c].a] = [NoProvenance EXCEPT !.state = "AVAILABLE"]]
          /\ lease' = lease
      BY <1>1, <2>2 DEF Record
    <3>2. prov[inCall[c].a].state = "NONE"
      BY <2>2 DEF NoProvenance
    <3> QED  BY <3>1, <3>2 DEF IInv, TypeInv, EndedStays
  <2> QED  BY <2>1, <2>2
<1>2. ASSUME NEW c \in Callers, CommitRow(c) PROVE EndedStays
  <2> DEFINE a == inCall[c].a
  <2>1. /\ a \in Attempts /\ prov[a].state \in {"AVAILABLE", "RESERVED"}
    BY <1>2, AttemptOf DEF CommitRow, IInv, RowCall
  <2>2. lease[a].status = "NONE"
    BY <2>1, NoLeaseFields DEF IInv, ProvenanceMatchesLease
  <2>3. /\ \A b \in Attempts \ {a} : prov'[b] = prov[b] /\ lease'[b] = lease[b]
    <3>1. CASE inCall[c].at = "t1" /\ ~LeaseUnique(a)
      BY <1>2, <3>1 DEF CommitRow, Refuse
    <3>2. CASE ~(inCall[c].at = "t1" /\ ~LeaseUnique(a))
      <4>1. /\ prov' = prov \/ prov' = [prov EXCEPT ![a] = RowAfter(c)]
            /\ lease' = lease \/ lease' = [lease EXCEPT ![a] = NewLease(c)]
        BY <1>2, <3>2 DEF CommitRow
      <4> QED  BY <4>1 DEF IInv, TypeInv
    <3> QED  BY <3>1, <3>2
  <2> QED  BY <2>1, <2>2, <2>3 DEF EndedStays, Terminal
<1>3. ASSUME NEW c \in Callers, CommitLease(c) PROVE EndedStays
  <2> DEFINE a == inCall[c].a
  <2>1. Follows(lease[a], Decision(c).row)
    BY <1>3, DecisionFollows DEF CommitLease, Decided
  <2>2. /\ prov' = prov
        /\ lease' = lease \/ lease' = [lease EXCEPT ![a] = Decision(c).row]
    BY <1>3 DEF CommitLease
  <2> QED  BY <2>1, <2>2 DEF IInv, TypeInv, EndedStays, Follows
<1>4. ASSUME NEW c \in Callers,
             \/ StartIssue(c) \/ StartRow(c) \/ StartLease(c) \/ ResolveProvenance(c)
             \/ Reserve(c) \/ CompleteIssue(c) \/ Invalidate(c) \/ LockLease(c)
             \/ ReadClock(c) \/ CallFails(c)
      PROVE  EndedStays
  <2>1. UNCHANGED <<prov, lease>>
    BY <1>4 DEF StartIssue, StartRow, StartLease, BeginCall, ResolveProvenance, Reserve,
       CompleteIssue, Invalidate, LockRow, LockLease, ReadClock, CallFails, Refuse
  <2> QED  BY <2>1, UnwrittenStays
<1>5. CASE Tick
  BY <1>5, UnwrittenStays DEF Tick
<1> QED  BY <1>1, <1>2, <1>3, <1>4, <1>5 DEF LeaseNext, StepOf

\* An ended lease and a resolved provenance never change, also when a caller
\* reaches them with what it read before: the rewrite of a status is decided
\* under the lock of the row.
THEOREM EndedLeasesStay == LeaseSpec => [][EndedStays]_leaseVars
<1>1. IInv /\ [LeaseNext]_leaseVars => [EndedStays]_leaseVars
  BY EndedKept
<1> QED  BY <1>1, LeaseInvariance, PTL DEF LeaseSpec

-----------------------------------------------------------------------------
(* The D4 record: the inductive invariant *)

\* The results that are ever stored or approved: nothing ran, success, and a
\* committed execution that nobody calls a success.
Won == [NotRun EXCEPT !.disp = "SUCCESS", !.commit = "COMMITTED", !.post = "VERIFIED"]
Partial == [NotRun EXCEPT !.commit = "COMMITTED"]
Sayings == {NoResult, NotRun, Won, Partial}
TrueSaying(r) == (r = NotRun => tx1 = 0) /\ (r \in {Won, Partial} => tx1 = 1)

Jobs == {"none", "process", "finalize", "resume", "classify", "resolve", "bundle"}
CallPcs == {"idle", "receive", "bundle", "get", "claim", "read", "cas", "run", "continue", "offer",
            "done", "dead"}
Kinds == {"none", "BEGIN", "RECORD_RESULT", "REQUEST", "CONSUME", "WAIT", "RESUME", "TERMINAL",
          "REQUIRE_RECOVERY", "RESOLVE"}
Dead == {"RECOVERY_REQUIRED", "TERMINAL"}

Events == [kind: Kinds, expected: States \cup {"none"}, result: Sayings, class: Classes]
Composites == [safe: {NoResult, NotRun, Won}, cont: BOOLEAN, wait: BOOLEAN]
CallRecord == [pc: CallPcs, job: Jobs, claim: Calls \cup {None}, ev: Events, comp: Composites]
RowRecord == [state: States \cup {"none"}, claim: Calls \cup {None}, result: Sayings,
              class: Classes, corr: {"none", "k1", "k2", "own"}]
RunRecord == [at: Phases, before: Facts, work: Facts, off: BOOLEAN, blocked: BOOLEAN,
              outcome: Outcomes, verified: BOOLEAN, cleanup: {"CONFIRMED", "UNCERTAIN"},
              d007: {"none", "live", "spent"}, d010: {"none", "unused", "consumed", "rejected"}]

RecordTypes ==
    /\ led \in RowRecord /\ call \in [Calls -> CallRecord] /\ x \in [Calls -> RunRecord]
    /\ jour \in Seq(States \X States)
    /\ row \in Facts /\ trigger = TRUE /\ fence \in Calls \cup {None, "orphan"}
    /\ tx1 \in {0, 1} /\ invoked \in Nat /\ resumed \in Nat /\ doubtful \in BOOLEAN

\* The call that drives the record on: it has stored BEGIN, or is about to.
Sends(c) == call[c].pc \in {"read", "cas"}
Driver(c) ==
    \/ call[c].pc \in {"run", "continue"}
    \/ Sends(c) /\ call[c].job \in {"process", "resume"} /\ call[c].ev.kind # "RESUME"
Expects(c) ==
    IF call[c].pc = "run" THEN "EXECUTING"
    ELSE IF call[c].pc = "continue" THEN "CONTINUATION_PENDING" ELSE call[c].ev.expected

\* The events of a driver, with the composite it has in hand.
DriveOK(ev, comp) ==
    \/ ev.kind = "RESUME" /\ ev.expected = "WAITING_FOR_MAPPING" /\ ev.result = NoResult
    \/ ev.kind = "BEGIN" /\ ev.expected = "ADMITTED" /\ ev.result = NoResult
    \/ ev.kind = "RECORD_RESULT" /\ ev.expected = "EXECUTING" /\ ev.result = comp.safe
                                 /\ comp.safe # NoResult
    \/ ev.kind = "WAIT" /\ ev.expected = "RESULT_RECORDED" /\ ev.result = NoResult /\ comp.wait
    \/ ev.kind = "REQUEST" /\ ev.expected = "RESULT_RECORDED" /\ ev.result = NoResult /\ comp.cont
    \/ ev.kind = "CONSUME" /\ ev.expected = "CONTINUATION_PENDING" /\ ev.result = NoResult /\ comp.cont
    \/ ev.kind = "TERMINAL" /\ ev.expected = "RESULT_RECORDED" /\ ev.result = NotRun /\ comp.safe = NotRun
    \/ ev.kind = "TERMINAL" /\ ev.expected = "CONTINUATION_CONSUMED" /\ ev.result = Won /\ comp.safe = Won
    \/ ev.kind = "REQUIRE_RECOVERY" /\ ev.expected \in {"EXECUTING", "CONTINUATION_PENDING"}
                                    /\ ev.result = NoResult

\* The events each job sends.
EventFits(k) ==
    \/ k.job \in {"process", "resume"} /\ DriveOK(k.ev, k.comp)
    \/ /\ k.job = "finalize" /\ k.ev.expected = "RECEIVED"
       /\ \/ k.ev.kind = "TERMINAL" /\ k.ev.result = NotRun
          \/ k.ev.kind = "REQUIRE_RECOVERY" /\ k.ev.result = NoResult
    \/ /\ k.job = "classify" /\ k.ev.kind = "REQUIRE_RECOVERY" /\ k.ev.result = NoResult
       /\ k.ev.expected \in {"EXECUTING", "CONTINUATION_PENDING"}
    \/ /\ k.job = "resolve" /\ k.ev.kind = "RESOLVE" /\ k.ev.expected = "RECOVERY_REQUIRED"
       /\ k.ev.result \in {NotRun, Won, Partial}
       /\ k.ev.result = Won => k.pc = "read" /\ k.ev.class = ""
EventOK(c) ==
    /\ Sends(c) => EventFits(call[c])
    /\ call[c].pc = "claim" => call[c].job = "process"
    /\ call[c].pc \in {"run", "continue"} => call[c].job \in {"process", "resume"}

\* A resolution is approved of a record in recovery behind which nothing runs.
ResolveOK(c) ==
    Sends(c) /\ call[c].job = "resolve" =>
      led.state \in Dead /\ TrueSaying(call[c].ev.result) /\ \A d \in Calls : ~Inside(d)

\* A result that a driver has in hand is true.
CompOK(c) == LET comp == call[c].comp IN
    /\ call[c].pc = "continue" => comp.cont
    /\ comp.cont <=> comp.safe = Won
    /\ comp.wait => comp.safe = NotRun
    /\ comp.safe # NoResult => /\ Driver(c) /\ call[c].pc # "run" /\ call[c].ev.kind # "BEGIN"
                               /\ TrueSaying(comp.safe)

\* The executor of a call: how far it is, and what it has committed.
RunOK(c) == LET run == x[c] IN
    /\ run.at # "idle" => call[c].pc = "run"
    /\ run.at \in InTX1 \cup {"open", "begin"} => tx1 = 0 /\ run.outcome = "NOT_COMMITTED" /\ ~run.blocked
    /\ run.at \in {"tx2", "ready", "exchange"} => tx1 = 1 /\ ~run.blocked
    /\ run.at \in {"close", "returned"} =>
         /\ run.outcome = "NOT_COMMITTED" => tx1 = 0
         /\ run.outcome \in {"COMMITTED_AND_VERIFIED", "COMMITTED_BUT_POSTVERIFY_FAILED"} => tx1 = 1
         /\ run.blocked => run.outcome = "NOT_COMMITTED"
    /\ run.at = "commit" => ~run.off
    /\ run.at # "idle" => led.state # "TERMINAL" \/ run.at = "returned"
    /\ run.at \in {"plan", "lease"} => run.work = run.before
    /\ run.at \in {"lease", "write"} => NullItems(run.work) # {}
    /\ run.at \in InTX1 => \A r \in Rows : run.work[r] # run.before[r] =>
                              run.work[r] = "own" /\ run.before[r] = "null" /\ row[r] = "null"

DriversOK ==
    /\ \A c \in Calls : Driver(c) => led.state \in Dead \cup {Expects(c)}
    /\ \A c, d \in Calls : Driver(c) /\ Driver(d) => c = d

Entries == {jour[i] : i \in DOMAIN jour}
Consumed == <<"CONTINUATION_PENDING", "CONTINUATION_CONSUMED">>
Recovered == <<"RECOVERY_REQUIRED", "TERMINAL">>

RowOK ==
    /\ RequiresClaim(led.state) => led.claim # None
    /\ led.state \in {"none", "RECEIVED"} => led.claim = None /\ jour = <<>>
    /\ led.state \in {"none", "RECEIVED", "ADMITTED"} => invoked <= resumed
    /\ invoked <= 1 + resumed
    /\ led.state \in {"none", "RECEIVED", "ADMITTED", "WAITING_FOR_MAPPING"} => tx1 = 0
    /\ led.result = Won => tx1 = 1 /\ (led.state = "TERMINAL" => Consumed \in Entries)
    /\ led.state = "CONTINUATION_CONSUMED" => Consumed \in Entries
    /\ led.state = "TERMINAL" => led.result # NoResult /\ TrueSaying(led.result)

\* Doubt about an invocation leaves the record executing or in recovery.
DoubtOK ==
    /\ doubtful => led.state \in Dead \cup {"EXECUTING"}
    /\ doubtful => \A c \in Calls : Driver(c) => Sends(c) /\ call[c].ev.kind = "REQUIRE_RECOVERY"
    /\ led.state = "TERMINAL" /\ (doubtful \/ \E c \in Calls : Driver(c)) => jour[Len(jour)] = Recovered

RecordInv ==
    /\ RecordTypes /\ DriversOK /\ RowOK /\ DoubtOK /\ JournalLinks
    /\ \A c \in Calls : EventOK(c) /\ ResolveOK(c) /\ CompOK(c) /\ RunOK(c)

-----------------------------------------------------------------------------
(* The results and the records *)

LEMMA SayingFacts ==
  /\ NotRun \in Results /\ Won \in Results /\ Partial \in Results /\ NoResult \notin Results
  /\ NotRun.disp = "NON_SUCCESS" /\ Won.disp = "SUCCESS" /\ Partial.disp = "NON_SUCCESS"
  /\ NotRun.commit = "NOT_COMMITTED" /\ Won.commit = "COMMITTED" /\ Partial.commit = "COMMITTED"
  /\ NoResult.disp = "none" /\ NoResult.commit = "none"
  /\ ~NotRun.unknown /\ ~NotRun.required /\ ~Won.unknown /\ ~Won.required
  /\ KnownSuccess(Won) /\ ~KnownSuccess(NotRun)
  /\ NoResult # NotRun /\ NoResult # Won /\ NoResult # Partial
  /\ NotRun # Won /\ NotRun # Partial /\ Won # Partial
BY DEF NotRun, Won, Partial, NoResult, Results, Classes, KnownSuccess

LEMMA WonRecord ==
  /\ Won = [disp |-> "SUCCESS", commit |-> "COMMITTED", post |-> "VERIFIED",
            cleanup |-> "CONFIRMED", unknown |-> FALSE, required |-> FALSE, class |-> ""]
  /\ Won.disp = "SUCCESS" /\ Won.commit = "COMMITTED" /\ Won.post = "VERIFIED"
<1> DEFINE T == [disp: {"SUCCESS"}, commit: {"COMMITTED"}, post: {"VERIFIED"},
                 cleanup: {"CONFIRMED"}, unknown: {FALSE}, required: {FALSE}, class: {""}]
<1>1. Won \in T
  BY DEF Won, NotRun
<1>2. ASSUME NEW w \in T PROVE w = [disp |-> "SUCCESS", commit |-> "COMMITTED", post |-> "VERIFIED",
                        cleanup |-> "CONFIRMED", unknown |-> FALSE, required |-> FALSE, class |-> ""]
  OBVIOUS
<1>3. ASSUME NEW w \in T PROVE w.disp = "SUCCESS" /\ w.commit = "COMMITTED" /\ w.post = "VERIFIED"
  OBVIOUS
<1> HIDE DEF T
<1> QED  BY <1>1, <1>2, <1>3

\* A report becomes a valid result only if its commit and its cleanup are
\* certain and its handoff matched.
LEMMA ValidReport ==
  ASSUME NEW run \in RunRecord, NEW projected \in BOOLEAN, ValidateFor(SafeResult(run, projected))
  PROVE  /\ projected /\ run.cleanup = "CONFIRMED" /\ ~RecoveryRequiredFromReport(run)
         /\ \/ run.outcome = "NOT_COMMITTED" /\ SafeResult(run, projected) = NotRun
            \/ run.outcome = "COMMITTED_AND_VERIFIED" /\ SafeResult(run, projected) = Won
<1> DEFINE r == SafeResult(run, projected)
<1>1. /\ run.outcome \in Outcomes /\ run.cleanup \in {"CONFIRMED", "UNCERTAIN"}
  BY DEF RunRecord
<1>2. r.unknown = (r.commit = "COMMIT_UNKNOWN" \/ r.cleanup = "UNCERTAIN")
  BY DEF ValidateFor
<1>3. r.unknown => r.class = "UNKNOWN_COMMIT_OR_CLEANUP"
  BY DEF ValidateFor
<1>4. r.post = "FAILED" => r.class = "COMMITTED_POSTVERIFY_FAILED"
  BY DEF ValidateFor
<1>5. CASE run.outcome = "NOT_COMMITTED"
  <2> DEFINE doubt == run.cleanup = "UNCERTAIN" \/ ~projected
  <2>1. CASE doubt
    <3>1. r.unknown = TRUE /\ r.class = ""
      BY <1>1, <1>5, <2>1 DEF SafeResult
    <3> QED  BY <1>3, <3>1
  <2>2. CASE ~doubt
    <3>1. projected = TRUE /\ run.cleanup = "CONFIRMED"
      BY <1>1, <2>2
    <3>2. NotRun = [disp |-> NotRun.disp, commit |-> NotRun.commit, post |-> NotRun.post,
             cleanup |-> "CONFIRMED", unknown |-> FALSE, required |-> FALSE, class |-> ""]
      BY DEF NotRun
    <3>3. r.disp = NotRun.disp /\ r.commit = NotRun.commit /\ r.post = NotRun.post
      BY <1>1, <1>5 DEF SafeResult, NotRun
    <3>4. r = [disp |-> r.disp, commit |-> r.commit, post |-> r.post, cleanup |-> "CONFIRMED",
               unknown |-> FALSE, required |-> FALSE, class |-> ""]
      BY <1>1, <1>5, <3>1 DEF SafeResult
    <3>5. r = NotRun
      BY <3>2, <3>3, <3>4
    <3> QED  BY <1>5, <3>1, <3>5 DEF RecoveryRequiredFromReport
  <2> QED  BY <2>1, <2>2
<1>6. CASE run.outcome = "COMMITTED_AND_VERIFIED"
  <2> DEFINE doubt == run.cleanup = "UNCERTAIN" \/ ~projected
  <2>1. CASE doubt
    <3>1. r.unknown = TRUE /\ r.class = ""
      BY <1>1, <1>6, <2>1 DEF SafeResult
    <3> QED  BY <1>3, <3>1
  <2>2. CASE ~doubt
    <3>1. projected = TRUE /\ run.cleanup = "CONFIRMED"
      BY <1>1, <2>2
    <3>2. Won = [disp |-> Won.disp, commit |-> Won.commit, post |-> Won.post,
             cleanup |-> "CONFIRMED", unknown |-> FALSE, required |-> FALSE, class |-> ""]
      BY WonRecord, SayingFacts
    <3>3. r.disp = Won.disp /\ r.commit = Won.commit /\ r.post = Won.post
      BY <1>1, <1>6 DEF SafeResult, Won, NotRun
    <3>4. r = [disp |-> r.disp, commit |-> r.commit, post |-> r.post, cleanup |-> "CONFIRMED",
               unknown |-> FALSE, required |-> FALSE, class |-> ""]
      BY <1>1, <1>6, <3>1 DEF SafeResult
    <3>5. r = Won
      BY <3>2, <3>3, <3>4
    <3> QED  BY <1>6, <3>1, <3>5 DEF RecoveryRequiredFromReport
  <2> QED  BY <2>1, <2>2
<1>7. CASE run.outcome = "COMMITTED_BUT_POSTVERIFY_FAILED"
  <2>1. r.post = "FAILED" /\ r.class = ""
    BY <1>1, <1>7 DEF SafeResult
  <2> QED  BY <1>4, <2>1
<1>8. CASE run.outcome = "COMMIT_OUTCOME_UNKNOWN"
  <2>1. r.commit = "COMMIT_UNKNOWN" /\ r.class = ""
    BY <1>1, <1>8 DEF SafeResult
  <2> QED  BY <1>2, <1>3, <2>1
<1> QED  BY <1>1, <1>5, <1>6, <1>7, <1>8 DEF Outcomes

LEMMA EventFields ==
  ASSUME NEW k \in Kinds, NEW e \in States \cup {"none"}
  PROVE  /\ Event(k, e) \in Events /\ Event(k, e).kind = k /\ Event(k, e).expected = e
         /\ Event(k, e).result = NoResult /\ Event(k, e).class = ""
BY DEF Event, Events, Sayings, Classes

LEMMA ResultEventFields ==
  ASSUME NEW k \in Kinds, NEW e \in States \cup {"none"}, NEW r \in Sayings
  PROVE  /\ ResultEvent(k, e, r) \in Events /\ ResultEvent(k, e, r).kind = k
         /\ ResultEvent(k, e, r).expected = e /\ ResultEvent(k, e, r).result = r
BY DEF ResultEvent, Event, Events, Sayings, Classes

LEMMA RecoveryEventFields ==
  ASSUME NEW e \in States
  PROVE  /\ RecoveryEvent(e) \in Events /\ RecoveryEvent(e).kind = "REQUIRE_RECOVERY"
         /\ RecoveryEvent(e).expected = e /\ RecoveryEvent(e).result = NoResult
BY DEF RecoveryEvent, Event, Events, Sayings, Classes, Kinds

LEMMA NewCallFields ==
  /\ NewCall \in CallRecord /\ NewCall.comp = NoComposite /\ NewCall.pc = "idle"
  /\ NoComposite \in Composites /\ NoComposite.safe = NoResult
  /\ NoComposite.cont = FALSE /\ NoComposite.wait = FALSE
<1>1. NoEvent \in Events
  BY EventFields DEF NoEvent, Kinds
<1> QED  BY <1>1 DEF NewCall, CallRecord, NoComposite, Composites, CallPcs, Jobs

LEMMA ReturnedFields ==
  /\ Returned \in CallRecord /\ Returned.pc = "done" /\ Returned.comp = NoComposite
BY NewCallFields DEF Returned, CallRecord, CallPcs

LEMMA FreshRunFields ==
  /\ FreshRun \in RunRecord /\ FreshRun.at = "idle" /\ FreshRun.outcome = "NOT_COMMITTED"
  /\ FreshRun.blocked = FALSE /\ FreshRun.verified = FALSE
<1>1. Blank \in Facts
  BY DEF Blank, Facts
<1> QED  BY <1>1 DEF FreshRun, RunRecord, Phases, InTX1, Outcomes

\* An edge of the table is given by its state and its event.
LEMMA TargetIs ==
  ASSUME NEW from, NEW kind, NEW to, <<from, kind, to>> \in TransitionTable
  PROVE  Target(from, kind) = to /\ LegalEdge(from, to)
<1>1. \A e, f \in TransitionTable : e[1] = f[1] /\ e[2] = f[2] => e[3] = f[3]
  BY DEF TransitionTable, States
<1>2. \E e \in TransitionTable : e[1] = from /\ e[2] = kind
  OBVIOUS
<1> DEFINE g == CHOOSE e \in TransitionTable : e[1] = from /\ e[2] = kind
<1>3. g \in TransitionTable /\ g[1] = from /\ g[2] = kind
  BY <1>2
<1>4. g[3] = to
  BY <1>1, <1>3
<1>5. LegalEdge(from, to)
  BY DEF LegalEdge
<1> QED  BY <1>4, <1>5 DEF Target

-----------------------------------------------------------------------------
(* Calls and executors move one at a time *)

Others(c) == \A d \in Calls \ {c} : call'[d] = call[d] /\ x'[d] = x[d]

LEMMA Gone ==
  ASSUME call \in [Calls -> CallRecord], NEW c \in Calls, NEW k \in CallRecord, Goto(c, k)
  PROVE  /\ call' \in [Calls -> CallRecord] /\ call'[c] = k
         /\ \A d \in Calls \ {c} : call'[d] = call[d]
BY DEF Goto

LEMMA Stepped ==
  ASSUME x \in [Calls -> RunRecord], NEW c \in Calls, NEW run \in RunRecord, Step(c, run)
  PROVE  /\ x' \in [Calls -> RunRecord] /\ x'[c] = run
         /\ \A d \in Calls \ {c} : x'[d] = x[d]
BY DEF Step

LEMMA Sent ==
  ASSUME call \in [Calls -> CallRecord], NEW c \in Calls, NEW ev \in Events, Send(c, ev)
  PROVE  /\ call' \in [Calls -> CallRecord] /\ \A d \in Calls \ {c} : call'[d] = call[d]
         /\ call'[c].pc = "read" /\ call'[c].ev = ev /\ call'[c].job = call[c].job
         /\ call'[c].claim = call[c].claim /\ call'[c].comp = call[c].comp
<1> DEFINE k == [call[c] EXCEPT !.pc = "read", !.ev = ev]
<1>1. call[c] \in CallRecord
  OBVIOUS
<1>2. /\ k \in CallRecord /\ k.pc = "read" /\ k.ev = ev /\ k.job = call[c].job
      /\ k.claim = call[c].claim /\ k.comp = call[c].comp
  BY <1>1 DEF CallRecord, CallPcs
<1>3. Goto(c, k)
  BY DEF Send
<1> HIDE DEF k
<1> QED  BY <1>2, <1>3, Gone

\* A call that does not run the executor has none.
LEMMA NoExecutor ==
  ASSUME RecordInv, NEW c \in Calls, call[c].pc # "run"
  PROVE  x[c].at = "idle"
BY DEF RecordInv, RunOK

\* What an executor or a driver excludes.
LEMMA OneDriver ==
  ASSUME RecordInv, NEW c \in Calls, Driver(c)
  PROVE  \A d \in Calls \ {c} : ~Driver(d) /\ x[d].at = "idle" /\ call[d].comp.safe = NoResult
BY DEF RecordInv, DriversOK, Driver, RunOK, CompOK

\* The states in which a record has a driver.
LEMMA DriverStates ==
  ASSUME RecordInv, NEW c \in Calls, Driver(c)
  PROVE  /\ Expects(c) \in {"ADMITTED", "EXECUTING", "RESULT_RECORDED", "CONTINUATION_PENDING",
                            "CONTINUATION_CONSUMED"}
         /\ led.state \in Dead \cup {Expects(c)}
BY DEF RecordInv, DriversOK, Driver, Expects, EventOK, EventFits, DriveOK, Sends

\* Nothing of the record or of the database changes, except that the row is
\* received or correlated.
Keeps ==
  /\ led'.claim = led.claim /\ led'.result = led.result
  /\ led'.state = led.state \/ (led.state = "none" /\ led'.state = "RECEIVED")
  /\ UNCHANGED <<jour, tx1, row, invoked, resumed>>

\* A composite without a result.
Empty(comp) == comp.safe = NoResult /\ ~comp.cont /\ ~comp.wait

\* A call that ends, or prepares an event that is not a driver's, leaves the
\* others as they were.
LEMMA Retires ==
  ASSUME RecordInv, NEW c \in Calls, Others(c), RecordTypes', Keeps,
         x'[c].at = "idle", ~Driver(c)', EventOK(c)', ResolveOK(c)', Empty(call'[c].comp),
         doubtful' = doubtful \/ (doubtful' /\ call[c].pc = "run")
  PROVE  RecordInv'
<1>1. \A d \in Calls \ {c} : /\ Driver(d)' <=> Driver(d)
                             /\ Expects(d)' = Expects(d) /\ Sends(d)' = Sends(d)
  BY DEF Others, Driver, Expects, Sends
<1>2. led.state # led'.state => \A d \in Calls : ~Driver(d) /\ x[d].at = "idle"
  BY DriverStates DEF Keeps, RecordInv, RunOK, Driver, Dead
<1>3. DriversOK'
  BY <1>1, <1>2 DEF RecordInv, DriversOK, Keeps
<1>4. RowOK'
  BY DEF RecordInv, RowOK, Keeps, RequiresClaim, Claimed, Entries, TrueSaying
<1>5. JournalLinks'
  BY DEF RecordInv, JournalLinks, Keeps, RowOK
<1>6. DoubtOK'
  <2>1. CASE doubtful' = doubtful
    BY <1>1, <2>1 DEF RecordInv, DoubtOK, Keeps, Others, Sends, Dead
  <2>2. CASE doubtful' /\ call[c].pc = "run"
    <3>1. Driver(c) /\ Expects(c) = "EXECUTING"
      BY <2>2 DEF Driver, Expects
    <3>2. \A d \in Calls : ~Driver(d)'
      BY <1>1, <3>1, OneDriver
    <3>3. led.state \in Dead \cup {"EXECUTING"} /\ led'.state = led.state
      BY <3>1, DriverStates DEF Keeps, Dead
    <3> QED  BY <3>1, <3>2, <3>3 DEF RecordInv, DoubtOK, Keeps
  <2> QED  BY <2>1, <2>2
<1>7. ASSUME NEW d \in Calls PROVE EventOK(d)' /\ ResolveOK(d)'
  <2>1. CASE d = c
    BY <2>1
  <2>2. CASE d # c
    <3>1. EventOK(d)'
      <4>1. call'[d] = call[d] /\ EventOK(d)
        BY <2>2 DEF RecordInv, Others
      <4> QED  BY <4>1 DEF EventOK, Sends
    <3>2. ResolveOK(d)'
      BY <1>1, <2>2 DEF RecordInv, ResolveOK, Others, Keeps, Inside, TrueSaying, Dead
    <3> QED  BY <3>1, <3>2
  <2> QED  BY <2>1, <2>2
<1>8. ASSUME NEW d \in Calls PROVE CompOK(d)' /\ RunOK(d)'
  <2>1. CASE d = c
    <3>1. CompOK(d)'
      <4>1. /\ call'[d].comp.safe = NoResult /\ ~call'[d].comp.cont /\ ~call'[d].comp.wait
            /\ call'[d].pc # "continue" /\ NoResult # Won
        BY <2>1, SayingFacts DEF Driver, Empty
      <4> QED  BY <4>1 DEF CompOK
    <3>2. RunOK(d)'
      BY <2>1 DEF RunOK, InTX1
    <3> QED  BY <3>1, <3>2
  <2>2. CASE d # c
    <3>1. CompOK(d)'
      BY <1>1, <2>2 DEF RecordInv, CompOK, Others, Keeps, TrueSaying
    <3>2. RunOK(d)'
      BY <2>2 DEF RecordInv, RunOK, Others, Keeps
    <3> QED  BY <3>1, <3>2
  <2> QED  BY <2>1, <2>2
<1> QED  BY <1>3, <1>4, <1>5, <1>6, <1>7, <1>8 DEF RecordInv

-----------------------------------------------------------------------------
(* The executor *)

\* What the caller's side keeps while its executor takes a step.
Aside == UNCHANGED <<led, jour, call, invoked, resumed, doubtful>>

LEMMA Executes ==
  ASSUME RecordInv, NEW c \in Calls, call[c].pc = "run", Inside(c), Aside, Others(c), RecordTypes',
         tx1' = tx1 \/ (x[c].at = "commit" /\ tx1' = 1), RunOK(c)'
  PROVE  RecordInv'
<1>1. Driver(c) /\ Expects(c) = "EXECUTING" /\ call[c].comp.safe = NoResult
  BY DEF Driver, Expects, RecordInv, CompOK
<1>2. \A d \in Calls : (Driver(d)' <=> Driver(d)) /\ Expects(d)' = Expects(d) /\ Sends(d)' = Sends(d)
  BY DEF Aside, Driver, Expects, Sends
<1>3. led.state \in {"RECOVERY_REQUIRED", "EXECUTING"}
  BY <1>1, DriverStates DEF RecordInv, RunOK, Inside, Dead
<1>4. \A d \in Calls : ~(Sends(d) /\ call[d].job = "resolve")
  BY DEF RecordInv, ResolveOK
<1>5. \A d \in Calls : call[d].comp.safe = NoResult
  BY <1>1, OneDriver
<1>6. DriversOK'
  BY <1>2 DEF RecordInv, DriversOK, Aside
<1>7. RowOK'
  BY <1>3 DEF RecordInv, RowOK, Aside, RequiresClaim, Claimed, Entries
<1>8. JournalLinks'
  BY DEF RecordInv, JournalLinks, Aside
<1>9. DoubtOK'
  BY <1>2 DEF RecordInv, DoubtOK, Aside
<1>10. ASSUME NEW d \in Calls PROVE EventOK(d)' /\ ResolveOK(d)'
  <2>1. EventOK(d) /\ call'[d] = call[d]
    BY DEF RecordInv, Aside
  <2>2. EventOK(d)'
    BY <1>2, <2>1 DEF EventOK
  <2>3. ResolveOK(d)'
    BY <1>2, <1>4, <2>1 DEF ResolveOK
  <2> QED  BY <2>2, <2>3
<1>11. ASSUME NEW d \in Calls PROVE CompOK(d)'
  BY <1>2, <1>5 DEF RecordInv, CompOK, Aside
<1>12. ASSUME NEW d \in Calls PROVE RunOK(d)'
  <2>1. CASE d = c
    BY <2>1
  <2>2. CASE d # c
    BY <1>1, <2>2, OneDriver DEF Others, RunOK, InTX1
  <2> QED  BY <2>1, <2>2
<1> QED  BY <1>6, <1>7, <1>8, <1>9, <1>10, <1>11, <1>12 DEF RecordInv

LEMMA ForgetFields ==
  ASSUME NEW run \in RunRecord
  PROVE  /\ Forget(run) \in RunRecord /\ Forget(run).outcome = run.outcome
         /\ Forget(run).blocked = run.blocked /\ Forget(run).verified = run.verified
<1>1. Blank \in Facts
  BY DEF Blank, Facts
<1> QED  BY <1>1 DEF Forget, RunRecord

LEMMA FailFields ==
  ASSUME NEW run \in RunRecord
  PROVE  /\ FailPhase(run) \in RunRecord /\ FailPhase(run).at = "close"
         /\ FailPhase(run).outcome = "NOT_COMMITTED"
         /\ FailPhase(run).blocked = run.blocked /\ FailPhase(run).verified = run.verified
         /\ PostVerifyFailed(run) \in RunRecord /\ PostVerifyFailed(run).at = "close"
         /\ PostVerifyFailed(run).outcome = "COMMITTED_BUT_POSTVERIFY_FAILED"
         /\ PostVerifyFailed(run).blocked = run.blocked /\ PostVerifyFailed(run).verified = run.verified
         /\ CommitFailed(run) \in RunRecord /\ CommitFailed(run).at = "close"
         /\ CommitFailed(run).outcome = "COMMIT_OUTCOME_UNKNOWN"
         /\ CommitFailed(run).blocked = run.blocked /\ CommitFailed(run).verified = run.verified
BY ForgetFields DEF FailPhase, PostVerifyFailed, CommitFailed, RunRecord, Phases, Outcomes

\* An executor that is through says of its commit what the database did.
LEMMA Ends ==
  ASSUME NEW c \in Calls, call'[c].pc = "run", x'[c].at \in {"close", "returned"},
         led'.state # "TERMINAL" \/ x'[c].at = "returned",
         x'[c].outcome = "NOT_COMMITTED" => tx1' = 0,
         x'[c].outcome \in {"COMMITTED_AND_VERIFIED", "COMMITTED_BUT_POSTVERIFY_FAILED"} => tx1' = 1,
         x'[c].blocked => x'[c].outcome = "NOT_COMMITTED"
  PROVE  RunOK(c)'
BY DEF RunOK, InTX1

\* A step of an executor that neither commits nor moves the rows.
LEMMA Continues ==
  ASSUME RecordInv, NEW c \in Calls, call[c].pc = "run", Inside(c), Aside,
         NEW run \in RunRecord, Step(c, run), UNCHANGED <<row, trigger, tx1>>,
         fence' \in Calls \cup {None, "orphan"}, x'[c] = run => RunOK(c)'
  PROVE  RecordInv'
<1>1. /\ x' \in [Calls -> RunRecord] /\ x'[c] = run /\ \A d \in Calls \ {c} : x'[d] = x[d]
  BY Stepped DEF RecordInv, RecordTypes
<1>2. Others(c)
  BY <1>1 DEF Others, Aside
<1>3. RecordTypes'
  BY <1>1 DEF RecordInv, RecordTypes, Aside
<1> QED  BY <1>1, <1>2, <1>3, Executes

LEMMA Running ==
  ASSUME RecordInv, NEW c \in Calls
  PROVE  /\ x[c] \in RunRecord /\ RunOK(c) /\ row \in Facts /\ tx1 \in {0, 1}
         /\ fence \in Calls \cup {None, "orphan"} /\ trigger = TRUE
BY DEF RecordInv, RecordTypes

\* The record of an executor that goes on to its next phase.
At(run, p) == [run EXCEPT !.at = p]

LEMMA AtFields ==
  ASSUME NEW run \in RunRecord, NEW p \in Phases
  PROVE  /\ At(run, p) \in RunRecord /\ At(run, p).at = p /\ At(run, p).outcome = run.outcome
         /\ At(run, p).blocked = run.blocked /\ At(run, p).verified = run.verified
         /\ At(run, p).before = run.before /\ At(run, p).work = run.work /\ At(run, p).off = run.off
BY DEF At, RunRecord

LEMMA BlockFields ==
  ASSUME NEW run \in RunRecord
  PROVE  /\ [run EXCEPT !.blocked = TRUE] \in RunRecord /\ [run EXCEPT !.blocked = TRUE].at = run.at
         /\ [run EXCEPT !.blocked = TRUE].outcome = run.outcome
         /\ [run EXCEPT !.blocked = TRUE].verified = run.verified
BY DEF RunRecord

LEMMA OpenFenceExecutes ==
  ASSUME RecordInv, NEW c \in Calls, call[c].pc = "run", OpenFence(c), Aside
  PROVE  RecordInv'
<1>1. x[c].at = "open" /\ Inside(c) /\ call'[c].pc = "run" /\ tx1' = tx1 /\ led' = led
  BY DEF OpenFence, Inside, Aside
<1>2. tx1 = 0 /\ x[c].outcome = "NOT_COMMITTED" /\ ~x[c].blocked /\ led.state # "TERMINAL"
  BY <1>1, Running DEF RunOK
<1>3. CASE fence' = c /\ Step(c, At(x[c], "begin"))
  <2> DEFINE run == At(x[c], "begin")
  <2>1. run \in RunRecord /\ run.at = "begin" /\ run.outcome = x[c].outcome /\ run.blocked = x[c].blocked
    BY Running, AtFields DEF Phases
  <2> HIDE DEF run
  <2>2. x'[c] = run => RunOK(c)'
    BY <1>1, <1>2, <2>1 DEF RunOK, InTX1
  <2> QED  BY <1>1, <1>3, <2>1, <2>2, Continues DEF run, OpenFence
<1>4. CASE fence' = fence /\ Step(c, At(x[c], "returned"))
  <2> DEFINE run == At(x[c], "returned")
  <2>1. run \in RunRecord /\ run.at = "returned" /\ run.outcome = x[c].outcome /\ run.blocked = x[c].blocked
    BY Running, AtFields DEF Phases
  <2> HIDE DEF run
  <2>2. x'[c] = run => RunOK(c)'
    BY <1>1, <1>2, <2>1, Ends
  <2> QED  BY <1>1, <1>4, <2>1, <2>2, Running, Continues DEF run, OpenFence
<1> QED  BY <1>3, <1>4 DEF OpenFence, At

\* A phase before the commit that fails ends the executor.
LEMMA FailExecutes ==
  ASSUME RecordInv, NEW c \in Calls, call[c].pc = "run", Aside, x[c].at \in InTX1 \cup {"begin"},
         Step(c, FailPhase(x[c])), UNCHANGED <<row, trigger, tx1, fence>>
  PROVE  RecordInv'
<1> DEFINE run == FailPhase(x[c])
<1>1. Inside(c) /\ call'[c].pc = "run" /\ led' = led
  BY DEF Inside, Aside, InTX1
<1>2. tx1 = 0 /\ ~x[c].blocked /\ led.state # "TERMINAL"
  BY Running DEF RunOK, InTX1
<1>3. run \in RunRecord /\ run.at = "close" /\ run.outcome = "NOT_COMMITTED" /\ run.blocked = x[c].blocked
  BY Running, FailFields
<1> HIDE DEF run
<1>4. x'[c] = run => RunOK(c)'
  BY <1>1, <1>2, <1>3, Ends
<1> QED  BY <1>1, <1>3, <1>4, Running, Continues DEF run

LEMMA BeginExecutes ==
  ASSUME RecordInv, NEW c \in Calls, call[c].pc = "run", Begin(c), Aside
  PROVE  RecordInv'
<1>1. x[c].at = "begin" /\ Inside(c) /\ call'[c].pc = "run" /\ tx1' = tx1 /\ led' = led /\ row' = row
  BY DEF Begin, Inside, Aside
<1>2. tx1 = 0 /\ x[c].outcome = "NOT_COMMITTED" /\ ~x[c].blocked /\ led.state # "TERMINAL"
  BY <1>1, Running DEF RunOK
<1> DEFINE run == [x[c] EXCEPT !.at = "plan", !.before = row, !.work = row]
<1>3. CASE Step(c, run)
  <2>1. /\ run \in RunRecord /\ run.at = "plan" /\ run.outcome = x[c].outcome /\ run.blocked = x[c].blocked
        /\ run.work = run.before
    BY Running DEF RunRecord, Phases, InTX1
  <2> HIDE DEF run
  <2>2. x'[c] = run => RunOK(c)'
    BY <1>1, <1>2, <2>1 DEF RunOK, InTX1
  <2> QED  BY <1>1, <1>3, <2>1, <2>2, Running, Continues DEF Begin
<1>4. CASE Step(c, FailPhase(x[c]))
  BY <1>1, <1>4, FailExecutes DEF Begin
<1> QED  BY <1>3, <1>4 DEF Begin

LEMMA PlanExecutes ==
  ASSUME RecordInv, NEW c \in Calls, call[c].pc = "run", Plan(c), Aside
  PROVE  RecordInv'
<1>1. /\ x[c].at = "plan" /\ Inside(c) /\ call'[c].pc = "run" /\ tx1' = tx1 /\ led' = led /\ row' = row
      /\ UNCHANGED <<trigger, fence>>
  BY DEF Plan, Inside, Aside
<1>2. /\ tx1 = 0 /\ x[c].outcome = "NOT_COMMITTED" /\ ~x[c].blocked /\ led.state # "TERMINAL"
      /\ x[c].work = x[c].before
  BY <1>1, Running DEF RunOK, InTX1
<1>3. CASE Step(c, [FailPhase(x[c]) EXCEPT !.blocked = TRUE])
  <2> DEFINE run == [FailPhase(x[c]) EXCEPT !.blocked = TRUE]
  <2>1. run \in RunRecord /\ run.at = "close" /\ run.outcome = "NOT_COMMITTED"
    <3>1. x[c] \in RunRecord
      BY Running
    <3>2. /\ FailPhase(x[c]) \in RunRecord /\ FailPhase(x[c]).at = "close"
          /\ FailPhase(x[c]).outcome = "NOT_COMMITTED"
      BY <3>1, FailFields
    <3> QED  BY <3>2, BlockFields
  <2> HIDE DEF run
  <2>2. x'[c] = run => RunOK(c)'
    BY <1>1, <1>2, <2>1, Ends
  <2> QED  BY <1>1, <1>3, <2>1, <2>2, Running, Continues DEF run
<1>4. ASSUME NEW p \in {"verify", "lease"}, Step(c, At(x[c], p)),
             p = "lease" => NullItems(x[c].before) # {}
      PROVE  RecordInv'
  <2> DEFINE run == At(x[c], p)
  <2>1. /\ run \in RunRecord /\ run.at = p /\ run.outcome = x[c].outcome /\ run.blocked = x[c].blocked
        /\ run.work = x[c].work /\ run.before = x[c].before
    BY Running, AtFields DEF Phases, InTX1
  <2> HIDE DEF run
  <2>2. x'[c] = run => RunOK(c)'
    BY <1>1, <1>2, <1>4, <2>1 DEF RunOK, InTX1
  <2> QED  BY <1>1, <1>4, <2>1, <2>2, Running, Continues DEF run
<1> QED  BY <1>3, <1>4 DEF Plan, At

LEMMA SpendLeaseExecutes ==
  ASSUME RecordInv, NEW c \in Calls, call[c].pc = "run", SpendLease(c), Aside
  PROVE  RecordInv'
<1>1. /\ x[c].at = "lease" /\ Inside(c) /\ call'[c].pc = "run" /\ tx1' = tx1 /\ led' = led /\ row' = row
      /\ UNCHANGED <<trigger, fence>>
  BY DEF SpendLease, Inside, Aside
<1>2. /\ tx1 = 0 /\ x[c].outcome = "NOT_COMMITTED" /\ ~x[c].blocked /\ led.state # "TERMINAL"
      /\ x[c].work = x[c].before /\ NullItems(x[c].work) # {}
  BY <1>1, Running DEF RunOK, InTX1
<1>3. CASE Step(c, At(x[c], "write"))
  <2> DEFINE run == At(x[c], "write")
  <2>1. /\ run \in RunRecord /\ run.at = "write" /\ run.outcome = x[c].outcome /\ run.blocked = x[c].blocked
        /\ run.work = x[c].work /\ run.before = x[c].before
    BY Running, AtFields DEF Phases, InTX1
  <2> HIDE DEF run
  <2>2. x'[c] = run => RunOK(c)'
    BY <1>1, <1>2, <2>1 DEF RunOK, InTX1
  <2> QED  BY <1>1, <1>3, <2>1, <2>2, Running, Continues DEF run
<1>4. CASE Step(c, FailPhase(x[c]))
  BY <1>1, <1>4, FailExecutes DEF InTX1
<1> QED  BY <1>3, <1>4 DEF SpendLease, At

LEMMA NextItemIn ==
  ASSUME NEW todo \in SUBSET Rows, todo # {}
  PROVE  NextItem(todo) \in todo
<1>1. Rank["device"] = 1 /\ Rank["shop"] = 2 /\ Rank["audit"] = 3
  BY DEF Rank
<1>2. \E r \in todo : \A s \in todo : Rank[r] <= Rank[s]
  <2>1. CASE "device" \in todo
    BY <1>1, <2>1 DEF Rows
  <2>2. CASE "device" \notin todo /\ "shop" \in todo
    BY <1>1, <2>2 DEF Rows
  <2>3. CASE "device" \notin todo /\ "shop" \notin todo
    <3>1. \A s \in todo : s = "audit"
      BY <2>3 DEF Rows
    <3>2. "audit" \in todo
      BY <3>1
    <3> QED  BY <1>1, <3>1, <3>2
  <2> QED  BY <2>1, <2>2, <2>3
<1> QED  BY <1>2 DEF NextItem

OwnValue(run, r) == [run EXCEPT !.work[r] = "own"]
Written(run, r, off, p) == [OwnValue(run, r) EXCEPT !.off = off, !.at = p]

LEMMA WriteFields ==
  ASSUME NEW run \in RunRecord, NEW r \in Rows, NEW off \in BOOLEAN, NEW p \in Phases
  PROVE  LET n == Written(run, r, off, p)
         IN  /\ OwnValue(run, r).at = run.at
             /\ n \in RunRecord /\ n.at = p /\ n.outcome = run.outcome /\ n.blocked = run.blocked
             /\ n.verified = run.verified /\ n.before = run.before /\ n.work = [run.work EXCEPT ![r] = "own"]
<1> DEFINE w == [run EXCEPT !.work[r] = "own"]
<1>1. [run.work EXCEPT ![r] = "own"] \in Facts
  BY DEF RunRecord, Facts
<1>2. /\ w \in RunRecord /\ w.at = run.at /\ w.outcome = run.outcome /\ w.blocked = run.blocked
      /\ w.verified = run.verified /\ w.before = run.before /\ w.work = [run.work EXCEPT ![r] = "own"]
  BY <1>1 DEF RunRecord
<1> HIDE DEF w
<1>3. LET n == [w EXCEPT !.off = off, !.at = p]
      IN  /\ n \in RunRecord /\ n.at = p /\ n.outcome = w.outcome /\ n.blocked = w.blocked
          /\ n.verified = w.verified /\ n.before = w.before /\ n.work = w.work
  BY <1>2 DEF RunRecord
<1> QED  BY <1>2, <1>3 DEF w, Written, OwnValue

LEMMA WriteExecutes ==
  ASSUME RecordInv, NEW c \in Calls, call[c].pc = "run", Write(c), Aside
  PROVE  RecordInv'
<1> DEFINE todo == NullItems(x[c].work)
           r == NextItem(todo)
           off == x[c].off \/ r = "audit"
           p == IF todo = {r} THEN "verify" ELSE "write"
           run == Written(x[c], r, off, p)
<1>1. /\ x[c].at = "write" /\ Inside(c) /\ call'[c].pc = "run" /\ tx1' = tx1 /\ led' = led /\ row' = row
      /\ UNCHANGED <<trigger, fence>>
  BY DEF Write, Inside, Aside
<1>2. /\ tx1 = 0 /\ x[c].outcome = "NOT_COMMITTED" /\ ~x[c].blocked /\ led.state # "TERMINAL"
      /\ todo # {}
      /\ \A q \in Rows : x[c].work[q] # x[c].before[q] =>
            x[c].work[q] = "own" /\ x[c].before[q] = "null" /\ row[q] = "null"
  BY <1>1, Running DEF RunOK, InTX1
<1>3. r \in Rows /\ r \in todo /\ x[c].work[r] = "null" /\ x[c].before[r] = "null"
  <2>1. todo \in SUBSET Rows
    BY DEF NullItems
  <2>2. r \in todo
    BY <1>2, <2>1, NextItemIn
  <2> QED  BY <1>2, <2>1, <2>2 DEF NullItems
<1>4. CASE row[r] # x[c].before[r]
  <2>1. ExecuteCASItem(c, r) = FailPhase(x[c]) /\ FailPhase(x[c]).at = "close"
    BY <1>4, Running, FailFields DEF ExecuteCASItem
  <2>2. Step(c, FailPhase(x[c]))
    BY <2>1 DEF Write
  <2> QED  BY <1>1, <2>2, FailExecutes DEF InTX1
<1>5. CASE row[r] = x[c].before[r]
  <2>1. off \in BOOLEAN /\ p \in Phases
    BY DEF Phases, InTX1
  <2>2. x[c] \in RunRecord
    BY Running
  <2>3. /\ OwnValue(x[c], r).at = x[c].at /\ run \in RunRecord /\ run.at = p /\ run.outcome = x[c].outcome
        /\ run.blocked = x[c].blocked /\ run.before = x[c].before
        /\ run.work = [x[c].work EXCEPT ![r] = "own"]
    <3>1. r \in Rows
      BY <1>3
    <3> HIDE DEF r, off, p
    <3> QED  BY <3>1, <2>1, <2>2, WriteFields
  <2>4. ExecuteCASItem(c, r) = OwnValue(x[c], r)
    BY <1>5 DEF ExecuteCASItem, OwnValue
  <2>5. Step(c, run)
    BY <1>1, <2>3, <2>4 DEF Write, Written
  <2> HIDE DEF run
  <2>6. x[c].work \in Facts /\ x[c].before \in Facts
    BY <2>2 DEF RunRecord
  <2>7. \A q \in Rows : run.work[q] = IF q = r THEN "own" ELSE x[c].work[q]
    BY <1>3, <2>3, <2>6 DEF Facts
  <2>8. \A q \in Rows : run.work[q] # run.before[q] =>
            run.work[q] = "own" /\ run.before[q] = "null" /\ row[q] = "null"
    BY <1>2, <1>3, <1>5, <2>3, <2>7
  <2>9. p = "write" => NullItems(run.work) # {}
    <3> SUFFICES ASSUME todo # {r} PROVE NullItems(run.work) # {}
      OBVIOUS
    <3>1. PICK q \in todo : q # r
      BY <1>3
    <3> QED  BY <3>1, <2>7 DEF NullItems
  <2>10. p \in {"verify", "write"}
    OBVIOUS
  <2> HIDE DEF p
  <2>11. x'[c] = run => RunOK(c)'
    <3> HIDE DEF todo, r, off
    <3> SUFFICES ASSUME x'[c] = run PROVE RunOK(c)'
      OBVIOUS
    <3>1. /\ x'[c].at \in {"verify", "write"} /\ x'[c].outcome = "NOT_COMMITTED" /\ ~x'[c].blocked
          /\ x'[c].at = "write" => NullItems(x'[c].work) # {}
          /\ \A q \in Rows : x'[c].work[q] # x'[c].before[q] =>
                x'[c].work[q] = "own" /\ x'[c].before[q] = "null" /\ row'[q] = "null"
      BY <1>1, <1>2, <2>3, <2>8, <2>9, <2>10
    <3> QED  BY <1>1, <1>2, <3>1 DEF RunOK, InTX1
  <2> QED  BY <1>1, <2>3, <2>5, <2>11, Running, Continues
<1> QED  BY <1>4, <1>5

LEMMA VerifyExecutes ==
  ASSUME RecordInv, NEW c \in Calls, call[c].pc = "run", Verify(c), Aside
  PROVE  RecordInv'
<1>1. /\ x[c].at = "verify" /\ Inside(c) /\ call'[c].pc = "run" /\ tx1' = tx1 /\ led' = led /\ row' = row
      /\ UNCHANGED <<trigger, fence>>
  BY DEF Verify, Inside, Aside
<1>2. /\ tx1 = 0 /\ x[c].outcome = "NOT_COMMITTED" /\ ~x[c].blocked /\ led.state # "TERMINAL"
      /\ \A q \in Rows : x[c].work[q] # x[c].before[q] =>
            x[c].work[q] = "own" /\ x[c].before[q] = "null" /\ row[q] = "null"
  BY <1>1, Running DEF RunOK, InTX1
<1>3. CASE Step(c, [RestoreTrigger(x[c]) EXCEPT !.at = "commit"])
  <2> DEFINE run == [RestoreTrigger(x[c]) EXCEPT !.at = "commit"]
  <2>1. x[c] \in RunRecord
    BY Running
  <2>2. /\ run \in RunRecord /\ run.at = "commit" /\ run.outcome = x[c].outcome /\ run.blocked = x[c].blocked
        /\ run.work = x[c].work /\ run.before = x[c].before /\ run.off = FALSE
    BY <2>1 DEF RestoreTrigger, RunRecord, Phases, InTX1
  <2> HIDE DEF run
  <2>3. x'[c] = run => RunOK(c)'
    BY <1>1, <1>2, <2>2 DEF RunOK, InTX1
  <2> QED  BY <1>1, <1>3, <2>2, <2>3, Running, Continues DEF run
<1>4. CASE Step(c, FailPhase(x[c]))
  BY <1>1, <1>4, FailExecutes DEF InTX1
<1> QED  BY <1>3, <1>4 DEF Verify

LEMMA CommitExecutes ==
  ASSUME RecordInv, NEW c \in Calls, call[c].pc = "run", Commit(c), Aside
  PROVE  RecordInv'
<1>1. /\ x[c].at = "commit" /\ Inside(c) /\ call'[c].pc = "run" /\ led' = led
      /\ fence' = fence /\ x[c] \in RunRecord
  BY Running DEF Commit, Inside, Aside
<1>2. /\ tx1 = 0 /\ x[c].outcome = "NOT_COMMITTED" /\ ~x[c].blocked /\ led.state # "TERMINAL"
      /\ ~x[c].off
  BY <1>1, Running DEF RunOK, InTX1
<1>3. Persist(c) => row' \in Facts /\ trigger' = TRUE /\ tx1' = 1
  <2>1. x[c].work \in Facts /\ row \in Facts
    BY <1>1, Running DEF RunRecord
  <2> SUFFICES ASSUME Persist(c) PROVE row' \in Facts /\ trigger' = TRUE /\ tx1' = 1
    OBVIOUS
  <2>2. row' \in Facts
    BY <2>1 DEF Persist, Facts
  <2>3. x[c].off = FALSE
    BY <1>1, <1>2 DEF RunRecord
  <2>4. trigger' = TRUE
    BY <2>3 DEF Persist
  <2>5. tx1' = 1
    BY <1>2 DEF Persist
  <2> QED  BY <2>2, <2>4, <2>5
<1>4. ASSUME NEW run \in RunRecord, Step(c, run), Persist(c), x'[c] = run => RunOK(c)'
      PROVE  RecordInv'
  <2>1. /\ x' \in [Calls -> RunRecord] /\ x'[c] = run /\ \A d \in Calls \ {c} : x'[d] = x[d]
    BY <1>4, Stepped DEF RecordInv, RecordTypes
  <2>2. Others(c)
    BY <2>1 DEF Others, Aside
  <2>3. RecordTypes'
    BY <1>1, <1>3, <1>4, <2>1 DEF RecordInv, RecordTypes, Aside
  <2> QED  BY <1>1, <1>3, <1>4, <2>1, <2>2, <2>3, Executes
<1>5. CASE Persist(c) /\ Step(c, At(x[c], "tx2"))
  <2> DEFINE run == At(x[c], "tx2")
  <2>1. run \in RunRecord /\ run.at = "tx2" /\ run.blocked = x[c].blocked
    BY <1>1, AtFields DEF Phases
  <2> HIDE DEF run
  <2>2. x'[c] = run => RunOK(c)'
    BY <1>1, <1>2, <1>3, <1>5, <2>1 DEF RunOK, InTX1
  <2> QED  BY <1>4, <1>5, <2>1, <2>2 DEF run
<1> DEFINE failed == CommitFailed(x[c])
<1>6. /\ failed \in RunRecord /\ failed.at = "close" /\ failed.outcome = "COMMIT_OUTCOME_UNKNOWN"
      /\ failed.blocked = x[c].blocked
  BY <1>1, FailFields
<1>7. Step(c, failed) /\ x'[c] = failed => RunOK(c)'
  <2> HIDE DEF failed
  <2> QED  BY <1>1, <1>2, <1>6, Ends
<1>8. CASE Persist(c) /\ Step(c, CommitFailed(x[c]))
  <2>1. Persist(c) /\ Step(c, failed)
    BY <1>8
  <2> HIDE DEF failed
  <2> QED  BY <1>4, <1>6, <1>7, <2>1
<1>9. CASE Step(c, CommitFailed(x[c])) /\ UNCHANGED <<row, trigger, tx1>>
  <2> HIDE DEF failed
  <2> QED  BY <1>1, <1>6, <1>7, <1>9, Running, Continues DEF failed
<1> QED  BY <1>5, <1>8, <1>9 DEF Commit, At

\* A failure after the commit ends the executor as committed.
LEMMA PostVerifyFailedExecutes ==
  ASSUME RecordInv, NEW c \in Calls, call[c].pc = "run", Aside, x[c].at \in {"tx2", "ready", "exchange"},
         NEW run \in RunRecord, run.at = "close", run.outcome = "COMMITTED_BUT_POSTVERIFY_FAILED",
         run.blocked = x[c].blocked, Step(c, run), UNCHANGED <<row, trigger, tx1, fence>>
  PROVE  RecordInv'
<1>1. Inside(c) /\ call'[c].pc = "run" /\ led' = led
  BY DEF Inside, Aside
<1>2. tx1 = 1 /\ ~x[c].blocked /\ led.state # "TERMINAL"
  BY Running DEF RunOK
<1>3. x'[c] = run => RunOK(c)'
  BY <1>1, <1>2, Ends
<1> QED  BY <1>1, <1>3, Running, Continues

LEMMA PostVerifyExecutes ==
  ASSUME RecordInv, NEW c \in Calls, call[c].pc = "run", PostVerify(c), Aside
  PROVE  RecordInv'
<1>1. /\ x[c].at = "tx2" /\ Inside(c) /\ call'[c].pc = "run" /\ led' = led /\ x[c] \in RunRecord
      /\ UNCHANGED <<row, trigger, tx1, fence>>
  BY Running DEF PostVerify, Inside, Aside
<1>2. tx1 = 1 /\ ~x[c].blocked /\ led.state # "TERMINAL"
  BY <1>1, Running DEF RunOK
<1> DEFINE run == [Forget(x[c]) EXCEPT !.at = "ready", !.verified = TRUE, !.outcome = "COMMITTED_AND_VERIFIED",
                                       !.before = row]
<1>3. CASE Step(c, run)
  <2>1. run \in RunRecord /\ run.at = "ready" /\ run.blocked = x[c].blocked
    <3>1. Forget(x[c]) \in RunRecord /\ Forget(x[c]).blocked = x[c].blocked /\ row \in Facts
      BY <1>1, ForgetFields, Running
    <3> QED  BY <3>1 DEF RunRecord, Phases, Outcomes
  <2> HIDE DEF run
  <2>2. x'[c] = run => RunOK(c)'
    BY <1>1, <1>2, <2>1 DEF RunOK, InTX1
  <2> QED  BY <1>1, <1>3, <2>1, <2>2, Running, Continues
<1>4. CASE Step(c, PostVerifyFailed(x[c]))
  BY <1>1, <1>4, FailFields, PostVerifyFailedExecutes
<1> HIDE DEF run
<1> QED  BY <1>3, <1>4 DEF PostVerify, run

LEMMA ReadinessExecutes ==
  ASSUME RecordInv, NEW c \in Calls, call[c].pc = "run", Readiness(c), Aside
  PROVE  RecordInv'
<1>1. /\ x[c].at = "ready" /\ Inside(c) /\ call'[c].pc = "run" /\ led' = led /\ x[c] \in RunRecord
      /\ UNCHANGED <<row, trigger, tx1, fence>>
  BY Running DEF Readiness, Inside, Aside
<1>2. tx1 = 1 /\ ~x[c].blocked /\ led.state # "TERMINAL"
  BY <1>1, Running DEF RunOK
<1> DEFINE run == [x[c] EXCEPT !.at = "exchange", !.d007 = "live"]
<1>3. CASE Step(c, run)
  <2>1. run \in RunRecord /\ run.at = "exchange" /\ run.blocked = x[c].blocked
    BY <1>1 DEF RunRecord, Phases
  <2> HIDE DEF run
  <2>2. x'[c] = run => RunOK(c)'
    BY <1>1, <1>2, <2>1 DEF RunOK, InTX1
  <2> QED  BY <1>1, <1>3, <2>1, <2>2, Running, Continues
<1>4. CASE Step(c, PostVerifyFailed(x[c]))
  BY <1>1, <1>4, FailFields, PostVerifyFailedExecutes
<1> QED  BY <1>3, <1>4 DEF Readiness

LEMMA ExchangeExecutes ==
  ASSUME RecordInv, NEW c \in Calls, call[c].pc = "run", Exchange(c), Aside
  PROVE  RecordInv'
<1>1. /\ x[c].at = "exchange" /\ Inside(c) /\ call'[c].pc = "run" /\ led' = led /\ x[c] \in RunRecord
      /\ UNCHANGED <<row, trigger, tx1, fence>>
  BY Running DEF Exchange, Inside, Aside
<1>2. tx1 = 1 /\ ~x[c].blocked /\ led.state # "TERMINAL"
  BY <1>1, Running DEF RunOK
<1>3. PICK fresh \in BOOLEAN :
        LET handoff == IssueD010(ConsumeD007(x[c], fresh), x[c]) IN
        Step(c, IF handoff = "unused" THEN InstallHandoff(x[c], handoff)
                ELSE [PostVerifyFailed(x[c]) EXCEPT !.d007 = "spent"])
  BY DEF Exchange
<1> DEFINE given == IssueD010(ConsumeD007(x[c], fresh), x[c])
<1>4. CASE given = "unused"
  <2> DEFINE run == InstallHandoff(x[c], "unused")
  <2>1. EvidenceValid(x[c])
    BY <1>4 DEF IssueD010
  <2>2. run \in RunRecord /\ run.at = "close" /\ run.blocked = x[c].blocked /\ run.outcome = x[c].outcome
    BY <1>1, ForgetFields DEF InstallHandoff, RunRecord, Phases
  <2>3. Step(c, run)
    BY <1>3, <1>4
  <2> HIDE DEF run
  <2>4. x'[c] = run => RunOK(c)'
    BY <1>1, <1>2, <2>1, <2>2, Ends DEF EvidenceValid
  <2> QED  BY <1>1, <2>2, <2>3, <2>4, Running, Continues
<1>5. CASE given # "unused"
  <2> DEFINE run == [PostVerifyFailed(x[c]) EXCEPT !.d007 = "spent"]
  <2>1. /\ PostVerifyFailed(x[c]) \in RunRecord /\ PostVerifyFailed(x[c]).at = "close"
        /\ PostVerifyFailed(x[c]).outcome = "COMMITTED_BUT_POSTVERIFY_FAILED"
        /\ PostVerifyFailed(x[c]).blocked = x[c].blocked
    BY <1>1, FailFields
  <2>2. /\ run \in RunRecord /\ run.at = "close" /\ run.outcome = "COMMITTED_BUT_POSTVERIFY_FAILED"
        /\ run.blocked = x[c].blocked
    BY <2>1 DEF RunRecord
  <2>3. Step(c, run)
    BY <1>3, <1>5
  <2> HIDE DEF run
  <2> QED  BY <1>1, <2>2, <2>3, PostVerifyFailedExecutes
<1> QED  BY <1>4, <1>5

LEMMA CloseFenceExecutes ==
  ASSUME RecordInv, NEW c \in Calls, call[c].pc = "run", CloseFence(c), Aside
  PROVE  RecordInv'
<1>1. /\ x[c].at = "close" /\ Inside(c) /\ call'[c].pc = "run" /\ led' = led /\ x[c] \in RunRecord
      /\ UNCHANGED <<row, trigger, tx1>>
  BY Running DEF CloseFence, Inside, Aside
<1>2. /\ x[c].outcome = "NOT_COMMITTED" => tx1 = 0
      /\ x[c].outcome \in {"COMMITTED_AND_VERIFIED", "COMMITTED_BUT_POSTVERIFY_FAILED"} => tx1 = 1
      /\ x[c].blocked => x[c].outcome = "NOT_COMMITTED"
  BY <1>1, Running DEF RunOK
<1>3. ASSUME NEW run \in RunRecord, Step(c, run), run.at = "returned", run.outcome = x[c].outcome,
             run.blocked = x[c].blocked, fence' \in {None, "orphan"}
      PROVE  RecordInv'
  <2>1. x'[c] = run => RunOK(c)'
    BY <1>1, <1>2, <1>3, Ends
  <2> QED  BY <1>1, <1>3, <2>1, Continues
<1>4. CASE fence' = None /\ Step(c, At(x[c], "returned"))
  BY <1>1, <1>3, <1>4, AtFields DEF Phases
<1>5. CASE fence' = "orphan" /\ Step(c, [x[c] EXCEPT !.at = "returned", !.cleanup = "UNCERTAIN"])
  <2> DEFINE run == [x[c] EXCEPT !.at = "returned", !.cleanup = "UNCERTAIN"]
  <2>1. run \in RunRecord /\ run.at = "returned" /\ run.outcome = x[c].outcome /\ run.blocked = x[c].blocked
    BY <1>1 DEF RunRecord, Phases
  <2> HIDE DEF run
  <2> QED  BY <1>3, <1>5, <2>1 DEF run
<1> QED  BY <1>4, <1>5 DEF CloseFence, At

LEMMA RunPreserves ==
  ASSUME RecordInv, NEW c \in Calls, Run(c)
  PROVE  RecordInv'
<1>1. call[c].pc = "run" /\ RunX(c) /\ Aside
  BY DEF Run, d4vars, Aside
<1> QED  BY <1>1, OpenFenceExecutes, BeginExecutes, PlanExecutes, SpendLeaseExecutes, WriteExecutes,
            VerifyExecutes, CommitExecutes, PostVerifyExecutes, ReadinessExecutes, ExchangeExecutes,
            CloseFenceExecutes DEF RunX

-----------------------------------------------------------------------------
(* The start, the world around the executor, and calls that drive nothing *)

LEMMA RecordInit == Init => RecordInv
<1> SUFFICES ASSUME Init PROVE RecordInv
  OBVIOUS
<1>1. /\ led = NoRow /\ jour = <<>> /\ tx1 = 0 /\ invoked = 0 /\ resumed = 0 /\ doubtful = FALSE
      /\ trigger = TRUE /\ fence = None /\ \A c \in Calls : call[c] = NewCall /\ x[c] = FreshRun
  BY DEF Init, InitX
<1>2. /\ led \in RowRecord /\ led.state = "none" /\ led.claim = None /\ led.result = NoResult
  BY <1>1 DEF NoRow, RowRecord, Sayings, Classes
<1>3. row \in Facts
  BY DEF Init, InitX, Blank, Facts, Rows
<1>4. RecordTypes
  <2>1. call \in [Calls -> CallRecord]
    BY NewCallFields DEF Init
  <2>2. x \in [Calls -> RunRecord]
    BY FreshRunFields DEF Init, InitX
  <2>3. jour \in Seq(States \X States)
    <3> DEFINE S == States \X States
    <3> HIDE DEF S
    <3>1. jour \in Seq(S)
      BY <1>1
    <3> QED  BY <3>1 DEF S
  <2> QED  BY <1>1, <1>2, <1>3, <2>1, <2>2, <2>3 DEF RecordTypes
<1>5. \A c \in Calls : ~Driver(c) /\ ~Sends(c)
  BY <1>1, NewCallFields DEF Driver, Sends
<1>6. DriversOK /\ DoubtOK
  BY <1>1, <1>2, <1>5 DEF DriversOK, DoubtOK
<1>7. RowOK
  BY <1>1, <1>2, SayingFacts DEF RowOK, RequiresClaim, Claimed
<1>8. JournalLinks
  BY <1>1, <1>2 DEF JournalLinks
<1>9. ASSUME NEW c \in Calls PROVE EventOK(c) /\ ResolveOK(c) /\ CompOK(c) /\ RunOK(c)
  <2>1. EventOK(c) /\ ResolveOK(c)
    BY <1>1, <1>5, NewCallFields DEF EventOK, ResolveOK
  <2>2. CompOK(c)
    <3>1. /\ call[c].comp.safe = NoResult /\ ~call[c].comp.cont /\ ~call[c].comp.wait
          /\ call[c].pc # "continue" /\ NoResult # Won
      BY <1>1, NewCallFields, SayingFacts
    <3> QED  BY <3>1 DEF CompOK
  <2>3. RunOK(c)
    BY <1>1, FreshRunFields DEF RunOK, InTX1
  <2> QED  BY <2>1, <2>2, <2>3
<1> QED  BY <1>4, <1>6, <1>7, <1>8, <1>9 DEF RecordInv

\* Sessions of others write only rows that no open first transaction wrote.
LEMMA WorldPreserves ==
  ASSUME RecordInv, World
  PROVE  RecordInv'
<1>1. UNCHANGED <<led, jour, call, invoked, resumed, doubtful, x, tx1, trigger>>
  BY DEF World, d4vars, SessionEnds, ForeignWrite, SupplyMapping
<1>2. row' \in Facts /\ fence' \in Calls \cup {None, "orphan"}
  BY DEF World, SessionEnds, ForeignWrite, SupplyMapping, RecordInv, RecordTypes, Facts
<1>3. RecordTypes'
  BY <1>1, <1>2 DEF RecordInv, RecordTypes
<1>4. \A r \in Rows : row'[r] = row[r] \/ ~Locked(r)
  BY DEF World, SessionEnds, ForeignWrite, SupplyMapping, RecordInv, RecordTypes, Facts
<1>5. \A c \in Calls : (Driver(c)' <=> Driver(c)) /\ Expects(c)' = Expects(c) /\ Sends(c)' = Sends(c)
  BY <1>1 DEF Driver, Expects, Sends
<1>6. DriversOK' /\ RowOK' /\ DoubtOK' /\ JournalLinks'
  <2>1. DriversOK'
    BY <1>1, <1>5 DEF RecordInv, DriversOK
  <2>2. RowOK'
    BY <1>1 DEF RecordInv, RowOK, RequiresClaim, Entries, TrueSaying
  <2>3. DoubtOK'
    BY <1>1, <1>5 DEF RecordInv, DoubtOK
  <2>4. JournalLinks'
    BY <1>1 DEF RecordInv, JournalLinks
  <2> QED  BY <2>1, <2>2, <2>3, <2>4
<1>7. ASSUME NEW c \in Calls PROVE EventOK(c)' /\ ResolveOK(c)' /\ CompOK(c)' /\ RunOK(c)'
  <2>1. EventOK(c)'
    BY <1>1, <1>5 DEF RecordInv, EventOK
  <2>2. ResolveOK(c)'
    BY <1>1, <1>5 DEF RecordInv, ResolveOK, Inside, TrueSaying
  <2>3. CompOK(c)'
    BY <1>1, <1>5 DEF RecordInv, CompOK, TrueSaying
  <2>4. x[c].at \in InTX1 => \A r \in Rows : x[c].work[r] # x[c].before[r] =>
          x[c].work[r] = "own" /\ x[c].before[r] = "null" /\ row'[r] = "null"
    BY <1>4 DEF RecordInv, RunOK, Locked
  <2>5. RunOK(c)'
    BY <1>1, <2>4 DEF RecordInv, RunOK
  <2> QED  BY <2>1, <2>2, <2>3, <2>5
<1> QED  BY <1>3, <1>6, <1>7 DEF RecordInv

\* A call that is no driver has no result in hand.
LEMMA NoResultInHand ==
  ASSUME RecordInv, NEW c \in Calls, ~Driver(c)
  PROVE  Empty(call[c].comp)
BY SayingFacts DEF RecordInv, CompOK, Empty

\* A call ends, or prepares an event that is not a driver's.
LEMMA Prepares ==
  ASSUME RecordInv, NEW c \in Calls, call[c].pc # "run", NEW k \in CallRecord, Goto(c, k), x' = x,
         Keeps, led' \in RowRecord, UNCHANGED <<trigger, fence, doubtful>>,
         Empty(k.comp), k.pc \notin {"run", "continue"}, k.pc = "claim" => k.job = "process",
         k.pc \in {"read", "cas"} =>
            /\ EventFits(k)
            /\ k.job \in {"process", "resume"} => k.ev.kind = "RESUME"
            /\ k.job = "resolve" => /\ led'.state \in Dead /\ TrueSaying(k.ev.result)
                                    /\ \A d \in Calls : ~Inside(d)
  PROVE  RecordInv'
<1>1. /\ call' \in [Calls -> CallRecord] /\ call'[c] = k
      /\ \A d \in Calls \ {c} : call'[d] = call[d]
  BY Gone DEF RecordInv, RecordTypes
<1>2. Others(c)
  BY <1>1 DEF Others
<1>3. x'[c].at = "idle"
  BY NoExecutor
<1>4. RecordTypes'
  BY <1>1 DEF RecordInv, RecordTypes, Keeps
<1>5. ~Driver(c)' /\ EventOK(c)'
  BY <1>1 DEF Driver, Sends, EventOK
<1>6. ResolveOK(c)'
  BY <1>1 DEF Sends, ResolveOK, Inside, TrueSaying, Keeps
<1> QED  BY <1>1, <1>2, <1>3, <1>4, <1>5, <1>6, Retires

LEMMA Quits ==
  ASSUME RecordInv, NEW c \in Calls, call[c].pc # "run", Return(c), x' = x,
         Keeps, led' \in RowRecord, UNCHANGED <<trigger, fence, doubtful>>
  PROVE  RecordInv'
BY ReturnedFields, NewCallFields, Prepares DEF Return, Empty

LEMMA StartPreservesRecord ==
  ASSUME RecordInv, NEW c \in Calls, Start(c)
  PROVE  RecordInv'
<1>1. PICK job \in {"process", "finalize", "resume", "classify", "resolve", "bundle"} :
        Goto(c, [NewCall EXCEPT !.job = job, !.pc = CASE job \in {"process", "finalize"} -> "receive"
                                                      [] job = "bundle" -> "bundle"
                                                      [] OTHER -> "get"])
  BY DEF Start
<1> DEFINE p == CASE job \in {"process", "finalize"} -> "receive"
                  [] job = "bundle" -> "bundle"
                  [] OTHER -> "get"
           k == [NewCall EXCEPT !.job = job, !.pc = p]
<1>2. p \in {"receive", "bundle", "get"}
  OBVIOUS
<1> HIDE DEF p
<1>3. k \in CallRecord /\ k.pc = p /\ Empty(k.comp)
  BY <1>2, NewCallFields DEF CallRecord, CallPcs, Jobs, Empty
<1>4. Goto(c, k)
  BY <1>1 DEF p
<1> HIDE DEF k
<1>5. /\ call[c].pc # "run" /\ x' = x /\ Keeps /\ led' \in RowRecord
      /\ UNCHANGED <<trigger, fence, doubtful>>
  BY DEF Start, xvars, Keeps, RecordInv, RecordTypes
<1> QED  BY <1>2, <1>3, <1>4, <1>5, Prepares

LEMMA RowFields ==
  /\ Received \in RowRecord /\ Received.state = "RECEIVED" /\ Received.claim = None
  /\ Received.result = NoResult /\ Received.corr = "none"
  /\ NoRow.state = "none" /\ NoRow.claim = None /\ NoRow.result = NoResult /\ NoRow.corr = "none"
BY DEF Received, NoRow, RowRecord, States, Sayings, Classes

\* The row is received once.
LEMMA ReceiveKeeps ==
  ASSUME RecordInv, led' = StoreReceive, UNCHANGED <<jour, tx1, row, invoked, resumed>>
  PROVE  Keeps /\ led' \in RowRecord
<1>1. CASE led = NoRow
  BY <1>1, RowFields DEF StoreReceive, Keeps
<1>2. CASE led # NoRow
  BY <1>2 DEF StoreReceive, Keeps, RecordInv, RecordTypes
<1> QED  BY <1>1, <1>2

LEMMA CallTypeOf ==
  ASSUME RecordInv, NEW c \in Calls
  PROVE  call[c] \in CallRecord /\ call[c].ev \in Events /\ call[c].comp \in Composites
BY DEF RecordInv, RecordTypes, CallRecord

\* A call with another place, claim and event.
With(k, p, claim, ev) == [k EXCEPT !.pc = p, !.claim = claim, !.ev = ev]

LEMMA WithFields ==
  ASSUME NEW k \in CallRecord, NEW p \in CallPcs, NEW claim \in Calls \cup {None}, NEW ev \in Events
  PROVE  /\ With(k, p, claim, ev) \in CallRecord /\ With(k, p, claim, ev).pc = p
         /\ With(k, p, claim, ev).job = k.job /\ With(k, p, claim, ev).ev = ev
         /\ With(k, p, claim, ev).comp = k.comp /\ With(k, p, claim, ev).claim = claim
BY DEF With, CallRecord

LEMMA PlaceFields ==
  ASSUME NEW k \in CallRecord, NEW p \in CallPcs
  PROVE  /\ [k EXCEPT !.pc = p] \in CallRecord /\ [k EXCEPT !.pc = p].pc = p
         /\ [k EXCEPT !.pc = p].job = k.job /\ [k EXCEPT !.pc = p].ev = k.ev
         /\ [k EXCEPT !.pc = p].comp = k.comp /\ [k EXCEPT !.pc = p].claim = k.claim
BY DEF CallRecord

LEMMA SendFields ==
  ASSUME NEW k \in CallRecord, NEW ev \in Events
  PROVE  LET n == [k EXCEPT !.pc = "read", !.ev = ev]
         IN  /\ n \in CallRecord /\ n.pc = "read" /\ n.job = k.job /\ n.ev = ev /\ n.comp = k.comp
BY DEF CallRecord, CallPcs

LEMMA ReceivePreserves ==
  ASSUME RecordInv, NEW c \in Calls, Receive(c)
  PROVE  RecordInv'
<1>1. /\ call[c].pc = "receive" /\ led' = StoreReceive /\ x' = x
      /\ UNCHANGED <<jour, tx1, row, invoked, resumed, trigger, fence, doubtful>>
  BY DEF Receive, xvars
<1>2. Keeps /\ led' \in RowRecord
  BY <1>1, ReceiveKeeps
<1>3. ~Driver(c) /\ Empty(call[c].comp)
  BY <1>1, NoResultInHand DEF Driver, Sends
<1>4. CASE Return(c)
  BY <1>1, <1>2, <1>4, Quits
<1>5. CASE call[c].job = "process" /\ Goto(c, [call[c] EXCEPT !.pc = "claim"])
  <2> DEFINE k == [call[c] EXCEPT !.pc = "claim"]
  <2>1. k \in CallRecord /\ k.pc = "claim" /\ k.job = call[c].job /\ k.comp = call[c].comp
    BY CallTypeOf, PlaceFields DEF CallPcs
  <2> HIDE DEF k
  <2> QED  BY <1>1, <1>2, <1>3, <1>5, <2>1, Prepares DEF k
<1>6. ASSUME NEW ev \in PreClaimEvents, call[c].job = "finalize", Send(c, ev) PROVE RecordInv'
  <2> DEFINE k == [call[c] EXCEPT !.pc = "read", !.ev = ev]
  <2>1. /\ ev \in Events /\ ev.expected = "RECEIVED"
        /\ \/ ev.kind = "TERMINAL" /\ ev.result = NotRun
           \/ ev.kind = "REQUIRE_RECOVERY" /\ ev.result = NoResult
    BY ResultEventFields, RecoveryEventFields DEF PreClaimEvents, Kinds, States, Sayings
  <2>2. k \in CallRecord /\ k.pc = "read" /\ k.job = call[c].job /\ k.ev = ev /\ k.comp = call[c].comp
    BY <2>1, CallTypeOf, SendFields
  <2>3. Goto(c, k)
    BY <1>6 DEF Send
  <2> HIDE DEF k
  <2>4. EventFits(k)
    BY <1>6, <2>1, <2>2 DEF EventFits
  <2> QED  BY <1>1, <1>2, <1>3, <1>6, <2>2, <2>3, <2>4, Prepares
<1> QED  BY <1>4, <1>5, <1>6 DEF Receive

\* The owner answers what the database did.
LEMMA AnswersAreTrue ==
  ASSUME NEW res, res \in Answers, tx1 \in {0, 1}
  PROVE  res \in {NotRun, Won, Partial} /\ TrueSaying(res)
<1>1. Answers = IF tx1 = 0 THEN {NotRun} ELSE {Partial, Won}
  BY DEF Answers, Partial, Won
<1>2. CASE tx1 = 0
  BY <1>1, <1>2, SayingFacts DEF TrueSaying
<1>3. CASE tx1 = 1
  <2>1. Answers = {Partial, Won}
    BY <1>1, <1>3
  <2> QED  BY <1>3, <2>1, SayingFacts DEF TrueSaying
<1> QED  BY <1>2, <1>3

Resolution(res, class) == [ResultEvent("RESOLVE", "RECOVERY_REQUIRED", res) EXCEPT !.class = class]

LEMMA ResolutionFields ==
  ASSUME NEW res \in {NotRun, Won, Partial}, NEW class \in {"", "UNKNOWN_COMMIT_OR_CLEANUP"}
  PROVE  LET ev == Resolution(res, class)
         IN  /\ ev \in Events /\ ev.kind = "RESOLVE" /\ ev.expected = "RECOVERY_REQUIRED"
             /\ ev.result = res /\ ev.class = class
<1> DEFINE re == ResultEvent("RESOLVE", "RECOVERY_REQUIRED", res)
<1>1. /\ re \in Events /\ re.kind = "RESOLVE" /\ re.expected = "RECOVERY_REQUIRED" /\ re.result = res
  BY DEF ResultEvent, Event, Events, Kinds, States, Sayings, Classes
<1> HIDE DEF re
<1>2. LET ev == [re EXCEPT !.class = class]
      IN  /\ ev \in Events /\ ev.kind = "RESOLVE" /\ ev.expected = "RECOVERY_REQUIRED"
          /\ ev.result = res /\ ev.class = class
  BY <1>1 DEF Events, Classes
<1> QED  BY <1>2 DEF re, Resolution

LEMMA GetRecordPreserves ==
  ASSUME RecordInv, NEW c \in Calls, GetRecord(c)
  PROVE  RecordInv'
<1>1. /\ call[c].pc = "get" /\ led' = led /\ x' = x
      /\ UNCHANGED <<jour, tx1, row, invoked, resumed, trigger, fence, doubtful>>
  BY DEF GetRecord, xvars
<1>2. Keeps /\ led' \in RowRecord /\ led.claim \in Calls \cup {None} /\ led.state \in States \cup {"none"}
  BY <1>1 DEF Keeps, RecordInv, RecordTypes, RowRecord
<1>3. ~Driver(c) /\ Empty(call[c].comp)
  BY <1>1, NoResultInHand DEF Driver, Sends
<1>4. CASE Return(c)
  BY <1>1, <1>2, <1>4, Quits
<1>0. call[c] \in CallRecord /\ "read" \in CallPcs
  BY CallTypeOf DEF CallPcs
<1>5. ASSUME NEW ev \in Events, Goto(c, With(call[c], "read", led.claim, ev)),
             EventFits(With(call[c], "read", led.claim, ev)),
             call[c].job \in {"process", "resume"} => ev.kind = "RESUME",
             call[c].job = "resolve" => /\ led.state \in Dead /\ TrueSaying(ev.result)
                                        /\ \A d \in Calls : ~Inside(d)
      PROVE  RecordInv'
  <2> DEFINE k == With(call[c], "read", led.claim, ev)
  <2>1. k \in CallRecord /\ k.pc = "read" /\ k.job = call[c].job /\ k.ev = ev /\ k.comp = call[c].comp
    BY <1>0, <1>2, <1>5, WithFields
  <2> HIDE DEF k
  <2> QED  BY <1>1, <1>2, <1>3, <1>5, <2>1, Prepares DEF k
<1>6. ASSUME NEW ev \in Events
      PROVE  /\ With(call[c], "read", led.claim, ev).pc = "read"
             /\ With(call[c], "read", led.claim, ev).ev = ev
             /\ With(call[c], "read", led.claim, ev).job = call[c].job
  BY <1>0, <1>2, <1>6, WithFields
<1>7. CASE call[c].job = "resume" /\ led.state = "WAITING_FOR_MAPPING" /\ ResumeMapping(c)
  <2> DEFINE ev == Event("RESUME", "WAITING_FOR_MAPPING")
  <2>1. /\ ev \in Events /\ ev.kind = "RESUME" /\ ev.expected = "WAITING_FOR_MAPPING"
        /\ ev.result = NoResult
    <3>1. "RESUME" \in Kinds /\ "WAITING_FOR_MAPPING" \in States \cup {"none"}
      BY DEF Kinds, States
    <3> QED  BY <3>1, EventFields
  <2>2. Goto(c, With(call[c], "read", led.claim, ev))
    BY <1>7 DEF ResumeMapping, With
  <2> HIDE DEF ev
  <2>3. EventFits(With(call[c], "read", led.claim, ev))
    BY <1>6, <1>7, <2>1 DEF EventFits, DriveOK
  <2> QED  BY <1>5, <1>7, <2>1, <2>2, <2>3
<1>8. CASE /\ call[c].job = "classify" /\ led.state \in {"EXECUTING", "CONTINUATION_PENDING"}
           /\ ClassifyStartup(c)
  <2> DEFINE ev == RecoveryEvent(led.state)
  <2>1. /\ ev \in Events /\ ev.kind = "REQUIRE_RECOVERY" /\ ev.expected = led.state
        /\ ev.result = NoResult
    BY <1>8, RecoveryEventFields DEF States
  <2>2. Goto(c, With(call[c], "read", led.claim, ev))
    BY <1>8 DEF ClassifyStartup, With
  <2> HIDE DEF ev
  <2>3. EventFits(With(call[c], "read", led.claim, ev))
    BY <1>6, <1>8, <2>1 DEF EventFits
  <2> QED  BY <1>5, <1>8, <2>1, <2>2, <2>3
<1>9. ASSUME call[c].job = "resolve", led.state = "RECOVERY_REQUIRED", \A d \in Calls : ~Inside(d),
             NEW res, res \in Answers, NEW class \in {"", "UNKNOWN_COMMIT_OR_CLEANUP"},
             ResolutionSafe(res, class), Goto(c, With(call[c], "read", led.claim, Resolution(res, class)))
      PROVE  RecordInv'
  <2> DEFINE ev == Resolution(res, class)
  <2>1. res \in {NotRun, Won, Partial} /\ TrueSaying(res)
    BY <1>9, AnswersAreTrue DEF RecordInv, RecordTypes
  <2>2. /\ ev \in Events /\ ev.kind = "RESOLVE" /\ ev.expected = "RECOVERY_REQUIRED" /\ ev.result = res
        /\ ev.class = class
    BY <1>9, <2>1, ResolutionFields
  <2>3. res = Won => class = ""
    BY <1>9, SayingFacts DEF ResolutionSafe
  <2>4. Goto(c, With(call[c], "read", led.claim, ev))
    BY <1>9
  <2> HIDE DEF ev
  <2>5. EventFits(With(call[c], "read", led.claim, ev))
    BY <1>6, <1>9, <2>1, <2>2, <2>3 DEF EventFits
  <2> QED  BY <1>5, <1>9, <2>1, <2>2, <2>4, <2>5 DEF Dead
<1>10. CASE call[c].job = "resolve" /\ Resolve(c)
  BY <1>4, <1>9, <1>10 DEF Resolve, With, Resolution
<1> QED  BY <1>4, <1>7, <1>8, <1>10 DEF GetRecord, ResumeMapping, ClassifyStartup

\* The approval and the reading of the row change nothing durable; a successful
\* resolution has no recovery class and does not pass the validation.
LEMMA TransitionReadPreserves ==
  ASSUME RecordInv, NEW c \in Calls, TransitionRead(c)
  PROVE  RecordInv'
<1>1. /\ call[c].pc = "read" /\ led' = led /\ x' = x
      /\ UNCHANGED <<jour, tx1, row, invoked, resumed, trigger, fence, doubtful>>
  BY DEF TransitionRead, xvars
<1>2. CASE Return(c)
  <2>1. Keeps /\ led' \in RowRecord
    BY <1>1 DEF Keeps, RecordInv, RecordTypes
  <2> QED  BY <1>1, <1>2, <2>1, Quits
<1>3. CASE ValidateEvent(led, call[c].ev) /\ Goto(c, [call[c] EXCEPT !.pc = "cas"])
  <2> DEFINE k == [call[c] EXCEPT !.pc = "cas"]
  <2>1. /\ k \in CallRecord /\ k.pc = "cas" /\ k.job = call[c].job /\ k.ev = call[c].ev
        /\ k.comp = call[c].comp
    BY CallTypeOf, PlaceFields DEF CallPcs
  <2>2. Goto(c, k)
    BY <1>3
  <2> HIDE DEF k
  <2>3. /\ call' \in [Calls -> CallRecord] /\ call'[c] = k
        /\ \A d \in Calls \ {c} : call'[d] = call[d]
    BY <2>1, <2>2, Gone DEF RecordInv, RecordTypes
  <2>4. RecordTypes'
    BY <1>1, <2>3 DEF RecordInv, RecordTypes
  <2>5. \A d \in Calls : /\ Driver(d)' <=> Driver(d)
                         /\ Expects(d)' = Expects(d) /\ Sends(d)' = Sends(d)
    BY <1>1, <2>1, <2>3 DEF Driver, Expects, Sends
  <2>6. DriversOK'
    BY <1>1, <2>5 DEF RecordInv, DriversOK
  <2>7. RowOK'
    BY <1>1 DEF RecordInv, RowOK, RequiresClaim, Entries, TrueSaying
  <2>8. DoubtOK'
    <3>1. \A d \in Calls : call'[d].ev.kind = call[d].ev.kind
      BY <2>1, <2>3
    <3> QED  BY <1>1, <2>5, <3>1 DEF RecordInv, DoubtOK
  <2>9. JournalLinks'
    BY <1>1 DEF RecordInv, JournalLinks
  <2>10. ASSUME NEW d \in Calls PROVE EventOK(d)'
    <3>1. CASE d # c
      BY <2>3, <2>5, <3>1 DEF RecordInv, EventOK
    <3>2. CASE d = c
      <4>1. EventFits(call[c])
        BY <1>1 DEF RecordInv, EventOK, Sends
      <4>2. call[c].ev.kind = "RESOLVE" => call[c].ev.class # ""
        BY <1>3 DEF ValidateEvent
      <4>3. EventFits(k)
        BY <2>1, <4>1, <4>2 DEF EventFits
      <4> QED  BY <2>1, <2>3, <3>2, <4>3 DEF EventOK
    <3> QED  BY <3>1, <3>2
  <2>11. ASSUME NEW d \in Calls PROVE ResolveOK(d)' /\ CompOK(d)' /\ RunOK(d)'
    <3>1. /\ call'[d].job = call[d].job /\ call'[d].ev = call[d].ev /\ call'[d].comp = call[d].comp
          /\ call'[d].pc = call[d].pc \/ (call[d].pc = "read" /\ call'[d].pc = "cas")
      BY <1>1, <2>1, <2>3
    <3>2. ResolveOK(d)'
      BY <1>1, <2>5, <3>1 DEF RecordInv, ResolveOK, Inside, TrueSaying
    <3>3. CompOK(d)'
      BY <1>1, <2>5, <3>1 DEF RecordInv, CompOK, TrueSaying
    <3>4. RunOK(d)'
      BY <1>1, <3>1 DEF RecordInv, RunOK
    <3> QED  BY <3>2, <3>3, <3>4
  <2> QED  BY <2>4, <2>6, <2>7, <2>8, <2>9, <2>10, <2>11 DEF RecordInv
<1> QED  BY <1>2, <1>3 DEF TransitionRead

\* A bundle adds a correlation and nothing else.
LEMMA AcceptFields ==
  ASSUME NEW rec \in RowRecord, NEW state, NEW corr \in {"k1", "k2", "own"}
  PROVE  LET a == AcceptBundle(rec, state, corr)
         IN  /\ a.rec \in RowRecord /\ a.rec.state = rec.state /\ a.rec.claim = rec.claim
             /\ a.rec.result = rec.result
             /\ rec.corr # "none" => a.rec.corr = rec.corr
             /\ rec.state = "TERMINAL" => a.rec = rec
<1> DEFINE n == [rec EXCEPT !.corr = corr]
           refused == rec.state # state \/ rec.corr \notin {"none", corr}
                      \/ (rec.corr = "none" /\ PreventTerminalMutation(rec))
<1>1. CASE refused
  <2>1. AcceptBundle(rec, state, corr).rec = rec
    BY <1>1 DEF AcceptBundle
  <2> QED  BY <2>1
<1>2. CASE ~refused
  <2>1. AcceptBundle(rec, state, corr).rec = n
    BY <1>2 DEF AcceptBundle
  <2>2. n \in RowRecord /\ n.state = rec.state /\ n.claim = rec.claim /\ n.result = rec.result /\ n.corr = corr
    BY DEF RowRecord
  <2>3. rec.corr # "none" => rec.corr = corr
    BY <1>2
  <2>4. rec.corr = corr => n = rec
    BY DEF RowRecord
  <2>5. rec.state = "TERMINAL" => rec.corr # "none"
    BY <1>2 DEF PreventTerminalMutation
  <2> HIDE DEF n
  <2> QED  BY <2>1, <2>2, <2>3, <2>4, <2>5
<1> QED  BY <1>1, <1>2

LEMMA ReceivedBundlePreserves ==
  ASSUME RecordInv, NEW c \in Calls, ReceivedBundle(c)
  PROVE  RecordInv'
<1>1. /\ call[c].pc = "bundle" /\ x' = x /\ Return(c)
      /\ UNCHANGED <<jour, tx1, row, invoked, resumed, trigger, fence, doubtful>>
  BY DEF ReceivedBundle, xvars
<1>2. PICK corr \in {"k1", "k2"} :
        LET a == AcceptBundle(StoreReceive, "RECEIVED", corr) IN led' = IF a.ok THEN a.rec ELSE led
  BY DEF ReceivedBundle
<1> DEFINE a == AcceptBundle(StoreReceive, "RECEIVED", corr)
<1>3. Keeps /\ led' \in RowRecord
  <2>1. /\ led \in RowRecord /\ StoreReceive \in RowRecord /\ StoreReceive.claim = led.claim
        /\ StoreReceive.result = led.result
        /\ StoreReceive.state = led.state \/ (led.state = "none" /\ StoreReceive.state = "RECEIVED")
    BY RowFields DEF StoreReceive, RecordInv, RecordTypes
  <2>2. /\ a.rec \in RowRecord /\ a.rec.state = StoreReceive.state /\ a.rec.claim = StoreReceive.claim
        /\ a.rec.result = StoreReceive.result
    BY <2>1, AcceptFields
  <2>3. led' = led \/ led' = a.rec
    BY <1>2
  <2> HIDE DEF a
  <2> QED  BY <1>1, <2>1, <2>2, <2>3 DEF Keeps
<1> QED  BY <1>1, <1>3, Quits

LEMMA OfferBundlePreserves ==
  ASSUME RecordInv, NEW c \in Calls, OfferBundle(c)
  PROVE  RecordInv'
<1> DEFINE a == AcceptBundle(led, "TERMINAL", "own")
<1>1. /\ call[c].pc = "offer" /\ x' = x /\ Return(c) /\ led' = a.rec
      /\ UNCHANGED <<jour, tx1, row, invoked, resumed, trigger, fence, doubtful>>
  BY DEF OfferBundle, xvars
<1>2. a.rec \in RowRecord /\ a.rec.state = led.state /\ a.rec.claim = led.claim /\ a.rec.result = led.result
  BY AcceptFields DEF RecordInv, RecordTypes
<1> HIDE DEF a
<1>3. Keeps /\ led' \in RowRecord
  BY <1>1, <1>2 DEF Keeps
<1> QED  BY <1>1, <1>3, Quits

LEMMA CrashPreserves ==
  ASSUME RecordInv, NEW c \in Calls, Crash(c)
  PROVE  RecordInv'
<1> DEFINE k == [NewCall EXCEPT !.pc = "dead"]
<1>1. k \in CallRecord /\ k.pc = "dead" /\ Empty(k.comp)
  BY NewCallFields DEF CallRecord, CallPcs, Empty
<1>2. Goto(c, k) /\ Step(c, FreshRun)
  BY DEF Crash, AbandonRun
<1> HIDE DEF k
<1>3. /\ call' \in [Calls -> CallRecord] /\ call'[c] = k
      /\ \A d \in Calls \ {c} : call'[d] = call[d]
  BY <1>1, <1>2, Gone DEF RecordInv, RecordTypes
<1>4. /\ x' \in [Calls -> RunRecord] /\ x'[c] = FreshRun /\ \A d \in Calls \ {c} : x'[d] = x[d]
  BY <1>2, FreshRunFields, Stepped DEF RecordInv, RecordTypes
<1>5. Others(c) /\ x'[c].at = "idle"
  BY <1>3, <1>4, FreshRunFields DEF Others
<1>6. Keeps /\ led' = led /\ trigger' = trigger /\ fence' \in {None, fence}
  BY DEF Crash, AbandonRun, Keeps
<1>7. doubtful' \in BOOLEAN /\ (doubtful' = doubtful \/ (doubtful' /\ call[c].pc = "run"))
  BY DEF Crash, RecordInv, RecordTypes
<1>8. RecordTypes'
  BY <1>3, <1>4, <1>6, <1>7 DEF RecordInv, RecordTypes, Keeps
<1>9. ~Driver(c)' /\ EventOK(c)' /\ ResolveOK(c)'
  BY <1>1, <1>3 DEF Driver, Sends, EventOK, ResolveOK
<1> QED  BY <1>1, <1>3, <1>5, <1>6, <1>7, <1>8, <1>9, Retires

-----------------------------------------------------------------------------
(* Calls that move the record *)

\* A driver goes on while the record stays.
LEMMA Drives ==
  ASSUME RecordInv, NEW c \in Calls, Driver(c), Others(c), RecordTypes',
         UNCHANGED <<led, jour, tx1, row, invoked, resumed>>,
         x'[c].at = "idle", Driver(c)', Sends(c)', Expects(c)' = Expects(c), EventOK(c)', CompOK(c)',
         call'[c].job # "resolve",
         doubtful' => call'[c].ev.kind = "REQUIRE_RECOVERY" /\ led.state \in Dead \cup {"EXECUTING"}
  PROVE  RecordInv'
<1>1. \A d \in Calls \ {c} : /\ Driver(d)' <=> Driver(d)
                             /\ Expects(d)' = Expects(d) /\ Sends(d)' = Sends(d)
  BY DEF Others, Driver, Expects, Sends
<1>2. \A d \in Calls \ {c} : ~Driver(d) /\ ~Driver(d)'
  BY <1>1, OneDriver
<1>3. DriversOK'
  BY <1>2 DEF RecordInv, DriversOK
<1>4. RowOK'
  BY DEF RecordInv, RowOK, RequiresClaim, Entries, TrueSaying
<1>5. JournalLinks'
  BY DEF RecordInv, JournalLinks
<1>6. DoubtOK'
  BY <1>2 DEF RecordInv, DoubtOK
<1>7. ASSUME NEW d \in Calls PROVE EventOK(d)' /\ ResolveOK(d)'
  <2>1. CASE d = c
    BY <2>1 DEF ResolveOK
  <2>2. CASE d # c
    <3>1. call'[d] = call[d] /\ EventOK(d) /\ ResolveOK(d)
      BY <2>2 DEF Others, RecordInv
    <3>2. EventOK(d)'
      BY <1>1, <2>2, <3>1 DEF EventOK
    <3>3. ResolveOK(d)'
      BY <1>1, <2>2, <3>1 DEF ResolveOK, Others, Inside, TrueSaying
    <3> QED  BY <3>2, <3>3
  <2> QED  BY <2>1, <2>2
<1>8. ASSUME NEW d \in Calls PROVE CompOK(d)' /\ RunOK(d)'
  <2>1. CASE d = c
    BY <2>1 DEF RunOK, InTX1
  <2>2. CASE d # c
    <3>1. CompOK(d)'
      BY <1>1, <2>2 DEF RecordInv, CompOK, Others, TrueSaying
    <3>2. RunOK(d)'
      BY <2>2 DEF RecordInv, RunOK, Others
    <3> QED  BY <3>1, <3>2
  <2> QED  BY <2>1, <2>2
<1> QED  BY <1>3, <1>4, <1>5, <1>6, <1>7, <1>8 DEF RecordInv

\* The record leaves a state in which nobody else drives it and nobody
\* resolves it.
LEMMA Advances ==
  ASSUME RecordInv, NEW c \in Calls, Others(c), RecordTypes', UNCHANGED <<tx1, row, doubtful>>,
         \A d \in Calls \ {c} : ~Driver(d), led.state \notin Dead, ~doubtful,
         RowOK', JournalLinks', EventOK(c)', CompOK(c)', RunOK(c)', ~(Sends(c)' /\ call'[c].job = "resolve"),
         Driver(c)' => led'.state = Expects(c)' /\ led'.state # "TERMINAL"
  PROVE  RecordInv'
<1>1. \A d \in Calls \ {c} : ~Driver(d)' /\ Sends(d)' = Sends(d)
  BY DEF Others, Driver, Sends
<1>2. DriversOK'
  BY <1>1 DEF DriversOK
<1>3. DoubtOK'
  BY <1>1 DEF DoubtOK
<1>4. ASSUME NEW d \in Calls PROVE EventOK(d)' /\ ResolveOK(d)'
  <2>1. CASE d = c
    BY <2>1 DEF ResolveOK
  <2>2. CASE d # c
    <3>1. call'[d] = call[d] /\ EventOK(d) /\ ResolveOK(d)
      BY <2>2 DEF Others, RecordInv
    <3>2. EventOK(d)'
      BY <1>1, <2>2, <3>1 DEF EventOK
    <3>3. ResolveOK(d)'
      BY <1>1, <2>2, <3>1 DEF ResolveOK
    <3> QED  BY <3>2, <3>3
  <2> QED  BY <2>1, <2>2
<1>5. ASSUME NEW d \in Calls PROVE CompOK(d)' /\ RunOK(d)'
  <2>1. CASE d = c
    BY <2>1
  <2>2. CASE d # c
    <3>1. call'[d] = call[d] /\ x'[d] = x[d] /\ call[d].pc # "run"
      BY <2>2 DEF Others, Driver
    <3>2. CompOK(d)'
      BY <1>1, <2>2, <3>1 DEF RecordInv, CompOK
    <3>3. x[d].at = "idle"
      BY <3>1, NoExecutor
    <3>4. RunOK(d)'
      BY <3>1, <3>3 DEF RunOK, InTX1
    <3> QED  BY <3>2, <3>4
  <2> QED  BY <2>1, <2>2
<1> QED  BY <1>2, <1>3, <1>4, <1>5 DEF RecordInv

\* What a call that returned no longer is.
LEMMA ReturnedCall ==
  ASSUME RecordInv, NEW c \in Calls, Return(c)
  PROVE  /\ call' \in [Calls -> CallRecord] /\ \A d \in Calls \ {c} : call'[d] = call[d]
         /\ ~Driver(c)' /\ ~Sends(c)' /\ EventOK(c)' /\ ResolveOK(c)' /\ CompOK(c)'
<1>1. /\ call' \in [Calls -> CallRecord] /\ call'[c] = Returned
      /\ \A d \in Calls \ {c} : call'[d] = call[d]
  BY ReturnedFields, Gone DEF Return, RecordInv, RecordTypes
<1>2. ~Driver(c)' /\ ~Sends(c)' /\ EventOK(c)' /\ ResolveOK(c)'
  BY <1>1, ReturnedFields DEF Driver, Sends, EventOK, ResolveOK
<1>3. CompOK(c)'
  <2>1. /\ call'[c].comp.safe = NoResult /\ ~call'[c].comp.cont /\ ~call'[c].comp.wait
        /\ call'[c].pc # "continue" /\ NoResult # Won
    BY <1>1, ReturnedFields, NewCallFields, SayingFacts
  <2> QED  BY <2>1 DEF CompOK
<1> QED  BY <1>1, <1>2, <1>3

\* The record enters recovery, or leaves it for good; the caller returns.
LEMMA Settles ==
  ASSUME RecordInv, NEW c \in Calls, call[c].pc # "run", Return(c), x' = x, UNCHANGED <<tx1, row, doubtful>>,
         RecordTypes', RowOK', JournalLinks', led'.state \in Dead,
         led'.state = "TERMINAL" => jour'[Len(jour')] = Recovered /\ \A d \in Calls : ~Inside(d)
  PROVE  RecordInv'
<1>1. /\ \A d \in Calls \ {c} : call'[d] = call[d]
      /\ ~Driver(c)' /\ ~Sends(c)' /\ EventOK(c)' /\ ResolveOK(c)' /\ CompOK(c)'
  BY ReturnedCall
<1>2. \A d \in Calls \ {c} : /\ Driver(d)' <=> Driver(d)
                             /\ Expects(d)' = Expects(d) /\ Sends(d)' = Sends(d)
  BY <1>1 DEF Driver, Expects, Sends
<1>3. DriversOK'
  BY <1>1, <1>2 DEF RecordInv, DriversOK
<1>4. DoubtOK'
  BY <1>1, <1>2 DEF RecordInv, DoubtOK
<1>5. ASSUME NEW d \in Calls PROVE EventOK(d)' /\ ResolveOK(d)'
  <2>1. CASE d = c
    BY <1>1, <2>1
  <2>2. CASE d # c
    <3>1. call'[d] = call[d] /\ EventOK(d) /\ ResolveOK(d)
      BY <1>1, <2>2 DEF RecordInv
    <3>2. EventOK(d)'
      BY <1>2, <2>2, <3>1 DEF EventOK
    <3>3. ResolveOK(d)'
      BY <1>2, <2>2, <3>1 DEF ResolveOK, Inside, TrueSaying
    <3> QED  BY <3>2, <3>3
  <2> QED  BY <2>1, <2>2
<1>6. ASSUME NEW d \in Calls PROVE CompOK(d)' /\ RunOK(d)'
  <2>1. CASE d = c
    <3>1. x'[c].at = "idle"
      BY NoExecutor
    <3>2. RunOK(c)'
      BY <3>1 DEF RunOK, InTX1
    <3> QED  BY <1>1, <2>1, <3>2
  <2>2. CASE d # c
    <3>1. call'[d] = call[d]
      BY <1>1, <2>2
    <3>2. CompOK(d)'
      BY <1>2, <2>2, <3>1 DEF RecordInv, CompOK, TrueSaying
    <3>3. RunOK(d)'
      BY <3>1 DEF RecordInv, RunOK, Inside
    <3> QED  BY <3>2, <3>3
  <2> QED  BY <2>1, <2>2
<1> QED  BY <1>3, <1>4, <1>5, <1>6 DEF RecordInv

\* The states that no driver expects.
LEMMA NobodyDrives ==
  ASSUME RecordInv, led.state \in {"none", "RECEIVED", "WAITING_FOR_MAPPING"}
  PROVE  /\ \A d \in Calls : ~Driver(d)
         /\ led.state \notin Dead /\ ~doubtful
BY DriverStates DEF RecordInv, DoubtOK, Dead

\* The claim is won by one call, which then drives the record.
LEMMA ClaimPreserves ==
  ASSUME RecordInv, NEW c \in Calls, Claim(c)
  PROVE  RecordInv'
<1>1. /\ call[c].pc = "claim" /\ x' = x /\ call[c].job = "process"
      /\ UNCHANGED <<jour, tx1, row, invoked, resumed, trigger, fence, doubtful>>
  BY DEF Claim, xvars, RecordInv, EventOK
<1>2. ~Driver(c) /\ Empty(call[c].comp) /\ x[c].at = "idle"
  BY <1>1, NoResultInHand, NoExecutor DEF Driver, Sends
<1>3. CASE ~ClaimWon(led)
  <2>1. Return(c) /\ Keeps /\ led' \in RowRecord
    BY <1>1, <1>3 DEF Claim, Keeps, RecordInv, RecordTypes
  <2> QED  BY <1>1, <2>1, Quits
<1>4. CASE ClaimWon(led)
  <2>1. led' = [led EXCEPT !.state = "ADMITTED", !.claim = c]
    BY <1>4 DEF Claim
  <2>2. led.state = "RECEIVED" /\ led \in RowRecord
    BY <1>4 DEF ClaimWon, RecordInv, RecordTypes
  <2>3. /\ led' \in RowRecord /\ led'.state = "ADMITTED" /\ led'.claim = c /\ led'.result = led.result
    BY <2>1, <2>2 DEF RowRecord, States
  <2>4. (\A d \in Calls : ~Driver(d)) /\ led.state \notin Dead /\ ~doubtful
    BY <2>2, NobodyDrives
  <2>5. RowOK'
    BY <1>1, <2>2, <2>3, ExecutorAssumption
       DEF RecordInv, RowOK, RequiresClaim, Entries, TrueSaying
  <2>6. JournalLinks'
    BY <1>1, <2>2, <2>3 DEF RecordInv, JournalLinks, RowOK
  <2>7. CASE Return(c)
    <3>1. /\ call' \in [Calls -> CallRecord] /\ \A d \in Calls \ {c} : call'[d] = call[d]
          /\ ~Driver(c)' /\ ~Sends(c)' /\ EventOK(c)' /\ CompOK(c)'
      BY <2>7, ReturnedCall
    <3>2. RunOK(c)'
      BY <1>1, <1>2 DEF RunOK, InTX1
    <3>3. Others(c)
      BY <1>1, <3>1 DEF Others
    <3>4. RecordTypes'
      BY <1>1, <2>3, <3>1 DEF RecordInv, RecordTypes
    <3> QED  BY <1>1, <2>4, <2>5, <2>6, <3>1, <3>2, <3>3, <3>4, Advances
  <2>8. CASE Goto(c, With(call[c], "read", c, Event("BEGIN", "ADMITTED")))
    <3> DEFINE ev == Event("BEGIN", "ADMITTED")
               k == With(call[c], "read", c, ev)
    <3>1. ev \in Events /\ ev.kind = "BEGIN" /\ ev.expected = "ADMITTED" /\ ev.result = NoResult
      BY DEF Event, Events, Kinds, States, Sayings, Classes
    <3> HIDE DEF ev
    <3>2. call[c] \in CallRecord /\ "read" \in CallPcs
      BY CallTypeOf DEF CallPcs
    <3>3. k \in CallRecord /\ k.pc = "read" /\ k.job = "process" /\ k.ev = ev /\ k.comp = call[c].comp
      BY <1>1, <3>1, <3>2, WithFields
    <3>4. Goto(c, k)
      BY <2>8 DEF ev
    <3> HIDE DEF k
    <3>5. /\ call' \in [Calls -> CallRecord] /\ call'[c] = k
          /\ \A d \in Calls \ {c} : call'[d] = call[d]
      BY <3>3, <3>4, Gone DEF RecordInv, RecordTypes
    <3>6. EventOK(c)'
      BY <3>1, <3>3, <3>5 DEF EventOK, EventFits, DriveOK
    <3>7. CompOK(c)'
      BY <1>2, <3>3, <3>5, SayingFacts DEF CompOK, Empty
    <3>8. RunOK(c)'
      BY <1>1, <1>2 DEF RunOK, InTX1
    <3>9. Expects(c)' = "ADMITTED"
      BY <3>1, <3>3, <3>5 DEF Expects
    <3>10. Others(c)
      BY <1>1, <3>5 DEF Others
    <3>11. RecordTypes'
      BY <1>1, <2>3, <3>5 DEF RecordInv, RecordTypes
    <3> QED  BY <1>1, <2>3, <2>4, <2>5, <2>6, <3>3, <3>5, <3>6, <3>7, <3>8, <3>9, <3>10, <3>11, Advances
  <2> QED  BY <1>4, <2>7, <2>8 DEF Claim, With
<1> QED  BY <1>3, <1>4

\* The handoff is consumed, or the record goes to recovery.
LEMMA ContinuationPreserves ==
  ASSUME RecordInv, NEW c \in Calls, Continuation(c)
  PROVE  RecordInv'
<1>1. /\ call[c].pc = "continue" /\ UNCHANGED <<led, jour, tx1, row, invoked, resumed, trigger, fence, doubtful>>
  BY DEF Continuation
<1>2. /\ Driver(c) /\ Expects(c) = "CONTINUATION_PENDING" /\ x[c].at = "idle" /\ ~doubtful
      /\ call[c].job \in {"process", "resume"} /\ call[c].comp.cont /\ CompOK(c)
  BY <1>1, NoExecutor DEF Driver, Expects, Sends, RecordInv, EventOK, CompOK, DoubtOK
<1>3. PICK fresh \in BOOLEAN :
        LET run == ContinueD3(x[c], fresh) IN
        /\ Send(c, IF run.d010 = "consumed" THEN Event("CONSUME", "CONTINUATION_PENDING")
                   ELSE RecoveryEvent("CONTINUATION_PENDING"))
        /\ Step(c, run)
  BY DEF Continuation
<1> DEFINE run == ContinueD3(x[c], fresh)
<1>4. run \in RunRecord /\ run.at = "idle"
  BY <1>2, Running DEF ContinueD3, RunRecord
<1>5. PICK ev \in Events : /\ Send(c, ev)
                           /\ ev.expected = "CONTINUATION_PENDING" /\ ev.result = NoResult
                           /\ ev.kind \in {"CONSUME", "REQUIRE_RECOVERY"}
  <2> DEFINE ce == Event("CONSUME", "CONTINUATION_PENDING")
             re == RecoveryEvent("CONTINUATION_PENDING")
  <2>1. /\ ce \in Events /\ ce.kind = "CONSUME" /\ ce.expected = "CONTINUATION_PENDING"
        /\ ce.result = NoResult
    BY DEF Event, Events, Kinds, States, Sayings, Classes
  <2>2. /\ re \in Events /\ re.kind = "REQUIRE_RECOVERY" /\ re.expected = "CONTINUATION_PENDING"
        /\ re.result = NoResult
    BY RecoveryEventFields DEF States
  <2>3. Send(c, ce) \/ Send(c, re)
    BY <1>3
  <2> HIDE DEF ce, re
  <2> QED  BY <2>1, <2>2, <2>3
<1>6. /\ call' \in [Calls -> CallRecord] /\ \A d \in Calls \ {c} : call'[d] = call[d]
      /\ call'[c].pc = "read" /\ call'[c].ev = ev /\ call'[c].job = call[c].job
      /\ call'[c].comp = call[c].comp
  BY <1>5, Sent DEF RecordInv, RecordTypes
<1>7. x' \in [Calls -> RunRecord] /\ x'[c] = run /\ \A d \in Calls \ {c} : x'[d] = x[d]
  BY <1>3, <1>4, Stepped DEF RecordInv, RecordTypes
<1> HIDE DEF run
<1>8. RecordTypes' /\ Others(c) /\ x'[c].at = "idle"
  BY <1>1, <1>4, <1>6, <1>7 DEF RecordInv, RecordTypes, Others
<1>9. Driver(c)' /\ Sends(c)' /\ Expects(c)' = Expects(c)
  BY <1>2, <1>5, <1>6 DEF Driver, Sends, Expects
<1>10. EventOK(c)'
  <2>1. DriveOK(ev, call[c].comp)
    BY <1>2, <1>5 DEF DriveOK
  <2> QED  BY <1>2, <1>6, <2>1 DEF EventOK, EventFits
<1>11. CompOK(c)'
  BY <1>1, <1>2, <1>5, <1>6, <1>9 DEF CompOK, TrueSaying
<1> QED  BY <1>1, <1>2, <1>6, <1>8, <1>9, <1>10, <1>11, Drives

\* The report of the executor becomes the result in hand, or the record goes
\* to recovery.
LEMMA InvokeD4Preserves ==
  ASSUME RecordInv, NEW c \in Calls, InvokeD4(c)
  PROVE  RecordInv'
<1>1. /\ call[c].pc = "run" /\ x[c].at = "returned" /\ x[c] \in RunRecord
      /\ UNCHANGED <<led, jour, tx1, row, invoked, resumed, trigger, fence>>
      /\ doubtful' = (doubtful \/ RecoveryRequiredFromReport(x[c]))
  BY Running DEF InvokeD4
<1>2. /\ Driver(c) /\ Expects(c) = "EXECUTING" /\ ~doubtful /\ call[c].job \in {"process", "resume"}
      /\ led.state \in Dead \cup {"EXECUTING"} /\ RunOK(c)
  BY <1>1 DEF Driver, Expects, Sends, RecordInv, EventOK, DoubtOK, DriversOK
<1>3. PICK fresh \in BOOLEAN :
        LET projected == Projected(x[c], fresh) IN
        Composed(c, [safe |-> SafeResult(x[c], projected),
                     cont |-> x[c].outcome = "COMMITTED_AND_VERIFIED" /\ projected,
                     wait |-> MappingSeam /\ x[c].blocked])
  BY DEF InvokeD4
<1> DEFINE projected == Projected(x[c], fresh)
           safe == SafeResult(x[c], projected)
           comp == [safe |-> safe, cont |-> x[c].outcome = "COMMITTED_AND_VERIFIED" /\ projected,
                    wait |-> MappingSeam /\ x[c].blocked]
           run == [FreshRun EXCEPT !.d010 = x[c].d010]
<1>4. run \in RunRecord /\ run.at = "idle"
  BY <1>1, FreshRunFields DEF RunRecord
<1>5. x' \in [Calls -> RunRecord] /\ x'[c] = run /\ \A d \in Calls \ {c} : x'[d] = x[d]
  <2>1. Step(c, run)
    BY DEF InvokeD4
  <2> HIDE DEF run
  <2> QED  BY <1>4, <2>1, Stepped DEF RecordInv, RecordTypes
<1> HIDE DEF run
<1>6. ASSUME NEW cm \in Composites, NEW ev \in Events,
             Goto(c, [call[c] EXCEPT !.pc = "read", !.comp = cm, !.ev = ev]),
             ev.expected = "EXECUTING", DriveOK(ev, cm), ev.kind \notin {"BEGIN", "RESUME"},
             cm.cont <=> cm.safe = Won, cm.wait => cm.safe = NotRun, TrueSaying(cm.safe),
             ev.kind = "REQUIRE_RECOVERY" \/ ~doubtful'
      PROVE  RecordInv'
  <2> DEFINE k == [call[c] EXCEPT !.pc = "read", !.comp = cm, !.ev = ev]
  <2>1. k \in CallRecord /\ k.pc = "read" /\ k.job = call[c].job /\ k.ev = ev /\ k.comp = cm
    BY <1>6, CallTypeOf DEF CallRecord, CallPcs
  <2>2. Goto(c, k)
    BY <1>6
  <2> HIDE DEF k
  <2>3. /\ call' \in [Calls -> CallRecord] /\ call'[c] = k
        /\ \A d \in Calls \ {c} : call'[d] = call[d]
    BY <2>1, <2>2, Gone DEF RecordInv, RecordTypes
  <2>4. doubtful' \in BOOLEAN
    BY <1>1, <1>2 DEF RecoveryRequiredFromReport
  <2>5. RecordTypes' /\ Others(c) /\ x'[c].at = "idle"
    BY <1>1, <1>4, <1>5, <2>3, <2>4 DEF RecordInv, RecordTypes, Others
  <2>6. Driver(c)' /\ Sends(c)' /\ Expects(c)' = Expects(c)
    BY <1>2, <1>6, <2>1, <2>3 DEF Driver, Sends, Expects
  <2>7. EventOK(c)'
    BY <1>2, <1>6, <2>1, <2>3 DEF EventOK, EventFits
  <2>8. CompOK(c)'
    BY <1>1, <1>6, <2>1, <2>3, <2>6 DEF CompOK, TrueSaying
  <2>9. call'[c].job # "resolve" /\ (doubtful' => call'[c].ev.kind = "REQUIRE_RECOVERY")
    BY <1>2, <1>6, <2>1, <2>3
  <2> QED  BY <1>1, <1>2, <2>3, <2>5, <2>6, <2>7, <2>8, <2>9, Drives
<1>7. CASE ValidateFor(safe)
  <2>1. projected \in BOOLEAN
    BY DEF Projected, HandoffMatches
  <2>2. /\ projected /\ ~RecoveryRequiredFromReport(x[c])
        /\ \/ x[c].outcome = "NOT_COMMITTED" /\ safe = NotRun
           \/ x[c].outcome = "COMMITTED_AND_VERIFIED" /\ safe = Won
    <3> HIDE DEF projected
    <3> QED  BY <1>1, <1>7, <2>1, ValidReport
  <2>3. x[c].blocked \in BOOLEAN /\ MappingSeam \in BOOLEAN
    BY <1>1, LedgerAssumption DEF RunRecord
  <2> HIDE DEF projected, safe
  <2>4. comp \in Composites /\ comp.safe = safe /\ (comp.cont <=> safe = Won) /\ (comp.wait => x[c].blocked)
    BY <2>2, <2>3, SayingFacts DEF Composites
  <2>5. TrueSaying(safe) /\ (x[c].blocked => safe = NotRun) /\ safe \in {NotRun, Won}
    BY <1>1, <1>2, <2>2, SayingFacts DEF RunOK, TrueSaying
  <2> DEFINE ev == ResultEvent("RECORD_RESULT", "EXECUTING", safe)
  <2>6. ev \in Events /\ ev.kind = "RECORD_RESULT" /\ ev.expected = "EXECUTING" /\ ev.result = safe
    BY <2>5 DEF ResultEvent, Event, Events, Kinds, States, Sayings, Classes
  <2>7. Composed(c, comp)
    BY <1>3 DEF projected, safe
  <2> HIDE DEF comp, ev
  <2>8. ValidateFor(comp.safe)
    BY <1>7, <2>4
  <2>9. Goto(c, [call[c] EXCEPT !.pc = "read", !.comp = comp, !.ev = ev])
    BY <2>4, <2>7, <2>8 DEF Composed, ev
  <2>10. DriveOK(ev, comp)
    BY <2>4, <2>5, <2>6, SayingFacts DEF DriveOK
  <2>11. ~doubtful'
    BY <1>1, <1>2, <2>2
  <2> QED  BY <1>6, <2>4, <2>5, <2>6, <2>9, <2>10, <2>11
<1>8. CASE ~ValidateFor(safe)
  <2> DEFINE ev == RecoveryEvent("EXECUTING")
  <2>1. ev \in Events /\ ev.kind = "REQUIRE_RECOVERY" /\ ev.expected = "EXECUTING" /\ ev.result = NoResult
    BY RecoveryEventFields DEF States
  <2>2. comp.safe = safe
    OBVIOUS
  <2>3. Composed(c, comp)
    BY <1>3
  <2> HIDE DEF comp, ev, safe, projected
  <2>4. Goto(c, [call[c] EXCEPT !.pc = "read", !.comp = NoComposite, !.ev = ev])
    BY <1>8, <2>2, <2>3 DEF Composed, ev
  <2>5. DriveOK(ev, NoComposite)
    BY <2>1 DEF DriveOK
  <2>6. /\ NoComposite \in Composites /\ (NoComposite.cont <=> NoComposite.safe = Won)
        /\ (NoComposite.wait => NoComposite.safe = NotRun) /\ TrueSaying(NoComposite.safe)
    BY NewCallFields, SayingFacts DEF TrueSaying
  <2> QED  BY <1>6, <2>1, <2>4, <2>5, <2>6
<1> QED  BY <1>7, <1>8

-----------------------------------------------------------------------------
(* The compare-and-swap *)

LEMMA UpdatedFields ==
  ASSUME NEW rec \in RowRecord, NEW ev \in Events, NEW to \in States, Target(ev.expected, ev.kind) = to
  PROVE  LET n == Updated(rec, ev)
         IN  /\ n \in RowRecord /\ n.state = to /\ n.claim = rec.claim /\ n.corr = rec.corr
             /\ n.result = IF ev.result # NoResult THEN ev.result ELSE rec.result
<1> DEFINE res == IF ev.result # NoResult THEN ev.result ELSE rec.result
           cls == IF ev.class # "" THEN ev.class ELSE rec.class
<1>1. res \in Sayings /\ cls \in Classes
  BY DEF RowRecord, Events
<1>2. Updated(rec, ev) = [rec EXCEPT !.state = to, !.result = res, !.class = cls]
  BY DEF Updated
<1> HIDE DEF res, cls
<1>3. LET n == [rec EXCEPT !.state = to, !.result = res, !.class = cls]
      IN  n \in RowRecord /\ n.state = to /\ n.claim = rec.claim /\ n.corr = rec.corr /\ n.result = res
  BY <1>1 DEF RowRecord
<1> QED  BY <1>2, <1>3 DEF res

\* An edge that is appended prolongs the path of the journal.
LEMMA JournalGrows ==
  ASSUME RecordInv, NEW from \in States, NEW to \in States, led.state = from, led'.state = to,
         jour' = Append(jour, <<from, to>>)
  PROVE  /\ jour' \in Seq(States \X States) /\ JournalLinks'
         /\ jour'[Len(jour')] = <<from, to>>
         /\ Entries \subseteq Entries' /\ <<from, to>> \in Entries'
<1> DEFINE S == States \X States
           e == <<from, to>>
<1>1. jour \in Seq(S) /\ e \in S /\ e[1] = from /\ e[2] = to
  BY DEF RecordInv, RecordTypes
<1>2. JournalLinks
  BY DEF RecordInv
<1>3. jour' = Append(jour, e)
  OBVIOUS
<1> HIDE DEF S, e
<1>4. /\ jour' \in Seq(S) /\ Len(jour') = Len(jour) + 1 /\ Len(jour) \in Nat
      /\ DOMAIN jour = 1..Len(jour) /\ DOMAIN jour' = 1..(Len(jour) + 1)
      /\ jour'[Len(jour) + 1] = e /\ \A i \in 1..Len(jour) : jour'[i] = jour[i]
  BY <1>1, <1>3
<1>5. jour # <<>> => Len(jour) > 0
  BY <1>1
<1>6. jour' # <<>>
  BY <1>4
<1>7. jour'[1][1] \in {"RECEIVED", "ADMITTED"}
  <2>1. CASE jour = <<>>
    <3>1. from \in {"RECEIVED", "ADMITTED"}
      <4>1. led.state \in {"none", "RECEIVED", "ADMITTED"}
        BY <1>2, <2>1 DEF JournalLinks
      <4>2. from # "none"
        BY DEF States
      <4> QED  BY <4>1, <4>2
    <3>2. jour'[1] = e
      <4>1. Len(jour) = 0
        BY <2>1
      <4> QED  BY <1>4, <4>1
    <3> QED  BY <1>1, <3>1, <3>2
  <2>2. CASE jour # <<>>
    <3>1. jour'[1] = jour[1]
      BY <1>4, <1>5, <2>2
    <3> QED  BY <1>2, <2>2, <3>1 DEF JournalLinks
  <2> QED  BY <2>1, <2>2
<1>8. \A i \in 1..(Len(jour') - 1) : jour'[i][2] = jour'[i + 1][1]
  <2> SUFFICES ASSUME NEW i \in 1..Len(jour) PROVE jour'[i][2] = jour'[i + 1][1]
    BY <1>4
  <2>1. CASE i = Len(jour)
    <3>1. jour # <<>> /\ jour'[i] = jour[Len(jour)] /\ jour'[i + 1] = e
      BY <1>1, <1>4, <2>1
    <3>2. jour[Len(jour)][2] = from
      BY <1>2, <3>1 DEF JournalLinks
    <3> QED  BY <1>1, <3>1, <3>2
  <2>2. CASE i # Len(jour)
    <3>1. i \in 1..(Len(jour) - 1) /\ i + 1 \in 1..Len(jour)
      <4>1. Len(jour) \in Nat
        BY <1>4
      <4> QED  BY <2>2, <4>1
    <3>2. jour'[i] = jour[i] /\ jour'[i + 1] = jour[i + 1]
      BY <1>4, <3>1
    <3>3. jour[i][2] = jour[i + 1][1]
      BY <1>2, <3>1 DEF JournalLinks
    <3> QED  BY <3>2, <3>3
  <2> QED  BY <2>1, <2>2
<1>9. jour'[Len(jour')] = e
  BY <1>4
<1>10. JournalLinks'
  BY <1>1, <1>6, <1>7, <1>8, <1>9 DEF JournalLinks
<1>11. Entries \subseteq Entries' /\ e \in Entries'
  BY <1>4 DEF Entries
<1> QED  BY <1>4, <1>9, <1>10, <1>11 DEF S, e

\* What a compare-and-swap that holds changes, whoever sent it.
Swaps(c, to) ==
  /\ led' \in RowRecord /\ led'.state = to /\ led'.claim = led.claim
  /\ led'.result = IF call[c].ev.result # NoResult THEN call[c].ev.result ELSE led.result
  /\ jour' \in Seq(States \X States) /\ JournalLinks'
  /\ jour'[Len(jour')] = <<led.state, to>> /\ Entries \subseteq Entries' /\ <<led.state, to>> \in Entries'
  /\ UNCHANGED <<row, tx1, trigger, fence, doubtful>>
  /\ resumed' = resumed + (IF call[c].ev.kind = "RESUME" THEN 1 ELSE 0)

LEMMA CasSwaps ==
  ASSUME RecordInv, NEW c \in Calls, TransitionCas(c), CasHolds(led, call[c].claim, call[c].ev),
         NEW to, <<call[c].ev.expected, call[c].ev.kind, to>> \in TransitionTable
  PROVE  Swaps(c, to)
<1> DEFINE ev == call[c].ev
<1>1. ev \in Events /\ led \in RowRecord /\ led.state = ev.expected
  BY CallTypeOf DEF RecordInv, RecordTypes, CasHolds
<1>2. Target(ev.expected, ev.kind) = to
  BY TargetIs
<1>3. ev.expected \in States /\ to \in States
  BY DEF TransitionTable, States
<1>4. led' = Updated(led, ev) /\ jour' = Append(jour, <<ev.expected, to>>)
  BY <1>2 DEF TransitionCas, AppendJournal
<1>5. /\ led' \in RowRecord /\ led'.state = to /\ led'.claim = led.claim
      /\ led'.result = IF ev.result # NoResult THEN ev.result ELSE led.result
  BY <1>1, <1>2, <1>3, <1>4, UpdatedFields
<1>6. /\ jour' \in Seq(States \X States) /\ JournalLinks'
      /\ jour'[Len(jour')] = <<led.state, to>> /\ Entries \subseteq Entries' /\ <<led.state, to>> \in Entries'
  BY <1>1, <1>3, <1>4, <1>5, JournalGrows
<1>7. /\ UNCHANGED <<row, tx1, trigger, fence, doubtful>>
      /\ resumed' = resumed + (IF ev.kind = "RESUME" THEN 1 ELSE 0)
  BY DEF TransitionCas
<1> QED  BY <1>5, <1>6, <1>7 DEF Swaps

LEMMA CasFacts ==
  ASSUME RecordInv, NEW c \in Calls, TransitionCas(c)
  PROVE  /\ call[c].pc = "cas" /\ Sends(c) /\ EventFits(call[c]) /\ call[c].ev \in Events
         /\ call[c].comp \in Composites /\ x[c].at = "idle" /\ CompOK(c)
         /\ led.claim \in Calls \cup {None} /\ invoked \in Nat /\ resumed \in Nat
BY CallTypeOf, NoExecutor DEF TransitionCas, Sends, RecordInv, EventOK, RecordTypes, RowRecord

\* The answer of a stored event arrives or is lost.
LEMMA CasAnswers ==
  ASSUME NEW c \in Calls, TransitionCas(c), CasHolds(led, call[c].claim, call[c].ev)
  PROVE  \/ Return(c) /\ UNCHANGED <<invoked, x>>
         \/ /\ Stored(c, call[c].ev)
            /\ IF call[c].ev.kind = "BEGIN"
               THEN invoked' = invoked + 1 /\ Step(c, [FreshRun EXCEPT !.at = "open"])
               ELSE UNCHANGED <<invoked, x>>
BY DEF TransitionCas

LEMMA SwapTypes ==
  ASSUME RecordInv, NEW c \in Calls, NEW to, Swaps(c, to), invoked' \in Nat, x' \in [Calls -> RunRecord],
         call' \in [Calls -> CallRecord]
  PROVE  RecordTypes'
<1>1. resumed' \in Nat
  BY DEF Swaps, RecordInv, RecordTypes
<1> QED  BY <1>1 DEF RecordInv, RecordTypes, Swaps

\* The row in recovery or at its end.
LEMMA RowSettles ==
  ASSUME RecordInv, NEW c \in Calls, NEW to \in Dead, Swaps(c, to), call[c].ev.kind # "RESUME", invoked' = invoked,
         led'.result = Won => tx1 = 1 /\ (to = "TERMINAL" => Consumed \in Entries'),
         to = "TERMINAL" => led'.result # NoResult /\ TrueSaying(led'.result)
  PROVE  RowOK'
<1>1. resumed' = resumed
  BY DEF Swaps, RecordInv, RecordTypes
<1>2. led'.state = to /\ tx1' = tx1 /\ to \in {"RECOVERY_REQUIRED", "TERMINAL"}
  BY DEF Swaps, Dead
<1>3. invoked' <= 1 + resumed'
  BY <1>1 DEF RecordInv, RowOK
<1>4. to = "TERMINAL" => TrueSaying(led.result)'
  BY <1>2 DEF TrueSaying
<1> QED  BY <1>2, <1>3, <1>4 DEF RowOK, RequiresClaim, Claimed

LEMMA RecoveryCas ==
  ASSUME RecordInv, NEW c \in Calls, TransitionCas(c), CasHolds(led, call[c].claim, call[c].ev),
         call[c].ev.kind = "REQUIRE_RECOVERY"
  PROVE  RecordInv'
<1>1. /\ call[c].ev.expected \in {"RECEIVED", "EXECUTING", "CONTINUATION_PENDING"}
      /\ call[c].ev.result = NoResult
  BY CasFacts DEF EventFits, DriveOK
<1>2. Swaps(c, "RECOVERY_REQUIRED") /\ led.state = call[c].ev.expected
  BY <1>1, CasSwaps DEF TransitionTable, States, CasHolds
<1>3. Return(c) /\ UNCHANGED <<invoked, x>>
  BY CasAnswers DEF Stored
<1>4. RecordTypes'
  BY <1>2, <1>3, SwapTypes, ReturnedCall DEF RecordInv, RecordTypes
<1>5. RowOK'
  <2>1. led'.result = led.result
    BY <1>1, <1>2 DEF Swaps
  <2> QED  BY <1>2, <1>3, <2>1, RowSettles DEF RecordInv, RowOK, Dead
<1> QED  BY <1>2, <1>3, <1>4, <1>5, CasFacts, Settles DEF Swaps, Dead

LEMMA ResolveCas ==
  ASSUME RecordInv, NEW c \in Calls, TransitionCas(c), CasHolds(led, call[c].claim, call[c].ev),
         call[c].job = "resolve"
  PROVE  RecordInv'
<1>1. /\ call[c].ev.kind = "RESOLVE" /\ call[c].ev.expected = "RECOVERY_REQUIRED"
      /\ call[c].ev.result \in {NotRun, Partial}
  BY CasFacts DEF EventFits
<1>2. TrueSaying(call[c].ev.result) /\ \A d \in Calls : ~Inside(d)
  BY CasFacts DEF RecordInv, ResolveOK
<1>3. Swaps(c, "TERMINAL") /\ led.state = "RECOVERY_REQUIRED"
  BY <1>1, CasSwaps DEF TransitionTable, CasHolds
<1>4. Return(c) /\ UNCHANGED <<invoked, x>>
  BY <1>1, CasAnswers DEF Stored
<1>5. RecordTypes'
  BY <1>3, <1>4, SwapTypes, ReturnedCall DEF RecordInv, RecordTypes
<1>6. led'.result = call[c].ev.result /\ led'.result # NoResult /\ led'.result # Won
  BY <1>1, <1>3, SayingFacts DEF Swaps
<1>7. RowOK'
  BY <1>1, <1>2, <1>3, <1>4, <1>6, RowSettles DEF Dead
<1> QED  BY <1>2, <1>3, <1>4, <1>5, <1>7, CasFacts, Settles DEF Swaps, Dead, Recovered

LEMMA FinalizeCas ==
  ASSUME RecordInv, NEW c \in Calls, TransitionCas(c), CasHolds(led, call[c].claim, call[c].ev),
         call[c].job = "finalize", call[c].ev.kind = "TERMINAL"
  PROVE  RecordInv'
<1>1. call[c].ev.expected = "RECEIVED" /\ call[c].ev.result = NotRun
  BY CasFacts DEF EventFits
<1>2. Swaps(c, "TERMINAL") /\ led.state = "RECEIVED"
  BY <1>1, CasSwaps DEF TransitionTable, States, CasHolds
<1>3. (\A d \in Calls : ~Driver(d)) /\ led.state \notin Dead /\ ~doubtful
  BY <1>2, NobodyDrives
<1>4. Return(c) /\ UNCHANGED <<invoked, x>>
  <2>1. ~call[c].comp.cont
    BY <1>3, NoResultInHand DEF Empty
  <2> QED  BY <2>1, CasAnswers DEF Stored
<1>5. /\ call' \in [Calls -> CallRecord] /\ \A d \in Calls \ {c} : call'[d] = call[d]
      /\ ~Driver(c)' /\ ~Sends(c)' /\ EventOK(c)' /\ CompOK(c)'
  BY <1>4, ReturnedCall
<1>6. RecordTypes' /\ Others(c)
  BY <1>2, <1>4, <1>5, SwapTypes DEF RecordInv, RecordTypes, Others
<1>7. led'.result = NotRun /\ tx1 = 0
  BY <1>1, <1>2, SayingFacts DEF Swaps, RecordInv, RowOK
<1>8. RowOK'
  <2>1. TrueSaying(led'.result) /\ led'.result # Won /\ led'.result # NoResult
    BY <1>7, SayingFacts DEF TrueSaying
  <2> QED  BY <1>2, <1>4, <2>1, RowSettles DEF Dead
<1>9. RunOK(c)'
  BY <1>4, CasFacts DEF RunOK, InTX1
<1> QED  BY <1>2, <1>3, <1>5, <1>6, <1>8, <1>9, Advances DEF Swaps

\* A driver, or the one that resumes, is alone with the record.
LEMMA DriverAlone ==
  ASSUME RecordInv, NEW c \in Calls, TransitionCas(c), CasHolds(led, call[c].claim, call[c].ev),
         call[c].job \in {"process", "resume"}, call[c].ev.kind # "REQUIRE_RECOVERY"
  PROVE  /\ DriveOK(call[c].ev, call[c].comp) /\ led.state = call[c].ev.expected
         /\ \A d \in Calls \ {c} : ~Driver(d)
         /\ led.state \notin Dead /\ ~doubtful
<1>1. DriveOK(call[c].ev, call[c].comp) /\ led.state = call[c].ev.expected
  BY CasFacts DEF EventFits, CasHolds
<1>2. CASE call[c].ev.kind = "RESUME"
  BY <1>1, <1>2, NobodyDrives DEF DriveOK
<1>3. CASE call[c].ev.kind # "RESUME"
  <2>1. Driver(c)
    BY <1>3, CasFacts DEF Driver
  <2>2. ~doubtful
    BY <2>1 DEF RecordInv, DoubtOK
  <2>3. led.state \notin Dead
    BY <1>1 DEF DriveOK, Dead
  <2> QED  BY <1>1, <2>1, <2>2, <2>3, OneDriver
<1> QED  BY <1>2, <1>3

\* The answer is lost: the record has moved and nobody drives it.
LEMMA AnswerLost ==
  ASSUME RecordInv, NEW c \in Calls, TransitionCas(c), CasHolds(led, call[c].claim, call[c].ev),
         call[c].job \in {"process", "resume"}, call[c].ev.kind # "REQUIRE_RECOVERY",
         NEW to, Swaps(c, to), RowOK', Return(c), UNCHANGED <<invoked, x>>
  PROVE  RecordInv'
<1>1. /\ call' \in [Calls -> CallRecord] /\ \A d \in Calls \ {c} : call'[d] = call[d]
      /\ ~Driver(c)' /\ ~Sends(c)' /\ EventOK(c)' /\ CompOK(c)'
  BY ReturnedCall
<1>2. resumed' \in Nat
  BY CasFacts DEF Swaps
<1>3. RecordTypes' /\ Others(c)
  BY <1>1, <1>2 DEF RecordInv, RecordTypes, Swaps, Others
<1>4. RunOK(c)'
  BY CasFacts DEF RunOK, InTX1
<1> QED  BY <1>1, <1>3, <1>4, DriverAlone, Advances DEF Swaps

\* The answer arrives: the call goes on with the record.
LEMMA AnswerArrives ==
  ASSUME RecordInv, NEW c \in Calls, TransitionCas(c), CasHolds(led, call[c].claim, call[c].ev),
         call[c].job \in {"process", "resume"}, call[c].ev.kind # "REQUIRE_RECOVERY",
         NEW to, Swaps(c, to), to # "TERMINAL", RowOK', invoked' \in Nat, x' \in [Calls -> RunRecord],
         call' \in [Calls -> CallRecord], Others(c), RunOK(c)', EventOK(c)', CompOK(c)',
         call'[c].job = call[c].job, Driver(c)' => Expects(c)' = to
  PROVE  RecordInv'
<1>1. resumed' \in Nat
  BY CasFacts DEF Swaps
<1>2. RecordTypes'
  BY <1>1 DEF RecordInv, RecordTypes, Swaps
<1> QED  BY <1>2, DriverAlone, Advances DEF Swaps

\* The row on its way.
LEMMA RowAdvances ==
  ASSUME RecordInv, NEW c \in Calls, NEW to \in Claimed, Swaps(c, to), RequiresClaim(led.state),
         invoked' \in Nat, invoked' <= 1 + resumed', to = "ADMITTED" => invoked' <= resumed',
         to \in {"ADMITTED", "WAITING_FOR_MAPPING"} => tx1 = 0,
         led'.result = Won => tx1 = 1, to = "CONTINUATION_CONSUMED" => Consumed \in Entries'
  PROVE  RowOK'
<1>1. led'.state = to /\ tx1' = tx1 /\ led'.claim # None
  BY DEF Swaps, RecordInv, RowOK
<1>2. to \notin {"none", "RECEIVED", "TERMINAL"}
  BY DEF Claimed
<1> QED  BY <1>1, <1>2 DEF RowOK, RequiresClaim

LEMMA BeginEvent ==
  LET ev == Event("BEGIN", "ADMITTED")
  IN  ev \in Events /\ ev.kind = "BEGIN" /\ ev.expected = "ADMITTED" /\ ev.result = NoResult
BY DEF Event, Events, Kinds, States, Sayings, Classes

LEMMA ResumeCas ==
  ASSUME RecordInv, NEW c \in Calls, TransitionCas(c), CasHolds(led, call[c].claim, call[c].ev),
         call[c].job \in {"process", "resume"}, call[c].ev.kind = "RESUME"
  PROVE  RecordInv'
<1> DEFINE ev == Event("BEGIN", "ADMITTED")
<1>1. /\ call[c].ev.expected = "WAITING_FOR_MAPPING" /\ call[c].ev.result = NoResult
      /\ led.state = "WAITING_FOR_MAPPING"
  BY DriverAlone DEF DriveOK
<1>2. Swaps(c, "ADMITTED")
  BY <1>1, CasSwaps DEF TransitionTable
<1>3. Empty(call[c].comp)
  BY CasFacts, NoResultInHand DEF Driver
<1>4. UNCHANGED <<invoked, x>> /\ (Return(c) \/ Send(c, ev))
  BY CasAnswers DEF Stored
<1>5. RowOK'
  <2>1. invoked \in Nat /\ resumed \in Nat /\ resumed' = resumed + 1 /\ led'.result = led.result
    BY <1>1, <1>2, CasFacts DEF Swaps
  <2>2. invoked <= 1 + resumed /\ tx1 = 0 /\ (led.result = Won => tx1 = 1)
    BY <1>1 DEF RecordInv, RowOK
  <2>3. invoked' <= resumed' /\ invoked' <= 1 + resumed' /\ invoked' \in Nat
    BY <1>4, <2>1, <2>2
  <2> QED  BY <1>1, <1>2, <2>1, <2>2, <2>3, RowAdvances DEF Claimed, RequiresClaim
<1>6. CASE Return(c)
  BY <1>2, <1>4, <1>5, <1>6, AnswerLost
<1>7. CASE Send(c, ev)
  <2>1. ev \in Events /\ ev.kind = "BEGIN" /\ ev.expected = "ADMITTED" /\ ev.result = NoResult
    BY BeginEvent
  <2> HIDE DEF ev
  <2>2. /\ call' \in [Calls -> CallRecord] /\ \A d \in Calls \ {c} : call'[d] = call[d]
        /\ call'[c].pc = "read" /\ call'[c].ev = ev /\ call'[c].job = call[c].job
        /\ call'[c].comp = call[c].comp
    BY <1>7, <2>1, Sent DEF RecordInv, RecordTypes
  <2>3. EventOK(c)'
    BY <2>1, <2>2 DEF EventOK, EventFits, DriveOK
  <2>4. CompOK(c)'
    BY <1>3, <2>2, SayingFacts DEF CompOK, Empty
  <2>5. RunOK(c)'
    BY <1>4, CasFacts DEF RunOK, InTX1
  <2>6. Expects(c)' = "ADMITTED" /\ Others(c)
    BY <1>4, <2>1, <2>2 DEF Expects, Others
  <2>7. invoked' \in Nat /\ x' \in [Calls -> RunRecord]
    BY <1>4 DEF RecordInv, RecordTypes
  <2> QED  BY <1>2, <1>5, <2>2, <2>3, <2>4, <2>5, <2>6, <2>7, AnswerArrives
<1> QED  BY <1>4, <1>6, <1>7

LEMMA BeginCas ==
  ASSUME RecordInv, NEW c \in Calls, TransitionCas(c), CasHolds(led, call[c].claim, call[c].ev),
         call[c].job \in {"process", "resume"}, call[c].ev.kind = "BEGIN"
  PROVE  RecordInv'
<1> DEFINE k == [call[c] EXCEPT !.pc = "run", !.ev = NoEvent]
           run == [FreshRun EXCEPT !.at = "open"]
<1>1. /\ call[c].ev.expected = "ADMITTED" /\ call[c].ev.result = NoResult /\ led.state = "ADMITTED"
  BY DriverAlone DEF DriveOK
<1>2. Swaps(c, "EXECUTING")
  BY <1>1, CasSwaps DEF TransitionTable
<1>3. Empty(call[c].comp)
  BY CasFacts, SayingFacts DEF CompOK, Empty
<1>4. \/ Return(c) /\ UNCHANGED <<invoked, x>>
      \/ Goto(c, k) /\ invoked' = invoked + 1 /\ Step(c, run)
  BY CasAnswers DEF Stored
<1>5. RowOK'
  <2>1. invoked \in Nat /\ resumed \in Nat /\ resumed' = resumed /\ led'.result = led.result
    BY <1>1, <1>2, CasFacts DEF Swaps
  <2>2. invoked <= resumed /\ (led.result = Won => tx1 = 1)
    BY <1>1 DEF RecordInv, RowOK
  <2>3. invoked' <= 1 + resumed' /\ invoked' \in Nat
    BY <1>4, <2>1, <2>2
  <2> QED  BY <1>1, <1>2, <2>1, <2>2, <2>3, RowAdvances DEF Claimed, RequiresClaim
<1>6. CASE Return(c) /\ UNCHANGED <<invoked, x>>
  BY <1>2, <1>5, <1>6, AnswerLost
<1>7. CASE Goto(c, k) /\ invoked' = invoked + 1 /\ Step(c, run)
  <2>1. NoEvent \in Events /\ call[c] \in CallRecord
    BY EventFields, CallTypeOf DEF NoEvent, Kinds
  <2>2. k \in CallRecord /\ k.pc = "run" /\ k.job = call[c].job /\ k.comp = call[c].comp
    BY <2>1 DEF CallRecord, CallPcs
  <2>3. run \in RunRecord /\ run.at = "open" /\ run.outcome = "NOT_COMMITTED" /\ ~run.blocked
    BY FreshRunFields DEF RunRecord, Phases
  <2> HIDE DEF k, run
  <2>4. /\ call' \in [Calls -> CallRecord] /\ call'[c] = k
        /\ \A d \in Calls \ {c} : call'[d] = call[d]
    BY <1>7, <2>2, Gone DEF RecordInv, RecordTypes
  <2>5. /\ x' \in [Calls -> RunRecord] /\ x'[c] = run /\ \A d \in Calls \ {c} : x'[d] = x[d]
    BY <1>7, <2>3, Stepped DEF RecordInv, RecordTypes
  <2>6. EventOK(c)'
    BY <2>2, <2>4 DEF EventOK, Sends
  <2>7. CompOK(c)'
    BY <1>3, <2>2, <2>4, SayingFacts DEF CompOK, Empty
  <2>8. tx1' = 0 /\ led'.state = "EXECUTING"
    BY <1>1, <1>2 DEF Swaps, RecordInv, RowOK
  <2>9. RunOK(c)'
    BY <2>2, <2>3, <2>4, <2>5, <2>8 DEF RunOK, InTX1
  <2>10. Expects(c)' = "EXECUTING" /\ Others(c)
    BY <2>2, <2>4, <2>5 DEF Expects, Others
  <2>11. invoked' \in Nat
    BY <1>7, CasFacts
  <2> QED  BY <1>2, <1>5, <2>2, <2>4, <2>5, <2>6, <2>7, <2>9, <2>10, <2>11, AnswerArrives
<1> QED  BY <1>4, <1>6, <1>7

\* The driver goes on to its next event.
LEMMA GoesOn ==
  ASSUME RecordInv, NEW c \in Calls, TransitionCas(c), CasHolds(led, call[c].claim, call[c].ev),
         call[c].job \in {"process", "resume"}, call[c].ev.kind # "REQUIRE_RECOVERY",
         NEW to, Swaps(c, to), to # "TERMINAL", RowOK', UNCHANGED <<invoked, x>>,
         NEW ev \in Events, Send(c, ev), ev.expected = to, ev.kind \notin {"BEGIN", "RESUME"},
         DriveOK(ev, call[c].comp)
  PROVE  RecordInv'
<1>1. /\ call' \in [Calls -> CallRecord] /\ \A d \in Calls \ {c} : call'[d] = call[d]
      /\ call'[c].pc = "read" /\ call'[c].ev = ev /\ call'[c].job = call[c].job
      /\ call'[c].comp = call[c].comp
  BY Sent DEF RecordInv, RecordTypes
<1>2. EventOK(c)'
  BY <1>1 DEF EventOK, EventFits
<1>3. Driver(c)' /\ Expects(c)' = to /\ Others(c)
  BY <1>1 DEF Driver, Sends, Expects, Others
<1>4. CompOK(c)'
  BY <1>1, <1>3, CasFacts DEF CompOK, TrueSaying, Swaps
<1>5. RunOK(c)'
  BY CasFacts DEF RunOK, InTX1
<1>6. invoked' \in Nat /\ x' \in [Calls -> RunRecord]
  BY DEF RecordInv, RecordTypes
<1> QED  BY <1>1, <1>2, <1>3, <1>4, <1>5, <1>6, AnswerArrives

\* The row of a result that is recorded, or of a continuation.
LEMMA RowGoesOn ==
  ASSUME RecordInv, NEW c \in Calls, TransitionCas(c), NEW to \in Claimed \ {"ADMITTED"}, Swaps(c, to),
         RequiresClaim(led.state), call[c].ev.kind # "RESUME", invoked' = invoked,
         to = "WAITING_FOR_MAPPING" => tx1 = 0,
         led'.result = Won => tx1 = 1, to = "CONTINUATION_CONSUMED" => Consumed \in Entries'
  PROVE  RowOK'
<1>1. invoked \in Nat /\ resumed \in Nat /\ resumed' = resumed
  BY CasFacts DEF Swaps
<1>2. invoked' <= 1 + resumed'
  BY <1>1 DEF RecordInv, RowOK
<1> QED  BY <1>1, <1>2, RowAdvances

LEMMA AfterResultFits ==
  ASSUME NEW comp \in Composites, comp.safe # NoResult, comp.cont <=> comp.safe = Won
  PROVE  LET ev == AfterResult(comp)
         IN  /\ ev \in Events /\ ev.expected = "RESULT_RECORDED" /\ ev.kind \notin {"BEGIN", "RESUME"}
             /\ DriveOK(ev, comp)
<1>1. comp.safe \in {NotRun, Won} /\ comp.wait \in BOOLEAN /\ comp.cont \in BOOLEAN
  BY DEF Composites
<1>2. CASE comp.wait
  <2> DEFINE e == Event("WAIT", "RESULT_RECORDED")
  <2>1. /\ e \in Events /\ e.kind = "WAIT" /\ e.expected = "RESULT_RECORDED" /\ e.result = NoResult
    BY DEF Event, Events, Kinds, States, Sayings, Classes
  <2>2. AfterResult(comp) = e
    BY <1>2 DEF AfterResult
  <2> HIDE DEF e
  <2>3. DriveOK(e, comp)
    BY <1>2, <2>1 DEF DriveOK
  <2> QED  BY <2>1, <2>2, <2>3
<1>3. CASE ~comp.wait /\ comp.cont
  <2> DEFINE e == Event("REQUEST", "RESULT_RECORDED")
  <2>1. /\ e \in Events /\ e.kind = "REQUEST" /\ e.expected = "RESULT_RECORDED" /\ e.result = NoResult
    BY DEF Event, Events, Kinds, States, Sayings, Classes
  <2>2. AfterResult(comp) = e
    BY <1>3, SayingFacts DEF AfterResult
  <2> HIDE DEF e
  <2>3. DriveOK(e, comp)
    BY <1>3, <2>1 DEF DriveOK
  <2> QED  BY <2>1, <2>2, <2>3
<1>4. CASE ~comp.wait /\ ~comp.cont
  <2> DEFINE e == ResultEvent("TERMINAL", "RESULT_RECORDED", NotRun)
  <2>1. comp.safe = NotRun
    BY <1>1, <1>4
  <2>2. /\ e \in Events /\ e.kind = "TERMINAL" /\ e.expected = "RESULT_RECORDED" /\ e.result = NotRun
    BY DEF ResultEvent, Event, Events, Kinds, States, Sayings, Classes
  <2>3. ~comp.safe.required /\ ~comp.safe.unknown
    BY <2>1, SayingFacts
  <2>4. AfterResult(comp) = e
    BY <1>4, <2>1, <2>3 DEF AfterResult
  <2> HIDE DEF e
  <2>5. DriveOK(e, comp)
    BY <2>1, <2>2 DEF DriveOK
  <2> QED  BY <2>2, <2>4, <2>5
<1> QED  BY <1>2, <1>3, <1>4

LEMMA RecordResultCas ==
  ASSUME RecordInv, NEW c \in Calls, TransitionCas(c), CasHolds(led, call[c].claim, call[c].ev),
         call[c].job \in {"process", "resume"}, call[c].ev.kind = "RECORD_RESULT"
  PROVE  RecordInv'
<1> DEFINE ev == AfterResult(call[c].comp)
<1>1. /\ call[c].ev.expected = "EXECUTING" /\ call[c].ev.result = call[c].comp.safe
      /\ call[c].comp.safe # NoResult /\ led.state = "EXECUTING"
  BY DriverAlone DEF DriveOK
<1>2. Swaps(c, "RESULT_RECORDED")
  BY <1>1, CasSwaps DEF TransitionTable
<1>3. TrueSaying(call[c].comp.safe) /\ (call[c].comp.cont <=> call[c].comp.safe = Won)
  BY <1>1, CasFacts DEF CompOK
<1>4. UNCHANGED <<invoked, x>> /\ (Return(c) \/ Send(c, ev))
  BY CasAnswers DEF Stored
<1>5. RowOK'
  <2>1. led'.result = Won => tx1 = 1
    BY <1>1, <1>2, <1>3 DEF Swaps, TrueSaying
  <2> QED  BY <1>1, <1>2, <1>4, <2>1, RowGoesOn DEF Claimed, RequiresClaim
<1>6. CASE Return(c)
  BY <1>2, <1>4, <1>5, <1>6, AnswerLost
<1>7. CASE Send(c, ev)
  <2>1. /\ ev \in Events /\ ev.expected = "RESULT_RECORDED" /\ ev.kind \notin {"BEGIN", "RESUME"}
        /\ DriveOK(ev, call[c].comp)
    BY <1>1, <1>3, CasFacts, AfterResultFits
  <2> HIDE DEF ev
  <2> QED  BY <1>2, <1>4, <1>5, <1>7, <2>1, GoesOn
<1> QED  BY <1>4, <1>6, <1>7

LEMMA WaitCas ==
  ASSUME RecordInv, NEW c \in Calls, TransitionCas(c), CasHolds(led, call[c].claim, call[c].ev),
         call[c].job \in {"process", "resume"}, call[c].ev.kind = "WAIT"
  PROVE  RecordInv'
<1>1. /\ call[c].ev.expected = "RESULT_RECORDED" /\ call[c].ev.result = NoResult
      /\ call[c].comp.wait /\ led.state = "RESULT_RECORDED"
  BY DriverAlone DEF DriveOK
<1>2. Swaps(c, "WAITING_FOR_MAPPING")
  BY <1>1, CasSwaps DEF TransitionTable
<1>3. tx1 = 0
  BY <1>1, CasFacts, SayingFacts DEF CompOK, TrueSaying
<1>4. UNCHANGED <<invoked, x>> /\ Return(c)
  BY CasAnswers DEF Stored
<1>5. RowOK'
  <2>1. led'.result = Won => tx1 = 1
    BY <1>1, <1>2 DEF Swaps, RecordInv, RowOK
  <2> QED  BY <1>1, <1>2, <1>3, <1>4, <2>1, RowGoesOn DEF Claimed, RequiresClaim
<1> QED  BY <1>2, <1>4, <1>5, AnswerLost

LEMMA RequestCas ==
  ASSUME RecordInv, NEW c \in Calls, TransitionCas(c), CasHolds(led, call[c].claim, call[c].ev),
         call[c].job \in {"process", "resume"}, call[c].ev.kind = "REQUEST"
  PROVE  RecordInv'
<1> DEFINE k == [call[c] EXCEPT !.pc = "continue", !.ev = NoEvent]
<1>1. /\ call[c].ev.expected = "RESULT_RECORDED" /\ call[c].ev.result = NoResult
      /\ call[c].comp.cont /\ led.state = "RESULT_RECORDED"
  BY DriverAlone DEF DriveOK
<1>2. Swaps(c, "CONTINUATION_PENDING")
  BY <1>1, CasSwaps DEF TransitionTable
<1>3. UNCHANGED <<invoked, x>> /\ (Return(c) \/ Goto(c, k))
  BY CasAnswers DEF Stored
<1>4. RowOK'
  <2>1. led'.result = Won => tx1 = 1
    BY <1>1, <1>2 DEF Swaps, RecordInv, RowOK
  <2> QED  BY <1>1, <1>2, <1>3, <2>1, RowGoesOn DEF Claimed, RequiresClaim
<1>5. CASE Return(c)
  BY <1>2, <1>3, <1>4, <1>5, AnswerLost
<1>6. CASE Goto(c, k)
  <2>1. NoEvent \in Events /\ NoEvent.kind = "none" /\ call[c] \in CallRecord
    BY EventFields, CallTypeOf DEF NoEvent, Kinds
  <2>2. /\ k \in CallRecord /\ k.pc = "continue" /\ k.job = call[c].job /\ k.comp = call[c].comp
        /\ k.ev = NoEvent
    BY <2>1 DEF CallRecord, CallPcs
  <2> HIDE DEF k
  <2>3. /\ call' \in [Calls -> CallRecord] /\ call'[c] = k
        /\ \A d \in Calls \ {c} : call'[d] = call[d]
    BY <1>6, <2>2, Gone DEF RecordInv, RecordTypes
  <2>4. EventOK(c)'
    BY <2>2, <2>3 DEF EventOK, Sends
  <2>5. Expects(c)' = "CONTINUATION_PENDING" /\ Others(c) /\ Driver(c)'
    BY <1>3, <2>2, <2>3 DEF Expects, Others, Driver
  <2>6. CompOK(c)'
    BY <1>1, <1>2, <2>1, <2>2, <2>3, <2>5, CasFacts DEF CompOK, TrueSaying, Swaps
  <2>7. RunOK(c)'
    BY <1>3, CasFacts DEF RunOK, InTX1
  <2>8. invoked' \in Nat /\ x' \in [Calls -> RunRecord]
    BY <1>3 DEF RecordInv, RecordTypes
  <2> QED  BY <1>2, <1>4, <2>2, <2>3, <2>4, <2>5, <2>6, <2>7, <2>8, AnswerArrives
<1> QED  BY <1>3, <1>5, <1>6

LEMMA ConsumeCas ==
  ASSUME RecordInv, NEW c \in Calls, TransitionCas(c), CasHolds(led, call[c].claim, call[c].ev),
         call[c].job \in {"process", "resume"}, call[c].ev.kind = "CONSUME"
  PROVE  RecordInv'
<1> DEFINE ev == ResultEvent("TERMINAL", "CONTINUATION_CONSUMED", call[c].comp.safe)
<1>1. /\ call[c].ev.expected = "CONTINUATION_PENDING" /\ call[c].ev.result = NoResult
      /\ call[c].comp.cont /\ led.state = "CONTINUATION_PENDING"
  BY DriverAlone DEF DriveOK
<1>2. Swaps(c, "CONTINUATION_CONSUMED")
  BY <1>1, CasSwaps DEF TransitionTable
<1>3. call[c].comp.safe = Won
  BY <1>1, CasFacts DEF CompOK
<1>4. UNCHANGED <<invoked, x>> /\ (Return(c) \/ Send(c, ev))
  BY CasAnswers DEF Stored
<1>5. RowOK'
  <2>1. (led'.result = Won => tx1 = 1) /\ Consumed \in Entries'
    BY <1>1, <1>2 DEF Swaps, RecordInv, RowOK, Consumed
  <2> QED  BY <1>1, <1>2, <1>4, <2>1, RowGoesOn DEF Claimed, RequiresClaim
<1>6. CASE Return(c)
  BY <1>2, <1>4, <1>5, <1>6, AnswerLost
<1>7. CASE Send(c, ev)
  <2>1. /\ ev \in Events /\ ev.expected = "CONTINUATION_CONSUMED" /\ ev.kind = "TERMINAL" /\ ev.result = Won
    BY <1>3 DEF ResultEvent, Event, Events, Kinds, States, Sayings, Classes
  <2> HIDE DEF ev
  <2>2. DriveOK(ev, call[c].comp)
    BY <1>3, <2>1 DEF DriveOK
  <2> QED  BY <1>2, <1>4, <1>5, <1>7, <2>1, <2>2, GoesOn
<1> QED  BY <1>4, <1>6, <1>7

LEMMA TerminalCas ==
  ASSUME RecordInv, NEW c \in Calls, TransitionCas(c), CasHolds(led, call[c].claim, call[c].ev),
         call[c].job \in {"process", "resume"}, call[c].ev.kind = "TERMINAL"
  PROVE  RecordInv'
<1> DEFINE k == [NewCall EXCEPT !.pc = "offer"]
<1>1. /\ led.state = call[c].ev.expected /\ call[c].ev.result = call[c].comp.safe
      /\ \/ call[c].ev.expected = "RESULT_RECORDED" /\ call[c].comp.safe = NotRun
         \/ call[c].ev.expected = "CONTINUATION_CONSUMED" /\ call[c].comp.safe = Won
  BY DriverAlone DEF DriveOK
<1>2. Swaps(c, "TERMINAL")
  BY <1>1, CasSwaps DEF TransitionTable, States
<1>3. UNCHANGED <<invoked, x>> /\ (Return(c) \/ Goto(c, k))
  BY CasAnswers DEF Stored
<1>4. RowOK'
  <2>1. call[c].comp.safe # NoResult /\ TrueSaying(call[c].comp.safe)
    BY <1>1, CasFacts, SayingFacts DEF CompOK
  <2>2. led'.result = call[c].comp.safe
    BY <1>1, <1>2, <2>1 DEF Swaps
  <2>3. led'.result = Won => tx1 = 1 /\ Consumed \in Entries'
    BY <1>1, <1>2, <2>1, <2>2, SayingFacts DEF TrueSaying, Swaps, RecordInv, RowOK
  <2> QED  BY <1>2, <1>3, <2>1, <2>2, <2>3, RowSettles DEF Dead
<1>5. CASE Return(c)
  BY <1>2, <1>3, <1>4, <1>5, AnswerLost
<1>6. CASE Goto(c, k)
  <2>1. k \in CallRecord /\ k.pc = "offer" /\ k.comp = NoComposite
    BY NewCallFields DEF CallRecord, CallPcs
  <2> HIDE DEF k
  <2>2. /\ call' \in [Calls -> CallRecord] /\ call'[c] = k
        /\ \A d \in Calls \ {c} : call'[d] = call[d]
    BY <1>6, <2>1, Gone DEF RecordInv, RecordTypes
  <2>3. EventOK(c)' /\ ~Sends(c)' /\ ~Driver(c)'
    BY <2>1, <2>2 DEF EventOK, Sends, Driver
  <2>4. CompOK(c)'
    BY <2>1, <2>2, NewCallFields, SayingFacts DEF CompOK
  <2>5. RunOK(c)'
    BY <1>3, CasFacts DEF RunOK, InTX1
  <2>6. RecordTypes' /\ Others(c)
    BY <1>2, <1>3, <2>2, SwapTypes DEF RecordInv, RecordTypes, Others
  <2> QED  BY <1>2, <1>4, <2>3, <2>4, <2>5, <2>6, DriverAlone, Advances DEF Swaps
<1> QED  BY <1>3, <1>5, <1>6

LEMMA TransitionCasPreserves ==
  ASSUME RecordInv, NEW c \in Calls, TransitionCas(c)
  PROVE  RecordInv'
<1>1. CASE ~CasHolds(led, call[c].claim, call[c].ev)
  <2>1. /\ call[c].pc = "cas" /\ Return(c) /\ x' = x /\ led' = led
        /\ UNCHANGED <<jour, tx1, row, invoked, resumed, trigger, fence, doubtful>>
    BY <1>1 DEF TransitionCas
  <2>2. Keeps /\ led' \in RowRecord
    BY <2>1 DEF Keeps, RecordInv, RecordTypes
  <2> QED  BY <2>1, <2>2, Quits
<1>2. CASE CasHolds(led, call[c].claim, call[c].ev)
  <2>1. EventFits(call[c])
    BY CasFacts
  <2>2. CASE call[c].ev.kind = "REQUIRE_RECOVERY"
    BY <1>2, <2>2, RecoveryCas
  <2>3. CASE call[c].job = "resolve"
    BY <1>2, <2>3, ResolveCas
  <2>4. CASE call[c].job = "finalize" /\ call[c].ev.kind = "TERMINAL"
    BY <1>2, <2>4, FinalizeCas
  <2>5. CASE call[c].job \in {"process", "resume"} /\ call[c].ev.kind # "REQUIRE_RECOVERY"
    <3>1. call[c].ev.kind \in {"RESUME", "BEGIN", "RECORD_RESULT", "WAIT", "REQUEST", "CONSUME", "TERMINAL"}
      BY <1>2, <2>5, DriverAlone DEF DriveOK
    <3> QED  BY <1>2, <2>5, <3>1, ResumeCas, BeginCas, RecordResultCas, WaitCas, RequestCas, ConsumeCas,
                TerminalCas
  <2> QED  BY <2>1, <2>2, <2>3, <2>4, <2>5 DEF EventFits
<1> QED  BY <1>1, <1>2

LEMMA RecordNext == RecordInv /\ [Next]_vars => RecordInv'
<1> SUFFICES ASSUME RecordInv, [Next]_vars PROVE RecordInv'
  OBVIOUS
<1>1. CASE UNCHANGED vars
  <2>1. /\ UNCHANGED <<led, jour, call, x, row, trigger, fence, tx1, invoked, resumed, doubtful>>
    BY <1>1 DEF vars, xvars, d4vars
  <2>2. RecordTypes' /\ DriversOK'
    BY <2>1 DEF RecordInv, RecordTypes, DriversOK, Driver, Sends, Expects
  <2>3. RowOK' /\ JournalLinks'
    BY <2>1 DEF RecordInv, RowOK, JournalLinks, RequiresClaim, Entries, TrueSaying
  <2>4. DoubtOK'
    BY <2>1 DEF RecordInv, DoubtOK, Driver, Sends
  <2>5. ASSUME NEW c \in Calls PROVE EventOK(c)' /\ ResolveOK(c)' /\ CompOK(c)' /\ RunOK(c)'
    <3>1. EventOK(c) /\ ResolveOK(c) /\ CompOK(c) /\ RunOK(c)
      BY DEF RecordInv
    <3>2. EventOK(c)'
      BY <2>1, <3>1 DEF EventOK, Sends
    <3>3. ResolveOK(c)'
      BY <2>1, <3>1 DEF ResolveOK, Sends, Inside, TrueSaying
    <3>4. CompOK(c)'
      BY <2>1, <3>1 DEF CompOK, Driver, Sends, TrueSaying
    <3>5. RunOK(c)'
      BY <2>1, <3>1 DEF RunOK
    <3> QED  BY <3>2, <3>3, <3>4, <3>5
  <2> QED  BY <2>2, <2>3, <2>4, <2>5 DEF RecordInv
<1>2. CASE World
  BY <1>2, WorldPreserves
<1>3. ASSUME NEW c \in Calls, Start(c) \/ CallStep(c) \/ Crash(c) PROVE RecordInv'
  BY <1>3, StartPreservesRecord, ReceivePreserves, ClaimPreserves, GetRecordPreserves, TransitionReadPreserves,
     TransitionCasPreserves, RunPreserves, InvokeD4Preserves, ContinuationPreserves,
     ReceivedBundlePreserves, OfferBundlePreserves, CrashPreserves DEF CallStep
<1> QED  BY <1>1, <1>2, <1>3 DEF Next

-----------------------------------------------------------------------------
(* What is said of every record *)

\* At every step of the calls, of the executor behind them and of the sessions
\* around them, one call at most drives the record of an owner tuple, the row
\* is where that call expects it or in recovery or terminal, and a result that
\* a call has in hand is what the database did.
THEOREM RecordInvariance == Spec => []RecordInv
<1>1. Init => RecordInv
  BY RecordInit
<1>2. RecordInv /\ [Next]_vars => RecordInv'
  BY RecordNext
<1> QED  BY <1>1, <1>2, PTL DEF Spec

LEMMA RecordTruth == RecordInv => RecordIsTrue
<1> SUFFICES ASSUME RecordInv PROVE RecordIsTrue
  OBVIOUS
<1>1. led \in RowRecord /\ RowOK /\ tx1 \in {0, 1}
  BY DEF RecordInv, RecordTypes
<1>2. led.result \in Sayings /\ led.result \in Results \cup {NoResult}
  BY <1>1, SayingFacts DEF RowRecord, Sayings
<1>3. D4TypeOK
  <2>1. /\ led.state \in States \cup {"none"} /\ led.class \in Classes
        /\ led.corr \in {"none", "k1", "k2", "own"} /\ led.claim \in Calls \cup {None}
    BY <1>1 DEF RowRecord
  <2>2. (RequiresClaim(led.state) => led.claim # None) /\ (led.state = "RECEIVED" => led.claim = None)
    BY <1>1 DEF RowOK
  <2>3. x \in [Calls -> RunRecord] /\ row \in Facts /\ fence \in Calls \cup {None, "orphan"}
    BY DEF RecordInv, RecordTypes
  <2>4. jour \in Seq(States \X States) /\ tx1 \in Nat /\ invoked \in Nat
    BY DEF RecordInv, RecordTypes
  <2> QED  BY <1>2, <2>1, <2>2, <2>3, <2>4 DEF D4TypeOK, RunRecord
<1>4. OneExecutor
  <2> DEFINE S == {c \in Calls : Inside(c)}
  <2>1. \A c, d \in Calls : Inside(c) /\ Inside(d) => c = d
    BY DEF RecordInv, DriversOK, RunOK, Inside, Driver
  <2>2. Cardinality(S) <= 1
    <3>1. CASE S = {}
      BY <3>1, FS_EmptySet
    <3>2. CASE S # {}
      <4>1. PICK c : c \in S
        BY <3>2
      <4>2. S = {c}
        BY <2>1, <4>1
      <4> QED  BY <4>2, FS_Singleton
    <3> QED  BY <3>1, <3>2
  <2>3. invoked <= 1 + resumed
    BY <1>1 DEF RowOK
  <2> QED  BY <1>1, <2>2, <2>3 DEF OneExecutor
<1>5. JournalLinks /\ TriggerOn
  BY DEF RecordInv, RecordTypes, TriggerOn
<1>6. SuccessIsTrue
  <2>1. led.result.disp = "SUCCESS" => led.result = Won
    BY <1>2, SayingFacts DEF Sayings
  <2> QED  BY <1>1, <2>1 DEF SuccessIsTrue, RowOK, Consumed, Entries
<1>7. TerminalKnowsCommit
  <2>1. ASSUME led.state = "TERMINAL"
        PROVE  /\ led.result.commit = "NOT_COMMITTED" => tx1 = 0
               /\ led.result.commit = "COMMITTED" => tx1 > 0
               /\ led.result.commit # "COMMIT_UNKNOWN"
    <3>1. led.result # NoResult /\ TrueSaying(led.result)
      BY <1>1, <2>1 DEF RowOK
    <3>2. CASE led.result = NotRun
      BY <3>1, <3>2, SayingFacts DEF TrueSaying
    <3>3. CASE led.result \in {Won, Partial}
      <4>1. led.result.commit = "COMMITTED"
        BY <3>3, SayingFacts
      <4>2. tx1 = 1
        BY <3>1, <3>3 DEF TrueSaying
      <4> QED  BY <4>1, <4>2
    <3> QED  BY <1>2, <3>1, <3>2, <3>3 DEF Sayings
  <2> QED  BY <2>1 DEF TerminalKnowsCommit
<1>8. UncertaintyKept
  BY DEF RecordInv, DoubtOK, UncertaintyKept, Recovered
<1> QED  BY <1>3, <1>4, <1>5, <1>6, <1>7, <1>8 DEF RecordIsTrue

\* D4Service over the protected executor: whatever is delivered twice, lost or
\* interrupted, the executor runs once per admission and alone, commits its
\* work at most once, a stored success is backed by that commit and by a
\* consumed handoff, a terminal row says what the database did, and a doubtful
\* invocation ends only by way of recovery.
THEOREM RecordStaysTrue == Spec => []RecordIsTrue
<1>1. RecordInv => RecordIsTrue
  BY RecordTruth
<1> QED  BY <1>1, RecordInvariance, PTL

-----------------------------------------------------------------------------
(* What no step of the record takes back *)

LEMMA UpdatedKeeps ==
  ASSUME NEW rec \in RowRecord, NEW ev
  PROVE  Updated(rec, ev).claim = rec.claim /\ Updated(rec, ev).corr = rec.corr
<1> DEFINE to == Target(ev.expected, ev.kind)
           res == IF ev.result # NoResult THEN ev.result ELSE rec.result
           cls == IF ev.class # "" THEN ev.class ELSE rec.class
<1>1. Updated(rec, ev) = [rec EXCEPT !.state = to, !.result = res, !.class = cls]
  BY DEF Updated
<1> HIDE DEF to, res, cls
<1> QED  BY <1>1 DEF RowRecord

LEMMA DecisionsKept ==
  ASSUME RecordInv, Next
  PROVE  DecisionsStay
<1>1. led \in RowRecord
  BY DEF RecordInv, RecordTypes
<1>2. ASSUME NEW c \in Calls, TransitionCas(c) PROVE DecisionsStay
  <2>1. CASE ~CasHolds(led, call[c].claim, call[c].ev)
    BY <1>2, <2>1 DEF TransitionCas, DecisionsStay
  <2>2. CASE CasHolds(led, call[c].claim, call[c].ev)
    <3>1. led' = Updated(led, call[c].ev) /\ led.state # "TERMINAL"
      BY <1>2, <2>2 DEF TransitionCas, CasHolds, PreventTerminalMutation
    <3> QED  BY <1>1, <3>1, UpdatedKeeps DEF DecisionsStay
  <2> QED  BY <2>1, <2>2
<1>3. ASSUME NEW c \in Calls, Receive(c) PROVE DecisionsStay
  <2>1. led' = IF led = NoRow THEN Received ELSE led
    BY <1>3 DEF Receive, StoreReceive
  <2> QED  BY <2>1, RowFields DEF DecisionsStay
<1>4. ASSUME NEW c \in Calls, Claim(c) PROVE DecisionsStay
  <2>1. CASE ~ClaimWon(led)
    BY <1>4, <2>1 DEF Claim, DecisionsStay
  <2>2. CASE ClaimWon(led)
    <3>1. led' = [led EXCEPT !.state = "ADMITTED", !.claim = c]
      BY <1>4, <2>2 DEF Claim
    <3> QED  BY <1>1, <2>2, <3>1 DEF ClaimWon, DecisionsStay, RowRecord
  <2> QED  BY <2>1, <2>2
<1>5. ASSUME NEW c \in Calls, ReceivedBundle(c) PROVE DecisionsStay
  <2>1. PICK corr \in {"k1", "k2"} :
          LET a == AcceptBundle(StoreReceive, "RECEIVED", corr) IN led' = IF a.ok THEN a.rec ELSE led
    BY <1>5 DEF ReceivedBundle
  <2> DEFINE a == AcceptBundle(StoreReceive, "RECEIVED", corr)
  <2>2. led' = led \/ led' = a.rec
    BY <2>1
  <2>3. CASE led = NoRow
    BY <2>3, RowFields DEF DecisionsStay
  <2>4. CASE led # NoRow
    <3>1. StoreReceive = led
      BY <2>4 DEF StoreReceive
    <3>2. /\ a.rec.claim = led.claim /\ (led.corr # "none" => a.rec.corr = led.corr)
          /\ led.state = "TERMINAL" => a.rec = led
      BY <1>1, <3>1, AcceptFields
    <3> HIDE DEF a
    <3> QED  BY <2>2, <3>2 DEF DecisionsStay
  <2> QED  BY <2>3, <2>4
<1>6. ASSUME NEW c \in Calls, OfferBundle(c) PROVE DecisionsStay
  <2> DEFINE a == AcceptBundle(led, "TERMINAL", "own")
  <2>1. led' = a.rec
    BY <1>6 DEF OfferBundle
  <2>2. /\ a.rec.claim = led.claim /\ (led.corr # "none" => a.rec.corr = led.corr)
        /\ led.state = "TERMINAL" => a.rec = led
    BY <1>1, AcceptFields
  <2> HIDE DEF a
  <2> QED  BY <2>1, <2>2 DEF DecisionsStay
<1>7. ASSUME NEW c \in Calls,
             \/ Start(c) \/ GetRecord(c) \/ TransitionRead(c) \/ Run(c) \/ InvokeD4(c)
             \/ Continuation(c) \/ Crash(c)
      PROVE  DecisionsStay
  <2>1. led' = led
    BY <1>7 DEF Start, GetRecord, TransitionRead, Run, InvokeD4, Continuation, Crash, d4vars
  <2> QED  BY <2>1 DEF DecisionsStay
<1>8. CASE World
  BY <1>8 DEF World, d4vars, DecisionsStay
<1> QED  BY <1>2, <1>3, <1>4, <1>5, <1>6, <1>7, <1>8 DEF Next, CallStep

LEMMA ForeignStays ==
  ASSUME RecordInv, Next
  PROVE  ForeignKept
<1>1. row' = row => ForeignKept
  BY DEF ForeignKept
<1>2. ASSUME NEW c \in Calls, Run(c) PROVE ForeignKept
  <2>1. CASE row' = row
    BY <1>1, <2>1
  <2>2. CASE row' # row
    <3>1. x[c].at = "commit" /\ Persist(c)
      BY <1>2, <2>2 DEF Run, RunX, OpenFence, Begin, Plan, SpendLease, Write, Verify, Commit,
         PostVerify, Readiness, Exchange, CloseFence
    <3>2. \A r \in Rows : x[c].work[r] # x[c].before[r] => row[r] = "null"
      BY <3>1, Running DEF RunOK, InTX1
    <3> QED  BY <3>1, <3>2 DEF Persist, ForeignKept
  <2> QED  BY <2>1, <2>2
<1>3. CASE World
  <2>1. row \in Facts
    BY DEF RecordInv, RecordTypes
  <2> QED  BY <1>1, <1>3, <2>1 DEF World, SessionEnds, SupplyMapping, ForeignWrite, ForeignKept, Facts
<1>4. ASSUME NEW c \in Calls, Start(c) \/ Crash(c) \/ CallStep(c), ~Run(c) PROVE ForeignKept
  <2>1. row' = row
    BY <1>4 DEF Start, Crash, AbandonRun, CallStep, Receive, Claim, GetRecord, TransitionRead,
       TransitionCas, InvokeD4, Continuation, ReceivedBundle, OfferBundle, xvars
  <2> QED  BY <1>1, <2>1
<1> QED  BY <1>2, <1>3, <1>4 DEF Next

\* An executor that moves on is not called verified unless it was.
LEMMA UnseenStays ==
  ASSUME RecordInv, NEW c \in Calls, NEW run \in RunRecord, Step(c, run), run.verified => x[c].verified
  PROVE  VerifiedWasSeen
<1>1. /\ x'[c] = run /\ \A d \in Calls \ {c} : x'[d] = x[d]
  BY Stepped DEF RecordInv, RecordTypes
<1> QED  BY <1>1 DEF VerifiedWasSeen

LEMMA FailureSees ==
  ASSUME RecordInv, NEW c \in Calls,
         Step(c, FailPhase(x[c])) \/ Step(c, PostVerifyFailed(x[c])) \/ Step(c, CommitFailed(x[c]))
  PROVE  VerifiedWasSeen
<1> DEFINE r1 == FailPhase(x[c])
           r2 == PostVerifyFailed(x[c])
           r3 == CommitFailed(x[c])
<1>1. /\ r1 \in RunRecord /\ r1.verified = x[c].verified
      /\ r2 \in RunRecord /\ r2.verified = x[c].verified
      /\ r3 \in RunRecord /\ r3.verified = x[c].verified
  BY Running, FailFields
<1>2. Step(c, r1) \/ Step(c, r2) \/ Step(c, r3)
  OBVIOUS
<1> HIDE DEF r1, r2, r3
<1> QED  BY <1>1, <1>2, UnseenStays

LEMMA MoveSees ==
  ASSUME RecordInv, NEW c \in Calls, NEW p \in Phases, Step(c, At(x[c], p))
  PROVE  VerifiedWasSeen
<1> DEFINE run == At(x[c], p)
<1>1. run \in RunRecord /\ run.verified = x[c].verified
  BY Running, AtFields
<1>2. Step(c, run)
  OBVIOUS
<1> HIDE DEF run
<1> QED  BY <1>1, <1>2, UnseenStays

LEMMA FirstTransactionSees ==
  ASSUME RecordInv, NEW c \in Calls,
         OpenFence(c) \/ Begin(c) \/ Plan(c) \/ SpendLease(c) \/ Verify(c) \/ Commit(c)
  PROVE  VerifiedWasSeen
<1>1. x[c] \in RunRecord /\ row \in Facts
  BY Running
<1>2. ASSUME NEW p \in Phases, Step(c, At(x[c], p)) PROVE VerifiedWasSeen
  BY <1>2, MoveSees
<1>3. CASE OpenFence(c)
  BY <1>2, <1>3 DEF OpenFence, At, Phases
<1>4. CASE Begin(c)
  <2> DEFINE run == [x[c] EXCEPT !.at = "plan", !.before = row, !.work = row]
  <2>1. run \in RunRecord /\ run.verified = x[c].verified
    BY <1>1 DEF RunRecord, Phases, InTX1
  <2>2. Step(c, run) \/ Step(c, FailPhase(x[c]))
    BY <1>4 DEF Begin
  <2> HIDE DEF run
  <2> QED  BY <2>1, <2>2, UnseenStays, FailureSees
<1>5. CASE Plan(c)
  <2> DEFINE run == [FailPhase(x[c]) EXCEPT !.blocked = TRUE]
  <2>1. FailPhase(x[c]) \in RunRecord /\ FailPhase(x[c]).verified = x[c].verified
    BY <1>1, FailFields
  <2>2. run \in RunRecord /\ run.verified = x[c].verified
    BY <2>1, BlockFields
  <2>3. Step(c, run) \/ Step(c, At(x[c], "verify")) \/ Step(c, At(x[c], "lease"))
    BY <1>5 DEF Plan, At
  <2> HIDE DEF run
  <2> QED  BY <1>2, <2>2, <2>3, UnseenStays DEF Phases, InTX1
<1>6. CASE SpendLease(c)
  <2>1. Step(c, At(x[c], "write")) \/ Step(c, FailPhase(x[c]))
    BY <1>6 DEF SpendLease, At
  <2> QED  BY <1>2, <2>1, FailureSees DEF Phases, InTX1
<1>7. CASE Verify(c)
  <2> DEFINE run == [RestoreTrigger(x[c]) EXCEPT !.at = "commit"]
  <2>1. run \in RunRecord /\ run.verified = x[c].verified
    BY <1>1 DEF RestoreTrigger, RunRecord, Phases, InTX1
  <2>2. Step(c, run) \/ Step(c, FailPhase(x[c]))
    BY <1>7 DEF Verify
  <2> HIDE DEF run
  <2> QED  BY <2>1, <2>2, UnseenStays, FailureSees
<1>8. CASE Commit(c)
  <2>1. Step(c, At(x[c], "tx2")) \/ Step(c, CommitFailed(x[c]))
    BY <1>8 DEF Commit, At
  <2> QED  BY <1>2, <2>1, FailureSees DEF Phases
<1> QED  BY <1>3, <1>4, <1>5, <1>6, <1>7, <1>8

LEMMA WriteSees ==
  ASSUME RecordInv, NEW c \in Calls, Write(c)
  PROVE  VerifiedWasSeen
<1> DEFINE todo == NullItems(x[c].work)
           r == NextItem(todo)
           off == x[c].off \/ r = "audit"
           p == IF todo = {r} THEN "verify" ELSE "write"
           run == Written(x[c], r, off, p)
<1>1. x[c].at = "write" /\ x[c] \in RunRecord /\ todo # {}
  BY Running DEF Write, RunOK
<1>2. r \in Rows
  <2>1. todo \in SUBSET Rows
    BY DEF NullItems
  <2> QED  BY <1>1, <2>1, NextItemIn
<1>3. CASE row[r] # x[c].before[r]
  <2>1. ExecuteCASItem(c, r) = FailPhase(x[c]) /\ FailPhase(x[c]).at = "close"
    BY <1>1, <1>3, FailFields DEF ExecuteCASItem
  <2>2. Step(c, FailPhase(x[c]))
    BY <2>1 DEF Write
  <2> QED  BY <2>2, FailureSees
<1>4. CASE row[r] = x[c].before[r]
  <2>1. off \in BOOLEAN /\ p \in Phases
    BY DEF Phases, InTX1
  <2>2. OwnValue(x[c], r).at = x[c].at /\ run \in RunRecord /\ run.verified = x[c].verified
    <3>1. x[c] \in RunRecord
      BY <1>1
    <3>2. r \in Rows
      BY <1>2
    <3> HIDE DEF r, off, p
    <3>3. /\ OwnValue(x[c], r).at = x[c].at /\ run \in RunRecord /\ run.verified = x[c].verified
          /\ run.work = [x[c].work EXCEPT ![r] = "own"]
      BY <2>1, <3>1, <3>2, WriteFields
    <3> QED  BY <3>3
  <2>3. ExecuteCASItem(c, r) = OwnValue(x[c], r)
    BY <1>4 DEF ExecuteCASItem, OwnValue
  <2>4. Step(c, run)
    BY <1>1, <2>2, <2>3 DEF Write, Written
  <2> HIDE DEF run
  <2> QED  BY <2>2, <2>4, UnseenStays
<1> QED  BY <1>3, <1>4

LEMMA PostVerifySees ==
  ASSUME RecordInv, NEW c \in Calls, PostVerify(c)
  PROVE  VerifiedWasSeen
<1> DEFINE expected == ApplyExpectedFacts(x[c].before, NullItems(x[c].before))
           run == [Forget(x[c]) EXCEPT !.at = "ready", !.verified = TRUE, !.outcome = "COMMITTED_AND_VERIFIED",
                                       !.before = row]
<1>1. x[c].at = "tx2" /\ tx1 = 1 /\ trigger = TRUE /\ x \in [Calls -> RunRecord]
  BY Running DEF PostVerify, RunOK, RecordInv, RecordTypes
<1>2. (Step(c, run) /\ row = expected) \/ Step(c, PostVerifyFailed(x[c]))
  BY DEF PostVerify, EqualCanonicalFacts
<1>3. CASE Step(c, run) /\ row = expected
  <2>1. \A d \in Calls \ {c} : x'[d] = x[d]
    BY <1>1, <1>3 DEF Step
  <2> HIDE DEF run
  <2>2. \A d \in Calls : ~x[d].verified /\ x'[d].verified => d = c
    BY <2>1
  <2> QED  BY <1>1, <1>3, <2>2 DEF VerifiedWasSeen
<1>4. CASE Step(c, PostVerifyFailed(x[c]))
  BY <1>4, FailureSees
<1> HIDE DEF run, expected
<1> QED  BY <1>2, <1>3, <1>4

LEMMA HandoffSees ==
  ASSUME RecordInv, NEW c \in Calls, Readiness(c) \/ Exchange(c) \/ CloseFence(c)
  PROVE  VerifiedWasSeen
<1>1. x[c] \in RunRecord
  BY Running
<1>2. CASE Readiness(c)
  <2> DEFINE run == [x[c] EXCEPT !.at = "exchange", !.d007 = "live"]
  <2>1. run \in RunRecord /\ run.verified = x[c].verified
    BY <1>1 DEF RunRecord, Phases
  <2>2. Step(c, run) \/ Step(c, PostVerifyFailed(x[c]))
    BY <1>2 DEF Readiness
  <2> HIDE DEF run
  <2> QED  BY <2>1, <2>2, UnseenStays, FailureSees
<1>3. CASE Exchange(c)
  <2> DEFINE run == InstallHandoff(x[c], "unused")
             failed == [PostVerifyFailed(x[c]) EXCEPT !.d007 = "spent"]
  <2>1. run \in RunRecord /\ run.verified = x[c].verified
    BY <1>1, ForgetFields DEF InstallHandoff, RunRecord, Phases
  <2>2. PostVerifyFailed(x[c]) \in RunRecord /\ PostVerifyFailed(x[c]).verified = x[c].verified
    BY <1>1, FailFields
  <2>3. failed \in RunRecord /\ failed.verified = x[c].verified
    BY <2>2 DEF RunRecord
  <2>4. Step(c, run) \/ Step(c, failed)
    BY <1>3 DEF Exchange
  <2> HIDE DEF run, failed
  <2> QED  BY <2>1, <2>3, <2>4, UnseenStays
<1>4. CASE CloseFence(c)
  <2> DEFINE run == [x[c] EXCEPT !.at = "returned"]
             unsure == [x[c] EXCEPT !.at = "returned", !.cleanup = "UNCERTAIN"]
  <2>1. run \in RunRecord /\ run.verified = x[c].verified
    BY <1>1 DEF RunRecord, Phases
  <2>2. unsure \in RunRecord /\ unsure.verified = x[c].verified
    BY <1>1 DEF RunRecord, Phases
  <2>3. Step(c, run) \/ Step(c, unsure)
    BY <1>4 DEF CloseFence
  <2> HIDE DEF run, unsure
  <2> QED  BY <2>1, <2>2, <2>3, UnseenStays
<1> QED  BY <1>2, <1>3, <1>4

LEMMA VerifiedIsSeen ==
  ASSUME RecordInv, Next
  PROVE  VerifiedWasSeen
<1>1. x' = x => VerifiedWasSeen
  BY DEF VerifiedWasSeen
<1>2. ASSUME NEW c \in Calls, Run(c) PROVE VerifiedWasSeen
  BY <1>2, FirstTransactionSees, WriteSees, PostVerifySees, HandoffSees DEF Run, RunX
<1>3. ASSUME NEW c \in Calls, TransitionCas(c) PROVE VerifiedWasSeen
  <2> DEFINE run == [FreshRun EXCEPT !.at = "open"]
  <2>1. run \in RunRecord /\ ~run.verified
    BY FreshRunFields DEF RunRecord, Phases
  <2>2. x' = x \/ Step(c, run)
    BY <1>3 DEF TransitionCas
  <2> HIDE DEF run
  <2> QED  BY <1>1, <2>1, <2>2, UnseenStays
<1>4. ASSUME NEW c \in Calls, InvokeD4(c) PROVE VerifiedWasSeen
  <2> DEFINE run == [FreshRun EXCEPT !.d010 = x[c].d010]
  <2>1. run \in RunRecord /\ ~run.verified
    BY FreshRunFields, Running DEF RunRecord
  <2>2. Step(c, run)
    BY <1>4 DEF InvokeD4
  <2> HIDE DEF run
  <2> QED  BY <2>1, <2>2, UnseenStays
<1>5. ASSUME NEW c \in Calls, Continuation(c) PROVE VerifiedWasSeen
  <2>1. PICK fresh \in BOOLEAN : Step(c, ContinueD3(x[c], fresh))
    BY <1>5 DEF Continuation
  <2> DEFINE run == ContinueD3(x[c], fresh)
  <2>2. run \in RunRecord /\ run.verified = x[c].verified
    BY Running DEF ContinueD3, RunRecord
  <2> HIDE DEF run
  <2> QED  BY <2>1, <2>2, UnseenStays DEF run
<1>6. ASSUME NEW c \in Calls, Crash(c) PROVE VerifiedWasSeen
  BY <1>6, FreshRunFields, UnseenStays DEF Crash, AbandonRun
<1>7. ASSUME NEW c \in Calls,
             \/ Start(c) \/ Receive(c) \/ Claim(c) \/ GetRecord(c) \/ TransitionRead(c)
             \/ ReceivedBundle(c) \/ OfferBundle(c)
      PROVE  VerifiedWasSeen
  BY <1>1, <1>7 DEF Start, Receive, Claim, GetRecord, TransitionRead, ReceivedBundle, OfferBundle, xvars
<1>8. CASE World
  BY <1>1, <1>8 DEF World, SessionEnds, ForeignWrite, SupplyMapping
<1> QED  BY <1>2, <1>3, <1>4, <1>5, <1>6, <1>7, <1>8 DEF Next, CallStep

\* Seen together, as the two ledgers are run: no step replaces an ended lease,
\* a terminal row, a claim, a correlation or the value of another session, and
\* "verified" is said only of facts that the second transaction has read.
THEOREM NothingIsEverReplaced == PartsSpec => NothingIsReplaced
<1>1. PartsInit => IInv /\ RecordInv
  BY InitSafe, RecordInit DEF PartsInit
<1> DEFINE Moves == [Parts /\ UNCHANGED part]_<<leaseVars, vars, part>>
           Kept == EndedStays /\ DecisionsStay /\ ForeignKept /\ VerifiedWasSeen
<1>2. Moves => [LeaseNext]_leaseVars /\ [Next]_vars
  BY DEF Parts
<1>3. IInv /\ RecordInv /\ Moves => (IInv /\ RecordInv)'
  BY <1>2, NextSafe, RecordNext
<1>4. IInv /\ RecordInv /\ Moves => [Kept]_<<leaseVars, vars>>
  <2> SUFFICES ASSUME IInv, RecordInv, Parts PROVE Kept
    OBVIOUS
  <2>1. CASE LeaseNext /\ UNCHANGED vars
    <3>1. UNCHANGED <<led, row, x>>
      BY <2>1 DEF vars, xvars, d4vars
    <3>2. DecisionsStay /\ ForeignKept /\ VerifiedWasSeen
      BY <3>1 DEF DecisionsStay, ForeignKept, VerifiedWasSeen
    <3> QED  BY <2>1, <3>2, EndedKept
  <2>2. CASE Next /\ UNCHANGED leaseVars
    <3>1. EndedStays
      BY <2>2, UnwrittenStays DEF leaseVars
    <3> QED  BY <2>2, <3>1, DecisionsKept, ForeignStays, VerifiedIsSeen
  <2> QED  BY <2>1, <2>2 DEF Parts
<1> QED  BY <1>1, <1>3, <1>4, PTL DEF PartsSpec, NothingIsReplaced
=============================================================================
