--------------------------- MODULE MigrationProofs --------------------------
(***************************************************************************)
(* Proofs about SchemaMigrations and the WriterFence under it, for any     *)
(* writers, operators and backends, any commands and databases of the      *)
(* product, and any bounds.                                                *)
(***************************************************************************)
EXTENDS SchemaMigrations, SequenceTheorems, FiniteSetTheorems, TLAPS

-----------------------------------------------------------------------------
(* The inductive invariant: the fence *)

Somebody == Backends \cup {NoBackend}
Handles == [Operators -> Somebody]

FenceTypes ==
    /\ queue \in Seq(Writers \cup Backends)
    /\ shared \subseteq Writers
    /\ owner \in Somebody
    /\ alive \subseteq Backends
    /\ conn \in Handles /\ pid \in Handles
    /\ fstate \in [Operators -> OwnershipStates]

Occurs(q, x) == \E i \in DOMAIN q : q[i] = x
Once(q) == \A i, j \in DOMAIN q : q[i] = q[j] => i = j

\* The server's side: who waits waits once; a backend that waits does not hold
\* the fence, one that waits or holds is alive; holders exclude each other.
ServerOK ==
    /\ Once(queue)
    /\ \A b \in Backends : Waiting(b) => b # owner /\ b \in alive
    /\ owner # NoBackend => owner \in alive /\ shared = {}

\* The handles' side: a connected handle waits or owns, on the live backend
\* whose PID it captured; no two handles captured the same one.
HandlesOK ==
    \A o \in Operators :
        /\ conn[o] # NoBackend => conn[o] = pid[o] /\ conn[o] \in alive
        /\ conn[o] # NoBackend <=> fstate[o] \in {"waiting", "owned"}
        /\ fstate[o] = "owned" => owner = conn[o]
        /\ fstate[o] \in {"unknown", "released"} => pid[o] # NoBackend
        /\ fstate[o] = "released" => owner # pid[o] /\ ~Waiting(pid[o])
        /\ \A p \in Operators \ {o} : pid[o] = pid[p] => pid[o] = NoBackend

FenceInv == FenceTypes /\ ServerOK /\ HandlesOK

-----------------------------------------------------------------------------
(* The inductive invariant: commands and the database *)

\* Places of a command inside its fence window, and outside one.
Inside == {"gate", "lock", "inspect", "up", "upmark", "upbody", "upclean",
           "downmark", "downbody", "downclean", "restore", "marker", "body",
           "final", "recover", "proof", "mark", "bodies", "b02final", "apply", "close"}
Outside == {"idle", "open", "version", "reread", "catalog", "done", "serving"}

Pcs == Inside \cup Outside \cup {"fence", "probe", "resolve"}

\* The places of the generic runner.
Public == {"gate", "up", "upmark", "upbody", "upclean",
           "downmark", "downbody", "downclean", "restore"}

Reports ==
    [cmd : {"none", "up", "down", "admit", "d5", "restore5", "complete6", "b02"},
     pc : Pcs, v : -1..7, next : 0..13, out : Outcomes, meta : MetaRows]

\* A catalog found without metadata that Up can take to V5.
Adoptable(d) == d.found \subseteq 1..3

\* Without metadata nothing is there that was not found.  A catalog found with
\* body 4 stays as it is: body 4 is not repeatable, so Up ends dirty at V4.
FoundOK(d) ==
    /\ ~d.meta.row => d.bodies \subseteq d.found
    /\ \/ Adoptable(d)
       \/ /\ 4 \in d.found /\ d.bodies = d.found
          /\ d.meta.row => /\ d.found = 1..4 /\ d.meta.version \in 1..4
                           /\ d.meta.version = 4 => d.meta.dirty

GoodDB(d) == d \in DBs /\ InOrder(d) /\ Complete(d) /\ FoundOK(d)

\* The generic runner is at version v: the bodies up to v, and found ones.
Has(d, v) ==
    /\ d.found \subseteq 1..4
    /\ 1..v \subseteq d.bodies /\ d.bodies \subseteq (1..v) \cup d.found

\* How a database may change: a protected catalog loses no body, clean
\* protected metadata is not lowered, and no command reconciles rows or changes
\* what was found.
Follows(d, e) ==
    /\ 1..6 \subseteq d.bodies => d.bodies \subseteq e.bodies
    /\ d.meta.row /\ ~d.meta.dirty /\ d.meta.version >= 6 => e.meta.version >= d.meta.version
    /\ e.unresolved = d.unresolved /\ e.found = d.found

\* The handle of a command is where its window is.
WindowOK(k, s) ==
    /\ k.pc \in Inside => s = "owned"
    /\ k.pc = "fence" => s = "waiting"
    /\ k.pc \in {"probe", "resolve"} => s = "unknown"
    /\ k.pc \in Outside => s \in {"not_attempted", "released", "unknown"}

\* What a command remembers across its windows.
Remembers(k, d) ==
    /\ k.cmd = "b02" =>
        /\ k.v \in {0, 6, 7}
        /\ k.v = 0 => k.next \in 0..6
        /\ k.v = 0 /\ k.out = "none" => k.next \in 0..5
        /\ k.v = 6 => ~d.unresolved
        /\ k.v = 6 /\ k.out = "none" /\ k.pc \in {"close", "open", "fence", "mark"} => k.next = 7
        /\ k.v = 7 => k.next \in 1..5 /\ 1..6 \subseteq d.bodies /\ Adoptable(d)
    /\ k.out = "serve6" => 1..6 \subseteq d.bodies
    /\ k.out = "serve7" => 1..12 \subseteq d.bodies
    /\ k.pc \in {"lock", "inspect"} =>
        k.cmd \in {"d5", "restore5", "complete6", "b02"} /\ k.out = "none"
    /\ k.pc \in {"lock", "inspect"} /\ k.cmd = "b02" => k.v = 0
    /\ k.pc \in {"open", "fence", "version"} => k.out = "none" /\ k.cmd # "none"

\* What a command inside its window knows of the database.
Knows(k, d) ==
    /\ k.pc \in Public => k.cmd \in {"up", "down", "admit"}
    /\ k.pc \in Inside \ {"close"} => k.out = "none"
    /\ k.pc = "up" =>
        /\ k.v \in -1..5 /\ k.v # 0
        /\ Has(d, IF k.v < 1 THEN 0 ELSE k.v) /\ d.meta = SetVersion(k.v, FALSE)
    /\ k.pc = "upmark" =>
        /\ k.next \in 1..5
        /\ Has(d, k.next - 1) /\ d.meta = SetVersion(Previous(k.next), FALSE)
    /\ k.pc = "upbody" =>
        k.next \in 1..5 /\ Has(d, k.next - 1) /\ d.meta = Row(k.next, TRUE)
    /\ k.pc = "upclean" =>
        /\ k.next \in 1..5 /\ Has(d, k.next) /\ d.meta = Row(k.next, TRUE)
        /\ k.next >= 4 => Adoptable(d)
    /\ k.pc \in {"downmark", "downbody", "restore", "downclean"} => k.v \in 1..5 /\ Adoptable(d)
    /\ k.pc = "downmark" => Has(d, k.v) /\ d.meta = Row(k.v, FALSE)
    /\ k.pc \in {"downbody", "restore"} => Has(d, k.v) /\ d.meta = Row(Previous(k.v), TRUE)
    /\ k.pc = "downclean" => Has(d, k.v - 1) /\ d.meta = Row(Previous(k.v), TRUE)
    /\ k.pc = "body" => d.bodies = 1..5
    /\ k.pc = "recover" =>
        /\ k.cmd \in {"restore5", "complete6"}
        /\ d.meta.row /\ d.meta.dirty /\ Adoptable(d)
        /\ IF k.cmd = "restore5" THEN d.bodies = 1..5 ELSE 1..6 \subseteq d.bodies
    /\ k.pc = "mark" => k.cmd = "b02" /\ k.v = 6 /\ k.next = 7
    /\ k.pc \in {"bodies", "b02final"} =>
        /\ k.cmd = "b02" /\ k.v = 6
        /\ k.next \in 7..13
        /\ k.pc = "bodies" => k.next <= 12
        /\ k.pc = "b02final" => k.next = 13
        /\ d.meta = Row(6, TRUE) /\ 1..(k.next - 1) \subseteq d.bodies
    /\ k.pc = "apply" => k.cmd = "b02" /\ k.v = 7
    /\ k.pc = "proof" => k.cmd \in {"d5", "restore5", "complete6"}
    /\ k.pc = "close" =>
        /\ k.out = "verified" =>
            State(d) = CASE k.cmd = "restore5" -> "CLEAN_V5"
                         [] k.cmd = "b02" -> "CLEAN_B02"
                         [] OTHER -> "CLEAN_V6"
        /\ k.out = "guarded" => d.meta = Row(k.v, FALSE) /\ k.v \in d.bodies

CommandOK(k, s, d) == k \in Reports /\ WindowOK(k, s) /\ Remembers(k, d) /\ Knows(k, d)

\* A commit that is undecided belongs to a backend that has no client and
\* still holds the fence; the database has not changed since it was sent.
PendingOK(b) ==
    pending[b] # NoCommit =>
        /\ owner = b
        /\ \A o \in Operators : conn[o] # b
        /\ GoodDB(pending[b]) /\ Follows(db, pending[b])

IInv ==
    /\ FenceInv
    /\ GoodDB(db)
    /\ pending \in [Backends -> DBs \cup {NoCommit}]
    /\ \A b \in Backends : PendingOK(b)
    /\ mlock \in Somebody
    /\ op \in [Operators -> Reports]
    /\ \A o \in Operators : CommandOK(op[o], fstate[o], db)
    /\ saw \in [Writers -> DBs \cup {NoCommit}]
    /\ \A w \in shared : saw[w] = db

-----------------------------------------------------------------------------
(* The queue of the lock manager *)

LEMMA AppendQueue ==
  ASSUME NEW S, NEW q \in Seq(S), Once(q), NEW x \in S, ~Occurs(q, x)
  PROVE  LET r == Append(q, x)
         IN r \in Seq(S) /\ Once(r) /\ \A y : Occurs(r, y) <=> Occurs(q, y) \/ y = x
<1> DEFINE r == Append(q, x)
<1>1. /\ r \in Seq(S) /\ Len(r) = Len(q) + 1 /\ Len(q) \in Nat
      /\ \A i \in 1..Len(q) : r[i] = q[i]
      /\ r[Len(q) + 1] = x
  BY AppendProperties, LenProperties
<1>2. DOMAIN r = 1..(Len(q) + 1) /\ DOMAIN q = 1..Len(q)
  BY <1>1, LenProperties
<1> HIDE DEF r
<1>3. Once(r)
  BY <1>1, <1>2 DEF Once, Occurs
<1>4. ASSUME NEW y PROVE Occurs(r, y) <=> Occurs(q, y) \/ y = x
  <2>1. Len(q) + 1 \in DOMAIN r
    BY <1>1, <1>2
  <2> QED  BY <1>1, <1>2, <2>1 DEF Occurs
<1> QED  BY <1>1, <1>3, <1>4 DEF r

\* Leaving the queue leaves the others in it.
LEMMA LeaveQueue ==
  ASSUME NEW S, queue \in Seq(S), Once(queue), NEW x
  PROVE  /\ Without(x) \in Seq(S) /\ Once(Without(x))
         /\ \A y : Occurs(Without(x), y) <=> Waiting(y) /\ y # x
<1>d. Len(queue) \in Nat /\ DOMAIN queue = 1..Len(queue) /\ queue \in [1..Len(queue) -> S]
  BY LenProperties
<1>1. CASE ~Waiting(x)
  BY <1>1 DEF Without, Waiting, Occurs
<1>2. CASE Waiting(x)
  <2> DEFINE n == Len(queue) - 1
             p == Place(x)
             r == [i \in 1..n |-> IF i < p THEN queue[i] ELSE queue[i + 1]]
  <2>1. p \in 1..Len(queue) /\ queue[p] = x
    BY <1>2, <1>d DEF Waiting, Place
  <2>2. Without(x) = r
    BY <1>2 DEF Without
  <2>3. n \in Nat
    BY <1>d, <2>1
  <2> HIDE DEF p, n
  <2>4. ASSUME NEW i \in 1..n
        PROVE  /\ i \in 1..Len(queue) /\ i + 1 \in 1..Len(queue)
               /\ r[i] = IF i < p THEN queue[i] ELSE queue[i + 1]
    BY <1>d, <2>3 DEF n
  <2>5. r \in [1..n -> S]
    BY <1>d, <2>4
  <2>6. r \in Seq(S)
    BY <2>3, <2>5, SeqDef
  <2>7. DOMAIN r = 1..n
    OBVIOUS
  <2> HIDE DEF r
  <2>8. Once(r)
    <3> SUFFICES ASSUME NEW i \in 1..n, NEW j \in 1..n, r[i] = r[j] PROVE i = j
      BY <2>7 DEF Once
    <3>1. i \in Int /\ j \in Int /\ p \in Int
      BY <2>1, <2>3
    <3>2. CASE i < p /\ j < p
      BY <1>d, <2>4, <3>2 DEF Once
    <3>3. CASE i < p /\ ~(j < p)
      <4>1. i = j + 1
        BY <1>d, <2>4, <3>3 DEF Once
      <4> QED  BY <3>1, <3>3, <4>1
    <3>4. CASE ~(i < p) /\ j < p
      <4>1. j = i + 1
        BY <1>d, <2>4, <3>4 DEF Once
      <4> QED  BY <3>1, <3>4, <4>1
    <3>5. CASE ~(i < p) /\ ~(j < p)
      <4>1. i + 1 = j + 1
        BY <1>d, <2>4, <3>5 DEF Once
      <4> QED  BY <3>1, <4>1
    <3> QED  BY <3>2, <3>3, <3>4, <3>5
  <2>9. ASSUME NEW y, Occurs(r, y) PROVE Waiting(y) /\ y # x
    <3>1. PICK i \in 1..n : r[i] = y
      BY <2>7, <2>9 DEF Occurs
    <3>2. PICK j \in 1..Len(queue) : queue[j] = y /\ j # p
      <4>1. CASE i < p
        BY <2>1, <2>3, <2>4, <3>1, <4>1
      <4>2. CASE ~(i < p)
        <5>1. i + 1 # p
          BY <2>1, <2>3, <4>2
        <5> QED  BY <2>4, <3>1, <4>2, <5>1
      <4> QED  BY <4>1, <4>2
    <3> QED  BY <1>d, <2>1, <3>2 DEF Waiting, Once
  <2>10. ASSUME NEW y, Waiting(y), y # x PROVE Occurs(r, y)
    <3>1. PICK j \in 1..Len(queue) : queue[j] = y
      BY <1>d, <2>10 DEF Waiting
    <3>2. j # p /\ j \in Int /\ p \in Int
      BY <1>d, <2>1, <2>10, <3>1
    <3>3. CASE j < p
      <4>1. j \in 1..n
        BY <1>d, <2>1, <3>1, <3>3 DEF n
      <4> QED  BY <2>4, <2>7, <3>1, <3>3, <4>1 DEF Occurs
    <3>4. CASE p < j
      <4>1. j - 1 \in 1..n /\ ~(j - 1 < p) /\ (j - 1) + 1 = j
        BY <1>d, <2>1, <3>1, <3>4 DEF n
      <4> QED  BY <2>4, <2>7, <3>1, <4>1 DEF Occurs
    <3> QED  BY <3>2, <3>3, <3>4
  <2> QED  BY <2>2, <2>6, <2>8, <2>9, <2>10
<1> QED  BY <1>1, <1>2

-----------------------------------------------------------------------------
(* The fence: one lemma per action *)

\* Who waits after the queue became q.
LEMMA QueueIs ==
  ASSUME NEW q, queue' = q, Once(q)
  PROVE  Once(queue)' /\ \A y : Waiting(y)' <=> Occurs(q, y)
BY DEF Once, Waiting, Occurs

LEMMA JoinQueue ==
  ASSUME FenceInv, NEW x \in Writers \cup Backends, ~Waiting(x), queue' = Append(queue, x)
  PROVE  /\ queue' \in Seq(Writers \cup Backends) /\ Once(queue)'
         /\ \A y : Waiting(y)' <=> Waiting(y) \/ y = x
<1> DEFINE q == Append(queue, x)
<1>1. queue \in Seq(Writers \cup Backends) /\ Once(queue) /\ ~Occurs(queue, x)
  BY DEF FenceInv, FenceTypes, ServerOK, Waiting, Occurs
<1>2. /\ q \in Seq(Writers \cup Backends) /\ Once(q)
      /\ \A y : Occurs(q, y) <=> Occurs(queue, y) \/ y = x
  BY <1>1, AppendQueue
<1> HIDE DEF q
<1>3. queue' = q
  BY DEF q
<1>4. Once(queue)' /\ \A y : Waiting(y)' <=> Occurs(q, y)
  BY <1>2, <1>3, QueueIs
<1>5. \A y : Waiting(y) <=> Occurs(queue, y)
  BY DEF Waiting, Occurs
<1> QED  BY <1>2, <1>3, <1>4, <1>5

LEMMA GrantFence ==
  ASSUME FenceInv, NEW i \in DOMAIN queue, Grant(i)
  PROVE  FenceInv'
<1> DEFINE x == queue[i]
<1>1. /\ queue \in Seq(Writers \cup Backends) /\ Once(queue) /\ Waiting(x)
      /\ x \in Writers \cup Backends /\ owner = NoBackend
  <2>1. queue \in Seq(Writers \cup Backends)
    BY DEF FenceInv, FenceTypes
  <2>2. i \in 1..Len(queue)
    BY <2>1, LenProperties
  <2>3. x \in Writers \cup Backends
    BY <2>1, <2>2, ElementOfSeq
  <2> QED  BY <2>1, <2>3 DEF FenceInv, ServerOK, Grant, Grantable, Waiting
<1>2. /\ queue' \in Seq(Writers \cup Backends) /\ Once(queue)'
      /\ \A y : Waiting(y)' <=> Waiting(y) /\ y # x
  BY <1>1, LeaveQueue, QueueIs DEF Grant
<1> HIDE DEF x
<1>3. CASE x \in Writers
  <2>1. shared' = shared \cup {x} /\ UNCHANGED <<owner, alive, conn, pid, fstate>>
    BY <1>3 DEF Grant, x
  <2>2. x \notin Backends
    BY <1>3, FenceAssumption
  <2>3. FenceTypes'
    BY <1>2, <1>3, <2>1 DEF FenceInv, FenceTypes
  <2>4. ServerOK'
    BY <1>1, <1>2, <2>1, <2>2 DEF FenceInv, ServerOK
  <2>5. HandlesOK'
    BY <1>2, <2>1 DEF FenceInv, HandlesOK
  <2> QED  BY <2>3, <2>4, <2>5 DEF FenceInv
<1>4. CASE x \notin Writers
  <2>1. owner' = x /\ shared = {} /\ UNCHANGED <<shared, alive, conn, pid, fstate>>
    BY <1>4 DEF Grant, Grantable, x
  <2>2. x \in Backends
    BY <1>1, <1>4
  <2>3. FenceTypes'
    BY <1>2, <2>1, <2>2 DEF FenceInv, FenceTypes, Somebody
  <2>4. ServerOK'
    BY <1>1, <1>2, <2>1, <2>2 DEF FenceInv, ServerOK
  <2>5. \A o \in Operators : fstate[o] # "owned"
    BY <1>1 DEF FenceInv, HandlesOK
  <2>6. HandlesOK'
    BY <1>1, <1>2, <2>1, <2>2, <2>5 DEF FenceInv, HandlesOK
  <2> QED  BY <2>3, <2>4, <2>6 DEF FenceInv
<1> QED  BY <1>3, <1>4

LEMMA ExitFence ==
  ASSUME FenceInv, NEW b \in Backends, BackendExit(b)
  PROVE  FenceInv'
<1>1. /\ queue' \in Seq(Writers \cup Backends) /\ Once(queue)'
      /\ \A y : Waiting(y)' <=> Waiting(y) /\ y # b
  BY LeaveQueue, QueueIs DEF FenceInv, FenceTypes, ServerOK, BackendExit
<1>2. /\ b # NoBackend /\ b \notin Writers
      /\ alive' = alive \ {b} /\ UNCHANGED <<shared, conn, pid, fstate>>
      /\ owner' = IF owner = b THEN NoBackend ELSE owner
      /\ \A o \in Operators : conn[o] # b
  BY FenceAssumption DEF BackendExit
<1>3. FenceTypes'
  BY <1>1, <1>2 DEF FenceInv, FenceTypes, Somebody
<1>4. ServerOK'
  BY <1>1, <1>2, FenceAssumption DEF FenceInv, ServerOK, FenceTypes
<1>5. HandlesOK'
  BY <1>1, <1>2 DEF FenceInv, HandlesOK
<1> QED  BY <1>3, <1>4, <1>5 DEF FenceInv

LEMMA WriterFenceKeeps ==
  ASSUME FenceInv, NEW w \in Writers,
         AcquireSharedWriterFence(w) \/ SharedCancelled(w) \/ WriterEnds(w)
  PROVE  FenceInv'
<1>0. w \notin Backends /\ UNCHANGED <<owner, alive, conn, pid, fstate>>
  BY FenceAssumption DEF AcquireSharedWriterFence, SharedCancelled, WriterEnds
<1>1. CASE AcquireSharedWriterFence(w)
  <2>1. /\ queue' \in Seq(Writers \cup Backends) /\ Once(queue)'
        /\ \A y : Waiting(y)' <=> Waiting(y) \/ y = w
    BY <1>1, JoinQueue DEF AcquireSharedWriterFence
  <2>2. shared' = shared
    BY <1>1 DEF AcquireSharedWriterFence
  <2>3. ServerOK'
    BY <1>0, <2>1, <2>2 DEF FenceInv, ServerOK
  <2>4. HandlesOK'
    BY <1>0, <2>1 DEF FenceInv, HandlesOK, FenceTypes, Handles, Somebody
  <2>5. FenceTypes'
    BY <1>0, <1>1, <2>1 DEF FenceInv, FenceTypes, AcquireSharedWriterFence
  <2> QED  BY <2>3, <2>4, <2>5 DEF FenceInv
<1>2. CASE SharedCancelled(w)
  <2>1. /\ queue' \in Seq(Writers \cup Backends) /\ Once(queue)'
        /\ \A y : Waiting(y)' <=> Waiting(y) /\ y # w
    BY <1>2, LeaveQueue, QueueIs DEF FenceInv, FenceTypes, ServerOK, SharedCancelled
  <2>2. shared' = shared
    BY <1>2 DEF SharedCancelled
  <2> QED  BY <1>0, <2>1, <2>2 DEF FenceInv, FenceTypes, ServerOK, HandlesOK
<1>3. CASE WriterEnds(w)
  <2>1. queue' = queue /\ shared' = shared \ {w}
    BY <1>3 DEF WriterEnds
  <2>2. \A y : Waiting(y)' <=> Waiting(y)
    BY <2>1 DEF Waiting
  <2> QED  BY <1>0, <2>1, <2>2 DEF FenceInv, FenceTypes, ServerOK, HandlesOK, Once
<1> QED  BY <1>1, <1>2, <1>3

LEMMA OpenFence ==
  ASSUME FenceInv, NEW o \in Operators, NEW b \in Backends, OpenExclusiveWriterFence(o, b)
  PROVE  FenceInv'
<1> USE DEF OpenExclusiveWriterFence
<1>0. b # NoBackend /\ b # owner /\ ~Waiting(b)
  BY FenceAssumption DEF FenceInv, ServerOK
<1>1. /\ queue' \in Seq(Writers \cup Backends) /\ Once(queue)'
      /\ \A y : Waiting(y)' <=> Waiting(y) \/ y = b
  BY <1>0, JoinQueue
<1>2. FenceTypes'
  BY <1>1 DEF FenceInv, FenceTypes, Handles, Somebody, OwnershipStates
<1>3. ServerOK'
  BY <1>0, <1>1 DEF FenceInv, ServerOK
<1>4. /\ conn'[o] = b /\ pid'[o] = b /\ fstate'[o] = "waiting"
      /\ \A p \in Operators \ {o} :
            conn'[p] = conn[p] /\ pid'[p] = pid[p] /\ fstate'[p] = fstate[p] /\ pid[p] # b
  BY DEF FenceInv, FenceTypes, Handles
<1>5. HandlesOK'
  BY <1>0, <1>1, <1>4 DEF FenceInv, HandlesOK
<1> QED  BY <1>2, <1>3, <1>5 DEF FenceInv

\* A step of o's handle alone, on a server that loses at most its request.
LEMMA HandleFence ==
  ASSUME FenceInv, NEW o \in Operators, NEW s \in OwnershipStates,
         fstate' = [fstate EXCEPT ![o] = s],
         UNCHANGED <<shared, alive, pid>>,
         /\ queue' \in Seq(Writers \cup Backends) /\ Once(queue)'
         /\ \A y : Waiting(y)' => Waiting(y),
         owner' = owner \/ (owner' = NoBackend /\ fstate[o] = "owned"),
         \/ conn' = conn /\ (s \in {"waiting", "owned"} <=> conn[o] # NoBackend)
         \/ conn' = [conn EXCEPT ![o] = NoBackend] /\ s \notin {"waiting", "owned"},
         s = "owned" => owner' = owner /\ owner = conn[o] /\ conn' = conn,
         s \in {"unknown", "released"} => pid[o] # NoBackend,
         s = "released" => owner' # pid[o] /\ ~Waiting(pid[o])
  PROVE  FenceInv'
<1>1. FenceTypes'
  <2>1. conn' \in Handles /\ owner' \in Somebody
    BY DEF FenceInv, FenceTypes, Handles, Somebody
  <2>2. fstate' \in [Operators -> OwnershipStates]
    BY DEF FenceInv, FenceTypes
  <2> QED  BY <2>1, <2>2 DEF FenceInv, FenceTypes
<1>2. ServerOK'
  BY FenceAssumption DEF FenceInv, FenceTypes, ServerOK, Somebody
<1>3. /\ fstate'[o] = s
      /\ \A p \in Operators \ {o} : fstate'[p] = fstate[p] /\ conn'[p] = conn[p]
      /\ conn'[o] # NoBackend => conn'[o] = conn[o]
      /\ conn'[o] # NoBackend <=> s \in {"waiting", "owned"}
  BY DEF FenceInv, FenceTypes, Handles
<1>4. ASSUME NEW p \in Operators \ {o}, fstate[p] = "owned" PROVE owner' = owner
  <2>1. fstate[o] # "owned"
    BY <1>4 DEF FenceInv, HandlesOK
  <2> QED  BY <2>1
<1>5. ASSUME NEW p \in Operators \ {o}, fstate[p] = "released"
      PROVE  owner' # pid[p]
  BY <1>5 DEF FenceInv, HandlesOK
<1>6. HandlesOK'
  <2> SUFFICES ASSUME NEW p \in Operators
               PROVE  /\ conn'[p] # NoBackend => conn'[p] = pid'[p] /\ conn'[p] \in alive'
                      /\ conn'[p] # NoBackend <=> fstate'[p] \in {"waiting", "owned"}
                      /\ fstate'[p] = "owned" => owner' = conn'[p]
                      /\ fstate'[p] \in {"unknown", "released"} => pid'[p] # NoBackend
                      /\ fstate'[p] = "released" => owner' # pid'[p] /\ ~Waiting(pid[p])'
                      /\ \A x \in Operators \ {p} : pid'[p] = pid'[x] => pid'[p] = NoBackend
    BY DEF HandlesOK
  <2>1. CASE p = o
    BY <1>3, <2>1 DEF FenceInv, HandlesOK
  <2>2. CASE p # o
    BY <1>3, <1>4, <1>5, <2>2 DEF FenceInv, HandlesOK
  <2> QED  BY <2>1, <2>2
<1> QED  BY <1>1, <1>2, <1>6 DEF FenceInv

\* The queue is what it was.
LEMMA SameQueue ==
  ASSUME FenceInv, queue' = queue
  PROVE  /\ queue' \in Seq(Writers \cup Backends) /\ Once(queue)'
         /\ \A y : Waiting(y)' => Waiting(y)
BY DEF FenceInv, FenceTypes, ServerOK, Waiting, Once

LEMMA AcquiredFence ==
  ASSUME FenceInv, NEW o \in Operators, Acquired(o)
  PROVE  FenceInv' /\ owner = conn[o] /\ fstate'[o] = "owned"
<1> USE DEF Acquired
<1>1. conn[o] # NoBackend
  BY DEF FenceInv, HandlesOK
<1>2. FenceInv'
  BY <1>1, HandleFence, SameQueue DEF OwnershipStates
<1> QED  BY <1>2 DEF FenceInv, FenceTypes

LEMMA AcquireFailsFence ==
  ASSUME FenceInv, NEW o \in Operators, AcquireFails(o)
  PROVE  FenceInv'
<1> USE DEF AcquireFails
<1>1. pid[o] # NoBackend
  BY DEF FenceInv, HandlesOK
<1>2. /\ queue' \in Seq(Writers \cup Backends) /\ Once(queue)'
      /\ \A y : Waiting(y)' => Waiting(y)
  <2>1. CASE queue' = queue
    BY <2>1, SameQueue
  <2>2. CASE queue' = Without(conn[o])
    BY <2>2, LeaveQueue, QueueIs DEF FenceInv, FenceTypes, ServerOK
  <2> QED  BY <2>1, <2>2
<1> QED  BY <1>1, <1>2, HandleFence DEF OwnershipStates

LEMMA ReleaseFence ==
  ASSUME FenceInv, NEW o \in Operators, Release(o) \/ ReleaseFails(o)
  PROVE  FenceInv' /\ owner = conn[o] /\ conn[o] \in Backends
<1>1. /\ fstate[o] = "owned" /\ pid[o] # NoBackend /\ pid[o] = owner /\ conn[o] = owner
      /\ pid[o] \in Backends /\ ~Waiting(pid[o])
  BY DEF FenceInv, HandlesOK, FenceTypes, ServerOK, Handles, Somebody, Release, ReleaseFails
<1>2. CASE Release(o)
  BY <1>1, <1>2, HandleFence, SameQueue DEF Release, OwnershipStates
<1>3. CASE ReleaseFails(o)
  BY <1>1, <1>3, HandleFence, SameQueue DEF ReleaseFails, OwnershipStates
<1> QED  BY <1>1, <1>2, <1>3

LEMMA DiscardFence ==
  ASSUME FenceInv, NEW o \in Operators, DiscardUnknown(o)
  PROVE  FenceInv'
<1>1. pid[o] # NoBackend /\ conn[o] = NoBackend
  BY DEF FenceInv, HandlesOK, DiscardUnknown
<1>2. owner # pid[o] /\ ~Waiting(pid[o])
  BY <1>1, EmptySeq, LenProperties DEF DiscardUnknown, Free, Waiting
<1> QED  BY <1>1, <1>2, HandleFence, SameQueue DEF DiscardUnknown, OwnershipStates

\* The handle forgets or loses its connection.
LEMMA DetachFence ==
  ASSUME FenceInv, NEW o \in Operators, NEW s \in {"not_attempted", "unknown"},
         s = "unknown" => fstate[o] = "owned",
         fstate' = [fstate EXCEPT ![o] = s],
         conn' = [conn EXCEPT ![o] = NoBackend] \/ (conn' = conn /\ conn[o] = NoBackend),
         UNCHANGED <<queue, shared, owner, alive, pid>>
  PROVE  FenceInv'
<1>1. fstate[o] = "owned" => pid[o] # NoBackend
  BY DEF FenceInv, HandlesOK
<1> QED  BY <1>1, HandleFence, SameQueue DEF OwnershipStates

-----------------------------------------------------------------------------
(* Commands: what a step keeps *)

\* The command at another place, and with a report.
To(k, pc) == [k EXCEPT !.pc = pc]
Ends(k, pc, out) == [k EXCEPT !.pc = pc, !.out = out]

LEMMA ToFields ==
  ASSUME NEW k \in Reports, NEW pc \in Pcs
  PROVE  LET r == To(k, pc)
         IN /\ r \in Reports /\ r.pc = pc
            /\ r.cmd = k.cmd /\ r.v = k.v /\ r.next = k.next /\ r.out = k.out
BY DEF Reports, To

LEMMA EndsFields ==
  ASSUME NEW k \in Reports, NEW pc \in Pcs, NEW out \in Outcomes
  PROVE  LET r == Ends(k, pc, out)
         IN /\ r \in Reports /\ r.pc = pc /\ r.out = out
            /\ r.cmd = k.cmd /\ r.v = k.v /\ r.next = k.next
BY DEF Reports, Ends

\* What is remembered stays true as the database goes on.
LEMMA RemembersOn ==
  ASSUME NEW k, NEW d, NEW e, Remembers(k, d), Follows(d, e)
  PROVE  Remembers(k, e)
<1>1. 1..6 \subseteq d.bodies => 1..6 \subseteq e.bodies
  BY DEF Follows
<1>2. 1..12 \subseteq d.bodies => 1..12 \subseteq e.bodies
  <2>1. 1..6 \subseteq 1..12
    OBVIOUS
  <2> QED  BY <2>1 DEF Follows
<1>3. e.unresolved = d.unresolved /\ e.found = d.found
  BY DEF Follows
<1> QED  BY <1>1, <1>2, <1>3 DEF Remembers, Adoptable

LEMMA KnowsNothing ==
  ASSUME NEW k, NEW d, k.pc \notin Inside  PROVE Knows(k, d)
BY DEF Knows, Inside, Public

\* A metadata row, and the absence of one.
LEMMA MetaFields ==
  ASSUME NEW m \in MetaRows
  PROVE  /\ m.version \in Int /\ -1 <= m.version /\ m.version <= 7
         /\ m.dirty \in BOOLEAN /\ m.row \in BOOLEAN
         /\ m.row => m = Row(m.version, m.dirty)
         /\ ~m.row => m = NoRow
<1>1. CASE m = NoRow
  BY <1>1 DEF NoRow
<1>2. CASE m \in [version : -1..7, dirty : BOOLEAN, row : {TRUE}]
  <2>1. m.version \in -1..7 /\ m.dirty \in BOOLEAN /\ m.row = TRUE
    BY <1>2
  <2>2. m.version \in Int /\ -1 <= m.version /\ m.version <= 7
    BY <2>1
  <2>3. m = [version |-> m.version, dirty |-> m.dirty, row |-> m.row]
    BY <1>2
  <2> QED  BY <2>1, <2>2, <2>3 DEF Row
<1> QED  BY <1>1, <1>2 DEF MetaRows

LEMMA RowFields ==
  ASSUME NEW v \in -1..7, NEW b \in BOOLEAN
  PROVE  /\ Row(v, b) \in MetaRows
         /\ Row(v, b).version = v /\ Row(v, b).dirty = b /\ Row(v, b).row
BY DEF Row, MetaRows

LEMMA FollowsSame ==
  ASSUME NEW d \in DBs  PROVE Follows(d, d)
<1>1. d.meta \in MetaRows
  BY DEF DBs
<1>2. d.meta.version \in Int
  BY <1>1, MetaFields
<1> QED  BY <1>2 DEF Follows

\* A command that is not in its window does not notice a change.
LEMMA OutsideOn ==
  ASSUME NEW k, NEW s, NEW d, NEW e, CommandOK(k, s, d), Follows(d, e), s # "owned"
  PROVE  CommandOK(k, s, e)
BY RemembersOn, KnowsNothing DEF CommandOK, WindowOK

\* A step of o that leaves the database and the undecided commits alone.
LEMMA QuietKeeps ==
  ASSUME IInv, NEW o \in Operators, NEW k, op' = [op EXCEPT ![o] = k],
         UNCHANGED <<db, pending, saw, shared>>, mlock' \in Somebody,
         FenceInv', \A p \in Operators \ {o} : fstate'[p] = fstate[p],
         CommandOK(k, fstate'[o], db),
         \A b \in Backends : pending[b] # NoCommit =>
             owner' = b /\ \A p \in Operators : conn'[p] # b
  PROVE  IInv'
<1>1. op' \in [Operators -> Reports]
  BY DEF IInv, CommandOK
<1>2. \A p \in Operators : CommandOK(op'[p], fstate'[p], db)
  BY DEF IInv
<1>3. \A b \in Backends : PendingOK(b)'
  BY DEF IInv, PendingOK
<1>4. \A p \in Operators : CommandOK(op[p], fstate[p], db)'
  BY <1>2
<1> QED  BY <1>1, <1>3, <1>4 DEF IInv

LEMMA StayKeeps ==
  ASSUME IInv, NEW o \in Operators, NEW k, op' = [op EXCEPT ![o] = k],
         UNCHANGED <<fenceVars, db, pending, saw>>, mlock' \in Somebody,
         CommandOK(k, fstate[o], db)
  PROVE  IInv' /\ db' = db
<1>1. FenceInv'
  <2>1. \A x : Waiting(x)' <=> Waiting(x)
    BY DEF fenceVars, Waiting
  <2> QED  BY <2>1 DEF IInv, FenceInv, FenceTypes, ServerOK, HandlesOK, Once, fenceVars
<1>2. \A b \in Backends : pending[b] # NoCommit =>
             owner' = b /\ \A p \in Operators : conn'[p] # b
  BY DEF IInv, PendingOK, fenceVars
<1> QED  BY <1>1, <1>2, QuietKeeps DEF fenceVars

\* Only the operator whose window is open can be inside one.
LEMMA OnlyOne ==
  ASSUME IInv, NEW o \in Operators, op[o].pc \in Inside
  PROVE  /\ fstate[o] = "owned" /\ owner = conn[o] /\ conn[o] \in Backends
         /\ shared = {}
         /\ \A b \in Backends : pending[b] = NoCommit
         /\ \A p \in Operators \ {o} : fstate[p] # "owned"
<1>1. fstate[o] = "owned"
  BY DEF IInv, CommandOK, WindowOK
<1>2. owner = conn[o] /\ conn[o] # NoBackend /\ conn[o] \in Somebody
  BY <1>1 DEF IInv, FenceInv, HandlesOK, FenceTypes, Handles
<1>3. shared = {}
  BY <1>2 DEF IInv, FenceInv, ServerOK
<1>4. \A b \in Backends : pending[b] = NoCommit
  BY <1>2 DEF IInv, PendingOK
<1>5. \A p \in Operators \ {o} : fstate[p] # "owned"
  BY <1>2 DEF IInv, FenceInv, HandlesOK
<1> QED  BY <1>1, <1>2, <1>3, <1>4, <1>5 DEF Somebody

\* The three ends of a transaction inside the window.
LEMMA WriteKeeps ==
  ASSUME IInv, NEW o \in Operators, op[o].pc \in Inside,
         NEW d, NEW acked, NEW failed, NEW lost, Write(o, d, acked, failed, lost),
         GoodDB(d), Follows(db, d),
         CommandOK(acked, "owned", d), CommandOK(failed, "owned", db),
         CommandOK(lost, "unknown", db)
  PROVE  IInv' /\ Follows(db, db')
<1>0. /\ fstate[o] = "owned" /\ owner = conn[o] /\ conn[o] \in Backends /\ shared = {}
      /\ \A b \in Backends : pending[b] = NoCommit
      /\ \A p \in Operators \ {o} : fstate[p] # "owned"
  BY OnlyOne
<1>s. Follows(db, db)
  BY FollowsSame DEF IInv, GoodDB
<1>1. CASE /\ db' = d
           /\ op' = [op EXCEPT ![o] = acked]
           /\ UNCHANGED <<fenceVars, pending, mlock, saw, started, faults>>
  <2>1. FenceInv'
    <3>1. \A x : Waiting(x)' <=> Waiting(x)
      BY <1>1 DEF fenceVars, Waiting
    <3> QED  BY <1>1, <3>1 DEF IInv, FenceInv, FenceTypes, ServerOK, HandlesOK, Once, fenceVars
  <2>2. op' \in [Operators -> Reports]
    BY <1>1 DEF IInv, CommandOK
  <2>3. ASSUME NEW p \in Operators PROVE CommandOK(op[p], fstate[p], db)'
    <3>1. CASE p = o
      <4>1. op'[o] = acked /\ fstate'[o] = "owned"
        BY <1>0, <1>1 DEF IInv, fenceVars
      <4> QED  BY <1>1, <3>1, <4>1
    <3>2. CASE p # o
      <4>1. op'[p] = op[p] /\ fstate'[p] = fstate[p]
        BY <1>1, <3>2 DEF IInv, fenceVars
      <4>2. CommandOK(op[p], fstate[p], d)
        BY <1>0, <3>2, OutsideOn DEF IInv
      <4> QED  BY <1>1, <4>1, <4>2
    <3> QED  BY <3>1, <3>2
  <2>4. \A b \in Backends : PendingOK(b)'
    BY <1>0, <1>1 DEF PendingOK
  <2>5. GoodDB(db)' /\ shared' = {}
    BY <1>0, <1>1 DEF fenceVars
  <2> QED  BY <1>1, <2>1, <2>2, <2>3, <2>4, <2>5 DEF IInv
<1>2. CASE /\ op' = [op EXCEPT ![o] = failed]
           /\ UNCHANGED <<fenceVars, db, pending, mlock, saw, started>>
  BY <1>0, <1>2, <1>s, StayKeeps DEF IInv
<1>3. CASE /\ pending' = [pending EXCEPT ![conn[o]] = d]
           /\ conn' = [conn EXCEPT ![o] = NoBackend]
           /\ fstate' = [fstate EXCEPT ![o] = "unknown"]
           /\ op' = [op EXCEPT ![o] = lost]
           /\ UNCHANGED <<queue, shared, owner, alive, pid, db, mlock, saw, started>>
  <2>1. FenceInv'
    BY <1>0, <1>3, DetachFence DEF IInv
  <2>2. op' \in [Operators -> Reports]
    BY <1>3 DEF IInv, CommandOK
  <2>3. ASSUME NEW p \in Operators PROVE CommandOK(op[p], fstate[p], db)'
    <3>1. CASE p = o
      <4>1. op'[o] = lost /\ fstate'[o] = "unknown"
        BY <1>3 DEF IInv, FenceInv, FenceTypes
      <4> QED  BY <1>3, <3>1, <4>1
    <3>2. CASE p # o
      BY <1>3, <3>2 DEF IInv, FenceInv, FenceTypes
    <3> QED  BY <3>1, <3>2
  <2>4. pending' \in [Backends -> DBs \cup {NoCommit}]
    BY <1>0, <1>3 DEF IInv, GoodDB
  <2>5. \A p \in Operators : conn'[p] # conn[o]
    BY <1>0, <1>3, FenceAssumption DEF IInv, FenceInv, FenceTypes, HandlesOK, Handles
  <2>6. ASSUME NEW b \in Backends PROVE PendingOK(b)'
    <3>1. CASE b = conn[o]
      <4>1. pending'[b] = d
        BY <1>0, <1>3, <3>1 DEF IInv
      <4> QED  BY <1>0, <1>3, <2>5, <3>1, <4>1 DEF PendingOK
    <3>2. CASE b # conn[o]
      <4>1. pending'[b] = NoCommit
        BY <1>0, <1>3, <3>2 DEF IInv
      <4> QED  BY <4>1 DEF PendingOK
    <3> QED  BY <3>1, <3>2
  <2> QED  BY <1>0, <1>3, <1>s, <2>1, <2>2, <2>3, <2>4, <2>6 DEF IInv
<1> QED  BY <1>1, <1>2, <1>3 DEF Write

-----------------------------------------------------------------------------
(* Commands: how a step ends *)

\* What every step does: keep the invariant, and move the database only on.
Keeps == IInv' /\ Follows(db, db')

\* Reports that claim nothing about the database.
Modest == {"error", "already", "not_committed", "postfail", "unknown", "unrecovered"}

LEMMA GotoIs ==
  ASSUME IInv, NEW o \in Operators, NEW pc, Goto(o, pc)
  PROVE  op' = [op EXCEPT ![o] = To(op[o], pc)]
BY DEF Goto, To

LEMMA FinishIs ==
  ASSUME IInv, NEW o \in Operators, NEW out, Finish(o, out)
  PROVE  op' = [op EXCEPT ![o] = Ends(op[o], "close", out)]
BY DEF Finish, Ends

\* A command may give up from anywhere, with a report that claims nothing.
LEMMA GivesUp ==
  ASSUME NEW k, NEW s, NEW d, CommandOK(k, s, d),
         NEW out \in Modest \cup {"none"}, out = "none" => k.cmd # "b02"
  PROVE  /\ CommandOK(Ends(k, "close", out), "owned", d)
         /\ CommandOK(Ends(k, "probe", out), "unknown", d)
         /\ CommandOK(Ends(k, "resolve", out), "unknown", d)
         /\ \A t \in {"not_attempted", "released", "unknown"} : CommandOK(Ends(k, "done", out), t, d)
<1> SUFFICES ASSUME NEW pc \in {"close", "probe", "resolve", "done"}, NEW t,
                    pc = "close" => t = "owned",
                    pc \in {"probe", "resolve"} => t = "unknown",
                    pc = "done" => t \in {"not_attempted", "released", "unknown"}
             PROVE  CommandOK(Ends(k, pc, out), t, d)
  OBVIOUS
<1> DEFINE r == Ends(k, pc, out)
<1>1. pc \in Pcs /\ out \in Outcomes /\ k \in Reports /\ out \notin {"verified", "guarded", "serve6", "serve7"}
  BY DEF Pcs, Inside, Outside, Outcomes, Modest, CommandOK
<1>2. /\ r \in Reports /\ r.pc = pc /\ r.out = out
      /\ r.cmd = k.cmd /\ r.v = k.v /\ r.next = k.next
  BY <1>1, EndsFields
<1> HIDE DEF r
<1>3. WindowOK(r, t)
  BY <1>2 DEF WindowOK, Inside, Outside
<1>4. Remembers(r, d)
  BY <1>1, <1>2 DEF Remembers, CommandOK
<1>5. Knows(r, d)
  BY <1>1, <1>2 DEF Knows, Public, Inside
<1> QED  BY <1>2, <1>3, <1>4, <1>5 DEF CommandOK, r

LEMMA StaySafe ==
  ASSUME IInv, NEW o \in Operators, NEW k, op' = [op EXCEPT ![o] = k],
         UNCHANGED <<fenceVars, db, pending, saw>>, mlock' \in Somebody,
         CommandOK(k, fstate[o], db)
  PROVE  Keeps
BY StayKeeps, FollowsSame DEF Keeps, IInv, GoodDB

LEMMA FinishSafe ==
  ASSUME IInv, NEW o \in Operators, op[o].pc \in Inside,
         NEW out \in Modest \cup {"none"}, out = "none" => op[o].cmd # "b02",
         Finish(o, out), UNCHANGED <<fenceVars, db, pending, saw>>, mlock' \in Somebody
  PROVE  Keeps
<1>1. fstate[o] = "owned"
  BY OnlyOne
<1>2. CommandOK(Ends(op[o], "close", out), fstate[o], db)
  BY <1>1, GivesUp DEF IInv
<1> QED  BY <1>2, FinishIs, StaySafe

LEMMA PlainSafe ==
  ASSUME IInv, NEW o \in Operators, op[o].pc \in Inside,
         NEW d, NEW acked, NEW out \in Modest, Plain(o, d, acked, out),
         GoodDB(d), Follows(db, d), CommandOK(acked, "owned", d)
  PROVE  Keeps
<1>1. /\ CommandOK(Ends(op[o], "close", out), "owned", db)
      /\ CommandOK(Ends(op[o], "probe", out), "unknown", db)
  BY GivesUp DEF IInv, Modest
<1>2. Write(o, d, acked, Ends(op[o], "close", out), Ends(op[o], "probe", out))
  BY DEF Plain, Ends
<1> QED  BY <1>1, <1>2, WriteKeeps DEF Keeps

\* The protected runners' transaction: its own report when it fails, UNKNOWN
\* when it is lost.
LEMMA GuardedSafe ==
  ASSUME IInv, NEW o \in Operators, op[o].pc \in Inside,
         NEW d, NEW acked, NEW failed \in Modest,
         Write(o, d, acked, Ends(op[o], "close", failed), Ends(op[o], "resolve", "unknown")),
         GoodDB(d), Follows(db, d), CommandOK(acked, "owned", d)
  PROVE  Keeps
<1>1. /\ CommandOK(Ends(op[o], "close", failed), "owned", db)
      /\ CommandOK(Ends(op[o], "resolve", "unknown"), "unknown", db)
  BY GivesUp DEF IInv, Modest
<1> QED  BY <1>1, WriteKeeps DEF Keeps

LEMMA ProtectedSafe ==
  ASSUME IInv, NEW o \in Operators, op[o].pc \in Inside,
         NEW from, NEW d, NEW acked, NEW failed \in Modest,
         Protected(o, from, d, acked, failed),
         State(db) = from => GoodDB(d) /\ Follows(db, d) /\ CommandOK(acked, "owned", d)
  PROVE  Keeps
<1>1. CASE State(db) = from
  <2>1. Write(o, d, acked, Ends(op[o], "close", failed), Ends(op[o], "resolve", "unknown"))
    BY <1>1 DEF Protected, Ends
  <2> QED  BY <1>1, <2>1, GuardedSafe
<1>2. CASE State(db) # from
  <2>1. Finish(o, failed) /\ UNCHANGED <<fenceVars, db, pending, mlock, saw>>
    BY <1>2 DEF Protected
  <2>2. mlock' \in Somebody
    BY <2>1 DEF IInv
  <2>3. failed # "none"
    BY DEF Modest
  <2> QED  BY <2>1, <2>2, <2>3, FinishSafe
<1> QED  BY <1>1, <1>2

-----------------------------------------------------------------------------
(* The databases a transaction makes *)

AddBody(d, n) == [d EXCEPT !.bodies = @ \cup {n}]
DropBody(d, S) == [d EXCEPT !.bodies = @ \ S]

LEMMA SetMetaDB ==
  ASSUME db \in DBs, NEW v \in -1..7, NEW b \in BOOLEAN
  PROVE  LET e == SetMeta(v, b)
         IN /\ e \in DBs /\ e.bodies = db.bodies /\ e.unresolved = db.unresolved /\ e.found = db.found
            /\ v # -1 \/ b => /\ e.meta = Row(v, b) /\ e.meta.row
                              /\ e.meta.version = v /\ e.meta.dirty = b
            /\ v = -1 /\ ~b => e.meta = NoRow /\ ~e.meta.row
<1>1. SetVersion(v, b) \in MetaRows
  BY RowFields DEF SetVersion, MetaRows
<1>2. v # -1 \/ b => SetVersion(v, b) = Row(v, b)
  BY DEF SetVersion
<1>3. v = -1 /\ ~b => SetVersion(v, b) = NoRow
  BY DEF SetVersion
<1>4. ~NoRow.row
  BY DEF NoRow
<1> DEFINE m == SetVersion(v, b)
<1> HIDE DEF m
<1>5. LET e == [db EXCEPT !.meta = m]
      IN e \in DBs /\ e.meta = m /\ e.bodies = db.bodies /\ e.unresolved = db.unresolved /\ e.found = db.found
  BY <1>1 DEF DBs, m
<1> QED  BY <1>2, <1>3, <1>4, <1>5, RowFields DEF SetMeta, m

LEMMA DirtyDB ==
  ASSUME db \in DBs, NEW v \in -1..7
  PROVE  LET e == SetMeta(v, TRUE)
         IN /\ e \in DBs /\ e.bodies = db.bodies /\ e.unresolved = db.unresolved /\ e.found = db.found
            /\ e.meta = Row(v, TRUE) /\ e.meta.row /\ e.meta.version = v /\ e.meta.dirty = TRUE
BY SetMetaDB

LEMMA CleanDB ==
  ASSUME db \in DBs, NEW v \in 1..7
  PROVE  LET e == SetMeta(v, FALSE)
         IN /\ e \in DBs /\ e.bodies = db.bodies /\ e.unresolved = db.unresolved /\ e.found = db.found
            /\ e.meta = Row(v, FALSE) /\ e.meta.row /\ e.meta.version = v /\ e.meta.dirty = FALSE
<1>1. v \in -1..7 /\ v # -1
  OBVIOUS
<1> QED  BY <1>1, SetMetaDB

LEMMA BodyDB ==
  ASSUME NEW d \in DBs, NEW n \in 1..12, NEW S
  PROVE  /\ LET e == AddBody(d, n)
            IN /\ e \in DBs /\ e.bodies = d.bodies \cup {n}
               /\ e.meta = d.meta /\ e.unresolved = d.unresolved /\ e.found = d.found
         /\ LET e == DropBody(d, S)
            IN /\ e \in DBs /\ e.bodies = d.bodies \ S
               /\ e.meta = d.meta /\ e.unresolved = d.unresolved /\ e.found = d.found
<1>1. LET e == AddBody(d, n)
      IN /\ e \in DBs /\ e.bodies = d.bodies \cup {n}
         /\ e.meta = d.meta /\ e.unresolved = d.unresolved /\ e.found = d.found
  BY DEF AddBody, DBs
<1>2. LET e == DropBody(d, S)
      IN /\ e \in DBs /\ e.bodies = d.bodies \ S
         /\ e.meta = d.meta /\ e.unresolved = d.unresolved /\ e.found = d.found
  BY DEF DropBody, DBs
<1> QED  BY <1>1, <1>2

\* A database of the public runner: marked, or clean at its last body.
LEMMA GoodBelow ==
  ASSUME NEW e \in DBs, NEW d, InOrder(d), e.bodies = d.bodies, FoundOK(e),
         e.meta.row, e.meta.version # 0,
         e.meta.dirty = TRUE \/ (/\ e.meta.version \in 1..5 /\ Has(e, e.meta.version)
                                 /\ e.meta.version >= 4 => Adoptable(e))
  PROVE  GoodDB(e)
<1>1. InOrder(e)
  BY DEF InOrder
<1>2. Complete(e)
  <2> SUFFICES ASSUME ~e.meta.dirty PROVE Complete(e)
    BY DEF Complete
  <2> DEFINE v == e.meta.version
  <2>1. v \in 1..5 /\ 1..v \subseteq e.bodies /\ e.bodies \subseteq (1..v) \cup e.found
    BY DEF Has
  <2>2. v \in 4..5 => e.bodies = 1..v
    <3> SUFFICES ASSUME v \in 4..5 PROVE e.bodies \subseteq 1..v
      BY <2>1
    <3>1. e.found \subseteq 1..3
      BY DEF Adoptable
    <3> QED  BY <2>1, <3>1
  <2> QED  BY <2>1, <2>2 DEF Complete
<1> QED  BY <1>1, <1>2 DEF GoodDB

\* Below V6 the database may change as the public runner likes.
LEMMA FollowsPublic ==
  ASSUME NEW d, NEW e, 6 \notin d.bodies, d.meta.version \in Int,
         d.meta.row => d.meta.version <= 5 \/ d.meta.dirty,
         e.unresolved = d.unresolved, e.found = d.found
  PROVE  Follows(d, e)
<1>1. ~(1..6 \subseteq d.bodies)
  <2>1. 6 \in 1..6
    OBVIOUS
  <2> QED  BY <2>1
<1> QED  BY <1>1 DEF Follows

\* The bodies of the public runner end at V5.
LEMMA HasBelow ==
  ASSUME NEW d, NEW v \in 0..5, Has(d, v)  PROVE 6 \notin d.bodies
BY DEF Has

\* A command other than B-02 goes on in its window.
LEMMA GoesOn ==
  ASSUME NEW k, NEW s, NEW d, NEW e, CommandOK(k, s, d), k.cmd # "b02", Follows(d, e),
         NEW r \in Reports, r.cmd = k.cmd,
         r.out = k.out \/ r.out \notin {"serve6", "serve7"},
         r.pc \in Inside \ {"lock", "inspect"}, Knows(r, e)
  PROVE  CommandOK(r, "owned", e)
<1>1. Remembers(k, e)
  BY RemembersOn DEF CommandOK
<1>2. r.pc \notin {"lock", "inspect", "open", "fence", "version", "probe", "resolve"} /\ r.pc \notin Outside
  BY DEF Inside, Outside
<1>3. Remembers(r, e)
  BY <1>1, <1>2 DEF Remembers
<1>4. WindowOK(r, "owned")
  BY <1>2 DEF WindowOK
<1> QED  BY <1>3, <1>4 DEF CommandOK

-----------------------------------------------------------------------------
(* Up and Down *)

\* A transaction of the generic runner.
LEMMA PublicSafe ==
  ASSUME IInv, NEW o \in Operators, op[o].pc \in Inside, op[o].cmd # "b02",
         NEW j \in 0..5, Has(db, j),
         db.meta.row => db.meta.version <= 5 \/ db.meta.dirty,
         NEW e, GoodDB(e), e.unresolved = db.unresolved, e.found = db.found,
         NEW r \in Reports, r.cmd = op[o].cmd, r.out \in {"none", "guarded"},
         r.pc \in Inside \ {"lock", "inspect"}, Knows(r, e),
         NEW out \in Modest, Plain(o, e, r, out)
  PROVE  Keeps
<1>1. db.meta.version \in Int
  BY MetaFields DEF IInv, GoodDB, DBs
<1>2. Follows(db, e)
  BY <1>1, HasBelow, FollowsPublic
<1>3. CommandOK(r, "owned", e)
  BY <1>2, GoesOn DEF IInv
<1> QED  BY <1>2, <1>3, PlainSafe

\* The marker before version n.
LEMMA PreviousMeta ==
  ASSUME NEW n \in 1..5
  PROVE  LET m == SetVersion(Previous(n), FALSE)
         IN /\ n = 1 => m = NoRow /\ ~m.row
            /\ n # 1 => m = Row(n - 1, FALSE) /\ m.row /\ m.version = n - 1 /\ m.dirty = FALSE
<1>1. CASE n = 1
  BY <1>1 DEF Previous, SetVersion, NoRow
<1>2. CASE n # 1
  <2>1. Previous(n) = n - 1 /\ n - 1 \in -1..7 /\ n - 1 # -1 /\ FALSE \in BOOLEAN
    BY <1>2 DEF Previous
  <2>2. SetVersion(n - 1, FALSE) = Row(n - 1, FALSE)
    BY <2>1 DEF SetVersion
  <2>3. /\ Row(n - 1, FALSE).row
        /\ Row(n - 1, FALSE).version = n - 1
        /\ Row(n - 1, FALSE).dirty = FALSE
    BY DEF Row
  <2>4. SetVersion(Previous(n), FALSE) = Row(n - 1, FALSE)
    BY <2>1, <2>2
  <2> HIDE DEF SetVersion, Row, Previous
  <2> QED  BY <1>2, <2>3, <2>4
<1> QED  BY <1>1, <1>2

\* A catalog that was found with body 4 is still the V4 one.
LEMMA FoundV4 ==
  ASSUME NEW d, GoodDB(d), ~Adoptable(d), d.found \subseteq 1..4
  PROVE  /\ d.bodies = 1..4 /\ d.found = 1..4
         /\ d.meta.row => d.meta.version \in 1..4 /\ (d.meta.version = 4 => d.meta.dirty)
<1>1. 4 \in d.found /\ d.bodies = d.found
  BY DEF GoodDB, FoundOK
<1>2. 4 \in d.bodies /\ 5 \notin d.bodies /\ 6 \notin d.bodies
  BY <1>1
<1>3. 4 \notin 1..3 /\ 5 \in 1..5 /\ 6 \in 1..6
  OBVIOUS
<1>4. d.bodies = 1..4
  BY <1>2, <1>3 DEF GoodDB, InOrder
<1> QED  BY <1>1, <1>4 DEF GoodDB, FoundOK

LEMMA UpMarkSafe ==
  ASSUME IInv, NEW o \in Operators, UpMark(o)  PROVE Keeps
<1> DEFINE k == op[o]
           r == [k EXCEPT !.pc = "upbody"]
           e == SetMeta(k.next, TRUE)
<1>1. /\ k.pc = "upmark" /\ k.pc \in Inside /\ k \in Reports /\ Knows(k, db) /\ db \in DBs
      /\ GoodDB(db)
  BY DEF UpMark, IInv, Inside, CommandOK, GoodDB
<1>2. /\ k.next \in 1..5 /\ Has(db, k.next - 1) /\ k.cmd \in {"up", "down", "admit"}
      /\ db.meta = SetVersion(Previous(k.next), FALSE)
      /\ k.out = "none"
  BY <1>1 DEF Knows, Public
<1>3. Plain(o, e, r, "error")
  BY DEF UpMark
<1>4. "upbody" \in Pcs /\ "upbody" \in Inside \ {"lock", "inspect"} /\ "error" \in Modest
  BY DEF Pcs, Inside, Modest
<1>5. k.next \in -1..7 /\ k.next # 0 /\ k.next - 1 \in 0..5
  BY <1>2
<1>6. /\ e \in DBs /\ e.bodies = db.bodies /\ e.unresolved = db.unresolved /\ e.found = db.found
      /\ e.meta = Row(k.next, TRUE) /\ e.meta.row /\ e.meta.version = k.next /\ e.meta.dirty = TRUE
  BY <1>1, <1>5, DirtyDB
<1> HIDE DEF k, e
<1>m. /\ db.meta.row => db.meta.version <= 5
      /\ k.next = 5 => db.meta.row /\ db.meta.version = 4 /\ ~db.meta.dirty
  <2> DEFINE m == SetVersion(Previous(k.next), FALSE)
  <2>1. /\ k.next = 1 => m = NoRow /\ ~m.row
        /\ k.next # 1 => m = Row(k.next - 1, FALSE) /\ m.row /\ m.version = k.next - 1 /\ m.dirty = FALSE
    BY <1>2, PreviousMeta
  <2> HIDE DEF m
  <2>2. db.meta = m
    BY <1>2 DEF m
  <2>3. k.next - 1 <= 5 /\ (k.next = 5 => k.next - 1 = 4 /\ k.next # 1)
    BY <1>2
  <2> QED  BY <2>1, <2>2, <2>3
<1>7. /\ r \in Reports /\ r.pc = "upbody"
      /\ r.cmd = k.cmd /\ r.v = k.v /\ r.next = k.next /\ r.out = k.out
  BY <1>1, <1>4 DEF Reports
<1> HIDE DEF r
<1>f. FoundOK(e)
  <2>1. CASE Adoptable(db)
    BY <1>6, <2>1 DEF FoundOK, Adoptable
  <2>2. CASE ~Adoptable(db)
    <3>1. db.bodies = 1..4 /\ db.found = 1..4 /\ k.next # 5
      BY <1>1, <1>2, <1>m, <2>2, FoundV4 DEF Has
    <3>2. k.next \in 1..4 /\ 4 \in 1..4
      BY <1>2, <3>1
    <3> QED  BY <1>6, <3>1, <3>2 DEF FoundOK
  <2> QED  BY <2>1, <2>2
<1>8. GoodDB(e)
  <2>2. e.meta.version # 0
    BY <1>5, <1>6
  <2> QED  BY <1>1, <1>6, <1>f, <2>2, GoodBelow DEF GoodDB
<1>9. Knows(r, e)
  BY <1>2, <1>6, <1>7 DEF Knows, Has, Public
<1> QED  BY <1>1, <1>2, <1>3, <1>4, <1>5, <1>6, <1>7, <1>8, <1>9, <1>m, PublicSafe DEF k

\* The body a catalog found without metadata gets again changes nothing.
LEMMA NextBody ==
  ASSUME NEW d, GoodDB(d), NEW n \in 1..5, Has(d, n - 1), d.meta = Row(n, TRUE),
         n \notin d.bodies \ Repeatable,
         NEW e \in DBs, e.bodies = d.bodies \cup {n}, e.meta = d.meta, e.found = d.found
  PROVE  /\ GoodDB(e) /\ Has(e, n)
         /\ n >= 4 => Adoptable(e)
<1>1. d.meta.row /\ d.meta.version = n /\ d.meta.dirty
  <2>1. n \in -1..7 /\ TRUE \in BOOLEAN
    OBVIOUS
  <2> QED  BY <2>1, RowFields
<1>2. Has(e, n)
  <2>1. \A j \in 1..n : j \in 1..(n - 1) \/ j = n
    OBVIOUS
  <2>2. 1..(n - 1) \subseteq 1..n /\ n \in 1..n
    OBVIOUS
  <2> QED  BY <2>1, <2>2 DEF Has
<1>3. ASSUME ~Adoptable(d) PROVE e.bodies = d.bodies /\ n \in 1..3
  <2>1. d.bodies = 1..4 /\ d.found = 1..4 /\ n \in 1..4
    BY <1>1, <1>3, FoundV4 DEF Has
  <2>2. n \in 1..3
    BY <2>1 DEF Repeatable
  <2> QED  BY <2>1, <2>2
<1>4. n >= 4 => Adoptable(e)
  BY <1>3 DEF Adoptable
<1>5. FoundOK(e)
  <2>1. CASE Adoptable(d)
    BY <1>1, <2>1 DEF FoundOK, Adoptable
  <2>2. CASE ~Adoptable(d)
    BY <1>3, <2>2 DEF FoundOK, GoodDB, Adoptable
  <2> QED  BY <2>1, <2>2
<1>6. InOrder(e)
  <2>1. e.meta.row => e.meta.version # 0
    <3>1. n # 0
      OBVIOUS
    <3> QED  BY <1>1, <3>1
  <2>2. CASE ~Adoptable(d)
    BY <1>3, <2>1, <2>2 DEF InOrder, GoodDB
  <2>3. CASE Adoptable(d) /\ n \in 1..3
    <3>1. 1 \in e.bodies /\ e.bodies \subseteq 1..3
      BY <1>2, <2>3 DEF Has, Adoptable
    <3> QED  BY <2>1, <3>1 DEF InOrder
  <2>4. CASE Adoptable(d) /\ n \in 4..5
    <3>1. e.bodies = 1..n
      BY <1>2, <2>4 DEF Has, Adoptable
    <3>2. n = 4 \/ n = 5
      BY <2>4
    <3> QED  BY <2>1, <3>1, <3>2 DEF InOrder
  <2> QED  BY <2>2, <2>3, <2>4
<1>7. Complete(e)
  BY <1>1 DEF Complete
<1> QED  BY <1>2, <1>4, <1>5, <1>6, <1>7 DEF GoodDB

LEMMA UpBodySafe ==
  ASSUME IInv, NEW o \in Operators, UpBody(o)  PROVE Keeps
<1> DEFINE k == op[o]
           r == [k EXCEPT !.pc = "upclean"]
           e == AddBody(db, k.next)
<1>1. /\ k.pc = "upbody" /\ k.pc \in Inside /\ k \in Reports /\ Knows(k, db) /\ db \in DBs
      /\ GoodDB(db) /\ mlock \in Somebody
  BY DEF UpBody, IInv, Inside, CommandOK, GoodDB
<1>2. /\ k.next \in 1..5 /\ Has(db, k.next - 1) /\ k.cmd \in {"up", "down", "admit"}
      /\ db.meta = Row(k.next, TRUE) /\ k.out = "none"
  BY <1>1 DEF Knows, Public
<1>c. CASE k.next \in db.bodies \ Repeatable
  <2>1. Finish(o, "error") /\ UNCHANGED <<fenceVars, db, pending, mlock, saw>>
    BY <1>c DEF UpBody
  <2> QED  BY <1>1, <2>1, FinishSafe DEF Modest
<1>n. CASE k.next \notin db.bodies \ Repeatable
  <2>3. Plain(o, e, r, "error")
    BY <1>n DEF UpBody, AddBody
  <2>4. "upclean" \in Pcs /\ "upclean" \in Inside \ {"lock", "inspect"} /\ "error" \in Modest
    BY DEF Pcs, Inside, Modest
  <2>5. k.next \in -1..7 /\ k.next # 0 /\ k.next - 1 \in 0..5 /\ k.next \in 0..5 /\ k.next \in 1..12
    BY <1>2
  <2>6. /\ e \in DBs /\ e.bodies = db.bodies \cup {k.next} /\ e.unresolved = db.unresolved
        /\ e.meta = db.meta /\ e.found = db.found
    BY <1>1, <2>5, BodyDB
  <2>7. db.meta.row /\ db.meta.version = k.next /\ db.meta.dirty = TRUE
    BY <1>2, <2>5, RowFields
  <2> HIDE DEF k, e
  <2>8. /\ r \in Reports /\ r.pc = "upclean"
        /\ r.cmd = k.cmd /\ r.v = k.v /\ r.next = k.next /\ r.out = k.out
    BY <1>1, <2>4 DEF Reports
  <2> HIDE DEF r
  <2>9. GoodDB(e) /\ Has(e, k.next) /\ (k.next >= 4 => Adoptable(e))
    BY <1>1, <1>2, <1>n, <2>6, NextBody
  <2>11. Knows(r, e)
    BY <1>2, <2>6, <2>8, <2>9 DEF Knows, Public
  <2> QED  BY <1>1, <1>2, <2>3, <2>4, <2>5, <2>6, <2>7, <2>8, <2>9, <2>11, PublicSafe DEF k
<1> QED  BY <1>c, <1>n

LEMMA UpCleanSafe ==
  ASSUME IInv, NEW o \in Operators, UpClean(o)  PROVE Keeps
<1> DEFINE k == op[o]
           r == [k EXCEPT !.pc = "up", !.v = k.next]
           e == SetMeta(k.next, FALSE)
<1>1. /\ k.pc = "upclean" /\ k.pc \in Inside /\ k \in Reports /\ Knows(k, db) /\ db \in DBs
      /\ GoodDB(db)
  BY DEF UpClean, IInv, Inside, CommandOK, GoodDB
<1>2. /\ k.next \in 1..5 /\ Has(db, k.next) /\ k.cmd \in {"up", "down", "admit"}
      /\ db.meta = Row(k.next, TRUE) /\ k.out = "none"
      /\ k.next >= 4 => Adoptable(db)
  BY <1>1 DEF Knows, Public
<1>3. Plain(o, e, r, "error")
  BY DEF UpClean
<1>4. "up" \in Pcs /\ "up" \in Inside \ {"lock", "inspect"} /\ "error" \in Modest
  BY DEF Pcs, Inside, Modest
<1>5. k.next \in -1..7 /\ k.next # 0 /\ k.next \in 0..5 /\ k.next \in 1..7
  BY <1>2
<1>6. /\ e \in DBs /\ e.bodies = db.bodies /\ e.unresolved = db.unresolved /\ e.found = db.found
      /\ e.meta = Row(k.next, FALSE) /\ e.meta.row /\ e.meta.version = k.next
      /\ e.meta.dirty = FALSE
  BY <1>1, <1>5, CleanDB
<1>7. db.meta.row /\ db.meta.version = k.next /\ db.meta.dirty = TRUE
  BY <1>2, <1>5, RowFields
<1> HIDE DEF k, e
<1>8. /\ r \in Reports /\ r.pc = "up"
      /\ r.cmd = k.cmd /\ r.v = k.next /\ r.out = k.out
  BY <1>1, <1>4, <1>5 DEF Reports
<1> HIDE DEF r
<1>9. Has(e, k.next) /\ (k.next >= 4 => Adoptable(e))
  BY <1>2, <1>6 DEF Has, Adoptable
<1>f. FoundOK(e)
  <2>1. CASE Adoptable(db)
    BY <1>6, <2>1 DEF FoundOK, Adoptable
  <2>2. CASE ~Adoptable(db)
    <3>1. db.bodies = 1..4 /\ db.found = 1..4 /\ k.next \in 1..4 /\ k.next # 4
      BY <1>1, <1>2, <1>7, <2>2, FoundV4 DEF Has
    <3>2. 4 \in 1..4
      OBVIOUS
    <3> QED  BY <1>6, <3>1, <3>2 DEF FoundOK
  <2> QED  BY <2>1, <2>2
<1>10. GoodDB(e)
  BY <1>1, <1>2, <1>5, <1>6, <1>9, <1>f, GoodBelow DEF GoodDB
<1>11. Knows(r, e)
  <2>1. k.next # -1 /\ ~(k.next < 1) /\ k.next \in -1..5
    BY <1>2
  <2>2. SetVersion(k.next, FALSE) = Row(k.next, FALSE)
    BY <2>1 DEF SetVersion
  <2> QED  BY <1>2, <1>5, <1>6, <1>8, <1>9, <2>1, <2>2 DEF Knows, Public
<1> QED  BY <1>1, <1>2, <1>3, <1>4, <1>5, <1>6, <1>7, <1>8, <1>10, <1>11, PublicSafe DEF k

LEMMA PreviousIs ==
  ASSUME NEW v \in 1..5
  PROVE  /\ Previous(v) \in -1..7 /\ Previous(v) # 0
         /\ v = 1 => Previous(v) = -1
         /\ v # 1 => Previous(v) = v - 1 /\ Previous(v) \in 1..7
BY DEF Previous

LEMMA DownMarkSafe ==
  ASSUME IInv, NEW o \in Operators, DownMark(o)  PROVE Keeps
<1> DEFINE k == op[o]
           r == [k EXCEPT !.pc = "downbody"]
           e == SetMeta(Previous(k.v), TRUE)
<1>1. /\ k.pc = "downmark" /\ k.pc \in Inside /\ k \in Reports /\ Knows(k, db) /\ db \in DBs
      /\ GoodDB(db)
  BY DEF DownMark, IInv, Inside, CommandOK, GoodDB
<1>2. /\ k.v \in 1..5 /\ Has(db, k.v) /\ Adoptable(db) /\ k.cmd \in {"up", "down", "admit"}
      /\ db.meta = Row(k.v, FALSE) /\ k.out = "none"
  BY <1>1 DEF Knows, Public
<1>3. Plain(o, e, r, "error")
  BY DEF DownMark
<1>4. "downbody" \in Pcs /\ "downbody" \in Inside \ {"lock", "inspect"} /\ "error" \in Modest
  BY DEF Pcs, Inside, Modest
<1>5. k.v \in 0..5 /\ Previous(k.v) \in -1..7 /\ Previous(k.v) # 0
  BY <1>2, PreviousIs
<1>6. /\ e \in DBs /\ e.bodies = db.bodies /\ e.unresolved = db.unresolved /\ e.found = db.found
      /\ e.meta = Row(Previous(k.v), TRUE) /\ e.meta.row /\ e.meta.version = Previous(k.v)
      /\ e.meta.dirty = TRUE
  BY <1>1, <1>5, DirtyDB
<1>m. db.meta.version <= 5
  <2>1. k.v \in -1..7 /\ FALSE \in BOOLEAN
    BY <1>2
  <2>2. db.meta.version = k.v
    BY <1>2, <2>1, RowFields
  <2>3. k.v <= 5
    BY <1>2
  <2> QED  BY <2>2, <2>3
<1> HIDE DEF k, e
<1>7. /\ r \in Reports /\ r.pc = "downbody"
      /\ r.cmd = k.cmd /\ r.v = k.v /\ r.out = k.out
  BY <1>1, <1>4 DEF Reports
<1> HIDE DEF r
<1>8. Has(e, k.v) /\ Adoptable(e)
  BY <1>2, <1>6 DEF Has, Adoptable
<1>9. GoodDB(e)
  <2>1. e.meta.version # 0 /\ FoundOK(e)
    BY <1>5, <1>6, <1>8 DEF FoundOK
  <2> QED  BY <1>1, <1>6, <2>1, GoodBelow DEF GoodDB
<1>10. Knows(r, e)
  BY <1>2, <1>6, <1>7, <1>8 DEF Knows, Public
<1> QED  BY <1>1, <1>2, <1>3, <1>4, <1>5, <1>6, <1>7, <1>9, <1>10, <1>m, PublicSafe DEF k

\* What the down body of version v leaves.
LEMMA LessBody ==
  ASSUME NEW d, GoodDB(d), NEW v \in 1..5, Has(d, v), Adoptable(d),
         d.meta.row, d.meta.dirty = TRUE,
         NEW e \in DBs, e.bodies = d.bodies \ Dropped(v), e.meta = d.meta, e.found = d.found
  PROVE  GoodDB(e) /\ Has(e, v - 1) /\ Adoptable(e)
<1>1. /\ 1..v \subseteq d.bodies /\ d.bodies \subseteq (1..v) \cup (1..3)
      /\ d.bodies \subseteq (1..v) \cup d.found /\ d.found \subseteq 1..3 /\ d.found \subseteq 1..4
  BY DEF Has, Adoptable
<1>2. CASE v = 1
  <2>1. e.bodies = {}
    BY <1>1, <1>2 DEF Dropped
  <2>2. 1..(v - 1) = {}
    BY <1>2
  <2>3. InOrder(e) /\ Has(e, v - 1)
    BY <1>1, <2>1, <2>2 DEF InOrder, Has, GoodDB
  <2> QED  BY <1>1, <2>3 DEF GoodDB, Complete, FoundOK, Adoptable
<1>3. CASE v # 1
  <2>1. e.bodies = d.bodies \ {v}
    BY <1>3 DEF Dropped
  <2>2. Has(e, v - 1)
    <3>1. 1..(v - 1) \subseteq (1..v) \ {v} /\ (1..v) \ {v} \subseteq 1..(v - 1)
      OBVIOUS
    <3> QED  BY <1>1, <2>1, <3>1 DEF Has
  <2>3. InOrder(e)
    <3>1. CASE v \in 2..4
      <4>1. 1 \in e.bodies /\ e.bodies \subseteq 1..3
        BY <1>1, <2>1, <3>1
      <4> QED  BY <4>1 DEF InOrder, GoodDB
    <3>2. CASE v = 5
      <4>1. e.bodies = 1..4
        BY <1>1, <2>1, <3>2
      <4> QED  BY <4>1 DEF InOrder, GoodDB
    <3> QED  BY <1>3, <3>1, <3>2
  <2> QED  BY <1>1, <2>2, <2>3 DEF GoodDB, Complete, FoundOK, Adoptable
<1> QED  BY <1>2, <1>3

LEMMA DownBodySafe ==
  ASSUME IInv, NEW o \in Operators, DownBody(o)  PROVE Keeps
<1> DEFINE k == op[o]
           r == [k EXCEPT !.pc = "downclean"]
           e == DropBody(db, Dropped(k.v))
<1>1. /\ k.pc = "downbody" /\ k.pc \in Inside /\ k \in Reports /\ Knows(k, db) /\ db \in DBs
      /\ GoodDB(db)
  BY DEF DownBody, IInv, Inside, CommandOK, GoodDB
<1>2. /\ k.v \in 1..5 /\ Has(db, k.v) /\ Adoptable(db) /\ k.cmd \in {"up", "down", "admit"}
      /\ db.meta = Row(Previous(k.v), TRUE) /\ k.out = "none"
  BY <1>1 DEF Knows, Public
<1>3. Plain(o, e, r, "error")
  BY DEF DownBody, DropBody
<1>4. "downclean" \in Pcs /\ "downclean" \in Inside \ {"lock", "inspect"} /\ "error" \in Modest
  BY DEF Pcs, Inside, Modest
<1>5. /\ k.v \in 0..5 /\ k.v - 1 \in 0..5 /\ k.v \in 1..12
      /\ Previous(k.v) \in -1..7 /\ Previous(k.v) # 0
  BY <1>2, PreviousIs
<1>6. /\ e \in DBs /\ e.bodies = db.bodies \ Dropped(k.v) /\ e.unresolved = db.unresolved
      /\ e.meta = db.meta /\ e.found = db.found
  BY <1>1, <1>5, BodyDB
<1>7. db.meta.row /\ db.meta.version = Previous(k.v) /\ db.meta.dirty = TRUE
  BY <1>2, <1>5, RowFields
<1> HIDE DEF k, e
<1>8. /\ r \in Reports /\ r.pc = "downclean"
      /\ r.cmd = k.cmd /\ r.v = k.v /\ r.out = k.out
  BY <1>1, <1>4 DEF Reports
<1> HIDE DEF r
<1>9. GoodDB(e) /\ Has(e, k.v - 1) /\ Adoptable(e)
  BY <1>1, <1>2, <1>6, <1>7, LessBody
<1>11. Knows(r, e)
  BY <1>2, <1>6, <1>8, <1>9 DEF Knows, Public
<1> QED  BY <1>1, <1>2, <1>3, <1>4, <1>5, <1>6, <1>7, <1>8, <1>9, <1>11, PublicSafe DEF k

LEMMA DownCleanSafe ==
  ASSUME IInv, NEW o \in Operators, DownClean(o)  PROVE Keeps
<1> DEFINE k == op[o]
           r == [k EXCEPT !.pc = "close"]
           e == SetMeta(Previous(k.v), FALSE)
<1>1. /\ k.pc = "downclean" /\ k.pc \in Inside /\ k \in Reports /\ Knows(k, db) /\ db \in DBs
      /\ GoodDB(db)
  BY DEF DownClean, IInv, Inside, CommandOK, GoodDB
<1>2. /\ k.v \in 1..5 /\ Has(db, k.v - 1) /\ Adoptable(db) /\ k.cmd \in {"up", "down", "admit"}
      /\ db.meta = Row(Previous(k.v), TRUE) /\ k.out = "none"
  BY <1>1 DEF Knows, Public
<1>3. Plain(o, e, r, "error")
  BY DEF DownClean
<1>4. "close" \in Pcs /\ "close" \in Inside \ {"lock", "inspect"} /\ "error" \in Modest
  BY DEF Pcs, Inside, Modest
<1>5. /\ k.v - 1 \in 0..5 /\ Previous(k.v) \in -1..7 /\ Previous(k.v) # 0
      /\ k.v = 1 => Previous(k.v) = -1
      /\ k.v # 1 => Previous(k.v) = k.v - 1 /\ Previous(k.v) \in 1..7
  BY <1>2, PreviousIs
<1>6. /\ e \in DBs /\ e.bodies = db.bodies /\ e.unresolved = db.unresolved /\ e.found = db.found
      /\ k.v = 1 => ~e.meta.row
      /\ k.v # 1 => e.meta.row /\ e.meta.version = k.v - 1
  <2>1. CASE k.v = 1
    BY <1>1, <1>5, <2>1, SetMetaDB
  <2>2. CASE k.v # 1
    BY <1>1, <1>5, <2>2, CleanDB
  <2> QED  BY <2>1, <2>2
<1>7. db.meta.row /\ db.meta.version = Previous(k.v) /\ db.meta.dirty = TRUE
  BY <1>2, <1>5, RowFields
<1> HIDE DEF k, e
<1>8. /\ r \in Reports /\ r.pc = "close"
      /\ r.cmd = k.cmd /\ r.v = k.v /\ r.out = k.out
  BY <1>1, <1>4 DEF Reports
<1> HIDE DEF r
<1>9. Has(e, k.v - 1) /\ Adoptable(e)
  BY <1>2, <1>6 DEF Has, Adoptable
<1>10. GoodDB(e)
  <2>1. CASE k.v = 1
    <3>1. e.bodies \subseteq e.found
      BY <1>9, <2>1 DEF Has
    <3>2. InOrder(e) /\ Complete(e) /\ FoundOK(e)
      BY <1>1, <1>6, <1>9, <2>1, <3>1 DEF InOrder, Complete, FoundOK, GoodDB
    <3> QED  BY <1>6, <3>2 DEF GoodDB
  <2>2. CASE k.v # 1
    <3>1. e.meta.version # 0 /\ e.meta.version \in 1..5 /\ Has(e, e.meta.version)
      BY <1>2, <1>6, <1>9, <2>2
    <3>2. FoundOK(e)
      BY <1>6, <1>9, <2>2 DEF FoundOK
    <3> QED  BY <1>1, <1>6, <1>9, <2>2, <3>1, <3>2, GoodBelow DEF GoodDB
  <2> QED  BY <2>1, <2>2
<1>11. Knows(r, e)
  BY <1>2, <1>8 DEF Knows, Public
<1> QED  BY <1>1, <1>2, <1>3, <1>4, <1>5, <1>6, <1>7, <1>8, <1>10, <1>11, PublicSafe DEF k

LEMMA RestoreSafe ==
  ASSUME IInv, NEW o \in Operators, Restore(o)  PROVE Keeps
<1> DEFINE k == op[o]
           r == [k EXCEPT !.pc = "close", !.out = "guarded"]
           e == SetMeta(k.v, FALSE)
<1>1. /\ k.pc = "restore" /\ k.pc \in Inside /\ k \in Reports /\ Knows(k, db) /\ db \in DBs
      /\ GoodDB(db)
  BY DEF Restore, IInv, Inside, CommandOK, GoodDB
<1>2. /\ k.v \in 1..5 /\ Has(db, k.v) /\ Adoptable(db) /\ k.cmd \in {"up", "down", "admit"}
      /\ db.meta = Row(Previous(k.v), TRUE)
  BY <1>1 DEF Knows, Public
<1>3. Plain(o, e, r, "unrecovered")
  BY <1>2 DEF Restore
<1>4. /\ "close" \in Pcs /\ "close" \in Inside \ {"lock", "inspect"} /\ "unrecovered" \in Modest
      /\ "guarded" \in Outcomes
  BY DEF Pcs, Inside, Modest, Outcomes
<1>5. /\ k.v \in 0..5 /\ k.v \in 1..7 /\ k.v # 0 /\ Previous(k.v) \in -1..7 /\ k.v \in 1..k.v
  BY <1>2, PreviousIs
<1>6. /\ e \in DBs /\ e.bodies = db.bodies /\ e.unresolved = db.unresolved /\ e.found = db.found
      /\ e.meta = Row(k.v, FALSE) /\ e.meta.row /\ e.meta.version = k.v
  BY <1>1, <1>5, CleanDB
<1>7. db.meta.row /\ db.meta.version = Previous(k.v) /\ db.meta.dirty = TRUE
  BY <1>2, <1>5, RowFields
<1> HIDE DEF k, e
<1>8. /\ r \in Reports /\ r.pc = "close"
      /\ r.cmd = k.cmd /\ r.v = k.v /\ r.out = "guarded"
  BY <1>1, <1>4 DEF Reports
<1> HIDE DEF r
<1>9. Has(e, k.v) /\ Adoptable(e)
  BY <1>2, <1>6 DEF Has, Adoptable
<1>10. GoodDB(e)
  <2>1. FoundOK(e)
    BY <1>6, <1>9 DEF FoundOK
  <2> QED  BY <1>1, <1>2, <1>5, <1>6, <1>9, <2>1, GoodBelow DEF GoodDB
<1>11. Knows(r, e)
  <2>1. k.v \in e.bodies
    BY <1>5, <1>9 DEF Has
  <2> QED  BY <1>6, <1>8, <2>1 DEF Knows, Public, Inside
<1> QED  BY <1>1, <1>2, <1>3, <1>4, <1>5, <1>6, <1>7, <1>8, <1>10, <1>11, PublicSafe DEF k

LEMMA DownGuardedSafe ==
  ASSUME IInv, NEW o \in Operators, DownGuarded(o)  PROVE Keeps
<1> DEFINE k == op[o]
           r == To(k, "restore")
<1>1. /\ k.pc = "downbody" /\ k.pc \in Inside /\ k \in Reports /\ db \in DBs
      /\ CommandOK(k, fstate[o], db) /\ mlock \in Somebody
  BY DEF DownGuarded, IInv, Inside, CommandOK, GoodDB
<1>2. op' = [op EXCEPT ![o] = r] /\ UNCHANGED <<fenceVars, db, pending, mlock, saw>>
  BY GotoIs DEF DownGuarded
<1>3. "restore" \in Pcs /\ "restore" \in Inside \ {"lock", "inspect"}
  BY DEF Pcs, Inside
<1>4. fstate[o] = "owned" /\ Follows(db, db)
  BY <1>1, OnlyOne, FollowsSame
<1>5. /\ r \in Reports /\ r.pc = "restore"
      /\ r.cmd = k.cmd /\ r.v = k.v /\ r.next = k.next /\ r.out = k.out
  BY <1>1, <1>3, ToFields
<1> HIDE DEF k, r
<1>6. Knows(r, db) /\ k.cmd # "b02"
  BY <1>1, <1>5 DEF Knows, CommandOK, Public, Inside
<1>7. CommandOK(r, "owned", db)
  BY <1>1, <1>3, <1>4, <1>5, <1>6, GoesOn
<1> QED  BY <1>1, <1>2, <1>4, <1>7, StaySafe

LEMMA UpNextSafe ==
  ASSUME IInv, NEW o \in Operators, UpNext(o)  PROVE Keeps
<1> DEFINE k == op[o]
           n == IF k.v < 1 THEN 1 ELSE k.v + 1
           r == [k EXCEPT !.pc = "upmark", !.next = n]
<1>1. /\ k.pc = "up" /\ k.pc \in Inside /\ k \in Reports /\ db \in DBs
      /\ CommandOK(k, fstate[o], db) /\ mlock \in Somebody
  BY DEF UpNext, IInv, Inside, CommandOK, GoodDB
<1>2. UNCHANGED <<fenceVars, db, pending, mlock, saw>>
  BY DEF UpNext
<1>3. /\ k.v \in -1..5 /\ k.v # 0 /\ Has(db, IF k.v < 1 THEN 0 ELSE k.v)
      /\ db.meta = SetVersion(k.v, FALSE)
      /\ k.cmd \in {"up", "down", "admit"} /\ k.out = "none"
  BY <1>1 DEF CommandOK, Knows, Public, Inside
<1>4. CASE k.v = 5
  <2>1. Finish(o, "none") /\ mlock' \in Somebody
    BY <1>1, <1>2, <1>4 DEF UpNext
  <2> QED  BY <1>1, <1>2, <1>3, <2>1, FinishSafe
<1>5. CASE k.v # 5
  <2>1. op' = [op EXCEPT ![o] = r]
    BY <1>5 DEF UpNext
  <2>2. "upmark" \in Pcs /\ "upmark" \in Inside \ {"lock", "inspect"}
    BY DEF Pcs, Inside
  <2>3. fstate[o] = "owned" /\ Follows(db, db)
    BY <1>1, OnlyOne, FollowsSame
  <2>4. /\ n \in 0..13 /\ n \in 1..5 /\ n - 1 = IF k.v < 1 THEN 0 ELSE k.v
        /\ Previous(n) = k.v
    BY <1>3, <1>5 DEF Previous
  <2> HIDE DEF k, n
  <2>5. r \in Reports /\ r.pc = "upmark" /\ r.cmd = k.cmd /\ r.next = n /\ r.out = k.out
    BY <1>1, <2>2, <2>4 DEF Reports
  <2> HIDE DEF r
  <2>6. Has(db, n - 1) /\ db.meta = SetVersion(Previous(n), FALSE)
    BY <1>3, <2>4
  <2>7. Knows(r, db)
    BY <1>3, <2>4, <2>5, <2>6 DEF Knows, Public
  <2>8. CommandOK(r, "owned", db)
    BY <1>1, <1>3, <2>2, <2>3, <2>5, <2>7, GoesOn
  <2> QED  BY <1>1, <1>2, <2>1, <2>3, <2>8, StaySafe
<1> QED  BY <1>4, <1>5

LEMMA Cardinality1 ==
  ASSUME NEW n \in Nat  PROVE Cardinality(1..n) = n
<1>1. Cardinality(1..n) = IF 1 > n THEN 0 ELSE n - 1 + 1
  BY FS_Interval
<1> QED  BY <1>1

\* What classifyMigrationAdmission lets through.
LEMMA GatePasses ==
  ASSUME NEW d, GoodDB(d), NEW a, Gate(a, d.meta, CatalogVersion(d.bodies))
  PROVE  /\ d.meta.row => /\ d.meta.version \in 1..5 /\ ~d.meta.dirty
                          /\ Has(d, d.meta.version) /\ Adoptable(d)
         /\ ~d.meta.row => a = "up" /\ Has(d, 0)
<1> DEFINE c == CatalogVersion(d.bodies)
           v == d.meta.version
<1>0. /\ c \in 1..3 => d.bodies \subseteq 1..3
      /\ c \in 0..4 => 5 \notin d.bodies /\ 6 \notin d.bodies
  <2>1. CASE d.bodies = {}
    BY <2>1 DEF CatalogVersion
  <2>2. CASE 1 \in d.bodies /\ d.bodies \subseteq 1..3
    BY <2>2
  <2>3. CASE d.bodies = 1..4
    <3>1. c = 4
      <4>1. Cardinality(1..4) = 4
        BY Cardinality1, 4 \in Nat
      <4>2. 1..4 # {} /\ ~(1..4 \subseteq 1..3)
        OBVIOUS
      <4> QED  BY <2>3, <4>1, <4>2 DEF CatalogVersion
    <3> QED  BY <2>3, <3>1
  <2>4. CASE d.bodies = 1..5
    <3>1. c = 5
      <4>1. Cardinality(1..5) = 5
        BY Cardinality1, 5 \in Nat
      <4>2. 1..5 # {} /\ ~(1..5 \subseteq 1..3)
        OBVIOUS
      <4> QED  BY <2>4, <4>1, <4>2 DEF CatalogVersion
    <3> QED  BY <3>1
  <2>5. CASE 1..6 \subseteq d.bodies
    <3>1. c = -1
      <4>1. 6 \in d.bodies /\ 6 \notin 1..3 /\ 6 \notin 1..4 /\ 6 \notin 1..5
        BY <2>5
      <4>2. d.bodies # {} /\ ~(d.bodies \subseteq 1..3) /\ d.bodies # 1..4 /\ d.bodies # 1..5
        BY <4>1
      <4> QED  BY <4>2 DEF CatalogVersion
    <3> QED  BY <3>1
  <2> QED  BY <2>1, <2>2, <2>3, <2>4, <2>5 DEF GoodDB, InOrder
<1> HIDE DEF c
<1>1. CASE d.meta.row
  <2>1. /\ ~d.meta.dirty /\ v \in 1..5
        /\ v \in {1, 2, 3} => c = 1
    <3>1. v \in 0..5 /\ v # 0 /\ ~d.meta.dirty
      BY <1>1 DEF Gate, GoodDB, InOrder
    <3> QED  BY <1>1, <3>1 DEF Gate, c
  <2>2. Adoptable(d)
    <3>1. ASSUME ~Adoptable(d) PROVE FALSE
      <4>1. d.found = 1..4 /\ d.bodies = d.found /\ v \in 1..4 /\ v # 4
        BY <1>1, <2>1, <3>1 DEF GoodDB, FoundOK
      <4>2. d.bodies \subseteq 1..3
        <5>1. v \in {1, 2, 3}
          BY <4>1
        <5> QED  BY <1>0, <2>1, <5>1
      <4> QED  BY <4>1, <4>2
    <3> QED  BY <3>1
  <2>3. 1..v \subseteq d.bodies /\ d.bodies \subseteq (1..v) \cup d.found
    <3>1. v <= 3 \/ v \in 4..5
      BY <2>1
    <3> QED  BY <1>1, <2>1, <3>1 DEF GoodDB, Complete
  <2>4. d.found \subseteq 1..4
    BY <2>2 DEF Adoptable
  <2> QED  BY <1>1, <2>1, <2>2, <2>3, <2>4 DEF Has
<1>2. CASE ~d.meta.row
  <2>1. a = "up" /\ c \in 0..4 /\ d.bodies \subseteq d.found
    BY <1>2 DEF Gate, GoodDB, FoundOK, c
  <2>2. 5 \notin d.bodies /\ 6 \notin d.bodies
    BY <1>0, <2>1
  <2>3. d.found \subseteq 1..4
    <3>1. CASE Adoptable(d)
      BY <3>1 DEF Adoptable
    <3>2. CASE ~Adoptable(d)
      <4>1. d.bodies = d.found
        BY <3>2 DEF GoodDB, FoundOK
      <4>2. d.bodies \subseteq 1..4
        <5>1. 5 \in 1..5 /\ 6 \in 1..6
          OBVIOUS
        <5> QED  BY <2>2, <5>1 DEF GoodDB, InOrder
      <4> QED  BY <4>1, <4>2
    <3> QED  BY <3>1, <3>2
  <2>4. 1..0 = {}
    OBVIOUS
  <2> QED  BY <1>2, <2>1, <2>3, <2>4 DEF Has
<1> QED  BY <1>1, <1>2

LEMMA PublicGateSafe ==
  ASSUME IInv, NEW o \in Operators, PublicGate(o)  PROVE Keeps
<1> DEFINE k == op[o]
           action == IF k.cmd = "down" THEN "down" ELSE "up"
           passes == Gate(action, db.meta, CatalogVersion(db.bodies))
           v == IF db.meta.row THEN db.meta.version ELSE -1
           pc == IF action = "down" THEN IF db.meta.row THEN "downmark" ELSE "close" ELSE "up"
           r == [k EXCEPT !.v = v, !.pc = pc]
<1>1. /\ k.pc = "gate" /\ k.pc \in Inside /\ k \in Reports /\ db \in DBs /\ GoodDB(db)
      /\ CommandOK(k, fstate[o], db) /\ mlock \in Somebody
      /\ UNCHANGED <<fenceVars, db, pending, saw>>
  BY DEF PublicGate, IInv, Inside, CommandOK, GoodDB
<1>2. k.cmd \in {"up", "down", "admit"} /\ k.out = "none"
  BY <1>1 DEF CommandOK, Knows, Public, Inside
<1>3. fstate[o] = "owned" /\ conn[o] \in Somebody /\ Follows(db, db)
  BY <1>1, OnlyOne, FollowsSame DEF Somebody
<1>4. CASE Finish(o, "error") /\ mlock' = mlock
  BY <1>1, <1>4, FinishSafe DEF Modest
<1>5. CASE passes /\ mlock' = conn[o] /\ op' = [op EXCEPT ![o].v = v, ![o].pc = pc]
  <2>1. op' = [op EXCEPT ![o] = r]
    BY <1>5
  <2>2. /\ db.meta.row => /\ db.meta.version \in 1..5 /\ ~db.meta.dirty
                           /\ Has(db, db.meta.version) /\ Adoptable(db)
        /\ ~db.meta.row => action = "up" /\ Has(db, 0)
    BY <1>1, <1>5, GatePasses
  <2>3. v \in -1..7 /\ v \in -1..5 /\ v # 0 /\ (db.meta.row => v \in 1..5)
    BY <2>2
  <2>m. db.meta \in MetaRows
    BY <1>1 DEF DBs
  <2>4. Has(db, IF v < 1 THEN 0 ELSE v) /\ db.meta = SetVersion(v, FALSE)
    <3>1. CASE db.meta.row
      <4>1. v = db.meta.version /\ v # -1 /\ ~(v < 1)
        BY <2>2, <3>1
      <4>2. db.meta.dirty = FALSE /\ db.meta = Row(db.meta.version, db.meta.dirty)
        BY <2>2, <2>m, <3>1, MetaFields
      <4> QED  BY <2>2, <3>1, <4>1, <4>2 DEF SetVersion
    <3>2. CASE ~db.meta.row
      <4>1. v = -1 /\ v < 1 /\ db.meta = NoRow
        BY <2>m, <3>2, MetaFields
      <4> QED  BY <2>2, <3>2, <4>1 DEF SetVersion
    <3> QED  BY <3>1, <3>2
  <2>5. (pc = "downmark" /\ db.meta.row) \/ pc = "up"
    BY <2>2
  <2>6. pc \in Pcs /\ pc \in Inside \ {"lock", "inspect"}
    BY <2>5 DEF Pcs, Inside
  <2>7. db.meta.row => Has(db, v) /\ Adoptable(db) /\ db.meta = Row(v, FALSE)
    <3> SUFFICES ASSUME db.meta.row PROVE Has(db, v) /\ Adoptable(db) /\ db.meta = Row(v, FALSE)
      OBVIOUS
    <3>1. v # -1 /\ ~(v < 1)
      BY <2>3
    <3> QED  BY <2>2, <2>4, <3>1 DEF SetVersion
  <2> HIDE DEF k, v, pc
  <2>8. r \in Reports /\ r.pc = pc /\ r.cmd = k.cmd /\ r.v = v /\ r.out = k.out
    BY <1>1, <2>3, <2>6 DEF Reports
  <2> HIDE DEF r
  <2>9. Knows(r, db)
    BY <1>2, <2>3, <2>4, <2>5, <2>7, <2>8 DEF Knows, Public
  <2>10. CommandOK(r, "owned", db)
    BY <1>1, <1>2, <1>3, <2>6, <2>8, <2>9, GoesOn
  <2> QED  BY <1>1, <1>3, <1>5, <2>1, <2>10, StaySafe
<1> QED  BY <1>4, <1>5 DEF PublicGate

-----------------------------------------------------------------------------
(* The protected runner *)

\* What the catalog's proofs establish.
LEMMA CatalogFacts ==
  ASSUME NEW d, GoodDB(d)
  PROVE  /\ Catalog(d) = "EXACT_V5" => d.bodies = 1..5 /\ ~d.unresolved
         /\ Catalog(d) = "EXACT_V6" => 1..6 \subseteq d.bodies /\ ~d.unresolved
<1>1. /\ Catalog(d) = "EXACT_V5" => 5 \in d.bodies /\ 6 \notin d.bodies /\ ~d.unresolved
      /\ Catalog(d) = "EXACT_V6" => 6 \in d.bodies /\ ~d.unresolved
  BY DEF Catalog, ContainExpected, SecurityCatalog, D5Catalog, Semantics
<1>2. CASE 1..6 \subseteq d.bodies
  BY <1>1, <1>2
<1>3. CASE ~(1..6 \subseteq d.bodies)
  <2>1. d.bodies \in {{}, 1..4, 1..5} \/ d.bodies \subseteq 1..3
    BY <1>3 DEF GoodDB, InOrder
  <2>2. 6 \notin d.bodies
    BY <2>1
  <2>3. 5 \in d.bodies => d.bodies = 1..5
    BY <2>1
  <2> QED  BY <1>1, <2>2, <2>3
<1> QED  BY <1>2, <1>3

\* What classifyProtectedState establishes.
LEMMA StateFacts ==
  ASSUME NEW d, GoodDB(d)
  PROVE  /\ State(d) = "CLEAN_V5" =>
               d.meta.row /\ d.meta.version = 5 /\ ~d.meta.dirty /\ d.bodies = 1..5
         /\ State(d) = "DIRTY_V5" => d.meta.row /\ d.meta.version = 5 /\ d.meta.dirty
         /\ State(d) = "TRANSITION_V6" => d.meta.row /\ d.meta.version = 6 /\ d.meta.dirty
         /\ State(d) = "CLEAN_V6" => 1..6 \subseteq d.bodies /\ ~d.unresolved
         /\ State(d) \in {"CLEAN_B02", "IDENTITY_REQUIRED"} => 1..6 \subseteq d.bodies
         /\ State(d) \in {"CLEAN_V5", "DIRTY_V5", "TRANSITION_V6", "CLEAN_B02", "IDENTITY_REQUIRED"} =>
               Adoptable(d)
<1> DEFINE m == d.meta
           c == Catalog(d)
<1>1. /\ c = "EXACT_V5" => d.bodies = 1..5
      /\ c = "EXACT_V6" => 1..6 \subseteq d.bodies /\ ~d.unresolved
  BY CatalogFacts
<1>2. State(d) = CASE ~m.row -> IF c = "EMPTY" THEN "BOOTSTRAP" ELSE "AMBIGUOUS"
      [] m.row /\ m.version = 5 /\ m.dirty -> "DIRTY_V5"
      [] m.row /\ m.version = 5 /\ ~m.dirty /\ c = "EXACT_V5" -> "CLEAN_V5"
      [] m.row /\ m.version = 6 /\ m.dirty -> "TRANSITION_V6"
      [] m.row /\ m.version = 6 /\ ~m.dirty /\ c = "EXACT_V6" -> "CLEAN_V6"
      [] m.row /\ m.version = 7 /\ m.dirty -> "TRANSITION_B02"
      [] m.row /\ m.version = 7 /\ ~m.dirty /\ c = "EXACT_V6" -> "CLEAN_B02"
      [] m.row /\ m.version = 7 /\ ~m.dirty /\ c = "IDENTITY_REQUIRED" -> "IDENTITY_REQUIRED"
      [] OTHER -> "AMBIGUOUS"
  BY DEF State
<1>3. m.row /\ m.version = 7 /\ ~m.dirty => 1..6 \subseteq d.bodies
  <2>1. 1..6 \subseteq 1..7
    OBVIOUS
  <2> QED  BY <2>1 DEF GoodDB, Complete
<1>a. m.row /\ m.version \in {5, 6, 7} => Adoptable(d)
  <2>1. m.version \in {5, 6, 7} => m.version \notin 1..4
    OBVIOUS
  <2> QED  BY <2>1 DEF GoodDB, FoundOK
<1> HIDE DEF m, c
<1>4. /\ State(d) = "CLEAN_V5" => m.row /\ m.version = 5 /\ ~m.dirty /\ c = "EXACT_V5"
      /\ State(d) = "DIRTY_V5" => m.row /\ m.version = 5 /\ m.dirty
      /\ State(d) = "TRANSITION_V6" => m.row /\ m.version = 6 /\ m.dirty
      /\ State(d) = "CLEAN_V6" => c = "EXACT_V6"
      /\ State(d) \in {"CLEAN_B02", "IDENTITY_REQUIRED"} => m.row /\ m.version = 7 /\ ~m.dirty
  BY <1>2
<1> QED  BY <1>1, <1>3, <1>4, <1>a DEF m

\* A database of the protected runners: V6's bodies, and metadata that is
\* marked or names bodies that are there.
LEMMA GoodAbove ==
  ASSUME NEW e \in DBs, 1..6 \subseteq e.bodies, Adoptable(e), e.meta.row, e.meta.version # 0,
         e.meta.dirty = TRUE \/ (e.meta.version \in 6..7 /\ 1..e.meta.version \subseteq e.bodies)
  PROVE  GoodDB(e)
<1>1. InOrder(e)
  BY DEF InOrder
<1>2. Complete(e)
  BY DEF Complete
<1> QED  BY <1>1, <1>2 DEF GoodDB, FoundOK

\* A database at V5: marked, or clean.
LEMMA GoodAtV5 ==
  ASSUME NEW e \in DBs, e.bodies = 1..5, Adoptable(e), e.meta.row, e.meta.version # 0,
         e.meta.dirty = TRUE \/ e.meta.version = 5
  PROVE  GoodDB(e)
<1>1. InOrder(e)
  BY DEF InOrder
<1>2. Complete(e)
  BY DEF Complete
<1> QED  BY <1>1, <1>2 DEF GoodDB, FoundOK

\* No body is lost, and metadata that was clean stays where it was.
LEMMA FollowsMore ==
  ASSUME NEW d, NEW e, d.bodies \subseteq e.bodies, e.unresolved = d.unresolved,
         e.found = d.found, d.meta.version \in Int, d.meta.dirty \/ e.meta.version = d.meta.version
  PROVE  Follows(d, e)
BY DEF Follows

LEMMA MarkerSafe ==
  ASSUME IInv, NEW o \in Operators, Marker(o)  PROVE Keeps
<1> DEFINE k == op[o]
           r == [k EXCEPT !.pc = "body"]
           e == SetMeta(6, TRUE)
<1>1. /\ k.pc = "marker" /\ k.cmd = "d5" /\ k.pc \in Inside /\ k \in Reports
      /\ CommandOK(k, fstate[o], db) /\ GoodDB(db) /\ db \in DBs
  BY DEF Marker, At, IInv, Inside, CommandOK, GoodDB
<1>2. k.out = "none"
  BY <1>1 DEF CommandOK, Knows
<1>3. Protected(o, "CLEAN_V5", e, r, "not_committed")
  BY DEF Marker
<1>4. "body" \in Pcs /\ "body" \in Inside \ {"lock", "inspect"} /\ "not_committed" \in Modest
  BY DEF Pcs, Inside, Modest
<1>5. 6 \in -1..7 /\ 6 # 0 /\ 5 \in 0..5
  OBVIOUS
<1>6. /\ e \in DBs /\ e.bodies = db.bodies /\ e.unresolved = db.unresolved /\ e.found = db.found
      /\ e.meta.row /\ e.meta.version = 6 /\ e.meta.dirty = TRUE
  BY <1>1, <1>5, DirtyDB
<1> HIDE DEF k, e
<1>7. /\ r \in Reports /\ r.pc = "body"
      /\ r.cmd = k.cmd /\ r.v = k.v /\ r.next = k.next /\ r.out = k.out
  BY <1>1, <1>4 DEF Reports
<1> HIDE DEF r
<1>8. ASSUME State(db) = "CLEAN_V5"
      PROVE  GoodDB(e) /\ Follows(db, e) /\ CommandOK(r, "owned", e)
  <2>1. db.meta.version = 5 /\ db.bodies = 1..5 /\ Adoptable(db)
    BY <1>1, <1>8, StateFacts
  <2>2. db.meta.version \in Int /\ db.meta.version <= 5 /\ 6 \notin db.bodies /\ Adoptable(e)
    BY <1>6, <2>1 DEF Adoptable
  <2>3. e.bodies = 1..5
    BY <1>6, <2>1
  <2>4. GoodDB(e)
    BY <1>5, <1>6, <2>2, <2>3, GoodAtV5
  <2>5. Follows(db, e)
    BY <1>5, <1>6, <2>1, <2>2, FollowsPublic
  <2>6. Knows(r, e)
    BY <1>1, <1>2, <1>7, <2>3 DEF Knows, Public
  <2>7. CommandOK(r, "owned", e)
    BY <1>1, <1>4, <1>7, <2>5, <2>6, GoesOn
  <2> QED  BY <2>4, <2>5, <2>7
<1> QED  BY <1>1, <1>3, <1>4, <1>8, ProtectedSafe DEF k

LEMMA BodySafe ==
  ASSUME IInv, NEW o \in Operators, Body(o)  PROVE Keeps
<1> DEFINE k == op[o]
           r == [k EXCEPT !.pc = "final"]
           e == AddBody(db, 6)
<1>1. /\ k.pc = "body" /\ k.cmd = "d5" /\ k.pc \in Inside /\ k \in Reports
      /\ CommandOK(k, fstate[o], db) /\ GoodDB(db) /\ db \in DBs
  BY DEF Body, At, IInv, Inside, CommandOK, GoodDB
<1>2. k.out = "none" /\ db.bodies = 1..5
  BY <1>1 DEF CommandOK, Knows
<1>3. Protected(o, "TRANSITION_V6", e, r, "not_committed")
  BY DEF Body, AddBody
<1>4. "final" \in Pcs /\ "final" \in Inside \ {"lock", "inspect"} /\ "not_committed" \in Modest
  BY DEF Pcs, Inside, Modest
<1>5. 6 \in 1..12 /\ 6 # 0 /\ 5 \in 0..5
  OBVIOUS
<1>6. /\ e \in DBs /\ e.bodies = db.bodies \cup {6} /\ e.unresolved = db.unresolved /\ e.found = db.found
      /\ e.meta = db.meta
  BY <1>1, <1>5, BodyDB
<1> HIDE DEF k, e
<1>7. /\ r \in Reports /\ r.pc = "final"
      /\ r.cmd = k.cmd /\ r.v = k.v /\ r.next = k.next /\ r.out = k.out
  BY <1>1, <1>4 DEF Reports
<1> HIDE DEF r
<1>8. ASSUME State(db) = "TRANSITION_V6"
      PROVE  GoodDB(e) /\ Follows(db, e) /\ CommandOK(r, "owned", e)
  <2>1. db.meta.row /\ db.meta.version = 6 /\ db.meta.dirty /\ Adoptable(e)
    BY <1>1, <1>6, <1>8, StateFacts DEF Adoptable
  <2>2. db.meta.dirty = TRUE /\ db.meta.version \in Int /\ db.meta.version # 0
    BY <1>1, <2>1, MetaFields DEF DBs
  <2>3. 1..6 \subseteq e.bodies
    BY <1>2, <1>6
  <2>4. GoodDB(e)
    BY <1>6, <2>1, <2>2, <2>3, GoodAbove
  <2>5. Follows(db, e)
    BY <1>6, <2>1, <2>2, FollowsMore
  <2>6. Knows(r, e)
    BY <1>1, <1>2, <1>7 DEF Knows, Public
  <2>7. CommandOK(r, "owned", e)
    BY <1>1, <1>4, <1>7, <2>5, <2>6, GoesOn
  <2> QED  BY <2>4, <2>5, <2>7
<1> QED  BY <1>1, <1>3, <1>4, <1>8, ProtectedSafe DEF k

LEMMA BodyFailsSafe ==
  ASSUME IInv, NEW o \in Operators, BodyFails(o)  PROVE Keeps
<1> DEFINE k == op[o]
           r == Ends(k, "close", "postfail")
           e == SetMeta(5, FALSE)
<1>1. /\ k.pc = "body" /\ k.cmd = "d5" /\ k.pc \in Inside /\ k \in Reports
      /\ CommandOK(k, fstate[o], db) /\ GoodDB(db) /\ db \in DBs /\ mlock \in Somebody
  BY DEF BodyFails, At, IInv, Inside, CommandOK, GoodDB
<1>2. db.bodies = 1..5
  BY <1>1 DEF CommandOK, Knows
<1>3. /\ "close" \in Pcs /\ "close" \in Inside \ {"lock", "inspect"}
      /\ "postfail" \in Modest /\ "postfail" \in Outcomes
  BY DEF Pcs, Inside, Modest, Outcomes
<1>4. CASE State(db) = "TRANSITION_V6" /\ Catalog(db) = "EXACT_V5"
  <2>1. Write(o, e, r, Ends(k, "close", "postfail"), Ends(k, "resolve", "unknown"))
    BY <1>4 DEF BodyFails, Ends
  <2>2. 5 \in 1..7 /\ 5 # 0 /\ 5 \in 0..5
    OBVIOUS
  <2>3. /\ e \in DBs /\ e.bodies = db.bodies /\ e.unresolved = db.unresolved /\ e.found = db.found
        /\ e.meta.row /\ e.meta.version = 5
    BY <1>1, <2>2, CleanDB
  <2>4. db.meta.version = 6 /\ db.meta.dirty /\ Adoptable(e)
    BY <1>1, <1>4, <2>3, StateFacts DEF Adoptable
  <2>5. /\ r \in Reports /\ r.pc = "close" /\ r.cmd = k.cmd /\ r.out = "postfail"
    BY <1>1, <1>3, EndsFields
  <2> HIDE DEF k, r, e
  <2>6. db.meta.version \in Int /\ e.meta.version # 0 /\ e.bodies = 1..5 /\ 6 \notin db.bodies
    BY <1>2, <2>3, <2>4
  <2>7. GoodDB(e)
    BY <2>2, <2>3, <2>4, <2>6, GoodAtV5
  <2>8. Follows(db, e)
    BY <1>2, <2>2, <2>3, <2>4, <2>6, FollowsPublic
  <2>9. Knows(r, e)
    BY <2>5 DEF Knows, Public
  <2>10. CommandOK(r, "owned", e)
    BY <1>1, <1>3, <2>5, <2>8, <2>9, GoesOn
  <2> QED  BY <1>1, <1>3, <2>1, <2>7, <2>8, <2>10, GuardedSafe DEF k
<1>5. CASE ~(State(db) = "TRANSITION_V6" /\ Catalog(db) = "EXACT_V5")
  <2>1. Finish(o, "postfail") /\ UNCHANGED <<fenceVars, db, pending, mlock, saw>>
    BY <1>5 DEF BodyFails
  <2> QED  BY <1>1, <1>3, <2>1, FinishSafe
<1> QED  BY <1>4, <1>5

LEMMA FinalSafe ==
  ASSUME IInv, NEW o \in Operators, Final(o)  PROVE Keeps
<1> DEFINE k == op[o]
           r == [k EXCEPT !.pc = "proof"]
           e == SetMeta(6, FALSE)
<1>1. /\ k.pc = "final" /\ k.cmd = "d5" /\ k.pc \in Inside /\ k \in Reports
      /\ CommandOK(k, fstate[o], db) /\ GoodDB(db) /\ db \in DBs /\ mlock \in Somebody
  BY DEF Final, At, IInv, Inside, CommandOK, GoodDB
<1>2. k.out = "none"
  BY <1>1 DEF CommandOK, Knows
<1>3. /\ "proof" \in Pcs /\ "proof" \in Inside \ {"lock", "inspect"} /\ "postfail" \in Modest
  BY DEF Pcs, Inside, Modest
<1>4. CASE Catalog(db) = "EXACT_V6"
  <2>1. Protected(o, "TRANSITION_V6", e, r, "postfail")
    BY <1>4 DEF Final
  <2>2. 6 \in 1..7 /\ 6 # 0 /\ 6 \in 6..7
    OBVIOUS
  <2>3. /\ e \in DBs /\ e.bodies = db.bodies /\ e.unresolved = db.unresolved /\ e.found = db.found
        /\ e.meta.row /\ e.meta.version = 6
    BY <1>1, <2>2, CleanDB
  <2>4. 1..6 \subseteq db.bodies
    BY <1>1, <1>4, CatalogFacts
  <2> HIDE DEF k, e
  <2>5. /\ r \in Reports /\ r.pc = "proof" /\ r.cmd = k.cmd /\ r.out = k.out
    BY <1>1, <1>3 DEF Reports
  <2> HIDE DEF r
  <2>6. ASSUME State(db) = "TRANSITION_V6"
        PROVE  GoodDB(e) /\ Follows(db, e) /\ CommandOK(r, "owned", e)
    <3>1. db.meta.version = 6 /\ db.meta.dirty /\ Adoptable(e)
      BY <1>1, <2>3, <2>6, StateFacts DEF Adoptable
    <3>2. db.meta.version \in Int
      BY <3>1
    <3>3. GoodDB(e)
      BY <2>2, <2>3, <2>4, <3>1, GoodAbove
    <3>4. Follows(db, e)
      BY <2>3, <3>1, <3>2, FollowsMore
    <3>5. Knows(r, e)
      BY <1>1, <1>2, <2>5 DEF Knows, Public
    <3>6. CommandOK(r, "owned", e)
      BY <1>1, <1>3, <2>5, <3>4, <3>5, GoesOn
    <3> QED  BY <3>3, <3>4, <3>6
  <2> QED  BY <1>1, <1>3, <2>1, <2>6, ProtectedSafe DEF k
<1>5. CASE Catalog(db) # "EXACT_V6"
  <2>1. Finish(o, "postfail") /\ UNCHANGED <<fenceVars, db, pending, mlock, saw>>
    BY <1>5 DEF Final
  <2> QED  BY <1>1, <1>3, <2>1, FinishSafe DEF Modest
<1> QED  BY <1>4, <1>5

LEMMA RecoverSafe ==
  ASSUME IInv, NEW o \in Operators, Recover(o)  PROVE Keeps
<1> DEFINE k == op[o]
           r == [k EXCEPT !.pc = "proof"]
           v == IF k.cmd = "restore5" THEN 5 ELSE 6
           e == SetMeta(v, FALSE)
<1>1. /\ k.pc = "recover" /\ k.pc \in Inside /\ k \in Reports
      /\ CommandOK(k, fstate[o], db) /\ GoodDB(db) /\ db \in DBs
  BY DEF Recover, IInv, Inside, CommandOK, GoodDB
<1>2. /\ k.out = "none" /\ k.cmd \in {"restore5", "complete6"} /\ db.meta.dirty /\ Adoptable(db)
      /\ k.cmd = "restore5" => db.bodies = 1..5
      /\ k.cmd # "restore5" => 1..6 \subseteq db.bodies
  BY <1>1 DEF CommandOK, Knows
<1>3. Write(o, e, r, Ends(k, "close", "not_committed"), Ends(k, "resolve", "unknown"))
  BY DEF Recover, Ends
<1>4. "proof" \in Pcs /\ "proof" \in Inside \ {"lock", "inspect"} /\ "not_committed" \in Modest
  BY DEF Pcs, Inside, Modest
<1>5. v \in 1..7 /\ v # 0 /\ (k.cmd = "restore5" => v = 5) /\ (k.cmd # "restore5" => v = 6)
  OBVIOUS
<1>6. /\ e \in DBs /\ e.bodies = db.bodies /\ e.unresolved = db.unresolved /\ e.found = db.found
      /\ e.meta.row /\ e.meta.version = v
  BY <1>1, <1>5, CleanDB
<1> HIDE DEF k, e, v
<1>7. /\ r \in Reports /\ r.pc = "proof" /\ r.cmd = k.cmd /\ r.out = k.out
  BY <1>1, <1>4 DEF Reports
<1> HIDE DEF r
<1>8. db.meta.version \in Int /\ e.meta.version # 0 /\ Adoptable(e)
  BY <1>1, <1>2, <1>5, <1>6, MetaFields DEF DBs, Adoptable
<1>9. GoodDB(e)
  <2>1. CASE k.cmd = "restore5"
    <3>1. 5 \in 0..5 /\ e.bodies = 1..5 /\ e.meta.version = 5
      BY <1>2, <1>5, <1>6, <2>1
    <3> QED  BY <1>6, <1>8, <3>1, GoodAtV5
  <2>2. CASE k.cmd # "restore5"
    <3>1. 6 \in 6..7 /\ 1..6 \subseteq e.bodies /\ e.meta.version = 6
      BY <1>2, <1>5, <1>6, <2>2
    <3> QED  BY <1>6, <1>8, <3>1, GoodAbove
  <2> QED  BY <2>1, <2>2
<1>10. Follows(db, e)
  BY <1>2, <1>6, <1>8, FollowsMore
<1>11. Knows(r, e)
  BY <1>2, <1>7 DEF Knows, Public
<1>12. CommandOK(r, "owned", e)
  BY <1>1, <1>2, <1>4, <1>7, <1>10, <1>11, GoesOn
<1> QED  BY <1>1, <1>3, <1>4, <1>9, <1>10, <1>12, GuardedSafe DEF k

LEMMA ProofSafe ==
  ASSUME IInv, NEW o \in Operators, Proof(o)  PROVE Keeps
<1> DEFINE k == op[o]
           want == IF k.cmd = "restore5" THEN "CLEAN_V5" ELSE "CLEAN_V6"
           r == Ends(k, "close", "verified")
<1>1. /\ k.pc = "proof" /\ k.pc \in Inside /\ k \in Reports /\ CommandOK(k, fstate[o], db)
      /\ db \in DBs /\ mlock \in Somebody /\ UNCHANGED <<fenceVars, db, pending, mlock, saw>>
  BY DEF Proof, IInv, Inside, CommandOK, GoodDB
<1>2. k.cmd \in {"d5", "restore5", "complete6"}
  BY <1>1 DEF CommandOK, Knows
<1>3. fstate[o] = "owned" /\ Follows(db, db)
  BY <1>1, OnlyOne, FollowsSame
<1>4. CASE Finish(o, "postfail")
  BY <1>1, <1>4, FinishSafe DEF Modest
<1>5. CASE Finish(o, "verified") /\ State(db) = want
  <2>1. op' = [op EXCEPT ![o] = r]
    BY <1>5, FinishIs
  <2>2. "close" \in Pcs /\ "close" \in Inside \ {"lock", "inspect"} /\ "verified" \in Outcomes
    BY DEF Pcs, Inside, Outcomes
  <2>3. /\ r \in Reports /\ r.pc = "close" /\ r.cmd = k.cmd /\ r.out = "verified"
    BY <1>1, <2>2, EndsFields
  <2>4. State(db) = CASE r.cmd = "restore5" -> "CLEAN_V5"
                      [] r.cmd = "b02" -> "CLEAN_B02"
                      [] OTHER -> "CLEAN_V6"
    BY <1>2, <1>5, <2>3
  <2> HIDE DEF k, r
  <2>5. Knows(r, db)
    BY <2>3, <2>4 DEF Knows, Public
  <2>6. CommandOK(r, "owned", db)
    BY <1>1, <1>2, <1>3, <2>2, <2>3, <2>5, GoesOn
  <2> QED  BY <1>1, <1>3, <2>1, <2>6, StaySafe
<1> QED  BY <1>4, <1>5 DEF Proof

-----------------------------------------------------------------------------
(* B-02 and its follow-ups *)

LEMMA B02GoesOn ==
  ASSUME NEW r \in Reports, NEW e, r.cmd = "b02",
         r.pc \in Inside \ {"lock", "inspect"}, r.out \notin {"serve6", "serve7"},
         r.v \in {0, 6, 7},
         r.v = 0 => r.next \in 0..6 /\ (r.out = "none" => r.next \in 0..5),
         r.v = 6 => ~e.unresolved /\ (r.out = "none" /\ r.pc \in {"close", "mark"} => r.next = 7),
         r.v = 7 => r.next \in 1..5 /\ 1..6 \subseteq e.bodies /\ Adoptable(e),
         Knows(r, e)
  PROVE  CommandOK(r, "owned", e)
<1>1. r.pc \notin {"lock", "inspect", "open", "fence", "version", "probe", "resolve"} /\ r.pc \notin Outside
  BY DEF Inside, Outside
<1>2. Remembers(r, e)
  BY <1>1 DEF Remembers
<1>3. WindowOK(r, "owned")
  BY <1>1 DEF WindowOK
<1> QED  BY <1>2, <1>3 DEF CommandOK

LEMMA B02MarkSafe ==
  ASSUME IInv, NEW o \in Operators, B02Mark(o)  PROVE Keeps
<1> DEFINE k == op[o]
           r == [k EXCEPT !.pc = "bodies"]
           e == SetMeta(6, TRUE)
<1>1. /\ k.pc = "mark" /\ k.pc \in Inside /\ k \in Reports
      /\ CommandOK(k, fstate[o], db) /\ GoodDB(db) /\ db \in DBs /\ mlock \in Somebody
  BY DEF B02Mark, IInv, Inside, CommandOK, GoodDB
<1>2. /\ k.out = "none" /\ k.cmd = "b02" /\ k.v = 6 /\ k.next = 7 /\ ~db.unresolved
  BY <1>1 DEF CommandOK, Knows, Remembers
<1>3. "bodies" \in Pcs /\ "bodies" \in Inside \ {"lock", "inspect"} /\ "error" \in Modest
  BY DEF Pcs, Inside, Modest
<1>4. CASE db.meta = Row(6, FALSE)
  <2>1. Plain(o, e, r, "error")
    BY <1>4 DEF B02Mark
  <2>2. 6 \in -1..7 /\ 6 # 0 /\ 6 \in Int
    OBVIOUS
  <2>3. /\ e \in DBs /\ e.bodies = db.bodies /\ e.unresolved = db.unresolved /\ e.found = db.found
        /\ e.meta = Row(6, TRUE) /\ e.meta.row /\ e.meta.version = 6 /\ e.meta.dirty = TRUE
    BY <1>1, <2>2, DirtyDB
  <2>4. db.meta.row /\ db.meta.version = 6 /\ db.meta.dirty = FALSE
    BY <1>4, <2>2, RowFields
  <2>5. 1..6 \subseteq db.bodies /\ Adoptable(e)
    <3>1. 6 \notin 1..4
      OBVIOUS
    <3> QED  BY <1>1, <2>3, <2>4, <3>1 DEF GoodDB, Complete, FoundOK, Adoptable
  <2> HIDE DEF k, e
  <2>6. /\ r \in Reports /\ r.pc = "bodies" /\ r.cmd = k.cmd /\ r.v = k.v
        /\ r.next = k.next /\ r.out = k.out
    BY <1>1, <1>3 DEF Reports
  <2> HIDE DEF r
  <2>7. GoodDB(e)
    BY <2>2, <2>3, <2>5, GoodAbove
  <2>8. Follows(db, e)
    BY <2>2, <2>3, <2>4, FollowsMore
  <2>9. r.next \in 7..13 /\ r.next <= 12 /\ 1..(r.next - 1) \subseteq e.bodies
    BY <1>2, <2>3, <2>5, <2>6
  <2>10. Knows(r, e)
    BY <1>2, <2>3, <2>6, <2>9 DEF Knows, Public
  <2>11. CommandOK(r, "owned", e)
    BY <1>2, <1>3, <2>3, <2>6, <2>10, B02GoesOn
  <2> QED  BY <1>1, <1>3, <2>1, <2>7, <2>8, <2>11, PlainSafe DEF k
<1>5. CASE db.meta # Row(6, FALSE)
  <2>1. Finish(o, "error") /\ UNCHANGED <<fenceVars, db, pending, mlock, saw>>
    BY <1>5 DEF B02Mark
  <2> QED  BY <1>1, <1>3, <2>1, FinishSafe DEF Modest
<1> QED  BY <1>4, <1>5

LEMMA B02BodySafe ==
  ASSUME IInv, NEW o \in Operators, B02Body(o)  PROVE Keeps
<1> DEFINE k == op[o]
           pc == IF k.next = 12 THEN "b02final" ELSE "bodies"
           n == k.next + 1
           r == [k EXCEPT !.next = n, !.pc = pc]
           e == AddBody(db, k.next)
<1>1. /\ k.pc = "bodies" /\ k.pc \in Inside /\ k \in Reports
      /\ CommandOK(k, fstate[o], db) /\ GoodDB(db) /\ db \in DBs
  BY DEF B02Body, IInv, Inside, CommandOK, GoodDB
<1>2. /\ k.out = "none" /\ k.cmd = "b02" /\ k.v = 6 /\ k.next \in 7..13 /\ k.next <= 12
      /\ ~db.unresolved /\ db.meta = Row(6, TRUE) /\ 1..(k.next - 1) \subseteq db.bodies
  BY <1>1 DEF CommandOK, Knows, Remembers
<1>3. Plain(o, e, r, "error")
  BY DEF B02Body, AddBody
<1>4. pc \in Pcs /\ pc \in Inside \ {"lock", "inspect"} /\ "error" \in Modest
  BY DEF Pcs, Inside, Modest
<1>5. k.next \in 1..12 /\ n \in 0..13 /\ 6 \in -1..7 /\ 6 # 0 /\ 6 \in Int
  BY <1>2
<1>6. /\ e \in DBs /\ e.bodies = db.bodies \cup {k.next} /\ e.unresolved = db.unresolved /\ e.found = db.found
      /\ e.meta = db.meta
  BY <1>1, <1>5, BodyDB
<1>7. db.meta.row /\ db.meta.version = 6 /\ db.meta.dirty = TRUE
  BY <1>2, <1>5, RowFields
<1>a. Adoptable(e)
  <2>1. 6 \notin 1..4
    OBVIOUS
  <2> QED  BY <1>1, <1>6, <1>7, <2>1 DEF GoodDB, FoundOK, Adoptable
<1>8. n \in 7..13 /\ (pc = "bodies" => n <= 12) /\ (pc = "b02final" => n = 13)
  BY <1>2
<1>9. 1..(n - 1) \subseteq e.bodies /\ 1..6 \subseteq e.bodies
  BY <1>2, <1>6
<1>10. pc \in {"bodies", "b02final"}
  OBVIOUS
<1> HIDE DEF k, e, pc, n
<1>11. /\ r \in Reports /\ r.pc = pc /\ r.cmd = k.cmd /\ r.v = k.v
       /\ r.next = n /\ r.out = k.out
  BY <1>1, <1>4, <1>5 DEF Reports
<1> HIDE DEF r
<1>12. GoodDB(e)
  BY <1>5, <1>6, <1>7, <1>9, <1>a, GoodAbove
<1>13. Follows(db, e)
  BY <1>5, <1>6, <1>7, FollowsMore
<1>14. Knows(r, e)
  BY <1>2, <1>6, <1>8, <1>9, <1>10, <1>11 DEF Knows, Public
<1>15. CommandOK(r, "owned", e)
  BY <1>2, <1>4, <1>6, <1>10, <1>11, <1>14, B02GoesOn
<1> QED  BY <1>1, <1>3, <1>4, <1>12, <1>13, <1>15, PlainSafe DEF k

\* The final row of B-02 makes the database a clean B-02 one.
LEMMA CleanB02 ==
  ASSUME NEW d, d.meta.row, d.meta.version = 7, d.meta.dirty = FALSE,
         1..12 \subseteq d.bodies, ~d.unresolved
  PROVE  State(d) = "CLEAN_B02"
<1>1. 6 \in d.bodies /\ 7 \in d.bodies /\ 10 \in d.bodies /\ d.bodies # {}
  BY DEF State
<1>2. Catalog(d) = "EXACT_V6"
  BY <1>1 DEF Catalog, ContainExpected, SecurityCatalog, D5Catalog, Semantics, B02Catalog,
              IdentityCatalog
<1> QED  BY <1>2 DEF State

LEMMA B02FinalSafe ==
  ASSUME IInv, NEW o \in Operators, B02Final(o)  PROVE Keeps
<1> DEFINE k == op[o]
           r == Ends(k, "close", "verified")
           e == SetMeta(7, FALSE)
<1>1. /\ k.pc = "b02final" /\ k.pc \in Inside /\ k \in Reports
      /\ CommandOK(k, fstate[o], db) /\ GoodDB(db) /\ db \in DBs /\ mlock \in Somebody
  BY DEF B02Final, IInv, Inside, CommandOK, GoodDB
<1>2. /\ k.cmd = "b02" /\ k.v = 6 /\ k.next = 13 /\ ~db.unresolved
      /\ db.meta = Row(6, TRUE) /\ 1..(k.next - 1) \subseteq db.bodies
  BY <1>1 DEF CommandOK, Knows, Remembers
<1>3. 1..12 \subseteq db.bodies
  BY <1>2
<1>4. CASE Plain(o, e, r, "error")
  <2>1. /\ "close" \in Pcs /\ "close" \in Inside \ {"lock", "inspect"} /\ "error" \in Modest
        /\ "verified" \in Outcomes
    BY DEF Pcs, Inside, Modest, Outcomes
  <2>2. 6 \in -1..7 /\ 7 \in 1..7 /\ 7 # 0 /\ 7 \in 6..7 /\ 6 \in Int
    OBVIOUS
  <2>3. /\ e \in DBs /\ e.bodies = db.bodies /\ e.unresolved = db.unresolved /\ e.found = db.found
        /\ e.meta.row /\ e.meta.version = 7 /\ e.meta.dirty = FALSE
    BY <1>1, <2>2, CleanDB
  <2>4. db.meta.row /\ db.meta.version = 6 /\ db.meta.dirty = TRUE
    BY <1>2, <2>2, RowFields
  <2>5. /\ r \in Reports /\ r.pc = "close" /\ r.cmd = k.cmd /\ r.v = k.v
        /\ r.next = k.next /\ r.out = "verified"
    BY <1>1, <2>1, EndsFields
  <2> HIDE DEF k, r, e
  <2>6. 1..6 \subseteq e.bodies /\ 1..7 \subseteq e.bodies /\ Adoptable(e)
    <3>1. 6 \notin 1..4
      OBVIOUS
    <3> QED  BY <1>1, <1>3, <2>3, <2>4, <3>1 DEF GoodDB, FoundOK, Adoptable
  <2>7. GoodDB(e)
    BY <2>2, <2>3, <2>6, GoodAbove
  <2>8. Follows(db, e)
    BY <2>2, <2>3, <2>4, FollowsMore
  <2>9. State(e) = "CLEAN_B02"
    BY <1>2, <1>3, <2>3, CleanB02
  <2>10. Knows(r, e)
    BY <1>2, <2>5, <2>9 DEF Knows, Public
  <2>11. CommandOK(r, "owned", e)
    BY <1>2, <2>1, <2>3, <2>5, <2>10, B02GoesOn
  <2> QED  BY <1>1, <2>1, <1>4, <2>7, <2>8, <2>11, PlainSafe DEF k
<1>5. CASE Finish(o, "error") /\ UNCHANGED <<fenceVars, db, pending, mlock, saw>>
  BY <1>1, <1>5, FinishSafe DEF Modest
<1> QED  BY <1>4, <1>5 DEF B02Final, Ends

LEMMA FollowUpSafe ==
  ASSUME IInv, NEW o \in Operators, FollowUp(o)  PROVE Keeps
<1> DEFINE k == op[o]
           body == FollowUps[k.next]
           n == k.next + 1
           out == IF k.next = 5 THEN "already" ELSE "none"
           r == [k EXCEPT !.pc = "close", !.v = 0, !.next = n, !.out = out]
           e == AddBody(db, body)
<1>1. /\ k.pc = "apply" /\ k.pc \in Inside /\ k \in Reports
      /\ CommandOK(k, fstate[o], db) /\ GoodDB(db) /\ db \in DBs
  BY DEF FollowUp, IInv, Inside, CommandOK, GoodDB
<1>2. k.cmd = "b02" /\ k.v = 7 /\ k.next \in 1..5 /\ 1..6 \subseteq db.bodies /\ Adoptable(db)
  BY <1>1 DEF CommandOK, Knows, Remembers
<1>3. Plain(o, e, r, "error")
  BY DEF FollowUp, AddBody
<1>4. /\ "close" \in Pcs /\ "close" \in Inside \ {"lock", "inspect"} /\ "error" \in Modest
      /\ out \in Outcomes
  BY DEF Pcs, Inside, Modest, Outcomes
<1>5. body \in 1..12
  BY <1>2 DEF FollowUps
<1>6. n \in 0..13 /\ n \in 0..6 /\ (out = "none" => n \in 0..5) /\ out \in {"already", "none"}
  BY <1>2
<1>7. /\ e \in DBs /\ e.bodies = db.bodies \cup {body} /\ e.unresolved = db.unresolved /\ e.found = db.found
      /\ e.meta = db.meta
  BY <1>1, <1>5, BodyDB
<1> HIDE DEF k, body, n, out, e
<1>8. /\ r \in Reports /\ r.pc = "close" /\ r.cmd = k.cmd /\ r.v = 0
      /\ r.next = n /\ r.out = out
  <2>1. k \in Reports /\ 0 \in -1..7 /\ n \in 0..13 /\ out \in Outcomes /\ "close" \in Pcs
    BY <1>1, <1>4, <1>6
  <2> QED  BY <2>1 DEF Reports
<1> HIDE DEF r
<1>9. db.meta.version \in Int
  BY <1>1, MetaFields DEF DBs
<1>10. Follows(db, e)
  BY <1>7, <1>9, FollowsMore
<1>11. GoodDB(e)
  <2>1. 1..6 \subseteq e.bodies
    BY <1>2, <1>7
  <2>2. 6 \in db.bodies /\ db.found \subseteq 1..3
    BY <1>2 DEF Adoptable
  <2>3. db.meta.row
    <3>1. 6 \notin 1..3
      OBVIOUS
    <3> QED  BY <1>1, <2>2, <3>1 DEF GoodDB, FoundOK
  <2>4. InOrder(e)
    BY <1>1, <1>7, <2>1 DEF GoodDB, InOrder
  <2>5. Complete(e)
    <3> SUFFICES ASSUME ~db.meta.dirty PROVE Complete(e)
      BY <1>7 DEF Complete
    <3>1. /\ 1..db.meta.version \subseteq db.bodies
          /\ db.meta.version <= 3 => db.bodies \subseteq (1..db.meta.version) \cup db.found
          /\ db.meta.version \in 4..5 => db.bodies = 1..db.meta.version
      BY <1>1, <2>3 DEF GoodDB, Complete
    <3>2. ~(db.meta.version <= 3) /\ db.meta.version \notin 4..5
      BY <1>9, <2>2, <3>1
    <3> QED  BY <1>7, <3>1, <3>2 DEF Complete
  <2> QED  BY <1>2, <1>7, <2>3, <2>4, <2>5 DEF GoodDB, FoundOK, Adoptable
<1>12. Knows(r, e)
  BY <1>6, <1>8 DEF Knows, Public
<1>13. CommandOK(r, "owned", e)
  BY <1>2, <1>4, <1>6, <1>8, <1>12, B02GoesOn
<1> QED  BY <1>1, <1>3, <1>4, <1>10, <1>11, <1>13, PlainSafe DEF k

-----------------------------------------------------------------------------
(* The inspection under fence and lock *)

\* The version and the follow-up that an inspection leaves to the next window.
ReadyB02(k) == [k EXCEPT !.pc = "close", !.v = 6, !.next = 7]
ReadyFirst(k) == [k EXCEPT !.pc = "close", !.next = 1]
ReadyFollowUp(k) == [k EXCEPT !.pc = "close", !.v = 7]

LEMMA ReadyFields ==
  ASSUME NEW k \in Reports
  PROVE  /\ LET r == ReadyB02(k)
            IN r \in Reports /\ r.pc = "close" /\ r.cmd = k.cmd /\ r.v = 6 /\ r.next = 7 /\ r.out = k.out
         /\ LET r == ReadyFirst(k)
            IN r \in Reports /\ r.pc = "close" /\ r.cmd = k.cmd /\ r.v = k.v /\ r.next = 1 /\ r.out = k.out
         /\ LET r == ReadyFollowUp(k)
            IN r \in Reports /\ r.pc = "close" /\ r.cmd = k.cmd /\ r.v = 7 /\ r.next = k.next /\ r.out = k.out
<1>1. "close" \in Pcs /\ 6 \in -1..7 /\ 7 \in -1..7 /\ 7 \in 0..13 /\ 1 \in 0..13
  BY DEF Pcs, Inside
<1>2. LET r == ReadyB02(k)
      IN r \in Reports /\ r.pc = "close" /\ r.cmd = k.cmd /\ r.v = 6 /\ r.next = 7 /\ r.out = k.out
  BY <1>1 DEF Reports, ReadyB02
<1>3. LET r == ReadyFirst(k)
      IN r \in Reports /\ r.pc = "close" /\ r.cmd = k.cmd /\ r.v = k.v /\ r.next = 1 /\ r.out = k.out
  BY <1>1 DEF Reports, ReadyFirst
<1>4. LET r == ReadyFollowUp(k)
      IN r \in Reports /\ r.pc = "close" /\ r.cmd = k.cmd /\ r.v = 7 /\ r.next = k.next /\ r.out = k.out
  BY <1>1 DEF Reports, ReadyFollowUp
<1> QED  BY <1>2, <1>3, <1>4

LEMMA InspectSafe ==
  ASSUME IInv, NEW o \in Operators, Inspect(o)  PROVE Keeps
<1> DEFINE k == op[o]
           s == State(db)
<1>1. /\ k.pc = "inspect" /\ k.pc \in Inside /\ k \in Reports /\ CommandOK(k, fstate[o], db)
      /\ GoodDB(db) /\ db \in DBs /\ mlock \in Somebody
      /\ UNCHANGED <<fenceVars, db, pending, mlock, saw>>
  BY DEF Inspect, IInv, Inside, CommandOK, GoodDB
<1>2. /\ k.cmd \in {"d5", "restore5", "complete6", "b02"} /\ k.out = "none"
      /\ k.cmd = "b02" => k.v = 0 /\ k.next \in 0..5
  BY <1>1 DEF CommandOK, Remembers
<1>3. fstate[o] = "owned" /\ Follows(db, db)
  BY <1>1, OnlyOne, FollowsSame
<1>4. ASSUME NEW out \in Modest, Finish(o, out) PROVE Keeps
  BY <1>1, <1>4, FinishSafe DEF Modest
<1>5. ASSUME NEW r \in Reports, CommandOK(r, "owned", db), op' = [op EXCEPT ![o] = r] PROVE Keeps
  BY <1>1, <1>3, <1>5, StaySafe
<1>6. ASSUME NEW pc \in {"marker", "recover"}, Goto(o, pc), k.cmd # "b02",
             pc = "recover" => /\ k.cmd \in {"restore5", "complete6"}
                               /\ db.meta.row /\ db.meta.dirty /\ Adoptable(db)
                               /\ IF k.cmd = "restore5" THEN db.bodies = 1..5
                                                        ELSE 1..6 \subseteq db.bodies
      PROVE  Keeps
  <2> DEFINE r == To(k, pc)
  <2>1. op' = [op EXCEPT ![o] = r]
    BY <1>6, GotoIs
  <2>2. pc \in Pcs /\ pc \in Inside \ {"lock", "inspect"}
    BY DEF Pcs, Inside
  <2>3. r \in Reports /\ r.pc = pc /\ r.cmd = k.cmd /\ r.out = k.out
    BY <1>1, <2>2, ToFields
  <2> HIDE DEF k, r
  <2>4. Knows(r, db)
    BY <1>2, <1>6, <2>3 DEF Knows, Public
  <2>5. CommandOK(r, "owned", db)
    BY <1>1, <1>3, <1>6, <2>2, <2>3, <2>4, GoesOn
  <2> QED  BY <1>5, <2>1, <2>3, <2>5
<1>7. "already" \in Modest /\ "not_committed" \in Modest /\ "error" \in Modest
  BY DEF Modest
<1>8. CASE k.cmd = "d5"
  <2>1. IF s = "CLEAN_V5" THEN Goto(o, "marker")
        ELSE Finish(o, IF s = "CLEAN_V6" THEN "already" ELSE "not_committed")
    BY <1>8 DEF Inspect
  <2>2. CASE s = "CLEAN_V5"
    BY <1>6, <1>8, <2>1, <2>2
  <2>3. CASE s # "CLEAN_V5"
    BY <1>4, <1>7, <2>1, <2>3
  <2> QED  BY <2>2, <2>3
<1>9. CASE k.cmd = "restore5"
  <2> DEFINE ok == s \in {"DIRTY_V5", "TRANSITION_V6"} /\ Catalog(db) = "EXACT_V5"
  <2>1. IF ok THEN Goto(o, "recover") ELSE Finish(o, "not_committed")
    BY <1>9 DEF Inspect
  <2>2. CASE ok
    <3>1. db.meta.row /\ db.meta.dirty /\ Adoptable(db) /\ db.bodies = 1..5
      BY <1>1, <2>2, StateFacts, CatalogFacts
    <3>2. Goto(o, "recover")
      BY <2>1, <2>2
    <3> QED  BY <1>6, <1>9, <3>1, <3>2
  <2>3. CASE ~ok
    BY <1>4, <1>7, <2>1, <2>3
  <2> QED  BY <2>2, <2>3
<1>10. CASE k.cmd = "complete6"
  <2> DEFINE ok == s = "TRANSITION_V6" /\ Catalog(db) = "EXACT_V6"
  <2>1. IF ok THEN Goto(o, "recover") ELSE Finish(o, "not_committed")
    BY <1>10 DEF Inspect
  <2>2. CASE ok
    <3>1. db.meta.row /\ db.meta.dirty /\ Adoptable(db) /\ 1..6 \subseteq db.bodies
      BY <1>1, <2>2, StateFacts, CatalogFacts
    <3>2. Goto(o, "recover")
      BY <2>1, <2>2
    <3> QED  BY <1>6, <1>10, <3>1, <3>2
  <2>3. CASE ~ok
    BY <1>4, <1>7, <2>1, <2>3
  <2> QED  BY <2>2, <2>3
<1>11. ASSUME NEW r \in Reports, op' = [op EXCEPT ![o] = r],
              r.cmd = "b02", r.pc = "close", r.out = "none",
              \/ r.v = 0 /\ r.next \in 0..5
              \/ r.v = 6 /\ r.next = 7 /\ ~db.unresolved
              \/ r.v = 7 /\ r.next \in 1..5 /\ 1..6 \subseteq db.bodies /\ Adoptable(db)
       PROVE  Keeps
  <2>1. Knows(r, db)
    BY <1>2, <1>11 DEF Knows, Public
  <2>2. "close" \in Inside \ {"lock", "inspect"}
    BY DEF Inside
  <2>3. CommandOK(r, "owned", db)
    BY <1>11, <2>1, <2>2, B02GoesOn
  <2> QED  BY <1>5, <1>11, <2>3
<1>13. CASE k.cmd = "b02" /\ k.next = 0
  <2> DEFINE r6 == ReadyB02(k)
             r1 == ReadyFirst(k)
  <2>1. IF s = "CLEAN_V6"
        THEN op' = [op EXCEPT ![o].pc = "close", ![o].v = 6, ![o].next = 7]
        ELSE IF s \in {"CLEAN_B02", "IDENTITY_REQUIRED"}
        THEN op' = [op EXCEPT ![o].pc = "close", ![o].next = 1]
        ELSE Finish(o, "error")
    BY <1>13 DEF Inspect
  <2>2. CASE s = "CLEAN_V6"
    <3>1. op' = [op EXCEPT ![o] = r6]
      BY <2>1, <2>2 DEF ReadyB02
    <3>2. ~db.unresolved
      BY <1>1, <2>2, StateFacts
    <3>3. /\ r6 \in Reports /\ r6.pc = "close" /\ r6.cmd = k.cmd /\ r6.v = 6 /\ r6.next = 7
          /\ r6.out = k.out
      BY <1>1, ReadyFields
    <3> HIDE DEF r6
    <3> QED  BY <1>2, <1>11, <1>13, <3>1, <3>2, <3>3
  <2>3. CASE s \in {"CLEAN_B02", "IDENTITY_REQUIRED"}
    <3>1. op' = [op EXCEPT ![o] = r1]
      BY <2>1, <2>3 DEF ReadyFirst
    <3>3. /\ r1 \in Reports /\ r1.pc = "close" /\ r1.cmd = k.cmd /\ r1.v = k.v /\ r1.next = 1
          /\ r1.out = k.out
      BY <1>1, ReadyFields
    <3> HIDE DEF r1
    <3>4. 1 \in 0..5
      OBVIOUS
    <3> QED  BY <1>2, <1>11, <1>13, <3>1, <3>3, <3>4
  <2>4. CASE s \notin {"CLEAN_V6", "CLEAN_B02", "IDENTITY_REQUIRED"}
    BY <1>4, <1>7, <2>1, <2>4
  <2> QED  BY <2>2, <2>3, <2>4
<1>14. CASE k.cmd = "b02" /\ k.next \in 1..5
  <2> DEFINE r7 == ReadyFollowUp(k)
             ok == s = "CLEAN_B02" \/ (s = "IDENTITY_REQUIRED" /\ FollowUps[k.next] = 10)
  <2>0. k.next # 0
    BY <1>14
  <2>1. IF ok THEN op' = [op EXCEPT ![o].pc = "close", ![o].v = 7] ELSE Finish(o, "error")
    BY <1>14, <2>0 DEF Inspect
  <2>2. CASE ok
    <3>1. op' = [op EXCEPT ![o] = r7]
      BY <2>1, <2>2 DEF ReadyFollowUp
    <3>2. 1..6 \subseteq db.bodies /\ Adoptable(db)
      BY <1>1, <2>2, StateFacts
    <3>3. /\ r7 \in Reports /\ r7.pc = "close" /\ r7.cmd = k.cmd /\ r7.v = 7 /\ r7.next = k.next
          /\ r7.out = k.out
      BY <1>1, ReadyFields
    <3> HIDE DEF r7
    <3> QED  BY <1>2, <1>11, <1>14, <3>1, <3>2, <3>3
  <2>3. CASE ~ok
    BY <1>4, <1>7, <2>1, <2>3
  <2> QED  BY <2>2, <2>3
<1>15. k.cmd = "b02" => k.next = 0 \/ k.next \in 1..5
  BY <1>2
<1> QED  BY <1>2, <1>8, <1>9, <1>10, <1>13, <1>14, <1>15

-----------------------------------------------------------------------------
(* Windows *)

\* An undecided commit keeps its backend while handles only disconnect.
LEMMA StillPending ==
  ASSUME IInv, NEW o \in Operators, owner' = owner,
         conn' = conn \/ conn' = [conn EXCEPT ![o] = NoBackend]
  PROVE  \A b \in Backends : pending[b] # NoCommit =>
             owner' = b /\ \A p \in Operators : conn'[p] # b
<1> SUFFICES ASSUME NEW b \in Backends, pending[b] # NoCommit
             PROVE  owner' = b /\ \A p \in Operators : conn'[p] # b
  OBVIOUS
<1>1. owner = b /\ \A p \in Operators : conn[p] # b
  BY DEF IInv, PendingOK
<1>2. b # NoBackend
  BY FenceAssumption
<1>3. conn \in Handles
  BY DEF IInv, FenceInv, FenceTypes
<1> QED  BY <1>1, <1>2, <1>3 DEF Handles

\* A step of o's handle that leaves the database alone.
LEMMA HandleSafe ==
  ASSUME IInv, NEW o \in Operators, NEW k, op' = [op EXCEPT ![o] = k],
         UNCHANGED <<db, pending, saw, shared>>, mlock' \in Somebody,
         FenceInv', NEW s, fstate' = [fstate EXCEPT ![o] = s],
         CommandOK(k, s, db),
         owner' = owner \/ op[o].pc \in Inside,
         conn' = conn \/ conn' = [conn EXCEPT ![o] = NoBackend]
  PROVE  Keeps
<1>1. fstate'[o] = s /\ \A p \in Operators \ {o} : fstate'[p] = fstate[p]
  BY DEF IInv, FenceInv, FenceTypes
<1>2. \A b \in Backends : pending[b] # NoCommit =>
             owner' = b /\ \A p \in Operators : conn'[p] # b
  <2>1. CASE owner' = owner
    BY <2>1, StillPending
  <2>2. CASE op[o].pc \in Inside
    BY <2>2, OnlyOne
  <2> QED  BY <2>1, <2>2
<1>3. IInv'
  BY <1>1, <1>2, QuietKeeps
<1>4. Follows(db, db)
  BY FollowsSame DEF IInv, GoodDB
<1> QED  BY <1>3, <1>4 DEF Keeps

\* What is left when no command runs.
LEMMA IdleOK ==
  ASSUME NEW d, NEW s \in {"not_attempted", "released", "unknown"}
  PROVE  CommandOK(Idle, s, d)
<1>1. /\ Idle.cmd = "none" /\ Idle.pc = "idle" /\ Idle.v = 0 /\ Idle.next = 0
      /\ Idle.out = "none" /\ Idle.meta = NoRow
  BY DEF Idle
<1>2. /\ "idle" \in Pcs /\ 0 \in -1..7 /\ 0 \in 0..13 /\ "none" \in Outcomes /\ NoRow \in MetaRows
      /\ "idle" \in Outside /\ "idle" \notin Inside
  BY DEF Pcs, Inside, Outside, Outcomes, MetaRows
<1>3. Idle \in Reports
  BY <1>2 DEF Idle, Reports
<1>4. WindowOK(Idle, s)
  BY <1>1, <1>2 DEF WindowOK
<1>5. Remembers(Idle, d)
  BY <1>1 DEF Remembers
<1>6. Knows(Idle, d)
  BY <1>1, <1>2, KnowsNothing
<1> QED  BY <1>3, <1>4, <1>5, <1>6 DEF CommandOK

LEMMA StartSafe ==
  ASSUME IInv, NEW o \in Operators, NEW cmd \in Commands, Start(o, cmd)  PROVE Keeps
<1> DEFINE pc == IF cmd = "admit" THEN "version" ELSE "open"
           k == [Idle EXCEPT !.cmd = cmd, !.pc = pc]
<1>1. cmd \in {"up", "down", "admit", "d5", "restore5", "complete6", "b02"}
  BY DatabaseAssumption
<1>2. pc \in Pcs /\ pc \in Outside /\ pc \notin Inside /\ pc \in {"version", "open"}
  BY DEF Pcs, Outside, Inside
<1> HIDE DEF pc
<1>3. CommandOK(k, "not_attempted", db)
  <2>1. Idle \in Reports /\ Idle.v = 0 /\ Idle.next = 0 /\ Idle.out = "none"
    BY IdleOK DEF CommandOK, Idle
  <2>2. /\ k \in Reports /\ k.cmd = cmd /\ k.pc = pc /\ k.v = 0 /\ k.next = 0 /\ k.out = "none"
    BY <1>1, <1>2, <2>1 DEF Reports
  <2> HIDE DEF k
  <2>3. WindowOK(k, "not_attempted")
    BY <1>2, <2>2 DEF WindowOK
  <2>4. Remembers(k, db)
    BY <1>1, <1>2, <2>2 DEF Remembers
  <2>5. Knows(k, db)
    BY <1>2, <2>2, KnowsNothing
  <2> QED  BY <2>2, <2>3, <2>4, <2>5 DEF CommandOK
<1> HIDE DEF k
<1>4. op' = [op EXCEPT ![o] = k]
  BY DEF Start, k, pc
<1>5. conn[o] = NoBackend
  BY DEF Start, IInv, CommandOK, WindowOK, Outside, FenceInv, HandlesOK
<1>6. FenceInv'
  <2>1. "not_attempted" \in {"not_attempted", "unknown"} /\ "not_attempted" # "unknown"
    OBVIOUS
  <2> QED  BY <1>5, <2>1, DetachFence DEF Start, IInv
<1>7. /\ fstate' = [fstate EXCEPT ![o] = "not_attempted"]
      /\ UNCHANGED <<db, pending, saw, shared, owner, conn>> /\ mlock' \in Somebody
  BY DEF Start, IInv
<1> QED  BY <1>3, <1>4, <1>6, <1>7, HandleSafe

LEMMA OpenWindowSafe ==
  ASSUME IInv, NEW o \in Operators, OpenWindow(o)  PROVE Keeps
<1> DEFINE k == op[o]
           r == To(k, "fence")
<1>1. PICK b \in Backends : OpenExclusiveWriterFence(o, b)
  BY DEF OpenWindow
<1>2. /\ k.pc = "open" /\ k \in Reports /\ CommandOK(k, fstate[o], db) /\ db \in DBs
      /\ UNCHANGED <<db, pending, saw>> /\ mlock' \in Somebody /\ shared' = shared
  BY <1>1 DEF OpenWindow, OpenExclusiveWriterFence, IInv, GoodDB
<1>3. op' = [op EXCEPT ![o] = r]
  BY GotoIs DEF OpenWindow
<1>4. FenceInv'
  BY <1>1, OpenFence DEF IInv
<1>5. /\ fstate'[o] = "waiting" /\ \A p \in Operators \ {o} : fstate'[p] = fstate[p]
      /\ conn' = [conn EXCEPT ![o] = b] /\ conn \in Handles /\ owner' = owner
  BY <1>1 DEF OpenExclusiveWriterFence, IInv, FenceInv, FenceTypes
<1>6. "fence" \in Pcs /\ "fence" \notin Inside /\ "fence" \notin Outside
  BY DEF Pcs, Inside, Outside
<1>7. r \in Reports /\ r.pc = "fence" /\ r.cmd = k.cmd /\ r.v = k.v /\ r.next = k.next /\ r.out = k.out
  BY <1>2, <1>6, ToFields
<1> HIDE DEF k, r
<1>8. CommandOK(r, "waiting", db)
  <2>1. WindowOK(r, "waiting")
    BY <1>6, <1>7 DEF WindowOK
  <2>2. Remembers(r, db)
    BY <1>2, <1>7 DEF CommandOK, Remembers
  <2>3. Knows(r, db)
    BY <1>6, <1>7, KnowsNothing
  <2> QED  BY <1>7, <2>1, <2>2, <2>3 DEF CommandOK
<1>9. ASSUME NEW c \in Backends, pending[c] # NoCommit
      PROVE  owner' = c /\ \A p \in Operators : conn'[p] # c
  <2>1. owner = c /\ \A p \in Operators : conn[p] # c
    BY <1>9 DEF IInv, PendingOK
  <2>2. c \in alive
    BY <2>1, FenceAssumption DEF IInv, FenceInv, ServerOK
  <2>3. b # c
    BY <1>1, <2>2 DEF OpenExclusiveWriterFence
  <2> QED  BY <1>5, <2>1, <2>3 DEF Handles
<1>10. IInv'
  BY <1>2, <1>3, <1>4, <1>5, <1>8, <1>9, QuietKeeps
<1>11. Follows(db, db)
  BY <1>2, FollowsSame
<1> QED  BY <1>2, <1>10, <1>11 DEF Keeps

LEMMA EnterWindowSafe ==
  ASSUME IInv, NEW o \in Operators, EnterWindow(o)  PROVE Keeps
<1> DEFINE k == op[o]
           pc == CASE k.cmd \in {"up", "down", "admit"} -> "gate"
                   [] k.cmd = "b02" /\ k.v = 6 -> "mark"
                   [] k.cmd = "b02" /\ k.v = 7 -> "apply"
                   [] OTHER -> "lock"
           r == To(k, pc)
<1>1. /\ k.pc = "fence" /\ k \in Reports /\ CommandOK(k, fstate[o], db) /\ db \in DBs
      /\ UNCHANGED <<db, pending, saw>> /\ mlock' \in Somebody /\ Acquired(o)
  BY DEF EnterWindow, IInv, GoodDB
<1>2. op' = [op EXCEPT ![o] = r]
  BY GotoIs DEF EnterWindow
<1>3. FenceInv' /\ fstate' = [fstate EXCEPT ![o] = "owned"] /\ UNCHANGED <<shared, owner, conn>>
  BY <1>1, AcquiredFence DEF IInv, Acquired
<1>4. /\ k.out = "none" /\ k.cmd # "none"
      /\ k.cmd = "b02" => /\ k.v \in {0, 6, 7}
                          /\ k.v = 0 => k.next \in 0..5
                          /\ k.v = 6 => k.next = 7 /\ ~db.unresolved
                          /\ k.v = 7 => k.next \in 1..5 /\ 1..6 \subseteq db.bodies /\ Adoptable(db)
  BY <1>1 DEF CommandOK, Remembers
<1>5. \/ pc = "gate" /\ k.cmd \in {"up", "down", "admit"}
      \/ pc = "mark" /\ k.cmd = "b02" /\ k.v = 6
      \/ pc = "apply" /\ k.cmd = "b02" /\ k.v = 7
      \/ pc = "lock" /\ k.cmd \notin {"up", "down", "admit"} /\ (k.cmd = "b02" => k.v = 0)
  <2>1. CASE k.cmd \in {"up", "down", "admit"}
    BY <2>1
  <2>2. CASE k.cmd = "b02" /\ k.v = 6
    BY <2>2
  <2>3. CASE k.cmd = "b02" /\ k.v = 7
    BY <2>3
  <2>4. CASE k.cmd \notin {"up", "down", "admit"} /\ (k.cmd = "b02" => k.v \notin {6, 7})
    BY <1>4, <2>4
  <2> QED  BY <2>1, <2>2, <2>3, <2>4
<1> HIDE DEF k, pc
<1>6. pc \in Pcs /\ pc \in Inside /\ pc \in {"gate", "mark", "apply", "lock"}
  BY <1>5 DEF Pcs, Inside
<1>7. r \in Reports /\ r.pc = pc /\ r.cmd = k.cmd /\ r.v = k.v /\ r.next = k.next /\ r.out = k.out
  BY <1>1, <1>6, ToFields
<1> HIDE DEF r
<1>8. CommandOK(r, "owned", db)
  <2>1. WindowOK(r, "owned")
    BY <1>6, <1>7 DEF WindowOK, Outside
  <2>2. k.cmd \in {"none", "up", "down", "admit", "d5", "restore5", "complete6", "b02"}
    BY <1>1 DEF Reports
  <2>3. Remembers(r, db)
    BY <1>4, <1>5, <1>7, <2>2 DEF Remembers
  <2>4. Knows(r, db)
    BY <1>4, <1>5, <1>7 DEF Knows, Public
  <2> QED  BY <1>7, <2>1, <2>3, <2>4 DEF CommandOK
<1> QED  BY <1>1, <1>2, <1>3, <1>8, HandleSafe

LEMMA WindowRefusedSafe ==
  ASSUME IInv, NEW o \in Operators, WindowRefused(o)  PROVE Keeps
<1> DEFINE r == Ends(op[o], "probe", "error")
<1>1. /\ UNCHANGED <<db, pending, saw>> /\ mlock' \in Somebody /\ AcquireFails(o)
      /\ op' = [op EXCEPT ![o] = r]
  BY DEF WindowRefused, IInv, Ends
<1>2. CommandOK(r, "unknown", db)
  BY GivesUp DEF IInv, Modest
<1> HIDE DEF r
<1>3. /\ FenceInv' /\ fstate' = [fstate EXCEPT ![o] = "unknown"] /\ UNCHANGED <<shared, owner>>
      /\ conn' = [conn EXCEPT ![o] = NoBackend]
  BY <1>1, AcquireFailsFence DEF IInv, AcquireFails
<1> QED  BY <1>1, <1>2, <1>3, HandleSafe

\* A command whose handle is UNKNOWN is done, with or without the proof that
\* the fence is free.
LEMMA BackSafe ==
  ASSUME IInv, NEW o \in Operators, op[o].pc \in {"probe", "resolve"}, Back(o),
         DiscardUnknown(o) \/ UNCHANGED fenceVars,
         UNCHANGED <<db, pending, mlock, saw>>
  PROVE  Keeps
<1> DEFINE k == op[o]
           r == To(k, "done")
<1>1. k \in Reports /\ CommandOK(k, fstate[o], db) /\ mlock' \in Somebody
  BY DEF IInv
<1>2. op' = [op EXCEPT ![o] = r] /\ fstate[o] = "unknown"
  BY <1>1 DEF Back, To, CommandOK, WindowOK
<1>3. "done" \in Pcs /\ "done" \in Outside /\ "done" \notin Inside
  BY DEF Pcs, Inside, Outside
<1>4. r \in Reports /\ r.pc = "done" /\ r.cmd = k.cmd /\ r.v = k.v /\ r.next = k.next /\ r.out = k.out
  BY <1>1, <1>3, ToFields
<1> HIDE DEF r
<1>5. ASSUME NEW s \in {"released", "unknown"} PROVE CommandOK(r, s, db)
  <2>1. WindowOK(r, s)
    BY <1>3, <1>4 DEF WindowOK
  <2>2. Remembers(r, db)
    BY <1>1, <1>4 DEF CommandOK, Remembers
  <2>3. Knows(r, db)
    BY <1>3, <1>4, KnowsNothing
  <2> QED  BY <1>4, <2>1, <2>2, <2>3 DEF CommandOK
<1>6. CASE DiscardUnknown(o)
  <2>1. /\ FenceInv' /\ fstate' = [fstate EXCEPT ![o] = "released"]
        /\ UNCHANGED <<shared, owner, conn>>
    BY <1>6, DiscardFence DEF IInv, DiscardUnknown
  <2>2. CommandOK(r, "released", db)
    BY <1>5
  <2> QED  BY <1>1, <1>2, <2>1, <2>2, HandleSafe
<1>7. CASE UNCHANGED fenceVars
  <2>1. CommandOK(r, fstate[o], db)
    BY <1>2, <1>5
  <2> QED  BY <1>1, <1>2, <1>7, <2>1, StaySafe
<1> QED  BY <1>6, <1>7

LEMMA ProbeSafe ==
  ASSUME IInv, NEW o \in Operators, Probe(o) \/ ResolveUnknown(o)  PROVE Keeps
<1>1. op[o].pc \in {"probe", "resolve"} /\ Back(o) /\ (DiscardUnknown(o) \/ UNCHANGED fenceVars)
  BY DEF Probe, ResolveUnknown
<1>2. UNCHANGED <<db, pending, mlock, saw>>
  BY DEF Probe, ResolveUnknown
<1> QED  BY <1>1, <1>2, BackSafe

LEMMA TakeLockSafe ==
  ASSUME IInv, NEW o \in Operators, TakeLock(o)  PROVE Keeps
<1> DEFINE k == op[o]
           r == To(k, "inspect")
<1>1. /\ k.pc = "lock" /\ k.pc \in Inside /\ k \in Reports /\ CommandOK(k, fstate[o], db)
      /\ mlock \in Somebody /\ UNCHANGED <<fenceVars, db, pending, saw>>
  BY DEF TakeLock, IInv, Inside
<1>2. fstate[o] = "owned" /\ conn[o] \in Somebody
  BY <1>1, OnlyOne DEF Somebody
<1>3. CASE Finish(o, "error") /\ mlock' = mlock
  BY <1>1, <1>3, FinishSafe DEF Modest
<1>4. CASE Goto(o, "inspect") /\ mlock' = conn[o]
  <2>1. op' = [op EXCEPT ![o] = r]
    BY <1>4, GotoIs
  <2>2. "inspect" \in Pcs /\ "inspect" \in Inside /\ "inspect" \notin Outside
    BY DEF Pcs, Inside, Outside
  <2>3. r \in Reports /\ r.pc = "inspect" /\ r.cmd = k.cmd /\ r.v = k.v /\ r.next = k.next /\ r.out = k.out
    BY <1>1, <2>2, ToFields
  <2> HIDE DEF k, r
  <2>4. WindowOK(r, "owned")
    BY <2>2, <2>3 DEF WindowOK
  <2>5. Remembers(r, db)
    BY <1>1, <2>3 DEF CommandOK, Remembers
  <2>6. r.out = "none"
    BY <1>1, <2>3 DEF CommandOK, Remembers
  <2>7. Knows(r, db)
    BY <2>3, <2>6 DEF Knows, Public
  <2>8. CommandOK(r, fstate[o], db)
    BY <1>2, <2>3, <2>4, <2>5, <2>7 DEF CommandOK
  <2> QED  BY <1>1, <1>2, <1>4, <2>1, <2>8, StaySafe
<1> QED  BY <1>3, <1>4 DEF TakeLock

LEMMA UnlockIs ==
  ASSUME IInv, NEW o \in Operators, Unlock(o)  PROVE mlock' \in Somebody
BY DEF Unlock, IInv, Somebody

LEMMA CloseSafe ==
  ASSUME IInv, NEW o \in Operators, Close(o)  PROVE Keeps
<1> DEFINE k == op[o]
           pc == CASE k.cmd = "admit" /\ k.out = "none" -> "reread"
                   [] k.cmd = "b02" /\ k.out = "none" -> "open"
                   [] OTHER -> "done"
           r == To(k, pc)
<1>1. /\ k.pc = "close" /\ k.pc \in Inside /\ k \in Reports /\ CommandOK(k, fstate[o], db)
      /\ UNCHANGED <<db, pending, saw>> /\ mlock' \in Somebody
  BY UnlockIs DEF Close, IInv, Inside
<1>2. /\ FenceInv' /\ fstate' = [fstate EXCEPT ![o] = "released"] /\ UNCHANGED shared
      /\ conn' = [conn EXCEPT ![o] = NoBackend]
  BY ReleaseFence DEF Close, IInv, Release
<1>3. op' = [op EXCEPT ![o] = r]
  BY GotoIs DEF Close
<1>4. pc \in {"reread", "done"} \/ (pc = "open" /\ k.cmd = "b02" /\ k.out = "none")
  <2>1. CASE k.cmd = "admit" /\ k.out = "none"
    BY <2>1
  <2>2. CASE k.cmd = "b02" /\ k.out = "none"
    BY <2>2
  <2>3. CASE ~(k.cmd = "admit" /\ k.out = "none") /\ ~(k.cmd = "b02" /\ k.out = "none")
    BY <2>3
  <2> QED  BY <2>1, <2>2, <2>3
<1> HIDE DEF k, pc
<1>5. pc \in Pcs /\ pc \in Outside /\ pc \notin Inside
  BY <1>4 DEF Pcs, Inside, Outside
<1>6. r \in Reports /\ r.pc = pc /\ r.cmd = k.cmd /\ r.v = k.v /\ r.next = k.next /\ r.out = k.out
  BY <1>1, <1>5, ToFields
<1> HIDE DEF r
<1>7. CommandOK(r, "released", db)
  <2>1. WindowOK(r, "released")
    BY <1>5, <1>6 DEF WindowOK, Outside
  <2>2. Remembers(r, db)
    BY <1>1, <1>4, <1>6 DEF CommandOK, Remembers
  <2>3. Knows(r, db)
    BY <1>5, <1>6, KnowsNothing
  <2> QED  BY <1>6, <2>1, <2>2, <2>3 DEF CommandOK
<1> QED  BY <1>1, <1>2, <1>3, <1>7, HandleSafe DEF k

LEMMA AmendIs ==
  ASSUME NEW cmd, NEW out \in Outcomes
  PROVE  (Amend(cmd, out) = out /\ out # "none") \/ Amend(cmd, out) \in {"error", "postfail"}
BY DEF Amend

LEMMA CleanupFailsSafe ==
  ASSUME IInv, NEW o \in Operators, CloseLockFails(o) \/ CloseFenceFails(o)  PROVE Keeps
<1> DEFINE k == op[o]
           pc == IF CloseLockFails(o) THEN "done" ELSE "probe"
           out == Amend(k.cmd, k.out)
           s == IF CloseLockFails(o) THEN "released" ELSE "unknown"
           r == Ends(k, pc, out)
<1>1. /\ k.pc = "close" /\ k.pc \in Inside /\ k \in Reports /\ CommandOK(k, fstate[o], db)
      /\ UNCHANGED <<db, pending, saw>> /\ mlock' \in Somebody
  BY UnlockIs DEF CloseLockFails, CloseFenceFails, IInv, Inside
<1>2. /\ FenceInv' /\ fstate' = [fstate EXCEPT ![o] = s] /\ UNCHANGED shared
      /\ conn' = [conn EXCEPT ![o] = NoBackend]
  BY ReleaseFence DEF CloseLockFails, CloseFenceFails, IInv, Release, ReleaseFails
<1>3. op' = [op EXCEPT ![o] = r]
  BY DEF CloseLockFails, CloseFenceFails, CleanupFails, Ends
<1>4. (pc = "done" /\ s = "released") \/ (pc = "probe" /\ s = "unknown")
  OBVIOUS
<1>5. (out = k.out /\ k.out # "none") \/ out \in {"error", "postfail"}
  <2>1. k.out \in Outcomes
    BY <1>1 DEF Reports
  <2> QED  BY <2>1, AmendIs
<1>6. out \in Outcomes
  BY <1>1, <1>5 DEF Outcomes, Reports
<1> HIDE DEF k, pc, out, s
<1>7. pc \in Pcs /\ pc \notin Inside
  BY <1>4 DEF Pcs, Inside, Outside
<1>8. r \in Reports /\ r.pc = pc /\ r.out = out /\ r.cmd = k.cmd /\ r.v = k.v /\ r.next = k.next
  BY <1>1, <1>6, <1>7, EndsFields
<1> HIDE DEF r
<1>9. CommandOK(r, s, db)
  <2>1. WindowOK(r, s)
    BY <1>4, <1>8 DEF WindowOK, Inside, Outside
  <2>2. Remembers(r, db)
    BY <1>1, <1>4, <1>5, <1>8 DEF CommandOK, Remembers
  <2>3. Knows(r, db)
    BY <1>7, <1>8, KnowsNothing
  <2> QED  BY <1>8, <2>1, <2>2, <2>3 DEF CommandOK
<1> QED  BY <1>1, <1>2, <1>3, <1>9, HandleSafe DEF k

LEMMA ReturnSafe ==
  ASSUME IInv, NEW o \in Operators, Return(o)  PROVE Keeps
<1> DEFINE k == op[o]
           r == To(k, "serving")
<1>1. /\ k.pc = "done" /\ k \in Reports /\ CommandOK(k, fstate[o], db)
      /\ UNCHANGED <<fenceVars, db, pending, mlock, saw>> /\ mlock' \in Somebody
  BY DEF Return, IInv
<1>2. fstate[o] \in {"not_attempted", "released", "unknown"}
  BY <1>1 DEF CommandOK, WindowOK, Outside
<1>3. CASE k.out \in {"serve6", "serve7"}
  <2>1. op' = [op EXCEPT ![o] = r]
    BY <1>3 DEF Return, To
  <2>2. "serving" \in Pcs /\ "serving" \in Outside /\ "serving" \notin Inside
    BY DEF Pcs, Inside, Outside
  <2>3. r \in Reports /\ r.pc = "serving" /\ r.cmd = k.cmd /\ r.v = k.v /\ r.next = k.next /\ r.out = k.out
    BY <1>1, <2>2, ToFields
  <2> HIDE DEF k, r
  <2>4. WindowOK(r, fstate[o])
    BY <1>2, <2>2, <2>3 DEF WindowOK
  <2>5. Remembers(r, db)
    BY <1>1, <2>3 DEF CommandOK, Remembers
  <2>6. Knows(r, db)
    BY <2>2, <2>3, KnowsNothing
  <2>7. CommandOK(r, fstate[o], db)
    BY <2>3, <2>4, <2>5, <2>6 DEF CommandOK
  <2> QED  BY <1>1, <2>1, <2>7, StaySafe
<1>4. CASE k.out \notin {"serve6", "serve7"}
  <2>1. op' = [op EXCEPT ![o] = Idle]
    BY <1>4 DEF Return
  <2>2. CommandOK(Idle, fstate[o], db)
    BY <1>2, IdleOK
  <2> QED  BY <1>1, <2>1, <2>2, StaySafe
<1> QED  BY <1>3, <1>4

LEMMA CrashSafe ==
  ASSUME IInv, NEW o \in Operators, Crash(o)  PROVE Keeps
<1>1. /\ op' = [op EXCEPT ![o] = Idle] /\ conn' = [conn EXCEPT ![o] = NoBackend]
      /\ fstate' = [fstate EXCEPT ![o] = "not_attempted"]
      /\ UNCHANGED <<queue, shared, owner, alive, pid, db, pending, saw>> /\ mlock' \in Somebody
  BY DEF Crash, IInv
<1>2. FenceInv'
  <2>1. "not_attempted" \in {"not_attempted", "unknown"} /\ "not_attempted" # "unknown"
    OBVIOUS
  <2> QED  BY <1>1, <2>1, DetachFence DEF IInv
<1>3. CommandOK(Idle, "not_attempted", db)
  BY IdleOK
<1> QED  BY <1>1, <1>2, <1>3, HandleSafe

-----------------------------------------------------------------------------
(* Admission *)

\* The reports of the two reads.
ReadVersion(k, v, pc, out) == [k EXCEPT !.v = v, !.pc = pc, !.out = out]
Admission(k, m, out) == [k EXCEPT !.pc = "done", !.meta = m, !.out = out]

LEMMA VersionSafe ==
  ASSUME IInv, NEW o \in Operators, Version(o)  PROVE Keeps
<1> DEFINE k == op[o]
           x == VersionOf(db.meta)
           v == x.version
           pc == IF x.dirty THEN "done"
                 ELSE IF x.version < 5 /\ k.pc = "version" THEN "open" ELSE "catalog"
           out == IF x.dirty THEN "error" ELSE k.out
           r == ReadVersion(k, v, pc, out)
<1>1. /\ k.cmd = "admit" /\ k.pc \in {"version", "reread"} /\ k \in Reports
      /\ CommandOK(k, fstate[o], db) /\ db \in DBs
      /\ UNCHANGED <<fenceVars, db, pending, mlock, saw>> /\ mlock' \in Somebody
  BY DEF Version, IInv, GoodDB
<1>2. op' = [op EXCEPT ![o] = r]
  BY DEF Version, ReadVersion
<1>3. v \in -1..7
  <2>1. db.meta.version \in -1..7
    BY <1>1, MetaFields DEF DBs
  <2> QED  BY <2>1 DEF VersionOf
<1>4. fstate[o] \in {"not_attempted", "released", "unknown"}
  BY <1>1 DEF CommandOK, WindowOK, Outside
<1>5. pc \in {"done", "catalog"} \/ (pc = "open" /\ k.pc = "version" /\ out = k.out)
  OBVIOUS
<1>6. out \in {"error", k.out}
  OBVIOUS
<1> HIDE DEF v, pc, out
<1>7. pc \in Pcs /\ pc \in Outside /\ pc \notin Inside
  BY <1>5 DEF Pcs, Inside, Outside
<1>8. out \in Outcomes
  BY <1>1, <1>6 DEF Outcomes, Reports
<1> HIDE DEF k
<1>9. r \in Reports /\ r.pc = pc /\ r.out = out /\ r.cmd = k.cmd
  <2>1. k \in Reports /\ v \in -1..7 /\ pc \in Pcs /\ out \in Outcomes
    BY <1>1, <1>3, <1>7, <1>8
  <2> QED  BY <2>1 DEF Reports, ReadVersion
<1> HIDE DEF r
<1>10. CommandOK(r, fstate[o], db)
  <2>1. WindowOK(r, fstate[o])
    BY <1>4, <1>7, <1>9 DEF WindowOK, Outside
  <2>2. Remembers(r, db)
    BY <1>1, <1>5, <1>6, <1>9 DEF CommandOK, Remembers
  <2>3. Knows(r, db)
    BY <1>7, <1>9, KnowsNothing
  <2> QED  BY <1>9, <2>1, <2>2, <2>3 DEF CommandOK
<1> QED  BY <1>1, <1>2, <1>10, StaySafe

LEMMA AdmitFields ==
  ASSUME NEW k \in Reports, NEW m \in MetaRows, NEW out \in Outcomes
  PROVE  LET r == Admission(k, m, out)
         IN r \in Reports /\ r.pc = "done" /\ r.out = out /\ r.cmd = k.cmd
<1>1. "done" \in Pcs
  BY DEF Pcs, Outside
<1> QED  BY <1>1 DEF Reports, Admission

\* The catalog of an admitted server has every body of its version.
LEMMA AdmittedBodies ==
  ASSUME NEW d, GoodDB(d)
  PROVE  /\ RuntimeExact(6, d.bodies) => 1..6 \subseteq d.bodies
         /\ RuntimeExact(7, d.bodies) => 1..12 \subseteq d.bodies
<1>1. 6 \in d.bodies => 1..6 \subseteq d.bodies
  <2>1. 6 \notin 1..3 /\ 6 \notin 1..4 /\ 6 \notin 1..5
    OBVIOUS
  <2> QED  BY <2>1 DEF GoodDB, InOrder
<1>2. RuntimeExact(6, d.bodies) => 6 \in d.bodies
  BY DEF RuntimeExact
<1>3. RuntimeExact(7, d.bodies) => 6..12 \subseteq d.bodies
  BY DEF RuntimeExact
<1>4. 6 \in 6..12 /\ \A j \in 1..12 : j \in 1..6 \/ j \in 6..12
  OBVIOUS
<1> QED  BY <1>1, <1>2, <1>3, <1>4

LEMMA AdmitSafe ==
  ASSUME IInv, NEW o \in Operators, Admit(o)  PROVE Keeps
<1> DEFINE k == op[o]
           out == CASE op[o].v = 6 /\ RuntimeExact(6, db.bodies) -> "serve6"
                    [] op[o].v = 7 /\ RuntimeExact(7, db.bodies) -> "serve7"
                    [] OTHER -> "error"
           r == Admission(k, db.meta, out)
<1>1. /\ k.cmd = "admit" /\ k.pc = "catalog" /\ k \in Reports
      /\ CommandOK(k, fstate[o], db) /\ db \in DBs /\ GoodDB(db)
      /\ UNCHANGED <<fenceVars, db, pending, mlock, saw>> /\ mlock' \in Somebody
  BY DEF Admit, At, IInv, GoodDB
<1>x. op' = [op EXCEPT ![o].pc = "done", ![o].meta = db.meta, ![o].out = out]
  BY DEF Admit
<1>3. \/ out = "error"
      \/ out = "serve6" /\ 1..6 \subseteq db.bodies
      \/ out = "serve7" /\ 1..12 \subseteq db.bodies
  BY <1>1, AdmittedBodies
<1>4. fstate[o] \in {"not_attempted", "released", "unknown"}
  BY <1>1 DEF CommandOK, WindowOK, Outside
<1> HIDE DEF out
<1>2. op' = [op EXCEPT ![o] = r]
  BY <1>x DEF Admission
<1>5. "done" \in Pcs /\ "done" \in Outside /\ "done" \notin Inside /\ out \in Outcomes /\ db.meta \in MetaRows
  BY <1>1, <1>3 DEF Pcs, Inside, Outside, Outcomes, DBs
<1>6. r \in Reports /\ r.pc = "done" /\ r.out = out /\ r.cmd = k.cmd
  BY <1>1, <1>5, AdmitFields
<1> HIDE DEF k, r
<1>7. CommandOK(r, fstate[o], db)
  <2>1. WindowOK(r, fstate[o])
    BY <1>4, <1>5, <1>6 DEF WindowOK
  <2>2. Remembers(r, db)
    BY <1>1, <1>3, <1>6 DEF Remembers
  <2>3. Knows(r, db)
    BY <1>5, <1>6, KnowsNothing
  <2> QED  BY <1>6, <2>1, <2>2, <2>3 DEF CommandOK
<1> QED  BY <1>1, <1>2, <1>7, StaySafe

-----------------------------------------------------------------------------
(* Writers, the lock manager, and backends without a client *)

LEMMA WriterStepSafe ==
  ASSUME IInv, NEW w \in Writers, WriterStep(w)  PROVE Keeps
<1>1. UNCHANGED <<db, pending, mlock, op, owner, conn, fstate>>
  BY DEF WriterStep, AcquireSharedWriterFence, SharedCancelled, WriterEnds
<1>2. FenceInv'
  BY WriterFenceKeeps DEF WriterStep, IInv
<1>3. /\ saw' \in [Writers -> DBs \cup {NoCommit}]
      /\ \A x \in shared' : saw'[x] = db
  <2>1. CASE (AcquireSharedWriterFence(w) \/ SharedCancelled(w)) /\ UNCHANGED saw
    BY <2>1 DEF IInv, AcquireSharedWriterFence, SharedCancelled
  <2>2. CASE WriterEnds(w) /\ saw' = [saw EXCEPT ![w] = NoCommit]
    <3>1. shared' = shared \ {w} /\ shared \subseteq Writers
      BY <2>2 DEF IInv, FenceInv, FenceTypes, WriterEnds
    <3> QED  BY <2>2, <3>1 DEF IInv
  <2> QED  BY <2>1, <2>2 DEF WriterStep
<1>4. \A b \in Backends : PendingOK(b)'
  BY <1>1 DEF IInv, PendingOK
<1>5. \A p \in Operators : CommandOK(op[p], fstate[p], db)'
  BY <1>1 DEF IInv
<1>6. GoodDB(db)' /\ Follows(db, db)
  BY <1>1, FollowsSame DEF IInv, GoodDB
<1>7. IInv'
  BY <1>1, <1>2, <1>3, <1>4, <1>5, <1>6 DEF IInv
<1> QED  BY <1>1, <1>6, <1>7 DEF Keeps

LEMMA LockManagerSafe ==
  ASSUME IInv, NEW i \in DOMAIN queue, LockManager(i)  PROVE Keeps
<1>1. UNCHANGED <<db, pending, mlock, op, conn, fstate>> /\ Grant(i) /\ owner = NoBackend
  BY DEF LockManager, Grant, Grantable
<1>2. FenceInv'
  BY <1>1, GrantFence DEF IInv
<1>3. /\ saw' \in [Writers -> DBs \cup {NoCommit}]
      /\ \A x \in shared' : saw'[x] = db
  <2>1. shared \subseteq Writers /\ db \in DBs /\ saw \in [Writers -> DBs \cup {NoCommit}]
    BY DEF IInv, FenceInv, FenceTypes, GoodDB
  <2>2. CASE queue[i] \in Writers
    <3>1. shared' = shared \cup {queue[i]} /\ saw' = [saw EXCEPT ![queue[i]] = db]
      BY <1>1, <2>2 DEF LockManager, Grant
    <3> QED  BY <2>1, <2>2, <3>1 DEF IInv
  <2>3. CASE queue[i] \notin Writers
    <3>1. shared' = shared /\ saw' = saw
      BY <1>1, <2>3 DEF LockManager, Grant
    <3> QED  BY <3>1 DEF IInv
  <2> QED  BY <2>2, <2>3
<1>4. \A b \in Backends : pending[b] = NoCommit
  BY <1>1, FenceAssumption DEF IInv, PendingOK
<1>5. \A b \in Backends : PendingOK(b)'
  BY <1>1, <1>4 DEF PendingOK
<1>6. \A p \in Operators : CommandOK(op[p], fstate[p], db)'
  BY <1>1 DEF IInv
<1>7. GoodDB(db)' /\ Follows(db, db)
  BY <1>1, FollowsSame DEF IInv, GoodDB
<1>8. IInv'
  BY <1>1, <1>2, <1>3, <1>5, <1>6, <1>7 DEF IInv
<1> QED  BY <1>1, <1>7, <1>8 DEF Keeps

LEMMA OrphanEndsSafe ==
  ASSUME IInv, NEW b \in Backends, OrphanEnds(b)  PROVE Keeps
<1>1. /\ UNCHANGED <<op, saw, conn, fstate, shared>> /\ BackendExit(b)
      /\ pending' = [pending EXCEPT ![b] = NoCommit]
      /\ owner' = IF owner = b THEN NoBackend ELSE owner
      /\ mlock' \in Somebody
  BY DEF OrphanEnds, BackendExit, IInv, Somebody
<1>2. FenceInv'
  BY <1>1, ExitFence DEF IInv
<1>3. pending' \in [Backends -> DBs \cup {NoCommit}]
  BY <1>1 DEF IInv
<1>4. CASE db' = db
  <2>1. ASSUME NEW c \in Backends PROVE PendingOK(c)'
    <3>1. pending'[b] = NoCommit /\ (c # b => pending'[c] = pending[c])
      BY <1>1 DEF IInv
    <3>2. CASE c = b
      BY <3>1, <3>2 DEF PendingOK
    <3>3. CASE c # b
      BY <1>1, <1>4, <3>1, <3>3 DEF IInv, PendingOK
    <3> QED  BY <3>2, <3>3
  <2>2. \A p \in Operators : CommandOK(op[p], fstate[p], db)'
    BY <1>1, <1>4 DEF IInv
  <2>3. GoodDB(db)' /\ Follows(db, db)
    BY <1>4, FollowsSame DEF IInv, GoodDB
  <2>4. \A w \in shared' : saw'[w] = db'
    BY <1>1, <1>4 DEF IInv
  <2>5. IInv'
    BY <1>1, <1>2, <1>3, <2>1, <2>2, <2>3, <2>4 DEF IInv
  <2> QED  BY <1>4, <2>3, <2>5 DEF Keeps
<1>5. CASE pending[b] # NoCommit /\ db' = pending[b]
  <2>1. /\ owner = b /\ GoodDB(pending[b]) /\ Follows(db, pending[b])
        /\ \A o \in Operators : conn[o] # b
    BY <1>5 DEF IInv, PendingOK
  <2>2. shared = {}
    BY <2>1, FenceAssumption DEF IInv, FenceInv, ServerOK
  <2>3. \A o \in Operators : fstate[o] # "owned"
    BY <2>1 DEF IInv, FenceInv, HandlesOK
  <2>4. ASSUME NEW o \in Operators PROVE CommandOK(op[o], fstate[o], db)'
    <3>1. CommandOK(op[o], fstate[o], pending[b])
      BY <2>1, <2>3, OutsideOn DEF IInv
    <3> QED  BY <1>1, <1>5, <3>1
  <2>5. ASSUME NEW c \in Backends PROVE PendingOK(c)'
    <3>1. c # b => pending[c] = NoCommit
      BY <2>1 DEF IInv, PendingOK
    <3>2. pending'[c] = NoCommit
      BY <1>1, <3>1 DEF IInv
    <3> QED  BY <3>2 DEF PendingOK
  <2>6. shared' = {} /\ GoodDB(db)' /\ Follows(db, db')
    BY <1>1, <1>5, <2>1, <2>2
  <2>7. IInv'
    BY <1>1, <1>2, <1>3, <2>4, <2>5, <2>6 DEF IInv
  <2> QED  BY <2>6, <2>7 DEF Keeps
<1> QED  BY <1>4, <1>5 DEF OrphanEnds

-----------------------------------------------------------------------------
(* Every step *)

LEMMA InitSafe == Init => IInv
<1> SUFFICES ASSUME Init PROVE IInv
  OBVIOUS
<1> USE DEF Init, FenceInit
<1>1. FenceInv
  <2>1. \A x : ~Waiting(x)
    BY EmptySeq, LenProperties DEF Waiting
  <2>2. FenceTypes
    BY EmptySeq DEF FenceTypes, Handles, Somebody, OwnershipStates
  <2>3. ServerOK
    <3>1. DOMAIN queue = {}
      BY EmptySeq, LenProperties
    <3> QED  BY <2>1, <3>1 DEF ServerOK, Once
  <2>4. HandlesOK
    BY DEF HandlesOK
  <2> QED  BY <2>2, <2>3, <2>4 DEF FenceInv
<1>2. GoodDB(db)
  <2>1. /\ db \in DBs /\ InOrder(db) /\ Complete(db)
        /\ db.found = IF db.meta.row THEN {} ELSE db.bodies
    BY DatabaseAssumption
  <2>2. Adoptable(db) \/ (4 \in db.found /\ db.bodies = db.found /\ ~db.meta.row)
    <3>1. CASE db.meta.row
      BY <2>1, <3>1 DEF Adoptable
    <3>2. CASE ~db.meta.row
      <4>1. 4 \in 1..4 /\ 4 \in 1..5 /\ 4 \in 1..6
        OBVIOUS
      <4> QED  BY <2>1, <3>2, <4>1 DEF Adoptable, InOrder
    <3> QED  BY <3>1, <3>2
  <2> QED  BY <2>1, <2>2 DEF GoodDB, FoundOK
<1>3. \A b \in Backends : PendingOK(b)
  BY DEF PendingOK
<1>4. \A o \in Operators : CommandOK(Idle, "not_attempted", db)
  BY IdleOK
<1>5. \A o \in Operators : CommandOK(op[o], fstate[o], db)
  BY <1>4
<1>6. op \in [Operators -> Reports]
  BY <1>4 DEF CommandOK
<1> QED  BY <1>1, <1>2, <1>3, <1>5, <1>6 DEF IInv, Somebody

LEMMA StepSafe ==
  ASSUME IInv, NEW o \in Operators, Step(o)  PROVE Keeps
<1>1. CASE \E cmd \in Commands : Start(o, cmd)
  BY <1>1, StartSafe
<1>2. CASE OpenWindow(o) \/ EnterWindow(o) \/ WindowRefused(o) \/ Probe(o)
  BY <1>2, OpenWindowSafe, EnterWindowSafe, WindowRefusedSafe, ProbeSafe
<1>3. CASE TakeLock(o) \/ Close(o) \/ CloseLockFails(o) \/ CloseFenceFails(o)
  BY <1>3, TakeLockSafe, CloseSafe, CleanupFailsSafe
<1>4. CASE Return(o) \/ Crash(o)
  BY <1>4, ReturnSafe, CrashSafe
<1>5. CASE PublicGate(o) \/ UpNext(o) \/ UpMark(o) \/ UpBody(o) \/ UpClean(o)
  BY <1>5, PublicGateSafe, UpNextSafe, UpMarkSafe, UpBodySafe, UpCleanSafe
<1>6. CASE DownMark(o) \/ DownBody(o) \/ DownClean(o) \/ DownGuarded(o) \/ Restore(o)
  BY <1>6, DownMarkSafe, DownBodySafe, DownCleanSafe, DownGuardedSafe, RestoreSafe
<1>7. CASE Inspect(o) \/ Marker(o) \/ Body(o) \/ BodyFails(o) \/ Final(o)
  BY <1>7, InspectSafe, MarkerSafe, BodySafe, BodyFailsSafe, FinalSafe
<1>8. CASE Recover(o) \/ Proof(o) \/ ResolveUnknown(o)
  BY <1>8, RecoverSafe, ProofSafe, ProbeSafe
<1>9. CASE B02Mark(o) \/ B02Body(o) \/ B02Final(o)
  BY <1>9, B02MarkSafe, B02BodySafe, B02FinalSafe
<1>10. CASE \/ RunMeasurementPointIdentity(o) \/ RunDashboardCarbon(o) \/ RunBillingV1(o)
            \/ RunMeasurementPointAlerts(o) \/ RunDeviceLifecycle(o)
  <2>1. FollowUp(o)
    BY <1>10 DEF RunMeasurementPointIdentity, RunDashboardCarbon, RunBillingV1,
                 RunMeasurementPointAlerts, RunDeviceLifecycle
  <2> QED  BY <2>1, FollowUpSafe
<1>11. CASE Version(o) \/ Admit(o)
  BY <1>11, VersionSafe, AdmitSafe
<1> QED  BY <1>1, <1>2, <1>3, <1>4, <1>5, <1>6, <1>7, <1>8, <1>9, <1>10, <1>11 DEF Step

LEMMA NextSafe ==
  ASSUME IInv, [Next]_vars  PROVE Keeps
<1>1. CASE Next
  BY <1>1, WriterStepSafe, LockManagerSafe, OrphanEndsSafe, StepSafe DEF Next
<1>2. CASE UNCHANGED vars
  <2>1. UNCHANGED <<queue, shared, owner, alive, conn, pid, fstate, db, pending, mlock, op, saw>>
    BY <1>2 DEF vars, fenceVars
  <2>2. FenceInv'
    <3>1. \A x : Waiting(x)' <=> Waiting(x)
      BY <2>1 DEF Waiting
    <3> QED  BY <2>1, <3>1 DEF IInv, FenceInv, FenceTypes, ServerOK, HandlesOK, Once
  <2>3. \A b \in Backends : PendingOK(b)'
    BY <2>1 DEF IInv, PendingOK
  <2>4. \A o \in Operators : CommandOK(op[o], fstate[o], db)'
    BY <2>1 DEF IInv
  <2>5. GoodDB(db)' /\ Follows(db, db)
    BY <2>1, FollowsSame DEF IInv, GoodDB
  <2>6. IInv'
    BY <2>1, <2>2, <2>3, <2>4, <2>5 DEF IInv
  <2> QED  BY <2>1, <2>5, <2>6 DEF Keeps
<1> QED  BY <1>1, <1>2

-----------------------------------------------------------------------------
(* The theorems *)

\* The invariant the rest follows from, for any writers, operators, backends,
\* commands and bounds.
THEOREM MigrationInvariance == Spec => []IInv
<1>1. IInv /\ [Next]_vars => IInv'
  BY NextSafe DEF Keeps
<1> QED  BY InitSafe, <1>1, PTL DEF Spec

LEMMA FenceFollows == IInv => FenceIsExclusive
<1> SUFFICES ASSUME IInv PROVE FenceIsExclusive
  OBVIOUS
<1>1. TypeOK
  <2>1. FenceTypeOK
    BY DEF IInv, FenceInv, FenceTypes, FenceTypeOK, Handles, Somebody
  <2>2. \A o \in Operators : op[o].out \in Outcomes /\ op[o].v \in -1..7 /\ op[o].next \in 0..13
    <3> SUFFICES ASSUME NEW o \in Operators
                 PROVE  op[o].out \in Outcomes /\ op[o].v \in -1..7 /\ op[o].next \in 0..13
      OBVIOUS
    <3>1. op[o] \in Reports
      BY DEF IInv
    <3> QED  BY <3>1 DEF Reports
  <2>3. \A w \in Writers : saw[w] \in DBs \cup {NoCommit}
    BY DEF IInv
  <2>4. \A b \in Backends : pending[b] \in DBs \cup {NoCommit}
    BY DEF IInv
  <2> QED  BY <2>1, <2>2, <2>3, <2>4 DEF IInv, GoodDB, TypeOK, Somebody
<1>2. CapabilityIsReal
  BY DEF IInv, FenceInv, HandlesOK, ServerOK, CapabilityIsReal
<1>3. ReleasedIsProven
  BY DEF IInv, FenceInv, HandlesOK, ReleasedIsProven
<1>4. WriterSeesOneSchema
  BY DEF IInv, WriterSeesOneSchema
<1> QED  BY <1>1, <1>2, <1>3, <1>4 DEF FenceIsExclusive

\* The writer fence keeps its promise: a handle that says OWNED is backed by
\* the lock on its own session, one that says RELEASED left nothing on the
\* server, and a business transaction sees one schema (writer_fence.go).
THEOREM FenceStaysExclusive == Spec => []FenceIsExclusive
BY MigrationInvariance, FenceFollows, PTL

\* Clean metadata names bodies that are there, and no command takes a body
\* from an admitted server, after any crash, lost commit, guarded refusal or
\* failed cleanup (migrations.go, protected_migration.go, runtime_admission.go),
\* also where Up found a catalog without metadata (migration_gate.go).
THEOREM SchemaStaysWhole == Spec => []SchemaIsWhole
<1>1. IInv => SchemaIsWhole
  BY DEF IInv, GoodDB, SchemaIsWhole, CleanMeansComplete, ServingStaysComplete, CommandOK, Remembers
<1> QED  BY <1>1, MigrationInvariance, PTL

\* A report is true while its fence is held, and once a handle says RELEASED
\* no commit of its session is undecided (resolveUnknown, discardUnknown).
THEOREM ReportsStayTrue == Spec => []ReportsStand
<1>1. IInv => ReportsStand
  <2> SUFFICES ASSUME IInv PROVE ReportsStand
    OBVIOUS
  <2>1. ReportsAreTrue
    <3> SUFFICES ASSUME NEW o \in Operators, op[o].pc = "close"
                 PROVE  /\ op[o].out = "verified" =>
                              State(db) = CASE op[o].cmd = "restore5" -> "CLEAN_V5"
                                            [] op[o].cmd = "b02" -> "CLEAN_B02"
                                            [] OTHER -> "CLEAN_V6"
                        /\ op[o].out = "guarded" =>
                              db.meta = Row(op[o].v, FALSE) /\ op[o].v \in db.bodies
      BY DEF ReportsAreTrue
    <3>1. Knows(op[o], db)
      BY DEF IInv, CommandOK
    <3> QED  BY <3>1 DEF Knows
  <2>2. NoLateCommit
    BY DEF IInv, FenceInv, HandlesOK, FenceTypes, Handles, Somebody, PendingOK, NoLateCommit
  <2> QED  BY <2>1, <2>2 DEF ReportsStand
<1> QED  BY <1>1, MigrationInvariance, PTL

\* No step, and no commit decided after its client is gone, lowers clean
\* metadata of V6 or later or takes a body from such a schema: the generic
\* route never crosses back over the protected boundary.
THEOREM NeverDowngraded == Spec => NoDowngrade
<1> DEFINE Up == db.meta.row /\ ~db.meta.dirty /\ db.meta.version >= 6 =>
                   db'.meta.version >= db.meta.version /\ db.bodies \subseteq db'.bodies
<1>1. IInv /\ [Next]_vars => [Up]_vars
  <2> SUFFICES ASSUME IInv, [Next]_vars, db.meta.row, ~db.meta.dirty, db.meta.version >= 6
               PROVE  db'.meta.version >= db.meta.version /\ db.bodies \subseteq db'.bodies
    OBVIOUS
  <2>1. Follows(db, db')
    BY NextSafe DEF Keeps
  <2>2. db.meta.version \in Int
    BY MetaFields DEF IInv, GoodDB, DBs
  <2>3. 1..db.meta.version \subseteq db.bodies
    BY <2>2 DEF IInv, GoodDB, Complete
  <2>4. 1..6 \subseteq db.bodies
    BY <2>2, <2>3
  <2> QED  BY <2>1, <2>4 DEF Follows
<1> QED  BY <1>1, MigrationInvariance, PTL DEF Spec, NoDowngrade
=============================================================================
