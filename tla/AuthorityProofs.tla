-------------------------- MODULE AuthorityProofs ---------------------------
(***************************************************************************)
(* Proofs about AuthorityLedger, for any authority processes, requests,    *)
(* attempts and consume requests and any bounds, and about the             *)
(* installations of CatalogInstall that spend what it grants; and about    *)
(* the recognizer of ControlCatalog, for any number of edits by hand.      *)
(***************************************************************************)
EXTENDS MCProvider, FiniteSetTheorems, TLAPS

-----------------------------------------------------------------------------
(* The inductive invariant *)

RequestRows == [Requests -> [state : RequestStates, attempt : Attempts \cup {NoAttempt}]]
AuthRow == [state : AuthStates, epoch : 0..MaxEpochs,
            consumer : Consumes \cup {NoConsume}, lapsed : BOOLEAN]
AuthRows == [Requests -> AuthRow]
IntentRows == [Consumes -> [state : IntentStates, r : Requests]]
Ops == [stage : {"claim", "final"}, c : Consumes, r : Requests]

\* Every intent that was presented has the parent its state asks for.
ChildrenFit(a, i) == \A c \in Consumes :
    /\ i[c].state = "PENDING" => a[i[c].r].state = "ISSUED"
    /\ i[c].state = "CLAIMED" => a[i[c].r].state = "CONSUME_PENDING" /\ a[i[c].r].consumer = c
    /\ i[c].state = "CONSUMED" => a[i[c].r].state = "CONSUMED" /\ a[i[c].r].consumer = c
    /\ i[c].state = "UNKNOWN" => a[i[c].r].state = "CONSUME_UNKNOWN" /\ a[i[c].r].consumer = c
    /\ i[c].state = "ABORTED" => a[i[c].r].state \in {"REVOKED", "EXPIRED"}

\* An authorization that was claimed names its intent, which says the same.
ParentsFit(a, i) == \A r \in Requests :
    /\ a[r].state \in {"CONSUME_PENDING", "CONSUMED", "CONSUME_UNKNOWN"} =>
          a[r].consumer \in Consumes /\ i[a[r].consumer].r = r
    /\ a[r].state = "CONSUME_PENDING" => i[a[r].consumer].state = "CLAIMED"
    /\ a[r].state = "CONSUMED" => i[a[r].consumer].state = "CONSUMED"
    /\ a[r].state = "CONSUME_UNKNOWN" => i[a[r].consumer].state = "UNKNOWN"

\* No authorization has two live intents.
OneLive(i) == \A c, d \in Consumes :
    i[c].state \in Live /\ i[d].state \in Live /\ i[c].r = i[d].r => c = d

\* Only a request that was issued has an authorization.
Unminted(q, a) == \A r \in Requests : q[r].state # "ISSUED" => a[r].state = "none"

MintedIn(a, e) == \A r \in Requests :
    a[r].state \in {"ISSUED", "CONSUME_PENDING"} => a[r].epoch = e

\* What the tables hold between two transactions.
RowsOK(q, a, i, e) ==
    /\ q \in RequestRows /\ a \in AuthRows /\ i \in IntentRows
    /\ ChildrenFit(a, i) /\ ParentsFit(a, i) /\ OneLive(i)
    /\ Unminted(q, a) /\ MintedIn(a, e)

\* What a transaction keeps: terminal rows, and the parent of an intent.
Grows(q, a, i, q2, a2, i2) ==
    /\ \A r \in Requests :
        /\ a[r].state \in TerminalAuth =>
              a2[r].state = a[r].state /\ a2[r].consumer = a[r].consumer
        /\ q[r].state \in {"TERMINAL", "CANCELLED"} => q2[r] = q[r]
    /\ \A c \in Consumes :
        /\ i[c].state \in TerminalIntent => i2[c] = i[c]
        /\ i[c].state # "none" => i2[c].state # "none" /\ i2[c].r = i[c].r

\* The processes and the messages are well typed.
OutsideOK ==
    /\ epoch \in 0..MaxEpochs /\ lock \in Processes \cup {NoProcess}
    /\ session \in [Processes -> {"none", "live", "dead"}]
    /\ mine \in [Processes -> 0..MaxEpochs]
    /\ calls \subseteq [kind : {"consume", "resolve"}, role : {"runner", "recovery"},
                        c : Consumes, r : Requests]
    /\ made \in 0..MaxCalls /\ faults \in 0..MaxFaults

\* A Consume between two transactions has presented its intent to that parent.
OpOK(o, i) == \A p \in Processes :
    o[p] = Idle \/ (o[p] \in Ops /\ i[o[p].c].state # "none" /\ i[o[p].c].r = o[p].r)

\* Only a request that was minted has disclosed its secret, and once.
SecretsOK(q, s) ==
    /\ s \in [Requests -> 0..1]
    /\ \A r \in Requests :
        q[r].state \in {"none", "CANCELLED"} => s[r] = 0

\* The report x of a Consume of c under r holds of the authorizations a.
TrueAnswer(x, c, r, a) ==
    /\ x \in Reports
    /\ x.state = "CONSUMED" => a[r].state = "CONSUMED"
    /\ x.state = "CONSUMED" /\ ~x.durable => a[r].consumer = c
    /\ x.state = "ABORTED" => a[r].state \in {"REVOKED", "EXPIRED"}

\* The report x of a Resolve of c under r holds of the intents i.
TrueResolve(x, c, r, i) ==
    /\ x \in Reports
    /\ x.state \in TerminalIntent /\ x # Unknown => i[c].state = x.state /\ i[c].r = r

AnswersOK(w, a) ==
    /\ w \in [Consumes -> [Requests -> Reports]]
    /\ \A c \in Consumes, r \in Requests : TrueAnswer(w[c][r], c, r, a)
ResolvesOK(w, i) ==
    /\ w \in [Consumes -> [Requests -> Reports]]
    /\ \A c \in Consumes, r \in Requests : TrueResolve(w[c][r], c, r, i)

IInv ==
    /\ OutsideOK
    /\ RowsOK(request, auth, intent, epoch)
    /\ op \in [Processes -> Ops \cup {Idle}] /\ OpOK(op, intent)
    /\ SecretsOK(request, secrets)
    /\ AnswersOK(answer, auth) /\ ResolvesOK(resolved, intent)

-----------------------------------------------------------------------------
(* What each transaction leaves in the tables *)

LEMMA GrowsSame ==
  ASSUME NEW q, NEW a, NEW i  PROVE Grows(q, a, i, q, a, i)
BY DEF Grows

\* A request becomes a tombstone, or ends without having minted.
LEMMA RequestEnds ==
  ASSUME NEW q, NEW a, NEW i, NEW e, RowsOK(q, a, i, e), NEW r \in Requests
  PROVE  /\ q[r].state = "none" =>
              LET q2 == [q EXCEPT ![r] = [state |-> "CANCELLED", attempt |-> NoAttempt]]
              IN RowsOK(q2, a, i, e) /\ Grows(q, a, i, q2, a, i)
         /\ q[r].state = "REQUESTED" =>
              LET q2 == [q EXCEPT ![r].state = "TERMINAL"]
              IN RowsOK(q2, a, i, e) /\ Grows(q, a, i, q2, a, i)
BY DEF RowsOK, Grows, RequestRows, RequestStates, Unminted

LEMMA MintedRow ==
  ASSUME NEW k \in AuthRow, NEW e \in 0..MaxEpochs
  PROVE  LET m == [k EXCEPT !.state = "ISSUED", !.epoch = e]
         IN m \in AuthRow /\ m.state = "ISSUED" /\ m.epoch = e
BY DEF AuthRow, AuthStates

\* A new authorization.
LEMMA Mints ==
  ASSUME RowsOK(request, auth, intent, epoch), epoch \in 0..MaxEpochs,
         NEW r \in Requests, NEW t \in Attempts, request[r].state = "none"
  PROVE  LET q2 == [request EXCEPT ![r] = IssueRow(r, t)]
             a2 == [auth EXCEPT ![r] = Mint(r)]
         IN RowsOK(q2, a2, intent, epoch) /\ Grows(request, auth, intent, q2, a2, intent)
<1> DEFINE m == Mint(r)
           q2 == [request EXCEPT ![r] = IssueRow(r, t)]
           a2 == [auth EXCEPT ![r] = m]
<1>1. m \in AuthRow /\ m.state = "ISSUED" /\ m.epoch = epoch
  <2>1. NoAuth \in AuthRow
    BY LedgerAssumption DEF NoAuth, AuthRow, AuthStates
  <2> QED  BY <2>1, MintedRow DEF Mint
<1> HIDE DEF m
<1>2. auth[r].state = "none"
  BY DEF RowsOK, Unminted
<1>3. q2 \in RequestRows /\ a2 \in AuthRows
  BY <1>1 DEF RowsOK, RequestRows, AuthRows, IssueRow, RequestStates
<1>4. \A c \in Consumes : intent[c].r = r => intent[c].state = "none"
  BY <1>2 DEF RowsOK, ChildrenFit, IntentRows, IntentStates
<1>5. ChildrenFit(a2, intent)
  BY <1>1, <1>4 DEF RowsOK, ChildrenFit, AuthRows, AuthRow, IntentRows
<1>6. ParentsFit(a2, intent) /\ Unminted(q2, a2) /\ MintedIn(a2, epoch)
  BY <1>1 DEF RowsOK, ParentsFit, Unminted, MintedIn, AuthRows, AuthRow, RequestRows, IssueRow
<1>7. Grows(request, auth, intent, q2, a2, intent)
  BY <1>2 DEF Grows, RowsOK, AuthRows, AuthRow, RequestRows, TerminalAuth
<1> QED  BY <1>1, <1>3, <1>5, <1>6, <1>7 DEF RowsOK, m

\* One row of a table gets another state.
SetState(rows, x, s) == [rows EXCEPT ![x].state = s]

\* The live intents of r are aborted.
Aborts(i, r) == [c \in Consumes |-> IF c \in LiveIntents(i, r)
                    THEN [i[c] EXCEPT !.state = "ABORTED"] ELSE i[c]]

LEMMA SameIntents ==
  ASSUME NEW i \in IntentRows, NEW j \in IntentRows,
         \A c \in Consumes : i[c].state = j[c].state /\ i[c].r = j[c].r
  PROVE  i = j
BY DEF IntentRows

LEMMA AbortsRows ==
  ASSUME NEW i \in IntentRows, NEW r
  PROVE  /\ Aborts(i, r) \in IntentRows
         /\ \A c \in Consumes :
               /\ Aborts(i, r)[c].r = i[c].r
               /\ Aborts(i, r)[c].state = IF i[c].r = r /\ i[c].state \in Live
                                         THEN "ABORTED" ELSE i[c].state
BY DEF Aborts, IntentRows, IntentStates, LiveIntents

\* An issued authorization ends together with what waits under it.
LEMMA Ends ==
  ASSUME NEW q, NEW a, NEW i, NEW e, RowsOK(q, a, i, e),
         NEW r \in Requests, a[r].state = "ISSUED",
         NEW s \in {"REVOKED", "EXPIRED"}
  PROVE  LET a2 == [a EXCEPT ![r].state = s]
             i2 == Aborts(i, r)
         IN RowsOK(q, a2, i2, e) /\ Grows(q, a, i, q, a2, i2)
<1> DEFINE a2 == [a EXCEPT ![r].state = s]
           i2 == Aborts(i, r)
<1>1. a2 \in AuthRows
  BY DEF RowsOK, AuthRows, AuthRow, AuthStates
<1>2. i2 \in IntentRows
  BY AbortsRows DEF RowsOK
<1>3. ASSUME NEW c \in Consumes
      PROVE  /\ i2[c].r = i[c].r
             /\ i[c].r = r => i[c].state \in {"none", "PENDING"}
             /\ i2[c].state = IF i[c].r = r /\ i[c].state = "PENDING" THEN "ABORTED" ELSE i[c].state
  <2>1. i[c].r = r => i[c].state \in {"none", "PENDING"}
    BY DEF RowsOK, ChildrenFit, IntentRows, IntentStates
  <2> QED  BY <2>1, AbortsRows DEF RowsOK, Live
<1>4. ASSUME NEW x \in Requests
      PROVE  /\ a2[x].state = IF x = r THEN s ELSE a[x].state
             /\ a2[x].consumer = a[x].consumer /\ a2[x].epoch = a[x].epoch
  BY DEF RowsOK, AuthRows, AuthRow
<1>i. i \in IntentRows /\ ChildrenFit(a, i) /\ ParentsFit(a, i) /\ OneLive(i)
      /\ Unminted(q, a) /\ MintedIn(a, e) /\ q \in RequestRows
  BY DEF RowsOK
<1> HIDE DEF a2, i2
<1>5. ChildrenFit(a2, i2)
  BY <1>3, <1>4, <1>i DEF ChildrenFit, IntentRows
<1>6. ParentsFit(a2, i2)
  BY <1>3, <1>4, <1>i DEF ParentsFit
<1>7. OneLive(i2)
  BY <1>3, <1>i DEF OneLive, Live
<1>8. Unminted(q, a2) /\ MintedIn(a2, e)
  BY <1>4, <1>i DEF Unminted, MintedIn
<1>9. ASSUME NEW c \in Consumes, i[c].state \in TerminalIntent PROVE i2[c] = i[c]
  <2>1. c \notin LiveIntents(i, r)
    BY <1>9 DEF LiveIntents, Live, TerminalIntent
  <2> QED  BY <2>1 DEF i2, Aborts
<1>10. Grows(q, a, i, q, a2, i2)
  BY <1>3, <1>4, <1>9 DEF Grows, TerminalAuth
<1> QED  BY <1>1, <1>2, <1>i, <1>5, <1>6, <1>7, <1>8, <1>10 DEF RowsOK, a2, i2

\* The only live intent of an issued authorization is aborted with it.
LEMMA EndsPair ==
  ASSUME NEW q, NEW a, NEW i, NEW e, RowsOK(q, a, i, e),
         NEW c \in Consumes, NEW r \in Requests,
         i[c].state = "PENDING", i[c].r = r, a[r].state = "ISSUED",
         NEW s \in {"REVOKED", "EXPIRED"}
  PROVE  LET a2 == SetState(a, r, s)
             i2 == SetState(i, c, "ABORTED")
         IN /\ RowsOK(q, a2, i2, e) /\ Grows(q, a, i, q, a2, i2)
            /\ a2[r].state = s /\ i2[c].state = "ABORTED" /\ i2[c].r = r
<1> DEFINE i2 == [i EXCEPT ![c].state = "ABORTED"]
           i3 == Aborts(i, r)
<1>1. LiveIntents(i, r) = {c}
  BY DEF RowsOK, OneLive, LiveIntents, Live
<1>2. i2 = i3
  <2>1. i \in IntentRows
    BY DEF RowsOK
  <2>2. /\ i2 \in IntentRows
        /\ \A d \in Consumes : i2[d].r = i[d].r
                 /\ i2[d].state = IF d = c THEN "ABORTED" ELSE i[d].state
    BY <2>1 DEF IntentRows, IntentStates
  <2>3. \A d \in Consumes : i[d].r = r /\ i[d].state \in Live <=> d = c
    BY <1>1 DEF LiveIntents
  <2> HIDE DEF i2
  <2> QED  BY <2>1, <2>2, <2>3, AbortsRows, SameIntents
<1>3. [a EXCEPT ![r].state = s][r].state = s /\ i2[c].state = "ABORTED" /\ i2[c].r = r
  BY DEF RowsOK, AuthRows, AuthRow, IntentRows
<1> HIDE DEF i2
<1>4. /\ RowsOK(q, [a EXCEPT ![r].state = s], i3, e)
      /\ Grows(q, a, i, q, [a EXCEPT ![r].state = s], i3)
  BY Ends
<1> QED  BY <1>2, <1>3, <1>4 DEF i2, SetState

\* An authorization nobody presented ends alone.
LEMMA EndsAlone ==
  ASSUME NEW q, NEW a, NEW i, NEW e, RowsOK(q, a, i, e),
         NEW r \in Requests, a[r].state = "ISSUED", LiveIntents(i, r) = {},
         NEW s \in {"REVOKED", "EXPIRED"}
  PROVE  LET a2 == [a EXCEPT ![r].state = s]
         IN RowsOK(q, a2, i, e) /\ Grows(q, a, i, q, a2, i)
<1> DEFINE i3 == Aborts(i, r)
<1>1. i3 = i
  <2>1. i \in IntentRows
    BY DEF RowsOK
  <2> QED  BY <2>1, AbortsRows, SameIntents DEF LiveIntents
<1>2. /\ RowsOK(q, [a EXCEPT ![r].state = s], i3, e)
      /\ Grows(q, a, i, q, [a EXCEPT ![r].state = s], i3)
  BY Ends
<1> QED  BY <1>1, <1>2

\* A first presentation under an issued parent without live intents.
LEMMA Presents ==
  ASSUME NEW q, NEW a, NEW i, NEW e, RowsOK(q, a, i, e),
         NEW c \in Consumes, NEW r \in Requests,
         i[c].state = "none", a[r].state = "ISSUED", LiveIntents(i, r) = {}
  PROVE  LET i2 == [i EXCEPT ![c] = [state |-> "PENDING", r |-> r]]
         IN /\ RowsOK(q, a, i2, e) /\ Grows(q, a, i, q, a, i2)
            /\ i2[c].state = "PENDING" /\ i2[c].r = r
<1> DEFINE i2 == [i EXCEPT ![c] = [state |-> "PENDING", r |-> r]]
<1>1. i2 \in IntentRows /\ i2[c].state = "PENDING" /\ i2[c].r = r
  BY DEF RowsOK, IntentRows, IntentStates
<1>2. \A d \in Consumes : d # c => i2[d] = i[d]
  BY DEF RowsOK, IntentRows
<1>i. /\ i \in IntentRows /\ ChildrenFit(a, i) /\ ParentsFit(a, i) /\ OneLive(i)
      /\ Unminted(q, a) /\ MintedIn(a, e) /\ q \in RequestRows /\ a \in AuthRows
  BY DEF RowsOK
<1> HIDE DEF i2
<1>3. ChildrenFit(a, i2)
  BY <1>1, <1>2, <1>i DEF ChildrenFit
<1>4. \A x \in Requests : a[x].state \in {"CONSUME_PENDING", "CONSUMED", "CONSUME_UNKNOWN"} =>
          a[x].consumer \in Consumes \ {c}
  BY <1>i DEF ParentsFit
<1>5. ParentsFit(a, i2)
  BY <1>2, <1>4, <1>i DEF ParentsFit
<1>6. \A d \in Consumes : i[d].r = r => i[d].state \notin Live
  BY DEF LiveIntents
<1>7. OneLive(i2)
  BY <1>1, <1>2, <1>6, <1>i DEF OneLive
<1>8. Grows(q, a, i, q, a, i2)
  BY <1>1, <1>2 DEF Grows, TerminalIntent
<1> QED  BY <1>1, <1>i, <1>3, <1>5, <1>7, <1>8 DEF RowsOK, i2

\* The claim binds both rows of an issued pair.
Bind(a, r, c) == [a EXCEPT ![r].state = "CONSUME_PENDING", ![r].consumer = c]

LEMMA Claims ==
  ASSUME NEW q, NEW a, NEW i, NEW e, RowsOK(q, a, i, e),
         NEW c \in Consumes, NEW r \in Requests,
         i[c].state = "PENDING", i[c].r = r, a[r].state = "ISSUED"
  PROVE  LET a2 == Bind(a, r, c)
             i2 == SetState(i, c, "CLAIMED")
         IN /\ RowsOK(q, a2, i2, e) /\ Grows(q, a, i, q, a2, i2)
            /\ i2[c].state = "CLAIMED" /\ i2[c].r = r
<1> DEFINE a2 == [a EXCEPT ![r].state = "CONSUME_PENDING", ![r].consumer = c]
           i2 == [i EXCEPT ![c].state = "CLAIMED"]
<1>1. i2 \in IntentRows /\ i2[c].state = "CLAIMED" /\ i2[c].r = r
  BY DEF RowsOK, IntentRows, IntentStates
<1>2. \A d \in Consumes : d # c => i2[d] = i[d]
  BY DEF RowsOK, IntentRows
<1>3. /\ a2 \in AuthRows /\ a2[r].state = "CONSUME_PENDING" /\ a2[r].consumer = c
      /\ a2[r].epoch = a[r].epoch
  BY DEF RowsOK, AuthRows, AuthRow, AuthStates
<1>4. \A x \in Requests : x # r => a2[x] = a[x]
  BY DEF RowsOK, AuthRows
<1>i. /\ i \in IntentRows /\ ChildrenFit(a, i) /\ ParentsFit(a, i) /\ OneLive(i)
      /\ Unminted(q, a) /\ MintedIn(a, e) /\ q \in RequestRows /\ a \in AuthRows
  BY DEF RowsOK
<1> HIDE DEF a2, i2
<1>5. \A d \in Consumes : d # c /\ i[d].r = r => i[d].state = "none"
  BY <1>i DEF ChildrenFit, OneLive, Live, IntentRows, IntentStates
<1>6. ChildrenFit(a2, i2)
  BY <1>1, <1>2, <1>3, <1>4, <1>5, <1>i DEF ChildrenFit, IntentRows
<1>7. \A x \in Requests : a[x].state \in {"CONSUME_PENDING", "CONSUMED", "CONSUME_UNKNOWN"} =>
          a[x].consumer \in Consumes \ {c}
  BY <1>i DEF ParentsFit
<1>8. ParentsFit(a2, i2)
  BY <1>1, <1>2, <1>3, <1>4, <1>7, <1>i DEF ParentsFit
<1>9. OneLive(i2)
  BY <1>1, <1>2, <1>i DEF OneLive, Live
<1>10. Unminted(q, a2) /\ MintedIn(a2, e)
  BY <1>3, <1>4, <1>i DEF Unminted, MintedIn
<1>11. Grows(q, a, i, q, a2, i2)
  BY <1>1, <1>2, <1>3, <1>4 DEF Grows, TerminalIntent, TerminalAuth
<1> QED  BY <1>1, <1>3, <1>i, <1>6, <1>8, <1>9, <1>10, <1>11 DEF RowsOK, a2, i2, Bind, SetState

\* A claimed pair becomes CONSUMED or UNKNOWN on both sides.
LEMMA Settles ==
  ASSUME NEW q, NEW a, NEW i, NEW e, RowsOK(q, a, i, e),
         NEW c \in Consumes, NEW r \in Requests,
         a[r].state = "CONSUME_PENDING", a[r].consumer = c,
         NEW s \in {"CONSUMED", "CONSUME_UNKNOWN"}, NEW t \in {"CONSUMED", "UNKNOWN"},
         s = "CONSUMED" <=> t = "CONSUMED"
  PROVE  LET a2 == SetState(a, r, s)
             i2 == SetState(i, c, t)
         IN /\ RowsOK(q, a2, i2, e) /\ Grows(q, a, i, q, a2, i2)
            /\ i2[c].state = t /\ i2[c].r = r
            /\ a2[r].state = s /\ a2[r].consumer = c
<1> DEFINE a2 == [a EXCEPT ![r].state = s]
           i2 == [i EXCEPT ![c].state = t]
<1>0. a2 = SetState(a, r, s) /\ i2 = SetState(i, c, t)
  BY DEF SetState
<1>s. \/ s = "CONSUMED" /\ t = "CONSUMED"
      \/ s = "CONSUME_UNKNOWN" /\ t = "UNKNOWN"
  OBVIOUS
<1>i. /\ i \in IntentRows /\ ChildrenFit(a, i) /\ ParentsFit(a, i) /\ OneLive(i)
      /\ Unminted(q, a) /\ MintedIn(a, e) /\ q \in RequestRows /\ a \in AuthRows
  BY DEF RowsOK
<1>c. i[c].state = "CLAIMED" /\ i[c].r = r
  BY <1>i DEF ParentsFit
<1>1. i2 \in IntentRows /\ i2[c].state = t /\ i2[c].r = r
  BY <1>s, <1>c, <1>i DEF IntentRows, IntentStates
<1>2. \A d \in Consumes : d # c => i2[d] = i[d]
  BY <1>i DEF IntentRows
<1>3. /\ a2 \in AuthRows /\ a2[r].state = s /\ a2[r].consumer = c
      /\ a2[r].epoch = a[r].epoch
  BY <1>s, <1>i DEF AuthRows, AuthRow, AuthStates
<1>4. \A x \in Requests : x # r => a2[x] = a[x]
  BY <1>i DEF AuthRows
<1> HIDE DEF a2, i2
<1>5. \A d \in Consumes : d # c /\ i[d].r = r => i[d].state = "none"
  BY <1>c, <1>i DEF ChildrenFit, OneLive, Live, IntentRows, IntentStates
<1>6. ChildrenFit(a2, i2)
  BY <1>s, <1>1, <1>2, <1>3, <1>4, <1>5, <1>i DEF ChildrenFit, IntentRows
<1>7. \A x \in Requests : x # r /\ a[x].state \in {"CONSUME_PENDING", "CONSUMED", "CONSUME_UNKNOWN"} =>
          a[x].consumer \in Consumes \ {c}
  BY <1>c, <1>i DEF ParentsFit
<1>8. ParentsFit(a2, i2)
  BY <1>s, <1>1, <1>2, <1>3, <1>4, <1>7, <1>i DEF ParentsFit
<1>9. OneLive(i2)
  BY <1>s, <1>1, <1>2, <1>i DEF OneLive, Live
<1>10. Unminted(q, a2) /\ MintedIn(a2, e)
  BY <1>s, <1>3, <1>4, <1>i DEF Unminted, MintedIn
<1>11. Grows(q, a, i, q, a2, i2)
  BY <1>s, <1>c, <1>1, <1>2, <1>3, <1>4 DEF Grows, TerminalIntent, TerminalAuth
<1> QED  BY <1>1, <1>3, <1>i, <1>6, <1>8, <1>9, <1>10, <1>11, <1>0 DEF RowsOK

\* A new authority leaves no authorization and no intent of the old one alive.
LEMMA Poisons ==
  ASSUME RowsOK(request, auth, intent, epoch), epoch \in 0..MaxEpochs
  PROVE  LET i2 == PoisonIntents(PoisonAuths)
         IN /\ RowsOK(PoisonRequests, PoisonAuths, i2, epoch + 1)
            /\ Grows(request, auth, intent, PoisonRequests, PoisonAuths, i2)
            /\ \A r \in Requests : request[r].state \in {"none", "CANCELLED"} <=>
                                   PoisonRequests[r].state \in {"none", "CANCELLED"}
<1> DEFINE q2 == PoisonRequests
           a2 == PoisonAuths
           i2 == PoisonIntents(PoisonAuths)
<1>i. /\ request \in RequestRows /\ auth \in AuthRows /\ intent \in IntentRows
      /\ ChildrenFit(auth, intent) /\ ParentsFit(auth, intent) /\ OneLive(intent)
      /\ Unminted(request, auth)
  BY DEF RowsOK
<1>1. ASSUME NEW r \in Requests
      PROVE  /\ q2[r] \in [state : RequestStates, attempt : Attempts \cup {NoAttempt}]
             /\ q2[r].state = IF request[r].state = "REQUESTED" THEN "TERMINAL" ELSE request[r].state
             /\ request[r].state # "REQUESTED" => q2[r] = request[r]
  BY <1>i DEF PoisonRequests, RequestRows, RequestStates
<1>2. ASSUME NEW r \in Requests
      PROVE  /\ a2[r] \in AuthRow
             /\ a2[r].consumer = auth[r].consumer
             /\ a2[r].state = CASE auth[r].state = "ISSUED" -> "REVOKED"
                                [] auth[r].state = "CONSUME_PENDING" -> "CONSUME_UNKNOWN"
                                [] OTHER -> auth[r].state
  <2>1. auth[r] \in AuthRow
    BY <1>i DEF AuthRows
  <2>2. CASE auth[r].state = "ISSUED"
    <3>1. a2[r] = [auth[r] EXCEPT !.state = "REVOKED"]
      BY <2>2 DEF PoisonAuths
    <3> QED  BY <2>1, <2>2, <3>1 DEF AuthRow, AuthStates
  <2>3. CASE auth[r].state = "CONSUME_PENDING"
    <3>1. a2[r] = [auth[r] EXCEPT !.state = "CONSUME_UNKNOWN"]
      BY <2>3 DEF PoisonAuths
    <3> QED  BY <2>1, <2>3, <3>1 DEF AuthRow, AuthStates
  <2>4. CASE auth[r].state \notin {"ISSUED", "CONSUME_PENDING"}
    BY <2>1, <2>4 DEF PoisonAuths
  <2> QED  BY <2>2, <2>3, <2>4
<1>3. a2 \in AuthRows /\ q2 \in RequestRows
  <2>1. a2 = [r \in Requests |-> a2[r]] /\ q2 = [r \in Requests |-> q2[r]]
    BY DEF PoisonAuths, PoisonRequests
  <2> HIDE DEF a2, q2
  <2> QED  BY <1>1, <1>2, <2>1 DEF AuthRows, RequestRows
<1>4. ASSUME NEW c \in Consumes
      PROVE  /\ i2[c] \in [state : IntentStates, r : Requests]
             /\ i2[c].r = intent[c].r
             /\ i2[c].state = CASE intent[c].state = "PENDING" -> "ABORTED"
                                [] intent[c].state = "CLAIMED" -> "UNKNOWN"
                                [] OTHER -> intent[c].state
             /\ intent[c].state \notin Live => i2[c] = intent[c]
  <2>1. intent[c] \in [state : IntentStates, r : Requests]
    BY <1>i DEF IntentRows
  <2>2. CASE intent[c].state = "PENDING"
    <3>1. a2[intent[c].r].state = "REVOKED"
      BY <1>2, <1>i, <2>1, <2>2 DEF ChildrenFit
    <3>2. i2[c] = [intent[c] EXCEPT !.state = "ABORTED"]
      BY <2>2, <3>1 DEF PoisonIntents
    <3> QED  BY <2>1, <2>2, <3>2 DEF IntentStates, Live
  <2>3. CASE intent[c].state = "CLAIMED"
    <3>1. i2[c] = [intent[c] EXCEPT !.state = "UNKNOWN"]
      BY <2>3 DEF PoisonIntents
    <3> QED  BY <2>1, <2>3, <3>1 DEF IntentStates, Live
  <2>4. CASE intent[c].state \notin Live
    <3>1. i2[c] = intent[c]
      BY <2>4 DEF PoisonIntents, Live
    <3> QED  BY <2>1, <2>4, <3>1 DEF Live
  <2> QED  BY <2>2, <2>3, <2>4 DEF Live
<1>5. i2 \in IntentRows
  <2>1. i2 = [c \in Consumes |-> i2[c]]
    BY DEF PoisonIntents
  <2> HIDE DEF i2
  <2> QED  BY <1>4, <2>1 DEF IntentRows
<1> HIDE DEF q2, a2, i2
<1>6. ChildrenFit(a2, i2)
  <2> SUFFICES ASSUME NEW c \in Consumes
               PROVE  /\ i2[c].state = "PENDING" => a2[i2[c].r].state = "ISSUED"
                      /\ i2[c].state = "CLAIMED" =>
                            a2[i2[c].r].state = "CONSUME_PENDING" /\ a2[i2[c].r].consumer = c
                      /\ i2[c].state = "CONSUMED" =>
                            a2[i2[c].r].state = "CONSUMED" /\ a2[i2[c].r].consumer = c
                      /\ i2[c].state = "UNKNOWN" =>
                            a2[i2[c].r].state = "CONSUME_UNKNOWN" /\ a2[i2[c].r].consumer = c
                      /\ i2[c].state = "ABORTED" => a2[i2[c].r].state \in {"REVOKED", "EXPIRED"}
    BY DEF ChildrenFit
  <2>1. intent[c].r \in Requests
    BY <1>i DEF IntentRows
  <2> QED  BY <1>2, <1>4, <1>i, <2>1 DEF ChildrenFit
<1>7. ParentsFit(a2, i2)
  BY <1>2, <1>4, <1>i DEF ParentsFit
<1>8. OneLive(i2) /\ MintedIn(a2, epoch + 1)
  BY <1>2, <1>4 DEF OneLive, MintedIn, Live
<1>9. Unminted(q2, a2)
  BY <1>1, <1>2, <1>i DEF Unminted
<1>10. Grows(request, auth, intent, q2, a2, i2)
  <2>1. \A c \in Consumes : intent[c].state \in TerminalIntent => intent[c].state \notin Live
    BY DEF TerminalIntent, Live
  <2>2. \A c \in Consumes : intent[c].state # "none" => i2[c].state # "none" /\ i2[c].r = intent[c].r
    BY <1>4
  <2> QED  BY <1>1, <1>2, <1>4, <2>1, <2>2 DEF Grows, TerminalAuth
<1>11. \A r \in Requests : request[r].state \in {"none", "CANCELLED"} <=>
                           q2[r].state \in {"none", "CANCELLED"}
  BY <1>1
<1> QED  BY <1>3, <1>5, <1>6, <1>7, <1>8, <1>9, <1>10, <1>11 DEF RowsOK, q2, a2, i2

LEMMA ResolveIssueKeeps ==
  ASSUME RowsOK(request, auth, intent, epoch), NEW r \in Requests
  PROVE  LET n == ResolveIssueRows(r)
         IN /\ RowsOK(n[1], n[2], n[3], epoch)
            /\ Grows(request, auth, intent, n[1], n[2], n[3])
            /\ \A x \in Requests : n[1][x].state \in {"none", "CANCELLED"} =>
                                   request[x].state \in {"none", "CANCELLED"}
<1> DEFINE n == ResolveIssueRows(r)
           q1 == [request EXCEPT ![r] = [state |-> "CANCELLED", attempt |-> NoAttempt]]
           q2 == [request EXCEPT ![r].state = "TERMINAL"]
           a1 == [auth EXCEPT ![r].state = "REVOKED"]
<1>1. CASE request[r].state = "none"
  <2>1. n = <<q1, auth, intent>>
    BY <1>1 DEF ResolveIssueRows, RowsOK, Unminted, TerminalAuth
  <2>2. RowsOK(q1, auth, intent, epoch) /\ Grows(request, auth, intent, q1, auth, intent)
    BY <1>1, RequestEnds
  <2>3. \A x \in Requests : q1[x].state \in {"none", "CANCELLED"} =>
                            request[x].state \in {"none", "CANCELLED"}
    BY <1>1 DEF RowsOK, RequestRows
  <2> HIDE DEF n, q1
  <2> QED  BY <2>1, <2>2, <2>3 DEF n
<1>2. CASE request[r].state = "REQUESTED"
  <2>1. n = <<q2, auth, intent>>
    BY <1>2 DEF ResolveIssueRows, RowsOK, Unminted, TerminalAuth
  <2>2. RowsOK(q2, auth, intent, epoch) /\ Grows(request, auth, intent, q2, auth, intent)
    BY <1>2, RequestEnds
  <2>3. \A x \in Requests : q2[x].state \in {"none", "CANCELLED"} =>
                            request[x].state \in {"none", "CANCELLED"}
    BY <1>2 DEF RowsOK, RequestRows
  <2> HIDE DEF n, q2
  <2> QED  BY <2>1, <2>2, <2>3 DEF n
<1>3. CASE /\ request[r].state \notin {"none", "REQUESTED"}
           /\ auth[r].state = "ISSUED" /\ LiveIntents(intent, r) = {}
  <2>1. n = <<request, a1, intent>>
    BY <1>3 DEF ResolveIssueRows, TerminalAuth
  <2>2. RowsOK(request, a1, intent, epoch) /\ Grows(request, auth, intent, request, a1, intent)
    BY <1>3, EndsAlone
  <2> HIDE DEF n, a1
  <2> QED  BY <2>1, <2>2 DEF n
<1>4. CASE /\ request[r].state \notin {"none", "REQUESTED"}
           /\ ~(auth[r].state = "ISSUED" /\ LiveIntents(intent, r) = {})
  <2>1. auth[r].state \in TerminalAuth => LiveIntents(intent, r) = {}
    BY DEF RowsOK, ChildrenFit, LiveIntents, Live, TerminalAuth
  <2>2. n = <<request, auth, intent>>
    BY <1>4, <2>1 DEF ResolveIssueRows
  <2> HIDE DEF n
  <2> QED  BY <2>2, GrowsSame DEF n
<1> QED  BY <1>1, <1>2, <1>3, <1>4

LEMMA LifecycleKeeps ==
  ASSUME RowsOK(request, auth, intent, epoch), NEW r \in Requests, NEW action
  PROVE  LET n == LifecycleRows(r, action)
         IN /\ RowsOK(request, n[1], n[2], epoch)
            /\ Grows(request, auth, intent, request, n[1], n[2])
<1> DEFINE n == LifecycleRows(r, action)
           s == IF action = "expire" THEN "EXPIRED" ELSE "REVOKED"
           skip == \/ action = "expire" /\ ~auth[r].lapsed
                   \/ \E c \in LiveIntents(intent, r) : intent[c].state = "CLAIMED"
           a2 == [auth EXCEPT ![r].state = s]
<1>a. AbortLive(r) = Aborts(intent, r)
  BY DEF AbortLive, Aborts
<1>1. CASE skip
  <2>1. n = <<auth, intent>>
    BY <1>1 DEF LifecycleRows
  <2> HIDE DEF n
  <2> QED  BY <2>1, GrowsSame DEF n
<1>2. CASE ~skip /\ auth[r].state = "ISSUED"
  <2>1. n = <<a2, Aborts(intent, r)>>
    BY <1>2, <1>a DEF LifecycleRows
  <2>2. s \in {"REVOKED", "EXPIRED"}
    OBVIOUS
  <2> HIDE DEF s
  <2>3. /\ RowsOK(request, a2, Aborts(intent, r), epoch)
        /\ Grows(request, auth, intent, request, a2, Aborts(intent, r))
    BY <1>2, <2>2, Ends
  <2> HIDE DEF n, a2
  <2> QED  BY <2>1, <2>3 DEF n
<1>3. CASE ~skip /\ auth[r].state # "ISSUED"
  <2>1. n = <<auth, Aborts(intent, r)>>
    BY <1>3, <1>a DEF LifecycleRows
  <2>2. LiveIntents(intent, r) = {}
    BY <1>3 DEF RowsOK, ChildrenFit, LiveIntents, Live
  <2>3. Aborts(intent, r) = intent
    BY <2>2, AbortsRows, SameIntents DEF RowsOK, LiveIntents
  <2> HIDE DEF n
  <2> QED  BY <2>1, <2>3, GrowsSame DEF n
<1> QED  BY <1>1, <1>2, <1>3

-----------------------------------------------------------------------------
(* The three transactions of Consume, and Resolve *)

\* The rows a step of Consume leaves are sound, its report is true of them,
\* and when it goes on its intent has been presented.
GoodStep(c, r, n) ==
    /\ RowsOK(request, n.auth, n.intent, epoch)
    /\ Grows(request, auth, intent, request, n.auth, n.intent)
    /\ n.next \in {"done", "claim", "final"}
    /\ n.next = "done" => TrueAnswer(n.report, c, r, n.auth)
    /\ n.next # "done" => n.intent[c].state # "none" /\ n.intent[c].r = r

LEMMA StepFields ==
  ASSUME NEW a, NEW i, NEW s, NEW x
  PROVE  LET n == Step(a, i, s, x)
         IN n.auth = a /\ n.intent = i /\ n.report = s /\ n.next = x
BY DEF Step

LEMMA ReportFields ==
  ASSUME NEW s \in IntentStates \cup {"REJECTED", "UNAVAILABLE", "FORBIDDEN"},
         NEW a \in AuthStates, NEW d \in BOOLEAN
  PROVE  LET x == Report(s, a, d)
         IN x \in Reports /\ x.state = s /\ x.auth = a /\ x.durable = d
BY DEF Report, Reports

LEMMA FixedReports ==
  /\ Rejected \in Reports /\ Rejected.state = "REJECTED"
  /\ Unknown \in Reports /\ Unknown.state = "UNKNOWN"
  /\ Unavailable \in Reports /\ Unavailable.state = "UNAVAILABLE"
  /\ Forbidden \in Reports /\ Forbidden.state = "FORBIDDEN"
  /\ NoReport \in Reports /\ NoReport.state = "none"
BY DEF Rejected, Unknown, Unavailable, Forbidden, NoReport, Report, Reports, IntentStates, AuthStates

\* A step that writes nothing and is through.
LEMMA SameStep ==
  ASSUME RowsOK(request, auth, intent, epoch), NEW c, NEW r, NEW x,
         TrueAnswer(x, c, r, auth)
  PROVE  GoodStep(c, r, Step(auth, intent, x, "done"))
<1> DEFINE n == Step(auth, intent, x, "done")
<1>1. n.auth = auth /\ n.intent = intent /\ n.report = x /\ n.next = "done"
  BY StepFields
<1> HIDE DEF n
<1> QED  BY <1>1, GrowsSame DEF GoodStep, n

LEMMA FinalizeGood ==
  ASSUME RowsOK(request, auth, intent, epoch), NEW c \in Consumes, NEW r \in Requests
  PROVE  GoodStep(c, r, FinalizeConsume(c, r))
<1> DEFINE a2 == [auth EXCEPT ![r].state = "CONSUMED"]
           i2 == [intent EXCEPT ![c].state = "CONSUMED"]
           x == Report("CONSUMED", "CONSUMED", FALSE)
           bound == auth[r].state = "CONSUME_PENDING" /\ auth[r].consumer = c
                        /\ intent[c].state = "CLAIMED"
<1>1. CASE bound
  <2>1. FinalizeConsume(c, r) = Step(a2, i2, x, "done")
    BY <1>1 DEF FinalizeConsume
  <2>a. a2 = SetState(auth, r, "CONSUMED") /\ i2 = SetState(intent, c, "CONSUMED")
    BY DEF SetState
  <2> HIDE DEF a2, i2
  <2>2. /\ RowsOK(request, a2, i2, epoch) /\ Grows(request, auth, intent, request, a2, i2)
        /\ a2[r].state = "CONSUMED" /\ a2[r].consumer = c
    BY <1>1, <2>a, Settles
  <2>3. x \in Reports /\ x.state = "CONSUMED" /\ x.durable = FALSE
    BY DEF Report, Reports, IntentStates, AuthStates
  <2> HIDE DEF a2, i2, x
  <2>4. TrueAnswer(x, c, r, a2)
    BY <2>2, <2>3 DEF TrueAnswer
  <2> QED  BY <2>1, <2>2, <2>4, StepFields DEF GoodStep
<1>2. CASE ~bound
  <2>1. FinalizeConsume(c, r) = Step(auth, intent, Unknown, "done")
    BY <1>2 DEF FinalizeConsume
  <2>2. TrueAnswer(Unknown, c, r, auth)
    BY FixedReports DEF TrueAnswer
  <2> QED  BY <2>1, <2>2, SameStep
<1> QED  BY <1>1, <1>2

\* A pending pair is aborted, by the expiry or by a Resolve.
LEMMA AbortGood ==
  ASSUME RowsOK(request, auth, intent, epoch), NEW c \in Consumes, NEW r \in Requests,
         intent[c].state = "PENDING", intent[c].r = r, auth[r].state = "ISSUED",
         NEW s \in {"REVOKED", "EXPIRED"}
  PROVE  LET n == Step([auth EXCEPT ![r].state = s], [intent EXCEPT ![c].state = "ABORTED"],
                       Report("ABORTED", s, FALSE), "done")
         IN /\ GoodStep(c, r, n)
            /\ TrueResolve(n.report, c, r, n.intent)
<1> DEFINE a2 == [auth EXCEPT ![r].state = s]
           i2 == [intent EXCEPT ![c].state = "ABORTED"]
           x == Report("ABORTED", s, FALSE)
<1>1. a2 = SetState(auth, r, s) /\ i2 = SetState(intent, c, "ABORTED")
  BY DEF SetState
<1> HIDE DEF a2, i2
<1>2. /\ RowsOK(request, a2, i2, epoch) /\ Grows(request, auth, intent, request, a2, i2)
      /\ a2[r].state = s /\ i2[c].state = "ABORTED" /\ i2[c].r = r
  BY <1>1, EndsPair
<1>3. x \in Reports /\ x.state = "ABORTED"
  BY DEF Report, Reports, IntentStates, AuthStates
<1> HIDE DEF x
<1>4. TrueAnswer(x, c, r, a2) /\ TrueResolve(x, c, r, i2)
  BY <1>2, <1>3 DEF TrueAnswer, TrueResolve
<1>5. GoodStep(c, r, Step(a2, i2, x, "done"))
  BY <1>2, <1>4, StepFields DEF GoodStep
<1>6. Step(a2, i2, x, "done").report = x /\ Step(a2, i2, x, "done").intent = i2
  BY StepFields
<1> QED  BY <1>4, <1>5, <1>6 DEF a2, i2, x

\* What a child's state says of its parent is a true answer.
LEMMA ChildAnswers ==
  ASSUME RowsOK(request, auth, intent, epoch), NEW c \in Consumes, NEW r \in Requests,
         intent[c].r = r, NEW d \in BOOLEAN
  PROVE  /\ TrueAnswer(Report(intent[c].state, auth[r].state, d), c, r, auth)
         /\ TrueResolve(Report(intent[c].state, auth[r].state, d), c, r, intent)
<1> DEFINE x == Report(intent[c].state, auth[r].state, d)
<1>1. intent[c].state \in IntentStates /\ auth[r].state \in AuthStates
  BY DEF RowsOK, IntentRows, AuthRows, AuthRow
<1>2. x \in Reports /\ x.state = intent[c].state
  BY <1>1, ReportFields
<1> HIDE DEF x
<1>3. TrueAnswer(x, c, r, auth)
  BY <1>2 DEF RowsOK, ChildrenFit, TrueAnswer
<1>4. TrueResolve(x, c, r, intent)
  BY <1>2 DEF TrueResolve
<1> QED  BY <1>3, <1>4 DEF x

LEMMA ClaimGood ==
  ASSUME RowsOK(request, auth, intent, epoch), NEW c \in Consumes, NEW r \in Requests,
         intent[c].r = r
  PROVE  GoodStep(c, r, ClaimConsume(c, r))
<1> DEFINE a2 == [auth EXCEPT ![r].state = "CONSUME_PENDING", ![r].consumer = c]
           i2 == [intent EXCEPT ![c].state = "CLAIMED"]
<1>t. auth[r].lapsed \in BOOLEAN
  BY DEF RowsOK, AuthRows, AuthRow
<1>p. intent[c].state = "PENDING" => auth[r].state = "ISSUED"
  BY DEF RowsOK, ChildrenFit
<1>1. CASE intent[c].state = "PENDING" /\ auth[r].lapsed
  <2>1. ClaimConsume(c, r) = Step([auth EXCEPT ![r].state = "EXPIRED"],
            [intent EXCEPT ![c].state = "ABORTED"], Report("ABORTED", "EXPIRED", FALSE), "done")
    BY <1>1, <1>p DEF ClaimConsume
  <2>2. "EXPIRED" \in {"REVOKED", "EXPIRED"}
    OBVIOUS
  <2> QED  BY <1>1, <1>p, <2>1, <2>2, AbortGood
<1>2. CASE intent[c].state = "PENDING" /\ ~auth[r].lapsed
  <2>1. ClaimConsume(c, r) = Step(a2, i2, NoReport, "final")
    BY <1>2, <1>p DEF ClaimConsume
  <2>2. a2 = Bind(auth, r, c) /\ i2 = SetState(intent, c, "CLAIMED")
    BY DEF Bind, SetState
  <2> HIDE DEF a2, i2
  <2>3. /\ RowsOK(request, a2, i2, epoch) /\ Grows(request, auth, intent, request, a2, i2)
        /\ i2[c].state = "CLAIMED" /\ i2[c].r = r
    BY <1>2, <1>p, <2>2, Claims
  <2> QED  BY <2>1, <2>3, StepFields DEF GoodStep
<1>3. CASE intent[c].state # "PENDING"
  <2>1. ClaimConsume(c, r) =
            Step(auth, intent, Report(intent[c].state, auth[r].state, FALSE), "done")
    BY <1>3 DEF ClaimConsume
  <2> QED  BY <2>1, ChildAnswers, SameStep
<1> QED  BY <1>1, <1>2, <1>3, <1>t

LEMMA ParentAnswers ==
  ASSUME NEW c \in Consumes, NEW r \in Requests,
         auth[r].state \in AuthStates \ {"none", "ISSUED"}
  PROVE  TrueAnswer(OfParent(auth[r].state), c, r, auth)
<1>1. CASE auth[r].state = "CONSUME_PENDING"
  BY <1>1 DEF TrueAnswer, OfParent, Report, Reports, AuthStates, IntentStates
<1>2. CASE auth[r].state = "CONSUMED"
  BY <1>2 DEF TrueAnswer, OfParent, Report, Reports, AuthStates, IntentStates
<1>3. CASE auth[r].state = "CONSUME_UNKNOWN"
  BY <1>3 DEF TrueAnswer, OfParent, Report, Reports, AuthStates, IntentStates
<1>4. CASE auth[r].state \in {"REVOKED", "EXPIRED"}
  BY <1>4 DEF TrueAnswer, OfParent, Report, Reports, AuthStates, IntentStates
<1> QED  BY <1>1, <1>2, <1>3, <1>4 DEF AuthStates

LEMMA BeginFreshGood ==
  ASSUME RowsOK(request, auth, intent, epoch), NEW c \in Consumes, NEW r \in Requests,
         intent[c].state = "none", auth[r].state = "ISSUED"
  PROVE  GoodStep(c, r, BeginFresh(c, r))
<1> DEFINE a2 == [auth EXCEPT ![r].state = "EXPIRED"]
           i2 == [intent EXCEPT ![c] = [state |-> "PENDING", r |-> r]]
           x == Report("ABORTED", "EXPIRED", FALSE)
           y == Report("PENDING", auth[r].state, FALSE)
<1>t. auth[r].lapsed \in BOOLEAN
  BY DEF RowsOK, AuthRows, AuthRow
<1>1. CASE auth[r].lapsed
  <2>1. BeginFresh(c, r) = Step(a2, AbortLive(r), x, "done")
    BY <1>1 DEF BeginFresh
  <2>2. AbortLive(r) = Aborts(intent, r)
    BY DEF AbortLive, Aborts
  <2>3. "EXPIRED" \in {"REVOKED", "EXPIRED"}
    OBVIOUS
  <2>4. /\ RowsOK(request, a2, Aborts(intent, r), epoch)
        /\ Grows(request, auth, intent, request, a2, Aborts(intent, r))
    BY <2>3, Ends
  <2>5. a2[r].state = "EXPIRED"
    BY DEF RowsOK, AuthRows, AuthRow
  <2>6. x \in Reports /\ x.state = "ABORTED"
    BY DEF Report, Reports, IntentStates, AuthStates
  <2> HIDE DEF a2, x
  <2>7. TrueAnswer(x, c, r, a2)
    BY <2>5, <2>6 DEF TrueAnswer
  <2> QED  BY <2>1, <2>2, <2>4, <2>7, StepFields DEF GoodStep
<1>2. CASE ~auth[r].lapsed /\ LiveIntents(intent, r) # {}
  <2>1. BeginFresh(c, r) = Step(auth, intent, y, "done")
    BY <1>2 DEF BeginFresh
  <2>2. y \in Reports /\ y.state = "PENDING"
    BY DEF Report, Reports, IntentStates, AuthStates
  <2> HIDE DEF y
  <2>3. TrueAnswer(y, c, r, auth)
    BY <2>2 DEF TrueAnswer
  <2> QED  BY <2>1, <2>3, SameStep
<1>3. CASE ~auth[r].lapsed /\ LiveIntents(intent, r) = {}
  <2>1. BeginFresh(c, r) = Step(auth, i2, y, "claim")
    BY <1>3 DEF BeginFresh
  <2>2. /\ RowsOK(request, auth, i2, epoch) /\ Grows(request, auth, intent, request, auth, i2)
        /\ i2[c].state = "PENDING" /\ i2[c].r = r
    BY <1>3, Presents
  <2> HIDE DEF i2, y
  <2> QED  BY <2>1, <2>2, StepFields DEF GoodStep
<1> QED  BY <1>1, <1>2, <1>3, <1>t

LEMMA BeginGood ==
  ASSUME RowsOK(request, auth, intent, epoch), NEW c \in Consumes, NEW r \in Requests
  PROVE  GoodStep(c, r, BeginConsume(c, r))
<1> DEFINE i == intent[c]
           a == auth[r]
<1>t. /\ i.state \in IntentStates /\ a.state \in AuthStates
      /\ TrueAnswer(Rejected, c, r, auth)
  BY FixedReports DEF RowsOK, IntentRows, AuthRows, AuthRow, TrueAnswer
<1>1. CASE a.state = "none" \/ (i.state # "none" /\ i.r # r)
  <2>1. BeginConsume(c, r) = Step(auth, intent, Rejected, "done")
    BY <1>1, <1>t DEF BeginConsume, TerminalAuth, TerminalIntent, RowsOK, ChildrenFit
  <2> QED  BY <2>1, <1>t, SameStep
<1>2. CASE a.state # "none" /\ i.state = "PENDING" /\ i.r = r
  <2>1. a.state = "ISSUED"
    BY <1>2 DEF RowsOK, ChildrenFit
  <2>2. BeginConsume(c, r) = Step(auth, intent, Report("PENDING", a.state, TRUE), "claim")
    BY <1>2, <2>1 DEF BeginConsume, TerminalAuth, TerminalIntent
  <2> DEFINE n == BeginConsume(c, r)
           y == Report("PENDING", a.state, TRUE)
  <2>a. n = Step(auth, intent, y, "claim")
    BY <2>2
  <2> HIDE DEF n, y
  <2>3. n.auth = auth /\ n.intent = intent /\ n.next = "claim"
    BY <2>a DEF Step
  <2>4. n.intent[c].state # "none" /\ n.intent[c].r = r
    BY <1>2, <2>3
  <2> QED  BY <2>3, <2>4, GrowsSame DEF GoodStep, n
<1>3. CASE a.state # "none" /\ i.state \in TerminalIntent \cup {"CLAIMED"} /\ i.r = r
  <2>1. i.state = "CLAIMED" => a.state = "CONSUME_PENDING"
    BY <1>3 DEF RowsOK, ChildrenFit
  <2>2. BeginConsume(c, r) = Step(auth, intent, Report(i.state, a.state, TRUE), "done")
    BY <1>3, <2>1 DEF BeginConsume, TerminalAuth, TerminalIntent
  <2>3. TrueAnswer(Report(i.state, a.state, TRUE), c, r, auth)
    BY <1>3, ChildAnswers
  <2> QED  BY <2>2, <2>3, SameStep
<1>4. CASE i.state = "none" /\ a.state \notin {"none", "ISSUED"}
  <2>1. BeginConsume(c, r) = Step(auth, intent, OfParent(a.state), "done")
    BY <1>4 DEF BeginConsume, TerminalAuth, TerminalIntent
  <2> QED  BY <2>1, <1>4, <1>t, ParentAnswers, SameStep
<1>5. CASE i.state = "none" /\ a.state = "ISSUED"
  <2>1. BeginConsume(c, r) = BeginFresh(c, r)
    BY <1>5 DEF BeginConsume, TerminalAuth, TerminalIntent
  <2> QED  BY <2>1, <1>5, BeginFreshGood
<1> QED  BY <1>1, <1>2, <1>3, <1>4, <1>5, <1>t DEF IntentStates, TerminalIntent

\* What a Resolve leaves in the tables and says of them.
GoodResolve(c, r, n) ==
    /\ RowsOK(request, n.auth, n.intent, epoch)
    /\ Grows(request, auth, intent, request, n.auth, n.intent)
    /\ TrueResolve(n.report, c, r, n.intent)

LEMMA SameResolve ==
  ASSUME RowsOK(request, auth, intent, epoch), NEW c, NEW r, NEW x,
         TrueResolve(x, c, r, intent)
  PROVE  GoodResolve(c, r, Step(auth, intent, x, "done"))
<1> DEFINE n == Step(auth, intent, x, "done")
<1>1. n.auth = auth /\ n.intent = intent /\ n.report = x
  BY StepFields
<1> HIDE DEF n
<1> QED  BY <1>1, GrowsSame DEF GoodResolve, n

LEMMA ResolveGood ==
  ASSUME RowsOK(request, auth, intent, epoch), NEW c \in Consumes, NEW r \in Requests
  PROVE  GoodResolve(c, r, ResolveRows(c, r))
<1> DEFINE i == intent[c]
           a == auth[r]
           reason == IF a.lapsed THEN "EXPIRED" ELSE "REVOKED"
           unbound == IF i.state = "PENDING" THEN a.state # "ISSUED" \/ a.consumer # NoConsume
                      ELSE i.state # "ABORTED" /\ a.consumer # c
           out == a.state = "none" \/ i.state = "none" \/ i.r # r \/ unbound
           a2 == [auth EXCEPT ![r].state = "CONSUME_UNKNOWN"]
           i2 == [intent EXCEPT ![c].state = "UNKNOWN"]
           x == Report("UNKNOWN", "CONSUME_UNKNOWN", FALSE)
<1>r. reason \in {"REVOKED", "EXPIRED"}
  OBVIOUS
<1>c. i.state = "CLAIMED" /\ i.r = r => a.state = "CONSUME_PENDING" /\ a.consumer = c
  BY DEF RowsOK, ChildrenFit
<1>1. CASE out
  <2>1. ResolveRows(c, r) = Step(auth, intent, Rejected, "done")
    BY <1>1, <1>c DEF ResolveRows
  <2>2. TrueResolve(Rejected, c, r, intent)
    BY FixedReports DEF TrueResolve, TerminalIntent
  <2> QED  BY <2>1, <2>2, SameResolve
<1>2. CASE ~out /\ i.state = "PENDING"
  <2>1. ResolveRows(c, r) = Step([auth EXCEPT ![r].state = reason],
            [intent EXCEPT ![c].state = "ABORTED"], Report("ABORTED", reason, FALSE), "done")
    BY <1>2 DEF ResolveRows
  <2>2. i.r = r /\ a.state = "ISSUED"
    BY <1>2
  <2> HIDE DEF reason, out, unbound
  <2>3. /\ GoodStep(c, r, ResolveRows(c, r))
        /\ TrueResolve(ResolveRows(c, r).report, c, r, ResolveRows(c, r).intent)
    BY <1>r, <1>2, <2>1, <2>2, AbortGood
  <2> QED  BY <2>3 DEF GoodStep, GoodResolve
<1>3. CASE ~out /\ i.state = "CLAIMED"
  <2>1. ResolveRows(c, r) = Step(a2, i2, x, "done")
    BY <1>3, <1>c DEF ResolveRows
  <2>2. a2 = SetState(auth, r, "CONSUME_UNKNOWN") /\ i2 = SetState(intent, c, "UNKNOWN")
    BY DEF SetState
  <2>3. i.r = r
    BY <1>3
  <2> HIDE DEF a2, i2
  <2>4. /\ RowsOK(request, a2, i2, epoch) /\ Grows(request, auth, intent, request, a2, i2)
        /\ i2[c].state = "UNKNOWN" /\ i2[c].r = r
    BY <1>c, <1>3, <2>2, <2>3, Settles
  <2>5. x \in Reports /\ x.state = "UNKNOWN"
    BY DEF Report, Reports, IntentStates, AuthStates
  <2> HIDE DEF x
  <2>6. TrueResolve(x, c, r, i2)
    BY <2>4, <2>5 DEF TrueResolve
  <2> QED  BY <2>1, <2>4, <2>6, StepFields DEF GoodResolve
<1>4. CASE ~out /\ i.state \notin {"PENDING", "CLAIMED"}
  <2>1. ResolveRows(c, r) = Step(auth, intent, Report(i.state, a.state, FALSE), "done")
    BY <1>4 DEF ResolveRows
  <2>2. TrueResolve(Report(i.state, a.state, FALSE), c, r, intent)
    BY <1>4, ChildAnswers
  <2> QED  BY <2>1, <2>2, SameResolve
<1> QED  BY <1>1, <1>2, <1>3, <1>4

-----------------------------------------------------------------------------
(* One lemma per action *)

StepGrows == Grows(request, auth, intent, request', auth', intent')

\* The rest of the state outlives a transaction.
LEMMA Carry ==
  ASSUME IInv, RowsOK(request', auth', intent', epoch'), StepGrows
  PROVE  /\ OpOK(op, intent')
         /\ AnswersOK(answer, auth')
         /\ ResolvesOK(resolved, intent')
<1>1. OpOK(op, intent')
  <2> SUFFICES ASSUME NEW p \in Processes, op[p] # Idle
               PROVE  op[p] \in Ops /\ intent'[op[p].c].state # "none" /\ intent'[op[p].c].r = op[p].r
    BY DEF OpOK
  <2>1. op[p] \in Ops /\ intent[op[p].c].state # "none" /\ intent[op[p].c].r = op[p].r
    BY DEF IInv, OpOK
  <2>2. op[p].c \in Consumes
    BY <2>1 DEF Ops
  <2> QED  BY <2>1, <2>2 DEF StepGrows, Grows
<1>2. AnswersOK(answer, auth')
  <2> SUFFICES ASSUME NEW c \in Consumes, NEW r \in Requests
               PROVE  TrueAnswer(answer[c][r], c, r, auth')
    BY DEF IInv, AnswersOK
  <2>1. TrueAnswer(answer[c][r], c, r, auth)
    BY DEF IInv, AnswersOK
  <2>2. auth[r].state \in {"CONSUMED", "REVOKED", "EXPIRED"} =>
            auth'[r].state = auth[r].state /\ auth'[r].consumer = auth[r].consumer
    BY DEF StepGrows, Grows, TerminalAuth
  <2> QED  BY <2>1, <2>2 DEF TrueAnswer
<1>3. ResolvesOK(resolved, intent')
  <2> SUFFICES ASSUME NEW c \in Consumes, NEW r \in Requests
               PROVE  TrueResolve(resolved[c][r], c, r, intent')
    BY DEF IInv, ResolvesOK
  <2>1. TrueResolve(resolved[c][r], c, r, intent)
    BY DEF IInv, ResolvesOK
  <2>2. intent[c].state \in TerminalIntent => intent'[c] = intent[c]
    BY DEF StepGrows, Grows
  <2> QED  BY <2>1, <2>2 DEF TrueResolve
<1> QED  BY <1>1, <1>2, <1>3

\* Secrets stay sound while no request that was minted turns back.
LEMMA SecretsCarry ==
  ASSUME IInv, \A r \in Requests : request'[r].state \in {"none", "CANCELLED"} =>
                                   request[r].state \in {"none", "CANCELLED"}
  PROVE  SecretsOK(request', secrets)
BY DEF IInv, SecretsOK

LEMMA FaultType ==
  ASSUME faults \in 0..MaxFaults, Fault  PROVE faults' \in 0..MaxFaults
BY LedgerAssumption DEF Fault

LEMMA EndSessionType ==
  ASSUME OutsideOK, NEW p \in Processes, NEW s \in {"none", "dead"}, EndSession(p, s)
  PROVE  /\ session' \in [Processes -> {"none", "live", "dead"}]
         /\ lock' \in Processes \cup {NoProcess}
BY DEF OutsideOK, EndSession

\* However a transaction ends, its rows are written together or not at all.
LEMMA Outcome ==
  ASSUME IInv, NEW p \in Processes, NEW q, NEW a, NEW i,
         RowsOK(q, a, i, epoch), Grows(request, auth, intent, q, a, i),
         Committed(p, q, a, i) \/ Failed(p, q, a, i), epoch' = epoch
  PROVE  /\ \/ request' = q /\ auth' = a /\ intent' = i
            \/ request' = request /\ auth' = auth /\ intent' = intent
         /\ RowsOK(request', auth', intent', epoch') /\ StepGrows
         /\ session' \in [Processes -> {"none", "live", "dead"}]
         /\ lock' \in Processes \cup {NoProcess} /\ faults' \in 0..MaxFaults
<1>0. OutsideOK /\ RowsOK(request, auth, intent, epoch)
  BY DEF IInv
<1>1. \/ request' = q /\ auth' = a /\ intent' = i
      \/ request' = request /\ auth' = auth /\ intent' = intent
  BY DEF Committed, Failed, Lost, RolledBack, NoSession, tables
<1>2. RowsOK(request', auth', intent', epoch') /\ StepGrows
  BY <1>0, <1>1, GrowsSame DEF StepGrows
<1>3. /\ session' \in [Processes -> {"none", "live", "dead"}]
      /\ lock' \in Processes \cup {NoProcess} /\ faults' \in 0..MaxFaults
  <2>1. CASE Lost(p, q, a, i)
    BY <1>0, <2>1, FaultType, EndSessionType DEF Lost, OutsideOK
  <2>2. CASE ~Lost(p, q, a, i)
    BY <1>0, <2>2, FaultType DEF Committed, Failed, RolledBack, NoSession, OutsideOK
  <2> QED  BY <2>1, <2>2
<1> QED  BY <1>1, <1>2, <1>3

LEMMA AcquireKeeps ==
  ASSUME IInv, NEW p \in Processes, Acquire(p)  PROVE IInv' /\ StepGrows
<1> USE DEF Acquire
<1>0. OutsideOK /\ RowsOK(request, auth, intent, epoch) /\ epoch \in 0..MaxEpochs
  BY DEF IInv, OutsideOK
<1>1. /\ RowsOK(request', auth', intent', epoch') /\ StepGrows
      /\ \A r \in Requests : request'[r].state \in {"none", "CANCELLED"} =>
                             request[r].state \in {"none", "CANCELLED"}
  BY <1>0, Poisons DEF StepGrows
<1>2. OutsideOK'
  <2>1. epoch + 1 \in 0..MaxEpochs
    BY <1>0, LedgerAssumption
  <2>2. faults' \in 0..MaxFaults
    BY <1>0, FaultType DEF OutsideOK
  <2>3. mine' \in [Processes -> 0..MaxEpochs]
    BY <1>0, <2>1 DEF OutsideOK
  <2>4. session' \in [Processes -> {"none", "live", "dead"}] /\ lock' \in Processes \cup {NoProcess}
    BY <1>0 DEF OutsideOK
  <2> QED  BY <1>0, <2>1, <2>2, <2>3, <2>4 DEF OutsideOK
<1>3. OpOK(op, intent') /\ AnswersOK(answer, auth') /\ ResolvesOK(resolved, intent')
  BY <1>1, Carry
<1>4. SecretsOK(request', secrets)
  BY <1>1, SecretsCarry
<1>5. op' = op /\ answer' = answer /\ resolved' = resolved /\ secrets' = secrets
  OBVIOUS
<1> QED  BY <1>1, <1>2, <1>3, <1>4, <1>5 DEF IInv

LEMMA SessionsKeep ==
  ASSUME IInv, NEW p \in Processes, LoseSession(p) \/ Stop(p) \/ Crash(p)
  PROVE  IInv' /\ StepGrows
<1>0. OutsideOK /\ RowsOK(request, auth, intent, epoch)
  BY DEF IInv
<1>1. /\ UNCHANGED <<request, auth, intent, epoch, calls, answer, resolved, secrets, made>>
      /\ op' \in {op, [op EXCEPT ![p] = Idle]}
  BY DEF LoseSession, Stop, Crash, tables
<1>2. StepGrows
  BY <1>1, GrowsSame DEF StepGrows
<1>3. session' \in [Processes -> {"none", "live", "dead"}] /\ lock' \in Processes \cup {NoProcess}
  BY <1>0, EndSessionType DEF LoseSession, Stop, Crash
<1>4. mine' \in [Processes -> 0..MaxEpochs]
  BY <1>0, LedgerAssumption DEF LoseSession, Stop, Crash, OutsideOK
<1>5. faults' \in 0..MaxFaults
  BY <1>0, FaultType DEF LoseSession, Stop, Crash, OutsideOK
<1>6. OutsideOK'
  BY <1>0, <1>1, <1>3, <1>4, <1>5 DEF OutsideOK
<1>7. op' \in [Processes -> Ops \cup {Idle}] /\ OpOK(op', intent)
  BY <1>1 DEF IInv, OpOK
<1> QED  BY <1>1, <1>2, <1>6, <1>7 DEF IInv

\* The calls of a runner are not counted, those of the runbook are.
Counts == Made \/ UNCHANGED made

LEMMA MadeType ==
  ASSUME OutsideOK, Counts  PROVE made' \in 0..MaxCalls
BY LedgerAssumption DEF OutsideOK, Counts, Made

\* A call of the runbook that leaves secrets and requests in step.
LEMMA RunbookCarry ==
  ASSUME IInv, Counts, RowsOK(request', auth', intent', epoch'), StepGrows,
         session' \in [Processes -> {"none", "live", "dead"}],
         lock' \in Processes \cup {NoProcess}, faults' \in 0..MaxFaults,
         UNCHANGED <<epoch, mine, op, calls, answer, resolved>>,
         SecretsOK(request', secrets')
  PROVE  IInv' /\ StepGrows
<1>1. OutsideOK'
  BY MadeType DEF IInv, OutsideOK
<1>2. OpOK(op, intent') /\ AnswersOK(answer, auth') /\ ResolvesOK(resolved, intent')
  BY Carry
<1>3. op \in [Processes -> Ops \cup {Idle}]
  BY DEF IInv
<1> QED  BY <1>1, <1>2, <1>3 DEF IInv

LEMMA IssueKeeps ==
  ASSUME IInv, Counts, NEW p \in Processes, NEW r \in Requests, NEW t \in Attempts, Issue(p, r, t)
  PROVE  IInv' /\ StepGrows
<1>0. /\ OutsideOK /\ RowsOK(request, auth, intent, epoch) /\ epoch \in 0..MaxEpochs
      /\ UNCHANGED <<epoch, mine, op, calls, answer, resolved>>
      /\ SecretsOK(request, secrets)
  BY DEF IInv, OutsideOK, Issue
<1>1. CASE IssueFresh(p, r, t)
  <2> DEFINE q == [request EXCEPT ![r] = IssueRow(r, t)]
             a == [auth EXCEPT ![r] = Mint(r)]
             s == [secrets EXCEPT ![r] = @ + 1]
  <2>1. /\ request[r].state = "none"
        /\ \/ Committed(p, q, a, intent) /\ secrets' = s
           \/ Failed(p, q, a, intent) /\ secrets' = secrets
    BY <1>1 DEF IssueFresh
  <2>2. RowsOK(q, a, intent, epoch) /\ Grows(request, auth, intent, q, a, intent)
    BY <1>0, <2>1, Mints
  <2>3. \A x \in Requests : q[x].state \in {"none", "CANCELLED"} => x # r /\ q[x] = request[x]
    BY <1>0 DEF RowsOK, RequestRows, IssueRow
  <2>4. SecretsOK(q, s) /\ SecretsOK(q, secrets)
    <3>1. secrets[r] = 0
      BY <1>0, <2>1 DEF SecretsOK
    <3>2. s \in [Requests -> 0..1] /\ \A x \in Requests : x # r => s[x] = secrets[x]
      BY <1>0, <3>1 DEF SecretsOK
    <3> HIDE DEF q, s
    <3> QED  BY <1>0, <2>3, <3>2 DEF SecretsOK
  <2>5. Committed(p, q, a, intent) => request' = q
    BY DEF Committed
  <2> HIDE DEF q, a, s
  <2>6. /\ request' = q \/ request' = request
        /\ RowsOK(request', auth', intent', epoch') /\ StepGrows
        /\ session' \in [Processes -> {"none", "live", "dead"}]
        /\ lock' \in Processes \cup {NoProcess} /\ faults' \in 0..MaxFaults
    BY <1>0, <2>1, <2>2, Outcome
  <2>7. SecretsOK(request', secrets')
    BY <1>0, <2>1, <2>4, <2>5, <2>6
  <2> QED  BY <1>0, <2>6, <2>7, RunbookCarry
<1>2. CASE IssueReplay(p, r, t)
  <2> DEFINE q == IF request[r].state = "REQUESTED"
                  THEN [request EXCEPT ![r].state = "TERMINAL"] ELSE request
  <2>1. Committed(p, q, auth, intent) /\ secrets' = secrets
    BY <1>2 DEF IssueReplay
  <2>2. RowsOK(q, auth, intent, epoch) /\ Grows(request, auth, intent, q, auth, intent)
    BY <1>0, RequestEnds, GrowsSame
  <2>3. \A x \in Requests : q[x].state \in {"none", "CANCELLED"} =>
                            request[x].state \in {"none", "CANCELLED"}
    BY <1>0 DEF RowsOK, RequestRows
  <2> HIDE DEF q
  <2>4. /\ RowsOK(request', auth', intent', epoch') /\ StepGrows
        /\ session' \in [Processes -> {"none", "live", "dead"}]
        /\ lock' \in Processes \cup {NoProcess} /\ faults' \in 0..MaxFaults
    BY <1>0, <2>1, <2>2, Outcome
  <2>5. request' = q
    BY <2>1 DEF Committed
  <2>6. SecretsOK(request', secrets')
    BY <2>1, <2>3, <2>5, SecretsCarry
  <2> QED  BY <1>0, <2>4, <2>6, RunbookCarry
<1> QED  BY <1>1, <1>2 DEF Issue

LEMMA ResolveIssueSafe ==
  ASSUME IInv, Counts, NEW p \in Processes, NEW r \in Requests, ResolveIssue(p, r)
  PROVE  IInv' /\ StepGrows
<1> DEFINE n == ResolveIssueRows(r)
<1>0. /\ RowsOK(request, auth, intent, epoch)
      /\ UNCHANGED <<epoch, mine, op, calls, answer, resolved, secrets>>
      /\ Committed(p, n[1], n[2], n[3]) \/ Failed(p, n[1], n[2], n[3])
  BY DEF IInv, ResolveIssue
<1>1. /\ RowsOK(n[1], n[2], n[3], epoch)
      /\ Grows(request, auth, intent, n[1], n[2], n[3])
      /\ \A x \in Requests : n[1][x].state \in {"none", "CANCELLED"} =>
                             request[x].state \in {"none", "CANCELLED"}
  BY <1>0, ResolveIssueKeeps
<1> HIDE DEF n
<1>2. /\ request' = n[1] \/ request' = request
      /\ RowsOK(request', auth', intent', epoch') /\ StepGrows
      /\ session' \in [Processes -> {"none", "live", "dead"}]
      /\ lock' \in Processes \cup {NoProcess} /\ faults' \in 0..MaxFaults
  BY <1>0, <1>1, Outcome
<1>3. SecretsOK(request', secrets')
  BY <1>0, <1>1, <1>2, SecretsCarry
<1> QED  BY <1>0, <1>2, <1>3, RunbookCarry

LEMMA LifecycleSafe ==
  ASSUME IInv, Counts, NEW p \in Processes, NEW r \in Requests, NEW action, Lifecycle(p, r, action)
  PROVE  IInv' /\ StepGrows
<1> DEFINE n == LifecycleRows(r, action)
<1>0. /\ RowsOK(request, auth, intent, epoch)
      /\ UNCHANGED <<epoch, mine, op, calls, answer, resolved, secrets>>
      /\ Committed(p, request, n[1], n[2]) \/ Failed(p, request, n[1], n[2])
  BY DEF IInv, Lifecycle
<1>1. RowsOK(request, n[1], n[2], epoch) /\ Grows(request, auth, intent, request, n[1], n[2])
  BY <1>0, LifecycleKeeps
<1> HIDE DEF n
<1>2. /\ request' = request
      /\ RowsOK(request', auth', intent', epoch') /\ StepGrows
      /\ session' \in [Processes -> {"none", "live", "dead"}]
      /\ lock' \in Processes \cup {NoProcess} /\ faults' \in 0..MaxFaults
  BY <1>0, <1>1, Outcome
<1>3. SecretsOK(request', secrets')
  BY <1>0, <1>2 DEF IInv
<1> QED  BY <1>0, <1>2, <1>3, RunbookCarry

LEMMA LapseKeeps ==
  ASSUME IInv, NEW r \in Requests, Lapse(r)  PROVE IInv' /\ StepGrows
<1>0. /\ OutsideOK /\ RowsOK(request, auth, intent, epoch)
      /\ auth' = [auth EXCEPT ![r].lapsed = TRUE]
      /\ UNCHANGED <<request, intent, epoch, lock, session, mine, op, calls, answer,
                     resolved, secrets, made, faults>>
  BY DEF IInv, Lapse
<1>1. /\ auth' \in AuthRows
      /\ \A x \in Requests : /\ auth'[x].state = auth[x].state
                             /\ auth'[x].consumer = auth[x].consumer
                             /\ auth'[x].epoch = auth[x].epoch
  BY <1>0 DEF RowsOK, AuthRows, AuthRow
<1>2. RowsOK(request, auth', intent, epoch)
  BY <1>0, <1>1 DEF RowsOK, ChildrenFit, ParentsFit, Unminted, MintedIn, IntentRows
<1>3. StepGrows
  BY <1>0, <1>1 DEF StepGrows, Grows
<1>4. OpOK(op, intent') /\ AnswersOK(answer, auth') /\ ResolvesOK(resolved, intent')
  BY <1>0, <1>2, <1>3, Carry
<1>5. OutsideOK'
  BY <1>0 DEF OutsideOK
<1> QED  BY <1>0, <1>2, <1>3, <1>4, <1>5 DEF IInv

LEMMA AnswerSet ==
  ASSUME NEW w, NEW a, AnswersOK(w, a), NEW c \in Consumes, NEW r \in Requests, NEW x,
         TrueAnswer(x, c, r, a)
  PROVE  AnswersOK([w EXCEPT ![c][r] = x], a)
<1> DEFINE v == [w EXCEPT ![c][r] = x]
<1>1. x \in Reports /\ w \in [Consumes -> [Requests -> Reports]]
  BY DEF TrueAnswer, AnswersOK
<1>2. v \in [Consumes -> [Requests -> Reports]]
  BY <1>1
<1>3. \A d \in Consumes, y \in Requests : v[d][y] = IF d = c /\ y = r THEN x ELSE w[d][y]
  BY <1>1
<1> HIDE DEF v
<1>4. \A d \in Consumes, y \in Requests : TrueAnswer(v[d][y], d, y, a)
  BY <1>3 DEF AnswersOK
<1> QED  BY <1>2, <1>4 DEF AnswersOK, v

LEMMA ResolveSet ==
  ASSUME NEW w, NEW i, ResolvesOK(w, i), NEW c \in Consumes, NEW r \in Requests, NEW x,
         TrueResolve(x, c, r, i)
  PROVE  ResolvesOK([w EXCEPT ![c][r] = x], i)
<1> DEFINE v == [w EXCEPT ![c][r] = x]
<1>1. x \in Reports /\ w \in [Consumes -> [Requests -> Reports]]
  BY DEF TrueResolve, ResolvesOK
<1>2. v \in [Consumes -> [Requests -> Reports]]
  BY <1>1
<1>3. \A d \in Consumes, y \in Requests : v[d][y] = IF d = c /\ y = r THEN x ELSE w[d][y]
  BY <1>1
<1> HIDE DEF v
<1>4. \A d \in Consumes, y \in Requests : TrueResolve(v[d][y], d, y, i)
  BY <1>3 DEF ResolvesOK
<1> QED  BY <1>2, <1>4 DEF ResolvesOK, v

\* A refusal and an unknown outcome claim nothing.
LEMMA EmptyAnswers ==
  ASSUME NEW c, NEW r, NEW a, NEW i
  PROVE  /\ \A x \in {Unknown, Unavailable, Forbidden} : TrueAnswer(x, c, r, a)
         /\ \A x \in {Unknown, Unavailable} : TrueResolve(x, c, r, i)
BY FixedReports DEF TrueAnswer, TrueResolve, TerminalIntent

LEMMA CallType ==
  ASSUME OutsideOK, NEW m \in calls
  PROVE  m.c \in Consumes /\ m.r \in Requests
BY DEF OutsideOK

LEMMA RefusalsKeep ==
  ASSUME IInv, NEW p \in Processes, NEW m \in calls, Refuse(p, m) \/ Forbid(p, m)
  PROVE  IInv' /\ StepGrows
<1>0. /\ OutsideOK /\ RowsOK(request, auth, intent, epoch)
      /\ AnswersOK(answer, auth) /\ ResolvesOK(resolved, intent)
  BY DEF IInv
<1>1. m.c \in Consumes /\ m.r \in Requests
  BY <1>0, CallType
<1>2. /\ UNCHANGED <<request, auth, intent, epoch, lock, session, mine, op, secrets, made, faults>>
      /\ calls' = calls \ {m}
  BY DEF Refuse, Forbid, tables
<1>3. /\ answer' \in {answer, [answer EXCEPT ![m.c][m.r] = Unavailable],
                      [answer EXCEPT ![m.c][m.r] = Forbidden]}
      /\ resolved' \in {resolved, [resolved EXCEPT ![m.c][m.r] = Unavailable]}
  BY DEF Refuse, Forbid
<1>a. /\ TrueAnswer(Unavailable, m.c, m.r, auth) /\ TrueAnswer(Forbidden, m.c, m.r, auth)
      /\ TrueResolve(Unavailable, m.c, m.r, intent)
  BY EmptyAnswers
<1>4. AnswersOK(answer', auth)
  <2>1. AnswersOK([answer EXCEPT ![m.c][m.r] = Unavailable], auth)
    BY <1>0, <1>1, <1>a, AnswerSet
  <2>2. AnswersOK([answer EXCEPT ![m.c][m.r] = Forbidden], auth)
    BY <1>0, <1>1, <1>a, AnswerSet
  <2> QED  BY <1>0, <1>3, <2>1, <2>2
<1>5. ResolvesOK(resolved', intent)
  <2>1. ResolvesOK([resolved EXCEPT ![m.c][m.r] = Unavailable], intent)
    BY <1>0, <1>1, <1>a, ResolveSet
  <2> QED  BY <1>0, <1>3, <2>1
<1>6. OutsideOK'
  BY <1>0, <1>2 DEF OutsideOK
<1>7. StepGrows
  BY <1>2, GrowsSame DEF StepGrows
<1> QED  BY <1>2, <1>4, <1>5, <1>6, <1>7 DEF IInv

LEMMA RunStepKeeps ==
  ASSUME IInv, NEW p \in Processes, NEW c \in Consumes, NEW r \in Requests, NEW n,
         GoodStep(c, r, n), RunStep(p, c, r, n), calls' \subseteq calls
  PROVE  IInv' /\ StepGrows
<1> DEFINE next == IF n.next = "done" THEN Idle ELSE [stage |-> n.next, c |-> c, r |-> r]
<1>0. OutsideOK /\ op \in [Processes -> Ops \cup {Idle}]
  BY DEF IInv
<1>1. /\ UNCHANGED <<epoch, mine, resolved, secrets, made>>
      /\ \/ /\ Committed(p, request, n.auth, n.intent)
            /\ op' = [op EXCEPT ![p] = next]
            /\ answer' = IF n.next = "done" THEN [answer EXCEPT ![c][r] = n.report] ELSE answer
         \/ /\ Failed(p, request, n.auth, n.intent)
            /\ op' = [op EXCEPT ![p] = Idle]
            /\ answer' = [answer EXCEPT ![c][r] = Unknown]
  BY DEF RunStep
<1>2. /\ RowsOK(request, n.auth, n.intent, epoch)
      /\ Grows(request, auth, intent, request, n.auth, n.intent)
  BY DEF GoodStep
<1>3. /\ request' = request
      /\ RowsOK(request', auth', intent', epoch') /\ StepGrows
      /\ session' \in [Processes -> {"none", "live", "dead"}]
      /\ lock' \in Processes \cup {NoProcess} /\ faults' \in 0..MaxFaults
  BY <1>1, <1>2, Outcome
<1>4. OpOK(op, intent') /\ AnswersOK(answer, auth') /\ ResolvesOK(resolved, intent')
  BY <1>3, Carry
<1>5. OutsideOK'
  BY <1>0, <1>1, <1>3 DEF OutsideOK
<1>6. CASE Committed(p, request, n.auth, n.intent) /\ op' = [op EXCEPT ![p] = next]
            /\ answer' = IF n.next = "done" THEN [answer EXCEPT ![c][r] = n.report] ELSE answer
  <2>1. auth' = n.auth /\ intent' = n.intent
    BY <1>6 DEF Committed
  <2>2. AnswersOK(answer', auth')
    BY <1>4, <1>6, <2>1, AnswerSet DEF GoodStep
  <2>3. next = Idle \/ (next \in Ops /\ next.c = c /\ next.r = r
                         /\ intent'[c].state # "none" /\ intent'[c].r = r)
    BY <2>1 DEF GoodStep, Ops
  <2> HIDE DEF next
  <2>4. op' \in [Processes -> Ops \cup {Idle}]
    BY <1>0, <1>6, <2>3
  <2>5. \A x \in Processes : op'[x] = IF x = p THEN next ELSE op[x]
    BY <1>0, <1>6
  <2>6. OpOK(op', intent')
    BY <1>4, <2>3, <2>5 DEF OpOK
  <2> QED  BY <1>1, <1>3, <1>4, <1>5, <2>2, <2>4, <2>6 DEF IInv
<1>7. CASE op' = [op EXCEPT ![p] = Idle] /\ answer' = [answer EXCEPT ![c][r] = Unknown]
  <2>1. AnswersOK(answer', auth')
    BY <1>4, <1>7, AnswerSet, EmptyAnswers
  <2>2. op' \in [Processes -> Ops \cup {Idle}] /\ OpOK(op', intent')
    BY <1>0, <1>4, <1>7 DEF OpOK
  <2> QED  BY <1>1, <1>3, <1>4, <1>5, <2>1, <2>2 DEF IInv
<1> QED  BY <1>1, <1>6, <1>7

LEMMA ConsumeKeeps ==
  ASSUME IInv, NEW p \in Processes,
         (\E m \in calls : Begin(p, m)) \/ Claim(p) \/ Finalize(p)
  PROVE  IInv' /\ StepGrows
<1>0. OutsideOK /\ RowsOK(request, auth, intent, epoch)
  BY DEF IInv
<1>1. ASSUME NEW m \in calls, Begin(p, m) PROVE IInv' /\ StepGrows
  <2>1. m.c \in Consumes /\ m.r \in Requests
    BY <1>0, CallType
  <2>2. calls' \subseteq calls /\ RunStep(p, m.c, m.r, BeginConsume(m.c, m.r))
    BY <1>1 DEF Begin
  <2> QED  BY <1>0, <2>1, <2>2, BeginGood, RunStepKeeps
<1>2. op[p].stage \in {"claim", "final"} =>
          op[p].c \in Consumes /\ op[p].r \in Requests /\ intent[op[p].c].r = op[p].r
  BY DEF IInv, OpOK, Ops, Idle
<1>3. ASSUME Claim(p) PROVE IInv' /\ StepGrows
  <2>1. /\ op[p].c \in Consumes /\ op[p].r \in Requests /\ intent[op[p].c].r = op[p].r
        /\ calls' \subseteq calls
        /\ RunStep(p, op[p].c, op[p].r, ClaimConsume(op[p].c, op[p].r))
    BY <1>2, <1>3 DEF Claim
  <2> QED  BY <1>0, <2>1, ClaimGood, RunStepKeeps
<1>4. ASSUME Finalize(p) PROVE IInv' /\ StepGrows
  <2>1. /\ op[p].c \in Consumes /\ op[p].r \in Requests /\ calls' \subseteq calls
        /\ RunStep(p, op[p].c, op[p].r, FinalizeConsume(op[p].c, op[p].r))
    BY <1>2, <1>4 DEF Finalize
  <2> QED  BY <1>0, <2>1, FinalizeGood, RunStepKeeps
<1> QED  BY <1>1, <1>3, <1>4

LEMMA ResolveConsumeKeeps ==
  ASSUME IInv, NEW p \in Processes, NEW m \in calls, ResolveConsume(p, m)
  PROVE  IInv' /\ StepGrows
<1>0. OutsideOK /\ RowsOK(request, auth, intent, epoch)
  BY DEF IInv
<1>1. m.c \in Consumes /\ m.r \in Requests
  BY <1>0, CallType
<1>2. PICK c \in {m.c} \cup (IF m.role = "recovery" THEN LiveIntents(intent, m.r) ELSE {}) :
         LET n == ResolveRows(c, m.r) IN
         \/ /\ Committed(p, request, n.auth, n.intent)
            /\ resolved' = [resolved EXCEPT ![c][m.r] = n.report]
         \/ /\ Failed(p, request, n.auth, n.intent)
            /\ resolved' = [resolved EXCEPT ![c][m.r] = Unknown]
  BY DEF ResolveConsume
<1>3. calls' \subseteq calls /\ UNCHANGED <<epoch, mine, op, answer, secrets, made>>
  BY DEF ResolveConsume
<1>4. c \in Consumes
  BY <1>1, <1>2 DEF LiveIntents
<1> DEFINE n == ResolveRows(c, m.r)
<1>5. GoodResolve(c, m.r, n)
  BY <1>0, <1>1, <1>4, ResolveGood
<1>6. \/ /\ Committed(p, request, n.auth, n.intent)
         /\ resolved' = [resolved EXCEPT ![c][m.r] = n.report]
      \/ /\ Failed(p, request, n.auth, n.intent)
         /\ resolved' = [resolved EXCEPT ![c][m.r] = Unknown]
  BY <1>2
<1> HIDE DEF n
<1>7. /\ request' = request
      /\ RowsOK(request', auth', intent', epoch') /\ StepGrows
      /\ session' \in [Processes -> {"none", "live", "dead"}]
      /\ lock' \in Processes \cup {NoProcess} /\ faults' \in 0..MaxFaults
  BY <1>3, <1>5, <1>6, Outcome DEF GoodResolve
<1>8. OpOK(op, intent') /\ AnswersOK(answer, auth') /\ ResolvesOK(resolved, intent')
  BY <1>7, Carry
<1>9. ResolvesOK(resolved', intent')
  <2>1. Committed(p, request, n.auth, n.intent) => intent' = n.intent
    BY DEF Committed
  <2>2. TrueResolve(n.report, c, m.r, n.intent) /\ TrueResolve(Unknown, c, m.r, intent')
    BY <1>5, EmptyAnswers DEF GoodResolve
  <2>3. CASE Committed(p, request, n.auth, n.intent)
             /\ resolved' = [resolved EXCEPT ![c][m.r] = n.report]
    BY <1>1, <1>4, <1>8, <2>1, <2>2, <2>3, ResolveSet
  <2>4. CASE resolved' = [resolved EXCEPT ![c][m.r] = Unknown]
    BY <1>1, <1>4, <1>8, <2>2, <2>4, ResolveSet
  <2> QED  BY <1>6, <2>3, <2>4
<1>10. OutsideOK'
  BY <1>0, <1>3, <1>7 DEF OutsideOK
<1> QED  BY <1>3, <1>7, <1>8, <1>9, <1>10 DEF IInv

LEMMA CallerKeeps ==
  ASSUME IInv, Caller  PROVE IInv' /\ StepGrows
<1>0. OutsideOK
  BY DEF IInv
<1>1. /\ UNCHANGED <<request, auth, intent, epoch, lock, session, mine, op, answer, resolved,
                     secrets, faults>>
      /\ Counts
  BY DEF Caller, tables, Counts
<1>2. calls' \subseteq [kind : {"consume", "resolve"}, role : {"runner", "recovery"},
                        c : Consumes, r : Requests]
  BY <1>0 DEF Caller, Call, OutsideOK
<1>3. OutsideOK'
  BY <1>0, <1>1, <1>2, MadeType DEF OutsideOK
<1>4. StepGrows
  BY <1>1, GrowsSame DEF StepGrows
<1> QED  BY <1>1, <1>3, <1>4 DEF IInv

-----------------------------------------------------------------------------
(* The theorems *)

LEMMA InitSafe == LedgerInit => IInv
<1> SUFFICES ASSUME LedgerInit PROVE IInv
  OBVIOUS
<1> USE DEF LedgerInit
<1>1. OutsideOK
  BY LedgerAssumption DEF OutsideOK
<1>2. RowsOK(request, auth, intent, epoch)
  <2>1. request \in RequestRows
    BY DEF RequestRows, NoRequest, RequestStates
  <2>2. auth \in AuthRows
    BY LedgerAssumption DEF AuthRows, AuthRow, NoAuth, AuthStates
  <2>3. intent \in IntentRows /\ \A c \in Consumes : intent[c].state = "none"
    BY DEF IntentRows, NoIntent, IntentStates
  <2>4. \A r \in Requests : auth[r].state = "none"
    BY DEF NoAuth
  <2> QED  BY <2>1, <2>2, <2>3, <2>4
           DEF RowsOK, ChildrenFit, ParentsFit, OneLive, Unminted, MintedIn, Live
<1>3. op \in [Processes -> Ops \cup {Idle}] /\ OpOK(op, intent)
  BY DEF OpOK
<1>4. SecretsOK(request, secrets)
  BY DEF SecretsOK
<1>5. AnswersOK(answer, auth) /\ ResolvesOK(resolved, intent)
  BY FixedReports DEF AnswersOK, ResolvesOK, TrueAnswer, TrueResolve, TerminalIntent
<1> QED  BY <1>1, <1>2, <1>3, <1>4, <1>5 DEF IInv

LEMMA NextSafe ==
  ASSUME IInv, [LedgerNext]_ledgerVars  PROVE IInv' /\ StepGrows
<1>1. CASE LedgerNext
  <2>1. ASSUME NEW p \in Processes, Runbook(p) PROVE IInv' /\ StepGrows
    <3>1. PICK r \in Requests : \/ \E t \in Attempts : Issue(p, r, t)
                                \/ ResolveIssue(p, r)
                                \/ Lifecycle(p, r, "expire") \/ Lifecycle(p, r, "revoke")
      BY <2>1 DEF Runbook, Expire, Revoke
    <3>2. Counts
      BY <2>1 DEF Runbook, Counts
    <3> QED  BY <3>1, <3>2, IssueKeeps, ResolveIssueSafe, LifecycleSafe
  <2>2. ASSUME NEW p \in Processes, Handle(p) PROVE IInv' /\ StepGrows
    BY <2>2, ConsumeKeeps, ResolveConsumeKeeps, RefusalsKeep DEF Handle
  <2>3. ASSUME NEW p \in Processes, Authorities(p) PROVE IInv' /\ StepGrows
    BY <2>3, AcquireKeeps, SessionsKeep DEF Authorities
  <2>4. ASSUME NEW r \in Requests, Lapse(r) PROVE IInv' /\ StepGrows
    BY <2>4, LapseKeeps
  <2>5. ASSUME Caller PROVE IInv' /\ StepGrows
    BY <2>5, CallerKeeps
  <2> QED  BY <1>1, <2>1, <2>2, <2>3, <2>4, <2>5 DEF LedgerNext
<1>2. CASE UNCHANGED ledgerVars
  <2>1. StepGrows
    BY <1>2, GrowsSame DEF ledgerVars, StepGrows
  <2>2. OutsideOK'
    BY <1>2 DEF IInv, OutsideOK, ledgerVars
  <2> QED  BY <1>2, <2>1, <2>2 DEF IInv, ledgerVars
<1> QED  BY <1>1, <1>2

\* The inductive invariant holds in every state of the authority's ledger.
THEOREM LedgerInvariance == LedgerSpec => []IInv
BY InitSafe, NextSafe, PTL DEF LedgerSpec

LEMMA PairsFollow == IInv => PairsAgree
<1> SUFFICES ASSUME IInv PROVE PairsAgree
  OBVIOUS
<1>1. /\ ChildrenFit(auth, intent) /\ ParentsFit(auth, intent) /\ OneLive(intent)
      /\ auth \in AuthRows
  BY DEF IInv, RowsOK
<1>2. \A r \in Requests : Cardinality(LiveIntents(intent, r)) <= 1
  <2> SUFFICES ASSUME NEW r \in Requests PROVE Cardinality(LiveIntents(intent, r)) <= 1
    OBVIOUS
  <2>1. CASE LiveIntents(intent, r) = {}
    BY <2>1, FS_EmptySet
  <2>2. ASSUME NEW c \in LiveIntents(intent, r) PROVE Cardinality(LiveIntents(intent, r)) <= 1
    <3>1. LiveIntents(intent, r) = {c}
      BY <1>1, <2>2 DEF OneLive, LiveIntents
    <3>2. Cardinality({c}) = 1
      BY FS_Singleton
    <3> QED  BY <3>1, <3>2
  <2> QED  BY <2>1, <2>2
<1>3. \A r \in Requests :
        auth[r].state \in {"CONSUME_PENDING", "CONSUMED", "CONSUME_UNKNOWN"} =>
              /\ auth[r].consumer # NoConsume
              /\ intent[auth[r].consumer].r = r
              /\ intent[auth[r].consumer].state =
                    CASE auth[r].state = "CONSUME_PENDING" -> "CLAIMED"
                      [] auth[r].state = "CONSUMED" -> "CONSUMED"
                      [] OTHER -> "UNKNOWN"
  BY <1>1, LedgerAssumption DEF ParentsFit
<1>4. \A c \in Consumes : LET a == auth[intent[c].r] IN
        /\ intent[c].state = "PENDING" => a.state = "ISSUED"
        /\ intent[c].state = "CLAIMED" => a.state = "CONSUME_PENDING" /\ a.consumer = c
        /\ intent[c].state = "CONSUMED" => a.state = "CONSUMED" /\ a.consumer = c
        /\ intent[c].state = "UNKNOWN" => a.state = "CONSUME_UNKNOWN" /\ a.consumer = c
  BY <1>1 DEF ChildrenFit
<1> QED  BY <1>2, <1>3, <1>4 DEF PairsAgree

LEMMA ConsistencyFollows == IInv => LedgerIsConsistent
<1> SUFFICES ASSUME IInv PROVE LedgerIsConsistent
  OBVIOUS
<1>1. LedgerTypeOK
  <2>1. /\ request \in [Requests -> [state : RequestStates, attempt : Attempts \cup {NoAttempt}]]
        /\ auth \in [Requests -> [state : AuthStates, epoch : 0..MaxEpochs,
                                  consumer : Consumes \cup {NoConsume}, lapsed : BOOLEAN]]
        /\ intent \in [Consumes -> [state : IntentStates, r : Requests]]
    BY DEF IInv, RowsOK, RequestRows, AuthRows, AuthRow, IntentRows
  <2>2. \A p \in Processes : op[p] = Idle \/ op[p] \in
            [stage : {"claim", "final"}, c : Consumes, r : Requests]
    BY DEF IInv, OpOK, Ops
  <2>3. secrets \in [Requests -> 0..MaxCalls]
    BY LedgerAssumption DEF IInv, SecretsOK
  <2>4. answer \in [Consumes -> [Requests -> Reports]] /\ resolved \in [Consumes -> [Requests -> Reports]]
    BY DEF IInv, AnswersOK, ResolvesOK
  <2> QED  BY <2>1, <2>2, <2>3, <2>4 DEF IInv, OutsideOK, LedgerTypeOK
<1>2. LiveIsCurrent /\ SecretOnce
  BY DEF IInv, RowsOK, MintedIn, LiveIsCurrent, SecretsOK, SecretOnce
<1>3. AnswersTrue
  BY DEF IInv, AnswersOK, TrueAnswer, AnswersTrue
<1>4. ResolvesTrue
  <2> SUFFICES ASSUME NEW c \in Consumes, NEW r \in Requests,
                      resolved[c][r].state \in TerminalIntent, resolved[c][r] # Unknown
               PROVE  intent[c] = [state |-> resolved[c][r].state, r |-> r]
    BY DEF ResolvesTrue
  <2>1. intent[c].state = resolved[c][r].state /\ intent[c].r = r
    BY DEF IInv, ResolvesOK, TrueResolve
  <2>2. intent[c] \in [state : IntentStates, r : Requests]
    BY DEF IInv, RowsOK, IntentRows
  <2> QED  BY <2>1, <2>2
<1> QED  BY <1>1, <1>2, <1>3, <1>4, PairsFollow DEF LedgerIsConsistent

\* For any authority processes and callers, with sessions lost, commits lost
\* and processes that crash between the three transactions of a Consume: the
\* two rows of a pair agree, only the current epoch's authorizations are
\* alive, an envelope is handed out once, and what Consume and Resolve
\* answered stays true.
THEOREM LedgerStaysConsistent == LedgerSpec => []LedgerIsConsistent
BY LedgerInvariance, ConsistencyFollows, PTL

\* No handler, retry or new authority reopens or rewrites a terminal row.
THEOREM TerminalRowsStay == LedgerSpec => [][TerminalIsFinal]_ledgerVars
<1>1. IInv /\ [LedgerNext]_ledgerVars => [TerminalIsFinal]_ledgerVars
  BY NextSafe DEF StepGrows, Grows, TerminalIsFinal
<1> QED  BY <1>1, LedgerInvariance, PTL DEF LedgerSpec

-----------------------------------------------------------------------------
(* The runs: the inductive invariant *)

Pcs == {"off", "pin", "recognize", "inspect", "consume", "wait", "guard", "ddl", "commit",
        "prove", "discard", "resolve", "resolving", "fresh", "upgrade", "report", "gone"}
Early == {"off", "pin", "recognize", "inspect", "consume", "wait", "guard", "ddl"}
Up == {"VALID_V1", "VALID_NEXT_LEDGER_READY"}

RunRecord == [pc : Pcs, c : Consumes \cup {NoConsume}, state : InstallStates,
              digest : {"v1", "next"}, error : BOOLEAN,
              mode : {"plain", "ambiguous", "committed"}, base : BOOLEAN]
TxRecord == [at : {"none", "open", "sent"}, to : Up \cup {"none"}]
FrameRecord == [state : InstallStates \cup {"none"}, digest : {"v1", "next", "none"}, error : BOOLEAN]
ControlRecord == [at : {"idle", "issued", "launched", "done"}, delivery : {"none", "DELIVERED", "FAILED"},
                  operation : InstallStates \cup {"UNAVAILABLE"}]

InstallTypes ==
    /\ catalog \in TargetStates /\ fence \in Requests \cup {NoRun} /\ installed \subseteq Requests
    /\ sess \in [Requests -> {"none", "open"}] /\ tx \in [Requests -> TxRecord]
    /\ run \in [Requests -> RunRecord] /\ frame \in [Requests -> FrameRecord]
    /\ ctl \in [Requests -> ControlRecord]

\* The authorization of r was consumed by the call that r made.
Presented(r) == auth[r].state = "CONSUMED" /\ auth[r].consumer = run[r].c

\* Nothing of r is, or can still get, on the target.
OffTarget(r) == run[r].pc \in {"report", "gone"} /\ r \notin installed /\ tx[r].at = "none"

\* A session is open exactly while it has the fence, and no transaction is
\* without one; the one that installs finds a bare target until it ends.
SessionOK(r) ==
    /\ sess[r] = "open" <=> fence = r
    /\ tx[r].at # "none" => fence = r
    /\ tx[r].at = "none" <=> tx[r].to = "none"
    /\ tx[r].at = "open" => run[r].pc = "commit" /\ tx[r].to = "VALID_V1"
    /\ tx[r].at = "sent" => run[r].pc \in {"discard", "report", "gone"}
    /\ tx[r].to = "VALID_V1" => catalog = "V5_BASE" /\ Presented(r)

\* What a runner relies on where it is.
StageOK(r) ==
    /\ run[r].pc \in {"wait", "resolve"} \/ run[r].mode = "ambiguous" => run[r].c \in Consumes
    /\ ctl[r].at \in {"idle", "issued"} => run[r].pc = "off"
    /\ run[r].pc \in {"guard", "ddl"} => Presented(r)
    /\ run[r].pc = "ddl" /\ fence = r => catalog = "V5_BASE"
    /\ run[r].pc = "commit" /\ fence = r => tx[r].at = "open"
    /\ run[r].pc = "prove" => catalog \in Up
    /\ run[r].pc \in Early => r \notin installed
    /\ r \in installed => Presented(r) /\ catalog \in Up

\* What runner, frame and controller say of the target holds.
ClaimOK(r, says) ==
    /\ says = "COMMITTED_READY" => catalog \in Up
    /\ says = "NOT_INSTALLED" => OffTarget(r)
SayingsOK(r) ==
    /\ ClaimOK(r, run[r].state) /\ ClaimOK(r, frame[r].state) /\ ClaimOK(r, ctl[r].operation)
    /\ frame[r].state = "none" => frame[r] = NoFrame /\ ctl[r].operation = "UNAVAILABLE"

RunOK(r) == SessionOK(r) /\ StageOK(r) /\ SayingsOK(r)

InstallInv ==
    /\ IInv /\ InstallTypes
    /\ \A r \in Requests : RunOK(r)
    /\ \A r, q \in installed : r = q

-----------------------------------------------------------------------------
(* Steps of one run leave the others alone *)

\* A step that is not one of q.
Spares(q) ==
    /\ run'[q] = run[q] /\ tx'[q] = tx[q] /\ sess'[q] = sess[q]
    /\ frame'[q] = frame[q] /\ ctl'[q] = ctl[q]
    /\ q \in installed' <=> q \in installed
    /\ fence' = q <=> fence = q
    /\ catalog \in Up => catalog' \in Up
    /\ catalog' = catalog \/ fence # q

LEMMA PresentedStays ==
  ASSUME StepGrows, NEW r \in Requests, Presented(r), run'[r].c = run[r].c
  PROVE  Presented(r)'
<1>1. auth'[r].state = auth[r].state /\ auth'[r].consumer = auth[r].consumer
  BY DEF StepGrows, Grows, Presented, TerminalAuth
<1> QED  BY <1>1 DEF Presented

LEMMA SparedStays ==
  ASSUME StepGrows, NEW q \in Requests, RunOK(q), Spares(q)
  PROVE  RunOK(q)'
<1>1. Presented(q) => Presented(q)'
  BY PresentedStays DEF Spares
<1>2. OffTarget(q) => OffTarget(q)'
  BY DEF Spares, OffTarget
<1>3. SessionOK(q)'
  BY <1>1 DEF RunOK, SessionOK, Spares
<1>4. StageOK(q)'
  BY <1>1 DEF RunOK, StageOK, Spares
<1>5. SayingsOK(q)'
  BY <1>2 DEF RunOK, SayingsOK, ClaimOK, Spares
<1> QED  BY <1>3, <1>4, <1>5 DEF RunOK

\* What is left to show of a step of r.
LEMMA Assembled ==
  ASSUME InstallInv, NEW r \in Requests, IInv' /\ StepGrows, InstallTypes',
         \A q \in Requests \ {r} : Spares(q), RunOK(r)',
         installed' = installed \/ (installed = {} /\ installed' = {r})
  PROVE  InstallInv'
<1>1. \A q \in Requests : RunOK(q)'
  <2> SUFFICES ASSUME NEW q \in Requests, q # r PROVE RunOK(q)'
    OBVIOUS
  <2> QED  BY SparedStays DEF InstallInv
<1>2. \A p, q \in installed' : p = q
  BY DEF InstallInv
<1> QED  BY <1>1, <1>2 DEF InstallInv

\* Steps of a runner use the provider's ledger only to count a fault or to
\* send a call.
LEMMA LedgerSpared ==
  ASSUME IInv, UNCHANGED <<request, auth, intent, epoch, lock, session, mine, op, answer,
                           resolved, secrets>>,
         Counts, faults' = faults \/ Fault,
         calls' \subseteq calls \cup
           [kind : {"consume", "resolve"}, role : {"runner", "recovery"}, c : Consumes, r : Requests]
  PROVE  IInv' /\ StepGrows
<1>1. OutsideOK'
  <2>1. OutsideOK
    BY DEF IInv
  <2>2. made' \in 0..MaxCalls /\ faults' \in 0..MaxFaults
    BY <2>1, MadeType, FaultType DEF OutsideOK
  <2> QED  BY <2>1, <2>2 DEF OutsideOK
<1>2. StepGrows
  BY GrowsSame DEF StepGrows
<1> QED  BY <1>1, <1>2 DEF IInv

\* The record of r changes in these fields and nothing else does.
Moved(r, pc, state, mode) ==
    /\ run' \in [Requests -> RunRecord]
    /\ \A q \in Requests \ {r} : run'[q] = run[q]
    /\ run'[r].pc = pc /\ run'[r].c = run[r].c
    /\ run'[r].state = state /\ run'[r].mode = mode

LEMMA RunMoves ==
  ASSUME InstallTypes, NEW r \in Requests
  PROVE  /\ \A pc \in Pcs : Go(r, pc) => Moved(r, pc, run[r].state, run[r].mode)
         /\ \A mode \in {"plain", "ambiguous", "committed"} :
               Recover(r, mode) => Moved(r, "discard", run[r].state, mode)
         /\ \A state \in InstallStates, error \in BOOLEAN :
               Finish(r, state, error) => Moved(r, "report", state, run[r].mode)
<1>1. run \in [Requests -> RunRecord] /\ run[r] \in RunRecord
  BY DEF InstallTypes
<1>2. ASSUME NEW pc \in Pcs, Go(r, pc) PROVE Moved(r, pc, run[r].state, run[r].mode)
  BY <1>1, <1>2 DEF Go, Moved, RunRecord
<1>3. ASSUME NEW mode \in {"plain", "ambiguous", "committed"}, Recover(r, mode)
      PROVE  Moved(r, "discard", run[r].state, mode)
  <2>1. "discard" \in Pcs /\ (mode = "plain") \in BOOLEAN
    BY DEF Pcs
  <2> QED  BY <1>1, <1>3, <2>1 DEF Recover, Moved, RunRecord
<1>4. ASSUME NEW state \in InstallStates, NEW error \in BOOLEAN, Finish(r, state, error)
      PROVE  Moved(r, "report", state, run[r].mode)
  <2>1. "report" \in Pcs
    BY DEF Pcs
  <2> QED  BY <1>1, <1>4, <2>1 DEF Finish, Moved, RunRecord
<1> QED  BY <1>2, <1>3, <1>4

\* The session of r ends, or stays.
LEMMA GoneFacts ==
  ASSUME InstallInv, NEW r \in Requests, Gone(r)
  PROVE  /\ sess' \in [Requests -> {"none", "open"}] /\ fence' \in Requests \cup {NoRun}
         /\ sess'[r] = "none" /\ fence' # r
         /\ \A q \in Requests \ {r} : sess'[q] = sess[q] /\ (fence' = q <=> fence = q)
BY RunAssumption DEF InstallInv, InstallTypes, Gone

\* Steps that end or keep the session, and write nothing on the target.
Keeps(r) ==
    /\ UNCHANGED <<catalog, installed>>
    /\ Gone(r) \/ UNCHANGED <<sess, fence>>

LEMMA KeepsSpares ==
  ASSUME InstallInv, NEW r \in Requests, Keeps(r),
         \A q \in Requests \ {r} :
            run'[q] = run[q] /\ tx'[q] = tx[q] /\ frame'[q] = frame[q] /\ ctl'[q] = ctl[q]
  PROVE  /\ \A q \in Requests \ {r} : Spares(q)
         /\ sess' \in [Requests -> {"none", "open"}] /\ fence' \in Requests \cup {NoRun}
         /\ sess'[r] = "open" <=> fence' = r
         /\ fence' = r => fence = r
<1>1. /\ sess \in [Requests -> {"none", "open"}] /\ fence \in Requests \cup {NoRun}
      /\ sess[r] = "open" <=> fence = r
  BY DEF InstallInv, InstallTypes, RunOK, SessionOK
<1>2. CASE Gone(r)
  BY <1>2, GoneFacts DEF Spares, Keeps
<1>3. CASE UNCHANGED <<sess, fence>>
  BY <1>1, <1>3 DEF Spares, Keeps
<1> QED  BY <1>2, <1>3 DEF Keeps

\* A runner that has no transaction goes on to a stage that asks nothing of
\* the target beyond what it says.
LEMMA PlainMove ==
  ASSUME InstallInv, NEW r \in Requests, IInv' /\ StepGrows, Keeps(r), UNCHANGED <<tx, frame, ctl>>,
         NEW pc \in Pcs, NEW state \in InstallStates, NEW mode, Moved(r, pc, state, mode),
         pc \in {"wait", "resolve"} \/ mode = "ambiguous" => run[r].c \in Consumes,
         tx[r].at # "open", tx[r].at = "sent" => pc \in {"discard", "report", "gone"} /\ fence' = fence,
         pc \notin {"ddl", "commit", "prove"},
         pc = "guard" => Presented(r), pc \in Early => run[r].pc \in Early,
         state = "COMMITTED_READY" => catalog \in Up,
         state = "NOT_INSTALLED" => pc = "report" /\ r \notin installed /\ tx[r].at = "none",
         run[r].pc \notin {"off", "report", "gone"}
  PROVE  InstallInv'
<1>0. RunOK(r) /\ InstallTypes /\ tx[r].at \in {"none", "open", "sent"}
  BY DEF InstallInv, InstallTypes, TxRecord
<1>1. /\ \A q \in Requests \ {r} : Spares(q)
      /\ sess' \in [Requests -> {"none", "open"}] /\ fence' \in Requests \cup {NoRun}
      /\ sess'[r] = "open" <=> fence' = r
      /\ fence' = r => fence = r
  BY KeepsSpares DEF Moved
<1>2. InstallTypes'
  BY <1>0, <1>1 DEF InstallTypes, Keeps, Moved
<1>3. Presented(r) => Presented(r)'
  BY PresentedStays DEF Moved
<1>4. catalog' = catalog /\ installed' = installed /\ tx' = tx
  BY DEF Keeps
<1>5. SessionOK(r)'
  BY <1>0, <1>1, <1>3, <1>4 DEF RunOK, SessionOK, Moved
<1>6. StageOK(r)'
  BY <1>0, <1>1, <1>3, <1>4 DEF RunOK, StageOK, Moved
<1>7. SayingsOK(r)'
  <2>1. ~OffTarget(r)
    BY DEF OffTarget
  <2>2. ClaimOK(r, state)'
    BY <1>4 DEF ClaimOK, OffTarget, Moved
  <2> QED  BY <1>0, <1>4, <2>1, <2>2 DEF RunOK, SayingsOK, ClaimOK, Moved
<1> QED  BY <1>1, <1>2, <1>4, <1>5, <1>6, <1>7, Assembled DEF RunOK

\* A run in a stage without a transaction has none; before its fence it has
\* none either.
LEMMA NoTransaction ==
  ASSUME InstallInv, NEW r \in Requests
  PROVE  /\ tx[r].at \in {"none", "open", "sent"}
         /\ run[r].pc \notin {"commit", "discard", "report", "gone"} => tx[r].at = "none" /\ tx[r].to = "none"
         /\ run[r].pc # "commit" => tx[r].at # "open"
         /\ ~Usable(r) => tx[r].at = "none" /\ tx[r].to = "none"
         /\ run[r].pc \notin {"report", "gone"} => run[r].state # "NOT_INSTALLED"
         /\ run[r].state = "COMMITTED_READY" => catalog \in Up
         /\ run[r].state \in InstallStates
         /\ tx[r].at = "none" => tx[r] = NoTx
         /\ run[r].pc \in {"wait", "resolve"} \/ run[r].mode = "ambiguous" => run[r].c \in Consumes
<1>1. /\ RunOK(r) /\ tx[r] \in TxRecord /\ run[r] \in RunRecord /\ sess[r] \in {"none", "open"}
  BY DEF InstallInv, InstallTypes
<1>2. tx[r].at \in {"none", "open", "sent"} /\ run[r].state \in InstallStates
  BY <1>1 DEF TxRecord, RunRecord
<1>3. tx[r].at = "none" => tx[r] = NoTx
  BY <1>1 DEF TxRecord, NoTx, RunOK, SessionOK
<1>4. run[r].pc \notin {"report", "gone"} => run[r].state # "NOT_INSTALLED"
  BY <1>1 DEF RunOK, SayingsOK, ClaimOK, OffTarget
<1> QED  BY <1>1, <1>2, <1>3, <1>4 DEF RunOK, SessionOK, StageOK, SayingsOK, ClaimOK, Usable

\* Return with the catalog proved ready, in the two stages that do.
LEMMA ReadyKeeps ==
  ASSUME InstallInv, NEW r \in Requests, IInv' /\ StepGrows, Ready(r), catalog \in Up,
         run[r].pc \in {"recognize", "prove"}, UNCHANGED <<catalog, installed, tx, frame, ctl>>
  PROVE  InstallInv'
<1>0. /\ tx[r].at = "none" /\ InstallTypes
      /\ run[r].mode = "ambiguous" => run[r].c \in Consumes
  BY NoTransaction DEF InstallInv
<1>1. CASE /\ Gone(r)
           /\ run' = [run EXCEPT ![r].pc = "upgrade", ![r].state = "COMMITTED_READY"]
  <2>1. run \in [Requests -> RunRecord] /\ run[r] \in RunRecord
    BY <1>0 DEF InstallTypes
  <2>2. "upgrade" \in Pcs /\ "COMMITTED_READY" \in InstallStates /\ "upgrade" \notin Early
    BY DEF Pcs, InstallStates, Early
  <2>3. Moved(r, "upgrade", "COMMITTED_READY", run[r].mode)
    BY <1>1, <2>1, <2>2 DEF Moved, RunRecord
  <2>4. Keeps(r)
    BY <1>1 DEF Keeps
  <2> QED  BY <1>0, <2>2, <2>3, <2>4, PlainMove
<1>2. CASE Finish(r, "COMMITTED_READY", TRUE) /\ UNCHANGED <<sess, fence>>
  <2>1. "report" \in Pcs /\ "COMMITTED_READY" \in InstallStates /\ "report" \notin Early
    BY DEF Pcs, InstallStates, Early
  <2>2. Moved(r, "report", "COMMITTED_READY", run[r].mode)
    BY <1>0, <1>2, <2>1, RunMoves
  <2>3. Keeps(r)
    BY <1>2 DEF Keeps
  <2> QED  BY <1>0, <2>1, <2>2, <2>3, PlainMove
<1> QED  BY <1>1, <1>2 DEF Ready

\* An error on the way to the transaction or after it: nothing but the runner's
\* record changes.
LEMMA RecoverKeeps ==
  ASSUME InstallInv, NEW r \in Requests, IInv' /\ StepGrows,
         NEW mode \in {"plain", "ambiguous", "committed"}, Recover(r, mode),
         mode = "ambiguous" => run[r].c \in Consumes,
         run[r].pc \notin {"off", "report", "gone"}, tx[r].at # "open",
         UNCHANGED <<catalog, installed, sess, fence, tx, frame, ctl>>
  PROVE  InstallInv'
<1>1. InstallTypes /\ run[r].state \in InstallStates
  BY NoTransaction DEF InstallInv
<1>2. Moved(r, "discard", run[r].state, mode)
  BY <1>1, RunMoves
<1>3. "discard" \in Pcs /\ "discard" \notin Early
  BY DEF Pcs, Early
<1>4. Keeps(r)
  BY DEF Keeps
<1> QED  BY <1>1, <1>2, <1>3, <1>4, NoTransaction, PlainMove

\* A runner that ends in doubt.
LEMMA DoubtKeeps ==
  ASSUME InstallInv, NEW r \in Requests, IInv' /\ StepGrows, Finish(r, "UNKNOWN", TRUE),
         run[r].pc \notin {"off", "report", "gone"}, tx[r].at # "open",
         UNCHANGED <<catalog, installed, sess, fence, tx, frame, ctl>>
  PROVE  InstallInv'
<1>1. InstallTypes /\ (run[r].mode = "ambiguous" => run[r].c \in Consumes)
  BY NoTransaction DEF InstallInv
<1>2. "report" \in Pcs /\ "report" \notin Early /\ "UNKNOWN" \in InstallStates
  BY DEF Pcs, Early, InstallStates
<1>3. Moved(r, "report", "UNKNOWN", run[r].mode)
  BY <1>1, <1>2, RunMoves
<1>4. Keeps(r)
  BY DEF Keeps
<1> QED  BY <1>1, <1>2, <1>3, <1>4, PlainMove

\* A runner goes on without touching the target.
LEMMA GoKeeps ==
  ASSUME InstallInv, NEW r \in Requests, IInv' /\ StepGrows, NEW pc \in Pcs, Go(r, pc),
         run[r].pc \notin {"off", "commit", "discard", "report", "gone"},
         pc \notin {"ddl", "commit", "prove"},
         pc = "guard" => Presented(r), pc \in Early => run[r].pc \in Early,
         pc \in {"wait", "resolve"} => run[r].c \in Consumes,
         UNCHANGED <<catalog, installed, sess, fence, tx, frame, ctl>>
  PROVE  InstallInv'
<1>1. InstallTypes /\ run[r].state \in InstallStates /\ tx[r].at = "none"
  BY NoTransaction DEF InstallInv
<1>2. Moved(r, pc, run[r].state, run[r].mode)
  BY <1>1, RunMoves
<1>3. Keeps(r)
  BY DEF Keeps
<1> QED  BY <1>1, <1>2, <1>3, NoTransaction, PlainMove

-----------------------------------------------------------------------------
(* The runner, one step at a time *)

LEMMA PinKeeps ==
  ASSUME InstallInv, NEW r \in Requests, Pin(r)  PROVE InstallInv'
<1>0. /\ IInv /\ run[r].pc = "pin" /\ InstallTypes /\ RunOK(r)
      /\ UNCHANGED <<catalog, tx, frame, ctl, installed>>
  BY DEF Pin, At, InstallInv
<1>1. IInv' /\ StepGrows
  <2>1. /\ UNCHANGED <<request, auth, intent, epoch, lock, session, mine, op, answer,
                       resolved, secrets>>
        /\ Counts /\ (faults' = faults \/ Fault) /\ calls' = calls
    BY DEF Pin, tables, Counts
  <2> QED  BY <1>0, <2>1, LedgerSpared
<1>2. CASE fence = NoRun /\ fence' = r /\ sess' = [sess EXCEPT ![r] = "open"] /\ Go(r, "recognize")
  <2>1. "recognize" \in Pcs
    BY DEF Pcs
  <2>2. Moved(r, "recognize", run[r].state, run[r].mode)
    BY <1>0, <1>2, <2>1, RunMoves
  <2>3. /\ sess' \in [Requests -> {"none", "open"}] /\ sess'[r] = "open"
        /\ \A q \in Requests \ {r} : sess'[q] = sess[q] /\ fence' # q /\ fence # q
    BY <1>0, <1>2, RunAssumption DEF InstallTypes
  <2>4. \A q \in Requests \ {r} : Spares(q)
    BY <1>0, <2>2, <2>3 DEF Spares, Moved
  <2>5. InstallTypes'
    BY <1>0, <1>2, <2>2, <2>3 DEF InstallTypes, Moved
  <2>6. Presented(r) => Presented(r)'
    BY <1>1, <2>2, PresentedStays DEF Moved
  <2>7. tx[r].at = "none" /\ tx[r].to = "none"
    BY <1>0, NoTransaction
  <2>8. SessionOK(r)'
    BY <1>0, <1>2, <2>3, <2>7 DEF SessionOK
  <2>9. StageOK(r)'
    BY <1>0, <2>2, <2>6 DEF RunOK, StageOK, Moved, Early
  <2>10. SayingsOK(r)'
    <3>1. ~OffTarget(r)
      BY <1>0 DEF OffTarget
    <3> QED  BY <1>0, <2>2, <3>1 DEF RunOK, SayingsOK, ClaimOK, Moved
  <2> QED  BY <1>0, <1>1, <2>4, <2>5, <2>8, <2>9, <2>10, Assembled DEF RunOK
<1>3. CASE Finish(r, "UNKNOWN", TRUE) /\ UNCHANGED <<fence, sess>>
  BY <1>0, <1>1, <1>3, NoTransaction, DoubtKeeps
<1> QED  BY <1>2, <1>3 DEF Pin

LEMMA RecognizeKeeps ==
  ASSUME InstallInv, NEW r \in Requests, RecognizeTarget(r)  PROVE InstallInv'
<1>0. /\ IInv /\ run[r].pc = "recognize" /\ UNCHANGED <<catalog, tx, frame, ctl, installed>>
  BY DEF RecognizeTarget, At, InstallInv
<1>1. IInv' /\ StepGrows
  <2>1. /\ UNCHANGED <<request, auth, intent, epoch, lock, session, mine, op, answer,
                       resolved, secrets>>
        /\ Counts /\ (faults' = faults \/ Fault) /\ calls' = calls
    BY DEF RecognizeTarget, tables, Counts, Ready
  <2> QED  BY <1>0, <2>1, LedgerSpared
<1>2. CASE catalog = "VALID_V1" /\ Ready(r)
  BY <1>0, <1>1, <1>2, ReadyKeeps DEF Up
<1>3. CASE Go(r, "inspect") /\ UNCHANGED <<sess, fence>>
  BY <1>0, <1>1, <1>3, GoKeeps DEF Pcs, Early
<1>4. CASE Recover(r, "plain") /\ UNCHANGED <<sess, fence>>
  BY <1>0, <1>1, <1>4, NoTransaction, RecoverKeeps
<1> QED  BY <1>2, <1>3, <1>4 DEF RecognizeTarget

LEMMA InspectKeeps ==
  ASSUME InstallInv, NEW r \in Requests, Inspect(r)  PROVE InstallInv'
<1>0. /\ IInv /\ run[r].pc = "inspect"
      /\ UNCHANGED <<catalog, installed, sess, fence, tx, frame, ctl>>
      /\ Go(r, "consume") \/ Recover(r, "plain")
  BY DEF Inspect, At, InstallInv, targetVars
<1>1. IInv' /\ StepGrows
  BY <1>0, NextSafe DEF Inspect
<1>2. CASE Go(r, "consume")
  BY <1>0, <1>1, <1>2, GoKeeps DEF Pcs, Early
<1>3. CASE Recover(r, "plain")
  BY <1>0, <1>1, <1>3, NoTransaction, RecoverKeeps
<1> QED  BY <1>0, <1>2, <1>3

LEMMA SendConsumeKeeps ==
  ASSUME InstallInv, NEW r \in Requests, SendConsume(r)  PROVE InstallInv'
<1>0. /\ IInv /\ run[r].pc = "consume" /\ InstallTypes /\ RunOK(r)
      /\ UNCHANGED <<catalog, installed, sess, fence, tx, frame, ctl>>
  BY DEF SendConsume, At, InstallInv, targetVars
<1>1. IInv' /\ StepGrows
  <2>1. /\ UNCHANGED <<request, auth, intent, epoch, lock, session, mine, op, answer,
                       resolved, secrets>>
        /\ Counts /\ (faults' = faults \/ Fault)
    BY DEF SendConsume, tables, Counts
  <2>2. calls' \subseteq calls \cup
           [kind : {"consume", "resolve"}, role : {"runner", "recovery"}, c : Consumes, r : Requests]
    BY DEF SendConsume, Call
  <2> QED  BY <1>0, <2>1, <2>2, LedgerSpared
<1>2. ASSUME NEW c \in Consumes, run' = [run EXCEPT ![r].pc = "wait", ![r].c = c]
      PROVE  InstallInv'
  <2>1. run \in [Requests -> RunRecord] /\ run[r] \in RunRecord /\ "wait" \in Pcs
    BY <1>0 DEF InstallTypes, Pcs
  <2>2. /\ run' \in [Requests -> RunRecord] /\ \A q \in Requests \ {r} : run'[q] = run[q]
        /\ run'[r].pc = "wait" /\ run'[r].state = run[r].state /\ run'[r].c = c
    BY <1>2, <2>1 DEF RunRecord
  <2>3. \A q \in Requests \ {r} : Spares(q)
    BY <1>0, <2>2 DEF Spares
  <2>4. InstallTypes'
    BY <1>0, <2>2 DEF InstallTypes
  <2>5. tx[r].at = "none" /\ tx[r].to = "none" /\ r \notin installed
    BY <1>0, NoTransaction DEF RunOK, StageOK, Early
  <2>6. SessionOK(r)'
    BY <1>0, <2>5 DEF RunOK, SessionOK
  <2>7. StageOK(r)'
    BY <1>0, <2>2, <2>5 DEF RunOK, StageOK
  <2>8. SayingsOK(r)'
    <3>1. ~OffTarget(r)
      BY <1>0 DEF OffTarget
    <3> QED  BY <1>0, <2>2, <3>1 DEF RunOK, SayingsOK, ClaimOK
  <2> QED  BY <1>0, <1>1, <2>3, <2>4, <2>6, <2>7, <2>8, Assembled DEF RunOK
<1>3. CASE Recover(r, "plain")
  BY <1>0, <1>1, <1>3, NoTransaction, RecoverKeeps
<1> QED  BY <1>2, <1>3 DEF SendConsume

\* Only a fresh CONSUMED is taken for a success.
LEMMA SuccessIsFresh ==
  ASSUME NEW y, ClassifyConsume(y) = "success"
  PROVE  y.state = "CONSUMED" /\ ~y.durable
<1>1. ConsumeOutcome(y) = "success"
  BY DEF ClassifyConsume
<1>2. \A s : ResponseError(s) # "success"
  BY DEF ResponseError
<1>3. CASE y.state \notin IntentStates
  <2>1. ~ValidConsume(y)
    BY <1>3 DEF ValidConsume, IntentStates
  <2>2. ConsumeOutcome(y) = ResponseError(y.state)
    BY <1>3, <2>1 DEF ConsumeOutcome
  <2> QED  BY <1>1, <1>2, <2>2
<1>4. CASE y.state \in IntentStates /\ ~ValidConsume(y)
  BY <1>1, <1>4 DEF ConsumeOutcome
<1>5. CASE y.state \in IntentStates /\ ValidConsume(y)
  <2>1. CASE y.state = "CONSUMED"
    BY <1>1, <1>5, <2>1 DEF ConsumeOutcome, Live
  <2>2. CASE y.state # "CONSUMED"
    BY <1>1, <1>5, <2>2 DEF ConsumeOutcome, Live
  <2> QED  BY <2>1, <2>2
<1> QED  BY <1>3, <1>4, <1>5

LEMMA AwaitConsumeKeeps ==
  ASSUME InstallInv, NEW r \in Requests, AwaitConsume(r)  PROVE InstallInv'
<1> DEFINE y == answer[run[r].c][r]
<1>0. /\ IInv /\ run[r].pc = "wait"
      /\ UNCHANGED <<catalog, installed, sess, fence, tx, frame, ctl>>
      /\ \/ ClassifyConsume(y) = "success" /\ Go(r, "guard")
         \/ Recover(r, "plain") \/ Recover(r, "ambiguous")
  BY DEF AwaitConsume, At, InstallInv, targetVars
<1>1. IInv' /\ StepGrows
  BY <1>0, NextSafe DEF AwaitConsume
<1>2. run[r].c \in Consumes
  BY <1>0, NoTransaction
<1>3. CASE ClassifyConsume(y) = "success" /\ Go(r, "guard")
  <2>1. y.state = "CONSUMED" /\ ~y.durable
    BY <1>3, SuccessIsFresh
  <2>2. TrueAnswer(y, run[r].c, r, auth)
    BY <1>0, <1>2 DEF IInv, AnswersOK
  <2> HIDE DEF y
  <2>3. Presented(r)
    BY <2>1, <2>2 DEF TrueAnswer, Presented
  <2> QED  BY <1>0, <1>1, <1>3, <2>3, GoKeeps DEF Pcs, Early
<1>4. CASE Recover(r, "plain") \/ Recover(r, "ambiguous")
  BY <1>0, <1>1, <1>2, <1>4, NoTransaction, RecoverKeeps
<1> QED  BY <1>0, <1>3, <1>4

LEMMA GuardKeeps ==
  ASSUME InstallInv, NEW r \in Requests, Guard(r)  PROVE InstallInv'
<1>0. /\ IInv /\ run[r].pc = "guard" /\ InstallTypes /\ RunOK(r)
      /\ UNCHANGED <<catalog, installed, sess, fence, tx, frame, ctl>>
      /\ (catalog = "V5_BASE" /\ Go(r, "ddl")) \/ Recover(r, "plain")
  BY DEF Guard, At, InstallInv, targetVars
<1>1. IInv' /\ StepGrows
  BY <1>0, NextSafe DEF Guard
<1>2. CASE catalog = "V5_BASE" /\ Go(r, "ddl")
  <2>1. Moved(r, "ddl", run[r].state, run[r].mode)
    BY <1>0, <1>2, RunMoves DEF Pcs
  <2>2. \A q \in Requests \ {r} : Spares(q)
    BY <1>0, <2>1 DEF Spares, Moved
  <2>3. InstallTypes'
    BY <1>0, <2>1 DEF InstallTypes, Moved
  <2>4. Presented(r)'
    BY <1>0, <1>1, <2>1, PresentedStays DEF Moved, RunOK, StageOK
  <2>5. tx[r].at = "none" /\ tx[r].to = "none"
    BY <1>0, NoTransaction
  <2>6. SessionOK(r)'
    BY <1>0, <2>5 DEF RunOK, SessionOK
  <2>7. StageOK(r)'
    BY <1>0, <1>2, <2>1, <2>4 DEF RunOK, StageOK, Moved, Early
  <2>8. SayingsOK(r)'
    <3>1. ~OffTarget(r)
      BY <1>0 DEF OffTarget
    <3> QED  BY <1>0, <2>1, <3>1 DEF RunOK, SayingsOK, ClaimOK, Moved
  <2> QED  BY <1>0, <1>1, <2>2, <2>3, <2>6, <2>7, <2>8, Assembled DEF RunOK
<1>3. CASE Recover(r, "plain")
  BY <1>0, <1>1, <1>3, NoTransaction, RecoverKeeps
<1> QED  BY <1>0, <1>2, <1>3

\* The transaction of r is opened, sent, ended or rolled back.
LEMMA TxFacts ==
  ASSUME InstallTypes, NEW r \in Requests
  PROVE  /\ \A v \in TxRecord : tx' = [tx EXCEPT ![r] = v] =>
                /\ tx' \in [Requests -> TxRecord] /\ tx'[r] = v
                /\ \A q \in Requests \ {r} : tx'[q] = tx[q]
         /\ tx' = [tx EXCEPT ![r].at = "sent"] =>
                /\ tx' \in [Requests -> TxRecord] /\ tx'[r].at = "sent" /\ tx'[r].to = tx[r].to
                /\ \A q \in Requests \ {r} : tx'[q] = tx[q]
         /\ NoTx \in TxRecord /\ NoTx.at = "none" /\ NoTx.to = "none"
         /\ \A s \in {"open", "sent"}, t \in Up :
                [at |-> s, to |-> t] \in TxRecord /\ [at |-> s, to |-> t].at = s /\ [at |-> s, to |-> t].to = t
<1>1. tx \in [Requests -> TxRecord] /\ tx[r] \in TxRecord
  BY DEF InstallTypes
<1>2. tx' = [tx EXCEPT ![r].at = "sent"] =>
                /\ tx' \in [Requests -> TxRecord] /\ tx'[r].at = "sent" /\ tx'[r].to = tx[r].to
                /\ \A q \in Requests \ {r} : tx'[q] = tx[q]
  BY <1>1 DEF TxRecord
<1>3. NoTx \in TxRecord /\ NoTx.at = "none" /\ NoTx.to = "none"
  BY DEF TxRecord, NoTx
<1>4. \A s \in {"open", "sent"}, t \in Up :
          [at |-> s, to |-> t] \in TxRecord /\ [at |-> s, to |-> t].at = s /\ [at |-> s, to |-> t].to = t
  BY DEF TxRecord
<1>5. \A v \in TxRecord : tx' = [tx EXCEPT ![r] = v] =>
          /\ tx' \in [Requests -> TxRecord] /\ tx'[r] = v
          /\ \A q \in Requests \ {r} : tx'[q] = tx[q]
  BY <1>1
<1> QED  BY <1>2, <1>3, <1>4, <1>5

LEMMA DdlKeeps ==
  ASSUME InstallInv, NEW r \in Requests, Ddl(r)  PROVE InstallInv'
<1>0. /\ IInv /\ run[r].pc = "ddl" /\ InstallTypes /\ RunOK(r)
      /\ UNCHANGED <<catalog, installed, sess, fence, frame, ctl>>
  BY DEF Ddl, At, InstallInv
<1>1. IInv' /\ StepGrows
  <2>1. /\ UNCHANGED <<request, auth, intent, epoch, lock, session, mine, op, answer,
                       resolved, secrets>>
        /\ Counts /\ (faults' = faults \/ Fault) /\ calls' = calls
    BY DEF Ddl, tables, Counts
  <2> QED  BY <1>0, <2>1, LedgerSpared
<1>2. CASE Usable(r) /\ Go(r, "commit") /\ tx' = [tx EXCEPT ![r] = [at |-> "open", to |-> "VALID_V1"]]
  <2>1. Moved(r, "commit", run[r].state, run[r].mode)
    BY <1>0, <1>2, RunMoves DEF Pcs
  <2>2. /\ tx' \in [Requests -> TxRecord] /\ tx'[r].at = "open" /\ tx'[r].to = "VALID_V1"
        /\ \A q \in Requests \ {r} : tx'[q] = tx[q]
    BY <1>0, <1>2, TxFacts DEF Up
  <2>3. \A q \in Requests \ {r} : Spares(q)
    BY <1>0, <2>1, <2>2 DEF Spares, Moved
  <2>4. InstallTypes'
    BY <1>0, <2>1, <2>2 DEF InstallTypes, Moved
  <2>5. Presented(r)'
    BY <1>0, <1>1, <2>1, PresentedStays DEF Moved, RunOK, StageOK
  <2>6. fence = r /\ catalog = "V5_BASE"
    BY <1>0, <1>2 DEF RunOK, SessionOK, StageOK, Usable
  <2>7. SessionOK(r)'
    BY <1>0, <2>1, <2>2, <2>5, <2>6 DEF RunOK, SessionOK, Moved
  <2>8. StageOK(r)'
    BY <1>0, <2>1, <2>2, <2>5 DEF RunOK, StageOK, Moved, Early
  <2>9. SayingsOK(r)'
    <3>1. ~OffTarget(r)
      BY <1>0 DEF OffTarget
    <3> QED  BY <1>0, <2>1, <3>1 DEF RunOK, SayingsOK, ClaimOK, Moved
  <2> QED  BY <1>0, <1>1, <2>3, <2>4, <2>7, <2>8, <2>9, Assembled DEF RunOK
<1>3. CASE Recover(r, "plain") /\ UNCHANGED tx
  BY <1>0, <1>1, <1>3, NoTransaction, RecoverKeeps
<1> QED  BY <1>2, <1>3 DEF Ddl

\* A commit takes effect on the target: only the holder of the fence has one.
LEMMA AppliedFacts ==
  ASSUME InstallInv, NEW r \in Requests, Applied(r), tx[r].at # "none"
  PROVE  /\ tx' \in [Requests -> TxRecord] /\ tx'[r].at = "none" /\ tx'[r].to = "none"
         /\ \A q \in Requests \ {r} : tx'[q] = tx[q]
         /\ catalog' \in Up /\ fence = r
         /\ \/ tx[r].to # "VALID_V1" /\ installed' = installed
            \/ Presented(r) /\ installed = {} /\ installed' = {r}
<1>1. RunOK(r) /\ InstallTypes /\ tx[r] \in TxRecord
  BY DEF InstallInv, InstallTypes
<1>2. /\ tx' \in [Requests -> TxRecord] /\ tx'[r].at = "none" /\ tx'[r].to = "none"
      /\ \A q \in Requests \ {r} : tx'[q] = tx[q]
  BY <1>1, TxFacts DEF Applied
<1>3. catalog' \in Up /\ fence = r
  BY <1>1 DEF Applied, RunOK, SessionOK, TxRecord
<1>4. CASE tx[r].to = "VALID_V1"
  <2>1. Presented(r) /\ catalog = "V5_BASE"
    BY <1>1, <1>4 DEF RunOK, SessionOK
  <2>2. installed = {}
    BY <2>1 DEF InstallInv, InstallTypes, RunOK, StageOK, Up
  <2> QED  BY <1>2, <1>3, <1>4, <2>1, <2>2 DEF Applied
<1> QED  BY <1>2, <1>3, <1>4 DEF Applied

LEMMA CommitKeeps ==
  ASSUME InstallInv, NEW r \in Requests, Commit(r)  PROVE InstallInv'
<1>0. /\ IInv /\ run[r].pc = "commit" /\ InstallTypes /\ RunOK(r)
      /\ UNCHANGED <<sess, fence, frame, ctl>>
  BY DEF Commit, At, InstallInv
<1>1. IInv' /\ StepGrows
  <2>1. /\ UNCHANGED <<request, auth, intent, epoch, lock, session, mine, op, answer,
                       resolved, secrets>>
        /\ Counts /\ (faults' = faults \/ Fault) /\ calls' = calls
    BY DEF Commit, tables, Counts
  <2> QED  BY <1>0, <2>1, LedgerSpared
<1>n. ~OffTarget(r)
  BY <1>0 DEF OffTarget
<1>u. Usable(r) => fence = r /\ tx[r].at = "open" /\ tx[r].to = "VALID_V1" /\ Presented(r)
                   /\ catalog = "V5_BASE"
  BY <1>0 DEF RunOK, SessionOK, StageOK, Usable
<1>2. CASE Usable(r) /\ Applied(r) /\ Go(r, "prove")
  <2>1. Moved(r, "prove", run[r].state, run[r].mode)
    BY <1>0, <1>2, RunMoves DEF Pcs
  <2>2. /\ tx' \in [Requests -> TxRecord] /\ tx'[r].at = "none" /\ tx'[r].to = "none"
        /\ \A q \in Requests \ {r} : tx'[q] = tx[q]
        /\ catalog' \in Up /\ Presented(r) /\ installed = {} /\ installed' = {r}
    BY <1>2, <1>u, AppliedFacts
  <2>3. \A q \in Requests \ {r} : Spares(q)
    BY <1>0, <1>2, <1>u, <2>1, <2>2 DEF Spares, Moved
  <2>4. InstallTypes'
    BY <1>0, <2>1, <2>2 DEF InstallTypes, Moved, Up, TargetStates
  <2>5. Presented(r)'
    BY <1>1, <2>1, <2>2, PresentedStays DEF Moved
  <2>6. SessionOK(r)'
    BY <1>0, <2>1, <2>2 DEF RunOK, SessionOK, Moved
  <2>7. StageOK(r)'
    BY <1>0, <2>1, <2>2, <2>5 DEF RunOK, StageOK, Moved, Early
  <2>8. SayingsOK(r)'
    BY <1>0, <1>n, <2>1, <2>2 DEF RunOK, SayingsOK, ClaimOK, Moved
  <2> QED  BY <1>0, <1>1, <2>2, <2>3, <2>4, <2>6, <2>7, <2>8, Assembled DEF RunOK
<1>3. CASE /\ Usable(r) /\ Recover(r, "plain")
           /\ tx' = [tx EXCEPT ![r].at = "sent"] /\ UNCHANGED <<catalog, installed>>
  <2>1. Moved(r, "discard", run[r].state, "plain")
    BY <1>0, <1>3, RunMoves
  <2>2. /\ tx' \in [Requests -> TxRecord] /\ tx'[r].at = "sent" /\ tx'[r].to = "VALID_V1"
        /\ \A q \in Requests \ {r} : tx'[q] = tx[q]
    BY <1>0, <1>3, <1>u, TxFacts
  <2>3. \A q \in Requests \ {r} : Spares(q)
    BY <1>0, <1>3, <2>1, <2>2 DEF Spares, Moved
  <2>4. InstallTypes'
    BY <1>0, <1>3, <2>1, <2>2 DEF InstallTypes, Moved
  <2>5. Presented(r)'
    BY <1>1, <1>3, <1>u, <2>1, PresentedStays DEF Moved
  <2>6. SessionOK(r)'
    BY <1>0, <1>3, <1>u, <2>1, <2>2, <2>5 DEF RunOK, SessionOK, Moved
  <2>7. StageOK(r)'
    BY <1>0, <1>3, <2>1, <2>5 DEF RunOK, StageOK, Moved, Early
  <2>8. SayingsOK(r)'
    BY <1>0, <1>3, <1>n, <2>1 DEF RunOK, SayingsOK, ClaimOK, Moved
  <2> QED  BY <1>1, <1>3, <2>3, <2>4, <2>6, <2>7, <2>8, Assembled DEF RunOK
<1>4. CASE ~Usable(r) /\ Recover(r, "plain") /\ UNCHANGED <<catalog, tx, installed>>
  BY <1>0, <1>1, <1>4, NoTransaction, RecoverKeeps
<1> QED  BY <1>2, <1>3, <1>4 DEF Commit

LEMMA ProveKeeps ==
  ASSUME InstallInv, NEW r \in Requests, Prove(r)  PROVE InstallInv'
<1>0. /\ IInv /\ run[r].pc = "prove" /\ catalog \in Up
      /\ UNCHANGED <<catalog, tx, frame, ctl, installed>>
  BY DEF Prove, At, InstallInv, RunOK, StageOK
<1>1. IInv' /\ StepGrows
  <2>1. /\ UNCHANGED <<request, auth, intent, epoch, lock, session, mine, op, answer,
                       resolved, secrets>>
        /\ Counts /\ (faults' = faults \/ Fault) /\ calls' = calls
    BY DEF Prove, tables, Counts, Ready
  <2> QED  BY <1>0, <2>1, LedgerSpared
<1>2. CASE Ready(r)
  BY <1>0, <1>1, <1>2, ReadyKeeps
<1>3. CASE Recover(r, "committed") /\ UNCHANGED <<sess, fence>>
  BY <1>0, <1>1, <1>3, NoTransaction, RecoverKeeps
<1> QED  BY <1>2, <1>3 DEF Prove

LEMMA DiscardKeeps ==
  ASSUME InstallInv, NEW r \in Requests, Discard(r)  PROVE InstallInv'
<1>0. /\ IInv /\ run[r].pc = "discard" /\ InstallTypes
      /\ UNCHANGED <<catalog, tx, frame, ctl, installed>>
  BY DEF Discard, At, InstallInv
<1>1. IInv' /\ StepGrows
  BY <1>0, NextSafe DEF Discard
<1>t. tx[r].at # "open" /\ (run[r].mode = "ambiguous" => run[r].c \in Consumes)
      /\ run[r].state \in InstallStates /\ run[r].state # "NOT_INSTALLED"
      /\ (run[r].state = "COMMITTED_READY" => catalog \in Up)
  BY <1>0, NoTransaction
<1>2. CASE /\ tx[r].at # "sent" /\ Gone(r)
           /\ Go(r, IF run[r].mode = "ambiguous" THEN "resolve" ELSE "fresh")
  <2>1. PICK pc \in {"resolve", "fresh"} :
            Go(r, pc) /\ (pc = "resolve" => run[r].mode = "ambiguous")
    BY <1>2
  <2>2. pc \in Pcs /\ pc \notin Early
    BY DEF Pcs, Early
  <2>3. Moved(r, pc, run[r].state, run[r].mode)
    BY <1>0, <2>1, <2>2, RunMoves
  <2>4. Keeps(r)
    BY <1>0, <1>2 DEF Keeps
  <2> QED  BY <1>0, <1>1, <1>2, <1>t, <2>1, <2>2, <2>3, <2>4, PlainMove
<1>3. CASE Finish(r, "UNKNOWN", TRUE) /\ UNCHANGED <<sess, fence>>
  BY <1>0, <1>1, <1>3, <1>t, DoubtKeeps
<1> QED  BY <1>2, <1>3 DEF Discard

LEMMA SendResolveKeeps ==
  ASSUME InstallInv, NEW r \in Requests, SendResolve(r)  PROVE InstallInv'
<1>0. /\ IInv /\ run[r].pc = "resolve" /\ Go(r, "resolving")
      /\ UNCHANGED <<catalog, installed, sess, fence, tx, frame, ctl>>
  BY DEF SendResolve, At, InstallInv, targetVars
<1>1. IInv' /\ StepGrows
  <2>1. /\ UNCHANGED <<request, auth, intent, epoch, lock, session, mine, op, answer,
                       resolved, secrets>>
        /\ Counts /\ faults' = faults
    BY DEF SendResolve, tables, Counts
  <2>2. run[r].c \in Consumes
    BY <1>0, NoTransaction
  <2>3. calls' \subseteq calls \cup
           [kind : {"consume", "resolve"}, role : {"runner", "recovery"}, c : Consumes, r : Requests]
    BY <2>2 DEF SendResolve, Call
  <2> QED  BY <1>0, <2>1, <2>3, LedgerSpared
<1> QED  BY <1>0, <1>1, GoKeeps DEF Pcs, Early

LEMMA AwaitResolveKeeps ==
  ASSUME InstallInv, NEW r \in Requests, AwaitResolve(r)  PROVE InstallInv'
<1>0. /\ IInv /\ run[r].pc = "resolving" /\ InstallTypes
      /\ UNCHANGED <<catalog, installed, sess, fence, tx, frame, ctl>>
  BY DEF AwaitResolve, At, InstallInv, targetVars
<1>1. IInv' /\ StepGrows
  BY <1>0, NextSafe DEF AwaitResolve
<1>2. PICK truth \in BOOLEAN : run' = [run EXCEPT ![r].pc = "fresh", ![r].base = truth]
  <2>1. \A y : ProviderTruth(y) \in BOOLEAN
    BY DEF ProviderTruth
  <2>2. PICK truth \in {FALSE} \cup {ProviderTruth(y) : y \in {resolved[run[r].c][r]} \ {NoReport}} :
            run' = [run EXCEPT ![r].pc = "fresh", ![r].base = truth]
    BY DEF AwaitResolve
  <2>3. truth \in BOOLEAN
    BY <2>1, <2>2
  <2> QED  BY <2>2, <2>3
<1>3. run \in [Requests -> RunRecord] /\ run[r] \in RunRecord /\ "fresh" \in Pcs /\ "fresh" \notin Early
  BY <1>0 DEF InstallTypes, Pcs, Early
<1>4. Moved(r, "fresh", run[r].state, run[r].mode)
  BY <1>2, <1>3 DEF Moved, RunRecord
<1>5. Keeps(r)
  BY <1>0 DEF Keeps
<1> QED  BY <1>0, <1>1, <1>3, <1>4, <1>5, NoTransaction, PlainMove

LEMMA InspectFreshKeeps ==
  ASSUME InstallInv, NEW r \in Requests, InspectFresh(r)  PROVE InstallInv'
<1>0. /\ IInv /\ run[r].pc = "fresh" /\ InstallTypes /\ RunOK(r)
      /\ UNCHANGED <<catalog, installed, sess, fence, tx, frame, ctl>>
  BY DEF InspectFresh, At, InstallInv, targetVars
<1>1. IInv' /\ StepGrows
  <2>1. /\ UNCHANGED <<request, auth, intent, epoch, lock, session, mine, op, answer,
                       resolved, secrets>>
        /\ Counts /\ (faults' = faults \/ Fault) /\ calls' = calls
    BY DEF InspectFresh, tables, Counts
  <2> QED  BY <1>0, <2>1, LedgerSpared
<1>2. CASE Finish(r, ClassifyFresh(r), TRUE)
  <2> DEFINE state == ClassifyFresh(r)
  <2>1. /\ state \in InstallStates
        /\ state = "COMMITTED_READY" => catalog \in Up
        /\ state = "NOT_INSTALLED" => catalog = "V5_BASE"
    BY DEF ClassifyFresh, InstallStates, Up
  <2> HIDE DEF state
  <2>2. Moved(r, "report", state, run[r].mode)
    BY <1>0, <1>2, <2>1, RunMoves DEF state
  <2>3. catalog = "V5_BASE" => r \notin installed
    BY <1>0 DEF RunOK, StageOK, Up
  <2>4. Keeps(r) /\ "report" \in Pcs /\ "report" \notin Early
    BY <1>0 DEF Keeps, Pcs, Early
  <2> QED  BY <1>0, <1>1, <2>1, <2>2, <2>3, <2>4, NoTransaction, PlainMove
<1>3. CASE Finish(r, "UNKNOWN", TRUE)
  BY <1>0, <1>1, <1>3, NoTransaction, DoubtKeeps
<1> QED  BY <1>2, <1>3 DEF InspectFresh

LEMMA UpgradeKeeps ==
  ASSUME InstallInv, NEW r \in Requests, ApplyUpgrade(r)  PROVE InstallInv'
<1>0. /\ IInv /\ run[r].pc = "upgrade" /\ InstallTypes /\ RunOK(r)
      /\ UNCHANGED <<frame, ctl, installed>>
  BY DEF ApplyUpgrade, At, InstallInv
<1>1. IInv' /\ StepGrows
  <2>1. /\ UNCHANGED <<request, auth, intent, epoch, lock, session, mine, op, answer,
                       resolved, secrets>>
        /\ Counts /\ (faults' = faults \/ Fault) /\ calls' = calls
    BY DEF ApplyUpgrade, tables, Counts
  <2> QED  BY <1>0, <2>1, LedgerSpared
<1>n. ~OffTarget(r) /\ tx[r].at = "none" /\ tx[r].to = "none" /\ run[r].state # "NOT_INSTALLED"
  BY <1>0, NoTransaction DEF OffTarget
<1>2. CASE /\ fence = NoRun /\ catalog \in {"VALID_V1", "VALID_NEXT_LEDGER_READY"}
           /\ catalog' = "VALID_NEXT_LEDGER_READY"
           /\ run' = [run EXCEPT ![r].pc = "report", ![r].digest = "next"]
           /\ UNCHANGED <<fence, sess, tx>>
  <2>1. run \in [Requests -> RunRecord] /\ run[r] \in RunRecord /\ "report" \in Pcs
    BY <1>0 DEF InstallTypes, Pcs
  <2>2. Moved(r, "report", run[r].state, run[r].mode)
    BY <1>2, <2>1 DEF Moved, RunRecord
  <2>3. \A q \in Requests \ {r} : Spares(q)
    BY <1>0, <1>2, <2>2, RunAssumption DEF Spares, Moved, Up
  <2>4. InstallTypes'
    BY <1>0, <1>2, <2>2 DEF InstallTypes, Moved, TargetStates
  <2>5. Presented(r) => Presented(r)'
    BY <1>1, <2>2, PresentedStays DEF Moved
  <2>6. SessionOK(r)'
    BY <1>0, <1>2, <1>n DEF RunOK, SessionOK
  <2>7. StageOK(r)'
    BY <1>0, <1>2, <2>2, <2>5 DEF RunOK, StageOK, Moved, Early, Up
  <2>8. SayingsOK(r)'
    BY <1>0, <1>2, <1>n, <2>2 DEF RunOK, SayingsOK, ClaimOK, Moved, Up
  <2> QED  BY <1>0, <1>1, <2>3, <2>4, <2>6, <2>7, <2>8, Assembled DEF RunOK
<1>3. CASE /\ fence = NoRun /\ catalog = "VALID_V1"
           /\ tx' = [tx EXCEPT ![r] = [at |-> "sent", to |-> "VALID_NEXT_LEDGER_READY"]]
           /\ fence' = r /\ sess' = [sess EXCEPT ![r] = "open"]
           /\ Finish(r, "UNKNOWN", TRUE) /\ UNCHANGED catalog
  <2>1. Moved(r, "report", "UNKNOWN", run[r].mode)
    BY <1>0, <1>3, RunMoves DEF InstallStates
  <2>2. /\ tx' \in [Requests -> TxRecord] /\ tx'[r].at = "sent"
        /\ tx'[r].to = "VALID_NEXT_LEDGER_READY"
        /\ \A q \in Requests \ {r} : tx'[q] = tx[q]
    BY <1>0, <1>3, TxFacts DEF Up
  <2>3. /\ sess' \in [Requests -> {"none", "open"}] /\ sess'[r] = "open"
        /\ \A q \in Requests \ {r} : sess'[q] = sess[q] /\ fence' # q /\ fence # q
    BY <1>0, <1>3, RunAssumption DEF InstallTypes
  <2>4. \A q \in Requests \ {r} : Spares(q)
    BY <1>0, <1>3, <2>1, <2>2, <2>3 DEF Spares, Moved
  <2>5. InstallTypes'
    BY <1>0, <1>3, <2>1, <2>2, <2>3 DEF InstallTypes, Moved
  <2>6. Presented(r) => Presented(r)'
    BY <1>1, <2>1, PresentedStays DEF Moved
  <2>7. SessionOK(r)'
    BY <1>3, <2>1, <2>2, <2>3 DEF SessionOK, Moved
  <2>8. StageOK(r)'
    BY <1>0, <1>3, <2>1, <2>6 DEF RunOK, StageOK, Moved, Early
  <2>9. SayingsOK(r)'
    BY <1>0, <1>3, <1>n, <2>1 DEF RunOK, SayingsOK, ClaimOK, Moved
  <2> QED  BY <1>0, <1>1, <2>4, <2>5, <2>7, <2>8, <2>9, Assembled DEF RunOK
<1>4. CASE Finish(r, "UNKNOWN", TRUE) /\ UNCHANGED <<catalog, fence, sess, tx>>
  BY <1>0, <1>1, <1>4, <1>n, DoubtKeeps
<1> QED  BY <1>2, <1>3, <1>4 DEF ApplyUpgrade

LEMMA DeliverKeeps ==
  ASSUME InstallInv, NEW r \in Requests, Deliver(r)  PROVE InstallInv'
<1> DEFINE f == [state |-> run[r].state, digest |-> run[r].digest, error |-> run[r].error]
<1>0. /\ IInv /\ run[r].pc = "report" /\ InstallTypes /\ RunOK(r) /\ Go(r, "gone")
      /\ UNCHANGED <<catalog, installed, sess, fence, tx, ctl>> /\ frame' = [frame EXCEPT ![r] = f]
  BY DEF Deliver, At, InstallInv, targetVars
<1>1. IInv' /\ StepGrows
  BY <1>0, NextSafe DEF Deliver
<1>2. Moved(r, "gone", run[r].state, run[r].mode)
  BY <1>0, RunMoves DEF Pcs
<1>3. f \in FrameRecord /\ f.state = run[r].state /\ f.state # "none"
  <2>1. run[r] \in RunRecord
    BY <1>0 DEF InstallTypes
  <2> QED  BY <2>1 DEF RunRecord, FrameRecord, InstallStates
<1> HIDE DEF f
<1>4. /\ frame' \in [Requests -> FrameRecord] /\ frame'[r] = f
      /\ \A q \in Requests \ {r} : frame'[q] = frame[q]
  BY <1>0, <1>3 DEF InstallTypes
<1>5. \A q \in Requests \ {r} : Spares(q)
  BY <1>0, <1>2, <1>4 DEF Spares, Moved
<1>6. InstallTypes'
  BY <1>0, <1>2, <1>4 DEF InstallTypes, Moved
<1>7. Presented(r) => Presented(r)'
  BY <1>1, <1>2, PresentedStays DEF Moved
<1>8. SessionOK(r)'
  BY <1>0, <1>2, <1>7 DEF RunOK, SessionOK, Moved
<1>9. StageOK(r)'
  BY <1>0, <1>2, <1>7 DEF RunOK, StageOK, Moved, Early
<1>10. SayingsOK(r)'
  <2>1. OffTarget(r) => OffTarget(r)'
    BY <1>0, <1>2 DEF OffTarget, Moved
  <2> QED  BY <1>0, <1>2, <1>3, <1>4, <2>1 DEF RunOK, SayingsOK, ClaimOK, Moved
<1> QED  BY <1>0, <1>1, <1>5, <1>6, <1>8, <1>9, <1>10, Assembled DEF RunOK

-----------------------------------------------------------------------------
(* The controller, the target server, and the provider *)

\* A step that touches only the controller's record of r and the ledger.
LEMMA ControlMoves ==
  ASSUME InstallInv, NEW r \in Requests, IInv' /\ StepGrows, NEW v \in ControlRecord,
         ctl' = [ctl EXCEPT ![r] = v], UNCHANGED <<catalog, installed, sess, fence, tx, run, frame>>,
         v.at \in {"idle", "issued"} => run[r].pc = "off",
         ClaimOK(r, v.operation), frame[r].state = "none" => v.operation = "UNAVAILABLE"
  PROVE  InstallInv'
<1>0. InstallTypes /\ RunOK(r)
  BY DEF InstallInv
<1>1. /\ ctl' \in [Requests -> ControlRecord] /\ ctl'[r] = v
      /\ \A q \in Requests \ {r} : ctl'[q] = ctl[q]
  BY <1>0 DEF InstallTypes
<1>2. \A q \in Requests \ {r} : Spares(q)
  BY <1>1 DEF Spares
<1>3. InstallTypes'
  BY <1>0, <1>1 DEF InstallTypes
<1>4. Presented(r) => Presented(r)'
  BY PresentedStays
<1>5. SessionOK(r)' /\ StageOK(r)'
  BY <1>0, <1>1, <1>4 DEF RunOK, SessionOK, StageOK
<1>6. SayingsOK(r)'
  BY <1>0, <1>1 DEF RunOK, SayingsOK, ClaimOK, OffTarget
<1> QED  BY <1>2, <1>3, <1>5, <1>6, Assembled DEF RunOK

\* The controller takes note; what it says does not change.
LEMMA ControlNotes ==
  ASSUME InstallInv, NEW r \in Requests, IInv' /\ StepGrows,
         NEW at \in {"issued", "done"}, ctl[r].at = "idle",
         ctl' = [ctl EXCEPT ![r].at = at], UNCHANGED <<catalog, installed, sess, fence, tx, run, frame>>
  PROVE  InstallInv'
<1> DEFINE v == [ctl[r] EXCEPT !.at = at]
<1>1. ctl[r] \in ControlRecord /\ RunOK(r)
  BY DEF InstallInv, InstallTypes
<1>2. v \in ControlRecord /\ v.operation = ctl[r].operation /\ v.at = at
  BY <1>1 DEF ControlRecord
<1>3. ctl' = [ctl EXCEPT ![r] = v]
  OBVIOUS
<1> HIDE DEF v
<1> QED  BY <1>1, <1>2, <1>3, ControlMoves DEF RunOK, StageOK, SayingsOK

\* The runner starts.
LEMMA LaunchKeeps ==
  ASSUME InstallInv, NEW r \in Requests, Launch(r)  PROVE InstallInv'
<1>0. /\ IInv /\ InstallTypes /\ RunOK(r) /\ ctl[r].at = "issued" /\ Go(r, "pin")
      /\ UNCHANGED <<catalog, installed, sess, fence, tx, frame>>
      /\ ctl' = [ctl EXCEPT ![r].at = "launched"]
  BY DEF Launch, InstallInv, targetVars
<1>1. IInv' /\ StepGrows
  BY <1>0, NextSafe DEF Launch
<1>2. Moved(r, "pin", run[r].state, run[r].mode)
  BY <1>0, RunMoves DEF Pcs
<1>3. run[r].pc = "off"
  BY <1>0 DEF RunOK, StageOK
<1>4. /\ ctl' \in [Requests -> ControlRecord] /\ ctl'[r].operation = ctl[r].operation
      /\ ctl'[r].at = "launched" /\ \A q \in Requests \ {r} : ctl'[q] = ctl[q]
  BY <1>0 DEF InstallTypes, ControlRecord
<1>5. \A q \in Requests \ {r} : Spares(q)
  BY <1>0, <1>2, <1>4 DEF Spares, Moved
<1>6. InstallTypes'
  BY <1>0, <1>2, <1>4 DEF InstallTypes, Moved
<1>7. tx[r].at = "none" /\ tx[r].to = "none" /\ r \notin installed /\ ~OffTarget(r)
  BY <1>0, <1>3, NoTransaction DEF OffTarget, RunOK, StageOK, Early
<1>8. SessionOK(r)'
  BY <1>0, <1>7 DEF RunOK, SessionOK
<1>9. StageOK(r)'
  BY <1>0, <1>2, <1>4, <1>7 DEF RunOK, StageOK, Moved
<1>10. SayingsOK(r)'
  BY <1>0, <1>2, <1>4, <1>7 DEF RunOK, SayingsOK, ClaimOK, Moved
<1> QED  BY <1>0, <1>1, <1>5, <1>6, <1>8, <1>9, <1>10, Assembled DEF RunOK

LEMMA ControllerKeeps ==
  ASSUME InstallInv, NEW r \in Requests, Controller(r)  PROVE InstallInv'
<1>0. IInv /\ RunOK(r) /\ InstallTypes
  BY DEF InstallInv
<1>1. CASE IssueAuthorization(r)
  <2>1. PICK p \in Processes, t \in Attempts : Issue(p, r, t)
    BY <1>1 DEF IssueAuthorization
  <2>2. Counts
    BY <1>1 DEF IssueAuthorization, Counts
  <2>3. IInv' /\ StepGrows
    BY <1>0, <2>1, <2>2, IssueKeeps
  <2>4. UNCHANGED <<catalog, installed, sess, fence, tx, run, frame>> /\ ctl[r].at = "idle"
    BY <1>1 DEF IssueAuthorization, targetVars
  <2>5. PICK at \in {"issued", "done"} : ctl' = [ctl EXCEPT ![r].at = at]
    BY <1>1 DEF IssueAuthorization
  <2> QED  BY <2>3, <2>4, <2>5, ControlNotes
<1>2. CASE IssueUnavailable(r)
  <2>1. IInv' /\ StepGrows
    BY <1>0, <1>2, NextSafe DEF IssueUnavailable
  <2>2. UNCHANGED <<catalog, installed, sess, fence, tx, run, frame>>
    BY <1>2 DEF IssueUnavailable, targetVars
  <2> QED  BY <1>2, <2>1, <2>2, ControlNotes DEF IssueUnavailable
<1>3. CASE Launch(r)
  BY <1>3, LaunchKeeps
<1>4. CASE ReturnResult(r)
  <2> DEFINE v == IF frame[r] # NoFrame /\ ValidFrame(frame[r])
         THEN [at |-> "done", delivery |-> "DELIVERED", operation |-> frame[r].state]
         ELSE [at |-> "done", delivery |-> "FAILED", operation |-> "UNAVAILABLE"]
  <2>1. IInv' /\ StepGrows
    BY <1>0, <1>4, NextSafe DEF ReturnResult
  <2>2. UNCHANGED <<catalog, installed, sess, fence, tx, run, frame>> /\ ctl' = [ctl EXCEPT ![r] = v]
    BY <1>4 DEF ReturnResult, targetVars
  <2>3. frame[r] \in FrameRecord
    BY <1>0 DEF InstallTypes
  <2>4. frame[r] # NoFrame => frame[r].state \in InstallStates
    BY <1>0, <2>3 DEF FrameRecord, RunOK, SayingsOK
  <2>5. v \in ControlRecord /\ v.at = "done" /\ v.operation = IF frame[r] # NoFrame /\ ValidFrame(frame[r])
                                             THEN frame[r].state ELSE "UNAVAILABLE"
    BY <2>4 DEF ControlRecord
  <2> HIDE DEF v
  <2>6. ClaimOK(r, v.operation)
    BY <1>0, <2>5 DEF RunOK, SayingsOK, ClaimOK
  <2>7. frame[r].state = "none" => v.operation = "UNAVAILABLE"
    BY <1>0, <2>5 DEF RunOK, SayingsOK
  <2> QED  BY <2>1, <2>2, <2>5, <2>6, <2>7, ControlMoves
<1> QED  BY <1>1, <1>2, <1>3, <1>4 DEF Controller

\* The target server ends a commit, or a session that nobody uses.
LEMMA ServerKeeps ==
  ASSUME InstallInv, NEW r \in Requests, Server(r)  PROVE InstallInv'
<1>0. /\ IInv /\ InstallTypes /\ RunOK(r) /\ Gone(r) /\ UNCHANGED <<run, frame, ctl>>
  BY DEF InstallInv, Server, ServerEndsCommit, ServerReaps
<1>1. IInv' /\ StepGrows
  BY <1>0, NextSafe DEF Server, ServerEndsCommit, ServerReaps
<1>2. /\ sess' \in [Requests -> {"none", "open"}] /\ fence' \in Requests \cup {NoRun}
      /\ sess'[r] = "none" /\ fence' # r
      /\ \A q \in Requests \ {r} : sess'[q] = sess[q] /\ (fence' = q <=> fence = q)
  BY <1>0, GoneFacts
<1>3. Presented(r) => Presented(r)'
  BY <1>0, <1>1, PresentedStays
\* However the step ends, r has no transaction after it.
<1>4. ASSUME tx' \in [Requests -> TxRecord], tx'[r].at = "none", tx'[r].to = "none",
             \A q \in Requests \ {r} : tx'[q] = tx[q],
             \/ UNCHANGED <<catalog, installed>>
             \/ /\ catalog' \in Up /\ fence = r /\ tx[r].at = "sent"
                /\ \/ installed' = installed
                   \/ Presented(r) /\ installed = {} /\ installed' = {r}
      PROVE  InstallInv'
  <2>1. \A q \in Requests \ {r} : Spares(q)
    BY <1>0, <1>2, <1>4 DEF Spares
  <2>2. InstallTypes'
    BY <1>0, <1>2, <1>4 DEF InstallTypes, Up, TargetStates
  <2>3. SessionOK(r)'
    BY <1>2, <1>4 DEF SessionOK
  <2>4. StageOK(r)'
    BY <1>0, <1>2, <1>3, <1>4 DEF RunOK, SessionOK, StageOK, Early
  <2>5. OffTarget(r) => OffTarget(r)'
    BY <1>0, <1>4 DEF OffTarget
  <2>6. SayingsOK(r)'
    BY <1>0, <1>4, <2>5 DEF RunOK, SayingsOK, ClaimOK
  <2> QED  BY <1>1, <1>4, <2>1, <2>2, <2>3, <2>4, <2>6, Assembled DEF RunOK
<1>5. CASE ServerEndsCommit(r) /\ Applied(r)
  BY <1>4, <1>5, AppliedFacts DEF ServerEndsCommit
<1>6. CASE tx' = [tx EXCEPT ![r] = NoTx] /\ UNCHANGED <<catalog, installed>>
  BY <1>0, <1>4, <1>6, TxFacts
<1>7. CASE ServerReaps(r)
  <2>1. tx[r].at = "none" /\ tx[r].to = "none" /\ UNCHANGED <<catalog, tx, installed>>
    BY <1>7 DEF ServerReaps, NoTx
  <2>2. tx' \in [Requests -> TxRecord]
    BY <1>0, <2>1 DEF InstallTypes
  <2> QED  BY <1>4, <2>1, <2>2
<1> QED  BY <1>5, <1>6, <1>7 DEF Server, ServerEndsCommit

\* The session of r is lost or its runner dies; what was not sent is undone.
LEMMA LossKeeps ==
  ASSUME InstallInv, NEW r \in Requests, LoseTarget(r) \/ CrashRunner(r)  PROVE InstallInv'
<1>0. /\ IInv /\ InstallTypes /\ RunOK(r) /\ UNCHANGED <<catalog, installed, frame, ctl>>
  BY DEF InstallInv, LoseTarget, CrashRunner
<1>1. IInv' /\ StepGrows
  <2>1. /\ UNCHANGED <<request, auth, intent, epoch, lock, session, mine, op, answer,
                       resolved, secrets>>
        /\ Counts /\ (faults' = faults \/ Fault) /\ calls' = calls
    BY DEF LoseTarget, CrashRunner, tables, Counts
  <2> QED  BY <1>0, <2>1, LedgerSpared
<1>2. \/ /\ Gone(r) /\ tx' = [tx EXCEPT ![r] = NoTx]
      \/ /\ UNCHANGED <<sess, fence, tx>> /\ tx[r].at = "sent"
  BY DEF LoseTarget, CrashRunner
<1>3. \/ run' = run
      \/ /\ Moved(r, "gone", run[r].state, run[r].mode)
         /\ run[r].pc # "off" /\ (tx[r].at = "sent" => UNCHANGED <<sess, fence, tx>>)
  BY <1>0, RunMoves DEF LoseTarget, CrashRunner, Pcs
<1>4. /\ run' \in [Requests -> RunRecord] /\ \A q \in Requests \ {r} : run'[q] = run[q]
      /\ run'[r].c = run[r].c /\ run'[r].state = run[r].state /\ run'[r].mode = run[r].mode
      /\ run'[r].pc = run[r].pc \/ (run'[r].pc = "gone" /\ run[r].pc # "off")
  BY <1>0, <1>3 DEF Moved, InstallTypes
<1>5. /\ tx' \in [Requests -> TxRecord] /\ \A q \in Requests \ {r} : tx'[q] = tx[q]
      /\ \/ tx'[r].at = "none" /\ tx'[r].to = "none" /\ fence' # r
         \/ tx' = tx /\ tx[r].at = "sent" /\ UNCHANGED <<sess, fence>>
  <2>1. CASE Gone(r) /\ tx' = [tx EXCEPT ![r] = NoTx]
    BY <1>0, <2>1, TxFacts, GoneFacts
  <2>2. CASE UNCHANGED <<sess, fence, tx>> /\ tx[r].at = "sent"
    BY <1>0, <2>2 DEF InstallTypes
  <2> QED  BY <1>2, <2>1, <2>2
<1>6. Keeps(r)
  BY <1>0, <1>2 DEF Keeps
<1>7. /\ \A q \in Requests \ {r} : Spares(q)
      /\ sess' \in [Requests -> {"none", "open"}] /\ fence' \in Requests \cup {NoRun}
      /\ sess'[r] = "open" <=> fence' = r
  BY <1>0, <1>4, <1>5, <1>6, KeepsSpares
<1>8. InstallTypes'
  BY <1>0, <1>4, <1>5, <1>7 DEF InstallTypes
<1>9. Presented(r) => Presented(r)'
  BY <1>1, <1>4, PresentedStays
<1>10. SessionOK(r)'
  BY <1>0, <1>4, <1>5, <1>7, <1>9 DEF RunOK, SessionOK
<1>11. StageOK(r)'
  BY <1>0, <1>4, <1>5, <1>9 DEF RunOK, StageOK, SessionOK, Early
<1>12. SayingsOK(r)'
  <2>1. OffTarget(r) => OffTarget(r)'
    BY <1>0, <1>4, <1>5 DEF OffTarget
  <2> QED  BY <1>0, <1>4, <2>1 DEF RunOK, SayingsOK, ClaimOK
<1> QED  BY <1>0, <1>1, <1>7, <1>8, <1>10, <1>11, <1>12, Assembled DEF RunOK

\* Steps of the provider and its callers that leave the target alone.
LEMMA ProviderKeeps ==
  ASSUME InstallInv, IInv' /\ StepGrows, UNCHANGED installVars  PROVE InstallInv'
<1>1. InstallTypes'
  BY DEF InstallInv, InstallTypes, installVars
<1>2. ASSUME NEW q \in Requests PROVE RunOK(q)'
  <2>1. Spares(q)
    BY DEF Spares, installVars
  <2> QED  BY <2>1, SparedStays DEF InstallInv
<1> QED  BY <1>1, <1>2 DEF InstallInv, installVars

LEMMA InstallSafe ==
  ASSUME InstallInv, [InstallNext]_allVars  PROVE InstallInv'
<1>0. IInv /\ InstallTypes
  BY DEF InstallInv
<1>1. ASSUME NEW r \in Requests, Runner(r) PROVE InstallInv'
  BY <1>1, PinKeeps, RecognizeKeeps, InspectKeeps, SendConsumeKeeps, AwaitConsumeKeeps, GuardKeeps,
     DdlKeeps, CommitKeeps, ProveKeeps, DiscardKeeps, SendResolveKeeps, AwaitResolveKeeps,
     InspectFreshKeeps, UpgradeKeeps, DeliverKeeps DEF Runner
<1>2. ASSUME NEW p \in Processes, Provider(p) PROVE InstallInv'
  <2>1. IInv' /\ StepGrows
    BY <1>0, <1>2, ConsumeKeeps, ResolveConsumeKeeps, RefusalsKeep, AcquireKeeps, SessionsKeep
       DEF Provider, Handle, Authorities
  <2> QED  BY <1>2, <2>1, ProviderKeeps DEF Provider
<1>3. ASSUME NEW p \in Processes, Operator(p) PROVE InstallInv'
  <2>1. PICK r \in Requests : Lifecycle(p, r, "revoke")
    BY <1>3 DEF Operator, Revoke
  <2>2. Counts
    BY <1>3 DEF Operator, Counts
  <2>3. IInv' /\ StepGrows
    BY <1>0, <2>1, <2>2, LifecycleSafe
  <2> QED  BY <1>3, <2>3, ProviderKeeps DEF Operator
<1>4. ASSUME RecoveryCalls PROVE InstallInv'
  <2>1. PICK r \in Requests : run[r].c # NoConsume /\ Call("resolve", "recovery", run[r].c, r)
    BY <1>4 DEF RecoveryCalls
  <2>2. run[r].c \in Consumes
    BY <1>0, <2>1 DEF InstallTypes, RunRecord
  <2>3. /\ UNCHANGED <<request, auth, intent, epoch, lock, session, mine, op, answer,
                       resolved, secrets>>
        /\ Counts /\ faults' = faults /\ UNCHANGED installVars
    BY <1>4 DEF RecoveryCalls, tables, Counts
  <2>4. calls' \subseteq calls \cup
           [kind : {"consume", "resolve"}, role : {"runner", "recovery"}, c : Consumes, r : Requests]
    BY <2>1, <2>2 DEF Call
  <2> QED  BY <1>0, <2>3, <2>4, LedgerSpared, ProviderKeeps
<1>5. ASSUME NEW r \in Requests, Lapse(r), UNCHANGED installVars PROVE InstallInv'
  BY <1>0, <1>5, LapseKeeps, ProviderKeeps
<1>6. CASE UNCHANGED allVars
  <2>1. IInv' /\ StepGrows
    BY <1>0, <1>6, NextSafe DEF allVars
  <2> QED  BY <1>6, <2>1, ProviderKeeps DEF allVars
<1> QED  BY <1>1, <1>2, <1>3, <1>4, <1>5, <1>6, ControllerKeeps, ServerKeeps, LossKeeps DEF InstallNext

LEMMA InstallStart == InstallInit => InstallInv
<1> SUFFICES ASSUME InstallInit PROVE InstallInv
  OBVIOUS
<1>1. IInv
  BY InitSafe DEF InstallInit
<1>2. FreshRun \in RunRecord /\ FreshRun.pc = "off" /\ FreshRun.state = "UNKNOWN" /\ FreshRun.mode = "plain"
  BY DEF FreshRun, RunRecord, Pcs, InstallStates
<1>3. NoTx \in TxRecord /\ NoTx.at = "none" /\ NoTx.to = "none"
  BY DEF NoTx, TxRecord
<1>4. NoFrame \in FrameRecord /\ NoFrame.state = "none"
  BY DEF NoFrame, FrameRecord
<1>5. NewControl \in ControlRecord /\ NewControl.at = "idle" /\ NewControl.operation = "UNAVAILABLE"
  BY DEF NewControl, ControlRecord
<1>6. InstallTypes
  BY <1>2, <1>3, <1>4, <1>5 DEF InstallInit, InstallTypes, TargetStates
<1>7. ASSUME NEW r \in Requests PROVE RunOK(r)
  <2>1. /\ run[r] = FreshRun /\ tx[r] = NoTx /\ frame[r] = NoFrame /\ ctl[r] = NewControl
        /\ sess[r] = "none" /\ fence # r /\ r \notin installed
    BY RunAssumption DEF InstallInit
  <2>2. SessionOK(r) /\ StageOK(r)
    BY <1>2, <1>3, <1>5, <2>1 DEF SessionOK, StageOK
  <2>3. SayingsOK(r)
    BY <1>2, <1>4, <1>5, <2>1 DEF SayingsOK, ClaimOK
  <2> QED  BY <2>2, <2>3 DEF RunOK
<1> QED  BY <1>1, <1>6, <1>7 DEF InstallInv, InstallInit

\* The inductive invariant of the bootstrap holds in every state: the ledger's,
\* and for every run what its stage, its session and its words rest on.
THEOREM InstallInvariance == InstallSpec => []InstallInv
BY InstallStart, InstallSafe, PTL DEF InstallSpec

LEMMA TruthFollows == InstallInv => InstallIsTrue
<1> SUFFICES ASSUME InstallInv PROVE InstallIsTrue
  OBVIOUS
<1>0. InstallTypes /\ \A r \in Requests : RunOK(r)
  BY DEF InstallInv
<1>1. InstallTypeOK
  <2>1. tx \in [Requests -> [at : {"none", "open", "sent"}, to : TargetStates \cup {"none"}]]
    <3>1. \A r \in Requests : tx[r] \in [at : {"none", "open", "sent"}, to : TargetStates \cup {"none"}]
      BY <1>0 DEF InstallTypes, TxRecord, Up, TargetStates
    <3> QED  BY <1>0, <3>1 DEF InstallTypes
  <2>2. \A r \in Requests : run[r].state \in InstallStates /\ run[r].c \in Consumes \cup {NoConsume}
    BY <1>0 DEF InstallTypes, RunRecord
  <2>3. \A r \in Requests : ctl[r].at \in {"idle", "issued", "launched", "done"}
    BY <1>0 DEF InstallTypes, ControlRecord
  <2> QED  BY <1>0, <2>1, <2>2, <2>3 DEF InstallTypes, InstallTypeOK
<1>2. InstalledUnderConsumed
  <2>1. Cardinality(installed) <= 1
    <3>1. CASE installed = {}
      BY <3>1, FS_EmptySet
    <3>2. ASSUME NEW r \in installed PROVE Cardinality(installed) <= 1
      <4>1. installed = {r}
        BY <3>2 DEF InstallInv
      <4>2. Cardinality({r}) = 1
        BY FS_Singleton
      <4> QED  BY <4>1, <4>2
    <3> QED  BY <3>1, <3>2
  <2>2. \A r \in installed : auth[r].state = "CONSUMED" /\ auth[r].consumer = run[r].c
    BY <1>0 DEF InstallTypes, RunOK, StageOK, Presented
  <2> QED  BY <2>1, <2>2 DEF InstalledUnderConsumed
<1>3. TransactionHoldsFence
  BY <1>0, NoTransaction DEF TransactionHoldsFence, RunOK, SessionOK
<1>4. ReportsTrue
  BY <1>0, NoTransaction DEF ReportsTrue, RunOK, SayingsOK, ClaimOK, OffTarget, Up
<1>5. ControllerTruth
  <2>1. NoFrame.state = "none"
    BY DEF NoFrame
  <2> QED  BY <1>0, <2>1 DEF ControllerTruth, RunOK, SayingsOK, ClaimOK, OffTarget, Up
<1> QED  BY <1>1, <1>2, <1>3, <1>4, <1>5 DEF InstallIsTrue

\* For any number of controllers, runners and authority processes, with lost
\* answers, lost sessions, crashes and commits that the server ends late: the
\* target is changed once at most, under the fence and by the run whose own
\* Consume is durably CONSUMED, and what runner and controller report of it
\* stays true.
THEOREM InstallStaysTrue == InstallSpec => []InstallIsTrue
BY InstallInvariance, TruthFollows, PTL

-----------------------------------------------------------------------------
(***************************************************************************)
(* The catalog of a target.  What pg_catalog can hold under the schema,    *)
(* whatever is installed, upgraded and edited by hand.                     *)
(***************************************************************************)
Kinds == {"relation", "index", "constraint", "column", "sequence",
          "trigger", "rule", "function", "type", "collation"}
Installed == {"relation", "index", "constraint", "column", "sequence"}
Names == {Manifest, Leases, Boundaries, Generation, Provenance, "pkey", "one_live_generation",
          "version_check", "lease_fk", "issue_key", "lease_link_check", "id", "x"}
Owners == {Manifest, Leases, Boundaries, Generation, Provenance, "x", "none"}
Definitions == {"frozen", "frozen2", "altered", "other keys"}
Entries == [kind : Kinds, name : Names, on : Owners, def : Definitions, foreign : BOOLEAN]

\* Triggers, rules and columns belong to a table of the schema; a sequence
\* depends on nothing outside it.
EntryOK(x) ==
    /\ x \in Entries
    /\ x.kind = "relation" => x.name = x.on
    /\ x.kind \in {"trigger", "rule", "column"} => x.on \in V1Tables \cup {Provenance}
    /\ x.kind = "sequence" => ~x.foreign

\* What belongs to the ledger is gone when the ledger is.
EntriesOK(e) == \A x \in e : EntryOK(x) /\ (x.on = Provenance => LedgerObjectsPresent(e))

CatalogInv ==
    /\ application \in [metadata : {"clean v5", "dirty"}, relations : {"exact", "drifted"}]
    /\ present \in BOOLEAN
    /\ EntriesOK(entries)
    /\ ~present => entries = {} /\ manifest = {}
    /\ manifest \subseteq Rows /\ IsFiniteSet(manifest)
    /\ edits \in Nat

(***************************************************************************)
(* The expectations                                                        *)
(***************************************************************************)
CheckName == <<"constraint", "version_check", Manifest>>

\* An expectation is made of installed classes, and what belongs to a name is
\* its only definition: def2 for the version check, the frozen one elsewhere.
Expectation(want, def2) ==
    /\ \A x \in want :
        /\ EntryOK(x) /\ x.kind \in Installed /\ ~x.foreign
        /\ x.def = IF Named(x) = CheckName THEN def2 ELSE "frozen"
    /\ Of(want, "sequence") = V1Sequence
    /\ V1Tables \subseteq {x.on : x \in Of(want, "column")}
    /\ \E x \in want : x.kind = "relation" /\ x.name = Manifest

\* The words of the descriptor tables.
LEMMA Vocabulary ==
  /\ Installed \subseteq Kinds
  /\ "relation" \in Installed /\ "index" \in Installed /\ "constraint" \in Installed
  /\ "column" \in Installed /\ "sequence" \in Installed
  /\ V1Tables \subseteq Names /\ V1Tables \subseteq Owners
  /\ Manifest \in V1Tables /\ Leases \in V1Tables /\ Boundaries \in V1Tables
  /\ Generation \in Names /\ Generation \in Owners /\ Provenance \in Names /\ Provenance \in Owners
  /\ {"pkey", "one_live_generation", "version_check", "lease_fk", "issue_key", "lease_link_check", "id"}
        \subseteq Names
  /\ Provenance \notin V1Tables \cup {Generation}
  BY DEF Installed, Kinds, V1Tables, Owners, Names, Manifest, Leases, Boundaries, Generation, Provenance

\* The fields of an entry of a descriptor table.
LEMMA EntryFields ==
  ASSUME NEW k \in Kinds, NEW n \in Names, NEW t \in Owners
  PROVE  /\ Entry(k, n, t) \in Entries
         /\ Entry(k, n, t).kind = k /\ Entry(k, n, t).name = n /\ Entry(k, n, t).on = t
         /\ Entry(k, n, t).def = "frozen" /\ ~Entry(k, n, t).foreign
  BY DEF Entry, Entries, Definitions

\* Version 1 expects no ledger.
LEMMA V1IsExpectation ==
    Expectation(V1PhysicalExpectation, "frozen") /\ ~LedgerObjectsPresent(V1PhysicalExpectation)

  <1>1. \A x \in V1PhysicalExpectation :
            /\ x \in Entries /\ x.kind \in Installed /\ ~x.foreign /\ x.def = "frozen"
            /\ x.kind = "relation" => x.name = x.on /\ x.name # Provenance
            /\ x.kind = "column" => x.on \in V1Tables
    <2>1. \A x \in V1Relations : x \in Entries /\ x.kind = "relation" /\ ~x.foreign
              /\ x.def = "frozen" /\ x.name = x.on /\ x.name # Provenance
      BY Vocabulary, EntryFields DEF V1Relations
    <2>2. \A x \in V1Indexes : x \in Entries /\ x.kind = "index" /\ ~x.foreign /\ x.def = "frozen"
      BY Vocabulary, EntryFields DEF V1Indexes, V1Tables
    <2>3. \A x \in V1Constraints : x \in Entries /\ x.kind = "constraint" /\ ~x.foreign /\ x.def = "frozen"
      BY Vocabulary, EntryFields DEF V1Constraints, V1Tables
    <2>4. \A x \in V1Columns : x \in Entries /\ x.kind = "column" /\ ~x.foreign /\ x.def = "frozen"
              /\ x.on \in V1Tables
      BY Vocabulary, EntryFields DEF V1Columns, V1Tables
    <2>5. \A x \in V1Sequence : x \in Entries /\ x.kind = "sequence" /\ ~x.foreign /\ x.def = "frozen"
      BY Vocabulary, EntryFields DEF V1Sequence
    <2> QED BY <2>1, <2>2, <2>3, <2>4, <2>5 DEF V1PhysicalExpectation, Installed
  <1>2. Of(V1PhysicalExpectation, "sequence") = V1Sequence
    BY DEF V1PhysicalExpectation, V1Relations, V1Indexes, V1Constraints, V1Columns, V1Sequence, Entry, Of
  <1>3. V1Tables \subseteq {x.on : x \in Of(V1PhysicalExpectation, "column")}
    <2> SUFFICES ASSUME NEW t \in V1Tables
                 PROVE  \E x \in Of(V1PhysicalExpectation, "column") : x.on = t
      OBVIOUS
    <2>1. Entry("column", "id", t) \in V1PhysicalExpectation
      BY DEF V1PhysicalExpectation, V1Columns
    <2>2. Entry("column", "id", t).kind = "column" /\ Entry("column", "id", t).on = t
      BY DEF Entry
    <2> QED BY <2>1, <2>2 DEF Of
  <1>4. \E x \in V1PhysicalExpectation : x.kind = "relation" /\ x.name = Manifest
    <2>1. Entry("relation", Manifest, Manifest) \in V1PhysicalExpectation
      BY DEF V1PhysicalExpectation, V1Relations, V1Tables
    <2>2. Entry("relation", Manifest, Manifest).kind = "relation"
            /\ Entry("relation", Manifest, Manifest).name = Manifest
      BY DEF Entry
    <2> QED BY <2>1, <2>2
  <1>5. ~LedgerObjectsPresent(V1PhysicalExpectation)
    BY <1>1 DEF LedgerObjectsPresent, Of
  <1>6. \A x \in V1PhysicalExpectation : EntryOK(x)
    BY <1>1 DEF EntryOK, Installed
  <1>7. \A x \in V1PhysicalExpectation : x.kind \in Installed /\ ~x.foreign /\ x.def = "frozen"
    BY <1>1
  <1> QED BY <1>2, <1>3, <1>4, <1>5, <1>6, <1>7 DEF Expectation

\* The next version expects the ledger, and its version check is the wider one.
LEMMA NextIsExpectation ==
    /\ Expectation(NextPhysicalExpectation, "frozen2")
    /\ LedgerObjectsPresent(NextPhysicalExpectation)
    /\ Provenance \in {x.on : x \in Of(NextPhysicalExpectation, "column")}
  <1> DEFINE Old == Entry("constraint", "version_check", Manifest)
  <1>1. NextPhysicalExpectation = ((V1PhysicalExpectation \ {Old}) \cup {WiderCheck}) \cup LedgerObjects
    BY DEF NextPhysicalExpectation
  <1>2. \A x \in V1PhysicalExpectation \ {Old} :
            /\ EntryOK(x) /\ x.kind \in Installed /\ ~x.foreign /\ x.def = "frozen" /\ Named(x) # CheckName
    <2> SUFFICES ASSUME NEW x \in V1PhysicalExpectation, x # Old
                 PROVE  /\ EntryOK(x) /\ x.kind \in Installed /\ ~x.foreign
                        /\ x.def = "frozen" /\ Named(x) # CheckName
      OBVIOUS
    <2>1. EntryOK(x) /\ x.kind \in Installed /\ ~x.foreign /\ x.def = "frozen"
      BY V1IsExpectation DEF Expectation
    <2>2. Named(x) # CheckName
      BY <2>1 DEF EntryOK, Entries, Named, CheckName, Entry
    <2> QED BY <2>1, <2>2
  <1>3. /\ EntryOK(WiderCheck) /\ WiderCheck.kind = "constraint" /\ ~WiderCheck.foreign
        /\ Named(WiderCheck) = CheckName /\ WiderCheck.def = "frozen2"
    BY DEF WiderCheck, Entry, EntryOK, Entries, Kinds, Names, Owners, Definitions, Named, CheckName, Manifest
  <1>4. \A x \in LedgerObjects :
            /\ EntryOK(x) /\ x.kind \in Installed \ {"sequence"} /\ ~x.foreign /\ x.def = "frozen"
            /\ Named(x) # CheckName
    <2>1. \A x \in LedgerObjects :
            /\ x \in Entries /\ x.kind \in Installed \ {"sequence"} /\ ~x.foreign /\ x.def = "frozen"
            /\ x.on = Provenance /\ (x.kind = "relation" => x.name = Provenance)
      BY Vocabulary, EntryFields DEF LedgerObjects
    <2>2. \A x \in LedgerObjects : Named(x) # CheckName
      BY <2>1, Vocabulary DEF Named, CheckName
    <2>3. \A x \in LedgerObjects : EntryOK(x)
      BY <2>1 DEF EntryOK
    <2> QED BY <2>1, <2>2, <2>3
  <1>5. Entry("column", "id", Provenance) \in LedgerObjects /\ Entry("relation", Provenance, Provenance) \in LedgerObjects
    BY DEF LedgerObjects
  <1> HIDE DEF Old
  <1>6. Of(NextPhysicalExpectation, "sequence") = V1Sequence
    <2>1. Of(NextPhysicalExpectation, "sequence") = Of(V1PhysicalExpectation, "sequence") \ {Old}
      BY <1>1, <1>3, <1>4 DEF Of
    <2>2. Old \notin V1Sequence
      BY DEF Old, V1Sequence, Entry
    <2> QED BY <2>1, <2>2, V1IsExpectation DEF Expectation
  <1>7. Old.kind = "constraint"
    BY DEF Old, Entry
  <1>8. V1Tables \subseteq {x.on : x \in Of(NextPhysicalExpectation, "column")}
    <2> SUFFICES ASSUME NEW t \in V1Tables
                 PROVE  \E x \in Of(NextPhysicalExpectation, "column") : x.on = t
      OBVIOUS
    <2>1. PICK x \in Of(V1PhysicalExpectation, "column") : x.on = t
      BY V1IsExpectation DEF Expectation
    <2> QED BY <1>1, <1>7, <2>1 DEF Of
  <1>9. \E x \in NextPhysicalExpectation : x.kind = "relation" /\ x.name = Manifest
    BY <1>1, <1>7, V1IsExpectation DEF Expectation
  <1>10. LedgerObjectsPresent(NextPhysicalExpectation)
    <2>1. Entry("relation", Provenance, Provenance).kind = "relation"
            /\ Entry("relation", Provenance, Provenance).name = Provenance
      BY DEF Entry
    <2> QED BY <1>1, <1>5, <2>1 DEF LedgerObjectsPresent, Of
  <1>11. Provenance \in {x.on : x \in Of(NextPhysicalExpectation, "column")}
    <2>1. Entry("column", "id", Provenance).kind = "column"
            /\ Entry("column", "id", Provenance).on = Provenance
      BY DEF Entry
    <2> QED BY <1>1, <1>5, <2>1 DEF Of
  <1>12. \A x \in NextPhysicalExpectation :
            /\ EntryOK(x) /\ x.kind \in Installed /\ ~x.foreign
            /\ x.def = IF Named(x) = CheckName THEN "frozen2" ELSE "frozen"
    BY <1>1, <1>2, <1>3, <1>4 DEF Installed
  <1> QED BY <1>6, <1>8, <1>9, <1>10, <1>11, <1>12 DEF Expectation

\* In an expectation a name has one entry.
LEMMA OneEntryPerName ==
  ASSUME NEW want, NEW def2, Expectation(want, def2),
         NEW x \in want, NEW y \in want, Named(x) = Named(y)
  PROVE  x = y
  <1>1. x \in Entries /\ y \in Entries /\ ~x.foreign /\ ~y.foreign /\ x.def = y.def
    BY DEF Expectation, EntryOK
  <1>2. x.kind = y.kind /\ x.name = y.name /\ x.on = y.on
    BY DEF Named
  <1> QED BY <1>1, <1>2 DEF Entries

\* An entry without outside dependency is what the definition tests compare.
LEMMA PlainIsSame ==
  ASSUME NEW x \in Entries, ~x.foreign
  PROVE  [x EXCEPT !.foreign = FALSE] = x
  BY DEF Entries

\* The tests of verifyD1LPhysical admit nothing that is not expected: an extra
\* or altered entry is met by the test of its class.
LEMMA NothingExtra ==
  ASSUME NEW e, EntriesOK(e), NEW want, NEW def2, Expectation(want, def2),
         LedgerObjectsPresent(e) => Provenance \in {x.on : x \in Of(want, "column")},
         VerifyPhysical(e, want)
  PROVE  e \subseteq want
  <1> SUFFICES ASSUME NEW x \in e PROVE x \in want
    OBVIOUS
  <1>1. EntryOK(x) /\ x \in Entries /\ x.kind \in Kinds /\ (x.on = Provenance => LedgerObjectsPresent(e))
    BY DEF EntriesOK, EntryOK, Entries
  <1>2. ASSUME x.kind \in {"relation", "index", "constraint", "column"}
        PROVE  ~x.foreign /\ x = [x EXCEPT !.foreign = FALSE]
    <2>1. ~x.foreign
      BY <1>2 DEF VerifyPhysical, VerifyDependencies, Of
    <2> QED BY <1>1, <2>1, PlainIsSame
  <1>3. CASE x.kind = "relation"
    <2>1. x \in Plain(Of(e, "relation"))
      BY <1>2, <1>3 DEF Plain, Of
    <2> QED BY <2>1 DEF VerifyPhysical, RelationsExact, Matches, Of
  <1>4. CASE x.kind = "index"
    <2>1. x \in Plain(Of(e, "index"))
      BY <1>2, <1>4 DEF Plain, Of
    <2> QED BY <2>1 DEF VerifyPhysical, VerifyIndexes, Of
  <1>5. CASE x.kind = "constraint"
    <2>1. x \in Plain(Of(e, "constraint"))
      BY <1>2, <1>5 DEF Plain, Of
    <2> QED BY <2>1 DEF VerifyPhysical, VerifyConstraints, Matches, Of
  <1>6. CASE x.kind = "column"
    <2>1. x.on \in {y.on : y \in Of(want, "column")}
      BY <1>1, <1>6 DEF EntryOK, Expectation
    <2>2. x \in Plain({y \in Of(e, "column") : y.on = x.on})
      BY <1>2, <1>6 DEF Plain, Of
    <2>3. x \in {y \in Of(want, "column") : y.on = x.on}
      BY <2>1, <2>2 DEF VerifyPhysical, VerifyColumns
    <2> QED BY <2>3 DEF Of
  <1>7. CASE x.kind = "sequence"
    <2>1. [x EXCEPT !.foreign = FALSE] = x
      BY <1>1, <1>7, PlainIsSame DEF EntryOK
    <2>2. x \in Plain(Of(e, "sequence"))
      BY <1>7, <2>1 DEF Plain, Of
    <2>3. x \in Of(want, "sequence")
      BY <2>2 DEF VerifyPhysical, VerifySequence, Expectation
    <2> QED BY <2>3 DEF Of
  <1>8. CASE x.kind \in {"trigger", "rule"}
    BY <1>1, <1>8 DEF EntryOK, VerifyPhysical, VerifyTriggers, VerifyRules, Of
  <1>9. CASE x.kind \in {"function", "type", "collation"}
    BY <1>9 DEF VerifyPhysical, RelationsExact, VerifyNamespaceObjects, Of
  <1> QED BY <1>1, <1>3, <1>4, <1>5, <1>6, <1>7, <1>8, <1>9 DEF Kinds

\* And they miss nothing that is expected.
LEMMA NothingMissing ==
  ASSUME NEW e, EntriesOK(e), NEW want, NEW def2, Expectation(want, def2),
         e \subseteq want, VerifyPhysical(e, want)
  PROVE  want \subseteq e
  <1> SUFFICES ASSUME NEW y \in want PROVE y \in e
    OBVIOUS
  <1>1. EntryOK(y) /\ y \in Entries /\ y.kind \in Installed /\ ~y.foreign
    BY DEF Expectation, EntryOK
  <1>2. \A x \in e : [x EXCEPT !.foreign = FALSE] = x
    BY PlainIsSame DEF Expectation, EntryOK
  <1>3. ASSUME NEW k \in {"relation", "index", "constraint"}, y.kind = k,
               Complete(Of(e, k), Of(want, k))
        PROVE  y \in e
    <2>1. y \in Of(want, k)
      BY <1>3 DEF Of
    <2>2. PICK x \in Of(e, k) : Named(x) = Named(y)
      BY <1>3, <2>1 DEF Complete
    <2>3. x \in e /\ x \in want
      BY DEF Of
    <2> QED BY <2>2, <2>3, OneEntryPerName
  <1>4. CASE y.kind \in {"relation", "index", "constraint"}
    BY <1>3, <1>4 DEF VerifyPhysical, RelationsExact, VerifyIndexes, VerifyConstraints
  <1>5. CASE y.kind = "column"
    <2>1. y \in {z \in Of(want, "column") : z.on = y.on}
      BY <1>5 DEF Of
    <2>2. y.on \in {x.on : x \in Of(want, "column")}
      BY <2>1
    <2>3. y \in Plain({z \in Of(e, "column") : z.on = y.on})
      BY <2>1, <2>2 DEF VerifyPhysical, VerifyColumns
    <2> QED BY <1>2, <2>3 DEF Plain, Of
  <1>6. CASE y.kind = "sequence"
    <2>1. y \in Of(want, "sequence")
      BY <1>6 DEF Of
    <2>2. y \in Plain(Of(e, "sequence"))
      BY <2>1 DEF VerifyPhysical, VerifySequence, Expectation
    <2> QED BY <1>2, <2>2 DEF Plain, Of
  <1> QED BY <1>1, <1>4, <1>5, <1>6 DEF Installed

\* What was installed passes every test.
LEMMA ExpectedIsVerified ==
  ASSUME NEW want, NEW def2, Expectation(want, def2), def2 # "other keys"
  PROVE  VerifyPhysical(want, want)
  <1>1. \A x \in want : /\ x \in Entries /\ x.kind \in Installed /\ ~x.foreign
                        /\ [x EXCEPT !.foreign = FALSE] = x
    BY PlainIsSame DEF Expectation, EntryOK
  <1>2. \A s \in SUBSET want : Plain(s) = s
    BY <1>1 DEF Plain
  <1>3. \A k \in Kinds : Of(want, k) \in SUBSET want
    BY DEF Of
  <1>4. \A k \in Kinds \ Installed : Of(want, k) = {}
    BY <1>1 DEF Of
  <1>5. "relation" \in Kinds /\ "constraint" \in Kinds /\ "index" \in Kinds /\ "sequence" \in Kinds
    BY DEF Kinds
  <1>6. /\ "function" \in Kinds \ Installed /\ "trigger" \in Kinds \ Installed
        /\ "rule" \in Kinds \ Installed /\ "type" \in Kinds \ Installed
        /\ "collation" \in Kinds \ Installed
    BY DEF Kinds, Installed
  <1>7. RelationsExact(want, want)
    BY <1>2, <1>3, <1>4, <1>5, <1>6 DEF RelationsExact, Matches, Complete
  <1>8. VerifyTriggers(want) /\ VerifyRules(want) /\ VerifyNamespaceObjects(want)
    BY <1>4, <1>6 DEF VerifyTriggers, VerifyRules, VerifyNamespaceObjects
  <1>9. VerifyColumns(want, want)
    <2>1. ASSUME NEW t
          PROVE  Plain({x \in Of(want, "column") : x.on = t}) = {x \in Of(want, "column") : x.on = t}
      <3>1. {x \in Of(want, "column") : x.on = t} \in SUBSET want
        BY DEF Of
      <3> QED BY <1>2, <3>1
    <2> QED BY <2>1 DEF VerifyColumns
  <1>10. VerifySequence(want)
    BY <1>2, <1>3, <1>5 DEF VerifySequence, Expectation
  <1>11. VerifyConstraints(want, want)
    BY <1>2, <1>3, <1>5 DEF VerifyConstraints, Matches, Complete
  <1>12. VerifyIndexes(want, want)
    <2>1. \A x \in Of(want, "index") : VerifyIndexKeys(x)
      BY DEF Expectation, Of, VerifyIndexKeys
    <2> QED BY <1>2, <1>3, <1>5, <2>1 DEF VerifyIndexes, Complete
  <1>13. VerifyDependencies(want)
    BY <1>1 DEF VerifyDependencies, Of
  <1> QED BY <1>7, <1>8, <1>9, <1>10, <1>11, <1>12, <1>13 DEF VerifyPhysical

\* verifyD1LPhysical decides equality.
LEMMA VerifyIsExact ==
  ASSUME NEW e, EntriesOK(e)
  PROVE  /\ ~LedgerObjectsPresent(e) /\ VerifyPhysical(e, V1PhysicalExpectation) <=> e = V1PhysicalExpectation
         /\ VerifyPhysical(e, NextPhysicalExpectation) <=> e = NextPhysicalExpectation
  <1>1. ~LedgerObjectsPresent(e) /\ VerifyPhysical(e, V1PhysicalExpectation) => e = V1PhysicalExpectation
    BY V1IsExpectation, NothingExtra, NothingMissing
  <1>2. VerifyPhysical(e, NextPhysicalExpectation) => e = NextPhysicalExpectation
    BY NextIsExpectation, NothingExtra, NothingMissing
  <1>3. VerifyPhysical(V1PhysicalExpectation, V1PhysicalExpectation)
    BY V1IsExpectation, ExpectedIsVerified
  <1>4. VerifyPhysical(NextPhysicalExpectation, NextPhysicalExpectation)
    BY NextIsExpectation, ExpectedIsVerified
  <1> QED BY <1>1, <1>2, <1>3, <1>4, V1IsExpectation

(***************************************************************************)
(* The invariant holds                                                     *)
(***************************************************************************)
\* Nothing to prove about an empty schema.
LEMMA InitCatalog == CatalogInit => CatalogInv
  <1> SUFFICES ASSUME CatalogInit PROVE CatalogInv
    OBVIOUS
  <1>1. EntriesOK(entries)
    BY DEF CatalogInit, EntriesOK
  <1>2. manifest \subseteq Rows /\ IsFiniteSet(manifest)
    BY FS_EmptySet DEF CatalogInit
  <1> QED BY <1>1, <1>2 DEF CatalogInit, CatalogInv

\* What an expectation holds is what a schema may hold.
LEMMA ExpectationsOK == EntriesOK(V1PhysicalExpectation) /\ EntriesOK(NextPhysicalExpectation)
  <1>1. \A x \in V1PhysicalExpectation : EntryOK(x) /\ x.on # Provenance
    <2>1. \A x \in V1PhysicalExpectation : EntryOK(x)
      BY V1IsExpectation DEF Expectation
    <2>2. \A x \in V1PhysicalExpectation : x.on # Provenance
      BY Vocabulary DEF V1PhysicalExpectation, V1Relations, V1Indexes, V1Constraints,
         V1Columns, V1Sequence, Entry
    <2> QED BY <2>1, <2>2
  <1> QED BY <1>1, NextIsExpectation DEF EntriesOK, Expectation

\* A statement by hand keeps it so: it adds to a table that is there, DROP
\* TABLE takes what belongs to the table, ALTER keeps class, name and table.
LEMMA EditKeeps ==
  ASSUME EntriesOK(entries), EditEntries
  PROVE  EntriesOK(entries)'
  <1>1. ASSUME NEW x \in ForeignEntries, entries' = entries \cup {x},
               x.on \in {"x", "none"} \/ \E y \in Of(entries, "relation") : y.name = x.on
        PROVE  EntriesOK(entries)'
    <2>1. EntryOK(x)
      <3>1. CASE x = Entry("relation", "x", "x")
        BY <3>1 DEF Entry, EntryOK, Entries, Kinds, Names, Owners, Definitions
      <3>2. ASSUME NEW k \in {"function", "type", "collation"}, x = Entry(k, "x", "none") PROVE EntryOK(x)
        BY <3>2 DEF Entry, EntryOK, Entries, Kinds, Names, Owners, Definitions
      <3>3. ASSUME NEW k \in {"trigger", "rule", "column", "constraint", "index"},
                   NEW t \in {Leases, Provenance}, x = Entry(k, "x", t)
            PROVE EntryOK(x)
        BY <3>3 DEF Entry, EntryOK, Entries, Kinds, Names, Owners, Definitions, V1Tables
      <3> QED BY <1>1, <3>1, <3>2, <3>3 DEF ForeignEntries
    <2>2. LedgerObjectsPresent(entries) => LedgerObjectsPresent(entries)'
      BY <1>1 DEF LedgerObjectsPresent, Of
    <2>3. x.on = Provenance => LedgerObjectsPresent(entries)
      BY <1>1 DEF LedgerObjectsPresent, Of, Provenance
    <2> QED BY <1>1, <2>1, <2>2, <2>3 DEF EntriesOK
  <1>2. ASSUME NEW x \in entries,
               entries' = entries \ IF x.kind = "relation" THEN Dependents(x.on) ELSE {x}
        PROVE  EntriesOK(entries)'
    <2>1. \A y \in entries' : y \in entries /\ EntryOK(y)
      BY <1>2 DEF EntriesOK
    <2> SUFFICES ASSUME NEW y \in entries', y.on = Provenance PROVE LedgerObjectsPresent(entries)'
      BY <2>1 DEF EntriesOK
    <2>2. PICK z \in entries : z.kind = "relation" /\ z.name = Provenance
      BY <2>1 DEF EntriesOK, LedgerObjectsPresent, Of
    <2>3. z.on = Provenance
      BY <2>2 DEF EntriesOK, EntryOK
    <2>4. z \in entries'
      BY <1>2, <2>1, <2>2, <2>3 DEF Dependents
    <2> QED BY <2>2, <2>4 DEF LedgerObjectsPresent, Of
  <1>3. ASSUME NEW x \in entries, NEW z, EntryOK(z), entries' = (entries \ {x}) \cup {z},
               z.kind = x.kind, z.name = x.name, z.on = x.on
        PROVE  EntriesOK(entries)'
    <2>1. LedgerObjectsPresent(entries) => LedgerObjectsPresent(entries)'
      BY <1>3 DEF LedgerObjectsPresent, Of
    <2> QED BY <1>3, <2>1 DEF EntriesOK
  <1>4. ASSUME NEW x \in entries, NEW d \in {"frozen", "frozen2", "altered", "other keys"},
               entries' = (entries \ {x}) \cup {[x EXCEPT !.def = d]}
        PROVE  EntriesOK(entries)'
    <2>1. EntryOK(x)
      BY DEF EntriesOK
    <2>2. /\ EntryOK([x EXCEPT !.def = d])
          /\ [x EXCEPT !.def = d].kind = x.kind /\ [x EXCEPT !.def = d].name = x.name
          /\ [x EXCEPT !.def = d].on = x.on
      BY <2>1 DEF EntryOK, Entries, Definitions
    <2> QED BY <1>3, <1>4, <2>2
  <1>5. ASSUME NEW x \in entries, x.kind \in {"relation", "index", "constraint", "column"},
               entries' = (entries \ {x}) \cup {[x EXCEPT !.foreign = TRUE]}
        PROVE  EntriesOK(entries)'
    <2>1. EntryOK(x)
      BY DEF EntriesOK
    <2>2. /\ EntryOK([x EXCEPT !.foreign = TRUE])
          /\ [x EXCEPT !.foreign = TRUE].kind = x.kind /\ [x EXCEPT !.foreign = TRUE].name = x.name
          /\ [x EXCEPT !.foreign = TRUE].on = x.on
      BY <1>5, <2>1 DEF EntryOK, Entries
    <2> QED BY <1>3, <1>5, <2>2
  <1> QED BY <1>1, <1>2, <1>4, <1>5 DEF EditEntries

\* Installation, transition and edits keep the catalog well formed
\* (D1LBootstrap, D1LUpgradeLedger).
LEMMA NextCatalog == CatalogInv /\ [CatalogNext]_catalogVars => CatalogInv'
  <1> SUFFICES ASSUME CatalogInv, [CatalogNext]_catalogVars PROVE CatalogInv'
    OBVIOUS
  <1>1. CASE UNCHANGED catalogVars
    BY <1>1 DEF catalogVars, CatalogInv, EntriesOK, LedgerObjectsPresent, Of
  <1>2. V1Row \in Rows /\ NextRow \in Rows
    <2>1. ASSUME NEW v \in 1..3, NEW d \in BOOLEAN, NEW t \in {"this", "other"}, NEW i \in {"v1", "next"}
          PROVE  Row(v, d, t, i) \in Rows
      BY DEF Rows
    <2>2. Row(1, FALSE, "this", "v1") \in Rows /\ Row(2, FALSE, "this", "next") \in Rows
      <3>1. 1 \in 1..3 /\ 2 \in 1..3
        OBVIOUS
      <3> QED BY <2>1, <3>1, Zenon
    <2> QED BY <2>2 DEF V1Row, NextRow
  <1>3. CASE Install
    <2>1. EntriesOK(entries)'
      BY <1>3, ExpectationsOK DEF Install, EntriesOK, LedgerObjectsPresent, Of
    <2> QED BY <1>2, <1>3, <2>1, FS_Singleton DEF Install, CatalogInv
  <1>4. CatalogState = "VALID_V1" => entries = V1PhysicalExpectation /\ present
    <2>1. \A r : OfDirty(entries, r) # "VALID_V1" /\ OfNext(entries, r) # "VALID_V1"
      BY DEF OfDirty, OfNext
    <2>2. \A r : OfV1(entries, r) = "VALID_V1" => entries = V1PhysicalExpectation
      BY VerifyIsExact DEF OfV1, CatalogInv
    <2> QED BY <2>1, <2>2 DEF CatalogState, Recognize, OfRow
  <1>5. CASE UpgradeLedger
    <2>1. entries' = NextPhysicalExpectation
      BY <1>4, <1>5 DEF UpgradeLedger
    <2>2. EntriesOK(entries)'
      BY <2>1, ExpectationsOK DEF EntriesOK, LedgerObjectsPresent, Of
    <2> QED BY <1>2, <1>4, <1>5, <2>2, FS_Singleton DEF UpgradeLedger, CatalogInv
  <1>6. CASE EditByHand
    <2> edits' \in Nat
      <3>1. edits' = edits + 1 /\ edits \in Nat
        BY <1>6 DEF EditByHand, CatalogInv
      <3> QED BY <3>1
    <2>1. CASE present /\ EditEntries /\ UNCHANGED <<application, present, manifest>>
      BY <2>1, EditKeeps DEF CatalogInv
    <2>2. ASSUME UNCHANGED entries PROVE EntriesOK(entries)'
      BY <2>2 DEF CatalogInv, EntriesOK, LedgerObjectsPresent, Of
    <2>3. ASSUME present, NEW r \in Rows, manifest' = {r} \/ manifest' = manifest \cup {r},
                 UNCHANGED <<application, present, entries>>
          PROVE  CatalogInv'
      <3>1. manifest' \subseteq Rows /\ IsFiniteSet(manifest')
        <4>1. IsFiniteSet({r}) /\ IsFiniteSet(manifest \cup {r})
          BY FS_Singleton, FS_AddElement DEF CatalogInv
        <4> QED BY <2>3, <4>1 DEF CatalogInv
      <3> QED BY <2>2, <2>3, <3>1 DEF CatalogInv
    <2>4. CASE present /\ manifest' = {} /\ UNCHANGED <<application, present, entries>>
      BY <2>2, <2>4, FS_EmptySet DEF CatalogInv
    <2>5. CASE present' = ~present /\ entries' = {} /\ manifest' = {} /\ UNCHANGED application
      BY <2>5, FS_EmptySet DEF CatalogInv, EntriesOK
    <2>6. CASE /\ application' \in {[application EXCEPT !.metadata = "dirty"],
                                    [application EXCEPT !.relations = "drifted"]}
               /\ UNCHANGED <<present, entries, manifest>>
      BY <2>2, <2>6 DEF CatalogInv
    <2> QED BY <1>6, <2>1, <2>3, <2>4, <2>5, <2>6 DEF EditByHand
  <1> QED BY <1>1, <1>3, <1>5, <1>6 DEF CatalogNext

(***************************************************************************)
(* The recognizer                                                          *)
(***************************************************************************)
\* A manifest of one row is the row that is read.
LEMMA OneRow ==
  ASSUME NEW rows, IsFiniteSet(rows)
  PROVE  Cardinality(rows) = 1 <=> \E r : rows = {r} /\ (CHOOSE q \in rows : TRUE) = r
  <1>1. ASSUME Cardinality(rows) = 1 PROVE \E r : rows = {r} /\ (CHOOSE q \in rows : TRUE) = r
    <2>1. PICK r : rows = {r}
      BY <1>1, FS_Singleton
    <2>2. (CHOOSE q \in {r} : TRUE) = r
      OBVIOUS
    <2> QED BY <2>1, <2>2
  <1>2. ASSUME NEW r, rows = {r} PROVE Cardinality(rows) = 1
    BY <1>2, FS_Singleton
  <1> QED BY <1>1, <1>2

\* The fields of a row of the manifest are the row.
LEMMA RowsByFields ==
  ASSUME NEW r \in Rows
  PROVE  /\ r.dirty \in BOOLEAN
         /\ (r.version = 1 /\ ~r.dirty /\ r.target = "this" /\ r.installer = "v1") <=> r = V1Row
         /\ (r.version = 2 /\ ~r.dirty /\ r.target = "this" /\ r.installer = "next") <=> r = NextRow
  <1>1. PICK v \in 1..3, d \in BOOLEAN, t \in {"this", "other"}, i \in {"v1", "next"} : r = Row(v, d, t, i)
    BY DEF Rows
  <1>2. r.version = v /\ r.dirty = d /\ r.target = t /\ r.installer = i
    BY <1>1 DEF Row
  <1>3. /\ V1Row.version = 1 /\ ~V1Row.dirty /\ V1Row.target = "this" /\ V1Row.installer = "v1"
        /\ NextRow.version = 2 /\ ~NextRow.dirty /\ NextRow.target = "this" /\ NextRow.installer = "next"
    BY DEF V1Row, NextRow, Row
  <1>4. ASSUME v = 1, ~d, t = "this", i = "v1" PROVE r = V1Row
    BY <1>1, <1>4 DEF V1Row, Row
  <1>5. ASSUME v = 2, ~d, t = "this", i = "next" PROVE r = NextRow
    BY <1>1, <1>5 DEF NextRow, Row
  <1> QED BY <1>2, <1>3, <1>4, <1>5

\* What one row and the entries are recognized as.
LEMMA RowIsRecognized ==
  ASSUME NEW e, EntriesOK(e), NEW r \in Rows
  PROVE  /\ OfRow(e, r) \in CatalogStates \ {"V5_BASE"}
         /\ OfRow(e, r) = "VALID_V1" <=> r = V1Row /\ e = V1PhysicalExpectation
         /\ OfRow(e, r) = "VALID_NEXT_LEDGER_READY" <=> r = NextRow /\ e = NextPhysicalExpectation
  <1>1. /\ OfDirty(e, r) \in {"WRONG_PHYSICAL_DEFINITION", "DIRTY"}
        /\ OfV1(e, r) \in {"FUTURE_OR_HYBRID", "WRONG_PHYSICAL_DEFINITION", "WRONG_INSTALLER_DIGEST", "VALID_V1"}
        /\ OfNext(e, r) \in {"PARTIAL", "WRONG_INSTALLER_DIGEST", "WRONG_PHYSICAL_DEFINITION",
                             "VALID_NEXT_LEDGER_READY"}
    BY DEF OfDirty, OfV1, OfNext
  <1>2. OfV1(e, r) = "VALID_V1" <=> e = V1PhysicalExpectation /\ r.installer = "v1"
    BY VerifyIsExact DEF OfV1
  <1>3. OfNext(e, r) = "VALID_NEXT_LEDGER_READY" <=> e = NextPhysicalExpectation /\ r.installer = "next"
    BY VerifyIsExact, NextIsExpectation DEF OfNext
  <1>4. OfRow(e, r) \in CatalogStates \ {"V5_BASE"}
    BY <1>1 DEF OfRow, CatalogStates
  <1>5. OfRow(e, r) = "VALID_V1" <=>
            ~r.dirty /\ r.target = "this" /\ r.version = 1 /\ OfV1(e, r) = "VALID_V1"
    BY <1>1 DEF OfRow
  <1>6. OfRow(e, r) = "VALID_NEXT_LEDGER_READY" <=>
            ~r.dirty /\ r.target = "this" /\ r.version = 2 /\ OfNext(e, r) = "VALID_NEXT_LEDGER_READY"
    BY <1>1 DEF OfRow
  <1> QED BY <1>2, <1>3, <1>4, <1>5, <1>6, RowsByFields

\* The expectations have relations, the manifest among them.
LEMMA ManifestIsThere ==
  ASSUME NEW e \in {V1PhysicalExpectation, NextPhysicalExpectation}
  PROVE  Of(e, "relation") # {} /\ ~(\A x \in Of(e, "relation") : x.name # Manifest)
  BY V1IsExpectation, NextIsExpectation DEF Expectation, Of

\* The recognizer says VALID exactly of what was installed, and V5_BASE exactly
\* where nothing is (RecognizeD1LCatalogWithConfig).
LEMMA RecognizerIsExact == CatalogInv => CatalogIsExact
  <1> SUFFICES ASSUME CatalogInv PROVE CatalogIsExact
    OBVIOUS
  <1>1. ExactV5Application(application) <=> Untouched
    <2>1. application \in [metadata : {"clean v5", "dirty"}, relations : {"exact", "drifted"}]
      BY DEF CatalogInv
    <2>2. application = [metadata |-> application.metadata, relations |-> application.relations]
      BY <2>1
    <2>3. application.metadata = "clean v5" /\ application.relations = "exact" => Untouched
      BY <2>2 DEF Untouched
    <2>4. ASSUME Untouched PROVE application.metadata = "clean v5" /\ application.relations = "exact"
      <3>1. application = [metadata |-> "clean v5", relations |-> "exact"]
        BY <2>4 DEF Untouched
      <3> QED BY <3>1
    <2> QED BY <2>3, <2>4 DEF ExactV5Application
  <1> DEFINE
        Reads == /\ Untouched /\ present /\ Of(entries, "relation") # {}
                 /\ ~(\A x \in Of(entries, "relation") : x.name # Manifest)
                 /\ Cardinality(manifest) = 1
        read == CHOOSE r \in manifest : TRUE
  <1>2. CASE ~Reads
    <2>1. CatalogState \in {"PARTIAL", "V5_BASE", "EMPTY_SCHEMA"}
      BY <1>1, <1>2 DEF CatalogState, Recognize
    <2>2. CatalogState = "V5_BASE" <=> Untouched /\ ~present
      BY <1>1, <1>2 DEF CatalogState, Recognize
    <2>3. ~(/\ Untouched /\ present /\ entries \in {V1PhysicalExpectation, NextPhysicalExpectation}
            /\ \E r : manifest = {r})
      BY <1>2, ManifestIsThere, FS_Singleton
    <2> QED BY <2>1, <2>2, <2>3 DEF CatalogIsExact, RecognizedIsExact, BaseIsBare, CatalogStates
  <1>3. CASE Reads
    <2>1. CatalogState = OfRow(entries, read)
      BY <1>1, <1>3 DEF CatalogState, Recognize
    <2>2. manifest = {read}
      <3>1. IsFiniteSet(manifest) /\ Cardinality(manifest) = 1
        BY <1>3 DEF CatalogInv
      <3> QED BY <3>1, OneRow
    <2> HIDE DEF read
    <2>3. read \in Rows /\ EntriesOK(entries)
      BY <2>2 DEF CatalogInv
    <2>4. \A r : manifest = {r} <=> read = r
      BY <2>2
    <2> QED BY <1>3, <2>1, <2>3, <2>4, RowIsRecognized
            DEF CatalogIsExact, RecognizedIsExact, BaseIsBare
  <1> QED BY <1>2, <1>3

\* The catalog stays well formed under any number of edits.
THEOREM CatalogInvariance == CatalogSpec => []CatalogInv
  BY InitCatalog, NextCatalog, PTL DEF CatalogSpec

\* However often the schema was edited by hand, the recognizer calls it
\* installed exactly when it is what the installer or the transition left, and
\* bare exactly when there is none (RecognizeD1LCatalogWithConfig,
\* verifyD1LPhysical).
THEOREM CatalogStaysExact == CatalogSpec => []CatalogIsExact
  BY CatalogInvariance, RecognizerIsExact, PTL

\* A step that installs or upgrades starts from a proven catalog.
LEMMA StepsAreProven == CatalogInv /\ [CatalogNext]_catalogVars => OnlyProvenSteps
  <1> SUFFICES ASSUME CatalogInv, [CatalogNext]_catalogVars PROVE OnlyProvenSteps
    OBVIOUS
  <1>1. CASE UNCHANGED catalogVars
    BY <1>1 DEF catalogVars, OnlyProvenSteps
  <1>2. CASE Install
    <2>1. entries = {}
      BY <1>2, RecognizerIsExact DEF Install, CatalogIsExact, BaseIsBare, CatalogInv
    <2>2. manifest' # {NextRow}
      <3>1. V1Row # NextRow
        BY DEF V1Row, NextRow, Row
      <3> QED BY <1>2, <3>1 DEF Install
    <2> QED BY <2>1, <2>2 DEF OnlyProvenSteps
  <1>3. CASE UpgradeLedger
    <2>1. entries = V1PhysicalExpectation
      BY <1>3, RecognizerIsExact DEF UpgradeLedger, CatalogIsExact, RecognizedIsExact
    <2>2. entries' = NextPhysicalExpectation
      BY <1>3, <2>1 DEF UpgradeLedger
    <2>3. CatalogState = "VALID_V1" /\ CatalogState' = "VALID_NEXT_LEDGER_READY"
      BY <1>3 DEF UpgradeLedger, CatalogState
    <2> QED BY <2>2, <2>3 DEF OnlyProvenSteps
  <1>4. CASE EditByHand
    <2>1. edits' # edits
      <3>1. edits' = edits + 1 /\ edits \in Nat
        BY <1>4 DEF EditByHand, CatalogInv
      <3> QED BY <3>1
    <2> QED BY <2>1 DEF OnlyProvenSteps
  <1> QED BY <1>1, <1>2, <1>3, <1>4 DEF CatalogNext

-----------------------------------------------------------------------------
(* The parts together *)

\* A step that writes no row takes nothing back.
LEMMA UnwrittenGrows ==
  ASSUME UNCHANGED <<request, auth, intent>>
  PROVE  StepGrows
BY DEF StepGrows, Grows

\* Nor does a step of the bootstrap: only the provider writes rows, for its
\* callers, its runbook and the controller that asks for an authorization.
LEMMA InstallGrows ==
  ASSUME InstallInv, InstallNext
  PROVE  StepGrows
<1>0. IInv
  BY DEF InstallInv
<1>1. ASSUME NEW r \in Requests, Runner(r) PROVE StepGrows
  <2>1. UNCHANGED <<request, auth, intent>>
    BY <1>1 DEF Runner, Pin, RecognizeTarget, Inspect, SendConsume, AwaitConsume, Guard, Ddl, Commit,
       Prove, Discard, SendResolve, AwaitResolve, InspectFresh, ApplyUpgrade, Deliver, tables, ledgerVars
  <2> QED  BY <2>1, UnwrittenGrows
<1>2. ASSUME NEW r \in Requests, Server(r) \/ LoseTarget(r) \/ CrashRunner(r) PROVE StepGrows
  <2>1. UNCHANGED <<request, auth, intent>>
    BY <1>2 DEF Server, ServerEndsCommit, ServerReaps, LoseTarget, CrashRunner, tables, ledgerVars
  <2> QED  BY <2>1, UnwrittenGrows
<1>3. ASSUME NEW r \in Requests, Controller(r) PROVE StepGrows
  <2>1. CASE IssueAuthorization(r)
    <3>1. PICK p \in Processes, t \in Attempts : Issue(p, r, t)
      BY <2>1 DEF IssueAuthorization
    <3>2. Counts
      BY <2>1 DEF IssueAuthorization, Counts
    <3> QED  BY <1>0, <3>1, <3>2, IssueKeeps
  <2>2. CASE IssueUnavailable(r) \/ Launch(r) \/ ReturnResult(r)
    <3>1. UNCHANGED <<request, auth, intent>>
      BY <2>2 DEF IssueUnavailable, Launch, ReturnResult, ledgerVars
    <3> QED  BY <3>1, UnwrittenGrows
  <2> QED  BY <1>3, <2>1, <2>2 DEF Controller
<1>4. ASSUME NEW p \in Processes, Provider(p) PROVE StepGrows
  BY <1>0, <1>4, ConsumeKeeps, ResolveConsumeKeeps, RefusalsKeep, AcquireKeeps, SessionsKeep
     DEF Provider, Handle, Authorities
<1>5. ASSUME NEW p \in Processes, Operator(p) PROVE StepGrows
  <2>1. PICK r \in Requests : Lifecycle(p, r, "revoke")
    BY <1>5 DEF Operator, Revoke
  <2>2. Counts
    BY <1>5 DEF Operator, Counts
  <2> QED  BY <1>0, <2>1, <2>2, LifecycleSafe
<1>6. CASE RecoveryCalls
  BY <1>6, UnwrittenGrows DEF RecoveryCalls, tables
<1>7. ASSUME NEW r \in Requests, Lapse(r) PROVE StepGrows
  BY <1>0, <1>7, LapseKeeps
<1> QED  BY <1>1, <1>2, <1>3, <1>4, <1>5, <1>6, <1>7 DEF InstallNext

\* However the authority, the runs of the bootstrap and the editors of the
\* schema proceed, what has ended is not started again, and a catalog is taken
\* forward only from a state that was proven.
THEOREM NothingEverReopens == PartsSpec => NothingReopens
<1> DEFINE Moves == [Parts /\ UNCHANGED part]_<<allVars, catalogVars, part>>
           Whole == CatalogInv /\ IInv /\ (part = "install" => InstallInv)
<1>1. PartsInit => Whole
  BY InstallStart, InitCatalog DEF PartsInit, InstallInv
<1>2. ASSUME Whole, Moves
      PROVE  Whole' /\ [TerminalIsFinal /\ OnlyProvenSteps]_<<allVars, catalogVars>>
  <2>0. ASSUME StepGrows PROVE TerminalIsFinal
    BY <2>0 DEF StepGrows, Grows, TerminalIsFinal
  <2>1. ASSUME UNCHANGED catalogVars PROVE CatalogInv' /\ OnlyProvenSteps
    BY <1>2, <2>1, NextCatalog, StepsAreProven
  <2>2. CASE part = "ledger" /\ LedgerNext /\ UNCHANGED <<installVars, catalogVars>> /\ UNCHANGED part
    BY <1>2, <2>0, <2>1, <2>2, NextSafe
  <2>3. CASE part = "install" /\ InstallNext /\ UNCHANGED catalogVars /\ UNCHANGED part
    <3>1. InstallInv'
      BY <1>2, <2>3, InstallSafe
    <3>2. StepGrows
      BY <1>2, <2>3, InstallGrows
    <3> QED  BY <2>0, <2>1, <2>3, <3>1, <3>2 DEF InstallInv
  <2>4. CASE part = "catalog" /\ CatalogNext /\ UNCHANGED allVars /\ UNCHANGED part
    <3>1. CatalogInv' /\ OnlyProvenSteps
      BY <1>2, <2>4, NextCatalog, StepsAreProven
    <3>2. IInv' /\ StepGrows
      BY <1>2, <2>4, NextSafe DEF allVars
    <3> QED  BY <2>0, <2>4, <3>1, <3>2
  <2>5. CASE UNCHANGED <<allVars, catalogVars, part>>
    <3>1. CatalogInv'
      BY <2>1, <2>5
    <3>2. IInv'
      BY <1>2, <2>5, NextSafe DEF allVars
    <3>3. part = "install" => InstallInv'
      BY <1>2, <2>5, InstallSafe
    <3> QED  BY <2>5, <3>1, <3>2, <3>3
  <2> QED  BY <1>2, <2>2, <2>3, <2>4, <2>5 DEF Parts
<1> QED  BY <1>1, <1>2, PTL DEF PartsSpec, NothingReopens
=============================================================================
