---------------------------- MODULE SessionProofs ---------------------------
(***************************************************************************)
(* Proofs about RefreshSessions, for any set of calls, any lifetimes and   *)
(* any bound of the clock.                                                 *)
(***************************************************************************)
EXTENDS RefreshSessions, TLAPS

-----------------------------------------------------------------------------
(* The inductive invariant *)

\* The call works under a session lock.
Holding(c) ==
  \/ call[c].phase = "locked"
  \/ call[c].phase = "decided" /\ call[c].kind # "login"

\* A session row is locked by the call that works under its lock, so by one.
LockInv ==
  \A c \in Calls, f \in Families :
    (holder[f] = c) <=> (Holding(c) /\ call[c].fam = f)

\* What a call knows in each phase.
CallInv ==
  \A c \in Calls :
    /\ call[c].kind = "none" <=> call[c].phase = "idle"
    /\ call[c].kind = "login" => call[c].phase \in {"decided", "done"}
    /\ call[c].kind = "login" /\ call[c].phase = "decided" =>
         call[c].fam = c /\ call[c].out = "opened"
    /\ call[c].phase = "identified" => call[c].kind = "logout"
    /\ call[c].phase \in {"asked", "locked"} => call[c].asked \in Time
    /\ call[c].phase \in {"idle", "identified", "asked", "locked"} =>
         call[c].out = "none" /\ call[c].now = NULL
    /\ call[c].phase = "decided" =>
         call[c].now \in Time /\ call[c].out \notin {"none", "failed"}
    /\ call[c].out = "rotated" => call[c].kind = "refresh"
    /\ call[c].out = "opened" => call[c].kind = "login"
    /\ call[c].kind = "refresh" => call[c].out \notin {"opened", "revoked"}
    /\ call[c].phase = "done" => call[c].out # "none"
    /\ call[c].kind = "refresh" /\ call[c].tok = NoCall =>
         call[c].phase = "done" /\ call[c].out = "unauthorized" /\ call[c].now = NULL
    /\ call[c].tok # NoCall =>
         /\ call[c].kind = "refresh"
         /\ call[c].fam # NoCall
         /\ token[call[c].tok].fam = call[c].fam
    /\ call[c].kind = "logout" /\ call[c].fam = NoCall => call[c].phase = "done"
    /\ call[c].kind # "login" /\ call[c].fam # NoCall =>
         session[call[c].fam] # NoSession

\* A token belongs to a session, has its deadline and lies inside it.
RowInv ==
  \A t \in Tokens : token[t].fam # NoCall =>
    /\ session[token[t].fam] # NoSession
    /\ token[t].expires = session[token[t].fam].expires
    /\ token[t].issued <= clock

\* A call's rows appear when it is answered, not before.
FreshInv ==
  \A c \in Calls :
    /\ token[c].fam # NoCall <=> Answered(c)
    /\ session[c] # NoSession => call[c].phase = "done"

\* What was decided under the lock is still so.
DecisionInv ==
  \A c \in Calls : call[c].phase = "decided" /\ call[c].kind # "login" =>
    /\ call[c].out = "rotated" =>
         /\ session[call[c].fam].revoked = NULL
         /\ ~Historical(call[c].tok)
         /\ ~Sibling(call[c].fam, call[c].tok)
         /\ token[call[c].tok].issued <= call[c].now
         /\ call[c].now < token[call[c].tok].expires
    /\ call[c].out \in {"replay", "revoked"} =>
         call[c].rows = RevokedRows(call[c].fam)
    /\ call[c].kind = "refresh" /\ call[c].out = "unauthorized" =>
         ~Historical(call[c].tok)

\* Decision times of refreshes follow the order of their locks.
TimeInv ==
  /\ \A c \in Calls :
       call[c].kind \in {"login", "refresh"} /\ call[c].now # NULL => call[c].now <= clock
  /\ \A c, d \in Calls :
       /\ call[c].kind = "refresh" /\ call[c].phase = "decided"
       /\ call[d].kind = "refresh" /\ call[d].phase = "done"
       /\ call[d].now # NULL /\ call[d].fam = call[c].fam
       => call[d].now <= call[c].now

\* What a finished refresh has left behind.
ReplayInv ==
  \A c \in Calls :
    call[c].kind = "refresh" /\ call[c].phase = "done" /\ call[c].now # NULL =>
      /\ call[c].out = "replay" => session[call[c].fam].revoked # NULL
      /\ call[c].out \in {"unauthorized", "rotated"} =>
           \/ token[call[c].tok].consumed = NULL
           \/ call[c].now <= token[call[c].tok].consumed

IInv ==
  /\ TypeOK
  /\ LockInv
  /\ CallInv
  /\ RowInv
  /\ FreshInv
  /\ DecisionInv
  /\ TimeInv
  /\ OneCurrentToken
  /\ RevokedFamilyIsDead
  /\ LineageIsChain
  /\ ReplayInv

-----------------------------------------------------------------------------
(* What each action does to the record of its call *)

\* A call's record is replaced by another one.
LEMMA CallUpdate ==
  ASSUME TypeOK, NEW c \in Calls, NEW r \in Call, call' = [call EXCEPT ![c] = r]
  PROVE  /\ call' \in [Calls -> Call]
         /\ call'[c] = r
         /\ \A d \in Calls : d # c => call'[d] = call[d]
BY DEF TypeOK

\* A login is refused, or has inserted its rows and not yet committed.
LEMMA LoginStep ==
  ASSUME TypeOK, NEW c \in Calls, Login(c)
  PROVE  /\ call' \in [Calls -> Call]
         /\ \A d \in Calls : d # c => call'[d] = call[d]
         /\ call'[c].kind = "login" /\ call'[c].tok = NoCall
         /\ \/ /\ call'[c].phase = "done" /\ call'[c].out = "unauthorized"
               /\ call'[c].now = NULL
            \/ /\ call'[c].phase = "decided" /\ call'[c].out = "opened"
               /\ call'[c].fam = c /\ call'[c].now = clock
<1>1. CASE call' = [call EXCEPT ![c] = [NewCall EXCEPT
            !.phase = "done", !.kind = "login", !.out = "unauthorized"]]
  <2> DEFINE r == [NewCall EXCEPT !.phase = "done", !.kind = "login",
                                  !.out = "unauthorized"]
  <2>1. /\ r \in Call
        /\ r.phase = "done" /\ r.kind = "login" /\ r.out = "unauthorized"
        /\ r.now = NULL /\ r.tok = NoCall
    BY DEF NewCall, Call, Phases, Kinds, Outcomes, NULL
  <2> HIDE DEF r
  <2>2. call' = [call EXCEPT ![c] = r]
    BY <1>1 DEF r
  <2> QED  BY <2>1, <2>2, CallUpdate
<1>2. CASE call' = [call EXCEPT ![c] = [NewCall EXCEPT
            !.phase = "decided", !.kind = "login", !.fam = c,
            !.asked = clock, !.now = clock, !.out = "opened"]]
  <2> DEFINE r == [NewCall EXCEPT
            !.phase = "decided", !.kind = "login", !.fam = c,
            !.asked = clock, !.now = clock, !.out = "opened"]
  <2>1. /\ r \in Call
        /\ r.phase = "decided" /\ r.kind = "login" /\ r.out = "opened"
        /\ r.fam = c /\ r.now = clock /\ r.tok = NoCall
    BY DEF NewCall, Call, Phases, Kinds, Outcomes, NULL, TypeOK, Families, Tokens
  <2> HIDE DEF r
  <2>2. call' = [call EXCEPT ![c] = r]
    BY <1>2 DEF r
  <2> QED  BY <2>1, <2>2, CallUpdate
<1> QED  BY <1>1, <1>2 DEF Login

\* A refresh has found the ids of the presented token.
LEMMA RefreshStep ==
  ASSUME TypeOK, NEW c \in Calls, NEW t \in Tokens, Refresh(c, t)
  PROVE  /\ call' \in [Calls -> Call]
         /\ \A d \in Calls : d # c => call'[d] = call[d]
         /\ call'[c].phase = "asked" /\ call'[c].kind = "refresh"
         /\ call'[c].fam = token[t].fam /\ call'[c].tok = t
         /\ call'[c].asked = clock /\ call'[c].now = NULL /\ call'[c].out = "none"
<1> DEFINE r == [NewCall EXCEPT !.phase = "asked", !.kind = "refresh",
                     !.fam = token[t].fam, !.tok = t, !.asked = clock]
<1>1. token[t].fam \in Families \cup {NoCall}
  BY DEF TypeOK, Token, NoToken
<1>2. /\ r \in Call
      /\ r.phase = "asked" /\ r.kind = "refresh" /\ r.fam = token[t].fam
      /\ r.tok = t /\ r.asked = clock /\ r.now = NULL /\ r.out = "none"
  BY <1>1 DEF NewCall, Call, Phases, Kinds, Outcomes, NULL, TypeOK, Tokens
<1> HIDE DEF r
<1>3. call' = [call EXCEPT ![c] = r]
  BY DEF r, Refresh
<1> QED  BY <1>2, <1>3, CallUpdate

\* A value that is no token is denied.
LEMMA RefreshUnknownStep ==
  ASSUME TypeOK, NEW c \in Calls, RefreshUnknown(c)
  PROVE  /\ call' \in [Calls -> Call]
         /\ \A d \in Calls : d # c => call'[d] = call[d]
         /\ call'[c].phase = "done" /\ call'[c].kind = "refresh"
         /\ call'[c].fam = NoCall /\ call'[c].tok = NoCall
         /\ call'[c].now = NULL /\ call'[c].out = "unauthorized"
<1> DEFINE r == [NewCall EXCEPT !.phase = "done", !.kind = "refresh",
                                !.out = "unauthorized"]
<1>1. /\ r \in Call
      /\ r.phase = "done" /\ r.kind = "refresh" /\ r.fam = NoCall
      /\ r.tok = NoCall /\ r.now = NULL /\ r.out = "unauthorized"
  BY DEF NewCall, Call, Phases, Kinds, Outcomes, NULL
<1> HIDE DEF r
<1>2. call' = [call EXCEPT ![c] = r]
  BY DEF r, RefreshUnknown
<1> QED  BY <1>1, <1>2, CallUpdate

\* Authentication identifies the family of an access token or denies it.
LEMMA AuthenticateStep ==
  ASSUME TypeOK, NEW c \in Calls, NEW a \in Calls, AuthenticateAccessToken(c, a)
  PROVE  /\ call' \in [Calls -> Call]
         /\ \A d \in Calls : d # c => call'[d] = call[d]
         /\ call'[c].kind = "logout" /\ call'[c].tok = NoCall /\ call'[c].now = NULL
         /\ \/ /\ call'[c].phase = "done" /\ call'[c].out = "unauthorized"
               /\ call'[c].fam = NoCall
            \/ /\ call'[c].phase = "identified" /\ call'[c].out = "none"
               /\ call'[c].fam = token[a].fam
<1> DEFINE r == [NewCall EXCEPT !.phase = "identified", !.kind = "logout",
                                !.fam = token[a].fam]
           q == [NewCall EXCEPT !.phase = "done", !.kind = "logout",
                                !.out = "unauthorized"]
<1>1. token[a].fam \in Families \cup {NoCall}
  BY DEF TypeOK, Token, NoToken, Tokens
<1>2. /\ r \in Call
      /\ r.phase = "identified" /\ r.kind = "logout" /\ r.fam = token[a].fam
      /\ r.tok = NoCall /\ r.now = NULL /\ r.out = "none"
  BY <1>1 DEF NewCall, Call, Phases, Kinds, Outcomes, NULL
<1>3. /\ q \in Call
      /\ q.phase = "done" /\ q.kind = "logout" /\ q.fam = NoCall
      /\ q.tok = NoCall /\ q.now = NULL /\ q.out = "unauthorized"
  BY DEF NewCall, Call, Phases, Kinds, Outcomes, NULL
<1> HIDE DEF r, q
<1>4. call' = [call EXCEPT ![c] = r] \/ call' = [call EXCEPT ![c] = q]
  BY DEF r, q, AuthenticateAccessToken
<1> QED  BY <1>2, <1>3, <1>4, CallUpdate

\* A logout has read the clock.
LEMMA LogoutStep ==
  ASSUME TypeOK, NEW c \in Calls, Logout(c)
  PROVE  /\ call' \in [Calls -> Call]
         /\ \A d \in Calls : d # c => call'[d] = call[d]
         /\ call'[c].phase = "asked" /\ call'[c].asked = clock
         /\ call'[c].kind = call[c].kind /\ call'[c].fam = call[c].fam
         /\ call'[c].tok = call[c].tok /\ call'[c].now = call[c].now
         /\ call'[c].out = call[c].out
<1> DEFINE r == [call[c] EXCEPT !.phase = "asked", !.asked = clock]
<1>1. /\ r \in Call
      /\ r.phase = "asked" /\ r.asked = clock
      /\ r.kind = call[c].kind /\ r.fam = call[c].fam /\ r.tok = call[c].tok
      /\ r.now = call[c].now /\ r.out = call[c].out
  BY DEF TypeOK, Call, Phases
<1> HIDE DEF r
<1>2. call' = [call EXCEPT ![c] = r]
  BY DEF r, Logout, TypeOK
<1> QED  BY <1>1, <1>2, CallUpdate

\* A call has got its lock.
LEMMA LockStep ==
  ASSUME TypeOK, NEW c \in Calls, LockRefreshSession(c)
  PROVE  /\ call' \in [Calls -> Call]
         /\ \A d \in Calls : d # c => call'[d] = call[d]
         /\ call'[c].phase = "locked"
         /\ call'[c].kind = call[c].kind /\ call'[c].fam = call[c].fam
         /\ call'[c].tok = call[c].tok /\ call'[c].now = call[c].now
         /\ call'[c].asked = call[c].asked /\ call'[c].out = call[c].out
<1> DEFINE r == [call[c] EXCEPT !.phase = "locked"]
<1>1. /\ r \in Call
      /\ r.phase = "locked" /\ r.asked = call[c].asked
      /\ r.kind = call[c].kind /\ r.fam = call[c].fam /\ r.tok = call[c].tok
      /\ r.now = call[c].now /\ r.out = call[c].out
  BY DEF TypeOK, Call, Phases
<1> HIDE DEF r
<1>2. call' = [call EXCEPT ![c] = r]
  BY DEF r, LockRefreshSession, TypeOK
<1> QED  BY <1>1, <1>2, CallUpdate

\* A call has ended without having changed a row.
LEMMA FailStep ==
  ASSUME TypeOK, NEW c \in Calls, Fail(c)
  PROVE  /\ call' \in [Calls -> Call]
         /\ \A d \in Calls : d # c => call'[d] = call[d]
         /\ call'[c].phase = "done" /\ call'[c].out = "failed"
         /\ call'[c].kind = call[c].kind /\ call'[c].fam = call[c].fam
         /\ call'[c].tok = call[c].tok /\ call'[c].now = call[c].now
<1> DEFINE r == [call[c] EXCEPT !.phase = "done", !.out = "failed", !.rows = {}]
<1>0. call[c] \in Call /\ call \in [Calls -> Call]
  BY DEF TypeOK
<1>1. /\ r \in Call
      /\ r.phase = "done" /\ r.out = "failed"
      /\ r.kind = call[c].kind /\ r.fam = call[c].fam /\ r.tok = call[c].tok
      /\ r.now = call[c].now
  BY <1>0 DEF Call, Phases, Outcomes
<1>2. call' = [call EXCEPT ![c] = r]
  BY <1>0 DEF Fail
<1> HIDE DEF r
<1> QED  BY <1>1, <1>2, CallUpdate

\* A call has committed.
LEMMA CommitStep ==
  ASSUME TypeOK, NEW c \in Calls, WithTransaction(c)
  PROVE  /\ call' \in [Calls -> Call]
         /\ \A d \in Calls : d # c => call'[d] = call[d]
         /\ call'[c].phase = "done"
         /\ call'[c].kind = call[c].kind /\ call'[c].fam = call[c].fam
         /\ call'[c].tok = call[c].tok /\ call'[c].now = call[c].now
         /\ call'[c].out = call[c].out
<1> DEFINE r == [call[c] EXCEPT !.phase = "done"]
<1>1. /\ r \in Call
      /\ r.phase = "done" /\ r.out = call[c].out
      /\ r.kind = call[c].kind /\ r.fam = call[c].fam /\ r.tok = call[c].tok
      /\ r.now = call[c].now
  BY DEF TypeOK, Call, Phases
<1> HIDE DEF r
<1>2. call' = [call EXCEPT ![c] = r]
  BY DEF r, WithTransaction, TypeOK
<1> QED  BY <1>1, <1>2, CallUpdate

\* What RotateRefreshToken and RevokeSessionFamily may decide.
LEMMA Decisions ==
  ASSUME NEW f, NEW t, NEW now, NEW out
  PROVE  /\ out \in RotateRefreshToken(f, t, now) =>
              /\ out \in {"refused", "replay", "unauthorized", "rotated"}
              /\ out = "rotated" =>
                   ~Historical(t) /\ ~Unusable(f, t, now) /\ ~Sibling(f, t)
              /\ out = "unauthorized" => ~Historical(t)
         /\ out \in RevokeSessionFamily(f, now) => out \in {"refused", "revoked"}
BY DEF RotateRefreshToken, RevokeSessionFamily

\* A call has come to its decision under the lock.
LEMMA DecideStep ==
  ASSUME TypeOK, CallInv, NEW c \in Calls, Decide(c)
  PROVE  /\ call' \in [Calls -> Call]
         /\ \A d \in Calls : d # c => call'[d] = call[d]
         /\ call'[c].phase = "decided"
         /\ call'[c].kind = call[c].kind /\ call'[c].fam = call[c].fam
         /\ call'[c].tok = call[c].tok /\ call'[c].asked = call[c].asked
         /\ call'[c].now \in Time
         /\ call[c].kind = "refresh" =>
              /\ call'[c].now = clock
              /\ call'[c].out \in RotateRefreshToken(call[c].fam, call[c].tok, clock)
         /\ call[c].kind # "refresh" =>
              call'[c].out \in RevokeSessionFamily(call[c].fam, call[c].asked)
         /\ call'[c].out \in {"replay", "revoked"} =>
              call'[c].rows = RevokedRows(call[c].fam)
<1> DEFINE f == call[c].fam
           now == IF call[c].kind = "refresh" THEN freshDecisionTime(c)
                  ELSE call[c].asked
           outs == IF call[c].kind = "refresh"
                   THEN RotateRefreshToken(f, call[c].tok, now)
                   ELSE RevokeSessionFamily(f, now)
           rows(out) == IF out \in {"replay", "revoked"} THEN RevokedRows(f) ELSE {}
           r(out) == [call[c] EXCEPT !.phase = "decided", !.now = now,
                                     !.out = out, !.rows = rows(out)]
<1>1. PICK out \in outs : call' = [call EXCEPT ![c] = r(out)]
  BY DEF Decide
<1>2. now \in Time
  BY DEF freshDecisionTime, TypeOK, CallInv, Decide
<1>3. out \in Outcomes
  <2>1. CASE call[c].kind = "refresh"
    BY <2>1, <1>1, Decisions DEF Outcomes
  <2>2. CASE call[c].kind # "refresh"
    BY <2>2, <1>1, Decisions DEF Outcomes
  <2> QED  BY <2>1, <2>2
<1>4. rows(out) \in SUBSET Tokens
  BY DEF RevokedRows, OfFamily
<1> HIDE DEF now, rows
<1>5. /\ r(out) \in Call
      /\ r(out).phase = "decided" /\ r(out).now = now /\ r(out).out = out
      /\ r(out).rows = rows(out)
      /\ r(out).kind = call[c].kind /\ r(out).fam = call[c].fam
      /\ r(out).tok = call[c].tok /\ r(out).asked = call[c].asked
  BY <1>2, <1>3, <1>4 DEF TypeOK, Call, Phases
<1> HIDE DEF r
<1>6. /\ call' \in [Calls -> Call]
      /\ call'[c] = r(out)
      /\ \A d \in Calls : d # c => call'[d] = call[d]
  BY <1>1, <1>5, CallUpdate
<1> QED  BY <1>2, <1>5, <1>6 DEF now, rows, freshDecisionTime

-----------------------------------------------------------------------------
(* Steps that leave the rows alone *)

\* A login keeps the invariant.
LEMMA LoginPreserves ==
  ASSUME IInv, NEW c \in Calls, Login(c)
  PROVE  IInv'
<1>a. /\ call' \in [Calls -> Call]
      /\ \A d \in Calls : d # c => call'[d] = call[d]
      /\ call'[c].kind = "login" /\ call'[c].tok = NoCall
      /\ \/ /\ call'[c].phase = "done" /\ call'[c].out = "unauthorized"
            /\ call'[c].now = NULL
         \/ /\ call'[c].phase = "decided" /\ call'[c].out = "opened"
            /\ call'[c].fam = c /\ call'[c].now = clock
  BY LoginStep DEF IInv
<1>b. /\ call[c].phase = "idle"
      /\ UNCHANGED <<token, session, holder, clock>>
  BY DEF Login
<1> USE SessionAssumption DEF IInv, Families, Tokens
<1>2. TypeOK'
  BY <1>a, <1>b DEF TypeOK
<1>3. LockInv'
  BY <1>a, <1>b DEF LockInv, Holding, TypeOK, CallInv, Call
<1>4. CallInv'
  BY <1>a, <1>b DEF CallInv, TypeOK, RowInv, Time, NULL, Call
<1>5. RowInv'
  BY <1>a, <1>b DEF RowInv
<1>6. FreshInv'
  BY <1>a, <1>b DEF FreshInv, Answered, CallInv
<1>7. DecisionInv'
  BY <1>a, <1>b DEF DecisionInv, Historical, Sibling, RevokedRows, OfFamily, IsCurrent
<1>8. TimeInv'
  BY <1>a, <1>b DEF TimeInv, TypeOK, Time
<1>9. OneCurrentToken'
  BY <1>a, <1>b DEF OneCurrentToken, IsCurrent
<1>10. RevokedFamilyIsDead'
  BY <1>a, <1>b DEF RevokedFamilyIsDead
<1>11. LineageIsChain'
  BY <1>a, <1>b DEF LineageIsChain
<1>12. ReplayInv'
  BY <1>a, <1>b DEF ReplayInv
<1> QED  BY <1>2, <1>3, <1>4, <1>5, <1>6, <1>7, <1>8, <1>9, <1>10, <1>11, <1>12

\* The start of a refresh keeps the invariant.
LEMMA RefreshPreserves ==
  ASSUME IInv, NEW c \in Calls, NEW t \in Tokens, Refresh(c, t)
  PROVE  IInv'
<1>a. /\ call' \in [Calls -> Call]
      /\ \A d \in Calls : d # c => call'[d] = call[d]
      /\ call'[c].phase = "asked" /\ call'[c].kind = "refresh"
      /\ call'[c].fam = token[t].fam /\ call'[c].tok = t
      /\ call'[c].asked = clock /\ call'[c].now = NULL /\ call'[c].out = "none"
  BY RefreshStep DEF IInv
<1>b. /\ call[c].phase = "idle" /\ token[t].fam # NoCall
      /\ UNCHANGED <<token, session, holder, clock>>
  BY DEF Refresh
<1> USE SessionAssumption DEF IInv, Families, Tokens
<1>2. TypeOK'
  BY <1>a, <1>b DEF TypeOK
<1>3. LockInv'
  BY <1>a, <1>b DEF LockInv, Holding, TypeOK, CallInv, Call
<1>4. CallInv'
  BY <1>a, <1>b DEF CallInv, TypeOK, RowInv, Time, NULL, Call
<1>5. RowInv'
  BY <1>a, <1>b DEF RowInv
<1>6. FreshInv'
  BY <1>a, <1>b DEF FreshInv, Answered, CallInv
<1>7. DecisionInv'
  BY <1>a, <1>b DEF DecisionInv, Historical, Sibling, RevokedRows, OfFamily, IsCurrent
<1>8. TimeInv'
  BY <1>a, <1>b DEF TimeInv
<1>9. OneCurrentToken'
  BY <1>a, <1>b DEF OneCurrentToken, IsCurrent
<1>10. RevokedFamilyIsDead'
  BY <1>a, <1>b DEF RevokedFamilyIsDead
<1>11. LineageIsChain'
  BY <1>a, <1>b DEF LineageIsChain
<1>12. ReplayInv'
  BY <1>a, <1>b DEF ReplayInv
<1> QED  BY <1>2, <1>3, <1>4, <1>5, <1>6, <1>7, <1>8, <1>9, <1>10, <1>11, <1>12

\* The denial of an unknown token keeps the invariant.
LEMMA RefreshUnknownPreserves ==
  ASSUME IInv, NEW c \in Calls, RefreshUnknown(c)
  PROVE  IInv'
<1>a. /\ call' \in [Calls -> Call]
      /\ \A d \in Calls : d # c => call'[d] = call[d]
      /\ call'[c].phase = "done" /\ call'[c].kind = "refresh"
      /\ call'[c].fam = NoCall /\ call'[c].tok = NoCall
      /\ call'[c].now = NULL /\ call'[c].out = "unauthorized"
  BY RefreshUnknownStep DEF IInv
<1>b. /\ call[c].phase = "idle"
      /\ UNCHANGED <<token, session, holder, clock>>
  BY DEF RefreshUnknown
<1> USE SessionAssumption DEF IInv, Families, Tokens
<1>2. TypeOK'
  BY <1>a, <1>b DEF TypeOK
<1>3. LockInv'
  BY <1>a, <1>b DEF LockInv, Holding, TypeOK, CallInv, Call
<1>4. CallInv'
  BY <1>a, <1>b DEF CallInv, TypeOK, RowInv, Time, NULL, Call
<1>5. RowInv'
  BY <1>a, <1>b DEF RowInv
<1>6. FreshInv'
  BY <1>a, <1>b DEF FreshInv, Answered, CallInv
<1>7. DecisionInv'
  BY <1>a, <1>b DEF DecisionInv, Historical, Sibling, RevokedRows, OfFamily, IsCurrent
<1>8. TimeInv'
  BY <1>a, <1>b DEF TimeInv
<1>9. OneCurrentToken'
  BY <1>a, <1>b DEF OneCurrentToken, IsCurrent
<1>10. RevokedFamilyIsDead'
  BY <1>a, <1>b DEF RevokedFamilyIsDead
<1>11. LineageIsChain'
  BY <1>a, <1>b DEF LineageIsChain
<1>12. ReplayInv'
  BY <1>a, <1>b DEF ReplayInv
<1> QED  BY <1>2, <1>3, <1>4, <1>5, <1>6, <1>7, <1>8, <1>9, <1>10, <1>11, <1>12

\* Authentication keeps the invariant.
LEMMA AuthenticateAccessTokenPreserves ==
  ASSUME IInv, NEW c \in Calls, NEW a \in Calls, AuthenticateAccessToken(c, a)
  PROVE  IInv'
<1>a. /\ call' \in [Calls -> Call]
      /\ \A d \in Calls : d # c => call'[d] = call[d]
      /\ call'[c].kind = "logout" /\ call'[c].tok = NoCall /\ call'[c].now = NULL
      /\ \/ /\ call'[c].phase = "done" /\ call'[c].out = "unauthorized"
            /\ call'[c].fam = NoCall
         \/ /\ call'[c].phase = "identified" /\ call'[c].out = "none"
            /\ call'[c].fam = token[a].fam
  BY AuthenticateStep DEF IInv
<1>b. /\ call[c].phase = "idle" /\ token[a].fam # NoCall
      /\ UNCHANGED <<token, session, holder, clock>>
  BY DEF AuthenticateAccessToken, IInv, FreshInv
<1> USE SessionAssumption DEF IInv, Families, Tokens
<1>2. TypeOK'
  BY <1>a, <1>b DEF TypeOK
<1>3. LockInv'
  BY <1>a, <1>b DEF LockInv, Holding, TypeOK, CallInv, Call
<1>4. CallInv'
  BY <1>a, <1>b DEF CallInv, TypeOK, RowInv, Time, NULL, Call
<1>5. RowInv'
  BY <1>a, <1>b DEF RowInv
<1>6. FreshInv'
  BY <1>a, <1>b DEF FreshInv, Answered, CallInv
<1>7. DecisionInv'
  BY <1>a, <1>b DEF DecisionInv, Historical, Sibling, RevokedRows, OfFamily, IsCurrent
<1>8. TimeInv'
  BY <1>a, <1>b DEF TimeInv
<1>9. OneCurrentToken'
  BY <1>a, <1>b DEF OneCurrentToken, IsCurrent
<1>10. RevokedFamilyIsDead'
  BY <1>a, <1>b DEF RevokedFamilyIsDead
<1>11. LineageIsChain'
  BY <1>a, <1>b DEF LineageIsChain
<1>12. ReplayInv'
  BY <1>a, <1>b DEF ReplayInv
<1> QED  BY <1>2, <1>3, <1>4, <1>5, <1>6, <1>7, <1>8, <1>9, <1>10, <1>11, <1>12

\* The start of a logout keeps the invariant.
LEMMA LogoutPreserves ==
  ASSUME IInv, NEW c \in Calls, Logout(c)
  PROVE  IInv'
<1>a. /\ call' \in [Calls -> Call]
      /\ \A d \in Calls : d # c => call'[d] = call[d]
      /\ call'[c].phase = "asked" /\ call'[c].asked = clock
      /\ call'[c].kind = call[c].kind /\ call'[c].fam = call[c].fam
      /\ call'[c].tok = call[c].tok /\ call'[c].now = call[c].now
      /\ call'[c].out = call[c].out
  BY LogoutStep DEF IInv
<1>b. /\ call[c].phase = "identified"
      /\ UNCHANGED <<token, session, holder, clock>>
  BY DEF Logout
<1> USE SessionAssumption DEF IInv, Families, Tokens
<1>2. TypeOK'
  BY <1>a, <1>b DEF TypeOK
<1>3. LockInv'
  BY <1>a, <1>b DEF LockInv, Holding, TypeOK, CallInv, Call
<1>4. CallInv'
  BY <1>a, <1>b DEF CallInv, TypeOK, RowInv, Time, NULL, Call
<1>5. RowInv'
  BY <1>a, <1>b DEF RowInv
<1>6. FreshInv'
  BY <1>a, <1>b DEF FreshInv, Answered, CallInv
<1>7. DecisionInv'
  BY <1>a, <1>b DEF DecisionInv, Historical, Sibling, RevokedRows, OfFamily, IsCurrent
<1>8. TimeInv'
  BY <1>a, <1>b DEF TimeInv
<1>9. OneCurrentToken'
  BY <1>a, <1>b DEF OneCurrentToken, IsCurrent
<1>10. RevokedFamilyIsDead'
  BY <1>a, <1>b DEF RevokedFamilyIsDead
<1>11. LineageIsChain'
  BY <1>a, <1>b DEF LineageIsChain
<1>12. ReplayInv'
  BY <1>a, <1>b DEF ReplayInv
<1> QED  BY <1>2, <1>3, <1>4, <1>5, <1>6, <1>7, <1>8, <1>9, <1>10, <1>11, <1>12

\* Taking the session lock keeps the invariant.
LEMMA LockRefreshSessionPreserves ==
  ASSUME IInv, NEW c \in Calls, LockRefreshSession(c)
  PROVE  IInv'
<1>a. /\ call' \in [Calls -> Call]
      /\ \A d \in Calls : d # c => call'[d] = call[d]
      /\ call'[c].phase = "locked"
      /\ call'[c].kind = call[c].kind /\ call'[c].fam = call[c].fam
      /\ call'[c].tok = call[c].tok /\ call'[c].now = call[c].now
      /\ call'[c].asked = call[c].asked /\ call'[c].out = call[c].out
  BY LockStep DEF IInv
<1>b. /\ call[c].phase = "asked" /\ holder[call[c].fam] = NoCall
      /\ UNCHANGED <<token, session, clock>>
      /\ holder' = [holder EXCEPT ![call[c].fam] = c]
  BY DEF LockRefreshSession
<1> USE SessionAssumption DEF IInv, Families, Tokens
<1>2. TypeOK'
  BY <1>a, <1>b DEF TypeOK
<1>3. LockInv'
  BY <1>a, <1>b DEF LockInv, Holding, TypeOK, CallInv, Call
<1>4. CallInv'
  BY <1>a, <1>b DEF CallInv, TypeOK, RowInv, Time, NULL, Call
<1>5. RowInv'
  BY <1>a, <1>b DEF RowInv
<1>6. FreshInv'
  BY <1>a, <1>b DEF FreshInv, Answered, CallInv
<1>7. DecisionInv'
  BY <1>a, <1>b DEF DecisionInv, Historical, Sibling, RevokedRows, OfFamily, IsCurrent
<1>8. TimeInv'
  BY <1>a, <1>b DEF TimeInv, CallInv, NULL
<1>9. OneCurrentToken'
  BY <1>a, <1>b DEF OneCurrentToken, IsCurrent
<1>10. RevokedFamilyIsDead'
  BY <1>a, <1>b DEF RevokedFamilyIsDead
<1>11. LineageIsChain'
  BY <1>a, <1>b DEF LineageIsChain
<1>12. ReplayInv'
  BY <1>a, <1>b DEF ReplayInv
<1> QED  BY <1>2, <1>3, <1>4, <1>5, <1>6, <1>7, <1>8, <1>9, <1>10, <1>11, <1>12

\* The decision under the lock keeps the invariant.
LEMMA DecidePreserves ==
  ASSUME IInv, NEW c \in Calls, Decide(c)
  PROVE  IInv'
<1>a. /\ call' \in [Calls -> Call]
      /\ \A d \in Calls : d # c => call'[d] = call[d]
      /\ call'[c].phase = "decided"
      /\ call'[c].kind = call[c].kind /\ call'[c].fam = call[c].fam
      /\ call'[c].tok = call[c].tok /\ call'[c].asked = call[c].asked
      /\ call'[c].now \in Time
      /\ call[c].kind = "refresh" =>
           /\ call'[c].now = clock
           /\ call'[c].out \in RotateRefreshToken(call[c].fam, call[c].tok, clock)
      /\ call[c].kind # "refresh" =>
           call'[c].out \in RevokeSessionFamily(call[c].fam, call[c].asked)
      /\ call'[c].out \in {"replay", "revoked"} =>
           call'[c].rows = RevokedRows(call[c].fam)
  BY DecideStep DEF IInv
<1>b. /\ call[c].phase = "locked"
      /\ UNCHANGED <<token, session, holder, clock>>
  BY DEF Decide
<1> USE SessionAssumption DEF IInv, Families, Tokens
<1>2. TypeOK'
  BY <1>a, <1>b DEF TypeOK
<1>3. LockInv'
  BY <1>a, <1>b DEF LockInv, Holding, TypeOK, CallInv, Call
<1>4. CallInv'
  <2>1. call[c].kind = "refresh" => call'[c].out \in {"refused", "replay", "unauthorized", "rotated"}
    BY <1>a, Decisions
  <2>2. call[c].kind # "refresh" => call'[c].out \in {"refused", "revoked"}
    BY <1>a, Decisions
  <2> QED  BY <2>1, <2>2, <1>a, <1>b DEF CallInv
<1>5. RowInv'
  BY <1>a, <1>b DEF RowInv
<1>6. FreshInv'
  BY <1>a, <1>b DEF FreshInv, Answered, CallInv
<1>7. DecisionInv'
  <2> SUFFICES ASSUME NEW d \in Calls, call'[d].phase = "decided", call'[d].kind # "login"
               PROVE  /\ call'[d].out = "rotated" =>
                           /\ session[call'[d].fam].revoked = NULL
                           /\ ~Historical(call'[d].tok)
                           /\ ~Sibling(call'[d].fam, call'[d].tok)
                           /\ token[call'[d].tok].issued <= call'[d].now
                           /\ call'[d].now < token[call'[d].tok].expires
                      /\ call'[d].out \in {"replay", "revoked"} =>
                           call'[d].rows = RevokedRows(call'[d].fam)
                      /\ call'[d].kind = "refresh" /\ call'[d].out = "unauthorized" =>
                           ~Historical(call'[d].tok)
    BY <1>b DEF DecisionInv, Historical, Sibling, RevokedRows, OfFamily, IsCurrent
  <2>1. CASE d # c
    BY <2>1, <1>a, <1>b DEF DecisionInv
  <2>2. CASE d = c
    <3>1. ASSUME call'[c].out = "rotated"
          PROVE  /\ session[call'[c].fam].revoked = NULL
                 /\ ~Historical(call'[c].tok)
                 /\ ~Sibling(call'[c].fam, call'[c].tok)
                 /\ token[call'[c].tok].issued <= call'[c].now
                 /\ call'[c].now < token[call'[c].tok].expires
      <4>1. call[c].kind = "refresh"
        BY <3>1, <1>a, Decisions
      <4>2. /\ ~Historical(call[c].tok)
            /\ ~Unusable(call[c].fam, call[c].tok, clock)
            /\ ~Sibling(call[c].fam, call[c].tok)
        BY <4>1, <3>1, <1>a, Decisions
      <4>3. /\ call[c].tok \in Tokens
            /\ token[call[c].tok].fam # NoCall
        BY <4>1, <1>b DEF CallInv, TypeOK, Call
      <4>4. /\ token[call[c].tok].issued <= clock
            /\ token[call[c].tok].expires \in Int
        BY <4>3 DEF RowInv, TypeOK, Token, NoToken
      <4>5. session[call[c].fam].revoked = NULL /\ ~(token[call[c].tok].expires <= clock)
        BY <4>2 DEF Unusable, GetActiveSessionBySID
      <4> QED  BY <1>a, <4>1, <4>2, <4>4, <4>5 DEF TypeOK, Time
    <3>2. call'[c].kind = "refresh" /\ call'[c].out = "unauthorized" =>
            ~Historical(call'[c].tok)
      BY <1>a, Decisions
    <3> QED  BY <2>2, <3>1, <3>2, <1>a
  <2> QED  BY <2>1, <2>2
<1>8. TimeInv'
  <2>1. \A d \in Calls : call'[d].kind \in {"login", "refresh"} /\ call'[d].now # NULL =>
          call'[d].now <= clock'
    <3> SUFFICES ASSUME NEW d \in Calls, call'[d].kind \in {"login", "refresh"}, call'[d].now # NULL
                 PROVE  call'[d].now <= clock
      BY <1>b
    <3>1. CASE d # c
      BY <1>a, <3>1 DEF TimeInv
    <3>2. CASE d = c
      BY <1>a, <1>b, <3>2 DEF CallInv, TypeOK, Time
    <3> QED  BY <3>1, <3>2
  <2>2. ASSUME NEW d \in Calls, NEW e \in Calls,
               call'[d].kind = "refresh", call'[d].phase = "decided",
               call'[e].kind = "refresh", call'[e].phase = "done",
               call'[e].now # NULL, call'[e].fam = call'[d].fam
        PROVE  call'[e].now <= call'[d].now
    <3>1. e # c /\ call'[e] = call[e]
      BY <1>a, <2>2
    <3>2. CASE d = c
      BY <1>a, <1>b, <2>1, <2>2, <3>2
    <3>3. CASE d # c
      BY <1>a, <2>2, <3>1, <3>3 DEF TimeInv
    <3> QED  BY <3>2, <3>3
  <2> QED  BY <2>1, <2>2 DEF TimeInv
<1>9. OneCurrentToken'
  BY <1>a, <1>b DEF OneCurrentToken, IsCurrent
<1>10. RevokedFamilyIsDead'
  BY <1>a, <1>b DEF RevokedFamilyIsDead
<1>11. LineageIsChain'
  BY <1>a, <1>b DEF LineageIsChain
<1>12. ReplayInv'
  BY <1>a, <1>b DEF ReplayInv
<1> QED  BY <1>2, <1>3, <1>4, <1>5, <1>6, <1>7, <1>8, <1>9, <1>10, <1>11, <1>12

\* A rollback keeps the invariant.
LEMMA FailPreserves ==
  ASSUME IInv, NEW c \in Calls, Fail(c)
  PROVE  IInv'
<1>a. /\ call' \in [Calls -> Call]
      /\ \A d \in Calls : d # c => call'[d] = call[d]
      /\ call'[c].phase = "done" /\ call'[c].out = "failed"
      /\ call'[c].kind = call[c].kind /\ call'[c].fam = call[c].fam
      /\ call'[c].tok = call[c].tok /\ call'[c].now = call[c].now
  BY FailStep DEF IInv
<1>b. /\ call[c].phase \in {"identified", "asked", "locked", "decided"}
      /\ UNCHANGED <<token, session, clock>>
      /\ holder' = Released(c)
  BY DEF Fail
<1> USE SessionAssumption DEF IInv, Families, Tokens
<1>2. TypeOK'
  BY <1>a, <1>b DEF TypeOK, Released
<1>3. LockInv'
  BY <1>a, <1>b DEF LockInv, Holding, TypeOK, CallInv, Call, Released
<1>4. CallInv'
  BY <1>a, <1>b DEF CallInv, TypeOK, RowInv, Time, NULL, Call
<1>5. RowInv'
  BY <1>a, <1>b DEF RowInv
<1>6. FreshInv'
  BY <1>a, <1>b DEF FreshInv, Answered, CallInv
<1>7. DecisionInv'
  BY <1>a, <1>b DEF DecisionInv, Historical, Sibling, RevokedRows, OfFamily, IsCurrent
<1>8. TimeInv'
  <2>1. \A d \in Calls :
          call[d].kind = "refresh" /\ call[d].phase = "decided" /\ d # c
            /\ call[c].now # NULL => call[d].fam # call[c].fam \/ call[c].kind # "refresh"
    BY <1>a, <1>b DEF LockInv, Holding, CallInv, TypeOK, Call
  <2> QED  BY <2>1, <1>a, <1>b DEF TimeInv
<1>9. OneCurrentToken'
  BY <1>a, <1>b DEF OneCurrentToken, IsCurrent
<1>10. RevokedFamilyIsDead'
  BY <1>a, <1>b DEF RevokedFamilyIsDead
<1>11. LineageIsChain'
  BY <1>a, <1>b DEF LineageIsChain
<1>12. ReplayInv'
  BY <1>a, <1>b DEF ReplayInv
<1> QED  BY <1>2, <1>3, <1>4, <1>5, <1>6, <1>7, <1>8, <1>9, <1>10, <1>11, <1>12

\* The clock advances.
LEMMA TickPreserves ==
  ASSUME IInv, Tick
  PROVE  IInv'
<1> USE SessionAssumption DEF IInv, Families, Tokens, Tick
<1>1. TypeOK' /\ clock' \in Time /\ clock <= clock'
  BY DEF TypeOK, Time
<1>2. LockInv' /\ FreshInv' /\ ReplayInv'
  BY DEF LockInv, Holding, FreshInv, Answered, ReplayInv
<1>3. CallInv'
  BY DEF CallInv
<1>4. RowInv'
  BY <1>1 DEF RowInv, TypeOK, Token, NoToken, Time
<1>5. DecisionInv'
  BY DEF DecisionInv, Historical, Sibling, RevokedRows, OfFamily, IsCurrent
<1>6. TimeInv'
  BY <1>1 DEF TimeInv, TypeOK, Call, Time
<1>7. OneCurrentToken' /\ RevokedFamilyIsDead' /\ LineageIsChain'
  BY DEF OneCurrentToken, IsCurrent, RevokedFamilyIsDead, LineageIsChain
<1> QED  BY <1>1, <1>2, <1>3, <1>4, <1>5, <1>6, <1>7

\* There are no rows at the start.
LEMMA InitSafe == Init => IInv
<1> SUFFICES ASSUME Init PROVE IInv
  OBVIOUS
<1> USE SessionAssumption DEF Init, Families, Tokens
<1>1. TypeOK
  BY DEF TypeOK, NewCall, Call, Phases, Kinds, Outcomes, NULL, Time
<1>2. \A c \in Calls :
        /\ call[c].phase = "idle" /\ call[c].kind = "none" /\ call[c].out = "none"
        /\ call[c].now = NULL /\ call[c].tok = NoCall /\ call[c].fam = NoCall
        /\ holder[c] = NoCall /\ session[c] = NoSession /\ token[c] = NoToken
  BY DEF NewCall
<1>3. \A t \in Tokens : token[t].fam = NoCall /\ token[t].next = NoCall
                        /\ token[t].consumed = NULL /\ token[t].revoked = NULL
  BY <1>2 DEF NoToken
<1> USE <1>2, <1>3
<1>4. LockInv /\ CallInv
  BY DEF LockInv, Holding, CallInv
<1>5. RowInv /\ FreshInv /\ DecisionInv /\ TimeInv /\ ReplayInv
  BY DEF RowInv, FreshInv, Answered, DecisionInv, TimeInv, ReplayInv
<1>6. OneCurrentToken /\ RevokedFamilyIsDead /\ LineageIsChain
  BY DEF OneCurrentToken, RevokedFamilyIsDead, LineageIsChain
<1> QED  BY <1>1, <1>4, <1>5, <1>6 DEF IInv

-----------------------------------------------------------------------------
(* Commits *)

\* What every commit does apart from its rows: the call is done and its lock
\* is free, and while it held the lock no other call had it.
LEMMA CommitFrame ==
  ASSUME IInv, NEW c \in Calls, WithTransaction(c)
  PROVE  /\ call' \in [Calls -> Call]
         /\ holder' \in [Families -> Calls \cup {NoCall}]
         /\ LockInv'
         /\ clock' = clock
         /\ call[c].kind # "login" =>
              \A d \in Calls : d # c /\ Holding(d) => call[d].fam # call[c].fam
<1> USE DEF IInv, Families, Tokens
<1>1. /\ call' \in [Calls -> Call]
      /\ \A d \in Calls : d # c => call'[d] = call[d]
      /\ call'[c].phase = "done"
  BY CommitStep
<1>2. /\ call[c].phase = "decided" /\ holder' = Released(c) /\ clock' = clock
  BY DEF WithTransaction
<1>3. holder' \in [Families -> Calls \cup {NoCall}]
  BY <1>2 DEF TypeOK, Released
<1>4. LockInv'
  BY <1>1, <1>2, SessionAssumption DEF LockInv, Holding, TypeOK, CallInv, Call, Released
<1>5. call[c].kind # "login" =>
        \A d \in Calls : d # c /\ Holding(d) => call[d].fam # call[c].fam
  <2> SUFFICES ASSUME call[c].kind # "login", NEW d \in Calls, d # c, Holding(d),
                      call[d].fam = call[c].fam
               PROVE  FALSE
    OBVIOUS
  <2>1. call[c].fam \in Families
    BY <1>2 DEF CallInv, TypeOK, Call, Kinds
  <2> QED  BY <2>1, <1>2 DEF LockInv, Holding
<1> QED  BY <1>1, <1>2, <1>3, <1>4, <1>5

\* A commit that writes no row keeps the invariant.
LEMMA NoWritePreserves ==
  ASSUME IInv, NEW c \in Calls, WithTransaction(c),
         call[c].out \notin {"opened", "rotated", "replay", "revoked"}
  PROVE  IInv'
<1> USE SessionAssumption DEF IInv, Families, Tokens
<1>a. /\ call' \in [Calls -> Call]
      /\ \A d \in Calls : d # c => call'[d] = call[d]
      /\ call'[c].phase = "done"
      /\ call'[c].kind = call[c].kind /\ call'[c].fam = call[c].fam
      /\ call'[c].tok = call[c].tok /\ call'[c].now = call[c].now
      /\ call'[c].out = call[c].out
  BY CommitStep
<1>b. call[c].phase = "decided" /\ UNCHANGED <<session, token, clock>>
  BY DEF WithTransaction
<1>c. /\ holder' \in [Families -> Calls \cup {NoCall}]
      /\ LockInv'
      /\ call[c].kind # "login" =>
           \A d \in Calls : d # c /\ Holding(d) => call[d].fam # call[c].fam
  BY CommitFrame
<1>1. TypeOK'
  BY <1>a, <1>b, <1>c DEF TypeOK
<1>2. CallInv'
  BY <1>a, <1>b DEF CallInv
<1>3. RowInv' /\ OneCurrentToken' /\ RevokedFamilyIsDead'
  BY <1>b DEF RowInv, OneCurrentToken, IsCurrent, RevokedFamilyIsDead
<1>4. FreshInv'
  BY <1>a, <1>b DEF FreshInv, Answered
<1>5. DecisionInv'
  BY <1>a, <1>b DEF DecisionInv, Historical, Sibling, RevokedRows, OfFamily, IsCurrent
<1>6. TimeInv'
  BY <1>a, <1>b, <1>c DEF TimeInv, Holding
<1>7. LineageIsChain'
  BY <1>a, <1>b DEF LineageIsChain
<1>8. ReplayInv'
  BY <1>a, <1>b DEF ReplayInv, DecisionInv, Historical
<1> QED  BY <1>1, <1>2, <1>3, <1>4, <1>5, <1>6, <1>7, <1>8, <1>c

\* The rows of a login, which nothing refers to yet.
LEMMA OpenedRows ==
  ASSUME IInv, NEW c \in Calls, WithTransaction(c), call[c].out = "opened"
  PROVE  /\ token' \in [Tokens -> Token \cup {NoToken}]
         /\ session' \in [Families -> Session \cup {NoSession}]
         /\ token'[c].fam = c /\ token'[c].issued = call[c].now
         /\ token'[c].consumed = NULL /\ token'[c].revoked = NULL
         /\ token'[c].next = NoCall
         /\ token'[c].expires = session'[c].expires
         /\ session'[c] # NoSession /\ session'[c].revoked = NULL
         /\ \A t \in Tokens : t # c => token'[t] = token[t]
         /\ \A f \in Families : f # c => session'[f] = session[f]
         /\ token[c].fam = NoCall /\ session[c] = NoSession
         /\ \A t \in Tokens : token[t].fam # c
<1> USE SessionAssumption DEF IInv, Families, Tokens
<1>1. call[c].phase = "decided" /\ Opened(c)
  BY DEF WithTransaction
<1>2. call[c].now \in Time
  BY <1>1 DEF CallInv
<1> DEFINE s == [created |-> call[c].now, expires |-> call[c].now + RefreshFamilyTTL,
                 revoked |-> NULL]
           r == Issued(c, call[c].now, call[c].now + RefreshFamilyTTL)
<1>3. /\ s \in Session /\ s # NoSession /\ s.revoked = NULL
      /\ s.expires = call[c].now + RefreshFamilyTTL
  BY <1>2 DEF Session, NoSession, Time, NULL
<1>4. /\ r \in Token
      /\ r.fam = c /\ r.issued = call[c].now /\ r.consumed = NULL
      /\ r.revoked = NULL /\ r.next = NoCall
      /\ r.expires = call[c].now + RefreshFamilyTTL
  BY <1>2 DEF Token, Issued, Time, NULL
<1>5. session' = [session EXCEPT ![c] = s] /\ token' = [token EXCEPT ![c] = r]
  BY <1>1 DEF Opened
<1>6. token[c].fam = NoCall /\ session[c] = NoSession
  BY <1>1 DEF FreshInv, Answered
<1>7. \A t \in Tokens : token[t].fam # c
  BY <1>6 DEF RowInv
<1> HIDE DEF s, r
<1> QED  BY <1>3, <1>4, <1>5, <1>6, <1>7 DEF TypeOK

\* The commit of a login keeps the invariant.
LEMMA OpenedPreserves ==
  ASSUME IInv, NEW c \in Calls, WithTransaction(c), call[c].out = "opened"
  PROVE  IInv'
<1> USE SessionAssumption DEF IInv, Families, Tokens
<1>a. /\ call' \in [Calls -> Call]
      /\ \A d \in Calls : d # c => call'[d] = call[d]
      /\ call'[c].phase = "done"
      /\ call'[c].kind = call[c].kind /\ call'[c].fam = call[c].fam
      /\ call'[c].tok = call[c].tok /\ call'[c].now = call[c].now
      /\ call'[c].out = call[c].out
  BY CommitStep
<1>b. /\ call[c].phase = "decided" /\ clock' = clock
      /\ call[c].kind = "login" /\ call[c].tok = NoCall
      /\ call[c].now \in Time
  BY DEF WithTransaction, CallInv
<1>c. /\ holder' \in [Families -> Calls \cup {NoCall}]
      /\ LockInv'
  BY CommitFrame
<1>d. /\ token' \in [Tokens -> Token \cup {NoToken}]
      /\ session' \in [Families -> Session \cup {NoSession}]
      /\ token'[c].fam = c /\ token'[c].issued = call[c].now
      /\ token'[c].consumed = NULL /\ token'[c].revoked = NULL
      /\ token'[c].next = NoCall
      /\ token'[c].expires = session'[c].expires
      /\ session'[c] # NoSession /\ session'[c].revoked = NULL
      /\ \A t \in Tokens : t # c => token'[t] = token[t]
      /\ \A f \in Families : f # c => session'[f] = session[f]
      /\ token[c].fam = NoCall /\ session[c] = NoSession
      /\ \A t \in Tokens : token[t].fam # c
  BY OpenedRows
<1>e. \A d \in Calls : d # c =>
        /\ call[d].tok # c
        /\ call[d].kind # "login" => call[d].fam # c
  BY <1>d DEF CallInv
<1>f. \A t \in Tokens : token[t].next # c /\ token[t].fam \in Families \cup {NoCall}
                        /\ token[t].next \in Tokens \cup {NoCall}
  BY <1>d DEF LineageIsChain, TypeOK, Token, NoToken
<1>1. TypeOK'
  BY <1>a, <1>b, <1>c, <1>d DEF TypeOK
<1>2. CallInv'
  BY <1>a, <1>b, <1>d, <1>e DEF CallInv, TypeOK, Call
<1>3. RowInv'
  BY <1>b, <1>d, <1>f DEF RowInv, TimeInv, NULL, Time
<1>4. FreshInv'
  BY <1>a, <1>b, <1>d DEF FreshInv, Answered
<1>5. DecisionInv'
  <2>1. \A d \in Calls : call'[d].phase = "decided" /\ call'[d].kind # "login" =>
          /\ d # c /\ call'[d] = call[d] /\ call[d].fam # c /\ call[d].tok # c
          /\ call[d].fam \in Families
          /\ call[d].out = "rotated" => call[d].tok \in Tokens
          /\ call[d].kind = "refresh" => call[d].tok \in Tokens
    BY <1>a, <1>b, <1>e DEF CallInv, TypeOK, Call, Kinds
  <2>2. \A f \in Families : f # c =>
          /\ {t \in Tokens : token'[t].fam = f} = {t \in Tokens : token[t].fam = f}
          /\ RevokedRows(f)' = RevokedRows(f)
    BY <1>d, <1>f DEF RevokedRows, OfFamily
  <2> QED  BY <2>1, <2>2, <1>d, <1>f DEF DecisionInv, Historical, Sibling, OfFamily, IsCurrent
<1>6. TimeInv'
  BY <1>a, <1>b DEF TimeInv
<1>7. OneCurrentToken' /\ RevokedFamilyIsDead'
  BY <1>d, <1>f DEF OneCurrentToken, IsCurrent, RevokedFamilyIsDead
<1>8. LineageIsChain'
  BY <1>a, <1>b, <1>d, <1>e, <1>f DEF LineageIsChain, CallInv, TypeOK, Call
<1>9. ReplayInv'
  BY <1>a, <1>b, <1>d, <1>e DEF ReplayInv, CallInv, TypeOK, Call
<1> QED  BY <1>1, <1>2, <1>3, <1>4, <1>5, <1>6, <1>7, <1>8, <1>9, <1>c

\* The rows of a rotation.
LEMMA RotatedRows ==
  ASSUME IInv, NEW c \in Calls, WithTransaction(c), call[c].out = "rotated"
  PROVE  /\ token' \in [Tokens -> Token \cup {NoToken}]
         /\ session' = session
         /\ call[c].fam \in Families /\ call[c].tok \in Tokens /\ call[c].tok # c
         /\ token[c].fam = NoCall /\ token[call[c].tok].fam = call[c].fam
         /\ token'[c].fam = call[c].fam /\ token'[c].issued = call[c].now
         /\ token'[c].expires = session[call[c].fam].expires
         /\ token'[c].consumed = NULL /\ token'[c].revoked = NULL
         /\ token'[c].next = NoCall
         /\ token'[call[c].tok].fam = call[c].fam
         /\ token'[call[c].tok].issued = token[call[c].tok].issued
         /\ token'[call[c].tok].expires = token[call[c].tok].expires
         /\ token'[call[c].tok].consumed = call[c].now
         /\ token'[call[c].tok].revoked = token[call[c].tok].revoked
         /\ token'[call[c].tok].next = c
         /\ \A t \in Tokens : t # c /\ t # call[c].tok => token'[t] = token[t]
<1> USE SessionAssumption DEF IInv, Families, Tokens
<1> DEFINE t == call[c].tok
           f == call[c].fam
<1>1. call[c].phase = "decided" /\ Rotated(c)
  BY DEF WithTransaction
<1>2. /\ call[c].kind = "refresh" /\ call[c].now \in Time
      /\ t \in Tokens /\ f \in Families /\ token[t].fam = f /\ session[f] # NoSession
  BY <1>1 DEF CallInv, TypeOK, Call
<1>3. token[c].fam = NoCall /\ t # c
  BY <1>1, <1>2 DEF FreshInv, Answered
<1>4. session[f] \in Session /\ token[t] \in Token
  BY <1>2 DEF TypeOK, NoToken
<1> DEFINE r == Issued(f, call[c].now, session[f].expires)
           q == [token[t] EXCEPT !.consumed = call[c].now, !.next = c]
<1>5. /\ r \in Token
      /\ r.fam = f /\ r.issued = call[c].now /\ r.consumed = NULL
      /\ r.revoked = NULL /\ r.next = NoCall
      /\ r.expires = session[f].expires
  BY <1>2, <1>4 DEF Token, Issued, Time, NULL, Session
<1>6. /\ q \in Token
      /\ q.fam = token[t].fam /\ q.issued = token[t].issued /\ q.consumed = call[c].now
      /\ q.revoked = token[t].revoked /\ q.next = c
      /\ q.expires = token[t].expires
  BY <1>2, <1>4 DEF Token
<1>7. token' = [token EXCEPT ![c] = r, ![t] = q] /\ session' = session
  BY <1>1, <1>2, <1>3 DEF Rotated, TypeOK
<1> HIDE DEF r, q
<1>8. /\ token' \in [Tokens -> Token \cup {NoToken}]
      /\ token'[c] = r /\ token'[t] = q
      /\ \A u \in Tokens : u # c /\ u # t => token'[u] = token[u]
  BY <1>2, <1>3, <1>5, <1>6, <1>7 DEF TypeOK
<1> QED  BY <1>2, <1>3, <1>5, <1>6, <1>7, <1>8

\* The commit of a rotation keeps the invariant.
LEMMA RotatedPreserves ==
  ASSUME IInv, NEW c \in Calls, WithTransaction(c), call[c].out = "rotated"
  PROVE  IInv'
<1> USE SessionAssumption DEF IInv, Families, Tokens
<1> DEFINE t == call[c].tok
           f == call[c].fam
<1>a. /\ call' \in [Calls -> Call]
      /\ \A d \in Calls : d # c => call'[d] = call[d]
      /\ call'[c].phase = "done"
      /\ call'[c].kind = call[c].kind /\ call'[c].fam = f
      /\ call'[c].tok = t /\ call'[c].now = call[c].now
      /\ call'[c].out = call[c].out
  BY CommitStep
<1>b. /\ call[c].phase = "decided" /\ clock' = clock
      /\ call[c].kind = "refresh" /\ call[c].now \in Time
  BY DEF WithTransaction, CallInv
<1>c. /\ holder' \in [Families -> Calls \cup {NoCall}]
      /\ LockInv'
      /\ \A d \in Calls : d # c /\ Holding(d) => call[d].fam # f
  BY CommitFrame, <1>b
<1>d. /\ token' \in [Tokens -> Token \cup {NoToken}]
      /\ session' = session
      /\ f \in Families /\ t \in Tokens /\ t # c
      /\ token[c].fam = NoCall /\ token[t].fam = f
      /\ token'[c].fam = f /\ token'[c].issued = call[c].now
      /\ token'[c].expires = session[f].expires
      /\ token'[c].consumed = NULL /\ token'[c].revoked = NULL
      /\ token'[c].next = NoCall
      /\ token'[t].fam = f
      /\ token'[t].issued = token[t].issued
      /\ token'[t].expires = token[t].expires
      /\ token'[t].consumed = call[c].now
      /\ token'[t].revoked = token[t].revoked
      /\ token'[t].next = c
      /\ \A u \in Tokens : u # c /\ u # t => token'[u] = token[u]
  BY RotatedRows
<1>e. /\ session[f].revoked = NULL /\ token[t].consumed = NULL
      /\ token[t].revoked = NULL /\ token[t].next = NoCall
      /\ \A u \in Tokens : token[u].fam = f /\ u # t => ~IsCurrent(u)
      /\ token[t].issued <= call[c].now /\ call[c].now < token[t].expires
      /\ session[f] # NoSession
  BY <1>b, <1>d DEF DecisionInv, Historical, Sibling, OfFamily, RowInv
<1>f. \A u \in Tokens :
        /\ token[u].next # c
        /\ token[u].fam \in Families \cup {NoCall}
        /\ token[u].next \in Tokens \cup {NoCall}
        /\ token[u].expires \in Int /\ token[u].issued \in Int
  BY <1>d DEF LineageIsChain, TypeOK, Token, NoToken, Time, NULL
<1>g. \A d \in Calls : call[d].tok # c /\ call[d].tok \in Tokens \cup {NoCall}
  BY <1>d DEF CallInv, TypeOK, Call
<1>h. /\ \A u \in Tokens : token[u].fam # NoCall => token'[u].fam = token[u].fam
      /\ call[c].now \in Int /\ call[c].now # NULL
  BY <1>b, <1>d DEF Time, NULL
<1> HIDE DEF t, f
<1>1. TypeOK'
  BY <1>a, <1>b, <1>c, <1>d DEF TypeOK
<1>2. CallInv'
  <2>1. \A d \in Calls : call[d].tok # NoCall =>
          token'[call[d].tok].fam = token[call[d].tok].fam
    BY <1>g, <1>h DEF CallInv
  <2>2. \A d \in Calls :
          /\ call'[d].kind = call[d].kind /\ call'[d].fam = call[d].fam
          /\ call'[d].tok = call[d].tok /\ call'[d].now = call[d].now
          /\ call'[d].out = call[d].out
          /\ call'[d].phase = call[d].phase \/ d = c
          /\ call'[d].asked = call[d].asked \/ d = c
    BY <1>a DEF t, f
  <2> QED  BY <2>1, <2>2, <1>a, <1>b, <1>d DEF CallInv
<1>3. RowInv'
  BY <1>b, <1>d, <1>e, <1>h DEF RowInv, TimeInv
<1>4. FreshInv'
  <2>1. \A u \in Tokens : u # c => (token'[u].fam # NoCall <=> token[u].fam # NoCall)
    BY <1>d
  <2> QED  BY <2>1, <1>a, <1>b, <1>d DEF FreshInv, Answered
<1>5. DecisionInv'
  <2>1. \A d \in Calls : call'[d].phase = "decided" /\ call'[d].kind # "login" =>
          /\ d # c /\ call'[d] = call[d] /\ call[d].fam # f
          /\ call[d].fam \in Families
          /\ call[d].out = "rotated" => call[d].kind = "refresh"
          /\ call[d].kind = "refresh" =>
               call[d].tok \in Tokens /\ call[d].tok # c /\ call[d].tok # t
    BY <1>a, <1>c, <1>d, <1>g DEF CallInv, TypeOK, Call, Kinds, Holding
  <2>2. \A g \in Families : g # f => RevokedRows(g)' = RevokedRows(g)
    BY <1>d, <1>f DEF RevokedRows, OfFamily
  <2> QED  BY <2>1, <2>2, <1>d, <1>f DEF DecisionInv, Historical, Sibling, OfFamily, IsCurrent
<1>6. TimeInv'
  BY <1>a, <1>b, <1>c DEF TimeInv, Holding
<1>7. OneCurrentToken'
  <2>1. \A u \in Tokens : u # c /\ token'[u].fam = f =>
          ~(token'[u].consumed = NULL /\ token'[u].revoked = NULL)
    BY <1>d, <1>e, <1>h DEF IsCurrent
  <2> QED  BY <2>1, <1>d DEF OneCurrentToken, IsCurrent
<1>8. RevokedFamilyIsDead'
  BY <1>d, <1>e DEF RevokedFamilyIsDead
<1>9. LineageIsChain'
  <2>1. \A u \in Tokens :
          /\ (token'[u].consumed # NULL) <=> (token'[u].next # NoCall)
          /\ token'[u].next # NoCall =>
               /\ token'[token'[u].next].fam = token'[u].fam
               /\ token'[token'[u].next].issued = token'[u].consumed
               /\ token'[token'[u].next].issued \in token'[u].issued .. token'[u].expires - 1
               /\ token'[token'[u].next].expires = token'[u].expires
    <3> SUFFICES ASSUME NEW u \in Tokens
                 PROVE  /\ (token'[u].consumed # NULL) <=> (token'[u].next # NoCall)
                        /\ token'[u].next # NoCall =>
                             /\ token'[token'[u].next].fam = token'[u].fam
                             /\ token'[token'[u].next].issued = token'[u].consumed
                             /\ token'[token'[u].next].issued
                                  \in token'[u].issued .. token'[u].expires - 1
                             /\ token'[token'[u].next].expires = token'[u].expires
      OBVIOUS
    <3>1. CASE u = c
      BY <3>1, <1>d
    <3>2. CASE u = t
      BY <3>2, <1>d, <1>e, <1>f, <1>h DEF RowInv
    <3>3. CASE u # c /\ u # t
      <4>1. token'[u] = token[u]
        BY <3>3, <1>d
      <4>2. ASSUME token[u].next # NoCall
            PROVE  LET v == token[u].next IN
                   /\ v \in Tokens /\ token'[v].fam = token[v].fam
                   /\ token'[v].issued = token[v].issued
                   /\ token'[v].expires = token[v].expires
        BY <4>2, <1>d, <1>f
      <4> QED  BY <4>1, <4>2 DEF LineageIsChain
    <3> QED  BY <3>1, <3>2, <3>3
  <2>2. \A d \in Calls :
          call'[d].phase = "done" /\ call'[d].out = "rotated" =>
            token'[call'[d].tok].next = d
    <3> SUFFICES ASSUME NEW d \in Calls, call'[d].phase = "done", call'[d].out = "rotated"
                 PROVE  token'[call'[d].tok].next = d
      OBVIOUS
    <3>1. CASE d = c
      BY <3>1, <1>a, <1>d
    <3>2. CASE d # c
      <4>1. /\ call'[d] = call[d] /\ call[d].tok \in Tokens
            /\ token[call[d].tok].next = d
        BY <3>2, <1>a, <1>g DEF CallInv, LineageIsChain
      <4>2. call[d].tok # t /\ call[d].tok # c
        BY <4>1, <1>e, <1>g
      <4> QED  BY <4>1, <4>2, <1>d
    <3> QED  BY <3>1, <3>2
  <2> QED  BY <2>1, <2>2 DEF LineageIsChain
<1>10. ReplayInv'
  <2> SUFFICES ASSUME NEW d \in Calls, call'[d].kind = "refresh",
                      call'[d].phase = "done", call'[d].now # NULL
               PROVE  /\ call'[d].out = "replay" => session[call'[d].fam].revoked # NULL
                      /\ call'[d].out \in {"unauthorized", "rotated"} =>
                           \/ token'[call'[d].tok].consumed = NULL
                           \/ call'[d].now <= token'[call'[d].tok].consumed
    BY <1>d DEF ReplayInv
  <2>1. CASE d = c
    BY <2>1, <1>a, <1>b, <1>d, <1>h
  <2>2. CASE d # c
    <3>1. call'[d] = call[d]
      BY <2>2, <1>a
    <3>2. CASE call[d].tok = t
      <4>1. call[d].fam = f
        BY <3>1, <3>2, <1>d DEF CallInv
      <4>2. call[d].now <= call[c].now
        BY <4>1, <3>1, <1>b DEF TimeInv, f
      <4> QED  BY <3>1, <3>2, <4>2, <1>d DEF ReplayInv
    <3>3. CASE call[d].tok # t
      <4>1. call[d].tok \in Tokens /\ call[d].tok # c
        BY <3>1, <1>g DEF CallInv
      <4> QED  BY <4>1, <3>1, <3>3, <1>d DEF ReplayInv
    <3> QED  BY <3>2, <3>3
  <2> QED  BY <2>1, <2>2
<1> QED  BY <1>1, <1>2, <1>3, <1>4, <1>5, <1>6, <1>7, <1>8, <1>9, <1>10, <1>c

\* The rows of a revocation: every token of the family is revoked now or was
\* before, and so is the session.
LEMMA RevokedFamilyRows ==
  ASSUME IInv, NEW c \in Calls, WithTransaction(c), call[c].out \in {"replay", "revoked"}
  PROVE  /\ token' \in [Tokens -> Token \cup {NoToken}]
         /\ session' \in [Families -> Session \cup {NoSession}]
         /\ call[c].fam \in Families /\ call[c].kind # "login" /\ call[c].now # NULL
         /\ \A t \in Tokens : token[t].fam # call[c].fam => token'[t] = token[t]
         /\ \A t \in Tokens :
              /\ token'[t].fam = token[t].fam /\ token'[t].issued = token[t].issued
              /\ token'[t].expires = token[t].expires
              /\ token'[t].consumed = token[t].consumed /\ token'[t].next = token[t].next
              /\ token[t].revoked # NULL => token'[t].revoked = token[t].revoked
              /\ token[t].fam = call[c].fam => token'[t].revoked # NULL
         /\ \A g \in Families : g # call[c].fam => session'[g] = session[g]
         /\ session[call[c].fam] # NoSession /\ session'[call[c].fam] # NoSession
         /\ session'[call[c].fam].created = session[call[c].fam].created
         /\ session'[call[c].fam].expires = session[call[c].fam].expires
         /\ session'[call[c].fam].revoked # NULL
         /\ session[call[c].fam].revoked # NULL =>
              session'[call[c].fam].revoked = session[call[c].fam].revoked
<1> USE SessionAssumption DEF IInv, Families, Tokens
<1> DEFINE f == call[c].fam
<1>1. call[c].phase = "decided" /\ FamilyRevoked(c)
  BY DEF WithTransaction
<1>2. /\ call[c].kind # "login" /\ call[c].now \in Time /\ call[c].now # NULL
      /\ f \in Families /\ session[f] # NoSession
  BY <1>1 DEF CallInv, TypeOK, Call, Kinds, Time, NULL
<1>3. call[c].rows = {t \in Tokens : token[t].fam = f /\ token[t].revoked = NULL}
  BY <1>1, <1>2 DEF DecisionInv, RevokedRows, OfFamily
<1>4. session[f] \in Session
  BY <1>2 DEF TypeOK
<1> DEFINE s == [session[f] EXCEPT !.revoked = IF @ = NULL THEN call[c].now ELSE @]
<1>5. /\ s \in Session /\ s.created = session[f].created /\ s.expires = session[f].expires
      /\ s.revoked # NULL
      /\ session[f].revoked # NULL => s.revoked = session[f].revoked
  BY <1>2, <1>4 DEF Session
<1>6. s # NoSession
  BY <1>5 DEF Session, NoSession, Time, NULL
<1>7. session' = [session EXCEPT ![f] = s]
  BY <1>1, <1>2 DEF FamilyRevoked, TypeOK
<1> HIDE DEF s
<1>8. /\ session' \in [Families -> Session \cup {NoSession}]
      /\ session'[f] = s
      /\ \A g \in Families : g # f => session'[g] = session[g]
  BY <1>2, <1>5, <1>7 DEF TypeOK
<1>9. token' = [t \in Tokens |->
        IF t \in call[c].rows THEN [token[t] EXCEPT !.revoked = call[c].now] ELSE token[t]]
  BY <1>1 DEF FamilyRevoked
<1>10. \A t \in Tokens :
         /\ token'[t] \in Token \cup {NoToken}
         /\ token[t].fam # f => token'[t] = token[t]
         /\ token'[t].fam = token[t].fam /\ token'[t].issued = token[t].issued
         /\ token'[t].expires = token[t].expires
         /\ token'[t].consumed = token[t].consumed /\ token'[t].next = token[t].next
         /\ token[t].revoked # NULL => token'[t].revoked = token[t].revoked
         /\ token[t].fam = f => token'[t].revoked # NULL
  <2> SUFFICES ASSUME NEW t \in Tokens
               PROVE  /\ token'[t] \in Token \cup {NoToken}
                      /\ token[t].fam # f => token'[t] = token[t]
                      /\ token'[t].fam = token[t].fam /\ token'[t].issued = token[t].issued
                      /\ token'[t].expires = token[t].expires
                      /\ token'[t].consumed = token[t].consumed
                      /\ token'[t].next = token[t].next
                      /\ token[t].revoked # NULL => token'[t].revoked = token[t].revoked
                      /\ token[t].fam = f => token'[t].revoked # NULL
    OBVIOUS
  <2>1. CASE t \in call[c].rows
    <3>1. token[t] \in Token /\ token[t].fam = f /\ token[t].revoked = NULL
      BY <2>1, <1>2, <1>3 DEF TypeOK, NoToken
    <3>2. token'[t] = [token[t] EXCEPT !.revoked = call[c].now]
      BY <2>1, <1>9
    <3> QED  BY <3>1, <3>2, <1>2 DEF Token
  <2>2. CASE t \notin call[c].rows
    BY <2>2, <1>3, <1>9 DEF TypeOK
  <2> QED  BY <2>1, <2>2
<1>11. token' \in [Tokens -> Token \cup {NoToken}]
  BY <1>9, <1>10
<1> QED  BY <1>2, <1>5, <1>6, <1>8, <1>10, <1>11

\* The commit of a revocation keeps the invariant.
LEMMA RevokedPreserves ==
  ASSUME IInv, NEW c \in Calls, WithTransaction(c), call[c].out \in {"replay", "revoked"}
  PROVE  IInv'
<1> USE SessionAssumption DEF IInv, Families, Tokens
<1> DEFINE f == call[c].fam
<1>a. /\ call' \in [Calls -> Call]
      /\ \A d \in Calls : d # c => call'[d] = call[d]
      /\ call'[c].phase = "done"
      /\ call'[c].kind = call[c].kind /\ call'[c].fam = f
      /\ call'[c].tok = call[c].tok /\ call'[c].now = call[c].now
      /\ call'[c].out = call[c].out
  BY CommitStep
<1>b. /\ call[c].phase = "decided" /\ clock' = clock
      /\ call[c].out \notin {"opened", "rotated", "unauthorized"}
  BY DEF WithTransaction
<1>d. /\ token' \in [Tokens -> Token \cup {NoToken}]
      /\ session' \in [Families -> Session \cup {NoSession}]
      /\ f \in Families /\ call[c].kind # "login" /\ call[c].now # NULL
      /\ \A t \in Tokens : token[t].fam # f => token'[t] = token[t]
      /\ \A t \in Tokens :
           /\ token'[t].fam = token[t].fam /\ token'[t].issued = token[t].issued
           /\ token'[t].expires = token[t].expires
           /\ token'[t].consumed = token[t].consumed /\ token'[t].next = token[t].next
           /\ token[t].revoked # NULL => token'[t].revoked = token[t].revoked
           /\ token[t].fam = f => token'[t].revoked # NULL
      /\ \A g \in Families : g # f => session'[g] = session[g]
      /\ session[f] # NoSession /\ session'[f] # NoSession
      /\ session'[f].expires = session[f].expires
      /\ session'[f].revoked # NULL
  BY RevokedFamilyRows
<1>c. /\ holder' \in [Families -> Calls \cup {NoCall}]
      /\ LockInv'
      /\ \A d \in Calls : d # c /\ Holding(d) => call[d].fam # f
  BY CommitFrame, <1>d
<1>e. /\ \A t \in Tokens : token[t].fam \in Families \cup {NoCall}
      /\ \A t \in Tokens : token[t].next \in Tokens \cup {NoCall}
      /\ \A d \in Calls : /\ call[d].tok \in Tokens \cup {NoCall}
                          /\ call[d].fam \in Families \cup {NoCall}
  BY DEF TypeOK, Token, NoToken, Call
<1>f. \A g \in Families :
        /\ session'[g] = NoSession <=> session[g] = NoSession
        /\ session'[g].expires = session[g].expires
        /\ session[g].revoked # NULL => session'[g].revoked # NULL
  BY <1>d
<1>g. \A d \in Calls :
        /\ call'[d].kind = call[d].kind /\ call'[d].fam = call[d].fam
        /\ call'[d].tok = call[d].tok /\ call'[d].now = call[d].now
        /\ call'[d].out = call[d].out
        /\ d # c => call'[d] = call[d]
  BY <1>a
<1> HIDE DEF f
<1>1. TypeOK'
  BY <1>a, <1>b, <1>c, <1>d DEF TypeOK
<1>2. CallInv'
  BY <1>a, <1>b, <1>d, <1>e, <1>f, <1>g DEF CallInv
<1>3. RowInv'
  BY <1>b, <1>d, <1>e, <1>f DEF RowInv
<1>4. FreshInv'
  BY <1>a, <1>b, <1>d, <1>f, <1>g DEF FreshInv, Answered
<1>5. DecisionInv'
  <2>1. \A d \in Calls : call'[d].phase = "decided" /\ call'[d].kind # "login" =>
          /\ d # c /\ call'[d] = call[d] /\ call[d].fam # f
          /\ call[d].fam \in Families
          /\ call[d].out = "rotated" => call[d].kind = "refresh"
          /\ call[d].kind = "refresh" =>
               /\ call[d].tok \in Tokens /\ token[call[d].tok].fam = call[d].fam
               /\ token'[call[d].tok] = token[call[d].tok]
    BY <1>a, <1>c, <1>d, <1>e DEF CallInv, Kinds, TypeOK, Call, Holding
  <2>2. \A g \in Families : g # f => RevokedRows(g)' = RevokedRows(g)
    BY <1>d DEF RevokedRows, OfFamily
  <2> QED  BY <2>1, <2>2, <1>d DEF DecisionInv, Historical, Sibling, OfFamily, IsCurrent
<1>6. TimeInv'
  BY <1>a, <1>b, <1>c, <1>g DEF TimeInv, Holding
<1>7. OneCurrentToken'
  BY <1>d DEF OneCurrentToken, IsCurrent
<1>8. RevokedFamilyIsDead'
  BY <1>d, <1>e DEF RevokedFamilyIsDead
<1>9. LineageIsChain'
  <2>1. \A d \in Calls :
          call'[d].phase = "done" /\ call'[d].out = "rotated" =>
            token'[call'[d].tok].next = d
    BY <1>a, <1>b, <1>d, <1>e, <1>g DEF LineageIsChain, CallInv
  <2> QED  BY <2>1, <1>d, <1>e DEF LineageIsChain
<1>10. ReplayInv'
  <2> SUFFICES ASSUME NEW d \in Calls, call'[d].kind = "refresh",
                      call'[d].phase = "done", call'[d].now # NULL
               PROVE  /\ call'[d].out = "replay" => session'[call'[d].fam].revoked # NULL
                      /\ call'[d].out \in {"unauthorized", "rotated"} =>
                           \/ token'[call'[d].tok].consumed = NULL
                           \/ call'[d].now <= token'[call'[d].tok].consumed
    BY DEF ReplayInv
  <2>1. CASE d = c
    BY <2>1, <1>a, <1>b, <1>d
  <2>2. CASE d # c
    <3>1. call[d].tok \in Tokens /\ call[d].fam \in Families
      BY <1>e, <1>g DEF CallInv
    <3> QED  BY <3>1, <2>2, <1>d, <1>f, <1>g DEF ReplayInv
  <2> QED  BY <2>1, <2>2
<1> QED  BY <1>1, <1>2, <1>3, <1>4, <1>5, <1>6, <1>7, <1>8, <1>9, <1>10, <1>c

\* Every step keeps the invariant.
LEMMA NextSafe == IInv /\ [Next]_vars => IInv'
<1> SUFFICES ASSUME IInv, [Next]_vars PROVE IInv'
  OBVIOUS
<1>1. ASSUME NEW c \in Calls, Login(c) PROVE IInv'
  BY <1>1, LoginPreserves
<1>2. ASSUME NEW c \in Calls, NEW t \in Tokens, Refresh(c, t) PROVE IInv'
  BY <1>2, RefreshPreserves
<1>3. ASSUME NEW c \in Calls, RefreshUnknown(c) PROVE IInv'
  BY <1>3, RefreshUnknownPreserves
<1>4. ASSUME NEW c \in Calls, NEW a \in Calls, AuthenticateAccessToken(c, a) PROVE IInv'
  BY <1>4, AuthenticateAccessTokenPreserves
<1>5. ASSUME NEW c \in Calls, Logout(c) PROVE IInv'
  BY <1>5, LogoutPreserves
<1>6. ASSUME NEW c \in Calls, LockRefreshSession(c) PROVE IInv'
  BY <1>6, LockRefreshSessionPreserves
<1>7. ASSUME NEW c \in Calls, Decide(c) PROVE IInv'
  BY <1>7, DecidePreserves
<1>8. ASSUME NEW c \in Calls, WithTransaction(c) PROVE IInv'
  BY <1>8, NoWritePreserves, OpenedPreserves, RotatedPreserves, RevokedPreserves
<1>9. ASSUME NEW c \in Calls, Fail(c) PROVE IInv'
  BY <1>9, FailPreserves
<1>10. CASE Tick
  BY <1>10, TickPreserves
<1>11. CASE UNCHANGED vars
  <2>1. session' = session /\ token' = token /\ holder' = holder /\ call' = call /\ clock' = clock
    BY <1>11 DEF vars
  <2>2. TypeOK' /\ LockInv' /\ RowInv' /\ FreshInv'
    BY <2>1 DEF IInv, TypeOK, LockInv, Holding, RowInv, FreshInv, Answered
  <2>3. CallInv'
    BY <2>1 DEF IInv, CallInv
  <2>4. DecisionInv'
    BY <2>1 DEF IInv, DecisionInv, Historical, Sibling, RevokedRows, OfFamily, IsCurrent
  <2>5. TimeInv' /\ ReplayInv'
    BY <2>1 DEF IInv, TimeInv, ReplayInv
  <2>6. OneCurrentToken' /\ RevokedFamilyIsDead'
    BY <2>1 DEF IInv, OneCurrentToken, RevokedFamilyIsDead, IsCurrent
  <2>7. LineageIsChain'
    BY <2>1 DEF IInv, LineageIsChain
  <2> QED  BY <2>2, <2>3, <2>4, <2>5, <2>6, <2>7 DEF IInv
<1> QED
  BY <1>1, <1>2, <1>3, <1>4, <1>5, <1>6, <1>7, <1>8, <1>9, <1>10, <1>11 DEF Next, Work

\* The invariant holds in every reachable state.
THEOREM SessionInvariance == Spec => []IInv
BY InitSafe, NextSafe, PTL DEF Spec

-----------------------------------------------------------------------------
(* What follows *)

\* The rows and the calls keep their types: every inserted token has a real
\* issue time and every call in a transaction knows its family.
THEOREM SessionTypeCorrect == Spec => []TypeOK
<1>1. IInv => TypeOK
  BY DEF IInv
<1> QED  BY <1>1, SessionInvariance, PTL

\* Overlapping refreshes, replays and logouts never leave a family with two
\* tokens that can be exchanged.
THEOREM FamilyHasOneCurrentToken == Spec => []OneCurrentToken
<1>1. IInv => OneCurrentToken
  BY DEF IInv
<1> QED  BY <1>1, SessionInvariance, PTL

\* The tokens of a family form one chain with one deadline, and no token is
\* exchanged twice.
THEOREM LineageStaysChain == Spec => []LineageIsChain
<1>1. IInv => LineageIsChain
  BY DEF IInv
<1> QED  BY <1>1, SessionInvariance, PTL

\* No token of a revoked family survives, whatever was inserted while the
\* revocation waited for the session lock.
THEOREM RevocationIsComplete == Spec => []RevokedFamilyIsDead
<1>1. IInv => RevokedFamilyIsDead
  BY DEF IInv
<1> QED  BY <1>1, SessionInvariance, PTL

\* A refresh that finds its token exchanged by another ends the family.
THEOREM ReplayRevokes == Spec => []ReplayEndsFamily
<1>1. IInv => ReplayEndsFamily
  <2> SUFFICES ASSUME IInv, NEW c \in Calls,
                      call[c].kind = "refresh", call[c].phase = "done",
                      call[c].now # NULL,
                      call[c].out \notin {"refused", "failed"},
                      token[call[c].tok].consumed # NULL,
                      token[call[c].tok].consumed < call[c].now
               PROVE  session[call[c].fam].revoked # NULL
    BY DEF ReplayEndsFamily
  <2>1. call[c].out \in {"replay", "unauthorized", "rotated"}
    BY DEF IInv, CallInv, TypeOK, Call, Outcomes
  <2>2. call[c].tok \in Tokens /\ call[c].now \in Int
    BY DEF IInv, CallInv, TypeOK, Call, Time
  <2>3. token[call[c].tok].consumed \in Int
    BY <2>2 DEF IInv, TypeOK, Token, NoToken, Time
  <2>4. ~(call[c].now <= token[call[c].tok].consumed)
    BY <2>2, <2>3
  <2> QED  BY <2>1, <2>4 DEF IInv, ReplayInv
<1> QED  BY <1>1, SessionInvariance, PTL

\* Only a commit writes rows.
LEMMA OnlyCommitWritesRows ==
  ASSUME [Next]_vars
  PROVE  UNCHANGED <<session, token>> \/ \E c \in Calls : WithTransaction(c)
BY DEF Next, Work, vars, Login, Refresh, RefreshUnknown, AuthenticateAccessToken,
       Logout, LockRefreshSession, Decide, Fail, Tick

\* And it writes them when the call has come to one of these decisions.
LEMMA CommitCases ==
  ASSUME IInv, NEW c \in Calls, WithTransaction(c)
  PROVE  \/ call[c].out = "opened"
         \/ call[c].out = "rotated"
         \/ call[c].out \in {"replay", "revoked"}
         \/ UNCHANGED <<session, token>>
BY DEF WithTransaction

\* Deadlines, consumption and revocation are never rewritten.
THEOREM RecordsAreFinal == Spec => RecordsStand
<1> DEFINE Stand ==
      /\ \A f \in Families : session[f] # NoSession =>
           /\ session'[f].created = session[f].created
           /\ session'[f].expires = session[f].expires
           /\ session[f].revoked # NULL => session'[f].revoked = session[f].revoked
      /\ \A t \in Tokens : token[t] # NoToken =>
           /\ token'[t].fam = token[t].fam
           /\ token'[t].expires = token[t].expires
           /\ token[t].consumed # NULL =>
                /\ token'[t].consumed = token[t].consumed
                /\ token'[t].next = token[t].next
           /\ token[t].revoked # NULL => token'[t].revoked = token[t].revoked
<1>1. IInv /\ [Next]_vars => Stand
  <2> SUFFICES ASSUME IInv, [Next]_vars PROVE Stand
    OBVIOUS
  <2> USE DEF Families, Tokens
  <2>1. CASE UNCHANGED <<session, token>>
    BY <2>1
  <2>2. ASSUME NEW c \in Calls, WithTransaction(c), call[c].out = "opened"
        PROVE  Stand
    <3>1. \A t \in Tokens : token[t].fam = NoCall => token[t] = NoToken
      BY SessionAssumption DEF IInv, TypeOK, Token
    <3> QED  BY <2>2, <3>1, OpenedRows
  <2>3. ASSUME NEW c \in Calls, WithTransaction(c), call[c].out = "rotated"
        PROVE  Stand
    <3>1. \A t \in Tokens : token[t].fam = NoCall => token[t] = NoToken
      BY SessionAssumption DEF IInv, TypeOK, Token
    <3>2. token[call[c].tok].consumed = NULL
      BY <2>3 DEF WithTransaction, IInv, DecisionInv, CallInv, Historical
    <3> QED  BY <2>3, <3>1, <3>2, RotatedRows
  <2>4. ASSUME NEW c \in Calls, WithTransaction(c), call[c].out \in {"replay", "revoked"}
        PROVE  Stand
    BY <2>4, RevokedFamilyRows
  <2> QED  BY <2>1, <2>2, <2>3, <2>4, OnlyCommitWritesRows, CommitCases
<1> QED  BY <1>1, SessionInvariance, PTL DEF Spec, RecordsStand

\* No token is exchanged once its family has expired, however long the call
\* has waited for the lock.
THEOREM ExpiryIsRechecked == Spec => NoRotationAfterExpiry
<1> DEFINE Fresh == \A c \in Calls :
      call'[c].out = "rotated" /\ call[c].out # "rotated" =>
        clock < session[call[c].fam].expires
<1>1. IInv /\ [Next]_vars => Fresh
  <2> SUFFICES ASSUME IInv, [Next]_vars, NEW c \in Calls,
                      call'[c].out = "rotated", call[c].out # "rotated"
               PROVE  clock < session[call[c].fam].expires
    OBVIOUS
  <2> USE DEF IInv
  <2>1. Decide(c)
    <3>1. ASSUME NEW d \in Calls, Login(d) PROVE FALSE
      BY <3>1, LoginStep
    <3>2. ASSUME NEW d \in Calls, NEW t \in Tokens, Refresh(d, t) PROVE FALSE
      BY <3>2, RefreshStep
    <3>3. ASSUME NEW d \in Calls, RefreshUnknown(d) PROVE FALSE
      BY <3>3, RefreshUnknownStep
    <3>4. ASSUME NEW d \in Calls, NEW a \in Calls, AuthenticateAccessToken(d, a) PROVE FALSE
      BY <3>4, AuthenticateStep
    <3>5. ASSUME NEW d \in Calls, Logout(d) \/ LockRefreshSession(d) PROVE FALSE
      BY <3>5, LogoutStep, LockStep
    <3>6. ASSUME NEW d \in Calls, Fail(d) \/ WithTransaction(d) PROVE FALSE
      BY <3>6, FailStep, CommitStep
    <3>7. ASSUME NEW d \in Calls, Decide(d), d # c PROVE FALSE
      BY <3>7, DecideStep
    <3>8. CASE Tick \/ UNCHANGED vars
      BY <3>8 DEF Tick, vars
    <3> QED
      BY <3>1, <3>2, <3>3, <3>4, <3>5, <3>6, <3>7, <3>8 DEF Next, Work
  <2>2. /\ call[c].kind = "refresh"
        /\ ~Unusable(call[c].fam, call[c].tok, clock)
    BY <2>1, DecideStep, Decisions
  <2>3. GetActiveSessionBySID(call[c].fam, clock)
    BY <2>2 DEF Unusable
  <2>4. session[call[c].fam].expires > clock
    BY <2>3 DEF GetActiveSessionBySID
  <2>5. call[c].fam \in Families /\ session[call[c].fam] \in Session /\ clock \in Int
    BY <2>1, <2>2 DEF CallInv, TypeOK, Call, Decide, Time
  <2> QED  BY <2>4, <2>5 DEF Session
<1> QED  BY <1>1, SessionInvariance, PTL DEF Spec, NoRotationAfterExpiry

-----------------------------------------------------------------------------
(* Refinement *)

\* The current tokens of a family, and the tokens ever issued.
Current(f) == {t \in OfFamily(f) : IsCurrent(t)}
AllIssued == {t \in Tokens : token[t].fam # NoCall}

\* The commit of a login opens a family.
LEMMA OpenedRefines ==
  ASSUME IInv, NEW c \in Calls, WithTransaction(c), call[c].out = "opened"
  PROVE  SF!Open(c, c)
<1> USE SessionAssumption DEF Families, Tokens
<1>1. /\ token'[c].fam = c /\ token'[c].consumed = NULL /\ token'[c].revoked = NULL
      /\ session'[c] # NoSession /\ session'[c].revoked = NULL
      /\ \A t \in Tokens : t # c => token'[t] = token[t]
      /\ \A f \in Families : f # c => session'[f] = session[f]
      /\ token[c].fam = NoCall /\ session[c] = NoSession
      /\ \A t \in Tokens : token[t].fam # c
  BY OpenedRows
<1>2. /\ Status(c) = "absent" /\ Status(c)' = "live"
      /\ \A f \in Families : f # c => Status(f)' = Status(f)
  BY <1>1 DEF Status
<1>3. /\ Current(c)' = {c}
      /\ \A f \in Families : f # c => Current(f)' = Current(f)
  BY <1>1 DEF Current, OfFamily, IsCurrent
<1>4. c \notin AllIssued /\ AllIssued' = AllIssued \cup {c}
  BY <1>1 DEF AllIssued
<1> QED  BY <1>2, <1>3, <1>4 DEF SF!Open, Current, AllIssued

\* The commit of a rotation exchanges the current token.
LEMMA RotatedRefines ==
  ASSUME IInv, NEW c \in Calls, WithTransaction(c), call[c].out = "rotated"
  PROVE  \E f \in Families, t \in Tokens : SF!Exchange(f, t, c)
<1> USE SessionAssumption DEF Families, Tokens
<1>0. PICK f \in Families, t \in Tokens : f = call[c].fam /\ t = call[c].tok
  BY RotatedRows
<1>1. /\ session' = session /\ f \in Families /\ t \in Tokens /\ t # c
      /\ token[c].fam = NoCall /\ token[t].fam = f
      /\ token'[c].fam = f /\ token'[c].consumed = NULL /\ token'[c].revoked = NULL
      /\ token'[t].fam = f /\ token'[t].consumed = call[c].now
      /\ \A u \in Tokens : u # c /\ u # t => token'[u] = token[u]
  BY <1>0, RotatedRows
<1>2. /\ session[f].revoked = NULL /\ session[f] # NoSession
      /\ token[t].consumed = NULL /\ token[t].revoked = NULL
      /\ \A u \in Tokens : token[u].fam = f /\ u # t => ~IsCurrent(u)
      /\ call[c].now # NULL
  <2>1. call[c].phase = "decided" /\ call[c].kind = "refresh" /\ call[c].now \in Time
    BY DEF IInv, CallInv, WithTransaction
  <2>2. session[f].revoked = NULL /\ ~Historical(t) /\ ~Sibling(f, t)
    BY <1>0, <2>1 DEF IInv, DecisionInv
  <2>3. token[t].consumed = NULL /\ token[t].revoked = NULL
    BY <2>2 DEF Historical
  <2>4. \A u \in Tokens : token[u].fam = f /\ u # t => ~IsCurrent(u)
    BY <2>2 DEF Sibling, OfFamily
  <2>5. session[f] # NoSession
    BY <1>1 DEF IInv, RowInv
  <2>6. call[c].now # NULL
    BY <2>1 DEF Time, NULL
  <2> QED  BY <2>2, <2>3, <2>4, <2>5, <2>6
<1>3. Status(f) = "live" /\ \A g \in Families : Status(g)' = Status(g)
  BY <1>1, <1>2 DEF Status
<1>4. /\ Current(f) = {t} /\ Current(f)' = {c}
      /\ \A g \in Families : g # f => Current(g)' = Current(g)
  BY <1>1, <1>2 DEF Current, OfFamily, IsCurrent
<1>5. c \notin AllIssued /\ AllIssued' = AllIssued \cup {c}
  BY <1>1 DEF AllIssued
<1>6. [g \in Families |-> Status(g)]' = [g \in Families |-> Status(g)]
  BY <1>3
<1>7. [g \in Families |-> Current(g)]' = [[g \in Families |-> Current(g)] EXCEPT ![f] = {c}]
  BY <1>1, <1>4
<1>8. [g \in Families |-> Status(g)][f] = "live" /\ [g \in Families |-> Current(g)][f] = {t}
  BY <1>1, <1>3, <1>4
<1>9. SF!Exchange(f, t, c)
  BY <1>5, <1>6, <1>7, <1>8 DEF SF!Exchange, Current, AllIssued
<1> QED  BY <1>9

\* The commit of a revocation ends the family, or changes nothing if it had
\* already ended.
LEMMA RevokedRefines ==
  ASSUME IInv, NEW c \in Calls, WithTransaction(c), call[c].out \in {"replay", "revoked"}
  PROVE  (\E f \in Families : SF!End(f)) \/ UNCHANGED SF!fvars
<1> USE SessionAssumption DEF Families, Tokens
<1>0. PICK f \in Families : f = call[c].fam
  BY RevokedFamilyRows
<1>1. /\ f \in Families
      /\ \A t \in Tokens : token[t].fam # f => token'[t] = token[t]
      /\ \A t \in Tokens :
           /\ token'[t].fam = token[t].fam
           /\ token'[t].consumed = token[t].consumed
           /\ token[t].revoked # NULL => token'[t].revoked = token[t].revoked
           /\ token[t].fam = f => token'[t].revoked # NULL
      /\ \A g \in Families : g # f => session'[g] = session[g]
      /\ session[f] # NoSession /\ session'[f] # NoSession
      /\ session'[f].revoked # NULL
  BY <1>0, RevokedFamilyRows
<1>2. session[f].revoked # NULL => \A t \in Tokens : token[t].fam = f => token[t].revoked # NULL
  BY <1>1 DEF IInv, RevokedFamilyIsDead
<1>3. /\ Status(f)' = "revoked"
      /\ Status(f) = IF session[f].revoked = NULL THEN "live" ELSE "revoked"
      /\ \A g \in Families : g # f => Status(g)' = Status(g)
  BY <1>1 DEF Status
<1>4. /\ Current(f)' = {}
      /\ session[f].revoked # NULL => Current(f) = {}
      /\ \A g \in Families : g # f => Current(g)' = Current(g)
  BY <1>1, <1>2 DEF Current, OfFamily, IsCurrent
<1>5. AllIssued' = AllIssued
  BY <1>1 DEF AllIssued
<1>6. CASE session[f].revoked = NULL
  <2>1. [g \in Families |-> Status(g)]' =
          [[g \in Families |-> Status(g)] EXCEPT ![f] = "revoked"]
    BY <1>3
  <2>2. [g \in Families |-> Current(g)]' =
          [[g \in Families |-> Current(g)] EXCEPT ![f] = {}]
    BY <1>4
  <2>3. Status(f) = "live"
    BY <1>3, <1>6
  <2>4. SF!End(f)
    BY <2>1, <2>2, <2>3, <1>5 DEF SF!End, Current, AllIssued
  <2> QED  BY <2>4
<1>7. CASE session[f].revoked # NULL
  BY <1>3, <1>4, <1>5, <1>7 DEF SF!fvars, Current, AllIssued
<1> QED  BY <1>6, <1>7

\* Login, refresh and logout implement families that are opened, exchanged
\* and ended atomically, and stay ended.
THEOREM SessionsRefineFamilies == Spec => ImplementsFamilies
<1> USE DEF Families, Tokens
<1>1. Init => SF!Init
  BY SessionAssumption DEF Init, SF!Init, Status, OfFamily, NoToken
<1>2. IInv /\ [Next]_vars => [SF!Next]_(SF!fvars)
  <2> SUFFICES ASSUME IInv, [Next]_vars PROVE SF!Next \/ UNCHANGED SF!fvars
    OBVIOUS
  <2>1. CASE UNCHANGED <<session, token>>
    BY <2>1 DEF SF!fvars, Status, OfFamily, IsCurrent
  <2>2. ASSUME NEW c \in Calls, WithTransaction(c), call[c].out = "opened"
        PROVE  SF!Next
    BY <2>2, OpenedRefines DEF SF!Next
  <2>3. ASSUME NEW c \in Calls, WithTransaction(c), call[c].out = "rotated"
        PROVE  SF!Next
    BY <2>3, RotatedRefines DEF SF!Next
  <2>4. ASSUME NEW c \in Calls, WithTransaction(c), call[c].out \in {"replay", "revoked"}
        PROVE  SF!Next \/ UNCHANGED SF!fvars
    BY <2>4, RevokedRefines DEF SF!Next
  <2> QED  BY <2>1, <2>2, <2>3, <2>4, OnlyCommitWritesRows, CommitCases
<1> QED  BY <1>1, <1>2, SessionInvariance, PTL DEF Spec, ImplementsFamilies, SF!Spec

\* A family is one chain with at most one token left to exchange, for any
\* number of calls.
THEOREM FamilyStaysOneChain == Spec => []FamilyIsOneChain
<1>1. TypeOK /\ OneCurrentToken /\ LineageIsChain <=> FamilyIsOneChain
  BY DEF FamilyIsOneChain
<1> QED
  BY <1>1, SessionTypeCorrect, FamilyHasOneCurrentToken, LineageStaysChain, PTL

\* Revocation ends every token of a family, and a replay revokes it.
THEOREM FamilyEndsAsAWhole == Spec => []FamilyEnds
<1>1. RevokedFamilyIsDead /\ ReplayEndsFamily <=> FamilyEnds
  BY DEF FamilyEnds
<1> QED  BY <1>1, RevocationIsComplete, ReplayRevokes, PTL
=============================================================================
