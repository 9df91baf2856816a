-------------------------- MODULE RefreshSessions ---------------------------
(***************************************************************************)
(* Login, refresh and logout on refresh_sessions and refresh_tokens.       *)
(*                                                                         *)
(* Each call is one transaction at READ COMMITTED.  The variables hold the *)
(* committed rows; what a call has written stays in its record until it    *)
(* commits.  The FOR UPDATE lock on the session row is taken before any    *)
(* token row is locked, so it alone orders the calls on one family.        *)
(*                                                                         *)
(* The application and the database read one clock here.                   *)
(***************************************************************************)
EXTENDS Integers

CONSTANTS
  Calls,      \* HTTP calls; also the ids of the family and token they insert
  RefreshFamilyTTL,
  AccessTTL,  \* lifetime of an access token, clock skew included
  MaxTime,    \* bound of the clock
  NoCall      \* no call, family or token

NULL == -1                       \* SQL NULL in a timestamp column
Time == 0 .. MaxTime
Families == Calls
Tokens == Calls

ASSUME SessionAssumption ==
  /\ RefreshFamilyTTL \in Nat \ {0}
  /\ AccessTTL \in Nat
  /\ MaxTime \in Nat
  /\ NoCall \notin Calls

VARIABLES
  session,   \* refresh_sessions
  token,     \* refresh_tokens
  holder,    \* the call that holds the row lock of each session
  call,      \* where each call is, and what it has read and written
  clock

vars == <<session, token, holder, call, clock>>

Session == [created : Time, expires : Nat, revoked : Time \cup {NULL}]
NoSession == [created |-> NULL, expires |-> NULL, revoked |-> NULL]

Token == [fam : Families, issued : Time, expires : Nat,
          consumed : Time \cup {NULL}, revoked : Time \cup {NULL},
          next : Tokens \cup {NoCall}]
NoToken == [fam |-> NoCall, issued |-> NULL, expires |-> NULL,
            consumed |-> NULL, revoked |-> NULL, next |-> NoCall]

\* "identified" is a logout between authentication and its transaction.
Phases == {"idle", "identified", "asked", "locked", "decided", "done"}
Kinds == {"none", "login", "refresh", "logout"}
Outcomes == {"none", "opened", "rotated", "replay", "revoked",  \* these write
             "unauthorized",   \* ErrUnauthorized or ErrInvalidCredentials
             "refused",        \* ErrAuthInput of the revocation
             "failed"}         \* any other error: the call is rolled back

Call == [phase : Phases, kind : Kinds,
         fam : Families \cup {NoCall},   \* the family worked on
         tok : Tokens \cup {NoCall},     \* the token presented
         asked : Time \cup {NULL},       \* application clock of the request
         now : Time \cup {NULL},         \* decision time
         out : Outcomes,
         rows : SUBSET Tokens]           \* the tokens revoked
NewCall == [phase |-> "idle", kind |-> "none", fam |-> NoCall, tok |-> NoCall,
            asked |-> NULL, now |-> NULL, out |-> "none", rows |-> {}]

Init ==
  /\ session = [f \in Families |-> NoSession]
  /\ token = [t \in Tokens |-> NoToken]
  /\ holder = [f \in Families |-> NoCall]
  /\ call = [c \in Calls |-> NewCall]
  /\ clock = 0

-----------------------------------------------------------------------------
(* The rows *)

OfFamily(f) == {t \in Tokens : token[t].fam = f}
IsCurrent(t) == token[t].consumed = NULL /\ token[t].revoked = NULL
Issued(f, now, expires) ==
  [fam |-> f, issued |-> now, expires |-> expires,
   consumed |-> NULL, revoked |-> NULL, next |-> NoCall]

\* A session that is neither revoked nor expired at now.
GetActiveSessionBySID(f, now) ==
  session[f].revoked = NULL /\ session[f].expires > now

-----------------------------------------------------------------------------
(* The calls start *)

\* Credentials are checked, the clock is read and both rows are inserted; no
\* other transaction sees or waits for them.
Login(c) ==
  /\ call[c].phase = "idle"
  /\ \/ call' = [call EXCEPT ![c] = [NewCall EXCEPT
            !.phase = "done", !.kind = "login", !.out = "unauthorized"]]
     \/ call' = [call EXCEPT ![c] = [NewCall EXCEPT
            !.phase = "decided", !.kind = "login", !.fam = c,
            !.asked = clock, !.now = clock, !.out = "opened"]]
  /\ UNCHANGED <<session, token, holder, clock>>

\* The digest lookup only finds the ids to lock.  A caller has a token from an
\* answer, so from a committed row ...
Refresh(c, t) ==
  /\ call[c].phase = "idle"
  /\ token[t].fam # NoCall
  /\ call' = [call EXCEPT ![c] = [NewCall EXCEPT
       !.phase = "asked", !.kind = "refresh",
       !.fam = token[t].fam, !.tok = t, !.asked = clock]]
  /\ UNCHANGED <<session, token, holder, clock>>

\* ... or has something that is no token.
RefreshUnknown(c) ==
  /\ call[c].phase = "idle"
  /\ call' = [call EXCEPT ![c] = [NewCall EXCEPT
       !.phase = "done", !.kind = "refresh", !.out = "unauthorized"]]
  /\ UNCHANGED <<session, token, holder, clock>>

\* The call a was answered with tokens: with an access token, too.
Answered(a) == call[a].phase = "done" /\ call[a].out \in {"opened", "rotated"}

AccessTokenValid(a, now) == now <= call[a].asked + AccessTTL

\* A transaction of its own that reads the session without locking it.
AuthenticateAccessToken(c, a) ==
  /\ call[c].phase = "idle"
  /\ Answered(a)
  /\ call' = [call EXCEPT ![c] =
       IF /\ AccessTokenValid(a, clock)
          /\ GetActiveSessionBySID(token[a].fam, clock)
       THEN [NewCall EXCEPT !.phase = "identified", !.kind = "logout",
                            !.fam = token[a].fam]
       ELSE [NewCall EXCEPT !.phase = "done", !.kind = "logout",
                            !.out = "unauthorized"]]
  /\ UNCHANGED <<session, token, holder, clock>>

\* The revocation time is read here, before the session is locked.
Logout(c) ==
  /\ call[c].phase = "identified"
  /\ call' = [call EXCEPT ![c].phase = "asked", ![c].asked = clock]
  /\ UNCHANGED <<session, token, holder, clock>>

-----------------------------------------------------------------------------
(* Lock, decide, commit *)

LockRefreshSession_NoWait(c) ==
  /\ call[c].phase = "asked"
  /\ holder' = [holder EXCEPT ![call[c].fam] = c]
  /\ call' = [call EXCEPT ![c].phase = "locked"]
  /\ UNCHANGED <<session, token, clock>>

LockRefreshSession(c) ==
  /\ call[c].phase = "asked"
  /\ holder[call[c].fam] = NoCall
  /\ holder' = [holder EXCEPT ![call[c].fam] = c]
  /\ call' = [call EXCEPT ![c].phase = "locked"]
  /\ UNCHANGED <<session, token, clock>>

freshDecisionTime_Asked(c) == call[c].asked
freshDecisionTime_Zero(c) == NULL
freshDecisionTime(c) == clock

\* A token that was already used or withdrawn: presenting it is a replay.
Historical(t) ==
  token[t].consumed # NULL \/ token[t].revoked # NULL \/ token[t].next # NoCall

Unusable(f, t, now) ==
  \/ ~GetActiveSessionBySID(f, now)
  \/ token[t].expires <= now
  \/ token[t].issued < session[f].created
  \/ token[t].expires > session[f].expires

Sibling(f, t) == \E u \in OfFamily(f) : u # t /\ IsCurrent(u)

\* revokeSessionFamilyLocked refuses a time before a row of the family.
TimePrecedes(f, now) ==
  now < session[f].created \/ \E t \in OfFamily(f) : now < token[t].issued

\* The limiter is advisory for a replay and may deny any other refresh.
RotateRefreshToken(f, t, now) ==
  CASE Historical(t) -> {IF TimePrecedes(f, now) THEN "refused" ELSE "replay"}
    [] ~Historical(t) /\ (Unusable(f, t, now) \/ Sibling(f, t)) -> {"unauthorized"}
    [] OTHER -> {"unauthorized", "rotated"}

RevokeSessionFamily(f, now) ==
  {IF TimePrecedes(f, now) THEN "refused" ELSE "revoked"}

RevokedRows_Current(f) == {t \in OfFamily(f) : IsCurrent(t)}
RevokedRows_All(f) == OfFamily(f)
RevokedRows(f) == {t \in OfFamily(f) : token[t].revoked = NULL}

\* Everything between the lock and COMMIT, on rows that the lock protects.
Decide(c) ==
  LET f == call[c].fam
      now == IF call[c].kind = "refresh" THEN freshDecisionTime(c)
             ELSE call[c].asked
  IN
  /\ call[c].phase = "locked"
  /\ \E out \in IF call[c].kind = "refresh"
                THEN RotateRefreshToken(f, call[c].tok, now)
                ELSE RevokeSessionFamily(f, now) :
       call' = [call EXCEPT ![c] = [@ EXCEPT
         !.phase = "decided", !.now = now, !.out = out,
         !.rows = IF out \in {"replay", "revoked"} THEN RevokedRows(f) ELSE {}]]
  /\ UNCHANGED <<session, token, holder, clock>>

Opened(c) ==
  LET expires == call[c].now + RefreshFamilyTTL IN
  /\ session' = [session EXCEPT ![c] =
       [created |-> call[c].now, expires |-> expires, revoked |-> NULL]]
  /\ token' = [token EXCEPT ![c] = Issued(c, call[c].now, expires)]

Rotated_Unlinked(c) ==
  LET f == call[c].fam  t == call[c].tok IN
  /\ token' = [token EXCEPT
       ![c] = Issued(f, call[c].now, session[f].expires),
       ![t].consumed = call[c].now]
  /\ UNCHANGED session

\* The presented token is consumed, its replacement inserted and linked.
Rotated(c) ==
  LET f == call[c].fam  t == call[c].tok IN
  /\ token' = [token EXCEPT
       ![c] = Issued(f, call[c].now, session[f].expires),
       ![t].consumed = call[c].now, ![t].next = c]
  /\ UNCHANGED session

FamilyRevoked_TokensOnly(c) ==
  /\ token' = [t \in Tokens |->
       IF t \in call[c].rows THEN [token[t] EXCEPT !.revoked = call[c].now]
       ELSE token[t]]
  /\ UNCHANGED session

FamilyRevoked(c) ==
  LET f == call[c].fam IN
  /\ token' = [t \in Tokens |->
       IF t \in call[c].rows THEN [token[t] EXCEPT !.revoked = call[c].now]
       ELSE token[t]]
  /\ session' = [session EXCEPT ![f].revoked =
       IF @ = NULL THEN call[c].now ELSE @]

Released_Kept(c) == IF call[c].out = "unauthorized" THEN holder
                    ELSE [f \in Families |-> IF holder[f] = c THEN NoCall ELSE holder[f]]

\* The lock of a call that held one is gone with its transaction.
Released(c) == [f \in Families |-> IF holder[f] = c THEN NoCall ELSE holder[f]]

WithTransaction_DenialRollsBack(c) ==
  /\ call[c].phase = "decided"
  /\ CASE call[c].out = "opened" -> Opened(c)
       [] call[c].out = "rotated" -> Rotated(c)
       [] call[c].out = "revoked" -> FamilyRevoked(c)
       [] OTHER -> UNCHANGED <<session, token>>
  /\ holder' = Released(c)
  /\ call' = [call EXCEPT ![c].phase = "done"]
  /\ UNCHANGED clock

\* "refused" reaches WithTransaction as an error and is rolled back; a denial
\* commits, with the revocation that a replay has made.
WithTransaction(c) ==
  /\ call[c].phase = "decided"
  /\ CASE call[c].out = "opened" -> Opened(c)
       [] call[c].out = "rotated" -> Rotated(c)
       [] call[c].out \in {"replay", "revoked"} -> FamilyRevoked(c)
       [] OTHER -> UNCHANGED <<session, token>>
  /\ holder' = Released(c)
  /\ call' = [call EXCEPT ![c].phase = "done"]
  /\ UNCHANGED clock

\* A signing, database or connection failure: the transaction is rolled back.
Fail(c) ==
  /\ call[c].phase \in {"identified", "asked", "locked", "decided"}
  /\ holder' = Released(c)
  /\ call' = [call EXCEPT ![c].phase = "done", ![c].out = "failed", ![c].rows = {}]
  /\ UNCHANGED <<session, token, clock>>

Tick ==
  /\ clock < MaxTime
  /\ clock' = clock + 1
  /\ UNCHANGED <<session, token, holder, call>>

\* What a call does once it has been accepted.
Work(c) ==
  Logout(c) \/ LockRefreshSession(c) \/ Decide(c) \/ WithTransaction(c)

Next ==
  \/ \E c \in Calls : Login(c)
  \/ \E c \in Calls, t \in Tokens : Refresh(c, t)
  \/ \E c \in Calls : RefreshUnknown(c)
  \/ \E c, a \in Calls : AuthenticateAccessToken(c, a)
  \/ \E c \in Calls : Work(c)
  \/ \E c \in Calls : Fail(c)
  \/ Tick

Spec == Init /\ [][Next]_vars

\* PostgreSQL grants a free row lock and the server runs every handler.
FairSpec == Spec /\ \A c \in Calls : WF_vars(Work(c))

-----------------------------------------------------------------------------
(* Properties *)

TypeOK ==
  /\ session \in [Families -> Session \cup {NoSession}]
  /\ token \in [Tokens -> Token \cup {NoToken}]
  /\ holder \in [Families -> Calls \cup {NoCall}]
  /\ call \in [Calls -> Call]
  /\ clock \in Time

\* However refreshes, replays and logouts of one family overlap, the family
\* has at most one token that can still be exchanged (RotateRefreshToken; the
\* partial unique index refresh_tokens_one_current_per_session_idx).
OneCurrentToken ==
  \A t, u \in Tokens :
    /\ token[t].fam # NoCall /\ token[t].fam = token[u].fam
    /\ IsCurrent(t) /\ IsCurrent(u)
    => t = u

\* The tokens of a family form one chain: a token is consumed exactly when it
\* has a successor of the same family, issued at that instant with the same
\* deadline and before it, and each answered refresh is the successor of the
\* token it presented, so that no token is exchanged twice.
LineageIsChain ==
  /\ \A t \in Tokens :
       /\ (token[t].consumed # NULL) <=> (token[t].next # NoCall)
       /\ token[t].next # NoCall =>
            LET u == token[t].next IN
            /\ token[u].fam = token[t].fam
            /\ token[u].issued = token[t].consumed
            /\ token[u].issued \in token[t].issued .. token[t].expires - 1
            /\ token[u].expires = token[t].expires
  /\ \A c \in Calls :
       call[c].phase = "done" /\ call[c].out = "rotated" =>
         token[call[c].tok].next = c

\* A revoked family is dead: all of its tokens are revoked, the one that a
\* concurrent rotation inserted included (revokeSessionFamilyLocked); and a
\* family with a revoked token is revoked.
RevokedFamilyIsDead ==
  \A t \in Tokens :
    token[t].fam # NoCall =>
      ((token[t].revoked # NULL) <=> (session[token[t].fam].revoked # NULL))

\* A refresh that comes to its decision after another one has exchanged its
\* token, and is not rolled back, ends the family, however long it had been
\* waiting and whatever the limiter says (RotateRefreshToken, WithTransaction).
ReplayEndsFamily ==
  \A c \in Calls :
    /\ call[c].kind = "refresh" /\ call[c].phase = "done"
    /\ call[c].now # NULL
    /\ call[c].out \notin {"refused", "failed"}
    /\ token[call[c].tok].consumed # NULL
    /\ token[call[c].tok].consumed < call[c].now
    => session[call[c].fam].revoked # NULL

\* A call that waited for the session lock past the expiry of the family does
\* not exchange the token (freshDecisionTime is sampled under the lock).
NoRotationAfterExpiry ==
  [][\A c \in Calls :
       call'[c].out = "rotated" /\ call[c].out # "rotated" =>
         clock < session[call[c].fam].expires]_vars

\* Rows are never deleted or reopened, and what happened to them first stays
\* on record: deadlines, consumption and revocation times never change.
RecordsStand ==
  [][/\ \A f \in Families : session[f] # NoSession =>
          /\ session'[f].created = session[f].created
          /\ session'[f].expires = session[f].expires
          /\ session[f].revoked # NULL => session'[f].revoked = session[f].revoked
     /\ \A t \in Tokens : token[t] # NoToken =>
          /\ token'[t].fam = token[t].fam
          /\ token'[t].expires = token[t].expires
          /\ token[t].consumed # NULL =>
               /\ token'[t].consumed = token[t].consumed
               /\ token'[t].next = token[t].next
          /\ token[t].revoked # NULL => token'[t].revoked = token[t].revoked]_vars

\* A family is one chain of tokens, of which the last may be current.
FamilyIsOneChain == TypeOK /\ OneCurrentToken /\ LineageIsChain

\* A family ends as a whole, and a replay ends it.
FamilyEnds == RevokedFamilyIsDead /\ ReplayEndsFamily

\* What the rows say, in the terms of SessionFamilies.
Status(f) == IF session[f] = NoSession THEN "absent"
             ELSE IF session[f].revoked = NULL THEN "live" ELSE "revoked"

SF == INSTANCE SessionFamilies WITH
        status <- [f \in Families |-> Status(f)],
        current <- [f \in Families |-> {t \in OfFamily(f) : IsCurrent(t)}],
        issued <- {t \in Tokens : token[t].fam # NoCall}

\* Login, RotateRefreshToken and RevokeSessionFamily implement families that
\* are opened, exchanged and ended in single steps.
ImplementsFamilies == SF!Spec

\* Every call that was accepted is answered: nobody waits for a session lock
\* for ever.
CallsEnd ==
  \A c \in Calls : (call[c].phase # "idle") ~> (call[c].phase = "done")

\* application.go: "Logout revokes the family identified by an already
\* authenticated identity": a logout that no failure has interrupted leaves
\* the family revoked.
LogoutRevokes ==
  \A c \in Calls :
    /\ call[c].kind = "logout" /\ call[c].phase = "done"
    /\ call[c].out \notin {"unauthorized", "failed"}
    => session[call[c].fam].revoked # NULL
=============================================================================
