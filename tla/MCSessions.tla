----------------------------- MODULE MCSessions -----------------------------
(***************************************************************************)
(* Small instances of refresh sessions: each call may turn out to be a     *)
(* login, a refresh or a logout.                                           *)
(***************************************************************************)
EXTENDS RefreshSessions
=============================================================================
