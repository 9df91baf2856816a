-------------------------- MODULE SessionFamilies ---------------------------
(***************************************************************************)
(* What refresh-token rotation promises.  A login opens a family with one  *)
(* current token; a refresh exchanges the current token for a new one; a   *)
(* logout or a replayed token ends the family for good, with every token   *)
(* of it.  There are no transactions, locks or clocks here.                *)
(***************************************************************************)
CONSTANTS Families, Tokens

VARIABLES
  status,    \* of each family: "absent", "live" or "revoked"
  current,   \* its current token: a set with at most one member
  issued     \* the tokens that were ever handed out

fvars == <<status, current, issued>>

Init ==
  /\ status = [f \in Families |-> "absent"]
  /\ current = [f \in Families |-> {}]
  /\ issued = {}

Open(f, t) ==
  /\ status[f] = "absent"
  /\ t \notin issued
  /\ status' = [status EXCEPT ![f] = "live"]
  /\ current' = [current EXCEPT ![f] = {t}]
  /\ issued' = issued \cup {t}

Exchange(f, t, u) ==
  /\ status[f] = "live"
  /\ current[f] = {t}
  /\ u \notin issued
  /\ current' = [current EXCEPT ![f] = {u}]
  /\ issued' = issued \cup {u}
  /\ UNCHANGED status

End(f) ==
  /\ status[f] = "live"
  /\ status' = [status EXCEPT ![f] = "revoked"]
  /\ current' = [current EXCEPT ![f] = {}]
  /\ UNCHANGED issued

Next ==
  \E f \in Families :
    \/ \E t \in Tokens : Open(f, t)
    \/ \E t, u \in Tokens : Exchange(f, t, u)
    \/ End(f)

Spec == Init /\ [][Next]_fvars
=============================================================================
