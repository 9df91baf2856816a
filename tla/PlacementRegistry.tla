-------------------------- MODULE PlacementRegistry -------------------------
(***************************************************************************)
(* What device placement promises, without transactions, locks or retries: *)
(* a registry in which every administrative operation takes effect in one  *)
(* step, in the state it finds, at a time that has been reached.           *)
(***************************************************************************)
EXTENDS Integers

CONSTANTS Devices, Points, Ids, MaxTime, StartPlace

NULL == -1
Time == 0 .. MaxTime

VARIABLES
  now,       \* the time
  place,     \* assignment id -> its row
  service    \* device -> its lifecycle status

registryVars == <<now, place, service>>

Current(a) == a \in DOMAIN place /\ place[a].to = NULL

\* Device d (point m) has no row that reaches beyond t.
DeviceFree(d, t, skip) ==
  \A a \in DOMAIN place \ skip : place[a].dev = d =>
     place[a].to # NULL /\ place[a].to <= t
PointFree(m, t, skip) ==
  \A a \in DOMAIN place \ skip : place[a].mp = m =>
     place[a].to # NULL /\ place[a].to <= t

\* The registry without the row `a` open, and with the rows `new`.
Closed(a, t) == [place EXCEPT ![a].to = t]
With(f, a, row) == [x \in DOMAIN f \cup {a} |-> IF x = a THEN row ELSE f[x]]
Row(d, m, t) == [dev |-> d, mp |-> m, from |-> t, to |-> NULL]

Place(a, d, m, t) ==
  /\ a \notin DOMAIN place
  /\ service[d] = "ACTIVE"
  /\ DeviceFree(d, t, {}) /\ PointFree(m, t, {})
  /\ place' = With(place, a, Row(d, m, t))
  /\ UNCHANGED <<now, service>>

Vacate(a, t) ==
  /\ Current(a) /\ place[a].from < t
  /\ place' = Closed(a, t)
  /\ UNCHANGED <<now, service>>

\* The point of a gets another device.
Replace(a, b, d, t) ==
  /\ Current(a) /\ place[a].from < t /\ b \notin DOMAIN place
  /\ d # place[a].dev /\ service[d] = "ACTIVE"
  /\ DeviceFree(d, t, {}) /\ PointFree(place[a].mp, t, {a})
  /\ place' = With(Closed(a, t), b, Row(d, place[a].mp, t))
  /\ UNCHANGED <<now, service>>

\* The device of a gets another point.
Relocate(a, b, m, t) ==
  /\ Current(a) /\ place[a].from < t /\ b \notin DOMAIN place
  /\ m # place[a].mp
  /\ DeviceFree(place[a].dev, t, {a}) /\ PointFree(m, t, {})
  /\ place' = With(Closed(a, t), b, Row(place[a].dev, m, t))
  /\ UNCHANGED <<now, service>>

\* A device leaves service only while it has no point; RETIRED is final.
SetService(d, s) ==
  /\ <<service[d], s>> \in {<<"ACTIVE", "DISABLED">>, <<"DISABLED", "ACTIVE">>,
                           <<"ACTIVE", "RETIRED">>, <<"DISABLED", "RETIRED">>}
  /\ s # "ACTIVE" => \A a \in DOMAIN place : Current(a) => place[a].dev # d
  /\ service' = [service EXCEPT ![d] = s]
  /\ UNCHANGED <<now, place>>

Advance ==
  /\ now < MaxTime
  /\ now' = now + 1
  /\ UNCHANGED <<place, service>>

Init ==
  /\ now = 1
  /\ place = StartPlace
  /\ service = [d \in Devices |-> "ACTIVE"]

Operate(t) ==
  \/ \E a \in Ids, d \in Devices, m \in Points : Place(a, d, m, t)
  \/ \E a \in Ids : Vacate(a, t)
  \/ \E a, b \in Ids, d \in Devices : Replace(a, b, d, t)
  \/ \E a, b \in Ids, m \in Points : Relocate(a, b, m, t)

Next ==
  \/ Advance
  \/ \E t \in 0 .. now : Operate(t)
  \/ \E d \in Devices, s \in {"ACTIVE", "DISABLED", "RETIRED"} : SetService(d, s)

Spec == Init /\ [][Next]_registryVars

=============================================================================
