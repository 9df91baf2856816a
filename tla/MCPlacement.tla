----------------------------- MODULE MCPlacement ----------------------------
(***************************************************************************)
(* Small instances of device placement.  One tenant with one shop, two     *)
(* points and a fresh one per request; an administrator with two logins.   *)
(***************************************************************************)
EXTENDS PlacementSystem, TLC

CONSTANTS Existing, r1, r2, r3, s1, s2, s3, w1, w2, a1, a2

MCShops == {"shop"}
MCClientOf == [s \in MCShops |-> "tenant"]
MCOwnerOf == [d \in Devices |-> "tenant"]
MCUserOf == [s \in Sessions |-> "admin"]

\* The Existing points are 1, or 1 and 2; a request creates 3, 4 or 5.
FreshPoint == r1 :> 3 @@ r2 :> 4 @@ r3 :> 5
MCNewPoint == [r \in Requests |-> FreshPoint[r]]
MCPoints == Existing \cup {MCNewPoint[r] : r \in Requests}
MCShopAtStart == [m \in MCPoints |-> IF m \in Existing THEN "shop" ELSE NoShop]

\* Device 1 is at point 1 and, with a2, device 2 at point 2.
SeedPlace == a1 :> [dev |-> 1, mp |-> 1] @@ a2 :> [dev |-> 2, mp |-> 2]
MCPlacedAt == [a \in Seeds |-> SeedPlace[a]]

C(s, action, key, d, m, a) ==
  [session |-> s, action |-> action, key |-> key, client |-> "tenant",
   shop |-> "shop", dev |-> d, mp |-> m, cur |-> a]

NoMessages == {}

\* Two requests of one login or of two: every action on the same device or
\* point, and retries with the same key.
AdminCommands ==
  {C(s1, action, "k", 2, 2, a1) : action \in Actions}
    \cup {C(s2, "bind", "k", 2, 2, a1), C(s2, "bind", "k", 2, 1, a1),
          C(s2, "relocate", "k2", 2, 2, a1),
          C(s2, "unbind", "k", 1, 1, a1), C(s2, "create", "k", 1, 1, a1),
          C(s2, "retire", "k", 2, 1, a1)}

\* Operations on what the other request has left: a point or a row of it.
RegistryCommands ==
  {C(s1, action, "k", 2, 2, a1) : action \in {"bind", "replace", "relocate", "disable"}}
    \cup {C(s2, "bind", "k2", 2, 1, a1), C(s2, "replace", "k", 2, 1, a1),
          C(s2, "unbind", "k", 1, 1, r1), C(s2, "relocate", "k", 1, 1, r1),
          C(s2, "enable", "k", 2, 1, a1), C(s2, "retire", "k", 1, 1, a1)}

PlacementCommands == AdminCommands \cup RegistryCommands

M(kind, d, seq, t, end, body, high) ==
  [kind |-> kind, dev |-> d, seq |-> seq, at |-> t, end |-> end,
   body |-> body, high |-> high]

\* A device is replaced at its point while it and its successor report; the
\* clock of the successor is not set.
MoveCommands == {C(s1, "replace", "k", 2, 1, a1)}

MoveMessages ==
  {M("v1", 1, 1, 1, 0, 0, TRUE), M("v1", 2, 1, NULL, 0, 0, TRUE)}

\* Coverage messages: one identity with two bodies and without coverage, and
\* an interval that is too long.
CoverageCommands == {C(s1, "unbind", "k", 1, 1, a1)}

CoverageMessages ==
  {M("coverage", 1, 1, 1, 2, 0, TRUE), M("coverage", 1, 1, 1, 2, 1, FALSE),
   M("coverage", 1, 2, 0, 2, 0, FALSE), M("v1", 1, 1, 2, 0, 0, FALSE)}

\* Device 2 leaves service, device 1 its point, while their messages of every
\* kind are on the way; messages of devices nobody registered.
LifecycleCommands ==
  {C(s1, action, "k", 2, 1, a1) : action \in {"disable", "unbind"}}

LifecycleMessages ==
  {M("legacy", 1, 0, 1, 0, 0, TRUE), M("legacy", 2, 0, 1, 0, 0, TRUE),
   M("v1", 2, 1, 1, 0, 0, TRUE), M("status", 2, 0, NULL, 0, 0, TRUE),
   M("v1", 9, 1, 1, 0, 0, FALSE), M("legacy", 9, 1, 1, 0, 0, FALSE)}

TelemetryCommands == MoveCommands \cup CoverageCommands \cup LifecycleCommands
TelemetryMessages == MoveMessages \cup CoverageMessages \cup LifecycleMessages

OneMessage == {M("v1", 1, 1, 1, 0, 0, TRUE)}

\* Requests that need the same rows in opposite roles.
CrossingCommands ==
  {C(s1, "replace", "k", 3, 1, a1), C(s2, "replace", "k", 3, 1, a2),
   C(s2, "replace", "k2", 1, 1, a2), C(s1, "retire", "k", 3, 1, a1)}

\* Three replacements over three devices, two by two.
TriangleCommands ==
  {C(s1, "replace", "k", 3, 1, a1), C(s2, "replace", "k2", 3, 1, a2),
   C(s3, "replace", "k", 2, 1, a1)}

=============================================================================
