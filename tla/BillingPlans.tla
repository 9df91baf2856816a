---------------------------- MODULE BillingPlans ----------------------------
(***************************************************************************)
(* The electricity tariff of a shop and its history of billing plans, as   *)
(* administrators change them and as an estimate and the configuration     *)
(* page read them.  Assignments begin and end with a month; a rate set     *)
(* begins and ends with a day, also inside a month.                        *)
(*                                                                         *)
(* SetConfiguration reads the clock and the tariff first; SetBillingPlan   *)
(* then waits for the row of the shop, which every writer locks before it  *)
(* reads, so what it does under the lock is one step, possibly later.      *)
(***************************************************************************)
EXTENDS Naturals, FiniteSets

CONSTANTS
    Callers,     \* requests of administrators, one at a time each
    Tariffs,     \* tariff classes of a shop, also ones without a plan
    Plans,       \* supported plans
    PlanTariff,  \* the tariff of each plan
    RateSets,    \* records provider, from, to in days: authoritative rate sets
    FirstDay,    \* the first day of each month
    MaxMonth,    \* bound on months
    MaxCalls     \* bound on requests

ASSUME PlansAssumption ==
    /\ PlanTariff \in [Plans -> Tariffs]
    /\ MaxMonth \in Nat \ {0}
    /\ MaxCalls \in Nat

\* electricity_rate_sets_date_check; to = 0 is open.  Only rate sets of one
\* provider exclude each other, and the estimate reads those of all providers,
\* so any may overlap.
ASSUME RatesAssumption ==
    /\ FirstDay \in [1..(MaxMonth + 1) -> Nat]
    /\ \A m \in 1..MaxMonth : FirstDay[m] < FirstDay[m + 1]
    /\ \A r \in RateSets : /\ r.from \in Nat /\ r.to \in Nat
                           /\ r.to = 0 \/ r.to > r.from

VARIABLES
    tariff,       \* shops.electricity_tariff
    assignments,  \* shop_billing_assignments: from, to, plan; to = 0 is open
    month,        \* the local month
    request,      \* what each caller asks, and the month in which it did
    calls         \* requests so far

planVars == <<tariff, assignments, month, request, calls>>

NoTariff == "none"
Idle == [op |-> "idle"]

-----------------------------------------------------------------------------
(* Reads. *)

\* The rows that meet [from, to).
Meeting(rows, from, to) == {a \in rows : a.from < to /\ (a.to = 0 \/ a.to > from)}

SelectX(rows, from, to, missing) ==
    LET found == Meeting(rows, from, to)
    IN CASE found = {} -> missing
         [] Cardinality(found) = 1 -> "selected"
         [] OTHER -> "UNSUPPORTED_PERIOD"

\* selectEstimatePlan and selectEstimateRateSet: one row, and it covers [from, to).
Select(rows, from, to, missing) ==
    LET found == Meeting(rows, from, to)
    IN CASE found = {} -> missing
         [] found # {} /\ \E a \in found : /\ found = {a}
                                           /\ a.from <= from
                                           /\ a.to = 0 \/ a.to >= to -> "selected"
         [] OTHER -> "UNSUPPORTED_PERIOD"

PlanOf(m) == (CHOOSE a \in Meeting(assignments, m, m + 1) : TRUE).plan

CompatiblePlan(t, plan) == t # NoTariff /\ PlanTariff[plan] = t

\* SupportedPlansForTariff is not empty.
Supported(t) == \E plan \in Plans : CompatiblePlan(t, plan)

\* loadEstimateCatalog, for a month that is not in the future.
EstimateOutcome(m) ==
    LET byPlan == Select(assignments, m, m + 1, "CONFIGURATION_REQUIRED")
    IN CASE ~Supported(tariff) -> "UNSUPPORTED_TARIFF"
         [] Supported(tariff) /\ byPlan # "selected" -> byPlan
         [] /\ Supported(tariff)
            /\ byPlan = "selected"
            /\ ~CompatiblePlan(tariff, PlanOf(m)) -> "UNSUPPORTED_TARIFF"
         [] OTHER -> Select(RateSets, FirstDay[m], FirstDay[m + 1], "RATE_NOT_FOUND")

CurrentX == {a \in assignments : a.from <= month /\ (a.to = 0 \/ month <= a.to)}

\* FindBillingConfiguration: the assignment that holds today, and the next one.
Current == {a \in assignments : a.from <= month /\ (a.to = 0 \/ month < a.to)}

Scheduled ==
    LET later == {a \in assignments : a.from > month}
    IN {a \in later : \A x \in later : a.from <= x.from}

-----------------------------------------------------------------------------
(* Requests. *)

\* SetConfiguration: the clock, and the tariff as it is now.
StartPlan(c) == \E plan \in Plans :
    /\ request[c] = Idle
    /\ calls < MaxCalls
    /\ calls' = calls + 1
    /\ request' = [request EXCEPT ![c] =
           IF CompatiblePlan(tariff, plan)
           THEN [op |-> "plan", plan |-> plan, asOf |-> month] ELSE Idle]
    /\ UNCHANGED <<tariff, assignments, month>>

\* shop_billing_assignments_date_check and shop_billing_assignments_no_overlap.
Consistent(rows) ==
    /\ \A a \in rows : a.to = 0 \/ a.to > a.from
    /\ \A a, b \in rows : a # b => \/ a.to # 0 /\ a.to <= b.from
                                   \/ b.to # 0 /\ b.to <= a.from

\* A transaction that breaks the constraint leaves nothing behind.
Written(rows) == IF Consistent(rows) THEN rows ELSE assignments

TargetX(asOf, current) == asOf

TargetLateX(asOf, current) == IF current = {} THEN asOf + 1 ELSE asOf + 2

\* A plan begins now if there is none yet, and else with the next month.
Target(asOf, current) == IF current = {} THEN asOf ELSE asOf + 1

Holding(asOf) == {a \in assignments : a.from <= asOf /\ (a.to = 0 \/ asOf < a.to)}

ClosedX(rows, target) == {[a EXCEPT !.to = target - 1] : a \in rows}

\* The assignments that hold end where the new one begins.
Closed(rows, target) == {[a EXCEPT !.to = target] : a \in rows}

\* SetBillingPlan under the lock of the shop.
SetBillingPlan(c) ==
    LET r == request[c]
        current == Holding(r.asOf)
        target == Target(r.asOf, current)
        scheduled == {a \in assignments : a.from = target}
    IN /\ r.op = "plan"
       /\ request' = [request EXCEPT ![c] = Idle]
       /\ \/ /\ ~CompatiblePlan(tariff, r.plan)
             /\ UNCHANGED assignments
          \/ /\ CompatiblePlan(tariff, r.plan)
             /\ scheduled # {}
             /\ assignments' = (assignments \ scheduled)
                    \cup {[a EXCEPT !.plan = r.plan] : a \in scheduled}
          \/ /\ CompatiblePlan(tariff, r.plan)
             /\ scheduled = {}
             /\ \E a \in current : a.plan = r.plan
             /\ UNCHANGED assignments
          \/ /\ CompatiblePlan(tariff, r.plan)
             /\ scheduled = {}
             /\ \A a \in current : a.plan # r.plan
             /\ assignments' = Written(
                    (assignments \ current) \cup Closed(current, target)
                        \cup {[from |-> target, to |-> 0, plan |-> r.plan]})
       /\ UNCHANGED <<tariff, month, calls>>

\* UpdateShopTariff: a shop with a history of plans keeps its tariff.
UpdateShopTariff(t) ==
    /\ calls < MaxCalls
    /\ calls' = calls + 1
    /\ tariff' = IF assignments # {} THEN tariff ELSE t
    /\ UNCHANGED <<assignments, month, request>>

\* Months pass; a request does not last for a whole one.
NextMonth ==
    /\ month < MaxMonth
    /\ \A c \in Callers : request[c] # Idle => request[c].asOf = month
    /\ month' = month + 1
    /\ UNCHANGED <<tariff, assignments, request, calls>>

PlanInit ==
    /\ tariff = NoTariff
    /\ assignments = {}
    /\ month = 1
    /\ request = [c \in Callers |-> Idle]
    /\ calls = 0

PlanNext ==
    \/ \E c \in Callers : StartPlan(c) \/ SetBillingPlan(c)
    \/ \E t \in Tariffs : UpdateShopTariff(t)
    \/ NextMonth

PlanSpec == PlanInit /\ [][PlanNext]_planVars

-----------------------------------------------------------------------------
(* Properties. *)

PlansTypeOK ==
    /\ tariff \in Tariffs \cup {NoTariff}
    /\ assignments \subseteq [from : 1..(MaxMonth + 1), to : 0..(MaxMonth + 1), plan : Plans]
    /\ month \in 1..MaxMonth

\* The rate sets in force on a day.
InForce(day) == {r \in RateSets : r.from <= day /\ (r.to = 0 \/ day < r.to)}

DaysOf(m) == FirstDay[m]..(FirstDay[m + 1] - 1)

\* Once a shop has a plan, every month from then on has one: no sequence of
\* changes, also by requests that waited across the end of a month, leaves a
\* gap, an overlap or a plan of another tariff.  So only the rate sets decide
\* about the estimate: it has its rates if one and the same set is in force on
\* all days of the month, lacks them if none is on any day, and is refused as
\* an unsupported period if rates change, begin, end or compete on some day.
ConfiguredIsEstimated ==
    \A m \in 1..month : (\E a \in assignments : a.from <= m) =>
        EstimateOutcome(m) =
            IF \E r \in RateSets : \A day \in DaysOf(m) : InForce(day) = {r}
            THEN "selected"
            ELSE IF \A day \in DaysOf(m) : InForce(day) = {}
            THEN "RATE_NOT_FOUND" ELSE "UNSUPPORTED_PERIOD"

\* The configuration page and the estimate agree: the plan shown as current is
\* the one this month is charged by, and the next month is charged by the
\* scheduled one, or by the current one if none is shown.
PageAgreesWithEstimate ==
    /\ Cardinality(Current) <= 1
    /\ \A a \in Current : Select(assignments, month, month + 1, "none") = "selected"
                          /\ PlanOf(month) = a.plan
    /\ \A a \in Scheduled : a.from = month + 1 /\ PlanOf(month + 1) = a.plan
    /\ Scheduled = {} /\ Current # {} => PlanOf(month + 1) = PlanOf(month)

\* The plan of a month that is over never changes into another one.
PastPlansFixed ==
  \A m \in 1..(month - 1) :
      Meeting(assignments, m, m + 1) # {} =>
          /\ Meeting(assignments', m, m + 1) # {}
          /\ PlanOf(m)' = PlanOf(m)

\* Configuration, the page that shows it and the estimate use the same plans.
PlansAgree == PlansTypeOK /\ ConfiguredIsEstimated /\ PageAgreesWithEstimate
=============================================================================
