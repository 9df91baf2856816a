---------------------------- MODULE BillingProofs ---------------------------
(***************************************************************************)
(* Proofs about BillingPlans, for any callers, tariffs, plans, calendar,   *)
(* rate sets and bounds; and about BillingCharge, for any tier schedules,  *)
(* minimum charges and usage.                                              *)
(***************************************************************************)
EXTENDS MCEnergy, EnergyProofs

-----------------------------------------------------------------------------
(* The inductive invariant *)

PlanRows == [from : 1..(MaxMonth + 1), to : 0..(MaxMonth + 1), plan : Plans]
PlanRequests == {Idle} \cup [op : {"plan"}, plan : Plans, asOf : 1..MaxMonth]

Holds(a, m) == a.from <= m /\ (a.to = 0 \/ m < a.to)

\* From the first month that has a plan on, every month has one.
NoGap(plans) ==
    \A m \in Nat : (\E a \in plans : a.from <= m) => \E a \in plans : Holds(a, m)

\* Nothing begins later than with the next month.
NearFuture(plans) == \A a \in plans : a.from <= month + 1

\* Every plan is one of the tariff.
OfTariff(plans) == \A a \in plans : CompatiblePlan(tariff, a.plan)

HistoryOK(plans) ==
    /\ plans \subseteq PlanRows
    /\ Consistent(plans) /\ NoGap(plans) /\ NearFuture(plans) /\ OfTariff(plans)

\* A request was decided in this month or in the one before.
RequestsOK ==
    /\ request \in [Callers -> PlanRequests]
    /\ \A c \in Callers : request[c] # Idle =>
          request[c].asOf <= month /\ month <= request[c].asOf + 1

PlanInv ==
    /\ tariff \in Tariffs \cup {NoTariff}
    /\ month \in 1..MaxMonth
    /\ RequestsOK
    /\ HistoryOK(assignments)

\* What a month before this one was charged by stays.
KeepsPast(plans) ==
    \A m \in 1..(month - 1), a \in assignments :
        Holds(a, m) => \E b \in plans : Holds(b, m) /\ b.plan = a.plan

-----------------------------------------------------------------------------
(* Months and assignments *)

\* shop_billing_assignments_no_overlap: a month has one assignment at most.
LEMMA OneHolds ==
  ASSUME NEW plans, plans \subseteq PlanRows, Consistent(plans), NEW m \in Nat,
         NEW a \in plans, NEW b \in plans, Holds(a, m), Holds(b, m)
  PROVE  a = b
<1>1. /\ a.from \in Nat /\ a.to \in Nat /\ b.from \in Nat /\ b.to \in Nat
  BY PlansAssumption DEF PlanRows
<1> QED BY <1>1 DEF Consistent, Holds

\* The query of selectEstimatePlan for a month finds what holds in it.
LEMMA MeetingHolds ==
  ASSUME NEW plans, plans \subseteq PlanRows, NEW m \in Nat
  PROVE  Meeting(plans, m, m + 1) = {a \in plans : Holds(a, m)}
<1>1. \A a \in plans : a.from \in Nat /\ a.to \in Nat
  BY PlansAssumption DEF PlanRows
<1>2. ASSUME NEW a \in plans
      PROVE  a.from < m + 1 /\ (a.to = 0 \/ a.to > m) <=> Holds(a, m)
  BY <1>1 DEF Holds
<1> QED BY <1>2 DEF Meeting

\* A month with an assignment is charged by the plan of that assignment.
LEMMA ChargedBy ==
  ASSUME HistoryOK(assignments), NEW m \in Nat, NEW a \in assignments, Holds(a, m)
  PROVE  /\ Meeting(assignments, m, m + 1) = {a}
         /\ PlanOf(m) = a.plan
         /\ \A missing : Select(assignments, m, m + 1, missing) = "selected"
<1>1. assignments \subseteq PlanRows /\ Consistent(assignments)
  BY DEF HistoryOK
<1>2. Meeting(assignments, m, m + 1) = {a}
  BY <1>1, MeetingHolds, OneHolds
<1>3. PlanOf(m) = a.plan
  BY <1>2 DEF PlanOf
<1>4. a.from <= m /\ (a.to = 0 \/ a.to >= m + 1)
  BY <1>1, PlansAssumption DEF Holds, PlanRows
<1> HIDE DEF Holds
<1>5. \A missing : Select(assignments, m, m + 1, missing) = "selected"
  BY <1>2, <1>4 DEF Select
<1> QED BY <1>2, <1>3, <1>5

\* electricity_rate_sets_date_check: a rate set that meets [from, to) is in force
\* on a day of it, and one in force on a day of it meets it.
LEMMA MeetingIsInForce ==
  ASSUME NEW from \in Nat, NEW to \in Nat, from < to, NEW r \in RateSets
  PROVE  r \in Meeting(RateSets, from, to) <=> \E day \in from..(to - 1) : r \in InForce(day)
<1>1. r.from \in Nat /\ r.to \in Nat /\ (r.to = 0 \/ r.to > r.from)
  BY RatesAssumption
<1>2. ASSUME r \in Meeting(RateSets, from, to)
      PROVE  \E day \in from..(to - 1) : r \in InForce(day)
  <2>1. r.from < to /\ (r.to = 0 \/ r.to > from)
    BY <1>2 DEF Meeting
  <2>2. CASE r.from <= from
    <3>1. from \in from..(to - 1) /\ r \in InForce(from)
      BY <1>1, <2>1, <2>2 DEF InForce
    <3> QED BY <3>1
  <2>3. CASE r.from > from
    <3>1. r.from \in from..(to - 1) /\ r \in InForce(r.from)
      BY <1>1, <2>1, <2>3 DEF InForce
    <3> QED BY <3>1
  <2> QED BY <1>1, <2>2, <2>3
<1>3. ASSUME NEW day \in from..(to - 1), r \in InForce(day)
      PROVE  r \in Meeting(RateSets, from, to)
  BY <1>1, <1>3 DEF InForce, Meeting
<1> QED BY <1>2, <1>3

\* One rate set covers [from, to) exactly if it alone is in force on every day.
LEMMA CoversIsInForce ==
  ASSUME NEW from \in Nat, NEW to \in Nat, from < to, NEW r \in RateSets
  PROVE  (\A day \in from..(to - 1) : InForce(day) = {r})
             <=> /\ Meeting(RateSets, from, to) = {r}
                 /\ r.from <= from /\ (r.to = 0 \/ r.to >= to)
<1> DEFINE found == Meeting(RateSets, from, to)
<1>1. r.from \in Nat /\ r.to \in Nat
  BY RatesAssumption
<1>2. found \subseteq RateSets /\ \A day : InForce(day) \subseteq RateSets
  BY DEF Meeting, InForce
<1>3. from \in from..(to - 1) /\ to - 1 \in from..(to - 1)
  OBVIOUS
<1> HIDE DEF found
<1>4. ASSUME \A day \in from..(to - 1) : InForce(day) = {r}
      PROVE  found = {r} /\ r.from <= from /\ (r.to = 0 \/ r.to >= to)
  <2>1. \A b \in found : b = r
    BY <1>2, <1>4, MeetingIsInForce DEF found
  <2>2. r \in InForce(from) /\ r \in InForce(to - 1)
    BY <1>3, <1>4
  <2>3. r \in found
    BY <1>3, <2>2, MeetingIsInForce DEF found
  <2>4. r.from <= from /\ (r.to = 0 \/ r.to >= to)
    BY <1>1, <2>2 DEF InForce
  <2> QED BY <2>1, <2>3, <2>4
<1>5. ASSUME found = {r}, r.from <= from, r.to = 0 \/ r.to >= to, NEW day \in from..(to - 1)
      PROVE  InForce(day) = {r}
  <2>1. r \in InForce(day)
    BY <1>1, <1>5 DEF InForce
  <2>2. \A b \in InForce(day) : b \in found
    BY <1>2, MeetingIsInForce DEF found
  <2> QED BY <1>5, <2>1, <2>2
<1> QED BY <1>4, <1>5 DEF found

\* selectEstimateRateSet answers what the days of the month say.
LEMMA RatesSelected ==
  ASSUME NEW m \in 1..MaxMonth
  PROVE  Select(RateSets, FirstDay[m], FirstDay[m + 1], "RATE_NOT_FOUND") =
            IF \E r \in RateSets : \A day \in DaysOf(m) : InForce(day) = {r}
            THEN "selected"
            ELSE IF \A day \in DaysOf(m) : InForce(day) = {}
            THEN "RATE_NOT_FOUND" ELSE "UNSUPPORTED_PERIOD"
<1> DEFINE from == FirstDay[m]
           to == FirstDay[m + 1]
           found == Meeting(RateSets, from, to)
           Covers(r) == found = {r} /\ r.from <= from /\ (r.to = 0 \/ r.to >= to)
           Alone(r) == \A day \in DaysOf(m) : InForce(day) = {r}
<1>1. from \in Nat /\ to \in Nat /\ from < to /\ DaysOf(m) = from..(to - 1)
  BY PlansAssumption, RatesAssumption DEF DaysOf
<1>2. Select(RateSets, from, to, "RATE_NOT_FOUND") =
          CASE found = {} -> "RATE_NOT_FOUND"
            [] found # {} /\ \E r \in found : Covers(r) -> "selected"
            [] OTHER -> "UNSUPPORTED_PERIOD"
  BY DEF Select
<1>3. found \subseteq RateSets /\ \A day : InForce(day) \subseteq RateSets
  BY DEF Meeting, InForce
<1> HIDE DEF from, to
<1>4. \A r \in RateSets : Alone(r) <=> Covers(r)
  BY <1>1, CoversIsInForce
<1>5. found = {} <=> \A day \in DaysOf(m) : InForce(day) = {}
  BY <1>1, <1>3, MeetingIsInForce
<1> HIDE DEF found, Alone
<1>6. (\E r \in found : Covers(r)) <=> \E r \in RateSets : Alone(r)
  BY <1>3, <1>4
<1>7. (\E r \in found : Covers(r)) => found # {}
  OBVIOUS
<1> HIDE DEF Covers
<1>8. Select(RateSets, from, to, "RATE_NOT_FOUND") =
          IF \E r \in RateSets : Alone(r) THEN "selected"
          ELSE IF \A day \in DaysOf(m) : InForce(day) = {}
          THEN "RATE_NOT_FOUND" ELSE "UNSUPPORTED_PERIOD"
  BY <1>2, <1>5, <1>6, <1>7
<1> QED BY <1>8 DEF Alone, from, to

-----------------------------------------------------------------------------
(* SetBillingPlan *)

\* The plan of an assignment that was going to begin is replaced: months and
\* past are as they were.
LEMMA ReplanKeepsHistory ==
  ASSUME PlanInv, NEW s \in assignments, month <= s.from, NEW plan \in Plans,
         CompatiblePlan(tariff, plan), NEW new, new = [s EXCEPT !.plan = plan]
  PROVE  /\ HistoryOK((assignments \ {s}) \cup {new})
         /\ KeepsPast((assignments \ {s}) \cup {new})
<1> DEFINE plans == (assignments \ {s}) \cup {new}
<1>1. HistoryOK(assignments) /\ month \in Nat
  BY PlansAssumption DEF PlanInv
<1>2. /\ new \in PlanRows /\ new.from = s.from /\ new.to = s.to /\ new.plan = plan
  BY <1>1 DEF HistoryOK, PlanRows
<1>3. \A m : Holds(new, m) <=> Holds(s, m)
  BY <1>2 DEF Holds
<1>4. plans \subseteq PlanRows
  BY <1>1, <1>2 DEF HistoryOK
<1>5. Consistent(plans)
  BY <1>1, <1>2 DEF HistoryOK, Consistent
<1>6. NoGap(plans)
  <2> SUFFICES ASSUME NEW m \in Nat, NEW a \in plans, a.from <= m
               PROVE  \E b \in plans : Holds(b, m)
    BY DEF NoGap
  <2>1. PICK a0 \in assignments : a0.from <= m
    BY <1>2
  <2>2. PICK b \in assignments : Holds(b, m)
    BY <1>1, <2>1 DEF HistoryOK, NoGap
  <2> QED BY <1>3, <2>2
<1>7. NearFuture(plans) /\ OfTariff(plans)
  BY <1>1, <1>2 DEF HistoryOK, NearFuture, OfTariff
<1>8. KeepsPast(plans)
  <2> SUFFICES ASSUME NEW m \in 1..(month - 1), NEW a \in assignments, Holds(a, m)
               PROVE  \E b \in plans : Holds(b, m) /\ b.plan = a.plan
    BY DEF KeepsPast
  <2>1. s.from \in Nat
    BY <1>1, PlansAssumption DEF HistoryOK, PlanRows
  <2>2. a # s
    BY <1>1, <2>1 DEF Holds
  <2> QED BY <2>2
<1> QED BY <1>4, <1>5, <1>6, <1>7, <1>8 DEF HistoryOK

\* The first plan of a shop.
LEMMA FirstKeepsHistory ==
  ASSUME PlanInv, assignments = {}, NEW new \in PlanRows, new.to = 0,
         new.from <= month + 1, CompatiblePlan(tariff, new.plan)
  PROVE  HistoryOK({new}) /\ KeepsPast({new})
<1>1. Consistent({new})
  BY DEF Consistent
<1>2. NoGap({new})
  BY DEF NoGap, Holds
<1> QED BY <1>1, <1>2 DEF HistoryOK, KeepsPast, NearFuture, OfTariff

\* Another plan begins where the one that holds is made to end: the months
\* adjoin, and what was charged before is charged as before.
LEMMA ChangeKeepsHistory ==
  ASSUME PlanInv, NEW a \in assignments, NEW target \in Nat, a.from < target,
         month <= target, target <= month + 1,
         NEW end, end = [a EXCEPT !.to = target],
         NEW new \in PlanRows, new.from = target, new.to = 0,
         CompatiblePlan(tariff, new.plan), a.to = 0,
         Consistent((assignments \ {a}) \cup {end} \cup {new})
  PROVE  /\ HistoryOK((assignments \ {a}) \cup {end} \cup {new})
         /\ KeepsPast((assignments \ {a}) \cup {end} \cup {new})
<1> DEFINE plans == (assignments \ {a}) \cup {end} \cup {new}
<1>1. HistoryOK(assignments) /\ month \in 1..MaxMonth /\ month \in Nat
  BY PlansAssumption DEF PlanInv
<1>2. /\ end \in PlanRows /\ end.from = a.from /\ end.to = target /\ end.plan = a.plan
  BY <1>1, PlansAssumption DEF HistoryOK, PlanRows
<1>3. \A m \in Nat : m < target /\ Holds(a, m) => Holds(end, m)
  BY <1>2 DEF Holds
<1>4. plans \subseteq PlanRows
  BY <1>1, <1>2 DEF HistoryOK
<1>5. NoGap(plans)
  <2> SUFFICES ASSUME NEW m \in Nat, NEW x \in plans, x.from <= m
               PROVE  \E b \in plans : Holds(b, m)
    BY DEF NoGap
  <2>1. CASE m >= target
    BY <2>1 DEF Holds
  <2>2. CASE m < target
    <3>1. PICK x0 \in assignments : x0.from <= m
      <4>1. x # new
        BY <2>2
      <4> QED BY <1>2, <4>1
    <3>2. PICK b \in assignments : Holds(b, m)
      BY <1>1, <3>1 DEF HistoryOK, NoGap
    <3> QED BY <1>3, <2>2, <3>2
  <2> QED BY <2>1, <2>2
<1>6. NearFuture(plans) /\ OfTariff(plans)
  BY <1>1, <1>2 DEF HistoryOK, NearFuture, OfTariff
<1>7. KeepsPast(plans)
  <2> SUFFICES ASSUME NEW m \in 1..(month - 1), NEW x \in assignments, Holds(x, m)
               PROVE  \E b \in plans : Holds(b, m) /\ b.plan = x.plan
    BY DEF KeepsPast
  <2>1. m \in Nat /\ m < target
    BY <1>1
  <2>2. CASE x = a
    BY <1>2, <1>3, <2>1, <2>2
  <2>3. CASE x # a
    BY <2>3
  <2> QED BY <2>2, <2>3
<1> QED BY <1>4, <1>5, <1>6, <1>7 DEF HistoryOK

\* SetBillingPlan under the lock of the shop, also when the month has ended
\* since the request read the clock.
LEMMA SetKeepsHistory ==
  ASSUME PlanInv, NEW c \in Callers, SetBillingPlan(c)
  PROVE  HistoryOK(assignments') /\ KeepsPast(assignments')
<1> DEFINE r == request[c]
           current == Holding(r.asOf)
           target == Target(r.asOf, current)
           scheduled == {a \in assignments : a.from = target}
<1>1. /\ r \in [op : {"plan"}, plan : Plans, asOf : 1..MaxMonth]
      /\ r.asOf <= month /\ month <= r.asOf + 1
  BY DEF PlanInv, RequestsOK, SetBillingPlan, PlanRequests, Idle
<1>2. /\ HistoryOK(assignments) /\ assignments \subseteq PlanRows
      /\ Consistent(assignments) /\ month \in Nat /\ MaxMonth \in Nat /\ month <= MaxMonth
  BY PlansAssumption DEF PlanInv, HistoryOK
<1>3. r.asOf \in Nat /\ r.plan \in Plans
  BY <1>1
<1>4. \A a \in assignments : a.from \in Nat /\ a.to \in Nat /\ a.from >= 1
  BY <1>2 DEF PlanRows
<1>5. current = {a \in assignments : Holds(a, r.asOf)}
  BY DEF Holding, Holds
<1>6. target \in {r.asOf, r.asOf + 1} /\ (current # {} => target = r.asOf + 1)
                                      /\ (current = {} => target = r.asOf)
  BY DEF Target
<1>7. KeepsPast(assignments)
  BY DEF KeepsPast
<1>8. CASE assignments' = assignments
  BY <1>2, <1>7, <1>8
<1>9. /\ request[c].op = "plan"
      /\ \/ assignments' = assignments
         \/ /\ CompatiblePlan(tariff, r.plan) /\ scheduled # {}
            /\ assignments' = (assignments \ scheduled)
                   \cup {[a EXCEPT !.plan = r.plan] : a \in scheduled}
         \/ /\ CompatiblePlan(tariff, r.plan) /\ scheduled = {}
            /\ assignments' = Written(
                   (assignments \ current) \cup Closed(current, target)
                       \cup {[from |-> target, to |-> 0, plan |-> r.plan]})
  BY DEF SetBillingPlan
<1> HIDE DEF r, current, target
<1>10. ASSUME NEW s \in scheduled, CompatiblePlan(tariff, r.plan),
              assignments' = (assignments \ scheduled)
                     \cup {[a EXCEPT !.plan = r.plan] : a \in scheduled}
       PROVE  HistoryOK(assignments') /\ KeepsPast(assignments')
  <2>1. s \in assignments /\ s.from = target
    OBVIOUS
  <2>2. target \in Nat /\ Holds(s, target)
    <3>1. s.to = 0 \/ s.from < s.to
      BY <1>2, <1>4, <2>1 DEF Consistent
    <3> QED BY <1>4, <2>1, <3>1 DEF Holds
  <2>3. scheduled = {s}
    <3>1. ASSUME NEW a \in scheduled PROVE a = s
      <4>1. a \in assignments /\ a.from = target
        OBVIOUS
      <4>2. a.to = 0 \/ a.from < a.to
        BY <1>2, <1>4, <4>1 DEF Consistent
      <4>3. Holds(a, target)
        BY <1>4, <4>1, <4>2 DEF Holds
      <4> QED BY <1>2, <2>1, <2>2, <4>1, <4>3, OneHolds
    <3> QED BY <3>1
  <2>4. current # {}
    <3>1. CASE current = {}
      <4>1. target = r.asOf
        BY <1>6, <3>1
      <4> QED BY <1>5, <2>1, <2>2, <3>1, <4>1
    <3> QED BY <3>1
  <2>5. month <= s.from
    BY <1>1, <1>3, <1>6, <2>1, <2>4
  <2> DEFINE new == [s EXCEPT !.plan = r.plan]
  <2>6. assignments' = (assignments \ {s}) \cup {new}
    BY <1>10, <2>3
  <2>7. /\ HistoryOK((assignments \ {s}) \cup {new})
        /\ KeepsPast((assignments \ {s}) \cup {new})
    BY <1>3, <1>10, <2>1, <2>5, ReplanKeepsHistory
  <2> HIDE DEF new
  <2> QED BY <2>6, <2>7
<1>11. ASSUME NEW new, new = [from |-> target, to |-> 0, plan |-> r.plan],
              CompatiblePlan(tariff, r.plan), scheduled = {},
              assignments' = (assignments \ current) \cup Closed(current, target) \cup {new},
              Consistent(assignments')
       PROVE  HistoryOK(assignments') /\ KeepsPast(assignments')
  <2>1. /\ target \in 1..(MaxMonth + 1) /\ target \in Nat /\ target <= month + 1
        /\ (current # {} => month <= target)
    BY <1>1, <1>2, <1>3, <1>6
  <2>2. /\ new \in PlanRows /\ new.from = target /\ new.to = 0 /\ new.plan = r.plan
    BY <1>2, <1>3, <1>11, <2>1 DEF PlanRows
  <2>3. new \in assignments'
    BY <1>11
  <2>4. \A b \in assignments' : b # new => b.to # 0 /\ b.to <= target
    BY <1>11, <2>2, <2>3 DEF Consistent
  <2>5. CASE current = {}
    <3>1. Closed(current, target) = {} /\ target = r.asOf
      BY <1>6, <2>5 DEF Closed
    <3>2. assignments' = assignments \cup {new}
      BY <1>11, <2>5, <3>1
    <3>3. ASSUME NEW a \in assignments PROVE FALSE
      <4>1. a.from > r.asOf
        <5>1. CASE a.from <= r.asOf
          BY <1>2, <1>3, <1>5, <2>5, <5>1 DEF HistoryOK, NoGap
        <5> QED BY <1>3, <1>4, <5>1
      <4>2. a # new
        BY <1>3, <2>2, <3>1, <4>1
      <4>3. a.to # 0 /\ a.to <= target
        BY <2>4, <3>2, <4>2
      <4>4. a.from < a.to
        BY <1>2, <1>4, <4>3 DEF Consistent
      <4> QED BY <1>3, <1>4, <3>1, <4>1, <4>3, <4>4
    <3>4. assignments = {}
      BY <3>3
    <3> QED BY <1>11, <2>1, <2>2, <3>2, <3>4, FirstKeepsHistory
  <2>6. ASSUME NEW a \in current PROVE HistoryOK(assignments') /\ KeepsPast(assignments')
    <3>1. a \in assignments /\ Holds(a, r.asOf) /\ target = r.asOf + 1
      BY <1>5, <1>6, <2>6
    <3>2. current = {a}
      BY <1>2, <1>3, <1>5, <3>1, OneHolds
    <3> DEFINE end == [a EXCEPT !.to = target]
    <3>3. Closed(current, target) = {end}
      BY <3>2 DEF Closed
    <3>4. assignments' = (assignments \ {a}) \cup {end} \cup {new}
      BY <1>11, <3>2, <3>3
    <3>5. a.from < target
      BY <1>3, <1>4, <3>1 DEF Holds
    <3>6. a.to = 0
      <4> SUFFICES ASSUME a.to # 0 PROVE FALSE
        OBVIOUS
      <4>1. r.asOf < a.to
        BY <3>1 DEF Holds
      <4>2. a.from <= a.to
        BY <1>3, <1>4, <3>1, <4>1 DEF Holds
      <4>3. PICK b \in assignments : Holds(b, a.to)
        BY <1>2, <1>4, <3>1, <4>2 DEF HistoryOK, NoGap
      <4>4. b # a
        BY <1>4, <3>1, <4>3 DEF Holds
      <4>5. b.from >= a.to
        BY <1>2, <1>4, <3>1, <4>3, <4>4 DEF Consistent, Holds
      <4>6. b.from # target
        BY <1>11
      <4>7. b.from > target
        BY <1>3, <1>4, <3>1, <4>1, <4>5, <4>6
      <4>8. b \in assignments' /\ b # new
        BY <1>4, <2>1, <2>2, <3>4, <4>4, <4>7
      <4>9. b.to # 0 /\ b.to <= target /\ b.from < b.to
        BY <1>2, <1>4, <2>4, <4>8 DEF Consistent
      <4> QED BY <1>4, <2>1, <4>7, <4>9
    <3>7. month <= target
      BY <2>1, <2>6
    <3>8. end = [a EXCEPT !.to = target] /\ CompatiblePlan(tariff, new.plan)
      BY <1>11, <2>2
    <3> HIDE DEF end
    <3>9. Consistent((assignments \ {a}) \cup {end} \cup {new})
      BY <1>11, <3>4
    <3>10. /\ HistoryOK((assignments \ {a}) \cup {end} \cup {new})
           /\ KeepsPast((assignments \ {a}) \cup {end} \cup {new})
      BY <2>1, <2>2, <3>1, <3>5, <3>6, <3>7, <3>8, <3>9, ChangeKeepsHistory
    <3> QED BY <3>4, <3>10
  <2> QED BY <2>5, <2>6
<1>12. ASSUME CompatiblePlan(tariff, r.plan), scheduled = {},
              assignments' = Written(
                   (assignments \ current) \cup Closed(current, target)
                       \cup {[from |-> target, to |-> 0, plan |-> r.plan]})
       PROVE  HistoryOK(assignments') /\ KeepsPast(assignments')
  BY <1>8, <1>11, <1>12 DEF Written
<1> HIDE DEF scheduled
<1> QED BY <1>8, <1>9, <1>10, <1>12

-----------------------------------------------------------------------------
(* The invariant *)

\* A shop starts without tariff and plans.
LEMMA InitPlans == PlanInit => PlanInv
<1> SUFFICES ASSUME PlanInit PROVE PlanInv
  OBVIOUS
<1>1. assignments = {} /\ \A c \in Callers : request[c] = Idle
  BY DEF PlanInit
<1>2. HistoryOK(assignments)
  BY <1>1 DEF HistoryOK, Consistent, NoGap, NearFuture, OfTariff
<1>3. RequestsOK
  BY <1>1 DEF PlanInit, RequestsOK, PlanRequests
<1> QED BY <1>2, <1>3, PlansAssumption DEF PlanInit, PlanInv

\* A history that nobody changes stays in order as the months pass.
LEMMA FrameKeepsHistory ==
  ASSUME PlanInv, UNCHANGED <<assignments, tariff>>, month' \in Nat, month <= month'
  PROVE  HistoryOK(assignments)' /\ KeepsPast(assignments')
<1>1. HistoryOK(assignments) /\ month \in Nat
  BY PlansAssumption DEF PlanInv
<1>2. \A a \in assignments : a.from \in Nat
  BY <1>1, PlansAssumption DEF HistoryOK, PlanRows
<1>3. NearFuture(assignments)'
  BY <1>1, <1>2 DEF HistoryOK, NearFuture
<1>4. KeepsPast(assignments')
  BY DEF KeepsPast
<1> QED BY <1>1, <1>3, <1>4 DEF HistoryOK, Consistent, NoGap, Holds, OfTariff, CompatiblePlan

\* SetConfiguration, UpdateShopTariff and the calendar keep the history.
LEMMA NextPlans ==
  ASSUME PlanInv, [PlanNext]_planVars
  PROVE  PlanInv' /\ KeepsPast(assignments')
<1>1. /\ month \in 1..MaxMonth /\ month \in Nat /\ RequestsOK /\ HistoryOK(assignments)
      /\ tariff \in Tariffs \cup {NoTariff}
  BY PlansAssumption DEF PlanInv
<1>2. ASSUME NEW c \in Callers, StartPlan(c) PROVE PlanInv' /\ KeepsPast(assignments')
  <2>1. UNCHANGED <<assignments, tariff, month>> /\ month' \in Nat /\ month <= month'
    BY <1>1, <1>2 DEF StartPlan
  <2>2. HistoryOK(assignments)' /\ KeepsPast(assignments')
    BY <2>1, FrameKeepsHistory
  <2>3. PICK q \in PlanRequests : /\ request' = [request EXCEPT ![c] = q]
                                  /\ q # Idle => q.asOf = month
    <3>1. PICK plan \in Plans : request' = [request EXCEPT ![c] =
                  IF CompatiblePlan(tariff, plan)
                  THEN [op |-> "plan", plan |-> plan, asOf |-> month] ELSE Idle]
      BY <1>2 DEF StartPlan
    <3>2. [op |-> "plan", plan |-> plan, asOf |-> month] \in PlanRequests /\ Idle \in PlanRequests
      BY <1>1 DEF PlanRequests
    <3> QED BY <3>1, <3>2
  <2>4. RequestsOK'
    BY <1>1, <2>1, <2>3 DEF RequestsOK
  <2> QED BY <1>1, <2>1, <2>2, <2>4 DEF PlanInv
<1>3. ASSUME NEW c \in Callers, SetBillingPlan(c) PROVE PlanInv' /\ KeepsPast(assignments')
  <2>1. HistoryOK(assignments') /\ KeepsPast(assignments')
    BY <1>3, SetKeepsHistory
  <2>2. UNCHANGED <<tariff, month>> /\ request' = [request EXCEPT ![c] = Idle]
    BY <1>3 DEF SetBillingPlan
  <2>3. HistoryOK(assignments)'
    BY <2>1, <2>2 DEF HistoryOK, Consistent, NoGap, NearFuture, OfTariff, Holds, CompatiblePlan
  <2>4. RequestsOK'
    BY <1>1, <2>2 DEF RequestsOK, PlanRequests
  <2> QED BY <1>1, <2>1, <2>2, <2>3, <2>4 DEF PlanInv
<1>4. ASSUME NEW t \in Tariffs, UpdateShopTariff(t) PROVE PlanInv' /\ KeepsPast(assignments')
  <2>1. UNCHANGED <<assignments, month, request>> /\ month' \in Nat /\ month <= month'
    BY <1>1, <1>4 DEF UpdateShopTariff
  <2>2. RequestsOK' /\ tariff' \in Tariffs \cup {NoTariff}
    BY <1>1, <1>4, <2>1 DEF RequestsOK, UpdateShopTariff
  <2>3. CASE assignments # {}
    <3>1. tariff' = tariff
      BY <1>4, <2>3 DEF UpdateShopTariff
    <3> QED BY <1>1, <2>1, <2>2, <3>1, FrameKeepsHistory DEF PlanInv
  <2>4. CASE assignments = {}
    <3>1. HistoryOK(assignments)' /\ KeepsPast(assignments')
      BY <2>1, <2>4 DEF HistoryOK, Consistent, NoGap, NearFuture, OfTariff, KeepsPast
    <3> QED BY <1>1, <2>1, <2>2, <3>1 DEF PlanInv
  <2> QED BY <2>3, <2>4
<1>5. CASE NextMonth
  <2>1. /\ UNCHANGED <<assignments, tariff, request>> /\ month' = month + 1
        /\ month' \in 1..MaxMonth /\ month' \in Nat /\ month <= month'
    BY <1>1, <1>5, PlansAssumption DEF NextMonth
  <2>2. HistoryOK(assignments)' /\ KeepsPast(assignments')
    BY <2>1, FrameKeepsHistory
  <2>3. RequestsOK'
    BY <1>1, <1>5, <2>1 DEF RequestsOK, NextMonth
  <2> QED BY <1>1, <2>1, <2>2, <2>3 DEF PlanInv
<1>6. CASE UNCHANGED planVars
  <2>1. UNCHANGED <<assignments, tariff, month, request>> /\ month' \in Nat /\ month <= month'
    BY <1>1, <1>6 DEF planVars
  <2>2. RequestsOK'
    BY <1>1, <2>1 DEF RequestsOK
  <2> QED BY <1>1, <2>1, <2>2, FrameKeepsHistory DEF PlanInv
<1> QED BY <1>2, <1>3, <1>4, <1>5, <1>6 DEF PlanNext

\* The inductive invariant holds in every state.
THEOREM PlansInvariance == PlanSpec => []PlanInv
BY InitPlans, NextPlans, PTL DEF PlanSpec

\* In order, the history gives a month its plan, the same for the estimate and
\* for the configuration page.
LEMMA PlansImplied == PlanInv => PlansAgree
<1> SUFFICES ASSUME PlanInv PROVE PlansAgree
  OBVIOUS
<1>1. /\ HistoryOK(assignments) /\ assignments \subseteq PlanRows /\ Consistent(assignments)
      /\ month \in 1..MaxMonth /\ month \in Nat /\ month + 1 \in Nat
  BY PlansAssumption DEF PlanInv, HistoryOK
<1>2. \A a \in assignments : a.from \in Nat /\ a.to \in Nat
  BY <1>1, PlansAssumption DEF PlanRows
<1>3. PlansTypeOK
  BY <1>1 DEF PlansTypeOK, PlanInv, PlanRows
<1>4. ConfiguredIsEstimated
  <2> SUFFICES ASSUME NEW m \in 1..month, NEW a \in assignments, a.from <= m
               PROVE  EstimateOutcome(m) =
                          IF \E r \in RateSets : \A day \in DaysOf(m) : InForce(day) = {r}
                          THEN "selected"
                          ELSE IF \A day \in DaysOf(m) : InForce(day) = {}
                          THEN "RATE_NOT_FOUND" ELSE "UNSUPPORTED_PERIOD"
    BY DEF ConfiguredIsEstimated
  <2>1. m \in Nat /\ m \in 1..MaxMonth
    BY <1>1, PlansAssumption
  <2>2. PICK b \in assignments : Holds(b, m)
    BY <1>1, <2>1 DEF HistoryOK, NoGap
  <2>3. PlanOf(m) = b.plan /\ Select(assignments, m, m + 1, "CONFIGURATION_REQUIRED") = "selected"
    BY <1>1, <2>1, <2>2, ChargedBy
  <2>4. b.plan \in Plans /\ CompatiblePlan(tariff, b.plan)
    BY <1>1, <2>2 DEF HistoryOK, OfTariff, PlanRows
  <2>5. Supported(tariff) /\ CompatiblePlan(tariff, PlanOf(m))
    BY <2>3, <2>4 DEF Supported
  <2>6. EstimateOutcome(m) = Select(RateSets, FirstDay[m], FirstDay[m + 1], "RATE_NOT_FOUND")
    BY <2>3, <2>5 DEF EstimateOutcome
  <2> QED BY <2>1, <2>6, RatesSelected
<1>5. Current = {a \in assignments : Holds(a, month)}
  BY DEF Current, Holds
<1>6. Cardinality(Current) <= 1
  <2>1. CASE Current = {}
    BY <2>1, FS_EmptySet
  <2>2. ASSUME NEW a \in Current PROVE Cardinality(Current) <= 1
    <3>1. Current = {a}
      BY <1>1, <1>5, OneHolds
    <3> QED BY <3>1, FS_Singleton
  <2> QED BY <2>1, <2>2
<1>7. ASSUME NEW a \in Current
      PROVE  Select(assignments, month, month + 1, "none") = "selected" /\ PlanOf(month) = a.plan
  BY <1>1, <1>5, ChargedBy
<1>8. ASSUME NEW a \in Scheduled
      PROVE  a.from = month + 1 /\ PlanOf(month + 1) = a.plan
  <2>1. a \in assignments /\ a.from = month + 1
    BY <1>1, <1>2 DEF Scheduled, HistoryOK, NearFuture
  <2>2. Holds(a, month + 1)
    BY <1>1, <1>2, <2>1 DEF Consistent, Holds
  <2> QED BY <1>1, <2>1, <2>2, ChargedBy
<1>9. ASSUME Scheduled = {}, NEW a \in Current PROVE PlanOf(month + 1) = PlanOf(month)
  <2>1. \A b \in assignments : b.from <= month
    <3> SUFFICES ASSUME NEW b \in assignments, ~(b.from <= month) PROVE FALSE
      OBVIOUS
    <3>1. b.from > month
      BY <1>1, <1>2
    <3>2. \A x \in assignments : x.from > month => b.from <= x.from
      BY <1>1, <1>2 DEF HistoryOK, NearFuture
    <3> QED BY <1>9, <3>1, <3>2 DEF Scheduled
  <2>2. a \in assignments /\ a.from <= month + 1
    BY <1>1, <1>2, <1>5, <2>1
  <2>3. PICK b \in assignments : Holds(b, month + 1)
    BY <1>1, <2>2 DEF HistoryOK, NoGap
  <2>4. Holds(b, month)
    BY <1>1, <1>2, <2>1, <2>3 DEF Holds
  <2> QED BY <1>1, <2>3, <2>4, ChargedBy
<1>10. PageAgreesWithEstimate
  BY <1>6, <1>7, <1>8, <1>9 DEF PageAgreesWithEstimate
<1> QED BY <1>3, <1>4, <1>10 DEF PlansAgree

\* Every month since the first plan has exactly one plan, of the tariff of the
\* shop, and the configuration page shows the one that is charged: whatever
\* administrators change, also across the end of a month.  An estimate of such
\* a month depends on the rate sets alone, also if they begin or end inside the
\* month or those of several providers overlap.
THEOREM PlansStayAgreed == PlanSpec => []PlansAgree
BY PlansInvariance, PlansImplied, PTL

\* The next step keeps the plan of every month that is over.
LEMMA NextKeepsPast ==
  ASSUME PlanInv, PlanInv', [PlanNext]_planVars
  PROVE  PastPlansFixed
<1> SUFFICES ASSUME NEW m \in 1..(month - 1), Meeting(assignments, m, m + 1) # {}
             PROVE  Meeting(assignments', m, m + 1) # {} /\ PlanOf(m)' = PlanOf(m)
  BY DEF PastPlansFixed
<1>1. m \in Nat /\ HistoryOK(assignments) /\ HistoryOK(assignments)'
  BY PlansAssumption DEF PlanInv
<1>2. assignments \subseteq PlanRows /\ assignments' \subseteq PlanRows
      /\ Consistent(assignments')
  BY <1>1 DEF HistoryOK, PlanRows, Consistent
<1>3. PICK a \in assignments : Holds(a, m)
  BY <1>1, <1>2, MeetingHolds
<1>4. KeepsPast(assignments')
  BY NextPlans
<1>5. PICK b \in assignments' : Holds(b, m) /\ b.plan = a.plan
  BY <1>3, <1>4 DEF KeepsPast
<1>6. PlanOf(m) = a.plan
  BY <1>1, <1>3, ChargedBy
<1>7. Meeting(assignments', m, m + 1) = {b}
  BY <1>1, <1>2, <1>5, MeetingHolds, OneHolds
<1>8. PlanOf(m)' = b.plan
  BY <1>7 DEF PlanOf, Meeting
<1> QED BY <1>5, <1>6, <1>7, <1>8

\* The plan of a month that is over never changes into another one.
THEOREM PastStaysFixed == PlanSpec => [][PastPlansFixed]_planVars
<1>1. PlanInv /\ PlanInv' /\ [PlanNext]_planVars => [PastPlansFixed]_planVars
  BY NextKeepsPast
<1> QED BY <1>1, PlansInvariance, PTL DEF PlanSpec

-----------------------------------------------------------------------------
(* The loop of Calculate *)

\* Tiers, and the state of the loop of Calculate.
TierType == [lower : Nat, upper : Nat, rate : Nat]
AccType == [remaining : Nat, raw : Nat]

\* A tier takes no more than what remains.
LEMMA AllocateType ==
  ASSUME NEW acc \in AccType, NEW tier \in TierType,
         tier.upper # 0 => tier.upper > tier.lower
  PROVE  Allocate(acc, tier) \in AccType
  <1> DEFINE size == tier.upper - tier.lower
             taken == IF tier.upper # 0 /\ acc.remaining > size THEN size ELSE acc.remaining
  <1>1. taken \in Nat /\ acc.remaining - taken \in Nat
    BY DEF AccType, TierType
  <1>2. taken * tier.rate \in Nat
    <2> HIDE DEF taken
    <2>1. tier.rate \in Nat
      BY DEF TierType
    <2> QED BY <1>1, <2>1
  <1>3. acc.raw + taken * tier.rate \in Nat
    <2> HIDE DEF taken
    <2> QED BY <1>2 DEF AccType
  <1>4. Allocate(acc, tier) = [remaining |-> acc.remaining - taken, raw |-> acc.raw + taken * tier.rate]
    BY DEF Allocate
  <1> HIDE DEF taken
  <1> QED BY <1>1, <1>3, <1>4 DEF AccType

\* The loop of Calculate, turn by turn.
LEMMA AllocateTurns ==
  ASSUME NEW ts \in Seq(TierType), NEW base \in AccType,
         \A i \in DOMAIN ts : ts[i].upper # 0 => ts[i].upper > ts[i].lower
  PROVE  \E acc \in [0..Len(ts) -> AccType] :
            /\ acc[0] = base
            /\ \A i \in 1..Len(ts) : acc[i] = Allocate(acc[i - 1], ts[i])
            /\ FoldLeft(Allocate, base, ts) = acc[Len(ts)]
  <1> DEFINE n == Len(ts)
             Turn(g) == [s \in SUBSET DOMAIN ts |->
                            IF s = {} THEN base ELSE Allocate(g[s \ {Max(s)}], ts[Max(s)])]
             iter == CHOOSE g : g = Turn(g)
             f == [i \in 1..n |-> [v \in AccType |-> Allocate(v, ts[i])]]
  <1>1. FoldLeft(Allocate, base, ts) = iter[DOMAIN ts]
    BY DEF FoldLeft, MapThenFoldSet
  <1>2. n \in Nat /\ DOMAIN ts = 1..n /\ \A i \in 1..n : ts[i] \in TierType
    OBVIOUS
  <1>3. f \in [1..n -> [AccType -> AccType]]
    <2> HIDE DEF n
    <2>1. \A i \in 1..n : \A v \in AccType : Allocate(v, ts[i]) \in AccType
      BY <1>2, AllocateType
    <2> QED BY <2>1
  <1> HIDE DEF n
  <1>g. PICK g : IsTurns(g, AccType, base, n, f)
    <2> HIDE DEF f, Turn, iter
    <2>1. n \in Nat
      BY <1>2
    <2>2. f \in TurnFunctions(AccType, n)
      BY <1>3 DEF TurnFunctions
    <2> QED BY <2>1, <2>2, TurnsExist
  <1>4. /\ g \in [SUBSET (1..n) -> AccType]
        /\ \A s \in SUBSET (1..n) :
              g[s] = IF s = {} THEN base ELSE f[Max(s)][g[s \ {Max(s)}]]
    <2> HIDE DEF f
    <2> QED BY <1>g DEF IsTurns
  <1>5. g = Turn(g)
    <2>1. ASSUME NEW s \in SUBSET (1..n), s # {}
          PROVE  g[s] = Allocate(g[s \ {Max(s)}], ts[Max(s)])
      <3>1. Max(s) \in 1..n /\ s \ {Max(s)} \in SUBSET (1..n)
        BY <1>2, <2>1, MaxOfSet
      <3>2. g[s \ {Max(s)}] \in AccType
        BY <1>4, <3>1
      <3>3. f[Max(s)][g[s \ {Max(s)}]] = Allocate(g[s \ {Max(s)}], ts[Max(s)])
        BY <3>1, <3>2
      <3> HIDE DEF f
      <3> QED BY <1>4, <2>1, <3>3
    <2>2. ASSUME NEW s \in SUBSET (1..n)
          PROVE  g[s] = Turn(g)[s]
      BY <1>2, <1>4, <2>1
    <2> HIDE DEF f
    <2>3. DOMAIN g = DOMAIN Turn(g)
      BY <1>2, <1>4
    <2> QED BY <1>2, <1>4, <2>2, <2>3
  <1>6. iter = Turn(iter)
    <2> HIDE DEF Turn
    <2> QED BY <1>5, Zenon
  <1>7. iter = [s \in SUBSET (1..n) |->
                   IF s = {} THEN base ELSE Allocate(iter[s \ {Max(s)}], ts[Max(s)])]
    <2> HIDE DEF iter
    <2> QED BY <1>2, <1>6
  <1> HIDE DEF Turn, iter
  <1> DEFINE acc == [k \in 0..n |-> iter[1..k]]
  <1>8. acc[0] = base
    <2>1. 1..0 = {} /\ {} \in SUBSET (1..n) /\ 0 \in 0..n
      BY <1>2
    <2>2. iter[{}] = base
      BY <1>7, <2>1
    <2> QED BY <2>1, <2>2
  <1>9. ASSUME NEW i \in 1..n
        PROVE  acc[i] = Allocate(acc[i - 1], ts[i])
    <2>1. 1..i \in SUBSET (1..n) /\ i \in 1..i /\ (1..i) \ {i} = 1..(i - 1)
      BY <1>2
    <2>2. Max(1..i) = i
      BY MaxOfInterval
    <2>3. iter[1..i] = Allocate(iter[(1..i) \ {i}], ts[i])
      BY <1>7, <2>1, <2>2
    <2>4. acc[i] = iter[1..i] /\ acc[i - 1] = iter[1..(i - 1)]
      BY <1>2
    <2> QED BY <2>1, <2>3, <2>4
  <1> SUFFICES acc \in [0..n -> AccType]
    <2>1. acc[n] = iter[DOMAIN ts]
      BY <1>2
    <2> HIDE DEF acc
    <2> QED BY <1>1, <1>8, <1>9, <2>1 DEF n
  <1> DEFINE Bad == {k \in 0..n : acc[k] \notin AccType}
  <1>10. Bad = {}
    <2>1. SUFFICES ASSUME Bad # {} PROVE FALSE
      OBVIOUS
    <2>2. PICK k \in Bad : \A j \in Bad : k <= j
      <3>1. Bad \subseteq Nat
        BY <1>2
      <3> HIDE DEF Bad
      <3> QED BY <2>1, <3>1, LeastNumber
    <2> HIDE DEF acc
    <2>3. k \in 1..n
      BY <2>2, <1>8, <1>2
    <2>4. acc[k - 1] \in AccType
      BY <2>2, <2>3, <1>2
    <2>5. acc[k] \in AccType
      BY <2>3, <2>4, <1>2, <1>9, AllocateType
    <2> QED BY <2>2, <2>5
  <1> QED BY <1>10
\* A kWh with one rate adds it.
LEMMA AddRateAdds ==
  ASSUME NEW v \in Nat, NEW r \in Nat
  PROVE  AddRate(v, {r}) = v + r
  <1>1. (CHOOSE x \in {r} : {r} = {x}) = r
    OBVIOUS
  <1> QED BY <1>1 DEF AddRate

\* The sum over single kWh, turn by turn.
LEMMA SumTurns ==
  ASSUME NEW n \in Nat, NEW ts, DOMAIN ts = 1..n,
         \A k \in 1..n : \E r \in Nat : ts[k] = {r}
  PROVE  \E acc \in [0..n -> Nat] :
            /\ acc[0] = 0
            /\ \A i \in 1..n : acc[i] = AddRate(acc[i - 1], ts[i])
            /\ FoldLeft(AddRate, 0, ts) = acc[n]
  <1> DEFINE Turn(g) == [s \in SUBSET DOMAIN ts |->
                            IF s = {} THEN 0 ELSE AddRate(g[s \ {Max(s)}], ts[Max(s)])]
             iter == CHOOSE g : g = Turn(g)
             f == [i \in 1..n |-> [v \in Nat |-> AddRate(v, ts[i])]]
  <1>1. FoldLeft(AddRate, 0, ts) = iter[DOMAIN ts]
    BY DEF FoldLeft, MapThenFoldSet
  <1>2. n \in Nat /\ DOMAIN ts = 1..n 
    OBVIOUS
  <1>t. ASSUME NEW i \in 1..n, NEW v \in Nat PROVE AddRate(v, ts[i]) \in Nat
    <2>1. PICK r \in Nat : ts[i] = {r}
      OBVIOUS
    <2> QED BY <2>1, AddRateAdds
  <1>3. f \in [1..n -> [Nat -> Nat]]
    <2>1. \A i \in 1..n : \A v \in Nat : AddRate(v, ts[i]) \in Nat
      BY <1>2, <1>t
    <2> QED BY <2>1
  <1>g. PICK g : IsTurns(g, Nat, 0, n, f)
    <2> HIDE DEF f, Turn, iter
    <2>1. n \in Nat
      BY <1>2
    <2>2. f \in TurnFunctions(Nat, n)
      BY <1>3 DEF TurnFunctions
    <2> QED BY <2>1, <2>2, TurnsExist
  <1>4. /\ g \in [SUBSET (1..n) -> Nat]
        /\ \A s \in SUBSET (1..n) :
              g[s] = IF s = {} THEN 0 ELSE f[Max(s)][g[s \ {Max(s)}]]
    <2> HIDE DEF f
    <2> QED BY <1>g DEF IsTurns
  <1>5. g = Turn(g)
    <2>1. ASSUME NEW s \in SUBSET (1..n), s # {}
          PROVE  g[s] = AddRate(g[s \ {Max(s)}], ts[Max(s)])
      <3>1. Max(s) \in 1..n /\ s \ {Max(s)} \in SUBSET (1..n)
        BY <1>2, <2>1, MaxOfSet
      <3>2. g[s \ {Max(s)}] \in Nat
        BY <1>4, <3>1
      <3>3. f[Max(s)][g[s \ {Max(s)}]] = AddRate(g[s \ {Max(s)}], ts[Max(s)])
        BY <3>1, <3>2
      <3> HIDE DEF f
      <3> QED BY <1>4, <2>1, <3>3
    <2>2. ASSUME NEW s \in SUBSET (1..n)
          PROVE  g[s] = Turn(g)[s]
      BY <1>2, <1>4, <2>1
    <2> HIDE DEF f
    <2>3. DOMAIN g = DOMAIN Turn(g)
      BY <1>2, <1>4
    <2> QED BY <1>2, <1>4, <2>2, <2>3
  <1>6. iter = Turn(iter)
    <2> HIDE DEF Turn
    <2> QED BY <1>5, Zenon
  <1>7. iter = [s \in SUBSET (1..n) |->
                   IF s = {} THEN 0 ELSE AddRate(iter[s \ {Max(s)}], ts[Max(s)])]
    <2> HIDE DEF iter
    <2> QED BY <1>2, <1>6
  <1> HIDE DEF Turn, iter
  <1> DEFINE acc == [k \in 0..n |-> iter[1..k]]
  <1>8. acc[0] = 0
    <2>1. 1..0 = {} /\ {} \in SUBSET (1..n) /\ 0 \in 0..n
      BY <1>2
    <2>2. iter[{}] = 0
      BY <1>7, <2>1
    <2> QED BY <2>1, <2>2
  <1>9. ASSUME NEW i \in 1..n
        PROVE  acc[i] = AddRate(acc[i - 1], ts[i])
    <2>1. 1..i \in SUBSET (1..n) /\ i \in 1..i /\ (1..i) \ {i} = 1..(i - 1)
      BY <1>2
    <2>2. Max(1..i) = i
      BY MaxOfInterval
    <2>3. iter[1..i] = AddRate(iter[(1..i) \ {i}], ts[i])
      BY <1>7, <2>1, <2>2
    <2>4. acc[i] = iter[1..i] /\ acc[i - 1] = iter[1..(i - 1)]
      BY <1>2
    <2> QED BY <2>1, <2>3, <2>4
  <1> SUFFICES acc \in [0..n -> Nat]
    <2>1. acc[n] = iter[DOMAIN ts]
      BY <1>2
    <2> HIDE DEF acc
    <2> QED BY <1>1, <1>8, <1>9, <2>1
  <1> DEFINE Bad == {k \in 0..n : acc[k] \notin Nat}
  <1>10. Bad = {}
    <2>1. SUFFICES ASSUME Bad # {} PROVE FALSE
      OBVIOUS
    <2>2. PICK k \in Bad : \A j \in Bad : k <= j
      <3>1. Bad \subseteq Nat
        BY <1>2
      <3> HIDE DEF Bad
      <3> QED BY <2>1, <3>1, LeastNumber
    <2> HIDE DEF acc
    <2>3. k \in 1..n
      BY <2>2, <1>8, <1>2
    <2>4. acc[k - 1] \in Nat
      BY <2>2, <2>3, <1>2
    <2>5. acc[k] \in Nat
      <3>1. acc[k] = AddRate(acc[k - 1], ts[k])
        BY <2>3, <1>9
      <3> QED BY <3>1, <2>3, <2>4, <1>t
    <2> QED BY <2>2, <2>5
  <1> QED BY <1>10


-----------------------------------------------------------------------------
(* The tiers *)

\* The fields of tiers.
LEMMA TierTypes ==
  ASSUME NEW ts \in Seq(TierType)
  PROVE  /\ DOMAIN ts = 1..Len(ts) /\ Len(ts) \in Nat
         /\ \A i \in 1..Len(ts) :
               ts[i].lower \in Nat /\ ts[i].upper \in Nat /\ ts[i].rate \in Nat
  <1>1. DOMAIN ts = 1..Len(ts) /\ Len(ts) \in Nat /\ \A i \in 1..Len(ts) : ts[i] \in TierType
    OBVIOUS
  <1>2. \A t \in TierType : t.lower \in Nat /\ t.upper \in Nat /\ t.rate \in Nat
    BY DEF TierType
  <1> QED BY <1>1, <1>2

\* A tier ends where a later one begins or before.
LEMMA TiersAscend ==
  ASSUME NEW ts \in Seq(TierType), ValidTiers(ts), NEW i \in DOMAIN ts, NEW j \in DOMAIN ts, i < j
  PROVE  /\ ts[i].upper # 0 /\ ts[i].lower < ts[i].upper
         /\ ts[i].upper <= ts[j].lower
  <1>1. /\ DOMAIN ts = 1..Len(ts) /\ Len(ts) \in Nat
        /\ \A k \in 1..Len(ts) : ts[k].lower \in Nat /\ ts[k].upper \in Nat
    BY TierTypes
  <1>2. \A k \in 1..Len(ts) : /\ k > 1 => ts[k].lower = ts[k - 1].upper
                              /\ ts[k].upper # 0 => ts[k].upper > ts[k].lower
                              /\ k < Len(ts) => ts[k].upper # 0
    BY <1>1 DEF ValidTiers
  <1>3. ts[i].upper # 0 /\ ts[i].lower < ts[i].upper
    BY <1>1, <1>2
  <1> DEFINE Bad == {k \in (i + 1)..Len(ts) : ~(ts[i].upper <= ts[k].lower)}
  <1>4. Bad = {}
    <2>1. SUFFICES ASSUME Bad # {} PROVE FALSE
      OBVIOUS
    <2>2. PICK k \in Bad : \A l \in Bad : k <= l
      <3>1. Bad \subseteq Nat
        BY <1>1
      <3> HIDE DEF Bad
      <3> QED BY <2>1, <3>1, LeastNumber
    <2>3. k \in 1..Len(ts) /\ k > i /\ i \in 1..Len(ts)
      BY <1>1, <2>2
    <2>4. ts[k].lower = ts[k - 1].upper
      BY <1>1, <1>2, <2>3
    <2>5. k - 1 # i
      BY <2>2, <2>4, <1>1
    <2>6. k - 1 \in (i + 1)..Len(ts)
      <3> HIDE DEF Bad
      <3>1. k \in Nat /\ i \in Nat /\ Len(ts) \in Nat /\ k <= Len(ts)
        BY <2>3, <1>1
      <3> QED BY <3>1, <2>3, <2>5
    <2>7. ts[i].upper <= ts[k - 1].lower
      <3>1. ~(k <= k - 1)
        BY <2>3
      <3>2. k - 1 \notin Bad
        BY <2>2, <3>1
      <3> QED BY <2>6, <3>2
    <2>8. k - 1 \in 1..Len(ts) /\ k - 1 < Len(ts)
      BY <2>3, <2>6, <1>1
    <2>9. ts[k - 1].lower < ts[k - 1].upper
      BY <1>1, <1>2, <2>8
    <2> QED BY <2>2, <2>3, <2>4, <2>7, <2>8, <2>9, <1>1
  <1>5. j \in (i + 1)..Len(ts)
    BY <1>1
  <1> QED BY <1>1, <1>3, <1>4, <1>5

\* The k-th kWh falls in the tier.
InTier(tier, k) == tier.lower < k /\ (tier.upper = 0 \/ k <= tier.upper)

\* A kWh is in one tier at most.
LEMMA OneTier ==
  ASSUME tiers \in Seq(TierType), ValidTiers(tiers),
         NEW k \in Nat, NEW i \in DOMAIN tiers, InTier(tiers[i], k)
  PROVE  RatesOf(k) = {tiers[i].rate}
  <1>1. \A j \in DOMAIN tiers : /\ tiers[j].lower \in Nat /\ tiers[j].upper \in Nat
                                /\ j \in Nat
    BY TierTypes
  <1>2. ASSUME NEW j \in DOMAIN tiers, InTier(tiers[j], k) PROVE j = i
    <2>1. CASE i < j
      BY <1>1, <1>2, <2>1, TiersAscend DEF InTier
    <2>2. CASE j < i
      BY <1>1, <1>2, <2>2, TiersAscend DEF InTier
    <2> QED BY <1>1, <2>1, <2>2
  <1>3. TiersOf(k) = {i}
    BY <1>2 DEF TiersOf, InTier
  <1> QED BY <1>3 DEF RatesOf

\* Every kWh up to the end of the last tier is in one.
LEMMA SomeTier ==
  ASSUME tiers \in Seq(TierType), ValidTiers(tiers), NEW k \in Nat, k >= 1
  PROVE  \/ \E i \in DOMAIN tiers : InTier(tiers[i], k)
         \/ tiers[Len(tiers)].upper # 0 /\ tiers[Len(tiers)].upper < k
  <1>1. /\ DOMAIN tiers = 1..Len(tiers) /\ Len(tiers) \in Nat /\ Len(tiers) >= 1
        /\ \A i \in 1..Len(tiers) : tiers[i].lower \in Nat /\ tiers[i].upper \in Nat
    <2>1. tiers # <<>>
      BY DEF ValidTiers
    <2> QED BY <2>1, TierTypes
  <1>2. /\ tiers[1].lower = 0
        /\ \A i \in 1..Len(tiers) : i > 1 => tiers[i].lower = tiers[i - 1].upper
    BY <1>1 DEF ValidTiers
  <1>3. SUFFICES ASSUME tiers[Len(tiers)].upper = 0 \/ k <= tiers[Len(tiers)].upper
                 PROVE  \E i \in DOMAIN tiers : InTier(tiers[i], k)
    BY <1>1
  <1> DEFINE Reach == {i \in 1..Len(tiers) : tiers[i].upper = 0 \/ k <= tiers[i].upper}
  <1>4. Len(tiers) \in Reach
    BY <1>1, <1>3
  <1>5. PICK i \in Reach : \A j \in Reach : i <= j
    <2>1. Reach \subseteq Nat
      BY <1>1
    <2> HIDE DEF Reach
    <2> QED BY <1>4, <2>1, LeastNumber
  <1>6. i \in 1..Len(tiers) /\ (tiers[i].upper = 0 \/ k <= tiers[i].upper)
    BY <1>5
  <1>7. tiers[i].lower < k
    <2>1. CASE i = 1
      BY <2>1, <1>2
    <2>2. CASE i # 1
      <3>1. i - 1 \in 1..Len(tiers) /\ i > 1
        BY <2>2, <1>6, <1>1
      <3>2. i - 1 \notin Reach
        BY <1>5, <1>6, <3>1
      <3>3. tiers[i - 1].upper < k
        BY <3>1, <3>2, <1>1
      <3> QED BY <1>2, <1>6, <3>1, <3>3
    <2> QED BY <2>1, <2>2
  <1> QED BY <1>1, <1>6, <1>7 DEF InTier

\* And no kWh beyond it.
LEMMA NoTier ==
  ASSUME tiers \in Seq(TierType), ValidTiers(tiers), NEW k \in Nat,
         tiers[Len(tiers)].upper # 0, tiers[Len(tiers)].upper < k
  PROVE  RatesOf(k) = {}
  <1>1. /\ DOMAIN tiers = 1..Len(tiers) /\ Len(tiers) \in Nat
        /\ \A i \in 1..Len(tiers) : tiers[i].lower \in Nat /\ tiers[i].upper \in Nat
    BY TierTypes
  <1>2. ASSUME NEW i \in DOMAIN tiers PROVE ~InTier(tiers[i], k)
    <2>1. CASE i = Len(tiers)
      BY <2>1, <1>1 DEF InTier
    <2>2. CASE i < Len(tiers)
      <3>1. Len(tiers) \in DOMAIN tiers
        BY <1>1
      <3>2. tiers[i].upper # 0 /\ tiers[i].upper <= tiers[Len(tiers)].lower
        BY <3>1, <2>2, TiersAscend
      <3>3. tiers[Len(tiers)].lower < tiers[Len(tiers)].upper
        BY <3>1 DEF ValidTiers
      <3> QED BY <1>1, <3>1, <3>2, <3>3 DEF InTier
    <2> QED BY <1>1, <2>1, <2>2
  <1>3. TiersOf(k) = {}
    BY <1>2 DEF TiersOf, InTier
  <1> QED BY <1>3 DEF RatesOf

-----------------------------------------------------------------------------
(* The allocation *)

\* How far the first i tiers reach into the usage.
Upto(kwh, i) ==
    IF i = 0 THEN 0
    ELSE IF tiers[i].upper = 0 \/ tiers[i].upper > kwh THEN kwh ELSE tiers[i].upper

\* One turn of the loop allocates the kWh of one tier.
LEMMA TurnOfTier ==
  ASSUME tiers \in Seq(TierType), ValidTiers(tiers), NEW kwh \in Nat,
         NEW i \in 1..Len(tiers), NEW acc \in AccType,
         acc.remaining = kwh - Upto(kwh, i - 1)
  PROVE  LET from == Upto(kwh, i - 1)
             to == Upto(kwh, i)
         IN /\ from \in Nat /\ to \in Nat /\ from <= to /\ to <= kwh
            /\ from < to => from = tiers[i].lower /\ (tiers[i].upper = 0 \/ to <= tiers[i].upper)
            /\ Allocate(acc, tiers[i]).remaining = kwh - to
            /\ Allocate(acc, tiers[i]).raw = acc.raw + (to - from) * tiers[i].rate
  <1> DEFINE from == Upto(kwh, i - 1)
             to == Upto(kwh, i)
             size == tiers[i].upper - tiers[i].lower
             taken == IF tiers[i].upper # 0 /\ acc.remaining > size THEN size ELSE acc.remaining
  <1>1. /\ DOMAIN tiers = 1..Len(tiers) /\ Len(tiers) \in Nat /\ i \in Nat
        /\ \A j \in 1..Len(tiers) : tiers[j].lower \in Nat /\ tiers[j].upper \in Nat
    BY TierTypes
  <1>2. /\ tiers[1].lower = 0
        /\ i > 1 => /\ tiers[i].lower = tiers[i - 1].upper
                    /\ tiers[i - 1].upper # 0 /\ i - 1 \in 1..Len(tiers)
        /\ tiers[i].upper # 0 => tiers[i].upper > tiers[i].lower
    BY <1>1 DEF ValidTiers
  <1>3. from = IF tiers[i].lower > kwh THEN kwh ELSE tiers[i].lower
    <2>1. CASE i = 1
      BY <2>1, <1>2 DEF Upto
    <2>2. CASE i > 1
      BY <2>2, <1>1, <1>2 DEF Upto
    <2> QED BY <1>1, <2>1, <2>2
  <1>4. to = IF tiers[i].upper = 0 \/ tiers[i].upper > kwh THEN kwh ELSE tiers[i].upper
    BY <1>1 DEF Upto
  <1> HIDE DEF from, to
  <1>5. acc.remaining = kwh - from
    BY DEF from
  <1>6. /\ from \in Nat /\ to \in Nat /\ from <= to /\ to <= kwh
        /\ from < to => from = tiers[i].lower /\ (tiers[i].upper = 0 \/ to <= tiers[i].upper)
    BY <1>1, <1>2, <1>3, <1>4
  <1>7. taken = to - from
    BY <1>1, <1>2, <1>3, <1>4, <1>5
  <1>8. Allocate(acc, tiers[i]) = [remaining |-> acc.remaining - taken, raw |-> acc.raw + taken * tiers[i].rate]
    BY DEF Allocate
  <1> HIDE DEF taken
  <1>9. /\ Allocate(acc, tiers[i]).remaining = kwh - to
        /\ Allocate(acc, tiers[i]).raw = acc.raw + (to - from) * tiers[i].rate
    BY <1>5, <1>6, <1>7, <1>8
  <1> QED BY <1>6, <1>9 DEF from, to

\* The turns of the loop for a usage.
IsAllocation(acc, kwh) ==
    /\ acc \in [0..Len(tiers) -> AccType]
    /\ acc[0] = [remaining |-> kwh, raw |-> 0]
    /\ \A i \in 1..Len(tiers) : acc[i] = Allocate(acc[i - 1], tiers[i])

\* What remains after i tiers is what they do not reach.
LEMMA RemainingIsRest ==
  ASSUME tiers \in Seq(TierType), ValidTiers(tiers), NEW kwh \in Nat,
         NEW acc, IsAllocation(acc, kwh), NEW i \in 0..Len(tiers)
  PROVE  acc[i].remaining = kwh - Upto(kwh, i)
  <1> DEFINE Bad == {j \in 0..Len(tiers) : acc[j].remaining # kwh - Upto(kwh, j)}
  <1>1. Len(tiers) \in Nat
    BY TierTypes
  <1>2. Bad = {}
    <2>1. SUFFICES ASSUME Bad # {} PROVE FALSE
      OBVIOUS
    <2>2. PICK j \in Bad : \A l \in Bad : j <= l
      <3>1. Bad \subseteq Nat
        BY <1>1
      <3> HIDE DEF Bad
      <3> QED BY <2>1, <3>1, LeastNumber
    <2>3. j # 0
      BY <2>2 DEF IsAllocation, Upto
    <2>4. j \in 1..Len(tiers) /\ j - 1 \in 0..Len(tiers) /\ ~(j <= j - 1)
      BY <1>1, <2>2, <2>3
    <2>5. acc[j - 1].remaining = kwh - Upto(kwh, j - 1)
      BY <2>2, <2>4
    <2>6. acc[j] = Allocate(acc[j - 1], tiers[j]) /\ acc[j - 1] \in AccType
      BY <2>4 DEF IsAllocation
    <2>7. acc[j].remaining = kwh - Upto(kwh, j)
      BY <2>4, <2>5, <2>6, TurnOfTier
    <2> QED BY <2>2, <2>7
  <1> QED BY <1>2

\* A stretch of equal rates.
\* Sums of rates, up to each kWh.
Sums(n) == [0..n -> Nat]

Steady(sum, a, b, r) == \A k \in (a + 1)..b : sum[k] = sum[k - 1] + r

LEMMA Stretch ==
  ASSUME NEW n \in Nat, NEW sum \in Sums(n), NEW a \in Nat, NEW b \in Nat,
         a <= b, b <= n, NEW r \in Nat, Steady(sum, a, b, r)
  PROVE  sum[b] = sum[a] + (b - a) * r
  <1> USE DEF Sums, Steady
  <1> DEFINE Bad == {j \in a..b : sum[j] # sum[a] + (j - a) * r}
  <1>1. Bad = {}
    <2>1. SUFFICES ASSUME Bad # {} PROVE FALSE
      OBVIOUS
    <2>2. PICK j \in Bad : \A l \in Bad : j <= l
      <3>1. Bad \subseteq Nat
        OBVIOUS
      <3> HIDE DEF Bad
      <3> QED BY <2>1, <3>1, LeastNumber
    <2>3. j \in a..b /\ sum[j] # sum[a] + (j - a) * r
      BY <2>2
    <2>4. sum[a] \in Nat /\ a - a = 0 /\ 0 * r = 0
      OBVIOUS
    <2>5. j # a
      BY <2>3, <2>4
    <2>6. j - 1 \in a..b /\ ~(j <= j - 1) /\ j \in (a + 1)..b
      BY <2>3, <2>5
    <2>7. sum[j - 1] = sum[a] + ((j - 1) - a) * r
      BY <2>2, <2>6
    <2>8. sum[j] = sum[j - 1] + r
      BY <2>6
    <2>9. (j - a) * r = ((j - 1) - a) * r + r /\ ((j - 1) - a) * r \in Nat
      <3>1. j \in Nat /\ (j - 1) - a \in Nat /\ j - a = ((j - 1) - a) + 1
        BY <2>3, <2>5
      <3> QED BY <3>1
    <2> QED BY <2>3, <2>4, <2>7, <2>8, <2>9
  <1>2. b \notin Bad
    BY <1>1
  <1>3. b \in a..b
    OBVIOUS
  <1> QED BY <1>2, <1>3

\* The sum of the rates of the first k kWh.
IsMarginal(sum, kwh) ==
    /\ sum \in [0..kwh -> Nat]
    /\ sum[0] = 0
    /\ \A k \in 1..kwh : sum[k] = AddRate(sum[k - 1], RatesOf(k))

\* What is charged for i tiers is the sum over the kWh they reach.
LEMMA RawIsMarginal ==
  ASSUME tiers \in Seq(TierType), ValidTiers(tiers), NEW kwh \in Nat,
         NEW acc, IsAllocation(acc, kwh), NEW sum, IsMarginal(sum, kwh),
         NEW i \in 0..Len(tiers)
  PROVE  acc[i].raw = sum[Upto(kwh, i)]
  <1> DEFINE Bad == {j \in 0..Len(tiers) : acc[j].raw # sum[Upto(kwh, j)]}
  <1>1. Len(tiers) \in Nat
    BY TierTypes
  <1>2. Bad = {}
    <2>1. SUFFICES ASSUME Bad # {} PROVE FALSE
      OBVIOUS
    <2>2. PICK j \in Bad : \A l \in Bad : j <= l
      <3>1. Bad \subseteq Nat
        BY <1>1
      <3> HIDE DEF Bad
      <3> QED BY <2>1, <3>1, LeastNumber
    <2>3. j # 0
      BY <2>2 DEF IsAllocation, IsMarginal, Upto
    <2>4. j \in 1..Len(tiers) /\ j - 1 \in 0..Len(tiers) /\ ~(j <= j - 1)
      BY <1>1, <2>2, <2>3
    <2> DEFINE from == Upto(kwh, j - 1)
               to == Upto(kwh, j)
    <2>5. acc[j - 1].raw = sum[from]
      BY <2>2, <2>4
    <2>6. acc[j] = Allocate(acc[j - 1], tiers[j]) /\ acc[j - 1] \in AccType
      BY <2>4 DEF IsAllocation
    <2>7. acc[j - 1].remaining = kwh - from
      BY <2>4, RemainingIsRest
    <2>8. /\ from \in Nat /\ to \in Nat /\ from <= to /\ to <= kwh
          /\ from < to => from = tiers[j].lower /\ (tiers[j].upper = 0 \/ to <= tiers[j].upper)
          /\ acc[j].raw = acc[j - 1].raw + (to - from) * tiers[j].rate
      BY <2>4, <2>6, <2>7, TurnOfTier
    <2> HIDE DEF from, to
    <2>9. tiers[j].rate \in Nat /\ tiers[j].upper \in Nat /\ j \in DOMAIN tiers
      BY <2>4, TierTypes
    <2>10. ASSUME NEW k \in (from + 1)..to
           PROVE  sum[k] = sum[k - 1] + tiers[j].rate
      <3>1. /\ k \in Nat /\ k \in 1..kwh /\ k - 1 \in 0..kwh
            /\ from < to /\ from < k /\ k <= to
        BY <2>8
      <3>2. InTier(tiers[j], k)
        <4>1. tiers[j].lower < k
          BY <2>8, <3>1
        <4>2. tiers[j].upper = 0 \/ k <= tiers[j].upper
          BY <2>8, <2>9, <3>1
        <4> QED BY <4>1, <4>2 DEF InTier
      <3>3. RatesOf(k) = {tiers[j].rate}
        BY <3>1, <3>2, <2>9, OneTier
      <3>4. sum[k] = AddRate(sum[k - 1], {tiers[j].rate}) /\ sum[k - 1] \in Nat
        BY <3>1, <3>3 DEF IsMarginal
      <3> QED BY <3>4, <2>9, AddRateAdds
    <2>11. sum[to] = sum[from] + (to - from) * tiers[j].rate
      <3>1. sum \in Sums(kwh)
        BY DEF IsMarginal, Sums
      <3>2. Steady(sum, from, to, tiers[j].rate)
        BY <2>10 DEF Steady
      <3> HIDE DEF Bad
      <3>3. from \in Nat /\ to \in Nat /\ from <= to /\ to <= kwh /\ tiers[j].rate \in Nat
        BY <2>8, <2>9
      <3> QED BY <3>1, <3>2, <3>3, Stretch
    <2>12. acc[j].raw = sum[to]
      BY <2>5, <2>8, <2>11
    <2> QED BY <2>2, <2>12 DEF to
  <1> QED BY <1>2

\* What the loop of Calculate computes.
Allocated(kwh) == FoldLeft(Allocate, [remaining |-> kwh, raw |-> 0], tiers)

\* The fold of the loop is the last of its turns.
LEMMA FoldIsAllocation ==
  ASSUME tiers \in Seq(TierType), ValidTiers(tiers), NEW kwh \in Nat
  PROVE  \E acc : IsAllocation(acc, kwh) /\ Allocated(kwh) = acc[Len(tiers)]
  <1> DEFINE base == [remaining |-> kwh, raw |-> 0]
  <1>1. base \in AccType
    BY DEF AccType
  <1>2. \A i \in DOMAIN tiers : tiers[i].upper # 0 => tiers[i].upper > tiers[i].lower
    BY DEF ValidTiers
  <1> HIDE DEF base
  <1>3. PICK acc \in [0..Len(tiers) -> AccType] :
           /\ acc[0] = base
           /\ \A i \in 1..Len(tiers) : acc[i] = Allocate(acc[i - 1], tiers[i])
           /\ FoldLeft(Allocate, base, tiers) = acc[Len(tiers)]
    BY <1>1, <1>2, AllocateTurns
  <1> QED BY <1>3 DEF IsAllocation, Allocated, base

\* The allocation is complete when the last tier reaches the usage, and then
\* what it charges is the sum over the kWh.
LEMMA AllocationIsMarginal ==
  ASSUME tiers \in Seq(TierType), ValidTiers(tiers), NEW kwh \in Nat
  PROVE  /\ Allocated(kwh) \in AccType
         /\ Allocated(kwh).remaining = 0 <=> \A k \in 1..kwh : RatesOf(k) # {}
         /\ Allocated(kwh).remaining = 0 =>
               Allocated(kwh).raw = FoldLeft(AddRate, 0, [k \in 1..kwh |-> RatesOf(k)])
  <1> DEFINE n == Len(tiers)
             last == tiers[n]
             rates == [k \in 1..kwh |-> RatesOf(k)]
  <1>1. PICK acc : IsAllocation(acc, kwh) /\ Allocated(kwh) = acc[n]
    BY FoldIsAllocation
  <1>2. n \in Nat /\ n >= 1 /\ n \in 1..n /\ last.upper \in Nat
    <2>1. tiers # <<>>
      BY DEF ValidTiers
    <2>2. n \in Nat /\ n >= 1
      BY <2>1, TierTypes
    <2> QED BY <2>2, TierTypes
  <1> HIDE DEF n
  <1>3. acc[n] \in AccType
    BY <1>1, <1>2 DEF IsAllocation, n
  <1>4. acc[n].remaining = kwh - Upto(kwh, n)
    BY <1>1, <1>2, RemainingIsRest DEF n
  <1>5. acc[n].remaining = 0 <=> (last.upper = 0 \/ kwh <= last.upper)
    BY <1>2, <1>4 DEF Upto
  <1>6. ASSUME last.upper = 0 \/ kwh <= last.upper, NEW k \in 1..kwh
        PROVE  \E r \in Nat : RatesOf(k) = {r}
    <2>1. k \in Nat /\ k >= 1 /\ ~(last.upper # 0 /\ last.upper < k)
      BY <1>2, <1>6
    <2>2. PICK i \in DOMAIN tiers : InTier(tiers[i], k)
      BY <2>1, SomeTier DEF n
    <2>3. RatesOf(k) = {tiers[i].rate}
      BY <2>1, <2>2, OneTier
    <2>4. tiers[i].rate \in Nat
      BY TierTypes
    <2> QED BY <2>3, <2>4
  <1>7. ASSUME last.upper # 0, last.upper < kwh
        PROVE  kwh \in 1..kwh /\ RatesOf(kwh) = {}
    BY <1>2, <1>7, NoTier DEF n
  <1>8. acc[n].remaining = 0 <=> \A k \in 1..kwh : RatesOf(k) # {}
    <2>1. CASE last.upper = 0 \/ kwh <= last.upper
      <3>1. \A k \in 1..kwh : RatesOf(k) # {}
        BY <2>1, <1>6
      <3> QED BY <3>1, <2>1, <1>5
    <2>2. CASE ~(last.upper = 0 \/ kwh <= last.upper)
      BY <2>2, <1>2, <1>5, <1>7
    <2> QED BY <2>1, <2>2
  <1>9. ASSUME acc[n].remaining = 0
        PROVE  acc[n].raw = FoldLeft(AddRate, 0, rates)
    <2>1. last.upper = 0 \/ kwh <= last.upper
      BY <1>5, <1>9
    <2>2. DOMAIN rates = 1..kwh /\ \A k \in 1..kwh : rates[k] = RatesOf(k)
      OBVIOUS
    <2>3. \A k \in 1..kwh : \E r \in Nat : rates[k] = {r}
      BY <2>1, <2>2, <1>6
    <2> HIDE DEF rates
    <2>4. PICK sum \in [0..kwh -> Nat] :
             /\ sum[0] = 0
             /\ \A k \in 1..kwh : sum[k] = AddRate(sum[k - 1], rates[k])
             /\ FoldLeft(AddRate, 0, rates) = sum[kwh]
      BY <2>2, <2>3, SumTurns
    <2>5. IsMarginal(sum, kwh)
      BY <2>2, <2>4 DEF IsMarginal
    <2>6. Upto(kwh, n) = kwh
      BY <1>2, <2>1 DEF Upto
    <2>7. acc[n].raw = sum[kwh]
      BY <1>1, <1>2, <2>5, <2>6, RawIsMarginal DEF n
    <2> QED BY <2>4, <2>7
  <1> QED BY <1>1, <1>3, <1>8, <1>9

\* A tier charges no less for more.
LEMMA AllocateGrows ==
  ASSUME NEW a \in AccType, NEW b \in AccType, NEW tier \in TierType,
         tier.upper # 0 => tier.upper > tier.lower,
         a.remaining <= b.remaining, a.raw <= b.raw
  PROVE  /\ Allocate(a, tier).remaining <= Allocate(b, tier).remaining
         /\ Allocate(a, tier).raw <= Allocate(b, tier).raw
  <1> DEFINE size == tier.upper - tier.lower
             p == IF tier.upper # 0 /\ a.remaining > size THEN size ELSE a.remaining
             q == IF tier.upper # 0 /\ b.remaining > size THEN size ELSE b.remaining
  <1>1. /\ p \in Nat /\ q \in Nat /\ p <= q /\ a.remaining - p <= b.remaining - q
        /\ tier.rate \in Nat /\ a.raw \in Nat /\ b.raw \in Nat
    BY DEF AccType, TierType
  <1>2. /\ Allocate(a, tier) = [remaining |-> a.remaining - p, raw |-> a.raw + p * tier.rate]
        /\ Allocate(b, tier) = [remaining |-> b.remaining - q, raw |-> b.raw + q * tier.rate]
    BY DEF Allocate
  <1> HIDE DEF p, q
  <1>3. p * tier.rate <= q * tier.rate /\ p * tier.rate \in Nat /\ q * tier.rate \in Nat
    <2>1. (q - p) * tier.rate \in Nat /\ q * tier.rate = p * tier.rate + (q - p) * tier.rate
      <3>1. q - p \in Nat
        BY <1>1
      <3> QED BY <1>1, <3>1
    <2>2. p * tier.rate \in Nat /\ q * tier.rate \in Nat
      BY <1>1
    <2> QED BY <2>1, <2>2
  <1> QED BY <1>1, <1>2, <1>3

\* Nor does the schedule.
LEMMA RawGrows ==
  ASSUME tiers \in Seq(TierType), ValidTiers(tiers), NEW kwh \in Nat, NEW more \in Nat, kwh <= more
  PROVE  Allocated(kwh).raw <= Allocated(more).raw
  <1>1. PICK a : IsAllocation(a, kwh) /\ Allocated(kwh) = a[Len(tiers)]
    BY FoldIsAllocation
  <1>2. PICK b : IsAllocation(b, more) /\ Allocated(more) = b[Len(tiers)]
    BY FoldIsAllocation
  <1>3. Len(tiers) \in Nat /\ DOMAIN tiers = 1..Len(tiers) /\ \A i \in 1..Len(tiers) : tiers[i] \in TierType
    OBVIOUS
  <1> DEFINE Bad == {j \in 0..Len(tiers) : ~(/\ a[j].remaining <= b[j].remaining
                                             /\ a[j].raw <= b[j].raw)}
  <1>4. Bad = {}
    <2>1. SUFFICES ASSUME Bad # {} PROVE FALSE
      OBVIOUS
    <2>2. PICK j \in Bad : \A l \in Bad : j <= l
      <3>1. Bad \subseteq Nat
        BY <1>3
      <3> HIDE DEF Bad
      <3> QED BY <2>1, <3>1, LeastNumber
    <2>3. j # 0
      BY <1>1, <1>2, <2>2 DEF IsAllocation
    <2>4. j \in 1..Len(tiers) /\ j - 1 \in 0..Len(tiers) /\ ~(j <= j - 1)
      BY <1>3, <2>2, <2>3
    <2>5. a[j - 1].remaining <= b[j - 1].remaining /\ a[j - 1].raw <= b[j - 1].raw
      BY <2>2, <2>4
    <2>6. /\ a[j] = Allocate(a[j - 1], tiers[j]) /\ a[j - 1] \in AccType
          /\ b[j] = Allocate(b[j - 1], tiers[j]) /\ b[j - 1] \in AccType
      BY <1>1, <1>2, <2>4 DEF IsAllocation
    <2>7. tiers[j] \in TierType /\ (tiers[j].upper # 0 => tiers[j].upper > tiers[j].lower)
      BY <1>3, <2>4 DEF ValidTiers
    <2>8. a[j].remaining <= b[j].remaining /\ a[j].raw <= b[j].raw
      BY <2>5, <2>6, <2>7, AllocateGrows
    <2> QED BY <2>2, <2>8
  <1>5. Len(tiers) \in 0..Len(tiers) /\ Len(tiers) \notin Bad
    BY <1>3, <1>4
  <1> QED BY <1>1, <1>2, <1>5

-----------------------------------------------------------------------------
(* The total *)

\* The charge before it is rounded.
Energy(raw, least) == LET energy == TruncateToTenth(raw)
                      IN energy + (IF energy < least THEN least - energy ELSE 0)

\* Truncation, minimum and rounding keep the order, and stay within a dollar.
LEMMA RoundingKeepsOrder ==
  ASSUME NEW raw \in Nat, NEW more \in Nat, NEW least \in Nat, raw <= more
  PROVE  LET total(r) == RoundToWhole(Energy(r, least))
         IN /\ total(raw) <= total(more)
            /\ \/ 100 * total(more) - more \in -60..50
               \/ 100 * total(more) - least \in -50..50
  <1> DEFINE e == TruncateToTenth(raw)
             f == TruncateToTenth(more)
             x == Energy(raw, least)
             y == Energy(more, least)
  <1>1. e \in Nat /\ f \in Nat /\ e <= f /\ f <= more /\ more - f <= 9
    BY DEF TruncateToTenth
  <1> HIDE DEF e, f
  <1>2. x = (IF e < least THEN least ELSE e) /\ y = (IF f < least THEN least ELSE f)
    BY <1>1 DEF Energy, e, f
  <1> HIDE DEF x, y
  <1>3. x \in Nat /\ y \in Nat /\ x <= y /\ (y = f \/ y = least)
    BY <1>1, <1>2
  <1>4. RoundToWhole(x) <= RoundToWhole(y)
    BY <1>3 DEF RoundToWhole
  <1>5. RoundToWhole(y) \in Nat /\ 100 * RoundToWhole(y) - y \in -50..50
    BY <1>3 DEF RoundToWhole
  <1>6. \/ 100 * RoundToWhole(y) - more \in -60..50
        \/ 100 * RoundToWhole(y) - least \in -50..50
    BY <1>1, <1>3, <1>5
  <1> QED BY <1>4, <1>6 DEF x, y

\* What Calculate returns.
LEMMA CalculateReturns ==
  ASSUME tiers \in Seq(TierType), ValidTiers(tiers), NEW kwh \in Nat, NEW least \in Nat
  PROVE  LET result == Calculate(kwh, tiers, least)
         IN /\ result.ok <=> Allocated(kwh).remaining = 0
            /\ result.ok => /\ result.raw = Allocated(kwh).raw
                            /\ result.total = RoundToWhole(Energy(Allocated(kwh).raw, least))
  <1> DEFINE al == Allocated(kwh)
             energy == TruncateToTenth(al.raw)
             adjustment == IF energy < least THEN least - energy ELSE 0
             result == Calculate(kwh, tiers, least)
  <1>1. al \in AccType
    BY AllocationIsMarginal
  <1>2. result = IF al.remaining > 0 THEN [ok |-> FALSE]
                 ELSE [ok |-> TRUE, raw |-> al.raw, energy |-> energy,
                       adjustment |-> adjustment, total |-> RoundToWhole(energy + adjustment)]
    BY DEF Calculate, Allocated
  <1>3. energy + adjustment = Energy(al.raw, least)
    BY DEF Energy
  <1> HIDE DEF al, energy, adjustment, result
  <1>4. al.remaining \in Nat
    BY <1>1 DEF AccType
  <1>5. CASE al.remaining > 0
    BY <1>2, <1>4, <1>5 DEF al, result
  <1>6. CASE al.remaining = 0
    <2>1. result = [ok |-> TRUE, raw |-> al.raw, energy |-> energy,
                    adjustment |-> adjustment, total |-> RoundToWhole(energy + adjustment)]
      BY <1>2, <1>6
    <2>2. result.ok /\ result.raw = al.raw /\ result.total = RoundToWhole(Energy(al.raw, least))
      BY <2>1, <1>3
    <2> QED BY <2>2, <1>6 DEF al, result
  <1> QED BY <1>4, <1>5, <1>6

-----------------------------------------------------------------------------
(* The charge of a growing usage *)

\* A schedule is a sequence of tiers, and usage is bounded.
ChargeInv == tiers \in Seq(TierType) /\ minimum \in Nat /\ usage \in 0..MaxUsage

\* A month begins with it.
LEMMA InitCharge == ChargeInit => ChargeInv
  BY ChargeAssumption DEF ChargeInit, ChargeInv, TierType

\* Consume keeps it.
LEMMA NextCharge == ChargeInv /\ [Consume]_chargeVars => ChargeInv'
  BY ChargeAssumption DEF ChargeInv, Consume, chargeVars

\* So it holds at any time.
LEMMA ChargeInvariance == ChargeSpec => []ChargeInv
  BY InitCharge, NextCharge, PTL DEF ChargeSpec

\* For any schedule that validateTiers accepts and any usage, Calculate charges each
\* kWh the rate of the one tier it falls in, also at the boundaries of tiers, and
\* refuses a schedule exactly when it does not reach to the usage.
THEOREM ChargeStaysMarginal == ChargeSpec => []ChargeIsMarginal
  <1>1. ChargeInv => ChargeIsMarginal
    <2> SUFFICES ASSUME ChargeInv, ValidTiers(tiers)
                 PROVE  /\ Result.ok <=> \A k \in 1..usage : RatesOf(k) # {}
                        /\ Result.ok =>
                              Result.raw = FoldLeft(AddRate, 0, [k \in 1..usage |-> RatesOf(k)])
      BY DEF ChargeIsMarginal
    <2>1. tiers \in Seq(TierType) /\ minimum \in Nat /\ usage \in Nat
      BY ChargeAssumption DEF ChargeInv
    <2>2. /\ Result.ok <=> Allocated(usage).remaining = 0
          /\ Result.ok => Result.raw = Allocated(usage).raw
      BY <2>1, CalculateReturns DEF Result
    <2>3. /\ Allocated(usage).remaining = 0 <=> \A k \in 1..usage : RatesOf(k) # {}
          /\ Allocated(usage).remaining = 0 =>
                Allocated(usage).raw = FoldLeft(AddRate, 0, [k \in 1..usage |-> RatesOf(k)])
      BY <2>1, AllocationIsMarginal
    <2> QED BY <2>2, <2>3
  <1> QED BY <1>1, ChargeInvariance, PTL

\* More usage never costs less, and no usage costs the same.
LEMMA UsageGrows ==
  ASSUME ChargeInv, ChargeInv', UNCHANGED <<tiers, minimum>>, usage <= usage'
  PROVE  TotalGrows
  <1>1. tiers \in Seq(TierType) /\ minimum \in Nat /\ usage \in Nat /\ usage' \in Nat
    BY ChargeAssumption DEF ChargeInv
  <1>2. Result' = Calculate(usage', tiers, minimum)
    BY DEF Result
  <1>3. CASE ~ValidTiers(tiers)
    <2>1. Result = [ok |-> FALSE]
      BY <1>3 DEF Result, Calculate
    <2> QED BY <2>1 DEF TotalGrows
  <1>4. CASE ValidTiers(tiers)
    <2> DEFINE a == Allocated(usage).raw
               b == Allocated(usage').raw
    <2>1. Result.ok => Result.total = RoundToWhole(Energy(a, minimum))
      BY <1>1, <1>4, CalculateReturns DEF Result
    <2>3. Result'.ok => Result'.raw = b /\ Result'.total = RoundToWhole(Energy(b, minimum))
      BY <1>1, <1>2, <1>4, CalculateReturns
    <2>4. a <= b
      BY <1>1, <1>4, RawGrows
    <2>5. a \in Nat /\ b \in Nat
      BY <1>1, <1>4, AllocationIsMarginal DEF AccType
    <2> HIDE DEF a, b
    <2>6. /\ RoundToWhole(Energy(a, minimum)) <= RoundToWhole(Energy(b, minimum))
          /\ \/ 100 * RoundToWhole(Energy(b, minimum)) - b \in -60..50
             \/ 100 * RoundToWhole(Energy(b, minimum)) - minimum \in -50..50
      BY <1>1, <2>4, <2>5, RoundingKeepsOrder
    <2> QED BY <2>1, <2>3, <2>6 DEF TotalGrows
  <1> QED BY <1>3, <1>4

\* For any schedule and any minimum charge, more usage never costs less, and the
\* total that Calculate rounds is within a dollar of what the usage costs or of
\* the minimum.
THEOREM TotalAlwaysGrows == ChargeSpec => [][TotalGrows]_chargeVars
  <1>1. ChargeInv /\ ChargeInv' /\ [Consume]_chargeVars => [TotalGrows]_chargeVars
    <2> SUFFICES ASSUME ChargeInv, ChargeInv', Consume PROVE TotalGrows
      OBVIOUS
    <2>1. UNCHANGED <<tiers, minimum>> /\ usage <= usage'
      BY ChargeAssumption DEF Consume, ChargeInv
    <2> QED BY <2>1, UsageGrows
  <1> QED BY <1>1, ChargeInvariance, PTL DEF ChargeSpec

-----------------------------------------------------------------------------
(* Bills *)

\* Neither a request of any administrator nor more usage takes a bill back: the
\* plan of a month that is over stays, and the total of a month never shrinks.
THEOREM BillsAlwaysStand == PartsSpec => BillsStand
  <1> DEFINE Moves == [Parts /\ UNCHANGED part]_<<coverageVars, planVars, chargeVars, part>>
             Good == PlanInv /\ ChargeInv
             Stands == [PastPlansFixed /\ TotalGrows]_<<planVars, chargeVars>>
  <1>1. PartsInit => Good
    BY InitPlans, InitCharge DEF PartsInit
  <1>2. ASSUME Good, Moves PROVE Good' /\ Stands
    <2>1. [PlanNext]_planVars
      BY <1>2 DEF Parts
    <2>2. [Consume]_chargeVars
      BY <1>2 DEF Parts
    <2>3. PlanInv' /\ ChargeInv'
      BY <1>2, <2>1, <2>2, NextPlans, NextCharge
    <2>4. PastPlansFixed
      BY <1>2, <2>1, <2>3, NextKeepsPast
    <2>5. UNCHANGED <<tiers, minimum>> /\ usage <= usage'
      BY <1>2, <2>2, ChargeAssumption DEF Consume, ChargeInv, chargeVars
    <2>6. TotalGrows
      BY <1>2, <2>3, <2>5, UsageGrows
    <2> QED BY <2>3, <2>4, <2>6
  <1> QED BY <1>1, <1>2, PTL DEF PartsSpec, BillsStand
=============================================================================
