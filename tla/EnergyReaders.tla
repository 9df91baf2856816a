--------------------------- MODULE EnergyReaders ---------------------------
(***************************************************************************)
(* The other readers of the rows of EnergyCoverage: the dashboard, which   *)
(* adds up the valid intervals of a window whether or not they are         *)
(* continuous, and billing, which does the same for a month and compares   *)
(* the time observed with the time the point was assigned.  The cutoff of  *)
(* the current month is the snapshot, now.                                 *)
(***************************************************************************)
EXTENDS EnergyCoverage

-----------------------------------------------------------------------------
(* The dashboard. *)

Disjoint(e, f) == f.end <= e.start \/ e.end <= f.start

\* energy_candidates: recorded in the month, no conflict, attributed.
EnergyCandidates ==
    {r \in rows : /\ r.start < now
                  /\ ~r.conflict
                  /\ AssignmentCovers(Assignments, r.dev, r.start, r.end)}

\* unique_energy_intervals: bounds that only one candidate has.
UniqueEnergyIntervals ==
    {r \in EnergyCandidates :
        \A x \in EnergyCandidates : x # r => <<x.start, x.end>> # <<r.start, r.end>>}

NonOverlappingEnergyX ==
    {r \in UniqueEnergyIntervals :
        \A x \in UniqueEnergyIntervals : x # r => x.end < r.start \/ r.end < x.start}

\* non_overlapping_energy: and no other unique interval reaches into it.
NonOverlappingEnergy ==
    {r \in UniqueEnergyIntervals :
        \A x \in UniqueEnergyIntervals : x # r => Disjoint(x, r)}

\* daily_energy and monthly_energy.
DashboardEnergy(from) ==
    MapThenSumSet(LAMBDA r : r.kwh, {r \in NonOverlappingEnergy : from <= r.start})

-----------------------------------------------------------------------------
(* Durations of unions of intervals. *)

\* Intervals clipped to [lower, upper), without the empty ones.
Clipped(intervals, lower, upper) ==
    {i \in {[x EXCEPT !.start = IF @ < lower THEN lower ELSE @,
                      !.end = IF @ > upper THEN upper ELSE @] : x \in intervals} :
        i.start < i.end}

\* Pairs of intervals in the order of their start and end.
ByStart(intervals) ==
    {p \in intervals \X intervals : \/ p[1].start < p[2].start
                                    \/ p[1].start = p[2].start /\ p[1].end < p[2].end}

\* One turn of the sweep: an interval that starts no later than the end so far
\* joins it.
Sweep(acc, i) ==
    IF i.start <= acc.end
    THEN [acc EXCEPT !.end = IF i.end > @ THEN i.end ELSE @]
    ELSE [start |-> i.start, end |-> i.end, total |-> acc.total + (acc.end - acc.start)]

UnionSortedDuration(intervals) ==
    LET sweep == FoldLeft(Sweep, [start |-> 0, end |-> 0, total |-> 0],
                          SortedBy(intervals, ByStart(intervals)))
    IN sweep.total + (sweep.end - sweep.start)

UnionDuration(intervals, lower, upper) ==
    UnionSortedDuration({[start |-> i.start, end |-> i.end] :
                            i \in Clipped(intervals, lower, upper)})

-----------------------------------------------------------------------------
(* Billing. *)

\* loadBillingAssignments: an open assignment lasts until the cutoff.
BillingAssignments ==
    {[a EXCEPT !.end = IF @ = Forever THEN now ELSE @] :
        a \in {[dev |-> x.dev, start |-> x.from, end |-> x.to] : x \in LoadAssignments}}

Covering(r) ==
    {a \in BillingAssignments : a.start <= r.start /\ r.end <= a.end}

VerdictX(r) ==
    CASE r.conflict -> "CONFLICTING"
      [] ~r.conflict /\ r.end > now -> "LEGACY"
      [] OTHER -> "observed"

\* What evaluatePointCandidates makes of a row: "observed" or a warning.
Verdict(r) ==
    CASE r.conflict -> "CONFLICTING"
      [] ~r.conflict /\ r.end > now -> "LEGACY"
      [] /\ ~r.conflict /\ r.end <= now
         /\ Cardinality(Covering(r)) > 1 -> "AMBIGUOUS_ASSIGNMENT"
      [] /\ ~r.conflict /\ r.end <= now
         /\ \E a \in Covering(r) : Covering(r) = {a} /\ a.dev = r.dev -> "observed"
      [] OTHER -> "UNATTRIBUTABLE"

\* Equal intervals with equal energy are one observation.
Observations ==
    {[start |-> r.start, end |-> r.end, kwh |-> r.kwh] :
        r \in {x \in rows : x.start < now /\ Verdict(x) = "observed"}}

\* A group of one is accepted; a larger one is an overlap.
Close(acc) ==
    IF Len(acc.group) = 1 THEN [acc EXCEPT !.accepted = @ \cup {acc.group[1]}]
    ELSE [acc EXCEPT !.overlap = @ \/ Len(acc.group) > 1]

JoinX(acc, item) ==
    IF acc.group # <<>> /\ item.start < acc.maxEnd
    THEN [acc EXCEPT !.group = Append(@, item), !.maxEnd = item.end]
    ELSE [Close(acc) EXCEPT !.group = <<item>>, !.maxEnd = item.end]

\* An item that starts before the last end of the group joins it.
Join(acc, item) ==
    IF acc.group # <<>> /\ item.start < acc.maxEnd
    THEN [acc EXCEPT !.group = Append(@, item),
                     !.maxEnd = IF item.end > @ THEN item.end ELSE @]
    ELSE [Close(acc) EXCEPT !.group = <<item>>, !.maxEnd = item.end]

\* In the order of start, end and energy.
ByBounds(items) ==
    ByStart(items) \cup {p \in items \X items : /\ p[1].start = p[2].start
                                                /\ p[1].end = p[2].end
                                                /\ p[1].kwh < p[2].kwh}

EvaluateObserved(observed) ==
    LET items == Clipped(observed, MonthStart, now)
        grouped == Close(FoldLeft(Join,
            [group |-> <<>>, maxEnd |-> 0, accepted |-> {}, overlap |-> FALSE],
            SortedBy(items, ByBounds(items))))
    IN [accepted |-> grouped.accepted,
        overlap |-> grouped.overlap,
        kwh |-> MapThenSumSet(LAMBDA i : i.kwh, grouped.accepted),
        duration |-> UnionSortedDuration(
                         {[start |-> i.start, end |-> i.end] : i \in grouped.accepted})]

ExpectedDuration == UnionDuration(BillingAssignments, MonthStart, now)

WarningsX ==
    ({Verdict(r) : r \in {x \in rows : x.start < now}} \ {"observed"})
        \cup {"LEGACY" : t \in {x \in legacy : x < now}}
        \cup (IF EvaluateObserved(Observations).overlap THEN {"OVERLAPPING"} ELSE {})

\* The warnings of a point of the bill.
Warnings ==
    LET observed == EvaluateObserved(Observations)
    IN ({Verdict(r) : r \in {x \in rows : x.start < now}} \ {"observed"})
           \cup {"LEGACY" : t \in {x \in legacy : x < now}}
           \cup (IF observed.overlap THEN {"OVERLAPPING"} ELSE {})
           \cup (IF observed.duration < ExpectedDuration THEN {"PARTIAL"} ELSE {})

-----------------------------------------------------------------------------
(* Properties. *)

Instants(i) == i.start..(i.end - 1)

\* The sweep over groups accepts exactly the observations that overlap no other
\* one, and the two durations count instants: a long interval that contains
\* several others excludes all of them.
BilledIsUncontested ==
    LET result == EvaluateObserved(Observations)
        alone == {o \in Observations : \A x \in Observations \ {o} : Disjoint(o, x)}
    IN /\ result.accepted = alone
       /\ result.duration = Cardinality(UNION {Instants(o) : o \in alone})
       /\ ExpectedDuration =
              Cardinality(UNION {Instants(a) : a \in BillingAssignments})

\* The time observed never exceeds the time the point was assigned, before
\* Aggregate bounds it: a row stored for an assignment that was closed inside
\* its interval does not count.
ObservedWithinExpected ==
    EvaluateObserved(Observations).duration <= ExpectedDuration

\* A bill without a warning is complete: every instant of the month so far at
\* which a device was assigned is in an accepted interval, every row up to the
\* cutoff was used, and coverage, if it proves the month up to now, finds the
\* same energy.
NoWarningMeansComplete ==
    LET result == EvaluateObserved(Observations)
        month == Window(MonthStart)
    IN Warnings = {} =>
           /\ UNION {Instants(i) : i \in result.accepted}
                  = UNION {Instants(a) : a \in BillingAssignments}
           /\ \A r \in rows : r.start < now =>
                  [start |-> r.start, end |-> r.end, kwh |-> r.kwh] \in result.accepted
           /\ month.through = now => month.kwh = result.kwh

\* What coverage proves, the dashboard and the bill count: neither shows less
\* energy than the proven prefix, for today and for the month.
ProvenIsCounted ==
    LET month == Window(MonthStart)
        today == Window(TodayStart)
    IN NoLateOverlap(LoadEvidence) =>
           /\ month.kwh <= DashboardEnergy(MonthStart)
           /\ today.kwh <= DashboardEnergy(TodayStart)
           /\ month.kwh <= EvaluateObserved(Observations).kwh

\* Candidates of the dashboard that overlap are excluded, both of them.
OverlapExcluded ==
    \A r, x \in EnergyCandidates :
        r # x /\ ~Disjoint(r, x) => r \notin NonOverlappingEnergy

\* Coverage, dashboard and bill tell one story about the readings of a point.
ReadersAgree ==
    /\ WatermarkIsProven /\ OrderIrrelevant /\ TodayAgreesWithMonth
    /\ BilledIsUncontested /\ ObservedWithinExpected
    /\ NoWarningMeansComplete /\ ProvenIsCounted
=============================================================================
