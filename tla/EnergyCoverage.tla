--------------------------- MODULE EnergyCoverage ---------------------------
(***************************************************************************)
(* The energy of a measurement point: rows of power_readings, of which a   *)
(* query makes evidence, and Evaluate, which counts the energy of the      *)
(* continuously proven prefix of a period.  Evaluate is checked against a  *)
(* reference that does not sort and does not scan.                         *)
(*                                                                         *)
(* Times are ticks.  The month starts at 1 and today at TodayStart; the    *)
(* zero time, which is the End of a barrier, is 0.                         *)
(***************************************************************************)
EXTENDS Naturals, FiniteSets, SequencesExt

CONSTANTS
    Producers,    \* records dev, boot, seq, kwh: the messages devices may send
    Old, New,     \* the device of the point and the one that may replace it
    TodayStart,   \* local midnight
    LegacyTimes,  \* times of readings without a coverage interval
    MaxTime,      \* bound on times
    MaxRows       \* bound on stored rows

ASSUME CoverageAssumption ==
    /\ TodayStart \in 2..MaxTime
    /\ LegacyTimes \subseteq 1..(MaxTime - 1)
    /\ MaxTime \in Nat /\ MaxRows \in Nat
    /\ Old # New
    /\ \A p \in Producers : p.kwh \in Nat

VARIABLES
    rows,      \* rows with a coverage version and their ingest keys
    legacy,    \* recorded_at of the rows without one
    closed,    \* when the assignment of Old ended; 0: it is open
    opened,    \* when the assignment of New began; 0: there is none
    now        \* requestSnapshot

coverageVars == <<rows, legacy, closed, opened, now>>

MonthStart == 1

-----------------------------------------------------------------------------
(* Evidence. *)

Barrier(t, state) == [start |-> t, end |-> 0, dev |-> "none", boot |-> 0, seq |-> 0,
                      kwh |-> 0, attributable |-> FALSE, barrier |-> state]

Forever == MaxTime + 1

\* device_assignments of the point.
Assignments ==
    {[dev |-> Old, from |-> MonthStart, to |-> IF closed = 0 THEN Forever ELSE closed]}
        \cup {[dev |-> New, from |-> t, to |-> Forever] : t \in {opened} \ {0}}

\* The assignments of a window.
LoadAssignments == {a \in Assignments : a.from < now /\ a.to > MonthStart}

\* Exactly one assignment of the device contains the interval.
AssignmentCovers(assignments, dev, start, end) ==
    Cardinality({a \in assignments : a.dev = dev /\ a.from <= start /\ end <= a.to}) = 1

\* A row is recorded at the start of its interval; in conflict it is a barrier.
EvidenceOf(r) ==
    IF r.conflict THEN Barrier(r.start, "AMBIGUOUS")
    ELSE [start |-> r.start, end |-> r.end, dev |-> r.dev, boot |-> r.boot,
          seq |-> r.seq, kwh |-> r.kwh, barrier |-> "none",
          attributable |-> AssignmentCovers(LoadAssignments, r.dev, r.start, r.end)]

\* The rows recorded in [MonthStart, now), and the barriers of legacy rows.
LoadEvidence ==
    {EvidenceOf(r) : r \in {x \in rows : x.start < now}}
        \cup {Barrier(t, "UNKNOWN") : t \in {x \in legacy : x < now}}

-----------------------------------------------------------------------------
(* Evaluate. *)

\* The elements of S in the order of a relation: an element is preceded by as
\* many others as its place says.
SortedBy(S, before) ==
    [k \in 1..Cardinality(S) |->
        CHOOSE x \in S : Cardinality({y \in S : <<y, x>> \in before}) = k - 1]

\* sort.SliceStable by start, then by end.
Sorted(seq) ==
    LET Before(i, j) == \/ seq[i].start < seq[j].start
                        \/ seq[i].start = seq[j].start /\ seq[i].end < seq[j].end
                        \/ /\ seq[i].start = seq[j].start /\ seq[i].end = seq[j].end
                           /\ i < j
        indices == DOMAIN seq
        order == SortedBy(indices, {p \in indices \X indices : Before(p[1], p[2])})
    IN [i \in indices |-> seq[order[i]]]

RetreatX(frontier, point, proven) == IF point < frontier THEN point ELSE frontier

\* The start of the last proven interval that contains the point.
Retreat(frontier, point, proven) ==
    LET holders == {i \in DOMAIN proven : /\ proven[i].start <= point
                                          /\ point < proven[i].end}
    IN CASE holders # {} -> proven[Max(holders)].start
         [] holders = {} /\ point < frontier -> point
         [] OTHER -> frontier

\* The proven intervals before the first one that ends behind the frontier.
Truncate(proven, frontier) ==
    LET behind == {i \in DOMAIN proven : proven[i].end > frontier}
    IN IF behind = {} THEN proven ELSE SubSeq(proven, 1, Min(behind) - 1)

\* Continuity of the producer; a device that replaced another starts anew.
Discontinuity(previous, current) ==
    CASE current.dev # previous.dev -> "none"
      [] current.dev = previous.dev /\ current.boot < previous.boot -> "AMBIGUOUS"
      [] /\ current.dev = previous.dev
         /\ current.boot = previous.boot
         /\ current.seq # previous.seq + 1 -> "GAP"
      [] /\ current.dev = previous.dev
         /\ current.boot > previous.boot
         /\ current.seq # 0 -> "AMBIGUOUS"
      [] OTHER -> "none"

Stop(acc, state) == [acc EXCEPT !.state = state, !.done = TRUE]

\* The scan stops and takes back the interval that the point falls in.
StopAt(acc, state, point) ==
    LET f == Retreat(acc.frontier, point, acc.proven)
    IN [Stop(acc, state) EXCEPT !.frontier = f, !.proven = Truncate(acc.proven, f)]

Accept(acc, current) ==
    [acc EXCEPT !.frontier = current.end, !.state = "PROVEN",
                !.proven = Append(@, current)]

\* The interval is where the frontier is: is it the next one?
Extend(acc, current) ==
    LET gap == IF acc.proven = <<>> THEN "none"
               ELSE Discontinuity(Last(acc.proven), current)
    IN CASE ~current.attributable -> Stop(acc, "UNATTRIBUTABLE")
         [] current.attributable /\ gap # "none" -> Stop(acc, gap)
         [] OTHER -> Accept(acc, current)

StepX(acc, current, period, snapshot) ==
    CASE acc.done -> acc
      [] ~acc.done /\ current.barrier # "none" /\ current.start < period -> acc
      [] ~acc.done /\ current.barrier = "none" /\ current.start < period ->
             Stop(acc, "UNKNOWN")
      [] ~acc.done /\ current.start >= period /\ current.end > snapshot ->
             Stop(acc, "UNKNOWN")
      [] ~acc.done /\ current.start >= period /\ current.barrier # "none" ->
             StopAt(acc, current.barrier, current.start)
      [] OTHER -> IF current.start < acc.frontier
                  THEN StopAt(acc, "AMBIGUOUS", current.start)
                  ELSE IF current.start > acc.frontier THEN Stop(acc, "GAP")
                  ELSE Extend(acc, current)

\* One turn of the loop.
Step(acc, current, period, snapshot) ==
    CASE acc.done -> acc
      [] ~acc.done /\ current.barrier = "none" /\ current.end <= period -> acc
      [] ~acc.done /\ current.barrier # "none" /\ current.start < period -> acc
      [] ~acc.done /\ current.barrier = "none" /\ current.end > period
             /\ current.start < period -> Stop(acc, "UNKNOWN")
      [] ~acc.done /\ current.start >= period /\ current.end > snapshot ->
             Stop(acc, "UNKNOWN")
      [] ~acc.done /\ current.start >= period /\ current.barrier # "none" ->
             StopAt(acc, current.barrier, current.start)
      [] OTHER -> IF current.start < acc.frontier
                  THEN StopAt(acc, "AMBIGUOUS", current.start)
                  ELSE IF current.start > acc.frontier THEN Stop(acc, "GAP")
                  ELSE Extend(acc, current)

EvaluateX(period, snapshot, seq) ==
    LET acc == FoldLeft(LAMBDA a, e : Step(a, e, period, snapshot),
                        [frontier |-> period, state |-> "UNKNOWN",
                         proven |-> <<>>, done |-> FALSE], seq)
    IN [through |-> acc.frontier, state |-> acc.state,
        kwh |-> FoldLeft(LAMBDA sum, e : sum + e.kwh, 0, acc.proven)]

Evaluate(period, snapshot, seq) ==
    LET acc == FoldLeft(LAMBDA a, e : Step(a, e, period, snapshot),
                        [frontier |-> period, state |-> "UNKNOWN",
                         proven |-> <<>>, done |-> FALSE], Sorted(seq))
    IN [through |-> acc.frontier, state |-> acc.state,
        kwh |-> FoldLeft(LAMBDA sum, e : sum + e.kwh, 0, acc.proven)]

\* FindMeasurementPointEnergy: one snapshot, two periods.
Window(period) == Evaluate(period, now, SetToSeq(LoadEvidence))

-----------------------------------------------------------------------------
(* Rows arrive in any order and late; a second, different message with the *)
(* key of a row marks it as in conflict; the device goes or is replaced.   *)

\* Ingest of a coverage message: the interval is valid, within one local day,
\* and one assignment of the device contains it.
Store == \E p \in Producers, s \in MonthStart..MaxTime, e \in MonthStart..MaxTime :
    /\ Cardinality(rows) < MaxRows
    /\ s < e
    /\ ~(s < TodayStart /\ TodayStart < e)
    /\ \A r \in rows : <<r.dev, r.boot, r.seq>> # <<p.dev, p.boot, p.seq>>
    /\ AssignmentCovers(Assignments, p.dev, s, e)
    /\ rows' = rows \cup {[dev |-> p.dev, boot |-> p.boot, seq |-> p.seq,
                            kwh |-> p.kwh, start |-> s, end |-> e, conflict |-> FALSE]}
    /\ UNCHANGED <<legacy, closed, opened, now>>

StoreLegacy == \E t \in LegacyTimes :
    /\ legacy = {}
    /\ \E a \in Assignments : a.from <= t /\ t < a.to
    /\ legacy' = {t}
    /\ UNCHANGED <<rows, closed, opened, now>>

Conflict == \E r \in rows :
    /\ \A x \in rows : ~x.conflict
    /\ rows' = (rows \ {r}) \cup {[r EXCEPT !.conflict = TRUE]}
    /\ UNCHANGED <<legacy, closed, opened, now>>

\* HasCommittedTelemetryConflict compares the start of an interval only.
MayClose ==
    /\ closed = 0
    /\ \A r \in rows : r.start < now
    /\ \A t \in legacy : t < now

Unbind ==
    /\ MayClose
    /\ closed' = now
    /\ UNCHANGED <<rows, legacy, opened, now>>

Replace ==
    /\ MayClose
    /\ closed' = now
    /\ opened' = now
    /\ UNCHANGED <<rows, legacy, now>>

Bind ==
    /\ closed # 0
    /\ opened = 0
    /\ opened' = now
    /\ UNCHANGED <<rows, legacy, closed, now>>

Tick ==
    /\ now < MaxTime
    /\ now' = now + 1
    /\ UNCHANGED <<rows, legacy, closed, opened>>

CoverageInit ==
    /\ rows = {}
    /\ legacy = {}
    /\ closed = 0
    /\ opened = 0
    /\ now = TodayStart

CoverageNext == Store \/ StoreLegacy \/ Conflict \/ Unbind \/ Replace \/ Bind \/ Tick

CoverageSpec == CoverageInit /\ [][CoverageNext]_coverageVars

-----------------------------------------------------------------------------
(* The reference. *)

Overlap(e, f) == e.start < f.end /\ f.start < e.end

Through(tiles, period) == Max({period} \cup {e.end : e \in tiles})

\* A set of intervals proves the period up to its last end if it tiles it, each
\* interval is attributed and follows the one before it, no barrier stands in
\* it and no other interval reaches into it.
Proves(tiles, period, evidence) ==
    LET w == Through(tiles, period)
    IN /\ \A e \in tiles : e.attributable /\ period <= e.start /\ e.end <= now
       /\ \A e, f \in tiles : /\ e # f => ~Overlap(e, f)
                              /\ e.end = f.start => Discontinuity(e, f) = "none"
       /\ UNION {e.start..(e.end - 1) : e \in tiles} = period..(w - 1)
       /\ \A x \in evidence \ tiles :
              IF x.barrier = "none" THEN ~(x.start < w /\ period < x.end)
                                    ELSE x.start \notin period..(w - 1)

\* Intervals that have not ended by the snapshot overlap no other one.
NoLateOverlap(evidence) ==
    \A e, f \in evidence : e # f /\ e.end > now => ~Overlap(e, f)

-----------------------------------------------------------------------------
(* Properties. *)

\* Evaluate returns the longest prefix of the period that the evidence proves
\* and exactly the energy of that prefix, for today and for the month: what a
\* late row, a conflict or an overlap takes back leaves the sum as well.
WatermarkIsProven ==
    LET evidence == LoadEvidence
    IN NoLateOverlap(evidence) => \A period \in {MonthStart, TodayStart} :
           LET result == Evaluate(period, now, SetToSeq(evidence))
               intervals == {e \in evidence : e.barrier = "none"}
               provable == {tiles \in SUBSET intervals : Proves(tiles, period, evidence)}
           IN /\ \A tiles \in provable : Through(tiles, period) <= result.through
              /\ \E tiles \in provable :
                     /\ Through(tiles, period) = result.through
                     /\ MapThenSumSet(LAMBDA e : e.kwh, tiles) = result.kwh

\* Neither the watermark nor the energy depends on the order in which rows
\* arrived, although the sort keeps the order of rows with equal bounds.
OrderIrrelevant ==
    LET evidence == LoadEvidence
        result == Evaluate(MonthStart, now, SetToSeq(evidence))
    IN \A seq \in SetToSeqs(evidence) :
           LET other == Evaluate(MonthStart, now, seq)
           IN other.through = result.through /\ other.kwh = result.kwh

\* The two windows of one answer agree: when the month is proven into today,
\* today is proven to the same watermark, with no more energy than the month.
TodayAgreesWithMonth ==
    LET month == Window(MonthStart)
        today == Window(TodayStart)
    IN month.through > TodayStart => /\ today.through = month.through
                                     /\ today.kwh <= month.kwh
=============================================================================
