--------------------------- MODULE BillingCharge ---------------------------
(***************************************************************************)
(* The charge for the usage of a month: allocation to progressive tiers,   *)
(* truncation to tenths, the minimum charge and rounding, as the usage of  *)
(* a month grows.  Usage is in whole kWh, rates and raw charges in         *)
(* hundredths of a dollar, so truncation and rounding meet every digit.    *)
(***************************************************************************)
EXTENDS Integers, SequencesExt

CONSTANTS
    Schedules,  \* tier schedules: sequences of lower, upper, rate; upper 0: none
    Minimums,   \* minimum monthly charges, in hundredths
    MaxUsage    \* bound on usage

ASSUME ChargeAssumption ==
    /\ Schedules \subseteq Seq([lower : Nat, upper : Nat, rate : Nat])
    /\ Minimums \subseteq Nat
    /\ MaxUsage \in Nat

VARIABLES
    tiers,    \* the tiers of the plan and season
    minimum,  \* minimum_monthly_charge
    usage     \* kWh of the month so far

chargeVars == <<tiers, minimum, usage>>

-----------------------------------------------------------------------------
\* validateTiers: from zero, adjoining, and only the last one is open.  (Bounds
\* and rates below zero, which it refuses too, are in no schedule.)
ValidTiers(ts) ==
    /\ ts # <<>>
    /\ ts[1].lower = 0
    /\ \A i \in DOMAIN ts :
           /\ i > 1 => ts[i].lower = ts[i - 1].upper
           /\ ts[i].upper # 0 => ts[i].upper > ts[i].lower
           /\ i < Len(ts) => ts[i].upper # 0

AllocateX(acc, tier) ==
    LET size == tier.upper - tier.lower
        part == IF tier.upper # 0 /\ acc.remaining >= size THEN size - 1 ELSE acc.remaining
    IN [remaining |-> acc.remaining - part, raw |-> acc.raw + part * tier.rate]

\* One turn of the loop: a tier takes what remains, up to its size.
Allocate(acc, tier) ==
    LET size == tier.upper - tier.lower
        part == IF tier.upper # 0 /\ acc.remaining > size THEN size ELSE acc.remaining
    IN [remaining |-> acc.remaining - part, raw |-> acc.raw + part * tier.rate]

TruncateToTenth(hundredths) == (hundredths \div 10) * 10

RoundToWholeX(hundredths) == hundredths \div 100

\* Half a dollar rounds up.
RoundToWhole(hundredths) ==
    LET quotient == hundredths \div 100
    IN IF 2 * (hundredths % 100) >= 100 THEN quotient + 1 ELSE quotient

Calculate(kwh, ts, least) ==
    LET allocated == FoldLeft(Allocate, [remaining |-> kwh, raw |-> 0], ts)
        energy == TruncateToTenth(allocated.raw)
        adjustment == IF energy < least THEN least - energy ELSE 0
    IN IF ~ValidTiers(ts) \/ allocated.remaining > 0
       THEN [ok |-> FALSE]
       ELSE [ok |-> TRUE, raw |-> allocated.raw, energy |-> energy,
             adjustment |-> adjustment, total |-> RoundToWhole(energy + adjustment)]

-----------------------------------------------------------------------------
Consume ==
    /\ usage < MaxUsage
    /\ usage' = usage + 1
    /\ UNCHANGED <<tiers, minimum>>

ChargeInit == tiers \in Schedules /\ minimum \in Minimums /\ usage = 0

ChargeSpec == ChargeInit /\ [][Consume]_chargeVars

-----------------------------------------------------------------------------
(* Properties. *)

Result == Calculate(usage, tiers, minimum)

\* The tiers that the k-th kWh falls in.
TiersOf(k) == {i \in DOMAIN tiers : /\ tiers[i].lower < k
                                    /\ tiers[i].upper = 0 \/ k <= tiers[i].upper}

\* Their rates.
RatesOf(k) == {tiers[i].rate : i \in TiersOf(k)}

AddRate(sum, rates) == sum + (CHOOSE r \in rates : rates = {r})

\* The raw charge is the sum of the rates of the single kWh, each of which is
\* in one tier, also at the boundaries; a schedule that does not reach to the
\* usage is refused.
ChargeIsMarginal ==
    ValidTiers(tiers) =>
        /\ Result.ok <=> \A k \in 1..usage : RatesOf(k) # {}
        /\ Result.ok =>
               Result.raw = FoldLeft(AddRate, 0, [k \in 1..usage |-> RatesOf(k)])

\* More usage never costs less, and the total is within a dollar of what the
\* usage costs or the minimum: truncation and rounding do not add up.
TotalGrows ==
  Result.ok /\ Result'.ok =>
      /\ Result.total <= Result'.total
      /\ \/ 100 * Result'.total - Result'.raw \in -60..50
         \/ 100 * Result'.total - minimum \in -50..50
=============================================================================
