------------------------------ MODULE MCEnergy ------------------------------
(***************************************************************************)
(* From readings to a bill, one part at a time: the readings of a point    *)
(* and what coverage, dashboard and bill make of them; the billing plans   *)
(* of a shop; and the charge for growing usage.                            *)
(***************************************************************************)
EXTENDS EnergyReaders, BillingPlans, BillingCharge

VARIABLE part

\* Consecutive messages and a restart of one device, and a message of another;
\* two report the same energy.
SmallProducers ==
    {[dev |-> "d1", boot |-> 1, seq |-> 0, kwh |-> 1],
     [dev |-> "d1", boot |-> 1, seq |-> 1, kwh |-> 2],
     [dev |-> "d1", boot |-> 2, seq |-> 0, kwh |-> 2],
     [dev |-> "d2", boot |-> 1, seq |-> 5, kwh |-> 4]}

\* Three tariffs: with one plan, with two and with none.  Months of two days,
\* and rate sets of two providers: one holds in the first month and ends inside
\* the second, in the third one begins beside another, the fourth has none.
SmallPlanTariff == [commercial |-> "T1", residential |-> "T2", nonresidential |-> "T2"]
SmallFirstDay == [m \in 1..5 |-> 2 * m - 1]
SmallRateSets == {[provider |-> "p1", from |-> 1, to |-> 4],
                  [provider |-> "p1", from |-> 6, to |-> 7],
                  [provider |-> "p2", from |-> 5, to |-> 7]}

\* Schedules with tiers of one and of several kWh, open and bounded, and one
\* that does not adjoin.
Tier(lower, upper, rate) == [lower |-> lower, upper |-> upper, rate |-> rate]

SmallSchedules ==
    {<<Tier(0, 4, a), Tier(4, 5, b), Tier(5, 9, c), Tier(9, 0, d)>> :
        a \in {0, 178}, b \in {255, 271}, c \in {376, 380}, d \in {514, 743}}
    \cup {<<Tier(0, 3, 178), Tier(3, 7, 446)>>,
          <<Tier(0, 0, 305)>>,
          <<Tier(0, 3, 178), Tier(4, 0, 255)>>}

Parts ==
    \/ part = "readings" /\ CoverageNext /\ UNCHANGED <<planVars, chargeVars>>
    \/ part = "plans" /\ PlanNext /\ UNCHANGED <<coverageVars, chargeVars>>
    \/ part = "charge" /\ Consume /\ UNCHANGED <<coverageVars, planVars>>

PartsInit ==
    /\ part \in {"readings", "plans", "charge"}
    /\ CoverageInit /\ PlanInit /\ ChargeInit
    /\ part # "charge" => tiers = <<Tier(0, 0, 305)>> /\ minimum = 0

PartsSpec == PartsInit /\ [][Parts /\ UNCHANGED part]_<<coverageVars, planVars, chargeVars, part>>

\* Plans of months that are over stay, and more usage never costs less.
BillsStand == [][PastPlansFixed /\ TotalGrows]_<<planVars, chargeVars>>
=============================================================================
