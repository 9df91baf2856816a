SPECIFICATION PartsSpec
CONSTANTS
    Producers <- SmallProducers
    Old = "d1"
    New = "d2"
    TodayStart = 2
    LegacyTimes = {1, 3}
    MaxTime = 5
    MaxRows = 3
    Callers = {"c1", "c2"}
    Tariffs = {"T1", "T2", "HV"}
    Plans = {"commercial", "residential", "nonresidential"}
    PlanTariff <- SmallPlanTariff
    RateSets <- SmallRateSets
    FirstDay <- SmallFirstDay
    MaxMonth = 4
    MaxCalls = 7
    Schedules <- SmallSchedules
    Minimums = {0, 750, 1000}
    MaxUsage = 14
INVARIANTS
  ReadersAgree
  PlansAgree
  ChargeIsMarginal
PROPERTIES
  BillsStand
CHECK_DEADLOCK FALSE
