\* Two replicas and an evaluation beside visitors, within one day, under fairness.
CONSTANTS
    r1 = r1
    r2 = r2
    q1 = q1
    q2 = q2
    q3 = q3
    Replicas = {r1, r2}
    Requests = {q1, q2, q3}
    Home <- TwoHomes
    SourceOf <- OneEval
    LastDay = 0
    MonthOf <- SameMonth
    DaysIn <- TwoDays
    Cent = 1
    MonthlyLimit = 1
    DailyLimit = NoLimit
    Amounts = {1}
    MaxAmount = 1
    NoLimit = NoLimit
    NoDay = NoDay
    NoTotals = NoTotals
    Nobody = Nobody
SPECIFICATION FairSpec

    
PROPERTIES
    EveryRequestEnds
