\* The documented bound, when every request settles.
CONSTANTS
    r1 = r1
    r2 = r2
    q1 = q1
    q2 = q2
    q3 = q3
    Replicas = {r1}
    Requests = {q1, q2}
    Home <- OneHome
    SourceOf <- AllVisitor
    LastDay = 0
    MonthOf <- SameMonth
    DaysIn <- TwoDays
    Cent = 1
    MonthlyLimit = 1
    DailyLimit = NoLimit
    Amounts = {2}
    MaxAmount = 2
    NoLimit = NoLimit
    NoDay = NoDay
    NoTotals = NoTotals
    Nobody = Nobody
SPECIFICATION Spec
INVARIANTS
    SettledWithinOneQuery
