\* One replica, an evaluation and two visitors, two days of one month: every safety property.
CONSTANTS
    r1 = r1
    r2 = r2
    q1 = q1
    q2 = q2
    q3 = q3
    Replicas = {r1}
    Requests = {q1, q2, q3}
    Home <- OneHome
    SourceOf <- OneEval
    LastDay = 1
    MonthOf <- SameMonth
    DaysIn <- TwoDays
    Cent = 1
    MonthlyLimit = 3
    DailyLimit = 2
    Amounts = {0, 2}
    MaxAmount = 2
    NoLimit = NoLimit
    NoDay = NoDay
    NoTotals = NoTotals
    Nobody = Nobody
SYMMETRY Visitors
SPECIFICATION Spec
INVARIANTS
    TypeOK
    ClaimsExact
    SpendIsReal
    CountsOwnRows
    HeadroomNeverOverstated
    
    
PROPERTIES
    PressureIsTransient
    OneQueryPerWindow
