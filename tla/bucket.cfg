SPECIFICATION TrafficSpec
CONSTANTS
    Tiers <- AllOfTheBucket
    Getters <- TwoGetters  Fillers <- OneFiller  Triers <- OneTrier
    Reservations <- TwoReservations  Waits <- ThreeWaits  Of <- WaitsOf
    Wants <- WantsMixed
    max_capacity = 3  MaxWait = 3  MaxEarned = 3  CallsOverlap = FALSE
    Callers <- ThreeCallers  MaxReqs = 4
    FailureThreshold = 2  SuccessThreshold = 2  ProbeQuota = 1
    SimpleCallers <- TwoCallers  SimpleThreshold = 2  SimpleCooldown = 1  MaxLag = 1
    Acquirers <- TwoAcquirers  AcquirerWants <- WantsOfAcquirers
    ThreadedCapacity = 3  MaxTries = 4  Servers <- ThreeServers  BalancerCapacity = 2
    g1 = g1  g2 = g2  f1 = f1  t1 = t1  r1 = r1  r2 = r2  w1 = w1  w2 = w2  w3 = w3
    c1 = c1  c2 = c2  c3 = c3  a1 = a1  a2 = a2  s1 = s1  s2 = s2  s3 = s3
INVARIANTS TypeOK PromisedIsOutstanding
PROPERTIES ClaimsAreProtected
CHECK_DEADLOCK FALSE
