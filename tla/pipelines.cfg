SPECIFICATION PipelinesSpec
CONSTANTS
    w1 = w1  w2 = w2  w3 = w3
    p1 = p1  p2 = p2  p3 = p3  c1 = c1  c2 = c2
    a1 = a1  a2 = a2  a3 = a3  r1 = r1  r2 = r2  k1 = k1  k2 = k2
    Workers <- TwoWorkers
    Live <- OneLive
    None = None
    MaxJobs = 2
    LeaseSeconds = 2
    MaxAttempts = 2
    Appenders <- ThreeAppenders
    SinkFails = TRUE
    Producers <- ThreeProducers
    Consumers <- TwoConsumers
    Capacity = 2
    MaxItems = 2
    TableWorkers <- ThreeWorkers
    TableJobs = 3
    BatchSize = 3
    MaxEvents = 6
    MaxFailures = 2
    Requests <- TwoRequests
    RequestIds <- TwoRequestIds
    APIWorkers <- TwoWorkers
    MaxSubmits = 3
INVARIANTS QueuesAreSound AttemptsBounded ClaimsAreDistinct WatermarkIsLSN BatchedLogIsSound
INVARIANTS RetriesCreateNothing
PROPERTIES WorkGetsDone ImplementsDurableLog CloseDrains CallsReturn
CHECK_DEADLOCK FALSE
