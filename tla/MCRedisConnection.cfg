\* Three calls of FraudANI, two sentinels, four failures of any kind.
SPECIFICATION Spec
CONSTANTS
    Null = Null
    NSentinels = 2
    MaxCalls = 3
    MaxFaults = 4
    MaxDeletes = 1
INVARIANTS SendsOnHealthy Reclaimed SentOnce
\* After the last call nothing happens any more.
CHECK_DEADLOCK FALSE
