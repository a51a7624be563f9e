\* Three lines, two hour changes (the second a new day), a size limit of two
\* units and a failing allocation; no failing file operation, no restart.
SPECIFICATION Spec
CONSTANTS
    Sizes = {1, 2}
    FlushAbove = 1
    Inis <- LimitInis
    HoursPerDay = 2
    maxRetries = 2
    CheckEvery = 1
    HeaderLines = 1
    MaxMsgs = 3
    MaxHours = 2
    MaxThrows = 1
    MaxIoFails = 0
    MaxStops = 0
INVARIANTS LinesKept Bounded ReplacesOnlyOnOverlap
\* A thread that Queue::Add threw in keeps the queue; the others may wait for
\* it for ever.
CHECK_DEADLOCK FALSE
