\* Two lines, headers among them, and an hour change; a failing allocation, two
\* failing file operations (enough to give up a move), one stop and restart, a
\* limit of two units.
SPECIFICATION FairSpec
CONSTANTS
    Sizes = {1, 2}
    FlushAbove = 1
    Inis <- HeaderInis
    HoursPerDay = 2
    maxRetries = 2
    CheckEvery = 2
    HeaderLines = 1
    MaxMsgs = 2
    MaxHours = 1
    MaxThrows = 1
    MaxIoFails = 2
    MaxStops = 1
INVARIANT SurvivesFaults
PROPERTY EveryLineWritten
\* The destructor may wait for ever for a mutex whose owner was killed, and
\* everybody for the queue in which Queue::Add threw.
CHECK_DEADLOCK FALSE
