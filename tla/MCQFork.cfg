\* Two usable blocks, two operations, two workers, one failure, and two events
\* among jobs, failures and changes of the heap.  The application may stop
\* forking and the workers may all have been joined: that is no deadlock.
SPECIFICATION FairSpec
CONSTANTS
    maxAvailableBlocks = 3
    MaxWorkers = 2
    MaxJobs = 2
    MaxForks = 2
    MaxFaults = 1
    MaxEvents = 2
INVARIANTS HeapQuiet ChildReadsSnapshot StatusTruthful
PROPERTY JobsTaken
CHECK_DEADLOCK FALSE
