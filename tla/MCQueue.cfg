\* Two producers and two consumers; one allocation failure; a semaphore that
\* saturates after two posts, so that refused posts happen.
CONSTANTS
    Producers = {p1, p2}
    Consumers = {c1, c2}
    Values = {v1, v2}
    Addrs = {a1, a2, a3}
    NULL = NULL
    NoThread = NoThread
    SemMax = 2
    MaxAdds = 3
    MaxThrows = 1
SPECIFICATION FairSpec
INVARIANTS WellFormed Accounting
PROPERTIES ImplementsChannel EverythingTaken
\* All threads stop when MaxAdds items have been taken.
CHECK_DEADLOCK FALSE
