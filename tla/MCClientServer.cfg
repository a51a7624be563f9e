\* Two clients that send two messages and one message of two units; a buffer
\* of three units, so that recv cuts messages and joins parts of two; one
\* reset, killed or failing client.
SPECIFICATION FairSpec
CONSTANTS
    Clients = {"c1", "c2"}
    MsgLen = 2
    BufLen = 3
    MaxMsgs <- MCMsgs
    MaxFaults = 1
INVARIANTS Sound FullOnlyAfterCut
PROPERTY ServerCatchesUp
\* When the clients are gone the server waits for others.
CHECK_DEADLOCK FALSE
