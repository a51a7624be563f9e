\* At first more workers than connections, then as many; two allocation
\* failures; one call of Empty at any time.
CONSTANTS
    Workers = {w1, w2}
    Manager = manager
    Objs = {o1, o2}
    NULL = NULL
    NoThread = NoThread
    HowMany = 1
    MaxThrows = 2
    MaxEmpties = 1
SPECIFICATION FilledSpec
INVARIANTS Exclusive Conserved PermitsBalanced
PROPERTY CallsReturn
\* After exceptions or Empty every thread may be left waiting.
CHECK_DEADLOCK FALSE
