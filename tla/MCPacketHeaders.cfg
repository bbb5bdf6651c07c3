SPECIFICATION Spec
CONSTANTS
    Hosts = {a, b, c, d, e, f}
    Ids = {1}
    SeqNos = {1, 2}
    HopCounts = {1, 2}
    LifeTimes = {0, 3, 4}
    Ms = 2
    WordMod = 1024
    ByteMod = 5
    MaxRelays = 2
INVARIANTS RequestsArrive RepliesArrive ErrorsArrive
\* a write past the end of the packet may end the program
CHECK_DEADLOCK FALSE
