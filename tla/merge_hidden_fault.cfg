SPECIFICATION Spec
CONSTANTS
    Absent = Absent
    Subjects <- OneAlert
    Values <- Bits
    ClearsOn <- OnCleared
    Returning <- First
    ReaderSets <- AllReaders
    MaxChanges = 3
    MaxRestarts = 0
INVARIANTS NoFaultHidden
