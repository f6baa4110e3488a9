SPECIFICATION FairSpec
CONSTANTS
    Absent = Absent
    Subjects <- TwoOfEach
    Values <- Bits
    ClearsOn <- EachItsWay
    Returning <- First
    ReaderSets <- SomeFail
    MaxChanges = 3
    MaxRestarts = 1
INVARIANTS TypeOK StatusCurrent PrintsRefreshed
PROPERTIES StatusEmitted
