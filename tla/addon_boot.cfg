SPECIFICATION FairSpec
CONSTANTS
    Options <- SomeOptions
    MaxFaults = 2
INVARIANTS TypeOK SingleFaultNeverMixes LaunchTimely TwoFaultsKeepCache
PROPERTIES SettlesUnlessStuck
CHECK_DEADLOCK FALSE
