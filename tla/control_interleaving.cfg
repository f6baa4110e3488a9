SPECIFICATION FairSpec
CONSTANTS
    Zones <- OneZone
    Values <- Values3
    Start <- Distinct
    Editable <- EditHeat
    Commands <- FewCommands
    DryRun = FALSE
    Patient = FALSE
    MaxCommands = 2
    MaxEdits = 0
    MaxCrashes = 1
INVARIANTS TypeOK LastCommandWins FillProvenance
PROPERTIES ModesOnlyOnRequest CommandsDrain CacheConverges
