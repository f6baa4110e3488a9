SPECIFICATION Spec
CONSTANTS
    Zones <- TwoZones
    Values <- Values4
    Start <- Distinct
    Editable <- EditHeat
    Commands <- FewCommands
    DryRun = FALSE
    Patient = TRUE
    MaxCommands = 1
    MaxEdits = 0
    MaxCrashes = 0
PROPERTIES NothingElseChanges
