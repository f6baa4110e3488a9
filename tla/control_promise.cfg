SPECIFICATION Spec
CONSTANTS
    Zones <- OneZone
    Values <- Values3
    Start <- Distinct
    Editable <- EditHeat
    Commands <- OneOfEach
    DryRun = FALSE
    Patient = TRUE
    MaxCommands = 2
    MaxEdits = 1
    MaxCrashes = 1
PROPERTIES KeepsPromise
