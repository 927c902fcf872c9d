SPECIFICATION RecoverySpec
CONSTANTS
    MaxId = 2
    MaxEntities = 2
    MaxVersion = 4
    Target = 3
    Compatibility = 1
    Rewritten <- MCRewritten
INVARIANTS
    OnlySoundSavesAreApplied
    PlayersFollowTheirEntity
    ReportIsTrue
CHECK_DEADLOCK FALSE
