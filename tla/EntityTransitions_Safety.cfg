SPECIFICATION FairSpec
CONSTANTS
    Entity = {1}
    MaxLives = 2
    MaxRecords = 3
INVARIANTS
    RecordsAreCurrent
    BubbleIsIntended
    ConfirmedStaysOnline
PROPERTIES
    SwitchesSettle
