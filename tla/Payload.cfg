SPECIFICATION PayloadSpec
CONSTANTS
    Limit = 12
    MaxAlerts = 4
    Frames <- MCFrames
    PartHeader = 2
    PartCountReserve = 2
    AlertSizes = {0, 1, 3, 6, 7}
    PassthroughLimit = 3
    MaxLen = 8
    Titles <- MCTitles
    Payloads <- MCPayloads
    LabelSets <- MCLabelSets
    noisyLabels <- MCNoisy
    Pod <- MCPod
    ExporterPods <- MCExporterPods
    whereLabelPriority <- MCWherePriority
    groupContextPriority <- MCContextPriority
    MaxKeyLen = 3
    MaxValueLen = 3
INVARIANTS
    TypeOK
    NoAlertLost
    PackingIsTight
    ReserveSuffices
    PartsAreSendable
    NoInkLost
    WordsAreKept
    KeyIsTheContent
    LabelsAreCanonical
    EveryNameIsShown
PROPERTIES
    Terminates
