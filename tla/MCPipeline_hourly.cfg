SPECIFICATION FairSpec
CONSTANTS
    Telemetries <- SomeTelemetry
    KNOWN_STATUS_CODES <- Statuses
    KNOWN_SPAN_KINDS <- Kinds
    Catalogs <- RightAndWrong
    Window = 1
    Retries = 1
    MaxLag = 1
    MaxTicks = 3
    MaxDeploys = 1
    MaxIncidents = 2
    None = None
INVARIANTS
    GreenMeansTold
    NoOldNews
PROPERTIES
    AnalysedWasChecked
    EveryHourIsRun
