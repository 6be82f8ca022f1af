SPECIFICATION Spec
CONSTANTS
    Telemetries <- SomeTelemetry
    KNOWN_STATUS_CODES <- Statuses
    KNOWN_SPAN_KINDS <- Kinds
    Catalogs <- RightAndWrong
    Window = 2
    Retries = 1
    MaxLag = 2
    MaxTicks = 4
    MaxDeploys = 1
    MaxIncidents = 2
    None = None
INVARIANTS
    QuietHoursAreSkipped
