SPECIFICATION DaemonSpec
CONSTANTS
    Backend = {"sidecar", "otel"}
    Port = {0, 2}
    DefaultPort = 1
    MaxBuilderCalls = 3
INVARIANTS
    ZeroDisablesSidecar
CHECK_DEADLOCK FALSE
