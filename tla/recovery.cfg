SPECIFICATION RecoverySpec
CONSTANTS
    Relayed <- MCRelayed
    Streamed <- MCStreamed
    Sweeps <- MCSweeps
    Nil = Nil
    MaxTokens = 2
INVARIANTS
    NoLostWakeup
PROPERTIES
    OutlastsCheck
