SPECIFICATION Spec
CONSTANTS
    MaxId = 4
    MaxTicks = 4
    Killable <- MCCreated
INVARIANTS
    TypeOK
    CurrentLive
    ExitNeverReturns
    AsleepOffCpu
PROPERTIES
    NoTaskPassedOver
    ImplementsCpuSharing
    RunnableRuns
    SleeperWakes
    TerminatedReaped
