\* The owner edits while versions are processed and retried after deaths, and
\* live executions taken for abandoned ones run beside their own retries.
SPECIFICATION Spec
CONSTANTS
    Horses = {h1, h2}
    MaxVersion = 2
    MaxRevision = 2
    MaxRetries = 1
    Faults = {"horse", "orphan"}
SYMMETRY HorseSymmetry
CHECK_DEADLOCK FALSE
INVARIANTS
    CompletedAsValidated
    ManualHeaderKept
PROPERTIES
    OnlyAgreedItemsReplaced
    ImplementsLifecycle
