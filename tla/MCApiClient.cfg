\* A read and two applies; the read may be tried twice.
CONSTANTS
    Calls = {read, apply1, apply2}
    IdempotentCalls = {read}
    MaxRetries = 2
    NoCall = NoCall
SPECIFICATION Spec
INVARIANTS
    TypeOK
    AppliedAtMostOnce
    NoEffectFailuresAreFinal
    RetryBudget
PROPERTIES
    EveryStepCounts
    ImplementsContract
    CallsReturn
