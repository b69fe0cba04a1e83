\* The read that loses its repeated request has an attempt left.
CONSTANTS
    Calls = {read, apply1, apply2}
    IdempotentCalls = {read}
    MaxRetries = 2
    NoCall = NoCall
SPECIFICATION Spec
PROPERTIES
    LostRepliesAreRetried
