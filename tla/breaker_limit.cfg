\* Three submitters find the queue full at once after the reset timeout.
CONSTANTS
    Submitters = {s1, s2, s3}
    FailureThreshold = 2
    HalfOpenMaxCalls = 2
    MaxCount = 4
SPECIFICATION BreakerSpec
INVARIANT HalfOpenLimit
