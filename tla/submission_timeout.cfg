\* One task with a timeout; chain and listeners play no part.
SPECIFICATION SubmissionSpec
CONSTANTS
    Submitted = {t1}
    Timed = {t1}
    Middleware = {m1}
    Interceptor = ic
    Listeners = {l1}
    MaxChain = 1
    MaxEdits = 1
INVARIANT
    TimeoutIsForExecution
CHECK_DEADLOCK FALSE
