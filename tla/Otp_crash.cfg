SPECIFICATION Spec
CONSTANTS
    r1 = r1
    r2 = r2
    q1 = q1
    q2 = q2
    q3 = q3
    b1 = b1
    u1 = u1
    NoChallenge = NoChallenge
    Wrong = Wrong
    NoVoter = NoVoter
    Earlier = Earlier
    Requests = {r1}
    Verifies = {q1, q2}
    Admins = {}
    Purges = {}
    OTP_MAX_ATTEMPTS = 1
    OTP_TTL = 1
    MaxTime = 1
SYMMETRY Symmetry
INVARIANT CrashGrantsNoRetry
CHECK_DEADLOCK FALSE
