SPECIFICATION Spec
CONSTANTS
    r1 = r1
    r2 = r2
    q1 = q1
    q2 = q2
    q3 = q3
    b1 = b1
    u1 = u1
    NoChallenge = NoChallenge
    Wrong = Wrong
    NoVoter = NoVoter
    Earlier = Earlier
    Requests = {r1, r2}
    Verifies = {q1}
    Admins = {}
    Purges = {u1}
    OTP_MAX_ATTEMPTS = 2
    OTP_TTL = 2
    MaxTime = 1
INVARIANT ExpiredCodesAreDead
PROPERTY EveryoneIsAnswered
CHECK_DEADLOCK FALSE
