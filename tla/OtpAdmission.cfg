SPECIFICATION Spec
CONSTANTS
    Callers = {c1, c2, c3}
    Spellings <- MCSpellings
    OTP_ALLOWED_REGIONS = {"KE"}
    Window = 1
    Limit = 1
    Day = 2
    SMS_DAILY_LIMIT = 2
    MaxTime = 2
    Absent = Absent
SYMMETRY Symmetry
CHECK_DEADLOCK FALSE
INVARIANTS
    TypeOK
    OneWarningPerDay
    TextsPerWindow
    TextsPerDay
    ExhaustedForCause
