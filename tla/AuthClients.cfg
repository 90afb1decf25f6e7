SPECIFICATION FairSpec
CONSTANTS
    Phones = {p1}
    Parties = {1, 2}
    Codes = {1, 2, 3}
    Sessions = {1, 2}
    Devices = {d1, d2}
    d1 = d1
    d2 = d2
    Calls = {1, 2}
    OtpMaxPerHour = 1
    MaxRotations = 3
    r1 = r1
    r2 = r2
    Environments <- MCEnvironments
    Requests = {r1, r2}
INVARIANTS
    TypeOK
    NothingHappensTwice
    LimitExceededByConcurrentOnly
    UndisturbedStaysSignedIn
    SignOutRevokes
PROPERTIES
    SettledForGood
    RequestsEnd
CHECK_DEADLOCK FALSE
