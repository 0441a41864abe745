CONSTANTS
    f1 = f1
    f2 = f2
    f3 = f3
    s1 = s1
    s2 = s2
    r1 = r1
    r2 = r2
    b1 = b1
    b2 = b2
    NoOne = NoOne
    Request = {r1, r2}
    Session = {s1, s2}
    File = {f1, f2, f3}
    SessionOf <- MCSessionOf
    Size <- MCSize
    MaxReserved = 2
    Body = {b1, b2}
    Hashed = {f1}
    Announced = b1
    MaxRequests = 6
    MaxFaults = 2
SYMMETRY RequestSymmetry
SPECIFICATION UploadSpec
CHECK_DEADLOCK FALSE
INVARIANTS
    UploadTypeOK
    OneReceiver
    ReceivedStays
    CompleteIsRight
    QuotaHeld
    RetryIsOpen
