SPECIFICATION BrowserSpec
CONSTANTS
    None = None
    Account = {a1, a2}
    Attempt = {1}
    Caller = {1}
    MaxChanges = 1
    Holder = {a1}
    Flow = {1, 2}
    Token = {t1, t2, t3}
    Guest = {paula, quinn}
    MaxReads = 2
    MaxStarts = 2
INVARIANTS
    BrowserTypeOK
    RefusalOnlyAfterFreshSignature
    CameraUnderControl
PROPERTIES
    SessionNeverSwitches
    NetworkChangeNoticed
    CallsEnd
    CodesOnlyFromCamera
    CameraReleased
    MixedOnlyByCheckIn
    OneCheckInAtATime
