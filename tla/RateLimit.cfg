SPECIFICATION RateSpec
CONSTANTS
    s = s
    r1 = r1
    r2 = r2
    Sender = s
    Receivers = {r1, r2}
    Minute = 3
    Hour = 6
    MaxTotal = 3
    MaxPerAddr = 2
    MaxTime = 11
    Pairs <- OneWay
    MaxSent = 4
INVARIANTS RateTypeOK LimitHoldsForAnHourLessAMinute QuietSenderIsServed CountersAgree
