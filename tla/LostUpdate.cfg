CONSTANTS
    a = a
    b = b
    c = c
    m1 = m1
    m2 = m2
    None = None
    User = {a, b, c}
    Msig = {m1, m2}
    Confirmed = {m1, m2}
    Members <- MCMembers
    Threshold <- MCThreshold
    Track = {t1}
    Handler = {h1, h2}
    Payloads <- MCSponsored
    Answers = {TRUE}
    MaxFail = 0
    MaxSubmits = 1
SPECIFICATION FairSpec
PROPERTY FullyApprovedIsSubmitted
