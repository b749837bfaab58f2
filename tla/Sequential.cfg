CONSTANTS
    a = a
    b = b
    c = c
    m1 = m1
    m2 = m2
    None = None
    User = {a, b, c}
    Msig = {m1, m2}
    Confirmed = {m1, m2}
    Members <- MCMembers
    Threshold <- MCThreshold
    Track = {t1}
    Handler = {h1}
    Payloads <- MCAllPayloads
    Answers = {TRUE, FALSE}
    MaxFail = 2
    MaxSubmits = 3
    Reader = {r1}
    Filters <- MCFilters
SPECIFICATION FairReportsSpec
INVARIANTS
    ReaderTypeOK
    ReportIsBacked
    SubmissionMeetsThreshold
    ResultMatchesChain
    ResubmittedOnlyAfterFailure
    OpenWaitsForSomebody
    NothingIsDropped
PROPERTIES
    ClosedIsFinal
    DenialIsHeeded
    FullyApprovedIsSubmitted
    SubmittedIsRecorded
