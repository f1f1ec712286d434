SPECIFICATION Spec
CONSTANTS
    Requests = {r1, r2}
    Editors = {e1, e2}
    Other = other
    Readers = {q1, q2}
    Posts = {p1}
    Drafts = {d1, d2}
    Browsers = {b1, b2}
    NoToken = none
    Origins = {a, b, c}
    Denied = {c}
    MaxRecords = 3
    FreshFor = 1
    KeepFor = 2
    MaxNow = 2
    MaxDeliveries = 2
    MaxJobs = 2
    MaxTokens = 2
    MaxVersion = 4
    Visitors = {v1}
    Revisions = {g1, g2, g3}
    None = nothing
    Serverless = TRUE
    Keep = 2
    MaxRedirects = 5
VIEW Moving
CHECK_DEADLOCK FALSE
INVARIANTS
    ServicesTypeOK
    AnswerIsTruth
    PublishedShown
    
    
    
    SessionsBacked
    EditsKept
    
    EgressConfined
