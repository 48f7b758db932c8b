SPECIFICATION Spec
CONSTANTS
    p1 = p1
    p2 = p2
    p3 = p3
    u1 = u1
    u2 = u2
    Post = {p1, p2, p3}
    Upload = {u1, u2}
    UploadsOf <- Uploads
    Size <- Sizes
    MaxRecords = 2
    MaxBytes = 13
    NoCall = NoCall
INVARIANTS
    TypeOK
    ClaimsMatchPosts
    JournalSound
    AnswersSurvive
