\* Replies, notices, events and the configuration: no promise is broken, and everything ends.
SPECIFICATION MCSpec
CONSTANTS
    Nobody = Nobody
    r1 = r1
    r2 = r2
    r3 = r3
    f1 = f1
    a1 = a1
    a2 = a2
    c1 = c1
    c2 = c2
    Replies = {r1, r2, r3}
    Follows = {f1}
    Advisors = {a1, a2}
    AuthorOf <- Author
    ClientOf <- Client
    Sends = 2
    FollowMin = 2
    MaxWindows = 2
    MaxHands = 2
    NHandoffs = 2
    MaxAttempts = 2
    MaxRetries = 1
    MaxFailures = 3
    Ring = 2
    MaxRevs = 3
    MaxFaults = 2
    s1 = s1
    s2 = s2
    Sections = {s1, s2}
    Texts = {0, 1}
    Plain = 0
    Images <- MCImages
    FirstImage <- First
    MaxDrafts = 4
    MaxVersions = 4
    MaxItems = 2
    MaxGates = 1
    MaxMistakes = 2
INVARIANTS WindowHolds ReplyOnce NoSilentGap
PROPERTIES EverySendEnds  EventuallyFresh ServedIsCurrent PublishIsSound
CHECK_DEADLOCK FALSE
