SPECIFICATION Spec
CONSTANTS
    Nobody = Nobody
    Events = {e1}
    Notices = {n1}
    Handlers = {h1, h2}
    Modes <- MCModes
    RetryAttempts = 2
    Limits = {70}
    Responses <- MCResponses
    CallerTexts <- MCCallerTexts
    MaxTries = 2
SYMMETRY Alike
INVARIANT
    TypeOK
    CopiesAreEarned
    AcknowledgedIsSettled
    ToldWhatHappened
    NoticeIsOneCard
    ReplyFits
