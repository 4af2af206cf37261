\* Small micro-skills of every kind of task, two requests at a time.
CONSTANTS
    None = None
    Handlers = {h1, h2}
    Courses <- SmallCourses
    AnswersTo <- Answers
    RepliesTo <- Replies
SPECIFICATION Spec
INVARIANTS
    EpisodeTypeOK
    GradeIsDeserved
    VerdictIsExact
    ReadyIsEarned
    ReadyStaysReady
    AdvanceIsFresh
PROPERTY EpisodeRequestsEnd
CHECK_DEADLOCK FALSE
