\* A reset against a published-practice start, which the route does not fence.
CONSTANTS
    None = None
    NoActorSession = NoActorSession
    CleanActor = clean
    ResetKeys = {r1, r2}
    Handlers = {h1}
    Actors = {clean}
    ActorSessions = {t1, t2}
    Sessions = {s1}
    Keys = {k1}
    Pairs = {p1}
    WrittenPairs = {}
    Hints = {}
    ReviewedHints = {}
    Answers = {"correct"}
    Ops = {"start_published"}
    PublishedSession <- AnySession
SPECIFICATION DemoSpec
PROPERTY NoEvidenceWhileRevoked
