\* A reset against fenced requests of the clean learner and of another one.
CONSTANTS
    None = None
    NoActorSession = NoActorSession
    CleanActor = clean
    ResetKeys = {r1, r2}
    Handlers = {h1, h2}
    Actors = {clean, other}
    ActorSessions = {t1, t2}
    Sessions = {s1, s2}
    Keys = {k1, k2}
    Pairs = {p1}
    WrittenPairs = {}
    Hints = {}
    ReviewedHints = {}
    Answers = {"correct"}
    Ops = {"start", "attempt"}
    PublishedSession <- AnySession
SPECIFICATION DemoSpec
SYMMETRY Symmetry
INVARIANTS
    ResetTypeOK
    SnapshotAgreesWithEvidence
    AdmittedIsCurrent
    SignedOutIsClean
PROPERTIES
    NoEvidenceWhileRevoked
    OtherLearnersKeepTheirs
