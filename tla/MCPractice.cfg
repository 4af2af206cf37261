\* Two requests race on one session; two learners; one task scored deterministically, one a
\* written solution that the AI may grade any way.
CONSTANTS
    None = None
    NoActorSession = NoActorSession
    Handlers = {h1, h2}
    Actors = {a1, a2}
    ActorSessions = {t1, t2}
    Sessions = {s1}
    Keys = {k1, k2, k3}
    Pairs = {p1, p2}
    WrittenPairs = {p1}
    Hints = {i1}
    ReviewedHints = {i1}
    Answers = {"incorrect"}
    Ops = {"start", "attempt", "cannot_start", "open_hint", "submit"}
    PublishedSession <- AnySession
SPECIFICATION Spec
SYMMETRY Symmetry
INVARIANTS
    TypeOK
    SnapshotAgreesWithEvidence
    AcknowledgedIsRecorded
    AdmittedIsCurrent
PROPERTIES
    SolvedIsFinal
    RefinesLifecycle
