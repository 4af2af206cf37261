\* One handler: what may start and be certified across practices, pairs and learners.
CONSTANTS
    None = None
    NoActorSession = NoActorSession
    a1 = a1 a2 = a2 q1 = q1 q2 = q2 p1 = p1 p2 = p2 p3 = p3 w1 = w1 w2 = w2
    Handlers = {h1}
    Actors = {a1, a2}
    ActorSessions = {t1, t2}
    Practices = {q1, q2}
    OwnerOf <- OneOwner
    PairOf <- OwnPair
    Keys = {k1}
    Pairs = {p1, p2, p3}
    TaskOf <- SharedTask
    WrittenPractices = {}
    WrittenTransfers = {}
    RequiredCorrect = 1
    Answers = {"correct"}
    Ops = {"start", "retry", "submit", "issue", "receipt"}
SPECIFICATION QuestSpec
SYMMETRY Symmetry
INVARIANTS
    TransferIsEntitled
    TransfersAreFresh
    ReceiptIsEarned
    VerifiedIsCertifiable
