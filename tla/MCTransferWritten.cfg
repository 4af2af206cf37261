\* One handler and a transfer task that asks for a written solution.
CONSTANTS
    None = None
    NoActorSession = NoActorSession
    a1 = a1 a2 = a2 q1 = q1 q2 = q2 p1 = p1 p2 = p2 p3 = p3 w1 = w1 w2 = w2
    Handlers = {h1}
    Actors = {a1}
    ActorSessions = {t1}
    Practices = {q1}
    OwnerOf <- OneOwner
    PairOf <- SamePair
    Keys = {k1}
    Pairs = {p1}
    TaskOf <- OwnTasks
    WrittenPractices = {}
    WrittenTransfers = {p1}
    RequiredCorrect = 1
    Answers = {"invalid"}
    Ops = {"start", "submit"}
SPECIFICATION QuestSpec
INVARIANT VerifiedIsCertifiable
