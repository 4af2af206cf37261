\* One learner repeats commands; expected to find a replay that is not the original result.
CONSTANTS
    None = None
    NoActorSession = NoActorSession
    Handlers = {h1}
    Actors = {a1}
    ActorSessions = {t1}
    Sessions = {s1}
    Keys = {k1, k2, k3, k4}
    Pairs = {p2}
    WrittenPairs = {}
    Hints = {i1}
    ReviewedHints = {i1}
    Answers = {"correct", "incorrect"}
    Ops = {"start", "attempt", "submit"}
    PublishedSession <- AnySession
SPECIFICATION Spec
SYMMETRY Symmetry
INVARIANT ReplayShowsOriginalResult
