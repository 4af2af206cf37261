\* Two fair handlers race; every request ends.  No symmetry: the property is temporal.
CONSTANTS
    None = None
    NoActorSession = NoActorSession
    Handlers = {h1, h2}
    Actors = {a1}
    ActorSessions = {t1, t2}
    Sessions = {s1}
    Keys = {k1, k2}
    Pairs = {p1}
    WrittenPairs = {p1}
    Hints = {i1, i2}
    ReviewedHints = {i1}
    Answers = {"incorrect"}
    Ops = {"start", "start_published", "attempt", "cannot_start", "open_hint", "submit"}
    PublishedSession <- AnySession
SPECIFICATION FairSpec
PROPERTY RequestsEnd
