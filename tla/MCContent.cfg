\* Two pages edit, review and publish the revisions of one skill at the same time.
CONSTANTS
    None = None
    r1 = r1
    r2 = r2
    r3 = r3
    Revisions = {r1, r2, r3}
    Requests = {q1, q2, q3}
    Forms <- AlgebraForm
    Catalogues <- StartingCatalogues
    Labels <- AuthoringLabels
    GateCounts = {2}
    Kinds = {"exact_text", "written_solution"}
    Consoles = {c1, c2}
    MaxTurns = 4
SPECIFICATION Spec
SYMMETRY Symmetry
INVARIANTS
    ContentTypeOK
    LearnersGetWhatWasApproved
    UnreachedIsExplained
    RowsAreCoherent
    RequiredCriteriaExist
PROPERTY RefinesRevisionLifecycle
CHECK_DEADLOCK FALSE
