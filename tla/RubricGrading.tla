---------------------------- MODULE RubricGrading ----------------------------
(***************************************************************************)
(* From the replies of the AI evaluator to the outcome of a written        *)
(* solution: what is made of the replies (ai/live-rubric-evaluator.ts),    *)
(* what is refused (grading/rubric-validation.ts), and what the server     *)
(* concludes (grading/aggregation.ts).  A reply is the criterion it names  *)
(* and the status it gives, `broken` for a status or a shape the code does *)
(* not know.                                                               *)
(***************************************************************************)
EXTENDS EvidenceEvents, ReviewedContent

Assessment == {"correct", "incorrect", "partial", "not_assessed", "uncertain"}

Undecided == {"not_assessed", "uncertain"}

Reply(id, status) == [id |-> id, status |-> status]

Statuses(replies) == {reply.status : reply \in SeqRange(replies)}

\* Mutant: one criterion done right is enough.
ReasoningBySome(replies) == IF "correct" \in Statuses(replies) THEN "correct" ELSE "uncertain"

\* The evaluator gives no verdict on the reasoning as a whole: it is made of the criteria's.
Reasoning(replies) ==
    IF Statuses(replies) \subseteq {"correct"} THEN "correct"
    ELSE IF "partial" \in Statuses(replies) THEN "partial"
    ELSE IF "incorrect" \in Statuses(replies) THEN "incorrect"
    ELSE "uncertain"

\* Nor a verdict on the final answer: where a rubric asks for one it stays unknown.
FinalAnswer(shape) == IF shape.finalAnswer THEN "unknown" ELSE "absent"

NormalizeCriterionFacets(replies, shape) ==
    [finalAnswer |-> FinalAnswer(shape), reasoning |-> Reasoning(replies), criteria |-> replies]

\* An evaluation is used only if it is complete and unambiguous.
ValidRubricFacets(facets, shape, criteria) ==
    LET named == [i \in DOMAIN facets.criteria |-> facets.criteria[i].id]
    IN /\ "broken" \notin Statuses(facets.criteria)
       /\ shape.finalAnswer => facets.finalAnswer # "unknown"
       /\ shape.reasoning => facets.reasoning \notin Undecided
       /\ IsUnique(named)
       /\ SeqRange(named) \subseteq SeqRange(criteria)
       /\ \A id \in SeqRange(shape.required) :
             \E f \in SeqRange(facets.criteria) : f.id = id /\ f.status \notin Undecided

\* deriveGradingOutcome of an evaluation that was found valid.
DeriveGradingOutcome(facets, shape) ==
    LET required == {f \in SeqRange(facets.criteria) : f.id \in SeqRange(shape.required)}
        answered == ~shape.finalAnswer \/ facets.finalAnswer = "correct"
    IN IF answered /\ facets.reasoning = "correct" /\ \A f \in required : f.status = "correct"
       THEN "CORRECT"
       ELSE IF facets.finalAnswer = "incorrect" THEN "INCORRECT" ELSE "PARTIALLY_CORRECT"

\* All criteria have been replied to.
GradeWritten(replies, key) ==
    LET facets == NormalizeCriterionFacets(replies, key.shape)
    IN IF ValidRubricFacets(facets, key.shape, key.criteria)
       THEN DeriveGradingOutcome(facets, key.shape)
       ELSE "UNCERTAIN"
=============================================================================
