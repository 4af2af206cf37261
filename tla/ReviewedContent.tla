--------------------------- MODULE ReviewedContent ---------------------------
(***************************************************************************)
(* What a content revision holds and when it may be published              *)
(* (content/publication.ts, v11-validator.ts, rubric.ts).  The body of a   *)
(* revision is one micro-skill node, the only shape the authoring service  *)
(* makes.  A text is kept as whether it is filled in; labels are kept      *)
(* themselves, since subjects and topics are found by them.  Display       *)
(* orders, reveal texts and misconceptions decide nothing here and are     *)
(* left out.                                                               *)
(***************************************************************************)
EXTENDS Integers, Sequences

Blank == ""

AnswerKind == {"exact_text", "numeric", "expression", "written_solution"}

\* INSERT or UPDATE of the row of one key.
Upsert(table, key, row) ==
    [k \in DOMAIN table \cup {key} |-> IF k = key THEN row ELSE table[k]]

SeqRange(s) == {s[i] : i \in DOMAIN s}

IsUnique(s) == \A i, j \in DOMAIN s : s[i] = s[j] => i = j

\* A rubric under edit: what result it expects, its reference solution, and its criteria.
AuthoredRubrics == [result : BOOLEAN, reference : {"none", "blank", "given"},
            criteria : Seq([id : Nat, described : BOOLEAN]), required : Seq(Nat)]

Tasks == [prompt : BOOLEAN, kind : AnswerKind, rubric : AuthoredRubrics]

CriterionIds(rubric) == [i \in DOMAIN rubric.criteria |-> rubric.criteria[i].id]

\* A rubric a teacher has completed: the expected result, a reference solution, every
\* criterion described and named once, and only known criteria required.  (The optional
\* criteria the format allows are always empty: nothing in the console writes them.)
ValidateReviewedAssessment(rubric) ==
    /\ rubric.result
    /\ rubric.reference = "given"
    /\ \A i \in DOMAIN rubric.criteria : rubric.criteria[i].described
    /\ IsUnique(CriterionIds(rubric))
    /\ IsUnique(rubric.required)
    /\ SeqRange(rubric.required) \subseteq SeqRange(CriterionIds(rubric))

\* A task needs a problem statement; only a written solution's answer key is looked into.
ReviewedTask(task) ==
    /\ task.prompt
    /\ task.kind = "written_solution" => ValidateReviewedAssessment(task.rubric)

Labelled(node) ==
    node.subject.label # Blank /\ node.topic.label # Blank /\ node.title # Blank

PairId(pair) == pair.id

ValidateContentAggregate(node) ==
    /\ Labelled(node)
    /\ IsUnique([i \in DOMAIN node.pairs |-> PairId(node.pairs[i])])
    /\ \A pair \in SeqRange(node.pairs) :
          /\ pair.skill = node.skill
          /\ ReviewedTask(pair.practice)
          /\ ReviewedTask(pair.transfer)

ValidGate(gate) == 1 <= gate.required /\ gate.required <= gate.max

ValidatePublishableContent(node) ==
    /\ ValidateContentAggregate(node)
    /\ Len(node.pairs) > 0
    /\ ValidGate(node.gate)
    /\ Len(node.pairs) >= node.gate.max

\* The node and all its pairs name the revision they are published under.
RevisionBound(r, node) ==
    node.rev = r /\ \A pair \in SeqRange(node.pairs) : pair.rev = r

(***************************************************************************)
(* The lifecycle of a revision (content/lifecycle.ts): what each operation *)
(* needs the revision to be, and what it makes of it.                      *)
(***************************************************************************)
Lifecycle == {"DRAFT", "IN_REVIEW", "APPROVED", "PUBLISHED", "DEPRECATED"}

Transitions == {"review", "approve", "publish", "deprecate"}

Before == [review |-> "DRAFT", approve |-> "IN_REVIEW",
           publish |-> "APPROVED", deprecate |-> "PUBLISHED"]

After == [review |-> "IN_REVIEW", approve |-> "APPROVED",
          publish |-> "PUBLISHED", deprecate |-> "DEPRECATED"]
=============================================================================
