---------------------------- MODULE TaskAuthoring ----------------------------
(***************************************************************************)
(* What the fields and buttons of the editor do to the draft on the page   *)
(* (app/ops/page.tsx, PairEditor, TaskEditor and RubricEditor), and the    *)
(* pair the service appends (ops/service.ts).  A field that decides no     *)
(* rule of ReviewedContent (a short answer, a reveal text, what the AI may *)
(* hint at) has no operator here.                                          *)
(***************************************************************************)
EXTENDS ReviewedContent

CONSTANTS
    Labels,       \* texts a label field can be given, Blank among them
    GateCounts,   \* numbers a gate field can be given
    Kinds         \* kinds of answer a task can be switched to

ASSUME AuthoringAssumption ==
    /\ Blank \in Labels
    /\ GateCounts \subseteq Nat
    /\ Kinds \subseteq AnswerKind

NoRubric == [result |-> FALSE, reference |-> "none", criteria |-> <<>>, required |-> <<>>]

\* Choosing a kind of answer starts its key afresh; a written solution's has no criteria.
InitialAnswer(task, kind) == [task EXCEPT !.kind = kind, !.rubric = NoRubric]

BlankTask == [prompt |-> FALSE, kind |-> "exact_text", rubric |-> NoRubric]

\* The pair AddPair appends, under the identity id.
BlankPair(r, node, id) ==
    [id |-> id, rev |-> r, skill |-> node.skill, practice |-> BlankTask, transfer |-> BlankTask]

RemoveAt(s, i) == [j \in 1..(Len(s) - 1) |-> IF j < i THEN s[j] ELSE s[j + 1]]

\* The elements of s other than x, in their order.
Without(s, x) ==
    LET upTo[n \in 0..Len(s)] ==
            IF n = 0 THEN <<>>
            ELSE IF s[n] = x THEN upTo[n - 1] ELSE Append(upTo[n - 1], s[n])
    IN upTo[Len(s)]

(***************************************************************************)
(* The rubric editor.  A new criterion is numbered by the length of the    *)
(* list, whatever was removed before, and is required at once.             *)
(***************************************************************************)
AddCriterion(rubric) ==
    LET id == Len(rubric.criteria) + 1
    IN [rubric EXCEPT !.criteria = Append(@, [id |-> id, described |-> FALSE]),
                      !.required = Append(@, id)]

\* Mutant: the removed criterion stays required.
RemoveCriterionOnly(rubric, i) == [rubric EXCEPT !.criteria = RemoveAt(@, i)]

RemoveCriterion(rubric, i) ==
    [rubric EXCEPT !.criteria = RemoveAt(@, i),
                   !.required = Without(@, rubric.criteria[i].id)]

DescribeCriterion(rubric, i, text) == [rubric EXCEPT !.criteria[i].described = text]

EditedRubrics(rubric) ==
    {[rubric EXCEPT !.result = text] : text \in BOOLEAN}
    \cup {[rubric EXCEPT !.reference = text] : text \in {"blank", "given"}}
    \cup {AddCriterion(rubric)}
    \cup {RemoveCriterion(rubric, i) : i \in DOMAIN rubric.criteria}
    \cup {DescribeCriterion(rubric, i, text) : i \in DOMAIN rubric.criteria, text \in BOOLEAN}

EditedTasks(task) ==
    {[task EXCEPT !.prompt = text] : text \in BOOLEAN}
    \cup {InitialAnswer(task, kind) : kind \in Kinds}
    \cup (IF task.kind = "written_solution"
          THEN {[task EXCEPT !.rubric = rubric] : rubric \in EditedRubrics(task.rubric)}
          ELSE {})

EditedPairs(pair) ==
    {[pair EXCEPT !.practice = task] : task \in EditedTasks(pair.practice)}
    \cup {[pair EXCEPT !.transfer = task] : task \in EditedTasks(pair.transfer)}

(***************************************************************************)
(* The page's own fields: labels, the order and the membership of the      *)
(* pairs, the gate.                                                        *)
(***************************************************************************)
Relabelled(node) ==
    {[node EXCEPT !.subject.label = label] : label \in Labels}
    \cup {[node EXCEPT !.topic.label = label] : label \in Labels}
    \cup {[node EXCEPT !.title = label] : label \in Labels}

RemovePair(node, i) == [node EXCEPT !.pairs = RemoveAt(@, i)]

MovePairDown(node, i) ==
    [node EXCEPT !.pairs = [@ EXCEPT ![i] = node.pairs[i + 1], ![i + 1] = node.pairs[i]]]

Regated(node) ==
    {[node EXCEPT !.gate.required = n] : n \in GateCounts}
    \cup {[node EXCEPT !.gate.max = n] : n \in GateCounts}

\* What one use of one control can make of the draft.  (Moving a pair up is moving the one
\* above it down.)
EditedNodes(node) ==
    Relabelled(node)
    \cup Regated(node)
    \cup {RemovePair(node, i) : i \in DOMAIN node.pairs}
    \cup {MovePairDown(node, i) : i \in 1..(Len(node.pairs) - 1)}
    \cup UNION {{[node EXCEPT !.pairs[i] = pair] : pair \in EditedPairs(node.pairs[i])}
                    : i \in DOMAIN node.pairs}
=============================================================================
