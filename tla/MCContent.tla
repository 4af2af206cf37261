------------------------------ MODULE MCContent ------------------------------
(* A small instance of ContentStudio for TLC. *)
EXTENDS ContentProperties, TLC

CONSTANTS r1, r2, r3

Symmetry == Permutations(Consoles) \cup Permutations(Requests)

Filled == {"algebra"}

AuthoringLabels == Filled \cup {Blank}

AlgebraForm == [subject : Filled, topic : Filled, title : AuthoringLabels]

Rubric == [result |-> TRUE, reference |-> "given", required |-> <<1>>,
           criteria |-> <<[id |-> 1, described |-> TRUE]>>]

Written == [prompt |-> TRUE, kind |-> "written_solution", rubric |-> Rubric]

Short == [prompt |-> TRUE, kind |-> "exact_text", rubric |-> NoRubric]

\* A complete revision of the skill r1, with one pair.
Complete(r) ==
    [InitialNode(r, [id |-> r1, label |-> "algebra"], [id |-> r1, label |-> "algebra"], "algebra")
        EXCEPT !.skill = r1,
               !.pairs = <<[id |-> "first", rev |-> r, skill |-> r1,
                            practice |-> Written, transfer |-> Short]>>]

NoRows == [r \in {} |-> None]

Unpointed == [r \in Revisions |-> None]

\* Nothing; a complete draft; a published revision and its approved successor; an approved
\* revision of a skill not published yet, and one without pairs that is waiting for review.
StartingCatalogues ==
    {[rows |-> NoRows, active |-> Unpointed],
     [rows |-> r1 :> Row("DRAFT", Complete(r1)), active |-> Unpointed],
     [rows |-> (r1 :> Row("PUBLISHED", Complete(r1))) @@ (r2 :> Row("APPROVED", Complete(r2))),
      active |-> [Unpointed EXCEPT ![r1] = r1]],
     [rows |-> (r1 :> Row("APPROVED", Complete(r1)))
               @@ (r2 :> Row("IN_REVIEW", [Complete(r2) EXCEPT !.pairs = <<>>])),
      active |-> Unpointed]}
=============================================================================
