-------------------------- MODULE ContentProperties --------------------------
(***************************************************************************)
(* What authoring guarantees, whoever edits, reviews and publishes at the  *)
(* same time.                                                              *)
(***************************************************************************)
EXTENDS ContentStudio

Stored == DOMAIN rows

IsPublic(r) == r \in Stored /\ rows[r].life \in {"PUBLISHED", "DEPRECATED"}

Stages == {"sent", "read", "between", "done", "refused", "dead"}

\* Types: a stored row has a lifecycle and a body, whatever has been typed into it; a page
\* that shows a revision has its draft and none while content is being created; and a
\* request is somewhere at the server and at its page.
ContentTypeOK ==
    /\ Stored \subseteq Revisions
    /\ \A r \in Stored : rows[r].life \in Lifecycle /\ rows[r].body \in Bodies
    /\ active \in [Revisions -> Revisions \cup {None}]
    /\ \A q \in Live :
          /\ request[q].by \in Consoles
          /\ request[q].at \in Stages
    /\ \A c \in Consoles :
          /\ page[c].draft \in Bodies \cup {None}
          /\ (page[c].sel = None) = (page[c].draft = None)
          /\ page[c].creating => page[c].sel = None
    /\ turns \in 0..MaxTurns

\* The revision a skill's learners are pointed to was published, belongs to the skill, can be
\* practised (its bank covers the practice gate), and reads word for word as its approver saw
\* it on the page: nothing an editor, another page or a late request did since has changed it
\* (content/postgres-repository.ts:17, :20, :30; app/ops/page.tsx:330).
LearnersGetWhatWasApproved ==
    \A s \in Revisions : active[s] # None =>
        /\ IsPublic(active[s])
        /\ rows[active[s]].body.skill = s
        /\ rows[active[s]].body = approved[active[s]]
        /\ ValidatePublishableContent(rows[active[s]].body)

\* Learners find a skill if the revision it points to is PUBLISHED (content/
\* postgres-repository.ts:22, on which :23 rests).
Reached(skill) == active[skill] # None /\ rows[active[skill]].life = "PUBLISHED"

Withdrawn(skill) == active[skill] # None /\ rows[active[skill]].life = "DEPRECATED"

\* The publication of r is between its two transactions, or died there.
HalfDone(r) == r \in torn \/ \E q \in Live : At(q, "publish", "between") /\ request[q].rev = r

\* A PUBLISHED revision whose skill learners do not find is explained: its publication is
\* half done, or the skill points to a revision that was deprecated, as it does when a
\* successor was published and deprecated (content/postgres-repository.ts:20, :22, :29).
UnreachedIsExplained ==
    \A r \in Stored : LET skill == rows[r].body.skill IN
        rows[r].life = "PUBLISHED" /\ ~Reached(skill) => HalfDone(r) \/ Withdrawn(skill)

\* Every stored body belongs to its own row: the node and its pairs name the revision, the
\* pairs share its skill, and no pair is in it twice.  The server checks none of this when a
\* draft is saved (content/postgres-repository.ts:30): it holds because a page saves a draft
\* under the id it was chosen with (app/ops/page.tsx:192, :252), and because a next draft is
\* renamed throughout (ops/service.ts:196).
RowsAreCoherent ==
    \A r \in Stored :
        LET node == rows[r].body
        IN /\ RevisionBound(r, node)
           /\ \A pair \in SeqRange(node.pairs) : pair.skill = node.skill
           /\ IsUnique([i \in DOMAIN node.pairs |-> node.pairs[i].id])

\* Whatever criteria a teacher adds and removes, and in whatever order, a rubric never
\* requires a criterion it does not have, so that an answer can satisfy it
\* (app/ops/page.tsx:1204, :1226; a criterion number can occur twice on the way).
RequiredCriteriaExist ==
    \A c \in Consoles : page[c].draft # None =>
        \A pair \in SeqRange(page[c].draft.pairs) : \A task \in {pair.practice, pair.transfer} :
            SeqRange(task.rubric.required) \subseteq SeqRange(CriterionIds(task.rubric))

\* The store, with requests, pages and crashes around it, implements the lifecycle of a
\* revision: only drafts are rewritten, review freezes, only fit bodies are published
\* (content/lifecycle.ts; lifecycle.test.ts "review freezes its exact body").
L == INSTANCE RevisionLifecycle WITH revision <- rows

RefinesRevisionLifecycle == L!LifecycleSpec
=============================================================================
