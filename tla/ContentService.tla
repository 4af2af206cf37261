--------------------------- MODULE ContentService ---------------------------
(***************************************************************************)
(* The two tables of the content repository (content/                      *)
(* postgres-repository.ts) and the authoring service in front of them      *)
(* (ops/service.ts), behind the /ops routes of api/dispatcher.ts.  Each    *)
(* action is one transaction of one request; requests interleave between   *)
(* their transactions, and the process may die there.                      *)
(***************************************************************************)
EXTENDS TaskAuthoring

CONSTANTS
    Revisions,    \* content revision ids; a new draft takes an unused one
    Requests,     \* requests that are made (a bound)
    Forms,        \* what the creation form can be filled in with
    Catalogues,   \* contents of the store to start from
    None

\* What can name a subject, a topic or a pair: the names there are to start with, the
\* revision a subject or topic is made with, and the request that adds a pair.
StoredNodes == UNION {{c.rows[r].body : r \in DOMAIN c.rows} : c \in Catalogues}

SubjectIds == Revisions \cup UNION {{node.subject.id, node.topic.id} : node \in StoredNodes}

PairIds == Requests \cup UNION {{pair.id : pair \in SeqRange(node.pairs)} : node \in StoredNodes}

Subjects == [id : SubjectIds, label : Labels]

Pairs == [id : PairIds, rev : Revisions, skill : Revisions, practice : Tasks, transfer : Tasks]

\* The body of a revision: one micro-skill.
Bodies == [rev : Revisions, skill : Revisions, subject : Subjects, topic : Subjects,
           title : Labels, pairs : Seq(Pairs), gate : [required : Nat, max : Nat]]

\* A body of revision r as the operations leave it: r and its skill throughout, no pair
\* twice, and no criterion required that is not there.  The pairs that requests will add
\* are not in it yet.
IsBody(r, node) ==
    /\ node \in Bodies
    /\ \A pair \in SeqRange(node.pairs) :
          /\ pair.skill = node.skill
          /\ pair.id \notin Requests
          /\ \A task \in {pair.practice, pair.transfer} :
                SeqRange(task.rubric.required) \subseteq SeqRange(CriterionIds(task.rubric))
    /\ IsUnique([i \in DOMAIN node.pairs |-> node.pairs[i].id])
    /\ RevisionBound(r, node)

\* Contents that the operations below can have led to: what is public is fit for learners,
\* its skill has a pointer, and a skill's pointer names a public revision of it.
IsCatalogue(table, pointers) ==
    /\ DOMAIN table \subseteq Revisions
    /\ pointers \in [Revisions -> Revisions \cup {None}]
    /\ \A r \in DOMAIN table :
          /\ {"life", "body"} \subseteq DOMAIN table[r]
          /\ table[r].life \in Lifecycle
          /\ IsBody(r, table[r].body)
          /\ table[r].life \in {"PUBLISHED", "DEPRECATED"}
                 => /\ ValidatePublishableContent(table[r].body)
                    /\ pointers[table[r].body.skill] # None
    /\ \A s \in Revisions : pointers[s] # None =>
          /\ pointers[s] \in DOMAIN table
          /\ table[pointers[s]].life \in {"PUBLISHED", "DEPRECATED"}
          /\ table[pointers[s]].body.skill = s

ASSUME ServiceAssumption ==
    /\ None \notin Revisions \cup Bodies
    /\ \A form \in Forms : {form.subject, form.topic, form.title} \subseteq Labels
    /\ \A c \in Catalogues : IsCatalogue(c.rows, c.active)

VARIABLES
    rows,       \* content_revisions: revision -> row
    active,     \* published_micro_skills: for each skill the revision learners practise
    request,    \* every request made so far, at the server and at the page that made it
    approved,   \* history: what the approver of each revision was shown
    torn        \* history: the revisions whose publication died between its transactions

NotMade == [op |-> "none"]

Spent == [op |-> "spent"]

Row(life, node) == [life |-> life, body |-> node]

ServiceInit ==
    /\ \E c \in Catalogues : rows = c.rows /\ active = c.active
    /\ request = [q \in Requests |-> NotMade]
    /\ approved = [r \in Revisions |->
                      IF r \in DOMAIN rows /\ rows[r].life \notin {"DRAFT", "IN_REVIEW"}
                      THEN rows[r].body ELSE None]
    /\ torn = {}

(***************************************************************************)
(* A request: `at` is where the server is with it, `rev` the revision it   *)
(* is about, `node` the body it carries or the service computed.  `by`,    *)
(* `awaited` and `then` are the page's (ContentStudio).  A request that    *)
(* the server is through with and no page waits for is forgotten.          *)
(***************************************************************************)
Live == {q \in Requests : request[q] \notin {NotMade, Spent}}

Finished == {"done", "refused", "dead"}

Kept(req) == IF req.at \in Finished /\ ~req.awaited THEN Spent ELSE req

At(q, op, stage) == q \in Live /\ request[q].op = op /\ request[q].at = stage

Goes(q, stage) == request' = [request EXCEPT ![q] = Kept([@ EXCEPT !.at = stage])]

\* The body the request goes on with, or is answered with.
GoesWith(q, stage, r, node) ==
    request' = [request EXCEPT ![q] = Kept([@ EXCEPT !.at = stage, !.rev = r, !.node = node])]

\* Mutant: a draft is saved whatever the row has become.
IsStored(r) == r \in DOMAIN rows

IsDraft(r) == r \in DOMAIN rows /\ rows[r].life = "DRAFT"

\* editDraft locks the row and writes the body, or refuses.
EditDraft(q) ==
    LET r == request[q].rev
    IN /\ \/ IsDraft(r) /\ rows' = [rows EXCEPT ![r] = Row("DRAFT", request[q].node)] /\ Goes(q, "done")
          \/ ~IsDraft(r) /\ Goes(q, "refused") /\ UNCHANGED rows
       /\ UNCHANGED <<active, approved, torn>>

Save(q) == At(q, "save", "sent") /\ EditDraft(q)

\* addPairDraft reads the draft in one transaction ...
ReadForPair(q) ==
    LET r == request[q].rev
        node == rows[r].body
    IN /\ At(q, "pairs", "sent")
       /\ \/ /\ IsDraft(r)
             /\ GoesWith(q, "read", r, [node EXCEPT !.pairs = Append(@, BlankPair(r, node, q))])
          \/ ~IsDraft(r) /\ Goes(q, "refused")
       /\ UNCHANGED <<rows, active, approved, torn>>

\* ... and writes what it read and one pair more in another.
WritePair(q) == At(q, "pairs", "read") /\ EditDraft(q)

\* A new draft takes an id that no row has and no other request has drawn.
IsFresh(r) ==
    r \notin DOMAIN rows /\ \A q \in Live : request[q].at = "read" => request[q].rev # r

\* Mutant: the pairs go on naming the revision they were copied from.
NextDraftKeepingPairs(r, node) == [node EXCEPT !.rev = r]

\* The same content under another revision id; the pairs keep their own ids.
NextDraft(r, node) ==
    [node EXCEPT !.rev = r, !.pairs = [i \in DOMAIN @ |-> [@[i] EXCEPT !.rev = r]]]

ReadForNext(q) ==
    /\ At(q, "next", "sent")
    /\ \E r \in Revisions :
          IsFresh(r) /\ GoesWith(q, "read", r, NextDraft(r, rows[request[q].rev].body))
    /\ UNCHANGED <<rows, active, approved, torn>>

Nodes == {rows[r].body : r \in DOMAIN rows}

\* A subject, or a topic of it, is found by its label, or made under a new identity; new
\* identities are named by the revision they are made with.
SubjectsFor(form, r) ==
    LET known == {node.subject : node \in {n \in Nodes : n.subject.label = form.subject}}
    IN IF known = {} THEN {[id |-> r, label |-> form.subject]} ELSE known

TopicsFor(form, subject, r) ==
    LET known == {node.topic : node \in {n \in Nodes : n.subject.id = subject.id
                                                       /\ n.topic.label = form.topic}}
    IN IF known = {} THEN {[id |-> r, label |-> form.topic]} ELSE known

TitleTaken(topic, title) == \E node \in Nodes : node.topic.id = topic.id /\ node.title = title

InitialNode(r, subject, topic, title) ==
    [rev |-> r, skill |-> r, subject |-> subject, topic |-> topic, title |-> title,
     pairs |-> <<>>, gate |-> [required |-> 1, max |-> 1]]

\* createInitialDraft looks for the form's labels among all revisions.
ReadForCreate(q) ==
    LET form == request[q].node
    IN /\ At(q, "create", "sent")
       /\ \E r \in Revisions :
             /\ IsFresh(r)
             /\ \E subject \in SubjectsFor(form, r) : \E topic \in TopicsFor(form, subject, r) :
                   \/ /\ ~TitleTaken(topic, form.title)
                      /\ GoesWith(q, "read", r, InitialNode(r, subject, topic, form.title))
                   \/ TitleTaken(topic, form.title) /\ Goes(q, "refused")
       /\ UNCHANGED <<rows, active, approved, torn>>

\* createDraft inserts the row of a created or a next draft.
CreateDraft(q) ==
    /\ At(q, "next", "read") \/ At(q, "create", "read")
    /\ rows' = Upsert(rows, request[q].rev, Row("DRAFT", request[q].node))
    /\ Goes(q, "done")
    /\ UNCHANGED <<active, approved, torn>>

(***************************************************************************)
(* The lifecycle steps.  Each locks the row and leaves its body alone.     *)
(***************************************************************************)
\* Mutant: a revision is published unchecked.
PermittedUnchecked(r, step) == rows[r].life = Before[step]

Permitted(r, step) ==
    /\ rows[r].life = Before[step]
    /\ step = "publish" => ValidatePublishableContent(rows[r].body) /\ RevisionBound(r, rows[r].body)

Transition(q, step, stage) ==
    LET r == request[q].rev
    IN /\ At(q, step, "sent")
       /\ Permitted(r, step)
       /\ rows' = [rows EXCEPT ![r].life = After[step]]
       /\ GoesWith(q, stage, r, rows[r].body)
       /\ UNCHANGED <<active, torn>>

Review(q) == Transition(q, "review", "done") /\ UNCHANGED approved

\* The history keeps what the page that asked for the approval showed.
Approve(q) ==
    /\ Transition(q, "approve", "done")
    /\ approved' = [approved EXCEPT ![request[q].rev] = request[q].node]

Deprecate(q) == Transition(q, "deprecate", "done") /\ UNCHANGED approved

\* Publishing moves the row in one transaction and the learners' pointer in the next.
PublishRow(q) == Transition(q, "publish", "between") /\ UNCHANGED approved

\* Mutant: the pointer is updated, never inserted.
RepointActive(q) ==
    /\ At(q, "publish", "between")
    /\ active' = [s \in Revisions |-> IF s = request[q].node.skill /\ active[s] # None
                                      THEN request[q].rev ELSE active[s]]
    /\ Goes(q, "done")
    /\ UNCHANGED <<rows, approved, torn>>

PointActive(q) ==
    /\ At(q, "publish", "between")
    /\ active' = [active EXCEPT ![request[q].node.skill] = request[q].rev]
    /\ Goes(q, "done")
    /\ UNCHANGED <<rows, approved, torn>>

RefuseTransition(q) ==
    /\ \E step \in Transitions : At(q, step, "sent") /\ ~Permitted(request[q].rev, step)
    /\ Goes(q, "refused")
    /\ UNCHANGED <<rows, active, approved, torn>>

\* The process dies, or the database fails, before or between a request's transactions.
Die(q) ==
    /\ q \in Live /\ request[q].at \in {"sent", "read", "between"}
    /\ Goes(q, "dead")
    /\ torn' = IF request[q].at = "between" THEN torn \cup {request[q].rev} ELSE torn
    /\ UNCHANGED <<rows, active, approved>>

Serve(q) ==
    \/ Save(q) \/ ReadForPair(q) \/ WritePair(q)
    \/ ReadForNext(q) \/ ReadForCreate(q) \/ CreateDraft(q)
    \/ Review(q) \/ Approve(q) \/ PublishRow(q) \/ PointActive(q) \/ Deprecate(q)
    \/ RefuseTransition(q)
=============================================================================
