---------------------------- MODULE ContentStudio ----------------------------
(***************************************************************************)
(* The staff members' pages (app/ops/page.tsx) in front of ContentService. *)
(* A page shows a copy of one revision, edits it, and sends requests; it   *)
(* goes on being edited while they are under way, and an answer replaces   *)
(* what it shows.  A connection may break at any point, and a page may be  *)
(* reloaded.                                                               *)
(***************************************************************************)
EXTENDS ContentService, FiniteSets

CONSTANTS
    Consoles,     \* staff members' pages
    MaxTurns      \* how often the staff can do something on their pages, or a connection or
                  \* the process can fail (a bound)

ASSUME StudioAssumption == MaxTurns \in Nat

VARIABLES
    page,       \* what each page shows
    listed,     \* the revisions in each page's list, as of its last load
    turns       \* how often any of that has happened

vars == <<rows, active, request, approved, torn, page, listed, turns>>

EmptyPage == [sel |-> None, life |-> None, draft |-> None,
              dirty |-> FALSE, saving |-> FALSE, error |-> FALSE, creating |-> FALSE]

\* Mutant: the creation form stays open.
ShownBesideForm(p, r, row) ==
    [sel |-> r, life |-> row.life, draft |-> row.body,
     dirty |-> FALSE, saving |-> p.saving, error |-> FALSE, creating |-> p.creating]

\* choose: the page shows a revision; what was typed before is gone.
Shown(p, r, row) ==
    [sel |-> r, life |-> row.life, draft |-> row.body,
     dirty |-> FALSE, saving |-> p.saving, error |-> FALSE, creating |-> FALSE]

\* The pages are open on revisions their users chose, if there are any.
Init ==
    /\ ServiceInit
    /\ listed = [c \in Consoles |-> rows]
    /\ page \in [Consoles -> IF DOMAIN rows = {} THEN {EmptyPage}
                             ELSE {Shown(EmptyPage, r, rows[r]) : r \in DOMAIN rows}]
    /\ turns = 0

(***************************************************************************)
(* Sending.  `awaited` is whether the page waits for an answer, `then` the *)
(* second request it makes once this one is over.                          *)
(***************************************************************************)
Made(c, op, r, node, then) ==
    [by |-> c, op |-> op, rev |-> r, node |-> node, then |-> then,
     at |-> "sent", awaited |-> TRUE]

Unmade == {q \in Requests : request[q] = NotMade}

\* Pages keep room for the second requests they have promised.
Promised == {q \in Live : request[q].then # "none"}

RoomFor(n) == Cardinality(Unmade) >= n + Cardinality(Promised)

Turn == turns < MaxTurns /\ turns' = turns + 1

\* A button of page c sends a request; `shown` is the page meanwhile.
Click(c, shown, req, n) ==
    /\ RoomFor(n)
    /\ Turn
    /\ page' = [page EXCEPT ![c] = shown]
    /\ \E q \in Unmade : request' = [request EXCEPT ![q] = req]
    /\ UNCHANGED <<rows, active, approved, torn, listed>>

\* Nobody waits for the request any more; the server may still be at work on it.
Left(req) == Kept([req EXCEPT !.awaited = FALSE, !.then = "none"])

EditorShown(c) == page[c].sel # None

Editable(c) == EditorShown(c) /\ page[c].life = "DRAFT"

Free(c) == ~page[c].saving

Busy(p) == [p EXCEPT !.saving = TRUE]

BusyAgain(p) == [p EXCEPT !.saving = TRUE, !.error = FALSE]

SaveRequest(c, then) == Made(c, "save", page[c].sel, page[c].draft, then)

\* The save button, or the retry button of the error panel, which nothing disables.
SaveDraft(c) ==
    /\ \/ Editable(c) /\ Free(c)
       \/ EditorShown(c) /\ page[c].error
    /\ Click(c, BusyAgain(page[c]), SaveRequest(c, "none"), 1)

\* A changed draft is saved before a pair is added.
AddPair(c) ==
    /\ Editable(c) /\ Free(c)
    /\ \/ /\ page[c].dirty
          /\ Click(c, BusyAgain(page[c]), SaveRequest(c, "pairs"), 2)
       \/ /\ ~page[c].dirty
          /\ Click(c, Busy(page[c]), Made(c, "pairs", page[c].sel, None, "none"), 1)

\* A changed draft is saved before it is submitted for review.
SubmitForReview(c) ==
    /\ Editable(c) /\ Free(c)
    /\ \/ /\ page[c].dirty
          /\ Click(c, BusyAgain(page[c]), SaveRequest(c, "review"), 2)
       \/ /\ ~page[c].dirty
          /\ Click(c, BusyAgain(page[c]), Made(c, "review", page[c].sel, None, "none"), 1)

\* The buttons a revision that is no draft has, by its lifecycle.
StepOffered(life) ==
    CASE life = "IN_REVIEW" -> {"approve"}
      [] life = "APPROVED" -> {"publish", "next"}
      [] life = "PUBLISHED" -> {"deprecate", "next"}
      [] life = "DEPRECATED" -> {"next"}
      [] OTHER -> {}

TakeStep(c) ==
    /\ EditorShown(c) /\ Free(c)
    /\ \E op \in StepOffered(page[c].life) :
          Click(c, BusyAgain(page[c]), Made(c, op, page[c].sel, page[c].draft, "none"), 1)

\* The creation form can be sent once its three texts are filled in.
Creatable(form) == Blank \notin {form.subject, form.topic, form.title}

CreateContent(c) ==
    /\ page[c].creating /\ Free(c)
    /\ \E form \in {f \in Forms : Creatable(f)} : Click(c, BusyAgain(page[c]), Made(c, "create", None, form, "none"), 1)

(***************************************************************************)
(* What a page does by itself.                                             *)
(***************************************************************************)
ServiceUnchanged == UNCHANGED <<rows, active, approved, torn>>

\* A row of the list is clicked; it may be older than the store.
Choose(c) ==
    /\ Turn
    /\ \E r \in DOMAIN listed[c] : page' = [page EXCEPT ![c] = Shown(@, r, listed[c][r])]
    /\ ServiceUnchanged /\ UNCHANGED <<request, listed>>

Edit(c) ==
    /\ Editable(c)
    /\ Turn
    /\ \E node \in (EditedNodes(page[c].draft) \ {page[c].draft}) :
          page' = [page EXCEPT ![c].draft = node, ![c].dirty = TRUE]
    /\ ServiceUnchanged /\ UNCHANGED <<request, listed>>

StartCreation(c) ==
    /\ Turn
    /\ page' = [page EXCEPT ![c].creating = TRUE, ![c].sel = None, ![c].life = None,
                            ![c].draft = None, ![c].error = FALSE]
    /\ ServiceUnchanged /\ UNCHANGED <<request, listed>>

CancelCreation(c) ==
    /\ page[c].creating
    /\ Turn
    /\ page' = [page EXCEPT ![c].creating = FALSE]
    /\ ServiceUnchanged /\ UNCHANGED <<request, listed>>

\* The page is reloaded, and its list with it; answers under way find nobody.
Open(c) ==
    /\ Turn
    /\ page' = [page EXCEPT ![c] = EmptyPage]
    /\ listed' = [listed EXCEPT ![c] = rows]
    /\ request' = [q \in Requests |->
                      IF q \in Live /\ request[q].by = c
                      THEN Left(request[q]) ELSE request[q]]
    /\ ServiceUnchanged

(***************************************************************************)
(* Receiving.                                                              *)
(***************************************************************************)
Awaited(q) == q \in Live /\ request[q].awaited

Answer(q) == Row(IF request[q].op \in Transitions THEN After[request[q].op] ELSE "DRAFT",
                 request[q].node)

\* Request q is over and, if the page goes on, it makes the second one it promised: about
\* the revision that was shown when the button was clicked.  Only adding a pair disables the
\* buttons again.
Over(q, goesOn, shown) ==
    LET c == request[q].by
        then == request[q].then
        over == [request EXCEPT ![q] = Left(@)]
    IN /\ \/ ~goesOn /\ request' = over
          \/ /\ goesOn
             /\ \E next \in Unmade :
                   request' = [over EXCEPT ![next] = Made(c, then, request[q].rev, None, "none")]
       /\ page' = [page EXCEPT ![c] = [shown EXCEPT !.saving = goesOn /\ then = "pairs"]]
       /\ ServiceUnchanged

\* A success: the page shows the answer, whatever it shows by now, and loads the list; the
\* list may not come.
ReceiveAnswer(q) ==
    LET c == request[q].by
        goesOn == request[q].then # "none"
        shown == Shown(page[c], request[q].rev, Answer(q))
    IN /\ Awaited(q) /\ request[q].at = "done"
       /\ \/ /\ listed' = [listed EXCEPT ![c] = rows]
             /\ Over(q, goesOn, shown)
             /\ UNCHANGED turns
          \/ /\ Turn
             /\ Over(q, goesOn, [shown EXCEPT !.error = TRUE])
             /\ UNCHANGED listed

\* The request is refused or its answer never comes.  A submission for review is sent even
\* when the save before it failed.
ReceiveFailure(q) ==
    /\ Awaited(q)
    /\ IF request[q].at \in {"refused", "dead"} THEN UNCHANGED turns ELSE Turn
    /\ Over(q, request[q].then = "review", [page[request[q].by] EXCEPT !.error = TRUE])
    /\ UNCHANGED listed

Next ==
    \/ \E q \in Requests :
          \/ Serve(q) /\ UNCHANGED <<page, listed, turns>>
          \/ Die(q) /\ Turn /\ UNCHANGED <<page, listed>>
          \/ ReceiveAnswer(q) \/ ReceiveFailure(q)
    \/ \E c \in Consoles :
          \/ SaveDraft(c) \/ AddPair(c) \/ SubmitForReview(c) \/ TakeStep(c) \/ CreateContent(c)
          \/ Choose(c) \/ Edit(c) \/ StartCreation(c) \/ CancelCreation(c) \/ Open(c)

Spec == Init /\ [][Next]_vars
=============================================================================
