-------------------------- MODULE RevisionLifecycle --------------------------
(***************************************************************************)
(* What the content store promises of a revision, without requests,        *)
(* transactions or pages: its body may be rewritten only while it is a     *)
(* draft; review freezes the body; after that it is only approved,         *)
(* published and deprecated, in this order and with the body review froze, *)
(* and only a body fit for learners is published.  ContentStudio           *)
(* implements this specification.                                          *)
(***************************************************************************)
EXTENDS ReviewedContent

CONSTANT Revisions

VARIABLE revision   \* revision -> how far it is and what it says

Draft(node) == [life |-> "DRAFT", body |-> node]

\* A draft is created, or rewritten; its pairs always belong to it.
Write(r, node) ==
    /\ r \in DOMAIN revision => revision[r].life = "DRAFT"
    /\ RevisionBound(r, node)
    /\ revision' = Upsert(revision, r, Draft(node))

Advance(r, step) ==
    /\ r \in DOMAIN revision
    /\ revision[r].life = Before[step]
    /\ step = "publish" => ValidatePublishableContent(revision[r].body)
    /\ revision' = [revision EXCEPT ![r].life = After[step]]

LifecycleInit == \A r \in DOMAIN revision : RevisionBound(r, revision[r].body)

LifecycleNext == \E r \in Revisions :
    \/ \E step \in Transitions : Advance(r, step)
    \/ /\ r \in DOMAIN revision'
       /\ Write(r, revision'[r].body)

LifecycleSpec == LifecycleInit /\ [][LifecycleNext]_revision
=============================================================================
