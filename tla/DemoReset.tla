------------------------------ MODULE DemoReset ------------------------------
(***************************************************************************)
(* The presenter's reset of the clean demo learner (demo/service.ts,       *)
(* PostgresDemoService.reset) running against PracticeChallenge.  The      *)
(* reset is one READ COMMITTED transaction: it selects the learner's       *)
(* sessions, deletes them with their idempotency records, then deletes the *)
(* learner's evidence as it stands at that later statement, and revokes    *)
(* the learner's sign-in.  Its effects become visible together, but what   *)
(* each statement sees is what was committed when it ran.  The evidence of *)
(* the seeded baseline belongs to no session and is left out.              *)
(***************************************************************************)
EXTENDS PracticeProperties

CONSTANTS
    CleanActor,   \* the one synthetic learner a reset is scoped to
    ResetKeys     \* Idempotency-Key values of reset requests

\* A learner who is signed out has no actor session: an id is never null.
ASSUME ResetAssumption == CleanActor \in Actors /\ None \notin ActorSessions

VARIABLES
    resetPhase,   \* how far the running reset is: "idle", "selected" or "erased"
    resetKey,     \* its key
    doomed,       \* the session ids it selected
    erased,       \* the events it deleted, not visible until it commits
    resets        \* idempotency records of the resets that committed

resetVars == <<resetPhase, resetKey, doomed, erased, resets>>
demoVars == <<vars, resetVars>>

DemoInit ==
    /\ Init
    /\ resetPhase = "idle" /\ resetKey = None
    /\ doomed = {} /\ erased = {} /\ resets = {}

-----------------------------------------------------------------------------
(* Locks. *)

\* Mutant: the append does not wait for the actor's lock.
OnlyTableBlocks(c) == resetPhase = "erased" /\ doomed # {}

\* An append waits while the reset holds a lock it needs: the actor's advisory lock,
\* which a fenced command takes first, or the table lock, which every command with a
\* session takes and which the deletion of the doomed sessions conflicts with.
AppendBlocked(c) ==
    \/ /\ resetPhase # "idle"
       /\ c.actor = CleanActor /\ c.actorSession # NoActorSession
    \/ resetPhase = "erased" /\ doomed # {}

-----------------------------------------------------------------------------
(* Reset. *)

\* Mutant: the reset keeps the rows it selected where it should keep their ids.
SelectedRows == {sessions[s] : s \in {x \in DOMAIN sessions : sessions[x].actor = CleanActor}}

\* Mutant: the reset selects every learner's sessions.
AllSessions == DOMAIN sessions

\* SELECT session_id FROM session_snapshots WHERE snapshot->>'actorId' = cleanActor
SessionsOfCleanActor == {s \in DOMAIN sessions : sessions[s].actor = CleanActor}

\* The reset takes the actor's lock, finds its key unused and selects the sessions.
\* A used key is answered with the recorded result and changes nothing.
ResetSelect(k) ==
    /\ resetPhase = "idle" /\ k \notin resets
    /\ resetPhase' = "selected" /\ resetKey' = k
    /\ doomed' = SessionsOfCleanActor
    /\ UNCHANGED <<vars, erased, resets>>

\* DELETE FROM evidence_events WHERE actor_id = cleanActor
ResetErase ==
    /\ resetPhase = "selected"
    /\ resetPhase' = "erased"
    /\ erased' = {e \in events : e.actor = CleanActor}
    /\ UNCHANGED <<vars, resetKey, doomed, resets>>

ResetEnds ==
    /\ resetPhase' = "idle" /\ resetKey' = None
    /\ doomed' = {} /\ erased' = {}

\* Mutant: the sign-in survives the reset.
CommitKeepingSignIn ==
    /\ resetPhase = "erased"
    /\ sessions' = [s \in DOMAIN sessions \ doomed |-> sessions[s]]
    /\ idempotency' = [k \in {x \in DOMAIN idempotency : x[1] \notin doomed} |-> idempotency[k]]
    /\ events' = events \ erased
    /\ resets' = resets \cup {resetKey}
    /\ ResetEnds
    /\ UNCHANGED <<currentSession, handlerVars>>

\* Mutant: the idempotency records of the deleted sessions stay.
CommitKeepingRecords ==
    /\ resetPhase = "erased"
    /\ sessions' = [s \in DOMAIN sessions \ doomed |-> sessions[s]]
    /\ events' = events \ erased
    /\ currentSession' = [currentSession EXCEPT ![CleanActor] = None]
    /\ resets' = resets \cup {resetKey}
    /\ ResetEnds
    /\ UNCHANGED <<idempotency, handlerVars>>

\* Idempotency records are found by the session id inside their operation key.
ResetCommit ==
    /\ resetPhase = "erased"
    /\ sessions' = [s \in DOMAIN sessions \ doomed |-> sessions[s]]
    /\ idempotency' = [k \in {x \in DOMAIN idempotency : x[1] \notin doomed} |-> idempotency[k]]
    /\ events' = events \ erased
    /\ currentSession' = [currentSession EXCEPT ![CleanActor] = None]
    /\ resets' = resets \cup {resetKey}
    /\ ResetEnds
    /\ UNCHANGED handlerVars

\* The transaction fails, or the process running it is gone: nothing happened.
ResetAbort ==
    /\ resetPhase # "idle"
    /\ ResetEnds
    /\ UNCHANGED <<vars, resets>>

Reset == (\E k \in ResetKeys : ResetSelect(k)) \/ ResetErase \/ ResetCommit \/ ResetAbort

Learners ==
    /\ \/ \E a \in Actors, t \in ActorSessions : SignIn(a, t)
       \/ \E h \in Handlers :
              \/ \E r \in Requests : Receive(h, r)
              \/ Load(h)
              \/ Die(h)
              \/ pc[h] = "prepared" /\ ~AppendBlocked(command[h]) /\ Append(h)
    /\ UNCHANGED resetVars

DemoNext == Learners \/ Reset

DemoSpec == DemoInit /\ [][DemoNext]_demoVars

-----------------------------------------------------------------------------
(* Properties. *)

\* Types of the reset's own state.
ResetTypeOK ==
    /\ resetPhase \in {"idle", "selected", "erased"}
    /\ resetKey \in ResetKeys \cup {None}
    /\ doomed \subseteq Sessions
    /\ erased \subseteq EvidenceEvent
    /\ resets \subseteq ResetKeys

\* A mutation authenticated before a reset "either completes before this reset, or
\* observes the revoked current_session_id before it can append facts" (demo/service.ts):
\* no evidence of a learner appears while that learner is signed out.
NoEvidenceWhileRevoked ==
    [][\A e \in events' \ events : currentSession[e.actor] # None]_demoVars

\* A learner who is signed out by a reset left nothing behind: no session, no evidence,
\* no idempotency record that a later session could trip over.
SignedOutIsClean ==
    currentSession[CleanActor] = None =>
        /\ SessionsOfCleanActor = {}
        /\ \A e \in events : e.actor # CleanActor
        /\ \A k \in DOMAIN idempotency : k[1] \in DOMAIN sessions

\* A reset leaves every other learner's sessions and evidence alone.
OtherLearnersKeepTheirs ==
    [][/\ \A s \in DOMAIN sessions :
             sessions[s].actor # CleanActor =>
                 /\ s \in DOMAIN sessions'
                 /\ DOMAIN sessions[s].operations \subseteq DOMAIN sessions'[s].operations
       /\ \A e \in events : e.actor # CleanActor => e \in events']_demoVars
=============================================================================
