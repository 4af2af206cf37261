---------------------------- MODULE EvidenceStore ----------------------------
(***************************************************************************)
(* The transactional store every service writes through                    *)
(* (persistence/index.ts, appendCommand).  One call is one database        *)
(* transaction: it checks the actor-session fence, then the idempotency    *)
(* record, then that the session snapshot it carries omits no operation    *)
(* the stored one has, and only then writes snapshot, events and the       *)
(* idempotency record together.  The advisory locks and the table lock the *)
(* transaction takes make it atomic against every other command that       *)
(* writes a session, so here it is one step.                               *)
(***************************************************************************)
EXTENDS FiniteSets, Integers

CONSTANTS
    None,            \* an absent row, session id or token
    NoActorSession   \* a command that names no actor session: not fenced

VARIABLES
    events,          \* evidence_events: a set, every event has its own id
    sessions,        \* session_snapshots: session id -> snapshot
    idempotency,     \* idempotency_records: operation key -> fingerprint
    currentSession   \* synthetic_actor_sessions.current_session_id per actor

storeVars == <<events, sessions, idempotency, currentSession>>

\* INSERT ... ON CONFLICT (key) DO UPDATE, and JavaScript's {...table, [key]: row}.
Upsert(table, key, row) ==
    [k \in DOMAIN table \cup {key} |-> IF k = key THEN row ELSE table[k]]

EmptyTable == [k \in {} |-> None]

\* What two requests must share to be the same request.  The code's fingerprint
\* also holds the events' timestamps: see MayRefuse.
Fingerprint(c) == [events |-> c.events, session |-> c.session, snapshot |-> c.snapshot]

\* Mutant: the fence is not looked at.
NeverRevoked(c) == FALSE

\* The command names an actor session that is no longer the actor's current one.
SessionRevoked(c) ==
    /\ c.actorSession # NoActorSession
    /\ currentSession[c.actor] # c.actorSession

Recorded(c) == c.key \in DOMAIN idempotency

HasRow(c) == c.session \in DOMAIN sessions

\* assertNoSessionRollback, first check: kind and content binding never change.
IdentityChanged(c) ==
    /\ HasRow(c)
    /\ sessions[c.session].pair # c.snapshot.pair

\* Mutant: last write wins, as before the operation ledger was introduced.
NeverRollsBack(c) == FALSE

\* Mutant: the guard compares how many operations there are, not which ones.
RollsBackByCount(c) ==
    /\ HasRow(c)
    /\ Cardinality(DOMAIN sessions[c.session].operations) >
           Cardinality(DOMAIN c.snapshot.operations)

\* assertNoSessionRollback, second check: the stored ledger holds an operation
\* that the snapshot to be written omits.
RollsBack(c) ==
    /\ HasRow(c)
    /\ ~(DOMAIN sessions[c.session].operations \subseteq DOMAIN c.snapshot.operations)

\* The primary key of evidence_events.
EventExists(c) == \E e \in events : \E new \in c.events : e.id = new.id

\* The command is neither fenced off nor a repetition.
Admitted(c) == ~SessionRevoked(c) /\ ~Recorded(c)

MayCommit(c) == Admitted(c) /\ ~IdentityChanged(c) /\ ~RollsBack(c) /\ ~EventExists(c)

\* A recorded command is replayed when its fingerprint is the recorded one.
MayReplay(c) ==
    /\ ~SessionRevoked(c)
    /\ Recorded(c)
    /\ idempotency[c.key] = Fingerprint(c)

\* Mutant: a command that omits a stored operation waits for the stored session to
\* change instead of being refused.
MayRefuseWaiting(c, code) ==
    \/ code = "SESSION_REVOKED" /\ SessionRevoked(c)
    \/ code = "KEY_REUSED" /\ ~SessionRevoked(c) /\ Recorded(c)
    \/ code = "IDENTITY_CHANGED" /\ Admitted(c) /\ IdentityChanged(c)
    \/ code = "EVENT_EXISTS"
         /\ Admitted(c) /\ ~IdentityChanged(c) /\ ~RollsBack(c) /\ EventExists(c)

\* The errors the transaction ends with.  KEY_REUSED is possible whenever the key
\* is recorded, equal content or not: each request stamps its own events with
\* occurredAt (and a hint with openedAt), and the stamps are part of the
\* fingerprint, so two requests of one command agree only within a millisecond.
MayRefuse(c, code) ==
    \/ code = "SESSION_REVOKED" /\ SessionRevoked(c)
    \/ code = "KEY_REUSED" /\ ~SessionRevoked(c) /\ Recorded(c)
    \/ code = "IDENTITY_CHANGED" /\ Admitted(c) /\ IdentityChanged(c)
    \/ code = "SESSION_CONCURRENT_MODIFICATION"
         /\ Admitted(c) /\ ~IdentityChanged(c) /\ RollsBack(c)
    \/ code = "EVENT_EXISTS"
         /\ Admitted(c) /\ ~IdentityChanged(c) /\ ~RollsBack(c) /\ EventExists(c)

RefusalCode == {"SESSION_REVOKED", "KEY_REUSED", "IDENTITY_CHANGED",
                "SESSION_CONCURRENT_MODIFICATION", "EVENT_EXISTS"}

\* The writes of a transaction that reaches its end.  A command need not carry a
\* session: receipts and assistance events do not.
Commit(c) ==
    /\ events' = events \cup c.events
    /\ sessions' = IF c.session = None THEN sessions
                   ELSE Upsert(sessions, c.session, c.snapshot)
    /\ idempotency' = Upsert(idempotency, c.key, Fingerprint(c))
    /\ UNCHANGED currentSession
=============================================================================
