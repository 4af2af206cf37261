-------------------------- MODULE PracticeProperties --------------------------
(***************************************************************************)
(* What PracticeChallenge guarantees: its types, the invariants that tie   *)
(* the session snapshot, its operation ledger, the idempotency records and *)
(* the evidence log to each other, and the abstract lifecycle it implements.*)
(***************************************************************************)
EXTENDS PracticeChallenge

Stage == {"ready", "attempting", "assisted", "solved"}
Args == Pairs \cup Hints \cup Answers \cup {None}
Scores == ScoreOutcome \cup {Unset}
Outcomes == GradingOutcome \cup {Unset}
Prints == {"start", "attempt", "cannot_start", "open_hint", "submit"} \X Args

Results == [stage : Stage, attempts : Nat, submissions : Nat, hints : Nat, lastScore : Scores]
Operations == [print : Prints, result : Results]
Views == [stage : Stage, attempts : Nat, submissions : Nat, hints : Nat,
          lastScore : Scores, lastOutcome : Outcomes]
EvidenceEvent == [id : Sessions \X Keys \X {0, 1}, actor : Actors, session : Sessions,
                  type : EventType, ordinal : Nat, score : Scores, outcome : Outcomes]
Replies == [code : {"ok", "replayed"}, session : Sessions, key : Keys, print : Prints,
            view : Views]
Refusals == [code : RefusalCode \cup {"SESSION_NOT_FOUND", "ACTOR_MISMATCH",
                 "IDEMPOTENCY_CONFLICT", "INVALID_TRANSITION", "INTERVENTION_NOT_AVAILABLE"}]

\* A ledger of operations: rows for some of the keys.
IsLedger(f) == DOMAIN f \subseteq Keys /\ f \in [DOMAIN f -> Operations]

SnapshotsWith(operations) ==
    [actor : Actors, pair : Pairs, stage : Stage, attempts : Nat, submissions : Nat,
     hints : Nat, lastScore : Scores, lastOutcome : Outcomes, operations : {operations}]

IsSnapshot(x) == x \in SnapshotsWith(x.operations) /\ IsLedger(x.operations)

IsCommand(c) ==
    /\ c \in [actor : Actors, actorSession : ActorSessions \cup {NoActorSession},
               key : Sessions \X Keys, session : Sessions, snapshot : {c.snapshot},
               events : SUBSET EvidenceEvent]
    /\ IsSnapshot(c.snapshot)

IsFingerprint(f) ==
    /\ f \in [events : SUBSET EvidenceEvent, session : Sessions, snapshot : {f.snapshot}]
    /\ IsSnapshot(f.snapshot)

StoreTypeOK ==
    /\ events \subseteq EvidenceEvent
    /\ DOMAIN sessions \subseteq Sessions
    /\ sessions = [s \in DOMAIN sessions |-> sessions[s]]
    /\ \A s \in DOMAIN sessions : IsSnapshot(sessions[s])
    /\ DOMAIN idempotency \subseteq Sessions \X Keys
    /\ idempotency = [k \in DOMAIN idempotency |-> idempotency[k]]
    /\ \A k \in DOMAIN idempotency : IsFingerprint(idempotency[k])
    /\ currentSession \in [Actors -> ActorSessions \cup {None}]

\* Type invariant of the store and the handlers.
TypeOK ==
    /\ StoreTypeOK
    /\ pc \in [Handlers -> {"idle", "verified", "prepared"}]
    /\ request \in [Handlers -> Requests \cup {None}]
    /\ DOMAIN loaded = Handlers /\ DOMAIN command = Handlers
    /\ \A h \in Handlers : loaded[h] = None \/ IsSnapshot(loaded[h])
    /\ \A h \in Handlers : command[h] = None \/ IsCommand(command[h])
    /\ reply \in [Handlers -> Replies \cup Refusals \cup {None}]

-----------------------------------------------------------------------------
(* The store is consistent: four records of one history agree. *)

EventsOf(s) == {e \in events : e.session = s}

Typed(s, type) == {e \in EventsOf(s) : e.type = type}

\* The events of one type carry the ordinals 1 to n, each exactly once.
Numbered(s, type, n) ==
    /\ {e.ordinal : e \in Typed(s, type)} = 1..n
    /\ Cardinality(Typed(s, type)) = n

\* Every event belongs to a stored session, is its owner's, and was written by an
\* operation in that session's ledger; every operation in the ledger wrote one.
EvidenceHasLedger ==
    /\ \A e \in events :
          /\ e.session \in DOMAIN sessions
          /\ e.actor = sessions[e.session].actor
    /\ \A s \in DOMAIN sessions :
          {e.id[2] : e \in EventsOf(s)} = DOMAIN sessions[s].operations

\* A key has an idempotency record exactly when the ledger holds its operation.
LedgerIsRecorded ==
    /\ DOMAIN idempotency \subseteq Sessions \X Keys
    /\ \A s \in Sessions, k \in Keys :
          <<s, k>> \in DOMAIN idempotency <=>
              s \in DOMAIN sessions /\ k \in DOMAIN sessions[s].operations

\* The counters and the stage of a snapshot are what its evidence says.
CountersMatchEvidence ==
    \A s \in DOMAIN sessions :
        /\ Numbered(s, "attempt_submitted", sessions[s].attempts)
        /\ Numbered(s, "answer_submitted", sessions[s].submissions)
        /\ Cardinality(Typed(s, "intervention_opened")) = sessions[s].hints
        /\ sessions[s].stage = "solved" <=>
               \E e \in Typed(s, "practice_scored") : e.outcome = "CORRECT"

\* However requests interleave, repeat, race or die, the snapshot, its operation
\* ledger, the idempotency records and the evidence log tell one history
\* (challenge/service.ts builds all four from a state read before its awaits;
\* persistence/index.ts, appendCommand, must let none of them drift).
SnapshotAgreesWithEvidence ==
    EvidenceHasLedger /\ LedgerIsRecorded /\ CountersMatchEvidence

\* A learner who was told "ok", or answered from the ledger, finds the operation in
\* the store: same command, same stage and counters (service.ts: submit, replay).
AcknowledgedIsRecorded ==
    \A h \in Handlers :
        reply[h] # None /\ reply[h].code \in {"ok", "replayed"} =>
            LET a == reply[h] IN
            /\ a.session \in DOMAIN sessions
            /\ a.key \in DOMAIN sessions[a.session].operations
            /\ LET op == sessions[a.session].operations[a.key] IN
               /\ op.print = a.print
               /\ op.result.stage = a.view.stage
               /\ op.result.attempts = a.view.attempts
               /\ op.result.submissions = a.view.submissions
               /\ op.result.hints = a.view.hints

\* The operation ledger replaces a revision number: a command the store admits was
\* computed from the very snapshot it overwrites, however long its handler waited
\* (persistence/index.ts, assertNoSessionRollback: "prevents the stale-writer 'last
\* write wins' failure mode").
AdmittedIsCurrent ==
    \A h \in Handlers :
        pc[h] = "prepared" /\ MayCommit(command[h]) =>
            IF HasRow(command[h]) THEN loaded[h] = sessions[command[h].session]
            ELSE loaded[h] = None

\* A solved session never changes again, and no session loses an operation
\* (service.ts decides both on a snapshot that may be stale).
SolvedIsFinal ==
    [][\A s \in DOMAIN sessions :
          /\ s \in DOMAIN sessions'
          /\ sessions[s].stage = "solved" => sessions'[s] = sessions[s]
          /\ \A k \in DOMAIN sessions[s].operations :
                /\ k \in DOMAIN sessions'[s].operations
                /\ sessions'[s].operations[k] = sessions[s].operations[k]]_sessions

-----------------------------------------------------------------------------
(* The store, seen without keys in flight, implements the lifecycle. *)

\* What the lifecycle keeps of a snapshot: the ledger is reduced to its keys.
Shadow(snap) ==
    [actor |-> snap.actor, stage |-> snap.stage, attempts |-> snap.attempts,
     submissions |-> snap.submissions, hints |-> snap.hints, done |-> DOMAIN snap.operations]

Progress == [s \in DOMAIN sessions |-> Shadow(sessions[s])]

Lifecycle == INSTANCE PracticeLifecycle WITH progress <- Progress, evidence <- events

\* Racing, repeated and dying requests amount to a learner's operations applied one
\* after the other, each exactly once, with the evidence each produces.
RefinesLifecycle == Lifecycle!LifecycleSpec

\* Every request that was received is answered, or its process died: no state leaves a
\* prepared command with neither a commit, nor a replay, nor a refusal.
RequestsEnd == \A h \in Handlers : pc[h] # "idle" ~> pc[h] = "idle"

\* What docs/architecture/competition-mvp/application-contracts.md promises of mutations,
\* "retries with the same key must return the original result": a repeated submission
\* is answered with the outcome its own answer was graded with.
ReplayShowsOriginalResult ==
    \A h \in Handlers :
        reply[h] # None /\ reply[h].code = "replayed" =>
            \A e \in Typed(reply[h].session, "practice_scored") :
                e.id[2] = reply[h].key => e.outcome = reply[h].view.lastOutcome
=============================================================================
