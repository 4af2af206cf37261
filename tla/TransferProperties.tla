-------------------------- MODULE TransferProperties --------------------------
(***************************************************************************)
(* What TransferQuest guarantees between a solved practice and a receipt,  *)
(* the two promises of the documents it does not keep, and the abstract    *)
(* road to a receipt it implements.                                        *)
(***************************************************************************)
EXTENDS TransferQuest

OperationKeys == StartKeys \cup ({"command"} \X Keys)
Prints == {<<"start", None>>} \cup ({"submit"} \X Answers)

PracticeRow == [kind : {"challenge"}, actor : Actors, pair : Pairs,
                stage : {"attempting", "solved"}, operations : {EmptyTable}]

TransferRow(operations) ==
    [kind : {"transfer"}, actor : Actors, practice : Practices, pair : Pairs,
     stage : {"working", "verified"}, attempts : Nat, revealed : BOOLEAN,
     operations : {operations}]

IsTransferRow(x) ==
    /\ x \in TransferRow(x.operations)
    /\ DOMAIN x.operations \subseteq OperationKeys
    /\ \A k \in DOMAIN x.operations : x.operations[k] \in Prints

Transfers == DOMAIN sessions \cap TransferIds

IsScored(e) == e.score \in ScoreOutcome /\ e.outcome \in GradingOutcome

\* Types of the tables and of the handlers' places.
QuestTypeOK ==
    /\ DOMAIN sessions \subseteq Practices \cup TransferIds
    /\ \A q \in DOMAIN sessions \cap Practices : sessions[q] \in PracticeRow
    /\ \A t \in Transfers : IsTransferRow(sessions[t])
    /\ \A e \in events : e.type \in {"practice_scored", "transfer_scored"} => IsScored(e)
    /\ exposures \subseteq Actors \X Pairs
    /\ pc \in [Handlers -> {"idle", "verified", "missed", "chosen", "exposed",
                            "prepared", "failed"}]
    /\ request \in [Handlers -> Requests \cup {None}]
    /\ reserved \in [Handlers -> Pairs \cup {None}]

-----------------------------------------------------------------------------
(* Transfers. *)

EventsOf(t, type) == {e \in events : e.type = type /\ e.session = t}

\* A transfer was begun on a solved practice of its learner, and on a pair that was
\* recorded as exposed before the learner could see it (runtime/server.ts,
\* startPublishedTransfer: both were decided several awaits before the session is written).
TransferIsEntitled ==
    \A t \in Transfers :
        LET row == sessions[t] IN
        /\ row.practice \in DOMAIN sessions
        /\ sessions[row.practice].stage = "solved"
        /\ sessions[row.practice].actor = row.actor
        /\ <<row.actor, row.pair>> \in exposures

\* The snapshot of a transfer is what its evidence says, whatever races: the answers are
\* numbered without gap or repetition, it is verified exactly when one was graded
\* CORRECT, and revealed exactly when a reveal was recorded (a reveal adds nothing to the
\* ledger the store compares, so nothing but the stage protects it from a stale writer).
TransferMatchesEvidence ==
    \A t \in Transfers :
        LET row == sessions[t]
            answers == EventsOf(t, "transfer_submitted")
        IN /\ {e.ordinal : e \in answers} = 1..row.attempts
           /\ Cardinality(answers) = row.attempts
           /\ row.stage = "verified" <=>
                 \E e \in EventsOf(t, "transfer_scored") : e.outcome = "CORRECT"
           /\ row.revealed <=> EventsOf(t, "connection_revealed") # {}
           /\ Cardinality(EventsOf(t, "transfer_started")) = 1

\* A verified transfer only ever gains the reveal of its connection, and keeps it.
VerifiedIsFinal ==
    [][\A t \in Transfers :
          /\ t \in DOMAIN sessions'
          /\ sessions[t].stage = "verified" =>
                sessions'[t] \in {sessions[t], Revealed(sessions[t])}]_questVars

-----------------------------------------------------------------------------
(* Receipts. *)

\* Two tabs never issue two receipts for one transfer score
\* (docs/architecture/competition-mvp/persistence-security-resilience.md, line 34).
OneReceiptPerScore ==
    \A e \in Receipts, f \in Receipts : e.sources[2] = f.sources[2] => e = f

\* A receipt cites the correct score of a verified transfer of its learner and the correct
\* score of the very practice that transfer was begun on (receipts/service.ts,
\* matchesQualifyingChain): both routes to a receipt, one of which lets the caller name
\* the practice.
ReceiptIsEarned ==
    \A e \in Receipts :
        /\ e.session \in Transfers
        /\ sessions[e.session].actor = e.actor
        /\ sessions[e.session].stage = "verified"
        /\ \E p \in CorrectScores("practice_scored", sessions[e.session].practice, e.actor) :
              e.sources[1] = p.id
        /\ \E s \in CorrectScores("transfer_scored", e.session, e.actor) :
              e.sources[2] = s.id

\* "A distinct-key racing request therefore replays the already committed receipt rather
\* than surfacing a transient duplicate-key failure to the learner" (receipts/service.ts,
\* lines 89 to 92): an issue ends in such a failure never, and in a receipt only when
\* there is one.
RacingIssueIsAnswered ==
    \A h \in Handlers :
        pc[h] = "idle" /\ reply[h] # None /\ Issues(reply[h]) =>
            /\ reply[h].code \notin {"EVENT_EXISTS", "KEY_REUSED"}
            /\ reply[h].code \in {"ok", "replayed"} =>
                  \E e \in Receipts : e.actor = reply[h].actor /\ e.session = reply[h].target

-----------------------------------------------------------------------------
(* Promises of the documents. *)

\* "never reuse an exposed transfer as fresh verification"
\* (docs/superpowers/plans/2026-08-19-competition-demo-v1.1-final-implementation.md,
\* line 129): no two transfers of a learner are begun on one transfer task.
TransfersAreFresh ==
    \A t, u \in Transfers :
        t # u /\ sessions[t].actor = sessions[u].actor =>
            TaskOf[sessions[t].pair] # TaskOf[sessions[u].pair]

\* "For a written-solution task [...] valid reviewed-rubric facets can provide evidence
\* through which the server aggregator produces CORRECT", and a receipt requires a CORRECT
\* practice and a CORRECT transfer
\* (docs/architecture/competition-mvp/v1.1-amendment-contracts.md, lines 45 and 47): what
\* was graded CORRECT qualifies.
VerifiedIsCertifiable ==
    \A t \in Transfers :
        sessions[t].stage = "verified" =>
            Qualifies(t, sessions[t].practice, sessions[t].actor)

-----------------------------------------------------------------------------
(* The store, seen without requests, implements the road to a receipt. *)

Solved == {q \in DOMAIN sessions \cap Practices : sessions[q].stage = "solved"}

QuestOf(row) ==
    [actor |-> row.actor, practice |-> row.practice, stage |-> row.stage,
     attempts |-> row.attempts, revealed |-> row.revealed, done |-> DOMAIN row.operations]

Quests == [t \in Transfers |-> QuestOf(sessions[t])]

Certified == {e.session : e \in Receipts}

Path == INSTANCE CapabilityPath WITH
            Transfers <- TransferIds, Keys <- OperationKeys,
            solved <- Solved, quests <- Quests, certified <- Certified

\* Racing and dying requests amount to the steps of CapabilityPath, each taken once.
ImplementsPath == Path!PathSpec
=============================================================================
