---------------------------- MODULE TransferQuest ----------------------------
(***************************************************************************)
(* From a solved practice to a capability receipt: the published-transfer  *)
(* routes (runtime/server.ts), TransferService (transfer/service.ts), the  *)
(* exposure of fresh pairs (transfer/fresh-attempt.ts) and                 *)
(* CapabilityReceiptService (receipts/service.ts) over EvidenceStore.      *)
(* A start reads, reserves a pair, reads again and appends, each in a      *)
(* transaction of its own; between any two steps of one handler any other  *)
(* may act.  A practice session is what PracticeLifecycle promises: it is  *)
(* opened, and at some moment solved for good.  All pairs belong to one    *)
(* published micro-skill.                                                  *)
(***************************************************************************)
EXTENDS EvidenceEvents, EvidenceStore

CONSTANTS
    Handlers,          \* requests served at the same time
    Actors,            \* learners
    ActorSessions,     \* actor-session ids a sign-in can issue
    Practices,         \* practice session ids
    OwnerOf,           \* whose each is
    PairOf,            \* the pair each is bound to
    Keys,              \* Idempotency-Key values
    Pairs,             \* reviewed pairs of the micro-skill
    TaskOf,            \* the transfer task of each; pairs may share one
    WrittenPractices,  \* pairs whose practice task asks for a written solution
    WrittenTransfers,  \* pairs whose transfer task does
    RequiredCorrect,   \* practiceGate.requiredCorrectCount
    Answers,           \* answers, each named by its deterministic score
    Ops                \* the operations requests are made for

ASSUME QuestAssumption ==
    /\ OwnerOf \in [Practices -> Actors]
    /\ PairOf \in [Practices -> Pairs]
    /\ DOMAIN TaskOf = Pairs
    /\ RequiredCorrect \in Nat \ {0}
    /\ Answers \subseteq ScoreOutcome
    /\ Ops \subseteq {"start", "retry", "submit", "reveal", "receipt", "issue"}
    /\ None \notin Practices \cup (Actors \X Practices \X ({"start", "retry"} \X Keys))
    /\ Practices \cap (Actors \X Practices \X ({"start", "retry"} \X Keys)) = {}
    /\ NoActorSession \notin ActorSessions

VARIABLES
    exposures,   \* content_episode_exposures: learner and pair.  The ordinal of a row
                 \* only seeds the choice of a pair, which is left open here
    pc,          \* where each handler is
    request,     \* the request it serves
    reserved,    \* the pair it chose for a start
    command,     \* the command it computed and has not appended yet
    reply        \* the last answer it gave

questHandlerVars == <<pc, request, reserved, command, reply>>
questVars == <<storeVars, exposures, questHandlerVars>>

-----------------------------------------------------------------------------
(* Ids and requests. *)

\* The key of a start: the routes prefix the client's key with "start:", or with
\* "start:retry:" for a retry.
StartKeys == {"start", "retry"} \X Keys

\* A transfer session id is derived from learner, practice session and key.
TransferIds == Actors \X Practices \X StartKeys

\* The keys of submissions and reveals are the client's, in one name space.
CommandKey(r) == <<"command", r.key>>

RequestsFor(op, targets, args) ==
    [op : {op} \cap Ops, target : targets, arg : args, actor : Actors,
     actorSession : ActorSessions, key : Keys]

Requests ==
    RequestsFor("start", Practices, {None}) \cup RequestsFor("retry", TransferIds, {None})
        \cup RequestsFor("submit", TransferIds, Answers)
        \cup RequestsFor("reveal", TransferIds, {None})
        \cup RequestsFor("receipt", TransferIds, {None})
        \cup RequestsFor("issue", TransferIds, Practices)

Starts(r) == r.op \in {"start", "retry"}

Issues(r) == r.op \in {"receipt", "issue"}

Exists(r) == r.target \in DOMAIN sessions

Row(r) == sessions[r.target]

\* The practice a request is about: named by a start and by the issue route, and what
\* the transfer is bound to otherwise.
PracticeOf(r) ==
    CASE r.op = "start" -> r.target
      [] r.op = "issue" -> r.arg
      [] OTHER          -> Row(r).practice

TransferOf(r) == <<r.actor, PracticeOf(r), <<r.op, r.key>>>>

\* load: the named transfer must exist and be the caller's.
LoadRefusal(r) ==
    CASE ~Exists(r)              -> "SESSION_NOT_FOUND"
      [] Row(r).actor # r.actor  -> "ACTOR_MISMATCH"
      [] OTHER                   -> "none"

-----------------------------------------------------------------------------
(* What is read to decide a request. *)

\* derivePracticeNextAction: enough distinct practice items were solved, in whatever
\* sessions of the learner.
ReadyForTransfer(a) ==
    Cardinality({sessions[e.session].pair : e \in
        {x \in events : x.type = "practice_scored" /\ x.actor = a /\ x.outcome = "CORRECT"}})
            >= RequiredCorrect

GateRefusal(r) ==
    CASE PracticeOf(r) \notin DOMAIN sessions        -> "SESSION_NOT_FOUND"
      [] sessions[PracticeOf(r)].actor # r.actor     -> "ACTOR_MISMATCH"
      [] ~ReadyForTransfer(r.actor)                  -> "PRACTICE_NOT_ELIGIBLE"
      [] OTHER                                       -> "none"

\* Mutant: any practice of the learner will do.
AnyPracticeEligible(q, a) == q \in DOMAIN sessions /\ sessions[q].actor = a

\* Only the learner's solved practice session can start a transfer.
PracticeEligible(q, a) ==
    /\ q \in DOMAIN sessions
    /\ sessions[q].kind = "challenge"
    /\ sessions[q].stage = "solved"
    /\ sessions[q].actor = a

\* selectFreshTransferPair: neither the pair nor its transfer task was exposed.
FreshPairs(a) ==
    {p \in Pairs : \A x \in exposures : x[1] = a => x[2] # p /\ TaskOf[x[2]] # TaskOf[p]}

\* Mutant: a verified transfer takes further answers.
StageAlwaysAllows(r) == r.op = "reveal" => Row(r).stage = "verified"

\* A transfer takes answers until it is verified, and shows its connection from then on.
StageAllows(r) ==
    Row(r).stage = (IF r.op = "submit" THEN "working" ELSE "verified")

CommandPrint(r) == <<r.op, r.arg>>

\* A submission is repeated when the ledger holds its key, a reveal once it was made.
Repeated(r) ==
    IF r.op = "submit" THEN CommandKey(r) \in DOMAIN Row(r).operations ELSE Row(r).revealed

CommandRefusal(r) ==
    CASE LoadRefusal(r) # "none" -> LoadRefusal(r)
      [] r.op = "submit" /\ Repeated(r) /\ Row(r).operations[CommandKey(r)] # CommandPrint(r)
                                 -> "IDEMPOTENCY_CONFLICT"
      [] ~Repeated(r) /\ ~StageAllows(r) -> "INVALID_TRANSITION"
      [] OTHER                   -> "none"

-----------------------------------------------------------------------------
(* The qualifying chain of a receipt. *)

CorrectScores(type, s, a) ==
    {e \in events : e.type = type /\ e.actor = a /\ e.session = s /\ e.score = "correct"}

\* Mutant: the transfer's own practice is not compared with the named one.
QualifiesByScores(t, q, a) ==
    /\ CorrectScores("practice_scored", q, a) # {}
    /\ CorrectScores("transfer_scored", t, a) # {}

\* Mutant: practice and transfer must be of one pair, as before fresh pairs were chosen.
QualifiesSamePair(t, q, a) ==
    /\ CorrectScores("practice_scored", q, a) # {}
    /\ CorrectScores("transfer_scored", t, a) # {}
    /\ {q, t} \subseteq DOMAIN sessions
    /\ sessions[t].practice = q /\ sessions[t].pair = sessions[q].pair

\* Both sessions are scored correct, are the learner's, and belong together.
Qualifies(t, q, a) ==
    /\ CorrectScores("practice_scored", q, a) # {}
    /\ CorrectScores("transfer_scored", t, a) # {}
    /\ {q, t} \subseteq DOMAIN sessions
    /\ sessions[q].kind = "challenge" /\ sessions[q].actor = a
    /\ sessions[t].kind = "transfer" /\ sessions[t].actor = a
    /\ sessions[t].practice = q

\* findLast.  A session is scored correct once: it takes no answer afterwards.
QualifyingScore(type, s, a) == CHOOSE e \in CorrectScores(type, s, a) : TRUE

Receipts == {e \in events : e.type = "capability_receipt_issued"}

\* The receipts of learner a that cite the transfer score.
ReceiptsFor(score, a) == {e \in Receipts : e.actor = a /\ e.sources[2] = score.id}

\* Mutant: each command names its receipt itself.
ReceiptIdByCommand(score, r) == <<"receipt", <<score.id, r.op, r.key>>>>

\* The ids of receipt and event are digests of the transfer score and the policy.
ReceiptId(score, r) == <<"receipt", score.id>>

ReceiptEvent(r) ==
    LET practice == QualifyingScore("practice_scored", PracticeOf(r), r.actor)
        transfer == QualifyingScore("transfer_scored", r.target, r.actor)
    IN [id |-> ReceiptId(transfer, r), actor |-> r.actor, session |-> r.target,
        type |-> "capability_receipt_issued", sources |-> <<practice.id, transfer.id>>]

-----------------------------------------------------------------------------
(* Snapshots and commands. *)

WithOperation(snap, key, print) ==
    [snap EXCEPT !.operations = Upsert(@, key, print)]

StartedTransfer(r, pair) ==
    [kind |-> "transfer", actor |-> r.actor, practice |-> PracticeOf(r), pair |-> pair,
     stage |-> "working", attempts |-> 0, revealed |-> FALSE, operations |-> EmptyTable]

Submitted(snap, outcome) ==
    [snap EXCEPT !.stage = IF SatisfiesGradingGate(outcome) THEN "verified" ELSE "working",
                 !.attempts = @ + 1]

Revealed(snap) == [snap EXCEPT !.revealed = TRUE]

TransferCommand(r, t, key, snap, new) ==
    [actor |-> r.actor, actorSession |-> r.actorSession, key |-> <<"transfer", t, key>>,
     session |-> t, snapshot |-> snap, events |-> new]

StartCommand(r, pair) ==
    LET t == TransferOf(r)
        key == <<r.op, r.key>>
    IN TransferCommand(r, t, key, WithOperation(StartedTransfer(r, pair), key, <<"start", None>>),
                       {PlainEvent(t, key, 0, r.actor, "transfer_started", 0)})

SubmitCommand(r, score, outcome) ==
    LET next == Submitted(Row(r), outcome)
        key == CommandKey(r)
    IN TransferCommand(r, r.target, key, WithOperation(next, key, CommandPrint(r)),
           {PlainEvent(r.target, key, 0, r.actor, "transfer_submitted", next.attempts),
            Event(r.target, key, 1, r.actor, "transfer_scored", 0, score, outcome)})

\* A reveal writes the snapshot without adding an operation to its ledger.
RevealCommand(r) ==
    TransferCommand(r, r.target, CommandKey(r), Revealed(Row(r)),
        {PlainEvent(r.target, CommandKey(r), 0, r.actor, "connection_revealed", 0)})

IssueCommand(r) ==
    [actor |-> r.actor, actorSession |-> r.actorSession, key |-> <<"receipt", r.target, r.key>>,
     session |-> None, snapshot |-> None, events |-> {ReceiptEvent(r)}]

-----------------------------------------------------------------------------
(* The learner's world. *)

QuestInit ==
    /\ events = {}
    /\ sessions = EmptyTable
    /\ idempotency = EmptyTable
    /\ currentSession = [a \in Actors |-> None]
    /\ exposures = {}
    /\ pc = [h \in Handlers |-> "idle"]
    /\ request = [h \in Handlers |-> None]
    /\ reserved = [h \in Handlers |-> None]
    /\ command = [h \in Handlers |-> None]
    /\ reply = [h \in Handlers |-> None]

OpenPractice(q) ==
    /\ q \notin DOMAIN sessions
    /\ sessions' = Upsert(sessions, q, [kind |-> "challenge", actor |-> OwnerOf[q],
                              pair |-> PairOf[q], stage |-> "attempting",
                              operations |-> EmptyTable])
    /\ UNCHANGED <<events, idempotency, currentSession, exposures, questHandlerVars>>

\* The answer that solves it; a written solution is graded CORRECT but scored invalid.
SolvePractice(q) ==
    /\ q \in DOMAIN sessions /\ sessions[q].stage # "solved"
    /\ sessions' = [sessions EXCEPT ![q].stage = "solved"]
    /\ events' = events \cup
           {Event(q, <<"practice", "submit">>, 1, OwnerOf[q], "practice_scored", 0,
                  IF PairOf[q] \in WrittenPractices THEN "invalid" ELSE "correct", "CORRECT")}
    /\ UNCHANGED <<idempotency, currentSession, exposures, questHandlerVars>>

\* A sign-in replaces the actor's session by one that nobody holds any more.
SignIn(a, t) ==
    /\ \A x \in Actors : currentSession[x] # t
    /\ \A h \in Handlers : request[h] # None => request[h].actorSession # t
    /\ currentSession' = [currentSession EXCEPT ![a] = t]
    /\ UNCHANGED <<events, sessions, idempotency, exposures, questHandlerVars>>

Receive(h, r) ==
    /\ pc[h] = "idle"
    /\ currentSession[r.actor] = r.actorSession
    /\ pc' = [pc EXCEPT ![h] = "verified"]
    /\ request' = [request EXCEPT ![h] = r]
    /\ reply' = [reply EXCEPT ![h] = None]
    /\ UNCHANGED <<storeVars, exposures, reserved, command>>

-----------------------------------------------------------------------------
(* Steps of a handler. *)

Answer(code, r) == [code |-> code, op |-> r.op, target |-> r.target, actor |-> r.actor]

\* The handler is done with its request.
Finish(h, code) ==
    /\ pc' = [pc EXCEPT ![h] = "idle"]
    /\ request' = [request EXCEPT ![h] = None]
    /\ reserved' = [reserved EXCEPT ![h] = None]
    /\ command' = [command EXCEPT ![h] = None]
    /\ reply' = [reply EXCEPT ![h] = Answer(code, request[h])]

\* The request is answered and nothing is written.
Reply(h, code) == Finish(h, code) /\ UNCHANGED <<storeVars, exposures>>

\* The handler goes on to its next await.
Proceed(h, to) ==
    /\ pc' = [pc EXCEPT ![h] = to]
    /\ UNCHANGED <<storeVars, request, reply>>

Prepare(h, c) ==
    /\ Proceed(h, "prepared")
    /\ command' = [command EXCEPT ![h] = c]
    /\ UNCHANGED <<exposures, reserved>>

\* retryPublishedTransfer reads the binding; both routes then try to resume the transfer
\* their key names.  Bindings never change, so the two reads are one step.
ResumeStart(h) ==
    LET r == request[h] IN
    /\ pc[h] = "verified" /\ Starts(r)
    /\ \/ /\ r.op = "retry" /\ LoadRefusal(r) # "none"
          /\ Reply(h, LoadRefusal(r))
       \/ /\ r.op = "retry" => LoadRefusal(r) = "none"
          /\ TransferOf(r) \in DOMAIN sessions
          /\ Reply(h, "replayed")
       \/ /\ r.op = "retry" => LoadRefusal(r) = "none"
          /\ TransferOf(r) \notin DOMAIN sessions
          /\ Proceed(h, "missed")
          /\ UNCHANGED <<exposures, reserved, command>>

\* The gate and the exposures are read and a fresh pair is chosen.
ChoosePair(h) ==
    LET r == request[h] IN
    /\ pc[h] = "missed"
    /\ \/ /\ GateRefusal(r) # "none"
          /\ Reply(h, GateRefusal(r))
       \/ /\ GateRefusal(r) = "none" /\ FreshPairs(r.actor) = {}
          /\ Reply(h, "NO_FRESH_TRANSFER_AVAILABLE")
       \/ /\ GateRefusal(r) = "none"
          /\ \E p \in FreshPairs(r.actor) : reserved' = [reserved EXCEPT ![h] = p]
          /\ Proceed(h, "chosen")
          /\ UNCHANGED <<exposures, command>>

\* Mutant: the exposure is not recorded.
ExposeNothing(h) ==
    /\ pc[h] = "chosen"
    /\ Proceed(h, "exposed")
    /\ UNCHANGED <<exposures, reserved, command>>

\* INSERT ... ON CONFLICT DO NOTHING, a transaction of its own and not fenced.
RecordExposure(h) ==
    /\ pc[h] = "chosen"
    /\ exposures' = exposures \cup {<<request[h].actor, reserved[h]>>}
    /\ Proceed(h, "exposed")
    /\ UNCHANGED <<reserved, command>>

\* startForPair: the transfer may exist by now, and the practice is read again.
LoadStart(h) ==
    LET r == request[h] IN
    /\ pc[h] = "exposed"
    /\ \/ /\ TransferOf(r) \in DOMAIN sessions
          /\ Reply(h, "replayed")
       \/ /\ TransferOf(r) \notin DOMAIN sessions
          /\ ~PracticeEligible(PracticeOf(r), r.actor)
          /\ Reply(h, "PRACTICE_NOT_ELIGIBLE")
       \/ /\ TransferOf(r) \notin DOMAIN sessions
          /\ PracticeEligible(PracticeOf(r), r.actor)
          /\ Prepare(h, StartCommand(r, reserved[h]))

\* submit and revealConnection up to the append; a submission is graded in between.
LoadCommand(h) ==
    LET r == request[h] IN
    /\ pc[h] = "verified" /\ r.op \in {"submit", "reveal"}
    /\ \/ /\ CommandRefusal(r) # "none"
          /\ Reply(h, CommandRefusal(r))
       \/ /\ CommandRefusal(r) = "none" /\ Repeated(r)
          /\ Reply(h, "replayed")
       \/ /\ CommandRefusal(r) = "none" /\ ~Repeated(r) /\ r.op = "reveal"
          /\ Prepare(h, RevealCommand(r))
       \/ /\ CommandRefusal(r) = "none" /\ ~Repeated(r) /\ r.op = "submit"
          /\ IF Row(r).pair \in WrittenTransfers
             THEN \E outcome \in GradingOutcome : Prepare(h, SubmitCommand(r, "invalid", outcome))
             ELSE Prepare(h, SubmitCommand(r, r.arg, DeterministicOutcome(r.arg)))

\* issue: the events and then the sessions are listed.  An event implies its session, and
\* what the chain compares of a session never changes, so the reads are one step.
LoadIssue(h) ==
    LET r == request[h]
        eligible == Qualifies(r.target, PracticeOf(r), r.actor)
        prior == ReceiptsFor(QualifyingScore("transfer_scored", r.target, r.actor), r.actor)
    IN
    /\ pc[h] = "verified" /\ Issues(r)
    /\ \/ /\ r.op = "receipt" /\ LoadRefusal(r) # "none"
          /\ Reply(h, LoadRefusal(r))
       \/ /\ r.op = "receipt" => LoadRefusal(r) = "none"
          /\ ~eligible
          /\ Reply(h, "NOT_ELIGIBLE")
       \/ /\ r.op = "receipt" => LoadRefusal(r) = "none"
          /\ eligible /\ prior # {}
          /\ Reply(h, "replayed")
       \/ /\ r.op = "receipt" => LoadRefusal(r) = "none"
          /\ eligible /\ prior = {}
          /\ Prepare(h, IssueCommand(r))

AppendCommits(h) ==
    /\ pc[h] = "prepared"
    /\ MayCommit(command[h])
    /\ Commit(command[h])
    /\ Finish(h, "ok")
    /\ UNCHANGED exposures

\* What the store returns is ignored, as everywhere.
AppendReplays(h) ==
    /\ pc[h] = "prepared"
    /\ MayReplay(command[h])
    /\ Reply(h, "ok")

\* Mutant: a failed issue is reported as it is.
AppendFailsEverywhere(h) ==
    /\ pc[h] = "prepared"
    /\ \E code \in RefusalCode : MayRefuse(command[h], code) /\ Reply(h, code)

\* The store's error ends the request, except that an issue lists the receipts again.
AppendFails(h) ==
    /\ pc[h] = "prepared"
    /\ \E code \in RefusalCode :
           /\ MayRefuse(command[h], code)
           /\ IF Issues(request[h])
              THEN /\ pc' = [pc EXCEPT ![h] = "failed"]
                   /\ reply' = [reply EXCEPT ![h] = Answer(code, request[h])]
                   /\ UNCHANGED <<storeVars, exposures, request, reserved, command>>
              ELSE Reply(h, code)

\* A receipt with this command's id is there by now, or the error stands.
Relist(h) ==
    /\ pc[h] = "failed"
    /\ Reply(h, IF EventExists(command[h]) THEN "replayed" ELSE reply[h].code)

\* The process serving the request is gone.
Die(h) ==
    /\ pc[h] # "idle"
    /\ pc' = [pc EXCEPT ![h] = "idle"]
    /\ request' = [request EXCEPT ![h] = None]
    /\ reserved' = [reserved EXCEPT ![h] = None]
    /\ command' = [command EXCEPT ![h] = None]
    /\ reply' = [reply EXCEPT ![h] = None]
    /\ UNCHANGED <<storeVars, exposures>>

ServeStart(h) == ResumeStart(h) \/ ChoosePair(h) \/ RecordExposure(h) \/ LoadStart(h)

Append(h) == AppendCommits(h) \/ AppendReplays(h) \/ AppendFails(h) \/ Relist(h)

QuestNext ==
    \/ \E q \in Practices : OpenPractice(q) \/ SolvePractice(q)
    \/ \E a \in Actors, t \in ActorSessions : SignIn(a, t)
    \/ \E h \in Handlers :
           \/ \E r \in Requests : Receive(h, r)
           \/ ServeStart(h) \/ LoadCommand(h) \/ LoadIssue(h) \/ Append(h)
           \/ Die(h)

QuestSpec == QuestInit /\ [][QuestNext]_questVars
=============================================================================
