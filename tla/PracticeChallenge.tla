-------------------------- MODULE PracticeChallenge --------------------------
(***************************************************************************)
(* PracticeChallengeService (challenge/service.ts) behind the API.  Each   *)
(* handler serves one request at a time in three steps with an await       *)
(* between them: the bearer token is verified, the session is loaded and   *)
(* the command computed from what was loaded (for a written solution an AI *)
(* grades the answer meanwhile), and the command is appended to the store. *)
(* Between two steps of a handler any other handler may take any of its    *)
(* own, the learner may sign in again, and the process may die.            *)
(***************************************************************************)
EXTENDS EvidenceEvents, EvidenceStore

CONSTANTS
    Handlers,        \* requests served at the same time
    Actors,          \* learners
    ActorSessions,   \* actor-session ids a sign-in can issue
    Sessions,        \* practice session ids
    Keys,            \* Idempotency-Key values
    Pairs,           \* reviewed task pairs a start can be bound to
    WrittenPairs,    \* those whose practice task asks for a written solution
    Hints,           \* intervention ids a request can name
    ReviewedHints,   \* those approved and part of every pair's snapshot
    Answers,         \* answers, each named by the score it gets on a task that
                     \* is scored deterministically
    Ops,             \* the operations requests are made for
    PublishedSession \* the session id the published-practice route derives from actor
                     \* and key; the key is the one the route prefixes with "start:"

ASSUME ConstantAssumption ==
    /\ WrittenPairs \subseteq Pairs
    /\ ReviewedHints \subseteq Hints
    /\ Answers \subseteq ScoreOutcome
    /\ Ops \subseteq {"start", "start_published", "attempt", "cannot_start",
                      "open_hint", "submit"}
    /\ None \notin Sessions
    /\ NoActorSession \notin ActorSessions
    /\ PublishedSession \in [Actors \X Keys -> Sessions]

VARIABLES
    pc,        \* where each handler is: "idle", "verified" or "prepared"
    request,   \* the request it serves
    loaded,    \* the snapshot it loaded
    command,   \* the command it computed and has not appended yet
    reply      \* the last answer it gave

handlerVars == <<pc, request, loaded, command, reply>>
vars == <<storeVars, handlerVars>>

-----------------------------------------------------------------------------
(* Requests.  `arg` is the pair a start is bound to, the hint to open or the *)
(* answer submitted.                                                         *)

ArgumentsOf(op) ==
    CASE op \in {"start", "start_published"} -> Pairs
      [] op = "open_hint"                    -> Hints
      [] op = "submit"                       -> Answers
      [] OTHER                               -> {None}

Requests ==
    {r \in UNION {[op : {o}, session : Sessions, actor : Actors, actorSession : ActorSessions,
                   key : Keys, arg : ArgumentsOf(o)] : o \in Ops} :
        r.op = "start_published" => r.session = PublishedSession[<<r.actor, r.key>>]}

Starts(r) == r.op \in {"start", "start_published"}

\* The absence of a request is told from every request.
ASSUME NoneIsNoRequest == None \notin Requests

\* What tells two commands with one key apart (the services' fingerprint string).
CommandPrint(r) == <<IF Starts(r) THEN "start" ELSE r.op, r.arg>>

\* The command names the caller's actor session, except where the published-practice
\* route starts a session (runtime/server.ts): it passes none, so it is not fenced.
FenceOf(r) == IF r.op = "start_published" THEN NoActorSession ELSE r.actorSession

-----------------------------------------------------------------------------
(* Snapshots and the operation ledger they carry. *)

\* What an operation stores of its result.  parseState drops the stored lastOutcome
\* whenever a session is loaded, so it is not part of it.
ResultFor(snap) ==
    [stage |-> snap.stage, attempts |-> snap.attempts, submissions |-> snap.submissions,
     hints |-> snap.hints, lastScore |-> snap.lastScore]

WithOperation(snap, r) ==
    [snap EXCEPT !.operations =
        Upsert(@, r.key, [print |-> CommandPrint(r), result |-> ResultFor(snap)])]

\* What a view of a session shows the learner.
View(snap) == [stage |-> snap.stage, attempts |-> snap.attempts,
               submissions |-> snap.submissions, hints |-> snap.hints,
               lastScore |-> snap.lastScore, lastOutcome |-> snap.lastOutcome]

\* The view a repeated command is answered with: the current snapshot overlaid with
\* what the operation stored.  Nothing overlays lastOutcome, and lastScore only where
\* the operation stored one.
ReplayView(snap, key) ==
    LET result == snap.operations[key].result
    IN [stage |-> result.stage, attempts |-> result.attempts,
        submissions |-> result.submissions, hints |-> result.hints,
        lastScore |-> IF result.lastScore = Unset THEN snap.lastScore ELSE result.lastScore,
        lastOutcome |-> snap.lastOutcome]

Started(r) ==
    [actor |-> r.actor, pair |-> r.arg, stage |-> "ready", attempts |-> 0,
     submissions |-> 0, hints |-> 0, lastScore |-> Unset, lastOutcome |-> Unset,
     operations |-> EmptyTable]

Attempted(snap) ==
    [snap EXCEPT !.stage = IF @ = "assisted" THEN "assisted" ELSE "attempting",
                 !.attempts = @ + 1]

HintOpened(snap) == [snap EXCEPT !.stage = "assisted", !.hints = @ + 1]

Submitted(snap, score, outcome) ==
    [snap EXCEPT !.stage = IF SatisfiesGradingGate(outcome) THEN "solved"
                           ELSE IF snap.hints > 0 THEN "assisted" ELSE "attempting",
                 !.submissions = @ + 1,
                 !.lastScore = score,
                 !.lastOutcome = outcome]

\* The deterministic scorer never scores a written solution.
ScoreOf(pair, answer) == IF pair \in WrittenPairs THEN "invalid" ELSE answer

\* A written solution is graded by the rubric evaluator, whose answer, or failure to
\* answer, may lead to any outcome.
GradesOf(pair, answer) ==
    IF pair \in WrittenPairs THEN GradingOutcome
    ELSE {DeterministicOutcome(ScoreOf(pair, answer))}

-----------------------------------------------------------------------------
(* Loading a session and deciding the request from what was loaded. *)

Exists(r) == r.session \in DOMAIN sessions

Row(r) == sessions[r.session]

Repeated(r) == Exists(r) /\ r.key \in DOMAIN Row(r).operations

\* Mutant: the stage is not looked at.
StageAllowsAlways(r) == TRUE

\* Whether the loaded stage lets the operation go ahead.
StageAllows(r) ==
    CASE r.op \in {"attempt", "cannot_start"} -> Row(r).stage # "solved"
      [] r.op = "open_hint" -> Row(r).stage \in {"attempting", "assisted"} /\ Row(r).attempts >= 1
      [] r.op = "submit"    -> Row(r).stage \in {"attempting", "assisted"}
      [] OTHER              -> ~Exists(r)

\* Mutant: a key that was used before answers any command made with it.
LoadRefusalIgnoringPrint(r) ==
    CASE ~Exists(r) /\ ~Starts(r)                               -> "SESSION_NOT_FOUND"
      [] Exists(r) /\ Row(r).actor # r.actor                    -> "ACTOR_MISMATCH"
      [] ~Repeated(r) /\ ~StageAllows(r)                        -> "INVALID_TRANSITION"
      [] r.op = "open_hint" /\ ~Repeated(r) /\ r.arg \notin ReviewedHints
                                                                -> "INTERVENTION_NOT_AVAILABLE"
      [] OTHER                                                  -> "none"

\* The error a request ends with before anything is written; "none" when it goes on.
LoadRefusal(r) ==
    CASE ~Exists(r) /\ ~Starts(r)                               -> "SESSION_NOT_FOUND"
      [] Exists(r) /\ Row(r).actor # r.actor                    -> "ACTOR_MISMATCH"
      [] Repeated(r) /\ Row(r).operations[r.key].print # CommandPrint(r) -> "IDEMPOTENCY_CONFLICT"
      [] ~Repeated(r) /\ ~StageAllows(r)                        -> "INVALID_TRANSITION"
      [] r.op = "open_hint" /\ ~Repeated(r) /\ r.arg \notin ReviewedHints
                                                                -> "INTERVENTION_NOT_AVAILABLE"
      [] OTHER                                                  -> "none"

-----------------------------------------------------------------------------
(* The command a request becomes. *)

EventsFor(r, next, score, outcome) ==
    LET plain(n, type, ordinal) == PlainEvent(r.session, r.key, n, next.actor, type, ordinal)
    IN CASE Starts(r)           -> {plain(0, "challenge_started", 0)}
         [] r.op = "attempt"    -> {plain(0, "attempt_submitted", next.attempts)}
         [] r.op = "cannot_start" ->
                {plain(0, "attempt_submitted", next.attempts),
                 plain(1, "unable_to_start_declared", next.attempts)}
         [] r.op = "open_hint"  -> {plain(0, "intervention_opened", next.attempts)}
         [] r.op = "submit"     ->
                {plain(0, "answer_submitted", next.submissions),
                 Event(r.session, r.key, 1, next.actor, "practice_scored", 0, score, outcome)}

CommandFor(r, next, score, outcome) ==
    [actor |-> next.actor, actorSession |-> FenceOf(r), key |-> <<r.session, r.key>>,
     session |-> r.session, snapshot |-> WithOperation(next, r),
     events |-> EventsFor(r, next, score, outcome)]

-----------------------------------------------------------------------------
(* Actions. *)

Init ==
    /\ events = {}
    /\ sessions = EmptyTable
    /\ idempotency = EmptyTable
    /\ currentSession = [a \in Actors |-> None]
    /\ pc = [h \in Handlers |-> "idle"]
    /\ request = [h \in Handlers |-> None]
    /\ loaded = [h \in Handlers |-> None]
    /\ command = [h \in Handlers |-> None]
    /\ reply = [h \in Handlers |-> None]

\* A session id is a fresh UUID.  One that no actor and no request holds any more is
\* as good as fresh.
Fresh(t) ==
    /\ \A a \in Actors : currentSession[a] # t
    /\ \A h \in Handlers : request[h] # None => request[h].actorSession # t

\* A sign-in replaces the actor's current session: the one before it is revoked.
SignIn(a, t) ==
    /\ Fresh(t)
    /\ currentSession' = [currentSession EXCEPT ![a] = t]
    /\ UNCHANGED <<events, sessions, idempotency, handlerVars>>

\* A request arrives and its token is verified against the actor's current session.
Receive(h, r) ==
    /\ pc[h] = "idle"
    /\ currentSession[r.actor] = r.actorSession
    /\ pc' = [pc EXCEPT ![h] = "verified"]
    /\ request' = [request EXCEPT ![h] = r]
    /\ reply' = [reply EXCEPT ![h] = None]
    /\ UNCHANGED <<storeVars, loaded, command>>

\* The handler is done with its request.
Finish(h, answer) ==
    /\ pc' = [pc EXCEPT ![h] = "idle"]
    /\ request' = [request EXCEPT ![h] = None]
    /\ loaded' = [loaded EXCEPT ![h] = None]
    /\ command' = [command EXCEPT ![h] = None]
    /\ reply' = [reply EXCEPT ![h] = answer]

Refusal(code) == [code |-> code]

Answer(code, r, view) ==
    [code |-> code, session |-> r.session, key |-> r.key, print |-> CommandPrint(r), view |-> view]

\* The loaded session, or its absence, does not allow the request.
Reject(h) ==
    /\ pc[h] = "verified"
    /\ LoadRefusal(request[h]) # "none"
    /\ Finish(h, Refusal(LoadRefusal(request[h])))
    /\ UNCHANGED storeVars

\* The loaded ledger already holds the request's key: nothing is written.
ReplayStored(h) ==
    LET r == request[h] IN
    /\ pc[h] = "verified"
    /\ LoadRefusal(r) = "none" /\ Repeated(r)
    /\ Finish(h, Answer("replayed", r, ReplayView(Row(r), r.key)))
    /\ UNCHANGED storeVars

Proceeds(h) ==
    /\ pc[h] = "verified"
    /\ LoadRefusal(request[h]) = "none"
    /\ ~Repeated(request[h])

Prepare(h, base, next, score, outcome) ==
    /\ pc' = [pc EXCEPT ![h] = "prepared"]
    /\ loaded' = [loaded EXCEPT ![h] = base]
    /\ command' = [command EXCEPT ![h] = CommandFor(request[h], next, score, outcome)]
    /\ UNCHANGED <<storeVars, request, reply>>

PrepareStart(h) ==
    /\ Proceeds(h) /\ Starts(request[h])
    /\ Prepare(h, None, Started(request[h]), Unset, Unset)

PrepareAttempt(h) ==
    /\ Proceeds(h) /\ request[h].op \in {"attempt", "cannot_start"}
    /\ Prepare(h, Row(request[h]), Attempted(Row(request[h])), Unset, Unset)

PrepareHint(h) ==
    /\ Proceeds(h) /\ request[h].op = "open_hint"
    /\ Prepare(h, Row(request[h]), HintOpened(Row(request[h])), Unset, Unset)

\* Grading happens between load and append; for a written solution it awaits an AI.
PrepareSubmit(h) ==
    /\ Proceeds(h) /\ request[h].op = "submit"
    /\ LET row   == Row(request[h])
           score == ScoreOf(row.pair, request[h].arg)
       IN \E outcome \in GradesOf(row.pair, request[h].arg) :
              Prepare(h, row, Submitted(row, score, outcome), score, outcome)

\* The view a handler answers with once its command is in the store.
Prepared(h) == Answer("ok", request[h], View(command[h].snapshot))

AppendCommits(h) ==
    /\ pc[h] = "prepared"
    /\ MayCommit(command[h])
    /\ Commit(command[h])
    /\ Finish(h, Prepared(h))

\* The store recognises the very command.  The service ignores what the store returns
\* and answers with the snapshot it computed itself.
AppendReplays(h) ==
    /\ pc[h] = "prepared"
    /\ MayReplay(command[h])
    /\ Finish(h, Prepared(h))
    /\ UNCHANGED storeVars

AppendRefused(h) ==
    /\ pc[h] = "prepared"
    /\ \E code \in RefusalCode :
           /\ MayRefuse(command[h], code)
           /\ Finish(h, Refusal(code))
    /\ UNCHANGED storeVars

\* The process serving the request is gone: what is not in the store is lost.
Die(h) ==
    /\ pc[h] # "idle"
    /\ Finish(h, None)
    /\ UNCHANGED storeVars

Load(h) ==
    \/ Reject(h) \/ ReplayStored(h)
    \/ PrepareStart(h) \/ PrepareAttempt(h) \/ PrepareHint(h) \/ PrepareSubmit(h)

Append(h) == AppendCommits(h) \/ AppendReplays(h) \/ AppendRefused(h)

Serve(h) == Load(h) \/ Append(h)

Next ==
    \/ \E a \in Actors, t \in ActorSessions : SignIn(a, t)
    \/ \E h \in Handlers :
           \/ \E r \in Requests : Receive(h, r)
           \/ Serve(h)
           \/ Die(h)

Spec == Init /\ [][Next]_vars

\* Node runs every continuation whose await has settled, and a query either answers
\* or rejects: a request that was received is served.
FairSpec == Spec /\ \A h \in Handlers : WF_vars(Serve(h))
=============================================================================
