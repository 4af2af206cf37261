--------------------------- MODULE PracticeEpisode ---------------------------
(***************************************************************************)
(* One learner's way through a published micro-skill, from the first task  *)
(* to being ready for the transfer: starting, submitting and advancing     *)
(* (runtime/server.ts), with the practice gate (challenge/                 *)
(* practice-gate.ts), the choice of fresh pairs (content/selection.ts) and *)
(* the awaited evaluator of written solutions (challenge/service.ts,       *)
(* ai/live-rubric-evaluator.ts, ai/openai-compatible.ts).  Each action of  *)
(* a handler is what happens between two awaits.  Hints are left to        *)
(* PracticeChallenge; here a session is ready, attempting or solved.       *)
(***************************************************************************)
EXTENDS AnswerScoring, RubricGrading

CONSTANTS
    Handlers,      \* requests served at the same time
    Courses,       \* micro-skills to begin with: their tasks (one to a pair), gate, evaluator, bounds
    AnswersTo(_),  \* answers tried on a task
    RepliesTo(_),  \* what the evaluator may say of one criterion of a task
    None

VARIABLES
    course,     \* the micro-skill
    asked,      \* the requests made so far; a session started by one is named after it
    repeats,    \* how many of them were sent again
    work,       \* where each handler is
    sessions,   \* session_snapshots: the practice sessions
    events,     \* evidence_events: what was started and what was scored
    told        \* history: the next actions learners were told

vars == <<course, asked, repeats, work, sessions, events, told>>

Keys == DOMAIN asked

StartRequest == [op |-> "start"]

NextRequest(k) == [op |-> "next", session |-> k]

SubmitRequest(k, answer) == [op |-> "submit", session |-> k, answer |-> answer]

\* The key of an attempt; requests are numbered from 1.
AttemptKey == 0

Idle == [at |-> "idle"]

\* What a handler remembers of its request: the pair it chose, the ledger and the replies it
\* has read, which attempt at the evaluator it is in, the outcome, and (history) the sessions
\* there were when it began.
Received(k) ==
    [at |-> "received", key |-> k, pair |-> None, ledger |-> {}, replies |-> <<>>,
     attempt |-> 0, outcome |-> Unset, before |-> DOMAIN sessions]

Init ==
    /\ course \in Courses
    /\ asked = <<>>
    /\ repeats = 0
    /\ work = [h \in Handlers |-> Idle]
    /\ sessions = <<>>
    /\ events = {}
    /\ told = {}

-----------------------------------------------------------------------------
(* What the proofs assume of the constants. *)

IsText(text) ==
    \/ /\ text.sort = "number" /\ text = Number(text.sign, text.whole, text.fraction)
       /\ text.sign \in {"", "+", "-"} /\ {text.whole, text.fraction} \subseteq Seq(0..9)
    \/ text.sort = "word" /\ text = Word(text.word, text.spaced)

IsTask(task) ==
    /\ task.kind = "exact_text" => \A text \in task.accepted : text.sort = "word" /\ IsText(text)
    /\ task.kind = "choice" => \A text \in task.acceptedOptions : text.sort = "word" /\ IsText(text)
    /\ task.kind = "numeric" => IsText(task.expected) /\ IsText(task.tolerance)
    /\ task.kind = "written_solution" => task.criteria \in Seq(SeqRange(task.criteria))

IsAnswer(answer) == answer.kind \in {"text", "choice"} => IsText(answer.value)

\* The reviewed tasks of a published micro-skill, the answers a page can send and what the
\* provider's replies are read as.
EpisodeAssumption ==
    \A c \in Courses :
        /\ c.initial \in DOMAIN c.tasks
        /\ c.gate.required \in Nat
        /\ \A pair \in DOMAIN c.tasks :
              /\ IsTask(c.tasks[pair])
              /\ \A answer \in AnswersTo(c.tasks[pair]) : IsAnswer(answer)
              /\ \A reply \in RepliesTo(c.tasks[pair]) : reply = Reply(reply.id, reply.status)

ASSUME CoursesAreReviewed == EpisodeAssumption

-----------------------------------------------------------------------------
(* Asking. *)

Idlers == {h \in Handlers : work[h] = Idle}

\* Any idle handler will do, one as well as another.
TakeUp(k) ==
    /\ Cardinality(Handlers \ Idlers) < course.atOnce
    /\ work' = [work EXCEPT ![CHOOSE h \in Idlers : TRUE] = Received(k)]

Ask(request) ==
    /\ Len(asked) < course.requests
    /\ TakeUp(Len(asked) + 1)
    /\ asked' = Append(asked, request)
    /\ UNCHANGED <<course, repeats, sessions, events, told>>

Scored(k, pair, outcome) == [type |-> "practice_scored", key |-> k, pair |-> pair, outcome |-> outcome]

ScoredEvents == {e \in events : e.type = "practice_scored"}

\* The page of a session shows an outcome and what may come next.
HasOutcome(k) == \E e \in ScoredEvents : asked[e.key].session = k

\* A new request.  A page submits once its attempt is recorded, again if no answer came; it
\* offers the next task below an outcome.
AskAnew ==
    \/ Ask(StartRequest)
    \/ \E k \in DOMAIN sessions :
          \/ HasOutcome(k) /\ Ask(NextRequest(k))
          \/ /\ AttemptKey \in sessions[k].ledger
             /\ \E answer \in AnswersTo(course.tasks[sessions[k].pair]) : Ask(SubmitRequest(k, answer))

\* The same request again, under its key; the first may still be under way.
AskAgain ==
    /\ repeats < course.repeats
    /\ \E k \in Keys : TakeUp(k)
    /\ repeats' = repeats + 1
    /\ UNCHANGED <<course, asked, sessions, events, told>>

Attempting(session) ==
    [pair |-> session.pair, stage |-> "attempting", ledger |-> session.ledger \cup {AttemptKey}]

\* The page records an attempt before it submits.  (Another attempt changes nothing but that
\* a submission under way loses its turn, as it does when it dies.)
RecordAttempt(k) ==
    /\ sessions[k].stage = "ready"
    /\ sessions' = [sessions EXCEPT ![k] = Attempting(@)]
    /\ UNCHANGED <<course, asked, repeats, work, events, told>>

-----------------------------------------------------------------------------
(* The gate and the choice of pairs. *)

Started(k, pair) == [type |-> "challenge_started", key |-> k, pair |-> pair, outcome |-> Unset]

\* Mutant: every solution counts, of the same task or of another.
EveryCorrect == {x \in ScoredEvents : x.outcome = "CORRECT"}

DistinctCorrect == {e.pair : e \in {x \in ScoredEvents : x.outcome = "CORRECT"}}

\* Mutant: the number of items is looked at first.
RecoveryFirst(gate) ==
    IF Cardinality(ScoredEvents) >= gate.max THEN "PRACTICE_RECOVERY"
    ELSE IF Cardinality(DistinctCorrect) >= gate.required THEN "READY_FOR_TRANSFER"
    ELSE "CONTINUE_PRACTICE"

DerivePracticeNextAction(gate) ==
    IF Cardinality(DistinctCorrect) >= gate.required THEN "READY_FOR_TRANSFER"
    ELSE IF Cardinality(ScoredEvents) >= gate.max THEN "PRACTICE_RECOVERY"
    ELSE "CONTINUE_PRACTICE"

\* Mutant: a pair counts as seen once it is answered.
AnsweredPairs == {e.pair : e \in ScoredEvents}

ExposedPairs == {e.pair : e \in {x \in events : x.type = "challenge_started"}}

FreshPracticePairs == DOMAIN course.tasks \ ExposedPairs

\* practiceLearnerView: a page that is loaded is told what comes next.
LoadView ==
    /\ sessions # <<>>
    /\ told' = told \cup {DerivePracticeNextAction(course.gate)}
    /\ UNCHANGED <<course, asked, repeats, work, sessions, events>>

-----------------------------------------------------------------------------
(* Handlers. *)

At(h, op, stage) == work[h].at = stage /\ asked[work[h].key].op = op

Step(h, change) == work' = [work EXCEPT ![h] = change]

Stage(h, stage) == Step(h, [work[h] EXCEPT !.at = stage])

StoreUnchanged == UNCHANGED <<course, asked, repeats, sessions, events>>

\* The handler is through; what it answers matters only where it is a next action.
Done(h) == Step(h, Idle) /\ UNCHANGED told

Tell(h, action) ==
    /\ Step(h, Idle)
    /\ told' = told \cup {action}

\* startPublishedPractice: the learner's first pair is always the same.
ChooseInitial(h) ==
    /\ At(h, "start", "received")
    /\ Step(h, [work[h] EXCEPT !.at = "chosen", !.pair = course.initial])
    /\ UNCHANGED told /\ StoreUnchanged

\* advancePractice: the gate decides on one reading of the events ...
ReadGate(h) ==
    /\ At(h, "next", "received")
    /\ LET action == DerivePracticeNextAction(course.gate)
       IN IF action = "CONTINUE_PRACTICE" THEN Stage(h, "continuing") /\ UNCHANGED told
          ELSE Tell(h, action)
    /\ StoreUnchanged

\* ... and the pair is chosen on another: a hash picks any that was not started before.
ChooseFresh(h) ==
    /\ At(h, "next", "continuing")
    /\ \/ /\ FreshPracticePairs = {}
          /\ Tell(h, "PRACTICE_RECOVERY")
       \/ /\ \E pair \in FreshPracticePairs :
                Step(h, [work[h] EXCEPT !.at = "chosen", !.pair = pair])
          /\ UNCHANGED told
    /\ StoreUnchanged

\* practice.start looks the session up: a repeated start is answered from it, or refused if
\* the pair is another one by now.
FindSession(h) ==
    /\ work[h].at = "chosen"
    /\ IF work[h].key \in DOMAIN sessions THEN Done(h) ELSE Stage(h, "opening") /\ UNCHANGED told
    /\ StoreUnchanged

NewSession(k, pair) == [pair |-> pair, stage |-> "ready", ledger |-> {k}]

\* The append; a start that was appended meanwhile refuses this one.
OpenSession(h) ==
    /\ work[h].at = "opening"
    /\ LET k == work[h].key
       IN IF k \in DOMAIN sessions THEN UNCHANGED <<sessions, events>>
          ELSE /\ sessions' = Upsert(sessions, k, NewSession(k, work[h].pair))
               /\ events' = events \cup {Started(k, work[h].pair)}
    /\ Done(h)
    /\ UNCHANGED <<course, asked, repeats>>

SessionOf(h) == asked[work[h].key].session

TaskOf(h) == course.tasks[sessions[SessionOf(h)].pair]

AnswerOf(h) == asked[work[h].key].answer

\* A written solution is graded by the evaluator, where the runtime has one; everything else
\* by the scorer, at once.
LoadSubmission(h) ==
    /\ At(h, "submit", "received")
    /\ LET session == sessions[SessionOf(h)]
           loaded == [work[h] EXCEPT !.ledger = session.ledger]
           graded(outcome) == [loaded EXCEPT !.at = "graded", !.outcome = outcome]
       IN \/ /\ work[h].key \in session.ledger \/ session.stage # "attempting"
             /\ Step(h, Idle)
          \/ /\ work[h].key \notin session.ledger /\ session.stage = "attempting"
             /\ Step(h, IF TaskOf(h).kind # "written_solution"
                        THEN graded(DeterministicOutcome(Score(TaskOf(h), AnswerOf(h))))
                        ELSE IF course.evaluator THEN [loaded EXCEPT !.at = "asking"]
                        ELSE graded("UNCERTAIN"))
    /\ UNCHANGED told /\ StoreUnchanged

Attempts == 2

\* Mutant: the count starts again.
AttemptAgain(attempt) == (attempt + 1) % Attempts

NextAttempt(attempt) == attempt + 1

\* One call of the provider for each criterion, in their order.
Calling(h) == work[h].at = "asking" /\ Len(work[h].replies) < Len(TaskOf(h).criteria)

ProviderReplies(h) ==
    /\ Calling(h)
    /\ \E reply \in RepliesTo(TaskOf(h)) :
          Step(h, [work[h] EXCEPT !.replies = Append(@, reply), !.attempt = 0])
    /\ UNCHANGED told /\ StoreUnchanged

\* Too busy, or no answer in time: one more attempt, and then the evaluator is unavailable.
ProviderStumbles(h) ==
    /\ Calling(h)
    /\ LET attempt == NextAttempt(work[h].attempt)
       IN Step(h, IF attempt < Attempts THEN [work[h] EXCEPT !.attempt = attempt]
                  ELSE [work[h] EXCEPT !.at = "graded", !.outcome = "UNCERTAIN"])
    /\ UNCHANGED told /\ StoreUnchanged

\* Any other error, or a reply that is no JSON.
ProviderFails(h) ==
    /\ Calling(h)
    /\ Step(h, [work[h] EXCEPT !.at = "graded", !.outcome = "UNCERTAIN"])
    /\ UNCHANGED told /\ StoreUnchanged

Grade(h) ==
    /\ work[h].at = "asking" /\ ~Calling(h)
    /\ Step(h, [work[h] EXCEPT !.at = "graded", !.outcome = GradeWritten(work[h].replies, TaskOf(h))])
    /\ UNCHANGED told /\ StoreUnchanged

Answered(session, key, outcome) ==
    [pair |-> session.pair,
     stage |-> IF SatisfiesGradingGate(outcome) THEN "solved" ELSE session.stage,
     ledger |-> session.ledger \cup {key}]

\* The append; it is refused if the session went on since it was loaded.
RecordScore(h) ==
    /\ work[h].at = "graded"
    /\ LET k == SessionOf(h)
           outcome == work[h].outcome
       IN IF sessions[k].ledger # work[h].ledger THEN UNCHANGED <<sessions, events>>
          ELSE /\ sessions' = [sessions EXCEPT ![k] = Answered(@, work[h].key, outcome)]
               /\ events' = events \cup {Scored(work[h].key, sessions[k].pair, outcome)}
    /\ Done(h)
    /\ UNCHANGED <<course, asked, repeats>>

\* The process dies, or the database fails the request.
Die(h) == work[h] # Idle /\ Done(h) /\ StoreUnchanged

Serve(h) ==
    \/ ChooseInitial(h) \/ ReadGate(h) \/ ChooseFresh(h) \/ FindSession(h) \/ OpenSession(h)
    \/ LoadSubmission(h) \/ ProviderReplies(h) \/ ProviderStumbles(h) \/ ProviderFails(h)
    \/ Grade(h) \/ RecordScore(h)

Next ==
    \/ AskAnew \/ AskAgain
    \/ \E k \in DOMAIN sessions : RecordAttempt(k)
    \/ LoadView
    \/ \E h \in Handlers : Serve(h) \/ Die(h)

\* A handler goes on while it can: every call of the provider ends, by its timeout at the
\* latest.
Spec == Init /\ [][Next]_vars /\ \A h \in Handlers : WF_vars(Serve(h))
=============================================================================
