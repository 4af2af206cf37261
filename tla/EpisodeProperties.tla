-------------------------- MODULE EpisodeProperties --------------------------
(***************************************************************************)
(* What a learner can rely on from the first task of a micro-skill to the  *)
(* transfer: what is graded CORRECT is correct, what is said of the gate   *)
(* is earned and stays so, and every request is answered.                  *)
(***************************************************************************)
EXTENDS PracticeEpisode

Stages == {"idle", "received", "chosen", "continuing", "opening", "asking", "graded"}

NextActions == {"CONTINUE_PRACTICE", "READY_FOR_TRANSFER", "PRACTICE_RECOVERY"}

Busy == {h \in Handlers : work[h] # Idle}

Grading == {h \in Busy : work[h].at = "graded"}

\* Types: sessions are named after requests and hold pairs of the course, handlers are
\* somewhere on their way, and only outcomes of grading are recorded.
EpisodeTypeOK ==
    /\ DOMAIN sessions \subseteq Keys
    /\ \A k \in DOMAIN sessions :
          /\ sessions[k].pair \in DOMAIN course.tasks
          /\ sessions[k].stage \in {"ready", "attempting", "solved"}
          /\ sessions[k].ledger \subseteq Keys \cup {AttemptKey}
    /\ \A h \in Handlers : work[h].at \in Stages
    /\ \A h \in Busy :
          /\ work[h].key \in Keys
          /\ work[h].pair \in DOMAIN course.tasks \cup {None}
          /\ work[h].attempt \in 0..Attempts - 1
    /\ \A e \in events :
          /\ e.key \in Keys
          /\ e.pair \in DOMAIN course.tasks
          /\ e.outcome \in IF e.type = "challenge_started" THEN {Unset} ELSE GradingOutcome
    /\ told \subseteq NextActions

\* A decimal counted in units of the n-th decimal place, straight from its digits.
Units(text, n) ==
    (IF text.sign = "-" THEN -1 ELSE 1)
    * (Digits(text.whole) * PowerOfTen(n)
       + Digits(text.fraction) * PowerOfTen(n - Len(text.fraction)))

Distance(m, n) == IF m >= n THEN m - n ELSE n - m

\* Is the answer as near to the expected number as the tolerance allows?  They are counted in
\* a unit that is fine enough for all three.
IsNear(answer, expected, tolerance) ==
    LET n == Len(answer.fraction) + Len(expected.fraction) + Len(tolerance.fraction)
    IN Distance(Units(answer, n), Units(expected, n)) <= Units(tolerance, n)

IsKey(expected, tolerance) ==
    /\ IsDecimal(expected)
    /\ IsDecimal(tolerance) /\ Units(tolerance, Len(tolerance.fraction)) >= 0

Naming(replies, id) == {i \in DOMAIN replies : replies[i].id = id}

Deserved(task, answer, replies) ==
    /\ task.kind \in {"written_solution", "exact_text", "choice", "numeric"}
    /\ task.kind = "written_solution" =>
          /\ course.evaluator
          /\ \A id \in SeqRange(task.criteria) : Cardinality(Naming(replies, id)) = 1
          /\ Len(replies) = Len(task.criteria)
          /\ Statuses(replies) \subseteq {"correct"}
    /\ task.kind = "exact_text" => \E text \in task.accepted : text.word = answer.value.word
    /\ task.kind = "choice" =>
          /\ answer.kind = "choice"
          /\ \E text \in task.acceptedOptions : text.word = answer.value.word

\* A written solution is graded CORRECT only if the evaluator spoke of every criterion of the
\* reviewed rubric, of no other and of none twice, and found each one correct, the ones that
\* are not required included; and never where there is no evaluator.  The code compares no
\* two of these things directly: it follows from the reasoning it derives, the duplicates
\* and foreign names it refuses, and the number of its calls (ai/live-rubric-evaluator.ts:8,
\* :23; grading/rubric-validation.ts:4; grading/aggregation.ts:7).  A short answer or a
\* choice is CORRECT only if it is an accepted one but for its spacing.
GradeIsDeserved ==
    \A h \in Grading : work[h].outcome = "CORRECT" =>
        Deserved(TaskOf(h), AnswerOf(h), work[h].replies)

\* A number is graded CORRECT exactly if it is as near to the expected one as the tolerance
\* allows, whatever the zeros and signs it is written with, and INCORRECT exactly if it is
\* not; what is no number, and a task whose key is none, leaves the outcome open
\* (scoring/service.ts:80-123, :145).
VerdictIsExact ==
    \A h \in Grading : TaskOf(h).kind = "numeric" =>
        LET key == TaskOf(h)
            answer == AnswerOf(h)
            judged == /\ answer.kind = "text" /\ IsDecimal(answer.value)
                      /\ IsKey(key.expected, key.tolerance)
            near == IsNear(answer.value, key.expected, key.tolerance)
        IN work[h].outcome = CASE ~judged -> "UNCERTAIN"
                               [] judged /\ near -> "CORRECT"
                               [] judged /\ ~near -> "INCORRECT"

SolvedPairs == {sessions[k].pair : k \in {x \in DOMAIN sessions : sessions[x].stage = "solved"}}

\* Told to be ready for the transfer, a learner has solved as many different pairs as the gate
\* requires: one task solved in two sessions, or a submission that was repeated, counts once
\* (challenge/practice-gate.ts:5; runtime/server.ts:145).
ReadyIsEarned ==
    "READY_FOR_TRANSFER" \in told => Cardinality(SolvedPairs) >= course.gate.required

\* Once told, it stays true: the transfer is refused to nobody who was sent to it, whatever is
\* scored in other sessions of the skill meanwhile, beyond the number of items the gate allows
\* included (runtime/server.ts:163 asks the gate again).
ReadyStaysReady ==
    "READY_FOR_TRANSFER" \in told =>
        DerivePracticeNextAction(course.gate) = "READY_FOR_TRANSFER"

\* The pair a learner advances to is none of those they had a session on when they asked,
\* answered or not (content/selection.ts:9; runtime/server.ts:150).  Two requests at the same
\* time may be given the same pair.
AdvanceIsFresh ==
    \A h \in Busy : asked[work[h].key].op = "next" /\ work[h].at \in {"chosen", "opening"} =>
        \A k \in work[h].before : sessions[k].pair # work[h].pair

\* Every request that is taken up comes to an end, however often the provider stumbles
\* (ai/openai-compatible.ts:8-29).
EpisodeRequestsEnd == \A h \in Handlers : work[h] # Idle ~> work[h] = Idle
=============================================================================
