--------------------------- MODULE EvidenceEvents ---------------------------
(***************************************************************************)
(* The evidence vocabulary of a practice challenge: the event records that *)
(* challenge/service.ts emits and the grading outcomes that decide a       *)
(* session's stage.  Ids, task references, timestamps and versions that no *)
(* property tells apart are left out.                                      *)
(***************************************************************************)
EXTENDS Naturals

\* scoring/service.ts: what the deterministic scorer answers.
ScoreOutcome == {"correct", "incorrect", "invalid"}

\* grading/contracts.ts: what the grading of one answer concludes.
GradingOutcome == {"CORRECT", "PARTIALLY_CORRECT", "INCORRECT", "UNCERTAIN"}

\* A value of lastScore or lastOutcome that is not set yet.
Unset == "unset"

\* Mutant: the score is passed on as if it were an outcome.
RawOutcome(score) == score

\* The grading outcome of a task that is not a written solution.
DeterministicOutcome(score) ==
    CASE score = "correct"   -> "CORRECT"
      [] score = "incorrect" -> "INCORRECT"
      [] OTHER               -> "UNCERTAIN"

\* Mutant: an answer the rubric calls partly correct opens the gate as well.
GatePartlyCorrect(outcome) == outcome \in {"CORRECT", "PARTIALLY_CORRECT"}

\* Only CORRECT may solve a practice session.
SatisfiesGradingGate(outcome) == outcome = "CORRECT"

EventType == {"challenge_started", "attempt_submitted", "unable_to_start_declared",
              "intervention_opened", "answer_submitted", "practice_scored"}

\* One evidence event.  The id is a digest of session, operation key and the
\* position of the event in its command, so the triple stands for it.
Event(session, key, n, actor, type, ordinal, score, outcome) ==
    [id |-> <<session, key, n>>, actor |-> actor, session |-> session, type |-> type,
     ordinal |-> ordinal, score |-> score, outcome |-> outcome]

\* An event that carries an ordinal and no score.
PlainEvent(session, key, n, actor, type, ordinal) ==
    Event(session, key, n, actor, type, ordinal, Unset, Unset)
=============================================================================
