-------------------------- MODULE PracticeLifecycle --------------------------
(***************************************************************************)
(* What a practice challenge promises, without requests, keys in flight or *)
(* a store: a session is opened once, and then a learner's operations are  *)
(* applied to it one after the other, each exactly once, each to the state *)
(* the one before it left behind, together with the evidence it produces.  *)
(* PracticeChallenge, where requests race, implements this specification.  *)
(* The guards and effects are those of challenge/service.ts.               *)
(***************************************************************************)
EXTENDS EvidenceEvents

CONSTANTS Sessions, Actors, Keys

VARIABLES
    progress,   \* the sessions that were opened, and how far each has come
    evidence    \* the evidence recorded so far

lifecycleVars == <<progress, evidence>>

Stage == {"ready", "attempting", "assisted", "solved"}

\* Operation k opens session s for actor a.
Open(s, k, a) ==
    /\ s \notin DOMAIN progress
    /\ progress' = [x \in DOMAIN progress \cup {s} |->
                        IF x = s THEN [actor |-> a, stage |-> "ready", attempts |-> 0,
                                       submissions |-> 0, hints |-> 0, done |-> {k}]
                        ELSE progress[x]]
    /\ evidence' = evidence \cup {PlainEvent(s, k, 0, a, "challenge_started", 0)}

\* Each operation is done once; what a session looks like after it.
Done(p, k) == [p EXCEPT !.done = @ \cup {k}]

Attempted(p) == [p EXCEPT !.stage = IF @ = "assisted" THEN "assisted" ELSE "attempting",
                          !.attempts = @ + 1]

HintOpened(p) == [p EXCEPT !.stage = "assisted", !.hints = @ + 1]

Submitted(p, outcome) ==
    [p EXCEPT !.stage = IF outcome = "CORRECT" THEN "solved"
                        ELSE IF p.hints > 0 THEN "assisted" ELSE "attempting",
              !.submissions = @ + 1]

\* Operation k takes session s to the state `next` and records the events `new`.
Apply(s, k, next, new) ==
    /\ s \in DOMAIN progress
    /\ k \notin progress[s].done
    /\ progress' = [progress EXCEPT ![s] = Done(next, k)]
    /\ evidence' = evidence \cup new

\* An attempt, or a declaration that the learner cannot start.
Attempt(s, k) ==
    /\ s \in DOMAIN progress /\ progress[s].stage # "solved"
    /\ LET next == Attempted(progress[s])
           attempt == PlainEvent(s, k, 0, next.actor, "attempt_submitted", next.attempts)
       IN \/ Apply(s, k, next, {attempt})
          \/ Apply(s, k, next, {attempt, PlainEvent(s, k, 1, next.actor,
                                         "unable_to_start_declared", next.attempts)})

\* A reviewed hint is opened, after at least one attempt.
OpenHint(s, k) ==
    /\ s \in DOMAIN progress /\ progress[s].stage \in {"attempting", "assisted"}
    /\ progress[s].attempts >= 1
    /\ LET next == HintOpened(progress[s])
       IN Apply(s, k, next, {PlainEvent(s, k, 0, next.actor, "intervention_opened",
                                        next.attempts)})

\* An answer is submitted and graded: only CORRECT solves the session.
Submit(s, k, score, outcome) ==
    /\ s \in DOMAIN progress /\ progress[s].stage \in {"attempting", "assisted"}
    /\ LET next == Submitted(progress[s], outcome)
       IN Apply(s, k, next,
                {PlainEvent(s, k, 0, next.actor, "answer_submitted", next.submissions),
                 Event(s, k, 1, next.actor, "practice_scored", 0, score, outcome)})

LifecycleInit ==
    /\ progress = [s \in {} |-> {}]
    /\ evidence = {}

LifecycleNext ==
    \E s \in Sessions, k \in Keys :
        \/ \E a \in Actors : Open(s, k, a)
        \/ Attempt(s, k)
        \/ OpenHint(s, k)
        \/ \E score \in ScoreOutcome, outcome \in GradingOutcome : Submit(s, k, score, outcome)

LifecycleSpec == LifecycleInit /\ [][LifecycleNext]_lifecycleVars
=============================================================================
