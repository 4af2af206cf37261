------------------------- MODULE PracticeEvidenceProofs -------------------------
(***************************************************************************)
(* Proofs about what PracticeChallenge stores, for any number of handlers, *)
(* learners, sessions and keys: the session snapshots, their ledgers, the  *)
(* idempotency records and the evidence log tell one history, and what a   *)
(* learner was told is in them.                                            *)
(*                                                                         *)
(* The argument: a commit was computed from the snapshot it overwrites     *)
(* (PracticeProofs), so the events it brings continue the numbering of the *)
(* stored ones exactly where the stored counters stand; the store takes no *)
(* event whose id it has, so each counts; and it writes the ledger's row,  *)
(* the record and the events together.                                     *)
(***************************************************************************)
EXTENDS PracticeProofs, FiniteSetTheorems

\* The evidence of a session, when there is finitely much of all.
EvidenceInv ==
    /\ IsFiniteSet(events)
    /\ EvidenceHasLedger
    /\ CountersMatchEvidence

-----------------------------------------------------------------------------
(* Numbering. *)

OfType(set, type) == {e \in set : e.type = type}

\* The ordinals of a set of events are 1 to n, each once.
NumberedSet(set, n) ==
    /\ {e.ordinal : e \in set} = 1..n
    /\ Cardinality(set) = n

\* One event more carries the next ordinal.
LEMMA NumberingGrows ==
    ASSUME NEW set, IsFiniteSet(set), NEW n \in Nat, NumberedSet(set, n),
           NEW e, e \notin set, e.ordinal = n + 1
    PROVE  NumberedSet(set \cup {e}, n + 1)
<1>1. Cardinality(set \cup {e}) = n + 1
  BY FS_AddElement DEF NumberedSet
<1>2. {x.ordinal : x \in set \cup {e}} = {x.ordinal : x \in set} \cup {n + 1}
  OBVIOUS
<1>3. (1..n) \cup {n + 1} = 1..(n + 1)
  OBVIOUS
<1> QED BY <1>1, <1>2, <1>3 DEF NumberedSet

LEMMA NothingIsNumbered == NumberedSet({}, 0) /\ Cardinality({}) = 0 /\ IsFiniteSet({})
BY FS_EmptySet DEF NumberedSet

-----------------------------------------------------------------------------
(* The events of a command. *)

\* Of one type, a set of events holds none, or one that carries ordinal n.
HasNone(set, type) == OfType(set, type) = {}

HasOne(set, type, n) == \E e \in set : OfType(set, type) = {e} /\ e.ordinal = n

\* Between two values of a counter there are the events that account for the difference.
Accounts(new, type, old, now) ==
    \/ now = old /\ HasNone(new, type)
    \/ now = old + 1 /\ HasOne(new, type, now)

\* A hint is evidence as well, but carries the number of attempts made before it.
AccountsForHint(new, old, now) ==
    \/ now = old /\ HasNone(new, "intervention_opened")
    \/ now = old + 1 /\ \E e \in new : OfType(new, "intervention_opened") = {e}

HasSolution(set) == \E e \in OfType(set, "practice_scored") : e.outcome = "CORRECT"

\* The events a command brings account for what it changes of the snapshot it was
\* computed from, of which `attempts`, `submissions` and `hints` are the counters.
Continues(new, attempts, submissions, hints, snap) ==
    /\ Accounts(new, "attempt_submitted", attempts, snap.attempts)
    /\ Accounts(new, "answer_submitted", submissions, snap.submissions)
    /\ AccountsForHint(new, hints, snap.hints)
    /\ snap.stage = "solved" <=> HasSolution(new)

\* All of them are events of one operation of one session.
Belong(new, session, key, actor) ==
    /\ new # {} /\ IsFiniteSet(new)
    /\ \A e \in new : e.session = session /\ e.id[2] = key /\ e.actor = actor

\* One event.
LEMMA OneEvent ==
    ASSUME NEW e, NEW type
    PROVE  OfType({e}, type) = IF e.type = type THEN {e} ELSE {}
BY DEF OfType

\* Two events of different types.
LEMMA TwoEvents ==
    ASSUME NEW e, NEW f, e.type # f.type, NEW type
    PROVE  OfType({e, f}, type) = IF e.type = type THEN {e}
                                  ELSE IF f.type = type THEN {f} ELSE {}
BY DEF OfType

LEMMA FewAreFinite == \A e, f : IsFiniteSet({e}) /\ IsFiniteSet({e, f})
<1>1. ASSUME NEW e, NEW f PROVE IsFiniteSet({e}) /\ IsFiniteSet({e, f})
  <2>1. IsFiniteSet({e})
    BY FS_Singleton
  <2>2. IsFiniteSet({e} \cup {f})
    BY <2>1, FS_AddElement
  <2>3. {e} \cup {f} = {e, f}
    OBVIOUS
  <2> QED BY <2>1, <2>2, <2>3
<1> QED BY <1>1

\* What an operation writes of a snapshot, whatever its ledger.
LEMMA NextSnapshots ==
    ASSUME NEW b, IsSnapshot(b)
    PROVE  /\ Attempted(b).attempts = b.attempts + 1
           /\ Attempted(b).submissions = b.submissions /\ Attempted(b).hints = b.hints
           /\ Attempted(b).stage # "solved"
           /\ HintOpened(b).attempts = b.attempts
           /\ HintOpened(b).submissions = b.submissions /\ HintOpened(b).hints = b.hints + 1
           /\ HintOpened(b).stage # "solved"
           /\ \A score \in ScoreOutcome, outcome \in GradingOutcome :
                  LET next == Submitted(b, score, outcome) IN
                  /\ next.attempts = b.attempts /\ next.submissions = b.submissions + 1
                  /\ next.hints = b.hints
                  /\ next.stage = "solved" <=> outcome = "CORRECT"
<1>1. b \in SnapshotsWith(b.operations)
  BY DEF IsSnapshot
<1>2. b = [actor |-> b.actor, pair |-> b.pair, stage |-> b.stage, attempts |-> b.attempts,
           submissions |-> b.submissions, hints |-> b.hints, lastScore |-> b.lastScore,
           lastOutcome |-> b.lastOutcome, operations |-> b.operations]
  BY <1>1 DEF SnapshotsWith
<1>3. /\ Attempted(b).attempts = b.attempts + 1 /\ Attempted(b).submissions = b.submissions
      /\ Attempted(b).hints = b.hints /\ Attempted(b).stage # "solved"
  BY <1>2 DEF Attempted
<1>4. /\ HintOpened(b).attempts = b.attempts /\ HintOpened(b).submissions = b.submissions
      /\ HintOpened(b).hints = b.hints + 1 /\ HintOpened(b).stage # "solved"
  BY <1>2 DEF HintOpened
<1>5. ASSUME NEW score \in ScoreOutcome, NEW outcome \in GradingOutcome
      PROVE  LET next == Submitted(b, score, outcome) IN
             /\ next.attempts = b.attempts /\ next.submissions = b.submissions + 1
             /\ next.hints = b.hints
             /\ next.stage = "solved" <=> outcome = "CORRECT"
  <2> DEFINE stage == IF outcome = "CORRECT" THEN "solved"
                      ELSE IF b.hints > 0 THEN "assisted" ELSE "attempting"
             submissions == b.submissions + 1
             next == Submitted(b, score, outcome)
  <2>1. next = [b EXCEPT !.stage = stage, !.submissions = submissions,
                         !.lastScore = score, !.lastOutcome = outcome]
    BY DEF Submitted, SatisfiesGradingGate
  <2>2. stage = "solved" <=> outcome = "CORRECT"
    OBVIOUS
  <2> HIDE DEF stage, submissions
  <2>3. /\ next.attempts = b.attempts /\ next.submissions = submissions
        /\ next.hints = b.hints /\ next.stage = stage
    BY <1>2, <2>1
  <2> QED BY <2>2, <2>3 DEF submissions
<1> QED BY <1>3, <1>4, <1>5

\* Every operation's events account for what it changes.
LEMMA EventsContinue ==
    ASSUME NEW r \in Requests, NEW b
    PROVE  /\ Starts(r) =>
                 /\ Belong(EventsFor(r, Started(r), Unset, Unset), r.session, r.key, r.actor)
                 /\ Continues(EventsFor(r, Started(r), Unset, Unset), 0, 0, 0, Started(r))
           /\ r.op \in {"attempt", "cannot_start"} /\ IsSnapshot(b) /\ b.actor = r.actor =>
                 LET new == EventsFor(r, Attempted(b), Unset, Unset) IN
                 /\ Belong(new, r.session, r.key, r.actor)
                 /\ Continues(new, b.attempts, b.submissions, b.hints, Attempted(b))
           /\ r.op = "open_hint" /\ IsSnapshot(b) /\ b.actor = r.actor =>
                 LET new == EventsFor(r, HintOpened(b), Unset, Unset) IN
                 /\ Belong(new, r.session, r.key, r.actor)
                 /\ Continues(new, b.attempts, b.submissions, b.hints, HintOpened(b))
           /\ r.op = "submit" /\ IsSnapshot(b) /\ b.actor = r.actor =>
                 \A score \in ScoreOutcome, outcome \in GradingOutcome :
                     LET next == Submitted(b, score, outcome)
                         new == EventsFor(r, next, score, outcome)
                     IN /\ Belong(new, r.session, r.key, r.actor)
                        /\ Continues(new, b.attempts, b.submissions, b.hints, next)
<1>1. CASE Starts(r)
  <2> DEFINE e == PlainEvent(r.session, r.key, 0, r.actor, "challenge_started", 0)
             new == EventsFor(r, Started(r), Unset, Unset)
  <2>0. Started(r).actor = r.actor
    BY DEF Started
  <2>1. new = {e}
    BY <1>1, <2>0 DEF EventsFor, Starts
  <2>2. e.session = r.session /\ e.id[2] = r.key /\ e.actor = r.actor /\ e.type = "challenge_started"
    BY DEF Event, PlainEvent
  <2>3. /\ Started(r).attempts = 0 /\ Started(r).submissions = 0 /\ Started(r).hints = 0
        /\ Started(r).stage # "solved"
    BY DEF Started
  <2>4. \A type : OfType(new, type) = IF e.type = type THEN {e} ELSE {}
    BY <2>1, OneEvent
  <2> HIDE DEF e, new
  <2>5. Belong(new, r.session, r.key, r.actor)
    BY <2>1, <2>2, FewAreFinite DEF Belong
  <2>6. Continues(new, 0, 0, 0, Started(r))
    BY <2>2, <2>3, <2>4 DEF Continues, Accounts, AccountsForHint, HasNone, HasSolution
  <2>7. r.op \notin {"attempt", "cannot_start", "open_hint", "submit"}
    BY <1>1 DEF Starts
  <2> QED BY <2>5, <2>6, <2>7 DEF new
<1>2. CASE r.op \in {"attempt", "cannot_start"} /\ IsSnapshot(b) /\ b.actor = r.actor
  <2> DEFINE next == Attempted(b)
             e == PlainEvent(r.session, r.key, 0, r.actor, "attempt_submitted", next.attempts)
             f == PlainEvent(r.session, r.key, 1, r.actor, "unable_to_start_declared",
                             next.attempts)
             new == EventsFor(r, next, Unset, Unset)
  <2>1. next.actor = r.actor
    BY <1>2, NextSnapshotTypes
  <2>2. new = {e} \/ new = {e, f}
    <3> HIDE DEF next
    <3> QED BY <1>2, <2>1 DEF EventsFor, Starts
  <2>3. /\ e.session = r.session /\ e.id[2] = r.key /\ e.actor = r.actor
        /\ e.type = "attempt_submitted" /\ e.ordinal = next.attempts
        /\ f.session = r.session /\ f.id[2] = r.key /\ f.actor = r.actor
        /\ f.type = "unable_to_start_declared"
    BY DEF Event, PlainEvent
  <2>4. /\ next.attempts = b.attempts + 1 /\ next.submissions = b.submissions
        /\ next.hints = b.hints /\ next.stage # "solved"
    BY <1>2, NextSnapshots
  <2> HIDE DEF e, f, new, next
  <2>5. \A type : OfType(new, type) = IF type = "attempt_submitted" THEN {e}
                                      ELSE OfType(new, type) \cap {f}
    BY <2>2, <2>3 DEF OfType
  <2>6. Belong(new, r.session, r.key, r.actor)
    BY <2>2, <2>3, FewAreFinite DEF Belong
  <2>7. e \in new /\ f.type \notin {"answer_submitted", "intervention_opened", "practice_scored"}
    BY <2>2, <2>3
  <2>8. \A type : OfType(new, type) \subseteq {x \in new : x.type = type}
    BY DEF OfType
  <2>9. \A type \in {"answer_submitted", "intervention_opened", "practice_scored"} :
            OfType(new, type) = {}
    BY <2>2, <2>3 DEF OfType
  <2>10. Continues(new, b.attempts, b.submissions, b.hints, next)
    BY <2>3, <2>4, <2>5, <2>7, <2>9
       DEF Continues, Accounts, AccountsForHint, HasNone, HasOne, HasSolution
  <2>11. ~Starts(r) /\ r.op \notin {"open_hint", "submit"}
    BY <1>2 DEF Starts
  <2> QED BY <2>6, <2>10, <2>11 DEF new, next
<1>3. CASE r.op = "open_hint" /\ IsSnapshot(b) /\ b.actor = r.actor
  <2> DEFINE next == HintOpened(b)
             e == PlainEvent(r.session, r.key, 0, r.actor, "intervention_opened", next.attempts)
             new == EventsFor(r, next, Unset, Unset)
  <2>1. next.actor = r.actor
    BY <1>3, NextSnapshotTypes
  <2>2. new = {e}
    <3> HIDE DEF next
    <3> QED BY <1>3, <2>1 DEF EventsFor, Starts
  <2>3. /\ e.session = r.session /\ e.id[2] = r.key /\ e.actor = r.actor
        /\ e.type = "intervention_opened"
    BY DEF Event, PlainEvent
  <2>4. /\ next.attempts = b.attempts /\ next.submissions = b.submissions
        /\ next.hints = b.hints + 1 /\ next.stage # "solved"
    BY <1>3, NextSnapshots
  <2>5. \A type : OfType(new, type) = IF e.type = type THEN {e} ELSE {}
    BY <2>2, OneEvent
  <2> HIDE DEF e, new, next
  <2>6. Belong(new, r.session, r.key, r.actor)
    BY <2>2, <2>3, FewAreFinite DEF Belong
  <2>7. Continues(new, b.attempts, b.submissions, b.hints, next)
    BY <2>2, <2>3, <2>4, <2>5 DEF Continues, Accounts, AccountsForHint, HasNone, HasSolution
  <2>8. ~Starts(r) /\ r.op \notin {"attempt", "cannot_start", "submit"}
    BY <1>3 DEF Starts
  <2> QED BY <2>6, <2>7, <2>8 DEF new, next
<1>4. ASSUME r.op = "submit", IsSnapshot(b), b.actor = r.actor,
             NEW score \in ScoreOutcome, NEW outcome \in GradingOutcome
      PROVE  LET next == Submitted(b, score, outcome)
                 new == EventsFor(r, next, score, outcome)
             IN /\ Belong(new, r.session, r.key, r.actor)
                /\ Continues(new, b.attempts, b.submissions, b.hints, next)
  <2> DEFINE next == Submitted(b, score, outcome)
             e == PlainEvent(r.session, r.key, 0, r.actor, "answer_submitted", next.submissions)
             f == Event(r.session, r.key, 1, r.actor, "practice_scored", 0, score, outcome)
             new == EventsFor(r, next, score, outcome)
  <2>1. next.actor = r.actor
    BY <1>4, NextSnapshotTypes
  <2>2. new = {e, f}
    <3> HIDE DEF next
    <3> QED BY <1>4, <2>1 DEF EventsFor, Starts
  <2>3. /\ e.session = r.session /\ e.id[2] = r.key /\ e.actor = r.actor
        /\ e.type = "answer_submitted" /\ e.ordinal = next.submissions
        /\ f.session = r.session /\ f.id[2] = r.key /\ f.actor = r.actor
        /\ f.type = "practice_scored" /\ f.outcome = outcome
    BY DEF Event, PlainEvent
  <2>4. /\ next.attempts = b.attempts /\ next.submissions = b.submissions + 1
        /\ next.hints = b.hints
        /\ next.stage = "solved" <=> outcome = "CORRECT"
    BY <1>4, NextSnapshots
  <2>5. \A type : OfType(new, type) = IF e.type = type THEN {e}
                                      ELSE IF f.type = type THEN {f} ELSE {}
    <3>1. e.type # f.type
      BY <2>3
    <3> HIDE DEF e, f, new
    <3> QED BY <2>2, <3>1, TwoEvents
  <2> HIDE DEF e, f, new, next
  <2>6. Belong(new, r.session, r.key, r.actor)
    BY <2>2, <2>3, FewAreFinite DEF Belong
  <2>7. /\ OfType(new, "attempt_submitted") = {} /\ OfType(new, "intervention_opened") = {}
        /\ OfType(new, "answer_submitted") = {e} /\ OfType(new, "practice_scored") = {f}
    BY <2>3, <2>5
  <2>8. Accounts(new, "answer_submitted", b.submissions, next.submissions)
    BY <2>2, <2>3, <2>4, <2>7 DEF Accounts, HasOne
  <2>9. HasSolution(new) <=> outcome = "CORRECT"
    BY <2>3, <2>7 DEF HasSolution
  <2>10. Continues(new, b.attempts, b.submissions, b.hints, next)
    BY <2>4, <2>7, <2>8, <2>9 DEF Continues, Accounts, AccountsForHint, HasNone
  <2> QED BY <2>6, <2>10 DEF new, next
<1>5. ASSUME r.op = "submit"
      PROVE  ~Starts(r) /\ r.op \notin {"attempt", "cannot_start", "open_hint"}
  BY <1>5 DEF Starts
<1> QED BY <1>1, <1>2, <1>3, <1>4, <1>5
-----------------------------------------------------------------------------
(* What a handler's command brings. *)

\* Recording the operation changes neither counter nor stage.
LEMMA RecordingContinues ==
    ASSUME NEW x, IsSnapshot(x), NEW r \in Requests, NEW new,
           NEW attempts, NEW submissions, NEW hints,
           Continues(new, attempts, submissions, hints, x)
    PROVE  Continues(new, attempts, submissions, hints, WithOperation(x, r))
<1> DEFINE y == WithOperation(x, r)
<1>1. /\ y.stage = x.stage /\ y.attempts = x.attempts
      /\ y.submissions = x.submissions /\ y.hints = x.hints
  BY WithOperationType
<1> HIDE DEF y
<1> QED BY <1>1 DEF Continues, y

\* The row an operation writes into the ledger: what it was and what came of it.
RowSays(snap, r) ==
    LET op == snap.operations[r.key] IN
    /\ op.print = CommandPrint(r)
    /\ op.result.stage = snap.stage
    /\ op.result.attempts = snap.attempts
    /\ op.result.submissions = snap.submissions
    /\ op.result.hints = snap.hints

LEMMA RecordingSays ==
    ASSUME NEW x, IsSnapshot(x), NEW r \in Requests
    PROVE  RowSays(WithOperation(x, r), r)
<1> DEFINE row == [print |-> CommandPrint(r), result |-> ResultFor(x)]
           ops == Upsert(x.operations, r.key, row)
           y == WithOperation(x, r)
<1>1. y = [x EXCEPT !.operations = ops]
  BY DEF WithOperation
<1>2. x \in SnapshotsWith(x.operations)
  BY DEF IsSnapshot
<1>3. ops[r.key] = row
  <2> HIDE DEF row
  <2> QED BY DEF Upsert
<1> HIDE DEF ops
<1>4. y.operations = ops
  BY <1>1, <1>2 DEF SnapshotsWith
<1>5. /\ y.stage = x.stage /\ y.attempts = x.attempts
      /\ y.submissions = x.submissions /\ y.hints = x.hints
  BY WithOperationType
<1> HIDE DEF y
<1>6. y.operations[r.key] = row
  BY <1>3, <1>4
<1> QED BY <1>5, <1>6 DEF RowSays, ResultFor, y

\* A prepared command carries the events of its operation and the row that names it.
LEMMA ComputedEvents ==
    ASSUME NEW h \in Handlers, Computed(h), request[h] \in Requests
    PROVE  LET r == request[h]
               b == loaded[h]
               c == command[h]
           IN /\ Belong(c.events, r.session, r.key, r.actor)
              /\ RowSays(c.snapshot, r)
              /\ Starts(r) => Continues(c.events, 0, 0, 0, c.snapshot)
              /\ ~Starts(r) => Continues(c.events, b.attempts, b.submissions, b.hints, c.snapshot)
<1> DEFINE r == request[h]
           b == loaded[h]
           c == command[h]
<1>1. ASSUME NEW next, IsSnapshot(next), NEW score, NEW outcome,
             c = CommandFor(r, next, score, outcome), NEW i, NEW j, NEW k,
             Belong(EventsFor(r, next, score, outcome), r.session, r.key, r.actor),
             Continues(EventsFor(r, next, score, outcome), i, j, k, next)
      PROVE  /\ Belong(c.events, r.session, r.key, r.actor)
             /\ RowSays(c.snapshot, r)
             /\ Continues(c.events, i, j, k, c.snapshot)
  <2>1. c.events = EventsFor(r, next, score, outcome) /\ c.snapshot = WithOperation(next, r)
    BY <1>1 DEF CommandFor
  <2> QED BY <1>1, <2>1, RecordingContinues, RecordingSays
<1>2. CASE Starts(r)
  <2>1. c = CommandFor(r, Started(r), Unset, Unset) /\ IsSnapshot(Started(r))
    BY <1>2, StartedType DEF Computed, Starts
  <2>2. /\ Belong(EventsFor(r, Started(r), Unset, Unset), r.session, r.key, r.actor)
        /\ Continues(EventsFor(r, Started(r), Unset, Unset), 0, 0, 0, Started(r))
    BY <1>2, EventsContinue
  <2> QED BY <1>1, <1>2, <2>1, <2>2
<1>3. CASE /\ IsSnapshot(b) /\ b.actor = r.actor
           /\ r.op \in {"attempt", "cannot_start"}
           /\ c = CommandFor(r, Attempted(b), Unset, Unset)
  <2>1. IsSnapshot(Attempted(b)) /\ ~Starts(r)
    BY <1>3, NextSnapshotTypes DEF Starts
  <2> DEFINE new == EventsFor(r, Attempted(b), Unset, Unset)
  <2>2. /\ Belong(new, r.session, r.key, r.actor)
        /\ Continues(new, b.attempts, b.submissions, b.hints, Attempted(b))
    BY <1>3, EventsContinue
  <2> QED BY <1>1, <1>3, <2>1, <2>2
<1>4. CASE /\ IsSnapshot(b) /\ b.actor = r.actor /\ r.op = "open_hint"
           /\ c = CommandFor(r, HintOpened(b), Unset, Unset)
  <2>1. IsSnapshot(HintOpened(b)) /\ ~Starts(r)
    BY <1>4, NextSnapshotTypes DEF Starts
  <2> DEFINE new == EventsFor(r, HintOpened(b), Unset, Unset)
  <2>2. /\ Belong(new, r.session, r.key, r.actor)
        /\ Continues(new, b.attempts, b.submissions, b.hints, HintOpened(b))
    BY <1>4, EventsContinue
  <2> QED BY <1>1, <1>4, <2>1, <2>2
<1>5. ASSUME IsSnapshot(b), b.actor = r.actor, r.op = "submit",
             NEW score \in ScoreOutcome, NEW outcome \in GradingOutcome,
             c = CommandFor(r, Submitted(b, score, outcome), score, outcome)
      PROVE  /\ Belong(c.events, r.session, r.key, r.actor)
             /\ RowSays(c.snapshot, r) /\ ~Starts(r)
             /\ Continues(c.events, b.attempts, b.submissions, b.hints, c.snapshot)
  <2> DEFINE next == Submitted(b, score, outcome)
             new == EventsFor(r, next, score, outcome)
  <2>1. IsSnapshot(next) /\ ~Starts(r)
    BY <1>5, NextSnapshotTypes DEF Starts
  <2>2. /\ Belong(new, r.session, r.key, r.actor)
        /\ Continues(new, b.attempts, b.submissions, b.hints, next)
    BY <1>5, EventsContinue
  <2> QED BY <1>1, <1>5, <2>1, <2>2
<1> QED BY <1>2, <1>3, <1>4, <1>5 DEF Computed

-----------------------------------------------------------------------------
(* A commit continues the evidence of its session. *)

\* New events that account for a counter continue the numbering.
LEMMA AccountedFor ==
    ASSUME NEW set, IsFiniteSet(set), NEW n \in Nat, NumberedSet(set, n),
           NEW new, new \cap set = {}, NEW type, NEW m, Accounts(new, type, n, m)
    PROVE  NumberedSet(set \cup OfType(new, type), m)
<1>1. CASE m = n /\ HasNone(new, type)
  <2>1. set \cup OfType(new, type) = set
    BY <1>1 DEF HasNone
  <2> QED BY <1>1, <2>1
<1>2. CASE m = n + 1 /\ HasOne(new, type, m)
  <2>1. PICK e \in new : OfType(new, type) = {e} /\ e.ordinal = m
    BY <1>2 DEF HasOne
  <2> QED BY <1>2, <2>1, NumberingGrows
<1> QED BY <1>1, <1>2 DEF Accounts

LEMMA HintsAccountedFor ==
    ASSUME NEW set, IsFiniteSet(set), NEW n \in Nat, Cardinality(set) = n,
           NEW new, new \cap set = {}, NEW m, AccountsForHint(new, n, m)
    PROVE  Cardinality(set \cup OfType(new, "intervention_opened")) = m
<1>1. CASE m = n /\ HasNone(new, "intervention_opened")
  BY <1>1 DEF HasNone
<1>2. ASSUME m = n + 1, NEW e \in new, OfType(new, "intervention_opened") = {e}
      PROVE  Cardinality(set \cup OfType(new, "intervention_opened")) = m
  BY <1>2, FS_AddElement
<1> QED BY <1>1, <1>2 DEF AccountsForHint

\* What the counters of one snapshot must be.
CountersAgree(set, snap) ==
    /\ NumberedSet(OfType(set, "attempt_submitted"), snap.attempts)
    /\ NumberedSet(OfType(set, "answer_submitted"), snap.submissions)
    /\ Cardinality(OfType(set, "intervention_opened")) = snap.hints
    /\ snap.stage = "solved" <=> HasSolution(set)

LEMMA CountersMatch ==
    CountersMatchEvidence <=> \A s \in DOMAIN sessions : CountersAgree(EventsOf(s), sessions[s])
BY DEF CountersMatchEvidence, CountersAgree, Numbered, NumberedSet, Typed, OfType, HasSolution

\* The same of the state a step leads to.
LEMMA CountersMatchAfter ==
    (CountersMatchEvidence
        <=> \A s \in DOMAIN sessions : CountersAgree(EventsOf(s), sessions[s]))'
BY CountersMatch, PTL

\* Of events that agree with counters, and new ones that account for the rest.
LEMMA CountersContinue ==
    ASSUME NEW old, IsFiniteSet(old), NEW new, new \cap old = {},
           NEW attempts \in Nat, NEW submissions \in Nat, NEW hints \in Nat,
           NumberedSet(OfType(old, "attempt_submitted"), attempts),
           NumberedSet(OfType(old, "answer_submitted"), submissions),
           Cardinality(OfType(old, "intervention_opened")) = hints,
           ~HasSolution(old),
           NEW snap, Continues(new, attempts, submissions, hints, snap)
    PROVE  CountersAgree(old \cup new, snap)
<1>1. \A type : /\ IsFiniteSet(OfType(old, type))
                /\ new \cap OfType(old, type) = {}
                /\ OfType(old \cup new, type) = OfType(old, type) \cup OfType(new, type)
  <2> TAKE type
  <2>1. OfType(old, type) \subseteq old
    BY DEF OfType
  <2>2. IsFiniteSet(OfType(old, type))
    BY <2>1, FS_Subset
  <2> QED BY <2>1, <2>2 DEF OfType
<1>2. /\ Accounts(new, "attempt_submitted", attempts, snap.attempts)
      /\ Accounts(new, "answer_submitted", submissions, snap.submissions)
      /\ AccountsForHint(new, hints, snap.hints)
      /\ snap.stage = "solved" <=> HasSolution(new)
  BY DEF Continues
<1>3. NumberedSet(OfType(old \cup new, "attempt_submitted"), snap.attempts)
  BY <1>1, <1>2, AccountedFor
<1>4. NumberedSet(OfType(old \cup new, "answer_submitted"), snap.submissions)
  <2> DEFINE set == OfType(old, "answer_submitted")
  <2>1. /\ IsFiniteSet(set) /\ new \cap set = {} /\ NumberedSet(set, submissions)
        /\ OfType(old \cup new, "answer_submitted") = set \cup OfType(new, "answer_submitted")
    BY <1>1
  <2> HIDE DEF set
  <2>2. NumberedSet(set \cup OfType(new, "answer_submitted"), snap.submissions)
    BY <1>2, <2>1, AccountedFor
  <2> QED BY <2>1, <2>2
<1>5. Cardinality(OfType(old \cup new, "intervention_opened")) = snap.hints
  BY <1>1, <1>2, HintsAccountedFor
<1>6. HasSolution(old \cup new) <=> HasSolution(new)
  BY <1>1 DEF HasSolution
<1> QED BY <1>2, <1>3, <1>4, <1>5, <1>6 DEF CountersAgree

\* A commit preserves the agreement of snapshots, ledgers and evidence.
LEMMA CommitKeepsEvidence ==
    ASSUME IndInv, EvidenceInv, NEW h \in Handlers, AppendCommits(h)
    PROVE  EvidenceInv'
<1> DEFINE r == request[h]
           b == loaded[h]
           c == command[h]
           s == r.session
           new == c.events
           After(t) == {e \in events' : e.session = t}
<1>1. pc[h] = "prepared" /\ MayCommit(c) /\ Commit(c)
  BY DEF AppendCommits
<1>2. /\ r \in Requests /\ Computed(h)
      /\ s \in DOMAIN sessions => ~Starts(r) /\ b = sessions[s]
      /\ s \notin DOMAIN sessions => Starts(r)
  BY <1>1, AdmittedFromCurrent
<1>3. /\ events' = events \cup new /\ c.session = s
      /\ sessions' = Upsert(sessions, s, c.snapshot)
  BY <1>1, CommitTables
<1>4. /\ DOMAIN sessions' = DOMAIN sessions \cup {s} /\ sessions'[s] = c.snapshot
      /\ \A t \in DOMAIN sessions : t # s => sessions'[t] = sessions[t]
  BY <1>3 DEF Upsert
<1>5. /\ Belong(new, s, r.key, r.actor)
      /\ Starts(r) => Continues(new, 0, 0, 0, c.snapshot)
      /\ ~Starts(r) => Continues(new, b.attempts, b.submissions, b.hints, c.snapshot)
  BY <1>2, ComputedEvents
<1>6. /\ c.snapshot.actor = r.actor
      /\ ~Starts(r) => b.actor = r.actor /\ b.stage # "solved" /\ IsSnapshot(b)
      /\ DOMAIN c.snapshot.operations =
             IF s \in DOMAIN sessions THEN DOMAIN sessions[s].operations \cup {r.key} ELSE {r.key}
  BY <1>2, ComputedCommand
<1>7. new \cap events = {}
  BY <1>1 DEF MayCommit, EventExists
<1> HIDE DEF r, b, c, s, new
<1>8. /\ new # {} /\ IsFiniteSet(new)
      /\ \A e \in new : e.session = s /\ e.id[2] = r.key /\ e.actor = r.actor
  BY <1>5 DEF Belong
<1>9. After(s) = EventsOf(s) \cup new /\ \A t : t # s => After(t) = EventsOf(t)
  BY <1>3, <1>8 DEF EventsOf
<1>10. s \notin DOMAIN sessions => EventsOf(s) = {}
  BY DEF EvidenceInv, EvidenceHasLedger, EventsOf
<1>11. IsFiniteSet(events')
  BY <1>3, <1>8, FS_Union DEF EvidenceInv
<1>12. EvidenceHasLedger'
  <2>1. ASSUME NEW e \in events'
        PROVE  e.session \in DOMAIN sessions' /\ e.actor = sessions'[e.session].actor
    <3>1. CASE e \in new
      BY <1>4, <1>6, <1>8, <3>1
    <3>2. CASE e \in events /\ e.session = s
      BY <1>2, <1>4, <1>6, <3>2 DEF EvidenceInv, EvidenceHasLedger
    <3>3. CASE e \in events /\ e.session # s
      BY <1>4, <3>3 DEF EvidenceInv, EvidenceHasLedger
    <3> QED BY <1>3, <3>1, <3>2, <3>3
  <2>2. ASSUME NEW t \in DOMAIN sessions'
        PROVE  {e.id[2] : e \in After(t)} = DOMAIN sessions'[t].operations
    <3>1. CASE t # s
      BY <1>4, <1>9, <2>2, <3>1 DEF EvidenceInv, EvidenceHasLedger
    <3>2. CASE t = s
      <4>1. {e.id[2] : e \in After(s)} = {e.id[2] : e \in EventsOf(s)} \cup {r.key}
        BY <1>8, <1>9
      <4>2. {e.id[2] : e \in EventsOf(s)} =
                IF s \in DOMAIN sessions THEN DOMAIN sessions[s].operations ELSE {}
        BY <1>10 DEF EvidenceInv, EvidenceHasLedger
      <4> QED BY <1>4, <1>6, <3>2, <4>1, <4>2
    <3> QED BY <3>1, <3>2
  <2> QED BY <2>1, <2>2 DEF EvidenceHasLedger, EventsOf
<1>13. ASSUME NEW t \in DOMAIN sessions'
       PROVE  CountersAgree(After(t), sessions'[t])
  <2>1. CASE t # s
    BY <1>4, <1>9, <1>13, <2>1, CountersMatch DEF EvidenceInv
  <2>2. CASE t = s
    <3>1. IsFiniteSet(EventsOf(s)) /\ new \cap EventsOf(s) = {}
      <4>1. EventsOf(s) \subseteq events
        BY DEF EventsOf
      <4> QED BY <1>7, <4>1, FS_Subset DEF EvidenceInv
    <3>2. CASE s \in DOMAIN sessions
      <4>1. CountersAgree(EventsOf(s), b)
        BY <1>2, <3>2, CountersMatch DEF EvidenceInv
      <4>2. b.attempts \in Nat /\ b.submissions \in Nat /\ b.hints \in Nat /\ b.stage # "solved"
        BY <1>2, <1>6, <3>2 DEF IsSnapshot, SnapshotsWith
      <4>3. Continues(new, b.attempts, b.submissions, b.hints, c.snapshot)
        BY <1>2, <1>5, <3>2
      <4>4. CountersAgree(EventsOf(s) \cup new, c.snapshot)
        BY <3>1, <4>1, <4>2, <4>3, CountersContinue DEF CountersAgree
      <4> QED BY <1>4, <1>9, <2>2, <4>4
    <3>3. CASE s \notin DOMAIN sessions
      <4>1. EventsOf(s) = {} /\ Continues(new, 0, 0, 0, c.snapshot)
        BY <1>2, <1>5, <1>10, <3>3
      <4>2. \A type : OfType({}, type) = {}
        BY DEF OfType
      <4>3. ~HasSolution({})
        BY <4>2 DEF HasSolution
      <4>4. CountersAgree({} \cup new, c.snapshot)
        <5> DEFINE none == {}
        <5>1. /\ IsFiniteSet(none) /\ new \cap none = {} /\ ~HasSolution(none)
              /\ NumberedSet(OfType(none, "attempt_submitted"), 0)
              /\ NumberedSet(OfType(none, "answer_submitted"), 0)
              /\ Cardinality(OfType(none, "intervention_opened")) = 0
          BY <4>2, <4>3, NothingIsNumbered
        <5> HIDE DEF none
        <5>2. CountersAgree(none \cup new, c.snapshot)
          BY <4>1, <5>1, CountersContinue
        <5> QED BY <5>2 DEF none
      <4> QED BY <1>4, <1>9, <2>2, <4>1, <4>4
    <3> QED BY <3>2, <3>3
  <2> QED BY <2>1, <2>2
<1>14. CountersMatchEvidence'
  <2>1. (\A t \in DOMAIN sessions : CountersAgree(EventsOf(t), sessions[t]))'
    BY <1>13 DEF EventsOf, CountersAgree, HasSolution
  <2> QED BY <2>1, CountersMatchAfter
<1> QED BY <1>11, <1>12, <1>14 DEF EvidenceInv

\* What any other step leaves alone.
LEMMA EvidenceStays ==
    ASSUME EvidenceInv, UNCHANGED <<events, sessions>>
    PROVE  EvidenceInv'
BY DEF EvidenceInv, EvidenceHasLedger, CountersMatchEvidence, EventsOf, Numbered, Typed

LEMMA EvidenceInit == Init => EvidenceInv
<1> SUFFICES ASSUME Init PROVE EvidenceInv
  OBVIOUS
<1>1. events = {} /\ DOMAIN sessions = {}
  BY DEF Init, EmptyTable
<1> QED BY <1>1, FS_EmptySet DEF EvidenceInv, EvidenceHasLedger, CountersMatchEvidence

LEMMA EvidenceSteps == IndInv /\ EvidenceInv /\ [Next]_vars => EvidenceInv'
BY SessionSteps, CommitKeepsEvidence, EvidenceStays

\* However requests interleave, repeat, race or die, the snapshots, their ledgers, the
\* idempotency records and the evidence log tell one history.
THEOREM StoreTellsOneHistory == Spec => []SnapshotAgreesWithEvidence
<1>1. IndInv /\ EvidenceInv => SnapshotAgreesWithEvidence
  BY DEF IndInv, EvidenceInv, SnapshotAgreesWithEvidence
<1> QED BY <1>1, Invariance, EvidenceInit, EvidenceSteps, PTL DEF Spec
-----------------------------------------------------------------------------
(* What a learner was told. *)

\* An idempotency record holds the row its operation wrote into the ledger.
FingerprintsAgree ==
    \A s \in Sessions, k \in Keys :
        <<s, k>> \in DOMAIN idempotency =>
            idempotency[<<s, k>>].snapshot.operations[k] = sessions[s].operations[k]

\* What AcknowledgedIsRecorded says of one handler.
Acknowledged(h) ==
    reply[h] # None /\ reply[h].code \in {"ok", "replayed"} =>
        LET a == reply[h] IN
        /\ a.session \in DOMAIN sessions
        /\ a.key \in DOMAIN sessions[a.session].operations
        /\ LET op == sessions[a.session].operations[a.key] IN
           /\ op.print = a.print
           /\ op.result.stage = a.view.stage
           /\ op.result.attempts = a.view.attempts
           /\ op.result.submissions = a.view.submissions
           /\ op.result.hints = a.view.hints

\* An answer that is not given anew stays recorded: sessions lose no operation.
LEMMA AcknowledgedStays ==
    ASSUME IndInv, [Next]_vars, NEW h \in Handlers, Acknowledged(h), reply'[h] = reply[h]
    PROVE  Acknowledged(h)'
<1>1. \A s \in DOMAIN sessions : Kept(s)
  BY SessionsAreKept
<1> QED BY <1>1 DEF Kept, Acknowledged

\* An answer about operation k of session s, whose row says what the answer says.
LEMMA AnswerIsRecorded ==
    ASSUME NEW h \in Handlers, NEW r \in Requests, NEW code, NEW view,
           reply'[h] = Answer(code, r, view), r.session \in DOMAIN sessions',
           r.key \in DOMAIN sessions'[r.session].operations,
           NEW op, op = sessions'[r.session].operations[r.key],
           op.print = CommandPrint(r), op.result.stage = view.stage,
           op.result.attempts = view.attempts, op.result.submissions = view.submissions,
           op.result.hints = view.hints
    PROVE  Acknowledged(h)'
BY DEF Acknowledged, Answer

\* A refusal and a death acknowledge nothing.
LEMMA NothingAcknowledged ==
    ASSUME NEW h \in Handlers,
           \/ reply'[h] = None
           \/ \E code : code \notin {"ok", "replayed"} /\ reply'[h] = Refusal(code)
    PROVE  Acknowledged(h)'
<1>1. CASE reply'[h] = None
  BY <1>1 DEF Acknowledged
<1>2. ASSUME NEW code, code \notin {"ok", "replayed"}, reply'[h] = Refusal(code)
      PROVE  Acknowledged(h)'
  <2>1. reply'[h].code = code
    BY <1>2 DEF Refusal
  <2> QED BY <1>2, <2>1 DEF Acknowledged
<1> QED BY <1>1, <1>2

\* What a handler's own step answers.
LEMMA OwnAnswers ==
    ASSUME IndInv, EvidenceInv, FingerprintsAgree, [Next]_vars, NEW h \in Handlers,
           reply'[h] # reply[h]
    PROVE  Acknowledged(h)'
<1> DEFINE r == request[h]
           c == command[h]
<1>1. DOMAIN reply = Handlers
  BY DEF IndInv, TypeOK
<1>2. ASSUME NEW answer, Finish(h, answer) PROVE reply'[h] = answer
  BY <1>1, <1>2 DEF Finish
<1>3. CASE \E q \in Requests : Receive(h, q)
  BY <1>1, <1>3, NothingAcknowledged DEF Receive
<1>4. CASE Reject(h)
  <2>1. LoadRefusal(r) \notin {"ok", "replayed"}
    BY DEF LoadRefusal
  <2> HIDE DEF r
  <2>2. reply'[h] = Refusal(LoadRefusal(r))
    BY <1>2, <1>4 DEF Reject, r
  <2> QED BY <2>1, <2>2, NothingAcknowledged
<1>5. CASE ReplayStored(h)
  <2>1. /\ r \in Requests /\ sessions' = sessions
        /\ reply'[h] = Answer("replayed", r, ReplayView(Row(r), r.key))
        /\ LoadRefusal(r) = "none" /\ Repeated(r)
    BY <1>2, <1>5 DEF ReplayStored, storeVars, IndInv, HandlersConsistent
  <2>2. r.session \in DOMAIN sessions /\ r.key \in DOMAIN Row(r).operations
    BY <2>1 DEF Repeated, Exists
  <2>3. Row(r).operations[r.key].print = CommandPrint(r)
    BY <2>1 DEF LoadRefusal
  <2> DEFINE op == Row(r).operations[r.key]
             view == ReplayView(Row(r), r.key)
  <2>4. /\ op.result.stage = view.stage /\ op.result.attempts = view.attempts
        /\ op.result.submissions = view.submissions /\ op.result.hints = view.hints
    BY DEF ReplayView
  <2>5. op = sessions'[r.session].operations[r.key] /\ op.print = CommandPrint(r)
    BY <2>1, <2>3 DEF Row
  <2>6. r.session \in DOMAIN sessions' /\ r.key \in DOMAIN sessions'[r.session].operations
    BY <2>1, <2>2 DEF Row
  <2> HIDE DEF op, view, r
  <2> QED BY <2>1, <2>4, <2>5, <2>6, AnswerIsRecorded DEF view
<1>6. ASSUME pc[h] = "prepared", reply'[h] = Prepared(h), r.session \in DOMAIN sessions',
             r.key \in DOMAIN sessions'[r.session].operations,
             sessions'[r.session].operations[r.key] = c.snapshot.operations[r.key]
      PROVE  Acknowledged(h)'
  <2>1. r \in Requests /\ Computed(h)
    BY <1>6 DEF IndInv, HandlersConsistent
  <2>2. RowSays(c.snapshot, r)
    BY <2>1, ComputedEvents
  <2>3. reply'[h] = Answer("ok", r, View(c.snapshot))
    BY <1>6 DEF Prepared
  <2> DEFINE op == c.snapshot.operations[r.key]
             view == View(c.snapshot)
  <2>4. /\ op.print = CommandPrint(r) /\ op.result.stage = view.stage
        /\ op.result.attempts = view.attempts
        /\ op.result.submissions = view.submissions /\ op.result.hints = view.hints
    BY <2>2 DEF RowSays, View
  <2>5. op = sessions'[r.session].operations[r.key]
    BY <1>6
  <2> HIDE DEF op, view, r
  <2> QED BY <1>6, <2>1, <2>3, <2>4, <2>5, AnswerIsRecorded DEF view
<1>7. CASE AppendCommits(h)
  <2>1. /\ pc[h] = "prepared" /\ MayCommit(c) /\ Commit(c) /\ reply'[h] = Prepared(h)
    BY <1>2, <1>7 DEF AppendCommits
  <2>2. sessions' = Upsert(sessions, r.session, c.snapshot)
    BY <2>1, CommitTables
  <2>3. r.session \in DOMAIN sessions' /\ sessions'[r.session] = c.snapshot
    BY <2>2 DEF Upsert
  <2>4. r.key \in DOMAIN c.snapshot.operations
    BY <2>1, ComputedCommand DEF IndInv, HandlersConsistent
  <2> QED BY <1>6, <2>1, <2>3, <2>4
<1>8. CASE AppendReplays(h)
  <2>1. /\ pc[h] = "prepared" /\ MayReplay(c) /\ sessions' = sessions
        /\ reply'[h] = Prepared(h)
    BY <1>2, <1>8 DEF AppendReplays, storeVars
  <2>2. /\ r \in Requests /\ c.key = <<r.session, r.key>>
    BY <2>1, ComputedCommand DEF IndInv, HandlersConsistent
  <2>3. r.session \in Sessions /\ r.key \in Keys
    BY <2>2, RequestFields
  <2>4. <<r.session, r.key>> \in DOMAIN idempotency
        /\ idempotency[<<r.session, r.key>>].snapshot = c.snapshot
    BY <2>1, <2>2 DEF MayReplay, Recorded, Fingerprint
  <2>5. r.session \in DOMAIN sessions /\ r.key \in DOMAIN sessions[r.session].operations
    BY <2>3, <2>4 DEF IndInv, LedgerIsRecorded
  <2>6. sessions[r.session].operations[r.key] = c.snapshot.operations[r.key]
    BY <2>3, <2>4 DEF FingerprintsAgree
  <2> QED BY <1>6, <2>1, <2>5, <2>6
<1>9. CASE AppendRefused(h)
  <2>1. PICK code \in RefusalCode : Finish(h, Refusal(code))
    BY <1>9 DEF AppendRefused
  <2>2. code \notin {"ok", "replayed"}
    BY <2>1 DEF RefusalCode
  <2> QED BY <1>2, <2>1, <2>2, NothingAcknowledged
<1>10. CASE Die(h)
  BY <1>2, <1>10, NothingAcknowledged DEF Die
<1>11. \/ \E q \in Requests : Receive(h, q)
       \/ Reject(h) \/ ReplayStored(h)
       \/ AppendCommits(h) \/ AppendReplays(h) \/ AppendRefused(h) \/ Die(h)
  <2>1. ASSUME NEW i \in Handlers, NEW answer, i # h, Finish(i, answer) PROVE FALSE
    BY <1>1, <2>1 DEF Finish
  <2>2. ASSUME NEW i \in Handlers, NEW q \in Requests, i # h, Receive(i, q) PROVE FALSE
    BY <1>1, <2>2 DEF Receive
  <2>3. ASSUME NEW i \in Handlers, NEW base, NEW next, NEW score, NEW outcome,
               Prepare(i, base, next, score, outcome)
        PROVE FALSE
    BY <2>3 DEF Prepare
  <2>4. ASSUME NEW a \in Actors, NEW t \in ActorSessions, SignIn(a, t) PROVE FALSE
    BY <2>4 DEF SignIn, handlerVars
  <2>5. ASSUME UNCHANGED vars PROVE FALSE
    BY <2>5 DEF vars, handlerVars
  <2>6. PICK i \in Handlers : (\E q \in Requests : Receive(i, q)) \/ Serve(i) \/ Die(i)
    BY <2>4, <2>5 DEF Next
  <2>7. \/ \E q \in Requests : Receive(i, q)
        \/ Reject(i) \/ ReplayStored(i)
        \/ AppendCommits(i) \/ AppendReplays(i) \/ AppendRefused(i) \/ Die(i)
    BY <2>3, <2>6 DEF Serve, Load, Append, PrepareStart, PrepareAttempt, PrepareHint,
                      PrepareSubmit
  <2>8. i = h
    BY <2>1, <2>2, <2>7 DEF Reject, ReplayStored, AppendCommits, AppendReplays, AppendRefused,
                            Die
  <2> QED BY <2>7, <2>8
<1> QED BY <1>3, <1>4, <1>5, <1>7, <1>8, <1>9, <1>10, <1>11

\* A commit writes the record and the ledger's row together, and no row changes later.
LEMMA FingerprintsStay ==
    ASSUME IndInv, [Next]_vars, FingerprintsAgree
    PROVE  FingerprintsAgree'
<1>1. \A s \in DOMAIN sessions : Kept(s)
  BY SessionsAreKept
<1>2. \A s \in Sessions, k \in Keys :
          <<s, k>> \in DOMAIN idempotency =>
              s \in DOMAIN sessions /\ k \in DOMAIN sessions[s].operations
  BY DEF IndInv, LedgerIsRecorded
<1>3. CASE UNCHANGED <<events, sessions, idempotency>>
  BY <1>3 DEF FingerprintsAgree
<1>4. ASSUME NEW h \in Handlers, AppendCommits(h) PROVE FingerprintsAgree'
  <2> DEFINE r == request[h]
             c == command[h]
             print == Fingerprint(c)
  <2>1. /\ sessions' = Upsert(sessions, r.session, c.snapshot)
        /\ idempotency' = Upsert(idempotency, <<r.session, r.key>>, print)
    BY <1>4, CommitTables DEF AppendCommits
  <2>2. print.snapshot = c.snapshot
    BY DEF Fingerprint
  <2> HIDE DEF print
  <2>3. /\ sessions'[r.session] = c.snapshot
        /\ DOMAIN idempotency' = DOMAIN idempotency \cup {<<r.session, r.key>>}
        /\ idempotency'[<<r.session, r.key>>] = print
        /\ \A i \in DOMAIN idempotency :
               i # <<r.session, r.key>> => idempotency'[i] = idempotency[i]
    BY <2>1 DEF Upsert
  <2> HIDE DEF r, c
  <2>4. ASSUME NEW s \in Sessions, NEW k \in Keys, <<s, k>> \in DOMAIN idempotency'
        PROVE  idempotency'[<<s, k>>].snapshot.operations[k] = sessions'[s].operations[k]
    <3>1. CASE <<s, k>> = <<r.session, r.key>>
      BY <2>2, <2>3, <3>1
    <3>2. CASE <<s, k>> # <<r.session, r.key>>
      <4>1. <<s, k>> \in DOMAIN idempotency /\ idempotency'[<<s, k>>] = idempotency[<<s, k>>]
        BY <2>3, <2>4, <3>2
      <4> QED BY <1>1, <1>2, <4>1 DEF Kept, FingerprintsAgree
    <3> QED BY <3>1, <3>2
  <2> QED BY <2>4 DEF FingerprintsAgree
<1> QED BY <1>3, <1>4, SessionSteps

\* The invariant of the store and of what it was told.
RecordInv == IndInv /\ EvidenceInv /\ FingerprintsAgree /\ AcknowledgedIsRecorded

LEMMA RecordSteps == RecordInv /\ [Next]_vars => RecordInv'
<1> SUFFICES ASSUME RecordInv, [Next]_vars PROVE RecordInv'
  OBVIOUS
<1>1. IndInv' /\ EvidenceInv' /\ FingerprintsAgree'
  BY NextPreserves, EvidenceSteps, FingerprintsStay DEF RecordInv
<1>2. ASSUME NEW h \in Handlers PROVE Acknowledged(h)'
  <2>1. Acknowledged(h)
    BY DEF RecordInv, AcknowledgedIsRecorded, Acknowledged
  <2> QED BY <2>1, AcknowledgedStays, OwnAnswers DEF RecordInv
<1>3. AcknowledgedIsRecorded'
  BY <1>2 DEF AcknowledgedIsRecorded, Acknowledged
<1> QED BY <1>1, <1>3 DEF RecordInv

LEMMA RecordInit == Init => RecordInv
<1> SUFFICES ASSUME Init PROVE RecordInv
  OBVIOUS
<1>1. FingerprintsAgree /\ AcknowledgedIsRecorded
  BY DEF Init, EmptyTable, FingerprintsAgree, AcknowledgedIsRecorded
<1> QED BY <1>1, InitEstablishes, EvidenceInit DEF RecordInv

\* A learner who was told that an operation was done, or what it once answered, finds it in
\* the store as it was told, whatever raced, repeated or died meanwhile and ever after.
THEOREM AcknowledgementsAreRecorded == Spec => []AcknowledgedIsRecorded
<1>1. RecordInv => AcknowledgedIsRecorded
  BY DEF RecordInv
<1> QED BY <1>1, RecordInit, RecordSteps, PTL DEF Spec
=============================================================================
