-------------------------- MODULE TransferEvidenceProofs --------------------------
(***************************************************************************)
(* Proofs about what TransferQuest stores, for any number of handlers,     *)
(* learners, practices, keys and pairs: the snapshot of a transfer is what *)
(* its evidence says, a verified transfer is final, a receipt is earned,   *)
(* every racing issue is answered, and the whole implements CapabilityPath.*)
(*                                                                         *)
(* The argument: a row changes by its start, by a submission, which adds   *)
(* its key to the ledger, and by a reveal, which adds nothing.  The store  *)
(* refuses a submission unless its ledger is the one it was computed from; *)
(* then the row is that one too, for it was not verified, and only a       *)
(* verified one is revealed.  A reveal was computed from a verified row,   *)
(* and of such a row nothing but the reveal can have changed.  So there is *)
(* one CORRECT score of a transfer, every receipt of it cites that one,    *)
(* and all of them have one name.                                          *)
(***************************************************************************)
EXTENDS TransferProofs, FiniteSetTheorems

\* The event is of session t, and its id says so.
Of(e, t, type) ==
    /\ e.session = t /\ e.type = type
    /\ \E k, n : e.id = <<t, k, n>>

IsVerdict(e) == e.type = "transfer_scored" /\ e.outcome = "CORRECT"

\* What ReceiptIsEarned says of one receipt.
Earned(e) ==
    /\ e.session \in Transfers
    /\ sessions[e.session].actor = e.actor
    /\ sessions[e.session].stage = "verified"
    /\ \E p \in CorrectScores("practice_scored", sessions[e.session].practice, e.actor) :
          e.sources[1] = p.id
    /\ \E s \in CorrectScores("transfer_scored", e.session, e.actor) :
          e.sources[2] = s.id

\* What TransferMatchesEvidence says of one transfer: `row` is its snapshot, `of(type)` its
\* events of a type.
Numbered(answers, n) == {e.ordinal : e \in answers} = 1..n /\ Cardinality(answers) = n

Matches(t) ==
    LET row == sessions[t] IN
    /\ Numbered(EventsOf(t, "transfer_submitted"), row.attempts)
    /\ row.stage = "verified" <=>
          \E e \in EventsOf(t, "transfer_scored") : e.outcome = "CORRECT"
    /\ row.revealed <=> EventsOf(t, "connection_revealed") # {}
    /\ Cardinality(EventsOf(t, "transfer_started")) = 1

RecordKey(t, k) == <<"transfer", t, k>>

IssueKey(t, k) == <<"receipt", t, k>>

-----------------------------------------------------------------------------
(* The inductive invariant: the tables. *)

\* Evidence is finite and of stored sessions; its ids name the session, except a receipt's.
EvidenceNamed ==
    /\ IsFiniteSet(events)
    /\ \A e \in events :
          /\ e.session \in DOMAIN sessions
          /\ ~IsReceipt(e) => \E k, n : e.id = <<e.session, k, n>>
          /\ e.type = "transfer_scored" /\ e.score = "correct" => e.outcome = "CORRECT"

\* One answer of a transfer is CORRECT: the one that ended it.
OneVerdict ==
    \A e \in events, f \in events :
        IsVerdict(e) /\ IsVerdict(f) /\ e.session = f.session => e = f

\* Every operation in a ledger has its record, that of the start among them.
LedgersRecorded ==
    \A t \in Transfers :
        /\ t[3] \in DOMAIN sessions[t].operations
        /\ \A k \in DOMAIN sessions[t].operations : RecordKey(t, k) \in DOMAIN idempotency

\* What was recorded is in the evidence, and a recorded issue wrote a receipt.
RecordsKept ==
    /\ \A k \in DOMAIN idempotency : idempotency[k].events \subseteq events
    /\ \A t \in TransferIds, k \in Keys :
          IssueKey(t, k) \in DOMAIN idempotency =>
              \E e \in events : IsReceipt(e) /\ e.session = t

StoreInv ==
    /\ EvidenceNamed
    /\ OneVerdict
    /\ \A t \in Transfers : Matches(t)
    /\ \A e \in Receipts : Earned(e)
    /\ LedgersRecorded
    /\ RecordsKept

-----------------------------------------------------------------------------
(* The inductive invariant: what the handlers hold. *)

\* A start writes a row with its own key and one event.
StartHeld(c) ==
    /\ c.session \in TransferIds
    /\ c.key = RecordKey(c.session, c.session[3])
    /\ IsTransferRow(c.snapshot)
    /\ c.snapshot.stage = "working" /\ c.snapshot.attempts = 0
    /\ c.snapshot.revealed = FALSE
    /\ DOMAIN c.snapshot.operations = {c.session[3]}
    /\ \E e : c.events = {e} /\ Of(e, c.session, "transfer_started")

\* A submission was computed from a row that took answers, and continues it.
Continues(old, k, c) ==
    /\ IsTransferRow(old) /\ old.stage = "working" /\ k \notin DOMAIN old.operations
    /\ IsTransferRow(c.snapshot) /\ SameQuest(c.snapshot, old)
    /\ c.snapshot.attempts = old.attempts + 1
    /\ c.snapshot.revealed = old.revealed
    /\ DOMAIN c.snapshot.operations = DOMAIN old.operations \cup {k}
    /\ \E e, f :
          /\ c.events = {e, f}
          /\ Of(e, c.session, "transfer_submitted") /\ e.ordinal = c.snapshot.attempts
          /\ Of(f, c.session, "transfer_scored")
          /\ c.snapshot.stage = "verified" <=> f.outcome = "CORRECT"
          /\ f.score = "correct" => f.outcome = "CORRECT"

\* The row it was computed from is the stored one for as long as the ledgers are equal.
IsPast(old, t) ==
    /\ t \in Transfers
    /\ DOMAIN old.operations \subseteq DOMAIN sessions[t].operations
    /\ DOMAIN old.operations = DOMAIN sessions[t].operations => sessions[t] = old

SubmitHeld(c, k) ==
    /\ c.key = RecordKey(c.session, k)
    /\ \E old : Continues(old, k, c) /\ IsPast(old, c.session)

\* A reveal was computed from a verified row, and nothing but a reveal can have changed it.
RevealHeld(c, k) ==
    /\ c.key = RecordKey(c.session, k)
    /\ c.session \in Transfers
    /\ \E old : /\ IsTransferRow(old) /\ old.stage = "verified"
                /\ c.snapshot = Revealed(old)
                /\ sessions[c.session] \in {old, Revealed(old)}
    /\ \E e : c.events = {e} /\ Of(e, c.session, "connection_revealed")

\* An issue writes a receipt of its request's transfer, and that is earned.
IssueHeld(c, t, k, a) ==
    /\ c.key = IssueKey(t, k) /\ c.session = None
    /\ \E e : /\ c.events = {e} /\ IsReceipt(e) /\ IsNamed(e) /\ Earned(e)
              /\ e.session = t /\ e.actor = a

HeldBy(r, c) ==
    /\ Starts(r) => StartHeld(c)
    /\ r.op = "submit" => SubmitHeld(c, CommandKey(r))
    /\ r.op = "reveal" => RevealHeld(c, CommandKey(r))
    /\ Issues(r) => IssueHeld(c, r.target, r.key, r.actor)

\* An issue that failed on what another one wrote finds it there.
FailedOn(code, c) ==
    /\ code \in RefusalCode
    /\ code \in {"EVENT_EXISTS", "KEY_REUSED"} => EventExists(c)

\* What RacingIssueIsAnswered says of one answer.
IsAnswered(a) ==
    /\ a.code \notin {"EVENT_EXISTS", "KEY_REUSED"}
    /\ a.code \in {"ok", "replayed"} =>
          \E e \in Receipts : e.actor = a.actor /\ e.session = a.target

HeldAt(h) ==
    /\ pc[h] \in {"prepared", "failed"} => HeldBy(request[h], command[h])
    /\ pc[h] = "failed" => Issues(request[h]) /\ FailedOn(reply[h].code, command[h])
    /\ pc[h] = "idle" /\ reply[h] # None /\ Issues(reply[h]) => IsAnswered(reply[h])

HandlersInv == DOMAIN reply = Handlers /\ \A h \in Handlers : HeldAt(h)

\* The inductive invariant.
QuestInv == IndInv /\ StoreInv /\ HandlersInv

-----------------------------------------------------------------------------
(* Rows. *)

LEMMA RevealedFields ==
    ASSUME NEW x, IsTransferRow(x)
    PROVE  /\ SameQuest(Revealed(x), x)
           /\ Revealed(x).stage = x.stage /\ Revealed(x).attempts = x.attempts
           /\ Revealed(x).operations = x.operations /\ Revealed(x).revealed = TRUE
           /\ Revealed(Revealed(x)) = Revealed(x)
<1> DEFINE y == [x EXCEPT !.revealed = TRUE]
<1>1. x \in TransferRow(x.operations)
  BY DEF IsTransferRow
<1>2. /\ y \in TransferRow(x.operations) /\ SameQuest(y, x)
      /\ y.stage = x.stage /\ y.attempts = x.attempts
      /\ y.operations = x.operations /\ y.revealed = TRUE
  BY <1>1 DEF TransferRow, SameQuest
<1>3. \A z : Revealed(z) = [z EXCEPT !.revealed = TRUE]
  BY DEF Revealed
<1> HIDE DEF y
<1>4. [y EXCEPT !.revealed = TRUE] = y
  BY <1>2 DEF TransferRow
<1> QED BY <1>2, <1>3, <1>4 DEF y

LEMMA RecordingFields ==
    ASSUME NEW x, IsTransferRow(x), NEW k, NEW p
    PROVE  LET y == WithOperation(x, k, p) IN
           /\ SameQuest(y, x)
           /\ y.stage = x.stage /\ y.attempts = x.attempts /\ y.revealed = x.revealed
           /\ DOMAIN y.operations = DOMAIN x.operations \cup {k}
<1> DEFINE ops == Upsert(x.operations, k, p)
           y == [x EXCEPT !.operations = ops]
<1>1. WithOperation(x, k, p) = y
  BY DEF WithOperation
<1>2. DOMAIN ops = DOMAIN x.operations \cup {k}
  BY DEF Upsert
<1>3. x \in TransferRow(x.operations)
  BY DEF IsTransferRow
<1> HIDE DEF ops
<1>4. /\ SameQuest(y, x) /\ y.operations = ops
      /\ y.stage = x.stage /\ y.attempts = x.attempts /\ y.revealed = x.revealed
  BY <1>3 DEF TransferRow, SameQuest
<1> HIDE DEF y
<1> QED BY <1>1, <1>2, <1>4

LEMMA SubmittedFields ==
    ASSUME NEW x, IsTransferRow(x), NEW outcome
    PROVE  LET y == Submitted(x, outcome) IN
           /\ SameQuest(y, x) /\ y.operations = x.operations
           /\ y.attempts = x.attempts + 1 /\ y.revealed = x.revealed
           /\ y.stage = "verified" <=> outcome = "CORRECT"
<1> DEFINE stage == IF outcome = "CORRECT" THEN "verified" ELSE "working"
           n == x.attempts + 1
           y == [x EXCEPT !.stage = stage, !.attempts = n]
<1>1. Submitted(x, outcome) = y
  BY DEF Submitted, SatisfiesGradingGate
<1>2. stage = "verified" <=> outcome = "CORRECT"
  OBVIOUS
<1>3. x \in TransferRow(x.operations)
  BY DEF IsTransferRow
<1> HIDE DEF stage, n
<1>4. /\ SameQuest(y, x) /\ y.operations = x.operations
      /\ y.attempts = n /\ y.revealed = x.revealed /\ y.stage = stage
  BY <1>3 DEF TransferRow, SameQuest
<1> HIDE DEF y
<1> QED BY <1>1, <1>2, <1>4 DEF n

\* The ids of transfers are not those of practices, nor the absence of one.
LEMMA TransferIdsApart == TransferIds \cap Practices = {} /\ None \notin TransferIds
BY QuestAssumption DEF TransferIds, StartKeys

\* The records of transfers are not those of issues.
LEMMA KeysApart == \A t, k, u, j : RecordKey(t, k) # IssueKey(u, j)
BY DEF RecordKey, IssueKey

\* The name of a receipt is no other event's.
LEMMA NamesApart == \A a, b, c, d, e : <<a, b>> # <<c, d, e>>
BY SMT

\* The events handlers make.
LEMMA PlainEventIsOf ==
    \A t, k, n, a, type, ordinal :
        /\ Of(PlainEvent(t, k, n, a, type, ordinal), t, type)
        /\ PlainEvent(t, k, n, a, type, ordinal).ordinal = ordinal
BY DEF PlainEvent, Event, Of

LEMMA EventIsOf ==
    \A t, k, n, a, type, score, outcome :
        LET e == Event(t, k, n, a, type, 0, score, outcome) IN
        Of(e, t, type) /\ e.score = score /\ e.outcome = outcome
BY DEF Event, Of
-----------------------------------------------------------------------------
(* What a handler prepares. *)

\* The key and the events of a transfer's command.
LEMMA CommandFields ==
    ASSUME NEW r, NEW t, NEW key, NEW snap, NEW new
    PROVE  LET c == TransferCommand(r, t, key, snap, new) IN
           c.session = t /\ c.key = RecordKey(t, key) /\ c.snapshot = snap /\ c.events = new
BY DEF TransferCommand, RecordKey

LEMMA StartIsHeld ==
    ASSUME SessionTable, NEW r \in Requests, Starts(r),
           r.op = "retry" => r.target \in DOMAIN sessions, NEW p \in Pairs
    PROVE  StartHeld(StartCommand(r, p))
<1> DEFINE key == <<r.op, r.key>>
           t == TransferOf(r)
           row == StartedTransfer(r, p)
           snap == WithOperation(row, key, <<"start", None>>)
           e == PlainEvent(t, key, 0, r.actor, "transfer_started", 0)
           c == StartCommand(r, p)
<1>1. PracticeOf(r) \in Practices
  BY PracticeOfStart
<1>2. key \in OperationKeys /\ t \in TransferIds /\ t[3] = key
  BY <1>1, RequestFields DEF Starts, StartKeys, OperationKeys, TransferIds, TransferOf
<1>3. IsTransferRow(row)
  BY <1>1, StartedType
<1>4. /\ row.stage = "working" /\ row.attempts = 0 /\ row.revealed = FALSE
      /\ DOMAIN row.operations = {}
  BY DEF StartedTransfer, EmptyTable
<1>5. <<"start", None>> \in Prints
  BY DEF Prints
<1> HIDE DEF key, t, row
<1>6. IsTransferRow(snap)
  BY <1>2, <1>3, <1>5, WithOperationType
<1>7. /\ snap.stage = "working" /\ snap.attempts = 0 /\ snap.revealed = FALSE
      /\ DOMAIN snap.operations = {key}
  BY <1>3, <1>4, RecordingFields
<1>8. Of(e, t, "transfer_started")
  BY PlainEventIsOf
<1> HIDE DEF snap, e
<1>9. c.session = t /\ c.key = RecordKey(t, key) /\ c.snapshot = snap /\ c.events = {e}
  BY CommandFields DEF StartCommand, t, key, snap, e, row
<1> HIDE DEF c
<1>10. StartHeld(c)
  BY <1>2, <1>6, <1>7, <1>8, <1>9 DEF StartHeld
<1> QED BY <1>10 DEF c

LEMMA SubmitIsHeld ==
    ASSUME SessionTable, NEW r \in Requests, r.op = "submit",
           CommandRefusal(r) = "none", ~Repeated(r), NEW score, NEW outcome,
           score = "correct" => outcome = "CORRECT"
    PROVE  SubmitHeld(SubmitCommand(r, score, outcome), CommandKey(r))
<1> DEFINE t == r.target
           key == CommandKey(r)
           old == Row(r)
           next == Submitted(old, outcome)
           snap == WithOperation(next, key, CommandPrint(r))
           e == PlainEvent(t, key, 0, r.actor, "transfer_submitted", next.attempts)
           f == Event(t, key, 1, r.actor, "transfer_scored", 0, score, outcome)
           c == SubmitCommand(r, score, outcome)
<1>1. LoadRefusal(r) = "none" /\ StageAllows(r)
  BY DEF CommandRefusal
<1>2. t \in Transfers /\ IsTransferRow(old) /\ sessions[t] = old
  BY <1>1, RequestFields DEF SessionTable, LoadRefusal, Exists, Row, Transfers
<1>3. old.stage = "working" /\ key \notin DOMAIN old.operations
  BY <1>1 DEF StageAllows, Repeated
<1>4. key \in OperationKeys /\ CommandPrint(r) \in Prints
  BY RequestFields DEF CommandKey, OperationKeys, CommandPrint, Prints
<1>5. IsTransferRow(next)
  BY <1>2, SubmittedType
<1> HIDE DEF old, key
<1>6. /\ SameQuest(next, old) /\ next.operations = old.operations
      /\ next.attempts = old.attempts + 1 /\ next.revealed = old.revealed
      /\ next.stage = "verified" <=> outcome = "CORRECT"
  BY <1>2, SubmittedFields
<1> HIDE DEF next
<1>7. IsTransferRow(snap)
  BY <1>4, <1>5, WithOperationType
<1>8. /\ SameQuest(snap, next) /\ snap.stage = next.stage /\ snap.attempts = next.attempts
      /\ snap.revealed = next.revealed /\ DOMAIN snap.operations = DOMAIN next.operations \cup {key}
  BY <1>5, RecordingFields
<1>9. /\ Of(e, t, "transfer_submitted") /\ e.ordinal = next.attempts
      /\ Of(f, t, "transfer_scored") /\ f.score = score /\ f.outcome = outcome
  BY PlainEventIsOf, EventIsOf
<1> HIDE DEF snap, e, f
<1>10. c.session = t /\ c.key = RecordKey(t, key) /\ c.snapshot = snap /\ c.events = {e, f}
  BY CommandFields DEF SubmitCommand, key, old, next, snap, e, f
<1>11. SameQuest(snap, old)
  BY <1>6, <1>8 DEF SameQuest
<1> HIDE DEF c, t
<1>12. Continues(old, key, c)
  BY <1>2, <1>3, <1>6, <1>7, <1>8, <1>9, <1>10, <1>11 DEF Continues
<1>13. IsPast(old, t)
  BY <1>2 DEF IsPast
<1>14. SubmitHeld(c, key)
  BY <1>10, <1>12, <1>13 DEF SubmitHeld
<1> QED BY <1>14 DEF c, key

LEMMA RevealIsHeld ==
    ASSUME SessionTable, NEW r \in Requests, r.op = "reveal",
           CommandRefusal(r) = "none", ~Repeated(r)
    PROVE  RevealHeld(RevealCommand(r), CommandKey(r))
<1> DEFINE t == r.target
           key == CommandKey(r)
           old == Row(r)
           e == PlainEvent(t, key, 0, r.actor, "connection_revealed", 0)
           c == RevealCommand(r)
<1>1. LoadRefusal(r) = "none" /\ StageAllows(r)
  BY DEF CommandRefusal
<1>2. t \in Transfers /\ IsTransferRow(old) /\ sessions[t] = old
  BY <1>1, RequestFields DEF SessionTable, LoadRefusal, Exists, Row, Transfers
<1>3. old.stage = "verified"
  BY <1>1 DEF StageAllows
<1>4. Of(e, t, "connection_revealed")
  BY PlainEventIsOf
<1> HIDE DEF e, old
<1>5. /\ c.session = t /\ c.key = RecordKey(t, key) /\ c.snapshot = Revealed(old)
      /\ c.events = {e}
  BY CommandFields DEF RevealCommand, e, old
<1> HIDE DEF c, t, key
<1>6. RevealHeld(c, key)
  BY <1>2, <1>3, <1>4, <1>5 DEF RevealHeld
<1> QED BY <1>6 DEF c, key

\* A qualifying score is one of the learner's correct scores.
LEMMA QualifyingScoreIsCorrect ==
    ASSUME NEW type, NEW s, NEW a, CorrectScores(type, s, a) # {}
    PROVE  QualifyingScore(type, s, a) \in CorrectScores(type, s, a)
BY DEF QualifyingScore

\* A transfer scored correct is verified.
LEMMA CorrectIsVerified ==
    ASSUME StoreInv, NEW t \in Transfers, NEW a, NEW e \in CorrectScores("transfer_scored", t, a)
    PROVE  sessions[t].stage = "verified" /\ IsVerdict(e)
<1>1. e \in events /\ e.type = "transfer_scored" /\ e.session = t /\ e.score = "correct"
  BY DEF CorrectScores
<1>2. e.outcome = "CORRECT"
  BY <1>1 DEF StoreInv, EvidenceNamed
<1>3. \E x \in EventsOf(t, "transfer_scored") : x.outcome = "CORRECT"
  BY <1>1, <1>2 DEF EventsOf
<1>4. Matches(t)
  BY DEF StoreInv
<1> QED BY <1>1, <1>2, <1>3, <1>4 DEF Matches, IsVerdict

LEMMA IssueIsHeld ==
    ASSUME StoreInv, NEW r \in Requests, Issues(r), Qualifies(r.target, PracticeOf(r), r.actor)
    PROVE  IssueHeld(IssueCommand(r), r.target, r.key, r.actor)
<1> DEFINE t == r.target
           q == PracticeOf(r)
           a == r.actor
           p == QualifyingScore("practice_scored", q, a)
           s == QualifyingScore("transfer_scored", t, a)
           e == ReceiptEvent(r)
           c == IssueCommand(r)
<1>1. t \in Transfers /\ sessions[t].actor = a /\ sessions[t].practice = q
  BY RequestFields DEF Qualifies, Issues, Transfers
<1>2. /\ p \in CorrectScores("practice_scored", q, a)
      /\ s \in CorrectScores("transfer_scored", t, a)
  BY QualifyingScoreIsCorrect DEF Qualifies
<1>3. /\ e.id = <<"receipt", s.id>> /\ e.actor = a /\ e.session = t
      /\ e.type = "capability_receipt_issued" /\ e.sources[1] = p.id /\ e.sources[2] = s.id
  BY DEF ReceiptEvent, ReceiptId
<1> HIDE DEF p, s, e
<1>4. sessions[t].stage = "verified"
  BY <1>1, <1>2, CorrectIsVerified
<1> HIDE DEF t, q, a
<1>5. Earned(e)
  BY <1>1, <1>2, <1>3, <1>4 DEF Earned
<1>6. IsReceipt(e) /\ IsNamed(e)
  BY <1>3 DEF IsReceipt, IsNamed
<1>7. c.key = IssueKey(t, r.key) /\ c.session = None /\ c.events = {e}
  BY DEF IssueCommand, IssueKey, t, e
<1> HIDE DEF c
<1>8. IssueHeld(c, t, r.key, a)
  BY <1>3, <1>5, <1>6, <1>7 DEF IssueHeld
<1> QED BY <1>8 DEF c, t, a
-----------------------------------------------------------------------------
(* What no step takes back. *)

\* Evidence is never removed, a transfer is the same quest with a longer ledger, a
\* verified one gains nothing but its reveal, and no other changes but by an operation.
Advances ==
    /\ events \subseteq events'
    /\ \A t \in Transfers :
          /\ t \in DOMAIN sessions'
          /\ SameQuest(sessions'[t], sessions[t])
          /\ DOMAIN sessions[t].operations \subseteq DOMAIN sessions'[t].operations
          /\ sessions[t].stage = "verified" =>
                sessions'[t] \in {sessions[t], Revealed(sessions[t])}
          /\ sessions[t].stage # "verified" /\ sessions'[t] # sessions[t] =>
                DOMAIN sessions[t].operations # DOMAIN sessions'[t].operations

LEMMA UnmovedAdvances ==
    ASSUME events \subseteq events', sessions' = sessions
    PROVE  Advances
BY DEF Advances, SameQuest, Transfers

LEMMA EarnedStays ==
    ASSUME IndInv, Advances, NEW e, Earned(e)
    PROVE  Earned(e)'
<1> DEFINE t == e.session
<1>1. t \in Transfers /\ IsTransferRow(sessions[t]) /\ sessions[t].stage = "verified"
  BY DEF Earned, IndInv, SessionTable
<1>2. t \in Transfers' /\ SameQuest(sessions'[t], sessions[t])
  BY <1>1 DEF Advances, Transfers
<1>3. sessions'[t].stage = "verified"
  BY <1>1, RevealedFields DEF Advances
<1>4. sessions'[t].practice = sessions[t].practice /\ sessions'[t].actor = e.actor
  BY <1>2 DEF SameQuest, Earned
<1>5. PICK p \in CorrectScores("practice_scored", sessions[t].practice, e.actor) :
        e.sources[1] = p.id
  BY DEF Earned
<1>6. PICK s \in CorrectScores("transfer_scored", t, e.actor) : e.sources[2] = s.id
  BY DEF Earned
<1>7. /\ p \in events' /\ p.type = "practice_scored" /\ p.actor = e.actor
      /\ p.session = sessions'[t].practice /\ p.score = "correct"
  BY <1>4, <1>5 DEF CorrectScores, Advances
<1>8. /\ s \in events' /\ s.type = "transfer_scored" /\ s.actor = e.actor
      /\ s.session = t /\ s.score = "correct"
  BY <1>6 DEF CorrectScores, Advances
<1> QED BY <1>2, <1>3, <1>4, <1>5, <1>6, <1>7, <1>8 DEF Earned, CorrectScores

LEMMA PastStays ==
    ASSUME Advances, NEW old, NEW t, IsPast(old, t), old.stage = "working"
    PROVE  IsPast(old, t)'
<1>1. t \in Transfers /\ t \in Transfers'
  BY DEF IsPast, Advances, Transfers
<1>2. DOMAIN sessions[t].operations \subseteq DOMAIN sessions'[t].operations
  BY <1>1 DEF Advances
<1>3. DOMAIN old.operations \subseteq DOMAIN sessions'[t].operations
  BY <1>2 DEF IsPast
<1>4. ASSUME DOMAIN old.operations = DOMAIN sessions'[t].operations
      PROVE  sessions'[t] = old
  <2>1. DOMAIN old.operations = DOMAIN sessions[t].operations
    BY <1>2, <1>4 DEF IsPast
  <2>2. sessions[t] = old
    BY <2>1 DEF IsPast
  <2> QED BY <1>1, <1>4, <2>1, <2>2 DEF Advances
<1> QED BY <1>1, <1>3, <1>4 DEF IsPast

LEMMA SubmitStays ==
    ASSUME Advances, NEW c, NEW k, SubmitHeld(c, k)
    PROVE  SubmitHeld(c, k)'
<1>1. PICK old : Continues(old, k, c) /\ IsPast(old, c.session)
  BY DEF SubmitHeld
<1>2. IsPast(old, c.session)'
  BY <1>1, PastStays DEF Continues
<1>3. Continues(old, k, c)'
  BY <1>1 DEF Continues
<1> QED BY <1>2, <1>3 DEF SubmitHeld

LEMMA RevealStays ==
    ASSUME Advances, NEW c, NEW k, RevealHeld(c, k)
    PROVE  RevealHeld(c, k)'
<1>1. PICK old : /\ IsTransferRow(old) /\ old.stage = "verified"
                 /\ c.snapshot = Revealed(old)
                 /\ sessions[c.session] \in {old, Revealed(old)}
  BY DEF RevealHeld
<1>2. sessions[c.session].stage = "verified" /\ Revealed(Revealed(old)) = Revealed(old)
  BY <1>1, RevealedFields
<1>3. sessions'[c.session] \in {sessions[c.session], Revealed(sessions[c.session])}
  BY <1>2 DEF RevealHeld, Advances
<1>4. sessions'[c.session] \in {old, Revealed(old)}
  BY <1>1, <1>2, <1>3
<1>5. c.session \in Transfers'
  BY DEF RevealHeld, Advances, Transfers
<1> QED BY <1>1, <1>4, <1>5 DEF RevealHeld

LEMMA IssueStays ==
    ASSUME IndInv, Advances, NEW c, NEW t, NEW k, NEW a, IssueHeld(c, t, k, a)
    PROVE  IssueHeld(c, t, k, a)'
<1>1. PICK e : /\ c.events = {e} /\ IsReceipt(e) /\ IsNamed(e) /\ Earned(e)
               /\ e.session = t /\ e.actor = a
  BY DEF IssueHeld
<1>2. Earned(e)'
  BY <1>1, EarnedStays
<1> QED BY <1>1, <1>2 DEF IssueHeld

LEMMA HeldStays ==
    ASSUME IndInv, Advances, NEW r, NEW c, HeldBy(r, c)
    PROVE  HeldBy(r, c)'
<1>1. Starts(r) => StartHeld(c)'
  BY DEF HeldBy, StartHeld
<1>2. r.op = "submit" => SubmitHeld(c, CommandKey(r))'
  BY SubmitStays DEF HeldBy
<1>3. r.op = "reveal" => RevealHeld(c, CommandKey(r))'
  BY RevealStays DEF HeldBy
<1>4. Issues(r) => IssueHeld(c, r.target, r.key, r.actor)'
  BY IssueStays DEF HeldBy
<1> QED BY <1>1, <1>2, <1>3, <1>4 DEF HeldBy, Starts, Issues, CommandKey

\* A handler that does not move keeps what it holds.
LEMMA HeldAtStays ==
    ASSUME IndInv, Advances, NEW h \in Handlers, HeldAt(h),
           pc'[h] = pc[h], request'[h] = request[h],
           command'[h] = command[h], reply'[h] = reply[h]
    PROVE  HeldAt(h)'
<1>1. ASSUME pc[h] \in {"prepared", "failed"}
      PROVE  HeldBy(request[h], command[h])'
  <2>1. HeldBy(request[h], command[h])
    BY <1>1 DEF HeldAt
  <2> QED BY <2>1, HeldStays
<1>2. ASSUME pc[h] = "failed"
      PROVE  Issues(request[h])' /\ FailedOn(reply[h].code, command[h])'
  BY <1>2 DEF HeldAt, Issues, FailedOn, EventExists, Advances
<1>3. ASSUME pc[h] = "idle", reply[h] # None, Issues(reply[h])
      PROVE  IsAnswered(reply[h])'
  BY <1>3 DEF HeldAt, IsAnswered, Receipts, Advances
<1>4. Issues(reply[h])' => Issues(reply[h])
  BY DEF Issues
<1> QED BY <1>1, <1>2, <1>3, <1>4 DEF HeldAt
-----------------------------------------------------------------------------
(* What a transfer's command writes. *)

\* A command of transfer t under key k: its events are of t, and none is a receipt.
IsTransferCommand(c, t, k) ==
    /\ t \in TransferIds
    /\ c.session = t /\ c.key = RecordKey(t, k)
    /\ IsTransferRow(c.snapshot)
    /\ IsFiniteSet(c.events)
    /\ \A e \in c.events :
          /\ Of(e, t, e.type) /\ ~IsReceipt(e)
          /\ e.type = "transfer_scored" /\ e.score = "correct" => e.outcome = "CORRECT"

LEMMA CommitWrites ==
    ASSUME NEW c, NEW t \in TransferIds, c.session = t, Commit(c)
    PROVE  /\ DOMAIN sessions' = DOMAIN sessions \cup {t}
           /\ sessions'[t] = c.snapshot
           /\ \A u \in DOMAIN sessions \ {t} : sessions'[u] = sessions[u]
           /\ events' = events \cup c.events
           /\ DOMAIN idempotency' = DOMAIN idempotency \cup {c.key}
           /\ \A k \in DOMAIN idempotency' : idempotency'[k].events \subseteq
                 IF k = c.key THEN c.events ELSE idempotency[k].events
<1>1. c.session # None
  BY TransferIdsApart
<1> QED BY <1>1 DEF Commit, Upsert, Fingerprint

\* The events of the other sessions stay; those of t are joined by the new ones.
LEMMA CommitEventsOf ==
    ASSUME NEW c, NEW t, \A e \in c.events : e.session = t, events' = events \cup c.events
    PROVE  /\ \A u, type : u # t => EventsOf(u, type)' = EventsOf(u, type)
           /\ \A type : EventsOf(t, type)' = EventsOf(t, type) \cup {e \in c.events : e.type = type}
BY DEF EventsOf

\* What Matches says of a transfer depends on its row and its events.
LEMMA MatchesStays ==
    ASSUME NEW t, Matches(t), sessions'[t] = sessions[t],
           \A type \in {"transfer_submitted", "transfer_scored", "connection_revealed",
                        "transfer_started"} : EventsOf(t, type)' = EventsOf(t, type)
    PROVE  Matches(t)'
BY DEF Matches, Numbered

\* All that a commit leaves to show of StoreInv is what is new about t.
LEMMA CommitKeeps ==
    ASSUME IndInv, StoreInv, Advances, OneVerdict', NEW c, NEW t, NEW k,
           IsTransferCommand(c, t, k), Commit(c), Matches(t)',
           t[3] \in DOMAIN c.snapshot.operations,
           \A j \in DOMAIN c.snapshot.operations : j = k \/ RecordKey(t, j) \in DOMAIN idempotency
    PROVE  StoreInv'
<1>1. /\ t \in TransferIds /\ c.session = t /\ c.key = RecordKey(t, k)
      /\ \A e \in c.events : e.session = t /\ ~IsReceipt(e)
  BY DEF IsTransferCommand, Of
<1>2. /\ DOMAIN sessions' = DOMAIN sessions \cup {t}
      /\ sessions'[t] = c.snapshot
      /\ \A u \in DOMAIN sessions \ {t} : sessions'[u] = sessions[u]
      /\ events' = events \cup c.events
      /\ DOMAIN idempotency' = DOMAIN idempotency \cup {c.key}
      /\ \A j \in DOMAIN idempotency' : idempotency'[j].events \subseteq
            IF j = c.key THEN c.events ELSE idempotency[j].events
  BY <1>1, CommitWrites
<1>3. Transfers' = Transfers \cup {t}
  BY <1>1, <1>2 DEF Transfers
<1>4. EvidenceNamed'
  <2>1. IsFiniteSet(events')
    BY <1>2, FS_Union DEF StoreInv, EvidenceNamed, IsTransferCommand
  <2>2. ASSUME NEW e \in events'
        PROVE  /\ e.session \in DOMAIN sessions'
               /\ ~IsReceipt(e) => \E j, n : e.id = <<e.session, j, n>>
               /\ e.type = "transfer_scored" /\ e.score = "correct" => e.outcome = "CORRECT"
    <3>1. CASE e \in events
      BY <1>2, <3>1 DEF StoreInv, EvidenceNamed
    <3>2. CASE e \in c.events
      BY <1>1, <1>2, <3>2 DEF IsTransferCommand, Of
    <3> QED BY <1>2, <3>1, <3>2
  <2> QED BY <2>1, <2>2 DEF EvidenceNamed
<1>5. \A u \in Transfers' : Matches(u)'
  <2> SUFFICES ASSUME NEW u \in Transfers', u # t PROVE Matches(u)'
    OBVIOUS
  <2>1. u \in Transfers /\ sessions'[u] = sessions[u]
    BY <1>2, <1>3 DEF Transfers
  <2>2. \A type : EventsOf(u, type)' = EventsOf(u, type)
    BY <1>1, <1>2 DEF EventsOf
  <2> QED BY <2>1, <2>2, MatchesStays DEF StoreInv
<1>6. \A e \in Receipts' : Earned(e)'
  <2>1. Receipts' = Receipts
    BY <1>1, <1>2 DEF Receipts, IsReceipt
  <2> QED BY <2>1, EarnedStays DEF StoreInv
<1>7. LedgersRecorded'
  <2> SUFFICES ASSUME NEW u \in Transfers'
               PROVE  /\ u[3] \in DOMAIN sessions'[u].operations
                      /\ \A j \in DOMAIN sessions'[u].operations :
                            RecordKey(u, j) \in DOMAIN idempotency'
    BY DEF LedgersRecorded, RecordKey
  <2>1. CASE u = t
    BY <1>1, <1>2, <2>1
  <2>2. CASE u # t
    <3>1. u \in Transfers /\ sessions'[u] = sessions[u]
      BY <1>2, <1>3, <2>2 DEF Transfers
    <3> QED BY <1>2, <3>1 DEF StoreInv, LedgersRecorded
  <2> QED BY <2>1, <2>2
<1>8. RecordsKept'
  <2>1. \A j \in DOMAIN idempotency' : idempotency'[j].events \subseteq events'
    BY <1>2 DEF StoreInv, RecordsKept
  <2>2. ASSUME NEW u \in TransferIds, NEW j \in Keys, IssueKey(u, j) \in DOMAIN idempotency'
        PROVE  \E e \in events' : IsReceipt(e) /\ e.session = u
    <3>1. IssueKey(u, j) \in DOMAIN idempotency
      BY <1>1, <1>2, <2>2, KeysApart
    <3> QED BY <1>2, <3>1 DEF StoreInv, RecordsKept
  <2> QED BY <2>1, <2>2 DEF RecordsKept, IssueKey
<1> QED BY <1>4, <1>5, <1>6, <1>7, <1>8 DEF StoreInv

\* No verdict is added.
LEMMA VerdictsStay ==
    ASSUME OneVerdict, NEW new, events' = events \cup new, \A e \in new : ~IsVerdict(e)
    PROVE  OneVerdict'
BY DEF OneVerdict, IsVerdict

\* What a commit does to the other transfers.
LEMMA AdvancesBut ==
    ASSUME NEW t, events \subseteq events', DOMAIN sessions \subseteq DOMAIN sessions',
           \A u \in DOMAIN sessions \ {t} : sessions'[u] = sessions[u],
           t \in Transfers =>
               /\ SameQuest(sessions'[t], sessions[t])
               /\ DOMAIN sessions[t].operations \subseteq DOMAIN sessions'[t].operations
               /\ sessions[t].stage = "verified" =>
                     sessions'[t] \in {sessions[t], Revealed(sessions[t])}
               /\ sessions[t].stage # "verified" /\ sessions'[t] # sessions[t] =>
                     DOMAIN sessions[t].operations # DOMAIN sessions'[t].operations
    PROVE  Advances
BY DEF Advances, SameQuest, Transfers
-----------------------------------------------------------------------------
(* The commits, one operation at a time. *)

LEMMA StartCommits ==
    ASSUME IndInv, StoreInv, NEW c, StartHeld(c), ~Recorded(c), Commit(c)
    PROVE  Advances /\ StoreInv'
<1> DEFINE t == c.session
           k == t[3]
<1>1. PICK e : c.events = {e} /\ Of(e, t, "transfer_started")
  BY DEF StartHeld
<1>2. /\ t \in TransferIds /\ c.key = RecordKey(t, k) /\ IsTransferRow(c.snapshot)
      /\ c.snapshot.stage = "working" /\ c.snapshot.attempts = 0
      /\ c.snapshot.revealed = FALSE /\ DOMAIN c.snapshot.operations = {k}
  BY DEF StartHeld
<1> HIDE DEF t, k
<1>3. IsTransferCommand(c, t, k)
  <2>1. IsFiniteSet({e})
    BY FS_Singleton
  <2> QED BY <1>1, <1>2, <2>1 DEF IsTransferCommand, Of, IsReceipt, t
<1>4. t \notin DOMAIN sessions
  BY <1>2 DEF Recorded, StoreInv, LedgersRecorded, Transfers, k
<1>5. /\ DOMAIN sessions' = DOMAIN sessions \cup {t} /\ sessions'[t] = c.snapshot
      /\ \A u \in DOMAIN sessions \ {t} : sessions'[u] = sessions[u]
      /\ events' = events \cup {e}
  BY <1>1, <1>2, CommitWrites DEF t
<1>6. Advances
  BY <1>4, <1>5, AdvancesBut DEF Transfers
<1>7. OneVerdict'
  BY <1>1, <1>5, VerdictsStay DEF StoreInv, IsVerdict, Of
<1>8. \A x \in events : x.session # t
  BY <1>4 DEF StoreInv, EvidenceNamed
<1>9. /\ EventsOf(t, "transfer_submitted")' = {} /\ EventsOf(t, "transfer_scored")' = {}
      /\ EventsOf(t, "connection_revealed")' = {} /\ EventsOf(t, "transfer_started")' = {e}
  BY <1>1, <1>5, <1>8 DEF EventsOf, Of
<1>10. Numbered({}, 0)
  BY FS_EmptySet DEF Numbered
<1>11. Matches(t)'
  <2>1. /\ sessions'[t].attempts = 0 /\ sessions'[t].stage # "verified"
        /\ sessions'[t].revealed = FALSE /\ Cardinality({e}) = 1
    BY <1>2, <1>5, FS_Singleton
  <2> QED BY <1>9, <1>10, <2>1 DEF Matches
<1> QED BY <1>2, <1>3, <1>6, <1>7, <1>11, CommitKeeps DEF k

\* The store took the submission: the row is the one it was computed from.
LEMMA SubmitUnmoved ==
    ASSUME StoreInv, NEW c, NEW old, NEW k, Continues(old, k, c), IsPast(old, c.session),
           c.key = RecordKey(c.session, k), ~Recorded(c), ~RollsBack(c)
    PROVE  sessions[c.session] = old
<1> DEFINE t == c.session
           ledger == DOMAIN sessions[t].operations
<1>1. t \in Transfers /\ DOMAIN old.operations \subseteq ledger
  BY DEF IsPast
<1>2. k \notin ledger
  BY <1>1 DEF Recorded, StoreInv, LedgersRecorded
<1>3. ledger \subseteq DOMAIN old.operations \cup {k}
  BY <1>1 DEF RollsBack, HasRow, Transfers, Continues
<1> QED BY <1>1, <1>2, <1>3 DEF IsPast

\* One more answer is numbered next.
LEMMA NumberedNext ==
    ASSUME NEW answers, IsFiniteSet(answers), NEW n \in Nat, Numbered(answers, n),
           NEW e, e \notin answers, e.ordinal = n + 1
    PROVE  Numbered(answers \cup {e}, n + 1)
<1>1. Cardinality(answers \cup {e}) = n + 1
  BY FS_AddElement DEF Numbered
<1>2. {x.ordinal : x \in answers \cup {e}} = {x.ordinal : x \in answers} \cup {n + 1}
  OBVIOUS
<1>3. 1..(n + 1) = 1..n \cup {n + 1}
  OBVIOUS
<1> QED BY <1>1, <1>2, <1>3 DEF Numbered

LEMMA SubmitCommits ==
    ASSUME IndInv, StoreInv, NEW c, NEW k, SubmitHeld(c, k),
           ~Recorded(c), ~RollsBack(c), ~EventExists(c), Commit(c)
    PROVE  Advances /\ StoreInv'
<1> DEFINE t == c.session
<1>1. PICK old : Continues(old, k, c) /\ IsPast(old, t)
  BY DEF SubmitHeld
<1>2. c.key = RecordKey(t, k) /\ t \in Transfers /\ t \in TransferIds
  BY <1>1 DEF SubmitHeld, IsPast, Transfers
<1>3. sessions[t] = old
  BY <1>1, <1>2, SubmitUnmoved
<1>4. /\ IsTransferRow(old) /\ old.stage = "working" /\ k \notin DOMAIN old.operations
      /\ IsTransferRow(c.snapshot) /\ SameQuest(c.snapshot, old)
      /\ c.snapshot.attempts = old.attempts + 1
      /\ c.snapshot.revealed = old.revealed
      /\ DOMAIN c.snapshot.operations = DOMAIN old.operations \cup {k}
  BY <1>1 DEF Continues
<1>5. PICK e, f :
        /\ c.events = {e, f}
        /\ Of(e, t, "transfer_submitted") /\ e.ordinal = c.snapshot.attempts
        /\ Of(f, t, "transfer_scored")
        /\ c.snapshot.stage = "verified" <=> f.outcome = "CORRECT"
        /\ f.score = "correct" => f.outcome = "CORRECT"
  BY <1>1 DEF Continues
<1> HIDE DEF t
<1>6. IsTransferCommand(c, t, k)
  <2>1. IsFiniteSet({e, f})
    BY FS_Singleton, FS_AddElement, IsFiniteSet({e} \cup {f}), {e, f} = {e} \cup {f}
  <2> QED BY <1>2, <1>4, <1>5, <2>1 DEF IsTransferCommand, Of, IsReceipt, t
<1>7. /\ DOMAIN sessions' = DOMAIN sessions \cup {t} /\ sessions'[t] = c.snapshot
      /\ \A u \in DOMAIN sessions \ {t} : sessions'[u] = sessions[u]
      /\ events' = events \cup {e, f}
  BY <1>2, <1>5, CommitWrites DEF t
<1>8. Advances
  BY <1>3, <1>4, <1>7, AdvancesBut
<1>9. e \notin events
  BY <1>5 DEF EventExists
<1>10. Matches(t)
  BY <1>2 DEF StoreInv
<1>11. \A x \in EventsOf(t, "transfer_scored") : x.outcome # "CORRECT"
  BY <1>3, <1>4, <1>10 DEF Matches
<1>12. OneVerdict'
  <2>1. \A x \in events : IsVerdict(x) => x.session # t
    BY <1>11 DEF IsVerdict, EventsOf
  <2>2. f.session = t /\ ~IsVerdict(e)
    BY <1>5 DEF Of, IsVerdict
  <2> QED BY <1>7, <2>1, <2>2 DEF StoreInv, OneVerdict, IsVerdict
<1>13. /\ EventsOf(t, "transfer_submitted")' = EventsOf(t, "transfer_submitted") \cup {e}
       /\ EventsOf(t, "transfer_scored")' = EventsOf(t, "transfer_scored") \cup {f}
       /\ EventsOf(t, "connection_revealed")' = EventsOf(t, "connection_revealed")
       /\ EventsOf(t, "transfer_started")' = EventsOf(t, "transfer_started")
  BY <1>5, <1>7 DEF EventsOf, Of
<1>14. Numbered(EventsOf(t, "transfer_submitted") \cup {e}, old.attempts + 1)
  <2>1. IsFiniteSet(EventsOf(t, "transfer_submitted"))
    BY FS_Subset DEF StoreInv, EvidenceNamed, EventsOf
  <2>2. old.attempts \in Nat
    BY <1>4 DEF IsTransferRow, TransferRow
  <2>3. Numbered(EventsOf(t, "transfer_submitted"), old.attempts)
    BY <1>3, <1>10 DEF Matches
  <2>4. e \notin EventsOf(t, "transfer_submitted")
    BY <1>9 DEF EventsOf
  <2> QED BY <1>4, <1>5, <2>1, <2>2, <2>3, <2>4, NumberedNext
<1>15. Matches(t)'
  <2>1. sessions'[t].stage = "verified" <=>
           \E x \in EventsOf(t, "transfer_scored") \cup {f} : x.outcome = "CORRECT"
    BY <1>5, <1>7, <1>11
  <2>2. sessions'[t].revealed <=> EventsOf(t, "connection_revealed") # {}
    BY <1>3, <1>4, <1>7, <1>10 DEF Matches
  <2>3. Cardinality(EventsOf(t, "transfer_started")) = 1
    BY <1>10 DEF Matches
  <2> QED BY <1>4, <1>7, <1>13, <1>14, <2>1, <2>2, <2>3 DEF Matches
<1>16. /\ t[3] \in DOMAIN c.snapshot.operations
       /\ \A j \in DOMAIN c.snapshot.operations : j = k \/ RecordKey(t, j) \in DOMAIN idempotency
  BY <1>2, <1>3, <1>4 DEF StoreInv, LedgersRecorded
<1> QED BY <1>6, <1>8, <1>12, <1>15, <1>16, CommitKeeps

LEMMA RevealCommits ==
    ASSUME IndInv, StoreInv, NEW c, NEW k, RevealHeld(c, k), Commit(c)
    PROVE  Advances /\ StoreInv'
<1> DEFINE t == c.session
<1>1. c.key = RecordKey(t, k) /\ t \in Transfers /\ t \in TransferIds
  BY DEF RevealHeld, Transfers
<1>2. PICK old : /\ IsTransferRow(old) /\ old.stage = "verified"
                 /\ c.snapshot = Revealed(old)
                 /\ sessions[t] \in {old, Revealed(old)}
  BY DEF RevealHeld
<1>3. PICK e : c.events = {e} /\ Of(e, t, "connection_revealed")
  BY DEF RevealHeld
<1> DEFINE row == sessions[t]
           next == c.snapshot
<1>4. /\ next = Revealed(row) /\ SameQuest(next, row) /\ IsTransferRow(next)
      /\ row.stage = "verified" /\ next.stage = "verified"
      /\ next.attempts = row.attempts /\ next.operations = row.operations
      /\ next.revealed = TRUE
  <2>1. /\ IsTransferRow(row) /\ row.stage = "verified" /\ next = Revealed(row)
    BY <1>2, RevealedFields, RevealedType
  <2> HIDE DEF row, next
  <2> QED BY <2>1, RevealedFields, RevealedType
<1> HIDE DEF t, row, next
<1>5. IsTransferCommand(c, t, k)
  <2>1. IsFiniteSet({e})
    BY FS_Singleton
  <2> QED BY <1>1, <1>3, <1>4, <2>1 DEF IsTransferCommand, Of, IsReceipt, t, next
<1>6. /\ DOMAIN sessions' = DOMAIN sessions \cup {t} /\ sessions'[t] = next
      /\ \A u \in DOMAIN sessions \ {t} : sessions'[u] = sessions[u]
      /\ events' = events \cup {e}
  BY <1>1, <1>3, CommitWrites DEF t, next
<1>7. Advances
  BY <1>4, <1>6, AdvancesBut DEF row
<1>8. OneVerdict'
  BY <1>3, <1>6, VerdictsStay DEF StoreInv, IsVerdict, Of
<1>9. /\ EventsOf(t, "transfer_submitted")' = EventsOf(t, "transfer_submitted")
      /\ EventsOf(t, "transfer_scored")' = EventsOf(t, "transfer_scored")
      /\ EventsOf(t, "connection_revealed")' = EventsOf(t, "connection_revealed") \cup {e}
      /\ EventsOf(t, "transfer_started")' = EventsOf(t, "transfer_started")
  BY <1>3, <1>6 DEF EventsOf, Of
<1>10. Matches(t)
  BY <1>1 DEF StoreInv
<1>11. Matches(t)'
  <2>1. sessions'[t].revealed <=> EventsOf(t, "connection_revealed") \cup {e} # {}
    BY <1>4, <1>6
  <2>2. /\ Numbered(EventsOf(t, "transfer_submitted"), next.attempts)
        /\ Cardinality(EventsOf(t, "transfer_started")) = 1
    BY <1>4, <1>10 DEF Matches, row
  <2>3. next.stage = "verified" <=>
           \E x \in EventsOf(t, "transfer_scored") : x.outcome = "CORRECT"
    BY <1>4, <1>10 DEF Matches, row
  <2> QED BY <1>6, <1>9, <2>1, <2>2, <2>3 DEF Matches
<1>12. /\ t[3] \in DOMAIN next.operations
       /\ \A j \in DOMAIN next.operations : j = k \/ RecordKey(t, j) \in DOMAIN idempotency
  BY <1>1, <1>4 DEF StoreInv, LedgersRecorded, row
<1> QED BY <1>5, <1>7, <1>8, <1>11, <1>12, CommitKeeps DEF next
\* StoreInv stays when the transfers do and no evidence of theirs is added.
LEMMA StoreKeeps ==
    ASSUME IndInv, StoreInv, Advances, NEW new,
           DOMAIN sessions \subseteq DOMAIN sessions', Transfers' = Transfers,
           \A t \in Transfers : sessions'[t] = sessions[t],
           events' = events \cup new, IsFiniteSet(new),
           \A e \in new :
              /\ e.session \in DOMAIN sessions' /\ e.type \in {"practice_scored",
                                                         "capability_receipt_issued"}
              /\ ~IsReceipt(e) => \E k, n : e.id = <<e.session, k, n>>
              /\ IsReceipt(e) => Earned(e),
           DOMAIN idempotency \subseteq DOMAIN idempotency', RecordsKept'
    PROVE  StoreInv'
<1>1. EvidenceNamed'
  <2>1. IsFiniteSet(events')
    BY FS_Union DEF StoreInv, EvidenceNamed
  <2> QED BY <2>1 DEF StoreInv, EvidenceNamed, IsReceipt
<1>2. OneVerdict'
  BY VerdictsStay DEF StoreInv, IsVerdict
<1>3. ASSUME NEW t \in Transfers' PROVE Matches(t)'
  <2>1. \A type \in {"transfer_submitted", "transfer_scored", "connection_revealed",
                     "transfer_started"} : EventsOf(t, type)' = EventsOf(t, type)
    BY DEF EventsOf
  <2> QED BY <2>1, MatchesStays DEF StoreInv
<1>4. ASSUME NEW e \in Receipts' PROVE Earned(e)'
  <2>1. Earned(e)
    BY DEF Receipts, IsReceipt, StoreInv
  <2> QED BY <2>1, EarnedStays
<1>5. LedgersRecorded'
  BY DEF StoreInv, LedgersRecorded, RecordKey
<1> QED BY <1>1, <1>2, <1>3, <1>4, <1>5 DEF StoreInv

\* Nothing but the actors' sessions is written.
LEMMA StoreUnmoved ==
    ASSUME IndInv, StoreInv, UNCHANGED <<events, sessions, idempotency>>
    PROVE  Advances /\ StoreInv'
<1>1. Advances
  BY UnmovedAdvances
<1>2. Transfers' = Transfers /\ events' = events \cup {} /\ IsFiniteSet({})
  BY FS_EmptySet DEF Transfers
<1>3. RecordsKept'
  BY DEF StoreInv, RecordsKept
<1> QED BY <1>1, <1>2, <1>3, StoreKeeps

LEMMA OpenPracticeKeeps ==
    ASSUME IndInv, StoreInv, NEW q \in Practices, OpenPractice(q)
    PROVE  Advances /\ StoreInv'
<1>1. /\ DOMAIN sessions' = DOMAIN sessions \cup {q}
      /\ \A s \in DOMAIN sessions : sessions'[s] = sessions[s]
      /\ events' = events \cup {} /\ idempotency' = idempotency
  BY DEF OpenPractice, Upsert
<1>2. Transfers' = Transfers /\ \A t \in Transfers : sessions'[t] = sessions[t]
  BY <1>1, TransferIdsApart DEF Transfers
<1>3. Advances
  BY <1>1, <1>2 DEF Advances, SameQuest, Transfers
<1>4. RecordsKept'
  BY <1>1 DEF StoreInv, RecordsKept
<1>5. IsFiniteSet({})
  BY FS_EmptySet
<1> QED BY <1>1, <1>2, <1>3, <1>4, <1>5, StoreKeeps

LEMMA SolvePracticeKeeps ==
    ASSUME IndInv, StoreInv, NEW q \in Practices, SolvePractice(q)
    PROVE  Advances /\ StoreInv'
<1> DEFINE e == Event(q, <<"practice", "submit">>, 1, OwnerOf[q], "practice_scored", 0,
                      IF PairOf[q] \in WrittenPractices THEN "invalid" ELSE "correct",
                      "CORRECT")
<1>1. /\ DOMAIN sessions' = DOMAIN sessions /\ q \in DOMAIN sessions
      /\ \A s \in DOMAIN sessions \ {q} : sessions'[s] = sessions[s]
      /\ events' = events \cup {e} /\ idempotency' = idempotency
  BY DEF SolvePractice
<1>2. Transfers' = Transfers /\ \A t \in Transfers : sessions'[t] = sessions[t]
  BY <1>1, TransferIdsApart DEF Transfers
<1>3. /\ e.session = q /\ e.type = "practice_scored" /\ ~IsReceipt(e)
      /\ \E k, n : e.id = <<e.session, k, n>>
  BY DEF Event, IsReceipt
<1> HIDE DEF e
<1>4. Advances
  BY <1>1, <1>2 DEF Advances, SameQuest, Transfers
<1>5. RecordsKept'
  BY <1>1 DEF StoreInv, RecordsKept
<1>6. IsFiniteSet({e})
  BY FS_Singleton
<1> QED BY <1>1, <1>2, <1>3, <1>4, <1>5, <1>6, StoreKeeps

LEMMA IssueCommits ==
    ASSUME IndInv, StoreInv, NEW c, NEW t, NEW k, NEW a, IssueHeld(c, t, k, a), Commit(c)
    PROVE  Advances /\ StoreInv'
<1>1. PICK e : /\ c.events = {e} /\ IsReceipt(e) /\ Earned(e) /\ e.session = t
  BY DEF IssueHeld
<1>2. /\ sessions' = sessions /\ events' = events \cup {e}
      /\ DOMAIN idempotency' = DOMAIN idempotency \cup {IssueKey(t, k)}
      /\ \A j \in DOMAIN idempotency' : idempotency'[j].events \subseteq
            IF j = IssueKey(t, k) THEN {e} ELSE idempotency[j].events
  BY <1>1 DEF Commit, IssueHeld, Upsert, Fingerprint
<1>3. Advances
  BY <1>2, UnmovedAdvances
<1>4. Transfers' = Transfers /\ t \in DOMAIN sessions
  BY <1>1, <1>2 DEF Transfers, Earned
<1>5. RecordsKept'
  <2>1. \A j \in DOMAIN idempotency' : idempotency'[j].events \subseteq events'
    BY <1>2 DEF StoreInv, RecordsKept
  <2>2. ASSUME NEW u \in TransferIds, NEW j \in Keys, IssueKey(u, j) \in DOMAIN idempotency'
        PROVE  \E x \in events' : IsReceipt(x) /\ x.session = u
    <3>1. CASE IssueKey(u, j) = IssueKey(t, k)
      BY <1>1, <1>2, <3>1 DEF IssueKey
    <3>2. CASE IssueKey(u, j) \in DOMAIN idempotency
      BY <1>2, <3>2 DEF StoreInv, RecordsKept
    <3> QED BY <1>2, <2>2, <3>1, <3>2
  <2> QED BY <2>1, <2>2 DEF RecordsKept, IssueKey
<1>6. IsFiniteSet({e})
  BY FS_Singleton
<1> QED BY <1>1, <1>2, <1>3, <1>4, <1>5, <1>6, StoreKeeps DEF IsReceipt

\* Whatever a handler holds, its commit keeps the tables.
LEMMA HeldCommits ==
    ASSUME IndInv, StoreInv, NEW r \in Requests, NEW c, HeldBy(r, c), MayCommit(c), Commit(c)
    PROVE  Advances /\ StoreInv'
<1>1. ~Recorded(c) /\ ~RollsBack(c) /\ ~EventExists(c)
  BY DEF MayCommit, Admitted
<1>2. CASE Starts(r)
  BY <1>1, <1>2, StartCommits DEF HeldBy
<1>3. CASE r.op = "submit"
  BY <1>1, <1>3, SubmitCommits DEF HeldBy
<1>4. CASE r.op = "reveal"
  BY <1>4, RevealCommits DEF HeldBy
<1>5. CASE Issues(r)
  BY <1>5, IssueCommits DEF HeldBy
<1> QED BY <1>2, <1>3, <1>4, <1>5, RequestFields DEF Starts, Issues

-----------------------------------------------------------------------------
(* Names of receipts. *)

\* An earned receipt cites a score of the session it is of.
LEMMA EarnedCites ==
    ASSUME EvidenceNamed, NEW e, Earned(e)
    PROVE  \E k, n : e.sources[2] = <<e.session, k, n>>
<1>1. PICK s \in CorrectScores("transfer_scored", e.session, e.actor) : e.sources[2] = s.id
  BY DEF Earned
<1>2. s \in events /\ s.session = e.session /\ ~IsReceipt(s)
  BY DEF CorrectScores, IsReceipt
<1> QED BY <1>1, <1>2 DEF EvidenceNamed

\* What has the name of an earned receipt is a receipt of the same transfer.
LEMMA SameNameSameTransfer ==
    ASSUME IndInv, StoreInv, NEW e, Earned(e), IsNamed(e), NEW x \in events, x.id = e.id
    PROVE  IsReceipt(x) /\ x.session = e.session /\ x.actor = e.actor
<1>1. IsReceipt(x)
  BY NamesApart DEF StoreInv, EvidenceNamed, IsNamed
<1>2. Earned(x) /\ IsNamed(x)
  BY <1>1 DEF StoreInv, Receipts, IsReceipt, IndInv, EventTable
<1>3. x.sources[2] = e.sources[2]
  BY <1>2 DEF IsNamed
<1>4. x.session = e.session
  BY <1>2, <1>3, EarnedCites DEF StoreInv
<1> QED BY <1>1, <1>2, <1>4 DEF Earned

\* Two earned receipts of one transfer have one name.
LEMMA SameTransferSameName ==
    ASSUME IndInv, StoreInv, NEW e, NEW x, Earned(e), Earned(x), IsNamed(e), IsNamed(x),
           x.session = e.session
    PROVE  x.id = e.id
<1>1. PICK s \in CorrectScores("transfer_scored", e.session, e.actor) : e.sources[2] = s.id
  BY DEF Earned
<1>2. PICK y \in CorrectScores("transfer_scored", x.session, x.actor) : x.sources[2] = y.id
  BY DEF Earned
<1>3. IsVerdict(s) /\ IsVerdict(y)
  BY CorrectIsVerified DEF Earned
<1>4. s = y
  BY <1>3 DEF CorrectScores, StoreInv, OneVerdict
<1> QED BY <1>1, <1>2, <1>4 DEF IsNamed
-----------------------------------------------------------------------------
(* The steps of the handlers. *)

LEMMA HandlersUnmoved ==
    ASSUME IndInv, HandlersInv, Advances, UNCHANGED questHandlerVars
    PROVE  HandlersInv'
<1>1. ASSUME NEW h \in Handlers PROVE HeldAt(h)'
  BY HeldAtStays DEF HandlersInv, questHandlerVars
<1> QED BY <1>1 DEF HandlersInv, questHandlerVars

\* One handler moves and has there what it should; the others keep theirs.
LEMMA OneMoves ==
    ASSUME IndInv, HandlersInv, Advances, NEW h \in Handlers, HeldAt(h)', DOMAIN reply' = Handlers,
           \A g \in Handlers \ {h} :
               /\ pc'[g] = pc[g] /\ request'[g] = request[g]
               /\ command'[g] = command[g] /\ reply'[g] = reply[g]
    PROVE  HandlersInv'
<1>1. ASSUME NEW g \in Handlers PROVE HeldAt(g)'
  BY HeldAtStays DEF HandlersInv
<1> QED BY <1>1 DEF HandlersInv

LEMMA FinishKeeps ==
    ASSUME IndInv, HandlersInv, Advances, NEW h \in Handlers, NEW code, Finish(h, code),
           NEW r, r = request[h], Issues(r) => IsAnswered(Answer(code, r))'
    PROVE  HandlersInv'
<1> DEFINE a == Answer(code, r)
<1>1. /\ pc'[h] = "idle" /\ reply'[h] = a /\ DOMAIN reply' = Handlers
      /\ \A g \in Handlers \ {h} :
            /\ pc'[g] = pc[g] /\ request'[g] = request[g]
            /\ command'[g] = command[g] /\ reply'[g] = reply[g]
  BY DEF Finish, HandlersInv, IndInv, Places
<1>2. Issues(a) => Issues(r)
  BY DEF Issues, Answer
<1>3. Issues(a) => IsAnswered(a)'
  BY <1>2
<1> HIDE DEF a
<1>4. Issues(reply[h])' => IsAnswered(reply[h])'
  BY <1>1, <1>3 DEF IsAnswered, Issues, Receipts
<1>5. HeldAt(h)'
  BY <1>1, <1>4 DEF HeldAt
<1> QED BY <1>1, <1>5, OneMoves

LEMMA ReplyKeeps ==
    ASSUME IndInv, StoreInv, HandlersInv, NEW h \in Handlers, NEW code, Reply(h, code),
           NEW r, r = request[h], Issues(r) => IsAnswered(Answer(code, r))
    PROVE  Advances /\ StoreInv' /\ HandlersInv'
<1>1. Finish(h, code) /\ UNCHANGED <<events, sessions, idempotency>>
  BY DEF Reply, storeVars
<1>2. Advances /\ StoreInv'
  BY <1>1, StoreUnmoved
<1>3. Issues(r) => IsAnswered(Answer(code, r))'
  BY <1>1 DEF IsAnswered, Receipts, Answer
<1> QED BY <1>1, <1>2, <1>3, FinishKeeps

\* A handler goes on to a place where nothing is held yet.
LEMMA ProceedKeeps ==
    ASSUME IndInv, StoreInv, HandlersInv, NEW h \in Handlers, NEW to, Proceed(h, to),
           to \in {"missed", "chosen", "exposed"}, UNCHANGED command
    PROVE  Advances /\ StoreInv' /\ HandlersInv'
<1>1. /\ UNCHANGED <<events, sessions, idempotency>> /\ pc'[h] = to /\ DOMAIN reply' = Handlers
      /\ \A g \in Handlers \ {h} :
            /\ pc'[g] = pc[g] /\ request'[g] = request[g]
            /\ command'[g] = command[g] /\ reply'[g] = reply[g]
  BY DEF Proceed, storeVars, HandlersInv, IndInv, Places
<1>2. Advances /\ StoreInv'
  BY <1>1, StoreUnmoved
<1>3. HeldAt(h)'
  BY <1>1 DEF HeldAt
<1> QED BY <1>1, <1>2, <1>3, OneMoves

LEMMA PrepareKeeps ==
    ASSUME IndInv, StoreInv, HandlersInv, NEW h \in Handlers, NEW c, Prepare(h, c),
           HeldBy(request[h], c)
    PROVE  Advances /\ StoreInv' /\ HandlersInv'
<1>1. /\ UNCHANGED <<events, sessions, idempotency>> /\ DOMAIN reply' = Handlers
      /\ pc'[h] = "prepared" /\ request'[h] = request[h] /\ command'[h] = c
      /\ \A g \in Handlers \ {h} :
            /\ pc'[g] = pc[g] /\ request'[g] = request[g]
            /\ command'[g] = command[g] /\ reply'[g] = reply[g]
  BY DEF Prepare, Proceed, storeVars, HandlersInv, IndInv, Places
<1>2. Advances /\ StoreInv'
  BY <1>1, StoreUnmoved
<1>3. \A x : HeldBy(x, c) => HeldBy(x, c)'
  BY <1>2, HeldStays
<1>4. HeldAt(h)'
  BY <1>1, <1>3 DEF HeldAt
<1> QED BY <1>1, <1>2, <1>4, OneMoves

\* The invariant without the part TransferProofs keeps.
Kept == Advances /\ StoreInv' /\ HandlersInv'

LEMMA ReceiveKeeps ==
    ASSUME IndInv, StoreInv, HandlersInv, NEW h \in Handlers, NEW r \in Requests, Receive(h, r)
    PROVE  Kept
<1>1. /\ UNCHANGED <<events, sessions, idempotency>> /\ pc'[h] = "verified"
      /\ DOMAIN reply' = Handlers
      /\ \A g \in Handlers \ {h} :
            /\ pc'[g] = pc[g] /\ request'[g] = request[g]
            /\ command'[g] = command[g] /\ reply'[g] = reply[g]
  BY DEF Receive, storeVars, HandlersInv, IndInv, Places
<1>2. Advances /\ StoreInv'
  BY <1>1, StoreUnmoved
<1>3. HeldAt(h)'
  BY <1>1 DEF HeldAt
<1> QED BY <1>1, <1>2, <1>3, OneMoves DEF Kept

LEMMA DieKeeps ==
    ASSUME IndInv, StoreInv, HandlersInv, NEW h \in Handlers, Die(h)
    PROVE  Kept
<1>1. /\ UNCHANGED <<events, sessions, idempotency>> /\ pc'[h] = "idle" /\ reply'[h] = None
      /\ DOMAIN reply' = Handlers
      /\ \A g \in Handlers \ {h} :
            /\ pc'[g] = pc[g] /\ request'[g] = request[g]
            /\ command'[g] = command[g] /\ reply'[g] = reply[g]
  BY DEF Die, storeVars, HandlersInv, IndInv, Places
<1>2. Advances /\ StoreInv'
  BY <1>1, StoreUnmoved
<1>3. HeldAt(h)'
  BY <1>1 DEF HeldAt
<1> QED BY <1>1, <1>2, <1>3, OneMoves DEF Kept

\* An operation of one kind is not of another.
LEMMA OpsApart ==
    \A r : /\ Starts(r) => ~Issues(r) /\ r.op \notin {"submit", "reveal"}
           /\ r.op \in {"submit", "reveal"} => ~Starts(r) /\ ~Issues(r)
           /\ r.op = "submit" => r.op # "reveal"
           /\ Issues(r) => ~Starts(r) /\ r.op \notin {"submit", "reveal"}
BY DEF Starts, Issues

LEMMA ServeStartKeeps ==
    ASSUME IndInv, StoreInv, HandlersInv, NEW h \in Handlers, ServeStart(h)
    PROVE  Kept
<1> DEFINE r == request[h]
<1>1. Starts(r) /\ ~Issues(r)
  BY OpsApart DEF ServeStart, ResumeStart, ChoosePair, RecordExposure, LoadStart, IndInv,
                  Pending, PendingAt
<1>2. CASE \E code : Reply(h, code)
  BY <1>1, <1>2, ReplyKeeps DEF Kept
<1>3. CASE \E to \in {"missed", "chosen", "exposed"} : Proceed(h, to) /\ UNCHANGED command
  BY <1>3, ProceedKeeps DEF Kept
<1>4. CASE pc[h] = "exposed" /\ Prepare(h, StartCommand(r, reserved[h]))
  <2>1. /\ r \in Requests
        /\ r.op = "retry" => r.target \in DOMAIN sessions
        /\ reserved[h] \in Pairs /\ SessionTable
    BY <1>4 DEF IndInv, Pending, PendingAt
  <2>2. StartHeld(StartCommand(r, reserved[h]))
    BY <1>1, <2>1, StartIsHeld
  <2>3. HeldBy(r, StartCommand(r, reserved[h]))
    BY <1>1, <2>2, OpsApart DEF HeldBy
  <2> QED BY <1>4, <2>3, PrepareKeeps DEF Kept
<1>5. ResumeStart(h) =>
        \/ \E code : Reply(h, code)
        \/ \E to \in {"missed", "chosen", "exposed"} : Proceed(h, to) /\ UNCHANGED command
  BY DEF ResumeStart
<1>6. ChoosePair(h) \/ RecordExposure(h) =>
        \/ \E code : Reply(h, code)
        \/ \E to \in {"missed", "chosen", "exposed"} : Proceed(h, to) /\ UNCHANGED command
  BY DEF ChoosePair, RecordExposure
<1>7. LoadStart(h) =>
        \/ \E code : Reply(h, code)
        \/ pc[h] = "exposed" /\ Prepare(h, StartCommand(r, reserved[h]))
  BY DEF LoadStart
<1> QED BY <1>2, <1>3, <1>4, <1>5, <1>6, <1>7 DEF ServeStart

LEMMA LoadCommandKeeps ==
    ASSUME IndInv, StoreInv, HandlersInv, NEW h \in Handlers, LoadCommand(h)
    PROVE  Kept
<1> DEFINE r == request[h]
<1>1. r \in Requests /\ r.op \in {"submit", "reveal"} /\ SessionTable
  BY DEF IndInv, Pending, PendingAt, LoadCommand
<1>2. ~Issues(r) /\ ~Starts(r)
  BY <1>1, OpsApart
<1>3. CASE \E code : Reply(h, code)
  BY <1>2, <1>3, ReplyKeeps DEF Kept
<1>4. CASE /\ CommandRefusal(r) = "none" /\ ~Repeated(r) /\ r.op = "reveal"
           /\ Prepare(h, RevealCommand(r))
  <2>1. RevealHeld(RevealCommand(r), CommandKey(r))
    BY <1>1, <1>4, RevealIsHeld
  <2>2. HeldBy(r, RevealCommand(r))
    BY <1>2, <1>4, <2>1, OpsApart DEF HeldBy
  <2> QED BY <1>4, <2>2, PrepareKeeps DEF Kept
<1>5. ASSUME CommandRefusal(r) = "none", ~Repeated(r), r.op = "submit", NEW score, NEW outcome,
             score = "correct" => outcome = "CORRECT", Prepare(h, SubmitCommand(r, score, outcome))
      PROVE  Kept
  <2>1. SubmitHeld(SubmitCommand(r, score, outcome), CommandKey(r))
    BY <1>1, <1>5, SubmitIsHeld
  <2>2. HeldBy(r, SubmitCommand(r, score, outcome))
    BY <1>2, <1>5, <2>1, OpsApart DEF HeldBy
  <2> QED BY <1>5, <2>2, PrepareKeeps DEF Kept
<1>6. CASE /\ CommandRefusal(r) = "none" /\ ~Repeated(r) /\ r.op = "submit"
           /\ \E outcome \in GradingOutcome : Prepare(h, SubmitCommand(r, "invalid", outcome))
  BY <1>5, <1>6
<1>7. CASE /\ CommandRefusal(r) = "none" /\ ~Repeated(r) /\ r.op = "submit"
           /\ Prepare(h, SubmitCommand(r, r.arg, DeterministicOutcome(r.arg)))
  <2>1. r.arg = "correct" => DeterministicOutcome(r.arg) = "CORRECT"
    BY DEF DeterministicOutcome
  <2> QED BY <1>5, <1>7, <2>1
<1> QED BY <1>3, <1>4, <1>6, <1>7 DEF LoadCommand
\* A receipt that cites the qualifying score of a transfer is of that transfer.
LEMMA PriorAnswers ==
    ASSUME IndInv, StoreInv, NEW t, NEW a, CorrectScores("transfer_scored", t, a) # {},
           NEW x \in ReceiptsFor(QualifyingScore("transfer_scored", t, a), a)
    PROVE  x \in Receipts /\ x.actor = a /\ x.session = t
<1> DEFINE s == QualifyingScore("transfer_scored", t, a)
<1>1. s \in CorrectScores("transfer_scored", t, a)
  BY QualifyingScoreIsCorrect
<1>2. x \in Receipts /\ x.actor = a /\ x.sources[2] = s.id
  BY DEF ReceiptsFor
<1> HIDE DEF s
<1>3. \E k, n : s.id = <<t, k, n>>
  BY <1>1 DEF CorrectScores, StoreInv, EvidenceNamed, IsReceipt
<1>4. \E k, n : x.sources[2] = <<x.session, k, n>>
  BY <1>2, EarnedCites DEF StoreInv
<1> QED BY <1>2, <1>3, <1>4

LEMMA LoadIssueKeeps ==
    ASSUME IndInv, StoreInv, HandlersInv, NEW h \in Handlers, LoadIssue(h)
    PROVE  Kept
<1> DEFINE r == request[h]
           score == QualifyingScore("transfer_scored", r.target, r.actor)
           prior == ReceiptsFor(score, r.actor)
           eligible == Qualifies(r.target, PracticeOf(r), r.actor)
<1>1. r \in Requests /\ Issues(r)
  BY DEF IndInv, Pending, PendingAt, LoadIssue
<1>2. CASE \E code \in {"SESSION_NOT_FOUND", "ACTOR_MISMATCH", "NOT_ELIGIBLE"} : Reply(h, code)
  <2>1. PICK code \in {"SESSION_NOT_FOUND", "ACTOR_MISMATCH", "NOT_ELIGIBLE"} : Reply(h, code)
    BY <1>2
  <2>2. IsAnswered(Answer(code, r))
    BY DEF IsAnswered, Answer
  <2> QED BY <2>1, <2>2, ReplyKeeps DEF Kept
<1>3. CASE eligible /\ prior # {} /\ Reply(h, "replayed")
  <2>1. PICK x : x \in prior
    BY <1>3
  <2>2. x \in Receipts /\ x.actor = r.actor /\ x.session = r.target
    BY <1>3, <2>1, PriorAnswers DEF Qualifies
  <2> HIDE DEF r
  <2>3. IsAnswered(Answer("replayed", r))
    BY <2>2 DEF IsAnswered, Answer
  <2> QED BY <1>3, <2>3, ReplyKeeps DEF Kept, r
<1>4. CASE eligible /\ Prepare(h, IssueCommand(r))
  <2>1. IssueHeld(IssueCommand(r), r.target, r.key, r.actor)
    BY <1>1, <1>4, IssueIsHeld
  <2>2. HeldBy(r, IssueCommand(r))
    BY <1>1, <2>1, OpsApart DEF HeldBy
  <2> QED BY <1>4, <2>2, PrepareKeeps DEF Kept
<1>5. LoadRefusal(r) # "none" => LoadRefusal(r) \in {"SESSION_NOT_FOUND", "ACTOR_MISMATCH"}
  BY DEF LoadRefusal
<1> QED BY <1>2, <1>3, <1>4, <1>5 DEF LoadIssue

\* An issue whose key is recorded, or whose receipt's name is taken, finds the receipt.
LEMMA IssueFinds ==
    ASSUME IndInv, StoreInv, NEW r \in Requests, NEW c,
           IssueHeld(c, r.target, r.key, r.actor), Recorded(c)
    PROVE  EventExists(c)
<1>1. PICK e : /\ c.events = {e} /\ IsReceipt(e) /\ IsNamed(e) /\ Earned(e)
               /\ e.session = r.target
  BY DEF IssueHeld
<1>2. r.target \in TransferIds /\ r.key \in Keys
  BY <1>1, RequestFields DEF Earned, Transfers
<1>3. PICK x \in events : IsReceipt(x) /\ x.session = r.target
  BY <1>2 DEF Recorded, IssueHeld, StoreInv, RecordsKept
<1>4. Earned(x) /\ IsNamed(x)
  BY <1>3 DEF StoreInv, Receipts, IsReceipt, IndInv, EventTable
<1>5. x.id = e.id
  BY <1>1, <1>3, <1>4, SameTransferSameName
<1> QED BY <1>1, <1>3, <1>5 DEF EventExists

LEMMA FoundAnswers ==
    ASSUME IndInv, StoreInv, NEW r, NEW c, NEW code,
           IssueHeld(c, r.target, r.key, r.actor), EventExists(c),
           code \notin {"EVENT_EXISTS", "KEY_REUSED"}
    PROVE  IsAnswered(Answer(code, r))
<1>1. PICK e : /\ c.events = {e} /\ IsReceipt(e) /\ IsNamed(e) /\ Earned(e)
               /\ e.session = r.target /\ e.actor = r.actor
  BY DEF IssueHeld
<1>2. PICK x \in events : x.id = e.id
  BY <1>1 DEF EventExists
<1>3. IsReceipt(x) /\ x.session = r.target /\ x.actor = r.actor
  BY <1>1, <1>2, SameNameSameTransfer
<1> QED BY <1>3 DEF IsAnswered, Answer, Receipts, IsReceipt

LEMMA AppendCommitsKeeps ==
    ASSUME IndInv, StoreInv, HandlersInv, NEW h \in Handlers, AppendCommits(h)
    PROVE  Kept
<1> DEFINE r == request[h]
           c == command[h]
<1>1. /\ r \in Requests /\ HeldBy(r, c)
      /\ MayCommit(c) /\ Commit(c) /\ Finish(h, "ok")
  BY DEF IndInv, Pending, PendingAt, HandlersInv, HeldAt, AppendCommits
<1>2. Advances /\ StoreInv'
  BY <1>1, HeldCommits
<1>3. ASSUME Issues(r)
      PROVE  \E e \in events' : IsReceipt(e) /\ e.session = r.target /\ e.actor = r.actor
  BY <1>1, <1>3 DEF HeldBy, IssueHeld, Commit
<1>4. ASSUME NEW x, x = r PROVE Issues(x) => IsAnswered(Answer("ok", x))'
  BY <1>3, <1>4 DEF IsAnswered, Answer, Receipts, IsReceipt
<1> QED BY <1>1, <1>2, <1>4, FinishKeeps DEF Kept

LEMMA AppendReplaysKeeps ==
    ASSUME IndInv, StoreInv, HandlersInv, NEW h \in Handlers, AppendReplays(h)
    PROVE  Kept
<1> DEFINE r == request[h]
           c == command[h]
<1>1. r \in Requests /\ HeldBy(r, c) /\ MayReplay(c) /\ Reply(h, "ok")
  BY DEF IndInv, Pending, PendingAt, HandlersInv, HeldAt, AppendReplays
<1>2. Issues(r) => IsAnswered(Answer("ok", r))
  <2> SUFFICES ASSUME Issues(r) PROVE IsAnswered(Answer("ok", r))
    OBVIOUS
  <2>1. IssueHeld(c, r.target, r.key, r.actor) /\ Recorded(c)
    BY <1>1 DEF HeldBy, MayReplay
  <2>2. EventExists(c)
    BY <1>1, <2>1, IssueFinds
  <2> QED BY <2>1, <2>2, FoundAnswers
<1> QED BY <1>1, <1>2, ReplyKeeps DEF Kept

LEMMA AppendFailsKeeps ==
    ASSUME IndInv, StoreInv, HandlersInv, NEW h \in Handlers, AppendFails(h)
    PROVE  Kept
<1> DEFINE r == request[h]
           c == command[h]
<1>1. r \in Requests /\ HeldBy(r, c) /\ DOMAIN reply = Handlers /\ DOMAIN pc = Handlers
  BY DEF IndInv, Places, Pending, PendingAt, HandlersInv, HeldAt, AppendFails
<1>2. PICK code \in RefusalCode :
        /\ MayRefuse(c, code)
        /\ IF Issues(r)
           THEN /\ pc' = [pc EXCEPT ![h] = "failed"]
                /\ reply' = [reply EXCEPT ![h] = Answer(code, r)]
                /\ UNCHANGED <<storeVars, exposures, request, reserved, command>>
           ELSE Reply(h, code)
  BY DEF AppendFails
<1>3. CASE ~Issues(r)
  BY <1>2, <1>3, ReplyKeeps DEF Kept
<1>4. CASE Issues(r)
  <2>1. /\ UNCHANGED <<events, sessions, idempotency>> /\ DOMAIN reply' = Handlers
        /\ pc'[h] = "failed" /\ request'[h] = r /\ command'[h] = c
        /\ reply'[h] = Answer(code, r)
        /\ \A g \in Handlers \ {h} :
              /\ pc'[g] = pc[g] /\ request'[g] = request[g]
              /\ command'[g] = command[g] /\ reply'[g] = reply[g]
    BY <1>1, <1>2, <1>4 DEF storeVars
  <2>2. Advances /\ StoreInv'
    BY <2>1, StoreUnmoved
  <2>3. \A x, y : HeldBy(x, y) => HeldBy(x, y)'
    BY <2>2, HeldStays
  <2>4. code = "KEY_REUSED" => EventExists(c)
    <3>1. code = "KEY_REUSED" => Recorded(c)
      BY <1>2 DEF MayRefuse
    <3> QED BY <1>1, <1>4, <3>1, IssueFinds DEF HeldBy
  <2>5. code = "EVENT_EXISTS" => EventExists(c)
    BY <1>2 DEF MayRefuse
  <2>6. FailedOn(code, c)
    BY <2>4, <2>5 DEF FailedOn
  <2>7. reply'[h].code = code
    BY <2>1 DEF Answer
  <2>8. HeldAt(h)'
    BY <1>1, <1>4, <2>1, <2>3, <2>6, <2>7 DEF HeldAt, FailedOn, EventExists, Issues
  <2> QED BY <2>1, <2>2, <2>8, OneMoves DEF Kept
<1> QED BY <1>3, <1>4

LEMMA RelistKeeps ==
    ASSUME IndInv, StoreInv, HandlersInv, NEW h \in Handlers, Relist(h)
    PROVE  Kept
<1> DEFINE r == request[h]
           c == command[h]
           code == IF EventExists(c) THEN "replayed" ELSE reply[h].code
<1>1. /\ HeldBy(r, c) /\ Issues(r) /\ FailedOn(reply[h].code, c) /\ Reply(h, code)
  BY DEF HandlersInv, HeldAt, Relist
<1>2. IsAnswered(Answer(code, r))
  <2>1. CASE EventExists(c)
    BY <1>1, <2>1, FoundAnswers DEF HeldBy
  <2>2. CASE ~EventExists(c)
    BY <1>1, <2>2 DEF FailedOn, RefusalCode, IsAnswered, Answer
  <2> QED BY <2>1, <2>2
<1> QED BY <1>1, <1>2, ReplyKeeps DEF Kept

-----------------------------------------------------------------------------
(* Invariance. *)

LEMMA QuestInitEstablishes == QuestInit => QuestInv
<1> SUFFICES ASSUME QuestInit PROVE QuestInv
  OBVIOUS
<1>1. IndInv
  BY InitEstablishes
<1>2. StoreInv
  BY FS_EmptySet DEF QuestInit, StoreInv, EvidenceNamed, OneVerdict, Transfers, Receipts,
                     LedgersRecorded, RecordsKept, EmptyTable
<1>3. HandlersInv
  BY DEF QuestInit, HandlersInv, HeldAt
<1> QED BY <1>1, <1>2, <1>3 DEF QuestInv

LEMMA QuestStepKeeps ==
    ASSUME IndInv, StoreInv, HandlersInv, [QuestNext]_questVars
    PROVE  Kept
<1>1. CASE UNCHANGED questVars
  BY <1>1, StoreUnmoved, HandlersUnmoved DEF questVars, storeVars, Kept
<1>2. ASSUME NEW q \in Practices, OpenPractice(q) \/ SolvePractice(q) PROVE Kept
  <2>1. UNCHANGED questHandlerVars
    BY <1>2 DEF OpenPractice, SolvePractice
  <2> QED BY <1>2, <2>1, OpenPracticeKeeps, SolvePracticeKeeps, HandlersUnmoved DEF Kept
<1>3. ASSUME NEW a \in Actors, NEW t \in ActorSessions, SignIn(a, t) PROVE Kept
  BY <1>3, StoreUnmoved, HandlersUnmoved DEF SignIn, Kept
<1>4. ASSUME NEW h \in Handlers, NEW r \in Requests, Receive(h, r) PROVE Kept
  BY <1>4, ReceiveKeeps
<1>5. ASSUME NEW h \in Handlers,
             ServeStart(h) \/ LoadCommand(h) \/ LoadIssue(h) \/ Append(h) \/ Die(h)
      PROVE  Kept
  BY <1>5, ServeStartKeeps, LoadCommandKeeps, LoadIssueKeeps, AppendCommitsKeeps,
     AppendReplaysKeeps, AppendFailsKeeps, RelistKeeps, DieKeeps DEF Append
<1> QED BY <1>1, <1>2, <1>3, <1>4, <1>5 DEF QuestNext

LEMMA QuestInvariance == QuestSpec => []QuestInv
<1>1. QuestInv /\ [QuestNext]_questVars => QuestInv'
  BY NextPreserves, QuestStepKeeps DEF QuestInv, Kept
<1> QED BY <1>1, QuestInitEstablishes, PTL DEF QuestSpec

-----------------------------------------------------------------------------
(* The theorems. *)

\* Whatever starts, answers and reveals race, the snapshot of a transfer is what its
\* evidence says (transfer/service.ts, submit and revealConnection).
THEOREM TransfersMatchTheirEvidence == QuestSpec => []TransferMatchesEvidence
<1>1. QuestInv => TransferMatchesEvidence
  BY DEF QuestInv, StoreInv, Matches, Numbered, TransferMatchesEvidence
<1> QED BY <1>1, QuestInvariance, PTL

\* A verified transfer only ever gains the reveal of its connection: no stale submission
\* and no stale reveal is taken after it (persistence/index.ts, assertNoSessionRollback).
THEOREM VerifiedTransfersAreFinal == QuestSpec => VerifiedIsFinal
<1>1. QuestInv /\ [QuestNext]_questVars =>
        [\A t \in Transfers :
            /\ t \in DOMAIN sessions'
            /\ sessions[t].stage = "verified" =>
                  sessions'[t] \in {sessions[t], Revealed(sessions[t])}]_questVars
  BY QuestStepKeeps DEF QuestInv, Kept, Advances
<1> QED BY <1>1, QuestInvariance, PTL DEF QuestSpec, VerifiedIsFinal

\* Whichever route a receipt was issued on, and whatever raced with it, it cites the two
\* correct scores of its chain (receipts/service.ts, matchesQualifyingChain).
THEOREM ReceiptsAreEarned == QuestSpec => []ReceiptIsEarned
<1>1. QuestInv => ReceiptIsEarned
  BY DEF QuestInv, StoreInv, Earned, ReceiptIsEarned
<1> QED BY <1>1, QuestInvariance, PTL

\* However many issues race, none ends in a duplicate-key failure, and one that is answered
\* with a receipt has one (receipts/service.ts, lines 89 to 92).
THEOREM RacingIssuesAreAnswered == QuestSpec => []RacingIssueIsAnswered
<1>1. QuestInv => RacingIssueIsAnswered
  BY DEF QuestInv, HandlersInv, HeldAt, IsAnswered, RacingIssueIsAnswered
<1> QED BY <1>1, QuestInvariance, PTL
-----------------------------------------------------------------------------
(* The refinement of CapabilityPath, one operation at a time. *)

\* How far one quest has come.
Come(a, q, stage, attempts, revealed, done) ==
    [actor |-> a, practice |-> q, stage |-> stage, attempts |-> attempts,
     revealed |-> revealed, done |-> done]

LEMMA QuestOfRow ==
    \A x : QuestOf(x) = Come(x.actor, x.practice, x.stage, x.attempts, x.revealed,
                             DOMAIN x.operations)
BY DEF QuestOf, Come

\* One more answer, and the reveal.
Further(x, to, k) ==
    [[[x EXCEPT !.stage = to] EXCEPT !.attempts = @ + 1] EXCEPT !.done = @ \cup {k}]

Shown(x, shown) == [x EXCEPT !.revealed = shown]

LEMMA CameFurther ==
    ASSUME NEW a, NEW q, NEW stage, NEW n, NEW revealed, NEW done, NEW to, NEW k
    PROVE  Further(Come(a, q, stage, n, revealed, done), to, k)
             = Come(a, q, to, n + 1, revealed, done \cup {k})
<1> DEFINE m == n + 1
           more == done \cup {k}
           S == [actor : {a}, practice : {q}, stage : {stage, to}, attempts : {n, m},
                 revealed : {revealed}, done : {done, more}]
           x == Come(a, q, stage, n, revealed, done)
           y == [x EXCEPT !.stage = to]
           z == [y EXCEPT !.attempts = m]
<1>1. x \in S /\ x.attempts = n /\ x.done = done
  BY DEF Come
<1> HIDE DEF x, m, more
<1>2. y \in S /\ y.stage = to /\ y.attempts = n /\ y.done = done
  BY <1>1
<1> HIDE DEF y
<1>3. z \in S /\ z.stage = to /\ z.attempts = m /\ z.done = done
  BY <1>2
<1> HIDE DEF z
<1>4. [z EXCEPT !.done = more] = Come(a, q, to, m, revealed, more)
  BY <1>3 DEF Come
<1>5. [[y EXCEPT !.attempts = @ + 1] EXCEPT !.done = @ \cup {k}] = [z EXCEPT !.done = more]
  BY <1>2, <1>3 DEF z, m, more
<1> QED BY <1>4, <1>5 DEF x, y, m, more, Further

LEMMA CameRevealed ==
    ASSUME NEW a, NEW q, NEW stage, NEW n, NEW revealed, NEW done, NEW shown
    PROVE  Shown(Come(a, q, stage, n, revealed, done), shown) = Come(a, q, stage, n, shown, done)
<1> DEFINE S == [actor : {a}, practice : {q}, stage : {stage}, attempts : {n},
                 revealed : {revealed, shown}, done : {done}]
           x == Come(a, q, stage, n, revealed, done)
           y == [x EXCEPT !.revealed = shown]
<1>1. x \in S
  BY DEF Come
<1> HIDE DEF x
<1>2. y \in S /\ y.revealed = shown
  BY <1>1
<1> HIDE DEF y
<1>3. y = Come(a, q, stage, n, shown, done)
  BY <1>2 DEF Come
<1> QED BY <1>3 DEF x, y, Shown

LEMMA PathStutters ==
    ASSUME UNCHANGED <<events, sessions>>
    PROVE  UNCHANGED Path!pathVars
BY DEF Path!pathVars, Solved, Quests, Certified, Transfers, QuestOf, Receipts

LEMMA OpenPracticeStutters ==
    ASSUME NEW q \in Practices, OpenPractice(q)
    PROVE  UNCHANGED Path!pathVars
<1>1. /\ DOMAIN sessions' = DOMAIN sessions \cup {q} /\ events' = events
      /\ \A s \in DOMAIN sessions : sessions'[s] = sessions[s]
      /\ q \notin DOMAIN sessions /\ sessions'[q].stage = "attempting"
  BY DEF OpenPractice, Upsert
<1>2. Transfers' = Transfers /\ \A t \in Transfers : sessions'[t] = sessions[t]
  BY <1>1, TransferIdsApart DEF Transfers
<1>3. Solved' = Solved
  BY <1>1 DEF Solved
<1>4. Quests' = Quests
  BY <1>2 DEF Quests, QuestOf
<1>5. Certified' = Certified
  BY <1>1 DEF Certified, Receipts
<1> QED BY <1>3, <1>4, <1>5 DEF Path!pathVars

LEMMA SolvePracticeSolves ==
    ASSUME IndInv, NEW q \in Practices, SolvePractice(q)
    PROVE  Path!Solve(q)
<1> DEFINE row == [sessions[q] EXCEPT !.stage = "solved"]
           e == Event(q, <<"practice", "submit">>, 1, OwnerOf[q], "practice_scored", 0,
                      IF PairOf[q] \in WrittenPractices THEN "invalid" ELSE "correct",
                      "CORRECT")
<1>1. /\ DOMAIN sessions' = DOMAIN sessions /\ events' = events \cup {e}
      /\ \A s \in DOMAIN sessions \ {q} : sessions'[s] = sessions[s]
      /\ q \in DOMAIN sessions /\ sessions'[q] = row /\ sessions[q].stage # "solved"
  BY DEF SolvePractice
<1>2. row.stage = "solved"
  BY <1>1 DEF IndInv, SessionTable, PracticeRow
<1>3. ~IsReceipt(e)
  BY DEF Event, IsReceipt
<1> HIDE DEF row, e
<1>4. Transfers' = Transfers /\ \A t \in Transfers : sessions'[t] = sessions[t]
  BY <1>1, TransferIdsApart DEF Transfers
<1>5. q \notin Solved /\ Solved' = Solved \cup {q}
  BY <1>1, <1>2 DEF Solved
<1>6. Quests' = Quests
  BY <1>4 DEF Quests, QuestOf
<1>7. Certified' = Certified
  BY <1>1, <1>3 DEF Certified, Receipts, IsReceipt
<1> QED BY <1>5, <1>6, <1>7 DEF Path!Solve

\* What the command of a transfer does on the road.
LEMMA CommitTakes ==
    ASSUME NEW c, NEW t \in TransferIds, c.session = t, Commit(c),
           \A e \in c.events : ~IsReceipt(e)
    PROVE  /\ Solved' = Solved /\ Certified' = Certified
           /\ Quests' = [x \in DOMAIN Quests \cup {t} |->
                           IF x = t THEN QuestOf(c.snapshot) ELSE Quests[x]]
<1>1. /\ DOMAIN sessions' = DOMAIN sessions \cup {t}
      /\ sessions'[t] = c.snapshot
      /\ \A u \in DOMAIN sessions \ {t} : sessions'[u] = sessions[u]
      /\ events' = events \cup c.events
  BY CommitWrites
<1>2. t \notin Practices
  BY TransferIdsApart
<1>3. Solved' = Solved
  BY <1>1, <1>2 DEF Solved
<1>4. Certified' = Certified
  BY <1>1 DEF Certified, Receipts, IsReceipt
<1>5. Transfers' = Transfers \cup {t} /\ \A u \in Transfers \ {t} : sessions'[u] = sessions[u]
  BY <1>1 DEF Transfers
<1>6. Quests' = [x \in Transfers \cup {t} |-> QuestOf(sessions'[x])]
  BY <1>5 DEF Quests, QuestOf
<1>7. \A x \in Transfers \cup {t} :
         QuestOf(sessions'[x]) = IF x = t THEN QuestOf(c.snapshot) ELSE Quests[x]
  BY <1>1, <1>5 DEF Quests
<1>8. DOMAIN Quests = Transfers
  BY DEF Quests
<1> QED BY <1>3, <1>4, <1>6, <1>7, <1>8

LEMMA StartBegins ==
    ASSUME IndInv, StoreInv, NEW c, Sound(c), StartHeld(c), ~Recorded(c), Commit(c)
    PROVE  Path!PathNext
<1> DEFINE t == c.session
           k == t[3]
           row == c.snapshot
<1>1. /\ t \in TransferIds /\ c.key = RecordKey(t, k) /\ IsTransferRow(row)
      /\ row.stage = "working" /\ row.attempts = 0
      /\ row.revealed = FALSE /\ DOMAIN row.operations = {k}
      /\ \A e \in c.events : ~IsReceipt(e)
  BY DEF StartHeld, Of, IsReceipt
<1>2. k \in OperationKeys
  BY <1>1 DEF TransferIds, OperationKeys
<1>3. row.practice \in Practices /\ row.actor \in Actors /\ row.practice \in Solved
  <2>1. Entitled(row) /\ row.practice \in Practices
    BY <1>1, TransferIdsApart, RowFields DEF Sound
  <2> QED BY <1>1, <2>1, RowFields DEF Entitled, Solved
<1> HIDE DEF k
<1>4. t \notin DOMAIN Quests
  BY <1>1 DEF Recorded, StoreInv, LedgersRecorded, Transfers, Quests, k
<1>5. /\ Solved' = Solved /\ Certified' = Certified
      /\ Quests' = [x \in DOMAIN Quests \cup {t} |-> IF x = t THEN QuestOf(row) ELSE Quests[x]]
  BY <1>1, CommitTakes
<1>6. QuestOf(row) = [actor |-> row.actor, practice |-> row.practice, stage |-> "working",
                      attempts |-> 0, revealed |-> FALSE, done |-> {k}]
  BY <1>1 DEF QuestOf
<1> HIDE DEF t, row
<1>7. Path!Begin(t, row.practice, row.actor, k)
  BY <1>3, <1>4, <1>5, <1>6 DEF Path!Begin
<1> QED BY <1>1, <1>2, <1>3, <1>7 DEF Path!PathNext

LEMMA SubmitTries ==
    ASSUME IndInv, StoreInv, NEW c, NEW k \in OperationKeys, SubmitHeld(c, k),
           ~Recorded(c), ~RollsBack(c), Commit(c)
    PROVE  Path!PathNext
<1> DEFINE t == c.session
           row == c.snapshot
<1>1. PICK old : Continues(old, k, c) /\ IsPast(old, t)
  BY DEF SubmitHeld
<1>2. t \in Transfers /\ t \in TransferIds
  BY <1>1 DEF IsPast, Transfers
<1>3. sessions[t] = old
  BY <1>1, SubmitUnmoved DEF SubmitHeld
<1>4. /\ IsTransferRow(old) /\ old.stage = "working" /\ k \notin DOMAIN old.operations
      /\ IsTransferRow(row) /\ SameQuest(row, old)
      /\ row.attempts = old.attempts + 1 /\ row.revealed = old.revealed
      /\ DOMAIN row.operations = DOMAIN old.operations \cup {k}
      /\ \A e \in c.events : ~IsReceipt(e)
  BY <1>1 DEF Continues, Of, IsReceipt
<1>5. /\ Solved' = Solved /\ Certified' = Certified
      /\ Quests' = [x \in DOMAIN Quests \cup {t} |-> IF x = t THEN QuestOf(row) ELSE Quests[x]]
  BY <1>2, <1>4, CommitTakes
<1>6. row.stage \in {"working", "verified"}
  BY <1>4 DEF IsTransferRow, TransferRow
<1> HIDE DEF t, row
<1>7. t \in DOMAIN Quests /\ Quests[t] = QuestOf(old)
  BY <1>2, <1>3 DEF Quests
<1>8. Quests[t].stage = "working" /\ k \notin Quests[t].done
  BY <1>4, <1>7 DEF QuestOf
<1>9. QuestOf(row) = Further(Quests[t], row.stage, k)
  <2>1. QuestOf(row) = Come(old.actor, old.practice, row.stage, old.attempts + 1, old.revealed,
                            DOMAIN old.operations \cup {k})
    BY <1>4, QuestOfRow DEF SameQuest
  <2>2. Quests[t] = Come(old.actor, old.practice, old.stage, old.attempts, old.revealed,
                         DOMAIN old.operations)
    BY <1>7, QuestOfRow
  <2> QED BY <2>1, <2>2, CameFurther
<1>10. DOMAIN Quests \cup {t} = DOMAIN Quests
  BY <1>7
<1>11. IF row.stage = "verified" THEN Path!Try(t, k, TRUE) ELSE Path!Try(t, k, FALSE)
  <2>1. Quests' = [Quests EXCEPT ![t] = QuestOf(row)]
    BY <1>5, <1>10
  <2>2. Quests' = [Quests EXCEPT ![t].stage = row.stage, ![t].attempts = @ + 1,
                                 ![t].done = @ \cup {k}]
    BY <1>7, <1>9, <2>1 DEF Further
  <2>3. CASE row.stage = "verified"
    BY <1>5, <1>7, <1>8, <2>2, <2>3 DEF Path!Try
  <2>4. CASE row.stage = "working"
    BY <1>5, <1>7, <1>8, <2>2, <2>4 DEF Path!Try
  <2> QED BY <1>6, <2>3, <2>4
<1> QED BY <1>2, <1>11 DEF Path!PathNext

LEMMA RevealReveals ==
    ASSUME IndInv, StoreInv, NEW c, NEW k, RevealHeld(c, k), Commit(c)
    PROVE  Path!PathNext
<1> DEFINE t == c.session
           row == sessions[t]
           next == c.snapshot
<1>1. t \in Transfers /\ t \in TransferIds /\ \A e \in c.events : ~IsReceipt(e)
  BY DEF RevealHeld, Transfers, Of, IsReceipt
<1>2. /\ next = Revealed(row) /\ SameQuest(next, row) /\ row.stage = "verified"
      /\ IsTransferRow(row) /\ next.stage = "verified"
      /\ next.attempts = row.attempts /\ next.operations = row.operations
      /\ next.revealed = TRUE
  <2>1. /\ IsTransferRow(row) /\ row.stage = "verified" /\ next = Revealed(row)
    BY RevealedFields, RevealedType DEF RevealHeld
  <2> HIDE DEF row, next
  <2> QED BY <2>1, RevealedFields
<1>3. /\ Solved' = Solved /\ Certified' = Certified
      /\ Quests' = [x \in DOMAIN Quests \cup {t} |-> IF x = t THEN QuestOf(next) ELSE Quests[x]]
  BY <1>1, CommitTakes
<1>4. t \in DOMAIN Quests /\ Quests[t] = QuestOf(row) /\ Quests[t].stage = "verified"
  BY <1>1, <1>2 DEF Quests, QuestOf
<1> HIDE DEF t, row, next
<1>5. QuestOf(next) = Shown(Quests[t], next.revealed)
  <2>1. QuestOf(next) = Come(row.actor, row.practice, row.stage, row.attempts, next.revealed,
                             DOMAIN row.operations)
    BY <1>2, QuestOfRow DEF SameQuest
  <2>2. Quests[t] = Come(row.actor, row.practice, row.stage, row.attempts, row.revealed,
                         DOMAIN row.operations)
    BY <1>4, QuestOfRow
  <2> QED BY <2>1, <2>2, CameRevealed
<1>6. Path!Reveal(t)
  <2>1. DOMAIN Quests \cup {t} = DOMAIN Quests
    BY <1>4
  <2>2. Quests' = [Quests EXCEPT ![t] = Shown(Quests[t], next.revealed)]
    BY <1>3, <1>5, <2>1
  <2>3. Shown(Quests[t], next.revealed) = [Quests[t] EXCEPT !.revealed = TRUE]
    BY <1>2 DEF Shown
  <2>4. Quests' = [Quests EXCEPT ![t].revealed = TRUE]
    BY <2>2, <2>3
  <2> QED BY <1>3, <1>4, <2>4 DEF Path!Reveal
<1> QED BY <1>1, <1>6 DEF Path!PathNext

LEMMA IssueCertifies ==
    ASSUME IndInv, StoreInv, NEW c, NEW t, NEW k, NEW a, IssueHeld(c, t, k, a),
           ~EventExists(c), Commit(c)
    PROVE  Path!PathNext
<1>1. PICK e : /\ c.events = {e} /\ IsReceipt(e) /\ IsNamed(e) /\ Earned(e) /\ e.session = t
  BY DEF IssueHeld
<1>2. sessions' = sessions /\ events' = events \cup {e}
  BY <1>1 DEF Commit, IssueHeld
<1>3. t \in TransferIds /\ t \in DOMAIN Quests /\ Quests[t].stage = "verified"
  BY <1>1 DEF Earned, Quests, QuestOf, Transfers
<1>4. t \notin Certified
  <2> SUFFICES ASSUME NEW x \in Receipts, x.session = t PROVE FALSE
    BY DEF Certified
  <2>1. x \in events /\ Earned(x) /\ IsNamed(x)
    BY DEF StoreInv, Receipts, IsReceipt, IndInv, EventTable
  <2>2. x.id = e.id
    BY <1>1, <2>1, SameTransferSameName
  <2> QED BY <1>1, <2>1, <2>2 DEF EventExists
<1>5. Certified' = Certified \cup {t}
  BY <1>1, <1>2 DEF Certified, Receipts, IsReceipt
<1>6. UNCHANGED <<Solved, Quests>>
  BY <1>2 DEF Solved, Quests, QuestOf, Transfers
<1>7. Path!Certify(t)
  BY <1>3, <1>4, <1>5, <1>6 DEF Path!Certify
<1> QED BY <1>3, <1>7 DEF Path!PathNext

LEMMA CommitTakesAStep ==
    ASSUME QuestInv, NEW h \in Handlers, AppendCommits(h)
    PROVE  Path!PathNext
<1> DEFINE r == request[h]
           c == command[h]
<1>1. /\ r \in Requests /\ HeldBy(r, c) /\ Sound(c) /\ Commit(c)
      /\ ~Recorded(c) /\ ~RollsBack(c) /\ ~EventExists(c) /\ IndInv /\ StoreInv
  BY DEF QuestInv, IndInv, Pending, PendingAt, HandlersInv, HeldAt, AppendCommits, MayCommit,
         Admitted
<1>2. CASE Starts(r)
  BY <1>1, <1>2, StartBegins DEF HeldBy
<1>3. CASE r.op = "submit"
  <2>1. CommandKey(r) \in OperationKeys
    BY <1>1, RequestFields DEF CommandKey, OperationKeys
  <2> QED BY <1>1, <1>3, <2>1, SubmitTries DEF HeldBy
<1>4. CASE r.op = "reveal"
  BY <1>1, <1>4, RevealReveals DEF HeldBy
<1>5. CASE Issues(r)
  BY <1>1, <1>5, IssueCertifies DEF HeldBy
<1> QED BY <1>1, <1>2, <1>3, <1>4, <1>5, RequestFields DEF Starts, Issues

\* A step that is no commit and concerns no practice leaves evidence and rows alone.
LEMMA OtherSteps ==
    ASSUME [QuestNext]_questVars
    PROVE  \/ UNCHANGED <<events, sessions>>
           \/ \E q \in Practices : OpenPractice(q) \/ SolvePractice(q)
           \/ \E h \in Handlers : AppendCommits(h)
<1>1. ASSUME NEW h, NEW code, Reply(h, code) PROVE UNCHANGED <<events, sessions>>
  BY <1>1 DEF Reply, storeVars
<1>2. ASSUME NEW h, NEW to, Proceed(h, to) PROVE UNCHANGED <<events, sessions>>
  BY <1>2 DEF Proceed, storeVars
<1>3. ASSUME NEW h, NEW c, Prepare(h, c) PROVE UNCHANGED <<events, sessions>>
  BY <1>2, <1>3 DEF Prepare
<1>4. ASSUME NEW h \in Handlers, ServeStart(h) PROVE UNCHANGED <<events, sessions>>
  BY <1>1, <1>2, <1>3, <1>4 DEF ServeStart, ResumeStart, ChoosePair, RecordExposure, LoadStart
<1>5. ASSUME NEW h \in Handlers, LoadCommand(h) \/ LoadIssue(h)
      PROVE  UNCHANGED <<events, sessions>>
  BY <1>1, <1>3, <1>5 DEF LoadCommand, LoadIssue
<1>6. ASSUME NEW h \in Handlers, Append(h), ~AppendCommits(h)
      PROVE  UNCHANGED <<events, sessions>>
  BY <1>1, <1>6 DEF Append, AppendReplays, AppendFails, Relist, storeVars
<1>7. CASE UNCHANGED questVars
  BY <1>7 DEF questVars, storeVars
<1>8. ASSUME NEW a, NEW t, SignIn(a, t) PROVE UNCHANGED <<events, sessions>>
  BY <1>8 DEF SignIn
<1>9. ASSUME NEW h, (\E r \in Requests : Receive(h, r)) \/ Die(h)
      PROVE  UNCHANGED <<events, sessions>>
  BY <1>9 DEF Receive, Die, storeVars
<1> QED BY <1>4, <1>5, <1>6, <1>7, <1>8, <1>9 DEF QuestNext

\* Racing, repeated and dying requests amount to the steps of CapabilityPath: a transfer
\* begins on a solved practice, is verified at most once and certified at most once.
THEOREM QuestImplementsPath == QuestSpec => ImplementsPath
<1>1. QuestInit => Path!PathInit
  <2> SUFFICES ASSUME QuestInit PROVE Path!PathInit
    OBVIOUS
  <2>1. Transfers = {} /\ Solved = {} /\ Receipts = {}
    BY DEF QuestInit, EmptyTable, Transfers, Solved, Receipts
  <2>2. Quests = [t \in {} |-> {}]
    BY <2>1 DEF Quests
  <2> QED BY <2>1, <2>2 DEF Path!PathInit, Certified
<1>2. QuestInv /\ [QuestNext]_questVars => [Path!PathNext]_(Path!pathVars)
  <2> SUFFICES ASSUME QuestInv, [QuestNext]_questVars
               PROVE  [Path!PathNext]_(Path!pathVars)
    OBVIOUS
  <2>1. CASE UNCHANGED <<events, sessions>>
    BY <2>1, PathStutters
  <2>2. ASSUME NEW q \in Practices, OpenPractice(q) PROVE UNCHANGED Path!pathVars
    BY <2>2, OpenPracticeStutters
  <2>3. ASSUME NEW q \in Practices, SolvePractice(q) PROVE Path!PathNext
    BY <2>3, SolvePracticeSolves DEF QuestInv, Path!PathNext
  <2>4. ASSUME NEW h \in Handlers, AppendCommits(h) PROVE Path!PathNext
    BY <2>4, CommitTakesAStep
  <2> QED BY <2>1, <2>2, <2>3, <2>4, OtherSteps
<1> QED BY <1>1, <1>2, QuestInvariance, PTL DEF QuestSpec, ImplementsPath, Path!PathSpec
=============================================================================
