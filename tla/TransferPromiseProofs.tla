------------------------ MODULE TransferPromiseProofs ------------------------
(***************************************************************************)
(* Proofs about the two promises of the documents that TransferQuest does  *)
(* not keep in general: how much of each it keeps.  Two starts that race   *)
(* may take one transfer task, but a learner served one request at a time  *)
(* never meets a task twice; what is graded by a rubric may be verified    *)
(* without qualifying, but what is scored by the deterministic scorer      *)
(* qualifies.  Both hold for any number of learners, practices, keys and   *)
(* pairs, the second for any number of handlers too.                       *)
(***************************************************************************)
EXTENDS TransferEvidenceProofs

-----------------------------------------------------------------------------
(* One request at a time. *)

\* No transfer of the learner was begun on the task of the pair.
FreshFor(a, p) ==
    \A t \in Transfers : sessions[t].actor = a => TaskOf[sessions[t].pair] # TaskOf[p]

\* What the only handler chose is fresh until it is used.
FreshAt(h) ==
    /\ pc[h] \in {"chosen", "exposed"} => FreshFor(request[h].actor, reserved[h])
    /\ pc[h] = "prepared" /\ Starts(request[h]) =>
          FreshFor(command[h].snapshot.actor, command[h].snapshot.pair)

FreshInv == TransfersAreFresh /\ \A h \in Handlers : FreshAt(h)

\* Transfers keep learner and pair, and none begins.
SameTransfers ==
    /\ Transfers' = Transfers
    /\ \A t \in Transfers : SameQuest(sessions'[t], sessions[t])

\* One handler serves the learners, whatever they ask.
OneAtATime == \A g, h \in Handlers : g = h

LEMMA SameTransfersFresh ==
    ASSUME TransfersAreFresh, SameTransfers
    PROVE  /\ TransfersAreFresh'
           /\ \A a, p : FreshFor(a, p) => FreshFor(a, p)'
BY DEF TransfersAreFresh, FreshFor, SameTransfers, SameQuest

\* Exposures are of what the learner's transfers were begun on: a fresh pair is fresh.
LEMMA FreshPairIsFresh ==
    ASSUME IndInv, NEW a, NEW p \in FreshPairs(a)
    PROVE  FreshFor(a, p)
<1> SUFFICES ASSUME NEW t \in Transfers, sessions[t].actor = a
             PROVE  TaskOf[sessions[t].pair] # TaskOf[p]
  BY DEF FreshFor
<1>1. <<a, sessions[t].pair>> \in exposures
  BY DEF IndInv, SessionTable, Entitled
<1> QED BY <1>1 DEF FreshPairs

\* The steps that are no commits begin no transfer.
LEMMA OtherStepsSame ==
    ASSUME UNCHANGED sessions \/ \E q \in Practices : OpenPractice(q) \/ SolvePractice(q)
    PROVE  SameTransfers
<1>1. CASE UNCHANGED sessions
  BY <1>1 DEF SameTransfers, SameQuest, Transfers
<1>2. ASSUME NEW q \in Practices, OpenPractice(q) PROVE SameTransfers
  BY <1>2, TransferIdsApart DEF OpenPractice, Upsert, SameTransfers, SameQuest, Transfers
<1>3. ASSUME NEW q \in Practices, SolvePractice(q) PROVE SameTransfers
  <2>1. DOMAIN sessions' = DOMAIN sessions /\ \A s \in DOMAIN sessions \ {q} : sessions'[s] = sessions[s]
    BY <1>3 DEF SolvePractice
  <2> QED BY <2>1, TransferIdsApart DEF SameTransfers, SameQuest, Transfers
<1> QED BY <1>1, <1>2, <1>3

\* So do the commits of submissions, reveals and issues.
LEMMA OtherCommitsSame ==
    ASSUME IndInv, StoreInv, NEW r \in Requests, NEW c, HeldBy(r, c), ~Starts(r),
           MayCommit(c), Commit(c)
    PROVE  SameTransfers
<1>1. Advances
  BY HeldCommits
<1>2. CASE Issues(r)
  BY <1>2 DEF HeldBy, IssueHeld, Commit, SameTransfers, SameQuest, Transfers
<1>3. CASE r.op \in {"submit", "reveal"}
  <2>1. c.session \in Transfers
    BY <1>3 DEF HeldBy, SubmitHeld, RevealHeld, IsPast
  <2>2. DOMAIN sessions' = DOMAIN sessions
    <3> DEFINE t == c.session
    <3>1. t \in TransferIds /\ t \in DOMAIN sessions
      BY <2>1 DEF Transfers
    <3>2. DOMAIN sessions' = DOMAIN sessions \cup {t}
      BY <3>1, CommitWrites
    <3> QED BY <3>1, <3>2
  <2> QED BY <1>1, <2>2 DEF SameTransfers, Advances, Transfers
<1> QED BY <1>2, <1>3, RequestFields DEF Starts, Issues

\* A start takes what was fresh for its learner.
LEMMA StartCommitsFresh ==
    ASSUME TransfersAreFresh, NEW c, StartHeld(c), Commit(c),
           FreshFor(c.snapshot.actor, c.snapshot.pair)
    PROVE  TransfersAreFresh'
<1> DEFINE t == c.session
<1>1. t \in TransferIds
  BY DEF StartHeld
<1>2. /\ DOMAIN sessions' = DOMAIN sessions \cup {t}
      /\ sessions'[t] = c.snapshot
      /\ \A u \in DOMAIN sessions \ {t} : sessions'[u] = sessions[u]
  BY <1>1, CommitWrites
<1> HIDE DEF t
<1>3. \A u \in Transfers' : u # t => u \in Transfers /\ sessions'[u] = sessions[u]
  BY <1>2 DEF Transfers
<1> QED BY <1>2, <1>3 DEF TransfersAreFresh, FreshFor

\* What a handler holds at each place, one step later.
LEMMA FreshStep ==
    ASSUME IndInv, StoreInv, HandlersInv, FreshInv, SameTransfers, NEW h \in Handlers,
           \/ pc'[h] = pc[h] /\ request'[h] = request[h] /\ reserved'[h] = reserved[h]
                /\ command'[h] = command[h]
           \/ pc'[h] \notin {"chosen", "exposed", "prepared"}
           \/ ChoosePair(h) \/ RecordExposure(h) \/ LoadStart(h)
           \/ pc'[h] = "prepared" /\ ~Starts(request'[h])
    PROVE  FreshAt(h)'
<1>1. \A a, p : FreshFor(a, p) => FreshFor(a, p)'
  BY SameTransfersFresh DEF FreshInv
<1>2. FreshAt(h)
  BY DEF FreshInv
<1>3. CASE pc'[h] = pc[h] /\ request'[h] = request[h] /\ reserved'[h] = reserved[h]
              /\ command'[h] = command[h]
  BY <1>1, <1>2, <1>3 DEF FreshAt, Starts
<1>4. CASE pc'[h] \notin {"chosen", "exposed", "prepared"}
  BY <1>4 DEF FreshAt
<1>5. CASE pc'[h] = "prepared" /\ ~Starts(request'[h])
  BY <1>5 DEF FreshAt, Starts
<1>6. ASSUME NEW code, Reply(h, code) PROVE pc'[h] = "idle"
  BY <1>6 DEF Reply, Finish, IndInv, Places
<1>7. CASE ChoosePair(h)
  <2>1. CASE \E code : Reply(h, code)
    BY <1>4, <1>6, <2>1
  <2>2. CASE /\ \E p \in FreshPairs(request[h].actor) : reserved' = [reserved EXCEPT ![h] = p]
             /\ Proceed(h, "chosen")
    <3>1. PICK p \in FreshPairs(request[h].actor) : reserved' = [reserved EXCEPT ![h] = p]
      BY <2>2
    <3>2. /\ pc'[h] = "chosen" /\ request'[h] = request[h] /\ reserved'[h] = p
      BY <2>2, <3>1 DEF Proceed, IndInv, Places
    <3>3. FreshFor(request[h].actor, p)
      BY FreshPairIsFresh
    <3> QED BY <1>1, <3>2, <3>3 DEF FreshAt
  <2> QED BY <1>7, <2>1, <2>2 DEF ChoosePair
<1>8. CASE RecordExposure(h)
  <2>1. /\ pc[h] = "chosen" /\ pc'[h] = "exposed" /\ request'[h] = request[h]
        /\ reserved'[h] = reserved[h]
    BY <1>8 DEF RecordExposure, Proceed, IndInv, Places
  <2> QED BY <1>1, <1>2, <2>1 DEF FreshAt
<1>9. CASE LoadStart(h)
  <2>1. CASE \E code : Reply(h, code)
    BY <1>4, <1>6, <2>1
  <2>2. CASE Prepare(h, StartCommand(request[h], reserved[h]))
    <3> DEFINE r == request[h]
               p == reserved[h]
               c == StartCommand(r, p)
    <3>1. /\ pc[h] = "exposed" /\ r \in Requests /\ Starts(r) /\ p \in Pairs
          /\ r.op = "retry" => r.target \in DOMAIN sessions
      BY <1>9 DEF LoadStart, IndInv, Pending, PendingAt
    <3>2. /\ pc'[h] = "prepared" /\ command'[h] = c
      BY <2>2 DEF Prepare, Proceed, IndInv, Places
    <3>3. c.snapshot.actor = r.actor /\ c.snapshot.pair = p
      <4> DEFINE key == <<r.op, r.key>>
                 row == StartedTransfer(r, p)
                 snap == WithOperation(row, key, <<"start", None>>)
      <4>1. PracticeOf(r) \in Practices
        BY <3>1, PracticeOfStart DEF IndInv
      <4>2. IsTransferRow(row) /\ row.actor = r.actor /\ row.pair = p
        BY <3>1, <4>1, StartedType
      <4>3. key \in OperationKeys /\ <<"start", None>> \in Prints
        BY <3>1, RequestFields DEF Starts, StartKeys, OperationKeys, Prints
      <4>4. SameQuest(snap, row)
        BY <4>2, <4>3, WithOperationType
      <4>5. c.snapshot = snap
        BY CommandFields DEF StartCommand
      <4> QED BY <4>2, <4>4, <4>5 DEF SameQuest
    <3>4. FreshFor(r.actor, p)
      BY <1>2, <3>1 DEF FreshAt
    <3> HIDE DEF c
    <3> QED BY <1>1, <3>2, <3>3, <3>4 DEF FreshAt
  <2> QED BY <1>9, <2>1, <2>2 DEF LoadStart
<1> QED BY <1>3, <1>4, <1>5, <1>7, <1>8, <1>9
\* Where a step leaves a handler.
LEMMA StepAt ==
    ASSUME IndInv, HandlersInv, [QuestNext]_questVars, NEW g \in Handlers
    PROVE  \/ pc'[g] = pc[g] /\ request'[g] = request[g] /\ reserved'[g] = reserved[g]
                /\ command'[g] = command[g]
           \/ pc'[g] \notin {"chosen", "exposed", "prepared"}
           \/ ChoosePair(g) \/ RecordExposure(g) \/ LoadStart(g)
           \/ pc'[g] = "prepared" /\ ~Starts(request'[g])
<1> DEFINE Unmoved == pc'[g] = pc[g] /\ request'[g] = request[g] /\ reserved'[g] = reserved[g]
                         /\ command'[g] = command[g]
           Elsewhere == pc'[g] \notin {"chosen", "exposed", "prepared"}
<1>1. CASE UNCHANGED questHandlerVars
  BY <1>1 DEF questHandlerVars
<1>2. ASSUME NEW h \in Handlers, NEW code, Reply(h, code) \/ Finish(h, code)
      PROVE  Unmoved \/ Elsewhere
  BY <1>2 DEF Reply, Finish, IndInv, Places
<1>3. ASSUME NEW h \in Handlers, (\E r \in Requests : Receive(h, r)) \/ Die(h)
      PROVE  Unmoved \/ Elsewhere
  BY <1>3 DEF Receive, Die, IndInv, Places
<1>4. ASSUME NEW h \in Handlers, ResumeStart(h)
      PROVE  Unmoved \/ Elsewhere
  <2>1. CASE Proceed(h, "missed") /\ UNCHANGED <<exposures, reserved, command>>
    BY <2>1 DEF Proceed, IndInv, Places
  <2> QED BY <1>2, <1>4, <2>1 DEF ResumeStart
<1>5. ASSUME NEW h \in Handlers, ChoosePair(h) \/ RecordExposure(h) \/ LoadStart(h), h # g
      PROVE  Unmoved
  <2>1. CASE ChoosePair(h)
    BY <1>5, <2>1 DEF ChoosePair, Reply, Finish, Proceed, IndInv, Places
  <2>2. CASE RecordExposure(h)
    BY <1>5, <2>2 DEF RecordExposure, Proceed, IndInv, Places
  <2>3. CASE LoadStart(h)
    BY <1>5, <2>3 DEF LoadStart, Prepare, Reply, Finish, Proceed, IndInv, Places
  <2> QED BY <1>5, <2>1, <2>2, <2>3
<1>6. ASSUME NEW h \in Handlers, NEW c, Prepare(h, c), ~Starts(request[h])
      PROVE  Unmoved \/ (pc'[g] = "prepared" /\ ~Starts(request'[g]))
  BY <1>6 DEF Prepare, Proceed, IndInv, Places
<1>7. ASSUME NEW h \in Handlers, LoadCommand(h) \/ LoadIssue(h)
      PROVE  Unmoved \/ Elsewhere \/ (pc'[g] = "prepared" /\ ~Starts(request'[g]))
  <2>1. ~Starts(request[h])
    BY <1>7, OpsApart DEF LoadCommand, LoadIssue
  <2> QED BY <1>2, <1>6, <1>7, <2>1 DEF LoadCommand, LoadIssue
<1>8. ASSUME NEW h \in Handlers, Append(h) PROVE Unmoved \/ Elsewhere
  <2>1. CASE pc' = [pc EXCEPT ![h] = "failed"] /\ UNCHANGED <<request, reserved, command>>
    BY <2>1 DEF IndInv, Places
  <2>2. \/ \E code : Reply(h, code) \/ Finish(h, code)
        \/ pc' = [pc EXCEPT ![h] = "failed"] /\ UNCHANGED <<request, reserved, command>>
    BY <1>8 DEF Append, AppendCommits, AppendReplays, AppendFails, Relist
  <2> QED BY <1>2, <2>1, <2>2
<1>9. CASE UNCHANGED questVars
  BY <1>1, <1>9 DEF questVars
<1>10. CASE \/ \E q \in Practices : OpenPractice(q) \/ SolvePractice(q)
            \/ \E a \in Actors, t \in ActorSessions : SignIn(a, t)
  BY <1>1, <1>10 DEF OpenPractice, SolvePractice, SignIn
<1> QED BY <1>3, <1>4, <1>5, <1>7, <1>8, <1>9, <1>10 DEF QuestNext, ServeStart

LEMMA FreshKeeps ==
    ASSUME OneAtATime, QuestInv, FreshInv, [QuestNext]_questVars
    PROVE  FreshInv'
<1>1. CASE SameTransfers
  <2>1. ASSUME NEW h \in Handlers PROVE FreshAt(h)'
    BY <1>1, StepAt, FreshStep DEF QuestInv
  <2> QED BY <1>1, <2>1, SameTransfersFresh DEF FreshInv
<1>2. ASSUME NEW h \in Handlers, AppendCommits(h) PROVE FreshInv'
  <2> DEFINE r == request[h]
             c == command[h]
  <2>1. /\ r \in Requests /\ HeldBy(r, c) /\ MayCommit(c) /\ Commit(c) /\ pc[h] = "prepared"
        /\ FreshAt(h) /\ IndInv /\ StoreInv /\ pc'[h] = "idle"
    BY <1>2 DEF QuestInv, IndInv, Places, Pending, PendingAt, HandlersInv, HeldAt, FreshInv,
                AppendCommits, Finish
  <2>2. CASE ~Starts(r)
    BY <1>1, <2>1, <2>2, OtherCommitsSame
  <2>3. CASE Starts(r)
    <3>1. TransfersAreFresh'
      BY <2>1, <2>3, StartCommitsFresh DEF HeldBy, FreshAt, FreshInv
    <3>2. ASSUME NEW g \in Handlers PROVE FreshAt(g)'
      <4>1. pc'[g] = "idle"
        BY <2>1 DEF OneAtATime
      <4> QED BY <4>1 DEF FreshAt
    <3> QED BY <3>1, <3>2 DEF FreshInv
  <2> QED BY <2>2, <2>3
<1> QED BY <1>1, <1>2, OtherSteps, OtherStepsSame

\* A learner whose requests are served one after the other is never given a transfer task
\* twice, whichever of them fail and whatever is retried (transfer/fresh-attempt.ts,
\* selectFreshTransferPair); with two requests at a time it is not so.
THEOREM ServedOneByOneTransfersAreFresh == OneAtATime => (QuestSpec => []TransfersAreFresh)
<1> SUFFICES ASSUME OneAtATime PROVE QuestSpec => []TransfersAreFresh
  OBVIOUS
<1>1. QuestInit => FreshInv
  BY DEF QuestInit, EmptyTable, Transfers, TransfersAreFresh, FreshInv, FreshAt
<1>2. QuestInv /\ FreshInv /\ [QuestNext]_questVars => FreshInv'
  BY FreshKeeps
<1>3. FreshInv => TransfersAreFresh
  BY DEF FreshInv
<1> QED BY <1>1, <1>2, <1>3, QuestInvariance, PTL DEF QuestSpec
-----------------------------------------------------------------------------
(* What the deterministic scorer verified. *)

\* A written answer apart, what was graded CORRECT was scored correct.
PracticesScored ==
    \A q \in DOMAIN sessions \cap Practices :
        /\ sessions[q].actor = OwnerOf[q]
        /\ sessions[q].stage = "solved" /\ PairOf[q] \notin WrittenPractices =>
              CorrectScores("practice_scored", q, OwnerOf[q]) # {}

VerdictsScored ==
    \A e \in events :
        IsVerdict(e) =>
            /\ e.session \in Transfers /\ e.actor = sessions[e.session].actor
            /\ sessions[e.session].pair \notin WrittenTransfers => e.score = "correct"

\* The same of a command that waits to be appended.
WellScored(c) ==
    \A e \in c.events :
        IsVerdict(e) =>
            /\ e.session = c.session /\ e.actor = c.snapshot.actor
            /\ c.snapshot.pair \notin WrittenTransfers => e.score = "correct"

ScoredInv ==
    /\ PracticesScored
    /\ VerdictsScored
    /\ \A h \in Handlers : pc[h] = "prepared" => WellScored(command[h])

\* A verified transfer qualifies when neither it nor its practice was graded by a rubric.
ScoredIsCertifiable ==
    \A t \in Transfers :
        /\ sessions[t].stage = "verified" /\ sessions[t].pair \notin WrittenTransfers
        /\ PairOf[sessions[t].practice] \notin WrittenPractices
        => Qualifies(t, sessions[t].practice, sessions[t].actor)

LEMMA ScoredQualifies == QuestInv /\ ScoredInv => ScoredIsCertifiable
<1> SUFFICES ASSUME QuestInv, ScoredInv, NEW t \in Transfers, sessions[t].stage = "verified",
                    sessions[t].pair \notin WrittenTransfers,
                    PairOf[sessions[t].practice] \notin WrittenPractices
             PROVE  Qualifies(t, sessions[t].practice, sessions[t].actor)
  BY DEF ScoredIsCertifiable
<1> DEFINE q == sessions[t].practice
           a == sessions[t].actor
<1>1. /\ IsTransferRow(sessions[t]) /\ Entitled(sessions[t]) /\ Matches(t)
  BY DEF QuestInv, IndInv, SessionTable, StoreInv
<1>2. /\ q \in DOMAIN sessions \cap Practices /\ sessions[q].stage = "solved"
      /\ sessions[q].actor = a /\ sessions[q] \in PracticeRow
  BY <1>1, RowFields DEF Entitled, QuestInv, IndInv, SessionTable
<1>3. sessions[q].kind = "challenge" /\ sessions[t].kind = "transfer"
  BY <1>1, <1>2 DEF PracticeRow, IsTransferRow, TransferRow
<1>4. CorrectScores("practice_scored", q, a) # {}
  BY <1>2 DEF ScoredInv, PracticesScored
<1>5. CorrectScores("transfer_scored", t, a) # {}
  <2>1. PICK e \in EventsOf(t, "transfer_scored") : e.outcome = "CORRECT"
    BY <1>1 DEF Matches
  <2>2. /\ e \in events /\ e.type = "transfer_scored" /\ e.session = t /\ IsVerdict(e)
    BY <2>1 DEF EventsOf, IsVerdict
  <2>3. e.actor = a /\ e.score = "correct"
    BY <2>2 DEF ScoredInv, VerdictsScored
  <2> QED BY <2>2, <2>3 DEF CorrectScores
<1> HIDE DEF q, a
<1>6. Qualifies(t, q, a)
  BY <1>2, <1>3, <1>4, <1>5 DEF Qualifies, Transfers, q, a
<1> QED BY <1>6 DEF q, a

-----------------------------------------------------------------------------
(* The commands. *)

LEMMA EventFields ==
    \A t, k, n, a, type, score, outcome :
        LET e == Event(t, k, n, a, type, 0, score, outcome) IN
        /\ e.session = t /\ e.actor = a /\ e.type = type
        /\ e.score = score /\ e.outcome = outcome
BY DEF Event

LEMMA SubmitWellScored ==
    ASSUME SessionTable, NEW r \in Requests, r.op = "submit", CommandRefusal(r) = "none",
           NEW score, NEW outcome,
           Row(r).pair \notin WrittenTransfers /\ outcome = "CORRECT" => score = "correct"
    PROVE  WellScored(SubmitCommand(r, score, outcome))
<1> DEFINE t == r.target
           key == CommandKey(r)
           next == Submitted(Row(r), outcome)
           snap == WithOperation(next, key, CommandPrint(r))
           e == PlainEvent(t, key, 0, r.actor, "transfer_submitted", next.attempts)
           f == Event(t, key, 1, r.actor, "transfer_scored", 0, score, outcome)
           c == SubmitCommand(r, score, outcome)
<1>1. /\ r.target \in Transfers /\ IsTransferRow(Row(r)) /\ Row(r).actor = r.actor
  BY RequestFields DEF SessionTable, CommandRefusal, LoadRefusal, Exists, Row, Transfers
<1>2. IsTransferRow(next) /\ SameQuest(next, Row(r))
  BY <1>1, SubmittedType
<1>3. key \in OperationKeys /\ CommandPrint(r) \in Prints
  BY RequestFields DEF CommandKey, OperationKeys, CommandPrint, Prints
<1>4. SameQuest(snap, next)
  <2> HIDE DEF next, key
  <2> QED BY <1>2, <1>3, WithOperationType
<1>5. ~IsVerdict(e)
  BY DEF IsVerdict, PlainEvent, Event
<1>6. /\ f.session = t /\ f.actor = r.actor /\ f.score = score /\ f.outcome = outcome
  BY EventFields
<1>7. c.session = t /\ c.snapshot = snap /\ c.events = {e, f}
  BY CommandFields DEF SubmitCommand
<1> HIDE DEF t, e, f, c, snap, next
<1>8. WellScored(c)
  BY <1>1, <1>2, <1>4, <1>5, <1>6, <1>7 DEF WellScored, SameQuest, IsVerdict
<1> QED BY <1>8 DEF c

LEMMA OthersWellScored ==
    /\ \A r, p : WellScored(StartCommand(r, p))
    /\ \A r : WellScored(RevealCommand(r)) /\ WellScored(IssueCommand(r))
<1>1. \A t, k, n, a, type, ordinal : ~IsVerdict(PlainEvent(t, k, n, a, type, ordinal))
  BY DEF IsVerdict, PlainEvent, Event, Unset
<1>2. ASSUME NEW r, NEW p PROVE WellScored(StartCommand(r, p))
  BY <1>1 DEF WellScored, StartCommand, TransferCommand
<1>3. ASSUME NEW r PROVE WellScored(RevealCommand(r))
  BY <1>1 DEF WellScored, RevealCommand, TransferCommand
<1>4. ASSUME NEW r PROVE WellScored(IssueCommand(r))
  <2>1. ~IsVerdict(ReceiptEvent(r))
    BY DEF IsVerdict, ReceiptEvent
  <2> QED BY <2>1 DEF WellScored, IssueCommand
<1> QED BY <1>2, <1>3, <1>4

\* A handler that arrives at its append brings a well-scored command.
LEMMA PreparedWellScored ==
    ASSUME IndInv, [QuestNext]_questVars, NEW g \in Handlers, pc'[g] = "prepared"
    PROVE  \/ pc[g] = "prepared" /\ command'[g] = command[g]
           \/ WellScored(command'[g])
<1> DEFINE Here == pc[g] = "prepared" /\ command'[g] = command[g]
<1>1. CASE UNCHANGED questHandlerVars
  BY <1>1 DEF questHandlerVars
<1>2. ASSUME NEW h \in Handlers, NEW code, Reply(h, code) \/ Finish(h, code) PROVE Here
  BY <1>2 DEF Reply, Finish, IndInv, Places
<1>3. ASSUME NEW h \in Handlers, (\E r \in Requests : Receive(h, r)) \/ Die(h) PROVE Here
  BY <1>3 DEF Receive, Die, IndInv, Places
<1>4. ASSUME NEW h \in Handlers, NEW to \in {"missed", "chosen", "exposed"}, Proceed(h, to),
             UNCHANGED command
      PROVE  Here
  BY <1>4 DEF Proceed, IndInv, Places
<1>5. ASSUME NEW h \in Handlers, NEW c, Prepare(h, c), WellScored(c)
      PROVE  Here \/ WellScored(command'[g])
  BY <1>5 DEF Prepare, Proceed, IndInv, Places
<1>6. ASSUME NEW h \in Handlers, ServeStart(h) PROVE Here \/ WellScored(command'[g])
  BY <1>2, <1>4, <1>5, <1>6, OthersWellScored
     DEF ServeStart, ResumeStart, ChoosePair, RecordExposure, LoadStart
<1>7. ASSUME NEW h \in Handlers, LoadIssue(h) PROVE Here \/ WellScored(command'[g])
  BY <1>2, <1>5, <1>7, OthersWellScored DEF LoadIssue
<1>8. ASSUME NEW h \in Handlers, LoadCommand(h) PROVE Here \/ WellScored(command'[g])
  <2> DEFINE r == request[h]
  <2>1. r \in Requests /\ SessionTable
    BY <1>8 DEF LoadCommand, IndInv, Pending, PendingAt
  <2>2. CASE \E code : Reply(h, code)
    BY <1>2, <2>2
  <2>3. CASE Prepare(h, RevealCommand(r))
    BY <1>5, <2>3, OthersWellScored
  <2>4. CASE /\ CommandRefusal(r) = "none" /\ r.op = "submit" /\ Row(r).pair \in WrittenTransfers
             /\ \E outcome \in GradingOutcome : Prepare(h, SubmitCommand(r, "invalid", outcome))
    BY <1>5, <2>1, <2>4, SubmitWellScored
  <2>5. CASE /\ CommandRefusal(r) = "none" /\ r.op = "submit"
             /\ Prepare(h, SubmitCommand(r, r.arg, DeterministicOutcome(r.arg)))
    <3>1. DeterministicOutcome(r.arg) = "CORRECT" => r.arg = "correct"
      BY DEF DeterministicOutcome
    <3> QED BY <1>5, <2>1, <2>5, <3>1, SubmitWellScored
  <2> QED BY <1>8, <2>2, <2>3, <2>4, <2>5 DEF LoadCommand
<1>9. ASSUME NEW h \in Handlers, Append(h) PROVE Here
  <2>1. CASE pc' = [pc EXCEPT ![h] = "failed"] /\ UNCHANGED <<request, reserved, command>>
    BY <2>1 DEF IndInv, Places
  <2>2. \/ \E code : Reply(h, code) \/ Finish(h, code)
        \/ pc' = [pc EXCEPT ![h] = "failed"] /\ UNCHANGED <<request, reserved, command>>
    BY <1>9 DEF Append, AppendCommits, AppendReplays, AppendFails, Relist
  <2> QED BY <1>2, <2>1, <2>2
<1>10. CASE \/ UNCHANGED questVars
            \/ \E q \in Practices : OpenPractice(q) \/ SolvePractice(q)
            \/ \E a \in Actors, t \in ActorSessions : SignIn(a, t)
  BY <1>1, <1>10 DEF OpenPractice, SolvePractice, SignIn, questVars
<1> QED BY <1>3, <1>6, <1>7, <1>8, <1>9, <1>10 DEF QuestNext
-----------------------------------------------------------------------------
(* The tables. *)

\* Practices keep their rows and evidence grows.
LEMMA PracticesKeep ==
    ASSUME PracticesScored, events \subseteq events',
           DOMAIN sessions' \cap Practices = DOMAIN sessions \cap Practices,
           \A q \in DOMAIN sessions \cap Practices : sessions'[q] = sessions[q]
    PROVE  PracticesScored'
<1>1. \A q, a : CorrectScores("practice_scored", q, a) \subseteq CorrectScores("practice_scored", q, a)'
  BY DEF CorrectScores
<1> QED BY <1>1 DEF PracticesScored

LEMMA VerdictsKeep ==
    ASSUME VerdictsScored, Advances, \A e \in events' \ events : ~IsVerdict(e)
    PROVE  VerdictsScored'
<1> SUFFICES ASSUME NEW e \in events', IsVerdict(e)
             PROVE  /\ e.session \in Transfers' /\ e.actor = sessions'[e.session].actor
                    /\ sessions'[e.session].pair \notin WrittenTransfers => e.score = "correct"
  BY DEF VerdictsScored, IsVerdict
<1>1. e \in events
  OBVIOUS
<1> QED BY <1>1 DEF VerdictsScored, Advances, SameQuest, Transfers

LEMMA PracticeStepsScored ==
    ASSUME QuestInv, ScoredInv, NEW q \in Practices, OpenPractice(q) \/ SolvePractice(q)
    PROVE  PracticesScored' /\ VerdictsScored'
<1>1. IndInv /\ StoreInv /\ PracticesScored /\ VerdictsScored
  BY DEF QuestInv, ScoredInv
<1>2. CASE OpenPractice(q)
  <2>1. /\ DOMAIN sessions' = DOMAIN sessions \cup {q} /\ events' = events \cup {}
        /\ \A s \in DOMAIN sessions : sessions'[s] = sessions[s]
        /\ sessions'[q].actor = OwnerOf[q] /\ sessions'[q].stage = "attempting"
    BY <1>2 DEF OpenPractice, Upsert
  <2>2. \A p : CorrectScores("practice_scored", p, OwnerOf[p])'
                  = CorrectScores("practice_scored", p, OwnerOf[p])
    BY <2>1 DEF CorrectScores
  <2>3. PracticesScored'
    BY <1>1, <2>1, <2>2 DEF PracticesScored
  <2>4. Advances
    BY <1>1, <1>2, OpenPracticeKeeps
  <2>5. VerdictsScored'
    <3>1. \A x \in events' \ events : ~IsVerdict(x)
      BY <2>1
    <3> QED BY <1>1, <2>1, <2>4, <3>1, VerdictsKeep
  <2> QED BY <2>3, <2>5
<1>3. CASE SolvePractice(q)
  <2> DEFINE score == IF PairOf[q] \in WrittenPractices THEN "invalid" ELSE "correct"
             e == Event(q, <<"practice", "submit">>, 1, OwnerOf[q], "practice_scored", 0,
                        score, "CORRECT")
             row == [sessions[q] EXCEPT !.stage = "solved"]
  <2>1. /\ DOMAIN sessions' = DOMAIN sessions /\ events' = events \cup {e}
        /\ \A s \in DOMAIN sessions \ {q} : sessions'[s] = sessions[s]
        /\ q \in DOMAIN sessions /\ sessions'[q] = row
    BY <1>3 DEF SolvePractice
  <2>2. row.actor = OwnerOf[q]
    BY <1>1, <2>1 DEF PracticesScored, IndInv, SessionTable, PracticeRow
  <2>3. /\ e.session = q /\ e.actor = OwnerOf[q] /\ e.type = "practice_scored"
        /\ e.score = score
    BY EventFields
  <2>4. ~IsVerdict(e)
    BY <2>3 DEF IsVerdict
  <2> HIDE DEF e, row
  <2>5. PairOf[q] \notin WrittenPractices => CorrectScores("practice_scored", q, OwnerOf[q])' # {}
    BY <2>1, <2>3 DEF CorrectScores
  <2>6. \A p : CorrectScores("practice_scored", p, OwnerOf[p])
                  \subseteq CorrectScores("practice_scored", p, OwnerOf[p])'
    BY <2>1 DEF CorrectScores
  <2>7. ASSUME NEW p \in DOMAIN sessions' \cap Practices
        PROVE  /\ sessions'[p].actor = OwnerOf[p]
               /\ sessions'[p].stage = "solved" /\ PairOf[p] \notin WrittenPractices =>
                     CorrectScores("practice_scored", p, OwnerOf[p])' # {}
    <3>1. CASE p = q
      BY <2>1, <2>2, <2>5, <3>1
    <3>2. CASE p # q
      BY <1>1, <2>1, <2>6, <3>2 DEF PracticesScored
    <3> QED BY <3>1, <3>2
  <2>8. PracticesScored'
    BY <2>7 DEF PracticesScored
  <2>9. Advances
    BY <1>1, <1>3, SolvePracticeKeeps
  <2>10. VerdictsScored'
    <3>1. \A x \in events' \ events : ~IsVerdict(x)
      BY <2>1, <2>4
    <3> QED BY <1>1, <2>1, <2>9, <3>1, VerdictsKeep
  <2> QED BY <2>8, <2>10
<1> QED BY <1>2, <1>3

LEMMA CommitScored ==
    ASSUME QuestInv, ScoredInv, NEW h \in Handlers, AppendCommits(h)
    PROVE  PracticesScored' /\ VerdictsScored'
<1> DEFINE r == request[h]
           c == command[h]
<1>1. /\ r \in Requests /\ HeldBy(r, c) /\ Sound(c) /\ WellScored(c)
      /\ MayCommit(c) /\ Commit(c) /\ IndInv /\ StoreInv
      /\ PracticesScored /\ VerdictsScored
  BY DEF QuestInv, IndInv, Pending, PendingAt, HandlersInv, HeldAt, ScoredInv, AppendCommits
<1> HIDE DEF r, c
<1>2. Advances
  BY <1>1, HeldCommits
<1>3. CASE c.session = None
  <2>1. sessions' = sessions /\ events' = events \cup c.events
    BY <1>1, <1>3 DEF Commit
  <2>2. Issues(r)
    <3>1. None \notin TransferIds
      BY TransferIdsApart
    <3>2. ~Starts(r)
      BY <1>1, <1>3, <3>1 DEF HeldBy, StartHeld
    <3>3. r.op \notin {"submit", "reveal"}
      BY <1>1, <1>3, <3>1 DEF HeldBy, SubmitHeld, RevealHeld, IsPast, Transfers
    <3> QED BY <1>1, <3>2, <3>3, RequestFields DEF Starts, Issues
  <2>3. \A e \in c.events : ~IsVerdict(e)
    BY <1>1, <2>2 DEF HeldBy, IssueHeld, IsReceipt, IsVerdict
  <2> QED BY <1>1, <1>2, <2>1, <2>3, PracticesKeep, VerdictsKeep
<1>4. CASE c.session # None
  <2> DEFINE t == c.session
  <2>1. t \in TransferIds /\ t \notin Practices
    BY <1>1, <1>4, TransferIdsApart DEF Sound
  <2>2. /\ DOMAIN sessions' = DOMAIN sessions \cup {t} /\ sessions'[t] = c.snapshot
        /\ \A u \in DOMAIN sessions \ {t} : sessions'[u] = sessions[u]
        /\ events' = events \cup c.events
    BY <1>1, <2>1, CommitWrites
  <2>3. PracticesScored'
    BY <1>1, <2>1, <2>2, PracticesKeep
  <2>4. ASSUME NEW e \in events', IsVerdict(e)
        PROVE  /\ e.session \in Transfers' /\ e.actor = sessions'[e.session].actor
               /\ sessions'[e.session].pair \notin WrittenTransfers => e.score = "correct"
    <3>1. CASE e \in events
      BY <1>1, <1>2, <2>4, <3>1 DEF VerdictsScored, Advances, SameQuest, Transfers
    <3>2. CASE e \in c.events
      BY <1>1, <2>1, <2>2, <2>4, <3>2 DEF WellScored, Transfers
    <3> QED BY <2>2, <3>1, <3>2
  <2>5. VerdictsScored'
    BY <2>4 DEF VerdictsScored, IsVerdict
  <2> QED BY <2>3, <2>5
<1> QED BY <1>3, <1>4

LEMMA ScoredKeeps ==
    ASSUME QuestInv, ScoredInv, [QuestNext]_questVars
    PROVE  ScoredInv'
<1>1. ASSUME NEW h \in Handlers, pc'[h] = "prepared" PROVE WellScored(command[h])'
  BY <1>1, PreparedWellScored DEF QuestInv, ScoredInv, WellScored, IsVerdict
<1>2. PracticesScored' /\ VerdictsScored'
  <2>1. CASE UNCHANGED <<events, sessions>>
    BY <2>1 DEF ScoredInv, PracticesScored, VerdictsScored, CorrectScores, Transfers
  <2> QED BY <2>1, PracticeStepsScored, CommitScored, OtherSteps
<1> QED BY <1>1, <1>2 DEF ScoredInv

LEMMA ScoredInvariance == QuestSpec => []ScoredInv
<1>1. QuestInit => ScoredInv
  BY DEF QuestInit, EmptyTable, ScoredInv, PracticesScored, VerdictsScored
<1>2. QuestInv /\ ScoredInv /\ [QuestNext]_questVars => ScoredInv'
  BY ScoredKeeps
<1> QED BY <1>1, <1>2, QuestInvariance, PTL DEF QuestSpec

\* A transfer verified by the deterministic scorer, on a practice solved by it, qualifies for
\* a receipt, whatever raced (receipts/service.ts, matchesQualifyingChain, over
\* transfer/service.ts, submit).
THEOREM ScoredTransfersAreCertifiable == QuestSpec => []ScoredIsCertifiable
BY ScoredQualifies, ScoredInvariance, QuestInvariance, PTL

\* No pair asks for a written solution.
NothingWritten ==
    /\ \A q \in Practices : PairOf[q] \notin WrittenPractices
    /\ Pairs \cap WrittenTransfers = {}

\* Where no task asks for a written solution, all that is verified qualifies: the promise of
\* the amendment is broken by rubric-graded tasks alone.
THEOREM UnwrittenIsCertifiable == NothingWritten => (QuestSpec => []VerifiedIsCertifiable)
<1> SUFFICES ASSUME NothingWritten PROVE QuestSpec => []VerifiedIsCertifiable
  OBVIOUS
<1>1. QuestInv /\ ScoredInv => VerifiedIsCertifiable
  <2> SUFFICES ASSUME QuestInv, ScoredInv, NEW t \in Transfers, sessions[t].stage = "verified"
               PROVE  Qualifies(t, sessions[t].practice, sessions[t].actor)
    BY DEF VerifiedIsCertifiable
  <2>1. sessions[t].practice \in Practices /\ sessions[t].pair \in Pairs
    BY RowFields DEF QuestInv, IndInv, SessionTable
  <2>2. /\ sessions[t].pair \notin WrittenTransfers
        /\ PairOf[sessions[t].practice] \notin WrittenPractices
    BY <2>1 DEF NothingWritten
  <2> QED BY <2>2, ScoredQualifies DEF ScoredIsCertifiable
<1> QED BY <1>1, ScoredInvariance, QuestInvariance, PTL
=============================================================================
