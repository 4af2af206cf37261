---------------------------- MODULE TransferProofs ----------------------------
(***************************************************************************)
(* Proofs about TransferQuest, for any number of handlers, learners,       *)
(* practices, keys and pairs: its type invariant, that a transfer was      *)
(* begun on a solved practice and a recorded exposure, and that a transfer *)
(* score has one receipt.                                                  *)
(*                                                                         *)
(* The argument: a practice once solved stays solved, and an exposure once *)
(* recorded stays recorded, so what a handler saw of them before its       *)
(* awaits still holds when its command is appended.  A receipt is named    *)
(* after the score it cites, and the store takes no event whose name it    *)
(* has.                                                                    *)
(***************************************************************************)
EXTENDS TransferProperties, TLAPS

\* What a transfer rests on.
Entitled(row) ==
    /\ row.practice \in DOMAIN sessions
    /\ sessions[row.practice].stage = "solved"
    /\ sessions[row.practice].actor = row.actor
    /\ <<row.actor, row.pair>> \in exposures

\* A receipt is named after the score it cites.
IsNamed(e) == e.id = <<"receipt", e.sources[2]>>

IsReceipt(e) == e.type = "capability_receipt_issued"

Scored(e) == e.type \in {"practice_scored", "transfer_scored"}

\* A command may wait to be appended: its transfer is entitled, and a receipt comes alone.
Sound(c) ==
    /\ c.session # None =>
          c.session \in TransferIds /\ IsTransferRow(c.snapshot) /\ Entitled(c.snapshot)
    /\ \A e \in c.events : Scored(e) => IsScored(e)
    /\ \A e \in c.events : IsReceipt(e) => IsNamed(e) /\ c.events = {e}

\* The places of the handlers are well typed.
Places ==
    /\ pc \in [Handlers -> {"idle", "verified", "missed", "chosen", "exposed",
                            "prepared", "failed"}]
    /\ request \in [Handlers -> Requests \cup {None}]
    /\ reserved \in [Handlers -> Pairs \cup {None}]
    /\ DOMAIN command = Handlers

\* What a handler holds at each place.
PendingAt(h) ==
    /\ pc[h] # "idle" => request[h] \in Requests
    /\ pc[h] \in {"missed", "chosen", "exposed"} =>
          /\ Starts(request[h])
          /\ request[h].op = "retry" => request[h].target \in DOMAIN sessions
    /\ pc[h] \in {"chosen", "exposed"} => reserved[h] \in Pairs
    /\ pc[h] = "exposed" => <<request[h].actor, reserved[h]>> \in exposures
    /\ pc[h] = "prepared" => Sound(command[h])

Pending == \A h \in Handlers : PendingAt(h)

SessionTable ==
    /\ DOMAIN sessions \subseteq Practices \cup TransferIds
    /\ \A q \in DOMAIN sessions \cap Practices : sessions[q] \in PracticeRow
    /\ \A t \in Transfers : IsTransferRow(sessions[t]) /\ Entitled(sessions[t])
    /\ exposures \subseteq Actors \X Pairs

EventTable ==
    /\ \A e \in events : Scored(e) => IsScored(e)
    /\ \A e \in events : IsReceipt(e) => IsNamed(e)
    /\ \A e \in events, f \in events : IsReceipt(e) /\ IsReceipt(f) /\ e.id = f.id => e = f

\* The inductive invariant.
IndInv == Places /\ Pending /\ SessionTable /\ EventTable

\* What no step takes back: a row, a solved practice and its learner, an exposure.
Onward ==
    /\ DOMAIN sessions \subseteq DOMAIN sessions'
    /\ exposures \subseteq exposures'
    /\ \A q \in DOMAIN sessions \cap Practices :
          /\ sessions'[q].actor = sessions[q].actor
          /\ sessions[q].stage = "solved" => sessions'[q].stage = "solved"

-----------------------------------------------------------------------------
(* Requests and rows. *)

LEMMA RequestFields ==
    ASSUME NEW r \in Requests
    PROVE  /\ r.op \in {"start", "retry", "submit", "reveal", "receipt", "issue"}
           /\ r.actor \in Actors /\ r.key \in Keys
           /\ r.op = "start" => r.target \in Practices
           /\ r.op # "start" => r.target \in TransferIds
           /\ r.op = "submit" => r.arg \in Answers
  BY DEF Requests, RequestsFor

\* Fields of a transfer row, whatever its ledger.
LEMMA RowFields ==
    ASSUME NEW x, IsTransferRow(x)
    PROVE  x.actor \in Actors /\ x.practice \in Practices /\ x.pair \in Pairs
  BY DEF IsTransferRow, TransferRow

\* What was entitled stays so.
LEMMA EntitledStays ==
    ASSUME Onward, NEW x, x.practice \in Practices, Entitled(x)
    PROVE  Entitled(x)'
  BY DEF Onward, Entitled

LEMMA SoundStays ==
    ASSUME Onward, NEW c, Sound(c)
    PROVE  Sound(c)'
  <1>1. CASE c.session = None
    BY <1>1 DEF Sound
  <1>2. CASE c.session # None
    <2>1. Entitled(c.snapshot)'
      BY <1>2, RowFields, EntitledStays DEF Sound
    <2> QED
      BY <1>2, <2>1 DEF Sound
  <1> QED
    BY <1>1, <1>2

\* A handler that does not move keeps what it holds.
LEMMA OthersStay ==
    ASSUME Onward, NEW h \in Handlers, PendingAt(h),
           pc'[h] = pc[h], request'[h] = request[h],
           reserved'[h] = reserved[h], command'[h] = command[h]
    PROVE  PendingAt(h)'
  <1>1. pc[h] = "prepared" => Sound(command[h])'
    <2> SUFFICES ASSUME pc[h] = "prepared" PROVE Sound(command[h])'
      OBVIOUS
    <2>1. Sound(command[h])
      BY DEF PendingAt
    <2> QED
      BY <2>1, SoundStays
  <1> QED
    BY <1>1 DEF PendingAt, Onward, Starts

-----------------------------------------------------------------------------
(* Snapshots. *)

SameQuest(x, y) == x.actor = y.actor /\ x.practice = y.practice /\ x.pair = y.pair

LEMMA WithOperationType ==
    ASSUME NEW x, IsTransferRow(x), NEW k \in OperationKeys, NEW p \in Prints
    PROVE  IsTransferRow(WithOperation(x, k, p)) /\ SameQuest(WithOperation(x, k, p), x)
  <1> DEFINE ops == Upsert(x.operations, k, p)
             y == [x EXCEPT !.operations = ops]
  <1>1. WithOperation(x, k, p) = y
    BY DEF WithOperation
  <1>2. DOMAIN ops \subseteq OperationKeys /\ \A j \in DOMAIN ops : ops[j] \in Prints
    BY DEF Upsert, IsTransferRow
  <1> HIDE DEF ops
  <1>3. y.operations = ops /\ y \in TransferRow(ops) /\ SameQuest(y, x)
    BY DEF IsTransferRow, TransferRow, SameQuest
  <1> HIDE DEF y
  <1> QED
    BY <1>1, <1>2, <1>3 DEF IsTransferRow

LEMMA SubmittedType ==
    ASSUME NEW x, IsTransferRow(x), NEW outcome
    PROVE  IsTransferRow(Submitted(x, outcome)) /\ SameQuest(Submitted(x, outcome), x)
  <1> DEFINE stage == IF SatisfiesGradingGate(outcome) THEN "verified" ELSE "working"
             n == x.attempts + 1
             z == [x EXCEPT !.stage = stage]
             y == [z EXCEPT !.attempts = n]
  <1>1. stage \in {"working", "verified"} /\ n \in Nat
    BY DEF IsTransferRow, TransferRow
  <1> HIDE DEF stage
  <1>2. z \in TransferRow(x.operations) /\ z.operations = x.operations /\ SameQuest(z, x)
           /\ z.attempts = x.attempts
    BY <1>1 DEF IsTransferRow, TransferRow, SameQuest
  <1>3. Submitted(x, outcome) = y
    BY DEF Submitted, stage, IsTransferRow, TransferRow
  <1> HIDE DEF z, n
  <1>4. y \in TransferRow(x.operations) /\ y.operations = x.operations /\ SameQuest(y, x)
    BY <1>1, <1>2 DEF TransferRow, SameQuest
  <1> HIDE DEF y
  <1> QED
    BY <1>3, <1>4 DEF IsTransferRow

LEMMA RevealedType ==
    ASSUME NEW x, IsTransferRow(x)
    PROVE  IsTransferRow(Revealed(x)) /\ SameQuest(Revealed(x), x)
  <1> DEFINE y == [x EXCEPT !.revealed = TRUE]
  <1>1. y \in TransferRow(x.operations) /\ y.operations = x.operations /\ SameQuest(y, x)
    BY DEF IsTransferRow, TransferRow, SameQuest
  <1>2. Revealed(x) = y
    BY DEF Revealed
  <1> HIDE DEF y
  <1> QED
    BY <1>1, <1>2 DEF IsTransferRow

LEMMA StartedType ==
    ASSUME NEW r \in Requests, PracticeOf(r) \in Practices, NEW p \in Pairs
    PROVE  /\ IsTransferRow(StartedTransfer(r, p))
           /\ StartedTransfer(r, p).actor = r.actor
           /\ StartedTransfer(r, p).practice = PracticeOf(r)
           /\ StartedTransfer(r, p).pair = p
  BY RequestFields DEF StartedTransfer, IsTransferRow, TransferRow, EmptyTable

LEMMA SameQuestEntitled ==
    ASSUME NEW x, NEW y, SameQuest(y, x), Entitled(x)
    PROVE  Entitled(y)
  BY DEF SameQuest, Entitled

-----------------------------------------------------------------------------
(* Commands. *)

\* The practice of a start is a practice, also when a retry reads it from its transfer.
LEMMA PracticeOfStart ==
    ASSUME SessionTable, NEW r \in Requests, Starts(r),
           r.op = "retry" => r.target \in DOMAIN sessions
    PROVE  PracticeOf(r) \in Practices
  BY RequestFields, RowFields DEF SessionTable, Starts, PracticeOf, Row, Transfers

LEMMA TransferCommandFields ==
    ASSUME NEW r, NEW t, NEW key, NEW snap, NEW new
    PROVE  /\ TransferCommand(r, t, key, snap, new).session = t
           /\ TransferCommand(r, t, key, snap, new).snapshot = snap
           /\ TransferCommand(r, t, key, snap, new).events = new
  BY DEF TransferCommand

LEMMA StartCommandSound ==
    ASSUME SessionTable, NEW r \in Requests, Starts(r),
           r.op = "retry" => r.target \in DOMAIN sessions,
           NEW p \in Pairs, <<r.actor, p>> \in exposures,
           PracticeEligible(PracticeOf(r), r.actor)
    PROVE  Sound(StartCommand(r, p))
  <1> DEFINE key == <<r.op, r.key>>
             t == TransferOf(r)
             snap == WithOperation(StartedTransfer(r, p), key, <<"start", None>>)
             e == PlainEvent(t, key, 0, r.actor, "transfer_started", 0)
             c == StartCommand(r, p)
  <1>1. PracticeOf(r) \in Practices
    BY PracticeOfStart
  <1>2. key \in StartKeys /\ t \in TransferIds
    BY <1>1, RequestFields DEF Starts, StartKeys, TransferIds, TransferOf
  <1>3. IsTransferRow(snap) /\ SameQuest(snap, StartedTransfer(r, p))
    <2>1. key \in OperationKeys /\ <<"start", None>> \in Prints
      BY <1>2 DEF OperationKeys, Prints
    <2>2. IsTransferRow(StartedTransfer(r, p))
      BY <1>1, StartedType
    <2> QED
      BY <2>1, <2>2, WithOperationType
  <1>4. Entitled(snap)
    <2>1. Entitled(StartedTransfer(r, p))
      BY <1>1, StartedType DEF Entitled, PracticeEligible
    <2> QED
      BY <1>3, <2>1, SameQuestEntitled
  <1>5. ~Scored(e) /\ ~IsReceipt(e)
    BY DEF Scored, IsReceipt, PlainEvent, Event
  <1>6. c.session = t /\ c.snapshot = snap /\ c.events = {e}
    BY TransferCommandFields DEF StartCommand
  <1> HIDE DEF t, snap, e, c
  <1>7. Sound(c)
    BY <1>2, <1>3, <1>4, <1>5, <1>6 DEF Sound
  <1> QED
    BY <1>7 DEF c

LEMMA OutcomeTypes ==
    ASSUME NEW a \in ScoreOutcome
    PROVE  DeterministicOutcome(a) \in GradingOutcome
  BY DEF ScoreOutcome, GradingOutcome, DeterministicOutcome

LEMMA SubmitCommandSound ==
    ASSUME SessionTable, NEW r \in Requests, r.op = "submit", Exists(r),
           NEW score \in ScoreOutcome, NEW outcome \in GradingOutcome
    PROVE  Sound(SubmitCommand(r, score, outcome))
  <1> DEFINE key == CommandKey(r)
             next == Submitted(Row(r), outcome)
             snap == WithOperation(next, key, CommandPrint(r))
             e == PlainEvent(r.target, key, 0, r.actor, "transfer_submitted", next.attempts)
             f == Event(r.target, key, 1, r.actor, "transfer_scored", 0, score, outcome)
             c == SubmitCommand(r, score, outcome)
  <1>1. r.target \in TransferIds /\ IsTransferRow(Row(r)) /\ Entitled(Row(r))
    BY RequestFields DEF SessionTable, Transfers, Row, Exists
  <1>2. IsTransferRow(next) /\ SameQuest(next, Row(r))
    BY <1>1, SubmittedType
  <1>3. key \in OperationKeys /\ CommandPrint(r) \in Prints
    BY RequestFields DEF CommandKey, OperationKeys, CommandPrint, Prints
  <1>4. IsTransferRow(snap) /\ SameQuest(snap, next)
    <2> HIDE DEF next, key
    <2> QED
      BY <1>2, <1>3, WithOperationType
  <1>5. Entitled(snap)
    BY <1>1, <1>2, <1>4, SameQuestEntitled
  <1>6. ~Scored(e) /\ ~IsReceipt(e) /\ ~IsReceipt(f) /\ IsScored(f)
    BY DEF Scored, IsReceipt, PlainEvent, Event, IsScored
  <1>7. c.session = r.target /\ c.snapshot = snap /\ c.events = {e, f}
    BY TransferCommandFields DEF SubmitCommand
  <1> HIDE DEF snap, e, f, c
  <1>8. Sound(c)
    BY <1>1, <1>4, <1>5, <1>6, <1>7 DEF Sound
  <1> QED
    BY <1>8 DEF c

LEMMA RevealCommandSound ==
    ASSUME SessionTable, NEW r \in Requests, r.op = "reveal", Exists(r)
    PROVE  Sound(RevealCommand(r))
  <1> DEFINE snap == Revealed(Row(r))
             e == PlainEvent(r.target, CommandKey(r), 0, r.actor, "connection_revealed", 0)
             c == RevealCommand(r)
  <1>1. r.target \in TransferIds /\ IsTransferRow(Row(r)) /\ Entitled(Row(r))
    BY RequestFields DEF SessionTable, Transfers, Row, Exists
  <1>2. IsTransferRow(snap) /\ Entitled(snap)
    BY <1>1, RevealedType, SameQuestEntitled
  <1>3. ~Scored(e) /\ ~IsReceipt(e)
    BY DEF Scored, IsReceipt, PlainEvent, Event
  <1>4. c.session = r.target /\ c.snapshot = snap /\ c.events = {e}
    BY TransferCommandFields DEF RevealCommand
  <1> HIDE DEF snap, e, c
  <1>5. Sound(c)
    BY <1>1, <1>2, <1>3, <1>4 DEF Sound
  <1> QED
    BY <1>5 DEF c

\* The receipt a command carries is alone and named after the score it cites.
LEMMA IssueCommandSound ==
    ASSUME NEW r
    PROVE  Sound(IssueCommand(r))
  <1> DEFINE e == ReceiptEvent(r)
             c == IssueCommand(r)
  <1>1. IsNamed(e) /\ ~Scored(e)
    BY DEF ReceiptEvent, IsNamed, Scored, ReceiptId
  <1>2. c.session = None /\ c.events = {e}
    BY DEF IssueCommand
  <1> HIDE DEF e, c
  <1>3. Sound(c)
    BY <1>1, <1>2 DEF Sound
  <1> QED
    BY <1>3 DEF c

-----------------------------------------------------------------------------
(* The steps. *)

LEMMA InitEstablishes == QuestInit => IndInv
  BY DEF QuestInit, IndInv, Places, Pending, PendingAt, SessionTable, EventTable,
         EmptyTable, Transfers

\* Nothing is taken back when the store stays.
LEMMA StoreStays ==
    ASSUME UNCHANGED <<sessions, exposures>>
    PROVE  Onward
  BY DEF Onward

\* The tables stay sound when the rows stay.
LEMMA TableStays ==
    ASSUME SessionTable, UNCHANGED <<sessions, exposures>>
    PROVE  SessionTable'
  BY DEF SessionTable, Transfers, Entitled

LEMMA EventsStay ==
    ASSUME EventTable, UNCHANGED events
    PROVE  EventTable'
  BY DEF EventTable

\* The handlers keep what they hold while they do not move.
LEMMA HandlersStay ==
    ASSUME IndInv, Onward, UNCHANGED questHandlerVars
    PROVE  Places' /\ Pending'
  <1>1. Places'
    BY DEF IndInv, Places, questHandlerVars
  <1>2. ASSUME NEW h \in Handlers PROVE PendingAt(h)'
    BY <1>2, OthersStay DEF IndInv, Pending, questHandlerVars
  <1> QED
    BY <1>1, <1>2 DEF Pending

\* A handler that is done holds nothing.
LEMMA FinishHandlers ==
    ASSUME IndInv, Onward, NEW h \in Handlers, NEW code, Finish(h, code)
    PROVE  Places' /\ Pending'
  <1>1. Places'
    BY DEF IndInv, Places, Finish
  <1>2. ASSUME NEW g \in Handlers PROVE PendingAt(g)'
    <2>1. CASE g = h
      BY <2>1 DEF IndInv, Places, Finish, PendingAt
    <2>2. CASE g # h
      BY <2>2, OthersStay DEF IndInv, Places, Pending, Finish
    <2> QED
      BY <2>1, <2>2
  <1> QED
    BY <1>1, <1>2 DEF Pending

LEMMA ReplyPreserves ==
    ASSUME IndInv, NEW h \in Handlers, NEW code, Reply(h, code)
    PROVE  IndInv'
  <1>1. UNCHANGED <<sessions, exposures>> /\ UNCHANGED events
    BY DEF Reply, storeVars
  <1> QED
    BY <1>1, StoreStays, TableStays, EventsStay, FinishHandlers DEF IndInv, Reply

\* A handler moves on with what it holds there; the others keep theirs.
LEMMA ProceedPreserves ==
    ASSUME IndInv, Onward, SessionTable', NEW h \in Handlers, NEW to, Proceed(h, to),
           \A g \in Handlers \ {h} : reserved'[g] = reserved[g] /\ command'[g] = command[g],
           Places', PendingAt(h)'
    PROVE  IndInv'
  <1>1. EventTable'
    BY EventsStay DEF IndInv, Proceed, storeVars
  <1>2. ASSUME NEW g \in Handlers PROVE PendingAt(g)'
    <2>1. CASE g = h
      BY <2>1
    <2>2. CASE g # h
      BY <2>2, OthersStay DEF IndInv, Places, Pending, Proceed
    <2> QED
      BY <2>1, <2>2
  <1> QED
    BY <1>1, <1>2 DEF IndInv, Pending

LEMMA OpenPracticePreserves ==
    ASSUME IndInv, NEW q \in Practices, OpenPractice(q)
    PROVE  IndInv'
  <1> DEFINE row == [kind |-> "challenge", actor |-> OwnerOf[q], pair |-> PairOf[q],
                     stage |-> "attempting", operations |-> EmptyTable]
  <1>1. q \notin DOMAIN sessions /\ sessions' = Upsert(sessions, q, row)
    BY DEF OpenPractice
  <1>2. row \in PracticeRow
    BY QuestAssumption DEF PracticeRow
  <1> HIDE DEF row
  <1>3. /\ DOMAIN sessions' = DOMAIN sessions \cup {q}
        /\ sessions'[q] = row
        /\ \A s \in DOMAIN sessions : sessions'[s] = sessions[s]
    BY <1>1 DEF Upsert
  <1>4. exposures' = exposures /\ events' = events /\ UNCHANGED questHandlerVars
    BY DEF OpenPractice
  <1>5. Onward
    BY <1>3, <1>4 DEF Onward
  <1>6. SessionTable'
    <2>1. ASSUME NEW t \in Transfers' PROVE IsTransferRow(sessions'[t]) /\ Entitled(sessions[t])'
      <3>1. t \in Transfers /\ sessions'[t] = sessions[t]
        BY <1>3, QuestAssumption DEF Transfers, TransferIds, StartKeys
      <3>2. IsTransferRow(sessions[t]) /\ Entitled(sessions[t])
        BY <3>1 DEF IndInv, SessionTable
      <3> QED
        BY <1>5, <3>1, <3>2, RowFields DEF Onward, Entitled
    <2> QED
      BY <1>2, <1>3, <1>4, <2>1 DEF IndInv, SessionTable
  <1> QED
    BY <1>4, <1>5, <1>6, HandlersStay, EventsStay DEF IndInv

LEMMA SolvePracticePreserves ==
    ASSUME IndInv, NEW q \in Practices, SolvePractice(q)
    PROVE  IndInv'
  <1> DEFINE row == [sessions[q] EXCEPT !.stage = "solved"]
             e == Event(q, <<"practice", "submit">>, 1, OwnerOf[q], "practice_scored", 0,
                        IF PairOf[q] \in WrittenPractices THEN "invalid" ELSE "correct",
                        "CORRECT")
  <1>1. q \in DOMAIN sessions /\ sessions' = [sessions EXCEPT ![q] = row]
    BY DEF SolvePractice
  <1>2. row \in PracticeRow /\ row.stage = "solved" /\ row.actor = sessions[q].actor
    BY <1>1 DEF IndInv, SessionTable, PracticeRow
  <1>3. IsScored(e) /\ ~IsReceipt(e)
    BY DEF IsScored, IsReceipt, Event, ScoreOutcome, GradingOutcome
  <1>4. exposures' = exposures /\ events' = events \cup {e} /\ UNCHANGED questHandlerVars
    BY DEF SolvePractice
  <1> HIDE DEF row, e
  <1>5. DOMAIN sessions' = DOMAIN sessions /\ sessions'[q] = row
           /\ \A s \in DOMAIN sessions \ {q} : sessions'[s] = sessions[s]
    BY <1>1
  <1>6. Onward
    BY <1>2, <1>4, <1>5 DEF Onward
  <1>7. SessionTable'
    <2>1. ASSUME NEW t \in Transfers' PROVE IsTransferRow(sessions'[t]) /\ Entitled(sessions[t])'
      <3>1. t \in Transfers /\ sessions'[t] = sessions[t]
        BY <1>5, QuestAssumption DEF Transfers, TransferIds, StartKeys
      <3>2. IsTransferRow(sessions[t]) /\ Entitled(sessions[t])
        BY <3>1 DEF IndInv, SessionTable
      <3> QED
        BY <1>6, <3>1, <3>2, RowFields DEF Onward, Entitled
    <2> QED
      BY <1>2, <1>4, <1>5, <2>1 DEF IndInv, SessionTable
  <1>8. EventTable'
    BY <1>3, <1>4 DEF IndInv, EventTable
  <1> QED
    BY <1>4, <1>6, <1>7, <1>8, HandlersStay DEF IndInv

LEMMA SignInPreserves ==
    ASSUME IndInv, NEW a, NEW t, SignIn(a, t)
    PROVE  IndInv'
  BY StoreStays, TableStays, EventsStay, HandlersStay DEF SignIn, IndInv

LEMMA ReceivePreserves ==
    ASSUME IndInv, NEW h \in Handlers, NEW r \in Requests, Receive(h, r)
    PROVE  IndInv'
  <1>1. UNCHANGED <<sessions, exposures>> /\ UNCHANGED events
    BY DEF Receive, storeVars
  <1>2. Places'
    BY DEF IndInv, Places, Receive
  <1>3. ASSUME NEW g \in Handlers PROVE PendingAt(g)'
    <2>1. CASE g = h
      BY <2>1 DEF IndInv, Places, Receive, PendingAt
    <2>2. CASE g # h
      BY <1>1, <2>2, StoreStays, OthersStay DEF IndInv, Places, Pending, Receive
    <2> QED
      BY <2>1, <2>2
  <1> QED
    BY <1>1, <1>2, <1>3, TableStays, EventsStay DEF IndInv, Pending

LEMMA DiePreserves ==
    ASSUME IndInv, NEW h \in Handlers, Die(h)
    PROVE  IndInv'
  <1>1. UNCHANGED <<sessions, exposures>> /\ UNCHANGED events
    BY DEF Die, storeVars
  <1>2. Places'
    BY DEF IndInv, Places, Die
  <1>3. ASSUME NEW g \in Handlers PROVE PendingAt(g)'
    <2>1. CASE g = h
      BY <2>1 DEF IndInv, Places, Die, PendingAt
    <2>2. CASE g # h
      BY <1>1, <2>2, StoreStays, OthersStay DEF IndInv, Places, Pending, Die
    <2> QED
      BY <2>1, <2>2
  <1> QED
    BY <1>1, <1>2, <1>3, TableStays, EventsStay DEF IndInv, Pending

LEMMA ResumeStartPreserves ==
    ASSUME IndInv, NEW h \in Handlers, ResumeStart(h)
    PROVE  IndInv'
  <1> DEFINE r == request[h]
  <1>1. CASE \E code : Reply(h, code)
    BY <1>1, ReplyPreserves
  <1>2. CASE /\ Starts(r) /\ (r.op = "retry" => LoadRefusal(r) = "none")
             /\ Proceed(h, "missed") /\ UNCHANGED <<exposures, reserved, command>>
    <2>1. UNCHANGED <<sessions, exposures>> /\ r.op = "retry" => Exists(r)
      BY <1>2 DEF LoadRefusal
    <2>2. sessions' = sessions /\ exposures' = exposures
      BY <1>2 DEF Proceed, storeVars
    <2>3. r \in Requests
      BY DEF IndInv, Pending, PendingAt, ResumeStart
    <2>4. PendingAt(h)'
      BY <1>2, <2>1, <2>2, <2>3 DEF IndInv, Places, Proceed, PendingAt, Exists, Starts
    <2>5. Places'
      BY <1>2 DEF IndInv, Places, Proceed
    <2> QED
      BY <1>2, <2>2, <2>4, <2>5, StoreStays, TableStays, ProceedPreserves DEF IndInv
  <1> QED
    BY <1>1, <1>2 DEF ResumeStart

LEMMA ChoosePairPreserves ==
    ASSUME IndInv, NEW h \in Handlers, ChoosePair(h)
    PROVE  IndInv'
  <1>1. CASE \E code : Reply(h, code)
    BY <1>1, ReplyPreserves
  <1>2. CASE /\ \E p \in FreshPairs(request[h].actor) : reserved' = [reserved EXCEPT ![h] = p]
             /\ Proceed(h, "chosen") /\ UNCHANGED <<exposures, command>>
    <2>1. PICK p \in Pairs : reserved' = [reserved EXCEPT ![h] = p]
      BY <1>2 DEF FreshPairs
    <2>2. sessions' = sessions /\ exposures' = exposures
      BY <1>2 DEF Proceed, storeVars
    <2>3. PendingAt(h) /\ pc[h] = "missed"
      BY DEF IndInv, Pending, ChoosePair
    <2>4. PendingAt(h)'
      BY <1>2, <2>1, <2>2, <2>3 DEF IndInv, Places, Proceed, PendingAt, Starts
    <2>5. Places' /\ \A g \in Handlers \ {h} : reserved'[g] = reserved[g]
      BY <1>2, <2>1 DEF IndInv, Places, Proceed
    <2> QED
      BY <1>2, <2>2, <2>4, <2>5, StoreStays, TableStays, ProceedPreserves DEF IndInv
  <1> QED
    BY <1>1, <1>2 DEF ChoosePair

LEMMA RecordExposurePreserves ==
    ASSUME IndInv, NEW h \in Handlers, RecordExposure(h)
    PROVE  IndInv'
  <1>1. /\ sessions' = sessions
        /\ exposures' = exposures \cup {<<request[h].actor, reserved[h]>>}
        /\ Proceed(h, "exposed") /\ UNCHANGED <<reserved, command>>
    BY DEF RecordExposure, Proceed, storeVars
  <1>2. PendingAt(h) /\ pc[h] = "chosen"
    BY DEF IndInv, Pending, RecordExposure
  <1>3. request[h].actor \in Actors /\ reserved[h] \in Pairs
    BY <1>2, RequestFields DEF PendingAt
  <1>4. Onward
    BY <1>1 DEF Onward
  <1>5. SessionTable'
    BY <1>1, <1>3 DEF IndInv, SessionTable, Transfers, Entitled
  <1>6. PendingAt(h)'
    BY <1>1, <1>2 DEF IndInv, Places, Proceed, PendingAt, Starts
  <1>7. Places'
    BY <1>1 DEF IndInv, Places, Proceed
  <1> QED
    BY <1>1, <1>4, <1>5, <1>6, <1>7, ProceedPreserves

\* A handler prepares a sound command.
LEMMA PreparePreserves ==
    ASSUME IndInv, NEW h \in Handlers, NEW c, Sound(c), Prepare(h, c),
           pc[h] # "idle"
    PROVE  IndInv'
  <1>1. sessions' = sessions /\ exposures' = exposures /\ reserved' = reserved
           /\ command' = [command EXCEPT ![h] = c] /\ Proceed(h, "prepared")
    BY DEF Prepare, Proceed, storeVars
  <1>2. Sound(c)'
    BY <1>1, StoreStays, SoundStays
  <1>3. Places' /\ command'[h] = c /\ \A g \in Handlers \ {h} : command'[g] = command[g]
    BY <1>1 DEF IndInv, Places, Proceed
  <1>4. PendingAt(h)'
    BY <1>1, <1>2, <1>3 DEF IndInv, Places, Pending, PendingAt, Proceed, Sound, Entitled
  <1> QED
    BY <1>1, <1>3, <1>4, StoreStays, TableStays, ProceedPreserves DEF IndInv

LEMMA LoadStartPreserves ==
    ASSUME IndInv, NEW h \in Handlers, LoadStart(h)
    PROVE  IndInv'
  <1>1. CASE \E code : Reply(h, code)
    BY <1>1, ReplyPreserves
  <1>2. CASE /\ PracticeEligible(PracticeOf(request[h]), request[h].actor)
             /\ Prepare(h, StartCommand(request[h], reserved[h]))
    <2>1. PendingAt(h) /\ pc[h] = "exposed"
      BY DEF IndInv, Pending, LoadStart
    <2>2. Sound(StartCommand(request[h], reserved[h]))
      BY <1>2, <2>1, StartCommandSound DEF PendingAt, IndInv
    <2> QED
      BY <1>2, <2>1, <2>2, PreparePreserves
  <1> QED
    BY <1>1, <1>2 DEF LoadStart

LEMMA LoadCommandPreserves ==
    ASSUME IndInv, NEW h \in Handlers, LoadCommand(h)
    PROVE  IndInv'
  <1> DEFINE r == request[h]
  <1>1. r \in Requests /\ pc[h] # "idle"
    BY DEF IndInv, Pending, PendingAt, LoadCommand
  <1>2. CASE \E code : Reply(h, code)
    BY <1>2, ReplyPreserves
  <1>3. ASSUME CommandRefusal(r) = "none" PROVE Exists(r)
    BY <1>3 DEF CommandRefusal, LoadRefusal
  <1>4. CASE CommandRefusal(r) = "none" /\ r.op = "reveal" /\ Prepare(h, RevealCommand(r))
    BY <1>1, <1>3, <1>4, RevealCommandSound, PreparePreserves DEF IndInv
  <1>5. CASE /\ CommandRefusal(r) = "none" /\ r.op = "submit"
             /\ \E outcome \in GradingOutcome : Prepare(h, SubmitCommand(r, "invalid", outcome))
    <2>1. PICK outcome \in GradingOutcome : Prepare(h, SubmitCommand(r, "invalid", outcome))
      BY <1>5
    <2>2. "invalid" \in ScoreOutcome
      BY DEF ScoreOutcome
    <2> QED
      BY <1>1, <1>3, <1>5, <2>1, <2>2, SubmitCommandSound, PreparePreserves DEF IndInv
  <1>6. CASE /\ CommandRefusal(r) = "none" /\ r.op = "submit"
             /\ Prepare(h, SubmitCommand(r, r.arg, DeterministicOutcome(r.arg)))
    <2>1. r.arg \in ScoreOutcome
      BY <1>1, <1>6, RequestFields, QuestAssumption
    <2>2. DeterministicOutcome(r.arg) \in GradingOutcome
      BY <2>1, OutcomeTypes
    <2> QED
      BY <1>1, <1>3, <1>6, <2>1, <2>2, SubmitCommandSound, PreparePreserves DEF IndInv
  <1> QED
    BY <1>2, <1>4, <1>5, <1>6 DEF LoadCommand

LEMMA LoadIssuePreserves ==
    ASSUME IndInv, NEW h \in Handlers, LoadIssue(h)
    PROVE  IndInv'
  <1>1. CASE \E code : Reply(h, code)
    BY <1>1, ReplyPreserves
  <1>2. CASE Prepare(h, IssueCommand(request[h]))
    <2>1. pc[h] # "idle"
      BY DEF LoadIssue
    <2> QED
      BY <1>2, <2>1, IssueCommandSound, PreparePreserves
  <1> QED
    BY <1>1, <1>2 DEF LoadIssue

\* The rows after a commit.
LEMMA CommitRows ==
    ASSUME IndInv, NEW c, Sound(c), Commit(c), UNCHANGED exposures
    PROVE  SessionTable' /\ Onward
  <1>1. CASE c.session = None
    BY <1>1, StoreStays, TableStays DEF IndInv, Commit
  <1>2. CASE c.session # None
    <2>1. c.session \in TransferIds /\ IsTransferRow(c.snapshot) /\ Entitled(c.snapshot)
      BY <1>2 DEF Sound
    <2>2. c.session \notin Practices
      BY <2>1, QuestAssumption DEF TransferIds, StartKeys
    <2>3. /\ DOMAIN sessions' = DOMAIN sessions \cup {c.session}
          /\ sessions'[c.session] = c.snapshot
          /\ \A s \in DOMAIN sessions \ {c.session} : sessions'[s] = sessions[s]
      BY <1>2 DEF Commit, Upsert
    <2>4. Onward
      BY <2>2, <2>3 DEF Onward
    <2>5. ASSUME NEW t \in Transfers' PROVE IsTransferRow(sessions'[t]) /\ Entitled(sessions[t])'
      <3>1. CASE t = c.session
        <4>1. Entitled(c.snapshot)'
          BY <2>1, <2>4, RowFields, EntitledStays
        <4> QED
          BY <2>1, <2>3, <3>1, <4>1 DEF Entitled
      <3>2. CASE t # c.session
        <4>1. t \in Transfers /\ sessions'[t] = sessions[t]
          BY <2>3, <3>2 DEF Transfers
        <4>2. IsTransferRow(sessions[t]) /\ Entitled(sessions[t])
          BY <4>1 DEF IndInv, SessionTable
        <4> QED
          BY <2>4, <4>1, <4>2, RowFields DEF Onward, Entitled
      <3> QED
        BY <3>1, <3>2
    <2>6. SessionTable'
      BY <2>1, <2>2, <2>3, <2>5 DEF IndInv, SessionTable
    <2> QED
      BY <2>4, <2>6
  <1> QED
    BY <1>1, <1>2

\* The events after a commit: no event of the command has the name of a stored one, and
\* a receipt comes alone.
LEMMA CommitEvents ==
    ASSUME IndInv, NEW c, Sound(c), ~EventExists(c), Commit(c)
    PROVE  EventTable'
  <1>1. events' = events \cup c.events
    BY DEF Commit
  <1>2. \A e \in events, f \in c.events : e.id # f.id
    BY DEF EventExists
  <1>3. \A e \in events, f \in events : IsReceipt(e) /\ IsReceipt(f) /\ e.id = f.id => e = f
    BY DEF IndInv, EventTable
  <1>4. \A e \in c.events, f \in c.events : IsReceipt(e) => e = f
    BY DEF Sound
  <1>5. \A e \in events', f \in events' : IsReceipt(e) /\ IsReceipt(f) /\ e.id = f.id => e = f
    BY <1>1, <1>2, <1>3, <1>4
  <1> QED
    BY <1>1, <1>5 DEF IndInv, EventTable, Sound

LEMMA AppendPreserves ==
    ASSUME IndInv, NEW h \in Handlers, Append(h)
    PROVE  IndInv'
  <1>1. CASE AppendCommits(h)
    <2>1. Sound(command[h])
      BY <1>1 DEF IndInv, Pending, PendingAt, AppendCommits
    <2>2. SessionTable' /\ Onward
      BY <1>1, <2>1, CommitRows DEF AppendCommits
    <2>3. EventTable'
      BY <1>1, <2>1, CommitEvents DEF AppendCommits, MayCommit
    <2>4. Places' /\ Pending'
      BY <1>1, <2>2, FinishHandlers DEF AppendCommits
    <2> QED
      BY <2>2, <2>3, <2>4 DEF IndInv
  <1>2. CASE \E code : Reply(h, code)
    BY <1>2, ReplyPreserves
  <1>3. CASE /\ pc[h] # "idle" /\ pc' = [pc EXCEPT ![h] = "failed"]
             /\ UNCHANGED <<storeVars, exposures, request, reserved, command>>
    <2>1. UNCHANGED <<sessions, exposures>> /\ UNCHANGED events
      BY <1>3 DEF storeVars
    <2>2. Places'
      BY <1>3 DEF IndInv, Places
    <2>3. ASSUME NEW g \in Handlers PROVE PendingAt(g)'
      <3>1. CASE g = h
        BY <1>3, <3>1 DEF IndInv, Places, Pending, PendingAt
      <3>2. CASE g # h
        BY <1>3, <2>1, <3>2, StoreStays, OthersStay DEF IndInv, Places, Pending
      <3> QED
        BY <3>1, <3>2
    <2> QED
      BY <2>1, <2>2, <2>3, TableStays, EventsStay DEF IndInv, Pending
  <1> QED
    BY <1>1, <1>2, <1>3 DEF Append, AppendReplays, AppendFails, Relist

LEMMA NextPreserves == IndInv /\ [QuestNext]_questVars => IndInv'
  <1> SUFFICES ASSUME IndInv, [QuestNext]_questVars PROVE IndInv'
    OBVIOUS
  <1>1. CASE UNCHANGED questVars
    BY <1>1, StoreStays, TableStays, EventsStay, HandlersStay DEF questVars, storeVars, IndInv
  <1>2. CASE \E q \in Practices : OpenPractice(q) \/ SolvePractice(q)
    BY <1>2, OpenPracticePreserves, SolvePracticePreserves
  <1>3. CASE \E a \in Actors, t \in ActorSessions : SignIn(a, t)
    BY <1>3, SignInPreserves
  <1>4. ASSUME NEW h \in Handlers, \E r \in Requests : Receive(h, r) PROVE IndInv'
    BY <1>4, ReceivePreserves
  <1>5. ASSUME NEW h \in Handlers, ServeStart(h) PROVE IndInv'
    BY <1>5, ResumeStartPreserves, ChoosePairPreserves, RecordExposurePreserves,
       LoadStartPreserves DEF ServeStart
  <1>6. ASSUME NEW h \in Handlers, LoadCommand(h) \/ LoadIssue(h) \/ Append(h) \/ Die(h)
        PROVE  IndInv'
    BY <1>6, LoadCommandPreserves, LoadIssuePreserves, AppendPreserves, DiePreserves
  <1> QED
    BY <1>1, <1>2, <1>3, <1>4, <1>5, <1>6 DEF QuestNext

LEMMA Invariance == QuestSpec => []IndInv
  BY InitEstablishes, NextPreserves, PTL DEF QuestSpec

-----------------------------------------------------------------------------
(* The theorems. *)

\* The tables and the handlers' places stay well typed, whatever requests race.
THEOREM QuestTypeCorrect == QuestSpec => []QuestTypeOK
  <1>1. IndInv => QuestTypeOK
    BY DEF IndInv, Places, SessionTable, EventTable, QuestTypeOK, Scored
  <1> QED
    BY <1>1, Invariance, PTL

\* However a start was delayed, its transfer rests on a solved practice of its learner and
\* on a recorded exposure (runtime/server.ts, startPublishedTransfer).
THEOREM TransfersAreEntitled == QuestSpec => []TransferIsEntitled
  <1>1. IndInv => TransferIsEntitled
    BY DEF IndInv, SessionTable, TransferIsEntitled, Entitled
  <1> QED
    BY <1>1, Invariance, PTL

\* However many issues race, under whatever keys, a transfer score has one receipt
\* (receipts/service.ts, issue).
THEOREM ReceiptsAreUnique == QuestSpec => []OneReceiptPerScore
  <1>1. IndInv => OneReceiptPerScore
    BY DEF IndInv, EventTable, OneReceiptPerScore, Receipts, IsReceipt, IsNamed
  <1> QED
    BY <1>1, Invariance, PTL
=============================================================================
