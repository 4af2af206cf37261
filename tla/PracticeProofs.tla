---------------------------- MODULE PracticeProofs ----------------------------
(***************************************************************************)
(* Proofs about PracticeChallenge, for any number of handlers, learners,   *)
(* sessions and keys: its type invariant, the claim that a command the     *)
(* store admits was computed from the snapshot it overwrites, that a       *)
(* solved session is final, and that it implements PracticeLifecycle.      *)
(*                                                                         *)
(* The argument: a ledger only grows, and a commit adds exactly its own    *)
(* key, which was not there.  So the ledger a handler loaded is part of    *)
(* the stored one, and equal to it only while nothing was committed.  The  *)
(* store refuses a command that omits a stored operation, or whose key is  *)
(* recorded; what passes was computed from the stored snapshot.            *)
(***************************************************************************)
EXTENDS PracticeProperties, TLAPS

\* What a prepared command was computed from.
Computed(h) ==
    LET r == request[h]
        b == loaded[h]
    IN \/ /\ Starts(r) /\ b = None
          /\ command[h] = CommandFor(r, Started(r), Unset, Unset)
       \/ /\ IsSnapshot(b) /\ b.actor = r.actor /\ r.key \notin DOMAIN b.operations
          /\ \/ /\ r.op \in {"attempt", "cannot_start"} /\ b.stage # "solved"
                /\ command[h] = CommandFor(r, Attempted(b), Unset, Unset)
             \/ /\ r.op = "open_hint" /\ b.stage \in {"attempting", "assisted"}
                /\ b.attempts >= 1
                /\ command[h] = CommandFor(r, HintOpened(b), Unset, Unset)
             \/ /\ r.op = "submit" /\ b.stage \in {"attempting", "assisted"}
                /\ \E score \in ScoreOutcome, outcome \in GradingOutcome :
                      command[h] = CommandFor(r, Submitted(b, score, outcome), score, outcome)

\* A handler past verification has a request, and past loading a command computed from
\* what it loaded.
HandlersConsistent ==
    \A h \in Handlers :
        /\ pc[h] # "idle" => request[h] \in Requests
        /\ pc[h] = "prepared" => Computed(h)

\* A stored ledger holds at least the operation that opened the session.
LedgersNotEmpty == \A s \in DOMAIN sessions : DOMAIN sessions[s].operations # {}

\* Unless its learner was signed out meanwhile, the session a handler loaded is still there
\* and still its learner's, the ledger it loaded is part of the stored one, and while it is
\* all of it the stored snapshot is the loaded one.
LoadedIsPast ==
    \A h \in Handlers :
        pc[h] = "prepared" /\ ~Starts(request[h]) /\ ~SessionRevoked(command[h]) =>
            LET s == request[h].session IN
            /\ s \in DOMAIN sessions
            /\ sessions[s].actor = loaded[h].actor
            /\ DOMAIN loaded[h].operations \subseteq DOMAIN sessions[s].operations
            /\ DOMAIN loaded[h].operations = DOMAIN sessions[s].operations =>
                   loaded[h] = sessions[s]

\* The inductive invariant.
IndInv ==
    /\ TypeOK
    /\ LedgerIsRecorded
    /\ HandlersConsistent
    /\ LedgersNotEmpty
    /\ LoadedIsPast

-----------------------------------------------------------------------------
(* Operators. *)

\* INSERT ... ON CONFLICT DO UPDATE sets one row and keeps the others.
LEMMA UpsertRow ==
    ASSUME NEW table, NEW key, NEW row
    PROVE  /\ DOMAIN Upsert(table, key, row) = DOMAIN table \cup {key}
           /\ Upsert(table, key, row)[key] = row
           /\ \A k \in DOMAIN table : k # key => Upsert(table, key, row)[k] = table[k]
           /\ Upsert(table, key, row) =
                  [k \in DOMAIN table \cup {key} |-> Upsert(table, key, row)[k]]
  BY DEF Upsert

\* The fields of a request.
LEMMA RequestFields ==
    ASSUME NEW r \in Requests
    PROVE  /\ r.session \in Sessions /\ r.actor \in Actors /\ r.key \in Keys
           /\ r.op \in Ops /\ r.arg \in ArgumentsOf(r.op)
           /\ r.actorSession \in ActorSessions
<1> DEFINE Of(o) == [op : {o}, session : Sessions, actor : Actors,
                     actorSession : ActorSessions, key : Keys, arg : ArgumentsOf(o)]
<1>1. r \in UNION {Of(o) : o \in Ops}
  BY DEF Requests
<1> HIDE DEF Of
<1>2. PICK o \in Ops : r \in Of(o)
  BY <1>1
<1> QED BY <1>2 DEF Of

\* A request is never mistaken for the absence of one.
LEMMA RequestIsMade == \A r \in Requests : r # None
BY NoneIsNoRequest

\* The fingerprint string of a request is one of the fingerprint strings.
LEMMA PrintType ==
    ASSUME NEW r \in Requests
    PROVE  CommandPrint(r) \in Prints
<1>1. r.op \in {"start", "start_published", "attempt", "cannot_start", "open_hint", "submit"}
  BY RequestFields, ConstantAssumption
<1>2. r.arg \in Args
  <2>1. r.arg \in ArgumentsOf(r.op)
    BY RequestFields
  <2> QED BY <2>1, <1>1 DEF ArgumentsOf, Args
<1> QED BY <1>1, <1>2 DEF CommandPrint, Prints, Starts

\* Recording an operation keeps a snapshot a snapshot, adds the key to its ledger and
\* changes nothing else in it.
LEMMA WithOperationType ==
    ASSUME NEW x, IsSnapshot(x), NEW r \in Requests
    PROVE  /\ IsSnapshot(WithOperation(x, r))
           /\ DOMAIN WithOperation(x, r).operations = DOMAIN x.operations \cup {r.key}
           /\ \A k \in DOMAIN x.operations :
                 k # r.key => WithOperation(x, r).operations[k] = x.operations[k]
           /\ WithOperation(x, r).actor = x.actor
           /\ WithOperation(x, r).pair = x.pair
           /\ WithOperation(x, r).stage = x.stage
           /\ WithOperation(x, r).attempts = x.attempts
           /\ WithOperation(x, r).submissions = x.submissions
           /\ WithOperation(x, r).hints = x.hints
<1> DEFINE row == [print |-> CommandPrint(r), result |-> ResultFor(x)]
           ops == Upsert(x.operations, r.key, row)
           y == WithOperation(x, r)
<1>1. row \in Operations
  BY PrintType DEF Operations, IsSnapshot, SnapshotsWith, ResultFor, Results
<1>2. r.key \in Keys
  BY RequestFields
<1>3. /\ DOMAIN ops = DOMAIN x.operations \cup {r.key}
      /\ \A k \in DOMAIN x.operations : k # r.key => ops[k] = x.operations[k]
  BY DEF Upsert
<1>4. IsLedger(ops)
  <2>1. IsLedger(x.operations)
    BY DEF IsSnapshot
  <2> QED BY <2>1, <1>1, <1>2 DEF IsLedger, Upsert
<1>5. x \in SnapshotsWith(x.operations)
  BY DEF IsSnapshot
<1>6. /\ y.operations = ops /\ y.actor = x.actor /\ y.pair = x.pair /\ y.stage = x.stage
      /\ y.attempts = x.attempts /\ y.submissions = x.submissions /\ y.hints = x.hints
      /\ y \in SnapshotsWith(ops)
  <2> HIDE DEF ops
  <2>1. y = [x EXCEPT !.operations = ops]
    BY DEF WithOperation, ops
  <2> QED BY <2>1, <1>5 DEF SnapshotsWith
<1> HIDE DEF ops, y
<1>7. IsSnapshot(y)
  BY <1>4, <1>6 DEF IsSnapshot
<1> QED BY <1>3, <1>6, <1>7 DEF y

\* The snapshot a session starts with is a snapshot.
LEMMA StartedType ==
    ASSUME NEW r \in Requests, Starts(r)
    PROVE  IsSnapshot(Started(r))
<1>1. r.arg \in Pairs /\ r.actor \in Actors
  BY RequestFields DEF Starts, ArgumentsOf
<1>2. IsLedger(EmptyTable)
  BY DEF EmptyTable, IsLedger
<1> QED BY <1>1, <1>2 DEF Started, IsSnapshot, SnapshotsWith, Stage, Scores, Outcomes

\* The snapshots the other operations compute are snapshots with the same ledger.
LEMMA NextSnapshotTypes ==
    ASSUME NEW b, IsSnapshot(b)
    PROVE  /\ IsSnapshot(Attempted(b)) /\ Attempted(b).operations = b.operations
           /\ Attempted(b).actor = b.actor
           /\ IsSnapshot(HintOpened(b)) /\ HintOpened(b).operations = b.operations
           /\ HintOpened(b).actor = b.actor
           /\ \A score \in ScoreOutcome, outcome \in GradingOutcome :
                  /\ IsSnapshot(Submitted(b, score, outcome))
                  /\ Submitted(b, score, outcome).operations = b.operations
                  /\ Submitted(b, score, outcome).actor = b.actor
<1> DEFINE Like == {x \in SnapshotsWith(b.operations) : x.actor = b.actor}
<1>1. b \in Like /\ IsLedger(b.operations)
  BY DEF IsSnapshot
<1>2. \A y \in Like : y.operations = b.operations /\ y.actor = b.actor
  BY DEF SnapshotsWith
<1>3. Attempted(b) \in Like
  <2> DEFINE stage == IF b.stage = "assisted" THEN "assisted" ELSE "attempting"
             attempts == b.attempts + 1
  <2>1. stage \in Stage /\ attempts \in Nat
    BY <1>1 DEF SnapshotsWith, Stage
  <2>2. Attempted(b) = [b EXCEPT !.stage = stage, !.attempts = attempts]
    BY DEF Attempted
  <2> HIDE DEF stage, attempts
  <2> QED BY <1>1, <2>1, <2>2 DEF SnapshotsWith
<1>4. HintOpened(b) \in Like
  <2> DEFINE hints == b.hints + 1
  <2>1. "assisted" \in Stage /\ hints \in Nat
    BY <1>1 DEF SnapshotsWith, Stage
  <2>2. HintOpened(b) = [b EXCEPT !.stage = "assisted", !.hints = hints]
    BY DEF HintOpened
  <2> HIDE DEF hints
  <2> QED BY <1>1, <2>1, <2>2 DEF SnapshotsWith
<1>5. ASSUME NEW score \in ScoreOutcome, NEW outcome \in GradingOutcome
      PROVE  Submitted(b, score, outcome) \in Like
  <2> DEFINE stage == IF SatisfiesGradingGate(outcome) THEN "solved"
                      ELSE IF b.hints > 0 THEN "assisted" ELSE "attempting"
             submissions == b.submissions + 1
  <2>1. /\ stage \in Stage /\ submissions \in Nat
        /\ score \in Scores /\ outcome \in Outcomes
    BY <1>1 DEF SnapshotsWith, Stage, Scores, Outcomes
  <2>2. Submitted(b, score, outcome) = [b EXCEPT !.stage = stage, !.submissions = submissions,
                                          !.lastScore = score, !.lastOutcome = outcome]
    BY DEF Submitted
  <2> HIDE DEF stage, submissions
  <2> QED BY <1>1, <2>1, <2>2 DEF SnapshotsWith
<1>6. \A y \in Like : IsSnapshot(y)
  BY <1>1, <1>2 DEF IsSnapshot
<1> HIDE DEF Like
<1> QED BY <1>2, <1>3, <1>4, <1>5, <1>6

\* The command computed from a request and the snapshot it leads to is a command.
LEMMA CommandForType ==
    ASSUME NEW r \in Requests, NEW next, IsSnapshot(next),
           NEW score \in Scores, NEW outcome \in Outcomes
    PROVE  IsCommand(CommandFor(r, next, score, outcome))
<1>1. r.session \in Sessions /\ r.key \in Keys /\ r.actorSession \in ActorSessions
  BY RequestFields
<1>2. next.actor \in Actors /\ next.attempts \in Nat /\ next.submissions \in Nat
  BY DEF IsSnapshot, SnapshotsWith
<1>3. \A n \in {0, 1}, type \in EventType, ordinal \in Nat, sc \in Scores, out \in Outcomes :
          Event(r.session, r.key, n, next.actor, type, ordinal, sc, out) \in EvidenceEvent
  BY <1>1, <1>2 DEF Event, EvidenceEvent
<1>4. \A n \in {0, 1}, type \in EventType, ordinal \in Nat :
          PlainEvent(r.session, r.key, n, next.actor, type, ordinal) \in EvidenceEvent
  BY <1>3 DEF PlainEvent, Scores, Outcomes
<1>5. EventsFor(r, next, score, outcome) \in SUBSET EvidenceEvent
  <2>1. r.op \in {"start", "start_published", "attempt", "cannot_start", "open_hint", "submit"}
    BY RequestFields, ConstantAssumption
  <2> HIDE DEF Event, PlainEvent, EvidenceEvent
  <2> QED BY <2>1, <1>2, <1>3, <1>4 DEF EventsFor, Starts, EventType
<1>6. IsSnapshot(WithOperation(next, r))
  BY WithOperationType
<1>7. FenceOf(r) \in ActorSessions \cup {NoActorSession}
  BY <1>1 DEF FenceOf
<1> QED BY <1>1, <1>2, <1>5, <1>6, <1>7 DEF CommandFor, IsCommand

\* What a computed command has in common with its request and with what was loaded.
LEMMA ComputedCommand ==
    ASSUME NEW h \in Handlers, Computed(h), request[h] \in Requests
    PROVE  /\ IsCommand(command[h])
           /\ command[h].session = request[h].session
           /\ command[h].key = <<request[h].session, request[h].key>>
           /\ command[h].actorSession = FenceOf(request[h])
           /\ command[h].actor = request[h].actor
           /\ command[h].snapshot.actor = request[h].actor
           /\ Starts(request[h]) =>
                 /\ loaded[h] = None
                 /\ DOMAIN command[h].snapshot.operations = {request[h].key}
           /\ ~Starts(request[h]) =>
                 /\ IsSnapshot(loaded[h])
                 /\ loaded[h].actor = request[h].actor
                 /\ loaded[h].stage # "solved"
                 /\ request[h].key \notin DOMAIN loaded[h].operations
                 /\ DOMAIN command[h].snapshot.operations =
                        DOMAIN loaded[h].operations \cup {request[h].key}
                 /\ \A k \in DOMAIN loaded[h].operations :
                        command[h].snapshot.operations[k] = loaded[h].operations[k]
<1> DEFINE r == request[h]
           b == loaded[h]
<1>1. ASSUME NEW next, NEW score, NEW outcome
      PROVE  LET c == CommandFor(r, next, score, outcome) IN
             /\ c.session = r.session /\ c.key = <<r.session, r.key>>
             /\ c.actor = next.actor /\ c.actorSession = FenceOf(r)
             /\ c.snapshot = WithOperation(next, r)
  BY DEF CommandFor
<1>2. CASE Starts(r) /\ b = None /\ command[h] = CommandFor(r, Started(r), Unset, Unset)
  <2>1. /\ IsSnapshot(Started(r)) /\ DOMAIN Started(r).operations = {}
        /\ Started(r).actor = r.actor
    BY <1>2, StartedType DEF Started, EmptyTable
  <2>2. IsCommand(command[h])
    BY <1>2, <2>1, CommandForType DEF Scores, Outcomes
  <2>3. /\ DOMAIN command[h].snapshot.operations = {r.key}
        /\ command[h].snapshot.actor = r.actor
    BY <1>1, <1>2, <2>1, WithOperationType
  <2> QED BY <1>1, <1>2, <2>1, <2>2, <2>3
<1>3. ASSUME IsSnapshot(b), r.key \notin DOMAIN b.operations, b.stage # "solved", ~Starts(r),
             b.actor = r.actor,
             NEW next, IsSnapshot(next), next.operations = b.operations, next.actor = b.actor,
             NEW score \in Scores, NEW outcome \in Outcomes,
             command[h] = CommandFor(r, next, score, outcome)
      PROVE  /\ IsCommand(command[h])
             /\ command[h].session = r.session
             /\ command[h].key = <<r.session, r.key>>
             /\ command[h].actorSession = FenceOf(r) /\ command[h].actor = r.actor
             /\ command[h].snapshot.actor = r.actor
             /\ DOMAIN command[h].snapshot.operations = DOMAIN b.operations \cup {r.key}
             /\ \A k \in DOMAIN b.operations :
                    command[h].snapshot.operations[k] = b.operations[k]
  <2>1. IsCommand(command[h])
    BY <1>3, CommandForType
  <2> DEFINE x == WithOperation(next, r)
  <2>2. /\ x.actor = r.actor /\ DOMAIN x.operations = DOMAIN b.operations \cup {r.key}
        /\ \A k \in DOMAIN b.operations : x.operations[k] = b.operations[k]
    BY <1>3, WithOperationType
  <2> HIDE DEF x
  <2>3. /\ command[h].session = r.session /\ command[h].key = <<r.session, r.key>>
        /\ command[h].actorSession = FenceOf(r) /\ command[h].actor = r.actor
        /\ command[h].snapshot = x
    BY <1>1, <1>3 DEF x
  <2> QED BY <2>1, <2>2, <2>3
<1>4. CASE /\ IsSnapshot(b) /\ b.actor = r.actor /\ r.key \notin DOMAIN b.operations
           /\ r.op \in {"attempt", "cannot_start"} /\ b.stage # "solved"
           /\ command[h] = CommandFor(r, Attempted(b), Unset, Unset)
  <2>1. /\ IsSnapshot(Attempted(b)) /\ Attempted(b).operations = b.operations
        /\ Attempted(b).actor = b.actor
    BY <1>4, NextSnapshotTypes
  <2>2. ~Starts(r) /\ Unset \in Scores /\ Unset \in Outcomes
    BY <1>4 DEF Starts, Scores, Outcomes
  <2> QED BY <1>3, <1>4, <2>1, <2>2
<1>5. CASE /\ IsSnapshot(b) /\ b.actor = r.actor /\ r.key \notin DOMAIN b.operations
           /\ r.op = "open_hint" /\ b.stage \in {"attempting", "assisted"}
           /\ command[h] = CommandFor(r, HintOpened(b), Unset, Unset)
  <2>1. /\ IsSnapshot(HintOpened(b)) /\ HintOpened(b).operations = b.operations
        /\ HintOpened(b).actor = b.actor
    BY <1>5, NextSnapshotTypes
  <2>2. ~Starts(r) /\ Unset \in Scores /\ Unset \in Outcomes /\ b.stage # "solved"
    BY <1>5 DEF Starts, Scores, Outcomes
  <2> QED BY <1>3, <1>5, <2>1, <2>2
<1>6. ASSUME NEW score \in ScoreOutcome, NEW outcome \in GradingOutcome,
             IsSnapshot(b), b.actor = r.actor, r.key \notin DOMAIN b.operations,
             r.op = "submit", b.stage \in {"attempting", "assisted"},
             command[h] = CommandFor(r, Submitted(b, score, outcome), score, outcome)
      PROVE  /\ IsCommand(command[h])
             /\ command[h].session = r.session
             /\ command[h].key = <<r.session, r.key>>
             /\ command[h].actorSession = FenceOf(r) /\ command[h].actor = r.actor
             /\ command[h].snapshot.actor = r.actor
             /\ ~Starts(r) /\ b.stage # "solved"
             /\ DOMAIN command[h].snapshot.operations = DOMAIN b.operations \cup {r.key}
             /\ \A k \in DOMAIN b.operations :
                    command[h].snapshot.operations[k] = b.operations[k]
  <2>1. /\ IsSnapshot(Submitted(b, score, outcome))
        /\ Submitted(b, score, outcome).operations = b.operations
        /\ Submitted(b, score, outcome).actor = b.actor
    BY <1>6, NextSnapshotTypes
  <2>2. ~Starts(r) /\ score \in Scores /\ outcome \in Outcomes /\ b.stage # "solved"
    BY <1>6 DEF Starts, Scores, Outcomes
  <2> QED BY <1>3, <1>6, <2>1, <2>2
<1> QED BY <1>2, <1>4, <1>5, <1>6 DEF Computed

-----------------------------------------------------------------------------
(* The answers a handler gives. *)

\* An answer made of a view is a reply.
LEMMA AnswerType ==
    ASSUME NEW r \in Requests, NEW code \in {"ok", "replayed"}, NEW view \in Views
    PROVE  Answer(code, r, view) \in Replies
BY RequestFields, PrintType DEF Answer, Replies

\* The view of a snapshot, current or replayed, is a view.
LEMMA ViewTypes ==
    ASSUME NEW x, IsSnapshot(x)
    PROVE  /\ View(x) \in Views
           /\ \A k \in DOMAIN x.operations : ReplayView(x, k) \in Views
<1>1. x \in SnapshotsWith(x.operations) /\ IsLedger(x.operations)
  BY DEF IsSnapshot
<1>2. View(x) \in Views
  BY <1>1 DEF View, Views, SnapshotsWith
<1>3. ASSUME NEW k \in DOMAIN x.operations
      PROVE  ReplayView(x, k) \in Views
  <2>1. x.operations[k].result \in Results
    BY <1>1, <1>3 DEF IsLedger, Operations
  <2> DEFINE result == x.operations[k].result
  <2>2. /\ result.stage \in Stage /\ result.attempts \in Nat /\ result.submissions \in Nat
        /\ result.hints \in Nat /\ result.lastScore \in Scores
    BY <2>1 DEF Results
  <2>3. x.lastScore \in Scores /\ x.lastOutcome \in Outcomes
    BY <1>1 DEF SnapshotsWith
  <2> HIDE DEF result
  <2> QED BY <2>2, <2>3 DEF ReplayView, Views, result
<1> QED BY <1>2, <1>3

\* Every refusal of the load step is a refusal.
LEMMA LoadRefusalType ==
    ASSUME NEW r, LoadRefusal(r) # "none"
    PROVE  Refusal(LoadRefusal(r)) \in Refusals
BY DEF LoadRefusal, Refusal, Refusals, RefusalCode

-----------------------------------------------------------------------------
(* The inductive invariant holds initially and every step preserves it. *)

LEMMA InitEstablishes == Init => IndInv
<1> SUFFICES ASSUME Init PROVE IndInv
  OBVIOUS
<1>1. TypeOK
  BY DEF Init, TypeOK, StoreTypeOK, EmptyTable
<1>2. LedgerIsRecorded /\ LedgersNotEmpty
  BY DEF Init, LedgerIsRecorded, LedgersNotEmpty, EmptyTable
<1>3. HandlersConsistent /\ LoadedIsPast
  BY DEF Init, HandlersConsistent, LoadedIsPast
<1> QED BY <1>1, <1>2, <1>3 DEF IndInv

\* What follows for the other handlers when one of them is done with its request.
LEMMA FinishHandlers ==
    ASSUME TypeOK, HandlersConsistent, NEW h \in Handlers, NEW answer,
           answer \in Replies \cup Refusals \cup {None}, Finish(h, answer)
    PROVE  /\ pc' \in [Handlers -> {"idle", "verified", "prepared"}]
           /\ request' \in [Handlers -> Requests \cup {None}]
           /\ DOMAIN loaded' = Handlers /\ DOMAIN command' = Handlers
           /\ \A i \in Handlers : loaded'[i] = None \/ IsSnapshot(loaded'[i])
           /\ \A i \in Handlers : command'[i] = None \/ IsCommand(command'[i])
           /\ reply' \in [Handlers -> Replies \cup Refusals \cup {None}]
           /\ HandlersConsistent'
           /\ pc'[h] = "idle"
           /\ \A i \in Handlers : i # h => /\ pc'[i] = pc[i] /\ request'[i] = request[i]
                                          /\ loaded'[i] = loaded[i] /\ command'[i] = command[i]
<1>1. /\ pc' \in [Handlers -> {"idle", "verified", "prepared"}]
      /\ request' \in [Handlers -> Requests \cup {None}]
      /\ reply' \in [Handlers -> Replies \cup Refusals \cup {None}]
  BY DEF TypeOK, Finish
<1>2. /\ DOMAIN loaded' = Handlers /\ DOMAIN command' = Handlers
      /\ pc'[h] = "idle" /\ loaded'[h] = None /\ command'[h] = None
      /\ \A i \in Handlers : i # h => /\ pc'[i] = pc[i] /\ request'[i] = request[i]
                                     /\ loaded'[i] = loaded[i] /\ command'[i] = command[i]
  BY DEF TypeOK, Finish
<1>3. /\ \A i \in Handlers : loaded'[i] = None \/ IsSnapshot(loaded'[i])
      /\ \A i \in Handlers : command'[i] = None \/ IsCommand(command'[i])
  BY <1>2 DEF TypeOK
<1>4. ASSUME NEW i \in Handlers
      PROVE  /\ (pc[i] # "idle" => request[i] \in Requests)'
             /\ (pc[i] = "prepared" => Computed(i))'
  <2>1. CASE i = h
    BY <1>2, <2>1
  <2>2. CASE i # h
    BY <1>2, <2>2 DEF HandlersConsistent, Computed
  <2> QED BY <2>1, <2>2
<1>5. HandlersConsistent'
  BY <1>4 DEF HandlersConsistent
<1> QED BY <1>1, <1>2, <1>3, <1>5

\* A handler that finishes without writing preserves the invariant.
LEMMA FinishPreserves ==
    ASSUME IndInv, NEW h \in Handlers, NEW answer,
           answer \in Replies \cup Refusals \cup {None}, Finish(h, answer), UNCHANGED storeVars
    PROVE  IndInv'
<1>1. sessions' = sessions /\ idempotency' = idempotency /\ StoreTypeOK'
  BY DEF IndInv, TypeOK, storeVars, StoreTypeOK
<1>2. TypeOK' /\ HandlersConsistent'
  BY <1>1, FinishHandlers DEF IndInv, TypeOK
<1>3. LedgerIsRecorded' /\ LedgersNotEmpty'
  BY <1>1 DEF IndInv, LedgerIsRecorded, LedgersNotEmpty
<1>4. LoadedIsPast'
  BY <1>1, FinishHandlers DEF IndInv, LoadedIsPast, SessionRevoked, storeVars
<1> QED BY <1>2, <1>3, <1>4 DEF IndInv

\* A sign-in changes only who may write from now on.
LEMMA SignInPreserves ==
    ASSUME IndInv, NEW a \in Actors, NEW t \in ActorSessions, SignIn(a, t)
    PROVE  IndInv'
<1>1. /\ sessions' = sessions /\ idempotency' = idempotency /\ events' = events
      /\ pc' = pc /\ request' = request /\ loaded' = loaded /\ command' = command
      /\ reply' = reply
  BY DEF SignIn, handlerVars
<1>2. StoreTypeOK'
  BY <1>1 DEF IndInv, TypeOK, StoreTypeOK, SignIn
<1>3. TypeOK'
  BY <1>1, <1>2 DEF IndInv, TypeOK
<1>4. HandlersConsistent'
  BY <1>1 DEF IndInv, HandlersConsistent, Computed
<1>5. LedgerIsRecorded' /\ LedgersNotEmpty'
  BY <1>1 DEF IndInv, LedgerIsRecorded, LedgersNotEmpty
<1>6. ASSUME NEW h \in Handlers, pc[h] = "prepared", ~Starts(request[h]),
             ~SessionRevoked(command[h])'
      PROVE  ~SessionRevoked(command[h])
  <2>1. request[h] \in Requests /\ Computed(h)
    BY <1>6 DEF IndInv, HandlersConsistent
  <2>2. command[h].actorSession = request[h].actorSession
    BY <1>6, <2>1, ComputedCommand DEF FenceOf, Starts
  <2>3. command[h].actorSession # t
    BY <2>1, <2>2, RequestIsMade DEF SignIn, Fresh
  <2>4. command[h].actorSession # NoActorSession
    BY <2>1, <2>2, RequestFields, ConstantAssumption
  <2>5. currentSession' = [currentSession EXCEPT ![a] = t] /\ DOMAIN currentSession = Actors
    BY DEF SignIn, IndInv, TypeOK, StoreTypeOK
  <2> QED BY <1>1, <1>6, <2>3, <2>4, <2>5 DEF SessionRevoked
<1>7. LoadedIsPast'
  BY <1>1, <1>6 DEF IndInv, LoadedIsPast
<1> QED BY <1>3, <1>4, <1>5, <1>7 DEF IndInv

\* A request that arrives is at the start of its way.
LEMMA ReceivePreserves ==
    ASSUME IndInv, NEW h \in Handlers, NEW r \in Requests, Receive(h, r)
    PROVE  IndInv'
<1>1. /\ sessions' = sessions /\ idempotency' = idempotency /\ StoreTypeOK'
      /\ loaded' = loaded /\ command' = command
  BY DEF Receive, storeVars, IndInv, TypeOK, StoreTypeOK
<1>2. /\ pc'[h] = "verified" /\ request'[h] = r
      /\ \A i \in Handlers : i # h => pc'[i] = pc[i] /\ request'[i] = request[i]
  BY DEF Receive, IndInv, TypeOK
<1>3. TypeOK'
  <2>1. /\ pc' \in [Handlers -> {"idle", "verified", "prepared"}]
        /\ request' \in [Handlers -> Requests \cup {None}]
        /\ reply' \in [Handlers -> Replies \cup Refusals \cup {None}]
    BY DEF Receive, IndInv, TypeOK
  <2> QED BY <1>1, <2>1 DEF IndInv, TypeOK
<1>4. ASSUME NEW i \in Handlers
      PROVE  /\ (pc[i] # "idle" => request[i] \in Requests)'
             /\ (pc[i] = "prepared" => Computed(i))'
  <2>1. CASE i = h
    BY <1>2, <2>1
  <2>2. CASE i # h
    BY <1>1, <1>2, <2>2 DEF IndInv, HandlersConsistent, Computed
  <2> QED BY <2>1, <2>2
<1>5. HandlersConsistent'
  BY <1>4 DEF HandlersConsistent
<1>6. LedgerIsRecorded' /\ LedgersNotEmpty'
  BY <1>1 DEF IndInv, LedgerIsRecorded, LedgersNotEmpty
<1>7. LoadedIsPast'
  BY <1>1, <1>2 DEF IndInv, LoadedIsPast, SessionRevoked, Receive, storeVars
<1> QED BY <1>3, <1>5, <1>6, <1>7 DEF IndInv

\* A handler prepares a command that is what its operation computes from the stored
\* snapshot, or from none when it opens a session.
LEMMA PreparePreserves ==
    ASSUME IndInv, NEW h \in Handlers, pc[h] = "verified", NEW base, NEW next,
           NEW score \in Scores, NEW outcome \in Outcomes, IsSnapshot(next),
           Prepare(h, base, next, score, outcome), Computed(h)',
           Starts(request[h]) => base = None,
           ~Starts(request[h]) => /\ request[h].session \in DOMAIN sessions
                                  /\ base = sessions[request[h].session]
    PROVE  IndInv'
<1>1. /\ sessions' = sessions /\ idempotency' = idempotency /\ StoreTypeOK'
      /\ request' = request /\ reply' = reply
  BY DEF Prepare, storeVars, IndInv, TypeOK, StoreTypeOK
<1>2. request[h] \in Requests
  BY DEF IndInv, HandlersConsistent
<1>3. /\ DOMAIN loaded' = Handlers /\ DOMAIN command' = Handlers
      /\ pc' \in [Handlers -> {"idle", "verified", "prepared"}]
      /\ loaded'[h] = base /\ command'[h] = CommandFor(request[h], next, score, outcome)
      /\ \A i \in Handlers : i # h => /\ pc'[i] = pc[i] /\ loaded'[i] = loaded[i]
                                     /\ command'[i] = command[i]
  BY DEF Prepare, IndInv, TypeOK
<1>4. base = None \/ IsSnapshot(base)
  BY DEF IndInv, TypeOK, StoreTypeOK
<1>5. IsCommand(command'[h])
  BY <1>2, <1>3, CommandForType
<1>6. TypeOK'
  BY <1>1, <1>3, <1>4, <1>5 DEF IndInv, TypeOK
<1>7. ASSUME NEW i \in Handlers
      PROVE  /\ (pc[i] # "idle" => request[i] \in Requests)'
             /\ (pc[i] = "prepared" => Computed(i))'
  <2>1. CASE i = h
    BY <1>1, <1>2, <2>1
  <2>2. CASE i # h
    BY <1>1, <1>3, <2>2 DEF IndInv, HandlersConsistent, Computed
  <2> QED BY <2>1, <2>2
<1>8. HandlersConsistent'
  BY <1>7 DEF HandlersConsistent
<1>9. LedgerIsRecorded' /\ LedgersNotEmpty'
  BY <1>1 DEF IndInv, LedgerIsRecorded, LedgersNotEmpty
<1>10. LoadedIsPast'
  BY <1>1, <1>3 DEF IndInv, LoadedIsPast, SessionRevoked, Prepare, storeVars
<1> QED BY <1>6, <1>8, <1>9, <1>10 DEF IndInv

\* What a request that proceeds finds in the store.
LEMMA ProceedsFacts ==
    ASSUME IndInv, NEW h \in Handlers, Proceeds(h)
    PROVE  LET r == request[h] IN
           /\ r \in Requests
           /\ Starts(r) => ~Exists(r)
           /\ ~Starts(r) => /\ Exists(r) /\ Row(r).actor = r.actor /\ StageAllows(r)
                            /\ r.key \notin DOMAIN Row(r).operations
                            /\ IsSnapshot(Row(r))
<1>1. request[h] \in Requests
  BY DEF Proceeds, IndInv, HandlersConsistent
<1>2. ~Repeated(request[h]) /\ LoadRefusal(request[h]) = "none"
  BY DEF Proceeds
<1>3. StageAllows(request[h]) /\ (Exists(request[h]) => Row(request[h]).actor = request[h].actor)
      /\ (~Starts(request[h]) => Exists(request[h]))
  <2> HIDE DEF StageAllows
  <2> QED BY <1>2 DEF LoadRefusal
<1>4. Starts(request[h]) => ~Exists(request[h])
  BY <1>3 DEF StageAllows, Starts
<1>5. ASSUME Exists(request[h]) PROVE IsSnapshot(Row(request[h]))
  BY <1>5 DEF Exists, Row, IndInv, TypeOK, StoreTypeOK
<1> QED BY <1>1, <1>2, <1>3, <1>4, <1>5 DEF Repeated

\* The load step, whatever it decides.
LEMMA LoadPreserves ==
    ASSUME IndInv, NEW h \in Handlers, Load(h)
    PROVE  IndInv'
<1> DEFINE r == request[h]
<1>1. ASSUME pc[h] = "verified" PROVE r \in Requests
  BY <1>1 DEF IndInv, HandlersConsistent
<1>2. CASE Reject(h)
  BY <1>2, LoadRefusalType, FinishPreserves DEF Reject
<1>3. CASE ReplayStored(h)
  <2>1. IsSnapshot(Row(r)) /\ r.key \in DOMAIN Row(r).operations
    BY <1>3 DEF ReplayStored, Repeated, Exists, Row, IndInv, TypeOK, StoreTypeOK
  <2>2. Answer("replayed", r, ReplayView(Row(r), r.key)) \in Replies
    BY <1>1, <1>3, <2>1, ViewTypes, AnswerType DEF ReplayStored
  <2> QED BY <1>3, <2>2, FinishPreserves DEF ReplayStored
<1>4. ASSUME NEW base, NEW next, NEW score, NEW outcome, Prepare(h, base, next, score, outcome),
             pc[h] = "verified"
      PROVE  /\ loaded'[h] = base /\ request'[h] = r
             /\ command'[h] = CommandFor(r, next, score, outcome)
  BY <1>4 DEF Prepare, IndInv, TypeOK
<1>5. Unset \in Scores /\ Unset \in Outcomes
  BY DEF Scores, Outcomes
<1>6. CASE PrepareStart(h)
  <2>1. Proceeds(h) /\ Starts(r) /\ Prepare(h, None, Started(r), Unset, Unset)
    BY <1>6 DEF PrepareStart
  <2>2. r \in Requests /\ pc[h] = "verified"
    BY <2>1, ProceedsFacts DEF Proceeds
  <2>3. IsSnapshot(Started(r))
    BY <2>1, <2>2, StartedType
  <2>4. Computed(h)'
    BY <1>4, <2>1, <2>2 DEF Computed
  <2> HIDE DEF r
  <2> QED BY <1>5, <2>1, <2>2, <2>3, <2>4, PreparePreserves DEF r
<1>7. CASE PrepareAttempt(h)
  <2>1. /\ Proceeds(h) /\ r.op \in {"attempt", "cannot_start"}
        /\ Prepare(h, Row(r), Attempted(Row(r)), Unset, Unset)
    BY <1>7 DEF PrepareAttempt
  <2>2. /\ r \in Requests /\ pc[h] = "verified" /\ ~Starts(r) /\ Exists(r)
        /\ Row(r).actor = r.actor /\ r.key \notin DOMAIN Row(r).operations
        /\ IsSnapshot(Row(r)) /\ Row(r).stage # "solved"
    BY <2>1, ProceedsFacts DEF Proceeds, Starts, StageAllows
  <2>3. IsSnapshot(Attempted(Row(r)))
    BY <2>2, NextSnapshotTypes
  <2>4. Computed(h)'
    BY <1>4, <2>1, <2>2 DEF Computed
  <2> QED BY <1>5, <2>1, <2>2, <2>3, <2>4, PreparePreserves DEF Exists, Row
<1>8. CASE PrepareHint(h)
  <2>1. /\ Proceeds(h) /\ r.op = "open_hint"
        /\ Prepare(h, Row(r), HintOpened(Row(r)), Unset, Unset)
    BY <1>8 DEF PrepareHint
  <2>2. /\ r \in Requests /\ pc[h] = "verified" /\ ~Starts(r) /\ Exists(r)
        /\ Row(r).actor = r.actor /\ r.key \notin DOMAIN Row(r).operations
        /\ IsSnapshot(Row(r)) /\ Row(r).stage \in {"attempting", "assisted"}
        /\ Row(r).attempts >= 1
    BY <2>1, ProceedsFacts DEF Proceeds, Starts, StageAllows
  <2>3. IsSnapshot(HintOpened(Row(r)))
    BY <2>2, NextSnapshotTypes
  <2>4. Computed(h)'
    BY <1>4, <2>1, <2>2 DEF Computed
  <2> QED BY <1>5, <2>1, <2>2, <2>3, <2>4, PreparePreserves DEF Exists, Row
<1>9. CASE PrepareSubmit(h)
  <2> DEFINE score == ScoreOf(Row(r).pair, r.arg)
  <2>1. /\ Proceeds(h) /\ r.op = "submit"
        /\ \E outcome \in GradesOf(Row(r).pair, r.arg) :
               Prepare(h, Row(r), Submitted(Row(r), score, outcome), score, outcome)
    BY <1>9 DEF PrepareSubmit
  <2>2. PICK outcome \in GradesOf(Row(r).pair, r.arg) :
               Prepare(h, Row(r), Submitted(Row(r), score, outcome), score, outcome)
    BY <2>1
  <2>3. /\ r \in Requests /\ pc[h] = "verified" /\ ~Starts(r) /\ Exists(r)
        /\ Row(r).actor = r.actor /\ r.key \notin DOMAIN Row(r).operations
        /\ IsSnapshot(Row(r)) /\ Row(r).stage \in {"attempting", "assisted"}
    BY <2>1, ProceedsFacts DEF Proceeds, Starts, StageAllows
  <2>4. r.arg \in ScoreOutcome
    BY <2>1, <2>3, RequestFields, ConstantAssumption DEF ArgumentsOf
  <2>5. score \in ScoreOutcome /\ outcome \in GradingOutcome
    BY <2>4, <2>2 DEF ScoreOf, GradesOf, ScoreOutcome, GradingOutcome, DeterministicOutcome
  <2>6. IsSnapshot(Submitted(Row(r), score, outcome)) /\ score \in Scores /\ outcome \in Outcomes
    BY <2>3, <2>5, NextSnapshotTypes DEF Scores, Outcomes
  <2> HIDE DEF score
  <2>7. Computed(h)'
    BY <1>4, <2>1, <2>2, <2>3, <2>5 DEF Computed
  <2> QED BY <2>2, <2>3, <2>6, <2>7, PreparePreserves DEF Exists, Row
<1> QED BY <1>2, <1>3, <1>6, <1>7, <1>8, <1>9 DEF Load

\* A command the store admits was computed from the snapshot the store holds.
LEMMA AdmittedFromCurrent ==
    ASSUME IndInv, NEW h \in Handlers, pc[h] = "prepared", MayCommit(command[h])
    PROVE  LET r == request[h] IN
           /\ r \in Requests /\ Computed(h)
           /\ r.session \in DOMAIN sessions =>
                 /\ ~Starts(r) /\ loaded[h] = sessions[r.session]
                 /\ r.key \notin DOMAIN sessions[r.session].operations
           /\ r.session \notin DOMAIN sessions => Starts(r) /\ loaded[h] = None
<1> DEFINE r == request[h]
           c == command[h]
           stored == DOMAIN sessions[r.session].operations
<1>1. r \in Requests /\ Computed(h)
  BY DEF IndInv, HandlersConsistent
<1>2. /\ c.session = r.session /\ c.key = <<r.session, r.key>>
      /\ Starts(r) => loaded[h] = None /\ DOMAIN c.snapshot.operations = {r.key}
      /\ ~Starts(r) => DOMAIN c.snapshot.operations = DOMAIN loaded[h].operations \cup {r.key}
  BY <1>1, ComputedCommand
<1>3. r.session \in Sessions /\ r.key \in Keys
  BY <1>1, RequestFields
<1>4. ASSUME r.session \in DOMAIN sessions
      PROVE  r.key \notin stored /\ stored \subseteq DOMAIN c.snapshot.operations
  BY <1>2, <1>3, <1>4
     DEF MayCommit, Admitted, Recorded, RollsBack, HasRow, IndInv, LedgerIsRecorded
<1>5. ASSUME r.session \in DOMAIN sessions, Starts(r)
      PROVE  FALSE
  BY <1>2, <1>4, <1>5 DEF IndInv, LedgersNotEmpty
<1>6. ASSUME r.session \in DOMAIN sessions, ~Starts(r)
      PROVE  loaded[h] = sessions[r.session]
  BY <1>2, <1>4, <1>6 DEF IndInv, LoadedIsPast, MayCommit, Admitted
<1>7. ASSUME r.session \notin DOMAIN sessions
      PROVE  Starts(r)
  BY <1>7 DEF IndInv, LoadedIsPast, MayCommit, Admitted
<1> QED BY <1>1, <1>2, <1>4, <1>5, <1>6, <1>7

\* What a commit does to the session tables.
LEMMA CommitTables ==
    ASSUME IndInv, NEW h \in Handlers, pc[h] = "prepared", Commit(command[h])
    PROVE  LET c == command[h] IN
           /\ IsCommand(c) /\ c.session = request[h].session
           /\ c.key = <<request[h].session, request[h].key>>
           /\ events' = events \cup c.events
           /\ sessions' = Upsert(sessions, c.session, c.snapshot)
           /\ idempotency' = Upsert(idempotency, c.key, Fingerprint(c))
           /\ currentSession' = currentSession
<1>1. request[h] \in Requests /\ Computed(h)
  BY DEF IndInv, HandlersConsistent
<1>2. /\ IsCommand(command[h]) /\ command[h].session = request[h].session
      /\ command[h].key = <<request[h].session, request[h].key>>
  BY <1>1, ComputedCommand
<1>3. command[h].session # None
  BY <1>1, <1>2, RequestFields, ConstantAssumption
<1> QED BY <1>2, <1>3 DEF Commit

\* A commit adds one key to one ledger and its record, and preserves the invariant.
LEMMA CommitPreserves ==
    ASSUME IndInv, NEW h \in Handlers, AppendCommits(h)
    PROVE  IndInv'
<1> DEFINE r == request[h]
           c == command[h]
<1>1. /\ pc[h] = "prepared" /\ MayCommit(c) /\ Commit(c) /\ Finish(h, Prepared(h))
  BY DEF AppendCommits
<1>2. /\ IsCommand(c) /\ c.session = r.session /\ c.key = <<r.session, r.key>>
      /\ events' = events \cup c.events
      /\ sessions' = Upsert(sessions, r.session, c.snapshot)
      /\ idempotency' = Upsert(idempotency, c.key, Fingerprint(c))
      /\ currentSession' = currentSession
  BY <1>1, CommitTables
<1>3. /\ r \in Requests /\ Computed(h)
      /\ r.session \in DOMAIN sessions =>
            /\ ~Starts(r) /\ loaded[h] = sessions[r.session]
            /\ r.key \notin DOMAIN sessions[r.session].operations
      /\ r.session \notin DOMAIN sessions => Starts(r)
  BY <1>1, AdmittedFromCurrent
<1>4. r.session \in Sessions /\ r.key \in Keys
  BY <1>3, RequestFields
<1>5. /\ IsSnapshot(c.snapshot) /\ c.events \subseteq EvidenceEvent
      /\ IsFingerprint(Fingerprint(c))
  BY <1>2, <1>4 DEF IsCommand, Fingerprint, IsFingerprint
<1>6. /\ DOMAIN sessions' = DOMAIN sessions \cup {r.session}
      /\ sessions'[r.session] = c.snapshot
      /\ \A s \in DOMAIN sessions : s # r.session => sessions'[s] = sessions[s]
      /\ sessions' = [s \in DOMAIN sessions' |-> sessions'[s]]
  BY <1>2 DEF Upsert
<1>7. /\ DOMAIN idempotency' = DOMAIN idempotency \cup {<<r.session, r.key>>}
      /\ idempotency'[c.key] = Fingerprint(c)
      /\ \A k \in DOMAIN idempotency : k # c.key => idempotency'[k] = idempotency[k]
      /\ idempotency' = [k \in DOMAIN idempotency' |-> idempotency'[k]]
  BY <1>2 DEF Upsert
<1>8. DOMAIN c.snapshot.operations =
          IF r.session \in DOMAIN sessions
          THEN DOMAIN sessions[r.session].operations \cup {r.key} ELSE {r.key}
  BY <1>3, ComputedCommand
<1>9. StoreTypeOK'
  <2>1. events' \subseteq EvidenceEvent /\ DOMAIN sessions' \subseteq Sessions
    BY <1>2, <1>4, <1>5, <1>6 DEF IndInv, TypeOK, StoreTypeOK
  <2>2. \A s \in DOMAIN sessions' : IsSnapshot(sessions'[s])
    BY <1>5, <1>6 DEF IndInv, TypeOK, StoreTypeOK
  <2>3. DOMAIN idempotency' \subseteq Sessions \X Keys
    BY <1>4, <1>7 DEF IndInv, TypeOK, StoreTypeOK
  <2>4. \A k \in DOMAIN idempotency' : IsFingerprint(idempotency'[k])
    BY <1>2, <1>5, <1>7 DEF IndInv, TypeOK, StoreTypeOK
  <2>5. currentSession' \in [Actors -> ActorSessions \cup {None}]
    BY <1>2 DEF IndInv, TypeOK, StoreTypeOK
  <2> QED BY <1>6, <1>7, <2>1, <2>2, <2>3, <2>4, <2>5 DEF StoreTypeOK
<1>10. Prepared(h) \in Replies \cup Refusals \cup {None}
  BY <1>3, <1>5, ViewTypes, AnswerType DEF Prepared
<1>11. TypeOK' /\ HandlersConsistent'
  BY <1>1, <1>9, <1>10, FinishHandlers DEF IndInv, TypeOK
<1>12. LedgerIsRecorded'
  <2>1. DOMAIN idempotency' \subseteq Sessions \X Keys
    BY <1>9 DEF StoreTypeOK
  <2>2. ASSUME NEW s \in Sessions, NEW k \in Keys
        PROVE  <<s, k>> \in DOMAIN idempotency' <=>
                   s \in DOMAIN sessions' /\ k \in DOMAIN sessions'[s].operations
    <3>1. CASE s = r.session
      BY <1>6, <1>7, <1>8, <2>2, <3>1 DEF IndInv, LedgerIsRecorded
    <3>2. CASE s # r.session
      BY <1>6, <1>7, <2>2, <3>2 DEF IndInv, LedgerIsRecorded
    <3> QED BY <3>1, <3>2
  <2> QED BY <2>1, <2>2 DEF LedgerIsRecorded
<1>13. LedgersNotEmpty'
  BY <1>6, <1>8 DEF IndInv, LedgersNotEmpty
<1>14. LoadedIsPast'
  <2> SUFFICES ASSUME NEW i \in Handlers, pc'[i] = "prepared", ~Starts(request'[i]),
                      ~SessionRevoked(command[i])'
               PROVE  LET s == request'[i].session IN
                      /\ s \in DOMAIN sessions'
                      /\ sessions'[s].actor = loaded'[i].actor
                      /\ DOMAIN loaded'[i].operations \subseteq DOMAIN sessions'[s].operations
                      /\ DOMAIN loaded'[i].operations = DOMAIN sessions'[s].operations =>
                             loaded'[i] = sessions'[s]
    BY DEF LoadedIsPast
  <2>1. /\ i # h /\ pc[i] = "prepared" /\ request'[i] = request[i] /\ loaded'[i] = loaded[i]
        /\ ~SessionRevoked(command[i])
    BY <1>1, <1>2, <1>10, FinishHandlers DEF IndInv, SessionRevoked
  <2> DEFINE s == request[i].session
  <2>2. /\ s \in DOMAIN sessions /\ sessions[s].actor = loaded[i].actor
        /\ DOMAIN loaded[i].operations \subseteq DOMAIN sessions[s].operations
        /\ DOMAIN loaded[i].operations = DOMAIN sessions[s].operations =>
               loaded[i] = sessions[s]
    BY <2>1 DEF IndInv, LoadedIsPast
  <2>3. CASE s = r.session
    <3>1. c.snapshot.actor = sessions[s].actor
      BY <1>3, <2>2, <2>3, ComputedCommand
    <3> QED BY <1>3, <1>6, <1>8, <2>1, <2>2, <2>3, <3>1
  <2>4. CASE s # r.session
    BY <1>6, <2>1, <2>2, <2>4
  <2> QED BY <2>3, <2>4
<1> QED BY <1>11, <1>12, <1>13, <1>14 DEF IndInv

\* The append step, whatever it decides.
LEMMA AppendPreserves ==
    ASSUME IndInv, NEW h \in Handlers, Append(h)
    PROVE  IndInv'
<1>1. CASE AppendCommits(h)
  BY <1>1, CommitPreserves
<1>2. CASE AppendReplays(h)
  <2>1. request[h] \in Requests /\ Computed(h)
    BY <1>2 DEF AppendReplays, IndInv, HandlersConsistent
  <2>2. IsSnapshot(command[h].snapshot)
    BY <2>1, ComputedCommand DEF IsCommand
  <2>3. Prepared(h) \in Replies
    BY <2>1, <2>2, ViewTypes, AnswerType DEF Prepared
  <2> QED BY <1>2, <2>3, FinishPreserves DEF AppendReplays
<1>3. CASE AppendRefused(h)
  <2>1. PICK code \in RefusalCode : Finish(h, Refusal(code))
    BY <1>3 DEF AppendRefused
  <2>2. Refusal(code) \in Refusals
    BY <2>1 DEF Refusal, Refusals
  <2> QED BY <1>3, <2>1, <2>2, FinishPreserves DEF AppendRefused
<1> QED BY <1>1, <1>2, <1>3 DEF Append

\* Every step preserves the inductive invariant.
LEMMA NextPreserves == IndInv /\ [Next]_vars => IndInv'
<1> SUFFICES ASSUME IndInv, [Next]_vars PROVE IndInv'
  OBVIOUS
<1>1. ASSUME NEW a \in Actors, NEW t \in ActorSessions, SignIn(a, t) PROVE IndInv'
  BY <1>1, SignInPreserves
<1>2. ASSUME NEW h \in Handlers, NEW r \in Requests, Receive(h, r) PROVE IndInv'
  BY <1>2, ReceivePreserves
<1>3. ASSUME NEW h \in Handlers, Load(h) PROVE IndInv'
  BY <1>3, LoadPreserves
<1>4. ASSUME NEW h \in Handlers, Append(h) PROVE IndInv'
  BY <1>4, AppendPreserves
<1>5. ASSUME NEW h \in Handlers, Die(h) PROVE IndInv'
  BY <1>5, FinishPreserves DEF Die
<1>6. CASE UNCHANGED vars
  BY <1>6 DEF vars, storeVars, handlerVars, IndInv, TypeOK, StoreTypeOK, LedgerIsRecorded,
              HandlersConsistent, Computed, LedgersNotEmpty, LoadedIsPast, SessionRevoked
<1> QED BY <1>1, <1>2, <1>3, <1>4, <1>5, <1>6 DEF Next, Serve

\* The inductive invariant holds in every reachable state.
LEMMA Invariance == Spec => []IndInv
BY InitEstablishes, NextPreserves, PTL DEF Spec

-----------------------------------------------------------------------------
(* Theorems. *)

\* The store, the handlers and their answers keep their types.
THEOREM TypeCorrect == Spec => []TypeOK
<1>1. IndInv => TypeOK
  BY DEF IndInv
<1> QED BY <1>1, Invariance, PTL

\* What the inductive invariant says of a command that is admitted.
LEMMA InvariantAdmits == IndInv => AdmittedIsCurrent
<1> SUFFICES ASSUME IndInv, NEW h \in Handlers, pc[h] = "prepared", MayCommit(command[h])
             PROVE  IF HasRow(command[h]) THEN loaded[h] = sessions[command[h].session]
                    ELSE loaded[h] = None
  BY DEF AdmittedIsCurrent
<1>1. request[h] \in Requests /\ Computed(h)
  BY DEF IndInv, HandlersConsistent
<1>2. command[h].session = request[h].session
  BY <1>1, ComputedCommand
<1> QED BY <1>2, AdmittedFromCurrent DEF HasRow

\* For any number of racing requests, the operation ledger does what a revision number
\* would: nothing the store admits was computed from an outdated snapshot.
THEOREM AdmittedAreCurrent == Spec => []AdmittedIsCurrent
BY InvariantAdmits, Invariance, PTL

\* What a step does to the session table: nothing, or one admitted commit.
LEMMA SessionSteps ==
    ASSUME [Next]_vars
    PROVE  \/ UNCHANGED <<events, sessions, idempotency>>
           \/ \E h \in Handlers : AppendCommits(h)
BY DEF Next, vars, storeVars, handlerVars, SignIn, Receive, Serve, Load, Append, Reject,
       ReplayStored, PrepareStart, PrepareAttempt, PrepareHint, PrepareSubmit, Prepare,
       AppendReplays, AppendRefused, Die

\* What no step of a request takes from a session: its row, its operations and, once it is
\* solved, anything at all.
Kept(s) ==
    /\ s \in DOMAIN sessions'
    /\ sessions'[s].actor = sessions[s].actor
    /\ sessions[s].stage = "solved" => sessions'[s] = sessions[s]
    /\ \A k \in DOMAIN sessions[s].operations :
          /\ k \in DOMAIN sessions'[s].operations
          /\ sessions'[s].operations[k] = sessions[s].operations[k]

LEMMA SessionsAreKept ==
    ASSUME IndInv, [Next]_vars, NEW s \in DOMAIN sessions
    PROVE  Kept(s)
<1>1. CASE UNCHANGED sessions
  BY <1>1 DEF Kept
<1>2. ASSUME NEW h \in Handlers, AppendCommits(h) PROVE Kept(s)
  <2> DEFINE c == command[h]
             t == request[h].session
  <2>1. /\ pc[h] = "prepared" /\ MayCommit(c) /\ Commit(c)
    BY <1>2 DEF AppendCommits
  <2>2. sessions' = Upsert(sessions, t, c.snapshot)
    BY <2>1, CommitTables
  <2>3. CASE s # t
    BY <2>2, <2>3 DEF Upsert, Kept
  <2>4. CASE s = t
    <3>1. /\ request[h] \in Requests /\ Computed(h)
          /\ ~Starts(request[h]) /\ loaded[h] = sessions[s]
      BY <2>1, <2>4, AdmittedFromCurrent
    <3>2. /\ sessions[s].stage # "solved" /\ c.snapshot.actor = sessions[s].actor
          /\ DOMAIN sessions[s].operations \subseteq DOMAIN c.snapshot.operations
          /\ \A k \in DOMAIN sessions[s].operations :
                 c.snapshot.operations[k] = sessions[s].operations[k]
      BY <3>1, ComputedCommand
    <3>3. s \in DOMAIN sessions' /\ sessions'[s] = c.snapshot
      BY <2>2, <2>4 DEF Upsert
    <3> QED BY <3>2, <3>3 DEF Kept
  <2> QED BY <2>3, <2>4
<1> QED BY <1>1, <1>2, SessionSteps

\* A solved session never changes, and no session loses an operation.
THEOREM SolvedStaysSolved == Spec => SolvedIsFinal
<1> DEFINE Final ==
        \A s \in DOMAIN sessions :
          /\ s \in DOMAIN sessions'
          /\ sessions[s].stage = "solved" => sessions'[s] = sessions[s]
          /\ \A k \in DOMAIN sessions[s].operations :
                /\ k \in DOMAIN sessions'[s].operations
                /\ sessions'[s].operations[k] = sessions[s].operations[k]
<1>1. IndInv /\ [Next]_vars => [Final]_sessions
  BY SessionsAreKept DEF Kept
<1> QED BY <1>1, Invariance, PTL DEF Spec, SolvedIsFinal

-----------------------------------------------------------------------------
(* Refinement. *)

\* The snapshot an operation writes, seen by the lifecycle: the operation's own effect
\* and its key added to those that are done.
LEMMA ShadowWithOperation ==
    ASSUME NEW x, IsSnapshot(x), NEW r \in Requests
    PROVE  Shadow(WithOperation(x, r)) = Lifecycle!Done(Shadow(x), r.key)
<1> DEFINE done == DOMAIN x.operations \cup {r.key}
           shadow == [actor |-> x.actor, stage |-> x.stage, attempts |-> x.attempts,
                      submissions |-> x.submissions, hints |-> x.hints, done |-> done]
<1>1. Shadow(WithOperation(x, r)) = shadow
  BY WithOperationType DEF Shadow
<1>2. Lifecycle!Done(Shadow(x), r.key) = shadow
  BY DEF Shadow, Lifecycle!Done
<1> QED BY <1>1, <1>2

\* The operations compute on snapshots what the lifecycle's actions compute on progress.
LEMMA ShadowNext ==
    ASSUME NEW b, IsSnapshot(b)
    PROVE  /\ Shadow(Attempted(b)) = Lifecycle!Attempted(Shadow(b))
           /\ Shadow(HintOpened(b)) = Lifecycle!HintOpened(Shadow(b))
           /\ \A score \in ScoreOutcome, outcome \in GradingOutcome :
                  Shadow(Submitted(b, score, outcome)) = Lifecycle!Submitted(Shadow(b), outcome)
<1>1. b \in SnapshotsWith(b.operations)
  BY DEF IsSnapshot
<1>2. b = [actor |-> b.actor, pair |-> b.pair, stage |-> b.stage, attempts |-> b.attempts,
           submissions |-> b.submissions, hints |-> b.hints, lastScore |-> b.lastScore,
           lastOutcome |-> b.lastOutcome, operations |-> b.operations]
  BY <1>1 DEF SnapshotsWith
<1> DEFINE Seen(stage, attempts, submissions, hints) ==
        [actor |-> b.actor, stage |-> stage, attempts |-> attempts,
         submissions |-> submissions, hints |-> hints, done |-> DOMAIN b.operations]
<1>3. Shadow(Attempted(b)) = Lifecycle!Attempted(Shadow(b))
  <2> DEFINE stage == IF b.stage = "assisted" THEN "assisted" ELSE "attempting"
             attempts == b.attempts + 1
  <2>1. Attempted(b) = [b EXCEPT !.stage = stage, !.attempts = attempts]
    BY DEF Attempted
  <2>2. Lifecycle!Attempted(Shadow(b)) = [Shadow(b) EXCEPT !.stage = stage, !.attempts = attempts]
    BY DEF Lifecycle!Attempted, Shadow
  <2> HIDE DEF stage, attempts
  <2>3. Shadow(Attempted(b)) = Seen(stage, attempts, b.submissions, b.hints)
    BY <1>2, <2>1 DEF Shadow
  <2>4. Lifecycle!Attempted(Shadow(b)) = Seen(stage, attempts, b.submissions, b.hints)
    BY <2>2 DEF Shadow
  <2> QED BY <2>3, <2>4
<1>4. Shadow(HintOpened(b)) = Lifecycle!HintOpened(Shadow(b))
  <2> DEFINE hints == b.hints + 1
  <2>1. HintOpened(b) = [b EXCEPT !.stage = "assisted", !.hints = hints]
    BY DEF HintOpened
  <2>2. Lifecycle!HintOpened(Shadow(b)) =
            [Shadow(b) EXCEPT !.stage = "assisted", !.hints = hints]
    BY DEF Shadow, Lifecycle!HintOpened
  <2> HIDE DEF hints
  <2>3. Shadow(HintOpened(b)) = Seen("assisted", b.attempts, b.submissions, hints)
    BY <1>2, <2>1 DEF Shadow
  <2>4. [Shadow(b) EXCEPT !.stage = "assisted", !.hints = hints] =
            Seen("assisted", b.attempts, b.submissions, hints)
    <3> DEFINE y == [Shadow(b) EXCEPT !.stage = "assisted"]
    <3>1. y = Seen("assisted", b.attempts, b.submissions, b.hints)
      BY DEF Shadow
    <3>2. [Shadow(b) EXCEPT !.stage = "assisted", !.hints = hints] = [y EXCEPT !.hints = hints]
      BY DEF Shadow
    <3> HIDE DEF y
    <3> QED BY <3>1, <3>2
  <2> QED BY <2>2, <2>3, <2>4
<1>5. ASSUME NEW score \in ScoreOutcome, NEW outcome \in GradingOutcome
      PROVE  Shadow(Submitted(b, score, outcome)) = Lifecycle!Submitted(Shadow(b), outcome)
  <2> DEFINE stage == IF outcome = "CORRECT" THEN "solved"
                      ELSE IF b.hints > 0 THEN "assisted" ELSE "attempting"
             submissions == b.submissions + 1
  <2>1. Submitted(b, score, outcome) = [b EXCEPT !.stage = stage, !.submissions = submissions,
                                          !.lastScore = score, !.lastOutcome = outcome]
    BY DEF Submitted, SatisfiesGradingGate
  <2>2. Lifecycle!Submitted(Shadow(b), outcome) =
            [Shadow(b) EXCEPT !.stage = stage, !.submissions = submissions]
    BY DEF Shadow, Lifecycle!Submitted
  <2> HIDE DEF stage, submissions
  <2>3. Shadow(Submitted(b, score, outcome)) = Seen(stage, b.attempts, submissions, b.hints)
    BY <1>2, <2>1 DEF Shadow
  <2>4. [Shadow(b) EXCEPT !.stage = stage, !.submissions = submissions] =
            Seen(stage, b.attempts, submissions, b.hints)
    <3> DEFINE y == [Shadow(b) EXCEPT !.stage = stage]
    <3>1. y = Seen(stage, b.attempts, b.submissions, b.hints)
      BY DEF Shadow
    <3>2. [Shadow(b) EXCEPT !.stage = stage, !.submissions = submissions] =
              [y EXCEPT !.submissions = submissions]
      BY DEF Shadow
    <3> HIDE DEF y
    <3> QED BY <3>1, <3>2
  <2> QED BY <2>2, <2>3, <2>4
<1> QED BY <1>3, <1>4, <1>5

\* The initial states of the store are the lifecycle's.
LEMMA RefinesInit == Init => Lifecycle!LifecycleInit
BY DEF Init, Lifecycle!LifecycleInit, Progress, EmptyTable

\* A commit that writes `next` with one more operation is one step of the lifecycle's
\* Apply, or of its Open.
LEMMA CommitProgress ==
    ASSUME IndInv, NEW h \in Handlers, AppendCommits(h), NEW next, IsSnapshot(next),
           NEW score, NEW outcome, command[h] = CommandFor(request[h], next, score, outcome)
    PROVE  /\ Progress' = Upsert(Progress, request[h].session,
                                  Lifecycle!Done(Shadow(next), request[h].key))
           /\ events' = events \cup EventsFor(request[h], next, score, outcome)
<1> DEFINE r == request[h]
           c == command[h]
           row == Lifecycle!Done(Shadow(next), r.key)
<1>1. pc[h] = "prepared" /\ Commit(c) /\ MayCommit(c)
  BY DEF AppendCommits
<1>2. /\ events' = events \cup c.events /\ c.session = r.session
      /\ sessions' = Upsert(sessions, r.session, c.snapshot)
  BY <1>1, CommitTables
<1>3. r \in Requests
  BY <1>1 DEF IndInv, HandlersConsistent
<1>4. c.snapshot = WithOperation(next, r) /\ c.events = EventsFor(r, next, score, outcome)
  BY DEF CommandFor
<1>5. Shadow(c.snapshot) = row
  BY <1>3, <1>4, ShadowWithOperation
<1>6. /\ DOMAIN sessions' = DOMAIN sessions \cup {r.session}
      /\ sessions'[r.session] = c.snapshot
      /\ \A s \in DOMAIN sessions : s # r.session => sessions'[s] = sessions[s]
  BY <1>2 DEF Upsert
<1>7. Progress' = [s \in DOMAIN sessions' |-> Shadow(sessions'[s])]
  BY DEF Progress
<1> HIDE DEF r, c, row
<1>8. Progress' = [s \in DOMAIN Progress \cup {r.session} |->
                      IF s = r.session THEN row ELSE Progress[s]]
  BY <1>5, <1>6, <1>7 DEF Progress
<1>9. Progress' = Upsert(Progress, r.session, row)
  BY <1>8 DEF Upsert
<1> QED BY <1>2, <1>4, <1>9 DEF r, c, row

\* The events of a command, in the lifecycle's vocabulary.
LEMMA EventsOfCommand ==
    ASSUME NEW r \in Requests, NEW next, NEW score, NEW outcome
    PROVE  LET new == EventsFor(r, next, score, outcome)
               plain(n, type, ordinal) ==
                   Lifecycle!PlainEvent(r.session, r.key, n, next.actor, type, ordinal)
           IN /\ Starts(r) => new = {plain(0, "challenge_started", 0)}
              /\ r.op = "attempt" => new = {plain(0, "attempt_submitted", next.attempts)}
              /\ r.op = "cannot_start" =>
                     new = {plain(0, "attempt_submitted", next.attempts),
                            plain(1, "unable_to_start_declared", next.attempts)}
              /\ r.op = "open_hint" => new = {plain(0, "intervention_opened", next.attempts)}
              /\ r.op = "submit" =>
                     new = {plain(0, "answer_submitted", next.submissions),
                            Lifecycle!Event(r.session, r.key, 1, next.actor, "practice_scored",
                                            0, score, outcome)}
<1>1. \A s, k, n, a, type, ordinal, sc, out :
          Event(s, k, n, a, type, ordinal, sc, out) =
          Lifecycle!Event(s, k, n, a, type, ordinal, sc, out)
  BY DEF Event, Lifecycle!Event
<1>2. \A s, k, n, a, type, ordinal :
          PlainEvent(s, k, n, a, type, ordinal) = Lifecycle!PlainEvent(s, k, n, a, type, ordinal)
  BY <1>1 DEF PlainEvent, Lifecycle!PlainEvent, Unset, Lifecycle!Unset
<1> QED BY <1>1, <1>2 DEF EventsFor, Starts

\* Every admitted commit is one operation of the lifecycle.
LEMMA CommitRefines ==
    ASSUME IndInv, NEW h \in Handlers, AppendCommits(h)
    PROVE  Lifecycle!LifecycleNext
<1> DEFINE r == request[h]
           b == loaded[h]
           s == r.session
           k == r.key
<1>1. pc[h] = "prepared" /\ MayCommit(command[h])
  BY DEF AppendCommits
<1>2. /\ r \in Requests /\ Computed(h)
      /\ s \in DOMAIN sessions => ~Starts(r) /\ b = sessions[s] /\ k \notin DOMAIN b.operations
      /\ s \notin DOMAIN sessions => Starts(r)
  BY <1>1, AdmittedFromCurrent
<1>3. s \in Sessions /\ k \in Keys /\ r.actor \in Actors
  BY <1>2, RequestFields
<1>4. ASSUME s \in DOMAIN sessions
      PROVE  s \in DOMAIN Progress /\ Progress[s] = Shadow(b)
  BY <1>2, <1>4 DEF Progress
<1>5. CASE Starts(r)
  <2>1. command[h] = CommandFor(r, Started(r), Unset, Unset) /\ IsSnapshot(Started(r))
    BY <1>2, <1>5, StartedType DEF Computed, Starts
  <2>2. EventsFor(r, Started(r), Unset, Unset) =
            {Lifecycle!PlainEvent(s, k, 0, r.actor, "challenge_started", 0)}
    <3>1. Started(r).actor = r.actor
      BY DEF Started
    <3> QED BY <1>2, <1>5, <3>1, EventsOfCommand
  <2>3. Lifecycle!Done(Shadow(Started(r)), k) =
            [actor |-> r.actor, stage |-> "ready", attempts |-> 0, submissions |-> 0,
             hints |-> 0, done |-> {k}]
    BY DEF Shadow, Started, EmptyTable, Lifecycle!Done
  <2>4. s \notin DOMAIN Progress
    BY <1>2, <1>5 DEF Progress
  <2>5. /\ Progress' = Upsert(Progress, s, Lifecycle!Done(Shadow(Started(r)), k))
        /\ events' = events \cup EventsFor(r, Started(r), Unset, Unset)
    BY <2>1, CommitProgress
  <2> HIDE DEF r, s, k
  <2>6. Lifecycle!Open(s, k, r.actor)
    BY <2>2, <2>3, <2>4, <2>5 DEF Lifecycle!Open, Upsert
  <2> QED BY <1>3, <2>6 DEF Lifecycle!LifecycleNext
<1>6. ASSUME ~Starts(r), NEW next, IsSnapshot(next), NEW score, NEW outcome,
             command[h] = CommandFor(r, next, score, outcome)
      PROVE  Lifecycle!Apply(s, k, Shadow(next), EventsFor(r, next, score, outcome))
  <2>1. s \in DOMAIN Progress /\ Progress[s] = Shadow(b) /\ k \notin DOMAIN b.operations
    BY <1>2, <1>4, <1>6
  <2>2. /\ Progress' = Upsert(Progress, s, Lifecycle!Done(Shadow(next), k))
        /\ events' = events \cup EventsFor(r, next, score, outcome)
    BY <1>6, CommitProgress
  <2>3. Progress' = [Progress EXCEPT ![s] = Lifecycle!Done(Shadow(next), k)]
    <3> DEFINE row == Lifecycle!Done(Shadow(next), k)
    <3>1. Progress = [x \in DOMAIN Progress |-> Progress[x]]
      BY DEF Progress
    <3> HIDE DEF row
    <3> QED BY <2>1, <2>2, <3>1 DEF row, Upsert
  <2>4. k \notin Progress[s].done
    BY <2>1 DEF Shadow
  <2> HIDE DEF s, k, r
  <2> QED BY <2>1, <2>2, <2>3, <2>4 DEF Lifecycle!Apply
<1>7. CASE ~Starts(r)
  <2>1. /\ IsSnapshot(b) /\ b.actor = r.actor /\ s \in DOMAIN sessions
        /\ s \in DOMAIN Progress /\ Progress[s] = Shadow(b)
    BY <1>2, <1>4, <1>7 DEF Computed
  <2>2. CASE /\ r.op \in {"attempt", "cannot_start"} /\ b.stage # "solved"
             /\ command[h] = CommandFor(r, Attempted(b), Unset, Unset)
    <3> DEFINE next == Lifecycle!Attempted(Shadow(b))
    <3>0. next = Shadow(Attempted(b)) /\ IsSnapshot(Attempted(b))
      BY <2>1, ShadowNext, NextSnapshotTypes
    <3>1. Lifecycle!Apply(s, k, next, EventsFor(r, Attempted(b), Unset, Unset))
      BY <1>6, <1>7, <2>2, <3>0
    <3>2. Attempted(b).actor = next.actor /\ Attempted(b).attempts = next.attempts
      BY <3>0 DEF Shadow
    <3>3. Progress[s].stage # "solved"
      BY <2>1, <2>2 DEF Shadow
    <3> HIDE DEF next
    <3>4. \/ EventsFor(r, Attempted(b), Unset, Unset) =
                {Lifecycle!PlainEvent(s, k, 0, next.actor, "attempt_submitted", next.attempts)}
          \/ EventsFor(r, Attempted(b), Unset, Unset) =
                {Lifecycle!PlainEvent(s, k, 0, next.actor, "attempt_submitted", next.attempts),
                 Lifecycle!PlainEvent(s, k, 1, next.actor, "unable_to_start_declared",
                                      next.attempts)}
      BY <1>2, <2>2, <3>2, EventsOfCommand
    <3>5. Lifecycle!Attempt(s, k)
      BY <2>1, <3>1, <3>3, <3>4 DEF Lifecycle!Attempt, next
    <3> QED BY <1>3, <3>5 DEF Lifecycle!LifecycleNext
  <2>3. CASE /\ r.op = "open_hint" /\ b.stage \in {"attempting", "assisted"} /\ b.attempts >= 1
             /\ command[h] = CommandFor(r, HintOpened(b), Unset, Unset)
    <3> DEFINE next == Lifecycle!HintOpened(Shadow(b))
    <3>1. next = Shadow(HintOpened(b)) /\ IsSnapshot(HintOpened(b))
      BY <2>1, ShadowNext, NextSnapshotTypes
    <3>2. Lifecycle!Apply(s, k, next, EventsFor(r, HintOpened(b), Unset, Unset))
      BY <1>6, <1>7, <2>3, <3>1
    <3>3. HintOpened(b).actor = next.actor /\ HintOpened(b).attempts = next.attempts
      BY <3>1 DEF Shadow
    <3>4. Progress[s].stage \in {"attempting", "assisted"} /\ Progress[s].attempts >= 1
      BY <2>1, <2>3 DEF Shadow
    <3> HIDE DEF next
    <3>5. EventsFor(r, HintOpened(b), Unset, Unset) =
              {Lifecycle!PlainEvent(s, k, 0, next.actor, "intervention_opened", next.attempts)}
      BY <1>2, <2>3, <3>3, EventsOfCommand
    <3>6. Lifecycle!OpenHint(s, k)
      BY <2>1, <3>2, <3>4, <3>5 DEF Lifecycle!OpenHint, next
    <3> QED BY <1>3, <3>6 DEF Lifecycle!LifecycleNext
  <2>4. ASSUME NEW score \in ScoreOutcome, NEW outcome \in GradingOutcome,
               r.op = "submit", b.stage \in {"attempting", "assisted"},
               command[h] = CommandFor(r, Submitted(b, score, outcome), score, outcome)
        PROVE  Lifecycle!LifecycleNext
    <3> DEFINE next == Lifecycle!Submitted(Shadow(b), outcome)
    <3>1. next = Shadow(Submitted(b, score, outcome)) /\ IsSnapshot(Submitted(b, score, outcome))
      BY <2>1, <2>4, ShadowNext, NextSnapshotTypes
    <3>2. Lifecycle!Apply(s, k, next, EventsFor(r, Submitted(b, score, outcome), score, outcome))
      BY <1>6, <1>7, <2>4, <3>1
    <3>3. /\ Submitted(b, score, outcome).actor = next.actor
          /\ Submitted(b, score, outcome).submissions = next.submissions
      BY <3>1 DEF Shadow
    <3>4. Progress[s].stage \in {"attempting", "assisted"}
      BY <2>1, <2>4 DEF Shadow
    <3> HIDE DEF next
    <3>5. EventsFor(r, Submitted(b, score, outcome), score, outcome) =
              {Lifecycle!PlainEvent(s, k, 0, next.actor, "answer_submitted", next.submissions),
               Lifecycle!Event(s, k, 1, next.actor, "practice_scored", 0, score, outcome)}
      BY <1>2, <2>4, <3>3, EventsOfCommand
    <3>6. Lifecycle!Submit(s, k, score, outcome)
      BY <2>1, <3>2, <3>4, <3>5 DEF Lifecycle!Submit, next
    <3> QED BY <1>3, <2>4, <3>6
            DEF Lifecycle!LifecycleNext, ScoreOutcome, GradingOutcome,
                Lifecycle!ScoreOutcome, Lifecycle!GradingOutcome
  <2> QED BY <1>2, <1>7, <2>2, <2>3, <2>4 DEF Computed
<1> QED BY <1>5, <1>7

\* Racing, repeated, refused and dying requests implement the sequential lifecycle.
THEOREM ImplementsLifecycle == Spec => RefinesLifecycle
<1>1. IndInv /\ [Next]_vars => [Lifecycle!LifecycleNext]_(Lifecycle!lifecycleVars)
  <2> SUFFICES ASSUME IndInv, [Next]_vars
               PROVE  [Lifecycle!LifecycleNext]_(Lifecycle!lifecycleVars)
    OBVIOUS
  <2>1. CASE UNCHANGED <<events, sessions, idempotency>>
    BY <2>1 DEF Lifecycle!lifecycleVars, Progress
  <2>2. CASE \E h \in Handlers : AppendCommits(h)
    BY <2>2, CommitRefines
  <2> QED BY <2>1, <2>2, SessionSteps
<1> QED BY <1>1, RefinesInit, Invariance, PTL DEF Spec, RefinesLifecycle, Lifecycle!LifecycleSpec
=============================================================================
