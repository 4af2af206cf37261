------------------------------- MODULE DemoProofs -------------------------------
(***************************************************************************)
(* Proofs about DemoReset, for any number of learners, requests and        *)
(* resets.                                                                 *)
(*                                                                         *)
(* The argument: a reset deletes only what belongs to its learner, whose   *)
(* requests it revokes, so the invariant of the practice requests survives *)
(* it: the one thing a reset could break is a request computed from a      *)
(* session that is gone, and the store refuses that one.  That what is     *)
(* left agrees, and that nothing of the learner is left, needs more: from  *)
(* the moment the reset selects, the learner must not write.  The lock on  *)
(* the actor holds back every command that names an actor session, and     *)
(* only those: the theorems that need it assume that every command does.   *)
(***************************************************************************)
EXTENDS DemoReset, PracticeEvidenceProofs

\* No request starts a session without naming its actor session, as the route that
\* publishes a practice does.
EveryCommandIsFenced == "start_published" \notin Ops

\* What a reset selected and erased belongs to the clean learner.
ScopedToCleanActor ==
    /\ doomed \subseteq SessionsOfCleanActor
    /\ \A e \in erased : e.actor = CleanActor

\* The invariant that needs no fence.
ResetInv ==
    /\ IndInv
    /\ ResetTypeOK
    /\ resetPhase # "idle" => resetKey \in ResetKeys
    /\ ScopedToCleanActor

CleanEvidence == {e \in events : e.actor = CleanActor}

\* What a reset selected and erased is all there is: nothing was added since.
NothingAddedSince ==
    /\ resetPhase # "idle" => doomed = SessionsOfCleanActor
    /\ resetPhase = "erased" => erased = CleanEvidence

\* The invariant of the fenced system.
FencedInv == ResetInv /\ EvidenceInv /\ NothingAddedSince /\ SignedOutIsClean

-----------------------------------------------------------------------------
(* What the steps do. *)

\* A step of the learners is a step of the practice service; the store changes by a commit
\* that no lock holds back, or not at all.
LEMMA LearnerSteps ==
    ASSUME Learners
    PROVE  /\ [Next]_vars /\ UNCHANGED resetVars
           /\ \/ UNCHANGED <<events, sessions, idempotency>>
              \/ \E h \in Handlers : AppendCommits(h) /\ ~AppendBlocked(command[h])
<1>1. UNCHANGED resetVars /\ [Next]_vars
  BY DEF Learners, Next, Serve
<1>2. ASSUME NEW h \in Handlers, pc[h] = "prepared" /\ ~AppendBlocked(command[h]) /\ Append(h)
      PROVE  \/ UNCHANGED <<events, sessions, idempotency>>
             \/ AppendCommits(h) /\ ~AppendBlocked(command[h])
  BY <1>2 DEF Append, AppendReplays, AppendRefused, storeVars
<1>3. ASSUME \/ \E a \in Actors, t \in ActorSessions : SignIn(a, t)
             \/ \E h \in Handlers : \/ \E r \in Requests : Receive(h, r)
                                    \/ Load(h) \/ Die(h)
      PROVE  UNCHANGED <<events, sessions, idempotency>>
  BY <1>3 DEF SignIn, Receive, Load, Reject, ReplayStored, PrepareStart, PrepareAttempt,
              PrepareHint, PrepareSubmit, Prepare, Die, storeVars
<1> QED BY <1>1, <1>2, <1>3 DEF Learners

\* A command is the work of the learner whose request it answers: it writes a session and
\* evidence of that learner alone, who is signed in when it names an actor session.
LEMMA CommitOfLearner ==
    ASSUME IndInv, NEW h \in Handlers, AppendCommits(h)
    PROVE  LET c == command[h] IN
           /\ sessions' = Upsert(sessions, c.session, c.snapshot)
           /\ events' = events \cup c.events
           /\ c.snapshot.actor = c.actor /\ \A e \in c.events : e.actor = c.actor
           /\ EveryCommandIsFenced =>
                 c.actorSession # NoActorSession /\ currentSession[c.actor] # None
<1> DEFINE r == request[h]
           c == command[h]
<1>1. pc[h] = "prepared" /\ MayCommit(c) /\ Commit(c)
  BY DEF AppendCommits
<1>2. r \in Requests /\ Computed(h)
  BY <1>1 DEF IndInv, HandlersConsistent
<1>3. sessions' = Upsert(sessions, c.session, c.snapshot) /\ events' = events \cup c.events
  BY <1>1, CommitTables
<1>4. /\ c.actor = r.actor /\ c.snapshot.actor = r.actor /\ c.actorSession = FenceOf(r)
      /\ \A e \in c.events : e.actor = r.actor
  BY <1>2, ComputedCommand, ComputedEvents DEF Belong
<1>5. ASSUME EveryCommandIsFenced
      PROVE  c.actorSession # NoActorSession /\ currentSession[c.actor] # None
  <2>1. c.actorSession = r.actorSession /\ r.actorSession \in ActorSessions
    BY <1>2, <1>4, <1>5, RequestFields DEF FenceOf, EveryCommandIsFenced
  <2>2. c.actorSession # NoActorSession
    BY <2>1, ConstantAssumption
  <2> QED BY <1>1, <2>1, <2>2, ResetAssumption DEF MayCommit, Admitted, SessionRevoked
<1> QED BY <1>3, <1>4, <1>5

\* What a commit makes of the sessions and the evidence of the clean learner: nothing,
\* when the command is another learner's.
LEMMA CommitOfAnother ==
    ASSUME IndInv, [Next]_vars, NEW h \in Handlers, AppendCommits(h),
           command[h].actor # CleanActor
    PROVE  SessionsOfCleanActor' = SessionsOfCleanActor /\ CleanEvidence' = CleanEvidence
<1> DEFINE c == command[h]
<1>1. /\ sessions' = Upsert(sessions, c.session, c.snapshot)
      /\ events' = events \cup c.events
      /\ c.snapshot.actor # CleanActor /\ \A e \in c.events : e.actor # CleanActor
  BY CommitOfLearner
<1>2. /\ DOMAIN sessions' = DOMAIN sessions \cup {c.session}
      /\ sessions'[c.session] = c.snapshot
      /\ \A s \in DOMAIN sessions : s # c.session => sessions'[s] = sessions[s]
  BY <1>1 DEF Upsert
<1>3. \A s \in DOMAIN sessions : sessions'[s].actor = sessions[s].actor
  BY SessionsAreKept DEF Kept
<1> HIDE DEF c
<1>4. SessionsOfCleanActor' = SessionsOfCleanActor
  BY <1>1, <1>2, <1>3 DEF SessionsOfCleanActor
<1> QED BY <1>1, <1>4 DEF CleanEvidence

\* What a committed reset leaves of the tables.
LEMMA CommitLeaves ==
    ASSUME IndInv, ResetCommit
    PROVE  /\ DOMAIN sessions' = DOMAIN sessions \ doomed
           /\ \A s \in DOMAIN sessions' : sessions'[s] = sessions[s]
           /\ sessions' = [s \in DOMAIN sessions' |-> sessions'[s]]
           /\ DOMAIN idempotency' = {k \in DOMAIN idempotency : k[1] \notin doomed}
           /\ \A k \in DOMAIN idempotency' : idempotency'[k] = idempotency[k]
           /\ idempotency' = [k \in DOMAIN idempotency' |-> idempotency'[k]]
           /\ events' = events \ erased
           /\ currentSession' \in [Actors -> ActorSessions \cup {None}]
           /\ currentSession'[CleanActor] = None
           /\ \A a \in Actors : a # CleanActor => currentSession'[a] = currentSession[a]
           /\ UNCHANGED handlerVars
<1>1. currentSession \in [Actors -> ActorSessions \cup {None}]
  BY DEF IndInv, TypeOK, StoreTypeOK
<1> QED BY <1>1, ResetAssumption DEF ResetCommit

-----------------------------------------------------------------------------
(* The invariant that needs no fence. *)

LEMMA ResetInit == DemoInit => ResetInv
<1> SUFFICES ASSUME DemoInit PROVE ResetInv
  OBVIOUS
<1>1. IndInv
  BY InitEstablishes DEF DemoInit
<1> QED BY <1>1 DEF DemoInit, ResetInv, ResetTypeOK, ScopedToCleanActor

LEMMA LearnersKeepReset ==
    ASSUME ResetInv, Learners
    PROVE  ResetInv'
<1>1. [Next]_vars /\ UNCHANGED resetVars
  BY LearnerSteps
<1>2. IndInv'
  BY <1>1, NextPreserves DEF ResetInv
<1>3. ResetTypeOK' /\ (resetPhase # "idle" => resetKey \in ResetKeys)'
  BY <1>1 DEF resetVars, ResetInv, ResetTypeOK
<1>4. SessionsOfCleanActor \subseteq SessionsOfCleanActor'
  BY <1>1, SessionsAreKept DEF ResetInv, Kept, SessionsOfCleanActor
<1>5. ScopedToCleanActor'
  BY <1>1, <1>4 DEF resetVars, ResetInv, ScopedToCleanActor
<1> QED BY <1>2, <1>3, <1>5 DEF ResetInv

\* The clean learner's requests are revoked with the sessions they were computed from.
LEMMA CommitKeepsInvariant ==
    ASSUME ResetInv, ResetCommit
    PROVE  IndInv'
<1>1. IndInv /\ doomed \subseteq SessionsOfCleanActor
  BY DEF ResetInv, ScopedToCleanActor
<1>2. /\ DOMAIN sessions' = DOMAIN sessions \ doomed
      /\ \A s \in DOMAIN sessions' : sessions'[s] = sessions[s]
      /\ sessions' = [s \in DOMAIN sessions' |-> sessions'[s]]
      /\ DOMAIN idempotency' = {k \in DOMAIN idempotency : k[1] \notin doomed}
      /\ \A k \in DOMAIN idempotency' : idempotency'[k] = idempotency[k]
      /\ idempotency' = [k \in DOMAIN idempotency' |-> idempotency'[k]]
      /\ events' = events \ erased
      /\ currentSession' \in [Actors -> ActorSessions \cup {None}]
      /\ currentSession'[CleanActor] = None
      /\ \A a \in Actors : a # CleanActor => currentSession'[a] = currentSession[a]
      /\ pc' = pc /\ request' = request /\ loaded' = loaded /\ command' = command
      /\ reply' = reply
  BY <1>1, CommitLeaves DEF handlerVars
<1>3. TypeOK'
  <2>1. StoreTypeOK'
    BY <1>1, <1>2 DEF IndInv, TypeOK, StoreTypeOK
  <2> QED BY <1>1, <1>2, <2>1 DEF IndInv, TypeOK
<1>4. LedgerIsRecorded'
  <2>1. DOMAIN idempotency' \subseteq Sessions \X Keys
    BY <1>3 DEF TypeOK, StoreTypeOK
  <2>2. ASSUME NEW s \in Sessions, NEW k \in Keys
        PROVE  <<s, k>> \in DOMAIN idempotency' <=>
                   s \in DOMAIN sessions' /\ k \in DOMAIN sessions'[s].operations
    <3>1. <<s, k>> \in DOMAIN idempotency <=>
              s \in DOMAIN sessions /\ k \in DOMAIN sessions[s].operations
      BY <1>1 DEF IndInv, LedgerIsRecorded
    <3>2. <<s, k>> \in DOMAIN idempotency' <=> <<s, k>> \in DOMAIN idempotency /\ s \notin doomed
      BY <1>2
    <3> QED BY <1>2, <3>1, <3>2
  <2> QED BY <2>1, <2>2 DEF LedgerIsRecorded
<1>5. HandlersConsistent'
  BY <1>1, <1>2 DEF IndInv, HandlersConsistent, Computed
<1>6. LedgersNotEmpty'
  BY <1>1, <1>2 DEF IndInv, LedgersNotEmpty
<1>7. LoadedIsPast'
  <2> SUFFICES ASSUME NEW h \in Handlers, pc[h] = "prepared", ~Starts(request[h]),
                      ~SessionRevoked(command[h])'
               PROVE  LET s == request[h].session IN
                      /\ s \in DOMAIN sessions'
                      /\ sessions'[s].actor = loaded[h].actor
                      /\ DOMAIN loaded[h].operations \subseteq DOMAIN sessions'[s].operations
                      /\ DOMAIN loaded[h].operations = DOMAIN sessions'[s].operations =>
                             loaded[h] = sessions'[s]
    BY <1>2 DEF LoadedIsPast
  <2> DEFINE r == request[h]
             c == command[h]
  <2>1. r \in Requests /\ Computed(h)
    BY <1>1 DEF IndInv, HandlersConsistent
  <2>2. /\ c.actor = r.actor /\ c.actorSession = r.actorSession
        /\ loaded[h].actor = r.actor
        /\ r.actor \in Actors /\ r.actorSession \in ActorSessions
    BY <2>1, ComputedCommand, RequestFields DEF FenceOf, Starts
  <2>3. currentSession'[c.actor] = c.actorSession
    BY <1>2, <2>2, ConstantAssumption DEF SessionRevoked
  <2>4. r.actor # CleanActor /\ currentSession[c.actor] = c.actorSession
    BY <1>2, <2>2, <2>3, ResetAssumption
  <2>5. LET s == r.session IN
        /\ s \in DOMAIN sessions /\ sessions[s].actor = loaded[h].actor
        /\ DOMAIN loaded[h].operations \subseteq DOMAIN sessions[s].operations
        /\ DOMAIN loaded[h].operations = DOMAIN sessions[s].operations =>
               loaded[h] = sessions[s]
    BY <1>1, <2>4 DEF IndInv, LoadedIsPast, SessionRevoked
  <2>6. r.session \notin doomed
    BY <1>1, <2>2, <2>4, <2>5 DEF SessionsOfCleanActor
  <2> QED BY <1>2, <2>5, <2>6
<1> QED BY <1>3, <1>4, <1>5, <1>6, <1>7 DEF IndInv

\* What a reset that has not committed leaves alone: everything learners see.
LEMMA NothingVisible ==
    ASSUME UNCHANGED vars
    PROVE  /\ IndInv => IndInv'
           /\ EvidenceInv => EvidenceInv'
           /\ SessionsOfCleanActor' = SessionsOfCleanActor
           /\ CleanEvidence' = CleanEvidence
           /\ SignedOutIsClean => SignedOutIsClean'
<1>1. IndInv => IndInv'
  BY NextPreserves
<1>2. EvidenceInv => EvidenceInv'
  BY EvidenceStays DEF vars, storeVars
<1> QED BY <1>1, <1>2 DEF vars, storeVars, SessionsOfCleanActor, CleanEvidence, SignedOutIsClean

LEMMA ResetKeepsReset ==
    ASSUME ResetInv, Reset
    PROVE  ResetInv'
<1> USE DEF ResetInv, ResetTypeOK, ScopedToCleanActor
<1>0. SessionsOfCleanActor \subseteq Sessions /\ events \subseteq EvidenceEvent
  BY DEF SessionsOfCleanActor, IndInv, TypeOK, StoreTypeOK
<1>1. ASSUME NEW k \in ResetKeys, ResetSelect(k) PROVE ResetInv'
  BY <1>0, <1>1, NothingVisible DEF ResetSelect
<1>2. CASE ResetErase
  BY <1>0, <1>2, NothingVisible DEF ResetErase
<1>3. CASE ResetCommit
  <2>1. IndInv'
    BY <1>3, CommitKeepsInvariant
  <2>2. resetKey \in ResetKeys
    BY <1>3 DEF ResetCommit
  <2> QED BY <1>3, <2>1, <2>2 DEF ResetCommit, ResetEnds
<1>4. CASE ResetAbort
  BY <1>4, NothingVisible DEF ResetAbort, ResetEnds
<1> QED BY <1>1, <1>2, <1>3, <1>4 DEF Reset

LEMMA ResetStays ==
    ASSUME ResetInv, UNCHANGED demoVars
    PROVE  ResetInv'
BY NothingVisible DEF demoVars, resetVars, ResetInv, ResetTypeOK, ScopedToCleanActor

LEMMA ResetSteps == ResetInv /\ [DemoNext]_demoVars => ResetInv'
BY LearnersKeepReset, ResetKeepsReset, ResetStays DEF DemoNext

LEMMA ResetInvariance == DemoSpec => []ResetInv
BY ResetInit, ResetSteps, PTL DEF DemoSpec

\* The reset keeps its types, however many run against however many requests.
THEOREM ResetTypeCorrect == DemoSpec => []ResetTypeOK
<1>1. ResetInv => ResetTypeOK
  BY DEF ResetInv
<1> QED BY <1>1, ResetInvariance, PTL

\* The actor-session fence and the ledger check hold through resets as well: what the store
\* admits was computed from what it holds, even when that was deleted meanwhile.
THEOREM AdmittedAreCurrentThroughResets == DemoSpec => []AdmittedIsCurrent
<1>1. ResetInv => AdmittedIsCurrent
  BY InvariantAdmits DEF ResetInv
<1> QED BY <1>1, ResetInvariance, PTL

\* A reset never takes a session, an operation or evidence from another learner.
THEOREM OtherLearnersAreSpared == DemoSpec => OtherLearnersKeepTheirs
<1> DEFINE Spared ==
        /\ \A s \in DOMAIN sessions :
             sessions[s].actor # CleanActor =>
                 /\ s \in DOMAIN sessions'
                 /\ DOMAIN sessions[s].operations \subseteq DOMAIN sessions'[s].operations
        /\ \A e \in events : e.actor # CleanActor => e \in events'
<1>1. ASSUME ResetInv, Learners PROVE Spared
  <2>1. [Next]_vars
    BY <1>1, LearnerSteps
  <2>2. \A s \in DOMAIN sessions : Kept(s)
    BY <1>1, <2>1, SessionsAreKept DEF ResetInv
  <2>3. events \subseteq events'
    BY <1>1, <2>1, SessionSteps, CommitOfLearner DEF ResetInv
  <2> QED BY <2>2, <2>3 DEF Kept
<1>2. ASSUME ResetInv, Reset PROVE Spared
  <2>1. CASE UNCHANGED vars
    BY <2>1 DEF vars, storeVars
  <2>2. CASE ResetCommit
    <3>1. /\ DOMAIN sessions' = DOMAIN sessions \ doomed
          /\ \A s \in DOMAIN sessions' : sessions'[s] = sessions[s]
          /\ events' = events \ erased
      BY <1>2, <2>2, CommitLeaves DEF ResetInv
    <3> QED BY <1>2, <3>1 DEF ResetInv, ScopedToCleanActor, SessionsOfCleanActor
  <2> QED BY <1>2, <2>1, <2>2 DEF Reset, ResetSelect, ResetErase, ResetAbort
<1>3. ASSUME ResetInv, UNCHANGED demoVars PROVE Spared
  BY <1>3 DEF demoVars, vars, storeVars
<1>4. ResetInv /\ [DemoNext]_demoVars => [Spared]_demoVars
  BY <1>1, <1>2 DEF DemoNext
<1> QED BY <1>4, ResetInvariance, PTL DEF DemoSpec, OtherLearnersKeepTheirs

-----------------------------------------------------------------------------
(* The invariant of the fenced system. *)

\* While a reset runs, no command of its learner commits.
LEMMA RunningResetHoldsBack ==
    ASSUME EveryCommandIsFenced, IndInv, NEW h \in Handlers, AppendCommits(h),
           ~AppendBlocked(command[h]), resetPhase # "idle"
    PROVE  command[h].actor # CleanActor
BY CommitOfLearner DEF AppendBlocked

\* Nothing of the learner is added while the learner is signed out.
LEMMA SignedOutWritesNothing ==
    ASSUME EveryCommandIsFenced, IndInv, NEW h \in Handlers, AppendCommits(h),
           currentSession[CleanActor] = None
    PROVE  command[h].actor # CleanActor
BY CommitOfLearner

\* What the ledgers and their records say, of one session at a time.
LEMMA RecordsHaveSessions ==
    ASSUME IndInv
    PROVE  \A k \in DOMAIN idempotency : k[1] \in DOMAIN sessions
<1> SUFFICES ASSUME NEW k \in DOMAIN idempotency PROVE k[1] \in DOMAIN sessions
  OBVIOUS
<1>1. DOMAIN idempotency \subseteq Sessions \X Keys
  BY DEF IndInv, LedgerIsRecorded
<1>2. PICK s \in Sessions, i \in Keys : k = <<s, i>>
  BY <1>1
<1> QED BY <1>2 DEF IndInv, LedgerIsRecorded

\* The same of the state a step leads to.
LEMMA RecordsHaveSessionsAfter ==
    (IndInv => \A k \in DOMAIN idempotency : k[1] \in DOMAIN sessions)'
<1>1. IndInv => \A k \in DOMAIN idempotency : k[1] \in DOMAIN sessions
  BY RecordsHaveSessions
<1> QED BY <1>1, PTL

LEMMA FencedInit == DemoInit => FencedInv
<1> SUFFICES ASSUME DemoInit PROVE FencedInv
  OBVIOUS
<1>1. ResetInv /\ EvidenceInv
  BY ResetInit, EvidenceInit DEF DemoInit
<1>2. events = {} /\ DOMAIN sessions = {} /\ DOMAIN idempotency = {}
  BY DEF DemoInit, Init, EmptyTable
<1>3. SignedOutIsClean /\ NothingAddedSince
  BY <1>2 DEF DemoInit, SignedOutIsClean, NothingAddedSince, SessionsOfCleanActor
<1> QED BY <1>1, <1>3 DEF FencedInv

LEMMA LearnersKeepFenced ==
    ASSUME EveryCommandIsFenced, FencedInv, Learners
    PROVE  FencedInv'
<1>1. [Next]_vars /\ UNCHANGED resetVars /\ IndInv
  BY LearnerSteps DEF FencedInv, ResetInv
<1>2. ResetInv' /\ EvidenceInv'
  BY <1>1, LearnersKeepReset, EvidenceSteps DEF FencedInv
<1>3. ASSUME resetPhase # "idle" \/ currentSession[CleanActor] = None
      PROVE  SessionsOfCleanActor' = SessionsOfCleanActor /\ CleanEvidence' = CleanEvidence
  <2>1. CASE UNCHANGED <<events, sessions, idempotency>>
    BY <2>1 DEF SessionsOfCleanActor, CleanEvidence
  <2>2. ASSUME NEW h \in Handlers, AppendCommits(h), ~AppendBlocked(command[h])
        PROVE  SessionsOfCleanActor' = SessionsOfCleanActor /\ CleanEvidence' = CleanEvidence
    <3>1. command[h].actor # CleanActor
      BY <1>1, <1>3, <2>2, RunningResetHoldsBack, SignedOutWritesNothing
    <3> QED BY <1>1, <2>2, <3>1, CommitOfAnother
  <2> QED BY <2>1, <2>2, LearnerSteps
<1>4. NothingAddedSince'
  BY <1>1, <1>3 DEF FencedInv, NothingAddedSince, resetVars
<1>5. currentSession'[CleanActor] = None => currentSession[CleanActor] = None
  <2>1. ASSUME NEW a \in Actors, NEW t \in ActorSessions, SignIn(a, t),
               currentSession'[CleanActor] = None
        PROVE  currentSession[CleanActor] = None
    <3>1. currentSession \in [Actors -> ActorSessions \cup {None}]
      BY <1>1 DEF IndInv, TypeOK, StoreTypeOK
    <3> QED BY <2>1, <3>1, ResetAssumption DEF SignIn
  <2>2. \/ \E a \in Actors, t \in ActorSessions : SignIn(a, t)
        \/ currentSession' = currentSession
    BY <1>1 DEF Next, vars, storeVars, Receive, Serve, Load, Append, Reject, ReplayStored,
                PrepareStart, PrepareAttempt, PrepareHint, PrepareSubmit, Prepare,
                AppendCommits, AppendReplays, AppendRefused, Die, Commit
  <2> QED BY <2>1, <2>2
<1>6. SignedOutIsClean'
  <2> SUFFICES ASSUME currentSession'[CleanActor] = None
               PROVE  /\ SessionsOfCleanActor' = {}
                      /\ \A e \in events' : e.actor # CleanActor
                      /\ \A k \in DOMAIN idempotency' : k[1] \in DOMAIN sessions'
    BY DEF SignedOutIsClean
  <2>1. SessionsOfCleanActor = {} /\ CleanEvidence = {}
    BY <1>5 DEF FencedInv, SignedOutIsClean, CleanEvidence
  <2>2. SessionsOfCleanActor' = {} /\ CleanEvidence' = {}
    BY <1>3, <1>5, <2>1
  <2>3. IndInv'
    BY <1>1, NextPreserves
  <2>4. \A k \in DOMAIN idempotency' : k[1] \in DOMAIN sessions'
    BY <2>3, RecordsHaveSessionsAfter
  <2> QED BY <2>2, <2>4 DEF CleanEvidence
<1> QED BY <1>2, <1>4, <1>6 DEF FencedInv

\* A reset that commits leaves nothing of its learner and all of everybody else.
LEMMA CommitKeepsFenced ==
    ASSUME FencedInv, ResetCommit
    PROVE  FencedInv'
<1>1. /\ IndInv /\ ResetInv /\ resetPhase = "erased"
      /\ doomed = SessionsOfCleanActor /\ erased = CleanEvidence
  BY DEF FencedInv, ResetInv, NothingAddedSince, ResetCommit
<1>2. /\ DOMAIN sessions' = DOMAIN sessions \ doomed
      /\ \A s \in DOMAIN sessions' : sessions'[s] = sessions[s]
      /\ events' = events \ erased
  BY <1>1, CommitLeaves
<1>3. ResetInv'
  BY <1>1, ResetKeepsReset DEF Reset
<1>4. /\ \A e \in events : e.session \in DOMAIN sessions
                          /\ e.actor = sessions[e.session].actor
      /\ \A s \in DOMAIN sessions : {e.id[2] : e \in EventsOf(s)} = DOMAIN sessions[s].operations
      /\ \A s \in DOMAIN sessions : CountersAgree(EventsOf(s), sessions[s])
  BY CountersMatch DEF FencedInv, EvidenceInv, EvidenceHasLedger
<1>5. ASSUME NEW s \in DOMAIN sessions'
      PROVE  {e \in events' : e.session = s} = EventsOf(s)
  <2>1. s \in DOMAIN sessions /\ sessions[s].actor # CleanActor
    BY <1>1, <1>2, <1>5 DEF SessionsOfCleanActor
  <2> QED BY <1>1, <1>2, <1>4, <2>1 DEF EventsOf, CleanEvidence
<1>6. EvidenceInv'
  <2>1. IsFiniteSet(events')
    BY <1>2, FS_Difference DEF FencedInv, EvidenceInv
  <2>2. \A e \in events' : e.session \in DOMAIN sessions' /\ e.actor = sessions'[e.session].actor
    BY <1>1, <1>2, <1>4 DEF SessionsOfCleanActor, CleanEvidence
  <2>3. \A s \in DOMAIN sessions' :
            {e.id[2] : e \in {x \in events' : x.session = s}} = DOMAIN sessions'[s].operations
    BY <1>2, <1>4, <1>5
  <2>4. \A s \in DOMAIN sessions' :
            CountersAgree({x \in events' : x.session = s}, sessions'[s])
    BY <1>2, <1>4, <1>5
  <2>5. EvidenceHasLedger'
    BY <2>2, <2>3 DEF EvidenceHasLedger, EventsOf
  <2>6. (\A s \in DOMAIN sessions : CountersAgree(EventsOf(s), sessions[s]))'
    BY <2>4 DEF EventsOf, CountersAgree, HasSolution
  <2> QED BY <2>1, <2>5, <2>6, CountersMatchAfter DEF EvidenceInv
<1>7. SessionsOfCleanActor' = {} /\ \A e \in events' : e.actor # CleanActor
  BY <1>1, <1>2 DEF SessionsOfCleanActor, CleanEvidence
<1>8. \A k \in DOMAIN idempotency' : k[1] \in DOMAIN sessions'
  BY <1>3, RecordsHaveSessionsAfter DEF ResetInv
<1>9. NothingAddedSince'
  BY DEF ResetCommit, ResetEnds, NothingAddedSince
<1> QED BY <1>3, <1>6, <1>7, <1>8, <1>9 DEF FencedInv, SignedOutIsClean

LEMMA ResetKeepsFenced ==
    ASSUME FencedInv, Reset
    PROVE  FencedInv'
<1>1. ResetInv'
  BY ResetKeepsReset DEF FencedInv
<1>2. CASE ResetCommit
  BY <1>2, CommitKeepsFenced
<1>3. CASE UNCHANGED vars
  <2>1. /\ EvidenceInv' /\ SignedOutIsClean'
        /\ SessionsOfCleanActor' = SessionsOfCleanActor /\ CleanEvidence' = CleanEvidence
    BY <1>3, NothingVisible DEF FencedInv
  <2>2. CASE \E k \in ResetKeys : ResetSelect(k)
    BY <1>1, <2>1, <2>2 DEF ResetSelect, FencedInv, NothingAddedSince
  <2>3. CASE ResetErase
    BY <1>1, <2>1, <2>3 DEF ResetErase, FencedInv, NothingAddedSince, CleanEvidence
  <2>4. CASE ResetAbort
    BY <1>1, <2>1, <2>4 DEF ResetAbort, ResetEnds, FencedInv, NothingAddedSince
  <2> QED BY <1>2, <2>2, <2>3, <2>4 DEF Reset
<1> QED BY <1>2, <1>3 DEF Reset, ResetSelect, ResetErase, ResetAbort

LEMMA FencedStays ==
    ASSUME FencedInv, UNCHANGED demoVars
    PROVE  FencedInv'
<1>1. ResetInv'
  BY ResetStays DEF FencedInv
<1>2. UNCHANGED vars /\ UNCHANGED resetVars
  BY DEF demoVars
<1> QED BY <1>1, <1>2, NothingVisible DEF FencedInv, NothingAddedSince, resetVars

LEMMA FencedSteps == EveryCommandIsFenced /\ FencedInv /\ [DemoNext]_demoVars => FencedInv'
BY LearnersKeepFenced, ResetKeepsFenced, FencedStays DEF DemoNext

LEMMA FencedInvariance == EveryCommandIsFenced => (DemoSpec => []FencedInv)
<1> SUFFICES ASSUME EveryCommandIsFenced PROVE DemoSpec => []FencedInv
  OBVIOUS
<1>1. FencedInv /\ [DemoNext]_demoVars => FencedInv'
  BY FencedSteps
<1> QED BY <1>1, FencedInit, PTL DEF DemoSpec

-----------------------------------------------------------------------------
(* Theorems about the fenced system. *)

\* A learner signed out by a reset left nothing behind, when every command is fenced.
THEOREM ResetLeavesNothing == EveryCommandIsFenced => (DemoSpec => []SignedOutIsClean)
<1>1. FencedInv => SignedOutIsClean
  BY DEF FencedInv
<1> QED BY <1>1, FencedInvariance, PTL

\* What a reset leaves still tells one history, when every command is fenced.
THEOREM ResetKeepsOneHistory ==
    EveryCommandIsFenced => (DemoSpec => []SnapshotAgreesWithEvidence)
<1>1. FencedInv => SnapshotAgreesWithEvidence
  BY DEF FencedInv, ResetInv, IndInv, EvidenceInv, SnapshotAgreesWithEvidence
<1> QED BY <1>1, FencedInvariance, PTL

\* No evidence of a learner appears while that learner is signed out, when every command
\* is fenced.
THEOREM RevokedLeaveNoEvidence == EveryCommandIsFenced => (DemoSpec => NoEvidenceWhileRevoked)
<1> SUFFICES ASSUME EveryCommandIsFenced PROVE DemoSpec => NoEvidenceWhileRevoked
  OBVIOUS
<1> DEFINE SignedIn == \A e \in events' \ events : currentSession[e.actor] # None
<1>1. ASSUME ResetInv, Learners PROVE SignedIn
  <2>1. ASSUME NEW h \in Handlers, AppendCommits(h) PROVE SignedIn
    BY <1>1, <2>1, CommitOfLearner DEF ResetInv
  <2> QED BY <1>1, <2>1, LearnerSteps
<1>2. ASSUME ResetInv, Reset PROVE SignedIn
  BY <1>2 DEF Reset, ResetSelect, ResetErase, ResetCommit, ResetAbort, vars, storeVars
<1>3. ResetInv /\ [DemoNext]_demoVars => [SignedIn]_demoVars
  BY <1>1, <1>2 DEF DemoNext
<1> QED BY <1>3, ResetInvariance, PTL DEF DemoSpec, NoEvidenceWhileRevoked
=============================================================================
