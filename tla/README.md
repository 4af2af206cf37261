# ThinkAI: a verification development

ThinkAI is a learning application: a learner practises a reviewed task, may open a
reviewed hint, and when the practice is solved proves the capability on a fresh task
without help; a capability receipt records the proof. Everything a learner does becomes
*evidence*: an append-only event log from which progress and receipts are derived.

The server (`src/src`) is a set of stateless services over one PostgreSQL store. Requests
run concurrently in one or more Node processes; between two awaits of one request any other
request may run. What the system promises is therefore a property of interleavings, and
that is what this development is about.

## 1. Inventory

| Component | State | Operations | Hard behaviour |
|---|---|---|---|
| Practice challenge (`challenge/service.ts`) | the session snapshot: stage, counters, hints, last score and outcome, and a ledger of operations by idempotency key | start, recordAttempt, declareCannotStart, openReviewedHint, submit; reads | each operation is computed from a snapshot loaded before an await (for a written solution an AI call) and appended afterwards |
| Evidence persistence (`persistence/index.ts`) | events, session snapshots, idempotency records, receipts, projections | appendCommand, reads | stale writers, repeated and racing keys, the actor-session fence, lock order |
| Actor sessions (`auth/session.ts`) | the current session id per actor | issue, issuePublicDemoLearner, verify, rotate | a token is verified once and used after awaits; a new sign-in or a reset revokes it meanwhile |
| Demo reset (`demo/service.ts`) | baselines, reset records | initialize, reset | several READ COMMITTED statements against running requests |
| Runtime composition (`runtime/server.ts`) | none of its own | startPublishedPractice, advancePractice, startPublishedTransfer, retryPublishedTransfer, issueReceiptForTransfer, companion, feedback | several services called one after the other without a common transaction; some writes name no actor session |
| Transfer (`transfer/service.ts`, `transfer/fresh-attempt.ts`) | transfer session snapshot, pair exposures | start, submit, revealConnection | exposure reserved before the start's checks; reveal outside the ledger |
| Receipts (`receipts/service.ts`) | capability_receipts | issue, get, rebuild progress and history | racing keys, which events qualify |
| Content revisions (`content/lifecycle.ts`, `content/postgres-repository.ts`) | revisions and their state, the active pointer, exposures | create draft, edit, review, approve, publish, deprecate, select | publish in two transactions, an edit that races a review |
| Operations console (`ops/service.ts`, `app/ops/page.tsx`) | the page: selection, draft, dirty flag, requests under way | create, next draft, add pair, edit, save, lifecycle steps | read in one transaction and written in another; answers that arrive for a revision no longer shown |
| Content validation (`content/publication.ts`, `v11-validator.ts`, `rubric.ts`) | none | what may be published | rubrics edited criterion by criterion |
| Grading and scoring (`grading/`, `scoring/`) | none | score, validate facets, derive an outcome | an evaluator that fails or contradicts must never yield CORRECT; exact decimals |
| AI adapters (`ai/`) | none | evaluate a rubric, complete a call; companion, feedback | a provider that is slow, fails or answers something else |
| Practice gate (`challenge/practice-gate.ts`) and advancing (`runtime/server.ts`) | none | next action from scored history, choice of the next pair | several reads before a write, repeated and concurrent advances |
| API (`api/dispatcher.ts`) | none | routing, authentication, error codes | |
| Practice page and API client (`app/components/practice-workspace.tsx`, `app/lib/api-client.ts`) | the view, the answer typed | attempt then submit, next, sending again after a new sign-in | a lost answer is followed by a new key |
| Assistance, discovery, other pages, migrations | | | |

They interact through the store alone: a service loads a snapshot (`find`), computes a
command, and calls `appendCommand`, which in one transaction checks the fence, the
idempotency record and the operation ledger, and writes snapshot, events and record
together. The operation ledger inside the snapshot takes the place of a revision number.

What makes the components correct:

- *Practice and persistence*: the snapshot, its ledger, the idempotency records and the
  events tell one history, whatever races, repeats or dies; a stale writer never wins; a
  solved session is final; an answered request is recorded; every request ends.
- *Actor sessions and reset*: what a revoked session started is either complete before the
  revocation or leaves nothing; a reset erases all of one learner and nothing of another.
- *Transfer and receipts*: a transfer starts from a solved practice and on a pair not yet
  exposed; one receipt per qualifying score, from a chain of the same learner.
- *Content*: what learners are pointed to was published, reads as its approver saw it, and
  can be practised; a revision follows its lifecycle whoever works on it.
- *Grading*: CORRECT only when a score or a complete rubric says so; a number is right
  exactly within its tolerance.
- *The gate*: readiness is earned on distinct tasks and is not taken back; advancing leads
  to a task the learner has not met.

## 2. Modules

| Module | Models |
|---|---|
| `EvidenceEvents` | evidence events of a practice, scores, grading outcomes, the gate |
| `EvidenceStore` | `appendCommand`: fence, idempotency, rollback guard, writes, as operators over the store's variables |
| `PracticeChallenge` | `PracticeChallengeService` behind the API: handlers that verify, load and compute, and append |
| `PracticeLifecycle` | the abstract specification: operations applied to a session one at a time, each once |
| `PracticeProperties` | types, invariants and action properties of `PracticeChallenge`, and the refinement mapping to `PracticeLifecycle` |
| `PracticeProofs` | the proofs about snapshots, ledgers and the lifecycle |
| `PracticeEvidenceProofs` | the proofs that compare them with the evidence log and with what learners were answered |
| `DemoReset` | the reset's statements interleaved with `PracticeChallenge` |
| `DemoProofs` | the proofs about it |
| `MCPractice`, `MCDemoReset` | symmetry and constants for TLC |
| `TransferQuest` | the road from a solved practice to a receipt: published-transfer routes, `TransferService`, exposure of fresh pairs, `CapabilityReceiptService`, over `EvidenceStore` |
| `CapabilityPath` | its abstract specification: begin on a solved practice, answer until verified, reveal, certify once |
| `TransferProperties` | types, invariants and action properties of `TransferQuest`, the promises it breaks, and the mapping to `CapabilityPath` |
| `TransferProofs` | the proofs about it: types, entitlement, single receipts |
| `TransferEvidenceProofs` | the proofs that compare snapshots, ledgers, evidence and receipts, and the refinement |
| `TransferPromiseProofs` | what remains true of the promises it breaks |
| `MCTransfer` | constants for TLC |
| `ReviewedContent` | what a revision's body holds, when it may be published, the lifecycle's table |
| `RevisionLifecycle` | the abstract specification of a revision: drafted, written while a draft, advanced one step at a time |
| `ContentService` | the server's side of authoring: every request to `/ops` as the reads and writes it makes, over the rows and the active pointers |
| `TaskAuthoring` | what the page's editors make of a draft: tasks, answer keys, rubrics, pairs, gate |
| `ContentStudio` | pages that choose, edit, save, create and step revisions, with requests and answers in flight, over `ContentService` |
| `ContentProperties` | what authoring guarantees, and the mapping to `RevisionLifecycle` |
| `ContentProofs` | the proofs about it |
| `AnswerScoring` | the deterministic scorer: texts, choices, exact decimals |
| `RubricGrading` | from the evaluator's replies to the outcome of a written solution |
| `PracticeEpisode` | a learner's way from the first task of a micro-skill to being ready: start, submit with the awaited evaluator, gate, advance |
| `EpisodeProperties` | what a learner can rely on along it |
| `EpisodeProofs` | the proofs about it |
| `MCContent`, `MCEpisode` | constants for TLC: catalogues of revisions, small micro-skills |

### How the practice model corresponds to the code

`sessions`, `events`, `idempotency` and `currentSession` are the tables. A snapshot keeps
`actor`, `pair` (the content binding), `stage`, the three counters (`hints` counts the
exposures), `lastScore`, `lastOutcome` and the ledger `operations`. An event keeps what the
properties read; its id is the triple the code hashes. Task and skill references, versions,
timestamps and texts are left out.

A handler's request passes three states, with an await between them:

1. `Receive`: the token is verified against the current session (`verify`). Nothing later
   in the service looks at it; only `appendCommand` compares it again.
2. `Reject`, `ReplayStored` or one of the `Prepare` actions: the session is loaded and the
   request decided from it (`load`, `replay`, the stage checks), the next snapshot and the
   events are computed. `PrepareSubmit` includes grading; a written solution may get any
   outcome, which covers an evaluator that answers, fails or is not configured. Load and
   computation are one step: the computation reads nothing but what was loaded, so only the
   time of the load and the time of the append matter to anyone else.
3. `AppendCommits`, `AppendReplays` or `AppendRefused`: the transaction. It is one step,
   because each command with a session holds the table lock from before its checks to its
   commit.

`Die` ends a request at either await: its process is gone. The store is the only thing that
survives, and `Die` does not touch it.

Two details are easy to get wrong. The fingerprint `appendCommand` stores contains the
events with their `occurredAt`, so a request that races its own retry normally finds its
key *reused for a different command*, an error, rather than replayed; both outcomes are
possible and both are in the model (`MayReplay`, `MayRefuse`). And `parseState` drops
`lastOutcome` from every stored operation, so the ledger's `result` has no such field
(`ResultFor`) although `resultFor` writes it.

### The reset

`DemoReset` takes the reset apart where another transaction can come between its
statements: `ResetSelect` (lines 73 to 87), `ResetErase` (the deletions: what they delete is
what was committed when they ran), `ResetCommit`. An append is held back as the database's
locks hold it back (`AppendBlocked`): a fenced command by the actor's advisory lock, from
the first statement to the commit; any command with a session by the table lock, once the reset has deleted
sessions. `SignIn` is allowed throughout: it touches only the actor's row, and the reset
locks that row last.

### The transfer and its receipt

`TransferQuest` takes the practice as `PracticeLifecycle` promises it: a session is opened
(`OpenPractice`) and at some moment solved for good (`SolvePractice`, with its score).
What it adds is the route from there, with an await between any two of these steps:

1. a start or retry: `ResumeStart` (the transfer of this key exists already, or the retried
   one is not the caller's), `ChoosePair` (the practice gate and the exposures are read, a
   fresh pair is chosen), `RecordExposure` (its own transaction), `LoadStart`
   (`startForPair` reads transfer and practice again), then the append;
2. an answer or a reveal: `LoadCommand`, then the append. A written solution may be graded
   with any outcome;
3. an issue, over either route: `LoadIssue` (chain and prior receipt), the append, and after
   a failed append `Relist`, which answers with a receipt of the same id if there is one.

Reads that another request cannot tell apart are one step; the comment at each such step
says why. The pair is chosen in the code by a hash of learner, revision and ordinal; the
model chooses any fresh one. Ids are the triples the code hashes. Of a client's keys the
model assumes that they do not begin with `start:`, the prefix of the server's own.

`capability_receipts` is not a variable: its row is inserted after the event whose id is
derived from the same score and policy, so its unique index cannot be reached by a second
receipt before the primary key of `evidence_events` refuses it.

### Authoring content

`rows` is `content_revisions`, `active` is `published_micro_skills`. A body is one
micro-skill node: its identity, its labels, its gate and its pairs of tasks; a text is kept
as filled in or not, except labels, by which the service finds subjects and topics.

A request is sent by a page, and from then on goes its own way: `ReadForPair`,
`ReadForNext` and `ReadForCreate` are the reads of the service's three read-then-write
operations, `WritePair` and `CreateDraft` their writes, `Save` and `Transition` single
statements, `PublishRow` and `PointActive` the two transactions of a publication. It can
die before any of them, and its answer reaches the page later or never.

A page holds the revision it shows, its draft and whether that is dirty, and what it waits
for. `Choose` discards edits, `TakeStep` saves a dirty draft before a review and goes on
whatever came of it, and an answer is taken in by whatever the page shows by then, as in
`page.tsx`. Two things are history: the body the approver's page showed (`approved`) and
the publications that died half way (`torn`).

### The practice episode

`PracticeChallenge` shows what races on one session; `PracticeEpisode` shows what comes of
many of them. A session is its pair, its stage and its ledger, and an append succeeds when
the ledger is the one that was loaded, which is what `PracticeProofs` proves of the store
(`AdmittedIsCurrent`). A session is named after the request that opens it, as the code
names it by a digest of learner or session and key.

An advance reads the gate (`ReadGate`), the exposures (`ChooseFresh`) and the session
(`FindSession`), then appends (`OpenSession`); a start has no gate. A submission loads
(`LoadSubmission`), and where the task is a written solution asks the provider criterion by
criterion (`ProviderReplies`, `ProviderStumbles`, `ProviderFails`), grades (`Grade`) and
appends (`RecordScore`). The choice of a pair is a hash in the code and any fresh pair here.
The learner asks what the page offers: a submission after its attempt, again if no answer
came, the next task below an outcome, a request again under its key; `LoadView` is the page
being told what comes next.

## 3. Runs

| Run | Question | Bounds |
|---|---|---|
| `practice` | do the four records of a session agree, does a stale writer lose, is the store a sequential lifecycle? | 2 handlers, 2 learners, 2 tokens, 1 session, 3 keys, 2 pairs (one a written solution) |
| `practice_answered` | does every request end? | 2 fair handlers, 1 learner, 2 tokens, 1 session, 2 keys, a reviewed and an unreviewed hint, both kinds of start |
| `practice_retry` | is a repeated submission answered with its own result? **violated** | 1 handler, 4 keys |
| `demo_reset` | does a reset erase all of one learner and nothing of another, with fenced requests racing it? | 2 handlers, 2 learners, 2 sessions, 2 keys, 2 reset keys |
| `demo_reset_unfenced` | the same of a published-practice start: **violated** | 1 handler, 1 session |
| `transfer_quest` | is a transfer what its evidence says, and final once verified, while starts, answers and reveals race? | 2 handlers, 1 learner, 1 practice, 2 keys, right and wrong answers |
| `transfer_receipt` | does a verified transfer get one receipt, without a failure shown, and does the store take only steps of the abstract road? | 2 handlers, both routes, 1 practice, 2 keys |
| `transfer_start` | what may start, on which pair, and what is certified? | 1 handler, 2 learners, 2 tokens, 2 practices, 3 pairs of which 2 share a task |
| `transfer_race` | are transfers fresh when two starts race? **violated** | 2 handlers, 2 pairs, 2 keys |
| `transfer_written` | is what was graded CORRECT certifiable? **violated** | 1 handler, a written transfer task |
| `content` | do learners get what was approved, is the store a lifecycle, do rows and rubrics stay coherent? | 2 pages, 3 revisions of one skill, 3 requests in flight, 4 turns of the users, 4 starting catalogues |
| `episode` | are grades deserved, is readiness earned and lasting, is advancing fresh, does every request end? | 2 handlers; micro-skills with 1 to 3 pairs, gates of 1 and 2, up to 5 requests and 2 repetitions; 15 numeric keys and 12 answers; 5 rubrics of up to 2 criteria with 18 replies to each, with and without an evaluator |

Why the bounds are enough: sessions do not interact except through the learner and the
reset, so one session shows what races on it, and two show what a reset must tell apart.
A race needs two handlers; a third could only repeat what the second does, since a commit
is atomic and a stale command stays stale. Three keys allow a start, a committed operation
and a stale or repeated third, in any stage; with the AI grader free to answer CORRECT the
session is solved after three. Two tokens are enough for one to be revoked: tokens are
recycled once no actor and no request holds them (`Fresh`). The counters are bounded by the
keys, because every commit uses one up.

Symmetry is used only in runs without fairness, and never over values a definition chooses
from.

Fairness: `practice_answered` and `episode` assume it, weakly, for each handler's `Serve`.
Node runs a continuation once its await has settled, every query either answers or rejects,
and a call of the provider is aborted after thirty seconds, so a request that was received
is served; nothing is assumed of learners, sign-ins or crashes.

What the violated runs show:

- `practice_retry`: submit an incorrect answer, submit a correct one, repeat the first
  request. Its answer carries stage, counters and score of the first submission and
  `lastOutcome` CORRECT of the second. The contract
  (`docs/architecture/competition-mvp/application-contracts.md`, line 35) promises the
  original result.
- `demo_reset_unfenced`: `startPublishedPractice` names no actor session, so it is not
  fenced; it was authenticated before the reset and appends after it. The comment in
  `demo/service.ts`, line 71, rules that out. The revoked learner has evidence again.
- `transfer_race`: two starts under different keys read the same exposures, choose the same
  pair, both record it (the second insert conflicts and is ignored) and both begin. The
  plan (`docs/superpowers/plans/2026-08-19-competition-demo-v1.1-final-implementation.md`,
  line 129) says an exposed transfer is never reused as fresh verification. With one
  request at a time (`transfer_start`) it never is.
- `transfer_written`: a written solution is scored `invalid` and graded CORRECT; the
  transfer is verified, but `issue` asks for `payload.outcome === "correct"`. The amendment
  contracts (`docs/architecture/competition-mvp/v1.1-amendment-contracts.md`, lines 45 and
  47) make the grading outcome the criterion. `transfer_start` shows that without written
  tasks whatever is verified is certifiable.

`transfer_quest` and `transfer_receipt` bound the learner to one practice and one pair, so
that only racing starts make a second transfer; `transfer_start` has the second practice,
the shared task, the other learner and the revoked token, and one handler. A start and an
answer need one key each, a competing one the second.

`content` starts TLC from an empty catalogue, a complete draft, a published revision with an
approved successor, and an approved revision beside one without pairs under review, so that
four turns reach every operation in every stage; the races it is about need two pages, or
one page and a request that is late. `episode` gives each kind of task courses of its own: a
gate of two takes four requests to pass and a fifth to overshoot; a micro-skill of three
pairs leaves a choice after the first; 0.45, 0.5, 0.55 and 0.551 around 0.5 with a
tolerance of 0.05 stand on both sides of the boundary, and are written with other zeros,
signs and numbers of decimals. Two criteria and three names tell apart a missing, a
repeated, a foreign and an optional criterion.

## 4. Proofs

All safety invariants and action properties the passing runs check are theorems. Of the
four promises the violated runs break, the two about the transfer and the one about the
reset are theorems under the hypothesis that makes them true, and the run that breaks them
shows the hypothesis is needed; `ReplayShowsOriginalResult` is a theorem in no form. The
liveness properties, `RequestsEnd` and
`EpisodeRequestsEnd`, are only model-checked: liveness under fairness is out of the prover's
reach.

Every inductive invariant was first checked by TLC as an invariant of the component's run.

### The practice

`PracticeProofs` and `PracticeEvidenceProofs` prove, for any number of handlers, learners,
tokens, sessions, keys, pairs, hints and answers satisfying `ConstantAssumption` and
`NoneIsNoRequest` (the placeholder for "no request" is not one):

- `TypeCorrect`: `Spec => []TypeOK`.
- `AdmittedAreCurrent`: `Spec => []AdmittedIsCurrent`. A command the store would admit was
  computed from the snapshot it overwrites.
- `SolvedStaysSolved`: `Spec => SolvedIsFinal`.
- `ImplementsLifecycle`: `Spec => RefinesLifecycle`.
- `StoreTellsOneHistory`: `Spec => []SnapshotAgreesWithEvidence`.
- `AcknowledgementsAreRecorded`: `Spec => []AcknowledgedIsRecorded`.

The argument. None of these is inductive by itself: that an admitted command is current
depends on what a handler loaded some time ago. The inductive invariant `IndInv` adds to
the types:

- `HandlersConsistent`: a prepared command is the one the service computes from `loaded`;
- `LoadedIsPast`: as long as its request has not been revoked, the session a handler loaded
  is still there and its learner's, the ledger loaded is part of the stored one, and while it
  is *all* of the stored one the stored snapshot is still the loaded one;
- `LedgersNotEmpty`: a stored ledger holds at least the start, so a start never passes the
  rollback guard against an existing row;
- `LedgerIsRecorded`: a key has an idempotency record exactly when the ledger holds it.

A commit adds exactly its own key to one ledger, and that key was not in it (its record
would have stopped the command). So ledgers grow, which gives the first half of
`LoadedIsPast`, and two ledgers of one session are equal only if nothing was committed
between them, which gives the second. The guard admits a command whose ledger (the loaded
one and the new key) contains the stored one; as the new key is not stored, the loaded
ledger is the stored one, and the loaded snapshot is current. From there each admitted
commit is the abstract operation on the abstract state (`CommitRefines`), every other step
leaves the tables alone and stutters. The exception for revoked requests is what lets the
same invariant survive a reset: the fence stops those, whatever they loaded.

The evidence log is compared with the snapshots by counting. `EvidenceInv` adds that the log
is finite, that an event's session and key are in a stored ledger (`EvidenceHasLedger`) and
that each counter is the number of events of its kind (`CountersMatchEvidence`). A commit's
events carry the new key; no event in the log carries it, since its ledger does not; so the
sets are disjoint and their sizes add up to the counter the service computed. What a learner
was answered rests on `FingerprintsAgree` (a record holds the row its operation wrote into
the ledger) and on ledgers keeping their rows: a request that is replayed, from the ledger
or from its record, is answered with the row that is there.

### The reset

`DemoProofs` adds `ResetAssumption` (the clean learner is one of the learners, "none" is no
session token) and proves, for any number of resets and requests:

- `ResetTypeCorrect`: `DemoSpec => []ResetTypeOK`.
- `AdmittedAreCurrentThroughResets`: `DemoSpec => []AdmittedIsCurrent`.
- `OtherLearnersAreSpared`: `DemoSpec => OtherLearnersKeepTheirs`.

and, where every command names its actor session (`EveryCommandIsFenced`):

- `ResetLeavesNothing`: `DemoSpec => []SignedOutIsClean`.
- `ResetKeepsOneHistory`: `DemoSpec => []SnapshotAgreesWithEvidence`.
- `RevokedLeaveNoEvidence`: `DemoSpec => NoEvidenceWhileRevoked`.

`ResetInv` adds to `IndInv` that a reset holds sessions of the clean learner only
(`ScopedToCleanActor`): a reset deletes by the list it selected, and a session never
changes hands. `FencedInv` is about the gap between that list and the deletions: while a
fenced reset is under way nothing of the clean learner's is added (`NothingAddedSince`), because
`AppendBlocked` holds a fenced command back by the advisory lock; so the old list is still the
whole list when it is used. A published-practice start is not fenced, and `demo_reset_unfenced`
shows the three theorems fail with it.

### The transfer

`TransferProofs` proves, for any constants satisfying `QuestAssumption` (the placeholder
"none" is neither a practice nor a transfer's id, among others):

- `QuestTypeCorrect`: `QuestSpec => []QuestTypeOK`.
- `TransfersAreEntitled`: `QuestSpec => []TransferIsEntitled`. Whatever happens between the
  gate and the append, a transfer rests on a solved practice of its learner and on a
  recorded exposure.
- `ReceiptsAreUnique`: `QuestSpec => []OneReceiptPerScore`.

Its invariant says what a handler holds at each of its places (`PendingAt`): the
exposure it recorded is there, a prepared command is `Sound`, that is, its snapshot is
entitled and a receipt comes alone and is named after the score it cites. It is preserved
because no step takes back a row, a solved practice or an exposure (`Onward`), which is
proved action by action. Two receipts for one score would have one id, and `MayCommit`
admits no event whose id is stored. The assumption that practice and transfer ids differ
stands for their prefixes (`challenge_`, `transfer_`).

`TransferEvidenceProofs` proves, from the same assumptions:

- `TransfersMatchTheirEvidence`: `QuestSpec => []TransferMatchesEvidence`.
- `VerifiedTransfersAreFinal`: `QuestSpec => VerifiedIsFinal`.
- `ReceiptsAreEarned`: `QuestSpec => []ReceiptIsEarned`.
- `RacingIssuesAreAnswered`: `QuestSpec => []RacingIssueIsAnswered`.
- `QuestImplementsPath`: `QuestSpec => ImplementsPath`.

Its invariant `QuestInv` says of the store (`StoreInv`) that an event is named after the
command that wrote it, that a transfer has one verdict of success, that snapshot and events
match, that receipts were earned and ledgers are recorded; and of the handlers
(`HandlersInv`) what each loaded. The ledger argument of the practice carries over to answers
(`SubmitHeld`); a reveal is not in the ledger, so the guard admits a stale one. `RevealHeld`
closes that gap by the stage: a reveal was computed from a verified row, a verified row is
changed by nothing but a reveal, so what a stale reveal writes is already there. That
a losing issue is answered (`FailedOn`) rests on the order of two events: an append that
fails on a stored receipt id was preceded by its commit, and receipts are never deleted, so
the relisting finds it.

`TransferPromiseProofs` proves what remains of the two broken promises:

- `ServedOneByOneTransfersAreFresh`: `OneAtATime => (QuestSpec => []TransfersAreFresh)`,
  where `OneAtATime` leaves one handler. `transfer_race` breaks it with two.
- `UnwrittenIsCertifiable`: `NothingWritten => (QuestSpec => []VerifiedIsCertifiable)`, where
  no task is a written solution. `transfer_written` breaks it with one.
- `ScoredTransfersAreCertifiable`, without any hypothesis on the tasks: a transfer verified
  by a `correct` score, on a practice solved by one, is certifiable.

### Content

`ContentProofs` proves, for any numbers of pages, requests and revisions, any labels and
forms, and any starting contents satisfying `ServiceAssumption` (what the operations can
have led to):

- `LearnersAreServedWhatWasApproved`: `Spec => []LearnersGetWhatWasApproved`.
- `UnreachedAreExplained`: `Spec => []UnreachedIsExplained`. Learners find a skill when the
  revision it points to is PUBLISHED, which is how the server's query joins the two tables.
  A PUBLISHED revision whose skill they do not find is one whose publication is half done,
  or the skill points to a revision that was deprecated, such as a successor of this one.
- `RowsStayCoherent`: `Spec => []RowsAreCoherent`.
- `StoreImplementsLifecycle`: `Spec => RefinesRevisionLifecycle`.
- `ContentTypesHold`: `Spec => []ContentTypeOK`.
- `RubricsRequireWhatTheyHave`: `Spec => []RequiredCriteriaExist`.

What the approver was shown is a copy that may be arbitrarily old, so the inductive
invariant `Inv` is about copies: a copy of a revision in a list, on a page or in a request
(`IsCopy`, `RequestFine`) is a body of that revision and, if it was past DRAFT when it was
taken, it is the stored body and the row is past DRAFT too. Rows never move backwards and
what review froze keeps its words (`Onward`), which keeps every old copy true. That no
insert overwrites a row rests on `DrawsFine` (no two requests hold one new revision, and
none of them is stored); that no pair occurs twice rests on `Used` (a pair made by a request
is named after it, and the request has then left `sent`).

The last two rest on what the editors do to lists. Removing a criterion filters the required
numbers (`Without`), which the model defines by a recursive function over prefixes; what it
returns for every list (`WithoutElements`) is proved by induction over its length. The
library's induction theorem takes an operator as a parameter, which the provers cannot
instantiate, so `EveryNumber` states induction for a *set* of numbers instead, from the
well-foundedness of `<` on the naturals: a set that is not all of them misses a least one.
With it, every edit is shown to keep each rubric of a body `Sound` (it requires only
criteria it has), although numbers repeat after a removal, and that is part of what `Inv`
says of every copy (`IsTask`).

### The practice episode

`EpisodeProofs` proves, for any courses, answers and replies satisfying `EpisodeAssumption`
(the gate counts in natural numbers, accepted texts are texts, numbers are written in
decimal digits, criteria form a list) and any
number of handlers, requests and repetitions:

- `EpisodeTypesHold`: `Spec => []EpisodeTypeOK`.
- `GradesAreDeserved`: `Spec => []GradeIsDeserved`.
- `VerdictsAreExact`: `Spec => []VerdictIsExact`.
- `AdvancesAreFresh`: `Spec => []AdvanceIsFresh`.
- `ReadinessIsEarned`: `Spec => []ReadyIsEarned`.
- `ReadinessStays`: `Spec => []ReadyStaysReady`.

No step takes back a request, a session with its pair, a solved stage or an event
(`Onward`), so what a handler holds at each of its places (`HandlerFine`) outlives the moves
of the others. A fresh pair is fresh because every session has an event that announced its
pair (`EventsFine`). Readiness counts pairs in events, which only grow, and every pair
counted is that of a solved session. That each criterion was spoken of exactly once is a
counting argument (`OneReplyEach`): as many replies as criteria, none named twice, none
foreign, so the naming is a bijection.

That a verdict is exact is arithmetic, for any number of digits (`ScoreIsExact`).  The
property compares all three numbers in units of the decimals they have together; the code
trims the zeros of each and rescales the sides to the larger of their scales. Digits joined
are the whole digits times a power of ten plus the decimals (`DigitsJoin`), a trim divides
without a remainder (`ParsedExactly`), and rescaling both sides multiplies them by one
positive power of ten, which keeps their order (`WithinIsNear`). What these say of every
number of digits is an induction: the library's is about operators, so `EveryNumber`,
`LeastNumber` and `GreatestNumber` state it of a set of numbers.

Only model-checked of this part: `EpisodeRequestsEnd`, a liveness property.

## 5. Not modelled, and why

- The legacy content validator and loader (`content/validator.ts`, `loader.ts`), snapshot
  integrity and version drift: string and schema checks of static documents. The models
  start from reviewed content and bind a session to one pair.
- Of the console: readiness answers and the preview (both are shown and decide nothing),
  filters, display order, texts (a text is filled in or not) and `POST /ops/drafts` (no page
  sends it).
- API body limits, roles, error texts, token signatures and expiry: stateless.
- Companion, process feedback, assistance: prompt assembly around one evidence event that
  no modelled component reads.
- `aggregateGrading` (`grading/service.ts`): only its test calls it.
- Projections (`evidence_projections`): written, never read by the runtime.
- The in-memory store and demo service: test doubles of the modelled ones.
- The remaining pages: they show what they read.

### Noticed while modelling

Of four behaviours the models contain a document of the repository says otherwise. No run
checks what it says; the properties of the runs are stated so that they hold all the same:

- *The active pointer* can be moved to a DEPRECATED revision: `publish` sets the row in one
  transaction and moves the pointer in another that looks at no lifecycle
  (`content/postgres-repository.ts` 20), and a deprecation may come between. The plan
  `2026-08-19-competition-demo-v1.1-final-implementation.md` has `published_micro_skills`
  map each active micro-skill to exactly one PUBLISHED revision (line 168) and the pointer
  reject a revision that is not published (line 170). Deprecating the revision a skill
  points to leaves it there as well, even where an earlier revision is still PUBLISHED; in
  both cases learners do not find the skill, which is the second of the explanations of
  `UnreachedIsExplained`.
- *Concurrent draft edits* overwrite each other: a save and a pair addition write the whole
  body, the latter one read in an earlier transaction (`ops/service.ts` 195), with no
  revision token. Of two pages that each add a pair to one draft, both are told of success
  and one pair is gone. The same plan asks for a revision token (line 166) and for the
  conflict to be detected (line 170). `RefinesRevisionLifecycle` allows the lost update: a
  draft may be written again with any body.
- *A repeated advance* is not answered with its first result: the pair of the session it
  began is exposed by then, so another one is chosen, with which `practice.start` refuses
  the key, or the learner is sent to recovery if none is left (`runtime/server.ts` 150).
  `application-contracts.md`, line 35, promises the original result to a retry.
- *A receipt without a reveal*: the state diagram of the transfer
  (`event-and-state-model.md`, lines 102 and 103) draws the reveal of the connection before
  the receipt. The code issues a receipt for a verified transfer, revealed or not
  (`receipts/service.ts` 71), its tests issue without a reveal, and so does the model.

Of the following no document was found that says otherwise, but a maintainer should know it:

- A rubric without criteria is publishable; the evaluator then makes no call and every
  written solution is CORRECT (`ai/live-rubric-evaluator.ts` 10 and 25,
  `grading/aggregation.ts` 7). The transfer's own test uses such a rubric
  (`transfer/service.test.ts` 11), with an evaluator that reports the reasoning correct, and
  expects a verified transfer; the live evaluator always reports so of it. A rubric with
  `finalAnswerFacet` required can never be CORRECT, since the evaluator reports the final
  answer as unknown; and a written solution is never INCORRECT.
- A publication that dies between its two transactions leaves a PUBLISHED revision no
  learner is pointed to and no request can publish again (`content/postgres-repository.ts`
  20).
- "Send to review" of a draft with unsaved edits goes on when its save fails, and the stored
  body is reviewed (`app/ops/page.tsx` 344).
- Criteria are numbered by the length of their list, so that a number can occur twice after
  a removal (`app/ops/page.tsx` 1230); removing one of the two un-requires the other.
- After a lost answer the practice page submits again under a new key, and both submissions
  count towards `maxPracticeItems`; once that is reached without enough solved tasks,
  PRACTICE_RECOVERY is permanent. The "next" button is not disabled while it works: two
  clicks begin two sessions, on one pair or on two.

## 6. Plan

One module is left, with its runs and mutants:

1. `AppendLocks`: `appendCommand` and `reset` lock by lock, deadlock checked, refining the
   atomic append of `EvidenceStore`; the reset composed with exposures and transfers.
