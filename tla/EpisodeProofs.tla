---------------------------- MODULE EpisodeProofs ----------------------------
(***************************************************************************)
(* Proofs about PracticeEpisode, for every set of courses that satisfies   *)
(* EpisodeAssumption and any number of handlers, requests and repetitions. *)
(* Nothing a handler relies on is ever taken back: requests, sessions and  *)
(* their pairs, solved stages and events only accumulate (Onward).  What a *)
(* handler holds at each of its places (HandlerFine) is therefore still    *)
(* true when another one has moved.                                        *)
(***************************************************************************)
EXTENDS EpisodeProperties, FiniteSetTheorems, SequenceTheorems, WellFoundedInduction, TLAPS

Pairs == DOMAIN course.tasks

Tried == UNION {AnswersTo(course.tasks[pair]) : pair \in Pairs}

Spoken == UNION {RepliesTo(course.tasks[pair]) : pair \in Pairs}

Requests == {StartRequest} \cup {NextRequest(k) : k \in Nat}
            \cup {SubmitRequest(k, answer) : k \in Nat, answer \in Tried}

Handling ==
    [at : Stages \ {"idle"}, key : Nat, pair : Pairs \cup {None}, ledger : SUBSET Nat,
     replies : Seq(Spoken), attempt : {0, 1}, outcome : GradingOutcome \cup {Unset},
     before : SUBSET Nat]

Session == [pair : Pairs, stage : {"ready", "attempting", "solved"}, ledger : SUBSET Nat]

EventRecord ==
    [type : {"challenge_started"}, key : Nat, pair : Pairs, outcome : {Unset}]
    \cup [type : {"practice_scored"}, key : Nat, pair : Pairs, outcome : GradingOutcome]

Types ==
    /\ course \in Courses
    /\ asked \in Seq(Requests)
    /\ work \in [Handlers -> {Idle} \cup Handling]
    /\ DOMAIN sessions \subseteq Keys
    /\ sessions \in [DOMAIN sessions -> Session]
    /\ events \subseteq EventRecord
    /\ told \subseteq NextActions

\* Ledgers hold keys of requests and the key of an attempt; events name requests.
LedgersFine ==
    /\ \A k \in DOMAIN sessions : sessions[k].ledger \subseteq Keys \cup {AttemptKey}
    /\ \A e \in events : e.key \in Keys

\* A page knows the session it asks about.
RequestFine(k) ==
    asked[k].op # "start" =>
        /\ asked[k].session \in DOMAIN sessions
        /\ asked[k].op = "submit" =>
              asked[k].answer \in AnswersTo(course.tasks[sessions[asked[k].session].pair])

\* What a handler holds at each of its places.
HandlerFine(h) ==
    work[h] # Idle =>
        /\ work[h].key \in Keys
        /\ work[h].before \subseteq DOMAIN sessions
        /\ work[h].at \in {"chosen", "opening"} =>
              /\ asked[work[h].key].op \in {"start", "next"}
              /\ work[h].pair \in Pairs
              /\ asked[work[h].key].op = "next" =>
                    \A k \in work[h].before : sessions[k].pair # work[h].pair
        /\ work[h].at = "received" => work[h].replies = <<>>
        /\ work[h].at = "continuing" => asked[work[h].key].op = "next"
        /\ work[h].at \in {"asking", "graded"} => asked[work[h].key].op = "submit"
        /\ work[h].at = "asking" =>
              /\ course.evaluator
              /\ TaskOf(h).kind = "written_solution"
              /\ Len(work[h].replies) <= Len(TaskOf(h).criteria)
        /\ work[h].at = "graded" =>
              /\ work[h].outcome \in GradingOutcome
              /\ TaskOf(h).kind # "written_solution" =>
                    work[h].outcome = DeterministicOutcome(Score(TaskOf(h), AnswerOf(h)))
              /\ work[h].outcome = "CORRECT" =>
                    Deserved(TaskOf(h), AnswerOf(h), work[h].replies)

\* Every session was announced, and every solution left its session solved.
EventsFine ==
    /\ IsFiniteSet(events)
    /\ \A k \in DOMAIN sessions : sessions[k].pair \in ExposedPairs
    /\ DistinctCorrect \subseteq SolvedPairs

Inv ==
    /\ Types
    /\ LedgersFine
    /\ \A k \in Keys : RequestFine(k)
    /\ \A h \in Handlers : HandlerFine(h)
    /\ EventsFine

\* What no step takes back.
Onward ==
    /\ course' = course
    /\ Keys \subseteq Keys'
    /\ \A k \in Keys : asked'[k] = asked[k]
    /\ DOMAIN sessions \subseteq DOMAIN sessions'
    /\ \A k \in DOMAIN sessions :
          /\ sessions'[k].pair = sessions[k].pair
          /\ sessions[k].stage = "solved" => sessions'[k].stage = "solved"
    /\ events \subseteq events'

-----------------------------------------------------------------------------
(* Grades. *)

\* As many replies as criteria, none naming the same or a foreign one: each is named once.
LEMMA OneReplyEach ==
    ASSUME NEW R, NEW replies \in Seq(R), NEW C, NEW criteria \in Seq(C),
           Len(replies) = Len(criteria),
           IsUnique([i \in DOMAIN replies |-> replies[i].id]),
           SeqRange([i \in DOMAIN replies |-> replies[i].id]) \subseteq SeqRange(criteria)
    PROVE  \A id \in SeqRange(criteria) : Cardinality(Naming(replies, id)) = 1
<1> DEFINE n == Len(criteria)
           named == [i \in 1..n |-> replies[i].id]
           T == SeqRange(criteria)
<1>1. n \in Nat /\ DOMAIN replies = 1..n /\ DOMAIN criteria = 1..n
  BY LenProperties
<1>2. IsFiniteSet(1..n) /\ Cardinality(1..n) = n
  <2> HIDE DEF n
  <2> QED BY <1>1, FS_Interval
<1>3. [i \in 1..n |-> criteria[i]] \in Surjection(1..n, T)
  BY <1>1 DEF Surjection, SeqRange
<1>4. IsFiniteSet(T) /\ Cardinality(T) <= n
  <2> HIDE DEF T, n
  <2> QED BY <1>2, <1>3, FS_Surjection
<1>5. named \in Injection(1..n, T)
  BY <1>1 DEF Injection, IsInjective, IsUnique, SeqRange
<1>6. n <= Cardinality(T) /\ (n = Cardinality(T) <=> named \in Surjection(1..n, T))
  <2> HIDE DEF T, n, named
  <2> QED BY <1>2, <1>4, <1>5, FS_Injection
<1>7. named \in Surjection(1..n, T)
  <2>1. Cardinality(T) \in Nat
    BY <1>4, FS_CardinalityType
  <2> QED BY <2>1, <1>1, <1>4, <1>6
<1>8. SUFFICES ASSUME NEW id \in T PROVE Cardinality(Naming(replies, id)) = 1
  OBVIOUS
<1>9. PICK i \in 1..n : replies[i].id = id
  BY <1>7 DEF Surjection
<1>10. Naming(replies, id) = {i}
  BY <1>1, <1>9 DEF Naming, IsUnique
<1> QED BY <1>10, FS_Singleton

\* What the rubric's rules make of the replies.
LEMMA WrittenIsDeserved ==
    ASSUME NEW R, NEW replies \in Seq(R), NEW key,
           key.criteria \in Seq(SeqRange(key.criteria)),
           Len(replies) = Len(key.criteria),
           GradeWritten(replies, key) = "CORRECT"
    PROVE  /\ \A id \in SeqRange(key.criteria) : Cardinality(Naming(replies, id)) = 1
           /\ Statuses(replies) \subseteq {"correct"}
<1> DEFINE facets == NormalizeCriterionFacets(replies, key.shape)
<1>1. /\ facets.criteria = replies
      /\ facets.reasoning = Reasoning(replies)
  BY DEF NormalizeCriterionFacets
<1>2. ValidRubricFacets(facets, key.shape, key.criteria)
      /\ DeriveGradingOutcome(facets, key.shape) = "CORRECT"
  BY DEF GradeWritten
<1>3. /\ IsUnique([i \in DOMAIN replies |-> replies[i].id])
      /\ SeqRange([i \in DOMAIN replies |-> replies[i].id]) \subseteq SeqRange(key.criteria)
  <2> HIDE DEF facets
  <2> QED BY <1>1, <1>2 DEF ValidRubricFacets
<1>4. Reasoning(replies) = "correct"
  <2> HIDE DEF facets
  <2> QED BY <1>1, <1>2 DEF DeriveGradingOutcome
<1>5. Statuses(replies) \subseteq {"correct"}
  BY <1>4 DEF Reasoning
<1> QED BY <1>3, <1>5, OneReplyEach

LEMMA WrittenOutcome ==
    ASSUME NEW replies, NEW key
    PROVE  GradeWritten(replies, key) \in GradingOutcome
BY DEF GradeWritten, DeriveGradingOutcome, GradingOutcome

LEMMA DeterministicIsOutcome ==
    ASSUME NEW score
    PROVE  /\ DeterministicOutcome(score) \in GradingOutcome
           /\ DeterministicOutcome(score) = "CORRECT" => score = "correct"
BY DEF DeterministicOutcome, GradingOutcome

\* An accepted text is the answer's but for its spacing.
LEMMA AcceptedIsThere ==
    ASSUME NEW kind, NEW accepted, NEW answer,
           kind \in {"text", "choice"},
           \A text \in accepted : text.sort = "word" /\ IsText(text),
           IsAnswer(answer),
           ScoreAccepted(kind, accepted, answer) = "correct"
    PROVE  /\ answer.kind = kind
           /\ \E text \in accepted : text.word = answer.value.word
<1>1. answer.kind = kind
  BY DEF ScoreAccepted
<1>2. PICK text \in accepted : NormalizeText(answer.value) = NormalizeText(text)
  BY DEF ScoreAccepted
<1>3. text = Word(text.word, text.spaced)
  BY DEF IsText
<1>4. NormalizeText(text) = Word(text.word, FALSE)
  BY <1>3 DEF NormalizeText, Word
<1>5. answer.value.sort = "word" /\ answer.value = Word(answer.value.word, answer.value.spaced)
  BY <1>1, <1>2, <1>4 DEF IsAnswer, IsText, NormalizeText, Word, Number
<1>6. NormalizeText(answer.value) = Word(answer.value.word, FALSE)
  BY <1>5 DEF NormalizeText, Word
<1> QED BY <1>1, <1>2, <1>4, <1>6 DEF Word

\* What the scorer calls correct is deserved.
LEMMA ScoredIsDeserved ==
    ASSUME NEW task, NEW answer, NEW replies,
           IsTask(task), IsAnswer(answer), task.kind # "written_solution",
           Score(task, answer) = "correct"
    PROVE  Deserved(task, answer, replies)
<1>1. task.kind \in {"exact_text", "choice", "numeric"}
  BY DEF Score
<1>2. task.kind = "exact_text" => \E text \in task.accepted : text.word = answer.value.word
  BY AcceptedIsThere DEF Score, ScoreText, IsTask
<1>3. task.kind = "choice" =>
          /\ answer.kind = "choice"
          /\ \E text \in task.acceptedOptions : text.word = answer.value.word
  BY AcceptedIsThere DEF Score, ScoreChoice, IsTask
<1> QED BY <1>1, <1>2, <1>3 DEF Deserved

-----------------------------------------------------------------------------
(* Counting up. *)

\* Any set of numbers has a least one.
LEMMA LeastNumber ==
    ASSUME NEW T, T \subseteq Nat, T # {}
    PROVE  \E x \in T : \A y \in T : x <= y
<1> DEFINE R == OpToRel(<, Nat)
<1>1. \A x \in Nat, y \in Nat : <<y, x>> \in R <=> y < x
  BY DEF OpToRel
<1>2. IsWellFoundedOn(R, Nat)
  BY NatLessThanWellFounded
<1> HIDE DEF R
<1>3. PICK x \in T : \A y \in T : ~ (<<y, x>> \in R)
  BY <1>2, WFMin
<1>4. \A y \in T : x \in Nat /\ y \in Nat /\ ~(y < x)
  BY <1>1, <1>3
<1>5. \A y \in T : x <= y
  BY <1>4
<1> QED BY <1>5

\* Induction, for a set of numbers.
LEMMA EveryNumber ==
    ASSUME NEW S, 0 \in S, \A n \in Nat : n \in S => n + 1 \in S
    PROVE  \A n \in Nat : n \in S
<1> SUFFICES ASSUME NEW k \in Nat, k \notin S
             PROVE  FALSE
  OBVIOUS
<1>1. PICK x \in (Nat \ S) : \A y \in (Nat \ S) : x <= y
  BY LeastNumber
<1>2. x # 0
  BY <1>1
<1>3. x - 1 \in Nat /\ x - 1 \in S
  BY <1>1, <1>2
<1>4. (x - 1) + 1 \in S
  BY <1>3
<1> QED BY <1>1, <1>4

\* A set of numbers up to m has a greatest one.
LEMMA GreatestNumber ==
    ASSUME NEW m \in Nat, NEW T, T \subseteq 0..m, T # {}
    PROVE  Max(T) \in T /\ \A n \in T : n <= Max(T)
<1> DEFINE U == {k \in 0..m : m - k \in T}
<1>1. U \subseteq Nat /\ U # {}
  <2>1. PICK x \in T : TRUE
    OBVIOUS
  <2>2. m - x \in 0..m /\ m - (m - x) = x
    BY <2>1
  <2> QED BY <2>1, <2>2
<1>2. PICK u \in U : \A k \in U : u <= k
  <2> HIDE DEF U
  <2> QED BY <1>1, LeastNumber
<1>3. m - u \in T /\ \A n \in T : m - u >= n
  <2> SUFFICES ASSUME NEW n \in T PROVE m - u \in T /\ m - u >= n
    BY <1>2
  <2>1. m - n \in 0..m /\ m - (m - n) = n
    OBVIOUS
  <2> QED BY <1>2, <2>1
<1>4. \E x \in T : \A y \in T : x >= y
  BY <1>3
<1>5. Max(T) \in T /\ \A y \in T : Max(T) >= y
  BY <1>4, Zenon DEF Max
<1> QED BY <1>5

-----------------------------------------------------------------------------
(* Numbers built digit by digit. *)

\* g begins with a number, and each entry is ten times the one before and a digit.
Spells(g, first, d, n) ==
    /\ g \in [0..n -> Nat]
    /\ g[0] = first
    /\ \A i \in 1..n : g[i] = 10 * g[i - 1] + d[i]

LEMMA SpellingExists ==
    ASSUME NEW first \in Nat, NEW m \in Nat, NEW d \in [1..m -> Nat]
    PROVE  \E g : Spells(g, first, d, m)
<1> DEFINE S == {k \in Nat : k <= m => \E g : Spells(g, first, d, k)}
<1>1. 0 \in S
  <2>1. Spells([i \in 0..0 |-> first], first, d, 0)
    BY DEF Spells
  <2> QED BY <2>1
<1>2. ASSUME NEW k \in Nat, k \in S
      PROVE  k + 1 \in S
  <2> SUFFICES ASSUME k + 1 <= m
               PROVE  \E g : Spells(g, first, d, k + 1)
    OBVIOUS
  <2>1. PICK g : Spells(g, first, d, k)
    BY <1>2
  <2> DEFINE h == [i \in 0..(k + 1) |-> IF i = k + 1 THEN 10 * g[k] + d[k + 1] ELSE g[i]]
  <2>2. h \in [0..(k + 1) -> Nat]
    <3>1. g \in [0..k -> Nat] /\ g[k] \in Nat /\ d[k + 1] \in Nat
      BY <2>1 DEF Spells
    <3>2. ASSUME NEW i \in 0..(k + 1) PROVE h[i] \in Nat
      <4>1. i = k + 1 \/ i \in 0..k
        OBVIOUS
      <4> QED BY <3>1, <4>1
    <3> QED BY <3>2
  <2>3. ASSUME NEW i \in 1..(k + 1)
        PROVE  h[i] = 10 * h[i - 1] + d[i]
    <3>1. CASE i = k + 1
      BY <3>1
    <3>2. CASE i # k + 1
      BY <2>1, <3>2 DEF Spells
    <3> QED BY <3>1, <3>2
  <2>4. h[0] = first
    BY <2>1 DEF Spells
  <2>5. Spells(h, first, d, k + 1)
    <3> HIDE DEF h
    <3> QED BY <2>2, <2>3, <2>4 DEF Spells
  <2> QED BY <2>5
<1> HIDE DEF S
<1>3. \A k \in Nat : k \in S
  BY <1>1, <1>2, EveryNumber
<1> QED BY <1>3 DEF S

LEMMA DigitsSpelt ==
    ASSUME NEW s \in Seq(Nat)
    PROVE  \E g : Spells(g, 0, s, Len(s)) /\ Digits(s) = g[Len(s)]
<1> DEFINE m == Len(s)
           Is(f) == f = [n \in 0..m |-> IF n = 0 THEN 0 ELSE 10 * f[n - 1] + s[n]]
           f == CHOOSE x : Is(x)
<1>1. m \in Nat /\ s \in [1..m -> Nat]
  BY LenProperties
<1> HIDE DEF m
<1>2. PICK g : Spells(g, 0, s, m)
  BY <1>1, SpellingExists
<1>3. Is(g)
  BY <1>1, <1>2 DEF Spells
<1>4. Is(f)
  <2>1. \E x : Is(x)
    BY <1>3
  <2> HIDE DEF Is
  <2> QED BY <2>1, Zenon
<1>5. Digits(s) = f[m]
  BY Zenon DEF Digits, m
<1> DEFINE S == {k \in Nat : k <= m => f[k] = g[k]}
<1>6. 0 \in S
  <2>1. 0 \in 0..m
    BY <1>1
  <2>2. f[0] = 0
    <3> HIDE DEF f
    <3> QED BY <1>4, <2>1
  <2>3. g[0] = 0
    BY <1>2 DEF Spells
  <2> QED BY <2>2, <2>3
<1>7. ASSUME NEW k \in Nat, k \in S
      PROVE  k + 1 \in S
  <2> SUFFICES ASSUME k + 1 <= m PROVE f[k + 1] = g[k + 1]
    OBVIOUS
  <2>1. f[k] = g[k]
    BY <1>1, <1>7
  <2>2. k + 1 \in 0..m /\ k + 1 # 0 /\ (k + 1) - 1 = k
    BY <1>1
  <2>3. f[k + 1] = 10 * f[k] + s[k + 1]
    <3> HIDE DEF f
    <3> QED BY <1>4, <2>2
  <2>4. g[k + 1] = 10 * g[k] + s[k + 1]
    BY <1>3, <2>2
  <2> QED BY <2>1, <2>3, <2>4
<1>8. m \in S
  <2> HIDE DEF S
  <2> QED BY <1>1, <1>6, <1>7, EveryNumber
<1>9. f[m] = g[m]
  BY <1>1, <1>8
<1> QED BY <1>2, <1>5, <1>9 DEF m

\* The definition of a power, for any exponent up to n.
IsPower(f, n) == f = [i \in 0..n |-> IF i = 0 THEN 1 ELSE 10 * f[i - 1]]

LEMMA PowerSpelt ==
    ASSUME NEW n \in Nat
    PROVE  \E f : IsPower(f, n) /\ f \in [0..n -> Nat] /\ PowerOfTen(n) = f[n]
<1> DEFINE p == CHOOSE f : IsPower(f, n)
           d == [i \in 1..n |-> 0]
<1>1. PICK g : Spells(g, 1, d, n)
  <2>1. d \in [1..n -> Nat]
    OBVIOUS
  <2> HIDE DEF d
  <2> QED BY <2>1, SpellingExists
<1>2. IsPower(g, n)
  BY <1>1 DEF Spells, IsPower
<1>3. IsPower(p, n)
  <2>1. \E f : IsPower(f, n)
    BY <1>2
  <2> QED BY <2>1, Zenon
<1>4. PowerOfTen(n) = p[n]
  BY Zenon DEF PowerOfTen, IsPower
<1> HIDE DEF p
<1>5. \A k \in Nat : k <= n => p[k] \in Nat
  <2> DEFINE S == {k \in Nat : k <= n => p[k] \in Nat}
  <2>1. 0 \in S
    BY <1>3 DEF IsPower
  <2>2. ASSUME NEW k \in Nat, k \in S
        PROVE  k + 1 \in S
    <3>1. k + 1 <= n => p[k + 1] = 10 * p[k]
      BY <1>3 DEF IsPower
    <3> QED BY <2>2, <3>1
  <2>3. \A k \in Nat : k \in S
    <3> HIDE DEF S
    <3> QED BY <2>1, <2>2, EveryNumber
  <2> QED BY <2>3
<1>6. p \in [0..n -> Nat]
  BY <1>3, <1>5 DEF IsPower
<1> QED BY <1>3, <1>4, <1>6

LEMMA PowersAgree ==
    ASSUME NEW n \in Nat, NEW m \in Nat, n <= m, NEW f, NEW g, IsPower(f, n), IsPower(g, m)
    PROVE  f[n] = g[n]
<1> DEFINE S == {k \in Nat : k <= n => f[k] = g[k]}
<1>1. 0 \in S
  BY DEF IsPower
<1>2. ASSUME NEW k \in Nat, k \in S
      PROVE  k + 1 \in S
  <2>1. k + 1 <= n => f[k + 1] = 10 * f[k] /\ g[k + 1] = 10 * g[k]
    BY DEF IsPower
  <2> QED BY <1>2, <2>1
<1>3. \A k \in Nat : k \in S
  <2> HIDE DEF S
  <2> QED BY <1>1, <1>2, EveryNumber
<1> QED BY <1>3

LEMMA PowerNext ==
    /\ PowerOfTen(0) = 1
    /\ \A n \in Nat : PowerOfTen(n) \in Nat /\ PowerOfTen(n + 1) = 10 * PowerOfTen(n)
<1>1. PowerOfTen(0) = 1
  <2>1. PICK f : IsPower(f, 0) /\ PowerOfTen(0) = f[0]
    BY PowerSpelt
  <2> QED BY <2>1 DEF IsPower
<1>2. ASSUME NEW n \in Nat
      PROVE  PowerOfTen(n) \in Nat /\ PowerOfTen(n + 1) = 10 * PowerOfTen(n)
  <2>1. PICK f : IsPower(f, n) /\ f \in [0..n -> Nat] /\ PowerOfTen(n) = f[n]
    BY PowerSpelt
  <2>2. PICK g : IsPower(g, n + 1) /\ PowerOfTen(n + 1) = g[n + 1]
    <3>1. n + 1 \in Nat
      OBVIOUS
    <3> QED BY <3>1, PowerSpelt
  <2>3. f[n] = g[n]
    <3>1. n + 1 \in Nat /\ n <= n + 1
      OBVIOUS
    <3> QED BY <2>1, <2>2, <3>1, PowersAgree
  <2>4. g[n + 1] = 10 * g[n]
    BY <2>2 DEF IsPower
  <2> QED BY <2>1, <2>2, <2>3, <2>4
<1> QED BY <1>1, <1>2

LEMMA PowersPositive ==
    \A m \in Nat : PowerOfTen(m) \in Nat /\ PowerOfTen(m) \in Int /\ PowerOfTen(m) > 0
<1> DEFINE S == {m \in Nat : PowerOfTen(m) > 0}
<1>1. 0 \in S /\ \A m \in Nat : m \in S => m + 1 \in S
  BY PowerNext
<1>2. \A m \in Nat : m \in S
  <2> HIDE DEF S
  <2> QED BY <1>1, EveryNumber
<1> QED BY <1>2, PowerNext

LEMMA PowersMultiply ==
    \A m \in Nat, n \in Nat : PowerOfTen(m + n) = PowerOfTen(m) * PowerOfTen(n)
<1> SUFFICES ASSUME NEW m \in Nat
             PROVE  \A n \in Nat : PowerOfTen(m + n) = PowerOfTen(m) * PowerOfTen(n)
  OBVIOUS
<1> DEFINE S == {n \in Nat : PowerOfTen(m + n) = PowerOfTen(m) * PowerOfTen(n)}
<1>1. 0 \in S
  BY PowerNext
<1>2. ASSUME NEW n \in Nat, n \in S
      PROVE  n + 1 \in S
  <2>1. PowerOfTen(m + (n + 1)) = 10 * PowerOfTen(m + n)
    <3>1. m + (n + 1) = (m + n) + 1 /\ m + n \in Nat
      OBVIOUS
    <3> QED BY <3>1, PowerNext
  <2>2. 10 * (PowerOfTen(m) * PowerOfTen(n)) = PowerOfTen(m) * (10 * PowerOfTen(n))
    BY PowerNext
  <2> QED BY <1>2, <2>1, <2>2, PowerNext
<1>3. \A n \in Nat : n \in S
  <2> HIDE DEF S
  <2> QED BY <1>1, <1>2, EveryNumber
<1> QED BY <1>3

\* Digits followed by others count as many times ten as others follow.
LEMMA DigitsJoin ==
    ASSUME NEW s \in Seq(Nat), NEW t \in Seq(Nat)
    PROVE  /\ Digits(s) \in Nat
           /\ Digits(s \o t) = Digits(s) * PowerOfTen(Len(t)) + Digits(t)
<1> DEFINE m == Len(s)
           k == Len(t)
           j == s \o t
<1>1. m \in Nat /\ k \in Nat /\ j \in Seq(Nat) /\ Len(j) = m + k
  BY LenProperties, ConcatProperties
<1>2. /\ \A i \in 1..m : j[i] = s[i]
      /\ \A i \in 1..k : j[m + i] = t[i]
  BY ConcatProperties, LenProperties
<1>3. PICK a : Spells(a, 0, s, m) /\ Digits(s) = a[m]
  BY DigitsSpelt
<1>4. PICK b : Spells(b, 0, t, k) /\ Digits(t) = b[k]
  BY DigitsSpelt
<1>5. PICK c : Spells(c, 0, j, m + k) /\ Digits(j) = c[m + k]
  BY <1>1, DigitsSpelt
<1> HIDE DEF m, k, j
<1> DEFINE S == {n \in Nat : n <= m => c[n] = a[n]}
           T == {n \in Nat : n <= k => c[m + n] = a[m] * PowerOfTen(n) + b[n]}
<1>6. 0 \in S
  BY <1>3, <1>5 DEF Spells
<1>7. ASSUME NEW n \in Nat, n \in S
      PROVE  n + 1 \in S
  <2> SUFFICES ASSUME n + 1 <= m PROVE c[n + 1] = a[n + 1]
    OBVIOUS
  <2>1. n + 1 \in 1..m /\ n + 1 \in 1..(m + k) /\ (n + 1) - 1 = n
    BY <1>1
  <2>2. c[n + 1] = 10 * c[n] + j[n + 1]
    BY <1>5, <2>1 DEF Spells
  <2>3. a[n + 1] = 10 * a[n] + s[n + 1]
    BY <1>3, <2>1 DEF Spells
  <2>4. c[n] = a[n]
    BY <1>1, <1>7
  <2> QED BY <1>2, <2>1, <2>2, <2>3, <2>4
<1>8. c[m] = a[m]
  <2> HIDE DEF S
  <2>1. m \in S
    BY <1>1, <1>6, <1>7, EveryNumber
  <2> QED BY <1>1, <2>1 DEF S
<1>9. a[m] \in Nat /\ b \in [0..k -> Nat]
  BY <1>1, <1>3, <1>4 DEF Spells
<1>10. 0 \in T
  <2>1. c[m + 0] = a[m] * 1 + b[0]
    BY <1>1, <1>4, <1>8, <1>9 DEF Spells
  <2> QED BY <2>1, PowerNext
<1>11. ASSUME NEW n \in Nat, n \in T
       PROVE  n + 1 \in T
  <2> SUFFICES ASSUME n + 1 <= k
               PROVE  c[m + (n + 1)] = a[m] * PowerOfTen(n + 1) + b[n + 1]
    OBVIOUS
  <2>1. n + 1 \in 1..k /\ m + (n + 1) \in 1..(m + k)
        /\ (n + 1) - 1 = n /\ (m + (n + 1)) - 1 = m + n
    BY <1>1
  <2>2. c[m + (n + 1)] = 10 * c[m + n] + t[n + 1]
    BY <1>2, <1>5, <2>1 DEF Spells
  <2>3. b[n + 1] = 10 * b[n] + t[n + 1]
    BY <1>4, <2>1 DEF Spells
  <2>4. c[m + n] = a[m] * PowerOfTen(n) + b[n]
    BY <1>1, <1>11
  <2>5. b[n] \in Nat /\ PowerOfTen(n) \in Nat /\ PowerOfTen(n + 1) = 10 * PowerOfTen(n)
    <3>1. n \in 0..k
      BY <1>1
    <3>2. b[n] \in Nat
      BY <1>9, <3>1
    <3> QED BY <3>2, PowerNext
  <2>6. t[n + 1] \in Nat
    BY <2>1, LenProperties DEF k
  <2>7. 10 * (a[m] * PowerOfTen(n) + b[n]) = a[m] * (10 * PowerOfTen(n)) + 10 * b[n]
    BY <1>9, <2>5
  <2>8. a[m] * (10 * PowerOfTen(n)) \in Nat /\ 10 * b[n] \in Nat
    <3>1. \A x \in Nat, y \in Nat : x * (10 * y) \in Nat /\ 10 * y \in Nat
      OBVIOUS
    <3> QED BY <1>9, <2>5, <3>1
  <2> QED BY <2>2, <2>3, <2>4, <2>5, <2>6, <2>7, <2>8
<1>12. c[m + k] = a[m] * PowerOfTen(k) + b[k]
  <2> HIDE DEF T
  <2>1. k \in T
    BY <1>1, <1>10, <1>11, EveryNumber
  <2> QED BY <1>1, <2>1 DEF T
<1> QED BY <1>3, <1>4, <1>5, <1>9, <1>12 DEF j, k

-----------------------------------------------------------------------------
(* Decimals. *)

IsNumeral(text) == text.whole \in Seq(Nat) /\ text.fraction \in Seq(Nat)

Sign(text) == IF text.sign = "-" THEN -1 ELSE 1

IsScaled(decimal) == decimal.coefficient \in Int /\ decimal.scale \in Nat

\* Multiplying keeps the order.
LEMMA SameOrder ==
    ASSUME NEW x \in Int, NEW y \in Int, NEW p \in Nat, p > 0
    PROVE  x <= y <=> x * p <= y * p
OBVIOUS

LEMMA Exactly ==
    ASSUME NEW u \in Int, NEW p \in Nat, p > 0, u % p = 0
    PROVE  u \div p \in Int /\ (u \div p) * p = u
OBVIOUS

LEMMA Regroup ==
    \A x \in Int, y \in Int, z \in Int :
        x * y \in Int /\ (x * y) * z = x * (y * z)
OBVIOUS

\* Parsing keeps the value: the coefficient, with the zeros that were trimmed, is the number
\* that all digits spell.
LEMMA ParsedExactly ==
    ASSUME NEW text, IsNumeral(text)
    PROVE  LET d == ParseDecimal(text)
               n == Len(text.fraction)
           IN /\ IsScaled(d) /\ n \in Nat /\ d.scale <= n
              /\ d.coefficient * PowerOfTen(n - d.scale)
                    = Digits(text.whole \o text.fraction) * Sign(text)
<1> DEFINE n == Len(text.fraction)
           u == Digits(text.whole \o text.fraction) * Sign(text)
           T == {k \in 0..n : u % PowerOfTen(k) = 0}
           d == ParseDecimal(text)
<1>1. n \in Nat
  BY LenProperties DEF IsNumeral
<1>2. u \in Int
  <2>1. text.whole \o text.fraction \in Seq(Nat)
    BY ConcatProperties DEF IsNumeral
  <2>2. <<>> \in Seq(Nat)
    OBVIOUS
  <2>3. Digits(text.whole \o text.fraction) \in Nat
    BY <2>1, <2>2, DigitsJoin
  <2>4. Sign(text) \in {-1, 1}
    BY DEF Sign
  <2> QED BY <2>3, <2>4
<1>3. d.coefficient = u \div PowerOfTen(Max(T)) /\ d.scale = n - Max(T)
  BY DEF ParseDecimal, Sign
<1> HIDE DEF n, u, d
<1>4. 0 \in T
  <2>1. u % 1 = 0
    BY <1>2
  <2> QED BY <1>1, <2>1, PowerNext
<1>5. Max(T) \in T
  <2>1. T \subseteq 0..n /\ T # {}
    BY <1>4
  <2> HIDE DEF T
  <2> QED BY <1>1, <2>1, GreatestNumber
<1> DEFINE k == Max(T)
<1>6. k \in 0..n /\ u % PowerOfTen(k) = 0
  BY <1>5
<1> HIDE DEF k
<1>7. PowerOfTen(k) \in Nat /\ PowerOfTen(k) > 0
  BY <1>1, <1>6, PowersPositive
<1>8. u \div PowerOfTen(k) \in Int /\ (u \div PowerOfTen(k)) * PowerOfTen(k) = u
  BY <1>2, <1>6, <1>7, Exactly
<1>9. d.coefficient = u \div PowerOfTen(k) /\ d.scale = n - k
  BY <1>3 DEF k
<1>10. n - (n - k) = k /\ n - k \in Nat /\ n - k <= n
  BY <1>1, <1>6
<1> QED BY <1>1, <1>8, <1>9, <1>10 DEF IsScaled, n, u, d

\* Counting further decimals multiplies.
LEMMA RescaledFurther ==
    ASSUME NEW d, IsScaled(d), NEW m \in Nat, NEW n \in Nat, d.scale <= m, m <= n
    PROVE  /\ Rescale(d, m) \in Int
           /\ Rescale(d, n) = Rescale(d, m) * PowerOfTen(n - m)
<1>1. /\ m - d.scale \in Nat /\ n - m \in Nat
      /\ n - d.scale = (m - d.scale) + (n - m)
  BY DEF IsScaled
<1>2. PowerOfTen(n - d.scale) = PowerOfTen(m - d.scale) * PowerOfTen(n - m)
  BY <1>1, PowersMultiply
<1>3. PowerOfTen(m - d.scale) \in Int /\ PowerOfTen(n - m) \in Int /\ d.coefficient \in Int
  BY <1>1, PowersPositive DEF IsScaled
<1> QED BY <1>2, <1>3, Regroup DEF Rescale

\* What is parsed counts what the digits say, in any unit that is fine enough.
LEMMA ParsedCounts ==
    ASSUME NEW text, IsNumeral(text), NEW n \in Nat, Len(text.fraction) <= n
    PROVE  /\ IsScaled(ParseDecimal(text)) /\ ParseDecimal(text).scale <= n
           /\ Rescale(ParseDecimal(text), n) = Units(text, n)
<1> DEFINE d == ParseDecimal(text)
           k == Len(text.fraction)
           w == Digits(text.whole)
           f == Digits(text.fraction)
           p == PowerOfTen(k)
           q == PowerOfTen(n - k)
           sg == Sign(text)
<1>1. /\ IsScaled(d) /\ k \in Nat /\ d.scale <= k
      /\ Rescale(d, k) = Digits(text.whole \o text.fraction) * sg
  BY ParsedExactly DEF Rescale
<1>2. Digits(text.whole \o text.fraction) = w * p + f
  BY DigitsJoin DEF IsNumeral
<1>3. w \in Int /\ f \in Int /\ sg \in Int
  BY DigitsJoin DEF IsNumeral, Sign
<1>4. n - k \in Nat /\ n = k + (n - k)
  BY <1>1
<1>5. p \in Int /\ q \in Int /\ PowerOfTen(n) = p * q
  <2>1. PowerOfTen(k + (n - k)) = p * q
    BY <1>1, <1>4, PowersMultiply
  <2> QED BY <1>1, <1>4, <2>1, PowersPositive
<1>6. Units(text, n) = sg * (w * PowerOfTen(n) + f * q)
  BY DEF Units, Sign
<1>7. Rescale(d, n) = Rescale(d, k) * q
  BY <1>1, RescaledFurther
<1> HIDE DEF d, k, w, f, p, q, sg
<1>8. \A a \in Int, b \in Int, c \in Int, x \in Int, y \in Int :
          ((a * x + b) * c) * y = c * (a * (x * y) + b * y)
  OBVIOUS
<1>9. ((w * p + f) * sg) * q = sg * (w * (p * q) + f * q)
  BY <1>3, <1>5, <1>8
<1>10. Rescale(d, n) = Units(text, n)
  BY <1>1, <1>2, <1>5, <1>6, <1>7, <1>9
<1>11. d.scale <= n
  <2> HIDE DEF d, k
  <2>1. k <= n
    BY DEF k
  <2> QED BY <1>1, <2>1 DEF IsScaled
<1> QED BY <1>1, <1>10, <1>11 DEF d

LEMMA DistanceTimes ==
    ASSUME NEW x \in Int, NEW y \in Int, NEW p \in Nat, p > 0
    PROVE  Distance(x, y) * p = Distance(x * p, y * p)
<1>1. y <= x <=> y * p <= x * p
  BY SameOrder
<1>2. (x - y) * p = x * p - y * p /\ (y - x) * p = y * p - x * p
  OBVIOUS
<1>3. x * p \in Int /\ y * p \in Int
  OBVIOUS
<1> QED BY <1>1, <1>2, <1>3 DEF Distance

LEMMA DifferenceIsDistance ==
    ASSUME NEW a, NEW e, IsScaled(a), IsScaled(e), NEW n \in Nat, a.scale <= n, e.scale <= n
    PROVE  LET d == AbsoluteDifference(a, e)
           IN IsScaled(d) /\ d.scale <= n
              /\ Rescale(d, n) = Distance(Rescale(a, n), Rescale(e, n))
<1> DEFINE d == AbsoluteDifference(a, e)
           m == Greater(a.scale, e.scale)
           x == Rescale(a, m)
           y == Rescale(e, m)
           p == PowerOfTen(n - m)
<1>1. m \in Nat /\ a.scale <= m /\ e.scale <= m /\ m <= n
  BY DEF IsScaled, Greater
<1>2. d.scale = m /\ d.coefficient = IF x - y >= 0 THEN x - y ELSE -(x - y)
  BY DEF AbsoluteDifference
<1> HIDE DEF m
<1>3. x \in Int /\ Rescale(a, n) = x * p
  BY <1>1, RescaledFurther
<1>4. y \in Int /\ Rescale(e, n) = y * p
  BY <1>1, RescaledFurther
<1>5. n - m \in Nat
  BY <1>1
<1>6. p \in Nat /\ p > 0
  BY <1>5, PowersPositive
<1> HIDE DEF x, y, p
<1>7. d.coefficient = Distance(x, y) /\ Distance(x, y) \in Int
  BY <1>2, <1>3, <1>4 DEF Distance
<1>8. Rescale(d, n) = Distance(x, y) * p
  BY <1>2, <1>7 DEF Rescale, p
<1>9. Distance(x, y) * p = Distance(x * p, y * p)
  BY <1>3, <1>4, <1>6, DistanceTimes
<1> QED BY <1>1, <1>2, <1>3, <1>4, <1>7, <1>8, <1>9 DEF IsScaled

LEMMA SignKept ==
    ASSUME NEW t, IsScaled(t), NEW n \in Nat, t.scale <= n
    PROVE  t.coefficient >= 0 <=> Rescale(t, n) >= 0
<1> DEFINE p == PowerOfTen(n - t.scale)
<1>1. n - t.scale \in Nat
  BY DEF IsScaled
<1>2. p \in Nat /\ p > 0
  BY <1>1, PowersPositive
<1> HIDE DEF p
<1>3. 0 <= t.coefficient <=> 0 * p <= t.coefficient * p
  BY <1>2, SameOrder DEF IsScaled
<1>4. 0 * p = 0 /\ t.coefficient * p \in Int
  BY <1>2, Regroup DEF IsScaled
<1> QED BY <1>3, <1>4 DEF Rescale, IsScaled, p

LEMMA WithinIsNear ==
    ASSUME NEW a, NEW e, NEW t, IsScaled(a), IsScaled(e), IsScaled(t), NEW n \in Nat,
           a.scale <= n, e.scale <= n, t.scale <= n
    PROVE  IsWithinTolerance(a, e, t) <=>
               /\ t.coefficient >= 0
               /\ Distance(Rescale(a, n), Rescale(e, n)) <= Rescale(t, n)
<1> DEFINE d == AbsoluteDifference(a, e)
           m == Greater(d.scale, t.scale)
           p == PowerOfTen(n - m)
<1>1. IsScaled(d) /\ d.scale <= n /\ Rescale(d, n) = Distance(Rescale(a, n), Rescale(e, n))
  BY DifferenceIsDistance
<1>2. IsWithinTolerance(a, e, t) <=> t.coefficient >= 0 /\ Rescale(d, m) <= Rescale(t, m)
  BY DEF IsWithinTolerance
<1> HIDE DEF d
<1>3. m \in Nat /\ d.scale <= m /\ t.scale <= m /\ m <= n
  BY <1>1 DEF IsScaled, Greater
<1> HIDE DEF m
<1>4. Rescale(d, m) \in Int /\ Rescale(d, n) = Rescale(d, m) * p
  BY <1>1, <1>3, RescaledFurther
<1>5. Rescale(t, m) \in Int /\ Rescale(t, n) = Rescale(t, m) * p
  BY <1>3, RescaledFurther
<1>6. n - m \in Nat
  BY <1>3
<1>7. p \in Nat /\ p > 0
  BY <1>6, PowersPositive
<1> HIDE DEF p
<1>8. Rescale(d, m) <= Rescale(t, m) <=> Rescale(d, n) <= Rescale(t, n)
  BY <1>4, <1>5, <1>7, SameOrder
<1> QED BY <1>1, <1>2, <1>8

\* A text that is a number is made of digits.
LEMMA NumeralsAreDigits ==
    ASSUME NEW text, IsText(text), IsDecimal(text)
    PROVE  IsNumeral(text)
<1>1. text.whole \in Seq(0..9) /\ text.fraction \in Seq(0..9)
  BY DEF IsText, IsDecimal
<1>2. \A s \in Seq(0..9) : s \in Seq(Nat)
  OBVIOUS
<1> QED BY <1>1, <1>2 DEF IsNumeral

\* Whether a number is right, the scorer and the reference agree.
LEMMA ScoreIsExact ==
    ASSUME NEW key, NEW answer, key.kind = "numeric", IsTask(key), IsAnswer(answer)
    PROVE  LET judged == /\ answer.kind = "text" /\ IsDecimal(answer.value)
                         /\ IsKey(key.expected, key.tolerance)
               near == IsNear(answer.value, key.expected, key.tolerance)
           IN DeterministicOutcome(Score(key, answer)) =
                  CASE ~judged -> "UNCERTAIN"
                    [] judged /\ near -> "CORRECT"
                    [] judged /\ ~near -> "INCORRECT"
<1> DEFINE a == answer.value
           e == key.expected
           t == key.tolerance
           n == Len(a.fraction) + Len(e.fraction) + Len(t.fraction)
           k == Len(t.fraction)
           within == IsWithinTolerance(ParseDecimal(a), ParseDecimal(e), ParseDecimal(t))
           typed == answer.kind = "text" /\ IsDecimal(a) /\ IsDecimal(e) /\ IsDecimal(t)
           x == ParseDecimal(t)
<1>1. Score(key, answer) =
          IF ~typed \/ x.coefficient < 0 THEN "invalid"
          ELSE IF within THEN "correct" ELSE "incorrect"
  <2>1. Score(key, answer) = ScoreNumeric(key, answer)
    BY DEF Score
  <2>2. CASE ~typed
    BY <2>1, <2>2 DEF ScoreNumeric
  <2>3. CASE typed
    <3>1. ScoreNumeric(key, answer) =
              CASE x.coefficient < 0 -> "invalid"
                [] within -> "correct"
                [] OTHER -> "incorrect"
      BY <2>3 DEF ScoreNumeric
    <3>2. x.coefficient \in Int
      <4>1. IsNumeral(t)
        BY <2>3, NumeralsAreDigits DEF IsTask
      <4> QED BY <4>1, ParsedExactly DEF IsScaled
    <3>3. within => x.coefficient >= 0
      BY DEF IsWithinTolerance
    <3> HIDE DEF x, within, typed
    <3>4. CASE x.coefficient < 0
      BY <2>1, <2>3, <3>1, <3>2, <3>3, <3>4
    <3>5. CASE ~(x.coefficient < 0)
      BY <2>1, <2>3, <3>1, <3>5
    <3> QED BY <3>4, <3>5
  <2> QED BY <2>2, <2>3
<1>2. CASE ~typed
  BY <1>1, <1>2 DEF IsKey, DeterministicOutcome
<1>3. CASE typed
  <2>1. IsNumeral(a) /\ IsNumeral(e) /\ IsNumeral(t)
    BY <1>3, NumeralsAreDigits DEF IsAnswer, IsTask
  <2>2. /\ n \in Nat /\ k \in Nat
        /\ Len(a.fraction) <= n /\ Len(e.fraction) <= n /\ k <= n
    <3>1. Len(a.fraction) \in Nat /\ Len(e.fraction) \in Nat /\ Len(t.fraction) \in Nat
      BY <2>1, LenProperties DEF IsNumeral
    <3> DEFINE p == Len(a.fraction)
               q == Len(e.fraction)
               r == Len(t.fraction)
    <3>2. p \in Nat /\ q \in Nat /\ r \in Nat
      BY <3>1
    <3> HIDE DEF p, q, r
    <3>3. /\ p + q + r \in Nat
          /\ p <= p + q + r /\ q <= p + q + r /\ r <= p + q + r
      BY <3>2
    <3> QED BY <3>2, <3>3 DEF p, q, r
  <2> HIDE DEF a, e, t, n, k, within
  <2>3. /\ IsScaled(ParseDecimal(a)) /\ ParseDecimal(a).scale <= n
        /\ Rescale(ParseDecimal(a), n) = Units(a, n)
    BY <2>1, <2>2, ParsedCounts
  <2>4. /\ IsScaled(ParseDecimal(e)) /\ ParseDecimal(e).scale <= n
        /\ Rescale(ParseDecimal(e), n) = Units(e, n)
    BY <2>1, <2>2, ParsedCounts
  <2>5. /\ IsScaled(ParseDecimal(t)) /\ ParseDecimal(t).scale <= n
        /\ Rescale(ParseDecimal(t), n) = Units(t, n)
    BY <2>1, <2>2, ParsedCounts DEF k
  <2>6. ParseDecimal(t).scale <= k /\ Rescale(ParseDecimal(t), k) = Units(t, k)
    BY <2>1, <2>2, ParsedCounts DEF k
  <2>7. ParseDecimal(t).coefficient >= 0 <=> Units(t, k) >= 0
    BY <2>2, <2>5, <2>6, SignKept
  <2>8. within <=> /\ ParseDecimal(t).coefficient >= 0
                   /\ Distance(Units(a, n), Units(e, n)) <= Units(t, n)
    BY <2>2, <2>3, <2>4, <2>5, WithinIsNear DEF within
  <2>9. IsKey(e, t) <=> Units(t, k) >= 0
    BY <1>3 DEF IsKey, k
  <2>10. IsNear(a, e, t) <=> Distance(Units(a, n), Units(e, n)) <= Units(t, n)
    BY DEF IsNear, n
  <2>11. ParseDecimal(t).coefficient < 0 <=> ~(ParseDecimal(t).coefficient >= 0)
    BY <2>5 DEF IsScaled
  <2>12. CASE Units(t, k) >= 0
    <3>1. Score(key, answer) = IF IsNear(a, e, t) THEN "correct" ELSE "incorrect"
      BY <1>1, <1>3, <2>7, <2>8, <2>10, <2>11, <2>12
    <3> QED BY <1>3, <2>9, <2>12, <3>1 DEF DeterministicOutcome, a, e, t
  <2>13. CASE ~(Units(t, k) >= 0)
    <3>1. Score(key, answer) = "invalid"
      BY <1>1, <1>3, <2>7, <2>11, <2>13
    <3> QED BY <2>9, <2>13, <3>1 DEF DeterministicOutcome, a, e, t
  <2> QED BY <2>12, <2>13
<1> QED BY <1>2, <1>3

-----------------------------------------------------------------------------
(* What every step has in common. *)

\* The sets the types are made of depend on the course alone.
LEMMA SameTypes ==
    ASSUME course' = course
    PROVE  /\ Pairs' = Pairs
           /\ Requests' = Requests
           /\ Handling' = Handling
           /\ Session' = Session
           /\ EventRecord' = EventRecord
BY DEF Pairs, Requests, Tried, Handling, Spoken, Session, EventRecord

LEMMA KeysAreNumbers ==
    ASSUME Types
    PROVE  Keys = 1..Len(asked) /\ Len(asked) \in Nat /\ Keys \subseteq Nat
BY LenProperties DEF Types, Keys

\* What a handler holds stays true when the others move on.
LEMMA HandlerKept ==
    ASSUME Inv, Onward, NEW h \in Handlers, work'[h] = work[h]
    PROVE  HandlerFine(h)'
<1> SUFFICES ASSUME work[h] # Idle
             PROVE  HandlerFine(h)'
  BY DEF HandlerFine
<1> DEFINE w == work[h]
<1>1. /\ w.key \in Keys
      /\ w.before \subseteq DOMAIN sessions
      /\ HandlerFine(h)
      /\ RequestFine(w.key)
  BY DEF Inv, HandlerFine
<1>2. /\ w.key \in Keys'
      /\ asked'[w.key] = asked[w.key]
      /\ w.before \subseteq DOMAIN sessions'
      /\ \A k \in w.before : sessions'[k].pair = sessions[k].pair
      /\ Pairs' = Pairs
  BY <1>1, SameTypes DEF Onward
<1>3. CASE asked[w.key].op # "submit"
  BY <1>1, <1>2, <1>3 DEF HandlerFine
<1>4. CASE asked[w.key].op = "submit"
  <2>1. asked[w.key].session \in DOMAIN sessions
    BY <1>1, <1>4 DEF RequestFine
  <2>2. TaskOf(h)' = TaskOf(h) /\ AnswerOf(h)' = AnswerOf(h)
    BY <1>2, <2>1 DEF TaskOf, SessionOf, AnswerOf, Onward
  <2>3. Deserved(TaskOf(h), AnswerOf(h), work[h].replies)' =
            Deserved(TaskOf(h), AnswerOf(h), work[h].replies)
    BY <2>2 DEF Deserved, Onward
  <2> QED BY <1>1, <1>2, <1>4, <2>2, <2>3 DEF HandlerFine, Onward
<1> QED BY <1>3, <1>4

\* So does what a request asked about.
LEMMA RequestKept ==
    ASSUME Inv, Onward, NEW k \in Keys
    PROVE  RequestFine(k)'
BY DEF Inv, RequestFine, Onward

\* Events and solved sessions.
LEMMA EventsKept ==
    ASSUME Inv, Onward, events' = events, DOMAIN sessions' = DOMAIN sessions
    PROVE  EventsFine'
BY DEF Inv, EventsFine, Onward, ExposedPairs, DistinctCorrect, ScoredEvents, SolvedPairs

\* A step of one handler that leaves the store as it is.
LEMMA QuietStep ==
    ASSUME Inv, NEW h \in Handlers, NEW w \in {Idle} \cup Handling,
           Step(h, w), StoreUnchanged, told' \subseteq NextActions, HandlerFine(h)'
    PROVE  Inv' /\ Onward
<1>1. Onward
  BY DEF Onward, StoreUnchanged, Keys
<1>2. \A g \in Handlers : g # h => work'[g] = work[g]
  BY DEF Inv, Types, Step
<1>3. \A g \in Handlers : HandlerFine(g)'
  BY <1>1, <1>2, HandlerKept
<1>4. Types'
  <2>1. work' \in [Handlers -> {Idle} \cup Handling]
    BY DEF Inv, Types, Step
  <2> QED BY <2>1, SameTypes DEF Inv, Types, StoreUnchanged, Keys
<1>5. LedgersFine' /\ (\A k \in Keys : RequestFine(k))'
  BY DEF Inv, LedgersFine, RequestFine, StoreUnchanged, Keys
<1>6. EventsFine'
  BY <1>1, EventsKept DEF StoreUnchanged
<1> QED BY <1>1, <1>3, <1>4, <1>5, <1>6 DEF Inv

-----------------------------------------------------------------------------
(* Steps of a handler that only read. *)

\* A handler that goes idle holds nothing.
LEMMA DoneStep ==
    ASSUME Inv, NEW h \in Handlers, Step(h, Idle), StoreUnchanged, told' \subseteq NextActions
    PROVE  Inv' /\ Onward
<1>1. HandlerFine(h)'
  BY DEF Inv, Types, Step, HandlerFine
<1> QED BY <1>1, QuietStep

\* A working handler is of the type of one, and its request is one.
LEMMA Working ==
    ASSUME Inv, NEW h \in Handlers, work[h] # Idle
    PROVE  /\ work[h] \in Handling
           /\ work[h].key \in Keys
           /\ asked[work[h].key] \in Requests
           /\ work[h].before \subseteq DOMAIN sessions
           /\ course \in Courses
           /\ \A pair \in Pairs : IsTask(course.tasks[pair])
<1>1. asked \in Seq(Requests) /\ work[h] \in Handling
  BY DEF Inv, Types
<1>2. work[h].key \in Keys /\ work[h].before \subseteq DOMAIN sessions
  BY DEF Inv, HandlerFine
<1>3. asked[work[h].key] \in Requests
  BY <1>1, <1>2, ElementOfSeq, LenProperties DEF Keys
<1>4. course \in Courses /\ \A pair \in Pairs : IsTask(course.tasks[pair])
  BY CoursesAreReviewed DEF EpisodeAssumption, Inv, Types, Pairs
<1> QED BY <1>1, <1>2, <1>3, <1>4

LEMMA ChooseInitialStep ==
    ASSUME Inv, NEW h \in Handlers, ChooseInitial(h)
    PROVE  Inv' /\ Onward
<1> DEFINE w == [work[h] EXCEPT !.at = "chosen", !.pair = course.initial]
<1>1. work[h] # Idle /\ work[h].at = "received" /\ asked[work[h].key].op = "start"
  BY DEF ChooseInitial, At, Idle
<1>2. course.initial \in Pairs
  BY <1>1, Working, CoursesAreReviewed DEF EpisodeAssumption, Pairs
<1>3. /\ w \in Handling
      /\ w.at = "chosen" /\ w.pair = course.initial /\ w.key = work[h].key /\ w.before = work[h].before
  BY <1>1, <1>2, Working DEF Handling, Stages
<1>4. Step(h, w) /\ StoreUnchanged /\ told' = told
  BY DEF ChooseInitial
<1> HIDE DEF w
<1>5. work'[h] = w
  BY <1>4 DEF Inv, Types, Step
<1>6. HandlerFine(h)'
  BY <1>1, <1>2, <1>3, <1>4, <1>5, Working DEF HandlerFine, StoreUnchanged, Keys, Pairs
<1> QED BY <1>3, <1>4, <1>6, QuietStep DEF Inv, Types

\* A handler that only changes its place.
LEMMA StageType ==
    ASSUME Inv, NEW h \in Handlers, work[h] # Idle, NEW stage \in Stages \ {"idle"},
           Stage(h, stage)
    PROVE  /\ work'[h] \in Handling
           /\ Step(h, work'[h])
           /\ work'[h].at = stage
           /\ work'[h].key = work[h].key
           /\ work'[h].pair = work[h].pair
           /\ work'[h].before = work[h].before
<1> DEFINE w == [work[h] EXCEPT !.at = stage]
<1>1. /\ w \in Handling
      /\ w.at = stage /\ w.key = work[h].key /\ w.pair = work[h].pair /\ w.before = work[h].before
  BY Working DEF Handling
<1>2. work'[h] = w /\ Step(h, w)
  BY DEF Inv, Types, Step, Stage
<1> QED BY <1>1, <1>2

LEMMA ReadGateStep ==
    ASSUME Inv, NEW h \in Handlers, ReadGate(h)
    PROVE  Inv' /\ Onward
<1> DEFINE action == DerivePracticeNextAction(course.gate)
<1>1. /\ work[h] # Idle /\ work[h].at = "received" /\ asked[work[h].key].op = "next"
      /\ StoreUnchanged
      /\ action \in NextActions
  BY DEF ReadGate, At, Idle, DerivePracticeNextAction, NextActions
<1>2. CASE action # "CONTINUE_PRACTICE"
  <2>1. Tell(h, action)
    BY <1>2 DEF ReadGate
  <2> HIDE DEF action
  <2> QED BY <1>1, <2>1, DoneStep DEF Tell, Inv, Types
<1>3. CASE action = "CONTINUE_PRACTICE"
  <2>1. Stage(h, "continuing") /\ told' = told
    BY <1>3 DEF ReadGate
  <2>2. /\ work'[h] \in Handling /\ Step(h, work'[h])
        /\ work'[h].at = "continuing"
        /\ work'[h].key = work[h].key
        /\ work'[h].before = work[h].before
    BY <1>1, <2>1, StageType DEF Stages
  <2>3. HandlerFine(h)'
    BY <1>1, <2>2, Working DEF HandlerFine, StoreUnchanged, Keys
  <2> QED BY <1>1, <2>1, <2>2, <2>3, QuietStep DEF Inv, Types
<1> QED BY <1>2, <1>3

\* The pair is fresh: every session there was has an event that announced its pair.
LEMMA ChooseFreshStep ==
    ASSUME Inv, NEW h \in Handlers, ChooseFresh(h)
    PROVE  Inv' /\ Onward
<1>1. /\ work[h] # Idle /\ asked[work[h].key].op = "next"
      /\ StoreUnchanged
  <2>1. At(h, "next", "continuing") /\ StoreUnchanged
    BY Zenon DEF ChooseFresh
  <2> QED BY <2>1 DEF At, Idle
<1>2. CASE Tell(h, "PRACTICE_RECOVERY")
  BY <1>1, <1>2, DoneStep DEF Tell, Inv, Types, NextActions
<1>3. CASE /\ \E pair \in FreshPracticePairs :
                 Step(h, [work[h] EXCEPT !.at = "chosen", !.pair = pair])
           /\ UNCHANGED told
  <2>1. PICK pair \in FreshPracticePairs : Step(h, [work[h] EXCEPT !.at = "chosen", !.pair = pair])
    BY <1>3
  <2> DEFINE w == [work[h] EXCEPT !.at = "chosen", !.pair = pair]
  <2>2. pair \in Pairs /\ pair \notin ExposedPairs
    BY DEF FreshPracticePairs, Pairs
  <2>3. /\ w \in Handling
        /\ w.at = "chosen" /\ w.pair = pair /\ w.key = work[h].key /\ w.before = work[h].before
    BY <1>1, <2>2, Working DEF Handling, Stages
  <2> HIDE DEF w
  <2>4. work'[h] = w
    BY <2>1 DEF w, Inv, Types, Step
  <2>5. \A k \in work[h].before : sessions[k].pair # pair
    BY <1>1, <2>2, Working DEF Inv, EventsFine
  <2>6. HandlerFine(h)'
    BY <1>1, <2>2, <2>3, <2>4, <2>5, Working DEF HandlerFine, StoreUnchanged, Keys, Pairs
  <2>7. Step(h, w) /\ told' = told
    BY <2>1, <1>3 DEF w
  <2> QED BY <1>1, <2>3, <2>6, <2>7, QuietStep DEF Inv, Types
<1> QED BY <1>2, <1>3 DEF ChooseFresh

LEMMA FindSessionStep ==
    ASSUME Inv, NEW h \in Handlers, FindSession(h)
    PROVE  Inv' /\ Onward
<1>1. /\ work[h] # Idle /\ work[h].at = "chosen"
      /\ StoreUnchanged
  BY DEF FindSession, Idle
<1>2. CASE Done(h)
  BY <1>1, <1>2, DoneStep DEF Done, Inv, Types
<1>3. CASE Stage(h, "opening") /\ UNCHANGED told
  <2>1. /\ work'[h] \in Handling /\ Step(h, work'[h])
        /\ work'[h].at = "opening"
        /\ work'[h].key = work[h].key
        /\ work'[h].pair = work[h].pair
        /\ work'[h].before = work[h].before
    BY <1>1, <1>3, StageType DEF Stages
  <2>2. HandlerFine(h)
    BY DEF Inv
  <2>3. HandlerFine(h)'
    BY <1>1, <2>1, <2>2 DEF HandlerFine, StoreUnchanged, Keys, Pairs
  <2> QED BY <1>1, <1>3, <2>1, <2>3, QuietStep DEF Inv, Types
<1> QED BY <1>2, <1>3 DEF FindSession

\* What a submission refers to is there.
LEMMA Submitting ==
    ASSUME Inv, NEW h \in Handlers, work[h] # Idle, asked[work[h].key].op = "submit"
    PROVE  /\ SessionOf(h) \in DOMAIN sessions
           /\ sessions[SessionOf(h)] \in Session
           /\ sessions[SessionOf(h)].pair \in Pairs
           /\ IsTask(TaskOf(h))
           /\ IsAnswer(AnswerOf(h))
           /\ RepliesTo(TaskOf(h)) \subseteq Spoken
<1>1. RequestFine(work[h].key)
  BY Working DEF Inv
<1>2. /\ SessionOf(h) \in DOMAIN sessions
      /\ AnswerOf(h) \in AnswersTo(TaskOf(h))
  BY <1>1 DEF RequestFine, SessionOf, AnswerOf, TaskOf
<1>3. sessions[SessionOf(h)] \in Session /\ sessions[SessionOf(h)].pair \in Pairs
  BY <1>2 DEF Inv, Types, Session
<1>4. IsAnswer(AnswerOf(h))
  BY <1>2, <1>3, Working, CoursesAreReviewed DEF EpisodeAssumption, TaskOf, Pairs
<1>5. IsTask(TaskOf(h)) /\ RepliesTo(TaskOf(h)) \subseteq Spoken
  BY <1>3, Working DEF TaskOf, Spoken
<1> QED BY <1>2, <1>3, <1>4, <1>5

\* A handler that comes to an outcome.
LEMMA GradedStep ==
    ASSUME Inv, NEW h \in Handlers, work[h] # Idle, asked[work[h].key].op = "submit",
           NEW w \in Handling, Step(h, w), StoreUnchanged, told' = told,
           w.at = "graded", w.key = work[h].key, w.before = work[h].before,
           w.outcome \in GradingOutcome,
           TaskOf(h).kind # "written_solution" =>
               w.outcome = DeterministicOutcome(Score(TaskOf(h), AnswerOf(h))),
           w.outcome = "CORRECT" => Deserved(TaskOf(h), AnswerOf(h), w.replies)
    PROVE  Inv' /\ Onward
<1>1. work'[h] = w
  BY DEF Inv, Types, Step
<1>2. TaskOf(h)' = TaskOf(h) /\ AnswerOf(h)' = AnswerOf(h)
  BY <1>1 DEF TaskOf, AnswerOf, SessionOf, StoreUnchanged
<1>3. Deserved(TaskOf(h), AnswerOf(h), work[h].replies)' <=> Deserved(TaskOf(h), AnswerOf(h), w.replies)
  BY <1>1, <1>2 DEF Deserved, StoreUnchanged
<1>4. HandlerFine(h)'
  BY <1>1, <1>2, <1>3, Working DEF HandlerFine, StoreUnchanged, Keys
<1> QED BY <1>4, QuietStep DEF Inv, Types

LEMMA LoadSubmissionStep ==
    ASSUME Inv, NEW h \in Handlers, LoadSubmission(h)
    PROVE  Inv' /\ Onward
<1> DEFINE session == sessions[SessionOf(h)]
           loaded == [work[h] EXCEPT !.ledger = session.ledger]
           graded(outcome) == [loaded EXCEPT !.at = "graded", !.outcome = outcome]
           asking == [loaded EXCEPT !.at = "asking"]
           scored == DeterministicOutcome(Score(TaskOf(h), AnswerOf(h)))
           next == IF TaskOf(h).kind # "written_solution" THEN graded(scored)
                   ELSE IF course.evaluator THEN asking ELSE graded("UNCERTAIN")
<1>1. /\ work[h] # Idle /\ asked[work[h].key].op = "submit"
      /\ work[h].at = "received"
      /\ StoreUnchanged /\ told' = told
  <2>1. At(h, "submit", "received") /\ StoreUnchanged /\ told' = told
    BY Zenon DEF LoadSubmission
  <2> QED BY <2>1 DEF At, Idle
<1>2. /\ loaded \in Handling
      /\ loaded.key = work[h].key /\ loaded.before = work[h].before
      /\ loaded.replies = work[h].replies
  BY <1>1, Working, Submitting DEF Handling, Session
<1>3. ASSUME NEW outcome \in GradingOutcome
      PROVE  /\ graded(outcome) \in Handling
             /\ graded(outcome).at = "graded" /\ graded(outcome).outcome = outcome
             /\ graded(outcome).key = work[h].key /\ graded(outcome).before = work[h].before
  <2> DEFINE l == loaded
  <2>1. l \in Handling /\ l.key = work[h].key /\ l.before = work[h].before
    BY <1>2
  <2> HIDE DEF l
  <2>2. /\ [l EXCEPT !.at = "graded", !.outcome = outcome] \in Handling
        /\ [l EXCEPT !.at = "graded", !.outcome = outcome].at = "graded"
        /\ [l EXCEPT !.at = "graded", !.outcome = outcome].outcome = outcome
        /\ [l EXCEPT !.at = "graded", !.outcome = outcome].key = l.key
        /\ [l EXCEPT !.at = "graded", !.outcome = outcome].before = l.before
    BY <2>1 DEF Handling, Stages
  <2> QED BY <2>1, <2>2 DEF l
<1>4. CASE Step(h, Idle)
  BY <1>1, <1>4, DoneStep DEF Inv, Types
<1>5. CASE TaskOf(h).kind # "written_solution" /\ Step(h, graded(scored))
  <2>1. scored \in GradingOutcome
        /\ (scored = "CORRECT" => Score(TaskOf(h), AnswerOf(h)) = "correct")
    BY DeterministicIsOutcome
  <2>2. scored = "CORRECT" => Deserved(TaskOf(h), AnswerOf(h), graded(scored).replies)
    <3> DEFINE replies == graded(scored).replies
    <3> HIDE DEF replies
    <3>1. scored = "CORRECT" => Deserved(TaskOf(h), AnswerOf(h), replies)
      BY <1>1, <1>5, <2>1, Submitting, ScoredIsDeserved
    <3> QED BY <3>1 DEF replies
  <2> DEFINE w == graded(scored)
  <2>3. /\ w \in Handling /\ Step(h, w)
        /\ w.at = "graded" /\ w.key = work[h].key /\ w.before = work[h].before
        /\ w.outcome \in GradingOutcome /\ w.outcome = scored
        /\ w.outcome = "CORRECT" => Deserved(TaskOf(h), AnswerOf(h), w.replies)
    <3> HIDE DEF graded, scored
    <3> QED BY <1>3, <1>5, <2>1, <2>2
  <2> HIDE DEF w
  <2> QED BY <1>1, <2>3, GradedStep
<1>6. CASE course.evaluator /\ TaskOf(h).kind = "written_solution" /\ Step(h, asking)
  <2>1. /\ asking \in Handling /\ asking.at = "asking"
        /\ asking.key = work[h].key /\ asking.before = work[h].before
        /\ asking.replies = <<>>
    <3> DEFINE l == loaded
    <3>1. /\ l \in Handling /\ l.key = work[h].key /\ l.before = work[h].before
          /\ l.replies = <<>>
      <4>1. work[h].at = "received" /\ work[h].replies = <<>>
        BY <1>1 DEF Inv, HandlerFine
      <4> QED BY <1>2, <4>1
    <3> HIDE DEF l
    <3>2. [l EXCEPT !.at = "asking"] \in Handling /\ [l EXCEPT !.at = "asking"].at = "asking"
          /\ [l EXCEPT !.at = "asking"].key = l.key /\ [l EXCEPT !.at = "asking"].before = l.before
          /\ [l EXCEPT !.at = "asking"].replies = l.replies
      BY <3>1 DEF Handling, Stages
    <3> QED BY <3>1, <3>2 DEF l
  <2> HIDE DEF asking
  <2>2. work'[h] = asking
    BY <1>6 DEF Inv, Types, Step
  <2>3. course' = course /\ TaskOf(h)' = TaskOf(h)
    BY <1>1, <2>1, <2>2 DEF TaskOf, SessionOf, StoreUnchanged
  <2>4. Len(asking.replies) <= Len(TaskOf(h).criteria)
    BY <1>1, <1>6, <2>1, Submitting, LenProperties DEF IsTask
  <2>5. HandlerFine(h)'
    BY <1>1, <1>6, <2>1, <2>2, <2>3, <2>4, Working DEF HandlerFine, StoreUnchanged, Keys
  <2> QED BY <1>1, <1>6, <2>1, <2>5, QuietStep DEF Inv, Types
<1>7. CASE TaskOf(h).kind = "written_solution" /\ Step(h, graded("UNCERTAIN"))
  <2> DEFINE w == graded("UNCERTAIN")
  <2>1. "UNCERTAIN" \in GradingOutcome
    BY DEF GradingOutcome
  <2>2. /\ w \in Handling /\ Step(h, w)
        /\ w.at = "graded" /\ w.key = work[h].key /\ w.before = work[h].before
        /\ w.outcome = "UNCERTAIN"
    <3> HIDE DEF graded
    <3> QED BY <1>3, <1>7, <2>1
  <2>3. TaskOf(h).kind = "written_solution"
    BY <1>7
  <2> HIDE DEF w
  <2> QED BY <1>1, <2>1, <2>2, <2>3, GradedStep
<1>8. Step(h, Idle) \/ Step(h, next)
  BY Zenon DEF LoadSubmission
<1> HIDE DEF graded, asking, scored
<1> QED BY <1>4, <1>5, <1>6, <1>7, <1>8

\* What a handler that is asking the evaluator holds.
LEMMA Asking ==
    ASSUME Inv, NEW h \in Handlers, work[h].at = "asking"
    PROVE  /\ work[h] # Idle /\ work[h] \in Handling
           /\ asked[work[h].key].op = "submit"
           /\ course.evaluator
           /\ TaskOf(h).kind = "written_solution"
           /\ Len(work[h].replies) <= Len(TaskOf(h).criteria)
           /\ TaskOf(h).criteria \in Seq(SeqRange(TaskOf(h).criteria))
<1>1. work[h] # Idle
  BY DEF Idle
<1>2. HandlerFine(h)
  BY DEF Inv
<1>3. IsTask(TaskOf(h))
  BY <1>1, <1>2, Submitting DEF HandlerFine
<1> QED BY <1>1, <1>2, <1>3, Working DEF HandlerFine, IsTask

\* It goes on asking.
LEMMA AskingStep ==
    ASSUME Inv, NEW h \in Handlers, work[h].at = "asking",
           NEW w \in Handling, Step(h, w), StoreUnchanged, told' = told,
           w.at = "asking", w.key = work[h].key, w.before = work[h].before,
           Len(w.replies) <= Len(TaskOf(h).criteria)
    PROVE  Inv' /\ Onward
<1>1. work'[h] = w
  BY DEF Inv, Types, Step
<1>2. TaskOf(h)' = TaskOf(h) /\ course' = course
  BY <1>1 DEF TaskOf, SessionOf, StoreUnchanged
<1>3. HandlerFine(h)'
  BY <1>1, <1>2, Asking, Working DEF HandlerFine, StoreUnchanged, Keys
<1> QED BY <1>3, QuietStep DEF Inv, Types

LEMMA ProviderRepliesStep ==
    ASSUME Inv, NEW h \in Handlers, ProviderReplies(h)
    PROVE  Inv' /\ Onward
<1>1. Calling(h) /\ StoreUnchanged /\ told' = told
  BY Zenon DEF ProviderReplies
<1>2. work[h].at = "asking" /\ Len(work[h].replies) < Len(TaskOf(h).criteria)
  BY <1>1 DEF Calling
<1>3. PICK reply \in RepliesTo(TaskOf(h)) :
          Step(h, [work[h] EXCEPT !.replies = Append(@, reply), !.attempt = 0])
  BY Zenon DEF ProviderReplies
<1> DEFINE w == [work[h] EXCEPT !.replies = Append(@, reply), !.attempt = 0]
           replies == Append(work[h].replies, reply)
<1>4. work[h].replies \in Seq(Spoken) /\ reply \in Spoken
  BY <1>2, Asking, Submitting DEF Handling
<1>5. replies \in Seq(Spoken) /\ Len(replies) = Len(work[h].replies) + 1
  BY <1>4, AppendProperties
<1>6. w = [[work[h] EXCEPT !.replies = replies] EXCEPT !.attempt = 0]
  BY <1>2, Asking DEF Handling
<1>7. /\ w \in Handling
      /\ w.at = "asking" /\ w.key = work[h].key /\ w.before = work[h].before
      /\ w.replies = replies
  <2> HIDE DEF replies, w
  <2> QED BY <1>2, <1>5, <1>6, Asking DEF Handling
<1>8. Len(replies) <= Len(TaskOf(h).criteria)
  <2> HIDE DEF replies
  <2> QED BY <1>2, <1>4, <1>5, Asking, LenProperties
<1>9. Step(h, w)
  BY <1>3
<1> HIDE DEF w, replies
<1> QED BY <1>1, <1>2, <1>7, <1>8, <1>9, AskingStep

\* The evaluator is unavailable.
LEMMA UncertainStep ==
    ASSUME Inv, NEW h \in Handlers, work[h].at = "asking",
           Step(h, [work[h] EXCEPT !.at = "graded", !.outcome = "UNCERTAIN"]),
           StoreUnchanged, told' = told
    PROVE  Inv' /\ Onward
<1> DEFINE w == [work[h] EXCEPT !.at = "graded", !.outcome = "UNCERTAIN"]
<1>1. /\ w \in Handling
      /\ w.at = "graded" /\ w.key = work[h].key /\ w.before = work[h].before
      /\ w.outcome = "UNCERTAIN" /\ w.outcome \in GradingOutcome
  BY Asking DEF Handling, Stages, GradingOutcome
<1>2. Step(h, w)
  OBVIOUS
<1> HIDE DEF w
<1> QED BY <1>1, <1>2, Asking, GradedStep

LEMMA ProviderStumblesStep ==
    ASSUME Inv, NEW h \in Handlers, ProviderStumbles(h)
    PROVE  Inv' /\ Onward
<1> DEFINE attempt == NextAttempt(work[h].attempt)
           again == [work[h] EXCEPT !.attempt = attempt]
           over == [work[h] EXCEPT !.at = "graded", !.outcome = "UNCERTAIN"]
<1>1. Calling(h) /\ StoreUnchanged /\ told' = told
  BY Zenon DEF ProviderStumbles
<1>2. work[h].at = "asking" /\ Len(work[h].replies) < Len(TaskOf(h).criteria)
  BY <1>1 DEF Calling
<1>3. Step(h, IF attempt < Attempts THEN again ELSE over)
  BY Zenon DEF ProviderStumbles
<1>4. CASE attempt < Attempts
  <2>1. /\ again \in Handling
        /\ again.at = "asking" /\ again.key = work[h].key /\ again.before = work[h].before
        /\ again.replies = work[h].replies
    BY <1>2, <1>4, Asking DEF Handling, NextAttempt, Attempts
  <2>2. Step(h, again)
    <3> HIDE DEF again, over, attempt
    <3> QED BY <1>3, <1>4
  <2> HIDE DEF again
  <2> QED BY <1>1, <1>2, <2>1, <2>2, Asking, AskingStep
<1>5. CASE ~(attempt < Attempts)
  <2>1. Step(h, over)
    <3> HIDE DEF again, over, attempt
    <3> QED BY <1>3, <1>5
  <2> QED BY <1>1, <1>2, <2>1, UncertainStep
<1> QED BY <1>4, <1>5

LEMMA ProviderFailsStep ==
    ASSUME Inv, NEW h \in Handlers, ProviderFails(h)
    PROVE  Inv' /\ Onward
<1>1. /\ Calling(h) /\ StoreUnchanged /\ told' = told
      /\ Step(h, [work[h] EXCEPT !.at = "graded", !.outcome = "UNCERTAIN"])
  BY Zenon DEF ProviderFails
<1>2. work[h].at = "asking"
  BY <1>1 DEF Calling
<1> QED BY <1>1, <1>2, UncertainStep

LEMMA GradeStep ==
    ASSUME Inv, NEW h \in Handlers, Grade(h)
    PROVE  Inv' /\ Onward
<1> DEFINE outcome == GradeWritten(work[h].replies, TaskOf(h))
           w == [work[h] EXCEPT !.at = "graded", !.outcome = outcome]
<1>1. /\ work[h].at = "asking" /\ ~Calling(h) /\ StoreUnchanged /\ told' = told
      /\ Step(h, w)
  BY Zenon DEF Grade
<1>2. outcome \in GradingOutcome
  BY WrittenOutcome
<1>3. Len(work[h].replies) = Len(TaskOf(h).criteria) /\ work[h].replies \in Seq(Spoken)
  <2>1. work[h].replies \in Seq(Spoken)
    BY <1>1, Asking DEF Handling
  <2> QED BY <1>1, <2>1, Asking, LenProperties DEF Calling
<1>4. outcome = "CORRECT" => Deserved(TaskOf(h), AnswerOf(h), work[h].replies)
  BY <1>1, <1>3, Asking, WrittenIsDeserved DEF Deserved
<1>5. /\ w \in Handling
      /\ w.at = "graded" /\ w.key = work[h].key /\ w.before = work[h].before
      /\ w.outcome = outcome /\ w.replies = work[h].replies
  <2> HIDE DEF outcome
  <2> QED BY <1>1, <1>2, Asking DEF Handling, Stages
<1> HIDE DEF w, outcome
<1> QED BY <1>1, <1>2, <1>4, <1>5, Asking, GradedStep

-----------------------------------------------------------------------------
(* Appends. *)

\* An append that leaves the handlers but h, and the requests, as they are.
LEMMA AppendStep ==
    ASSUME Inv, NEW h \in Handlers, Step(h, Idle), UNCHANGED <<course, asked, told>>,
           Onward, DOMAIN sessions' \subseteq Keys,
           \A k \in DOMAIN sessions' : sessions'[k] \in Session,
           sessions' = [k \in DOMAIN sessions' |-> sessions'[k]],
           \A k \in DOMAIN sessions' : sessions'[k].ledger \subseteq Keys \cup {AttemptKey},
           events' \subseteq EventRecord,
           \A e \in events' : e.key \in Keys,
           EventsFine'
    PROVE  Inv'
<1>1. work' \in [Handlers -> {Idle} \cup Handling] /\ work'[h] = Idle
      /\ \A g \in Handlers : g # h => work'[g] = work[g]
  BY DEF Inv, Types, Step
<1>2. \A g \in Handlers : HandlerFine(g)'
  BY <1>1, HandlerKept DEF HandlerFine, Idle
<1>3. Types'
  <2>1. sessions' \in [DOMAIN sessions' -> Session]
    OBVIOUS
  <2> QED BY <1>1, <2>1, SameTypes DEF Inv, Types, Keys
<1>4. LedgersFine'
  BY DEF LedgersFine, Keys
<1>5. (\A k \in Keys : RequestFine(k))'
  BY RequestKept DEF Keys
<1> QED BY <1>2, <1>3, <1>4, <1>5 DEF Inv

LEMMA OpenSessionStep ==
    ASSUME Inv, NEW h \in Handlers, OpenSession(h)
    PROVE  Inv' /\ Onward
<1> DEFINE k == work[h].key
           new == NewSession(k, work[h].pair)
           e == Started(k, work[h].pair)
<1>1. /\ work[h].at = "opening" /\ work[h] # Idle
      /\ Step(h, Idle) /\ UNCHANGED <<course, asked, repeats, told>>
  BY DEF OpenSession, Done, Idle
<1>2. k \in Keys /\ k \in Nat /\ work[h].pair \in Pairs
  <2>1. HandlerFine(h)
    BY DEF Inv
  <2> QED BY <1>1, <2>1, Working DEF HandlerFine, Handling
<1>3. CASE k \in DOMAIN sessions
  <2>1. StoreUnchanged
    BY <1>1, <1>3 DEF OpenSession, StoreUnchanged
  <2> QED BY <1>1, <2>1, DoneStep DEF Inv, Types
<1>4. CASE k \notin DOMAIN sessions
  <2>1. sessions' = Upsert(sessions, k, new) /\ events' = events \cup {e}
    BY <1>4 DEF OpenSession
  <2>2. new \in Session /\ new.ledger = {k} /\ new.pair = work[h].pair
    BY <1>2 DEF NewSession, Session
  <2>3. e \in EventRecord /\ e.key = k /\ e.pair = work[h].pair
        /\ e.type = "challenge_started" /\ e.type # "practice_scored"
    BY <1>2 DEF Started, EventRecord
  <2> HIDE DEF new, e, k
  <2>4. /\ DOMAIN sessions' = DOMAIN sessions \cup {k}
        /\ sessions'[k] = new
        /\ \A x \in DOMAIN sessions : sessions'[x] = sessions[x]
        /\ sessions' = [x \in DOMAIN sessions' |-> sessions'[x]]
    BY <1>4, <2>1 DEF Upsert
  <2>5. Onward
    BY <1>1, <2>1, <2>4 DEF Onward, Keys
  <2>6. /\ DOMAIN sessions' \subseteq Keys
        /\ \A x \in DOMAIN sessions' : sessions'[x] \in Session
        /\ \A x \in DOMAIN sessions' : sessions'[x].ledger \subseteq Keys \cup {AttemptKey}
    BY <1>2, <2>2, <2>4 DEF Inv, Types, LedgersFine
  <2>7. events' \subseteq EventRecord /\ \A x \in events' : x.key \in Keys
    BY <1>2, <2>1, <2>3 DEF Inv, Types, LedgersFine
  <2>8. EventsFine'
    <3>1. IsFiniteSet(events')
      BY <2>1, FS_AddElement DEF Inv, EventsFine
    <3>2. (\A x \in DOMAIN sessions : sessions[x].pair \in ExposedPairs)'
      BY <2>1, <2>2, <2>3, <2>4 DEF Inv, EventsFine, ExposedPairs
    <3>3. DistinctCorrect' = DistinctCorrect
      BY <2>1, <2>3 DEF DistinctCorrect, ScoredEvents
    <3>4. SolvedPairs \subseteq SolvedPairs'
      BY <2>4 DEF SolvedPairs
    <3> QED BY <3>1, <3>2, <3>3, <3>4 DEF Inv, EventsFine
  <2> QED BY <1>1, <2>4, <2>5, <2>6, <2>7, <2>8, AppendStep
<1> QED BY <1>3, <1>4

LEMMA RecordScoreStep ==
    ASSUME Inv, NEW h \in Handlers, RecordScore(h)
    PROVE  Inv' /\ Onward
<1> DEFINE k == SessionOf(h)
           outcome == work[h].outcome
           new == Answered(sessions[k], work[h].key, outcome)
           e == Scored(work[h].key, sessions[k].pair, outcome)
<1>1. /\ work[h].at = "graded" /\ work[h] # Idle
      /\ Step(h, Idle) /\ UNCHANGED <<course, asked, repeats, told>>
  BY DEF RecordScore, Done, Idle
<1>2. asked[work[h].key].op = "submit" /\ outcome \in GradingOutcome
  <2>1. HandlerFine(h)
    BY DEF Inv
  <2> QED BY <1>1, <2>1 DEF HandlerFine
<1>3. k \in DOMAIN sessions /\ sessions[k] \in Session /\ work[h].key \in Keys /\ work[h].key \in Nat
  BY <1>1, <1>2, Submitting, Working DEF Handling
<1>4. CASE sessions[k].ledger # work[h].ledger
  <2>1. StoreUnchanged
    BY <1>1, <1>4 DEF RecordScore, StoreUnchanged
  <2> QED BY <1>1, <2>1, DoneStep DEF Inv, Types
<1>5. CASE sessions[k].ledger = work[h].ledger
  <2>1. sessions' = [sessions EXCEPT ![k] = new] /\ events' = events \cup {e}
    BY <1>5 DEF RecordScore
  <2>2. /\ new \in Session /\ new.ledger = sessions[k].ledger \cup {work[h].key}
        /\ new.pair = sessions[k].pair
        /\ sessions[k].stage = "solved" => new.stage = "solved"
        /\ outcome = "CORRECT" => new.stage = "solved"
    BY <1>2, <1>3 DEF Answered, Session, SatisfiesGradingGate
  <2>3. /\ e \in EventRecord /\ e.key = work[h].key /\ e.pair = sessions[k].pair
        /\ e.type # "challenge_started" /\ e.outcome = outcome
    BY <1>2, <1>3 DEF Scored, EventRecord, Session
  <2> HIDE DEF new, e, k, outcome
  <2>4. /\ DOMAIN sessions' = DOMAIN sessions
        /\ sessions'[k] = new
        /\ \A x \in DOMAIN sessions : x # k => sessions'[x] = sessions[x]
        /\ sessions' = [x \in DOMAIN sessions' |-> sessions'[x]]
    BY <1>3, <2>1
  <2>5. Onward
    BY <1>1, <1>3, <2>1, <2>2, <2>4 DEF Onward, Keys
  <2>6. /\ DOMAIN sessions' \subseteq Keys
        /\ \A x \in DOMAIN sessions' : sessions'[x] \in Session
        /\ \A x \in DOMAIN sessions' : sessions'[x].ledger \subseteq Keys \cup {AttemptKey}
    BY <1>3, <2>2, <2>4 DEF Inv, Types, LedgersFine
  <2>7. events' \subseteq EventRecord /\ \A x \in events' : x.key \in Keys
    BY <1>3, <2>1, <2>3 DEF Inv, Types, LedgersFine
  <2>8. EventsFine'
    <3>1. IsFiniteSet(events')
      BY <2>1, FS_AddElement DEF Inv, EventsFine
    <3>2. (\A x \in DOMAIN sessions : sessions[x].pair \in ExposedPairs)'
      BY <2>1, <2>5, <2>4 DEF Inv, EventsFine, ExposedPairs, Onward
    <3>3. SolvedPairs \subseteq SolvedPairs'
      BY <2>4, <2>5 DEF SolvedPairs, Onward
    <3>4. DistinctCorrect' \subseteq DistinctCorrect
              \cup (IF outcome = "CORRECT" THEN {sessions[k].pair} ELSE {})
      BY <2>1, <2>3 DEF DistinctCorrect, ScoredEvents
    <3>5. outcome = "CORRECT" => sessions[k].pair \in SolvedPairs'
      BY <1>3, <2>2, <2>4 DEF SolvedPairs
    <3> QED BY <3>1, <3>2, <3>3, <3>4, <3>5 DEF Inv, EventsFine
  <2> QED BY <1>1, <2>4, <2>5, <2>6, <2>7, <2>8, AppendStep
<1> QED BY <1>4, <1>5

-----------------------------------------------------------------------------
(* Learners and pages. *)

\* A request that is taken up is where every request begins.
LEMMA TakeUpEffect ==
    ASSUME Inv, NEW k \in Nat, TakeUp(k), course' = course
    PROVE  /\ work' \in [Handlers -> {Idle} \cup Handling]
           /\ \A h \in Handlers : work'[h] = work[h] \/ work'[h] = Received(k)
<1>1. Received(k) \in Handling
  <2>1. DOMAIN sessions \in SUBSET Nat
    BY KeysAreNumbers DEF Inv, Types
  <2>2. <<>> \in Seq(Spoken)
    BY EmptySeq
  <2> QED BY <2>1, <2>2 DEF Received, Handling, Stages
<1> DEFINE c == CHOOSE h \in Idlers : TRUE
<1>2. work' = [work EXCEPT ![c] = Received(k)]
  BY DEF TakeUp
<1> HIDE DEF c
<1> QED BY <1>1, <1>2 DEF Inv, Types

\* A handler that has just received a request is as it should be.
LEMMA ReceivedFine ==
    ASSUME Inv, NEW k \in Keys', NEW h \in Handlers, work'[h] = Received(k), UNCHANGED sessions
    PROVE  HandlerFine(h)'
<1>1. /\ work'[h].at = "received" /\ work'[h].key = k
      /\ work'[h].before = DOMAIN sessions /\ work'[h].replies = <<>>
  BY DEF Received
<1> QED BY <1>1 DEF HandlerFine

LEMMA AskStep ==
    ASSUME Inv, NEW request \in Requests, Ask(request),
           request.op # "start" =>
               /\ request.session \in DOMAIN sessions
               /\ request.op = "submit" =>
                     request.answer \in AnswersTo(course.tasks[sessions[request.session].pair])
    PROVE  Inv' /\ Onward
<1> DEFINE n == Len(asked) + 1
<1>1. /\ TakeUp(n) /\ asked' = Append(asked, request)
      /\ UNCHANGED <<course, repeats, sessions, events, told>>
  BY DEF Ask
<1>2. /\ asked' \in Seq(Requests)
      /\ Keys = 1..Len(asked) /\ Len(asked) \in Nat
      /\ n \in Nat /\ n \in Keys'
      /\ Keys' = Keys \cup {n}
      /\ asked'[n] = request
      /\ \A k \in Keys : asked'[k] = asked[k]
  <2>1. asked \in Seq(Requests)
    BY DEF Inv, Types
  <2> QED BY <1>1, <2>1, AppendProperties, LenProperties DEF Keys
<1>3. Onward
  BY <1>1, <1>2 DEF Onward
<1> HIDE DEF n
<1>4. /\ work' \in [Handlers -> {Idle} \cup Handling]
      /\ \A h \in Handlers : work'[h] = work[h] \/ work'[h] = Received(n)
  BY <1>1, <1>2, TakeUpEffect
<1>5. \A h \in Handlers : HandlerFine(h)'
  BY <1>1, <1>2, <1>3, <1>4, HandlerKept, ReceivedFine
<1>6. (\A k \in Keys : RequestFine(k))'
  <2>1. ASSUME NEW k \in Keys' PROVE RequestFine(k)'
    <3>1. CASE k \in Keys
      BY <1>3, <3>1, RequestKept
    <3>2. CASE k = n
      BY <1>1, <1>2, <3>2 DEF RequestFine
    <3> QED BY <1>2, <3>1, <3>2
  <2> QED BY <2>1
<1>7. Types' /\ LedgersFine'
  BY <1>1, <1>2, <1>4, SameTypes DEF Inv, Types, LedgersFine
<1>8. EventsFine'
  BY <1>1, <1>3, EventsKept
<1> QED BY <1>3, <1>5, <1>6, <1>7, <1>8 DEF Inv

LEMMA AskAnewStep ==
    ASSUME Inv, AskAnew
    PROVE  Inv' /\ Onward
<1>1. DOMAIN sessions \subseteq Nat
  BY KeysAreNumbers DEF Inv, Types
<1>2. CASE Ask(StartRequest)
  <2>1. StartRequest \in Requests /\ StartRequest.op = "start"
    BY DEF Requests, StartRequest
  <2> QED BY <1>2, <2>1, AskStep
<1>3. ASSUME NEW k \in DOMAIN sessions, Ask(NextRequest(k))
      PROVE  Inv' /\ Onward
  <2>1. NextRequest(k) \in Requests
    BY <1>1 DEF Requests
  <2>2. NextRequest(k).op = "next" /\ NextRequest(k).session = k
    BY DEF NextRequest
  <2> QED BY <1>3, <2>1, <2>2, AskStep
<1>4. ASSUME NEW k \in DOMAIN sessions, NEW answer \in AnswersTo(course.tasks[sessions[k].pair]),
             Ask(SubmitRequest(k, answer))
      PROVE  Inv' /\ Onward
  <2>1. sessions[k].pair \in Pairs
    BY DEF Inv, Types, Session
  <2>2. SubmitRequest(k, answer) \in Requests
    BY <1>1, <2>1 DEF Requests, Tried
  <2>3. /\ SubmitRequest(k, answer).op = "submit" /\ SubmitRequest(k, answer).session = k
        /\ SubmitRequest(k, answer).answer = answer
    BY DEF SubmitRequest
  <2> QED BY <1>4, <2>2, <2>3, AskStep
<1> QED BY <1>2, <1>3, <1>4 DEF AskAnew

LEMMA AskAgainStep ==
    ASSUME Inv, AskAgain
    PROVE  Inv' /\ Onward
<1>1. PICK k \in Keys : TakeUp(k)
  BY DEF AskAgain
<1>2. UNCHANGED <<course, asked, sessions, events, told>> /\ k \in Nat /\ k \in Keys'
  BY KeysAreNumbers DEF AskAgain, Inv, Keys
<1>3. Onward
  BY <1>2 DEF Onward, Keys
<1>4. /\ work' \in [Handlers -> {Idle} \cup Handling]
      /\ \A h \in Handlers : work'[h] = work[h] \/ work'[h] = Received(k)
  BY <1>1, <1>2, TakeUpEffect
<1>5. \A h \in Handlers : HandlerFine(h)'
  BY <1>2, <1>3, <1>4, HandlerKept, ReceivedFine
<1>6. (\A x \in Keys : RequestFine(x))'
  BY <1>2, <1>3, RequestKept DEF Keys
<1>7. Types' /\ LedgersFine'
  BY <1>2, <1>4, SameTypes DEF Inv, Types, LedgersFine, Keys
<1>8. EventsFine'
  BY <1>2, <1>3, EventsKept
<1> QED BY <1>3, <1>5, <1>6, <1>7, <1>8 DEF Inv

LEMMA RecordAttemptStep ==
    ASSUME Inv, NEW k \in DOMAIN sessions, RecordAttempt(k)
    PROVE  Inv' /\ Onward
<1> DEFINE new == Attempting(sessions[k])
<1>1. /\ sessions[k].stage = "ready" /\ sessions' = [sessions EXCEPT ![k] = new]
      /\ UNCHANGED <<course, asked, repeats, work, events, told>>
  BY DEF RecordAttempt
<1>2. new \in Session /\ new.pair = sessions[k].pair
      /\ new.ledger = sessions[k].ledger \cup {AttemptKey}
  BY DEF Inv, Types, Session, Attempting, AttemptKey
<1> HIDE DEF new
<1>3. /\ DOMAIN sessions' = DOMAIN sessions
      /\ sessions'[k] = new
      /\ \A x \in DOMAIN sessions : x # k => sessions'[x] = sessions[x]
      /\ sessions' = [x \in DOMAIN sessions' |-> sessions'[x]]
  BY <1>1
<1>4. Onward
  BY <1>1, <1>2, <1>3 DEF Onward, Keys
<1>5. \A h \in Handlers : HandlerFine(h)'
  BY <1>1, <1>4, HandlerKept
<1>6. (\A x \in Keys : RequestFine(x))'
  BY <1>1, <1>4, RequestKept DEF Keys
<1>7. Types'
  <2>1. \A x \in DOMAIN sessions' : sessions'[x] \in Session
    BY <1>2, <1>3 DEF Inv, Types
  <2>2. sessions' \in [DOMAIN sessions' -> Session]
    BY <1>3, <2>1
  <2> QED BY <1>1, <1>3, <2>2, SameTypes DEF Inv, Types, Keys
<1>8. LedgersFine'
  BY <1>1, <1>2, <1>3 DEF Inv, LedgersFine, Keys
<1>9. EventsFine'
  BY <1>1, <1>3, <1>4, EventsKept
<1> QED BY <1>4, <1>5, <1>6, <1>7, <1>8, <1>9 DEF Inv

\* A step that at most tells the learner something.
LEMMA TellingStep ==
    ASSUME Inv, UNCHANGED <<course, asked, repeats, work, sessions, events>>,
           told' \subseteq NextActions
    PROVE  Inv' /\ Onward
<1>1. Onward
  BY DEF Onward, Keys
<1>2. (\A h \in Handlers : HandlerFine(h))' /\ (\A k \in Keys : RequestFine(k))'
  BY <1>1, HandlerKept, RequestKept DEF Keys
<1>3. Types' /\ LedgersFine'
  BY SameTypes DEF Inv, Types, LedgersFine, Keys
<1>4. EventsFine'
  BY <1>1, EventsKept
<1> QED BY <1>1, <1>2, <1>3, <1>4 DEF Inv

LEMMA NextActionsAreThree ==
    ASSUME NEW gate
    PROVE  DerivePracticeNextAction(gate) \in NextActions
BY DEF DerivePracticeNextAction, NextActions

-----------------------------------------------------------------------------
(* The invariant. *)

LEMMA InvInit ==
    ASSUME Init
    PROVE  Inv
<1>1. asked = <<>> /\ sessions = <<>> /\ events = {} /\ told = {} /\ course \in Courses
      /\ work = [h \in Handlers |-> Idle]
  BY DEF Init
<1>2. Keys = {} /\ DOMAIN sessions = {}
  BY <1>1 DEF Keys
<1>3. Types
  <2>1. asked \in Seq(Requests)
    BY <1>1, EmptySeq
  <2>2. sessions \in [DOMAIN sessions -> Session]
    BY <1>1
  <2> QED BY <1>1, <1>2, <2>1, <2>2 DEF Types
<1>4. LedgersFine
  BY <1>1, <1>2 DEF LedgersFine
<1>5. \A h \in Handlers : HandlerFine(h)
  BY <1>1 DEF HandlerFine
<1>6. EventsFine
  BY <1>1, <1>2, FS_EmptySet DEF EventsFine, DistinctCorrect, ScoredEvents
<1> QED BY <1>2, <1>3, <1>4, <1>5, <1>6 DEF Inv

LEMMA ServeStep ==
    ASSUME Inv, NEW h \in Handlers, Serve(h)
    PROVE  Inv' /\ Onward
BY Zenon, ChooseInitialStep, ReadGateStep, ChooseFreshStep, FindSessionStep, OpenSessionStep,
   LoadSubmissionStep, ProviderRepliesStep, ProviderStumblesStep, ProviderFailsStep, GradeStep,
   RecordScoreStep
   DEF Serve

LEMMA InvStep ==
    ASSUME Inv, [Next]_vars
    PROVE  Inv' /\ Onward
<1>1. CASE AskAnew
  BY <1>1, AskAnewStep
<1>2. CASE AskAgain
  BY <1>2, AskAgainStep
<1>3. CASE \E k \in DOMAIN sessions : RecordAttempt(k)
  BY <1>3, RecordAttemptStep
<1>4. CASE LoadView
  BY <1>4, NextActionsAreThree, TellingStep DEF LoadView, Inv, Types
<1>5. ASSUME NEW h \in Handlers, Serve(h)
      PROVE  Inv' /\ Onward
  BY <1>5, ServeStep
<1>6. ASSUME NEW h \in Handlers, Die(h)
      PROVE  Inv' /\ Onward
  BY <1>6, DoneStep DEF Die, Done, Inv, Types
<1>7. CASE UNCHANGED vars
  BY <1>7, TellingStep DEF vars, Inv, Types
<1> QED BY Zenon, <1>1, <1>2, <1>3, <1>4, <1>5, <1>6, <1>7 DEF Next

LEMMA InvHolds == Spec => []Inv
<1>1. Inv /\ [Next]_vars => Inv'
  BY InvStep
<1> QED BY <1>1, InvInit, PTL DEF Spec

-----------------------------------------------------------------------------
(* Readiness. *)

LEMMA ImageIsFinite ==
    ASSUME NEW S, IsFiniteSet(S), NEW f, f = [x \in S |-> f[x]]
    PROVE  IsFiniteSet({f[x] : x \in S})
<1> DEFINE T == {f[x] : x \in S}
<1>1. f \in Surjection(S, T)
  BY DEF Surjection
<1> HIDE DEF T
<1>2. IsFiniteSet(T)
  BY <1>1, FS_Surjection
<1> QED BY <1>2 DEF T

LEMMA SolvedIsFinite ==
    ASSUME Inv
    PROVE  IsFiniteSet(SolvedPairs) /\ Cardinality(SolvedPairs) \in Nat
<1> DEFINE S == {x \in DOMAIN sessions : sessions[x].stage = "solved"}
           f == [k \in S |-> sessions[k].pair]
<1>1. Keys = 1..Len(asked) /\ Len(asked) \in Nat
  BY KeysAreNumbers DEF Inv
<1>2. IsFiniteSet(Keys)
  BY <1>1, FS_Interval
<1>3. S \subseteq Keys
  BY DEF Inv, Types
<1>4. IsFiniteSet(S)
  BY <1>2, <1>3, FS_Subset
<1>5. SolvedPairs = {f[k] : k \in S}
  BY DEF SolvedPairs
<1>6. f = [k \in S |-> f[k]]
  OBVIOUS
<1>7. IsFiniteSet({f[k] : k \in S})
  <2> HIDE DEF S, f
  <2> QED BY <1>4, <1>6, ImageIsFinite
<1> QED BY <1>5, <1>7, FS_CardinalityType

LEMMA CountIsNatural ==
    ASSUME Inv
    PROVE  /\ IsFiniteSet(DistinctCorrect)
           /\ Cardinality(DistinctCorrect) \in Nat
           /\ Cardinality(DistinctCorrect) <= Cardinality(SolvedPairs)
BY SolvedIsFinite, FS_Subset, FS_CardinalityType DEF Inv, EventsFine

LEMMA CountIsNaturalNext ==
    (Inv => IsFiniteSet(DistinctCorrect) /\ Cardinality(DistinctCorrect) \in Nat)'
<1>1. Inv => IsFiniteSet(DistinctCorrect) /\ Cardinality(DistinctCorrect) \in Nat
  BY CountIsNatural
<1> QED BY <1>1, PTL

\* What readiness rests on: solutions of as many pairs as the gate requires.
Earned == Cardinality(DistinctCorrect) >= course.gate.required

ToldFine == "READY_FOR_TRANSFER" \in told => Earned

LEMMA GateIsNatural ==
    ASSUME Inv
    PROVE  course.gate.required \in Nat
BY CoursesAreReviewed DEF EpisodeAssumption, Inv, Types

\* Solutions are counted in events, and events stay.
LEMMA EarnedStays ==
    ASSUME Inv, Inv', Onward, Earned
    PROVE  Earned'
<1>1. DistinctCorrect \subseteq DistinctCorrect'
  BY DEF Onward, DistinctCorrect, ScoredEvents
<1>2. IsFiniteSet(DistinctCorrect)' /\ Cardinality(DistinctCorrect)' \in Nat
  BY CountIsNaturalNext
<1>3. Cardinality(DistinctCorrect) <= Cardinality(DistinctCorrect)'
  BY <1>1, <1>2, FS_Subset
<1> QED BY <1>2, <1>3, CountIsNatural, GateIsNatural DEF Earned, Onward

\* Only the gate says it.
LEMMA ReadyIsTold ==
    ASSUME Inv, [Next]_vars, "READY_FOR_TRANSFER" \in told', "READY_FOR_TRANSFER" \notin told
    PROVE  Earned
<1> DEFINE action == DerivePracticeNextAction(course.gate)
<1>1. action = "READY_FOR_TRANSFER" => Earned
  BY DEF DerivePracticeNextAction, Earned
<1>2. LoadView => action = "READY_FOR_TRANSFER"
  <2> HIDE DEF action
  <2> QED BY DEF LoadView, action
<1>3. ASSUME NEW h \in Handlers, ReadGate(h) PROVE action = "READY_FOR_TRANSFER"
  BY <1>3 DEF ReadGate, Tell
<1>4. ASSUME NEW h \in Handlers, ChooseFresh(h) PROVE FALSE
  <2>1. Tell(h, "PRACTICE_RECOVERY") \/ told' = told
    BY Zenon, <1>4 DEF ChooseFresh
  <2> QED BY <2>1 DEF Tell
<1>5. ASSUME NEW h \in Handlers, Serve(h) PROVE ReadGate(h)
  <2>1. told' = told => FALSE
    OBVIOUS
  <2> QED BY Zenon, <1>4, <1>5, <2>1 DEF Serve, ChooseInitial, FindSession, OpenSession,
             LoadSubmission, ProviderReplies, ProviderStumbles, ProviderFails, Grade, RecordScore,
             Done
<1>6. \/ LoadView
      \/ \E h \in Handlers : Serve(h)
      \/ told' = told
  BY Zenon DEF Next, vars, AskAnew, AskAgain, Ask, RecordAttempt, Die, Done
<1> QED BY <1>1, <1>2, <1>3, <1>5, <1>6

LEMMA ToldHolds == Spec => []ToldFine
<1>1. Init => ToldFine
  BY DEF Init, ToldFine
<1>2. ASSUME Inv, ToldFine, [Next]_vars
      PROVE  ToldFine'
  BY <1>2, InvStep, EarnedStays, ReadyIsTold DEF ToldFine
<1>3. Inv /\ ToldFine /\ [Next]_vars => ToldFine'
  BY <1>2
<1> QED BY <1>1, <1>3, InvHolds, PTL DEF Spec

-----------------------------------------------------------------------------
(* Theorems. *)

\* Every state has its type.
THEOREM EpisodeTypesHold == Spec => []EpisodeTypeOK
<1>1. ASSUME Inv PROVE EpisodeTypeOK
  <2>1. \A h \in Handlers : work[h].at \in Stages
    BY <1>1 DEF Inv, Types, Idle, Handling, Stages
  <2>2. ASSUME NEW h \in Busy
        PROVE  /\ work[h].key \in Keys
               /\ work[h].pair \in DOMAIN course.tasks \cup {None}
               /\ work[h].attempt \in 0..Attempts - 1
    <3>1. work[h] \in Handling /\ work[h].key \in Keys
      BY <1>1, Working DEF Busy
    <3> QED BY <3>1 DEF Handling, Pairs, Attempts
  <2>3. ASSUME NEW k \in DOMAIN sessions
        PROVE  /\ sessions[k].pair \in DOMAIN course.tasks
               /\ sessions[k].stage \in {"ready", "attempting", "solved"}
               /\ sessions[k].ledger \subseteq Keys \cup {AttemptKey}
    BY <1>1 DEF Inv, Types, LedgersFine, Session, Pairs
  <2>4. ASSUME NEW e \in events
        PROVE  /\ e.key \in Keys
               /\ e.pair \in DOMAIN course.tasks
               /\ e.outcome \in IF e.type = "challenge_started" THEN {Unset} ELSE GradingOutcome
    BY <1>1 DEF Inv, Types, LedgersFine, EventRecord, Pairs
  <2> QED BY <1>1, <2>1, <2>2, <2>3, <2>4 DEF EpisodeTypeOK, Inv, Types
<1>2. Inv => EpisodeTypeOK
  BY <1>1
<1> QED BY <1>2, InvHolds, PTL

\* A solution that is graded CORRECT deserves it, whatever the evaluator answered and however
\* often the provider stumbled.
THEOREM GradesAreDeserved == Spec => []GradeIsDeserved
<1>1. Inv => GradeIsDeserved
  BY DEF Inv, HandlerFine, GradeIsDeserved, Grading, Busy
<1> QED BY <1>1, InvHolds, PTL

\* A number is graded CORRECT exactly if it is as near to the expected one as the tolerance
\* allows, with however many digits, zeros and signs it is written (scoring/service.ts,
\* parseDecimal, absoluteDifference, isWithinTolerance).
THEOREM VerdictsAreExact == Spec => []VerdictIsExact
<1>1. Inv => VerdictIsExact
  <2> SUFFICES ASSUME Inv, NEW h \in Grading, TaskOf(h).kind = "numeric"
               PROVE  work[h].outcome = DeterministicOutcome(Score(TaskOf(h), AnswerOf(h)))
                      /\ IsTask(TaskOf(h)) /\ IsAnswer(AnswerOf(h))
    BY ScoreIsExact, Zenon DEF VerdictIsExact
  <2>1. h \in Handlers /\ work[h] # Idle /\ work[h].at = "graded"
    BY DEF Grading, Busy
  <2>2. /\ work[h].outcome = DeterministicOutcome(Score(TaskOf(h), AnswerOf(h)))
        /\ asked[work[h].key].op = "submit"
    BY <2>1 DEF Inv, HandlerFine
  <2> QED BY <2>1, <2>2, Submitting
<1> QED BY <1>1, InvHolds, PTL

\* A learner advances to a pair they had no session on when they asked.
THEOREM AdvancesAreFresh == Spec => []AdvanceIsFresh
<1>1. Inv => AdvanceIsFresh
  BY DEF Inv, HandlerFine, AdvanceIsFresh, Busy
<1> QED BY <1>1, InvHolds, PTL

\* Whoever is told to be ready has solved as many different pairs as the gate requires.
THEOREM ReadinessIsEarned == Spec => []ReadyIsEarned
<1>1. Inv /\ ToldFine => ReadyIsEarned
  BY CountIsNatural, SolvedIsFinite, GateIsNatural DEF ReadyIsEarned, ToldFine, Earned
<1> QED BY <1>1, InvHolds, ToldHolds, PTL

\* And whoever was told so stays ready.
THEOREM ReadinessStays == Spec => []ReadyStaysReady
<1>1. ToldFine => ReadyStaysReady
  BY DEF ReadyStaysReady, ToldFine, Earned, DerivePracticeNextAction
<1> QED BY <1>1, ToldHolds, PTL
=============================================================================
