---------------------------- MODULE ContentProofs ----------------------------
(***************************************************************************)
(* Proofs about ContentStudio, for any number of staff pages, requests,    *)
(* revisions and any bound on turns: learners are served what was          *)
(* approved, a published revision is out of their reach only while it is   *)
(* being published or because that died, stored bodies are coherent, and   *)
(* the store implements RevisionLifecycle.                                 *)
(*                                                                         *)
(* The argument: nothing moves a row backwards, and what review froze      *)
(* keeps its words (Onward).  So a copy of a reviewed revision, in a list, *)
(* on a page or in a request, however old, says what the row says, and an  *)
(* approval is about the stored body.  A copy of a draft may be stale, but *)
(* it still is a body of its own revision, and it is saved only into a     *)
(* draft.                                                                  *)
(***************************************************************************)
EXTENDS ContentProperties, SequenceTheorems, WellFoundedInduction, TLAPS

(***************************************************************************)
(* Bodies.                                                                 *)
(***************************************************************************)
\* A task whose rubric requires no criterion it does not have.
Sound(rubric) == SeqRange(rubric.required) \subseteq SeqRange(CriterionIds(rubric))

IsTask(task) == task \in Tasks /\ Sound(task.rubric)

\* A pair of revision r and the skill; if a request made it, that request is one of `used`.
IsPair(used, r, skill, pair) ==
    /\ pair \in Pairs
    /\ IsTask(pair.practice) /\ IsTask(pair.transfer)
    /\ pair.rev = r
    /\ pair.skill = skill
    /\ pair.id \in Requests => pair.id \in used

\* A sequence of such pairs, none of them twice.
ArePairs(used, r, skill, s) ==
    /\ s \in Seq(SeqRange(s))
    /\ \A i \in 1..Len(s) : IsPair(used, r, skill, s[i])
    /\ \A i, j \in 1..Len(s) : s[i].id = s[j].id => i = j

Body(used, r, node) ==
    /\ node \in Bodies
    /\ node.rev = r
    /\ ArePairs(used, r, node.skill, node.pairs)

-----------------------------------------------------------------------------
(* Sequences. *)

LEMMA ElementsMakeSeq ==
    ASSUME NEW s, s \in Seq(SeqRange(s))
    PROVE  Len(s) \in Nat /\ DOMAIN s = 1..Len(s) /\ s \in [1..Len(s) -> SeqRange(s)]
  BY LenProperties

\* A function on 1..n is a sequence of length n.
LEMMA ListIsSeq ==
    ASSUME NEW n \in Nat, NEW s, DOMAIN s = 1..n, s = [i \in 1..n |-> s[i]]
    PROVE  s \in Seq(SeqRange(s)) /\ Len(s) = n
<1>1. s \in [1..n -> SeqRange(s)]
  BY DEF SeqRange
<1>2. s \in Seq(SeqRange(s))
  BY <1>1, SeqDef
<1>3. DOMAIN s = 1..Len(s) /\ Len(s) \in Nat
  BY <1>2, LenProperties
<1>4. Len(s) = n
  BY <1>3
<1> QED BY <1>2, <1>4

-----------------------------------------------------------------------------
(* Counting up. *)

LEMMA LeastNumber ==
    ASSUME NEW T, T \subseteq Nat, T # {}
    PROVE  \E x \in T : \A y \in T : x <= y
<1> DEFINE R == OpToRel(<, Nat)
<1>1. \A x \in Nat, y \in Nat : <<y, x>> \in R <=> y < x
  BY DEF OpToRel
<1>2. IsWellFoundedOn(R, Nat)
  BY NatLessThanWellFounded
<1> HIDE DEF R
<1>3. PICK x \in T : \A y \in T : ~ (<<y, x>> \in R)
  BY <1>2, WFMin
<1>4. \A y \in T : x \in Nat /\ y \in Nat /\ ~(y < x)
  BY <1>1, <1>3
<1>5. \A y \in T : x <= y
  BY <1>4
<1> QED BY <1>5

\* Induction, for a set of numbers.
LEMMA EveryNumber ==
    ASSUME NEW S, 0 \in S, \A n \in Nat : n \in S => n + 1 \in S
    PROVE  \A n \in Nat : n \in S
<1> SUFFICES ASSUME NEW k \in Nat, k \notin S
             PROVE  FALSE
  OBVIOUS
<1>1. PICK x \in (Nat \ S) : \A y \in (Nat \ S) : x <= y
  BY LeastNumber
<1>2. x # 0
  BY <1>1
<1>3. x - 1 \in Nat /\ x - 1 \in S
  BY <1>1, <1>2
<1>4. (x - 1) + 1 \in S
  BY <1>3
<1> QED BY <1>1, <1>4

\* What Without makes of the first n elements, from what it made of the ones before.
Counted(s, x, g, n) ==
    IF n = 0 THEN <<>> ELSE IF s[n] = x THEN g[n - 1] ELSE Append(g[n - 1], s[n])

LEMMA WithoutExists ==
    ASSUME NEW s, NEW x, Len(s) \in Nat
    PROVE  \E g : g = [n \in 0..Len(s) |-> Counted(s, x, g, n)]
<1> DEFINE S == {k \in Nat : \E g : g = [n \in 0..k |-> Counted(s, x, g, n)]}
<1>1. 0 \in S
  <2> DEFINE g == [n \in 0..0 |-> <<>>]
  <2>1. g = [n \in 0..0 |-> Counted(s, x, g, n)]
    BY DEF Counted
  <2> QED BY <2>1
<1>2. ASSUME NEW k \in Nat, k \in S
      PROVE  k + 1 \in S
  <2>1. PICK g : g = [n \in 0..k |-> Counted(s, x, g, n)]
    BY <1>2
  <2> DEFINE h == [n \in 0..(k + 1) |-> IF n \in 0..k THEN g[n] ELSE Counted(s, x, g, n)]
  <2>2. ASSUME NEW n \in 0..(k + 1)
        PROVE  h[n] = Counted(s, x, h, n)
    <3>1. n = 0 \/ (n - 1 \in 0..k /\ h[n - 1] = g[n - 1])
      OBVIOUS
    <3>2. Counted(s, x, h, n) = Counted(s, x, g, n)
      BY <3>1 DEF Counted
    <3>3. n \in 0..k => g[n] = Counted(s, x, g, n)
      BY <2>1
    <3> QED BY <3>2, <3>3
  <2>3. h = [n \in 0..(k + 1) |-> Counted(s, x, h, n)]
    BY <2>2
  <2> HIDE DEF h
  <2>4. \E w : w = [n \in 0..(k + 1) |-> Counted(s, x, w, n)]
    BY <2>3
  <2> QED BY <2>4
<1> HIDE DEF S
<1>3. \A k \in Nat : k \in S
  BY <1>1, <1>2, EveryNumber
<1> QED BY <1>3 DEF S

\* What is left when x is taken out of a sequence are elements of it, none of them x.
LEMMA WithoutElements ==
    ASSUME NEW s, s \in Seq(SeqRange(s)), NEW x
    PROVE  Without(s, x) \in Seq(SeqRange(s) \ {x})
<1> DEFINE f == CHOOSE g : g = [n \in 0..Len(s) |-> Counted(s, x, g, n)]
           T == SeqRange(s) \ {x}
<1>1. Len(s) \in Nat /\ s \in [1..Len(s) -> SeqRange(s)]
  BY ElementsMakeSeq
<1>2. \E g : g = [n \in 0..Len(s) |-> Counted(s, x, g, n)]
  BY <1>1, WithoutExists
<1>3. f = [n \in 0..Len(s) |-> Counted(s, x, f, n)]
  BY <1>2, Zenon
<1>4. Without(s, x) = f[Len(s)]
  BY DEF Without, Counted
<1> HIDE DEF f
<1>5. \A n \in 0..Len(s) : f[n] = Counted(s, x, f, n)
  BY <1>3
<1> DEFINE S == {n \in Nat : n <= Len(s) => f[n] \in Seq(T)}
<1>6. 0 \in S
  <2>1. f[0] = <<>>
    BY <1>1, <1>5 DEF Counted
  <2> HIDE DEF T
  <2> QED BY <2>1, EmptySeq
<1>7. ASSUME NEW n \in Nat, n \in S
      PROVE  n + 1 \in S
  <2> SUFFICES ASSUME n + 1 <= Len(s)
               PROVE  f[n + 1] \in Seq(T)
    OBVIOUS
  <2>1. n + 1 \in 0..Len(s) /\ n + 1 # 0 /\ (n + 1) - 1 = n /\ n + 1 \in 1..Len(s) /\ n <= Len(s)
    BY <1>1
  <2>2. f[n + 1] = IF s[n + 1] = x THEN f[n] ELSE Append(f[n], s[n + 1])
    BY <1>5, <2>1 DEF Counted
  <2>3. f[n] \in Seq(T)
    BY <1>7, <2>1
  <2>4. s[n + 1] # x => s[n + 1] \in T
    BY <1>1, <2>1
  <2> HIDE DEF T
  <2> QED BY <2>2, <2>3, <2>4, AppendProperties
<1> HIDE DEF S
<1>8. Len(s) \in S
  BY <1>1, <1>6, <1>7, EveryNumber
<1> QED BY <1>1, <1>4, <1>8 DEF S

-----------------------------------------------------------------------------
(* Rubrics and tasks. *)

LEMMA CriteriaOf ==
    ASSUME NEW rubric \in AuthoredRubrics
    PROVE  /\ Len(rubric.criteria) \in Nat /\ DOMAIN rubric.criteria = 1..Len(rubric.criteria)
           /\ \A i \in 1..Len(rubric.criteria) : rubric.criteria[i].id \in Nat
           /\ SeqRange(CriterionIds(rubric)) =
                  {rubric.criteria[i].id : i \in 1..Len(rubric.criteria)}
           /\ rubric.required \in Seq(Nat) /\ rubric.required \in Seq(SeqRange(rubric.required))
<1>1. /\ rubric.criteria \in Seq([id : Nat, described : BOOLEAN])
      /\ rubric.required \in Seq(Nat)
  BY DEF AuthoredRubrics
<1>2. /\ Len(rubric.criteria) \in Nat /\ DOMAIN rubric.criteria = 1..Len(rubric.criteria)
      /\ \A i \in 1..Len(rubric.criteria) : rubric.criteria[i] \in [id : Nat, described : BOOLEAN]
  BY <1>1, LenProperties
<1>3. SeqRange(CriterionIds(rubric)) = {rubric.criteria[i].id : i \in 1..Len(rubric.criteria)}
  BY <1>2 DEF SeqRange, CriterionIds
<1>4. rubric.required \in [1..Len(rubric.required) -> Nat] /\ Len(rubric.required) \in Nat
  BY <1>1, LenProperties
<1>5. rubric.required \in [1..Len(rubric.required) -> SeqRange(rubric.required)]
  BY <1>4 DEF SeqRange
<1>6. rubric.required \in Seq(SeqRange(rubric.required))
  BY <1>4, <1>5, SeqDef
<1> QED BY <1>1, <1>2, <1>3, <1>6

\* A rubric whose required criteria are among the new criteria's ids is sound.
LEMMA SoundFrom ==
    ASSUME NEW rubric \in AuthoredRubrics, NEW ids, rubric.required \in Seq(ids),
           \A x \in ids : \E i \in 1..Len(rubric.criteria) : rubric.criteria[i].id = x
    PROVE  Sound(rubric)
<1>1. SeqRange(rubric.required) \subseteq ids
  BY ElementOfSeq, LenProperties DEF SeqRange
<1> QED BY <1>1, CriteriaOf DEF Sound

LEMMA AddedCriterion ==
    ASSUME NEW rubric \in AuthoredRubrics, Sound(rubric)
    PROVE  AddCriterion(rubric) \in AuthoredRubrics /\ Sound(AddCriterion(rubric))
<1> DEFINE n == Len(rubric.criteria)
           new == AddCriterion(rubric)
           C == [id : Nat, described : BOOLEAN]
           c == [id |-> n + 1, described |-> FALSE]
<1>1. /\ rubric.criteria \in Seq(C) /\ rubric.required \in Seq(Nat)
      /\ n \in Nat /\ c \in C
  BY CriteriaOf DEF AuthoredRubrics
<1>2. /\ Append(rubric.criteria, c) \in Seq(C) /\ Len(Append(rubric.criteria, c)) = n + 1
      /\ \A i \in 1..n : Append(rubric.criteria, c)[i] = rubric.criteria[i]
      /\ Append(rubric.criteria, c)[n + 1] = c
  BY <1>1, AppendProperties
<1>3. Append(rubric.required, n + 1) \in Seq(Nat)
  BY <1>1, AppendProperties
<1>4. /\ new \in AuthoredRubrics /\ new.criteria = Append(rubric.criteria, c)
      /\ new.required = Append(rubric.required, n + 1)
  BY <1>2, <1>3 DEF AddCriterion, AuthoredRubrics
<1> DEFINE ids == SeqRange(rubric.required) \cup {n + 1}
<1>5. rubric.required \in Seq(ids)
  BY CriteriaOf, SeqMonotonic
<1>6. Append(rubric.required, n + 1) \in Seq(ids)
  BY <1>5, AppendProperties
<1>7. ASSUME NEW x \in ids
      PROVE  \E i \in 1..(n + 1) : Append(rubric.criteria, c)[i].id = x
  <2>1. CASE x = n + 1
    BY <1>1, <1>2, <2>1
  <2>2. CASE x \in SeqRange(rubric.required)
    <3>1. PICK i \in 1..n : rubric.criteria[i].id = x
      BY <2>2, CriteriaOf DEF Sound
    <3>2. i \in 1..(n + 1) /\ Append(rubric.criteria, c)[i].id = x
      BY <1>1, <1>2, <3>1
    <3> QED BY <3>2
  <2> QED BY <2>1, <2>2
<1> HIDE DEF ids, c, n, new
<1>8. \A x \in ids : \E i \in 1..Len(new.criteria) : new.criteria[i].id = x
  BY <1>2, <1>4, <1>7 DEF n, c
<1>9. Sound(new)
  BY <1>4, <1>6, <1>8, SoundFrom DEF n
<1> QED BY <1>4, <1>9 DEF new

LEMMA RemovedCriterion ==
    ASSUME NEW rubric \in AuthoredRubrics, Sound(rubric), NEW i \in DOMAIN rubric.criteria
    PROVE  RemoveCriterion(rubric, i) \in AuthoredRubrics /\ Sound(RemoveCriterion(rubric, i))
<1> DEFINE n == Len(rubric.criteria)
           new == RemoveCriterion(rubric, i)
           C == [id : Nat, described : BOOLEAN]
           x == rubric.criteria[i].id
           ids == SeqRange(rubric.required) \ {x}
           left == RemoveAt(rubric.criteria, i)
<1>0. rubric.criteria \in Seq(C) /\ rubric.required \in Seq(Nat)
  BY DEF AuthoredRubrics
<1> HIDE DEF C
<1>1. /\ rubric.criteria \in [1..n -> C] /\ n \in Nat /\ i \in 1..n
      /\ rubric.required \in Seq(SeqRange(rubric.required))
      /\ SeqRange(rubric.required) \subseteq Nat
  <2>1. rubric.criteria \in [1..n -> C] /\ n \in Nat /\ i \in 1..n
    BY <1>0, LenProperties
  <2>2. SeqRange(rubric.required) \subseteq Nat
    BY <1>0, ElementOfSeq, LenProperties DEF SeqRange
  <2> QED BY <2>1, <2>2, CriteriaOf
<1>2. left \in [1..(n - 1) -> C] /\ n - 1 \in Nat
  <2>1. \A j \in 1..(n - 1) : j \in 1..n /\ j + 1 \in 1..n
    BY <1>1
  <2>2. n - 1 \in Nat
    BY <1>1
  <2> QED BY <1>1, <2>1, <2>2 DEF RemoveAt
<1>3. left \in Seq(C) /\ Len(left) = n - 1
  <2> HIDE DEF left, n
  <2>1. left \in Seq(C)
    BY <1>2, SeqDef
  <2> QED BY <1>2, <2>1, LenProperties
<1>4. Without(rubric.required, x) \in Seq(ids) /\ Without(rubric.required, x) \in Seq(Nat)
  <2>1. Without(rubric.required, x) \in Seq(ids)
    BY <1>1, WithoutElements
  <2>2. ids \subseteq Nat
    BY <1>1
  <2> HIDE DEF ids, x
  <2> QED BY <2>1, <2>2, SeqMonotonic
<1>5. /\ new \in AuthoredRubrics /\ new.criteria = left /\ new.required = Without(rubric.required, x)
  BY <1>3, <1>4 DEF RemoveCriterion, AuthoredRubrics, C
<1>6. ASSUME NEW y \in ids
      PROVE  \E j \in 1..(n - 1) : left[j].id = y
  <2>1. PICK j \in 1..n : rubric.criteria[j].id = y
    BY CriteriaOf DEF Sound
  <2>2. j # i
    BY <2>1
  <2> DEFINE k == IF j < i THEN j ELSE j - 1
  <2>3. k \in 1..(n - 1) /\ left[k] = rubric.criteria[j]
    BY <1>1, <2>2 DEF RemoveAt
  <2> HIDE DEF k, left
  <2> QED BY <2>1, <2>3
<1> HIDE DEF ids, left, x, n, new
<1>7. Sound(new)
  <2>1. \A y \in ids : \E j \in 1..Len(new.criteria) : new.criteria[j].id = y
    BY <1>3, <1>5, <1>6
  <2> QED BY <1>4, <1>5, <2>1, SoundFrom
<1> QED BY <1>5, <1>7 DEF new

LEMMA DescribedCriterion ==
    ASSUME NEW rubric \in AuthoredRubrics, Sound(rubric), NEW i \in DOMAIN rubric.criteria,
           NEW text \in BOOLEAN
    PROVE  /\ DescribeCriterion(rubric, i, text) \in AuthoredRubrics
           /\ Sound(DescribeCriterion(rubric, i, text))
<1> DEFINE n == Len(rubric.criteria)
           new == DescribeCriterion(rubric, i, text)
           C == [id : Nat, described : BOOLEAN]
           c == [rubric.criteria[i] EXCEPT !.described = text]
           criteria == [rubric.criteria EXCEPT ![i] = c]
<1>1. rubric.criteria \in [1..n -> C] /\ n \in Nat /\ i \in 1..n
  BY CriteriaOf, LenProperties DEF AuthoredRubrics
<1>2. c \in C /\ c.id = rubric.criteria[i].id
  BY <1>1
<1> HIDE DEF c, C
<1>3. criteria \in [1..n -> C] /\ \A j \in 1..n : criteria[j].id = rubric.criteria[j].id
  BY <1>1, <1>2
<1>4. criteria \in Seq(C) /\ Len(criteria) = n
  <2> HIDE DEF criteria, n
  <2>1. criteria \in Seq(C)
    BY <1>1, <1>3, SeqDef
  <2> QED BY <1>1, <1>3, <2>1, LenProperties
<1>5. new = [rubric EXCEPT !.criteria = criteria]
  BY DEF DescribeCriterion, c
<1> HIDE DEF criteria, new
<1>6. new \in AuthoredRubrics /\ new.criteria = criteria /\ new.required = rubric.required
  BY <1>4, <1>5 DEF AuthoredRubrics, C
<1>7. SeqRange(CriterionIds(new)) = SeqRange(CriterionIds(rubric))
  <2>1. \A r \in AuthoredRubrics : SeqRange(CriterionIds(r)) = {r.criteria[j].id : j \in 1..Len(r.criteria)}
    BY CriteriaOf
  <2>2. SeqRange(CriterionIds(new)) = {criteria[j].id : j \in 1..n}
    BY <1>4, <1>6, <2>1
  <2>3. SeqRange(CriterionIds(rubric)) = {rubric.criteria[j].id : j \in 1..n}
    BY <2>1
  <2> QED BY <1>3, <2>2, <2>3
<1> QED BY <1>6, <1>7 DEF Sound, new

LEMMA EditedRubric ==
    ASSUME NEW rubric \in AuthoredRubrics, Sound(rubric), NEW new \in EditedRubrics(rubric)
    PROVE  new \in AuthoredRubrics /\ Sound(new)
<1>1. CASE \E text \in BOOLEAN : new = [rubric EXCEPT !.result = text]
  BY <1>1 DEF AuthoredRubrics, Sound, CriterionIds
<1>2. CASE \E text \in {"blank", "given"} : new = [rubric EXCEPT !.reference = text]
  BY <1>2 DEF AuthoredRubrics, Sound, CriterionIds
<1>3. CASE new = AddCriterion(rubric)
  BY <1>3, AddedCriterion
<1>4. CASE \E i \in DOMAIN rubric.criteria : new = RemoveCriterion(rubric, i)
  BY <1>4, RemovedCriterion
<1>5. CASE \E i \in DOMAIN rubric.criteria, text \in BOOLEAN : new = DescribeCriterion(rubric, i, text)
  BY <1>5, DescribedCriterion
<1> QED BY <1>1, <1>2, <1>3, <1>4, <1>5 DEF EditedRubrics

LEMMA NoRubricIsSound == NoRubric \in AuthoredRubrics /\ Sound(NoRubric)
<1>1. NoRubric \in AuthoredRubrics
  BY EmptySeq DEF NoRubric, AuthoredRubrics
<1>2. SeqRange(NoRubric.required) = {}
  BY DEF NoRubric, SeqRange
<1> QED BY <1>1, <1>2 DEF Sound

LEMMA EditedTask ==
    ASSUME NEW task, IsTask(task), NEW new \in EditedTasks(task)
    PROVE  IsTask(new)
<1>1. CASE \E text \in BOOLEAN : new = [task EXCEPT !.prompt = text]
  BY <1>1 DEF IsTask, Tasks
<1>2. CASE \E kind \in Kinds : new = InitialAnswer(task, kind)
  <2>1. PICK kind \in Kinds : new = InitialAnswer(task, kind)
    BY <1>2
  <2>2. kind \in AnswerKind
    BY AuthoringAssumption
  <2>3. new.rubric = NoRubric /\ new \in Tasks
    BY <2>1, <2>2, NoRubricIsSound DEF InitialAnswer, IsTask, Tasks
  <2> QED BY <2>3, NoRubricIsSound DEF IsTask
<1>3. CASE \E rubric \in EditedRubrics(task.rubric) : new = [task EXCEPT !.rubric = rubric]
  <2>1. PICK rubric \in EditedRubrics(task.rubric) : new = [task EXCEPT !.rubric = rubric]
    BY <1>3
  <2>2. rubric \in AuthoredRubrics /\ Sound(rubric)
    BY EditedRubric DEF IsTask, Tasks
  <2>3. new.rubric = rubric /\ new \in Tasks
    BY <2>1, <2>2 DEF IsTask, Tasks
  <2> QED BY <2>2, <2>3 DEF IsTask
<1> QED BY <1>1, <1>2, <1>3 DEF EditedTasks

LEMMA BlankTaskIsTask == IsTask(BlankTask)
<1>1. BlankTask \in Tasks /\ BlankTask.rubric = NoRubric
  BY NoRubricIsSound DEF BlankTask, Tasks, AnswerKind
<1> QED BY <1>1, NoRubricIsSound DEF IsTask

-----------------------------------------------------------------------------
(* Pairs. *)

\* What used to hold of the pairs, and of the requests that may have made them, still does.
LEMMA MoreUsed ==
    ASSUME NEW used, NEW used2, used \subseteq used2, NEW r, NEW node, Body(used, r, node)
    PROVE  Body(used2, r, node)
  BY DEF Body, ArePairs, IsPair

LEMMA PairsRemove ==
    ASSUME NEW used, NEW r, NEW skill, NEW s, ArePairs(used, r, skill, s), NEW i \in DOMAIN s
    PROVE  ArePairs(used, r, skill, RemoveAt(s, i))
<1> DEFINE t == RemoveAt(s, i)
           n == Len(s) - 1
           from(j) == IF j < i THEN j ELSE j + 1
<1>1. Len(s) \in Nat /\ DOMAIN s = 1..Len(s) /\ i \in 1..Len(s)
  BY ElementsMakeSeq DEF ArePairs
<1>2. n \in Nat /\ DOMAIN t = 1..n /\ t = [j \in 1..n |-> t[j]]
  BY <1>1 DEF RemoveAt
<1>3. \A j \in 1..n : from(j) \in 1..Len(s) /\ t[j] = s[from(j)]
  BY <1>1 DEF RemoveAt
<1>4. \A j, k \in 1..n : from(j) = from(k) => j = k
  BY <1>1
<1> HIDE DEF t, from, n
<1>5. t \in Seq(SeqRange(t)) /\ Len(t) = n
  BY <1>2, ListIsSeq
<1>6. \A j \in 1..n : IsPair(used, r, skill, t[j])
  BY <1>3 DEF ArePairs
<1>7. \A j, k \in 1..n : t[j].id = t[k].id => j = k
  BY <1>3, <1>4 DEF ArePairs
<1>8. ArePairs(used, r, skill, t)
  BY <1>5, <1>6, <1>7 DEF ArePairs
<1> QED BY <1>8 DEF t

LEMMA PairsSwap ==
    ASSUME NEW used, NEW r, NEW skill, NEW s, ArePairs(used, r, skill, s), NEW i \in 1..(Len(s) - 1)
    PROVE  ArePairs(used, r, skill, [s EXCEPT ![i] = s[i + 1], ![i + 1] = s[i]])
<1> DEFINE t == [s EXCEPT ![i] = s[i + 1], ![i + 1] = s[i]]
           n == Len(s)
           from(j) == IF j = i THEN i + 1 ELSE IF j = i + 1 THEN i ELSE j
<1>1. n \in Nat /\ DOMAIN s = 1..n /\ i \in 1..n /\ i + 1 \in 1..n
  BY ElementsMakeSeq DEF ArePairs
<1>2. DOMAIN t = 1..n /\ t = [j \in 1..n |-> t[j]]
  BY <1>1
<1>3. \A j \in 1..n : from(j) \in 1..n /\ t[j] = s[from(j)]
  BY <1>1
<1>4. \A j, k \in 1..n : from(j) = from(k) => j = k
  BY <1>1
<1> HIDE DEF t, from
<1>5. t \in Seq(SeqRange(t)) /\ Len(t) = n
  BY <1>1, <1>2, ListIsSeq
<1>6. \A j \in 1..n : IsPair(used, r, skill, t[j])
  BY <1>3 DEF ArePairs
<1>7. \A j, k \in 1..n : t[j].id = t[k].id => j = k
  <2> SUFFICES ASSUME NEW j \in 1..n, NEW k \in 1..n, t[j].id = t[k].id
               PROVE  j = k
    OBVIOUS
  <2>1. s[from(j)].id = s[from(k)].id /\ from(j) \in 1..n /\ from(k) \in 1..n
    BY <1>3
  <2>2. from(j) = from(k)
    BY <2>1 DEF ArePairs
  <2> QED BY <2>2, <1>4
<1>8. ArePairs(used, r, skill, t)
  BY <1>5, <1>6, <1>7 DEF ArePairs
<1> QED BY <1>8 DEF t

LEMMA PairsReplace ==
    ASSUME NEW used, NEW r, NEW skill, NEW s, ArePairs(used, r, skill, s), NEW i \in DOMAIN s,
           NEW pair, IsPair(used, r, skill, pair), pair.id = s[i].id
    PROVE  ArePairs(used, r, skill, [s EXCEPT ![i] = pair])
<1> DEFINE t == [s EXCEPT ![i] = pair]
           n == Len(s)
<1>1. n \in Nat /\ DOMAIN s = 1..n
  BY ElementsMakeSeq DEF ArePairs
<1>2. DOMAIN t = 1..n /\ t = [j \in 1..n |-> t[j]]
  BY <1>1
<1>3. \A j \in 1..n : t[j] = (IF j = i THEN pair ELSE s[j]) /\ t[j].id = s[j].id
  BY <1>1
<1> HIDE DEF t
<1>5. t \in Seq(SeqRange(t)) /\ Len(t) = n
  BY <1>1, <1>2, ListIsSeq
<1>6. ArePairs(used, r, skill, t)
  BY <1>3, <1>5 DEF ArePairs
<1> QED BY <1>6 DEF t

LEMMA PairsAppend ==
    ASSUME NEW used, NEW r, NEW skill, NEW s, ArePairs(used, r, skill, s), NEW q \in Requests,
           q \notin used, NEW pair, IsPair(used \cup {q}, r, skill, pair), pair.id = q
    PROVE  ArePairs(used \cup {q}, r, skill, Append(s, pair))
<1> DEFINE t == Append(s, pair)
           n == Len(s)
           T == SeqRange(s) \cup {pair}
<1>1. n \in Nat /\ s \in Seq(T) /\ pair \in T
  BY ElementsMakeSeq, SeqMonotonic DEF ArePairs
<1>2. /\ t \in Seq(T) /\ Len(t) = n + 1
      /\ \A j \in 1..n : t[j] = s[j]
      /\ t[n + 1] = pair
  BY <1>1, AppendProperties
<1>3. DOMAIN t = 1..(n + 1) /\ t = [j \in 1..(n + 1) |-> t[j]]
  BY <1>2, LenProperties
<1>4. \A j \in 1..n : s[j].id # q /\ IsPair(used \cup {q}, r, skill, s[j])
  BY DEF ArePairs, IsPair
<1>5. \A j \in 1..(n + 1) : j = n + 1 \/ j \in 1..n
  BY <1>1
<1> HIDE DEF t, n
<1>6. t \in Seq(SeqRange(t)) /\ Len(t) = n + 1
  BY <1>1, <1>3, ListIsSeq
<1>7. \A j \in 1..(n + 1) : IsPair(used \cup {q}, r, skill, t[j])
  BY <1>2, <1>4, <1>5
<1>8. \A j, k \in 1..(n + 1) : t[j].id = t[k].id => j = k
  BY <1>2, <1>4, <1>5 DEF ArePairs, n
<1>9. ArePairs(used \cup {q}, r, skill, t)
  BY <1>6, <1>7, <1>8 DEF ArePairs
<1> QED BY <1>9 DEF t

LEMMA PairsRename ==
    ASSUME NEW used, NEW r, NEW skill, NEW s, ArePairs(used, r, skill, s),
           NEW r2 \in Revisions
    PROVE  ArePairs(used, r2, skill, [i \in DOMAIN s |-> [s[i] EXCEPT !.rev = r2]])
<1> DEFINE t == [i \in DOMAIN s |-> [s[i] EXCEPT !.rev = r2]]
           n == Len(s)
<1>1. n \in Nat /\ DOMAIN s = 1..n
  BY ElementsMakeSeq DEF ArePairs
<1>2. DOMAIN t = 1..n /\ t = [j \in 1..n |-> t[j]]
  BY <1>1
<1>3. \A j \in 1..n : t[j] = [s[j] EXCEPT !.rev = r2]
  BY <1>1
<1>4. ASSUME NEW j \in 1..n
      PROVE  IsPair(used, r2, skill, t[j]) /\ t[j].id = s[j].id
  <2>1. IsPair(used, r, skill, s[j])
    BY DEF ArePairs
  <2>2. s[j] \in Pairs /\ t[j] = [s[j] EXCEPT !.rev = r2]
    BY <1>3, <2>1 DEF IsPair
  <2> HIDE DEF t
  <2>3. /\ t[j] \in Pairs /\ t[j].rev = r2 /\ t[j].id = s[j].id /\ t[j].skill = s[j].skill
        /\ t[j].practice = s[j].practice /\ t[j].transfer = s[j].transfer
    BY <2>2 DEF Pairs
  <2> QED BY <2>1, <2>3 DEF IsPair
<1> HIDE DEF t
<1>5. t \in Seq(SeqRange(t)) /\ Len(t) = n
  BY <1>1, <1>2, ListIsSeq
<1>6. ArePairs(used, r2, skill, t)
  BY <1>4, <1>5 DEF ArePairs
<1> QED BY <1>6 DEF t

LEMMA NoPairs ==
    ASSUME NEW used, NEW r, NEW skill
    PROVE  ArePairs(used, r, skill, <<>>)
  BY EmptySeq DEF ArePairs

-----------------------------------------------------------------------------
(* Bodies. *)

\* A body whose fields other than these three are changed is a body.
LEMMA SameBody ==
    ASSUME NEW used, NEW r, NEW node, Body(used, r, node), NEW new \in Bodies,
           new.rev = node.rev, new.skill = node.skill, new.pairs = node.pairs
    PROVE  Body(used, r, new)
  BY DEF Body

LEMMA BodyWithPairs ==
    ASSUME NEW used, NEW used2, NEW r, NEW node, Body(used, r, node), NEW s,
           ArePairs(used2, r, node.skill, s)
    PROVE  Body(used2, r, [node EXCEPT !.pairs = s])
<1> DEFINE new == [node EXCEPT !.pairs = s]
<1>1. s \in Seq(Pairs)
  <2>1. s \in [1..Len(s) -> Pairs] /\ Len(s) \in Nat
    BY ElementsMakeSeq DEF ArePairs, IsPair
  <2> QED BY <2>1, SeqDef
<1>2. new \in Bodies /\ new.pairs = s /\ new.rev = node.rev /\ new.skill = node.skill
  BY <1>1 DEF Body, Bodies
<1> QED BY <1>2 DEF Body

\* What the editor makes of a pair is that pair.
LEMMA EditedPair ==
    ASSUME NEW used, NEW r, NEW skill, NEW pair, IsPair(used, r, skill, pair),
           NEW new \in EditedPairs(pair)
    PROVE  IsPair(used, r, skill, new) /\ new.id = pair.id
<1>1. CASE \E task \in EditedTasks(pair.practice) : new = [pair EXCEPT !.practice = task]
  <2>1. PICK task \in EditedTasks(pair.practice) : new = [pair EXCEPT !.practice = task]
    BY <1>1
  <2>2. IsTask(task) /\ task \in Tasks
    BY EditedTask DEF IsPair, IsTask
  <2> QED BY <2>1, <2>2 DEF IsPair, Pairs
<1>2. CASE \E task \in EditedTasks(pair.transfer) : new = [pair EXCEPT !.transfer = task]
  <2>1. PICK task \in EditedTasks(pair.transfer) : new = [pair EXCEPT !.transfer = task]
    BY <1>2
  <2>2. IsTask(task) /\ task \in Tasks
    BY EditedTask DEF IsPair, IsTask
  <2> QED BY <2>1, <2>2 DEF IsPair, Pairs
<1> QED BY <1>1, <1>2 DEF EditedPairs

\* What the editor makes of a body is a body.
LEMMA EditedBody ==
    ASSUME NEW used, NEW r, NEW node, Body(used, r, node), NEW new \in EditedNodes(node)
    PROVE  Body(used, r, new)
<1>1. ArePairs(used, r, node.skill, node.pairs) /\ node \in Bodies
  BY DEF Body
<1>2. CASE new \in Relabelled(node)
  <2>1. \A x \in Subjects, label \in Labels : [x EXCEPT !.label = label] \in Subjects
    BY DEF Subjects
  <2>2. \/ \E x \in Subjects : new = [node EXCEPT !.subject = x]
        \/ \E x \in Subjects : new = [node EXCEPT !.topic = x]
        \/ \E x \in Labels : new = [node EXCEPT !.title = x]
    BY <1>1, <1>2, <2>1 DEF Relabelled, Bodies
  <2>3. new \in Bodies /\ new.rev = node.rev /\ new.skill = node.skill /\ new.pairs = node.pairs
    BY <1>1, <2>2 DEF Bodies
  <2> QED BY <2>3, SameBody
<1>3. CASE new \in Regated(node)
  <2>1. \E x \in [required : Nat, max : Nat] : new = [node EXCEPT !.gate = x]
    BY <1>1, <1>3, AuthoringAssumption DEF Regated, Bodies
  <2>2. new \in Bodies /\ new.rev = node.rev /\ new.skill = node.skill /\ new.pairs = node.pairs
    BY <1>1, <2>1 DEF Bodies
  <2> QED BY <2>2, SameBody
<1>4. CASE \E i \in DOMAIN node.pairs : new = RemovePair(node, i)
  BY <1>1, <1>4, PairsRemove, BodyWithPairs DEF RemovePair
<1>5. CASE \E i \in 1..(Len(node.pairs) - 1) : new = MovePairDown(node, i)
  <2>1. PICK i \in 1..(Len(node.pairs) - 1) : new = MovePairDown(node, i)
    BY <1>5
  <2> DEFINE s == [node.pairs EXCEPT ![i] = node.pairs[i + 1], ![i + 1] = node.pairs[i]]
  <2>2. ArePairs(used, r, node.skill, s)
    BY <1>1, PairsSwap
  <2>3. new = [node EXCEPT !.pairs = s]
    BY <2>1 DEF MovePairDown
  <2> HIDE DEF s
  <2> QED BY <2>2, <2>3, BodyWithPairs
<1>6. CASE \E i \in DOMAIN node.pairs : \E pair \in EditedPairs(node.pairs[i]) :
              new = [node EXCEPT !.pairs[i] = pair]
  <2>0. PICK i \in DOMAIN node.pairs : \E pair \in EditedPairs(node.pairs[i]) :
              new = [node EXCEPT !.pairs[i] = pair]
    BY <1>6
  <2>1. PICK pair \in EditedPairs(node.pairs[i]) :
              new = [node EXCEPT !.pairs = [node.pairs EXCEPT ![i] = pair]]
    BY <2>0
  <2>2. IsPair(used, r, node.skill, node.pairs[i])
    BY <1>1, ElementsMakeSeq DEF ArePairs
  <2>3. ArePairs(used, r, node.skill, [node.pairs EXCEPT ![i] = pair])
    BY <1>1, <2>2, EditedPair, PairsReplace
  <2> QED BY <2>1, <2>3, BodyWithPairs
<1> QED BY <1>2, <1>3, <1>4, <1>5, <1>6 DEF EditedNodes

LEMMA NextDraftBody ==
    ASSUME NEW used, NEW r, NEW node, Body(used, r, node), NEW r2 \in Revisions
    PROVE  Body(used, r2, NextDraft(r2, node))
<1> DEFINE s == [i \in DOMAIN node.pairs |-> [node.pairs[i] EXCEPT !.rev = r2]]
<1>1. ArePairs(used, r2, node.skill, s)
  BY PairsRename DEF Body
<1> HIDE DEF s
<1>2. NextDraft(r2, node) = [[node EXCEPT !.rev = r2] EXCEPT !.pairs = s]
  BY DEF NextDraft, s
<1> DEFINE named == [node EXCEPT !.rev = r2]
<1>3. named \in Bodies /\ named.rev = r2 /\ named.skill = node.skill
  BY DEF Body, Bodies
<1>4. s \in Seq(Pairs)
  <2>1. s \in [1..Len(s) -> Pairs] /\ Len(s) \in Nat
    BY <1>1, ElementsMakeSeq DEF ArePairs, IsPair
  <2> QED BY <2>1, SeqDef
<1> HIDE DEF named
<1> DEFINE new == [named EXCEPT !.pairs = s]
<1>5. new \in Bodies /\ new.rev = r2 /\ new.skill = node.skill /\ new.pairs = s
  BY <1>3, <1>4 DEF Bodies
<1>6. NextDraft(r2, node) = new
  BY <1>2 DEF named
<1> QED BY <1>1, <1>5, <1>6 DEF Body

\* The pair a request adds is one of the pairs it makes.
LEMMA BlankPairBody ==
    ASSUME NEW used, NEW r, NEW node, Body(used, r, node), NEW q \in Requests, q \notin used
    PROVE  Body(used \cup {q}, r, [node EXCEPT !.pairs = Append(@, BlankPair(r, node, q))])
<1>1. IsPair(used \cup {q}, r, node.skill, BlankPair(r, node, q)) /\ BlankPair(r, node, q).id = q
  <2>1. BlankPair(r, node, q) \in Pairs
    BY BlankTaskIsTask DEF BlankPair, Pairs, PairIds, IsTask, Body, Bodies
  <2> QED BY <2>1, BlankTaskIsTask DEF IsPair, BlankPair
<1>2. ArePairs(used \cup {q}, r, node.skill, Append(node.pairs, BlankPair(r, node, q)))
  BY <1>1, PairsAppend DEF Body
<1> QED BY <1>2, BodyWithPairs

LEMMA InitialBody ==
    ASSUME NEW used, NEW r \in Revisions,
           NEW subject \in Subjects, NEW topic \in Subjects, NEW title \in Labels
    PROVE  Body(used, r, InitialNode(r, subject, topic, title))
<1>1. ArePairs(used, r, r, <<>>)
  BY NoPairs
<1>2. InitialNode(r, subject, topic, title) \in Bodies
  BY EmptySeq DEF InitialNode, Bodies
<1> QED BY <1>1, <1>2 DEF Body, InitialNode

LEMMA CatalogueBody ==
    ASSUME NEW used, NEW r, NEW node, IsBody(r, node)
    PROVE  Body(used, r, node)
<1>1. /\ node.pairs \in [1..Len(node.pairs) -> Pairs] /\ Len(node.pairs) \in Nat
      /\ DOMAIN node.pairs = 1..Len(node.pairs)
  BY LenProperties DEF IsBody, Bodies
<1>2. node.pairs \in [1..Len(node.pairs) -> SeqRange(node.pairs)]
  BY <1>1 DEF SeqRange
<1>3. node.pairs \in Seq(SeqRange(node.pairs))
  BY <1>1, <1>2, SeqDef
<1>4. ASSUME NEW i \in 1..Len(node.pairs)
      PROVE  IsPair(used, r, node.skill, node.pairs[i])
  <2>1. node.pairs[i] \in SeqRange(node.pairs) /\ node.pairs[i] \in Pairs
    BY <1>1, <1>2
  <2>2. node.pairs[i].practice \in Tasks /\ node.pairs[i].transfer \in Tasks
    BY <2>1 DEF Pairs
  <2> QED BY <2>1, <2>2 DEF IsBody, IsPair, IsTask, Sound, RevisionBound
<1>5. \A i, j \in 1..Len(node.pairs) : node.pairs[i].id = node.pairs[j].id => i = j
  BY <1>1 DEF IsBody, IsUnique
<1> QED BY <1>3, <1>4, <1>5 DEF IsBody, Body, ArePairs, RevisionBound

\* The requirements the store has of its rows (RowsAreCoherent), from Body.
LEMMA BodyIsCoherent ==
    ASSUME NEW used, NEW r, NEW node, Body(used, r, node)
    PROVE  /\ RevisionBound(r, node)
           /\ \A pair \in SeqRange(node.pairs) : pair.skill = node.skill
           /\ IsUnique([i \in DOMAIN node.pairs |-> node.pairs[i].id])
<1>1. Len(node.pairs) \in Nat /\ DOMAIN node.pairs = 1..Len(node.pairs)
  BY ElementsMakeSeq DEF Body, ArePairs
<1>2. \A pair \in SeqRange(node.pairs) : IsPair(used, r, node.skill, pair)
  BY <1>1 DEF SeqRange, Body, ArePairs
<1>3. IsUnique([i \in DOMAIN node.pairs |-> node.pairs[i].id])
  BY <1>1 DEF Body, ArePairs, IsUnique
<1> QED BY <1>2, <1>3 DEF Body, RevisionBound, IsPair

(***************************************************************************)
(* The store, and what its rows may become.                                *)
(***************************************************************************)
Public == {"PUBLISHED", "DEPRECATED"}

Reviewed == {"APPROVED", "PUBLISHED", "DEPRECATED"}

RowsFine(t, used) == \A r \in DOMAIN t :
    /\ r \in Revisions
    /\ {"life", "body"} \subseteq DOMAIN t[r]
    /\ t[r].life \in Lifecycle
    /\ Body(used, r, t[r].body)
    /\ t[r].life \in Public => ValidatePublishableContent(t[r].body)

\* Rows are not deleted, what review froze keeps its words, and what is public stays so.
Onward(t, t2) == \A r \in DOMAIN t :
    /\ r \in DOMAIN t2
    /\ t[r].life # "DRAFT" => t2[r].life # "DRAFT" /\ t2[r].body = t[r].body
    /\ t[r].life \in Public => t2[r].life \in Public

\* Nothing is published that was not public.
NonePublished(t, t2) == \A r \in DOMAIN t2 : t2[r].life \in Public =>
    r \in DOMAIN t /\ t[r].life \in Public /\ t2[r].body = t[r].body

Rewritten(t, r, node) == [t EXCEPT ![r] = Row("DRAFT", node)]

Created(t, r, node) == Upsert(t, r, Row("DRAFT", node))

Stepped(t, r, step) == [t EXCEPT ![r].life = After[step]]

ApprovedFine(t, history) ==
    \A r \in DOMAIN t : t[r].life \in Reviewed => history[r] = t[r].body

NoneReviewed(t, t2) == \A r \in DOMAIN t2 : t2[r].life \in Reviewed =>
    r \in DOMAIN t /\ t[r].life \in Reviewed /\ t2[r].body = t[r].body

LEMMA ApprovalsKept ==
    ASSUME NEW t, NEW t2, NoneReviewed(t, t2), NEW history, ApprovedFine(t, history)
    PROVE  ApprovedFine(t2, history)
  BY DEF NoneReviewed, ApprovedFine

\* A draft is rewritten.
LEMMA RowWritten ==
    ASSUME NEW t, NEW used, RowsFine(t, used),
           NEW r \in DOMAIN t, t[r].life = "DRAFT", NEW node, Body(used, r, node),
           NEW t2, t2 = Rewritten(t, r, node)
    PROVE  /\ RowsFine(t2, used) /\ Onward(t, t2) /\ NonePublished(t, t2)
           /\ NoneReviewed(t, t2) /\ DOMAIN t2 = DOMAIN t
<1>1. /\ DOMAIN t2 = DOMAIN t
      /\ \A x \in DOMAIN t : x # r => t2[x] = t[x]
      /\ t2[r].life = "DRAFT" /\ t2[r].body = node /\ {"life", "body"} \subseteq DOMAIN t2[r]
  BY DEF Rewritten, Row
<1>2. RowsFine(t2, used)
  BY <1>1 DEF RowsFine, Lifecycle, Public
<1>3. Onward(t, t2) /\ NonePublished(t, t2)
  BY <1>1 DEF Onward, NonePublished, Public
<1>4. NoneReviewed(t, t2)
  BY <1>1 DEF NoneReviewed, Reviewed
<1> QED BY <1>1, <1>2, <1>3, <1>4

\* A draft is inserted.
LEMMA RowCreated ==
    ASSUME NEW t, NEW used, RowsFine(t, used),
           NEW r \in Revisions, r \notin DOMAIN t, NEW node, Body(used, r, node),
           NEW t2, t2 = Created(t, r, node)
    PROVE  /\ RowsFine(t2, used) /\ Onward(t, t2) /\ NonePublished(t, t2)
           /\ NoneReviewed(t, t2) /\ DOMAIN t2 = DOMAIN t \cup {r}
<1>1. /\ DOMAIN t2 = DOMAIN t \cup {r}
      /\ \A x \in DOMAIN t : t2[x] = t[x]
      /\ t2[r].life = "DRAFT" /\ t2[r].body = node /\ {"life", "body"} \subseteq DOMAIN t2[r]
  BY DEF Row, Upsert, Created
<1>2. RowsFine(t2, used)
  BY <1>1 DEF RowsFine, Lifecycle, Public
<1>3. Onward(t, t2) /\ NonePublished(t, t2)
  BY <1>1 DEF Onward, NonePublished, Public
<1>4. NoneReviewed(t, t2)
  BY <1>1 DEF NoneReviewed, Reviewed
<1> QED BY <1>1, <1>2, <1>3, <1>4

\* A revision takes a step of its lifecycle.
LEMMA RowStepped ==
    ASSUME NEW t, NEW used, RowsFine(t, used),
           NEW r \in DOMAIN t, NEW step \in Transitions, t[r].life = Before[step],
           step = "publish" => ValidatePublishableContent(t[r].body),
           NEW t2, t2 = Stepped(t, r, step)
    PROVE  /\ RowsFine(t2, used) /\ Onward(t, t2)
           /\ DOMAIN t2 = DOMAIN t
           /\ t2[r].life = After[step] /\ t2[r].body = t[r].body
           /\ step # "publish" => NonePublished(t, t2)
           /\ \A x \in DOMAIN t : x # r => t2[x] = t[x]
           /\ step # "approve" => NoneReviewed(t, t2)
<1>1. /\ DOMAIN t2 = DOMAIN t
      /\ \A x \in DOMAIN t : x # r => t2[x] = t[x]
      /\ t2[r].life = After[step] /\ t2[r].body = t[r].body
      /\ {"life", "body"} \subseteq DOMAIN t2[r]
  BY DEF RowsFine, Stepped
<1>2. /\ After[step] \in Lifecycle /\ After[step] # "DRAFT" /\ Before[step] # "DEPRECATED"
      /\ Before[step] \in Public => After[step] \in Public
      /\ After[step] \in Public => step = "publish" \/ Before[step] \in Public
      /\ After[step] \in Reviewed => step = "approve" \/ Before[step] \in Reviewed
  BY DEF Transitions, Before, After, Lifecycle, Public, Reviewed
<1>3. RowsFine(t2, used)
  BY <1>1, <1>2 DEF RowsFine
<1>4. Onward(t, t2)
  BY <1>1, <1>2 DEF Onward
<1>5. step # "publish" => NonePublished(t, t2)
  BY <1>1, <1>2 DEF NonePublished
<1>6. step # "approve" => NoneReviewed(t, t2)
  BY <1>1, <1>2 DEF NoneReviewed
<1> QED BY <1>1, <1>3, <1>4, <1>5, <1>6

LEMMA RowsKept ==
    ASSUME NEW t, NEW used, NEW used2, used \subseteq used2, RowsFine(t, used)
    PROVE  RowsFine(t, used2) /\ Onward(t, t) /\ NonePublished(t, t)
  BY MoreUsed DEF RowsFine, Onward, NonePublished

(***************************************************************************)
(* Requests and pages.                                                     *)
(***************************************************************************)
Frozen(t, r, node) == r \in DOMAIN t /\ t[r].life # "DRAFT" /\ t[r].body = node

Requesting == {"save", "pairs", "next", "create"} \cup Transitions

RequestFields == {"by", "op", "rev", "node", "then", "at", "awaited"}

IsRequest(req) ==
    /\ RequestFields \subseteq DOMAIN req
    /\ req.by \in Consoles
    /\ req.op \in Requesting
    /\ req.at \in Stages
    /\ req.then # "none" => req.op = "save" /\ req.then \in {"pairs", "review"}

\* The request holds a new revision it has not inserted yet.
Drawn(req) == req.op \in {"next", "create"} /\ req.at = "read"

Between(req) == req.op = "publish" /\ req.at = "between"

\* What a request at each of its places knows of the store.
RequestFine(t, used, req) ==
    /\ IsRequest(req)
    /\ req.op \in {"save", "pairs"} \cup Transitions => req.rev \in DOMAIN t
    /\ req.op = "next" /\ req.at = "sent" => req.rev \in DOMAIN t
    /\ req.op = "create" /\ req.at = "sent" => req.node \in Forms
    /\ Drawn(req) => req.rev \in Revisions /\ Body(used, req.rev, req.node)
    /\ req.op = "save" => Body(used, req.rev, req.node)
    /\ req.op = "pairs" /\ req.at \in {"read", "done"} => Body(used, req.rev, req.node)
    /\ req.op \in {"next", "create"} /\ req.at = "done" =>
           req.rev \in DOMAIN t /\ Body(used, req.rev, req.node)
    /\ req.op \in Transitions /\ req.at \in {"between", "done"} => Frozen(t, req.rev, req.node)
    /\ req.op = "approve" /\ req.at = "sent" => Frozen(t, req.rev, req.node)
    /\ Between(req) => t[req.rev].life \in Public

\* A copy of revision r, possibly old: review makes it exact.
IsCopy(t, used, r, life, node) ==
    /\ r \in DOMAIN t
    /\ Body(used, r, node)
    /\ life # "DRAFT" => Frozen(t, r, node)

PageFine(t, used, p) ==
    /\ {"sel", "life", "draft", "dirty", "saving", "error", "creating"} \subseteq DOMAIN p
    /\ p.sel # None => IsCopy(t, used, p.sel, p.life, p.draft)
    /\ p.sel = None => p.draft = None
    /\ p.creating => p.sel = None

ListFine(t, used, list) ==
    \A r \in DOMAIN list : IsCopy(t, used, r, list[r].life, list[r].body)

LEMMA FrozenOnward ==
    ASSUME NEW t, NEW t2, Onward(t, t2), NEW r, NEW node, Frozen(t, r, node)
    PROVE  Frozen(t2, r, node)
  BY DEF Frozen, Onward

LEMMA CopyOnward ==
    ASSUME NEW t, NEW t2, Onward(t, t2), NEW used, NEW used2, used \subseteq used2,
           NEW r, NEW life, NEW node, IsCopy(t, used, r, life, node)
    PROVE  IsCopy(t2, used2, r, life, node)
  BY FrozenOnward, MoreUsed DEF IsCopy, Onward

LEMMA PageOnward ==
    ASSUME NEW t, NEW t2, Onward(t, t2), NEW used, NEW used2, used \subseteq used2,
           NEW p, PageFine(t, used, p)
    PROVE  PageFine(t2, used2, p)
  BY CopyOnward DEF PageFine

LEMMA ListOnward ==
    ASSUME NEW t, NEW t2, Onward(t, t2), NEW used, NEW used2, used \subseteq used2,
           NEW list, ListFine(t, used, list)
    PROVE  ListFine(t2, used2, list)
  BY CopyOnward DEF ListFine

LEMMA RequestOnward ==
    ASSUME NEW t, NEW t2, Onward(t, t2), NEW used, NEW used2, used \subseteq used2,
           NEW req, RequestFine(t, used, req)
    PROVE  RequestFine(t2, used2, req)
<1>1. \A r \in DOMAIN t : r \in DOMAIN t2
  BY DEF Onward
<1>2. Body(used, req.rev, req.node) => Body(used2, req.rev, req.node)
  BY MoreUsed
<1>3. Frozen(t, req.rev, req.node) => Frozen(t2, req.rev, req.node)
  BY FrozenOnward
<1>4. Between(req) => t2[req.rev].life \in Public
  <2>1. Between(req) => req.rev \in DOMAIN t /\ t[req.rev].life \in Public
    BY DEF Between, RequestFine, Frozen, Transitions
  <2> QED BY <2>1 DEF Onward
<1> QED BY <1>1, <1>2, <1>3, <1>4 DEF RequestFine

\* The store's list is a list of exact copies.
LEMMA StoreIsList ==
    ASSUME NEW t, NEW used, RowsFine(t, used)
    PROVE  ListFine(t, used, t)
  BY DEF ListFine, RowsFine, IsCopy, Frozen

\* Only the request's place and what its page waits for change.
LEMMA StageFields ==
    ASSUME NEW req, IsRequest(req), NEW stage \in Stages
    PROVE  /\ IsRequest([req EXCEPT !.at = stage])
           /\ [req EXCEPT !.at = stage].at = stage
           /\ [req EXCEPT !.at = stage].op = req.op
           /\ [req EXCEPT !.at = stage].rev = req.rev
           /\ [req EXCEPT !.at = stage].node = req.node
           /\ [req EXCEPT !.at = stage].then = req.then
  BY DEF IsRequest, RequestFields

\* What GoesWith makes of a request.
With(req, stage, r, node) == [req EXCEPT !.at = stage, !.rev = r, !.node = node]

LEMMA WithFields ==
    ASSUME NEW req, IsRequest(req), NEW stage \in Stages, NEW r, NEW node,
           NEW new, new = With(req, stage, r, node)
    PROVE  /\ IsRequest(new) /\ new.at = stage /\ new.op = req.op
           /\ new.rev = r /\ new.node = node /\ new.then = req.then
<1> DEFINE a == [req EXCEPT !.at = stage]
           b == [a EXCEPT !.rev = r]
<1>1. DOMAIN a = DOMAIN req /\ a.at = stage /\ \A f \in DOMAIN req : f # "at" => a[f] = req[f]
  BY DEF IsRequest, RequestFields
<1>2. new = [b EXCEPT !.node = node]
  BY DEF With
<1> HIDE DEF a
<1>3. DOMAIN b = DOMAIN req /\ b.rev = r /\ b.at = stage
      /\ \A f \in DOMAIN req : f # "at" /\ f # "rev" => b[f] = req[f]
  BY <1>1 DEF IsRequest, RequestFields
<1> HIDE DEF b
<1>4. /\ DOMAIN new = DOMAIN req /\ new.node = node /\ new.rev = r /\ new.at = stage
      /\ \A f \in DOMAIN req : f # "at" /\ f # "rev" /\ f # "node" => new[f] = req[f]
  BY <1>2, <1>3 DEF IsRequest, RequestFields
<1> QED BY <1>4 DEF IsRequest, RequestFields

LEMMA LeftFields ==
    ASSUME NEW req, IsRequest(req),
           NEW new, new = [req EXCEPT !.awaited = FALSE, !.then = "none"]
    PROVE  /\ IsRequest(new) /\ new.at = req.at /\ new.op = req.op
           /\ new.rev = req.rev /\ new.node = req.node
<1> DEFINE a == [req EXCEPT !.awaited = FALSE]
<1>1. DOMAIN a = DOMAIN req /\ \A f \in DOMAIN req : f # "awaited" => a[f] = req[f]
  BY DEF IsRequest, RequestFields
<1>2. new = [a EXCEPT !.then = "none"]
  OBVIOUS
<1> HIDE DEF a
<1>3. /\ DOMAIN new = DOMAIN req /\ new.then = "none"
      /\ \A f \in DOMAIN req : f # "awaited" /\ f # "then" => new[f] = req[f]
  BY <1>1, <1>2 DEF IsRequest, RequestFields
<1> QED BY <1>3 DEF IsRequest, RequestFields

\* A request that fails or is left knows no more than before.
LEMMA FailedFine ==
    ASSUME NEW t, NEW used, NEW req, RequestFine(t, used, req), NEW stage \in {"refused", "dead"}
    PROVE  RequestFine(t, used, [req EXCEPT !.at = stage])
<1> DEFINE new == [req EXCEPT !.at = stage]
<1>0. stage \in Stages /\ IsRequest(req)
  BY DEF RequestFine, Stages
<1>1. IsRequest(new) /\ new.at = stage /\ new.op = req.op /\ new.rev = req.rev /\ new.node = req.node
  BY <1>0, StageFields
<1> HIDE DEF new
<1>2. RequestFine(t, used, new)
  BY <1>1 DEF RequestFine, Drawn, Between
<1> QED BY <1>2 DEF new

LEMMA LeftFine ==
    ASSUME NEW t, NEW used, NEW req, RequestFine(t, used, req)
    PROVE  RequestFine(t, used, [req EXCEPT !.awaited = FALSE, !.then = "none"])
<1> DEFINE new == [req EXCEPT !.awaited = FALSE, !.then = "none"]
<1>1. IsRequest(new) /\ new.at = req.at /\ new.op = req.op /\ new.rev = req.rev /\ new.node = req.node
  BY LeftFields DEF RequestFine
<1> HIDE DEF new
<1>2. RequestFine(t, used, new)
  BY <1>1 DEF RequestFine, Drawn, Between
<1> QED BY <1>2 DEF new

\* A successful answer is a copy of the revision it is about.
LEMMA AnswerIsCopy ==
    ASSUME NEW t, NEW used, RowsFine(t, used), NEW req, RequestFine(t, used, req), req.at = "done"
    PROVE  IsCopy(t, used, req.rev, IF req.op \in Transitions THEN After[req.op] ELSE "DRAFT",
                  req.node)
<1>1. req.op \in Requesting
  BY DEF RequestFine, IsRequest
<1>2. CASE req.op \in Transitions
  <2>1. Frozen(t, req.rev, req.node)
    BY <1>2 DEF RequestFine
  <2> QED BY <1>2, <2>1 DEF IsCopy, Frozen, RowsFine
<1>3. CASE req.op \notin Transitions
  BY <1>1, <1>3 DEF IsCopy, RequestFine, Requesting
<1> QED BY <1>2, <1>3

(***************************************************************************)
(* The inductive invariant.                                                *)
(***************************************************************************)
Shapes ==
    /\ DOMAIN active = Revisions /\ DOMAIN approved = Revisions
    /\ DOMAIN request = Requests
    /\ DOMAIN page = Consoles /\ DOMAIN listed = Consoles

\* Requests that may have given a pair its name.
IsUsed(req) == req # NotMade /\ ~(req.op = "pairs" /\ req.at = "sent")

Used == {q \in Requests : IsUsed(request[q])}

RequestsFine ==
    \A q \in Requests : request[q] \in {NotMade, Spent} \/ RequestFine(rows, Used, request[q])

PagesFine ==
    \A c \in Consoles : PageFine(rows, Used, page[c]) /\ ListFine(rows, Used, listed[c])

\* New revisions that requests hold are not stored yet, and no two hold the same.
DrawsFine == \A q \in Requests : Drawn(request[q]) =>
    /\ request[q].rev \notin DOMAIN rows
    /\ \A p \in Requests : p # q /\ Drawn(request[p]) => request[p].rev # request[q].rev

PointersFine == \A s \in Revisions : active[s] # None =>
    /\ active[s] \in DOMAIN rows
    /\ rows[active[s]].life \in Public
    /\ rows[active[s]].body.skill = s

\* A public revision whose skill has no pointer is being published, or was.
PublicReached == \A r \in DOMAIN rows : rows[r].life \in Public =>
    \/ active[rows[r].body.skill] # None
    \/ r \in torn
    \/ \E q \in Requests : Between(request[q]) /\ request[q].rev = r

Inv ==
    /\ Shapes
    /\ RowsFine(rows, Used)
    /\ RequestsFine
    /\ PagesFine
    /\ DrawsFine
    /\ ApprovedFine(rows, approved)
    /\ PointersFine
    /\ PublicReached

-----------------------------------------------------------------------------
(* Steps. *)

\* What a request may become while it neither draws a revision nor leaves the gap between
\* the transactions of a publication.
Quiet(old, new) ==
    /\ IsUsed(old) => IsUsed(new)
    /\ Drawn(new) => Drawn(old) /\ new.rev = old.rev
    /\ Between(old) => Between(new) /\ new.rev = old.rev

LEMMA UsedGrows ==
    ASSUME \A p \in Requests : IsUsed(request[p]) => IsUsed(request'[p])
    PROVE  Used \subseteq Used'
  BY DEF Used

LEMMA DrawsKept ==
    ASSUME DrawsFine, DOMAIN rows' = DOMAIN rows,
           \A p \in Requests : Drawn(request'[p]) =>
               Drawn(request[p]) /\ request'[p].rev = request[p].rev
    PROVE  DrawsFine'
  BY DEF DrawsFine

LEMMA PointersKept ==
    ASSUME PointersFine, Onward(rows, rows'), active' = active
    PROVE  PointersFine'
  BY DEF PointersFine, Onward, Public

LEMMA ReachedKept ==
    ASSUME PublicReached, NonePublished(rows, rows'), torn \subseteq torn',
           RowsFine(rows, Used), active' = active,
           \A p \in Requests : Between(request[p]) =>
               Between(request'[p]) /\ request'[p].rev = request[p].rev
    PROVE  PublicReached'
  BY DEF PublicReached, NonePublished

LEMMA PagesKept ==
    ASSUME PagesFine, page' = page, listed' = listed, Onward(rows, rows'), Used \subseteq Used'
    PROVE  PagesFine'
  BY PageOnward, ListOnward DEF PagesFine

LEMMA SpentIsUsed == IsUsed(Spent) /\ ~Drawn(Spent) /\ ~Between(Spent)
  BY DEF IsUsed, Spent, NotMade, Drawn, Between

LEMMA NotMadeIsNot == ~IsUsed(NotMade) /\ ~Drawn(NotMade) /\ ~Between(NotMade)
  BY DEF IsUsed, NotMade, Drawn, Between

LEMMA RequestIsMade ==
    ASSUME NEW req, IsRequest(req)
    PROVE  req # NotMade /\ req # Spent
  BY DEF IsRequest, Requesting, Transitions, NotMade, Spent

LEMMA KeptIsEither ==
    ASSUME NEW req
    PROVE  \/ Kept(req) = req
           \/ Kept(req) = Spent /\ req.at \in Finished
  BY DEF Kept

LEMMA LiveFine ==
    ASSUME RequestsFine, NEW q \in Live
    PROVE  q \in Requests /\ RequestFine(rows, Used, request[q]) /\ IsRequest(request[q])
  BY DEF RequestsFine, Live, RequestFine

\* The server moves on with request q, to `new`.
Served(q, new) ==
    /\ request' = [request EXCEPT ![q] = Kept(new)]
    /\ IsRequest(new)
    /\ new.op = request[q].op
    /\ new.at # "sent"
    /\ UNCHANGED <<page, listed>>

LEMMA ServedUses ==
    ASSUME Inv, NEW q \in Live, NEW new, Served(q, new)
    PROVE  Used \cup {q} \subseteq Used'
<1>1. q \in Requests /\ DOMAIN request = Requests
  BY DEF Live, Inv, Shapes
<1>2. IsUsed(new)
  BY RequestIsMade DEF IsUsed, Served
<1>3. IsUsed(request'[q])
  BY <1>1, <1>2, KeptIsEither, SpentIsUsed DEF Served
<1>4. \A p \in Requests : p # q => request'[p] = request[p]
  BY <1>1 DEF Served
<1> QED BY <1>1, <1>3, <1>4 DEF Used

LEMMA ServedFine ==
    ASSUME Inv, NEW q \in Live, NEW new, Served(q, new), Onward(rows, rows'),
           RequestFine(rows', Used', new)
    PROVE  RequestsFine' /\ PagesFine' /\ DOMAIN request' = Requests
<1>1. q \in Requests /\ DOMAIN request = Requests
  BY DEF Live, Inv, Shapes
<1>2. Used \subseteq Used'
  BY ServedUses
<1>3. PagesFine'
  BY <1>2, PagesKept DEF Inv, Served
<1>4. \A p \in Requests : p # q => request'[p] = request[p]
  BY <1>1 DEF Served
<1>5. request'[q] \in {Spent, new}
  BY <1>1, KeptIsEither DEF Served
<1>6. ASSUME NEW p \in Requests
      PROVE  request'[p] \in {NotMade, Spent} \/ RequestFine(rows', Used', request'[p])
  <2>1. CASE p = q
    BY <1>5, <2>1
  <2>2. CASE p # q
    BY <1>2, <1>4, <2>2, RequestOnward DEF Inv, RequestsFine
  <2> QED BY <2>1, <2>2
<1>7. RequestsFine'
  <2>1. (NotMade' = NotMade) /\ (Spent' = Spent)
    BY DEF NotMade, Spent
  <2> QED BY <1>6, <2>1 DEF RequestsFine
<1> QED BY <1>1, <1>3, <1>7 DEF Served

\* A served request that does not draw and was not between two transactions.
LEMMA ServedQuietly ==
    ASSUME Inv, NEW q \in Live, NEW new, Served(q, new), ~Drawn(new), DOMAIN rows' = DOMAIN rows
    PROVE  /\ DrawsFine'
           /\ ~Between(request[q]) /\ NonePublished(rows, rows') /\ torn' = torn
                  /\ active' = active => PublicReached'
<1>1. q \in Requests /\ DOMAIN request = Requests
  BY DEF Live, Inv, Shapes
<1>2. \A p \in Requests : p # q => request'[p] = request[p]
  BY <1>1 DEF Served
<1>3. ~Drawn(request'[q])
  BY <1>1, KeptIsEither, SpentIsUsed DEF Served
<1>4. DrawsFine'
  BY <1>2, <1>3, DrawsKept DEF Inv
<1>5. ASSUME ~Between(request[q]), NonePublished(rows, rows'), torn' = torn, active' = active
      PROVE  PublicReached'
  BY <1>2, <1>5, ReachedKept DEF Inv
<1> QED BY <1>4, <1>5

-----------------------------------------------------------------------------
(* The server's steps. *)

PageUnchanged == UNCHANGED <<page, listed, turns>>

\* A request is refused, or dies; if it was publishing, `torn` remembers it.
LEMMA FailedStep ==
    ASSUME Inv, NEW q \in Live, NEW stage \in {"refused", "dead"}, Goes(q, stage),
           UNCHANGED <<rows, active, approved, page, listed>>, torn \subseteq torn',
           Between(request[q]) => request[q].rev \in torn'
    PROVE  Inv'
<1> DEFINE new == [request[q] EXCEPT !.at = stage]
<1>1. q \in Requests /\ RequestFine(rows, Used, request[q]) /\ IsRequest(request[q])
  BY LiveFine DEF Inv
<1>2. IsRequest(new) /\ new.at = stage /\ new.op = request[q].op
  <2>1. stage \in Stages
    BY DEF Stages
  <2> QED BY <1>1, <2>1, StageFields
<1>3. RequestFine(rows, Used, new)
  BY <1>1, FailedFine
<1>4. Served(q, new)
  <2>1. request' = [request EXCEPT ![q] = Kept(new)]
    BY DEF Goes
  <2> QED BY <2>1, <1>2 DEF Served
<1> HIDE DEF new
<1>5. Used \subseteq Used'
  BY <1>4, ServedUses
<1>6. RowsFine(rows', Used') /\ Onward(rows, rows') /\ NonePublished(rows, rows')
  BY <1>5, RowsKept DEF Inv
<1>7. RequestsFine' /\ PagesFine' /\ DOMAIN request' = Requests
  BY <1>3, <1>4, <1>5, <1>6, RequestOnward, ServedFine
<1>8. DrawsFine'
  BY <1>2, <1>4, ServedQuietly DEF Drawn
<1>9. PointersFine'
  BY <1>6, PointersKept DEF Inv
<1>10. PublicReached'
  <2>1. \A p \in Requests : p # q => request'[p] = request[p]
    BY <1>1 DEF Served, Goes
  <2> QED BY <2>1 DEF Inv, PublicReached
<1> QED BY <1>6, <1>7, <1>8, <1>9, <1>10 DEF Inv, Shapes

LEMMA EditDraftStep ==
    ASSUME Inv, NEW q \in Live, request[q].op \in {"save", "pairs"},
           Body(Used, request[q].rev, request[q].node), EditDraft(q), PageUnchanged
    PROVE  Inv'
<1> DEFINE new == [request[q] EXCEPT !.at = "done"]
           r == request[q].rev
<1>1. q \in Requests /\ RequestFine(rows, Used, request[q]) /\ IsRequest(request[q])
  BY LiveFine DEF Inv
<1>2. CASE IsDraft(r) /\ rows' = [rows EXCEPT ![r] = Row("DRAFT", request[q].node)] /\ Goes(q, "done")
  <2>1. /\ IsRequest(new) /\ new.at = "done" /\ new.op = request[q].op /\ new.rev = r
        /\ new.node = request[q].node
    BY <1>1, StageFields DEF Stages
  <2>2. Served(q, new)
    <3>1. request' = [request EXCEPT ![q] = Kept(new)]
      BY <1>2 DEF Goes
    <3> QED BY <3>1, <2>1 DEF Served, PageUnchanged
  <2> HIDE DEF new
  <2>3. Used \subseteq Used'
    BY <2>2, ServedUses
  <2>4. Body(Used', r, request[q].node)
    BY <2>3, MoreUsed
  <2>5. /\ RowsFine(rows', Used') /\ Onward(rows, rows') /\ NonePublished(rows, rows')
        /\ DOMAIN rows' = DOMAIN rows /\ NoneReviewed(rows, rows')
    <3> HIDE DEF r
    <3>1. r \in DOMAIN rows /\ rows[r].life = "DRAFT"
      BY <1>2 DEF IsDraft
    <3>2. RowsFine(rows, Used')
      BY <2>3, RowsKept DEF Inv
    <3>3. rows' = Rewritten(rows, r, request[q].node)
      BY <1>2 DEF Rewritten, r
    <3> QED BY <2>4, <3>1, <3>2, <3>3, RowWritten
  <2>6. RequestFine(rows', Used', new)
    <3>1. r \in DOMAIN rows'
      BY <1>2, <2>5 DEF IsDraft
    <3> QED BY <2>1, <2>4, <3>1 DEF RequestFine, Drawn, Between, Transitions
  <2>7. RequestsFine' /\ PagesFine' /\ DOMAIN request' = Requests
    BY <2>2, <2>5, <2>6, ServedFine
  <2>8. ~Drawn(new) /\ ~Between(request[q])
    BY <2>1 DEF Drawn, Between
  <2>9. active' = active /\ approved' = approved /\ torn' = torn
    BY DEF EditDraft
  <2>10. DrawsFine' /\ PublicReached'
    BY <2>2, <2>5, <2>8, <2>9, ServedQuietly
  <2>11. PointersFine'
    BY <2>5, <2>9, PointersKept DEF Inv
  <2>12. ApprovedFine(rows', approved')
    BY <2>5, <2>9, ApprovalsKept DEF Inv
  <2> QED BY <2>5, <2>7, <2>9, <2>10, <2>11, <2>12 DEF Inv, Shapes, PageUnchanged
<1>3. CASE Goes(q, "refused") /\ UNCHANGED rows
  BY <1>3, FailedStep DEF EditDraft, PageUnchanged, Between
<1> QED BY <1>2, <1>3 DEF EditDraft

LEMMA SaveStep ==
    ASSUME Inv, NEW q \in Requests, Save(q), PageUnchanged
    PROVE  Inv'
<1>1. q \in Live /\ request[q].op = "save" /\ EditDraft(q)
  BY DEF Save, At
<1>2. Body(Used, request[q].rev, request[q].node)
  BY <1>1, LiveFine DEF Inv, RequestFine
<1> QED BY <1>1, <1>2, EditDraftStep

LEMMA WritePairStep ==
    ASSUME Inv, NEW q \in Requests, WritePair(q), PageUnchanged
    PROVE  Inv'
<1>1. q \in Live /\ request[q].op = "pairs" /\ request[q].at = "read" /\ EditDraft(q)
  BY DEF WritePair, At
<1>2. Body(Used, request[q].rev, request[q].node)
  BY <1>1, LiveFine DEF Inv, RequestFine
<1> QED BY <1>1, <1>2, EditDraftStep

LEMMA ReadForPairStep ==
    ASSUME Inv, NEW q \in Requests, ReadForPair(q), PageUnchanged
    PROVE  Inv'
<1> DEFINE r == request[q].rev
           body == [rows[r].body EXCEPT !.pairs = Append(@, BlankPair(r, rows[r].body, q))]
           new == With(request[q], "read", r, body)
<1>1. /\ q \in Live /\ request[q].op = "pairs" /\ request[q].at = "sent"
      /\ UNCHANGED <<rows, active, approved, torn>>
  BY DEF ReadForPair, At
<1>2. RequestFine(rows, Used, request[q]) /\ IsRequest(request[q])
  BY <1>1, LiveFine DEF Inv
<1>3. CASE IsDraft(r) /\ GoesWith(q, "read", r, body)
  <2>1. Body(Used, r, rows[r].body) /\ q \notin Used /\ r \in DOMAIN rows
    BY <1>1, <1>3 DEF Inv, RowsFine, IsDraft, Used, IsUsed
  <2>2. Body(Used \cup {q}, r, body)
    BY <2>1, BlankPairBody
  <2> HIDE DEF body
  <2>3. IsRequest(new) /\ new.at = "read" /\ new.op = "pairs" /\ new.rev = r /\ new.node = body
    <3>1. "read" \in Stages
      BY DEF Stages
    <3> QED BY <1>1, <1>2, <3>1, WithFields
  <2>4. Served(q, new)
    <3>1. request' = [request EXCEPT ![q] = Kept(new)]
      BY <1>3 DEF GoesWith, With
    <3> QED BY <1>1, <3>1, <2>3 DEF Served, PageUnchanged
  <2> HIDE DEF new, r
  <2>5. Used \cup {q} \subseteq Used'
    BY <1>1, <2>4, ServedUses
  <2>6. RowsFine(rows', Used') /\ Onward(rows, rows') /\ NonePublished(rows, rows')
    BY <1>1, <2>5, RowsKept DEF Inv
  <2>7. RequestFine(rows', Used', new)
    <3>1. Body(Used', r, body)
      BY <2>2, <2>5, MoreUsed
    <3> QED BY <1>1, <2>1, <2>3, <3>1 DEF RequestFine, Drawn, Between, Transitions
  <2>8. RequestsFine' /\ PagesFine' /\ DOMAIN request' = Requests
    BY <1>1, <2>4, <2>6, <2>7, ServedFine
  <2>9. DrawsFine' /\ PublicReached'
    BY <1>1, <2>3, <2>4, <2>6, ServedQuietly DEF Drawn, Between
  <2>10. PointersFine'
    BY <1>1, <2>6, PointersKept DEF Inv
  <2> QED BY <1>1, <2>6, <2>8, <2>9, <2>10 DEF Inv, Shapes, PageUnchanged
<1>4. CASE Goes(q, "refused")
  BY <1>1, <1>4, FailedStep DEF PageUnchanged, Between
<1> QED BY <1>3, <1>4 DEF ReadForPair

\* A request takes a fresh revision to insert.
LEMMA DrawStep ==
    ASSUME Inv, NEW q \in Live, request[q].op \in {"next", "create"}, request[q].at = "sent",
           NEW r \in Revisions, IsFresh(r), NEW body, Body(Used, r, body),
           GoesWith(q, "read", r, body), UNCHANGED <<rows, active, approved, torn>>,
           PageUnchanged
    PROVE  Inv'
<1> DEFINE new == With(request[q], "read", r, body)
<1>1. q \in Requests /\ RequestFine(rows, Used, request[q]) /\ IsRequest(request[q])
  BY LiveFine DEF Inv
<1>2. IsRequest(new) /\ new.at = "read" /\ new.op = request[q].op /\ new.rev = r /\ new.node = body
  <2>1. "read" \in Stages
    BY DEF Stages
  <2> QED BY <1>1, <2>1, WithFields
<1>3. Served(q, new)
  <2>1. request' = [request EXCEPT ![q] = Kept(new)]
    BY DEF GoesWith, With
  <2> QED BY <2>1, <1>2 DEF Served, PageUnchanged
<1> HIDE DEF new
<1>4. Used \subseteq Used'
  BY <1>3, ServedUses
<1>5. RowsFine(rows', Used') /\ Onward(rows, rows') /\ NonePublished(rows, rows')
  BY <1>4, RowsKept DEF Inv
<1>6. RequestFine(rows', Used', new)
  <2>1. Body(Used', r, body)
    BY <1>4, MoreUsed
  <2> QED BY <1>2, <2>1 DEF RequestFine, Drawn, Between, Transitions
<1>7. RequestsFine' /\ PagesFine' /\ DOMAIN request' = Requests
  BY <1>3, <1>5, <1>6, ServedFine
<1>8. \A p \in Requests : p # q => request'[p] = request[p]
  BY <1>1 DEF Served, GoesWith
<1>9. DrawsFine'
  <2>1. r \notin DOMAIN rows /\ \A p \in Requests : Drawn(request[p]) => request[p].rev # r
    BY NotMadeIsNot, SpentIsUsed DEF IsFresh, Live, Drawn
  <2>2. request'[q] = new \/ ~Drawn(request'[q])
    BY <1>1, <1>3, KeptIsEither, SpentIsUsed DEF Inv, Shapes, Served
  <2>3. DrawsFine
    BY DEF Inv
  <2> QED BY <1>2, <1>8, <2>1, <2>2, <2>3 DEF DrawsFine
<1>10. PointersFine'
  BY <1>5, PointersKept DEF Inv
<1>11. PublicReached'
  <2>1. ~Between(request[q])
    BY DEF Between
  <2> QED BY <1>5, <1>8, <2>1, ReachedKept DEF Inv
<1> QED BY <1>5, <1>7, <1>9, <1>10, <1>11 DEF Inv, Shapes, PageUnchanged

LEMMA ReadForNextStep ==
    ASSUME Inv, NEW q \in Requests, ReadForNext(q), PageUnchanged
    PROVE  Inv'
<1>1. q \in Live /\ request[q].op = "next" /\ request[q].at = "sent"
  BY DEF ReadForNext, At
<1>2. PICK r \in Revisions : /\ IsFresh(r)
                            /\ GoesWith(q, "read", r, NextDraft(r, rows[request[q].rev].body))
  BY DEF ReadForNext
<1>3. Body(Used, request[q].rev, rows[request[q].rev].body)
  BY <1>1, LiveFine DEF Inv, RequestFine, RowsFine
<1>4. Body(Used, r, NextDraft(r, rows[request[q].rev].body))
  BY <1>3, NextDraftBody
<1> QED BY <1>1, <1>2, <1>4, DrawStep DEF ReadForNext

LEMMA ReadForCreateStep ==
    ASSUME Inv, NEW q \in Requests, ReadForCreate(q), PageUnchanged
    PROVE  Inv'
<1> DEFINE form == request[q].node
<1>1. /\ q \in Live /\ request[q].op = "create" /\ request[q].at = "sent"
      /\ UNCHANGED <<rows, active, approved, torn>>
  BY DEF ReadForCreate, At
<1>2. CASE Goes(q, "refused")
  BY <1>1, <1>2, FailedStep DEF PageUnchanged, Between
<1>3. CASE ~Goes(q, "refused")
  <2>1. PICK r \in Revisions :
            /\ IsFresh(r)
            /\ \E subject \in SubjectsFor(form, r) : \E topic \in TopicsFor(form, subject, r) :
                  GoesWith(q, "read", r, InitialNode(r, subject, topic, form.title))
    BY <1>3 DEF ReadForCreate
  <2>2. PICK subject \in SubjectsFor(form, r) : \E topic \in TopicsFor(form, subject, r) :
            GoesWith(q, "read", r, InitialNode(r, subject, topic, form.title))
    BY <2>1
  <2>3. PICK topic \in TopicsFor(form, subject, r) :
            GoesWith(q, "read", r, InitialNode(r, subject, topic, form.title))
    BY <2>2
  <2>4. form.subject \in Labels /\ form.topic \in Labels /\ form.title \in Labels
    <3>1. form \in Forms
      BY <1>1, LiveFine DEF Inv, RequestFine
    <3> QED BY <3>1, ServiceAssumption
  <2>5. \A node \in Nodes : node.subject \in Subjects /\ node.topic \in Subjects
    BY DEF Nodes, Inv, RowsFine, Body, Bodies
  <2>6. subject \in Subjects
    BY <2>4, <2>5 DEF SubjectsFor, Subjects, SubjectIds
  <2>7. topic \in Subjects
    BY <2>4, <2>5 DEF TopicsFor, Subjects, SubjectIds
  <2>8. Body(Used, r, InitialNode(r, subject, topic, form.title))
    BY <2>4, <2>6, <2>7, InitialBody
  <2> QED BY <1>1, <2>1, <2>3, <2>8, DrawStep
<1> QED BY <1>2, <1>3

LEMMA CreateDraftStep ==
    ASSUME Inv, NEW q \in Requests, CreateDraft(q), PageUnchanged
    PROVE  Inv'
<1> DEFINE new == [request[q] EXCEPT !.at = "done"]
           r == request[q].rev
<1>1. q \in Live /\ Drawn(request[q])
  BY DEF CreateDraft, At, Drawn
<1>2. RequestFine(rows, Used, request[q]) /\ IsRequest(request[q])
  BY <1>1, LiveFine DEF Inv
<1>3. /\ IsRequest(new) /\ new.at = "done" /\ new.op = request[q].op /\ new.rev = r
      /\ new.node = request[q].node
  BY <1>2, StageFields DEF Stages
<1>4. Served(q, new)
  <2>1. request' = [request EXCEPT ![q] = Kept(new)]
    BY DEF CreateDraft, Goes
  <2> QED BY <2>1, <1>3 DEF Served, PageUnchanged
<1> HIDE DEF new
<1>5. Used \subseteq Used'
  BY <1>1, <1>4, ServedUses
<1>6. Body(Used', r, request[q].node) /\ r \in Revisions /\ r \notin DOMAIN rows
  BY <1>1, <1>2, <1>5, MoreUsed DEF RequestFine, Inv, DrawsFine
<1>7. /\ RowsFine(rows', Used') /\ Onward(rows, rows') /\ NonePublished(rows, rows')
      /\ DOMAIN rows' = DOMAIN rows \cup {r} /\ NoneReviewed(rows, rows')
  <2>1. RowsFine(rows, Used')
    BY <1>5, RowsKept DEF Inv
  <2>2. rows' = Created(rows, r, request[q].node)
    BY DEF CreateDraft, Created
  <2> HIDE DEF r
  <2> QED BY <1>6, <2>1, <2>2, RowCreated
<1>8. RequestFine(rows', Used', new)
  BY <1>1, <1>3, <1>6, <1>7 DEF RequestFine, Drawn, Between, Transitions
<1>9. RequestsFine' /\ PagesFine' /\ DOMAIN request' = Requests
  BY <1>1, <1>4, <1>7, <1>8, ServedFine
<1>10. active' = active /\ approved' = approved /\ torn' = torn
  BY DEF CreateDraft
<1>11. \A p \in Requests : p # q => request'[p] = request[p]
  BY DEF CreateDraft, Goes, Inv, Shapes
<1>12. DrawsFine'
  <2>1. ~Drawn(request'[q])
    <3>1. request'[q] \in {new, Spent}
      BY <1>4, KeptIsEither DEF Inv, Shapes, Served
    <3> QED BY <1>3, <3>1, SpentIsUsed DEF Drawn
  <2>2. DrawsFine
    BY DEF Inv
  <2> QED BY <1>1, <1>7, <1>11, <2>1, <2>2 DEF DrawsFine
<1>13. PublicReached'
  <2>1. ~Between(request[q])
    BY <1>1 DEF Between, Drawn
  <2> QED BY <1>7, <1>10, <1>11, <2>1, ReachedKept DEF Inv
<1>14. PointersFine'
  BY <1>7, <1>10, PointersKept DEF Inv
<1>15. ApprovedFine(rows', approved')
  BY <1>7, <1>10, ApprovalsKept DEF Inv
<1> QED BY <1>7, <1>9, <1>10, <1>12, <1>13, <1>14, <1>15 DEF Inv, Shapes, PageUnchanged

\* What the lifecycle steps have in common.
LEMMA TransitionStep ==
    ASSUME Inv, NEW q \in Requests, NEW step \in Transitions, NEW stage \in {"done", "between"},
           Transition(q, step, stage), stage = "between" => step = "publish", PageUnchanged
    PROVE  /\ q \in Live /\ RequestFine(rows, Used, request[q])
           /\ request[q].rev \in DOMAIN rows /\ rows' = Stepped(rows, request[q].rev, step)
           /\ rows[request[q].rev].life = Before[step]
           /\ step = "publish" => ValidatePublishableContent(rows[request[q].rev].body)
           /\ DOMAIN request' = Requests
           /\ RowsFine(rows', Used') /\ RequestsFine' /\ PagesFine' /\ DrawsFine' /\ PointersFine'
           /\ step # "approve" => ApprovedFine(rows', approved)
           /\ step # "publish" => PublicReached'
<1> DEFINE r == request[q].rev
           body == rows[r].body
           new == With(request[q], stage, r, body)
<1>1. /\ q \in Live /\ request[q].op = step /\ request[q].at = "sent"
      /\ Permitted(r, step) /\ GoesWith(q, stage, r, body)
      /\ rows' = Stepped(rows, r, step) /\ active' = active /\ torn' = torn
  BY DEF Transition, At, Stepped
<1>2. RequestFine(rows, Used, request[q]) /\ IsRequest(request[q])
  BY <1>1, LiveFine DEF Inv
<1>3. /\ r \in DOMAIN rows /\ rows[r].life = Before[step]
      /\ step = "publish" => ValidatePublishableContent(body)
  BY <1>1, <1>2 DEF RequestFine, Permitted
<1> HIDE DEF r, body
<1>4. IsRequest(new) /\ new.at = stage /\ new.op = step /\ new.rev = r /\ new.node = body
  <2>1. stage \in Stages
    BY DEF Stages
  <2> QED BY <1>1, <1>2, <2>1, WithFields
<1>5. Served(q, new)
  <2>1. request' = [request EXCEPT ![q] = Kept(new)]
    BY <1>1 DEF GoesWith, With
  <2> QED BY <1>1, <2>1, <1>4 DEF Served, PageUnchanged
<1> HIDE DEF new
<1>6. Used \subseteq Used'
  BY <1>1, <1>5, ServedUses
<1>7. /\ RowsFine(rows', Used') /\ Onward(rows, rows') /\ DOMAIN rows' = DOMAIN rows
      /\ rows'[r].life = After[step] /\ rows'[r].body = body
      /\ step # "publish" => NonePublished(rows, rows')
      /\ step # "approve" => NoneReviewed(rows, rows')
  <2>1. RowsFine(rows, Used')
    BY <1>6, RowsKept DEF Inv
  <2>2. step = "publish" => ValidatePublishableContent(rows[r].body)
    BY <1>3 DEF body
  <2>3. /\ rows' = Stepped(rows, r, step) /\ r \in DOMAIN rows /\ rows[r].life = Before[step]
        /\ step \in Transitions
    BY <1>1, <1>3
  <2>4. /\ RowsFine(rows', Used') /\ Onward(rows, rows') /\ DOMAIN rows' = DOMAIN rows
        /\ rows'[r].life = After[step] /\ rows'[r].body = rows[r].body
        /\ step # "publish" => NonePublished(rows, rows')
        /\ step # "approve" => NoneReviewed(rows, rows')
    BY <2>1, <2>2, <2>3, RowStepped
  <2> QED BY <2>4 DEF body
<1>8. RequestFine(rows', Used', new)
  <2>1. Frozen(rows', r, body) /\ (step = "publish" => rows'[r].life \in Public)
    BY <1>3, <1>7 DEF Frozen, Transitions, After, Public
  <2> QED BY <1>3, <1>4, <1>7, <2>1 DEF RequestFine, Drawn, Between, Transitions
<1>9. RequestsFine' /\ PagesFine' /\ DOMAIN request' = Requests
  BY <1>1, <1>5, <1>7, <1>8, ServedFine
<1>10. ~Drawn(new) /\ ~Between(request[q])
  BY <1>1, <1>4 DEF Drawn, Between, Transitions
<1>11. DrawsFine' /\ (step # "publish" => PublicReached')
  BY <1>1, <1>5, <1>7, <1>10, ServedQuietly
<1>12. PointersFine'
  BY <1>1, <1>7, PointersKept DEF Inv
<1>13. step # "approve" => ApprovedFine(rows', approved)
  BY <1>7, ApprovalsKept DEF Inv
<1> QED BY <1>1, <1>2, <1>3, <1>7, <1>9, <1>11, <1>12, <1>13 DEF r, body

LEMMA QuietTransitionStep ==
    ASSUME Inv, NEW q \in Requests, NEW step \in {"review", "deprecate"},
           Transition(q, step, "done"), approved' = approved, PageUnchanged
    PROVE  Inv'
<1>1. step \in Transitions /\ step # "publish" /\ step # "approve"
  BY DEF Transitions
<1>2. /\ DOMAIN request' = Requests
      /\ RowsFine(rows', Used') /\ RequestsFine' /\ PagesFine' /\ DrawsFine' /\ PointersFine'
      /\ ApprovedFine(rows', approved) /\ PublicReached'
  BY <1>1, TransitionStep
<1>3. active' = active
  BY DEF Transition
<1> QED BY <1>2, <1>3 DEF Inv, Shapes, PageUnchanged

LEMMA ApproveStep ==
    ASSUME Inv, NEW q \in Requests, Approve(q), PageUnchanged
    PROVE  Inv'
<1> DEFINE r == request[q].rev
<1>1. Transition(q, "approve", "done") /\ approved' = [approved EXCEPT ![r] = request[q].node]
  BY DEF Approve
<1>2. /\ DOMAIN request' = Requests /\ RequestFine(rows, Used, request[q])
      /\ r \in DOMAIN rows /\ rows' = Stepped(rows, r, "approve")
      /\ RowsFine(rows', Used') /\ RequestsFine' /\ PagesFine' /\ DrawsFine' /\ PointersFine'
      /\ PublicReached'
  <2>1. "approve" \in Transitions
    BY DEF Transitions
  <2> QED BY <1>1, <2>1, TransitionStep
<1>3. Frozen(rows, r, request[q].node)
  <2>1. request[q].op = "approve" /\ request[q].at = "sent"
    BY <1>1 DEF Transition, At
  <2> QED BY <1>2, <2>1 DEF RequestFine
<1>4. r \in Revisions /\ DOMAIN approved = Revisions /\ {"life", "body"} \subseteq DOMAIN rows[r]
  BY <1>2 DEF Inv, RowsFine, Shapes
<1> HIDE DEF r
<1>5. ApprovedFine(rows', approved')
  <2>1. \A x \in DOMAIN rows : x # r => rows'[x] = rows[x]
    BY <1>2 DEF Stepped
  <2>2. rows'[r].body = rows[r].body /\ DOMAIN rows' = DOMAIN rows
    BY <1>2, <1>4 DEF Stepped
  <2>3. approved'[r] = rows'[r].body
    BY <1>1, <1>3, <1>4, <2>2 DEF Frozen
  <2>4. \A x \in DOMAIN rows : x # r => approved'[x] = approved[x]
    BY <1>1, <1>4 DEF Inv, RowsFine
  <2> QED BY <2>1, <2>2, <2>3, <2>4 DEF Inv, ApprovedFine
<1>6. active' = active /\ DOMAIN approved' = Revisions
  BY <1>1, <1>4 DEF Transition
<1> QED BY <1>2, <1>5, <1>6 DEF Inv, Shapes, PageUnchanged

LEMMA PublishRowStep ==
    ASSUME Inv, NEW q \in Requests, PublishRow(q), PageUnchanged
    PROVE  Inv'
<1> DEFINE r == request[q].rev
           new == With(request[q], "between", r, rows[r].body)
<1>1. Transition(q, "publish", "between") /\ approved' = approved
  BY DEF PublishRow
<1>2. /\ q \in Live /\ RequestFine(rows, Used, request[q])
      /\ DOMAIN request' = Requests
      /\ r \in DOMAIN rows /\ rows' = Stepped(rows, r, "publish")
      /\ RowsFine(rows', Used') /\ RequestsFine' /\ PagesFine' /\ DrawsFine' /\ PointersFine'
      /\ ApprovedFine(rows', approved)
  <2>1. "publish" \in Transitions /\ "publish" # "approve"
    BY DEF Transitions
  <2> QED BY <1>1, <2>1, TransitionStep
<1>3. /\ request[q].op = "publish" /\ request[q].at = "sent"
      /\ request' = [request EXCEPT ![q] = Kept(new)]
      /\ active' = active /\ torn' = torn
  BY <1>1 DEF Transition, At, GoesWith, With
<1>4. Between(new) /\ new.rev = r /\ new.at = "between"
  <2>1. "between" \in Stages
    BY DEF Stages
  <2>2. IsRequest(request[q])
    BY <1>2 DEF RequestFine
  <2> QED BY <1>3, <2>1, <2>2, WithFields DEF Between
<1> HIDE DEF new, r
<1>5. Between(request'[q]) /\ request'[q].rev = r
  BY <1>3, <1>4, KeptIsEither DEF Finished, Inv, Shapes
<1>6. \A p \in Requests : p # q => request'[p] = request[p]
  BY <1>3 DEF Inv, Shapes
<1>7. /\ \A x \in DOMAIN rows : x # r => rows'[x] = rows[x]
      /\ DOMAIN rows' = DOMAIN rows
  BY <1>2 DEF Stepped
<1>8. PublicReached'
  <2> SUFFICES ASSUME NEW x \in DOMAIN rows, rows'[x].life \in Public
               PROVE  \/ active[rows'[x].body.skill] # None
                      \/ x \in torn
                      \/ \E p \in Requests : Between(request'[p]) /\ request'[p].rev = x
    BY <1>3, <1>7 DEF PublicReached
  <2>1. CASE x = r
    BY <1>5, <2>1
  <2>2. CASE x # r
    <3>1. \/ active[rows[x].body.skill] # None
          \/ x \in torn
          \/ \E p \in Requests : Between(request[p]) /\ request[p].rev = x
      BY <1>7, <2>2 DEF Inv, PublicReached
    <3>2. ~Between(request[q])
      BY <1>3 DEF Between
    <3> QED BY <1>6, <1>7, <2>2, <3>1, <3>2
  <2> QED BY <2>1, <2>2
<1> QED BY <1>1, <1>2, <1>3, <1>8 DEF Inv, Shapes, PageUnchanged

LEMMA PointActiveStep ==
    ASSUME Inv, NEW q \in Requests, PointActive(q), PageUnchanged
    PROVE  Inv'
<1> DEFINE new == [request[q] EXCEPT !.at = "done"]
           r == request[q].rev
           skill == request[q].node.skill
<1>1. /\ q \in Live /\ Between(request[q])
      /\ active' = [active EXCEPT ![skill] = r]
      /\ request' = [request EXCEPT ![q] = Kept(new)]
      /\ UNCHANGED <<rows, approved, torn>>
  BY DEF PointActive, At, Between, Goes
<1>2. RequestFine(rows, Used, request[q]) /\ IsRequest(request[q])
  BY <1>1, LiveFine DEF Inv
<1>3. IsRequest(new) /\ new.at = "done" /\ new.op = "publish" /\ new.rev = r /\ new.node = request[q].node
  BY <1>1, <1>2, StageFields DEF Stages, Between
<1>4. Served(q, new)
  BY <1>1, <1>3 DEF Served, PageUnchanged, Between
<1> HIDE DEF new
<1>5. Used \subseteq Used'
  BY <1>1, <1>4, ServedUses
<1>6. RowsFine(rows', Used') /\ Onward(rows, rows')
  BY <1>1, <1>5, RowsKept DEF Inv
<1>7. Frozen(rows, r, request[q].node) /\ rows[r].life \in Public
  BY <1>1, <1>2 DEF RequestFine, Between, Transitions
<1>8. RequestFine(rows', Used', new)
  BY <1>1, <1>3, <1>7 DEF RequestFine, Drawn, Between, Frozen, Transitions
<1>9. RequestsFine' /\ PagesFine' /\ DOMAIN request' = Requests
  BY <1>1, <1>4, <1>6, <1>8, ServedFine
<1>10. DrawsFine'
  BY <1>1, <1>3, <1>4, ServedQuietly DEF Drawn
<1>11. r \in DOMAIN rows /\ rows[r].body.skill = skill /\ r \in Revisions /\ skill \in Revisions
  BY <1>7 DEF Frozen, Inv, RowsFine, Body, Bodies
<1> HIDE DEF skill
<1>12. /\ active'[skill] = r /\ r # None /\ DOMAIN active' = Revisions
       /\ \A s \in Revisions : s # skill => active'[s] = active[s]
  BY <1>1, <1>11, ServiceAssumption DEF Inv, Shapes
<1>13. PointersFine'
  BY <1>1, <1>7, <1>11, <1>12 DEF Inv, PointersFine
<1>14. \A p \in Requests : p # q => request'[p] = request[p]
  BY <1>1 DEF Inv, Shapes
<1>15. PublicReached'
  <2> SUFFICES ASSUME NEW x \in DOMAIN rows, rows[x].life \in Public
               PROVE  \/ active'[rows[x].body.skill] # None
                      \/ x \in torn
                      \/ \E p \in Requests : Between(request'[p]) /\ request'[p].rev = x
    BY <1>1 DEF PublicReached
  <2>1. CASE rows[x].body.skill = skill
    BY <1>12, <2>1
  <2>2. CASE rows[x].body.skill # skill
    <3>1. \/ active[rows[x].body.skill] # None
          \/ x \in torn
          \/ \E p \in Requests : Between(request[p]) /\ request[p].rev = x
      BY DEF Inv, PublicReached
    <3>2. rows[x].body.skill \in Revisions
      BY DEF Inv, RowsFine, Body, Bodies
    <3>3. x # r
      BY <1>11, <2>2
    <3> QED BY <1>12, <1>14, <2>2, <3>1, <3>2, <3>3
  <2> QED BY <2>1, <2>2
<1> QED BY <1>1, <1>6, <1>9, <1>10, <1>12, <1>13, <1>15 DEF Inv, Shapes, PageUnchanged

LEMMA ServeStep ==
    ASSUME Inv, NEW q \in Requests, Serve(q), PageUnchanged
    PROVE  Inv'
<1>1. CASE Save(q)
  BY <1>1, SaveStep
<1>2. CASE ReadForPair(q)
  BY <1>2, ReadForPairStep
<1>3. CASE WritePair(q)
  BY <1>3, WritePairStep
<1>4. CASE ReadForNext(q)
  BY <1>4, ReadForNextStep
<1>5. CASE ReadForCreate(q)
  BY <1>5, ReadForCreateStep
<1>6. CASE CreateDraft(q)
  BY <1>6, CreateDraftStep
<1>7. CASE Review(q) \/ Deprecate(q)
  BY <1>7, QuietTransitionStep DEF Review, Deprecate
<1>8. CASE Approve(q)
  BY <1>8, ApproveStep
<1>9. CASE PublishRow(q)
  BY <1>9, PublishRowStep
<1>10. CASE PointActive(q)
  BY <1>10, PointActiveStep
<1>11. CASE RefuseTransition(q)
  <2>1. /\ q \in Live /\ ~Between(request[q]) /\ Goes(q, "refused")
        /\ UNCHANGED <<rows, active, approved, torn>>
    BY <1>11 DEF RefuseTransition, At, Between
  <2> QED BY <2>1, FailedStep DEF PageUnchanged
<1> QED BY <1>1, <1>2, <1>3, <1>4, <1>5, <1>6, <1>7, <1>8, <1>9, <1>10, <1>11 DEF Serve

LEMMA DieStep ==
    ASSUME Inv, NEW q \in Requests, Die(q), UNCHANGED <<page, listed>>
    PROVE  Inv'
<1>1. /\ q \in Live /\ Goes(q, "dead") /\ torn \subseteq torn'
      /\ Between(request[q]) => request[q].rev \in torn'
      /\ UNCHANGED <<rows, active, approved>>
  BY DEF Die, Between
<1> QED BY <1>1, FailedStep

-----------------------------------------------------------------------------
(* The pages' steps. *)

PageFields == {"sel", "life", "draft", "dirty", "saving", "error", "creating"}

\* A page that shows what it showed is fine, whatever its other fields.
LEMMA SamePage ==
    ASSUME NEW t, NEW used, NEW p, PageFine(t, used, p), NEW p2, DOMAIN p2 = DOMAIN p,
           p2.sel = p.sel, p2.life = p.life, p2.draft = p.draft, p2.creating => p.creating
    PROVE  PageFine(t, used, p2)
  BY DEF PageFine

LEMMA BusyPage ==
    ASSUME NEW t, NEW used, NEW p, PageFine(t, used, p)
    PROVE  PageFine(t, used, Busy(p)) /\ PageFine(t, used, BusyAgain(p))
<1>1. PageFields \subseteq DOMAIN p
  BY DEF PageFine, PageFields
<1>2. /\ DOMAIN Busy(p) = DOMAIN p /\ Busy(p).sel = p.sel /\ Busy(p).life = p.life
      /\ Busy(p).draft = p.draft /\ Busy(p).creating = p.creating
  BY <1>1 DEF Busy, PageFields
<1>3. PageFine(t, used, Busy(p))
  BY <1>2, SamePage
<1>4. BusyAgain(p) = [Busy(p) EXCEPT !.error = FALSE]
  BY DEF Busy, BusyAgain
<1>5. /\ DOMAIN BusyAgain(p) = DOMAIN p /\ BusyAgain(p).sel = p.sel
      /\ BusyAgain(p).life = p.life /\ BusyAgain(p).draft = p.draft
      /\ BusyAgain(p).creating = p.creating
  BY <1>1, <1>2, <1>4 DEF PageFields
<1>6. PageFine(t, used, BusyAgain(p))
  BY <1>5, SamePage
<1> QED BY <1>3, <1>6

LEMMA ShownPage ==
    ASSUME NEW t, NEW used, NEW p, NEW r, NEW row, IsCopy(t, used, r, row.life, row.body)
    PROVE  PageFine(t, used, Shown(p, r, row))
<1>1. r # None
  BY ServiceAssumption DEF IsCopy, Body, Bodies
<1> QED BY <1>1 DEF PageFine, Shown

LEMMA QuietStep ==
    ASSUME Inv, UNCHANGED <<rows, active, approved, torn>>,
           \A p \in Requests :
               /\ Quiet(request[p], request'[p])
               /\ request'[p] \in {NotMade, Spent} \/ RequestFine(rows, Used, request'[p])
    PROVE  /\ Used \subseteq Used' /\ RowsFine(rows', Used') /\ RequestsFine' /\ DrawsFine'
           /\ ApprovedFine(rows', approved') /\ PointersFine' /\ PublicReached'
<1>1. Used \subseteq Used'
  BY UsedGrows DEF Quiet
<1>2. RowsFine(rows', Used') /\ Onward(rows, rows') /\ NonePublished(rows, rows')
  BY <1>1, RowsKept DEF Inv
<1>3. RequestsFine'
  <2>1. \A p \in Requests : request'[p] \in {NotMade, Spent} \/ RequestFine(rows', Used', request'[p])
    BY <1>1, <1>2, RequestOnward
  <2>2. (NotMade' = NotMade) /\ (Spent' = Spent)
    BY DEF NotMade, Spent
  <2> QED BY <2>1, <2>2 DEF RequestsFine
<1>4. DrawsFine'
  BY DrawsKept DEF Quiet, Inv
<1>5. PointersFine'
  BY <1>2, PointersKept DEF Inv
<1>6. PublicReached'
  BY <1>2, ReachedKept DEF Quiet, Inv
<1> QED BY <1>1, <1>2, <1>3, <1>4, <1>5, <1>6 DEF Inv

LEMMA QuietSame ==
    ASSUME NEW req
    PROVE  Quiet(req, req)
  BY DEF Quiet

\* A request that is made.
LEMMA QuietMade ==
    ASSUME NEW req, IsRequest(req), req.at = "sent"
    PROVE  Quiet(NotMade, req)
  BY NotMadeIsNot DEF Quiet, Drawn

\* A request whose page is gone.
LEMMA QuietLeft ==
    ASSUME NEW t, NEW used, NEW req, RequestFine(t, used, req)
    PROVE  Quiet(req, Left(req)) /\ (Left(req) = Spent \/ RequestFine(t, used, Left(req)))
<1> DEFINE new == [req EXCEPT !.awaited = FALSE, !.then = "none"]
<1>1. /\ IsRequest(new) /\ IsRequest(req) /\ new.at = req.at /\ new.op = req.op
      /\ new.rev = req.rev /\ RequestFine(t, used, new)
  BY LeftFields, LeftFine DEF RequestFine
<1>2. Left(req) = Kept(new)
  BY DEF Left
<1> HIDE DEF new
<1>3. CASE Kept(new) = new
  <2>1. IsUsed(req) => IsUsed(new)
    BY <1>1, RequestIsMade DEF IsUsed
  <2> QED BY <1>1, <1>2, <1>3, <2>1 DEF Quiet, Drawn, Between
<1>4. CASE Kept(new) = Spent /\ new.at \in Finished
  <2>1. ~Between(req)
    BY <1>1, <1>4 DEF Between, Finished
  <2> QED BY <1>2, <1>4, <2>1, SpentIsUsed DEF Quiet
<1> QED BY <1>3, <1>4, KeptIsEither

LEMMA ClickStep ==
    ASSUME Inv, NEW c \in Consoles, NEW shown, PageFine(rows, Used, shown),
           NEW req, RequestFine(rows, Used, req), req.at = "sent", NEW n, Click(c, shown, req, n)
    PROVE  Inv'
<1>1. PICK q \in Unmade : request' = [request EXCEPT ![q] = req]
  BY DEF Click
<1>2. q \in Requests /\ request[q] = NotMade /\ DOMAIN request = Requests
  BY DEF Unmade, Inv, Shapes
<1>3. page' = [page EXCEPT ![c] = shown] /\ UNCHANGED <<rows, active, approved, torn, listed>>
  BY DEF Click
<1>4. ASSUME NEW p \in Requests
      PROVE  /\ Quiet(request[p], request'[p])
             /\ request'[p] \in {NotMade, Spent} \/ RequestFine(rows, Used, request'[p])
  <2>1. CASE p = q
    BY <1>1, <1>2, <2>1, QuietMade DEF RequestFine
  <2>2. CASE p # q
    BY <1>1, <1>2, <2>2, QuietSame DEF Inv, RequestsFine
  <2> QED BY <2>1, <2>2
<1>5. /\ Used \subseteq Used' /\ RowsFine(rows', Used') /\ RequestsFine' /\ DrawsFine'
      /\ ApprovedFine(rows', approved') /\ PointersFine' /\ PublicReached'
  BY <1>3, <1>4, QuietStep
<1>6. Onward(rows, rows')
  BY <1>3 DEF Onward
<1>7. PagesFine'
  <2>1. \A x \in Consoles : PageFine(rows, Used, page'[x])
    BY <1>3 DEF Inv, Shapes, PagesFine
  <2> QED BY <1>3, <1>5, <1>6, <2>1, PageOnward, ListOnward DEF Inv, PagesFine
<1> QED BY <1>1, <1>2, <1>3, <1>5, <1>7 DEF Inv, Shapes

\* A page changes and sends nothing.
LEMMA PageStep ==
    ASSUME Inv, UNCHANGED <<rows, active, approved, torn, request, listed>>,
           DOMAIN page' = Consoles, \A c \in Consoles : PageFine(rows, Used, page'[c])
    PROVE  Inv'
<1>1. /\ Used \subseteq Used' /\ RowsFine(rows', Used') /\ RequestsFine' /\ DrawsFine'
      /\ ApprovedFine(rows', approved') /\ PointersFine' /\ PublicReached'
  BY QuietStep, QuietSame DEF Inv, RequestsFine
<1>2. Onward(rows, rows')
  BY DEF Onward
<1>3. PagesFine'
  BY <1>1, <1>2, PageOnward, ListOnward DEF Inv, PagesFine
<1> QED BY <1>1, <1>3 DEF Inv, Shapes

\* A page receives the answer of request q, or its failure.
LEMMA OverStep ==
    ASSUME Inv, NEW q \in Live, NEW goesOn \in BOOLEAN, goesOn => request[q].then # "none",
           NEW shown, PageFine(rows, Used, shown), Over(q, goesOn, shown),
           listed' = listed \/ listed' = [listed EXCEPT ![request[q].by] = rows]
    PROVE  Inv'
<1> DEFINE c == request[q].by
           r == request[q].rev
           then == request[q].then
           made == Made(c, then, r, None, "none")
           over == [request EXCEPT ![q] = Left(@)]
           shown2 == [shown EXCEPT !.saving = goesOn /\ then = "pairs"]
<1>1. q \in Requests /\ RequestFine(rows, Used, request[q]) /\ IsRequest(request[q])
  BY LiveFine DEF Inv
<1>2. c \in Consoles /\ DOMAIN request = Requests /\ request[q] # NotMade
  BY <1>1, RequestIsMade DEF IsRequest, Inv, Shapes
<1>3. /\ page' = [page EXCEPT ![c] = shown2] /\ UNCHANGED <<rows, active, approved, torn>>
      /\ \/ request' = over
         \/ goesOn /\ \E next \in Unmade : request' = [over EXCEPT ![next] = made]
  BY DEF Over, ServiceUnchanged
<1>4. PageFine(rows, Used, shown2)
  <2>1. DOMAIN shown2 = DOMAIN shown /\ shown2.sel = shown.sel /\ shown2.life = shown.life
        /\ shown2.draft = shown.draft /\ shown2.creating = shown.creating
    BY DEF PageFine
  <2> HIDE DEF shown2
  <2> QED BY <2>1, SamePage
<1>5. goesOn => RequestFine(rows, Used, made) /\ made.at = "sent"
  <2>1. goesOn => then \in {"pairs", "review"} /\ r \in DOMAIN rows
    BY <1>1 DEF RequestFine, IsRequest
  <2> HIDE DEF then, r, c
  <2>2. goesOn => IsRequest(made) /\ made.at = "sent" /\ made.op = then /\ made.rev = r
    BY <1>2, <2>1 DEF Made, IsRequest, RequestFields, Requesting, Transitions, Stages
  <2> HIDE DEF made
  <2> QED BY <2>1, <2>2 DEF RequestFine, Drawn, Between
<1>6. Quiet(request[q], Left(request[q]))
        /\ (Left(request[q]) = Spent \/ RequestFine(rows, Used, Left(request[q])))
  BY <1>1, QuietLeft
<1>7. over[q] = Left(request[q]) /\ DOMAIN over = Requests
      /\ \A p \in Requests : p # q => over[p] = request[p]
  BY <1>1, <1>2
<1> HIDE DEF over, made, shown2
<1>8. DOMAIN request' = Requests
  BY <1>3, <1>7
<1>9. ASSUME NEW p \in Requests
      PROVE  /\ Quiet(request[p], request'[p])
             /\ request'[p] \in {NotMade, Spent} \/ RequestFine(rows, Used, request'[p])
  <2>1. /\ Quiet(request[p], over[p])
        /\ over[p] \in {NotMade, Spent} \/ RequestFine(rows, Used, over[p])
    <3>1. CASE p = q
      BY <1>6, <1>7, <3>1
    <3>2. CASE p # q
      BY <1>7, <3>2, QuietSame DEF Inv, RequestsFine
    <3> QED BY <3>1, <3>2
  <2>2. CASE request' = over
    BY <2>1, <2>2
  <2>3. CASE goesOn /\ \E next \in Unmade : request' = [over EXCEPT ![next] = made]
    <3>1. PICK next \in Unmade : request' = [over EXCEPT ![next] = made]
      BY <2>3
    <3>2. next \in Requests /\ request[next] = NotMade
      BY DEF Unmade
    <3>3. CASE p = next
      <4>1. request'[p] = made
        BY <1>7, <3>1, <3>2, <3>3
      <4> QED BY <1>5, <2>3, <3>2, <3>3, <4>1, QuietMade DEF RequestFine
    <3>4. CASE p # next
      <4>1. request'[p] = over[p]
        BY <1>7, <3>1, <3>2, <3>4
      <4> QED BY <2>1, <4>1
    <3> QED BY <3>3, <3>4
  <2> QED BY <1>3, <2>2, <2>3
<1>10. /\ Used \subseteq Used' /\ RowsFine(rows', Used') /\ RequestsFine' /\ DrawsFine'
       /\ ApprovedFine(rows', approved') /\ PointersFine' /\ PublicReached'
  BY <1>3, <1>9, QuietStep
<1>11. Onward(rows, rows')
  BY <1>3 DEF Onward
<1> HIDE DEF c
<1>12. PagesFine'
  <2>1. \A x \in Consoles : PageFine(rows, Used, page'[x])
    BY <1>2, <1>3, <1>4 DEF Inv, Shapes, PagesFine
  <2>2. \A x \in Consoles : ListFine(rows, Used, listed'[x])
    <3>1. ListFine(rows, Used, rows)
      BY StoreIsList DEF Inv
    <3>2. listed' = listed \/ listed' = [listed EXCEPT ![c] = rows]
      BY DEF c
    <3> QED BY <1>2, <3>1, <3>2 DEF Inv, Shapes, PagesFine
  <2> QED BY <1>10, <1>11, <2>1, <2>2, PageOnward, ListOnward DEF PagesFine
<1>13. DOMAIN page' = Consoles /\ DOMAIN listed' = Consoles
  BY <1>3 DEF Inv, Shapes, c
<1> QED BY <1>3, <1>8, <1>10, <1>12, <1>13 DEF Inv, Shapes

\* What the page shows is a copy.
LEMMA ShownIsCopy ==
    ASSUME Inv, NEW c \in Consoles, EditorShown(c)
    PROVE  IsCopy(rows, Used, page[c].sel, page[c].life, page[c].draft)
  BY DEF Inv, PagesFine, PageFine, EditorShown

LEMMA MadeFine ==
    ASSUME NEW t, NEW used, NEW c \in Consoles, NEW op \in Requesting, NEW r, NEW node, NEW then,
           then # "none" => op = "save" /\ then \in {"pairs", "review"},
           op # "create" => r \in DOMAIN t,
           op = "save" => Body(used, r, node),
           op = "approve" => Frozen(t, r, node),
           op = "create" => node \in Forms
    PROVE  RequestFine(t, used, Made(c, op, r, node, then)) /\ Made(c, op, r, node, then).at = "sent"
<1> DEFINE req == Made(c, op, r, node, then)
<1>1. /\ IsRequest(req) /\ req.at = "sent" /\ req.op = op /\ req.rev = r /\ req.node = node
  BY DEF Made, IsRequest, RequestFields, Stages
<1> HIDE DEF req
<1>2. RequestFine(t, used, req)
  BY <1>1 DEF RequestFine, Drawn, Between, Transitions
<1> QED BY <1>1, <1>2 DEF req

LEMMA SaveRequestFine ==
    ASSUME Inv, NEW c \in Consoles, EditorShown(c), NEW then \in {"none", "pairs", "review"}
    PROVE  /\ RequestFine(rows, Used, SaveRequest(c, then)) /\ SaveRequest(c, then).at = "sent"
           /\ PageFine(rows, Used, Busy(page[c])) /\ PageFine(rows, Used, BusyAgain(page[c]))
<1>1. page[c].sel \in DOMAIN rows /\ Body(Used, page[c].sel, page[c].draft)
  BY ShownIsCopy DEF IsCopy
<1>2. "save" \in Requesting
  BY DEF Requesting
<1>3. RequestFine(rows, Used, SaveRequest(c, then)) /\ SaveRequest(c, then).at = "sent"
  <2>1. then # "none" => then \in {"pairs", "review"}
    OBVIOUS
  <2> DEFINE r == page[c].sel
             node == page[c].draft
  <2>2. r \in DOMAIN rows /\ Body(Used, r, node)
    BY <1>1
  <2> HIDE DEF r, node
  <2>3. RequestFine(rows, Used, Made(c, "save", r, node, then)) /\ Made(c, "save", r, node, then).at = "sent"
    BY <1>2, <2>1, <2>2, MadeFine
  <2> QED BY <2>3 DEF SaveRequest, r, node
<1> QED BY <1>3, BusyPage DEF Inv, PagesFine

LEMMA SaveDraftStep ==
    ASSUME Inv, NEW c \in Consoles, SaveDraft(c)
    PROVE  Inv'
<1>1. EditorShown(c) /\ Click(c, BusyAgain(page[c]), SaveRequest(c, "none"), 1)
  BY DEF SaveDraft, Editable
<1> QED BY <1>1, SaveRequestFine, ClickStep

LEMMA AddPairStep ==
    ASSUME Inv, NEW c \in Consoles, AddPair(c)
    PROVE  Inv'
<1>1. EditorShown(c)
  BY DEF AddPair, Editable
<1>2. CASE Click(c, BusyAgain(page[c]), SaveRequest(c, "pairs"), 2)
  BY <1>1, <1>2, SaveRequestFine, ClickStep
<1>3. CASE Click(c, Busy(page[c]), Made(c, "pairs", page[c].sel, None, "none"), 1)
  <2>1. page[c].sel \in DOMAIN rows /\ "pairs" \in Requesting
    BY <1>1, ShownIsCopy DEF IsCopy, Requesting
  <2>2. /\ RequestFine(rows, Used, Made(c, "pairs", page[c].sel, None, "none"))
        /\ Made(c, "pairs", page[c].sel, None, "none").at = "sent"
    BY <2>1, MadeFine
  <2>3. PageFine(rows, Used, Busy(page[c]))
    BY <1>1, SaveRequestFine
  <2> QED BY <1>3, <2>2, <2>3, ClickStep
<1> QED BY <1>2, <1>3 DEF AddPair

LEMMA SubmitForReviewStep ==
    ASSUME Inv, NEW c \in Consoles, SubmitForReview(c)
    PROVE  Inv'
<1>1. EditorShown(c)
  BY DEF SubmitForReview, Editable
<1>2. CASE Click(c, BusyAgain(page[c]), SaveRequest(c, "review"), 2)
  BY <1>1, <1>2, SaveRequestFine, ClickStep
<1>3. CASE Click(c, BusyAgain(page[c]), Made(c, "review", page[c].sel, None, "none"), 1)
  <2>1. page[c].sel \in DOMAIN rows /\ "review" \in Requesting
    BY <1>1, ShownIsCopy DEF IsCopy, Requesting, Transitions
  <2>2. /\ RequestFine(rows, Used, Made(c, "review", page[c].sel, None, "none"))
        /\ Made(c, "review", page[c].sel, None, "none").at = "sent"
    BY <2>1, MadeFine
  <2>3. PageFine(rows, Used, BusyAgain(page[c]))
    BY <1>1, SaveRequestFine
  <2> QED BY <1>3, <2>2, <2>3, ClickStep
<1> QED BY <1>2, <1>3 DEF SubmitForReview

\* Only a page that shows a reviewed revision offers its approval.
LEMMA OfferedSteps ==
    ASSUME NEW life, NEW op \in StepOffered(life)
    PROVE  /\ op \in Requesting /\ op # "save" /\ op # "create"
           /\ op = "approve" => life # "DRAFT"
  BY DEF StepOffered, Requesting, Transitions

LEMMA TakeStepStep ==
    ASSUME Inv, NEW c \in Consoles, TakeStep(c)
    PROVE  Inv'
<1>1. EditorShown(c)
  BY DEF TakeStep
<1>2. PICK op \in StepOffered(page[c].life) :
          Click(c, BusyAgain(page[c]), Made(c, op, page[c].sel, page[c].draft, "none"), 1)
  BY DEF TakeStep
<1>3. /\ op \in Requesting /\ op # "save" /\ op # "create"
      /\ op = "approve" => Frozen(rows, page[c].sel, page[c].draft)
      /\ page[c].sel \in DOMAIN rows
  BY <1>1, OfferedSteps, ShownIsCopy DEF IsCopy
<1>4. /\ RequestFine(rows, Used, Made(c, op, page[c].sel, page[c].draft, "none"))
      /\ Made(c, op, page[c].sel, page[c].draft, "none").at = "sent"
  BY <1>3, MadeFine
<1>5. PageFine(rows, Used, BusyAgain(page[c]))
  BY <1>1, SaveRequestFine
<1> QED BY <1>2, <1>4, <1>5, ClickStep

LEMMA CreateContentStep ==
    ASSUME Inv, NEW c \in Consoles, CreateContent(c)
    PROVE  Inv'
<1>1. PICK form \in Forms :
          Click(c, BusyAgain(page[c]), Made(c, "create", None, form, "none"), 1)
  BY DEF CreateContent
<1>2. /\ RequestFine(rows, Used, Made(c, "create", None, form, "none"))
      /\ Made(c, "create", None, form, "none").at = "sent"
  <2>1. "create" \in Requesting
    BY DEF Requesting
  <2> QED BY <2>1, MadeFine
<1>3. PageFine(rows, Used, BusyAgain(page[c]))
  BY BusyPage DEF Inv, PagesFine
<1> QED BY <1>1, <1>2, <1>3, ClickStep

LEMMA ChooseStep ==
    ASSUME Inv, NEW c \in Consoles, Choose(c)
    PROVE  Inv'
<1>1. PICK r \in DOMAIN listed[c] : page' = [page EXCEPT ![c] = Shown(page[c], r, listed[c][r])]
  BY DEF Choose
<1>2. PageFine(rows, Used, Shown(page[c], r, listed[c][r]))
  BY <1>1, ShownPage DEF Inv, PagesFine, ListFine
<1>3. DOMAIN page' = Consoles /\ \A x \in Consoles : PageFine(rows, Used, page'[x])
  BY <1>1, <1>2 DEF Inv, PagesFine, Shapes
<1> QED BY <1>3, PageStep DEF Choose, ServiceUnchanged

LEMMA EditStep ==
    ASSUME Inv, NEW c \in Consoles, Edit(c)
    PROVE  Inv'
<1>1. PICK node \in EditedNodes(page[c].draft) :
          page' = [page EXCEPT ![c].draft = node, ![c].dirty = TRUE]
  BY DEF Edit
<1> DEFINE p == page[c]
           a == [p EXCEPT !.draft = node]
           b == [a EXCEPT !.dirty = TRUE]
<1>2. DOMAIN page = Consoles /\ PageFine(rows, Used, p) /\ EditorShown(c) /\ p.life = "DRAFT"
  BY DEF Inv, Shapes, PagesFine, Edit, Editable
<1>3. page' = [page EXCEPT ![c] = b]
  BY <1>1, <1>2
<1>4. Body(Used, p.sel, node)
  BY <1>1, <1>2, ShownIsCopy, EditedBody DEF IsCopy
<1>5. PageFields \subseteq DOMAIN p
  BY <1>2 DEF PageFine, PageFields
<1> HIDE DEF p
<1>6. DOMAIN a = DOMAIN p /\ a.sel = p.sel /\ a.life = p.life /\ a.draft = node
  BY <1>5 DEF PageFields
<1>6a. a.creating = p.creating
  BY <1>5 DEF PageFields
<1> HIDE DEF a
<1>7. /\ DOMAIN b = DOMAIN p /\ b.sel = p.sel /\ b.life = p.life /\ b.draft = node
      /\ b.creating = p.creating
  BY <1>5, <1>6, <1>6a DEF PageFields
<1> HIDE DEF b
<1>8. PageFine(rows, Used, b)
  BY <1>1, <1>2, <1>4, <1>7 DEF PageFine, IsCopy, Editable, EditorShown, p
<1>9. DOMAIN page' = Consoles /\ \A x \in Consoles : PageFine(rows, Used, page'[x])
  BY <1>2, <1>3, <1>8 DEF Inv, PagesFine
<1> QED BY <1>9, PageStep DEF Edit, ServiceUnchanged

LEMMA StartCreationStep ==
    ASSUME Inv, NEW c \in Consoles, StartCreation(c)
    PROVE  Inv'
<1> DEFINE a == [page[c] EXCEPT !.creating = TRUE]
           b == [a EXCEPT !.sel = None]
           d == [b EXCEPT !.life = None]
           e == [d EXCEPT !.draft = None]
           f == [e EXCEPT !.error = FALSE]
<1>1. DOMAIN page = Consoles /\ PageFine(rows, Used, page[c])
  BY DEF Inv, Shapes, PagesFine
<1>2. page' = [page EXCEPT ![c] = f]
  BY <1>1 DEF StartCreation
<1>3. DOMAIN f = DOMAIN page[c] /\ f.sel = None /\ f.draft = None
  <2>1. PageFields \subseteq DOMAIN page[c] /\ DOMAIN a = DOMAIN page[c]
    BY <1>1 DEF PageFine, PageFields
  <2> HIDE DEF a
  <2>2. DOMAIN b = DOMAIN page[c] /\ b.sel = None
    BY <2>1 DEF PageFields
  <2> HIDE DEF b
  <2>3. DOMAIN d = DOMAIN page[c] /\ d.sel = None
    BY <2>1, <2>2 DEF PageFields
  <2> HIDE DEF d
  <2>4. DOMAIN e = DOMAIN page[c] /\ e.sel = None /\ e.draft = None
    BY <2>1, <2>3 DEF PageFields
  <2> HIDE DEF e
  <2> QED BY <2>1, <2>4 DEF PageFields
<1> HIDE DEF f
<1>4. PageFine(rows, Used, f)
  BY <1>1, <1>3 DEF PageFine
<1>5. DOMAIN page' = Consoles /\ \A x \in Consoles : PageFine(rows, Used, page'[x])
  BY <1>1, <1>2, <1>4 DEF Inv, PagesFine
<1> QED BY <1>5, PageStep DEF StartCreation, ServiceUnchanged

LEMMA CancelCreationStep ==
    ASSUME Inv, NEW c \in Consoles, CancelCreation(c)
    PROVE  Inv'
<1> DEFINE a == [page[c] EXCEPT !.creating = FALSE]
<1>1. DOMAIN page = Consoles /\ PageFine(rows, Used, page[c])
  BY DEF Inv, Shapes, PagesFine
<1>2. page' = [page EXCEPT ![c] = a]
  BY <1>1 DEF CancelCreation
<1>3. /\ DOMAIN a = DOMAIN page[c] /\ a.sel = page[c].sel /\ a.life = page[c].life
      /\ a.draft = page[c].draft /\ ~a.creating
  BY <1>1 DEF PageFine
<1> HIDE DEF a
<1>4. PageFine(rows, Used, a)
  BY <1>1, <1>3, SamePage
<1>5. DOMAIN page' = Consoles /\ \A x \in Consoles : PageFine(rows, Used, page'[x])
  BY <1>1, <1>2, <1>4 DEF Inv, PagesFine
<1> QED BY <1>5, PageStep DEF CancelCreation, ServiceUnchanged

LEMMA OpenStep ==
    ASSUME Inv, NEW c \in Consoles, Open(c)
    PROVE  Inv'
<1>1. /\ UNCHANGED <<rows, active, approved, torn>>
      /\ page' = [page EXCEPT ![c] = EmptyPage] /\ listed' = [listed EXCEPT ![c] = rows]
      /\ DOMAIN request' = Requests
      /\ \A p \in Requests : \/ p \in Live /\ request'[p] = Left(request[p])
                            \/ request'[p] = request[p]
  BY DEF Open, ServiceUnchanged
<1>2. ASSUME NEW p \in Requests
      PROVE  /\ Quiet(request[p], request'[p])
             /\ request'[p] \in {NotMade, Spent} \/ RequestFine(rows, Used, request'[p])
  <2>1. CASE p \in Live /\ request'[p] = Left(request[p])
    <3>1. RequestFine(rows, Used, request[p])
      BY <2>1, LiveFine DEF Inv
    <3> QED BY <2>1, <3>1, QuietLeft
  <2>2. CASE request'[p] = request[p]
    BY <2>2, QuietSame DEF Inv, RequestsFine
  <2> QED BY <1>1, <2>1, <2>2
<1>3. /\ Used \subseteq Used' /\ RowsFine(rows', Used') /\ RequestsFine' /\ DrawsFine'
      /\ ApprovedFine(rows', approved') /\ PointersFine' /\ PublicReached'
  BY <1>1, <1>2, QuietStep
<1>4. Onward(rows, rows')
  BY <1>1 DEF Onward
<1>5. PagesFine'
  <2>1. PageFine(rows, Used, EmptyPage)
    BY DEF PageFine, EmptyPage
  <2>2. ListFine(rows, Used, rows)
    BY StoreIsList DEF Inv
  <2>3. \A x \in Consoles : PageFine(rows, Used, page'[x]) /\ ListFine(rows, Used, listed'[x])
    BY <1>1, <2>1, <2>2 DEF Inv, Shapes, PagesFine
  <2> QED BY <1>3, <1>4, <2>3, PageOnward, ListOnward DEF PagesFine
<1> QED BY <1>1, <1>3, <1>5 DEF Inv, Shapes

LEMMA ErrorPage ==
    ASSUME NEW t, NEW used, NEW p, PageFine(t, used, p)
    PROVE  PageFine(t, used, [p EXCEPT !.error = TRUE])
<1> DEFINE a == [p EXCEPT !.error = TRUE]
<1>1. /\ DOMAIN a = DOMAIN p /\ a.sel = p.sel /\ a.life = p.life /\ a.draft = p.draft
      /\ a.creating = p.creating
  BY DEF PageFine
<1> HIDE DEF a
<1>2. PageFine(t, used, a)
  BY <1>1, SamePage
<1> QED BY <1>2 DEF a

LEMMA ReceiveAnswerStep ==
    ASSUME Inv, NEW q \in Requests, ReceiveAnswer(q)
    PROVE  Inv'
<1> DEFINE c == request[q].by
           goesOn == request[q].then # "none"
           shown == Shown(page[c], request[q].rev, Answer(q))
<1>1. /\ q \in Live /\ request[q].at = "done"
      /\ \/ listed' = [listed EXCEPT ![c] = rows] /\ Over(q, goesOn, shown)
         \/ listed' = listed /\ Over(q, goesOn, [shown EXCEPT !.error = TRUE])
  BY DEF ReceiveAnswer, Awaited
<1>2. RequestFine(rows, Used, request[q])
  BY <1>1, LiveFine DEF Inv
<1>3. IsCopy(rows, Used, request[q].rev, Answer(q).life, Answer(q).body)
  <2>1. /\ Answer(q).life = IF request[q].op \in Transitions THEN After[request[q].op] ELSE "DRAFT"
        /\ Answer(q).body = request[q].node
    BY DEF Answer, Row
  <2>2. RowsFine(rows, Used)
    BY DEF Inv
  <2> QED BY <1>1, <1>2, <2>1, <2>2, AnswerIsCopy
<1>4. PageFine(rows, Used, shown) /\ goesOn \in BOOLEAN
  BY <1>3, ShownPage
<1> HIDE DEF shown
<1>5. PageFine(rows, Used, [shown EXCEPT !.error = TRUE])
  BY <1>4, ErrorPage
<1>6. CASE listed' = [listed EXCEPT ![c] = rows] /\ Over(q, goesOn, shown)
  BY <1>1, <1>4, <1>6, OverStep
<1>7. CASE listed' = listed /\ Over(q, goesOn, [shown EXCEPT !.error = TRUE])
  BY <1>1, <1>4, <1>5, <1>7, OverStep
<1> QED BY <1>1, <1>6, <1>7

LEMMA ReceiveFailureStep ==
    ASSUME Inv, NEW q \in Requests, ReceiveFailure(q)
    PROVE  Inv'
<1> DEFINE c == request[q].by
           goesOn == request[q].then = "review"
           shown == [page[c] EXCEPT !.error = TRUE]
<1>1. q \in Live /\ Over(q, goesOn, shown) /\ listed' = listed
  BY DEF ReceiveFailure, Awaited
<1>2. c \in Consoles
  BY <1>1, LiveFine DEF Inv, IsRequest
<1>3. PageFine(rows, Used, shown) /\ goesOn \in BOOLEAN /\ (goesOn => request[q].then # "none")
  BY <1>2, ErrorPage DEF Inv, PagesFine
<1> HIDE DEF shown
<1> QED BY <1>1, <1>3, OverStep

(***************************************************************************)
(* The theorems.                                                           *)
(***************************************************************************)

LEMMA InitInv ==
    ASSUME Init
    PROVE  Inv
<1>1. PICK k \in Catalogues : rows = k.rows /\ active = k.active
  BY DEF Init, ServiceInit
<1>2. IsCatalogue(rows, active)
  BY <1>1, ServiceAssumption
<1>3. request = [q \in Requests |-> NotMade] /\ torn = {}
  BY DEF Init, ServiceInit
<1>4. Used = {}
  BY <1>3, NotMadeIsNot DEF Used
<1>5. RowsFine(rows, Used)
  BY <1>2, CatalogueBody DEF IsCatalogue, RowsFine, Public
<1>6. RequestsFine /\ DrawsFine
  BY <1>3, NotMadeIsNot DEF RequestsFine, DrawsFine
<1>7. ApprovedFine(rows, approved)
  <2>1. \A r \in DOMAIN rows : r \in Revisions
    BY <1>5 DEF RowsFine
  <2> QED BY <2>1 DEF Init, ServiceInit, ApprovedFine, Reviewed
<1>8. PointersFine
  BY <1>2 DEF IsCatalogue, PointersFine, Public
<1>9. PublicReached
  BY <1>2 DEF IsCatalogue, PublicReached, Public
<1>10. PagesFine
  <2>1. ListFine(rows, Used, rows)
    BY <1>5, StoreIsList
  <2>2. PageFine(rows, Used, EmptyPage)
    BY DEF PageFine, EmptyPage
  <2>3. \A r \in DOMAIN rows : PageFine(rows, Used, Shown(EmptyPage, r, rows[r]))
    BY <2>1, ShownPage DEF ListFine
  <2> QED BY <2>1, <2>2, <2>3 DEF Init, PagesFine
<1>11. Shapes
  BY <1>2, <1>3 DEF Init, ServiceInit, IsCatalogue, Shapes
<1> QED BY <1>5, <1>6, <1>7, <1>8, <1>9, <1>10, <1>11 DEF Inv

LEMMA NextInv ==
    ASSUME Inv, [Next]_vars
    PROVE  Inv'
<1>1. CASE UNCHANGED vars
  <2>1. /\ rows' = rows /\ active' = active /\ request' = request /\ approved' = approved
        /\ torn' = torn /\ page' = page /\ listed' = listed
    BY <1>1 DEF vars
  <2> QED BY <2>1, PageStep DEF Inv, Shapes, PagesFine
<1>2. ASSUME NEW q \in Requests, Serve(q), UNCHANGED <<page, listed, turns>>
      PROVE  Inv'
  BY <1>2, ServeStep DEF PageUnchanged
<1>3. ASSUME NEW q \in Requests, Die(q), UNCHANGED <<page, listed>>
      PROVE  Inv'
  BY <1>3, DieStep
<1>4. ASSUME NEW q \in Requests, ReceiveAnswer(q) \/ ReceiveFailure(q)
      PROVE  Inv'
  BY <1>4, ReceiveAnswerStep, ReceiveFailureStep
<1>5. ASSUME NEW c \in Consoles,
             SaveDraft(c) \/ AddPair(c) \/ SubmitForReview(c) \/ TakeStep(c) \/ CreateContent(c)
      PROVE  Inv'
  BY <1>5, SaveDraftStep, AddPairStep, SubmitForReviewStep, TakeStepStep, CreateContentStep
<1>6. ASSUME NEW c \in Consoles,
             Choose(c) \/ Edit(c) \/ StartCreation(c) \/ CancelCreation(c) \/ Open(c)
      PROVE  Inv'
  BY <1>6, ChooseStep, EditStep, StartCreationStep, CancelCreationStep, OpenStep
<1>7. CASE Next
  BY <1>2, <1>3, <1>4, <1>5, <1>6, <1>7 DEF Next
<1> QED BY <1>1, <1>7

LEMMA InvHolds == Spec => []Inv
<1>1. Init => Inv
  BY InitInv
<1>2. Inv /\ [Next]_vars => Inv'
  BY NextInv
<1> QED BY <1>1, <1>2, PTL DEF Spec

\* Whatever editors, pages, late answers and crashes do, learners get what was approved.
THEOREM LearnersAreServedWhatWasApproved == Spec => []LearnersGetWhatWasApproved
<1>1. Inv => LearnersGetWhatWasApproved
  <2> SUFFICES ASSUME Inv, NEW s \in Revisions, active[s] # None
               PROVE  /\ IsPublic(active[s])
                      /\ rows[active[s]].body.skill = s
                      /\ rows[active[s]].body = approved[active[s]]
                      /\ ValidatePublishableContent(rows[active[s]].body)
    BY DEF LearnersGetWhatWasApproved
  <2> DEFINE r == active[s]
  <2>1. r \in DOMAIN rows /\ rows[r].life \in Public /\ rows[r].body.skill = s
    BY DEF Inv, PointersFine
  <2>2. IsPublic(r)
    BY <2>1 DEF IsPublic, Stored, Public
  <2>3. ValidatePublishableContent(rows[r].body)
    BY <2>1 DEF Inv, RowsFine
  <2>4. rows[r].body = approved[r]
    BY <2>1 DEF Inv, ApprovedFine, Public, Reviewed
  <2> QED BY <2>1, <2>2, <2>3, <2>4
<1> QED BY <1>1, InvHolds, PTL

\* A PUBLISHED revision out of the learners' reach is one whose publication is half done, or
\* its skill points to a revision that was deprecated.
THEOREM UnreachedAreExplained == Spec => []UnreachedIsExplained
<1>1. Inv => UnreachedIsExplained
  <2> SUFFICES ASSUME Inv, NEW r \in Stored, rows[r].life = "PUBLISHED",
                      ~Reached(rows[r].body.skill)
               PROVE  HalfDone(r) \/ Withdrawn(rows[r].body.skill)
    BY DEF UnreachedIsExplained
  <2> DEFINE skill == rows[r].body.skill
  <2>1. CASE active[skill] = None
    <3>1. r \in torn \/ \E q \in Requests : Between(request[q]) /\ request[q].rev = r
      BY <2>1 DEF Inv, PublicReached, Stored, Public
    <3>2. \A q \in Requests : Between(request[q]) => q \in Live /\ At(q, "publish", "between")
      BY NotMadeIsNot, SpentIsUsed DEF Live, At, Between
    <3> QED BY <3>1, <3>2 DEF HalfDone
  <2>2. CASE active[skill] # None
    <3>1. rows[r].body \in Bodies
      BY DEF Inv, RowsFine, Stored, Body
    <3>2. skill \in Revisions
      BY <3>1 DEF Bodies
    <3>3. rows[active[skill]].life \in {"PUBLISHED", "DEPRECATED"}
      BY <2>2, <3>2 DEF Inv, PointersFine, Public
    <3> QED BY <2>2, <3>3 DEF Reached, Withdrawn
  <2> QED BY <2>1, <2>2
<1> QED BY <1>1, InvHolds, PTL

\* Every stored body belongs to its own row, and no pair is in it twice.
THEOREM RowsStayCoherent == Spec => []RowsAreCoherent
<1>1. Inv => RowsAreCoherent
  BY BodyIsCoherent DEF Inv, RowsFine, RowsAreCoherent, Stored
<1> QED BY <1>1, InvHolds, PTL

-----------------------------------------------------------------------------
(* Types, and the rubrics on the pages. *)

Counts == turns \in 0..MaxTurns /\ active \in [Revisions -> Revisions \cup {None}]

\* Only the end of a publication moves a pointer, to the revision that was published.
LEMMA ServeCounts ==
    ASSUME Inv, Counts, NEW q \in Requests, Serve(q)
    PROVE  active' \in [Revisions -> Revisions \cup {None}]
<1>1. CASE PointActive(q)
  <2>1. q \in Live /\ request[q].op = "publish" /\ request[q].at = "between"
    BY <1>1 DEF PointActive, At
  <2>2. request[q].rev \in DOMAIN rows
    BY <2>1, LiveFine DEF Inv, RequestFine, Transitions
  <2>3. request[q].rev \in Revisions
    BY <2>2 DEF Inv, RowsFine
  <2>4. active' = [active EXCEPT ![request[q].node.skill] = request[q].rev]
    BY <1>1 DEF PointActive
  <2> DEFINE r == request[q].rev
             s == request[q].node.skill
  <2> HIDE DEF r, s
  <2>5. active' = [active EXCEPT ![s] = r] /\ r \in Revisions
    BY <2>3, <2>4 DEF r, s
  <2> QED BY <2>5 DEF Counts
<1>2. CASE ~PointActive(q)
  <2>1. UNCHANGED active
    BY <1>2 DEF Serve, Save, ReadForPair, WritePair, EditDraft, ReadForNext, ReadForCreate, CreateDraft,
       Review, Approve, PublishRow, Deprecate, Transition, RefuseTransition
  <2> QED BY <2>1 DEF Counts
<1> QED BY <1>1, <1>2

LEMMA OverCounts ==
    ASSUME NEW q, NEW goesOn, NEW shown, Over(q, goesOn, shown)
    PROVE  UNCHANGED active
  BY DEF Over, ServiceUnchanged

LEMMA CountsStep ==
    ASSUME Inv, Counts, [Next]_vars
    PROVE  Counts'
<1>1. CASE UNCHANGED vars
  BY <1>1 DEF Counts, vars
<1>2. ASSUME NEW q \in Requests, Serve(q), UNCHANGED <<page, listed, turns>>
      PROVE  Counts'
  BY <1>2, ServeCounts DEF Counts
<1>3. ASSUME Turn \/ UNCHANGED turns, UNCHANGED active
      PROVE  Counts'
  BY <1>3, StudioAssumption DEF Counts, Turn
<1>4. ASSUME NEW q \in Requests, (Die(q) /\ Turn) \/ ReceiveAnswer(q) \/ ReceiveFailure(q)
      PROVE  Counts'
  <2>1. CASE Die(q) /\ Turn
    BY <1>3, <2>1 DEF Die
  <2>2. CASE ReceiveAnswer(q)
    BY <1>3, <2>2, OverCounts DEF ReceiveAnswer
  <2>3. CASE ReceiveFailure(q)
    BY <1>3, <2>3, OverCounts DEF ReceiveFailure
  <2> QED BY <1>4, <2>1, <2>2, <2>3
<1>5. ASSUME NEW c \in Consoles, NEW shown, NEW req, NEW n, Click(c, shown, req, n)
      PROVE  Counts'
  BY <1>3, <1>5 DEF Click
<1>6. ASSUME NEW c \in Consoles,
             SaveDraft(c) \/ AddPair(c) \/ SubmitForReview(c) \/ TakeStep(c) \/ CreateContent(c)
      PROVE  Counts'
  BY <1>5, <1>6 DEF SaveDraft, AddPair, SubmitForReview, TakeStep, CreateContent
<1>7. ASSUME NEW c \in Consoles,
             Choose(c) \/ Edit(c) \/ StartCreation(c) \/ CancelCreation(c) \/ Open(c)
      PROVE  Counts'
  BY <1>3, <1>7 DEF Choose, Edit, StartCreation, CancelCreation, Open, ServiceUnchanged
<1> QED BY <1>1, <1>2, <1>4, <1>6, <1>7 DEF Next

LEMMA CountsHold == Spec => []Counts
<1>1. Init => Counts
  <2> SUFFICES ASSUME Init PROVE Counts
    OBVIOUS
  <2>1. PICK k \in Catalogues : rows = k.rows /\ active = k.active
    BY DEF Init, ServiceInit
  <2>2. active \in [Revisions -> Revisions \cup {None}]
    BY <2>1, ServiceAssumption DEF IsCatalogue
  <2> QED BY <2>2, StudioAssumption DEF Init, Counts
<1>2. Inv /\ Counts /\ [Next]_vars => Counts'
  BY CountsStep
<1> QED BY <1>1, <1>2, InvHolds, PTL DEF Spec

\* Whatever is typed, answered late or lost, rows and pages hold bodies of the content format
\* or nothing, and every request is somewhere at the server and at its page.
THEOREM ContentTypesHold == Spec => []ContentTypeOK
<1>1. Inv /\ Counts => ContentTypeOK
  <2> SUFFICES ASSUME Inv, Counts
               PROVE  ContentTypeOK
    OBVIOUS
  <2>1. Stored \subseteq Revisions
        /\ \A r \in Stored : rows[r].life \in Lifecycle /\ rows[r].body \in Bodies
    BY DEF Inv, RowsFine, Body, Stored
  <2>2. \A q \in Live : request[q].by \in Consoles /\ request[q].at \in Stages
    BY LiveFine DEF Inv, RequestFine, IsRequest
  <2>3. ASSUME NEW c \in Consoles
        PROVE  /\ page[c].draft \in Bodies \cup {None}
               /\ (page[c].sel = None) = (page[c].draft = None)
               /\ page[c].creating => page[c].sel = None
    <3>1. PageFine(rows, Used, page[c])
      BY DEF Inv, PagesFine
    <3>2. page[c].sel # None => page[c].draft \in Bodies
      BY <3>1 DEF PageFine, IsCopy, Body
    <3>3. None \notin Bodies
      BY ServiceAssumption
    <3> QED BY <3>1, <3>2, <3>3 DEF PageFine
  <2> QED BY <2>1, <2>2, <2>3 DEF ContentTypeOK, Counts
<1> QED BY <1>1, InvHolds, CountsHold, PTL

\* However criteria are added, removed and renumbered, in however many sittings and on however
\* many pages, no rubric on a page requires a criterion it does not have.
THEOREM RubricsRequireWhatTheyHave == Spec => []RequiredCriteriaExist
<1>1. Inv => RequiredCriteriaExist
  <2> SUFFICES ASSUME Inv, NEW c \in Consoles, page[c].draft # None,
                      NEW pair \in SeqRange(page[c].draft.pairs),
                      NEW task \in {pair.practice, pair.transfer}
               PROVE  Sound(task.rubric)
    BY DEF RequiredCriteriaExist, Sound
  <2>1. PageFine(rows, Used, page[c])
    BY DEF Inv, PagesFine
  <2>2. ArePairs(Used, page[c].sel, page[c].draft.skill, page[c].draft.pairs)
    BY <2>1 DEF PageFine, IsCopy, Body
  <2>3. IsPair(Used, page[c].sel, page[c].draft.skill, pair)
    BY <2>2, ElementsMakeSeq DEF ArePairs, SeqRange
  <2> QED BY <2>3 DEF IsPair, IsTask
<1> QED BY <1>1, InvHolds, PTL

-----------------------------------------------------------------------------
(* The store implements RevisionLifecycle. *)

\* The abstract definitions are those of ReviewedContent.
LEMMA SameChecks ==
    ASSUME NEW r, NEW node
    PROVE  /\ L!RevisionBound(r, node) <=> RevisionBound(r, node)
           /\ L!ValidatePublishableContent(node) <=> ValidatePublishableContent(node)
  BY DEF L!RevisionBound, RevisionBound, L!ValidatePublishableContent, ValidatePublishableContent,
         L!ValidateContentAggregate, ValidateContentAggregate, L!ValidGate, ValidGate,
         L!Labelled, Labelled, L!IsUnique, IsUnique, L!PairId, PairId, L!SeqRange, SeqRange,
         L!ReviewedTask, ReviewedTask, L!Blank, Blank,
         L!ValidateReviewedAssessment, ValidateReviewedAssessment, L!CriterionIds, CriterionIds

\* Writing a draft is a step of the lifecycle.
LEMMA WriteRefines ==
    ASSUME NEW r \in Revisions, NEW used, NEW node, Body(used, r, node),
           r \in DOMAIN rows => rows[r].life = "DRAFT",
           rows' = Upsert(rows, r, Row("DRAFT", node))
    PROVE  L!LifecycleNext
<1>1. r \in DOMAIN rows' /\ rows'[r] = Row("DRAFT", node)
  BY DEF Upsert
<1>2. rows'[r].body = node
  BY <1>1 DEF Row
<1>3. L!RevisionBound(r, node)
  BY SameChecks, BodyIsCoherent
<1>4. rows' = L!Upsert(rows, r, L!Draft(node))
  BY DEF Upsert, Row, L!Upsert, L!Draft
<1>5. L!Write(r, rows'[r].body)
  BY <1>2, <1>3, <1>4 DEF L!Write
<1> QED BY <1>1, <1>5 DEF L!LifecycleNext

LEMMA EditRefines ==
    ASSUME Inv, NEW q \in Live, Body(Used, request[q].rev, request[q].node), EditDraft(q)
    PROVE  L!LifecycleNext \/ rows' = rows
<1> DEFINE r == request[q].rev
           node == request[q].node
<1>1. CASE IsDraft(r) /\ rows' = [rows EXCEPT ![r] = Row("DRAFT", node)]
  <2>1. r \in DOMAIN rows /\ rows[r].life = "DRAFT" /\ r \in Revisions
    BY <1>1 DEF IsDraft, Inv, RowsFine
  <2>2. rows' = Upsert(rows, r, Row("DRAFT", node))
    BY <1>1, <2>1 DEF Upsert
  <2> HIDE DEF r, node
  <2> QED BY <2>1, <2>2, WriteRefines DEF r, node
<1>2. CASE UNCHANGED rows
  BY <1>2
<1> QED BY <1>1, <1>2 DEF EditDraft

LEMMA TransitionRefines ==
    ASSUME Inv, NEW q \in Requests, NEW step \in Transitions, NEW stage, Transition(q, step, stage)
    PROVE  L!LifecycleNext
<1> DEFINE r == request[q].rev
<1>1. /\ q \in Live /\ request[q].op = step /\ Permitted(r, step)
      /\ rows' = [rows EXCEPT ![r].life = After[step]]
  BY DEF Transition, At
<1>2. r \in DOMAIN rows /\ r \in Revisions
  BY <1>1, LiveFine DEF Inv, RequestFine, RowsFine
<1>3. L!Advance(r, step)
  <2>1. L!Before = Before /\ L!After = After
    BY DEF L!Before, Before, L!After, After
  <2>2. step = "publish" => L!ValidatePublishableContent(rows[r].body)
    BY <1>1, SameChecks DEF Permitted
  <2> QED BY <1>1, <1>2, <2>1, <2>2 DEF L!Advance, Permitted
<1>4. step \in L!Transitions
  BY DEF L!Transitions, Transitions
<1> QED BY <1>2, <1>3, <1>4 DEF L!LifecycleNext

LEMMA ServeRefines ==
    ASSUME Inv, NEW q \in Requests, Serve(q)
    PROVE  L!LifecycleNext \/ rows' = rows
<1>1. CASE Save(q) \/ WritePair(q)
  <2>1. q \in Live /\ EditDraft(q)
    BY <1>1 DEF Save, WritePair, At
  <2>2. Body(Used, request[q].rev, request[q].node)
    BY <1>1, <2>1, LiveFine DEF Save, WritePair, At, Inv, RequestFine
  <2> QED BY <2>1, <2>2, EditRefines
<1>2. CASE CreateDraft(q)
  <2> DEFINE r == request[q].rev
             node == request[q].node
  <2>1. q \in Live /\ Drawn(request[q]) /\ rows' = Upsert(rows, r, Row("DRAFT", node))
    BY <1>2 DEF CreateDraft, At, Drawn
  <2>2. r \in Revisions /\ Body(Used, r, node) /\ r \notin DOMAIN rows
    BY <2>1, LiveFine DEF Inv, RequestFine, DrawsFine
  <2> HIDE DEF r, node
  <2> QED BY <2>1, <2>2, WriteRefines DEF r, node
<1>3. CASE Review(q) \/ Approve(q) \/ PublishRow(q) \/ Deprecate(q)
  <2>1. \E step \in Transitions : \E stage : Transition(q, step, stage)
    BY <1>3 DEF Review, Approve, PublishRow, Deprecate, Transitions
  <2> QED BY <2>1, TransitionRefines
<1>4. CASE ReadForPair(q) \/ ReadForNext(q) \/ ReadForCreate(q) \/ PointActive(q) \/ RefuseTransition(q)
  BY <1>4 DEF ReadForPair, ReadForNext, ReadForCreate, PointActive, RefuseTransition
<1> QED BY <1>1, <1>2, <1>3, <1>4 DEF Serve

LEMMA NextRefines ==
    ASSUME Inv, [Next]_vars
    PROVE  L!LifecycleNext \/ rows' = rows
<1>1. CASE UNCHANGED vars
  BY <1>1 DEF vars
<1>2. ASSUME NEW q \in Requests, Serve(q)
      PROVE  L!LifecycleNext \/ rows' = rows
  BY <1>2, ServeRefines
<1>3. ASSUME NEW q \in Requests, Die(q) \/ ReceiveAnswer(q) \/ ReceiveFailure(q)
      PROVE  rows' = rows
  BY <1>3 DEF Die, ReceiveAnswer, ReceiveFailure, Over, ServiceUnchanged
<1>4. ASSUME NEW c \in Consoles,
             SaveDraft(c) \/ AddPair(c) \/ SubmitForReview(c) \/ TakeStep(c) \/ CreateContent(c)
      PROVE  rows' = rows
  BY <1>4 DEF SaveDraft, AddPair, SubmitForReview, TakeStep, CreateContent, Click
<1>5. ASSUME NEW c \in Consoles,
             Choose(c) \/ Edit(c) \/ StartCreation(c) \/ CancelCreation(c) \/ Open(c)
      PROVE  rows' = rows
  BY <1>5 DEF Choose, Edit, StartCreation, CancelCreation, Open, ServiceUnchanged
<1>6. CASE Next
  BY <1>2, <1>3, <1>4, <1>5, <1>6 DEF Next
<1> QED BY <1>1, <1>6

\* The store with requests, pages and crashes around it is the lifecycle of its revisions.
THEOREM StoreImplementsLifecycle == Spec => RefinesRevisionLifecycle
<1>1. Inv => L!LifecycleInit
  BY SameChecks, BodyIsCoherent DEF L!LifecycleInit, Inv, RowsFine
<1>2. Init => L!LifecycleInit
  BY <1>1, InitInv
<1>3. Inv /\ [Next]_vars => [L!LifecycleNext]_rows
  BY NextRefines
<1> QED BY <1>2, <1>3, InvHolds, PTL DEF Spec, RefinesRevisionLifecycle, L!LifecycleSpec
=============================================================================
