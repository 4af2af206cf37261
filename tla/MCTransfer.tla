------------------------------ MODULE MCTransfer ------------------------------
(* Small instances of TransferQuest for TLC. *)
EXTENDS TransferProperties, TLC

CONSTANTS a1, a2, q1, q2, p1, p2, p3, w1, w2

OneOwner == [q \in Practices |-> a1]

\* Both practices are bound to the same pair, or each to its own.
SamePair == [q \in Practices |-> p1]
OwnPair == q1 :> p1 @@ q2 :> p2

\* Every pair has its own transfer task, or the first two share one.
OwnTasks == [p \in Pairs |-> p]
SharedTask == [p \in Pairs |-> IF p \in {p1, p2} THEN w1 ELSE w2]

Symmetry == Permutations(Handlers) \cup Permutations(Keys) \cup Permutations(ActorSessions)
=============================================================================
