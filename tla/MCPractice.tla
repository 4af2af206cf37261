----------------------------- MODULE MCPractice -----------------------------
(* Small instances of PracticeChallenge for TLC. *)
EXTENDS PracticeProperties, TLC

Symmetry == Permutations(Handlers) \cup Permutations(Keys)
                \cup Permutations(Actors) \cup Permutations(ActorSessions)

\* No run of this module makes a published start; this value is never looked at.
AnySession == [x \in Actors \X Keys |-> CHOOSE s \in Sessions : TRUE]
=============================================================================
