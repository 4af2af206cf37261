----------------------------- MODULE MCDemoReset -----------------------------
(* Small instances of DemoReset for TLC. *)
EXTENDS DemoReset, TLC

Symmetry == Permutations(Handlers) \cup Permutations(Keys)
                \cup Permutations(ActorSessions) \cup Permutations(Sessions)

\* No run with symmetry makes a published start; this value is a placeholder.
AnySession == [x \in Actors \X Keys |-> CHOOSE s \in Sessions : TRUE]
=============================================================================
