---------------------------- MODULE CapabilityPath ----------------------------
(***************************************************************************)
(* What the road to a capability receipt promises, without requests or a   *)
(* store: a transfer begins on a solved practice, takes answers one after  *)
(* the other until one verifies it, and a verified transfer is certified   *)
(* once.  TransferQuest, where requests race, implements this.             *)
(***************************************************************************)
EXTENDS Naturals

CONSTANTS Practices, Transfers, Actors, Keys

VARIABLES
    solved,      \* the practice sessions that are solved
    quests,      \* the transfers that began, and how far each has come
    certified    \* the transfers a receipt was issued for

pathVars == <<solved, quests, certified>>

Solve(q) ==
    /\ q \notin solved
    /\ solved' = solved \cup {q}
    /\ UNCHANGED <<quests, certified>>

\* A transfer begins on a solved practice; operation k begins it.
Begin(t, q, a, k) ==
    /\ q \in solved
    /\ t \notin DOMAIN quests
    /\ quests' = [x \in DOMAIN quests \cup {t} |->
                    IF x = t THEN [actor |-> a, practice |-> q, stage |-> "working",
                                   attempts |-> 0, revealed |-> FALSE, done |-> {k}]
                    ELSE quests[x]]
    /\ UNCHANGED <<solved, certified>>

\* An answer is tried; once one is accepted there is no other.
Try(t, k, accepted) ==
    /\ t \in DOMAIN quests
    /\ quests[t].stage = "working" /\ k \notin quests[t].done
    /\ quests' = [quests EXCEPT ![t].stage = IF accepted THEN "verified" ELSE @,
                                ![t].attempts = @ + 1,
                                ![t].done = @ \cup {k}]
    /\ UNCHANGED <<solved, certified>>

\* The connection is shown after the transfer is verified.
Reveal(t) ==
    /\ t \in DOMAIN quests /\ quests[t].stage = "verified"
    /\ quests' = [quests EXCEPT ![t].revealed = TRUE]
    /\ UNCHANGED <<solved, certified>>

Certify(t) ==
    /\ t \in DOMAIN quests /\ quests[t].stage = "verified"
    /\ t \notin certified
    /\ certified' = certified \cup {t}
    /\ UNCHANGED <<solved, quests>>

PathInit == solved = {} /\ certified = {} /\ quests = [t \in {} |-> {}]

PathNext ==
    \/ \E q \in Practices : Solve(q)
    \/ \E t \in Transfers :
           \/ \E q \in Practices, a \in Actors, k \in Keys : Begin(t, q, a, k)
           \/ \E k \in Keys : Try(t, k, TRUE) \/ Try(t, k, FALSE)
           \/ Reveal(t)
           \/ Certify(t)

PathSpec == PathInit /\ [][PathNext]_pathVars
=============================================================================
