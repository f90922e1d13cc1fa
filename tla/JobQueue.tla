------------------------------- MODULE JobQueue -------------------------------
(***************************************************************************)
(* What the owners of a background worker of xpiks rely on, with the queue *)
(* itself hidden: a job that was accepted runs at most once, one job runs  *)
(* at a time, the jobs of one submission start in the order they were      *)
(* submitted in, and a withdrawn job never starts.                         *)
(* ItemProcessingWorker implements this specification.                     *)
(***************************************************************************)
EXTENDS Integers

CONSTANT Jobs      \* records with an id (the submission) and an n (the rank in it)

VARIABLES
    waiting,       \* accepted, not started, not withdrawn
    running,       \* at most one job
    done,          \* finished, with or without a result
    accepted       \* every job that was ever accepted

vars == <<waiting, running, done, accepted>>

Init ==
    /\ waiting = {}
    /\ running = {}
    /\ done = {}
    /\ accepted = {}

\* A submission: a group of jobs nobody has seen before.
Accept(group) ==
    /\ group \cap accepted = {}
    /\ waiting' = waiting \cup group
    /\ accepted' = accepted \cup group
    /\ UNCHANGED <<running, done>>

\* A job starts when nothing runs and nothing of its submission precedes it.
Start(j) ==
    /\ running = {}
    /\ j \in waiting
    /\ \A k \in waiting : k.id = j.id => j.n <= k.n
    /\ waiting' = waiting \ {j}
    /\ running' = {j}
    /\ UNCHANGED <<done, accepted>>

Finish ==
    /\ running # {}
    /\ running' = {}
    /\ done' = done \cup running
    /\ UNCHANGED <<waiting, accepted>>

Withdraw(group) ==
    /\ waiting' = waiting \ group
    /\ UNCHANGED <<running, done, accepted>>

Next ==
    \/ \E group \in SUBSET Jobs : Accept(group) \/ Withdraw(group)
    \/ \E j \in Jobs : Start(j)
    \/ Finish

Spec == Init /\ [][Next]_vars

=============================================================================
