--------------------------- MODULE WriteBehindStore ---------------------------
(***************************************************************************)
(* What a write-ahead log in front of a table promises to those who write  *)
(* through it: every key has one newest value, which nothing but a write   *)
(* or the end of the program changes; saving moves newest values to the    *)
(* table; what was not saved is gone when the program ends, and then the   *)
(* table is all there is.                                                  *)
(***************************************************************************)
EXTENDS Integers

CONSTANTS Keys, Values    \* Values holds a mark for a key that has none

VARIABLES
    newest,               \* what the last write of the key said
    saved,                \* what the table holds
    quits                 \* how often the program ended

vars == <<newest, saved, quits>>

Init ==
    /\ saved \in [Keys -> Values]
    /\ newest = saved
    /\ quits = 0

Write(k, v) ==
    /\ newest' = [newest EXCEPT ![k] = v]
    /\ UNCHANGED <<saved, quits>>

Save(K) ==
    /\ saved' = [k \in Keys |-> IF k \in K THEN newest[k] ELSE saved[k]]
    /\ UNCHANGED <<newest, quits>>

Quit ==
    /\ quits' = quits + 1
    /\ newest' = saved
    /\ UNCHANGED saved

Next ==
    \/ \E k \in Keys, v \in Values : Write(k, v)
    \/ \E K \in SUBSET Keys : Save(K)
    \/ Quit

Spec == Init /\ [][Next]_vars

=============================================================================
