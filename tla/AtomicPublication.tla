-------------------------- MODULE AtomicPublication --------------------------
(***************************************************************************)
(* What the storage layer promises its readers (the docstring of           *)
(* app/storage/atomic.py): an artifact is either not there or there whole, *)
(* it never changes once it is there, and what a writer was told is        *)
(* published stays published.                                              *)
(***************************************************************************)
CONSTANTS
    Artifacts,
    Durable         \* artifacts whose acknowledged publication survives a power loss

VARIABLES
    reader,         \* what a lookup finds: "nothing", "whole" or "broken"
    acknowledged    \* artifacts whose writer was told that they are published

pubVars == <<reader, acknowledged>>

Init ==
    /\ reader = [a \in Artifacts |-> "nothing"]
    /\ acknowledged = {}

Publish(a) ==
    /\ reader[a] = "nothing"
    /\ reader' = [reader EXCEPT ![a] = "whole"]
    /\ UNCHANGED acknowledged

Acknowledge(a) ==
    /\ reader[a] = "whole"
    /\ acknowledged' = acknowledged \union {a}
    /\ UNCHANGED reader

\* A power loss may undo publications, but not the durable, acknowledged ones.
Lose(S) ==
    /\ S \cap acknowledged \cap Durable = {}
    /\ reader' = [a \in Artifacts |-> IF a \in S THEN "nothing" ELSE reader[a]]
    /\ UNCHANGED acknowledged

Next ==
    \/ \E a \in Artifacts : Publish(a) \/ Acknowledge(a)
    \/ \E S \in SUBSET Artifacts : Lose(S)

Spec == Init /\ [][Next]_pubVars
=============================================================================
