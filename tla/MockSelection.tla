--------------------------- MODULE MockSelection ---------------------------
(***************************************************************************)
(* What the collection phase of ccmock promises, without its traversal,    *)
(* its caches and its order: each declaration the unit under test needs    *)
(* from elsewhere and no option rules out is selected once, nothing else   *)
(* ever is, and the phase ends with all of them or, only where there is a  *)
(* reason to, with an error.                                               *)
(***************************************************************************)
VARIABLES
    wanted,     \* the declarations to select
    obstacle,   \* an entry or a declaration the phase cannot handle
    selected,   \* the declarations selected so far
    outcome     \* "running", "complete" or "failed"

vars == <<wanted, obstacle, selected, outcome>>

Init == obstacle \in BOOLEAN /\ selected = {} /\ outcome = "running"

Select ==
    /\ outcome = "running"
    /\ \E d \in wanted \ selected : selected' = selected \cup {d}
    /\ UNCHANGED <<wanted, obstacle, outcome>>

Complete ==
    /\ outcome = "running" /\ selected = wanted /\ ~obstacle
    /\ outcome' = "complete"
    /\ UNCHANGED <<wanted, obstacle, selected>>

Fail ==
    /\ outcome = "running" /\ obstacle
    /\ outcome' = "failed"
    /\ UNCHANGED <<wanted, obstacle, selected>>

Next == Select \/ Complete \/ Fail

Spec == Init /\ [][Next]_vars
=============================================================================
