------------------------------ MODULE MockFile ------------------------------
(***************************************************************************)
(* What a run of ccmock promises for one translation unit: the file of     *)
(* mocks appears once, in one step, with exactly the wanted entities in    *)
(* it, or the run fails for a reason and there is no file.  Where it comes *)
(* to depend on undefined behaviour, it may end either way.                *)
(***************************************************************************)
VARIABLES
    wanted,     \* the functions and variables to provide
    obstacle,   \* something in the input or the environment forbids it
    undefined,  \* the input takes the program to undefined behaviour
    file,       \* the entities the file provides
    outcome     \* "running", "written" or "failed"

vars == <<wanted, obstacle, undefined, file, outcome>>

Init ==
    /\ {obstacle, undefined} \subseteq BOOLEAN
    /\ file = {} /\ outcome = "running"

Publish ==
    /\ outcome = "running" /\ ~obstacle
    /\ file' = wanted
    /\ outcome' = "written"
    /\ UNCHANGED <<wanted, obstacle, undefined>>

Fail ==
    /\ outcome = "running" /\ (obstacle \/ undefined)
    /\ outcome' = "failed"
    /\ UNCHANGED <<wanted, obstacle, undefined, file>>

Next == Publish \/ Fail

\* Every run comes to an end.
Spec == Init /\ [][Next]_vars /\ WF_vars(Next)
=============================================================================
