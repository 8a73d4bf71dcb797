--------------------------- MODULE MCMockRuntime ---------------------------
(***************************************************************************)
(* Two tests, two threads besides the main one, and two contexts with a    *)
(* pointer: the translation unit with a function, and a namespace with a   *)
(* method and a destructor of a record in it.                              *)
(***************************************************************************)
EXTENDS MockRuntime

CONSTANTS
    tu, ns,                    \* the contexts
    f, method, destructor,     \* the functions
    main, worker, helper       \* the threads

MCContextOf == [x \in {f, method, destructor} |-> IF x = f THEN tu ELSE ns]
=============================================================================
