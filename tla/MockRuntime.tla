---------------------------- MODULE MockRuntime ----------------------------
(***************************************************************************)
(* A program built with the file the GMock backend generates, as it runs:  *)
(* GoogleTest takes the fixture through one test after the other on the    *)
(* main thread, and the code under test, which may have started threads of *)
(* its own, calls the generated functions (GMock::writeFunctionBody).      *)
(*                                                                         *)
(* Every outermost context of the mocked functions has a mock pointer, one *)
(* per thread (GMock::writePointerDefinitions).  The fixture owns the mock *)
(* objects; its SetUp sets the pointers and its TearDown resets them.  A   *)
(* fixture is named by the number of its test.                             *)
(***************************************************************************)
EXTENDS Integers, Sequences

CONSTANTS
    Thread,        \* the threads of the program
    Main,          \* the one GoogleTest runs on
    NoThread,
    Context,       \* the contexts with a mock pointer
    Function,      \* the generated functions
    ContextOf,     \* the outermost context of a function
    Structor,      \* constructors and destructors
    Tests,         \* number of tests of the program
    MaxCalls,      \* bound on the calls the main thread makes in a stage
    MaxDepth       \* bound on the calls of a thread that are active at once

ASSUME ThreadAssumption == Main \in Thread /\ NoThread \notin Thread

ASSUME FunctionAssumption ==
    /\ ContextOf \in [Function -> Context]
    /\ Structor \subseteq Function

ASSUME BoundAssumption == Tests \in Nat /\ MaxCalls \in Nat /\ MaxDepth \in Nat

\* The null pointer.
Null == 0

VARIABLES
    stage,     \* what the main thread does: see Stage
    test,      \* the number of the test that was begun last
    todo,      \* the assignments of SetUp or TearDown that are left
    pointer,   \* the mock pointers of each thread: a fixture or Null
    calls,     \* the active calls of each thread
    budget,    \* the calls the main thread may still make in its stage
    fault      \* the thread that used a null pointer, or NoThread

vars == <<stage, test, todo, pointer, calls, budget, fault>>
fixture == <<stage, test, todo, budget>>

\* Before main, between tests, around and in the three functions of a test,
\* and after main.
Stage ==
    {"static", "between", "constructed", "SetUp", "body", "TearDown",
     "destroyed", "exit", "end"}

\* In these the main thread executes code of the user.
Calling == {"static", "constructed", "body", "destroyed", "exit"}

Init ==
    /\ stage = "static" /\ test = 0 /\ todo = {}
    /\ pointer = [t \in Thread |-> [c \in Context |-> Null]]
    /\ calls = [t \in Thread |-> <<>>]
    /\ budget = MaxCalls
    /\ fault = NoThread

Running == fault = NoThread /\ stage # "end"

-----------------------------------------------------------------------------
(***************************************************************************)
(* The generated functions.                                                *)
(***************************************************************************)
Top(t) == calls[t][Len(calls[t])]
Front(s) == SubSeq(s, 1, Len(s) - 1)
Pop(t) == calls' = [calls EXCEPT ![t] = Front(@)]
Replace(t, frame) == calls' = [calls EXCEPT ![t] = Append(Front(@), frame)]

Frame(f, step, mock) == [function |-> f, step |-> step, mock |-> mock]

\* A slip: no function tests its pointer.
EntryUnguarded(f) == Frame(f, "access", Null)

\* A constructor or destructor begins with a test of the pointer.
Entry(f) == Frame(f, IF f \in Structor THEN "test" ELSE "access", Null)

\* Code of the user calls a function, or the action of a mock method does.
MayCall(t) ==
    /\ Len(calls[t]) < MaxDepth
    /\ calls[t] # <<>> => Top(t).step = "mock"
    /\ t = Main => stage \in Calling /\ budget > 0

Call(t) ==
    /\ MayCall(t)
    /\ \E f \in Function : calls' = [calls EXCEPT ![t] = Append(@, Entry(f))]
    /\ budget' = IF t = Main THEN budget - 1 ELSE budget
    /\ UNCHANGED <<stage, test, todo, pointer, fault>>

InStep(t, step) == calls[t] # <<>> /\ Top(t).step = step

Target(t) == pointer[t][ContextOf[Top(t).function]]

\* if (!ccmock_::Name_::ccmock_ptr_) return;
TestPointer(t) ==
    /\ InStep(t, "test")
    /\ IF Target(t) = Null THEN Pop(t)
       ELSE Replace(t, Frame(Top(t).function, "access", Null))
    /\ UNCHANGED <<fixture, pointer, fault>>

\* A slip: a null pointer is used like any other.
AccessMockNull(t) ==
    /\ InStep(t, "access")
    /\ Replace(t, Frame(Top(t).function, "mock", Target(t)))
    /\ UNCHANGED <<fixture, pointer, fault>>

\* (*ccmock_::Name_::ccmock_ptr_).name(...)
AccessMock(t) ==
    /\ InStep(t, "access")
    /\ IF Target(t) = Null THEN fault' = t /\ UNCHANGED calls
       ELSE /\ Replace(t, Frame(Top(t).function, "mock", Target(t)))
            /\ UNCHANGED fault
    /\ UNCHANGED <<fixture, pointer>>

\* The mock method returns, or throws what its action throws.
Return(t) ==
    /\ InStep(t, "mock")
    /\ Pop(t)
    /\ UNCHANGED <<fixture, pointer, fault>>

-----------------------------------------------------------------------------
(***************************************************************************)
(* GoogleTest on the main thread.  The assignments of SetUp and TearDown   *)
(* come in the order in which the generator's loops took the contexts: any *)
(* order.                                                                  *)
(***************************************************************************)
Idle == calls[Main] = <<>>

\* The main thread goes from one stage to the next.
Enter(from, to) == stage = from /\ Idle /\ stage' = to

StartTests ==
    /\ Enter("static", "between")
    /\ UNCHANGED <<test, todo, pointer, calls, budget, fault>>

\* The fixture and its mock objects are constructed, then members of a class
\* derived from it.
ConstructFixture ==
    /\ Enter("between", "constructed")
    /\ test < Tests
    /\ test' = test + 1
    /\ budget' = MaxCalls
    /\ UNCHANGED <<todo, pointer, calls, fault>>

BeginSetUp ==
    /\ Enter("constructed", "SetUp")
    /\ todo' = Context
    /\ UNCHANGED <<test, pointer, calls, budget, fault>>

\* A slip: the pointers are shared by the threads.
SetPointerShared(c, mock) == pointer' = [t \in Thread |-> [pointer[t] EXCEPT ![c] = mock]]

\* A slip: the pointers of SetUp are never reset.
SetPointerOnce(c, mock) ==
    pointer' = [pointer EXCEPT ![Main][c] = IF mock = Null THEN @ ELSE mock]

\* The assignment runs on the main thread and sets its pointer.
SetPointer(c, mock) == pointer' = [pointer EXCEPT ![Main][c] = mock]

\* A slip: SetUp sets one pointer.
SetUpOnce ==
    /\ stage = "SetUp"
    /\ \E c \in todo : SetPointer(c, test)
    /\ todo' = {}
    /\ UNCHANGED <<stage, test, calls, budget, fault>>

SetUp ==
    /\ stage = "SetUp"
    /\ \E c \in todo : SetPointer(c, test) /\ todo' = todo \ {c}
    /\ UNCHANGED <<stage, test, calls, budget, fault>>

BeginBody ==
    /\ Enter("SetUp", "body")
    /\ todo = {}
    /\ UNCHANGED <<test, todo, pointer, calls, budget, fault>>

\* The test passes or fails, or an exception reaches GoogleTest.
BeginTearDown ==
    /\ Enter("body", "TearDown")
    /\ todo' = Context
    /\ UNCHANGED <<test, pointer, calls, budget, fault>>

TearDown ==
    /\ stage = "TearDown"
    /\ \E c \in todo : SetPointer(c, Null) /\ todo' = todo \ {c}
    /\ UNCHANGED <<stage, test, calls, budget, fault>>

\* The members of a derived class are destroyed first.
BeginDestruction ==
    /\ Enter("TearDown", "destroyed")
    /\ todo = {}
    /\ budget' = MaxCalls
    /\ UNCHANGED <<test, todo, pointer, calls, fault>>

DestroyFixture ==
    /\ Enter("destroyed", "between")
    /\ UNCHANGED <<test, todo, pointer, calls, budget, fault>>

\* main returns, and global objects are destroyed.
Exit ==
    /\ Enter("between", "exit")
    /\ test = Tests
    /\ budget' = MaxCalls
    /\ UNCHANGED <<test, todo, pointer, calls, fault>>

End ==
    /\ Enter("exit", "end")
    /\ UNCHANGED <<test, todo, pointer, calls, budget, fault>>

GoogleTest ==
    \/ StartTests \/ ConstructFixture \/ BeginSetUp \/ SetUp \/ BeginBody
    \/ BeginTearDown \/ TearDown \/ BeginDestruction \/ DestroyFixture
    \/ Exit \/ End

\* A call that has begun goes on.
Proceed(t) == TestPointer(t) \/ AccessMock(t) \/ Return(t)

MainStep == Running /\ (GoogleTest \/ Call(Main) \/ Proceed(Main))

Worker == Thread \ {Main}
WorkerStep(t) == Running /\ (Call(t) \/ Proceed(t))

Stopped == ~Running /\ UNCHANGED vars

Next == MainStep \/ (\E t \in Worker : WorkerStep(t)) \/ Stopped

Spec == Init /\ [][Next]_vars

-----------------------------------------------------------------------------
(***************************************************************************)
(* Properties.                                                             *)
(***************************************************************************)
Fixture == 1 .. Tests

\* A call, on its way to the mock object or in a method of it.
ActiveCall ==
    [function : Function, step : {"test", "access"}, mock : {Null}]
        \cup [function : Function, step : {"mock"}, mock : Fixture]

TypeOK ==
    /\ stage \in Stage
    /\ test \in 0 .. Tests
    /\ todo \subseteq Context
    /\ pointer \in [Thread -> [Context -> Fixture \cup {Null}]]
    /\ calls \in [Thread -> Seq(ActiveCall)]
    /\ budget \in 0 .. MaxCalls
    /\ fault \in Thread \cup {NoThread}

\* The fixture of the current test has its mock objects.
Alive(mock) ==
    mock = test /\ stage \in {"constructed", "SetUp", "body", "TearDown", "destroyed"}

\* Whatever the threads do, a mock pointer leads to an object of the test that
\* runs now, and there is none between tests: no pointer ever dangles.
NoDanglingPointer ==
    \A t \in Thread, c \in Context : pointer[t][c] # Null => Alive(pointer[t][c])

\* An active mock method runs on an object of the current test, on the thread
\* that runs the test: the fixture is not destroyed under it.
MocksOutliveCalls ==
    \A t \in Thread : \A i \in DOMAIN calls[t] :
        calls[t][i].step = "mock" => t = Main /\ Alive(calls[t][i].mock)

\* Constructors and destructors are safe at any time, on any thread: before
\* the first test, between SetUp and TearDown, after the last one.
StructorsSafe ==
    \A t \in Thread : t = fault => Top(t).function \notin Structor

\* No call of a test body, made on the thread of the test, misses its mock.
TestBodiesSafe == fault = Main => stage # "body"
=============================================================================
