------------------------- MODULE MockRuntimeProofs -------------------------
(***************************************************************************)
(* Theorems about generated mocks at run time, for any number of threads,  *)
(* contexts, functions and tests, and any depth of calls.                  *)
(***************************************************************************)
EXTENDS MockRuntime, TLAPS

\* The active calls of a thread, without their order.
Frames(t) == {calls[t][i] : i \in DOMAIN calls[t]}

\* What the three ways of changing the active calls do to them: one returns,
\* the one on top goes on, and one begins.
LEMMA PopFrames ==
    ASSUME TypeOK, NEW t \in Thread, calls[t] # <<>>, Pop(t)
    PROVE  /\ calls' \in [Thread -> Seq(ActiveCall)]
           /\ \A u \in Thread : Frames(u)' \subseteq Frames(u)
<1>1. calls[t] \in Seq(ActiveCall) /\ calls \in [Thread -> Seq(ActiveCall)]
  BY DEF TypeOK
<1>2. /\ Front(calls[t]) \in Seq(ActiveCall)
      /\ DOMAIN Front(calls[t]) \subseteq DOMAIN calls[t]
      /\ \A i \in DOMAIN Front(calls[t]) : Front(calls[t])[i] = calls[t][i]
  BY <1>1 DEF Front
<1>3. /\ calls'[t] = Front(calls[t])
      /\ \A u \in Thread : u # t => calls'[u] = calls[u]
  BY <1>1 DEF Pop
<1>4. calls' \in [Thread -> Seq(ActiveCall)]
  BY <1>1, <1>2 DEF Pop
<1>5. Frames(t)' \subseteq Frames(t)
  BY <1>2, <1>3 DEF Frames
<1>6. \A u \in Thread : u # t => Frames(u)' = Frames(u)
  BY <1>3 DEF Frames
<1> QED
  BY <1>4, <1>5, <1>6

LEMMA ReplaceFrames ==
    ASSUME TypeOK, NEW t \in Thread, NEW frame \in ActiveCall,
           calls[t] # <<>>, Replace(t, frame)
    PROVE  /\ calls' \in [Thread -> Seq(ActiveCall)]
           /\ Frames(t)' \subseteq Frames(t) \cup {frame}
           /\ \A u \in Thread : u # t => Frames(u)' = Frames(u)
<1>1. calls[t] \in Seq(ActiveCall) /\ calls \in [Thread -> Seq(ActiveCall)]
  BY DEF TypeOK
<1> DEFINE front == Front(calls[t])
<1>2. /\ front \in Seq(ActiveCall)
      /\ DOMAIN front \subseteq DOMAIN calls[t]
      /\ \A i \in DOMAIN front : front[i] = calls[t][i]
  BY <1>1 DEF Front
<1>3. /\ calls'[t] = Append(front, frame)
      /\ \A u \in Thread : u # t => calls'[u] = calls[u]
  BY <1>1 DEF Replace
<1>4. calls' \in [Thread -> Seq(ActiveCall)]
  BY <1>1, <1>2 DEF Replace
<1> HIDE DEF front
<1>5. \A i \in DOMAIN Append(front, frame) :
          Append(front, frame)[i] = frame
          \/ (i \in DOMAIN front /\ Append(front, frame)[i] = front[i])
  BY <1>2
<1>6. Frames(t)' \subseteq Frames(t) \cup {frame}
  BY <1>2, <1>3, <1>5 DEF Frames
<1>7. \A u \in Thread : u # t => Frames(u)' = Frames(u)
  BY <1>3 DEF Frames
<1> QED
  BY <1>4, <1>6, <1>7

LEMMA CallFrames ==
    ASSUME TypeOK, NEW t \in Thread, NEW frame \in ActiveCall,
           calls' = [calls EXCEPT ![t] = Append(@, frame)]
    PROVE  /\ calls' \in [Thread -> Seq(ActiveCall)]
           /\ Frames(t)' \subseteq Frames(t) \cup {frame}
           /\ \A u \in Thread : u # t => Frames(u)' = Frames(u)
<1>1. calls[t] \in Seq(ActiveCall) /\ calls \in [Thread -> Seq(ActiveCall)]
  BY DEF TypeOK
<1>2. /\ calls'[t] = Append(calls[t], frame)
      /\ \A u \in Thread : u # t => calls'[u] = calls[u]
  BY <1>1
<1>3. \A i \in DOMAIN Append(calls[t], frame) :
          Append(calls[t], frame)[i] = frame
          \/ (i \in DOMAIN calls[t] /\ Append(calls[t], frame)[i] = calls[t][i])
  BY <1>1
<1>4. Frames(t)' \subseteq Frames(t) \cup {frame}
  BY <1>2, <1>3 DEF Frames
<1>5. \A u \in Thread : u # t => Frames(u)' = Frames(u)
  BY <1>2 DEF Frames
<1>6. calls' \in [Thread -> Seq(ActiveCall)]
  BY <1>1
<1> QED
  BY <1>4, <1>5, <1>6

\* The call on top is one of the active calls.
LEMMA TopFrame ==
    ASSUME TypeOK, NEW t \in Thread, calls[t] # <<>>
    PROVE  /\ Top(t) \in Frames(t)
           /\ Top(t) \in ActiveCall
           /\ Top(t).function \in Function
<1>1. calls[t] \in Seq(ActiveCall)
  BY DEF TypeOK
<1>2. Len(calls[t]) \in DOMAIN calls[t]
  BY <1>1
<1>3. Top(t) \in Frames(t) /\ Top(t) \in ActiveCall
  BY <1>1, <1>2 DEF Top, Frames
<1> QED
  BY <1>3 DEF ActiveCall

-----------------------------------------------------------------------------
(***************************************************************************)
(* The invariant.                                                          *)
(***************************************************************************)
\* No thread but the main one ever has a mock pointer.
WorkersUnset == \A t \in Worker, c \in Context : pointer[t][c] = Null

\* The stages in which the fixture exists, and those in which its pointers are
\* not set.
Constructed == {"constructed", "SetUp", "body", "TearDown", "destroyed"}
Unset == {"static", "between", "constructed", "destroyed", "exit", "end"}

\* What the pointers of the main thread are in each stage.
MainPointers ==
    /\ stage \in Constructed => test \in Fixture
    /\ stage \in Unset => \A c \in Context : pointer[Main][c] = Null
    /\ stage = "SetUp" => \A c \in Context :
          pointer[Main][c] \in {Null, test} /\ (c \notin todo => pointer[Main][c] = test)
    /\ stage = "body" => \A c \in Context : pointer[Main][c] = test
    /\ stage = "TearDown" => \A c \in Context :
          pointer[Main][c] \in {Null, test} /\ (c \notin todo => pointer[Main][c] = Null)

\* The main thread has no active call while GoogleTest or the fixture runs.
MainIdle == stage \notin Calling => calls[Main] = <<>>

\* A constructor or destructor that is past its test finds a mock.
GuardHolds ==
    \A t \in Thread : \A frame \in Frames(t) :
        frame.step = "access" /\ frame.function \in Structor =>
            pointer[t][ContextOf[frame.function]] # Null

\* A mock method runs on the main thread, on the fixture of its test.
MocksAlive ==
    \A t \in Thread : \A frame \in Frames(t) :
        frame.step = "mock" => t = Main /\ Alive(frame.mock)

IInv ==
    /\ TypeOK /\ WorkersUnset /\ MainPointers /\ MainIdle
    /\ GuardHolds /\ MocksAlive
    /\ StructorsSafe /\ TestBodiesSafe

LEMMA InvInit == Init => IInv
<1> SUFFICES ASSUME Init PROVE IInv
  OBVIOUS
<1> USE ThreadAssumption, FunctionAssumption, BoundAssumption
<1>1. TypeOK
  BY DEF Init, TypeOK, Stage, Fixture, Null
<1>2. ASSUME NEW t \in Thread PROVE Frames(t) = {}
  <2>1. calls[t] = <<>>
    BY DEF Init
  <2> QED
    BY <2>1 DEF Frames
<1>3. WorkersUnset /\ MainPointers /\ MainIdle
  BY DEF Init, WorkersUnset, Worker, MainPointers, Constructed, Unset, MainIdle, Calling
<1>4. GuardHolds /\ MocksAlive
  BY <1>2 DEF GuardHolds, MocksAlive
<1>5. StructorsSafe /\ TestBodiesSafe
  BY DEF Init, StructorsSafe, TestBodiesSafe
<1> QED
  BY <1>1, <1>3, <1>4, <1>5 DEF IInv

-----------------------------------------------------------------------------
(***************************************************************************)
(* Steps of GoogleTest on the main thread.  The stages and the pointers    *)
(* change, the active calls do not.                                        *)
(***************************************************************************)
\* The calls that stay active are those of other threads, whose pointers stay.
LEMMA SameCalls ==
    ASSUME IInv, UNCHANGED calls, calls[Main] = <<>>,
           \A t \in Worker, c \in Context : pointer'[t][c] = pointer[t][c]
    PROVE  GuardHolds' /\ MocksAlive'
<1>1. \A t \in Thread : Frames(t)' = Frames(t)
  BY DEF Frames
<1>2. Frames(Main) = {}
  BY DEF Frames
<1>3. ASSUME NEW t \in Thread, NEW frame \in Frames(t) PROVE t \in Worker
  BY <1>2, <1>3 DEF Worker
<1>4. ASSUME NEW t \in Thread, NEW frame \in Frames(t)
      PROVE  frame.function \in Function
  <2>1. calls[t] \in Seq(ActiveCall)
    BY DEF IInv, TypeOK
  <2>2. frame \in ActiveCall
    BY <2>1, <1>4 DEF Frames
  <2> QED
    BY <2>2 DEF ActiveCall
<1>5. GuardHolds'
  BY <1>1, <1>3, <1>4, FunctionAssumption DEF IInv, GuardHolds
<1>6. MocksAlive'
  BY <1>1, <1>2 DEF IInv, MocksAlive, Worker
<1> QED
  BY <1>5, <1>6

LEMMA GoogleTestType ==
    ASSUME IInv, Running, GoogleTest PROVE TypeOK'
<1> USE ThreadAssumption, BoundAssumption DEF IInv, TypeOK, Stage, Fixture, Null
<1>1. CASE StartTests
  BY <1>1 DEF StartTests, Enter
<1>2. CASE ConstructFixture
  BY <1>2 DEF ConstructFixture, Enter
<1>3. CASE BeginSetUp
  BY <1>3 DEF BeginSetUp, Enter
<1>4. CASE SetUp
  <2>1. stage = "SetUp" /\ test \in Fixture
    BY <1>4 DEF SetUp, MainPointers, Constructed
  <2> QED
    BY <1>4, <2>1 DEF SetUp, SetPointer
<1>5. CASE BeginBody
  BY <1>5 DEF BeginBody, Enter
<1>6. CASE BeginTearDown
  BY <1>6 DEF BeginTearDown, Enter
<1>7. CASE TearDown
  BY <1>7 DEF TearDown, SetPointer
<1>8. CASE BeginDestruction
  BY <1>8 DEF BeginDestruction, Enter
<1>9. CASE DestroyFixture
  BY <1>9 DEF DestroyFixture, Enter
<1>10. CASE Exit
  BY <1>10 DEF Exit, Enter
<1>11. CASE End
  BY <1>11 DEF End, Enter
<1> QED
  BY <1>1, <1>2, <1>3, <1>4, <1>5, <1>6, <1>7, <1>8, <1>9, <1>10, <1>11 DEF GoogleTest

\* What an assignment of SetUp or TearDown changes.
LEMMA Assignment ==
    ASSUME TypeOK, NEW c \in Context, NEW mock, SetPointer(c, mock)
    PROVE  /\ \A t \in Worker, d \in Context : pointer'[t][d] = pointer[t][d]
           /\ \A d \in Context :
                 pointer'[Main][d] = IF d = c THEN mock ELSE pointer[Main][d]
BY ThreadAssumption DEF TypeOK, SetPointer, Worker

\* In every step of GoogleTest the main thread has no active call, before and
\* after it, and the pointers of the other threads stay.
LEMMA GoogleTestIdle ==
    ASSUME IInv, Running, GoogleTest
    PROVE  /\ UNCHANGED <<calls, fault>> /\ calls[Main] = <<>>
           /\ \A t \in Worker, c \in Context : pointer'[t][c] = pointer[t][c]
<1>1. UNCHANGED <<calls, fault>>
  BY DEF GoogleTest, StartTests, ConstructFixture, BeginSetUp, SetUp, BeginBody,
         BeginTearDown, TearDown, BeginDestruction, DestroyFixture, Exit, End
<1>2. CASE SetUp \/ TearDown
  <2>1. \A t \in Worker, c \in Context : pointer'[t][c] = pointer[t][c]
    <3>1. PICK c \in todo, mock \in {test, Null} : SetPointer(c, mock)
      BY <1>2 DEF SetUp, TearDown
    <3> QED
      BY <3>1, Assignment DEF IInv, TypeOK
  <2>2. stage \in {"SetUp", "TearDown"}
    BY <1>2 DEF SetUp, TearDown
  <2> QED
    BY <1>1, <2>1, <2>2 DEF IInv, MainIdle, Calling
<1>3. CASE ~(SetUp \/ TearDown)
  BY <1>1, <1>3 DEF GoogleTest, StartTests, ConstructFixture, BeginSetUp, BeginBody,
     BeginTearDown, BeginDestruction, DestroyFixture, Exit, End, Enter, Idle
<1> QED
  BY <1>2, <1>3

LEMMA GoogleTestPointers ==
    ASSUME IInv, Running, GoogleTest PROVE MainPointers'
<1> USE DEF IInv, MainPointers, Constructed, Unset
<1>1. CASE StartTests
  BY <1>1 DEF StartTests, Enter
<1>2. CASE ConstructFixture
  BY <1>2, BoundAssumption DEF ConstructFixture, Enter, TypeOK, Fixture
<1>3. CASE BeginSetUp
  BY <1>3 DEF BeginSetUp, Enter
<1>4. CASE SetUp
  <2>1. PICK c \in todo : SetPointer(c, test) /\ todo' = todo \ {c}
    BY <1>4 DEF SetUp
  <2>2. \A d \in Context : pointer'[Main][d] = IF d = c THEN test ELSE pointer[Main][d]
    BY <2>1, Assignment DEF TypeOK
  <2> QED
    BY <1>4, <2>1, <2>2 DEF SetUp
<1>5. CASE BeginBody
  BY <1>5 DEF BeginBody, Enter
<1>6. CASE BeginTearDown
  BY <1>6 DEF BeginTearDown, Enter
<1>7. CASE TearDown
  <2>1. PICK c \in todo : SetPointer(c, Null) /\ todo' = todo \ {c}
    BY <1>7 DEF TearDown
  <2>2. \A d \in Context : pointer'[Main][d] = IF d = c THEN Null ELSE pointer[Main][d]
    BY <2>1, Assignment DEF TypeOK
  <2> QED
    BY <1>7, <2>1, <2>2 DEF TearDown
<1>8. CASE BeginDestruction
  BY <1>8 DEF BeginDestruction, Enter
<1>9. CASE DestroyFixture
  BY <1>9 DEF DestroyFixture, Enter
<1>10. CASE Exit
  BY <1>10 DEF Exit, Enter
<1>11. CASE End
  BY <1>11 DEF End, Enter
<1> QED
  BY <1>1, <1>2, <1>3, <1>4, <1>5, <1>6, <1>7, <1>8, <1>9, <1>10, <1>11 DEF GoogleTest

LEMMA GoogleTestStep ==
    ASSUME IInv, Running, GoogleTest PROVE IInv'
<1>1. /\ UNCHANGED <<calls, fault>> /\ calls[Main] = <<>>
      /\ \A t \in Worker, c \in Context : pointer'[t][c] = pointer[t][c]
  BY GoogleTestIdle
<1>2. WorkersUnset'
  BY <1>1 DEF IInv, WorkersUnset
<1>3. MainIdle'
  BY <1>1 DEF MainIdle
<1>4. GuardHolds' /\ MocksAlive'
  BY <1>1, SameCalls
<1>5. StructorsSafe' /\ TestBodiesSafe'
  BY <1>1, ThreadAssumption DEF Running, StructorsSafe, TestBodiesSafe
<1> QED
  BY <1>2, <1>3, <1>4, <1>5, GoogleTestType, GoogleTestPointers DEF IInv

-----------------------------------------------------------------------------
(***************************************************************************)
(* Steps of a call.                                                        *)
(***************************************************************************)
\* What every step of a call leaves alone.
LEMMA CallKeeps ==
    ASSUME IInv, Running, NEW t \in Thread, Call(t) \/ Proceed(t)
    PROVE  /\ UNCHANGED <<stage, test, todo, pointer>>
           /\ WorkersUnset' /\ MainPointers'
<1>1. UNCHANGED <<stage, test, todo, pointer>>
  BY DEF Call, Proceed, TestPointer, AccessMock, Return, fixture
<1> QED
  BY <1>1 DEF IInv, WorkersUnset, MainPointers, Constructed, Unset

\* The main thread makes calls only in the stages of code of the user, and a
\* call that goes on shows that it is in one of them.
LEMMA CallInStage ==
    ASSUME IInv, NEW t \in Thread, Call(t) \/ Proceed(t)
    PROVE  /\ t = Main => stage \in Calling
           /\ \A u \in Thread : u # t => calls'[u] = calls[u]
<1>1. calls \in [Thread -> Seq(ActiveCall)]
  BY DEF IInv, TypeOK
<1>2. \A u \in Thread : u # t => calls'[u] = calls[u]
  BY <1>1 DEF Call, Proceed, TestPointer, AccessMock, Return, Pop, Replace
<1>3. CASE Call(t)
  BY <1>2, <1>3 DEF Call, MayCall
<1>4. CASE Proceed(t)
  <2>1. calls[t] # <<>>
    BY <1>4 DEF Proceed, TestPointer, AccessMock, Return, InStep
  <2> QED
    BY <1>2, <2>1 DEF IInv, MainIdle
<1> QED
  BY <1>3, <1>4

\* A thread with a pointer that is set is the main one, and the pointer leads
\* to the fixture of the current test.
LEMMA PointerAlive ==
    ASSUME IInv, NEW t \in Thread, NEW c \in Context, pointer[t][c] # Null
    PROVE  t = Main /\ pointer[t][c] \in Fixture /\ Alive(pointer[t][c])
<1>1. t = Main
  BY DEF IInv, WorkersUnset, Worker
<1>2. stage \in {"SetUp", "body", "TearDown"}
  BY <1>1 DEF IInv, TypeOK, Stage, MainPointers, Unset
<1>3. pointer[Main][c] = test /\ test \in Fixture
  BY <1>1, <1>2 DEF IInv, MainPointers, Constructed
<1> QED
  BY <1>1, <1>2, <1>3 DEF Alive

\* A step of a call that leads to well typed calls and whose only new call, if
\* any, is as the invariant has it.
LEMMA FrameStep ==
    ASSUME IInv, NEW t \in Thread,
           UNCHANGED <<stage, test, todo, pointer>>,
           NEW frame \in ActiveCall,
           Frames(t)' \subseteq Frames(t) \cup {frame},
           \A u \in Thread : u # t => Frames(u)' \subseteq Frames(u),
           frame.step = "access" /\ frame.function \in Structor =>
               pointer[t][ContextOf[frame.function]] # Null,
           frame.step = "mock" => t = Main /\ Alive(frame.mock)
    PROVE  GuardHolds' /\ MocksAlive'
<1>1. ASSUME NEW u \in Thread, NEW g \in Frames(u)'
      PROVE  g \in Frames(u) \/ (u = t /\ g = frame)
  OBVIOUS
<1>2. GuardHolds'
  BY <1>1 DEF IInv, GuardHolds
<1>3. \A mock : Alive(mock)' = Alive(mock)
  BY DEF Alive
<1>4. MocksAlive'
  BY <1>1, <1>3 DEF IInv, MocksAlive
<1> QED
  BY <1>2, <1>4

LEMMA CallStep ==
    ASSUME IInv, Running, NEW t \in Thread, Call(t) PROVE IInv'
<1>1. PICK f \in Function : calls' = [calls EXCEPT ![t] = Append(@, Entry(f))]
  BY DEF Call
<1>2. Entry(f) \in ActiveCall
  BY DEF Entry, Frame, ActiveCall
<1>3. /\ calls' \in [Thread -> Seq(ActiveCall)]
      /\ Frames(t)' \subseteq Frames(t) \cup {Entry(f)}
      /\ \A u \in Thread : u # t => Frames(u)' = Frames(u)
  BY <1>1, <1>2, CallFrames DEF IInv
<1>4. /\ UNCHANGED <<stage, test, todo, pointer>>
      /\ WorkersUnset' /\ MainPointers'
  BY CallKeeps
<1>5. UNCHANGED fault /\ fault = NoThread
  BY DEF Call, Running
<1>6. budget' \in 0 .. MaxCalls
  BY BoundAssumption DEF Call, MayCall, IInv, TypeOK
<1>7. TypeOK'
  BY <1>3, <1>4, <1>5, <1>6 DEF IInv, TypeOK
<1>8. MainIdle'
  BY <1>4, CallInStage, ThreadAssumption DEF IInv, MainIdle
<1>9. /\ Entry(f).step # "mock"
      /\ ~(Entry(f).step = "access" /\ Entry(f).function \in Structor)
  BY DEF Entry, Frame
<1>10. GuardHolds' /\ MocksAlive'
  BY <1>2, <1>3, <1>4, <1>9, FrameStep
<1>11. StructorsSafe' /\ TestBodiesSafe'
  BY <1>5, ThreadAssumption DEF StructorsSafe, TestBodiesSafe
<1> QED
  BY <1>4, <1>7, <1>8, <1>10, <1>11 DEF IInv

\* Steps that take the call on top away, or put it one step further, and leave
\* no fault behind.
LEMMA SoundStep ==
    ASSUME IInv, Running, NEW t \in Thread, Proceed(t), UNCHANGED <<budget, fault>>,
           calls' \in [Thread -> Seq(ActiveCall)], GuardHolds', MocksAlive'
    PROVE  IInv'
<1>1. /\ UNCHANGED <<stage, test, todo, pointer>>
      /\ WorkersUnset' /\ MainPointers'
  BY CallKeeps
<1>2. TypeOK'
  BY <1>1 DEF IInv, TypeOK
<1>3. MainIdle'
  BY <1>1, CallInStage, ThreadAssumption DEF IInv, MainIdle
<1>4. StructorsSafe' /\ TestBodiesSafe'
  BY ThreadAssumption DEF Running, StructorsSafe, TestBodiesSafe
<1> QED
  BY <1>1, <1>2, <1>3, <1>4 DEF IInv

LEMMA PopStep ==
    ASSUME IInv, Running, NEW t \in Thread, Proceed(t), UNCHANGED <<budget, fault>>,
           calls[t] # <<>>, Pop(t)
    PROVE  IInv'
<1>1. /\ calls' \in [Thread -> Seq(ActiveCall)]
      /\ \A u \in Thread : Frames(u)' \subseteq Frames(u)
  BY PopFrames DEF IInv
<1>2. UNCHANGED <<stage, test, todo, pointer>>
  BY CallKeeps
<1>3. GuardHolds'
  BY <1>1, <1>2 DEF IInv, GuardHolds
<1>4. \A mock : Alive(mock)' = Alive(mock)
  BY <1>2 DEF Alive
<1>5. MocksAlive'
  BY <1>1, <1>4 DEF IInv, MocksAlive
<1> QED
  BY <1>1, <1>3, <1>5, SoundStep

LEMMA ReplaceStep ==
    ASSUME IInv, Running, NEW t \in Thread, Proceed(t), UNCHANGED <<budget, fault>>,
           NEW frame \in ActiveCall, calls[t] # <<>>, Replace(t, frame),
           frame.step = "access" /\ frame.function \in Structor =>
               pointer[t][ContextOf[frame.function]] # Null,
           frame.step = "mock" => t = Main /\ Alive(frame.mock)
    PROVE  IInv'
<1>1. /\ calls' \in [Thread -> Seq(ActiveCall)]
      /\ Frames(t)' \subseteq Frames(t) \cup {frame}
      /\ \A u \in Thread : u # t => Frames(u)' = Frames(u)
  BY ReplaceFrames DEF IInv
<1>2. UNCHANGED <<stage, test, todo, pointer>>
  BY CallKeeps
<1>3. GuardHolds' /\ MocksAlive'
  BY <1>1, <1>2, FrameStep
<1> QED
  BY <1>1, <1>3, SoundStep

\* A null pointer is used: the call is no constructor or destructor, because
\* those have tested it, and it is not made in a test on the main thread.
LEMMA FaultStep ==
    ASSUME IInv, Running, NEW t \in Thread, AccessMock(t), Target(t) = Null,
           UNCHANGED calls, fault' = t
    PROVE  IInv'
<1>1. /\ UNCHANGED <<stage, test, todo, pointer>>
      /\ WorkersUnset' /\ MainPointers'
  BY CallKeeps DEF Proceed
<1>2. calls[t] # <<>> /\ Top(t).step = "access" /\ UNCHANGED budget
  BY DEF AccessMock, InStep, fixture
<1>3. /\ Top(t) \in Frames(t)
      /\ Top(t).function \in Function
  BY <1>2, TopFrame DEF IInv
<1>4. TypeOK' /\ MainIdle'
  BY <1>1, <1>2 DEF IInv, TypeOK, MainIdle
<1>5. \A u \in Thread : Frames(u)' = Frames(u)
  BY DEF Frames
<1>6. GuardHolds'
  BY <1>1, <1>5 DEF IInv, GuardHolds
<1>7. MocksAlive'
  <2>1. \A mock : Alive(mock)' = Alive(mock)
    BY <1>1 DEF Alive
  <2> QED
    BY <1>5, <2>1 DEF IInv, MocksAlive
<1>8. Top(t).function \notin Structor
  BY <1>2, <1>3 DEF IInv, GuardHolds, Target
<1>9. StructorsSafe'
  BY <1>8 DEF StructorsSafe, Top
<1>10. TestBodiesSafe'
  <2> SUFFICES ASSUME t = Main, stage = "body" PROVE FALSE
    BY <1>1 DEF TestBodiesSafe
  <2>1. ContextOf[Top(t).function] \in Context
    BY <1>3, FunctionAssumption
  <2>2. Target(t) = test /\ test \in Fixture
    BY <2>1 DEF IInv, MainPointers, Constructed, Target
  <2> QED
    BY <2>2 DEF Fixture, Null
<1> QED
  BY <1>1, <1>4, <1>6, <1>7, <1>9, <1>10 DEF IInv

LEMMA ProceedStep ==
    ASSUME IInv, Running, NEW t \in Thread, Proceed(t) PROVE IInv'
<1>1. calls[t] # <<>>
  BY DEF Proceed, TestPointer, AccessMock, Return, InStep
<1>2. Top(t).function \in Function /\ ContextOf[Top(t).function] \in Context
  BY <1>1, TopFrame, FunctionAssumption DEF IInv
<1>3. CASE TestPointer(t)
  <2>1. UNCHANGED <<budget, fault>>
    BY <1>3 DEF TestPointer, fixture
  <2>2. CASE Target(t) = Null
    BY <1>1, <1>3, <2>1, <2>2, PopStep DEF TestPointer
  <2>3. CASE Target(t) # Null
    <3> DEFINE frame == Frame(Top(t).function, "access", Null)
    <3>1. Replace(t, frame)
      BY <1>3, <2>3 DEF TestPointer
    <3>2. /\ frame \in ActiveCall /\ frame.step # "mock"
          /\ frame.function = Top(t).function
      BY <1>2 DEF Frame, ActiveCall
    <3>3. pointer[t][ContextOf[frame.function]] # Null
      BY <2>3, <3>2 DEF Target
    <3> QED
      BY <1>1, <2>1, <3>1, <3>2, <3>3, ReplaceStep
  <2> QED
    BY <2>2, <2>3
<1>4. CASE AccessMock(t)
  <2>1. CASE Target(t) = Null
    BY <1>4, <2>1, FaultStep DEF AccessMock
  <2>2. CASE Target(t) # Null
    <3> DEFINE frame == Frame(Top(t).function, "mock", Target(t))
    <3>1. Replace(t, frame) /\ UNCHANGED <<budget, fault>>
      BY <1>4, <2>2 DEF AccessMock, fixture
    <3>2. t = Main /\ Target(t) \in Fixture /\ Alive(Target(t))
      BY <1>2, <2>2, PointerAlive DEF Target
    <3>3. /\ frame \in ActiveCall /\ frame.step = "mock"
          /\ frame.mock = Target(t)
      BY <1>2, <3>2 DEF Frame, ActiveCall
    <3> QED
      BY <1>1, <3>1, <3>2, <3>3, ReplaceStep
  <2> QED
    BY <2>1, <2>2
<1>5. CASE Return(t)
  BY <1>1, <1>5, PopStep DEF Return, fixture
<1> QED
  BY <1>3, <1>4, <1>5 DEF Proceed

-----------------------------------------------------------------------------
(***************************************************************************)
(* The theorems.                                                           *)
(***************************************************************************)
LEMMA Invariance == Spec => []IInv
<1>1. IInv /\ [Next]_vars => IInv'
  <2> SUFFICES ASSUME IInv, [Next]_vars PROVE IInv'
    OBVIOUS
  <2>1. CASE MainStep
    BY <2>1, GoogleTestStep, CallStep, ProceedStep, ThreadAssumption DEF MainStep
  <2>2. CASE \E t \in Worker : WorkerStep(t)
    BY <2>2, CallStep, ProceedStep DEF WorkerStep, Worker
  <2>3. CASE UNCHANGED vars
    <3>1. \A t \in Thread : Frames(t)' = Frames(t)
      BY <2>3 DEF vars, Frames
    <3>2. \A mock : Alive(mock)' = Alive(mock)
      BY <2>3 DEF vars, Alive
    <3>3. GuardHolds' /\ MocksAlive'
      BY <2>3, <3>1, <3>2 DEF vars, IInv, GuardHolds, MocksAlive
    <3>4. TypeOK' /\ WorkersUnset' /\ MainPointers' /\ MainIdle'
      BY <2>3 DEF vars, IInv, TypeOK, WorkersUnset, MainPointers, Constructed, Unset, MainIdle
    <3>5. StructorsSafe' /\ TestBodiesSafe'
      BY <2>3 DEF vars, IInv, StructorsSafe, TestBodiesSafe, Top
    <3> QED
      BY <3>3, <3>4, <3>5 DEF IInv
  <2> QED
    BY <2>1, <2>2, <2>3 DEF Next, Stopped
<1> QED
  BY InvInit, <1>1, PTL DEF Spec

\* Everything the program of mocks keeps stays in its type.
THEOREM TypeCorrect == Spec => []TypeOK
<1>1. IInv => TypeOK
  BY DEF IInv
<1> QED
  BY Invariance, <1>1, PTL

\* No thread ever has a mock pointer to a fixture other than the one of the
\* running test, because only the main thread has any and SetUp and TearDown
\* go over all contexts.
THEOREM PointersLive == Spec => []NoDanglingPointer
<1>1. IInv => NoDanglingPointer
  BY PointerAlive DEF NoDanglingPointer
<1> QED
  BY Invariance, <1>1, PTL

\* No fixture is destroyed while a mock method of it runs.
THEOREM CallsOutlived == Spec => []MocksOutliveCalls
<1>1. IInv => MocksOutliveCalls
  <2> SUFFICES ASSUME IInv, NEW t \in Thread, NEW i \in DOMAIN calls[t]
               PROVE  calls[t][i].step = "mock" => t = Main /\ Alive(calls[t][i].mock)
    BY DEF MocksOutliveCalls
  <2>1. calls[t][i] \in Frames(t)
    BY DEF Frames
  <2> QED
    BY <2>1 DEF IInv, MocksAlive
<1> QED
  BY Invariance, <1>1, PTL

\* The test at the beginning of a constructor or destructor is enough: its
\* pointer does not change until it is used.
THEOREM GuardSuffices == Spec => []StructorsSafe
<1>1. IInv => StructorsSafe
  BY DEF IInv
<1> QED
  BY Invariance, <1>1, PTL

\* Every function a test body calls on its own thread has a mock.
THEOREM BodiesServed == Spec => []TestBodiesSafe
<1>1. IInv => TestBodiesSafe
  BY DEF IInv
<1> QED
  BY Invariance, <1>1, PTL
=============================================================================
