---------------------------- MODULE GMockProofs ----------------------------
(***************************************************************************)
(* Theorems about the context map and the traversal that the GMock backend *)
(* makes of it, for every tree of contexts and every list of functions.    *)
(***************************************************************************)
EXTENDS GMock, OutputProofs, FiniteSetTheorems

-----------------------------------------------------------------------------
(***************************************************************************)
(* Type correctness.                                                       *)
(***************************************************************************)
LEMMA TypeInit == Init => TypeOK
<1> SUFFICES ASSUME Init PROVE TypeOK
  OBVIOUS
<1> USE DEF Init, InitContexts, InitGenerator
<1>1. DOMAIN Map = {} /\ stack = <<>> /\ order = <<>>
  OBVIOUS
<1>2. Range(order) = {}
  BY <1>1 DEF Range
<1>3. ContextsTypeOK
  BY <1>1 DEF ContextsTypeOK
<1> QED
  BY <1>1, <1>2, <1>3 DEF TypeOK

FrameSet == [context : Context, children : SUBSET DeclContext]

LEMMA FrameType ==
    ASSUME ContextsTypeOK, NEW c \in Context PROVE Frame(c) \in FrameSet
BY DEF Frame, FrameSet, Children, ContextsTypeOK

\* Taking a child changes the active call alone.
LEMMA TakenChild ==
    ASSUME TypeOK, InClass, NEW c
    PROVE  /\ Len(stack) \in DOMAIN stack /\ Active \in FrameSet
           /\ WithoutChild(c) \in Seq(FrameSet) /\ Len(WithoutChild(c)) = Len(stack)
           /\ \A i \in DOMAIN stack :
                 /\ WithoutChild(c)[i].context = stack[i].context
                 /\ WithoutChild(c)[i].children \subseteq stack[i].children
<1>1. stack \in Seq(FrameSet) /\ Len(stack) \in DOMAIN stack
  BY DEF TypeOK, InClass, FrameSet
<1>2. Active \in FrameSet
  BY <1>1 DEF Active
<1> DEFINE rest == [Active EXCEPT !.children = @ \ {c}]
<1>3. /\ rest \in FrameSet /\ rest.context = Active.context
      /\ rest.children \subseteq Active.children
  BY <1>2 DEF FrameSet
<1>4. WithoutChild(c) = [stack EXCEPT ![Len(stack)] = rest]
  BY <1>1 DEF WithoutChild, Active
<1> HIDE DEF rest
<1>5. WithoutChild(c) \in Seq(FrameSet) /\ Len(WithoutChild(c)) = Len(stack)
  BY <1>1, <1>3, <1>4
<1>6. \A i \in DOMAIN stack : WithoutChild(c)[i] = IF i = Len(stack) THEN rest ELSE stack[i]
  BY <1>1, <1>4
<1> QED
  BY <1>1, <1>2, <1>3, <1>5, <1>6 DEF Active

\* The steps on the map and on the active calls, which GMock and Raw have in
\* common.
WalkStep ==
    \/ /\ pc = "map" /\ CreateContextMap
       /\ UNCHANGED <<VarDecls, AnyVariadic, pc, stack, next>>
    \/ StartWalk
    \/ InClass /\ \E c \in Active.children : Enter(c)
    \/ InClass /\ \E c \in Active.children : Visit(c)
    \/ Leave

LEMMA GMockWalks ==
    ASSUME MapStep \/ StartMockClass \/ WriteNestedClass \/ WriteMockMethod \/ CloseClass
    PROVE  WalkStep /\ UNCHANGED order
BY DEF WalkStep, MapStep, StartMockClass, WriteNestedClass, WriteMockMethod, CloseClass

LEMMA WalkType ==
    ASSUME TypeOK, WalkStep, UNCHANGED order PROVE TypeOK'
<1> USE DEF contextVars, lists
<1>0. /\ ContextsTypeOK /\ stack \in Seq(FrameSet) /\ next \in Nat \ {0}
      /\ Range(order) \subseteq DOMAIN Map
      /\ \A i \in DOMAIN stack : stack[i].context \in DOMAIN Map
  BY DEF TypeOK, FrameSet
<1>1. CASE pc = "map" /\ CreateContextMap
            /\ UNCHANGED <<VarDecls, AnyVariadic, pc, stack, next>>
  <2>1. ContextsTypeOK'
    BY <1>0, <1>1, MapType
  <2>2. DOMAIN Map \subseteq DOMAIN Map'
    BY <1>1, InsertedEntries DEF CreateContextMap, NextFunction, Climb
  <2> QED
    BY <1>1, <2>1, <2>2 DEF TypeOK
<1>2. CASE StartWalk
  <2>1. Map' = LookedUp(TranslationUnit) /\ stack' = <<Frame(TranslationUnit)>>
    BY <1>2 DEF StartWalk
  <2>2. ContextsTypeOK'
    BY <1>0, <1>2, <2>1, LookUpType, ContextAssumption DEF StartWalk
  <2>3. Frame(TranslationUnit) \in FrameSet /\ Frame(TranslationUnit).context = TranslationUnit
    BY <1>0, FrameType, ContextAssumption DEF Frame
  <2>4. TranslationUnit \in DOMAIN Map'
    BY <2>1, LookedUpEntries
  <2>5. stack' \in Seq(FrameSet) /\ \A i \in DOMAIN stack' : stack'[i].context \in DOMAIN Map'
    BY <2>1, <2>3, <2>4
  <2>6. DOMAIN Map \subseteq DOMAIN Map'
    BY <2>1, LookedUpEntries
  <2> QED
    BY <1>0, <1>2, <2>2, <2>5, <2>6 DEF StartWalk, TypeOK, FrameSet
<1>3. CASE InClass /\ \E c \in Active.children : Enter(c)
  <2> PICK c \in Active.children :
        /\ Map' = LookedUp(c) /\ Kind[c] \in ClassKind
        /\ stack' = Append(WithoutChild(c), Frame(c))
        /\ UNCHANGED <<lists, index, child, parent, pc, next, order>>
    BY <1>3 DEF Enter
  <2>1. c \in Context
    BY <1>3, TakenChild, KindAssumption
    DEF ClassKind, FunctionKind, FrameSet, DeclContext
  <2>2. ContextsTypeOK'
    BY <1>0, <2>1, LookUpType
  <2>3. DOMAIN Map' = DOMAIN Map \cup {c}
    BY LookedUpEntries
  <2>4. /\ WithoutChild(c) \in Seq(FrameSet) /\ Len(WithoutChild(c)) = Len(stack)
        /\ \A i \in DOMAIN stack : WithoutChild(c)[i].context = stack[i].context
    BY <1>3, TakenChild
  <2>5. Frame(c) \in FrameSet /\ Frame(c).context = c
    BY <1>0, <2>1, FrameType DEF Frame
  <2>6. stack' \in Seq(FrameSet)
    BY <2>4, <2>5
  <2>7. \A i \in DOMAIN stack' : stack'[i].context \in DOMAIN Map'
    <3> SUFFICES ASSUME NEW i \in DOMAIN stack' PROVE stack'[i].context \in DOMAIN Map'
      OBVIOUS
    <3>1. CASE i \in DOMAIN stack
      <4>1. stack'[i].context = stack[i].context
        BY <1>0, <2>4, <2>5, <3>1
      <4> QED
        BY <1>0, <2>3, <3>1, <4>1
    <3>2. CASE i \notin DOMAIN stack
      <4>1. stack'[i] = Frame(c)
        BY <1>0, <2>4, <2>5, <3>2
      <4> QED
        BY <2>3, <2>5, <4>1
    <3> QED
      BY <3>1, <3>2
  <2> QED
    BY <1>0, <2>2, <2>3, <2>6, <2>7 DEF TypeOK, FrameSet
<1>4. CASE InClass /\ \E c \in Active.children : Visit(c)
  <2> PICK c : stack' = WithoutChild(c)
    BY <1>4 DEF Visit
  <2>1. InClass /\ UNCHANGED <<contextVars, VarDecls, AnyVariadic, pc, order, next>>
    BY <1>4 DEF Visit
  <2>2. stack' \in Seq(FrameSet) /\ \A i \in DOMAIN stack' : stack'[i].context \in DOMAIN Map
    BY <1>0, <2>1, TakenChild
  <2> QED
    BY <1>0, <2>1, <2>2 DEF TypeOK, FrameSet, ContextsTypeOK
<1>5. CASE Leave
  <2>1. UNCHANGED <<contextVars, VarDecls, AnyVariadic, pc, order, next>> /\ stack # <<>>
    BY <1>5 DEF Leave, InClass
  <2>2. stack' = SubSeq(stack, 1, Len(stack) - 1)
    BY <1>5 DEF Leave, Front
  <2>3. stack' \in Seq(FrameSet) /\ \A i \in DOMAIN stack' : stack'[i] = stack[i] /\ i \in DOMAIN stack
    BY <1>0, <2>1, <2>2
  <2> QED
    BY <1>0, <2>1, <2>3 DEF TypeOK, FrameSet, ContextsTypeOK
<1> QED
  BY <1>1, <1>2, <1>3, <1>4, <1>5 DEF WalkStep

LEMMA TypeStep == TypeOK /\ [Next]_vars => TypeOK'
<1> SUFFICES ASSUME TypeOK, [Next]_vars PROVE TypeOK'
  OBVIOUS
<1> USE DEF contextVars, lists
<1>0. /\ ContextsTypeOK /\ stack \in Seq(FrameSet) /\ next \in Nat \ {0}
      /\ Range(order) \subseteq DOMAIN Map
      /\ \A i \in DOMAIN stack : stack[i].context \in DOMAIN Map
  BY DEF TypeOK, FrameSet
<1>1. CASE MapStep \/ StartMockClass \/ WriteNestedClass \/ WriteMockMethod \/ CloseClass
  BY <1>1, GMockWalks, WalkType
<1>2. CASE EndMockClass
  <2>1. Range(order') \subseteq DOMAIN Map
    BY <1>2 DEF EndMockClass, SetToSeqs, Range
  <2> QED
    BY <1>0, <1>2, <2>1 DEF EndMockClass, TypeOK, ContextsTypeOK, FrameSet
<1>3. CASE WriteEntry
  BY <1>0, <1>3 DEF WriteEntry, TypeOK, ContextsTypeOK, FrameSet
<1>4. CASE EndLoop
  <2>1. pc' \in {"setup", "teardown", "variables", "functions"}
    BY <1>4 DEF EndLoop, Looping, Successor
  <2> QED
    BY <1>0, <1>4, <2>1 DEF EndLoop, TypeOK, ContextsTypeOK, FrameSet
<1>5. CASE WriteFunction
  BY <1>0, <1>5 DEF WriteFunction, TypeOK, ContextsTypeOK, FrameSet
<1>6. CASE EndFunctions \/ WriteGlobals \/ Finish
  BY <1>0, <1>6
  DEF EndFunctions, WriteGlobals, WriteGlobalVariable, EndGlobalVariables, Finish,
      TypeOK, ContextsTypeOK, FrameSet
<1>7. CASE AbortAtEntry \/ AbortAtFunction
  BY <1>0, <1>7 DEF AbortAtEntry, AbortAtFunction, Abort, TypeOK, ContextsTypeOK, FrameSet
<1>8. CASE UNCHANGED vars
  BY <1>0, <1>8 DEF vars, generatorVars, TypeOK, ContextsTypeOK, FrameSet
<1> QED
  BY <1>1, <1>2, <1>3, <1>4, <1>5, <1>6, <1>7, <1>8 DEF Next, Terminated

\* The generator's state is well typed throughout.
THEOREM TypeCorrect == Spec => []TypeOK
BY TypeInit, TypeStep, PTL DEF Spec

-----------------------------------------------------------------------------
(***************************************************************************)
(* The traversal.  What an active call has left to do is always a part of  *)
(* the entry it took from the map, and the map was complete when the first *)
(* call began.                                                             *)
(***************************************************************************)
StackInv ==
    /\ pc # "map" => Built
    /\ pc = "map" => stack = <<>>
    /\ \A i \in DOMAIN stack : stack[i].children \subseteq Map[stack[i].context]

IInv == TypeOK /\ MapInv /\ StackInv

LEMMA IInvInit == Init => IInv
BY TypeInit, MapInvInit DEF Init, InitContexts, IInv, StackInv

\* Every class an active call may descend into has its entry already.
LEMMA ChildRecorded ==
    ASSUME IInv, NEW i \in DOMAIN stack, NEW c \in stack[i].children
    PROVE  Recorded(c) /\ c \in DOMAIN Map \cup Range(FunctionDecls)
<1>1. stack[i].context \in DOMAIN Map /\ c \in Map[stack[i].context]
  BY DEF IInv, TypeOK, StackInv
<1>2. /\ c \in DOMAIN Map \cup Range(FunctionDecls)
      /\ stack[i].context = PrimaryParent(c)
  BY <1>1 DEF IInv, MapInv
<1> QED
  BY <1>1, <1>2 DEF Recorded

LEMMA IInvRecursion == IInv => RecursionCreatesNothing
<1> SUFFICES ASSUME IInv, NEW i \in DOMAIN stack, NEW c \in stack[i].children,
                    Kind[c] \in ClassKind
             PROVE  c \in DOMAIN Map
  BY DEF RecursionCreatesNothing
<1>1. Range(FunctionDecls) \subseteq FunctionDecl
  BY ListAssumption DEF IInv, TypeOK, ContextsTypeOK, Range
<1> QED
  BY <1>1, ChildRecorded, KindAssumption DEF ClassKind, FunctionKind

\* The map, and with it MapInv, changes in three actions alone.
LEMMA WalkMapInv ==
    ASSUME IInv, WalkStep PROVE MapInv'
<1> USE DEF contextVars
<1>0. TypeOK /\ ContextsTypeOK /\ MapInv
  BY DEF IInv, TypeOK
<1>1. CASE CreateContextMap
  BY <1>0, <1>1, NextFunctionStep, ClimbStep DEF CreateContextMap
<1>2. CASE StartWalk
  BY <1>0, <1>2, LookUpStep DEF StartWalk, lists
<1>3. CASE InClass /\ \E c \in Active.children : Enter(c)
  <2> PICK c \in Active.children :
        Map' = LookedUp(c) /\ UNCHANGED <<lists, index, child, parent>>
    BY <1>3 DEF Enter
  <2>1. Len(stack) \in DOMAIN stack /\ c \in stack[Len(stack)].children
    BY <1>0, <1>3, TakenChild DEF Active
  <2>2. Recorded(c)
    BY <2>1, ChildRecorded
  <2> QED
    BY <1>0, <2>2, LookUpStep DEF lists
<1>4. CASE UNCHANGED contextVars
  BY <1>0, <1>4 DEF MapInv, Recorded, Climbing
<1> QED
  BY <1>1, <1>2, <1>3, <1>4 DEF WalkStep, Visit, Leave

LEMMA MapInvStep == IInv /\ [Next]_vars => MapInv'
<1> SUFFICES ASSUME IInv, [Next]_vars PROVE MapInv'
  OBVIOUS
<1> USE DEF contextVars
<1>1. CASE MapStep \/ StartMockClass \/ WriteNestedClass \/ WriteMockMethod \/ CloseClass
  BY <1>1, GMockWalks, WalkMapInv
<1>2. CASE UNCHANGED contextVars
  BY <1>2 DEF IInv, MapInv, Recorded, Climbing
<1> QED
  BY <1>1, <1>2
  DEF Next, Terminated, EndMockClass, WriteEntry, EndLoop, WriteFunction, EndFunctions,
      AbortAtEntry, AbortAtFunction, Abort,
      WriteGlobals, WriteGlobalVariable, EndGlobalVariables, Finish, vars, generatorVars

LEMMA WalkStackInv ==
    ASSUME IInv, WalkStep PROVE StackInv'
<1> USE DEF contextVars, Built
<1>0. TypeOK /\ StackInv /\ stack \in Seq(FrameSet)
  BY DEF IInv, TypeOK, FrameSet
<1>1. CASE pc = "map" /\ UNCHANGED <<pc, stack>>
  BY <1>0, <1>1 DEF StackInv
<1>2. CASE StartWalk
  <2>1. /\ stack' = <<Frame(TranslationUnit)>> /\ pc' = "class" /\ Built'
        /\ Map' = LookedUp(TranslationUnit)
    BY <1>2 DEF StartWalk, lists
  <2>2. Map'[TranslationUnit] = Children(TranslationUnit)
    BY <2>1 DEF LookedUp
  <2> QED
    BY <2>1, <2>2 DEF StackInv, Frame
<1>3. CASE InClass /\ \E c \in Active.children : Enter(c)
  <2> PICK c \in Active.children :
        /\ Map' = LookedUp(c) /\ stack' = Append(WithoutChild(c), Frame(c))
        /\ UNCHANGED <<lists, index, child, parent, pc>>
    BY <1>3 DEF Enter
  <2>1. Map'[c] = Children(c) /\ \A x \in DOMAIN Map : Map'[x] = Map[x]
    BY DEF LookedUp, Children
  <2>2. /\ WithoutChild(c) \in Seq(FrameSet) /\ Len(WithoutChild(c)) = Len(stack)
        /\ \A i \in DOMAIN stack :
              /\ WithoutChild(c)[i].context = stack[i].context
              /\ WithoutChild(c)[i].children \subseteq stack[i].children
    BY <1>0, <1>3, TakenChild
  <2>3. ASSUME NEW i \in DOMAIN stack'
        PROVE  stack'[i].children \subseteq Map'[stack'[i].context]
    <3>1. CASE i \in DOMAIN stack
      <4>1. stack'[i] = WithoutChild(c)[i]
        BY <1>0, <2>2, <3>1
      <4>2. Map'[stack[i].context] = Map[stack[i].context]
        BY <1>0, <2>1, <3>1 DEF TypeOK
      <4>3. stack[i].children \subseteq Map[stack[i].context]
        BY <1>0, <3>1 DEF StackInv
      <4> QED
        BY <2>2, <3>1, <4>1, <4>2, <4>3
    <3>2. CASE i \notin DOMAIN stack
      <4>1. stack'[i] = Frame(c)
        BY <1>0, <2>2, <3>2
      <4> QED
        BY <2>1, <4>1 DEF Frame
    <3> QED
      BY <3>1, <3>2
  <2> QED
    BY <1>0, <1>3, <2>3 DEF InClass, StackInv, lists
<1>4. CASE InClass /\ \E c \in Active.children : Visit(c)
  <2> PICK c : stack' = WithoutChild(c)
    BY <1>4 DEF Visit
  <2>1. /\ DOMAIN stack' = DOMAIN stack
        /\ \A i \in DOMAIN stack :
              /\ stack'[i].context = stack[i].context
              /\ stack'[i].children \subseteq stack[i].children
    BY <1>0, <1>4, TakenChild
  <2> QED
    BY <1>0, <1>4, <2>1 DEF Visit, InClass, StackInv
<1>5. CASE Leave
  <2>1. stack' = SubSeq(stack, 1, Len(stack) - 1) /\ stack # <<>>
    BY <1>5 DEF Leave, Front, InClass
  <2>2. \A i \in DOMAIN stack' : stack'[i] = stack[i] /\ i \in DOMAIN stack
    BY <1>0, <2>1
  <2> QED
    BY <1>0, <1>5, <2>2 DEF Leave, InClass, StackInv
<1> QED
  BY <1>1, <1>2, <1>3, <1>4, <1>5 DEF WalkStep

LEMMA StackInvStep == IInv /\ [Next]_vars => StackInv'
<1> SUFFICES ASSUME IInv, [Next]_vars PROVE StackInv'
  OBVIOUS
<1> USE DEF contextVars, Built
<1>0. TypeOK /\ StackInv /\ stack \in Seq(FrameSet)
  BY DEF IInv, TypeOK, FrameSet
<1>1. CASE MapStep \/ StartMockClass \/ WriteNestedClass \/ WriteMockMethod \/ CloseClass
  BY <1>1, GMockWalks, WalkStackInv
<1>2. CASE EndMockClass
  BY <1>0, <1>2 DEF EndMockClass, StackInv
<1>3. CASE WriteEntry
  BY <1>0, <1>3 DEF WriteEntry, StackInv
<1>4. CASE EndLoop
  <2>1. pc # "map" /\ pc' # "map"
    BY <1>4 DEF EndLoop, Looping, Successor
  <2> QED
    BY <1>0, <1>4, <2>1 DEF EndLoop, StackInv
<1>5. CASE WriteFunction
  BY <1>0, <1>5 DEF WriteFunction, StackInv
<1>6. CASE EndFunctions \/ WriteGlobals \/ Finish
  BY <1>0, <1>6
  DEF EndFunctions, WriteGlobals, WriteGlobalVariable, EndGlobalVariables, Finish, StackInv
<1>7. CASE AbortAtEntry \/ AbortAtFunction
  BY <1>0, <1>7 DEF AbortAtEntry, AbortAtFunction, Abort, Looping, StackInv
<1>8. CASE UNCHANGED vars
  BY <1>0, <1>8 DEF vars, generatorVars, StackInv
<1> QED
  BY <1>1, <1>2, <1>3, <1>4, <1>5, <1>6, <1>7, <1>8 DEF Next, Terminated

\* A step that leaves the entries of the map as they are.
MapKept == DOMAIN Map' = DOMAIN Map /\ \A k \in DOMAIN Map : Map'[k] = Map[k]

\* The call for a class finds its entry.
LEMMA EnterKeepsMap ==
    ASSUME IInv, InClass, NEW c \in Active.children, Enter(c)
    PROVE  MapKept /\ c \in DOMAIN Map
<1>1. Len(stack) \in DOMAIN stack /\ c \in stack[Len(stack)].children
  BY TakenChild DEF IInv, Active
<1>2. c \in DOMAIN Map
  BY <1>1, IInvRecursion DEF InClass, Enter, RecursionCreatesNothing
<1>3. DOMAIN Map' = DOMAIN Map \cup {c} /\ \A x \in DOMAIN Map : Map'[x] = Map[x]
  BY LookedUpEntries DEF Enter
<1> QED
  BY <1>2, <1>3 DEF MapKept

\* The contexts whose names are all names, and those around them.
LEMMA NamedClosed ==
    /\ NamedContext \subseteq Context /\ TranslationUnit \in NamedContext
    /\ \A c \in NamedContext : Primary[c] \in NamedContext
    /\ \A c \in NamedContext \ {TranslationUnit} :
          ~IsUnnamed(c) /\ Parent[c] \in NamedContext /\ PrimaryParent(c) \in NamedContext
<1>1. NamedContext \subseteq Context
  BY DEF NamedContext
<1>2. TranslationUnit \in NamedContext
  <2>1. {TranslationUnit} \in SUBSET Context /\ {TranslationUnit} \ {TranslationUnit} = {}
    BY ContextAssumption
  <2> QED
    BY <2>1 DEF NamedContext
<1>3. \A c \in NamedContext \ {TranslationUnit} :
        ~IsUnnamed(c) /\ {Parent[c], Primary[c]} \subseteq NamedContext
  BY DEF NamedContext
<1>4. Primary[TranslationUnit] = TranslationUnit
  BY PrimaryAssumption
<1>5. \A c \in NamedContext : Primary[c] \in NamedContext
  BY <1>2, <1>3, <1>4
<1> QED
  BY <1>1, <1>2, <1>3, <1>5 DEF PrimaryParent

\* The keys of the map are primary contexts, and the translation unit is in
\* none of them.  If all functions stand in contexts with names, the keys do.
KeysInv ==
    /\ IsFiniteSet(DOMAIN Map)
    /\ \A k \in DOMAIN Map : Primary[k] = k /\ TranslationUnit \notin Map[k]
    /\ AllNamed => DOMAIN Map \subseteq NamedContext
    /\ AllNamed => parent \in NamedContext \cup {NoContext}

LEMMA WalkKeys ==
    ASSUME IInv, KeysInv, WalkStep PROVE KeysInv'
<1>0. TypeOK /\ MapInv
  BY DEF IInv
<1>1. CASE NextFunction
  <2>1. /\ parent' = Parent[FunctionDecls[index]] /\ index \in DOMAIN FunctionDecls
        /\ UNCHANGED <<FunctionDecls, Map>>
    BY <1>0, <1>1, ListAssumption DEF NextFunction, TypeOK, ContextsTypeOK
  <2>2. AllNamed => parent' \in NamedContext
    BY <2>1 DEF AllNamed, Range
  <2> QED
    BY <2>1, <2>2 DEF KeysInv, AllNamed
<1>2. CASE Climb
  <2>1. /\ DOMAIN Map' = DOMAIN Map \cup {Primary[parent]}
        /\ \A x \in DOMAIN Map : x # Primary[parent] => Map'[x] = Map[x]
        /\ Map'[Primary[parent]] = Children(Primary[parent]) \cup {child}
    BY <1>2, InsertedEntries DEF Climb
  <2>2. parent \in Context /\ Primary[Primary[parent]] = Primary[parent]
    BY <1>0, <1>2, PrimaryAssumption DEF Climb, TypeOK, ContextsTypeOK
  <2>3. child # TranslationUnit
    BY <1>0, <1>2, ContextAssumption
    DEF Climb, MapInv, TypeOK, ContextsTypeOK, DeclContext
  <2>4. IsFiniteSet(DOMAIN Map')
    BY <2>1, FS_AddElement DEF KeysInv
  <2>5. TranslationUnit \notin Children(Primary[parent])
    BY DEF Children, KeysInv
  <2>6. parent' = Parent[Primary[parent]] /\ parent # NoContext /\ UNCHANGED FunctionDecls
    BY <1>2 DEF Climb
  <2>7. ASSUME AllNamed
        PROVE  Primary[parent] \in NamedContext /\ parent' \in NamedContext \cup {NoContext}
    <3>1. Primary[parent] \in NamedContext
      BY <2>6, <2>7, NamedClosed DEF KeysInv
    <3>2. Parent[TranslationUnit] = NoContext
      BY ContextAssumption DEF DeclContext
    <3> QED
      BY <2>6, <3>1, <3>2, NamedClosed
  <2>8. AllNamed' <=> AllNamed
    BY <2>6 DEF AllNamed
  <2> QED
    BY <2>1, <2>2, <2>3, <2>4, <2>5, <2>7, <2>8 DEF KeysInv
<1>3. CASE StartWalk
  <2>1. /\ DOMAIN Map' = DOMAIN Map \cup {TranslationUnit}
        /\ \A k \in DOMAIN Map : Map'[k] = Map[k]
        /\ TranslationUnit \notin DOMAIN Map => Map'[TranslationUnit] = {}
    BY <1>3, LookedUpEntries DEF StartWalk
  <2>2. IsFiniteSet(DOMAIN Map')
    BY <2>1, FS_AddElement DEF KeysInv
  <2>3. UNCHANGED parent /\ (AllNamed' <=> AllNamed)
    BY <1>3 DEF StartWalk, lists, AllNamed
  <2> QED
    BY <2>1, <2>2, <2>3, NamedClosed, PrimaryAssumption DEF KeysInv
<1>4. CASE MapKept /\ UNCHANGED <<FunctionDecls, parent>>
  BY <1>4 DEF KeysInv, MapKept, AllNamed
<1>5. CASE UNCHANGED <<Map, FunctionDecls, parent>>
  BY <1>5 DEF KeysInv, AllNamed
<1> QED
  BY <1>1, <1>2, <1>3, <1>4, <1>5, EnterKeepsMap
  DEF WalkStep, CreateContextMap, Enter, Visit, Leave, contextVars, lists

LEMMA Invariance == Spec => []IInv
<1>1. IInv /\ [Next]_vars => IInv'
  BY TypeStep, MapInvStep, StackInvStep DEF IInv
<1> QED
  BY IInvInit, <1>1, PTL DEF Spec

\* The context map that the backend works from holds every collected function
\* and every context above one, each under its own parent, and nothing else.
THEOREM ContextMapExact == Spec => []MapExact
<1>1. IInv => MapExact
  BY MapInvExact DEF IInv, TypeOK
<1> QED
  BY Invariance, <1>1, PTL

\* No call of writeMockClass creates an entry of the map that a caller of it
\* iterates over.
THEOREM IterationSafe == Spec => []RecursionCreatesNothing
BY Invariance, IInvRecursion, PTL

-----------------------------------------------------------------------------
(***************************************************************************)
(* Paths.  The definition of Around recurs over the parents.  That it has  *)
(* a solution rests on the contexts being a tree: every context has        *)
(* exactly one chain of parents, and that chain is a solution.  The same   *)
(* is true of the chain of primary contexts, which is the one that the     *)
(* recursion over the map follows.                                         *)
(***************************************************************************)
Chain(up, c) ==
    {s \in Seq(Context) :
        /\ s # <<>> /\ s[1] = TranslationUnit /\ s[Len(s)] = c
        /\ \A i \in 1 .. Len(s) - 1 :
              s[i] = up[s[i + 1]] /\ s[i + 1] # TranslationUnit}

ChainOf(up, c) == CHOOSE s \in Chain(up, c) : TRUE

\* The step from a context to one around it, which leads to the translation unit.
IsUpward(up) ==
    /\ \A c \in Context \ {TranslationUnit} : up[c] \in Context
    /\ \A S \in SUBSET Context : S # {} => \E c \in S : c = TranslationUnit \/ up[c] \notin S

Above == [c \in Context |-> PrimaryParent(c)]

LEMMA Upward == IsUpward(Parent) /\ IsUpward(Above)
<1>1. \A c \in Context \ {TranslationUnit} : Parent[c] \in Context /\ Above[c] \in Context
  BY ContextAssumption, PrimaryAssumption DEF Above, PrimaryParent, DeclContext
<1>2. ASSUME NEW S \in SUBSET Context, S # {}
      PROVE  \E c \in S : c = TranslationUnit \/ (Parent[c] \notin S /\ Above[c] \notin S)
  <2>1. PICK c \in S :
          Parent[c] \notin S /\ (c # TranslationUnit => Primary[Parent[c]] \notin S)
    BY <1>2, TreeAssumption
  <2> QED
    BY <2>1 DEF Above, PrimaryParent
<1> QED
  BY <1>1, <1>2 DEF IsUpward

LEMMA ChainRoot ==
    ASSUME NEW up, NEW s
    PROVE  s \in Chain(up, TranslationUnit) <=> s = <<TranslationUnit>>
<1>1. <<TranslationUnit>> \in Chain(up, TranslationUnit)
  <2>1. <<TranslationUnit>> \in Seq(Context)
    BY ContextAssumption
  <2> QED
    BY <2>1 DEF Chain
<1>2. ASSUME s \in Chain(up, TranslationUnit) PROVE s = <<TranslationUnit>>
  <2>1. /\ s \in Seq(Context) /\ s # <<>> /\ s[1] = TranslationUnit
        /\ s[Len(s)] = TranslationUnit
        /\ \A i \in 1 .. Len(s) - 1 : s[i + 1] # TranslationUnit
    BY <1>2 DEF Chain
  <2>2. Len(s) = 1
    <3>1. Len(s) \in Nat \ {0}
      BY <2>1
    <3>2. Len(s) # 1 => Len(s) - 1 \in 1 .. Len(s) - 1 /\ Len(s) - 1 + 1 = Len(s)
      <4>1. \A n \in Nat \ {0} : n # 1 => n - 1 \in 1 .. n - 1 /\ n - 1 + 1 = n
        OBVIOUS
      <4> QED
        BY <3>1, <4>1
    <3> QED
      BY <2>1, <3>2
  <2> QED
    BY <2>1, <2>2
<1> QED
  BY <1>1, <1>2

\* A chain is that of the next context and the context itself.
LEMMA ChainUp ==
    ASSUME NEW up, NEW c \in Context \ {TranslationUnit}, NEW s
    PROVE  s \in Chain(up, c) <=> \E t \in Chain(up, up[c]) : s = Append(t, c)
<1>1. ASSUME NEW t \in Chain(up, up[c]) PROVE Append(t, c) \in Chain(up, c)
  <2>1. /\ t \in Seq(Context) /\ t # <<>> /\ t[1] = TranslationUnit
        /\ t[Len(t)] = up[c]
        /\ \A i \in 1 .. Len(t) - 1 :
              t[i] = up[t[i + 1]] /\ t[i + 1] # TranslationUnit
    BY DEF Chain
  <2> DEFINE u == Append(t, c)
  <2>2. /\ u \in Seq(Context) /\ Len(u) = Len(t) + 1 /\ u[Len(t) + 1] = c
        /\ \A i \in 1 .. Len(t) : u[i] = t[i]
        /\ Len(t) \in Nat \ {0}
    BY <2>1
  <2> HIDE DEF u
  <2>3. u # <<>> /\ u[1] = TranslationUnit /\ u[Len(u)] = c
    BY <2>1, <2>2
  <2>4. ASSUME NEW i \in 1 .. Len(u) - 1
        PROVE  u[i] = up[u[i + 1]] /\ u[i + 1] # TranslationUnit
    <3>1. CASE i = Len(t)
      BY <2>1, <2>2, <3>1
    <3>2. CASE i # Len(t)
      <4>1. i \in 1 .. Len(t) - 1 /\ i \in 1 .. Len(t) /\ i + 1 \in 1 .. Len(t)
        BY <2>2, <3>2
      <4> QED
        BY <2>1, <2>2, <4>1
    <3> QED
      BY <3>1, <3>2
  <2> QED
    BY <2>2, <2>3, <2>4 DEF Chain, u
<1>2. ASSUME s \in Chain(up, c) PROVE \E t \in Chain(up, up[c]) : s = Append(t, c)
  <2>1. /\ s \in Seq(Context) /\ s # <<>> /\ s[1] = TranslationUnit /\ s[Len(s)] = c
        /\ \A i \in 1 .. Len(s) - 1 :
              s[i] = up[s[i + 1]] /\ s[i + 1] # TranslationUnit
    BY <1>2 DEF Chain
  <2>2. Len(s) \in Nat /\ Len(s) >= 2
    <3>1. Len(s) \in Nat \ {0}
      BY <2>1
    <3>2. Len(s) # 1
      BY <2>1
    <3>3. \A n \in Nat \ {0} : n # 1 => n >= 2
      OBVIOUS
    <3> QED
      BY <3>1, <3>2, <3>3
  <2> DEFINE t == SubSeq(s, 1, Len(s) - 1)
  <2>3. /\ t \in Seq(Context) /\ Len(t) = Len(s) - 1
        /\ \A i \in 1 .. Len(s) - 1 : t[i] = s[i]
    BY <2>1, <2>2
  <2>4. s = Append(t, c)
    BY <2>1, <2>2
  <2> HIDE DEF t
  <2>5. t # <<>> /\ t[1] = TranslationUnit /\ t[Len(t)] = up[c]
    <3>1. Len(s) - 1 \in 1 .. Len(s) - 1 /\ 1 \in 1 .. Len(s) - 1 /\ Len(s) - 1 + 1 = Len(s)
      BY <2>2
    <3> QED
      BY <2>1, <2>3, <3>1
  <2>6. \A i \in 1 .. Len(t) - 1 : t[i] = up[t[i + 1]] /\ t[i + 1] # TranslationUnit
    <3> SUFFICES ASSUME NEW i \in 1 .. Len(t) - 1
                 PROVE  t[i] = up[t[i + 1]] /\ t[i + 1] # TranslationUnit
      OBVIOUS
    <3>1. i \in 1 .. Len(s) - 1 /\ i + 1 \in 1 .. Len(s) - 1
      BY <2>2, <2>3
    <3> QED
      BY <2>1, <2>3, <3>1
  <2> QED
    BY <2>3, <2>4, <2>5, <2>6 DEF Chain
<1> QED
  BY <1>1, <1>2

LEMMA ChainExists ==
    ASSUME NEW up, IsUpward(up) PROVE \A c \in Context : \E s : Chain(up, c) = {s}
<1> DEFINE bad == {c \in Context : ~\E s : Chain(up, c) = {s}}
<1>1. SUFFICES ASSUME bad # {} PROVE FALSE
  OBVIOUS
<1>2. PICK c \in bad : c = TranslationUnit \/ up[c] \notin bad
  BY <1>1 DEF IsUpward
<1>3. c \in Context /\ ~\E s : Chain(up, c) = {s}
  OBVIOUS
<1>4. c # TranslationUnit
  <2>1. Chain(up, TranslationUnit) = {<<TranslationUnit>>}
    BY ChainRoot
  <2> QED
    BY <1>3, <2>1
<1>5. up[c] \in Context
  BY <1>3, <1>4 DEF IsUpward
<1>6. PICK t : Chain(up, up[c]) = {t}
  BY <1>2, <1>4, <1>5
<1>7. Chain(up, c) = {Append(t, c)}
  BY <1>3, <1>4, <1>6, ChainUp
<1> QED
  BY <1>3, <1>7

\* A chain without the translation unit.
BelowRoot(s) == [i \in 1 .. Len(s) - 1 |-> s[i + 1]]

LEMMA BelowAppended ==
    ASSUME NEW t \in Seq(Context), t # <<>>, NEW c \in Context
    PROVE  BelowRoot(Append(t, c)) = Append(BelowRoot(t), c) /\ BelowRoot(t) \in Seq(Context)
<1> DEFINE u == Append(t, c)
           m == Len(t) - 1
<1>1. /\ Len(u) = m + 2 /\ Len(t) = m + 1 /\ m \in Nat /\ u[m + 2] = c
      /\ \A i \in 1 .. m + 1 : u[i] = t[i] /\ t[i] \in Context
  OBVIOUS
<1>2. \A i \in 1 .. m : i + 1 \in 1 .. m + 1
  BY <1>1
<1> HIDE DEF u, m
<1>3. BelowRoot(t) = [i \in 1 .. m |-> t[i + 1]] /\ BelowRoot(t) \in Seq(Context)
  <2>1. BelowRoot(t) = [i \in 1 .. m |-> t[i + 1]]
    BY <1>1 DEF BelowRoot
  <2>2. \A i \in 1 .. m : t[i + 1] \in Context
    BY <1>1, <1>2
  <2> QED
    BY <1>1, <2>1, <2>2
<1>4. BelowRoot(u) = [i \in 1 .. m + 1 |-> u[i + 1]]
  BY <1>1 DEF BelowRoot
<1>5. \A i \in 1 .. m + 1 : u[i + 1] = IF i = m + 1 THEN c ELSE t[i + 1]
  <2> SUFFICES ASSUME NEW i \in 1 .. m + 1
               PROVE  u[i + 1] = IF i = m + 1 THEN c ELSE t[i + 1]
    OBVIOUS
  <2>1. i # m + 1 => i \in 1 .. m
    BY <1>1
  <2>2. i = m + 1 => i + 1 = m + 2
    BY <1>1
  <2> QED
    BY <1>1, <1>2, <2>1, <2>2
<1>6. Append(BelowRoot(t), c) = [i \in 1 .. m + 1 |-> IF i = m + 1 THEN c ELSE t[i + 1]]
  <2> DEFINE n == BelowRoot(t)
  <2>1. n \in Seq(Context) /\ n = [i \in 1 .. m |-> t[i + 1]]
    BY <1>3
  <2> HIDE DEF n
  <2>2. Len(n) = m /\ DOMAIN n = 1 .. m
    BY <1>1, <2>1
  <2>3. Append(n, c) = [i \in 1 .. m + 1 |-> IF i = m + 1 THEN c ELSE n[i]]
    BY <1>1, <2>1, <2>2
  <2>4. \A i \in 1 .. m + 1 : i # m + 1 => n[i] = t[i + 1]
    BY <1>1, <2>1
  <2> QED
    BY <2>3, <2>4 DEF n
<1> QED
  BY <1>3, <1>4, <1>5, <1>6 DEF u

\* The contexts around a context, along one of the two ways up.
LEMMA ChainUnfolds ==
    ASSUME NEW up, IsUpward(up), NEW c \in Context
    PROVE  /\ BelowRoot(ChainOf(up, c)) \in Seq(Context)
           /\ BelowRoot(ChainOf(up, c)) =
                IF c = TranslationUnit THEN <<>>
                ELSE Append(BelowRoot(ChainOf(up, up[c])), c)
<1>1. \A d \in Context : Chain(up, d) = {ChainOf(up, d)}
  BY ChainExists DEF ChainOf
<1>2. CASE c = TranslationUnit
  <2>1. ChainOf(up, c) = <<TranslationUnit>>
    BY <1>1, <1>2, ChainRoot
  <2>2. BelowRoot(<<TranslationUnit>>) = <<>>
    BY DEF BelowRoot
  <2> QED
    BY <1>2, <2>1, <2>2
<1>3. CASE c # TranslationUnit
  <2>1. up[c] \in Context
    BY <1>3 DEF IsUpward
  <2>2. PICK t : t = ChainOf(up, up[c]) /\ ChainOf(up, c) = Append(t, c)
    BY <1>1, <1>3, <2>1, ChainUp
  <2>3. t \in Seq(Context) /\ t # <<>>
    BY <1>1, <2>1, <2>2 DEF Chain
  <2>4. BelowRoot(Append(t, c)) = Append(BelowRoot(t), c) /\ BelowRoot(t) \in Seq(Context)
    BY <2>3, BelowAppended
  <2>5. Append(BelowRoot(t), c) \in Seq(Context)
    BY <2>4
  <2> QED
    BY <1>3, <2>2, <2>4, <2>5
<1> QED
  BY <1>2, <1>3

LEMMA AroundUnfolds ==
    \A c \in Context :
        /\ Around[c] \in Seq(Context)
        /\ Around[c] = IF c = TranslationUnit THEN <<>> ELSE Append(Around[Parent[c]], c)
<1> DEFINE around == [c \in Context |-> BelowRoot(ChainOf(Parent, c))]
           equation(p) == p = [c \in Context |-> IF c = TranslationUnit THEN <<>>
                                  ELSE Append(p[Parent[c]], c)]
<1>1. \A c \in Context :
        around[c] = IF c = TranslationUnit THEN <<>> ELSE Append(around[Parent[c]], c)
  <2> SUFFICES ASSUME NEW c \in Context
               PROVE  around[c] = IF c = TranslationUnit THEN <<>>
                                  ELSE Append(around[Parent[c]], c)
    OBVIOUS
  <2>1. c # TranslationUnit =>
          Parent[c] \in Context /\ around[Parent[c]] = BelowRoot(ChainOf(Parent, Parent[c]))
    BY Upward DEF IsUpward
  <2>2. around[c] = BelowRoot(ChainOf(Parent, c))
    OBVIOUS
  <2> HIDE DEF around
  <2> QED
    BY <2>1, <2>2, Upward, ChainUnfolds
<1>2. equation(around)
  <2>1. around = [c \in Context |-> around[c]]
    OBVIOUS
  <2> HIDE DEF around
  <2> QED
    BY <1>1, <2>1
<1> HIDE DEF around
<1>3. Around = CHOOSE p : equation(p)
  BY Zenon DEF Around
<1>4. equation(Around)
  BY <1>2, <1>3
<1>5. \A c \in Context :
        Around[c] = IF c = TranslationUnit THEN <<>> ELSE Append(Around[Parent[c]], c)
  BY <1>4
<1>6. \A c \in Context : Around[c] \in Seq(Context)
  <2> DEFINE bad == {c \in Context : Around[c] \notin Seq(Context)}
  <2>1. SUFFICES ASSUME bad # {} PROVE FALSE
    OBVIOUS
  <2>2. PICK c \in bad : c = TranslationUnit \/ Parent[c] \notin bad
    BY <2>1, Upward DEF IsUpward
  <2>3. c \in Context /\ Around[c] \notin Seq(Context)
    OBVIOUS
  <2>4. c # TranslationUnit
    <3>1. <<>> \in Seq(Context)
      OBVIOUS
    <3> QED
      BY <1>5, <2>3, <3>1
  <2>5. Around[Parent[c]] \in Seq(Context)
    BY <2>2, <2>3, <2>4, Upward DEF IsUpward
  <2>6. Append(Around[Parent[c]], c) \in Seq(Context)
    BY <2>3, <2>5
  <2> QED
    BY <1>5, <2>3, <2>4, <2>6
<1> QED
  BY <1>5, <1>6

NameSet == {Identifier[c] : c \in Context}
Names(s) == [i \in DOMAIN s |-> Identifier[s[i]]]

LEMMA NamesAppended ==
    ASSUME NEW s \in Seq(Context), NEW c \in Context
    PROVE  /\ Names(s) \in Seq(NameSet)
           /\ Names(Append(s, c)) = Append(Names(s), Identifier[c])
<1> PICK m, last : m = Len(s) /\ last = Identifier[c]
  OBVIOUS
<1>1. m \in Nat /\ DOMAIN s = 1 .. m /\ last \in NameSet
  BY DEF NameSet
<1>2. Names(s) = [i \in 1 .. m |-> Identifier[s[i]]] /\ \A i \in 1 .. m : Identifier[s[i]] \in NameSet
  BY <1>1 DEF Names, NameSet
<1> PICK n : n = Names(s)
  OBVIOUS
<1>3. n \in Seq(NameSet) /\ Len(n) = m /\ n = [i \in 1 .. m |-> Identifier[s[i]]]
  BY <1>1, <1>2
<1>4. Append(n, last) = [i \in 1 .. m + 1 |-> IF i = m + 1 THEN last ELSE n[i]]
  BY <1>1, <1>3
<1> PICK u : u = Append(s, c)
  OBVIOUS
<1>5. /\ DOMAIN u = 1 .. m + 1 /\ u[m + 1] = c
      /\ \A i \in 1 .. m : u[i] = s[i]
  BY <1>1
<1>6. Names(u) = [i \in 1 .. m + 1 |-> Identifier[u[i]]]
  BY <1>5 DEF Names
<1>7. \A i \in 1 .. m + 1 : Identifier[u[i]] = IF i = m + 1 THEN last ELSE n[i]
  <2> SUFFICES ASSUME NEW i \in 1 .. m + 1
               PROVE  Identifier[u[i]] = IF i = m + 1 THEN last ELSE n[i]
    OBVIOUS
  <2>1. i # m + 1 => i \in 1 .. m
    BY <1>1
  <2> QED
    BY <1>3, <1>5, <2>1
<1> QED
  BY <1>3, <1>4, <1>6, <1>7

LEMMA PathUnfolds ==
    \A c \in Context :
        /\ Path[c] = IF c = TranslationUnit THEN <<>>
                     ELSE Append(Path[Parent[c]], Identifier[c])
        /\ Path[c] \in Seq(NameSet)
<1> SUFFICES ASSUME NEW c \in Context
             PROVE  /\ Path[c] = IF c = TranslationUnit THEN <<>>
                                 ELSE Append(Path[Parent[c]], Identifier[c])
                    /\ Path[c] \in Seq(NameSet)
  OBVIOUS
<1>1. \A d \in Context : Path[d] = Names(Around[d]) /\ Around[d] \in Seq(Context)
  BY AroundUnfolds DEF Path, Names
<1>2. Names(<<>>) = <<>>
  BY DEF Names
<1>3. CASE c = TranslationUnit
  <2>1. Around[c] = <<>>
    BY <1>3, AroundUnfolds
  <2>2. Path[c] = <<>>
    BY <1>1, <1>2, <2>1
  <2> QED
    BY <1>3, <2>2
<1>4. CASE c # TranslationUnit
  <2>1. Parent[c] \in Context
    BY <1>4, Upward DEF IsUpward
  <2>2. Around[c] = Append(Around[Parent[c]], c)
    BY <1>4, AroundUnfolds
  <2>3. Path[c] = Append(Path[Parent[c]], Identifier[c])
    BY <1>1, <2>1, <2>2, NamesAppended
  <2>4. Path[c] \in Seq(NameSet)
    BY <1>1, NamesAppended
  <2> QED
    BY <1>4, <2>3, <2>4
<1> QED
  BY <1>3, <1>4

\* The names along the chain of primary contexts: where the recursion over the
\* map writes the class of a context.
WalkPath == [c \in Context |-> Names(BelowRoot(ChainOf(Above, c)))]

LEMMA WalkPathUnfolds ==
    \A c \in Context :
        /\ WalkPath[c] = IF c = TranslationUnit THEN <<>>
                         ELSE Append(WalkPath[PrimaryParent(c)], Identifier[c])
        /\ WalkPath[c] \in Seq(NameSet)
<1> SUFFICES ASSUME NEW c \in Context
             PROVE  /\ WalkPath[c] = IF c = TranslationUnit THEN <<>>
                                     ELSE Append(WalkPath[PrimaryParent(c)], Identifier[c])
                    /\ WalkPath[c] \in Seq(NameSet)
  OBVIOUS
<1>1. Above[c] = PrimaryParent(c) /\ (c # TranslationUnit => Above[c] \in Context)
  BY Upward DEF IsUpward, Above
<1>2. Names(<<>>) = <<>>
  BY DEF Names
<1>3. \A d \in Context : WalkPath[d] = Names(BelowRoot(ChainOf(Above, d)))
  BY DEF WalkPath
<1>4. /\ BelowRoot(ChainOf(Above, c)) \in Seq(Context)
      /\ BelowRoot(ChainOf(Above, c)) =
           IF c = TranslationUnit THEN <<>> ELSE Append(BelowRoot(ChainOf(Above, Above[c])), c)
      /\ c # TranslationUnit => BelowRoot(ChainOf(Above, Above[c])) \in Seq(Context)
  BY <1>1, Upward, ChainUnfolds
<1> QED
  BY <1>1, <1>2, <1>3, <1>4, NamesAppended

LEMMA WalkPathType == \A c \in Context : WalkPath[c] \in Seq(NameSet)
BY WalkPathUnfolds

\* The path of a context that is a child in the map.
LEMMA PathOfChild ==
    ASSUME NEW c \in Context \ {TranslationUnit}
    PROVE  WalkPath[c] = Append(WalkPath[PrimaryParent(c)], Identifier[c])
BY WalkPathUnfolds

\* An outermost context is its own outermost context, on either way.
LEMMA GlobalPath ==
    ASSUME NEW c \in Context, isGlobalContext(c)
    PROVE  /\ Path[c] = IF c = TranslationUnit THEN <<>> ELSE <<Identifier[c]>>
           /\ Outermost(Path[c]) = Path[c] /\ WalkPath[c] = Path[c]
<1>1. CASE c = TranslationUnit
  <2>1. Path[c] = <<>> /\ WalkPath[c] = <<>>
    BY <1>1, PathUnfolds, WalkPathUnfolds
  <2> QED
    BY <1>1, <2>1 DEF Outermost
<1>2. CASE c # TranslationUnit
  <2>1. /\ Path[Parent[c]] = <<>> /\ WalkPath[PrimaryParent(c)] = <<>>
    BY <1>2, PathUnfolds, WalkPathUnfolds, ContextAssumption, PrimaryAssumption
    DEF isGlobalContext, PrimaryParent
  <2>2. Path[c] = <<Identifier[c]>> /\ WalkPath[c] = <<Identifier[c]>>
    <3>1. Path[c] = Append(<<>>, Identifier[c]) /\ WalkPath[c] = Append(<<>>, Identifier[c])
      BY <1>2, <2>1, PathUnfolds, WalkPathUnfolds
    <3> QED
      BY <3>1
  <2>3. \A x : Outermost(<<x>>) = <<x>>
    BY DEF Outermost
  <2> QED
    BY <1>2, <2>2, <2>3
<1> QED
  BY <1>1, <1>2

LEMMA PathNotEmpty == \A c \in Context \ {TranslationUnit} : WalkPath[c] # <<>>
<1> SUFFICES ASSUME NEW c \in Context \ {TranslationUnit} PROVE WalkPath[c] # <<>>
  OBVIOUS
<1>1. WalkPath[PrimaryParent(c)] \in Seq(NameSet)
  BY WalkPathType, Upward DEF IsUpward, Above
<1>2. \A p \in Seq(NameSet), x \in NameSet : Append(p, x) # <<>>
  <2> SUFFICES ASSUME NEW p \in Seq(NameSet), NEW x \in NameSet PROVE Append(p, x) # <<>>
    OBVIOUS
  <2>1. Len(Append(p, x)) = Len(p) + 1 /\ Len(p) \in Nat
    OBVIOUS
  <2> QED
    BY <2>1
<1> QED
  BY <1>1, <1>2, PathOfChild DEF NameSet

LEMMA OutermostUp ==
    ASSUME NEW c \in Context \ {TranslationUnit},
           PrimaryParent(c) \in Context \ {TranslationUnit}
    PROVE  Outermost(WalkPath[c]) = Outermost(WalkPath[PrimaryParent(c)])
<1> PICK p, x : p = WalkPath[PrimaryParent(c)] /\ x = Identifier[c]
  OBVIOUS
<1>1. p \in Seq(NameSet) /\ p # <<>>
  BY WalkPathType, PathNotEmpty
<1>2. WalkPath[c] = Append(p, x)
  BY PathOfChild
<1>3. Append(p, x) # <<>> /\ Head(Append(p, x)) = Head(p)
  <2>1. p \in Seq(NameSet \cup {x})
    BY <1>1
  <2> QED
    BY <1>1, <2>1
<1> QED
  BY <1>1, <1>2, <1>3 DEF Outermost

-----------------------------------------------------------------------------
(***************************************************************************)
(* The contexts whose names are all names.  Around them the two ways up    *)
(* pass the same names.                                                    *)
(***************************************************************************)
LEMMA AroundNamed ==
    \A c \in NamedContext : Around[c] \in Seq(NamedContext \ {TranslationUnit})
<1> DEFINE bad == {c \in NamedContext : Around[c] \notin Seq(NamedContext \ {TranslationUnit})}
<1>1. SUFFICES ASSUME bad # {} PROVE FALSE
  OBVIOUS
<1>2. bad \in SUBSET Context
  BY NamedClosed
<1>3. PICK c \in bad : c = TranslationUnit \/ Parent[c] \notin bad
  BY <1>1, <1>2, Upward DEF IsUpward
<1>4. c \in NamedContext /\ c \in Context /\ Around[c] \notin Seq(NamedContext \ {TranslationUnit})
  BY NamedClosed
<1>5. c # TranslationUnit
  <2>1. <<>> \in Seq(NamedContext \ {TranslationUnit})
    OBVIOUS
  <2> QED
    BY <1>4, <2>1, AroundUnfolds
<1>6. Around[Parent[c]] \in Seq(NamedContext \ {TranslationUnit})
  BY <1>3, <1>4, <1>5, NamedClosed
<1>7. Append(Around[Parent[c]], c) \in Seq(NamedContext \ {TranslationUnit})
  BY <1>4, <1>5, <1>6
<1> QED
  BY <1>4, <1>5, <1>7, AroundUnfolds

\* No cast goes wrong, and writeMockPointerAccess finds the same context.
LEMMA CastsValid ==
    ASSUME NEW c \in NamedContext
    PROVE  ~CastIsInvalid(c) /\ AccessPath(c) = Outermost(Path[c])
<1> PICK a, T : a = Around[c] /\ T = NamedContext \ {TranslationUnit}
  OBVIOUS
<1>1. a \in Seq(T) /\ Path[c] = Names(a)
  BY AroundNamed, NamedClosed DEF Path, Names
<1>2. \A x \in T : ~IsUnnamed(x)
  BY NamedClosed
<1>3. ~CastIsInvalid(c)
  <2>1. \A i \in DOMAIN a : a[i] \in T
    BY <1>1
  <2> QED
    BY <1>2, <2>1 DEF CastIsInvalid
<1>4. CASE a = <<>>
  <2>1. Names(<<>>) = <<>>
    BY DEF Names
  <2> QED
    BY <1>1, <1>3, <1>4, <2>1 DEF AccessPath, Outermost
<1>5. CASE a # <<>>
  <2>1. Len(a) \in Nat \ {0} /\ DOMAIN a = 1 .. Len(a) /\ Head(a) = a[1] /\ a[1] \in T
    BY <1>1, <1>5
  <2>2. /\ Names(a) = [i \in 1 .. Len(a) |-> Identifier[a[i]]]
    BY <2>1 DEF Names
  <2>3. Names(a) # <<>> /\ Head(Names(a)) = Identifier[a[1]]
    <3>1. Names(a) \in Seq({Identifier[a[i]] : i \in 1 .. Len(a)}) /\ Len(Names(a)) = Len(a)
      BY <2>1, <2>2
    <3> QED
      BY <2>1, <2>2, <3>1
  <2> QED
    BY <1>1, <1>2, <1>3, <1>5, <2>1, <2>3 DEF AccessPath, Outermost
<1> QED
  BY <1>4, <1>5

\* The declarations of one entity have one path.
LEMMA PathOfPrimary == \A c \in NamedContext : Path[Primary[c]] = Path[c]
<1> DEFINE bad == {c \in NamedContext : \E d \in NamedContext :
                      Primary[d] = Primary[c] /\ Path[d] # Path[c]}
<1>1. bad = {}
  <2> SUFFICES ASSUME bad # {} PROVE FALSE
    OBVIOUS
  <2>1. PICK c \in bad : c = TranslationUnit \/ Parent[c] \notin bad
    <3>1. bad \in SUBSET Context
      BY NamedClosed
    <3> QED
      BY <3>1, Upward DEF IsUpward
  <2>2. PICK d \in NamedContext :
           /\ Primary[d] = Primary[c] /\ Path[d] # Path[c]
           /\ c \in NamedContext /\ c \in Context /\ d \in Context
    BY NamedClosed
  <2>3. c = TranslationUnit <=> d = TranslationUnit
    BY <2>2, PrimaryAssumption, RedeclarationAssumption
  <2>4. c # TranslationUnit /\ d # TranslationUnit
    BY <2>2, <2>3
  <2>5. /\ Parent[c] \in NamedContext /\ Parent[d] \in NamedContext
        /\ Parent[Primary[c]] \in NamedContext
    BY <2>2, <2>4, NamedClosed, RedeclarationAssumption
  <2>6. Primary[Parent[d]] = Primary[Parent[c]]
    <3>1. \A x \in NamedContext : ~IsUnnamed(x)
      BY NamedClosed DEF IsUnnamed
    <3> QED
      BY <2>2, <2>4, <2>5, <3>1, RedeclarationAssumption
  <2>7. Path[Parent[d]] = Path[Parent[c]]
    BY <2>1, <2>4, <2>5, <2>6
  <2>8. Identifier[d] = Identifier[c]
    BY <2>2, NameAssumption
  <2> QED
    BY <2>2, <2>4, <2>7, <2>8, PathUnfolds
<1>2. \A c \in NamedContext : Primary[c] \in NamedContext /\ Primary[Primary[c]] = Primary[c]
  BY NamedClosed, PrimaryAssumption
<1> QED
  BY <1>1, <1>2

LEMMA NamedPath == \A c \in NamedContext : WalkPath[c] = Path[c]
<1> DEFINE bad == {c \in NamedContext : WalkPath[c] # Path[c]}
<1>1. SUFFICES ASSUME bad # {} PROVE FALSE
  OBVIOUS
<1>2. PICK c \in bad : c = TranslationUnit \/ PrimaryParent(c) \notin bad
  <2>1. bad \in SUBSET Context
    BY NamedClosed
  <2>2. PICK c \in bad : c = TranslationUnit \/ Above[c] \notin bad
    BY <1>1, <2>1, Upward DEF IsUpward
  <2>3. Above[c] = PrimaryParent(c)
    BY <2>1 DEF Above
  <2> QED
    BY <2>2, <2>3
<1>3. c \in NamedContext /\ c \in Context /\ WalkPath[c] # Path[c]
  BY NamedClosed
<1>4. c # TranslationUnit
  BY <1>3, PathUnfolds, WalkPathUnfolds
<1>5. Parent[c] \in NamedContext /\ PrimaryParent(c) \in NamedContext
  BY <1>3, <1>4, NamedClosed
<1>6. WalkPath[PrimaryParent(c)] = Path[Parent[c]]
  BY <1>2, <1>4, <1>5, PathOfPrimary DEF PrimaryParent
<1> QED
  BY <1>3, <1>4, <1>6, PathUnfolds, WalkPathUnfolds

\* Above every recorded context there is one that stands in the translation unit.
LEMMA OutermostKey ==
    ASSUME TypeOK, Built, MapInv, NEW k \in DOMAIN Map \ {TranslationUnit}
    PROVE  \E g \in DOMAIN Map \ {TranslationUnit} :
                /\ isGlobalContext(g) /\ Path[g] = Outermost(WalkPath[k])
                /\ k \in NamedContext => g \in NamedContext
<1> DEFINE above(x) == \E g \in DOMAIN Map \ {TranslationUnit} :
                          /\ isGlobalContext(g) /\ Path[g] = Outermost(WalkPath[x])
                          /\ x \in NamedContext => g \in NamedContext
           bad == {x \in DOMAIN Map \ {TranslationUnit} : ~above(x)}
<1>1. bad = {}
  <2> SUFFICES ASSUME bad # {} PROVE FALSE
    OBVIOUS
  <2>1. PICK x \in bad : x = TranslationUnit \/ PrimaryParent(x) \notin bad
    <3>1. bad \in SUBSET Context
      BY DEF TypeOK, ContextsTypeOK
    <3>2. PICK x \in bad : x = TranslationUnit \/ Above[x] \notin bad
      BY <3>1, Upward DEF IsUpward
    <3>3. Above[x] = PrimaryParent(x)
      BY <3>1 DEF Above
    <3> QED
      BY <3>2, <3>3
  <2>2. x \in Context \ {TranslationUnit} /\ x \in DOMAIN Map /\ ~above(x)
    BY <2>1 DEF TypeOK, ContextsTypeOK
  <2>3. Parent[x] \in Context
    BY <2>2, ContextAssumption DEF DeclContext
  <2>4. Parent[x] # TranslationUnit
    <3> SUFFICES ASSUME Parent[x] = TranslationUnit PROVE FALSE
      OBVIOUS
    <3>1. isGlobalContext(x)
      BY DEF isGlobalContext
    <3> QED
      BY <2>2, <3>1, GlobalPath
  <2>5. Recorded(x)
    BY <2>2 DEF MapInv, Built, Climbing
  <2>6. PrimaryParent(x) \in DOMAIN Map \ {TranslationUnit}
    BY <2>3, <2>4, <2>5, RedeclarationAssumption DEF Recorded, PrimaryParent
  <2>7. above(PrimaryParent(x))
    BY <2>1, <2>2, <2>6
  <2>8. Outermost(WalkPath[x]) = Outermost(WalkPath[PrimaryParent(x)])
    <3>1. PrimaryParent(x) \in Context \ {TranslationUnit}
      BY <2>6 DEF TypeOK, ContextsTypeOK
    <3> QED
      BY <2>2, <3>1, OutermostUp
  <2>9. x \in NamedContext => PrimaryParent(x) \in NamedContext
    BY <2>2, NamedClosed
  <2> QED
    BY <2>2, <2>7, <2>8, <2>9
<1> QED
  BY <1>1

-----------------------------------------------------------------------------
(***************************************************************************)
(* The items.  The invariant follows run() through its parts: the classes  *)
(* are complete when the recursion is over, each loop over the map has     *)
(* dealt with the entries it has passed, and the functions come last.      *)
(***************************************************************************)
\* No function stands in anything but namespaces and records, and a variadic
\* one that is collected has a parameter.
OrdinaryInput ==
    /\ \A k \in DOMAIN Map : Kind[k] \in ClassKind
    /\ \A f \in Range(FunctionDecls) : f \in Variadic => Len(Parameters[f]) # 0

Ordinary == AllNamed /\ OrdinaryInput

BufferInv ==
    /\ Buffer
    /\ AnyVariadic = \E f \in Range(FunctionDecls) : f \in Variadic
    /\ pc \in {"map", "class"} => next = 1
    /\ pc = "map" => DeclaredBeforeUse
    /\ pc # "map" => Included \cup {Linkage, Class(<<>>)} \subseteq Declared

\* The names of the contexts of the first i active calls.
PathTo(i) == [j \in 1 .. i - 1 |-> Identifier[stack[j + 1].context]]

StackPaths ==
    \A i \in DOMAIN stack :
        /\ PathTo(i) = WalkPath[stack[i].context]
        /\ Class(WalkPath[stack[i].context]) \in Declared

MethodsDeclared(k, S) ==
    \A c \in S : Kind[c] \in FunctionKind => Method(WalkPath[k], c) \in Declared

ClassFinished(k) ==
    /\ Class(WalkPath[k]) \in Declared
    /\ MethodsDeclared(k, Map[k])
    /\ requiresPointerVariable(k, Map[k]) => Pointer(WalkPath[k]) \in Declared

\* A set of contexts that the recursion has still to descend into: each is a
\* child of another one or waits in an active call.  The rest is finished or
\* being written.
Unvisited(U) ==
    /\ \A k \in U :
          /\ k # TranslationUnit
          /\ \/ PrimaryParent(k) \in U
             \/ \E i \in DOMAIN stack :
                   stack[i].context = PrimaryParent(k) /\ k \in stack[i].children
    /\ \A k \in DOMAIN Map \ U :
          ClassFinished(k) \/ \E i \in DOMAIN stack : stack[i].context = k

ClassInv ==
    pc = "class" =>
        /\ StackPaths
        /\ \A i \in DOMAIN stack :
              MethodsDeclared(stack[i].context,
                              Map[stack[i].context] \ stack[i].children)
        /\ Ordinary => \E U \in SUBSET DOMAIN Map : Unvisited(U)

FinishedInv ==
    pc \notin {"map", "class"} =>
        /\ order \in Seq(DOMAIN Map) /\ Range(order) = DOMAIN Map
        /\ Ordinary => \A k \in DOMAIN Map : ClassFinished(k)

\* The loops over the map: what one declares for an entry, and which entries
\* it has passed.
LoopSymbol(p, c) ==
    CASE p = "definitions" -> Definition(WalkPath[c])
      [] p = "setup" -> SetUp(AccessPath(c))
      [] p = "teardown" -> TearDown(AccessPath(c))
      [] p = "variables" ->
            Member(IF c = TranslationUnit THEN <<"_">> ELSE <<Identifier[c]>>)

AfterLoops == {"functions", "globals", "main", "done"}
After ==
    [definitions |-> {"setup", "teardown", "variables"} \cup AfterLoops,
     setup |-> {"teardown", "variables"} \cup AfterLoops,
     teardown |-> {"variables"} \cup AfterLoops,
     variables |-> AfterLoops]

LoopPassed(p, n) == (pc = p /\ n < next) \/ pc \in After[p]

LoopInv ==
    \A p \in DOMAIN After : \A n \in DOMAIN order :
        LoopPassed(p, n) /\ requiresPointerVariable(order[n], Map[order[n]]) =>
            LoopSymbol(p, order[n]) \in Declared

FunctionInv ==
    \A n \in DOMAIN FunctionDecls :
        (pc = "functions" /\ n < next) \/ pc \in {"globals", "main", "done"} =>
            Body(FunctionDecls[n]) \in Declared

MemberUses ==
    \A n \in DOMAIN out : \A symbol \in out[n].uses :
        FixtureMember(symbol) =>
            /\ pc \notin {"map", "class"}
            /\ \E k \in DOMAIN Map :
                  requiresPointerVariable(k, Map[k]) /\ symbol = VariableAccess(k)

ItemInv ==
    /\ BufferInv /\ KeysInv /\ ClassInv /\ FinishedInv /\ LoopInv /\ FunctionInv
    /\ MemberUses
    /\ Ordinary => DeclaredBeforeUse

-----------------------------------------------------------------------------
LEMMA OrdinaryKept ==
    ASSUME MapKept, UNCHANGED FunctionDecls PROVE Ordinary' <=> Ordinary
BY DEF MapKept, Ordinary, OrdinaryInput, AllNamed

LEMMA ClassFinishedKept ==
    ASSUME MapKept, Declared \subseteq Declared',
           NEW k \in DOMAIN Map, ClassFinished(k)
    PROVE  ClassFinished(k)'
BY DEF MapKept, ClassFinished, MethodsDeclared

\* Writing an item, or none, only adds declarations.
LEMMA WriteGrows ==
    ASSUME Buffer, NEW item, Write(item) \/ UNCHANGED out
    PROVE  Buffer' /\ Declared \subseteq Declared'
BY Written, WrittenDeclares, NothingWritten

\* The two parts of the invariant that are about the uses of the items, when
\* an item is written and when none is.
MemberOfFixture(symbol) ==
    /\ pc \notin {"map", "class"}
    /\ \E k \in DOMAIN Map :
          requiresPointerVariable(k, Map[k]) /\ symbol = VariableAccess(k)

LEMMA UsesWritten ==
    ASSUME Buffer, MemberUses, Ordinary => DeclaredBeforeUse, MapKept,
           UNCHANGED FunctionDecls,
           pc \notin {"map", "class"} => pc' \notin {"map", "class"},
           NEW item, Write(item),
           \A symbol \in item.uses : FixtureMember(symbol) => MemberOfFixture(symbol),
           Ordinary => \A symbol \in item.uses :
                          FixtureMember(symbol) \/ symbol \in Declared \cup item.declares
    PROVE  MemberUses' /\ (Ordinary => DeclaredBeforeUse)'
<1>1. /\ DOMAIN out = 1 .. Len(out) /\ DOMAIN out' = 1 .. Len(out) + 1
      /\ out'[Len(out) + 1] = item /\ Len(out) \in Nat
      /\ \A n \in 1 .. Len(out) : out'[n] = out[n]
  BY Written
<1>2. \A symbol : MemberOfFixture(symbol) => MemberOfFixture(symbol)'
  BY DEF MemberOfFixture, MapKept
<1>3. \A n \in DOMAIN out : \A symbol \in out[n].uses :
        FixtureMember(symbol) => MemberOfFixture(symbol)
  BY DEF MemberUses, MemberOfFixture
<1>4. \A n \in DOMAIN out' : n \in DOMAIN out \/ n = Len(out) + 1
  BY <1>1
<1>5. \A n \in DOMAIN out' : \A symbol \in out'[n].uses :
        FixtureMember(symbol) => MemberOfFixture(symbol)'
  BY <1>1, <1>2, <1>3, <1>4
<1>6. Ordinary => DeclaredBeforeUse'
  BY WrittenUses
<1> QED
  BY <1>5, <1>6, OrdinaryKept DEF MemberUses, MemberOfFixture

LEMMA UsesKept ==
    ASSUME MemberUses, Ordinary => DeclaredBeforeUse, MapKept,
           UNCHANGED <<FunctionDecls, out>>,
           pc \notin {"map", "class"} => pc' \notin {"map", "class"}
    PROVE  MemberUses' /\ (Ordinary => DeclaredBeforeUse)'
<1>1. DeclaredBeforeUse' <=> DeclaredBeforeUse
  BY NothingWritten
<1>2. MemberUses'
  BY DEF MemberUses, MapKept
<1> QED
  BY <1>1, <1>2, OrdinaryKept

\* The loops and the functions come after the class.
LEMMA EarlyParts ==
    /\ pc \in {"map", "class"} => FinishedInv /\ LoopInv /\ FunctionInv
    /\ pc' \in {"map", "class"} => FinishedInv' /\ LoopInv' /\ FunctionInv'
BY DEF FinishedInv, LoopInv, LoopPassed, FunctionInv, After, AfterLoops

\* Once the class is complete, only the loops and the functions make progress.
LEMMA LaterParts ==
    ASSUME BufferInv, KeysInv, FinishedInv, Buffer', Declared \subseteq Declared',
           UNCHANGED <<contextVars, AnyVariadic, order>>,
           pc \notin {"map", "class"}, pc' \notin {"map", "class"}
    PROVE  BufferInv' /\ KeysInv' /\ ClassInv' /\ FinishedInv'
<1> USE DEF contextVars
<1>1. BufferInv' /\ KeysInv' /\ ClassInv'
  <2>1. pc # "map" /\ pc' # "map" /\ Included' = Included
    BY DEF Included
  <2>2. Included' \cup {Linkage, Class(<<>>)} \subseteq Declared'
    BY <2>1 DEF BufferInv
  <2>3. BufferInv'
    BY <2>2 DEF BufferInv
  <2> QED
    BY <2>3 DEF KeysInv, ClassInv, AllNamed
<1>2. MapKept /\ (Ordinary' <=> Ordinary)
  BY OrdinaryKept DEF MapKept
<1>3. Ordinary => \A k \in DOMAIN Map : ClassFinished(k)'
  BY <1>2, ClassFinishedKept DEF FinishedInv
<1> QED
  BY <1>1, <1>2, <1>3 DEF FinishedInv

\* What a loop writes for an entry that has a mock pointer.
LEMMA LoopItemSymbols ==
    ASSUME Looping, KeysInv, FinishedInv, LoopInv, next \in DOMAIN order,
           NEW c \in DOMAIN Map, c = order[next], c \in Context,
           requiresPointerVariable(c, Map[c])
    PROVE  /\ LoopItem(c).declares = {LoopSymbol(pc, c)}
           /\ \A symbol \in LoopItem(c).uses :
                 /\ FixtureMember(symbol) => symbol = VariableAccess(c)
                 /\ Ordinary => FixtureMember(symbol) \/ symbol \in Declared
<1>1. /\ Outermost(Path[c]) = Path[c] /\ WalkPath[c] = Path[c]
      /\ Ordinary => AccessPath(c) = WalkPath[c]
  BY GlobalPath, CastsValid DEF requiresPointerVariable, Ordinary, OrdinaryInput, KeysInv
<1>2. pc \in {"definitions", "setup", "teardown", "variables"}
  BY DEF Looping
<1>3. Ordinary => Class(WalkPath[c]) \in Declared /\ Pointer(WalkPath[c]) \in Declared
  BY <1>2 DEF FinishedInv, ClassFinished
<1>4. ~FixtureMember(Class(WalkPath[c])) /\ ~FixtureMember(Pointer(WalkPath[c]))
      /\ ~FixtureMember(Definition(WalkPath[c])) /\ FixtureMember(VariableAccess(c))
      /\ ~FixtureMember(Definition(AccessPath(c)))
  BY DEF FixtureMember, Class, Pointer, Definition, VariableAccess, Member
<1>5. CASE pc = "definitions"
  BY <1>1, <1>3, <1>4, <1>5 DEF LoopItem, DefinitionItem, Item, LoopSymbol
<1>6. pc \in {"setup", "teardown"} => Definition(WalkPath[c]) \in Declared
  <2> SUFFICES ASSUME pc \in {"setup", "teardown"}
               PROVE  LoopPassed("definitions", next) /\ "definitions" \in DOMAIN After
                      /\ LoopSymbol("definitions", c) = Definition(WalkPath[c])
    BY DEF LoopInv
  <2> QED
    BY DEF LoopPassed, After, AfterLoops, LoopSymbol
<1>7. CASE pc = "setup"
  BY <1>1, <1>4, <1>6, <1>7 DEF LoopItem, SetUpItem, Item, LoopSymbol
<1>8. CASE pc = "teardown"
  BY <1>1, <1>4, <1>6, <1>8 DEF LoopItem, TearDownItem, Item, LoopSymbol
<1>9. CASE pc = "variables"
  BY <1>1, <1>3, <1>4, <1>9 DEF LoopItem, VariableItem, Item, LoopSymbol
<1> QED
  BY <1>2, <1>5, <1>7, <1>8, <1>9

LEMMA EntryStep == IInv /\ ItemInv /\ WriteEntry => ItemInv'
<1> SUFFICES ASSUME IInv, ItemInv, WriteEntry PROVE ItemInv'
  OBVIOUS
<1>0. /\ BufferInv /\ KeysInv /\ FinishedInv /\ LoopInv /\ FunctionInv /\ MemberUses
      /\ Ordinary => DeclaredBeforeUse
      /\ Buffer /\ TypeOK
  BY DEF ItemInv, IInv, BufferInv
<1>1. /\ pc \in {"definitions", "setup", "teardown", "variables"}
      /\ UNCHANGED <<contextVars, VarDecls, AnyVariadic, pc, stack, order>>
      /\ next' = next + 1 /\ next \in Nat
      /\ next \in DOMAIN order /\ order \in Seq(DOMAIN Map)
  <2>1. pc \in {"definitions", "setup", "teardown", "variables"}
    BY DEF WriteEntry, Looping
  <2>2. order \in Seq(DOMAIN Map) /\ next \in Nat \ {0} /\ next <= Len(order)
    BY <1>0, <2>1 DEF WriteEntry, FinishedInv, TypeOK
  <2> QED
    BY <2>1, <2>2 DEF WriteEntry
<1> PICK c : c = order[next]
  OBVIOUS
<1>2. c \in DOMAIN Map /\ c \in Context
  BY <1>0, <1>1 DEF TypeOK, ContextsTypeOK
<1>3. MapKept /\ UNCHANGED FunctionDecls
  BY <1>1 DEF contextVars, MapKept
<1>4. /\ Buffer' /\ Declared \subseteq Declared'
      /\ requiresPointerVariable(c, Map[c]) => LoopSymbol(pc, c) \in Declared'
      /\ MemberUses' /\ (Ordinary => DeclaredBeforeUse)'
  <2>1. CASE requiresPointerVariable(c, Map[c])
    <3>1. Write(LoopItem(c))
      BY <2>1 DEF WriteEntry
    <3>2. /\ LoopItem(c).declares = {LoopSymbol(pc, c)}
          /\ \A symbol \in LoopItem(c).uses :
                /\ FixtureMember(symbol) => symbol = VariableAccess(c)
                /\ Ordinary => FixtureMember(symbol) \/ symbol \in Declared
      BY <1>0, <1>1, <1>2, <2>1, LoopItemSymbols DEF WriteEntry
    <3>3. Buffer' /\ Declared' = Declared \cup {LoopSymbol(pc, c)}
      BY <1>0, <3>1, <3>2, Written, WrittenDeclares
    <3>4. \A symbol \in LoopItem(c).uses :
            FixtureMember(symbol) => MemberOfFixture(symbol)
      BY <1>1, <1>2, <2>1, <3>2 DEF MemberOfFixture
    <3>5. MemberUses' /\ (Ordinary => DeclaredBeforeUse)'
      BY <1>0, <1>1, <1>3, <3>1, <3>2, <3>4, UsesWritten
    <3> QED
      BY <3>3, <3>5
  <2>2. CASE ~requiresPointerVariable(c, Map[c])
    <3>1. UNCHANGED out
      BY <2>2 DEF WriteEntry
    <3> QED
      BY <1>0, <1>1, <1>3, <2>2, <3>1, NothingWritten, UsesKept
  <2> QED
    BY <2>1, <2>2
<1>5. BufferInv' /\ KeysInv' /\ ClassInv' /\ FinishedInv'
  BY <1>0, <1>1, <1>4, LaterParts
<1>6. LoopInv'
  <2> SUFFICES ASSUME NEW p \in DOMAIN After, NEW n \in DOMAIN order,
                      LoopPassed(p, n)',
                      requiresPointerVariable(order[n], Map[order[n]])
               PROVE  LoopSymbol(p, order[n]) \in Declared'
    BY <1>1 DEF LoopInv, contextVars
  <2>1. LoopPassed(p, n) \/ (p = pc /\ n = next)
    BY <1>1 DEF LoopPassed
  <2>2. CASE LoopPassed(p, n)
    BY <1>0, <1>4, <2>2 DEF LoopInv
  <2> QED
    BY <1>4, <2>1, <2>2
<1>7. FunctionInv'
  BY <1>1 DEF FunctionInv
<1> QED
  BY <1>4, <1>5, <1>6, <1>7 DEF ItemInv

\* A loop that is over has passed every entry.
LEMMA EndLoopStep == IInv /\ ItemInv /\ EndLoop => ItemInv'
<1> SUFFICES ASSUME IInv, ItemInv, EndLoop PROVE ItemInv'
  OBVIOUS
<1>0. /\ BufferInv /\ KeysInv /\ FinishedInv /\ LoopInv /\ MemberUses
      /\ Ordinary => DeclaredBeforeUse
      /\ Buffer /\ TypeOK
  BY DEF ItemInv, IInv, BufferInv
<1>1. /\ pc \in {"definitions", "setup", "teardown", "variables"}
      /\ pc' = Successor[pc] /\ next' = 1
      /\ UNCHANGED <<contextVars, VarDecls, AnyVariadic, stack, order, out>>
  BY DEF EndLoop, Looping
<1>2. pc' \in {"setup", "teardown", "variables", "functions"}
  BY <1>1 DEF Successor
<1>3. \A n \in DOMAIN order : n \in Nat \ {0} /\ n < next
  <2>1. order \in Seq(DOMAIN Map) /\ next \in Nat /\ next > Len(order)
    BY <1>0, <1>1 DEF FinishedInv, TypeOK, EndLoop
  <2> QED
    BY <2>1
<1>4. MapKept /\ UNCHANGED FunctionDecls
  BY <1>1 DEF contextVars, MapKept
<1>5. Buffer' /\ Declared' = Declared /\ MemberUses' /\ (Ordinary => DeclaredBeforeUse)'
  BY <1>0, <1>1, <1>2, <1>4, NothingWritten, UsesKept
<1>6. BufferInv' /\ KeysInv' /\ ClassInv' /\ FinishedInv'
  BY <1>0, <1>1, <1>2, <1>5, LaterParts
<1>7. LoopInv'
  <2> SUFFICES ASSUME NEW p \in DOMAIN After, NEW n \in DOMAIN order,
                      LoopPassed(p, n)',
                      requiresPointerVariable(order[n], Map[order[n]])
               PROVE  LoopSymbol(p, order[n]) \in Declared'
    BY <1>1 DEF LoopInv, contextVars
  <2>1. pc' \in After[p]
    BY <1>1, <1>3 DEF LoopPassed
  <2>2. p = pc \/ pc \in After[p]
    BY <1>1, <2>1 DEF Successor, After, AfterLoops
  <2>3. LoopPassed(p, n)
    BY <1>3, <2>2 DEF LoopPassed
  <2> QED
    BY <1>0, <1>5, <2>3 DEF LoopInv
<1>8. FunctionInv'
  <2>1. \A n \in DOMAIN FunctionDecls : ~(n < 1)
    BY <1>0, ListAssumption DEF TypeOK, ContextsTypeOK
  <2> QED
    BY <1>1, <1>2, <2>1 DEF FunctionInv, contextVars
<1> QED
  BY <1>5, <1>6, <1>7, <1>8 DEF ItemInv

-----------------------------------------------------------------------------
\* The abort keeps all that has been written.
LEMMA AbortStep ==
    IInv /\ ItemInv /\ (AbortAtEntry \/ AbortAtFunction) => ItemInv'
<1> SUFFICES ASSUME IInv, ItemInv, AbortAtEntry \/ AbortAtFunction PROVE ItemInv'
  OBVIOUS
<1>0. /\ BufferInv /\ KeysInv /\ FinishedInv /\ MemberUses
      /\ Ordinary => DeclaredBeforeUse
      /\ Buffer
  BY DEF ItemInv, BufferInv
<1>1. /\ pc \notin {"map", "class"} /\ pc' = "aborted"
      /\ UNCHANGED <<contextVars, VarDecls, AnyVariadic, stack, order, out>>
  BY DEF AbortAtEntry, AbortAtFunction, Abort, Looping
<1>2. MapKept /\ UNCHANGED FunctionDecls
  BY <1>1 DEF contextVars, MapKept
<1>3. Buffer' /\ Declared' = Declared /\ MemberUses' /\ (Ordinary => DeclaredBeforeUse)'
  BY <1>0, <1>1, <1>2, NothingWritten, UsesKept
<1>4. BufferInv' /\ KeysInv' /\ ClassInv' /\ FinishedInv'
  BY <1>0, <1>1, <1>3, LaterParts
<1>5. LoopInv' /\ FunctionInv'
  BY <1>1 DEF LoopInv, LoopPassed, After, AfterLoops, FunctionInv
<1> QED
  BY <1>3, <1>4, <1>5 DEF ItemInv

\* A cast is invalid only if some function stands in a context without a name.
LEMMA AbortNameless ==
    ASSUME IInv, ItemInv, AbortAtEntry \/ AbortAtFunction PROVE ~AllNamed
<1> SUFFICES ASSUME AllNamed PROVE FALSE
  OBVIOUS
<1>0. TypeOK /\ KeysInv /\ FunctionDecls \in Seq(FunctionDecl) /\ next \in Nat \ {0}
  BY ListAssumption DEF IInv, ItemInv, TypeOK, ContextsTypeOK
<1>1. CASE AbortAtEntry
  <2>1. order \in Seq(DOMAIN Map) /\ next \in DOMAIN order
    BY <1>0, <1>1 DEF AbortAtEntry, Looping, ItemInv, FinishedInv
  <2>2. order[next] \in NamedContext
    BY <1>0, <2>1 DEF KeysInv
  <2> QED
    BY <1>1, <2>2, CastsValid DEF AbortAtEntry
<1>2. CASE AbortAtFunction
  <2>1. next \in DOMAIN FunctionDecls
    BY <1>0, <1>2 DEF AbortAtFunction
  <2>2. Parent[FunctionDecls[next]] \in NamedContext
    BY <2>1 DEF AllNamed, Range
  <2> QED
    BY <1>2, <2>2, CastsValid DEF AbortAtFunction
<1> QED
  BY <1>1, <1>2

-----------------------------------------------------------------------------
\* The context of a collected function has a pointer, defined and set up, and
\* its entry in the map.  Among contexts with names it has them under its path.
LEMMA PointerOfFunction ==
    ASSUME IInv, FinishedInv, pc \notin {"map", "class"}, NEW f \in Range(FunctionDecls)
    PROVE  /\ PrimaryParent(f) \in DOMAIN Map /\ f \in Map[PrimaryParent(f)]
           /\ Parent[f] \in NamedContext =>
                WalkPath[PrimaryParent(f)] = Path[Parent[f]]
           /\ Parent[f] \in NamedContext =>
                \E n \in DOMAIN order :
                   /\ requiresPointerVariable(order[n], Map[order[n]])
                   /\ WalkPath[order[n]] = Outermost(Path[Parent[f]])
                   /\ AccessPath(order[n]) = Outermost(Path[Parent[f]])
<1> DEFINE k == PrimaryParent(f)
<1>1. TypeOK /\ MapInv /\ Built
  BY DEF IInv, StackInv
<1>2. f \in FunctionDecl /\ Parent[f] \in Context
  <2>1. f \in FunctionDecl
    BY <1>1, ListAssumption DEF TypeOK, ContextsTypeOK, Range
  <2> QED
    BY <2>1, ContextAssumption DEF DeclContext
<1>3. k \in DOMAIN Map /\ f \in Map[k]
  BY <1>1, MapInvExact DEF MapExact, TypeOK
<1>4. Parent[f] \in NamedContext => k \in NamedContext /\ WalkPath[k] = Path[Parent[f]]
  BY NamedClosed, NamedPath, PathOfPrimary DEF PrimaryParent
<1>5. ASSUME Parent[f] \in NamedContext
      PROVE  \E g \in DOMAIN Map :
                /\ requiresPointerVariable(g, Map[g]) /\ g \in NamedContext
                /\ Path[g] = Outermost(WalkPath[k])
  <2>1. CASE k = TranslationUnit
    <3>1. Parent[f] = TranslationUnit
      BY <1>2, <2>1, RedeclarationAssumption DEF PrimaryParent
    <3>2. Kind[f] = "Function"
      BY <1>2, <3>1, MemberAssumption
    <3>3. isGlobalContext(k) /\ requiresPointerVariable(k, Map[k])
      BY <1>3, <2>1, <3>2
      DEF isGlobalContext, requiresPointerVariable, containsFunctionDecls
    <3>4. Path[k] = Outermost(WalkPath[k])
      BY <2>1, <3>3, ContextAssumption, GlobalPath
    <3> QED
      BY <1>3, <1>4, <1>5, <3>3, <3>4
  <2>2. CASE k # TranslationUnit
    <3>1. PICK g \in DOMAIN Map \ {TranslationUnit} :
            /\ isGlobalContext(g) /\ Path[g] = Outermost(WalkPath[k])
            /\ k \in NamedContext => g \in NamedContext
      BY <1>1, <1>3, <2>2, OutermostKey
    <3> QED
      BY <1>4, <1>5, <3>1 DEF requiresPointerVariable
  <2> QED
    BY <2>1, <2>2
<1>6. ASSUME Parent[f] \in NamedContext
      PROVE  \E n \in DOMAIN order :
                /\ requiresPointerVariable(order[n], Map[order[n]])
                /\ WalkPath[order[n]] = Outermost(Path[Parent[f]])
                /\ AccessPath(order[n]) = Outermost(Path[Parent[f]])
  <2>1. PICK g \in DOMAIN Map :
           /\ requiresPointerVariable(g, Map[g]) /\ g \in NamedContext
           /\ Path[g] = Outermost(WalkPath[k])
    BY <1>5, <1>6
  <2>2. /\ WalkPath[g] = Path[g] /\ AccessPath(g) = Path[g]
    <3>1. g \in Context /\ isGlobalContext(g)
      BY <2>1, NamedClosed DEF requiresPointerVariable
    <3> QED
      BY <2>1, <3>1, GlobalPath, CastsValid
  <2>3. Range(order) = DOMAIN Map
    BY DEF FinishedInv
  <2> QED
    BY <1>4, <1>6, <2>1, <2>2, <2>3 DEF Range
<1> QED
  BY <1>3, <1>4, <1>6

LEMMA FunctionStep == IInv /\ ItemInv /\ WriteFunction => ItemInv'
<1> SUFFICES ASSUME IInv, ItemInv, WriteFunction PROVE ItemInv'
  OBVIOUS
<1>0. /\ BufferInv /\ KeysInv /\ FinishedInv /\ LoopInv /\ FunctionInv /\ MemberUses
      /\ Ordinary => DeclaredBeforeUse
      /\ Buffer /\ TypeOK
  BY DEF ItemInv, IInv, BufferInv
<1>1. /\ pc = "functions" /\ next' = next + 1 /\ next \in Nat
      /\ next \in DOMAIN FunctionDecls /\ FunctionDecls \in Seq(FunctionDecl)
      /\ UNCHANGED <<contextVars, VarDecls, AnyVariadic, pc, stack, order>>
  BY <1>0, ListAssumption DEF WriteFunction, TypeOK, ContextsTypeOK
<1> PICK f : f = FunctionDecls[next]
  OBVIOUS
<1>2. Write(FunctionItem(f)) /\ f \in Range(FunctionDecls) /\ f \in FunctionDecl
  BY <1>1 DEF WriteFunction, Range
<1>3. MapKept /\ UNCHANGED FunctionDecls
  BY <1>1 DEF contextVars, MapKept
<1> DEFINE path == Path[Parent[f]]
<1>4. Declared' = Declared \cup FunctionItem(f).declares /\ Buffer'
  BY <1>0, <1>2, Written, WrittenDeclares
<1>5. Body(f) \in Declared'
  BY <1>4 DEF FunctionItem, Item
<1>6. FunctionItem(f).uses = {Linkage, Definition(Outermost(path)), Method(path, f)}
                               \cup UsesTested(f)
                               \cup {Argument(f, i) : i \in DOMAIN Parameters[f]}
                               \cup UsesLast(f)
  BY DEF FunctionItem, Item
<1>7. \A symbol \in FunctionItem(f).uses : ~FixtureMember(symbol)
  BY <1>6 DEF FixtureMember, Linkage, Definition, Method, Argument, Local, UsesLast, VaList,
              UsesTested
<1>8. Linkage \in Declared
  BY <1>0, <1>1 DEF BufferInv
<1>9. Ordinary => Parent[f] \in NamedContext
  BY <1>2 DEF Ordinary, AllNamed
<1>10. Ordinary => Definition(Outermost(path)) \in Declared /\ UsesTested(f) \subseteq Declared
  <2> SUFFICES ASSUME Ordinary
               PROVE  Definition(Outermost(path)) \in Declared /\ UsesTested(f) \subseteq Declared
    OBVIOUS
  <2>1. PICK n \in DOMAIN order :
          /\ requiresPointerVariable(order[n], Map[order[n]])
          /\ WalkPath[order[n]] = Outermost(path)
    BY <1>0, <1>1, <1>2, <1>9, PointerOfFunction
  <2>2. LoopPassed("definitions", n) /\ "definitions" \in DOMAIN After
    BY <1>1 DEF LoopPassed, After, AfterLoops
  <2>3. LoopSymbol("definitions", order[n]) = Definition(Outermost(path))
    BY <2>1 DEF LoopSymbol
  <2>4. Definition(Outermost(path)) \in Declared
    BY <1>0, <2>1, <2>2, <2>3 DEF LoopInv
  <2>5. AccessPath(Parent[f]) = Outermost(path)
    BY <1>9, CastsValid
  <2> QED
    BY <2>4, <2>5 DEF UsesTested
<1>11. Ordinary => Method(path, f) \in Declared
  <2>1. /\ PrimaryParent(f) \in DOMAIN Map /\ f \in Map[PrimaryParent(f)]
        /\ Ordinary => WalkPath[PrimaryParent(f)] = path
    BY <1>0, <1>1, <1>2, <1>9, PointerOfFunction
  <2>2. Ordinary => ClassFinished(PrimaryParent(f))
    BY <1>0, <1>1, <2>1 DEF FinishedInv
  <2> QED
    BY <1>2, <2>1, <2>2, KindAssumption DEF ClassFinished, MethodsDeclared
<1>12. \A i \in DOMAIN Parameters[f] : Argument(f, i) \in FunctionItem(f).declares
  BY DEF FunctionItem, Item, Argument, ParameterLocals, ParameterNames, ParameterName
<1>13. Ordinary => UsesLast(f) \subseteq Declared \cup FunctionItem(f).declares
  <2> SUFFICES ASSUME Ordinary, f \in Variadic
               PROVE  /\ VaList \in Declared
                      /\ Argument(f, Len(Parameters[f])) \in FunctionItem(f).declares
    BY DEF UsesLast
  <2>1. AnyVariadic
    BY <1>0, <1>2 DEF BufferInv
  <2>2. VaList \in Declared
    BY <1>0, <1>1, <2>1 DEF BufferInv, Included
  <2>3. Len(Parameters[f]) \in DOMAIN Parameters[f]
    BY <1>2, ParameterAssumption DEF Ordinary, OrdinaryInput
  <2> QED
    BY <1>12, <2>2, <2>3
<1>14. Ordinary => \A symbol \in FunctionItem(f).uses :
                      symbol \in Declared \cup FunctionItem(f).declares
  BY <1>6, <1>8, <1>10, <1>11, <1>12, <1>13
<1>15. MemberUses' /\ (Ordinary => DeclaredBeforeUse)'
  BY <1>0, <1>1, <1>2, <1>3, <1>7, <1>14, UsesWritten
<1>16. BufferInv' /\ KeysInv' /\ ClassInv' /\ FinishedInv'
  BY <1>0, <1>1, <1>4, LaterParts
<1>17. LoopInv'
  BY <1>0, <1>1, <1>4 DEF LoopInv, LoopPassed, After, AfterLoops, contextVars
<1>18. FunctionInv'
  <2> SUFFICES ASSUME NEW m \in DOMAIN FunctionDecls, m < next + 1
               PROVE  Body(FunctionDecls[m]) \in Declared'
    BY <1>1 DEF FunctionInv, contextVars
  <2>1. m < next \/ m = next
    BY <1>1
  <2> QED
    BY <1>0, <1>1, <1>4, <1>5, <2>1 DEF FunctionInv
<1> QED
  BY <1>15, <1>16, <1>17, <1>18 DEF ItemInv

\* What comes after the functions uses nothing but the framework.
LEMMA LastSteps ==
    IInv /\ ItemInv /\ (EndFunctions \/ WriteGlobals \/ Finish) => ItemInv'
<1> SUFFICES ASSUME IInv, ItemInv, EndFunctions \/ WriteGlobals \/ Finish
             PROVE  ItemInv'
  OBVIOUS
<1>0. /\ BufferInv /\ KeysInv /\ FinishedInv /\ LoopInv /\ FunctionInv /\ MemberUses
      /\ Ordinary => DeclaredBeforeUse
      /\ Buffer /\ TypeOK
  BY DEF ItemInv, IInv, BufferInv
<1>1. /\ pc \in {"functions", "globals", "main"} /\ pc' \in {"globals", "main", "done"}
      /\ UNCHANGED <<contextVars, AnyVariadic, order>>
      /\ pc = "functions" => next > Len(FunctionDecls)
      /\ UNCHANGED out \/ \E item : /\ Write(item)
                                    /\ item.uses = {} \/ item.uses = {Framework}
  BY DEF EndFunctions, WriteGlobals, WriteGlobalVariable, EndGlobalVariables, Finish,
         GlobalVariableItem, MainItem, Item
<1>2. MapKept /\ UNCHANGED FunctionDecls
  BY <1>1 DEF contextVars, MapKept
<1>3. /\ Buffer' /\ Declared \subseteq Declared'
      /\ MemberUses' /\ (Ordinary => DeclaredBeforeUse)'
  <2>1. CASE UNCHANGED out
    BY <1>0, <1>1, <1>2, <2>1, NothingWritten, UsesKept
  <2>2. ASSUME NEW item, Write(item), item.uses = {} \/ item.uses = {Framework}
        PROVE  /\ Buffer' /\ Declared \subseteq Declared'
               /\ MemberUses' /\ (Ordinary => DeclaredBeforeUse)'
    <3>1. Framework \in Declared
      BY <1>0, <1>1 DEF BufferInv, Included
    <3>2. \A symbol \in item.uses : symbol \in Declared /\ ~FixtureMember(symbol)
      BY <2>2, <3>1 DEF FixtureMember, Framework
    <3>3. Buffer' /\ Declared \subseteq Declared'
      BY <1>0, <2>2, WriteGrows
    <3> QED
      BY <1>0, <1>1, <1>2, <2>2, <3>2, <3>3, UsesWritten
  <2> QED
    BY <1>1, <2>1, <2>2
<1>4. BufferInv' /\ KeysInv' /\ ClassInv' /\ FinishedInv'
  BY <1>0, <1>1, <1>3, LaterParts
<1>5. LoopInv'
  BY <1>0, <1>1, <1>3 DEF LoopInv, LoopPassed, After, AfterLoops, contextVars
<1>6. FunctionInv'
  <2>1. pc = "functions" => \A n \in DOMAIN FunctionDecls : n < next
    BY <1>0, <1>1, ListAssumption DEF TypeOK, ContextsTypeOK
  <2> QED
    BY <1>0, <1>1, <1>3, <2>1 DEF FunctionInv, contextVars
<1> QED
  BY <1>3, <1>4, <1>5, <1>6 DEF ItemInv

-----------------------------------------------------------------------------
(***************************************************************************)
(* The classes.                                                            *)
(***************************************************************************)
LEMMA ItemInit == Init => ItemInv
<1> SUFFICES ASSUME Init PROVE ItemInv
  OBVIOUS
<1> USE DEF Init, InitContexts, InitGenerator
<1>1. DOMAIN Map = {} /\ out = <<>> /\ DOMAIN out = {} /\ pc = "map" /\ next = 1
  OBVIOUS
<1>2. Buffer
  BY <1>1 DEF Buffer
<1>3. ClassInv /\ MemberUses /\ DeclaredBeforeUse
  BY <1>1 DEF ClassInv, MemberUses, DeclaredBeforeUse
<1>4. BufferInv /\ KeysInv
  BY <1>1, <1>2, <1>3, FS_EmptySet DEF BufferInv, KeysInv
<1> QED
  BY <1>1, <1>3, <1>4, EarlyParts DEF ItemInv

LEMMA MapItems == IInv /\ ItemInv /\ MapStep => ItemInv'
<1> SUFFICES ASSUME IInv, ItemInv, MapStep PROVE ItemInv'
  OBVIOUS
<1>0. /\ BufferInv /\ KeysInv /\ MemberUses /\ TypeOK /\ MapInv
      /\ pc = "map" /\ UNCHANGED <<VarDecls, AnyVariadic, pc, stack, order, next, out>>
      /\ CreateContextMap /\ UNCHANGED FunctionDecls
  BY DEF ItemInv, IInv, MapStep, CreateContextMap, NextFunction, Climb
<1>1. BufferInv' /\ DeclaredBeforeUse'
  BY <1>0, NothingWritten DEF BufferInv
<1>2. MemberUses'
  BY <1>0 DEF MemberUses
<1>3. ClassInv' /\ MemberUses' /\ DeclaredBeforeUse'
  BY <1>0, <1>1, <1>2 DEF ClassInv
<1>4. KeysInv'
  BY <1>0, GMockWalks, WalkKeys
<1> QED
  BY <1>0, <1>1, <1>3, <1>4, EarlyParts DEF ItemInv

\* The first item is the include directives, then the macro, then the head of
\* the outermost class; the call for the translation unit begins.
LEMMA StartItems == IInv /\ ItemInv /\ StartMockClass => ItemInv'
<1> SUFFICES ASSUME IInv, ItemInv, StartMockClass PROVE ItemInv'
  OBVIOUS
<1>0. /\ BufferInv /\ KeysInv /\ TypeOK /\ MapInv /\ StackInv
      /\ pc = "map" /\ pc' = "class" /\ Built
      /\ Map' = LookedUp(TranslationUnit) /\ stack' = <<Frame(TranslationUnit)>>
      /\ UNCHANGED <<FunctionDecls, AnyVariadic, parent, index, next>>
  BY DEF ItemInv, IInv, StartMockClass, StartWalk, lists
<1> PICK a, b, c : /\ a = Item(Included, {}) /\ b = MacroItem
                   /\ c = Item({Class(<<>>)}, {})
  OBVIOUS
<1> DEFINE items == <<a, b, c>>
<1>1. /\ Buffer /\ DeclaredBeforeUse /\ MemberUses /\ out' = out \o items
  BY <1>0 DEF StartMockClass, BufferInv, ItemInv
<1>2. /\ items \in Seq({a, b, c}) /\ Len(items) = 3
      /\ items[1] = a /\ items[2] = b /\ items[3] = c
      /\ \A n \in 1 .. 3 : n \in {1, 2, 3}
  OBVIOUS
<1> HIDE DEF items
<1>3. \A n \in 1 .. Len(items) : items[n].uses = {}
  <2>1. a.uses = {} /\ b.uses = {} /\ c.uses = {}
    BY DEF Item, MacroItem
  <2> QED
    BY <1>2, <2>1
<1>4. /\ Buffer' /\ DeclaredBeforeUse'
      /\ a.declares \cup b.declares \cup c.declares \subseteq Declared'
  <2>1. items \in Seq({a, b, c})
    BY <1>2
  <2>2. \A n \in 1 .. Len(items) : \A symbol \in items[n].uses :
          \/ FixtureMember(symbol) \/ symbol \in Declared
          \/ \E m \in 1 .. n : symbol \in items[m].declares
    BY <1>3
  <2>3. /\ DeclaredBeforeUse'
        /\ Declared' = Declared \cup UNION {items[n].declares : n \in 1 .. Len(items)}
    BY <1>1, <2>1, <2>2, WrittenItemsUses
  <2>4. \A n \in 1 .. Len(items) : items[n].declares \subseteq Declared'
    BY <2>3
  <2>5. Buffer'
    BY <1>1, <2>1, WrittenItems
  <2> QED
    BY <1>2, <2>3, <2>4, <2>5
<1>5. Included' = Included /\ Included \cup {Linkage, Class(<<>>)} \subseteq Declared'
  BY <1>0, <1>4 DEF Included, Item, MacroItem
<1>6. BufferInv'
  BY <1>0, <1>4, <1>5 DEF BufferInv
<1>7. MemberUses'
  <2>1. /\ Len(out) \in Nat /\ DOMAIN out = 1 .. Len(out)
        /\ DOMAIN out' = 1 .. Len(out) + 3
        /\ \A n \in 1 .. Len(out) : out'[n] = out[n]
        /\ \A n \in 1 .. 3 : out'[Len(out) + n] = items[n]
    <3>1. items \in Seq({a, b, c})
      BY <1>2
    <3>2. \A T : items \in Seq(T) =>
            /\ Len(out) \in Nat /\ DOMAIN out = 1 .. Len(out)
            /\ DOMAIN out' = 1 .. Len(out) + Len(items)
            /\ \A n \in 1 .. Len(out) : out'[n] = out[n]
            /\ \A n \in 1 .. Len(items) : out'[Len(out) + n] = items[n]
      BY <1>1, WrittenItems, Zenon
    <3> QED
      BY <1>2, <3>1, <3>2
  <2> SUFFICES ASSUME NEW k \in DOMAIN out', NEW symbol \in out'[k].uses
               PROVE  ~FixtureMember(symbol)
    BY <1>0 DEF MemberUses, FixtureMember
  <2>2. CASE k \in DOMAIN out
    BY <1>0, <1>1, <2>1, <2>2 DEF MemberUses
  <2>3. CASE k \notin DOMAIN out
    <3>1. k - Len(out) \in 1 .. 3 /\ k = Len(out) + (k - Len(out))
      BY <2>1, <2>3
    <3> QED
      BY <1>2, <1>3, <2>1, <3>1
  <2> QED
    BY <2>2, <2>3
<1> DEFINE tu == TranslationUnit
<1>8. /\ DOMAIN Map' = DOMAIN Map \cup {tu}
      /\ \A k \in DOMAIN Map : Map'[k] = Map[k]
      /\ tu \notin DOMAIN Map => Map'[tu] = {}
      /\ Map'[tu] = Children(tu)
  BY <1>0, LookedUpEntries DEF LookedUp
<1>9. KeysInv'
  BY <1>0, GMockWalks, WalkKeys
<1>10. /\ DOMAIN stack' = {1} /\ stack'[1].context = tu
       /\ stack'[1].children = Map'[tu]
  BY <1>0, <1>8 DEF Frame
<1>11. StackPaths'
  <2>1. WalkPath[tu] = <<>>
    BY WalkPathUnfolds, ContextAssumption
  <2>2. PathTo(1)' = <<>>
    BY DEF PathTo
  <2>3. Class(<<>>) \in Declared'
    BY <1>5
  <2> QED
    BY <1>10, <2>1, <2>2, <2>3 DEF StackPaths
<1>12. \A i \in DOMAIN stack' :
         MethodsDeclared(stack[i].context, Map[stack[i].context] \ stack[i].children)'
  BY <1>10 DEF MethodsDeclared
<1>13. Unvisited(DOMAIN Map \ {tu})'
  <2> SUFFICES ASSUME NEW k \in DOMAIN Map \ {tu}
               PROVE  \/ PrimaryParent(k) \in DOMAIN Map \ {tu}
                      \/ PrimaryParent(k) = tu /\ k \in Map'[tu]
    BY <1>8, <1>10 DEF Unvisited
  <2>1. Recorded(k)
    BY <1>0 DEF MapInv, Built, Climbing
  <2> QED
    BY <1>8, <2>1 DEF Recorded
<1>14. ClassInv'
  <2>1. DOMAIN Map \ {tu} \in SUBSET DOMAIN Map'
    BY <1>8
  <2> QED
    BY <1>11, <1>12, <1>13, <2>1 DEF ClassInv
<1> QED
  BY <1>0, <1>4, <1>6, <1>7, <1>9, <1>14, EarlyParts DEF ItemInv

\* The children that are left, exactly.
LEMMA LeftOver ==
    ASSUME TypeOK, InClass, NEW c, NEW i \in DOMAIN stack
    PROVE  /\ stack[i].children \ {c} \subseteq WithoutChild(c)[i].children
           /\ i = Len(stack) => WithoutChild(c)[i].children = stack[i].children \ {c}
<1>1. stack \in Seq(FrameSet) /\ Len(stack) \in DOMAIN stack
  BY DEF TypeOK, InClass, FrameSet
<1> DEFINE rest == [Active EXCEPT !.children = @ \ {c}]
<1>2. rest.children = Active.children \ {c}
  BY <1>1 DEF Active, FrameSet
<1>3. WithoutChild(c) = [stack EXCEPT ![Len(stack)] = rest]
  BY <1>1 DEF WithoutChild, Active
<1> HIDE DEF rest
<1>4. WithoutChild(c)[i] = IF i = Len(stack) THEN rest ELSE stack[i]
  BY <1>1, <1>3
<1> QED
  BY <1>2, <1>4 DEF Active

LEMMA PathToKept ==
    ASSUME NEW i \in Nat, \A j \in 1 .. i : stack'[j].context = stack[j].context
    PROVE  PathTo(i)' = PathTo(i)
<1>1. \A j \in 1 .. i - 1 : j + 1 \in 1 .. i
  OBVIOUS
<1> QED
  BY <1>1 DEF PathTo

\* What is known of the active call.
LEMMA ActiveCall ==
    ASSUME IInv, ItemInv, InClass
    PROVE  LET k == Active.context
           IN  /\ pc = "class" /\ Len(stack) \in Nat \ {0}
               /\ Len(stack) \in DOMAIN stack /\ DOMAIN stack = 1 .. Len(stack)
               /\ k \in DOMAIN Map /\ k \in Context
               /\ StackPath = WalkPath[k] /\ Class(WalkPath[k]) \in Declared
               /\ Framework \in Declared
               /\ Active.children \subseteq Map[k]
               /\ \A c \in Active.children :
                     c \in DOMAIN Map \cup Range(FunctionDecls)
                         /\ PrimaryParent(c) = k /\ c # TranslationUnit
<1>1. /\ TypeOK /\ MapInv /\ StackInv /\ BufferInv /\ KeysInv /\ ClassInv
      /\ pc = "class" /\ stack # <<>>
  BY DEF IInv, ItemInv, InClass
<1>2. /\ Len(stack) \in Nat \ {0} /\ Len(stack) \in DOMAIN stack
      /\ DOMAIN stack = 1 .. Len(stack)
  BY <1>1 DEF TypeOK
<1> PICK k : k = Active.context
  OBVIOUS
<1>3. k \in DOMAIN Map /\ k \in Context
  BY <1>1, <1>2 DEF TypeOK, ContextsTypeOK, Active
<1>4. StackPath = WalkPath[k] /\ Class(WalkPath[k]) \in Declared
  BY <1>1, <1>2 DEF ClassInv, StackPaths, PathTo, StackPath, Active
<1>5. Framework \in Declared
  BY <1>1 DEF BufferInv, Included
<1>6. Active.children \subseteq Map[k]
  BY <1>1, <1>2 DEF StackInv, Active
<1>7. \A c \in Map[k] : /\ c \in DOMAIN Map \cup Range(FunctionDecls)
                        /\ PrimaryParent(c) = k /\ c # TranslationUnit
  BY <1>1, <1>3 DEF MapInv, KeysInv
<1> QED
  BY <1>1, <1>2, <1>3, <1>4, <1>5, <1>6, <1>7

\* The parts that do not follow the recursion, in any of its steps.
LEMMA RecursionParts ==
    ASSUME BufferInv, KeysInv, MemberUses, Ordinary => DeclaredBeforeUse, MapKept,
           UNCHANGED <<FunctionDecls, parent, AnyVariadic, pc, next>>, pc = "class",
           \/ UNCHANGED out
           \/ \E item : /\ Write(item)
                        /\ \A symbol \in item.uses : ~FixtureMember(symbol)
                        /\ Ordinary => item.uses \subseteq Declared
    PROVE  /\ BufferInv' /\ KeysInv' /\ MemberUses' /\ (Ordinary => DeclaredBeforeUse)'
           /\ FinishedInv' /\ LoopInv' /\ FunctionInv'
           /\ Declared \subseteq Declared' /\ (Ordinary' <=> Ordinary)
<1>1. Buffer' /\ Declared \subseteq Declared'
  BY WriteGrows DEF BufferInv
<1>2. MemberUses' /\ (Ordinary => DeclaredBeforeUse)'
  <2>1. CASE UNCHANGED out
    BY <2>1, UsesKept
  <2>2. ASSUME NEW item, Write(item),
               \A symbol \in item.uses : ~FixtureMember(symbol),
               Ordinary => item.uses \subseteq Declared
        PROVE  MemberUses' /\ (Ordinary => DeclaredBeforeUse)'
    BY <2>2, UsesWritten DEF BufferInv
  <2> QED
    BY <2>1, <2>2
<1>3. BufferInv'
  <2>1. Included' = Included
    BY DEF Included
  <2> QED
    BY <1>1, <2>1 DEF BufferInv
<1>4. KeysInv'
  BY DEF KeysInv, MapKept, AllNamed
<1> QED
  BY <1>1, <1>2, <1>3, <1>4, EarlyParts, OrdinaryKept

\* A class in a class: its contexts leave the set of those to be visited.
LEMMA NestedItems == IInv /\ ItemInv /\ WriteNestedClass => ItemInv'
<1> SUFFICES ASSUME IInv, ItemInv, WriteNestedClass PROVE ItemInv'
  OBVIOUS
<1>0. /\ BufferInv /\ KeysInv /\ TypeOK /\ MapInv /\ StackInv /\ InClass
      /\ MemberUses /\ (Ordinary => DeclaredBeforeUse) /\ ClassInv /\ Built
  BY DEF ItemInv, IInv, StackInv, WriteNestedClass, InClass
<1> PICK c \in Active.children :
        /\ Enter(c)
        /\ Write(Item({Class(Append(StackPath, Identifier[c]))}, {Class(StackPath)}))
  BY DEF WriteNestedClass
<1> PICK k, n, item :
        /\ k = Active.context /\ n = Len(stack)
        /\ item = Item({Class(Append(StackPath, Identifier[c]))}, {Class(StackPath)})
  OBVIOUS
<1>1. /\ pc = "class" /\ n \in Nat \ {0} /\ n \in DOMAIN stack /\ DOMAIN stack = 1 .. n
      /\ k \in DOMAIN Map /\ StackPath = WalkPath[k] /\ Class(WalkPath[k]) \in Declared
      /\ PrimaryParent(c) = k /\ c # TranslationUnit
      /\ stack[n].context = k
  BY <1>0, ActiveCall DEF Active
<1>2. c \in DOMAIN Map /\ c \in Context /\ Kind[c] \notin FunctionKind
  <2>1. c \in stack[n].children
    BY DEF Active
  <2>2. Kind[c] \in ClassKind
    BY DEF Enter
  <2>3. c \in DOMAIN Map
    BY <1>1, <2>1, <2>2, IInvRecursion DEF RecursionCreatesNothing
  <2> QED
    BY <1>0, <2>2, <2>3 DEF TypeOK, ContextsTypeOK, ClassKind, FunctionKind
<1>3. MapKept
  BY <1>0, EnterKeepsMap
<1>4. WalkPath[c] = Append(WalkPath[k], Identifier[c])
  BY <1>1, <1>2, PathOfChild
<1>5. item = Item({Class(WalkPath[c])}, {Class(WalkPath[k])}) /\ Write(item)
  BY <1>1, <1>4
<1>6. /\ BufferInv' /\ KeysInv' /\ MemberUses' /\ (Ordinary => DeclaredBeforeUse)'
      /\ FinishedInv' /\ LoopInv' /\ FunctionInv'
      /\ Declared \subseteq Declared' /\ (Ordinary' <=> Ordinary)
  <2>1. \A symbol \in item.uses : ~FixtureMember(symbol) /\ symbol \in Declared
    <3>1. item.uses = {Class(WalkPath[k])}
      BY <1>5 DEF Item
    <3>2. ~FixtureMember(Class(WalkPath[k]))
      BY DEF FixtureMember, Class
    <3> QED
      BY <1>1, <3>1, <3>2
  <2> QED
    BY <1>0, <1>1, <1>3, <1>5, <2>1, RecursionParts
    DEF Enter, lists, WriteNestedClass
<1>7. Class(WalkPath[c]) \in Declared'
  <2>1. Buffer
    BY <1>0 DEF BufferInv
  <2>2. Class(WalkPath[c]) \in item.declares
    BY <1>5 DEF Item
  <2> QED
    BY <1>5, <2>1, <2>2, WrittenDeclares
<1>8. /\ DOMAIN stack' = 1 .. n + 1
      /\ stack'[n + 1].context = c /\ stack'[n + 1].children = Map[c]
      /\ \A i \in 1 .. n : /\ stack'[i].context = stack[i].context
                           /\ stack[i].children \ {c} \subseteq stack'[i].children
  <2> PICK t : t = WithoutChild(c)
    OBVIOUS
  <2>1. /\ t \in Seq(FrameSet) /\ Len(t) = n
        /\ \A i \in 1 .. n : /\ t[i].context = stack[i].context
                             /\ stack[i].children \ {c} \subseteq t[i].children
    BY <1>0, <1>1, TakenChild, LeftOver
  <2>2. Frame(c).context = c /\ Frame(c).children = Map[c] /\ Frame(c) \in FrameSet
    BY <1>0, <1>2, FrameType DEF Frame, Children, TypeOK
  <2>3. stack' = Append(t, Frame(c))
    BY DEF Enter
  <2>4. /\ DOMAIN stack' = 1 .. n + 1 /\ stack'[n + 1] = Frame(c)
        /\ \A i \in 1 .. n : stack'[i] = t[i]
    BY <2>1, <2>2, <2>3
  <2> QED
    BY <2>1, <2>2, <2>4
<1>9. \A i \in 1 .. n + 1 : i \in 1 .. n \/ i = n + 1
  BY <1>1
<1>10. StackPaths'
  <2>1. ASSUME NEW i \in 1 .. n
        PROVE  /\ PathTo(i)' = WalkPath[stack'[i].context]
               /\ Class(WalkPath[stack'[i].context]) \in Declared'
    <3>1. PathTo(i)' = PathTo(i)
      <4>1. \A j \in 1 .. i : j \in 1 .. n
        BY <1>1
      <4> QED
        BY <1>8, <4>1, PathToKept
    <3> QED
      BY <1>0, <1>1, <1>6, <1>8, <3>1 DEF ClassInv, StackPaths
  <2>2. PathTo(n + 1)' = WalkPath[c]
    <3>1. PathTo(n) = WalkPath[k]
      BY <1>0, <1>1 DEF ClassInv, StackPaths
    <3> DEFINE m == n - 1
    <3>2. m \in Nat /\ n = m + 1 /\ n + 1 - 1 = m + 1
      BY <1>1
    <3>3. PathTo(n) = [j \in 1 .. m |-> Identifier[stack[j + 1].context]]
      BY DEF PathTo
    <3>4. PathTo(n + 1)' = [j \in 1 .. m + 1 |-> Identifier[stack'[j + 1].context]]
      BY <3>2 DEF PathTo
    <3>5. WalkPath[k] \in Seq(NameSet) /\ Identifier[c] \in NameSet /\ Len(WalkPath[k]) = m
      <4>1. WalkPath[k] \in Seq(NameSet) /\ Identifier[c] \in NameSet
        BY <1>0, <1>1, <1>2, WalkPathType DEF NameSet, TypeOK, ContextsTypeOK
      <4>2. DOMAIN WalkPath[k] = 1 .. m
        BY <3>1, <3>3
      <4> HIDE DEF m
      <4>3. DOMAIN WalkPath[k] = 1 .. Len(WalkPath[k]) /\ Len(WalkPath[k]) \in Nat
        BY <4>1
      <4> QED
        BY <3>2, <4>1, <4>2, <4>3
    <3> HIDE DEF m
    <3>6. WalkPath[c] = [j \in 1 .. m + 1 |->
                       IF j = m + 1 THEN Identifier[c] ELSE WalkPath[k][j]]
      BY <1>4, <3>2, <3>5
    <3>7. \A j \in 1 .. m + 1 : j # m + 1 => j \in 1 .. m /\ j + 1 \in 1 .. n
      BY <3>2
    <3>8. \A j \in 1 .. m + 1 :
            Identifier[stack'[j + 1].context] =
                IF j = m + 1 THEN Identifier[c] ELSE WalkPath[k][j]
      BY <1>8, <3>1, <3>2, <3>3, <3>7
    <3> QED
      BY <3>4, <3>6, <3>8
  <2> QED
    BY <1>7, <1>8, <1>9, <2>1, <2>2 DEF StackPaths
<1>11. \A i \in DOMAIN stack' :
         MethodsDeclared(stack[i].context, Map[stack[i].context] \ stack[i].children)'
  <2>1. ASSUME NEW i \in 1 .. n, NEW x \in Map'[stack'[i].context] \ stack'[i].children,
               Kind[x] \in FunctionKind
        PROVE  Method(WalkPath[stack'[i].context], x) \in Declared'
    <3>1. stack[i].context \in DOMAIN Map
      BY <1>0, <1>1 DEF TypeOK
    <3>2. x \in Map[stack[i].context] \ stack[i].children
      BY <1>2, <1>3, <1>8, <2>1, <3>1 DEF MapKept
    <3>3. MethodsDeclared(stack[i].context, Map[stack[i].context] \ stack[i].children)
      BY <1>0, <1>1 DEF ClassInv
    <3> QED
      BY <1>6, <1>8, <2>1, <3>2, <3>3 DEF MethodsDeclared
  <2>2. Map'[stack'[n + 1].context] \ stack'[n + 1].children = {}
    BY <1>2, <1>3, <1>8 DEF MapKept
  <2> QED
    BY <1>8, <1>9, <2>1, <2>2 DEF MethodsDeclared
<1>12. ASSUME Ordinary PROVE \E U \in SUBSET DOMAIN Map : Unvisited(U)'
  <2> PICK U \in SUBSET DOMAIN Map : Unvisited(U)
    BY <1>0, <1>1, <1>12 DEF ClassInv
  <2>1. ASSUME NEW x \in U \ {c}
        PROVE  /\ x # TranslationUnit
               /\ \/ PrimaryParent(x) \in U \ {c}
                  \/ \E i \in DOMAIN stack' : /\ stack'[i].context = PrimaryParent(x)
                                              /\ x \in stack'[i].children
    <3>1. x # TranslationUnit
      BY DEF Unvisited
    <3>2. CASE PrimaryParent(x) = c
      <4>1. x \in Map[c]
        BY <1>0, <3>1, <3>2 DEF MapInv, Recorded, Climbing, Built
      <4>2. n + 1 \in 1 .. n + 1
        BY <1>1
      <4> QED
        BY <1>8, <3>1, <3>2, <4>1, <4>2
    <3>3. CASE PrimaryParent(x) \in U /\ PrimaryParent(x) # c
      BY <3>1, <3>3
    <3>4. ASSUME NEW i \in DOMAIN stack, stack[i].context = PrimaryParent(x),
                 x \in stack[i].children
          PROVE  \E j \in DOMAIN stack' : /\ stack'[j].context = PrimaryParent(x)
                                          /\ x \in stack'[j].children
      <4>1. i \in 1 .. n /\ i \in 1 .. n + 1
        BY <1>1
      <4> QED
        BY <1>8, <3>4, <4>1
    <3> QED
      BY <3>1, <3>2, <3>3, <3>4 DEF Unvisited
  <2>2. ASSUME NEW x \in DOMAIN Map \ (U \ {c})
        PROVE  ClassFinished(x)' \/ \E i \in DOMAIN stack' : stack'[i].context = x
    <3>1. CASE x = c
      <4>1. n + 1 \in 1 .. n + 1
        BY <1>1
      <4> QED
        BY <1>8, <3>1, <4>1
    <3>2. CASE x # c /\ ClassFinished(x)
      BY <1>3, <1>6, <3>2, ClassFinishedKept
    <3>3. ASSUME NEW i \in DOMAIN stack, stack[i].context = x
          PROVE  \E j \in DOMAIN stack' : stack'[j].context = x
      <4>1. i \in 1 .. n /\ i \in 1 .. n + 1
        BY <1>1
      <4> QED
        BY <1>8, <3>3, <4>1
    <3> QED
      BY <3>1, <3>2, <3>3 DEF Unvisited
  <2>3. DOMAIN Map' = DOMAIN Map
    BY <1>3 DEF MapKept
  <2>4. Unvisited(U \ {c})'
    BY <2>1, <2>2, <2>3 DEF Unvisited
  <2> QED
    BY <2>4
<1>13. ClassInv'
  BY <1>3, <1>6, <1>10, <1>11, <1>12 DEF ClassInv, MapKept
<1> QED
  BY <1>6, <1>13 DEF ItemInv

\* A mock method, or a child of a kind that has none.
LEMMA MethodItems == IInv /\ ItemInv /\ WriteMockMethod => ItemInv'
<1> SUFFICES ASSUME IInv, ItemInv, WriteMockMethod PROVE ItemInv'
  OBVIOUS
<1>0. /\ BufferInv /\ KeysInv /\ TypeOK /\ InClass
      /\ MemberUses /\ (Ordinary => DeclaredBeforeUse) /\ ClassInv
  BY DEF ItemInv, IInv, WriteMockMethod, InClass
<1> PICK f \in Active.children :
        /\ Visit(f)
        /\ IF Kind[f] \in FunctionKind THEN Write(MethodItem(f)) ELSE UNCHANGED out
        /\ UNCHANGED order
  BY DEF WriteMockMethod
<1> PICK k, n : k = Active.context /\ n = Len(stack)
  OBVIOUS
<1>1. /\ pc = "class" /\ n \in Nat \ {0} /\ n \in DOMAIN stack /\ DOMAIN stack = 1 .. n
      /\ k \in DOMAIN Map /\ StackPath = WalkPath[k] /\ Class(WalkPath[k]) \in Declared
      /\ Framework \in Declared /\ f \in DOMAIN Map \cup Range(FunctionDecls)
      /\ stack[n].context = k
  BY <1>0, ActiveCall DEF Active
<1>2. /\ MapKept /\ UNCHANGED <<FunctionDecls, parent, AnyVariadic, pc, next>>
      /\ UNCHANGED Map /\ stack' = WithoutChild(f) /\ Kind[f] \notin ClassKind
  BY DEF Visit, contextVars, MapKept
<1>3. /\ BufferInv' /\ KeysInv' /\ MemberUses' /\ (Ordinary => DeclaredBeforeUse)'
      /\ FinishedInv' /\ LoopInv' /\ FunctionInv'
      /\ Declared \subseteq Declared' /\ (Ordinary' <=> Ordinary)
  <2>1. CASE Kind[f] \notin FunctionKind
    BY <1>0, <1>1, <1>2, <2>1, RecursionParts
  <2>2. CASE Kind[f] \in FunctionKind
    <3>1. /\ Write(MethodItem(f))
          /\ MethodItem(f).uses = {Class(WalkPath[k]), Framework} \cup UsesVaList(f)
      BY <1>1, <2>2 DEF MethodItem, Item
    <3>2. \A symbol \in MethodItem(f).uses : ~FixtureMember(symbol)
      BY <3>1 DEF FixtureMember, Class, Framework, UsesVaList, VaList
    <3>3. Ordinary => UsesVaList(f) \subseteq Declared
      <4> SUFFICES ASSUME Ordinary, f \in Variadic PROVE VaList \in Declared
        BY DEF UsesVaList, HasVaList
      <4>1. f \in Range(FunctionDecls)
        BY <1>1, <1>2 DEF Ordinary, OrdinaryInput
      <4> QED
        BY <1>0, <1>1, <4>1 DEF BufferInv, Included
    <3>4. Ordinary => MethodItem(f).uses \subseteq Declared
      BY <1>1, <3>1, <3>3
    <3> QED
      BY <1>0, <1>1, <1>2, <3>1, <3>2, <3>4, RecursionParts
  <2> QED
    BY <2>1, <2>2
<1>4. Kind[f] \in FunctionKind => Method(WalkPath[k], f) \in Declared'
  <2> SUFFICES ASSUME Kind[f] \in FunctionKind PROVE Method(WalkPath[k], f) \in Declared'
    OBVIOUS
  <2>1. Write(MethodItem(f)) /\ MethodItem(f).declares = {Method(WalkPath[k], f)}
    BY <1>1 DEF MethodItem, Item
  <2> QED
    BY <1>0, <2>1, WrittenDeclares DEF BufferInv
<1>5. /\ DOMAIN stack' = 1 .. n
      /\ \A i \in 1 .. n : /\ stack'[i].context = stack[i].context
                           /\ stack[i].children \ {f} \subseteq stack'[i].children
                           /\ i # n => stack[i].children \subseteq stack'[i].children
  <2>1. /\ WithoutChild(f) \in Seq(FrameSet) /\ Len(WithoutChild(f)) = n
        /\ \A i \in 1 .. n : /\ WithoutChild(f)[i].context = stack[i].context
                             /\ stack[i].children \ {f} \subseteq WithoutChild(f)[i].children
    BY <1>0, <1>1, TakenChild, LeftOver
  <2>2. \A i \in 1 .. n : i # n => WithoutChild(f)[i] = stack[i]
    BY <1>0, <1>1 DEF WithoutChild, TypeOK
  <2> QED
    BY <1>2, <2>1, <2>2
<1>6. StackPaths'
  <2> SUFFICES ASSUME NEW i \in 1 .. n
               PROVE  /\ PathTo(i)' = WalkPath[stack'[i].context]
                      /\ Class(WalkPath[stack'[i].context]) \in Declared'
    BY <1>5 DEF StackPaths
  <2>1. \A j \in 1 .. i : j \in 1 .. n
    BY <1>1
  <2>2. PathTo(i)' = PathTo(i)
    BY <1>5, <2>1, PathToKept
  <2> QED
    BY <1>0, <1>1, <1>3, <1>5, <2>2 DEF ClassInv, StackPaths
<1>7. \A i \in DOMAIN stack' :
         MethodsDeclared(stack[i].context, Map[stack[i].context] \ stack[i].children)'
  <2> SUFFICES ASSUME NEW i \in 1 .. n,
                      NEW x \in Map[stack[i].context] \ stack'[i].children,
                      Kind[x] \in FunctionKind
               PROVE  Method(WalkPath[stack[i].context], x) \in Declared'
    BY <1>2, <1>5 DEF MethodsDeclared
  <2>1. MethodsDeclared(stack[i].context, Map[stack[i].context] \ stack[i].children)
    BY <1>0, <1>1 DEF ClassInv
  <2>2. CASE x \notin stack[i].children
    BY <1>3, <2>1, <2>2 DEF MethodsDeclared
  <2>3. CASE x \in stack[i].children
    <3>1. x = f /\ i = n
      BY <1>5, <2>3
    <3> QED
      BY <1>1, <1>4, <3>1
  <2> QED
    BY <2>2, <2>3
<1>8. ASSUME Ordinary PROVE \E U \in SUBSET DOMAIN Map : Unvisited(U)'
  <2> PICK U \in SUBSET DOMAIN Map : Unvisited(U)
    BY <1>0, <1>1, <1>8 DEF ClassInv
  <2>1. f \notin U
    BY <1>2, <1>8 DEF Ordinary, OrdinaryInput
  <2>2. \A x \in DOMAIN Map : ClassFinished(x) => ClassFinished(x)'
    BY <1>2, <1>3, ClassFinishedKept
  <2>3. \A x \in U : \A i \in DOMAIN stack :
          x \in stack[i].children => x \in stack'[i].children
    BY <1>1, <1>5, <2>1
  <2>4. \A x \in U :
          /\ x # TranslationUnit
          /\ \/ PrimaryParent(x) \in U
             \/ \E i \in DOMAIN stack' : /\ stack'[i].context = PrimaryParent(x)
                                         /\ x \in stack'[i].children
    BY <1>1, <1>5, <2>3 DEF Unvisited
  <2>5. \A x \in DOMAIN Map \ U :
          ClassFinished(x)' \/ \E i \in DOMAIN stack' : stack'[i].context = x
    BY <1>1, <1>5, <2>2 DEF Unvisited
  <2>6. Unvisited(U)'
    BY <1>2, <2>4, <2>5 DEF Unvisited
  <2> QED
    BY <2>6
<1>9. ClassInv'
  BY <1>2, <1>3, <1>6, <1>7, <1>8 DEF ClassInv
<1> QED
  BY <1>3, <1>9 DEF ItemInv

\* The end of a call: its class has all its methods, and its pointer.
LEMMA CloseItems == IInv /\ ItemInv /\ CloseClass => ItemInv'
<1> SUFFICES ASSUME IInv, ItemInv, CloseClass PROVE ItemInv'
  OBVIOUS
<1>0. /\ BufferInv /\ KeysInv /\ TypeOK /\ InClass
      /\ MemberUses /\ (Ordinary => DeclaredBeforeUse) /\ ClassInv
  BY DEF ItemInv, IInv, CloseClass, Leave
<1> PICK k, n : k = Active.context /\ n = Len(stack)
  OBVIOUS
<1>1. /\ pc = "class" /\ n \in Nat \ {0} /\ n \in DOMAIN stack /\ DOMAIN stack = 1 .. n
      /\ k \in DOMAIN Map /\ StackPath = WalkPath[k] /\ Class(WalkPath[k]) \in Declared
      /\ Framework \in Declared /\ stack[n].context = k /\ stack[n].children = {}
  BY <1>0, ActiveCall DEF Active, CloseClass, Leave
<1>2. /\ MapKept /\ UNCHANGED <<FunctionDecls, parent, AnyVariadic, pc, next>> /\ UNCHANGED Map
      /\ IF requiresPointerVariable(k, Map[k])
         THEN Write(Item({Pointer(WalkPath[k])}, {Class(WalkPath[k]), Framework}))
         ELSE UNCHANGED out
  BY <1>1 DEF CloseClass, Leave, contextVars, MapKept
<1>3. /\ BufferInv' /\ KeysInv' /\ MemberUses' /\ (Ordinary => DeclaredBeforeUse)'
      /\ FinishedInv' /\ LoopInv' /\ FunctionInv'
      /\ Declared \subseteq Declared' /\ (Ordinary' <=> Ordinary)
      /\ requiresPointerVariable(k, Map[k]) => Pointer(WalkPath[k]) \in Declared'
  <2>1. CASE ~requiresPointerVariable(k, Map[k])
    BY <1>0, <1>1, <1>2, <2>1, RecursionParts
  <2>2. CASE requiresPointerVariable(k, Map[k])
    <3> PICK item : item = Item({Pointer(WalkPath[k])}, {Class(WalkPath[k]), Framework})
      OBVIOUS
    <3>1. Write(item) /\ item.uses = {Class(WalkPath[k]), Framework}
          /\ item.declares = {Pointer(WalkPath[k])}
      BY <1>2, <2>2 DEF Item
    <3>2. ~FixtureMember(Class(WalkPath[k])) /\ ~FixtureMember(Framework)
      BY DEF FixtureMember, Class, Framework
    <3>3. Pointer(WalkPath[k]) \in Declared'
      BY <1>0, <3>1, WrittenDeclares DEF BufferInv
    <3>4. (\A symbol \in item.uses : ~FixtureMember(symbol)) /\ item.uses \subseteq Declared
      BY <1>1, <3>1, <3>2
    <3> QED
      BY <1>0, <1>1, <1>2, <3>1, <3>3, <3>4, RecursionParts
  <2> QED
    BY <2>1, <2>2
<1>4. /\ DOMAIN stack' = 1 .. n - 1 /\ \A i \in 1 .. n - 1 : stack'[i] = stack[i]
  <2>1. stack' = SubSeq(stack, 1, Len(stack) - 1) /\ stack \in Seq(FrameSet)
    BY <1>0 DEF CloseClass, Leave, Front, TypeOK, FrameSet
  <2> QED
    BY <1>1, <2>1
<1>5. \A i \in 1 .. n : i = n \/ i \in 1 .. n - 1
  BY <1>1
<1>6. \A i \in 1 .. n - 1 : i \in 1 .. n
  BY <1>1
<1>7. ClassFinished(k)'
  <2>1. MethodsDeclared(k, Map[k] \ {})
    BY <1>0, <1>1 DEF ClassInv
  <2>2. MethodsDeclared(k, Map[k])'
    BY <1>2, <1>3, <2>1 DEF MethodsDeclared
  <2> QED
    BY <1>1, <1>2, <1>3, <2>2 DEF ClassFinished
<1>8. StackPaths'
  <2> SUFFICES ASSUME NEW i \in 1 .. n - 1
               PROVE  /\ PathTo(i)' = WalkPath[stack'[i].context]
                      /\ Class(WalkPath[stack'[i].context]) \in Declared'
    BY <1>4 DEF StackPaths
  <2>1. \A j \in 1 .. i : j \in 1 .. n - 1
    BY <1>1
  <2>2. PathTo(i)' = PathTo(i)
    BY <1>4, <2>1, PathToKept
  <2> QED
    BY <1>0, <1>1, <1>3, <1>4, <1>6, <2>2 DEF ClassInv, StackPaths
<1>9. \A i \in DOMAIN stack' :
         MethodsDeclared(stack[i].context, Map[stack[i].context] \ stack[i].children)'
  <2> SUFFICES ASSUME NEW i \in 1 .. n - 1
               PROVE  MethodsDeclared(stack[i].context,
                          Map[stack[i].context] \ stack[i].children)'
    BY <1>4
  <2>1. MethodsDeclared(stack[i].context, Map[stack[i].context] \ stack[i].children)
    BY <1>0, <1>1, <1>6 DEF ClassInv
  <2> QED
    BY <1>2, <1>3, <1>4, <2>1 DEF MethodsDeclared
<1>10. ASSUME Ordinary PROVE \E U \in SUBSET DOMAIN Map : Unvisited(U)'
  <2> PICK U \in SUBSET DOMAIN Map : Unvisited(U)
    BY <1>0, <1>1, <1>10 DEF ClassInv
  <2>1. \A x \in DOMAIN Map : ClassFinished(x) => ClassFinished(x)'
    BY <1>2, <1>3, ClassFinishedKept
  <2>2. ASSUME NEW x \in DOMAIN Map \ U
        PROVE  ClassFinished(x)' \/ \E i \in DOMAIN stack' : stack'[i].context = x
    <3>1. CASE x = k
      BY <1>7, <3>1
    <3>2. CASE x # k
      BY <1>1, <1>4, <1>5, <2>1, <3>2 DEF Unvisited
    <3> QED
      BY <3>1, <3>2
  <2>3. ASSUME NEW x \in U
        PROVE  /\ x # TranslationUnit
               /\ \/ PrimaryParent(x) \in U
                  \/ \E i \in DOMAIN stack' : /\ stack'[i].context = PrimaryParent(x)
                                              /\ x \in stack'[i].children
    BY <1>1, <1>4, <1>5 DEF Unvisited
  <2> QED
    BY <1>2, <2>2, <2>3 DEF Unvisited
<1>11. ClassInv'
  BY <1>2, <1>3, <1>8, <1>9, <1>10 DEF ClassInv
<1> QED
  BY <1>3, <1>11 DEF ItemInv

\* When the recursion is over, no context is left that it has not visited: the
\* contexts form a tree.
LEMMA NoneUnvisited ==
    ASSUME TypeOK, stack = <<>>, NEW U \in SUBSET DOMAIN Map, Unvisited(U)
    PROVE  U = {}
<1>1. SUFFICES ASSUME U # {} PROVE FALSE
  OBVIOUS
<1>2. DOMAIN stack = {}
  OBVIOUS
<1>3. \A k \in U : k \in Context /\ k # TranslationUnit /\ PrimaryParent(k) \in U
  BY <1>2 DEF Unvisited, TypeOK, ContextsTypeOK
<1>4. PICK k \in U : k = TranslationUnit \/ Above[k] \notin U
  <2>1. U \in SUBSET Context
    BY <1>3
  <2> QED
    BY <1>1, <2>1, Upward DEF IsUpward
<1>5. Above[k] = PrimaryParent(k)
  BY <1>3 DEF Above
<1> QED
  BY <1>3, <1>4, <1>5

\* The entries in an order: each of them is in it.
LEMMA OrderOfEntries ==
    ASSUME KeysInv, order' \in SetToSeqs(DOMAIN Map)
    PROVE  order' \in Seq(DOMAIN Map) /\ Range(order') = DOMAIN Map
<1> DEFINE S == DOMAIN Map
           n == Cardinality(S)
<1>1. IsFiniteSet(S) /\ n \in Nat
  BY FS_CardinalityType DEF KeysInv
<1>2. order' \in [1 .. n -> S] /\ \A i, j \in 1 .. n : i # j => order'[i] # order'[j]
  BY DEF SetToSeqs
<1> HIDE DEF n
<1>3. order' \in Seq(S)
  BY <1>1, <1>2
<1>4. IsFiniteSet(1 .. n) /\ Cardinality(1 .. n) = n
  BY <1>1, FS_Interval
<1>5. Range(order') = S
  <2> SUFFICES ASSUME NEW x \in S, x \notin Range(order') PROVE FALSE
    BY <1>2 DEF Range
  <2>1. IsFiniteSet(S \ {x}) /\ Cardinality(S \ {x}) = n - 1
    BY <1>1, FS_RemoveElement DEF n
  <2>2. order' \in [1 .. n -> S \ {x}]
    BY <1>2 DEF Range
  <2> QED
    BY <1>1, <1>2, <1>4, <2>1, <2>2, FS_PigeonHole
<1> QED
  BY <1>3, <1>5

LEMMA EndClassItems == IInv /\ ItemInv /\ EndMockClass => ItemInv'
<1> SUFFICES ASSUME IInv, ItemInv, EndMockClass PROVE ItemInv'
  OBVIOUS
<1>0. /\ BufferInv /\ KeysInv /\ TypeOK /\ MemberUses /\ ClassInv
      /\ (Ordinary => DeclaredBeforeUse)
      /\ pc = "class" /\ stack = <<>> /\ pc' = "definitions"
      /\ UNCHANGED <<contextVars, VarDecls, AnyVariadic, stack, next, out>>
      /\ order' \in SetToSeqs(DOMAIN Map)
  BY DEF ItemInv, IInv, EndMockClass
<1>1. MapKept /\ UNCHANGED FunctionDecls
  BY <1>0 DEF contextVars, MapKept
<1>2. next' = 1 /\ Buffer' /\ Declared' = Declared
      /\ MemberUses' /\ (Ordinary => DeclaredBeforeUse)'
  BY <1>0, <1>1, NothingWritten, UsesKept DEF BufferInv
<1>3. Included' = Included
  BY <1>0 DEF Included
<1>4. BufferInv' /\ KeysInv' /\ ClassInv'
  BY <1>0, <1>1, <1>2, <1>3 DEF BufferInv, KeysInv, ClassInv, MapKept, AllNamed, contextVars
<1>5. order' \in Seq(DOMAIN Map) /\ Range(order') = DOMAIN Map
  BY <1>0, OrderOfEntries
<1>6. Ordinary => \A k \in DOMAIN Map : ClassFinished(k)
  <2> SUFFICES ASSUME Ordinary, NEW k \in DOMAIN Map PROVE ClassFinished(k)
    OBVIOUS
  <2>1. PICK U \in SUBSET DOMAIN Map : Unvisited(U)
    BY <1>0 DEF ClassInv
  <2>2. U = {}
    BY <1>0, <2>1, NoneUnvisited
  <2>3. DOMAIN stack = {}
    BY <1>0
  <2> QED
    BY <2>1, <2>2, <2>3 DEF Unvisited
<1>7. FinishedInv'
  <2>1. \A k \in DOMAIN Map : ClassFinished(k) => ClassFinished(k)'
    BY <1>1, <1>2, ClassFinishedKept
  <2> QED
    BY <1>0, <1>1, <1>5, <1>6, <2>1, OrdinaryKept DEF FinishedInv, contextVars
<1>8. LoopInv'
  <2>1. \A n \in DOMAIN order' : ~(n < 1)
    BY <1>5
  <2> QED
    BY <1>0, <1>2, <2>1 DEF LoopInv, LoopPassed, After, AfterLoops
<1>9. FunctionInv'
  BY <1>0 DEF FunctionInv
<1> QED
  BY <1>2, <1>4, <1>7, <1>8, <1>9 DEF ItemInv

-----------------------------------------------------------------------------
LEMMA ItemStep == IInv /\ ItemInv /\ [Next]_vars => ItemInv'
<1> SUFFICES ASSUME IInv, ItemInv, [Next]_vars PROVE ItemInv'
  OBVIOUS
<1>1. CASE MapStep \/ StartMockClass \/ WriteNestedClass \/ WriteMockMethod \/ CloseClass
  BY <1>1, MapItems, StartItems, NestedItems, MethodItems, CloseItems
<1>2. CASE EndMockClass \/ WriteEntry \/ EndLoop \/ WriteFunction
  BY <1>2, EndClassItems, EntryStep, EndLoopStep, FunctionStep
<1>3. CASE EndFunctions \/ WriteGlobals \/ Finish
  BY <1>3, LastSteps
<1>4. CASE AbortAtEntry \/ AbortAtFunction
  BY <1>4, AbortStep
<1>5. CASE UNCHANGED vars
  <2> USE DEF vars, generatorVars, contextVars
  <2>1. (Buffer' <=> Buffer) /\ Declared' = Declared
        /\ (DeclaredBeforeUse' <=> DeclaredBeforeUse)
    BY <1>5, NothingWritten
  <2>2. Included' = Included /\ (Ordinary' <=> Ordinary)
    BY <1>5 DEF Included, Ordinary, OrdinaryInput, AllNamed
  <2>3. (BufferInv' <=> BufferInv) /\ (KeysInv' <=> KeysInv)
    BY <1>5, <2>1, <2>2 DEF BufferInv, KeysInv, AllNamed
  <2>4. ClassInv' <=> ClassInv
    <3>1. (StackPaths' <=> StackPaths) /\ \A U : Unvisited(U)' <=> Unvisited(U)
      BY <1>5, <2>1
      DEF StackPaths, PathTo, Unvisited, ClassFinished, MethodsDeclared
    <3> QED
      BY <1>5, <2>1, <2>2, <3>1 DEF ClassInv, MethodsDeclared
  <2>5. FinishedInv' <=> FinishedInv
    BY <1>5, <2>1, <2>2 DEF FinishedInv, ClassFinished, MethodsDeclared
  <2>6. (LoopInv' <=> LoopInv) /\ (FunctionInv' <=> FunctionInv)
    BY <1>5, <2>1 DEF LoopInv, LoopPassed, FunctionInv
  <2>7. MemberUses' <=> MemberUses
    BY <1>5 DEF MemberUses
  <2> QED
    BY <2>1, <2>2, <2>3, <2>4, <2>5, <2>6, <2>7 DEF ItemInv
<1> QED
  BY <1>1, <1>2, <1>3, <1>4, <1>5 DEF Next, Terminated

-----------------------------------------------------------------------------
(***************************************************************************)
(* What the loops over the collected lists have written.                   *)
(***************************************************************************)
GMockWritten ==
    /\ VarDecls \in Seq(VarDecl)
    /\ pc # "aborted" =>
          /\ DefinedAs("body", FunctionDecl)
               = Progress(FunctionDecls, "functions", {"globals", "main", "done"})
          /\ DefinedAs("variable", VarDecl)
               = Definable \cap Progress(VarDecls, "globals", {"main", "done"})

\* In the other parts of run() an item has no symbol of a body or variable.
LEMMA OtherItems ==
    ASSUME Buffer, GMockWritten, UNCHANGED <<FunctionDecls, VarDecls>>,
           NEW item, Write(item) \/ UNCHANGED out,
           \A symbol \in item.declares : symbol[1] \notin {"body", "variable"},
           pc # "aborted",
           \/ {pc, pc'} \cap {"functions", "globals", "main", "done"} = {}
           \/ pc = "main" /\ pc' = "done"
    PROVE  GMockWritten'
<1>1. ASSUME NEW tag \in {"body", "variable"}, NEW S PROVE DefinedAs(tag, S)' = DefinedAs(tag, S)
  BY DefinedMore, DefinedSame DEF DefinedAs
<1> QED
  BY <1>1 DEF GMockWritten, Progress, DefinedAs, Definable

LEMMA FirstItems ==
    ASSUME BufferInv, GMockWritten, StartMockClass PROVE GMockWritten'
<1> PICK a, b, c : /\ a = Item(Included, {}) /\ b = MacroItem
                   /\ c = Item({Class(<<>>)}, {})
  OBVIOUS
<1> DEFINE items == <<a, b, c>>
<1>1. /\ pc = "map" /\ pc' = "class" /\ Buffer /\ out' = out \o items
      /\ UNCHANGED <<FunctionDecls, VarDecls>>
  BY DEF BufferInv, StartMockClass, StartWalk, lists
<1>2. \A symbol \in a.declares \cup b.declares \cup c.declares :
         symbol[1] \notin {"body", "variable"}
  BY DEF Item, Included, Framework, VaList, MacroItem, Linkage, Class
<1>3. /\ items \in Seq({a, b, c}) /\ Len(items) = 3
      /\ items[1] = a /\ items[2] = b /\ items[3] = c
      /\ \A n \in 1 .. 3 : n \in {1, 2, 3}
  OBVIOUS
<1> HIDE DEF items
<1>4. ASSUME NEW tag \in {"body", "variable"}
      PROVE  \A x : <<tag, x>> \in Declared' <=> <<tag, x>> \in Declared
  <2>1. \A n \in 1 .. Len(items) : \A symbol \in items[n].declares : symbol[1] # tag
    BY <1>2, <1>3
  <2>2. items \in Seq({a, b, c}) /\ out' = out \o items /\ Buffer
    BY <1>1, <1>3
  <2> QED
    BY <2>1, <2>2, DefinedOthers
<1> QED
  BY <1>1, <1>4 DEF GMockWritten, Progress, DefinedAs, Definable

LEMMA FunctionWritten ==
    ASSUME IInv, BufferInv, FunctionLists \subseteq Seq(FunctionDecl), GMockWritten, WriteFunction
    PROVE  GMockWritten'
<1> DEFINE f == FunctionDecls[next]
           item == FunctionItem(f)
<1>1. /\ Write(item) /\ pc = "functions" /\ next' = next + 1 /\ next <= Len(FunctionDecls)
      /\ UNCHANGED <<FunctionDecls, VarDecls, pc>> /\ Buffer
      /\ FunctionDecls \in Seq(FunctionDecl) /\ next \in Nat \ {0}
  BY DEF IInv, TypeOK, ContextsTypeOK, BufferInv, WriteFunction, contextVars
<1>2. f \in FunctionDecl /\ Before(FunctionDecls, next + 1) = Before(FunctionDecls, next) \cup {f}
  BY <1>1, BeforeNext
<1>3. /\ <<"body", f>> \in item.declares
      /\ \A symbol \in item.declares : symbol = <<"body", f>> \/ symbol[1] = "local"
  BY DEF FunctionItem, Item, Body, ParameterLocals, Local
<1> HIDE DEF item
<1>4. DefinedAs("body", FunctionDecl)' = DefinedAs("body", FunctionDecl) \cup {f}
  BY <1>1, <1>2, <1>3, DefinedMore DEF DefinedAs
<1>5. DefinedAs("variable", VarDecl)' = DefinedAs("variable", VarDecl)
  BY <1>1, <1>3, DefinedMore DEF DefinedAs
<1> QED
  BY <1>1, <1>2, <1>4, <1>5 DEF GMockWritten, Progress, DefinedAs, Definable

LEMMA ClassItemsWritten ==
    ASSUME IInv, BufferInv, GMockWritten,
           MapStep \/ WriteNestedClass \/ WriteMockMethod \/ CloseClass \/ EndMockClass
    PROVE  GMockWritten'
<1>0. Buffer
  BY DEF BufferInv
<1>1. /\ pc \in {"map", "class"} /\ pc' \in {"map", "class", "definitions"}
      /\ UNCHANGED <<FunctionDecls, VarDecls>>
  BY DEF MapStep, CreateContextMap, NextFunction, Climb, WriteNestedClass, Enter, InClass,
         WriteMockMethod, Visit, CloseClass, Leave, EndMockClass, lists, contextVars
<1>2. \E item : /\ Write(item) \/ UNCHANGED out
                /\ \A symbol \in item.declares : symbol[1] \notin {"body", "variable"}
  <2> DEFINE none == Item({}, {})
  <2>1. CASE MapStep \/ EndMockClass
    <3>1. UNCHANGED out /\ \A symbol \in none.declares : FALSE
      BY <2>1 DEF MapStep, EndMockClass, Item
    <3> QED
      BY <3>1
  <2>2. CASE WriteNestedClass
    <3>1. PICK c : Write(Item({Class(Append(StackPath, Identifier[c]))}, {Class(StackPath)}))
      BY <2>2 DEF WriteNestedClass
    <3>2. \A symbol \in Item({Class(Append(StackPath, Identifier[c]))}, {Class(StackPath)}).declares :
            symbol[1] \notin {"body", "variable"}
      BY DEF Item, Class
    <3> QED
      BY <3>1, <3>2
  <2>3. CASE WriteMockMethod
    <3>1. PICK f : Write(MethodItem(f)) \/ UNCHANGED out
      BY <2>3 DEF WriteMockMethod
    <3>2. \A symbol \in MethodItem(f).declares : symbol[1] \notin {"body", "variable"}
      BY DEF MethodItem, Item, Method
    <3> QED
      BY <3>1, <3>2
  <2>4. CASE CloseClass
    <3>1. Write(Item({Pointer(StackPath)}, {Class(StackPath), Framework})) \/ UNCHANGED out
      BY <2>4 DEF CloseClass
    <3>2. \A symbol \in Item({Pointer(StackPath)}, {Class(StackPath), Framework}).declares :
            symbol[1] \notin {"body", "variable"}
      BY DEF Item, Pointer
    <3> QED
      BY <3>1, <3>2
  <2> QED
    BY <2>1, <2>2, <2>3, <2>4
<1> QED
  BY <1>0, <1>1, <1>2, OtherItems

LEMMA GMockWrittenStep ==
    ASSUME IInv, BufferInv, FunctionLists \subseteq Seq(FunctionDecl), GMockWritten, [Next]_vars
    PROVE  GMockWritten'
<1>0. /\ FunctionDecls \in Seq(FunctionDecl) /\ VarDecls \in Seq(VarDecl)
      /\ next \in Nat \ {0} /\ Buffer
  BY DEF IInv, TypeOK, ContextsTypeOK, BufferInv, GMockWritten
<1>1. /\ Before(FunctionDecls, 1) = {} /\ Before(VarDecls, 1) = {}
      /\ next > Len(FunctionDecls) => Before(FunctionDecls, next) = Range(FunctionDecls)
      /\ next > Len(VarDecls) => Before(VarDecls, next) = Range(VarDecls)
  BY <1>0, BeforeNext
<1>2. CASE WriteEntry
  <2>1. /\ Looping /\ UNCHANGED <<FunctionDecls, VarDecls, pc>>
        /\ Write(LoopItem(order[next])) \/ UNCHANGED out
    BY <1>2 DEF WriteEntry, contextVars
  <2>2. \A symbol \in LoopItem(order[next]).declares : symbol[1] \notin {"body", "variable"}
    <3> DEFINE c == order[next]
    <3>1. LoopItem(c) \in {DefinitionItem(c), SetUpItem(c), TearDownItem(c), VariableItem(c)}
      BY <2>1 DEF Looping, LoopItem
    <3>2. /\ DefinitionItem(c).declares = {Definition(Path[c])}
          /\ SetUpItem(c).declares = {SetUp(AccessPath(c))}
          /\ TearDownItem(c).declares = {TearDown(AccessPath(c))}
          /\ \E name : VariableItem(c).declares = {Member(name)}
      BY DEF DefinitionItem, SetUpItem, TearDownItem, VariableItem, Item
    <3>3. \A p : {Definition(p)[1], SetUp(p)[1], TearDown(p)[1], Member(p)[1]}
                   \cap {"body", "variable"} = {}
      BY DEF Definition, SetUp, TearDown, Member
    <3> HIDE DEF c
    <3>4. ASSUME NEW symbol \in LoopItem(c).declares PROVE symbol[1] \notin {"body", "variable"}
      BY <3>1, <3>2, <3>3
    <3> QED
      BY <3>4 DEF c
  <2> QED
    BY <1>0, <2>1, <2>2, OtherItems DEF Looping
<1>3. CASE EndLoop
  <2>1. /\ Looping /\ UNCHANGED <<FunctionDecls, VarDecls, out>> /\ next' = 1
        /\ pc' \in {"setup", "teardown", "variables", "functions"}
    BY <1>3 DEF EndLoop, Looping, Successor, contextVars
  <2> QED
    BY <1>1, <2>1, DefinedSame DEF Looping, GMockWritten, Progress, DefinedAs, Definable
<1>4. CASE EndFunctions
  BY <1>1, <1>4, DefinedSame
  DEF EndFunctions, contextVars, GMockWritten, Progress, DefinedAs, Definable
<1>5. CASE WriteGlobalVariable
  <2>1. pc = "globals" /\ next' = next + 1 /\ UNCHANGED <<FunctionDecls, VarDecls, pc>>
    BY <1>5 DEF WriteGlobalVariable, contextVars
  <2> QED
    BY <1>0, <1>5, <2>1, VariableDefined DEF GMockWritten, Progress, DefinedAs, Definable
<1>6. CASE EndGlobalVariables("main")
  BY <1>1, <1>6, DefinedSame
  DEF EndGlobalVariables, contextVars, GMockWritten, Progress, DefinedAs, Definable
<1>7. CASE Finish
  <2>1. /\ pc = "main" /\ pc' = "done" /\ UNCHANGED <<FunctionDecls, VarDecls>>
        /\ Write(MainItem) \/ UNCHANGED out
    BY <1>7 DEF Finish, contextVars
  <2>2. \A symbol \in MainItem.declares : symbol[1] \notin {"body", "variable"}
    BY DEF MainItem, Item
  <2> QED
    BY <1>0, <2>1, <2>2, OtherItems
<1>8. CASE AbortAtEntry \/ AbortAtFunction
  BY <1>8 DEF AbortAtEntry, AbortAtFunction, Abort, contextVars, GMockWritten
<1>9. CASE UNCHANGED vars
  BY <1>9, DefinedSame
  DEF vars, generatorVars, contextVars, GMockWritten, Progress, DefinedAs, Definable
<1> QED
  BY <1>2, <1>3, <1>4, <1>5, <1>6, <1>7, <1>8, <1>9, ClassItemsWritten, FirstItems, FunctionWritten
  DEF Next, Terminated, WriteGlobals

\* The invariant of the traversal and of the items is inductive.
LEMMA ItemsKeep == IInv /\ ItemInv /\ [Next]_vars => IInv' /\ ItemInv'
BY TypeStep, MapInvStep, StackInvStep, ItemStep DEF IInv

LEMMA ItemInvariance == Spec => [](IInv /\ ItemInv)
<1>1. Init => IInv /\ ItemInv
  BY IInvInit, ItemInit
<1> QED
  BY <1>1, ItemsKeep, PTL DEF Spec

\* The generated file compiles as far as declarations go: as long as functions
\* stand in namespaces and records alone, and a variadic one has a parameter,
\* every item stands below those that declare what it uses.
THEOREM DeclaredAbove == Spec => [](OrdinaryInput => UsesDeclared)
<1>1. ItemInv => (OrdinaryInput => UsesDeclared)
  BY DEF ItemInv, Ordinary, UsesDeclared
<1> QED
  BY ItemInvariance, <1>1, PTL

\* When the generator finishes, each collected function has its definition, and
\* one whose contexts have names has a pointer that is set before a test and
\* reset after it.
THEOREM AllMocked == Spec => []FunctionsMocked
<1>1. IInv /\ ItemInv => FunctionsMocked
  <2> SUFFICES ASSUME IInv, ItemInv, pc = "done", NEW f \in Range(FunctionDecls)
               PROVE  LET path == Outermost(Path[Parent[f]])
                      IN  /\ Body(f) \in Declared
                          /\ Parent[f] \in NamedContext =>
                                {SetUp(path), TearDown(path)} \subseteq Declared
    BY DEF FunctionsMocked
  <2> DEFINE path == Outermost(Path[Parent[f]])
  <2>1. FinishedInv /\ LoopInv /\ FunctionInv
    BY DEF ItemInv
  <2>2. Body(f) \in Declared
    BY <2>1 DEF FunctionInv, Range
  <2>3. ASSUME Parent[f] \in NamedContext
        PROVE  SetUp(path) \in Declared /\ TearDown(path) \in Declared
    <3>1. PICK n \in DOMAIN order :
            /\ requiresPointerVariable(order[n], Map[order[n]])
            /\ AccessPath(order[n]) = path
      BY <2>1, <2>3, PointerOfFunction
    <3>2. \A p \in {"setup", "teardown"} : p \in DOMAIN After /\ LoopPassed(p, n)
      BY DEF LoopPassed, After, AfterLoops
    <3>3. /\ LoopSymbol("setup", order[n]) = SetUp(path)
          /\ LoopSymbol("teardown", order[n]) = TearDown(path)
      BY <3>1 DEF LoopSymbol
    <3> QED
      BY <2>1, <3>1, <3>2, <3>3 DEF LoopInv
  <2> QED
    BY <2>2, <2>3
<1> QED
  BY ItemInvariance, <1>1, PTL

\* The fixture has the members whose addresses its SetUp takes, unless the
\* namespace of the global mock has another name than the one of its member.
THEOREM FixtureComplete == Spec => [](GlobalNamespaceName = "_" => MembersDeclared)
<1>1. IInv /\ ItemInv => (GlobalNamespaceName = "_" => MembersDeclared)
  <2> SUFFICES ASSUME IInv, ItemInv, GlobalNamespaceName = "_", pc = "done",
                      NEW i \in DOMAIN out, NEW symbol \in out[i].uses,
                      FixtureMember(symbol)
               PROVE  symbol \in Declared
    BY DEF MembersDeclared
  <2>1. FinishedInv /\ LoopInv /\ MemberUses /\ TypeOK
    BY DEF ItemInv, IInv
  <2>2. PICK k \in DOMAIN Map :
          requiresPointerVariable(k, Map[k]) /\ symbol = VariableAccess(k)
    BY <2>1 DEF MemberUses
  <2>3. k \in Context /\ isGlobalContext(k)
    BY <2>1, <2>2 DEF TypeOK, ContextsTypeOK, requiresPointerVariable
  <2>4. PICK n \in DOMAIN order : order[n] = k
    BY <2>1 DEF FinishedInv, Range
  <2>5. "variables" \in DOMAIN After /\ LoopPassed("variables", n)
    BY DEF LoopPassed, After, AfterLoops
  <2>6. LoopSymbol("variables", k) = VariableAccess(k)
    BY <2>3, GlobalPath DEF LoopSymbol, VariableAccess
  <2> QED
    BY <2>1, <2>2, <2>4, <2>5, <2>6 DEF LoopInv
<1> QED
  BY ItemInvariance, <1>1, PTL
-----------------------------------------------------------------------------
(***************************************************************************)
(* Declaring once.  Two paths in the generated file are the same only if   *)
(* the contexts are, and a call that is still to be made for a child has   *)
(* declared nothing: only one call iterates over a context, and nothing in *)
(* a class is declared before the class is.  In the loops, which come      *)
(* after the class, every symbol is accounted for by what they have passed.*)
(***************************************************************************)
\* Neither two contexts in one context nor two functions have what tells
\* their symbols apart in common; the member for an outermost context is not
\* called like that for the translation unit.
NamesApart ==
    /\ \A k \in DOMAIN Map : \A x, y \in Map[k] : x # y =>
          /\ {x, y} \subseteq DOMAIN Map => Identifier[x] # Identifier[y]
          /\ {Kind[x], Kind[y]} \subseteq FunctionKind => Signature(x) # Signature(y)
    /\ \A k \in DOMAIN Map \ {TranslationUnit} :
          isGlobalContext(k) => Identifier[k] # "_"

Distinguishable == AllNamed /\ NamesApart

\* What the visit of a child declares.
ChildSymbol(k, x) == IF Kind[x] \in ClassKind THEN Class(WalkPath[x]) ELSE Method(WalkPath[k], x)

ChildNew(k, x) ==
    Kind[x] \in ClassKind \cup FunctionKind => ChildSymbol(k, x) \notin Declared

CallsDistinct == \A i, j \in DOMAIN stack : stack[i].context = stack[j].context => i = j

ChildrenNew == \A i \in DOMAIN stack : \A x \in stack[i].children : ChildNew(stack[i].context, x)

PointersNew == \A i \in DOMAIN stack : Pointer(WalkPath[stack[i].context]) \notin Declared

ClassFirst ==
    \A k \in DOMAIN Map : Class(WalkPath[k]) \notin Declared =>
        Pointer(WalkPath[k]) \notin Declared /\ \A x \in Map[k] : ChildNew(k, x)

WalkOnce == CallsDistinct /\ ChildrenNew /\ PointersNew /\ ClassFirst

GMockAccounted(symbol) ==
    \/ symbol[1] = "header"
    \/ /\ pc # "map"
       /\ symbol[1] \in {"framework", "va_list", "CCMOCK_LINKAGE", "class", "method", "pointer"}
    \/ \E p \in DOMAIN After : \E n \in DOMAIN order :
          /\ LoopPassed(p, n) /\ requiresPointerVariable(order[n], Map[order[n]])
          /\ symbol = LoopSymbol(p, order[n])
    \/ /\ symbol[1] \in {"body", "local"}
       /\ symbol[2] \in Progress(FunctionDecls, "functions", {"globals", "main", "done"})
    \/ /\ symbol[1] = "variable"
       /\ symbol[2] \in Progress(VarDecls, "globals", {"main", "done"})
    \/ symbol[1] = "main" /\ pc = "done"

GMockOnce ==
    /\ pc # "aborted" => \A symbol \in Declared : GMockAccounted(symbol)
    /\ pc \notin {"map", "class"} => NoRepetition(order)
    /\ pc = "class" /\ Distinguishable => WalkOnce
    /\ pc = "map" \/ (Distinguishable /\ ListedOnce) => DeclaredOnce

-----------------------------------------------------------------------------
LEMMA DistinguishableKept ==
    ASSUME MapKept, UNCHANGED FunctionDecls PROVE Distinguishable' <=> Distinguishable
BY DEF MapKept, Distinguishable, NamesApart, AllNamed

\* A path leads to one context.
LEMMA PathInjective ==
    ASSUME IInv, Built, Distinguishable, NEW x \in DOMAIN Map, NEW y \in DOMAIN Map,
           WalkPath[x] = WalkPath[y], KeysInv
    PROVE  x = y
<1> DEFINE other(u) == \E v \in DOMAIN Map : WalkPath[v] = WalkPath[u] /\ v # u
           bad == {u \in DOMAIN Map : other(u)}
<1>0. /\ DOMAIN Map \subseteq Context
      /\ \A k \in DOMAIN Map \ {TranslationUnit} :
            PrimaryParent(k) \in DOMAIN Map /\ k \in Map[PrimaryParent(k)]
  BY DEF IInv, TypeOK, ContextsTypeOK, KeysInv, MapInv, Built, Climbing, Recorded
<1>1. bad = {}
  <2> SUFFICES ASSUME bad # {} PROVE FALSE
    OBVIOUS
  <2>1. PICK u \in bad : u # TranslationUnit => PrimaryParent(u) \notin bad
    <3>1. bad \in SUBSET Context
      BY <1>0
    <3> QED
      BY <3>1, TreeAssumption DEF PrimaryParent
  <2>2. u \in DOMAIN Map /\ other(u)
    BY <2>1
  <2>3. PICK v \in DOMAIN Map : WalkPath[v] = WalkPath[u] /\ v # u
    BY <2>2
  <2>4. u # TranslationUnit /\ v # TranslationUnit
    <3>1. WalkPath[TranslationUnit] = <<>>
      BY WalkPathUnfolds, ContextAssumption
    <3> QED
      BY <1>0, <2>2, <2>3, <3>1, PathNotEmpty
  <2> PICK j, l : j = PrimaryParent(u) /\ l = PrimaryParent(v)
    OBVIOUS
  <2>7. /\ j \in DOMAIN Map /\ u \in Map[j] /\ l \in DOMAIN Map /\ v \in Map[l]
        /\ {u, v, j, l} \subseteq Context
    BY <1>0, <2>2, <2>3, <2>4
  <2>8. WalkPath[j] = WalkPath[l] /\ Identifier[u] = Identifier[v]
    <3> PICK s, t, a, b : s = WalkPath[j] /\ t = WalkPath[l] /\ a = Identifier[u] /\ b = Identifier[v]
      OBVIOUS
    <3>1. Append(s, a) = Append(t, b)
      BY <2>3, <2>4, <2>7, PathOfChild
    <3>2. s \in Seq(NameSet) /\ t \in Seq(NameSet) /\ a \in NameSet /\ b \in NameSet
      BY <2>7, WalkPathType DEF NameSet
    <3>3. \A S : \A p, q \in Seq(S) : \A e, f \in S : Append(p, e) = Append(q, f) => p = q /\ e = f
      OBVIOUS
    <3> QED
      BY <3>1, <3>2, <3>3
  <2>9. j = l
    BY <2>1, <2>4, <2>7, <2>8
  <2> QED
    BY <2>2, <2>3, <2>7, <2>8, <2>9 DEF Distinguishable, NamesApart
<1> QED
  BY <1>0, <1>1

\* The children that a call declares a symbol for have symbols of their own.
LEMMA ChildSymbolsApart ==
    ASSUME IInv, KeysInv, Built, Distinguishable,
           NEW k \in DOMAIN Map, NEW l \in DOMAIN Map, NEW x \in Map[k], NEW y \in Map[l],
           {Kind[x], Kind[y]} \subseteq ClassKind \cup FunctionKind,
           ChildSymbol(k, x) = ChildSymbol(l, y)
    PROVE  x = y /\ k = l
<1>1. /\ \A c \in {x, y} : Kind[c] \in ClassKind => c \in DOMAIN Map
      /\ k = PrimaryParent(x) /\ l = PrimaryParent(y)
  <2>1. Range(FunctionDecls) \subseteq FunctionDecl
    BY ListAssumption DEF IInv, TypeOK, ContextsTypeOK, Range
  <2> QED
    BY <2>1, KindAssumption DEF IInv, MapInv, ClassKind, FunctionKind
<1>2. CASE Kind[x] \in ClassKind /\ Kind[y] \in ClassKind
  <2>1. WalkPath[x] = WalkPath[y]
    BY <1>2 DEF ChildSymbol, Class
  <2> QED
    BY <1>1, <1>2, <2>1, PathInjective
<1>3. CASE Kind[x] \notin ClassKind /\ Kind[y] \notin ClassKind
  <2>1. WalkPath[k] = WalkPath[l] /\ Signature(x) = Signature(y)
    BY <1>3 DEF ChildSymbol, Method
  <2>2. k = l
    BY <2>1, PathInjective
  <2> QED
    BY <1>3, <2>1, <2>2 DEF Distinguishable, NamesApart
<1>4. (Kind[x] \in ClassKind) <=> (Kind[y] \in ClassKind)
  BY DEF ChildSymbol, Class, Method
<1> QED
  BY <1>2, <1>3, <1>4

-----------------------------------------------------------------------------
\* The active call visits one of its children: at most this child's symbol is
\* declared.
LEMMA VisitedOnce ==
    ASSUME IInv, ItemInv, InClass, Distinguishable, WalkOnce, MapKept,
           NEW x \in Active.children,
           \A i \in DOMAIN stack : stack'[i].context = stack[i].context,
           \A i \in DOMAIN stack : stack'[i].children \subseteq stack[i].children,
           x \notin stack'[Len(stack)].children,
           Declared \subseteq Declared',
           \A symbol \in Declared' \ Declared :
              /\ Kind[x] \in ClassKind \cup FunctionKind
              /\ symbol = ChildSymbol(Active.context, x)
    PROVE  /\ Kind[x] \in ClassKind \cup FunctionKind =>
                 ChildSymbol(Active.context, x) \notin Declared
           /\ \A i \in DOMAIN stack : \A y \in stack'[i].children :
                 ChildNew(stack[i].context, y)'
           /\ \A i \in DOMAIN stack : Pointer(WalkPath[stack[i].context]) \notin Declared'
           /\ ClassFirst'
<1> PICK k, n : k = Active.context /\ n = Len(stack)
  OBVIOUS
<1>0. /\ n \in DOMAIN stack /\ stack[n].context = k /\ k \in DOMAIN Map
      /\ Class(WalkPath[k]) \in Declared /\ x \in stack[n].children
      /\ Active.children \subseteq Map[k] /\ Built /\ KeysInv
      /\ \A i \in DOMAIN stack : /\ stack[i].context \in DOMAIN Map
                                 /\ stack[i].children \subseteq Map[stack[i].context]
  BY ActiveCall DEF Active, IInv, TypeOK, StackInv, ItemInv
<1>1. \A l \in DOMAIN Map : \A y \in Map[l] :
        ChildNew(l, y) => (x = y /\ k = l) \/ ChildNew(l, y)'
  <2> SUFFICES ASSUME NEW l \in DOMAIN Map, NEW y \in Map[l], ~(x = y /\ k = l),
                      Kind[y] \in ClassKind \cup FunctionKind,
                      ChildSymbol(l, y) \notin Declared
               PROVE  ChildSymbol(l, y) \notin Declared'
    BY DEF ChildNew, ChildSymbol, Class, Method, Signature
  <2>1. Kind[x] \in ClassKind \cup FunctionKind => ChildSymbol(l, y) # ChildSymbol(k, x)
    BY <1>0, ChildSymbolsApart
  <2> QED
    BY <2>1
<1>2. Kind[x] \in ClassKind \cup FunctionKind => ChildSymbol(k, x) \notin Declared
  BY <1>0 DEF WalkOnce, ChildrenNew, ChildNew
<1>3. ASSUME NEW i \in DOMAIN stack, NEW y \in stack'[i].children
      PROVE  ChildNew(stack[i].context, y)'
  <2>1. y \in stack[i].children
    BY <1>3
  <2>2. ChildNew(stack[i].context, y) /\ y \in Map[stack[i].context]
    BY <1>0, <2>1 DEF WalkOnce, ChildrenNew
  <2>3. ~(x = y /\ k = stack[i].context)
    BY <1>0, <1>3 DEF WalkOnce, CallsDistinct
  <2>4. ASSUME NEW l \in DOMAIN Map, l = stack[i].context PROVE ChildNew(l, y)'
    BY <1>1, <2>2, <2>3, <2>4
  <2> QED
    BY <1>0, <2>4
<1>4. \A l : Pointer(WalkPath[l]) # ChildSymbol(k, x)
  BY DEF Pointer, ChildSymbol, Class, Method
<1>5. ClassFirst'
  <2> SUFFICES ASSUME NEW l \in DOMAIN Map, Class(WalkPath[l]) \notin Declared'
               PROVE  Pointer(WalkPath[l]) \notin Declared' /\ \A y \in Map[l] : ChildNew(l, y)'
    BY DEF ClassFirst, MapKept, ChildNew, ChildSymbol, Class, Method, Pointer, Signature
  <2>1. Pointer(WalkPath[l]) \notin Declared /\ \A y \in Map[l] : ChildNew(l, y)
    BY DEF WalkOnce, ClassFirst
  <2>2. l # k
    BY <1>0
  <2> QED
    BY <1>1, <1>4, <2>1, <2>2
<1>6. \A i \in DOMAIN stack : Pointer(WalkPath[stack[i].context]) \notin Declared'
  BY <1>4 DEF WalkOnce, PointersNew
<1> QED
  BY <1>2, <1>3, <1>5, <1>6

\* What is accounted for in the recursion.
LEMMA AccountedInClass ==
    ASSUME pc = "class", UNCHANGED pc, NEW symbol,
           GMockAccounted(symbol)
              \/ symbol[1] \in {"framework", "va_list", "CCMOCK_LINKAGE", "class", "method", "pointer"}
    PROVE  GMockAccounted(symbol)'
BY DEF GMockAccounted, LoopPassed, After, AfterLoops, Progress

LEMMA NestedOnce == ASSUME IInv, ItemInv, GMockOnce, WriteNestedClass PROVE GMockOnce'
<1> PICK c \in Active.children :
        /\ Enter(c)
        /\ Write(Item({Class(Append(StackPath, Identifier[c]))}, {Class(StackPath)}))
  BY DEF WriteNestedClass
<1> PICK k, n, item :
        /\ k = Active.context /\ n = Len(stack)
        /\ item = Item({Class(Append(StackPath, Identifier[c]))}, {Class(StackPath)})
  OBVIOUS
<1>0. InClass /\ TypeOK /\ Buffer /\ UNCHANGED <<pc, FunctionDecls, VarDecls>>
  BY DEF WriteNestedClass, IInv, ItemInv, BufferInv, Enter, lists
<1>1. /\ pc = "class" /\ n \in Nat \ {0} /\ n \in DOMAIN stack /\ DOMAIN stack = 1 .. n
      /\ k \in DOMAIN Map /\ StackPath = WalkPath[k] /\ Class(WalkPath[k]) \in Declared
      /\ PrimaryParent(c) = k /\ c # TranslationUnit /\ stack[n].context = k
  BY <1>0, ActiveCall DEF Active
<1>2. MapKept /\ c \in DOMAIN Map /\ c \in Context /\ Kind[c] \in ClassKind
  BY <1>0, EnterKeepsMap DEF Enter, TypeOK, ContextsTypeOK
<1>3. WalkPath[c] = Append(WalkPath[k], Identifier[c])
  BY <1>1, <1>2, PathOfChild
<1>4. /\ item.declares = {Class(WalkPath[c])} /\ Write(item)
      /\ Declared' = Declared \cup {Class(WalkPath[c])}
  <2>1. item.declares = {Class(WalkPath[c])} /\ Write(item)
    BY <1>1, <1>3 DEF Item
  <2> QED
    BY <1>0, <2>1, WrittenDeclares
<1>5. ChildSymbol(k, c) = Class(WalkPath[c])
  BY <1>2 DEF ChildSymbol
<1>6. /\ DOMAIN stack' = 1 .. n + 1
      /\ stack'[n + 1].context = c /\ stack'[n + 1].children = Map[c]
      /\ \A i \in 1 .. n : /\ stack'[i].context = stack[i].context
                           /\ stack'[i].children \subseteq stack[i].children
      /\ c \notin stack'[n].children
  <2> PICK t : t = WithoutChild(c)
    OBVIOUS
  <2>1. /\ t \in Seq(FrameSet) /\ Len(t) = n
        /\ \A i \in 1 .. n : /\ t[i].context = stack[i].context
                             /\ t[i].children \subseteq stack[i].children
        /\ t[n].children = stack[n].children \ {c}
    BY <1>0, <1>1, TakenChild, LeftOver
  <2>2. Frame(c).context = c /\ Frame(c).children = Map[c] /\ Frame(c) \in FrameSet
    BY <1>0, <1>2, FrameType DEF Frame, Children, TypeOK
  <2>3. stack' = Append(t, Frame(c))
    BY DEF Enter
  <2>4. /\ DOMAIN stack' = 1 .. n + 1 /\ stack'[n + 1] = Frame(c)
        /\ \A i \in 1 .. n : stack'[i] = t[i]
    BY <2>1, <2>2, <2>3
  <2> QED
    BY <1>1, <2>1, <2>2, <2>4
<1>7. \A symbol \in Declared' : GMockAccounted(symbol)'
  <2>1. Class(WalkPath[c])[1] = "class"
    BY DEF Class
  <2>2. \A symbol \in Declared' :
          GMockAccounted(symbol)
            \/ symbol[1] \in {"framework", "va_list", "CCMOCK_LINKAGE", "class", "method", "pointer"}
    BY <1>1, <1>4, <2>1 DEF GMockOnce
  <2> QED
    BY <1>0, <1>1, <2>2, AccountedInClass
<1>8. ASSUME Distinguishable PROVE WalkOnce' /\ Class(WalkPath[c]) \notin Declared
  <2>1. /\ Class(WalkPath[c]) \notin Declared /\ ClassFirst'
        /\ \A i \in 1 .. n : \A y \in stack'[i].children : ChildNew(stack[i].context, y)'
        /\ \A i \in 1 .. n : Pointer(WalkPath[stack[i].context]) \notin Declared'
    <3>1. Declared \subseteq Declared' /\ \A symbol \in Declared' \ Declared :
            Kind[c] \in ClassKind \cup FunctionKind /\ symbol = ChildSymbol(Active.context, c)
      BY <1>2, <1>4, <1>5
    <3>2. WalkOnce
      BY <1>1, <1>8 DEF GMockOnce
    <3> QED
      BY <1>0, <1>1, <1>2, <1>5, <1>6, <1>8, <3>1, <3>2, VisitedOnce
  <2>2. \A i \in 1 .. n : Class(WalkPath[stack[i].context]) \in Declared
    BY <1>1 DEF ItemInv, ClassInv, StackPaths
  <2>3. \A i \in 1 .. n + 1 : i \in 1 .. n \/ i = n + 1
    BY <1>1
  <2>4. CallsDistinct'
    <3>1. \A i, j \in 1 .. n : stack[i].context = stack[j].context => i = j
      BY <1>1, <1>8 DEF GMockOnce, WalkOnce, CallsDistinct
    <3>2. \A i \in 1 .. n : stack[i].context # c
      BY <2>1, <2>2
    <3> QED
      BY <1>6, <2>3, <3>1, <3>2 DEF CallsDistinct
  <2>5. Pointer(WalkPath[c]) \notin Declared /\ \A y \in Map[c] : ChildNew(c, y)
    BY <1>1, <1>2, <1>8, <2>1 DEF GMockOnce, WalkOnce, ClassFirst
  <2>6. Pointer(WalkPath[c]) \notin Declared'
    BY <1>4, <2>5 DEF Pointer, Class
  <2>7. \A y \in Map[c] : ChildNew(c, y)'
    <3> SUFFICES ASSUME NEW y \in Map[c], Kind[y] \in ClassKind \cup FunctionKind,
                        ChildSymbol(c, y) = ChildSymbol(k, c)
                 PROVE  FALSE
      BY <1>4, <1>5, <2>5 DEF ChildNew, ChildSymbol, Class, Method, Signature
    <3>1. c \in Map[k]
      BY <1>0, <1>1, ActiveCall
    <3>2. KeysInv /\ Built
      BY <1>1 DEF ItemInv, IInv, StackInv
    <3>3. c = k
      BY <1>1, <1>2, <1>8, <3>1, <3>2, ChildSymbolsApart
    <3> QED
      BY <1>1, <2>1, <3>3
  <2>8. ChildrenNew'
    <3> SUFFICES ASSUME NEW i \in 1 .. n + 1, NEW l, l = stack'[i].context,
                        NEW y \in stack'[i].children
                 PROVE  ChildNew(l, y)'
      BY <1>6 DEF ChildrenNew, ChildNew, ChildSymbol, Class, Method, Signature
    <3> QED
      BY <1>6, <2>1, <2>3, <2>7
  <2>9. PointersNew'
    BY <1>6, <2>1, <2>3, <2>6 DEF PointersNew, Pointer
  <2> QED
    BY <2>1, <2>4, <2>8, <2>9 DEF WalkOnce
<1>9. Distinguishable' <=> Distinguishable
  BY <1>0, <1>2, DistinguishableKept
<1>10. Distinguishable /\ ListedOnce => DeclaredOnce'
  <2> SUFFICES ASSUME Distinguishable, ListedOnce PROVE DeclaredOnce'
    OBVIOUS
  <2> QED
    BY <1>0, <1>1, <1>4, <1>8, WrittenOnce DEF GMockOnce
<1> QED
  BY <1>0, <1>1, <1>7, <1>8, <1>9, <1>10 DEF GMockOnce, ListedOnce

LEMMA MethodOnce == ASSUME IInv, ItemInv, GMockOnce, WriteMockMethod PROVE GMockOnce'
<1> PICK f \in Active.children :
        /\ Visit(f)
        /\ IF Kind[f] \in FunctionKind THEN Write(MethodItem(f)) ELSE UNCHANGED out
  BY DEF WriteMockMethod
<1> PICK k, n : k = Active.context /\ n = Len(stack)
  OBVIOUS
<1>0. InClass /\ TypeOK /\ Buffer /\ UNCHANGED <<pc, FunctionDecls, VarDecls>>
  BY DEF WriteMockMethod, IInv, ItemInv, BufferInv, Visit, contextVars
<1>1. /\ pc = "class" /\ n \in DOMAIN stack /\ DOMAIN stack = 1 .. n
      /\ StackPath = WalkPath[k] /\ stack[n].context = k
  BY <1>0, ActiveCall DEF Active
<1>2. MapKept /\ stack' = WithoutChild(f) /\ Kind[f] \notin ClassKind
  BY DEF Visit, contextVars, MapKept
<1>3. /\ DOMAIN stack' = 1 .. n
      /\ \A i \in 1 .. n : /\ stack'[i].context = stack[i].context
                           /\ stack'[i].children \subseteq stack[i].children
      /\ f \notin stack'[n].children
  <2> PICK t : t = WithoutChild(f)
    OBVIOUS
  <2>1. /\ t \in Seq(FrameSet) /\ Len(t) = n
        /\ \A i \in 1 .. n : /\ t[i].context = stack[i].context
                             /\ t[i].children \subseteq stack[i].children
        /\ t[n].children = stack[n].children \ {f}
    BY <1>0, <1>1, TakenChild, LeftOver
  <2> QED
    BY <1>1, <1>2, <2>1
<1>4. /\ Kind[f] \in FunctionKind =>
            /\ MethodItem(f).declares = {Method(WalkPath[k], f)}
            /\ Declared' = Declared \cup {Method(WalkPath[k], f)}
            /\ ChildSymbol(k, f) = Method(WalkPath[k], f)
      /\ Kind[f] \notin FunctionKind => Declared' = Declared
  <2>1. MethodItem(f).declares = {Method(WalkPath[k], f)}
    BY <1>1 DEF MethodItem, Item
  <2>2. Kind[f] \in FunctionKind => Declared' = Declared \cup {Method(WalkPath[k], f)}
    BY <1>0, <2>1, WrittenDeclares
  <2>3. Kind[f] \notin FunctionKind => Declared' = Declared
    BY SameOnce
  <2> QED
    BY <1>2, <2>1, <2>2, <2>3 DEF ChildSymbol
<1>5. \A symbol \in Declared' : GMockAccounted(symbol)'
  <2>1. Method(WalkPath[k], f)[1] = "method"
    BY DEF Method
  <2>2. \A symbol \in Declared' :
          GMockAccounted(symbol)
            \/ symbol[1] \in {"framework", "va_list", "CCMOCK_LINKAGE", "class", "method", "pointer"}
    BY <1>1, <1>4, <2>1 DEF GMockOnce
  <2> QED
    BY <1>0, <1>1, <2>2, AccountedInClass
<1>6. ASSUME Distinguishable
      PROVE  /\ WalkOnce'
             /\ Kind[f] \in FunctionKind => Method(WalkPath[k], f) \notin Declared
  <2>1. /\ Kind[f] \in FunctionKind => Method(WalkPath[k], f) \notin Declared
        /\ ClassFirst'
        /\ \A i \in 1 .. n : \A y \in stack'[i].children : ChildNew(stack[i].context, y)'
        /\ \A i \in 1 .. n : Pointer(WalkPath[stack[i].context]) \notin Declared'
    <3>1. Declared \subseteq Declared' /\ \A symbol \in Declared' \ Declared :
            Kind[f] \in ClassKind \cup FunctionKind /\ symbol = ChildSymbol(Active.context, f)
      BY <1>4
    <3>2. WalkOnce
      BY <1>1, <1>6 DEF GMockOnce
    <3> QED
      BY <1>0, <1>1, <1>2, <1>3, <1>4, <1>6, <3>1, <3>2, VisitedOnce
  <2>2. CallsDistinct'
    <3>1. \A i, j \in 1 .. n : stack[i].context = stack[j].context => i = j
      BY <1>1, <1>6 DEF GMockOnce, WalkOnce, CallsDistinct
    <3> QED
      BY <1>3, <3>1 DEF CallsDistinct
  <2>3. ChildrenNew'
    <3> SUFFICES ASSUME NEW i \in 1 .. n, NEW l, l = stack'[i].context,
                        NEW y \in stack'[i].children
                 PROVE  ChildNew(l, y)'
      BY <1>3 DEF ChildrenNew, ChildNew, ChildSymbol, Class, Method, Signature
    <3> QED
      BY <1>3, <2>1
  <2>4. PointersNew'
    BY <1>3, <2>1 DEF PointersNew, Pointer
  <2> QED
    BY <2>1, <2>2, <2>3, <2>4 DEF WalkOnce
<1>7. Distinguishable' <=> Distinguishable
  BY <1>0, <1>2, DistinguishableKept
<1>8. Distinguishable /\ ListedOnce => DeclaredOnce'
  <2> SUFFICES ASSUME Distinguishable, ListedOnce, DeclaredOnce PROVE DeclaredOnce'
    BY DEF GMockOnce
  <2>1. CASE Kind[f] \in FunctionKind
    BY <1>0, <1>4, <1>6, <2>1, WrittenOnce
  <2>2. CASE Kind[f] \notin FunctionKind
    BY <2>2, SameOnce
  <2> QED
    BY <2>1, <2>2
<1> QED
  BY <1>0, <1>1, <1>5, <1>6, <1>7, <1>8 DEF GMockOnce, ListedOnce

LEMMA CloseOnce == ASSUME IInv, ItemInv, GMockOnce, CloseClass PROVE GMockOnce'
<1> PICK k, n, item : /\ k = Active.context /\ n = Len(stack)
                      /\ item = Item({Pointer(StackPath)}, {Class(StackPath), Framework})
  OBVIOUS
<1>0. InClass /\ TypeOK /\ Buffer /\ UNCHANGED <<pc, FunctionDecls, VarDecls, Map>> /\ MapKept
  BY DEF CloseClass, IInv, ItemInv, BufferInv, Leave, contextVars, MapKept
<1>1. /\ pc = "class" /\ n \in Nat \ {0} /\ n \in DOMAIN stack /\ DOMAIN stack = 1 .. n
      /\ k \in DOMAIN Map /\ StackPath = WalkPath[k] /\ Class(WalkPath[k]) \in Declared
      /\ stack[n].context = k /\ Built /\ KeysInv
  BY <1>0, ActiveCall DEF Active, IInv, StackInv, ItemInv
<1>2. /\ item.declares = {Pointer(WalkPath[k])}
      /\ \/ UNCHANGED out /\ Declared' = Declared
         \/ Write(item) /\ Declared' = Declared \cup {Pointer(WalkPath[k])}
  <2>1. item.declares = {Pointer(WalkPath[k])}
    BY <1>1 DEF Item
  <2> QED
    BY <1>0, <2>1, SameOnce, WrittenDeclares DEF CloseClass
<1>3. DOMAIN stack' = 1 .. n - 1 /\ \A i \in 1 .. n - 1 : stack'[i] = stack[i]
  <2>1. stack' = SubSeq(stack, 1, Len(stack) - 1) /\ stack \in Seq(FrameSet)
    BY <1>0 DEF CloseClass, Leave, Front, TypeOK, FrameSet
  <2> QED
    BY <1>1, <2>1
<1>4. \A symbol \in Declared' : GMockAccounted(symbol)'
  <2>1. Pointer(WalkPath[k])[1] = "pointer"
    BY DEF Pointer
  <2>2. \A symbol \in Declared' :
          GMockAccounted(symbol)
            \/ symbol[1] \in {"framework", "va_list", "CCMOCK_LINKAGE", "class", "method", "pointer"}
    BY <1>1, <1>2, <2>1 DEF GMockOnce
  <2> QED
    BY <1>0, <1>1, <2>2, AccountedInClass
<1>5. ASSUME Distinguishable PROVE WalkOnce' /\ Pointer(WalkPath[k]) \notin Declared
  <2>0. WalkOnce
    BY <1>1, <1>5 DEF GMockOnce
  <2>1. \A i \in 1 .. n - 1 : i \in 1 .. n /\ i # n
    BY <1>1
  <2>2. /\ Pointer(WalkPath[k]) \notin Declared
        /\ \A i \in 1 .. n - 1 : Pointer(WalkPath[stack[i].context]) \notin Declared
    BY <1>1, <2>0, <2>1 DEF WalkOnce, PointersNew
  <2>3. CallsDistinct'
    BY <1>1, <1>3, <2>0, <2>1 DEF WalkOnce, CallsDistinct
  <2>4. \A l, y : ChildNew(l, y) => ChildNew(l, y)'
    BY <1>2 DEF ChildNew, ChildSymbol, Class, Method, Pointer, Signature
  <2>5. ChildrenNew'
    <3> SUFFICES ASSUME NEW i \in 1 .. n - 1, NEW l, l = stack'[i].context,
                        NEW y \in stack'[i].children
                 PROVE  ChildNew(l, y)'
      BY <1>3 DEF ChildrenNew, ChildNew, ChildSymbol, Class, Method, Signature
    <3> QED
      BY <1>1, <1>3, <2>0, <2>1, <2>4 DEF WalkOnce, ChildrenNew
  <2>6. PointersNew'
    <3> SUFFICES ASSUME NEW i \in 1 .. n - 1, NEW l, l = stack[i].context
                 PROVE  Pointer(WalkPath[l]) \notin Declared'
      BY <1>3 DEF PointersNew, Pointer
    <3>1. l \in DOMAIN Map /\ l # k
      BY <1>0, <1>1, <2>0, <2>1 DEF TypeOK, WalkOnce, CallsDistinct
    <3>2. WalkPath[l] # WalkPath[k]
      BY <1>1, <1>5, <3>1, PathInjective
    <3> QED
      BY <1>2, <2>2, <3>2 DEF Pointer
  <2>7. ClassFirst'
    <3> SUFFICES ASSUME NEW l \in DOMAIN Map, Class(WalkPath[l]) \notin Declared'
                 PROVE  Pointer(WalkPath[l]) \notin Declared' /\ \A y \in Map[l] : ChildNew(l, y)'
      BY <1>0 DEF ClassFirst, ChildNew, ChildSymbol, Class, Method, Pointer, Signature
    <3>1. Class(WalkPath[l]) \notin Declared
      BY <1>2
    <3>2. WalkPath[l] # WalkPath[k]
      BY <1>1, <3>1
    <3> QED
      BY <1>2, <2>0, <2>4, <3>1, <3>2 DEF WalkOnce, ClassFirst, Pointer
  <2> QED
    BY <2>2, <2>3, <2>5, <2>6, <2>7 DEF WalkOnce
<1>6. Distinguishable' <=> Distinguishable
  BY <1>0, DistinguishableKept
<1>7. Distinguishable /\ ListedOnce => DeclaredOnce'
  <2> SUFFICES ASSUME Distinguishable, ListedOnce, DeclaredOnce PROVE DeclaredOnce'
    BY DEF GMockOnce
  <2> QED
    BY <1>0, <1>2, <1>5, WrittenOnce, SameOnce
<1> QED
  BY <1>0, <1>1, <1>4, <1>5, <1>6, <1>7 DEF GMockOnce, ListedOnce

\* The loops begin; they have passed nothing.
LEMMA EndClassOnce == ASSUME IInv, ItemInv, GMockOnce, EndMockClass PROVE GMockOnce'
<1>1. /\ pc = "class" /\ pc' = "definitions" /\ next' = 1
      /\ UNCHANGED <<contextVars, VarDecls, out>>
      /\ order' \in SetToSeqs(DOMAIN Map) /\ KeysInv
  BY DEF EndMockClass, ItemInv, BufferInv
<1>2. NoRepetition(order')
  BY <1>1 DEF SetToSeqs, NoRepetition
<1>3. Declared' = Declared /\ (DeclaredOnce' <=> DeclaredOnce)
  BY <1>1, SameOnce
<1>4. \A symbol : GMockAccounted(symbol) => GMockAccounted(symbol)'
  BY <1>1 DEF GMockAccounted, LoopPassed, After, AfterLoops, Progress
<1>5. (Distinguishable' <=> Distinguishable) /\ (ListedOnce' <=> ListedOnce)
  BY <1>1, DistinguishableKept DEF contextVars, MapKept, ListedOnce
<1> QED
  BY <1>1, <1>2, <1>3, <1>4, <1>5 DEF GMockOnce

LEMMA MapOnce == ASSUME IInv, ItemInv, GMockOnce, MapStep PROVE GMockOnce'
<1>1. pc = "map" /\ UNCHANGED <<pc, out>>
  BY DEF MapStep
<1>2. Declared' = Declared /\ (DeclaredOnce' <=> DeclaredOnce)
  BY <1>1, SameOnce
<1>3. \A symbol : GMockAccounted(symbol) => GMockAccounted(symbol)'
  BY <1>1 DEF GMockAccounted, LoopPassed, After, AfterLoops, Progress
<1> QED
  BY <1>1, <1>2, <1>3 DEF GMockOnce

\* The first items; no call has declared anything.
LEMMA StartOnce == ASSUME IInv, ItemInv, GMockOnce, StartMockClass PROVE GMockOnce'
<1> PICK a, b, c : /\ a = Item(Included, {}) /\ b = MacroItem
                   /\ c = Item({Class(<<>>)}, {})
  OBVIOUS
<1> DEFINE items == <<a, b, c>>
<1>0. /\ pc = "map" /\ pc' = "class" /\ Buffer /\ DeclaredOnce /\ out' = out \o items
      /\ stack' = <<Frame(TranslationUnit)>> /\ KeysInv' /\ ContextsTypeOK'
      /\ \A symbol \in Declared : symbol[1] = "header"
  <2>1. KeysInv'
    BY GMockWalks, WalkKeys DEF ItemInv
  <2>2. ContextsTypeOK'
    <3>1. TypeOK'
      BY GMockWalks, WalkType DEF IInv
    <3> QED
      BY <3>1 DEF TypeOK
  <2>3. pc = "map" /\ pc' = "class" /\ Buffer /\ DeclaredOnce /\ out' = out \o items
        /\ stack' = <<Frame(TranslationUnit)>>
    BY DEF StartMockClass, StartWalk, ItemInv, BufferInv, GMockOnce
  <2>4. \A symbol : GMockAccounted(symbol) => symbol[1] = "header"
    <3>1. \A p \in DOMAIN After : \A n : ~LoopPassed(p, n)
      <4>1. "map" \notin DOMAIN After /\ \A p \in DOMAIN After : "map" \notin After[p]
        BY DEF After, AfterLoops
      <4> QED
        BY <2>3, <4>1 DEF LoopPassed
    <3>2. \A list : /\ Progress(list, "functions", {"globals", "main", "done"}) = {}
                    /\ Progress(list, "globals", {"main", "done"}) = {}
      BY <2>3 DEF Progress
    <3> QED
      BY <2>3, <3>1, <3>2 DEF GMockAccounted
  <2> QED
    BY <2>1, <2>2, <2>3, <2>4 DEF GMockOnce
<1>1. /\ a.declares = Included /\ b.declares = {Linkage} /\ c.declares = {Class(<<>>)}
      /\ \A symbol \in Included : symbol[1] \in {"framework", "va_list"}
      /\ Linkage[1] = "CCMOCK_LINKAGE" /\ \A p : Class(p)[1] = "class"
  BY DEF Item, MacroItem, Included, Framework, VaList, Linkage, Class
<1>2. /\ items \in Seq({a, b, c}) /\ Len(items) = 3
      /\ items[1] = a /\ items[2] = b /\ items[3] = c
      /\ \A n \in 1 .. 3 : n \in {1, 2, 3}
  OBVIOUS
<1> HIDE DEF items
<1>3. DeclaredOnce'
  <2>1. \A n \in 1 .. Len(items) : \A symbol \in items[n].declares : symbol \notin Declared
    BY <1>0, <1>1, <1>2
  <2>2. \A m, n \in 1 .. Len(items) : m # n => items[m].declares \cap items[n].declares = {}
    <3>1. /\ a.declares \cap b.declares = {} /\ a.declares \cap c.declares = {}
          /\ b.declares \cap c.declares = {}
      BY <1>1
    <3>2. ASSUME NEW m \in {1, 2, 3}, NEW n \in {1, 2, 3}, m # n
          PROVE  items[m].declares \cap items[n].declares = {}
      <4>1. CASE m = 1
        BY <1>2, <3>1, <3>2, <4>1
      <4>2. CASE m = 2
        BY <1>2, <3>1, <3>2, <4>2
      <4>3. CASE m = 3
        BY <1>2, <3>1, <3>2, <4>3
      <4> QED
        BY <4>1, <4>2, <4>3
    <3> QED
      BY <1>2, <3>2
  <2> QED
    BY <1>0, <1>2, <2>1, <2>2, WrittenItemsOnce
<1>4. \A symbol \in Declared' :
        \/ symbol[1] \in {"header", "framework", "va_list", "CCMOCK_LINKAGE"}
        \/ symbol = Class(<<>>)
  <2>1. \A symbol \in Declared' :
          symbol \in Declared \/ \E n \in 1 .. Len(items) : symbol \in items[n].declares
    BY <1>0, <1>2, WrittenItemsDeclare
  <2> QED
    BY <1>0, <1>1, <1>2, <2>1
<1>5. \A symbol \in Declared' : GMockAccounted(symbol)'
  BY <1>0, <1>1, <1>4 DEF GMockAccounted
<1>6. \A p : Pointer(p) \notin Declared'
  BY <1>1, <1>4 DEF Pointer, Class
<1>7. \A k \in DOMAIN Map' : \A x \in Map'[k] : ChildNew(k, x)'
  <2> SUFFICES ASSUME NEW k \in DOMAIN Map', NEW x \in Map'[k],
                      Kind[x] \in ClassKind \cup FunctionKind
               PROVE  ChildSymbol(k, x) \notin Declared'
    BY DEF ChildNew, ChildSymbol, Class, Method, Signature
  <2>1. x \in DeclContext /\ x # TranslationUnit
    BY <1>0 DEF ContextsTypeOK, KeysInv
  <2>2. CASE Kind[x] \in ClassKind
    <3>1. x \in Context
      BY <2>1, <2>2, KindAssumption DEF DeclContext, ClassKind, FunctionKind
    <3>2. WalkPath[x] # <<>>
      BY <2>1, <3>1, PathNotEmpty
    <3>3. Class(WalkPath[x]) # Class(<<>>)
      BY <3>2 DEF Class
    <3> QED
      BY <1>1, <1>4, <2>2, <3>3 DEF ChildSymbol
  <2>3. CASE Kind[x] \notin ClassKind
    BY <1>1, <1>4, <2>3 DEF ChildSymbol, Method, Class
  <2> QED
    BY <2>2, <2>3
<1>8. DOMAIN stack' = {1} /\ stack'[1].context = TranslationUnit
      /\ stack'[1].children = Map'[TranslationUnit] /\ TranslationUnit \in DOMAIN Map'
  <2>1. Map' = LookedUp(TranslationUnit)
    BY DEF StartMockClass, StartWalk
  <2>2. Map'[TranslationUnit] = Children(TranslationUnit) /\ TranslationUnit \in DOMAIN Map'
    BY <2>1, LookedUpEntries DEF LookedUp
  <2> QED
    BY <1>0, <2>2 DEF Frame
<1>9. WalkOnce'
  <2>1. CallsDistinct' /\ PointersNew' /\ ClassFirst'
    BY <1>6, <1>7, <1>8 DEF CallsDistinct, PointersNew, ClassFirst, Pointer, Class,
       ChildNew, ChildSymbol, Method, Signature
  <2>2. ChildrenNew'
    <3> SUFFICES ASSUME NEW x \in Map'[TranslationUnit] PROVE ChildNew(TranslationUnit, x)'
      BY <1>8 DEF ChildrenNew, ChildNew, ChildSymbol, Class, Method, Signature
    <3> QED
      BY <1>7, <1>8
  <2> QED
    BY <2>1, <2>2 DEF WalkOnce
<1> QED
  BY <1>0, <1>3, <1>5, <1>9 DEF GMockOnce

-----------------------------------------------------------------------------
\* Each of the loops over the map has symbols of its own.
LEMMA LoopTags ==
    /\ DOMAIN After = {"definitions", "setup", "teardown", "variables"}
    /\ \A c : /\ LoopSymbol("definitions", c)[1] = "definition"
              /\ LoopSymbol("setup", c)[1] = "set up"
              /\ LoopSymbol("teardown", c)[1] = "tear down"
              /\ LoopSymbol("variables", c)[1] = "member"
BY DEF After, LoopSymbol, Definition, SetUp, TearDown, Member

\* A step after the class: what it declares is new, and is accounted for.
LEMMA LaterOnce ==
    ASSUME GMockOnce, Buffer, UNCHANGED <<contextVars, VarDecls, order>>,
           pc \notin {"map", "class", "aborted"}, pc' \notin {"map", "class", "aborted"},
           \A symbol : GMockAccounted(symbol) => GMockAccounted(symbol)',
           \/ UNCHANGED out
           \/ \E item :
                /\ Write(item)
                /\ \A symbol \in item.declares :
                     /\ GMockAccounted(symbol)'
                     /\ Distinguishable /\ ListedOnce => symbol \notin Declared
    PROVE  GMockOnce'
<1>1. (Distinguishable' <=> Distinguishable) /\ (ListedOnce' <=> ListedOnce)
  BY DistinguishableKept DEF contextVars, MapKept, ListedOnce
<1>2. CASE UNCHANGED out
  BY <1>1, <1>2, SameOnce DEF GMockOnce
<1>3. ASSUME NEW item, Write(item),
             \A symbol \in item.declares :
                  /\ GMockAccounted(symbol)'
                  /\ Distinguishable /\ ListedOnce => symbol \notin Declared
      PROVE  GMockOnce'
  <2>1. Declared' = Declared \cup item.declares
    BY <1>3, WrittenDeclares
  <2>2. Distinguishable /\ ListedOnce => DeclaredOnce'
    BY <1>3, WrittenOnce DEF GMockOnce
  <2> QED
    BY <1>1, <1>3, <2>1, <2>2 DEF GMockOnce
<1> QED
  BY <1>2, <1>3

\* What a loop declares for an entry it has not passed is new.
LEMMA LoopSymbolNew ==
    ASSUME IInv, ItemInv, GMockOnce, Looping, Distinguishable, next \in DOMAIN order,
           order \in Seq(DOMAIN Map), requiresPointerVariable(order[next], Map[order[next]])
    PROVE  LoopSymbol(pc, order[next]) \notin Declared
<1> SUFFICES ASSUME GMockAccounted(LoopSymbol(pc, order[next])) PROVE FALSE
  BY DEF GMockOnce, Looping
<1> PICK p, c : p = pc /\ c = order[next]
  OBVIOUS
<1>0. /\ p \in DOMAIN After /\ p \in {"definitions", "setup", "teardown", "variables"}
      /\ KeysInv /\ Built /\ c \in DOMAIN Map /\ c \in Context /\ NoRepetition(order)
      /\ requiresPointerVariable(c, Map[c])
  <2>1. p \in {"definitions", "setup", "teardown", "variables"}
    BY DEF Looping
  <2>2. KeysInv /\ Built /\ DOMAIN Map \subseteq Context /\ NoRepetition(order)
    BY <2>1 DEF IInv, StackInv, TypeOK, ContextsTypeOK, ItemInv, GMockOnce
  <2>3. c \in DOMAIN Map
    OBVIOUS
  <2>4. p \in DOMAIN After
    BY <2>1, LoopTags
  <2> QED
    BY <2>1, <2>2, <2>3, <2>4
<1>1. LoopSymbol(p, c)[1] \in {"definition", "set up", "tear down", "member"}
  BY <1>0, LoopTags
<1>2. PICK q \in DOMAIN After, n \in DOMAIN order :
        /\ LoopPassed(q, n) /\ requiresPointerVariable(order[n], Map[order[n]])
        /\ LoopSymbol(p, c) = LoopSymbol(q, order[n])
  BY <1>1 DEF GMockAccounted
<1>3. q = p
  <2>1. LoopSymbol(p, c)[1] = LoopSymbol(q, order[n])[1]
    BY <1>2
  <2>2. q \in {"definitions", "setup", "teardown", "variables"}
    BY <1>2, LoopTags
  <2>3. CASE p = "definitions"
    BY <2>1, <2>2, <2>3, LoopTags
  <2>4. CASE p = "setup"
    BY <2>1, <2>2, <2>4, LoopTags
  <2>5. CASE p = "teardown"
    BY <2>1, <2>2, <2>5, LoopTags
  <2>6. CASE p = "variables"
    BY <2>1, <2>2, <2>6, LoopTags
  <2> QED
    BY <1>0, <2>3, <2>4, <2>5, <2>6
<1> PICK d : d = order[n]
  OBVIOUS
<1>4. n < next /\ d \in DOMAIN Map /\ d \in Context /\ n \in Nat /\ next \in Nat
  <2>1. p \notin After[p]
    BY <1>0 DEF After, AfterLoops
  <2> QED
    BY <1>2, <1>3, <2>1 DEF LoopPassed, IInv, TypeOK, ContextsTypeOK
<1>5. isGlobalContext(c) /\ isGlobalContext(d)
  BY <1>0, <1>2 DEF requiresPointerVariable
<1>6. WalkPath[c] = WalkPath[d]
  <2>0. AccessPath(c) = WalkPath[c] /\ AccessPath(d) = WalkPath[d]
    <3>1. {c, d} \subseteq NamedContext
      BY <1>0, <1>4 DEF Distinguishable, KeysInv
    <3> QED
      BY <1>0, <1>4, <1>5, <3>1, GlobalPath, CastsValid
  <2>1. CASE p # "variables"
    BY <1>0, <1>2, <1>3, <2>0, <2>1 DEF LoopSymbol, Definition, SetUp, TearDown
  <2>2. CASE p = "variables"
    <3> DEFINE name(x) == IF x = TranslationUnit THEN <<"_">> ELSE <<Identifier[x]>>
    <3>1. name(c) = name(d)
      BY <1>2, <1>3, <2>2 DEF LoopSymbol, Member
    <3>2. \A x \in {c, d} : x # TranslationUnit => name(x) # <<"_">>
      BY <1>0, <1>4, <1>5 DEF Distinguishable, NamesApart
    <3>3. CASE c = TranslationUnit
      BY <3>1, <3>2, <3>3
    <3>4. CASE d = TranslationUnit
      BY <3>1, <3>2, <3>4
    <3>5. CASE c # TranslationUnit /\ d # TranslationUnit
      <4>1. <<Identifier[c]>> = <<Identifier[d]>>
        BY <3>1, <3>5
      <4> QED
        BY <1>0, <1>4, <1>5, <3>5, <4>1, GlobalPath
    <3> QED
      BY <3>3, <3>4, <3>5
  <2> QED
    BY <2>1, <2>2
<1>7. c = d
  BY <1>0, <1>4, <1>6, PathInjective
<1>8. n = next
  BY <1>0, <1>2, <1>7 DEF NoRepetition
<1> QED
  BY <1>4, <1>8

LEMMA EntryOnce == ASSUME IInv, ItemInv, GMockOnce, WriteEntry PROVE GMockOnce'
<1>0. /\ Looping /\ UNCHANGED <<contextVars, VarDecls, pc, order>>
      /\ next' = next + 1 /\ Buffer /\ FinishedInv /\ LoopInv
      /\ pc \in {"definitions", "setup", "teardown", "variables"}
  BY DEF WriteEntry, Looping, ItemInv, BufferInv
<1>1. /\ next \in Nat \ {0} /\ next \in DOMAIN order /\ order \in Seq(DOMAIN Map)
      /\ order[next] \in DOMAIN Map /\ order[next] \in Context
  BY <1>0 DEF WriteEntry, FinishedInv, IInv, TypeOK, ContextsTypeOK
<1>2. \A p, n : n \in Nat /\ LoopPassed(p, n) => LoopPassed(p, n)'
  BY <1>0, <1>1 DEF LoopPassed
<1>3. \A symbol : GMockAccounted(symbol) => GMockAccounted(symbol)'
  <2>1. \A n \in DOMAIN order : n \in Nat
    BY <1>1
  <2>2. \A list : /\ Progress(list, "functions", {"globals", "main", "done"}) = {}
                  /\ Progress(list, "globals", {"main", "done"}) = {}
    BY <1>0 DEF Progress
  <2> SUFFICES ASSUME NEW symbol, GMockAccounted(symbol) PROVE GMockAccounted(symbol)'
    OBVIOUS
  <2>3. CASE \E p \in DOMAIN After : \E n \in DOMAIN order :
                /\ LoopPassed(p, n) /\ requiresPointerVariable(order[n], Map[order[n]])
                /\ symbol = LoopSymbol(p, order[n])
    <3>1. \E p \in DOMAIN After : \E n \in DOMAIN order :
                /\ LoopPassed(p, n)' /\ requiresPointerVariable(order[n], Map[order[n]])
                /\ symbol = LoopSymbol(p, order[n])
      BY <1>2, <2>1, <2>3
    <3> QED
      BY <1>0, <3>1 DEF GMockAccounted, contextVars
  <2> QED
    BY <1>0, <2>2, <2>3 DEF GMockAccounted
<1> PICK c : c = order[next]
  OBVIOUS
<1>4. CASE requiresPointerVariable(c, Map[c])
  <2>1. Write(LoopItem(c)) /\ LoopItem(c).declares = {LoopSymbol(pc, c)}
    BY <1>0, <1>1, <1>4, LoopItemSymbols DEF WriteEntry, ItemInv
  <2>3. Distinguishable => LoopSymbol(pc, c) \notin Declared
    BY <1>0, <1>1, <1>4, LoopSymbolNew
  <2> PICK item : item = LoopItem(c)
    OBVIOUS
  <2>4. Write(item) /\ \A symbol \in item.declares :
            /\ GMockAccounted(symbol)'
            /\ Distinguishable /\ ListedOnce => symbol \notin Declared
    <3> SUFFICES ASSUME NEW symbol, symbol = LoopSymbol(pc, c)
                 PROVE  GMockAccounted(symbol)' /\ (Distinguishable => symbol \notin Declared)
      BY <2>1 DEF Write
    <3> PICK p, n : p = pc /\ n = next
      OBVIOUS
    <3>1. p \in DOMAIN After
      BY <1>0, LoopTags
    <3>2. n \in DOMAIN order /\ LoopPassed(p, n)'
      BY <1>0, <1>1 DEF LoopPassed
    <3>3. symbol = LoopSymbol(p, order[n]) /\ requiresPointerVariable(order[n], Map[order[n]])
      BY <1>4
    <3> QED
      BY <1>0, <2>3, <3>1, <3>2, <3>3 DEF GMockAccounted, contextVars
  <2> QED
    BY <1>0, <1>3, <2>4, LaterOnce
<1>5. CASE ~requiresPointerVariable(c, Map[c])
  <2>1. UNCHANGED out
    BY <1>5 DEF WriteEntry
  <2> QED
    BY <1>0, <1>3, <2>1, LaterOnce
<1> QED
  BY <1>4, <1>5

\* A step that writes nothing, when the part of run() ends.
LEMMA EndLoopOnce == ASSUME IInv, ItemInv, GMockOnce, EndLoop PROVE GMockOnce'
<1>0. /\ pc \in {"definitions", "setup", "teardown", "variables"}
      /\ pc' = Successor[pc] /\ next' = 1 /\ Buffer /\ FinishedInv
      /\ UNCHANGED <<contextVars, VarDecls, order, out>>
      /\ next > Len(order)
  BY DEF EndLoop, Looping, ItemInv, BufferInv
<1>1. pc' \in {"setup", "teardown", "variables", "functions"}
  BY <1>0 DEF Successor
<1>2. \A p \in DOMAIN After : \A n \in DOMAIN order : LoopPassed(p, n) => LoopPassed(p, n)'
  <2> SUFFICES ASSUME NEW p \in DOMAIN After, NEW n \in DOMAIN order, LoopPassed(p, n)
               PROVE  pc' \in After[p]
    BY DEF LoopPassed
  <2>1. p = pc \/ pc \in After[p]
    BY DEF LoopPassed
  <2> QED
    BY <1>0, <2>1 DEF Successor, After, AfterLoops
<1>3. /\ Progress(FunctionDecls, "functions", {"globals", "main", "done"}) = {}
      /\ Progress(VarDecls, "globals", {"main", "done"}) = {}
  BY <1>0 DEF Progress
<1>4. \A symbol : GMockAccounted(symbol) => GMockAccounted(symbol)'
  <2> SUFFICES ASSUME NEW symbol, GMockAccounted(symbol) PROVE GMockAccounted(symbol)'
    OBVIOUS
  <2>1. CASE \E p \in DOMAIN After : \E n \in DOMAIN order :
                /\ LoopPassed(p, n) /\ requiresPointerVariable(order[n], Map[order[n]])
                /\ symbol = LoopSymbol(p, order[n])
    <3>1. \E p \in DOMAIN After : \E n \in DOMAIN order :
                /\ LoopPassed(p, n)' /\ requiresPointerVariable(order[n], Map[order[n]])
                /\ symbol = LoopSymbol(p, order[n])
      BY <1>2, <2>1
    <3> QED
      BY <1>0, <3>1 DEF GMockAccounted, contextVars
  <2>2. CASE symbol[1] = "header" \/ symbol[1] \in {"framework", "va_list", "CCMOCK_LINKAGE", "class", "method", "pointer"}
    BY <1>1, <2>2 DEF GMockAccounted
  <2> QED
    BY <1>0, <1>3, <2>1, <2>2 DEF GMockAccounted
<1> QED
  BY <1>0, <1>1, <1>4, LaterOnce

\* Once the loops over the map are over, they have passed everything.
LEMMA AccountedAfterLoops ==
    ASSUME pc \in AfterLoops, pc' \in AfterLoops, UNCHANGED <<contextVars, order>>,
           pc = "done" => pc' = "done",
           Progress(FunctionDecls, "functions", {"globals", "main", "done"})
              \subseteq Progress(FunctionDecls, "functions", {"globals", "main", "done"})',
           Progress(VarDecls, "globals", {"main", "done"})
              \subseteq Progress(VarDecls, "globals", {"main", "done"})'
    PROVE  \A symbol : GMockAccounted(symbol) => GMockAccounted(symbol)'
<1> SUFFICES ASSUME NEW symbol, GMockAccounted(symbol) PROVE GMockAccounted(symbol)'
  OBVIOUS
<1>1. \A p \in DOMAIN After : \A n : LoopPassed(p, n)'
  BY DEF LoopPassed, After
<1>2. CASE \E p \in DOMAIN After : \E n \in DOMAIN order :
              /\ LoopPassed(p, n) /\ requiresPointerVariable(order[n], Map[order[n]])
              /\ symbol = LoopSymbol(p, order[n])
  <2>1. \E p \in DOMAIN After : \E n \in DOMAIN order :
              /\ LoopPassed(p, n)' /\ requiresPointerVariable(order[n], Map[order[n]])
              /\ symbol = LoopSymbol(p, order[n])
    BY <1>1, <1>2
  <2> QED
    BY <2>1 DEF GMockAccounted, contextVars
<1>3. pc' # "map"
  BY DEF AfterLoops
<1> QED
  BY <1>2, <1>3 DEF GMockAccounted

\* The positions of the loops over the lists.
LEMMA ListProgress ==
    ASSUME TypeOK, VarDecls \in Seq(VarDecl)
    PROVE  /\ Before(FunctionDecls, 1) = {} /\ Before(VarDecls, 1) = {}
           /\ next > Len(FunctionDecls) => Before(FunctionDecls, next) = Range(FunctionDecls)
           /\ next > Len(VarDecls) => Before(VarDecls, next) = Range(VarDecls)
           /\ next <= Len(FunctionDecls) =>
                /\ Before(FunctionDecls, next + 1)
                     = Before(FunctionDecls, next) \cup {FunctionDecls[next]}
                /\ ListedOnce => FunctionDecls[next] \notin Before(FunctionDecls, next)
           /\ next <= Len(VarDecls) =>
                /\ Before(VarDecls, next + 1) = Before(VarDecls, next) \cup {VarDecls[next]}
                /\ ListedOnce => VarDecls[next] \notin Before(VarDecls, next)
<1>1. FunctionDecls \in Seq(FunctionDecl) /\ next \in Nat \ {0}
  BY ListAssumption DEF TypeOK, ContextsTypeOK
<1>2. /\ next <= Len(FunctionDecls) => next \in DOMAIN FunctionDecls
      /\ next <= Len(VarDecls) => next \in DOMAIN VarDecls
  BY <1>1
<1>3. /\ ListedOnce /\ next \in DOMAIN FunctionDecls =>
              FunctionDecls[next] \notin Before(FunctionDecls, next)
      /\ ListedOnce /\ next \in DOMAIN VarDecls => VarDecls[next] \notin Before(VarDecls, next)
  BY <1>1, NotBefore DEF ListedOnce
<1>4. /\ Before(FunctionDecls, 1) = {}
      /\ next > Len(FunctionDecls) => Before(FunctionDecls, next) = Range(FunctionDecls)
      /\ next <= Len(FunctionDecls) =>
           Before(FunctionDecls, next + 1) = Before(FunctionDecls, next) \cup {FunctionDecls[next]}
  BY <1>1, BeforeNext
<1>5. /\ Before(VarDecls, 1) = {}
      /\ next > Len(VarDecls) => Before(VarDecls, next) = Range(VarDecls)
      /\ next <= Len(VarDecls) =>
           Before(VarDecls, next + 1) = Before(VarDecls, next) \cup {VarDecls[next]}
  BY <1>1, BeforeNext
<1> QED
  BY <1>2, <1>3, <1>4, <1>5

LEMMA FunctionOnce ==
    ASSUME IInv, ItemInv, GMockOnce, VarDecls \in Seq(VarDecl), WriteFunction
    PROVE  GMockOnce'
<1> PICK f, item : f = FunctionDecls[next] /\ item = FunctionItem(f)
  OBVIOUS
<1>0. /\ pc = "functions" /\ pc' = pc /\ next' = next + 1 /\ next <= Len(FunctionDecls)
      /\ UNCHANGED <<contextVars, FunctionDecls, VarDecls, order>>
      /\ Write(item) /\ Buffer /\ TypeOK
  BY DEF WriteFunction, contextVars, IInv, ItemInv, BufferInv
<1>1. Progress(FunctionDecls, "functions", {"globals", "main", "done"})'
        = Progress(FunctionDecls, "functions", {"globals", "main", "done"}) \cup {f}
  BY <1>0, ListProgress DEF Progress
<1>2. ListedOnce => f \notin Progress(FunctionDecls, "functions", {"globals", "main", "done"})
  BY <1>0, ListProgress DEF Progress
<1>3. \A symbol : GMockAccounted(symbol) => GMockAccounted(symbol)'
  <2>1. Progress(VarDecls, "globals", {"main", "done"}) = {}
    BY <1>0 DEF Progress
  <2> QED
    BY <1>0, <1>1, <2>1, AccountedAfterLoops DEF AfterLoops
<1>4. \A symbol \in item.declares : symbol[1] \in {"body", "local"} /\ symbol[2] = f
  BY SymbolNames DEF FunctionItem, Item, ParameterLocals
<1>5. ASSUME NEW symbol \in item.declares
      PROVE  GMockAccounted(symbol)' /\ (ListedOnce => symbol \notin Declared)
  <2>1. GMockAccounted(symbol)'
    BY <1>1, <1>4 DEF GMockAccounted
  <2>2. GMockAccounted(symbol) =>
          f \in Progress(FunctionDecls, "functions", {"globals", "main", "done"})
    <3>1. \A p \in DOMAIN After : \A c : symbol # LoopSymbol(p, c)
      BY <1>4, LoopTags
    <3> QED
      BY <1>4, <3>1 DEF GMockAccounted
  <2> QED
    BY <1>0, <1>2, <2>1, <2>2 DEF GMockOnce
<1> QED
  BY <1>0, <1>3, <1>5, LaterOnce

LEMMA GlobalOnce ==
    ASSUME IInv, ItemInv, GMockOnce, VarDecls \in Seq(VarDecl), WriteGlobalVariable,
           UNCHANGED order
    PROVE  GMockOnce'
<1> PICK v, item : v = VarDecls[next] /\ item = GlobalVariableItem(v)
  OBVIOUS
<1>0. /\ pc = "globals" /\ pc' = pc /\ next' = next + 1 /\ next <= Len(VarDecls)
      /\ UNCHANGED <<contextVars, FunctionDecls, VarDecls, order>>
      /\ Write(item) \/ UNCHANGED out
      /\ Buffer /\ TypeOK
  BY DEF WriteGlobalVariable, contextVars, IInv, ItemInv, BufferInv
<1>1. Progress(VarDecls, "globals", {"main", "done"})'
        = Progress(VarDecls, "globals", {"main", "done"}) \cup {v}
  BY <1>0, ListProgress DEF Progress
<1>2. ListedOnce => v \notin Progress(VarDecls, "globals", {"main", "done"})
  BY <1>0, ListProgress DEF Progress
<1>3. \A symbol : GMockAccounted(symbol) => GMockAccounted(symbol)'
  <2>1. Progress(FunctionDecls, "functions", {"globals", "main", "done"})'
          = Progress(FunctionDecls, "functions", {"globals", "main", "done"})
    BY <1>0 DEF Progress
  <2> QED
    BY <1>0, <1>1, <2>1, AccountedAfterLoops DEF AfterLoops
<1>4. \A symbol \in item.declares : symbol[1] = "variable" /\ symbol[2] = v
  BY SymbolNames DEF GlobalVariableItem, Item
<1>5. ASSUME NEW symbol \in item.declares
      PROVE  GMockAccounted(symbol)' /\ (ListedOnce => symbol \notin Declared)
  <2>1. GMockAccounted(symbol)'
    BY <1>1, <1>4 DEF GMockAccounted
  <2>2. GMockAccounted(symbol) => v \in Progress(VarDecls, "globals", {"main", "done"})
    <3>1. \A p \in DOMAIN After : \A c : symbol # LoopSymbol(p, c)
      BY <1>4, LoopTags
    <3> QED
      BY <1>4, <3>1 DEF GMockAccounted
  <2> QED
    BY <1>0, <1>2, <2>1, <2>2 DEF GMockOnce
<1> QED
  BY <1>0, <1>3, <1>5, LaterOnce

LEMMA LastOnce ==
    ASSUME IInv, ItemInv, GMockOnce, VarDecls \in Seq(VarDecl),
           \/ EndFunctions \/ Finish
           \/ EndGlobalVariables("main") /\ UNCHANGED <<stack, order>>
    PROVE  GMockOnce'
<1>0. /\ <<pc, pc'>> \in {<<"functions", "globals">>, <<"globals", "main">>, <<"main", "done">>}
      /\ pc = "functions" => next > Len(FunctionDecls) /\ next' = 1
      /\ pc = "globals" => next > Len(VarDecls)
      /\ UNCHANGED <<contextVars, FunctionDecls, VarDecls, order>> /\ Buffer /\ TypeOK
  BY DEF EndFunctions, EndGlobalVariables, Finish, contextVars, IInv, ItemInv, BufferInv
<1>1. \A symbol : GMockAccounted(symbol) => GMockAccounted(symbol)'
  <2>1. /\ Progress(FunctionDecls, "functions", {"globals", "main", "done"})'
             = Progress(FunctionDecls, "functions", {"globals", "main", "done"})
        /\ Progress(VarDecls, "globals", {"main", "done"})'
             = Progress(VarDecls, "globals", {"main", "done"})
    BY <1>0, ListProgress DEF Progress
  <2> QED
    BY <1>0, <2>1, AccountedAfterLoops DEF AfterLoops
<1>2. CASE pc = "main" /\ Write(MainItem)
  <2> PICK item : item = MainItem
    OBVIOUS
  <2>1. Write(item) /\ \A symbol \in item.declares : symbol[1] = "main" /\ pc' = "done"
    BY <1>0, <1>2 DEF MainItem, Item, Write
  <2>2. ASSUME NEW symbol \in item.declares
        PROVE  GMockAccounted(symbol)' /\ symbol \notin Declared
    <3>1. \A p \in DOMAIN After : \A c : symbol # LoopSymbol(p, c)
      BY <2>1, LoopTags
    <3>2. ~GMockAccounted(symbol)
      BY <1>2, <2>1, <3>1 DEF GMockAccounted
    <3> QED
      BY <1>2, <2>1, <3>2 DEF GMockOnce, GMockAccounted
  <2> QED
    BY <1>0, <1>1, <2>1, <2>2, LaterOnce
<1>3. CASE UNCHANGED out
  BY <1>0, <1>1, <1>3, LaterOnce
<1> QED
  BY <1>2, <1>3 DEF EndFunctions, EndGlobalVariables, Finish

LEMMA GMockOnceStep ==
    ASSUME IInv, ItemInv, GMockOnce, VarDecls \in Seq(VarDecl), [Next]_vars
    PROVE  GMockOnce'
<1>1. CASE UNCHANGED vars
  <2>1. (DeclaredOnce' <=> DeclaredOnce) /\ Declared' = Declared
    BY <1>1, SameOnce DEF vars, generatorVars
  <2>2. \A symbol : GMockAccounted(symbol) => GMockAccounted(symbol)'
    BY <1>1 DEF vars, generatorVars, contextVars, GMockAccounted, LoopPassed, Progress
  <2>3. (Distinguishable' <=> Distinguishable) /\ (ListedOnce' <=> ListedOnce)
    BY <1>1, DistinguishableKept DEF vars, generatorVars, contextVars, MapKept, ListedOnce
  <2>4. WalkOnce' <=> WalkOnce
    <3> USE DEF vars, generatorVars, contextVars
    <3>1. (CallsDistinct' <=> CallsDistinct) /\ (PointersNew' <=> PointersNew)
      BY <1>1, <2>1 DEF CallsDistinct, PointersNew, Pointer
    <3>2. ChildrenNew' <=> ChildrenNew
      BY <1>1, <2>1 DEF ChildrenNew, ChildNew, ChildSymbol, Class, Method, Signature
    <3>3. ClassFirst' <=> ClassFirst
      BY <1>1, <2>1 DEF ClassFirst, ChildNew, ChildSymbol, Class, Method, Pointer, Signature
    <3> QED
      BY <3>1, <3>2, <3>3 DEF WalkOnce
  <2> QED
    BY <1>1, <2>1, <2>2, <2>3, <2>4 DEF vars, generatorVars, GMockOnce
<1>2. CASE AbortAtEntry \/ AbortAtFunction
  <2>1. /\ pc \notin {"map", "class"} /\ pc' = "aborted"
        /\ UNCHANGED <<contextVars, VarDecls, order, out>>
    BY <1>2 DEF AbortAtEntry, AbortAtFunction, Abort, Looping
  <2>2. DeclaredOnce' <=> DeclaredOnce
    BY <2>1, SameOnce
  <2>3. (Distinguishable' <=> Distinguishable) /\ (ListedOnce' <=> ListedOnce)
    BY <2>1, DistinguishableKept DEF contextVars, MapKept, ListedOnce
  <2> QED
    BY <2>1, <2>2, <2>3 DEF GMockOnce
<1> QED
  BY <1>1, <1>2, MapOnce, StartOnce, NestedOnce, MethodOnce, CloseOnce, EndClassOnce,
     EntryOnce, EndLoopOnce, FunctionOnce, GlobalOnce, LastOnce
  DEF Next, Terminated, WriteGlobals

LEMMA GMockOnceInit == Init => GMockOnce
<1> SUFFICES ASSUME Init PROVE GMockOnce
  OBVIOUS
<1>1. out = <<>> /\ pc = "map"
  BY DEF Init, InitGenerator
<1>2. DOMAIN out = {} /\ Declared = {}
  BY <1>1 DEF Declared, DeclaredBy
<1> QED
  BY <1>1, <1>2 DEF GMockOnce, DeclaredOnce

\* GMock declares no class, method, pointer, fixture member or function twice,
\* as long as the contexts in one context have names of their own, the functions
\* in it signatures of their own (MOCK_METHOD is written without their
\* qualifiers) and no outermost context is called like the fixture's member for
\* the translation unit.
THEOREM GMockDeclaresOnce == Spec => [](ListedOnce /\ NamesApart => DeclaresOnce)
<1>1. Init => IInv /\ ItemInv /\ GMockOnce /\ VarDecls \in Seq(VarDecl)
  BY IInvInit, ItemInit, GMockOnceInit, VariableAssumption DEF Init, InitGenerator
<1>2. VarDecls \in Seq(VarDecl) /\ [Next]_vars => (VarDecls \in Seq(VarDecl))'
  BY DEF Next, MapStep, StartMockClass, StartWalk, WriteNestedClass, Enter, WriteMockMethod,
     Visit, CloseClass, Leave, EndMockClass, WriteEntry, EndLoop, WriteFunction, EndFunctions,
     AbortAtEntry, AbortAtFunction, Abort, WriteGlobals, WriteGlobalVariable, EndGlobalVariables, Finish, Terminated,
     vars, generatorVars, lists
<1>3. GMockOnce => (ListedOnce /\ NamesApart => DeclaresOnce)
  BY DEF GMockOnce, Distinguishable, DeclaresOnce
<1> QED
  BY <1>1, <1>2, <1>3, ItemsKeep, GMockOnceStep, PTL DEF Spec
=============================================================================
