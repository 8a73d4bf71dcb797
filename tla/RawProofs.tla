----------------------------- MODULE RawProofs -----------------------------
(***************************************************************************)
(* Theorems about the walk of the backend Raw: the access that a compiler  *)
(* gives to the functions of the output, and which functions it declares.  *)
(***************************************************************************)
EXTENDS Raw, OutputProofs

Specifier == {"private", "protected", "public"}

\* A declaration in the map or on the stack stands below the context k.
Below(x, k) ==
    /\ x \in DeclContext \ {TranslationUnit}
    /\ k = PrimaryParent(x)
    /\ x \in Context => Primary[x] = x

MapLinked ==
    /\ parent = NoContext \/
           /\ child \in DeclContext /\ parent = Parent[child]
           /\ child \in Context => Primary[child] = child
    /\ \A k \in DOMAIN Map : \A x \in Map[k] : Below(x, k)

FrameSet == [context : Context, children : SUBSET DeclContext]

\* The active calls are for contexts that stand in one another.
StackLinked ==
    /\ stack \in Seq(FrameSet)
    /\ \A i \in DOMAIN stack :
          /\ Kind[stack[i].context] \in ClassKind
          /\ \A x \in stack[i].children : Below(x, stack[i].context)
          /\ i > 1 => Below(stack[i].context, stack[i - 1].context)

\* Each call has an access: a specifier in a record, none elsewhere.
ScopesTyped ==
    /\ scopes \in Seq(Specifier \cup {"none"}) /\ Len(scopes) = Len(stack)
    /\ \A i \in DOMAIN stack :
          scopes[i] \in IF Kind[stack[i].context] = "CXXRecord" THEN Specifier ELSE {"none"}

IsRecord(i) == Kind[stack[i].context] = "CXXRecord"

\* The access remembered is none outside records; in a record that does not
\* stand in one it is none or the one in effect.
AccessRemembered ==
    stack # <<>> =>
        LET n == Len(stack)
        IN  /\ ~IsRecord(n) => CurrentAccess = "none"
            /\ IsRecord(n) /\ ~(n > 1 /\ IsRecord(n - 1)) => CurrentAccess \in {"none", scopes[n]}

RawInv ==
    /\ pc \in {"map", "class", "done"}
    /\ pc = "map" => stack = <<>> /\ scopes = <<>> /\ CurrentAccess = "none"
    /\ pc = "done" => stack = <<>>
    /\ FunctionDecls \in Seq(FunctionDecl) /\ index \in Nat \ {0}
    /\ Buffer
    /\ MapLinked /\ StackLinked /\ ScopesTyped
    /\ CurrentAccess \in Specifier \cup {"none"}
    /\ AccessRemembered
    /\ \A i \in DOMAIN stack : Opened(stack[i].context) \in Declared
    /\ DeclaredBeforeUse
    /\ AccessFaithful

\* A function has a kind of its own.
LEMMA FunctionsApart ==
    ASSUME NEW x \in DeclContext, Kind[x] \in ClassKind
    PROVE  x \in Context
BY KindAssumption DEF DeclContext, FunctionKind, ClassKind

LEMMA MapLinks ==
    ASSUME MapLinked, FunctionDecls \in Seq(FunctionDecl), index \in Nat \ {0},
           CreateContextMap
    PROVE  MapLinked' /\ UNCHANGED FunctionDecls /\ index' \in Nat \ {0}
<1>1. CASE NextFunction
  <2>1. FunctionDecls[index] \in FunctionDecl
    BY <1>1 DEF NextFunction
  <2>2. child' \in DeclContext /\ parent' = Parent[child'] /\ child' \notin Context
    BY <1>1, <2>1, ContextAssumption DEF NextFunction, DeclContext
  <2> QED
    BY <1>1, <2>2 DEF NextFunction, MapLinked, Below, PrimaryParent
<1>2. CASE Climb
  <2> DEFINE p == Primary[parent]
  <2>1. child \in DeclContext \ {TranslationUnit} /\ parent = Parent[child] /\ parent # NoContext
        /\ (child \in Context => Primary[child] = child)
    BY <1>2, ContextAssumption DEF Climb, MapLinked
  <2>2. parent \in Context /\ p \in Context /\ Primary[p] = p /\ p = PrimaryParent(child)
    BY <2>1, ContextAssumption, PrimaryAssumption DEF PrimaryParent
  <2>3. Below(child, p)
    BY <2>1, <2>2 DEF Below
  <2>4. Map' = Inserted(p, child) /\ child' = p /\ parent' = Parent[p]
        /\ UNCHANGED <<FunctionDecls, index>>
    BY <1>2 DEF Climb
  <2>5. \A k \in DOMAIN Map' : \A x \in Map'[k] : Below(x, k)
    BY <2>3, <2>4 DEF Inserted, Children, MapLinked
  <2>6. \A x, k : Below(x, k)' <=> Below(x, k)
    BY DEF Below
  <2> QED
    BY <2>2, <2>4, <2>5, <2>6 DEF MapLinked, DeclContext
<1> QED
  BY <1>1, <1>2 DEF CreateContextMap

\* A lookup adds at most an empty entry.
LEMMA LookedUpLinked ==
    ASSUME MapLinked, NEW c, Map' = LookedUp(c), UNCHANGED <<child, parent>>
    PROVE  MapLinked' /\ \A x \in Children(c) : Below(x, c)
<1>1. \A x \in Children(c) : Below(x, c)
  BY DEF Children, MapLinked
<1>2. \A k \in DOMAIN Map' : \A x \in Map'[k] : Below(x, k)
  BY DEF LookedUp, Children, MapLinked
<1>3. \A x, k : Below(x, k)' <=> Below(x, k)
  BY DEF Below
<1> QED
  BY <1>1, <1>2, <1>3 DEF MapLinked

\* Taking a child changes the active call alone.
LEMMA TakenChild ==
    ASSUME StackLinked, stack # <<>>, NEW c
    PROVE  /\ Len(stack) \in DOMAIN stack /\ Active = stack[Len(stack)]
           /\ WithoutChild(c) \in Seq(FrameSet)
           /\ Len(WithoutChild(c)) = Len(stack)
           /\ \A i \in DOMAIN stack :
                 /\ WithoutChild(c)[i].context = stack[i].context
                 /\ WithoutChild(c)[i].children \subseteq stack[i].children
                 /\ WithoutChild(c)[i].children =
                       IF i = Len(stack) THEN stack[i].children \ {c} ELSE stack[i].children
<1>1. stack \in Seq(FrameSet) /\ Len(stack) \in DOMAIN stack
  BY DEF StackLinked
<1> DEFINE top == stack[Len(stack)]
           rest == [top EXCEPT !.children = @ \ {c}]
<1>2. top \in FrameSet
  BY <1>1
<1>3. /\ rest \in FrameSet /\ rest.context = top.context
      /\ rest.children = top.children \ {c}
  BY <1>2 DEF FrameSet
<1>4. WithoutChild(c) = [stack EXCEPT ![Len(stack)] = rest]
  BY <1>1 DEF WithoutChild
<1> HIDE DEF rest
<1>5. WithoutChild(c) \in Seq(FrameSet) /\ Len(WithoutChild(c)) = Len(stack)
  BY <1>1, <1>3, <1>4
<1>6. \A i \in DOMAIN stack : WithoutChild(c)[i] = IF i = Len(stack) THEN rest ELSE stack[i]
  BY <1>1, <1>4
<1> QED
  BY <1>1, <1>3, <1>5, <1>6 DEF Active

\* An item with the right accesses that uses what is declared.
LEMMA FaithfulWritten ==
    ASSUME RawInv, NEW item, Write(item), UNCHANGED FunctionDecls,
           item.uses \subseteq Declared,
           \A f \in FunctionDecl : \A a :
                Granted(f, a) \in item.declares /\ ~Nested(f) => a = Access[f]
    PROVE  /\ Buffer' /\ AccessFaithful' /\ DeclaredBeforeUse'
           /\ Declared' = Declared \cup item.declares
<1>1. /\ Buffer' /\ DeclaredBeforeUse'
      /\ Declared' = Declared \cup item.declares
  BY Written, WrittenUses DEF RawInv
<1>3. \A f \in Range(FunctionDecls) : f \in FunctionDecl
  BY DEF Range, RawInv
<1>4. ASSUME NEW f \in Range(FunctionDecls),
             NEW a \in {"none", "private", "protected", "public"},
             Granted(f, a) \in Declared', ~Nested(f)
      PROVE  a = Access[f]
  <2>1. CASE Granted(f, a) \in Declared
    BY <1>4, <2>1 DEF RawInv, AccessFaithful
  <2>2. CASE Granted(f, a) \in item.declares
    BY <1>3, <1>4, <2>2
  <2> QED
    BY <1>1, <1>4, <2>1, <2>2
<1>5. AccessFaithful'
  BY <1>4 DEF AccessFaithful, Granted, Nested
<1> QED
  BY <1>1, <1>5

LEMMA AccessKept ==
    ASSUME AccessFaithful, UNCHANGED <<FunctionDecls, out>> PROVE AccessFaithful'
<1>1. Declared' = Declared
  BY DEF Declared, DeclaredBy
<1> QED
  <2>1. /\ Range(FunctionDecls)' = Range(FunctionDecls)
        /\ \A f : Nested(f)' <=> Nested(f)
    BY DEF Range, Nested
  <2> QED
    BY <1>1, <2>1 DEF AccessFaithful, Granted

LEMMA RawMapStep == ASSUME RawInv, MapStep PROVE RawInv'
<1>1. /\ pc = "map" /\ CreateContextMap
      /\ UNCHANGED <<pc, out, stack, CurrentAccess, scopes>>
  BY DEF MapStep, CreateContextMap, NextFunction, Climb, Inserted, Children
<1>2. MapLinked' /\ UNCHANGED FunctionDecls /\ index' \in Nat \ {0}
  BY <1>1, MapLinks DEF RawInv
<1>3. Buffer' /\ AccessFaithful' /\ DeclaredBeforeUse' /\ Declared' = Declared
  BY <1>1, <1>2, AccessKept, NothingWritten DEF RawInv
<1>4. StackLinked' /\ ScopesTyped' /\ AccessRemembered'
  BY <1>1 DEF RawInv, StackLinked, ScopesTyped, AccessRemembered, IsRecord, Below
<1> QED
  BY <1>1, <1>2, <1>3, <1>4 DEF RawInv

LEMMA RawStart == ASSUME ContextKinds, RawInv, VisitTranslationUnit PROVE RawInv'
<1> DEFINE item == Item({Opened(TranslationUnit)}, {})
           frame == [context |-> TranslationUnit, children |-> Children(TranslationUnit)]
<1>1. /\ pc = "map" /\ pc' = "class"
      /\ Map' = LookedUp(TranslationUnit) /\ stack' = <<frame>> /\ scopes' = <<"none">>
      /\ Write(item)
      /\ UNCHANGED <<FunctionDecls, index, child, parent, CurrentAccess>>
  BY DEF VisitTranslationUnit, StartWalk, LookedUp, Children, Frame, Write, Item, lists
<1>2. MapLinked' /\ \A x \in Children(TranslationUnit) : Below(x, TranslationUnit)
  BY <1>1, LookedUpLinked DEF RawInv
<1>3. frame \in FrameSet
  BY <1>2, ContextAssumption DEF FrameSet, Below
<1>4. Kind[TranslationUnit] = "TranslationUnit"
  BY ContextAssumption DEF ContextKinds
<1>5. /\ Buffer' /\ AccessFaithful' /\ DeclaredBeforeUse'
      /\ Opened(TranslationUnit) \in Declared'
  <2>1. \A f, a : Granted(f, a) \notin item.declares
    BY DEF Item, Granted, Opened
  <2>2. item.uses = {} /\ Opened(TranslationUnit) \in item.declares
    BY DEF Item
  <2> QED
    BY <1>1, <2>1, <2>2, FaithfulWritten
<1>6. StackLinked' /\ \A i \in DOMAIN stack' : stack'[i].context = TranslationUnit
  <2>1. \A x, k : Below(x, k)' <=> Below(x, k)
    BY DEF Below
  <2>2. stack' \in Seq(FrameSet) /\ DOMAIN stack' = {1} /\ stack'[1] = frame
    BY <1>1, <1>3
  <2> QED
    BY <1>2, <1>4, <2>1, <2>2 DEF StackLinked, ClassKind
<1>7. ScopesTyped' /\ AccessRemembered'
  BY <1>1, <1>4 DEF RawInv, ScopesTyped, AccessRemembered, IsRecord
<1> QED
  BY <1>1, <1>2, <1>5, <1>6, <1>7 DEF RawInv

\* What is known of the active call.
LEMMA RawActive ==
    ASSUME RawInv, InClass
    PROVE  /\ pc = "class" /\ stack \in Seq(FrameSet)
           /\ Len(stack) \in Nat \ {0} /\ DOMAIN stack = 1 .. Len(stack)
           /\ Active = stack[Len(stack)] /\ Active.context \in Context
           /\ \A x \in Active.children : Below(x, Active.context)
           /\ scopes \in Seq(Specifier \cup {"none"}) /\ Len(scopes) = Len(stack)
           /\ Last(scopes) = scopes[Len(stack)]
<1>1. /\ pc = "class" /\ stack \in Seq(FrameSet) /\ stack # <<>>
      /\ scopes \in Seq(Specifier \cup {"none"}) /\ Len(scopes) = Len(stack)
  BY DEF RawInv, StackLinked, ScopesTyped, InClass
<1>2. /\ Len(stack) \in Nat \ {0} /\ DOMAIN stack = 1 .. Len(stack)
      /\ Len(stack) \in DOMAIN stack
  BY <1>1
<1>3. stack[Len(stack)] \in FrameSet
  BY <1>1, <1>2
<1> QED
  BY <1>1, <1>2, <1>3 DEF RawInv, StackLinked, Active, FrameSet, Last

LEMMA RawEnter == ASSUME ContextKinds, RawInv, VisitContext PROVE RawInv'
<1> PICK n : n = Len(stack)
  OBVIOUS
<1>0. /\ pc = "class" /\ stack \in Seq(FrameSet) /\ stack # <<>>
      /\ n \in Nat \ {0} /\ DOMAIN stack = 1 .. n
      /\ Active = stack[n] /\ Active.context \in Context
      /\ \A x \in Active.children : Below(x, Active.context)
      /\ scopes \in Seq(Specifier \cup {"none"}) /\ Len(scopes) = n
  BY RawActive DEF VisitContext, InClass
<1> PICK c \in Active.children :
       /\ Enter(c)
       /\ scopes' = Append(scopes, InitialAccess(c))
       /\ Write(Item({Opened(c)}, {Opened(Active.context)}))
       /\ UNCHANGED CurrentAccess
  BY DEF VisitContext
<1> DEFINE frame == [context |-> c, children |-> Children(c)]
           rest == WithoutChild(c)
<1>1. /\ Kind[c] \in ClassKind /\ Map' = LookedUp(c) /\ stack' = Append(rest, frame)
      /\ UNCHANGED <<FunctionDecls, index, child, parent, pc>>
  BY DEF Enter, LookedUp, Children, Frame, lists
<1>2. c \in Context /\ Below(c, stack[n].context) /\ c # TranslationUnit
  BY <1>0, <1>1, FunctionsApart DEF Below
<1>3. MapLinked' /\ \A x \in Children(c) : Below(x, c)
  BY <1>1, LookedUpLinked DEF RawInv
<1>4. frame \in FrameSet
  BY <1>2, <1>3 DEF FrameSet, Below
<1>5. /\ rest \in Seq(FrameSet) /\ Len(rest) = n
      /\ \A i \in 1 .. n : /\ rest[i].context = stack[i].context
                           /\ rest[i].children \subseteq stack[i].children
  <2>1. StackLinked
    BY DEF RawInv
  <2> QED
    BY <1>0, <2>1, TakenChild
<1> HIDE DEF rest, frame
<1>6. /\ stack' \in Seq(FrameSet) /\ Len(stack') = n + 1 /\ DOMAIN stack' = 1 .. n + 1
      /\ stack'[n + 1] = frame /\ \A i \in 1 .. n : stack'[i] = rest[i]
  BY <1>0, <1>1, <1>4, <1>5
<1>7. /\ stack'[n + 1].context = c /\ stack'[n + 1].children = Children(c)
      /\ \A i \in 1 .. n : /\ stack'[i].context = stack[i].context
                          /\ stack'[i].children \subseteq stack[i].children
      /\ \A i \in 1 .. n + 1 : i \in 1 .. n \/ i = n + 1
  <2>1. \A i \in 1 .. n + 1 : i \in 1 .. n \/ i = n + 1
    BY <1>0
  <2> QED
    BY <1>5, <1>6, <2>1 DEF frame
<1>8. /\ Buffer' /\ AccessFaithful' /\ DeclaredBeforeUse'
      /\ Declared \subseteq Declared' /\ Opened(c) \in Declared'
  <2> PICK item : item = Item({Opened(c)}, {Opened(Active.context)})
    OBVIOUS
  <2>1. /\ Write(item) /\ item.uses = {Opened(Active.context)}
        /\ item.declares = {Opened(c)}
    BY DEF Item, Write
  <2>2. item.uses \subseteq Declared
    <3>1. n \in DOMAIN stack
      BY <1>0
    <3> QED
      BY <1>0, <2>1, <3>1 DEF RawInv
  <2>3. \A f, a : Granted(f, a) \notin item.declares
    BY <2>1 DEF Granted, Opened
  <2> QED
    BY <1>1, <2>1, <2>2, <2>3, FaithfulWritten
<1>9. StackLinked'
  <2>1. \A x, k : Below(x, k)' <=> Below(x, k)
    BY DEF Below
  <2>2. ASSUME NEW i \in 1 .. n + 1
        PROVE  /\ Kind[stack'[i].context] \in ClassKind
               /\ \A x \in stack'[i].children : Below(x, stack'[i].context)
               /\ i > 1 => Below(stack'[i].context, stack'[i - 1].context)
    <3>1. CASE i \in 1 .. n
      <4>1. i > 1 => i - 1 \in 1 .. n
        BY <1>0, <3>1
      <4> QED
        BY <1>0, <1>7, <3>1, <4>1 DEF RawInv, StackLinked
    <3>2. CASE i = n + 1
      <4>1. n \in 1 .. n /\ i - 1 = n
        BY <1>0, <3>2
      <4> QED
        BY <1>1, <1>2, <1>3, <1>7, <3>2, <4>1
    <3> QED
      BY <1>7, <3>1, <3>2
  <2> QED
    BY <1>6, <2>1, <2>2 DEF StackLinked
<1>10. InitialAccess(c) \in IF Kind[c] = "CXXRecord" THEN Specifier ELSE {"none"}
  BY DEF InitialAccess, Specifier
<1>11. /\ scopes' \in Seq(Specifier \cup {"none"}) /\ Len(scopes') = n + 1
       /\ scopes'[n + 1] = InitialAccess(c)
       /\ \A i \in 1 .. n : scopes'[i] = scopes[i]
  BY <1>0, <1>10
<1>12. ScopesTyped'
  <2>1. ASSUME NEW i \in 1 .. n + 1
        PROVE  scopes'[i] \in IF Kind[stack'[i].context] = "CXXRecord" THEN Specifier
                              ELSE {"none"}
    BY <1>0, <1>7, <1>10, <1>11 DEF RawInv, ScopesTyped
  <2> QED
    BY <1>6, <1>11, <2>1 DEF ScopesTyped
<1>13. AccessRemembered'
  <2>1. stack'[n].context = stack[n].context /\ n \in 1 .. n /\ n + 1 - 1 = n /\ n + 1 > 1
    BY <1>0, <1>7
  <2>2. CASE Kind[c] = "CXXRecord" /\ Kind[stack[n].context] = "CXXRecord"
    BY <1>6, <1>7, <2>1, <2>2 DEF AccessRemembered, IsRecord
  <2>3. CASE Kind[c] = "CXXRecord" /\ Kind[stack[n].context] # "CXXRecord"
    BY <1>0, <1>6, <1>7, <2>1, <2>3 DEF RawInv, AccessRemembered, IsRecord
  <2>4. CASE Kind[c] # "CXXRecord"
    <3>1. Kind[c] = "Namespace"
      BY <1>1, <1>2, <2>4 DEF ContextKinds, ClassKind
    <3>2. Kind[stack[n].context] # "CXXRecord"
      <4>1. Parent[c] \in Context
        BY <1>2, ContextAssumption DEF DeclContext
      <4> QED
        BY <1>2, <3>1, <4>1 DEF ContextKinds, Below, PrimaryParent
    <3> QED
      BY <1>0, <1>6, <1>7, <2>4, <3>2 DEF RawInv, AccessRemembered, IsRecord
  <2> QED
    BY <2>2, <2>3, <2>4
<1>14. \A i \in DOMAIN stack' : (Opened(stack[i].context) \in Declared)'
  BY <1>0, <1>6, <1>7, <1>8 DEF RawInv, Opened
<1> QED
  BY <1>0, <1>1, <1>3, <1>8, <1>9, <1>12, <1>13, <1>14 DEF RawInv

\* A child that is no context is taken: the calls stay what they are.
LEMMA RawTaken ==
    ASSUME RawInv, InClass, NEW x \in Active.children, Visit(x)
    PROVE  /\ UNCHANGED <<FunctionDecls, index, pc>> /\ MapLinked' /\ StackLinked'
           /\ Len(stack') = Len(stack) /\ DOMAIN stack' = DOMAIN stack /\ stack' # <<>>
           /\ \A i \in DOMAIN stack : stack'[i].context = stack[i].context
<1> PICK n : n = Len(stack)
  OBVIOUS
<1>0. n \in Nat \ {0} /\ DOMAIN stack = 1 .. n /\ stack # <<>>
  BY RawActive DEF InClass
<1>1. /\ UNCHANGED <<FunctionDecls, index, child, parent, Map, pc>>
      /\ stack' = WithoutChild(x)
  BY DEF Visit, contextVars
<1> PICK rest : rest = WithoutChild(x)
  OBVIOUS
<1>2. /\ rest \in Seq(FrameSet) /\ Len(rest) = n
      /\ \A i \in 1 .. n : /\ rest[i].context = stack[i].context
                           /\ rest[i].children \subseteq stack[i].children
  <2>1. StackLinked
    BY DEF RawInv
  <2> QED
    BY <1>0, <2>1, TakenChild
<1>3. stack' = rest /\ DOMAIN stack' = 1 .. n /\ stack' # <<>>
  BY <1>0, <1>1, <1>2
<1>4. \A y, k : Below(y, k)' <=> Below(y, k)
  BY DEF Below
<1>5. MapLinked'
  BY <1>1, <1>4 DEF RawInv, MapLinked
<1>6. StackLinked'
  <2>1. \A i \in 1 .. n : i > 1 => i - 1 \in 1 .. n
    BY <1>0
  <2> QED
    BY <1>0, <1>2, <1>3, <1>4, <2>1 DEF RawInv, StackLinked
<1> QED
  BY <1>0, <1>1, <1>2, <1>3, <1>5, <1>6

\* The access a compiler gives to a function: that of the specifier written for
\* it, or the one in effect, which is the one remembered.
LEMMA RawAccess ==
    ASSUME ContextKinds, AccessOfMembers, RawInv, InClass, NEW f \in Active.children, f \in FunctionDecl
    PROVE  LET n == Len(stack)
           IN  /\ InEffect(f) \in IF IsRecord(n) THEN Specifier ELSE {"none"}
               /\ ~IsRecord(n) => Access[f] = "none"
               /\ IsRecord(n) => Access[f] \in Specifier
               /\ ~(IsRecord(n) /\ n > 1 /\ IsRecord(n - 1)) => InEffect(f) = Access[f]
               /\ ~Nested(f) => InEffect(f) = Access[f]
<1> PICK n : n = Len(stack)
  OBVIOUS
<1>0. /\ n \in Nat \ {0} /\ DOMAIN stack = 1 .. n /\ n \in 1 .. n /\ stack # <<>>
      /\ stack[n].context \in Context
      /\ Below(f, stack[n].context) /\ Last(scopes) = scopes[n]
  BY RawActive DEF InClass
<1>1. Kind[stack[n].context] \in ClassKind
  BY <1>0 DEF RawInv, StackLinked
<1>2. Parent[f] \in Context /\ stack[n].context = Primary[Parent[f]]
      /\ Kind[Parent[f]] = Kind[stack[n].context]
  BY <1>0, ContextAssumption DEF ContextKinds, Below, PrimaryParent, DeclContext
<1>3. scopes[n] \in IF IsRecord(n) THEN Specifier ELSE {"none"}
  BY <1>0 DEF RawInv, ScopesTyped, IsRecord
<1>4. /\ ~IsRecord(n) => Access[f] = "none"
      /\ IsRecord(n) => Access[f] \in Specifier
  BY <1>1, <1>2 DEF AccessOfMembers, IsRecord, ClassKind, Specifier
<1>5. InEffect(f) \in {Access[f], scopes[n]}
      /\ (Access[f] # CurrentAccess /\ Access[f] # "none" => InEffect(f) = Access[f])
      /\ (Access[f] = CurrentAccess => InEffect(f) = scopes[n])
  BY <1>0 DEF InEffect
<1>6. InEffect(f) \in IF IsRecord(n) THEN Specifier ELSE {"none"}
  BY <1>3, <1>4, <1>5
<1>7. ~(IsRecord(n) /\ n > 1 /\ IsRecord(n - 1)) => InEffect(f) = Access[f]
  <2>1. CASE ~IsRecord(n)
    BY <1>4, <1>6, <2>1
  <2>2. CASE IsRecord(n) /\ ~(n > 1 /\ IsRecord(n - 1))
    <3>1. CurrentAccess \in {"none", scopes[n]}
      BY <1>0, <2>2 DEF RawInv, AccessRemembered
    <3>2. Access[f] # "none"
      BY <1>4, <2>2 DEF Specifier
    <3> QED
      BY <1>5, <3>1, <3>2
  <2> QED
    BY <2>1, <2>2
<1>8. IsRecord(n) /\ n > 1 /\ IsRecord(n - 1) => Nested(f)
  <2> SUFFICES ASSUME IsRecord(n), n > 1, IsRecord(n - 1) PROVE Nested(f)
    OBVIOUS
  <2>1. Kind[Parent[f]] = "CXXRecord"
    BY <1>2 DEF IsRecord
  <2>2. Parent[f] # TranslationUnit
    BY <2>1, ContextAssumption DEF ContextKinds
  <2>3. Below(stack[n].context, stack[n - 1].context)
    BY <1>0 DEF RawInv, StackLinked
  <2>4. stack[n - 1].context = Primary[Parent[Primary[Parent[f]]]]
    BY <1>2, <2>3 DEF Below, PrimaryParent
  <2>5. Parent[Primary[Parent[f]]] \in Context
    BY <1>2, <2>2, ContextAssumption, PrimaryAssumption, RedeclarationAssumption DEF DeclContext
  <2>6. Kind[Parent[Parent[f]]] = "CXXRecord"
    <3>1. Kind[Parent[Primary[Parent[f]]]] = "CXXRecord"
      BY <2>4, <2>5 DEF ContextKinds, IsRecord
    <3> QED
      BY <1>2, <2>2, <3>1 DEF ContextKinds
  <2> QED
    BY <2>1, <2>6 DEF Nested
<1> QED
  BY <1>4, <1>6, <1>7, <1>8

LEMMA RawFunction == ASSUME ContextKinds, AccessOfMembers, RawInv, VisitFunction PROVE RawInv'
<1> PICK n : n = Len(stack)
  OBVIOUS
<1>0. /\ InClass /\ pc = "class" /\ stack # <<>>
      /\ n \in Nat \ {0} /\ DOMAIN stack = 1 .. n /\ n \in 1 .. n
      /\ Active = stack[n]
      /\ \A x \in Active.children : Below(x, Active.context)
      /\ scopes \in Seq(Specifier \cup {"none"}) /\ Len(scopes) = n
  BY RawActive DEF VisitFunction, InClass
<1> PICK f \in Active.children :
       /\ Visit(f) /\ Kind[f] \in FunctionKind
       /\ Write(Item({Declaration(f), Granted(f, InEffect(f))},
                        {Opened(Active.context)}))
       /\ scopes' = Front(scopes) \o <<InEffect(f)>>
       /\ CurrentAccess' = Access[f]
  BY DEF VisitFunction
<1> PICK access : access = InEffect(f)
  OBVIOUS
<1>1. f \in FunctionDecl
  BY <1>0 DEF ContextKinds, Below, DeclContext, FunctionKind
<1>2. /\ access \in IF IsRecord(n) THEN Specifier ELSE {"none"}
      /\ ~IsRecord(n) => Access[f] = "none"
      /\ IsRecord(n) => Access[f] \in Specifier
      /\ ~(IsRecord(n) /\ n > 1 /\ IsRecord(n - 1)) => access = Access[f]
      /\ ~Nested(f) => access = Access[f]
  BY <1>0, <1>1, RawAccess
<1>3. /\ UNCHANGED <<FunctionDecls, index, pc>> /\ MapLinked' /\ StackLinked'
      /\ Len(stack') = n /\ DOMAIN stack' = 1 .. n /\ stack' # <<>>
      /\ \A i \in 1 .. n : stack'[i].context = stack[i].context
  BY <1>0, RawTaken
<1>4. /\ Buffer' /\ AccessFaithful' /\ DeclaredBeforeUse' /\ Declared \subseteq Declared'
  <2> PICK item : item = Item({Declaration(f), Granted(f, access)},
                              {Opened(Active.context)})
    OBVIOUS
  <2>1. /\ Write(item) /\ item.uses = {Opened(Active.context)}
        /\ item.declares = {Declaration(f), Granted(f, access)}
    BY DEF Item, Write
  <2>2. item.uses \subseteq Declared
    <3>1. Opened(stack[n].context) \in Declared
      BY <1>0 DEF RawInv
    <3> QED
      BY <1>0, <2>1, <3>1
  <2>3. \A g, a : Granted(g, a) \in item.declares => g = f /\ a = access
    BY <2>1 DEF Granted, Declaration
  <2>4. \A g \in FunctionDecl : \A a :
          Granted(g, a) \in item.declares /\ ~Nested(g) => a = Access[g]
    <3> SUFFICES ASSUME NEW g, NEW a, Granted(g, a) \in item.declares, ~Nested(g)
                 PROVE  a = Access[g]
      OBVIOUS
    <3>1. g = f /\ a = access
      BY <2>3
    <3> QED
      BY <1>2, <3>1
  <2> QED
    BY <1>3, <2>1, <2>2, <2>4, FaithfulWritten
<1>5. /\ scopes' \in Seq(Specifier \cup {"none"}) /\ Len(scopes') = n
      /\ scopes'[n] = access /\ \A i \in 1 .. n : i # n => scopes'[i] = scopes[i]
  <2>1. access \in Specifier \cup {"none"}
    BY <1>2
  <2>2. scopes' = SubSeq(scopes, 1, n - 1) \o <<access>>
    BY <1>0 DEF Front
  <2> PICK first : first = SubSeq(scopes, 1, n - 1)
    OBVIOUS
  <2>3. /\ first \in Seq(Specifier \cup {"none"}) /\ Len(first) = n - 1
        /\ \A i \in 1 .. n - 1 : first[i] = scopes[i]
    BY <1>0
  <2>4. scopes' = Append(first, access)
    BY <2>1, <2>2, <2>3
  <2>5. \A i \in 1 .. n : i # n => i \in 1 .. n - 1
    BY <1>0
  <2>6. /\ scopes' \in Seq(Specifier \cup {"none"}) /\ Len(scopes') = Len(first) + 1
        /\ scopes'[Len(first) + 1] = access
        /\ \A i \in 1 .. Len(first) : scopes'[i] = first[i]
    <3> PICK S : S = Specifier \cup {"none"}
      OBVIOUS
    <3>1. first \in Seq(S) /\ access \in S
      BY <2>1, <2>3
    <3>2. /\ Append(first, access) \in Seq(S)
          /\ Len(Append(first, access)) = Len(first) + 1
          /\ Append(first, access)[Len(first) + 1] = access
          /\ \A i \in 1 .. Len(first) : Append(first, access)[i] = first[i]
      BY <3>1
    <3> QED
      BY <2>4, <3>2
  <2>7. Len(first) + 1 = n
    BY <1>0, <2>3
  <2> QED
    BY <2>3, <2>5, <2>6, <2>7
<1>6. \A i \in 1 .. n : IsRecord(i)' <=> IsRecord(i)
  BY <1>3 DEF IsRecord
<1>7. ScopesTyped'
  <2>1. ASSUME NEW i \in 1 .. n
        PROVE  scopes'[i] \in IF Kind[stack'[i].context] = "CXXRecord" THEN Specifier
                              ELSE {"none"}
    <3>1. scopes[i] \in IF IsRecord(i) THEN Specifier ELSE {"none"}
      BY <1>0 DEF RawInv, ScopesTyped, IsRecord
    <3>2. scopes'[i] \in IF IsRecord(i) THEN Specifier ELSE {"none"}
      BY <1>2, <1>5, <3>1
    <3>3. Kind[stack'[i].context] = Kind[stack[i].context]
      BY <1>3
    <3> QED
      BY <3>2, <3>3 DEF IsRecord
  <2> QED
    BY <1>3, <1>5, <2>1 DEF ScopesTyped
<1>8. AccessRemembered'
  <2>1. n > 1 => n - 1 \in 1 .. n
    BY <1>0
  <2>2. CASE ~IsRecord(n)
    BY <1>0, <1>2, <1>3, <2>2 DEF AccessRemembered, IsRecord
  <2>3. CASE IsRecord(n)
    BY <1>0, <1>2, <1>3, <1>5, <2>1, <2>3 DEF AccessRemembered, IsRecord
  <2> QED
    BY <2>2, <2>3
<1>9. \A i \in DOMAIN stack' : (Opened(stack[i].context) \in Declared)'
  BY <1>0, <1>3, <1>4 DEF RawInv, Opened
<1>10. CurrentAccess' \in Specifier \cup {"none"}
  BY <1>2
<1> QED
  BY <1>0, <1>3, <1>4, <1>7, <1>8, <1>9, <1>10 DEF RawInv

LEMMA RawOther == ASSUME RawInv, VisitOther PROVE RawInv'
<1> PICK x \in Active.children : Visit(x)
  BY DEF VisitOther
<1>1. InClass /\ UNCHANGED <<out, CurrentAccess, scopes>>
  BY DEF VisitOther
<1>2. /\ UNCHANGED <<FunctionDecls, index, pc>> /\ MapLinked' /\ StackLinked'
      /\ Len(stack') = Len(stack) /\ DOMAIN stack' = DOMAIN stack /\ stack' # <<>>
      /\ \A i \in DOMAIN stack : stack'[i].context = stack[i].context
  BY <1>1, RawTaken
<1>3. Buffer' /\ AccessFaithful' /\ DeclaredBeforeUse' /\ Declared' = Declared
  BY <1>1, <1>2, AccessKept, NothingWritten DEF RawInv
<1>4. pc = "class" /\ stack # <<>> /\ Len(stack) \in DOMAIN stack
      /\ (Len(stack) > 1 => Len(stack) - 1 \in DOMAIN stack)
  <2>1. stack \in Seq(FrameSet) /\ stack # <<>> /\ pc = "class"
    BY <1>1, RawActive DEF InClass
  <2> QED
    BY <2>1
<1>5. ScopesTyped'
  BY <1>1, <1>2 DEF RawInv, ScopesTyped
<1>6. AccessRemembered'
  BY <1>1, <1>2, <1>4 DEF RawInv, AccessRemembered, IsRecord
<1>7. \A i \in DOMAIN stack' : (Opened(stack[i].context) \in Declared)'
  BY <1>2, <1>3 DEF RawInv, Opened
<1> QED
  BY <1>1, <1>2, <1>3, <1>4, <1>5, <1>6, <1>7 DEF RawInv

\* The end of a record forgets the access, and that of a namespace finds none:
\* a namespace does not stand in a record.
LEMMA RawLeave == ASSUME RawInv, CloseContext PROVE RawInv'
<1> PICK n : n = Len(stack)
  OBVIOUS
<1>1. /\ InClass /\ stack' = SubSeq(stack, 1, n - 1) /\ scopes' = SubSeq(scopes, 1, Len(scopes) - 1)
      /\ CurrentAccess' = AccessAfter(Active.context)
      /\ UNCHANGED <<FunctionDecls, index, child, parent, Map, pc, out>>
  BY DEF CloseContext, Leave, contextVars, Front
<1>0. /\ pc = "class" /\ stack \in Seq(FrameSet) /\ stack # <<>>
      /\ n \in Nat \ {0} /\ DOMAIN stack = 1 .. n /\ n \in 1 .. n
      /\ Active = stack[n] /\ Active.context \in Context
      /\ scopes \in Seq(Specifier \cup {"none"}) /\ Len(scopes) = n
  BY <1>1, RawActive DEF InClass
<1>2. /\ stack' \in Seq(FrameSet) /\ Len(stack') = n - 1 /\ DOMAIN stack' = 1 .. n - 1
      /\ \A i \in 1 .. n - 1 : stack'[i] = stack[i]
      /\ scopes' \in Seq(Specifier \cup {"none"}) /\ Len(scopes') = n - 1
      /\ \A i \in 1 .. n - 1 : scopes'[i] = scopes[i]
  BY <1>0, <1>1
<1>3. \A i \in 1 .. n - 1 : i \in 1 .. n /\ (i > 1 => i - 1 \in 1 .. n - 1)
  BY <1>0
<1>4. Buffer' /\ AccessFaithful' /\ DeclaredBeforeUse' /\ Declared' = Declared
  BY <1>1, AccessKept, NothingWritten DEF RawInv
<1>5. MapLinked' /\ \A y, k : Below(y, k)' <=> Below(y, k)
  BY <1>1 DEF RawInv, MapLinked, Below
<1>6. StackLinked'
  BY <1>0, <1>2, <1>3, <1>5 DEF RawInv, StackLinked
<1>7. ScopesTyped'
  BY <1>0, <1>2, <1>3 DEF RawInv, ScopesTyped
<1>8. CurrentAccess' \in Specifier \cup {"none"}
  BY <1>1 DEF RawInv, AccessAfter
<1>9. AccessRemembered'
  <2> SUFFICES ASSUME stack' # <<>> PROVE CurrentAccess' = "none"
    BY <1>2 DEF AccessRemembered
  <2>1. n - 1 \in 1 .. n - 1 /\ n > 1
    BY <1>0, <1>2
  <2>2. CASE IsRecord(n)
    BY <1>0, <1>1, <2>2 DEF AccessAfter, IsRecord
  <2>3. CASE ~IsRecord(n)
    BY <1>0, <1>1, <2>3 DEF AccessAfter, IsRecord, RawInv, AccessRemembered
  <2> QED
    BY <2>2, <2>3
<1>10. \A i \in DOMAIN stack' : (Opened(stack[i].context) \in Declared)'
  BY <1>0, <1>2, <1>3, <1>4 DEF RawInv, Opened
<1> QED
  BY <1>0, <1>1, <1>4, <1>5, <1>6, <1>7, <1>8, <1>9, <1>10 DEF RawInv

LEMMA RawFinish == ASSUME RawInv, Finish PROVE RawInv'
<1>1. /\ pc = "class" /\ stack = <<>> /\ pc' = "done"
      /\ UNCHANGED <<FunctionDecls, index, child, parent, Map, stack, out, CurrentAccess, scopes>>
  BY DEF Finish, contextVars
<1>2. Buffer' /\ AccessFaithful' /\ DeclaredBeforeUse' /\ Declared' = Declared
  BY <1>1, AccessKept, NothingWritten DEF RawInv
<1> QED
  BY <1>1, <1>2
  DEF RawInv, MapLinked, StackLinked, ScopesTyped, AccessRemembered, Below

\* The backend Raw gives every function its access, and declares it inside the
\* contexts it stands in.
LEMMA RawStep == ContextKinds /\ AccessOfMembers /\ RawInv /\ Next => RawInv'
BY RawMapStep, RawStart, RawEnter, RawFunction, RawOther, RawLeave, RawFinish DEF Next

LEMMA RawInit == Init => RawInv
<1> SUFFICES ASSUME Init PROVE RawInv
  OBVIOUS
<1>1. /\ pc = "map" /\ stack = <<>> /\ scopes = <<>> /\ CurrentAccess = "none" /\ out = <<>>
      /\ parent = NoContext /\ DOMAIN Map = {} /\ index = 1 /\ FunctionDecls \in FunctionLists
  BY DEF Init, InitContexts, InitGenerator, InitRaw
<1>2. Buffer /\ Declared = {}
  <2>1. out \in Seq({}) /\ Len(out) = 0
    BY <1>1
  <2> QED
    BY <2>1 DEF Buffer, Declared, DeclaredBy
<1>3. DeclaredBeforeUse /\ AccessFaithful
  BY <1>1, <1>2 DEF DeclaredBeforeUse, AccessFaithful
<1>4. MapLinked /\ StackLinked /\ ScopesTyped /\ AccessRemembered
  BY <1>1 DEF MapLinked, StackLinked, ScopesTyped, AccessRemembered
<1> QED
  BY <1>1, <1>2, <1>3, <1>4, ListAssumption DEF RawInv

LEMMA RawStutter == RawInv /\ UNCHANGED vars => RawInv'
<1> SUFFICES ASSUME RawInv, UNCHANGED vars PROVE RawInv'
  OBVIOUS
<1>1. UNCHANGED <<FunctionDecls, index, child, parent, Map, pc, stack, out, CurrentAccess, scopes>>
  BY DEF vars, generatorVars, contextVars
<1>2. Buffer' /\ AccessFaithful' /\ DeclaredBeforeUse' /\ Declared' = Declared
  BY <1>1, AccessKept, NothingWritten DEF RawInv
<1> QED
  BY <1>1, <1>2
  DEF RawInv, MapLinked, StackLinked, ScopesTyped, AccessRemembered, IsRecord, Below, Opened

-----------------------------------------------------------------------------
(***************************************************************************)
(* The functions that the walk comes to.  The definition of Walked recurs  *)
(* over the primary parents; the largest set of contexts that each are of a kind   *)
(* the walk enters and stand in another one of the set is a solution.      *)
(***************************************************************************)
LEMMA WalkedUnfolds ==
    \A c \in Context :
        Walked[c] <=> Kind[c] \in ClassKind /\ (c = TranslationUnit \/ Walked[PrimaryParent(c)])
<1> DEFINE Open(c, S) == Kind[c] \in ClassKind /\ (c = TranslationUnit \/ PrimaryParent(c) \in S)
           W == UNION {S \in SUBSET Context : \A c \in S : Open(c, S)}
           walked == [c \in Context |-> c \in W]
           equation(g) == g = [c \in Context |-> Kind[c] \in ClassKind
                                  /\ (c = TranslationUnit \/ g[PrimaryParent(c)])]
<1>1. ASSUME NEW c \in Context PROVE c \in W <=> Open(c, W)
  <2>1. ASSUME c \in W PROVE Open(c, W)
    <3> PICK S \in SUBSET Context : c \in S /\ \A d \in S : Open(d, S)
      BY <2>1
    <3>1. S \subseteq W
      OBVIOUS
    <3> QED
      BY <3>1
  <2>2. ASSUME Open(c, W) PROVE c \in W
    <3>1. W \subseteq Context /\ \A d \in W : Open(d, W)
      <4> SUFFICES ASSUME NEW d \in W PROVE d \in Context /\ Open(d, W)
        OBVIOUS
      <4> PICK S \in SUBSET Context : d \in S /\ \A e \in S : Open(e, S)
        OBVIOUS
      <4>1. S \subseteq W
        OBVIOUS
      <4> QED
        BY <4>1
    <3> DEFINE T == W \cup {c}
    <3>2. T \in SUBSET Context /\ \A d \in T : Open(d, T)
      <4> HIDE DEF W
      <4> QED
        BY <2>2, <3>1
    <3> QED
      BY <3>2
  <2> QED
    BY <2>1, <2>2
<1>2. \A c \in Context : c # TranslationUnit => PrimaryParent(c) \in Context
  BY ContextAssumption, PrimaryAssumption DEF DeclContext, PrimaryParent
<1>3. equation(walked)
  <2>1. ASSUME NEW c \in Context
        PROVE  c \in W <=> Kind[c] \in ClassKind /\ (c = TranslationUnit \/ walked[PrimaryParent(c)])
    <3>1. CASE c = TranslationUnit
      BY <1>1, <3>1
    <3>2. CASE c # TranslationUnit
      <4>1. walked[PrimaryParent(c)] <=> PrimaryParent(c) \in W
        BY <1>2, <3>2
      <4> HIDE DEF walked, W
      <4> QED
        BY <1>1, <3>2, <4>1
    <3> QED
      BY <3>1, <3>2
  <2>2. walked = [c \in Context |-> c \in W]
    OBVIOUS
  <2> HIDE DEF W, walked
  <2> QED
    BY <2>1, <2>2
<1> HIDE DEF walked
<1>4. Walked = CHOOSE g : equation(g)
  BY DEF Walked
<1>5. equation(Walked)
  BY <1>3, <1>4
<1> QED
  BY <1>5

-----------------------------------------------------------------------------
(***************************************************************************)
(* Which functions are declared.  Once a context has been opened, each of  *)
(* its children has been visited or is still to be by its call.            *)
(***************************************************************************)
Symbol(x) == IF x \in Context THEN Opened(x) ELSE Declaration(x)

Visitable(x) == Kind[x] \in ClassKind \cup FunctionKind

Pending(x, k) == \E i \in DOMAIN stack : stack[i].context = k /\ x \in stack[i].children

\* Each call is for a context of the map, and has a part of its entry to visit.
CallsInMap ==
    \A i \in DOMAIN stack :
        /\ stack[i].context \in DOMAIN Map /\ Walked[stack[i].context]
        /\ stack[i].children \subseteq Map[stack[i].context]

ChildrenVisited ==
    \A k \in DOMAIN Map : Opened(k) \in Declared =>
        \A x \in Map[k] : Visitable(x) => Symbol(x) \in Declared \/ Pending(x, k)

DeclaredWalked ==
    \A f \in FunctionDecl :
        Declaration(f) \in Declared => f \in Range(FunctionDecls) /\ Walked[PrimaryParent(f)]

RawWritten ==
    /\ ContextsTypeOK /\ MapInv
    /\ pc # "map" => Built /\ Opened(TranslationUnit) \in Declared
    /\ pc = "map" => \A x : Opened(x) \notin Declared /\ Declaration(x) \notin Declared
    /\ CallsInMap /\ ChildrenVisited /\ DeclaredWalked

LEMMA MapWritten ==
    ASSUME RawInv, RawWritten, MapStep PROVE RawWritten'
<1>1. pc = "map" /\ CreateContextMap /\ UNCHANGED <<pc, out, stack>>
  BY DEF MapStep
<1>2. stack = <<>> /\ Declared' = Declared
  BY <1>1, NothingWritten DEF RawInv
<1>3. ContextsTypeOK' /\ MapInv'
  BY <1>1, MapType, NextFunctionStep, ClimbStep DEF RawWritten, CreateContextMap
<1>4. \A x : Opened(x) \notin Declared' /\ Declaration(x) \notin Declared'
  BY <1>1, <1>2 DEF RawWritten
<1>5. CallsInMap'
  BY <1>1, <1>2 DEF CallsInMap
<1>6. ChildrenVisited'
  BY <1>4 DEF ChildrenVisited, Opened
<1>7. DeclaredWalked'
  BY <1>4 DEF DeclaredWalked, Declaration
<1> QED
  BY <1>1, <1>3, <1>4, <1>5, <1>6, <1>7 DEF RawWritten, Opened, Declaration

LEMMA StartWritten ==
    ASSUME ContextKinds, RawInv, RawWritten, VisitTranslationUnit PROVE RawWritten'
<1> DEFINE item == Item({Opened(TranslationUnit)}, {})
<1>1. /\ pc = "map" /\ Built /\ pc' = "class"
      /\ Map' = LookedUp(TranslationUnit) /\ stack' = <<Frame(TranslationUnit)>>
      /\ Write(item)
      /\ UNCHANGED <<FunctionDecls, index, child, parent>>
  BY DEF VisitTranslationUnit, StartWalk, lists
<1>2. ContextsTypeOK' /\ MapInv' /\ Built'
  BY <1>1, LookUpType, LookUpStep, ContextAssumption DEF RawWritten, Built
<1>3. /\ TranslationUnit \in DOMAIN Map'
      /\ Map'[TranslationUnit] = Children(TranslationUnit)
  BY <1>1, LookedUpEntries DEF LookedUp, Children
<1>4. /\ stack'[1].context = TranslationUnit /\ stack'[1].children = Children(TranslationUnit)
      /\ DOMAIN stack' = {1}
  BY <1>1 DEF Frame
<1>5. Walked[TranslationUnit]
  BY WalkedUnfolds, ContextAssumption DEF ContextKinds, ClassKind
<1>6. CallsInMap'
  BY <1>3, <1>4, <1>5 DEF CallsInMap
<1>7. Declared' = Declared \cup {Opened(TranslationUnit)}
  BY <1>1, WrittenDeclares DEF RawInv, Item
<1>8. /\ \A k : Opened(k) \in Declared' <=> k = TranslationUnit
      /\ \A x : Declaration(x) \notin Declared'
  <2>1. \A k : Opened(k) = Opened(TranslationUnit) => k = TranslationUnit
    BY DEF Opened
  <2>2. \A x : Declaration(x) # Opened(TranslationUnit)
    BY DEF Opened, Declaration
  <2> QED
    BY <1>1, <1>7, <2>1, <2>2 DEF RawWritten
<1>9. ChildrenVisited'
  <2>1. \A x \in Map'[TranslationUnit] : Pending(x, TranslationUnit)'
    BY <1>3, <1>4 DEF Pending
  <2> QED
    BY <1>8, <2>1 DEF ChildrenVisited, Opened
<1>10. DeclaredWalked'
  BY <1>8 DEF DeclaredWalked, Declaration
<1> QED
  BY <1>1, <1>2, <1>6, <1>8, <1>9, <1>10 DEF RawWritten, Opened

\* The active call takes a child, which is visited or need not be.
LEMMA ChildTaken ==
    ASSUME RawInv, RawWritten, InClass, NEW x \in Active.children,
           DOMAIN stack \subseteq DOMAIN stack',
           \A i \in DOMAIN stack :
              /\ stack'[i].context = stack[i].context
              /\ i # Len(stack) => stack'[i].children = stack[i].children
              /\ i = Len(stack) => stack'[i].children = stack[i].children \ {x},
           \A k \in DOMAIN Map : k \in DOMAIN Map' /\ Map'[k] = Map[k],
           Declared \subseteq Declared', Visitable(x) => Symbol(x) \in Declared'
    PROVE  /\ \A k \in DOMAIN Map : Opened(k) \in Declared =>
                \A y \in Map[k] : Visitable(y) => Symbol(y) \in Declared' \/ Pending(y, k)'
           /\ \A i \in DOMAIN stack :
                /\ stack'[i].context \in DOMAIN Map' /\ Walked[stack'[i].context]
                /\ stack'[i].children \subseteq Map'[stack'[i].context]
<1>1. ASSUME NEW k \in DOMAIN Map, Opened(k) \in Declared, NEW y \in Map[k], Visitable(y)
      PROVE  Symbol(y) \in Declared' \/ Pending(y, k)'
  <2>1. CASE Symbol(y) \in Declared \/ y = x
    BY <1>1, <2>1
  <2>2. CASE Pending(y, k) /\ y # x
    <3> PICK i \in DOMAIN stack : stack[i].context = k /\ y \in stack[i].children
      BY <2>2 DEF Pending
    <3>1. y \in stack'[i].children /\ stack'[i].context = k /\ i \in DOMAIN stack'
      BY <2>2
    <3> QED
      BY <3>1 DEF Pending
  <2> QED
    BY <1>1, <2>1, <2>2 DEF RawWritten, ChildrenVisited
<1>2. ASSUME NEW i \in DOMAIN stack
      PROVE  /\ stack'[i].context \in DOMAIN Map' /\ Walked[stack'[i].context]
             /\ stack'[i].children \subseteq Map'[stack'[i].context]
  <2>1. /\ stack[i].context \in DOMAIN Map /\ Walked[stack[i].context]
        /\ stack[i].children \subseteq Map[stack[i].context]
    BY DEF RawWritten, CallsInMap
  <2>2. stack'[i].children \subseteq stack[i].children
    OBVIOUS
  <2> QED
    BY <2>1, <2>2
<1> QED
  BY <1>1, <1>2

\* A child of the active call stands in the map under a context that is walked.
LEMMA ChildWalked ==
    ASSUME ContextKinds, RawInv, RawWritten, InClass, NEW x \in Active.children
    PROVE  /\ Recorded(x) /\ x \in DeclContext \ {TranslationUnit} /\ Walked[PrimaryParent(x)]
           /\ x \in FunctionDecl => x \in Range(FunctionDecls)
<1>1. Len(stack) \in DOMAIN stack /\ Active = stack[Len(stack)] /\ Below(x, Active.context)
  BY RawActive DEF InClass
<1>2. /\ Active.context \in DOMAIN Map /\ Walked[Active.context]
      /\ x \in Map[Active.context]
  BY <1>1 DEF RawWritten, CallsInMap
<1>3. /\ x \in DOMAIN Map \cup Range(FunctionDecls)
      /\ Active.context = PrimaryParent(x)
  BY <1>2 DEF RawWritten, MapInv
<1>4. x \in DeclContext \ {TranslationUnit} /\ Parent[x] \in Context
  BY <1>1, ContextAssumption DEF Below, DeclContext
<1>5. Walked[PrimaryParent(x)]
  BY <1>2, <1>3
<1>6. x \in FunctionDecl => x \in Range(FunctionDecls)
  BY <1>3, ContextAssumption DEF RawWritten, ContextsTypeOK
<1> QED
  BY <1>2, <1>3, <1>4, <1>5, <1>6 DEF Recorded

LEMMA EnterWritten ==
    ASSUME ContextKinds, RawInv, RawWritten, VisitContext PROVE RawWritten'
<1> PICK n : n = Len(stack)
  OBVIOUS
<1>0. /\ InClass /\ pc = "class" /\ stack \in Seq(FrameSet) /\ stack # <<>>
      /\ n \in Nat \ {0} /\ DOMAIN stack = 1 .. n /\ StackLinked /\ Buffer
  BY RawActive DEF VisitContext, InClass, RawInv
<1> PICK c \in Active.children :
       Enter(c) /\ Write(Item({Opened(c)}, {Opened(Active.context)}))
  BY DEF VisitContext
<1> PICK rest : rest = WithoutChild(c)
  OBVIOUS
<1>1. /\ Kind[c] \in ClassKind /\ Map' = LookedUp(c) /\ stack' = Append(rest, Frame(c))
      /\ UNCHANGED <<FunctionDecls, index, child, parent, pc>>
  BY DEF Enter, lists
<1>2. Recorded(c) /\ c \in Context /\ c # TranslationUnit /\ Walked[PrimaryParent(c)]
  BY <1>0, <1>1, ChildWalked, FunctionsApart
<1>3. ContextsTypeOK' /\ MapInv' /\ Built'
  BY <1>0, <1>1, <1>2, LookUpType, LookUpStep DEF RawWritten, Built
<1>4. /\ DOMAIN Map' = DOMAIN Map \cup {c} /\ Map'[c] = Children(c)
      /\ \A k \in DOMAIN Map : Map'[k] = Map[k]
  BY <1>1, LookedUpEntries DEF LookedUp, Children
<1>5. /\ Frame(c) \in FrameSet /\ Frame(c).context = c /\ Frame(c).children = Children(c)
  BY <1>2 DEF Frame, FrameSet, Children, RawWritten, ContextsTypeOK
<1>6. /\ DOMAIN stack' = 1 .. n + 1 /\ n + 1 \in 1 .. n + 1
      /\ stack'[n + 1].context = c /\ stack'[n + 1].children = Map'[c]
      /\ \A i \in 1 .. n :
            /\ stack'[i].context = stack[i].context
            /\ i # n => stack'[i].children = stack[i].children
            /\ i = n => stack'[i].children = stack[i].children \ {c}
  <2>1. /\ rest \in Seq(FrameSet) /\ Len(rest) = n
        /\ \A i \in 1 .. n :
              /\ rest[i].context = stack[i].context
              /\ rest[i].children = IF i = n THEN stack[i].children \ {c} ELSE stack[i].children
    BY <1>0, TakenChild
  <2> PICK frame : frame = Frame(c)
    OBVIOUS
  <2>2. /\ Append(rest, frame) \in Seq(FrameSet) /\ Len(Append(rest, frame)) = n + 1
        /\ Append(rest, frame)[n + 1] = frame
        /\ \A i \in 1 .. n : Append(rest, frame)[i] = rest[i]
    BY <1>0, <1>5, <2>1
  <2>3. DOMAIN stack' = 1 .. n + 1 /\ n + 1 \in 1 .. n + 1
    BY <1>0, <1>1, <2>2
  <2> QED
    BY <1>1, <1>4, <1>5, <2>1, <2>2, <2>3
<1>7. Declared' = Declared \cup {Opened(c)}
  BY <1>0, WrittenDeclares DEF Item
<1>8. /\ \A k : Opened(k) \in Declared' <=> Opened(k) \in Declared \/ k = c
      /\ \A x : Declaration(x) \in Declared' <=> Declaration(x) \in Declared
  <2>1. (\A k : Opened(k) = Opened(c) => k = c) /\ \A x : Declaration(x) # Opened(c)
    BY DEF Opened, Declaration
  <2> QED
    BY <1>7, <2>1
<1>9. /\ \A k \in DOMAIN Map : Opened(k) \in Declared =>
            \A y \in Map[k] : Visitable(y) => Symbol(y) \in Declared' \/ Pending(y, k)'
      /\ \A i \in DOMAIN stack :
            /\ stack'[i].context \in DOMAIN Map' /\ Walked[stack'[i].context]
            /\ stack'[i].children \subseteq Map'[stack'[i].context]
  <2>1. DOMAIN stack \subseteq DOMAIN stack'
    BY <1>0, <1>6
  <2>2. Declared \subseteq Declared' /\ Symbol(c) \in Declared'
    BY <1>2, <1>7 DEF Symbol
  <2> QED
    BY <1>0, <1>4, <1>6, <2>1, <2>2, ChildTaken
<1>10. CallsInMap'
  <2>1. Walked[c]
    BY <1>1, <1>2, WalkedUnfolds
  <2>2. \A i \in 1 .. n + 1 : i \in 1 .. n \/ i = n + 1
    BY <1>0
  <2> QED
    BY <1>0, <1>4, <1>6, <1>9, <2>1, <2>2 DEF CallsInMap
<1>11. ChildrenVisited'
  <2> SUFFICES ASSUME NEW k \in DOMAIN Map', Opened(k) \in Declared', NEW y \in Map'[k],
                      Visitable(y)
               PROVE  Symbol(y) \in Declared' \/ Pending(y, k)'
    BY DEF ChildrenVisited, Opened, Symbol, Declaration
  <2>1. CASE k = c
    BY <1>6, <2>1 DEF Pending
  <2>2. CASE k # c
    BY <1>4, <1>8, <1>9, <2>2
  <2> QED
    BY <2>1, <2>2
<1>12. DeclaredWalked'
  BY <1>1, <1>8 DEF RawWritten, DeclaredWalked, Declaration
<1>13. Opened(TranslationUnit)' \in Declared'
  BY <1>0, <1>8 DEF RawWritten, Opened
<1> QED
  BY <1>0, <1>1, <1>3, <1>10, <1>11, <1>12, <1>13 DEF RawWritten

\* A child that no call is made for: the calls keep what else they have to visit.
LEMMA TakenWritten ==
    ASSUME ContextKinds, RawInv, RawWritten, InClass, NEW x \in Active.children, Visit(x),
           Declared \subseteq Declared', Visitable(x) => Symbol(x) \in Declared',
           \A k : Opened(k) \in Declared' <=> Opened(k) \in Declared
    PROVE  /\ pc = "class" /\ pc' = "class" /\ Built' /\ FunctionDecls' = FunctionDecls
           /\ ContextsTypeOK' /\ MapInv'
           /\ CallsInMap' /\ ChildrenVisited' /\ (Opened(TranslationUnit) \in Declared)'
<1> PICK n : n = Len(stack)
  OBVIOUS
<1>0. /\ pc = "class" /\ stack # <<>> /\ n \in Nat \ {0} /\ DOMAIN stack = 1 .. n
      /\ StackLinked
  BY RawActive DEF InClass, RawInv
<1>1. /\ UNCHANGED <<FunctionDecls, index, child, parent, Map, pc>>
      /\ stack' = WithoutChild(x)
  BY DEF Visit, contextVars
<1>2. ContextsTypeOK' /\ MapInv' /\ Built'
  BY <1>0, <1>1 DEF RawWritten, ContextsTypeOK, MapInv, Recorded, Climbing, Built
<1>3. /\ DOMAIN stack' = 1 .. n
      /\ \A i \in 1 .. n :
            /\ stack'[i].context = stack[i].context
            /\ i # n => stack'[i].children = stack[i].children
            /\ i = n => stack'[i].children = stack[i].children \ {x}
  <2> PICK rest : rest = WithoutChild(x)
    OBVIOUS
  <2>1. /\ rest \in Seq(FrameSet) /\ Len(rest) = n
        /\ \A i \in 1 .. n :
              /\ rest[i].context = stack[i].context
              /\ rest[i].children = IF i = n THEN stack[i].children \ {x} ELSE stack[i].children
    BY <1>0, TakenChild
  <2>2. DOMAIN rest = 1 .. n
    BY <2>1
  <2> QED
    BY <1>1, <2>1, <2>2
<1>4. /\ \A k \in DOMAIN Map : Opened(k) \in Declared =>
            \A y \in Map[k] : Visitable(y) => Symbol(y) \in Declared' \/ Pending(y, k)'
      /\ \A i \in DOMAIN stack :
            /\ stack'[i].context \in DOMAIN Map' /\ Walked[stack'[i].context]
            /\ stack'[i].children \subseteq Map'[stack'[i].context]
  BY <1>0, <1>1, <1>3, ChildTaken
<1>5. CallsInMap'
  BY <1>0, <1>3, <1>4 DEF CallsInMap
<1>6. ChildrenVisited'
  BY <1>1, <1>4 DEF ChildrenVisited, Opened, Symbol, Declaration
<1> QED
  BY <1>0, <1>1, <1>2, <1>5, <1>6 DEF RawWritten, Opened

LEMMA FunctionWritten ==
    ASSUME ContextKinds, RawInv, RawWritten, VisitFunction PROVE RawWritten'
<1> PICK f \in Active.children :
       /\ Visit(f) /\ Kind[f] \in FunctionKind
       /\ Write(Item({Declaration(f), Granted(f, InEffect(f))}, {Opened(Active.context)}))
  BY DEF VisitFunction
<1>1. InClass
  BY DEF VisitFunction
<1>2. /\ f \in DeclContext \ {TranslationUnit} /\ Walked[PrimaryParent(f)]
      /\ f \in FunctionDecl => f \in Range(FunctionDecls)
  BY <1>1, ChildWalked
<1>3. f \in FunctionDecl /\ f \notin Context
  BY <1>2 DEF ContextKinds, DeclContext
<1>4. Declared' = Declared \cup {Declaration(f), Granted(f, InEffect(f))}
  BY WrittenDeclares DEF RawInv, Item
<1>5. /\ \A k : Opened(k) \in Declared' <=> Opened(k) \in Declared
      /\ \A g : Declaration(g) \in Declared' <=> Declaration(g) \in Declared \/ g = f
  <2>1. \A k, a : Opened(k) # Declaration(f) /\ Opened(k) # Granted(f, a)
    BY DEF Opened, Declaration, Granted
  <2>2. \A g, a : Declaration(g) # Granted(f, a) /\ (Declaration(g) = Declaration(f) => g = f)
    BY DEF Declaration, Granted
  <2> QED
    BY <1>4, <2>1, <2>2
<1>6. Symbol(f) \in Declared' /\ Declared \subseteq Declared'
  BY <1>3, <1>4 DEF Symbol
<1>7. /\ pc = "class" /\ pc' = "class" /\ Built' /\ FunctionDecls' = FunctionDecls
      /\ ContextsTypeOK' /\ MapInv'
      /\ CallsInMap' /\ ChildrenVisited' /\ (Opened(TranslationUnit) \in Declared)'
  BY <1>1, <1>5, <1>6, TakenWritten
<1>8. DeclaredWalked'
  BY <1>2, <1>3, <1>5, <1>7 DEF RawWritten, DeclaredWalked, Declaration
<1> QED
  BY <1>7, <1>8 DEF RawWritten

\* The steps that declare nothing.
LEMMA OtherWritten ==
    ASSUME ContextKinds, RawInv, RawWritten, VisitOther PROVE RawWritten'
<1> PICK c \in Active.children : Visit(c) /\ Kind[c] \notin FunctionKind
  BY DEF VisitOther
<1>1. InClass /\ Declared' = Declared /\ ~Visitable(c)
  BY NothingWritten DEF VisitOther, Visit, Visitable
<1>2. /\ pc = "class" /\ pc' = "class" /\ Built' /\ FunctionDecls' = FunctionDecls
      /\ ContextsTypeOK' /\ MapInv'
      /\ CallsInMap' /\ ChildrenVisited' /\ (Opened(TranslationUnit) \in Declared)'
  BY <1>1, TakenWritten
<1>3. DeclaredWalked'
  BY <1>1, <1>2 DEF RawWritten, DeclaredWalked, Declaration
<1> QED
  BY <1>2, <1>3 DEF RawWritten

LEMMA LeaveWritten ==
    ASSUME RawInv, RawWritten, CloseContext PROVE RawWritten'
<1> PICK n : n = Len(stack)
  OBVIOUS
<1>1. /\ InClass /\ Active.children = {} /\ stack' = SubSeq(stack, 1, n - 1)
      /\ UNCHANGED <<FunctionDecls, index, child, parent, Map, pc, out>>
  BY DEF CloseContext, Leave, contextVars, Front
<1>2. /\ pc = "class" /\ stack \in Seq(FrameSet) /\ n \in Nat \ {0} /\ DOMAIN stack = 1 .. n
      /\ Active = stack[n]
  BY <1>1, RawActive DEF InClass
<1>3. DOMAIN stack' = 1 .. n - 1 /\ \A i \in 1 .. n - 1 : i \in 1 .. n /\ stack'[i] = stack[i]
  BY <1>1, <1>2
<1>4. Declared' = Declared
  BY <1>1, NothingWritten
<1>5. CallsInMap'
  BY <1>1, <1>2, <1>3 DEF RawWritten, CallsInMap
<1>6. \A x, k : Pending(x, k) => Pending(x, k)'
  <2> SUFFICES ASSUME NEW x, NEW k, NEW i \in DOMAIN stack,
                      stack[i].context = k, x \in stack[i].children
               PROVE  \E j \in DOMAIN stack' : stack'[j].context = k /\ x \in stack'[j].children
    BY DEF Pending
  <2>1. i # n
    BY <1>1, <1>2
  <2>2. i \in 1 .. n - 1
    BY <1>2, <2>1
  <2> QED
    BY <1>3, <2>2
<1>7. ChildrenVisited'
  <2> SUFFICES ASSUME NEW k \in DOMAIN Map, Opened(k) \in Declared, NEW x \in Map[k],
                      Visitable(x)
               PROVE  Symbol(x) \in Declared \/ Pending(x, k)'
    BY <1>1, <1>4 DEF ChildrenVisited, Opened, Symbol, Declaration
  <2> QED
    BY <1>6 DEF RawWritten, ChildrenVisited
<1>8. ContextsTypeOK' /\ MapInv' /\ Built'
  BY <1>1, <1>2 DEF RawWritten, ContextsTypeOK, MapInv, Recorded, Climbing, Built
<1> QED
  BY <1>1, <1>2, <1>4, <1>5, <1>7, <1>8 DEF RawWritten, DeclaredWalked, Opened, Declaration

LEMMA SameWritten ==
    ASSUME RawWritten, UNCHANGED <<FunctionDecls, index, child, parent, Map, stack, out>>,
           pc' = pc \/ (pc = "class" /\ pc' = "done")
    PROVE  RawWritten'
<1>1. Declared' = Declared
  BY NothingWritten
<1>2. CallsInMap' /\ DeclaredWalked'
  BY <1>1 DEF RawWritten, CallsInMap, DeclaredWalked, Declaration
<1>3. ChildrenVisited'
  <2>1. \A x, k : Pending(x, k)' <=> Pending(x, k)
    BY DEF Pending
  <2> SUFFICES ASSUME NEW k \in DOMAIN Map, Opened(k) \in Declared, NEW x \in Map[k],
                      Visitable(x)
               PROVE  Symbol(x) \in Declared \/ Pending(x, k)'
    BY <1>1 DEF ChildrenVisited, Opened, Symbol, Declaration
  <2> QED
    BY <2>1 DEF RawWritten, ChildrenVisited
<1>4. ContextsTypeOK' /\ MapInv' /\ (Built' <=> Built)
  BY DEF RawWritten, ContextsTypeOK, MapInv, Recorded, Climbing, Built
<1> QED
  BY <1>1, <1>2, <1>3, <1>4 DEF RawWritten, Opened, Declaration

LEMMA RawWrittenStep ==
    ContextKinds /\ RawInv /\ RawWritten /\ [Next]_vars => RawWritten'
<1> SUFFICES ASSUME ContextKinds, RawInv, RawWritten, [Next]_vars PROVE RawWritten'
  OBVIOUS
<1>1. CASE Finish
  BY <1>1, SameWritten DEF Finish, contextVars
<1>2. CASE UNCHANGED vars
  BY <1>2, SameWritten DEF vars, generatorVars, contextVars
<1> QED
  BY <1>1, <1>2, MapWritten, StartWritten, EnterWritten, FunctionWritten, OtherWritten,
     LeaveWritten DEF Next

\* When run returns, no child of an opened context is left, and so every
\* context of the map that the walk may come to has been opened.
LEMMA AllWritten ==
    ASSUME ContextKinds, RawInv, RawWritten, pc = "done"
    PROVE  DefinedAs("declaration", FunctionDecl)
             = {f \in Range(FunctionDecls) : Walked[PrimaryParent(f)]}
<1>1. /\ stack = <<>> /\ Built /\ Opened(TranslationUnit) \in Declared
      /\ ContextsTypeOK /\ MapInv /\ ChildrenVisited /\ DeclaredWalked
  BY DEF RawInv, RawWritten
<1>2. \A k \in DOMAIN Map : Opened(k) \in Declared =>
         \A x \in Map[k] : Visitable(x) => Symbol(x) \in Declared
  BY <1>1 DEF ChildrenVisited, Pending
<1>3. /\ \A f \in Range(FunctionDecls) : PrimaryParent(f) \in DOMAIN Map /\ f \in Map[PrimaryParent(f)]
      /\ \A k \in DOMAIN Map \ {TranslationUnit} :
            PrimaryParent(k) \in DOMAIN Map /\ k \in Map[PrimaryParent(k)]
      /\ DOMAIN Map \subseteq Context /\ FunctionDecls \in FunctionLists
  BY <1>1, MapInvExact DEF MapExact, ContextsTypeOK
<1>5. \A c \in DOMAIN Map : Walked[c] => Opened(c) \in Declared
  <2> DEFINE bad == {c \in DOMAIN Map : Walked[c] /\ Opened(c) \notin Declared}
  <2> SUFFICES ASSUME bad # {} PROVE FALSE
    OBVIOUS
  <2>1. PICK c \in bad : c # TranslationUnit => PrimaryParent(c) \notin bad
    <3>1. bad \in SUBSET Context
      BY <1>3
    <3> QED
      BY <3>1, TreeAssumption DEF PrimaryParent
  <2>2. c \in Context /\ c \in DOMAIN Map /\ Walked[c] /\ Opened(c) \notin Declared
    BY <1>3
  <2>3. c # TranslationUnit
    BY <1>1, <2>2
  <2>4. Kind[c] \in ClassKind /\ Walked[PrimaryParent(c)]
    BY <2>2, <2>3, WalkedUnfolds
  <2>5. PrimaryParent(c) \in DOMAIN Map /\ c \in Map[PrimaryParent(c)]
    BY <1>3, <2>2, <2>3
  <2>6. Opened(PrimaryParent(c)) \in Declared
    BY <2>1, <2>3, <2>4, <2>5
  <2>7. Visitable(c) /\ Symbol(c) = Opened(c)
    BY <2>2, <2>4 DEF Visitable, Symbol
  <2> QED
    BY <1>2, <2>2, <2>5, <2>6, <2>7
<1>6. ASSUME NEW f \in Range(FunctionDecls), Walked[PrimaryParent(f)]
      PROVE  f \in FunctionDecl /\ Declaration(f) \in Declared
  <2>1. f \in FunctionDecl
    BY <1>3, ListAssumption DEF Range
  <2>2. Parent[f] \in Context /\ f \notin Context
    BY <2>1, ContextAssumption DEF DeclContext
  <2>3. PrimaryParent(f) \in DOMAIN Map /\ f \in Map[PrimaryParent(f)]
    BY <1>3
  <2>4. Opened(PrimaryParent(f)) \in Declared
    BY <1>5, <1>6, <2>3
  <2>5. Visitable(f) /\ Symbol(f) = Declaration(f)
    BY <2>1, <2>2, KindAssumption DEF Visitable, Symbol
  <2> QED
    BY <1>2, <2>1, <2>3, <2>4, <2>5
<1>7. ASSUME NEW f \in FunctionDecl, Declaration(f) \in Declared
      PROVE  f \in Range(FunctionDecls) /\ Walked[PrimaryParent(f)]
  BY <1>1, <1>7 DEF DeclaredWalked
<1> QED
  BY <1>6, <1>7 DEF DefinedAs, Declaration

LEMMA RawWrittenInit == Init => RawWritten
<1> SUFFICES ASSUME Init PROVE RawWritten
  OBVIOUS
<1>1. /\ pc = "map" /\ stack = <<>> /\ out = <<>> /\ InitContexts
      /\ child = NoContext /\ parent = NoContext /\ DOMAIN Map = {} /\ index = 1
      /\ FunctionDecls \in FunctionLists
  BY DEF Init, InitContexts, InitGenerator
<1>2. Declared = {}
  <2>1. Len(out) = 0
    BY <1>1
  <2> QED
    BY <2>1 DEF Declared, DeclaredBy
<1>3. ContextsTypeOK /\ MapInv
  BY <1>1, MapInvInit DEF ContextsTypeOK
<1> QED
  BY <1>1, <1>2, <1>3 DEF RawWritten, CallsInMap, ChildrenVisited, DeclaredWalked

-----------------------------------------------------------------------------
(***************************************************************************)
(* Declaring once.  What a call is still to visit has not been declared:   *)
(* only one call iterates over a context, and nothing in a context is      *)
(* declared before the context is opened.                                  *)
(***************************************************************************)
CallsDistinct == \A i, j \in DOMAIN stack : stack[i].context = stack[j].context => i = j

PendingNew == \A i \in DOMAIN stack : \A x \in stack[i].children : Symbol(x) \notin Declared

OpenedAround ==
    \A x \in DeclContext \ {TranslationUnit} :
        Symbol(x) \in Declared => Opened(PrimaryParent(x)) \in Declared

AccessWithFunction == \A f, a : Granted(f, a) \in Declared => Declaration(f) \in Declared

RawOnce ==
    CallsDistinct /\ PendingNew /\ OpenedAround /\ AccessWithFunction /\ DeclaredOnce

\* Each declaration context has a symbol of its own.
LEMMA RawSymbols ==
    /\ \A x, y \in DeclContext : Symbol(x) = Symbol(y) => x = y
    /\ \A k, l : Opened(k) = Opened(l) => k = l
    /\ \A f, g : Declaration(f) = Declaration(g) => f = g
    /\ \A k, f : Opened(k) # Declaration(f)
    /\ \A x, f, a : Symbol(x) # Granted(f, a)
    /\ \A k, f, a : Opened(k) # Granted(f, a) /\ Declaration(k) # Granted(f, a)
    /\ \A f, a, g, b : Granted(f, a) = Granted(g, b) => f = g
BY DEF Symbol, Opened, Declaration, Granted

\* The active call declares one of its children, or passes over it.
LEMMA TakenOnce ==
    ASSUME RawInv, RawOnce, InClass, NEW x \in Active.children,
           \A i \in DOMAIN stack :
              /\ i # Len(stack) => stack'[i].children = stack[i].children
              /\ i = Len(stack) => stack'[i].children = stack[i].children \ {x},
           Declared \subseteq Declared',
           \A y \in DeclContext : Symbol(y) \in Declared' => Symbol(y) \in Declared \/ y = x
    PROVE  /\ Symbol(x) \notin Declared /\ x \in DeclContext
           /\ \A i \in DOMAIN stack : \A y \in stack'[i].children : Symbol(y) \notin Declared'
           /\ OpenedAround'
<1> PICK n : n = Len(stack)
  OBVIOUS
<1>0. /\ DOMAIN stack = 1 .. n /\ n \in 1 .. n
      /\ Active = stack[n] /\ Active.context \in Context
      /\ \A y \in Active.children : Below(y, Active.context)
  BY RawActive
<1>1. x \in DeclContext /\ x \in stack[n].children /\ Below(x, stack[n].context)
  BY <1>0 DEF Below
<1>2. \A i \in DOMAIN stack : \A y \in stack[i].children : Below(y, stack[i].context)
  BY DEF RawInv, StackLinked
<1>3. ASSUME NEW i \in DOMAIN stack, NEW y \in stack'[i].children
      PROVE  Symbol(y) \notin Declared'
  <2>1. y \in stack[i].children /\ y \in DeclContext
    <3>1. y \in stack[i].children
      BY <1>3
    <3> QED
      BY <1>2, <3>1 DEF Below
  <2>2. y # x
    <3>1. CASE i = n
      BY <1>3, <3>1
    <3>2. CASE i # n
      <4> SUFFICES ASSUME y = x PROVE FALSE
        OBVIOUS
      <4>1. Below(x, stack[i].context)
        BY <1>2, <2>1
      <4>2. stack[i].context = stack[n].context
        BY <1>1, <4>1 DEF Below
      <4> QED
        BY <1>0, <3>2, <4>2 DEF RawOnce, CallsDistinct
    <3> QED
      BY <3>1, <3>2
  <2>3. Symbol(y) \notin Declared
    BY <2>1 DEF RawOnce, PendingNew
  <2> QED
    BY <2>1, <2>2, <2>3
<1>4. ASSUME NEW y \in DeclContext \ {TranslationUnit}, Symbol(y) \in Declared'
      PROVE  Opened(PrimaryParent(y)) \in Declared'
  <2>1. CASE Symbol(y) \in Declared
    BY <2>1 DEF RawOnce, OpenedAround
  <2>2. CASE y = x
    <3>1. PrimaryParent(x) = stack[n].context
      BY <1>1 DEF Below
    <3>2. Opened(stack[n].context) \in Declared
      BY <1>0 DEF RawInv
    <3> QED
      BY <2>2, <3>1, <3>2
  <2> QED
    BY <1>4, <2>1, <2>2
<1>5. OpenedAround'
  BY <1>4 DEF OpenedAround, Symbol, Opened, Declaration, PrimaryParent
<1>6. Symbol(x) \notin Declared
  BY <1>0, <1>1 DEF RawOnce, PendingNew
<1> QED
  BY <1>1, <1>3, <1>5, <1>6

\* What is left to the calls.
LEMMA TakenChildren ==
    ASSUME RawInv, InClass, NEW c
    PROVE  /\ WithoutChild(c) \in Seq(FrameSet) /\ Len(WithoutChild(c)) = Len(stack)
           /\ DOMAIN WithoutChild(c) = DOMAIN stack
           /\ \A i \in DOMAIN stack :
                /\ WithoutChild(c)[i].context = stack[i].context
                /\ i # Len(stack) => WithoutChild(c)[i].children = stack[i].children
                /\ i = Len(stack) => WithoutChild(c)[i].children = stack[i].children \ {c}
<1>1. StackLinked /\ stack # <<>> /\ stack \in Seq(FrameSet)
  BY DEF RawInv, InClass, StackLinked
<1>2. /\ WithoutChild(c) \in Seq(FrameSet) /\ Len(WithoutChild(c)) = Len(stack)
      /\ \A i \in DOMAIN stack :
            /\ WithoutChild(c)[i].context = stack[i].context
            /\ WithoutChild(c)[i].children =
                  IF i = Len(stack) THEN stack[i].children \ {c} ELSE stack[i].children
  BY <1>1, TakenChild
<1>3. DOMAIN WithoutChild(c) = DOMAIN stack
  BY <1>1, <1>2
<1> QED
  BY <1>2, <1>3

LEMMA StartOnce ==
    ASSUME RawInv, RawWritten, RawOnce, VisitTranslationUnit PROVE RawOnce'
<1> DEFINE item == Item({Opened(TranslationUnit)}, {})
<1>1. /\ pc = "map" /\ stack' = <<Frame(TranslationUnit)>> /\ Write(item)
      /\ DOMAIN stack' = {1} /\ stack'[1].children = Children(TranslationUnit)
  BY DEF VisitTranslationUnit, StartWalk, Frame
<1>2. /\ Buffer /\ MapLinked /\ DeclaredOnce
      /\ \A x : Opened(x) \notin Declared /\ Declaration(x) \notin Declared
  BY <1>1 DEF RawInv, RawWritten, RawOnce
<1>3. Declared' = Declared \cup {Opened(TranslationUnit)}
  BY <1>1, <1>2, WrittenDeclares DEF Item
<1>4. \A x \in DeclContext \ {TranslationUnit} : Symbol(x) \notin Declared'
  <2> SUFFICES ASSUME NEW x \in DeclContext \ {TranslationUnit} PROVE Symbol(x) \notin Declared'
    OBVIOUS
  <2>1. Symbol(x) \notin Declared
    BY <1>2 DEF Symbol
  <2>2. TranslationUnit \in DeclContext /\ Symbol(TranslationUnit) = Opened(TranslationUnit)
    BY ContextAssumption DEF DeclContext, Symbol
  <2>3. Symbol(x) # Opened(TranslationUnit)
    BY <2>2, RawSymbols
  <2> QED
    BY <1>3, <2>1, <2>3
<1>5. \A x \in Children(TranslationUnit) : x \in DeclContext \ {TranslationUnit}
  BY <1>2 DEF Children, MapLinked, Below
<1>6. CallsDistinct' /\ PendingNew' /\ OpenedAround'
  BY <1>1, <1>4, <1>5 DEF CallsDistinct, PendingNew, OpenedAround, Symbol, Opened, Declaration
<1>7. AccessWithFunction'
  BY <1>3, RawSymbols DEF RawOnce, AccessWithFunction, Granted, Declaration
<1>8. DeclaredOnce'
  <2>1. \A symbol \in item.declares : symbol \notin Declared
    BY <1>2 DEF Item
  <2> QED
    BY <1>1, <1>2, <2>1, WrittenOnce
<1> QED
  BY <1>6, <1>7, <1>8 DEF RawOnce

LEMMA EnterOnce == ASSUME RawInv, RawOnce, VisitContext PROVE RawOnce'
<1> PICK n : n = Len(stack)
  OBVIOUS
<1>0. /\ InClass /\ Buffer /\ stack # <<>> /\ StackLinked
      /\ n \in Nat \ {0} /\ DOMAIN stack = 1 .. n /\ n \in 1 .. n
      /\ Active = stack[n] /\ Active.context \in Context
      /\ \A y \in Active.children : Below(y, Active.context)
  BY RawActive DEF VisitContext, InClass, RawInv
<1> PICK c \in Active.children : Enter(c) /\ Write(Item({Opened(c)}, {Opened(Active.context)}))
  BY DEF VisitContext
<1>1. Kind[c] \in ClassKind /\ stack' = Append(WithoutChild(c), Frame(c))
  BY DEF Enter
<1>2. c \in Context /\ c \in DeclContext /\ Symbol(c) = Opened(c) /\ Below(c, stack[n].context)
  BY <1>0, <1>1, FunctionsApart DEF Below, Symbol
<1>3. /\ DOMAIN stack' = 1 .. n + 1
      /\ stack'[n + 1].context = c /\ stack'[n + 1].children = Children(c)
      /\ \A i \in 1 .. n :
            /\ stack'[i].context = stack[i].context
            /\ i # n => stack'[i].children = stack[i].children
            /\ i = n => stack'[i].children = stack[i].children \ {c}
  <2> PICK rest : rest = WithoutChild(c)
    OBVIOUS
  <2>1. /\ rest \in Seq(FrameSet) /\ Len(rest) = n
        /\ \A i \in 1 .. n :
              /\ rest[i].context = stack[i].context
              /\ i # n => rest[i].children = stack[i].children
              /\ i = n => rest[i].children = stack[i].children \ {c}
    BY <1>0, TakenChildren
  <2> PICK frame : frame = Frame(c)
    OBVIOUS
  <2>2. frame.context = c /\ frame.children = Children(c)
    BY DEF Frame
  <2>3. frame \in FrameSet
    <3>1. Children(c) \subseteq DeclContext
      BY DEF Children, RawInv, MapLinked, Below
    <3> QED
      BY <1>2, <3>1 DEF Frame, FrameSet
  <2>4. /\ DOMAIN stack' = 1 .. n + 1 /\ stack'[n + 1] = frame
        /\ \A i \in 1 .. n : stack'[i] = rest[i]
    BY <1>0, <1>1, <2>1, <2>3
  <2> QED
    BY <2>1, <2>2, <2>4
<1>4. Declared' = Declared \cup {Opened(c)}
  BY <1>0, WrittenDeclares DEF Item
<1>5. \A y \in DeclContext : Symbol(y) \in Declared' => Symbol(y) \in Declared \/ y = c
  BY <1>2, <1>4, RawSymbols
<1>6. /\ Opened(c) \notin Declared /\ OpenedAround'
      /\ \A i \in 1 .. n : \A y \in stack'[i].children : Symbol(y) \notin Declared'
  BY <1>0, <1>2, <1>3, <1>4, <1>5, TakenOnce
<1>7. \A i \in 1 .. n : Opened(stack[i].context) \in Declared
  BY <1>0 DEF RawInv
<1>8. \A y \in Children(c) : Symbol(y) \notin Declared'
  <2> SUFFICES ASSUME NEW y \in Children(c) PROVE Symbol(y) \notin Declared'
    OBVIOUS
  <2>1. Below(y, c)
    BY DEF Children, RawInv, MapLinked
  <2>2. y \in DeclContext \ {TranslationUnit} /\ PrimaryParent(y) = c
    BY <2>1 DEF Below
  <2>3. Symbol(y) \notin Declared
    BY <1>6, <2>2 DEF RawOnce, OpenedAround
  <2>4. y # c
    <3>1. PrimaryParent(c) = stack[n].context
      BY <1>2 DEF Below
    <3> QED
      BY <1>0, <1>6, <1>7, <2>2, <3>1
  <2> QED
    BY <1>5, <2>2, <2>3, <2>4
<1>9. \A i \in DOMAIN stack' : i \in 1 .. n \/ i = n + 1
  BY <1>0, <1>3
<1>10. PendingNew'
  <2>1. \A i \in DOMAIN stack' : \A y \in stack'[i].children : Symbol(y) \notin Declared'
    BY <1>3, <1>6, <1>8, <1>9
  <2> QED
    BY <2>1 DEF PendingNew, Symbol, Opened, Declaration
<1>11. CallsDistinct'
  <2>1. \A i \in 1 .. n : stack'[i].context # c
    BY <1>3, <1>6, <1>7
  <2>2. \A i, j \in 1 .. n : stack'[i].context = stack'[j].context => i = j
    BY <1>0, <1>3 DEF RawOnce, CallsDistinct
  <2> QED
    BY <1>3, <1>9, <2>1, <2>2 DEF CallsDistinct
<1>12. AccessWithFunction'
  BY <1>4, RawSymbols DEF RawOnce, AccessWithFunction, Granted, Declaration
<1>13. DeclaredOnce'
  <2> PICK item : item = Item({Opened(c)}, {Opened(Active.context)})
    OBVIOUS
  <2>1. Write(item) /\ \A symbol \in item.declares : symbol \notin Declared
    BY <1>6 DEF Item, Write
  <2> QED
    BY <1>0, <2>1, WrittenOnce DEF RawOnce
<1> QED
  BY <1>6, <1>10, <1>11, <1>12, <1>13 DEF RawOnce

\* A child that no call is made for.
LEMMA VisitedCalls ==
    ASSUME RawInv, RawOnce, InClass, NEW x \in Active.children, Visit(x)
    PROVE  /\ DOMAIN stack' = DOMAIN stack /\ CallsDistinct'
           /\ \A i \in DOMAIN stack :
                /\ i # Len(stack) => stack'[i].children = stack[i].children
                /\ i = Len(stack) => stack'[i].children = stack[i].children \ {x}
<1> PICK rest : rest = WithoutChild(x)
  OBVIOUS
<1>1. /\ DOMAIN rest = DOMAIN stack
      /\ \A i \in DOMAIN stack :
            /\ rest[i].context = stack[i].context
            /\ i # Len(stack) => rest[i].children = stack[i].children
            /\ i = Len(stack) => rest[i].children = stack[i].children \ {x}
  BY TakenChildren
<1>2. stack' = rest
  BY DEF Visit
<1>3. CallsDistinct'
  BY <1>1, <1>2 DEF RawOnce, CallsDistinct
<1> QED
  BY <1>1, <1>2, <1>3

LEMMA FunctionOnce == ASSUME ContextKinds, RawInv, RawOnce, VisitFunction PROVE RawOnce'
<1>0. InClass /\ Buffer /\ \A y \in Active.children : Below(y, Active.context)
  BY RawActive DEF VisitFunction, RawInv
<1> PICK f \in Active.children :
       /\ Visit(f) /\ Kind[f] \in FunctionKind
       /\ Write(Item({Declaration(f), Granted(f, InEffect(f))}, {Opened(Active.context)}))
  BY DEF VisitFunction
<1> PICK access : access = InEffect(f)
  OBVIOUS
<1>1. f \in FunctionDecl /\ f \notin Context /\ f \in DeclContext /\ Symbol(f) = Declaration(f)
  BY <1>0 DEF ContextKinds, Below, DeclContext, Symbol
<1>2. Declared' = Declared \cup {Declaration(f), Granted(f, access)}
  BY <1>0, WrittenDeclares DEF Item
<1>3. /\ DOMAIN stack' = DOMAIN stack /\ CallsDistinct'
      /\ \A i \in DOMAIN stack :
           /\ i # Len(stack) => stack'[i].children = stack[i].children
           /\ i = Len(stack) => stack'[i].children = stack[i].children \ {f}
  BY <1>0, VisitedCalls
<1>4. \A y \in DeclContext : Symbol(y) \in Declared' => Symbol(y) \in Declared \/ y = f
  BY <1>1, <1>2, RawSymbols
<1>5. /\ Declaration(f) \notin Declared /\ OpenedAround'
      /\ \A i \in DOMAIN stack : \A y \in stack'[i].children : Symbol(y) \notin Declared'
  BY <1>0, <1>1, <1>2, <1>3, <1>4, TakenOnce
<1>6. PendingNew'
  BY <1>3, <1>5 DEF PendingNew, Symbol, Opened, Declaration
<1>7. AccessWithFunction'
  <2> SUFFICES ASSUME NEW g, NEW a, Granted(g, a) \in Declared'
               PROVE  Declaration(g) \in Declared'
    BY DEF AccessWithFunction, Granted, Declaration
  <2>1. Granted(g, a) \in Declared \/ Granted(g, a) = Granted(f, access)
    BY <1>2, RawSymbols
  <2> QED
    BY <1>2, <2>1, RawSymbols DEF RawOnce, AccessWithFunction
<1>8. DeclaredOnce'
  <2> PICK item : item = Item({Declaration(f), Granted(f, access)}, {Opened(Active.context)})
    OBVIOUS
  <2>1. Granted(f, access) \notin Declared
    BY <1>5 DEF RawOnce, AccessWithFunction
  <2>2. Write(item) /\ \A symbol \in item.declares : symbol \notin Declared
    BY <1>5, <2>1 DEF Item, Write
  <2> QED
    BY <1>0, <2>2, WrittenOnce DEF RawOnce
<1> QED
  BY <1>3, <1>5, <1>6, <1>7, <1>8 DEF RawOnce

LEMMA OtherOnce == ASSUME RawInv, RawOnce, VisitOther PROVE RawOnce'
<1> PICK x \in Active.children : Visit(x)
  BY DEF VisitOther
<1>1. InClass /\ Declared' = Declared /\ DeclaredOnce'
  BY SameOnce DEF VisitOther, RawOnce
<1>2. /\ DOMAIN stack' = DOMAIN stack /\ CallsDistinct'
      /\ \A i \in DOMAIN stack :
           /\ i # Len(stack) => stack'[i].children = stack[i].children
           /\ i = Len(stack) => stack'[i].children = stack[i].children \ {x}
  BY <1>1, VisitedCalls
<1>3. /\ OpenedAround'
      /\ \A i \in DOMAIN stack : \A y \in stack'[i].children : Symbol(y) \notin Declared'
  BY <1>1, <1>2, TakenOnce
<1>4. PendingNew' /\ AccessWithFunction'
  BY <1>1, <1>2, <1>3
  DEF RawOnce, PendingNew, AccessWithFunction, Symbol, Opened, Declaration, Granted
<1> QED
  BY <1>1, <1>2, <1>3, <1>4 DEF RawOnce

\* The steps that end a call or make none.
LEMMA LeftOnce ==
    ASSUME RawOnce, UNCHANGED out, DOMAIN stack' \subseteq DOMAIN stack,
           \A i \in DOMAIN stack' : stack'[i] = stack[i]
    PROVE  RawOnce'
<1>1. Declared' = Declared /\ DeclaredOnce'
  BY SameOnce DEF RawOnce
<1> QED
  BY <1>1 DEF RawOnce, CallsDistinct, PendingNew, OpenedAround, AccessWithFunction,
              Symbol, Opened, Declaration, Granted, PrimaryParent

LEMMA CloseOnce == ASSUME RawInv, RawOnce, CloseContext PROVE RawOnce'
<1>1. /\ InClass /\ stack' = SubSeq(stack, 1, Len(stack) - 1) /\ UNCHANGED out
  BY DEF CloseContext, Leave, Front
<1>2. /\ stack \in Seq(FrameSet) /\ Len(stack) \in Nat \ {0} /\ DOMAIN stack = 1 .. Len(stack)
  BY <1>1, RawActive
<1>3. /\ DOMAIN stack' \subseteq DOMAIN stack
      /\ \A i \in DOMAIN stack' : stack'[i] = stack[i]
  BY <1>1, <1>2
<1> QED
  BY <1>1, <1>3, LeftOnce

LEMMA RawOnceStep ==
    ContextKinds /\ RawInv /\ RawWritten /\ RawOnce /\ [Next]_vars => RawOnce'
<1> SUFFICES ASSUME ContextKinds, RawInv, RawWritten, RawOnce, [Next]_vars PROVE RawOnce'
  OBVIOUS
<1>1. CASE MapStep \/ Finish \/ UNCHANGED vars
  <2>1. UNCHANGED <<stack, out>>
    BY <1>1 DEF MapStep, Finish, vars, generatorVars
  <2> QED
    BY <2>1, LeftOnce
<1> QED
  BY <1>1, StartOnce, EnterOnce, FunctionOnce, OtherOnce, CloseOnce DEF Next

LEMMA RawOnceInit == Init => RawOnce
<1> SUFFICES ASSUME Init PROVE RawOnce
  OBVIOUS
<1>1. stack = <<>> /\ out = <<>>
  BY DEF Init, InitGenerator
<1>2. Declared = {} /\ DOMAIN out = {} /\ DOMAIN stack = {}
  <2>1. Len(out) = 0
    BY <1>1
  <2> QED
    BY <1>1, <2>1 DEF Declared, DeclaredBy
<1> QED
  BY <1>2 DEF RawOnce, CallsDistinct, PendingNew, OpenedAround, AccessWithFunction, DeclaredOnce

-----------------------------------------------------------------------------
\* Read by a compiler, the output of Raw gives every function the access it has
\* in the source, members of nested records excepted.
THEOREM AccessesOfRaw ==
    ASSUME ContextKinds, AccessOfMembers PROVE Spec => []AccessFaithful
<1>1. RawInv /\ [Next]_vars => RawInv'
  BY RawStep, RawStutter
<1>2. RawInv => AccessFaithful
  BY DEF RawInv
<1> QED
  BY RawInit, <1>1, <1>2, PTL DEF Spec

\* When run returns, exactly those collected functions have been declared that
\* the walk comes to: those in namespaces and records, however often these are
\* reopened, but not those in a linkage specification.
THEOREM DeclaresWalked ==
    ASSUME ContextKinds, AccessOfMembers
    PROVE  Spec => [](pc = "done" => DefinedAs("declaration", FunctionDecl)
                                       = {f \in Range(FunctionDecls) : Walked[PrimaryParent(f)]})
<1>1. RawInv /\ RawWritten /\ [Next]_vars => RawInv' /\ RawWritten'
  BY RawStep, RawStutter, RawWrittenStep
<1>2. RawInv /\ RawWritten =>
        (pc = "done" => DefinedAs("declaration", FunctionDecl)
                          = {f \in Range(FunctionDecls) : Walked[PrimaryParent(f)]})
  BY AllWritten
<1> QED
  BY RawInit, RawWrittenInit, <1>1, <1>2, PTL DEF Spec

\* Raw opens no context and declares no function a second time: reopened
\* namespaces and redeclared records are one entry of the map.
THEOREM RawDeclaresOnce ==
    ASSUME ContextKinds, AccessOfMembers PROVE Spec => []DeclaredOnce
<1>1. RawInv /\ RawWritten /\ RawOnce /\ [Next]_vars => RawInv' /\ RawWritten' /\ RawOnce'
  BY RawStep, RawStutter, RawWrittenStep, RawOnceStep
<1>2. RawOnce => DeclaredOnce
  BY DEF RawOnce
<1> QED
  BY RawInit, RawWrittenInit, RawOnceInit, <1>1, <1>2, PTL DEF Spec
=============================================================================
