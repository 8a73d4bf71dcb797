--------------------------- MODULE CBackendProofs ---------------------------
(***************************************************************************)
(* Theorems about the two backends for C, FFF and CMocka, for every list   *)
(* of functions and variables, whatever their parameters are.              *)
(***************************************************************************)
EXTENDS FFF, OutputProofs

CONSTANT OutputParameters    \* see CMocka

K == INSTANCE CMocka

(***************************************************************************)
(* The invariant.                                                          *)
(***************************************************************************)
FFFTypeOK ==
    /\ FunctionDecls \in Seq(FunctionDecl)
    /\ next \in Nat \ {0} /\ parm \in Nat \ {0}
    /\ pc \in {"settings", "list", "typedefs", "fakes", "globals", "done"}
    /\ pc \in {"settings", "list"} => parm = 1 /\ DOMAIN TypedefMap = {}
    /\ pc = "settings" => next = 1
    /\ Buffer

\* A typedef in the table was made from a parameter of its type, and has been
\* written.
TypedefsMade ==
    \A base \in DOMAIN TypedefMap :
        /\ TypedefMap[base] \in Declared
        /\ \E g \in Range(FunctionDecls) : \E j \in DOMAIN Parameters[g] :
              /\ TypedefMap[base] = Typedef(g, j)
              /\ Parameters[g][j].type.base = base

\* The loops have passed parameter i of function m.
Passed(m, i) ==
    \/ pc = "typedefs" /\ (m < next \/ (m = next /\ i < parm))
    \/ pc \in {"fakes", "globals", "done"}

\* Every type that needs a typedef has one once the loops have passed it.
TypedefsComplete ==
    \A m \in DOMAIN FunctionDecls : \A i \in DOMAIN Parameters[FunctionDecls[m]] :
        LET type == Parameters[FunctionDecls[m]][i].type
        IN  Passed(m, i) /\ SpelledOut(type) => type.base \in DOMAIN TypedefMap

\* What FunctionPointersNamed says of one symbol.
Named(symbol) ==
    symbol[1] = "parameter" /\ SpelledOut(Parameters[symbol[2]][symbol[3]].type) =>
        \E g \in Range(FunctionDecls) : \E j \in DOMAIN Parameters[g] :
            /\ symbol[4] = Typedef(g, j)
            /\ Parameters[g][j].type.base = Parameters[symbol[2]][symbol[3]].type.base

FFFInv ==
    /\ FFFTypeOK
    /\ TypedefsMade /\ TypedefsComplete
    /\ pc # "settings" => Framework \in Declared
    /\ DeclaredBeforeUse
    /\ FunctionPointersNamed

LEMMA FFFInvInit == Init => FFFInv
<1> SUFFICES ASSUME Init PROVE FFFInv
  OBVIOUS
<1>1. out = <<>> /\ next = 1 /\ parm = 1 /\ pc = "settings" /\ DOMAIN TypedefMap = {}
  BY DEF Init, InitContexts, InitGenerator, InitFFF
<1>2. FunctionDecls \in Seq(FunctionDecl)
  BY ListAssumption DEF Init, InitContexts
<1>3. out \in Seq({}) /\ DOMAIN out = {}
  BY <1>1
<1>4. FFFTypeOK
  BY <1>1, <1>2, <1>3 DEF FFFTypeOK, Buffer
<1>5. TypedefsMade /\ TypedefsComplete
  BY <1>1 DEF TypedefsMade, TypedefsComplete, Passed
<1>6. DeclaredBeforeUse /\ FunctionPointersNamed
  BY <1>3 DEF DeclaredBeforeUse, FunctionPointersNamed
<1> QED
  BY <1>1, <1>4, <1>5, <1>6 DEF FFFInv

\* Writing an item whose parameters have the right names.
LEMMA WrittenNames ==
    ASSUME Buffer, NEW item, Write(item), UNCHANGED FunctionDecls,
           FunctionPointersNamed,
           \A symbol \in item.declares : Named(symbol)
    PROVE  FunctionPointersNamed'
<1>1. /\ DOMAIN out = 1 .. Len(out) /\ Len(out) \in Nat
      /\ DOMAIN out' = 1 .. Len(out) + 1
      /\ out'[Len(out) + 1] = item
      /\ \A n \in 1 .. Len(out) : out'[n] = out[n]
  BY Written
<1>2. \A n \in DOMAIN out : \A symbol \in out[n].declares : Named(symbol)
  BY DEF FunctionPointersNamed, Named
<1>3. \A n \in DOMAIN out' : \A symbol \in out'[n].declares : Named(symbol)
  <2>1. \A n \in DOMAIN out' : n \in DOMAIN out \/ n = Len(out) + 1
    BY <1>1
  <2> QED
    BY <1>1, <1>2, <2>1
<1>4. \A symbol : Named(symbol)' = Named(symbol)
  BY DEF Named
<1> QED
  BY <1>3, <1>4 DEF FunctionPointersNamed, Named

\* A step that writes one item, for all parts of the invariant about items.
LEMMA WriteStep ==
    ASSUME FFFInv, NEW item, Write(item), UNCHANGED FunctionDecls,
           item.uses \subseteq Declared,
           \A symbol \in item.declares : Named(symbol)
    PROVE  /\ Buffer' /\ DeclaredBeforeUse' /\ FunctionPointersNamed'
           /\ Declared' = Declared \cup item.declares
BY Written, WrittenUses, WrittenNames DEF FFFInv, FFFTypeOK

\* A step that writes nothing.
LEMMA SameOutput ==
    ASSUME FFFInv, UNCHANGED <<out, FunctionDecls>>
    PROVE  /\ Buffer' /\ DeclaredBeforeUse' /\ FunctionPointersNamed'
           /\ Declared' = Declared
<1>1. Declared' = Declared /\ \A n : DeclaredBy(n)' = DeclaredBy(n)
  BY DEF Declared, DeclaredBy
<1> QED
  BY <1>1 DEF FFFInv, FFFTypeOK, Buffer, DeclaredBeforeUse, FunctionPointersNamed

\* Only the symbols of fakes are parameters.
LEMMA OtherSymbols ==
    ASSUME NEW symbol, symbol[1] # "parameter" PROVE Named(symbol)
BY DEF Named

-----------------------------------------------------------------------------
(***************************************************************************)
(* The steps.                                                              *)
(***************************************************************************)
LEMMA SettingsStep ==
    ASSUME FFFInv, WriteSettings PROVE FFFInv'
<1> DEFINE first == Item({Setting(s) : s \in Settings}, {})
           second == Item({Framework}, {Setting(s) : s \in Settings})
           items == <<first, second>>
<1>1. /\ pc = "settings" /\ pc' = "list" /\ parm = 1 /\ next = 1
      /\ out' = out \o items
      /\ UNCHANGED <<FunctionDecls, next, parm, TypedefMap>>
      /\ Buffer /\ DeclaredBeforeUse
  BY DEF FFFInv, FFFTypeOK, WriteSettings, Preamble, contextVars
<1>2. first.uses = {} /\ second.uses \subseteq first.declares /\ Framework \in second.declares
  BY DEF Item
<1>3. \A symbol \in first.declares \cup second.declares : Named(symbol)
  BY OtherSymbols DEF Item, Setting, Framework
<1> HIDE DEF first, second
<1>4. /\ items \in Seq({first, second}) /\ Len(items) = 2
      /\ items[1] = first /\ items[2] = second
      /\ \A n \in 1 .. 2 : n = 1 \/ n = 2
  OBVIOUS
<1> HIDE DEF items
<1>5. /\ Buffer' /\ Len(out) \in Nat /\ DOMAIN out = 1 .. Len(out)
      /\ DOMAIN out' = 1 .. Len(out) + 2
      /\ \A n \in 1 .. Len(out) : out'[n] = out[n]
      /\ \A n \in 1 .. 2 : out'[Len(out) + n] = items[n]
  BY <1>1, <1>4, WrittenItems
<1>6. /\ DeclaredBeforeUse'
      /\ Declared' = Declared \cup UNION {items[n].declares : n \in 1 .. 2}
  <2>1. \A n \in 1 .. Len(items) : \A symbol \in items[n].uses :
          \/ FixtureMember(symbol) \/ symbol \in Declared
          \/ \E m \in 1 .. n : symbol \in items[m].declares
    BY <1>2, <1>4
  <2>2. /\ DeclaredBeforeUse'
        /\ Declared' = Declared \cup UNION {items[n].declares : n \in 1 .. Len(items)}
    <3>1. Buffer /\ DeclaredBeforeUse /\ out' = out \o items
      BY <1>1
    <3>2. items \in Seq({first, second})
      BY <1>4
    <3> QED
      <4>1. \A S : items \in Seq(S) =>
              /\ DeclaredBeforeUse'
              /\ Declared' = Declared \cup UNION {items[n].declares : n \in 1 .. Len(items)}
        BY <2>1, <3>1, WrittenItemsUses, Zenon
      <4> QED
        BY <3>2, <4>1
  <2> QED
    BY <1>4, <2>2
<1>7. FFFTypeOK'
  BY <1>1, <1>5 DEF FFFInv, FFFTypeOK
<1>8. TypedefsMade' /\ TypedefsComplete'
  BY <1>1 DEF FFFInv, FFFTypeOK, TypedefsMade, TypedefsComplete, Passed
<1>9. Framework \in Declared'
  BY <1>2, <1>4, <1>6
<1>10. FunctionPointersNamed'
  <2>1. ASSUME NEW k \in DOMAIN out', NEW symbol \in out'[k].declares PROVE Named(symbol)
    <3>1. CASE k \in DOMAIN out
      BY <1>5, <2>1, <3>1 DEF FFFInv, FunctionPointersNamed, Named
    <3>2. CASE k \notin DOMAIN out
      <4>1. k = Len(out) + 1 \/ k = Len(out) + 2
        BY <1>5, <3>2
      <4> QED
        BY <1>3, <1>4, <1>5, <2>1, <4>1
    <3> QED
      BY <3>1, <3>2
  <2>2. \A symbol : Named(symbol)' = Named(symbol)
    BY <1>1 DEF Named
  <2> QED
    BY <2>1, <2>2 DEF FunctionPointersNamed, Named
<1> QED
  BY <1>1, <1>6, <1>7, <1>8, <1>9, <1>10 DEF FFFInv

LEMMA ListStep ==
    ASSUME FFFInv, WriteListEntry PROVE FFFInv'
<1> DEFINE item == Item({Listed(FunctionDecls[next])}, {})
<1>1. /\ Write(item) /\ pc = "list" /\ next' = next + 1
      /\ UNCHANGED <<FunctionDecls, pc, parm, TypedefMap>>
  BY DEF WriteListEntry, contextVars
<1>2. \A symbol \in item.declares : Named(symbol)
  BY OtherSymbols DEF Item, Listed
<1>3. item.uses = {}
  BY DEF Item
<1> HIDE DEF item
<1>4. /\ Buffer' /\ DeclaredBeforeUse' /\ FunctionPointersNamed'
      /\ Declared' = Declared \cup item.declares
  BY <1>1, <1>2, <1>3, WriteStep
<1>5. FFFTypeOK'
  BY <1>1, <1>4 DEF FFFInv, FFFTypeOK
<1>6. TypedefsMade' /\ TypedefsComplete'
  BY <1>1 DEF FFFInv, FFFTypeOK, TypedefsMade, TypedefsComplete, Passed
<1> QED
  BY <1>1, <1>4, <1>5, <1>6 DEF FFFInv

\* The loop over the typedefs has passed every parameter when it ends.
LEMMA EndLoopStep ==
    ASSUME FFFInv,
           EndLoop("list", "typedefs") \/ EndLoop("typedefs", "fakes")
               \/ EndLoop("fakes", "globals")
    PROVE  FFFInv'
<1>1. UNCHANGED <<FunctionDecls, out, parm, TypedefMap>> /\ next' = 1
  BY DEF EndLoop, contextVars
<1>2. /\ Buffer' /\ DeclaredBeforeUse' /\ FunctionPointersNamed'
      /\ Declared' = Declared
  BY <1>1, SameOutput
<1>3. FFFTypeOK'
  BY <1>1, <1>2 DEF FFFInv, FFFTypeOK, EndLoop
<1>4. TypedefsMade'
  BY <1>1, <1>2 DEF FFFInv, TypedefsMade
<1>5. TypedefsComplete'
  <2> SUFFICES ASSUME NEW m \in DOMAIN FunctionDecls,
                      NEW i \in DOMAIN Parameters[FunctionDecls[m]],
                      Passed(m, i)'
               PROVE  Passed(m, i)
    BY <1>1 DEF FFFInv, TypedefsComplete
  <2>1. /\ m \in Nat /\ 1 <= m /\ m <= Len(FunctionDecls) /\ Len(FunctionDecls) \in Nat
        /\ FunctionDecls[m] \in FunctionDecl
    BY DEF FFFInv, FFFTypeOK
  <2>2. i \in Nat /\ 1 <= i
    BY <2>1, ParameterAssumption
  <2>3. CASE EndLoop("list", "typedefs")
    BY <1>1, <2>1, <2>2, <2>3 DEF EndLoop, Passed, FFFInv, FFFTypeOK
  <2>4. CASE EndLoop("typedefs", "fakes")
    BY <1>1, <2>1, <2>4 DEF EndLoop, Passed, FFFInv, FFFTypeOK
  <2>5. CASE EndLoop("fakes", "globals")
    BY <2>5 DEF EndLoop, Passed
  <2> QED
    BY <2>3, <2>4, <2>5
<1>6. pc' # "settings" => Framework \in Declared'
  BY <1>2 DEF EndLoop, FFFInv
<1> QED
  BY <1>2, <1>3, <1>4, <1>5, <1>6 DEF FFFInv

\* What is known of the parameter that is next.
LEMMA NextParameter ==
    ASSUME FFFInv, AtParameter
    PROVE  /\ next \in DOMAIN FunctionDecls /\ FunctionDecls[next] \in Range(FunctionDecls)
           /\ parm \in DOMAIN Parameters[FunctionDecls[next]]
           /\ pc = "typedefs"
<1>1. /\ next \in DOMAIN FunctionDecls /\ FunctionDecls[next] \in FunctionDecl
      /\ pc = "typedefs"
  BY DEF FFFInv, FFFTypeOK, AtParameter
<1>2. parm \in DOMAIN Parameters[FunctionDecls[next]]
  BY <1>1, ParameterAssumption DEF FFFInv, FFFTypeOK, AtParameter
<1> QED
  BY <1>1, <1>2 DEF Range

\* When a loop goes on by one parameter, what it has passed grows by that one.
LEMMA PassedNext ==
    ASSUME FFFInv, AtParameter, UNCHANGED <<FunctionDecls, next, pc>>, parm' = parm + 1,
           NEW m \in DOMAIN FunctionDecls,
           NEW i \in DOMAIN Parameters[FunctionDecls[m]],
           Passed(m, i)'
    PROVE  Passed(m, i) \/ (m = next /\ i = parm)
<1>1. m \in Nat /\ FunctionDecls[m] \in FunctionDecl
  BY DEF FFFInv, FFFTypeOK
<1>2. i \in Nat
  BY <1>1, ParameterAssumption
<1> QED
  BY <1>1, <1>2 DEF Passed, FFFInv, FFFTypeOK

LEMMA SkipStep ==
    ASSUME FFFInv, SkipParameter PROVE FFFInv'
<1>1. /\ AtParameter /\ parm' = parm + 1 /\ ~NeedsTypedef(ParameterType)
      /\ UNCHANGED <<FunctionDecls, next, pc, out, TypedefMap>>
  BY DEF SkipParameter, generatorVars, contextVars
<1>2. /\ Buffer' /\ DeclaredBeforeUse' /\ FunctionPointersNamed'
      /\ Declared' = Declared
  BY <1>1, SameOutput
<1>3. FFFTypeOK'
  BY <1>1, <1>2 DEF FFFInv, FFFTypeOK, AtParameter
<1>4. TypedefsMade'
  BY <1>1, <1>2 DEF FFFInv, TypedefsMade
<1>5. TypedefsComplete'
  <2> SUFFICES ASSUME NEW m \in DOMAIN FunctionDecls,
                      NEW i \in DOMAIN Parameters[FunctionDecls[m]],
                      Passed(m, i)', SpelledOut(Parameters[FunctionDecls[m]][i].type)
               PROVE  Parameters[FunctionDecls[m]][i].type.base \in DOMAIN TypedefMap
    BY <1>1 DEF TypedefsComplete, SpelledOut, IsFunctionPointer
  <2>1. CASE Passed(m, i)
    BY <2>1 DEF FFFInv, TypedefsComplete
  <2>2. CASE m = next /\ i = parm
    BY <1>1, <2>2 DEF NeedsTypedef, ParameterType, SpelledOut
  <2> QED
    BY <1>1, <2>1, <2>2, PassedNext
<1> QED
  BY <1>1, <1>2, <1>3, <1>4, <1>5 DEF FFFInv

LEMMA CreateStep ==
    ASSUME FFFInv, CreateTypedef PROVE FFFInv'
<1> DEFINE f == FunctionDecls[next]
           name == Typedef(f, parm)
           item == Item({name}, {})
           base == ParameterType.base
<1>1. /\ AtParameter /\ parm' = parm + 1
      /\ TypedefMap' = Stored(base, name) /\ Write(item)
      /\ UNCHANGED <<FunctionDecls, next, pc>>
  BY DEF CreateTypedef, ParameterAfter, contextVars
<1>2. \A symbol \in item.declares : Named(symbol)
  BY OtherSymbols DEF Item, Typedef
<1>3. item.uses = {} /\ name \in item.declares
  BY DEF Item
<1>4. /\ next \in DOMAIN FunctionDecls /\ f \in Range(FunctionDecls)
      /\ parm \in DOMAIN Parameters[f] /\ pc = "typedefs"
  BY <1>1, NextParameter
<1>5. Parameters[f][parm].type.base = base
  BY DEF ParameterType
<1>6. /\ DOMAIN TypedefMap' = DOMAIN TypedefMap \cup {base}
      /\ TypedefMap'[base] = name
      /\ \A x \in DOMAIN TypedefMap : x # base => TypedefMap'[x] = TypedefMap[x]
  BY <1>1 DEF Stored
<1> HIDE DEF item, base
<1>7. /\ Buffer' /\ DeclaredBeforeUse' /\ FunctionPointersNamed'
      /\ Declared' = Declared \cup item.declares
  BY <1>1, <1>2, <1>3, WriteStep
<1>8. FFFTypeOK'
  BY <1>1, <1>4, <1>7 DEF FFFInv, FFFTypeOK
<1>9. TypedefsMade'
  <2> SUFFICES ASSUME NEW x \in DOMAIN TypedefMap'
               PROVE  /\ TypedefMap'[x] \in Declared'
                      /\ \E g \in Range(FunctionDecls) : \E j \in DOMAIN Parameters[g] :
                            TypedefMap'[x] = Typedef(g, j) /\ Parameters[g][j].type.base = x
    BY <1>1 DEF TypedefsMade, Typedef
  <2>1. CASE x = base
    BY <1>3, <1>4, <1>5, <1>6, <1>7, <2>1
  <2>2. CASE x \in DOMAIN TypedefMap /\ x # base
    BY <1>6, <1>7, <2>2 DEF FFFInv, TypedefsMade
  <2> QED
    BY <1>6, <2>1, <2>2
<1>10. TypedefsComplete'
  <2> SUFFICES ASSUME NEW m \in DOMAIN FunctionDecls,
                      NEW i \in DOMAIN Parameters[FunctionDecls[m]],
                      Passed(m, i)', SpelledOut(Parameters[FunctionDecls[m]][i].type)
               PROVE  Parameters[FunctionDecls[m]][i].type.base \in DOMAIN TypedefMap'
    BY <1>1 DEF TypedefsComplete, SpelledOut, IsFunctionPointer
  <2>1. CASE Passed(m, i)
    BY <1>6, <2>1 DEF FFFInv, TypedefsComplete
  <2>2. CASE m = next /\ i = parm
    BY <1>5, <1>6, <2>2
  <2> QED
    BY <1>1, <2>1, <2>2, PassedNext
<1>11. Framework \in Declared'
  BY <1>4, <1>7 DEF FFFInv
<1> QED
  BY <1>7, <1>8, <1>9, <1>10, <1>11 DEF FFFInv

LEMMA EndParametersStep ==
    ASSUME FFFInv, EndParameters PROVE FFFInv'
<1>1. /\ pc = "typedefs" /\ next' = next + 1 /\ parm' = 1
      /\ next <= Len(FunctionDecls) /\ parm > Len(Parameters[FunctionDecls[next]])
      /\ UNCHANGED <<FunctionDecls, pc, out, TypedefMap>>
  BY DEF EndParameters, contextVars
<1>2. /\ Buffer' /\ DeclaredBeforeUse' /\ FunctionPointersNamed'
      /\ Declared' = Declared
  BY <1>1, SameOutput
<1>3. FFFTypeOK'
  BY <1>1, <1>2 DEF FFFInv, FFFTypeOK
<1>4. TypedefsMade'
  BY <1>1, <1>2 DEF FFFInv, TypedefsMade
<1>5. TypedefsComplete'
  <2> SUFFICES ASSUME NEW m \in DOMAIN FunctionDecls,
                      NEW i \in DOMAIN Parameters[FunctionDecls[m]],
                      Passed(m, i)'
               PROVE  Passed(m, i)
    BY <1>1 DEF FFFInv, TypedefsComplete
  <2>1. m \in Nat /\ FunctionDecls[m] \in FunctionDecl
    BY DEF FFFInv, FFFTypeOK
  <2>2. /\ i \in 1 .. Len(Parameters[FunctionDecls[m]])
        /\ Len(Parameters[FunctionDecls[m]]) \in Nat
    BY <2>1, ParameterAssumption
  <2> QED
    BY <1>1, <2>1, <2>2 DEF Passed, FFFInv, FFFTypeOK
<1> QED
  BY <1>1, <1>2, <1>3, <1>4, <1>5 DEF FFFInv

\* A fake takes its typedefs from the table, which has all it needs.
LEMMA FakeStep ==
    ASSUME FFFInv, WriteFake PROVE FFFInv'
<1> DEFINE f == FunctionDecls[next]
           item == FakeItem(f)
<1>1. /\ pc = "fakes" /\ next \in DOMAIN FunctionDecls /\ next' = next + 1
      /\ Write(item)
      /\ UNCHANGED <<FunctionDecls, pc, parm, TypedefMap>>
  BY DEF WriteFake, contextVars, FFFInv, FFFTypeOK
<1>2. item.uses \subseteq Declared
  <2> SUFFICES ASSUME NEW i \in DOMAIN Parameters[f], IsTypedef(PrintedType(f, i))
               PROVE  PrintedType(f, i) \in Declared
    BY <1>1 DEF FakeItem, Item, FFFInv
  <2>1. Parameters[f][i].type.base \in DOMAIN TypedefMap
    BY DEF PrintedType, IsTypedef
  <2> QED
    BY <2>1 DEF PrintedType, FFFInv, TypedefsMade
<1>3. ASSUME NEW i \in DOMAIN Parameters[f]
      PROVE  Named(Printed(f, i, PrintedType(f, i)))
  <2> DEFINE base == Parameters[f][i].type.base
  <2> SUFFICES ASSUME SpelledOut(Parameters[f][i].type)
               PROVE  \E g \in Range(FunctionDecls) : \E j \in DOMAIN Parameters[g] :
                          /\ PrintedType(f, i) = Typedef(g, j)
                          /\ Parameters[g][j].type.base = base
    BY DEF Named, Printed
  <2>1. base \in DOMAIN TypedefMap
    BY <1>1 DEF FFFInv, TypedefsComplete, Passed
  <2> QED
    BY <2>1 DEF PrintedType, FFFInv, TypedefsMade
<1>4. \A symbol \in item.declares : Named(symbol)
  <2>1. Named(Body(f))
    BY OtherSymbols DEF Body
  <2> QED
    BY <1>3, <2>1 DEF FakeItem, Item
<1> HIDE DEF item
<1>5. /\ Buffer' /\ DeclaredBeforeUse' /\ FunctionPointersNamed'
      /\ Declared' = Declared \cup item.declares
  BY <1>1, <1>2, <1>4, WriteStep
<1>6. FFFTypeOK'
  BY <1>1, <1>5 DEF FFFInv, FFFTypeOK
<1>7. TypedefsMade' /\ TypedefsComplete'
  BY <1>1, <1>5 DEF FFFInv, TypedefsMade, TypedefsComplete, Passed
<1> QED
  BY <1>1, <1>5, <1>6, <1>7 DEF FFFInv

LEMMA FakesGlobals ==
    ASSUME FFFInv, WriteGlobals PROVE FFFInv'
<1>1. CASE WriteGlobalVariable /\ UNCHANGED <<parm, TypedefMap>>
  <2> DEFINE v == VarDecls[next]
             item == GlobalVariableItem(v)
  <2>1. /\ pc = "globals" /\ next' = next + 1
        /\ Write(item) \/ UNCHANGED out
        /\ UNCHANGED <<FunctionDecls, pc, parm, TypedefMap>>
    BY <1>1 DEF WriteGlobalVariable, contextVars
  <2>2. item.uses = {} /\ \A symbol \in item.declares : Named(symbol)
    BY OtherSymbols DEF GlobalVariableItem, Item, Variable
  <2> HIDE DEF item
  <2>3. /\ Buffer' /\ DeclaredBeforeUse' /\ FunctionPointersNamed'
        /\ Declared \subseteq Declared'
    <3>1. CASE Write(item)
      BY <2>1, <2>2, <3>1, WriteStep
    <3>2. CASE UNCHANGED out
      BY <2>1, <3>2, SameOutput
    <3> QED
      BY <2>1, <3>1, <3>2
  <2>4. FFFTypeOK'
    BY <2>1, <2>3 DEF FFFInv, FFFTypeOK
  <2>5. TypedefsMade' /\ TypedefsComplete'
    BY <2>1, <2>3 DEF FFFInv, TypedefsMade, TypedefsComplete, Passed
  <2> QED
    BY <2>1, <2>3, <2>4, <2>5 DEF FFFInv
<1>2. CASE EndGlobalVariables("done") /\ UNCHANGED <<parm, TypedefMap>>
  <2>1. /\ pc = "globals" /\ pc' = "done" /\ next' = 1
        /\ UNCHANGED <<FunctionDecls, out, parm, TypedefMap>>
    BY <1>2 DEF EndGlobalVariables, contextVars
  <2>2. /\ Buffer' /\ DeclaredBeforeUse' /\ FunctionPointersNamed'
        /\ Declared' = Declared
    BY <2>1, SameOutput
  <2>3. FFFTypeOK'
    BY <2>1, <2>2 DEF FFFInv, FFFTypeOK
  <2>4. TypedefsMade' /\ TypedefsComplete'
    BY <2>1, <2>2 DEF FFFInv, TypedefsMade, TypedefsComplete, Passed
  <2> QED
    BY <2>1, <2>2, <2>3, <2>4 DEF FFFInv
<1> QED
  BY <1>1, <1>2 DEF WriteGlobals

LEMMA StutterStep ==
    ASSUME FFFInv, UNCHANGED vars PROVE FFFInv'
<1>1. UNCHANGED <<FunctionDecls, next, pc, out, parm, TypedefMap>>
  BY DEF vars, generatorVars, contextVars
<1>2. /\ Buffer' /\ DeclaredBeforeUse' /\ FunctionPointersNamed'
      /\ Declared' = Declared
  BY <1>1, SameOutput
<1> QED
  BY <1>1, <1>2 DEF FFFInv, FFFTypeOK, TypedefsMade, TypedefsComplete, Passed

-----------------------------------------------------------------------------
(***************************************************************************)
(* What the loops of FFF have written.                                     *)
(***************************************************************************)
FFFWritten ==
    /\ VarDecls \in Seq(VarDecl)
    /\ DefinedAs("FFF_FAKE_LIST", FunctionDecl)
         = Progress(FunctionDecls, "list", {"typedefs", "fakes", "globals", "done"})
    /\ DefinedAs("body", FunctionDecl) = Progress(FunctionDecls, "fakes", {"globals", "done"})
    /\ DefinedAs("variable", VarDecl) = Definable \cap Progress(VarDecls, "globals", {"done"})

\* In the parts before the loop nothing is written for it.
LEMMA SettingsWritten ==
    ASSUME FFFInv, FFFWritten, WriteSettings PROVE FFFWritten'
<1> DEFINE first == Item({Setting(s) : s \in Settings}, {})
           second == Item({Framework}, {Setting(s) : s \in Settings})
           items == <<first, second>>
<1>1. /\ pc = "settings" /\ pc' = "list" /\ next' = 1 /\ Buffer
      /\ out' = out \o items /\ UNCHANGED <<FunctionDecls, VarDecls>>
      /\ FunctionDecls \in Seq(FunctionDecl) /\ VarDecls \in Seq(VarDecl)
  BY DEF FFFInv, FFFTypeOK, FFFWritten, WriteSettings, Preamble, contextVars
<1>2. \A symbol \in first.declares \cup second.declares :
         symbol[1] \notin {"FFF_FAKE_LIST", "body", "variable"}
  BY DEF Item, Setting, Framework
<1> HIDE DEF first, second
<1>3. /\ items \in Seq({first, second}) /\ Len(items) = 2
      /\ items[1] = first /\ items[2] = second
      /\ \A n \in 1 .. 2 : n = 1 \/ n = 2
  OBVIOUS
<1> HIDE DEF items
<1>4. ASSUME NEW tag \in {"FFF_FAKE_LIST", "body", "variable"}
      PROVE  \A x : <<tag, x>> \in Declared' <=> <<tag, x>> \in Declared
  <2>1. \A n \in 1 .. Len(items) : \A symbol \in items[n].declares : symbol[1] # tag
    BY <1>2, <1>3
  <2>2. items \in Seq({first, second}) /\ out' = out \o items /\ Buffer
    BY <1>1, <1>3
  <2> QED
    BY <2>1, <2>2, DefinedOthers
<1>5. Before(FunctionDecls, 1) = {}
  BY <1>1, BeforeNext
<1> QED
  BY <1>1, <1>4, <1>5 DEF FFFWritten, Progress, DefinedAs, Definable

\* An item with at most one symbol for the loops of FFF.
LEMMA ListWritten ==
    ASSUME FFFInv, FFFWritten, WriteListEntry PROVE FFFWritten'
<1> DEFINE f == FunctionDecls[next]
           item == Item({Listed(f)}, {})
<1>1. /\ Write(item) /\ pc = "list" /\ next' = next + 1 /\ next <= Len(FunctionDecls)
      /\ UNCHANGED <<FunctionDecls, VarDecls, pc>> /\ Buffer
      /\ FunctionDecls \in Seq(FunctionDecl) /\ next \in Nat \ {0}
  BY DEF FFFInv, FFFTypeOK, WriteListEntry, contextVars
<1>2. f \in FunctionDecl /\ Before(FunctionDecls, next + 1) = Before(FunctionDecls, next) \cup {f}
  BY <1>1, BeforeNext
<1>3. item.declares = {<<"FFF_FAKE_LIST", f>>}
  BY DEF Item, Listed
<1> HIDE DEF item
<1>4. DefinedAs("FFF_FAKE_LIST", FunctionDecl)' = DefinedAs("FFF_FAKE_LIST", FunctionDecl) \cup {f}
  BY <1>1, <1>2, <1>3, DefinedMore DEF DefinedAs
<1>5. ASSUME NEW tag, NEW S, tag # "FFF_FAKE_LIST" PROVE DefinedAs(tag, S)' = DefinedAs(tag, S)
  BY <1>1, <1>3, <1>5, DefinedMore DEF DefinedAs
<1> QED
  BY <1>1, <1>2, <1>4, <1>5 DEF FFFWritten, Progress, DefinedAs, Definable

LEMMA TypedefWritten ==
    ASSUME FFFInv, FFFWritten, CreateTypedef PROVE FFFWritten'
<1> DEFINE item == Item({Typedef(FunctionDecls[next], parm)}, {})
<1>1. /\ Write(item) /\ pc = "typedefs" /\ UNCHANGED <<FunctionDecls, VarDecls, pc, next>>
      /\ Buffer
  BY DEF FFFInv, FFFTypeOK, CreateTypedef, AtParameter, contextVars
<1>2. \A symbol \in item.declares : symbol[1] = "typedef"
  BY DEF Item, Typedef
<1> HIDE DEF item
<1>3. ASSUME NEW tag, NEW S, tag # "typedef" PROVE DefinedAs(tag, S)' = DefinedAs(tag, S)
  BY <1>1, <1>2, <1>3, DefinedMore DEF DefinedAs
<1> QED
  BY <1>1, <1>3 DEF FFFWritten, Progress, DefinedAs, Definable

LEMMA FakeWritten ==
    ASSUME FFFInv, FFFWritten, WriteFake PROVE FFFWritten'
<1> DEFINE f == FunctionDecls[next]
           item == FakeItem(f)
<1>1. /\ Write(item) /\ pc = "fakes" /\ next' = next + 1 /\ next <= Len(FunctionDecls)
      /\ UNCHANGED <<FunctionDecls, VarDecls, pc>> /\ Buffer
      /\ FunctionDecls \in Seq(FunctionDecl) /\ next \in Nat \ {0}
  BY DEF FFFInv, FFFTypeOK, WriteFake, contextVars
<1>2. f \in FunctionDecl /\ Before(FunctionDecls, next + 1) = Before(FunctionDecls, next) \cup {f}
  BY <1>1, BeforeNext
<1>3. /\ <<"body", f>> \in item.declares
      /\ \A symbol \in item.declares : symbol = <<"body", f>> \/ symbol[1] = "parameter"
  BY DEF FakeItem, Item, Body, Printed
<1> HIDE DEF item
<1>4. DefinedAs("body", FunctionDecl)' = DefinedAs("body", FunctionDecl) \cup {f}
  BY <1>1, <1>2, <1>3, DefinedMore DEF DefinedAs
<1>5. ASSUME NEW tag, NEW S, tag \notin {"body", "parameter"}
      PROVE  DefinedAs(tag, S)' = DefinedAs(tag, S)
  BY <1>1, <1>3, <1>5, DefinedMore DEF DefinedAs
<1> QED
  BY <1>1, <1>2, <1>4, <1>5 DEF FFFWritten, Progress, DefinedAs, Definable

LEMMA FFFWrittenStep == FFFInv /\ FFFWritten /\ [Next]_vars => FFFWritten'
<1> SUFFICES ASSUME FFFInv, FFFWritten, [Next]_vars PROVE FFFWritten'
  OBVIOUS
<1>0. /\ FunctionDecls \in Seq(FunctionDecl) /\ VarDecls \in Seq(VarDecl)
      /\ next \in Nat \ {0} /\ Buffer
  BY DEF FFFInv, FFFTypeOK, FFFWritten
<1>1. /\ Before(FunctionDecls, 1) = {} /\ Before(VarDecls, 1) = {}
      /\ next > Len(FunctionDecls) => Before(FunctionDecls, next) = Range(FunctionDecls)
      /\ next > Len(VarDecls) => Before(VarDecls, next) = Range(VarDecls)
  BY <1>0, BeforeNext
<1>2. CASE \/ EndLoop("list", "typedefs") \/ EndLoop("typedefs", "fakes")
           \/ EndLoop("fakes", "globals")
  <2>1. /\ UNCHANGED <<FunctionDecls, VarDecls, out>> /\ next' = 1
        /\ next > Len(FunctionDecls)
        /\ <<pc, pc'>> \in {<<"list", "typedefs">>, <<"typedefs", "fakes">>, <<"fakes", "globals">>}
    BY <1>2 DEF EndLoop, contextVars
  <2> QED
    BY <1>1, <2>1, DefinedSame DEF FFFWritten, Progress, DefinedAs, Definable
<1>3. CASE SkipParameter \/ UNCHANGED vars
  BY <1>3, DefinedSame
  DEF SkipParameter, vars, generatorVars, contextVars, FFFWritten, Progress, DefinedAs, Definable
<1>4. CASE EndParameters
  BY <1>4, DefinedSame
  DEF EndParameters, contextVars, FFFWritten, Progress, DefinedAs, Definable
<1>5. CASE WriteGlobalVariable
  <2>1. pc = "globals" /\ next' = next + 1 /\ UNCHANGED <<FunctionDecls, VarDecls, pc>>
    BY <1>5 DEF WriteGlobalVariable, contextVars
  <2> QED
    BY <1>0, <1>5, <2>1, VariableDefined DEF FFFWritten, Progress, DefinedAs, Definable
<1>6. CASE EndGlobalVariables("done")
  BY <1>1, <1>6, DefinedSame
  DEF EndGlobalVariables, contextVars, FFFWritten, Progress, DefinedAs, Definable
<1> QED
  BY <1>2, <1>3, <1>4, <1>5, <1>6, SettingsWritten, ListWritten, TypedefWritten, FakeWritten
  DEF Next, WriteGlobals

-----------------------------------------------------------------------------
(***************************************************************************)
(* The theorems.                                                           *)
(***************************************************************************)
LEMMA FFFInvStep == FFFInv /\ [Next]_vars => FFFInv'
BY SettingsStep, ListStep, EndLoopStep, SkipStep, CreateStep, EndParametersStep,
   FakeStep, FakesGlobals, StutterStep DEF Next

LEMMA FFFInvariance == Spec => []FFFInv
BY FFFInvInit, FFFInvStep, PTL DEF Spec

\* In every fake, a parameter whose declaration spells out a function pointer
\* has the name of a typedef made from a parameter of its type.
THEOREM PointersNamed == Spec => []FunctionPointersNamed
<1>1. FFFInv => FunctionPointersNamed
  BY DEF FFFInv
<1> QED
  BY FFFInvariance, <1>1, PTL

\* The settings come before fff.h, fff.h before the fakes, and every typedef
\* before the fakes that have its name in them.
THEOREM FFFUsesDeclared == Spec => []DeclaredBeforeUse
<1>1. FFFInv => DeclaredBeforeUse
  BY DEF FFFInv
<1> QED
  BY FFFInvariance, <1>1, PTL

-----------------------------------------------------------------------------
(***************************************************************************)
(* Declaring once.  What FFF has declared is accounted for by what its     *)
(* loops have passed; a typedef is named after a function and a position,  *)
(* so that functions that share an identifier could make it twice.         *)
(***************************************************************************)
OwnIdentifiers ==
    \A f, g \in Range(FunctionDecls) : Identifier[f] = Identifier[g] => f = g

\* The loops have passed the parameter that a typedef is named after.
TypedefPassed(symbol) ==
    \E m \in DOMAIN FunctionDecls : \E i \in DOMAIN Parameters[FunctionDecls[m]] :
        Passed(m, i) /\ symbol = Typedef(FunctionDecls[m], i)

FFFAccounted(symbol) ==
    \/ symbol[1] = "header"
    \/ symbol[1] \in {"setting", "framework"} /\ pc # "settings"
    \/ /\ symbol[1] = "FFF_FAKE_LIST"
       /\ symbol[2] \in Progress(FunctionDecls, "list",
                                 {"typedefs", "fakes", "globals", "done"})
    \/ symbol[1] = "typedef" /\ TypedefPassed(symbol)
    \/ /\ symbol[1] \in {"body", "parameter"}
       /\ symbol[2] \in Progress(FunctionDecls, "fakes", {"globals", "done"})
    \/ /\ symbol[1] = "variable"
       /\ symbol[2] \in Progress(VarDecls, "globals", {"done"})

FFFOnce ==
    /\ \A symbol \in Declared : FFFAccounted(symbol)
    /\ ListedOnce /\ OwnIdentifiers => DeclaredOnce

LEMMA FFFOnceInit == Init => FFFOnce
<1> SUFFICES ASSUME Init PROVE FFFOnce
  OBVIOUS
<1>1. out = <<>>
  BY DEF Init, InitGenerator
<1>2. DOMAIN out = {} /\ Declared = {}
  BY <1>1 DEF Declared, DeclaredBy
<1> QED
  BY <1>2 DEF FFFOnce, DeclaredOnce

\* What is accounted for stays so.
FFFKept == \A symbol : FFFAccounted(symbol) => FFFAccounted(symbol)'

\* Within a part of run(), and from one part to the next.
LEMMA PassedKept ==
    ASSUME FFFInv, [Next]_vars, NEW m \in DOMAIN FunctionDecls,
           NEW i \in DOMAIN Parameters[FunctionDecls[m]], Passed(m, i)
    PROVE  Passed(m, i)'
<1>1. /\ next \in Nat /\ parm \in Nat /\ m \in Nat
      /\ i \in 1 .. Len(Parameters[FunctionDecls[m]])
      /\ Len(Parameters[FunctionDecls[m]]) \in Nat
  <2>1. m \in Nat /\ FunctionDecls[m] \in FunctionDecl
    BY DEF FFFInv, FFFTypeOK
  <2> QED
    BY <2>1, ParameterAssumption DEF FFFInv, FFFTypeOK
<1>2. CASE SkipParameter \/ CreateTypedef
  <2>1. parm' = parm + 1 /\ UNCHANGED <<next, pc>>
    BY <1>2 DEF SkipParameter, CreateTypedef, ParameterAfter, generatorVars
  <2> QED
    BY <1>1, <2>1 DEF Passed
<1>3. CASE EndParameters
  <2>1. next' = next + 1 /\ UNCHANGED pc
    BY <1>3 DEF EndParameters
  <2> QED
    BY <1>1, <2>1 DEF Passed
<1>4. CASE pc # "typedefs" \/ UNCHANGED vars \/ EndLoop("typedefs", "fakes")
  <2>1. pc \notin {"settings", "list"}
    BY DEF Passed
  <2>2. pc' \in {"fakes", "globals", "done"} \/ UNCHANGED <<pc, next, parm>>
    BY <1>4, <2>1 DEF Next, WriteSettings, WriteListEntry, EndLoop, SkipParameter,
       CreateTypedef, AtParameter, EndParameters, WriteFake, WriteGlobals, WriteGlobalVariable,
       EndGlobalVariables, vars, generatorVars, Passed
  <2> QED
    BY <2>2 DEF Passed
<1> QED
  BY <1>2, <1>3, <1>4 DEF Next, WriteSettings, WriteListEntry, EndLoop, WriteFake,
     WriteGlobals, WriteGlobalVariable, EndGlobalVariables

\* The entries that a loop has passed, and the one it is at.
LEMMA AtEntry ==
    ASSUME FFFInv, FFFWritten
    PROVE  /\ Before(FunctionDecls, 1) = {} /\ Before(VarDecls, 1) = {}
           /\ next > Len(FunctionDecls) => Before(FunctionDecls, next) = Range(FunctionDecls)
           /\ next > Len(VarDecls) => Before(VarDecls, next) = Range(VarDecls)
           /\ next <= Len(FunctionDecls) =>
                /\ Before(FunctionDecls, next + 1)
                     = Before(FunctionDecls, next) \cup {FunctionDecls[next]}
                /\ ListedOnce => FunctionDecls[next] \notin Before(FunctionDecls, next)
           /\ next <= Len(VarDecls) =>
                /\ Before(VarDecls, next + 1) = Before(VarDecls, next) \cup {VarDecls[next]}
                /\ ListedOnce => VarDecls[next] \notin Before(VarDecls, next)
<1>1. /\ FunctionDecls \in Seq(FunctionDecl) /\ VarDecls \in Seq(VarDecl)
      /\ next \in Nat \ {0}
  BY DEF FFFInv, FFFTypeOK, FFFWritten
<1>2. /\ next <= Len(FunctionDecls) => next \in DOMAIN FunctionDecls
      /\ next <= Len(VarDecls) => next \in DOMAIN VarDecls
  BY <1>1
<1> QED
  BY <1>1, <1>2, BeforeNext, NotBefore DEF ListedOnce

LEMMA FFFAccountsKept ==
    ASSUME FFFInv, FFFWritten, [Next]_vars PROVE FFFKept
<1> SUFFICES ASSUME NEW symbol, FFFAccounted(symbol) PROVE FFFAccounted(symbol)'
  BY DEF FFFKept
<1>0. UNCHANGED <<FunctionDecls, VarDecls>>
  BY DEF Next, WriteSettings, WriteListEntry, EndLoop, SkipParameter, CreateTypedef,
     EndParameters, WriteFake, WriteGlobals, WriteGlobalVariable, EndGlobalVariables,
     vars, generatorVars, contextVars
<1>1. TypedefPassed(symbol) => TypedefPassed(symbol)'
  BY <1>0, PassedKept DEF TypedefPassed, Typedef
<1>2. CASE WriteListEntry
  <2>1. pc = "list" /\ UNCHANGED pc /\ next' = next + 1 /\ next <= Len(FunctionDecls)
    BY <1>2 DEF WriteListEntry
  <2> QED
    BY <1>0, <1>1, <2>1, AtEntry DEF FFFAccounted, Progress
<1>3. CASE WriteFake
  <2>1. pc = "fakes" /\ UNCHANGED pc /\ next' = next + 1 /\ next <= Len(FunctionDecls)
    BY <1>3 DEF WriteFake
  <2> QED
    BY <1>0, <1>1, <2>1, AtEntry DEF FFFAccounted, Progress
<1>4. CASE WriteGlobalVariable
  <2>1. pc = "globals" /\ UNCHANGED pc /\ next' = next + 1 /\ next <= Len(VarDecls)
    BY <1>4 DEF WriteGlobalVariable
  <2> QED
    BY <1>0, <1>1, <2>1, AtEntry DEF FFFAccounted, Progress
<1>5. CASE \/ EndLoop("list", "typedefs") \/ EndLoop("typedefs", "fakes")
           \/ EndLoop("fakes", "globals")
  <2>1. /\ next' = 1 /\ next > Len(FunctionDecls)
        /\ <<pc, pc'>> \in {<<"list", "typedefs">>, <<"typedefs", "fakes">>, <<"fakes", "globals">>}
    BY <1>5 DEF EndLoop
  <2> QED
    BY <1>0, <1>1, <2>1, AtEntry DEF FFFAccounted, Progress
<1>6. CASE EndGlobalVariables("done")
  <2>1. pc = "globals" /\ pc' = "done" /\ next > Len(VarDecls)
    BY <1>6 DEF EndGlobalVariables
  <2> QED
    BY <1>0, <1>1, <2>1, AtEntry DEF FFFAccounted, Progress
<1>7. CASE WriteSettings
  <2>1. pc = "settings" /\ pc' = "list"
    BY <1>7 DEF WriteSettings
  <2> QED
    BY <1>0, <1>1, <2>1 DEF FFFAccounted, Progress
<1>8. CASE SkipParameter \/ CreateTypedef \/ EndParameters
  <2>1. pc = "typedefs" /\ UNCHANGED pc
    BY <1>8 DEF SkipParameter, CreateTypedef, EndParameters, AtParameter, generatorVars
  <2> QED
    BY <1>0, <1>1, <2>1 DEF FFFAccounted, Progress
<1>9. CASE UNCHANGED vars
  <2>1. UNCHANGED <<pc, next>>
    BY <1>9 DEF vars, generatorVars
  <2> QED
    BY <1>0, <1>1, <2>1 DEF FFFAccounted, Progress, Before
<1> QED
  BY <1>2, <1>3, <1>4, <1>5, <1>6, <1>7, <1>8, <1>9 DEF Next, WriteGlobals

\* An item is written whose symbols are accounted for from now on.
LEMMA FFFItemOnce ==
    ASSUME FFFInv, FFFOnce, FFFKept, UNCHANGED <<FunctionDecls, VarDecls>>,
           NEW item, Write(item),
           \A symbol \in item.declares :
                /\ FFFAccounted(symbol)'
                /\ ListedOnce /\ OwnIdentifiers => ~FFFAccounted(symbol)
    PROVE  FFFOnce'
<1>1. Buffer /\ Declared' = Declared \cup item.declares
  BY WrittenDeclares DEF FFFInv, FFFTypeOK
<1>2. (ListedOnce' <=> ListedOnce) /\ (OwnIdentifiers' <=> OwnIdentifiers)
  BY DEF ListedOnce, NoRepetition, OwnIdentifiers
<1>3. ASSUME ListedOnce, OwnIdentifiers PROVE DeclaredOnce'
  BY <1>1, <1>3, WrittenOnce DEF FFFOnce
<1>4. \A symbol \in Declared' : FFFAccounted(symbol)'
  BY <1>1 DEF FFFOnce, FFFKept
<1> QED
  BY <1>2, <1>3, <1>4 DEF FFFOnce

LEMMA FFFSameOnce ==
    ASSUME FFFOnce, FFFKept, UNCHANGED <<out, FunctionDecls, VarDecls>>
    PROVE  FFFOnce'
<1>1. (ListedOnce' <=> ListedOnce) /\ (OwnIdentifiers' <=> OwnIdentifiers)
  BY DEF ListedOnce, NoRepetition, OwnIdentifiers
<1> QED
  BY <1>1, SameOnce DEF FFFOnce, FFFKept

LEMMA SettingsOnce ==
    ASSUME FFFInv, FFFOnce, FFFKept, WriteSettings PROVE FFFOnce'
<1> DEFINE first == Item({Setting(s) : s \in Settings}, {})
           second == Item({Framework}, {Setting(s) : s \in Settings})
           items == <<first, second>>
<1>1. /\ pc = "settings" /\ pc' = "list" /\ out' = out \o items /\ Buffer
      /\ UNCHANGED <<FunctionDecls, VarDecls>>
  BY DEF FFFInv, FFFTypeOK, WriteSettings, Preamble, contextVars
<1>2. /\ \A symbol \in first.declares : symbol[1] = "setting"
      /\ \A symbol \in second.declares : symbol[1] = "framework"
  BY DEF Item, Setting, Framework
<1> HIDE DEF first, second
<1>3. /\ items \in Seq({first, second}) /\ Len(items) = 2
      /\ items[1] = first /\ items[2] = second
      /\ \A n \in 1 .. 2 : n = 1 \/ n = 2
  OBVIOUS
<1> HIDE DEF items
<1>4. \A n \in 1 .. Len(items) : \A symbol \in items[n].declares :
        ~FFFAccounted(symbol) /\ FFFAccounted(symbol)'
  <2>1. \A n \in 1 .. Len(items) : \A symbol \in items[n].declares :
          symbol[1] \in {"setting", "framework"}
    BY <1>2, <1>3
  <2> QED
    BY <1>1, <2>1 DEF FFFAccounted
<1>5. \A m, n \in 1 .. Len(items) : m # n => items[m].declares \cap items[n].declares = {}
  <2>1. first.declares \cap second.declares = {}
    BY <1>2
  <2> QED
    BY <1>3, <2>1
<1>6. DeclaredOnce => DeclaredOnce'
  <2>1. \A n \in 1 .. Len(items) : \A symbol \in items[n].declares : symbol \notin Declared
    BY <1>4 DEF FFFOnce
  <2>2. \A S : items \in Seq(S) => (DeclaredOnce => DeclaredOnce')
    BY <1>1, <1>5, <2>1, WrittenItemsOnce, Zenon
  <2> QED
    BY <1>3, <2>2
<1>7. ASSUME NEW symbol \in Declared' PROVE FFFAccounted(symbol)'
  <2>1. symbol \in Declared \/ \E n \in 1 .. Len(items) : symbol \in items[n].declares
    BY <1>1, <1>3, WrittenItemsDeclare
  <2> QED
    BY <1>4, <2>1 DEF FFFOnce, FFFKept
<1>8. (ListedOnce' <=> ListedOnce) /\ (OwnIdentifiers' <=> OwnIdentifiers)
  BY <1>1 DEF ListedOnce, NoRepetition, OwnIdentifiers
<1> QED
  BY <1>6, <1>7, <1>8 DEF FFFOnce

\* A typedef is new: no other function has the identifier, no other parameter
\* of the function the position.
LEMMA TypedefOnce ==
    ASSUME FFFInv, FFFOnce, FFFKept, CreateTypedef PROVE FFFOnce'
<1> DEFINE f == FunctionDecls[next]
           symbol == Typedef(f, parm)
           item == Item({symbol}, {})
<1>1. /\ AtParameter /\ parm' = parm + 1 /\ Write(item)
      /\ UNCHANGED <<FunctionDecls, VarDecls, next, pc>>
  BY DEF CreateTypedef, ParameterAfter, contextVars
<1>2. /\ next \in DOMAIN FunctionDecls /\ f \in Range(FunctionDecls)
      /\ parm \in DOMAIN Parameters[f] /\ pc = "typedefs"
      /\ next \in Nat /\ parm \in Nat
  BY <1>1, NextParameter DEF FFFInv, FFFTypeOK
<1>3. symbol[1] = "typedef"
  BY DEF Typedef
<1>4. \A s : s = symbol => TypedefPassed(s)'
  <2> PICK m, i : m = next /\ i = parm
    OBVIOUS
  <2>1. Passed(m, i)'
    BY <1>1, <1>2 DEF Passed
  <2>2. /\ m \in DOMAIN FunctionDecls' /\ i \in DOMAIN Parameters[FunctionDecls'[m]]
        /\ symbol = <<"typedef", Identifier[FunctionDecls'[m]], i>>
    BY <1>1, <1>2 DEF Typedef
  <2>3. ASSUME NEW s, s = symbol PROVE TypedefPassed(s)'
    <3>1. s = <<"typedef", Identifier[FunctionDecls'[m]], i>>
      BY <2>2, <2>3
    <3> HIDE DEF symbol
    <3> QED
      BY <2>1, <2>2, <3>1 DEF TypedefPassed, Typedef
  <2> QED
    BY <2>3
<1>5. ASSUME ListedOnce, OwnIdentifiers, TypedefPassed(symbol) PROVE FALSE
  <2> PICK m \in DOMAIN FunctionDecls :
          \E i \in DOMAIN Parameters[FunctionDecls[m]] :
              Passed(m, i) /\ symbol = Typedef(FunctionDecls[m], i)
    BY <1>5 DEF TypedefPassed
  <2> PICK i \in DOMAIN Parameters[FunctionDecls[m]] :
          Passed(m, i) /\ symbol = Typedef(FunctionDecls[m], i)
    OBVIOUS
  <2>1. Identifier[f] = Identifier[FunctionDecls[m]] /\ i = parm
    BY DEF Typedef
  <2>2. FunctionDecls[m] = f
    BY <1>2, <1>5, <2>1 DEF OwnIdentifiers, Range
  <2>3. m = next
    BY <1>2, <1>5, <2>2 DEF ListedOnce, NoRepetition
  <2> QED
    BY <1>2, <2>1, <2>3 DEF Passed
<1>6. \A s \in item.declares : s = symbol
  BY DEF Item
<1>7. ASSUME NEW s, s = symbol
      PROVE  FFFAccounted(s)' /\ (ListedOnce /\ OwnIdentifiers => ~FFFAccounted(s))
  <2>1. TypedefPassed(s)' /\ (ListedOnce /\ OwnIdentifiers => ~TypedefPassed(s))
    BY <1>4, <1>5, <1>7
  <2>2. s[1] = "typedef"
    BY <1>3, <1>7
  <2> QED
    BY <2>1, <2>2 DEF FFFAccounted
<1> HIDE DEF item, symbol
<1> QED
  BY <1>1, <1>6, <1>7, FFFItemOnce

LEMMA FFFOnceStep == FFFInv /\ FFFWritten /\ FFFOnce /\ [Next]_vars => FFFOnce'
<1> SUFFICES ASSUME FFFInv, FFFWritten, FFFOnce, [Next]_vars PROVE FFFOnce'
  OBVIOUS
<1>1. FFFKept
  BY FFFAccountsKept
<1>2. CASE WriteListEntry
  <2> DEFINE f == FunctionDecls[next]
             item == Item({Listed(f)}, {})
  <2>1. /\ pc = "list" /\ UNCHANGED pc /\ next' = next + 1 /\ next <= Len(FunctionDecls)
        /\ Write(item) /\ UNCHANGED <<FunctionDecls, VarDecls>>
    BY <1>2 DEF WriteListEntry, contextVars
  <2>2. \A symbol \in item.declares : symbol[1] = "FFF_FAKE_LIST" /\ symbol[2] = f
    BY DEF Item, Listed
  <2> HIDE DEF item
  <2>3. \A symbol \in item.declares :
          FFFAccounted(symbol)' /\ (ListedOnce => ~FFFAccounted(symbol))
    BY <2>1, <2>2, AtEntry DEF FFFAccounted, Progress
  <2> QED
    BY <1>1, <2>1, <2>3, FFFItemOnce
<1>3. CASE WriteFake
  <2> DEFINE f == FunctionDecls[next]
             item == FakeItem(f)
  <2>1. /\ pc = "fakes" /\ UNCHANGED pc /\ next' = next + 1 /\ next <= Len(FunctionDecls)
        /\ Write(item) /\ UNCHANGED <<FunctionDecls, VarDecls>>
    BY <1>3 DEF WriteFake, contextVars
  <2>2. \A symbol \in item.declares : symbol[1] \in {"body", "parameter"} /\ symbol[2] = f
    BY DEF FakeItem, Item, Body, Printed
  <2> HIDE DEF item
  <2>3. \A symbol \in item.declares :
          FFFAccounted(symbol)' /\ (ListedOnce => ~FFFAccounted(symbol))
    BY <2>1, <2>2, AtEntry DEF FFFAccounted, Progress
  <2> QED
    BY <1>1, <2>1, <2>3, FFFItemOnce
<1>4. CASE WriteGlobalVariable
  <2> DEFINE v == VarDecls[next]
             item == GlobalVariableItem(v)
  <2>1. /\ pc = "globals" /\ next' = next + 1 /\ next <= Len(VarDecls)
        /\ Write(item) \/ UNCHANGED out
        /\ UNCHANGED <<FunctionDecls, VarDecls, pc>>
    BY <1>4 DEF WriteGlobalVariable, contextVars
  <2>2. \A symbol \in item.declares : symbol[1] = "variable" /\ symbol[2] = v
    BY SymbolNames DEF GlobalVariableItem, Item
  <2> HIDE DEF item
  <2>3. \A symbol \in item.declares :
          FFFAccounted(symbol)' /\ (ListedOnce => ~FFFAccounted(symbol))
    BY <2>1, <2>2, AtEntry DEF FFFAccounted, Progress
  <2> QED
    BY <1>1, <2>1, <2>3, FFFItemOnce, FFFSameOnce
<1>5. CASE \/ EndLoop("list", "typedefs") \/ EndLoop("typedefs", "fakes")
           \/ EndLoop("fakes", "globals") \/ SkipParameter \/ EndParameters
           \/ EndGlobalVariables("done") \/ UNCHANGED vars
  <2>1. UNCHANGED <<out, FunctionDecls, VarDecls>>
    BY <1>5 DEF EndLoop, SkipParameter, EndParameters, EndGlobalVariables, vars,
       generatorVars, contextVars
  <2> QED
    BY <1>1, <2>1, FFFSameOnce
<1> QED
  BY <1>1, <1>2, <1>3, <1>4, <1>5, SettingsOnce, TypedefOnce DEF Next, WriteGlobals

\* No fake, typedef, macro or variable is defined twice, if no two functions
\* share an identifier: a typedef is made for the first parameter of its type,
\* and its name is that of no other.
THEOREM FFFDeclaresOnce == Spec => [](ListedOnce /\ OwnIdentifiers => DeclaredOnce)
<1>1. FFFOnce => (ListedOnce /\ OwnIdentifiers => DeclaredOnce)
  BY DEF FFFOnce
<1>2. Init => FFFWritten
  <2> SUFFICES ASSUME Init PROVE FFFWritten
    OBVIOUS
  <2>1. out = <<>> /\ pc = "settings" /\ VarDecls \in Seq(VarDecl)
    BY VariableAssumption DEF Init, InitGenerator
  <2>2. Declared = {}
    BY <2>1 DEF Declared, DeclaredBy
  <2> QED
    BY <2>1, <2>2 DEF FFFWritten, DefinedAs, Progress
<1> QED
  BY FFFInvInit, FFFInvStep, FFFWrittenStep, FFFOnceInit, FFFOnceStep, <1>1, <1>2, PTL
  DEF Spec

-----------------------------------------------------------------------------
(***************************************************************************)
(* CMocka.                                                                 *)
(***************************************************************************)
CMockaTypeOK ==
    /\ FunctionDecls \in Seq(FunctionDecl)
    /\ next \in Nat \ {0}
    /\ pc \in {"includes", "globals", "functions", "done"}
    /\ pc = "includes" => next = 1
    /\ Buffer

CMockaInv ==
    /\ CMockaTypeOK
    /\ pc # "includes" => {Framework, Linkage} \subseteq Declared
    /\ DeclaredBeforeUse

LEMMA CMockaInvInit == K!Init => CMockaInv
<1> SUFFICES ASSUME K!Init PROVE CMockaInv
  OBVIOUS
<1>1. out = <<>> /\ next = 1 /\ pc = "includes" /\ FunctionDecls \in Seq(FunctionDecl)
  BY ListAssumption DEF K!Init, K!InitContexts, K!InitGenerator
<1>2. out \in Seq({}) /\ DOMAIN out = {}
  BY <1>1
<1> QED
  BY <1>1, <1>2 DEF CMockaInv, CMockaTypeOK, Buffer, DeclaredBeforeUse

\* The definition of a function declares what its body names: the parameters,
\* under the names the body makes up again, and mock_ptr if it copies anything.
LEMMA FunctionSelfContained ==
    ASSUME NEW f
    PROVE  K!FunctionItem(f).uses
               \subseteq {Framework, Linkage} \cup K!FunctionItem(f).declares
<1>1. ASSUME NEW i \in DOMAIN Parameters[f] PROVE K!Argument(f, i) \in K!ParameterLocals(f)
  BY DEF K!Argument, K!ParameterLocals, K!ParameterNames, K!ParameterName
<1>2. K!OutParams(f) \subseteq DOMAIN Parameters[f]
  BY DEF K!OutParams
<1>3. K!CopyUses(f) \subseteq K!ParameterLocals(f)
          \cup IF K!DeclaresMockPtr(f) THEN {K!Local(f, "mock_ptr")} ELSE {}
  BY <1>1, <1>2 DEF K!CopyUses, K!DeclaresMockPtr
<1> QED
  BY <1>1, <1>3 DEF K!FunctionItem, K!Item, K!Framework, K!Linkage, Framework, Linkage

LEMMA CMockaIncludes ==
    ASSUME CMockaInv, K!WriteIncludeDirectives PROVE CMockaInv'
<1> DEFINE first == Item({Framework}, {})
           items == <<first, MacroItem>>
<1>1. /\ pc' = "globals" /\ UNCHANGED <<FunctionDecls, next>>
      /\ out' = out \o items /\ Buffer /\ DeclaredBeforeUse
  BY DEF CMockaInv, CMockaTypeOK, K!WriteIncludeDirectives, K!contextVars, K!Item,
         K!Framework, K!MacroItem, K!Linkage, Item, Framework, MacroItem, Linkage
<1>2. /\ first.declares = {Framework} /\ first.uses = {}
      /\ MacroItem.declares = {Linkage} /\ MacroItem.uses = {}
  BY DEF MacroItem, Item
<1> HIDE DEF first
<1>3. /\ items \in Seq({first, MacroItem}) /\ Len(items) = 2
      /\ items[1] = first /\ items[2] = MacroItem
      /\ \A n \in 1 .. 2 : n = 1 \/ n = 2
  OBVIOUS
<1> HIDE DEF items
<1>4. \A n \in 1 .. Len(items) : items[n].uses = {}
  BY <1>2, <1>3
<1>5. /\ Buffer' /\ DeclaredBeforeUse'
      /\ Declared' = Declared \cup UNION {items[n].declares : n \in 1 .. Len(items)}
  <2>1. Buffer /\ DeclaredBeforeUse /\ out' = out \o items
    BY <1>1
  <2>2. items \in Seq({first, MacroItem})
    BY <1>3
  <2>3. Buffer'
    BY <2>1, <2>2, WrittenItems
  <2>4. \A n \in 1 .. Len(items) : \A symbol \in items[n].uses :
          \/ FixtureMember(symbol) \/ symbol \in Declared
          \/ \E m \in 1 .. n : symbol \in items[m].declares
    BY <1>4
  <2> QED
    BY <2>1, <2>2, <2>3, <2>4, WrittenItemsUses
<1>6. {Framework, Linkage} \subseteq Declared'
  <2>1. /\ 1 \in 1 .. Len(items) /\ Framework \in items[1].declares
        /\ 2 \in 1 .. Len(items) /\ Linkage \in items[2].declares
    BY <1>2, <1>3
  <2> QED
    BY <1>5, <2>1
<1>7. CMockaTypeOK'
  BY <1>1, <1>5 DEF CMockaInv, CMockaTypeOK
<1> QED
  BY <1>5, <1>6, <1>7 DEF CMockaInv

LEMMA CMockaGlobals ==
    ASSUME CMockaInv, K!WriteGlobals PROVE CMockaInv'
<1>1. CASE WriteGlobalVariable
  <2> DEFINE item == GlobalVariableItem(VarDecls[next])
  <2>1. /\ pc = "globals" /\ next' = next + 1
        /\ Write(item) \/ UNCHANGED out
        /\ UNCHANGED <<FunctionDecls, pc>>
    BY <1>1 DEF WriteGlobalVariable, contextVars
  <2>2. item.uses = {}
    BY DEF GlobalVariableItem, Item
  <2> HIDE DEF item
  <2>3. Buffer' /\ DeclaredBeforeUse' /\ Declared \subseteq Declared'
    BY <2>1, <2>2, Written, WrittenUses, NothingWritten DEF CMockaInv, CMockaTypeOK
  <2> QED
    BY <2>1, <2>3 DEF CMockaInv, CMockaTypeOK
<1>2. CASE EndGlobalVariables("functions")
  BY <1>2, NothingWritten DEF EndGlobalVariables, contextVars, CMockaInv, CMockaTypeOK
<1> QED
  BY <1>1, <1>2 DEF K!WriteGlobals, K!WriteGlobalVariable, WriteGlobalVariable,
      K!EndGlobalVariables, EndGlobalVariables, K!contextVars, contextVars, K!Write, Write,
      K!Uninstantiable, Uninstantiable, K!GlobalVariableItem, GlobalVariableItem,
      K!Item, Item, K!Variable, Variable

LEMMA CMockaFunction ==
    ASSUME CMockaInv, K!WriteFunction PROVE CMockaInv'
<1> DEFINE item == K!FunctionItem(FunctionDecls[next])
<1>1. /\ pc = "functions" /\ next' = next + 1 /\ Write(item)
      /\ UNCHANGED <<FunctionDecls, pc>>
  BY DEF K!WriteFunction, K!Write, Write, K!contextVars
<1>2. item.uses \subseteq {Framework, Linkage} \cup item.declares
  BY FunctionSelfContained
<1> HIDE DEF item
<1>3. item.uses \subseteq Declared \cup item.declares
  BY <1>1, <1>2 DEF CMockaInv
<1>4. Buffer' /\ DeclaredBeforeUse' /\ Declared \subseteq Declared'
  BY <1>1, <1>3, Written, WrittenUses DEF CMockaInv, CMockaTypeOK
<1> QED
  BY <1>1, <1>4 DEF CMockaInv, CMockaTypeOK

LEMMA CMockaInvStep == CMockaInv /\ [K!Next]_(K!vars) => CMockaInv'
<1> SUFFICES ASSUME CMockaInv, [K!Next]_(K!vars) PROVE CMockaInv'
  OBVIOUS
<1>1. CASE K!Finish
  BY <1>1, NothingWritten DEF K!Finish, K!contextVars, CMockaInv, CMockaTypeOK
<1>2. CASE UNCHANGED K!vars
  BY <1>2, NothingWritten
  DEF K!vars, K!generatorVars, K!contextVars, CMockaInv, CMockaTypeOK
<1> QED
  BY <1>1, <1>2, CMockaIncludes, CMockaGlobals, CMockaFunction DEF K!Next

\* What the loops of CMocka have written.
CMockaWritten ==
    /\ VarDecls \in Seq(VarDecl)
    /\ DefinedAs("body", FunctionDecl) = Progress(FunctionDecls, "functions", {"done"})
    /\ DefinedAs("variable", VarDecl)
         = Definable \cap Progress(VarDecls, "globals", {"functions", "done"})

LEMMA BodyWritten ==
    ASSUME CMockaInv, CMockaWritten, K!WriteFunction PROVE CMockaWritten'
<1> DEFINE f == FunctionDecls[next]
           item == K!FunctionItem(f)
<1>1. /\ Write(item) /\ pc = "functions" /\ next' = next + 1 /\ next <= Len(FunctionDecls)
      /\ UNCHANGED <<FunctionDecls, VarDecls, pc>> /\ Buffer
      /\ FunctionDecls \in Seq(FunctionDecl) /\ next \in Nat \ {0}
  BY DEF CMockaInv, CMockaTypeOK, K!WriteFunction, K!Write, Write, K!contextVars
<1>2. f \in FunctionDecl /\ Before(FunctionDecls, next + 1) = Before(FunctionDecls, next) \cup {f}
  BY <1>1, BeforeNext
<1>3. /\ <<"body", f>> \in item.declares
      /\ \A symbol \in item.declares : symbol = <<"body", f>> \/ symbol[1] = "local"
  BY DEF K!FunctionItem, K!Item, K!Body, K!ParameterLocals, K!Local
<1> HIDE DEF item
<1>4. DefinedAs("body", FunctionDecl)' = DefinedAs("body", FunctionDecl) \cup {f}
  BY <1>1, <1>2, <1>3, DefinedMore DEF DefinedAs
<1>5. DefinedAs("variable", VarDecl)' = DefinedAs("variable", VarDecl)
  BY <1>1, <1>3, DefinedMore DEF DefinedAs
<1> QED
  BY <1>1, <1>2, <1>4, <1>5 DEF CMockaWritten, Progress, DefinedAs, Definable

LEMMA IncludesWritten ==
    ASSUME CMockaInv, CMockaWritten, K!WriteIncludeDirectives PROVE CMockaWritten'
<1> DEFINE first == Item({Framework}, {})
           items == <<first, MacroItem>>
<1>1. /\ pc = "includes" /\ pc' = "globals" /\ next' = next /\ Buffer
      /\ out' = out \o items /\ UNCHANGED <<FunctionDecls, VarDecls>>
      /\ VarDecls \in Seq(VarDecl) /\ next = 1
  BY DEF CMockaInv, CMockaTypeOK, CMockaWritten, K!WriteIncludeDirectives, K!contextVars, K!Item,
         K!Framework, K!MacroItem, K!Linkage, Item, Framework, MacroItem, Linkage
<1>2. \A symbol \in first.declares \cup MacroItem.declares :
         symbol[1] \notin {"body", "variable"}
  BY DEF Item, Framework, MacroItem, Linkage
<1> HIDE DEF first
<1>3. /\ items \in Seq({first, MacroItem}) /\ Len(items) = 2
      /\ items[1] = first /\ items[2] = MacroItem
      /\ \A n \in 1 .. 2 : n = 1 \/ n = 2
  OBVIOUS
<1> HIDE DEF items
<1>4. ASSUME NEW tag \in {"body", "variable"}
      PROVE  \A x : <<tag, x>> \in Declared' <=> <<tag, x>> \in Declared
  <2>1. \A n \in 1 .. Len(items) : \A symbol \in items[n].declares : symbol[1] # tag
    BY <1>2, <1>3
  <2>2. items \in Seq({first, MacroItem}) /\ out' = out \o items /\ Buffer
    BY <1>1, <1>3
  <2> QED
    BY <2>1, <2>2, DefinedOthers
<1>5. Before(VarDecls, 1) = {}
  BY <1>1, BeforeNext
<1> QED
  BY <1>1, <1>4, <1>5 DEF CMockaWritten, Progress, DefinedAs, Definable

LEMMA CMockaWrittenStep == CMockaInv /\ CMockaWritten /\ [K!Next]_(K!vars) => CMockaWritten'
<1> SUFFICES ASSUME CMockaInv, CMockaWritten, [K!Next]_(K!vars) PROVE CMockaWritten'
  OBVIOUS
<1>0. /\ FunctionDecls \in Seq(FunctionDecl) /\ VarDecls \in Seq(VarDecl)
      /\ next \in Nat \ {0} /\ Buffer
  BY DEF CMockaInv, CMockaTypeOK, CMockaWritten
<1>1. /\ Before(FunctionDecls, 1) = {}
      /\ next > Len(FunctionDecls) => Before(FunctionDecls, next) = Range(FunctionDecls)
      /\ next > Len(VarDecls) => Before(VarDecls, next) = Range(VarDecls)
  BY <1>0, BeforeNext
<1>2. K!WriteGlobals => WriteGlobalVariable \/ EndGlobalVariables("functions")
  BY DEF K!WriteGlobals, K!WriteGlobalVariable, WriteGlobalVariable,
      K!EndGlobalVariables, EndGlobalVariables, K!contextVars, contextVars, K!Write, Write,
      K!Uninstantiable, Uninstantiable, K!GlobalVariableItem, GlobalVariableItem,
      K!Item, Item, K!Variable, Variable
<1>3. CASE WriteGlobalVariable
  <2>1. pc = "globals" /\ next' = next + 1 /\ UNCHANGED <<FunctionDecls, VarDecls, pc>>
    BY <1>3 DEF WriteGlobalVariable, contextVars
  <2> QED
    BY <1>0, <1>3, <2>1, VariableDefined DEF CMockaWritten, Progress, DefinedAs, Definable
<1>4. CASE EndGlobalVariables("functions")
  BY <1>1, <1>4, DefinedSame
  DEF EndGlobalVariables, contextVars, CMockaWritten, Progress, DefinedAs, Definable
<1>5. CASE K!Finish
  BY <1>1, <1>5, DefinedSame
  DEF K!Finish, K!contextVars, CMockaWritten, Progress, DefinedAs, Definable
<1>6. CASE UNCHANGED K!vars
  BY <1>6, DefinedSame
  DEF K!vars, K!generatorVars, K!contextVars, CMockaWritten, Progress, DefinedAs, Definable
<1> QED
  BY <1>2, <1>3, <1>4, <1>5, <1>6, IncludesWritten, BodyWritten DEF K!Next

\* Every name in the output of the CMocka backend is declared above it or in
\* the same function: the parameters, whose names are made up twice, and the
\* variable mock_ptr, which one scan declares and another one uses.
THEOREM CMockaUsesDeclared == K!Spec => []DeclaredBeforeUse
<1>1. CMockaInv => DeclaredBeforeUse
  BY DEF CMockaInv
<1> QED
  BY CMockaInvInit, CMockaInvStep, <1>1, PTL DEF K!Spec

-----------------------------------------------------------------------------
(***************************************************************************)
(* Declaring once.  What CMocka has declared is accounted for by what its  *)
(* loops have passed, so that the entry that is next has nothing in the    *)
(* output; the header of the file is there before run() starts.            *)
(***************************************************************************)
CMockaAccounted(symbol) ==
    \/ symbol[1] = "header"
    \/ symbol[1] \in {"framework", "CCMOCK_LINKAGE"} /\ pc # "includes"
    \/ /\ symbol[1] = "variable"
       /\ symbol[2] \in Progress(VarDecls, "globals", {"functions", "done"})
    \/ /\ symbol[1] \in {"body", "local"}
       /\ symbol[2] \in Progress(FunctionDecls, "functions", {"done"})

CMockaOnce ==
    /\ \A symbol \in Declared : CMockaAccounted(symbol)
    /\ ListedOnce => DeclaredOnce

\* An item is written whose symbols are accounted for from now on.
LEMMA CMockaItemOnce ==
    ASSUME CMockaInv, CMockaOnce, UNCHANGED <<FunctionDecls, VarDecls>>,
           \A symbol : CMockaAccounted(symbol) => CMockaAccounted(symbol)',
           NEW item, Write(item),
           \A symbol \in item.declares :
                /\ CMockaAccounted(symbol)'
                /\ ListedOnce => ~CMockaAccounted(symbol)
    PROVE  CMockaOnce'
<1>1. Buffer /\ Declared' = Declared \cup item.declares
  BY WrittenDeclares DEF CMockaInv, CMockaTypeOK
<1>2. ListedOnce' <=> ListedOnce
  BY DEF ListedOnce, NoRepetition
<1>3. ASSUME ListedOnce PROVE DeclaredOnce'
  BY <1>1, <1>3, WrittenOnce DEF CMockaOnce
<1>4. \A symbol \in Declared' : CMockaAccounted(symbol)'
  BY <1>1 DEF CMockaOnce
<1> QED
  BY <1>2, <1>3, <1>4 DEF CMockaOnce

LEMMA CMockaOnceStep ==
    CMockaInv /\ CMockaWritten /\ CMockaOnce /\ [K!Next]_(K!vars) => CMockaOnce'
<1> SUFFICES ASSUME CMockaInv, CMockaWritten, CMockaOnce, [K!Next]_(K!vars)
             PROVE  CMockaOnce'
  OBVIOUS
<1>0. /\ FunctionDecls \in Seq(FunctionDecl) /\ VarDecls \in Seq(VarDecl)
      /\ next \in Nat \ {0} /\ Buffer
  BY DEF CMockaInv, CMockaTypeOK, CMockaWritten
<1>1. /\ Before(FunctionDecls, 1) = {} /\ Before(VarDecls, 1) = {}
      /\ next > Len(FunctionDecls) => Before(FunctionDecls, next) = Range(FunctionDecls)
      /\ next > Len(VarDecls) => Before(VarDecls, next) = Range(VarDecls)
      /\ next <= Len(FunctionDecls) =>
            Before(FunctionDecls, next + 1) = Before(FunctionDecls, next) \cup {FunctionDecls[next]}
      /\ next <= Len(VarDecls) =>
            Before(VarDecls, next + 1) = Before(VarDecls, next) \cup {VarDecls[next]}
  BY <1>0, BeforeNext
<1>2. ASSUME UNCHANGED <<out, FunctionDecls, VarDecls>>,
             \A symbol : CMockaAccounted(symbol) => CMockaAccounted(symbol)'
      PROVE  CMockaOnce'
  BY <1>2, SameOnce DEF CMockaOnce, ListedOnce, NoRepetition
<1>3. CASE K!WriteIncludeDirectives
  <2> DEFINE first == Item({Framework}, {})
             items == <<first, MacroItem>>
  <2>1. /\ pc = "includes" /\ pc' = "globals" /\ next' = next /\ next = 1
        /\ out' = out \o items /\ UNCHANGED <<FunctionDecls, VarDecls>>
    BY <1>3 DEF CMockaInv, CMockaTypeOK, K!WriteIncludeDirectives, K!contextVars, K!Item,
         K!Framework, K!MacroItem, K!Linkage, Item, Framework, MacroItem, Linkage
  <2>2. first.declares = {Framework} /\ MacroItem.declares = {Linkage}
    BY DEF Item, MacroItem
  <2> HIDE DEF first
  <2>3. /\ items \in Seq({first, MacroItem}) /\ Len(items) = 2
        /\ items[1] = first /\ items[2] = MacroItem
        /\ \A n \in 1 .. 2 : n = 1 \/ n = 2
    OBVIOUS
  <2> HIDE DEF items
  <2>4. \A n \in 1 .. Len(items) : \A symbol \in items[n].declares :
          ~CMockaAccounted(symbol) /\ symbol[1] \in {"framework", "CCMOCK_LINKAGE"}
    BY <2>1, <2>2, <2>3, SymbolNames DEF CMockaAccounted
  <2>5. \A m, n \in 1 .. Len(items) : m # n => items[m].declares \cap items[n].declares = {}
    BY <2>2, <2>3, SymbolNames
  <2>6. ListedOnce => DeclaredOnce'
    <3>1. \A n \in 1 .. Len(items) : \A symbol \in items[n].declares : symbol \notin Declared
      BY <2>4 DEF CMockaOnce
    <3>2. out' = out \o items /\ items \in Seq({first, MacroItem})
      BY <2>1, <2>3
    <3>3. ASSUME DeclaredOnce PROVE DeclaredOnce'
      <4>1. \A S : items \in Seq(S) => DeclaredOnce'
        BY <1>0, <2>5, <3>1, <3>2, <3>3, WrittenItemsOnce, Zenon
      <4> QED
        BY <3>2, <4>1
    <3> QED
      BY <3>3 DEF CMockaOnce
  <2>7. ASSUME NEW symbol \in Declared' PROVE CMockaAccounted(symbol)'
    <3>1. symbol \in Declared \/ \E n \in 1 .. Len(items) : symbol \in items[n].declares
      <4>1. out' = out \o items /\ items \in Seq({first, MacroItem})
        BY <2>1, <2>3
      <4> QED
        BY <1>0, <4>1, WrittenItemsDeclare
    <3>2. CASE symbol \in Declared
      <4>1. CMockaAccounted(symbol)
        BY <3>2 DEF CMockaOnce
      <4> QED
        BY <2>1, <4>1 DEF CMockaAccounted, Progress
    <3>3. CASE symbol[1] \in {"framework", "CCMOCK_LINKAGE"}
      BY <2>1, <3>3 DEF CMockaAccounted
    <3> QED
      BY <2>4, <3>1, <3>2, <3>3
  <2>8. ListedOnce' <=> ListedOnce
    BY <2>1 DEF ListedOnce, NoRepetition
  <2> QED
    BY <2>6, <2>7, <2>8 DEF CMockaOnce
<1>4. K!WriteGlobals => WriteGlobalVariable \/ EndGlobalVariables("functions")
  BY DEF K!WriteGlobals, K!WriteGlobalVariable, WriteGlobalVariable,
      K!EndGlobalVariables, EndGlobalVariables, K!contextVars, contextVars, K!Write, Write,
      K!Uninstantiable, Uninstantiable, K!GlobalVariableItem, GlobalVariableItem,
      K!Item, Item, K!Variable, Variable
<1>5. CASE WriteGlobalVariable
  <2> DEFINE v == VarDecls[next]
             item == GlobalVariableItem(v)
  <2>1. /\ pc = "globals" /\ next' = next + 1 /\ next <= Len(VarDecls)
        /\ Write(item) \/ UNCHANGED out
        /\ UNCHANGED <<FunctionDecls, VarDecls, pc>>
    BY <1>5 DEF WriteGlobalVariable, contextVars
  <2>2. \A symbol : CMockaAccounted(symbol) => CMockaAccounted(symbol)'
    BY <1>1, <2>1 DEF CMockaAccounted, Progress
  <2>3. \A symbol \in item.declares : symbol[1] = "variable" /\ symbol[2] = v
    BY SymbolNames DEF GlobalVariableItem, Item
  <2>4. ListedOnce => v \notin Before(VarDecls, next)
    BY <1>0, <2>1, NotBefore DEF ListedOnce
  <2> HIDE DEF item
  <2>5. \A symbol \in item.declares :
          CMockaAccounted(symbol)' /\ (ListedOnce => ~CMockaAccounted(symbol))
    BY <1>1, <2>1, <2>3, <2>4 DEF CMockaAccounted, Progress
  <2> QED
    BY <1>2, <2>1, <2>2, <2>5, CMockaItemOnce
<1>6. CASE EndGlobalVariables("functions")
  <2>1. /\ pc = "globals" /\ pc' = "functions" /\ next' = 1 /\ next > Len(VarDecls)
        /\ UNCHANGED <<out, FunctionDecls, VarDecls>>
    BY <1>6 DEF EndGlobalVariables, contextVars
  <2>2. \A symbol : CMockaAccounted(symbol) => CMockaAccounted(symbol)'
    BY <1>1, <2>1 DEF CMockaAccounted, Progress
  <2> QED
    BY <1>2, <2>1, <2>2
<1>7. CASE K!WriteFunction
  <2> DEFINE f == FunctionDecls[next]
             item == K!FunctionItem(f)
  <2>1. /\ pc = "functions" /\ next' = next + 1 /\ next <= Len(FunctionDecls)
        /\ Write(item) /\ UNCHANGED <<FunctionDecls, VarDecls, pc>>
    BY <1>7 DEF K!WriteFunction, K!Write, Write, K!contextVars
  <2>2. \A symbol : CMockaAccounted(symbol) => CMockaAccounted(symbol)'
    BY <1>1, <2>1 DEF CMockaAccounted, Progress
  <2>3. \A symbol \in item.declares : symbol[1] \in {"body", "local"} /\ symbol[2] = f
    BY DEF K!FunctionItem, K!Item, K!Body, K!ParameterLocals, K!Local
  <2>4. ListedOnce => f \notin Before(FunctionDecls, next)
    BY <1>0, <2>1, NotBefore DEF ListedOnce
  <2> HIDE DEF item
  <2>5. \A symbol \in item.declares :
          CMockaAccounted(symbol)' /\ (ListedOnce => ~CMockaAccounted(symbol))
    BY <1>1, <2>1, <2>3, <2>4 DEF CMockaAccounted, Progress
  <2> QED
    BY <2>1, <2>2, <2>5, CMockaItemOnce
<1>8. CASE K!Finish
  <2>1. /\ pc = "functions" /\ pc' = "done" /\ next > Len(FunctionDecls)
        /\ UNCHANGED <<out, FunctionDecls, VarDecls, next>>
    BY <1>8 DEF K!Finish, K!contextVars
  <2>2. \A symbol : CMockaAccounted(symbol) => CMockaAccounted(symbol)'
    BY <1>1, <2>1 DEF CMockaAccounted, Progress
  <2> QED
    BY <1>2, <2>1, <2>2
<1>9. CASE UNCHANGED K!vars
  <2>1. UNCHANGED <<out, pc, next, FunctionDecls, VarDecls>>
    BY <1>9 DEF K!vars, K!generatorVars, K!contextVars
  <2>2. \A symbol : CMockaAccounted(symbol) => CMockaAccounted(symbol)'
    BY <2>1 DEF CMockaAccounted, Progress, Before
  <2> QED
    BY <1>2, <2>1, <2>2
<1> QED
  BY <1>3, <1>4, <1>5, <1>6, <1>7, <1>8, <1>9 DEF K!Next
=============================================================================
