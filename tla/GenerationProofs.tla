-------------------------- MODULE GenerationProofs --------------------------
(***************************************************************************)
(* Theorems about the whole generator: the visitor, whichever backend runs *)
(* and the file.  The theorems of the components are used through          *)
(* instances.                                                              *)
(***************************************************************************)
EXTENDS Generation, OutputProofs

-----------------------------------------------------------------------------
(***************************************************************************)
(* Which backend declares what.                                            *)
(***************************************************************************)
Without(tag) == \A symbol \in Declared : symbol[1] # tag

\* A step that writes nothing, or an item without such a symbol.
WritesOther(tag) ==
    UNCHANGED out \/ \E item : Write(item) /\ \A symbol \in item.declares : symbol[1] # tag

LEMMA WithoutKept ==
    ASSUME Buffer, NEW tag, Without(tag), WritesOther(tag) PROVE Without(tag)'
BY WrittenDeclares, NothingWritten DEF Without, WritesOther

LEMMA WithoutItems ==
    ASSUME Buffer, NEW tag, Without(tag), NEW S, NEW items \in Seq(S), out' = out \o items,
           \A n \in 1 .. Len(items) : \A symbol \in items[n].declares : symbol[1] # tag
    PROVE  Without(tag)'
BY WrittenItemsDeclare DEF Without

\* Only FFF has the types of parameters among its symbols, and only Raw has
\* accesses, and no variables.
LEMMA GMockSymbols ==
    ASSUME Buffer, NEW tag \in {"parameter", "access"}, Without(tag), G!Next
    PROVE  Without(tag)'
<1> USE DEF WritesOther
<1>1. CASE G!StartMockClass
  <2> DEFINE items == <<G!Item(G!Included, {}), G!MacroItem, G!Item({G!Class(<<>>)}, {})>>
  <2>1. /\ items \in Seq({items[1], items[2], items[3]}) /\ Len(items) = 3
        /\ \A n \in 1 .. 3 : n = 1 \/ n = 2 \/ n = 3
    OBVIOUS
  <2>2. \A n \in 1 .. 3 : \A symbol \in items[n].declares : symbol[1] # tag
    BY <2>1 DEF G!Included, G!MacroItem, G!Item, G!Class, G!Linkage, G!Framework, G!VaList
  <2>3. out' = out \o items
    BY <1>1 DEF G!StartMockClass
  <2> HIDE DEF items
  <2> QED
    BY <2>1, <2>2, <2>3, WithoutItems
<1>2. CASE \/ G!MapStep \/ G!EndMockClass \/ G!EndLoop \/ G!EndFunctions
          \/ G!AbortAtEntry \/ G!AbortAtFunction \/ G!Terminated
  BY <1>2, WithoutKept
  DEF G!MapStep, G!EndMockClass, G!EndLoop, G!EndFunctions, G!AbortAtEntry, G!AbortAtFunction,
      G!Abort, G!Terminated, G!vars, G!generatorVars
<1>3. CASE G!WriteNestedClass
  <2>1. WritesOther(tag)
    BY <1>3 DEF G!WriteNestedClass, G!Write, Write, G!Item, G!Class
  <2> QED
    BY <2>1, WithoutKept
<1>4. CASE G!WriteMockMethod
  <2>1. WritesOther(tag)
    BY <1>4 DEF G!WriteMockMethod, G!Write, Write, G!MethodItem, G!Item, G!Method
  <2> QED
    BY <2>1, WithoutKept
<1>5. CASE G!CloseClass
  <2>1. WritesOther(tag)
    BY <1>5 DEF G!CloseClass, G!Write, Write, G!Item, G!Pointer
  <2> QED
    BY <2>1, WithoutKept
<1>6. CASE G!WriteEntry
  <2>1. ASSUME NEW c, NEW symbol \in G!LoopItem(c).declares PROVE symbol[1] # tag
    <3>1. G!DefinitionItem(c).declares = {G!Definition(G!Path[c])}
          /\ G!SetUpItem(c).declares = {G!SetUp(G!AccessPath(c))}
          /\ G!TearDownItem(c).declares = {G!TearDown(G!AccessPath(c))}
          /\ \E name : G!VariableItem(c).declares = {G!Member(name)}
      BY DEF G!DefinitionItem, G!SetUpItem, G!TearDownItem, G!VariableItem, G!Item
    <3>2. \/ G!LoopItem(c) = G!DefinitionItem(c) \/ G!LoopItem(c) = G!SetUpItem(c)
          \/ G!LoopItem(c) = G!TearDownItem(c) \/ G!LoopItem(c) = G!VariableItem(c)
      BY <1>6 DEF G!WriteEntry, G!Looping, G!LoopItem
    <3>3. \A p : /\ G!Definition(p)[1] # tag /\ G!SetUp(p)[1] # tag
                 /\ G!TearDown(p)[1] # tag /\ G!Member(p)[1] # tag
      BY DEF G!Definition, G!SetUp, G!TearDown, G!Member
    <3> QED
      BY <2>1, <3>1, <3>2, <3>3
  <2>2. WritesOther(tag)
    BY <1>6, <2>1 DEF G!WriteEntry, G!Write, Write
  <2> QED
    BY <2>2, WithoutKept
<1>7. CASE G!WriteFunction
  <2>1. WritesOther(tag)
    BY <1>7 DEF G!WriteFunction, G!Write, Write, G!FunctionItem, G!Item, G!Body,
                G!ParameterLocals, G!Local
  <2> QED
    BY <2>1, WithoutKept
<1>8. CASE G!WriteGlobals \/ G!Finish
  <2>1. WritesOther(tag)
    BY <1>8 DEF G!WriteGlobals, G!WriteGlobalVariable, G!EndGlobalVariables, G!Finish,
                G!Write, Write, G!GlobalVariableItem, G!MainItem, G!Item, G!Variable
  <2> QED
    BY <2>1, WithoutKept
<1> QED
  BY <1>1, <1>2, <1>3, <1>4, <1>5, <1>6, <1>7, <1>8 DEF G!Next

LEMMA CMockaSymbols ==
    ASSUME Buffer, NEW tag \in {"parameter", "access"}, Without(tag), K!Next
    PROVE  Without(tag)'
<1>1. CASE K!WriteIncludeDirectives
  <2> DEFINE items == <<K!Item({K!Framework}, {}), K!MacroItem>>
  <2>1. /\ items \in Seq({items[1], items[2]}) /\ Len(items) = 2
        /\ \A n \in 1 .. 2 : n = 1 \/ n = 2
    OBVIOUS
  <2>2. \A n \in 1 .. 2 : \A symbol \in items[n].declares : symbol[1] # tag
    BY <2>1 DEF K!MacroItem, K!Item, K!Linkage, K!Framework
  <2>3. out' = out \o items
    BY <1>1 DEF K!WriteIncludeDirectives
  <2> HIDE DEF items
  <2> QED
    BY <2>1, <2>2, <2>3, WithoutItems
<1>2. CASE K!WriteGlobals \/ K!Finish
  <2>1. WritesOther(tag)
    BY <1>2 DEF WritesOther, K!WriteGlobals, K!WriteGlobalVariable, K!EndGlobalVariables, K!Finish,
                K!Write, Write, K!GlobalVariableItem, K!Item, K!Variable
  <2> QED
    BY <2>1, WithoutKept
<1>3. CASE K!WriteFunction
  <2>1. WritesOther(tag)
    BY <1>3 DEF WritesOther, K!WriteFunction, K!Write, Write, K!FunctionItem, K!Item, K!Body,
                K!ParameterLocals, K!Local
  <2> QED
    BY <2>1, WithoutKept
<1> QED
  BY <1>1, <1>2, <1>3 DEF K!Next

LEMMA FFFSymbols ==
    ASSUME Buffer, Without("access"), F!Next PROVE Without("access")'
<1>1. CASE F!WriteSettings
  <2> DEFINE items == F!Preamble
  <2>1. /\ items \in Seq({items[1], items[2]}) /\ Len(items) = 2
        /\ \A n \in 1 .. 2 : n = 1 \/ n = 2
    BY DEF F!Preamble
  <2>2. \A n \in 1 .. 2 : \A symbol \in items[n].declares : symbol[1] # "access"
    BY <2>1 DEF F!Preamble, F!Item, F!Setting, F!Framework
  <2>3. out' = out \o items
    BY <1>1 DEF F!WriteSettings
  <2> HIDE DEF items
  <2> QED
    BY <2>1, <2>2, <2>3, WithoutItems
<1>2. CASE F!WriteListEntry \/ F!CreateTypedef
  <2>1. WritesOther("access")
    BY <1>2 DEF WritesOther, F!WriteListEntry, F!CreateTypedef, F!Write, Write, F!Item, F!Listed,
                F!Typedef
  <2> QED
    BY <2>1, WithoutKept
<1>3. CASE F!WriteFake
  <2>1. WritesOther("access")
    BY <1>3 DEF WritesOther, F!WriteFake, F!Write, Write, F!FakeItem, F!Item, F!Body, F!Printed
  <2> QED
    BY <2>1, WithoutKept
<1>4. CASE F!WriteGlobals
  <2>1. WritesOther("access")
    BY <1>4 DEF WritesOther, F!WriteGlobals, F!WriteGlobalVariable, F!EndGlobalVariables,
                F!Write, Write, F!GlobalVariableItem, F!Item, F!Variable
  <2> QED
    BY <2>1, WithoutKept
<1>5. CASE F!SkipParameter \/ F!EndParameters \/ \E from, to : F!EndLoop(from, to)
  BY <1>5, WithoutKept DEF WritesOther, F!SkipParameter, F!EndParameters, F!EndLoop, F!generatorVars
<1> QED
  BY <1>1, <1>2, <1>3, <1>4, <1>5 DEF F!Next

LEMMA RawSymbols ==
    ASSUME Buffer, NEW tag \in {"parameter", "variable"}, Without(tag), R!Next
    PROVE  Without(tag)'
<1>1. CASE R!VisitTranslationUnit \/ R!VisitContext
  <2>1. \E c, uses : Write(R!Item({R!Opened(c)}, uses))
    BY <1>1 DEF R!VisitTranslationUnit, R!VisitContext, R!Write, Write
  <2>2. WritesOther(tag)
    BY <2>1 DEF WritesOther, R!Item, R!Opened
  <2> QED
    BY <2>2, WithoutKept
<1>2. CASE R!VisitFunction
  <2>1. \A f, a : R!Declaration(f)[1] # tag /\ R!Granted(f, a)[1] # tag
    BY DEF R!Declaration, R!Granted
  <2>2. \E f, a : Write(R!Item({R!Declaration(f), R!Granted(f, a)}, {R!Opened(R!Active.context)}))
    BY <1>2 DEF R!VisitFunction, R!Write, Write
  <2>3. WritesOther(tag)
    BY <2>1, <2>2 DEF WritesOther, R!Item
  <2> QED
    BY <2>3, WithoutKept
<1>3. CASE R!MapStep \/ R!VisitOther \/ R!CloseContext \/ R!Finish
  BY <1>3, WithoutKept DEF WritesOther, R!MapStep, R!VisitOther, R!CloseContext, R!Finish
<1> QED
  BY <1>1, <1>2, <1>3 DEF R!Next
-----------------------------------------------------------------------------
(***************************************************************************)
(* The start of a backend.                                                 *)
(***************************************************************************)
Unstarted ==
    /\ index = 1 /\ next = 1 /\ parm = 1
    /\ child = NoContext /\ parent = NoContext /\ DOMAIN Map = {}
    /\ stack = <<>> /\ order = <<>> /\ out = <<>>
    /\ DOMAIN TypedefMap = {} /\ CurrentAccess = "none" /\ scopes = <<>>

LEMMA UnstartedInit == Init => Unstarted
BY DEF Init, Unstarted, InitContexts, InitGenerator, F!InitFFF, R!InitRaw

\* The header of the file declares nothing that the rest refers to.
LEMMA HeaderWritten ==
    ASSUME Unstarted, WriteFileHeader
    PROVE  /\ Buffer' /\ DeclaredBeforeUse'
           /\ DOMAIN out' = {1} /\ out'[1].uses = {}
           /\ Declared' = {<<"header", backend>>}
           /\ \A tag : tag # "header" => Without(tag)'
           /\ pc' = FirstPart[backend]
           /\ UNCHANGED <<visitorVars, lists, index, child, parent, Map, next, stack, order,
                          parm, TypedefMap, CurrentAccess, scopes, environment, file, outcome>>
<1> DEFINE item == Item({<<"header", backend>>}, {})
<1>1. /\ pc' = FirstPart[backend]
      /\ out' = <<item>> /\ out = <<>>
      /\ UNCHANGED <<visitorVars, lists, index, child, parent, Map, next, stack, order,
                     parm, TypedefMap, CurrentAccess, scopes, environment, file, outcome>>
  BY DEF WriteFileHeader, Unstarted
<1>2. item.uses = {} /\ item.declares = {<<"header", backend>>}
  BY DEF Item
<1> HIDE DEF item
<1>3. Buffer /\ Declared = {} /\ Write(item)
  <2>1. out \in Seq({}) /\ Len(out) = 0 /\ out' = Append(out, item)
    BY <1>1
  <2> QED
    BY <2>1 DEF Buffer, Declared, DeclaredBy, Write
<1>4. Declared' = {<<"header", backend>>}
  BY <1>2, <1>3, WrittenDeclares
<1>5. \A tag : tag # "header" => Without(tag)'
  BY <1>4 DEF Without
<1>6. Buffer' /\ DOMAIN out' = {1} /\ out'[1] = item
  BY <1>1, <1>3, Written
<1> QED
  BY <1>1, <1>2, <1>4, <1>5, <1>6 DEF DeclaredBeforeUse

\* The backends leave the lists of the visitor alone.
LEMMA ListsKept == G!Next \/ F!Next \/ K!Next \/ R!Next => UNCHANGED lists
<1>1. G!Next => UNCHANGED lists
  BY DEF lists, G!Next, G!MapStep, G!CreateContextMap, G!NextFunction, G!Climb, G!StartMockClass,
         G!StartWalk, G!lists, G!WriteNestedClass, G!Enter, G!WriteMockMethod, G!Visit,
         G!CloseClass, G!Leave, G!EndMockClass, G!WriteEntry, G!EndLoop, G!WriteFunction,
         G!EndFunctions, G!WriteGlobals, G!WriteGlobalVariable, G!EndGlobalVariables, G!Finish,
         G!AbortAtEntry, G!AbortAtFunction, G!Abort, G!Terminated, G!vars, G!generatorVars,
         G!contextVars
<1>2. F!Next => UNCHANGED lists
  BY DEF lists, F!Next, F!WriteSettings, F!WriteListEntry, F!EndLoop, F!SkipParameter,
         F!CreateTypedef, F!EndParameters, F!WriteFake, F!WriteGlobals, F!WriteGlobalVariable,
         F!EndGlobalVariables, F!generatorVars, F!contextVars
<1>3. K!Next => UNCHANGED lists
  BY DEF lists, K!Next, K!WriteIncludeDirectives, K!WriteGlobals, K!WriteGlobalVariable,
         K!EndGlobalVariables, K!WriteFunction, K!Finish, K!contextVars
<1>4. R!Next => UNCHANGED lists
  BY DEF lists, R!Next, R!MapStep, R!CreateContextMap, R!NextFunction, R!Climb,
         R!VisitTranslationUnit, R!StartWalk, R!lists, R!VisitContext, R!Enter, R!VisitFunction,
         R!VisitOther, R!Visit, R!CloseContext, R!Leave, R!Finish, R!contextVars
<1> QED
  BY <1>1, <1>2, <1>3, <1>4

-----------------------------------------------------------------------------
(***************************************************************************)
(* The theorems of the components.  An instance of a component here and    *)
(* that of its theorems have the same steps, definition by definition, and *)
(* what the theorems assume of the constants holds.  The lists the         *)
(* backends read are any the visitor may have filled.                      *)
(***************************************************************************)
P == INSTANCE CBackendProofs
    WITH FunctionLists <- Seq(FunctionDecl), VariableLists <- Seq(VarDecl)

LEMMA CBackendConstants ==
    /\ P!ContextAssumption /\ P!PrimaryAssumption /\ P!RedeclarationAssumption
    /\ P!TreeAssumption /\ P!ListAssumption /\ P!NameAssumption
    /\ P!ParameterAssumption /\ P!VariableAssumption
BY ContextAssumption, PrimaryAssumption, RedeclarationAssumption, TreeAssumption,
   NameAssumption, ParameterAssumption, VariableAssumption
DEF DeclContext, P!ContextAssumption, P!DeclContext, P!PrimaryAssumption,
    P!RedeclarationAssumption, IsUnnamed, P!IsUnnamed, P!TreeAssumption, P!ListAssumption,
    P!NameAssumption, P!ParameterAssumption, P!VariableAssumption

LEMMA SameCMocka == (K!Next <=> P!K!Next) /\ K!vars = P!K!vars
BY DEF
   K!Next, K!vars, K!WriteIncludeDirectives, K!WriteGlobals, K!WriteFunction,
   K!Finish, K!generatorVars, K!Item, K!Framework, K!MacroItem, K!contextVars,
   K!WriteGlobalVariable, K!EndGlobalVariables, K!Write, K!FunctionItem, K!Linkage,
   K!Uninstantiable, K!GlobalVariableItem, K!Body, K!ParameterLocals,
   K!DeclaresMockPtr, K!Local, K!Argument, K!CopyUses, K!Variable, K!ParameterNames,
   K!OutParams, K!NoName, K!ArgName, K!ParameterName, K!IsOutParam, P!K!Next,
   P!K!vars, P!K!WriteIncludeDirectives, P!K!WriteGlobals, P!K!WriteFunction, P!K!Finish,
   P!K!generatorVars, P!K!Item, P!K!Framework, P!K!MacroItem, P!K!contextVars,
   P!K!WriteGlobalVariable, P!K!EndGlobalVariables, P!K!Write, P!K!FunctionItem,
   P!K!Linkage, P!K!Uninstantiable, P!K!GlobalVariableItem, P!K!Body,
   P!K!ParameterLocals, P!K!DeclaresMockPtr, P!K!Local, P!K!Argument, P!K!CopyUses,
   P!K!Variable, P!K!ParameterNames, P!K!OutParams, P!K!NoName, P!K!ArgName,
   P!K!ParameterName, P!K!IsOutParam

LEMMA CMockaKept ==
    P!CMockaInv /\ P!CMockaWritten /\ (K!Next \/ UNCHANGED <<lists, backendVars>>) =>
        P!CMockaInv' /\ P!CMockaWritten'
<1>1. UNCHANGED <<lists, backendVars>> => UNCHANGED P!K!vars
  BY DEF lists, backendVars, P!K!vars, P!K!generatorVars, P!K!contextVars
<1> QED
  BY <1>1, P!CMockaInvStep, P!CMockaWrittenStep, SameCMocka, CBackendConstants

LEMMA CMockaBegins ==
    ASSUME Unstarted, WriteFileHeader, FunctionDecls \in Seq(FunctionDecl),
           VarDecls \in Seq(VarDecl), backend = "cmocka"
    PROVE  P!CMockaInv' /\ P!CMockaWritten'
<1>1. /\ Buffer' /\ DeclaredBeforeUse' /\ pc' = "includes" /\ next' = 1
      /\ FunctionDecls' = FunctionDecls /\ VarDecls' = VarDecls
      /\ out'[1].uses = {} /\ DOMAIN out' = {1} /\ Declared' = {<<"header", backend>>}
  BY HeaderWritten DEF FirstPart, Unstarted, lists
<1>2. P!CMockaInv'
  BY <1>1 DEF P!CMockaInv, P!CMockaTypeOK, P!Buffer, P!DeclaredBeforeUse, Buffer
<1>3. P!Declared' = Declared'
  BY DEF P!Declared, P!DeclaredBy, Declared, DeclaredBy
<1>4. P!DefinedAs("body", FunctionDecl)' = {} /\ P!DefinedAs("variable", VarDecl)' = {}
  BY <1>1, <1>3 DEF P!DefinedAs
<1> QED
  BY <1>1, <1>2, <1>4 DEF P!CMockaWritten, P!Progress

LEMMA CMockaHolds == P!CMockaInv => Buffer /\ pc # "idle" /\ DeclaredBeforeUse
BY DEF P!CMockaInv, P!CMockaTypeOK, P!Buffer, P!DeclaredBeforeUse, P!DeclaredBy,
       P!FixtureMember, Buffer, DeclaredBeforeUse, DeclaredBy, FixtureMember

LEMMA SameFFF == (F!Next <=> P!Next) /\ F!vars = P!vars
BY DEF
   F!Next, F!vars, F!WriteSettings, F!WriteListEntry, F!EndLoop, F!SkipParameter,
   F!CreateTypedef, F!EndParameters, F!WriteFake, F!WriteGlobals, F!generatorVars,
   F!Preamble, F!contextVars, F!Write, F!Item, F!Listed, F!AtParameter,
   F!NeedsTypedef, F!ParameterType, F!Typedef, F!Stored, F!ParameterAfter,
   F!FakeItem, F!WriteGlobalVariable, F!EndGlobalVariables, F!Setting, F!Framework,
   F!IsFunctionPointer, F!PrintedType, F!Body, F!Printed, F!IsTypedef,
   F!Uninstantiable, F!GlobalVariableItem, F!Variable, P!Next, P!vars,
   P!WriteSettings, P!WriteListEntry, P!EndLoop, P!SkipParameter,
   P!CreateTypedef, P!EndParameters, P!WriteFake, P!WriteGlobals,
   P!generatorVars, P!Preamble, P!contextVars, P!Write, P!Item, P!Listed,
   P!AtParameter, P!NeedsTypedef, P!ParameterType, P!Typedef, P!Stored,
   P!ParameterAfter, P!FakeItem, P!WriteGlobalVariable, P!EndGlobalVariables,
   P!Setting, P!Framework, P!IsFunctionPointer, P!PrintedType, P!Body,
   P!Printed, P!IsTypedef, P!Uninstantiable, P!GlobalVariableItem, P!Variable

LEMMA FFFKept ==
    P!FFFInv /\ P!FFFWritten /\ (F!Next \/ UNCHANGED <<lists, backendVars>>) =>
        P!FFFInv' /\ P!FFFWritten'
<1>1. UNCHANGED <<lists, backendVars>> => UNCHANGED P!vars
  BY DEF lists, backendVars, P!vars, P!generatorVars, P!contextVars
<1> QED
  BY <1>1, P!FFFInvStep, P!FFFWrittenStep, SameFFF, CBackendConstants

LEMMA FFFBegins ==
    ASSUME Unstarted, WriteFileHeader, FunctionDecls \in Seq(FunctionDecl),
           VarDecls \in Seq(VarDecl), backend = "fff"
    PROVE  P!FFFInv' /\ P!FFFWritten'
<1>1. /\ Buffer' /\ pc' = "settings" /\ next' = 1 /\ parm' = 1 /\ DOMAIN TypedefMap' = {}
      /\ FunctionDecls' = FunctionDecls /\ VarDecls' = VarDecls
      /\ out'[1].uses = {} /\ DOMAIN out' = {1} /\ Declared' = {<<"header", backend>>}
  BY HeaderWritten DEF FirstPart, Unstarted, lists
<1>2. P!FFFTypeOK' /\ P!TypedefsMade' /\ P!TypedefsComplete' /\ P!DeclaredBeforeUse'
  BY <1>1 DEF P!FFFTypeOK, P!TypedefsMade, P!TypedefsComplete, P!Passed, P!Buffer, Buffer,
              P!DeclaredBeforeUse
<1>3. P!FunctionPointersNamed'
  <2>1. \A symbol \in out'[1].declares : symbol[1] # "parameter"
    <3>1. Len(out') = 1
      BY <1>1 DEF Buffer
    <3> QED
      BY <1>1, <3>1 DEF Declared, DeclaredBy
  <2> QED
    BY <1>1, <2>1 DEF P!FunctionPointersNamed
<1>4. P!FFFInv'
  BY <1>1, <1>2, <1>3 DEF P!FFFInv
<1>5. P!Declared' = Declared'
  BY DEF P!Declared, P!DeclaredBy, Declared, DeclaredBy
<1>6. /\ P!DefinedAs("FFF_FAKE_LIST", FunctionDecl)' = {}
      /\ P!DefinedAs("body", FunctionDecl)' = {} /\ P!DefinedAs("variable", VarDecl)' = {}
  BY <1>1, <1>5 DEF P!DefinedAs
<1> QED
  BY <1>1, <1>4, <1>6 DEF P!FFFWritten, P!Progress

LEMMA FFFHolds ==
    P!FFFInv => /\ Buffer /\ pc # "idle" /\ DeclaredBeforeUse
               /\ FunctionPointersNamed /\ Range(TypedefMap) \subseteq Declared
<1>1. P!FFFInv => Buffer /\ pc # "idle" /\ DeclaredBeforeUse
  BY DEF P!FFFInv, P!FFFTypeOK, P!Buffer, P!DeclaredBeforeUse, P!DeclaredBy,
         P!FixtureMember, Buffer, DeclaredBeforeUse, DeclaredBy, FixtureMember
<1>2. P!FFFInv => FunctionPointersNamed
  BY DEF P!FFFInv, P!FunctionPointersNamed, P!SpelledOut, P!IsFunctionPointer, P!Typedef,
         P!Range, FunctionPointersNamed, F!FunctionPointersNamed, F!SpelledOut,
         F!IsFunctionPointer, F!Typedef, F!Range
<1>3. P!FFFInv => Range(TypedefMap) \subseteq Declared
  <2>1. P!Declared = Declared
    BY DEF P!Declared, P!DeclaredBy, Declared, DeclaredBy
  <2>2. P!FFFInv => \A base \in DOMAIN TypedefMap : TypedefMap[base] \in P!Declared
    BY DEF P!FFFInv, P!TypedefsMade
  <2> QED
    BY <2>1, <2>2 DEF Range
<1> QED
  BY <1>1, <1>2, <1>3

CP == INSTANCE CollectorProofs
    WITH pc <- collecting, ParamEmpty <- {f \in FunctionDecl : Len(Parameters[f]) = 0}

LEMMA SameVisitor == (C!Next <=> CP!Next) /\ C!vars = CP!vars
BY DEF
   C!Next, C!vars, C!AddName, C!AddGlob, C!RejectGlob, C!StartTraversal,
   C!LeaveExpr, C!SkipFunction, C!SkipVariadic, C!RejectVariadic, C!AddFunctionDecl,
   C!SkipVariable, C!AddVarDecl, C!Finish, C!Terminated, C!input, C!blacklists,
   C!collected, C!Constructing, C!isPattern, C!CurrentEntry, C!Visiting, C!Calls,
   C!CurrentExpr, C!Dispatching, C!CurrentCall, C!FunctionDispatched, C!IsVisited,
   C!Return, C!MarkFunction, C!Unmockable, C!addFunctionDecl, C!VariableDispatched,
   C!VisitCallExpr, C!VisitCXXConstructExpr, C!IsExternalReference,
   C!VisitDeclRefExpr, C!BuiltinSkipped, C!NameSkipped, C!GlobSkipped, C!Dispatched,
   CP!Next, CP!vars, CP!AddName, CP!AddGlob, CP!RejectGlob, CP!StartTraversal,
   CP!LeaveExpr, CP!SkipFunction, CP!SkipVariadic, CP!RejectVariadic,
   CP!AddFunctionDecl, CP!SkipVariable, CP!AddVarDecl, CP!Finish, CP!Terminated,
   CP!input, CP!blacklists, CP!collected, CP!Constructing, CP!isPattern,
   CP!CurrentEntry, CP!Visiting, CP!Calls, CP!CurrentExpr, CP!Dispatching,
   CP!CurrentCall, CP!FunctionDispatched, CP!IsVisited, CP!Return, CP!MarkFunction,
   CP!Unmockable, CP!addFunctionDecl, CP!VariableDispatched, CP!VisitCallExpr,
   CP!VisitCXXConstructExpr, CP!IsExternalReference, CP!VisitDeclRefExpr,
   CP!BuiltinSkipped, CP!NameSkipped, CP!GlobSkipped, CP!Dispatched

LEMMA VisitorConstants ==
    CP!DeclAssumption /\ CP!FunctionAssumption /\ CP!ClassAssumption /\ CP!InputAssumption
BY VisitorAssumption
DEF C!DeclAssumption, C!FunctionAssumption, C!ClassAssumption, C!InputAssumption,
    CP!DeclAssumption, CP!FunctionAssumption, CP!ClassAssumption, CP!InputAssumption,
    C!Decl, C!Expr, C!Entry, C!MockingSection, C!Range, CP!Decl, CP!Expr, CP!Entry,
    CP!MockingSection, CP!Range

LEMMA VisitorBegins == C!Init => CP!VisitorInv
<1>1. C!Init => CP!Init
  BY DEF C!Init, CP!Init
<1> QED
  BY <1>1, CP!VisitorInit, VisitorConstants

LEMMA VisitorKept ==
    CP!VisitorInv /\ (C!Next \/ UNCHANGED <<visitorVars, lists>>) => CP!VisitorInv'
<1>1. UNCHANGED <<visitorVars, lists>> => UNCHANGED CP!vars
  BY DEF visitorVars, lists, CP!vars, CP!input, CP!blacklists, CP!collected
<1> QED
  BY <1>1, CP!VisitorStep, SameVisitor, VisitorConstants

LEMMA VisitorHolds ==
    CP!VisitorInv =>
        /\ C!TypeOK /\ FunctionDecls \in Seq(FunctionDecl) /\ VarDecls \in Seq(VarDecl)
        /\ AnyVariadic \in BOOLEAN
        /\ AnyVariadic <=> \E f \in Range(FunctionDecls) : f \in Variadic
        /\ \A f \in Range(FunctionDecls) : f \in Variadic => Len(Parameters[f]) # 0
<1>1. CP!VisitorInv => C!TypeOK
  BY DEF CP!VisitorInv, C!TypeOK, C!Decl, CP!TypeOK, CP!Decl
<1>2. CP!VisitorInv => FunctionDecls \in Seq(FunctionDecl) /\ VarDecls \in Seq(VarDecl)
                      /\ AnyVariadic \in BOOLEAN
  BY DEF CP!VisitorInv, CP!TypeOK
<1>3. CP!VisitorInv => CP!AnyVariadicExact /\ CP!MockableVariadics
  BY DEF CP!VisitorInv, CP!VariadicInv
<1>4. \A f \in Range(FunctionDecls) : FunctionDecls \in Seq(FunctionDecl) => f \in FunctionDecl
  BY DEF Range
<1> QED
  BY <1>1, <1>2, <1>3, <1>4 DEF CP!AnyVariadicExact, CP!MockableVariadics, CP!Range, Range

\* At the end of the traversal the lists hold what the file has to provide.
LEMMA VisitorEnds ==
    ASSUME CP!VisitorInv
    PROVE  /\ collecting = "done" =>
                /\ Range(FunctionDecls) = C!Needed \cap FunctionDecl
                /\ Range(VarDecls) = C!Needed \cap VarDecl
                /\ ~C!Obstacle
           /\ collecting = "exit" => C!Obstacle
<1>1. C!Needed = CP!Needed
  <2>1. \A e, d : (C!References(e, d) <=> CP!References(e, d)) /\ (C!Uses(e, d) <=> CP!Uses(e, d))
    BY DEF C!References, C!Uses, C!Range, CP!References, CP!Uses, CP!Range
  <2>2. \A d : /\ C!Named(d) <=> CP!Named(d)
               /\ C!Matched(d) <=> CP!Matched(d)
               /\ C!BuiltinAskedFor(d) <=> CP!BuiltinAskedFor(d)
    BY DEF C!Named, C!Matched, C!BuiltinAskedFor, C!Range,
           CP!Named, CP!Matched, CP!BuiltinAskedFor, CP!Range
  <2>3. C!Promised = CP!Promised
    BY <2>1, <2>2 DEF C!Promised, C!Decl, CP!Promised, CP!Decl
  <2>4. C!Overlooked = CP!Overlooked
    BY <2>1, <2>3 DEF C!Overlooked, CP!Overlooked
  <2>5. C!Surplus = CP!Surplus
    BY <2>1, <2>2 DEF C!Surplus, CP!Surplus
  <2> QED
    BY <2>3, <2>4, <2>5 DEF C!Needed, CP!Needed
<1>2. C!Obstacle <=> CP!Obstacle
  BY <1>1 DEF C!Obstacle, CP!Obstacle, C!Unmockable, CP!Unmockable, C!Range, CP!Range
<1>3. /\ CP!Range(FunctionDecls) = Range(FunctionDecls)
      /\ CP!Range(VarDecls) = Range(VarDecls)
  BY DEF CP!Range, Range
<1> QED
  BY <1>1, <1>2, <1>3, CP!VisitorResult, VisitorConstants

RP == INSTANCE RawProofs
    WITH FunctionLists <- Seq(FunctionDecl), VariableLists <- Seq(VarDecl)

LEMMA SameRaw ==
    (R!Next <=> RP!Next) /\ R!vars = RP!vars /\ (AccessFaithful <=> RP!AccessFaithful)
<1>1. R!MapStep <=> RP!MapStep
  BY DEF
    R!MapStep, R!CreateContextMap, R!NextFunction, R!Climb, R!Inserted, R!Children,
    R!contextVars, RP!MapStep, RP!CreateContextMap, RP!NextFunction, RP!Climb,
    RP!Inserted, RP!Children, RP!contextVars
<1>2. R!VisitTranslationUnit <=> RP!VisitTranslationUnit
  BY DEF
    R!VisitTranslationUnit, R!StartWalk, R!Write, R!Item, R!Opened, R!Built, R!LookedUp,
    R!Frame, R!lists, R!Children, R!contextVars, RP!VisitTranslationUnit, RP!StartWalk,
    RP!Write, RP!Item, RP!Opened, RP!Built, RP!LookedUp, RP!Frame, RP!lists, RP!Children,
    RP!contextVars
<1>3. R!VisitContext <=> RP!VisitContext
  BY DEF
    R!VisitContext, R!InClass, R!Active, R!Enter, R!InitialAccess, R!Write, R!Item,
    R!Opened, R!ClassKind, R!LookedUp, R!WithoutChild, R!Frame, R!lists, R!FunctionKind,
    R!Children, R!contextVars, R!Front, R!Last, RP!VisitContext, RP!InClass, RP!Active,
    RP!Enter, RP!InitialAccess, RP!Write, RP!Item, RP!Opened, RP!ClassKind, RP!LookedUp,
    RP!WithoutChild, RP!Frame, RP!lists, RP!FunctionKind, RP!Children, RP!contextVars,
    RP!Front, RP!Last
<1>4. R!VisitFunction <=> RP!VisitFunction
  BY DEF
    R!VisitFunction, R!InClass, R!Active, R!Visit, R!FunctionKind, R!Write, R!Item,
    R!Declaration, R!Granted, R!InEffect, R!Opened, R!ClassKind, R!WithoutChild,
    R!contextVars, R!Front, R!Last, RP!VisitFunction, RP!InClass, RP!Active, RP!Visit,
    RP!FunctionKind, RP!Write, RP!Item, RP!Declaration, RP!Granted, RP!InEffect,
    RP!Opened, RP!ClassKind, RP!WithoutChild, RP!contextVars, RP!Front, RP!Last
<1>5. R!VisitOther <=> RP!VisitOther
  BY DEF
    R!VisitOther, R!InClass, R!Active, R!Visit, R!FunctionKind, R!ClassKind,
    R!WithoutChild, R!contextVars, R!Front, R!Last, RP!VisitOther, RP!InClass, RP!Active,
    RP!Visit, RP!FunctionKind, RP!ClassKind, RP!WithoutChild, RP!contextVars, RP!Front,
    RP!Last
<1>6. R!CloseContext <=> RP!CloseContext
  BY DEF
    R!CloseContext, R!Leave, R!AccessAfter, R!Active, R!InClass, R!contextVars, R!Front,
    R!Last, RP!CloseContext, RP!Leave, RP!AccessAfter, RP!Active, RP!InClass,
    RP!contextVars, RP!Front, RP!Last
<1>7. R!Finish <=> RP!Finish
  BY DEF
    R!Finish, R!contextVars, RP!Finish, RP!contextVars
<1>8. R!vars = RP!vars
  BY DEF R!vars, RP!vars, R!generatorVars, RP!generatorVars, R!contextVars, RP!contextVars
<1>9. AccessFaithful <=> RP!AccessFaithful
  BY DEF
    R!AccessFaithful, R!Granted, R!Declared, R!Nested, R!DeclaredBy, R!Range,
    RP!AccessFaithful, RP!Granted, RP!Declared, RP!Nested, RP!DeclaredBy, RP!Range, AccessFaithful
<1> QED
  BY <1>1, <1>2, <1>3, <1>4, <1>5, <1>6, <1>7, <1>8, <1>9 DEF R!Next, RP!Next

LEMMA RawConstants ==
    /\ RP!ContextAssumption /\ RP!PrimaryAssumption /\ RP!RedeclarationAssumption
    /\ RP!TreeAssumption /\ RP!ListAssumption /\ RP!NameAssumption
    /\ RP!ParameterAssumption /\ RP!VariableAssumption
    /\ RP!KindAssumption /\ RP!ContextKinds /\ RP!AccessOfMembers
BY ContextAssumption, PrimaryAssumption, RedeclarationAssumption, TreeAssumption,
   NameAssumption, ParameterAssumption, VariableAssumption, WalkAssumption, RawAssumption
DEF DeclContext, RP!ContextAssumption, RP!DeclContext, RP!PrimaryAssumption,
    RP!RedeclarationAssumption, IsUnnamed, RP!IsUnnamed, RP!TreeAssumption, RP!ListAssumption,
    RP!NameAssumption, RP!ParameterAssumption, RP!VariableAssumption, G!KindAssumption, RP!KindAssumption,
    G!FunctionKind, R!FunctionKind, RP!FunctionKind, R!ContextKinds, RP!ContextKinds,
    R!AccessOfMembers, RP!AccessOfMembers

LEMMA RawKept ==
    RP!RawInv /\ RP!RawWritten /\ (R!Next \/ UNCHANGED <<lists, backendVars>>) =>
        RP!RawInv' /\ RP!RawWritten'
<1>1. UNCHANGED <<lists, backendVars>> => UNCHANGED RP!vars
  BY DEF lists, backendVars, RP!vars, RP!generatorVars, RP!contextVars
<1> QED
  BY <1>1, RP!RawStep, RP!RawStutter, RP!RawWrittenStep, SameRaw, RawConstants

LEMMA RawBegins ==
    ASSUME Unstarted, WriteFileHeader, FunctionDecls \in Seq(FunctionDecl), backend = "raw"
    PROVE  RP!RawInv' /\ RP!RawWritten'
<1>1. /\ Buffer' /\ pc' = "map" /\ Declared' = {<<"header", backend>>}
      /\ out'[1].uses = {} /\ DOMAIN out' = {1}
      /\ FunctionDecls' = FunctionDecls /\ index' = 1 /\ child' = NoContext
      /\ parent' = NoContext /\ DOMAIN Map' = {}
      /\ stack' = <<>> /\ scopes' = <<>> /\ CurrentAccess' = "none"
  BY HeaderWritten DEF FirstPart, Unstarted, lists
<1>2. RP!Declared' = Declared'
  BY DEF RP!Declared, Declared, RP!DeclaredBy, DeclaredBy
<1>3. /\ \A x : RP!Opened(x) \notin RP!Declared' /\ RP!Declaration(x) \notin RP!Declared'
      /\ \A f, a : RP!Granted(f, a) \notin RP!Declared'
  BY <1>1, <1>2 DEF RP!Opened, RP!Declaration, RP!Granted
<1>4. RP!Buffer' /\ RP!DeclaredBeforeUse'
  BY <1>1 DEF RP!Buffer, RP!DeclaredBeforeUse, Buffer
<1>5. RP!AccessFaithful'
  BY <1>3 DEF RP!AccessFaithful, RP!Granted
<1>6. RP!MapLinked' /\ RP!StackLinked' /\ RP!ScopesTyped' /\ RP!AccessRemembered'
  BY <1>1 DEF RP!MapLinked, RP!StackLinked, RP!ScopesTyped, RP!AccessRemembered
<1>7. RP!RawInv'
  BY <1>1, <1>4, <1>5, <1>6 DEF RP!RawInv
<1>8. RP!ContextsTypeOK' /\ RP!MapInv'
  <2>1. \A n \in DOMAIN FunctionDecls : ~(n < 1)
    OBVIOUS
  <2> QED
    BY <1>1, <2>1 DEF RP!ContextsTypeOK, RP!MapInv
<1>9. RP!CallsInMap' /\ RP!ChildrenVisited' /\ RP!DeclaredWalked'
  <2>1. DOMAIN stack' = {} /\ DOMAIN Map' = {}
    BY <1>1
  <2>2. RP!CallsInMap'
    BY <2>1 DEF RP!CallsInMap
  <2>3. RP!ChildrenVisited'
    BY <2>1 DEF RP!ChildrenVisited
  <2>4. RP!DeclaredWalked'
    BY <1>3 DEF RP!DeclaredWalked
  <2> QED
    BY <2>2, <2>3, <2>4
<1>10. (pc = "map" => \A x : /\ RP!Opened(x) \notin RP!Declared
                             /\ RP!Declaration(x) \notin RP!Declared)'
  BY <1>3 DEF RP!Opened, RP!Declaration
<1> QED
  BY <1>1, <1>7, <1>8, <1>9, <1>10 DEF RP!RawWritten

LEMMA RawHolds ==
    RP!RawInv => /\ Buffer /\ pc # "idle" /\ DeclaredBeforeUse /\ AccessFaithful
                 /\ CurrentAccess \in {"none", "private", "protected", "public"}
                 /\ Range(scopes) \subseteq {"none", "private", "protected", "public"}
                 /\ Len(scopes) = Len(stack)
<1> SUFFICES ASSUME RP!RawInv
             PROVE  /\ Buffer /\ pc # "idle" /\ DeclaredBeforeUse /\ AccessFaithful
                    /\ CurrentAccess \in {"none", "private", "protected", "public"}
                    /\ Range(scopes) \subseteq {"none", "private", "protected", "public"}
                    /\ Len(scopes) = Len(stack)
  OBVIOUS
<1>1. Buffer /\ pc # "idle" /\ DeclaredBeforeUse
  BY DEF RP!RawInv, RP!Buffer, RP!DeclaredBeforeUse, RP!DeclaredBy, RP!FixtureMember,
         Buffer, DeclaredBeforeUse, DeclaredBy, FixtureMember
<1>2. AccessFaithful
  BY SameRaw DEF RP!RawInv
<1>3. /\ CurrentAccess \in {"none", "private", "protected", "public"}
      /\ scopes \in Seq({"none", "private", "protected", "public"}) /\ Len(scopes) = Len(stack)
  BY DEF RP!RawInv, RP!ScopesTyped, RP!Specifier
<1> QED
  BY <1>1, <1>2, <1>3 DEF Range

GP == INSTANCE GMockProofs
    WITH FunctionLists <- Seq(FunctionDecl), VariableLists <- Seq(VarDecl)

LEMMA SamePath ==
    /\ G!Path = GP!Path
    /\ \A c : /\ G!CastIsInvalid(c) <=> GP!CastIsInvalid(c)
             /\ G!AccessPath(c) = GP!AccessPath(c)
<1>1. G!Around = GP!Around
  BY DEF G!Around, GP!Around
<1> QED
  BY <1>1 DEF G!Path, G!CastIsInvalid, G!AccessPath, G!IsUnnamed,
              GP!Path, GP!CastIsInvalid, GP!AccessPath, GP!IsUnnamed

LEMMA SameNamed == (G!AllNamed <=> GP!AllNamed) /\ G!NamedContext = GP!NamedContext
<1>1. G!NamedContext = GP!NamedContext
  BY DEF G!NamedContext, G!IsUnnamed, GP!NamedContext, GP!IsUnnamed
<1> QED
  BY <1>1 DEF G!AllNamed, G!Range, GP!AllNamed, GP!Range

LEMMA SameGMock == (G!Next <=> GP!Next) /\ G!vars = GP!vars
<1>1. G!MapStep <=> GP!MapStep
  BY DEF
    G!MapStep, G!CreateContextMap, G!NextFunction, G!Climb, G!Inserted, G!Children,
    G!contextVars, GP!MapStep, GP!CreateContextMap, GP!NextFunction, GP!Climb,
    GP!Inserted, GP!Children, GP!contextVars
<1>2. G!StartMockClass <=> GP!StartMockClass
  BY DEF
    G!StartMockClass, G!StartWalk, G!Built, G!LookedUp, G!Children, G!Frame,
    G!lists, G!Included, G!Item, G!Framework, G!VaList, G!MacroItem, G!Linkage,
    G!Class, GP!StartMockClass, GP!StartWalk, GP!Built, GP!LookedUp, GP!Children,
    GP!Frame, GP!lists, GP!Included, GP!Item, GP!Framework, GP!VaList, GP!MacroItem,
    GP!Linkage, GP!Class
<1>3. G!WriteNestedClass <=> GP!WriteNestedClass
  BY DEF
    G!WriteNestedClass, G!InClass, G!Active, G!Enter, G!WithoutChild, G!LookedUp,
    G!Children, G!Frame, G!lists, G!ClassKind, G!Write, G!Item, G!Class,
    G!StackPath, G!contextVars, GP!WriteNestedClass, GP!InClass, GP!Active,
    GP!Enter, GP!WithoutChild, GP!LookedUp, GP!Children, GP!Frame, GP!lists,
    GP!ClassKind, GP!Write, GP!Item, GP!Class, GP!StackPath, GP!contextVars
<1>4. \A f : G!Signature(f) = GP!Signature(f)
  BY DEF
    G!Signature, G!MockName, G!OperatorName, G!ParameterTypes, G!HasVaList,
    GP!Signature, GP!MockName, GP!OperatorName, GP!ParameterTypes, GP!HasVaList
<1>5. G!WriteMockMethod <=> GP!WriteMockMethod
  BY <1>4 DEF
    G!WriteMockMethod, G!InClass, G!Active, G!Visit, G!WithoutChild, G!ClassKind,
    G!FunctionKind, G!Write, G!MethodItem, G!Item, G!Method, G!Class, G!StackPath,
    G!Framework, G!UsesVaList, G!VaList, G!HasVaList, G!contextVars,
    GP!WriteMockMethod, GP!InClass, GP!Active, GP!Visit, GP!WithoutChild,
    GP!ClassKind, GP!FunctionKind, GP!Write, GP!MethodItem, GP!Item, GP!Method,
    GP!Class, GP!StackPath, GP!Framework, GP!UsesVaList, GP!VaList, GP!HasVaList,
    GP!contextVars
<1>6. G!CloseClass <=> GP!CloseClass
  BY DEF
    G!CloseClass, G!Leave, G!InClass, G!Active, G!Front, G!Write,
    G!requiresPointerVariable, G!isGlobalContext, G!containsFunctionDecls, G!Item,
    G!Pointer, G!Class, G!StackPath, G!Framework, G!contextVars, GP!CloseClass,
    GP!Leave, GP!InClass, GP!Active, GP!Front, GP!Write, GP!requiresPointerVariable,
    GP!isGlobalContext, GP!containsFunctionDecls, GP!Item, GP!Pointer, GP!Class,
    GP!StackPath, GP!Framework, GP!contextVars
<1>7. G!EndMockClass <=> GP!EndMockClass
  BY DEF
    G!EndMockClass, G!SetToSeqs, G!contextVars, G!Cardinality, GP!EndMockClass,
    GP!SetToSeqs, GP!contextVars, GP!Cardinality
<1>8. \A c : G!LoopItem(c) = GP!LoopItem(c)
  BY SamePath DEF
    G!LoopItem, G!DefinitionItem, G!Definition, G!Class, G!Pointer, G!SetUpItem,
    G!SetUp, G!TearDownItem, G!TearDown, G!VariableItem, G!Member, G!VariableAccess,
    G!Outermost, G!Item, GP!LoopItem, GP!DefinitionItem, GP!Definition, GP!Class,
    GP!Pointer, GP!SetUpItem, GP!SetUp, GP!TearDownItem, GP!TearDown,
    GP!VariableItem, GP!Member, GP!VariableAccess, GP!Outermost, GP!Item
<1>9. G!WriteEntry <=> GP!WriteEntry
  BY <1>8 DEF
    G!WriteEntry, G!Looping, G!Write, G!requiresPointerVariable, G!isGlobalContext,
    G!containsFunctionDecls, G!contextVars, GP!WriteEntry, GP!Looping, GP!Write,
    GP!requiresPointerVariable, GP!isGlobalContext, GP!containsFunctionDecls,
    GP!contextVars
<1>10. G!EndLoop <=> GP!EndLoop
  BY DEF
    G!EndLoop, G!Looping, G!Successor, G!contextVars, GP!EndLoop, GP!Looping,
    GP!Successor, GP!contextVars
<1>11. \A f : G!FunctionItem(f) = GP!FunctionItem(f)
  BY <1>4, SamePath DEF
    G!FunctionItem, G!Item, G!Body, G!ParameterLocals, G!ParameterNames,
    G!ParameterName, G!Local, G!ArgName, G!NoName, G!Argument, G!UsesLast, G!VaList,
    G!Linkage, G!Definition, G!Outermost, G!Method, G!UsesTested, GP!FunctionItem, GP!Item,
    GP!Body, GP!ParameterLocals, GP!ParameterNames, GP!ParameterName, GP!Local,
    GP!ArgName, GP!NoName, GP!Argument, GP!UsesLast, GP!VaList, GP!Linkage,
    GP!Definition, GP!Outermost, GP!Method, GP!UsesTested
<1>12. G!WriteFunction <=> GP!WriteFunction
  BY <1>11 DEF
    G!WriteFunction, G!Write, G!contextVars, GP!WriteFunction, GP!Write,
    GP!contextVars
<1>13. (G!EndFunctions <=> GP!EndFunctions) /\ (G!WriteGlobals <=> GP!WriteGlobals)
  BY DEF
    G!EndFunctions, G!WriteGlobals, G!WriteGlobalVariable, G!EndGlobalVariables,
    G!Uninstantiable, G!GlobalVariableItem, G!Variable, G!Item, G!Write,
    G!contextVars, GP!EndFunctions, GP!WriteGlobals, GP!WriteGlobalVariable,
    GP!EndGlobalVariables, GP!Uninstantiable, GP!GlobalVariableItem, GP!Variable,
    GP!Item, GP!Write, GP!contextVars
<1>14. (G!Finish <=> GP!Finish) /\ (G!Terminated <=> GP!Terminated)
  BY DEF
    G!Finish, G!MainItem, G!Item, G!Framework, G!Write, G!contextVars, G!Terminated,
    G!vars, G!generatorVars, GP!Finish, GP!MainItem, GP!Item, GP!Framework,
    GP!Write, GP!contextVars, GP!Terminated, GP!vars, GP!generatorVars
<1>15. (G!AbortAtEntry <=> GP!AbortAtEntry) /\ (G!AbortAtFunction <=> GP!AbortAtFunction)
  BY SamePath DEF
    G!AbortAtEntry, G!AbortAtFunction, G!Abort, G!Looping, G!requiresPointerVariable,
    G!isGlobalContext, G!containsFunctionDecls, G!contextVars, GP!AbortAtEntry,
    GP!AbortAtFunction, GP!Abort, GP!Looping, GP!requiresPointerVariable,
    GP!isGlobalContext, GP!containsFunctionDecls, GP!contextVars
<1>16. G!vars = GP!vars
  BY DEF G!vars, GP!vars, G!generatorVars, GP!generatorVars, G!contextVars, GP!contextVars
<1> QED
  BY <1>1, <1>2, <1>3, <1>5, <1>6, <1>7, <1>9, <1>10, <1>12, <1>13, <1>14, <1>15, <1>16
  DEF G!Next, GP!Next

LEMMA GMockConstants ==
    /\ GP!ContextAssumption /\ GP!PrimaryAssumption /\ GP!RedeclarationAssumption
    /\ GP!TreeAssumption /\ GP!ListAssumption /\ GP!NameAssumption
    /\ GP!ParameterAssumption /\ GP!VariableAssumption
    /\ GP!KindAssumption /\ GP!MemberAssumption
BY ContextAssumption, PrimaryAssumption, RedeclarationAssumption, TreeAssumption,
   NameAssumption, ParameterAssumption, VariableAssumption, WalkAssumption
DEF DeclContext, GP!ContextAssumption, GP!DeclContext, GP!PrimaryAssumption,
    GP!RedeclarationAssumption, IsUnnamed, GP!IsUnnamed, GP!TreeAssumption, GP!ListAssumption,
    GP!NameAssumption, GP!ParameterAssumption, GP!VariableAssumption, G!KindAssumption, G!MemberAssumption,
    G!FunctionKind, GP!KindAssumption, GP!MemberAssumption, GP!FunctionKind

LEMMA GMockKept ==
    GP!IInv /\ GP!ItemInv /\ GP!GMockWritten /\ (G!Next \/ UNCHANGED <<lists, backendVars>>) =>
        GP!IInv' /\ GP!ItemInv' /\ GP!GMockWritten'
<1> SUFFICES ASSUME GP!IInv, GP!ItemInv, GP!GMockWritten,
                    G!Next \/ UNCHANGED <<lists, backendVars>>
             PROVE  GP!IInv' /\ GP!ItemInv' /\ GP!GMockWritten'
  OBVIOUS
<1>1. UNCHANGED <<lists, backendVars>> => UNCHANGED GP!vars
  BY DEF lists, backendVars, GP!vars, GP!generatorVars, GP!contextVars
<1>2. GP!Next \/ UNCHANGED GP!vars
  BY <1>1, SameGMock
<1>3. GP!IInv' /\ GP!ItemInv'
  BY <1>2, GP!ItemsKeep, GMockConstants
<1>4. GP!BufferInv
  BY DEF GP!ItemInv
<1> QED
  BY <1>2, <1>3, <1>4, GP!GMockWrittenStep, GMockConstants

LEMMA GMockBegins ==
    ASSUME Unstarted, WriteFileHeader, CP!VisitorInv, backend = "gmock"
    PROVE  GP!IInv' /\ GP!ItemInv' /\ GP!GMockWritten'
<1>1. /\ FunctionDecls \in Seq(FunctionDecl) /\ VarDecls \in Seq(VarDecl)
      /\ AnyVariadic \in BOOLEAN
      /\ AnyVariadic <=> \E f \in Range(FunctionDecls) : f \in Variadic
  BY VisitorHolds
<1>2. /\ Buffer' /\ pc' = "map" /\ next' = 1 /\ index' = 1
      /\ child' = NoContext /\ parent' = NoContext /\ DOMAIN Map' = {}
      /\ stack' = <<>> /\ order' = <<>> /\ out'[1].uses = {} /\ DOMAIN out' = {1}
      /\ FunctionDecls' = FunctionDecls /\ VarDecls' = VarDecls /\ AnyVariadic' = AnyVariadic
      /\ Declared' = {<<"header", backend>>}
  BY HeaderWritten DEF FirstPart, Unstarted, lists
<1>3. GP!TypeOK'
  BY <1>1, <1>2 DEF GP!TypeOK, GP!ContextsTypeOK, GP!Range
<1>4. GP!MapInv' /\ GP!StackInv'
  <2>1. \A n \in DOMAIN FunctionDecls : ~(n < 1)
    BY <1>1
  <2> QED
    BY <1>2, <2>1 DEF GP!MapInv, GP!StackInv
<1>5. GP!BufferInv' /\ GP!KeysInv'
  <2>1. GP!Range(FunctionDecls) = Range(FunctionDecls)
    BY DEF GP!Range, Range
  <2>2. AnyVariadic = \E f \in GP!Range(FunctionDecls) : f \in Variadic
    BY <1>1, <2>1
  <2>3. GP!DeclaredBeforeUse' /\ GP!Buffer'
    BY <1>2 DEF GP!DeclaredBeforeUse, GP!Buffer, Buffer
  <2>4. GP!KeysInv'
    BY <1>2, GP!FS_EmptySet, GMockConstants DEF GP!KeysInv
  <2>5. (AnyVariadic = \E f \in GP!Range(FunctionDecls) : f \in Variadic)'
    <3>1. GP!Range(FunctionDecls)' = GP!Range(FunctionDecls)
      BY <1>2 DEF GP!Range
    <3>2. AnyVariadic' = AnyVariadic
      BY <1>2
    <3> QED
      BY <2>2, <3>1, <3>2
  <2> QED
    BY <1>2, <2>3, <2>4, <2>5 DEF GP!BufferInv
<1>6. GP!ClassInv' /\ GP!FinishedInv' /\ GP!LoopInv' /\ GP!FunctionInv' /\ GP!MemberUses'
      /\ GP!DeclaredBeforeUse'
  BY <1>2 DEF GP!ClassInv, GP!FinishedInv, GP!LoopInv, GP!LoopPassed, GP!After, GP!AfterLoops,
              GP!FunctionInv, GP!MemberUses, GP!DeclaredBeforeUse
<1>7. GP!GMockWritten'
  <2>1. GP!Declared' = Declared'
    BY DEF GP!Declared, GP!DeclaredBy, Declared, DeclaredBy
  <2>2. GP!DefinedAs("body", FunctionDecl)' = {} /\ GP!DefinedAs("variable", VarDecl)' = {}
    BY <1>2, <2>1 DEF GP!DefinedAs
  <2> QED
    BY <1>1, <1>2, <2>2 DEF GP!GMockWritten, GP!Progress
<1> QED
  BY <1>3, <1>4, <1>5, <1>6, <1>7 DEF GP!IInv, GP!ItemInv

LEMMA GMockHolds ==
    GP!IInv /\ GP!ItemInv =>
        Buffer /\ pc # "idle" /\ (GP!Ordinary => DeclaredBeforeUse)
BY DEF GP!IInv, GP!TypeOK, GP!ItemInv, GP!BufferInv, GP!Buffer, GP!DeclaredBeforeUse,
       GP!DeclaredBy, GP!FixtureMember, Buffer, DeclaredBeforeUse, DeclaredBy, FixtureMember

\* The visitor sees to it that a variadic function has a parameter.
LEMMA OrdinaryUnit ==
    ASSUME \A c \in Context : Kind[c] \in G!ClassKind \/ IsUnnamed(c),
           CP!VisitorInv, GP!IInv, GP!ItemInv, GP!AllNamed
    PROVE  GP!Ordinary
<1>1. \A f \in GP!Range(FunctionDecls) : f \in Variadic => Len(Parameters[f]) # 0
  BY VisitorHolds DEF GP!Range, Range
<1>2. \A k \in DOMAIN Map : Kind[k] \in GP!ClassKind
  <2>1. DOMAIN Map \subseteq GP!NamedContext
    BY DEF GP!ItemInv, GP!KeysInv
  <2>2. /\ GP!NamedContext \subseteq Context
        /\ \A c \in GP!NamedContext \ {TranslationUnit} : ~GP!IsUnnamed(c)
    BY GP!NamedClosed, GMockConstants
  <2> QED
    BY <2>1, <2>2 DEF IsUnnamed, GP!IsUnnamed, G!ClassKind, GP!ClassKind
<1> QED
  BY <1>1, <1>2 DEF GP!Ordinary, GP!OrdinaryInput

\* Only an invalid cast takes GMock out of its run().
LEMMA StopsAtCast ==
    ASSUME GP!IInv, GP!ItemInv, G!Next, pc # "aborted", pc' = "aborted"
    PROVE  ~G!AllNamed
<1>1. GP!Next
  BY SameGMock
<1>2. ~(\/ GP!MapStep \/ GP!WriteNestedClass \/ GP!WriteMockMethod \/ GP!CloseClass
        \/ GP!WriteEntry \/ GP!WriteFunction \/ GP!Terminated)
  BY DEF GP!MapStep, GP!WriteNestedClass, GP!Enter, GP!WriteMockMethod, GP!Visit,
         GP!CloseClass, GP!Leave, GP!WriteEntry, GP!WriteFunction, GP!Terminated, GP!vars,
         GP!generatorVars
<1>3. ~(GP!StartMockClass \/ GP!EndMockClass \/ GP!EndFunctions \/ GP!Finish)
  BY DEF GP!StartMockClass, GP!StartWalk, GP!EndMockClass, GP!EndFunctions, GP!Finish
<1>4. ~GP!EndLoop
  BY DEF GP!EndLoop, GP!Looping, GP!Successor
<1>5. ~GP!WriteGlobals
  BY DEF GP!WriteGlobals, GP!WriteGlobalVariable, GP!EndGlobalVariables
<1>6. GP!AbortAtEntry \/ GP!AbortAtFunction
  BY <1>1, <1>2, <1>3, <1>4, <1>5 DEF GP!Next
<1> QED
  BY <1>6, GP!AbortNameless, GMockConstants, SameNamed

-----------------------------------------------------------------------------
(***************************************************************************)
(* The generator.  Before a backend runs, its state is untouched; from     *)
(* then on the lists stay what they are, and the invariant of the backend  *)
(* holds.                                                                  *)
(***************************************************************************)
BackendInv ==
    /\ backend = "gmock" => GP!IInv /\ GP!ItemInv /\ GP!GMockWritten
    /\ backend = "fff" => P!FFFInv /\ P!FFFWritten
    /\ backend = "cmocka" => P!CMockaInv /\ P!CMockaWritten
    /\ backend = "raw" => RP!RawInv /\ RP!RawWritten

\* What one backend keeps is left alone by the others.
Own ==
    /\ backend \in Backend /\ outcome \in {"running", "written", "failed"}
    /\ backend # "fff" => DOMAIN TypedefMap = {} /\ Without("parameter")
    /\ backend # "raw" => CurrentAccess = "none" /\ scopes = <<>> /\ Without("access")
    /\ backend = "raw" => Without("variable")

\* A backend is stopped only by a context without a name.
Stopped == pc = "aborted" => backend = "gmock" /\ ~G!AllNamed

Inv ==
    /\ CP!VisitorInv /\ Own /\ Stopped
    /\ outcome # "written" => file = <<>>
    /\ pc = "idle" => Unstarted
    /\ pc # "idle" => collecting = "done" /\ BackendInv

LEMMA NamedKept == UNCHANGED FunctionDecls => (G!AllNamed' <=> G!AllNamed)
BY DEF G!AllNamed, G!Range

LEMMA InvInit == Init => Inv
<1> SUFFICES ASSUME Init PROVE Inv
  OBVIOUS
<1>1. CP!VisitorInv /\ Unstarted
  BY VisitorBegins, UnstartedInit DEF Init
<1>2. \A tag : Without(tag)
  <2>1. Len(out) = 0
    BY <1>1 DEF Unstarted
  <2> QED
    BY <2>1 DEF Without, Declared, DeclaredBy
<1> QED
  BY <1>1, <1>2 DEF Init, Inv, Own, Stopped, Unstarted

LEMMA CollectStep == Inv /\ Collect => Inv'
<1> SUFFICES ASSUME Inv, Collect PROVE Inv'
  OBVIOUS
<1>1. CP!VisitorInv' /\ pc = "idle"
  BY VisitorKept DEF Inv, Collect
<1>2. UNCHANGED <<backendVars, backend, outcome, file>>
  BY DEF Collect, environment
<1>3. Own' /\ Unstarted' /\ pc' = "idle"
  BY <1>1, <1>2
  DEF backendVars, Inv, Own, Unstarted, Without, Declared, DeclaredBy
<1> QED
  BY <1>1, <1>2, <1>3 DEF Inv, Stopped

LEMMA BackendBegins ==
    ASSUME Unstarted, CP!VisitorInv, WriteFileHeader, backend \in Backend
    PROVE  BackendInv'
<1>1. backend' = backend /\ FunctionDecls \in Seq(FunctionDecl) /\ VarDecls \in Seq(VarDecl)
  BY HeaderWritten, VisitorHolds DEF environment
<1> QED
  BY <1>1, GMockBegins, FFFBegins, CMockaBegins, RawBegins DEF BackendInv

LEMMA HeaderStep == Inv /\ WriteFileHeader => Inv'
<1> SUFFICES ASSUME Inv, WriteFileHeader PROVE Inv'
  OBVIOUS
<1>1. Unstarted /\ CP!VisitorInv /\ Own /\ collecting = "done"
  BY DEF Inv, WriteFileHeader
<1>2. BackendInv'
  BY <1>1, BackendBegins DEF Own
<1>3. CP!VisitorInv'
  BY <1>1, HeaderWritten, VisitorKept
<1>4. /\ Own' /\ pc' \notin {"idle", "aborted"}
      /\ collecting' = "done" /\ UNCHANGED <<file, outcome>>
  BY <1>1, HeaderWritten DEF Own, FirstPart, Backend, environment, visitorVars
<1> QED
  BY <1>1, <1>2, <1>3, <1>4 DEF Inv, Stopped

\* The invariant of a backend has been left behind only before it runs.
LEMMA BackendHolds ==
    ASSUME Inv, pc # "idle"
    PROVE  /\ Buffer
           /\ backend = "gmock" => GP!IInv /\ GP!ItemInv /\ GP!GMockWritten
           /\ backend = "fff" => P!FFFInv /\ P!FFFWritten
           /\ backend = "cmocka" => P!CMockaInv /\ P!CMockaWritten
           /\ backend = "raw" => RP!RawInv /\ RP!RawWritten
BY GMockHolds, FFFHolds, CMockaHolds, RawHolds DEF Inv, Own, Backend, BackendInv

LEMMA RunStep ==
    ASSUME Inv, RunGMock \/ RunFFF \/ RunCMocka \/ RunRaw PROVE Inv'
<1>1. pc # "idle" /\ collecting = "done" /\ CP!VisitorInv /\ Own
  BY DEF Inv, RunGMock, RunFFF, RunCMocka, RunRaw, Running
<1>2. Buffer /\ UNCHANGED <<visitorVars, lists, environment, file, outcome>>
  BY <1>1, BackendHolds, ListsKept DEF RunGMock, RunFFF, RunCMocka, RunRaw
<1>3. CP!VisitorInv' /\ collecting' = "done" /\ backend' = backend
  BY <1>1, <1>2, VisitorKept DEF visitorVars, environment
<1>4. CASE RunGMock
  <2>1. /\ backend = "gmock" /\ G!Next
        /\ UNCHANGED <<TypedefMap, CurrentAccess, scopes>>
    BY <1>4 DEF RunGMock, Running
  <2>2. GP!IInv' /\ GP!ItemInv' /\ GP!GMockWritten'
    BY <1>1, <2>1, BackendHolds, GMockKept
  <2>3. Without("parameter")' /\ Without("access")'
    BY <1>1, <1>2, <2>1, GMockSymbols DEF Own
  <2>4. pc' # "idle"
    BY <2>2 DEF GP!IInv, GP!TypeOK
  <2>5. Stopped'
    <3>1. pc # "aborted" /\ UNCHANGED FunctionDecls
      BY <1>2, <1>4 DEF RunGMock, Running, lists
    <3>2. pc' = "aborted" => ~G!AllNamed
      BY <1>1, <2>1, <3>1, BackendHolds, StopsAtCast
    <3> QED
      BY <1>3, <2>1, <3>1, <3>2, NamedKept DEF Stopped
  <2> QED
    BY <1>1, <1>2, <1>3, <2>1, <2>2, <2>3, <2>4, <2>5 DEF Inv, Own, BackendInv
<1>5. CASE RunFFF
  <2>1. backend = "fff" /\ F!Next /\ UNCHANGED <<CurrentAccess, scopes>>
    BY <1>5 DEF RunFFF, Running
  <2>2. P!FFFInv' /\ P!FFFWritten'
    BY <1>1, <2>1, BackendHolds, FFFKept
  <2>3. Without("access")'
    BY <1>1, <1>2, <2>1, FFFSymbols DEF Own
  <2>4. pc' \notin {"idle", "aborted"}
    BY <2>2 DEF P!FFFInv, P!FFFTypeOK
  <2> QED
    BY <1>1, <1>2, <1>3, <2>1, <2>2, <2>3, <2>4 DEF Inv, Own, Stopped, BackendInv
<1>6. CASE RunCMocka
  <2>1. backend = "cmocka" /\ K!Next /\ UNCHANGED <<TypedefMap, CurrentAccess, scopes>>
    BY <1>6 DEF RunCMocka, Running
  <2>2. P!CMockaInv' /\ P!CMockaWritten'
    BY <1>1, <2>1, BackendHolds, CMockaKept
  <2>3. Without("parameter")' /\ Without("access")'
    BY <1>1, <1>2, <2>1, CMockaSymbols DEF Own
  <2>4. pc' \notin {"idle", "aborted"}
    BY <2>2 DEF P!CMockaInv, P!CMockaTypeOK
  <2> QED
    BY <1>1, <1>2, <1>3, <2>1, <2>2, <2>3, <2>4 DEF Inv, Own, Stopped, BackendInv
<1>7. CASE RunRaw
  <2>1. backend = "raw" /\ R!Next /\ UNCHANGED TypedefMap
    BY <1>7 DEF RunRaw, Running
  <2>2. RP!RawInv' /\ RP!RawWritten'
    BY <1>1, <2>1, BackendHolds, RawKept
  <2>3. Without("parameter")' /\ Without("variable")'
    BY <1>1, <1>2, <2>1, RawSymbols DEF Own
  <2>4. pc' \notin {"idle", "aborted"}
    BY <2>2 DEF RP!RawInv
  <2> QED
    BY <1>1, <1>2, <1>3, <2>1, <2>2, <2>3, <2>4 DEF Inv, Own, Stopped, BackendInv
<1> QED
  BY <1>4, <1>5, <1>6, <1>7

\* The steps that write the file or end the run, and those that do nothing.
LEMMA LastSteps ==
    ASSUME Inv, WriteOutput \/ FailToOpen \/ ExitEarly \/ StopInBackend \/ UNCHANGED vars
    PROVE  Inv'
<1>1. /\ UNCHANGED <<visitorVars, lists, backendVars, environment>>
      /\ outcome' \in {outcome, "written", "failed"}
      /\ (outcome' = "written" \/ UNCHANGED file)
      /\ outcome' # "written" => outcome # "written"
  BY DEF WriteOutput, FailToOpen, ExitEarly, StopInBackend, vars
<1>2. CP!VisitorInv' /\ UNCHANGED <<collecting, pc, backend>>
  BY <1>1, VisitorKept DEF Inv, visitorVars, backendVars, environment
<1>3. pc # "idle" => BackendInv'
  BY <1>1, <1>2, BackendHolds, GMockKept, FFFKept, CMockaKept, RawKept DEF BackendInv
<1>4. Own' /\ (pc = "idle" => Unstarted')
  BY <1>1, <1>2 DEF Inv, Own, Unstarted, Without, Declared, DeclaredBy, backendVars
<1>5. Stopped'
  BY <1>1, <1>2, NamedKept DEF Inv, Stopped, lists
<1> QED
  BY <1>1, <1>2, <1>3, <1>4, <1>5 DEF Inv

LEMMA InvStep == Inv /\ [Next]_vars => Inv'
BY CollectStep, HeaderStep, RunStep, LastSteps DEF Next, Terminated

LEMMA Invariance == Spec => []Inv
BY InvInit, InvStep, PTL DEF Spec

-----------------------------------------------------------------------------
(***************************************************************************)
(* The theorems.                                                           *)
(***************************************************************************)
\* Whichever backend runs, the phase and the state of the visitor and of each
\* backend are of their types throughout.
THEOREM TypeCorrect == Spec => []TypeOK
<1>1. Inv => TypeOK
  <2> SUFFICES ASSUME Inv PROVE TypeOK
    OBVIOUS
  <2>1. C!TypeOK /\ Own
    BY VisitorHolds DEF Inv
  <2>2. Range(TypedefMap) \subseteq Declared
    <3>1. CASE DOMAIN TypedefMap = {}
      BY <3>1 DEF Range
    <3>2. CASE pc # "idle" /\ backend = "fff"
      BY <3>2, BackendHolds, FFFHolds
    <3> QED
      BY <2>1, <3>1, <3>2 DEF Inv, Own, Unstarted
  <2>3. CASE pc # "idle" /\ backend = "raw"
    BY <2>1, <2>2, <2>3, BackendHolds, RawHolds DEF TypeOK, Own
  <2>4. CASE CurrentAccess = "none" /\ scopes = <<>> /\ (backend = "raw" => stack = <<>>)
    BY <2>1, <2>2, <2>4 DEF TypeOK, Own, Range
  <2> QED
    BY <2>1, <2>3, <2>4 DEF Inv, Own, Unstarted
<1> QED
  BY Invariance, <1>1, PTL

\* Whichever backend runs, the functions that the visitor collected have the
\* access of the source in the output, members of nested records excepted.
THEOREM AccessesFaithful == Spec => []AccessFaithful
<1>1. Inv => AccessFaithful
  <2> SUFFICES ASSUME Inv PROVE AccessFaithful
    OBVIOUS
  <2>1. CASE pc # "idle" /\ backend = "raw"
    BY <2>1, BackendHolds, RawHolds
  <2>2. CASE Without("access")
    BY <2>2 DEF AccessFaithful, R!AccessFaithful, R!Granted, R!Declared, R!DeclaredBy,
                Without, Declared, DeclaredBy
  <2>3. Unstarted => Without("access")
    BY DEF Unstarted, Without, Declared, DeclaredBy
  <2> QED
    BY <2>1, <2>2, <2>3 DEF Inv, Own
<1> QED
  BY Invariance, <1>1, PTL

\* No fake has a function pointer where the macros of FFF put a name.
THEOREM PointersNamed == Spec => []FunctionPointersNamed
<1>1. Inv => FunctionPointersNamed
  <2> SUFFICES ASSUME Inv PROVE FunctionPointersNamed
    OBVIOUS
  <2>1. CASE pc # "idle" /\ backend = "fff"
    BY <2>1, BackendHolds, FFFHolds
  <2>2. CASE pc # "idle" /\ Without("parameter")
    <3>1. \A n \in DOMAIN out : n \in 1 .. Len(out)
      BY <2>2, BackendHolds DEF Buffer
    <3> QED
      BY <2>2, <3>1 DEF FunctionPointersNamed, F!FunctionPointersNamed, Without, Declared, DeclaredBy
  <2>3. CASE pc = "idle"
    BY <2>3 DEF Inv, Unstarted, FunctionPointersNamed, F!FunctionPointersNamed
  <2> QED
    BY <2>1, <2>2, <2>3 DEF Inv, Own
<1> QED
  BY Invariance, <1>1, PTL

\* Whichever backend runs, everything the output uses is declared above it;
\* for GMock, unless the name of a context without one went into it, where
\* functions stand in namespaces, records and such contexts alone.  That a
\* variadic function has a parameter to name is up to the visitor.
THEOREM DeclaredAbove ==
    ASSUME \A c \in Context : Kind[c] \in G!ClassKind \/ IsUnnamed(c)
    PROVE  Spec => []UsesDeclared
<1>1. Inv => UsesDeclared
  <2> SUFFICES ASSUME Inv, backend = "gmock" => G!AllNamed PROVE DeclaredBeforeUse
    BY DEF UsesDeclared
  <2>1. CASE pc # "idle" /\ backend = "gmock"
    <3>1. GP!IInv /\ GP!ItemInv /\ CP!VisitorInv /\ GP!AllNamed
      BY <2>1, BackendHolds, SameNamed DEF Inv
    <3> QED
      BY <3>1, OrdinaryUnit, GMockHolds
  <2>2. CASE pc # "idle" /\ backend # "gmock"
    BY <2>2, BackendHolds, FFFHolds, CMockaHolds, RawHolds DEF Inv, Own, Backend
  <2>3. CASE pc = "idle"
    BY <2>3 DEF Inv, Unstarted, DeclaredBeforeUse
  <2> QED
    BY <2>1, <2>2, <2>3
<1> QED
  BY Invariance, <1>1, PTL

-----------------------------------------------------------------------------
(***************************************************************************)
(* The file.  What a backend has written when its run() returns is what    *)
(* the collected lists and Providable say; and the lists hold what the     *)
(* translation unit needs.                                                 *)
(***************************************************************************)
Symbols == UNION {out[n].declares : n \in DOMAIN out}

LEMMA SymbolsDeclared == Buffer => Symbols = Declared
BY DEF Symbols, Declared, DeclaredBy, Buffer

LEMMA WrittenByOthers ==
    ASSUME Inv, pc = "done", backend # "raw"
    PROVE  /\ \A f \in FunctionDecl : Body(f) \in Declared <=> f \in Range(FunctionDecls)
           /\ backend = "fff" =>
                \A f \in FunctionDecl : F!Listed(f) \in Declared <=> f \in Range(FunctionDecls)
           /\ \A v \in VarDecl :
                Variable(v) \in Declared <=> v \in Range(VarDecls) /\ v \in Definable
<1>1. CASE backend = "gmock"
  <2>1. GP!Declared = Declared
    BY DEF GP!Declared, GP!DeclaredBy, Declared, DeclaredBy
  <2>2. /\ GP!DefinedAs("body", FunctionDecl) = GP!Range(FunctionDecls)
        /\ GP!DefinedAs("variable", VarDecl) = GP!Definable \cap GP!Range(VarDecls)
    BY <1>1, BackendHolds DEF GP!GMockWritten, GP!Progress
  <2>3. GP!Range(FunctionDecls) = Range(FunctionDecls) /\ GP!Range(VarDecls) = Range(VarDecls)
        /\ GP!Definable = Definable
    BY DEF GP!Range, Range, GP!Definable, Definable
  <2> QED
    BY <1>1, <2>1, <2>2, <2>3 DEF GP!DefinedAs, Body, Variable
<1>2. CASE backend \in {"fff", "cmocka"}
  <2>1. P!Declared = Declared
    BY DEF P!Declared, P!DeclaredBy, Declared, DeclaredBy
  <2>2. /\ P!DefinedAs("body", FunctionDecl) = P!Range(FunctionDecls)
        /\ P!DefinedAs("variable", VarDecl) = P!Definable \cap P!Range(VarDecls)
        /\ backend = "fff" =>
                P!DefinedAs("FFF_FAKE_LIST", FunctionDecl) = P!Range(FunctionDecls)
    BY <1>2, BackendHolds DEF P!FFFWritten, P!CMockaWritten, P!Progress
  <2>3. P!Range(FunctionDecls) = Range(FunctionDecls) /\ P!Range(VarDecls) = Range(VarDecls)
        /\ P!Definable = Definable
    BY DEF P!Range, Range, P!Definable, Definable
  <2> QED
    BY <1>2, <2>1, <2>2, <2>3 DEF P!DefinedAs, Body, Variable, F!Listed
<1> QED
  BY <1>1, <1>2 DEF Inv, Own, Backend

LEMMA SameWalked == R!Walked = RP!Walked
BY DEF R!Walked, RP!Walked, R!ClassKind, RP!ClassKind, R!PrimaryParent, RP!PrimaryParent

LEMMA WrittenByRaw ==
    ASSUME Inv, pc = "done", backend = "raw"
    PROVE  /\ \A f \in FunctionDecl :
                R!Declaration(f) \in Declared
                    <=> f \in Range(FunctionDecls) /\ R!Walked[R!PrimaryParent(f)]
           /\ \A v \in VarDecl : Variable(v) \notin Declared
<1>1. RP!Declared = Declared
  BY DEF RP!Declared, RP!DeclaredBy, Declared, DeclaredBy
<1>2. RP!DefinedAs("declaration", FunctionDecl)
        = {f \in RP!Range(FunctionDecls) : RP!Walked[RP!PrimaryParent(f)]}
  BY BackendHolds, RP!AllWritten, RawConstants
<1>3. RP!Range(FunctionDecls) = Range(FunctionDecls)
  BY DEF RP!Range, Range
<1>4. \A v \in VarDecl : Variable(v) \notin Declared
  BY DEF Inv, Own, Without, Variable
<1> QED
  BY <1>1, <1>2, <1>3, <1>4, SameWalked
  DEF RP!DefinedAs, R!Declaration, R!PrimaryParent, RP!PrimaryParent

\* When a backend's run() returns, its buffer provides what is needed.
LEMMA BufferProvides ==
    ASSUME Inv, pc = "done" PROVE Provided(out) = C!Needed \cap Providable
<1>1. /\ Range(FunctionDecls) = C!Needed \cap FunctionDecl
      /\ Range(VarDecls) = C!Needed \cap VarDecl
  BY VisitorEnds DEF Inv
<1>2. Symbols = Declared
  BY BackendHolds, SymbolsDeclared
<1>3. CASE backend = "raw"
  <2>1. Provided(out) = {f \in FunctionDecl : R!Declaration(f) \in Symbols}
                          \cup {v \in VarDecl : Variable(v) \in Symbols}
    BY <1>3 DEF Provided, Symbols
  <2>2. Providable = {f \in FunctionDecl : R!Walked[R!PrimaryParent(f)]}
    BY <1>3 DEF Providable
  <2> QED
    BY <1>1, <1>2, <1>3, <2>1, <2>2, WrittenByRaw
<1>4. CASE backend # "raw"
  <2>1. Provided(out) =
            {f \in FunctionDecl :
                Body(f) \in Symbols /\ (backend = "fff" => F!Listed(f) \in Symbols)}
              \cup {v \in VarDecl : Variable(v) \in Symbols}
    BY <1>4 DEF Provided, Symbols
  <2>2. Providable = FunctionDecl \cup Definable
    BY <1>4 DEF Providable, Definable
  <2>3. /\ \A f \in FunctionDecl : Body(f) \in Symbols <=> f \in C!Needed
        /\ backend = "fff" => \A f \in FunctionDecl : F!Listed(f) \in Symbols <=> f \in C!Needed
        /\ \A v \in VarDecl : Variable(v) \in Symbols <=> v \in C!Needed /\ v \in Definable
    BY <1>1, <1>2, <1>4, WrittenByOthers
  <2>4. Definable \subseteq VarDecl
    BY DEF Definable
  <2> QED
    BY <2>1, <2>2, <2>3, <2>4
<1> QED
  BY <1>3, <1>4

LEMMA NothingProvided == Provided(<<>>) = {}
BY DEF Provided

\* What is to be provided does not change during a run.
LEMMA PromiseKept ==
    ASSUME Inv, [Next]_vars
    PROVE  /\ C!Needed' = C!Needed /\ C!Obstacle' = C!Obstacle
           /\ UNCHANGED <<backend, writable>> /\ Providable' = Providable
           /\ NamelessContext' = NamelessContext
<1>1. UNCHANGED <<exprs, Mocking, backend, writable>>
  <2>1. CASE Collect
    <3>1. CP!Next
      BY <2>1, SameVisitor DEF Collect
    <3> QED
      BY <2>1, <3>1, CP!InputKept, VisitorConstants DEF Collect, CP!input, environment
  <2>2. CASE ~Collect
    BY <2>2 DEF Next, WriteFileHeader, RunGMock, RunFFF, RunCMocka, RunRaw, WriteOutput,
                FailToOpen, ExitEarly, StopInBackend, Terminated, vars, visitorVars, environment
  <2> QED
    BY <2>1, <2>2
<1>2. C!Needed' = C!Needed
  <2>1. C!Promised' = C!Promised
    BY <1>1 DEF C!Promised, C!Named, C!Matched, C!BuiltinAskedFor
  <2>2. C!Overlooked' = C!Overlooked
    BY <1>1, <2>1 DEF C!Overlooked
  <2>3. C!Surplus' = C!Surplus
    BY <1>1 DEF C!Surplus, C!Named, C!Matched
  <2> QED
    BY <2>1, <2>2, <2>3 DEF C!Needed
<1>3. C!Obstacle' = C!Obstacle
  BY <1>1, <1>2 DEF C!Obstacle, C!Unmockable
<1>4. Providable' = Providable
  BY <1>1 DEF Providable
<1>5. NamelessContext' = NamelessContext
  BY <1>1, <1>2 DEF NamelessContext
<1> QED
  BY <1>1, <1>2, <1>3, <1>4, <1>5

LEMMA RefinementStep ==
    ASSUME Inv, [Next]_vars PROVE [Promise!Next]_(Promise!vars)
<1>1. /\ (C!Needed \cap Providable)' = C!Needed \cap Providable
      /\ (C!Obstacle \/ ~writable)' = (C!Obstacle \/ ~writable)
      /\ NamelessContext' = NamelessContext /\ backend' = backend
  BY PromiseKept
<1>2. ASSUME UNCHANGED file PROVE Provided(file)' = Provided(file)
  BY <1>1, <1>2 DEF Provided
<1>3. CASE WriteOutput
  <2>1. /\ pc = "done" /\ outcome = "running" /\ writable
        /\ file' = out /\ outcome' = "written"
    BY <1>3 DEF WriteOutput, Finished
  <2>2. ~C!Obstacle
    BY <2>1, VisitorEnds DEF Inv
  <2>3. Provided(file)' = Provided(out)
    BY <1>1, <2>1 DEF Provided
  <2>4. Provided(file)' = C!Needed \cap Providable
    BY <2>1, <2>3, BufferProvides
  <2> QED
    BY <1>1, <2>1, <2>2, <2>4 DEF Promise!Next, Promise!Publish
<1>4. CASE FailToOpen \/ ExitEarly
  <2>1. /\ outcome = "running" /\ outcome' = "failed" /\ UNCHANGED file
        /\ ~writable \/ collecting = "exit"
    BY <1>4 DEF FailToOpen, ExitEarly
  <2>2. C!Obstacle \/ ~writable
    BY <2>1, VisitorEnds DEF Inv
  <2> QED
    BY <1>1, <1>2, <2>1, <2>2 DEF Promise!Next, Promise!Fail
<1>5. CASE StopInBackend
  <2>1. pc = "aborted" /\ outcome = "running" /\ outcome' = "failed" /\ UNCHANGED file
    BY <1>5 DEF StopInBackend
  <2>2. backend = "gmock" /\ ~G!AllNamed /\ Range(FunctionDecls) = C!Needed \cap FunctionDecl
    BY <2>1, VisitorEnds DEF Inv, Stopped
  <2>3. NamelessContext
    BY <2>2 DEF NamelessContext, G!AllNamed, G!Range, Range
  <2> QED
    BY <1>1, <1>2, <2>1, <2>3 DEF Promise!Next, Promise!Fail
<1>6. CASE ~(WriteOutput \/ FailToOpen \/ ExitEarly \/ StopInBackend)
  <2>1. UNCHANGED <<file, outcome>>
    BY <1>6 DEF Next, Collect, WriteFileHeader, RunGMock, RunFFF, RunCMocka, RunRaw,
                Terminated, vars
  <2> QED
    BY <1>1, <1>2, <2>1 DEF Promise!vars
<1> QED
  BY <1>3, <1>4, <1>5, <1>6

LEMMA PromiseInit == Init => Promise!Init
<1> SUFFICES ASSUME Init PROVE Promise!Init
  OBVIOUS
<1>1. file = <<>> /\ outcome = "running"
  BY DEF Init
<1>2. Provided(file) = {}
  BY <1>1, NothingProvided
<1>3. (C!Obstacle \/ ~writable) \in BOOLEAN /\ NamelessContext \in BOOLEAN
  BY DEF C!Obstacle, NamelessContext
<1> QED
  BY <1>1, <1>2, <1>3 DEF Promise!Init

\* Whichever backend runs: the file appears in one step, and then it provides
\* exactly what the translation unit needs and the backend can provide; or the
\* run fails, for a reason, and there is no file.  GMock may also be stopped by
\* the invalid cast of a context without a name, such as a linkage
\* specification, but by nothing else.  Together with the run's coming to an end
\* this is PublishesMocks.
THEOREM PublishesSafely == Spec => Promise!Init /\ [][Promise!Next]_(Promise!vars)
BY PromiseInit, Invariance, RefinementStep, PTL DEF Spec
-----------------------------------------------------------------------------
(***************************************************************************)
(* Declaring once.  The header's symbol is no backend's, so that each      *)
(* backend begins with nothing of its own declared, and the lists it reads *)
(* have no entry twice because the visitor marks what it adds.             *)
(***************************************************************************)
BackendOnce ==
    /\ backend = "gmock" => GP!GMockOnce
    /\ backend = "fff" => P!FFFOnce
    /\ backend = "cmocka" => P!CMockaOnce
    /\ backend = "raw" => RP!RawOnce

OnceInv == pc # "idle" => BackendOnce

LEMMA OnceBegins ==
    ASSUME Unstarted, WriteFileHeader, backend \in Backend
    PROVE  OnceInv'
<1>1. /\ backend' = backend /\ pc' = FirstPart[backend] /\ DOMAIN out' = {1}
      /\ Declared' = {<<"header", backend>>} /\ stack' = <<>>
  BY HeaderWritten DEF environment, Unstarted
<1>2. /\ GP!Declared' = Declared' /\ P!Declared' = Declared' /\ RP!Declared' = Declared'
  BY DEF GP!Declared, GP!DeclaredBy, P!Declared, P!DeclaredBy, RP!Declared, RP!DeclaredBy,
         Declared, DeclaredBy
<1>3. /\ GP!DeclaredOnce' /\ P!DeclaredOnce' /\ RP!DeclaredOnce'
  BY <1>1 DEF GP!DeclaredOnce, P!DeclaredOnce, RP!DeclaredOnce
<1>4. \A symbol \in Declared' : symbol[1] = "header"
  BY <1>1
<1>5. CASE backend = "gmock"
  <2>1. pc' = "map"
    BY <1>1, <1>5 DEF FirstPart
  <2>2. GP!GMockOnce'
    BY <1>2, <1>3, <1>4, <2>1 DEF GP!GMockOnce, GP!GMockAccounted
  <2> QED
    BY <1>1, <1>5, <2>2 DEF OnceInv, BackendOnce
<1>6. CASE backend = "fff"
  <2>1. P!FFFOnce'
    BY <1>2, <1>3, <1>4 DEF P!FFFOnce, P!FFFAccounted
  <2> QED
    BY <1>1, <1>6, <2>1 DEF OnceInv, BackendOnce
<1>7. CASE backend = "cmocka"
  <2>1. P!CMockaOnce'
    BY <1>2, <1>3, <1>4 DEF P!CMockaOnce, P!CMockaAccounted
  <2> QED
    BY <1>1, <1>7, <2>1 DEF OnceInv, BackendOnce
<1>8. CASE backend = "raw"
  <2>1. DOMAIN stack' = {}
    BY <1>1
  <2>2. /\ \A x : RP!Opened(x) \notin RP!Declared' /\ RP!Declaration(x) \notin RP!Declared'
        /\ \A x, a : RP!Granted(x, a) \notin RP!Declared'
    BY <1>1, <1>2 DEF RP!Opened, RP!Declaration, RP!Granted
  <2>3. RP!CallsDistinct' /\ RP!PendingNew'
    BY <2>1 DEF RP!CallsDistinct, RP!PendingNew
  <2>4. RP!OpenedAround' /\ RP!AccessWithFunction'
    BY <2>2 DEF RP!OpenedAround, RP!AccessWithFunction, RP!Symbol, RP!Granted
  <2>5. RP!RawOnce'
    BY <1>3, <2>3, <2>4 DEF RP!RawOnce
  <2> QED
    BY <1>1, <1>8, <2>5 DEF OnceInv, BackendOnce
<1> QED
  BY <1>5, <1>6, <1>7, <1>8 DEF Backend

LEMMA BackendOnceKept ==
    ASSUME Inv, OnceInv, pc # "idle", backend' = backend,
           \/ UNCHANGED <<lists, backendVars>>
           \/ backend = "gmock" /\ G!Next
           \/ backend = "fff" /\ F!Next
           \/ backend = "cmocka" /\ K!Next
           \/ backend = "raw" /\ R!Next
    PROVE  OnceInv'
<1>1. UNCHANGED <<lists, backendVars>> =>
        /\ UNCHANGED GP!vars /\ UNCHANGED P!vars
        /\ UNCHANGED P!K!vars /\ UNCHANGED RP!vars
  BY DEF lists, backendVars, GP!vars, GP!generatorVars, GP!contextVars,
         P!vars, P!generatorVars, P!contextVars, P!K!vars, P!K!generatorVars,
         P!K!contextVars, RP!vars, RP!generatorVars, RP!contextVars
<1>2. BackendOnce /\ VarDecls \in Seq(VarDecl)
  BY VisitorHolds DEF Inv, OnceInv
<1>3. CASE backend = "gmock"
  <2>1. GP!IInv /\ GP!ItemInv /\ GP!GMockOnce
    BY <1>2, <1>3, BackendHolds DEF BackendOnce
  <2>2. GP!Next \/ UNCHANGED GP!vars
    BY <1>1, <1>3, SameGMock
  <2>3. GP!GMockOnce'
    BY <1>2, <2>1, <2>2, GP!GMockOnceStep, GMockConstants
  <2> QED
    BY <1>3, <2>3 DEF OnceInv, BackendOnce
<1>4. CASE backend = "fff"
  <2>1. P!FFFInv /\ P!FFFWritten /\ P!FFFOnce
    BY <1>2, <1>4, BackendHolds DEF BackendOnce
  <2>2. P!Next \/ UNCHANGED P!vars
    BY <1>1, <1>4, SameFFF
  <2>3. P!FFFOnce'
    BY <2>1, <2>2, P!FFFOnceStep, CBackendConstants
  <2> QED
    BY <1>4, <2>3 DEF OnceInv, BackendOnce
<1>5. CASE backend = "cmocka"
  <2>1. P!CMockaInv /\ P!CMockaWritten /\ P!CMockaOnce
    BY <1>2, <1>5, BackendHolds DEF BackendOnce
  <2>2. P!K!Next \/ UNCHANGED P!K!vars
    BY <1>1, <1>5, SameCMocka
  <2>3. P!CMockaOnce'
    BY <2>1, <2>2, P!CMockaOnceStep, CBackendConstants
  <2> QED
    BY <1>5, <2>3 DEF OnceInv, BackendOnce
<1>6. CASE backend = "raw"
  <2>1. RP!RawInv /\ RP!RawWritten /\ RP!RawOnce
    BY <1>2, <1>6, BackendHolds DEF BackendOnce
  <2>2. RP!Next \/ UNCHANGED RP!vars
    BY <1>1, <1>6, SameRaw
  <2>3. RP!RawOnce'
    BY <2>1, <2>2, RP!RawOnceStep, RawConstants
  <2> QED
    BY <1>6, <2>3 DEF OnceInv, BackendOnce
<1> QED
  BY <1>3, <1>4, <1>5, <1>6 DEF Inv, Own, Backend

LEMMA OnceStep == Inv /\ OnceInv /\ [Next]_vars => OnceInv'
<1> SUFFICES ASSUME Inv, OnceInv, [Next]_vars PROVE OnceInv'
  OBVIOUS
<1>1. CASE Collect
  <2>1. pc = "idle" /\ UNCHANGED pc
    BY <1>1 DEF Collect, Inv, backendVars
  <2> QED
    BY <2>1 DEF OnceInv
<1>2. CASE WriteFileHeader
  BY <1>2, OnceBegins DEF Inv, Own, WriteFileHeader
<1>3. CASE RunGMock \/ RunFFF \/ RunCMocka \/ RunRaw
  <2>1. /\ pc # "idle" /\ backend' = backend
        /\ \/ backend = "gmock" /\ G!Next
           \/ backend = "fff" /\ F!Next
           \/ backend = "cmocka" /\ K!Next
           \/ backend = "raw" /\ R!Next
    BY <1>3 DEF RunGMock, RunFFF, RunCMocka, RunRaw, Running, environment
  <2> QED
    BY <2>1, BackendOnceKept
<1>4. CASE WriteOutput \/ FailToOpen \/ ExitEarly \/ StopInBackend \/ UNCHANGED vars
  <2>1. UNCHANGED <<lists, backendVars, pc, backend>>
    BY <1>4 DEF WriteOutput, FailToOpen, ExitEarly, StopInBackend, vars, backendVars, environment
  <2>2. CASE pc = "idle"
    BY <2>1, <2>2 DEF OnceInv
  <2>3. CASE pc # "idle"
    BY <2>1, <2>3, BackendOnceKept
  <2> QED
    BY <2>2, <2>3
<1> QED
  BY <1>1, <1>2, <1>3, <1>4 DEF Next, Terminated

\* The names that a backend forms of those in the source differ: of GMock's
\* classes and mock methods in one context, of FFF's fakes.
NamesDiffer ==
    /\ backend = "gmock" => GP!NamesApart
    /\ backend = "fff" => P!OwnIdentifiers

\* Whichever backend runs, nothing in its output is declared or defined twice,
\* if the names that GMock and FFF form differ; for GMock, unless the name of a
\* context without one went into it.  A function that is collected through two
\* of its declarations counts as two for CMocka and Raw, which form no names;
\* and the parameters and variables inside one definition are not compared with
\* each other.
THEOREM NothingDeclaredTwice == Spec => [](NamesDiffer => DeclaresOnce)
<1>1. Init => OnceInv
  BY DEF Init, OnceInv
<1>2. ASSUME Inv, OnceInv, NamesDiffer, backend = "gmock" => G!AllNamed PROVE DeclaredOnce
  <2>1. GP!ListedOnce /\ P!ListedOnce
    <3>1. CP!CollectedOnce
      BY <1>2 DEF Inv, CP!VisitorInv, CP!OnceInv
    <3> QED
      BY <3>1 DEF CP!CollectedOnce, CP!IsInjective, GP!ListedOnce, GP!NoRepetition,
                  P!ListedOnce, P!NoRepetition
  <2>2. CASE pc = "idle"
    BY <1>2, <2>2 DEF Inv, Unstarted, DeclaredOnce
  <2>3. CASE pc # "idle" /\ backend = "gmock"
    BY <1>2, <2>1, <2>3, SameNamed
    DEF NamesDiffer, GP!Distinguishable, OnceInv, BackendOnce, GP!GMockOnce, GP!DeclaredOnce, DeclaredOnce
  <2>4. CASE pc # "idle" /\ backend = "fff"
    BY <1>2, <2>1, <2>4
    DEF NamesDiffer, OnceInv, BackendOnce, P!FFFOnce, P!DeclaredOnce, DeclaredOnce
  <2>5. CASE pc # "idle" /\ backend = "cmocka"
    BY <1>2, <2>1, <2>5 DEF OnceInv, BackendOnce, P!CMockaOnce, P!DeclaredOnce, DeclaredOnce
  <2>6. CASE pc # "idle" /\ backend = "raw"
    BY <1>2, <2>6 DEF OnceInv, BackendOnce, RP!RawOnce, RP!DeclaredOnce, DeclaredOnce
  <2> QED
    BY <1>2, <2>2, <2>3, <2>4, <2>5, <2>6 DEF Inv, Own, Backend
<1>3. Inv /\ OnceInv => (NamesDiffer => DeclaresOnce)
  BY <1>2 DEF DeclaresOnce
<1> QED
  BY InvInit, InvStep, <1>1, OnceStep, <1>3, PTL DEF Spec
=============================================================================
