---------------------------- MODULE OutputProofs ----------------------------
(***************************************************************************)
(* Lemmas about the buffer of a generator, for the theorems about its      *)
(* backends.                                                               *)
(***************************************************************************)
EXTENDS OutputGenerator, TLAPS

\* The buffer is a sequence of items.
Buffer == \E S : out \in Seq(S)

\* What an item that is written does to the buffer.
LEMMA Written ==
    ASSUME Buffer, NEW item, Write(item)
    PROVE  /\ Buffer' /\ Len(out) \in Nat
           /\ DOMAIN out = 1 .. Len(out) /\ Len(out') = Len(out) + 1
           /\ DOMAIN out' = 1 .. Len(out) + 1
           /\ out'[Len(out) + 1] = item
           /\ \A n \in 1 .. Len(out) : out'[n] = out[n]
<1>1. PICK S : out \in Seq(S)
  BY DEF Buffer
<1>2. out \in Seq(S \cup {item})
  BY <1>1
<1>3. Append(out, item) \in Seq(S \cup {item})
  BY <1>2
<1> QED
  BY <1>2, <1>3 DEF Write, Buffer

\* An item that is written adds what it declares.
LEMMA WrittenDeclares ==
    ASSUME Buffer, NEW item, Write(item)
    PROVE  Declared' = Declared \cup item.declares
<1>0. /\ Len(out) \in Nat /\ Len(out') = Len(out) + 1
      /\ out'[Len(out) + 1] = item
      /\ \A n \in 1 .. Len(out) : out'[n] = out[n]
  BY Written
<1>1. \A m \in 1 .. Len(out) + 1 : m \in 1 .. Len(out) \/ m = Len(out) + 1
  BY <1>0
<1>2. \A m \in 1 .. Len(out) : m \in 1 .. Len(out) + 1
  BY <1>0
<1>3. Len(out) + 1 \in 1 .. Len(out) + 1
  BY <1>0
<1> QED
  BY <1>0, <1>1, <1>2, <1>3 DEF Declared, DeclaredBy

\* If it uses only what it or the items before it declare, and members of the
\* fixture, everything is still declared before it is used.
LEMMA WrittenUses ==
    ASSUME Buffer, NEW item, Write(item), DeclaredBeforeUse,
           \A symbol \in item.uses :
                FixtureMember(symbol) \/ symbol \in Declared \cup item.declares
    PROVE  DeclaredBeforeUse' /\ Declared' = Declared \cup item.declares
<1>1. /\ Len(out) \in Nat
      /\ DOMAIN out = 1 .. Len(out) /\ Len(out') = Len(out) + 1
      /\ DOMAIN out' = 1 .. Len(out) + 1
      /\ out'[Len(out) + 1] = item
      /\ \A n \in 1 .. Len(out) : out'[n] = out[n]
  BY Written
<1>2. ASSUME NEW n \in 1 .. Len(out) PROVE DeclaredBy(n)' = DeclaredBy(n)
  <2>1. \A m \in 1 .. n : out'[m] = out[m]
    BY <1>1
  <2> QED
    BY <2>1 DEF DeclaredBy
<1>3. Declared' = Declared \cup item.declares
  BY WrittenDeclares
<1>4. ASSUME NEW n \in DOMAIN out', NEW symbol \in out'[n].uses
      PROVE  FixtureMember(symbol) \/ symbol \in DeclaredBy(n)'
  <2>1. CASE n = Len(out) + 1
    <3>1. Declared' = DeclaredBy(n)'
      BY <1>1, <2>1 DEF Declared, DeclaredBy
    <3> QED
      BY <1>1, <1>3, <1>4, <2>1, <3>1
  <2>2. CASE n \in 1 .. Len(out)
    BY <1>1, <1>2, <1>4, <2>2 DEF DeclaredBeforeUse
  <2> QED
    BY <1>1, <2>1, <2>2
<1> QED
  BY <1>3, <1>4 DEF DeclaredBeforeUse

\* Several items written at once.
LEMMA WrittenItems ==
    ASSUME Buffer, NEW S, NEW items \in Seq(S), out' = out \o items
    PROVE  /\ Buffer' /\ Len(out) \in Nat /\ Len(items) \in Nat
           /\ DOMAIN out = 1 .. Len(out) /\ Len(out') = Len(out) + Len(items)
           /\ DOMAIN out' = 1 .. Len(out) + Len(items)
           /\ \A n \in 1 .. Len(out) : out'[n] = out[n]
           /\ \A n \in 1 .. Len(items) : out'[Len(out) + n] = items[n]
<1>1. PICK T : out \in Seq(T)
  BY DEF Buffer
<1>2. out \in Seq(S \cup T) /\ items \in Seq(S \cup T)
  BY <1>1
<1>3. out \o items \in Seq(S \cup T)
  BY <1>2
<1> QED
  BY <1>2, <1>3 DEF Buffer

\* They declare nothing but their own symbols.
LEMMA WrittenItemsDeclare ==
    ASSUME Buffer, NEW S, NEW items \in Seq(S), out' = out \o items
    PROVE  /\ Declared \subseteq Declared'
           /\ \A symbol \in Declared' :
                 symbol \in Declared \/ \E n \in 1 .. Len(items) : symbol \in items[n].declares
<1>1. /\ Len(out) \in Nat /\ Len(items) \in Nat
      /\ Len(out') = Len(out) + Len(items)
      /\ \A n \in 1 .. Len(out) : out'[n] = out[n]
      /\ \A n \in 1 .. Len(items) : out'[Len(out) + n] = items[n]
  BY WrittenItems
<1>2. \A n \in 1 .. Len(out) : n \in 1 .. Len(out')
  BY <1>1
<1>3. \A n \in 1 .. Len(out') : n \notin 1 .. Len(out) =>
         n - Len(out) \in 1 .. Len(items) /\ out'[n] = items[n - Len(out)]
  BY <1>1
<1> QED
  BY <1>1, <1>2, <1>3 DEF Declared, DeclaredBy

\* If each uses only what the buffer or an item up to it declares, everything
\* is still declared before it is used.
LEMMA WrittenItemsUses ==
    ASSUME Buffer, NEW S, NEW items \in Seq(S), out' = out \o items,
           DeclaredBeforeUse,
           \A n \in 1 .. Len(items) : \A symbol \in items[n].uses :
                \/ FixtureMember(symbol) \/ symbol \in Declared
                \/ \E m \in 1 .. n : symbol \in items[m].declares
    PROVE  /\ DeclaredBeforeUse'
           /\ Declared' = Declared \cup UNION {items[n].declares : n \in 1 .. Len(items)}
<1>1. /\ Buffer' /\ Len(out) \in Nat /\ Len(items) \in Nat
      /\ DOMAIN out = 1 .. Len(out) /\ Len(out') = Len(out) + Len(items)
      /\ DOMAIN out' = 1 .. Len(out) + Len(items)
      /\ \A n \in 1 .. Len(out) : out'[n] = out[n]
      /\ \A n \in 1 .. Len(items) : out'[Len(out) + n] = items[n]
  BY WrittenItems
<1>2. ASSUME NEW n \in 1 .. Len(out) PROVE DeclaredBy(n)' = DeclaredBy(n)
  <2>1. \A m \in 1 .. n : out'[m] = out[m]
    BY <1>1
  <2> QED
    BY <2>1 DEF DeclaredBy
<1>3. ASSUME NEW n \in 1 .. Len(items), NEW l, l = Len(out) + n
      PROVE  DeclaredBy(l)'
             = Declared \cup UNION {items[m].declares : m \in 1 .. n}
  <2>1. \A k \in 1 .. Len(out) + n : k \in 1 .. Len(out) \/ k - Len(out) \in 1 .. n
    BY <1>1
  <2>2. \A k \in 1 .. Len(out) + n : k \notin 1 .. Len(out) => out'[k] = items[k - Len(out)]
    BY <1>1
  <2>3. \A k \in 1 .. Len(out) : k \in 1 .. Len(out) + n
    BY <1>1
  <2>4. \A m \in 1 .. n : Len(out) + m \in 1 .. Len(out) + n /\ out'[Len(out) + m] = items[m]
    BY <1>1
  <2> DEFINE before == UNION {out[m].declares : m \in 1 .. Len(out)}
             added == UNION {items[m].declares : m \in 1 .. n}
             after == UNION {out'[k].declares : k \in 1 .. Len(out) + n}
  <2>5. ASSUME NEW symbol \in after PROVE symbol \in before \cup added
    <3> PICK k \in 1 .. Len(out) + n : symbol \in out'[k].declares
      OBVIOUS
    <3> QED
      BY <1>1, <2>1, <2>2
  <2>6. before \subseteq after
    BY <1>1, <2>3
  <2>7. added \subseteq after
    <3> SUFFICES ASSUME NEW m \in 1 .. n PROVE items[m].declares \subseteq after
      OBVIOUS
    <3> QED
      BY <2>4
  <2>8. DeclaredBy(l)' = after /\ Declared = before
    BY <1>3 DEF Declared, DeclaredBy
  <2> QED
    BY <2>5, <2>6, <2>7, <2>8
<1>4. Declared' = Declared \cup UNION {items[n].declares : n \in 1 .. Len(items)}
  <2>1. CASE Len(items) = 0
    <3>1. Declared' = Declared
      BY <1>1, <2>1 DEF Declared, DeclaredBy
    <3> QED
      BY <2>1, <3>1
  <2>2. CASE Len(items) \in 1 .. Len(items)
    <3> PICK l : l = Len(out) + Len(items)
      OBVIOUS
    <3>1. Declared' = DeclaredBy(l)'
      BY <1>1 DEF Declared
    <3> QED
      BY <1>3, <2>2, <3>1
  <2> QED
    BY <1>1, <2>1, <2>2
<1>5. ASSUME NEW k \in DOMAIN out', NEW symbol \in out'[k].uses
      PROVE  FixtureMember(symbol) \/ symbol \in DeclaredBy(k)'
  <2>1. CASE k \in 1 .. Len(out)
    BY <1>1, <1>2, <1>5, <2>1 DEF DeclaredBeforeUse
  <2>2. CASE k \notin 1 .. Len(out)
    <3>1. PICK n \in 1 .. Len(items) : k = Len(out) + n
      <4>1. k - Len(out) \in 1 .. Len(items) /\ k = Len(out) + (k - Len(out))
        BY <1>1, <2>2
      <4> QED
        BY <4>1
    <3>2. symbol \in items[n].uses
      BY <1>1, <1>5, <3>1
    <3>3. n <= Len(items) /\ \A m \in 1 .. n : m \in 1 .. Len(items)
      BY <1>1
    <3>4. FixtureMember(symbol) \/ symbol \in Declared
              \cup UNION {items[m].declares : m \in 1 .. n}
      BY <3>2
    <3> QED
      BY <1>3, <3>1, <3>4
  <2> QED
    BY <2>1, <2>2
<1> QED
  BY <1>4, <1>5 DEF DeclaredBeforeUse

\* Nothing is written.
LEMMA NothingWritten ==
    ASSUME UNCHANGED out
    PROVE  /\ Buffer' <=> Buffer
           /\ DeclaredBeforeUse' <=> DeclaredBeforeUse
           /\ Declared' = Declared
BY DEF Buffer, Declared, DeclaredBy, DeclaredBeforeUse

-----------------------------------------------------------------------------
(***************************************************************************)
(* What a loop over a list has written so far.                             *)
(***************************************************************************)
\* The members of S that have a symbol with the tag in the output.
DefinedAs(tag, S) == {x \in S : <<tag, x>> \in Declared}

\* The entries of a list that stand before position n, and those that a loop
\* over the list has passed: it is run's part p, and the parts after it follow.
Before(list, n) == {list[m] : m \in {k \in DOMAIN list : k < n}}
Progress(list, p, after) ==
    CASE pc = p -> Before(list, next)
      [] pc \in after -> Range(list)
      [] OTHER -> {}

\* The variables that the generated text defines.
Definable == {v \in VarDecl : VarForm[v] \in {"other", "function pointer"}}

LEMMA BeforeNext ==
    ASSUME NEW S, NEW list \in Seq(S), NEW n \in Nat \ {0}
    PROVE  /\ Before(list, 1) = {}
           /\ n <= Len(list) => list[n] \in S /\ Before(list, n + 1) = Before(list, n) \cup {list[n]}
           /\ n > Len(list) => Before(list, n) = Range(list)
<1>1. DOMAIN list = 1 .. Len(list) /\ Len(list) \in Nat
  OBVIOUS
<1>2. Before(list, 1) = {}
  BY <1>1 DEF Before
<1>3. ASSUME n <= Len(list)
      PROVE  list[n] \in S /\ Before(list, n + 1) = Before(list, n) \cup {list[n]}
  <2>1. n \in DOMAIN list
    BY <1>1, <1>3
  <2>2. {k \in DOMAIN list : k < n + 1} = {k \in DOMAIN list : k < n} \cup {n}
    BY <1>1, <2>1
  <2> QED
    BY <2>1, <2>2 DEF Before
<1>4. ASSUME n > Len(list) PROVE Before(list, n) = Range(list)
  <2>1. {k \in DOMAIN list : k < n} = DOMAIN list
    BY <1>1, <1>4
  <2> QED
    BY <2>1 DEF Before, Range
<1> QED
  BY <1>2, <1>3, <1>4

LEMMA DefinedMore ==
    ASSUME Buffer, NEW item, Write(item), NEW tag, NEW S
    PROVE  DefinedAs(tag, S)' = DefinedAs(tag, S) \cup {x \in S : <<tag, x>> \in item.declares}
BY WrittenDeclares DEF DefinedAs

LEMMA DefinedSame ==
    ASSUME UNCHANGED out, NEW tag, NEW S
    PROVE  DefinedAs(tag, S)' = DefinedAs(tag, S)
BY NothingWritten DEF DefinedAs

\* Some items are written that have no symbol with the tag.
LEMMA DefinedOthers ==
    ASSUME Buffer, NEW T, NEW items \in Seq(T), out' = out \o items, NEW tag,
           \A n \in 1 .. Len(items) : \A symbol \in items[n].declares : symbol[1] # tag
    PROVE  \A x : <<tag, x>> \in Declared' <=> <<tag, x>> \in Declared
<1>1. /\ Declared \subseteq Declared'
      /\ \A symbol \in Declared' :
            symbol \in Declared \/ \E n \in 1 .. Len(items) : symbol \in items[n].declares
  BY WrittenItemsDeclare
<1> SUFFICES ASSUME NEW x, <<tag, x>> \in Declared' PROVE <<tag, x>> \in Declared
  BY <1>1
<1>2. <<tag, x>>[1] = tag
  OBVIOUS
<1> QED
  BY <1>1, <1>2

\* One iteration of writeGlobalVariables defines one variable, if it can.
LEMMA VariableDefined ==
    ASSUME Buffer, VarDecls \in Seq(VarDecl), next \in Nat \ {0}, WriteGlobalVariable
    PROVE  /\ DefinedAs("variable", VarDecl)'
                = DefinedAs("variable", VarDecl) \cup (Definable \cap {VarDecls[next]})
           /\ \A tag, S : tag # "variable" => DefinedAs(tag, S)' = DefinedAs(tag, S)
           /\ Definable \cap Before(VarDecls, next + 1)
                = (Definable \cap Before(VarDecls, next)) \cup (Definable \cap {VarDecls[next]})
<1> DEFINE v == VarDecls[next]
           item == GlobalVariableItem(v)
<1>1. /\ next <= Len(VarDecls)
      /\ IF Uninstantiable(v) THEN UNCHANGED out ELSE Write(item)
  BY DEF WriteGlobalVariable
<1>2. v \in VarDecl /\ Before(VarDecls, next + 1) = Before(VarDecls, next) \cup {v}
  BY <1>1, BeforeNext
<1>3. CASE Uninstantiable(v)
  <2>1. v \notin Definable
    BY <1>3 DEF Uninstantiable, Definable
  <2> QED
    BY <1>1, <1>2, <1>3, <2>1, DefinedSame
<1>4. CASE ~Uninstantiable(v)
  <2>1. item.declares = IF v \in Definable THEN {<<"variable", v>>} ELSE {}
    BY <1>2, <1>4, VariableAssumption
    DEF GlobalVariableItem, Item, Variable, Uninstantiable, Definable
  <2> HIDE DEF item
  <2>2. {x \in VarDecl : <<"variable", x>> \in item.declares} = Definable \cap {v}
    BY <1>2, <2>1
  <2>3. ASSUME NEW tag, NEW S, tag # "variable"
        PROVE  {x \in S : <<tag, x>> \in item.declares} = {}
    BY <2>1, <2>3
  <2>4. Write(item)
    BY <1>1, <1>4
  <2>5. DefinedAs("variable", VarDecl)' = DefinedAs("variable", VarDecl) \cup (Definable \cap {v})
    BY <2>2, <2>4, DefinedMore DEF DefinedAs
  <2>6. \A tag, S : tag # "variable" => DefinedAs(tag, S)' = DefinedAs(tag, S)
    BY <2>3, <2>4, DefinedMore DEF DefinedAs
  <2> QED
    BY <1>2, <2>5, <2>6
<1> QED
  BY <1>3, <1>4

-----------------------------------------------------------------------------
(***************************************************************************)
(* Declaring once.  What is written must be new; in a loop over a list it  *)
(* is, if the list has no entry twice.                                     *)
(***************************************************************************)
LEMMA WrittenOnce ==
    ASSUME Buffer, NEW item, Write(item), DeclaredOnce,
           \A symbol \in item.declares : symbol \notin Declared
    PROVE  DeclaredOnce'
<1>1. /\ Len(out) \in Nat
      /\ DOMAIN out = 1 .. Len(out) /\ DOMAIN out' = 1 .. Len(out) + 1
      /\ out'[Len(out) + 1] = item
      /\ \A n \in 1 .. Len(out) : out'[n] = out[n]
  BY Written
<1>2. \A n \in DOMAIN out' : n \in DOMAIN out \/ n = Len(out) + 1
  BY <1>1
<1>3. \A n \in DOMAIN out : out[n].declares \cap item.declares = {}
  BY <1>1 DEF Declared, DeclaredBy
<1> QED
  BY <1>1, <1>2, <1>3 DEF DeclaredOnce

LEMMA WrittenItemsOnce ==
    ASSUME Buffer, NEW S, NEW items \in Seq(S), out' = out \o items, DeclaredOnce,
           \A n \in 1 .. Len(items) : \A symbol \in items[n].declares : symbol \notin Declared,
           \A m, n \in 1 .. Len(items) :
                m # n => items[m].declares \cap items[n].declares = {}
    PROVE  DeclaredOnce'
<1>1. /\ Len(out) \in Nat /\ Len(items) \in Nat
      /\ DOMAIN out = 1 .. Len(out) /\ DOMAIN out' = 1 .. Len(out) + Len(items)
      /\ \A n \in 1 .. Len(out) : out'[n] = out[n]
      /\ \A n \in 1 .. Len(items) : out'[Len(out) + n] = items[n]
  BY WrittenItems
<1>2. \A n \in DOMAIN out' : n \notin DOMAIN out =>
         n - Len(out) \in 1 .. Len(items) /\ out'[n] = items[n - Len(out)]
  BY <1>1
<1>3. \A n \in DOMAIN out : \A m \in 1 .. Len(items) :
         out[n].declares \cap items[m].declares = {}
  BY <1>1 DEF Declared, DeclaredBy
<1>4. ASSUME NEW m \in DOMAIN out', NEW n \in DOMAIN out', m # n
      PROVE  out'[m].declares \cap out'[n].declares = {}
  <2>1. CASE m \in DOMAIN out /\ n \in DOMAIN out
    BY <1>1, <1>4, <2>1 DEF DeclaredOnce
  <2>2. CASE m \in DOMAIN out /\ n \notin DOMAIN out
    BY <1>1, <1>2, <1>3, <2>2
  <2>3. CASE m \notin DOMAIN out /\ n \in DOMAIN out
    <3>1. out[n].declares \cap items[m - Len(out)].declares = {}
      BY <1>2, <1>3, <2>3
    <3> QED
      BY <1>1, <1>2, <2>3, <3>1
  <2>4. CASE m \notin DOMAIN out /\ n \notin DOMAIN out
    <3>1. m - Len(out) # n - Len(out)
      BY <1>1, <1>4
    <3> QED
      BY <1>2, <2>4, <3>1
  <2> QED
    BY <2>1, <2>2, <2>3, <2>4
<1> QED
  BY <1>4 DEF DeclaredOnce

LEMMA SameOnce ==
    ASSUME UNCHANGED out
    PROVE  (DeclaredOnce' <=> DeclaredOnce) /\ Declared' = Declared
BY DEF DeclaredOnce, Declared, DeclaredBy

NoRepetition(list) == \A m, n \in DOMAIN list : list[m] = list[n] => m = n

\* The visitor adds no declaration twice.
ListedOnce == NoRepetition(FunctionDecls) /\ NoRepetition(VarDecls)

LEMMA NotBefore ==
    ASSUME NEW list, NoRepetition(list), NEW n \in DOMAIN list, n \in Int
    PROVE  list[n] \notin Before(list, n)
BY DEF NoRepetition, Before

LEMMA SymbolNames ==
    /\ \A f, name : Local(f, name)[1] = "local" /\ Local(f, name)[2] = f
    /\ \A f : Body(f)[1] = "body" /\ Body(f)[2] = f
    /\ \A v : Variable(v)[1] = "variable" /\ Variable(v)[2] = v
    /\ Framework[1] = "framework" /\ Linkage[1] = "CCMOCK_LINKAGE"
BY DEF Local, Body, Variable, Framework, Linkage

-----------------------------------------------------------------------------
(***************************************************************************)
(* The context map, which GMock and Raw make in the same way.  While       *)
(* createContextMap climbs, the one context that is not yet recorded under *)
(* its parent is the one it is about to record.                            *)
(***************************************************************************)
\* What the two ways of changing the map do to its entries.
LEMMA InsertedEntries ==
    ASSUME NEW k, NEW c, Map' = Inserted(k, c)
    PROVE  /\ DOMAIN Map' = DOMAIN Map \cup {k}
           /\ \A x \in DOMAIN Map : x # k => Map'[x] = Map[x]
           /\ Map'[k] = Children(k) \cup {c}
BY DEF Inserted, Children

LEMMA LookedUpEntries ==
    ASSUME NEW k, Map' = LookedUp(k)
    PROVE  /\ DOMAIN Map' = DOMAIN Map \cup {k}
           /\ \A x \in DOMAIN Map : Map'[x] = Map[x]
           /\ k \notin DOMAIN Map => Map'[k] = {}
BY DEF LookedUp, Children

LEMMA MapType ==
    ASSUME ContextsTypeOK, CreateContextMap PROVE ContextsTypeOK'
<1> USE DEF ContextsTypeOK
<1>1. CASE NextFunction
  <2>1. FunctionDecls[index] \in FunctionDecl
    BY <1>1, ListAssumption DEF NextFunction
  <2>2. FunctionDecls[index] \in DeclContext /\ FunctionDecls[index] # TranslationUnit
    BY <2>1, ContextAssumption DEF DeclContext
  <2> QED
    BY <1>1, <2>2, ContextAssumption DEF NextFunction
<1>2. CASE Climb
  <2>1. parent \in Context /\ Primary[parent] \in Context /\ Primary[parent] \in DeclContext
    BY <1>2, PrimaryAssumption DEF Climb, DeclContext
  <2>2. Parent[Primary[parent]] \in Context \cup {NoContext}
    BY <2>1, ContextAssumption
  <2>3. child \in DeclContext
    BY <1>2 DEF Climb
  <2>4. \A k \in DOMAIN Map' : Map'[k] \subseteq DeclContext
    <3> DEFINE p == Primary[parent]
    <3>1. /\ DOMAIN Map' = DOMAIN Map \cup {p}
          /\ \A x \in DOMAIN Map : x # p => Map'[x] = Map[x]
          /\ Map'[p] = Children(p) \cup {child}
      BY <1>2, InsertedEntries DEF Climb
    <3>2. Children(p) \subseteq DeclContext
      BY DEF Children
    <3> QED
      BY <2>3, <3>1, <3>2
  <2> QED
    BY <1>2, <2>1, <2>2, <2>4, InsertedEntries DEF Climb
<1> QED
  BY <1>1, <1>2 DEF CreateContextMap

\* A lookup leaves the map well typed.
LEMMA LookUpType ==
    ASSUME ContextsTypeOK, NEW c \in Context, Map' = LookedUp(c),
           UNCHANGED <<FunctionDecls, index, child, parent>>
    PROVE  ContextsTypeOK'
<1>1. /\ DOMAIN Map' = DOMAIN Map \cup {c}
      /\ \A x \in DOMAIN Map : Map'[x] = Map[x]
      /\ c \notin DOMAIN Map => Map'[c] = {}
  BY LookedUpEntries
<1>2. \A k \in DOMAIN Map' : Map'[k] \subseteq DeclContext
  BY <1>1 DEF ContextsTypeOK
<1> QED
  BY <1>1, <1>2 DEF ContextsTypeOK

Recorded(c) == PrimaryParent(c) \in DOMAIN Map /\ c \in Map[PrimaryParent(c)]

Climbing(c) == parent # NoContext /\ c = child

MapInv ==
    /\ parent # NoContext =>
          child \in DOMAIN Map \cup Range(FunctionDecls) /\ parent = Parent[child]
    /\ \A n \in DOMAIN FunctionDecls :
          n < index => Recorded(FunctionDecls[n]) \/ Climbing(FunctionDecls[n])
    /\ \A k \in DOMAIN Map \ {TranslationUnit} : Recorded(k) \/ Climbing(k)
    /\ \A k \in DOMAIN Map : \A c \in Map[k] :
          c \in DOMAIN Map \cup Range(FunctionDecls) /\ k = PrimaryParent(c)

LEMMA MapInvExact == ContextsTypeOK /\ MapInv => MapExact
<1> SUFFICES ASSUME ContextsTypeOK, MapInv, Built PROVE MapExact
  BY DEF MapExact
<1>1. \A n \in DOMAIN FunctionDecls : n < index
  BY ListAssumption DEF Built, ContextsTypeOK
<1>2. \A c : ~Climbing(c)
  BY DEF Built, Climbing
<1>3. \A f \in Range(FunctionDecls) : Recorded(f)
  BY <1>1, <1>2 DEF MapInv, Range
<1> QED
  BY <1>2, <1>3 DEF MapInv, MapExact, Recorded

LEMMA MapInvInit == InitContexts => MapInv
<1> SUFFICES ASSUME InitContexts PROVE MapInv
  OBVIOUS
<1> USE DEF InitContexts
<1>1. DOMAIN Map = {} /\ parent = NoContext /\ index = 1
  OBVIOUS
<1>2. \A n \in DOMAIN FunctionDecls : ~(n < 1)
  BY ListAssumption
<1> QED
  BY <1>1, <1>2 DEF MapInv

\* The next function is taken up: it is the one to be recorded.
LEMMA NextFunctionStep == ContextsTypeOK /\ MapInv /\ NextFunction => MapInv'
<1> SUFFICES ASSUME ContextsTypeOK, MapInv, NextFunction PROVE MapInv'
  OBVIOUS
<1> PICK f : f = FunctionDecls[index]
  OBVIOUS
<1>1. /\ parent = NoContext /\ child' = f /\ parent' = Parent[f] /\ index' = index + 1
      /\ FunctionDecls' = FunctionDecls /\ Map' = Map
  BY DEF NextFunction
<1>2. index \in DOMAIN FunctionDecls /\ FunctionDecls \in Seq(FunctionDecl)
  BY ListAssumption DEF NextFunction, ContextsTypeOK
<1>3. f \in FunctionDecl /\ f \in Range(FunctionDecls)
  BY <1>2 DEF Range
<1>4. Parent[f] # NoContext
  BY <1>3, ContextAssumption DEF DeclContext
<1>5. \A c : Recorded(c) \/ Climbing(c) => Recorded(c)'
  BY <1>1 DEF Recorded, Climbing
<1>6. Climbing(f)'
  BY <1>1, <1>4 DEF Climbing
<1>7. \A n \in DOMAIN FunctionDecls : n < index + 1 => n < index \/ n = index
  BY <1>2
<1>8. \A n \in DOMAIN FunctionDecls :
        n < index' => Recorded(FunctionDecls[n])' \/ Climbing(FunctionDecls[n])'
  <2> SUFFICES ASSUME NEW n \in DOMAIN FunctionDecls, n < index', NEW d, d = FunctionDecls[n]
               PROVE  Recorded(d)' \/ Climbing(d)'
    BY <1>1 DEF Recorded, Climbing
  <2>1. n < index \/ n = index
    BY <1>1, <1>7
  <2>2. CASE n < index
    BY <1>5, <2>2 DEF MapInv
  <2>3. CASE n = index
    BY <1>6, <2>3
  <2> QED
    BY <2>1, <2>2, <2>3
<1>9. \A k \in DOMAIN Map' \ {TranslationUnit} : Recorded(k)' \/ Climbing(k)'
  BY <1>1, <1>5 DEF MapInv
<1>10. \A k \in DOMAIN Map' : \A c \in Map'[k] :
         c \in DOMAIN Map' \cup Range(FunctionDecls') /\ k = PrimaryParent(c)
  BY <1>1 DEF MapInv
<1> QED
  BY <1>1, <1>3, <1>8, <1>9, <1>10 DEF MapInv

\* The climb records its child and goes on with the parent.
LEMMA ClimbStep == ContextsTypeOK /\ MapInv /\ Climb => MapInv'
<1> SUFFICES ASSUME ContextsTypeOK, MapInv, Climb PROVE MapInv'
  OBVIOUS
<1> PICK p, d : p = Primary[parent] /\ d = child
  OBVIOUS
<1>1. /\ parent # NoContext /\ child' = p /\ parent' = Parent[p]
      /\ FunctionDecls' = FunctionDecls /\ index' = index
      /\ Map' = Inserted(p, d)
  BY DEF Climb
<1>2. /\ DOMAIN Map' = DOMAIN Map \cup {p}
      /\ \A x \in DOMAIN Map : x # p => Map'[x] = Map[x]
      /\ Map'[p] = Children(p) \cup {d}
  BY <1>1, InsertedEntries
<1>3. p = PrimaryParent(d) /\ d \in DOMAIN Map \cup Range(FunctionDecls)
  BY <1>1 DEF MapInv, PrimaryParent
<1>4. Recorded(d)'
  BY <1>2, <1>3 DEF Recorded
<1>5. \A c : Recorded(c) => Recorded(c)'
  <2> SUFFICES ASSUME NEW c, NEW q, q = PrimaryParent(c), q \in DOMAIN Map, c \in Map[q]
               PROVE  q \in DOMAIN Map' /\ c \in Map'[q]
    BY DEF Recorded
  <2>1. CASE q = p
    BY <1>2, <2>1 DEF Children
  <2>2. CASE q # p
    BY <1>2, <2>2
  <2> QED
    BY <2>1, <2>2
<1>6. \A c : Recorded(c) \/ Climbing(c) => Recorded(c)'
  BY <1>4, <1>5 DEF Climbing
<1>7. p # TranslationUnit => Climbing(p)'
  <2>1. p \in DeclContext
    BY <1>1, PrimaryAssumption DEF ContextsTypeOK, DeclContext
  <2> QED
    BY <1>1, <2>1, ContextAssumption DEF Climbing
<1>8. \A n \in DOMAIN FunctionDecls' : n < index' => Recorded(FunctionDecls[n])'
  <2> SUFFICES ASSUME NEW n \in DOMAIN FunctionDecls, n < index, NEW c, c = FunctionDecls[n]
               PROVE  Recorded(c)'
    BY <1>1 DEF Recorded
  <2> QED
    BY <1>6 DEF MapInv
<1>9. \A k \in DOMAIN Map' \ {TranslationUnit} : Recorded(k)' \/ Climbing(k)'
  BY <1>2, <1>6, <1>7 DEF MapInv
<1>10. \A k \in DOMAIN Map' : \A c \in Map'[k] :
         c \in DOMAIN Map' \cup Range(FunctionDecls') /\ k = PrimaryParent(c)
  <2> SUFFICES ASSUME NEW k \in DOMAIN Map', NEW c \in Map'[k]
               PROVE  c \in DOMAIN Map \cup Range(FunctionDecls) /\ k = PrimaryParent(c)
    BY <1>1, <1>2
  <2>1. CASE k = p /\ c = d
    BY <1>3, <2>1
  <2>2. CASE ~(k = p /\ c = d)
    <3>1. k \in DOMAIN Map /\ c \in Map[k]
      BY <1>2, <2>2 DEF Children
    <3> QED
      BY <3>1 DEF MapInv
  <2> QED
    BY <2>1, <2>2
<1>11. parent' # NoContext => child' \in DOMAIN Map' \cup Range(FunctionDecls')
                                /\ parent' = Parent[child']
  BY <1>1, <1>2
<1> QED
  BY <1>8, <1>9, <1>10, <1>11 DEF MapInv

\* A lookup of a context that is recorded, or of the translation unit.
LEMMA LookUpStep ==
    ASSUME MapInv, NEW k, k = TranslationUnit \/ Recorded(k), Map' = LookedUp(k),
           UNCHANGED <<FunctionDecls, index, child, parent>>
    PROVE  MapInv'
<1>1. /\ DOMAIN Map' = DOMAIN Map \cup {k}
      /\ \A x \in DOMAIN Map : Map'[x] = Map[x]
      /\ k \notin DOMAIN Map => Map'[k] = {}
  BY LookedUpEntries
<1>2. \A c : Recorded(c) => Recorded(c)'
  BY <1>1 DEF Recorded, PrimaryParent
<1>3. \A c : Climbing(c)' <=> Climbing(c)
  BY DEF Climbing
<1>4. \A n \in DOMAIN FunctionDecls :
        n < index => Recorded(FunctionDecls[n])' \/ Climbing(FunctionDecls[n])'
  BY <1>2, <1>3 DEF MapInv
<1>5. \A x \in DOMAIN Map' \ {TranslationUnit} : Recorded(x)' \/ Climbing(x)'
  BY <1>1, <1>2, <1>3 DEF MapInv
<1>6. \A x \in DOMAIN Map' : \A c \in Map'[x] :
        c \in DOMAIN Map \cup Range(FunctionDecls) /\ x = PrimaryParent(c)
  BY <1>1 DEF MapInv
<1> QED
  BY <1>1, <1>4, <1>5, <1>6 DEF MapInv, PrimaryParent
=============================================================================
