-------------------------- MODULE CollectorProofs --------------------------
(***************************************************************************)
(* Theorems about the collector, for every translation unit, every         *)
(* configuration and every set of declarations.                            *)
(***************************************************************************)
EXTENDS Collector, TLAPS

DispatchCall ==
    [decl : Decl \cup {NoDecl}, unless : {NoDecl}]
        \cup [decl : FunctionDecl \cup {NoDecl}, unless : FunctionDecl]

\* The handlers only ever dispatch declarations, or null, and no constructor
\* stands in the way of a variable.
LEMMA CallsType == \A e \in Expr : Calls(e) \in Seq(DispatchCall)
<1> SUFFICES ASSUME NEW e \in Expr PROVE Calls(e) \in Seq(DispatchCall)
  OBVIOUS
<1>1. CASE e.kind = "call"
  <2>1. Calls(e) = VisitCallExpr(e)
    BY <1>1 DEF Calls
  <2>2. e.decl \in Decl \cup {NoDecl}
    BY <1>1 DEF Expr, Decl
  <2> QED
    BY <2>1, <2>2 DEF VisitCallExpr, Dispatched, DispatchCall
<1>2. CASE e.kind = "construct"
  <2>1. Calls(e) = VisitCXXConstructExpr(e)
    BY <1>2 DEF Calls
  <2>2. e.decl \in FunctionDecl /\ DtorOf[e.decl] \in FunctionDecl \cup {NoDecl}
    BY <1>2, ClassAssumption DEF Expr
  <2> QED
    BY <2>1, <2>2 DEF VisitCXXConstructExpr, Dispatched, DispatchCall, Decl
<1>3. CASE e.kind = "declref" /\ IsExternalReference(e)
  <2> DEFINE v == e.decl
             ctors == CtorsOf[v]
             n == Len(ctors)
  <2>1. Calls(e) = VisitDeclRefExpr(e)
    BY <1>3 DEF Calls
  <2>2. v \in VarDecl /\ ctors \in Seq(FunctionDecl) /\ n \in Nat
    BY <1>3, ClassAssumption DEF IsExternalReference
  <2>3. \A i \in 1 .. n : ctors[i] \in DOMAIN DtorOf
    BY <2>2, ClassAssumption DEF Range
  <2>4. \A k \in 1 .. 2 * n + 1 : VisitDeclRefExpr(e)[k] \in DispatchCall
    <3> TAKE k \in 1 .. 2 * n + 1
    <3>1. CASE k = 2 * n + 1
      BY <2>2, <3>1 DEF VisitDeclRefExpr, Dispatched, DispatchCall, Decl
    <3>2. CASE k # 2 * n + 1
      <4> DEFINE ctor == ctors[(k + 1) \div 2]
      <4>1. (k + 1) \div 2 \in 1 .. n
        BY <2>2, <3>2
      <4>2. ctor \in FunctionDecl /\ DtorOf[ctor] \in FunctionDecl \cup {NoDecl}
        BY <2>3, <4>1, ClassAssumption
      <4>3. VisitDeclRefExpr(e)[k]
              = [decl |-> IF k % 2 = 1 THEN ctor ELSE DtorOf[ctor], unless |-> ctor]
        BY <2>2, <3>2 DEF VisitDeclRefExpr, Dispatched
      <4> HIDE DEF ctor
      <4> QED
        BY <4>2, <4>3 DEF DispatchCall, Decl
    <3> QED
      BY <3>1, <3>2
  <2>5. VisitDeclRefExpr(e) = [k \in 1 .. 2 * n + 1 |-> VisitDeclRefExpr(e)[k]]
    BY DEF VisitDeclRefExpr
  <2>6. 2 * n + 1 \in Nat
    BY <2>2
  <2> HIDE DEF n
  <2> QED
    BY <2>1, <2>4, <2>5, <2>6
<1>4. CASE e.kind = "declref" /\ ~IsExternalReference(e)
  BY <1>4 DEF Calls
<1> QED
  BY <1>1, <1>2, <1>3, <1>4 DEF Expr

-----------------------------------------------------------------------------
(***************************************************************************)
(* Type correctness.                                                       *)
(***************************************************************************)

\* The call the traversal is at is one of its expression's dispatch calls.
LEMMA CurrentCallType ==
    TypeOK /\ Dispatching => CurrentExpr \in Expr /\ CurrentCall \in DispatchCall
<1> SUFFICES ASSUME TypeOK, Dispatching
             PROVE  CurrentExpr \in Expr /\ CurrentCall \in DispatchCall
  OBVIOUS
<1>1. CurrentExpr \in Expr
  BY InputAssumption DEF TypeOK, Dispatching, Visiting, CurrentExpr
<1>2. CurrentCall \in DispatchCall
  <2>1. Calls(CurrentExpr) \in Seq(DispatchCall)
    BY <1>1, CallsType
  <2>2. call \in 1 .. Len(Calls(CurrentExpr))
    BY <2>1 DEF TypeOK, Dispatching
  <2> QED
    BY <2>1, <2>2 DEF CurrentCall
<1> QED
  BY <1>1, <1>2

\* The blacklist entry the constructor is at is a name or a pattern.
LEMMA CurrentEntryType == TypeOK /\ Constructing => CurrentEntry \in Entry
<1> SUFFICES ASSUME TypeOK, Constructing PROVE CurrentEntry \in Entry
  OBVIOUS
<1>1. Mocking.Blacklist \in Seq(Entry)
  BY InputAssumption DEF TypeOK, MockingSection
<1> QED
  BY <1>1 DEF TypeOK, Constructing, CurrentEntry

\* Every action keeps the state well typed.
LEMMA TypeStep == TypeOK /\ [Next]_vars => TypeOK'
<1> SUFFICES ASSUME TypeOK, [Next]_vars PROVE TypeOK'
  OBVIOUS
<1> USE DEF TypeOK, input, blacklists, collected
<1>1. CASE AddName
  BY <1>1, CurrentEntryType DEF AddName, isPattern, Entry
<1>2. CASE AddGlob
  BY <1>2, CurrentEntryType DEF AddGlob, isPattern, Entry
<1>3. CASE RejectGlob
  BY <1>3 DEF RejectGlob
<1>4. CASE StartTraversal
  BY <1>4 DEF StartTraversal
<1>5. CASE LeaveExpr
  BY <1>5 DEF LeaveExpr
<1>6. CASE SkipFunction
  BY <1>6 DEF SkipFunction, Return
<1>7. ASSUME NEW d, MarkFunction(d) PROVE Visited' \subseteq Decl
  <2>1. CurrentCall \in DispatchCall /\ CurrentCall.decl = d /\ d # NoDecl
    BY <1>7, CurrentCallType DEF MarkFunction, FunctionDispatched
  <2>2. d \in Decl
    BY <2>1 DEF DispatchCall, Decl
  <2> QED
    BY <1>7, <2>2 DEF MarkFunction
<1>8. CASE SkipVariadic
  BY <1>7, <1>8 DEF SkipVariadic, Return
<1>9. CASE RejectVariadic
  BY <1>7, <1>9 DEF RejectVariadic
<1>10. CASE AddFunctionDecl
  BY <1>7, <1>10 DEF AddFunctionDecl, addFunctionDecl, Return
<1>11. CASE SkipVariable
  BY <1>11 DEF SkipVariable, Return
<1>12. CASE AddVarDecl
  BY <1>12 DEF AddVarDecl, Return, Decl
<1>13. CASE Finish
  BY <1>13 DEF Finish
<1>14. CASE UNCHANGED vars
  BY <1>14 DEF vars
<1> QED
  BY <1>1, <1>2, <1>3, <1>4, <1>5, <1>6, <1>8, <1>9, <1>10, <1>11, <1>12,
     <1>13, <1>14 DEF Next, Terminated

LEMMA TypeInit == Init => TypeOK
<1> SUFFICES ASSUME Init PROVE TypeOK
  OBVIOUS
<1>1. FunctionDecls \in Seq(FunctionDecl) /\ VarDecls \in Seq(VarDecl)
  BY DEF Init
<1>2. Blacklist = {} /\ GlobBlacklist = {} /\ Visited = {} /\ AnyVariadic = FALSE
  BY DEF Init
<1>3. exprs \in TranslationUnits /\ Mocking \in Configurations /\ pc = "construct"
  BY DEF Init
<1>4. entry = 1 /\ visit = 1 /\ call = 1
  BY DEF Init
<1>5. pc \in {"construct", "traverse", "done", "exit"}
  BY <1>3
<1>6. entry \in Nat \ {0} /\ visit \in Nat \ {0} /\ call \in Nat \ {0}
  BY <1>4
<1>7. Blacklist \subseteq Name \ Pattern /\ GlobBlacklist \subseteq Pattern \ Malformed
      /\ Visited \subseteq Decl
  BY <1>2
<1> QED
  BY <1>1, <1>2, <1>3, <1>5, <1>6, <1>7 DEF TypeOK

\* The collector's state is well typed throughout.
THEOREM TypeCorrect == Spec => []TypeOK
BY TypeInit, TypeStep, PTL DEF Spec

-----------------------------------------------------------------------------
(***************************************************************************)
(* Nothing is collected twice.  The invariant says why: what is collected  *)
(* is marked as visited.                                                   *)
(***************************************************************************)
OnceInv ==
    /\ CollectedOnce
    /\ Range(FunctionDecls) \subseteq Visited
    /\ Range(VarDecls) \subseteq Visited

\* Appending to a sequence an element it does not hold.
LEMMA AppendInjective ==
    ASSUME NEW S, NEW s \in Seq(S), NEW x \in S
    PROVE  /\ Range(Append(s, x)) = Range(s) \cup {x}
           /\ IsInjective(s) /\ x \notin Range(s) => IsInjective(Append(s, x))
<1>1. /\ DOMAIN Append(s, x) = DOMAIN s \cup {Len(s) + 1}
      /\ \A i \in DOMAIN s : Append(s, x)[i] = s[i] /\ i # Len(s) + 1
      /\ Append(s, x)[Len(s) + 1] = x
  OBVIOUS
<1>2. Range(Append(s, x)) = Range(s) \cup {x}
  BY <1>1, Zenon DEF Range
<1>3. ASSUME IsInjective(s), x \notin Range(s) PROVE IsInjective(Append(s, x))
  BY <1>1, <1>3 DEF IsInjective, Range
<1> QED
  BY <1>2, <1>3

LEMMA OnceStep == TypeOK /\ OnceInv /\ [Next]_vars => OnceInv'
<1> SUFFICES ASSUME TypeOK, OnceInv, [Next]_vars PROVE OnceInv'
  OBVIOUS
<1>1. CASE AddFunctionDecl
  <2> PICK d \in FunctionDecl :
        /\ MarkFunction(d) /\ addFunctionDecl(d)
    BY <1>1 DEF AddFunctionDecl
  <2>1. d \notin Visited /\ Visited' = Visited \cup {d}
    BY DEF MarkFunction, IsVisited
  <2>2. FunctionDecls' = Append(FunctionDecls, d) /\ VarDecls' = VarDecls
    BY DEF addFunctionDecl
  <2>3. d \notin Range(FunctionDecls)
    BY <2>1 DEF OnceInv
  <2>4. /\ Range(FunctionDecls') = Range(FunctionDecls) \cup {d}
        /\ IsInjective(FunctionDecls')
    BY <2>2, <2>3, AppendInjective DEF TypeOK, OnceInv, CollectedOnce
  <2> QED
    BY <2>1, <2>2, <2>4 DEF OnceInv, CollectedOnce
<1>2. CASE AddVarDecl
  <2> PICK v \in VarDecl :
        /\ ~IsVisited(v) /\ Visited' = Visited \cup {v}
        /\ VarDecls' = Append(VarDecls, v) /\ UNCHANGED <<FunctionDecls, AnyVariadic>>
    BY <1>2 DEF AddVarDecl
  <2>1. v \notin Range(VarDecls)
    BY DEF OnceInv, IsVisited
  <2>2. Range(VarDecls') = Range(VarDecls) \cup {v} /\ IsInjective(VarDecls')
    BY <2>1, AppendInjective DEF TypeOK, OnceInv, CollectedOnce
  <2> QED
    BY <2>2 DEF OnceInv, CollectedOnce
<1>3. ASSUME UNCHANGED <<FunctionDecls, VarDecls>>, Visited \subseteq Visited'
      PROVE  OnceInv'
  BY <1>3 DEF OnceInv, CollectedOnce
<1>4. CASE \/ AddName \/ AddGlob \/ RejectGlob \/ StartTraversal \/ LeaveExpr
           \/ SkipFunction \/ SkipVariable \/ Finish \/ UNCHANGED vars
  BY <1>3, <1>4 DEF AddName, AddGlob, RejectGlob, StartTraversal, LeaveExpr,
     SkipFunction, SkipVariable, Finish, vars, collected
<1>5. CASE SkipVariadic \/ RejectVariadic
  BY <1>3, <1>5 DEF SkipVariadic, RejectVariadic, MarkFunction, collected
<1> QED
  BY <1>1, <1>2, <1>4, <1>5 DEF Next, Terminated

LEMMA OnceInit == Init => OnceInv
BY DEF Init, OnceInv, CollectedOnce, IsInjective, Range

\* However often and along whichever path a declaration is reached, it is
\* collected at most once.
THEOREM NothingTwice == Spec => []CollectedOnce
<1>1. OnceInv => CollectedOnce
  BY DEF OnceInv
<1> QED
  BY <1>1, OnceInit, OnceStep, TypeCorrect, PTL DEF Spec

-----------------------------------------------------------------------------
(***************************************************************************)
(* Variadic functions.                                                     *)
(***************************************************************************)
VariadicInv == AnyVariadicExact /\ MockableVariadics

LEMMA VariadicStep == TypeOK /\ VariadicInv /\ [Next]_vars => VariadicInv'
<1> SUFFICES ASSUME TypeOK, VariadicInv, [Next]_vars PROVE VariadicInv'
  OBVIOUS
<1>1. CASE AddFunctionDecl
  <2> PICK d \in FunctionDecl : ~Unmockable(d) /\ addFunctionDecl(d)
    BY <1>1 DEF AddFunctionDecl
  <2>1. Range(FunctionDecls') = Range(FunctionDecls) \cup {d}
    BY AppendInjective DEF TypeOK, addFunctionDecl
  <2>2. AnyVariadicExact'
    BY <2>1 DEF VariadicInv, AnyVariadicExact, addFunctionDecl
  <2>3. MockableVariadics'
    BY <2>1 DEF VariadicInv, MockableVariadics, Unmockable
  <2> QED
    BY <2>2, <2>3 DEF VariadicInv
<1>2. ASSUME UNCHANGED <<FunctionDecls, AnyVariadic>> PROVE VariadicInv'
  BY <1>2 DEF VariadicInv, AnyVariadicExact, MockableVariadics
<1> QED
  BY <1>1, <1>2 DEF Next, Terminated, AddName, AddGlob, RejectGlob,
     StartTraversal, LeaveExpr, SkipFunction, SkipVariadic, RejectVariadic,
     SkipVariable, AddVarDecl, Finish, vars, collected

LEMMA VariadicInit == Init => VariadicInv
BY DEF Init, VariadicInv, AnyVariadicExact, MockableVariadics, Range

\* The flag that makes a generator include <cstdarg> says whether a mock body
\* uses va_list.
THEOREM VariadicFlagExact == Spec => []AnyVariadicExact
<1>1. VariadicInv => AnyVariadicExact
  BY DEF VariadicInv
<1> QED
  BY <1>1, VariadicInit, VariadicStep, TypeCorrect, PTL DEF Spec

\* Every collected variadic function has a parameter to give to va_start.
THEOREM VariadicsMockable == Spec => []MockableVariadics
<1>1. VariadicInv => MockableVariadics
  BY DEF VariadicInv
<1> QED
  BY <1>1, VariadicInit, VariadicStep, TypeCorrect, PTL DEF Spec

-----------------------------------------------------------------------------
(***************************************************************************)
(* The collector implements MockSelection.  The inductive invariant has    *)
(* one part for what the constructor leaves behind and one for each        *)
(* direction: what was passed over was rightly passed over, and what was   *)
(* collected was needed.                                                   *)
(***************************************************************************)

\* The blacklist entries read so far are split into the two blacklists.
Entries == {Mocking.Blacklist[n] : n \in {m \in DOMAIN Mocking.Blacklist : m < entry}}

BlacklistsSplit ==
    /\ Blacklist = Entries \ Pattern
    /\ GlobBlacklist = Entries \cap Pattern
    /\ Entries \cap Pattern \cap Malformed = {}
    /\ pc \in {"traverse", "done"} => entry > Len(Mocking.Blacklist)
    /\ pc = "construct" => visit = 1 /\ call = 1

\* The dispatch calls made so far.
Passed(n, k) == n < visit \/ (n = visit /\ k < call)

\* A dispatch call that depends on its declaration.
Effective(e, c) == e.inMainFile /\ c.unless \notin Defined

PassedVisited ==
    \A n \in DOMAIN exprs : \A k \in DOMAIN Calls(exprs[n]) :
        LET c == Calls(exprs[n])[k]
        IN  Passed(n, k) /\ Effective(exprs[n], c) /\ c.decl \in Needed
                => c.decl \in Visited

VisitedCollected ==
    /\ Wanted \cap Visited \subseteq Collected
    /\ pc # "exit" => \A d \in Needed \cap Visited : ~Unmockable(d)

SelectionInv ==
    /\ BlacklistsSplit
    /\ PassedVisited
    /\ VisitedCollected
    /\ Collected \subseteq Wanted
    /\ pc = "done" => visit > Len(exprs)
    /\ pc = "exit" => Obstacle

\* An expression needs exactly the declarations its handler dispatches.
LEMMA ReferencesAreCalls ==
    \A e \in Expr, d \in Decl :
        References(e, d) <=>
            \E k \in DOMAIN Calls(e) :
                Calls(e)[k].decl = d /\ Effective(e, Calls(e)[k])
<1> SUFFICES ASSUME NEW e \in Expr, NEW d \in Decl, e.inMainFile
             PROVE  References(e, d) <=>
                      \E k \in DOMAIN Calls(e) :
                        Calls(e)[k].decl = d /\ Calls(e)[k].unless \notin Defined
  BY DEF References, Effective
<1>0. NoDecl \notin Defined /\ d # NoDecl
  BY DeclAssumption, FunctionAssumption DEF Decl
<1>1. CASE e.kind = "call"
  <2>1. Calls(e) = <<[decl |-> e.decl, unless |-> NoDecl]>>
    BY <1>1 DEF Calls, VisitCallExpr, Dispatched
  <2>2. References(e, d) <=> d = e.decl
    BY <1>1 DEF References
  <2> QED
    BY <1>0, <2>1, <2>2
<1>2. CASE e.kind = "construct"
  <2>1. Calls(e) = <<[decl |-> e.decl, unless |-> NoDecl],
                     [decl |-> DtorOf[e.decl], unless |-> NoDecl]>>
    BY <1>2 DEF Calls, VisitCXXConstructExpr, Dispatched
  <2>2. References(e, d) <=> d \in {e.decl, DtorOf[e.decl]}
    BY <1>2 DEF References
  <2>3. DOMAIN Calls(e) = {1, 2}
    BY <2>1
  <2> QED
    BY <1>0, <2>1, <2>2, <2>3
<1>3. CASE e.kind = "declref" /\ IsExternalReference(e)
  <2> DEFINE v == e.decl
             ctors == CtorsOf[v]
             n == Len(ctors)
  <2>1. v \in VarDecl /\ ctors \in Seq(FunctionDecl) /\ n \in Nat
    BY <1>3, ClassAssumption DEF IsExternalReference
  <2>2. DOMAIN Calls(e) = 1 .. 2 * n + 1
    BY <1>3 DEF Calls, VisitDeclRefExpr
  <2>3. Calls(e)[2 * n + 1] = [decl |-> v, unless |-> NoDecl]
    BY <1>3, <2>1 DEF Calls, VisitDeclRefExpr, Dispatched
  <2>4. \A k \in 1 .. 2 * n :
          /\ (k + 1) \div 2 \in 1 .. n
          /\ Calls(e)[k].unless = ctors[(k + 1) \div 2]
          /\ Calls(e)[k].decl = IF k % 2 = 1 THEN ctors[(k + 1) \div 2]
                                ELSE DtorOf[ctors[(k + 1) \div 2]]
    <3> TAKE k \in 1 .. 2 * n
    <3>1. k \in 1 .. 2 * n + 1 /\ k # 2 * n + 1 /\ (k + 1) \div 2 \in 1 .. n
      BY <2>1
    <3>2. Calls(e)[k] = Dispatched(IF k % 2 = 1 THEN ctors[(k + 1) \div 2]
                                   ELSE DtorOf[ctors[(k + 1) \div 2]],
                                   ctors[(k + 1) \div 2])
      BY <1>3, <3>1 DEF Calls, VisitDeclRefExpr
    <3> QED
      BY <3>1, <3>2 DEF Dispatched
  <2>5. \A i \in 1 .. n :
          /\ 2 * i - 1 \in DOMAIN Calls(e) /\ 2 * i \in DOMAIN Calls(e)
          /\ Calls(e)[2 * i - 1].decl = ctors[i] /\ Calls(e)[2 * i - 1].unless = ctors[i]
          /\ Calls(e)[2 * i].decl = DtorOf[ctors[i]] /\ Calls(e)[2 * i].unless = ctors[i]
    <3> SUFFICES ASSUME NEW i \in 1 .. n
                 PROVE  /\ 2 * i - 1 \in DOMAIN Calls(e) /\ 2 * i \in DOMAIN Calls(e)
                        /\ Calls(e)[2 * i - 1].decl = ctors[i]
                        /\ Calls(e)[2 * i - 1].unless = ctors[i]
                        /\ Calls(e)[2 * i].decl = DtorOf[ctors[i]]
                        /\ Calls(e)[2 * i].unless = ctors[i]
      OBVIOUS
    <3> DEFINE odd == 2 * i - 1
               even == 2 * i
    <3>1. /\ odd \in 1 .. 2 * n /\ (odd + 1) \div 2 = i /\ odd % 2 = 1
          /\ even \in 1 .. 2 * n /\ (even + 1) \div 2 = i /\ even % 2 # 1
      <4>1. n \in Nat /\ i \in Int /\ 1 <= i /\ i <= n
        BY <2>1
      <4> HIDE DEF n
      <4> QED
        BY <4>1
    <3>2. odd \in DOMAIN Calls(e) /\ even \in DOMAIN Calls(e)
      BY <2>1, <2>2, <3>1
    <3> HIDE DEF odd, even, n
    <3>3. /\ Calls(e)[odd].decl = ctors[i] /\ Calls(e)[odd].unless = ctors[i]
          /\ Calls(e)[even].decl = DtorOf[ctors[i]] /\ Calls(e)[even].unless = ctors[i]
      BY <2>4, <3>1
    <3> QED
      BY <3>2, <3>3 DEF odd, even
  <2>6. References(e, d) <=>
          \/ d = v
          \/ \E i \in 1 .. n : ctors[i] \notin Defined /\ d \in {ctors[i], DtorOf[ctors[i]]}
    <3>1. Range(ctors) = {ctors[i] : i \in 1 .. n}
      BY <2>1 DEF Range
    <3> QED
      BY <1>3, <3>1 DEF References, IsExternalReference
  <2>7. ASSUME References(e, d)
        PROVE  \E k \in DOMAIN Calls(e) :
                  Calls(e)[k].decl = d /\ Calls(e)[k].unless \notin Defined
    <3>1. CASE d = v
      <4>1. 2 * n + 1 \in DOMAIN Calls(e)
        BY <2>1, <2>2
      <4> QED
        BY <1>0, <2>3, <3>1, <4>1
    <3>2. CASE \E i \in 1 .. n : ctors[i] \notin Defined /\ d \in {ctors[i], DtorOf[ctors[i]]}
      <4> PICK i \in 1 .. n : ctors[i] \notin Defined /\ d \in {ctors[i], DtorOf[ctors[i]]}
        BY <3>2
      <4> HIDE DEF n, ctors
      <4> QED
        BY <2>5
    <3> QED
      BY <2>6, <2>7, <3>1, <3>2
  <2>8. ASSUME NEW k \in DOMAIN Calls(e),
               Calls(e)[k].decl = d, Calls(e)[k].unless \notin Defined
        PROVE  References(e, d)
    <3>1. CASE k = 2 * n + 1
      BY <2>3, <2>6, <2>8, <3>1
    <3>2. CASE k # 2 * n + 1
      <4>1. k \in 1 .. 2 * n
        BY <2>1, <2>2, <3>2
      <4> DEFINE i == (k + 1) \div 2
      <4>2. i \in 1 .. n /\ ctors[i] \notin Defined /\ d \in {ctors[i], DtorOf[ctors[i]]}
        BY <2>4, <2>8, <4>1
      <4> HIDE DEF i
      <4> QED
        BY <2>6, <4>2
    <3> QED
      BY <3>1, <3>2
  <2> QED
    BY <2>7, <2>8
<1>4. CASE e.kind = "declref" /\ ~IsExternalReference(e)
  BY <1>4 DEF Calls, References, IsExternalReference
<1> QED
  BY <1>1, <1>2, <1>3, <1>4 DEF Expr

\* What the tests of dispatch and of doVisitDeclRefExpr let through, in terms of
\* the inputs.
LetThrough(d) ==
    /\ \E n \in DOMAIN exprs : References(exprs[n], d)
    /\ ~Named(d)
    /\ d \in FunctionDecl => ~Matched(d) /\ d \notin Defined
    /\ d \in VarDecl => NameOf[d] \notin InternalBlacklist
    /\ d \notin ErrnoLocation
    /\ ~BuiltinSkipped(d)
    /\ d \in Variadic => Mocking.MockVariadicFunctions

\* What is promised, less what is overlooked, and the surplus.
LEMMA NeededAreLetThrough ==
    ASSUME TypeOK, NEW d \in Decl PROVE d \in Needed <=> LetThrough(d)
<1> DEFINE Referred == \E n \in DOMAIN exprs : References(exprs[n], d)
<1>1. Referred => \E n \in DOMAIN exprs : Uses(exprs[n], d)
  BY DEF Uses
<1>2. CASE d \in FunctionDecl
  <2>1. d \notin VarDecl /\ d \notin Surplus
    BY <1>2, DeclAssumption, ClassAssumption DEF Surplus
  <2>2. ~BuiltinSkipped(d)
          <=> /\ BuiltinAskedFor(d)
              /\ ~(/\ d \in Builtin
                   /\ \/ ~Mocking.MockCStdLib
                      \/ d \in InStdNamespace /\ ~Mocking.MockCXXStdLib)
    BY DEF BuiltinSkipped, BuiltinAskedFor
  <2> QED
    BY <1>1, <1>2, <2>1, <2>2 DEF Needed, Promised, Overlooked, LetThrough
<1>3. CASE d \in VarDecl
  <2>1. /\ d \notin FunctionDecl /\ d \notin ErrnoLocation /\ d \notin Builtin
        /\ d \notin Variadic
    BY <1>3, DeclAssumption, FunctionAssumption
  <2>2. d \notin ExternallyVisible => d \in Defined
    BY <1>3, FunctionAssumption
  <2>3. ASSUME NEW n \in DOMAIN exprs, References(exprs[n], d)
        PROVE  d \in ExternallyVisible
    <3>1. exprs[n] \in Expr
      BY InputAssumption DEF TypeOK
    <3>2. \A ctor \in DOMAIN DtorOf : DtorOf[ctor] # d /\ ctor # d
      BY <1>3, <2>1, ClassAssumption, DeclAssumption DEF Decl
    <3>3. CASE exprs[n].kind = "call"
      <4>1. exprs[n].decl \in FunctionDecl \cup {NoDecl}
        BY <3>1, <3>3 DEF Expr
      <4> QED
        BY <1>3, <2>1, <2>3, <3>3, <4>1, DeclAssumption DEF References, Decl
    <3>4. CASE exprs[n].kind = "construct"
      <4>1. exprs[n].decl \in DOMAIN DtorOf
        BY <3>1, <3>4 DEF Expr
      <4> QED
        BY <2>3, <3>2, <3>4, <4>1 DEF References
    <3>5. CASE exprs[n].kind = "declref"
      <4>1. exprs[n].decl \in ExternallyVisible /\ exprs[n].decl \in VarDecl
        BY <2>3, <3>5, ClassAssumption DEF References
      <4>2. d = exprs[n].decl \/ \E ctor \in DOMAIN DtorOf : d \in {ctor, DtorOf[ctor]}
        BY <2>3, <3>5, <4>1, ClassAssumption DEF References
      <4> QED
        BY <3>2, <4>1, <4>2
    <3> QED
      BY <3>1, <3>3, <3>4, <3>5 DEF Expr
  <2>4. BuiltinAskedFor(d) /\ ~BuiltinSkipped(d)
    BY <2>1 DEF BuiltinAskedFor, BuiltinSkipped
  <2>5. d \in Promised \ Overlooked
          <=> /\ Referred /\ d \notin Defined /\ ~Named(d) /\ ~Matched(d)
              /\ NameOf[d] \notin InternalBlacklist
    BY <1>1, <1>3, <2>1, <2>4 DEF Promised, Overlooked
  <2>6. d \in Surplus
          <=> /\ d \in ExternallyVisible /\ Referred /\ (d \in Defined \/ Matched(d))
              /\ ~Named(d) /\ NameOf[d] \notin InternalBlacklist
    BY DEF Surplus
  <2> QED
    BY <1>3, <2>1, <2>3, <2>4, <2>5, <2>6 DEF Needed, LetThrough
<1> QED
  BY <1>2, <1>3 DEF Decl

LEMMA NeededDeclared == Needed \subseteq Decl
BY ClassAssumption DEF Needed, Promised, Surplus, Decl

\* What is needed depends on the inputs only.
LEMMA InputsDecide ==
    UNCHANGED input =>
        /\ Needed' = Needed /\ Wanted' = Wanted /\ Obstacle' = Obstacle
<1> SUFFICES ASSUME UNCHANGED input
             PROVE  Needed' = Needed /\ Wanted' = Wanted /\ Obstacle' = Obstacle
  OBVIOUS
<1>1. Needed' = Needed
  BY DEF input, Needed, Promised, Overlooked, Surplus, Named, Matched, BuiltinAskedFor
<1> QED
  BY <1>1 DEF input, Wanted, Obstacle

\* Once the blacklists are built, they rule out what the configuration does.
LEMMA BlacklistsRule ==
    ASSUME TypeOK, BlacklistsSplit, pc \in {"traverse", "done"}
    PROVE  /\ \A d : NameSkipped(d) <=> NameOf[d] \in Range(Mocking.Blacklist) \ Pattern
           /\ \A d : GlobSkipped(d) <=>
                \E p \in Range(Mocking.Blacklist) \cap (Pattern \ Malformed) :
                    NameOf[d] \in Glob[p]
           /\ Range(Mocking.Blacklist) \cap Pattern \cap Malformed = {}
<1>1. Mocking.Blacklist \in Seq(Entry) /\ entry > Len(Mocking.Blacklist)
  BY InputAssumption DEF TypeOK, MockingSection, BlacklistsSplit
<1>2. Entries = Range(Mocking.Blacklist)
  BY <1>1 DEF Entries, Range, TypeOK
<1> QED
  BY <1>2 DEF BlacklistsSplit, NameSkipped, GlobSkipped

\* dispatch gets past its tests exactly for a declaration that is needed.
LEMMA DispatchedAreNeeded ==
    ASSUME TypeOK, BlacklistsSplit, Dispatching
    PROVE  LET e == CurrentExpr
               c == CurrentCall
           IN  /\ e \in Expr /\ c.decl \in Decl \cup {NoDecl}
               /\ c.decl \notin VarDecl /\ FunctionDispatched(e, c)
                        /\ (c.decl \in Variadic => Mocking.MockVariadicFunctions)
                    <=> c.decl \in FunctionDecl /\ Effective(e, c) /\ c.decl \in Needed
               /\ c.decl \in VarDecl /\ VariableDispatched(e, c)
                    <=> c.decl \in VarDecl /\ Effective(e, c) /\ c.decl \in Needed
<1> DEFINE e == CurrentExpr
           c == CurrentCall
           d == c.decl
<1>1. e \in Expr /\ c \in DispatchCall /\ d \in Decl \cup {NoDecl}
  <2>1. e \in Expr /\ c \in DispatchCall
    BY CurrentCallType
  <2> HIDE DEF c, e
  <2> QED
    BY <2>1 DEF DispatchCall, Decl
<1>2. visit \in DOMAIN exprs /\ e = exprs[visit]
  BY InputAssumption DEF TypeOK, Dispatching, Visiting, CurrentExpr
<1>3. call \in DOMAIN Calls(e) /\ c = Calls(e)[call]
  BY <1>1, CallsType DEF TypeOK, Dispatching, CurrentCall
<1>4. Effective(e, c) /\ d \in Decl => \E n \in DOMAIN exprs : References(exprs[n], d)
  BY <1>1, <1>2, <1>3, ReferencesAreCalls
<1>5. pc = "traverse"
  BY DEF Dispatching, Visiting
<1> HIDE DEF e, c, d
<1>6. (NameSkipped(d) <=> Named(d)) /\ (GlobSkipped(d) <=> Matched(d))
  BY <1>5, BlacklistsRule DEF Named, Matched
<1>7. d \in VarDecl => d \notin FunctionDecl
  BY DeclAssumption
<1>10. d \in Decl => (d \in Needed <=> LetThrough(d))
  BY NeededAreLetThrough
<1>8. d \in FunctionDecl <=> d # NoDecl /\ d \notin VarDecl
  BY <1>1, DeclAssumption DEF Decl
<1>12. d \in VarDecl => c.unless \notin Defined
  BY <1>1, DeclAssumption, FunctionAssumption DEF DispatchCall, Decl, d
<1>9. d \notin VarDecl /\ FunctionDispatched(e, c)
            /\ (d \in Variadic => Mocking.MockVariadicFunctions)
        <=> d \in FunctionDecl /\ Effective(e, c) /\ d \in Needed
  BY <1>4, <1>6, <1>8, <1>10 DEF FunctionDispatched, LetThrough, Effective, Decl, d
<1>11. d \in VarDecl /\ VariableDispatched(e, c)
         <=> d \in VarDecl /\ Effective(e, c) /\ d \in Needed
  BY <1>4, <1>6, <1>7, <1>10, <1>12, FunctionAssumption
  DEF VariableDispatched, LetThrough, Effective, Decl, BuiltinSkipped, d
<1> QED
  BY <1>1, <1>9, <1>11 DEF d, c, e

\* Returning from a call that left nothing needed unmarked.
LEMMA AfterReturn ==
    ASSUME TypeOK, PassedVisited, Dispatching, Return, Visited \subseteq Visited',
           Effective(CurrentExpr, CurrentCall) /\ CurrentCall.decl \in Needed
                => CurrentCall.decl \in Visited'
    PROVE  PassedVisited'
<1>1. UNCHANGED <<exprs, visit>> /\ call' = call + 1 /\ Needed' = Needed
  BY InputsDecide DEF Return, input
<1> SUFFICES ASSUME NEW n \in DOMAIN exprs, NEW k \in DOMAIN Calls(exprs[n]),
                    Passed(n, k)', Effective(exprs[n], Calls(exprs[n])[k]),
                    Calls(exprs[n])[k].decl \in Needed
             PROVE  Calls(exprs[n])[k].decl \in Visited'
  BY <1>1 DEF PassedVisited
<1>2. exprs[n] \in Expr /\ k \in Nat
  BY InputAssumption, CallsType DEF TypeOK
<1>3. Passed(n, k) \/ (n = visit /\ k = call)
  BY <1>1, <1>2 DEF Passed, TypeOK
<1> QED
  BY <1>3 DEF PassedVisited, CurrentExpr, CurrentCall

\* Steps that neither pass a call nor forget a declaration.
LEMMA PassedKept ==
    ASSUME PassedVisited, UNCHANGED <<input, visit, call>>, Visited \subseteq Visited'
    PROVE  PassedVisited'
BY InputsDecide DEF PassedVisited, Passed, input

LEMMA BlacklistsStep == TypeOK /\ BlacklistsSplit /\ [Next]_vars => BlacklistsSplit'
<1> SUFFICES ASSUME TypeOK, BlacklistsSplit, [Next]_vars PROVE BlacklistsSplit'
  OBVIOUS
<1> USE DEF input, blacklists, collected
<1>1. Mocking.Blacklist \in Seq(Entry)
  BY InputAssumption DEF TypeOK, MockingSection
<1>2. ASSUME Constructing, UNCHANGED Mocking, entry' = entry + 1
      PROVE  Entries' = Entries \cup {CurrentEntry}
  <2>1. entry \in DOMAIN Mocking.Blacklist
    BY <1>1, <1>2 DEF Constructing, TypeOK
  <2>2. \A m \in DOMAIN Mocking.Blacklist : m < entry + 1 <=> m < entry \/ m = entry
    BY <1>1 DEF TypeOK
  <2> QED
    BY <1>2, <2>1, <2>2 DEF Entries, CurrentEntry
<1>3. CASE AddName
  BY <1>2, <1>3 DEF AddName, BlacklistsSplit, isPattern, Constructing
<1>4. CASE AddGlob
  BY <1>2, <1>4 DEF AddGlob, BlacklistsSplit, isPattern, Constructing
<1>5. CASE StartTraversal
  BY <1>5 DEF StartTraversal, BlacklistsSplit, Entries
<1>6. CASE RejectGlob
  BY <1>6 DEF RejectGlob, BlacklistsSplit, Entries
<1>7. ASSUME UNCHANGED <<Mocking, entry, blacklists>>, pc' # "construct",
             pc' \in {"traverse", "done"} => pc \in {"traverse", "done"}
      PROVE  BlacklistsSplit'
  BY <1>7 DEF BlacklistsSplit, Entries
<1>8. CASE LeaveExpr \/ SkipFunction \/ SkipVariadic \/ AddFunctionDecl
            \/ SkipVariable \/ AddVarDecl
  <2>1. pc = "traverse" /\ UNCHANGED <<Mocking, entry, blacklists, pc>>
    BY <1>8 DEF LeaveExpr, SkipFunction, SkipVariadic, AddFunctionDecl,
       SkipVariable, AddVarDecl, MarkFunction, Return, Dispatching, Visiting
  <2> QED
    BY <1>7, <2>1
<1>9. CASE RejectVariadic \/ Finish
  BY <1>7, <1>9 DEF RejectVariadic, MarkFunction, Dispatching, Visiting, Finish
<1>10. CASE UNCHANGED vars
  BY <1>10 DEF vars, BlacklistsSplit, Entries
<1> QED
  BY <1>3, <1>4, <1>5, <1>6, <1>8, <1>9, <1>10 DEF Next, Terminated

\* Every step keeps the invariant.
LEMMA SelectionStep ==
    TypeOK /\ OnceInv /\ SelectionInv /\ [Next]_vars => SelectionInv'
<1> SUFFICES ASSUME TypeOK, OnceInv, SelectionInv, [Next]_vars PROVE SelectionInv'
  OBVIOUS
<1> USE DEF input, blacklists, collected
<1>1. BlacklistsSplit'
  BY BlacklistsStep DEF SelectionInv
<1>2. PassedVisited /\ VisitedCollected /\ BlacklistsSplit
  BY DEF SelectionInv
\* Steps that collect nothing, mark nothing and pass no call.
<1>3. ASSUME UNCHANGED <<input, visit, call, Visited, collected>>,
             pc' = pc \/ (pc \in {"construct", "traverse"}
                            /\ (pc' = "exit" => Obstacle)
                            /\ (pc' = "done" => visit > Len(exprs)))
      PROVE  SelectionInv'
  <2>1. Needed' = Needed /\ Wanted' = Wanted /\ Obstacle' = Obstacle /\ Collected' = Collected
    BY <1>3, InputsDecide DEF Collected
  <2>2. PassedVisited'
    BY <1>2, <1>3, PassedKept
  <2>3. VisitedCollected'
    BY <1>2, <1>3, <2>1 DEF VisitedCollected, Unmockable
  <2> QED
    BY <1>1, <1>3, <2>1, <2>2, <2>3 DEF SelectionInv
\* Returning from a dispatch call.
<1>4. ASSUME Dispatching, Return, Visited \subseteq Visited',
             Effective(CurrentExpr, CurrentCall) /\ CurrentCall.decl \in Needed
                => CurrentCall.decl \in Visited',
             \A d \in Visited' \ Visited : d \in Needed => ~Unmockable(d) /\ d \in Collected',
             Collected \subseteq Collected', Collected' \subseteq Wanted
      PROVE  SelectionInv'
  <2>1. Needed' = Needed /\ Wanted' = Wanted /\ Obstacle' = Obstacle
    BY <1>4, InputsDecide DEF Return
  <2>2. PassedVisited'
    BY <1>2, <1>4, AfterReturn
  <2>3. pc = "traverse" /\ pc' = "traverse"
    BY <1>4 DEF Dispatching, Visiting, Return
  <2>4. VisitedCollected'
    BY <1>2, <1>4, <2>1, <2>3 DEF VisitedCollected, Wanted, Unmockable
  <2> QED
    BY <1>1, <1>4, <2>1, <2>2, <2>3, <2>4 DEF SelectionInv
<1>5. CASE AddName \/ AddGlob \/ StartTraversal \/ Finish \/ UNCHANGED vars
  BY <1>3, <1>5 DEF AddName, AddGlob, StartTraversal, Finish, vars
<1>6. CASE RejectGlob
  <2>1. Mocking.Blacklist \in Seq(Entry)
    BY InputAssumption DEF TypeOK, MockingSection
  <2>2. CurrentEntry \in Range(Mocking.Blacklist)
    BY <1>6, <2>1 DEF RejectGlob, Constructing, CurrentEntry, TypeOK, Range
  <2>3. Obstacle
    BY <1>6, <2>2 DEF Obstacle, RejectGlob, isPattern
  <2> QED
    BY <1>3, <1>6, <2>3 DEF RejectGlob, Constructing
<1>7. CASE LeaveExpr
  <2>1. Needed' = Needed /\ Wanted' = Wanted /\ Obstacle' = Obstacle /\ Collected' = Collected
    BY <1>7, InputsDecide DEF LeaveExpr, Collected
  <2>2. UNCHANGED <<exprs, Visited, pc>> /\ visit' = visit + 1 /\ call' = 1 /\ pc = "traverse"
    BY <1>7 DEF LeaveExpr, Visiting
  <2>3. PassedVisited'
    <3> SUFFICES ASSUME NEW n \in DOMAIN exprs, NEW k \in DOMAIN Calls(exprs[n]),
                        Passed(n, k)', Effective(exprs[n], Calls(exprs[n])[k]),
                        Calls(exprs[n])[k].decl \in Needed
                 PROVE  Calls(exprs[n])[k].decl \in Visited
      BY <2>1, <2>2 DEF PassedVisited
    <3>1. n \in Nat /\ k \in 1 .. Len(Calls(exprs[n]))
      BY InputAssumption, CallsType DEF TypeOK
    <3>2. Passed(n, k)
      BY <1>7, <2>2, <3>1, CallsType, InputAssumption
      DEF Passed, LeaveExpr, CurrentExpr, TypeOK
    <3> QED
      BY <1>2, <3>2 DEF PassedVisited
  <2>4. VisitedCollected'
    BY <1>2, <2>1, <2>2 DEF VisitedCollected, Unmockable
  <2> QED
    BY <1>1, <2>1, <2>2, <2>3, <2>4 DEF SelectionInv
<1>8. CASE SkipFunction
  <2>1. Dispatching /\ Return /\ UNCHANGED <<Visited, collected>>
    BY <1>8 DEF SkipFunction
  <2>2. Effective(CurrentExpr, CurrentCall) /\ CurrentCall.decl \in Needed
            => CurrentCall.decl \in Visited
    BY <1>2, <1>8, <2>1, DispatchedAreNeeded, NeededDeclared
    DEF SkipFunction, IsVisited, Decl
  <2> QED
    BY <1>4, <2>1, <2>2 DEF Collected, SelectionInv
<1>9. ASSUME NEW d \in FunctionDecl, MarkFunction(d)
      PROVE  /\ Dispatching /\ CurrentCall.decl = d
             /\ d \notin Visited /\ Visited' = Visited \cup {d}
             /\ (d \in Variadic => Mocking.MockVariadicFunctions) <=> d \in Needed
  <2>1. /\ Dispatching /\ CurrentCall.decl = d /\ FunctionDispatched(CurrentExpr, CurrentCall)
        /\ d \notin Visited /\ Visited' = Visited \cup {d}
    BY <1>9 DEF MarkFunction, IsVisited
  <2>2. d \notin VarDecl
    BY DeclAssumption
  <2>3. Effective(CurrentExpr, CurrentCall)
    BY <2>1 DEF FunctionDispatched, Effective
  <2> QED
    BY <1>2, <2>1, <2>2, <2>3, DispatchedAreNeeded
<1>10. CASE SkipVariadic
  <2> PICK d \in Variadic : MarkFunction(d)
    BY <1>10 DEF SkipVariadic
  <2>1. Dispatching /\ CurrentCall.decl = d /\ Visited' = Visited \cup {d} /\ d \notin Needed
    BY <1>9, <1>10, FunctionAssumption DEF SkipVariadic
  <2>2. Return /\ UNCHANGED collected
    BY <1>10 DEF SkipVariadic
  <2> QED
    BY <1>4, <2>1, <2>2 DEF Collected, SelectionInv
<1>11. CASE RejectVariadic
  <2> PICK d \in FunctionDecl : MarkFunction(d) /\ Unmockable(d)
    BY <1>11 DEF RejectVariadic
  <2>1. Visited' = Visited \cup {d} /\ d \in Needed
    BY <1>9, <1>11 DEF RejectVariadic
  <2>2. pc' = "exit" /\ UNCHANGED <<input, visit, call, collected>>
    BY <1>11 DEF RejectVariadic
  <2>3. Needed' = Needed /\ Wanted' = Wanted /\ Obstacle' = Obstacle /\ Collected' = Collected
    BY <2>2, InputsDecide DEF Collected
  <2>4. Obstacle
    BY <2>1 DEF Obstacle
  <2>5. PassedVisited'
    BY <1>2, <2>1, <2>2, PassedKept
  <2>6. VisitedCollected'
    BY <1>2, <2>1, <2>2, <2>3 DEF VisitedCollected, Wanted
  <2> QED
    BY <1>1, <2>2, <2>3, <2>4, <2>5, <2>6 DEF SelectionInv
<1>12. CASE AddFunctionDecl
  <2> PICK d \in FunctionDecl :
        /\ MarkFunction(d) /\ ~Unmockable(d) /\ addFunctionDecl(d) /\ Return
        /\ d \in Variadic => Mocking.MockVariadicFunctions
    BY <1>12 DEF AddFunctionDecl
  <2>1. /\ Dispatching /\ CurrentCall.decl = d
        /\ Visited' = Visited \cup {d} /\ d \in Needed
    BY <1>9
  <2>2. Range(FunctionDecls') = Range(FunctionDecls) \cup {d} /\ VarDecls' = VarDecls
    BY AppendInjective DEF TypeOK, addFunctionDecl
  <2>3. Collected' = Collected \cup {d} /\ d \in Wanted
    BY <2>1, <2>2 DEF Collected, Wanted
  <2> QED
    BY <1>4, <2>1, <2>3 DEF SelectionInv
<1>13. CASE SkipVariable
  <2>1. Dispatching /\ Return /\ UNCHANGED <<Visited, collected>>
    BY <1>13 DEF SkipVariable
  <2>2. Effective(CurrentExpr, CurrentCall) /\ CurrentCall.decl \in Needed
            => CurrentCall.decl \in Visited
    BY <1>2, <1>13, <2>1, DispatchedAreNeeded DEF SkipVariable, IsVisited
  <2> QED
    BY <1>4, <2>1, <2>2 DEF Collected, SelectionInv
<1>14. CASE AddVarDecl
  <2> PICK v \in VarDecl :
        /\ Dispatching /\ CurrentCall.decl = v
        /\ VariableDispatched(CurrentExpr, CurrentCall)
        /\ Visited' = Visited \cup {v} /\ VarDecls' = Append(VarDecls, v)
        /\ UNCHANGED FunctionDecls /\ Return
    BY <1>14 DEF AddVarDecl
  <2>1. v \in Needed
    BY <1>2, DispatchedAreNeeded
  <2>2. Range(VarDecls') = Range(VarDecls) \cup {v}
    BY AppendInjective DEF TypeOK
  <2>3. ~Unmockable(v)
    BY DeclAssumption, FunctionAssumption DEF Unmockable
  <2>4. Collected' = Collected \cup {v} /\ v \in Wanted
    BY <2>1, <2>2, <2>3 DEF Collected, Wanted
  <2> QED
    BY <1>4, <2>3, <2>4 DEF SelectionInv
<1> QED
  BY <1>5, <1>6, <1>7, <1>8, <1>10, <1>11, <1>12, <1>13, <1>14 DEF Next, Terminated

LEMMA SelectionInit == Init => SelectionInv
<1> SUFFICES ASSUME Init PROVE SelectionInv
  OBVIOUS
<1>1. entry = 1 /\ visit = 1 /\ call = 1 /\ pc = "construct"
  BY DEF Init
<1>2. Visited = {} /\ Collected = {} /\ Blacklist = {} /\ GlobBlacklist = {}
  BY DEF Init, Collected, Range
<1>3. TypeOK
  BY TypeInit
<1>4. Entries = {}
  <2>1. Mocking.Blacklist \in Seq(Entry)
    BY <1>3, InputAssumption DEF TypeOK, MockingSection
  <2> QED
    BY <1>1, <2>1 DEF Entries
<1>5. BlacklistsSplit
  BY <1>1, <1>2, <1>4 DEF BlacklistsSplit
<1>6. PassedVisited
  <2>1. \A n \in DOMAIN exprs : \A k \in DOMAIN Calls(exprs[n]) : ~Passed(n, k)
    BY <1>1, <1>3, CallsType, InputAssumption DEF Passed, TypeOK
  <2> QED
    BY <2>1 DEF PassedVisited
<1> QED
  BY <1>1, <1>2, <1>5, <1>6 DEF SelectionInv, VisitedCollected

\* No handler changes the translation unit or the options.
LEMMA InputKept == [Next]_vars => UNCHANGED input
BY DEF Next, Terminated, AddName, AddGlob, RejectGlob, StartTraversal, LeaveExpr,
   SkipFunction, SkipVariadic, RejectVariadic, AddFunctionDecl, SkipVariable,
   AddVarDecl, Finish, Return, vars, input

\* Every step of the collector selects a wanted declaration, ends the
\* selection as MockSelection allows, or changes nothing of it.
LEMMA RefinementStep ==
    TypeOK /\ OnceInv /\ SelectionInv /\ SelectionInv' /\ [Next]_vars
        => [Selection!Next]_(Selection!vars)
<1> SUFFICES ASSUME TypeOK, OnceInv, SelectionInv, SelectionInv', [Next]_vars
             PROVE  Selection!Next \/ UNCHANGED Selection!vars
  OBVIOUS
<1> USE DEF Selection!vars, Selection!Next
<1>1. UNCHANGED input
  BY InputKept
<1>2. Wanted' = Wanted /\ Obstacle' = Obstacle
  BY <1>1, InputsDecide
\* Steps within the traversal and the constructor.
<1>3. ASSUME UNCHANGED collected, Outcome' = Outcome
      PROVE  UNCHANGED Selection!vars
  BY <1>2, <1>3 DEF Collected, collected
<1>4. CASE AddName \/ AddGlob \/ StartTraversal \/ LeaveExpr \/ SkipFunction
            \/ SkipVariadic \/ SkipVariable \/ UNCHANGED vars
  <2>1. UNCHANGED collected
    BY <1>4 DEF AddName, AddGlob, StartTraversal, LeaveExpr, SkipFunction,
       SkipVariadic, SkipVariable, vars
  <2>2. Outcome' = Outcome
    BY <1>4 DEF AddName, AddGlob, StartTraversal, LeaveExpr, SkipFunction,
       SkipVariadic, SkipVariable, Return, vars, Outcome
  <2> QED
    BY <1>3, <2>1, <2>2
<1>5. CASE RejectGlob \/ RejectVariadic
  <2>1. pc \in {"construct", "traverse"} /\ pc' = "exit" /\ UNCHANGED collected
    BY <1>5 DEF RejectGlob, RejectVariadic, Constructing, MarkFunction,
       Dispatching, Visiting
  <2>2. Outcome = "running" /\ Outcome' = "failed" /\ Collected' = Collected /\ Obstacle
    BY <1>2, <2>1 DEF Outcome, Collected, collected, SelectionInv
  <2> QED
    BY <1>2, <2>2 DEF Selection!Fail
\* A collected declaration is wanted, and was not selected before.
<1>6. ASSUME NEW d, d \notin Visited, Collected' = Collected \cup {d}, pc = "traverse", pc' = pc
      PROVE  Selection!Select
  <2>1. d \in Wanted /\ d \notin Collected
    BY <1>2, <1>6 DEF SelectionInv, OnceInv, Collected
  <2> QED
    BY <1>2, <1>6, <2>1 DEF Selection!Select, Outcome
<1>7. CASE AddFunctionDecl
  <2> PICK d \in FunctionDecl : MarkFunction(d) /\ addFunctionDecl(d) /\ Return
    BY <1>7 DEF AddFunctionDecl
  <2>1. Range(FunctionDecls') = Range(FunctionDecls) \cup {d} /\ VarDecls' = VarDecls
    BY AppendInjective DEF TypeOK, addFunctionDecl
  <2>2. d \notin Visited /\ pc = "traverse" /\ pc' = pc
    BY DEF MarkFunction, IsVisited, Dispatching, Visiting, Return
  <2> QED
    BY <1>6, <2>1, <2>2 DEF Collected
<1>8. CASE AddVarDecl
  <2> PICK v \in VarDecl :
        /\ Dispatching /\ ~IsVisited(v) /\ VarDecls' = Append(VarDecls, v)
        /\ UNCHANGED FunctionDecls /\ Return
    BY <1>8 DEF AddVarDecl
  <2>1. Range(VarDecls') = Range(VarDecls) \cup {v}
    BY AppendInjective DEF TypeOK
  <2>2. v \notin Visited /\ pc = "traverse" /\ pc' = pc
    BY DEF IsVisited, Dispatching, Visiting, Return
  <2> QED
    BY <1>6, <2>1, <2>2 DEF Collected
\* At the end every wanted declaration has been visited.
<1>9. CASE Finish
  <2>1. pc = "traverse" /\ visit > Len(exprs) /\ pc' = "done" /\ UNCHANGED collected
    BY <1>9 DEF Finish
  <2>2. ASSUME NEW d \in Needed PROVE d \in Visited
    <3> PICK n \in DOMAIN exprs : References(exprs[n], d)
      BY <1>2, NeededAreLetThrough, NeededDeclared DEF LetThrough, SelectionInv
    <3>1. exprs[n] \in Expr /\ n < visit
      BY <2>1, InputAssumption DEF TypeOK
    <3>2. PICK k \in DOMAIN Calls(exprs[n]) :
            Calls(exprs[n])[k].decl = d /\ Effective(exprs[n], Calls(exprs[n])[k])
      BY <3>1, ReferencesAreCalls, NeededDeclared
    <3> QED
      BY <3>1, <3>2 DEF SelectionInv, PassedVisited, Passed
  <2>3. Collected = Wanted
    BY <2>2 DEF SelectionInv, VisitedCollected, Wanted
  <2>4. ~Obstacle
    BY <2>1, <2>2, BlacklistsRule DEF SelectionInv, VisitedCollected, Obstacle
  <2>5. Outcome = "running" /\ Outcome' = "complete" /\ Collected' = Collected
    BY <2>1 DEF Outcome, Collected, collected
  <2> QED
    BY <1>2, <2>3, <2>4, <2>5 DEF Selection!Complete
<1> QED
  BY <1>4, <1>5, <1>7, <1>8, <1>9 DEF Next, Terminated

\* A traversal that ends has met no obstacle and collected all that is wanted.
SelectionDone == pc = "done" => Collected = Wanted /\ ~Obstacle

LEMMA DoneStep ==
    TypeOK /\ OnceInv /\ SelectionInv /\ SelectionInv' /\ SelectionDone /\ [Next]_vars
        => SelectionDone'
<1> SUFFICES ASSUME TypeOK, OnceInv, SelectionInv, SelectionInv', SelectionDone, [Next]_vars,
                    pc' = "done"
             PROVE  Collected' = Wanted' /\ ~Obstacle'
  BY DEF SelectionDone
<1>1. Wanted' = Wanted /\ Obstacle' = Obstacle /\ Outcome' = "complete"
  BY InputKept, InputsDecide DEF Outcome
<1>2. CASE Selection!Complete
  BY <1>1, <1>2 DEF Selection!Complete
<1>3. CASE UNCHANGED Selection!vars
  <2>1. pc = "done" /\ Collected' = Collected
    BY <1>1, <1>3 DEF Selection!vars, Outcome
  <2> QED
    BY <1>1, <2>1 DEF SelectionDone
<1>4. CASE Selection!Select \/ Selection!Fail
  BY <1>1, <1>4 DEF Selection!Select, Selection!Fail
<1> QED
  BY <1>2, <1>3, <1>4, RefinementStep DEF Selection!Next

\* All that is known of the visitor, for the generator it belongs to.
VisitorInv == TypeOK /\ OnceInv /\ VariadicInv /\ SelectionInv /\ SelectionDone

LEMMA VisitorInit == Init => VisitorInv
BY TypeInit, OnceInit, VariadicInit, SelectionInit DEF VisitorInv, Init, SelectionDone

LEMMA VisitorStep == VisitorInv /\ [Next]_vars => VisitorInv'
BY TypeStep, OnceStep, VariadicStep, SelectionStep, DoneStep DEF VisitorInv

\* At the end of the traversal the lists hold what is needed, and where it
\* failed there was a reason to.
LEMMA VisitorResult ==
    ASSUME VisitorInv
    PROVE  /\ pc = "done" =>
                /\ Range(FunctionDecls) = Needed \cap FunctionDecl
                /\ Range(VarDecls) = Needed \cap VarDecl
                /\ ~Obstacle
           /\ pc = "exit" => Obstacle
<1>1. pc = "exit" => Obstacle
  BY DEF VisitorInv, SelectionInv
<1>2. ASSUME pc = "done"
      PROVE  /\ Range(FunctionDecls) = Needed \cap FunctionDecl
             /\ Range(VarDecls) = Needed \cap VarDecl
             /\ ~Obstacle
  <2>1. Collected = Wanted /\ ~Obstacle
    BY <1>2 DEF VisitorInv, SelectionDone
  <2>2. Wanted = Needed
    BY <2>1 DEF Obstacle, Wanted
  <2>3. Range(FunctionDecls) \subseteq FunctionDecl /\ Range(VarDecls) \subseteq VarDecl
    BY DEF VisitorInv, TypeOK, Range
  <2> QED
    BY <2>1, <2>2, <2>3, DeclAssumption DEF Collected
<1> QED
  BY <1>1, <1>2

\* Whatever the translation unit and the options, the collector selects what
\* MockSelection promises: all that is needed and not ruled out, once, and
\* nothing else, or an error with a reason.
THEOREM Refinement == Spec => SelectsMocks
<1>1. Init => Selection!Init
  BY DEF Init, Selection!Init, Outcome, Collected, Range, Obstacle
<1> QED
  BY <1>1, OnceInit, OnceStep, SelectionInit, SelectionStep, RefinementStep,
     TypeCorrect, PTL DEF Spec, SelectsMocks, Selection!Spec

-----------------------------------------------------------------------------
(***************************************************************************)
(* The order of the mocks.  A function that is collected now was needed by *)
(* no expression before: it would have been visited then.  The ones before *)
(* it were needed up to now.                                               *)
(***************************************************************************)
UsedSoFar ==
    \A i \in DOMAIN FunctionDecls :
        \E m \in DOMAIN exprs : m <= visit /\ References(exprs[m], FunctionDecls[i])

OrderInv == UsedSoFar /\ FirstUseOrder

\* The expression being visited is the first that needs the function to be
\* added.
LEMMA FirstUseNow ==
    ASSUME TypeOK, SelectionInv, NEW d \in FunctionDecl, MarkFunction(d),
           d \in Variadic => Mocking.MockVariadicFunctions
    PROVE  /\ visit \in DOMAIN exprs /\ References(exprs[visit], d)
           /\ \A n \in DOMAIN exprs : References(exprs[n], d) => visit <= n
<1>1. /\ Dispatching /\ CurrentCall.decl = d /\ d \notin Visited
      /\ FunctionDispatched(CurrentExpr, CurrentCall)
  BY DEF MarkFunction, IsVisited
<1>2. exprs \in Seq(Expr) /\ visit \in DOMAIN exprs /\ CurrentExpr = exprs[visit]
  BY <1>1, InputAssumption DEF TypeOK, Dispatching, Visiting, CurrentExpr
<1>3. d \notin VarDecl /\ d \in Decl
  BY DeclAssumption DEF Decl
<1>4. Effective(CurrentExpr, CurrentCall) /\ d \in Needed
  BY <1>1, <1>3, DispatchedAreNeeded DEF SelectionInv
<1>5. call \in DOMAIN Calls(CurrentExpr) /\ CurrentCall = Calls(CurrentExpr)[call]
  BY <1>1, <1>2, CallsType DEF TypeOK, Dispatching, CurrentCall
<1>6. References(exprs[visit], d)
  BY <1>1, <1>2, <1>3, <1>4, <1>5, ReferencesAreCalls
<1>7. ASSUME NEW n \in DOMAIN exprs, References(exprs[n], d), n < visit
      PROVE  FALSE
  <2>1. PICK k \in DOMAIN Calls(exprs[n]) :
            Calls(exprs[n])[k].decl = d /\ Effective(exprs[n], Calls(exprs[n])[k])
    BY <1>2, <1>3, <1>7, ReferencesAreCalls
  <2> QED
    BY <1>1, <1>4, <1>7, <2>1 DEF SelectionInv, PassedVisited, Passed
<1> QED
  BY <1>2, <1>6, <1>7

LEMMA OrderStep ==
    TypeOK /\ SelectionInv /\ OrderInv /\ [Next]_vars => OrderInv'
<1> SUFFICES ASSUME TypeOK, SelectionInv, OrderInv, [Next]_vars PROVE OrderInv'
  OBVIOUS
<1>0. exprs \in Seq(Expr) /\ visit \in Nat /\ FunctionDecls \in Seq(FunctionDecl)
  BY InputAssumption DEF TypeOK
<1>1. CASE AddFunctionDecl
  <2> PICK d \in FunctionDecl :
        /\ MarkFunction(d) /\ addFunctionDecl(d) /\ Return
        /\ d \in Variadic => Mocking.MockVariadicFunctions
    BY <1>1 DEF AddFunctionDecl
  <2>1. /\ visit \in DOMAIN exprs /\ References(exprs[visit], d)
        /\ \A n \in DOMAIN exprs : References(exprs[n], d) => visit <= n
    BY FirstUseNow
  <2>2. FunctionDecls' = Append(FunctionDecls, d) /\ UNCHANGED <<exprs, visit>>
    BY DEF addFunctionDecl, Return, input
  <2> DEFINE last == Len(FunctionDecls) + 1
  <2>3. /\ DOMAIN FunctionDecls' = DOMAIN FunctionDecls \cup {last}
        /\ \A i \in DOMAIN FunctionDecls : FunctionDecls'[i] = FunctionDecls[i] /\ i < last
        /\ FunctionDecls'[last] = d
    BY <1>0, <2>2
  <2> HIDE DEF last
  <2>4. UsedSoFar'
    <3> SUFFICES ASSUME NEW i \in DOMAIN FunctionDecls'
                 PROVE  \E m \in DOMAIN exprs :
                            m <= visit /\ References(exprs[m], FunctionDecls'[i])
      BY <2>2 DEF UsedSoFar, References
    <3>1. CASE i = last
      BY <1>0, <2>1, <2>3, <3>1
    <3>2. CASE i \in DOMAIN FunctionDecls
      BY <2>3, <3>2 DEF OrderInv, UsedSoFar
    <3> QED
      BY <2>3, <3>1, <3>2
  <2>5. ASSUME NEW i \in DOMAIN FunctionDecls', NEW j \in DOMAIN FunctionDecls', i < j
        PROVE  \E m \in DOMAIN exprs :
                  /\ References(exprs[m], FunctionDecls'[i])
                  /\ \A n \in DOMAIN exprs :
                        References(exprs[n], FunctionDecls'[j]) => m <= n
    <3>1. i \in DOMAIN FunctionDecls /\ i \in Nat /\ j \in Nat
      BY <1>0, <2>3, <2>5 DEF last
    <3>2. FunctionDecls'[i] = FunctionDecls[i]
      BY <2>3, <3>1
    <3>3. CASE j = last
      <4>1. PICK m \in DOMAIN exprs : m <= visit /\ References(exprs[m], FunctionDecls[i])
        BY <3>1 DEF OrderInv, UsedSoFar
      <4>2. ASSUME NEW n \in DOMAIN exprs, References(exprs[n], d) PROVE m <= n
        <5>1. visit <= n /\ n \in Nat /\ m \in Nat
          BY <1>0, <2>1, <4>2
        <5> QED
          BY <1>0, <4>1, <5>1
      <4> QED
        BY <2>3, <3>2, <3>3, <4>1, <4>2
    <3>4. CASE j \in DOMAIN FunctionDecls
      BY <2>3, <2>5, <3>1, <3>2, <3>4 DEF OrderInv, FirstUseOrder
    <3> QED
      BY <2>3, <3>3, <3>4
  <2>6. FirstUseOrder'
    BY <2>2, <2>5 DEF FirstUseOrder
  <2> QED
    BY <2>4, <2>6 DEF OrderInv
<1>2. ASSUME UNCHANGED <<exprs, FunctionDecls>>, visit' >= visit, visit' \in Nat
      PROVE  OrderInv'
  <2>1. \A m \in DOMAIN exprs : m <= visit => m <= visit'
    BY <1>0, <1>2
  <2>2. UsedSoFar'
    BY <1>2, <2>1 DEF OrderInv, UsedSoFar, References
  <2>3. FirstUseOrder'
    BY <1>2 DEF OrderInv, FirstUseOrder
  <2> QED
    BY <2>2, <2>3 DEF OrderInv
<1>3. CASE LeaveExpr
  BY <1>0, <1>2, <1>3 DEF LeaveExpr, input, collected
<1>4. ASSUME UNCHANGED <<exprs, FunctionDecls, visit>> PROVE OrderInv'
  BY <1>0, <1>2, <1>4
<1> QED
  BY <1>1, <1>3, <1>4 DEF Next, Terminated, AddName, AddGlob, RejectGlob,
     StartTraversal, SkipFunction, SkipVariadic, RejectVariadic,
     SkipVariable, AddVarDecl, Finish, Return, vars, input, collected

LEMMA OrderInit == Init => OrderInv
BY DEF Init, OrderInv, UsedSoFar, FirstUseOrder

\* The mocks are generated in the order in which the source first needs them,
\* whatever the handlers dispatch and however often.
THEOREM InOrderOfUse == Spec => []FirstUseOrder
<1>1. OrderInv => FirstUseOrder
  BY DEF OrderInv
<1> QED
  BY <1>1, OnceInit, OnceStep, SelectionInit, SelectionStep, OrderInit, OrderStep,
     TypeCorrect, PTL DEF Spec
=============================================================================
