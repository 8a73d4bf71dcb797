SPECIFICATION Spec
CONSTANTS
    tu = tu
    none = none
    ns = ns
    nsAgain = nsAgain
    nsLinked = nsLinked
    ext = ext
    Rec = Rec
    Inner = Inner
    Single = Single
    Special = Special
    f = f
    fOverload = fOverload
    log = log
    g = g
    start = start
    stop = stop
    method = method
    destructor = destructor
    constructor = constructor
    special = special
    increment = increment
    advance = advance
    int = int
    ptr = ptr
    counter = counter
    handler = handler
    table = table
    obj = obj
    MaxFunctions = 2
    Functions <- OrdinaryFunctions
    FunctionDecl <- MCFunctionDecl
    Context <- MCContext
    TranslationUnit = tu
    NoContext = none
    Parent <- MCParent
    Primary <- MCPrimary
    FunctionLists <- MCFunctionLists
    Kind <- MCKind
    Identifier <- MCIdentifier
    Operator <- MCOperator
    Parameters <- MCParameters
    VarDecl <- MCVarDecl
    VariableLists <- MCVariableLists
    VarForm <- MCVarForm
    Variadic <- MCVariadic
    WriteMain = TRUE
    GlobalNamespaceName = "MyNamespaceName"
INVARIANT MembersDeclared
