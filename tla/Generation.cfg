SPECIFICATION Spec
CONSTANTS
    none = none
    tu = tu
    ns = ns
    Rec = Rec
    Inner = Inner
    Single = Single
    Union = Union
    ext = ext
    sort = sort
    each = each
    visitAll = visitAll
    log = log
    bad = bad
    pub = pub
    priv = priv
    ctor = ctor
    dtor = dtor
    inner = inner
    prot = prot
    member = member
    free = free
    start = start
    counter = counter
    handler = handler
    table = table
    obj = obj
    int = int
    ptr = ptr
    constPtr = constPtr
    compare = compare
    act = act
    act_t = act_t
    anyS = anyS
    FunctionDecl <- MCFunctionDecl
    VarDecl <- MCVarDecl
    Context <- MCContext
    TranslationUnit = tu
    NoContext = none
    Parent <- MCParent
    Primary <- MCPrimary
    FunctionLists <- MCNoLists
    VariableLists <- MCNoLists
    Kind <- MCKind
    Identifier <- MCIdentifier
    Operator <- MCOperator
    Parameters <- MCParameters
    Variadic <- MCVariadic
    VarForm <- MCVarForm
    NoDecl = none
    Name <- MCName
    NameOf <- MCNameOf
    Defined = {}
    ErrnoLocation = {}
    Builtin = {}
    BuiltinPrefixed = {}
    InStdNamespace = {}
    ExternallyVisible <- MCVarDecl
    CtorsOf <- MCCtorsOf
    DtorOf <- MCDtorOf
    InternalBlacklist = {}
    Pattern <- MCPattern
    Malformed <- MCMalformed
    Glob <- MCGlob
    TranslationUnits <- MCTranslationUnits
    Configurations <- MCConfigurations
    GlobalNamespaceName = "_"
    WriteMain = TRUE
    Pointee <- MCPointee
    TypedefName = {act_t}
    Settings = {"FFF_ARG_HISTORY_LEN"}
    OutputParameters = TRUE
    Access <- MCAccess
    TagKind <- MCTagKind
    UnitsFor <- MCUnitsFor
INVARIANTS
    TypeOK
    UsesDeclared
    DeclaresOnce
    FunctionPointersNamed
    AccessFaithful
PROPERTIES
    PublishesMocks
