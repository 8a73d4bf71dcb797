SPECIFICATION Spec
CONSTANTS
    f = f
    fAgain = fAgain
    inlined = inlined
    errno = errno
    expect = expect
    memcpy = memcpy
    move = move
    printf = printf
    log = log
    variadic0 = variadic0
    subscript = subscript
    Obj = Obj
    ObjCopy = ObjCopy
    ObjDtor = ObjDtor
    Plain = Plain
    counter = counter
    obj = obj
    stdout = stdout
    hidden = hidden
    limit = limit
    none = none
    globF = globF
    globCounter = globCounter
    MaxExprs = 2
    FunctionDecl <- MCFunctionDecl
    VarDecl <- MCVarDecl
    NoDecl = none
    Name <- MCName
    NameOf <- MCNameOf
    Defined <- MCDefined
    ErrnoLocation <- MCErrnoLocation
    Builtin <- MCBuiltin
    BuiltinPrefixed <- MCBuiltinPrefixed
    InStdNamespace <- MCInStdNamespace
    Variadic <- MCVariadic
    ParamEmpty <- MCParamEmpty
    ExternallyVisible <- MCExternallyVisible
    CtorsOf <- MCCtorsOf
    DtorOf <- MCDtorOf
    InternalBlacklist <- MCInternalBlacklist
    Pattern <- MCPattern
    Malformed <- MCMalformed
    Glob <- MCGlob
    TranslationUnits <- MCTranslationUnits
    Configurations <- MCConfigurations
INVARIANT MockedOnce
