SPECIFICATION Spec
CONSTANTS
    main = main
    worker = worker
    helper = helper
    Thread = {main, worker, helper}
    Main = main
    NoThread = NoThread
    tu = tu
    ns = ns
    f = f
    method = method
    destructor = destructor
    Context = {tu, ns}
    Function = {f, method, destructor}
    ContextOf <- MCContextOf
    Structor = {destructor}
    Tests = 2
    MaxCalls = 3
    MaxDepth = 3
INVARIANTS
    TypeOK
    NoDanglingPointer
    MocksOutliveCalls
    StructorsSafe
    TestBodiesSafe
