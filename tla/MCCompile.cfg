CONSTANTS
    BITS = 2
    ARCH = "amd64-sysv"
    NR_SWITCH = 4
    NR_BLOCK = 2
    STACKSIZ = 12
    MEMSIZE = 90
    STEPS = 120
    LOOPS = 4
    Deviations = {}
    Programs <- MCPrograms
    Inputs <- MCInputs
    ParNames <- MCPars
    Locals <- MCLocals
    Vars <- MCVars
    cc1pass <- Cc1Pass
    readpass <- ReadPass
    optmpass <- OptmPass
    codepass <- CodePass
    printpass <- PrintPass
    runpass <- Call
    meaning <- CallInC
    readable <- IsQbe
SPECIFICATION Spec
INVARIANTS Accepted Readable Agrees
