\* One transaction, on either object: every shell command of up to two
\* arguments and every crafted parcel of up to four items from each caller
\* to the BBinder; every IAppOpsService method through the proxy, to a live
\* or a dead service, and every crafted parcel of up to four items to the
\* stub.
CONSTANTS
    shell = shell
    root = root
    app = app
    s1 = s1
    s2 = s2
    b1 = b1
    cb1 = cb1
    NULL = NULL
    AID_SHELL = shell
    AID_ROOT = root
    Uids <- MCUids
    Strings <- MCStrings
    Binders <- MCBinders
    ArgCounts <- MCArgCounts
    MaxArgs = 2
    Opcodes <- MCOpcodes
    AppUids <- MCAppUids
    Packages = {"pkg"}
    Callbacks = {cb1}
    Modes <- MCModes
    MODE_ERRORED = 2
    MaxItems = 4
    MaxTx = 1
SPECIFICATION Spec
INVARIANT ShellRoundTrip
INVARIANT ArgsWithinData
INVARIANT RoundTrip
\* Neither object keeps state; after MaxTx transactions nothing is left.
CHECK_DEADLOCK FALSE
