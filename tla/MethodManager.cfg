\* Three threads; the built-in methods, one that is added and removed while it
\* runs, and an object the application owns.  Nobody waits for the
\* removal of a name that is added again, and no method waits for its own.
SPECIFICATION FairSpec
CONSTANTS
    list = list  help = help  f = f
    o1 = o1  o2 = o2  o3 = o3  s1 = s1
    None = None
    Thread = {t1, t2, t3}
    Name <- MCName
    Heap = {o1, o2, o3}
    Static = {s1}
    StaticName <- MCStaticName
    Builtin <- MCBuiltin
    BuiltinObj <- MCBuiltinObj
    AddNames = {f}
    WaitNames <- MCBuiltin
    Reentrant = FALSE
INVARIANTS TypeOK ExecutedMethodStays ActiveThreadsCounted NoInternalError HeapMethodExecutable
PROPERTIES NoEntryAfterRemove RemoveWaitReturns
