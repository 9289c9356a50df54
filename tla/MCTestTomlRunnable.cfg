\* Every description discover_test_configs returns is one TestContext::run accepts.
CONSTANTS
    root = root  d1 = d1  d2 = d2  f1 = f1  f2 = f2  o1 = o1  p1 = p1
    Root = root
    Dirs <- MCDirs
    TomlFiles <- MCTomlFiles
    OtherFiles <- MCOtherFiles
    Entries <- MCEntries
    Contents <- MCContents
    Targets <- MCTargets
    Paths = {p1}
    W64 = 16
    W32 = 8
SPECIFICATION Spec
INVARIANT ParsedDescriptionsRunnable
\* The walk stops once it has returned Ok or Err.
CHECK_DEADLOCK FALSE
