\* The whole suite on the Fuel target, no filter.
CONSTANTS
    t1 = t1  t2 = t2  t3 = t3  t4 = t4  t5 = t5  t6 = t6  t7 = t7
    c1 = c1  c2 = c2  NoRe = NoRe
    Tests <- MCTests
    TestOrder <- MCTestOrder
    Desc <- MCDesc
    Contracts <- MCContracts
    Vals <- MCVals
    Targets <- MCTargets
    BuildTarget = "Fuel"
    NoRegex <- NoRe
    SkipUntil <- NoRe
    Include <- NoRe
    Exclude <- NoRe
    AbiOnly = FALSE
    ContractOnly = FALSE
    FirstOnly = FALSE
    MaxWarnings = 1
SPECIFICATION Spec
INVARIANT HarnessTypeOK RunAccounting DeployOnce
PROPERTY CacheStable
\* The driver stops once every test has run, or at the first panic.
CHECK_DEADLOCK FALSE
