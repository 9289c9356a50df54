---------------------------- MODULE MCHarnessRun ----------------------------
(* A small test suite for HarnessRun: one test of each category, two       *)
(* contract tests that share a contract (one of them lists it twice), and  *)
(* a test for another build target.                                        *)
EXTENDS HarnessRun

CONSTANTS t1, t2, t3, t4, t5, t6, t7, c1, c2, NoRe

MCTests == {t1, t2, t3, t4, t5, t6, t7}
MCTestOrder == <<t1, t2, t3, t4, t5, t6, t7>>
MCContracts == {c1, c2}
MCVals == {0, 1}
MCTargets == {"Fuel", "Evm", "Miden"}

D(cat, exp, contracts, targets) ==
    [cat |-> cat, expected |-> exp, contracts |-> contracts,
     targets |-> targets, validate_abi |-> TRUE,
     validate_storage_slots |-> TRUE, expected_warnings |-> 0]

MCDesc ==
    [t \in MCTests |->
        CASE t = t1 -> D("Compiles", NoResult, <<>>, {"Fuel"})
          [] t = t2 -> D("RunsWithContract", [kind |-> "Result", v |-> 1],
                         <<c1, c1>>, {"Fuel"})
          [] t = t3 -> D("RunsWithContract", [kind |-> "Result", v |-> 0],
                         <<c2, c1>>, {"Fuel"})
          [] t = t4 -> D("Runs", [kind |-> "Return", v |-> 1], <<>>, {"Fuel"})
          [] t = t5 -> D("FailsToCompile", NoResult, <<>>, {"Fuel"})
          [] t = t6 -> D("UnitTestsPass", NoResult, <<>>, {"Fuel"})
          [] t = t7 -> D("Runs", [kind |-> "Return", v |-> 0], <<>>, {"Evm"})]
====
