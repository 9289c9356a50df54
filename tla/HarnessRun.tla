----------------------------- MODULE HarnessRun -----------------------------
(***************************************************************************)
(* The end-to-end test driver of src/test/src/e2e_vm_tests/mod.rs: the    *)
(* filters of run(), its loop over the tests, TestContext::run for each    *)
(* test category and the contract cache of TestContext::deploy_contract.   *)
(*                                                                         *)
(* The driver is one task that awaits each step in turn, so a test is one  *)
(* atomic step.  What the compiler, the VMs and the node answer is chosen  *)
(* nondeterministically; a panic! (or a failed assert!, todo!, unwrap)     *)
(* ends the whole run, which the model records as phase "panicked".        *)
(***************************************************************************)
EXTENDS Naturals, Sequences, SequencesExt

CONSTANTS
    Tests,        \* test names (model values)
    TestOrder,    \* the order discover_test_configs finds them in
    Desc,         \* Desc[t]: the TestDescription parse_test_toml built
    Contracts,    \* contract paths
    Vals,         \* values a program can return, revert with or expect
    Targets,      \* build targets
    BuildTarget,  \* run_config.build_target
    NoRegex,      \* a filter that is not given (None)
    SkipUntil,    \* tests the skip_until regex matches, or NoRegex
    Include,      \* tests the include regex matches, or NoRegex
    Exclude,      \* tests the exclude regex matches, or NoRegex
    AbiOnly, ContractOnly, FirstOnly,
    MaxWarnings   \* bound on the warnings a compilation reports

Categories == {"Compiles", "FailsToCompile", "Runs", "RunsWithContract",
               "UnitTestsPass", "Disabled"}
ResultKinds == {"Result", "Return", "ReturnData", "Revert"}
TestResults == [kind : ResultKinds, v : Vals]
NoResult == [kind |-> "None", v |-> 0]
Descriptions ==
    [cat : Categories, expected : TestResults \cup {NoResult},
     contracts : Seq(Contracts), targets : SUBSET Targets,
     validate_abi : BOOLEAN, validate_storage_slots : BOOLEAN,
     expected_warnings : Nat]

ASSUME TestsAssumption ==
    /\ TestOrder \in Seq(Tests)
    /\ \A t \in Tests : \E i \in DOMAIN TestOrder : TestOrder[i] = t
    /\ \A i, j \in DOMAIN TestOrder : TestOrder[i] = TestOrder[j] => i = j
ASSUME DescAssumption == Desc \in [Tests -> Descriptions]
ASSUME TargetAssumption == BuildTarget \in Targets
ASSUME FilterAssumption ==
    /\ \A f \in {SkipUntil, Include, Exclude} : f = NoRegex \/ f \subseteq Tests
    /\ {AbiOnly, ContractOnly, FirstOnly} \subseteq BOOLEAN
ASSUME WarningsAssumption == MaxWarnings \in Nat

VARIABLES
    queue,        \* the tests the loop has still to take
    executed,     \* number_of_tests_executed
    failed,       \* number_of_tests_failed
    failed_tests, \* names pushed on failed_tests
    cache,        \* deployed_contracts: path -> contract id, or NoId
    next_id,      \* the id the next successful deployment gets
    deployments,  \* successful harness::deploy_contract calls per path
    outcome,      \* what became of each test ("none" before its turn)
    phase         \* "running", "done" or "panicked"

vars == <<queue, executed, failed, failed_tests, cache, next_id,
          deployments, outcome, phase>>

NoId == 0

-----------------------------------------------------------------------------
(* The filters of run(), in the order the code applies them.               *)

Matches(re, t) == re # NoRegex /\ t \in re

\* skip_until keeps the tests from the first one its regex matches.
SkipUntilFilter(s) ==
    IF SkipUntil = NoRegex THEN s
    ELSE LET i == SelectInSeq(s, LAMBDA t : Matches(SkipUntil, t))
         IN  IF i = 0 THEN <<>> ELSE SubSeq(s, i, Len(s))

\* Vec::retain: the elements of s that are in Keep, in their order.
Retain(s, Keep) ==
    LET F[i \in 0..Len(s)] ==
          IF i = 0 THEN <<>>
          ELSE IF s[i] \in Keep THEN Append(F[i - 1], s[i]) ELSE F[i - 1]
    IN  F[Len(s)]

Selected ==
    LET s1 == SkipUntilFilter(TestOrder)
        s2 == Retain(s1, {t \in Tests : Desc[t].cat # "Disabled"})
        s3 == IF Include = NoRegex THEN s2
              ELSE Retain(s2, {t \in Tests : Matches(Include, t)})
        s4 == IF Exclude = NoRegex THEN s3
              ELSE Retain(s3, {t \in Tests : ~Matches(Exclude, t)})
        s5 == IF AbiOnly THEN Retain(s4, {t \in Tests : Desc[t].validate_abi})
              ELSE s4
        s6 == IF ContractOnly
              THEN Retain(s5, {t \in Tests : Desc[t].cat = "RunsWithContract"})
              ELSE s5
    IN  IF FirstOnly /\ s6 # <<>> THEN <<Head(s6)>> ELSE s6

-----------------------------------------------------------------------------
(* TestContext::run returns Ok, returns Err or panics: each category is a  *)
(* list of the checks it makes in order, <<fails, verdict>>, and the       *)
(* verdict is that of the first check that fails.                          *)

Verdict(checks) ==
    LET i == SelectInSeq(checks, LAMBDA c : c[1])
    IN  IF i = 0 THEN "ok" ELSE checks[i][2]

Compile == {"package", "workspace", "error"}
FileCheck == {"pass", "fail", "directive_error"}

\* harness::runs_in_vm's answer on each target, as TestContext::run turns it
\* into a TestResult (kind "panic" where the code has todo! or panic!).
R(k, v) == [kind |-> k, v |-> v]
FuelStates ==
    {R(k, v) : k \in {"Return", "ReturnData", "Revert"}, v \in Vals}
    \cup {R(k, 0) : k \in {"RunProgram", "VerifyPredicate"}}
EvmExits ==
    {R(k, 0) : k \in {"Stop", "Revert", "Continue", "Return",
                      "SelfDestruct", "Other"}}
VMAnswers ==
    CASE BuildTarget = "Fuel" -> FuelStates
      [] BuildTarget = "Evm" -> {R("Evm" \o a.kind, 0) : a \in EvmExits}
      [] OTHER -> {R("Return", v) : v \in Vals}
AsTestResult(a) ==
    CASE a.kind = "EvmStop" -> R("Result", 0)
      [] a.kind = "EvmRevert" -> R("Revert", 0)
      [] a.kind \in {"Return", "ReturnData", "Revert"} -> a
      [] OTHER -> R("panic", 0)

RunsVerdict(d, compile, warnings, vm_ok, answer, abi_ok) ==
    Verdict(<<
        <<d.expected.kind \notin {"Return", "ReturnData", "Revert"}, "panic">>,
        <<compile = "error", "err">>,
        <<compile = "workspace", "panic">>,
        <<warnings > d.expected_warnings, "err">>,
        <<~vm_ok, "err">>,
        <<AsTestResult(answer).kind = "panic", "panic">>,
        <<AsTestResult(answer) # d.expected, "err">>,
        <<d.validate_abi /\ ~abi_ok, "err">> >>)

\* A package build checks its warnings; a workspace build does not.
CompilesVerdict(d, compile, warnings, filecheck, abi_ok, slots_ok) ==
    Verdict(<<
        <<compile = "error", "err">>,
        <<compile = "package" /\ warnings > d.expected_warnings, "err">>,
        <<filecheck = "fail", "err">>,
        <<filecheck = "directive_error", "panic">>,
        <<d.validate_abi /\ ~abi_ok, "err">>,
        <<d.validate_storage_slots /\ ~slots_ok, "err">> >>)

FailsToCompileVerdict(compile, filecheck) ==
    Verdict(<<
        <<compile # "error", "err">>,
        <<filecheck = "fail", "err">>,
        <<filecheck = "directive_error", "panic">> >>)

\* What runs_on_node answers: an error, receipts with a Revert or Panic,
\* fewer than two receipts, a second-to-last receipt that is not a Return,
\* or the value of that Return.
NodeAnswers ==
    {R(k, 0) : k \in {"error", "reverts", "short", "not_return"}}
    \cup {R("Return", v) : v \in Vals}

RunsWithContractVerdict(d, all_deployed, node) ==
    Verdict(<<
        <<d.expected.kind # "Result", "panic">>,
        <<d.contracts = <<>>, "panic">>,
        <<~all_deployed, "err">>,
        <<node.kind = "error", "err">>,
        <<node.kind \in {"reverts", "short", "not_return"}, "panic">>,
        <<node.v # d.expected.v, "panic">> >>)

UnitTestsVerdict(run_ok, all_passed) ==
    Verdict(<< <<~run_ok, "err">>, <<~all_passed, "panic">> >>)

\* Mutant: the deployed_contracts lookup dropped, every path is deployed.
MutDeployStepNoCache(s, p, ok) ==
    IF ok THEN [s EXCEPT !.cache[p] = s.next_id, !.next_id = @ + 1,
                         !.deployments[p] = @ + 1]
    ELSE [s EXCEPT !.all_ok = FALSE]

\* Mutant: the id counter advanced before the id is cached (off by one).
MutDeployStepOffByOne(s, p, ok) ==
    IF s.cache[p] # NoId THEN s
    ELSE IF ok THEN [s EXCEPT !.cache[p] = s.next_id + 1, !.next_id = @ + 1,
                              !.deployments[p] = @ + 1]
    ELSE [s EXCEPT !.all_ok = FALSE]

\* TestContext::deploy_contract on path p, ok telling whether
\* harness::deploy_contract succeeds: a path in the cache is not deployed
\* again, a successful deployment is cached, a failed one is not.
DeployStep(s, p, ok) ==
    IF s.cache[p] # NoId THEN s
    ELSE IF ok THEN [s EXCEPT !.cache[p] = s.next_id, !.next_id = @ + 1,
                              !.deployments[p] = @ + 1]
    ELSE [s EXCEPT !.all_ok = FALSE]

\* The deploy loop of a RunsWithContract test: deploy_contract on every path
\* in turn; an earlier failure does not stop it.
DeployAll(paths, succeeds) ==
    LET st[i \in 0..Len(paths)] ==
          IF i = 0
          THEN [cache |-> cache, next_id |-> next_id,
                deployments |-> deployments, all_ok |-> TRUE]
          ELSE DeployStep(st[i - 1], paths[i], succeeds[i])
    IN  st[Len(paths)]

-----------------------------------------------------------------------------
(* The loop of run().                                                      *)

\* The loop records what TestContext::run returned for test t.
Record(t, verdict) ==
    \/ /\ verdict = "ok"
       /\ executed' = executed + 1
       /\ outcome' = [outcome EXCEPT ![t] = "ok"]
       /\ UNCHANGED <<failed, failed_tests, phase>>
    \/ /\ verdict = "err"
       /\ executed' = executed + 1
       /\ failed' = failed + 1
       /\ failed_tests' = failed_tests \cup {t}
       /\ outcome' = [outcome EXCEPT ![t] = "err"]
       /\ UNCHANGED phase
    \/ /\ verdict = "panic"
       /\ phase' = "panicked"
       /\ outcome' = [outcome EXCEPT ![t] = "panic"]
       /\ UNCHANGED <<executed, failed, failed_tests>>

\* The test at the head of the queue, when it targets the build target and
\* has category cat.
Current(cat) ==
    /\ phase = "running"
    /\ queue # <<>>
    /\ BuildTarget \in Desc[Head(queue)].targets
    /\ Desc[Head(queue)].cat = cat

TakeTest == queue' = Tail(queue)

\* Mutant: a skipped test counted as executed.
MutSkipTarget ==
    /\ phase = "running"
    /\ queue # <<>>
    /\ BuildTarget \notin Desc[Head(queue)].targets
    /\ queue' = Tail(queue)
    /\ outcome' = [outcome EXCEPT ![Head(queue)] = "skipped"]
    /\ executed' = executed + 1
    /\ UNCHANGED <<failed, failed_tests, cache, next_id, deployments, phase>>

\* `continue` for a test that does not support the build target.
SkipTarget ==
    /\ phase = "running"
    /\ queue # <<>>
    /\ BuildTarget \notin Desc[Head(queue)].targets
    /\ queue' = Tail(queue)
    /\ outcome' = [outcome EXCEPT ![Head(queue)] = "skipped"]
    /\ UNCHANGED <<executed, failed, failed_tests, cache, next_id,
                   deployments, phase>>

RunRuns ==
    /\ Current("Runs")
    /\ \E compile \in Compile, warnings \in 0..MaxWarnings, vm_ok \in BOOLEAN,
          answer \in VMAnswers, abi_ok \in BOOLEAN :
          Record(Head(queue), RunsVerdict(Desc[Head(queue)], compile, warnings,
                                          vm_ok, answer, abi_ok))
    /\ TakeTest
    /\ UNCHANGED <<cache, next_id, deployments>>

RunCompiles ==
    /\ Current("Compiles")
    /\ \E compile \in Compile, warnings \in 0..MaxWarnings,
          filecheck \in FileCheck, abi_ok, slots_ok \in BOOLEAN :
          Record(Head(queue), CompilesVerdict(Desc[Head(queue)], compile,
                                 warnings, filecheck, abi_ok, slots_ok))
    /\ TakeTest
    /\ UNCHANGED <<cache, next_id, deployments>>

RunFailsToCompile ==
    /\ Current("FailsToCompile")
    /\ \E compile \in Compile, filecheck \in FileCheck :
          Record(Head(queue), FailsToCompileVerdict(compile, filecheck))
    /\ TakeTest
    /\ UNCHANGED <<cache, next_id, deployments>>

RunRunsWithContract ==
    /\ Current("RunsWithContract")
    /\ LET d == Desc[Head(queue)]
       IN  \E succeeds \in [DOMAIN d.contracts -> BOOLEAN], node \in NodeAnswers :
             LET after == DeployAll(d.contracts, succeeds)
                 \* the expected-result and contract-path checks come first
                 deploys == d.expected.kind = "Result" /\ d.contracts # <<>>
             IN  /\ Record(Head(queue),
                           RunsWithContractVerdict(d, after.all_ok, node))
                 /\ cache' = IF deploys THEN after.cache ELSE cache
                 /\ next_id' = IF deploys THEN after.next_id ELSE next_id
                 /\ deployments' =
                        IF deploys THEN after.deployments ELSE deployments
    /\ TakeTest

RunUnitTestsPass ==
    /\ Current("UnitTestsPass")
    /\ \E run_ok, all_passed \in BOOLEAN :
          Record(Head(queue), UnitTestsVerdict(run_ok, all_passed))
    /\ TakeTest
    /\ UNCHANGED <<cache, next_id, deployments>>

\* The summary: run() returns Err exactly when a test failed.
Finish ==
    /\ phase = "running"
    /\ queue = <<>>
    /\ phase' = "done"
    /\ UNCHANGED <<queue, executed, failed, failed_tests, cache, next_id,
                   deployments, outcome>>

Init ==
    /\ queue = Selected
    /\ executed = 0
    /\ failed = 0
    /\ failed_tests = {}
    /\ cache = [p \in Contracts |-> NoId]
    /\ next_id = 1
    /\ deployments = [p \in Contracts |-> 0]
    /\ outcome = [t \in Tests |-> "none"]
    /\ phase = "running"

Next ==
    \/ SkipTarget \/ RunRuns \/ RunCompiles \/ RunFailsToCompile
    \/ RunRunsWithContract \/ RunUnitTestsPass \/ Finish

Spec == Init /\ [][Next]_vars

-----------------------------------------------------------------------------
(* Properties.                                                             *)

Outcomes == {"none", "ok", "err", "panic", "skipped"}

\* Type correctness; a cached contract id is one already handed out.
HarnessTypeOK ==
    /\ queue \in Seq(Tests)
    /\ executed \in Nat /\ failed \in Nat
    /\ failed_tests \subseteq Tests
    /\ cache \in [Contracts -> 0..(next_id - 1)]
    /\ next_id \in Nat \ {0}
    /\ deployments \in [Contracts -> Nat]
    /\ outcome \in [Tests -> Outcomes]
    /\ phase \in {"running", "done", "panicked"}

\* The loop's bookkeeping: number_of_tests_executed counts the tests that
\* ran (not the ones skipped by `continue` for their target),
\* number_of_tests_failed and failed_tests the ones whose run returned Err,
\* and a run that finishes has taken exactly the tests the filters selected.
RunAccounting ==
    /\ executed = Cardinality({t \in Tests : outcome[t] \in {"ok", "err"}})
    /\ failed = Cardinality({t \in Tests : outcome[t] = "err"})
    /\ failed_tests = {t \in Tests : outcome[t] = "err"}
    /\ phase = "done" =>
          \A t \in Tests : outcome[t] # "none" <=> t \in ToSet(Selected)

\* TestContext::deploy_contract deploys a contract path at most once in the
\* whole run: a path in the cache is never deployed again, the cache holds
\* exactly the paths whose deployment succeeded, and no two paths share an id,
\* whatever the order of the tests and the paths within a test.
DeployOnce ==
    /\ \A p \in Contracts :
          /\ deployments[p] <= 1
          /\ cache[p] # NoId <=> deployments[p] = 1
    /\ \A p, q \in Contracts : cache[p] = cache[q] /\ cache[p] # NoId => p = q

\* deployed_contracts is never overwritten: once a contract path has an id,
\* every later test, and every later path of the same test, reuses that id
\* instead of deploying the contract again.
CacheStable ==
    [][\A p \in Contracts : cache[p] # NoId => cache'[p] = cache[p]]_cache

=============================================================================
