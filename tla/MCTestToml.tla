----------------------------- MODULE MCTestToml -----------------------------
(* A test_programs tree with a test.toml at two depths and another file,   *)
(* and test.toml contents that reach every branch of parse_test_toml:      *)
(* each category, each error, and the integer conversions at their edges   *)
(* (u64 and u32 are scaled down to 16 and 8 bits).                         *)
EXTENDS TestToml

CONSTANTS root, d1, d2, f1, f2, o1, p1

MCDirs == {root, d1, d2}
MCTomlFiles == {f1, f2}
MCOtherFiles == {o1}
MCEntries == (root :> {d1, o1}) @@ (d1 :> {f1, d2}) @@ (d2 :> {f2})
MCTargets == {"Fuel", "Evm"}

\* TwoTo agrees with exponentiation up to the u64 width of the model.
ASSUME TwoToIsPower == \A n \in 0..W64 : TwoTo[n] = 2^n

Base ==
    [directives |-> "known", syntax |-> "table", category |-> TStr("run"),
     script_data |-> Absent, witness_data |-> Absent,
     expected_result |-> TTable(TStr("return"), TInt(1)), contracts |-> Absent,
     validate_abi |-> TBool(TRUE), validate_storage_slots |-> Absent,
     expected_warnings |-> TInt(-1), supported_targets |-> Absent]

MCContents ==
    { Base,
      [Base EXCEPT !.category = TStr("run_on_node"),
                   !.expected_result = TTable(TStr("result"), TInt(-1)),
                   !.contracts = TArr(<<TStr(p1)>>),
                   !.supported_targets = TArr(<<TStr("Fuel"), TStr("Evm")>>),
                   !.script_data = TStr("hex"), !.witness_data = TArr(<<TStr("hex")>>)],
      [Base EXCEPT !.category = TStr("run_on_node"),
                   !.expected_result = TTable(TStr("result"), TInt(0))],
      [Base EXCEPT !.expected_result = TTable(TStr("result"), TInt(1))],
      [Base EXCEPT !.expected_result = TTable(TStr("return_data"), TStr("hex"))],
      [Base EXCEPT !.category = TStr("compile"), !.expected_warnings = TInt(256),
                   !.validate_abi = TInt(1), !.supported_targets = TStr("Evm"),
                   !.expected_result = Absent],
      [Base EXCEPT !.category = TStr("disabled"), !.expected_warnings = TInt(3)],
      [Base EXCEPT !.category = TStr("fail"), !.directives = "none"],
      [Base EXCEPT !.category = TStr("unit_tests_pass"),
                   !.contracts = TArr(<<TInt(0)>>)],
      [Base EXCEPT !.category = TInt(3)],
      [Base EXCEPT !.category = TStr("bench")],
      [Base EXCEPT !.directives = "unknown"],
      [Base EXCEPT !.syntax = "not_table"],
      [Base EXCEPT !.script_data = TStr("nothex")],
      [Base EXCEPT !.witness_data = TArr(<<TInt(1)>>)],
      [Base EXCEPT !.expected_result = TTable(TStr("return"), Absent)],
      [Base EXCEPT !.supported_targets = TArr(<<TStr("Miden")>>)] }
====
