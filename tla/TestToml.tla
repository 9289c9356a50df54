------------------------------ MODULE TestToml ------------------------------
(***************************************************************************)
(* Test discovery of src/test/src/e2e_vm_tests/mod.rs: discover_test_configs *)
(* walks the test_programs tree depth first, in the order read_dir gives   *)
(* (which is unspecified), and turns every test.toml into a TestDescription *)
(* with parse_test_toml; the first file that fails to parse ends the walk  *)
(* with Err and run() stops before any test.                               *)
(*                                                                         *)
(* A TOML value is a record [t, v]: its type and its payload.  Strings are *)
(* the words the parser looks for; "hex" and "nothex" stand for strings    *)
(* hex::decode accepts and rejects.  FileCheck directives are abstracted   *)
(* to none, only known ones, or an unknown one.                            *)
(***************************************************************************)
EXTENDS Integers, Sequences, SequencesExt

CONSTANTS
    Root,        \* the test_programs directory
    Dirs,        \* directories under it (Root included)
    TomlFiles,   \* files named test.toml
    OtherFiles,  \* every other file
    Entries,     \* Entries[d]: what read_dir(d) lists
    Contents,    \* the test.toml files the model lets the tree hold
    Targets,     \* the names BuildTarget::from_str accepts
    Paths,       \* contract path strings
    W64, W32     \* the widths of u64 and u32

\* Everything read_dir can list under the root.
Entity == Dirs \cup TomlFiles \cup OtherFiles

\* test_programs is a finite tree: an entry is a directory or a file, never
\* both (is_dir and is_file); each entry but the root is listed by exactly
\* one directory; and each entry lies at some depth below the root, so that
\* every test.toml is reached from it (a level function exists).
ASSUME TreeAssumption ==
    /\ Root \in Dirs
    /\ Dirs \cap (TomlFiles \cup OtherFiles) = {} /\ TomlFiles \cap OtherFiles = {}
    /\ IsFiniteSet(Entity)
    /\ Entries \in [Dirs -> SUBSET Entity]
    /\ \A d \in Dirs : Root \notin Entries[d]
    /\ \A e \in Entity \ {Root} :
          \E d \in Dirs : e \in Entries[d] /\ \A d2 \in Dirs : e \in Entries[d2] => d2 = d
    /\ \E lvl \in [Entity -> 0..Cardinality(Dirs)] :
          /\ lvl[Root] = 0
          /\ \A d \in Dirs : \A e \in Entries[d] : lvl[e] = lvl[d] + 1
ASSUME WidthAssumption == W32 \in Nat \ {0} /\ W64 \in Nat /\ W32 < W64

VARIABLES
    content,   \* what each test.toml holds
    stack,     \* the entries recursive_search has still to visit, in order
    configs,   \* the descriptions pushed so far
    status     \* "searching", "ok" or "err"

vars == <<content, stack, configs, status>>

-----------------------------------------------------------------------------
(* TOML values.                                                            *)

Tv(t, v) == [t |-> t, v |-> v]
Absent == Tv("absent", "")
TStr(s) == Tv("str", s)
TInt(i) == Tv("int", i)
TBool(b) == Tv("bool", b)
TArr(items) == Tv("arr", items)
TTable(action, value) == Tv("table", [action |-> action, value |-> value])

R(k, v) == [kind |-> k, v |-> v]
NoResult == R("None", 0)

\* 2^n, by its recursion on n.
TwoTo[n \in Nat] == IF n = 0 THEN 1 ELSE 2 * TwoTo[n - 1]

\* `*v as u64` on an i64, and u32::try_from(v).unwrap_or(0).
AsU64(i) == i % TwoTo[W64]
U32OrZero(i) == IF 0 <= i /\ i < TwoTo[W32] THEN i ELSE 0

CategoryOf ==
    [run |-> "Runs", run_on_node |-> "RunsWithContract",
     fail |-> "FailsToCompile", compile |-> "Compiles",
     disabled |-> "Disabled", unit_tests_pass |-> "UnitTestsPass"]

\* get_action_value: the action word and the value's TOML type decide.
ActionOk(a, x) ==
    \/ a \in {TStr("return"), TStr("result"), TStr("revert")} /\ x.t = "int"
    \/ a = TStr("return_data") /\ x = TStr("hex")
ActionResult(a, x) ==
    CASE a = TStr("return") -> R("Return", AsU64(x.v))
      [] a = TStr("result") -> R("Result", AsU64(x.v))
      [] a = TStr("revert") -> R("Revert", AsU64(x.v))
      [] OTHER -> R("ReturnData", 0)

\* get_expected_result: a table with an action and a value.
ExpectedOk(e) ==
    /\ e.t = "table"
    /\ e.v.action # Absent /\ e.v.value # Absent
    /\ ActionOk(e.v.action, e.v.value)

FlagOf(v) == v.t = "bool" /\ v.v

TargetsOf(v) ==
    IF v.t # "arr" \/ v.v = <<>> THEN {"Fuel"}
    ELSE {v.v[i].v : i \in DOMAIN v.v}

-----------------------------------------------------------------------------
(* parse_test_toml.                                                        *)

CatOf(c) == CategoryOf[c.category.v]
RunsCat(c) == CatOf(c) \in {"Runs", "RunsWithContract"}

ParseOk(c) ==
    /\ c.directives # "unknown"
    /\ c.syntax = "table"
    /\ c.category.t = "str" /\ c.category.v \in DOMAIN CategoryOf
    /\ ~(CatOf(c) = "FailsToCompile" /\ c.directives = "none")
    /\ RunsCat(c) =>
          /\ c.script_data = Absent \/ c.script_data = TStr("hex")
          /\ \/ c.witness_data = Absent
             \/ c.witness_data.t = "arr" /\
                \A i \in DOMAIN c.witness_data.v : c.witness_data.v[i] = TStr("hex")
          /\ ExpectedOk(c.expected_result)
    /\ \/ c.contracts = Absent
       \/ c.contracts.t = "arr" /\
          \A i \in DOMAIN c.contracts.v : c.contracts.v[i].t = "str"
    /\ c.supported_targets.t = "arr" =>
          \A i \in DOMAIN c.supported_targets.v :
             c.supported_targets.v[i].t = "str" /\ c.supported_targets.v[i].v \in Targets

DescOf(c, name) ==
    [name |-> name,
     cat |-> CatOf(c),
     expected |-> IF RunsCat(c)
                  THEN ActionResult(c.expected_result.v.action,
                                    c.expected_result.v.value)
                  ELSE NoResult,
     contracts |-> IF c.contracts = Absent THEN <<>>
                   ELSE [i \in DOMAIN c.contracts.v |-> c.contracts.v[i].v],
     validate_abi |-> FlagOf(c.validate_abi),
     validate_storage_slots |-> FlagOf(c.validate_storage_slots),
     expected_warnings |-> U32OrZero(IF c.expected_warnings.t = "int"
                                     THEN c.expected_warnings.v ELSE 0),
     targets |-> TargetsOf(c.supported_targets)]

-----------------------------------------------------------------------------
(* recursive_search, with its recursion as a stack of entries to visit.    *)

\* A directory: its entries, in one of the orders read_dir may give.
VisitDir ==
    /\ status = "searching"
    /\ stack # <<>> /\ Head(stack) \in Dirs
    /\ \E order \in SetToSeqs(Entries[Head(stack)]) :
          stack' = order \o Tail(stack)
    /\ UNCHANGED <<content, configs, status>>

\* Mutant: a parse error dropped, the file skipped as if it were no test.
MutVisitToml ==
    /\ status = "searching"
    /\ stack # <<>> /\ Head(stack) \in TomlFiles
    /\ stack' = Tail(stack)
    /\ configs' = IF ParseOk(content[Head(stack)])
                  THEN Append(configs, DescOf(content[Head(stack)], Head(stack)))
                  ELSE configs
    /\ UNCHANGED <<content, status>>

\* A test.toml: parse it and push the description, or fail the whole walk.
VisitToml ==
    /\ status = "searching"
    /\ stack # <<>> /\ Head(stack) \in TomlFiles
    /\ IF ParseOk(content[Head(stack)])
       THEN /\ configs' = Append(configs, DescOf(content[Head(stack)], Head(stack)))
            /\ stack' = Tail(stack)
            /\ UNCHANGED status
       ELSE /\ status' = "err"
            /\ UNCHANGED <<stack, configs>>
    /\ UNCHANGED content

VisitOther ==
    /\ status = "searching"
    /\ stack # <<>> /\ Head(stack) \in OtherFiles
    /\ stack' = Tail(stack)
    /\ UNCHANGED <<content, configs, status>>

Done ==
    /\ status = "searching"
    /\ stack = <<>>
    /\ status' = "ok"
    /\ UNCHANGED <<content, stack, configs>>

Init ==
    /\ content \in [TomlFiles -> Contents]
    /\ stack = <<Root>>
    /\ configs = <<>>
    /\ status = "searching"

Next == VisitDir \/ VisitToml \/ VisitOther \/ Done

Spec == Init /\ [][Next]_vars

-----------------------------------------------------------------------------
(* Properties.                                                             *)

\* When discover_test_configs returns, it returns Ok exactly when every
\* test.toml of the tree parses, and then it holds one description for each
\* of them, whatever order read_dir lists the directories in.
DiscoveryExact ==
    status # "searching" =>
        /\ status = "ok" <=> \A f \in TomlFiles : ParseOk(content[f])
        /\ status = "ok" =>
              /\ Len(configs) = Cardinality(TomlFiles)
              /\ {configs[i].name : i \in DOMAIN configs} = TomlFiles

\* TestContext::run panics on a 'run' test whose expected result is not a
\* Return, ReturnData or Revert (lines 121-129).
RunsRejects(d) ==
    d.cat = "Runs" /\ d.expected.kind \notin {"Return", "ReturnData", "Revert"}

\* ... and on a 'run_on_node' test without a 'result' action or without
\* contracts (lines 285-299).
RunOnNodeRejects(d) ==
    d.cat = "RunsWithContract" /\ (d.expected.kind # "Result" \/ d.contracts = <<>>)

RunRejects(d) == RunsRejects(d) \/ RunOnNodeRejects(d)

\* parse_test_toml aborts early on a malformed description (the comment at
\* line 622): no description it returns is one that TestContext::run then
\* rejects with a panic that ends the whole suite.
ParsedDescriptionsRunnable ==
    \A i \in DOMAIN configs : ~RunRejects(configs[i])

=============================================================================
