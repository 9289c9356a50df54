# Verification of the Sway IR constants and the E2E test driver

This directory holds the TLA+ models of the stateful code under `src/`:
- the modules;
- the TLC configurations that check them;
- the TLAPS proofs about them.

`PROJECT.json` maps each TLA+ definition to the source lines it translates.

## Inventory

The repository has four source files.

| Part | Source | State | Operations |
|---|---|---|---|
| IR constants | `src/sway-ir/src/constant.rs` | a `Constant` is a type handle plus a `ConstantValue` (Undef, Unit, Bool, Uint, U256, B256, String, Array, Struct) | `new_unit/bool/uint/uint256/b256/string/array/struct`, `get_undef`, `get_*` (build plus `Value::new_constant`), `extract_enum_tag_and_value`, `eq` |
| IR type registry, value arena | not under `src/` (`Context`, `Type`, `Value`): modelled from `spec.md` | interned types; an append-only arena of values | `Type::get_uint`, `Type::new_struct`, ..., `Value::new_constant` |
| E2E test driver | `src/test/src/e2e_vm_tests/mod.rs` | the test list; the counters `number_of_tests_executed` and `number_of_tests_failed`; `failed_tests`; the shared `deployed_contracts` cache | discovery, the filters, the test loop, `TestContext::run` per category, `deploy_contract`, the summary; `parse_test_toml` and `get_expected_result` parse the descriptions |
| LSP start | `src/sway-lsp/src/lib.rs` | none of its own | serve over stdio or connect to a TCP port |
| forc-lsp CLI | `src/forc-plugins/forc-lsp/src/main.rs` | none | parse args, call `start` |

The parts interact in two ways:
- Constants refer to types in the registry. Composite constants contain earlier constants, so the pool of constants grows by construction.
- `get_*` allocates a value in the arena.
- In the driver, the loop calls `TestContext::run` once per selected test. All `RunsWithContract` tests share one deploy cache.

What is hard to test here:
- Constructors accept inputs that disagree with their type, and `eq` zips lists of unequal length.
- `Undef` can be built for an enum type.
- The driver interleaves outcomes: Ok, Err, or a panic that aborts the whole suite.
- Partial deploy failures leave the cache half filled.
- The target skip `continue` comes before the counter increment.
- `read_dir` gives an unspecified order.

## Modules

### `IRConstant.tla`: constant.rs together with the registry and arena it uses

State:
- `types` is the set of registered types. A type is a record `[kind, n, sub]`.
- `pool` is the set of constants built so far. A constant is `[ty, tag, pl]`: its type, its `ConstantValue` variant and its payload. An Array or Struct payload is a sequence of pool constants.
- `arena` holds the values allocated by `get_*`.
- `aborted` is set by a failed `assert!` in `get_array`/`get_struct`.

Actions:
- Each `new_*` and `get_undef` is one action. It takes its arguments from small constant sets and adds the constant and its type to the pool.
- Each `get_*` builds the constant and appends it to the arena in the same step, as the code does.
- `new_uint` keeps the code's widening: width 256 gives a `U256`.

Operators:
- `ConstEqOn` is `Constant::eq` as a recursive function over pairs of pool constants. It applies the Undef rule first, then the tag, then zips composite payloads exactly as Rust's `zip` does, so it ignores the tail of the longer list.
- `extract_enum_tag_and_value` follows lines 139-152. Its `None` result is `<<>>`.
- `WellTyped` is a constant. When TRUE, arrays and structs get only inputs that agree with their types. When FALSE, they get any lists; the code does not check them.

### `HarnessRun.tla`: `run` and `TestContext::run`

State:
- `queue` is the list of tests left after the filters.
- `executed`, `failed` and `failed_tests` are the loop's counters.
- `cache` holds `deployed_contracts`; `next_id` is the next contract id.
- `deployments` counts deploys per path. It is a ghost.
- `outcome` records the outcome per test. It is a ghost.
- `phase` is `running`, `done`, or `panicked`. `panicked` means a panic aborted the suite.

How the code maps to the model:
- `Selected` applies the seven filters in code order. `SkipUntilFilter` keeps the tests from the first match on. `Retain(s, Keep)` is `Vec::retain`/`retained`, written as a recursive function that keeps the elements of `s` in `Keep`.
- Each category arm is an ordered list of the checks it makes, `<<fails, verdict>>`, and the first failing check decides. Verdicts are `err` for an `Err` return and `panic` for `panic!`, `todo!` or `assert!`.
- The compiler, the VMs and the node are not modelled. Their answers are nondeterministic choices from small sets, kept per target, including the EVM and Miden conversions.
- `DeployStep` is one `deploy_contract` call: a cached path is reused, a success is cached under a fresh id, and a failure is not cached. `DeployAll` is the deploy loop, a recursive function folding `DeployStep` over the contract paths.
- `SkipTarget` is the `continue`.
- `Finish` is the summary.

The descriptions (`Desc`) are a constant standing for what `discover_test_configs` returns.

### `TestToml.tla`: `discover_test_configs` and `parse_test_toml`

State:
- `content` is what each `test.toml` holds. It is chosen in `Init` from a small set of contents.
- `stack` holds the entries `recursive_search` still has to visit. It stands for the recursion.
- `configs` is the vector of descriptions pushed so far.
- `status` is `searching`, `ok` or `err`.

How the code maps to the model:
- A TOML value is a record `[t, v]`: the value's type and its payload. The words `"hex"` and `"nothex"` stand for strings that `hex::decode` accepts and rejects.
- `VisitDir` replaces the directory by its entries in any order (`SetToSeqs`), because `read_dir`'s order is unspecified.
- `VisitToml` parses the file. A parse error ends the walk with `Err`, as the `?` at line 550 does.
- `ParseOk` is the conjunction of every early `Err`/`bail!` of `parse_test_toml`, `get_expected_result` and `get_test_abi_from_value`.
- `DescOf` builds the `TestDescription`. This includes `*v as u64` as `AsU64` (i64 modulo 2^64) and `u32::try_from(..).unwrap_or(0)` as `U32OrZero`.
- FileCheck directives are abstracted to three cases: none, only known ones, or an unknown one.
- `TreeAssumption` says what `test_programs` is: a finite tree. An entry is a directory or a file, never both (`is_dir`, `is_file`). Every entry but the root is listed by exactly one directory. A depth function exists, so every entry is reached from the root and there are no cycles. A symlink loop would make `recursive_search` recurse forever; the model excludes it.

### `TypeRegistry.tla` and `AbstractTypeRegistry.tla`: the IR type registry

`Context` and `Type` are not under `src/`. These modules are modelled from `spec.md` 4.1 and 9, and marked `spec_modelled` in the map.

`TypeRegistry`:
- `slots` is the table of type contents, indexed by handle.
- Every constructor (`get_unit`, `get_bool`, `get_b256`, `new_uint`, `new_string`, `new_array`, `new_struct`) builds a content and goes through `Intern`. `Intern` returns the existing handle when the content is already in the table. Otherwise it appends the content, bounded by `MaxTypes`.
- A content refers to other types only by handles that already exist.

`AbstractTypeRegistry` states what the registry promises. Its state is the set `interned` of `<<type, handle>>` entries given out so far, and its one action adds one entry whose type was never interned and whose handle was never given. So the set only grows, an entry never changes, and interning is a function in both directions: a type has one handle and a handle one type.

`TypeRegistry` is shown to implement it through the mapping `Entries == {<<slots[h], h>> : h \in DOMAIN slots}` (`Abs == INSTANCE AbstractTypeRegistry WITH interned <- Entries`). The mapping does not choose a handle per type, so a registry that stored a content twice would show two entries with one type, and that step is not an abstract `Intern`. The mutants that append without the lookup (`MutIntern`) or overwrite an existing slot are both caught by `AbsSpec`.

## Runs

| Run | Checks | Shows |
|---|---|---|
| `ir_constants` (MCIRConstant.cfg) | TypeOK, ShapeInv, EqMatchesSpec, EnumExtraction | see the list below |
| `ir_enum_undef` (MCIRConstantEnum.cfg) | EnumNeverNone: expected to be violated | `get_undef` on `{u64, u64}`, then extraction, reaches the "should never be the case" `None` (constant.rs:148) |
| `ir_struct_arity` (MCIRConstantIllTyped.cfg) | UndefNeverEqual: expected to be violated | with `new_struct` unchecked, an empty struct of type `{}` equals a struct of type `{}` holding an `Undef` (constant.rs:83 and 168) |
| `harness_suite` (MCHarnessRun.cfg) | HarnessTypeOK, RunAccounting, DeployOnce, CacheStable | see the list below |
| `discovery` (MCTestToml.cfg) | DiscoveryExact | for every read_dir order and every assignment of 17 contents to two `test.toml` files at different depths, discovery is Ok exactly when every file parses, and then it returns one description per file |
| `discovery_runnable` (MCTestTomlRunnable.cfg) | ParsedDescriptionsRunnable: expected to be violated | `parse_test_toml` accepts a 'run' test with a `result` action and a 'run_on_node' test without contracts, which `TestContext::run` rejects with a panic (mod.rs:126, 289-298) |
| `type_registry` (MCTypeRegistry.cfg) | RegistryTypeOK, StructuralInterning, AbsSpec | every sequence of constructor calls interns structurally equal types to one handle, and the registry implements the abstract one |

`ir_constants` shows the following:
- Every constant's payload fits its type.
- `eq` is exactly equality of denotations when neither side contains an Undef.
- Extraction succeeds exactly on enum-shaped constants that are not Undef.

`harness_suite` shows the following:
- The counters always agree with the outcomes.
- A finished run has taken exactly the selected tests.
- A contract is deployed at most once, whichever verdicts and deploy failures occur.
- A cached contract id never changes, so later tests reuse it (`CacheStable`, an action property).

### Bounds

`ir_constants` (538k states, about 40 s) uses:
- widths {64, 256};
- literals {0, 1};
- one byte of B256;
- one string;
- lists of length at most 2;
- at most 4 pool constants;
- one arena slot.

These bounds are enough to build:
- an enum `{u64, T}` and its Undef;
- a struct nested in a struct;
- lists of different lengths;
- a 256-bit `new_uint`.

`harness_suite` uses 7 tests, one per category and arm:
- one test whose target is skipped;
- two `RunsWithContract` tests that share contract `c1`, one of which lists `c1` twice. Together they reach the cached, the failed and the retried deploys.

`discovery` uses a tree of depth three: the root, `d1` and `d2`; one `test.toml` in `d1` and one in `d2`; one other file. Its contents include one variant per early error of `parse_test_toml` and one variant per category. The widths are scaled to `W64 = 16` and `W32 = 8`, because TLC's integers are 32-bit. `expected_warnings = -1` and `256` exercise both sides of `u32::try_from`, and the narrower width keeps the same wrap and bound behaviour.

`type_registry` uses widths {8, 64}, one string length, structs of at most 2 fields and at most 4 types. This is enough for an array of a struct of two uints and for every constructor to hit an existing content.

### Fairness and deadlock

No run assumes fairness, and every property checked is a safety property. The loop of `run()` is a `for` over a finite list, so its termination says nothing about the code and is not stated. Constants and types are built on demand, and discovery is checked for safety only.

Deadlock checking is off:
- the suite stops on purpose when it finishes or panics;
- the constant pool stops when its bound is reached.

## Proofs (IRConstantProofs.tla, checked by tlapm)

- `TypeCorrect == Spec => []TypeOK`. TypeOK is inductive as it stands, because it includes the closure of the registry (every sub-type is registered) and the fact that composite payloads are sequences of pool constants. The proof has one case per action and rests on these lemmas:
  - `AddConstTypeOK` and `BuildTypeOK`: adding a constant whose type, tag and payload are well formed preserves TypeOK;
  - `ScalarTypes`: the types of the scalar constructors;
  - `SeqOfIsSeq` (from `SeqOf` to `Seq`).
- `ShapeCorrect == WellTyped => (Spec => []ShapeInv)`. ShapeInv is inductive on its own, because the shape of a constant depends only on its own record. The proof has one case per constructor. `AddConstShape` and `ScalarShapes` discharge the scalar cases. The array and struct cases use the well-typed input sets.

The assumptions on the constants (`WidthsAssumption`, ...) are the ones stated in `IRConstant.tla`. TLC evaluates them on every run.

- `EnumExtractionCorrect == WellTyped => (Spec => []EnumExtraction)`. `EnumExtraction` follows from `TypeOK` and `ShapeInv` in every state (lemma `EnumOfShape`). A constant of an enum-shaped type is either an `Undef`, or a `Struct` whose field types are the type's, so it has two fields and the first is a u64. The theorem combines `TypeCorrect` and `ShapeCorrect`.

## Proofs (IRConstantEqProofs.tla, checked by tlapm)

`ConstEqOn`, `Known` and `Denote` are recursive functions over the pool. They satisfy their recursion equations only if the recursion descends, and in the code it does because a constant's elements are values built before it.

- `RankCorrect == Spec => [](TypeOK /\ RankInv)`. `RankInv` says that the pool is finite and has a ranking `rk \in [pool -> 0..Cardinality(pool) - 1]` under which every element of an array or struct constant ranks below it. The rank is an existential in the invariant, not a ghost variable, so the model is unchanged.
  - `PoolStep`: every step leaves the pool alone or adds one constant whose elements are already in the pool.
  - `AddRank`: the new constant gets the old size of the pool, above every earlier rank (`FS_AddElement`).
  - TLC checked `RankInv` on the `ir_constants` model (538309 states) before the proof.
- `KnownUnfold`, `DenoteUnfold` and `EqUnfold` prove the three recursion equations with `WFInductiveDef`.
  - For `Known` and `Denote` the order is the rank of a constant.
  - For `ConstEqOn(pool)` the order is the sum of the ranks of the pair. The pairs that `Zip` forms from two composites have a smaller sum (`ZipFacts`).
  - `MeasureWF` shows that an order by a natural-number measure is well founded: a descending chain would give one in `Nat`.
- `EqMatchesSpecCorrect == WellTyped => (Spec => []EqMatchesSpec)`. The proof is a least counterexample on the sum of the ranks. `PairOk` proves the pair `l, r` from all pairs with a smaller sum, in three cases:
  - if either operand is `Undef`, `eq` and `Known` are both false;
  - if the types differ, `eq` is false and the denotations differ in their type;
  - otherwise `SameShape` (from `ShapeInv`) gives the same variant and, for arrays and structs, payloads of one length, so `Zip` covers every position. Equality of the payloads, knownness and equality of denotations then all go element by element.

  This is where `WellTyped` is needed: without `ShapeInv` two structs of one type can have different field counts. `Zip` then stops at the shorter list, which is the `ir_struct_arity` finding.
- `UndefNeverEqualCorrect == WellTyped => (Spec => []UndefNeverEqual)` follows from it.

## Proofs (TypeRegistryProofs.tla, checked by tlapm)

- `RegistryInterning == Spec => []IInv` with `IInv == RegistryTypeOK /\ Interning`. `Interning` (no content stored twice) is not inductive alone. `Append` keeps it only because `Intern` appends after a failed lookup. The proof also needs the type invariant, so that `slots` is a sequence of contents whose handles are below their own index. Lemma `InternStep` shows that the lookup-then-append keeps `IInv` for any content referring only to existing handles. Each constructor case then reduces to it.
- `RegistryTypeCorrect == Spec => []RegistryTypeOK` follows from it.
- `RegistryRefinement == Spec => AbsSpec`. The initial table maps to the empty abstract map. Lemma `InternRefines` shows that every constructor call is a stutter of the mapping (the content was found) or an abstract `Intern`. In the second case the new entry is `<<c, Len(slots) + 1>>`: its handle is fresh because every old handle is at most `Len(slots)`, and its type is fresh because the lookup failed, which `Interning` and the type invariant turn into "no slot holds `c`".

- `StructuralInterningCorrect == Spec => []StructuralInterning`. `Structure` is a recursive function over the handles. `StructUnfold` proves its recursion equation with `WFInductiveDef` of WellFoundedInduction, over `<` on the handles: a content refers only to smaller handles (`SubBelow`), so one unfolding at `h` reads only the structures of handles below `h` (`StructDefLocal`). `StructInjective` then argues by a least counterexample. Take a least handle `h` that shares its structure with a smaller `g`. Then `h` and `g` have the same kind, width and field structures. Fields with equal structures lie below `h`, so they are equal handles. So `slots[h] = slots[g]`, which `Interning` rules out. The theorem follows from `RegistryInterning`.

## Proofs (HarnessRunProofs.tla, checked by tlapm)

The theorems hold for every suite, discovery order, filter choice, build target and set of contracts allowed by the ASSUMEs of `HarnessRun.tla`. Those ASSUMEs say that `TestOrder` lists every test once, that descriptions are well typed, and that the filters are sets of tests or `NoRegex`.

- `HarnessInvariant == Spec => []IInv`. None of `RunAccounting`, `DeployOnce` or `HarnessTypeOK` is inductive alone. Their strengthening `IInv` says:
  - the queue has no repetitions and holds only selected tests;
  - a test has outcome `"none"` exactly when it is not selected or still queued;
  - a finished run has an empty queue;
  - the counters are the cardinalities of the tests with outcome Ok/Err and Err;
  - the deploy cache is sound (`DeployOK`: every cached id is below `next_id`, a path is deployed at most once and cached exactly when deployed, and ids are unique).

  TLC checked `IInv` on the `harness_suite` model and with the skip_until/exclude and include/first_only filters on, before the proof. The proof takes the head test off an injective queue (`TailOK`). That test had no outcome and was counted nowhere, and no other test changes, so each counter grows by at most one (`FS_AddElement`; the set of tests is finite by `TestsFinite`). Every action reduces to lemma `TakeOK`, through `RecordOK` for the three verdicts. `Finish` and stuttering change no counted state.
  - Why injectivity is needed: if a test could be queued twice, its second turn would count it twice while the set of tests with an outcome would not grow.
  - `SelectedOK` supplies injectivity at the start: `SkipUntilOK` shows `SubSeq` keeps it, and `RetainOK` shows `Retain` keeps it. These lemmas reason about the recursive functions through `FiniteNatInductiveDef` and `IntervalInduction`, an induction over `0..n` proved by a least counterexample.
- `HarnessTypeCorrect`, `RunAccountingCorrect` and `DeployOnceCorrect` state `[]HarnessTypeOK`, `[]RunAccounting` and `[]DeployOnce`. Each follows from `IInv`.
- `CacheStableCorrect == Spec => CacheStable`. Lemma `DeployAllOK` shows that the deploy loop keeps the cache sound and keeps every id already cached (`Keeps`), by induction over the paths, using `DeployStepOK` for one call. `ContractDeployOK` lifts that to the `RunsWithContract` step; every other step leaves the cache unchanged.


## Proofs (TestTomlProofs.tla, checked by tlapm)

The theorems hold for every tree allowed by `TreeAssumption`, every assignment of contents and every `read_dir` order.

- `WalkInvariant == Spec => []IInv`. `DiscoveryExact` is not inductive: it speaks only of the final state. The strengthening is about ancestry.
  - `Lvl` is the depth function that the assumption provides, `Par(e)` is the directory listing `e`, and `Up[k][f]` is the entry `k` levels above `f` (a recursive function over `Nat`, unfolded with `NatInductiveDef`).
  - `Covers(a, f)` says that `a` is `f` or a directory above it.
  - `IInv` says:
    - no two stack entries cover a common entry (`StackDisjoint`);
    - no stack entry covers a file already pushed (`NotBelow`);
    - no file is pushed twice (`NamesUnique`);
    - every pushed file parses;
    - until an error, every file is pushed or covered by a stack entry;
    - `Err` leaves a file that does not parse at the head of the stack;
    - `Ok` leaves the stack empty.
  - TLC checked `IInv` on the `discovery` tree and on a second tree with a depth-3 directory and an empty one, before the proof.
- The lemmas behind it:
  - `UpLevel` (proved by `IntervalInduction`, an induction over `0..n` proved by a least counterexample): going up `k` levels lands `k` levels higher;
  - `CoversRoot`: the root covers everything;
  - `CoversStep`: whatever a directory covers, other than itself, one of its entries covers;
  - `CoversUp`: a directory covers what its entries cover;
  - `CoversSameLevel`: entries at one depth cover nothing in common;
  - `OrderOK`: a `SetToSeqs` order lists each entry once (`FS_Injection`);
  - `PopOK`: popping the head of the stack.

  `VisitDirOK` maps each position of the new stack to the old position that covered it: an entry of the order maps to the directory, a later entry to itself. Two entries of the order that cover a common file would be equal, because they lie at one depth.
- `DiscoveryExactCorrect == Spec => []DiscoveryExact`. With `Ok` the stack is empty, so every file was pushed. `configs` then maps `1..Len(configs)` onto the files one to one, and `FS_Bijection` gives the length. With `Err` the file at the head does not parse.

`DescOf` converts integers with `AsU64` (`*v as u64`, modulo 2^64) and `U32OrZero` (`u32::try_from(..).unwrap_or(0)`). The model writes 2^w as the recursive function `TwoTo`, and `MCTestToml` checks `TwoTo[n] = 2^n` for every width up to the model's u64 width (`TwoToIsPower`).

## Not modelled

- The LSP start and the CLI are pure I/O.
- The compiler, VMs, node and file checker are modelled only as sets of answers.
- `build_file_checker` and the filecheck language are abstracted to three classes of directives.
- Discovery and the harness are separate modules: `HarnessRun` takes the descriptions as a constant instead of composing with `TestToml`.
- `StructuralInterning` and `AbsSpec` hold for `TypeRegistry` as the spec describes it, because the registry code is not in this repository.

## Plan

1. Done: `IRConstant`, its runs, two findings, and the TypeOK/ShapeInv proofs.
2. Done: `HarnessRun` with the filters, the category arms and the deploy cache.
3. Done: `TestToml` (discovery and parsing) and the parse-versus-run finding.
4. Done: the type registry, its abstract spec, and the proved refinement.
5. Done: proofs of the driver's invariants (`HarnessRunProofs`) and of structural interning.
6. Next: compose `TestToml` with `HarnessRun`, so that discovered descriptions feed the loop, and check the filters over read_dir permutations.
7. Done: the finite-tree assumption for test_programs, and the proof of `DiscoveryExact` from it (`TestTomlProofs`).
8. Done: the proof of `EqMatchesSpec` (`IRConstantEqProofs`, through the rank invariant). Every property a passing run checks now has a theorem.
