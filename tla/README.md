# reharness: verification project

reharness extracts the register behaviour of a Linux driver from its C source
(a "RIS": which MMIO reads and writes each function makes, under which
conditions), generates three backends from it (a user-space harness, a
bare-metal program, a Linux module), checks them against oracles, has a
language model write a new driver, and accepts that driver only after it
compiled, booted in QEMU and, where possible, produced the MMIO trace the RIS
asks for. This directory holds TLA+ models of the parts where the order of
steps, stale files, iteration to a fixpoint, recursion or concurrent callbacks
decide whether the result is right, the TLC runs that check them, and TLAPS
proofs about the parts that must hold for every size.

Run a model: `tlc -workers 2 -config X.cfg M` (names in section 3); check the
proofs: `tlapm M.tla`.

## 1. Inventory

| Component | Source | State and operations | What makes it correct |
|---|---|---|---|
| End-to-end pipeline | `run_e2e.sh`, `tools/e2e_common.sh` | files handed from stage to stage (bundle, `.c`, `.ko`, serial log) and shell variables; stages preflight, extract, synth, compile loop, QEMU loop, trace loop | exit status 0 means text, module, boot and trace belong together; loops are bounded; every run ends |
| QEMU runner | `qemu_run.sh` | rootfs, initramfs, log; the guest's init, its watchdog, the host's timeout | the status says what the guest did |
| Trace matching | `tools/trace_match.py` | log lines cut into segments, a cursor over them, variants per module | a match means the trace realises the RIS |
| LLM bridge, post-processing | `tools/pi_synth.sh`, `synth.mjs`, `sanitize.py`, `instrument_mmio.py` | one call, text rewriting | not modelled (section 6) |
| Statement CFG and dominance | `extractor/control.py` 19-246 | recursive builder, worklist, sweeps to a fixpoint | edges are the flow of C; reachability, dominators, joins, back edges exact |
| AST model, path guards, control-flow accounting | `extractor/ast_model.py`, `control.py` 249-418 | frames of the statements around an access, guards left by branches that leave, a census of transfers that the RIS does not represent | when the census is complete the RIS makes the accesses of the source |
| Call summaries and inlining | `extractor/call_graph.py`, `wrappers.py`, `dataflow.py` (inlining), `formalize.py` (module choice), `accounting.py` | what each function's extraction holds, pass by pass; skipped helpers; modules | no foreign site, no lost site, fixpoint exact |
| Orchestration, cache, contexts, alias facts | `extractor/extractor.py`, `tu.py`, `compile_context.py`, `alias.py`, `cli.py` | cache keyed by path, mtime and configuration; modes "off", "auto", "required"; merging of units | no stale result; modes honoured; names unique |
| Subsystem summaries | `extractor/subsystem.py` | one list of operations per callback of a library such as gpio-mmio | the same accesses, results and shadows as the library |
| Generators | `generator/linux.py`, `common.py`, `harness.py`, `subsystem_runner.py`, others | probe, unwinding, remove, callback tables, locks; the C of operations; callback plans | balanced resources, no callback on a half-made device, no lost update |
| Oracles | `verification/gpio_mmio_source_oracle.py`, `subsystem_callback_oracle.py`, others | an interpreter of operations, a reference in its own words | what passes did what the library does |
| Metrics and readiness gates | `extractor/metrics.py` | counters, blockers, one gate per backend | "ready" never claims more than the evidence |
| `driver` command, matrices, paper tool | `extractor/cli.py`, `verification/run_*.py`, `tools/generate_paper_results.py` | a directory of files per driver, rows, reports | what is printed or accepted is what happened |
| Data flow, taint, MMIO names, macros, indirect calls, specification rules, path validation | `extractor/dataflow.py`, `taint.py`, `mmio.py`, `macros.py`, `indirect.py`, `spec*.py`, `smt.py` | text and tables, one pass, no state | not modelled (section 6) |

Interactions. `run_e2e.sh` calls the extractor through `run.sh bundle`, the
model through `pi_synth.sh`, `make` through `compile_once`, `qemu_run.sh`, and
`trace_match.py`; all of them communicate through files and exit statuses, some
of which are dropped (`| tail -1`, `|| true`). Inside the extractor,
`extractor.py` looks up its cache, reads each unit, calls `call_graph.py`,
which calls `dataflow.extract_function` for each function, once directly and
then with the results of the last pass; `formalize.py` turns the last
extraction into modules, `accounting.py` compares the modules with the source,
`control.py` adds CFG and census, `subsystem.py` adds synthesized callbacks.
`cli.py driver` hands the result to the generators and the oracles and to
`metrics.py`; the matrix runners start it once per case and see only its exit
status and its files.

Hard behaviour. Files and variables that outlive what they describe; statuses
nobody looks at; a guest, its watchdog and the host's timeout racing for the
log; fixpoints whose order is that of a Python set; recursion in call graphs;
goto into and out of nested statements; edits between the steps of an
extraction whose result is then cached; shadow words that every callback reads
and writes back; a device that is unbound while its callbacks run; readiness
computed in several formulas that have to agree; a process that dies between
two files. `PROJECT.json` lists the hazards one by one, at their lines.

## 2. Modules

| Module | Models | Kind |
|---|---|---|
| `Certification` | what the pipeline promises: a draft is certified only while evidence about that very draft is held | abstract specification |
| `E2EPipeline` | `run_e2e.sh` and `e2e_common.sh`, all stages and exits | implements `Certification` |
| `QemuRun` (`MCQemuRun`) | `qemu_run.sh` and the guest | concurrent: script and guest |
| `TraceMatch` (`MCTraceMatch`) | `trace_match.py` from log to verdict | algorithm, one action per line, variant or comparison |
| `SourceCfg` | `build` and goto resolution of `_function_cfg` | algorithm against a definition of C's flow |
| `FunctionRis` (`MCFunctionRis`) | extends `SourceCfg` by guards, nesting and the census | algorithm against an interpreter of C |
| `CfgDominance` | the worklist and the sweeps | algorithm against a definition by paths |
| `CfgAnalysis` (`MCCfgAnalysis`) | composes two `CfgDominance` (entry; exit over reversed edges), then idom, ipostdom, joins, back edges | composition |
| `CallSummaries` (`MCCallSummaries`) | both drivers of `call_graph.py`, module choice, accounting | algorithm against "what a call executes" |
| `ManifestMerge`, `Extraction` (`MCExtraction`) | names, constants and alias rows of several units; the process that extracts and caches while files are edited | pure operators; concurrent: extractor and editors |
| `LinuxBackend`, `LinuxDriver` (`MCLinuxDriver`) | what `linux.py` emits for a device; the life of that module in a kernel | pure operators; concurrent: driver core and callers |
| `GpioMmio` | what a gpio-mmio chip does | abstract specification |
| `GpioSummary`, `GpioCallbacks` | the synthesized operation lists and the interpreter that runs them; the chip driven through them | implements `GpioMmio` |
| `GpioHarness` (`MCGpioDriver`) | extends `GpioCallbacks` by the harness, its plan, its death, and both oracles | composition |
| `Readiness`, `DriverReport`, `Matrix` (`MCMatrix`) | gates and blockers; the `driver` command step by step; the four runners and the paper tool | pure operators; a process that may die; its readers |
| `CfgDominanceProofs`, `CfgAnalysisProofs`, `CallSummariesProofs`, `TraceMatchProofs`, `ExtractionProofs`, `LinuxDriverProofs`, `PipelineProofs`, `VerificationProofs` | | proofs (section 4); `PipelineProofs` is about `E2EPipeline` and `QemuRun`, `VerificationProofs` about `Matrix` and `GpioHarness` with what it extends and implements |

Operators whose name ends in `Mutant` are wrong versions of the definition that
follows them. No specification uses them; each shows what error a property
would catch.

### E2EPipeline
One action per stage or per half of a loop body (judge, ask the model, rebuild,
boot again), because between these the script can be interrupted and because
each reads files another wrote. A driver text is `[ver, q, follows]`: whether
it builds (`broken`), boots but fails (`faulty`) or can be accepted (`runs`),
and which revision of the bundle its trace follows, 0 for none. "Follows" means
`trace_match.py` answers 0; what that means is `TraceMatch`. The model's answer
is any text or none (`llm_write_c` leaves the file alone), and it may take a
second request to get it (`MaxRetries`). `qemu_run.sh` leaves
early without a `.ko` and then does not touch the log. `Interrupt` ends a run
anywhere; `Rerun` starts the script again over the files that are there, with
other options and possibly an edited driver. `opts.clean` says whether `make
clean` works in a run: where it may fail, `&&` skips `make` and the old `.ko`
decides. `Certification` is about the module on disk; that the module was built
from the text on disk holds in runs whose `make clean` works
(`AcceptedDriver`).

### QemuRun
The script's steps are those that touch a shared name; the guest's init is a
process of its own that may succeed, say nothing, oops and go on, or hang, at
each of insmod, exerciser and rmmod. `QemuEnds` stands for the three ways QEMU
stops (power-off, watchdog, timeout) and is possible at any time. Files are
inodes: `rm` drops a name, `>` truncates the file the name leads to. The log is
the set of marks the judge greps for; `kernel` stands for the boot lines that
contain "registered". `SuccessIsClean` is about drivers for which an exerciser or
a pattern of their own vouches; of the others `SuccessMeansBound` says the same,
and fails. The module admits several callers; the run has one,
because the files have fixed names (section 3, disagreements).

### TraceMatch
A request is what the files and the command line say: the log, the variants of
each module, the expected calls or the modules to check. Reading a line, taking
the next segment of a function, comparing one item of one variant are actions.
`Embeds` is the reference: an order-preserving choice of positions. Modules
whose only variant is empty are not loaded; `--formal-json` without
`--exercised-calls` always fails.

### SourceCfg, FunctionRis
`SourceCfg` is the recursive builder; its reference, `Flow`, says of each
statement where C continues from its place in the tree, with no recursion over
targets. `FunctionRis` gives each access the conditions of the statements
around it and those left over by earlier branches that leave, nests the
accesses by them as `formalize.py` does, and takes the census of `control.py`;
`Exec` is the reference, an interpreter of C over all values of the conditions.
Conditions are trees of variables, not text, but `negate` is what the code does
to the text (it takes off a leading `!`, whatever it applied to). Three kinds of
body make the RIS differ from the source: a condition of several parts that
begins with a negation, a goto around a return, and a loop whose body moves its
variable. They have configurations of their own (`GuardsDominate`, `JoinsMerge`,
`CountsAreProved`, all violated, section 3), and the run is over bodies without
them. Bodies of `do` are left out.

### CfgDominance, CfgAnalysis
`CfgDominance` starts from the edges. A sweep visits the blocks in any order,
as the iteration over a Python set does, and reads the sets other blocks have
at that moment, as the in-place code does. `CfgAnalysis` runs it forwards and
then over the reversed edges through `INSTANCE ... WITH`.

### CallSummaries
An operation is its call site. `Direct` is the first extraction, where wrapper
summaries stand in for bodies; `InlineOnce` is what a single source gets;
`InlineRound` is one pass over a manifest. `Executes(f)` is the reference: the
sites of the least set of functions closed under calls that holds f, where a
directly called callback counts as an entry point of its own (as
`dataflow.py` 1251-1258 decides). Indirect calls, framework names, argument
substitution and the order of operations are left out.

### Extraction, ManifestMerge
A call takes the time stamps of its files one after the other, looks up the
cache, reads and parses each unit in the context it finds then, has aliases
analysed and stores the result; an edit may come between any two steps and
gives a file a new time. A result is the contents it was made from. A context
comes from a compile database (`Database`) or from a build root. There are two
of these: parse and cache key use `repo/kernel/build` or
`REHARNESS_KERNEL_BUILD` (`Kbuild`, with the files `Cmd(s)`); the bitcode uses
the linux tree where neither is there (`BitcodeRoot`, the files `Tree(s)`), and
those are not in the key. `Fresh` therefore speaks of the context of a bitcode
where the build directory was there from the start, or where the parse did not
need it (`OneRoot`); what the code
and its documents say of the rest are `OneContext` and `BitcodeIsFresh`, which
fail. The tools may be missing, fail, or fail before they begin, in the script
that sets their environment. Of one source, the status is then "missing_tools",
"failed" or the "off" it started with (`AutoIsReported` fails); of several it is
"degraded" (`Reported`). Files appear and change but are not removed: the time of
an absent file is 0 whenever it was removed. Headers are not in the cache key,
so nothing is claimed about them, and `REHARNESS_KERNEL_BUILD` does not change
during a call or between calls, except that its directory may appear.
`Programs` says what units may define:
functions of one name, constants of one key, rows of SVF's symbol table. Module
names are assigned one function a step (`Name`), because each name depends on
those before; which group of equal names comes first is left open.

### LinuxBackend, LinuxDriver
A device is what its specification, its bindings and its source tell the
backend; `Device` says which of these occur together (a GPIO model is passed to
the PCI emitter only, an interrupt model only beside it, banks and clock tables
to the platform emitter). `Probe(d)` is the emitted probe as a list of steps with the labels
they jump to, `Wired` and `Defined` what the tables name and what has code.
`LinuxDriver` runs it: any acquisition may fail, a bound device may be unbound
while consumers, interrupt, clock users and an open file call it, and it may be
bound again. The kernel is external: devres releases in reverse order, releases
of a chip, an interrupt, a clock or a host wait for running calls,
`misc_deregister` does not wait for open files. A call is a list of sections,
each with a lock or none and a list of changes; a change is a read and a write
of one register, or of its shadow. `Calls` has one kind of call for each
emitter: the recovered GPIO model, the recovered interrupt model, interrupt
callbacks lowered with a lock, and callbacks emitted from a RIS, which take
none and replace a model's where both exist. `Locked(d, r)` are the registers
of which every call takes the lock.

### GpioMmio, GpioSummary, GpioCallbacks, GpioHarness
A word is the set of its lines that are 1. `GpioMmio` is the reference oracle's
own statement of the library: registers, `gpio_sdata`, `gpio_sdir`, one call
after another. `GpioSummary` holds the operation lists `subsystem.py`
synthesizes for a configuration, and `Step`, the meaning of an operation, in the
width of the access (oracle) or of `uint32_t` (generated C). `GpioCallbacks`
runs them an operation at a time and implements `GpioMmio` through `seen`, the
state a caller sees between calls; it has units: the variant a direction
selector chooses and the bank. `GpioHarness` executes the plan in the generated
program, which may have one wrong operation in its RIS or in its C and may die
anywhere, and judges it as both oracles do.

Left out of the gpio models: byte order, the sdhci and virtio plans, W1C
stores; a selector together with `UNREADABLE_DIR` (the summary reads the
register, `subsystem.py:785`, the reference its shadow,
`gpio_mmio_source_oracle.py:223`); fields that are assigned conditionally. A
driver without a probe is assumed not to occur: the harness would then run its
first function, the oracle none. `READ_OUTPUT_SET` without a set register gives
a chip without get callbacks, as in the code.

### Readiness, DriverReport, Matrix
`Readiness` is `metrics.py`: counters, blockers and the gates with evidence.
`DriverReport` is the `driver` command in seven steps; what compilers, programs
and oracles would answer is a set of faults `world`, and the process may die
between two steps or with a file half written. A program that dies is taken to
lose what it had buffered. `Matrix` is the runners over it, which read the
directory it leaves; `Leftovers` stands for what earlier runs left there (the
runners delete it first). The quality scores, the language-model gate and the
gates without evidence are left out, as is the build of the original driver in
the multi-source runner.

## 3. Runs

| Run | Bounds | Shows |
|---|---|---|
| `pipeline` | 2 runs of the script, 2 rounds of each loop, one or two requests in a round, `make clean` working or failing (1,099,037 states) | `AcceptedDriver`, `UntracedMeansMismatch`, `Termination`, and that the pipeline implements `Certification` |
| `qemu_run` | one caller, all profiles | `VerdictIsTrue`: the status is honest about oopses, about the end of init and, where an exerciser or a pattern of the driver vouches, about the bound driver; a script ends whatever its guest does |
| `cfg_analysis` | all CFGs of 5 blocks (3 inner, out-degree at most 2), all sweep orders, both directions | reachability and dominators exact; `ReadOffUnique`: idom and ipostdom unique, loops have one entry, joins complete; both analyses end |
| `call_summaries` | 3 functions, at most 2 sites each, every call relation, depth 2 | soundness, exact fixpoint, nothing lost without recursion, growth |
| `function_ris` | over 5,000 bodies of one or two statements and a tail: branches, cascades, loops, switches, one way out, at most one label | `RisIsSource`, `VariantsCover`, `CfgIsFlow` |
| `trace_match` | logs of up to 6 lines, 2 functions, 2 accesses, up to 2 expected calls | one pass finds a subsequence exactly when there is one; an OK is deserved; a FAIL of calls that each ran once is no false alarm |
| `linux_driver` | 8 devices, 2 consumers with a line each, registers clear or set (898,554 states) | balance, readiness before use, no lost update, value before direction, unbinding ends |
| `extraction` | 2 sources, 2 edits, 2 calls, all modes, with and without a build root (10,676,002 states) | `Fresh`, `ModesHonoured`, `MergeIsFaithful` |
| `gpio_driver` | words of 2 lines (`uint32_t` of 3), 86 configurations, 2 banks; harness for 9 of them, 3 with every single wrong operation | the summary implements gpio-mmio; what passes both oracles did what gpio-mmio does; what is right passes |
| `driver_report` | 2 cases, 27 drivers, one fault or two failed builds per run, 4 runners | `ReadyMeansChecked`, `PrintedIsTrue`, `AcceptedIsTrue` |

Two runs are expected to be violated and record where the code and its own
words disagree; each has an entry under "findings":

| Run | The words | What happens |
|---|---|---|
| `linux_driver_unmapped` | deterministic lifecycle of PCI devices (`paper/paper.tex:426`) | remove unmaps by hand before devres unregisters chip and interrupt, so a callback can run unmapped |
| `extraction_roots` | bitcode and parse use the same context (`alias.py:162`) | without a build directory the bitcode takes the linux tree as its build root, the parse does not |

Other disagreements have a property and a configuration as well, but no run of
the list: each of these ends in a counterexample within seconds. They mark
the limits of the properties that the runs check (third column).

| Configuration, property | The words, and what happens | What stops short of it |
|---|---|---|
| `MCExtractionTree`, `BitcodeIsFresh` | the `.cmd` times in the key prevent results of an old context (`docs/zero-shot-generalization-v1.md:43`); the `.cmd` files of the linux tree are not in it | `Fresh`: contexts of bitcode under `OneRoot` |
| `MCExtractionAuto`, `AutoIsReported` | auto mode reports a failure of the tools (`tests/test_extractor.py:2654`); a timeout before the `try` (`alias.py:544`) leaves the status "off" | `ModesHonoured`: "off" of several sources |
| `MCExtractionRequired`, `RequiredHasContext` | `required` must fail without a context (`PROMPT.md:17`); a `.cmd` file that cannot be parsed falls back in silence (`compile_context.py:208`) | `Fresh`: what `Refused` says, no file at all |
| `MCExtractionRows`, `NamedRowsStay` | only rows without a file are looked up by line (`alias.py:447`); so is a row that names its file, where that assigns nothing on the line | `MergeIsFaithful`: rows of lines their own source assigns on |
| `MCQemuRunProbed`, `SuccessMeansBound` | success means that the probe succeeded (`qemu_run.sh:158`); boot lines of the kernel match the pattern "registered" | `VerdictIsTrue`: an exerciser or another pattern |
| `MCFunctionRisNegated`, `GuardsDominate` | guards dominate what follows a transfer (`ast_model.py:446`); `negate` of `!p && q` is `p && q` | `RisIsSource`: bodies without such conditions |
| `MCFunctionRisJoin`, `JoinsMerge` | paths merge again at the label of a forward goto (`ast_model.py:451`); the guard of a return that the goto avoids has no end there | `RisIsSource`: bodies with one way out |
| `MCFunctionRisMoved`, `CountsAreProved` | the count of a loop is proved (`formalize.py:158`); the body is not looked at and may move the variable | `RisIsSource`: bodies that do not |

Why the bounds are enough. Two runs of the pipeline are what it takes for files
of one run to meet another's; two rounds of a loop are what it takes for a
round to follow a round. Five blocks hold a loop with a branch in it,
irreducible loops (two entries) and blocks that do not reach the exit. Three
functions hold a chain longer than the inlining of a single source reaches,
mutual recursion beside a caller, and with depth 2 both passes that settle and
passes that are cut off. Two branches in a row and a branch in a branch are
what it takes for guards to be combined. Two calls of the extractor with two
edits let the first call race with an edit and the second meet what it stored;
that program is tried in full only after both sources were edited.
Two consumers are what it takes to lose an update, and two lines to see a
neighbour's bit change. Two cases let one row be right and the other wrong, and
give a blocker two drivers to be common to (`MinDrivers` is 3 in the code).
Where the bound is a number, the proofs below do without it.

Fairness. The pipeline's steps, the sweeps, the inlining passes and the matcher
are sequential programs: weak fairness of the next step says that they go on
while they can. External commands return: `timeout 600` bounds the model,
`timeout` QEMU, and of a guest nothing is assumed. Interruptions and restarts
are not fair. In `QemuRun` only the script is fair, whose timeout is
`QemuEnds`. In `LinuxDriver` the driver core goes on and a callback that has
begun ends; nobody has to bind, unbind or call.

Deadlock checking is off where a finished run is the end of the behaviour.

### Further disagreements and limits

Found while modelling; the properties above are stated so that they hold beside
them.

Pipeline and QEMU:
- `run_e2e.sh:330` announces "end-to-end success + trace consistency passed",
  but a missing bundle skips the comparison (`run_e2e.sh:283`) and still counts
  as success: `AcceptedDriver` speaks of drivers with a bundle.
- The last round of the trace loop rebuilds a driver and leaves without judging
  it; and round n judges the boot of the QEMU stage again.
- `qemu_run.sh:51` leaves before it removes its log, so after a repair that
  does not build, the error `run_e2e.sh:246` quotes is that of an earlier boot.
- `compile_once`, which "returns 0 on success" (`e2e_common.sh:91`), returns 0
  for an old `.ko` when `make clean` fails.
- `e2e_common.sh:6` calls its temporary files isolated, but two runs share
  rootfs, initramfs and log (`qemu_run.sh:48`).

Extraction:
- `control.py` does not build the body of a `do`, nor a statement after a case
  label on its line; such bodies are not among those of `function_ris`.
- `ast_model.py` ignores that a case may fall through to the next and that labels
  may be stacked; nor does it see a conditional break in a case, a goto in a loop
  or guards over what is not a parameter.
- The expression grammar of `formal.py` (from line 71) is not that of C:
  `a*b/c` becomes `a*(b/c)`, `a<<8|b` becomes `a<<(8|b)`.
- The merge of indirect targets forgets a conflict (`call_graph.py:154`): a
  third unit's target is taken again. Functions that only call each other are
  in no module (`call_graph.py:241`); `NothingIsLost` excludes recursion. A
  skipped function's operations reach its callers by one level of inlining
  only, where there is a single source.
- Even with one build root the bitcode resolves a context of its own
  (`alias.py:166`), so it may differ from the parse's when files change during a
  call; `Fresh` is stated for calls during which no file changed.
- A struct that two units define differently is the first one, without a
  warning (`extractor.py:159`), unlike a constant, a callback or a macro's number.

Generators and oracles:
- Callbacks emitted from a RIS take no lock; `NoLostUpdate` is about those that
  do. The interrupt-mask shadow of `linux.py:2196` starts at 0 whatever the
  register holds: until a line is told, its bit is "any".
- A chip with a narrow `dirin` register computes its shadow in 32 bits in C and
  in the access width in the oracle, which then reports a right program;
  `RightPasses` excludes it.
- With evidence the Linux gate no longer asks for proved loops
  (`metrics.py:459`; without evidence it does, 384), although `metrics.py:390`
  says the evidence tightens readiness: `ReadyMeansChecked` says nothing of
  loops in the Linux backend. A failed compile raises no blocker.
- The four oracle blockers have no category in the matrix; and a zero-shot
  matrix in which every driver is ready is not accepted, because acceptance
  asks for a common blocker.
- "All backends compile" of the holdout run is vacuous on the first
  `analysis.json`; only the missing `score.txt` stops the run
  (`ScoreOptionalMutant`). Run by hand twice in one directory, the `driver`
  command leaves stale compile logs; the runners delete them first
  (`KeptMutant`).

## 4. Proofs

TLAPS checks the following for every value of the constants, under the named
assumptions of the modules.

- `PipelineProofs`: `TypeCorrect`; `BudgetKept` (by an invariant that
  bounds the requests by stage and round: one to begin with and at most two in a
  round, but none in the two rounds in which the first two loops succeed); `UntracedKept`;
  `AcceptedDriverKept`; and `PipelineCertifies`, the refinement. `KeptInv` and
  `DriverInv` say what text the module, the log and the saved log are about in
  each stage; `AcceptedDriver` itself speaks of the end only and is not
  inductive. And of `QemuRun`: `VerdictOfOneIsTrue`, for
  every set of profiles, of a script that has rootfs, initramfs and log to itself
  (the hypothesis `Caller = {d}`; with two callers it does not hold, section 3).
  Like the run it is about a bound driver only where an exerciser or a pattern
  of the driver's own vouches for it.
  `Truthful` says what the lines of the log vouch for, `Prepared` that the image
  that is booted is the caller's own.
- `CfgDominanceProofs`: `TypeCorrect`, `ReachIsExact`, `DomIsExact`,
  `DomOnlyShrinks`, for every finite or infinite graph and every order of the
  sweeps. `ReachInv` says that the worklist leaves no successor behind;
  `DomInv` that no dominator was ever removed; `SweepInv` that blocks this
  sweep has passed satisfy their equation unless something changed since. At
  the end all equations hold, and blocks whose sets lack d form a region that
  shows d not to dominate. None of this needs fairness (`Safe`), and it follows
  that the dominators of a block are in line (`InLine`): two of them that were
  not, or two blocks that dominate each other, would leave regions whose union,
  or intersection, shows the block unreachable.
- `CfgAnalysisProofs`: `ReadOffIsUnique`, `PostdominatorsAreExact`, for every
  finite set of blocks (`FiniteAssumption`: cardinalities are compared). Both
  analyses are instances of `CfgDominanceProofs`, the backward one over the
  reversed edges, and each runs as if alone (`ForwardSafe`, `BackwardSafe`). In
  sets that are in line the candidate with the most dominators has all other
  candidates among its own, so the tie `max()` breaks silently does not occur.
- `CallSummariesProofs`: `TypeCorrect`, `ExtractionIsSound`, `ExtractionGrows`,
  `SettledExtraction`, `NoSiteIsLost`, for every finite set of functions
  (`FuncAssumption`), sites and depth.
  `RoundIsPass` shows that a pass takes in exactly what the callees hold,
  whether by body, by summary or not at all; `GrowInv` says that this is
  inductive.
  `NoSiteIsLost` climbs from a skipped function to a caller that is not
  skipped: without recursion the calls between the finitely many functions are
  well founded, so the climb ends.
- `TraceMatchProofs`: `TypeCorrect`, `SubsequenceExact`, `VerdictSound`,
  `FailureIsReal`, for every log, set of variants and list of calls. The invariant of the match says
  that the items found so far are embedded before the position in the trace,
  and that no embedding of one more item ends earlier (the greedy choice is the
  leftmost); the invariant of the calls that the segments given to them are in
  order and before the cursor.
- `VerificationProofs`: `ReadyIsChecked`, `PaperIsTrue`, `AcceptanceIsTrue`, for
  every driver, fault set, number of cases and leftover directory. `DriverInv`
  says what evidence, logs and files there are at each step and after a death:
  nothing is measured or scored before all evidence and every log is there;
  `RowInv` what a row read from such a directory can claim.
  Of the reference chip `GpioMmio`, which `GpioCallbacks` instantiates:
  `ChipWords`, `ShadowNeverStale`. One lemma per kind of write says which
  register and which shadow it changes; `ChipInv` adds that the registers hold
  the seed until the chip is set up.
  Of the synthesized callbacks: `CallbacksImplement`, the refinement
  (`Implements`), and through it `CallbacksKeepShadows`. A call of the reference
  is one step and a callback several operations, so most of the argument is
  about lists of operations. `Mirrors` relates the memory of a callback to a
  state in the middle of a call of the reference; one lemma for each piece of a
  synthesized body says that it leads from the state mirrored before to the one
  the reference reaches (`Leads`), and for each getter that it ends with the
  reference's result (`Ends`, `Obeys`). The inductive invariant `CallbacksInv`
  says that what is left of the running callback leads from where it is to what
  the reference answers to the whole call; operations are then stutters and the
  return is the step. All of this is for words of any width, every accepted
  configuration, unit, call and content of the registers, under `SeedOK` and
  `ChipsOK` (what a seed and a configuration are), and `SelectorsReadable`: no
  direction selector together with `UNREADABLE_DIR`, where the code and its
  oracle differ (section 2). `MCGpioDriver` assumes the three of its instance,
  so TLC evaluates them. In a run of the harness a caller sees nothing
  (`seen` stands still), so there the refinement says nothing; about it is
  `PassedWereRight` (`PassedIsReference`), which needs none of the three: it
  follows from what both oracles compare, and from `Running`, which ties the
  verdict to what was printed when the program ended or died. The other
  direction is `RightProgramsPass` (`RightPasses`): a right program that runs to
  its end is passed. The C computes in 32-bit words and takes a variant from the
  variables of the callback, the interpreter computes in words of the access and
  looks in the state first; `Plain` says which operations the setup and the
  callbacks of such a chip are made of, `Narrow` that no shadow or variable
  holds a word wider than an access, and `NarrowStep` that on such a memory
  either does the same with such an operation and leaves such a memory.
  `PlanFollows` takes the oracle's interpreter through the plan, call by call,
  from a state of the reference to the next (by `CallbackObeys`, the lemma of the
  refinement), so what it expects is what the reference does, for every unit.
  The inductive invariant `RightInv` says of the running program that what is
  left of a call leads to the memory the oracle leaves, and that what is printed
  so far is what it expects. Its hypotheses are those of the refinement, and
  `PlanAssumption`: an access is wide enough for the lines 0 and 1 of the plan.
  Like the run, it leaves out chips with a readable `dirin` register narrower
  than 32 bits, whose right programs may be rejected (section 2). Inductions over
  the positions of a list go through a least counterexample (`Counting`), which
  the library's well-founded order on the naturals provides.
- `ExtractionProofs`: `CacheIsFresh`, `ModesAlwaysHonoured`,
  `MergesAreFaithful`, for every finite set of
  sources, contents and programs, and any number of calls and of edits between
  any two steps. `Fresh` speaks of the answer only; the invariant behind it is
  about every key and result, in the cache or of the running call: where a
  recorded time is still the file's time, the result is from what the file
  contains now (`Fits`, `ToolsFit`). An edit takes a time that no key holds
  (`Bounded`), so it can make this vacuous but not false; and while the files
  are calm, the key of the running call says what they are (`Current`). The
  context of a bitcode is tied to its key only under `OneRoot`, which an edit
  that leaves the key can make false but not true, and the status "off" of a
  single source says nothing: `OneContext`, `BitcodeIsFresh` and
  `AutoIsReported` fail, so no more can be proved.
  `MergesAreFaithful` is about units that define any number of functions,
  constants and rows (`ProgramsAssumption` says only what these are); of the rows
  it covers those from a line on which their own source assigns. `MergeInv`
  says that whatever has a module name has it alone; that the loop over
  `base__2`, `base__3`, ... always comes to a free name is a pigeonhole argument,
  for which numerals have to be different for different numbers
  (`NumeralsDiffer`, the theorem's hypothesis: the prover knows nothing of
  `ToString`).
- `LinuxDriverProofs`: `LifecycleBalanced`, `CallbacksMeetReadyDevices`,
  `TablesAreDefined`, `UpdatesAreKept`, `ValuesComeFirst`, for every device the
  backend can generate for (`DeviceAssumption`), any number of lines and of
  consumers that own disjoint lines (`ConsumerAssumption`), and registers that
  hold anything (`RegistersAssumption`). The probes differ in what they leave
  out, not in the order: `Rank` gives every thing a probe acquires or does its
  place, and the lemmas about `Probe` say that ranks rise along it and that the
  code behind each label releases just what the probe itself has acquired until
  there. On that rest `CoreInv` (what is held is with devres, in order, or still
  to be undone), `ReadyInv` and `MapInv` (what a callback uses is made before
  its registration and there until that is released) and `CallInv` (a running
  call keeps its registration). `NoLostUpdate` speaks of lines between calls and
  is not inductive: `ToldInv` says that a consumer still wants what it has yet
  to write, `HwInv` that what nobody has yet to write is in the register,
  `ShadowInv` that it is in the shadow once that is loaded, `ValInv` that what
  is about to be written is the register with the change made, and `LockInv`
  that whoever is in a locked section has the lock, which is what makes the
  others stable. `ValueBeforeDirection` needs `SyncInv` besides: a loaded shadow
  differs from its register in what is being written only.

Only model-checked: everything about liveness (termination of runs, sweeps,
scripts, matches; `Unbinds`), because fairness and ENABLED are beyond the
prover; and `SourceCfg` and `FunctionRis`, whose builder and references are
recursive operators over syntax trees (`RisIsSource`, `VariantsCover`,
`CfgIsFlow`).

## 5. What would come next

The drain loop of `formalize.py` against a device that raises bits meanwhile;
the merge of indirect targets over units; the sdhci and virtio summaries
against their oracles, as for gpio; the bare-metal files around the operations;
a refinement from `TraceMatch` to the trace stage of `E2EPipeline`.

## 6. Not modelled

The text of prompts, of generated C and of reports; libclang, LLVM, SVF and the
SMT solver; the rules that infer device specifications, taint, MMIO names and
macros, which map text to data without state; the drivers' own code;
experiments, papers, example drivers. What the language model, the compiler and
the guest do is left open to every outcome the scripts can observe.
`dataflow.py` beyond its inlining step tracks expression texts through one
forward pass; a model of it would be a transliteration. The older runners are
superseded by `run_e2e.sh`.
