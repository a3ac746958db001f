# Verification of PCIT-CPP

TLA+ models of two parts of PCIT-CPP. The first is its concurrent core: how the Panther compiler
hands work to its threads, how the symbols of a program wait for each other while it is
analysed, and how a source file that is imported in the middle of that analysis is loaded once.
The second is the path of a function body through the compiler: how the analyzer tracks which
code is dead and which variables hold a value, how the statements are lowered to basic blocks
with their defers and deletes, and whether the blocks do what the statements say. TLC checks
the models on small instances; TLAPS proves the main safety properties for every number of
threads, every program and every function body.

Paths are relative to the repository: `core` is `PCIT_core`, `Panther` the front end, `PIR` the
intermediate representation. A module names what it models as the code does (`get_task`,
`signal_task_failed`, `waiting_for_lock`, ...).

## 1. The system

| Component | State | Operations | Who calls it |
|---|---|---|---|
| `core::ThreadQueue` | deque of tasks, spin lock, workers with a state each, `task_failed`, number of running workers | `startup`, `addTask`, `addPriorityTask`, `isWorking`, `waitUntilDoneWorking`, `shutdown`, the worker loop | `Context::analyzeSemantics`; the workers themselves through `add_task_to_work_manager` |
| `core::ThreadPool` | one interval of task indices and a mode per worker; counters of running, working and stealing workers | `startup`, `work`, `waitUntilDoneWorking`, `shutdown`, the worker loop with stealing | the phases of `Context` before the analysis; `pir::PassManager` |
| `core::SingleThreadedWorkQueue` | a deque | `addTask`, `addPriorityTask`, `run` | the single-threaded mode of the same callers |
| `SymbolProc`, `SymbolProcManager` | per symbol: status, instruction index, edges at both ends, done flags; counters of what is not done and what is suspended | `waitOn...IfNeeded`, `propagate_finished_...`, `setStatus...`, `suspend`, `unsuspendIfNeeded`, `allProcsDone` | `SemanticAnalyzer`, in the workers |
| `SymbolProcBuilder` | none that survives a source | AST to lists of instructions | `Context`, `lookupSourceID` |
| `SemanticAnalyzer` | the symbol at hand | `analyze`, one function per instruction | the worker function |
| `Context` | configuration, phases, error count, work manager, loads in progress | `analyzeSemantics`, `lookupSourceID`, `lookupCFamilySourceID`, ... | the tools; the analyzer |
| `SourceManager` | the Sources, in an allocator with stable addresses | create, look a path up | `Context` |
| scope levels (`ScopeLevel`, `StmtBlock`) | per open scope: counts of sub-scopes, of those that are terminated, to a label, to a loop; the block's terminated kind; value states of variables | `addSubScope`, `setSubScopeTerminated`, `resetSubScopes`, `setIdentValueState...` | the analyzer's instructions for statements |
| `SemaToPIR` | scope levels with defers, lifetimes and jump targets; the target block | `lower_stmt`, `output_defers_for_scope_level` | the analyzer, when a function is defined |
| `TypeManager`, sema buffer | the analysed program | interning, creation, lookup | the analyzer |
| tokenizer, parser, diagnostics | one source each | sequential | `Context` |
| PIR, passes, `ExecutionEngine`, JIT, LLVM and Clang interfaces, linker front end | the lowered program | sequential translations, the interpreter of compile-time code | the analyzer, the tools |

`PROJECT.json` lists them all with their status.

How they interact. `Context::analyzeSemantics` puts every symbol that waits for nothing into a
`ThreadQueue`, starts its workers and waits. A worker takes a symbol and runs its instructions.
An instruction that needs another symbol's declaration, definition or PIR adds an edge at both
ends and gives the worker back; the symbol that finishes removes the edges and puts its waiters
back into the queue, which thereby grows from inside its own workers. An `@import` of a new
file runs tokenizer, parser and builder in the worker and queues the new symbols. When the queue
is idle `analyzeSemantics` shuts it down and compares two counters to tell success from a stall.

What is hard. The owner has to tell an idle queue from one whose last worker is about to add
tasks. Every edge has two ends with a lock each, and is added while the other end may finish.
A symbol goes to sleep while others wake it. Two symbols may begin to wait for each other at
once. Workers spin for what other workers do, who may fail. Errors drop tasks in the middle of
all this.

A function body is sequential, and hard for another reason: three parts of the compiler have to
draw the same conclusions from it. Some thirty instructions of the analyzer keep counters that
say whether the code after a statement is dead. The lowering trusts the result, block by block,
when it decides whether to emit a jump, defers or nothing. The analyzer's value states decide
whether a variable may be used; the lowering keeps its own account of lifetimes to decide what
to delete. A test has one body; here a small nesting of statements makes millions. What each
component has to guarantee:

- `ThreadQueue`: a task is neither lost nor run twice; waits and shutdown end; nothing touches
  the queue afterwards; "done" means done.
- `ThreadPool`: stealing never duplicates or loses a task; the count of working threads is exact.
- symbols: one worker at a time; both ends of an edge agree; no lost wakeup; no undetected
  cycle and no false one; the analysis comes to rest, with all symbols done or an error.
- loading: one Source per file, the same answer for every importer, every import comes back,
  every symbol of the new Source is queued, once.
- scope levels: the counts of sub-scopes fit; a block is terminated exactly if control cannot
  reach its end; a state a variable has on some paths is not taken for that of all.
- lowering: every block ends once; the function does what its statements say, defers, deletes
  and iterators included, for every exit of every scope.
- types: equal types get one ID; layouts terminate. Names mean what their nearest visible
  declaration says. Passes: each statement is visited, also when a pass inserts some.

The hazards of the code, with their lines and the properties that address them, are in
`PROJECT.json`.

## 2. The modules

| Module | What it is |
|---|---|
| `ThreadQueue` | `core::ThreadQueue` and the loop of `Context::analyzeSemantics` that owns it; it implements `WorkQueue` |
| `WorkQueue` | what a work manager promises: an abstract specification |
| `MCThreadQueue` | instances |
| `ThreadQueueProofs` | theorems |
| `ThreadPool`, `MCThreadPool` | `core::ThreadPool` and its two kinds of caller |
| `ThreadPoolProofs` | theorems |
| `SymbolProcs`, `MCSymbolProcs` | the scheduling of symbols: `SymbolProc`, `analyze()`, propagation |
| `SymbolProcsProofs`, `SymbolProcsOrderProofs` | theorems |
| `SourceLoading`, `MCSourceLoading` | `Context::lookupSourceID` and the release of symbols under a `when` |
| `SourceLoadingProofs` | theorems |
| `Statements` | the scope levels of a function body in the analyzer |
| `StatementsProofs` | theorems |
| `Paths` | `Statements` with a record of the paths of control through the body |
| `PathsProofs` | theorems |
| `Lowering` | `SemaToPIR::lower_stmt` as operators, and the meaning of statements as a reference |
| `ControlFlow`, `MCControlFlow` | composes them: a body is analysed, lowered and executed |
| `ValueStates` | `Statements` with the value states of variables |
| `ValuePaths` | `ValueStates` beside the paths of `Paths` |
| `ValuePathsProofs` | theorem |
| `Lifetimes`, `MCLifetimes` | composes it with `ControlFlow`: what becomes of the variables at run time |

In the concurrent ones a step is one access to an atomic or one critical section; a critical section
that reads what is changed outside its lock is several steps. Between two steps any other
thread may run, so a value read in one step may be stale in the next. All models are
sequentially consistent: the atomics of the code use the default order.

Definitions whose comment begins with "Mistake" are not part of a specification. Each is a
plausible wrong version of the definition after it. `PROJECT.json` pairs it with the property
that it breaks ("mutants"): every property has been seen to fail for an error in the code.

### ThreadQueue

`tasks` is the deque, front first: `addTask` pushes at the front, `addPriorityTask` at the back,
`get_task` takes from the back. The worker loop is `Top` (stop token), `Check` (state CHECKING),
`PeekEmpty`/`PeekNonEmpty` (the read of `tasks.empty()` without the lock, a race that may see
either), `Take`/`TakeNone` (under the lock), `GotTask` (state WORKING), `Spawn`/`Finish`/`Fail`
(the work function, which adds tasks while it runs), `signal_task_failed`, `Exit`,
`ClearWorkers`. The owner's steps are those of `analyzeSemantics`: add the first tasks, start
the workers one by one, `waitUntilDoneWorking` (`isWorking`'s two loops over the workers, the
second with the lock held over several steps), once more if it looks as if work is left,
`shutdown`. `InitState` is there because `Worker::thread` is initialised before
`Worker::working_state`: the member's initial value may be stored after the thread has begun.

### ThreadPool

A worker's `mode` has the five values of the code; `current_index` and `end_index` are its
interval. `Work`, `start_working`, `SetMax`, `Go` are `work()`; the owner then spins on
`num_working`. Counters are modulo `Wrap`, as the `uint32_t` of the code are modulo 2^32: one
signal too many would make the count wrap and the wait hang. `Context` gives a pool one batch;
`pir::PassManager` gives it one per pass group and stops at a failing one (`NextBatch`).
No work function in the repository fails at present (each reports its error elsewhere and
returns success), so runs with failing tasks are about the class.

What the class does not promise: a thief whose own task fails calls `task_errored`, is not
counted any more, and goes on stealing (`ThreadPool.hpp:236-280`); a caller that gave the pool
another batch then would meet it. No caller does, so `NobodyRunsAfterWait` is claimed of batches
without failure. Nor does it promise that the result is right: `task_errored` lets `num_working`
fall before `errored` is set (`ThreadPool.hpp:172-175`), so the last worker's failure may come too
late for `waitUntilDoneWorking`, which then returns success. The instance has such behaviours (TLC
refutes `owner = "returned" /\ result => ~any_failed`), and no property speaks of them: the three
that could, `AllRanOnSuccess`, `NobodyRunsAfterWait` and `WaitReturns`, are about tasks that do not
fail or about the wait alone. As no comment or test promises the contrary, it is no finding either.

### SymbolProcs

`Program[p]` is the list of instructions the builder makes for `p`, abstracted to what the
scheduling sees. `wait` loops over what it waits on; `finish` sets done flags and releases the
waiters of these kinds; `members` are the edges a struct adds to its members without a lock;
`pause` and `suspend` are the Results of that name; `select` unsuspends a template function,
`spawn` instantiates one; `error` and `no_report` are the two ways to fail. `waiting_for` and
`waited_on_by` are bags of edges, since the code's lists may hold one twice. A worker's `pc`
tells where it is in `analyze()`: `check` and `push` are the look at the done flag without and
with the lock, `release` the removal of edges one by one, `put` and `cas` the two reads of the
waiter's status before it is queued. The work manager is a bag: `ThreadQueue` and `WorkQueue`
are about the order.

Merged into one step each: the search for a cycle (`detect_circular_dependency`, a walk under
changing locks in the code), `unsuspendIfNeeded` with its counter and the queueing after it, and
the creation of an instantiation.

### SourceLoading

`Take` and `Finish` stand for the analysis of a global symbol whose instructions are imports;
the rest is `lookupSourceID` statement by statement: `LookUp`, `Claim` (one critical section),
for the loader `Exists`, `Load`, `Build`, `Erase`, `RecordFailedLoad`, then `Look`/`SetInQueue` per
symbol and `Ready`; for the others `WaitFailed`, `WaitLookUp`, `WaitReady`. A spin that waits for
one condition is a step that is enabled when it holds. `path_after_move` is the path after
`std::move(file_path)`: empty once the Source has been created. `current_dynamic_file_load_failed`
keeps the first error of a path. `is_ready_for_sema` is a plain `bool` read while another thread
writes it; the model lets a spinning reader see the value. Errors are assumed not to reach the
limit at which the queue is cleared (`SymbolProcs` is about that). Files do not change
meanwhile.

### Statements

The environment chooses the statements one by one, so the reachable states are the function
bodies within the bounds. An action is an instruction: those of simple statements append to the
innermost block, `Begin...` opens a scope level (`push_scope_level`), the others close one
(`CloseWith`: `pop_scope_level`, then `end_sub_scopes` on the parent; `Reopen` where the next
block of the same statement follows). `scopes` holds the counts of each `ScopeLevel` and its
block's `TerminatedKind`, `bodies` the statements so far, `subscopes` the stack of that name.
`EndSubScopesAt` is `end_sub_scopes` as it is, with its label count that `resetSubScopes` leaves.
The phase is "rejected" when the analyzer emits an error and "crashed" when a debug assertion
fails. A call of a `#noReturn` function does to its level what `unreachable` does.

That no assertion of the analyzer fails (the first half of `NoAssertFails`; the second, `code.ok`,
is about the lowering) is claimed outside the corner `labelThrice`. The corner is stated by what the
body does, a third label-terminated sub-scope of one parent, and not by the assertion, so the claim
is one: a sub-scope that `AddSubScope` forgets, say, ends in "crashed".

`CornerNames` lists the constructs the code mishandles (see Findings). A body contains one
only if `Corners` names it, so that the passing runs say: outside of these, all is well; each
corner is a disjunct of a guard (`CornerOK`) beside the instruction it concerns.

### Paths

What the analyzer concludes from its counters is compared with the paths of control that the body
has. `paths` is a history variable beside those of `Statements`: for each open level the
environments (which variables there are, and the state of each) in which control reaches the end of the block so far,
those in which it leaves a closed block of the open statement, and the jumps that are on their way
to a label. `Follow` is a conjunct beside every instruction. It reads off the change of the levels
what kind of step it was (a statement, a level opened, closed or reopened, the end of a switch), and
there is exactly one for each change, so it restricts no behaviour. This is a reference, written
from what the statements mean and not from the code: a loop may run no times, a `try` may succeed,
a partial switch may take none of its cases, a block expression is left by labelled returns only.

### Lowering

`h` is the state of `SemaToPIR` and its `InstrHandler`: the blocks, the target block, the scope
levels with defers, jump targets and lifetimes, and whether every assertion held. `LowerStmt`
follows `lower_stmt` case by case and in its order (which block is created when, what is emitted
into which), `OutputDefers` is `output_defers_for_scope_level`, `IsAlive` the search for a
variable's lifetime in the levels. An instruction without effect on control is an event that
carries the id of its statement. Of an expression only a discarded block expression is left.

The second half is the reference and no translation: it runs the statements themselves
(`RunStmt`), with a signal for each way to leave a scope, deferred actions on a list of their
own, and loops by unrolling. It takes the outcomes of conditions from outside, as the execution
of the lowered blocks does; `SameBehaviour` compares the two.

### ControlFlow

`Analyze` is an instruction of `Statements` with its `Follow`, `Lower` the whole lowering in one step, `RunBlock`
one block of the lowered function up to its terminator, with every outcome of a condition: the
part of the interpreter's `run_step` that sees control. An execution is cut after `MaxChoices`
conditions.

### ValueStates, ValuePaths, Lifetimes

`values` holds for each level the `ValueStateInfo`s: a `DeclInfo` where the variable is
declared, a `ModifyInfo` in levels inside that change it. `FromSubScope` and `Disagree` are
`setIdentValueStateFromSubScope`, `Undetermined` and `EndValues` the loop of `end_sub_scopes`,
`Seen` and `StateOf` the lookup, with the wrapping `scope_level_index` of the code. `Declare`,
`Use`, `Move`, `Assign`, `Delete` are the instructions with their checks; the instructions of
`Statements` are used as they are. `handedOn` remembers whether a scope that reached its end has
changed an outer variable (see Findings).

`ValuePaths` takes each instruction of `ValueStates` with its `Follow`, and compares the two
accounts: the one state the analyzer has for a variable, and those the variable has in the
environments of all paths. `Follow` walks a loop's body once; `repeats` records whether every loop
came back to its condition in environments in which control had come to it at first, and only then
do the environments stand for all turns.

`Lifetimes` lowers and runs such a body as `ControlFlow` does. The lowering is told of changes by
LIFETIME statements (`SetAlive`), and `AtRunTime` reads off the events which variable holds a
value. `Lifetimes` is a module apart because `Lowering` is recursive, so that nothing can be proved
in a module that uses it.

## 3. What is checked

`thread_pool` takes three workers, the other runs with workers two. `CHECK_DEADLOCK FALSE`
everywhere: the programs end, and a terminated state has no step; that they do not end early is
what the liveness properties and `NoStall`, `LeftForAReason`, `AllAnalyzed` say. A function body
ends in an execution that has an outcome, or in a body cut by the bounds.

| Run | Instance | Shows |
|---|---|---|
| `thread_queue` | 2 workers, 4 tasks: 3 at first, one spawned, two by priority, two may fail; 39,530 states | `OnePlace`, `ClearedOnlyOnFailureOrShutdown`, `QuietOnceNotRunning`; implements `WorkQueue`; `EveryTaskSettles`, `WaitReturns`, `ShutdownReturns` |
| `thread_queue_early_return` | 3 tasks | finding 1 |
| `thread_pool` | 3 workers, batches of 1 and 3 tasks, one may fail; 530,732 states | two thieves at one victim: `AtMostOnce`, `AllRanOnSuccess`, `NumWorkingExact`, `NobodyRunsAfterWait`, both waits end |
| `symbol_procs` | struct with a member, template function, two callers; 474,238 states | `OneRunner`, `EdgesMatch`, `NoEdgeToFinished`, `NoLostWakeup`, `SuspendedUnwanted`, `NoStall`, `NoFalseError` |
| `symbol_procs_cycle` | two real cycles through one symbol, a failing symbol, a waiter, a silent failure; two or three errors of which the third is too many; 196,388 states | `NoWaitCycle`, `LeftForAReason`, `ComesToRest` although tasks are dropped and the queue is cleared |
| `symbol_procs_select` | a template function and a caller | finding 2 |
| `source_loading` | a source of seven symbols, a file that imports it back, a missing and an unreadable file, an empty path, nested `when`s; both compiler modes; 86,052 states | `LoadedOnce`, `OneAnswer`, `AllAnalyzed`, `ImportReturns` |
| `source_loading_broken` | two importers of a file with a syntax error | finding 3 |
| `source_loading_when` | two importers of a file with a `when` | finding 4 |
| `control_flow` | bodies of up to 4 statements of 16 kinds, nested 3 deep in the function, 3 conditions per execution; 3,517,334 states | `SubScopesCounted`, `ValueFunctionsEnd`, `NoAssertFails`, `BlocksEndOnce`, `SameBehaviour` |
| `scope_termination` | bodies of 4 kinds with the loop corner | finding 5 |
| `value_states` | bodies of up to 5 statements of 20 kinds, 2 conditions per execution; 1,011,532 states | `ChangesCounted`, `UsesHoldAtRunTime`, `DeletedOnce`; `UsesHoldOnEveryPath`, with the paths taken from the statements instead of the lowered blocks |

Why the bounds are enough to be of interest. Every race found here needs two threads; the third
worker of the pool lets two thieves meet. Four tasks let a deque hold both kinds while both
workers hold one. A batch of one task is smaller than the pool, so some workers have no interval;
in one of three, two workers that are done steal from the third. The symbol programs hold every kind of instruction, an
edge in every kind of dependency, and a symbol with several waiters that itself waits. In
`source_loading` a file is met by its loader, by one who waits, by one who finds it half built and
by one who comes after. Counters are bounded by the programs, which are finite; `Wrap` is the one
artificial bound, and larger than the number of workers, as 2^32 is.

For function bodies the bounds are `MaxStmts` (per kind: a kind that opens a level comes early
enough for something to follow in it), `MaxDepth`, `MaxCases` and `MaxChoices`. Four statements
nest a jump with a defer or variable in a scope in a loop, put code after a conditional of which
a branch ends, and a defer into a loop's else: each property is broken there by a mistake in
one line of the code. Three conditions run a loop twice and leave it. Five statements, two of
them about one variable, in two scopes, are what a state that differs between two paths needs.
A wider choice for `value_states` (five statements of every kind, 17.7 million states) has been
checked too, and holds; it takes too long to be kept.

Fairness. Every thread keeps running: weak fairness of each worker's next step and of the
owner's, which is what the operating system's scheduler gives threads that yield while they spin.
`ThreadQueue` asks for more in two places. The tasks' lock is a spin lock without a queue: that
a thread which tries again and again gets it at some time is strong fairness of the steps that
take it. And the read of `tasks.empty()` without the lock may be wrong, but not for ever:
strong fairness of `PeekNonEmpty`. Nothing is assumed of what tasks do, except that they end.

### Findings

Runs that are expected to find a violation:

1. `waitUntilDoneWorking()` can return true while a worker that has just taken a task has not
   yet said that it works (`TrueMeansAllRan`). The caller has a loop "just in case", which reads
   the same states.
2. A template function selected before it suspends is never analysed (`SelectedIsAnalyzed`).
3. When a file cannot be parsed, an importer that waits for it waits for ever (`ImportReturns`):
   the loader records the failure under a path it has moved away.
4. A symbol under a `when` of an imported file can be queued twice (`QueuedWhenWaiting`).
5. `while(c){ return 1; }` ends a function as far as the analyzer is concerned
   (`ValueFunctionsEnd`): the loop's body is the only sub-scope, it is terminated, so the code
   after the loop is taken for dead, though the loop may run no times. The same for `for`.

On 3, a warning for whoever repairs it: that the loader does not erase the path it loaded is also
what keeps a file from being loaded twice. With the erasure as it was meant (the mistake
`path_after_move_kept`), a worker that looked the Source up before it existed and claims the path
after it was erased loads the file again: `LoadedOnce` fails.

Met while modelling, without a run of its own:

- A symbol can be put into the queue while it waits: its status is read and then exchanged
  without its lock (`SemanticAnalyzer.cpp:39975`), and meanwhile it may have gone on and wait for
  something else. `put` and `cas` in `SymbolProcs` are the two reads; `OneRunner` holds all the same.
- The corners of `Statements`. Naming one in the `Corners` of `MCControlFlow.cfg` (the last four:
  of `MCLifetimes.cfg`) makes the properties in brackets fail:
  - `errorDeferInLoop`: an `errorDefer` runs on `break` and `continue` (`SameBehaviour`);
  - `unchecked`: a `switch`, a `try`/`else` or a `delete` (`SemanticAnalyzer.cpp:9174`, `11935`,
    `7756`) is not rejected in a terminated scope, and the lowering appends to a terminated block
    (`NoAssertFails`, also with a `delete` alone, as an invariant of `MCLifetimes.cfg`;
    `BlocksEndOnce`). Nothing of it is executed: the four properties of `value_states` hold with
    this corner too (1,017,986 states), and the theorems of `ValuePathsProofs` allow it;
  - `terminatedDefer`: a defer whose block is terminated counts as if it ran where it stands
    (`ValueFunctionsEnd`, `SameBehaviour`, `BlocksEndOnce`);
  - `partialSwitch`: a partial switch all of whose cases are terminated counts as if one of them
    always ran (`ValueFunctionsEnd`, `SameBehaviour`, `BlocksEndOnce`);
  - `loopEndsParent`: finding 5 (`ValueFunctionsEnd`, `SameBehaviour`, `BlocksEndOnce`);
  - `elseDefer`: the else blocks of `try` and `for` are popped without their defers (`SameBehaviour`);
  - `leaveFor`: a jump out of a `for` to a label, or a return in its else block, leaves the iterator
    undeleted or deletes it twice (`SameBehaviour`);
  - `labelThrice`: `resetSubScopes` leaves the count of label-terminated sub-scopes, and the third
    fails the assertion at `ScopeLevel.cpp:53` (`NoAssertFails`; it takes a block expression
    with three conditional returns to its label: 7 statements, of `labeledReturn`, `if` and
    `blockExpr`, are enough);
  - `misjudged`: the wrapped `scope_level_index` hides a change (`UsesHoldAtRunTime`);
  - `loopChange`: a loop's body is taken to run exactly once (`UsesHoldAtRunTime`);
  - `jumpChange`: a change before a `break` or labelled return is forgotten (`UsesHoldAtRunTime`,
    `DeletedOnce`);
  - `deferValue`: a defer's block is taken to run where it stands (`UsesHoldAtRunTime`).
- `UsesHoldOnEveryPath` fails with each of the last four as well, with `partialSwitch`, and, in
  bodies of six statements, with `loopEndsParent` and `terminatedDefer`: code that is taken for dead
  hands no change on.
- A break, continue or labelled return that leaves a defer's block is lowered without end. The
  models have no such jump.
- A change of a variable in a scope that reaches its end is known to the analyzer but not to the
  lowering's outer level: a variable moved there is deleted again, one initialized there is not
  deleted. `DeletedOnce` excepts these executions (`handedOn`).

## 4. What is proved

TLAPS checks every proof down to the last leaf. The assumptions are those stated as ASSUME in the
modules, and TLC evaluates them in the runs:

- finitely many workers, well-typed programs and files, a positive error limit, NoTask and NoProc
  outside the sets they stand beside;
- only the last batch of a pool has tasks that may fail. `Context` gives each pool one batch;
  `PassManager` gives several, of functions that never fail;
- a struct adds itself to members of its own, and before it finishes its declaration
  (`SemanticAnalyzer.cpp:1695`); a member begins by waiting for that declaration
  (`SymbolProcBuilder.cpp:720`).

Four theorems about `SymbolProcs` are about programs of a kind, and say so in the theorem:

- `NoWaitCycle` holds where every wait is looked at for a cycle (`CyclesAreLookedFor`). The code
  does not look when a function's PIR declaration is waited for (`SymbolProc.cpp:69`), so programs
  that wait for one are left out, and so are those with members: a struct adds itself to its members
  with no look (`SemanticAnalyzer.cpp:1695`), which makes a cycle of edges until the declaration is
  finished just after. A function leaves itself out of those whose PIR definition it waits for
  (`SemanticAnalyzer.cpp:5898`), so the hypothesis does too.
- `LeftForAReason` holds where moreover what is waited for is run, and finishes it or fails with an
  error (`WaitsAreMet`): a program that waits for what nobody does must be left waiting.
- `NoFalseError` and `NoStall` hold where the SymbolProcs can finish in some order
  (`Feasible(rank)`): each instruction has a rank, and what it waits for is finished at a lower one.
  That allows members, PIR declarations, template functions and instantiations, and is what it means
  that a program has no circular dependency. It says nothing of the order in which workers take
  SymbolProcs.

That programs like those the builder makes satisfy these is an ASSUME of `MCSymbolProcs`, which TLC
evaluates: `LibraryIsFeasible`, with the ranks, for the instance of `symbol_procs`, and
`CyclesAreReal` for that of `symbol_procs_cycle`. `NestingAssumption` (no symbol is nested in
itself) and `UnderAssumption` (a `when` is numbered before the symbols under it) say what a syntax
tree is.

`ThreadQueueProofs`: for every number of workers and set of tasks, `TypeOK`, `OnePlace`,
`ClearedOnlyOnFailureOrShutdown` and `QuietOnceNotRunning`. `OnePlace` is inductive together with
`HoldsWhileWorking` (a worker holds a task exactly between taking and finishing it) given the types.
`QuietOnceNotRunning` needs `Lifecycle`, which ties `num_workers_running` to the number of threads
that have not left their loop: only so does "the last one that leaves" mean anything.

`RefinesWorkQueue`: `ThreadQueue` implements `WorkQueue` (`ImplementsWorkQueue`), step by step. The
deque holds the normal tasks, newest first, and after them the priority tasks, newest last
(`Sorted`, the invariant this needs). So the first part backwards (`Fifo`) and the rest (`Lifo`) are
the two queues of the abstract work manager. `NormalAdded`, `PriorityAdded` and `BackTaken` say what
the three operations on the deque do to them; every step that leaves the deque alone is a stutter.

`SymbolProcsProofs`: for every program and number of workers `TypeOK`, `OneRunner`, `EdgesMatch` and
`NoLostWakeup`. The invariant adds `Jobs` (what a worker's locals hold, by where it is) and
`Unspawned` (an instantiation that has not been spawned is in nobody's hands). `OneRunner` is needed
for the wakeup: that a symbol is run by one worker is what keeps its status from changing between
its last look at its edges and its store of WAITING, except by the one who removes an edge.
`EdgesMatch` is needed because a wakeup begins at the other end of the edge: that the waiter's last
edge goes away only by the step that puts it into `put`.

Also `NoEdgeToFinished` and `SuspendedUnwanted`. Most edges are added by a
worker that has just looked, but a struct adds itself to its members without a look. So the
invariant has to know that they have not begun (`NotBegun`): as long as the struct has not finished
its declaration each member waits for it, and no worker holds the member. This is also what the
code's assertions "Decl/Def already completed for struct member" say (`SemanticAnalyzer.cpp:1704`).
`Past` says that only instructions that were reached have finished anything, `AtMembers` who is
added to whom, and `Marked` that a kind is marked as finished before its waiters are released.

`SymbolProcsOrderProofs`: `NoWaitCycle`, `LeftForAReason`, `NoFalseError` and `NoStall`. All rest on
`OInv`: which instruction put each edge there (`Cause`), that what a program has passed has been
done (`PastDone`), that one that is ready is in the work manager or with a worker (`Placed`), and
that the two counters are the sizes of the sets they count (`Counts`).

- `NoWaitCycle`: between its look and the edge it adds a worker holds `wait_on_if_needed_lock`, so
  what it found is still true when it adds the edge (`Pushing`), and an edge from p to q closes no
  cycle unless q depends on p already. `DependsOn` is defined by sets that are closed under edges,
  so that it needs no recursion.
- `LeftForAReason`: if somebody is left, take all who are left and depend on no error. There are
  finitely many of them and no cycle, so one waits for none of the others. By `Cause` that one waits
  for something a program finishes, and by `PastDone` whoever should finish it has done so or is
  left himself.
- `NoFalseError`, `NoStall`: an edge leads to an instruction of a lower rank than the one at which
  the waiter will go on (`EdgeOrder`), so there is no circle for a worker to find. The case that
  needs care is a struct that is at its members: its edge to them is against the order until the
  declaration is finished, and `FreshWaits` says that meanwhile each member waits for nobody else,
  and nobody has begun it. At rest the one of lowest rank that is left would have nothing to wait
  for.

`SourceLoadingProofs`: for any files, imports and number of workers `TypeOK` and `LoadedOnce`. The
invariant says who owns a path: between `Claim` and the creation of the Source one worker does
(`Owned`), and the path is in `current_dynamic_file_load`; afterwards it stays there (`Kept`). So
one who comes late, with a lookup from before, finds the path taken. `Prefix` and `Jobs` tie each
worker to its symbol, whose Source never changes.

Further `OneAnswer`, for files that can be parsed if they can be read (finding 3 is
about the others). The invariant gives the answer each path must have (`Verdict`) and says that the
Sources, the recorded failures and the answers so far agree with it, and what each worker knows by
where it is. Two workers may load a path at once, when one whose read failed has erased the path and
not yet recorded the failure; that does no harm only because they come to the same error.

It also has `AllAnalyzed`, with no hypothesis on the files. The invariant (`Tended`) says of each
status who will go on with a symbol of that status: if it is IN_QUEUE the work manager has it, if it
is WORKING a worker does, and if it is WAITING it waits for its conditional, which is not done, or
its loader has it still to queue (`ToQueue`). The step that matters is a loader's look at a symbol
that the conditional releases before the loader queues it.

`ThreadPoolProofs`: for every number of workers and all batches `TypeOK`, `AtMostOnce`,
`NumWorkingExact`, `NobodyRunsAfterWait` and `AllRanOnSuccess`. `Modes` ties a worker's mode to its
place in `thread_func`, `Phases` the owner's place to what the workers have been told, `Counters`
says of which workers each counter is the number. For the tasks, each has run, or is in one worker's
hands, or in exactly one interval (`Hands`, `LeftOnce`, `Covered`). `Covered` holds because no
worker gives up an interval that is not empty unless a task has failed (`Orderly`).

`StatementsProofs`: `TypeOK`, `SubScopesCounted` and, of `ValueStates`, `ChangesCounted`, for bodies
of any length and nesting and every choice of constructs. The invariant of the first two adds that
the levels are well typed and that the first is the function's, so that the step that closes a level
always finds a parent with a sub-scope that is not counted.

`ChangesCounted` needs more than that. `Vals` says that only an info with a change that is pending
counts anything, so that the end of a level's sub-scopes leaves all counts at 0, as it leaves those of
the level. That would not do for a block expression, whose level is closed without handing its
changes on while the parent's counts are reset with it: an info of the parent that counted a sub-scope
before would then count more than there are. There is none, because where a statement may be added
the level has no sub-scopes (`NothingWaits`). This is what `Nest` is for: `subscopes`, in which the code
keeps its open `if`s, `for`s and `switch`es in one stack for the whole function, holds one entry for
each open level of such a statement, and one more exactly when the analyzer is between two cases.

`PathsProofs`: `ValueFunctionsEnd`, for bodies of any length and nesting. It assumes that none of the
three constructs is used that the analyzer takes for the end of live code (`NoneMistaken`: the
corners `loopEndsParent`, `partialSwitch` and `terminatedDefer`); with any of the three TLC finds a
counterexample, the other corners are allowed. The analyzer draws its conclusion from numbers and
the paths are sets, so the invariant (`Live`) has to say what each number stands for. If a level is
marked terminated, no path reaches its end. If some path leaves a closed block of the open
statement, a sub-scope is left over that is neither terminated nor open. Control that is anywhere in
a level came through the level around it. And a level that is open in a role fixes the counts of its
parent (`CountsFit`): an `if` whose first block is open has one sub-scope and none terminated, an
`else` two and at most one. So when all sub-scopes of a level are terminated, no path has left any
of them, and `AfterBlocks` is empty. For a block expression that is not the count's doing: it has
two sub-scopes, of which at most one is ever counted as terminated.

`ValuePathsProofs`: `UsesHoldOnEveryPath`, for bodies of any length and nesting and any variables.
It assumes `NoneMistaken`, since what a level that is taken for dead has changed is forgotten, and
`StatesFollowed`: the corners `misjudged`, `loopChange`, `jumpChange` and `deferValue` are not in
`Corners`. Each of the seven is needed: with any of them alone TLC finds a counterexample (3). The
others are allowed, and a body without corners may still change variables in conditionals, switches
and blocks, and in a loop those that are declared in it.

The invariant `PInv` is that of `ValueFunctionsEnd`, that of `ChangesCounted`, and `AgreeNow`, which
says level by level what the infos of the analyzer have to do with the paths:

- a variable has one `DeclInfo`, in the level that declares it, and every environment of a level
  knows just the variables of that level and those around it (`VarsAt`, `EnvAt`);
- however many paths come to a place, they come there in one environment: what is accepted leaves
  no two paths different. In it the state of a variable of the level is that of its info, unless the
  info counts sub-scopes; and it is the state the variable had when control came to the statements
  around, except for what the levels between say they have changed (`EnvAt`);
- an environment in which a closed sub-scope was left has a variable as it was before the statement
  unless a change of it is pending; and if as many sub-scopes handed the change on as have been left
  at their ends, it is the change in all of these environments (`EndAt`);
- a jump on its way to a label carries what was true before the statement it aims at, so that it does
  not matter on which path it was made (`JumpsAt`).

The step that matters is `end_sub_scopes`. It compares the number of sub-scopes that handed a change
on with the number of those that are not terminated, and the invariant has to make of equal numbers
that no path went around the change. That is where the counts are needed: `CountsFit` says how
many sub-scopes the statement has, an implicit empty `else` among them, `ChangesCounted` that no info
counts more than have ended, and `Live` that a terminated one was left by no path. A switch has any
number of cases, and `EndAt` carries the comparison from one to the next.

TLC had checked each inductive invariant on the instances above before it was proved.

Two properties were restated on the way. `AllAnalyzed` said that a symbol which is not analysed is
under a conditional that has failed; that is false where conditionals nest, since the inner one is
then left as well, and of files that cannot be parsed, so it now says both. The instance of
`source_loading` has nested conditionals since. The conditions that the comments of `NoStall` and
its neighbours put into words are now the definitions above.

Model-checked only: everything under fairness (`EveryTaskSettles`, `WaitReturns`, `ShutdownReturns`,
those of `ThreadPool`, `ComesToRest`, `ImportReturns`), since TLAPS has no rules for ENABLED in use
here; and the properties of `ControlFlow` and `Lifetimes` that are about the lowered function, because
the lowering and the reference semantics are recursive over the statements of a body, and nothing
can be proved by induction over data here: `NoAssertFails`, `BlocksEndOnce`, `SameBehaviour`,
`UsesHoldAtRunTime` and `DeletedOnce`. Of `UsesHoldAtRunTime` the analyzer's half is proved
(`UsesHoldOnEveryPath`); that the lowered blocks have no other paths than the statements is
`SameBehaviour`. The type invariant of `Statements` is proved and no run checks it. The findings are
counterexamples on an instance and need no proof.

## 5. What is not modelled

The map covers a small share of the source, and more of it cannot be modelled faithfully as a
state machine worth checking. Of some 172,000 lines, the analyzer's 43,000 are for the most part
instructions that check types and build trees, one case per kind of expression; another third is
tokenizing, parsing, printing, arbitrary-precision arithmetic, and calls of LLVM, Clang and
the file system. These are functions of large inputs whose result is right or wrong for a
value; a model would repeat them line by line, and a test samples them better. What has
interleavings, long histories or two parts that must agree is what is modelled.

- Values: tokenizer, parser, type checking, overload selection, constant evaluation, the
  layout of types, PIR to LLVM, formatting of diagnostics.
- Of declarations: parameters and outputs, and their value states; identifiers and shadowing.
- Of statements: `when`, unrolled loops, list expressions, `try` with except parameters, the
  operands of `and`, `or` and `or_else`, and several variables in one statement.
- Wrappers of third-party libraries and of the file system; argument parsing.
- Weak memory. The code's atomics are sequentially consistent; plain fields that are read across
  threads (`is_ready_for_sema`) are modelled as if they were.
- In `SymbolProcs`: builtin symbols, `when` conditionals, the statuses
  SKIPPED_NON_TEMPLATE_DEPENDENT, PASSED_ON_BY_WHEN and IN_DEF_DEDUCER_IMPL_METHOD, template
  sub-symbols, and a creator of an instantiation that fails. In `SourceLoading`: C and C++ headers.
- What an importer reads of a Source it found before it was ready.

Seen in code that is not modelled, and not checked:

- The lowering of `or_else` names as predecessors of its phi the blocks in which its branches
  begin, not those in which they end (`SemaToPIR.cpp:5506`, `5606`), and lowers an operand
  twice (`5570`, `5590`).
- `instCombine` folds unsigned division and remainder with the signed operation
  (`src/PIR/src/passes/instCombine.cpp:406`, `445`).
- `PassManager.cpp:136` moves the position back by an unsigned difference of the wrong sign when
  a statement pass has added more than one statement.

## 6. Plan

In order; each line is a module or an extension, with what it is for.

1. `SymbolProcs` with builtin symbols (`setBuiltinSymbol` skips a WORKING waiter but clears the
   list, `SymbolProcManager.cpp:78`) and `when` conditionals with PASSED_ON_BY_WHEN; the walk of
   `detect_circular_dependency` as a loop, which may meet a cycle not its own.
2. `SourceLoading` with `lookupCFamilySourceID`, whose claim is not under the lock
   (`Context.cpp:2369`).
3. `ValueStates` and `Lifetimes` with parameters, outputs and `when`, and with `try` whose except parameters
   are variables of the else block.
4. `SingleThreadedWorkQueue` implementing `WorkQueue`.
5. `TemplateInstantiation`: lookup or creation in `TypeManager`/`Context`, waiters that spin for
   the creator, a creator that fails (`SemanticAnalyzer.cpp:34511`).
6. `TypeInterning`: equal types, one ID, with several workers; composed with 5.
7. `ContextPipeline`: the phases, each with its batch, and what an error in one means for the next;
   composes `ThreadPool` and `ThreadQueue` through their abstract specifications.
8. `PassBlocks`: the iteration of a statement pass over a block that it changes
   (`PassManager.cpp:136`), against a reference definition.
9. `MapAlloc`: the set-once value on which threads wait.
