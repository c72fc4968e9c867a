# TLA+ models of VLE

VLE is a DEVS simulator: a library (`libvle`) that loads a tree of models from
a `vpz` file, runs it to a given date and gives what the models let observe to
output plug-ins, with a command line (`vle`), an MPI front end (`cvle`) and an
editor (`gvle`). This directory holds TLA+ models of its kernel, of the programs
that run many simulations, of its package manager and of the editor's document,
the TLC runs that check them on small instances and TLAPS proofs for every
instance.

`PROJECT.json` gives for every definition the lines of code it stands for, the
runs and their properties, for every property a change of the code that the
property detects, the hazards and the disagreements found.

## 1. Inventory

### The kernel (`src/vle/devs`)

| part | state | operations |
|---|---|---|
| `Scheduler` (event table) | heap of (date, simulator) nodes, current date, current bag (two vectors and a set) | `init`, `addInternal`, `addExternal`, `delSimulator`, `makeNextBag` |
| `Simulator` | next date `m_tn`, handle of its node, "internal event due", external events of the bag, outputs to dispatch, observed calls, cached targets | `init`, `output`, the three transitions, `targets`, `updateSimulatorTargets` |
| `Coordinator` | current date, simulators, models queued for deletion, views | `init`, `run` (one bag), `dynamic_deletion`, `createModel`, `addModelToDelete`, `finish` |
| `RootCoordinator` | the coordinator, the tree, begin and duration | `load`, `init`, `run`, `finish` |
| `TimedObservationScheduler`, `View` | heap of pending view events; observables of each view | `add`, `getObservationAtTime`, `finalize`, `addObservable`, `removeObservable` |
| `DynamicsObserver` | the event views attached to a simulator | records a call for the end of the bag |
| `SimulatorProcessParallel` (thread pool) | block counters, running flag, pointer to the bag | `for_each`, the workers' loop, the destructor |
| `ModelFactory` | loaded dynamics, conditions | `createModels`, `createModel`, `createModelFromClass` |
| `Executive` | a simulator that may change the structure in its transition | `createModel`, `delModel`, `addConnection`, `removeConnection`, ports, `renameModel`, `addObservable` |

`RootCoordinator::run` calls `Coordinator::run` until the duration is passed.
A bag is processed in phases: outputs of the imminent dynamics, their dispatch
through the cached targets, the same for executives, transitions of the
dynamics (sequential or by the thread pool), rescheduling, transitions of the
executives from the deepest to the top (each may change the structure),
rescheduling, event views, timed views, deferred deletions, next bag.

What is hard: simulators that enter a bag because of an event while they are
due or planned for later; zero and infinite durations; structure that changes
in the middle of a bag, with deletions deferred to its end and caches that
must follow; views that run between two bags; threads that share plain and
relaxed atomic variables; exceptions of user code.

What makes it correct: the event table agrees with the simulators and loses no
wake-up; events reach each target once, before any transition; nobody reads a
deleted model; views are run at each of their dates and only when the models
have reached it; the pool is a loop over the bag; and all of it is parallel
DEVS with dynamic structure.

### The tree of models (`src/vle/vpz`)

`BaseModel`, `AtomicModel`, `CoupledModel` and `ModelPortList` keep ports and
connections, each connection recorded at both ends, and compute targets and
sources by walks through coupled models. It is correct when both ends agree
and the two walks are inverse. `Vpz`, `Experiment`, `Conditions`, `Views`,
`Classes` and others are keyed containers that refer to each other by name,
read by a stack automaton (`SaxParser`, `SaxStackVpz`).

### Many simulations

- `manager::Manager` runs inputs × replicates simulations in threads that share
  a result map and an error under a mutex (`details/thread_specific.hpp`), and
  aggregates replicates, then inputs. State: the loop counter of each thread,
  the mutex, the error, the accumulators. Hard: errors met by several threads,
  one of them written without the mutex. Correct when every simulation is
  aggregated once, or the first error is reported.
- `manager::Simulation` runs one simulation, in process or in a child
  (`utils::Spawn`) with a timeout. Hard: the timeout races with the end of the
  child; waits of several threads on children of the same process. Correct when
  it ends and judges a simulation by its own child.
- `apps/cvle`: a master reads lines, sends blocks to MPI workers, writes what
  they return and stops them. State: the stream, the flags of the workers, the
  messages, the conditions each worker changes and restores. Correct when each
  row is simulated once with its own values and everyone stops.

### Packages (`src/vle/utils`)

`RemoteManager` has one thread per action (update, install, source, searches,
shows), flags polled by the owner, a catalogue of the packages of the servers
read at its construction and saved at its destruction; `DownloadManager` and
`Package` run commands as children. Hard: commands that fail, processes killed
between two writes, files left by an earlier session, servers that publish in
between. Correct when what the user is told about catalogue, results and
installed packages is true.

### The editor (`src/gvle`)

`vleVpz` edits two DOM trees (the `vpz` and its `vpm`, which keeps the plug-ins
of the editor), in which everything refers to everything by name; each file has
a `DomDiffStack` for undo and redo, whose height tells whether the document is
the saved one. Hard: operations that touch several parts or both files.
Correct when undo and redo show documents the user saw, names resolve, and a
document without a star is the one on disk. Its windows and the panels in
`pkgs/gvle.default` are Qt widgets over these operations.

### The rest

`Context` (settings, logs, shared libraries), `value`, `translator`, `oov`,
`DateTime`, `Rand`, `Template` and the like, `pkgs/`: data, floating point, I/O.

## 2. Modules

| module | models | composed of |
|---|---|---|
| `Scheduler` | event table and the part of `Simulator` it shares | |
| `TimedObservation` | timed views | |
| `Coordinator` | `RootCoordinator`, `Coordinator::run`, deletions, creation of models, event views | `Scheduler`, `TimedObservation` |
| `Devs` | abstract: parallel DEVS with dynamic structure | |
| `ThreadPool` | `SimulatorProcessParallel` | |
| `ForEach` | abstract: a loop over the simulators of a bag | |
| `Connections` | tree of models, cached targets, operations of executives on connections and ports | |
| `Farm` | abstract: a set of rows, each simulated and written once | |
| `Cvle` | master and workers of `cvle`, MPI | |
| `Spawn` | child processes and `waitpid` | |
| `Plan` | threads of a plan, `Simulation`, aggregation | `Spawn` |
| `Packages` | `RemoteManager`, `DownloadManager`, `Package`, modes `-R` and `-P` of `vle` | `Spawn` |
| `DomDiff` | `DomDiffStack` as operators on a stack and a document | |
| `Document` | the operations of `vleVpz` on both documents, undo, redo, save | `DomDiff` |
| `MC...` | instances for TLC | |
| `Facts` | lemmas on numbers, finite sets and sequences that several proofs cite | |
| `CoordinatorProofs`, `ThreadPoolProofs`, `ConnectionsProofs`, `CvleProofs`, `PlanProofs`, `PackagesProofs`, `DocumentProofs` | theorems on the module of that name | that module, `Facts` |

**Scheduler.** Dates are naturals with an absorbing `Infinity`. The heap is a
set: boost's heap does not say in which order equal dates leave it, so a bag
is filled in any order. A handle is the date of the only node of a simulator;
`EventTableConsistent` checks that this is sound. `FillBag` is the loop common
to `init` and `makeNextBag`.

**Coordinator.** `pc` names the phases of `Coordinator::run`; every iteration
of a loop over simulators is a step. User code is nondeterministic: any subset
of the imminent simulators outputs, any element of `TimeAdvance` is returned,
transitions may throw (`TransitionThrows` without the pool, `SwallowedThrow`
with it, which keeps or loses the events of the simulator as `simulator_process`
does) any number of times, and an executive may create and delete models in its transition.
`DeleteModel` and `DeleteSimulator` are the two loops of `dynamic_deletion`;
reading a freed node leads to the state `undefined`. `emitted`, `threw` and
`observed` are history variables. `EventsDelivered` says nothing once the pool
has swallowed an exception (`threw`): a simulator may then keep events of an
earlier bag. With `Parallel`, transitions are still one
after the other: that the pool makes each of them once and returns after the
last is what `ThreadPool` shows, and transitions of different simulators touch
different variables.

**Devs** has a clock, living simulators, their dates and the set of those that
have still to move, and knows neither heap nor bags. `ImplementsDevs` maps the
clock to `m_current_time`, `todo` to the simulators with something to process
and `stage` to the phase.

**ThreadPool.** One step per access to a shared variable. A behaviour is one of a
build, which the variable `relaxed` names: either the stores of `for_each` are
seen in program order, as on x86, or the plain store of `m_jobs` and the relaxed
store of `m_block_count` may be seen later than the block id, as C++ allows. A
worker that reads a null `m_jobs` goes to `crash`. Below zero `m_block_id` is not
decremented: only its sign is read.

**Connections.** A record `<<m, p, n, q>>` of list `in`, `out`, `internalIn` or
`internalOut` is a pair `(n, q)` of the list of port `p` of `m`. Walks along the
lists follow `BaseModel::getAtomicModelsTarget` and `...Source`; they may end in
an exception (unknown port) or read a freed model. `mTargets` is the cache;
each operation of an executive updates the lists of both ends, collects the
sources before or after as the code does and refreshes their caches.
`Subtree` is the least set closed under children, what the recursion of
`delAllModel` frees. The graph that is loaded has each connection at both ends
(`InitialAssumption`), as the reader makes it with the same operations; that the
models are a tree is `TreeAssumption`, a depth for each. Lists are
sets (an executive does not make the same connection twice; two models may be
connected by several ports), a model's address
is not used again, and an exception ends the behaviour. There are two history
variables. `bypass` is true after an operation whose code refreshes no cache
(`removeConnection` of an output connection, `removeOutputPort`). `severed` is
true once the removal of a port has cut, at one end only, a connection of another
port: `delInputPort` and `delOutputPort` erase at the other end every pair of the
model, whatever its port.

**Farm** knows rows, those taken and those written, and three outcomes. The
end may only be announced when what was taken is written, and, unless the
input has an empty line, when all rows are. `Cvle` maps the rows it has read to
`taken` and the rows of its output to `written`; `Plan` maps a simulation to a
row, the ones begun to `taken` and the ones aggregated to `written`.

**Cvle.** A line is the set of conditions it gives a value to, a value is the
number of the line it comes from, 0 the value of the vpz file: a result thus
shows what its simulation used. `Read` is `Root::read` with the three states of
the stream; an empty line ends a block, or the input when it comes first.
Messages between two processes keep their order; `eager` says whether
`MPI_Send` returns at once or when the message is received, as MPI leaves open.
A row is a vpz fragment (`complex`), which changes conditions and restores
them, or a row of a table, which gives all columns. An exception in a worker
calls `MPI_Abort`.

**Spawn.** One object per owner: its child (running, zombie, reaped), `m_pid`,
`m_start`, `m_finish`, `m_status`. `waitpid` with `m_pid` = -1 takes any child of
the process, as the system call does. Pipes are left out: their contents are
only logged.

**Plan.** Thread `t` does simulations `t`, `t + nslots`, ...; the pc of a thread
follows `thread_worker::operator()` and `Simulation::runSubProcess`. A
simulation is its number, so an aggregate is the sequence of the numbers it was
made of. Time is a flag per simulation (`late`), set at any moment. An error is a
code (`mError`) and a text (`message`): an error of the inputs is written without
the mutex in two steps, `Prepare` and `WriteMessage`, and two threads that write
the text at once may leave it `Torn`. A child that exits with 0 and leaves no
output that can be read gives a simulation without result and without error
(`Status`), whose null pointer the aggregation follows (`ReadNull`, to the state
`undefined`); `blank` is a history variable that tells it happened.

**Packages.** One package name on two servers; a version is a number. A session
is one process: it reads the catalogue, does a script of actions, saves, and
may be killed at any step; what it leaves is in `file`, `archive`, `tree`,
`builddir` and `installed`. Each command is started, looked at until it ended,
and its code used, or not, as its caller does. When a session is killed, its child
ends with it or goes on as an orphan, which then does to the disk what the
command does, in the middle of later sessions (`orphans`, `OrphanEnds`). `failed`
(a command failed), `disturbed` (an orphan ended during the session), `ran` and
`before` are history variables.

**DomDiff, Document.** A document is a record of fields (dynamics, conditions,
views, observables, models, connections, ...). A query names the node an
operation copies: whole fields, one key of a field, or one attribute of a key.
An operation copies a node onto the stack of its file, raises the other stack
with null nodes, and edits; `trail` is a history variable with the documents
the user saw, one per height. Some operations of the code do not keep their
part of this contract: `rmCondPortToDoc` does not raise the other stack,
`rmConditionToDoc` with a plug-in makes one more entry on it,
`rmObservableFromDoc` changes more than it copied, `renameModelPort` and
`renameObsPortToDoc` take the name of another port. A move merged below an entry
that can be redone breaks it too. They are modelled as they are, set `slipped`, and what follows them is not
looked at. `Save` writes both files, or not the one that cannot be opened, and
registers the saved state all the same. `stale` is a history variable: the last
save did not write both files, or the entry of the saved state was overwritten.

## 3. Runs

| run | checks | shows |
|---|---|---|
| `coordinator` | `EventTableInv`, `AssertionsHold`, `EventsDelivered`, `DeletedModelsGone`, `NoUseAfterFree`, `CallsObserved`, `ImplementsDevs` | the sequential kernel with two executives at two depths that create and delete models, and exceptions |
| `coordinator_views` | `EventTableInv`, `ViewsComplete`, `ObservedOnTime`, `SimulationEnds` | two timed views of different steps, the pool with a swallowed exception, a model created on the way |
| `thread_pool` | `BagOwned`, `PoolInv`, `OncePerCall`, `ImplementsForEach`, `CallReturns`, `PoolStops` | the pool is a loop; it ends, when stores are seen in order, and stops, and no order in which stores are seen makes a simulator move twice |
| `connections` | `LinksInv`, `SourcesAreTargets`, `TargetsFresh`, `GraphSafe` | all operations of executives keep the graph consistent; those that refresh leave no stale target; several connections between two models included |
| `cvle` | `Protocol`, `RowResults`, `EveryoneStops`, `ImplementsFarm` | each row once, with its own values and number, whoever answers first; everyone stops |
| `plan` | `AnswerRight`, `NothingUndefined`, `OwnChildren`, `FirstErrorKept`, `PlanEnds`, `ImplementsFarm` | threads, children, timeouts and errors give complete results or the first error, its text with it |
| `packages` | `CatalogueSound`, `InstalledAsSaid`, `PackageModeHonest`, `NoDowngrade`, `SessionEnds` | what the user is told is true across failures and killed sessions |
| `document` | `UndoExact`, `NamesResolve`, `UnstarredIsSaved` | undo, redo and save, failing ones too, around any two operations of the editor |
| `delete_views` | `ViewsComplete` violated | the date of the next bag is read before deletions |
| `plan_fork` | `NothingUndefined` violated | after a failed fork the destructor of `Spawn` takes the child of another thread |
| `packages_start` | `ResultsOfAction` violated | after an installation that was joined, `start` starts no thread |
| `packages_errors` | `FailuresReported` violated | `hasError` is false though a command failed |

`EventTableInv`, `LinksInv`, `Protocol`, `RowResults`, `AnswerRight`,
`CatalogueSound` and `NamesResolve` are conjunctions of named parts; one
of each module has its type invariant among them. After a swallowed exception
`EventTableInv` lets a simulator keep the events its transition did not
process (`BagConsistent`).

**Bounds.** `coordinator`: four simulators, two of them executives at depths 1
and 2, one coupled model, time advances 0, 1 and infinite, two structural
changes, any number of exceptions that leave at most one event each (`MaxKept`), end at date 1. This holds bags at the same date,
simulators reached while due, planned or passive, a coupled model and its
content deleted in one bag, an executive that deletes itself, a model created
and deleted. `coordinator_views`: three simulators, two views of steps 1 and 2,
end at 3: bags before, at and between the dates of views, and after the end.
`thread_pool`: both kinds of builds, two workers and the caller, bags of 0 to 5 simulators in blocks
of 2 (empty, full and partial blocks, fewer blocks than threads), two calls, so
that a worker may still be in the loop of the first; the proofs remove these
bounds. `connections`: three atomic models, two levels, two ports, three
operations: a link made, its model or port removed, and a refresh through a
coupled model; two models connected by two ports, and one of the ports removed. `cvle`: two workers, blocks of two rows, up to six lines: more
blocks than workers, full and partial last blocks, empty lines anywhere but
first, with both kinds of sends. `plan`: three inputs of two replicates, two
outputs, one or two threads: an input's replicates in two threads, threads with
different numbers of simulations. `packages`: two servers with two and one
versions, two sessions, one killed: whatever one session leaves, the next one
meets. `document`: two operations (a rename of a condition makes two entries),
three models, two names of each kind, with any number of undo, redo and save;
two operations are what an undo and a new branch need.

**Conditions of the passing runs.** `LaxDeletion = FALSE`: an executive deletes
a model once and not while the simulation is loaded. `Deletable = {}` in
`coordinator_views`: no deletion, because of `delete_views`. In `Connections`,
`Feedback = FALSE`: no model is connected to itself; `bypass` and `severed`: see
above. `Cut = FALSE` in `MCCvle`: the last line ends with an end of line, and
there is at least one row. `FailingSlots = {1}` in `plan`: a fork may fail when
there is one thread; `plan_fork` is about two. `Callers` in `MCPackages`: the
sequences of actions of the command line, of the editor and of the
documentation; `packages_start` has one that goes on after an installation.
`blank` in `Plan`, `failed` and `disturbed` in `Packages`, `slipped` and `stale`
in `Document`: see above. Each of these names what the code does then and a
property does not cover; the states themselves are all explored.

**Fairness.** The simulation is one thread that always continues, and functions
of user models return: weak fairness of `Run`; nothing makes an executive change
the structure. `SimulationEnds` excepts simulations whose transitions leave a
simulator at the date of its own bag for ever (`StaysAtDate`): models that ask for
this date, and pooled models that throw each time they are imminent, whose
exception `simulator_process` drops. The pool:
each thread is scheduled, weak fairness of each thread's steps; nothing makes
the coordinator call `for_each` or destroy the pool. `Cvle`: master and workers
are processes that are scheduled; nothing makes a worker fail. `Plan`: threads
are scheduled, time passes, signals are delivered; a child is only assumed to
end by itself when there is no timeout. `Packages`: the threads of the process
are scheduled, and commands end by themselves, for the code limits no time;
nothing makes a user start a session, a server publish or a process be killed.
`Document` has no liveness: a user may stop.

**Seen outside the runs**, by changing a constant or lifting an exemption:
- `LaxDeletion = TRUE`: two `delModel` of a model in a bag queue it twice, and
  `dynamic_deletion` reads it after it was freed (`Coordinator.cpp:327`);
- the pool swallows an exception (`Thread.hpp:56`) that ends the simulation when
  there is no pool; a model that throws each time is imminent again at the same
  date for ever, so `SimulationEnds` without `StaysAtDate` fails;
- `BagOwned` without the condition `~relaxed`: a worker may follow a null `m_jobs`
  (`Thread.hpp:162`);
- `TargetsFresh` without `bypass`: `removeConnection` of an output connection
  refreshes no cache (`Executive.cpp:258`), `removeTargetPort` erases one entry
  of a multimap (`Simulator.cpp:97`);
- `Feedback = TRUE`: the deletion of a model connected to itself refreshes the
  simulator of the model it has just freed (`Coordinator.cpp:340`);
- `LinksInv` without `severed`: `delInputPort` erases by model at the other end
  (`BaseModel.cpp:372`), so one end of a second connection of the same two models
  goes too;
- `NothingUndefined` without `blank`: the null result of a child that left no output
  is dereferenced (`Simulation.cpp:277`, `thread_specific.hpp:219`);
- `removeOutputPort` of a coupled model throws unless an input port has the same
  name (`Executive.cpp:333`);
- `Cut = TRUE`: without a last end of line `read` returns true for ever and the
  master waits for an answer to nothing (`cvle.cpp:1034`); an input without rows
  has the same end (`cvle.cpp:1076`);
- `packages` with four sessions and versions <<3, 1>>: after a download that failed,
  an installation unpacks the archive that an earlier session left over a package
  that is more recent (`RemoteManager.cpp:468`). `NoDowngrade` therefore speaks of
  sessions without a failed command;
- `InstalledAsSaid` without `disturbed`: a command of a killed session ends during the
  next one and writes the files that one installs from;
- `UnstarredIsSaved` without `stale`: save, undo and another edit reach the
  height of the saved state with another document (`dom_tools.cpp:450`), and a save
  that cannot open a file clears the star (`vlevpz.cpp:3934`).

## 4. Proofs

Each theorem holds for every value of the constants that satisfies the named
assumptions of its module; TLC evaluates these on the run of the module. A
condition in the statement of a theorem is the one of the passing run, with the
reason in section 3.

### The event table and the loop (`CoordinatorProofs`)

`EventTableIsConsistent`, `KernelAssertions` and `DeletionIsComplete` have no
condition: any models, nesting, connections, time advances, exceptions and
structural changes, with and without the pool. They follow from one inductive
invariant, `TableInv`:
- `Clock`: the coordinator and the table have the same date, except before the
  first bag and after the timed views, and the heap is in the future of a bag;
- `Vectors`: the two vectors of the bag hold each simulator of its set once;
- `Living`: simulators of the bag are alive, their dates not in the past;
- `Outputs`, `Processing`: who has outputs to dispatch and who has something to
  process, by phase (`Waiting` are those whose transition is still to come);
- `Planned`: a living simulator is in the heap at its `m_tn` unless it is in the
  hands of the bag (`Unplanned`), and not in the heap while it waits;
- `Nodes`: the simulators are those of the tree and those of the nodes freed by the
  deletion under way.

The property itself (`EventTableInv`) looks at the table between two bags;
without `Waiting` and `Unplanned` it is not preserved by the steps within a bag.

### Deletion, delivery, DEVS, views (`CoordinatorProofs`)

- `DeletionIsSafe` (`~LaxDeletion`): no deletion reads a freed node. `Deepest`
  keeps the executives of a bag sorted by depth, `Queue` follows from it: a model
  is queued before the coupled models above it. Without the sort of
  `Coordinator::run` the first would free the second.
- `EventsAreDelivered`: by `Delivery`, at each moment of the two dispatch loops an
  event output in the bag is either still to be dispatched to a target or has
  reached it once.
- `LoopImplementsDevs` (`~Parallel`): the phases of a bag map to the stages of
  `Devs`, transitions to its transitions, everything else stutters or is the
  step between stages. It needs `TableInv` and `BagDates` (only simulators that are
  due have an internal event, and the date is within the simulation).
  With the pool a swallowed exception makes a transition that is no transition of
  DEVS, hence the condition.
- `EveryCallIsObserved` (`~Parallel`): `Calls` says for each simulator of the bag
  which calls it has recorded, before and after its transition.
- `ViewsAreComplete`, `ViewsAreOnTime`: `Views` holds for each view, at any date
  within the simulation, the multiples of its time step at which it has run
  (`Regular`) and, once no bag is left, the last date (`Finished`). The condition `Undisturbed` is that
  executives delete nothing (because of the run `delete_views`) and that adding a
  time step to the duration does not reach infinity.

### The pool (`ThreadPoolProofs`)

`PoolInvariant`, `ProcessedOnce`, `BagIsOwned` and `PoolImplementsForEach` hold
for any number of workers, block size, bag and number of calls, whether or not
the stores of `for_each` are seen in order; only the part of `BagIsOwned` about a
null `m_jobs` supposes that they are. With late stores `Counters` bounds `m_block_count` where
it gives its value otherwise: a store seen late undoes what workers have counted
before, so that a call may never return (`CallReturns` supposes ordered stores) but
never returns early. `OncePerCall` and `BagOwned` are not inductive. `PoolInv` adds
`Control` (where threads may be, what is published), `Counters` (threads hold
distinct blocks above `m_block_id`, and `m_block_count` = `m_block_id` + number of
holders) and `Progress` (simulators of blocks to claim are untouched, a holder
has done its block up to `begin`, the others are done). `CallFinished` concludes
from a negative count that there is neither a holder nor a block to claim, hence
that everything is done.

### The graph (`ConnectionsProofs`)

`BothEndsAgree`: after any operations of executives, every record
of a connection has its mirror, until `severed`. Two models may be connected by any
number of ports, in the loaded graph and later. `GraphInv` adds to the symmetry that
records are `Local` (they join neighbours in the tree). `Local` makes `Mirror` an
involution and shows that the connections
that cross the border of a deleted subtree are those of its root, the only ones
`delAllConnection` removes at the other end. `delInputPort` erases every pair of the
model at the other end, whatever its port: either all of these are connections of
the port removed, and the graph stays symmetric, or the operation severs one
(`Severs`), after which the theorem would be false (section 3).

The other theorems are about walks, which have any length up to `MaxDepth`.
`WalksUnfold` replaces the recursive function by the set of sequences of places
that follow the records, by induction on the number of steps.
- `SearchesAreInverse` (until `severed`): by `BackSteps` the mirror of a record leads
  back to where the record came from, from the list at the other side of the
  port. A complete walk turned round is thus a complete walk of the other search
  (`BackWalks`). It needs that no model is the parent of its parent (`NoCycle`,
  from `TreeAssumption`): otherwise a record would not tell whether it leads up
  or down.
- `TargetsAreFresh` (until `bypass` or `severed`): `FreshInv` says that what is cached is what the
  graph gives, and that nothing is cached before the start, when no sources are
  searched. A walk that an operation loses or adds takes a record that it
  removed or added (`LostWalks`), so it enters the model whose sources are searched,
  and by the walk backwards its start is one of them (`AddTargets`,
  `RemoveTargets`, `PortTargets`, `DeleteTargets`). For a deletion, a walk that comes
  into the subtree enters it through an input port of its root (`EntersRoot`).
  An output connection that is added needs the sources of the targets of the
  coupled model, as the code searches them.
- `GraphIsSafe` (`~Feedback`, until `bypass` or `severed`): searches stay among the models that are
  in the tree (`WalksInTree`). After a deletion the targets of the sources are
  computed again; these are outside the deleted subtree, because a search of
  sources is always above the model or beside it (`Beside`, which rests on
  `SiblingsApart`) unless a model is connected to itself.

### cvle (`CvleProofs`)

- `FlagsTellTheTruth`: `ProtocolInv` says what each channel may hold (the header,
  then at most one block with its number, or the end) as a function of where
  master and worker are, and that the flag of a worker is set exactly when
  a block or its answer is under way.
- `ResultsAreRight`: `RowsInv` shares the rows read among the output, the
  messages and the workers, gives each block the rank of its first row, and says
  which values a worker's conditions have. The condition `FullTables` is that a row
  of a table gives a value to every column: `Columns::update` changes nothing
  else and restores nothing.
- `ProgramIsAFarm`: a block distributed is a `Take` of `Farm`, an answer collected
  a `Write` (and a `Take` of the block sent in return), the first end sent its `End`, a failure its `Fail`. No condition.

### Plans (`PlanProofs`)

All theorems have the condition `SafeForks`: forks do not fail beside another
thread (the run `plan_fork` is about the others). The inductive invariant has a
part on control and one on data:
- `ControlInv`: `Loops` and `Begins` (the counter of thread `t` is `t` modulo the
  number of threads), `Exclusion` (of the mutex), `Children` (what a thread knows
  of its child, by program counter), `Errors` (an error is either in `mError` or
  on its way there with the thread that met it), `Texts` (the text is the one of the
  code, or torn, or a thread is about to write it), `Nulls` (only `blank` makes a
  simulation without result and without error);
- `AccumulatorInv`: for every output, accumulators, inputs and results are what
  the simulations aggregated so far make; a thread that aggregates has done the
  outputs before `out`. This holds while there is no error and no null result
  was followed: a throwing aggregation leaves the outputs apart.

`AnswersAreRight` then has to show that all counters beyond the end mean that
all simulations are aggregated; `Division` and its companions are the facts about
remainders it needs. `PlanIsAFarm` maps the preparation of a simulation to
`Take`, the aggregation of its last output to `Write`, the join without error to
`End` and the first write of `mError` to `Fail`.

### Packages (`PackagesProofs`)

`PackagesCorrect` is the inductive invariant `PackagesInv`, for any servers,
versions, scripts of actions, sessions and kills. Beside the types it has:
- `Places`, `Flags`, `Child`: where the owner, the thread of an action and its
  child may be, and what the flags of the manager tell of it;
- `Published`: every version in a catalogue, in the file, in an archive, a tree or
  a package was published by its server before;
- `Updating`, `UpdateComplete`: what an update has gathered from the servers it
  has passed, and what it says is more recent;
- `Installing`, `Said`: what an installation has downloaded, unpacked and built at
  each of its steps, as long as no command failed, and what its results say;
- `Mode`: what the `-P` mode remembers of its commands.

`CatalogueIsSound`, `InstallationTrue`, `PackageModeIsHonest` and the action
property `InstallationsAdvance` follow from it without a condition on the
constants; the second and the last speak of sessions without a failed command
during which no orphan ends. The first attempt at the last one failed, and showed
that `NoDowngrade` held without the exemption of failed commands only because of
the bounds of the run (section 3).

### The document of the editor (`DocumentProofs`)

The assumptions are that the document opened has the fields of an experiment and
resolves its names (`InitialDocAssumption`), and that a name is not empty and no
model is called like the coupled model (`NamesAssumption`). `DocumentInvariant`
is the inductive invariant `DocInv`:
- `IsDocument`, `IsStack`: kinds, which hold after a slip too;
- `Held`, while no operation slipped: both stacks have the height of the document in
  `trail`; every document of the trail resolves its names; each entry of either
  stack leads from a document of the trail to the one before it (`Undoes`), each
  entry above the height to the one after it (`Redoes`); the entries of a height
  come from one tab, so that both stacks undo or neither does;
- `SavedAt`, while neither `slipped` nor `stale`: the file is the document of
  that height, and there is a star exactly when the height is another.

The argument has one notion: two documents `Differ` by a query when the node of
one put into the other gives the first, in both directions. An edit has to show that
it leaves a document that resolves its names and differs from the old one by the
query it copied; `EditStep` does the rest, for one entry, `BothStep` for one in each
document, `RenameConditionStep` for two. There is one lemma per
operation of `vleVpz`, in the order of the tabs. A move merged into the last entry
keeps `Undoes` because its node is replaced as a whole (`MergedUndoes`), and keeps
`SavedAt` because nothing is merged into the saved entry. The walks of `UndoExact`
are recursive functions; `BackwardShows` and `ForwardShows` prove by induction that
they show the trail.

What the theorems do not say is what follows a slip (`rmConditionToDoc` with a
plug-in, `rmCondPortToDoc`, an observable removed that a model names, a port renamed
to the name of another, a move merged below an entry that can be redone): the model stops looking there.

### What is only model-checked

- Liveness (`SimulationEnds`, `CallReturns`, `PoolStops`, `EveryoneStops`,
  `PlanEnds`, `SessionEnds`): fairness is out of the prover's reach.

Where a proof needs induction (the ranks of rows in `CvleProofs`, the walks of
`ConnectionsProofs` and `DocumentProofs`) it uses `SetInduction` of `Facts`, which states it for a set
of naturals.

## 5. Not modelled

- kernel: observations made while models finish, the result map, `renameModel`,
  `addObservable`, `dump`; construction and failed construction of the pool;
- tree of models: attach, displace, rename, clone; the `vpz` containers and
  their reader, sequential and covered by `tests/vpz`;
- plans: the file of a plan run by `cvle`, the delegates for outputs
  integrated or aggregated as `all`, the accumulators (floating point), the parsing of options;
- `cvle`: failures of the master's files, options, the text of results;
- child processes: contents of the pipes, the Windows version;
- packages: `stop`, `compress`, the text of catalogues, the tables of contents of
  packages, the modes of `vle` that start a simulation or print;
- editor: values and attributes, fields of the experiment, classes, clipboard,
  nested coupled models, moves of several models, renaming of the top model,
  a stack at its limit of 300 entries, and all windows;
- contents of values, names, formatting, logs, XML, files, shared libraries;
  `value`, `translator`, `Context`, `oov`, `pkgs/`: I/O, floating point or
  sequential data.

Most of the repository's lines are of this last kind: the vendored `qcustomplot`
is nearly a third of them; Qt widgets and panels, headers, containers of values,
translators and packages of models are most of the rest.

## 6. Plan

1. Done: the models of section 2, their runs, and the theorems of section 4.
2. Done: every safety property of the passing runs is proved.
3. Models: the end of a simulation (`Coordinator::finish` and its last
   observations), nested coupled models in `Document`.
