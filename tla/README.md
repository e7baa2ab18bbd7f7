# A verification project for the pyramid search

The program evolves classifiers for a rice data set with genetic programming
(GP). A **runner** (`src/src/runner/main_new.cpp`) forks a number of GP processes, lets
them run in batches of generations and, between batches, kills the weaker ones
until one is left, which runs to completion. A GP process is the application
(`src/src/program/app.cpp`) on top of a modified copy of the **lil-gp kernel**
(`src/lib/lilgp/kernel`, below: `kernel/`), built with `POSIX_MT` and `PART_B`. This
directory holds TLA+ models of the parts that keep state, TLC runs over small
instances of them, and proofs for all instances of what matters most.

    cd tla
    tlc -config MCPyramid_rounds.cfg MCPyramid      # one run
    tlapm PyramidProofs.tla                         # the proofs of one module

`PROJECT.json` lists every run with its properties, the source lines behind every
definition, the hazards of the code with the properties that cover them, and for
each property a mutation of the model that the property catches.

## 1. The system

| Part | State | Operations |
|---|---|---|
| Runner, `main_new.cpp` | `children` (pid to socket, fitness, packets), `current_state`, `fitness_storage`, the cutoff `fitness` | accept and read a pid; per tick: reap, read each socket once, then one step of RUN_GENERATIONS, CHILD_EVALUATION, PRUNE or IDLE |
| Packets, `ipc.h` | one SOCK_SEQPACKET connection per child | EXECUTE_RUN(n), CHILD_FIT(f), PRUNE; a raw pid first |
| GP client, `app.cpp` | `running`, `paused`, `generations_left`, `best_individual`, the queue `send_packets` under a mutex | GP thread: `app_begin_of_evaluation`, `app_end_of_evaluation`, `app_uninitialize`; network thread: `handle_networking` |
| Run loop and statistics, `kernel/gp.c` | populations, `gen_stats`, `run_stats`, the list of saved individuals with reference counts | evaluate, statistics, checkpoint, exchange, breed, collect |
| Threaded evaluation, `kernel/gp.c` | a chunk per thread, the cached fitness of each individual | `evaluate_pop`, `evaluate_pop_chunk` |
| Ephemeral random constants, `kernel/ephem.c` | active list, free list, a reference count each | allocate, reference, collect, read, write |
| Checkpoints, `kernel/ckpoint.c` | one file per generation | write, read |
| Subpopulation exchange, `kernel/exch.c` | exchange table, a flag per individual | `exchange_subpopulations` |
| Breeding, `change.c`, `crossovr.c`, `mutate.c`, `reproduc.c`, `genspace.c` | old and new population | elitism, operators, reference counts |
| Selection, `select.c`, `tournmnt.c`, `fitness.c`, `bstworst.c`, ... | selection contexts | pick an individual |
| Initial population, `populate.c` | the population so far, the attempts left | full/grow trees, duplicates rejected |
| Trees, `eval.c`, `tree.c`, `individ.c`, `pretty.c` | prefix-ordered arrays of nodes | evaluate, copy, measure, print |
| Infrastructure, `params.c`, `output.c`, `memory.c`, `random.c`, `event.c`, `main.c` | parameters, streams, counters | |
| Rice loader, `rice_loader.h.cpp`, and its use in `app.cpp` | two shuffled lists with two cursors; the arrays of fitness cases | training set, testing set; `app_initialize`, `app_eval_fitness`, `app_end_of_evaluation`, the application's checkpoint |
| Former runner, `main.cpp` | pids, statistics of finished runs | `main_old`, called by nobody |

How they interact. The runner and its children share nothing but their
connections: commands go down, one fitness per batch comes up, and both sides learn
of the other's end only by the state of the socket (and the runner by `waitpid`).
Inside a child two threads share atomics and one queue. The kernel calls the
application back at the beginning and the end of the evaluation of each generation;
the application blocks the kernel in the first of these calls while it waits for
its next command. Within the kernel, statistics records point at saved copies of
individuals, populations and copies point at constants, and both kinds of pointers
are counted by hand in five files. A checkpoint writes all of this to a file from
which another process goes on.

What is hard: the interleavings of the runner, both threads of every child and
their deaths; the order in which two atomics are set and read; hand-made reference
counts that must survive merges, exchanges, breeding, collection and restarts; ties
between equal individuals, which are frequent because fitness is a function of a
number of hits; trees in arrays with lengths inside them, which replacements deep
inside must keep right, and limits computed before a tree exists; two cursors shared by
two data sets; threads that write into one array without a lock; a process killed
while it writes a checkpoint. What makes each part correct is listed with the
modules in section 2, what threatens it in `PROJECT.json` under `hazards`.

## 2. The modules

### The pyramid search

    Ipc <- Runner, GpClient <- PyramidSearch -> LockstepSearch
                               PyramidSearch <- MCPyramid
                               PyramidSearch <- PyramidProofs

`Ipc` has the packets and the connections (`toChild`, `toServer`, `link`, `closed`).
`Runner` is the runner's only thread: `srv` says which loop it is in, `todo` which
children that loop still has to visit, and each read or write of a socket is a step
of its own, since everything else runs meanwhile. `GpClient` is one child with its
two threads, `gp` and `net`; every access to a shared atomic that another thread can
observe is a step of its own, for instance the test of `generations_left` and the
later store to `paused` (`BeginOfEvaluation`, `PauseAndReport`), and the two stores of
`handle_networking` (`ReadExecute`, `ClearPaused`). `PyramidSearch` puts them together
and states the properties. `LockstepSearch` is the abstract specification: populations
advance in batches, nobody starts a batch before every rival has finished the
previous one, and who leaves the race does so for good. `LockstepSteps` says that
the search implements it, with "in the race" mapped to "has not closed its socket".

Where the model is coarser than the code, and why that changes nothing:

* `PauseAndReport` sets `paused` and queues the report in one step. Nobody acts on
  the report before it is sent and nobody reads `paused` but the GP thread itself.
* A generation (leaving the busy wait, evaluating, decrementing the budget, storing
  the best fitness, breeding) is one step, `Generation`. In between the network
  thread can only receive a command, and the decrement and that store commute
  unless the command comes inside a batch; `CommandFindsChildPaused` shows that no
  command does while no child dies.
* The reaper's loop is one step; a process that exits during it is seen by the next.
* Turns of `handle_networking` in which `poll` finds nothing are not steps.
* `poll` and the `read` or `write` after it are one step. If the peer closes in
  between, `write` fails with EPIPE (no SIGPIPE on this kind of socket is raised for
  the runner's or the child's purposes: it warns and goes on) and the packet is lost,
  as it is when the peer closes right after a successful write.
* Socket buffers never fill: at most a few packets are on their way to anybody.
* INT32_MAX is `NumGen + MaxGen + 2`, a budget no child can use up.
* `fitness_storage` is sorted and indexed once, so it is a bag: a set of values
  tagged with who sent them and when.
* Erasing from the map a range-for walks over (main_new.cpp:195-209) is undefined
  behaviour; `ReapOutcomes` lists what may come of it: the loop goes on, it ends
  early, or the runner crashes.
* Every GP process may die by itself at any moment (`Crash`, at most `MaxCrashes`).
  The wrapper process around it (`child_fp`) only copies its output and is assumed to
  outlive it.

### The run of one GP process

    SavedIndividuals, EphemConst, Selection <- GpRun -> BestOfRun
                                               GpRun <- MCGpRun
    SavedIndividuals, CountingProofs <- SavedProofs
                        GpRun, SavedProofs, BestOfRun <- GpRunProofs

`SavedIndividuals` models the linked list of copies with `saved_tail`, its length
kept in the head's `refcount`, the copies' reference counts, and the statistics that
point at them: `CalculatePopStats`, `Accumulate` (the merge of two best lists) and
`SavedIndividualGc`, as operators from state to state. `EphemConst` does the same for
constants. `GpRun` is `run_gp`: evaluation, one step per subpopulation's statistics, the
application's answer, the release of the generation's records, the checkpoint in
two steps (the file is emptied, then written), the exchange one draw and one copy at a
time (`BeginExchange` to `EndExchanges`), breeding one subpopulation at a time, the collection of constants, and the
end of the program. The process may be killed between any two of these (`Kill`), and
a new one may be started from any complete checkpoint (`Restart`). `BestOfRun` is
what the statistics promise: a list of the best fitness values of everybody evaluated
so far, each counted once, which a resumed process takes up where the checkpoint
left it. `KeepsTheBest` says that `GpRun` implements it.

Abstractions: an individual is its fitness, its size and the set of constants it
uses (a tree that uses a constant twice counts it once); fitness is any value of a
small set, 0 included, since the application gives it to an individual without a hit; selection may pick anybody, except for
elitism, which takes the best with ties broken arbitrarily (`qsort` is not stable), and for the individuals
that an exchange replaces, which are drawn by the method of its table until one has not just arrived: `pool` is what the context
made at the beginning of the exchange can return, `target` what it has returned. The order in which the loop
draws decides whether the run ends. Of the methods, `fitness`, `tournament`, `random`, `best` and `worst` are modelled there. An operator yields a copy with its
cached fitness or a new tree of old and new constants. Totals and the worst, largest and
smallest of the statistics are left out, and so are depth and hits, which the code treats like size.
`malloc` returns addresses that nothing has now (`Fresh`: which of them, is fixed but
arbitrary), and addresses survive a restart: only identities matter. A run stops where the
`MaxSaved` addresses could run out (a guard of `SubpopStats`; no run reaches it). An unfinished file counts as no file. The
application has one tree, so composite exchanges cannot occur. A resumed process is
not told that the run had ended by the user criterion (`term` is not in the file):
it goes on breeding, in the model as in the code. The waiting of
`app_begin_of_evaluation` belongs to the other group of modules.

### Threaded evaluation

    EvaluatePop <- MCEvaluatePop, EvaluatePopProofs

`evaluate_pop` creates a thread per chunk, joins them and frees their parameters;
`evaluate_pop_chunk` is the loop of a thread. Beginning and ending an evaluation are
two steps, so that two threads in one individual would be seen. `stale` and `evals` are
history: who needed an evaluation, and how many each got. It justifies that `GpRun`
evaluates a population in one step.

### Breeding

    Trees, Selection <- Breeding <- MCBreeding
         Trees, CountingProofs <- TreesProofs
         Breeding, TreesProofs <- BreedingProofs

`Trees` has the arrays of `lnode`s in prefix order (`types.h`, `tree.c`, `eval.c`): functions
and terminals, the constant behind an ERC terminal, and the skip node before each child
of an EXPR function. `Measure` is what the recursions of `tree.c` count, `CopyTreeReplace`
is `copy_tree_replace_many`, `EvaluateTree` is `evaluate_tree`, and `FullTrees` and
`GrowTrees` are all the trees the two generators may make. `IsTree` and `Meaning` are
references to check them against: what an array must look like to be a tree, and the value of
the tree by its structure, without the skip nodes. `Selection` computes the index that
a selection method finds, from fitness values and random numbers. `Breeding` is the life of
one population: `GenerateTree`, `Admit` and `GiveUp` are the loop of
`generate_random_population`, `Evaluate` is `evaluate_pop`, `TakeElite` to `Replace` are
`change_population`, with the operators' loops turn by turn (`Crossover`, `Mutate`).

`GpRun` has the same steps for all subpopulations, but with individuals that are a
fitness, a size and a set of constants: there the subject is what points at what, here what is
in the trees.

* Adjusted fitness is a natural number instead of a double, so of a random value only
  the unit interval matters (`FitnessPicks`); the two fractions of overselection are tenths.
* What the code of a function computes (`Code`), and what the application makes of the
  values of the trees (`AFitness`), are constants. Constants behind ERC terminals are not
  told apart, except where arrays are compared: there they are never the same.
* `num_times` of a mutation phase that does not name it is uninitialised memory: the loop
  may go on or end (`AgainChoices`).
* Two equal arrays with skip nodes may compare unequal, since half of such an `lnode` is
  not written (`SureDuplicate`).
* The counter of retries is kept only where the loop ends by it.

### The application's data

    RiceLoader <- RiceApp -> Split
                  RiceApp <- MCRiceApp, RiceAppProofs

`RiceLoader` is `loaded_data`: `read` and `data` are the vectors before and after the shuffle, one
record moved per step, and `last` the two cursors from which both sets are drawn.
`RiceApp` is the application around it: `app_initialize` (`Load` to `FillCases`),
`app_eval_fitness` (`Hits`), the test of a new best-of-run individual in
`app_end_of_evaluation` (`NewBest` to `Report`), and the application's part of a checkpoint
(`EndOfGeneration`, `Resume`). `Split` is the abstract specification: a training set of the
size asked for, then everything else as testing set, neither changed in the same
process. An individual is the set of records it takes for Cammeo, an array of cases is the sequence
of records its entries come from, all arrays of a generation are read at once. A checkpoint
may or may not be written in a generation in which one can be due.

## 3. The runs

All finish within three minutes. "Deadlock" means that TLC also found no
state without a next step; it is switched off where the system really stops or may hang: after
the death of a process the runner may block in `accept`, and a GP run, `evaluate_pop`, or an initial
population that is given up, comes to its end.

| Run | Instance | Shows |
|---|---|---|
| `rounds` | 3 children, batches of 2 generations, ratio 1/5, no deaths, deadlock | `TypeOK`, `OneReportPerBatch`, `FairComparison`, `CommandFindsChildPaused`, `LockstepSteps` |
| `live` | 2 children, 1 death, the reaper goes on, stops or crashes the runner | `SoleSurvivor`, `NobodyForgotten`, `Termination`, `RoundsProgress`, `PruneObeyed` |
| `midbatch` | 3 children, 1 death | finding: `FullBatchBeforePrune` fails |
| `survivor` | 2 children, 1 death | finding: `SurvivorCompletes` fails |
| `stats` | 2 subpopulations of 3, lists of 2, 3 generations, elitism 1 | `TypeOK`, `SavedCountsExact`, `SavedListWhole`, `NoCopyLeaks`, `HeaderIsTop`, `NewbestHeadsBothLists`, `EliteNeverLost`, `KeepsTheBest` |
| `checkpoint` | checkpoint every generation, 1 kill, 2 restarts | `SavedCountsExact`, `SavedListWhole`, `ErcCountsExact`, `ErcsOfTreesActive` and `KeepsTheBest` across a restart |
| `exchange` | 2 subpopulations of 2 whose table sends nobody, one individual for the worst, two by fitness the other way and one at random, fitness 0 or 1, 1 constant | `ErcCountsExact`, `RunEnds` |
| `resumable` | 2 constants, a checkpoint at the end, 1 restart, no kill | finding: `ResumedRunLeavesCheckpoint` fails |
| `uneven` | 5 individuals, 4 threads (chunks of 2, 2, 1 and 0) | `TypeOK`, `NoSharedIndividual`, `EvaluatedOnce`, `ParamOutlivesThreads`, `Returns` |
| `breed` | 2 individuals of two trees, four functions of two types (one EXPR, one ERC), four phases, three settings of elitism, `probabilistic_operators` and `ignore_limits` | `TypeOK`, `WithinLimits`, `CacheTruthful`, `ParentsHaveFitness`, `KeepTrying`, `CrossoverConserves`, `GenerationEnds` |
| `app` | 3 and 2 records, 3 fitness cases, 3 individuals, 3 generations, 1 resumed process | `EveryRecordOnce`, `PerfectMeansPerfect`, `ImplementsSplit` |
| `resumedcases` | as `app` | finding: `ResumedRunEvaluates` fails |

Why the bounds are enough to be interesting. Three children are needed for "one
reports and dies, one is pruned, one survives"; two generations per batch tell a
grant's first generation from its last, and up to six generations give two full
rounds and the end of the evolution by the generation limit; two fitness values
give an order and ties. Two subpopulations of three with lists of two make lists
that overflow, tie and merge from both sides; three generations let a copy enter, be
displaced and be collected. Two constants, in `resumable`, let one be inherited while the other is
freed and made anew. In `exchange` one constant is used by any number of the four individuals; the
entry with `worst` leaves one slot of two for the entry with `random`, which may draw the wrong one any number of
times, and the entry by fitness, which replaces a whole subpopulation, finds nobody, one or two of
a positive fitness there and ends only with two. Two restarts let a resumed process resume again.
Two children are enough in `live`, whose `SoleSurvivor` and `NobodyForgotten` are proved for
any number. In `breed` the first tree may have 2 nodes and no limit of depth, the second 5
nodes and depth 2, and both together 6: each of the three limits is the one that decides
for some pair of subtrees, and an EXPR function inside an EXPR function fits, so that a replacement
changes the outer skip node. Two individuals make every pair of parents, also a parent
with itself, and an odd place left for one offspring; two attempts can be used up by
one tree over its limit and one duplicate. There is no bound on generations. In `app` either class
can run out while the training set is drawn, and the testing set then has records of one or of both classes;
of the individuals one is right about everything, so that the application ends the run. Symmetry is used
only over children and never with a liveness property; `rounds` uses
it with the box-action formula `LockstepSteps`, which is symmetric in the children.

`Termination` is about behaviours in which no process and not the runner dies, and
`RoundsProgress` excuses a runner that crashed in its reaper; the run has all the
others too, which is what `PruneObeyed` is about. `RunEnds` excuses a run that stays in the loop
exch.c:458-462 for ever because it selects by fitness and nobody of a positive fitness is left to replace
(`Spins`); this happens in the run `exchange`, and without the excuse TLC finds it. In `stats`, `checkpoint` and
`exchange` the steps of the statistics use `\E x \in {...}` where LET would do: TLC
evaluates a bound variable once.

Fairness. `FairSpec` of `PyramidSearch` has weak fairness on the runner, on each
thread of each child and on each wrapper: all are loops with a sleep or a poll with
a timeout of a millisecond that the operating system schedules again and again. No
fairness is put on deaths. `GpRun` has it on the steps of the process and not on `Kill`
or `Restart`, and strong fairness on the draw of each individual to be replaced: the random number generator
does not pass over an individual for ever that a draw may return again and again, which is what lets `fitness`,
`tournament` and `random` get past those that have just arrived. Nothing is assumed of individuals that the method cannot return. `EvaluatePop` on the GP thread and on each evaluating thread and not on a
failing `pthread_create`. Evaluation of an individual is assumed to end. `Breeding` has it on
the steps of the initial population, which one thread does without waiting for anything, and not on breeding,
where an operator that keeps trying may go round for ever. `RiceApp` needs none.

## 4. What was found

* **A dead child's report ends the round** (`midbatch`, main_new.cpp:308). The round ends
  when there are as many reports as children, and reports of children that have
  died since still count. Another child can then be pruned in the middle of its
  batch, on an older fitness.
* **The survivor can lose its wakeup** (`survivor`, app.cpp:168-172). The GP thread tests
  `generations_left` and stores `paused = true` later; a command handled in between is
  overwritten. Without deaths the protocol rules this out (`CommandFindsChildPaused`),
  after a death it can hit the last child, which no further command wakes.
* **A resumed run can destroy its checkpoint** (`resumable`, ephem.c:317). Constants
  read from a file have no `f` unless a tree names them; writing them again follows it.
* **A resumed run cannot evaluate** (`resumedcases`, app.cpp:542). A checkpoint has two of the
  eight arrays of fitness cases, and a resumed process fills no others: its first
  evaluation reads through null pointers.

Observations that are not runs:

* Children whose fitness ties with the cutoff are pruned too; when all tie, the search ends
  with no survivor. A child whose runner has died waits for ever.
* The size printed for the best of the run can be that of another individual with the same fitness
  (gp.c:763-785). `HeaderIsTop` is what does hold: fitness, generation and
  subpopulation of the header are those of the individual printed first.
* Overselection multiplies widths by the proportion and does not scale the two groups to it
  (fitness.c:239-247): with the defaults the first group is selected in about
  65% of the cases, where chapter 5 of the manual says 80%. `input.file` uses plain `fitness`.
* `num_times` is uninitialised for a mutation phase that does not name it (mutate.c:74-84), and
  for both operators it is read as a truth value, so only 0 and 1 can be asked for.
* `ignore_limits` skips the limit of the whole individual and the duplicate check, but not the limits
  of the trees.
* The first breed phase can be taken even if its rate is 0, and when no individual has any
  fitness, fitness selection always takes the last one.
* The methods `best` and `worst` do not look at the end of their list (bstworst.c:50): an exchange of
  more individuals than the source or the destination has reads past it.
* An exchange draws until the individual to be replaced has not just arrived (exch.c:458-462). With
  `toselect = fitness` it never ends when all that are left have fitness 0, which an individual without a hit has
  (app.cpp:521), even if it sends fewer individuals than there are; with any of the drawing methods it never
  ends when it sends more. `input.file` asks for no exchange, so the search as configured there does not meet it.
* The process exits when one class of records has run out, although the other
  could have filled the training set.

## 5. What is proved

`PyramidProofs` proves `Spec => []IInv` for `PyramidSearch`, and from it `TypeOK`,
`SoleSurvivor` and `NobodyForgotten`, from the assumptions in `Ipc`, `GpClient` and
`Runner` only: a finite non-empty set of children, natural fitness values, a positive
batch, any generation limit, any ratio below one, any number of deaths and any
outcome of the reaper. The two properties are not inductive. `NobodyForgotten` needs
to know that the runner erases only what is closed, which for the reaper means that
an exited process has closed its end (`Bookkeeping`). `SoleSurvivor` needs three more
facts: while the unlimited budget is being sent there is nobody else to send to
(`LastExecution`), the loop's `todo` never leaves `children` (`Bookkeeping`), and what
has been erased is closed (`NobodyForgotten`). Types need `Handshake` and `AcceptPhase`:
the runner reads packets only from connections whose pid it has taken, and a pid
can only be the first thing in a connection. The proof has one lemma per action or
group of actions, and under it one step per conjunct of `IInv`.

`EvaluatePopProofs` proves `Spec => []IInv` for `EvaluatePop`, for every population size
and number of threads, and from it `TypeOK`, `NoSharedIndividual`, `EvaluatedOnce` and
`ParamOutlivesThreads`. The arithmetic is in `ChunksHoldEverybody`: the rounded-up chunk
size times the number of threads reaches the population size. `Chunks` says that
chunks made so far are pairwise disjoint and hold exactly what lies below `start`;
`Progress` that all of them are full or the population is used up, which with the
lemma makes `start = Size` when the last thread is created; `Evaluations` that a
thread has finished what is behind it in its chunk and touched nothing ahead;
`Untouched` that nothing above `start` has changed; `Joined` that a joined thread has ended.

The second half of `PyramidProofs` is about `MaxCrashes = 0`, a hypothesis of its four theorems:
`OneReportPerBatch`, `FairComparison`, `CommandFindsChildPaused` and the refinement
`LockstepSteps`, for any number of children. That hypothesis is needed, as `midbatch`
shows, since a single death breaks the rounds. The invariant is about a round that began
when everybody in the race had evaluated `b` generations, and says where a child can
be at each place of the runner's loop (`ChildRound`): waiting at `b`, told to stop but
not gone (`Told`, or `Doomed` if a budget has been sent behind that), using a budget
(`GrantedOf`: sent, half applied or running), or waiting at the end of his batch with one
report that is queued, on its way, read or counted (`Reported`). `OneReportPerBatch`
and `FairComparison` are what these exclude. That `fitness_storage` has as many entries
as there are children only when all of them have reported is a counting argument: the
reports are mapped one to one to children. For the refinement, a generation is a step
inside a batch (`InsideBatch`), a grant finds nobody behind (`NobodyBehind`), and the
unlimited one goes to a child without rivals (`SoleSurvivor`).

`RiceAppProofs` proves `EveryRecordOnce`, `PerfectMeansPerfect` and `ImplementsSplit` for
any data, any number of cases and individuals, and any number of resumed processes.
`LoaderInv` counts: every record is somewhere (`NoneLost`), and the two sets and what is left of
both classes have as many places as there are records (`NoneTwice`); together no record has
two places. `OwnCases` says that a process that did not resume has the cases of its
own training set in every column, and that the hits of its best individual are of them;
`ResumedCases` that a resumed one lacks columns and so never finds a new best;
`InTurn` that shuffling, training and testing follow each other. `EveryRecordOnce` is not
inductive, since what is drawn next comes from the vectors behind the cursors, and
`PerfectMeansPerfect` needs that the hits were counted on this process's training set.

`GpRunProofs` proves `Spec => []Invariant` for the run of one GP process, and from it the nine
invariants that the runs `stats`, `checkpoint` and `exchange` check, for any number
of subpopulations, individuals, list entries, constants, addresses, exchanges,
kills and restarts. Its `Invariant` has seven parts:

* `Control`: types, and whose turn it is.
* `Turns`: which records of a generation are empty at which point. Without it a merge could
  start from a record that another generation has left behind.
* `Lists`: the list of saved individuals is whole (`tail`, count, no copy twice), each
  record's best list is full and points at copies that are on it, its header is that of
  the first of them, and each copy's `refcount` is the number of pointers to it. That is what `calculate_pop_stats`, the
  merges and the collection must keep, so it holds between any two of them.
* `Ages`: the individual that heads a record is of the generation the record says. It
  makes `newbest` mean what it should: heads of different generations are different.
* `Ercs`: the reference count of each constant is the number of its users, in the populations
  and in the saved copies, and after a collection none is idle.
* `Files`: all that of each checkpoint, which is what `Restart` needs.
* `Elite`: with elitism and no exchanges, each population has somebody with a valid fitness
  who is as good as the best of the run so far. `EliteNeverLost` follows; it needs
  the hypotheses, since an exchange may overwrite the best.

Reference counts are cardinalities of sets of pointers. `CountingProofs` has what the
provers lack: the number of pointers after one row of pointers has been replaced by another
(`Replaced`), counting by a one-to-one map, and that a function defined by recursion on a natural
number is what its equation says (`Iteration`, by a least counterexample instead of an
induction scheme, which the provers cannot instantiate). `SavedProofs` applies that to each
operator of `SavedIndividuals` (`InsertTop`, `MergeTurn`, `CalculatePopStats`,
`Accumulate`, `SavedIndividualGc`) and `GpRunProofs` to each step of `GpRun`: one lemma per
part of `Invariant`, under it one step per action.

Its second half proves the refinement `KeepsTheBest`, from the same assumptions: what the code
does with best lists, copies, reference counts and checkpoints is what `BestOfRun` says, the best
fitness values of everybody evaluated so far, each counted once. A best list is compared with a
crowd: a function that says how many individuals reach a fitness. The list ranks the
crowd (`RowRanks`) if its entry `k` reaches exactly the values that at least `k` of the crowd reach,
which holds of one list only, the one `BestOf` describes (`RowIsBest`). `TopSlotsFacts` proves this of
`calculate_pop_stats` and one population, one insertion after the other, and `MergeRanks` of the merge
of two lists and the two crowds together (`NextTaken`: with `j` and `k` entries taken, the better
one of the next two is the one that `j + k + 1` individuals reach). To `Invariant` the refinement adds
`Tally`: between two turns the generation's record ranks the subpopulations that have had theirs, and
everyone has been evaluated by then; the run's record falls from entry to entry, which makes it rank
itself; and `FileTally`, the same of each checkpoint. Every step of `GpRun` is then one of
`BestOfRun` or one that it does not see (`BestStep`).

`TreesProofs` is about the arrays of `lnode`s, for any functions and any arrays. What the kernel
does with them is recursive, and the recursions go by position: a function defined by one is
described by an equation, some function fulfils the equation, and a least (or last) position where
another one that fulfils it would differ is impossible (`FromBehind` in `CountingProofs`).
`Shape` says that an array is a tree: a matrix `K` gives for every function in it where each of its
children begins and ends, the children are of the types of its arguments, they follow each other
without a gap, and each skip node of an EXPR function has the length of the child behind it.
`Parsed` says that there is such a `K`, and `ParsedIsTree` that the array then is a tree for the
reference `IsTree`. From `K` follow

* `MeasureFacts` and `ShapeFacts`: what `tree_nodes`, `tree_depth` and the others count is the number of
  nodes within a subtree, and the depth the longest chain of nodes one inside the other;
* `ReplaceFacts`: `copy_tree_replace_many` yields the array in which the new subtree stands in the place of the old
  one and all skip nodes around it have changed by the difference in length; that array is a
  tree (`SplicedShape`), which takes for each position whether it is before, around, within or behind the
  place;
* `ReplacementForeseen`: the new tree has the number of nodes that `crossovr.c` and `mutate.c` compute
  before they make it. Depth is different: they compute the depth of the new subtree at its place, not of
  the new tree. That this is enough is because the rest of the tree was within the limit before;
* `EvaluateMeaning`: `evaluate_tree` ends each child where the skip nodes and `K` say, and finds its value;
* `GeneratedTreesParse`: the generators make trees, by recursion on the depth.

`BreedingProofs` proves every safety property and action property of the run `breed`: `TypeOK`, `WithinLimits`,
`CacheTruthful`, `ParentsHaveFitness`, `KeepTrying` and `CrossoverConserves`, for any population
size, functions, tree map, limits, phases, settings and random values. Hypothesis of all six:
the application's fitness is a natural number, whatever the trees compute (`AFitness`). The
assumptions on the constants are `TreesAssumption` and `BreedingAssumption`: at least one tree per
individual, functions and argument types that fit together, limits that are integers (-1 means none),
depths that are not negative, and function sets of which a tree can be made. The first two describe
the tables of `app.cpp`, and `mutate.c` tests its depths (mutate.c:259). `populate.c` does not test
those of `init.depth`: with a negative one the full generator never comes to its last level, and such
a setting is excluded. The invariant `IInv` has these parts:

* `Population`, of both populations: each member is an `Individual`, whose trees are `Proper` (of the type of their
  place and within their limits), whose node counts are those of its trees, which is within the limit
  for individuals unless limits are ignored, and whose cache is what `EvaluateTree` finds.
* `Sizes`: how many members both populations have at which point, and that everybody is evaluated when breeding begins.
* `Half`: the trees of the half-made individual of the initial population are proper, and the attempts left.
* `Operation`: an operator call under way has parents that its methods pick, and trees that exist.

An individual made by an operator is an `Individual` because what was found not to be bad is
`Proper` (`NotBad`, from `ReplacementForeseen`), and because the cache is dropped (`OffspringFacts`);
`SubtreeParsed` says that the subtree that crossover takes out of the other parent is a tree by itself. `CacheTruthful` is `Cached` with
`EvaluateMeaning`; `CrossoverConserves` needs that a replacement changes the
number of times a function occurs by what the two subtrees have of it (`CountReplaced`), and is
stated for two offspring that are both new or both copies, since with different limits one may be kept
and the other made.

`ParentsHaveFitness` is about `Selection`. `SelectIntervalFacts`: the binary search keeps the random
value between its two ends, so its answer is an interval that holds the value and hence has a width.
`FitnessPicksFacts` and `OverselectPicksFacts` carry that to fitness: the widths add up to
the total that the random value is drawn from, and if all of the preferred part has fitness 0
then everybody has, since the part is the top of the sorted order. `TournamentFacts` says that
a tournament has a winner among those drawn, and `PhaseChosen` that the search
for a phase ends on one. `KeepTrying` follows from what the loop's condition says after each turn
(`AgainIInv`).

TLC does not check `IInv` of `BreedingProofs` itself, since `Parsed` asks for some `K` of an infinite
set: it checks what follows from it, the properties of the run.

Only model-checked:

* Liveness (`Termination`, `RoundsProgress`, `PruneObeyed`, `Returns`, `RunEnds`,
  `GenerationEnds`), which is out of the proof system's reach, like ENABLED.
* That four properties fail (section 4): a counterexample is found by a run.

Induction over data is out of reach with the library's theorems, whose parameter is an
operator. `Iteration` and `FromBehind` replace it for recursion over natural numbers and over positions,
by a least counterexample. No module declares a RECURSIVE operator.

## 6. Not modelled, and the plan

Not modelled because there is nothing to check or it is not part of the program:
parsing, printing, memory counters and random numbers; the arithmetic of the
application's functions; the other lil-gp kernels and applications, Open BEAGLE, BLT
(whose sources are not in the repository), the data, the report and the scripts;
`main_old`, which is dead code. Excluded by an assumption because the program is
undefined there (the assumptions of the modules say so): a best list or an elite larger
than the population (gp.c:787, change.c:81), an exchange of a subpopulation with itself
(exch.c:478), a sorted list from which an exchange draws more often than it is long
(bstworst.c:50, `ListAssumption`), a prune ratio of one (main_new.cpp:314), a batch of no generations
(app.cpp:168), and function sets for which a tree cannot be generated (tree.c:354, whose
result populate.c and mutate.c do not look at). A training set of no records, which app.cpp:348 accepts, is
excluded too. An output that is no number, which counts as a miss whatever the class, is not a value of the models: an individual of `RiceApp` takes each record for one of the
two classes. Failing forks (main_new.cpp:436)
are left out: the runner of the model has forked all its children.

Of the modelled parts, these are left out: evaluation tokens and arguments (ADFs), of which
the application has none, and composite exchanges, which need more than one
tree; initial individuals read from a file; `fitness_overselect` for the individuals that an exchange replaces; the selection methods `inverse_fitness`, `sigma` and
`boltzman`, whose widths are reciprocals, roots and exponentials of doubles; parsing of options;
the start-up of the network thread before its socket exists (app.cpp:265). Most of the
source lines in the repository belong to the parts named above that nothing builds: of
the kernel, the application and the runner, the models cover all that decides the course
of a search.

All invariants and all action properties of the passing runs are proved. What is left to model, in order:

1. `ExchangeTopology` and composite exchanges for more than one tree.
2. `ClientStart`: the start-up and shut-down of the client's threads and descriptors; the
   composition of `GpClient` with `GpRun` in place of the abstract generation.
