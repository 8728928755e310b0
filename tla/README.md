# A verification project for the Stan Math library

TLA+ specifications of the stateful core of this library, checked with TLC on
small instances and, where a theorem is worth it, proved with TLAPS for every
value of the constants. The source is the reference: each definition is a
translation of the lines `PROJECT.json` ("map") names. Paths below are relative
to `src/stan/math/`.

## The system

Stan Math computes functions together with their derivatives. Nearly all of its
200 000 lines are pure floating-point functions. What is hard to get right and
hard to test is the machinery under them: memory that lives as long as an
expression, a tape of operations swept backwards, scopes nested in each other,
threads and processes that each have a tape, and a device whose commands run
out of order.

| component | state | operations | talks to |
|---|---|---|---|
| Arena allocator, `memory/stack_alloc.hpp` | heap blocks and their sizes, the current position, one mark per nested scope | `alloc`, `start_nested`, `recover_nested`, `recover_all`, `free_all`, `in_stack`, `bytes_allocated` | malloc; called by the tape |
| Reverse-mode tape, `rev/core/` | three stacks of pointers (varis with `chain()`, varis without, heap objects), three vectors of marks, the arena, the adjoints | vari and chainable constructors, `start_nested`, `recover_memory(_nested)`, `grad`, `set_zero_all_adjoints(_nested)` | arena; every function of the library |
| Tape lifecycle, `autodiffstackstorage.hpp`, `init_chainablestack.hpp`, `scoped_chainablestack.hpp` | `instance_` per thread, map from threads to tapes, ownership flags | observer entry and exit, construction, `execute` | TBB scheduler callbacks |
| Parallel reduction, `rev/functor/reduce_sum.hpp` | one reducer per task with a tape, a sum and adjoints | split, run a range, join | TBB, scoped tapes |
| Parallel map, `rev/functor/map_rect_concurrent.hpp` | outputs per job | run a chunk, combine | TBB or MPI |
| MPI cluster and call, `prim/functor/mpi_*.hpp` | listening flag, lock, caches per call site on every process | `listen`, `stop_listen`, broadcast, the collectives of one call | boost::mpi |
| OpenCL matrices, `opencl/` | buffers, read and write events, views | kernel launch, copy, move, wait | an out-of-order queue |
| Profiling, `rev/core/profiling.hpp` | counters, timers | start and stop of a pass | tape |
| Functions, distributions, solvers, forward mode | none beyond what they put on the tape | pure functions | tape |

Which behaviours are hard, line by line, is the list "hazards" of
`PROJECT.json`. In short:

* *Arena*: any mix of requests, scopes and recoveries must keep memory in use
  disjoint and inside the heap's blocks; a mark must still be good after the
  arena grew past it and came back. After a failed malloc the code keeps neither
  (see Findings).
* *Tape*: four mark vectors in four places must always be taken and restored
  together, also when a constructor throws, an exception unwinds scopes and
  sweeps, or a `chain()` called by a sweep opens scopes that grow and shrink the
  very stack the sweep indexes.
* *Threads*: a tape belongs to a thread, is made and deleted by callbacks, and
  may be swapped for another by a scope.
* *MPI*: root and workers must take part in the same collectives in the same
  order although any of them may fail in its part of the work.
* *OpenCL*: the only order is what each kernel's arguments say it must wait for.

## Modules

    Arena                what an arena promises (abstract)
    StackAlloc           stack_alloc                        implements Arena
    StackAllocReplay     StackAlloc and a log of calls      EXTENDS StackAlloc
    StackAlloc_proofs    regions, lifetimes, repetition     EXTENDS StackAllocReplay
    AdTape               the tape and the control flow      uses Arena
    AdTapeGradient       the chain rule as a reference      EXTENDS AdTape
    AdTape_proofs        stacks, frames, the chain rule     EXTENDS AdTapeGradient
    MpiMapChunks         mpi_map_chunks, its loops and its closed form
    MpiMapChunks_proofs  the two agree, the root works      EXTENDS MpiMapChunks
    MapReduce            what a distributed map_rect promises (abstract)
    MpiCluster           processes, channels, commands, shutdown
    MpiParallelCall      one call of a cluster, with caches EXTENDS MpiCluster
                                                            implements MapReduce
    MpiParallelCall_proofs   in step, same caches, answers  EXTENDS MpiParallelCall
    TapeThreads          which tape a thread works on
    TapeThreads_proofs   owners, scopes, work undisturbed   EXTENDS TapeThreads
    ReduceSum            reduce_sum and map_rect on threads
    ReduceSum_proofs     types, the sum, one chain per tape EXTENDS ReduceSum
    OpenclEvents         matrices, their events, the queue
    OpenclEvents_proofs  order of commands, freed memory    EXTENDS OpenclEvents
    InductionLemmas      induction as facts about sets, sequences and sums, for the proofs

`Arena` stands between the two components: `StackAlloc` is shown to implement
it, and `AdTape`, whose memory is a plain sequence of addresses, is shown to use
its memory only as `Arena` allows. Together they let the tape be checked without
the blocks and the allocator without the tape.

### Arena, StackAlloc, StackAllocReplay

A pointer is a pair of block index and byte offset. `blocks_`, `sizes_`,
`cur_block_`, `cur_block_end_`, `next_loc_` and the three `nested_` vectors are
the members of the class; indices count from 0 as in the code, so `sizes_[i + 1]`
is the code's `sizes_[i]`. `live` and `failures` are history. `alloc` is three
actions and a failing one, after its branches: `AllocInBlock` (the fast path),
`AllocReusesBlock` and `AllocNewBlock` (`move_to_next_block` finds a recovered
block or asks the heap), `AllocThrows` (malloc returns null). The code pushes
the result of malloc before it tests it and the size after, so after a failure
`sizes_` is shorter than `blocks_` and is read past its end; what such a read
yields is any member of `JunkSizes`. From then on a block may be entered with the
size of another, so an offset no longer says which bytes of the machine it means:
`Disjoint` takes regions of different blocks to be apart only if both lie
`Inside` their block, and `NoOverlap`, `InBounds` and the addresses `Arena`
promises are about the time before malloc fails. What is claimed after that
too is the alignment of offsets and which lifetimes a recovery ends.

`recover_all` and `free_all` are modelled outside nested scopes and
`recover_nested` inside one, the only ways the library calls them
(`recover_memory` and `recover_memory_nested` throw otherwise).

`StackAllocReplay` adds a log of the calls since the last recovery and the log
before that, to state what keeping the blocks is for: the same evaluation gets
the same memory and no new block.

### AdTape, AdTapeGradient

The state is `AutodiffStackStorage` (`var_stack_`, `var_nochain_stack_`,
`var_alloc_stack_` and their three mark vectors), the arena seen as a sequence
`varis` of addresses in allocation order with the adjoints `adj` and the
allocator's own marks `nested_next_locs_`, the set `heap` of
`chainable_alloc` objects that exist, and the C++ stack: `control` is a sequence
of frames, a `nested_rev_autodiff` object, a running `grad()` with its two local
variables, or a `chain()` that has opened scopes; `exception` says whether one
is in flight.

A vari has operands with partial derivatives, the vari whose adjoint it reads
(itself, or the result of a `reverse_pass_callback`), whether its `chain()`
nests, and the chainable objects it reads. Values are left out: what a
derivative is has no bearing on how it is propagated. The actions are the
constructors, the six free functions of `rev/core`, one turn of the loop of
`grad()`, and what C++ does: a destructor at the end of a scope, unwinding frame
by frame.

The program that uses the tape is arbitrary within the rules the library's
own callers keep: inside `chain()` new varis are only made in a scope opened
there and from varis made there, all adjoints are zeroed only outside sweeps, and who catches an exception
has left the scope it was thrown in or recovers the whole tape. Dropping the
last rule is what the constant `CatchInScope` is for (see Findings).

A sweep is only started while the adjoints the program can name are at most
`MaxAdj`, so that repeated sweeps end; within a sweep it is the adjoints of the
varis of the scope its `chain()` opened that count.

`AdTapeGradient` defines the derivative of one vari with respect to another as
a sum over the paths of the expression graph, with no tape and no order, and
states that a finished sweep has added exactly that to every adjoint, a sweep
that a `chain()` runs in its own scope included.

### MpiMapChunks

The three statements of `mpi_map_chunks` as a state machine, one iteration of
the middle loop per step, beside the closed form `MapChunks`, in which a rank's
count is a formula. The parallel call uses the closed form; the theorem that
the loops compute it is what allows that.

### MpiCluster, MpiParallelCall, MapReduce

A process is its location `at[p]`: the collective it takes part in, `command`
for a worker that waits in `listen()`, `evaluate` for the loop over the jobs;
on the root also `ready` (listening, no call), `held` (a call is over and its
call object, with the lock, alive) and `outside` (not listening). boost::mpi is
external: `down[w]` and `up[w]` are queues of at most `Capacity` messages. A
broadcast or scatter returns on the root when there is room for its message, so
the root may be ahead of a worker, and a worker ahead of the root, by as much as
MPI buffers. Each message carries the name of the collective that sent it; the
code's messages carry none, which is why `CollectivesMatch` must hold.

`cache[p]` maps the members of a call_id whose `mpi_parallel_call_cache` is valid
on process p to their data: `chunks` (member 4), `shared_size` (-1), `dims` (-2),
`x_r`, `x_i` (1, 2) and `f_out` (3). `num_outputs_per_job_` is a static member of
a template instance, so there is one per process and kind, while kinds share the
caches. `local[p]` holds what the call object and `reduce_combine` keep. Each
process decides from its own `cache[p]` which collectives to leave out
(`SetupFrom`, `FirstEvaluation`, `AfterOutputsPerJob`), as the code does.

A job is its number, and the parameters, data and outputs that belong to it are
that number; so an output made of the parameters of one job and the data of
another, or read from memory nobody wrote, shows (`Junk`). What a job does is
chosen by the request: it returns some number of columns, throws, or calls
`map_rect` itself. `ResultOf` is what `map_rect_mpi` makes of the last: on the
root the lock is taken and the call is evaluated serially; on a worker the
constructor throws before the lock is asked for.

`MapReduce` has no processes: a request is answered by all outputs in job order,
or by an error if a job throws or its number of outputs is not the one known
from the first good evaluation, and it is answered. The map is: `known` is the
root's `f_out` cache, and a job that calls `map_rect` counts as what becomes of it.
A call that falls back is answered on the spot, without a request: its answer is
the outputs of all jobs of some outcome the jobs can have (`Evaluations`, in the
map the outcomes of jobs all run by the root, `SerialOutcomes`), or an error exactly
if one of them throws.

### TapeThreads

`instance_` and `is_initialized` are the thread-local variables of
`AutodiffStackSingleton`; `heap` is the set of storages `init()` has allocated.
An observer's map from threads to tapes is `entry[o][t]`, which also keeps
whether the entry is the one with `own_instance_`, or the `nullptr` a throwing
`make_unique` leaves. `frames[t]` is the C++ stack of thread t: local
`ChainableStack` objects and `activate_scope` objects with the `parent` they
restore. `Construct` and `Destruct` are the constructor and destructor, used by
observers (`OnSchedulerEntry`, `OnSchedulerExit`) and by jobs (`ConstructLocal`,
`DestructLocal`). `ConstructThrows` is the `new` of `init()` failing, for either:
the flag says initialized by then and there is no storage.

The TBB calls the observers. What the module assumes of it: each observer is
told of a worker before the worker's first task and of any other thread at some
time after that thread first used the TBB; all are told when the thread leaves;
the order among observers is arbitrary both times. A thread of the program
constructs a `ChainableStack` before it uses autodiff in a job, which the
comment at `autodiffstackstorage.hpp:64` asks for; observers may be told of it
in the middle of a job, and that it leaves only between jobs.

### ReduceSum

A chain is one evaluation of a model: it builds its expression on the tape of
its thread, calls `reduce_sum` or `map_rect`, and later calls `grad()` and
`recover_memory()`. A range may make such a call too (`CallInRange`), as a user's
function does that calls `reduce_sum` or `map_rect` itself: its thread waits for
that call within the range, and any thread may help and call again. `stack[t]` is
what thread t is running, a chain, a range of a reducer, or a call made by the
range below, each on top of what waits for it. `tape[t]` names the chains whose
varis are on the thread's `instance_` outside nested scopes; a call made by a
range has its varis in the scope of the range.

`reducers[c]` are the `recursive_reducer`s of the call of chain c, each named by
its first term: the terms it is to run, the next one, the members `sum_`,
`args_adjoints_`, the copies of the shared arguments and their adjoints. Instead
of a number, a value holds how often each term is in it; an adjoint likewise.
`Prepared` and `Ran` are `operator()` before and after the user's function,
`Joined` is `join`. `map_rect_concurrent` runs ranges of jobs the same way, with
an output per job instead of a sum.

The TBB is external: it may split a reducer between ranges, run the ranges of a
reducer in their order on any thread, and join neighbours that are done. Which
tasks a thread may take is `MayTake`: any when it has nothing to do; when it
waits for a call, those of that call, and others too unless the call waits inside
`this_task_arena::isolate`. A term may throw: the nested scope of its range is
recovered, no further ranges start, and the call rethrows when those under way
have ended.

### OpenclEvents

A `matrix_cl` is its buffer and its two lists of events. `commands` is
what has been enqueued: which buffers a command reads and writes, which events it
waits for, whether it is done; an event is the index of its command. The device
may finish any command whose waits are done. Every constructor, assignment,
kernel launch and read of the host is an action that says which events go into
the wait list and which lists get the new event. `Shared` buffers come from
`to_arena` and `arena_matrix_cl`: two matrices, one buffer, two pairs of lists
that grow apart. A program is assumed not to write a matrix while another
shares its buffer, which would change the value of both, and to use a matrix on
one thread of the host at a time.

OpenCL may refuse a command, a buffer or a callback, and sizes may not match
after the first columns are on their way (`FromHostThrows`,
`CopyConstructThrows`, `CopyAssignThrows`, `AssignThrows`). A command that is under
way on a buffer while no list of a matrix with that buffer holds its event is
`lost` there: an assignment dropped the event, or a constructor or copy threw
between the enqueue and noting it (see Findings). The properties exempt a lost
command on that buffer, for nothing in the code waits for it, and say that
every other command is still in order: what throws disturbs only what it lost.

## Runs

| run | question | states |
|---|---|---|
| `StackAlloc` (module `StackAllocReplay`) | is memory in use disjoint, in bounds and what `in_stack` says until malloc fails; is it aligned except as block starts explain, and is `Arena` implemented, also with a failed malloc and reads past `sizes_`; does the same evaluation get the same memory with no new block | 4 900 000 |
| `AdTape` | with sweeps whose `chain()` opens scopes, throwing constructors and exceptions: do stacks, marks, arena and chainable objects agree; do sweeps survive nesting; is nested zeroing exact; is the arena used as it allows | 1 100 000 |
| `AdTapeGradient` | is a sweep the chain rule, with shared and repeated operands, callbacks, repeated sweeps, and sweeps that a `chain()` runs in a scope of its own over varis with operands, in the middle of the sweep that called it; does that sweep go on where it was | 3 700 000 |
| `AdTapeThrowingChainable` | finding: a chainable object is destructed only by recovery | violated |
| `MpiMapChunks` | do the loops compute the closed form, inside the vector, with a job for the root | 600 |
| `MpiParallelCall` | do root and worker stay in step and agree, over any sequence of good and failing calls of two kinds; is `MapReduce` implemented; do workers come back and stop | 71 000 |
| `MpiParallelCallThree` | the same with two workers at different points of a call, fewer jobs than processes, and jobs that call `map_rect` themselves | 66 000 |
| `MpiNestedFallsBack` | finding: a nested `map_rect` is evaluated serially | violated |
| `TapeThreads` | has a thread at work a tape, reachable by no other thread, with one owner, unchanged by callbacks and scopes | 255 000 |
| `ReduceSum` | is every term in the value and in the adjoints once, has a chain its tape to itself, does every call return, with terms that throw and ranges that call in turn | 95 000 |
| `ReduceSumDouble` | finding: the wait of a parallel call is isolated | violated |
| `OpenclEvents` | are conflicting commands done in the order they were enqueued, and is no buffer given back while a command uses it, but for commands an operation that threw has lost | 550 000 |

Every state of the passing runs has a successor that the code really takes:
deadlock is checked, except in `MpiMapChunks`, a function that returns.

### Bounds

* `StackAlloc`: a first block of 16 bytes and requests of 8, 12 and 40 bytes:
  one that fills half a block, one that is no multiple of eight, one larger than
  twice the first block, so that all branches of `NewSize`, skipped blocks and
  blocks too small to reuse occur. Four blocks let a search skip one and stop at
  the next; two scopes let a mark lie below a mark.
* One failing malloc leaves the null block, and either a `sizes_` that later
  growth makes wrong or a read past its end, for the properties that are claimed
  then.
* The log of `StackAllocReplay` holds four calls, two switches of blocks each way.
* `AdTape`: three varis and two scopes give an outer scope, a sweep in it and a
  scope in the sweep's `chain()`, each with a vari of its own; two chainable
  objects give an order to delete them in. Its partials are 1 and `MaxAdj` is 0: a
  sweep starts over adjoints that are zero but for its seed. That is enough for
  what the run asks, which is about stacks and lifetimes.
* `AdTapeGradient`: four varis give a diamond, the smallest graph on which the
  order of `chain()` calls matters, or an outer vari whose `chain()` makes up to
  three more and sweeps an expression of them. The partial is 2, so that the
  number of edges on a path and the number of paths both show in a sum. `MaxAdj`
  is 2, so a sweep may start over adjoints of an earlier one. One open scope is
  the scope of that `chain()`; constructors do not throw here, as `AdTape` has them.
* `MpiMapChunks`: up to five processes and thirteen jobs: every remainder, with
  none, one and two jobs each.
* `MpiParallelCall`: one and three jobs on two processes are a worker without a
  job and a worker with more jobs than the root; no outputs or two let sizes
  change between calls both ways. Two kinds are needed for a first evaluation
  that finds the caches filled. Nothing bounds the number of calls: the caches
  and `num_outputs_per_job_` take finitely many values. In
  `MpiParallelCallThree` the channels hold one message, the least an MPI library
  may buffer and let a send return.
* `TapeThreads`: the first thread, one worker and one thread of the program, so
  that every kind of thread meets the others; two observers, since what could go
  wrong is their order; a tape for each thread; three scopes and four frames, so
  that a scope is run within a scope and around and inside a job.
* `ReduceSum`: three threads, so that two can run ranges of the call of a third;
  two chains, so that a thread that waits can meet another's tasks, or a range of
  one calls and the other is that call; two terms, the least that are split, run in
  one range or in two, by one reducer or by two. Calls nest two deep.
  The theorems are for any number.
* `OpenclEvents`: three matrices and buffers make a copy of a copy and a share of
  a copy; three commands a writer, a reader and what must wait for one through
  the other. `MaxCommands` bounds what is ever enqueued.

### Liveness

For allocator and tape there is none to state: a program may stop using the tape at any moment,
and every operation is a loop whose bound is read before it starts. What could
go wrong, a sweep that never ends because its own `chain()` grows the tape, is
the safety property `SweepSurvivesNesting`.

A cluster can wait for ever. `FairSpec` assumes that each process goes on when it
can (`WF` of each worker's steps and of the root's steps inside a call): a
process is run by its operating system, and MPI delivers. It does not assume
that the program calls, ends the life of a call object, listens or stops. Under
that, every call is answered (the fairness of `MapReduce`), every worker comes
back to waiting for commands (`WorkersComeBack`), and once the root has stopped
every worker leaves `listen()` or the root listens again (`ShutdownCompletes`).

A parallel call can wait for ever too: all threads could wait for tasks that
isolation forbids each of them. `FairSpec` of `ReduceSum` assumes that a thread
does the work it may do for a chain (`WF` of `Work` per thread and chain), as
the TBB's workers look for tasks until there are none, that reducers that are
done get joined (`WF` of `Join` per chain), and that a range does not make calls
for ever: one of a chain's ranges that can end again and again does (`SF` of
`LeaveRange` per chain). That is the user's function coming to its end; a thread in
a range is otherwise free to call. Nothing makes a program begin a chain, nor split
a range. Under that every call returns (`EveryCallReturns`), those made in ranges
included: the threads that help with a call may wait in turn for calls only they
may help with, and still each finds what it waits for.

Whether the device ever finishes a command, and whether a program ever ends a
scope or a job, is not for this code to say; `TapeThreads` and `OpenclEvents`
state no liveness.

## Proofs

The library states induction with an operator as parameter, which the provers
cannot instantiate. `InductionLemmas` states it for sets instead: from
well-foundedness every nonempty set of numbers has a least one (`LeastNumber`),
so a set that has 0 and with each number the next has all of them
(`InductionOnNat`), and one that has the empty set and with each the sets of one
element more has all finite ones (`InductionOnSubsets`). A proof by induction
defines the set of numbers for which its claim holds. The module also says what
`FlattenSeq` makes of the sequences of a sequence (`FlatNext`, `FlatParts`): the
library defines it as a choice of a recursive function, which `FlattenExists`
shows to exist. Of `SumFunction` it says what one more summand adds
(`SumOverNumbers`): the library folds a set in an order it does not say, and the
order makes no difference.

Of `StackAlloc`, for every initial size, every set of request sizes, any number
of blocks, scopes and failed mallocs, and any value of the undefined reads:

* `TypeCorrect`: `Spec => []TypeOK`;
* `RegionsInBounds`: `Spec => []InBounds`, memory in use lies inside the blocks
  of the heap as long as malloc has not failed;
* `RegionsDisjoint`: `Spec => []NoOverlap`, and until then no two regions in use
  share a byte;
* `MisalignedByBlockStart`: `Spec => []OnlyBlockStartMisaligns`;
* `InStackKnowsLifetimes`: `Spec => []InStackFollowsLifetimes`;
* `AllocatorImplementsArena`: `Spec => ArenaView!Spec`;
* `SameCallsSameMemory`: `RSpec => []ReplayReusesMemory`, of `StackAllocReplay`.

The assumption is `StackAllocAssumption`: the sizes and bounds are natural
numbers. That offsets within a block do not meet (`Apart`) is not inductive: a
state whose position lies before a region in use satisfies it and its successor
does not. The invariant `IInv` adds `Ordered`: the current position is past every
region in use; each mark is a position past every region handed out before its
scope; and no position lies in a block after the current one. Each step of the
proof is one action. `HandOutKeepsOrder` does the work of the three allocating
actions: memory taken at the position or in a later block, with the position moved
past it, keeps `Ordered`. `recover_nested` makes a mark the position: the regions
that remain are those the mark is past. `IInv` holds after a failed malloc too,
but there offsets within a block say nothing of bytes, because a block may be
entered with a size that is not its own. Disjointness is `Apart` together with
bounds.

`InBounds` needs more: that `cur_block_end_` is the true end of the block
`next_loc_` is in, now and in every mark, and that `sizes_` has an entry for
every block. That is `Sound`, and it holds only until malloc fails; `BInv` is
`IInv` with `failures = 0 => Sound`. Blocks are only ever added behind those a
mark names (`MoreBlocks`), except by `free_all`, which no mark outlives.

A misaligned pointer is explained by the first region of its block. `AInv` says
so not of regions alone but of every position, the marks' too (`Explained`),
since the next pointer is a position that a recovery may have brought back.

`in_stack` asks whether an address lies before the position. That this is what
lifetimes say needs `Upward`: marks lie one after the other before the position,
and the regions of a scope begin at its mark or later.

`SameCallsSameMemory` compares two evaluations that may be any number of steps
apart. As long as malloc has not failed the end of a block is the one in
`sizes_`, so where a call gets its memory depends on the position, the marks
and `sizes_` only. `Moves` is that dependence; it has one outcome
(`MovesOneWay`), which blocks appended later do not change (`MovesStay`). The
invariant `RInv` adds to `BInv` that both logs can be walked over the blocks
there are now (`Replays`): the one before ended somewhere, the current one ends
at the current position. Then equal calls get equal memory, by induction
over the log, and a call that needs a new block has no move over the old ones,
so it is not one the log before has.

The step simulation for `Arena` rests on `IInv`: memory a request gets is past all
that is in use, a malloc that fails is the `Fail` of the arena, or a stutter if
it had failed before, and `free_all` is to the arena what `recover_all` is. The
pieces of memory of the arena are the blocks of the allocator; that regions in
different ones share no byte is `RegionsInBounds`, until malloc fails, and after
that the arena says nothing of where memory lies.

Of `AdTape`, for any numbers of varis, scopes, operands and objects, with
`chain()` nesting or not and constructors throwing or not:

* `TypeCorrect`: `Spec => []TypeOK`;
* `TapeOwnsArena`: `Spec => []TapeMatchesArena`;
* `MarksAgree`: `Spec => []MarksInLockstep`;
* `SweepsKeepTheirVaris`: `Spec => []SweepSurvivesNesting`;
* `NestedZeroingStaysLocal`: `Spec => NestedZeroingIsLocal`;
* `SweepsMeetBuiltVaris`: `Spec => []SweptAreBuilt`, if no exception is caught in
  the scope it was thrown in (`CatchInScope = FALSE`);
* `ObjectsTracked`: `Spec => []ChainablesTracked`;
* `ObjectsDeletedOnce`: `Spec => []DeletedOnce`, if no chainable object's
  constructor throws; the finding says what happens when one does;
* `ChainsReadLive`: `Spec => []ChainReadsLiveMemory`;
* `TapeImplementsArena`: `Spec => UsesArena`;
* `SweepsAreTheChainRule`: `Spec => []SweepIsTransposedJacobian`.

The assumption is `AdTapeAssumption`: types and bounds, and that a dangling
pointer is not the address of an object. The invariant `IInv` has two parts.
`TapeOK` is about data: both stacks increase, together they hold the addresses
in use (`Partition`), every mark vector increases (`Cuts`), and a mark of a
stack cuts it where the arena's mark cuts the addresses (`StackOK`). Without the
order `TapeMatchesArena` would not survive a recovery, which truncates the
stacks and the arena by different marks. `ScopesAt` and `FramesAt` are about the C++
stack: the d-th mark belongs to the d-th scope frame, and the varis a sweep or a
`chain()` still needs are below the mark of every scope opened above it
(`Keeps`); so a recovery, which takes the innermost scope's varis, takes none of
theirs. `FramesOpen`, `FramesClose`, `FramesSweep`, `FramesStep` and
`FramesReturn` are what the operations do to frames.

On top of it, `BuiltOK` says that a vari whose constructor threw is there only
while that exception has not left the innermost scope; a sweep below that scope
does not reach it. `ReadsOK` says that all a vari reads is `Older`: lower
addresses, and objects that no scope deletes before it recovers the vari. The step
simulation for `Arena` counts the marks below an address (`Below`): an address
is above the last mark exactly if all are below it. `TypeCorrect` rests on the
invariant too, because a `chain()` that wrote to an operand out of range would
not leave the adjoints numbers; that `Chained` does is induction over the
operands it goes through.

`SweepsAreTheChainRule` compares a loop that goes down the tape with a sum over
all paths of a graph, so it needs to say what is true in the middle of the loop.
With the adjoints as they are, weigh each by the derivative of its vari along the
varis still ahead of the sweep; the total is what it was at the start (`Carried`,
for every set of derivatives there is along what is ahead and along all the sweep
sees). A turn chains the youngest of what is ahead: a derivative along one vari
more counts, for the adjoint that vari reads, what its partials say of its
operands (`FlowSplits`, `DerivativeExtends`), and that is what `Chained` adds to
them (`PassedNext`, by induction over the operands). With nothing ahead
a derivative is 1 for the vari itself and 0 otherwise, so the total is the
adjoint (`CarriedAtLast`). `Derivative` is the one function with its property
(`DerivativeIs`), which is induction over addresses and uses that operands are
older (`Downward`).

The loop does not run alone: its `chain()` opens scopes in which varis are made,
swept and thrown away. `SweepInv` therefore says of every sweep on the C++ stack
that it has this total (`Carries`), a sweep in the middle of a `chain()` that of
its turn before; that it started with all varis below the mark of the next scope
above it, or with all there are, and stops at the mark of its own (`SeenOK`); that
only a `chain()` stands above a sweep and only a scope above that (`Nesting`); and
that varis made since do not add to what it has seen (`Apart`). The last is where
the callers' rule for `chain()` is used: a scope opened there works on varis of
its own, or its sweep would change the total of the one below. Nothing is claimed
of a sweep that an exception has stopped.

For all numbers of jobs and processes and all chunk sizes, of `MpiMapChunks`:

* `LoopsComputeMapChunks`: `Spec => []ComputesMapChunks`;
* `LoopStaysInVector`: `Spec => IndexInVector`;
* `RootHasWork`: `Spec => []RootHasLeastButSome`.

The invariant says what the vector holds in the middle of the loop: a rank has
one more job if the loop has dealt it one, which is the closed form for the
jobs dealt so far. The arithmetic is the defining property of division
(`Division`) and that the remainder leaves room for the start at rank 1
(`RoomForRemainder`).

Of `ReduceSum`, for any threads, chains and numbers of terms, assuming only that
there is a term (`ReduceSumAssumption`):

* `TypeCorrect`: `Spec => []TypeOK`. A vector of counts holds 0 or 1 for a
  term, so this already says that no term is counted twice;
* `SumIsComplete`: `Spec => []ReducesToTheSum`;
* `TapeIsOneChains`: `Spec => []TapeServesOneChain` if every call isolates its
  wait (`Kinds` without `"double"`).

The invariant `IInv` says what a reducer holds in the middle of a call
(`ReducerOK`): the terms from its first to the last it has run, in `sum_` and,
for var, in `args_adjoints_`, which has no size before the first range; while a
range runs the adjoints of the copies are zero, which is what
`set_zero_all_adjoints` is for. Besides, the reducers of a call share out the
terms (`Apart`), a partial is there exactly for the terms some reducer has run
(`RunIn`), and a range is on one stack, once, and its reducer is running it, on
top or below the calls it has made (`FramesOK`). `SplitOK`, `RanOK` and `JoinOK` are the three operations on
reducers, with `PartsAdd` for the arithmetic: neighbouring parts add up.
When `Return` finds the first reducer at the last term, `Apart` says that there is no
other.

For the tapes the invariant is the shape of a stack (`Shape`): only its lowest
frame can be a chain, above there are ranges and the calls they made, any number
of them, and the tape is that of the lowest frame. `Takes` is where isolation
is used: a thread that waits begins no chain, as it takes tasks of the call it
waits for only.
With `"double"` among the kinds the step fails there, and TLC shows how
(`ReduceSumDouble`).

Of `OpenclEvents`, for any numbers of matrices, buffers and commands
(`OpenclEventsAssumption`: the bound on commands is a number, and `NoBuffer` is
not a buffer):

* `TypeCorrect`: `Spec => []TypeOK`;
* `CommandsInOrder`: `Spec => []ConflictsInOrder`;
* `FreedIsIdle`: `Spec => []FreedMemoryIsIdle`;

both but for commands on buffers where an operation that threw has lost them.

That commands have been done in order so far does not say that they will be, so
the invariant is about what is still to be waited for. `Before(e, f)` says that
`e` is done when `f` is, at the latest, because of the wait lists in between. The
graph of waits has paths of any length; the definition says "in every set that
is closed under waiting" instead of a recursion, which the provers could not use.
Then `IInv` has three parts, all of them but for `lost` commands:
`ConflictsWait`, conflicting commands that are not done are `Before` each other in the order of the queue;
`WritesKnown`, every matrix with a buffer has, among its write events, one that
every open writer of the buffer is `Before`; and `TouchesKnown`, some matrix with
the buffer has such an event for every command that touches it. The asymmetry is
what a copy of a shared matrix does: it tells its source that it is being read,
and not the matrices that share the source's buffer; hence only `~Shared`
matrices may be written. `CommandOK` is the step that all operations which
enqueue have in common, `UntrackedCommandOK` that of an enqueue whose event no
matrix gets to know because something threw after it, and `MatricesOK` that of the
others; `Hands` says how an operation that does not throw may drop an event: by
waiting for it.

Of `TapeThreads`, for any numbers of workers, threads of the program, observers,
tapes, scopes and frames (`TapeThreadsAssumption`: threads, tapes and scopes
are different things):

* `TypeCorrect`: `Spec => []TypeOK`;
* `ThreadsAreServed`: `Spec => []TapesServeTheirThread`;
* `TapesAreOwned`: `Spec => []OneOwnerPerTape`;
* `WorkIsNotDisturbed`: `Spec => WorkKeepsItsTape`.

The invariant has a part for each thread and one between threads. `Nested`: the
scopes of a thread nest, each was entered from the storage of the one below it
and the lowest from a tape, so leaving one restores what was there, in whatever
order jobs and scopes are interleaved. `Owned`: a thread without a tape has
nothing that owns one; with one, either one observer's entry owns it or its
lowest frame does, a job of a thread of the program. `Life`: what of it has
happened to the thread so far; this is where the assumption on workers, that
they are told of before their first task, is used. `Shared`: threads share
neither tapes nor scopes, and `heap` and `locked` are what the threads reach and
execute. A step is one thread's; the others are `Untouched`.

Of `MpiParallelCall`, for every number of processes and every capacity of the
channels, all sets of kinds, numbers of jobs, output sizes and shared sizes, jobs
that throw or nest or not (`ClusterAssumption`, `CallAssumption`: there is a
process, a channel holds a message, a call has a job, some number of outputs is
possible, and "stop" is no kind of call):

* `TypeCorrect`: `Spec => []TypeOK`;
* `Synchronous`: `Spec => []CollectivesMatch`;
* `SameBetweenCalls`: `Spec => []CachesAgree`;
* `AnswersAreRight`: `Spec => MR!Safety`, which is `ImplementsMapReduce` without
  its fairness, if all calls share the size of the vector of shared parameters
  (`OneSharedSize`).

What is in a queue is unbounded with `Capacity`, and a worker may be several
collectives behind the root or one group of collectives ahead. The invariant does
not enumerate that: `InStep` says that what a worker has yet to receive leads
it, message by message, to where the root is (`Leads`), or what the root has
yet to collect leads the root to where the worker is (`LeadsUp`), and that one
of the queues is empty. Where a message leads depends on what a process leaves
out, which it decides from its own caches; so the invariant says that both
decide alike (`SameKind`, `SameCaches`, `SameRows`), which holds only with the
difference a message on its way makes. This is `CInv`, about control alone.

Then the data, in stages, each on top of the ones before: `Rows`, the root always
has a job to find the number of rows from; `OksAgree`, a process that goes on
after a first evaluation was fine itself; `Shares`, everything is cut up by the
number of jobs of the first call (`Total`); `Sizes`, the sizes a worker has cached
for its jobs are the root's, which is what a gather makes of the chunks
(`GatheredChunks`, by induction over ranks). The number of a worker's jobs is
a sum that the library folds over a set in an order it does not say;
`SumOverIs` shows that the order makes no difference.

For `AnswersAreRight` a last stage, `Work`, says what everybody has found out
about the call under way. `Outcome(p, j)` is what becomes of job j on process p,
which nobody knows before the job has run; `Found(p)` is that for the jobs of p,
and `Expected` for all. `WorkKnown` says what the locals of a process are at each
place of `reduce_combine`: the jobs of its slice, then `Found`, then whether all
went well and agrees with the cached sizes (`Agrees`). `SetupKnown` and
`AnswersKnown` say the same of the messages on their way, and `RootKnows` what the root
makes of them: `all_ok` is true exactly if all jobs went well, and the result is all
outputs in job order. A process that is not in the call under way, because it has
yet to receive the command or has left, is exempt (`InCall`); `RequestOfCall` says
that a call does not change while a process is in it. That the chunks of
processes, put one after the other, are the outputs in job order
(`SizesGathered`, `OutputsGathered`) is induction over ranks within induction over
jobs, on lemmas about flattened sequences (`FlatParts`, `FlatRanks` and those they
rest on). Then each step of the cluster is a step of `MapReduce` or none
(`EveryStepIsAllowed`): `Start` starts, `StartThrows` refuses, `FallBack` is
serial, `CollectSizes` learns the sizes, `CollectStatus` and a failing
`SendAllOk` finish. The error of `CollectStatus` is the abstract one because the
root's cached sizes are `Expected` exactly if every process agrees with its own
(`SizesCompared`, with `Sizes`).

`OneSharedSize` is needed because the code applies the size it cached in the
first call to every later one (see Findings); without it the theorem is false,
as TLC shows with two `SharedSizes`.

Every invariant and every action property the passing runs check is a theorem.
Only model-checked are the liveness properties, which are beyond the prover: the
fairness in `ImplementsMapReduce`, that is, that every call is answered, and
`ShutdownCompletes`, `WorkersComeBack` and `EveryCallReturns`.

## Findings

Three have a run that shows them:

* `rev/core/chainable_alloc.hpp:19` (`AdTapeThrowingChainable`): an object whose
  constructor throws is deleted a second time when its scope is recovered.
* `prim/functor/mpi_parallel_call.hpp:211` (`MpiNestedFallsBack`): on a worker a
  nested `map_rect` is a `runtime_error`, which makes the whole call fail;
  `map_rect_mpi` promises to fall back to serial execution and catches
  `mpi_is_in_use` only.
* `prim/functor/reduce_sum.hpp:156` (`ReduceSumDouble`): the instance of
  `reduce_sum` for double waits without isolation. A thread in the middle of a
  chain, on whose tape there are varis, may there be given a task that starts
  another chain; `rev/functor/reduce_sum.hpp:251` says why that must not happen.

Others, which a constant lifts or a definition shows, have no run of their own:

* `stack_alloc.hpp:180`: a request whose length is no multiple of eight, at a
  block switch, misaligns every later pointer in that block; the comment
  promises 8-byte alignment. `OnlyBlockStartMisaligns` shows that this is the
  only way it can happen.
* `stack_alloc.hpp:108`: after a failed malloc the null pointer stays among the
  blocks; a program that catches the exception and recovers can be handed memory
  in it, or in a block whose entry in `sizes_` is another's, past its end and into
  memory in use. `InBounds`, `NoOverlap` and what `Arena` says of addresses
  therefore ask that malloc has not failed; without that, `InBounds` and
  `NoOverlap` fail.
* `stack_alloc.hpp:266`: `bytes_allocated` leaves out blocks kept after a
  recovery.
* `rev/core/vari.hpp:107`: a vari whose constructor throws stays on the stack;
  caught within the scope, the next sweep runs its `chain()`. With `CatchInScope`
  true, `SweptAreBuilt` fails.
* `prim/functor/mpi_parallel_call.hpp:521`: a later call with another number of
  shared parameters is evaluated with undefined ones on all processes. The
  number of jobs is checked against the cache, this is not. With two
  `SharedSizes`, `ImplementsMapReduce` fails.
* `opencl/kernel_generator/multi_result_kernel.hpp:559`: an assignment takes the
  events out of its matrices before it enqueues; if that throws they are lost,
  and later commands on the buffer, or its release, wait for nothing.
* `opencl/matrix_cl.hpp:657`: a copy is enqueued before its callback is set and
  its event noted; if setting the callback throws, a later writer of the source
  does not wait for the copy that reads it, and the buffer of the copy is given
  back under it. Likewise `:635`, where besides the host's data are deleted while
  the write that reads them is under way, and `:257`, where the columns before the
  one that does not match are under way. Without `lost`, `ConflictsInOrder` and
  `FreedMemoryIsIdle` fail.

## Plan

1. Composition: ranges of `ReduceSum` on the tapes of `TapeThreads`, with
   `AdTape` for what a range does to its scope.
2. `Profiling`: counters of a profile over nested passes and exceptions.

## Not modelled

The list of components says for each what is left out. Of the threads: static
construction before the first tape and the end of the program, when tapes are
destructed in an order the standard leaves open; what becomes of the chainable
objects of a `ScopedChainableStack` that is destructed (nothing deletes them,
and nothing says somebody should). Of the parallel calls: the traversals of
arguments of any type that save varis, count and accumulate; the combination of
outputs of `map_rect`; builds without threads. Of OpenCL: views, sizes, empty
matrices, buffers in host memory, in-order queues, triangular reads, and one
matrix used by two threads of the host at a time.

Functions, distributions, constraints, forward mode, ODE, DAE and algebraic
solvers, the OpenCL kernel generator and kernels: their correctness is numerical
analysis or generated text, beyond a model checker. Of the tape: matrix varis
(one vari with a matrix of adjoints, allocated and recovered as any other),
growth of a `std::vector` failing (vari constructors are `noexcept`, so memory
exhaustion ends the program), and calls the library never makes, such as
`free_all` inside a scope. Of the cluster: memory that runs out in the middle of
a call; calls from several threads of the root, which the caches rule out ("there
is no within-process parallelism", `mpi_parallel_call.hpp:63`); calls without
jobs; outputs whose number of rows changes between jobs; `stop_listen` while a
call object lives, which throws out of a destructor; and a process that dies,
after which MPI ends the program.
