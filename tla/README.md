# Verification of hellohpc-2nd-hunk27

The repository holds the entries to nine tasks of a high-performance-computing
contest. Some of them are numerical kernels (03-accelerate, 10-kernel), a
search (05-miniclash) or scripts around other programs (04-cheatsheet, 11-llm).
Four contain concurrent or stateful logic that a model checker is good
for, and this project is about those: **07-maimoe**, a converter whose threads
pass charts through bounded queues to sandboxed worker processes; **06-rune**, a
client and scheduler for a cluster; **09-mahjx**, a mahjong analyser with a
streaming protocol and a relay between processes; **08-blackhole**, a simulation
on nested grids that many processes share.

The project covers the core of 07-maimoe with the order of its work, one
scenario of 06-rune over its client, of 09-mahjx the game, its record, the
streaming analysis of that record, and the interactor that relays a record to
the program under test, and of 08-blackhole the order in which levels are
evolved and exchanged and the benchmark of its surface integrals. What comes
next is under "Plan".

## Inventory

### 07-maimoe (`src/07-maimoe/src`)

| Part | State | Operations | Must be true |
|---|---|---|---|
| `CreditBudget`, `CreditLease` (HostRuntime.cpp:49-147) | bytes in use, stopped; bytes of each lease | acquire, try_acquire, release, stop | the sum of the leases is what is used; the budget is passed only by one chart alone |
| `EncodedBufferPool` (160-239) | free buffers | acquire, release | never more free buffers than charts |
| `InputQueue` (264-399) | reserved slots, queued charts, finished, stopped | reserve, cancel_reservation, push_reserved, try_pop_ordered, pop_ordered, finish, stop | slots are conserved; whoever waits for a chart that came is woken |
| `OutputQueue` (401-557) | partitions, count, finished, stopped | push, pop_batch under three policies, finish, stop | every chart pushed is popped once; the count matches |
| `run` (795-1091) | two counters, the first error, three sets of threads | claim, read, convert, submit, write, fail, shut down | success means that every chart was written, once; an error ends everything |
| `WorkerProcess` / `run_worker` | a block of shared memory, a child, an aborted flag | process, abort, destructor; the loop of the child | an answer belongs to its request; the host never touches the block while the child works on it; no child is left behind |
| `Schedule` | none | make_work_order, make_work_order_hybrid | the order is a permutation of the manifest |
| `TuneConfig`, `MaiMoeEngine`, the judge | - | parsing, rendering, measuring | - |

The parts interact through shared memory: reader threads fill the input queue,
compute threads empty it, call their worker process and fill the output queue
(or write themselves), io threads empty that; all three give credit back to the
budget that readers block on. `fail`, called by any thread, stops the three
shared objects and aborts every worker, one after the other, while everything
else goes on.

Hard here: four condition variables with notify_one and predicates that differ
per waiter; flags stored without the mutex of the waiter; a counter kept under
another mutex than the data it counts; five ways out of each loop, each of which
must give back what the thread holds; a futex protocol with a peer that may
crash, hang or answer as the deadline passes.

### 06-rune (`src/06-rune/rune_scheduler`)

| Part | State | Operations | Must be true |
|---|---|---|---|
| `ClusterClient` (client.py) | a socket or an HTTP connection, a queue of jobs, an io thread | `model`, `state`, `step` with up to three attempts, `_reconnect`, `close` | a reply belongs to the request it answers; a lost one loses nothing; close leaves nothing behind |
| `Scheduler.run` (scheduler.py) | the id of the last decision | observe, decide, step | no decision is made twice |
| `execute_scenario` (matrix.py) | the process of the cluster, its socket file, the client | start, handshake, run, clean up | whatever ends it, cluster, file and connection are gone |
| `run_matrix` and its live view | a semaphore, the report | gather the scenarios | - |
| codec, models, policy | - | parsing, deciding | - |

A coroutine awaits futures that one io thread completes; that thread talks to a
cluster, a binary without source, over a connection that it forgets when
anything goes wrong. Hard here: `step` is sent again though the cluster may have
applied it, while the first request may still be on its way on the connection
that was forgotten; a cancelled coroutine leaves its job in the queue, in front
of the one that closes the socket; each await may be the last one.

### 09-mahjx (`src/09-mahjx`)

| Part | State | Operations | Must be true |
|---|---|---|---|
| `game_loop`, `proceed_game` (src/game_manager.cpp) | the game record, a list of events | append what follows the last event: a draw, a move and its response, a result, the next round, the end | points are moved and never made; a riichi declared is paid for; a round comes to a result; the header of a round follows from the result before it |
| legality (src/share/make_move.cpp), queries of the record (types.cpp), payments (win_points.cpp) | none; they scan the record back to its last ROUND | `get_all_legal_moves`, `count_tsumo_num_all`, `get_game_state`, `points_move_*` | no tile of the wall is taken twice; no kan without a tile to replace it |
| `write_game_record`, `RecordParser` (record_io.cpp) | the pending event, whose hands came, the fields of the header | `feed_line`, `finish` | what the game wrote can be read; the header that is worked out is the one the game played |
| `StreamingAnalyzer` (streaming_analyzer.cpp) | groups of decisions whose outcome is open | `consume`, `advance`, `finish` | each decision is closed once, with what the player did |
| `Relay`, `ProtocolScanner`, `ForwardStream` (interactor.cpp) | the players seen, two queues of output, deadlines, a child, pipes | send, finish, terminate; pump, drain, signal, reap | no event before the analyses of the one before; success only for a run without fault; the child is gone, and a group that is given up is killed |
| AI, hand evaluation | - | - | - |

Game and analysis are separate programs that meet in the record: the game writes
lines, the parser makes events out of them again, the analyzer waits in each
decision for the events that settle it.

Hard here: nothing is kept but the record, so every rule ("a DORA is due", "the
riichi is accepted") looks a fixed number of events back, and each way a round
can go on puts other events in between; a ROUND line repeats neither scores nor
dealer nor sticks, so that writer and reader must agree on a rule that each has
code for; of a player who passed nothing is written, and the analyzer must infer
it from what came instead. Of the relay: a child that may exit, hang, fork, close
its pipes or write what it should not, at any time, while what it wrote before is
still in a pipe; and five deadlines of which each covers one way to wait.

### 08-blackhole (`src/08-blackhole/src`)

| Part | State | Operations | Must be true |
|---|---|---|---|
| `Evolve`, `RecursiveStep`, `Step` (bssn_class.C) | the levels, three lists of fields of each, `Lt`, `PhysTime`, the black holes | advance a level and all finer ones, rotate the lists | what a step reads is of one time |
| `RestrictProlong` (bssn_class.C), `prepare_inter_time_level`, `Restrict`, `OutBdLow2Hi` (Parallel.C) | none; they write into the lists | exchange between a level and its parent | a boundary is interpolated between times at which the parent is known |
| `Regrid_Onelevel`, `recompose_cgh_Onelevel` (cgh.C) | where the boxes are | move a box after its black hole | what a new box is filled with is of the time of the old one |
| `checkpoint.C` | the files | write, read | a run that is started again goes on as it would have |
| `Surface_Only_Benchmark`, `surf_Wave`, `Interp_Points` | by process: fields, samples, sums | fill, interpolate, integrate, sum | each point is counted once, from the right fields |
| the equations, initial data, shells, null patches, the horizon finder, the GPU code | - | - | - |

Hard here: which of two or three time levels a blend reads is decided from the
clock, not from what the lists hold, and the lists are rotated by pointer;
a level is first stepped and later repaired at its rim and under the finer level,
and a box may move, or the run end and be started again, in between. The
processes are bound together by collective calls only: every one of them must make
the same calls in the same order, and one that is slow is a whole call behind.

### Not planned

What the functions of 08-blackhole compute at a point, and all of 03-accelerate
and 10-kernel, is floating point, which TLA+ does not have, and what they promise
is an error bound; with the numbers abstracted away nothing is left to check but
loop bounds. 08-blackhole is nine tenths of the code by its lines, and most of
those lines are such functions, or copies of the ones modelled for other
equations and for the GPU. 05-miniclash is one search over bit patterns,
04-cheatsheet and 11-llm are scripts whose behaviour is that of the programs they
start. In 06, 07 and 09 parsers, renderer, codec and hand evaluation are
sequential functions over large data. The models therefore cover a small share of
the lines of the repository, and a larger share could only be had by naming lines
that no definition translates. PROJECT.json lists every part.

## Modules

```
ConversionJob  (abstract)        KernelService  (abstract)
     ^ implements                      ^ implements
HostPipeline --- assumes of a call --- WorkerProtocol
  EXTENDS CreditBudget, InputQueue, OutputQueue
     ^                                 ^
MCHostPipeline                     MCWorkerProtocol
HostPipeline_proofs                WorkerProtocol_proofs
     ^
HostJob_proofs

GameRecord <-- GameManager, RecordParser, StreamingAnalyzer <-- AnalyzedGame
                    ^                                               ^
               MCGameManager, GameManager_proofs             MCAnalyzedGame,
                                                             AnalyzedGame_proofs

DecisionLog (abstract)           EventFeed (abstract)          Schedule
     ^ implements                     ^ implements                ^ INSTANCE
RuneScenario                     Interactor                    MCHostPipeline
  EXTENDS ClusterClient            EXTENDS Submission
     ^                                ^
MCRuneScenario                   MCInteractor
RuneScenario_proofs              Interactor_proofs

Subcycling (abstract)
     ^ implements
MeshRefinement    SurfaceBenchmark
     ^                 ^
     +-- Blackhole ----+  <-- MCBlackhole, Blackhole_proofs
```

**CreditBudget, InputQueue, OutputQueue** model the shared objects: one operator
for each outcome of a member function (it returns true, returns false, or
blocks). A critical section is one step. A thread that blocks in
`condition_variable::wait` is put into the set of the waiters of that variable
(`creditWaiters`, `spaceWaiters`, `dataWaiters`, `outputWaiters`), and is able to
move again only when a notification takes it out; `notify_one` takes out one
waiter, any. Each `std::terminate` sets a flag (`creditBroken`, ...).

Two places are finer than a critical section because the code is. `push` is two
steps when the policy is not Strict (`PushOutput`, `CountPushed`), because
`queued_` has a mutex of its own. And `finish`/`stop` of the output queue store
their flag and notify without a mutex, so an io thread that found its predicate
false is first in `dozing`, still holding the mutex, and only then among the
waiters (`Doze`, `FallAsleep`).

**HostPipeline** is `run`. `pc` says where each thread is; labels are named for
what the thread is about to do. `ReaderLoop` ... `ReaderLeave` are the reader
thread; `ComputeLoop` is the condition of a compute thread's loop, `DirectClaim` ...
`DirectNext` such a thread with no readers,
`OrderedClaim` ... `OrderedNext` one with readers; `Process`, `KernelReturns`,
`KernelThrows`, `Submit...` are `process_item` and `submit`; `WriteItem` ...
`Cleared` are the loop over a batch, for `flush_inline` and the io thread alike;
`StrictPop` ... `Sleep` are `pop_batch`; `FailFirst` ... `FailAbortsWorkers` are
the steps of `fail`; `JoinComputes`, `ShutDown` and `JoinRest` the main thread. A chart is
its position in the work order; its lease follows it from stage to stage, so
`lease` is indexed by position. What the destructors release while an exception
unwinds is part of the step that throws, in the order of the scopes: the lease of
a failed read goes before the slot is cancelled, the batch of an io thread before
`fail`, and `inline_batch` after it.

**Schedule** is make_work_order and make_work_order_hybrid as operators over a
manifest. MCHostPipeline assumes of it what HostPipeline takes for granted, that
each chart has one position (`ScheduleIsAPermutation`).

**ConversionJob** is what the user is promised: files are written once per chart,
success needs all of them, nothing is written after the outcome.

**WorkerProtocol** is one worker on Linux. A step is one access to an atomic, one
system call, or the copies between two of them. The owner is the compute thread
(and the main thread once that is joined, for the destructor); "other" is a
thread whose `fail` aborts the worker; the child runs `run_worker`. The
participant's kernel is external: it answers, throws, crashes or hangs.
**KernelService** is what the pipeline assumes of it.

**HostPipeline_proofs**, **HostJob_proofs**, **WorkerProtocol_proofs**,
**GameManager_proofs**, **AnalyzedGame_proofs**, **RuneScenario_proofs**,
**Interactor_proofs** and **Blackhole_proofs** hold the theorems and their proofs.
All but those of WorkerProtocol and GameManager define inductive invariants as well.

**GameRecord** has the events of a record and the rules on the header of a round
that game and reader share (`cal_next_dealer`, `cal_next_repeat_counter`, ...).

**GameManager** is the game. A step is one call of `proceed_game`, which looks at
the last event and appends up to three; the actions are named for the event they
look at. The record itself would grow without a use: every query scans it back to
the last ROUND, so `rec` keeps what such a scan finds (the last three types, how
many draws from either wall, indicators, melds, riichi), `AfterEvent` adds an event
to it, and `header` keeps the fields of that ROUND. What is legal
(`LegalAfterDraw`, `LegalResponses`) is each condition of make_move.cpp that is
about the record; what is about the thirteen tiles of a hand may hold or not. A
player whose hand leaves him no move answers PASS (`AnswersOf`), also to an upgraded
kan, where passing is not a move. Two
consequences of hands are kept, because without them the game is not the game: a
hand has room for `HandMelds` melds, and no two players hold enough of one tile to
call PON or OPEN_KAN for it. A riichi means a ready hand when the wall is
exhausted. The AI takes any legal move, except that it weighs a kan only while
fewer than `LastDraw` tiles are drawn (selector.cpp:754, 1000). Scores are in
hundreds of points.

**RecordParser** is `write_game_record` and the state machine of `feed_line` and
`finish`; **StreamingAnalyzer** is `advance`, `create_group` and `consume`, with a
reviewer that finds two candidates for any of the players it is asked about.
**AnalyzedGame** puts the three in a row, as `run_full_analyze_protocol` does with
a record. The reader has no influence on the game, so the game waits until
every line is read: the other orders differ in nothing either can see.

**ClusterClient** is the io thread of the client and the cluster at the other end
of its connections. A job stays the head of `jobs` until it is complete, so that
what lies between the write of a request and the read of its reply is a step of
its own (`WriteRequest`, `ReadReply`, `TransportFails`). `conns` keeps every
connection that was ever made, for the cluster goes on to serve what was sent on
one the client forgot. The cluster is external: that it accepts only the current
decision, and answers the one before again when the batch is the same, is read
from the texts of its errors and from what the client relies on.

**RuneScenario** is `execute_scenario` with the loop of `Scheduler.run` in it. The
coroutine has one step from each await to the next, and `pc` names the await:
`Handshake`, `SocketAppears` and their failures are the start, `AttemptFails` and
`Reconnected` the except clause of the retry loop, `ModelArrives`, `Observe`,
`Terminal` and `RequestRaises` what is done with a reply, `Leave`, `Reaped` and
`ClientClosed` the finally. `Cancel` may come in any of them. **DecisionLog** is
what is promised of it: decisions in order, each made and accepted once, a report
that is the verdict of the cluster.

**Interactor** is `run` and its `Relay`. A step is one pump, that is one poll and
what it leads to, one write of an event, or one look at the child; between them
the submission moves. `Pump` delivers some of what is queued, reads what there is
room for, notices the end of a pipe and scans records; `SendPump` ... `SendCheck`
are the loop of `send`, `Settle` and `Settled` its 20 ms after the submission
closed its stdin, `FinishLooks`, `FinishPump` and the `Drain` of an orphan are
`finish`, and `Terminate`, `Drains`, `DrainEnds`, `Reap` and `CloseStreams` are
`terminate`. One variable stands for all deadlines, since no two are set at once;
`mode` is what the drain under way is for. **Submission** is the external program
under test: it works as it should, or misbehaves in the ways of
tests/fixture_child.cpp and more, `MaxFaults` times. What it leaves in the background
(`Forks`) has its stdin, its outputs and its process group, or any part of these
(`detached`). **EventFeed** is the promise: an event
is shown once all analyses before it were reported, and status zero needs all of
them.

**MeshRefinement** is `Evolve`. Of a list of fields it keeps the time it is known
at, in three zones: the inner part that the level evolves, the rim that the parent
supplies, and the shadow under the finer level. `StepLevel` is `Step` with the swap
of the three lists (`Rotate`) and the descent; `RestrictProlong` is what follows
when all finer levels caught up (`Exchange`: blend two or three time levels of the
parent where the level is in the middle of the parent's step, restrict, fill the
rim); `Regrid` is `Regrid_Onelevel` on the way up. `EndOfStep` is the body of
Evolve's loop. When a checkpoint is due it empties the file of the black holes, and
`WriteHoles`, `OpenGrids` and `WriteGrids` follow: that file is complete, the one of
the grids is replaced by one with a clock and no fields, the fields are written.
`Crash` and `Restart` may happen between any two of these. A restart reads what is
there, unchecked, and `sound` remembers what of it was whole and of one time: the
fields, and the black holes with them. Blending fields of the wrong times gives a
field of no time (`NoTime`), so a wrong interpolation is seen when it is next read.
**Subcycling** is what it promises: a level advances only when the finer ones have
caught up and while it is behind the coarser one, and everything is started again
from one time, or, when the only checkpoint was being replaced (`GiveUp`), from none.

**SurfaceBenchmark** is `Surface_Only_Benchmark`, by process. A collective call is
two steps, `Enter` and the one that follows the return, so that a process may be
past a call that another has not returned from. A value is the process it comes
from and the epoch of its field, a sum the set of its terms. **Blackhole** is
ABE.C, which does one or the other.

## Runs

| Run | Instance | Shows |
|---|---|---|
| hp_staged | 1 reader, 2 compute, 1 io, 3 charts, depth 2, Strict, reads fail | types, slots, no std::terminate, every chart is written, and run ends, unless an io thread sleeps through the end of its queue |
| hp_direct | 2 compute, nobody else, 4 charts, compute batch 2, a chart larger than the budget, every fault | the budget bound; run ends |
| hp_partitions | 2 readers, 1 compute, 2 io, depth 1, 2 partitions, PreferLocal, writes fail, spurious wakeups | claims of two readers, credit, a complete return and the job through two partitions that are stolen from |
| hp_prefetch_stall | 1 reader, 2 compute, depth 1 | **violation**: the notification goes to the wrong thread, and every thread waits for ever |
| hp_count_race | 1 compute, 1 io, Shared | **violation**: account_popped ends the process |
| wp_faults | 2 charts, every fault | one side at a time, the right answer or a throw, no child left, no lost wakeup, the destructor ends |
| gm_game | East 4, 4 draws, a stick and two repeats on the table | points, wall, riichi; every round ends |
| gm_last_kan | South 4, 2 draws | **violation**: a kan is a legal move on the last draw |
| sa_record | South 3, 2 draws, 2 rounds, 2 reviewed players | every record is read and analysed without a throw; headers agree; one decision open at a time, closed as it was played |
| rs_faults | 2 decisions, 2 batches, 4 faults, socket or HTTP, a cancellation | each decision is made and accepted once and in order, no reply is taken for another, two faults lose no scenario, everything is cleaned up, the scenario ends |
| ir_faults | a discard that two players answer and an event nobody does, pipes and queues of one, 2 faults | no event is early, zero means a clean run, the child is gone and what keeps its group and outputs is killed, and run returns except where the code waits without a deadline |
| bh_abe | 4 levels, steps halved from level 1, 5 steps, checkpoints in three files, crashes anywhere with two restarts; 3 processes, every layout of 2 points and some of 4, 2 detectors, 1 warm-up and 2 counted iterations | as long as what was read back was whole, every step and every blend reads fields of the right times; the levels advance in the order of Subcycling; the checksum is complete |

### Bounds

Bytes are counted in units: an encoded chart is 1, an input 1 or 3, the budget 3 or 6,
so that it is reached and, in hp_direct, passed by one chart. Three charts with two
compute threads are the least for which one thread can wait for a chart while another
holds the next and a third is unread; two readers and one slot are the least for a
position that is claimed by one while the other fills the queue; two partitions and
two io threads are the least for stealing; two calls are the least for a stale answer
in the shared block. No counter needs an artificial bound: `next` and `expected` grow
only while a thread passes through its loop, and every loop ends with the charts.
PROJECT.json says of each run what it asks.

In the game `LastDraw` stands for 70, and the wall has the tiles that are dealt,
the draws and the fourteen that stay. Four draws are the least for a kan by each
way, the draw that replaces its tile, the indicator that is turned only after the
discard, and an ordinary turn after all of it; one meld in a hand is enough for
PON, its upgrade and three other players with melds of their own. East 4 and
South 3 are rounds after which the game may end or go on, with the same dealer or
the next; the payment of sa_record is small enough that both happen. Two rounds
are the least in which the reader must work out a header; `MaxRounds` stops the
game from dealing another. The theorems are for any number of all these.

In HostPipeline a chart is its position in the work order. That this loses
nothing is the ASSUME of MCHostPipeline, evaluated with each hp run: for all five
policies, their hybrids and all shares, over small manifests, the order is a
permutation. The partition of a chart depends on its id, which `Bucket` gives by
position.

Two decisions are the least for which a late reply could be taken for that of
another step; four faults are one more than the attempts of a request, so that
one can fail for good and another thing go wrong after it. In ir_faults pipes and
queues hold one element, so that every writer blocks and every output is held
back; a record of two events has one that is answered and the end after it. Two
faults are what it takes for a fault to meet the handling of another (an orphan
and a reader that is gone, a signal in the drain after an early exit); three make
the run too long.

Two restarts are the least for a run that goes on from a checkpoint which a run that
was itself restarted wrote, or was writing. In bh_abe level 0 and 1 share a step and 2
and 3 halve it, which is the least with a level that is blended under a level that is.
Five steps are enough for a parent with one, two and three time levels, for
checkpoints, which are written every second step, and for boxes that move before and
after one; `TotalTime` ends the run on the way. `StepsToDrift` says how many steps a
black hole takes to leave its cell and a half. `DriftAssumption` puts it above two:
the configurations have a Courant factor of one half (configs/*.par), so a hole slower
than light moves less than half a cell in a step. With two, a box could move at the
end of the first step of its parent, where the blend would read a third time level
that is not there. `MeshAssumption` allows any "time refinement start from level", as
the code does. At or above `levels`, as in every file of configs/, `PhysTime` gains
the step of the finest level and the fields and `Lt` gain a smaller one, and
`LevelsAligned` does not speak of the clocks; there are no blends then. The run has a
start that is a level, the proofs have both. A negative start, which atoi would read,
is not a level and left out. Fewer points than processes, and a number of points that
is not a multiple of theirs, are the cases of `Share`. Of two points the sixteen
layouts are all there are, seven of them with a point in no block and three with all
on one process; of four points there are thirty-six, in which neighbours belong to
different processes or to nobody.

### Fairness

`WF_vars(Step(t))` for every thread: the operating system schedules each, a
blocked thread has no step, and a step that is enabled stays so until some thread
acts. Nothing is assumed of the mutexes beyond that. A kernel call ends because
`wait_for_response` gives up at its deadline, which is checked in wp_faults
(`Destroyed`) under weak fairness of the two sides, of SIGKILL and of time. No
fairness is assumed of faults and spurious wakeups.

`WF_vars(Next)` in GameManager: `game_loop` calls `proceed_game` until the record
ends in END_GAME, and nothing else runs. AnalyzedGame has no liveness property and
no fairness. Their runs set CHECK_DEADLOCK FALSE because a game ends.

`FairSpec` of RuneScenario: the event loop runs the coroutine when its await is
over, the io thread is scheduled, the cluster boots, serves what it was sent, and
ends after SIGTERM. No fairness is assumed of faults, of the crash or of `Cancel`.
A reply that never comes is the fault `TransportFails`, for the timeout of 30 s
on the socket ends the read.

`FairSpec` of Interactor: the relay runs when its poll has something, deadlines
pass, a submission that can work does, and a SIGKILL takes effect. Nothing is
assumed of a descendant, which may hold the pipes for ever, nor of a hung child.
`RelayReturns` therefore names where the code waits without a deadline
(`WaitsForEver`): the poll of `send`, and in `finish` a child that holds its
outputs and does nothing more. Both runs set CHECK_DEADLOCK FALSE: a scenario and
a run end, and the relay may wait so.

`hp_staged`, `hp_partitions` and `hp_count_race` set CHECK_DEADLOCK FALSE: with io
threads the shutdown can miss one of them (see the hazard at HostRuntime.cpp:505) and
`run` joins it for ever. `RunReturns` says so (`SleepsThroughTheEnd`: the one
notification of `finish` was made while an io thread was between its predicate and its
wait), and hp_staged checks that this is the only way not to end; in hp_direct there
are no io threads and `run` always ends. `hp_prefetch_stall` sets it because the stall
it shows is such a state. bh_abe has no liveness property: between two collectives a
process is alone, and whether it comes back is its own affair.

### Findings

1. *push_reserved wakes the wrong thread* (hp_prefetch_stall). Compute threads
   wait for one position each at one condition variable, and a push notifies one of
   them. When there are fewer slots than compute threads, the one that is woken may
   want a position the reader cannot queue before a slot is free; the one that could
   free it sleeps on. One reader is enough. With several readers there is a second way
   to the same end: a reader claims its position before it has a slot, so that later
   positions can hold every slot (or all the credit). One reader with a slot and
   credit for each compute thread cannot stall, and hp_staged holds for it.
2. *push counts a chart after it made it visible* (hp_count_race). With
   PreferLocal or Shared an io thread that scans at the right moment ends the
   process through the invariant check of account_popped. hp_partitions checks
   what holds all the same: an aborted process never reports success.
3. *The last draw and kans* (gm_last_kan). The comments at make_move.cpp:609 and
   642 say that a kan is not possible on the last draw, but the tests beside them
   are for more than 70 draws, which never are. game_manager.cpp:274 relies on
   the comments. The AI refuses such kans itself, so gm_game, which plays as the
   AI does, draws no tile too many.

## Proofs

`HostPipeline_proofs.tla` proves, for every number of readers, compute and io
threads, charts and partitions, every depth, batch size, byte size, policy and
set of faults, from the ASSUMEs of the four modules alone:

- `TypeCorrect`: `Spec => []TypeOK`;
- `PositionsClaimedOnce`: `Spec => []ClaimedOnce`. No two readers read the same
  chart, and none reads one that was already queued;
- `SlotsAreConserved`: `Spec => []SlotsConserved`. `reserved_` is the number of
  filled slots plus the number of readers that own one, at most the depth.

None of the three is inductive alone, and they are proved together as
`IInv == TypeOK /\ HandsOK /\ ClaimedOnce /\ SlotsConserved` (theorem
`Invariant`). TypeOK needs `HandsOK`: a chart put into a partition is a
position only because of how a compute thread claimed it. SlotsConserved needs
ClaimedOnce: `reserved_` counts a push as one more element of the set `queue`
only because the position pushed is not in it yet. ClaimedOnce needs the fact
that every position in a hand or in the queue is below `next`.

The argument goes thread by thread: `ReaderStep`, `FailStep`, `ComputeStep`,
`FlushStep`, `WriterStep`, `MainLeavesInvariant` and `WakeupStep` show that the
actions of one kind of thread keep IInv, `NextInvariant` joins them. Frame lemmas
(`ReadersFrame`, `ComputesFrame`, `FailFrame`, `HandsFrame`, `WriterFrame`) carry
the parts of IInv that an action does not touch, and `HolderCount` and
`QueueCount` say how the two cardinalities change when one thread moves or one
position is pushed or popped. The `...Type` lemmas state what each operator of
the queues returns.

The second half of the module goes on from there, under the same assumptions:

- `CreditIsConserved` (`CreditConserved`) and `BudgetIsBounded` (`BudgetBound`);
- `AssertionsHold`: no assert of CreditBudget, CreditLease, EncodedBufferPool or
  InputQueue fails; and `NothingBreaks` (`NeverBroken`): with the policy Strict none
  of OutputQueue does either. For the other policies that is false (hp_count_race).

IInv says which charts a thread may have in hand, not that no other thread has them
too. The invariant `CInv` gives every chart one place: not claimed yet, the input
queue, a thread, a partition or a batch (`PlacesInv`). The place says at which stage
the chart is, the stage what its lease must be (`Owed`) and whether its result has a
buffer (`Buffered`). So each step moves the charts of a set from one place to another,
or drops them, and `Relocation` proves once what all such steps have in common; the
lemmas of the threads (`ReaderCredit`, `ComputeCredit`, `FlushCredit`, `WriterCredit`,
`FailCredit`, ...) say which set and which places. The sum of the leases is the
cardinality of the set of units held (`CreditUnits`), so that `Grant` and `Release`
need no induction. A release never passes what is used because the lease it takes is
part of that set; the pool never overflows because its free buffers and the charts
that have one are together at most the manifest (`BuffersInv`).

`HostJob_proofs.tla` proves, on top of both invariants and with nothing assumed
in addition:

- `ReturnsComplete` (`CompleteReturn`): when run returns normally every chart is
  written once and the partitions, the slots and the credit are empty;
- `JobImplemented`: `Spec => ImplementsJob`. HostPipeline refines ConversionJob.

IInv and CInv are about charts that are somewhere. What they do not say is that a
chart which is nowhere was written, and that nobody leaves while a chart is still
on its way to him. `JInv` adds six parts, proved together (`JobInvariant`):

- `StopsInv`: who stops and finishes the queues, and that only the main thread does
  so without an error, once the threads before are joined;
- `LeaveInv`: a reader leaves when the schedule is claimed, the input is finished when
  all readers left, a compute thread leaves when it can get nothing more;
- `DemandInv`: what did not reach a compute thread yet is exactly what one of them
  claimed or has yet to claim, so that no position is waited for by nobody;
- `ShelvesInv`: an io thread leaves when the partitions it serves are empty for good.
  With the policy Strict it serves one partition only, and that each has one is the
  check of HostRuntime.cpp:806-808;
- `CountInv`: with the other policies `queued_` is behind what is in the partitions by
  those that are pushed and not counted, until it is wrong and the process ends. Without
  it a count of zero would not mean that nothing is left;
- `WrittenInv`: what waits is not written, a batch is written in its order, and
  what is in neither place is written, unless some thread is on its way into `fail`
  (`GivingUp`).

Each action of a thread is first reduced to what it does to the charts
(`ReaderDoes`, `ComputeDoes`, `FlushDoes`, `WriterDoes`, `FailDoes`); frame lemmas
(`StopsStep`, `LeaveStep`, `DemandStep`, `ShelvesStep`, `CountStep`, `WrittenStep`) say
under which effects a part of JInv is kept; then one lemma for each kind of thread
joins them. `AllDone` is where they meet: when all threads are joined nothing is
upstream, in work, on a shelf or in a batch. For the refinement `StepWrites` shows
that a step writes the files of one chart at most, and only once, and
`NothingAfter` that none does when the outcome is known.

`WorkerProtocol_proofs.tla` proves, for any number of calls and any set of
faults:

- `TypeCorrect`, `BlockHasOneSide` (`OneSide`) and `ChildIsReaped`
  (`ChildReaped`);
- `ServiceIsImplemented`: `Spec => ImplementsKernel`. The protocol of futexes,
  deadlines and signals is a refinement of KernelService, the atomic call that
  HostPipeline assumes.

The inductive invariant is again a conjunction of named parts, all defined in
WorkerProtocol: `Turn` says for each value of `SharedBlock::state` which side may
be where; `Matched`, that in the block a response carries the number of the
request it follows and the encoding of its chart; `Delivered`, what the calls so
far returned; `Accounted`, where the pid of the child is until somebody reaps
it; `Unusable`, that a worker whose call failed is marked aborted before the next
call. OneSide is `Turn` read at two labels, but `Turn` survives a
timeout only because of `Accounted` and `Unusable`: after a timeout the owner
leaves the block in the state `request` or `working`, and it is safe
solely because no later call gets past the check of `aborted_`.

For the refinement every step of the protocol is sorted: `CheckRefines`,
`CopyRefines`, `AbortRefines` and `DestroyRefines` are the steps that KernelService
sees, `QuietOwner` and `QuietRest` the ones it stutters on.

`GameManager_proofs.tla` proves, for any origin, any payments, a wall of any
length, any number of melds and of rounds: `TypeCorrect`, `PointsAreConserved`,
`WallIsRespected` and `RiichiIsSettled`. The inductive invariant (`IInv`, theorem
`InvariantHolds`) is `Good(rec)`, the balance of points, and two facts about the
states between calls (a RIICHI is never the last event of a call, and a ROUND has no
draws). The parts of Good are there because the properties are not inductive:

- `WallGood` adds to "at most LastDraw draws" that one is left when a kan waits
  for its tile (`Reserved`); without it the draw after a kan could be one too many.
- `DoraGood` bounds the indicators by the tiles drawn from the dead wall. At a
  concealed kan the indicator comes first, after the others it comes with the
  next move or, when the round ended or a kan followed, never (`Owed`).
- `RiichiGood` says of a riichi that is not accepted that its discard is the last
  thing on the record (`Declaring`), so that the next call is the one to accept it.
- `MeldsGood` and `SeatGood` are what types need: a PON that is upgraded was
  counted as a meld, and the events of a player name one.

A call appends up to three events, and Good holds in between as well: `GoodStep`
proves it of one event, from what the call knows of that event (`Permitted`), and
there is one lemma for each call (`FirstDrawKeeps`, ..., `NextRoundKeeps`). For the points,
`SumOfPlus` and `SumOfScores` reduce the sum of the scores of any record to that of its
header and the sticks, and `WinMoves` and `DrawnMoves` say that a result moves
exactly what leaves the table, whoever deals, wins and pays.

`AnalyzedGame_proofs.tla` proves of the same games, of a record of any length and of
any set of analysed players: `HeadersAgree` (`HeaderMatches`), `RecordsAreAccepted`
(`RecordAccepted`), `DecisionsAreReported` (`ClosedAsPlayed`) and `OneDecisionIsOpen`
(`OneOpenDecision`). The game's part of the inductive invariant is IInv of
GameManager_proofs, and the game comes in through one lemma for each call, which says
what the reader has to know of the events the call wrote (`Called`): the last one is
what the game rests on, the others are of types it never rests on (`Leading`), and
they carry at most one accepted riichi. The reader's part has two halves.

- `ReaderInv` says how far the parser is. `Unread`: what is left is the end of one
  call. `FlagsAgree` and `PendingAgrees`: each flag of feed_line, and the hands that
  came, follow from the event that is next and the lines of it that were read.
  `FieldsAgree`: the parser's header is the game's, except that a stick just paid is
  counted with its line, and that a ROUND line is still to be read. There is one
  lemma for each kind of line (`ReadGame`, ..., `ReadHand`), and none of them finds
  a line out of place. `NextFieldsAgree` is where the two computations of a header
  meet: the parser drops the sticks for a win, which is when get_deposit finds none.
- `AnalyzerInv` says that there is at most one open decision, and why it will close
  (`Explained`): nothing is left to read and the decision is the one the game waits
  for, or what is left tells what the players chose (`TellsMove`, `TellsAnswers`), or
  it waits for the discard of a call that was made. `DecisionFollows` then shows that
  the next event closes it as chosen or brings it one event further, and
  `DecisionOpens` that an event which asks is the last of its call.

`RuneScenario_proofs.tla` proves, for any number of decisions, any batches and any
number of faults, over the socket and over HTTP:

- `TypeCorrect`, `LeavesNothing` (`CleanedUp`) and `RetriesHold`
  (`RetriesSurvive`);
- `DecisionsAreImplemented`: `Spec => ImplementsDecisions`. Each decision is made
  by the policy once and accepted by the cluster once and in order, whatever
  request or reply is lost, late or repeated.

What the refinement is about is a request that arrives late. The cluster refuses one
for a decision that is over and repeats the answer to one for the decision just made,
so it is enough to know two things about requests on connections the client has
forgotten: none is newer than the last decision, and one for that decision carries the
batch it was decided with (`OnTheirWay`). A late reply is harmless because the
connection it arrives on is not read any more: on the one in use there is only the
current request, or the one reply due to it (`Aligned`). `InStep` ties the policy to
the cluster, at most one decision ahead; `Awaiting` the coroutine to the io thread,
since a job that was cancelled is still executed but nobody may take its answer for
another's. `Paid` counts: over the socket, once the cluster has answered, an attempt
that fails costs one of the faults, and that is what RetriesSurvive needs.
`ServeKeeps`, `JobEnds` and `AttemptLost` are the lemmas where these meet.

`Interactor_proofs.tla` proves, for a record of any length, any masks, any sizes
of pipes and queues, and any number of faults of the submission: `TypeCorrect`,
`SuccessIsClean` (`SuccessMeansClean`), `NobodyIsLeft` (`NobodyLeft`) and
`FeedIsImplemented` (`Spec => ImplementsFeed`).

Success is decided in one step, at the end of `finish`, from what the relay sees
there: the child exited with zero, the outputs are closed, the queues are empty. That this
means that the submission reported each analysis once and wrote nothing else needs a
trace of every record from the submission to the scanner. `Fed` says which events are in
the stdin pipe and what the submission reported on each event so far, `Traced` that
what the relay has seen for the event was reported, and that a record that should
not be there stays in the pipe until reading it is a fault (`Refused`), `Ended` that
an output is closed only at its end. The exception is an orphan that
holds the pipes, and it is in the property as it is in the code. `PumpDoes` says what
a call of `pump` can change, and `PumpStepKeeps` serves the five places that call it.

`NobodyLeft` rests on an invariant of its own, `Killed`: from the SIGKILL of a drain
on, the group has one on its way or is dead (`Doomed`), which no later signal and no
fork takes back, and a deadline that passes in such a drain passes after the group
died. A run that `finish` ends without meeting an orphan sends no signal: `Ended` says
that nobody keeps its outputs then, and no more can be said. A background process that
redirected them outlives such a run, and one that left the group outlives any.

`Blackhole_proofs.tla` proves of the surface benchmark, for any number of processes,
points, detectors and iterations and for any layout of the blocks:

- `SharesPartition`: the bounds Nmin and Nmax of surf_Wave give each point to one
  process, whatever the quotient and the remainder are;
- `CollectivesMatch`: processes are never more than one collective apart, and those
  that meet in a call are at the same place of the program;
- `ChecksumIsComplete` (`ChecksumComplete`).

The invariant is that of a program whose processes only meet in collectives.
`Lockstep` compares the stretch between two calls each process is in; those that
have not returned from a call are in the one before it. From it follows what a
collective joins (`Meeting`, `Carried`): the same iteration and detector of everybody,
from fields of the same epoch. `Gapless` carries over that process 0 checked the layout,
and `Summed` says which integrals a process has added, by where it is.

Of the evolution the same module proves, for any number of levels, any start of the
refinement in time, any moves of the boxes and crashes anywhere, between the files of
a checkpoint too, from `MeshAssumption` and `DriftAssumption`:

- `EveryLevelAligned` (`LevelsAligned`) and `BlendsAreBracketed` (`BlendsBracket`);
- `SubcyclingImplemented`: `BlackholeSpec => ImplementsSubcycling`.

The first two say what they say as long as the fields that were read back were whole.
A crash while the grids are replaced leaves a checkpoint without fields, from which a
run goes on unnoticed with what is in memory; nothing is claimed of such a run, or of
one restarted from what it wrote. A crash while the black holes are replaced leaves
their file empty or newer than the fields: the fields are then claimed and the holes
are not. And the clocks are claimed only where the refinement starts at a level there
is. `Trfls` at or above `Levels` is what the shipped configurations have.

LevelsAligned speaks of the level about to be stepped and says nothing of the ones
above it, which are in the middle of a step, with a rim of one time, an inner part of
another and a shadow of none. `MeshInv` (theorem `MeshInvariant`) says of each level
what its three lists hold: down to the one that runs they are `UnderWay`, as `Step`
left them, the others are `Settled`. `Nested` says when a step began: when that of its
parent did, or one step of its own later if it is the second. `Resting` is the state
between two steps of Evolve, `Linked` what clocks and black holes have to do with the
fields, `Timeless` the run that goes on from a cut checkpoint. `Stored` says what is
on the disk: the fields of a state in which a run can begin, with the third list
missing, or none (`DiskFields`), and how far a checkpoint under way has got
(`Writing`). From Nested follow the two facts that the exchange rests on.
`LaterIsRight`: the decision between two and three time levels, made from PhysTime,
agrees with whether the parent has a third. `BlendIsRight`: the time wanted is in the
middle of the upper two. `ExchangeDoes` and `RecomposeDoes` compute the zones from
them, and there is one lemma for each action (`StepLevelKeeps`, ...). `DoubledIs` is
the induction the steps of the levels need: that they are powers of two. It is carried
out by a least counterexample (`Least`, from `WFMin`), since the theorems on induction
of the library cannot be used.

### Only model-checked

`IsWorkOrder` of Schedule (its operators are built from folds and sorts of
sequences, an induction over data), and all liveness
(`RunReturns`, `AnsweredUnlessBlamed`, `Destroyed`, `RoundEnds`, `ScenarioEnds`,
`RelayReturns`), which is out of the prover's reach.

### Abstractions and what is not modelled

- The bytes of a chart, of an encoding and of the output files. Writing the files of a
  chart is one step, since no thread reads them.
- `std::bad_alloc`; a thread or a worker that cannot be started.
- A step that destroys an item releases buffer and credit together; the two objects do
  not know of each other.
- The Windows transport of WorkerProcess. A signal to a process id that was reaped has
  no effect in the model.
- `try_pop` and `pop` of InputQueue, which nothing calls.
- Tiles, hands, yaku and what a hand is worth: a win is worth any member of
  `Payments`. The client that plays a seat itself (player_id other than -1) and
  answers through single requests.
- The text of a record line, its number of fields and its event numbers, and records
  the game does not write.
- The observers of the analyzer and how they print.
- Of 06-rune: the live view, the semaphore and the report of run_matrix, the codec,
  and policies that do not return. What its cluster does between bind and listen, or
  with a batch it rejects for its contents, is not known.
- Of the interactor: a spawn that fails, system calls that fail for reasons of their
  own, lines (partial writes and reads, lines that are too long), how EventReader
  groups lines to events, and that stdout and stderr have readers of their own. There
  is one descendant at a time. A SIGKILL takes effect within the grace of the drain
  that follows.
- Of 08-blackhole: the equations and stencils, initial data, shells and null patches,
  the horizon finder, the GPU code, values of PSTR other than 0, and the integral of
  the mass, which has the form of that of the wave. The processes of the evolution do
  the same in the same order, so MeshRefinement has one of them. Of a checkpoint that
  was cut while the fields were written none are kept, so a run that goes on from part
  of them is one that has none. A cut in the header of the file, or a file that is
  missing, ends the next run at once, which is a `Restart` and a `Crash`. The third
  file (`write_bssn`) has no time of a level or of a black hole.
- Of the passing runs one has readers and another has compute threads that write their
  own output; both at once, and so the flush of `OrderedTry`, is in hp_prefetch_stall
  only. The theorems are about every combination, but that run ends in that one is not
  checked.
- Two things its tests and README say are left as hazards and have no run: the status
  of a child that dies as it is written to is lost (interactor.cpp:622,
  tests/interactor_test.cpp:298), and output behind an orphan is dropped after the
  grace (interactor.cpp:676, README.md:60 of 09-mahjx).

## Plan

1. `IsWorkOrder` for every manifest: a sort and two folds restated so that their
   results are given by what they contain.
2. Several scenarios under the semaphore of `run_matrix`, one of which raises.
