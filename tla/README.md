# Verification of the computing test platform

TLA+ models of the platform's own logic, TLC runs that check them on small
instances, and TLAPS proofs that their safety properties hold on every instance.
Paths are relative to the repository.

## The system

| component | state it keeps | operations | what is hard |
|---|---|---|---|
| dtest scheduler (`dtest/src/scheduler.cpp`) | task table `st_`, `alive_`, `dead_`, `remaining_`, one mutex, one condition variable | `execute`, one worker thread per agent slot: `pick`, run, record, `resolve_unschedulable` | workers interleave; results arrive late; agents die with several slots busy; wake-ups |
| dtest job file (`jobs.cpp`) | the tasks built so far, names taken | `parse_jobs`: validate, merge defaults, expand `repeat` | name collisions, limits crossed inside a repeat |
| dtest process runner (`process.cpp`) | per call: pipes, pid, clock, captured output; shared: descriptor table, pids | `run_process` | fork copies other calls' descriptors; pid reuse; exit racing the deadline; background children |
| dtest agent service (`agent_service.cpp`) | `running_`, an atomic | `RunTask`, `GetInfo` | handlers compete for slots; the caller may be gone |
| dtest gRPC executor (`grpc_executor.cpp`) | stubs per agent | `connect`, `run` | deadlines, lost and late answers |
| dtest agent program (`agent_main.cpp`) | `g_stop`, the server and its service | refuse to start, serve, be signalled, shut down | calls arrive before the signal handlers are installed; stopping or dying while commands run |
| dtest controller program and report (`ctl_main.cpp`, `report.cpp`), policy | none that outlives a run | parse options and job file, connect, schedule, report, exit code | partial connects, commands that go on after their answer was lost |
| valdev (`kmod/valdev.c`) | buffer, length, counter under a mutex; `opens`, an atomic; a position per open file | open, release, read, write, ioctl, llseek | calls of several threads, faults in user copies, a gap after a seek |
| vmtest harness (`vmtest/src/main.cpp`, `tests.cpp`, `virt.cpp`) | the shared guest and its overlay, libvirt's domains, files, the results | `main`, `ensure_vm`, `release_vm`, `boot_fresh_vm`, the test cases, the report | every libvirt call may fail, guests vanish, the harness is killed |
| vmtest guest exec (`guest_exec.cpp`) | the command's pid and its deadline | start, poll, decode | polling against a timeout, commands left in a shared guest |
| platcheck (`platcheck/src`) | the results so far, the walk through the IOMMU groups | ten checks, summary, JSON, exit code | the host changes between two reads |
| cudatest kernels (`cudatest/src/kernels.cu`) | shared memory of a block, global memory | six kernels and their launchers | threads of a block between barriers |

They interact as follows.  `dtest-ctl` parses a job file, connects to the
agents, and gives the tasks to the scheduler, whose workers call
`GrpcExecutor::run`.  That call arrives at an agent as `RunTask`, which calls
`run_process`.  vmtest boots guests; one of the things run inside a guest is
valdev and its tests.  platcheck and cudatest are separate programs that dtest
can schedule.

What makes them correct, in short: the scheduler gives each task one verdict
that its attempts justify and comes back; the agent never exceeds its slots and
never loses one; `run_process` reports the truth, kills nobody else and leaves
nothing behind; valdev's calls are atomic; the harness leaves no guest behind, and
no file that it could remove; a job file means what it says; the kernels compute what the CPU
does in every order of their threads; no GPU is called isolated that is not; whoever trusts the exit status is right.

## Modules

| module | models | checked by |
|---|---|---|
| `Labels` | `labels_satisfy` | through `Scheduler` |
| `Scheduler` | class `Run` of `scheduler.cpp` | `MCScheduler` |
| `JobRun` | the abstract promise of `scheduler.hpp` | as property `JobRunSpec` of `Scheduler` |
| `AgentRpc` | `AgentService::RunTask`, `GrpcExecutor::run`, the worker's reaction | through `AgentProgram` |
| `AgentProgram` | `agent_main.cpp` around `AgentRpc`: start, signal, shutdown, crash, restart | `MCAgentProgram` |
| `Process` | `run_process` | `MCProcess` |
| `JobFile` | `parse_jobs`, as operators | through `Controller` |
| `Valdev` | `valdev.c` | `MCValdev`, `MCValdevStats` |
| `VmHarness` | `vmtest`'s `main`, `Context`, `run_tests`, the test cases, `guest_exec`, the libvirt wrapper, the JUnit totals | `MCVmHarness` |
| `Kernels` | `kernels.cu` and the references of `reference.cpp` | `MCKernels` |
| `Controller` | `ctl_main.cpp`, `GrpcExecutor::connect` and `run`, `report.cpp`, the commands on the agents; extends `JobFile`, instantiates `JobRun` | `MCController` |
| `Platcheck` | `platcheck/src` | `MCPlatcheck` |
| `SchedulerProofs` | theorems about `Scheduler`, and that it implements `JobRun` | TLAPS |
| `AgentProofs` | theorems about `AgentProgram` with `AgentRpc` | TLAPS |
| `ProcessProofs`, `ValdevProofs`, `VmHarnessProofs`, `PlatcheckProofs`, `ControllerProofs`, `KernelsProofs` | theorems about the module of that name; `ControllerProofs` also about `JobFile` | TLAPS |

**Scheduler.**  All shared state is under one mutex, and a worker gives the
mutex up at two places: in `cv_.wait` and around `exec_.run`.  A step of the
model is a stretch of code between two such places: `Claim` is the loop head, a
successful `pick` and the unlock; `RecordPass`, `RecordFailure`,
`RecordAgentError` are everything after the lock is taken again, up to the next
loop head, which the worker reaches with the mutex still held (`pc = "loop"`).
`notify_all` moves the waiting workers back to contending for the mutex;
`SpuriousWake` does so for no reason, as the C++ standard allows.  Executor
results are the environment.  `PROJECT.json` names the lines of every definition.

**Process.**  Each system call is a step of its own, since other threads fork
in between; `fork` copies the descriptors open at that instant, with the close-on-exec
flags they have at that instant.  A `pipe` that fails makes the call return with the
descriptors of the earlier ones still open (`OutPipe`), as the code does.  A pid is free once its process was reaped and
its group is empty, and is then handed out again.  The command writes, forks
one background child, exits, is killed by others, ignores SIGTERM or hangs, as
it likes.  The two output streams are one: they are drained by the same code
one after the other.  Byte counts are kept relative to the limit (`Recount`).

**AgentRpc and AgentProgram.**  `fetch_add`, the refusal's `fetch_sub` and the
final `fetch_sub` are separate atomic steps.  A handler runs on when its caller
has given up.  A caller gives up on a deadline or a broken connection at any
time; either way the scheduler's worker sees `AgentError` and retires the agent.
`truth` is a history variable: how the command of the call a worker waits for
really ended.  `AgentProgram` extends this with the program's life.  As in the
code, `BuildAndStart` accepts calls before the handlers of SIGTERM and SIGINT
are installed, so there is a phase in which a signal kills the agent as SIGKILL
does.  `Shutdown`, then `cancel` two seconds later, then `stopped` when the last
handler has returned are gRPC's, external, from how the code uses them; a crash
loses the count and the connections but not the commands, which have process
groups of their own.

**Valdev.**  The lock, each statement under it that touches shared state, and
the unlock are separate steps.  `abs` is what the mutex publishes: it is set to
the protected fields at every unlock.  User copies may fault and allocations
may fail.  Files are shared between threads, so the kernel's copy of the
position in and out of a call is modelled; `pread` and `pwrite` bring a position
of their own and leave that of the file alone.  Negative positions are refused
by the VFS, so that the driver's own guards against them never fire.

**VmHarness.**  One step per libvirt call; each may throw.  The test cases come
in six kinds, by what they do to the guest: ask it something, pause and resume
it, run a command whose output matters, run one whose exit code matters, shut it
down, boot and destroy guests of their own.  `guest_exec` starts a command in
one step and polls in others, while the command ends by itself, is killed in
the guest or hangs; `stray` records the guests in which one was left running.
Guests are numbered as they are created, without a bound: the list of tests and
the iterations bound how many a run boots.  An overlay is made by a `qemu-img` that may fail after it
created the file, and `remove_file`, which says nothing of an error, may leave
it: `lost` is the set of overlays nobody knows of any more.  The report may be
cut short, since only the opening of its file is checked.
Guests may power off at any moment and the harness may be killed at any moment.

**JobFile.**  A JSON document is a record of the parts the parser
distinguishes; a missing key is `<<>>`.  A name is a sequence, so that
`a` repeated and an explicit `a[1]` collide exactly as they do in the code.
It is a module of operators, which `Controller` applies to the file it reads
and whose tasks it then runs.

**Kernels.**  A kernel is cut at its barriers into segments, and a thread runs a
segment in one step, the threads in any order.  `kernel(b, t)` says what a
segment reads and writes; `RaceFree` says that no two segments that can run
side by side conflict, so that finer interleavings give nothing new.  Memory
starts with garbage.  Floating-point numbers are not computed: an element is
its index and a dot product is the sequence of the pairs it multiplies, so
equality with the reference means the same terms in the same order.  `launch`
refuses what the launchers refuse and what CUDA refuses: a grid with more rows
than `MaxGridY`, which no launcher checks.

**Controller.**  The run in the middle is `JobRun`, started with the tasks of
the job file and the agents that answered; that the real scheduler is one of
its behaviours is `JobRunSpec`, checked by the `scheduler` run and proved as
`ImplementsJobRun`.  To every attempt belongs
a command on the agent's side (`cmd`) that starts and ends at its own pace,
whether or not the controller still waits for it; only `answered` ties the two
together.  An agent is a position on the command line, a stub belongs to an
address.  Options are reduced to the kinds of outcome they have.  The JUnit file
is opened or not, and what is written to it may be cut short, which the code
does not look at.

**Platcheck.**  A check that reads one file is one step.  The walk through
`/sys/kernel/iommu_groups` is one step per directory listing and per file
(vendor, class), with devices plugged and unplugged and modules loaded and
unloaded in between; the files of a device that is gone read as empty strings,
as in the code.  An NVIDIA audio function belongs to a card, which the code does not look at.  `Host` is everything those files can say, to the extent the
checks tell it apart; a run starts on any of `Hosts`.

## Runs

| run | instance | what it shows |
|---|---|---|
| `scheduler` | 3 agents (A with 2 slots, C reporting 0), 3 tasks with a retry each; A and B have the label task 1 asks for, nobody has task 3's | one verdict per task, justified by its attempts; exclusive runs; no lost wake-up; retries elsewhere; every behaviour is one of `JobRun`; `execute` returns unless a task was stranded |
| `scheduler_hang` (violation) | 2 agents, A with 2 slots and the label | `run()` can wait for ever, see below |
| `valdev` | 2 threads, 1 file, 2 bytes, counter modulo 2, every call, positions of `pread` and `pwrite` inside and beyond the buffer | atomicity, zeroes beyond the length, every call returns |
| `valdev_stats` (violation) | 2 files, `opens` up to 2 | GET_STATS is not a snapshot |
| `process_call` | 1 thread, 2 pids, pipe of 2 bytes, limit of 1 | honest outcome, complete output, no process left and no descriptor but those of a failed `pipe`, return |
| `process_pair` | 2 threads, 2 pids | no stray kill, no circular wait |
| `process_inherited` (violation) | 2 threads, 2 pids | a deadline waits for another call's command |
| `agent` | 1 slot, 2 controllers, 3 RPCs, any number of starts, signals and crashes | limit, exact count, slots come back, no attempt recorded as something it was not; an agent told to stop does and leaves no command behind |
| `vm_harness` | 6 tests, one of each kind, of which a filter selects the last 5, 2, 3 or none; 0 or 2 soak iterations | no guest left, no overlay but those that could not be removed, that a failing `qemu-img` left, or the one in use when the harness was killed; a test that spoils the shared guest has failed; a pass is earned; exit status and totals |
| `kernels` | tiles of 2 by 2, at most 2 blocks per dimension of a vector grid, at most 2 rows of a matrix grid, good, empty and bad launches | every order of the threads gives the reference's result, without races, and ends |
| `controller` | about 800 job files of up to 3 entries, good and bad; one of them run on 2 agents, with 2 tasks, one of them for one agent only | the file is accepted if and only if it should be and means what it says; exit status, summary and JUnit file follow from what the commands did; a command runs again only for a reason |
| `platcheck` | 3 PCI functions of any kind in 2 groups, or a host that lacks something; up to 2 changes during a run | no GPU is called isolated that is not, but for the audio functions of other cards; summary, JSON and exit status agree with each other and with the host |

### Bounds

* *Scheduler.*  The hard cases need two slots on one agent, another agent with
  the same labels, one without, a task with a retry and one nobody can run:
  three agents, four workers and three tasks have them all.
* *Process.*  Two threads are what a race between `pipe`, `fcntl` and `fork`
  needs.  Two pids force reuse with two threads.  A limit of 1 and a pipe of 2
  allow a chunk that fits, one that fits in part and one past the limit.
* *AgentProgram.*  Two controllers for one slot compete, and a third RPC is
  there when one of them has given up and its handler still runs.  A worker has
  one call at a time; when all RPCs are in use a call is delayed, not lost.
* *Valdev.*  Two bytes have a first, a last, a hole and an end; a second thread
  is needed for interference, a third adds no new pair.  Counter and buffer
  are reduced to the sizes at which wrap-around and truncation happen.  Position
  1 of `pread` and `pwrite` is inside the buffer with a transfer that is cut
  off at its end, position 3 is beyond it.
* *VmHarness.*  One test of each kind in the order of `build_tests`: what the
  pausing test and the commands leave behind meets a later test that uses the
  guest, and the shutdown is followed by a soak test of two rounds, or none.  The
  filters are those of `"s"` (all but the first test), `"boot"`, `"lifecycle"`
  and of a name that matches nothing; with all six in a row the run has too many
  states for what the first adds.
* *Platcheck.*  A GPU, its neighbour and a third function in the same group or
  another one, each on one of two cards; two changes (`MaxChanges`) let a device go and come back, or two
  go, in the middle of a group.
* *Kernels.*  Tile edge, transpose rows, the limit of the grid and the number of
  bins are scaled down to 2, 1, 2 and 3: sizes 1 and 3 then have partial tiles
  in both dimensions, a grid-stride loop takes a second round, and a bin is hit
  by several threads and blocks.  Powers of two as input tell every set of
  summands apart.  `MaxGridY` is 2, so that a matrix of five rows needs one row
  of blocks too many.
* *Controller and JobFile.*  `kMaxTasks`, retries and repeats are scaled down to
  5, 2 and 3 so that the limits are met and crossed, at the entry and inside a
  repeat; the timeout keeps its 86400.  Of the job files one is run: a task with
  a retry and one without, one capable agent for the second, so that failure,
  flaky, skipped and ok all occur, alone and together.  What commands do after
  the run has ended is not followed.

### Fairness

* *Scheduler*: weak fairness of every worker's loop and of every recorded
  result.  The operating system runs runnable threads and hands over mutexes;
  `GrpcExecutor::run` bounds an attempt with a deadline.  A spurious wake-up is
  never promised.
* *Valdev*: weak fairness of a thread inside a call, strong fairness of taking
  the mutex (Linux mutexes hand over to a waiter that was passed over).
* *Process*: weak fairness of the agent's threads, of the child up to its
  `exec` and of the clock.  The command owes nothing: it may hang, ignore
  SIGTERM and leave children.  `CallsReturn` holds in addition under the
  assumption that output comes to an end (`FiniteOutputSpec`); it fails
  without.
* *AgentProgram*: handlers run and `run_process` returns, every wait of the
  executor ends, and the program gets on with installing its handlers, seeing
  `g_stop` and shutting down.  Nobody has to start the agent, to connect to it
  or to signal it.
* *Kernels*: weak fairness of the grid as a whole; the device makes progress
  while some thread can.
* *VmHarness*, *Controller* and *Platcheck* state no liveness: their waits are
  bounded by clocks, and what is at stake is what holds when they end.

### Where the code and its documentation disagree

1. `scheduler_hang`: `resolve_unschedulable` runs only when an agent goes from
   alive to retired, and skips running tasks.  If one slot of the only capable
   agent fails while another is running, the second one's task is put back
   after the only look at it.  The workers of the other agents wait for ever,
   although `scheduler.hpp:74` says a task nobody can run is reported "rather
   than hanging the run".  `ReturnsUnlessStranded` shows that this is the only
   way to hang, and `OneSlotStrandsNobody` proves it needs two slots.
2. `valdev_stats`: `opens` is read after the mutex was released;
   `valdev_ioctl.h:37` promises an atomic snapshot.
3. `process_inherited`: `pipe` and the `fcntl` that sets FD_CLOEXEC are two
   steps.  `NoCircularWait` shows that the resulting waits at least never form
   a circle.

Observed on the way, without a run of their own: a task left over as in 1 when
no other agent is alive is reported Unschedulable with an empty message
(`scheduler.hpp:51` says the message is set); a guest whose agent does not
answer in time is not destroyed when the boot fails (`vmtest/src/tests.cpp:88`)
and runs on beside the next one until the connection closes; a killed harness
leaves the overlay in use in the work directory, although `docs/TEST_PLAN.md:34`
says that an aborted run leaves nothing behind (`NothingLeft` says how much it
leaves); an overlay that cannot be removed, or that a failing `qemu-img` has
already created, stays there without a word, and with the former the run may be
green (`vmtest/src/tests.cpp:53`, `:63`); `vmtest` exits with 0 when its report
was opened but not written completely (`vmtest/src/main.cpp:53`); when the second
or third `pipe` of a call fails, the descriptors of the earlier ones stay open
for the life of the agent (`dtest/src/process.cpp:69`); an NVIDIA audio function
whose GPU is not in the group is taken for the "GPU's own" one
(`platcheck/src/checks.cpp:329`, `docs/TEST_PLAN.md:52`), so that a GPU beside
another card's audio function is called isolated; the same
`--agent` given twice makes the controller use twice the agent's slots;
`drain` looks at no clock, so a command that is never outrun keeps
`run_process` there past its deadline; a task that failed once and whose
capable agents then die is "skipped" in the JUnit file; `dtest-ctl` checks that
the JUnit file can be opened, not that it was written; an agent that gets SIGTERM after
it has announced its port and before it calls `signal`
(`dtest/src/agent_main.cpp:122-129`) dies at once and leaves its commands
running; a `--filter` that matches nothing makes `vmtest` exit with 0; a device
unplugged while platcheck reads its group counts as a foreign one, so that a GPU
may be called not isolated that is.

## Proofs

Every safety invariant and safety action property of the passing runs is proved
for all values of the constants; what is left to TLC alone is liveness.  The
assumptions are those of the modules (`...Assumption`), which TLC evaluates on
every run: finite sets of agents, controllers and calls, natural numbers where
the code has unsigned ones, values such as `NoPid` and `Nobody` that stand for
nothing; in `JobFile` the limits of `jobs.cpp` as bounds (the default timeout of
60 s is within the maximum, the maximum within the day an agent accepts); in
`Controller`, that a job file is a JSON document (`IsDocument`: lists are lists,
integers are integers, no object has a key twice) and that the one that is run
is accepted; in `Kernels`, that a launch has the types of the launchers' parameters
(`IsLaunch`: sizes of any sign, an input with an element for every index) and
that the rows of a transpose block divide its tile, as 8 divides 32.

| module | theorem | property |
|---|---|---|
| `SchedulerProofs` | `CoreInvariant` | `Spec => []Core`, the inductive invariant |
| | `TypeCorrect`, `RunsAreExclusive`, `RemainingIsExact` | `TypeOK`, `RunningExclusive`, `RemainingExact` |
| | `OutcomesAreFinal` | a task that is done never changes |
| | `WakeupsAreNotLost` | `NoLostWakeup` |
| | `GivingUpIsJustified`, `ReturnIsJustified` | `GivenUpJustified`, `ReturnJustified` |
| | `RetirementsAreListedOnce`, `RetriesGoElsewhere` | `RetiredOnce`, `RetryElsewhere` |
| | `OneSlotStrandsNobody` | with one slot per agent nobody is stranded |
| | `BookkeepingIsExact` | `FailuresExact`, `TriedExact` |
| | `ImplementsJobRun` | `JobRunSpec` |
| `AgentProofs` | `AgentInvariant` | `AgentInv`, inductive |
| | `CountIsExact`, `LimitIsHeld`, `AttemptsAreHonest`, `StopIsClean` | `CountExact`, `LimitHeld`, `AttemptHonest`, `StopLeavesNothing` |
| `ProcessProofs` | `ProcessInvariant` | `ProcessInv`, inductive |
| | `KillsItsOwnGroup`, `GroupIsSwept`, `OutcomeIsHonest`, `OutputIsComplete` | `NoStrayKill`, `GroupSwept`, `OutcomeHonest`, `OutputComplete` |
| | `NoCircleOfWaits` | `NoCircularWait` |
| `ValdevProofs` | `ValdevInvariant` | `ValdevInv`, inductive |
| | `ValdevTypes`, `NothingBeyondLen` | `TypeOK`, `ZeroBeyondLen` |
| | `EffectsAreAtomic`, `SnapshotsAreAtomic` | `AtomicEffect`, `ReadsAtomic` |
| `VmHarnessProofs` | `VmInvariant` | `VmInv`, inductive |
| | `NothingIsLeft`, `GuestKeepsItsDisk`, `GreenIsClean` | `NothingLeft`, `SharedGuestHasDisk`, `GreenRunIsClean` |
| | `PassesAreEarned` | `PassedMeansDone` |
| `PlatcheckProofs` | `PlatcheckInvariant` | `PlatcheckInv`, inductive |
| | `IsolationIsSound`, `OutputIsTrustworthy` | `IsolationSound`, `Trustworthy` |
| `ControllerProofs` | `ControllerInvariant` | `ControllerInv`, inductive |
| | `ExitIsHonest`, `RunsAreExplained`, `ReportIsHonest` | `ExitHonest`, `RunsExplained`, `ReportHonest` |
| | `JobFileParsedAsMeant`, `AcceptedTasksUsable` | `ParsedAsMeant`, `TasksUsable` |
| `KernelsProofs` | `NoTwoThreadsRace` | `RaceFree` |
| | `EveryKernelMatches` | `MatchesReference` |

**Scheduler.**  `Core` has the types, the fact that a worker inside `exec_.run`
has a task in hand, `RunningExclusive`, `RemainingExact`, and that no worker
exists before `execute` starts them.  None of the first four is inductive
alone: that `remaining_` is exact when a result is recorded needs the recorded
task to be unfinished, which follows from exclusive runs, which need the
worker's `cur` to be a task.  The three ways of recording a result share one
lemma (`RecordEffect`) that says what any of them does to the table: exactly
one task leaves the running state, some tasks become done, their number is what
`remaining_` goes down by.  Every later theorem is a second invariant on top of
`Core`: `ExitJustified` for what `execute` returns (a worker that has exited did
so because nothing remained or its agent is dead), `TriedExact` and
`FreshFirst` for `RetryElsewhere` (a running retry was dispatched when no fresh
agent was alive), `RunnerFit` for `OneSlotStrandsNobody` (an agent with a
running worker is alive, since its only slot is busy).

**Refinement.**  `JobRun` decides by the history of a task, the code by a
failure counter and a set of tried agents kept beside it; `BookkeepingIsExact`
says they agree.  Then each recorded result is one abstract step, `Claim` an
abstract dispatch, and all other steps change nothing that `JobRun` sees.

**Agent.**  The count of `running_` is exact only if every handler is at a known
place; what a worker records is right only if the answer it waits for belongs
to the call it made (`ReplyTrue`), for which no two workers may wait for the
same call, and none for one that was freed (`WaitsExclusive`).

**Process.**  The invariant has one part per thread and one per pid: at each
place of `run_process` it says what the call's process is like, which pipe ends
are open, where the clock and the byte counts stand, and which of its pipe
ends other processes may have inherited.  That a signal goes to one's own group
is then immediate: between `fork` and `waitpid` the pid cannot be reused.  A call that has returned
has no descriptor open, or it ended in LaunchFailed with the output pipe's two.  For
`NoCircularWait` a second invariant, `NoCycle`, is needed: among any threads one
has an exec pipe that none of the others' commands holds beyond its own exec.
It is preserved because such an end is inherited only by a fork that happens
between `pipe` and `fcntl` of its maker, whose own process does not exist yet.

**Valdev.**  `abs` is what the mutex last published.  `Progress` says, for the
thread that holds the mutex, how far it has come from there at each place; the
published state satisfies `ZeroAbs`, which a write that starts beyond the length
keeps, because what it skips is zero already.

**VmHarness.**  `GuestInv` ties handles, overlays and domains together at each
place: every overlay on disk is one the harness still has the path of, or is in
`lost`, and once it is killed all but one are.  `CleanInv` names the one guest a green run may have at each place, which
`GreenRunIsClean` only counts.

**Platcheck.**  `ReadInv` says that a record holds what the files said or nothing;
`WalkExact`, that on a host without changes the walk so far is exactly the
groups it has passed; `ResultsExact`, that each result is then the function of
the host it should be.  `ForeignIsTold` relates what the documentation calls a
foreign device to what the code's filter sees: they differ by the audio functions
whose own GPU is elsewhere, and by nothing else.

**Controller.**  Per task: at most one call at a time, one command per call and
results that fit the commands (`CallInv`), and a verdict that fits the attempts,
the retries left and the agents retired (`VerdictInv`).  That the job that is
run has tasks, finitely many, with natural retry counts is no assumption: it
follows from `AcceptedTasksUsable`, for whatever document the parser accepts.

**Kernels.**  `NoTwoThreadsRace` needs little of the state: that the launch is
valid and that phases are natural numbers.  For each kernel and segment a lemma
says what a thread touches, and two threads then meet nowhere for an arithmetic
reason: an index of a grid-stride loop has one owner (`OwnerBlock`,
`OwnerThread`, by the remainder modulo the width of the grid), an element of the
matrix lies in one tile at one place, a transposed cell is written in one pass of
one thread.  Where threads do share cells, `syncthreads` puts both into the same
segment, and a segment that reads what another thread wrote writes nothing there.

`EveryKernelMatches` rests on `GridInv`: while the grid runs, every array has
its shape (`Memory`), no thread of a block is more than one barrier ahead of
another (`Lockstep`), and `Computes`, which says for each kernel what the
output, the shared memory and the accumulators hold in terms of who has passed
which segment.  `HistogramInv`: a bin of a block's histogram counts the indices
of the threads past the second segment, an output bin those of the blocks whose
owner of the bin has added it.  `ReduceInv`: a cell of `partial` is the sum over
the indices whose owner is congruent to it modulo the current stride.
`GemmTiledInv`: the tile in shared memory belongs to the round the block is in,
and the accumulator is the first terms of the dot product, cut off at `K`.  Once
all threads are through, these say that the output is the reference.

**Induction over data.**  Folds over job entries, suites and sums, and the
recursive function that multiplies a tile, are handled in three ways.  Where an
induction over numbers is needed, it is the least element of the set of
counterexamples (`WFMin`, from the well-foundedness of the naturals), which the
provers can use since that set is a value and not an operator.  A recursive
function is first given a closed form, which is shown to satisfy its equation.
Numbers that are sums over sets are proved to be cardinalities: an input element
`in[i]` is the set of its units (`Units`), so that adding two sums is taking a
disjoint union, and `2^n` is the number of subsets of a set of `n` elements.

Only model-checked is liveness, which needs fairness and is out of the prover's
reach: `ReturnsUnlessStranded`, `CallsReturn`, `SlotsComeBack`, `StopEnds` and
`Completes`.  The three properties of the violation runs are refuted, of course,
by TLC.

## Not modelled

* Texts: the wording of messages, XML and JSON escaping, output tails,
  durations, base64, the domain XML.  `GetInfo` and the constant-time token
  comparison change no state.
* `policy.cpp`: a pure function of paths and the file system.  Its answer is a
  nondeterministic refusal in `AgentRpc` and `Controller`.
* Parsing below the level of a whole option, key or file: numbers
  (`config.cpp`, `ctl_main.cpp`), the JSON library, tokens of `/proc` files, the
  listing that `platcheck --groups` adds.
* `run_cmd` of `util.cpp`: one step of `make_overlay`, which succeeds or fails, with
  or without a file.
* In `process.cpp`, argument vectors and environments.
* In `kernels.cu`, the overflow of an index near `INT_MAX` and the rounding of
  floating-point sums (`allclose` of `reference.cpp` allows for the latter).
* Shell scripts and test programs: drivers of the code above.

## State of the project

Done: all models and runs; the safety proofs of `Scheduler` with its refinement
of `JobRun`, of `AgentProgram`, `Process`, `Valdev`, `VmHarness`, `Platcheck`,
`Controller` with `JobFile`, and `Kernels`.  Nothing more of the system is
planned to be modelled: what is left is data, formatting and pure functions of
the file system, as listed above.
