# check-git-status in TLA+

`check-git-status` walks a directory tree, finds the Git repositories in it,
asks `git` about each of them from a bounded pool of workers, and prints a
table, warnings and an exit code. The repository holds it twice: the Go CLI in
the root (`main.go`, `cli.go`, `scan.go`, `git.go`, `output.go`) and a C++20
port under `cpp/`, which "mirrors the Go CLI's repository discovery, bounded
concurrent Git checks, status semantics, warning layout, exit codes, and timing
report" (`cpp/README.md:3`). This directory specifies both, checks the
specifications with TLC, and proves the central ones with TLAPS.

Paths such as `app.cpp` mean `cpp/src/app.cpp`; `process.cpp`, `main.cpp`,
`tests.cpp` and `app.hpp` are the C++ port's, `*.go` the Go CLI's.

## 1. The system

| part | state | operations | talks to |
|---|---|---|---|
| `main`, `run_cli` (`main.cpp`, `app.cpp:810`) / `main`, `runCLI` (`main.go`, `cli.go:64`) | the `interrupted` flag (Go: a context), output, exit code | parse, find git, discover, check, report | everything below, by calls |
| option parser (`app.cpp:350`, `cli.go:23`) | index, `options_ended`, `root_set`, `Options` | one branch per kind of argument | returns `Options` |
| discovery (`app.cpp:552`, `scan.go:15`) | stack of pending directories, iterator, repositories, warnings | inspect `.git`, list, push, sort | the file system, which others change |
| worker pool (`app.cpp:641`, `scan.go:72`) | C++: atomic index, slots, threads; Go: two channels, a WaitGroup, goroutines | claim, check, store, join, sort | the flag; one `GitClient::check` per path |
| git client (`app.cpp:443`, `git.go:105`) | deadline, `RepositoryStatus` | two commands, two parsers | the runner |
| process runner (`process.cpp:203`, `git.go:85`) | pipe, child process, reader thread, deadline | fork, poll, kill, reap, join | the kernel, git, and (through inherited descriptors) the other calls |
| output (`app.cpp:245-346`, `678-808`, `output.go`) | none | rows, wrapping, durations | streams |
| Windows command line (`process.cpp:96-122`, `243-260`) | none | quote, join | the C runtime of git.exe |
| finding git (`process.cpp:129-201`) | none | walk along `PATH` | the environment |

What is hard about it: threads that share an index, a flag and a vector of
slots without a lock; a signal at any moment, read in three places; processes
that hang, are killed while they end, fill their pipe, or leave others behind
that keep it open; a deadline shared by two commands; directories that vanish
or cannot be read while they are walked; and two programs that are meant to do
the same.

What makes each part correct:

- *pool*: no data race on a slot, no repository forgotten or checked twice, no
  more than `--workers` checks at once, no new claim after Ctrl-C, it returns;
- *runner*: a success is believed blindly, so it must be one; nothing is
  leaked; the reason it gives is the right one; it returns; on Windows the
  arguments arrive as they were meant;
- *client*: a status without an error describes the repository; the second
  command lives on what the first has left of the time;
- *run_cli*: statuses the pool has made up are never shown, exit code 0 means
  that nothing went wrong, an interrupted scan exits 130, table, summary, warnings
  and exit code do not contradict each other, the git it uses is the first on
  `PATH`;
- *discovery*: every repository once, none inside another, nothing dropped
  without a warning, the same as Go's;
- *options*: nothing contradictory gets through, the same as Go's;
- *output*: every failed check is named once with its message, the table and the
  warnings tell the same story, no word is lost in wrapping, columns are
  aligned, durations mean what they say.

## 2. The modules

```
RepositoryScan            what a pool promises
   ^ implemented by          ^ implemented by        | extended by
WorkerPool (C++ threads)  GoWorkerPool (channels)  RunCli (run_cli)
   ^ proved in               ^ proved in              ^ proved in
WorkerPoolProofs          GoWorkerPoolProofs       RunCliProofs

GitCommand                what GitRunner::run promises
   ^ implemented by                     | extended by
ExecGitRunner (POSIX and Windows)    GitClient (check, parsing)
   ^ proved in                          ^ proved in
ExecGitRunnerProofs                  GitClientProofs

GoDiscovery (reference) <- Discovery (C++ walk) <- proved in DiscoveryProofs
Options (both parsers) <- proved in OptionsProofs
Output (table, warnings, durations) <- proved in OutputProofs
WindowsCommandLine (quoting against the C runtime) <- extended by ExecGitRunner
```

`MC*` modules only give values to constants. Each specification starts with a
few operators under "Mutated forms": the same definition with one plausible
bug, which `PROJECT.json` substitutes to see that a property notices it.

**RepositoryScan** is the contract of `check_repositories`: repositories go
from *unchecked* to *checking* to *complete* (or, after an interrupt,
*interrupted*), at most `Bound` at a time, and the call returns when all are
complete or the scan is interrupted.

**WorkerPool** has one action per step that another thread can come between:
`Spawn`/`StartJoining`/`Join`/`SortAndReturn` of the calling thread, and
`TestCancelled`/`Claim`/`FinishCheck` of each worker, with the signal handler as
`Interrupt`. `next_index` counts from 1 because TLA+ sequences do. The checker
itself is one step, between claim and store; it is split up in ExecGitRunner
and GitClient. The cast `static_cast<unsigned int>(paths.size())` is modelled
with its width (`UIntModulus`). A check that ends in an error of its own is
*complete*; a status is *interrupted* if the checker saw the flag, or blank if
no thread ever claimed the slot.

**GoWorkerPool** models the unbuffered `jobs` channel as a joint step of sender
and receiver, `results` as a bounded sequence, and the WaitGroup as a counter.
Its workers never look at the context, so after SIGINT every path is still
handed out; its `Signal` is the interrupt of RepositoryScan.

**GitCommand** is the contract of `GitRunner::run`: at most one git is started;
it has ended, and everything written to its pipe has been read, before there is
an answer; and the answer is *ok* only for a git that ended well by itself,
*exit* only for one that failed by itself, *timeout* only after the deadline,
*interrupted* only after Ctrl-C.

**ExecGitRunner** models `ExecGitRunner::run` for several calls at once: the
calling thread (`Enter` to `Join`), the reader thread (`Drain`, `EndOfFile`),
git and one process git may leave behind. `host` is one of three: POSIX, POSIX
with SIGCHLD ignored by whoever started the program (then the kernel reaps git
and `waitpid` fails), and Windows. The two branches of the source are the same
function twice; where Windows differs there are `ConfigurePipe`
(`SetHandleInformation` and its failure), `FirstTest` (flag and clock are looked
at before the first wait) and `WaitFails` (`WAIT_FAILED` on a git that still
runs). `pipe()` is called without `O_CLOEXEC`, and `CreateProcessW` with
`bInheritHandles`: on both hosts a new git inherits the write end of every pipe
that another call has open at that moment. That is the variable `inherited`, and
why a reader's end of file may depend on somebody else's git. `CommandState(c)`
maps the state of one call to GitCommand's, and `ImplementsCommand` says that
every step of anything is a step or a stutter of each call's contract.

**WindowsCommandLine** has `quote_windows_argument` and the joining of the
arguments on one side and, as an external definition, the rules of Microsoft's C
runtime (which git.exe follows) on the other. Characters are of four kinds. The
three loops are recursive functions: `Taking` (one argument, character by
character), `Joining` (the arguments) and `Scanning` (the runtime, along the
line). The one assumption, `PathsAssumption`, is about the path of git.exe: no
quote in it and no backslash at its end, which Windows has in no file's name.
ExecGitRunner extends this module and says what it is for, `ArgumentsSurvive`.

**GitClient** extends GitCommand: `run_before_deadline` (`TooLate`,
`RunBeforeDeadline`), each command in the steps its contract allows
(`RunnerLaunches`, `RunnerWorks`, `RunnerReturns`), and the parsing of both
outputs. What git prints is an external definition: `RemoteLines` and
`StatusLines` derive it from the state of a repository, including its stderr,
which the runner merges into the output. An output is the set of its lines: git
prints each header once, and neither parser minds where a line stands. Time is counted in ticks so that the
rounding down to milliseconds is visible; the runner's own deadline starts when
git does (`started`), later than the client's reading of the clock (`handed`).

**RunCli** strings the phases together, extends RepositoryScan for the checks,
and lets Ctrl-C come at any step. `searchPath` says what is called git in each
directory on `PATH`, and `place` is the directory that is looked at:
`NextDirectory` is a turn of the loop of `find_git_executable`, `GitFound` and
`GitMissing` are its ends; the test (`Passes`) differs by platform. A check finds
one of `Statuses`, records of the six fields that `needs_attention` reads; what is
shown, counted, warned of and returned is computed from them by the operators of
the same names (`NeedsAttention`, `HasIssues`, `CleanRun`).

**GoDiscovery** is what the Go walk does to a tree at rest: the nodes it comes to
are the least set that holds the root and the entries of every directory it
descends into. **Discovery** is
the C++ walk step by step (opening the root, stack, iterator, marker), in a tree
whose parts may be deleted meanwhile, on either platform: `ReadEntry` and
`ReadFindData` are the two loops over a directory, and the tests of the marker
and of a directory that cannot be listed differ too. A node has a kind: what
`lstat`, `stat(".git")` and listing it say.

**Options** reads a command line one argument per step and compares the result
with `GoParse`, which puts `parseOptions` on an external model of package flag:
the places it comes to on the line, the one where it stops, and the last setting
of each option before it.

**Output** prints what `run_cli` has once the checks are over: the table, then
the warnings status by status, label by label and word by word, then the
timing. A text is its width, a message the widths of its words, and the 4 and
100 of `write_wrapped` are the code's. A line is the list of the words on it,
each with the column it starts at: `line_width`, by which the code decides, is a
variable of its own, so that the two may differ. A row of the table is likewise
its cells with their columns. Its inputs are the statuses GitClient can
produce (`MCOutput`): a failed `git status` is the error of two checks, and a
failed `git remote` leaves a repository without a remote.

## 3. The runs

| run | instance | shows |
|---|---|---|
| `worker_pool` | 4 unsorted paths, 3 threads, 35,742 states | `SlotOwnership`, `CompleteReport`, `CancelIsFinal`, `Termination`, `ImplementsScan` |
| `go_worker_pool` | 4 paths, 2 goroutines, 32,658 states | `NoSendAfterClose`, `WorkersNeverWait`, `CompleteReport`, `Termination` (no goroutine left), `ImplementsScan` |
| `exec_git_runner` | 2 calls, one writing a chunk and perhaps leaving a process behind, 3 hosts, 1,624,193 states | `NothingLeftBehind`, `OkMeansComplete`, `KillHitsOwnChild`, `ImplementsCommand`; on Windows `ArgumentsSurvive` for directories of up to 5 characters |
| `exec_git_runner_live` | POSIX, 2 calls, one leaves a process, the other fills its pipe, 556,701 states | `Returns` |
| `git_client` | 96 repositories, timeout 2 ms of 2 ticks, 1,412,544 states | `StatusIsTrue`, `AttentionIsVisible`, `SharedDeadline` |
| `run_cli` | 3 repositories with any of 8 statuses, 2 at a time, 2 directories on `PATH`, 795,320 states | `ReportIsGenuine`, `SuccessMeansSuccess`, `ReportAddsUp`, `NoGitPassedOver`, `InterruptedChecksExit130` |
| `discovery` | all kinds of entry on 4 nodes, 2 platforms, 2 deletions, 2,411,770 states | `MirrorsGo`, `StopsAtBoundary`, `EachOnce`, `NothingLostSilently`, `Termination` |
| `options` | all lines of up to 4 of 17 words, 286,199 states | `SoundOptions`, `MirrorsGoByUsage` |
| `output` | 14,981 reports: messages of up to 4 words of 6 widths, 3 failing repositories, all pairs of rows, 65 x 65 durations, 141,093 states | `WrapsFaithfully` (`LineFits`, `WordsParted` and `WordsSurvive`), `EveryErrorListedOnce`, `TableAgreesWithWarnings`, `AlignedColumns`, `DurationsReadBack` |
| `run_cli_interrupt`, `git_client_odd_output`, `discovery_build_root` | small | sentences of the documents or tests that the code does not keep (section 5) |

Deadlock is not checked: every component ends, and an ended one has no step.
That it ends where it should is what the liveness properties say.

Why the bounds suffice. *Pools*: four paths and three (two) workers let a worker
claim twice, find nothing left, and overlap with two others, and the unsorted
list makes the sort do something. *Everything with a proof* (section 4) holds for
every other size too: the pools for any paths and workers, the runner for any
number of calls, the quoting for any arguments, the client for any timeout,
discovery for any tree.
*Runner*: two calls are the least that can inherit from each other, and more only
add further holders of the same write end; the data of one call is enough,
because pipes do not mix, and one git that leaves a process behind makes every
kind of holder: a pipe's own git and its descendant, another call's git and its
descendant; that a git can wait for room in its pipe is in
`exec_git_runner_live`, where one writes two chunks into a pipe for one, on POSIX
alone, the host with the fewest ways out of the loop. *Quoting*: two backslashes,
a quote and a blank before the end of an argument need four characters.
*Client*: half a millisecond is enough for the rounding to
matter, the two commands can use up the time in every proportion, and remotes on
both sides of `origin` by name tell the choice from the sort. *Discovery*: a
child and a grandchild beside another child give a stack of two, a boundary
with something below it, and a listing that breaks off between entries.
*PATH*: none, a first and a last directory. *Statuses*: `MCRunCli` has one for
each reason to need attention, one for none and those a failed command leaves.
*Options*: an option, its value, `--` and a directory are four words; two numbers
that both programs read alike tell the last setting from the first; `UintMax` is
99 in the run, and the word `5000000000` stands for any number above it. *Output*: widths 47, 48 and 96 fill a line
exactly or by one too many, 97 is too wide for any; two failing commands with
two messages make every grouping a status can have, and a third repository lets
one without errors stand between two with.

### Fairness

- Threads and goroutines that can run do (`WF` per thread): the code has no
  locks to be starved of, and the scheduler is preemptive.
- Time passes (`Expire`).
- What git leaves behind ends some day (`HelpersEnd`). The code does not
  guarantee it, since it kills git alone and not its group: without this
  assumption `Returns` is false, because `reader.join()` waits for the end of
  the pipe. The caller of a real `git` is at the mercy of its hooks here.
- **Nothing** makes git end by itself, nor the user press Ctrl-C. A git blocked
  on a full pipe, or on a prompt, is one that does not end.
- `WorkerPool` takes each check to end, which is `Returns`; `RunCli` takes the
  pool to end, which is `Termination` of `WorkerPool`.

## 4. What is proved

Each component's theorems are about its own constants, with no more assumed of
them than the `ASSUME` of its module.

| theorem | module | says |
|---|---|---|
| `TypeCorrect`, `Invariance` | WorkerPoolProofs | `Spec => []TypeOK`, `Spec => []IInv` |
| `NoSharedSlot` | WorkerPoolProofs | `Spec => []SlotOwnership` |
| `ReportIsComplete` | WorkerPoolProofs | `Spec => []CompleteReport`, a wrapping path count included |
| `CancelStops` | WorkerPoolProofs | `Spec => CancelIsFinal` |
| `Refinement` | WorkerPoolProofs | `Spec => ImplementsScan` |
| `TypeCorrect`, `Invariance` | GoWorkerPoolProofs | `Spec => []TypeOK`, `Spec => []IInv` |
| `SafeClose` | GoWorkerPoolProofs | `Spec => []NoSendAfterClose` |
| `ReportIsComplete` | GoWorkerPoolProofs | `Spec => []CompleteReport` |
| `NeverBlocked` | GoWorkerPoolProofs | `Spec => []WorkersNeverWait` |
| `Refinement` | GoWorkerPoolProofs | `Spec => ImplementsScan` |
| `TypeCorrect`, `Invariance` | ExecGitRunnerProofs | `Spec => []TypeOK`, `Spec => []IInv` |
| `NoLeak` | ExecGitRunnerProofs | `Spec => []NothingLeftBehind` |
| `SuccessIsComplete` | ExecGitRunnerProofs | `Spec => []OkMeansComplete` |
| `KillIsSafe` | ExecGitRunnerProofs | `Spec => []KillHitsOwnChild` |
| `Refinement` | ExecGitRunnerProofs | `Spec => ImplementsCommand` |
| `CommandLineReadsBack` | ExecGitRunnerProofs | any list of arguments that begins with a path comes out of the command line as it went in |
| `ArgumentsArrive` | ExecGitRunnerProofs | `Spec => []ArgumentsSurvive` |
| `Invariance` | GitClientProofs | `Spec => []IInv` |
| `OneDeadline` | GitClientProofs | `Spec => []SharedDeadline` |
| `BranchIsTold` | GitClientProofs | `Spec => []BranchIsTrue` |
| `StatusIsTold` | GitClientProofs | `Spec => []StatusIsTrue`, for ordinary repositories |
| `AttentionIsShown` | GitClientProofs | `Spec => []AttentionIsVisible` |
| `TypeCorrect`, `Invariance` | RunCliProofs | `Spec => []TypeOK`, `Spec => []IInv` |
| `GenuineReport` | RunCliProofs | `Spec => []ReportIsGenuine` |
| `HonestSuccess` | RunCliProofs | `Spec => []SuccessMeansSuccess` |
| `OneStory` | RunCliProofs | `Spec => []ReportAddsUp` |
| `FirstGit` | RunCliProofs | `Spec => []NoGitPassedOver` |
| `Invariance` | DiscoveryProofs | `Spec => []IInv` |
| `Boundaries` | DiscoveryProofs | `Spec => []StopsAtBoundary` |
| `NoneTwice` | DiscoveryProofs | `Spec => []EachOnce` |
| `NothingLost` | DiscoveryProofs | `Spec => []NothingLostSilently` |
| `Mirroring` | DiscoveryProofs | `Spec => []MirrorsGo` |
| `Invariance` | OptionsProofs | `Spec => []IInv` |
| `Sound` | OptionsProofs | `Spec => []SoundOptions` |
| `Mirroring` | OptionsProofs | `Spec => []MirrorsGoByUsage` |
| `TypeCorrect` | OutputProofs | `Spec => []TypeOK` |
| `WrapsTrue` | OutputProofs | `Spec => []WrapsFaithfully` |
| `ErrorsListedOnce` | OutputProofs | `Spec => []EveryErrorListedOnce` |
| `TableAgrees` | OutputProofs | `Spec => []TableAgreesWithWarnings` |
| `ColumnsAligned` | OutputProofs | `Spec => []AlignedColumns` |
| `DurationsTrue` | OutputProofs | `Spec => []DurationsReadBack` |

The two contracts join the pieces. `ExecGitRunnerProofs!Refinement` says that
every call of the runner is a GitCommand, and GitClient takes its commands from
GitCommand; both pools are RepositoryScans, and RunCli takes its checks from
RepositoryScan. So what is proved of the client and of `run_cli` rests on what
is proved of the runner and of the pools, not on an assumption about them.

### The C++ pool

For every list of distinct paths, every positive number of requested threads
and every width of `unsigned int`. `SlotOwnership` and `CompleteReport` are not
inductive: the first needs to know that indices below `next_index` are the only
ones ever handed out and that each was handed to one thread, the second why
every slot below it has been filled when the threads are joined. `IInv` adds
four parts:

- `Claimed`: a thread that checks holds an index below `next_index`;
- `SlotsAccounted`: a slot below `next_index` is being checked or contains a
  status of its own path, interrupted only if the flag is set; one from
  `next_index` on is blank;
- `ExitsJustified`: a thread has exited only because the flag was set or because
  the index had passed the end;
- `MainKnows`: the threads counted as joined have exited, and the others were
  spawned before the joining began.

When the last join succeeds without an interrupt, some thread has seen the index
past the end (there is always one thread: `PoolSizeBounds`), no thread holds a
slot, hence every slot is accounted for by a complete status
(`AllSlotsComplete`), and sorting permutes distinct paths (`SortedReport`).
There is one lemma per action (`StepClaim`, `StepFinishCheck`, ...).

`Refinement` needs `IInv` before and after a step. `PhaseOfSlot` evaluates the
refinement mapping from the slot a path occupies; claiming a slot is `Begin`,
storing a status is `Finish`, returning is `Return`, and every other step leaves
the mapping alone (`SamePhases`). The bound on overlapping checks is
`RoomForOneMore`: repositories being checked are the image of the checking
threads, one of which is about to be added, among at most `Requested`.

### The Go pool

For every list of distinct paths and every positive number of requested workers.
The idea is to look at `Delivered`, the statuses the caller has received followed
by those still in the channel: receiving moves a status across the middle and
leaves the whole as it was, so only a worker's send changes it. `IInv` says of
a path that was handed out that it is with one worker or in `Delivered`, exactly
once (`OneWorkerEach`, `DeliveredOnce`, `NothingDropped`), that the WaitGroup
counts the workers that have not ended (`GroupCounts`), and in which order the
dispatcher sends, closes and ends (`DispatcherKnows`). `SafeClose` follows because
the last close comes after the count is 0, and `ReportIsComplete` because a
caller that has seen the end of a closed channel has all of `Delivered`.
`NeverBlocked` is a pigeonhole: a worker about to send holds a path that
`Delivered` does not have, so there are fewer statuses than paths, and the
channel has room for as many as there are paths. The refinement reads the phase of a path off the same
facts.

### The runner

For any number of calls at once, any amount of output, any capacity of a pipe
and all three hosts. One `CallInv(c)` per call says what the caller, git and the
reader know of each other:

- `CallerKnows`: what has been made by the time the caller is where it is;
- `ChildIsOurs`: a git its caller has not seen ending is still there, running or
  a zombie, unless the kernel reaps it;
- `ProcessKnows`: a git that runs has a caller that polls it, and what is alive
  holds the write end of its own pipe;
- `StreamKnows`: what was written is in the pipe or in the output, and a pipe
  that has reached its end of file is empty and has no writer;
- `VerdictKnows`: why git was killed is known before it is; otherwise the status
  is the one waitpid stored.

The calls do not only act next to each other: a fork copies the write ends of
*all* open pipes. The step that needs care is therefore a fork of one call under
the invariant of another: a pipe at its end of file has no write end left, in
this program or in any git, so no later git can inherit one, and the end of file
is final. That is why `StreamKnows` is about `WriteEndHeld` and not about the
call's own processes. `KillIsSafe` excludes the host with SIGCHLD ignored, and
there it may not be kept: the kernel may hand out the pid again.

`Refinement` shows for each call that a step of anything in the system is a step
of that call's GitCommand or leaves it alone.

On Windows, `ArgumentsArrive` says that git.exe gets the arguments it was meant
to get, and `CommandLineReadsBack`, which it rests on, says so of a list of any
number of arguments of any length. `Reads(s, text, t)` is "from the state s the
runtime gets through the text to t", and the proof follows the writer:

- of a quoted argument (`Quoted`), what has been written takes the runtime to
  all of it but the backslashes held back; each kind of character keeps that
  true, and the doubled backslashes and the quote of `Close` supply the rest;
- of an argument left as it is (`Plain`), the runtime has all of it, or will once
  it knows what follows the backslashes at its end;
- the program itself is read without escapes, so that a quote in it, or a
  backslash before the one that closes it, would be lost: this is what `Path`
  excludes, and why `Held` shows that nothing was doubled in it;
- `Pending` joins them: after k arguments of the line the runtime has k - 1 and is
  in the last, which the next blank, or the end of the line, ends.

Each is an induction along the text, done by the least counterexample
(`Counting`), since the prover cannot use the library's induction theorems.

### The client

For every set of repositories, with any number of remotes, any timeout and any
number of ticks to the millisecond. `StatusKnown` says that the status is what
parsing the output again would give, or that the error is set. `Timely` carries
the argument for `OneDeadline`: a command is given all that is left, cut off to a
millisecond, and the runner's clock starts no earlier than the client's reading,
so a command that times out leaves less than one millisecond (`UsedUp`), which
`Remaining` rounds to 0; the second command is then not run.

`BranchIsTold` holds of every repository. `StatusIsTold` has a premise, that no
remote is a partial clone and that git does not write to stderr: without it the
statement is false, as the run `git_client_odd_output` shows. Every other
combination of remotes, branch, upstream, commits and changes is covered. That
is what the run `git_client` checks on 96 repositories.

### run_cli

For every set of repositories with any statuses, every `--workers` and a `PATH` of
any length. Its `IInv` adds four parts: nothing has been found before the walk is
over (`NothingYet`), nothing written before the exit (`SilentUntilExit`), a check
without an issue has had a git that can be executed (`StatusesNeedGit`, for the
second half of `SuccessMeansSuccess`), and `ReturnedForAReason`: the pool returns
with every repository complete unless the flag is set, and nothing clears the
flag. The last one is where the contract is used. `StepTestCancelled` draws the
consequence: the report is reached only through a look at the flag *after* the
pool has returned, so every status in it is a genuine one. `OneStory` turns on one
fact about the two predicates, that a status with an issue needs attention: the
table and the summary ask the one, the warnings and the exit code the other.
`FirstGit` has an invariant of the loop, `SearchedSoFar`: no git that can
be executed stands before `place`, and what was taken is what stands there.

### Discovery

For every tree, with whatever in it, on both platforms, and with any deletions
during the walk. First come facts about trees: `BelowIsAfter` (nodes are numbered
in the order of their paths), `UnderAChild` (what is under a node is that node or
under one of its entries), `AllBelowRoot` (by the least node that is not). `Ahead`
is everything the walk has still to look at: the stack, the unread entries, the
directory being opened.

- `Apart`: of what has been found and what is ahead, nothing is in two places and
  nothing lies under another. Opening a directory replaces it by its entries,
  which keeps this true and leaves the directory itself behind. `Boundaries` and
  `NoneTwice` are both read off it: a repository is found instead of being opened.
- `DeletedWhole`: what is deleted is deleted with everything under it.
- `Covered`: while there is no error and no warning, every repository that is
  still there and in the open has been found or lies under something ahead. Each
  step that takes a node from what is ahead has to account for what is under it
  (`StillCovered`), and at the end nothing is ahead, which is `NothingLost`.

`Mirroring` adds to `IInv`, on a tree at rest where the two are alike, that the
port goes nowhere the Go walk does not (`NothingElse`) and that what the Go walk
comes to has been handled or lies on a walk from something ahead (`AllOfIt`);
`GoWalkGoesOn` splits the walk from a directory into the walks from its entries.
The order of the list is a separate invariant, `Sorted`. The premise that an
excluded root has no trailing slash is one the proof asked for: the opening of
the root could not be shown without it.

### Options

For command lines of any length. (A word is one of those the model tells apart,
or a directory.) `RootIsRead` says where the directory comes from: it is `.` as
long as none was given, and then a word at a place before `index`; if that word
is an option, a `--` stands before that place. For this it needs that
`options_ended` was set by a `--` that has been read.

`Mirroring` follows package flag along the line. `Places` is the least set of the
places it comes to; `Onward` and `Stopped` show that it steps over the words
between them and stops at one place only, and `SameFlags` that the options it has
set by then are what the port has. While the port reads options, it stands on one
of those places (`AtOptions`); behind the last of them it has nothing left but a
directory (`BehindOptions`), since on a line by the usage no option follows one
(`NoOptionsBehind`). Numbers meet in `PlainAlike`: those of the usage mean the
same to `from_chars` and to package flag. The cases of the port's steps then end alike: help and an
unknown option where package flag stops, a second directory where parseOptions
counts two words, the end of the line where it counts one or none.

### The output

For every list of statuses with distinct paths in which an upstream is in error
exactly if its check failed, for any messages, any widths and any durations.

- `Base` is where `write_check_warnings` is (`Placed`) and what it knows of the
  line it fills (`Filling`): that `line_width` is the column the line really ends
  at, that the line holds the last words taken, one after the other, and that
  none of them can be seen as long as `line_width` is the indent alone. The last
  part is what makes `line_width > indent` a sound test of "the line has begun".
- `Listed` is about headings and labels. `BlocksFollow`: one block for each status
  with an issue, up to the one at hand, in their order. `GroupsFollow`: under a
  heading, the issues of that status up to the one at hand, with the same checks.
  `Counted`: `count` is the number of labels, but for the one being filled. Beside
  it stands a lemma on `add_issue`, `IssuesFacts`: three calls of it put
  each failed check in one issue, over its own message, and give no message
  twice. `ErrorsListedOnce` is both together at the end, where every label is there.
- `Wrapped` says for each label that the lines under it, with the one being
  filled, are `Whole`: the message up to the word reached. It is not enough that
  each line is right, since what makes a break right relates two lines.
  `WholeAppended` and `WholeSplit` put a line behind the others and take it off
  again, which is what `AppendWord` does to the last one; `LastLineDropped` is the
  end of a message whose last line nobody would see, and `OthersStayWrapped` that
  a step touches the label being filled and no other. `WrapsTrue` is read off it.
- `Drawn` keeps the table. That a column has a widest cell (`LargestOfList`) and
  that the statuses kept by `--dirty-only` can be put in their order
  (`OrderExists`) are shown by a least counterexample, as an induction over
  numbers cannot be cited. `TableAgrees` compares, per check, the order of tests
  in `status_row` with the issues (`CellTells`, `LabelTells`).
- `DurationsTrue` is arithmetic: how a number of milliseconds splits into units
  (`ClockReads`), and that the digits left of a fraction are the fraction
  (`FractionReads`).

### Model-checked only

Liveness (`Termination`, `Returns`, `InterruptedChecksExit130`), which is out of
the prover's reach.

## 5. Where the code and its documents disagree

Each is a run that TLC ends with a counterexample:

- **`run_cli_interrupt`**: "an interrupted scan exits with code `130`"
  (`README.md:92`). During discovery nobody reads the flag, and if nothing is
  found, or the root fails, `run_cli` exits 0 or 1 (`app.cpp:836-849`; the same
  in `cli.go:85-98`).
- **`git_client_odd_output`**: a check without an error does not describe the
  repository, in two ways. "**Dirty** means `git status --porcelain` returned at
  least one entry" (`README.md:86`), but stderr shares git's pipe, so a warning
  on a successful `git status` is counted as an entry (`app.cpp:518`,
  `git.go:180`). "**No Remote** means no Git remotes are configured"
  (`README.md:85`), but `git remote -v` ends the line of a partial clone in
  `(fetch) [blob:none]`, and both parsers want `(fetch)` last.
- **`discovery_build_root`**: "a build directory used as the scan root should
  still be excluded" (`tests.cpp:239`). `lexically_normal` keeps the slash of
  `build/`, and gives one to the default `.`; then `filename()` is empty.

Other differences met on the way, which the passing runs leave out by their
inputs or premises:

- A scan root that is a symbolic link is walked by the port and not by Go
  (`app.cpp:562`, `scan.go:30`); a looping link makes the POSIX port warn and
  exit 1, where Go is silent; a listing that fails half-way keeps its first
  entries in the port and loses them in Go; a `.git` link that leads nowhere
  makes a repository of a directory on Windows only (`app.cpp:84`). `MirrorsGo`
  has the premises `AtRest` and `Alike`, which also leave out an excluded root
  that ends in a slash (`discovery_build_root`): there the port walks what Go
  skips.
- A directory called `git` on `PATH` is taken for the program on POSIX
  (`process.cpp:177`), where Go's `LookPath` goes on; every check then fails and
  the exit code is 1. Entries of `PATH` that stand for the current directory,
  which `LookPath` refuses, are searched by the port. On Windows `LookPath` tries
  every extension of `PATHEXT` in each directory, so that a `git.cmd` early on
  `PATH` is Go's git; the port looks for `git.exe` only (`process.cpp:148`).
  The two searches are therefore not compared: `NoGitPassedOver` is about the
  port's alone.
- A word without width (a run of UTF-8 continuation bytes) is glued to the word
  after it and lost at the end of a message (`app.cpp:311`, `327`); Go counts
  such bytes as one column each. `WordsSurvive` says exactly what may be lost.
- The port takes options after the directory and rejects `--workers=0` at once;
  package flag stops at the directory and lets a later `-j` repair it.
- The number of workers is read by `from_chars` in base 10 up to `UINT_MAX`
  (`app.cpp:165`), in Go by `ParseInt` in base 0 (`cli.go:38`): `-j 010` is 10
  workers here and 8 there, and the port rejects `-j 0x4`, `-j +3` and
  `-j 5000000000`, which Go accepts. A `-` alone is an unknown option here
  (`app.cpp:396`) and a directory there. The model has such words, and the run
  `options` reads them both ways; `MirrorsGoByUsage` is about lines that follow
  the usage text with a plain number (`PlainNumbers`) and without a `-` before
  `--`. Package flag also takes `-dirty-only` with one dash and `-d=false`, which
  the port rejects; the model has no such words.
- A timeout of the first command is reported with the time that was left, that
  of the second with the whole timeout, so it is listed as two issues.
- A `branch.ab` line whose numbers do not parse leaves `ahead` at 0 in the port
  (`app.cpp:535`) and is an error in Go (`git.go:195`); git prints numbers there.
- In Go, git may die of the terminal's SIGINT and its status be collected before
  the context is cancelled; the scan then ends with errors and exit code 1.

## 6. What is not modelled, and why

- The Go runner: one call of `os/exec` with a context, whose waiting, killing and
  copying are the standard library's, like `filepath.WalkDir` and package flag.
- On Windows: UTF-16 conversions (`process.cpp:80-94`), extended paths
  (`app.cpp:64-73`), the texts of system errors, and the second attempt of
  `FindFirstFileExW` without its flag.
- `supports_color` and the escapes in the table: they take no column and are
  decided once from the environment.
- The texts of usage and errors, and making the path of git absolute.
- `TerminateProcess` is taken to end git; its result is ignored
  (`process.cpp:303`, `309`, `319`), and were it to fail the call would wait for
  git to end by itself. A read that fails ends the reader as the end of file does
  (`process.cpp:289`, `419`): pipes that are open for reading are taken not to
  fail. The read ends that a git inherits on POSIX are left out, since a pipe
  that its own reader drains to the end never lacks a reader.
- On Windows every reparse point is passed over (`app.cpp:122`), also one that is
  no link, such as a directory kept by a cloud service, which Go may walk;
  `Kind` in Discovery has none.
- A failing `std::thread` constructor, and locks of the allocator held across
  `fork`: listed as hazards.
- System calls interrupted by the signal: `std::signal` restarts them.
- In `WorkerPool`, a git that the terminal's SIGINT kills before the program has
  seen its own is a check that failed by itself (*complete*).

## 7. Plan

Done: RepositoryScan, WorkerPool, GoWorkerPool, GitCommand, ExecGitRunner,
GitClient, WindowsCommandLine, GoDiscovery, Discovery, Options, RunCli, Output;
proofs of every safety property the runs check to hold;
and that both pools implement RepositoryScan and the runner implements
GitCommand.

Left: the output of the Go program, which could be compared with Output line by
line; and the liveness properties, should ENABLED come within reach.
