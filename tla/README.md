# A specification of profcast

profcast samples call-stacks of running programs and converts profiles between formats. This directory holds
TLA+ modules that model its capture back ends, its symbolization and its formats, the TLC configurations that
check them on small instances, and proofs that TLAPS checks for every instance. File names below are relative
to `src/crates/`; a definition that models code has the name of the code where TLA+ allows it, and
`PROJECT.json` gives the lines it was translated from.

    tlc -config MCPerfRing.cfg MCPerfRing      # a run (see "Runs")
    tlapm PerfRing_proofs.tla                  # a proof

## 1. The system

| Component | Source | State it keeps | Operations |
|---|---|---|---|
| Linux capture driver | `profcast-capture/src/linux/mod.rs`, `launch.rs` | target, deadline, open counters, counts per call-chain, the last snapshot of the maps, the launched child and the pipe that holds it | `capture`, `open_counters`, `sample_loop`, `build_profile`, `Launched::{spawn, release, has_exited, shutdown, drop}` |
| perf ring buffer reader | `linux/perf.rs` | a mapped control page (`data_head`, `data_tail`) and ring | `Counter::{open, enable, disable, drain}` |
| Linux symbolizer | `linux/symbolize.rs` | maps, cache of parsed files | `Maps::snapshot`, `parse_maps`, `Module::load`, `resolve`, `function_at` |
| Windows capture driver | `windows/mod.rs`, `sample.rs`, `launch.rs` | cached thread list, cycle counts of the last tick, the thread in hand | `capture`, `sample_loop`, `sample_running_thread`, `walk_open_thread`, `Launched::{spawn, resume, drop}` |
| Windows symbolizer | `windows/symbolize.rs` | DbgHelp session | `new`, `refresh_modules`, `resolve`, `drop` |
| capture registry | `profcast-capture/src/lib.rs`, `profcast-core/src/capture.rs` | list of back ends | `by_name`, `available` |
| profile model | `profcast-core/src/model.rs` | frames, samples, value kinds | `validate` |
| formats | `profcast-formats/src/{folded,pprof/mod,speedscope,json}.rs` | none | `probe`, `read`, `write` |
| format registry | `profcast-formats/src/registry.rs`, `profcast-core/src/format.rs` | list of formats | `probe`, `by_name`, `output_by_extension` |
| command line | `profcast-cli/src/main.rs` | none | `convert`, `record`, `dump`, `formats` |
| C interface | `profcast-ffi/src/lib.rs` | handles, strings, last error of each thread | `profcast_probe`, `read`, `profile_write`, `profile_free`, `string_free`, `last_error`, `version` |

How they interact. A capture is one sequential call. On Linux it talks to the kernel through shared memory
(the ring, written by the kernel while it is read), to its child through a pipe whose closing is the only
message, and to the rest of the system through pids and `/proc`. On Windows it stops and restarts the threads
of a process that goes on creating and ending them. Samples are call-chains; `record_sample` counts them, the
symbolizer turns addresses into frames, `build_profile` makes a `Profile`. Formats turn a `Profile` into a
file and back; the registry decides by content and by name which of them reads a file. The C interface gives
the same readers and writers to threads of another program, which own what they are handed until they free it.

What is hard about it, and what would make each component correct:

* **Ring buffer.** Two writers of one control page, positions that never wrap over slots that do, records of
  other types to step over, a sample count read from shared memory, and events that must be off before the
  last drain. Correct: nothing is read that is not published, nothing unread is overwritten, drain never
  leaves the record boundaries, every record is seen once and in order, the last drain leaves nothing.
* **Capture and child.** Events must be armed before the child execs; each of a dozen steps may fail, and the
  locals that are dropped then must be dropped in the right order; the target, its threads and its pid come
  and go. Correct: a failed capture never ran the program, no child stays behind (running, held or zombie), no
  signal goes to a process that only inherited a pid, sampling starts with exec, the maps used are the
  target's, a capture ends at its deadline or with its target.
* **Several captures in one process.** `Source` is `Send + Sync`. A fork copies the other captures' pipes.
  Correct: a child runs only after its own release, and every released child does run.
* **Windows sampling.** A suspended thread may hold a lock the profiler needs; a thread id in a cached list
  may have gone to another process. Correct: suspends are paired, idle threads get no samples, only the target
  is touched, no thread stays suspended.
* **Launching on Windows.** The program is one string there: what was asked for as a list must come out of the
  quoting as the same list. It is created suspended, and every step before the resume may fail.
* **Symbolization and profile construction.** Binary searches over tables with overlaps and unknown sizes,
  addresses shifted twice, a hash map's order. Correct: a name is that of a function the address is in; frames
  are interned once; the profile says what was sampled.
* **Formats.** Indices and ids chosen by somebody else, a payload cut at a limit, labels that contain the
  syntax around them, two probers that must agree. Correct: what is read is valid, a trip through a file loses
  nothing the format can say, a file profcast wrote is recognised, one it could not write whole is not.
* **C interface.** A call that fails has only NULL to return, and may fail by a panic; messages belong to
  threads, memory is freed by somebody else. Correct: each NULL is explained by a message of its own, each
  allocation has one owner, a message stays valid until the thread's next call.

## 2. Modules

| Module | Role |
|---|---|
| `SampleQueue` | abstract specification: a lossy FIFO of call-chains between kernel and profiler |
| `PerfRing` | `Counter::drain` against the kernel, word by word; implements `SampleQueue` |
| `MCPerfRing` | its instance for TLC |
| `PerfRing_proofs` | invariants and refinement, proved |
| `Launch` | abstract specification: what a capture of a launched command promises |
| `PerfCapture` | one Linux capture with its child and target; implements `Launch` |
| `PerfCapture_proofs` | its invariants and refinement, proved |
| `LaunchBarrier` | the pipes of several Linux captures in one process; each implements `Launch` |
| `LaunchBarrier_proofs` | its invariants and refinement, proved |
| `WinCapture` | one Windows capture with its target; implements `Launch` |
| `WinCapture_proofs` | its invariants and refinement, and that the quoting is undone, proved |
| `Quoting` | an argument vector made into a command line and taken apart again |
| `MCWinCapture` | `WinCapture` with the command line of what it launches |
| `Selection` | what the symbolizer, the readers and the writers do to a sequence: filter, intern, look up |
| `Selection_proofs` | lemmas about these and about induction, cited by `ProfileBuild_proofs`, `Convert_proofs` and `WinCapture_proofs` |
| `Symbolize` | Linux `resolve`, all below it, as operators, with a reference definition |
| `DbgHelp` | Windows `resolve` over the answers of DbgHelp, over `Symbolize` |
| `ProfileBuild` | `record_sample` and `build_profile` of both drivers, over `Symbolize` and `DbgHelp` |
| `MCProfileBuild` | its instance for TLC |
| `ProfileBuild_proofs` | interning, the finished profile and its names, proved |
| `Profile` | the model and its `validate`; texts as sequences of tokens |
| `Folded`, `Pprof`, `Speedscope` | the formats as operators, over `Profile` |
| `Convert` | registry, `convert` and the end of `record`, over the three formats: chains of conversions |
| `MCConvert` | its instance for TLC |
| `Convert_proofs` | what readers answer and how a pprof file is read back, proved |
| `Ffi` | the C interface called from several threads |
| `MCFfi` | its instance for TLC |
| `Ffi_proofs` | its invariants, proved |

`PerfCapture` abstracts what `PerfRing` details (the rings are a set of pending samples) and what
`LaunchBarrier` details (one pipe, whose only other holder is the profiler). `PerfCapture` leaves a sample as
"the image that ran when it was taken"; `ProfileBuild` starts from the call-chains.

Definitions named in a comment "Mutant of X" are wrong variants of X that show that a property can fail: with
X replaced by one of them, TLC finds its property violated. No specification uses them.

### PerfRing

One variable for each thing the two sides share (`buf`, `head`, `tail`, `enabled`), the kernel's private
cursors (`rhead`, `wpos`) and the locals of `drain` (`lhead`, `ltail`, `rsize`, `nr`, `ips`, `pc`). `phase` is
where `sample_loop` is: in its loop, in the last drain, done. `log`, `edge` and `taken` are history: the
records reserved, their boundaries, how many drain has passed.

The kernel (external, from the perf ABI as perf.rs uses it) reserves room for a whole record, writes it a word
at a time, then publishes `data_head`. `drain` is split at every read or write of shared memory: `DrainStart`
loads head and tail, `DrainHeader` reads a header and steps over what is not a sample, `DrainCount` reads and
clamps the count (`ClampNr`, with its saturating subtractions), `DrainIp` reads one address, `DrainSample`
calls `on_sample` unless the chain is empty, `DrainExit`/`DrainPublish` store `data_tail`. `Disable` ends the
loop; an `ioctl` that fails leaves the kernel emitting during the last drain. A position is a natural number,
a slot is that number modulo the size, as `read_u64` computes it. `MaxHead` bounds what the kernel writes. The
acquire load of head and the release store of tail are taken to order the data accesses as the ABI says; the
interleavings are those of sequential consistency.

### PerfCapture

`pc` walks through `capture`: `Spawn` or `Attach`, `ListThreads`, `OpenOne` for each thread, `OpenDone` (no
counter is an error), `Release` for a command or `EnableOne`/`EnableDone`, then the loop (`InitialSnapshot`;
`Drain`, `Refresh`, `CheckDeadline`, `HasExited` or `PidGone`), `DisableAll`, `FinalDrain`, `BuildProfile`,
and the drops in their order in Rust: counters, then `Launched` whose `Drop` kills and reaps (`Kill`,
`WaitChild`) before its fields close the pipe (`CloseBarrier`). Every fallible call also has its error
outcome, which goes to the drops. The target execs, fails to exec, starts and ends threads, is sampled, exits
and is reaped by whoever owns it; once free, its pid may be given to a stranger that outlives the capture
(`Recycle`, for the kinds in `Recycled`; of a pid that was given to the capture, from the moment its events
are open: a process that gets it earlier is simply the target). The profiler may be killed at any point
(`Crash`).

Assumptions: a process that was sent SIGKILL executes nothing more; a child never closes or outlives its own
pid before `waitpid`; `waitpid` reaps the child (its result is ignored, as in `launch.rs:129`, and its failure
in `has_exited` is taken for "still running"); a zombie has empty maps and still has `/proc/<pid>`. The code
asks for no signal on the parent's death, so only the end of file frees a held child after a crash.

### Launch

Two variables: the program is not there, held, running, dead or gone; the capture is attaching, sampling, has
returned or has crashed. A capture that is attaching may create the program; only one that has attached may
let it go; a program starts after that, or when a crash has left nobody to hold it; it may end at any time;
and a capture returns only when the program is gone. So a capture that fails before it attached never ran the
program, and no child, running or zombie, is left behind: two promises in one. Each implementation defines the
mapping `L`: `PerfCapture` and `WinCapture` from the place in `capture` and the state of the process,
`LaunchBarrier` one for each of its captures. Starting and letting go are apart on Linux, where the child
execs some time after the pipe was closed, and one step on Windows, where `ResumeThread` does both; `LetGo`
allows either.

### LaunchBarrier

For each capture: where it is, its child's stage, and the write ends the child has inherited. `Pipe` and
`Fork` are separate, as two threads may be between them; a fork copies every write end then open. The child
closes only its own (`CloseWriteEnd`) and blocks until end of file, which means that no process holds the
write end (`EndOfFile`); exec closes the rest (`O_CLOEXEC`). `Release` also has the error path (`failed`), on
which the child is killed before its pipe is dropped; to `Launch` a capture on that path is still attaching,
whatever has become of its pipe.

### WinCapture

As `PerfCapture`, for `SamplingSource`. `Tick` renews the thread list if it is missing or older than 500 ms
(`ListAges`), `Visit` opens a thread of the list and compares its cycle count with that of the last tick,
`Suspend`, `GetContext`, `WalkStack`, `Resume` are the calls on a thread that ran, `EndTick` keeps the counts
of this tick only. Thread ids are `free`, the target's or `alien`; an id whose handle is open is not reused.
`heap` is the lock of the process's allocator, which `WalkStack` needs if the stack is deeper than the vector
it pushes to (`capacity`). Assumptions: `ResumeThread` succeeds on a thread that lives, a process that was
told to end by `TerminateProcess` runs no more, a suspended thread runs no instruction.

`Quoting` is `append_quoted` as a fold over four classes of characters (backslash, quote, blank, other), and
the rules by which the launched program's C runtime splits the line (external: the "standard Windows quoting
rules" the comment of `encode_command_line` names). The name of the program obeys other rules there: it is
taken to have no quote and not to end with a backslash.

### Symbolize and ProfileBuild

On Linux, an address space is the lines of `/proc/<pid>/maps`, of which `parse_maps` keeps the executable ones
of files, and for each file its segments and its two symbol tables (`IsLinuxSpace`: the kernel's lines do not
overlap, of the files nothing is assumed). `load` gives no module for a file that was
deleted, that has no absolute name or cannot be read; otherwise the segments that are not empty and the
function symbols that are defined and have a name. The text of the maps and the bytes of ELF files are
abstracted to these fields. `Nearest` is `partition_point` on the stably sorted table. `Covers` is the
reference: the functions an address is in, said without tables. On Windows a session is what DbgHelp knows
(external): it answers with the symbol that starts nearest below an address, and `Trusted` is what
`function_at` believes of that: within its size, or within `EXPORT_MAX_DISPLACEMENT` of an export. Loaded
modules do not overlap (`IsSession`).

The two drivers have `record_sample` and `build_profile` in the same words. `ProfileBuild` counts the chains
delivered, visits them in any order (the hash map), turns each round, interns and resolves each address, and
validates. `MaxCount` is `i64::MAX` and `MaxId` `u32::MAX`, small enough here to be reached.

### Profile, Folded, Pprof, Speedscope, Convert

A text is a sequence of tokens: words, decimal and hexadecimal numbers, and the characters the formats give a
meaning (blank, semicolon, colon, brackets, `#`, newline). Two words or numbers are never adjacent, so that a
text has one reading. A pprof payload is a sequence of fields in the order of their tags, which is the order
prost writes; gzip and protobuf themselves are external. A stream whose end is missing is an error, unless the
limit ends the reading before. The reader's limit of 256 MiB counts fields here; a cut within a field is a
decoding error anyway, so only cuts between fields are told apart. Strings come last and so are the first to
be cut. `FieldTypes` is what the generated types give each field to hold; any sequence of such fields is a
message (`Messages`).

`Convert` is `load_profile` and `run_convert` as a machine: a file is probed, or read in the format of
`--from` (`load_profile`), or rejected; a profile is written by the format of `--to` or of the extension
(`Save`) or refused, which is also how a `--to` that does not exist ends, found only after the capture or the
reading. A write may fail and leave any part of the file (`Cuts`), a text also in the middle of its last
count. What was written may be read again. Its states start from files of other programs or from a captured
profile, so that `Save` is the end of `run_record` too.

### Ffi

An address is free or holds a profile, a string or a message; a freed address may be given out again, which is
what makes a second owner visible. A call is `Call`, the wait for the registry (a `OnceLock`: one thread fills
it, `FillRegistry`, `RegistryFilled`, the others wait), and the function itself, whose return hands out an
address or NULL and the thread's new message. Probers, readers and writers may answer, fail or panic. Callers
keep the contract of the header: each object is freed once, a profile is not freed while somebody writes it, a
message is read on the thread that failed. `answer` and `lent` are history: what the last call ran into, and
the pointer the thread was last given by `profcast_last_error`.

## 3. Runs

Passing runs, with every property they check. Each run takes less than two minutes with two workers, but
`convert`, which takes about two.

| Run | Configuration | Distinct states |
|---|---|---|
| `ring` | `MCPerfRing.cfg` | 93,371 |
| `capture` | `PerfCapture.cfg` | 13,964 |
| `barrier` | `LaunchBarrier.cfg` | 34,626 |
| `win` | `MCWinCapture.cfg` | 292,704 |
| `profile` | `MCProfileBuild.cfg` | 363,006 |
| `convert` | `MCConvert.cfg` | 656,075 |
| `ffi` | `MCFfi.cfg` | 24,963 (up to symmetry) |

**ring**: a ring of 5 words, 11 words of records of 2, 3 and 5 words (samples with no chain, with a marker
only, with a marker and two addresses; and other records of the same lengths). The ring wraps more than twice,
records straddle its end, the longest record fills it, and records are dropped for want of room.
`UnreadIntact`, `NoReadWriteRace`, `InStep` and `FinalDrainComplete` are the safety of the reader;
`ImplementsQueue` says that kernel and reader are the FIFO of `SampleQueue` under the mapping queue = records
not yet passed, source = event on; `PublishedIsReleased` that what is published is eventually released.

**capture**: each kind of target, with and without deadline, three thread ids, a pid reused once it is free,
whether it was launched or given. Three threads allow a list in which one is missing, one has ended and one is
sampled. `ImplementsLaunch` is the promise to a launched command, on every error path and after a crash;
`NeverKillsStranger` that no signal goes to a pid that is somebody else's; `SampledFromExec` and
`KeepsLiveMaps` are those of the loop; `NoChildHeldForever` and `CaptureEnds` are liveness. A capture ends at
its deadline, or with its target, unless another process has got the pid it was given: `CaptureEnds` leaves
that process out, and `capture_pid` shows what it does.

**barrier**: three concurrent captures, two of them with a duration. Three are needed for a child to inherit
two foreign pipes, one already closed. `ImplementsLaunch` holds for any number of captures and also catches a
pipe dropped before the kill on the error path. `ReleaseRunsUnbounded` and `BoundedReturns` hold as long as at
most one capture has no duration: its child execs, since the others are killed at their deadlines if they do
not exec first. That every release leads to an exec is not so, even if all have a duration
(`barrier_deadlock`).

**win**: each kind of target, two thread ids, one cycle count above zero, stacks of at most one frame, command
lines of arguments of up to four characters (a quote after two backslashes with something behind, say). One
advance per life of a thread is enough to be walked and to have a stale baseline. `SuspendPaired`,
`OnlyBusyWalked`, `ResumedInOthers`, `ArgumentsSurvive`, `ImplementsLaunch`, and `CaptureEnds` for targets
other than the profiler itself.

**profile**: three chains that share addresses, each delivered up to three times where a count saturates at 2;
four ids for up to five addresses, so that the table may be full. On Linux a program whose segment is shifted
in file and memory, with a symbol in each of its two tables, which may coincide, overlap, be empty or reach
beyond the segment, and an object, a nameless and an undefined symbol besides, or with two segments that
overlap in the file; a library that was deleted, and replaced by another of that very name; a mapping that is
no file. On Windows symbols with and without size, exports near and far, nameless ones, and lines with and
without a file. `ProfileIsRecording` (the profile is the multiset of chains, and only a full table is an
error), `OneFramePerAddress`, and `NamesExact`: no name but that of a function the address is in, and none
missed where neither functions nor segments overlap, in a file that is still there.

**convert**: chains of two conversions, the first of which may be of a foreign file. Folded texts are one line
of any two of nine labels (notes, file and line, address, blanks, `#`, empty, unbalanced) or two lines of a
small choice, with and without a last newline; the two-line ones come under three extensions. Messages have
two locations (with duplicate ids, dangling functions, inlined lines, missing names) and are whole or longer
than the limit of 13 fields (a message that is cut is one whose write failed); captured profiles have the
frames the symbolizers make, names with semicolons and newlines included. `--from` is absent, right, wrong or
that of a format that cannot be read; `--to` may be one that does not exist. Two trips are needed for "what
was read and written once is written again unchanged". `MaxLine` is 5 so that a line number may exceed a
`u32`; `MaxWeight` is 4 so that sums saturate; one line is the probing budget. `ReadIsWritable` says that
readers make valid profiles, which every writer takes; `PprofRoundTrip` and `FoldedRoundTrip` that what was
written is recognised and read back. Two kinds of pprof files are not recognised, and `PprofRoundTrip` says
so. One is a profile with neither a series nor a sample, if its table has only the empty string: the prober
has nothing to know it by (`pprof/mod.rs:398`). The other is a tie. Folded's prober decodes any bytes,
lossily, and if each line that ends within them (one is enough) happens to end in a blank and digits it is as
sure as pprof's (`folded.rs:93`); folded is registered first and keeps the tie (`registry.rs:134`), and its
reader then refuses the file. A message is not modelled byte by byte, so `FoldedConfidence` lets the prober
answer anything of it, and `looked` remembers what it answered. Read by name, both kinds come back.
`CutPprofIsNoticed` says that a pprof file whose write failed is not taken for a profile,
`EverySeriesExported` is about speedscope. `FoldedRoundTrip` is limited to labels the format can carry
(`Tame`) and to frames with one symbol and one kind of note (`Canonical`): folded has no quoting, so other
labels come back as other frames, which both definitions spell out. A folded file has no end that could be
missing: one cut after a line, or within its last count, is read as a smaller profile.

**ffi**: two threads, five addresses, at most two objects owned by callers. Two threads are one that fails
while another reads its message; five addresses are the two objects, a message for each thread, and one for
the call that replaces it. `NullIsExplained`, `OwnedOnce`, `MessageStaysValid`. Deadlock is checked: a panic
must not leave the registry half filled. Threads and addresses are interchangeable, and no liveness is checked
with this symmetry.

Runs that show a disagreement between the code and what it says of itself. Each checks one property, and TLC
finds it violated.

| Run | Property | What happens |
|---|---|---|
| `capture_maps` | `SymbolizedAgainstTarget` | `sample_loop` takes its first snapshot right after the barrier opens, when the child may still be the forked profiler. A program gone before the first refresh is symbolized against the profiler's mappings (`linux/mod.rs:162`; line 5 promises the target's binaries). |
| `capture_pid` | `ExitEnds` | An attached target exits and is reaped, and another process gets its pid before the loop looks: `/proc/<pid>` is there and a capture without duration goes on as long as that process (`linux/mod.rs:220`; `core/capture.rs:45`: "until the target exits"). With `Recycled` empty TLC finds the other way to the same end, a zombie that nobody reaps. |
| `barrier_deadlock` | `ReleaseFreesChild` | Two children forked while both pipes are open hold each other's write end; both captures were told their child is released, and neither execs (`launch.rs:65`; line 29). Both have a duration, as long as one likes (`LongSpec`); when it is over they are killed, without having run. |
| `win_aliens` | `OnlyTargetSuspended` | The list of thread ids is up to 500 ms old and an id is not asked whose it is: another process's thread is suspended and walked (`windows/mod.rs:187`; `sample.rs:234`). |
| `win_self` | `Resumed` | Sampling itself, the profiler pushes onto a vector while the walked thread is suspended; if that thread is in the allocator, neither goes on (`sample.rs:341`; line 5). |

### Fairness

Liveness is only claimed under what the code and its surroundings guarantee:

* `WF(CaptureNext)`, `WF(DrainNext)`, `WF(Capture(c))`: `capture` is sequential code in which nothing waits
  except where the model says so; a thread that can go on does.
* `WF(DeadlinePasses)`, `WF(Deadline(c))`: a duration elapses.
* `WF(Exec)`, `WF(Child(c))`: a child whose `read` has returned end of file goes on.
* `WF(KernelWrite \/ KernelPublish)`: the kernel finishes a record it has begun.
* `WF(Unlock)`: a thread that is not suspended leaves the allocator.
* `WF(ParentReaps)`, only in `ReapingSpec`: somebody reaps the target. `ExitEnds` needs it for a target that
  is not the profiler's child; `capture_pid` is the same property without it, and fails either way.
* `LongSpec` has no fairness for `Deadline`: durations may be as long as one likes, and what a release leads to
  must not wait for one to end.

Nothing makes a program exit, a thread run or a sample be taken. Deadlock is not checked where a capture may
return and everything may stop.

## 4. Proofs

The proofs hold for every value of the constants that meets the named assumptions. TLC checks the properties
on small instances, and evaluates the assumptions. In each module about a component an inductive invariant
(`IInv`, or `Inv`) joins the properties with what they need, each action has a lemma or a step of its own, and
the theorems follow from it. `Selection_proofs` holds lemmas only.

`PerfRing_proofs` (`SizeAssumption`: the ring has at least one word; `ChainsAssumption`: chains are sequences
of words; `MaxHeadAssumption`) proves `TypeCorrect`, `UnreadDataIntact`, `NoRace`, `StaysInStep`,
`NothingLeftBehind`, and `Refinement`: `Spec => ImplementsQueue`. None of the invariants is inductive by
itself. That a slot still holds an unread word rests on the distance between cursors, `rhead - tail <= Size`;
that drain may add a length it has just read rests on that word being the one the kernel wrote; and that it
was a header rests on drain being at a boundary. `IInv` joins them:

* `Bounds`: `tail <= ltail <= lhead <= head <= wpos <= rhead <= tail + Size`, and `tail = ltail` between
  drains;
* `LogShape`: the history `edge` lists the boundaries of the records of `log`, and only the last record may be
  unfinished;
* `InStep`: drain's position is the boundary after the `taken` records it has passed;
* `Boundaries`: `head` and drain's copy of it are boundaries;
* `Reading`: what drain holds of a record agrees with the record;
* `Stopped`: once the event is off the kernel is quiet, and the last drain covers everything;
* `UnreadIntact`.

`SlotInjective` (two positions less than `Size` apart have different slots) turns distances into disjointness;
`NextRecord` is the heart: before drain's head lies a whole record, word for word. There is one lemma for each
action, and `NextRefines` maps each action to `Emit`, `Take`, `SwitchOff`, `Finish` or a stutter.

`LaunchBarrier_proofs` (which needs none of its module's assumptions) proves `TypeCorrect` and `Implements`:
every one of any number of captures implements `Launch`. The invariant adds `Stages`: what a capture and its
child hold at each place of `capture`, without which a child could be thought to run before the fork. For the
refinement, a step of capture c or of its child is mapped to a step of the abstract capture (`CaptureLaunch`,
`ChildLaunch`), and a step of any other is a stutter of it (`OthersLaunch`), although it may copy or close c's
pipe.

`PerfCapture_proofs` (`KindsAssumption`, `ThreadsAssumption`) proves `TypeCorrect`, `Sampled`, `MapsKept`,
`Harmless` and `Implements`, for any set of threads and every kind of target.

* `Stages` says, for each place of `capture`, what is true of the child, of its pid and of the pipe: the
  barrier holds the child until all events are armed, and a capture that failed before `Release` still has a
  held child. It is what `Harmless` rests on: the kill is only reached with a child that was not reaped, and a
  pid is not free before that. `Others` and `NoPipe` say that only a command has a child and a pipe.
* `Events`: when the pipe opens, the child's first thread has its event. With `Stages`, which keeps the child
  from running before, that is `SampledFromExec`.
* `Images`: the image changes with the exec only, and the program's mappings are read after it.

In `Implements` every step of `capture`, its drops and its error paths, of the target, and the crash is mapped
to a step of `Launch` or a stutter; `Stages` gives the abstract guard.

`WinCapture_proofs` (`ThreadsAssumption`, `BoundsAssumption`) proves `TypeCorrect`, `Paired`, `Busy` and
`Implements`. `Stages` relates the thread in hand to the place in the loop, `Program` the launched process to
it. `Busy` needs `Baseline`: a thread whose cycle count exceeds the count kept for it ran since that was read.
A tick has two such counts, the last one's for threads it has yet to visit and its own for those it has
visited, and a count that was read before its thread ended may be that of an id somebody else has got since;
`Baseline` covers these. Neither theorem says whose thread it is, and `win_aliens` shows why.

Its second part (`MaxLengthAssumption`) is about the command line: `Survive`, and `Given`, of which the run
checks vectors up to a length and the theorem says it of all. The quoting and the C runtime's rules are both
folds over characters, so the proof begins with what a fold makes of one element more (`FoldExists`,
`ParsedMore`, `QuotingMore`, `EncodeMore`). Then `Standing` is kept by every character of a quoted argument
(`StandingAll`): what has been written of it is read as that much of the argument, up to the backslashes that
are held back, and the count of those makes up for the rest. An argument without blank or quote is read as it
is (`BareAll`), backslashes included, since none of them stands before a quote. `ArgumentRead` joins the two,
and `Told` is kept along the arguments (`ToldMore`). The program's name must be one (`IsProgram`: not empty,
without a quote, not ending in a backslash), as Windows' names are.

`Ffi_proofs` (`NullAssumption`) proves `TypeCorrect`, `Explained`, `OneOwner` and `StaysValid`, for any number
of threads and addresses. `SlotsHoldMessages` and `LentIsLast` (what a thread was lent is what its slot holds,
and only between its calls) give `StaysValid`, and `Owners` restates `OwnedOnce` one address at a time, which
is the form a step preserves: a failing call frees its thread's old message and takes an address nobody has.

`Selection_proofs` is about sequences of any length. Theorems of the library that take an operator cannot be
instantiated here, so induction is over sets: `Induction` says that a set of naturals with 0 and with each
successor is all of them (from the well-foundedness of the order, `Least`), and a claim about all n is made by
naming the set of those for which it holds. `Recursion` gives a recursive function its values. From these come
what `Chosen` chooses (`ChosenIs`: the elements at the positions in a set, in order), that an interner's table
has each element once (`InternedIs`), that `IndexOf` finds what is there, what the concatenation of a sequence
of sequences consists of and where each of them lies in it (`FlattenIs`, `FlattenLaid`), that a block of
positions chooses a part (`BlockChosen`), and that positions listed in order choose what they list
(`ChosenListed`).

`ProfileBuild_proofs` (`ChainsAssumption`, `LimitsAssumption`, `SpacesAssumption`) proves `InternedOnce`,
`Recorded`, `Typed` and `NamedExactly`, for any chains. For the first two `resolve` may say anything of an
address, as long as it gives the address back (`ResolvedAddress`). `Counted` says that a count is what was
recorded up to the limit, `Table` that ids and frames agree, `Hand` that the ids on the stack are those of the
chain in hand so far, `Built` that there is one sample for each chain visited. Frames are only appended, so
that the ids of earlier samples keep their meaning (`PushInv`, `InternNewInv`).

`NamedExactly` is about what `resolve` does say, of any address space. On Linux (`NamedOnLinux`) at most one
line of the maps is around an address (`OneLine`), so the first that is found is the one; the first segment
around the file offset gives one of the addresses it is linked at (`Translated`); the nearest function at or
below that exists if any does (`NearestExists`), and an answer is its name, with the address inside it or its
size unknown (`AnswersAre`): so no name is wrong, whatever symbols, overlapping or not, a file has. Where no
function starts inside another and the address is linked at one place only, the function around it is the
nearest, so none is missed (`NoneMissed`). `NamedOnWindows` is the same with DbgHelp's answer in the place of
the search. That frames can be typed at all (`Typed`) rests on the spaces being what the kernel, ELF and
DbgHelp have fields for, which is what `SpacesAssumption` says.

`Convert_proofs` is about chains of conversions of any length, from any files and any captured profiles. It
assumes that a foreign file is some text or some message (`ForeignAssumption`: any sequence of tokens, any
sequence of fields), that a captured profile is a valid one whose frames have names (`CapturedAssumption`:
`NamedExactly` and `Recorded` are about where those come from, and a frame without a function's name has the
address for its label), and that the decoder looks at something (`PprofAssumption`). It proves `Typed`,
`Writable`, `RoundTrip`, `CutNoticed`, `Exported` and `FoldedBack`. The invariant `Inv` adds to the types

* `ProfilesSound`: what was read, and what was written last, is `Sound` (typed, valid, every frame with a
  name), and if it came from a pprof file `Normal` (no frame twice, nothing present but empty);
* `FileLeft`: a pprof file is what a write of the last profile left (`LeftOf`), whole if the write did not
  fail;
* `FoldedLeft`: a folded file that was written in full has what the writer answered;
* `Loaded`: how the file was read, which detection or `--from` decided, and what that reader answered;
* `Answered`: why the writer refused, and what it exported.

That `ProfilesSound` is preserved is a fact about the readers: `FoldedReadIs` and `PprofReadIs` say that what
they answer is sound, of any text and of any message. The other half is about pprof files that were written.
`EncodedIs` lays the six tables of a message out one behind the other, and `DecodedStart` says that the first
n fields of it are decoded to the starts of these tables, each as long as n allows. What is left of a file is
therefore a message with a start of each table. `CutIsErr`: if anything is missing, the last string is, since
strings come last; that string was put into the table for a kind, a module, a function or a file that a table
before it refers to (`LastIsNeeded`), so that the reader, which checks every reference, refuses it. This is
why a payload beyond the limit is never read as a smaller profile, although the limit itself is no error; it
needs a profile with at least one kind of values, without which a message may need no string at all (a part of
it that is read may then say less, which `PprofRoundTrip` allows). If nothing is missing, the reader finds
each location by its id (`PlacedIsFound`), its module and names by theirs (`MappingNamed`, `FunctionNamed`),
and makes of it the frame it was made of, as far as a message can say it (`ExpandedBack`); frames that become
equal are merged, and the ids of the stacks follow them (`StackBack`, `SampleBack`), so that every stack still
says the same frames (`BackSays`). Of a normal profile no two frames merge and none loses anything: it comes
back as it was (`NormalBack`). `WholeIsRead` says this of whole files, for any profile, and that one with a
series or a sample looks like pprof; `MessageFound` is the registry's part: no extension outweighs a message
that was recognised, unless folded's prober is as sure. `RoundTrip` has therefore the same exceptions as
`PprofRoundTrip`, and no others.

`FoldedBack` states `FoldedRoundTrip` of every profile whose labels the format can carry, with any number of
stacks. A text is taken apart by the positions of a mark: the pieces between them are where the cuts are
(`SplitCut`), so that pieces without the mark, joined by it, come back (`SplitJoin`), and so do lines without
a line's end (`LinesBack`). `ClassifyBack` finds the count behind the last blank, whatever blanks a label has,
and the labels before it; no line is a comment, since the root's label does not begin with '#' (`Tame`).
`LinesRead` follows the reader over the lines, of which it keeps those with a count and interns their labels,
and `ReadSays` says that what it makes has the labels of each stack, in order, with the count. That a label
gives the frame back is `RenderBack`: the last " (" opens the note that `render_frame` put last, and the last
colon in it separates a file from its line, because a canonical frame has one kind of note, none in its names,
and a file's name that is not empty (`Canonical`; one that is empty is read as no file). `TextFound` is the
registry's part: a text of stacks is recognised as one whatever the file is called.

Only model-checked: liveness, which needs fairness and `ENABLED`, out of TLAPS's reach here.

## 5. Not modelled

* The capture registry, `record`'s argument checks, the `formats` listing, `profcast_version`. The registries
  of back ends and formats never change after they are built.
* Of the generated wire types, the fields that neither conversion reads or writes.
* The fuzz harness: its contracts, that readers return valid profiles and writers take them, are
  `ReadIsWritable` here.
* The text of `/proc/<pid>/maps`, the bytes of ELF, DbgHelp's answers, unwinding: inputs of the models, as
  fields.
* gzip, protobuf, JSON: external; a file is what they decode to. No message is UTF-8 here, so that folded's
  reader refuses it: of a compressed one the second byte (0x8b) says so; an uncompressed one, which only
  another program can have written, might be ASCII throughout.
* Arithmetic on the headers of malformed ELF files beyond 64 bits.
* Unicode, carriage returns, numbers too long for a count in folded files, wording of errors, logging.
* Weak memory: PerfRing interleaves sequentially consistent steps.
* `refresh_modules`' throttle of 150 ms, and two captures in one process on Windows, where DbgHelp is not
  thread-safe and two captures of their own process would each see the other's sampler.
* Threads are listed once and events do not inherit, so a thread started later is not sampled. The model has
  such threads and gives them no event; it is a limit of what is captured, and no property claims otherwise.
* The frame table of the pprof reader saturates at `u32::MAX` ids, which no payload within its limit can
  reach.

Hazards that no property covers are listed in `PROJECT.json` with the reason.

## 6. Plan

Done: ring, capture, barrier, Windows sampling and launching, symbolization on both systems, profile
construction, formats, conversion with failing writes, C interface; `Launch` and its three implementations;
proofs of ring, capture, barrier, Windows sampling and quoting, profile construction and its names,
conversions through folded, pprof and speedscope, and C interface.

Next: what the comments on the formats claim beyond the properties checked so far: that folded detection and
parsing never disagree (`folded.rs:56`), that leading bytes suffice to probe (`core/format.rs`,
`ProbeData`).
