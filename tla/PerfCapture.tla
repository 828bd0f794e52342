---------------------------- MODULE PerfCapture ----------------------------
(***************************************************************************)
(* One call of `PerfSource::capture` (linux/mod.rs) with the child process *)
(* it may launch (linux/launch.rs), next to a target that starts, spawns   *)
(* threads, exits and is reaped whenever it likes.                         *)
(*                                                                         *)
(* The ring buffers are PerfRing's subject: here a sample is only the      *)
(* image that was running when it was taken, in a ring (`pending`) or in   *)
(* the aggregated counts (`counted`).                                      *)
(***************************************************************************)
EXTENDS Naturals, FiniteSets

CONSTANTS
    Kinds,          \* the targets tried: "current", "pid", "command"
    Threads,        \* thread ids of the target process
    Recycled        \* the kinds whose pid may go to another process once it is free

Main == 1           \* the thread id of a process's first thread

ASSUME KindsAssumption == Kinds \subseteq {"current", "pid", "command"}
ASSUME ThreadsAssumption == Threads \subseteq Nat /\ Main \in Threads
ASSUME RecycledAssumption == Recycled \subseteq Kinds

VARIABLES
    kind,       \* spec.target
    deadline,   \* "none" | "ahead" | "passed"
    pc,         \* where capture is
    result,     \* "none" | "ok" | "err"
    todo,       \* threads the current loop over them still has to handle
    counters,   \* threads with an open event
    enabled,    \* threads whose event is switched on
    barrier,    \* pipe that holds the child: "none" | "closed" | "open"
    reaped,     \* Launched::reaped
    maps,       \* the snapshot kept: "empty" or the image it describes
    counted,    \* images in `counts`
    proc,       \* the pid: "none" | "held" | "running" | "zombie" | "stranger"
    image,      \* what the target executes: "profcast" | "program"
    threads,    \* live threads of the target
    pending,    \* images with samples in the ring buffers
    seen        \* history: a snapshot was taken while the program was running

child == <<barrier, reaped>>
profile == <<maps, counted, seen>>
target == <<proc, image, threads>>
vars == <<kind, deadline, pc, result, todo, counters, enabled, pending, child, profile, target>>

Looping == {"drain", "refresh", "deadline", "poll"}
Sampling == Looping \cup {"snapshot", "stop", "final", "build"}
Locations == Sampling \cup
    {"start", "list", "open", "enable", "drop", "kill", "wait", "close", "returned", "crashed"}

\* A running process for `current` and, usually, for `pid`; the pid the user
\* gave may also be stale.
Init ==
    /\ kind \in Kinds
    /\ deadline \in IF kind = "current" THEN {"ahead"} ELSE {"none", "ahead"}
    /\ pc = "start" /\ result = "none"
    /\ todo = {} /\ counters = {} /\ enabled = {}
    /\ barrier = "none" /\ reaped = FALSE
    /\ maps = "empty" /\ counted = {} /\ pending = {} /\ seen = FALSE
    /\ proc \in CASE kind = "command" -> {"none"}
                  [] kind = "pid"     -> {"running", "zombie", "none"}
                  [] OTHER            -> {"running"}
    /\ image = IF kind = "pid" THEN "program" ELSE "profcast"
    /\ threads \in IF proc = "running"
                   THEN {s \in SUBSET Threads : Main \in s} ELSE {{}}

Alive == proc \in {"held", "running"}

\* Mutant of Snapshot: a dead process is given mappings of its own.
SnapshotOfAnything == IF Alive THEN image ELSE proc

\* Maps::snapshot: a process that is gone, or is a zombie, has no mappings.
Snapshot ==
    CASE Alive             -> image
      [] proc = "stranger" -> "stranger"
      [] OTHER             -> "empty"

Fail == result' = "err" /\ pc' = "drop"

-----------------------------------------------------------------------------
(* capture, up to the sampling loop                                        *)

\* Launched::spawn: pipe and fork; the child blocks reading the pipe.
Spawn ==
    /\ pc = "start" /\ kind = "command"
    /\ \/ /\ pc' = "list"
          /\ barrier' = "closed" /\ proc' = "held" /\ threads' = {Main}
          /\ UNCHANGED result
       \/ Fail /\ UNCHANGED <<barrier, proc, threads>>
    /\ UNCHANGED <<kind, deadline, todo, counters, enabled, pending, reaped, profile, image>>

Attach ==
    /\ pc = "start" /\ kind # "command"
    /\ pc' = "list"
    /\ UNCHANGED <<kind, deadline, result, todo, counters, enabled, pending, child, profile, target>>

\* read_thread_ids; a zombie still lists its first thread.
ListThreads ==
    /\ pc = "list"
    /\ IF proc = "none"
       THEN Fail /\ UNCHANGED todo
       ELSE /\ todo' = IF Alive THEN threads ELSE {Main}
            /\ pc' = "open"
            /\ UNCHANGED result
    /\ UNCHANGED <<kind, deadline, counters, enabled, pending, child, profile, target>>

First(t) == t \in todo /\ \A u \in todo : t <= u

\* Counter::open on one thread; a thread that is gone, or cannot be opened, is
\* skipped.
OpenOne(t) ==
    /\ pc = "open" /\ First(t)
    /\ todo' = todo \ {t}
    /\ \/ t \in threads /\ counters' = counters \cup {t}
       \/ UNCHANGED counters
    /\ UNCHANGED <<kind, deadline, pc, result, enabled, pending, child, profile, target>>

\* Mutant of OpenDone: goes on though no event could be opened.
OpenDoneUnchecked ==
    /\ pc = "open" /\ todo = {}
    /\ pc' = "enable"
    /\ todo' = IF kind = "command" THEN {} ELSE counters
    /\ UNCHANGED <<kind, deadline, result, counters, enabled, pending, child, profile, target>>

OpenDone ==
    /\ pc = "open" /\ todo = {}
    /\ IF counters = {}
       THEN Fail /\ UNCHANGED todo
       ELSE /\ pc' = "enable"
            /\ todo' = IF kind = "command" THEN {} ELSE counters
            /\ UNCHANGED result
    /\ UNCHANGED <<kind, deadline, counters, enabled, pending, child, profile, target>>

\* Mutant of Release: the write end stays open.
ReleaseKeepsPipe ==
    /\ pc = "enable" /\ kind = "command"
    /\ pc' = "snapshot"
    /\ UNCHANGED <<kind, deadline, result, todo, counters, enabled, pending, child, profile, target>>

\* Launched::release: drop the write end.
Release ==
    /\ pc = "enable" /\ kind = "command"
    /\ barrier' = "open"
    /\ pc' = "snapshot"
    /\ UNCHANGED <<kind, deadline, result, todo, counters, enabled, pending, reaped, profile, target>>

EnableOne(t) ==
    /\ pc = "enable" /\ First(t)
    /\ \/ enabled' = enabled \cup {t} /\ todo' = todo \ {t} /\ UNCHANGED <<result, pc>>
       \/ Fail /\ UNCHANGED <<enabled, todo>>
    /\ UNCHANGED <<kind, deadline, counters, pending, child, profile, target>>

EnableDone ==
    /\ pc = "enable" /\ kind # "command" /\ todo = {}
    /\ pc' = "snapshot"
    /\ UNCHANGED <<kind, deadline, result, todo, counters, enabled, pending, child, profile, target>>

-----------------------------------------------------------------------------
(* sample_loop                                                             *)

Keep(snapshot) ==
    /\ maps' = snapshot
    /\ seen' = (seen \/ (proc = "running" /\ image = "program"))

InitialSnapshot ==
    /\ pc = "snapshot"
    /\ Keep(Snapshot)
    /\ pc' = "drain"
    /\ UNCHANGED <<kind, deadline, result, todo, counters, enabled, pending, child, counted, target>>

DrainAll(next) ==
    /\ counted' = counted \cup pending
    /\ pending' = {}
    /\ pc' = next
    /\ UNCHANGED <<kind, deadline, result, todo, counters, enabled, child, maps, seen, target>>

Drain == pc = "drain" /\ DrainAll("refresh")

\* Mutant of Refresh: an empty snapshot replaces the one kept.
RefreshAlways ==
    /\ pc = "refresh"
    /\ Keep(Snapshot)
    /\ pc' = "deadline"
    /\ UNCHANGED <<kind, deadline, result, todo, counters, enabled, pending, child, counted, target>>

Refresh ==
    /\ pc = "refresh"
    /\ Keep(IF Snapshot = "empty" THEN maps ELSE Snapshot)
    /\ pc' = "deadline"
    /\ UNCHANGED <<kind, deadline, result, todo, counters, enabled, pending, child, counted, target>>

\* Mutant of CheckDeadline: the deadline is not looked at.
CheckNoDeadline ==
    /\ pc = "deadline"
    /\ pc' = "poll"
    /\ UNCHANGED <<kind, deadline, result, todo, counters, enabled, pending, child, profile, target>>

CheckDeadline ==
    /\ pc = "deadline"
    /\ pc' = IF deadline = "passed" THEN "stop" ELSE "poll"
    /\ UNCHANGED <<kind, deadline, result, todo, counters, enabled, pending, child, profile, target>>

\* Mutant of HasExited: the child is reaped and that is not remembered.
HasExitedForgets ==
    /\ pc = "poll" /\ kind = "command"
    /\ IF Alive
       THEN pc' = "drain" /\ UNCHANGED proc
       ELSE pc' = "stop" /\ proc' = "none"
    /\ UNCHANGED <<kind, deadline, result, todo, counters, enabled, pending, child, profile, image, threads>>

\* Mutant of HasExited: the answer is ignored.
HasExitedIgnored ==
    /\ pc = "poll" /\ kind = "command"
    /\ pc' = "drain"
    /\ UNCHANGED <<kind, deadline, result, todo, counters, enabled, pending, child, profile, target>>

\* Launched::has_exited, which reaps the child.
HasExited ==
    /\ pc = "poll" /\ kind = "command"
    /\ IF Alive
       THEN pc' = "drain" /\ UNCHANGED <<reaped, proc>>
       ELSE pc' = "stop" /\ reaped' = TRUE /\ proc' = "none"
    /\ UNCHANGED <<kind, deadline, result, todo, counters, enabled, pending, barrier, profile, image, threads>>

\* process_is_alive: /proc/<pid> exists.
PidGone ==
    /\ pc = "poll" /\ kind # "command"
    /\ pc' = IF kind = "pid" /\ proc = "none" THEN "stop" ELSE "drain"
    /\ UNCHANGED <<kind, deadline, result, todo, counters, enabled, pending, child, profile, target>>

\* Disable every event; a failing ioctl is logged and leaves its event on.
DisableAll ==
    /\ pc = "stop"
    /\ enabled' \in SUBSET enabled
    /\ pc' = "final"
    /\ UNCHANGED <<kind, deadline, result, todo, counters, pending, child, profile, target>>

FinalDrain == pc = "final" /\ DrainAll("build")

BuildProfile ==
    /\ pc = "build"
    /\ result' = "ok" /\ pc' = "drop"
    /\ UNCHANGED <<kind, deadline, todo, counters, enabled, pending, child, profile, target>>

-----------------------------------------------------------------------------
(* Leaving capture: locals are dropped, last declared first                *)

\* Mutant of DropCounters: the write end goes before Launched::shutdown.
DropPipeFirst ==
    /\ pc = "drop"
    /\ counters' = {} /\ enabled' = {} /\ pending' = {} /\ todo' = {}
    /\ barrier' = IF barrier = "closed" THEN "open" ELSE barrier
    /\ pc' = IF barrier # "none" THEN "kill" ELSE "returned"
    /\ UNCHANGED <<kind, deadline, result, reaped, profile, target>>

DropCounters ==
    /\ pc = "drop"
    /\ counters' = {} /\ enabled' = {} /\ pending' = {} /\ todo' = {}
    /\ pc' = IF barrier # "none" THEN "kill" ELSE "returned"
    /\ UNCHANGED <<kind, deadline, result, child, profile, target>>

\* Mutant of Kill: SIGKILL without waitpid.
KillNoWait ==
    /\ pc = "kill"
    /\ pc' = "close"
    /\ IF reaped
       THEN UNCHANGED <<proc, threads>>
       ELSE proc' = "zombie" /\ threads' = {}
    /\ UNCHANGED <<kind, deadline, result, todo, counters, enabled, pending, child, profile, image>>

\* Launched::shutdown: SIGKILL, then waitpid, unless already reaped.  A killed
\* process executes nothing more.
Kill ==
    /\ pc = "kill"
    /\ IF reaped
       THEN pc' = "close" /\ UNCHANGED <<proc, threads>>
       ELSE pc' = "wait" /\ proc' = "zombie" /\ threads' = {}
    /\ UNCHANGED <<kind, deadline, result, todo, counters, enabled, pending, child, profile, image>>

WaitChild ==
    /\ pc = "wait" /\ proc = "zombie"
    /\ proc' = "none" /\ reaped' = TRUE
    /\ pc' = "close"
    /\ UNCHANGED <<kind, deadline, result, todo, counters, enabled, pending, barrier, profile, image, threads>>

\* The fields of Launched go after its Drop: only now is an unreleased pipe closed.
CloseBarrier ==
    /\ pc = "close"
    /\ barrier' = "open"
    /\ pc' = "returned"
    /\ UNCHANGED <<kind, deadline, result, todo, counters, enabled, pending, reaped, profile, target>>

\* The profiler itself is killed: the kernel closes its descriptors.
Crash ==
    /\ pc \notin {"returned", "crashed"} /\ kind # "current"
    /\ pc' = "crashed"
    /\ counters' = {} /\ enabled' = {} /\ pending' = {}
    /\ barrier' = IF barrier = "closed" THEN "open" ELSE barrier
    /\ UNCHANGED <<kind, deadline, result, todo, reaped, profile, target>>

-----------------------------------------------------------------------------
(* The target and the system around it                                     *)

\* At end of file the child execs, which switches on the events that wait for
\* it, or the exec fails and it exits.
Exec ==
    /\ proc = "held" /\ barrier = "open"
    /\ proc' = "running" /\ image' = "program"
    /\ enabled' = enabled \cup counters
    /\ UNCHANGED <<kind, deadline, pc, result, todo, counters, pending, child, profile, threads>>

Exit ==
    /\ \/ proc = "running" /\ kind # "current"
       \/ proc = "held" /\ barrier = "open"
    /\ proc' = "zombie" /\ threads' = {}
    /\ UNCHANGED <<kind, deadline, pc, result, todo, counters, enabled, pending, child, profile, image>>

SpawnThread(t) ==
    /\ proc = "running" /\ t \notin threads
    /\ threads' = threads \cup {t}
    /\ UNCHANGED <<kind, deadline, pc, result, todo, counters, enabled, pending, child, profile, proc, image>>

ExitThread(t) ==
    /\ proc = "running" /\ t \in threads \ {Main}
    /\ threads' = threads \ {t}
    /\ UNCHANGED <<kind, deadline, pc, result, todo, counters, enabled, pending, child, profile, proc, image>>

\* An event that is on samples its thread.
Sample(t) ==
    /\ proc = "running" /\ t \in threads \cap enabled
    /\ pending' = pending \cup {image}
    /\ UNCHANGED <<kind, deadline, pc, result, todo, counters, enabled, child, profile, target>>

\* Someone else's child is reaped by its own parent; ours, if we are gone, by init.
ParentReaps ==
    /\ proc = "zombie" /\ (kind = "pid" \/ pc = "crashed")
    /\ proc' = "none"
    /\ UNCHANGED <<kind, deadline, pc, result, todo, counters, enabled, pending, child, profile, image, threads>>

\* The pid goes to a process that outlives the capture.  One that gets the pid the
\* user gave before the events are open is what the capture attaches to: a target that
\* is running, threads come and gone included.
Recycle ==
    /\ kind \in Recycled /\ proc = "none"
    /\ pc \notin IF kind = "pid" THEN {"start", "list", "open"} ELSE {"start"}
    /\ proc' = "stranger"
    /\ UNCHANGED <<kind, deadline, pc, result, todo, counters, enabled, pending, child, profile, image, threads>>

DeadlinePasses ==
    /\ deadline = "ahead" /\ pc \in Sampling
    /\ deadline' = "passed"
    /\ UNCHANGED <<kind, pc, result, todo, counters, enabled, pending, child, profile, target>>

-----------------------------------------------------------------------------
Start == Spawn \/ Attach \/ ListThreads \/ (\E t \in Threads : OpenOne(t)) \/ OpenDone
         \/ Release \/ (\E t \in Threads : EnableOne(t)) \/ EnableDone

Loop == InitialSnapshot \/ Drain \/ Refresh \/ CheckDeadline \/ HasExited \/ PidGone
        \/ DisableAll \/ FinalDrain \/ BuildProfile

Leave == DropCounters \/ Kill \/ WaitChild \/ CloseBarrier

CaptureNext == Start \/ Loop \/ Leave

TargetNext ==
    \/ Exec \/ Exit
    \/ \E t \in Threads : SpawnThread(t) \/ ExitThread(t) \/ Sample(t)
    \/ ParentReaps \/ Recycle

Next == CaptureNext \/ TargetNext \/ DeadlinePasses \/ Crash

Spec == Init /\ [][Next]_vars

\* capture is sequential code and keeps running, time passes, and a child that
\* reads end of file goes on.
Fairness ==
    /\ WF_vars(CaptureNext)
    /\ WF_vars(DeadlinePasses)
    /\ WF_vars(Exec)

FairSpec == Spec /\ Fairness

\* The usual surroundings: processes are reaped by whoever owns them.
ReapingSpec == FairSpec /\ WF_vars(ParentReaps)

-----------------------------------------------------------------------------
(* Properties                                                              *)

\* Every variable is in its range.
TypeOK ==
    /\ kind \in Kinds /\ deadline \in {"none", "ahead", "passed"}
    /\ pc \in Locations /\ result \in {"none", "ok", "err"}
    /\ {todo, counters, enabled} \subseteq SUBSET Threads
    /\ barrier \in {"none", "closed", "open"} /\ reaped \in BOOLEAN
    /\ maps \in {"empty", "profcast", "program", "stranger"}
    /\ counted \subseteq {"profcast", "program"} /\ pending \subseteq {"profcast", "program"}
    /\ proc \in {"none", "held", "running", "zombie", "stranger"}
    /\ image \in {"profcast", "program"} /\ threads \subseteq Threads
    /\ seen \in BOOLEAN

\* A launched program as Launch describes it.  A capture that failed has never
\* released its child, even when the pipe goes after it.
L == INSTANCE Launch WITH
    program <- IF kind # "command" \/ barrier = "none" THEN "none"
               ELSE IF proc \in {"none", "stranger"} THEN "gone"
               ELSE IF proc = "zombie" THEN "dead"
               ELSE proc,
    capture <- IF pc \in {"returned", "crashed"} THEN pc
               ELSE IF barrier # "open" \/ result = "err" THEN "attaching"
               ELSE "sampling"

\* Whatever way capture ends, and wherever it fails, the program it was asked to
\* launch runs only once the capture has attached to it, and is neither running
\* nor a zombie when capture returns (launch.rs: "Never leave the launched child
\* running or as a zombie").
ImplementsLaunch == L!LSpec

\* The launched program never executes an instruction with its first thread's
\* event off, from exec until sample_loop stops sampling.
SampledFromExec ==
    kind = "command" /\ proc = "running" /\ pc \in Sampling \ {"final", "build"} =>
        Main \in enabled

\* The pid given to SIGKILL is that of our own child, never of a process that
\* got the number after the child was reaped.
NeverKillsStranger ==
    [][proc = "stranger" => proc' = "stranger"]_vars

\* Once the program's mappings have been read, a later empty or older snapshot
\* never replaces them, though the program may be gone when the next one is taken.
KeepsLiveMaps ==
    kind = "command" /\ seen => maps = "program"

\* Samples are resolved against the mappings of the target's own image
\* (linux/mod.rs: "symbolized best-effort against the target's loaded binaries").
SymbolizedAgainstTarget ==
    result = "ok" /\ "program" \in counted => maps \in {"empty", "program"}

\* A launched child is never left blocked at the barrier: it is released, or
\* killed, or freed by the end of file a crash of the profiler causes.
NoChildHeldForever == proc = "held" ~> proc # "held"

\* A capture of another process ends once that process has exited
\* (core/capture.rs: "`None` means "until the target exits"").
ExitEnds ==
    kind # "current" /\ pc \in Sampling /\ proc \notin {"held", "running"}
        ~> pc \in {"returned", "crashed"}

\* A capture with a duration returns, whatever the target does and whoever gets its pid,
\* and one of another process ends once that process has exited, unless its pid, if the
\* user gave one, is another process's before capture looks: that one it waits for.
CaptureEnds ==
    /\ deadline = "passed" ~> pc \in {"returned", "crashed"}
    /\ kind # "current" /\ pc \in Sampling /\ proc \notin {"held", "running"}
        ~> pc \in {"returned", "crashed"} \/ (kind = "pid" /\ proc = "stranger")
=============================================================================
