----------------------------- MODULE WinCapture -----------------------------
(***************************************************************************)
(* One call of `SamplingSource::capture` (windows/mod.rs): the profiler    *)
(* lists the target's threads, now and then, and on every tick suspends,   *)
(* walks and resumes those whose cycle count advanced (windows/sample.rs). *)
(* The target's threads run, start and exit between any two of its steps,  *)
(* and the id of a thread that has gone may be given to any other thread   *)
(* of the system.                                                          *)
(***************************************************************************)
EXTENDS Integers, FiniteSets

CONSTANTS
    Kinds,          \* the targets tried: "current", "pid", "command"
    Threads,        \* thread ids the target may use
    Recycled,       \* the kinds whose free thread ids may go to another process
    MaxCycles,      \* bound on a thread's cycle count
    MaxDepth        \* bound on the frames of a stack

Main == 1           \* the first thread of a launched program

ASSUME KindsAssumption == Kinds \subseteq {"current", "pid", "command"}
ASSUME ThreadsAssumption == Threads \subseteq Nat \ {0} /\ Main \in Threads
ASSUME RecycledAssumption == Recycled \subseteq Kinds
ASSUME BoundsAssumption == MaxCycles \in Nat /\ MaxDepth \in Nat

VARIABLES
    kind,       \* spec.target
    deadline,   \* "none" | "ahead" | "passed"
    pc,         \* where capture is
    result,     \* "none" | "ok" | "err"
    tids,       \* sample_loop: the cached thread list
    age,        \* of that list: "never" taken | "recent" | "old" (THREAD_LIST_REFRESH)
    todo,       \* threads of the list not yet visited in this tick
    lastCycles, \* last_cycles: a function on the thread ids that have a baseline
    curCycles,  \* current_cycles
    cur,        \* the thread in hand (its handle is open), or 0
    depth,      \* frames on its stack when it was suspended
    capacity,   \* of the vector `stack`, kept from tick to tick
    suspended,  \* threads the profiler has suspended
    proc,       \* the target: "none" | "held" | "running" | "exited"
    owner,      \* who runs under a thread id: "free" | "target" | "alien"
    cycles,     \* QueryThreadCycleTime
    fresh,      \* history: threads that ran since they started or were last read
    heap        \* the thread inside the allocator of the profiler's process, or 0

list == <<tids, age>>
visit == <<todo, curCycles, cur, depth>>
target == <<proc, owner, cycles, heap>>
vars == <<kind, deadline, pc, result, list, visit, lastCycles, capacity,
          suspended, target, fresh>>

Loop == {"tick", "visit", "suspend", "context", "walk", "resume", "deadline", "poll"}
Locations == Loop \cup {"start", "attach", "baseline", "release", "drop", "returned"}

Empty == [t \in {} |-> 0]

Init ==
    /\ kind \in Kinds
    /\ deadline \in IF kind = "current" THEN {"ahead"} ELSE {"none", "ahead"}
    /\ pc = "start" /\ result = "none"
    /\ tids = {} /\ age = "never"
    /\ todo = {} /\ lastCycles = Empty /\ curCycles = Empty
    /\ cur = 0 /\ depth = 0 /\ capacity = 0
    /\ suspended = {}
    /\ proc = IF kind = "command" THEN "none" ELSE "running"
    /\ owner \in [Threads -> {"free", "target"}]
    /\ \E t \in Threads : owner[t] = "target" <=> proc = "running"
    /\ proc = "none" => \A t \in Threads : owner[t] = "free"
    /\ cycles = [t \in Threads |-> 0]
    /\ fresh = {}
    /\ heap = 0

OfTarget == {t \in Threads : owner[t] = "target"}

Fail == result' = "err" /\ pc' = "drop"

\* Threads S exit; their ids become free.
Gone(S) ==
    /\ owner' = [t \in Threads |-> IF t \in S THEN "free" ELSE owner[t]]
    /\ cycles' = [t \in Threads |-> IF t \in S THEN 0 ELSE cycles[t]]
    /\ fresh' = fresh \ S

-----------------------------------------------------------------------------
(* capture, up to the sampling loop                                        *)

\* Launched::spawn (CREATE_SUSPENDED), ProcessHandle::open or ::current.
Begin ==
    /\ pc = "start"
    /\ \/ /\ pc' = "attach"
          /\ IF kind = "command"
             THEN proc' = "held" /\ owner' = [owner EXCEPT ![Main] = "target"]
             ELSE UNCHANGED <<proc, owner>>
          /\ UNCHANGED result
       \/ kind # "current" /\ Fail /\ UNCHANGED <<proc, owner>>
    /\ UNCHANGED <<kind, deadline, list, visit, lastCycles, capacity, suspended,
                   cycles, heap, fresh>>

\* Symbolizer::new
AttachDbgHelp ==
    /\ pc = "attach"
    /\ \/ pc' = "baseline" /\ UNCHANGED result
       \/ Fail
    /\ UNCHANGED <<kind, deadline, list, visit, lastCycles, capacity, suspended,
                   target, fresh>>

\* snapshot_thread_cycles; a thread that cannot be read gets no baseline.
SnapshotThreadCycles ==
    /\ pc = "baseline"
    /\ \E read \in SUBSET OfTarget :
           /\ lastCycles' = [t \in read |-> cycles[t]]
           /\ fresh' = fresh \ read
    /\ pc' = IF kind = "command" THEN "release" ELSE "tick"
    /\ UNCHANGED <<kind, deadline, result, list, visit, capacity, suspended, target>>

\* Launched::resume
ReleaseChild ==
    /\ pc = "release"
    /\ \/ pc' = "tick" /\ proc' = (IF proc = "held" THEN "running" ELSE proc)
          /\ UNCHANGED result
       \/ Fail /\ UNCHANGED proc
    /\ UNCHANGED <<kind, deadline, list, visit, lastCycles, capacity, suspended,
                   owner, cycles, heap, fresh>>

-----------------------------------------------------------------------------
(* sample_loop                                                             *)

NeedsList == age # "recent"

\* A tick begins: thread_ids if the list is missing or old, else the cached list.
\* A failed system snapshot yields the empty list.
Tick ==
    /\ pc = "tick"
    /\ \/ /\ NeedsList
          /\ tids' = OfTarget \/ tids' = {}
          /\ age' = "recent"
       \/ ~NeedsList /\ UNCHANGED list
    /\ todo' = tids' /\ curCycles' = Empty /\ pc' = "visit"
    /\ UNCHANGED <<kind, deadline, result, cur, depth, lastCycles, capacity,
                   suspended, target, fresh>>

\* Mutant of Ran: a thread seen for the first time counts as busy.
RanOrNew(t) == t \in DOMAIN lastCycles => cycles[t] > lastCycles[t]

\* sample_running_thread: the cycle count has advanced since the last tick; a
\* thread without a baseline has not run yet.
Ran(t) == t \in DOMAIN lastCycles /\ cycles[t] > lastCycles[t]

\* Mutant of Visit: a baseline above any cycle count.
VisitReadsHigh(t) ==
    /\ pc = "visit" /\ t \in todo
    /\ todo' = todo \ {t}
    /\ curCycles' = [s \in DOMAIN curCycles \cup {t} |->
                         IF s = t THEN cycles[t] + 1 ELSE curCycles[s]]
    /\ UNCHANGED <<kind, deadline, pc, result, list, cur, depth, lastCycles, capacity,
                   suspended, target, fresh>>

\* Open the next thread and read its cycles.  One that is gone, or cannot be
\* opened or read, is passed over and loses its baseline.
Visit(t) ==
    /\ pc = "visit" /\ t \in todo
    /\ todo' = todo \ {t}
    /\ \/ /\ owner[t] # "free"
          /\ curCycles' = [s \in DOMAIN curCycles \cup {t} |->
                               IF s = t THEN cycles[t] ELSE curCycles[s]]
          /\ fresh' = fresh \ {t}
          /\ IF Ran(t)
             THEN cur' = t /\ pc' = "suspend"
             ELSE UNCHANGED <<cur, pc>>
       \/ UNCHANGED <<curCycles, fresh, cur, pc>>
    /\ UNCHANGED <<kind, deadline, result, list, depth, lastCycles, capacity,
                   suspended, target>>

\* walk_open_thread: SuspendThread fails on a thread that has exited.
Suspend ==
    /\ pc = "suspend"
    /\ IF owner[cur] = "free"
       THEN cur' = 0 /\ pc' = "visit" /\ UNCHANGED suspended
       ELSE suspended' = suspended \cup {cur} /\ pc' = "context" /\ UNCHANGED cur
    /\ UNCHANGED <<kind, deadline, result, list, todo, curCycles, depth, lastCycles,
                   capacity, target, fresh>>

\* GetThreadContext; if it fails there is nothing to walk.
GetContext ==
    /\ pc = "context"
    /\ \/ depth' \in 0 .. MaxDepth /\ pc' = "walk"
       \/ depth' = 0 /\ pc' = "resume"
    /\ UNCHANGED <<kind, deadline, result, list, todo, curCycles, cur, lastCycles,
                   capacity, suspended, target, fresh>>

\* walk_stack: pushing onto a vector with no room left allocates.
WalkStack ==
    /\ pc = "walk"
    /\ depth <= capacity \/ heap = 0
    /\ capacity' = IF depth > capacity THEN depth ELSE capacity
    /\ pc' = "resume"
    /\ UNCHANGED <<kind, deadline, result, list, visit, lastCycles, suspended,
                   target, fresh>>

\* Mutant of Resume: no resume when nothing was walked.
ResumeIfWalked ==
    /\ pc = "resume"
    /\ suspended' = IF depth > 0 THEN suspended \ {cur} ELSE suspended
    /\ cur' = 0 /\ depth' = 0 /\ pc' = "visit"
    /\ UNCHANGED <<kind, deadline, result, list, todo, curCycles, lastCycles,
                   capacity, target, fresh>>

\* ResumeThread, then the handle is closed and the stack recorded.
Resume ==
    /\ pc = "resume"
    /\ suspended' = suspended \ {cur}
    /\ cur' = 0 /\ depth' = 0 /\ pc' = "visit"
    /\ UNCHANGED <<kind, deadline, result, list, todo, curCycles, lastCycles,
                   capacity, target, fresh>>

\* Only the threads read in this tick keep a baseline.
EndTick ==
    /\ pc = "visit" /\ todo = {}
    /\ lastCycles' = curCycles
    /\ pc' = "deadline"
    /\ UNCHANGED <<kind, deadline, result, list, visit, capacity, suspended, target, fresh>>

\* Mutant of CheckDeadline: only a tick that visited a thread looks at the clock.
CheckDeadlineIfBusy ==
    /\ pc = "deadline"
    /\ IF deadline = "passed" /\ tids # {}
       THEN result' = "ok" /\ pc' = "drop"
       ELSE pc' = "poll" /\ UNCHANGED result
    /\ UNCHANGED <<kind, deadline, list, visit, lastCycles, capacity, suspended, target, fresh>>

CheckDeadline ==
    /\ pc = "deadline"
    /\ IF deadline = "passed"
       THEN result' = "ok" /\ pc' = "drop"
       ELSE pc' = "poll" /\ UNCHANGED result
    /\ UNCHANGED <<kind, deadline, list, visit, lastCycles, capacity, suspended, target, fresh>>

\* Mutant of PollExit: a launched child only ends at the deadline.
PollPidOnly ==
    /\ pc = "poll"
    /\ IF kind = "pid" /\ proc = "exited"
       THEN result' = "ok" /\ pc' = "drop"
       ELSE pc' = "tick" /\ UNCHANGED result
    /\ UNCHANGED <<kind, deadline, list, visit, lastCycles, capacity, suspended, target, fresh>>

\* is_done: the process handle is signalled.
PollExit ==
    /\ pc = "poll"
    /\ IF kind # "current" /\ proc = "exited"
       THEN result' = "ok" /\ pc' = "drop"
       ELSE pc' = "tick" /\ UNCHANGED result
    /\ UNCHANGED <<kind, deadline, list, visit, lastCycles, capacity, suspended, target, fresh>>

\* Mutant of Drop: the child is left alone.
DropLeavesChild ==
    /\ pc = "drop"
    /\ pc' = "returned"
    /\ UNCHANGED <<kind, deadline, result, list, visit, lastCycles, capacity,
                   suspended, target, fresh>>

\* Launched::drop terminates a child that is still there; it is taken to run no more
\* once it is told to end.
Drop ==
    /\ pc = "drop"
    /\ pc' = "returned"
    /\ IF kind = "command" /\ proc # "none"
       THEN proc' = "exited" /\ Gone(OfTarget)
       ELSE UNCHANGED <<proc, owner, cycles, fresh>>
    /\ UNCHANGED <<kind, deadline, result, list, visit, lastCycles, capacity,
                   suspended, heap>>

-----------------------------------------------------------------------------
(* The target, the system around it, and time                              *)

others == <<kind, deadline, pc, result, list, visit, lastCycles, capacity>>

\* Thread t gets some CPU.
Run(t) ==
    /\ owner[t] = "alien" \/ (owner[t] = "target" /\ proc = "running")
    /\ t \notin suspended /\ cycles[t] < MaxCycles
    /\ cycles' = [cycles EXCEPT ![t] = @ + 1]
    /\ fresh' = fresh \cup {t}
    /\ UNCHANGED <<others, suspended, proc, owner, heap>>

\* An id is not given away while somebody holds a handle of its last thread.
StartThread(t, who) ==
    /\ owner[t] = "free" /\ t # cur
    /\ who = "target" => proc = "running"
    /\ who = "alien" => kind \in Recycled
    /\ owner' = [owner EXCEPT ![t] = who]
    /\ UNCHANGED <<others, suspended, proc, cycles, heap, fresh>>

ExitThread(t) ==
    /\ owner[t] # "free" /\ t \notin suspended /\ heap # t
    /\ owner[t] = "target" => proc = "running" /\ OfTarget # {t}
    /\ Gone({t})
    /\ UNCHANGED <<others, suspended, proc, heap>>

ExitProcess ==
    /\ proc \in {"held", "running"} /\ kind # "current"
    /\ proc' = "exited"
    /\ Gone(OfTarget)
    /\ suspended' = suspended \ OfTarget
    /\ UNCHANGED <<others, heap>>

\* When the profiler samples its own process they share one allocator.
Lock(t) ==
    /\ kind = "current" /\ heap = 0
    /\ owner[t] = "target" /\ t \notin suspended
    /\ heap' = t
    /\ UNCHANGED <<others, suspended, proc, owner, cycles, fresh>>

Unlock ==
    /\ heap # 0 /\ heap \notin suspended
    /\ heap' = 0
    /\ UNCHANGED <<others, suspended, proc, owner, cycles, fresh>>

ListAges ==
    /\ age = "recent"
    /\ age' = "old"
    /\ UNCHANGED <<kind, deadline, pc, result, tids, visit, lastCycles,
                   capacity, suspended, target, fresh>>

DeadlinePasses ==
    /\ deadline = "ahead" /\ pc \in Loop
    /\ deadline' = "passed"
    /\ UNCHANGED <<kind, pc, result, list, visit, lastCycles, capacity, suspended,
                   target, fresh>>

-----------------------------------------------------------------------------
CaptureNext ==
    \/ Begin \/ AttachDbgHelp \/ SnapshotThreadCycles \/ ReleaseChild
    \/ Tick \/ (\E t \in Threads : Visit(t)) \/ Suspend \/ GetContext \/ WalkStack
    \/ Resume \/ EndTick \/ CheckDeadline \/ PollExit \/ Drop

TargetNext ==
    \/ \E t \in Threads :
          \/ Run(t) \/ ExitThread(t) \/ Lock(t)
          \/ \E who \in {"target", "alien"} : StartThread(t, who)
    \/ Unlock \/ ExitProcess

Next == CaptureNext \/ TargetNext \/ ListAges \/ DeadlinePasses

Spec == Init /\ [][Next]_vars

\* capture keeps running, time passes, and a thread leaves the allocator unless
\* it is suspended in it.
FairSpec ==
    Spec /\ WF_vars(CaptureNext) /\ WF_vars(DeadlinePasses) /\ WF_vars(Unlock)

-----------------------------------------------------------------------------
(* Properties                                                              *)

\* Every variable is in its range.
TypeOK ==
    /\ kind \in Kinds /\ deadline \in {"none", "ahead", "passed"}
    /\ pc \in Locations /\ result \in {"none", "ok", "err"}
    /\ {tids, todo, suspended, fresh} \subseteq SUBSET Threads
    /\ age \in {"never", "recent", "old"}
    /\ DOMAIN lastCycles \subseteq Threads /\ DOMAIN curCycles \subseteq Threads
    /\ \A t \in DOMAIN lastCycles : lastCycles[t] \in 0 .. MaxCycles
    /\ \A t \in DOMAIN curCycles : curCycles[t] \in 0 .. MaxCycles
    /\ {cur, heap} \subseteq Threads \cup {0}
    /\ depth \in 0 .. MaxDepth /\ capacity \in 0 .. MaxDepth
    /\ proc \in {"none", "held", "running", "exited"}
    /\ owner \in [Threads -> {"free", "target", "alien"}]
    /\ cycles \in [Threads -> 0 .. MaxCycles]

\* A thread is walked only if it ran since its cycles were last read, whatever
\* threads exited, and whatever ids were reused, since then (sample.rs: "idle
\* threads parked in a wait do not accrue samples").
OnlyBusyWalked ==
    [][\A t \in Threads : cur # t /\ cur' = t => t \in fresh]_vars

\* Nothing stays suspended: at most the thread in hand, and only until the
\* profiler moves on to the next one (sample.rs: "the suspend is always paired
\* with a resume on every return path").
SuspendPaired ==
    suspended \subseteq {cur} /\ (pc \in {"visit", "tick", "returned"} => suspended = {})

\* A launched program as Launch describes it; there are no zombies here.
L == INSTANCE Launch WITH
    program <- IF kind # "command" THEN "none"
               ELSE IF proc = "exited" THEN "gone"
               ELSE proc,
    capture <- IF pc = "returned" THEN "returned"
               ELSE IF \/ pc \in {"start", "attach", "baseline", "release"}
                       \/ result = "err" \/ kind # "command" THEN "attaching"
               ELSE "sampling"

\* A launched program starts only once the symbolizer is attached and every thread
\* has its baseline, never when the capture fails, and does not outlive it
\* (launch.rs: "Never leave the child running").
ImplementsLaunch == L!LSpec

\* Only threads of the target are suspended (sample.rs: "opening one of the
\* target's threads with the sampling rights").
OnlyTargetSuspended == \A t \in suspended : owner[t] = "target"

\* A suspended thread is resumed (sample.rs: "The thread is resumed immediately
\* afterwards").
Resumed == \A t \in Threads : t \in suspended ~> t \notin suspended

\* The same, when the target does not share the profiler's allocator.
ResumedInOthers ==
    \A t \in Threads : kind # "current" /\ t \in suspended ~> t \notin suspended

\* A capture of another process with a duration returns, whatever that process
\* does, and so does one whose process has exited.
CaptureEnds ==
    /\ kind # "current" /\ deadline = "passed" ~> pc = "returned"
    /\ kind # "current" /\ pc \in Loop /\ proc = "exited" ~> pc = "returned"
=============================================================================
