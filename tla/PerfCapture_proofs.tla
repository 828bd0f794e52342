------------------------- MODULE PerfCapture_proofs -------------------------
(***************************************************************************)
(* For any set of threads and every kind of target: a launched program is  *)
(* held until the capture has attached to it and gone when it returns, no  *)
(* signal goes to a stranger, it is sampled from exec, and the mappings    *)
(* that were read stay.                                                    *)
(***************************************************************************)
EXTENDS PerfCapture, TLAPS

\* What a place in capture says about the child, its pid and its pipe.
Stages ==
    kind = "command" =>
        /\ pc = "start" => barrier = "none" /\ proc = "none" /\ result = "none"
        /\ barrier = "none" =>
              /\ pc \in {"start", "drop", "returned", "crashed"}
              /\ proc \in {"none", "stranger"} /\ ~reaped
        /\ pc \in {"list", "open", "enable"} => barrier = "closed" /\ ~reaped /\ result = "none"
        /\ pc \in Sampling => barrier = "open"
        /\ pc \in Looping \cup {"snapshot"} => ~reaped
        /\ barrier = "closed" =>
              /\ pc \in {"list", "open", "enable", "drop", "kill", "wait", "close"}
              /\ pc \notin {"wait", "close"} => proc = "held" /\ threads = {Main} /\ ~reaped
        /\ barrier = "open" => result # "err" \/ pc \in {"returned", "crashed"}
        /\ barrier # "none" /\ ~reaped =>
              proc \in {"held", "running", "zombie"} \/ pc = "crashed"
        /\ reaped => proc \in {"none", "stranger"}
        /\ pc = "wait" => proc = "zombie" /\ ~reaped
        /\ pc = "close" => reaped
        /\ pc = "returned" => reaped \/ barrier = "none"

\* Only a launched program has a child and a pipe.
Others == kind # "command" => barrier = "none" /\ proc # "held"

NoPipe == barrier = "none" => pc \notin {"kill", "wait", "close"}

\* The child's thread has the event that the exec switches on.
Events ==
    kind = "command" =>
        /\ pc \in {"start", "list"} => counters = {}
        /\ pc = "open" => counters \subseteq {Main}
        /\ pc \in {"enable"} \cup (Sampling \ {"final", "build"}) => Main \in counters

\* The image changes with the exec, and the program's maps are read after it.
Images ==
    kind = "command" =>
        /\ pc = "start" \/ proc = "held" => image = "profcast"
        /\ proc = "running" => image = "program"
        /\ seen => image = "program" /\ proc # "held"
        /\ pc \in {"start", "list", "open", "enable", "snapshot"} => ~seen

IInv ==
    TypeOK /\ Stages /\ Others /\ NoPipe /\ Events /\ Images /\ SampledFromExec /\ KeepsLiveMaps

Relations == Stages /\ Others /\ NoPipe

LEMMA InitInv == Init => IInv
<1>. SUFFICES ASSUME Init PROVE IInv
  OBVIOUS
<1>. USE DEF Init, Sampling, Looping
<1>1. TypeOK
  BY ThreadsAssumption, KindsAssumption DEF TypeOK, Locations
<1>2. Relations
  BY DEF Relations, Stages, Others, NoPipe
<1>3. Events /\ Images /\ SampledFromExec /\ KeepsLiveMaps
  BY DEF Events, Images, SampledFromExec, KeepsLiveMaps
<1>. QED  BY <1>1, <1>2, <1>3 DEF IInv, Relations

-----------------------------------------------------------------------------
(* Type correctness                                                        *)

LEMMA StartTypes == TypeOK /\ Start => TypeOK'
<1>. SUFFICES ASSUME TypeOK, Start PROVE TypeOK'
  OBVIOUS
<1>. USE ThreadsAssumption
     DEF TypeOK, Locations, Sampling, Looping, child, profile, target, Fail, Alive
<1>1. CASE Spawn
  <2>1. threads' \subseteq Threads
    BY <1>1 DEF Spawn
  <2>. QED  BY <1>1, <2>1 DEF Spawn
<1>2. CASE Attach  BY <1>2 DEF Attach
<1>3. CASE ListThreads
  <2>1. todo' \subseteq Threads
    BY <1>3 DEF ListThreads
  <2>. QED  BY <1>3, <2>1 DEF ListThreads
<1>4. ASSUME NEW t \in Threads, OpenOne(t) PROVE TypeOK'
  BY <1>4 DEF OpenOne
<1>5. CASE OpenDone  BY <1>5 DEF OpenDone
<1>6. CASE Release  BY <1>6 DEF Release
<1>7. ASSUME NEW t \in Threads, EnableOne(t) PROVE TypeOK'
  BY <1>7 DEF EnableOne
<1>8. CASE EnableDone  BY <1>8 DEF EnableDone
<1>. QED  BY <1>1, <1>2, <1>3, <1>4, <1>5, <1>6, <1>7, <1>8 DEF Start

LEMMA LoopTypes == TypeOK /\ Loop => TypeOK'
<1>. SUFFICES ASSUME TypeOK, Loop PROVE TypeOK'
  OBVIOUS
<1>. USE DEF TypeOK, Locations, Sampling, Looping, child, profile, target, Alive,
             Snapshot, Keep, DrainAll
<1>1. CASE InitialSnapshot  BY <1>1 DEF InitialSnapshot
<1>2. CASE Drain  BY <1>2 DEF Drain
<1>3. CASE Refresh  BY <1>3 DEF Refresh
<1>4. CASE CheckDeadline  BY <1>4 DEF CheckDeadline
<1>5. CASE HasExited  BY <1>5 DEF HasExited
<1>6. CASE PidGone  BY <1>6 DEF PidGone
<1>7. CASE DisableAll  BY <1>7 DEF DisableAll
<1>8. CASE FinalDrain  BY <1>8 DEF FinalDrain
<1>9. CASE BuildProfile  BY <1>9 DEF BuildProfile
<1>. QED  BY <1>1, <1>2, <1>3, <1>4, <1>5, <1>6, <1>7, <1>8, <1>9 DEF Loop

LEMMA OtherTypes == TypeOK /\ (Leave \/ TargetNext \/ DeadlinePasses \/ Crash) => TypeOK'
<1>. SUFFICES ASSUME TypeOK, Leave \/ TargetNext \/ DeadlinePasses \/ Crash PROVE TypeOK'
  OBVIOUS
<1>. USE DEF TypeOK, Locations, Sampling, Looping, child, profile, target
<1>1. CASE DropCounters  BY <1>1 DEF DropCounters
<1>2. CASE Kill  BY <1>2 DEF Kill
<1>3. CASE WaitChild  BY <1>3 DEF WaitChild
<1>4. CASE CloseBarrier  BY <1>4 DEF CloseBarrier
<1>5. CASE Exec  BY <1>5 DEF Exec
<1>6. CASE Exit  BY <1>6 DEF Exit
<1>7. ASSUME NEW t \in Threads, SpawnThread(t) \/ ExitThread(t) \/ Sample(t) PROVE TypeOK'
  <2>1. CASE SpawnThread(t)
    BY <2>1 DEF SpawnThread
  <2>2. CASE ExitThread(t)
    BY <2>2 DEF ExitThread
  <2>3. CASE Sample(t)
    BY <2>3 DEF Sample
  <2>. QED  BY <1>7, <2>1, <2>2, <2>3
<1>8. CASE ParentReaps  BY <1>8 DEF ParentReaps
<1>9. CASE Recycle  BY <1>9 DEF Recycle
<1>10. CASE DeadlinePasses  BY <1>10 DEF DeadlinePasses
<1>11. CASE Crash  BY <1>11 DEF Crash
<1>. QED
  BY <1>1, <1>2, <1>3, <1>4, <1>5, <1>6, <1>7, <1>8, <1>9, <1>10, <1>11 DEF Leave, TargetNext

LEMMA NextTypes == TypeOK /\ [Next]_vars => TypeOK'
<1>. SUFFICES ASSUME TypeOK, [Next]_vars PROVE TypeOK'
  OBVIOUS
<1>1. CASE Next
  BY <1>1, StartTypes, LoopTypes, OtherTypes DEF Next, CaptureNext
<1>2. CASE UNCHANGED vars
  BY <1>2 DEF vars, TypeOK, child, profile, target
<1>. QED  BY <1>1, <1>2

-----------------------------------------------------------------------------
(* The capture and its child                                               *)

LEMMA StartRelations == IInv /\ Start => Relations'
<1>. SUFFICES ASSUME IInv, Start PROVE Relations'
  OBVIOUS
<1>. USE DEF IInv, Relations, Stages, Others, NoPipe, Sampling, Looping, child, profile,
             target, Fail
<1>1. CASE Spawn  BY <1>1 DEF Spawn
<1>2. CASE Attach  BY <1>2 DEF Attach
<1>3. CASE ListThreads  BY <1>3 DEF ListThreads
<1>4. ASSUME NEW t \in Threads, OpenOne(t) PROVE Relations'
  BY <1>4 DEF OpenOne
<1>5. CASE OpenDone  BY <1>5 DEF OpenDone
<1>6. CASE Release  BY <1>6 DEF Release
<1>7. ASSUME NEW t \in Threads, EnableOne(t) PROVE Relations'
  BY <1>7 DEF EnableOne
<1>8. CASE EnableDone  BY <1>8 DEF EnableDone
<1>. QED  BY <1>1, <1>2, <1>3, <1>4, <1>5, <1>6, <1>7, <1>8 DEF Start

LEMMA LoopRelations == IInv /\ Loop => Relations'
<1>. SUFFICES ASSUME IInv, Loop PROVE Relations'
  OBVIOUS
<1>. USE DEF IInv, Relations, Stages, Others, NoPipe, Sampling, Looping, child, profile,
             target, DrainAll
<1>1. CASE InitialSnapshot  BY <1>1 DEF InitialSnapshot
<1>2. CASE Drain  BY <1>2 DEF Drain
<1>3. CASE Refresh  BY <1>3 DEF Refresh
<1>4. CASE CheckDeadline  BY <1>4 DEF CheckDeadline
<1>5. CASE HasExited  BY <1>5 DEF HasExited
<1>6. CASE PidGone  BY <1>6 DEF PidGone
<1>7. CASE DisableAll  BY <1>7 DEF DisableAll
<1>8. CASE FinalDrain  BY <1>8 DEF FinalDrain
<1>9. CASE BuildProfile  BY <1>9 DEF BuildProfile
<1>. QED  BY <1>1, <1>2, <1>3, <1>4, <1>5, <1>6, <1>7, <1>8, <1>9 DEF Loop

LEMMA OtherRelations == IInv /\ (Leave \/ TargetNext \/ DeadlinePasses \/ Crash) => Relations'
<1>. SUFFICES ASSUME IInv, Leave \/ TargetNext \/ DeadlinePasses \/ Crash PROVE Relations'
  OBVIOUS
<1>. USE DEF IInv, TypeOK, Relations, Stages, Others, NoPipe, Sampling, Looping, child, profile,
             target
<1>1. CASE DropCounters  BY <1>1 DEF DropCounters
<1>2. CASE Kill  BY <1>2 DEF Kill
<1>3. CASE WaitChild  BY <1>3 DEF WaitChild
<1>4. CASE CloseBarrier  BY <1>4 DEF CloseBarrier
<1>5. CASE Exec  BY <1>5 DEF Exec
<1>6. CASE Exit  BY <1>6 DEF Exit
<1>7. ASSUME NEW t \in Threads, SpawnThread(t) \/ ExitThread(t) \/ Sample(t) PROVE Relations'
  BY <1>7 DEF SpawnThread, ExitThread, Sample
<1>8. CASE ParentReaps  BY <1>8 DEF ParentReaps
<1>9. CASE Recycle  BY <1>9 DEF Recycle
<1>10. CASE DeadlinePasses  BY <1>10 DEF DeadlinePasses
<1>11. CASE Crash  BY <1>11 DEF Crash
<1>. QED
  BY <1>1, <1>2, <1>3, <1>4, <1>5, <1>6, <1>7, <1>8, <1>9, <1>10, <1>11 DEF Leave, TargetNext

-----------------------------------------------------------------------------
(* Events and mappings                                                     *)

Samples == Events /\ Images /\ SampledFromExec /\ KeepsLiveMaps

LEMMA StartSamples == IInv /\ Start => Samples'
<1>. SUFFICES ASSUME IInv, Start PROVE Samples'
  OBVIOUS
<1>. USE DEF IInv, TypeOK, Stages, Samples, Events, Images, SampledFromExec, KeepsLiveMaps,
             Sampling, Looping, child, profile, target, Fail
<1>1. CASE Spawn  BY <1>1 DEF Spawn
<1>2. CASE Attach  BY <1>2 DEF Attach
<1>3. CASE ListThreads  BY <1>3 DEF ListThreads
<1>4. ASSUME NEW t \in Threads, OpenOne(t) PROVE Samples'
  BY <1>4 DEF OpenOne
<1>5. CASE OpenDone  BY <1>5 DEF OpenDone
<1>6. CASE Release  BY <1>6 DEF Release
<1>7. ASSUME NEW t \in Threads, EnableOne(t) PROVE Samples'
  BY <1>7 DEF EnableOne
<1>8. CASE EnableDone  BY <1>8 DEF EnableDone
<1>. QED  BY <1>1, <1>2, <1>3, <1>4, <1>5, <1>6, <1>7, <1>8 DEF Start

LEMMA LoopSamples == IInv /\ Loop => Samples'
<1>. SUFFICES ASSUME IInv, Loop PROVE Samples'
  OBVIOUS
<1>. USE DEF IInv, TypeOK, Stages, Samples, Events, Images, SampledFromExec, KeepsLiveMaps,
             Sampling, Looping, child, profile, target, DrainAll
<1>1. CASE InitialSnapshot  BY <1>1 DEF InitialSnapshot, Keep, Snapshot, Alive
<1>2. CASE Drain  BY <1>2 DEF Drain
<1>3. CASE Refresh  BY <1>3 DEF Refresh, Keep, Snapshot, Alive
<1>4. CASE CheckDeadline  BY <1>4 DEF CheckDeadline
<1>5. CASE HasExited  BY <1>5 DEF HasExited, Alive
<1>6. CASE PidGone  BY <1>6 DEF PidGone
<1>7. CASE DisableAll  BY <1>7 DEF DisableAll
<1>8. CASE FinalDrain  BY <1>8 DEF FinalDrain
<1>9. CASE BuildProfile  BY <1>9 DEF BuildProfile
<1>. QED  BY <1>1, <1>2, <1>3, <1>4, <1>5, <1>6, <1>7, <1>8, <1>9 DEF Loop

LEMMA OtherSamples == IInv /\ (Leave \/ TargetNext \/ DeadlinePasses \/ Crash) => Samples'
<1>. SUFFICES ASSUME IInv, Leave \/ TargetNext \/ DeadlinePasses \/ Crash PROVE Samples'
  OBVIOUS
<1>. USE DEF IInv, TypeOK, Stages, Samples, Events, Images, SampledFromExec, KeepsLiveMaps,
             Sampling, Looping, child, profile, target
<1>1. CASE DropCounters  BY <1>1 DEF DropCounters
<1>2. CASE Kill  BY <1>2 DEF Kill
<1>3. CASE WaitChild  BY <1>3 DEF WaitChild
<1>4. CASE CloseBarrier  BY <1>4 DEF CloseBarrier
<1>5. CASE Exec  BY <1>5 DEF Exec
<1>6. CASE Exit  BY <1>6 DEF Exit
<1>7. ASSUME NEW t \in Threads, SpawnThread(t) \/ ExitThread(t) \/ Sample(t) PROVE Samples'
  BY <1>7 DEF SpawnThread, ExitThread, Sample
<1>8. CASE ParentReaps  BY <1>8 DEF ParentReaps
<1>9. CASE Recycle  BY <1>9 DEF Recycle
<1>10. CASE DeadlinePasses  BY <1>10 DEF DeadlinePasses
<1>11. CASE Crash  BY <1>11 DEF Crash
<1>. QED
  BY <1>1, <1>2, <1>3, <1>4, <1>5, <1>6, <1>7, <1>8, <1>9, <1>10, <1>11 DEF Leave, TargetNext

LEMMA NextInv == IInv /\ [Next]_vars => IInv'
<1>. SUFFICES ASSUME IInv, [Next]_vars PROVE IInv'
  OBVIOUS
<1>1. CASE Next
  <2>1. TypeOK'
    BY <1>1, NextTypes DEF IInv
  <2>2. Relations'
    BY <1>1, StartRelations, LoopRelations, OtherRelations DEF Next, CaptureNext
  <2>3. Samples'
    BY <1>1, StartSamples, LoopSamples, OtherSamples DEF Next, CaptureNext
  <2>. QED  BY <2>1, <2>2, <2>3 DEF IInv, Relations, Samples
<1>2. CASE UNCHANGED vars
  BY <1>2 DEF vars, child, profile, target, IInv, TypeOK, Stages, Others, NoPipe, Events,
              Images, SampledFromExec, KeepsLiveMaps
<1>. QED  BY <1>1, <1>2

LEMMA SpecInv == Spec => []IInv
  BY InitInv, NextInv, PTL DEF Spec

\* Every variable has its type in every reachable state.
THEOREM TypeCorrect == Spec => []TypeOK
<1>1. IInv => TypeOK
  BY DEF IInv
<1>. QED  BY <1>1, SpecInv, PTL

\* The first thread's event is on from exec until sample_loop stops sampling.
THEOREM Sampled == Spec => []SampledFromExec
<1>1. IInv => SampledFromExec
  BY DEF IInv
<1>. QED  BY <1>1, SpecInv, PTL

\* sample_loop never gives up the program's mappings once it has read them.
THEOREM MapsKept == Spec => []KeepsLiveMaps
<1>1. IInv => KeepsLiveMaps
  BY DEF IInv
<1>. QED  BY <1>1, SpecInv, PTL

\* Neither SIGKILL nor waitpid is given a pid that has gone to another process.
THEOREM Harmless == Spec => NeverKillsStranger
<1>1. IInv /\ [Next]_vars => [proc = "stranger" => proc' = "stranger"]_vars
  <2>. SUFFICES ASSUME IInv, Next, proc = "stranger" PROVE proc' = "stranger"
    OBVIOUS
  <2>. USE DEF IInv, Stages, Others, NoPipe, Looping, Sampling, target, Alive, TypeOK
  <2>1. CASE Start
    BY <2>1 DEF Start, Spawn, Attach, ListThreads, OpenOne, OpenDone, Release, EnableOne,
                EnableDone
  <2>2. CASE Loop
    BY <2>2 DEF Loop, InitialSnapshot, Drain, Refresh, CheckDeadline, HasExited, PidGone,
                DisableAll, FinalDrain, BuildProfile, DrainAll
  <2>3. CASE Leave
    BY <2>3 DEF Leave, DropCounters, Kill, WaitChild, CloseBarrier
  <2>4. CASE TargetNext \/ DeadlinePasses \/ Crash
    BY <2>4 DEF TargetNext, Exec, Exit, SpawnThread, ExitThread, Sample, ParentReaps, Recycle,
                DeadlinePasses, Crash
  <2>. QED  BY <2>1, <2>2, <2>3, <2>4 DEF Next, CaptureNext
<1>. QED  BY <1>1, SpecInv, PTL DEF Spec, NeverKillsStranger

-----------------------------------------------------------------------------
(* The refinement: what each step does to the launched program.            *)

LEMMA InitLaunch == Init => L!LInit
<1>. SUFFICES ASSUME Init PROVE L!LInit
  OBVIOUS
<1>1. barrier = "none" /\ pc = "start"
  BY DEF Init
<1>. QED  BY <1>1 DEF L!LInit

LEMMA StartLaunch == IInv /\ Start => [L!LNext]_(L!lvars)
<1>. SUFFICES ASSUME IInv, Start PROVE L!LNext \/ UNCHANGED L!lvars
  OBVIOUS
<1>. USE DEF IInv, Stages, Others, NoPipe, child, profile, target, Fail, L!LNext, L!lvars
<1>1. CASE Spawn
  <2>1. pc = "start" /\ kind = "command" /\ barrier = "none" /\ kind' = kind
    BY <1>1 DEF Spawn
  <2>2. CASE barrier' = "closed" /\ proc' = "held" /\ pc' = "list"
    BY <2>1, <2>2 DEF L!Create
  <2>3. CASE pc' = "drop" /\ barrier' = barrier
    BY <2>1, <2>3
  <2>. QED  BY <1>1, <2>2, <2>3 DEF Spawn
<1>2. CASE Attach
  BY <1>2 DEF Attach
<1>3. CASE ListThreads
  BY <1>3 DEF ListThreads
<1>4. ASSUME NEW t \in Threads, OpenOne(t) PROVE UNCHANGED L!lvars
  BY <1>4 DEF OpenOne
<1>5. CASE OpenDone
  BY <1>5 DEF OpenDone
<1>6. CASE Release
  BY <1>6 DEF Release, L!LetGo
<1>7. ASSUME NEW t \in Threads, EnableOne(t) PROVE UNCHANGED L!lvars
  BY <1>7 DEF EnableOne
<1>8. CASE EnableDone
  BY <1>8 DEF EnableDone
<1>. QED  BY <1>1, <1>2, <1>3, <1>4, <1>5, <1>6, <1>7, <1>8 DEF Start

LEMMA LoopLaunch == IInv /\ Loop => [L!LNext]_(L!lvars)
<1>. SUFFICES ASSUME IInv, Loop PROVE L!LNext \/ UNCHANGED L!lvars
  OBVIOUS
<1>. USE DEF IInv, Stages, Others, NoPipe, Sampling, Looping, child, profile, target, DrainAll,
             L!LNext, L!lvars
<1>1. CASE InitialSnapshot
  BY <1>1 DEF InitialSnapshot
<1>2. CASE Drain
  BY <1>2 DEF Drain
<1>3. CASE Refresh
  BY <1>3 DEF Refresh
<1>4. CASE CheckDeadline
  BY <1>4 DEF CheckDeadline
<1>5. CASE HasExited
  BY <1>5 DEF HasExited, Alive, L!Collect
<1>6. CASE PidGone
  BY <1>6 DEF PidGone
<1>7. CASE DisableAll
  BY <1>7 DEF DisableAll
<1>8. CASE FinalDrain
  BY <1>8 DEF FinalDrain
<1>9. CASE BuildProfile
  BY <1>9 DEF BuildProfile
<1>. QED  BY <1>1, <1>2, <1>3, <1>4, <1>5, <1>6, <1>7, <1>8, <1>9 DEF Loop

LEMMA OtherLaunch ==
    IInv /\ (Leave \/ TargetNext \/ DeadlinePasses \/ Crash) => [L!LNext]_(L!lvars)
<1>. SUFFICES ASSUME IInv, Leave \/ TargetNext \/ DeadlinePasses \/ Crash
              PROVE  L!LNext \/ UNCHANGED L!lvars
  OBVIOUS
<1>. USE DEF IInv, TypeOK, Stages, Others, NoPipe, Sampling, Looping, child, profile, target,
             L!LNext, L!lvars
<1>1. CASE DropCounters
  BY <1>1 DEF DropCounters, L!Return
<1>2. CASE Kill
  BY <1>2 DEF Kill, L!End
<1>3. CASE WaitChild
  BY <1>3 DEF WaitChild, L!Collect
<1>4. CASE CloseBarrier
  BY <1>4 DEF CloseBarrier, L!Return
<1>5. CASE Exec
  <2>1. /\ kind = "command" /\ barrier = "open" /\ proc = "held" /\ proc' = "running"
        /\ kind' = kind /\ barrier' = barrier /\ pc' = pc /\ result' = result
    BY <1>5 DEF Exec
  <2>2. pc = "crashed" \/ (result # "err" /\ pc # "returned")
    BY <2>1
  <2>. QED  BY <2>1, <2>2 DEF L!StartProgram
<1>6. CASE Exit
  <2>1. /\ proc \in {"held", "running"} /\ proc' = "zombie"
        /\ kind' = kind /\ barrier' = barrier /\ pc' = pc /\ result' = result
    BY <1>6 DEF Exit
  <2>. QED  BY <2>1 DEF L!End
<1>7. ASSUME NEW t \in Threads, SpawnThread(t) \/ ExitThread(t) \/ Sample(t)
      PROVE  UNCHANGED L!lvars
  BY <1>7 DEF SpawnThread, ExitThread, Sample
<1>8. CASE ParentReaps
  BY <1>8 DEF ParentReaps, L!Collect
<1>9. CASE Recycle
  BY <1>9 DEF Recycle
<1>10. CASE DeadlinePasses
  BY <1>10 DEF DeadlinePasses
<1>11. CASE Crash
  BY <1>11 DEF Crash, L!Die
<1>. QED
  BY <1>1, <1>2, <1>3, <1>4, <1>5, <1>6, <1>7, <1>8, <1>9, <1>10, <1>11 DEF Leave, TargetNext

\* A Linux capture implements Launch, on every error path and after a crash.
THEOREM Implements == Spec => ImplementsLaunch
<1>1. IInv /\ [Next]_vars => [L!LNext]_(L!lvars)
  <2>1. CASE UNCHANGED vars
    BY <2>1 DEF vars, child, profile, target, L!lvars
  <2>. QED
    BY <2>1, StartLaunch, LoopLaunch, OtherLaunch DEF Next, CaptureNext
<1>. QED  BY <1>1, InitLaunch, SpecInv, PTL DEF Spec, ImplementsLaunch, L!LSpec
=============================================================================
