------------------------- MODULE WinCapture_proofs -------------------------
(***************************************************************************)
(* For any set of thread ids: at most the thread in hand is suspended,     *)
(* only threads that ran are walked, whoever has got their ids, and a      *)
(* launched program runs only between attach and return.                   *)
(*                                                                         *)
(* From "Folds" on: a launched program is given the arguments that were    *)
(* asked for, however many there are and however long they are.  Both      *)
(* sides of the command line are folds, so first what a fold makes of one  *)
(* element more; then what the reader makes of each character; then that   *)
(* what has been written of an argument is, at every character of it,      *)
(* read as that much of it.                                                *)
(***************************************************************************)
EXTENDS MCWinCapture, Selection_proofs, SequenceTheorems, TLAPS

Walking == {"suspend", "context", "walk", "resume"}

\* What a place in capture says about the thread in hand and the program.
Stages ==
    /\ cur # 0 <=> pc \in Walking
    /\ suspended \subseteq {cur} /\ (suspended # {} => pc \in Walking \ {"suspend"})
    /\ pc \notin {"drop", "returned"} => result = "none"
    /\ pc \in {"drop", "returned"} => result # "none"
    /\ pc \in {"start", "attach", "baseline"} => curCycles = Empty

Program ==
    kind = "command" =>
        /\ pc = "start" => proc = "none"
        /\ pc \in {"attach", "baseline", "release"} => proc \in {"held", "exited"}
        /\ pc \in Loop \/ (pc = "drop" /\ result = "ok") => proc \in {"running", "exited"}
        /\ pc = "drop" /\ result = "err" => proc \in {"none", "held", "exited"}
        /\ pc = "returned" => proc \in {"none", "exited"}

\* A thread whose count is above its baseline ran since that was read; one visited
\* in this tick has its new baseline in curCycles.
InTick == Walking \cup {"visit"}
Baseline ==
    /\ \A t \in DOMAIN lastCycles :
          (pc \in InTick => t \in todo) /\ cycles[t] > lastCycles[t] => t \in fresh
    /\ \A t \in DOMAIN curCycles : cycles[t] > curCycles[t] => t \in fresh

IInv == TypeOK /\ Stages /\ Program /\ Baseline

LEMMA InitInv == Init => IInv
<1>. SUFFICES ASSUME Init PROVE IInv
  OBVIOUS
<1>1. TypeOK
  BY BoundsAssumption DEF Init, TypeOK, Locations, Loop, Empty
<1>2. Stages /\ Program
  BY DEF Init, Stages, Program, Walking, Loop
<1>3. Baseline
  BY DEF Init, Baseline, Empty
<1>. QED  BY <1>1, <1>2, <1>3 DEF IInv

-----------------------------------------------------------------------------
(* Type correctness                                                        *)

LEMMA GoneTypes ==
    ASSUME TypeOK, NEW S \in SUBSET Threads, Gone(S)
    PROVE  /\ owner' \in [Threads -> {"free", "target", "alien"}]
           /\ cycles' \in [Threads -> 0 .. MaxCycles]
           /\ fresh' \subseteq Threads
  BY BoundsAssumption DEF TypeOK, Gone

LEMMA CaptureTypes == TypeOK /\ Stages /\ CaptureNext => TypeOK'
<1>. SUFFICES ASSUME TypeOK, Stages, CaptureNext PROVE TypeOK'
  OBVIOUS
<1>. USE BoundsAssumption
     DEF TypeOK, Locations, Loop, list, visit, target, Fail, OfTarget, Empty
<1>1. CASE Begin
  BY <1>1, ThreadsAssumption DEF Begin
<1>2. CASE AttachDbgHelp
  BY <1>2 DEF AttachDbgHelp
<1>3. CASE SnapshotThreadCycles
  BY <1>3 DEF SnapshotThreadCycles
<1>4. CASE ReleaseChild
  BY <1>4 DEF ReleaseChild
<1>5. CASE Tick
  BY <1>5 DEF Tick
<1>6. ASSUME NEW t \in Threads, Visit(t) PROVE TypeOK'
  BY <1>6 DEF Visit
<1>7. CASE Suspend
  <2>1. cur \in Threads
    BY <1>7 DEF Suspend, Stages, Walking
  <2>. QED  BY <1>7, <2>1 DEF Suspend
<1>8. CASE GetContext
  BY <1>8 DEF GetContext
<1>9. CASE WalkStack
  BY <1>9 DEF WalkStack
<1>10. CASE Resume
  BY <1>10 DEF Resume
<1>11. CASE EndTick
  BY <1>11 DEF EndTick
<1>12. CASE CheckDeadline \/ PollExit
  BY <1>12 DEF CheckDeadline, PollExit
<1>13. CASE Drop
  BY <1>13, GoneTypes DEF Drop
<1>. QED
  BY <1>1, <1>2, <1>3, <1>4, <1>5, <1>6, <1>7, <1>8, <1>9, <1>10, <1>11, <1>12, <1>13
     DEF CaptureNext

LEMMA OtherTypes == TypeOK /\ (TargetNext \/ ListAges \/ DeadlinePasses) => TypeOK'
<1>. SUFFICES ASSUME TypeOK, TargetNext \/ ListAges \/ DeadlinePasses PROVE TypeOK'
  OBVIOUS
<1>. USE BoundsAssumption
     DEF TypeOK, Locations, Loop, list, visit, target, others, OfTarget
<1>1. ASSUME NEW t \in Threads, Run(t) PROVE TypeOK'
  BY <1>1 DEF Run
<1>2. ASSUME NEW t \in Threads, NEW who \in {"target", "alien"}, StartThread(t, who)
      PROVE  TypeOK'
  BY <1>2 DEF StartThread
<1>3. ASSUME NEW t \in Threads, ExitThread(t) PROVE TypeOK'
  BY <1>3, GoneTypes DEF ExitThread
<1>4. CASE ExitProcess
  BY <1>4, GoneTypes DEF ExitProcess
<1>5. ASSUME NEW t \in Threads, Lock(t) PROVE TypeOK'
  BY <1>5 DEF Lock
<1>6. CASE Unlock \/ ListAges \/ DeadlinePasses
  BY <1>6 DEF Unlock, ListAges, DeadlinePasses
<1>. QED  BY <1>1, <1>2, <1>3, <1>4, <1>5, <1>6 DEF TargetNext

-----------------------------------------------------------------------------
(* The thread in hand and the program                                      *)

LEMMA CaptureStages == IInv /\ CaptureNext => Stages' /\ Program'
<1>. SUFFICES ASSUME IInv, CaptureNext PROVE Stages' /\ Program'
  OBVIOUS
<1>. USE ThreadsAssumption
     DEF IInv, TypeOK, Stages, Program, Walking, Loop, list, visit, target, Fail
<1>1. CASE Begin
  BY <1>1 DEF Begin
<1>2. CASE AttachDbgHelp
  BY <1>2 DEF AttachDbgHelp
<1>3. CASE SnapshotThreadCycles
  BY <1>3 DEF SnapshotThreadCycles
<1>4. CASE ReleaseChild
  BY <1>4 DEF ReleaseChild
<1>5. CASE Tick
  BY <1>5 DEF Tick
<1>6. ASSUME NEW t \in Threads, Visit(t) PROVE Stages' /\ Program'
  BY <1>6 DEF Visit
<1>7. CASE Suspend
  BY <1>7 DEF Suspend
<1>8. CASE GetContext
  BY <1>8 DEF GetContext
<1>9. CASE WalkStack
  BY <1>9 DEF WalkStack
<1>10. CASE Resume
  BY <1>10 DEF Resume
<1>11. CASE EndTick
  BY <1>11 DEF EndTick
<1>12. CASE CheckDeadline \/ PollExit
  <2>1. CASE CheckDeadline
    BY <2>1 DEF CheckDeadline
  <2>2. CASE PollExit
    BY <2>2 DEF PollExit
  <2>. QED  BY <1>12, <2>1, <2>2
<1>13. CASE Drop
  BY <1>13 DEF Drop
<1>. QED
  BY <1>1, <1>2, <1>3, <1>4, <1>5, <1>6, <1>7, <1>8, <1>9, <1>10, <1>11, <1>12, <1>13
     DEF CaptureNext

LEMMA OtherStages ==
    IInv /\ (TargetNext \/ ListAges \/ DeadlinePasses) => Stages' /\ Program'
<1>. SUFFICES ASSUME IInv, TargetNext \/ ListAges \/ DeadlinePasses
              PROVE  Stages' /\ Program'
  OBVIOUS
<1>. USE DEF IInv, Stages, Program, Walking, Loop, list, visit, target, others
<1>1. ASSUME NEW t \in Threads,
             \/ Run(t) \/ ExitThread(t) \/ Lock(t)
             \/ \E who \in {"target", "alien"} : StartThread(t, who)
      PROVE  Stages' /\ Program'
  BY <1>1 DEF Run, ExitThread, Lock, StartThread
<1>2. CASE ExitProcess
  BY <1>2 DEF ExitProcess
<1>3. CASE Unlock \/ ListAges \/ DeadlinePasses
  BY <1>3 DEF Unlock, ListAges, DeadlinePasses
<1>. QED  BY <1>1, <1>2, <1>3 DEF TargetNext

-----------------------------------------------------------------------------
(* Cycle counts                                                            *)

\* A thread that exits leaves no count behind that is above any baseline.
LEMMA GoneBaseline ==
    ASSUME IInv, NEW S \in SUBSET Threads, Gone(S),
           UNCHANGED <<pc, todo, lastCycles, curCycles>>
    PROVE  Baseline'
<1>1. \A t \in Threads :
          cycles'[t] = (IF t \in S THEN 0 ELSE cycles[t]) /\ (t \in fresh /\ t \notin S => t \in fresh')
  BY DEF Gone
<1>. QED  BY <1>1 DEF IInv, TypeOK, Baseline

LEMMA CaptureBaseline == IInv /\ CaptureNext => Baseline'
<1>. SUFFICES ASSUME IInv, CaptureNext PROVE Baseline'
  OBVIOUS
<1>. USE DEF IInv, TypeOK, Stages, Baseline, InTick, Walking, list, visit, target, Fail
<1>1. CASE Begin \/ AttachDbgHelp \/ ReleaseChild
  BY <1>1 DEF Begin, AttachDbgHelp, ReleaseChild
<1>2. CASE SnapshotThreadCycles
  BY <1>2 DEF SnapshotThreadCycles, OfTarget, Empty
<1>3. CASE Tick
  BY <1>3 DEF Tick, Empty
<1>4. ASSUME NEW t \in Threads, Visit(t) PROVE Baseline'
  BY <1>4 DEF Visit
<1>5. CASE Suspend \/ GetContext \/ WalkStack \/ Resume
  BY <1>5 DEF Suspend, GetContext, WalkStack, Resume
<1>6. CASE EndTick
  BY <1>6 DEF EndTick
<1>7. CASE CheckDeadline \/ PollExit
  BY <1>7 DEF CheckDeadline, PollExit
<1>8. CASE Drop
  BY <1>8 DEF Drop, Gone
<1>. QED  BY <1>1, <1>2, <1>3, <1>4, <1>5, <1>6, <1>7, <1>8 DEF CaptureNext

LEMMA OtherBaseline == IInv /\ (TargetNext \/ ListAges \/ DeadlinePasses) => Baseline'
<1>. SUFFICES ASSUME IInv, TargetNext \/ ListAges \/ DeadlinePasses PROVE Baseline'
  OBVIOUS
<1>. USE DEF list, visit, target, others, OfTarget
<1>1. ASSUME NEW t \in Threads, Run(t) PROVE Baseline'
  BY <1>1 DEF Run, IInv, TypeOK, Baseline
<1>2. ASSUME NEW t \in Threads, NEW who \in {"target", "alien"}, StartThread(t, who)
      PROVE  Baseline'
  BY <1>2 DEF StartThread, IInv, Baseline
<1>3. ASSUME NEW t \in Threads, ExitThread(t) PROVE Baseline'
  BY <1>3, GoneBaseline DEF ExitThread
<1>4. CASE ExitProcess
  BY <1>4, GoneBaseline DEF ExitProcess
<1>5. ASSUME NEW t \in Threads, Lock(t) PROVE Baseline'
  BY <1>5 DEF Lock, IInv, Baseline
<1>6. CASE Unlock \/ ListAges \/ DeadlinePasses
  BY <1>6 DEF Unlock, ListAges, DeadlinePasses, IInv, Baseline
<1>. QED  BY <1>1, <1>2, <1>3, <1>4, <1>5, <1>6 DEF TargetNext

LEMMA NextInv == IInv /\ [Next]_vars => IInv'
<1>. SUFFICES ASSUME IInv, [Next]_vars PROVE IInv'
  OBVIOUS
<1>1. CASE Next
  <2>1. TypeOK'
    BY <1>1, CaptureTypes, OtherTypes DEF Next, IInv
  <2>2. Stages' /\ Program'
    BY <1>1, CaptureStages, OtherStages DEF Next
  <2>3. Baseline'
    BY <1>1, CaptureBaseline, OtherBaseline DEF Next
  <2>. QED  BY <2>1, <2>2, <2>3 DEF IInv
<1>2. CASE UNCHANGED vars
  BY <1>2 DEF vars, list, visit, target, IInv, TypeOK, Stages, Program, Baseline
<1>. QED  BY <1>1, <1>2

LEMMA SpecInv == Spec => []IInv
  BY InitInv, NextInv, PTL DEF Spec

\* Every variable has its type in every reachable state.
THEOREM TypeCorrect == Spec => []TypeOK
<1>1. IInv => TypeOK
  BY DEF IInv
<1>. QED  BY <1>1, SpecInv, PTL

\* At most the thread in hand is suspended, and none between two threads or at the end.
THEOREM Paired == Spec => []SuspendPaired
<1>1. IInv => SuspendPaired
  BY DEF IInv, Stages, Walking, SuspendPaired
<1>. QED  BY <1>1, SpecInv, PTL

\* Only a thread that ran since its cycles were last read is walked.
THEOREM Busy == Spec => OnlyBusyWalked
<1>1. IInv /\ [Next]_vars => [\A t \in Threads : cur # t /\ cur' = t => t \in fresh]_vars
  <2>. SUFFICES ASSUME IInv, Next, NEW t \in Threads, cur # t, cur' = t PROVE t \in fresh
    OBVIOUS
  <2>1. \E s \in Threads : Visit(s)
    <3>. USE ThreadsAssumption DEF visit, others
    <3>1. CASE CaptureNext
      BY <3>1 DEF CaptureNext, Begin, AttachDbgHelp, SnapshotThreadCycles, ReleaseChild, Tick,
                  Suspend, GetContext, WalkStack, Resume, EndTick, CheckDeadline, PollExit, Drop
    <3>2. CASE TargetNext \/ ListAges \/ DeadlinePasses
      BY <3>2 DEF TargetNext, Run, StartThread, ExitThread, ExitProcess, Lock, Unlock, ListAges,
                  DeadlinePasses
    <3>. QED  BY <3>1, <3>2 DEF Next
  <2>2. PICK s \in Threads : Visit(s)
    BY <2>1
  <2>3. s = t /\ Ran(t) /\ t \in todo
    BY <2>2 DEF Visit
  <2>. QED  BY <2>3 DEF IInv, Baseline, Ran
<1>. QED  BY <1>1, SpecInv, PTL DEF Spec, OnlyBusyWalked

-----------------------------------------------------------------------------
(* The refinement: what each step does to the launched program.            *)

LEMMA InitLaunch == Init => L!LInit
  BY DEF Init, L!LInit

LEMMA CaptureLaunch == IInv /\ CaptureNext => [L!LNext]_(L!lvars)
<1>. SUFFICES ASSUME IInv, CaptureNext PROVE L!LNext \/ UNCHANGED L!lvars
  OBVIOUS
<1>. USE DEF IInv, Stages, Program, Loop, target, Fail, L!LNext, L!lvars
<1>1. CASE Begin
  BY <1>1 DEF Begin, L!Create
<1>2. CASE AttachDbgHelp
  BY <1>2 DEF AttachDbgHelp
<1>3. CASE SnapshotThreadCycles
  BY <1>3 DEF SnapshotThreadCycles
<1>4. CASE ReleaseChild
  BY <1>4 DEF ReleaseChild, L!LetGo
<1>5. CASE Tick
  BY <1>5 DEF Tick
<1>6. ASSUME NEW t \in Threads, Visit(t) PROVE UNCHANGED L!lvars
  BY <1>6 DEF Visit
<1>7. CASE Suspend \/ GetContext \/ WalkStack \/ Resume
  BY <1>7 DEF Suspend, GetContext, WalkStack, Resume
<1>8. CASE EndTick \/ CheckDeadline \/ PollExit
  BY <1>8 DEF EndTick, CheckDeadline, PollExit
<1>9. CASE Drop
  BY <1>9 DEF Drop, L!Return
<1>. QED  BY <1>1, <1>2, <1>3, <1>4, <1>5, <1>6, <1>7, <1>8, <1>9 DEF CaptureNext

LEMMA OtherLaunch ==
    IInv /\ (TargetNext \/ ListAges \/ DeadlinePasses) => [L!LNext]_(L!lvars)
<1>. SUFFICES ASSUME IInv, TargetNext \/ ListAges \/ DeadlinePasses
              PROVE  L!LNext \/ UNCHANGED L!lvars
  OBVIOUS
<1>. USE DEF others, target, L!LNext, L!lvars
<1>1. ASSUME NEW t \in Threads,
             \/ Run(t) \/ ExitThread(t) \/ Lock(t)
             \/ \E who \in {"target", "alien"} : StartThread(t, who)
      PROVE  UNCHANGED L!lvars
  BY <1>1 DEF Run, ExitThread, Lock, StartThread
<1>2. CASE ExitProcess
  BY <1>2 DEF ExitProcess, L!End
<1>3. CASE Unlock \/ ListAges \/ DeadlinePasses
  BY <1>3 DEF Unlock, ListAges, DeadlinePasses
<1>. QED  BY <1>1, <1>2, <1>3 DEF TargetNext

\* A Windows capture implements Launch, on every error path.
THEOREM Implements == Spec => ImplementsLaunch
<1>1. IInv /\ [Next]_vars => [L!LNext]_(L!lvars)
  <2>1. CASE UNCHANGED vars
    BY <2>1 DEF vars, target, L!lvars
  <2>. QED  BY <2>1, CaptureLaunch, OtherLaunch DEF Next
<1>. QED  BY <1>1, InitLaunch, SpecInv, PTL DEF Spec, ImplementsLaunch, L!LSpec

-----------------------------------------------------------------------------
(* Folds                                                                   *)

\* A fold over the positions in s, the last of them applied last: g is the operator.
FoldedBy(e, N, base, seq, g) ==
    /\ e[{}] = base
    /\ \A s \in SUBSET (1 .. N) : s # {} => e[s] = g[<<e[s \ {Max(s)}], seq[Max(s)]>>]

LEMMA MaxOf ==
    ASSUME NEW N \in Nat, NEW s \in SUBSET (1 .. N), s # {}
    PROVE  Max(s) \in s /\ \A y \in s : y <= Max(s)
<1>1. s \subseteq 0 .. N
  OBVIOUS
<1>. QED  BY <1>1, MaxIs

\* The function by which FoldLeft is defined exists.
LEMMA FoldExists ==
    ASSUME NEW X, NEW C, NEW base \in X, NEW seq \in Seq(C), NEW g \in [X \X C -> X]
    PROVE  \E e \in [SUBSET (1 .. Len(seq)) -> X] : FoldedBy(e, Len(seq), base, seq, g)
<1>. DEFINE N == Len(seq)
            P == SUBSET (1 .. N)
            F == [P -> X]
            first == [s \in P |-> base]
            next(n, f) == [s \in P |-> IF n \in s THEN g[<<f[s \ {n}], seq[n]>>] ELSE f[s]]
            h == [q \in (1 .. N) \X F |-> next(q[1], q[2])]
<1>1. N \in Nat /\ \A n \in 1 .. N : seq[n] \in C
  OBVIOUS
<1>. HIDE DEF N
<1>2. first \in F
  OBVIOUS
<1>3. ASSUME NEW n \in 1 .. N, NEW f \in F PROVE next(n, f) \in F
  <2>1. ASSUME NEW s \in P
        PROVE  (IF n \in s THEN g[<<f[s \ {n}], seq[n]>>] ELSE f[s]) \in X
    <3>1. s \ {n} \in P
      OBVIOUS
    <3>2. f[s \ {n}] \in X /\ f[s] \in X /\ seq[n] \in C
      BY <1>1, <3>1
    <3>3. g[<<f[s \ {n}], seq[n]>>] \in X
      BY <3>2
    <3>. QED  BY <3>2, <3>3
  <2>. QED  BY <2>1
<1>4. h \in [(1 .. N) \X F -> F]
  <2>. HIDE DEF F, next
  <2>1. \A q \in (1 .. N) \X F : next(q[1], q[2]) \in F
    BY <1>3
  <2>. QED  BY <2>1
<1>5. PICK u : Follows(u, F, N, first, h)
  <2>. HIDE DEF F, first, h
  <2>. QED  BY <1>1, <1>2, <1>4, Recursion
<1>6. u[0] = first /\ \A n \in 0 .. N : u[n] \in F
  BY <1>5 DEF Follows
<1>7. ASSUME NEW n \in 1 .. N PROVE u[n] = next(n, u[n - 1])
  <2>. HIDE DEF F, next
  <2>1. n - 1 \in 0 .. N
    BY <1>1
  <2>2. u[n - 1] \in F /\ u[n] = h[<<n, u[n - 1]>>]
    BY <1>5, <1>6, <2>1 DEF Follows
  <2>. QED  BY <2>2
<1>. DEFINE Sound(n) ==
                /\ u[n][{}] = base
                /\ \A s \in SUBSET (1 .. n) :
                      s # {} => u[n][s] = g[<<u[n][s \ {Max(s)}], seq[Max(s)]>>]
            S == {n \in Nat : n <= N => Sound(n)}
<1>8. 0 \in S
  <2>1. Sound(0)
    <3>1. 1 .. 0 = {} /\ {} \in P
      OBVIOUS
    <3>. QED  BY <1>6, <3>1
  <2>. QED  BY <2>1
<1>9. ASSUME NEW n \in Nat, n \in S PROVE n + 1 \in S
  <2>. SUFFICES ASSUME n + 1 <= N PROVE Sound(n + 1)
    OBVIOUS
  <2>1. n + 1 \in 1 .. N /\ (n + 1) - 1 = n /\ n <= N
    BY <1>1
  <2>2. Sound(n)
    BY <1>9, <2>1
  <2>3. u[n + 1] = next(n + 1, u[n])
    <3>. HIDE DEF F, next
    <3>. QED  BY <1>7, <2>1
  <2>4. \A s \in P : n + 1 \in s => u[n + 1][s] = g[<<u[n][s \ {n + 1}], seq[n + 1]>>]
    BY <2>3
  <2>5. \A s \in P : n + 1 \notin s => u[n + 1][s] = u[n][s]
    BY <2>3
  <2>. HIDE DEF F, next
  <2>6. u[n + 1][{}] = base
    BY <2>2, <2>5
  <2>7. ASSUME NEW s \in SUBSET (1 .. n + 1), s # {}
        PROVE  u[n + 1][s] = g[<<u[n + 1][s \ {Max(s)}], seq[Max(s)]>>]
    <3>1. s \in P /\ Max(s) \in s /\ \A y \in s : y <= Max(s)
      <4>1. s \in SUBSET (1 .. N)
        BY <1>1, <2>1
      <4>. QED  BY ONLY <1>1, <2>7, <4>1, MaxOf
    <3>2. CASE n + 1 \in s
      <4>1. Max(s) = n + 1
        <5>1. Max(s) \in 1 .. n + 1 /\ n + 1 <= Max(s)
          BY <3>1, <3>2
        <5>. QED  BY ONLY <5>1, n \in Nat
      <4>2. s \ {n + 1} \in P
        BY <3>1
      <4>3. u[n + 1][s \ {n + 1}] = u[n][s \ {n + 1}]
        BY <2>5, <4>2
      <4>. QED  BY <2>4, <3>1, <3>2, <4>1, <4>3
    <3>3. CASE n + 1 \notin s
      <4>1. s \in SUBSET (1 .. n)
        <5>1. ASSUME NEW y \in s PROVE y \in 1 .. n
          <6>1. y \in 1 .. n + 1 /\ y # n + 1
            BY <3>3
          <6>. QED  BY ONLY <6>1, n \in Nat
        <5>. QED  BY <5>1
      <4>2. u[n][s] = g[<<u[n][s \ {Max(s)}], seq[Max(s)]>>]
        BY <2>2, <2>7, <4>1
      <4>3. s \ {Max(s)} \in P /\ n + 1 \notin s \ {Max(s)}
        BY <3>1, <3>3
      <4>4. u[n + 1][s \ {Max(s)}] = u[n][s \ {Max(s)}] /\ u[n + 1][s] = u[n][s]
        BY <2>5, <3>1, <3>3, <4>3
      <4>. QED  BY <4>2, <4>4
    <3>. QED  BY <3>2, <3>3
  <2>. QED  BY <2>6, <2>7
<1>10. Sound(N)
  <2>1. Nat \subseteq S
    <3>. HIDE DEF S
    <3>. QED  BY <1>8, <1>9, Induction
  <2>. HIDE DEF Sound
  <2>2. N \in S
    BY <1>1, <2>1
  <2>. QED  BY <1>1, <2>2
<1>11. u[N] \in F
  <2>. HIDE DEF F
  <2>. QED  BY <1>1, <1>6
<1>. QED  BY <1>10, <1>11 DEF N, FoldedBy

\* The last position of a prefix, and the prefix without it.
LEMMA PrefixMax ==
    ASSUME NEW n \in Nat, n >= 1
    PROVE  Max(1 .. n) = n /\ (1 .. n) \ {n} = 1 .. n - 1 /\ 1 .. n # {}
<1>1. n \in 1 .. n /\ 1 .. n # {} /\ 1 .. n \in SUBSET (1 .. n)
  OBVIOUS
<1>2. Max(1 .. n) \in 1 .. n /\ \A y \in 1 .. n : y <= Max(1 .. n)
  BY ONLY <1>1, n \in Nat, MaxOf
<1>3. Max(1 .. n) = n
  <2>1. n <= Max(1 .. n) /\ Max(1 .. n) \in 1 .. n
    BY <1>1, <1>2
  <2>. QED  BY ONLY <2>1, n \in Nat
<1>4. (1 .. n) \ {n} = 1 .. n - 1
  OBVIOUS
<1>. QED  BY <1>1, <1>3, <1>4

\* A property of sequences that <<>> has, and Append keeps.
LEMMA Appending ==
    ASSUME NEW C, NEW S, <<>> \in S,
           \A s \in Seq(C), c \in C : s \in S => Append(s, c) \in S
    PROVE  Seq(C) \subseteq S
<1>. DEFINE T == {n \in Nat : \A s \in Seq(C) : Len(s) = n => s \in S}
<1>1. 0 \in T
  <2>1. \A s \in Seq(C) : Len(s) = 0 => s = <<>>
    OBVIOUS
  <2>. QED  BY <2>1
<1>2. ASSUME NEW n \in Nat, n \in T PROVE n + 1 \in T
  <2>. SUFFICES ASSUME NEW s \in Seq(C), Len(s) = n + 1 PROVE s \in S
    OBVIOUS
  <2>1. s # <<>>
    OBVIOUS
  <2>2. PICK t \in Seq(C), c \in C : s = Append(t, c)
    BY <2>1, SequenceEmptyOrAppend
  <2>3. Len(t) = n
    <3>1. Len(Append(t, c)) = Len(t) + 1 /\ Len(t) \in Nat
      OBVIOUS
    <3>. QED  BY <2>2, <3>1
  <2>4. t \in S
    BY <1>2, <2>3
  <2>. QED  BY <2>2, <2>4
<1>3. Nat \subseteq T
  <2>. HIDE DEF T
  <2>. QED  BY <1>1, <1>2, Induction
<1>. QED  BY <1>3

\* f[n] is what a fold has made of the first n elements of seq.
Turns(f, X, base, seq, g) ==
    /\ f \in [0 .. Len(seq) -> X] /\ f[0] = base
    /\ \A n \in 1 .. Len(seq) : f[n] = g[<<f[n - 1], seq[n]>>]

\* What starts in X and stays in X.
LEMMA Stays ==
    ASSUME NEW X, NEW N \in Nat, NEW f, f[0] \in X,
           \A n \in 1 .. N : f[n - 1] \in X => f[n] \in X
    PROVE  \A n \in 0 .. N : f[n] \in X
<1>. DEFINE S == {n \in Nat : n <= N => f[n] \in X}
<1>1. 0 \in S
  OBVIOUS
<1>2. ASSUME NEW n \in Nat, n \in S PROVE n + 1 \in S
  <2>. SUFFICES ASSUME n + 1 <= N PROVE f[n + 1] \in X
    OBVIOUS
  <2>1. n + 1 \in 1 .. N /\ (n + 1) - 1 = n /\ n <= N
    OBVIOUS
  <2>. QED  BY <1>2, <2>1
<1>3. Nat \subseteq S
  <2>. HIDE DEF S
  <2>. QED  BY <1>1, <1>2, Induction
<1>. QED  BY <1>3

\* One element more is one turn more.
Longer(more, seq) ==
    /\ Len(seq) \in Nat /\ Len(more) = Len(seq) + 1
    /\ \A n \in 1 .. Len(seq) : more[n] = seq[n]

OneMore(f, h, seq, more, g) == h[Len(more)] = g[<<f[Len(seq)], more[Len(more)]>>]

LEMMA TurnMore ==
    ASSUME NEW X, NEW base, NEW seq, NEW more, NEW g, Longer(more, seq),
           NEW f, Turns(f, X, base, seq, g), NEW h, Turns(h, X, base, more, g)
    PROVE  f[Len(seq)] \in X /\ OneMore(f, h, seq, more, g)
<1>. DEFINE N == Len(seq)
<1>1. N \in Nat /\ Len(more) = N + 1 /\ \A n \in 1 .. N : more[n] = seq[n]
  BY DEF Longer
<1>2. /\ f[0] = base /\ \A n \in 1 .. N : f[n] = g[<<f[n - 1], seq[n]>>]
      /\ h[0] = base /\ \A n \in 1 .. N + 1 : h[n] = g[<<h[n - 1], more[n]>>]
      /\ \A n \in 0 .. N : f[n] \in X
  BY <1>1 DEF Turns
<1>. HIDE DEF N
<1>3. \A n \in 1 .. N : h[n] = g[<<h[n - 1], seq[n]>>]
  BY <1>1, <1>2
<1>4. StepAlike(f, h, N)
  BY <1>2, <1>3 DEF StepAlike
<1>5. f[N] = h[N]
  BY <1>1, <1>4, SameSteps
<1>6. h[N + 1] = g[<<h[N], more[N + 1]>>] /\ f[N] \in X
  <2>1. N + 1 \in 1 .. N + 1 /\ (N + 1) - 1 = N /\ N \in 0 .. N
    BY <1>1
  <2>. QED  BY <1>2, <2>1
<1>. QED  BY <1>1, <1>5, <1>6 DEF N, OneMore

-----------------------------------------------------------------------------
(* The folds of Quoting                                                    *)

Letters == Seq(Characters)

States == [args : Seq(Letters), word : Letters, in : BOOLEAN, quoted : BOOLEAN,
           closed : BOOLEAN, backslashes : Nat]

Parsed(line) == FoldLeft(Take, Start, line)
TakeOf == [p \in States \X Characters |-> Take(p[1], p[2])]

LEMMA Letter == \A c \in Characters : <<c>> \in Letters
  BY DEF Letters

LEMMA BackslashesType == \A n \in Nat : Backslashes(n) \in Letters /\ Len(Backslashes(n)) = n
<1>. TAKE n \in Nat
<1>1. Backslashes(n) \in [1 .. n -> Characters]
  BY DEF Backslashes, Characters
<1>. QED  BY <1>1 DEF Letters

LEMMA JoinType == \A u, v \in Letters : u \o v \in Letters
  BY DEF Letters

LEMMA StartType == Start \in States
  BY DEF Start, States, Letters

LEMMA SayType ==
    ASSUME NEW p \in States, NEW t \in Letters
    PROVE  Say(p, t) \in States
<1>1. p.word \in Letters /\ p.backslashes \in Nat
  BY DEF States
<1>2. Backslashes(p.backslashes) \in Letters
  BY <1>1, BackslashesType
<1>3. (p.word \o Backslashes(p.backslashes)) \o t \in Letters
  BY <1>1, <1>2, JoinType
<1>. QED  BY <1>3 DEF Say, States

LEMMA HalfType == ASSUME NEW p \in States PROVE Half(p) \in States
  BY DEF Half, States

LEMMA EndWordType == ASSUME NEW p \in States PROVE EndWord(p) \in States
<1>1. p.word \in Letters /\ p.backslashes \in Nat /\ p.args \in Seq(Letters)
  BY DEF States
<1>2. p.word \o Backslashes(p.backslashes) \in Letters
  BY <1>1, BackslashesType, JoinType
<1>3. Append(p.args, p.word \o Backslashes(p.backslashes)) \in Seq(Letters)
  BY <1>1, <1>2
<1>4. [Start EXCEPT !.args = Append(p.args, p.word \o Backslashes(p.backslashes))] \in States
  BY <1>3, StartType DEF States
<1>. QED  BY <1>4 DEF EndWord

LEMMA TakeType ==
    ASSUME NEW p \in States, NEW c \in Characters
    PROVE  Take(p, c) \in States
<1>1. <<>> \in Letters /\ <<"q">> \in Letters /\ <<c>> \in Letters
  <2>1. "q" \in Characters
    BY DEF Characters
  <2>2. <<"q">> \in Letters /\ <<c>> \in Letters
    BY ONLY <2>1, c \in Characters, Letter
  <2>. QED  BY <2>2 DEF Letters
<1>2. Half(p) \in States
  BY HalfType
<1>3. /\ Say(Half(p), <<"q">>) \in States /\ Say(p, <<"q">>) \in States
      /\ Say(Half(p), <<>>) \in States /\ Say(p, <<c>>) \in States
  BY <1>1, <1>2, SayType
<1>4. Quote(p) \in States
  <2>1. \A s \in States, b \in BOOLEAN, d \in BOOLEAN :
            /\ [s EXCEPT !.quoted = b] \in States
            /\ [s EXCEPT !.quoted = b, !.in = TRUE] \in States
            /\ [s EXCEPT !.quoted = b, !.closed = d] \in States
    BY DEF States
  <2>2. p.quoted \in BOOLEAN /\ (~p.quoted) \in BOOLEAN
    BY DEF States
  <2>. QED  BY <1>3, <2>1, <2>2 DEF Quote
<1>5. EndWord(p) \in States
  BY EndWordType
<1>6. [p EXCEPT !.backslashes = @ + 1] \in States
  BY DEF States
<1>. QED  BY <1>3, <1>4, <1>5, <1>6 DEF Take

\* The program's side takes the line a character at a time.
LEMMA ParsedTurns ==
    ASSUME NEW line \in Letters
    PROVE  \E f : Turns(f, States, Start, line, TakeOf) /\ Parsed(line) = f[Len(line)]
<1>. DEFINE N == Len(line)
            Defined(e) == e = [s \in SUBSET DOMAIN line |->
                                 IF s = {} THEN Start
                                 ELSE Take(e[s \ {Max(s)}], line[Max(s)])]
            iter == CHOOSE e : Defined(e)
            f == [n \in 0 .. N |-> iter[1 .. n]]
<1>1. line \in Seq(Characters) /\ N \in Nat /\ DOMAIN line = 1 .. N
  BY DEF Letters
<1>2. \A n \in 1 .. N : line[n] \in Characters
  BY <1>1
<1>3. TakeOf \in [States \X Characters -> States]
  BY TakeType DEF TakeOf
<1>4. \A p \in States, c \in Characters : TakeOf[<<p, c>>] = Take(p, c)
  BY DEF TakeOf
<1>5. PICK e \in [SUBSET (1 .. N) -> States] : FoldedBy(e, N, Start, line, TakeOf)
  BY <1>1, <1>3, StartType, FoldExists
<1>. HIDE DEF N
<1>6. Defined(e)
  <2>1. ASSUME NEW s \in SUBSET (1 .. N), s # {}
        PROVE  e[s] = Take(e[s \ {Max(s)}], line[Max(s)])
    <3>1. Max(s) \in s
      BY <1>1, <2>1, MaxOf
    <3>2. s \ {Max(s)} \in SUBSET (1 .. N) /\ Max(s) \in 1 .. N
      BY <3>1
    <3>3. e[s \ {Max(s)}] \in States /\ line[Max(s)] \in Characters
      BY <1>2, <1>5, <3>2
    <3>. QED  BY <1>4, <1>5, <2>1, <3>3 DEF FoldedBy
  <2>2. \A s \in SUBSET (1 .. N) :
           e[s] = IF s = {} THEN Start ELSE Take(e[s \ {Max(s)}], line[Max(s)])
    BY <1>5, <2>1 DEF FoldedBy
  <2>. QED  BY <1>1, <1>5, <2>2
<1>7. Defined(iter)
  BY <1>6
<1>. HIDE DEF iter
<1>8. f[0] = Start
  <2>1. 1 .. 0 = {} /\ 0 \in 0 .. N
    BY <1>1
  <2>. QED  BY <1>7, <2>1
<1>9. ASSUME NEW n \in 1 .. N PROVE f[n] = Take(f[n - 1], line[n])
  <2>1. n \in 0 .. N /\ n - 1 \in 0 .. N /\ 1 .. n \in SUBSET (1 .. N) /\ n \in Nat /\ n >= 1
    BY <1>1
  <2>2. iter[1 .. n] = Take(iter[1 .. n - 1], line[n])
    <3>1. Max(1 .. n) = n /\ (1 .. n) \ {n} = 1 .. n - 1 /\ 1 .. n # {}
      BY <2>1, PrefixMax
    <3>. QED  BY <1>1, <1>7, <2>1, <3>1
  <2>. QED  BY <2>1, <2>2
<1>10. \A n \in 0 .. N : f[n] \in States
  <2>. HIDE DEF f
  <2>1. f[0] \in States /\ \A n \in 1 .. N : f[n - 1] \in States => f[n] \in States
    BY <1>2, <1>8, <1>9, StartType, TakeType
  <2>. QED  BY <1>1, <2>1, Stays
<1>11. Turns(f, States, Start, line, TakeOf)
  <2>1. ASSUME NEW n \in 1 .. N PROVE f[n] = TakeOf[<<f[n - 1], line[n]>>]
    <3>. HIDE DEF f
    <3>1. n - 1 \in 0 .. N
      BY <1>1
    <3>. QED  BY <1>2, <1>4, <1>9, <1>10, <3>1
  <2>2. f \in [0 .. N -> States]
    BY <1>10
  <2>. HIDE DEF f
  <2>. QED  BY <1>8, <2>1, <2>2 DEF Turns, N
<1>12. Parsed(line) = f[N]
  <2>1. Parsed(line) = iter[DOMAIN line]
    BY DEF Parsed, FoldLeft, MapThenFoldSet, iter
  <2>2. N \in 0 .. N
    BY <1>1
  <2>. QED  BY <1>1, <2>1, <2>2
<1>. QED  BY <1>11, <1>12 DEF N

LEMMA AppendLonger ==
    ASSUME NEW C, NEW s \in Seq(C), NEW c \in C
    PROVE  /\ Append(s, c) \in Seq(C) /\ Longer(Append(s, c), s)
           /\ Append(s, c)[Len(Append(s, c))] = c
  BY DEF Longer

LEMMA ParsedMore ==
    ASSUME NEW line \in Letters, NEW c \in Characters
    PROVE  /\ Append(line, c) \in Letters
           /\ Parsed(line) \in States
           /\ Parsed(Append(line, c)) = Take(Parsed(line), c)
<1>. DEFINE more == Append(line, c)
<1>1. more \in Letters /\ Longer(more, line) /\ more[Len(more)] = c
  BY AppendLonger DEF Letters
<1>. HIDE DEF more
<1>2. PICK f : Turns(f, States, Start, line, TakeOf) /\ Parsed(line) = f[Len(line)]
  BY ParsedTurns
<1>3. PICK h : Turns(h, States, Start, more, TakeOf) /\ Parsed(more) = h[Len(more)]
  BY <1>1, ParsedTurns
<1>4. f[Len(line)] \in States /\ OneMore(f, h, line, more, TakeOf)
  BY ONLY <1>1, <1>2, <1>3, TurnMore
<1>5. Parsed(line) \in States /\ Parsed(more) = TakeOf[<<Parsed(line), c>>]
  BY ONLY <1>1, <1>2, <1>3, <1>4 DEF OneMore
<1>. QED  BY <1>1, <1>5 DEF TakeOf, more

\* append_quoted's loop, from what base says is written and held back.
Holdings == [line : Letters, backslashes : Nat]
Quoting(base, arg) == FoldLeft(append_char, base, arg)
AppendOf == [p \in Holdings \X Characters |-> append_char(p[1], p[2])]

LEMMA AppendType ==
    ASSUME NEW s \in Holdings, NEW c \in Characters
    PROVE  append_char(s, c) \in Holdings
<1>1. s.line \in Letters /\ s.backslashes \in Nat /\ 2 * s.backslashes + 1 \in Nat
  BY DEF Holdings
<1>2. /\ s.line \o Backslashes(2 * s.backslashes + 1) \in Letters
      /\ s.line \o Backslashes(s.backslashes) \in Letters
  BY <1>1, BackslashesType, JoinType
<1>3. <<"q">> \in Letters /\ <<c>> \in Letters
  <2>1. "q" \in Characters
    BY DEF Characters
  <2>. QED  BY ONLY <2>1, c \in Characters, Letter
<1>4. /\ s.line \o Backslashes(2 * s.backslashes + 1) \o <<"q">> \in Letters
      /\ s.line \o Backslashes(s.backslashes) \o <<c>> \in Letters
  BY <1>2, <1>3, JoinType
<1>. QED  BY <1>1, <1>4 DEF append_char, Holdings

LEMMA QuotingTurns ==
    ASSUME NEW base \in Holdings, NEW arg \in Letters
    PROVE  \E f : Turns(f, Holdings, base, arg, AppendOf) /\ Quoting(base, arg) = f[Len(arg)]
<1>. DEFINE N == Len(arg)
            Defined(e) == e = [s \in SUBSET DOMAIN arg |->
                                 IF s = {} THEN base
                                 ELSE append_char(e[s \ {Max(s)}], arg[Max(s)])]
            iter == CHOOSE e : Defined(e)
            f == [n \in 0 .. N |-> iter[1 .. n]]
<1>1. arg \in Seq(Characters) /\ N \in Nat /\ DOMAIN arg = 1 .. N
  BY DEF Letters
<1>2. \A n \in 1 .. N : arg[n] \in Characters
  BY <1>1
<1>3. AppendOf \in [Holdings \X Characters -> Holdings]
  BY AppendType DEF AppendOf
<1>4. \A p \in Holdings, c \in Characters : AppendOf[<<p, c>>] = append_char(p, c)
  BY DEF AppendOf
<1>5. PICK e \in [SUBSET (1 .. N) -> Holdings] : FoldedBy(e, N, base, arg, AppendOf)
  BY <1>1, <1>3, FoldExists
<1>. HIDE DEF N
<1>6. Defined(e)
  <2>1. ASSUME NEW s \in SUBSET (1 .. N), s # {}
        PROVE  e[s] = append_char(e[s \ {Max(s)}], arg[Max(s)])
    <3>1. Max(s) \in s
      BY <1>1, <2>1, MaxOf
    <3>2. s \ {Max(s)} \in SUBSET (1 .. N) /\ Max(s) \in 1 .. N
      BY <3>1
    <3>3. e[s \ {Max(s)}] \in Holdings /\ arg[Max(s)] \in Characters
      BY <1>2, <1>5, <3>2
    <3>. QED  BY <1>4, <1>5, <2>1, <3>3 DEF FoldedBy
  <2>2. \A s \in SUBSET (1 .. N) :
           e[s] = IF s = {} THEN base ELSE append_char(e[s \ {Max(s)}], arg[Max(s)])
    BY <1>5, <2>1 DEF FoldedBy
  <2>. QED  BY <1>1, <1>5, <2>2
<1>7. Defined(iter)
  BY <1>6
<1>. HIDE DEF iter
<1>8. f[0] = base
  <2>1. 1 .. 0 = {} /\ 0 \in 0 .. N
    BY <1>1
  <2>. QED  BY <1>7, <2>1
<1>9. ASSUME NEW n \in 1 .. N PROVE f[n] = append_char(f[n - 1], arg[n])
  <2>1. n \in 0 .. N /\ n - 1 \in 0 .. N /\ 1 .. n \in SUBSET (1 .. N) /\ n \in Nat /\ n >= 1
    BY <1>1
  <2>2. iter[1 .. n] = append_char(iter[1 .. n - 1], arg[n])
    <3>1. Max(1 .. n) = n /\ (1 .. n) \ {n} = 1 .. n - 1 /\ 1 .. n # {}
      BY <2>1, PrefixMax
    <3>. QED  BY <1>1, <1>7, <2>1, <3>1
  <2>. QED  BY <2>1, <2>2
<1>10. \A n \in 0 .. N : f[n] \in Holdings
  <2>. HIDE DEF f
  <2>1. f[0] \in Holdings /\ \A n \in 1 .. N : f[n - 1] \in Holdings => f[n] \in Holdings
    BY <1>2, <1>8, <1>9, AppendType
  <2>. QED  BY <1>1, <2>1, Stays
<1>11. Turns(f, Holdings, base, arg, AppendOf)
  <2>1. ASSUME NEW n \in 1 .. N PROVE f[n] = AppendOf[<<f[n - 1], arg[n]>>]
    <3>. HIDE DEF f
    <3>1. n - 1 \in 0 .. N
      BY <1>1
    <3>. QED  BY <1>2, <1>4, <1>9, <1>10, <3>1
  <2>2. f \in [0 .. N -> Holdings]
    BY <1>10
  <2>. HIDE DEF f
  <2>. QED  BY <1>8, <2>1, <2>2 DEF Turns, N
<1>12. Quoting(base, arg) = f[N]
  <2>1. Quoting(base, arg) = iter[DOMAIN arg]
    BY DEF Quoting, FoldLeft, MapThenFoldSet, iter
  <2>2. N \in 0 .. N
    BY <1>1
  <2>. QED  BY <1>1, <2>1, <2>2
<1>. QED  BY <1>11, <1>12 DEF N

LEMMA QuotingMore ==
    ASSUME NEW base \in Holdings, NEW arg \in Letters, NEW c \in Characters
    PROVE  /\ Append(arg, c) \in Letters
           /\ Quoting(base, arg) \in Holdings
           /\ Quoting(base, Append(arg, c)) = append_char(Quoting(base, arg), c)
<1>. DEFINE more == Append(arg, c)
<1>1. more \in Letters /\ Longer(more, arg) /\ more[Len(more)] = c
  BY AppendLonger DEF Letters
<1>. HIDE DEF more
<1>2. PICK f : Turns(f, Holdings, base, arg, AppendOf) /\ Quoting(base, arg) = f[Len(arg)]
  BY QuotingTurns
<1>3. PICK h : Turns(h, Holdings, base, more, AppendOf) /\ Quoting(base, more) = h[Len(more)]
  BY <1>1, QuotingTurns
<1>4. f[Len(arg)] \in Holdings /\ OneMore(f, h, arg, more, AppendOf)
  BY ONLY <1>1, <1>2, <1>3, TurnMore
<1>5. Quoting(base, arg) \in Holdings /\ Quoting(base, more) = AppendOf[<<Quoting(base, arg), c>>]
  BY ONLY <1>1, <1>2, <1>3, <1>4 DEF OneMore
<1>. QED  BY <1>1, <1>5 DEF AppendOf, more

\* One argument more on the line, after a blank unless it is the first.
Joined(line, arg) == append_quoted(IF line = <<>> THEN line ELSE Append(line, " "), arg)
JoinedOf == [p \in Letters \X Letters |-> Joined(p[1], p[2])]

LEMMA NoLetters == <<>> \in Letters
  BY DEF Letters

LEMMA OpenType ==
    ASSUME NEW line \in Letters
    PROVE  [line |-> line \o <<"q">>, backslashes |-> 0] \in Holdings
<1>1. "q" \in Characters
  BY DEF Characters
<1>2. <<"q">> \in Letters
  BY ONLY <1>1, Letter
<1>3. line \o <<"q">> \in Letters
  BY <1>2, JoinType
<1>. QED  BY <1>3 DEF Holdings

LEMMA QuotedType ==
    ASSUME NEW line \in Letters, NEW arg \in Letters
    PROVE  append_quoted(line, arg) \in Letters
<1>. DEFINE base == [line |-> line \o <<"q">>, backslashes |-> 0]
            s == Quoting(base, arg)
<1>1. "x" \in Characters /\ "q" \in Characters
  BY DEF Characters
<1>2. base \in Holdings
  BY OpenType
<1>3. s \in Holdings
  BY <1>1, <1>2, QuotingMore
<1>. HIDE DEF s
<1>4. s.line \in Letters /\ s.backslashes \in Nat /\ 2 * s.backslashes \in Nat
  BY <1>3 DEF Holdings
<1>5. <<"q">> \in Letters
  BY ONLY <1>1, Letter
<1>6. s.line \o Backslashes(2 * s.backslashes) \o <<"q">> \in Letters
  BY <1>4, <1>5, BackslashesType, JoinType
<1>7. line \o arg \in Letters
  BY JoinType
<1>. QED  BY <1>6, <1>7 DEF append_quoted, s, Quoting

LEMMA JoinedType ==
    ASSUME NEW line \in Letters, NEW arg \in Letters
    PROVE  Joined(line, arg) \in Letters
<1>1. " " \in Characters
  BY DEF Characters
<1>2. Append(line, " ") \in Letters
  BY ONLY <1>1, line \in Letters, ParsedMore
<1>. QED  BY <1>2, QuotedType DEF Joined

LEMMA EncodeTurns ==
    ASSUME NEW argv \in Seq(Letters)
    PROVE  \E f : Turns(f, Letters, <<>>, argv, JoinedOf) /\ encode_command_line(argv) = f[Len(argv)]
<1>. DEFINE N == Len(argv)
            Defined(e) == e = [s \in SUBSET DOMAIN argv |->
                                 IF s = {} THEN <<>>
                                 ELSE Joined(e[s \ {Max(s)}], argv[Max(s)])]
            iter == CHOOSE e : Defined(e)
            f == [n \in 0 .. N |-> iter[1 .. n]]
<1>1. argv \in Seq(Letters) /\ N \in Nat /\ DOMAIN argv = 1 .. N
  OBVIOUS
<1>2. \A n \in 1 .. N : argv[n] \in Letters
  BY <1>1
<1>3. JoinedOf \in [Letters \X Letters -> Letters]
  BY JoinedType DEF JoinedOf
<1>4. \A p \in Letters, c \in Letters : JoinedOf[<<p, c>>] = Joined(p, c)
  BY DEF JoinedOf
<1>5. PICK e \in [SUBSET (1 .. N) -> Letters] : FoldedBy(e, N, <<>>, argv, JoinedOf)
  BY <1>1, <1>3, NoLetters, FoldExists
<1>. HIDE DEF N
<1>6. Defined(e)
  <2>1. ASSUME NEW s \in SUBSET (1 .. N), s # {}
        PROVE  e[s] = Joined(e[s \ {Max(s)}], argv[Max(s)])
    <3>1. Max(s) \in s
      BY <1>1, <2>1, MaxOf
    <3>2. s \ {Max(s)} \in SUBSET (1 .. N) /\ Max(s) \in 1 .. N
      BY <3>1
    <3>3. e[s \ {Max(s)}] \in Letters /\ argv[Max(s)] \in Letters
      BY <1>2, <1>5, <3>2
    <3>. QED  BY <1>4, <1>5, <2>1, <3>3 DEF FoldedBy
  <2>2. \A s \in SUBSET (1 .. N) :
           e[s] = IF s = {} THEN <<>> ELSE Joined(e[s \ {Max(s)}], argv[Max(s)])
    BY <1>5, <2>1 DEF FoldedBy
  <2>. QED  BY <1>1, <1>5, <2>2
<1>7. Defined(iter)
  BY <1>6
<1>. HIDE DEF iter
<1>8. f[0] = <<>>
  <2>1. 1 .. 0 = {} /\ 0 \in 0 .. N
    BY <1>1
  <2>. QED  BY <1>7, <2>1
<1>9. ASSUME NEW n \in 1 .. N PROVE f[n] = Joined(f[n - 1], argv[n])
  <2>1. n \in 0 .. N /\ n - 1 \in 0 .. N /\ 1 .. n \in SUBSET (1 .. N) /\ n \in Nat /\ n >= 1
    BY <1>1
  <2>2. iter[1 .. n] = Joined(iter[1 .. n - 1], argv[n])
    <3>1. Max(1 .. n) = n /\ (1 .. n) \ {n} = 1 .. n - 1 /\ 1 .. n # {}
      BY <2>1, PrefixMax
    <3>. QED  BY <1>1, <1>7, <2>1, <3>1
  <2>. QED  BY <2>1, <2>2
<1>10. \A n \in 0 .. N : f[n] \in Letters
  <2>. HIDE DEF f
  <2>1. f[0] \in Letters /\ \A n \in 1 .. N : f[n - 1] \in Letters => f[n] \in Letters
    BY <1>2, <1>8, <1>9, NoLetters, JoinedType
  <2>. QED  BY <1>1, <2>1, Stays
<1>11. Turns(f, Letters, <<>>, argv, JoinedOf)
  <2>1. ASSUME NEW n \in 1 .. N PROVE f[n] = JoinedOf[<<f[n - 1], argv[n]>>]
    <3>. HIDE DEF f
    <3>1. n - 1 \in 0 .. N
      BY <1>1
    <3>. QED  BY <1>2, <1>4, <1>9, <1>10, <3>1
  <2>2. f \in [0 .. N -> Letters]
    BY <1>10
  <2>. HIDE DEF f
  <2>. QED  BY <1>8, <2>1, <2>2 DEF Turns, N
<1>12. encode_command_line(argv) = f[N]
  <2>1. encode_command_line(argv) = iter[DOMAIN argv]
    BY DEF encode_command_line, Joined, FoldLeft, MapThenFoldSet, iter
  <2>2. N \in 0 .. N
    BY <1>1
  <2>. QED  BY <1>1, <2>1, <2>2
<1>. QED  BY <1>11, <1>12 DEF N

LEMMA EncodeMore ==
    ASSUME NEW argv \in Seq(Letters), NEW arg \in Letters
    PROVE  /\ Append(argv, arg) \in Seq(Letters)
           /\ encode_command_line(argv) \in Letters
           /\ encode_command_line(Append(argv, arg)) = Joined(encode_command_line(argv), arg)
<1>. DEFINE more == Append(argv, arg)
<1>1. more \in Seq(Letters) /\ Longer(more, argv) /\ more[Len(more)] = arg
  BY AppendLonger
<1>. HIDE DEF more
<1>2. PICK f : Turns(f, Letters, <<>>, argv, JoinedOf) /\ encode_command_line(argv) = f[Len(argv)]
  BY EncodeTurns
<1>3. PICK h : Turns(h, Letters, <<>>, more, JoinedOf) /\ encode_command_line(more) = h[Len(more)]
  BY <1>1, EncodeTurns
<1>4. f[Len(argv)] \in Letters /\ OneMore(f, h, argv, more, JoinedOf)
  BY ONLY <1>1, <1>2, <1>3, TurnMore
<1>5. encode_command_line(argv) \in Letters /\ encode_command_line(more) = JoinedOf[<<encode_command_line(argv), arg>>]
  BY ONLY <1>1, <1>2, <1>3, <1>4 DEF OneMore
<1>. QED  BY <1>1, <1>5 DEF JoinedOf, more

\* What the folds begin with.
LEMMA Beginnings ==
    /\ Parsed(<<>>) = Start /\ encode_command_line(<<>>) = <<>>
    /\ \A base \in Holdings : Quoting(base, <<>>) = base
<1>1. <<>> \in Letters /\ <<>> \in Seq(Letters) /\ Len(<<>>) = 0
  BY DEF Letters
<1>2. Parsed(<<>>) = Start
  <2>1. PICK f : Turns(f, States, Start, <<>>, TakeOf) /\ Parsed(<<>>) = f[Len(<<>>)]
    BY <1>1, ParsedTurns
  <2>. QED  BY <1>1, <2>1 DEF Turns
<1>3. encode_command_line(<<>>) = <<>>
  <2>1. PICK f : /\ Turns(f, Letters, <<>>, <<>>, JoinedOf)
                 /\ encode_command_line(<<>>) = f[Len(<<>>)]
    BY <1>1, EncodeTurns
  <2>. QED  BY <1>1, <2>1 DEF Turns
<1>4. ASSUME NEW base \in Holdings PROVE Quoting(base, <<>>) = base
  <2>1. PICK f : /\ Turns(f, Holdings, base, <<>>, AppendOf)
                 /\ Quoting(base, <<>>) = f[Len(<<>>)]
    BY <1>1, QuotingTurns
  <2>. QED  BY <1>1, <2>1 DEF Turns
<1>. QED  BY <1>2, <1>3, <1>4

-----------------------------------------------------------------------------
(* Letters and backslashes                                                 *)

LEMMA Constants == {"\\", "q", " ", "x"} = Characters /\ <<>> \in Letters
  BY DEF Characters, Letters

LEMMA JoinNone ==
    ASSUME NEW u \in Letters
    PROVE  u \o <<>> = u /\ <<>> \o u = u /\ u \o Backslashes(0) = u
<1>1. Backslashes(0) = <<>>
  BY DEF Backslashes
<1>. QED  BY <1>1 DEF Letters

LEMMA JoinAppend ==
    ASSUME NEW u \in Letters, NEW v \in Letters, NEW c \in Characters
    PROVE  u \o Append(v, c) = Append(u \o v, c) /\ u \o <<c>> = Append(u, c)
  BY DEF Letters

LEMMA JoinThree ==
    ASSUME NEW u \in Letters, NEW v \in Letters, NEW w \in Letters
    PROVE  (u \o v) \o w = u \o (v \o w)
  BY DEF Letters

LEMMA BackslashMore ==
    ASSUME NEW n \in Nat
    PROVE  Backslashes(n + 1) = Append(Backslashes(n), "\\")
<1>1. /\ Backslashes(n + 1) \in Seq(Characters) /\ Len(Backslashes(n + 1)) = n + 1
      /\ Backslashes(n) \in Seq(Characters) /\ Len(Backslashes(n)) = n
  BY BackslashesType DEF Letters
<1>2. \A i \in 1 .. n + 1 : Backslashes(n + 1)[i] = "\\"
  BY DEF Backslashes
<1>3. \A i \in 1 .. n + 1 : Append(Backslashes(n), "\\")[i] = "\\"
  <2>1. \A i \in 1 .. n : Backslashes(n)[i] = "\\"
    BY DEF Backslashes
  <2>. HIDE DEF Backslashes
  <2>. QED  BY <1>1, <2>1
<1>4. /\ Append(Backslashes(n), "\\") \in Seq(Characters)
      /\ Len(Append(Backslashes(n), "\\")) = n + 1
  <2>1. "\\" \in Characters
    BY Constants
  <2>. QED  BY ONLY <1>1, <2>1, AppendLonger DEF Longer
<1>. QED  BY <1>1, <1>2, <1>3, <1>4

\* A backslash more at the end of a word.
LEMMA JoinBackslash ==
    ASSUME NEW w \in Letters, NEW n \in Nat
    PROVE  w \o Backslashes(n + 1) = Append(w \o Backslashes(n), "\\")
<1>. DEFINE b == Backslashes(n)
<1>1. "\\" \in Characters /\ b \in Letters
  BY Constants, BackslashesType
<1>2. Backslashes(n + 1) = Append(b, "\\")
  BY BackslashMore
<1>. HIDE DEF b
<1>3. w \o Append(b, "\\") = Append(w \o b, "\\")
  BY ONLY <1>1, w \in Letters, JoinAppend
<1>. QED  BY <1>2, <1>3 DEF b

\* After the program, backslashes are counted.
LEMMA EscapeRun ==
    ASSUME NEW line \in Letters, Parsed(line).args # <<>>, NEW n \in Nat
    PROVE  /\ line \o Backslashes(n) \in Letters
           /\ Parsed(line \o Backslashes(n)) = [Parsed(line) EXCEPT !.backslashes = @ + n]
<1>. DEFINE p == Parsed(line)
            S == {k \in Nat : /\ line \o Backslashes(k) \in Letters
                              /\ Parsed(line \o Backslashes(k)) = [p EXCEPT !.backslashes = @ + k]}
<1>1. "\\" \in Characters /\ "q" \in Characters
  BY Constants
<1>2. p \in States
  BY <1>1, ParsedMore
<1>. HIDE DEF p
<1>3. 0 \in S
  <2>1. line \o Backslashes(0) = line
    BY JoinNone
  <2>2. p = [p EXCEPT !.backslashes = @ + 0]
    BY <1>2 DEF States
  <2>. QED  BY <2>1, <2>2 DEF p
<1>4. ASSUME NEW k \in Nat, k \in S PROVE k + 1 \in S
  <2>. DEFINE more == line \o Backslashes(k)
              r == [p EXCEPT !.backslashes = @ + k]
  <2>1. more \in Letters /\ Parsed(more) = r
    BY <1>4
  <2>2. line \o Backslashes(k + 1) = Append(more, "\\")
    BY JoinBackslash
  <2>. HIDE DEF more
  <2>3. /\ Append(more, "\\") \in Letters
        /\ Parsed(Append(more, "\\")) = Take(r, "\\")
    BY <1>1, <2>1, ParsedMore
  <2>4. Take(r, "\\") = [p EXCEPT !.backslashes = @ + (k + 1)]
    <3>1. r.args # <<>> /\ p.backslashes \in Nat
      BY <1>2 DEF States, p
    <3>2. Take(r, "\\") = [r EXCEPT !.backslashes = @ + 1]
      <4>. HIDE DEF r
      <4>. QED  BY <3>1 DEF Take
    <3>3. (p.backslashes + k) + 1 = p.backslashes + (k + 1)
      BY <3>1
    <3>. QED  BY <1>2, <3>2, <3>3 DEF States
  <2>5. /\ line \o Backslashes(k + 1) \in Letters
        /\ Parsed(line \o Backslashes(k + 1)) = [p EXCEPT !.backslashes = @ + (k + 1)]
    BY ONLY <2>2, <2>3, <2>4
  <2>. QED  BY <2>5
<1>5. Nat \subseteq S
  <2>. HIDE DEF S
  <2>. QED  BY <1>3, <1>4, Induction
<1>. QED  BY <1>5 DEF p

-----------------------------------------------------------------------------
(* The steps of the program's side                                         *)

\* Between words.
Fresh(p, args) ==
    p \in States /\ p.args = args /\ p.word = <<>> /\ ~p.in /\ ~p.quoted /\ ~p.closed
        /\ p.backslashes = 0

\* Within quotes: w is the word so far, and n backslashes are counted.
Inside(p, args, w, n) ==
    p \in States /\ p.args = args /\ p.word = w /\ p.in /\ p.quoted /\ ~p.closed
        /\ p.backslashes = n

\* In a word a, outside quotes.
Outside(p, args, a) ==
    p \in States /\ p.args = args /\ ~p.quoted /\ (p.in \/ p.backslashes # 0)
        /\ p.word \o Backslashes(p.backslashes) = a

\* s is p with n backslashes and then t said.
Said(s, p, n, t) ==
    /\ s \in States /\ s.args = p.args /\ s.quoted = p.quoted
    /\ s.word = (p.word \o Backslashes(n)) \o t
    /\ s.in /\ ~s.closed /\ s.backslashes = 0

LEMMA SayIs ==
    ASSUME NEW p \in States, NEW t \in Letters
    PROVE  Said(Say(p, t), p, p.backslashes, t)
<1>1. (p.word \o Backslashes(p.backslashes)) \o t \in Letters
  BY BackslashesType, JoinType DEF States
<1>. QED  BY <1>1 DEF Say, Said, States

LEMMA HalfIs ==
    ASSUME NEW p \in States
    PROVE  LET h == Half(p)
           IN  /\ h \in States /\ h.args = p.args /\ h.quoted = p.quoted /\ h.word = p.word
               /\ h.in = p.in /\ h.closed = p.closed
               /\ h.backslashes = p.backslashes \div 2
  BY DEF Half, States

LEMMA SayHalf ==
    ASSUME NEW p \in States, NEW t \in Letters
    PROVE  Said(Say(Half(p), t), p, p.backslashes \div 2, t)
<1>. DEFINE h == Half(p)
<1>1. /\ h \in States /\ h.args = p.args /\ h.quoted = p.quoted /\ h.word = p.word
      /\ h.backslashes = p.backslashes \div 2
  BY HalfIs
<1>. HIDE DEF h
<1>2. Said(Say(h, t), h, h.backslashes, t)
  BY <1>1, SayIs
<1>. QED  BY <1>1, <1>2 DEF Said, h

LEMMA QuoteOpening ==
    ASSUME NEW p, NEW args, Fresh(p, args)
    PROVE  Inside(Take(p, "q"), args, <<>>, 0)
<1>1. Take(p, "q") = Quote(p)
  BY DEF Take
<1>2. p \in States /\ <<>> \in Letters
  BY Constants DEF Fresh
<1>3. CASE args = <<>>
  <2>1. Quote(p) = [p EXCEPT !.quoted = ~p.quoted, !.in = TRUE]
    BY <1>3 DEF Quote, Fresh
  <2>. QED  BY <1>1, <1>2, <2>1 DEF Fresh, Inside, States
<1>4. CASE args # <<>>
  <2>. DEFINE s == Say(Half(p), <<>>)
  <2>1. /\ s \in States /\ s.args = args /\ s.in /\ s.backslashes = 0
        /\ s.word = (<<>> \o Backslashes(0)) \o <<>>
    <3>1. Said(s, p, p.backslashes \div 2, <<>>)
      BY <1>2, SayHalf
    <3>2. p.backslashes \div 2 = 0 /\ p.word = <<>> /\ p.args = args
      BY DEF Fresh
    <3>. HIDE DEF s
    <3>. QED  BY <3>1, <3>2 DEF Said
  <2>2. (<<>> \o Backslashes(0)) \o <<>> = <<>>
    BY <1>2, JoinNone
  <2>3. Quote(p) = [s EXCEPT !.quoted = ~p.quoted, !.closed = p.quoted]
    BY <1>4 DEF Quote, Fresh
  <2>. HIDE DEF s
  <2>. QED  BY <1>1, <2>1, <2>2, <2>3 DEF Fresh, Inside, States
<1>. QED  BY <1>3, <1>4

LEMMA QuoteEscaped ==
    ASSUME NEW p, NEW args, args # <<>>, NEW w \in Letters, NEW n \in Nat, n % 2 = 1,
           Inside(p, args, w, n)
    PROVE  Inside(Take(p, "q"), args, (w \o Backslashes(n \div 2)) \o <<"q">>, 0)
<1>1. Take(p, "q") = Say(Half(p), <<"q">>)
  BY DEF Take, Quote, Inside
<1>2. p \in States /\ <<"q">> \in Letters
  BY Constants, Letter DEF Inside
<1>3. Said(Take(p, "q"), p, p.backslashes \div 2, <<"q">>)
  BY <1>1, <1>2, SayHalf
<1>4. p.backslashes = n /\ p.word = w /\ p.args = args /\ p.quoted
  BY DEF Inside
<1>. QED  BY <1>3, <1>4 DEF Inside, Said

LEMMA QuoteClosing ==
    ASSUME NEW p, NEW args, NEW w \in Letters, NEW n \in Nat, n % 2 # 1,
           args = <<>> => n = 0, Inside(p, args, w, n)
    PROVE  Outside(Take(p, "q"), args, w \o Backslashes(n \div 2))
<1>1. Take(p, "q") = Quote(p)
  BY DEF Take
<1>2. p \in States /\ <<>> \in Letters
  BY Constants DEF Inside
<1>3. CASE args = <<>>
  <2>1. Quote(p) = [p EXCEPT !.quoted = ~p.quoted, !.in = TRUE]
    BY <1>3 DEF Quote, Inside
  <2>2. /\ Quote(p) \in States /\ Quote(p).args = args /\ ~Quote(p).quoted /\ Quote(p).in
        /\ Quote(p).word = w /\ Quote(p).backslashes = n
    BY <1>2, <2>1 DEF Inside, States
  <2>3. n \div 2 = n
    BY <1>3
  <2>. QED  BY <1>1, <2>2, <2>3 DEF Outside
<1>4. CASE args # <<>>
  <2>. DEFINE s == Say(Half(p), <<>>)
              a == w \o Backslashes(n \div 2)
  <2>1. /\ s \in States /\ s.args = args /\ s.in /\ s.backslashes = 0 /\ s.word = a \o <<>>
    <3>1. Said(s, p, p.backslashes \div 2, <<>>)
      BY <1>2, SayHalf
    <3>2. p.backslashes = n /\ p.word = w /\ p.args = args
      BY DEF Inside
    <3>. HIDE DEF s
    <3>. QED  BY <3>1, <3>2 DEF Said
  <2>2. a \in Letters /\ a \o <<>> = a /\ a \o Backslashes(0) = a
    <3>1. n \div 2 \in Nat
      OBVIOUS
    <3>2. a \in Letters
      BY <3>1, BackslashesType, JoinType
    <3>. QED  BY <3>2, JoinNone
  <2>3. Quote(p) = [s EXCEPT !.quoted = ~p.quoted, !.closed = p.quoted]
    BY <1>4 DEF Quote, Inside
  <2>. HIDE DEF s, a
  <2>4. /\ Quote(p) \in States /\ Quote(p).args = args /\ ~Quote(p).quoted /\ Quote(p).in
        /\ Quote(p).word = a /\ Quote(p).backslashes = 0
    BY <1>2, <2>1, <2>2, <2>3 DEF Inside, States
  <2>. QED  BY <1>1, <2>2, <2>4 DEF Outside, a
<1>. QED  BY <1>3, <1>4

LEMMA LetterInside ==
    ASSUME NEW p, NEW args, NEW w \in Letters, NEW n \in Nat, Inside(p, args, w, n),
           NEW c \in Characters, c # "q", args # <<>> => c # "\\"
    PROVE  Inside(Take(p, c), args, (w \o Backslashes(n)) \o <<c>>, 0)
<1>1. Take(p, c) = Say(p, <<c>>)
  BY DEF Take, Inside
<1>2. p \in States /\ <<c>> \in Letters
  BY Letter DEF Inside
<1>3. Said(Take(p, c), p, p.backslashes, <<c>>)
  BY <1>1, <1>2, SayIs
<1>4. p.backslashes = n /\ p.word = w /\ p.args = args /\ p.quoted
  BY DEF Inside
<1>. QED  BY <1>3, <1>4 DEF Inside, Said

\* In the program's name, a backslash is a letter.
LEMMA PlainRun ==
    ASSUME NEW line \in Letters, NEW w \in Letters, Inside(Parsed(line), <<>>, w, 0), NEW n \in Nat
    PROVE  /\ line \o Backslashes(n) \in Letters
           /\ w \o Backslashes(n) \in Letters
           /\ Inside(Parsed(line \o Backslashes(n)), <<>>, w \o Backslashes(n), 0)
<1>. DEFINE AsRead(l, v) == l \in Letters /\ v \in Letters /\ Inside(Parsed(l), <<>>, v, 0)
            S == {k \in Nat : AsRead(line \o Backslashes(k), w \o Backslashes(k))}
<1>1. "\\" \in Characters /\ <<"\\">> \in Letters
  BY Constants, Letter
<1>2. 0 \in S
  BY JoinNone
<1>3. ASSUME NEW k \in Nat, k \in S PROVE k + 1 \in S
  <2>. DEFINE more == line \o Backslashes(k)
              v == w \o Backslashes(k)
  <2>1. more \in Letters /\ v \in Letters /\ Inside(Parsed(more), <<>>, v, 0)
    BY <1>3
  <2>2. line \o Backslashes(k + 1) = Append(more, "\\") /\ w \o Backslashes(k + 1) = Append(v, "\\")
    BY JoinBackslash
  <2>. HIDE DEF more, v
  <2>3. /\ Append(more, "\\") \in Letters /\ Append(v, "\\") \in Letters
        /\ Parsed(Append(more, "\\")) = Take(Parsed(more), "\\")
    BY <1>1, <2>1, ParsedMore
  <2>4. (v \o Backslashes(0)) \o <<"\\">> = Append(v, "\\")
    BY <1>1, <2>1, JoinNone, JoinAppend
  <2>5. Inside(Take(Parsed(more), "\\"), <<>>, (v \o Backslashes(0)) \o <<"\\">>, 0)
    BY <1>1, <2>1, LetterInside
  <2>6. AsRead(Append(more, "\\"), Append(v, "\\"))
    BY ONLY <2>3, <2>4, <2>5
  <2>7. AsRead(line \o Backslashes(k + 1), w \o Backslashes(k + 1))
    BY ONLY <2>2, <2>6
  <2>. QED  BY <2>7
<1>4. Nat \subseteq S
  <2>. HIDE DEF S
  <2>. QED  BY <1>2, <1>3, Induction
<1>. QED  BY <1>4

-----------------------------------------------------------------------------
(* An argument within quotes                                               *)

\* What append_quoted has written of an argument, and what it holds back, is read as
\* the letters of a so far.
Standing(s, args, a) ==
    /\ s \in Holdings
    /\ \E w \in Letters : /\ Inside(Parsed(s.line), args, w, 0)
                          /\ w \o Backslashes(s.backslashes) = a

Opened(line) == [line |-> line \o <<"q">>, backslashes |-> 0]

LEMMA QuoteOpens ==
    ASSUME NEW line \in Letters, NEW args, Fresh(Parsed(line), args)
    PROVE  Standing(Opened(line), args, <<>>)
<1>1. "q" \in Characters /\ <<>> \in Letters
  BY Constants
<1>2. line \o <<"q">> = Append(line, "q") /\ <<>> \o Backslashes(0) = <<>>
  BY <1>1, JoinAppend, JoinNone
<1>3. Inside(Parsed(Append(line, "q")), args, <<>>, 0)
  BY <1>1, ParsedMore, QuoteOpening
<1>4. Opened(line) \in Holdings
  BY OpenType DEF Opened
<1>5. Opened(line).line = Append(line, "q") /\ Opened(line).backslashes = 0
  BY <1>2 DEF Opened
<1>. QED  BY <1>1, <1>2, <1>3, <1>4, <1>5 DEF Standing

\* The backslashes of an argument, counted.
LEMMA CountInside ==
    ASSUME NEW line \in Letters, NEW args, args # <<>>, NEW w \in Letters,
           Inside(Parsed(line), args, w, 0), NEW n \in Nat
    PROVE  line \o Backslashes(n) \in Letters /\ Inside(Parsed(line \o Backslashes(n)), args, w, n)
<1>. DEFINE p == Parsed(line)
            r == Parsed(line \o Backslashes(n))
<1>1. p \in States /\ p.args # <<>>
  BY DEF Inside
<1>2. line \o Backslashes(n) \in Letters /\ r = [p EXCEPT !.backslashes = @ + n]
  BY <1>1, EscapeRun
<1>. HIDE DEF p, r
<1>3. p.backslashes = 0 /\ 0 + n = n
  BY DEF Inside, p
<1>4. Inside(r, args, w, n)
  BY <1>1, <1>2, <1>3 DEF Inside, States, p
<1>. QED  BY <1>2, <1>4 DEF r

\* A turn of append_quoted's loop.
LEMMA StandingMore ==
    ASSUME NEW args, NEW s, NEW a \in Letters, Standing(s, args, a),
           NEW c \in Characters, args = <<>> => c # "q"
    PROVE  Standing(append_char(s, c), args, Append(a, c))
<1>. DEFINE l == s.line
            b == s.backslashes
            t == append_char(s, c)
            Ready(line, v, n) ==
                /\ t.line = line \o <<c>> /\ t.backslashes = 0
                /\ Inside(Take(Parsed(line), c), args, (v \o Backslashes(n)) \o <<c>>, 0)
                /\ v \o Backslashes(n) = a
<1>. SUFFICES Standing(t, args, Append(a, c))
  OBVIOUS
<1>1. l \in Letters /\ b \in Nat
  BY DEF Standing, Holdings
<1>2. PICK w \in Letters : Inside(Parsed(l), args, w, 0) /\ w \o Backslashes(b) = a
  BY DEF Standing
<1>3. t \in Holdings
  BY AppendType DEF Standing
<1>4. Append(a, c) \in Letters /\ Append(a, c) \o Backslashes(0) = Append(a, c)
  BY ParsedMore, JoinNone
<1>5. ASSUME NEW line \in Letters, NEW v \in Letters, NEW n \in Nat, Ready(line, v, n)
      PROVE  Standing(t, args, Append(a, c))
  <2>1. Parsed(t.line) = Take(Parsed(line), c)
    <3>1. line \o <<c>> = Append(line, c)
      BY JoinAppend
    <3>. QED  BY <1>5, <3>1, ParsedMore
  <2>2. (v \o Backslashes(n)) \o <<c>> = Append(a, c)
    BY <1>5, JoinAppend
  <2>3. Inside(Parsed(t.line), args, Append(a, c), 0)
    BY <1>5, <2>1, <2>2
  <2>. HIDE DEF t
  <2>. QED  BY <1>3, <1>4, <1>5, <2>3 DEF Standing
<1>6. CASE c = "\\"
  <2>1. t.line = l /\ t.backslashes = b + 1
    BY <1>6 DEF append_char, Standing, Holdings
  <2>2. w \o Backslashes(b + 1) = Append(a, c)
    BY <1>1, <1>2, <1>6, JoinBackslash
  <2>. HIDE DEF t, l, b
  <2>3. Inside(Parsed(t.line), args, w, 0) /\ w \o Backslashes(t.backslashes) = Append(a, c)
    BY <1>2, <2>1, <2>2
  <2>. QED  BY <1>3, <2>3 DEF Standing
<1>7. CASE c = "q"
  <2>. DEFINE n == 2 * b + 1
              more == l \o Backslashes(n)
  <2>1. n \in Nat /\ n % 2 = 1 /\ n \div 2 = b
    BY <1>1
  <2>2. t.line = more \o <<c>> /\ t.backslashes = 0
    BY <1>7 DEF append_char
  <2>. HIDE DEF n, t, l, b
  <2>3. more \in Letters /\ Inside(Parsed(more), args, w, n)
    BY <1>1, <1>2, <1>7, <2>1, CountInside
  <2>. HIDE DEF more
  <2>4. Inside(Take(Parsed(more), c), args, (w \o Backslashes(b)) \o <<c>>, 0)
    BY <1>7, <2>1, <2>3, QuoteEscaped
  <2>5. Ready(more, w, b)
    BY <1>1, <1>2, <2>2, <2>4
  <2>. HIDE DEF Ready
  <2>. QED  BY <1>1, <1>5, <2>3, <2>5
<1>8. CASE c \notin {"\\", "q"}
  <2>. DEFINE more == l \o Backslashes(b)
  <2>1. t.line = more \o <<c>> /\ t.backslashes = 0
    BY <1>8 DEF append_char
  <2>. HIDE DEF t, l, b
  <2>2. CASE args # <<>>
    <3>1. more \in Letters /\ Inside(Parsed(more), args, w, b)
      BY <1>1, <1>2, <2>2, CountInside
    <3>. HIDE DEF more
    <3>2. Inside(Take(Parsed(more), c), args, (w \o Backslashes(b)) \o <<c>>, 0)
      BY <1>1, <1>8, <3>1, LetterInside
    <3>3. Ready(more, w, b)
      BY <1>1, <1>2, <2>1, <3>2
    <3>. HIDE DEF Ready
    <3>. QED  BY <1>1, <1>5, <3>1, <3>3
  <2>3. CASE args = <<>>
    <3>1. more \in Letters /\ Inside(Parsed(more), args, a, 0)
      BY <1>1, <1>2, <2>3, PlainRun
    <3>. HIDE DEF more
    <3>2. Inside(Take(Parsed(more), c), args, (a \o Backslashes(0)) \o <<c>>, 0)
      BY <1>8, <3>1, LetterInside
    <3>3. a \o Backslashes(0) = a
      BY JoinNone
    <3>4. Ready(more, a, 0)
      BY <2>1, <3>2, <3>3
    <3>. HIDE DEF Ready
    <3>. QED  BY <1>5, <3>1, <3>4
  <2>. QED  BY <2>2, <2>3
<1>. QED  BY <1>6, <1>7, <1>8

LEMMA SetMore ==
    ASSUME NEW a \in Letters, NEW c \in Characters
    PROVE  ToSet(a) \subseteq ToSet(Append(a, c)) /\ c \in ToSet(Append(a, c))
<1>1. /\ Len(a) \in Nat /\ DOMAIN a = 1 .. Len(a) /\ DOMAIN Append(a, c) = 1 .. Len(a) + 1
      /\ Append(a, c)[Len(a) + 1] = c /\ \A i \in 1 .. Len(a) : Append(a, c)[i] = a[i]
  BY DEF Letters
<1>2. Len(a) + 1 \in 1 .. Len(a) + 1 /\ \A i \in 1 .. Len(a) : i \in 1 .. Len(a) + 1
  BY <1>1
<1>. QED  BY <1>1, <1>2 DEF ToSet

LEMMA StandingAll ==
    ASSUME NEW args, NEW base, Standing(base, args, <<>>),
           NEW arg \in Letters, args = <<>> => "q" \notin ToSet(arg)
    PROVE  Standing(Quoting(base, arg), args, arg)
<1>. DEFINE Reads(a) == (args = <<>> => "q" \notin ToSet(a)) => Standing(Quoting(base, a), args, a)
            S == {a \in Letters : Reads(a)}
<1>1. base \in Holdings
  BY DEF Standing
<1>2. <<>> \in S
  BY <1>1, Constants, Beginnings
<1>3. ASSUME NEW a \in Letters, NEW c \in Characters, a \in S PROVE Append(a, c) \in S
  <2>1. Append(a, c) \in Letters /\ Quoting(base, Append(a, c)) = append_char(Quoting(base, a), c)
    BY <1>1, ParsedMore, QuotingMore
  <2>2. Reads(Append(a, c))
    <3>. SUFFICES ASSUME args = <<>> => "q" \notin ToSet(Append(a, c))
                  PROVE  Standing(Quoting(base, Append(a, c)), args, Append(a, c))
      OBVIOUS
    <3>1. Standing(Quoting(base, a), args, a) /\ (args = <<>> => c # "q")
      BY <1>3, SetMore
    <3>. QED  BY <2>1, <3>1, StandingMore
  <2>. HIDE DEF Reads
  <2>. QED  BY <2>1, <2>2
<1>4. Seq(Characters) \subseteq S
  <2>. HIDE DEF S
  <2>. QED  BY <1>2, <1>3, Appending DEF Letters
<1>. QED  BY <1>4 DEF Letters

LEMMA AppendSome ==
    ASSUME NEW u \in Letters, NEW c \in Characters
    PROVE  Append(u, c) # <<>>
  BY AppendProperties DEF Letters

\* After the closing quote the word is the argument.
LEMMA QuoteCloses ==
    ASSUME NEW args, NEW s, NEW a \in Letters, Standing(s, args, a),
           args = <<>> => s.backslashes = 0
    PROVE  LET l == (s.line \o Backslashes(2 * s.backslashes)) \o <<"q">>
           IN  l \in Letters \ {<<>>} /\ Outside(Parsed(l), args, a)
<1>. DEFINE b == s.backslashes
            n == 2 * b
            more == s.line \o Backslashes(n)
<1>1. s.line \in Letters /\ b \in Nat /\ n \in Nat /\ n % 2 # 1 /\ n \div 2 = b
  BY DEF Standing, Holdings
<1>2. PICK w \in Letters : Inside(Parsed(s.line), args, w, 0) /\ w \o Backslashes(b) = a
  BY DEF Standing
<1>3. args = <<>> => n = 0
  OBVIOUS
<1>. HIDE DEF n, b
<1>4. more \in Letters /\ Inside(Parsed(more), args, w, n)
  <2>1. CASE args # <<>>
    BY <1>1, <1>2, <2>1, CountInside
  <2>2. CASE args = <<>>
    <3>1. more = s.line
      BY <1>1, <1>3, <2>2, JoinNone
    <3>. QED  BY <1>1, <1>2, <1>3, <2>2, <3>1
  <2>. QED  BY <2>1, <2>2
<1>. HIDE DEF more
<1>5. "q" \in Characters
  BY Constants
<1>6. more \o <<"q">> = Append(more, "q") /\ Append(more, "q") \in Letters
  BY <1>4, <1>5, JoinAppend, ParsedMore
<1>7. Append(more, "q") # <<>>
  BY <1>4, <1>5, AppendSome
<1>8. Outside(Parsed(Append(more, "q")), args, a)
  <2>1. Parsed(Append(more, "q")) = Take(Parsed(more), "q")
    BY <1>4, <1>5, ParsedMore
  <2>2. Outside(Take(Parsed(more), "q"), args, w \o Backslashes(n \div 2))
    BY <1>1, <1>3, <1>4, QuoteClosing
  <2>. QED  BY <1>1, <1>2, <2>1, <2>2
<1>. QED  BY <1>6, <1>7, <1>8 DEF more, n, b

-----------------------------------------------------------------------------
(* An argument without quotes                                              *)

\* a has been read, of a word in which a backslash may be the last.
Bare(p, args, a) ==
    /\ p \in States /\ p.args = args /\ ~p.quoted
    /\ args = <<>> => p.backslashes = 0
    /\ a # <<>> => p.in \/ p.backslashes # 0
    /\ p.word \o Backslashes(p.backslashes) = a

LEMMA CountIs ==
    ASSUME NEW p \in States, NEW n \in Nat
    PROVE  LET r == [p EXCEPT !.backslashes = n]
           IN  /\ r \in States /\ r.args = p.args /\ r.quoted = p.quoted /\ r.word = p.word
               /\ r.backslashes = n
  BY DEF States

LEMMA BareMore ==
    ASSUME NEW p, NEW args, NEW a \in Letters, Bare(p, args, a),
           NEW c \in Characters, c \notin {"q", " "}
    PROVE  Bare(Take(p, c), args, Append(a, c))
<1>1. p \in States /\ p.args = args /\ ~p.quoted /\ p.backslashes \in Nat /\ p.word \in Letters
  BY DEF Bare, States
<1>2. p.word \o Backslashes(p.backslashes) = a /\ a \o <<c>> = Append(a, c)
  BY JoinAppend DEF Bare
<1>3. CASE c = "\\" /\ args # <<>>
  <2>. DEFINE r == Take(p, c)
              b == p.backslashes
  <2>1. r = [p EXCEPT !.backslashes = b + 1]
    BY <1>1, <1>3 DEF Take
  <2>2. b \in Nat /\ b + 1 \in Nat /\ b + 1 # 0
    <3>1. b \in Nat
      BY <1>1
    <3>. HIDE DEF b
    <3>. QED  BY ONLY <3>1
  <2>3. r \in States /\ r.args = args /\ ~r.quoted /\ r.backslashes = b + 1 /\ r.word = p.word
    <3>. HIDE DEF r, b
    <3>. QED  BY <1>1, <2>1, <2>2, CountIs
  <2>4. p.word \o Backslashes(b + 1) = Append(a, c)
    <3>1. p.word \o Backslashes(b) = a
      BY <1>2
    <3>. HIDE DEF b
    <3>. QED  BY <1>1, <1>3, <2>2, <3>1, JoinBackslash
  <2>. HIDE DEF b
  <2>. HIDE DEF r
  <2>5. Bare(r, args, Append(a, c))
    BY <1>3, <2>2, <2>3, <2>4 DEF Bare
  <2>. QED  BY <2>5 DEF r
<1>4. CASE ~(c = "\\" /\ args # <<>>)
  <2>. DEFINE r == Take(p, c)
  <2>1. <<c>> \in Letters
    BY Letter
  <2>2. Said(r, p, p.backslashes, <<c>>)
    <3>1. r = Say(p, <<c>>)
      BY <1>1, <1>4 DEF Take
    <3>. QED  BY <1>1, <2>1, <3>1, SayIs
  <2>. HIDE DEF r
  <2>3. r \in States /\ r.args = args /\ ~r.quoted /\ r.in /\ r.backslashes = 0
    BY <1>1, <2>2 DEF Said
  <2>4. r.word = Append(a, c)
    BY <1>2, <2>2 DEF Said
  <2>5. Append(a, c) \o Backslashes(0) = Append(a, c)
    BY ParsedMore, JoinNone
  <2>6. Bare(r, args, Append(a, c))
    BY <2>3, <2>4, <2>5 DEF Bare
  <2>. QED  BY <2>6 DEF r
<1>. QED  BY <1>3, <1>4

LEMMA BareAll ==
    ASSUME NEW line \in Letters, NEW args, Fresh(Parsed(line), args),
           NEW arg \in Letters, ToSet(arg) \cap {"q", " "} = {}
    PROVE  line \o arg \in Letters /\ Bare(Parsed(line \o arg), args, arg)
<1>. DEFINE Reads(a) ==
                /\ line \o a \in Letters
                /\ ToSet(a) \cap {"q", " "} = {} => Bare(Parsed(line \o a), args, a)
            S == {a \in Letters : Reads(a)}
<1>1. <<>> \in S
  <2>1. <<>> \in Letters /\ line \o <<>> = line /\ <<>> \o Backslashes(0) = <<>>
    BY Constants, JoinNone
  <2>2. Bare(Parsed(line), args, <<>>)
    BY <2>1 DEF Fresh, Bare
  <2>. QED  BY <2>1, <2>2
<1>2. ASSUME NEW a \in Letters, NEW c \in Characters, a \in S PROVE Append(a, c) \in S
  <2>. DEFINE l == line \o a
              b == Append(a, c)
  <2>1. l \in Letters /\ (ToSet(a) \cap {"q", " "} = {} => Bare(Parsed(l), args, a))
    BY <1>2
  <2>2. line \o b = Append(l, c) /\ b \in Letters
    <3>1. line \o Append(a, c) = Append(line \o a, c)
      BY ONLY line \in Letters, a \in Letters, c \in Characters, JoinAppend
    <3>2. Append(a, c) \in Letters
      BY ONLY a \in Letters, c \in Characters, ParsedMore
    <3>. QED  BY ONLY <3>1, <3>2 DEF l, b
  <2>3. ToSet(a) \subseteq ToSet(b) /\ c \in ToSet(b)
    BY SetMore
  <2>. HIDE DEF l, b
  <2>4. Append(l, c) \in Letters /\ Parsed(Append(l, c)) = Take(Parsed(l), c)
    BY <2>1, ParsedMore
  <2>5. ASSUME ToSet(b) \cap {"q", " "} = {} PROVE Bare(Parsed(Append(l, c)), args, b)
    <3>1. Bare(Parsed(l), args, a) /\ c \notin {"q", " "}
      BY <2>1, <2>3, <2>5
    <3>2. Bare(Take(Parsed(l), c), args, Append(a, c))
      BY <3>1, BareMore
    <3>. QED  BY <2>4, <3>2 DEF b
  <2>6. Reads(b)
    BY <2>2, <2>4, <2>5
  <2>. HIDE DEF Reads
  <2>7. b \in S
    BY <2>2, <2>6
  <2>. QED  BY <2>7 DEF b
<1>3. Seq(Characters) \subseteq S
  <2>. HIDE DEF S
  <2>. QED  BY <1>1, <1>2, Appending DEF Letters
<1>. QED  BY <1>3 DEF Letters

-----------------------------------------------------------------------------
(* The command line                                                        *)

\* The name of a program, which has no quote and is not a directory.
IsProgram(a) == a \in Letters /\ a # <<>> /\ "q" \notin ToSet(a) /\ a[Len(a)] # "\\"

LEMMA LastBackslash ==
    ASSUME NEW w \in Letters, NEW n \in Nat, NEW a, w \o Backslashes(n) = a, a[Len(a)] # "\\"
    PROVE  n = 0
<1>. SUFFICES ASSUME n # 0 PROVE a[Len(a)] = "\\"
  OBVIOUS
<1>1. n - 1 \in Nat /\ (n - 1) + 1 = n
  OBVIOUS
<1>. DEFINE u == w \o Backslashes(n - 1)
<1>2. u \in Seq(Characters)
  BY <1>1, BackslashesType, JoinType DEF Letters
<1>3. a = Append(u, "\\")
  <2>1. w \o Backslashes((n - 1) + 1) = Append(u, "\\")
    BY <1>1, JoinBackslash
  <2>. QED  BY <1>1, <2>1
<1>. HIDE DEF u
<1>4. "\\" \in Characters
  BY Constants
<1>5. Append(u, "\\")[Len(Append(u, "\\"))] = "\\"
  BY ONLY <1>2, <1>4, AppendLonger
<1>. QED  BY <1>3, <1>5

\* One argument, quoted or not, is read as itself.
LEMMA ArgumentRead ==
    ASSUME NEW line \in Letters, NEW args, Fresh(Parsed(line), args),
           NEW arg \in Letters, args = <<>> => IsProgram(arg)
    PROVE  LET l == append_quoted(line, arg)
           IN  l \in Letters \ {<<>>} /\ Outside(Parsed(l), args, arg)
<1>1. CASE arg # <<>> /\ ToSet(arg) \cap {"q", " "} = {}
  <2>. DEFINE l == line \o arg
  <2>1. append_quoted(line, arg) = l
    BY <1>1 DEF append_quoted
  <2>2. l # <<>>
    <3>1. line \in Seq(Characters) /\ arg \in Seq(Characters)
      BY DEF Letters
    <3>2. /\ Len(l) = Len(line) + Len(arg) /\ Len(line) \in Nat
          /\ Len(arg) \in Nat /\ Len(arg) # 0
      <4>1. arg # <<>>
        BY <1>1
      <4>. QED  BY ONLY <3>1, <4>1
    <3>3. Len(l) # 0 /\ Len(<<>>) = 0
      BY ONLY <3>2
    <3>. HIDE DEF l
    <3>. QED  BY <3>3
  <2>3. l \in Letters /\ Bare(Parsed(l), args, arg)
    BY <1>1, BareAll
  <2>. HIDE DEF l
  <2>4. Outside(Parsed(l), args, arg)
    BY <1>1, <2>3 DEF Bare, Outside
  <2>. QED  BY <2>1, <2>2, <2>3, <2>4
<1>2. CASE ~(arg # <<>> /\ ToSet(arg) \cap {"q", " "} = {})
  <2>. DEFINE s == Quoting(Opened(line), arg)
              l == (s.line \o Backslashes(2 * s.backslashes)) \o <<"q">>
  <2>1. append_quoted(line, arg) = l
    BY <1>2 DEF append_quoted, Quoting, Opened
  <2>. HIDE DEF s
  <2>2. Standing(s, args, arg)
    <3>1. Standing(Opened(line), args, <<>>)
      BY QuoteOpens
    <3>2. args = <<>> => "q" \notin ToSet(arg)
      BY DEF IsProgram
    <3>. QED  BY <3>1, <3>2, StandingAll DEF s
  <2>3. args = <<>> => s.backslashes = 0
    <3>1. PICK w \in Letters : w \o Backslashes(s.backslashes) = arg
      BY <2>2 DEF Standing
    <3>2. s.backslashes \in Nat
      BY <2>2 DEF Standing, Holdings
    <3>. QED  BY <3>1, <3>2, LastBackslash DEF IsProgram
  <2>4. l \in Letters \ {<<>>} /\ Outside(Parsed(l), args, arg)
    BY <2>2, <2>3, QuoteCloses
  <2>. QED  BY <2>1, <2>4
<1>. QED  BY <1>1, <1>2

LEMMA FreshStart == Fresh(Start, <<>>)
<1>1. /\ Start.word = <<>> /\ ~Start.in /\ ~Start.quoted /\ ~Start.closed
      /\ Start.backslashes = 0 /\ Start.args = <<>>
  BY DEF Start
<1>. QED  BY <1>1, StartType DEF Fresh

\* The end of a word.
LEMMA WordEnds ==
    ASSUME NEW p, NEW args \in Seq(Letters), NEW a \in Letters, Outside(p, args, a)
    PROVE  Fresh(EndWord(p), Append(args, a))
<1>1. EndWord(p) = [Start EXCEPT !.args = Append(args, a)]
  BY DEF EndWord, Outside
<1>2. Append(args, a) \in Seq(Letters)
  OBVIOUS
<1>. QED  BY <1>1, <1>2, FreshStart DEF Fresh, States

\* The line is read as the arguments, the last of which may go on.
Told(line, argv) ==
    /\ line \in Letters \ {<<>>} /\ ~Parsed(line).quoted
    /\ Fresh(EndWord(Parsed(line)), argv)

LEMMA ToldProgram ==
    ASSUME NEW a, IsProgram(a)
    PROVE  Told(encode_command_line(<<a>>), <<a>>)
<1>1. a \in Letters /\ <<>> \in Seq(Letters) /\ <<a>> = Append(<<>>, a) /\ <<>> \in Letters
  <2>1. a \in Letters /\ <<>> \in Letters
    BY Constants DEF IsProgram
  <2>2. <<a>> = Append(<<>>, a)
    OBVIOUS
  <2>. QED  BY <2>1, <2>2
<1>2. encode_command_line(Append(<<>>, a)) = Joined(<<>>, a)
  BY <1>1, EncodeMore, Beginnings
<1>3. Fresh(Parsed(<<>>), <<>>)
  <2>1. Parsed(<<>>) = Start
    BY Beginnings
  <2>. QED  BY <2>1, FreshStart
<1>. DEFINE l == append_quoted(<<>>, a)
<1>4. l \in Letters \ {<<>>} /\ Outside(Parsed(l), <<>>, a)
  BY <1>1, <1>3, ArgumentRead
<1>5. Joined(<<>>, a) = l
  BY DEF Joined
<1>. HIDE DEF l
<1>6. Fresh(EndWord(Parsed(l)), <<a>>) /\ ~Parsed(l).quoted
  BY <1>1, <1>4, WordEnds DEF Outside
<1>. QED  BY <1>1, <1>2, <1>4, <1>5, <1>6 DEF Told

LEMMA ToldMore ==
    ASSUME NEW argv \in Seq(Letters), argv # <<>>, NEW a \in Letters,
           Told(encode_command_line(argv), argv)
    PROVE  Told(encode_command_line(Append(argv, a)), Append(argv, a))
<1>. DEFINE before == encode_command_line(argv)
            line == Append(before, " ")
            l == append_quoted(line, a)
<1>1. before \in Letters /\ before # <<>> /\ " " \in Characters
  BY Constants DEF Told
<1>2. encode_command_line(Append(argv, a)) = l
  BY <1>1, EncodeMore DEF Joined
<1>3. line \in Letters /\ Fresh(Parsed(line), argv)
  <2>1. line \in Letters /\ Parsed(line) = Take(Parsed(before), " ")
    BY <1>1, ParsedMore
  <2>2. Take(Parsed(before), " ") = EndWord(Parsed(before))
    BY DEF Take, Told
  <2>. QED  BY <2>1, <2>2 DEF Told
<1>. HIDE DEF before, line
<1>4. l \in Letters \ {<<>>} /\ Outside(Parsed(l), argv, a)
  BY <1>3, ArgumentRead
<1>. HIDE DEF l
<1>5. Fresh(EndWord(Parsed(l)), Append(argv, a)) /\ ~Parsed(l).quoted
  BY <1>4, WordEnds DEF Outside
<1>. QED  BY <1>2, <1>4, <1>5 DEF Told

\* Whatever the arguments are, the launched program is given them as they were
\* (launch.rs, encode_command_line and append_quoted), and its name, if that is one.
THEOREM Given ==
    ASSUME NEW argv \in Seq(Seq(Characters)), argv # <<>>, IsProgram(argv[1])
    PROVE  ParseCommandLine(encode_command_line(argv)) = argv
<1>. DEFINE prog == argv[1]
            Reads(t) == /\ <<prog>> \o t \in Seq(Letters) \ {<<>>}
                        /\ Told(encode_command_line(<<prog>> \o t), <<prog>> \o t)
            S == {t \in Seq(Letters) : Reads(t)}
<1>1. prog \in Letters /\ argv \in Seq(Letters)
  BY DEF Letters
<1>. HIDE DEF prog
<1>2. <<>> \in S
  <2>1. <<prog>> \o <<>> = <<prog>> /\ <<prog>> \in Seq(Letters) /\ <<prog>> # <<>>
    BY <1>1
  <2>2. Told(encode_command_line(<<prog>>), <<prog>>)
    BY ToldProgram DEF prog
  <2>. QED  BY <2>1, <2>2
<1>3. ASSUME NEW t \in Seq(Letters), NEW a \in Letters, t \in S PROVE Append(t, a) \in S
  <2>. DEFINE v == <<prog>> \o t
  <2>1. v \in Seq(Letters) \ {<<>>} /\ Told(encode_command_line(v), v)
    BY <1>3
  <2>2. <<prog>> \o Append(t, a) = Append(v, a) /\ Append(t, a) \in Seq(Letters)
    <3>1. <<prog>> \in Seq(Letters) /\ Append(t, a) \in Seq(Letters)
      BY <1>1
    <3>2. t \o <<a>> = Append(t, a) /\ v \o <<a>> = Append(v, a) /\ <<a>> \in Seq(Letters)
      BY <1>1, <2>1, AppendIsConcat
    <3>3. (<<prog>> \o t) \o <<a>> = <<prog>> \o (t \o <<a>>)
      BY ONLY <3>1, <3>2, t \in Seq(Letters), ConcatAssociative
    <3>. QED  BY ONLY <3>1, <3>2, <3>3 DEF v
  <2>. HIDE DEF v
  <2>3. Append(v, a) \in Seq(Letters) \ {<<>>}
    BY <2>1, AppendProperties
  <2>4. Told(encode_command_line(Append(v, a)), Append(v, a))
    BY <2>1, ToldMore
  <2>5. Reads(Append(t, a))
    BY ONLY <2>2, <2>3, <2>4
  <2>. HIDE DEF Reads
  <2>. QED  BY <2>2, <2>5
<1>4. Seq(Letters) \subseteq S
  <2>. HIDE DEF S
  <2>. QED  BY <1>2, <1>3, Appending
<1>5. argv = <<prog>> \o Tail(argv) /\ Tail(argv) \in Seq(Letters)
  BY <1>1 DEF prog
<1>6. Told(encode_command_line(argv), argv)
  <2>1. Reads(Tail(argv))
    BY <1>4, <1>5
  <2>. QED  BY ONLY <1>5, <2>1
<1>. QED  BY <1>6 DEF Told, Fresh, ParseCommandLine, Parsed

\* The vectors of the run are such vectors.
LEMMA ArgvsAre ==
    ASSUME NEW argv \in Argvs
    PROVE  argv \in Seq(Seq(Characters)) /\ argv # <<>> /\ IsProgram(argv[1])
<1>1. ASSUME NEW n \in Nat PROVE Arguments(n) \subseteq Seq(Characters)
  <2>1. \A k \in Nat : [1 .. k -> Characters] \subseteq Seq(Characters)
    OBVIOUS
  <2>. QED  BY <2>1 DEF Arguments
<1>2. <<"x">> \in Seq(Characters) /\ IsProgram(<<"x">>)
  <2>1. "x" \in Characters
    BY Constants
  <2>2. <<"x">> \in Letters
    BY <2>1, Letter
  <2>3. "q" \notin ToSet(<<"x">>)
    BY DEF ToSet
  <2>. QED  BY <2>2, <2>3 DEF IsProgram, Letters
<1>3. \A p \in Programs : p \in Seq(Characters) /\ IsProgram(p)
  BY <1>1 DEF Programs, IsProgram, Letters
<1>4. CASE \E p \in Programs : argv = <<p, <<"x">>>>
  <2>1. PICK p \in Programs : argv = <<p, <<"x">>>>
    BY <1>4
  <2>2. p \in Seq(Characters) /\ IsProgram(p)
    BY <1>3
  <2>. QED  BY <1>2, <2>1, <2>2
<1>5. CASE \E a \in Arguments(MaxLength) : argv = <<<<"x">>, a>>
  <2>1. PICK a \in Seq(Characters) : argv = <<<<"x">>, a>>
    BY <1>1, <1>5, MaxLengthAssumption
  <2>. QED  BY <1>2, <2>1
<1>6. CASE \E a \in Arguments(2), b \in Arguments(2) : argv = <<<<"x">>, a, b>>
  <2>1. PICK a \in Seq(Characters), b \in Seq(Characters) : argv = <<<<"x">>, a, b>>
    BY <1>1, <1>6
  <2>. QED  BY <1>2, <2>1
<1>. QED  BY <1>4, <1>5, <1>6 DEF Argvs

\* A program that has been launched was given the arguments the user asked for
\* (launch.rs, Launched::spawn).
THEOREM Survive == Spec => []ArgumentsSurvive
<1>1. Faithful
  BY ArgvsAre, Given DEF Faithful
<1>2. ArgumentsSurvive
  BY <1>1 DEF ArgumentsSurvive
<1>. QED  BY <1>2, PTL
=============================================================================
