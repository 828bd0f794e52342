------------------------ MODULE LaunchBarrier_proofs ------------------------
(***************************************************************************)
(* For any set of concurrent captures: each of them implements Launch, so  *)
(* that no child runs before its own release.                              *)
(***************************************************************************)
EXTENDS LaunchBarrier, TLAPS

\* Where a capture is determines what it holds: the write end is open exactly
\* from the pipe to the release (or, on failure, to the end), there is no child
\* before the fork, and one that has not been reaped until the return.
Stages ==
    \A c \in Captures :
        /\ pc[c] = "pipe" => c \notin ours
        /\ pc[c] \in {"pipe", "fork"} => child[c] = "none"
        /\ pc[c] \in {"fork", "release", "failed"} => c \in ours
        /\ pc[c] \in {"release", "failed"} => child[c] \in {"forked", "blocked"}
        /\ pc[c] = "sampling" => c \notin ours
        /\ pc[c] \in {"sampling", "kill"} => child[c] \notin {"none", "reaped"}
        /\ pc[c] = "wait" => child[c] = "zombie"
        /\ pc[c] = "returned" => child[c] \in {"none", "reaped"} /\ c \notin ours

IInv == TypeOK /\ Stages

LEMMA InitInv == Init => IInv
  BY DEF Init, IInv, TypeOK, Stages

\* Every step of capture d keeps the invariant.
LEMMA CaptureInv ==
    ASSUME IInv, NEW d \in Captures, Capture(d) \/ Deadline(d)
    PROVE  IInv'
<1>. USE DEF IInv
<1>1. CASE Pipe(d)
  BY <1>1 DEF Pipe, TypeOK, Stages
<1>2. CASE Fork(d)
  <2>1. CASE child' = child
    BY <1>2, <2>1 DEF Fork, TypeOK, Stages
  <2>2. CASE ours' = ours
    BY <1>2, <2>2 DEF Fork, TypeOK, Stages
  <2>. QED  BY <1>2, <2>1, <2>2 DEF Fork
<1>3. CASE Release(d)
  BY <1>3 DEF Release, TypeOK, Stages
<1>4. CASE HasExited(d)
  BY <1>4 DEF HasExited, TypeOK, Stages
<1>5. CASE Kill(d)
  BY <1>5 DEF Kill, TypeOK, Stages
<1>6. CASE Reap(d)
  BY <1>6 DEF Reap, TypeOK, Stages
<1>7. CASE Deadline(d)
  BY <1>7 DEF Deadline, TypeOK, Stages
<1>. QED  BY <1>1, <1>2, <1>3, <1>4, <1>5, <1>6, <1>7 DEF Capture

\* Every step of a child keeps the invariant.
LEMMA ChildInv ==
    ASSUME IInv, NEW d \in Captures, Child(d) \/ Exit(d)
    PROVE  IInv'
<1>. USE DEF IInv
<1>1. CASE CloseWriteEnd(d)
  BY <1>1 DEF CloseWriteEnd, TypeOK, Stages
<1>2. CASE Exec(d)
  BY <1>2 DEF Exec, EndOfFile, TypeOK, Stages
<1>3. CASE Exit(d)
  BY <1>3 DEF Exit, TypeOK, Stages
<1>. QED  BY <1>1, <1>2, <1>3 DEF Child

LEMMA NextInv == IInv /\ [Next]_vars => IInv'
<1>. SUFFICES ASSUME IInv, [Next]_vars PROVE IInv'
  OBVIOUS
<1>1. ASSUME NEW c \in Captures, Capture(c) \/ Deadline(c) PROVE IInv'
  BY <1>1, CaptureInv
<1>2. ASSUME NEW c \in Captures, Child(c) \/ Exit(c) PROVE IInv'
  BY <1>2, ChildInv
<1>3. CASE UNCHANGED vars
  BY <1>3 DEF vars, IInv, TypeOK, Stages
<1>. QED  BY <1>1, <1>2, <1>3 DEF Next

\* Every variable has its type in every reachable state.
THEOREM TypeCorrect == Spec => []TypeOK
<1>1. IInv => TypeOK
  BY DEF IInv
<1>. QED  BY <1>1, InitInv, NextInv, PTL DEF Spec

-----------------------------------------------------------------------------
(* The refinement: what one step does to the program and the capture of c. *)

LEMMA InitLaunch == Init => \A c \in Captures : L(c)!LInit
  BY DEF Init, L!LInit

\* A step of capture c itself is a step of its abstract capture.
LEMMA CaptureLaunch ==
    ASSUME IInv, NEW c \in Captures, Capture(c) \/ Deadline(c)
    PROVE  LaunchStep(c)
<1>. USE DEF IInv, TypeOK, Stages, LaunchStep, L!LNext, L!lvars
<1>1. CASE Pipe(c)
  BY <1>1 DEF Pipe, L!Return
<1>2. CASE Fork(c)
  <2>1. CASE pc' = [pc EXCEPT ![c] = "release"]
    BY <1>2, <2>1 DEF Fork, L!Create
  <2>2. CASE pc' = [pc EXCEPT ![c] = "returned"]
    BY <1>2, <2>2 DEF Fork, L!Return
  <2>. QED  BY <1>2, <2>1, <2>2 DEF Fork
<1>3. CASE Release(c)
  BY <1>3 DEF Release, L!LetGo
<1>4. CASE HasExited(c)
  BY <1>4 DEF HasExited, L!Return
<1>5. CASE Kill(c)
  BY <1>5 DEF Kill, L!End
<1>6. CASE Reap(c)
  BY <1>6 DEF Reap, L!Return
<1>7. CASE Deadline(c)
  BY <1>7 DEF Deadline
<1>. QED  BY <1>1, <1>2, <1>3, <1>4, <1>5, <1>6, <1>7 DEF Capture

\* So is a step of its child.
LEMMA ChildLaunch ==
    ASSUME IInv, NEW c \in Captures, Child(c) \/ Exit(c)
    PROVE  LaunchStep(c)
<1>. USE DEF IInv, TypeOK, Stages, LaunchStep, L!LNext, L!lvars
<1>1. CASE CloseWriteEnd(c)
  BY <1>1 DEF CloseWriteEnd
<1>2. CASE Exec(c)
  BY <1>2 DEF Exec, EndOfFile, L!StartProgram
<1>3. CASE Exit(c)
  BY <1>3 DEF Exit, L!End
<1>. QED  BY <1>1, <1>2, <1>3 DEF Child

\* A step of another capture or its child changes nothing for c.
LEMMA OthersLaunch ==
    ASSUME IInv, NEW c \in Captures, NEW d \in Captures \ {c},
           Capture(d) \/ Deadline(d) \/ Child(d) \/ Exit(d)
    PROVE  LaunchStep(c)
<1>1. pc'[c] = pc[c] /\ child'[c] = child[c] /\ (c \in ours' <=> c \in ours)
  BY DEF Capture, Pipe, Fork, Release, HasExited, Kill, Reap, Deadline,
         Child, CloseWriteEnd, Exec, Exit, IInv, TypeOK
<1>. QED  BY <1>1 DEF LaunchStep, L!lvars

\* Each of the concurrent captures implements Launch.
THEOREM Implements == Spec => ImplementsLaunch
<1>1. IInv /\ [Next]_vars => [\A c \in Captures : LaunchStep(c)]_vars
  <2>. SUFFICES ASSUME IInv, Next, NEW c \in Captures PROVE LaunchStep(c)
    OBVIOUS
  <2>1. PICK d \in Captures : Capture(d) \/ Deadline(d) \/ Child(d) \/ Exit(d)
    BY DEF Next
  <2>2. CASE d = c
    BY <2>1, <2>2, CaptureLaunch, ChildLaunch
  <2>3. CASE d # c
    BY <2>1, <2>3, OthersLaunch
  <2>. QED  BY <2>2, <2>3
<1>. QED  BY <1>1, InitInv, NextInv, InitLaunch, PTL DEF Spec, ImplementsLaunch
=============================================================================
