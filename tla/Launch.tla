------------------------------- MODULE Launch -------------------------------
(***************************************************************************)
(* What every capture of a launched command promises, on either system     *)
(* (core/capture.rs, launch.rs): the program is created held, runs no      *)
(* instruction before the capture has attached to it, and is gone when the *)
(* capture returns.  PerfCapture, LaunchBarrier and WinCapture implement   *)
(* this; they differ in how a program is held and how it is let go.        *)
(***************************************************************************)
VARIABLES
    program,    \* "none" | "held" | "running" | "dead" (a zombie) | "gone"
    capture     \* "attaching" | "sampling" | "returned" | "crashed"

lvars == <<program, capture>>

LInit == program = "none" /\ capture = "attaching"

\* The process is created, not yet allowed to run the program.
Create ==
    /\ capture = "attaching" /\ program = "none"
    /\ program' = "held"
    /\ UNCHANGED capture

\* The capture has attached: the program may start, at once or later.
LetGo ==
    /\ capture = "attaching" /\ program # "none"
    /\ capture' = "sampling"
    /\ \/ UNCHANGED program
       \/ program = "held" /\ program' = "running"

\* A held program starts: after the release, or when nobody is left to hold it.
StartProgram ==
    /\ capture \in {"sampling", "crashed"} /\ program = "held"
    /\ program' = "running"
    /\ UNCHANGED capture

\* It exits or is killed, at any time.
End ==
    /\ program \in {"held", "running"}
    /\ program' \in {"dead", "gone"}
    /\ UNCHANGED capture

Collect ==
    /\ program = "dead"
    /\ program' = "gone"
    /\ UNCHANGED capture

\* With or without success, the capture takes the program along.
Return ==
    /\ capture \in {"attaching", "sampling"}
    /\ capture' = "returned"
    /\ program' = IF program = "none" THEN "none" ELSE "gone"

\* The profiling process dies.
Die ==
    /\ capture \in {"attaching", "sampling"}
    /\ capture' = "crashed"
    /\ UNCHANGED program

LNext == Create \/ LetGo \/ StartProgram \/ End \/ Collect \/ Return \/ Die

LSpec == LInit /\ [][LNext]_lvars
=============================================================================
