--------------------------- MODULE LaunchBarrier ---------------------------
(***************************************************************************)
(* The pipe that holds a launched child before exec, when several threads  *)
(* of one process run `capture` on a command at the same time (`Source` is *)
(* Send + Sync).  A fork copies every descriptor the process has open, so  *)
(* a child also holds the write ends of the other captures' pipes until    *)
(* its own exec closes them (O_CLOEXEC); it has closed only its own.       *)
(***************************************************************************)
EXTENDS FiniteSets, Naturals

CONSTANTS
    Captures,       \* concurrent calls of capture, each with its own pipe and child
    Bounded         \* the captures that were given a duration

ASSUME CapturesAssumption == IsFiniteSet(Captures)
ASSUME BoundedAssumption == Bounded \subseteq Captures

VARIABLES
    pc,         \* capture c: "pipe" "fork" "release" "failed" "sampling" "kill" "wait" "returned"
    ours,       \* captures whose write end the profiling process has open
    child,      \* child of c: "none" "forked" "blocked" "running" "zombie" "reaped"
    inherited   \* captures whose write end the child of c has open

vars == <<pc, ours, child, inherited>>

Init ==
    /\ pc = [c \in Captures |-> "pipe"]
    /\ ours = {}
    /\ child = [c \in Captures |-> "none"]
    /\ inherited = [c \in Captures |-> {}]

\* pipe_cloexec; capture returns its error.
Pipe(c) ==
    /\ pc[c] = "pipe"
    /\ \/ pc' = [pc EXCEPT ![c] = "fork"] /\ ours' = ours \cup {c}
       \/ pc' = [pc EXCEPT ![c] = "returned"] /\ UNCHANGED ours
    /\ UNCHANGED <<child, inherited>>

\* fork copies the write ends that are open now, whoever made them; if it fails
\* the pipe is dropped.
Fork(c) ==
    /\ pc[c] = "fork"
    /\ \/ /\ pc' = [pc EXCEPT ![c] = "release"]
          /\ child' = [child EXCEPT ![c] = "forked"]
          /\ inherited' = [inherited EXCEPT ![c] = ours]
          /\ UNCHANGED ours
       \/ /\ pc' = [pc EXCEPT ![c] = "returned"]
          /\ ours' = ours \ {c}
          /\ UNCHANGED <<child, inherited>>

\* Mutant of Release: the error path leads nowhere.
ReleaseStray(c) ==
    /\ pc[c] = "release"
    /\ \/ pc' = [pc EXCEPT ![c] = "sampling"] /\ ours' = ours \ {c}
       \/ pc' = [pc EXCEPT ![c] = "stray"] /\ UNCHANGED ours
    /\ UNCHANGED <<child, inherited>>

\* Mutant of Release: on the error path the pipe goes before the destructor runs.
ReleaseDropsPipe(c) ==
    /\ pc[c] = "release"
    /\ pc' \in {[pc EXCEPT ![c] = at] : at \in {"sampling", "failed"}}
    /\ ours' = ours \ {c}
    /\ UNCHANGED <<child, inherited>>

\* Open the events, then either release the child or, if none could be opened,
\* leave through the destructor with the pipe still closed.
Release(c) ==
    /\ pc[c] = "release"
    /\ \/ pc' = [pc EXCEPT ![c] = "sampling"] /\ ours' = ours \ {c}
       \/ pc' = [pc EXCEPT ![c] = "failed"] /\ UNCHANGED ours
    /\ UNCHANGED <<child, inherited>>

\* sample_loop ends when the child has exited (and reaps it), or at the deadline.
HasExited(c) ==
    /\ pc[c] = "sampling" /\ child[c] = "zombie"
    /\ pc' = [pc EXCEPT ![c] = "returned"]
    /\ child' = [child EXCEPT ![c] = "reaped"]
    /\ UNCHANGED <<ours, inherited>>

\* Mutant of Deadline: returns without Launched::shutdown.
DeadlineLeaves(c) ==
    /\ pc[c] = "sampling" /\ c \in Bounded
    /\ pc' = [pc EXCEPT ![c] = "returned"]
    /\ UNCHANGED <<ours, child, inherited>>

Deadline(c) ==
    /\ pc[c] = "sampling" /\ c \in Bounded
    /\ pc' = [pc EXCEPT ![c] = "kill"]
    /\ UNCHANGED <<ours, child, inherited>>

\* Mutant of Kill: waits for the child without killing it.
KillOnlyWaits(c) ==
    /\ pc[c] \in {"failed", "kill"}
    /\ pc' = [pc EXCEPT ![c] = "wait"]
    /\ UNCHANGED <<ours, child, inherited>>

\* Launched::shutdown; an exiting process closes its descriptors.
Kill(c) ==
    /\ pc[c] \in {"failed", "kill"}
    /\ pc' = [pc EXCEPT ![c] = "wait"]
    /\ child' = [child EXCEPT ![c] = "zombie"]
    /\ inherited' = [inherited EXCEPT ![c] = {}]
    /\ UNCHANGED ours

Reap(c) ==
    /\ pc[c] = "wait" /\ child[c] = "zombie"
    /\ pc' = [pc EXCEPT ![c] = "returned"]
    /\ child' = [child EXCEPT ![c] = "reaped"]
    /\ ours' = ours \ {c}
    /\ UNCHANGED inherited

Capture(c) == Pipe(c) \/ Fork(c) \/ Release(c) \/ HasExited(c) \/ Kill(c) \/ Reap(c)

-----------------------------------------------------------------------------
(* The child: close its own write end, read until end of file, exec.       *)

\* Mutant of CloseWriteEnd: the child keeps its copy of its own write end.
KeepWriteEnd(c) ==
    /\ child[c] = "forked"
    /\ child' = [child EXCEPT ![c] = "blocked"]
    /\ UNCHANGED <<pc, ours, inherited>>

CloseWriteEnd(c) ==
    /\ child[c] = "forked"
    /\ child' = [child EXCEPT ![c] = "blocked"]
    /\ inherited' = [inherited EXCEPT ![c] = @ \ {c}]
    /\ UNCHANGED <<pc, ours>>

\* Mutant of EndOfFile: the parent's write end does not count.
EndOfFileAmongChildren(c) == \A d \in Captures : c \notin inherited[d]

\* End of file: nobody has the write end of c's pipe open.
EndOfFile(c) == c \notin ours /\ \A d \in Captures : c \notin inherited[d]

Exec(c) ==
    /\ child[c] = "blocked" /\ EndOfFile(c)
    /\ child' = [child EXCEPT ![c] = "running"]
    /\ inherited' = [inherited EXCEPT ![c] = {}]
    /\ UNCHANGED <<pc, ours>>

Exit(c) ==
    /\ child[c] = "running"
    /\ child' = [child EXCEPT ![c] = "zombie"]
    /\ UNCHANGED <<pc, ours, inherited>>

Child(c) == CloseWriteEnd(c) \/ Exec(c)

Next == \E c \in Captures : Capture(c) \/ Deadline(c) \/ Child(c) \/ Exit(c)

Spec == Init /\ [][Next]_vars

\* Captures and children keep running; programs run as long as they like, but
\* deadlines pass.
Fairness ==
    \A c \in Captures : WF_vars(Capture(c)) /\ WF_vars(Child(c)) /\ WF_vars(Deadline(c))

FairSpec == Spec /\ Fairness

\* Durations as long as one likes: no deadline need ever pass.
LongSpec == Spec /\ \A c \in Captures : WF_vars(Capture(c)) /\ WF_vars(Child(c))
-----------------------------------------------------------------------------
(* Properties                                                              *)

TypeOK ==
    /\ pc \in [Captures -> {"pipe", "fork", "release", "failed", "sampling", "kill", "wait",
                         "returned"}]
    /\ ours \subseteq Captures
    /\ child \in [Captures -> {"none", "forked", "blocked", "running", "zombie", "reaped"}]
    /\ inherited \in [Captures -> SUBSET Captures]

\* The program of capture c as Launch describes it.  A capture that failed has not
\* released its child, whatever has become of the pipe.
L(c) == INSTANCE Launch WITH
    program <- CASE child[c] \in {"forked", "blocked"} -> "held"
                 [] child[c] = "zombie"               -> "dead"
                 [] child[c] = "reaped"               -> "gone"
                 [] OTHER                             -> child[c],
    capture <- IF pc[c] = "returned" THEN "returned"
               ELSE IF pc[c] \in {"pipe", "fork", "failed"} \/ c \in ours THEN "attaching"
               ELSE "sampling"

LaunchStep(c) == L(c)!LNext \/ UNCHANGED L(c)!lvars

\* Every one of the concurrent captures keeps the promise of a capture that is
\* alone in its process: its program starts only after its own release, and is
\* gone when it returns, whatever descriptors the other children have inherited; one
\* whose capture failed never starts.
ImplementsLaunch ==
    (\A c \in Captures : L(c)!LInit) /\ [][\A c \in Captures : LaunchStep(c)]_vars

Held(c) == pc[c] = "sampling" /\ child[c] \in {"forked", "blocked"}

\* Closing the write end releases the child, which execs, unless its own capture's kill
\* comes first (launch.rs: "closing it (drop) releases the child").
ReleaseFreesChild ==
    \A c \in Captures : Held(c) ~> child[c] = "running" \/ pc[c] = "kill"

\* The child of the one capture without a duration, which nobody kills, does exec once
\* it is released, whichever copies of its write end the children of the others hold:
\* they are killed at their deadlines, if they do not exec first.
ReleaseRunsUnbounded ==
    \A c \in Captures \ Bounded : Held(c) ~> child[c] = "running"

\* A capture with a duration returns even if another one's child holds its pipe.
BoundedReturns ==
    \A c \in Bounded : pc[c] = "pipe" ~> pc[c] = "returned"
=============================================================================
