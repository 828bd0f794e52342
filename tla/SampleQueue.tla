---------------------------- MODULE SampleQueue ----------------------------
(***************************************************************************)
(* What a perf counter promises to `sample_loop`, with no ring buffer in   *)
(* sight: a FIFO of records between the kernel, which may emit a record as *)
(* long as the event is enabled, and the profiler, which takes the records *)
(* in emission order, hands each non-empty user call-chain to `on_sample`  *)
(* exactly once, and drops everything else.  Records the kernel finds no   *)
(* room for never enter the queue.  PerfRing implements this module.       *)
(***************************************************************************)
EXTENDS Naturals, Sequences

CONSTANTS
    Records,        \* the records the kernel may emit
    UserChain(_)    \* what on_sample receives for a record; <<>>: it is not called

VARIABLES
    queue,      \* records emitted and not yet taken
    delivered,  \* the call-chains handed to on_sample so far
    source,     \* "on" | "off": whether the event may still emit
    done        \* the profiler has made its last take

qvars == <<queue, delivered, source, done>>

QInit ==
    /\ queue = <<>>
    /\ delivered = <<>>
    /\ source = "on"
    /\ done = FALSE

Emit(r) ==
    /\ source = "on"
    /\ queue' = Append(queue, r)
    /\ UNCHANGED <<delivered, source, done>>

Take ==
    /\ queue # <<>>
    /\ ~done
    /\ queue' = Tail(queue)
    /\ delivered' = IF UserChain(Head(queue)) = <<>>
                    THEN delivered
                    ELSE Append(delivered, UserChain(Head(queue)))
    /\ UNCHANGED <<source, done>>

SwitchOff ==
    /\ source = "on"
    /\ source' = "off"
    /\ UNCHANGED <<queue, delivered, done>>

\* The profiler may stop with records left behind only if it failed to switch
\* the source off.
Finish ==
    /\ ~done
    /\ source = "off" => queue = <<>>
    /\ done' = TRUE
    /\ UNCHANGED <<queue, delivered, source>>

QNext == (\E r \in Records : Emit(r)) \/ Take \/ SwitchOff \/ Finish

QSpec == QInit /\ [][QNext]_qvars
=============================================================================
