------------------------------ MODULE PerfRing ------------------------------
(***************************************************************************)
(* One perf event and its mmap'd ring buffer: the kernel writes records,   *)
(* `Counter::drain` (linux/perf.rs) reads them while the kernel goes on    *)
(* writing, and `sample_loop` (linux/mod.rs) calls drain on every tick,    *)
(* then disables the event and drains one final time.                      *)
(*                                                                         *)
(* The ring is an array of Size words of 8 bytes.  Every perf record is a  *)
(* whole number of words: a header word (type, size), then, for a sample,  *)
(* the word nr and nr words of call-chain.  Positions (data_head,          *)
(* data_tail) are never reduced: position p lives in slot p % Size.        *)
(* The two sides interleave at single words.                               *)
(***************************************************************************)
EXTENDS Integers, Sequences

CONSTANTS
    Size,       \* data_size of the ring, in words
    Chains,     \* the call-chains a record may carry (sequences of ChainWord)
    MaxHead     \* bound on the words the kernel writes in a behaviour

ChainWord == [t : {"ip", "ctx"}, n : Nat]

ASSUME SizeAssumption == Size \in Nat \ {0}
ASSUME ChainsAssumption == Chains \subseteq Seq(ChainWord)
ASSUME MaxHeadAssumption == MaxHead \in Nat

Types == {"sample", "other"}

\* A record of the stream.  "other" stands for every record type drain skips
\* (LOST, THROTTLE, ...): their payload is as opaque to it as a call-chain.
Records == [type : Types, chain : Chains]

Word == [t : {"zero", "ip", "ctx", "nr"} \cup Types, n : Nat]

RecLen(r) == 2 + Len(r.chain)

\* The j-th word of a record as it lies in the ring (j counts from 0).
WordOf(r, j) ==
    CASE j = 0 -> [t |-> r.type, n |-> RecLen(r)]
      [] j = 1 -> [t |-> "nr", n |-> Len(r.chain)]
      [] OTHER -> r.chain[j - 1]

\* PERF_CONTEXT_* markers are not addresses.
IsIp(w) == w.t = "ip"
WithoutMarkers(chain) == SelectSeq(chain, IsIp)

\* What is to come out of a record.
UserChain(r) == IF r.type = "sample" THEN WithoutMarkers(r.chain) ELSE <<>>

VARIABLES
    buf,        \* the data area, one word per slot
    head,       \* data_head in the control page: what the kernel has published
    tail,       \* data_tail in the control page: what drain has released
    rhead,      \* kernel-private: end of the space reserved so far
    wpos,       \* kernel-private: next word to write, head <= wpos <= rhead
    enabled,    \* the event is enabled
    phase,      \* sample_loop: "loop" | "final" | "done"
    pc,         \* drain: "idle" | "record" | "nr" | "ips" | "publish"
    lhead,      \* drain's local `head`
    ltail,      \* drain's local `tail`
    rsize,      \* drain's `record_size`, in words
    nr,         \* drain's clamped `nr`
    ips,        \* drain's words of the current call-chain read so far
    delivered,  \* history: the call-chains handed to on_sample
    log,        \* history: every record the kernel has reserved space for
    edge,       \* history: record k of log lies in edge[k] .. edge[k + 1] - 1
    taken       \* history: how many records of log drain has passed

kernel == <<buf, head, rhead, wpos, log, edge>>
drain == <<lhead, ltail, rsize, nr, ips, delivered, taken>>
vars == <<kernel, drain, tail, enabled, phase, pc>>

Slot(p) == p % Size

Init ==
    /\ buf = [i \in 0 .. Size - 1 |-> [t |-> "zero", n |-> 0]]
    /\ head = 0 /\ tail = 0 /\ rhead = 0 /\ wpos = 0
    /\ enabled = TRUE
    /\ phase = "loop"
    /\ pc = "idle"
    /\ lhead = 0 /\ ltail = 0 /\ rsize = 0 /\ nr = 0
    /\ ips = <<>> /\ delivered = <<>>
    /\ log = <<>> /\ edge = <<0>> /\ taken = 0

-----------------------------------------------------------------------------
(* The kernel's side, as the perf mmap ABI describes it.                   *)

\* A record is reserved only if it fits above what user space has released;
\* one that does not fit is lost and leaves no trace in the ring.
HasRoom(r) == rhead + RecLen(r) - tail <= Size

KernelReserve(r) ==
    /\ enabled
    /\ wpos = rhead
    /\ HasRoom(r)
    /\ rhead + RecLen(r) <= MaxHead
    /\ rhead' = rhead + RecLen(r)
    /\ log' = Append(log, r)
    /\ edge' = Append(edge, rhead + RecLen(r))
    /\ UNCHANGED <<buf, head, wpos, drain, tail, enabled, phase, pc>>

KernelWrite ==
    /\ wpos < rhead
    /\ buf' = [buf EXCEPT ![Slot(wpos)] =
                   WordOf(log[Len(log)], wpos - edge[Len(log)])]
    /\ wpos' = wpos + 1
    /\ UNCHANGED <<head, rhead, log, edge, drain, tail, enabled, phase, pc>>

\* data_head moves only over fully written records, possibly several at once
\* (a nested writer leaves publication to the outermost one).
KernelPublish ==
    /\ wpos = rhead
    /\ head # rhead
    /\ head' = rhead
    /\ UNCHANGED <<buf, rhead, wpos, log, edge, drain, tail, enabled, phase, pc>>

-----------------------------------------------------------------------------
(* Counter::drain                                                          *)

\* Mutant of DrainStart: the region is released before it is read.
DrainStartReleases ==
    /\ pc = "idle"
    /\ phase # "done"
    /\ lhead' = head
    /\ ltail' = tail
    /\ tail' = head
    /\ pc' = "record"
    /\ UNCHANGED <<kernel, rsize, nr, ips, delivered, taken, enabled, phase>>

\* Load data_head, then data_tail (which no one else writes).
DrainStart ==
    /\ pc = "idle"
    /\ phase # "done"
    /\ lhead' = head
    /\ ltail' = tail
    /\ pc' = "record"
    /\ UNCHANGED <<kernel, rsize, nr, ips, delivered, taken, tail, enabled, phase>>

\* The loop condition fails, or a zero-length record breaks out of the loop.
DrainExit ==
    /\ pc = "record"
    /\ ltail >= lhead \/ buf[Slot(ltail)].n = 0
    /\ pc' = "publish"
    /\ UNCHANGED <<kernel, drain, tail, enabled, phase>>

\* Mutant of DrainHeader: a skipped record is taken to have no payload.
DrainHeaderShortSkip ==
    /\ pc = "record"
    /\ ltail < lhead
    /\ LET header == buf[Slot(ltail)]
       IN  /\ header.n # 0
           /\ rsize' = header.n
           /\ IF header.t = "sample"
              THEN pc' = "nr" /\ UNCHANGED <<ltail, taken>>
              ELSE pc' = "record" /\ ltail' = ltail + 2 /\ taken' = taken + 1
    /\ UNCHANGED <<kernel, lhead, nr, ips, delivered, tail, enabled, phase>>

DrainHeader ==
    /\ pc = "record"
    /\ ltail < lhead
    /\ LET header == buf[Slot(ltail)]
       IN  /\ header.n # 0
           /\ rsize' = header.n
           /\ IF header.t = "sample"
              THEN pc' = "nr" /\ UNCHANGED <<ltail, taken>>
              ELSE pc' = "record" /\ ltail' = ltail + header.n /\ taken' = taken + 1
    /\ UNCHANGED <<kernel, lhead, nr, ips, delivered, tail, enabled, phase>>

\* Mutant of ClampNr: one word too many for the header, no saturation.
ClampNrUnsaturated(n, size) == IF n < size - 3 THEN n ELSE size - 3

\* nr is clamped to what the record's own size leaves room for.
ClampNr(n, size) ==
    LET room == IF size < 2 THEN 0 ELSE size - 2
    IN  IF n < room THEN n ELSE room

DrainCount ==
    /\ pc = "nr"
    /\ nr' = ClampNr(buf[Slot(ltail + 1)].n, rsize)
    /\ ips' = <<>>
    /\ pc' = "ips"
    /\ UNCHANGED <<kernel, lhead, ltail, rsize, delivered, taken, tail, enabled, phase>>

DrainIp ==
    /\ pc = "ips"
    /\ Len(ips) < nr
    /\ ips' = Append(ips, buf[Slot(ltail + 2 + Len(ips))])
    /\ UNCHANGED <<kernel, lhead, ltail, rsize, nr, delivered, taken, tail, enabled, phase, pc>>

\* Mutant of OnSample: called with an empty chain too.
OnSampleAlways(user) == delivered' = Append(delivered, user)

\* on_sample is called unless nothing remains of the chain.
OnSample(user) ==
    delivered' = IF user = <<>> THEN delivered ELSE Append(delivered, user)

DrainSample ==
    /\ pc = "ips"
    /\ Len(ips) >= nr
    /\ OnSample(WithoutMarkers(ips))
    /\ ltail' = ltail + rsize
    /\ taken' = taken + 1
    /\ pc' = "record"
    /\ UNCHANGED <<kernel, lhead, rsize, nr, ips, tail, enabled, phase>>

\* Mutant of DrainPublish: data_tail is never stored.
DrainPublishKeepsTail ==
    /\ pc = "publish"
    /\ pc' = "idle"
    /\ phase' = IF phase = "final" THEN "done" ELSE phase
    /\ UNCHANGED <<kernel, drain, tail, enabled>>

\* Store data_tail; the final drain is sample_loop's last step.
DrainPublish ==
    /\ pc = "publish"
    /\ tail' = ltail
    /\ pc' = "idle"
    /\ phase' = IF phase = "final" THEN "done" ELSE phase
    /\ UNCHANGED <<kernel, drain, enabled>>

-----------------------------------------------------------------------------
\* Mutant of Disable: no drain after the event is switched off.
DisableLast ==
    /\ phase = "loop"
    /\ pc = "idle"
    /\ phase' = "done"
    /\ \/ enabled' = FALSE /\ head = rhead
       \/ enabled' = enabled
    /\ UNCHANGED <<kernel, drain, tail, pc>>

(* sample_loop leaves its loop between two drains (deadline or is_done) and
   disables the event.  The ioctl returns once no record is being written; if
   it fails, the failure is logged and the event stays enabled.              *)
Disable ==
    /\ phase = "loop"
    /\ pc = "idle"
    /\ phase' = "final"
    /\ \/ enabled' = FALSE /\ head = rhead
       \/ enabled' = enabled
    /\ UNCHANGED <<kernel, drain, tail, pc>>

KernelNext == (\E r \in Records : KernelReserve(r)) \/ KernelWrite \/ KernelPublish

DrainNext ==
    \/ DrainStart \/ DrainExit \/ DrainHeader \/ DrainCount
    \/ DrainIp \/ DrainSample \/ DrainPublish

Next == KernelNext \/ DrainNext \/ Disable

Spec == Init /\ [][Next]_vars

\* The drain loop is ordinary sequential code and keeps running; the kernel
\* finishes a record it has begun.  Nothing forces a record to be emitted or
\* the loop to be left.
Fairness == WF_vars(DrainNext) /\ WF_vars(KernelWrite \/ KernelPublish)

FairSpec == Spec /\ Fairness
-----------------------------------------------------------------------------
(* Properties                                                              *)

\* The state is well typed: cursors are naturals, the ring holds words, the log
\* holds records with their start positions.  (What `delivered` holds is said by
\* ImplementsQueue.)
TypeOK ==
    /\ buf \in [0 .. Size - 1 -> Word]
    /\ head \in Nat /\ tail \in Nat /\ rhead \in Nat /\ wpos \in Nat
    /\ enabled \in BOOLEAN
    /\ phase \in {"loop", "final", "done"}
    /\ pc \in {"idle", "record", "nr", "ips", "publish"}
    /\ lhead \in Nat /\ ltail \in Nat /\ rsize \in Nat /\ nr \in Nat
    /\ ips \in Seq(Word)
    /\ log \in Seq(Records)
    /\ edge \in Seq(Nat) /\ Len(edge) = Len(log) + 1
    /\ taken \in Nat

\* Every word of a record drain has not passed, once written, is still in its
\* slot: the kernel never wraps onto data that was published but not yet read.
\* drain stores data_tail only after its last read of the region it releases.
UnreadIntact ==
    \A k \in taken + 1 .. Len(log) :
        \A j \in 0 .. RecLen(log[k]) - 1 :
            edge[k] + j < wpos =>
                buf[Slot(edge[k] + j)] = WordOf(log[k], j)

\* The position drain reads next.
ReadPos ==
    CASE pc = "record" -> ltail
      [] pc = "nr"     -> ltail + 1
      [] pc = "ips"    -> ltail + 2 + Len(ips)
      [] OTHER         -> ltail

AboutToRead ==
    \/ pc = "record" /\ ltail < lhead
    \/ pc = "nr"
    \/ pc = "ips" /\ Len(ips) < nr

\* No data race: a slot drain is about to read is one the kernel has published
\* and is not about to write, however far the ring has wrapped.
NoReadWriteRace ==
    AboutToRead => /\ ReadPos < head
                   /\ wpos < rhead => Slot(ReadPos) # Slot(wpos)

\* drain stays in step with the record boundaries: a header is only ever read
\* at the start of a record, so lengths, counts and addresses are never read
\* from the middle of another record, across wrap-arounds and skipped records.
InStep ==
    /\ taken <= Len(log)
    /\ ltail = edge[taken + 1]
    /\ \E k \in 1 .. taken + 1 : tail = edge[k]

\* When the event was switched off, the final drain leaves nothing behind: every
\* record the kernel ever wrote has been passed.
FinalDrainComplete ==
    phase = "done" /\ ~enabled => taken = Len(log) /\ tail = rhead

\* A counter behaves as a lossy first-in first-out queue of records: every
\* record the kernel reserves is taken once, in order, and on_sample receives
\* its call-chain without markers, unless that is empty.
Queue == INSTANCE SampleQueue WITH
    queue <- SubSeq(log, taken + 1, Len(log)),
    source <- IF enabled THEN "on" ELSE "off",
    done <- (phase = "done")    \* Records, UserChain and delivered are its own

ImplementsQueue == Queue!QSpec

\* Whatever the kernel has published is released by a later drain; only a
\* failed disable may leave the last records of a stopped capture unread.
PublishedIsReleased ==
    \A p \in 1 .. MaxHead :
        head >= p ~> (tail >= p \/ (phase = "done" /\ enabled))
=============================================================================
