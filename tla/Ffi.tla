-------------------------------- MODULE Ffi --------------------------------
(***************************************************************************)
(* The C interface (profcast-ffi/src/lib.rs) called from several threads   *)
(* of one process that keep its contract: the caller frees each string and *)
(* each profile once, does not free a profile another thread is writing,   *)
(* and reads the last error on the thread that failed.                     *)
(*                                                                         *)
(* A pointer is the address of an allocation; a freed address may be given *)
(* out again.  The documents and profiles are those the format codecs make *)
(* a difference for; their contents are the subject of Convert.            *)
(***************************************************************************)
EXTENDS FiniteSets, Naturals

CONSTANTS
    Threads,    \* threads that call the library
    Slots,      \* addresses the allocator hands out
    Null,       \* the null pointer
    MaxHeld     \* bound: objects the callers own or are asking for

ASSUME NullAssumption == Null \notin Slots
ASSUME SlotsAssumption ==
    IsFiniteSet(Slots) /\ Cardinality(Slots) > MaxHeld + Cardinality(Threads)

VARIABLES
    pc,         \* what each thread is doing: "idle" | "probe" | "read" | "write" | "ended"
    registry,   \* the OnceLock: "unset" | the thread that fills it | "ready"
    heap,       \* what is at each address, or "free"
    held,       \* addresses the callers own
    writing,    \* the profile each thread is writing, or Null
    LAST_ERROR, \* each thread's slot: the address of its message, or Null
    lent,       \* history: the pointer the thread got from profcast_last_error
    answer      \* history: what the thread's last call ran into, "ok" or "none"

vars == <<pc, registry, heap, held, writing, LAST_ERROR, lent, answer>>

Documents == {"plain", "with nul", "no values", "broken", "alien", "panics"}
Profiles == {"plain", "with nul", "no values"}
Strings == {"text"}
InputNames == {"null", "not utf8", "right", "nope"}
OutputNames == {"null", "not utf8", "json", "folded", "pprof", "nope"}
Messages == {"no match", "unknown input", "undetected", "unreadable", "null profile",
             "no output name", "unknown output", "unwritable", "not text",
             "interior nul", "panic"}

\* opt_str: a name that is not UTF-8 counts as absent.
opt_str(name) == IF name = "not utf8" THEN "null" ELSE name

-----------------------------------------------------------------------------
(* What a call runs into, in the order the code looks.                     *)

probe_outcome(document) ==
    CASE document = "panics" -> "panic"
      [] document = "alien"  -> "no match"
      [] OTHER               -> "text"

\* Mutant of read_outcome: what the codec refused is handed out all the same.
read_outcome_unchecked(document, name) ==
    IF opt_str(name) = "nope" THEN "unknown input"
    ELSE IF document = "panics" THEN "panic"
    ELSE IF opt_str(name) = "null" /\ document = "alien" THEN "undetected"
    ELSE document

\* profcast_read: by name, or else by probing; then the codec.
read_outcome(document, name) ==
    IF opt_str(name) = "nope" THEN "unknown input"
    ELSE IF document = "panics" THEN "panic"
    ELSE IF opt_str(name) = "null" /\ document = "alien" THEN "undetected"
    ELSE IF document \notin Profiles THEN "unreadable"
    ELSE document

\* Only folded refuses a profile without values, only json escapes a NUL, and
\* pprof is gzip (into_c_string, String::from_utf8).
write_outcome(profile, name) ==
    CASE name = "nope"                                  -> "unknown output"
      [] name = "folded" /\ profile = "no values"       -> "unwritable"
      [] name = "folded" /\ profile = "with nul"        -> "interior nul"
      [] name = "pprof"                                 -> "not text"
      [] OTHER                                          -> "text"

-----------------------------------------------------------------------------
Unused == {s \in Slots : heap[s] = "free"}

Init ==
    /\ pc = [t \in Threads |-> "idle"]
    /\ registry = "unset"
    /\ heap = [s \in Slots |-> "free"]
    /\ held = {}
    /\ writing = [t \in Threads |-> Null]
    /\ LAST_ERROR = [t \in Threads |-> Null]
    /\ lent = [t \in Threads |-> Null]
    /\ answer = [t \in Threads |-> "none"]

\* Mutant of set_last_error: one slot for the whole process.
set_error_of_all(t, message) ==
    \E s \in Unused :
        /\ heap' = [x \in Slots |-> CASE x = s             -> message
                                      [] x = LAST_ERROR[t] -> "free"
                                      [] OTHER             -> heap[x]]
        /\ LAST_ERROR' = [u \in Threads |-> s]

\* set_last_error: the new message is built before it replaces the old one, which
\* is freed.
set_last_error(t, message) ==
    \E s \in Unused :
        /\ heap' = [x \in Slots |-> CASE x = s             -> message
                                      [] x = LAST_ERROR[t] -> "free"
                                      [] OTHER             -> heap[x]]
        /\ LAST_ERROR' = [LAST_ERROR EXCEPT ![t] = s]

\* Mutant of Fail: catch_panic returns the fallback and says nothing.
FailSilently(t, message) ==
    /\ IF message = "panic"
       THEN UNCHANGED <<heap, LAST_ERROR>>
       ELSE set_last_error(t, message)
    /\ UNCHANGED held

\* A null pointer is returned; catch_panic makes an error of a panic too.
Fail(t, message) ==
    /\ set_last_error(t, message)
    /\ UNCHANGED held

\* A boxed profile or a C string is handed to the caller.
Give(object) ==
    /\ \E s \in Unused :
           heap' = [heap EXCEPT ![s] = object] /\ held' = held \cup {s}
    /\ UNCHANGED LAST_ERROR

Return(t, outcome) ==
    /\ IF outcome \in Messages
       THEN Fail(t, outcome) /\ answer' = [answer EXCEPT ![t] = outcome]
       ELSE Give(outcome) /\ answer' = [answer EXCEPT ![t] = "ok"]
    /\ pc' = [pc EXCEPT ![t] = "idle"]
    /\ writing' = [writing EXCEPT ![t] = Null]
    /\ UNCHANGED <<registry, lent>>

-----------------------------------------------------------------------------
Asking == {t \in Threads : pc[t] \in {"probe", "read", "write"}}

\* A call into the library: the pointer got from profcast_last_error is over.
Enter(t, function, profile) ==
    /\ pc[t] = "idle" /\ Cardinality(held) + Cardinality(Asking) < MaxHeld
    /\ pc' = [pc EXCEPT ![t] = function]
    /\ writing' = [writing EXCEPT ![t] = profile]
    /\ lent' = [lent EXCEPT ![t] = Null]
    /\ answer' = [answer EXCEPT ![t] = "none"]
    /\ UNCHANGED <<registry, heap, held, LAST_ERROR>>

Call(t) ==
    \/ Enter(t, "probe", Null)
    \/ Enter(t, "read", Null)
    \/ \E p \in {s \in held : heap[s] \in Profiles} \cup {Null} : Enter(t, "write", p)

\* registry: the first thread fills the OnceLock, the others wait for it.
FillRegistry(t) ==
    /\ t \in Asking /\ registry = "unset"
    /\ pc[t] = "write" => writing[t] # Null
    /\ registry' = t
    /\ UNCHANGED <<pc, heap, held, writing, LAST_ERROR, lent, answer>>

RegistryFilled(t) ==
    /\ registry = t
    /\ registry' = "ready"
    /\ UNCHANGED <<pc, heap, held, writing, LAST_ERROR, lent, answer>>

profcast_probe(t) ==
    /\ pc[t] = "probe" /\ registry = "ready"
    /\ \E d \in Documents : Return(t, probe_outcome(d))

profcast_read(t) ==
    /\ pc[t] = "read" /\ registry = "ready"
    /\ \E d \in Documents, name \in InputNames : Return(t, read_outcome(d, name))

\* profcast_profile_write looks at the handle and the name before the registry; a
\* writer may panic.
profcast_profile_write(t) ==
    /\ pc[t] = "write"
    /\ \/ writing[t] = Null /\ Return(t, "null profile")
       \/ writing[t] # Null /\ registry # t /\ Return(t, "no output name")
       \/ writing[t] # Null /\ registry = "ready" /\ Return(t, "panic")
       \/ /\ writing[t] # Null /\ registry = "ready"
          /\ \E name \in {n \in OutputNames : opt_str(n) # "null"} :
                 Return(t, write_outcome(heap[writing[t]], name))

\* profcast_profile_free, profcast_string_free
Free(t, s) ==
    /\ pc[t] = "idle" /\ s \in held /\ \A u \in Threads : writing[u] # s
    /\ heap' = [heap EXCEPT ![s] = "free"]
    /\ held' = held \ {s}
    /\ lent' = [lent EXCEPT ![t] = Null]
    /\ UNCHANGED <<pc, registry, writing, LAST_ERROR, answer>>

profcast_last_error(t) ==
    /\ pc[t] = "idle"
    /\ lent' = [lent EXCEPT ![t] = LAST_ERROR[t]]
    /\ UNCHANGED <<pc, registry, heap, held, writing, LAST_ERROR, answer>>

\* Mutant of EndThread: the slot is not dropped.
EndThreadLeaks(t) ==
    /\ pc[t] = "idle" /\ \E u \in Threads \ {t} : pc[u] # "ended"
    /\ pc' = [pc EXCEPT ![t] = "ended"]
    /\ LAST_ERROR' = [LAST_ERROR EXCEPT ![t] = Null]
    /\ lent' = [lent EXCEPT ![t] = Null]
    /\ answer' = [answer EXCEPT ![t] = "none"]
    /\ UNCHANGED <<registry, heap, held, writing>>

\* A thread other than the last one ends, and its thread-local slot with it.
EndThread(t) ==
    /\ pc[t] = "idle" /\ \E u \in Threads \ {t} : pc[u] # "ended"
    /\ pc' = [pc EXCEPT ![t] = "ended"]
    /\ heap' = [s \in Slots |-> IF s = LAST_ERROR[t] THEN "free" ELSE heap[s]]
    /\ LAST_ERROR' = [LAST_ERROR EXCEPT ![t] = Null]
    /\ lent' = [lent EXCEPT ![t] = Null]
    /\ answer' = [answer EXCEPT ![t] = "none"]
    /\ UNCHANGED <<registry, held, writing>>

Next ==
    \E t \in Threads :
        \/ Call(t) \/ FillRegistry(t) \/ RegistryFilled(t)
        \/ profcast_probe(t) \/ profcast_read(t) \/ profcast_profile_write(t)
        \/ profcast_last_error(t) \/ EndThread(t)
        \/ \E s \in Slots : Free(t, s)

Spec == Init /\ [][Next]_vars

-----------------------------------------------------------------------------
(* Properties                                                              *)

\* Every variable is in its range.
TypeOK ==
    /\ pc \in [Threads -> {"idle", "probe", "read", "write", "ended"}]
    /\ registry \in {"unset", "ready"} \cup Threads
    /\ heap \in [Slots -> {"free"} \cup Profiles \cup Strings \cup Messages]
    /\ held \subseteq Slots
    /\ {writing, LAST_ERROR, lent} \subseteq [Threads -> Slots \cup {Null}]
    /\ answer \in [Threads -> Messages \cup {"none", "ok"}]

\* A thread whose call returned NULL finds that call's own message, a caught panic's
\* included, whatever the other threads have done since (lib.rs: "Fallible functions
\* return either `NULL` or a sentinel and record a human-readable message").
NullIsExplained ==
    \A t \in Threads :
        answer[t] \in Messages =>
            LAST_ERROR[t] # Null /\ heap[LAST_ERROR[t]] = answer[t]

\* Everything allocated has exactly one owner, the caller or the error slot of one
\* thread, so that each is freed once and nothing leaks, threads that ended included;
\* a profile being written stays the caller's.
OwnedOnce ==
    LET slots == {LAST_ERROR[t] : t \in Threads} \ {Null} IN
    /\ Slots \ Unused = held \cup slots
    /\ held \cap slots = {}
    /\ \A t, u \in Threads : LAST_ERROR[t] = LAST_ERROR[u] => t = u \/ LAST_ERROR[t] = Null
    /\ \A t \in Threads : writing[t] # Null => writing[t] \in held

\* The pointer profcast_last_error returned stays that of a live message "until the
\* next profcast call on this thread", though the other threads fail, free and end.
MessageStaysValid ==
    \A t \in Threads : lent[t] # Null => heap[lent[t]] \in Messages
=============================================================================
