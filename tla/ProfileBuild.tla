---------------------------- MODULE ProfileBuild ----------------------------
(***************************************************************************)
(* From call-chains to a profile: record_sample counts the leaf-first      *)
(* chains as they are drained; build_profile then visits the counts in the *)
(* order of a hash map, turns each chain round, interns its addresses as   *)
(* frames and validates what it built (core/model.rs).  linux/mod.rs and   *)
(* windows/mod.rs have the same two functions word for word; they differ   *)
(* in the symbolizer.                                                      *)
(***************************************************************************)
EXTENDS DbgHelp

CONSTANTS
    Chains,     \* the call-chains on_sample may deliver (non-empty, leaf first)
    Spaces,     \* what they may be resolved against, on "linux" or on "windows"
    MaxCount,   \* i64::MAX
    MaxId,      \* u32::MAX
    MaxDeliveries   \* bound on how often a chain is delivered

ASSUME ChainsAssumption == \A c \in Chains : c \in Seq(Nat) /\ c # <<>>
ASSUME SpacesAssumption ==
    \A s \in Spaces :
        \/ s.system = "linux" /\ IsLinuxSpace(s)
        \/ s.system = "windows" /\ IsSession(s)
ASSUME LimitsAssumption == MaxCount \in Nat \ {0} /\ MaxId \in Nat /\ MaxDeliveries \in Nat

VARIABLES
    space,      \* the maps kept by sample_loop with their files, or the session
    phase,      \* "record" | "next" | "intern" | "done" | "err"
    counts,     \* counts: a function on the chains seen
    recorded,   \* history: how often each chain was delivered
    todo,       \* chains build_profile has still to visit
    chain,      \* the chain in hand
    stack,      \* its frame ids so far, root first
    frames,     \* the frame table; the frame of id n is frames[n + 1]
    frameIds,   \* frame_ids: a function on the addresses seen
    samples     \* the samples built

vars == <<space, phase, counts, recorded, todo, chain, stack, frames, frameIds, samples>>

Empty == [x \in {} |-> 0]

With(f, x, y) == [z \in DOMAIN f \cup {x} |-> IF z = x THEN y ELSE f[z]]

At(f, x) == IF x \in DOMAIN f THEN f[x] ELSE 0

Init ==
    /\ space \in Spaces
    /\ phase = "record"
    /\ counts = Empty /\ recorded = Empty
    /\ todo = {} /\ chain = <<>> /\ stack = <<>>
    /\ frames = <<>> /\ frameIds = Empty /\ samples = <<>>

\* Mutant of Incremented: the count may pass the largest i64.
IncrementedBeyond(n) == n + 1

\* saturating_add
Incremented(n) == IF n = MaxCount THEN n ELSE n + 1

record_sample(c) ==
    /\ phase = "record"
    /\ At(recorded, c) < MaxDeliveries
    /\ counts' = With(counts, c, Incremented(At(counts, c)))
    /\ recorded' = With(recorded, c, At(recorded, c) + 1)
    /\ UNCHANGED <<space, phase, todo, chain, stack, frames, frameIds, samples>>

StopRecording ==
    /\ phase = "record"
    /\ phase' = "next"
    /\ todo' = DOMAIN counts
    /\ UNCHANGED <<space, counts, recorded, chain, stack, frames, frameIds, samples>>

NextChain(c) ==
    /\ phase = "next" /\ c \in todo
    /\ todo' = todo \ {c}
    /\ chain' = c /\ stack' = <<>>
    /\ phase' = "intern"
    /\ UNCHANGED <<space, counts, recorded, frames, frameIds, samples>>

resolve(ip) ==
    IF space.system = "linux" THEN resolve_mapped(space, ip) ELSE resolve_session(space, ip)

\* Mutant of Address: the chain is not turned round.
AddressFromLeaf == chain[Len(stack) + 1]

\* The chain is visited from its root, which is its last element.
Address == chain[Len(chain) - Len(stack)]

Known ==
    /\ phase = "intern" /\ Len(stack) < Len(chain)
    /\ Address \in DOMAIN frameIds
    /\ stack' = Append(stack, frameIds[Address])
    /\ UNCHANGED <<space, phase, counts, recorded, todo, chain, frames, frameIds, samples>>

\* Mutant of InternNew: the id is that of the frame after the one pushed.
InternNewOff ==
    /\ phase = "intern" /\ Len(stack) < Len(chain)
    /\ Address \notin DOMAIN frameIds
    /\ frames' = Append(frames, resolve(Address))
    /\ frameIds' = With(frameIds, Address, Len(frames'))
    /\ stack' = Append(stack, Len(frames'))
    /\ UNCHANGED <<space, phase, counts, recorded, todo, chain, samples>>

InternNew ==
    /\ phase = "intern" /\ Len(stack) < Len(chain)
    /\ Address \notin DOMAIN frameIds
    /\ IF Len(frames) > MaxId
       THEN phase' = "err" /\ UNCHANGED <<stack, frames, frameIds>>
       ELSE /\ frames' = Append(frames, resolve(Address))
            /\ frameIds' = With(frameIds, Address, Len(frames))
            /\ stack' = Append(stack, Len(frames))
            /\ UNCHANGED phase
    /\ UNCHANGED <<space, counts, recorded, todo, chain, samples>>

PushSample ==
    /\ phase = "intern" /\ Len(stack) = Len(chain)
    /\ samples' = Append(samples, [stack |-> stack, values |-> <<counts[chain]>>])
    /\ phase' = "next"
    /\ UNCHANGED <<space, counts, recorded, todo, chain, stack, frames, frameIds>>

\* Profile::validate: one value for the one kind, and no id beyond the table.
Valid ==
    \A s \in {samples[i] : i \in 1 .. Len(samples)} :
        /\ Len(s.values) = 1
        /\ \A i \in 1 .. Len(s.stack) : s.stack[i] < Len(frames)

Finish ==
    /\ phase = "next" /\ todo = {}
    /\ phase' = IF Valid THEN "done" ELSE "err"
    /\ UNCHANGED <<space, counts, recorded, todo, chain, stack, frames, frameIds, samples>>

Next ==
    \/ \E c \in Chains : record_sample(c)
    \/ StopRecording
    \/ \E c \in Chains : NextChain(c)
    \/ Known \/ InternNew \/ PushSample \/ Finish

Spec == Init /\ [][Next]_vars

-----------------------------------------------------------------------------
(* Properties                                                              *)

\* Every variable is in its range; a count is an i64.
TypeOK ==
    /\ space \in Spaces
    /\ phase \in {"record", "next", "intern", "done", "err"}
    /\ DOMAIN counts \subseteq Chains /\ DOMAIN recorded = DOMAIN counts
    /\ \A c \in DOMAIN counts : counts[c] \in 1 .. MaxCount /\ recorded[c] \in Nat \ {0}
    /\ todo \subseteq Chains /\ chain \in Chains \cup {<<>>}
    /\ stack \in Seq(Nat)
    /\ frames \in Seq([function : {NoName} \cup STRING, module : {NoModule} \cup Seq(STRING),
                      address : Nat, source : [file : {NoName} \cup STRING, line : Nat]])
    /\ DOMAIN frameIds \subseteq Nat /\ \A a \in DOMAIN frameIds : frameIds[a] \in Nat
    /\ samples \in Seq([stack : Seq(Nat), values : Seq(Nat)])

\* Interning is exact: the table has one frame per distinct address seen, under
\* the id handed out for it, with nothing unused and nothing merged.
OneFramePerAddress ==
    /\ Cardinality(DOMAIN frameIds) = Len(frames)
    /\ \A a \in DOMAIN frameIds :
          frameIds[a] < Len(frames) /\ frames[frameIds[a] + 1] = resolve(a)

Decoded(s) == [i \in 1 .. Len(s.stack) |-> frames[s.stack[i] + 1].address]
RootFirst(c) == [i \in 1 .. Len(c) |-> c[Len(c) + 1 - i]]

\* The finished profile says what was recorded: for each chain one sample, whose
\* frames are the chain's addresses root first and whose value is the number of
\* times it was delivered, in whatever order the map was visited.  build_profile
\* fails only for want of ids: what it builds always validates.
ProfileIsRecording ==
    /\ phase = "err" => Len(frames) > MaxId
    /\ phase = "done" =>
        /\ Len(samples) = Cardinality(DOMAIN recorded)
        /\ \A c \in DOMAIN recorded : \E i \in 1 .. Len(samples) :
              /\ Decoded(samples[i]) = RootFirst(c)
              /\ samples[i].values =
                     <<IF recorded[c] > MaxCount THEN MaxCount ELSE recorded[c]>>

\* A frame's function is the one its address lies in: never the name of a neighbour,
\* of an object, or of a function that ends before the address; and where nothing
\* overlaps, no name of a file that is still there is missed.
NamesExact ==
    \A i \in 1 .. Len(frames) :
        LET frame == frames[i] IN
        CASE space.system = "windows" -> NamedByDbgHelp(space, frame.address, frame.function)
          [] space.system = "linux" /\ frame.module \in DOMAIN space.files
                 /\ ~Deleted(<<"/">> \o frame.module) ->
                 Named(space, frame.address, frame.module, frame.function)
          [] OTHER -> frame.function = NoName
=============================================================================
