------------------------ MODULE ProfileBuild_proofs ------------------------
(***************************************************************************)
(* For any chains and any address space: frames are interned once, and the *)
(* finished profile says what was recorded, whatever order the counts are  *)
(* visited in.                                                             *)
(***************************************************************************)
EXTENDS ProfileBuild, Selection_proofs, FiniteSetTheorems, TLAPS

\* Every frame says which address it was made for.
LEMMA ResolvedAddress == \A a : resolve(a).address = a
<1>. TAKE a
<1>1. resolve_mapped(space, a).address = a
  BY DEF resolve_mapped
<1>2. resolve_session(space, a).address = a
  BY DEF resolve_session
<1>. QED  BY <1>1, <1>2 DEF resolve

\* A count is what was recorded, up to the largest i64.
Counted ==
    /\ DOMAIN recorded = DOMAIN counts
    /\ DOMAIN counts \subseteq Chains /\ IsFiniteSet(DOMAIN counts)
    /\ \A c \in DOMAIN counts :
          /\ recorded[c] \in Nat \ {0}
          /\ counts[c] = IF recorded[c] > MaxCount THEN MaxCount ELSE recorded[c]

Resolved == {resolve(a) : a \in Nat}

\* The frame table.
Table ==
    /\ frames \in Seq(Resolved)
    /\ DOMAIN frameIds \subseteq Nat /\ IsFiniteSet(DOMAIN frameIds)
    /\ Cardinality(DOMAIN frameIds) = Len(frames)
    /\ \A a \in DOMAIN frameIds :
          frameIds[a] \in 0 .. Len(frames) - 1 /\ frames[frameIds[a] + 1] = resolve(a)

\* The ids of s are those of the first addresses of c, from its root.
Says(s, c) ==
    \A i \in 1 .. Len(s) : s[i] < Len(frames) /\ frames[s[i] + 1].address = c[Len(c) + 1 - i]

\* The chain in hand is one of the counted that no sample has yet.
Hand ==
    phase = "intern" =>
        /\ chain \in DOMAIN counts /\ chain \notin todo
        /\ stack \in Seq(Nat) /\ Len(stack) <= Len(chain) /\ Says(stack, chain)

Visited == DOMAIN counts \ (todo \cup IF phase = "intern" THEN {chain} ELSE {})

SampleOf(s, c) ==
    s.values = <<counts[c]>> /\ Len(s.stack) = Len(c) /\ Says(s.stack, c)

\* There is one sample for each chain visited.
Built ==
    /\ todo \subseteq DOMAIN counts
    /\ samples \in Seq([stack : Seq(Nat), values : Seq(Nat)])
    /\ \A i \in 1 .. Len(samples) : \E c \in DOMAIN counts : SampleOf(samples[i], c)
    /\ phase = "record" => samples = <<>> /\ todo = {}
    /\ phase = "done" => todo = {}
    /\ phase \in {"next", "intern", "done"} =>
          /\ Len(samples) = Cardinality(Visited)
          /\ \A c \in Visited : \E i \in 1 .. Len(samples) : SampleOf(samples[i], c)

Phases ==
    /\ phase \in {"record", "next", "intern", "done", "err"}
    /\ phase = "err" => Len(frames) > MaxId

IInv == Counted /\ Table /\ Hand /\ Built /\ Phases

LEMMA InitInv == Init => IInv
<1>. SUFFICES ASSUME Init PROVE IInv
  OBVIOUS
<1>1. IsFiniteSet({}) /\ Cardinality({}) = 0
  BY FS_EmptySet
<1>2. DOMAIN Empty = {}
  BY DEF Empty
<1>3. Counted /\ Table
  BY <1>1, <1>2 DEF Init, Counted, Table
<1>4. Hand /\ Built /\ Phases
  BY DEF Init, Hand, Built, Phases
<1>. QED  BY <1>3, <1>4 DEF IInv

-----------------------------------------------------------------------------
(* Recording                                                               *)

LEMMA RecordInv == ASSUME IInv, NEW c \in Chains, record_sample(c) PROVE IInv'
<1>. USE DEF IInv, record_sample
<1>1. /\ DOMAIN counts' = DOMAIN counts \cup {c} /\ DOMAIN recorded' = DOMAIN counts'
      /\ counts'[c] = Incremented(At(counts, c)) /\ recorded'[c] = At(recorded, c) + 1
      /\ \A d \in DOMAIN counts \ {c} : counts'[d] = counts[d] /\ recorded'[d] = recorded[d]
  BY DEF With, Counted
<1>2. IsFiniteSet(DOMAIN counts')
  BY <1>1, FS_AddElement DEF Counted
<1>3. Counted'
  BY <1>1, <1>2, LimitsAssumption DEF Counted, At, Incremented
<1>4. Table' /\ Hand' /\ Phases'
  BY DEF Table, Resolved, resolve, Hand, Phases
<1>5. Built'
  BY DEF Built
<1>. QED  BY <1>3, <1>4, <1>5

LEMMA StopInv == ASSUME IInv, StopRecording PROVE IInv'
<1>. USE DEF IInv, StopRecording
<1>1. Counted' /\ Table' /\ Hand' /\ Phases'
  BY DEF Counted, Table, Resolved, resolve, Hand, Phases
<1>2. Visited' = {}
  BY DEF Visited
<1>3. Built'
  BY <1>2, FS_EmptySet DEF Built
<1>. QED  BY <1>1, <1>3

-----------------------------------------------------------------------------
(* Interning                                                               *)

LEMMA NextChainInv == ASSUME IInv, NEW c \in Chains, NextChain(c) PROVE IInv'
<1>. USE DEF IInv, NextChain
<1>1. Counted' /\ Table' /\ Phases'
  BY DEF Counted, Table, Resolved, resolve, Phases
<1>2. Hand'
  BY ChainsAssumption DEF Hand, Says, Built
<1>3. Visited' = Visited
  BY DEF Visited, Built
<1>4. \A s, d : SampleOf(s, d)' = SampleOf(s, d)
  BY DEF SampleOf, Says
<1>5. Built'
  BY <1>3, <1>4 DEF Built
<1>. QED  BY <1>1, <1>2, <1>5

LEMMA AddressIsIp == IInv /\ phase = "intern" /\ Len(stack) < Len(chain) => Address \in Nat
  BY ChainsAssumption DEF IInv, Counted, Hand, Address

\* An element of a sequence over R is in R.
LEMMA ElementOfSeq == \A R : \A q \in Seq(R) : \A i \in 1 .. Len(q) : q[i] \in R
OBVIOUS

\* What ids say of a chain they still say when the table has grown from f to g.
Reads(f, s, c) ==
    \A i \in 1 .. Len(s) : s[i] < Len(f) /\ f[s[i] + 1].address = c[Len(c) + 1 - i]

LEMMA ReadsStays ==
    ASSUME NEW f, NEW g, Len(f) \in Nat, Len(g) \in Nat, Len(g) >= Len(f),
           \A j \in 1 .. Len(f) : g[j] = f[j],
           NEW s \in Seq(Nat), NEW c, Reads(f, s, c)
    PROVE  Reads(g, s, c)
<1>. SUFFICES ASSUME NEW i \in 1 .. Len(s)
              PROVE  s[i] < Len(g) /\ g[s[i] + 1].address = c[Len(c) + 1 - i]
  BY DEF Reads
<1>1. s[i] \in Nat
  OBVIOUS
<1>2. s[i] < Len(f) /\ f[s[i] + 1].address = c[Len(c) + 1 - i]
  BY DEF Reads
<1>3. s[i] + 1 \in 1 .. Len(f)
  <2>1. Len(f) \in Nat /\ s[i] < Len(f)
    BY <1>2
  <2>. QED  BY ONLY <1>1, <2>1
<1>4. g[s[i] + 1] = f[s[i] + 1] /\ s[i] < Len(g)
  BY <1>1, <1>2, <1>3
<1>. QED  BY <1>2, <1>4

\* One more id says one more address.
LEMMA ReadsMore ==
    ASSUME NEW g, NEW s \in Seq(Nat), NEW c \in Seq(Nat), NEW id \in Nat, Reads(g, s, c),
           Len(s) < Len(c), id < Len(g), g[id + 1].address = c[Len(c) - Len(s)]
    PROVE  Reads(g, Append(s, id), c)
<1>1. /\ Len(Append(s, id)) = Len(s) + 1 /\ Append(s, id)[Len(s) + 1] = id
      /\ \A i \in 1 .. Len(s) : Append(s, id)[i] = s[i]
  OBVIOUS
<1>2. ASSUME NEW i \in 1 .. Len(s) + 1
      PROVE  /\ Append(s, id)[i] < Len(g)
             /\ g[Append(s, id)[i] + 1].address = c[Len(c) + 1 - i]
  <2>1. CASE i \in 1 .. Len(s)
    BY <1>1, <2>1 DEF Reads
  <2>2. CASE i = Len(s) + 1
    <3>1. Len(c) + 1 - i = Len(c) - Len(s)
      BY <2>2
    <3>. QED  BY <1>1, <2>2, <3>1
  <2>3. i \in 1 .. Len(s) \/ i = Len(s) + 1
    <3>1. Len(s) \in Nat /\ i \in 1 .. Len(s) + 1
      OBVIOUS
    <3>. QED  BY ONLY <3>1
  <2>. QED  BY ONLY <2>1, <2>2, <2>3
<1>. QED  BY <1>1, <1>2 DEF Reads

\* An id that stands for the next address goes on the stack.
LEMMA PushInv ==
    ASSUME IInv, phase = "intern", Len(stack) < Len(chain),
           NEW id \in Nat, stack' = Append(stack, id),
           id < Len(frames'), frames'[id + 1].address = Address,
           Len(frames') \in Nat, Len(frames') >= Len(frames),
           \A i \in 1 .. Len(frames) : frames'[i] = frames[i],
           UNCHANGED <<phase, counts, todo, chain, samples>>
    PROVE  Hand' /\ Built'
<1>. USE DEF IInv
<1>1. chain \in Seq(Nat) /\ stack \in Seq(Nat)
  BY ChainsAssumption DEF Hand, Counted
<1>2. ASSUME NEW s \in Seq(Nat), NEW c, Says(s, c) PROVE Reads(frames', s, c)
  <2>1. Reads(frames, s, c)
    BY <1>2 DEF Says, Reads
  <2>2. Len(frames) \in Nat
    BY DEF Table
  <2>. QED  BY <2>1, <2>2, ReadsStays
<1>3. Says(stack, chain)'
  <2>1. Reads(frames', stack, chain)
    BY <1>1, <1>2 DEF Hand
  <2>2. Reads(frames', Append(stack, id), chain)
    BY <1>1, <2>1, ReadsMore DEF Address
  <2>. QED  BY <2>2 DEF Says, Reads
<1>4. Hand'
  BY <1>1, <1>3 DEF Hand
<1>5. \A i \in 1 .. Len(samples) : \A c : SampleOf(samples[i], c) => SampleOf(samples[i], c)'
  <2>. SUFFICES ASSUME NEW i \in 1 .. Len(samples), NEW c, SampleOf(samples[i], c)
                PROVE  SampleOf(samples[i], c)'
    OBVIOUS
  <2>1. samples[i].stack \in Seq(Nat) /\ samples' = samples
    <3>1. samples \in Seq([stack : Seq(Nat), values : Seq(Nat)])
      BY DEF Built
    <3>2. samples[i] \in [stack : Seq(Nat), values : Seq(Nat)]
      BY <3>1, ElementOfSeq
    <3>. QED  BY <3>2
  <2>2. Says(samples[i].stack, c)
    BY DEF SampleOf
  <2>3. Reads(frames', samples[i].stack, c)
    BY <1>2, <2>1, <2>2
  <2>4. Says(samples[i].stack, c)'
    BY <2>1, <2>3 DEF Says, Reads
  <2>. QED  BY <2>1, <2>4 DEF SampleOf
<1>6. Visited' = Visited
  BY DEF Visited
<1>7. Built'
  BY <1>5, <1>6 DEF Built
<1>. QED  BY <1>4, <1>7

LEMMA KnownInv == ASSUME IInv, Known PROVE IInv'
<1>. USE DEF IInv, Known
<1>1. Counted' /\ Table' /\ Phases'
  BY DEF Counted, Table, Resolved, resolve, Phases
<1>2. /\ frameIds[Address] \in Nat /\ frameIds[Address] < Len(frames)
      /\ frames[frameIds[Address] + 1].address = Address
  BY ResolvedAddress DEF Table
<1>3. Hand' /\ Built'
  BY <1>2, PushInv DEF Table
<1>. QED  BY <1>1, <1>3

LEMMA InternNewInv == ASSUME IInv, InternNew PROVE IInv'
<1>. USE DEF IInv, InternNew
<1>1. Counted'
  BY DEF Counted
<1>2. CASE Len(frames) > MaxId
  <2>1. phase' = "err" /\ UNCHANGED <<stack, frames, frameIds>>
    BY <1>2
  <2>2. \A s, c : SampleOf(s, c)' = SampleOf(s, c)
    BY <2>1 DEF SampleOf, Says
  <2>3. Table' /\ Hand' /\ Phases'
    BY <1>2, <2>1 DEF Table, Resolved, resolve, Hand, Phases
  <2>4. Built'
    BY <2>1, <2>2 DEF Built
  <2>. QED  BY <1>1, <2>3, <2>4
<1>3. CASE ~(Len(frames) > MaxId)
  <2>1. /\ frames' = Append(frames, resolve(Address))
        /\ frameIds' = With(frameIds, Address, Len(frames))
        /\ stack' = Append(stack, Len(frames)) /\ phase' = phase /\ space' = space
    BY <1>3
  <2>2. Address \in Nat /\ resolve(Address) \in Resolved
    BY AddressIsIp DEF Resolved
  <2>3. \A a : resolve(a)' = resolve(a)
    BY <2>1 DEF resolve
  <2>4. Resolved' = Resolved
    BY <2>3 DEF Resolved
  <2>5. /\ frames' \in Seq(Resolved) /\ Len(frames') = Len(frames) + 1
        /\ frames'[Len(frames) + 1] = resolve(Address)
        /\ \A i \in 1 .. Len(frames) : frames'[i] = frames[i]
    BY <2>1, <2>2 DEF Table
  <2>6. /\ DOMAIN frameIds' = DOMAIN frameIds \cup {Address}
        /\ frameIds'[Address] = Len(frames)
        /\ \A a \in DOMAIN frameIds : frameIds'[a] = frameIds[a]
    BY <2>1 DEF With
  <2>7. IsFiniteSet(DOMAIN frameIds') /\ Cardinality(DOMAIN frameIds') = Len(frames')
    <3>1. Address \notin DOMAIN frameIds /\ IsFiniteSet(DOMAIN frameIds)
      BY DEF Table
    <3>2. /\ IsFiniteSet(DOMAIN frameIds \cup {Address})
          /\ Cardinality(DOMAIN frameIds \cup {Address}) = Cardinality(DOMAIN frameIds) + 1
      BY <3>1, FS_AddElement
    <3>. QED  BY <2>5, <2>6, <3>2 DEF Table
  <2>8. Table'
    <3>1. /\ Len(frames) \in Nat
          /\ \A a \in DOMAIN frameIds :
                frameIds[a] \in 0 .. Len(frames) - 1 /\ frames[frameIds[a] + 1] = resolve(a)
      BY DEF Table
    <3>2. ASSUME NEW a \in DOMAIN frameIds'
          PROVE  /\ frameIds'[a] \in 0 .. Len(frames') - 1
                 /\ frames'[frameIds'[a] + 1] = resolve(a)
      <4>1. CASE a = Address
        BY <2>5, <2>6, <3>1, <4>1
      <4>2. CASE a \in DOMAIN frameIds
        <5>1. frameIds'[a] = frameIds[a] /\ frameIds[a] + 1 \in 1 .. Len(frames)
          BY <2>6, <3>1, <4>2
        <5>. QED  BY <2>5, <3>1, <4>2, <5>1
      <4>. QED  BY <2>6, <4>1, <4>2
    <3>3. DOMAIN frameIds' \subseteq Nat
      BY <2>2, <2>6 DEF Table
    <3>. QED  BY <2>3, <2>4, <2>5, <2>7, <3>2, <3>3 DEF Table
  <2>9. Hand' /\ Built'
    BY <2>1, <2>5, PushInv, ResolvedAddress DEF Table
  <2>10. Phases'
    BY <2>1 DEF Phases
  <2>. QED  BY <1>1, <2>8, <2>9, <2>10
<1>. QED  BY <1>2, <1>3

-----------------------------------------------------------------------------
(* Samples                                                                 *)

LEMMA PushSampleInv == ASSUME IInv, PushSample PROVE IInv'
<1>. USE DEF IInv, PushSample
<1>1. Counted' /\ Table' /\ Hand' /\ Phases'
  BY DEF Counted, Table, Resolved, resolve, Hand, Phases
<1>2. chain \in DOMAIN counts /\ chain \notin todo /\ counts[chain] \in Nat
  BY LimitsAssumption DEF Hand, Counted
<1>3. DEFINE s == [stack |-> stack, values |-> <<counts[chain]>>]
<1>4. s \in [stack : Seq(Nat), values : Seq(Nat)] /\ SampleOf(s, chain)
  BY <1>2 DEF Hand, SampleOf
<1>5. /\ samples' \in Seq([stack : Seq(Nat), values : Seq(Nat)])
      /\ Len(samples') = Len(samples) + 1 /\ samples'[Len(samples) + 1] = s
      /\ \A i \in 1 .. Len(samples) : samples'[i] = samples[i]
  BY <1>4 DEF Built
<1>6. \A x, c : SampleOf(x, c)' = SampleOf(x, c)
  BY DEF SampleOf, Says
<1>7. Visited' = Visited \cup {chain} /\ chain \notin Visited
  BY <1>2 DEF Visited
<1>8. IsFiniteSet(Visited)
  BY FS_Subset DEF Counted, Visited
<1>9. Len(samples') = Cardinality(Visited')
  <2>1. Cardinality(Visited \cup {chain}) = Cardinality(Visited) + 1
    BY <1>7, <1>8, FS_AddElement
  <2>2. Len(samples) = Cardinality(Visited)
    BY DEF Built
  <2>. QED  BY <1>5, <1>7, <2>1, <2>2
<1>10. \A c \in Visited' : \E i \in 1 .. Len(samples') : SampleOf(samples'[i], c)
  BY <1>4, <1>5, <1>7 DEF Built
<1>11. \A i \in 1 .. Len(samples') : \E c \in DOMAIN counts : SampleOf(samples'[i], c)
  <2>1. Len(samples) \in Nat
    BY DEF Built
  <2>2. \A i \in 1 .. Len(samples) : \E c \in DOMAIN counts : SampleOf(samples[i], c)
    BY DEF Built
  <2>. HIDE DEF s, IInv
  <2>3. ASSUME NEW i \in 1 .. Len(samples')
        PROVE  \E c \in DOMAIN counts : SampleOf(samples'[i], c)
    <3>1. CASE i \in 1 .. Len(samples)
      BY <1>5, <2>2, <3>1
    <3>2. CASE i = Len(samples) + 1
      BY <1>2, <1>4, <1>5, <3>2
    <3>3. i \in 1 .. Len(samples) \/ i = Len(samples) + 1
      BY <1>5, <2>1
    <3>. QED  BY ONLY <3>1, <3>2, <3>3
  <2>. QED  BY <2>3
<1>12. Built'
  BY <1>5, <1>6, <1>9, <1>10, <1>11 DEF Built
<1>. QED  BY <1>1, <1>12

\* What was built validates.
LEMMA BuiltIsValid == IInv => Valid
<1>. SUFFICES ASSUME IInv, NEW i \in 1 .. Len(samples)
              PROVE  /\ Len(samples[i].values) = 1
                     /\ \A j \in 1 .. Len(samples[i].stack) : samples[i].stack[j] < Len(frames)
  BY DEF Valid
<1>1. PICK c \in DOMAIN counts : SampleOf(samples[i], c)
  BY DEF IInv, Built
<1>. QED  BY <1>1 DEF SampleOf, Says

LEMMA FinishInv == ASSUME IInv, Finish PROVE IInv'
<1>. USE DEF IInv, Finish
<1>1. phase' = "done"
  BY BuiltIsValid
<1>2. Counted' /\ Table' /\ Hand' /\ Phases'
  BY <1>1 DEF Counted, Table, Resolved, resolve, Hand, Phases
<1>3. Visited' = Visited
  BY <1>1 DEF Visited
<1>4. \A s, c : SampleOf(s, c)' = SampleOf(s, c)
  BY DEF SampleOf, Says
<1>5. Built'
  BY <1>1, <1>3, <1>4 DEF Built
<1>. QED  BY <1>2, <1>5

LEMMA NextInv == IInv /\ [Next]_vars => IInv'
<1>. SUFFICES ASSUME IInv, [Next]_vars PROVE IInv'
  OBVIOUS
<1>1. CASE Next
  BY <1>1, RecordInv, StopInv, NextChainInv, KnownInv, InternNewInv, PushSampleInv, FinishInv
     DEF Next
<1>2. CASE UNCHANGED vars
  <2>1. Counted' /\ Table' /\ Hand' /\ Phases'
    BY <1>2 DEF vars, IInv, Counted, Table, Resolved, resolve, Hand, Says, Phases
  <2>2. Visited' = Visited /\ \A s, c : SampleOf(s, c)' = SampleOf(s, c)
    BY <1>2 DEF vars, Visited, SampleOf, Says
  <2>3. Built'
    BY <1>2, <2>2 DEF vars, IInv, Built
  <2>. QED  BY <2>1, <2>3 DEF IInv
<1>. QED  BY <1>1, <1>2

LEMMA SpecInv == Spec => []IInv
  BY InitInv, NextInv, PTL DEF Spec

\* build_profile interns each address once.
THEOREM InternedOnce == Spec => []OneFramePerAddress
<1>1. IInv => OneFramePerAddress
  BY DEF IInv, Table, OneFramePerAddress
<1>. QED  BY <1>1, SpecInv, PTL

\* What build_profile returns is what record_sample was given.
THEOREM Recorded == Spec => []ProfileIsRecording
<1>1. IInv => ProfileIsRecording
  <2>. SUFFICES ASSUME IInv PROVE ProfileIsRecording
    OBVIOUS
  <2>. USE DEF IInv
  <2>1. ASSUME phase = "done" PROVE Len(samples) = Cardinality(DOMAIN recorded)
    BY <2>1 DEF Built, Visited, Counted
  <2>2. ASSUME phase = "done", NEW c \in DOMAIN recorded
        PROVE  \E i \in 1 .. Len(samples) :
                  /\ Decoded(samples[i]) = RootFirst(c)
                  /\ samples[i].values =
                         <<IF recorded[c] > MaxCount THEN MaxCount ELSE recorded[c]>>
    <3>1. PICK i \in 1 .. Len(samples) : SampleOf(samples[i], c)
      BY <2>2 DEF Built, Visited, Counted
    <3>2. Decoded(samples[i]) = RootFirst(c)
      BY <3>1 DEF SampleOf, Says, Decoded, RootFirst
    <3>. QED  BY <2>2, <3>1, <3>2 DEF SampleOf, Counted
  <2>. QED  BY <2>1, <2>2 DEF ProfileIsRecording, Phases
<1>. QED  BY <1>1, SpecInv, PTL

-----------------------------------------------------------------------------
(* Names: Linux                                                            *)

Executable(m) == "x" \in m.perms /\ Absolute(m.path)

Around(m, ip) == m.start <= ip /\ ip < m.end

LEMMA ParsedMaps ==
    ASSUME NEW maps \in Seq(Regions)
    PROVE  /\ parse_maps(maps) \in Seq(Regions)
           /\ \A m : m \in ToSet(parse_maps(maps)) <=> m \in ToSet(maps) /\ Executable(m)
<1>. DEFINE S == {i \in 1 .. Len(maps) : Executable(maps[i])}
<1>1. parse_maps(maps) = Chosen(maps, S)
  BY DEF parse_maps, Only, Executable
<1>2. /\ Chosen(maps, S) \in Seq(Regions)
      /\ \A m : m \in ToSet(Chosen(maps, S)) <=> \E k \in 1 .. Len(maps) : k \in S /\ m = maps[k]
  <2>. HIDE DEF S
  <2>. QED  BY ChosenElements, ChosenSet
<1>3. \A m : m \in ToSet(maps) <=> \E k \in 1 .. Len(maps) : m = maps[k]
  BY DEF ToSet
<1>. QED  BY <1>1, <1>2, <1>3

Entries(maps, ip) ==
    LET parsed == parse_maps(maps)
    IN  Chosen(parsed, {i \in 1 .. Len(parsed) : Around(parsed[i], ip)})

\* The lines that are kept and around an address.
LEMMA EntriesAre ==
    ASSUME NEW maps \in Seq(Regions), NEW ip
    PROVE  /\ Entries(maps, ip) \in Seq(Regions)
           /\ \A m : m \in ToSet(Entries(maps, ip)) <=>
                       m \in ToSet(maps) /\ Executable(m) /\ Around(m, ip)
<1>. DEFINE q == parse_maps(maps)
            S == {i \in 1 .. Len(q) : Around(q[i], ip)}
<1>1. q \in Seq(Regions) /\ \A m : m \in ToSet(q) <=> m \in ToSet(maps) /\ Executable(m)
  BY ParsedMaps
<1>2. Entries(maps, ip) = Chosen(q, S)
  BY DEF Entries
<1>. HIDE DEF q
<1>3. /\ Chosen(q, S) \in Seq(Regions)
      /\ \A m : m \in ToSet(Chosen(q, S)) <=> \E k \in 1 .. Len(q) : k \in S /\ m = q[k]
  <2>. HIDE DEF S
  <2>. QED  BY <1>1, ChosenElements, ChosenSet
<1>4. \A m : m \in ToSet(q) <=> \E k \in 1 .. Len(q) : m = q[k]
  BY <1>1 DEF ToSet
<1>. QED  BY <1>1, <1>2, <1>3, <1>4

IsFunction(s) == s.kind = "text" /\ s.vaddr # 0 /\ s.name # ""

\* The functions a module keeps are those of its file.
LEMMA LoadedFuncsAre ==
    ASSUME NEW file \in ElfFiles
    PROVE  /\ LoadedFuncs(file) \in Seq(Symbols)
           /\ \A s : s \in ToSet(LoadedFuncs(file)) <=> s \in FunctionsOf(file)
<1>. DEFINE both == file.symbols \o file.dynamic
            S == {i \in 1 .. Len(both) : IsFunction(both[i])}
<1>1. /\ both \in Seq(Symbols)
      /\ \A s : s \in ToSet(both) <=> s \in ToSet(file.symbols) \/ s \in ToSet(file.dynamic)
  <2>1. file.symbols \in Seq(Symbols) /\ file.dynamic \in Seq(Symbols)
    BY DEF ElfFiles
  <2>2. both \in Seq(Symbols)
    BY <2>1
  <2>. QED  BY <2>1, <2>2, ConcatSet
<1>2. LoadedFuncs(file) = Chosen(both, S)
  BY DEF LoadedFuncs, Only, IsFunction
<1>. HIDE DEF both
<1>3. /\ Chosen(both, S) \in Seq(Symbols)
      /\ \A s : s \in ToSet(Chosen(both, S)) <=> \E k \in 1 .. Len(both) : k \in S /\ s = both[k]
  <2>. HIDE DEF S
  <2>. QED  BY <1>1, ChosenElements, ChosenSet
<1>4. \A s : s \in ToSet(both) <=> \E k \in 1 .. Len(both) : s = both[k]
  BY <1>1 DEF ToSet
<1>5. \A s : s \in FunctionsOf(file) <=> s \in ToSet(both) /\ IsFunction(s)
  BY <1>1 DEF FunctionsOf, IsFunction
<1>. QED  BY <1>2, <1>3, <1>4, <1>5

LEMMA LoadedSegmentsAre ==
    ASSUME NEW file \in ElfFiles
    PROVE  /\ LoadedSegments(file) \in Seq(Segments)
           /\ \A l : l \in ToSet(LoadedSegments(file)) <=> l \in ToSet(file.segments) /\ l.size > 0
<1>. DEFINE q == file.segments
            S == {i \in 1 .. Len(q) : q[i].size > 0}
<1>1. q \in Seq(Segments)
  BY DEF ElfFiles
<1>2. LoadedSegments(file) = Chosen(q, S)
  BY DEF LoadedSegments, Only
<1>. HIDE DEF q
<1>3. /\ Chosen(q, S) \in Seq(Segments)
      /\ \A l : l \in ToSet(Chosen(q, S)) <=> \E k \in 1 .. Len(q) : k \in S /\ l = q[k]
  <2>. HIDE DEF S
  <2>. QED  BY <1>1, ChosenElements, ChosenSet
<1>4. \A l : l \in ToSet(q) <=> \E k \in 1 .. Len(q) : l = q[k]
  BY <1>1 DEF ToSet
<1>5. \A l : l \in ToSet(LoadedSegments(file)) <=> l \in ToSet(q) /\ l.size > 0
  BY <1>2, <1>3, <1>4
<1>. QED  BY <1>2, <1>3, <1>5 DEF q

\* An offset is translated by a segment around it, and if there is one it is translated.
LEMMA Translated ==
    ASSUME NEW loads \in Seq(Segments), NEW offset \in Nat
    PROVE  /\ \A v \in file_offset_to_vaddr(loads, offset) : \E l \in ToSet(loads) :
                 Holds(l, offset) /\ v = offset - l.offset + l.vaddr
           /\ (\E l \in ToSet(loads) : Holds(l, offset)) =>
                 file_offset_to_vaddr(loads, offset) # {}
<1>1. /\ Len(loads) \in Nat /\ DOMAIN loads = 1 .. Len(loads)
      /\ \A i \in 1 .. Len(loads) : loads[i] \in Segments /\ loads[i] \in ToSet(loads)
  BY DEF ToSet
<1>2. ASSUME NEW v \in file_offset_to_vaddr(loads, offset)
      PROVE  \E l \in ToSet(loads) : Holds(l, offset) /\ v = offset - l.offset + l.vaddr
  <2>1. PICK i \in 1 .. Len(loads) :
            FirstHolding(loads, offset, i) /\ v = offset - loads[i].offset + loads[i].vaddr
    BY DEF file_offset_to_vaddr
  <2>. QED  BY <1>1, <2>1 DEF FirstHolding
<1>3. ASSUME NEW l \in ToSet(loads), Holds(l, offset)
      PROVE  file_offset_to_vaddr(loads, offset) # {}
  <2>. DEFINE I == {i \in 1 .. Len(loads) : Holds(loads[i], offset)}
              k == [i \in 1 .. Len(loads) |-> loads[i].offset]
  <2>1. I \subseteq Nat /\ I # {} /\ \A i \in I : k[i] \in Nat
    <3>1. PICK i \in 1 .. Len(loads) : l = loads[i]
      BY <1>1 DEF ToSet
    <3>2. \A j \in 1 .. Len(loads) : loads[j].offset \in Nat
      BY <1>1 DEF Segments
    <3>. QED  BY <1>3, <3>1, <3>2
  <2>2. PICK i \in I : \A j \in I : k[i] < k[j] \/ (k[i] = k[j] /\ i <= j)
    <3>. HIDE DEF I, k
    <3>. QED  BY <2>1, LeastKey
  <2>3. FirstHolding(loads, offset, i) /\ i \in 1 .. Len(loads)
    BY <2>2 DEF FirstHolding
  <2>. QED  BY <2>3 DEF file_offset_to_vaddr
<1>. QED  BY <1>2, <1>3

\* Some function is the nearest, if any starts at or below the address.
LEMMA NearestExists ==
    ASSUME NEW funcs \in Seq(Symbols), NEW v \in Nat, NEW s \in ToSet(funcs), s.vaddr <= v
    PROVE  \E j \in 1 .. Len(funcs) : Nearest(funcs, v, j)
<1>1. /\ Len(funcs) \in Nat /\ DOMAIN funcs = 1 .. Len(funcs)
      /\ \A i \in 1 .. Len(funcs) : funcs[i].vaddr \in Nat
  <2>1. \A i \in 1 .. Len(funcs) : funcs[i] \in Symbols
    OBVIOUS
  <2>. QED  BY <2>1 DEF Symbols
<1>. DEFINE I == {i \in 1 .. Len(funcs) : funcs[i].vaddr <= v}
            k == [i \in 1 .. Len(funcs) |-> funcs[i].vaddr]
<1>2. I \subseteq 0 .. Len(funcs) /\ I # {} /\ \A i \in I : k[i] \in 0 .. v
  <2>1. PICK i \in 1 .. Len(funcs) : s = funcs[i]
    BY <1>1 DEF ToSet
  <2>. QED  BY <1>1, <2>1
<1>3. PICK i \in I : \A j \in I : k[j] < k[i] \/ (k[j] = k[i] /\ j <= i)
  <2>. HIDE DEF I, k
  <2>. QED  BY <1>1, <1>2, LargestKey
<1>4. Nearest(funcs, v, i) /\ i \in 1 .. Len(funcs)
  BY <1>3 DEF Nearest
<1>. QED  BY <1>4

\* At most one line is around an address.
LEMMA OneLine ==
    ASSUME NEW maps \in Seq(Regions),
           \A i, j \in 1 .. Len(maps) :
              i < j => maps[i].end <= maps[j].start \/ maps[j].end <= maps[i].start,
           NEW ip \in Nat, NEW m \in ToSet(maps), NEW n \in ToSet(maps),
           Around(m, ip), Around(n, ip)
    PROVE  m = n
<1>1. PICK i \in 1 .. Len(maps) : m = maps[i]
  BY DEF ToSet
<1>2. PICK j \in 1 .. Len(maps) : n = maps[j]
  BY DEF ToSet
<1>3. m \in Regions /\ n \in Regions
  BY <1>1, <1>2
<1>4. m.start \in Nat /\ m.end \in Nat /\ n.start \in Nat /\ n.end \in Nat
  BY <1>3 DEF Regions
<1>5. ~(m.end <= n.start) /\ ~(n.end <= m.start)
  BY <1>4 DEF Around
<1>6. ~(i < j) /\ ~(j < i)
  BY <1>1, <1>2, <1>5
<1>. QED  BY <1>1, <1>2, <1>6

\* v is where the segment l has what the line m maps at ip.
Linked(m, l, ip, v) ==
    LET offset == ip - m.start + m.offset
    IN  l.size > 0 /\ Holds(l, offset) /\ v = offset - l.offset + l.vaddr

MapsFile(m, f) == m.path = <<"/">> \o f /\ "x" \in m.perms

LEMMA LinkedAtIs ==
    ASSUME NEW sp, NEW ip, NEW f
    PROVE  \A v : v \in LinkedAt(sp, ip, f) <=>
              \E m \in ToSet(sp.maps) : \E l \in ToSet(sp.files[f].segments) :
                 MapsFile(m, f) /\ Around(m, ip) /\ Linked(m, l, ip, v)
BY DEF LinkedAt, Around, MapsFile, Linked

\* The path of a line that is kept, and its name.
LEMMA AbsolutePath ==
    ASSUME NEW path \in Seq(STRING), Absolute(path)
    PROVE  basename(path) = Tail(path) /\ path = <<"/">> \o Tail(path)
           /\ Tail(path) \in Seq(STRING)
<1>1. path # <<>> /\ path[1] = "/"
  BY DEF Absolute
<1>2. Tail(path) \in Seq(STRING) /\ path = <<path[1]>> \o Tail(path)
  BY <1>1
<1>. QED  BY <1>1, <1>2 DEF basename

\* What the module of a file answers for an offset, whose address in the file is v.
Answers(file, offset) ==
    function_at([loads |-> LoadedSegments(file), funcs |-> LoadedFuncs(file)], offset)

\* An answer is the name of the nearest function, around the address if it has a size.
LEMMA AnswersAre ==
    ASSUME NEW file \in ElfFiles, NEW offset \in Nat
    PROVE  \A name \in Answers(file, offset) :
              \E l \in ToSet(file.segments), s \in FunctionsOf(file) :
                 LET v == offset - l.offset + l.vaddr IN
                 /\ l.size > 0 /\ Holds(l, offset)
                 /\ name = s.name /\ s.vaddr <= v /\ InSize(s, v)
                 /\ \A r \in FunctionsOf(file) : r.vaddr <= s.vaddr \/ v < r.vaddr
<1>. DEFINE loads == LoadedSegments(file)
            funcs == LoadedFuncs(file)
<1>1. /\ loads \in Seq(Segments) /\ funcs \in Seq(Symbols)
      /\ \A l : l \in ToSet(loads) <=> l \in ToSet(file.segments) /\ l.size > 0
      /\ \A s : s \in ToSet(funcs) <=> s \in FunctionsOf(file)
  BY LoadedFuncsAre, LoadedSegmentsAre
<1>2. Answers(file, offset) = {funcs[i].name : i \in
          {j \in 1 .. Len(funcs) : \E v \in file_offset_to_vaddr(loads, offset) :
              Nearest(funcs, v, j) /\ InSize(funcs[j], v)}}
  BY DEF Answers, function_at
<1>. HIDE DEF loads, funcs
<1>3. ASSUME NEW name \in Answers(file, offset)
      PROVE  \E l \in ToSet(file.segments), s \in FunctionsOf(file) :
                LET v == offset - l.offset + l.vaddr IN
                /\ l.size > 0 /\ Holds(l, offset)
                /\ name = s.name /\ s.vaddr <= v /\ InSize(s, v)
                /\ \A r \in FunctionsOf(file) : r.vaddr <= s.vaddr \/ v < r.vaddr
  <2>1. PICK i \in 1 .. Len(funcs), v \in file_offset_to_vaddr(loads, offset) :
            name = funcs[i].name /\ Nearest(funcs, v, i) /\ InSize(funcs[i], v)
    BY <1>2
  <2>2. PICK l \in ToSet(loads) : Holds(l, offset) /\ v = offset - l.offset + l.vaddr
    BY <1>1, Translated
  <2>3. funcs[i] \in ToSet(funcs) /\ funcs[i].vaddr <= v
    BY <1>1, <2>1 DEF ToSet, Nearest
  <2>4. v \in Nat
    <3>1. l \in Segments
      BY <1>1, <2>2 DEF ToSet
    <3>. QED  BY <2>2, <3>1 DEF Segments, Holds
  <2>5. ASSUME NEW r \in FunctionsOf(file) PROVE r.vaddr <= funcs[i].vaddr \/ v < r.vaddr
    <3>1. PICK j \in 1 .. Len(funcs) : r = funcs[j]
      BY <1>1 DEF ToSet
    <3>2. r \in Symbols /\ funcs[i] \in Symbols
      BY <1>1, <3>1
    <3>3. r.vaddr \in Nat /\ funcs[i].vaddr \in Nat
      BY <3>2 DEF Symbols
    <3>4. r.vaddr <= v => r.vaddr < funcs[i].vaddr \/ r.vaddr = funcs[i].vaddr
      BY <2>1, <3>1 DEF Nearest
    <3>. QED  BY ONLY <2>4, <3>3, <3>4
  <2>. QED  BY <1>1, <2>1, <2>2, <2>3, <2>5
<1>. QED  BY <1>3

\* Where a file is linked at v alone, an address in a function that no other starts in
\* gets its name, and no other answer.
LEMMA NoneMissed ==
    ASSUME NEW file \in ElfFiles, NEW offset \in Nat, NEW v, Disjoint(FunctionsOf(file)),
           NEW l \in ToSet(file.segments), l.size > 0, Holds(l, offset),
           \A k \in ToSet(file.segments) :
              k.size > 0 /\ Holds(k, offset) => offset - k.offset + k.vaddr = v,
           NEW s \in FunctionsOf(file), s.vaddr <= v, v < s.vaddr + s.size
    PROVE  Answers(file, offset) = {s.name}
<1>. DEFINE loads == LoadedSegments(file)
            funcs == LoadedFuncs(file)
<1>1. /\ loads \in Seq(Segments) /\ funcs \in Seq(Symbols)
      /\ \A k \in ToSet(loads) : k \in ToSet(file.segments) /\ k.size > 0
      /\ l \in ToSet(loads)
      /\ \A r : r \in ToSet(funcs) <=> r \in FunctionsOf(file)
  BY LoadedFuncsAre, LoadedSegmentsAre
<1>2. Answers(file, offset) = {funcs[i].name : i \in
          {j \in 1 .. Len(funcs) : \E w \in file_offset_to_vaddr(loads, offset) :
              Nearest(funcs, w, j) /\ InSize(funcs[j], w)}}
  BY DEF Answers, function_at
<1>. HIDE DEF loads, funcs
<1>3. l \in Segments /\ v \in Nat
  <2>1. l \in Segments
    BY <1>1 DEF ToSet
  <2>2. v = offset - l.offset + l.vaddr
    OBVIOUS
  <2>. QED  BY <2>1, <2>2 DEF Segments, Holds
<1>4. file_offset_to_vaddr(loads, offset) = {v}
  <2>1. \A w \in file_offset_to_vaddr(loads, offset) : w = v
    BY <1>1, Translated
  <2>2. file_offset_to_vaddr(loads, offset) # {}
    BY <1>1, Translated
  <2>. QED  BY <2>1, <2>2
<1>5. ASSUME NEW i \in 1 .. Len(funcs), Nearest(funcs, v, i) PROVE funcs[i] = s
  <2>1. funcs[i] \in FunctionsOf(file)
    BY <1>1 DEF ToSet
  <2>2. PICK k \in 1 .. Len(funcs) : s = funcs[k]
    BY <1>1 DEF ToSet
  <2>3. funcs[i] \in Symbols /\ s \in Symbols
    BY <1>1, <2>2
  <2>4. /\ funcs[i].vaddr \in Nat /\ s.vaddr \in Nat /\ s.size \in Nat
        /\ funcs[i].vaddr <= v
        /\ s.vaddr < funcs[i].vaddr \/ s.vaddr = funcs[i].vaddr
    BY <1>5, <2>2, <2>3 DEF Symbols, Nearest
  <2>5. s.vaddr <= funcs[i].vaddr /\ funcs[i].vaddr < s.vaddr + s.size
    BY <1>3, <2>4
  <2>. QED  BY <2>1, <2>5 DEF Disjoint
<1>6. InSize(s, v)
  BY DEF InSize
<1>7. PICK i \in 1 .. Len(funcs) : Nearest(funcs, v, i)
  <2>1. s \in ToSet(funcs)
    BY <1>1
  <2>. QED  BY <1>1, <1>3, <2>1, NearestExists
<1>8. \A name : name \in Answers(file, offset) <=> name = s.name
  BY <1>2, <1>4, <1>5, <1>6, <1>7
<1>. QED  BY <1>8

\* The frame the code makes, and the reference.
NamedFrame(sp, ip, frame) ==
    LET there == frame.module \in DOMAIN sp.files /\ ~Deleted(<<"/">> \o frame.module)
    IN  /\ there => Named(sp, ip, frame.module, frame.function)
        /\ ~there => frame.function = NoName

LEMMA NamedOnLinux ==
    ASSUME NEW sp, IsLinuxSpace(sp), NEW ip \in Nat
    PROVE  NamedFrame(sp, ip, resolve_mapped(sp, ip))
<1>. DEFINE entry == Entries(sp.maps, ip)
            frame == resolve_mapped(sp, ip)
<1>1. /\ sp.maps \in Seq(Regions)
      /\ \A f \in DOMAIN sp.files : f \in Seq(STRING) /\ sp.files[f] \in ElfFiles
  BY DEF IsLinuxSpace
<1>2. /\ entry \in Seq(Regions)
      /\ \A m : m \in ToSet(entry) <=> m \in ToSet(sp.maps) /\ Executable(m) /\ Around(m, ip)
  BY <1>1, EntriesAre
<1>3. frame = IF entry = <<>>
              THEN [function |-> NoName, module |-> NoModule, source |-> NoSource, address |-> ip]
              ELSE [function |-> TheName(UNION {
                        function_at(module, ip - entry[1].start + entry[1].offset) :
                           module \in load(sp.files, entry[1].path)}),
                    module |-> basename(entry[1].path), source |-> NoSource, address |-> ip]
  BY DEF resolve_mapped, Entries, Only, Around
<1>. HIDE DEF entry, frame
<1>4. CASE entry = <<>>
  <2>1. frame.function = NoName /\ frame.module = NoModule
    BY <1>3, <1>4
  <2>2. \A v : v \notin LinkedAt(sp, ip, NoModule)
    <3>1. ASSUME NEW m \in ToSet(sp.maps), m.path = <<"/">> \o NoModule, "x" \in m.perms,
                 Around(m, ip)
          PROVE  FALSE
      <4>1. \A x, y : <<x>> \o <<y>> # <<>> /\ (<<x>> \o <<y>>)[1] = x
        OBVIOUS
      <4>2. Absolute(m.path)
        BY <3>1, <4>1 DEF Absolute, NoModule
      <4>3. m \in ToSet(entry)
        BY <1>2, <3>1, <4>2 DEF Executable
      <4>. QED  BY <1>4, <4>3 DEF ToSet
    <3>. QED  BY <3>1, LinkedAtIs DEF MapsFile
  <2>3. \A s : ~Covers(sp, ip, NoModule, s)
    BY <2>2 DEF Covers
  <2>4. Named(sp, ip, NoModule, NoName)
    BY <2>3 DEF Named
  <2>. QED  BY <2>1, <2>4 DEF NamedFrame, frame
<1>5. CASE entry # <<>>
  <2>. DEFINE m == entry[1]
              offset == ip - m.start + m.offset
  <2>1. m \in ToSet(sp.maps) /\ Executable(m) /\ Around(m, ip) /\ m \in Regions
    <3>1. 1 \in DOMAIN entry
      BY <1>2, <1>5
    <3>2. m \in ToSet(entry) /\ m \in Regions
      BY <1>2, <3>1 DEF ToSet
    <3>. QED  BY <1>2, <3>2
  <2>. DEFINE f == Tail(m.path)
  <2>2. /\ basename(m.path) = f /\ m.path = <<"/">> \o f /\ f \in Seq(STRING)
        /\ "x" \in m.perms /\ Absolute(m.path)
    <3>1. m.path \in Seq(STRING)
      BY <2>1 DEF Regions
    <3>. QED  BY <2>1, <3>1, AbsolutePath DEF Executable
  <2>3. offset \in Nat
    BY <2>1 DEF Regions, Around
  <2>4. /\ frame.module = f
        /\ frame.function = TheName(UNION {function_at(module, offset) :
                                             module \in load(sp.files, m.path)})
    BY <1>3, <1>5, <2>2
  <2>. HIDE DEF m
  <2>5. CASE f \in DOMAIN sp.files /\ ~Deleted(m.path)
    <3>. DEFINE file == sp.files[f]
    <3>1. file \in ElfFiles
      BY <1>1, <2>5
    <3>2. frame.function = TheName(Answers(file, offset))
      <4>1. load(sp.files, m.path) = {[loads |-> LoadedSegments(file), funcs |-> LoadedFuncs(file)]}
        BY <2>2, <2>5 DEF load
      <4>2. UNION {function_at(module, offset) : module \in load(sp.files, m.path)}
                = Answers(file, offset)
        BY <4>1 DEF Answers
      <4>. QED  BY <2>4, <4>2
    <3>3. \A l \in ToSet(file.segments) : l.size > 0 /\ Holds(l, offset) =>
             offset - l.offset + l.vaddr \in LinkedAt(sp, ip, f)
      <4>1. MapsFile(m, f)
        BY <2>2 DEF MapsFile
      <4>2. ASSUME NEW l \in ToSet(file.segments), l.size > 0, Holds(l, offset)
            PROVE  offset - l.offset + l.vaddr \in LinkedAt(sp, ip, f)
        <5>1. Linked(m, l, ip, offset - l.offset + l.vaddr)
          BY <4>2 DEF Linked
        <5>. HIDE DEF offset
        <5>. QED  BY <2>1, <4>1, <5>1, LinkedAtIs
      <4>. QED  BY <4>2
    <3>4. ASSUME NEW v \in LinkedAt(sp, ip, f)
          PROVE  \E l \in ToSet(file.segments) :
                    l.size > 0 /\ Holds(l, offset) /\ v = offset - l.offset + l.vaddr
      <4>1. PICK n \in ToSet(sp.maps), l \in ToSet(file.segments) :
                Around(n, ip) /\ Linked(n, l, ip, v)
        BY LinkedAtIs
      <4>2. n = m
        BY <2>1, <4>1, OneLine DEF IsLinuxSpace
      <4>3. l.size > 0 /\ Holds(l, offset) /\ v = offset - l.offset + l.vaddr
        BY <4>1, <4>2 DEF Linked
      <4>. QED  BY <4>3
    <3>5. ASSUME frame.function # NoName
          PROVE  \E s \in FunctionsOf(file) :
                    /\ s.name = frame.function
                    /\ Covers(sp, ip, f, s) \/ Reaches(sp, ip, f, s)
      <4>1. frame.function \in Answers(file, offset)
        BY <3>2, <3>5 DEF TheName
      <4>2. PICK l \in ToSet(file.segments), s \in FunctionsOf(file) :
                LET v == offset - l.offset + l.vaddr IN
                /\ l.size > 0 /\ Holds(l, offset)
                /\ frame.function = s.name /\ s.vaddr <= v /\ InSize(s, v)
                /\ \A r \in FunctionsOf(file) : r.vaddr <= s.vaddr \/ v < r.vaddr
        BY <2>3, <3>1, <4>1, AnswersAre
      <4>3. Covers(sp, ip, f, s) \/ Reaches(sp, ip, f, s)
        BY <3>3, <4>2 DEF Covers, Reaches, InSize
      <4>. QED  BY <4>2, <4>3
    <3>6. ASSUME Disjoint(FunctionsOf(file)), \A v, w \in LinkedAt(sp, ip, f) : v = w,
                 NEW s \in FunctionsOf(file), Covers(sp, ip, f, s)
          PROVE  frame.function = s.name
      <4>1. PICK v \in LinkedAt(sp, ip, f) : s.vaddr <= v /\ v < s.vaddr + s.size
        BY <3>6 DEF Covers
      <4>2. PICK l \in ToSet(file.segments) :
                l.size > 0 /\ Holds(l, offset) /\ v = offset - l.offset + l.vaddr
        BY <3>4
      <4>3. \A k \in ToSet(file.segments) :
               k.size > 0 /\ Holds(k, offset) => offset - k.offset + k.vaddr = v
        BY <3>3, <3>6
      <4>4. Answers(file, offset) = {s.name}
        BY <2>3, <3>1, <3>6, <4>1, <4>2, <4>3, NoneMissed
      <4>. QED  BY <3>2, <4>4 DEF TheName
    <3>7. Named(sp, ip, f, frame.function)
      BY <3>5, <3>6 DEF Named
    <3>. QED  BY <2>2, <2>4, <2>5, <3>7 DEF NamedFrame, frame
  <2>6. CASE ~(f \in DOMAIN sp.files /\ ~Deleted(m.path))
    <3>1. load(sp.files, m.path) = {}
      BY <2>6 DEF load
    <3>2. frame.function = NoName
      BY <2>4, <3>1 DEF TheName
    <3>. QED  BY <2>2, <2>4, <2>6, <3>2 DEF NamedFrame, frame
  <2>. QED  BY <2>5, <2>6
<1>. QED  BY <1>4, <1>5

-----------------------------------------------------------------------------
(* Names: Windows                                                          *)

LEMMA OneModule ==
    ASSUME NEW session, IsSession(session), NEW ip \in Nat,
           NEW m \in ModulesAt(session, ip), NEW n \in ModulesAt(session, ip)
    PROVE  m = n
<1>1. m \in DbgModules /\ n \in DbgModules
  BY DEF IsSession, ModulesAt
<1>2. /\ m.start \in Nat /\ m.end \in Nat /\ n.start \in Nat /\ n.end \in Nat
      /\ m.start <= ip /\ ip < m.end /\ n.start <= ip /\ ip < n.end
  BY <1>1 DEF DbgModules, ModulesAt
<1>3. ~(m.end <= n.start) /\ ~(n.end <= m.start)
  BY <1>2
<1>. QED  BY <1>3 DEF IsSession, ModulesAt

LEMMA NamedOnWindows ==
    ASSUME NEW session, IsSession(session), NEW ip \in Nat
    PROVE  NamedByDbgHelp(session, ip, resolve_session(session, ip).function)
<1>. DEFINE symbols == UNION {m.symbols : m \in ModulesAt(session, ip)}
            answers == function_named(session, ip)
            name == resolve_session(session, ip).function
<1>1. name = TheName(answers)
  BY DEF resolve_session
<1>2. ASSUME NEW s \in symbols PROVE s \in DbgSymbols
  <2>1. PICK m \in ModulesAt(session, ip) : s \in m.symbols
    OBVIOUS
  <2>2. m \in DbgModules
    BY DEF IsSession, ModulesAt
  <2>. QED  BY <2>1, <2>2 DEF DbgModules
<1>3. \A s : s \in SymFromAddr(session, ip) <=>
          s \in symbols /\ s.at <= ip /\ \A t \in symbols : t.at <= ip => t.at <= s.at
  <2>1. ASSUME NEW m \in ModulesAt(session, ip) PROVE symbols = m.symbols
    <3>1. \A n \in ModulesAt(session, ip) : n = m
      BY OneModule
    <3>. QED  BY <3>1
  <2>2. ASSUME NEW s \in SymFromAddr(session, ip)
        PROVE  s \in symbols /\ s.at <= ip /\ \A t \in symbols : t.at <= ip => t.at <= s.at
    <3>1. PICK m \in ModulesAt(session, ip) :
              s \in m.symbols /\ s.at <= ip /\ \A t \in m.symbols : t.at <= ip => t.at <= s.at
      BY DEF SymFromAddr
    <3>. QED  BY <2>1, <3>1
  <2>3. ASSUME NEW s \in symbols, s.at <= ip, \A t \in symbols : t.at <= ip => t.at <= s.at
        PROVE  s \in SymFromAddr(session, ip)
    <3>1. PICK m \in ModulesAt(session, ip) : s \in m.symbols
      OBVIOUS
    <3>2. \A t \in m.symbols : t.at <= ip => t.at <= s.at
      BY <2>1, <2>3
    <3>. QED  BY <2>3, <3>1, <3>2 DEF SymFromAddr
  <2>. QED  BY <2>2, <2>3
<1>. HIDE DEF symbols, name
<1>4. \A x : x \in answers <=>
          \E s \in SymFromAddr(session, ip) : Trusted(s, ip - s.at) /\ x = s.name
  BY DEF function_named
<1>. HIDE DEF answers
<1>5. ASSUME name # NoName
      PROVE  \E s \in symbols :
                /\ s.name = name /\ s.at <= ip
                /\ IF s.size = 0
                   THEN /\ s.export => ip <= s.at + EXPORT_MAX_DISPLACEMENT
                        /\ \A t \in symbols : t.at <= s.at \/ ip < t.at
                   ELSE ip < s.at + s.size
  <2>1. name \in answers
    BY <1>1, <1>5 DEF TheName
  <2>2. PICK s \in SymFromAddr(session, ip) : Trusted(s, ip - s.at) /\ name = s.name
    BY <1>4, <2>1
  <2>3. s \in symbols /\ s.at <= ip /\ \A t \in symbols : t.at <= ip => t.at <= s.at
    BY <1>3
  <2>4. s \in DbgSymbols
    BY <1>2, <2>3
  <2>5. s.at \in Nat /\ s.size \in Nat /\ s.export \in BOOLEAN /\ ip - s.at \in Nat
    BY <2>3, <2>4 DEF DbgSymbols
  <2>6. CASE s.size = 0
    <3>1. ASSUME NEW t \in symbols PROVE t.at <= s.at \/ ip < t.at
      <4>1. t.at \in Nat
        BY <1>2 DEF DbgSymbols
      <4>. QED  BY <2>3, <4>1
    <3>2. s.export => ip - s.at <= EXPORT_MAX_DISPLACEMENT
      BY <2>2, <2>6 DEF Trusted
    <3>3. s.export => ip <= s.at + EXPORT_MAX_DISPLACEMENT
      BY <2>5, <3>2, DisplacementAssumption
    <3>. QED  BY <2>2, <2>3, <2>6, <3>1, <3>3
  <2>7. CASE s.size # 0
    <3>1. ip - s.at < s.size
      BY <2>2, <2>7 DEF Trusted
    <3>2. ip < s.at + s.size
      BY <2>5, <3>1
    <3>. QED  BY <2>2, <2>3, <2>7, <3>2
  <2>. QED  BY <2>6, <2>7
<1>6. ASSUME \A s, t \in symbols : s # t => ~(s.at <= t.at /\ t.at < s.at + s.size),
             NEW s \in symbols, s.name # "", s.at <= ip, ip < s.at + s.size
      PROVE  name = s.name
  <2>0. ip \in Nat /\ s.at <= ip /\ ip < s.at + s.size
    BY <1>6
  <2>1. s.at \in Nat /\ s.size \in Nat /\ s.export \in BOOLEAN
    BY <1>2 DEF DbgSymbols
  <2>2. ASSUME NEW t \in symbols, t.at <= ip, s.at <= t.at PROVE t = s
    <3>1. t.at \in Nat
      BY <1>2 DEF DbgSymbols
    <3>2. t.at < s.at + s.size
      BY ONLY <2>0, <2>1, <2>2, <3>1
    <3>. QED  BY <1>6, <2>2, <3>2
  <2>3. ASSUME NEW t \in symbols, t.at <= ip PROVE t.at <= s.at
    <3>1. t.at \in Nat
      BY <1>2 DEF DbgSymbols
    <3>. QED  BY <2>1, <2>2, <2>3, <3>1
  <2>4. s \in SymFromAddr(session, ip)
    BY <1>3, <1>6, <2>3
  <2>5. ASSUME NEW t \in SymFromAddr(session, ip) PROVE t = s
    <3>1. t \in symbols /\ t.at <= ip /\ s.at <= t.at
      BY <1>3, <1>6
    <3>. QED  BY <2>2, <3>1
  <2>6. Trusted(s, ip - s.at)
    <3>1. ip - s.at < s.size /\ s.size # 0
      BY ONLY <2>0, <2>1
    <3>. QED  BY <1>6, <3>1 DEF Trusted
  <2>7. answers = {s.name}
    <3>1. \A x : x \in answers <=> x = s.name
      BY <1>4, <2>4, <2>5, <2>6
    <3>. QED  BY <3>1
  <2>. QED  BY <1>1, <2>7 DEF TheName
<1>7. NamedByDbgHelp(session, ip, name)
  BY <1>5, <1>6 DEF NamedByDbgHelp, symbols
<1>. QED  BY <1>7 DEF name

-----------------------------------------------------------------------------
(* Types and names of the profile                                          *)

FrameType ==
    [function : {NoName} \cup STRING, module : {NoModule} \cup Seq(STRING),
     address : Nat, source : [file : {NoName} \cup STRING, line : Nat]]

LEMMA SourceType == NoSource \in [file : {NoName} \cup STRING, line : Nat]
BY DEF NoSource

LEMMA TypedOnLinux ==
    ASSUME NEW sp, IsLinuxSpace(sp), NEW ip \in Nat
    PROVE  resolve_mapped(sp, ip) \in FrameType
<1>. DEFINE entry == Entries(sp.maps, ip)
            m == entry[1]
            offset == ip - m.start + m.offset
            names == UNION {function_at(module, offset) : module \in load(sp.files, m.path)}
            mapped == [function |-> TheName(names), module |-> basename(m.path),
                       source |-> NoSource, address |-> ip]
<1>1. /\ sp.maps \in Seq(Regions)
      /\ \A f \in DOMAIN sp.files : f \in Seq(STRING) /\ sp.files[f] \in ElfFiles
  BY DEF IsLinuxSpace
<1>2. /\ entry \in Seq(Regions)
      /\ \A n : n \in ToSet(entry) <=> n \in ToSet(sp.maps) /\ Executable(n) /\ Around(n, ip)
  BY <1>1, EntriesAre
<1>3. resolve_mapped(sp, ip) =
          IF entry = <<>>
          THEN [function |-> NoName, module |-> NoModule, source |-> NoSource, address |-> ip]
          ELSE mapped
  BY DEF resolve_mapped, Entries, Only, Around
<1>. HIDE DEF entry
<1>4. CASE entry = <<>>
  BY <1>3, <1>4, SourceType DEF FrameType
<1>5. CASE entry # <<>>
  <2>1. m \in Regions /\ Executable(m)
    <3>1. 1 \in DOMAIN entry
      BY <1>2, <1>5
    <3>2. m \in ToSet(entry) /\ m \in Regions
      BY <1>2, <3>1 DEF ToSet
    <3>. QED  BY <1>2, <3>2
  <2>2. m.path \in Seq(STRING) /\ Absolute(m.path)
    BY <2>1 DEF Regions, Executable
  <2>3. basename(m.path) \in Seq(STRING)
    BY <2>2, AbsolutePath
  <2>. HIDE DEF m
  <2>4. \A name \in names : name \in STRING
    <3>1. ASSUME NEW module \in load(sp.files, m.path),
                 NEW name \in function_at(module, offset)
          PROVE  name \in STRING
      <4>1. /\ Tail(m.path) \in DOMAIN sp.files
            /\ module.funcs = LoadedFuncs(sp.files[Tail(m.path)])
        BY DEF load
      <4>2. module.funcs \in Seq(Symbols)
        BY <1>1, <4>1, LoadedFuncsAre
      <4>3. PICK i \in 1 .. Len(module.funcs) : name = module.funcs[i].name
        BY DEF function_at
      <4>4. module.funcs[i] \in Symbols
        BY <4>2
      <4>. QED  BY <4>3, <4>4 DEF Symbols
    <3>. QED  BY <3>1
  <2>. HIDE DEF names
  <2>5. TheName(names) \in {NoName} \cup STRING
    BY <2>4 DEF TheName
  <2>6. mapped \in FrameType
    BY <2>3, <2>5, SourceType DEF FrameType
  <2>. QED  BY <1>3, <1>5, <2>6
<1>. QED  BY <1>4, <1>5

LEMMA TypedOnWindows ==
    ASSUME NEW session, IsSession(session), NEW ip \in Nat
    PROVE  resolve_session(session, ip) \in FrameType
<1>1. \A m \in ModulesAt(session, ip) : m \in DbgModules
  BY DEF IsSession, ModulesAt
<1>2. TheName(function_named(session, ip)) \in {NoName} \cup STRING
  <2>1. ASSUME NEW x \in function_named(session, ip) PROVE x \in STRING
    <3>1. PICK s \in SymFromAddr(session, ip) : x = s.name
      BY DEF function_named
    <3>2. PICK m \in ModulesAt(session, ip) : s \in m.symbols
      BY DEF SymFromAddr
    <3>3. s \in DbgSymbols
      BY <1>1, <3>2 DEF DbgModules
    <3>. QED  BY <3>1, <3>3 DEF DbgSymbols
  <2>. QED  BY <2>1 DEF TheName
<1>3. module_at(session, ip) \in {NoModule} \cup Seq(STRING)
  <2>1. \A m \in ModulesAt(session, ip) : m.name \in Seq(STRING)
    BY <1>1 DEF DbgModules
  <2>2. \A x \in {m.name : m \in ModulesAt(session, ip)} \ {<<>>} : x \in Seq(STRING)
    BY <2>1
  <2>. QED  BY <2>2 DEF module_at
<1>4. line_at(session, ip) \in [file : {NoName} \cup STRING, line : Nat]
  <2>. DEFINE found == UNION {{l.source : l \in {k \in m.lines : k.at <= ip /\ ip < k.end}} :
                                 m \in ModulesAt(session, ip)}
  <2>1. ASSUME NEW x \in found PROVE x \in [file : {NoName} \cup STRING, line : Nat]
    <3>1. PICK m \in ModulesAt(session, ip) : \E l \in m.lines : x = l.source
      OBVIOUS
    <3>2. PICK l \in m.lines : x = l.source
      BY <3>1
    <3>3. l \in DbgLines
      BY <1>1, <3>1 DEF DbgModules
    <3>. QED  BY <3>2, <3>3 DEF DbgLines
  <2>2. line_at(session, ip) = IF found = {} THEN NoSource ELSE CHOOSE s \in found : TRUE
    BY DEF line_at
  <2>. HIDE DEF found
  <2>. QED  BY <2>1, <2>2, SourceType
<1>. QED  BY <1>2, <1>3, <1>4 DEF resolve_session, FrameType

\* What Counted, Table, Hand and Built leave open.
Held == space \in Spaces /\ chain \in Chains \cup {<<>>} /\ stack \in Seq(Nat)

LEMMA InitHeld == Init => Held
BY DEF Init, Held

LEMMA NextHeld == IInv /\ Held /\ [Next]_vars => Held'
<1>. SUFFICES ASSUME IInv, Held, [Next]_vars PROVE Held'
  OBVIOUS
<1>. USE DEF Held
<1>1. ASSUME NEW c \in Chains, record_sample(c) \/ NextChain(c) PROVE Held'
  <2>1. CASE record_sample(c)
    BY <2>1 DEF record_sample
  <2>2. CASE NextChain(c)
    <3>1. space' = space /\ chain' = c /\ stack' = <<>>
      BY <2>2 DEF NextChain
    <3>. QED  BY <3>1
  <2>. QED  BY <1>1, <2>1, <2>2
<1>2. CASE StopRecording \/ PushSample \/ Finish
  BY <1>2 DEF StopRecording, PushSample, Finish
<1>3. CASE Known
  <2>1. frameIds[Address] \in Nat
    BY <1>3 DEF Known, IInv, Table
  <2>. QED  BY <1>3, <2>1 DEF Known
<1>4. CASE InternNew
  <2>1. Len(frames) \in Nat
    BY DEF IInv, Table
  <2>2. /\ space' = space /\ chain' = chain
        /\ stack' = stack \/ stack' = Append(stack, Len(frames))
    BY <1>4 DEF InternNew
  <2>3. Append(stack, Len(frames)) \in Seq(Nat)
    BY <2>1
  <2>. QED  BY <2>2, <2>3
<1>5. CASE UNCHANGED vars
  BY <1>5 DEF vars
<1>. QED  BY <1>1, <1>2, <1>3, <1>4, <1>5 DEF Next

LEMMA SpecHeld == Spec => []Held
BY InitHeld, NextHeld, SpecInv, PTL DEF Spec

\* Every frame of the table was made for an address.
LEMMA FrameOf ==
    ASSUME IInv, NEW i \in 1 .. Len(frames)
    PROVE  \E a \in Nat : frames[i] = resolve(a)
BY DEF IInv, Table, Resolved

\* Whatever is sampled and whatever it is resolved against, the profile being built has
\* its types; a count is an i64.
THEOREM Typed == Spec => []TypeOK
<1>1. ASSUME IInv, Held PROVE TypeOK
  <2>. USE <1>1
  <2>1. ASSUME NEW i \in 1 .. Len(frames) PROVE frames[i] \in FrameType
    <3>1. PICK a \in Nat : frames[i] = resolve(a)
      BY FrameOf
    <3>2. CASE space.system = "linux"
      <4>1. IsLinuxSpace(space)
        BY <3>2, SpacesAssumption DEF Held
      <4>. QED  BY <3>1, <3>2, <4>1, TypedOnLinux DEF resolve
    <3>3. CASE space.system # "linux"
      <4>1. IsSession(space)
        BY <3>3, SpacesAssumption DEF Held
      <4>. QED  BY <3>1, <3>3, <4>1, TypedOnWindows DEF resolve
    <3>. QED  BY <3>2, <3>3
  <2>2. frames \in Seq(FrameType)
    <3>1. Len(frames) \in Nat /\ frames \in [1 .. Len(frames) -> Resolved]
      BY DEF IInv, Table
    <3>. QED  BY <2>1, <3>1
  <2>3. DOMAIN counts \subseteq Chains /\ DOMAIN recorded = DOMAIN counts
    BY DEF IInv, Counted
  <2>4. \A c \in DOMAIN counts : counts[c] \in 1 .. MaxCount /\ recorded[c] \in Nat \ {0}
    BY LimitsAssumption DEF IInv, Counted
  <2>5. todo \subseteq Chains
    BY <2>3 DEF IInv, Built
  <2>6. /\ DOMAIN frameIds \subseteq Nat /\ \A a \in DOMAIN frameIds : frameIds[a] \in Nat
        /\ samples \in Seq([stack : Seq(Nat), values : Seq(Nat)])
        /\ phase \in {"record", "next", "intern", "done", "err"}
    BY DEF IInv, Table, Built, Phases
  <2>. QED  BY <2>2, <2>3, <2>4, <2>5, <2>6 DEF TypeOK, Held, FrameType
<1>. QED  BY <1>1, SpecInv, SpecHeld, PTL

\* On both systems a frame's function is that of its address, whatever the tables say:
\* symbols of any size in any order, in one table or both, objects, exports, segments.
THEOREM NamedExactly == Spec => []NamesExact
<1>1. ASSUME IInv, Held PROVE NamesExact
  <2>. USE <1>1
  <2>. SUFFICES ASSUME NEW i \in 1 .. Len(frames)
                PROVE  CASE space.system = "windows" ->
                              NamedByDbgHelp(space, frames[i].address, frames[i].function)
                         [] space.system = "linux" /\ frames[i].module \in DOMAIN space.files
                                /\ ~Deleted(<<"/">> \o frames[i].module) ->
                              Named(space, frames[i].address, frames[i].module,
                                    frames[i].function)
                         [] OTHER -> frames[i].function = NoName
    BY DEF NamesExact
  <2>1. PICK a \in Nat : frames[i] = resolve(a)
    BY FrameOf
  <2>2. frames[i].address = a
    BY <2>1, ResolvedAddress
  <2>3. \/ space.system = "linux" /\ IsLinuxSpace(space)
        \/ space.system = "windows" /\ IsSession(space)
    BY SpacesAssumption DEF Held
  <2>4. CASE space.system = "linux" /\ IsLinuxSpace(space)
    <3>1. NamedFrame(space, a, frames[i])
      BY <2>1, <2>4, NamedOnLinux DEF resolve
    <3>. QED  BY <2>2, <2>4, <3>1 DEF NamedFrame
  <2>5. CASE space.system = "windows" /\ IsSession(space)
    <3>1. NamedByDbgHelp(space, a, frames[i].function)
      BY <2>1, <2>5, NamedOnWindows DEF resolve
    <3>. QED  BY <2>2, <2>5, <3>1
  <2>. QED  BY <2>3, <2>4, <2>5
<1>. QED  BY <1>1, SpecInv, SpecHeld, PTL
=============================================================================
