-------------------------- MODULE PerfRing_proofs --------------------------
(***************************************************************************)
(* For every ring size, every set of call-chains and every bound: the ring *)
(* is well typed, drain never reads a slot the kernel may be writing, stays *)
(* on record boundaries, leaves nothing behind after a successful disable, *)
(* and together with the kernel implements SampleQueue.                    *)
(***************************************************************************)
EXTENDS PerfRing, SequenceTheorems, TLAPS

(* Arithmetic of the ring.                                                 *)

\* A slot number is a valid index.
LEMMA SlotRange ==
    ASSUME NEW p \in Nat
    PROVE  Slot(p) \in 0 .. Size - 1
  BY SizeAssumption DEF Slot

\* Two positions less than a ring apart lie in different slots.
LEMMA SlotInjective ==
    ASSUME NEW p \in Nat, NEW q \in Nat, p < q, q < p + Size
    PROVE  Slot(p) # Slot(q)
<1> DEFINE a == p \div Size
           b == q \div Size
<1>1. a \in Int /\ b \in Int /\ p % Size \in Int /\ q % Size \in Int
  BY SizeAssumption
<1>2. p = Size * a + (p % Size) /\ q = Size * b + (q % Size)
  BY SizeAssumption
<1>. SUFFICES ASSUME p % Size = q % Size PROVE FALSE
  BY DEF Slot
<1>3. q - p = Size * b - Size * a
  BY <1>1, <1>2, SizeAssumption
<1>4. q - p = Size * (b - a)
  <2> HIDE DEF a, b
  <2>1. \A x, y, z \in Int : x * y - x * z = x * (y - z)
    OBVIOUS
  <2>. QED  BY <1>1, <1>3, <2>1, SizeAssumption
<1>5. 0 < Size * (b - a) /\ Size * (b - a) < Size
  BY <1>4, SizeAssumption
<1>6. \A d \in Int : ~(0 < Size * d /\ Size * d < Size)
  <2>. SUFFICES ASSUME NEW d \in Int, 0 < Size * d, Size * d < Size PROVE FALSE
    OBVIOUS
  <2>1. CASE d <= 0
    BY <2>1, SizeAssumption
  <2>2. CASE d >= 1
    BY <2>2, SizeAssumption
  <2>. QED  BY <2>1, <2>2
<1>. QED  BY <1>1, <1>5, <1>6

-----------------------------------------------------------------------------
(* The inductive invariant.                                                *)

\* The cursors never cross, and the kernel never gets a full ring ahead of what
\* drain has released.
Bounds ==
    /\ tail <= ltail /\ ltail <= lhead /\ lhead <= head
    /\ head <= wpos /\ wpos <= rhead /\ rhead <= tail + Size
    /\ pc = "idle" => tail = ltail

\* The records of the log lie one after the other up to rhead, and only the
\* last of them may be partly written.
LogShape ==
    /\ edge[1] = 0 /\ edge[Len(log) + 1] = rhead
    /\ \A k \in 1 .. Len(log) : edge[k] + RecLen(log[k]) = edge[k + 1]
    /\ \A k \in 1 .. Len(log) : \A m \in 1 .. Len(log) + 1 :
           k < m => edge[k] + RecLen(log[k]) <= edge[m]
    /\ wpos < rhead => Len(log) > 0 /\ edge[Len(log)] <= wpos

\* The published head and drain's copy of it are edges of records.
Boundaries ==
    /\ \E k \in 1 .. Len(log) + 1 : head = edge[k]
    /\ \E k \in 1 .. Len(log) + 1 : lhead = edge[k]

\* What drain holds of the record it is in the middle of.
Reading ==
    /\ pc \in {"nr", "ips"} =>
           /\ ltail < lhead
           /\ log[taken + 1].type = "sample"
           /\ rsize = RecLen(log[taken + 1])
    /\ pc = "ips" =>
           /\ nr = Len(log[taken + 1].chain)
           /\ Len(ips) <= nr
           /\ \A i \in 1 .. Len(ips) : ips[i] = log[taken + 1].chain[i]
    /\ pc = "publish" => ltail = lhead

\* Once the event is off the kernel is quiet, and the final drain covers
\* everything it wrote.
Stopped ==
    /\ ~enabled => phase # "loop" /\ head = rhead
    /\ ~enabled /\ phase = "final" /\ pc # "idle" => lhead = rhead
    /\ ~enabled /\ phase = "done" => tail = rhead
    /\ phase = "done" => pc = "idle"

IInv ==
    /\ TypeOK
    /\ Bounds
    /\ LogShape
    /\ InStep
    /\ Boundaries
    /\ Reading
    /\ Stopped
    /\ UnreadIntact

-----------------------------------------------------------------------------
(* Lemmas about records and the log.                                       *)

\* A record is at least two words long and made of words.
LEMMA RecordFacts ==
    ASSUME NEW r \in Records
    PROVE  /\ r.type \in Types
           /\ r.chain \in Seq(ChainWord)
           /\ Len(r.chain) \in Nat
           /\ RecLen(r) \in Nat /\ RecLen(r) >= 2
           /\ \A j \in 0 .. RecLen(r) - 1 : WordOf(r, j) \in Word
<1>1. r.type \in Types /\ r.chain \in Seq(ChainWord)
  BY ChainsAssumption DEF Records
<1>2. Len(r.chain) \in Nat
  BY <1>1
<1>3. RecLen(r) \in Nat /\ RecLen(r) >= 2
  BY <1>2 DEF RecLen
<1>4. ASSUME NEW j \in 0 .. RecLen(r) - 1 PROVE WordOf(r, j) \in Word
  <2>1. CASE j = 0
    BY <1>1, <1>3, <2>1 DEF WordOf, Word, Types
  <2>2. CASE j = 1
    BY <1>2, <2>2 DEF WordOf, Word
  <2>3. CASE j # 0 /\ j # 1
    <3>1. j - 1 \in 1 .. Len(r.chain)
      BY <1>2, <2>3 DEF RecLen
    <3>2. r.chain[j - 1] \in ChainWord
      BY <1>1, <3>1
    <3>3. ChainWord \subseteq Word
      BY DEF ChainWord, Word
    <3>. QED  BY <2>3, <3>2, <3>3 DEF WordOf
  <2>. QED  BY <2>1, <2>2, <2>3
<1>. QED  BY <1>1, <1>2, <1>3, <1>4

\* The cursors are positions.
LEMMA CursorType ==
    ASSUME TypeOK
    PROVE  /\ head \in Nat /\ tail \in Nat /\ rhead \in Nat /\ wpos \in Nat
           /\ lhead \in Nat /\ ltail \in Nat
  BY DEF TypeOK

\* The edges are positions and the records of the log are records.
LEMMA LogType ==
    ASSUME TypeOK
    PROVE  /\ Len(log) \in Nat
           /\ \A k \in 1 .. Len(log) : log[k] \in Records
           /\ \A k \in 1 .. Len(log) : RecLen(log[k]) \in Nat /\ RecLen(log[k]) >= 2
           /\ \A k \in 1 .. Len(log) + 1 : edge[k] \in Nat
<1>1. /\ Len(log) \in Nat
      /\ \A k \in 1 .. Len(log) : log[k] \in Records
      /\ \A k \in 1 .. Len(log) + 1 : edge[k] \in Nat
  BY DEF TypeOK
<1>. QED  BY <1>1, RecordFacts

\* No edge at or after drain's position is below it.
LEMMA EdgesAhead ==
    ASSUME TypeOK, LogShape, InStep, NEW k \in taken + 1 .. Len(log) + 1
    PROVE  ltail <= edge[k]
<1>1. taken \in Nat /\ taken <= Len(log) /\ ltail = edge[taken + 1]
  BY DEF TypeOK, InStep
<1>2. CASE k = taken + 1
  BY <1>1, <1>2, LogType
<1>3. CASE taken + 1 < k
  <2>1. taken + 1 \in 1 .. Len(log) /\ k \in 1 .. Len(log) + 1
    BY <1>1, <1>3, LogType
  <2>2. edge[taken + 1] + RecLen(log[taken + 1]) <= edge[k]
    BY <1>3, <2>1 DEF LogShape
  <2>3. edge[taken + 1] \in Nat /\ RecLen(log[taken + 1]) \in Nat /\ edge[k] \in Nat
    BY <2>1, LogType
  <2>. QED  BY <1>1, <2>2, <2>3
<1>. QED  BY <1>1, <1>2, <1>3, LogType

\* While drain is short of the head it loaded, a whole published record lies in
\* front of it, word for word as the kernel wrote it.
LEMMA NextRecord ==
    ASSUME IInv, ltail < lhead
    PROVE  /\ taken + 1 \in 1 .. Len(log)
           /\ log[taken + 1] \in Records
           /\ edge[taken + 1] = ltail
           /\ ltail + RecLen(log[taken + 1]) = edge[taken + 2]
           /\ ltail + RecLen(log[taken + 1]) <= lhead
           /\ \A j \in 0 .. RecLen(log[taken + 1]) - 1 :
                  buf[Slot(ltail + j)] = WordOf(log[taken + 1], j)
<1>. USE DEF IInv
<1>1. PICK m \in 1 .. Len(log) + 1 : lhead = edge[m]
  BY DEF Boundaries
<1>2. taken \in Nat /\ Len(log) \in Nat /\ taken <= Len(log) /\ ltail = edge[taken + 1]
  BY DEF TypeOK, InStep
<1>3. taken + 1 < m
  <2>1. CASE m = taken + 1
    BY <1>1, <1>2, <2>1 DEF TypeOK
  <2>2. CASE m < taken + 1
    <3>1. m \in 1 .. Len(log) /\ taken + 1 \in 1 .. Len(log) + 1
      BY <1>2, <2>2
    <3>2. edge[m] + RecLen(log[m]) <= edge[taken + 1]
      BY <3>1, <2>2 DEF LogShape
    <3>3. edge[m] \in Nat /\ RecLen(log[m]) >= 2 /\ RecLen(log[m]) \in Nat
      BY <3>1, LogType
    <3>4. ltail \in Nat /\ edge[m] > ltail
      BY <1>1, <1>2 DEF TypeOK
    <3>. QED  BY <1>2, <3>2, <3>3, <3>4
  <2>. QED  BY <1>1, <1>2, <2>1, <2>2
<1>4. taken + 1 \in 1 .. Len(log)
  BY <1>2, <1>3
<1>5. log[taken + 1] \in Records /\ RecLen(log[taken + 1]) \in Nat
  BY <1>4, LogType
<1>6. ltail + RecLen(log[taken + 1]) = edge[taken + 2]
  BY <1>2, <1>4 DEF LogShape
<1>7. ltail + RecLen(log[taken + 1]) <= lhead
  BY <1>1, <1>2, <1>3, <1>4 DEF LogShape
<1>8. ASSUME NEW j \in 0 .. RecLen(log[taken + 1]) - 1
      PROVE  buf[Slot(ltail + j)] = WordOf(log[taken + 1], j)
  <2>1. edge[taken + 1] + j < wpos
    <3>1. lhead <= wpos
      BY CursorType DEF Bounds
    <3>2. ltail \in Nat /\ lhead \in Nat /\ wpos \in Nat /\ j < RecLen(log[taken + 1])
      BY <1>5, CursorType
    <3>. QED  BY <1>2, <1>5, <1>7, <3>1, <3>2
  <2>. QED  BY <1>2, <1>4, <2>1 DEF UnreadIntact
<1>. QED  BY <1>2, <1>4, <1>5, <1>6, <1>7, <1>8

-----------------------------------------------------------------------------
(* The invariant holds initially and is preserved by every action.         *)

LEMMA InitInv == Init => IInv
<1>. SUFFICES ASSUME Init PROVE IInv
  OBVIOUS
<1>. USE DEF Init
<1>1. TypeOK
  BY SizeAssumption DEF TypeOK, Word
<1>2. Bounds
  BY SizeAssumption DEF Bounds
<1>3. LogShape /\ InStep /\ Boundaries
  BY DEF LogShape, InStep, Boundaries
<1>4. Reading /\ Stopped /\ UnreadIntact
  BY DEF Reading, Stopped, UnreadIntact
<1>. QED  BY <1>1, <1>2, <1>3, <1>4 DEF IInv

\* Reserving appends one record to the log and moves only the kernel's private
\* end of it.
LEMMA ReserveInv ==
    ASSUME IInv, NEW r \in Records, KernelReserve(r)
    PROVE  IInv'
<1>. USE DEF IInv
<1>1. /\ log' = Append(log, r) /\ edge' = Append(edge, rhead + RecLen(r))
      /\ rhead' = rhead + RecLen(r) /\ rhead + RecLen(r) - tail <= Size
      /\ enabled /\ wpos = rhead
      /\ UNCHANGED <<buf, head, wpos, lhead, ltail, rsize, nr, ips, taken, tail, enabled, phase, pc>>
  BY DEF KernelReserve, HasRoom, drain
<1>2. RecLen(r) \in Nat /\ RecLen(r) >= 2
  BY RecordFacts
<1>3. TypeOK'
  <2>1. log' \in Seq(Records) /\ Len(log') = Len(log) + 1
    BY <1>1 DEF TypeOK
  <2>2. edge' \in Seq(Nat) /\ Len(edge') = Len(edge) + 1
    BY <1>1, <1>2 DEF TypeOK
  <2>3. rhead' \in Nat
    BY <1>1, <1>2 DEF TypeOK
  <2>4. Len(edge') = Len(log') + 1
    BY <2>1, <2>2 DEF TypeOK
  <2>. QED  BY <1>1, <2>1, <2>2, <2>3, <2>4 DEF TypeOK
<1>4. /\ Len(log) \in Nat /\ Len(log') = Len(log) + 1 /\ log'[Len(log) + 1] = r
      /\ \A k \in 1 .. Len(log) : log'[k] = log[k]
  BY <1>1 DEF TypeOK
<1>5. /\ \A k \in 1 .. Len(log) + 1 : edge'[k] = edge[k]
      /\ edge[Len(log) + 1] = rhead /\ edge'[Len(log) + 2] = rhead + RecLen(r)
  BY <1>1, <1>2 DEF TypeOK, LogShape
<1>6. Bounds'
  BY <1>1, <1>2, SizeAssumption DEF Bounds, TypeOK
<1>7. LogShape'
  <2>1. edge'[1] = 0 /\ edge'[Len(log') + 1] = rhead'
    <3>1. Len(log') + 1 = Len(log) + 2 /\ 1 \in 1 .. Len(log) + 1
      BY <1>4
    <3>. QED  BY <1>1, <1>5, <3>1 DEF LogShape
  <2>2. ASSUME NEW k \in 1 .. Len(log')
        PROVE  edge'[k] + RecLen(log'[k]) = edge'[k + 1]
    <3>1. CASE k \in 1 .. Len(log)
      BY <1>4, <1>5, <3>1 DEF LogShape
    <3>2. CASE k = Len(log) + 1
      BY <1>4, <1>5, <3>2
    <3>. QED  BY <1>4, <3>1, <3>2
  <2>3. ASSUME NEW k \in 1 .. Len(log'), NEW m \in 1 .. Len(log') + 1, k < m
        PROVE  edge'[k] + RecLen(log'[k]) <= edge'[m]
    <3>1. CASE m \in 1 .. Len(log) + 1
      BY <1>4, <1>5, <2>3, <3>1 DEF LogShape
    <3>2. CASE m = Len(log) + 2 /\ k \in 1 .. Len(log)
      <4>1. edge[k] + RecLen(log[k]) <= rhead
        BY <1>4, <1>5, <3>2 DEF LogShape
      <4>2. edge'[k] = edge[k] /\ log'[k] = log[k] /\ edge'[m] = rhead + RecLen(r)
        BY <1>4, <1>5, <3>2
      <4>3. edge[k] \in Nat /\ RecLen(log[k]) \in Nat /\ rhead \in Nat
        BY <3>2, <1>4, LogType DEF TypeOK
      <4>. QED  BY <1>2, <4>1, <4>2, <4>3
    <3>3. CASE m = Len(log) + 2 /\ k = Len(log) + 1
      BY <1>2, <1>4, <1>5, <3>3 DEF TypeOK
    <3>. QED  BY <1>4, <2>3, <3>1, <3>2, <3>3
  <2>4. wpos' < rhead' => Len(log') > 0 /\ edge'[Len(log')] <= wpos'
    BY <1>1, <1>4, <1>5 DEF TypeOK
  <2>. QED  BY <2>1, <2>2, <2>3, <2>4 DEF LogShape
<1>8. InStep'
  <2>1. taken \in Nat /\ taken <= Len(log) /\ ltail = edge[taken + 1]
    BY DEF InStep, TypeOK
  <2>2. PICK k \in 1 .. taken + 1 : tail = edge[k]
    BY DEF InStep
  <2>3. taken + 1 \in 1 .. Len(log) + 1 /\ k \in 1 .. Len(log) + 1
    BY <1>4, <2>1
  <2>4. edge'[taken + 1] = ltail /\ edge'[k] = tail
    BY <1>5, <2>1, <2>2, <2>3
  <2>5. taken' <= Len(log') /\ ltail' = edge'[taken' + 1]
    <3>1. taken <= Len(log) + 1
      BY <1>4, <2>1
    <3>2. taken' = taken /\ ltail' = ltail
      BY <1>1
    <3>. QED  BY <1>4, <2>4, <3>1, <3>2
  <2>6. k \in 1 .. taken' + 1 /\ tail' = edge'[k]
    BY <1>1, <2>4
  <2>. QED  BY <2>5, <2>6 DEF InStep
<1>9. Boundaries'
  <2>1. PICK k \in 1 .. Len(log) + 1 : head = edge[k]
    BY DEF Boundaries
  <2>2. PICK m \in 1 .. Len(log) + 1 : lhead = edge[m]
    BY DEF Boundaries
  <2>3. k \in 1 .. Len(log') + 1 /\ m \in 1 .. Len(log') + 1
    BY <1>4
  <2>. QED  BY <1>1, <1>5, <2>1, <2>2, <2>3 DEF Boundaries
<1>10. Reading'
  <2>1. pc \in {"nr", "ips"} => log'[taken + 1] = log[taken + 1]
    BY <1>4, NextRecord DEF Reading
  <2>. QED  BY <1>1, <2>1 DEF Reading
<1>11. Stopped'
  BY <1>1 DEF Stopped
<1>12. UnreadIntact'
  <2>. SUFFICES ASSUME NEW k \in taken' + 1 .. Len(log'),
                       NEW j \in 0 .. RecLen(log'[k]) - 1,
                       edge'[k] + j < wpos'
                PROVE  buf'[Slot(edge'[k] + j)] = WordOf(log'[k], j)
    BY DEF UnreadIntact, Slot
  <2>1. k \in taken + 1 .. Len(log)
    <3>1. k \in Nat /\ taken + 1 <= k /\ k <= Len(log) + 1
      BY <1>1, <1>4 DEF TypeOK
    <3>2. CASE k = Len(log) + 1
      <4>1. log'[k] = r /\ edge'[k] = rhead
        BY <1>4, <1>5, <3>2
      <4>2. rhead \in Nat /\ wpos \in Nat /\ wpos <= rhead /\ wpos' = wpos
        BY <1>1 DEF TypeOK, Bounds
      <4>3. RecLen(r) \in Nat
        BY <1>2
      <4>4. j \in Nat /\ rhead + j < wpos
        BY <4>1, <4>2, <4>3
      <4>. QED  BY <4>2, <4>4
    <3>. QED  BY <1>4, <3>1, <3>2 DEF TypeOK
  <2>2. log'[k] = log[k] /\ edge'[k] = edge[k]
    BY <1>4, <1>5, <2>1 DEF TypeOK
  <2>. QED  BY <1>1, <2>1, <2>2 DEF UnreadIntact
<1>. QED  BY <1>3, <1>6, <1>7, <1>8, <1>9, <1>10, <1>11, <1>12

\* What the kernel writes next belongs to the last record, and goes into a slot
\* that holds nothing unread.
LEMMA WriteInv ==
    ASSUME IInv, KernelWrite
    PROVE  IInv'
<1>. USE DEF IInv
<1>. DEFINE n == Len(log)
            word == WordOf(log[n], wpos - edge[n])
<1>1. /\ wpos < rhead /\ wpos' = wpos + 1
      /\ buf' = [buf EXCEPT ![Slot(wpos)] = word]
      /\ UNCHANGED <<head, rhead, log, edge, lhead, ltail, rsize, nr, ips, taken, tail, enabled, phase, pc>>
  BY DEF KernelWrite, drain
<1>2. /\ n \in Nat /\ n > 0 /\ log[n] \in Records
      /\ RecLen(log[n]) \in Nat
      /\ edge[n] <= wpos /\ edge[n] \in Nat /\ edge[n] + RecLen(log[n]) = rhead
  BY <1>1, LogType DEF LogShape
<1>0. wpos \in Nat /\ tail \in Nat /\ rhead \in Nat /\ rhead <= tail + Size
  BY CursorType DEF Bounds
<1>3. word \in Word
  <2>1. wpos - edge[n] \in 0 .. RecLen(log[n]) - 1
    BY <1>1, <1>2 DEF TypeOK
  <2>. QED  BY <1>2, <2>1, RecordFacts
<1>4. Slot(wpos) \in 0 .. Size - 1
  BY SlotRange DEF TypeOK
<1>5. TypeOK'
  <2>. HIDE DEF word
  <2>. QED  BY <1>1, <1>3, <1>4 DEF TypeOK
<1>6. Bounds' /\ Stopped' /\ Reading'
  BY <1>1 DEF Bounds, Stopped, Reading, TypeOK
<1>7. LogShape'
  BY <1>1, <1>2 DEF LogShape, TypeOK
<1>8. InStep' /\ Boundaries'
  BY <1>1 DEF InStep, Boundaries
<1>9. UnreadIntact'
  <2>. SUFFICES ASSUME NEW k \in taken + 1 .. Len(log),
                       NEW j \in 0 .. RecLen(log[k]) - 1,
                       edge[k] + j < wpos + 1
                PROVE  buf'[Slot(edge[k] + j)] = WordOf(log[k], j)
    BY <1>1 DEF UnreadIntact, Slot
  <2>1. k \in 1 .. Len(log) /\ RecLen(log[k]) \in Nat /\ edge[k] \in Nat /\ j \in Nat
    <3>1. taken \in Nat /\ Len(log) \in Nat
      BY DEF TypeOK
    <3>2. k \in 1 .. Len(log)
      BY <3>1
    <3>3. RecLen(log[k]) \in Nat /\ edge[k] \in Nat
      BY <3>1, <3>2, LogType
    <3>. QED  BY <3>2, <3>3
  <2>2. CASE edge[k] + j < wpos
    <3>1. tail <= edge[k]
      <4>1. k \in taken + 1 .. Len(log) + 1
        BY <1>2
      <4>2. ltail <= edge[k]
        BY <4>1, EdgesAhead
      <4>. QED  BY <2>1, <4>2 DEF Bounds, TypeOK
    <3>2. wpos < (edge[k] + j) + Size
      <4>1. wpos < rhead
        BY <1>1
      <4>. HIDE DEF IInv, n, word
      <4>. QED  BY <1>0, <2>1, <3>1, <4>1, SizeAssumption
    <3>3. edge[k] + j \in Nat
      BY <2>1
    <3>4. Slot(edge[k] + j) # Slot(wpos)
      BY <2>2, <3>2, <3>3, SlotInjective DEF TypeOK
    <3>5. Slot(edge[k] + j) \in 0 .. Size - 1
      BY <3>3, SlotRange
    <3>6. buf'[Slot(edge[k] + j)] = buf[Slot(edge[k] + j)]
      BY <1>1, <1>4, <3>4, <3>5 DEF TypeOK
    <3>. QED  BY <2>2, <3>6 DEF UnreadIntact
  <2>3. CASE edge[k] + j = wpos
    <3>1. k = n
      <4>. SUFFICES ASSUME k # n PROVE FALSE
        OBVIOUS
      <4>1. edge[k] + RecLen(log[k]) <= edge[n]
        BY <1>2, <2>1 DEF LogShape
      <4>2. edge[k] + j < edge[k] + RecLen(log[k])
        BY <2>1
      <4>3. edge[n] <= edge[k] + j /\ edge[n] \in Nat
        BY <1>2, <2>3
      <4>. HIDE DEF n
      <4>. QED  BY <2>1, <4>1, <4>2, <4>3
    <3>2. j = wpos - edge[n]
      <4>. HIDE DEF IInv, n, word
      <4>. QED  BY <1>0, <1>2, <2>1, <2>3, <3>1
    <3>. QED  BY <1>1, <1>4, <2>3, <3>1, <3>2 DEF TypeOK
  <2>4. edge[k] + j < wpos \/ edge[k] + j = wpos
    <3>. HIDE DEF IInv, n, word
    <3>. QED  BY <1>0, <2>1
  <2>. QED  BY <2>2, <2>3, <2>4
<1>. QED  BY <1>5, <1>6, <1>7, <1>8, <1>9

\* Publication moves data_head to the end of the last record.
LEMMA PublishInv ==
    ASSUME IInv, KernelPublish
    PROVE  IInv'
<1>. USE DEF IInv
<1>1. /\ wpos = rhead /\ head # rhead /\ head' = rhead
      /\ UNCHANGED <<buf, rhead, wpos, log, edge, lhead, ltail, rsize, nr, ips, taken, tail, enabled, phase, pc>>
  BY DEF KernelPublish, drain
<1>2. TypeOK' /\ Bounds' /\ Stopped' /\ Reading'
  BY <1>1 DEF TypeOK, Bounds, Stopped, Reading
<1>3. LogShape' /\ InStep' /\ UnreadIntact'
  BY <1>1 DEF LogShape, InStep, UnreadIntact, Slot
<1>4. Boundaries'
  BY <1>1, LogType DEF Boundaries, LogShape
<1>. QED  BY <1>2, <1>3, <1>4

\* drain's local head is an edge because data_head is.
LEMMA StartInv ==
    ASSUME IInv, DrainStart
    PROVE  IInv'
<1>. USE DEF IInv
<1>1. /\ pc = "idle" /\ pc' = "record" /\ phase # "done" /\ lhead' = head /\ ltail' = tail
      /\ UNCHANGED <<buf, head, rhead, wpos, log, edge, rsize, nr, ips, taken, tail, enabled, phase>>
  BY DEF DrainStart, kernel
<1>2. ltail' = ltail
  BY <1>1 DEF Bounds
<1>3. TypeOK' /\ Bounds' /\ Reading'
  BY <1>1 DEF TypeOK, Bounds, Reading
<1>4. LogShape' /\ InStep' /\ Boundaries' /\ UnreadIntact'
  BY <1>1, <1>2 DEF LogShape, InStep, Boundaries, UnreadIntact, Slot
<1>5. Stopped'
  BY <1>1 DEF Stopped, TypeOK
<1>. QED  BY <1>3, <1>4, <1>5

\* drain leaves its loop exactly at the head it loaded: no header is zero.
LEMMA ExitInv ==
    ASSUME IInv, DrainExit
    PROVE  IInv'
<1>. USE DEF IInv
<1>1. /\ pc = "record" /\ pc' = "publish"
      /\ ltail >= lhead \/ buf[Slot(ltail)].n = 0
      /\ UNCHANGED <<buf, head, rhead, wpos, log, edge, lhead, ltail, rsize, nr, ips, taken, tail, enabled, phase>>
  BY DEF DrainExit, kernel, drain
<1>2. ltail = lhead
  <2>1. ltail <= lhead /\ ltail \in Nat /\ lhead \in Nat
    BY DEF Bounds, TypeOK
  <2>2. ASSUME ltail < lhead PROVE FALSE
    <3>1. 0 \in 0 .. RecLen(log[taken + 1]) - 1 /\ RecLen(log[taken + 1]) >= 2
      BY <2>2, NextRecord, RecordFacts
    <3>2. buf[Slot(ltail + 0)] = WordOf(log[taken + 1], 0)
      BY <2>2, <3>1, NextRecord
    <3>3. buf[Slot(ltail)].n = RecLen(log[taken + 1])
      BY <2>1, <3>2 DEF WordOf
    <3>. QED  BY <1>1, <2>1, <2>2, <3>1, <3>3
  <2>. QED  BY <2>1, <2>2
<1>3. TypeOK' /\ Bounds' /\ Reading'
  BY <1>1, <1>2 DEF TypeOK, Bounds, Reading
<1>4. LogShape' /\ InStep' /\ Boundaries' /\ UnreadIntact' /\ Stopped'
  BY <1>1 DEF LogShape, InStep, Boundaries, UnreadIntact, Slot, Stopped
<1>. QED  BY <1>3, <1>4

\* Passing a record moves drain to the next edge, which is not past lhead.
LEMMA PassRecord ==
    ASSUME IInv, ltail < lhead, pc # "idle",
           ltail' = ltail + RecLen(log[taken + 1]), taken' = taken + 1,
           UNCHANGED <<buf, head, rhead, wpos, log, edge, lhead, tail, enabled, phase>>
    PROVE  /\ ltail' \in Nat /\ taken' \in Nat
           /\ tail <= ltail' /\ ltail' <= lhead'
           /\ LogShape' /\ InStep' /\ Boundaries' /\ UnreadIntact'
<1>. USE DEF IInv
<1>1. /\ taken + 1 \in 1 .. Len(log)
      /\ RecLen(log[taken + 1]) \in Nat
      /\ ltail' = edge[taken + 2] /\ ltail' <= lhead
  BY NextRecord, RecordFacts
<1>2. taken \in Nat /\ ltail \in Nat /\ tail \in Nat /\ Len(log) \in Nat
  BY DEF TypeOK
<1>3. ltail' \in Nat /\ taken' \in Nat /\ tail <= ltail' /\ ltail' <= lhead'
  BY <1>1, <1>2 DEF Bounds
<1>4. LogShape' /\ Boundaries'
  BY DEF LogShape, Boundaries
<1>5. InStep'
  <2>1. PICK k \in 1 .. taken + 1 : tail = edge[k]
    BY DEF InStep
  <2>2. k \in 1 .. taken' + 1 /\ tail' = edge'[k]
    BY <1>2, <2>1
  <2>3. taken' <= Len(log') /\ ltail' = edge'[taken' + 1]
    BY <1>1, <1>2
  <2>. QED  BY <2>2, <2>3 DEF InStep
<1>6. UnreadIntact'
  <2>1. \A k \in taken' + 1 .. Len(log) : k \in taken + 1 .. Len(log)
    BY <1>2
  <2>. QED  BY <2>1 DEF UnreadIntact, Slot
<1>. QED  BY <1>3, <1>4, <1>5, <1>6

\* The header drain reads is that of the record in front of it.
LEMMA HeaderInv ==
    ASSUME IInv, DrainHeader
    PROVE  IInv'
<1>. USE DEF IInv
<1>. DEFINE header == buf[Slot(ltail)]
            rec == log[taken + 1]
<1>1. /\ pc = "record" /\ ltail < lhead /\ rsize' = header.n
      /\ IF header.t = "sample"
         THEN pc' = "nr" /\ UNCHANGED <<ltail, taken>>
         ELSE pc' = "record" /\ ltail' = ltail + header.n /\ taken' = taken + 1
      /\ UNCHANGED <<buf, head, rhead, wpos, log, edge, lhead, nr, ips, tail, enabled, phase>>
  BY DEF DrainHeader, kernel
<1>2. rec \in Records /\ RecLen(rec) \in Nat /\ RecLen(rec) >= 2
  BY <1>1, NextRecord, RecordFacts
<1>3. header.t = rec.type /\ header.n = RecLen(rec)
  <2>1. 0 \in 0 .. RecLen(rec) - 1
    BY <1>2
  <2>2. buf[Slot(ltail + 0)] = WordOf(rec, 0)
    BY <1>1, <2>1, NextRecord
  <2>3. ltail + 0 = ltail
    BY DEF TypeOK
  <2>. QED  BY <2>2, <2>3 DEF WordOf
<1>4. CASE header.t = "sample"
  <2>1. TypeOK' /\ Bounds' /\ Reading'
    BY <1>1, <1>2, <1>3, <1>4 DEF TypeOK, Bounds, Reading
  <2>2. LogShape' /\ InStep' /\ Boundaries' /\ UnreadIntact' /\ Stopped'
    BY <1>1, <1>4 DEF LogShape, InStep, Boundaries, UnreadIntact, Slot, Stopped
  <2>. QED  BY <2>1, <2>2
<1>5. CASE header.t # "sample"
  <2>. HIDE DEF header, rec
  <2>1. pc' = "record" /\ ltail' = ltail + RecLen(rec) /\ taken' = taken + 1
    BY <1>1, <1>3, <1>5
  <2>2. /\ ltail' \in Nat /\ taken' \in Nat
        /\ tail <= ltail' /\ ltail' <= lhead'
        /\ LogShape' /\ InStep' /\ Boundaries' /\ UnreadIntact'
    BY <1>1, <2>1, PassRecord DEF rec
  <2>3. TypeOK'
    BY <1>1, <1>2, <1>3, <2>1, <2>2 DEF TypeOK
  <2>4. Bounds' /\ Reading' /\ Stopped'
    BY <1>1, <2>1, <2>2 DEF Bounds, Reading, Stopped
  <2>. QED  BY <2>2, <2>3, <2>4
<1>. QED  BY <1>4, <1>5

\* The count drain reads is the length of the record's chain: the clamp lets
\* every honest count through.
LEMMA CountInv ==
    ASSUME IInv, DrainCount
    PROVE  IInv'
<1>. USE DEF IInv
<1>. DEFINE rec == log[taken + 1]
<1>1. /\ pc = "nr" /\ pc' = "ips" /\ ips' = <<>>
      /\ nr' = ClampNr(buf[Slot(ltail + 1)].n, rsize)
      /\ UNCHANGED <<buf, head, rhead, wpos, log, edge, lhead, ltail, rsize, taken, tail, enabled, phase>>
  BY DEF DrainCount, kernel
<1>2. ltail < lhead /\ rec.type = "sample" /\ rsize = RecLen(rec)
  BY <1>1 DEF Reading
<1>3. RecLen(rec) \in Nat /\ RecLen(rec) >= 2 /\ Len(rec.chain) \in Nat
  BY <1>2, NextRecord, RecordFacts
<1>4. buf[Slot(ltail + 1)].n = Len(rec.chain)
  <2>1. 1 \in 0 .. RecLen(rec) - 1
    BY <1>3
  <2>2. buf[Slot(ltail + 1)] = WordOf(rec, 1)
    BY <1>2, <2>1, NextRecord
  <2>. QED  BY <2>2 DEF WordOf
<1>5. nr' = Len(rec.chain)
  BY <1>1, <1>2, <1>3, <1>4 DEF ClampNr, RecLen
<1>6. TypeOK' /\ Bounds' /\ Reading'
  <2>1. nr' \in Nat /\ ips' \in Seq(Word) /\ pc' = "ips"
    BY <1>1, <1>3, <1>5
  <2>2. TypeOK'
    BY <1>1, <2>1 DEF TypeOK
  <2>3. Bounds'
    BY <1>1 DEF Bounds
  <2>4. Reading'
    BY <1>1, <1>2, <1>3, <1>5 DEF Reading
  <2>. QED  BY <2>2, <2>3, <2>4
<1>7. LogShape' /\ InStep' /\ Boundaries' /\ UnreadIntact' /\ Stopped'
  BY <1>1 DEF LogShape, InStep, Boundaries, UnreadIntact, Slot, Stopped
<1>. QED  BY <1>6, <1>7

\* The word drain reads is the next word of the record's chain.
LEMMA IpInv ==
    ASSUME IInv, DrainIp
    PROVE  IInv'
<1>. USE DEF IInv
<1>. DEFINE rec == log[taken + 1]
            word == buf[Slot(ltail + 2 + Len(ips))]
<1>1. /\ pc = "ips" /\ Len(ips) < nr /\ ips' = Append(ips, word)
      /\ UNCHANGED <<buf, head, rhead, wpos, log, edge, lhead, ltail, rsize, nr, taken, tail, enabled, phase, pc>>
  BY DEF DrainIp, kernel
<1>2. /\ ltail < lhead /\ nr = Len(rec.chain)
      /\ \A i \in 1 .. Len(ips) : ips[i] = rec.chain[i]
  BY <1>1 DEF Reading
<1>3. /\ rec \in Records /\ RecLen(rec) = 2 + Len(rec.chain) /\ Len(rec.chain) \in Nat
      /\ Len(ips) \in Nat /\ ltail \in Nat
  BY <1>2, NextRecord, RecordFacts DEF RecLen, TypeOK
<1>4. word = rec.chain[Len(ips) + 1] /\ word \in Word
  <2>1. 2 + Len(ips) \in 0 .. RecLen(rec) - 1
    BY <1>1, <1>2, <1>3
  <2>2. buf[Slot(ltail + (2 + Len(ips)))] = WordOf(rec, 2 + Len(ips))
    BY <1>2, <2>1, NextRecord
  <2>3. ltail + (2 + Len(ips)) = ltail + 2 + Len(ips)
    BY <1>3
  <2>4. WordOf(rec, 2 + Len(ips)) \in Word
    BY <1>3, <2>1, RecordFacts
  <2>5. WordOf(rec, 2 + Len(ips)) = rec.chain[Len(ips) + 1]
    BY <1>3 DEF WordOf
  <2>. QED  BY <2>2, <2>3, <2>4, <2>5
<1>5. /\ ips' \in Seq(Word) /\ Len(ips') = Len(ips) + 1
      /\ \A i \in 1 .. Len(ips') : ips'[i] = rec.chain[i]
  <2>. HIDE DEF word, rec
  <2>1. ips \in Seq(Word)
    BY DEF TypeOK
  <2>2. ips' \in Seq(Word) /\ Len(ips') = Len(ips) + 1 /\ ips'[Len(ips) + 1] = word
    BY <1>1, <1>4, <2>1
  <2>3. \A i \in 1 .. Len(ips) : ips'[i] = ips[i]
    BY <1>1, <1>4, <2>1
  <2>. QED  BY <1>2, <1>3, <1>4, <2>2, <2>3
<1>6. TypeOK' /\ Bounds' /\ Reading'
  <2>1. Len(ips') <= nr'
    BY <1>1, <1>3, <1>5 DEF TypeOK
  <2>. QED  BY <1>1, <1>5, <2>1 DEF TypeOK, Bounds, Reading
<1>7. LogShape' /\ InStep' /\ Boundaries' /\ UnreadIntact' /\ Stopped'
  BY <1>1 DEF LogShape, InStep, Boundaries, UnreadIntact, Slot, Stopped
<1>. QED  BY <1>6, <1>7

\* Once nr words are read, ips is the record's chain.
LEMMA ChainRead ==
    ASSUME IInv, pc = "ips", Len(ips) >= nr
    PROVE  ips = log[taken + 1].chain
<1>1. /\ ltail < lhead /\ nr = Len(log[taken + 1].chain) /\ Len(ips) <= nr
      /\ \A i \in 1 .. Len(ips) : ips[i] = log[taken + 1].chain[i]
  BY DEF IInv, Reading
<1>2. log[taken + 1].chain \in Seq(ChainWord) /\ ips \in Seq(Word) /\ nr \in Nat
  BY <1>1, NextRecord, RecordFacts DEF IInv, TypeOK
<1>3. Len(ips) = Len(log[taken + 1].chain)
  BY <1>1, <1>2
<1>. QED  BY <1>1, <1>2, <1>3

LEMMA SampleInv ==
    ASSUME IInv, DrainSample
    PROVE  IInv'
<1>. USE DEF IInv
<1>1. /\ pc = "ips" /\ pc' = "record" /\ ltail' = ltail + rsize /\ taken' = taken + 1
      /\ UNCHANGED <<buf, head, rhead, wpos, log, edge, lhead, rsize, nr, ips, tail, enabled, phase>>
  BY DEF DrainSample, kernel
<1>2. ltail < lhead /\ rsize = RecLen(log[taken + 1])
  BY <1>1 DEF Reading
<1>3. /\ ltail' \in Nat /\ taken' \in Nat
      /\ tail <= ltail' /\ ltail' <= lhead'
      /\ LogShape' /\ InStep' /\ Boundaries' /\ UnreadIntact'
  BY <1>1, <1>2, PassRecord
<1>4. TypeOK' /\ Bounds' /\ Reading' /\ Stopped'
  BY <1>1, <1>3 DEF TypeOK, Bounds, Reading, Stopped
<1>. QED  BY <1>3, <1>4

\* data_tail is stored only when everything below it has been read.
LEMMA TailInv ==
    ASSUME IInv, DrainPublish
    PROVE  IInv'
<1>. USE DEF IInv
<1>1. /\ pc = "publish" /\ pc' = "idle" /\ tail' = ltail
      /\ phase' = IF phase = "final" THEN "done" ELSE phase
      /\ UNCHANGED <<buf, head, rhead, wpos, log, edge, lhead, ltail, rsize, nr, ips, taken, enabled>>
  BY DEF DrainPublish, kernel, drain
<1>2. ltail = lhead /\ phase # "done"
  BY <1>1 DEF Reading, Stopped
<1>3. TypeOK' /\ Reading'
  BY <1>1 DEF TypeOK, Reading
<1>4. Bounds'
  BY <1>1, SizeAssumption DEF Bounds, TypeOK
<1>5. LogShape' /\ Boundaries' /\ UnreadIntact'
  BY <1>1 DEF LogShape, Boundaries, UnreadIntact, Slot
<1>6. InStep'
  <2>1. taken + 1 \in 1 .. taken + 1 /\ ltail = edge[taken + 1]
    BY DEF InStep, TypeOK
  <2>. QED  BY <1>1, <2>1 DEF InStep
<1>7. Stopped'
  BY <1>1, <1>2 DEF Stopped, TypeOK
<1>. QED  BY <1>3, <1>4, <1>5, <1>6, <1>7

LEMMA DisableInv ==
    ASSUME IInv, Disable
    PROVE  IInv'
<1>. USE DEF IInv
<1>1. /\ pc = "idle" /\ phase = "loop" /\ phase' = "final"
      /\ (enabled' = FALSE /\ head = rhead) \/ enabled' = enabled
      /\ UNCHANGED <<buf, head, rhead, wpos, log, edge, lhead, ltail, rsize, nr, ips, taken, tail, pc>>
  BY DEF Disable, kernel, drain
<1>2. TypeOK' /\ Bounds' /\ Reading'
  BY <1>1 DEF TypeOK, Bounds, Reading
<1>3. LogShape' /\ InStep' /\ Boundaries' /\ UnreadIntact'
  BY <1>1 DEF LogShape, InStep, Boundaries, UnreadIntact, Slot
<1>4. Stopped'
  BY <1>1 DEF Stopped
<1>. QED  BY <1>2, <1>3, <1>4

LEMMA NextInv == IInv /\ [Next]_vars => IInv'
<1>. SUFFICES ASSUME IInv, [Next]_vars PROVE IInv'
  OBVIOUS
<1>1. CASE \E r \in Records : KernelReserve(r)
  BY <1>1, ReserveInv
<1>2. CASE KernelWrite
  BY <1>2, WriteInv
<1>3. CASE KernelPublish
  BY <1>3, PublishInv
<1>4. CASE DrainStart
  BY <1>4, StartInv
<1>5. CASE DrainExit
  BY <1>5, ExitInv
<1>6. CASE DrainHeader
  BY <1>6, HeaderInv
<1>7. CASE DrainCount
  BY <1>7, CountInv
<1>8. CASE DrainIp
  BY <1>8, IpInv
<1>9. CASE DrainSample
  BY <1>9, SampleInv
<1>10. CASE DrainPublish
  BY <1>10, TailInv
<1>11. CASE Disable
  BY <1>11, DisableInv
<1>12. CASE UNCHANGED vars
  <2>1. UNCHANGED <<buf, head, rhead, wpos, log, edge, lhead, ltail, rsize, nr, ips, taken, tail, enabled, phase, pc>>
    BY <1>12 DEF vars, kernel, drain
  <2>. QED  BY <2>1 DEF IInv, TypeOK, Bounds, LogShape, InStep, Boundaries, Reading, Stopped, UnreadIntact, Slot
<1>. QED
  BY <1>1, <1>2, <1>3, <1>4, <1>5, <1>6, <1>7, <1>8, <1>9, <1>10, <1>11, <1>12
  DEF Next, KernelNext, DrainNext

\* The strengthened invariant holds in every reachable state.
THEOREM Invariance == Spec => []IInv
  BY InitInv, NextInv, PTL DEF Spec

-----------------------------------------------------------------------------
(* The properties.                                                         *)

\* Every variable has its type in every reachable state.
THEOREM TypeCorrect == Spec => []TypeOK
<1>1. IInv => TypeOK
  BY DEF IInv
<1>. QED  BY <1>1, Invariance, PTL

\* The kernel never overwrites a word of a record drain has not passed.
THEOREM UnreadDataIntact == Spec => []UnreadIntact
<1>1. IInv => UnreadIntact
  BY DEF IInv
<1>. QED  BY <1>1, Invariance, PTL

\* drain reads only published slots, and none that the kernel is about to write.
THEOREM NoRace == Spec => []NoReadWriteRace
<1>1. IInv => NoReadWriteRace
  <2>. SUFFICES ASSUME IInv, AboutToRead
                PROVE  /\ ReadPos < head
                       /\ wpos < rhead => Slot(ReadPos) # Slot(wpos)
    BY DEF NoReadWriteRace
  <2>. USE DEF IInv
  <2>. DEFINE rec == log[taken + 1]
  <2>1. ltail < lhead
    BY DEF AboutToRead, Reading
  <2>2. RecLen(rec) \in Nat /\ RecLen(rec) >= 2 /\ ltail + RecLen(rec) <= lhead
    BY <2>1, NextRecord, RecordFacts
  <2>3. RecLen(rec) = 2 + Len(rec.chain) /\ Len(rec.chain) \in Nat
    BY <2>1, NextRecord, RecordFacts DEF RecLen
  <2>4. ltail \in Nat /\ lhead \in Nat /\ head \in Nat /\ wpos \in Nat /\ rhead \in Nat /\ tail \in Nat
    BY DEF TypeOK
  <2>5. ReadPos \in Nat /\ ltail <= ReadPos /\ ReadPos < ltail + RecLen(rec)
    <3>1. CASE pc = "record"
      BY <2>2, <2>4, <3>1 DEF ReadPos
    <3>2. CASE pc = "nr"
      BY <2>2, <2>4, <3>2 DEF ReadPos
    <3>3. CASE pc = "ips"
      <4>1. Len(ips) < Len(rec.chain) /\ Len(ips) \in Nat
        BY <3>3 DEF AboutToRead, Reading, TypeOK
      <4>. HIDE DEF rec
      <4>. QED  BY <2>3, <2>4, <3>3, <4>1 DEF ReadPos
    <3>. QED  BY <3>1, <3>2, <3>3 DEF AboutToRead
  <2>6. ReadPos < head
    BY <2>2, <2>4, <2>5 DEF Bounds
  <2>7. ASSUME wpos < rhead PROVE Slot(ReadPos) # Slot(wpos)
    <3>1. ReadPos < wpos /\ wpos < ReadPos + Size
      BY <2>4, <2>5, <2>6, <2>7, SizeAssumption DEF Bounds
    <3>. QED  BY <2>4, <2>5, <3>1, SlotInjective
  <2>. QED  BY <2>6, <2>7
<1>. QED  BY <1>1, Invariance, PTL

\* drain is always at a record boundary, and so is the tail it publishes.
THEOREM StaysInStep == Spec => []InStep
<1>1. IInv => InStep
  BY DEF IInv
<1>. QED  BY <1>1, Invariance, PTL

\* After a successful disable the final drain has passed every record.
THEOREM NothingLeftBehind == Spec => []FinalDrainComplete
<1>1. IInv => FinalDrainComplete
  <2>. SUFFICES ASSUME IInv, phase = "done", ~enabled
                PROVE  taken = Len(log) /\ tail = rhead
    BY DEF FinalDrainComplete
  <2>. USE DEF IInv
  <2>1. tail = rhead /\ ltail = tail
    BY DEF Stopped, Bounds
  <2>2. taken = Len(log)
    <3>1. taken \in Nat /\ taken <= Len(log) /\ ltail = edge[taken + 1]
      BY DEF TypeOK, InStep
    <3>2. ASSUME taken < Len(log) PROVE FALSE
      <4>1. taken + 1 \in 1 .. Len(log) /\ taken + 1 < Len(log) + 1
        BY <3>1, <3>2, LogType
      <4>2. edge[taken + 1] + RecLen(log[taken + 1]) <= edge[Len(log) + 1]
        BY <4>1, LogType DEF LogShape
      <4>3. RecLen(log[taken + 1]) \in Nat /\ RecLen(log[taken + 1]) >= 2
        BY <4>1, LogType
      <4>4. edge[Len(log) + 1] = rhead /\ rhead = ltail /\ ltail \in Nat
        BY <2>1 DEF LogShape, TypeOK
      <4>. QED  BY <3>1, <4>2, <4>3, <4>4
    <3>. QED  BY <3>1, <3>2, LogType
  <2>. QED  BY <2>1, <2>2
<1>. QED  BY <1>1, Invariance, PTL

-----------------------------------------------------------------------------
(* Refinement.                                                             *)

\* The records drain has not passed: the queue of the abstract specification.
Pending == SubSeq(log, taken + 1, Len(log))

\* A reserved record enters the queue at its end.
LEMMA ReserveEmits ==
    ASSUME IInv, NEW r \in Records, KernelReserve(r)
    PROVE  Queue!Emit(r)
<1>. USE DEF IInv
<1>1. /\ log' = Append(log, r) /\ taken' = taken /\ enabled
      /\ delivered' = delivered /\ enabled' = enabled /\ phase' = phase
  BY DEF KernelReserve, drain
<1>2. log \in Seq(Records) /\ Len(log) \in Nat /\ taken \in Nat /\ taken <= Len(log)
  BY DEF TypeOK, InStep
<1>3. log' \in Seq(Records) /\ Len(log') = Len(log) + 1 /\ log'[Len(log) + 1] = r
  BY <1>1, <1>2
<1>4. SubSeq(log', taken + 1, Len(log)) = Pending
  BY <1>1, <1>2, <1>3 DEF Pending
<1>5. SubSeq(log', taken' + 1, Len(log')) = SubSeq(log', taken + 1, Len(log)) \o <<r>>
  <2>1. taken + 1 \in 1 .. Len(log') /\ Len(log') \in taken + 1 .. Len(log')
    BY <1>2, <1>3
  <2>2. SubSeq(log', taken + 1, Len(log')) =
            SubSeq(log', taken + 1, Len(log') - 1) \o <<log'[Len(log')]>>
    BY <1>3, <2>1, SubSeqRecursiveSecond
  <2>3. Len(log') - 1 = Len(log)
    BY <1>2, <1>3
  <2>4. SubSeq(log', taken + 1, Len(log')) = SubSeq(log', taken + 1, Len(log)) \o <<r>>
    BY <1>3, <2>2, <2>3
  <2>. QED  BY <1>1, <2>4
<1>6. SubSeq(log', taken' + 1, Len(log')) = Append(Pending, r)
  <2>1. Pending \in Seq(Records)
    BY <1>2, SubSeqProperties DEF Pending
  <2>. QED  BY <1>4, <1>5, <2>1, AppendIsConcat
<1>. QED  BY <1>1, <1>6 DEF Queue!Emit, Pending

\* Passing a record takes it from the front of the queue.
LEMMA PassTakes ==
    ASSUME IInv, ltail < lhead, log' = log, taken' = taken + 1
    PROVE  /\ Pending # <<>> /\ Head(Pending) = log[taken + 1]
           /\ SubSeq(log', taken' + 1, Len(log')) = Tail(Pending)
<1>1. /\ log \in Seq(Records) /\ Len(log) \in Nat /\ taken \in Nat
      /\ taken + 1 \in 1 .. Len(log)
  BY NextRecord DEF IInv, TypeOK
<1>2. Len(log) \in taken + 1 .. Len(log)
  BY <1>1
<1>3. /\ Head(Pending) = log[taken + 1]
      /\ Tail(Pending) = SubSeq(log, taken + 1 + 1, Len(log))
  BY <1>1, <1>2, HeadTailOfSubSeq DEF Pending
<1>4. Pending # <<>>
  <2>1. \A i \in taken + 1 .. Len(log) : log[i] \in Records
    BY <1>1
  <2>2. Len(Pending) = Len(log) - (taken + 1) + 1
    BY <1>1, <2>1, SubSeqProperties DEF Pending
  <2>. QED  BY <1>1, <2>2
<1>. QED  BY <1>3, <1>4

\* Every step of the ring is a step of the queue or leaves the queue alone.
LEMMA NextRefines == IInv /\ [Next]_vars => [Queue!QNext]_(Queue!qvars)
<1>. SUFFICES ASSUME IInv, [Next]_vars PROVE [Queue!QNext]_(Queue!qvars)
  OBVIOUS
<1>. USE DEF IInv
<1>. DEFINE quiet == UNCHANGED <<log, taken, delivered, enabled, phase>>
<1>0. quiet => UNCHANGED Queue!qvars
  BY DEF Queue!qvars
<1>1. ASSUME NEW r \in Records, KernelReserve(r) PROVE Queue!QNext
  BY <1>1, ReserveEmits DEF Queue!QNext
<1>2. KernelWrite \/ KernelPublish => quiet
  BY DEF KernelWrite, KernelPublish, drain
<1>3. DrainStart \/ DrainExit \/ DrainCount \/ DrainIp => quiet
  BY DEF DrainStart, DrainExit, DrainCount, DrainIp, kernel, drain
<1>4. CASE DrainHeader
  <2>1. ltail < lhead /\ phase # "done"
    BY <1>4 DEF DrainHeader, Stopped
  <2>2. CASE buf[Slot(ltail)].t = "sample"
    BY <1>0, <1>4, <2>2 DEF DrainHeader, kernel
  <2>3. CASE buf[Slot(ltail)].t # "sample"
    <3>1. /\ taken' = taken + 1
          /\ UNCHANGED <<log, delivered, enabled, phase>>
      BY <1>4, <2>3 DEF DrainHeader, kernel
    <3>2. log[taken + 1].type # "sample"
      <4>1. 0 \in 0 .. RecLen(log[taken + 1]) - 1
        BY <2>1, NextRecord, RecordFacts
      <4>2. buf[Slot(ltail + 0)] = WordOf(log[taken + 1], 0)
        BY <2>1, <4>1, NextRecord
      <4>3. ltail + 0 = ltail
        BY DEF TypeOK
      <4>. QED  BY <2>3, <4>2, <4>3 DEF WordOf
    <3>3. UserChain(log[taken + 1]) = <<>>
      BY <3>2 DEF UserChain
    <3>. QED  BY <2>1, <3>1, <3>3, PassTakes DEF Queue!QNext, Queue!Take, Pending
  <2>. QED  BY <2>2, <2>3
<1>5. CASE DrainSample
  <2>1. /\ pc = "ips" /\ Len(ips) >= nr /\ taken' = taken + 1
        /\ OnSample(WithoutMarkers(ips))
        /\ UNCHANGED <<log, enabled, phase>>
    BY <1>5 DEF DrainSample, kernel
  <2>2. ltail < lhead /\ phase # "done" /\ log[taken + 1].type = "sample"
    BY <2>1 DEF Reading, Stopped
  <2>3. ips = log[taken + 1].chain
    BY <2>1, ChainRead
  <2>4. WithoutMarkers(ips) = UserChain(log[taken + 1])
    BY <2>2, <2>3 DEF UserChain
  <2>. QED  BY <2>1, <2>2, <2>4, PassTakes DEF Queue!QNext, Queue!Take, Pending, OnSample
<1>6. CASE DrainPublish
  <2>1. /\ pc = "publish" /\ phase' = IF phase = "final" THEN "done" ELSE phase
        /\ UNCHANGED <<log, taken, delivered, enabled>>
    BY <1>6 DEF DrainPublish, kernel, drain
  <2>2. CASE phase # "final"
    BY <1>0, <2>1, <2>2
  <2>3. CASE phase = "final"
    <3>1. ~enabled => Pending = <<>>
      <4>. SUFFICES ASSUME ~enabled PROVE Pending = <<>>
        OBVIOUS
      <4>1. ltail = rhead
        BY <2>1, <2>3 DEF Reading, Stopped
      <4>2. taken \in Nat /\ taken <= Len(log) /\ ltail = edge[taken + 1] /\ Len(log) \in Nat
        BY DEF TypeOK, InStep
      <4>3. ASSUME taken < Len(log) PROVE FALSE
        <5>1. taken + 1 \in 1 .. Len(log) /\ taken + 1 < Len(log) + 1
          BY <4>2, <4>3
        <5>2. edge[taken + 1] + RecLen(log[taken + 1]) <= edge[Len(log) + 1]
          BY <5>1, <4>2 DEF LogShape
        <5>. QED  BY <4>1, <4>2, <5>1, <5>2, LogType DEF LogShape, TypeOK
      <4>4. Len(log) < taken + 1 /\ taken + 1 \in Int /\ Len(log) \in Int
        BY <4>2, <4>3
      <4>. QED  BY <4>4, SubSeqEmpty DEF Pending
    <3>. QED  BY <2>1, <2>3, <3>1 DEF Queue!QNext, Queue!Finish, Pending
  <2>. QED  BY <2>2, <2>3
<1>7. CASE Disable
  <2>1. /\ phase = "loop" /\ phase' = "final"
        /\ enabled' = FALSE \/ enabled' = enabled
        /\ UNCHANGED <<log, taken, delivered>>
    BY <1>7 DEF Disable, kernel, drain
  <2>2. enabled
    BY <2>1 DEF Stopped
  <2>3. CASE enabled' = FALSE
    BY <2>1, <2>2, <2>3 DEF Queue!QNext, Queue!SwitchOff
  <2>4. CASE enabled' = enabled
    BY <2>1, <2>4 DEF Queue!qvars
  <2>. QED  BY <2>1, <2>3, <2>4
<1>8. UNCHANGED vars => quiet
  BY DEF vars, kernel, drain
<1>. QED
  BY <1>0, <1>1, <1>2, <1>3, <1>4, <1>5, <1>6, <1>7, <1>8 DEF Next, KernelNext, DrainNext

\* The ring, its writer and its reader implement the lossy FIFO queue.
THEOREM Refinement == Spec => ImplementsQueue
<1>1. Init => Queue!QInit
  BY SubSeqEmpty DEF Init, Queue!QInit
<1>. QED
  BY <1>1, Invariance, NextRefines, PTL DEF Spec, ImplementsQueue, Queue!QSpec
=============================================================================
