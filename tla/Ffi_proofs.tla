----------------------------- MODULE Ffi_proofs -----------------------------
(***************************************************************************)
(* For any number of threads and any set of addresses: each NULL the C     *)
(* interface returns is explained, everything allocated has one owner, and *)
(* the message a thread was lent stays valid.                              *)
(***************************************************************************)
EXTENDS Ffi, TLAPS

\* The error slot of a thread holds a message.
SlotsHoldMessages ==
    \A t \in Threads : LAST_ERROR[t] # Null => heap[LAST_ERROR[t]] \in Messages

\* What a thread was lent is what its slot holds, and only between its calls.
LentIsLast ==
    \A t \in Threads : lent[t] # Null => lent[t] = LAST_ERROR[t] /\ pc[t] = "idle"

IInv == TypeOK /\ SlotsHoldMessages /\ LentIsLast /\ OwnedOnce /\ NullIsExplained

\* OwnedOnce, one address at a time.
Owners ==
    /\ \A s \in Slots : heap[s] # "free" <=> s \in held \/ \E t \in Threads : LAST_ERROR[t] = s
    /\ \A s \in held, t \in Threads : LAST_ERROR[t] # s
    /\ \A t, u \in Threads : LAST_ERROR[t] = LAST_ERROR[u] => t = u \/ LAST_ERROR[t] = Null
    /\ \A t \in Threads : writing[t] # Null => writing[t] \in held

LEMMA OwnersSay == TypeOK => (OwnedOnce <=> Owners)
<1>. SUFFICES ASSUME TypeOK PROVE OwnedOnce <=> Owners
  OBVIOUS
<1>1. held \subseteq Slots /\ \A t \in Threads : LAST_ERROR[t] \in Slots \cup {Null}
  BY DEF TypeOK
<1>2. Slots \ Unused = {s \in Slots : heap[s] # "free"}
  BY DEF Unused
<1>. QED  BY <1>1, <1>2, NullAssumption DEF OwnedOnce, Owners

LEMMA OwnersSayNext == TypeOK' => (OwnedOnce' <=> Owners')
  BY OwnersSay, PTL

Inner == TypeOK /\ SlotsHoldMessages /\ LentIsLast /\ Owners /\ NullIsExplained

LEMMA InnerIsInv == IInv <=> Inner
  BY OwnersSay DEF IInv, Inner

LEMMA InnerIsInvNext == Inner' => IInv'
  BY OwnersSayNext DEF IInv, Inner

LEMMA InitInv == Init => IInv
<1>. SUFFICES ASSUME Init PROVE Inner
  BY InnerIsInv
<1>1. TypeOK
  BY DEF Init, TypeOK
<1>. QED
  BY <1>1, NullAssumption
     DEF Init, Inner, SlotsHoldMessages, LentIsLast, Owners, NullIsExplained, Messages

\* A call that fails: the new message replaces the one before.
LEMMA FailInv ==
    ASSUME Inner, NEW t \in Threads, pc[t] \in {"probe", "read", "write"},
           NEW m \in Messages, Fail(t, m),
           answer' = [answer EXCEPT ![t] = m], pc' = [pc EXCEPT ![t] = "idle"],
           writing' = [writing EXCEPT ![t] = Null], UNCHANGED <<registry, lent>>
    PROVE  Inner'
<1>1. PICK s \in Unused :
        /\ heap' = [x \in Slots |-> CASE x = s             -> m
                                      [] x = LAST_ERROR[t] -> "free"
                                      [] OTHER             -> heap[x]]
        /\ LAST_ERROR' = [LAST_ERROR EXCEPT ![t] = s]
  BY DEF Fail, set_last_error
<1>2. s \in Slots /\ heap[s] = "free" /\ s # Null /\ held' = held
  BY NullAssumption DEF Unused, Fail
<1>3. m # "free" /\ m \in Messages
  BY DEF Messages
<1>4. \A u \in Threads : LAST_ERROR[u] # s
  BY <1>2 DEF Inner, Owners
<1>5. \A x \in Slots : heap'[x] = IF x = s THEN m ELSE IF x = LAST_ERROR[t] THEN "free" ELSE heap[x]
  BY <1>1, <1>2, <1>4
<1>6. TypeOK'
  BY <1>1, <1>2, <1>3 DEF Inner, TypeOK
<1>7. \A u \in Threads : LAST_ERROR'[u] = IF u = t THEN s ELSE LAST_ERROR[u]
  BY <1>1 DEF Inner, TypeOK
<1>8. \A u \in Threads \ {t} : LAST_ERROR[u] # Null =>
          LAST_ERROR[u] \in Slots /\ LAST_ERROR[u] # LAST_ERROR[t]
  BY DEF Inner, Owners, TypeOK
<1>9. \A u \in Threads \ {t} : LAST_ERROR[u] # Null =>
          heap'[LAST_ERROR'[u]] = heap[LAST_ERROR[u]]
  BY <1>5, <1>7, <1>4, <1>8
<1>10. SlotsHoldMessages'
  BY <1>2, <1>3, <1>5, <1>7, <1>9 DEF Inner, SlotsHoldMessages
<1>11. LentIsLast'
  BY <1>7 DEF Inner, LentIsLast, TypeOK
<1>12. Owners'
  <2>1. ASSUME NEW x \in Slots
        PROVE  heap'[x] # "free" <=> x \in held \/ \E u \in Threads : LAST_ERROR'[u] = x
    <3>1. CASE x = s
      BY <1>3, <1>5, <1>7, <3>1
    <3>2. CASE x = LAST_ERROR[t]
      BY <1>5, <1>7, <1>4, <1>8, <3>2, NullAssumption DEF Inner, Owners
    <3>3. CASE x # s /\ x # LAST_ERROR[t]
      <4>1. heap'[x] = heap[x]
        BY <1>5, <3>3
      <4>2. (\E u \in Threads : LAST_ERROR'[u] = x) <=> (\E u \in Threads : LAST_ERROR[u] = x)
        BY <1>7, <3>3
      <4>. QED  BY <4>1, <4>2 DEF Inner, Owners
    <3>. QED  BY <3>1, <3>2, <3>3
  <2>2. \A x \in held, u \in Threads : LAST_ERROR'[u] # x
    BY <1>2, <1>7 DEF Inner, Owners, TypeOK
  <2>3. \A u, v \in Threads : LAST_ERROR'[u] = LAST_ERROR'[v] => u = v \/ LAST_ERROR'[u] = Null
    BY <1>7, <1>4 DEF Inner, Owners
  <2>4. \A u \in Threads : writing'[u] # Null => writing'[u] \in held
    BY DEF Inner, Owners, TypeOK
  <2>. QED  BY <1>2, <2>1, <2>2, <2>3, <2>4 DEF Owners
<1>13. NullIsExplained'
  <2>. SUFFICES ASSUME NEW u \in Threads, answer'[u] \in Messages
                PROVE  LAST_ERROR'[u] # Null /\ heap'[LAST_ERROR'[u]] = answer'[u]
    BY DEF NullIsExplained
  <2>1. CASE u = t
    BY <1>2, <1>5, <1>7, <2>1 DEF Inner, TypeOK
  <2>2. CASE u # t
    BY <1>7, <1>9, <2>2 DEF Inner, TypeOK, NullIsExplained
  <2>. QED  BY <2>1, <2>2
<1>. QED  BY <1>6, <1>10, <1>11, <1>12, <1>13 DEF Inner

\* A call that succeeds: the caller owns one thing more.
LEMMA GiveInv ==
    ASSUME Inner, NEW t \in Threads, NEW object \in Profiles \cup Strings, Give(object),
           answer' = [answer EXCEPT ![t] = "ok"], pc' = [pc EXCEPT ![t] = "idle"],
           writing' = [writing EXCEPT ![t] = Null], UNCHANGED <<registry, lent>>
    PROVE  Inner'
<1>1. PICK s \in Unused : heap' = [heap EXCEPT ![s] = object] /\ held' = held \cup {s}
  BY DEF Give
<1>2. s \in Slots /\ heap[s] = "free" /\ s # Null /\ LAST_ERROR' = LAST_ERROR
  BY NullAssumption DEF Unused, Give
<1>3. object # "free" /\ object \in Profiles \cup Strings
  BY DEF Profiles, Strings
<1>4. \A u \in Threads : LAST_ERROR[u] # s
  BY <1>2 DEF Inner, Owners
<1>5. TypeOK'
  BY <1>1, <1>2, <1>3 DEF Inner, TypeOK
<1>6. \A u \in Threads : LAST_ERROR[u] # Null => heap'[LAST_ERROR[u]] = heap[LAST_ERROR[u]]
  BY <1>1, <1>4 DEF Inner, TypeOK
<1>7. SlotsHoldMessages'
  BY <1>2, <1>6 DEF Inner, SlotsHoldMessages
<1>8. LentIsLast'
  BY <1>2 DEF Inner, LentIsLast, TypeOK
<1>9. Owners'
  BY <1>1, <1>2, <1>3, <1>4 DEF Inner, Owners, TypeOK
<1>10. NullIsExplained'
  BY <1>2, <1>6 DEF Inner, NullIsExplained, TypeOK, Messages
<1>. QED  BY <1>5, <1>7, <1>8, <1>9, <1>10 DEF Inner

\* What a call runs into is something to hand out, or a reason.
LEMMA Outcomes ==
    /\ \A d \in Documents : probe_outcome(d) \in Messages \cup Profiles \cup Strings
    /\ \A d \in Documents, name \in InputNames :
           read_outcome(d, name) \in Messages \cup Profiles \cup Strings
    /\ \A p \in Profiles \cup Strings \cup Messages \cup {"free"}, name \in OutputNames :
           write_outcome(p, name) \in Messages \cup Profiles \cup Strings
<1>1. ASSUME NEW d \in Documents PROVE probe_outcome(d) \in Messages \cup Strings
  BY DEF probe_outcome, Messages, Strings
<1>2. ASSUME NEW d \in Documents, NEW name \in InputNames
      PROVE  read_outcome(d, name) \in Messages \cup Profiles
  BY DEF read_outcome, Messages
<1>3. ASSUME NEW p, NEW name \in OutputNames
      PROVE  write_outcome(p, name) \in Messages \cup Strings
  BY DEF write_outcome, Messages, Strings
<1>. QED  BY <1>1, <1>2, <1>3

LEMMA ReturnInv ==
    ASSUME Inner, NEW t \in Threads, pc[t] \in {"probe", "read", "write"},
           NEW outcome \in Messages \cup Profiles \cup Strings, Return(t, outcome)
    PROVE  Inner'
<1>1. CASE outcome \in Messages
  BY <1>1, FailInv DEF Return
<1>2. CASE outcome \notin Messages
  BY <1>2, GiveInv DEF Return
<1>. QED  BY <1>1, <1>2

\* Every call of thread t, and its end, keeps the invariant.
LEMMA ThreadInv ==
    ASSUME Inner, NEW t \in Threads,
           \/ Call(t) \/ FillRegistry(t) \/ RegistryFilled(t)
           \/ profcast_probe(t) \/ profcast_read(t) \/ profcast_profile_write(t)
           \/ profcast_last_error(t) \/ EndThread(t)
           \/ \E s \in Slots : Free(t, s)
    PROVE  Inner'
<1>. USE DEF Inner
<1>1. ASSUME NEW function \in {"probe", "read", "write"}, NEW p \in held \cup {Null},
             Enter(t, function, p)
      PROVE  Inner'
  <2>1. TypeOK'
    BY <1>1 DEF Enter, TypeOK
  <2>2. SlotsHoldMessages' /\ LentIsLast'
    BY <1>1 DEF Enter, TypeOK, SlotsHoldMessages, LentIsLast
  <2>3. Owners'
    BY <1>1 DEF Enter, TypeOK, Owners
  <2>4. NullIsExplained'
    BY <1>1 DEF Enter, TypeOK, NullIsExplained, Messages
  <2>. QED  BY <2>1, <2>2, <2>3, <2>4
<1>2. CASE Call(t)
  BY <1>1, <1>2 DEF Call
<1>3. CASE FillRegistry(t) \/ RegistryFilled(t)
  BY <1>3 DEF FillRegistry, RegistryFilled, TypeOK, SlotsHoldMessages, LentIsLast, Owners,
              NullIsExplained
<1>4. CASE profcast_probe(t)
  BY <1>4, Outcomes, ReturnInv DEF profcast_probe
<1>5. CASE profcast_read(t)
  BY <1>5, Outcomes, ReturnInv DEF profcast_read
<1>6. CASE profcast_profile_write(t)
  <2>1. pc[t] = "write"
    BY <1>6 DEF profcast_profile_write
  <2>2. ASSUME writing[t] # Null, NEW name \in OutputNames,
               Return(t, write_outcome(heap[writing[t]], name))
        PROVE  Inner'
    <3>1. heap[writing[t]] \in Profiles \cup Strings \cup Messages \cup {"free"}
      BY <2>2 DEF TypeOK, Owners
    <3>. QED  BY <2>1, <2>2, <3>1, Outcomes, ReturnInv
  <2>3. ASSUME NEW m \in {"null profile", "no output name", "panic"}, Return(t, m) PROVE Inner'
    BY <2>1, <2>3, ReturnInv DEF Messages
  <2>. QED  BY <1>6, <2>2, <2>3 DEF profcast_profile_write
<1>7. CASE profcast_last_error(t)
  BY <1>7 DEF profcast_last_error, TypeOK, SlotsHoldMessages, LentIsLast, Owners, NullIsExplained
<1>8. CASE EndThread(t)
  <2>1. \A u \in Threads \ {t} : LAST_ERROR[u] # Null =>
            LAST_ERROR[u] \in Slots /\ LAST_ERROR[u] # LAST_ERROR[t]
    BY DEF Owners, TypeOK
  <2>2. \A u \in Threads \ {t} : LAST_ERROR[u] # Null =>
            heap'[LAST_ERROR'[u]] = heap[LAST_ERROR[u]]
    BY <1>8, <2>1 DEF EndThread, TypeOK
  <2>3. TypeOK'
    BY <1>8 DEF EndThread, TypeOK
  <2>4. SlotsHoldMessages' /\ LentIsLast'
    BY <1>8, <2>2 DEF EndThread, TypeOK, SlotsHoldMessages, LentIsLast
  <2>5. NullIsExplained'
    BY <1>8, <2>2 DEF EndThread, TypeOK, NullIsExplained, Messages
  <2>6. Owners'
    BY <1>8, <2>1, NullAssumption DEF EndThread, TypeOK, Owners
  <2>. QED  BY <2>3, <2>4, <2>5, <2>6
<1>9. ASSUME NEW s \in Slots, Free(t, s) PROVE Inner'
  <2>1. \A u \in Threads : LAST_ERROR[u] # s
    BY <1>9 DEF Free, Owners
  <2>2. \A u \in Threads : LAST_ERROR[u] # Null => heap'[LAST_ERROR[u]] = heap[LAST_ERROR[u]]
    BY <1>9, <2>1 DEF Free, TypeOK
  <2>3. TypeOK'
    BY <1>9 DEF Free, TypeOK
  <2>4. SlotsHoldMessages' /\ LentIsLast' /\ NullIsExplained'
    BY <1>9, <2>2 DEF Free, TypeOK, SlotsHoldMessages, LentIsLast, NullIsExplained
  <2>5. Owners'
    BY <1>9, <2>1, NullAssumption DEF Free, TypeOK, Owners
  <2>. QED  BY <2>3, <2>4, <2>5
<1>. QED  BY <1>2, <1>3, <1>4, <1>5, <1>6, <1>7, <1>8, <1>9

LEMMA NextInv == IInv /\ [Next]_vars => IInv'
<1>. SUFFICES ASSUME Inner, [Next]_vars PROVE Inner'
  BY InnerIsInv, InnerIsInvNext
<1>1. CASE Next
  BY <1>1, ThreadInv DEF Next
<1>2. CASE UNCHANGED vars
  BY <1>2 DEF vars, Inner, TypeOK, SlotsHoldMessages, LentIsLast, Owners, NullIsExplained
<1>. QED  BY <1>1, <1>2

LEMMA SpecInv == Spec => []IInv
  BY InitInv, NextInv, PTL DEF Spec

\* Every variable has its type in every reachable state.
THEOREM TypeCorrect == Spec => []TypeOK
<1>1. IInv => TypeOK
  BY DEF IInv
<1>. QED  BY <1>1, SpecInv, PTL

\* Whatever the other threads do, a thread whose call returned NULL finds that call's
\* own message (set_last_error, catch_panic).
THEOREM Explained == Spec => []NullIsExplained
<1>1. IInv => NullIsExplained
  BY DEF IInv
<1>. QED  BY <1>1, SpecInv, PTL

\* Every allocation is owned once, by the caller or by the error slot of one thread
\* (Box::into_raw, CString::into_raw, LAST_ERROR).
THEOREM OneOwner == Spec => []OwnedOnce
<1>1. IInv => OwnedOnce
  BY DEF IInv
<1>. QED  BY <1>1, SpecInv, PTL

\* The pointer profcast_last_error returned is valid until the thread's next call.
THEOREM StaysValid == Spec => []MessageStaysValid
<1>1. IInv => MessageStaysValid
  BY DEF IInv, SlotsHoldMessages, LentIsLast, MessageStaysValid
<1>. QED  BY <1>1, SpecInv, PTL
=============================================================================
