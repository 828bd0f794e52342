-------------------------- MODULE Selection_proofs --------------------------
(***************************************************************************)
(* Facts about Selection's operators, for sequences of any length.         *)
(*                                                                         *)
(* The proofs by induction over positions are about sets of naturals: a    *)
(* set that has 0 and, with any n, also n + 1 has every natural            *)
(* (Induction).  It follows from the least element of a set, which the     *)
(* library's facts about well-founded relations give; and from it follows  *)
(* that the functions defined by recursion exist (Recursion).              *)
(***************************************************************************)
EXTENDS Selection, WellFoundedInduction, TLAPS

-----------------------------------------------------------------------------
(* Naturals                                                                *)

Less == {p \in Nat \X Nat : p[1] < p[2]}

LEMMA LessWellFounded == IsWellFoundedOn(Less, Nat)
BY NatLessThanWellFounded DEF OpToRel, Less

\* A set of naturals has a least element.
LEMMA Least ==
    ASSUME NEW S, S \subseteq Nat, S # {}
    PROVE  \E n \in S : \A m \in S : n <= m
<1>1. PICK n \in S : \A m \in S : <<m, n>> \notin Less
  BY LessWellFounded, WFMin
<1>2. ASSUME NEW m \in S PROVE n <= m
  <2>1. m \in Nat /\ n \in Nat /\ <<m, n>> \notin Less
    BY <1>1
  <2>. QED  BY ONLY <2>1 DEF Less
<1>. QED  BY <1>2

\* A bounded set of naturals has a largest element.
LEMMA Largest ==
    ASSUME NEW b \in Nat, NEW S, S \subseteq 0 .. b, S # {}
    PROVE  \E n \in S : \A m \in S : m <= n
<1>. DEFINE T == {b - n : n \in S}
<1>1. T \subseteq Nat /\ T # {}
  <2>1. \A n \in 0 .. b : b - n \in Nat
    OBVIOUS
  <2>. QED  BY <2>1
<1>2. PICK t \in T : \A u \in T : t <= u
  BY <1>1, Least
<1>3. PICK n \in S : t = b - n
  OBVIOUS
<1>4. ASSUME NEW m \in S PROVE m <= n
  <2>1. b - n <= b - m /\ m \in 0 .. b /\ n \in 0 .. b
    BY <1>2, <1>3
  <2>. QED  BY ONLY <2>1, b \in Nat
<1>. QED  BY <1>4

\* Induction, over the members of a set.
LEMMA Induction ==
    ASSUME NEW S, 0 \in S, \A n \in Nat : n \in S => n + 1 \in S
    PROVE  Nat \subseteq S
<1>. SUFFICES ASSUME Nat \ S # {} PROVE FALSE
  OBVIOUS
<1>1. PICK n \in Nat \ S : \A m \in Nat \ S : n <= m
  BY Least
<1>2. n \in Nat /\ n # 0
  OBVIOUS
<1>3. n - 1 \in Nat /\ ~ (n <= n - 1) /\ (n - 1) + 1 = n
  BY ONLY <1>2
<1>4. n - 1 \in S
  BY <1>1, <1>3
<1>. QED  BY <1>3, <1>4

\* f starts with a, and g makes each next value of the one before.
Follows(f, X, N, a, g) ==
    /\ f \in [0 .. N -> X] /\ f[0] = a
    /\ \A n \in 1 .. N : f[n] = g[<<n, f[n - 1]>>]

\* A function may be defined by its first value and the step to the next one.
LEMMA Recursion ==
    ASSUME NEW X, NEW a \in X, NEW N \in Nat, NEW g \in [(1 .. N) \X X -> X]
    PROVE  \E f : Follows(f, X, N, a, g)
<1>. DEFINE Approx(k, f) ==
                /\ f \in [0 .. k -> X] /\ f[0] = a
                /\ \A n \in 1 .. k : f[n] = g[<<n, f[n - 1]>>]
            S == {k \in Nat : k <= N => \E f : Approx(k, f)}
<1>1. 0 \in S
  <2>1. Approx(0, [n \in 0 .. 0 |-> a])
    OBVIOUS
  <2>. QED  BY <2>1
<1>2. ASSUME NEW k \in Nat, k \in S PROVE k + 1 \in S
  <2>. SUFFICES ASSUME k + 1 <= N PROVE \E f : Approx(k + 1, f)
    OBVIOUS
  <2>1. PICK f : Approx(k, f)
    BY <1>2
  <2>. DEFINE h == [n \in 0 .. k + 1 |-> IF n <= k THEN f[n] ELSE g[<<k + 1, f[k]>>]]
  <2>2. g[<<k + 1, f[k]>>] \in X /\ f[k] \in X
    BY <2>1
  <2>3. h \in [0 .. k + 1 -> X] /\ h[0] = a
    BY <2>1, <2>2
  <2>4. ASSUME NEW n \in 1 .. k + 1 PROVE h[n] = g[<<n, h[n - 1]>>]
    <3>1. CASE n \in 1 .. k
      <4>1. h[n] = f[n] /\ h[n - 1] = f[n - 1]
        BY <3>1
      <4>. QED  BY <2>1, <3>1, <4>1
    <3>2. CASE n = k + 1
      <4>1. h[n] = g[<<k + 1, f[k]>>] /\ h[n - 1] = f[k]
        BY <3>2
      <4>. QED  BY <3>2, <4>1
    <3>3. n \in 1 .. k \/ n = k + 1
      BY ONLY n \in 1 .. k + 1, k \in Nat
    <3>. QED  BY <3>1, <3>2, <3>3
  <2>. QED  BY <2>3, <2>4
<1>3. N \in S
  BY <1>1, <1>2, Induction
<1>. QED  BY <1>3 DEF Follows

\* Where f and h agree they still agree one further.
StepAlike(f, h, N) == f[0] = h[0] /\ \A n \in 1 .. N : f[n - 1] = h[n - 1] => f[n] = h[n]

\* Two functions that start alike and step alike are alike.
LEMMA SameSteps ==
    ASSUME NEW N \in Nat, NEW f, NEW h, StepAlike(f, h, N)
    PROVE  f[N] = h[N]
<1>. USE DEF StepAlike
<1>. DEFINE S == {k \in Nat : k <= N => f[k] = h[k]}
<1>1. 0 \in S
  OBVIOUS
<1>2. ASSUME NEW k \in Nat, k \in S PROVE k + 1 \in S
  <2>. SUFFICES ASSUME k + 1 <= N PROVE f[k + 1] = h[k + 1]
    OBVIOUS
  <2>1. k + 1 \in 1 .. N /\ (k + 1) - 1 = k /\ f[k] = h[k]
    BY <1>2
  <2>. QED  BY <2>1
<1>3. Nat \subseteq S
  BY <1>1, <1>2, Induction
<1>. QED  BY <1>3

LEMMA MinIs ==
    ASSUME NEW S, S \subseteq Nat, S # {}
    PROVE  Min(S) \in S /\ \A y \in S : Min(S) <= y
<1>1. \E x \in S : \A y \in S : x <= y
  BY Least
<1>. QED  BY ONLY <1>1 DEF Min

LEMMA MaxIs ==
    ASSUME NEW b \in Nat, NEW S, S \subseteq 0 .. b, S # {}
    PROVE  Max(S) \in S /\ \A y \in S : y <= Max(S)
<1>1. \E x \in S : \A y \in S : y <= x
  BY Largest
<1>2. \E x \in S : \A y \in S : x >= y
  <2>1. PICK x \in S : \A y \in S : y <= x
    BY <1>1
  <2>2. \A y \in S : x >= y
    BY <2>1
  <2>. QED  BY <2>2
<1>3. Max(S) \in S /\ \A y \in S : Max(S) >= y
  BY ONLY <1>2 DEF Max
<1>. QED  BY <1>3

\* Of the positions in I, the first of those whose key is the least.
LEMMA LeastKey ==
    ASSUME NEW I, I \subseteq Nat, I # {}, NEW k, \A i \in I : k[i] \in Nat
    PROVE  \E i \in I : \A j \in I : k[i] < k[j] \/ (k[i] = k[j] /\ i <= j)
<1>. DEFINE K == {k[i] : i \in I}
<1>1. PICK x \in K : \A y \in K : x <= y
  <2>1. K \subseteq Nat /\ K # {}
    OBVIOUS
  <2>. HIDE DEF K
  <2>. QED  BY <2>1, Least
<1>. DEFINE J == {i \in I : k[i] = x}
<1>2. PICK i \in J : \A j \in J : i <= j
  <2>1. J \subseteq Nat /\ J # {}
    BY <1>1
  <2>. HIDE DEF J
  <2>. QED  BY <2>1, Least
<1>3. ASSUME NEW j \in I PROVE k[i] < k[j] \/ (k[i] = k[j] /\ i <= j)
  <2>1. k[i] = x /\ k[j] \in K /\ k[j] \in Nat /\ k[i] \in Nat
    OBVIOUS
  <2>2. k[i] <= k[j]
    BY <1>1, <2>1
  <2>3. k[j] = k[i] => i <= j
    BY <1>2, <2>1
  <2>. QED  BY ONLY <2>1, <2>2, <2>3
<1>. QED  BY <1>2, <1>3

\* The last of those whose key is the largest.
LEMMA LargestKey ==
    ASSUME NEW b \in Nat, NEW c \in Nat, NEW I, I \subseteq 0 .. b, I # {},
           NEW k, \A i \in I : k[i] \in 0 .. c
    PROVE  \E i \in I : \A j \in I : k[j] < k[i] \/ (k[j] = k[i] /\ j <= i)
<1>. DEFINE K == {k[i] : i \in I}
<1>1. PICK x \in K : \A y \in K : y <= x
  <2>1. K \subseteq 0 .. c /\ K # {}
    OBVIOUS
  <2>. HIDE DEF K
  <2>. QED  BY <2>1, Largest
<1>. DEFINE J == {i \in I : k[i] = x}
<1>2. PICK i \in J : \A j \in J : j <= i
  <2>1. J \subseteq 0 .. b /\ J # {}
    BY <1>1
  <2>. HIDE DEF J
  <2>. QED  BY <2>1, Largest
<1>3. ASSUME NEW j \in I PROVE k[j] < k[i] \/ (k[j] = k[i] /\ j <= i)
  <2>1. k[i] = x /\ k[j] \in K /\ k[j] \in Nat /\ k[i] \in Nat
    OBVIOUS
  <2>2. k[j] <= k[i]
    BY <1>1, <2>1
  <2>3. k[j] = k[i] => j <= i
    BY <1>2, <2>1
  <2>. QED  BY ONLY <2>1, <2>2, <2>3
<1>. QED  BY <1>2, <1>3

-----------------------------------------------------------------------------
(* Filters                                                                 *)

\* p says which positions of s, in S, the elements of c come from: in their order, and
\* all of them.
PickedAt(s, S, c, p) ==
    /\ p \in [1 .. Len(c) -> S]
    /\ \A i \in 1 .. Len(c) : c[i] = s[p[i]]
    /\ \A i, j \in 1 .. Len(c) : i < j => p[i] < p[j]
    /\ \A t \in S : \E i \in 1 .. Len(c) : p[i] = t

\* Chosen is what its recursion says.
LEMMA ChosenSteps ==
    ASSUME NEW X, NEW s \in Seq(X), NEW S
    PROVE  \E f \in [0 .. Len(s) -> Seq(X)] :
              /\ f[0] = <<>> /\ Chosen(s, S) = f[Len(s)]
              /\ \A n \in 1 .. Len(s) :
                    f[n] = IF n \in S THEN Append(f[n - 1], s[n]) ELSE f[n - 1]
<1>. DEFINE g == [q \in (1 .. Len(s)) \X Seq(X) |->
                    IF q[1] \in S THEN Append(q[2], s[q[1]]) ELSE q[2]]
            Defined(f) == f = [n \in 0 .. Len(s) |->
                                 IF n = 0 THEN <<>>
                                 ELSE IF n \in S THEN Append(f[n - 1], s[n])
                                 ELSE f[n - 1]]
            picked == CHOOSE f : Defined(f)
<1>1. Len(s) \in Nat /\ <<>> \in Seq(X) /\ g \in [(1 .. Len(s)) \X Seq(X) -> Seq(X)]
  OBVIOUS
<1>2. PICK f : Follows(f, Seq(X), Len(s), <<>>, g)
  <2>. HIDE DEF g
  <2>. QED  BY <1>1, Recursion
<1>3. ASSUME NEW n \in 1 .. Len(s)
      PROVE  f[n] = IF n \in S THEN Append(f[n - 1], s[n]) ELSE f[n - 1]
  <2>1. f[n - 1] \in Seq(X) /\ f[n] = g[<<n, f[n - 1]>>]
    <3>. HIDE DEF g
    <3>1. n - 1 \in 0 .. Len(s)
      BY <1>1
    <3>. QED  BY <1>2, <3>1 DEF Follows
  <2>. QED  BY <2>1
<1>. HIDE DEF g
<1>4. f \in [0 .. Len(s) -> Seq(X)] /\ f[0] = <<>>
  BY <1>2 DEF Follows
<1>5. Defined(f)
  <2>1. ASSUME NEW n \in 0 .. Len(s)
        PROVE  f[n] = IF n = 0 THEN <<>>
                      ELSE IF n \in S THEN Append(f[n - 1], s[n])
                      ELSE f[n - 1]
    <3>1. n = 0 \/ (n # 0 /\ n \in 1 .. Len(s))
      BY <1>1
    <3>. QED  BY <1>3, <1>4, <3>1
  <2>. QED  BY <1>4, <2>1
<1>6. Defined(picked)
  BY <1>5
<1>7. picked[Len(s)] = f[Len(s)]
  <2>. HIDE DEF picked
  <2>1. /\ picked[0] = <<>>
        /\ \A n \in 1 .. Len(s) :
              picked[n] = IF n \in S THEN Append(picked[n - 1], s[n]) ELSE picked[n - 1]
    <3>1. 0 \in 0 .. Len(s) /\ \A n \in 1 .. Len(s) : n \in 0 .. Len(s) /\ n # 0
      BY <1>1
    <3>. QED  BY <1>6, <3>1
  <2>2. \A n \in 1 .. Len(s) : picked[n - 1] = f[n - 1] => picked[n] = f[n]
    BY <1>3, <2>1
  <2>3. StepAlike(picked, f, Len(s))
    BY <1>4, <2>1, <2>2 DEF StepAlike
  <2>. QED  BY <1>1, <2>3, SameSteps
<1>8. Chosen(s, S) = picked[Len(s)]
  BY DEF Chosen
<1>. QED  BY <1>3, <1>4, <1>7, <1>8

\* One more position, beyond all the others.
LEMMA PickedMore ==
    ASSUME NEW X, NEW s, NEW c \in Seq(X), NEW n \in Nat, NEW T \in SUBSET (1 .. n),
           NEW p, PickedAt(s, T, c, p), s[n + 1] \in X
    PROVE  \E q : PickedAt(s, T \cup {n + 1}, Append(c, s[n + 1]), q)
<1>. DEFINE d == Append(c, s[n + 1])
            q == [i \in 1 .. Len(d) |-> IF i = Len(d) THEN n + 1 ELSE p[i]]
<1>1. /\ Len(c) \in Nat /\ Len(d) = Len(c) + 1 /\ d[Len(d)] = s[n + 1]
      /\ \A i \in 1 .. Len(c) : d[i] = c[i]
  OBVIOUS
<1>2. /\ p \in [1 .. Len(c) -> T]
      /\ \A i \in 1 .. Len(c) : c[i] = s[p[i]]
      /\ \A i, j \in 1 .. Len(c) : i < j => p[i] < p[j]
      /\ \A t \in T : \E i \in 1 .. Len(c) : p[i] = t
  BY DEF PickedAt
<1>. HIDE DEF d
<1>3. \A i \in 1 .. Len(d) : i = Len(d) \/ (i # Len(d) /\ i \in 1 .. Len(c))
  BY <1>1
<1>4. \A i \in 1 .. Len(c) : i \in 1 .. Len(d) /\ i # Len(d) /\ i < Len(d)
  BY <1>1
<1>5. q[Len(d)] = n + 1 /\ \A i \in 1 .. Len(c) : q[i] = p[i] /\ p[i] \in T
  <2>1. Len(d) \in 1 .. Len(d)
    BY <1>1
  <2>2. q[Len(d)] = n + 1
    BY <2>1
  <2>3. \A i \in 1 .. Len(c) : q[i] = p[i]
    BY <1>4
  <2>4. \A i \in 1 .. Len(c) : p[i] \in T
    BY <1>2
  <2>. QED  BY <2>2, <2>3, <2>4
<1>6. q \in [1 .. Len(d) -> T \cup {n + 1}]
  BY <1>2, <1>3
<1>7. \A i \in 1 .. Len(d) : d[i] = s[q[i]]
  BY <1>1, <1>2, <1>3, <1>5
<1>8. ASSUME NEW i \in 1 .. Len(d), NEW j \in 1 .. Len(d), i < j PROVE q[i] < q[j]
  <2>1. i \in 1 .. Len(c)
    BY <1>1, <1>8
  <2>2. CASE j = Len(d)
    <3>1. p[i] \in 1 .. n
      BY <1>5, <2>1
    <3>2. p[i] < n + 1
      BY ONLY <3>1, n \in Nat
    <3>. QED  BY <1>5, <2>1, <2>2, <3>2
  <2>3. CASE j \in 1 .. Len(c)
    BY <1>2, <1>5, <1>8, <2>1, <2>3
  <2>. QED  BY <1>3, <2>2, <2>3
<1>9. ASSUME NEW t \in T \cup {n + 1} PROVE \E i \in 1 .. Len(d) : q[i] = t
  <2>1. CASE t = n + 1
    BY <1>1, <1>5, <2>1
  <2>2. CASE t \in T
    BY <1>2, <1>4, <1>5, <2>2
  <2>. QED  BY <2>1, <2>2
<1>10. PickedAt(s, T \cup {n + 1}, d, q)
  <2>. HIDE DEF q
  <2>. QED  BY <1>6, <1>7, <1>8, <1>9 DEF PickedAt
<1>. QED  BY <1>10 DEF d

\* Chosen has the elements of s at the positions in S, in their order.
LEMMA ChosenIs ==
    ASSUME NEW X, NEW s \in Seq(X), NEW S
    PROVE  /\ Chosen(s, S) \in Seq(X)
           /\ \E p : PickedAt(s, S \cap (1 .. Len(s)), Chosen(s, S), p)
<1>1. PICK f \in [0 .. Len(s) -> Seq(X)] :
          /\ f[0] = <<>> /\ Chosen(s, S) = f[Len(s)]
          /\ \A n \in 1 .. Len(s) :
                f[n] = IF n \in S THEN Append(f[n - 1], s[n]) ELSE f[n - 1]
  BY ChosenSteps
<1>. DEFINE Reached(n) == \E p : PickedAt(s, S \cap (1 .. n), f[n], p)
            R == {n \in Nat : n <= Len(s) => Reached(n)}
<1>2. Len(s) \in Nat
  OBVIOUS
<1>3. 0 \in R
  <2>1. PickedAt(s, S \cap (1 .. 0), <<>>, <<>>)
    BY DEF PickedAt
  <2>. QED  BY <1>1, <2>1
<1>4. ASSUME NEW n \in Nat, n \in R PROVE n + 1 \in R
  <2>. SUFFICES ASSUME n + 1 <= Len(s) PROVE Reached(n + 1)
    <3>. HIDE DEF Reached
    <3>. QED  OBVIOUS
  <2>1. /\ n + 1 \in 1 .. Len(s) /\ n \in 0 .. Len(s) /\ (n + 1) - 1 = n /\ n <= Len(s)
    BY <1>2
  <2>2. f[n] \in Seq(X) /\ s[n + 1] \in X
    BY <1>1, <2>1
  <2>3. PICK p : PickedAt(s, S \cap (1 .. n), f[n], p)
    BY <1>4, <2>1
  <2>4. f[n + 1] = IF n + 1 \in S THEN Append(f[n], s[n + 1]) ELSE f[n]
    BY <1>1, <2>1
  <2>5. CASE n + 1 \in S
    <3>1. S \cap (1 .. n + 1) = (S \cap (1 .. n)) \cup {n + 1}
      <4>1. 1 .. n + 1 = (1 .. n) \cup {n + 1}
        OBVIOUS
      <4>. QED  BY ONLY <2>5, <4>1
    <3>2. S \cap (1 .. n) \in SUBSET (1 .. n)
      OBVIOUS
    <3>3. \E q : PickedAt(s, (S \cap (1 .. n)) \cup {n + 1}, Append(f[n], s[n + 1]), q)
      BY ONLY <2>2, <2>3, <3>2, n \in Nat, PickedMore
    <3>. QED  BY <2>4, <2>5, <3>1, <3>3
  <2>6. CASE n + 1 \notin S
    <3>1. S \cap (1 .. n + 1) = S \cap (1 .. n)
      <4>1. 1 .. n + 1 = (1 .. n) \cup {n + 1}
        OBVIOUS
      <4>. QED  BY ONLY <2>6, <4>1
    <3>. QED  BY <2>3, <2>4, <2>6, <3>1
  <2>. QED  BY <2>5, <2>6
<1>5. Len(s) \in R
  <2>. HIDE DEF R
  <2>. QED  BY <1>2, <1>3, <1>4, Induction
<1>6. PICK p : PickedAt(s, S \cap (1 .. Len(s)), f[Len(s)], p)
  BY <1>2, <1>5
<1>7. f[Len(s)] \in Seq(X)
  <2>1. Len(s) \in 0 .. Len(s)
    BY <1>2
  <2>. QED  BY <1>1, <2>1
<1>. QED  BY <1>1, <1>6, <1>7

\* The same, as far as it says which elements there are.
LEMMA ChosenElements ==
    ASSUME NEW X, NEW s \in Seq(X), NEW S
    PROVE  /\ Chosen(s, S) \in Seq(X)
           /\ \A i \in 1 .. Len(Chosen(s, S)) :
                 \E k \in 1 .. Len(s) : k \in S /\ Chosen(s, S)[i] = s[k]
           /\ \A k \in 1 .. Len(s) :
                 k \in S => \E i \in 1 .. Len(Chosen(s, S)) : Chosen(s, S)[i] = s[k]
<1>. DEFINE c == Chosen(s, S)
<1>1. PICK p : PickedAt(s, S \cap (1 .. Len(s)), c, p)
  BY ChosenIs
<1>2. c \in Seq(X)
  BY ChosenIs
<1>. HIDE DEF c
<1>3. ASSUME NEW i \in 1 .. Len(c) PROVE \E k \in 1 .. Len(s) : k \in S /\ c[i] = s[k]
  <2>1. p[i] \in S \cap (1 .. Len(s)) /\ c[i] = s[p[i]]
    BY <1>1 DEF PickedAt
  <2>. QED  BY <2>1
<1>4. ASSUME NEW k \in 1 .. Len(s), k \in S PROVE \E i \in 1 .. Len(c) : c[i] = s[k]
  <2>1. PICK i \in 1 .. Len(c) : p[i] = k
    BY <1>1, <1>4 DEF PickedAt
  <2>. QED  BY <1>1, <2>1 DEF PickedAt
<1>. QED  BY <1>2, <1>3, <1>4 DEF c

LEMMA ChosenSet ==
    ASSUME NEW X, NEW s \in Seq(X), NEW S
    PROVE  \A x : x \in ToSet(Chosen(s, S)) <=> \E k \in 1 .. Len(s) : k \in S /\ x = s[k]
<1>. DEFINE c == Chosen(s, S)
<1>1. /\ c \in Seq(X)
      /\ \A i \in 1 .. Len(c) : \E k \in 1 .. Len(s) : k \in S /\ c[i] = s[k]
      /\ \A k \in 1 .. Len(s) : k \in S => \E i \in 1 .. Len(c) : c[i] = s[k]
  BY ChosenElements
<1>. HIDE DEF c
<1>2. DOMAIN c = 1 .. Len(c)
  BY <1>1
<1>3. ASSUME NEW x PROVE x \in ToSet(c) <=> \E i \in 1 .. Len(c) : x = c[i]
  BY <1>2 DEF ToSet
<1>4. ASSUME NEW x PROVE x \in ToSet(c) <=> \E k \in 1 .. Len(s) : k \in S /\ x = s[k]
  <2>1. ASSUME NEW i \in 1 .. Len(c), x = c[i] PROVE \E k \in 1 .. Len(s) : k \in S /\ x = s[k]
    BY <1>1, <2>1
  <2>2. ASSUME NEW k \in 1 .. Len(s), k \in S, x = s[k] PROVE \E i \in 1 .. Len(c) : x = c[i]
    BY <1>1, <2>2
  <2>. QED  BY <1>3, <2>1, <2>2
<1>. QED  BY <1>4 DEF c

LEMMA ConcatSet ==
    ASSUME NEW X, NEW s \in Seq(X), NEW u \in Seq(X)
    PROVE  \A x : x \in ToSet(s \o u) <=> x \in ToSet(s) \/ x \in ToSet(u)
<1>. DEFINE w == s \o u
<1>1. /\ Len(s) \in Nat /\ Len(u) \in Nat /\ DOMAIN w = 1 .. Len(s) + Len(u)
      /\ DOMAIN s = 1 .. Len(s) /\ DOMAIN u = 1 .. Len(u)
      /\ \A i \in 1 .. Len(s) : w[i] = s[i]
      /\ \A i \in 1 .. Len(u) : w[Len(s) + i] = u[i]
  OBVIOUS
<1>. HIDE DEF w
<1>2. ASSUME NEW i \in DOMAIN w PROVE w[i] \in ToSet(s) \/ w[i] \in ToSet(u)
  <2>1. CASE i \in 1 .. Len(s)
    BY <1>1, <2>1 DEF ToSet
  <2>2. CASE i \notin 1 .. Len(s)
    <3>1. i - Len(s) \in 1 .. Len(u) /\ Len(s) + (i - Len(s)) = i
      BY <1>1, <2>2
    <3>2. w[i] = u[i - Len(s)]
      BY <1>1, <3>1
    <3>. QED  BY <1>1, <3>1, <3>2 DEF ToSet
  <2>. QED  BY <2>1, <2>2
<1>3. ASSUME NEW i \in DOMAIN s PROVE s[i] \in ToSet(w)
  <2>1. i \in DOMAIN w /\ s[i] = w[i]
    BY <1>1
  <2>. QED  BY <2>1 DEF ToSet
<1>4. ASSUME NEW i \in DOMAIN u PROVE u[i] \in ToSet(w)
  <2>1. Len(s) + i \in DOMAIN w /\ u[i] = w[Len(s) + i]
    BY <1>1
  <2>. QED  BY <2>1 DEF ToSet
<1>5. \A x : x \in ToSet(w) <=> x \in ToSet(s) \/ x \in ToSet(u)
  BY <1>2, <1>3, <1>4 DEF ToSet
<1>. QED  BY <1>5 DEF w

-----------------------------------------------------------------------------
(* What is chosen, by a list of the positions                              *)

\* p lists the numbers in T, in their order.
Lists(p, n, T) ==
    /\ p \in [1 .. n -> T]
    /\ \A i, j \in 1 .. n : i < j => p[i] < p[j]
    /\ \A t \in T : \E i \in 1 .. n : p[i] = t

\* The first n of p and of q are the same.
Agree(p, q, n) == \A i \in 1 .. n : p[i] = q[i]

\* There is only one such list.
LEMMA ListedOnce ==
    ASSUME NEW T, T \subseteq Nat, NEW n \in Nat, NEW m \in Nat, NEW p, NEW q,
           Lists(p, n, T), Lists(q, m, T)
    PROVE  n <= m /\ Agree(p, q, n)
<1>. DEFINE Alike(i) == i <= n => i <= m /\ p[i] = q[i]
            R == {k \in Nat : \A i \in 1 .. k : Alike(i)}
<1>0. /\ \A i \in 1 .. n : p[i] \in T /\ p[i] \in Nat
      /\ \A i \in 1 .. m : q[i] \in T /\ q[i] \in Nat
      /\ \A i, j \in 1 .. n : i < j => p[i] < p[j]
      /\ \A i, j \in 1 .. m : i < j => q[i] < q[j]
      /\ \A t \in T : \E i \in 1 .. n : p[i] = t
      /\ \A t \in T : \E i \in 1 .. m : q[i] = t
  BY DEF Lists
<1>1. 0 \in R
  OBVIOUS
<1>2. ASSUME NEW k \in Nat, k \in R PROVE k + 1 \in R
  <2>1. \A i \in 1 .. k + 1 : i \in 1 .. k \/ i = k + 1
    OBVIOUS
  <2>2. ASSUME k + 1 <= n PROVE k + 1 <= m /\ p[k + 1] = q[k + 1]
    <3>1. k + 1 \in 1 .. n /\ \A i \in 1 .. k : i \in 1 .. n /\ i < k + 1 /\ i \in 1 .. m /\ p[i] = q[i]
      BY <1>2, <2>2
    <3>2. PICK j \in 1 .. m : q[j] = p[k + 1]
      BY <1>0, <3>1
    <3>3. j \notin 1 .. k
      BY <1>0, <3>1, <3>2
    <3>4. k + 1 <= j /\ k + 1 \in 1 .. m
      BY <3>3
    <3>5. PICK i \in 1 .. n : p[i] = q[k + 1]
      BY <1>0, <3>4
    <3>6. i \notin 1 .. k
      BY <1>0, <3>1, <3>4, <3>5
    <3>7. i = k + 1 \/ k + 1 < i
      BY <3>6
    <3>8. j = k + 1 \/ k + 1 < j
      BY <3>4
    <3>9. p[k + 1] <= q[k + 1]
      BY <1>0, <3>1, <3>4, <3>5, <3>7
    <3>10. q[k + 1] <= p[k + 1]
      BY <1>0, <3>1, <3>2, <3>4, <3>8
    <3>. QED  BY <1>0, <3>1, <3>4, <3>9, <3>10
  <2>. QED  BY <1>2, <2>1, <2>2
<1>3. n \in R
  <2>. HIDE DEF R
  <2>. QED  BY <1>1, <1>2, Induction
<1>. QED  BY <1>3 DEF Agree

\* c has the elements of s at the positions that q lists.
ListedBy(c, s, q, n) == Len(c) = n /\ \A i \in 1 .. n : c[i] = s[q[i]]

\* What is chosen, by the list of its positions.
LEMMA ChosenListed ==
    ASSUME NEW X, NEW s \in Seq(X), NEW S, NEW n \in Nat, NEW q, Lists(q, n, S \cap (1 .. Len(s)))
    PROVE  Chosen(s, S) \in Seq(X) /\ ListedBy(Chosen(s, S), s, q, n)
<1>. DEFINE T == S \cap (1 .. Len(s))
            c == Chosen(s, S)
<1>1. c \in Seq(X) /\ \E p : PickedAt(s, T, c, p)
  BY ChosenIs
<1>. HIDE DEF c
<1>2. PICK p : PickedAt(s, T, c, p)
  BY <1>1
<1>3. T \subseteq Nat /\ Len(c) \in Nat
  BY <1>1
<1>. HIDE DEF T
<1>4. Lists(p, Len(c), T) /\ Lists(q, n, T)
  BY <1>2 DEF PickedAt, Lists, T
<1>5. Len(c) <= n /\ n <= Len(c) /\ \A i \in 1 .. Len(c) : p[i] = q[i]
  <2>1. Len(c) <= n /\ Agree(p, q, Len(c))
    BY ONLY <1>3, <1>4, n \in Nat, ListedOnce
  <2>2. n <= Len(c)
    BY ONLY <1>3, <1>4, n \in Nat, ListedOnce
  <2>. QED  BY <2>1, <2>2 DEF Agree
<1>6. Len(c) = n
  BY <1>3, <1>5
<1>7. \A i \in 1 .. n : c[i] = s[q[i]]
  BY <1>2, <1>5, <1>6 DEF PickedAt
<1>. QED  BY <1>1, <1>6, <1>7 DEF c, ListedBy

-----------------------------------------------------------------------------
(* Interners                                                               *)

\* IndexOf finds x where it first is.
LEMMA IndexOfIs ==
    ASSUME NEW s, Len(s) \in Nat, NEW x, NEW k \in 1 .. Len(s), s[k] = x
    PROVE  /\ IndexOf(s, x) \in 1 .. Len(s) /\ s[IndexOf(s, x)] = x
           /\ \A j \in 1 .. IndexOf(s, x) - 1 : s[j] # x
<1>. DEFINE I == {i \in 1 .. Len(s) : s[i] = x}
<1>1. I \subseteq Nat /\ I # {} /\ I \subseteq 1 .. Len(s)
  OBVIOUS
<1>2. IndexOf(s, x) = Min(I)
  BY <1>1 DEF IndexOf, SelectInSeq
<1>3. Min(I) \in I /\ \A y \in I : Min(I) <= y
  BY <1>1, MinIs
<1>4. ASSUME NEW j \in 1 .. Min(I) - 1, s[j] = x PROVE FALSE
  <2>1. Min(I) \in 1 .. Len(s)
    BY <1>3
  <2>2. j \in 1 .. Len(s) /\ ~ (Min(I) <= j)
    BY ONLY <2>1, j \in 1 .. Min(I) - 1, Len(s) \in Nat
  <2>. QED  BY <1>3, <1>4, <2>2
<1>. QED  BY <1>2, <1>3, <1>4

\* An interner's table has each of the elements, once.
LEMMA InternedIs ==
    ASSUME NEW X, NEW s \in Seq(X)
    PROVE  /\ Interned(s) \in Seq(X)
           /\ \A i \in 1 .. Len(Interned(s)) : \E k \in 1 .. Len(s) : Interned(s)[i] = s[k]
           /\ \A k \in 1 .. Len(s) : \E i \in 1 .. Len(Interned(s)) : Interned(s)[i] = s[k]
           /\ \A i, j \in 1 .. Len(Interned(s)) : i < j => Interned(s)[i] # Interned(s)[j]
<1>. DEFINE S == {i \in 1 .. Len(s) : \A j \in 1 .. i - 1 : s[j] # s[i]}
            c == Chosen(s, S)
<1>1. Interned(s) = c
  BY DEF Interned
<1>2. PICK p : PickedAt(s, S \cap (1 .. Len(s)), c, p)
  BY ChosenIs
<1>3. /\ c \in Seq(X)
      /\ \A i \in 1 .. Len(c) : \E k \in 1 .. Len(s) : k \in S /\ c[i] = s[k]
      /\ \A k \in 1 .. Len(s) : k \in S => \E i \in 1 .. Len(c) : c[i] = s[k]
  <2>. HIDE DEF S
  <2>. QED  BY ChosenElements
<1>. HIDE DEF c
<1>4. ASSUME NEW k \in 1 .. Len(s) PROVE \E i \in 1 .. Len(c) : c[i] = s[k]
  <2>. DEFINE f == IndexOf(s, s[k])
  <2>1. f \in 1 .. Len(s) /\ s[f] = s[k] /\ \A j \in 1 .. f - 1 : s[j] # s[k]
    BY IndexOfIs
  <2>. HIDE DEF f
  <2>2. f \in S
    BY <2>1
  <2>. QED  BY <1>3, <2>1, <2>2
<1>5. ASSUME NEW i \in 1 .. Len(c), NEW j \in 1 .. Len(c), i < j PROVE c[i] # c[j]
  <2>1. /\ p[i] \in S \cap (1 .. Len(s)) /\ p[j] \in S \cap (1 .. Len(s)) /\ p[i] < p[j]
        /\ c[i] = s[p[i]] /\ c[j] = s[p[j]]
    BY <1>2, <1>5 DEF PickedAt
  <2>2. p[i] \in 1 .. p[j] - 1
    BY <2>1
  <2>. QED  BY <2>1, <2>2
<1>. QED  BY <1>1, <1>3, <1>4, <1>5

\* An element that s has is in the interner's table.
LEMMA InTableOnce ==
    ASSUME NEW X, NEW s \in Seq(X), NEW k \in 1 .. Len(s)
    PROVE  /\ IndexOf(Interned(s), s[k]) \in 1 .. Len(Interned(s))
           /\ Interned(s)[IndexOf(Interned(s), s[k])] = s[k]
<1>1. PICK i \in 1 .. Len(Interned(s)) : Interned(s)[i] = s[k]
  BY InternedIs
<1>2. Interned(s) \in Seq(X)
  BY InternedIs
<1>3. Len(Interned(s)) \in Nat
  BY <1>2
<1>. QED  BY <1>1, <1>3, IndexOfIs

-----------------------------------------------------------------------------
(* Parts of a sequence                                                     *)

\* A part of a sequence, by its positions.
LEMMA PartIs ==
    ASSUME NEW X, NEW s \in Seq(X), NEW a \in Nat, NEW b \in Nat, 1 <= a, a <= b + 1, b <= Len(s)
    PROVE  /\ SubSeq(s, a, b) \in Seq(X) /\ Len(SubSeq(s, a, b)) = b - a + 1
           /\ \A i \in 1 .. b - a + 1 : SubSeq(s, a, b)[i] = s[a + i - 1]
<1>1. /\ Len(s) \in Nat /\ \A i \in 1 .. Len(s) : s[i] \in X
      /\ \A i \in 1 .. b - a + 1 : a + i - 1 \in 1 .. Len(s)
  OBVIOUS
<1>2. Len(SubSeq(s, a, b)) = b - a + 1
  OBVIOUS
<1>3. \A i \in 1 .. b - a + 1 : SubSeq(s, a, b)[i] = s[a + i - 1]
  OBVIOUS
<1>. QED  BY <1>1, <1>2, <1>3

\* Of the positions of s, S has those after a, up to b.
IsBlock(S, s, a, b) ==
    a <= b /\ b <= Len(s) /\ \A k \in 1 .. Len(s) : k \in S <=> a < k /\ k <= b

\* c is the part of s after a, up to b.
IsPart(c, s, a, b) == Len(c) = b - a /\ \A i \in 1 .. b - a : c[i] = s[a + i]

\* What is chosen of a sequence when the positions have no gap is a part of it.
LEMMA BlockChosen ==
    ASSUME NEW X, NEW s \in Seq(X), NEW S, NEW a \in Nat, NEW b \in Nat, IsBlock(S, s, a, b)
    PROVE  Chosen(s, S) \in Seq(X) /\ IsPart(Chosen(s, S), s, a, b)
<1>1. PICK f \in [0 .. Len(s) -> Seq(X)] :
          /\ f[0] = <<>> /\ Chosen(s, S) = f[Len(s)]
          /\ \A n \in 1 .. Len(s) :
                f[n] = IF n \in S THEN Append(f[n - 1], s[n]) ELSE f[n - 1]
  BY ChosenSteps
<1>. USE DEF IsBlock
<1>2. Len(s) \in Nat
  OBVIOUS
<1>. DEFINE Before(n) == n <= a => f[n] = <<>>
            Within(n) == a <= n /\ n <= b =>
                            Len(f[n]) = n - a /\ \A i \in 1 .. n - a : f[n][i] = s[a + i]
            Beyond(n) == b <= n => f[n] = f[b]
            R == {n \in Nat : n <= Len(s) => Before(n) /\ Within(n) /\ Beyond(n)}
<1>3. 0 \in R
  <2>1. Len(f[0]) = 0
    BY <1>1
  <2>2. Before(0)
    BY <1>1
  <2>3. Within(0)
    <3>1. a <= 0 => a = 0 /\ 0 = 0 - a /\ 1 .. 0 - a = {}
      OBVIOUS
    <3>. QED  BY <2>1, <3>1
  <2>4. Beyond(0)
    <3>1. b <= 0 => b = 0
      OBVIOUS
    <3>. QED  BY <3>1
  <2>. QED  BY <2>2, <2>3, <2>4
<1>4. ASSUME NEW n \in Nat, n \in R PROVE n + 1 \in R
  <2>. SUFFICES ASSUME n + 1 <= Len(s) PROVE Before(n + 1) /\ Within(n + 1) /\ Beyond(n + 1)
    OBVIOUS
  <2>1. /\ n + 1 \in 1 .. Len(s) /\ n \in 0 .. Len(s) /\ (n + 1) - 1 = n /\ n <= Len(s)
    BY <1>2
  <2>2. /\ f[n] \in Seq(X) /\ s[n + 1] \in X
        /\ f[n + 1] = IF n + 1 \in S THEN Append(f[n], s[n + 1]) ELSE f[n]
    <3>1. f[n] \in Seq(X)
      BY ONLY <2>1, f \in [0 .. Len(s) -> Seq(X)]
    <3>2. s[n + 1] \in X
      BY ONLY <2>1, s \in Seq(X)
    <3>3. f[n + 1] = IF n + 1 \in S THEN Append(f[(n + 1) - 1], s[n + 1]) ELSE f[(n + 1) - 1]
      BY ONLY <1>1, <2>1
    <3>. QED  BY ONLY <2>1, <3>1, <3>2, <3>3
  <2>3. Before(n) /\ Within(n) /\ Beyond(n)
    BY <1>4, <2>1
  <2>4. n + 1 \in S <=> a <= n /\ n < b
    <3>1. n + 1 \in S <=> a < n + 1 /\ n + 1 <= b
      BY <2>1
    <3>. QED  BY <3>1
  <2>5. CASE n < a
    <3>1. f[n + 1] = f[n] /\ f[n] = <<>>
      BY <2>2, <2>3, <2>4, <2>5
    <3>2. Len(f[n + 1]) = 0
      BY <3>1
    <3>. QED  BY <2>5, <3>1, <3>2
  <2>6. CASE a <= n /\ n < b
    <3>1. f[n + 1] = Append(f[n], s[n + 1]) /\ Len(f[n]) = n - a
      BY <2>2, <2>3, <2>4, <2>6
    <3>2. /\ Len(f[n + 1]) = (n + 1) - a /\ f[n + 1][(n + 1) - a] = s[n + 1]
          /\ \A i \in 1 .. n - a : f[n + 1][i] = f[n][i]
      BY <2>2, <2>6, <3>1
    <3>3. ASSUME NEW i \in 1 .. (n + 1) - a PROVE f[n + 1][i] = s[a + i]
      <4>1. CASE i \in 1 .. n - a
        BY <2>3, <2>6, <3>2, <4>1
      <4>2. CASE i = (n + 1) - a
        <5>1. a + i = n + 1
          BY <4>2
        <5>. QED  BY <3>2, <4>2, <5>1
      <4>3. i \in 1 .. n - a \/ i = (n + 1) - a
        OBVIOUS
      <4>. QED  BY <4>1, <4>2, <4>3
    <3>. HIDE DEF Within
    <3>4. Before(n + 1)
      BY <2>6
    <3>5. Within(n + 1)
      BY <3>2, <3>3 DEF Within
    <3>6. Beyond(n + 1)
      <4>1. b <= n + 1 => b = n + 1
        BY <2>6
      <4>. QED  BY <4>1
    <3>. QED  BY <3>4, <3>5, <3>6
  <2>7. CASE b <= n
    <3>1. f[n + 1] = f[n] /\ f[n] = f[b]
      BY <2>2, <2>3, <2>4, <2>7
    <3>. QED  BY <2>7, <3>1
  <2>. QED  BY <2>5, <2>6, <2>7
<1>5. Nat \subseteq R
  <2>. HIDE DEF R
  <2>. QED  BY <1>3, <1>4, Induction
<1>6. b \in R /\ Len(s) \in R
  BY <1>2, <1>5
<1>7. /\ f[Len(s)] = f[b] /\ Len(f[b]) = b - a
      /\ \A i \in 1 .. b - a : f[b][i] = s[a + i]
  BY <1>2, <1>6
<1>8. f[Len(s)] \in Seq(X)
  <2>1. Len(s) \in 0 .. Len(s)
    BY <1>2
  <2>. QED  BY <1>1, <2>1
<1>. QED  BY <1>1, <1>7, <1>8 DEF IsPart

\* All of a sequence.
LEMMA AllChosen ==
    ASSUME NEW X, NEW s \in Seq(X), NEW S, \A k \in 1 .. Len(s) : k \in S
    PROVE  Chosen(s, S) = s
<1>1. Len(s) \in Nat /\ IsBlock(S, s, 0, Len(s))
  BY DEF IsBlock
<1>2. Chosen(s, S) \in Seq(X) /\ IsPart(Chosen(s, S), s, 0, Len(s))
  BY <1>1, BlockChosen
<1>. DEFINE c == Chosen(s, S)
<1>3. c \in Seq(X) /\ Len(c) = Len(s) /\ \A i \in 1 .. Len(s) : c[i] = s[i]
  BY <1>1, <1>2 DEF IsPart
<1>. HIDE DEF c
<1>4. c = s
  BY <1>3
<1>. QED  BY <1>4 DEF c

\* Interning changes nothing where no element comes twice.
LEMMA InternedDistinct ==
    ASSUME NEW X, NEW s \in Seq(X), \A i, j \in 1 .. Len(s) : i < j => s[i] # s[j]
    PROVE  Interned(s) = s
<1>. DEFINE S == {i \in 1 .. Len(s) : \A j \in 1 .. i - 1 : s[j] # s[i]}
<1>1. \A k \in 1 .. Len(s) : k \in S
  OBVIOUS
<1>. HIDE DEF S
<1>2. Chosen(s, S) = s
  BY <1>1, AllChosen
<1>. QED  BY <1>2 DEF Interned, S

\* Where no element comes twice, the position of an element is the one it is at.
LEMMA IndexOfOnly ==
    ASSUME NEW s, Len(s) \in Nat, NEW k \in 1 .. Len(s),
           \A i, j \in 1 .. Len(s) : i < j => s[i] # s[j]
    PROVE  IndexOf(s, s[k]) = k
<1>1. IndexOf(s, s[k]) \in 1 .. Len(s) /\ s[IndexOf(s, s[k])] = s[k]
  BY IndexOfIs
<1>2. ASSUME NEW m \in 1 .. Len(s), s[m] = s[k] PROVE m = k
  BY <1>2
<1>. QED  BY <1>1, <1>2

\* Interning keeps the first element first.
LEMMA FirstInterned ==
    ASSUME NEW X, NEW s \in Seq(X), Len(s) >= 1
    PROVE  Len(Interned(s)) >= 1 /\ Interned(s)[1] = s[1]
<1>. DEFINE S == {i \in 1 .. Len(s) : \A j \in 1 .. i - 1 : s[j] # s[i]}
            c == Chosen(s, S)
<1>1. Interned(s) = c
  BY DEF Interned
<1>2. 1 \in S /\ 1 \in S \cap (1 .. Len(s)) /\ Len(s) \in Nat
  OBVIOUS
<1>3. c \in Seq(X) /\ \E p : PickedAt(s, S \cap (1 .. Len(s)), c, p)
  <2>. HIDE DEF S
  <2>. QED  BY ChosenIs
<1>4. PICK p : PickedAt(s, S \cap (1 .. Len(s)), c, p)
  BY <1>3
<1>5. Len(c) \in Nat
  BY <1>3
<1>. HIDE DEF c, S
<1>6. /\ p \in [1 .. Len(c) -> S \cap (1 .. Len(s))]
      /\ \A i \in 1 .. Len(c) : c[i] = s[p[i]]
      /\ \A i, j \in 1 .. Len(c) : i < j => p[i] < p[j]
      /\ \A t \in S \cap (1 .. Len(s)) : \E i \in 1 .. Len(c) : p[i] = t
  BY ONLY <1>4 DEF PickedAt
<1>7. PICK i \in 1 .. Len(c) : p[i] = 1
  BY <1>2, <1>6
<1>8. p[1] \in 1 .. Len(s) /\ 1 \in 1 .. Len(c)
  BY <1>5, <1>6, <1>7
<1>9. i = 1
  <2>. SUFFICES ASSUME 1 < i PROVE FALSE
    BY <1>5, <1>7
  <2>1. p[1] < p[i]
    BY <1>6, <1>7, <1>8
  <2>. QED  BY <1>7, <1>8, <2>1
<1>10. c[1] = s[1]
  BY <1>6, <1>7, <1>8, <1>9
<1>. QED  BY <1>1, <1>5, <1>8, <1>10

-----------------------------------------------------------------------------
(* Flattening                                                              *)

\* f[n] is what the first n sequences of ss make, one after the other.
Flattened(f, ss, X) ==
    /\ f \in [0 .. Len(ss) -> Seq(X)] /\ f[0] = <<>>
    /\ \A n \in 1 .. Len(ss) : f[n] = f[n - 1] \o ss[n]

LEMMA FlattenSteps ==
    ASSUME NEW X, NEW ss \in Seq(Seq(X))
    PROVE  \E f : Flattened(f, ss, X) /\ FlattenSeq(ss) = f[Len(ss)]
<1>. DEFINE N == Len(ss)
            g == [q \in (1 .. N) \X Seq(X) |-> q[2] \o ss[q[1]]]
<1>1. N \in Nat /\ <<>> \in Seq(X) /\ \A n \in 1 .. N : ss[n] \in Seq(X)
  OBVIOUS
<1>2. g \in [(1 .. N) \X Seq(X) -> Seq(X)]
  BY <1>1
<1>3. PICK f : Follows(f, Seq(X), N, <<>>, g)
  <2>. HIDE DEF g, N
  <2>. QED  BY <1>1, <1>2, Recursion
<1>4. ASSUME NEW n \in 1 .. N PROVE f[n - 1] \in Seq(X) /\ f[n] = f[n - 1] \o ss[n]
  <2>1. f[n - 1] \in Seq(X) /\ f[n] = g[<<n, f[n - 1]>>]
    <3>. HIDE DEF g
    <3>1. n - 1 \in 0 .. N
      BY <1>1
    <3>. QED  BY <1>3, <3>1 DEF Follows
  <2>. QED  BY <2>1
<1>. HIDE DEF g
<1>5. Flattened(f, ss, X)
  BY <1>3, <1>4 DEF Follows, Flattened
<1>0. ASSUME 1 \in 1 .. N PROVE f[1] = ss[1]
  <2>1. f[1] = f[0] \o ss[1]
    <3>1. ASSUME NEW n \in 1 .. N, n = 1 PROVE f[n] = f[0] \o ss[n]
      <4>1. n - 1 = 0
        BY <3>1
      <4>. QED  BY <1>4, <4>1
    <3>. QED  BY <1>0, <3>1
  <2>2. f[0] = <<>>
    BY <1>5 DEF Flattened
  <2>3. <<>> \o ss[1] = ss[1]
    BY <1>0, <1>1
  <2>. QED  BY <2>1, <2>2, <2>3
<1>6. CASE N = 0
  <2>1. FlattenSeq(ss) = <<>> /\ f[N] = <<>>
    BY <1>5, <1>6 DEF FlattenSeq, Flattened
  <2>. QED  BY <1>5, <2>1
<1>7. CASE N # 0
  <2>. DEFINE Defined(h) == h = [i \in 1 .. N |-> IF i = 1 THEN ss[i] ELSE h[i - 1] \o ss[i]]
              flatten == CHOOSE h : Defined(h)
              e == [i \in 1 .. N |-> f[i]]
  <2>1. Defined(e)
    <3>1. ASSUME NEW i \in 1 .. N PROVE e[i] = IF i = 1 THEN ss[i] ELSE e[i - 1] \o ss[i]
      <4>1. CASE i = 1
        BY <1>0, <4>1
      <4>2. CASE i # 1
        <5>1. i - 1 \in 1 .. N
          BY <1>1, <4>2
        <5>. QED  BY <1>4, <4>2, <5>1
      <4>. QED  BY <4>1, <4>2
    <3>. QED  BY <3>1
  <2>2. Defined(flatten)
    <3>. HIDE DEF Defined, e
    <3>. QED  BY <2>1
  <2>3. flatten[N] = f[N]
    <3>. DEFINE h == [n \in 0 .. N |-> IF n = 0 THEN <<>> ELSE flatten[n]]
    <3>1. \A i \in 1 .. N : flatten[i] = IF i = 1 THEN ss[i] ELSE flatten[i - 1] \o ss[i]
      <4>. HIDE DEF flatten
      <4>. QED  BY <2>2
    <3>. HIDE DEF flatten
    <3>2. ASSUME NEW n \in 1 .. N, h[n - 1] = f[n - 1] PROVE h[n] = f[n]
      <4>1. n \in 0 .. N /\ n # 0 /\ n - 1 \in 0 .. N
        BY <1>1
      <4>2. CASE n = 1
        BY <1>0, <3>1, <4>1, <4>2
      <4>3. CASE n # 1
        <5>1. h[n - 1] = flatten[n - 1]
          BY <4>1, <4>3
        <5>2. h[n] = flatten[n - 1] \o ss[n]
          BY <3>1, <4>1, <4>3
        <5>. QED  BY <1>4, <3>2, <5>1, <5>2
      <4>. QED  BY <4>2, <4>3
    <3>3. StepAlike(h, f, N)
      <4>1. h[0] = <<>> /\ f[0] = <<>>
        BY <1>1, <1>5 DEF Flattened
      <4>. HIDE DEF h
      <4>. QED  BY <3>2, <4>1 DEF StepAlike
    <3>4. h[N] = f[N]
      <4>. HIDE DEF h, N
      <4>. QED  BY <1>1, <3>3, SameSteps
    <3>. QED  BY <1>1, <1>7, <3>4
  <2>4. FlattenSeq(ss) = flatten[N]
    BY <1>7 DEF FlattenSeq
  <2>. QED  BY <1>5, <2>3, <2>4
<1>. QED  BY <1>6, <1>7

\* c is made of the elements of the first n sequences of ss, and of no others.
MadeOf(c, ss, n) ==
    /\ \A i \in 1 .. Len(c) : \E k \in 1 .. n : \E j \in 1 .. Len(ss[k]) : c[i] = ss[k][j]
    /\ \A k \in 1 .. n : \A j \in 1 .. Len(ss[k]) : \E i \in 1 .. Len(c) : c[i] = ss[k][j]

LEMMA MadeOfMore ==
    ASSUME NEW X, NEW c \in Seq(X), NEW ss, NEW n \in Nat, ss[n + 1] \in Seq(X),
           MadeOf(c, ss, n)
    PROVE  MadeOf(c \o ss[n + 1], ss, n + 1)
<1>. DEFINE b == ss[n + 1]
            d == c \o b
<1>1. /\ Len(c) \in Nat /\ Len(b) \in Nat /\ Len(d) = Len(c) + Len(b)
      /\ \A i \in 1 .. Len(c) : d[i] = c[i]
      /\ \A j \in 1 .. Len(b) : d[Len(c) + j] = b[j]
  OBVIOUS
<1>2. n + 1 \in 1 .. n + 1 /\ \A k \in 1 .. n : k \in 1 .. n + 1
  OBVIOUS
<1>. HIDE DEF d
<1>3. ASSUME NEW i \in 1 .. Len(d)
      PROVE  \E k \in 1 .. n + 1 : \E j \in 1 .. Len(ss[k]) : d[i] = ss[k][j]
  <2>1. CASE i \in 1 .. Len(c)
    BY <1>1, <1>2, <2>1 DEF MadeOf
  <2>2. CASE i \notin 1 .. Len(c)
    <3>1. i - Len(c) \in 1 .. Len(b) /\ Len(c) + (i - Len(c)) = i
      BY <1>1, <2>2
    <3>2. d[i] = ss[n + 1][i - Len(c)]
      BY <1>1, <3>1
    <3>. QED  BY <1>2, <3>1, <3>2
  <2>. QED  BY <2>1, <2>2
<1>4. ASSUME NEW k \in 1 .. n + 1, NEW j \in 1 .. Len(ss[k])
      PROVE  \E i \in 1 .. Len(d) : d[i] = ss[k][j]
  <2>1. CASE k = n + 1
    <3>1. Len(c) + j \in 1 .. Len(d)
      BY <1>1, <2>1
    <3>. QED  BY <1>1, <2>1, <3>1
  <2>2. CASE k \in 1 .. n
    <3>1. PICK i \in 1 .. Len(c) : c[i] = ss[k][j]
      BY <2>2 DEF MadeOf
    <3>2. i \in 1 .. Len(d)
      BY <1>1
    <3>. QED  BY <1>1, <3>1, <3>2
  <2>3. k = n + 1 \/ k \in 1 .. n
    BY ONLY k \in 1 .. n + 1, n \in Nat
  <2>. QED  BY <2>1, <2>2, <2>3
<1>5. MadeOf(d, ss, n + 1)
  BY <1>3, <1>4 DEF MadeOf
<1>. QED  BY <1>5 DEF d

\* FlattenSeq has the elements of the sequences it is given.
LEMMA FlattenIs ==
    ASSUME NEW X, NEW ss \in Seq(Seq(X))
    PROVE  FlattenSeq(ss) \in Seq(X) /\ MadeOf(FlattenSeq(ss), ss, Len(ss))
<1>1. PICK f : Flattened(f, ss, X) /\ FlattenSeq(ss) = f[Len(ss)]
  BY FlattenSteps
<1>. DEFINE Made(n) == MadeOf(f[n], ss, n)
            R == {n \in Nat : n <= Len(ss) => Made(n)}
<1>2. Len(ss) \in Nat
  OBVIOUS
<1>3. \A n \in 0 .. Len(ss) : f[n] \in Seq(X)
  BY <1>1 DEF Flattened
<1>4. 0 \in R
  <2>1. f[0] = <<>>
    BY <1>1 DEF Flattened
  <2>. QED  BY <2>1 DEF MadeOf
<1>5. ASSUME NEW n \in Nat, n \in R PROVE n + 1 \in R
  <2>. SUFFICES ASSUME n + 1 <= Len(ss) PROVE Made(n + 1)
    <3>. HIDE DEF Made
    <3>. QED  OBVIOUS
  <2>1. n + 1 \in 1 .. Len(ss) /\ n \in 0 .. Len(ss) /\ (n + 1) - 1 = n /\ n <= Len(ss)
    BY <1>2
  <2>2. Made(n) /\ f[n] \in Seq(X) /\ ss[n + 1] \in Seq(X)
    BY <1>3, <1>5, <2>1
  <2>3. f[n + 1] = f[n] \o ss[n + 1]
    BY <1>1, <2>1 DEF Flattened
  <2>. QED  BY <2>2, <2>3, MadeOfMore
<1>6. Len(ss) \in R
  <2>. HIDE DEF R
  <2>. QED  BY <1>2, <1>4, <1>5, Induction
<1>7. Len(ss) \in 0 .. Len(ss)
  BY <1>2
<1>. QED  BY <1>1, <1>2, <1>3, <1>6, <1>7

\* Sequences of one element each make the sequence of those elements.
LEMMA FlattenSingles ==
    ASSUME NEW X, NEW s \in Seq(X), NEW ss \in Seq(Seq(X)), Len(ss) = Len(s),
           \A i \in 1 .. Len(s) : ss[i] = <<s[i]>>
    PROVE  FlattenSeq(ss) = s
<1>1. PICK f : Flattened(f, ss, X) /\ FlattenSeq(ss) = f[Len(ss)]
  BY FlattenSteps
<1>2. /\ Len(s) \in Nat /\ f \in [0 .. Len(s) -> Seq(X)] /\ f[0] = <<>>
      /\ \A n \in 1 .. Len(s) : f[n] = f[n - 1] \o <<s[n]>>
  <2>1. Len(s) \in Nat /\ \A n \in 1 .. Len(ss) : f[n] = f[n - 1] \o ss[n]
    <3>1. Flattened(f, ss, X) => \A n \in 1 .. Len(ss) : f[n] = f[n - 1] \o ss[n]
      BY ONLY DEF Flattened
    <3>2. Len(s) \in Nat
      OBVIOUS
    <3>. QED  BY ONLY <1>1, <3>1, <3>2
  <2>2. f \in [0 .. Len(s) -> Seq(X)] /\ f[0] = <<>>
    BY <1>1 DEF Flattened
  <2>. QED  BY ONLY <2>1, <2>2, Len(ss) = Len(s), \A i \in 1 .. Len(s) : ss[i] = <<s[i]>>
<1>. DEFINE Same(n) == Len(f[n]) = n /\ \A i \in 1 .. n : f[n][i] = s[i]
            R == {n \in Nat : n <= Len(s) => Same(n)}
<1>3. 0 \in R
  BY <1>2
<1>4. ASSUME NEW n \in Nat, n \in R PROVE n + 1 \in R
  <2>. SUFFICES ASSUME n + 1 <= Len(s) PROVE Same(n + 1)
    OBVIOUS
  <2>1. /\ n + 1 \in 1 .. Len(s) /\ n \in 0 .. Len(s) /\ (n + 1) - 1 = n /\ n <= Len(s)
    BY <1>2
  <2>2. Same(n) /\ f[n] \in Seq(X) /\ s[n + 1] \in X /\ f[n + 1] = f[n] \o <<s[n + 1]>>
    <3>1. f[n] \in Seq(X) /\ f[n + 1] = f[(n + 1) - 1] \o <<s[n + 1]>>
      BY <1>2, <2>1
    <3>2. s[n + 1] \in X
      BY <2>1
    <3>. QED  BY <1>4, <2>1, <3>1, <3>2
  <2>3. /\ Len(f[n + 1]) = n + 1 /\ f[n + 1][n + 1] = s[n + 1]
        /\ \A i \in 1 .. n : f[n + 1][i] = f[n][i]
    <3>. DEFINE c == f[n]
                x == s[n + 1]
    <3>1. c \in Seq(X) /\ x \in X /\ Len(c) = n /\ f[n + 1] = c \o <<x>>
      BY <2>2
    <3>. HIDE DEF c, x
    <3>2. /\ Len(c \o <<x>>) = n + 1 /\ (c \o <<x>>)[n + 1] = x
          /\ \A i \in 1 .. n : (c \o <<x>>)[i] = c[i]
      BY <3>1
    <3>. QED  BY <3>1, <3>2 DEF c, x
  <2>4. \A i \in 1 .. n + 1 : i \in 1 .. n \/ i = n + 1
    OBVIOUS
  <2>. QED  BY <2>2, <2>3, <2>4
<1>5. Len(s) \in R
  <2>. HIDE DEF R
  <2>. QED  BY <1>2, <1>3, <1>4, Induction
<1>6. Same(Len(s)) /\ f[Len(s)] \in Seq(X)
  <2>1. Len(s) \in 0 .. Len(s)
    BY <1>2
  <2>. QED  BY <1>2, <1>5, <2>1
<1>7. f[Len(s)] = s
  <2>. DEFINE c == f[Len(s)]
  <2>1. c \in Seq(X) /\ Len(c) = Len(s) /\ \A i \in 1 .. Len(s) : c[i] = s[i]
    BY <1>6
  <2>. HIDE DEF c
  <2>2. c = s
    BY <2>1
  <2>. QED  BY <2>2 DEF c
<1>. QED  BY <1>1, <1>7

\* The k-th of the sequences that c is made of lies after position o[k - 1] of it.
Laid(c, ss, o) ==
    /\ o \in [0 .. Len(ss) -> Nat] /\ o[0] = 0 /\ Len(c) = o[Len(ss)]
    /\ \A n \in 1 .. Len(ss) : o[n] = o[n - 1] + Len(ss[n])
    /\ \A n \in 1 .. Len(ss) : \A i \in 1 .. Len(ss[n]) : c[o[n - 1] + i] = ss[n][i]

LEMMA FlattenLaid ==
    ASSUME NEW X, NEW ss \in Seq(Seq(X))
    PROVE  \E o : Laid(FlattenSeq(ss), ss, o)
<1>1. PICK f : Flattened(f, ss, X) /\ FlattenSeq(ss) = f[Len(ss)]
  BY FlattenSteps
<1>. DEFINE N == Len(ss)
            o == [n \in 0 .. N |-> Len(f[n])]
<1>2. N \in Nat /\ \A n \in 1 .. N : ss[n] \in Seq(X)
  OBVIOUS
<1>3. f \in [0 .. N -> Seq(X)] /\ f[0] = <<>> /\ \A n \in 1 .. N : f[n] = f[n - 1] \o ss[n]
  BY <1>1 DEF Flattened
<1>4. \A n \in 0 .. N : f[n] \in Seq(X) /\ o[n] = Len(f[n]) /\ Len(f[n]) \in Nat
  <2>1. \A n \in 0 .. N : f[n] \in Seq(X)
    BY <1>3
  <2>. QED  BY <2>1
<1>5. o[0] = 0 /\ o \in [0 .. N -> Nat]
  <2>1. Len(f[0]) = 0
    BY <1>3
  <2>. QED  BY <1>2, <1>4, <2>1
<1>. HIDE DEF o
<1>6. ASSUME NEW n \in 1 .. N
      PROVE  /\ o[n] = o[n - 1] + Len(ss[n])
             /\ \A i \in 1 .. o[n - 1] : f[n][i] = f[n - 1][i]
             /\ \A i \in 1 .. Len(ss[n]) : f[n][o[n - 1] + i] = ss[n][i]
  <2>1. n \in 0 .. N /\ n - 1 \in 0 .. N
    BY <1>2
  <2>. DEFINE a == f[n - 1]
              b == ss[n]
  <2>2. a \in Seq(X) /\ b \in Seq(X) /\ f[n] = a \o b /\ o[n - 1] = Len(a) /\ o[n] = Len(f[n])
    BY <1>2, <1>3, <1>4, <2>1
  <2>. HIDE DEF a, b
  <2>3. /\ Len(a \o b) = Len(a) + Len(b)
        /\ \A i \in 1 .. Len(a) : (a \o b)[i] = a[i]
        /\ \A i \in 1 .. Len(b) : (a \o b)[Len(a) + i] = b[i]
    BY <2>2
  <2>. QED  BY <2>2, <2>3 DEF a, b
<1>. DEFINE Kept(m) == \A n \in 1 .. m : \A i \in 1 .. Len(ss[n]) : f[m][o[n - 1] + i] = ss[n][i]
            R == {m \in Nat : m <= N => Kept(m)}
<1>7. 0 \in R
  OBVIOUS
<1>8. ASSUME NEW m \in Nat, m \in R PROVE m + 1 \in R
  <2>. SUFFICES ASSUME m + 1 <= N PROVE Kept(m + 1)
    <3>. HIDE DEF Kept
    <3>. QED  OBVIOUS
  <2>1. Kept(m) /\ m + 1 \in 1 .. N /\ (m + 1) - 1 = m
    BY <1>2, <1>8
  <2>. SUFFICES ASSUME NEW n \in 1 .. m + 1, NEW i \in 1 .. Len(ss[n])
                PROVE  f[m + 1][o[n - 1] + i] = ss[n][i]
    BY Zenon DEF Kept
  <2>2. CASE n = m + 1
    <3>1. \A k \in 1 .. Len(ss[m + 1]) : f[m + 1][o[(m + 1) - 1] + k] = ss[m + 1][k]
      BY <1>6, <2>1
    <3>. QED  BY <2>2, <3>1
  <2>3. CASE n \in 1 .. m
    <3>1. n \in 1 .. N /\ n - 1 \in 0 .. N /\ n \in 0 .. N
      BY <1>2, <2>1, <2>3
    <3>2. f[m][o[n - 1] + i] = ss[n][i]
      BY <2>1, <2>3
    <3>3. o[n - 1] + i \in 1 .. o[n] /\ o[n] \in Nat
      <4>1. o[n - 1] \in Nat /\ o[n] \in Nat /\ o[n] = o[n - 1] + Len(ss[n]) /\ Len(ss[n]) \in Nat
        <5>1. Len(ss[n]) \in Nat
          BY <1>2, <3>1
        <5>. QED  BY <1>5, <1>6, <3>1, <5>1
      <4>2. \A x, y, l \in Nat : y = x + l => \A k \in 1 .. l : x + k \in 1 .. y
        OBVIOUS
      <4>. QED  BY ONLY <4>1, <4>2
    <3>4. o[n] <= o[m]
      <4>. DEFINE Above == {k \in Nat : n + k <= N => o[n] <= o[n + k]}
      <4>1. 0 \in Above
        BY <3>3
      <4>2. ASSUME NEW k \in Nat, k \in Above PROVE k + 1 \in Above
        <5>. SUFFICES ASSUME n + (k + 1) <= N PROVE o[n] <= o[n + (k + 1)]
          OBVIOUS
        <5>1. n + (k + 1) \in 1 .. N /\ (n + (k + 1)) - 1 = n + k /\ n + k \in 0 .. N /\ n + k <= N
          BY <1>2, <3>1
        <5>2. o[n + (k + 1)] = o[n + k] + Len(ss[n + (k + 1)]) /\ Len(ss[n + (k + 1)]) \in Nat
          <6>1. ss[n + (k + 1)] \in Seq(X)
            BY <1>2, <5>1
          <6>2. o[n + (k + 1)] = o[(n + (k + 1)) - 1] + Len(ss[n + (k + 1)])
            BY <1>6, <5>1
          <6>. QED  BY <5>1, <6>1, <6>2
        <5>3. o[n] <= o[n + k] /\ o[n + k] \in Nat
          BY <1>5, <4>2, <5>1
        <5>4. \A x, y, l \in Nat : x <= y => x <= y + l
          OBVIOUS
        <5>5. o[n] \in Nat
          BY <3>3
        <5>. QED  BY ONLY <5>2, <5>3, <5>4, <5>5
      <4>3. m - n \in Nat /\ n + (m - n) = m /\ n + (m - n) <= N
        BY <1>2, <2>1, <2>3
      <4>4. m - n \in Above
        <5>. HIDE DEF Above
        <5>. QED  BY <4>1, <4>2, <4>3, Induction
      <4>. QED  BY <4>3, <4>4
    <3>5. o[n - 1] + i \in 1 .. o[m]
      <4>1. o[m] \in Nat
        <5>1. m \in 0 .. N
          BY <1>2, <2>1
        <5>. QED  BY <1>5, <5>1
      <4>. QED  BY <3>3, <3>4, <4>1
    <3>6. \A k \in 1 .. o[(m + 1) - 1] : f[m + 1][k] = f[(m + 1) - 1][k]
      BY <1>6, <2>1
    <3>. QED  BY <2>1, <3>2, <3>5, <3>6
  <2>. QED  BY <2>2, <2>3
<1>9. N \in R
  <2>. HIDE DEF R
  <2>. QED  BY <1>2, <1>7, <1>8, Induction
<1>10. Kept(N) /\ Len(f[N]) = o[N]
  BY <1>2, <1>4, <1>9
<1>11. Laid(f[N], ss, o)
  BY <1>5, <1>6, <1>10 DEF Laid
<1>. QED  BY <1>1, <1>11
=============================================================================
