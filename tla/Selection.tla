----------------------------- MODULE Selection -----------------------------
(***************************************************************************)
(* What the symbolizer, the readers and the writers make of a sequence     *)
(* when they filter it, intern its elements or look one up.  Everything is *)
(* said by positions, and the one recursion is that of a function on them. *)
(***************************************************************************)
EXTENDS Naturals, SequencesExt

Positions(s) == [i \in 1 .. Len(s) |-> i]

\* The elements of s at the positions in S, in their order.
Chosen(s, S) ==
    LET picked[n \in 0 .. Len(s)] ==
            IF n = 0 THEN <<>>
            ELSE IF n \in S THEN Append(picked[n - 1], s[n])
            ELSE picked[n - 1]
    IN  picked[Len(s)]

\* Iterator::filter
Only(s, Test(_)) == Chosen(s, {i \in 1 .. Len(s) : Test(s[i])})

\* Each element once, in the order first seen: what an interner's table holds.
Interned(s) == Chosen(s, {i \in 1 .. Len(s) : \A j \in 1 .. i - 1 : s[j] # s[i]})

\* The position of x, which is in s.
IndexOf(s, x) == SelectInSeq(s, LAMBDA y : y = x)
=============================================================================
