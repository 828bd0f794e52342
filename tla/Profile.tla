------------------------------ MODULE Profile ------------------------------
(***************************************************************************)
(* core/model.rs: the profile every reader produces and every writer       *)
(* consumes, and the texts it is made of.                                  *)
(*                                                                         *)
(* A text is a sequence of tokens: words, numbers and the marks the        *)
(* formats give a meaning to.  No two numbers or words stand side by side. *)
(***************************************************************************)
EXTENDS Integers, Selection

CONSTANT MaxLine    \* u32::MAX, the largest line number of a frame

ASSUME ProfileAssumption == MaxLine \in Nat

Word(w) == <<"word", w>>
Dec(n) == <<"dec", n>>
Hex(n) == <<"hex", n>>
Mark(m) == <<"mark", m>>

Blank == Mark(" ")
NewLine == Mark("\n")
Semicolon == Mark(";")
Colon == Mark(":")
Open == Mark("(")
Close == Mark(")")
Hash == Mark("#")

\* None, of a text and of a number.
NoText == <<<<"none">>>>
NoNumber == -1

\* Some("") is the text <<>>.
IsSome(text) == text # NoText

\* A text, and None.  Of the words, two are the folded reader's own.
Tokens ==
    ({"word"} \X ({"samples", "count"} \cup STRING))
    \cup ({"dec"} \X Int) \cup ({"hex"} \X Nat)
    \cup ({"mark"} \X {" ", "\n", ";", ":", "(", ")", "#"})
    \cup {<<"none">>}

Text == Seq(Tokens)

\* str::trim
Trim(text) ==
    LET kept == {i \in 1 .. Len(text) : text[i] # Blank}
    IN  IF kept = {} THEN <<>>
        ELSE SubSeq(text, CHOOSE i \in kept : \A j \in kept : i <= j,
                          CHOOSE i \in kept : \A j \in kept : j <= i)

\* str::split on one mark: always at least one piece.
Split(text, mark) ==
    LET marks == Chosen(Positions(text), {i \in 1 .. Len(text) : text[i] = mark})
        cuts == <<0>> \o marks \o <<Len(text) + 1>>
    IN  [k \in 1 .. Len(marks) + 1 |-> SubSeq(text, cuts[k] + 1, cuts[k + 1] - 1)]

\* The pieces with the mark between them.
Join(pieces, mark) ==
    FlattenSeq([i \in 1 .. Len(pieces) |->
        IF i = 1 THEN pieces[i] ELSE <<mark>> \o pieces[i]])

EmptyFrame ==
    [raw |-> <<>>, function |-> NoText, file |-> NoText,
     line |-> NoNumber, module |-> NoText, address |-> NoNumber]

Frames ==
    [raw : Text, function : Text, file : Text,
     line : 0 .. MaxLine \cup {NoNumber}, module : Text, address : Nat \cup {NoNumber}]

Profiles ==
    [frames : Seq(Frames),
     samples : Seq([stack : Seq(Nat), values : Seq(Int)]),
     value_kinds : Seq([kind : Text, unit : Text])]

\* Results of the fallible operations.
Ok(x) == <<x>>
Err == <<>>

\* Profile::validate
validate(profile) ==
    \A s \in ToSet(profile.samples) :
        /\ Len(s.values) = Len(profile.value_kinds)
        /\ \A id \in ToSet(s.stack) : id < Len(profile.frames)

\* The frames of a sample, root first.
Stack(profile, s) == [i \in 1 .. Len(s.stack) |-> profile.frames[s.stack[i] + 1]]
=============================================================================
