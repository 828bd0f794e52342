------------------------------ MODULE Quoting ------------------------------
(***************************************************************************)
(* How the Windows driver makes one command line of an argument vector     *)
(* (windows/launch.rs), and how the launched program's C runtime takes it  *)
(* apart again, which is not this repository's code.                       *)
(*                                                                         *)
(* An argument is a sequence of characters, of which only four matter:     *)
(* "\\" a backslash, "q" a double quote, " " a blank, "x" any other.       *)
(***************************************************************************)
EXTENDS Sequences, SequencesExt, Naturals

CONSTANT MaxLength      \* bound on the length of an argument

ASSUME MaxLengthAssumption == MaxLength \in Nat

Characters == {"\\", "q", " ", "x"}
Backslashes(n) == [i \in 1 .. n |-> "\\"]

\* Mutant of append_char: a quote is escaped, the backslashes before it are not.
append_char_simple(s, ch) ==
    CASE ch = "\\" -> [s EXCEPT !.backslashes = @ + 1]
      [] ch = "q"  -> [line |-> s.line \o Backslashes(s.backslashes + 1) \o <<"q">>,
                       backslashes |-> 0]
      [] OTHER     -> [line |-> s.line \o Backslashes(s.backslashes) \o <<ch>>,
                       backslashes |-> 0]

\* One turn of append_quoted's loop: backslashes are held back until it is known
\* whether a quote follows.
append_char(s, ch) ==
    CASE ch = "\\" -> [s EXCEPT !.backslashes = @ + 1]
      [] ch = "q"  -> [line |-> s.line \o Backslashes(2 * s.backslashes + 1) \o <<"q">>,
                       backslashes |-> 0]
      [] OTHER     -> [line |-> s.line \o Backslashes(s.backslashes) \o <<ch>>,
                       backslashes |-> 0]

\* Quoted only when necessary; trailing backslashes are doubled before the closing
\* quote.
append_quoted(line, arg) ==
    IF arg # <<>> /\ ToSet(arg) \cap {"q", " "} = {}
    THEN line \o arg
    ELSE LET s == FoldLeft(append_char, [line |-> line \o <<"q">>, backslashes |-> 0], arg)
         IN  s.line \o Backslashes(2 * s.backslashes) \o <<"q">>

encode_command_line(argv) ==
    FoldLeft(LAMBDA line, arg : append_quoted(IF line = <<>> THEN line ELSE Append(line, " "),
                                              arg),
             <<>>, argv)

-----------------------------------------------------------------------------
(* The program's side: the first word is the program, in which a backslash *)
(* is only a backslash; in the others backslashes before a quote escape.   *)

Start == [args |-> <<>>, word |-> <<>>, in |-> FALSE, quoted |-> FALSE,
          closed |-> FALSE, backslashes |-> 0]

Say(p, letters) ==
    [p EXCEPT !.word = @ \o Backslashes(p.backslashes) \o letters, !.backslashes = 0,
              !.in = TRUE, !.closed = FALSE]

EndWord(p) ==
    IF ~p.in /\ p.backslashes = 0 THEN p
    ELSE [Start EXCEPT !.args = Append(p.args, p.word \o Backslashes(p.backslashes))]

Half(p) == [p EXCEPT !.backslashes = @ \div 2]

Quote(p) ==
    IF p.args = <<>>
    THEN [p EXCEPT !.quoted = ~@, !.in = TRUE]
    ELSE CASE p.backslashes % 2 = 1            -> Say(Half(p), <<"q">>)
           [] p.closed /\ p.backslashes = 0    -> [Say(p, <<"q">>) EXCEPT !.quoted = TRUE]
           [] OTHER -> [Say(Half(p), <<>>) EXCEPT !.quoted = ~p.quoted, !.closed = p.quoted]

Take(p, ch) ==
    CASE ch = "q"                 -> Quote(p)
      [] ch = "\\" /\ p.args # <<>> -> [p EXCEPT !.backslashes = @ + 1]
      [] ch = " " /\ ~p.quoted    -> EndWord(p)
      [] OTHER                    -> Say(p, <<ch>>)

ParseCommandLine(line) == EndWord(FoldLeft(Take, Start, line)).args

-----------------------------------------------------------------------------
Arguments(n) == UNION {[1 .. k -> Characters] : k \in 0 .. n}

\* Names of programs: no quote, and not a directory.
Programs == {p \in Arguments(3) : p # <<>> /\ "q" \notin ToSet(p) /\ p[Len(p)] # "\\"}

Argvs == {<<p, <<"x">>>> : p \in Programs}
         \cup {<<<<"x">>, a>> : a \in Arguments(MaxLength)}
         \cup {<<<<"x">>, a, b>> : a \in Arguments(2), b \in Arguments(2)}

\* Taking the command line apart gives back every one of these vectors.
Faithful == \A argv \in Argvs : ParseCommandLine(encode_command_line(argv)) = argv
=============================================================================
