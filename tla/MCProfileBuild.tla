--------------------------- MODULE MCProfileBuild ---------------------------
(* Instances of ProfileBuild for TLC: a program at 2 .. 6 whose text is at   *)
(* file offset 1 and linked at 4, a library at 7 .. 8 that has been deleted, *)
(* and nothing at 9; on Windows the program has debug information or exports *)
(* only.                                                                     *)
EXTENDS ProfileBuild

MCChains == {<<3>>, <<4, 3>>, <<9, 7, 5, 4>>}

Sym(name, vaddrs, sizes) == [vaddr : vaddrs, size : sizes, name : {name}, kind : {"text"}]

Tables == {<<>>} \cup {<<f>> : f \in Sym("f", 4 .. 7, 0 .. 3)}
Dynamics == {<<>>} \cup {<<g>> : g \in Sym("g", 4 .. 7, {0, 2})}

Object == [vaddr |-> 6, size |-> 2, name |-> "object", kind |-> "data"]
Undefined == [vaddr |-> 0, size |-> 0, name |-> "undefined", kind |-> "text"]
Nameless == [vaddr |-> 6, size |-> 0, name |-> "", kind |-> "text"]

Apart == <<[offset |-> 1, size |-> 4, vaddr |-> 4], [offset |-> 0, size |-> 0, vaddr |-> 0],
           [offset |-> 0, size |-> 1, vaddr |-> 1]>>
Overlapping == <<[offset |-> 1, size |-> 4, vaddr |-> 4], [offset |-> 0, size |-> 3, vaddr |-> 5]>>

Region(start, end, offset, perms, path) ==
    [start |-> start, end |-> end, offset |-> offset, perms |-> perms, path |-> path]

Mapped ==
    {[system |-> "linux",
      maps |-> <<Region(1, 2, 0, {"r"}, <<"/", "program">>),
                 Region(2, 6, 1, {"r", "x"}, <<"/", "program">>),
                 Region(7, 8, 0, {"r", "x"}, <<"/", "library", "(deleted)">>),
                 Region(9, 10, 0, {"r", "x"}, <<"[vdso]">>)>>,
      files |-> (<<"program">> :> [segments |-> x[2], symbols |-> t \o <<Object, Undefined>>,
                                   dynamic |-> x[1] \o <<Nameless>>]
                 @@ <<"library", "(deleted)">> :> [segments |-> Apart, symbols |-> <<>>,
                                                  dynamic |-> <<>>])] :
        t \in Tables, x \in (Dynamics \X {Apart}) \cup {<<<<>>, Overlapping>>}}

Known_(at, size, name) == [at |-> at, size |-> size, name |-> name, export |-> FALSE]
Export(at, name) == [at |-> at, size |-> 0, name |-> name, export |-> TRUE]

SymbolSets ==
    {{Known_(a, n, "f"), Known_(b, 1, "g")} : a \in 2 .. 5, n \in 1 .. 3, b \in 3 .. 4}
    \cup {{Export(a, "f"), Export(b, "g")} : a \in 2 .. 3, b \in 4 .. 5}
    \cup {{Export(2, "")}, {Known_(2, 0, "f")}, {}}

Sessions ==
    {[system |-> "windows",
      modules |-> {[name |-> <<"program">>, start |-> 2, end |-> 6, symbols |-> s,
                    lines |-> {[at |-> 3, end |-> 4, source |-> [file |-> "f.c", line |-> 1]],
                               [at |-> 4, end |-> 5, source |-> [file |-> NoName, line |-> 2]]}],
                   [name |-> <<>>, start |-> 7, end |-> 8, symbols |-> {}, lines |-> {}]}] :
        s \in SymbolSets}

MCSpaces == Mapped \cup Sessions
=============================================================================
