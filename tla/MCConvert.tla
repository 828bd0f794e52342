----------------------------- MODULE MCConvert -----------------------------
(* Instances of Convert for TLC.                                             *)
EXTENDS Convert

W(w) == <<Word(w)>>
Note(symbol, text) == symbol \o <<Blank, Open>> \o text \o <<Close>>

(* Folded files: one line of any two labels, or two lines of a small choice.  *)
FLabels ==
    {W("f"), Note(W("f"), W("lib")), Note(W("f"), <<Word("src"), Colon, Dec(2)>>),
     Note(<<Hex(1)>>, W("lib")), <<Word("f"), Blank, Word("g")>>, <<Hash, Word("f")>>, <<>>,
     Note(W("f"), <<>>), <<Word("f"), Open, Word("int"), Close>>}

Line(labels, count) == Join(labels, Semicolon) \o <<Blank, Dec(count)>>

FLines ==
    {Line(labels, n) : labels \in {<<a>> : a \in FLabels} \cup (FLabels \X FLabels), n \in {3, -1}}

Shorts ==
    {Line(<<W("f")>>, 3), Line(<<W("g"), W("f")>>, 0), Line(<<<<>>, <<>>>>, 2), <<Dec(5)>>,
     <<>>, <<Hash, Word("f")>>, W("f")}

Twos == {a \o <<NewLine>> \o b : a \in Shorts, b \in Shorts}

Ended(texts) == UNION {{t, t \o <<NewLine>>} : t \in texts}

(* Messages: two locations over one table of strings.                         *)
Strings == <<<<>>, W("f"), W("lib"), <<Word("f"), Semicolon, Word("g")>>, W("samples")>>

Lines2 == {<<>>, <<[function_id |-> 1, line |-> 2]>>, <<[function_id |-> 9, line |-> 2]>>,
           <<[function_id |-> 1, line |-> 0], [function_id |-> 2, line |-> 9]>>}

Loc(ids) == [id : ids, mapping_id : {0, 1}, address : {0, 1}, line : Lines2]

Count == [type |-> 4, unit |-> 0]

\* A sample's locations and values, the declared series, and whether it is compressed.
Shapes ==
    {<<ids, v, kinds, zip>> : ids \in {<<2, 1>>}, zip \in {TRUE},
        v \in {<<>>, <<3>>, <<-1>>}, kinds \in {<<>>, <<Count>>}}
    \cup {<<<<1, 2>>, <<3, 4>>, <<Count, Count>>, FALSE>>, <<<<1>>, <<3>>, <<Count>>, FALSE>>}

MCMessages ==
    {[gzip |-> s[4], cut |-> FALSE,
      fields |-> encode([sample_type |-> s[3],
                         sample |-> <<[location_id |-> s[1], value |-> s[2]]>>,
                         mapping |-> <<[id |-> 1, filename |-> m]>>,
                         location |-> <<l1, l2>>,
                         function |-> <<[id |-> 1, name |-> n, filename |-> 0],
                                        [id |-> 2, name |-> 3, filename |-> 2]>>,
                         string_table |-> Strings])] :
        s \in Shapes, m \in {2, 5}, l1 \in Loc({1}), n \in {0, 1},
        l2 \in {l \in Loc({2}) : l.mapping_id = l.address}
               \cup {[id |-> 1, mapping_id |-> 0, address |-> 1, line |-> <<>>]}}

\* The names matter most where the content says least.
MCForeign ==
    {[extension |-> e, form |-> "text", text |-> t, message |-> NoMessage] :
        e \in {"none", "folded", "pb"}, t \in {<<>>} \cup Ended(Twos)}
    \cup {[extension |-> "none", form |-> "text", text |-> t, message |-> NoMessage] :
            t \in Ended(FLines)}
    \cup {[extension |-> "none", form |-> "message", text |-> <<>>, message |-> m] : m \in MCMessages}

(* Captured profiles: two frames as the symbolizers make them.                *)
CFrames ==
    {[EmptyFrame EXCEPT !.raw = <<Hex(a)>>, !.address = a] : a \in {0, 1}}
    \cup {[EmptyFrame EXCEPT !.raw = <<Hex(2)>>, !.address = 2, !.module = W("lib")]}
    \cup {[EmptyFrame EXCEPT !.raw = n, !.function = n, !.address = 3, !.module = W("lib")] :
            n \in {W("f"), <<Word("f"), Semicolon, Word("g")>>, <<Word("f"), NewLine>>,
                   <<Hash, Word("f")>>, Note(W("f"), W("int"))}}

MCCaptured ==
    {[frames |-> <<a, b>>,
      samples |-> <<[stack |-> <<0, 1>>, values |-> <<3>>], [stack |-> <<1>>, values |-> <<0>>]>>,
      value_kinds |-> <<[kind |-> W("samples"), unit |-> W("count")]>>] :
        a \in CFrames, b \in CFrames}
    \cup {[NoProfile EXCEPT !.value_kinds = <<[kind |-> W("samples"), unit |-> W("count")]>>]}

Out(to, extension) == [to |-> to, extension |-> extension]

MCOutputs == {Out("none", "folded"), Out("none", "gz"), Out("pprof", "folded"),
              Out("folded", "pb"), Out("none", "none"), Out("speedscope", "json"),
              Out("svg", "pb")}
=============================================================================
