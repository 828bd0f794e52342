------------------------------- MODULE Folded -------------------------------
(***************************************************************************)
(* folded.rs: one line per stack, the frames' labels joined by semicolons, *)
(* then a blank and the count.                                             *)
(***************************************************************************)
EXTENDS Profile

CONSTANT PROBE_LINE_BUDGET  \* stack lines the prober looks at

ASSUME FoldedAssumption == PROBE_LINE_BUDGET \in Nat \ {0}

\* str::lines: a final newline ends the last line and starts none.
Lines(text) ==
    LET pieces == Split(text, NewLine)
    IN  IF Last(pieces) = <<>> THEN Front(pieces) ELSE pieces

IsInteger(text) == Len(text) = 1 /\ text[1][1] = "dec"

Skip == [kind |-> "skip", stack |-> <<>>, count |-> 0]
Invalid == [kind |-> "invalid", stack |-> <<>>, count |-> 0]

\* Mutant of classify_line: the count is what comes after the first blank.
ClassifyFromLeft(raw) ==
    LET line == Trim(raw)
        at == SelectInSeq(line, LAMBDA t : t = Blank)
        count == SubSeq(line, at + 1, Len(line))
    IN  IF line = <<>> \/ Head(line) = Hash THEN Skip
        ELSE IF ~IsInteger(count) \/ count[1][2] < 0 THEN Invalid
        ELSE IF at = 0 THEN Skip
        ELSE [kind |-> "stack", stack |-> Trim(SubSeq(line, 1, at - 1)), count |-> count[1][2]]

\* What comes after the last blank is the count; a lone count is a frameless sample.
classify_line(raw) ==
    LET line == Trim(raw)
        at == SelectLastInSeq(line, LAMBDA t : t = Blank)
        count == SubSeq(line, at + 1, Len(line))
    IN  IF line = <<>> \/ Head(line) = Hash THEN Skip
        ELSE IF ~IsInteger(count) \/ count[1][2] < 0 THEN Invalid
        ELSE IF at = 0 THEN Skip
        ELSE [kind |-> "stack", stack |-> Trim(SubSeq(line, 1, at - 1)), count |-> count[1][2]]

\* The lines probe_content classifies before its budget is spent; the last one
\* is left out unless a newline ends it.
Judged(text) ==
    LET kinds == [i \in 1 .. Len(Lines(text)) |-> classify_line(Lines(text)[i]).kind]
        stacks(n) == Len(Only(SubSeq(kinds, 1, n), LAMBDA k : k = "stack"))
    IN  {kinds[i] : i \in {i \in 1 .. Len(kinds) :
            /\ stacks(i - 1) < PROBE_LINE_BUDGET
            /\ i < Len(kinds) \/ Last(text) = NewLine}}

\* How far a text looks like folded.
folded_probe(text) ==
    IF text = <<>> \/ "invalid" \in Judged(text) THEN "None"
    ELSE IF "stack" \in Judged(text) THEN "Likely"
    ELSE "Weak"

\* Splits "file:line"; in a sequence of at most one.
split_file_line(annotation) ==
    LET at == SelectLastInSeq(annotation, LAMBDA t : t = Colon)
        line == SubSeq(annotation, at + 1, Len(annotation))
    IN  IF at > 1 /\ IsInteger(line) /\ line[1][2] \in 0 .. MaxLine
        THEN <<[file |-> SubSeq(annotation, 1, at - 1), line |-> line[1][2]]>>
        ELSE <<>>

\* The structured fields of a label "symbol", "symbol (module)" or "symbol (file:line)".
parse_frame(label) ==
    LET rest == IF label # <<>> /\ Last(label) = Close THEN Front(label) ELSE <<>>
        opens == {i \in 1 .. Len(rest) - 1 : rest[i] = Blank /\ rest[i + 1] = Open}
        open == IF opens = {} THEN Len(label) + 1 ELSE CHOOSE i \in opens : \A j \in opens : j <= i
        symbol == Trim(SubSeq(label, 1, open - 1))
        annotation == SubSeq(rest, open + 2, Len(rest))
        place == split_file_line(annotation)
        isHex == Len(symbol) = 1 /\ symbol[1][1] = "hex"
    IN  [raw |-> label,
         function |-> IF isHex \/ symbol = <<>> THEN NoText ELSE symbol,
         address |-> IF isHex THEN symbol[1][2] ELSE NoNumber,
         file |-> IF place = <<>> THEN NoText ELSE place[1].file,
         line |-> IF place = <<>> THEN NoNumber ELSE place[1].line,
         module |-> IF opens # {} /\ place = <<>> THEN annotation ELSE NoText]

\* FoldedFormat::read
folded_read(text) ==
    LET lines == [i \in 1 .. Len(Lines(text)) |-> classify_line(Lines(text)[i])]
        labels(line) ==
            Only([i \in 1 .. Len(Split(line.stack, Semicolon)) |->
                     Trim(Split(line.stack, Semicolon)[i])],
                 LAMBDA label : label # <<>>)
        kept == Only(lines, LAMBDA line : line.kind = "stack" /\ labels(line) # <<>>)
        table == Interned(FlattenSeq([i \in 1 .. Len(kept) |-> labels(kept[i])]))
    IN  IF \E i \in 1 .. Len(lines) : lines[i].kind = "invalid" THEN Err
        ELSE Ok([frames |-> [i \in 1 .. Len(table) |-> parse_frame(table[i])],
                 samples |-> [i \in 1 .. Len(kept) |->
                     [stack |-> [j \in 1 .. Len(labels(kept[i])) |->
                                     IndexOf(table, labels(kept[i])[j]) - 1],
                      values |-> <<kept[i].count>>]],
                 value_kinds |-> <<[kind |-> <<Word("samples")>>, unit |-> <<Word("count")>>]>>])

\* Mutant of render_frame: the address is preferred to the function's name.
RenderByAddress(frame) ==
    LET symbol == IF frame.address # NoNumber THEN <<Hex(frame.address)>>
                  ELSE IF IsSome(frame.function) THEN frame.function
                  ELSE <<>>
    IN  IF frame.raw # <<>> THEN frame.raw ELSE symbol

\* The label a frame was read from, or one made of its fields.
render_frame(frame) ==
    LET symbol == IF IsSome(frame.function) THEN frame.function
                  ELSE IF frame.address # NoNumber THEN <<Hex(frame.address)>>
                  ELSE <<>>
        note(text) == symbol \o <<Blank, Open>> \o text \o <<Close>>
    IN  IF frame.raw # <<>> THEN frame.raw
        ELSE IF IsSome(frame.file) /\ frame.line # NoNumber
        THEN note(frame.file \o <<Colon, Dec(frame.line)>>)
        ELSE IF IsSome(frame.file) THEN note(frame.file)
        ELSE IF IsSome(frame.module) THEN note(frame.module)
        ELSE symbol

\* FoldedFormat::write: the first value series, the others are dropped.
folded_write(profile) ==
    LET line(s) ==
            Join([i \in 1 .. Len(s.stack) |-> render_frame(profile.frames[s.stack[i] + 1])],
                 Semicolon)
            \o <<Blank, Dec(s.values[1]), NewLine>>
    IN  IF \E s \in ToSet(profile.samples) :
              s.values = <<>> \/ \E id \in ToSet(s.stack) : id >= Len(profile.frames)
        THEN Err
        ELSE Ok(FlattenSeq([i \in 1 .. Len(profile.samples) |-> line(profile.samples[i])]))
=============================================================================
