------------------------------ MODULE Convert ------------------------------
(***************************************************************************)
(* Conversions (cli/main.rs, registry.rs): a file is detected and read,    *)
(* and what was read, or captured, is written in a format of its name or   *)
(* of its file's extension; what was written, or the part of it that a     *)
(* write that failed has left, may be converted again.                     *)
(***************************************************************************)
EXTENDS Folded, Pprof, Speedscope

CONSTANTS
    Foreign,    \* files of other programs: [extension, form, text, message]
    Captured,   \* profiles a capture may return
    Requests,   \* values of --from, "none" without it
    Outputs,    \* destinations: [to, extension], to = "none" without --to
    MaxTrips    \* bound on the files written

ASSUME ConvertAssumption == MaxTrips \in Nat /\ "none" \in Requests

IsFile(f) == f.form \in {"text", "message"} /\ f.text \in Text /\ f.message \in Messages

\* Any bytes, as far as the readers tell them apart.
ASSUME ForeignAssumption == \A f \in Foreign : IsFile(f)

\* No frame is without a name (speedscope.rs), if only one made of its address.
AllNamed(p) == \A f \in ToSet(p.frames) : frame_name(f) # <<>>

\* What a capture ends with (resolve of the two symbolizers): a frame's label is the name
\* that was found, which is not empty, or its address.
ASSUME CapturedAssumption ==
    \A p \in Captured : p \in Profiles /\ validate(p) /\ AllNamed(p)

VARIABLES
    pc,         \* "file" | "profile" | "rejected" | "exported" | "refused"
    file,       \* the file last written, or a foreign one
    profile,    \* the profile last read or captured
    from,       \* the format it was read in, or "none"
    asked,      \* history: the --from of that, "none" where it was detected
    looked,     \* history: what the folded prober made of it then, or "none"
    damaged,    \* history: not all of file was written
    last,       \* history: the profile that was written to file
    lastFrom,   \* history: the format that one was read in
    via,        \* history: the format file was written in, or "none"
    export,     \* the speedscope file written
    trips

vars == <<pc, file, profile, from, asked, looked, damaged, last, lastFrom, via, export, trips>>

NoMessage == [gzip |-> FALSE, cut |-> FALSE, fields |-> <<>>]
NoFile == [extension |-> "none", form |-> "text", text |-> <<>>, message |-> NoMessage]
NoProfile == [frames |-> <<>>, samples |-> <<>>, value_kinds |-> <<>>]
NoExport == [frames |-> <<>>, profiles |-> <<>>]

InputExtensions == [folded |-> {"folded", "collapsed"}, pprof |-> {"pprof", "pb"}]
OutputExtensions ==
    [folded |-> {"folded", "collapsed"}, pprof |-> {"pprof", "pb", "gz"},
     json |-> {"json"}, speedscope |-> {}]

-----------------------------------------------------------------------------
(* Registry                                                                *)

Rank == [None |-> 0, Weak |-> 1, Extension |-> 2, Likely |-> 3]

\* Mutant of raised: the extension is worth more than the content.
raised_above(confidence, f, format) ==
    IF f.extension \in InputExtensions[format] THEN 4 ELSE Rank[confidence]

\* The confidence once the extension was looked at.
raised(confidence, f, format) ==
    IF f.extension \in InputExtensions[format] /\ Rank[confidence] < Rank["Extension"]
    THEN Rank["Extension"]
    ELSE Rank[confidence]

\* What the folded prober may make of f.  The bytes of a message are decoded lossily, and
\* where its lines end is a matter of chance: there may be only an unfinished one, which
\* is not judged, or one without a count, or each may end in a blank and digits.
FoldedConfidence(f) ==
    IF f.form = "text" THEN {folded_probe(f.text)} ELSE {"None", "Weak", "Likely"}

PprofConfidence(f) == IF f.form = "text" THEN "None" ELSE pprof_probe(f.message)

\* Registry::by_name
by_name(name) == IF name \in DOMAIN InputExtensions THEN name ELSE "none"

\* Registry::probe: folded is registered first and keeps ties.
probe(f, confidence) ==
    LET folded == raised(confidence, f, "folded")
        pprof == raised(PprofConfidence(f), f, "pprof")
    IN  IF folded = 0 /\ pprof = 0 THEN "none"
        ELSE IF pprof > folded THEN "pprof"
        ELSE "folded"

\* InputFormat::read.  A message is not UTF-8; of texts only the empty one is a message.
read(f, format) ==
    CASE f.form = "text" /\ format = "folded" -> folded_read(f.text)
      [] f.form = "text" /\ format = "pprof" -> IF f.text = <<>> THEN Ok(NoProfile) ELSE Err
      [] f.form = "message" /\ format = "folded" -> Err
      [] f.form = "message" /\ format = "pprof" -> pprof_read(f.message)

\* resolve_output: --to, or the extension, or json.
resolve_output(out) ==
    IF out.to # "none" THEN out.to
    ELSE LET by == {f \in DOMAIN OutputExtensions : out.extension \in OutputExtensions[f]}
         IN  IF by = {} THEN "json" ELSE CHOOSE f \in by : TRUE

-----------------------------------------------------------------------------
Init ==
    /\ \/ pc = "file" /\ file \in Foreign /\ profile = NoProfile
       \/ pc = "profile" /\ file = NoFile /\ profile \in Captured
    /\ from = "none" /\ asked = "none" /\ looked = "none" /\ via = "none" /\ lastFrom = "none"
    /\ damaged = FALSE
    /\ last = NoProfile /\ export = NoExport /\ trips = 0

\* load_profile: by its name, or detected.
load_profile ==
    /\ pc = "file"
    /\ \E requested \in Requests, confidence \in FoldedConfidence(file) :
          LET format == IF requested # "none" THEN by_name(requested) ELSE probe(file, confidence)
              result == IF format = "none" THEN Err ELSE read(file, format)
          IN  /\ pc' = IF result = Err THEN "rejected" ELSE "profile"
              /\ profile' = IF result = Err THEN NoProfile ELSE result[1]
              /\ from' = format /\ asked' = requested
              /\ looked' = IF requested = "none" THEN confidence ELSE "none"
    /\ UNCHANGED <<file, damaged, last, lastFrom, via, export, trips>>

\* What is left of a text: it may end within its last number.
TextsCut(text) ==
    LET prefixes == {SubSeq(text, 1, n) : n \in 0 .. Len(text) - 1}
        shorter(t) == IF t # <<>> /\ Last(t)[1] = "dec" /\ Last(t)[2] > 9
                      THEN Append(Front(t), Dec(Last(t)[2] \div 10)) ELSE t
    IN  prefixes \cup {shorter(t) : t \in prefixes}

\* What is left of a file whose write failed: nothing, or a part.  Less than the two
\* bytes that say gzip are taken by no reader, as is a stream that ends at once.
Cuts(f) ==
    IF f.form = "text" THEN {[f EXCEPT !.text = t] : t \in TextsCut(f.text)}
    ELSE {[f EXCEPT !.form = "text", !.message = NoMessage]}
         \cup {[f EXCEPT !.message.cut = TRUE, !.message.fields = SubSeq(@, 1, n)] :
                 n \in 0 .. Len(f.message.fields)}

\* write_output: the file becomes what the writer answered, or the write fails and a
\* part of it is there.
Written(out, format, text, message) ==
    LET whole == [extension |-> out.extension,
                  form |-> IF format = "folded" THEN "text" ELSE "message",
                  text |-> text, message |-> message]
    IN  /\ pc' = "file"
        /\ \/ file' = whole /\ damaged' = FALSE
           \/ file' \in Cuts(whole) /\ damaged' = TRUE
        /\ profile' = NoProfile
        /\ UNCHANGED export

Refused == pc' = "refused" /\ UNCHANGED <<file, damaged, profile, export>>

SaveFolded(out) ==
    LET result == folded_write(profile)
    IN  IF result = Err THEN Refused ELSE Written(out, "folded", result[1], NoMessage)

SavePprof(out) == Written(out, "pprof", <<>>, pprof_write(profile))

SaveSpeedscope ==
    LET result == speedscope_write(profile)
    IN  IF result = Err THEN Refused
        ELSE pc' = "exported" /\ export' = result[1] /\ UNCHANGED <<file, damaged, profile>>

\* JSON is the model itself.
SaveJson == pc' = "exported" /\ UNCHANGED <<file, damaged, profile, export>>

\* run_convert after load_profile, or run_record after the capture: an output format
\* that does not exist is found only now.
Save(out) ==
    /\ pc = "profile" /\ trips < MaxTrips
    /\ CASE resolve_output(out) = "folded" -> SaveFolded(out)
         [] resolve_output(out) = "pprof" -> SavePprof(out)
         [] resolve_output(out) = "speedscope" -> SaveSpeedscope
         [] resolve_output(out) = "json" -> SaveJson
         [] resolve_output(out) \notin DOMAIN OutputExtensions -> Refused
    /\ via' = resolve_output(out)
    /\ last' = profile /\ lastFrom' = from
    /\ from' = "none" /\ asked' = "none" /\ looked' = "none"
    /\ trips' = trips + 1

Next == load_profile \/ \E out \in Outputs : Save(out)

Spec == Init /\ [][Next]_vars

-----------------------------------------------------------------------------
(* Properties                                                              *)

\* Every variable is in its range: files and profiles are what the formats and the
\* model have fields for, and every line number of a profile is a u32.
TypeOK ==
    /\ pc \in {"file", "profile", "rejected", "exported", "refused"}
    /\ from \in {"none", "folded", "pprof"} /\ lastFrom \in {"none", "folded", "pprof"}
    /\ asked \in Requests /\ looked \in {"none"} \cup DOMAIN Rank /\ damaged \in BOOLEAN
    /\ via \in {"none"} \cup {resolve_output(out) : out \in Outputs}
    /\ trips \in 0 .. MaxTrips
    /\ IsFile(file) /\ profile \in Profiles /\ last \in Profiles

\* Readers produce valid profiles (model.rs), whatever the file says, and what was
\* read or captured can be written in every format there is: only the folded writer
\* may refuse, and then for a sample that has no value at all.
ReadIsWritable ==
    /\ pc = "profile" => validate(profile)
    /\ pc = "refused" /\ via \in DOMAIN OutputExtensions =>
          via = "folded" /\ \E s \in ToSet(last.samples) : s.values = <<>>

Stacks(p) == [i \in 1 .. Len(p.samples) |-> Stack(p, p.samples[i])]
Values(p) == [i \in 1 .. Len(p.samples) |-> p.samples[i].values]

\* A frame as far as a message can say it.
AsLocation(f) ==
    LET some(text) == IF text = <<>> THEN NoText ELSE text
        set(n) == IF n = 0 THEN NoNumber ELSE n
    IN  [raw |-> <<>>, function |-> some(f.function), file |-> some(f.file),
         line |-> set(f.line), module |-> some(f.module), address |-> set(f.address)]

ReadBack(format) == pc = "profile" /\ via = format

\* A whole pprof file within the decoder's limit is read by the reader of its name, and
\* under any extension it is found to be pprof, unless its bytes happen to look like folded
\* stacks as well (registry.rs:134: folded keeps the tie) or it has neither a series nor a
\* sample to be known by (pprof/mod.rs:398).  Taken for folded it is refused, never
\* misread.  What is read of it says what was written: each sample, its frames root
\* first, its values and their kinds; and what came from a pprof file goes through
\* another one without any change, frame table and ids included.  So does what is read
\* of a file that is cut, or longer than the limit, if it has a series: none is ever read
\* as a smaller profile.
PprofRoundTrip ==
    LET loaded == pc \in {"profile", "rejected"}
        whole == ~damaged /\ Len(file.message.fields) <= MAX_DECOMPRESSED
        known == last.value_kinds # <<>> \/ last.samples # <<>>
    IN  via = "pprof" /\ file.form = "message" =>
        /\ loaded /\ whole /\ asked = "pprof" => pc = "profile"
        /\ loaded /\ whole /\ asked = "none" /\ looked # "Likely" /\ known
           => pc = "profile"
        /\ pc = "profile" => from = "pprof"
        /\ pc = "profile" /\ (whole \/ last.value_kinds # <<>>) =>
           /\ Values(profile) = Values(last)
           /\ profile.value_kinds = last.value_kinds
           /\ Stacks(profile) = [i \in 1 .. Len(last.samples) |->
                  [j \in 1 .. Len(last.samples[i].stack) |-> AsLocation(Stacks(last)[i][j])]]
           /\ lastFrom = "pprof" => profile = last

\* A pprof file whose write failed is not read, by any reader and under any name,
\* unless nothing of it had been written, or the decoder's limit ends it before the
\* end that is missing.
CutPprofIsNoticed ==
    damaged /\ ReadBack("pprof") =>
        file.form = "text" \/ Len(file.message.fields) >= MAX_DECOMPRESSED

Labels(p) ==
    [i \in 1 .. Len(p.samples) |->
        [j \in 1 .. Len(p.samples[i].stack) |-> render_frame(Stacks(p)[i][j])]]

\* The labels folded can carry, in stacks it can carry.
Tame(p) ==
    \A i \in 1 .. Len(p.samples) :
        /\ p.samples[i].values # <<>> /\ p.samples[i].values[1] >= 0
        /\ p.samples[i].stack # <<>>
        /\ \A label \in ToSet(Labels(p)[i]) :
              /\ label # <<>> /\ Trim(label) = label
              /\ ~Contains(label, Semicolon) /\ ~Contains(label, NewLine)
        /\ Head(Labels(p)[i][1]) # Hash

\* f has one symbol and at most one kind of note, none of which looks like another; a
\* file without a name would be read as no file.
Canonical(f) ==
    LET notes(text) == \E i \in 1 .. Len(text) - 1 : text[i] = Blank /\ text[i + 1] = Open
    IN  /\ f.raw = <<>>
        /\ IsSome(f.function) <=> f.address = NoNumber
        /\ IsSome(f.function) => parse_frame(f.function).function = f.function
        /\ IsSome(f.file) <=> f.line # NoNumber
        /\ IsSome(f.file) => f.file # <<>> /\ ~IsSome(f.module) /\ ~notes(f.file)
        /\ IsSome(f.module) => split_file_line(f.module) = <<>> /\ ~notes(f.module)

\* A whole folded file written from tame labels is found to be one and read back, with
\* the same labels and the first value of each sample; and parse_frame undoes
\* render_frame, for a frame without a label of its own.
FoldedRoundTrip ==
    /\ via = "folded" /\ ~damaged /\ asked \in {"none", "folded"}
    /\ Tame(last) /\ last.samples # <<>> /\ pc \in {"profile", "rejected"}
    =>  /\ pc = "profile" /\ from = "folded"
        /\ Labels(profile) = Labels(last)
        /\ \A i \in 1 .. Len(last.samples) :
              /\ profile.samples[i].values = <<last.samples[i].values[1]>>
              /\ \A j \in 1 .. Len(last.samples[i].stack) :
                    LET f == Stacks(last)[i][j] IN
                    Canonical(f) => [Stacks(profile)[i][j] EXCEPT !.raw = <<>>] = f

\* A speedscope file has every series of the profile, with every weighted stack, and
\* no frame in it is without a name.
EverySeriesExported ==
    pc = "exported" /\ via = "speedscope" =>
        /\ Len(export.profiles) = Len(last.value_kinds)
        /\ \A k \in 1 .. Len(export.profiles) : \A i \in 1 .. Len(last.samples) :
              /\ export.profiles[k].weights[i] = last.samples[i].values[k]
              /\ export.profiles[k].samples[i] = last.samples[i].stack
              /\ \A id \in ToSet(last.samples[i].stack) : id < Len(export.frames)
        /\ \A f \in ToSet(export.frames) : f.name # <<>>
=============================================================================
