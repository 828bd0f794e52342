------------------------------- MODULE Pprof -------------------------------
(***************************************************************************)
(* pprof/mod.rs: profiles as perftools.profiles messages.                  *)
(*                                                                         *)
(* A file is [gzip, cut, fields]: the fields of the message, <<tag, value>>,*)
(* a field being what the decoder takes or leaves as a whole; the encoder  *)
(* writes them in the order of their tags.  Of a compressed file that was  *)
(* cut, the fields that are left come before an end that never comes.      *)
(***************************************************************************)
EXTENDS Profile

CONSTANT MAX_DECOMPRESSED  \* fields of a compressed file that are looked at

ASSUME PprofAssumption == MAX_DECOMPRESSED \in Nat \ {0}

Tags == <<"sample_type", "sample", "mapping", "location", "function", "string_table">>

\* What each field may hold.
FieldTypes ==
    [sample_type |-> [type : Int, unit : Int],
     sample |-> [location_id : Seq(Nat), value : Seq(Int)],
     mapping |-> [id : Nat, filename : Int],
     location |-> [id : Nat, mapping_id : Nat, address : Nat,
                   line : Seq([function_id : Nat, line : Int])],
     function |-> [id : Nat, name : Int, filename : Int],
     string_table |-> Text]

Fields ==
    ({"sample_type"} \X FieldTypes.sample_type) \cup ({"sample"} \X FieldTypes.sample)
    \cup ({"mapping"} \X FieldTypes.mapping) \cup ({"location"} \X FieldTypes.location)
    \cup ({"function"} \X FieldTypes.function)
    \cup ({"string_table"} \X FieldTypes.string_table)

Messages == [gzip : BOOLEAN, cut : BOOLEAN, fields : Seq(Fields)]

\* Mutant of encode: the strings come before what refers to them.
EncodeStringsFirst(proto) ==
    LET order == <<"string_table">> \o Front(Tags) IN
    FlattenSeq([t \in 1 .. Len(order) |->
        [i \in 1 .. Len(proto[order[t]]) |-> <<order[t], proto[order[t]][i]>>]])

\* prost's encoder
encode(proto) ==
    FlattenSeq([t \in 1 .. Len(Tags) |->
        [i \in 1 .. Len(proto[Tags[t]]) |-> <<Tags[t], proto[Tags[t]][i]>>]])

\* prost's decoder
decode(fields) ==
    [tag \in ToSet(Tags) |->
        LET these == Only(fields, LAMBDA f : f[1] = tag)
        IN  [i \in 1 .. Len(these) |-> these[i][2]]]

\* Mutant of decode_payload: what could be decompressed is enough.
decode_what_is_there(file) ==
    IF file.gzip /\ Len(file.fields) >= MAX_DECOMPRESSED
    THEN Ok(SubSeq(file.fields, 1, MAX_DECOMPRESSED))
    ELSE Ok(file.fields)

\* Only a compressed payload is capped; at the cap nothing more is looked at, below
\* it the stream has to end as it should.
decode_payload(file) ==
    IF file.gzip /\ Len(file.fields) >= MAX_DECOMPRESSED
    THEN Ok(SubSeq(file.fields, 1, MAX_DECOMPRESSED))
    ELSE IF file.gzip /\ file.cut THEN Err
    ELSE Ok(file.fields)

Texts(opt) == IF IsSome(opt) THEN opt ELSE <<>>

\* Mutant of HasLine: a line number alone is not worth a line.
HasLineIfNamed(frame) == IsSome(frame.function) \/ IsSome(frame.file)

HasLine(frame) == IsSome(frame.function) \/ IsSome(frame.file) \/ frame.line # NoNumber

\* The string table: the empty string, then each string as it is first needed.
StringTable(profile) ==
    LET kinds == FlattenSeq([i \in 1 .. Len(profile.value_kinds) |->
                     <<profile.value_kinds[i].kind, profile.value_kinds[i].unit>>])
        ofFrame(f) == (IF IsSome(f.module) THEN <<f.module>> ELSE <<>>)
                      \o (IF HasLine(f) THEN <<Texts(f.function), Texts(f.file)>> ELSE <<>>)
    IN  Interned(<<<<>>>> \o kinds \o
                 FlattenSeq([i \in 1 .. Len(profile.frames) |-> ofFrame(profile.frames[i])]))

\* intern_mapping, of every frame in turn: the modules in the order first seen.
Modules(profile) ==
    LET of == Only(profile.frames, LAMBDA f : IsSome(f.module))
    IN  Interned([i \in 1 .. Len(of) |-> of[i].module])

\* Mutant of LocationIds: the stack is written root first.
LocationIdsRootFirst(s) == [j \in 1 .. Len(s.stack) |-> s.stack[j] + 1]

\* Leaf first, each id one more than its frame's index.
LocationIds(s) == Reverse([j \in 1 .. Len(s.stack) |-> s.stack[j] + 1])

\* Each frame becomes the location, and if it needs one the function, of its id.
convert_to_proto(profile) ==
    LET strings == StringTable(profile)
        modules == Modules(profile)
        str(text) == IndexOf(strings, text) - 1
        lined == Only(Positions(profile.frames), LAMBDA i : HasLine(profile.frames[i]))
        number(n) == IF n = NoNumber THEN 0 ELSE n
        location(i, f) ==
            [id |-> i,
             mapping_id |-> IF IsSome(f.module) THEN IndexOf(modules, f.module) ELSE 0,
             address |-> number(f.address),
             line |-> IF HasLine(f) THEN <<[function_id |-> i, line |-> number(f.line)]>>
                      ELSE <<>>]
        function(i, f) ==
            [id |-> i, name |-> str(Texts(f.function)), filename |-> str(Texts(f.file))]
    IN  [sample_type |-> [i \in 1 .. Len(profile.value_kinds) |->
             [type |-> str(profile.value_kinds[i].kind),
              unit |-> str(profile.value_kinds[i].unit)]],
         sample |-> [i \in 1 .. Len(profile.samples) |->
             [location_id |-> LocationIds(profile.samples[i]),
              value |-> profile.samples[i].values]],
         mapping |-> [i \in 1 .. Len(modules) |-> [id |-> i, filename |-> str(modules[i])]],
         location |-> [i \in 1 .. Len(profile.frames) |-> location(i, profile.frames[i])],
         function |-> [i \in 1 .. Len(lined) |-> function(lined[i], profile.frames[lined[i]])],
         string_table |-> strings]

\* PprofFormat::write never refuses a profile.
pprof_write(profile) ==
    [gzip |-> TRUE, cut |-> FALSE, fields |-> encode(convert_to_proto(profile))]

InTable(strings, index) == index \in 0 .. Len(strings) - 1

\* Mutant of resolve_opt: the empty string is a name.
resolve_some(strings, index) == strings[index + 1]

\* resolve_opt: the empty string is None.
resolve_opt(strings, index) ==
    IF strings[index + 1] = <<>> THEN NoText ELSE strings[index + 1]

\* The entries with the id that a HashMap collected from them keeps: the last.
Named(entries, id) ==
    LET at == SelectLastInSeq(entries, LAMBDA e : e.id = id)
    IN  IF at = 0 THEN {} ELSE {entries[at]}

\* The strings a location needs.
LocationStrings(proto, location) ==
    {m.filename : m \in Named(proto.mapping, location.mapping_id)}
    \cup UNION {{f.name, f.filename} : f \in
            UNION {Named(proto.function, line.function_id) : line \in ToSet(location.line)}}

\* Mutant of line_number: the number need not fit the model's.
line_number_wide(line) == IF line > 0 THEN line ELSE NoNumber

line_number(line) == IF line \in 1 .. MaxLine THEN line ELSE NoNumber

nonzero(address) == IF address = 0 THEN NoNumber ELSE address

\* expand_location: a frame per inlined line, innermost first, or one for the address.
expand_location(proto, location) ==
    LET only(some) == IF some = {} THEN NoText
                      ELSE resolve_opt(proto.string_table, CHOOSE i \in some : TRUE)
        module == only({m.filename : m \in Named(proto.mapping, location.mapping_id)})
        inlined(i, line) ==
            [raw |-> <<>>,
             function |-> only({f.name : f \in Named(proto.function, line.function_id)}),
             file |-> only({f.filename : f \in Named(proto.function, line.function_id)}),
             line |-> line_number(line.line),
             module |-> module,
             address |-> IF i = 1 THEN nonzero(location.address) ELSE NoNumber]
    IN  IF location.line = <<>>
        THEN <<[EmptyFrame EXCEPT !.module = module, !.address = nonzero(location.address)]>>
        ELSE [i \in 1 .. Len(location.line) |-> inlined(i, location.line[i])]

\* The frames of a sample's locations, leaf first, turned round.
Gathered(expansions) == Reverse(FlattenSeq(expansions))

\* Mutant of Readable: the number of values is not looked at.
ReadableAnyArity(proto, known, s) == ToSet(s.location_id) \subseteq known

\* What is asked of a sample, known being the locations' ids.
Readable(proto, known, s) ==
    /\ Len(s.value) = Len(proto.sample_type)
    /\ ToSet(s.location_id) \subseteq known

\* A location is read once, where its id first occurs; the others are not looked at.
LocationsRead(proto) ==
    LET firsts == Only(Positions(proto.location),
                      LAMBDA i : \A j \in 1 .. i - 1 : proto.location[j].id # proto.location[i].id)
    IN  [i \in 1 .. Len(firsts) |-> proto.location[firsts[i]]]

\* The strings that have to be in the table.
NeededStrings(proto, locations) ==
    (UNION {{k.type, k.unit} : k \in ToSet(proto.sample_type)})
    \cup (UNION {LocationStrings(proto, l) : l \in ToSet(locations)})

convert_from_proto(proto) ==
    LET locations == LocationsRead(proto)
        expanded == [i \in 1 .. Len(locations) |-> expand_location(proto, locations[i])]
        table == Interned(FlattenSeq(expanded))
        at(id) == SelectInSeq(locations, LAMBDA l : l.id = id)
        stack(s) == Gathered([j \in 1 .. Len(s.location_id) |-> expanded[at(s.location_id[j])]])
    IN  IF \/ \E index \in NeededStrings(proto, locations) : ~InTable(proto.string_table, index)
           \/ \E s \in ToSet(proto.sample) :
                 ~Readable(proto, {l.id : l \in ToSet(locations)}, s)
        THEN Err
        ELSE Ok([frames |-> table,
                 samples |-> [i \in 1 .. Len(proto.sample) |->
                     [stack |-> [j \in 1 .. Len(stack(proto.sample[i])) |->
                                     IndexOf(table, stack(proto.sample[i])[j]) - 1],
                      values |-> proto.sample[i].value]],
                 value_kinds |-> [i \in 1 .. Len(proto.sample_type) |->
                     [kind |-> proto.string_table[proto.sample_type[i].type + 1],
                      unit |-> proto.string_table[proto.sample_type[i].unit + 1]]]])

\* PprofFormat::read
pprof_read(file) ==
    LET payload == decode_payload(file)
    IN  IF payload = Err THEN Err ELSE convert_from_proto(decode(payload[1]))

looks_like_pprof(proto) ==
    /\ proto.string_table # <<>> /\ Head(proto.string_table) = <<>>
    /\ \/ proto.sample_type # <<>> \/ proto.sample # <<>> \/ Len(proto.string_table) > 1

\* probe_content: likely, or nothing.
pprof_probe(file) ==
    LET payload == decode_payload(file)
    IN  IF payload # Err /\ looks_like_pprof(decode(payload[1])) THEN "Likely" ELSE "None"
=============================================================================
