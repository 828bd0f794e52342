----------------------------- MODULE Symbolize -----------------------------
(***************************************************************************)
(* linux/symbolize.rs: from an instruction pointer to a frame, through the *)
(* snapshot of /proc/<pid>/maps and the symbol tables of the mapped files. *)
(*                                                                         *)
(* A space is what the resolver has to go by: [maps, files], the lines of  *)
(* the snapshot kept and the ELF files under the names they mention, as    *)
(* they are when they are read.  A path is the sequence of its parts,      *)
(* "/" first if it is absolute.                                            *)
(***************************************************************************)
EXTENDS Selection

NoName == "none"
NoModule == <<"none">>
NoSource == [file |-> NoName, line |-> 0]

(* What a space of the Linux symbolizer looks like.                        *)

Symbols == [vaddr : Nat, size : Nat, name : STRING, kind : STRING]
Segments == [offset : Nat, size : Nat, vaddr : Nat]
ElfFiles == [segments : Seq(Segments), symbols : Seq(Symbols), dynamic : Seq(Symbols)]
Regions == [start : Nat, end : Nat, offset : Nat, perms : SUBSET STRING, path : Seq(STRING)]

\* The kernel's lines are of distinct regions; of the files nothing is assumed.
IsLinuxSpace(space) ==
    /\ space.maps \in Seq(Regions)
    /\ \A i, j \in 1 .. Len(space.maps) :
          i < j => \/ space.maps[i].end <= space.maps[j].start
                   \/ space.maps[j].end <= space.maps[i].start
    /\ \A f \in DOMAIN space.files : f \in Seq(STRING) /\ space.files[f] \in ElfFiles

Absolute(path) == path # <<>> /\ path[1] = "/"
Deleted(path) == Last(path) = "(deleted)"

\* The path without its directories.
basename(path) == IF Absolute(path) THEN Tail(path) ELSE path

\* parse_maps, parse_map_line: only executable regions of files.
parse_maps(lines) ==
    Only(lines, LAMBDA l : "x" \in l.perms /\ Absolute(l.path))

-----------------------------------------------------------------------------
(* Module: one ELF file                                                    *)

\* Mutant of LoadedFuncs: objects count as functions.
LoadedFuncsAndObjects(file) ==
    Only(file.symbols \o file.dynamic, LAMBDA s : s.vaddr # 0 /\ s.name # "")

\* The function symbols of both tables; what is undefined has no address.
LoadedFuncs(file) ==
    Only(file.symbols \o file.dynamic,
         LAMBDA s : s.kind = "text" /\ s.vaddr # 0 /\ s.name # "")

LoadedSegments(file) == Only(file.segments, LAMBDA l : l.size > 0)

\* Module::load: at most one module.
load(files, path) ==
    IF ~Absolute(path) \/ Deleted(path) \/ Tail(path) \notin DOMAIN files
    THEN {}
    ELSE {[loads |-> LoadedSegments(files[Tail(path)]),
           funcs |-> LoadedFuncs(files[Tail(path)])]}

\* l comes first of those segments that hold the offset, once they are sorted,
\* stably, by their own.
Holds(l, offset) == l.offset <= offset /\ offset < l.offset + l.size
FirstHolding(loads, offset, i) ==
    /\ Holds(loads[i], offset)
    /\ \A j \in 1 .. Len(loads) :
          Holds(loads[j], offset) =>
              \/ loads[i].offset < loads[j].offset
              \/ loads[i].offset = loads[j].offset /\ i <= j

\* Mutant of file_offset_to_vaddr: the segment's offset is forgotten.
VaddrsUnshifted(loads, offset) ==
    {offset + loads[i].vaddr :
        i \in {j \in 1 .. Len(loads) : FirstHolding(loads, offset, j)}}

\* A set of at most one address.
file_offset_to_vaddr(loads, offset) ==
    {offset - loads[i].offset + loads[i].vaddr :
        i \in {j \in 1 .. Len(loads) : FirstHolding(loads, offset, j)}}

\* i is the last symbol at or below v once the table is sorted, stably, by address.
Nearest(funcs, v, i) ==
    /\ funcs[i].vaddr <= v
    /\ \A j \in 1 .. Len(funcs) :
          funcs[j].vaddr <= v =>
              \/ funcs[j].vaddr < funcs[i].vaddr
              \/ funcs[j].vaddr = funcs[i].vaddr /\ j <= i

\* Mutant of InSize: the end of a symbol is not looked at.
InAnySize(sym, v) == sym.vaddr <= v

\* A symbol of unknown size reaches as far as it is the nearest one.
InSize(sym, v) == sym.size = 0 \/ v < sym.vaddr + sym.size

\* The names the code may answer: none or one.
function_at(module, offset) ==
    {module.funcs[i].name : i \in
        {j \in 1 .. Len(module.funcs) :
            \E v \in file_offset_to_vaddr(module.loads, offset) :
                Nearest(module.funcs, v, j) /\ InSize(module.funcs[j], v)}}

TheName(names) == IF names = {} THEN NoName ELSE CHOOSE n \in names : TRUE

\* Symbolizer::resolve; raw is the function's name, or else the address.
resolve_mapped(space, ip) ==
    LET entry == Only(parse_maps(space.maps), LAMBDA m : m.start <= ip /\ ip < m.end)
    IN  IF entry = <<>>
        THEN [function |-> NoName, module |-> NoModule, source |-> NoSource, address |-> ip]
        ELSE LET m == entry[1]
                 offset == ip - m.start + m.offset
             IN  [function |-> TheName(UNION {function_at(module, offset) :
                                              module \in load(space.files, m.path)}),
                  module |-> basename(m.path),
                  source |-> NoSource,
                  address |-> ip]

-----------------------------------------------------------------------------
(* What a symbolizer ought to answer, without search order.                *)

\* Where the address lies in the file, according to the line and segment it is in.
LinkedAt(space, ip, f) ==
    LET lines == {m \in ToSet(space.maps) :
                     m.path = <<"/">> \o f /\ "x" \in m.perms /\ m.start <= ip /\ ip < m.end}
        offset(m) == ip - m.start + m.offset
        around(m) == {l \in ToSet(space.files[f].segments) : l.size > 0 /\ Holds(l, offset(m))}
    IN  UNION {{offset(m) - l.offset + l.vaddr : l \in around(m)} : m \in lines}

\* The named functions of a file, in either table; what is undefined has no address.
FunctionsOf(file) ==
    {s \in ToSet(file.symbols) \cup ToSet(file.dynamic) :
        s.kind = "text" /\ s.vaddr # 0 /\ s.name # ""}

\* sym of file f lies at ip, somewhere within its size.
Covers(space, ip, f, sym) ==
    \E v \in LinkedAt(space, ip, f) : sym.vaddr <= v /\ v < sym.vaddr + sym.size

\* sym, whose size nobody knows, is the last function before ip.
Reaches(space, ip, f, sym) ==
    /\ sym.size = 0
    /\ \E v \in LinkedAt(space, ip, f) :
          /\ sym.vaddr <= v
          /\ \A s \in FunctionsOf(space.files[f]) : s.vaddr <= sym.vaddr \/ v < s.vaddr

\* No function starts inside another one, at its start included.
Disjoint(funcs) ==
    \A s, t \in funcs : s # t => ~(s.vaddr <= t.vaddr /\ t.vaddr < s.vaddr + s.size)

\* A name is only given to an address inside that function, or after one of unknown
\* size; and where neither functions nor segments overlap, every address inside a
\* function gets its name.
Named(space, ip, f, name) ==
    LET funcs == FunctionsOf(space.files[f]) IN
    /\ name # NoName =>
          \E s \in funcs : s.name = name /\ (Covers(space, ip, f, s) \/ Reaches(space, ip, f, s))
    /\ Disjoint(funcs) /\ (\A v, w \in LinkedAt(space, ip, f) : v = w) =>
          \A s \in funcs : Covers(space, ip, f, s) => name = s.name
=============================================================================
