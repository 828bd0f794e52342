------------------------------ MODULE DbgHelp ------------------------------
(***************************************************************************)
(* windows/symbolize.rs: what the Windows driver makes of the answers of   *)
(* DbgHelp, which is not this repository's code: the symbol nearest below  *)
(* an address in the module around it, the module, and the source line.    *)
(*                                                                         *)
(* A session is [modules]: each module [name, start, end, symbols, lines]. *)
(* A symbol with debug information has a size; one taken from the export   *)
(* table has none.                                                         *)
(***************************************************************************)
EXTENDS Symbolize

CONSTANT EXPORT_MAX_DISPLACEMENT

ASSUME DisplacementAssumption == EXPORT_MAX_DISPLACEMENT \in Nat

DbgSymbols == [at : Nat, size : Nat, name : STRING, export : BOOLEAN]
DbgLines == [at : Nat, end : Nat, source : [file : {NoName} \cup STRING, line : Nat]]
DbgModules == [name : Seq(STRING), start : Nat, end : Nat,
               symbols : SUBSET DbgSymbols, lines : SUBSET DbgLines]

\* Modules are loaded next to each other; of their symbols nothing is assumed.
IsSession(session) ==
    /\ session.modules \subseteq DbgModules
    /\ \A m, n \in session.modules : m # n => m.end <= n.start \/ n.end <= m.start

ModulesAt(session, ip) == {m \in session.modules : m.start <= ip /\ ip < m.end}

\* SymFromAddr: the nearest symbols at or below ip; any of them if several start
\* together.
SymFromAddr(session, ip) ==
    UNION {{s \in m.symbols : s.at <= ip /\ \A t \in m.symbols : t.at <= ip => t.at <= s.at} :
               m \in ModulesAt(session, ip)}

\* Mutant of Trusted: an export reaches to the next one.
TrustedForever(sym, displacement) == sym.size # 0 => displacement < sym.size

\* function_at believes a symbol within its size, and an export for a while.
Trusted(sym, displacement) ==
    /\ sym.size # 0 => displacement < sym.size
    /\ sym.size = 0 /\ sym.export => displacement <= EXPORT_MAX_DISPLACEMENT
    /\ sym.name # ""

function_named(session, ip) ==
    {s.name : s \in {t \in SymFromAddr(session, ip) : Trusted(t, ip - t.at)}}

module_at(session, ip) ==
    LET names == {m.name : m \in ModulesAt(session, ip)} \ {<<>>}
    IN  IF names = {} THEN NoModule ELSE CHOOSE n \in names : TRUE

\* line_at: a line number may come without its file.
line_at(session, ip) ==
    LET found == UNION {{l.source : l \in {k \in m.lines : k.at <= ip /\ ip < k.end}} :
                            m \in ModulesAt(session, ip)}
    IN  IF found = {} THEN NoSource ELSE CHOOSE s \in found : TRUE

\* Symbolizer::resolve; raw is the function's name, or else the address.
resolve_session(session, ip) ==
    [function |-> TheName(function_named(session, ip)),
     module |-> module_at(session, ip),
     source |-> line_at(session, ip),
     address |-> ip]

-----------------------------------------------------------------------------
\* The reference: a name is that of a function around the address, or of an export
\* close below it with nothing between; and an address inside a function with debug
\* information gets its name.
NamedByDbgHelp(session, ip, name) ==
    LET symbols == UNION {m.symbols : m \in ModulesAt(session, ip)} IN
    /\ name # NoName =>
          \E s \in symbols :
              /\ s.name = name /\ s.at <= ip
              /\ IF s.size = 0
                 THEN /\ s.export => ip <= s.at + EXPORT_MAX_DISPLACEMENT
                      /\ \A t \in symbols : t.at <= s.at \/ ip < t.at
                 ELSE ip < s.at + s.size
    /\ (\A s, t \in symbols : s # t => ~(s.at <= t.at /\ t.at < s.at + s.size)) =>
          \A s \in symbols :
              s.name # "" /\ s.at <= ip /\ ip < s.at + s.size => name = s.name
=============================================================================
