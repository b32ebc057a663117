----------------------------- MODULE KabiLoader -----------------------------
(***************************************************************************)
(* The Linux module loader of selinos_kabi_module.c and its two users:     *)
(* digest, header and sections, import CRCs, layout, relocation, entry     *)
(* points; modld stops there, modexec calls them.  The content of the      *)
(* image is chosen where it is read first.  Sizes count records, or words  *)
(* of four bytes; sums stay far below the width of an address.             *)
(***************************************************************************)
EXTENDS Integers, Sequences, FiniteSets, FiniteSetsExt

CONSTANTS
  Sections,      \* the section headers that may be met
  Symbols,       \* the symbols that may be met
  Relocations,   \* the relocation records that may be met
  Records,       \* the __versions records that may be met
  Exports,       \* the export table: name -> [crc, address]
  LoadBase,      \* the address of module_memory
  Memory,        \* its size
  Reach,         \* 2^31: a signed 32-bit value is in -Reach..Reach-1
  MaxSections    \* SELINOS_MODULE_MAX_SECTIONS

ASSUME MemoryAssumption ==
  /\ {LoadBase, Memory, Reach, MaxSections} \subseteq Nat \ {0}
  /\ \A n \in DOMAIN Exports : Exports[n].address \in Nat

\* `inFile': the bytes are in the image; `whole': the entry size and count fit;
\* `linked': the link names what it should.
ASSUME ContentsAssumption ==
  /\ Sections \subseteq [type : {"DATA", "SYMTAB", "RELA"}, versions : BOOLEAN,
                         alloc : BOOLEAN, size : Nat, align : Nat, info : Nat,
                         inFile : BOOLEAN, whole : BOOLEAN, linked : BOOLEAN]
  /\ Symbols \subseteq [name : STRING, shndx : Nat, value : Nat]
  /\ Relocations \subseteq [symbol : Nat \ {0}, type : STRING, offset : Nat, addend : Int]

VARIABLES
  program,     \* constant: "modld" or "modexec"
  at,          \* the stage
  sections,    \* the section headers read
  checked,     \* the version records verified
  base,        \* section_addresses, for the sections laid out so far
  used,        \* bytes of module_memory in use
  symbols,     \* the symbol table
  i, j,        \* the section and the record the loops are at
  patch,       \* the last relocation applied and the field written for it
  entry        \* init_module and cleanup_module

image == <<sections, symbols>>
layout == <<base, used>>
vars == <<program, at, image, checked, layout, i, j, patch, entry>>

None == [section |-> 0]

Init ==
  /\ program \in {"modld", "modexec"} /\ at = "digest"
  /\ sections = <<>> /\ symbols = <<>> /\ checked = {}
  /\ base = <<>> /\ used = 0 /\ i = 1 /\ j = 1
  /\ patch = None /\ entry = [init |-> 0, cleanup |-> 0]

-----------------------------------------------------------------------------
Refused == at' = "exited"

Digest ==
  /\ at = "digest"
  /\ at' = "parse" \/ Refused
  /\ UNCHANGED <<program, image, checked, layout, i, j, patch, entry>>

\* selinos_kabi_parse_module; relocation runs it again on the same bytes.
Header ==
  /\ at = "parse" /\ sections = <<>> /\ Refused
  /\ UNCHANGED <<program, image, checked, layout, i, j, patch, entry>>

ParseSection ==
  /\ at = "parse" /\ Len(sections) <= MaxSections
  /\ \E s \in Sections :
       IF ~s.inFile \/ (s.type = "SYMTAB" /\ ~s.whole)
         THEN Refused /\ UNCHANGED sections
         ELSE sections' = Append(sections, s) /\ UNCHANGED at
  /\ UNCHANGED <<program, symbols, checked, layout, i, j, patch, entry>>

VersionSections == {k \in 1..Len(sections) : sections[k].versions}

Metadata ==
  /\ at = "parse" /\ sections # <<>>
  /\ Refused \/ (VersionSections # {} /\ at' = "versions")
  /\ UNCHANGED <<program, image, checked, layout, i, j, patch, entry>>

Matches(r) == r.name \in DOMAIN Exports /\ Exports[r.name].address # 0
              /\ r.crc = Exports[r.name].crc

\* selinos_kabi_verify_module_versions: the first __versions section only.
Version ==
  /\ at = "versions"
  /\ LET s == sections[Min(VersionSections)] IN
     IF s.size = 0 \/ ~s.whole
       THEN Refused /\ UNCHANGED <<checked, j>>
       ELSE \E r \in Records :
              IF ~Matches(r)
                THEN Refused /\ UNCHANGED <<checked, j>>
                ELSE /\ checked' = checked \cup {r}
                     /\ IF j < s.size THEN j' = j + 1 /\ UNCHANGED at
                        ELSE j' = 1 /\ at' = "layout"
  /\ UNCHANGED <<program, image, layout, i, patch, entry>>

-----------------------------------------------------------------------------
PowerOfTwo(n) == n \in {2 ^ k : k \in 0..n}
\* align_offset: the alignments it takes, and its result
Alignable(align) == align = 0 \/ (PowerOfTwo(align) /\ align <= Memory)
\* Deviation: the offset is rounded down.
AlignDown(n, align) ==
  LET a == IF align = 0 THEN 1 ELSE align IN (n \div a) * a
AlignUp(n, align) ==
  LET a == IF align = 0 THEN 1 ELSE align IN ((n + a - 1) \div a) * a

Room(s, aligned) == aligned <= Memory /\ s.size <= Memory - aligned

Occupies(s) == s.alloc /\ s.size # 0

Layout ==
  /\ at = "layout" /\ Len(base) < Len(sections)
  /\ LET s == sections[Len(base) + 1]
         aligned == AlignUp(used, s.align)
     IN IF Len(sections) > MaxSections
          THEN Refused /\ UNCHANGED layout
          ELSE IF ~Occupies(s)
          THEN base' = Append(base, 0) /\ UNCHANGED <<at, used>>
          ELSE IF ~Alignable(s.align) \/ ~Room(s, aligned)
          THEN Refused /\ UNCHANGED layout
          ELSE base' = Append(base, LoadBase + aligned) /\ used' = aligned + s.size
               /\ UNCHANGED at
  /\ UNCHANGED <<program, image, checked, i, j, patch, entry>>

SymbolTables == {k \in 1..Len(sections) : sections[k].type = "SYMTAB"}

SymbolTable ==
  /\ at = "layout" /\ Len(base) = Len(sections)
  /\ IF Cardinality(SymbolTables) # 1 \/ \E k \in SymbolTables : ~sections[k].linked
       THEN Refused /\ UNCHANGED symbols
       ELSE /\ at' = "relocate"
            /\ symbols' \in [1..sections[Min(SymbolTables)].size -> Symbols]
  /\ UNCHANGED <<program, sections, checked, layout, i, j, patch, entry>>

-----------------------------------------------------------------------------
Defined(y) == y.shndx # 0
\* symbol_runtime_address, and when it fails; resolving is a table lookup
Resolvable(y) ==
  IF Defined(y) THEN y.shndx <= Len(sections) /\ base[y.shndx] # 0
  ELSE y.name \in DOMAIN Exports /\ Exports[y.name].address # 0
AddressOf(y) ==
  IF Defined(y) THEN base[y.shndx] + y.value ELSE Exports[y.name].address

Width(type) == IF type = "64" THEN 2 ELSE 1
\* Deviation: only the first word is required to be in the section.
StartFits(r, target) == r.offset < target.size
Fits(r, target) == r.offset <= target.size /\ Width(r.type) <= target.size - r.offset

Relative == {"PC32", "PLT32"}
ValueOf(r, place) ==
  AddressOf(symbols[r.symbol]) + r.addend - (IF r.type \in Relative THEN place ELSE 0)
\* Deviation: the upper end is taken for the unsigned one.
UnsignedOk(v) == v >= -Reach /\ v <= 2 * Reach - 1
SignedOk(v) == v >= -Reach /\ v <= Reach - 1

Apply(s, r) ==
  LET v == ValueOf(r, base[s.info] + r.offset) IN
  IF r.symbol > Len(symbols) \/ ~Fits(r, sections[s.info])
       \/ ~Resolvable(symbols[r.symbol])
    THEN Refused /\ UNCHANGED <<j, patch>>
    ELSE IF r.type \notin Relative \cup {"64", "32S"} \/ (r.type # "64" /\ ~SignedOk(v))
    THEN Refused /\ UNCHANGED <<j, patch>>
    ELSE /\ patch' = [section |-> s.info, record |-> r,
                      field |-> IF r.type = "64" THEN v ELSE v % (2 * Reach)]
         /\ j' = j + 1 /\ UNCHANGED at

Skip == i' = i + 1 /\ UNCHANGED at

Relocate ==
  /\ at = "relocate" /\ i <= Len(sections)
  /\ LET s == sections[i] IN
     IF s.type # "RELA"
       THEN i' = i + 1 /\ UNCHANGED <<at, j, patch>>
       ELSE IF s.info \notin 1..Len(sections) \/ ~s.linked \/ ~s.whole
       THEN Refused /\ UNCHANGED <<i, j, patch>>
       ELSE IF ~Occupies(sections[s.info])
       THEN Skip /\ UNCHANGED <<j, patch>>
       ELSE IF j > s.size
       THEN i' = i + 1 /\ j' = 1 /\ UNCHANGED <<at, patch>>
       ELSE UNCHANGED i /\ \E r \in Relocations : Apply(s, r)
  /\ UNCHANGED <<program, image, checked, layout, entry>>

\* The symbols an entry point may come from; the last one is taken.
Candidates(n) ==
  {k \in 1..Len(symbols) : symbols[k].name = n /\ Defined(symbols[k])
                            /\ Resolvable(symbols[k])}
LastOf(S) == {k \in S : \A l \in S : l <= k}

\* Deviation: the value is taken without its section being looked at.
RawEntry(n) ==
  LET all == {k \in 1..Len(symbols) : symbols[k].name = n}
  IN IF all = {} THEN {0} ELSE {LoadBase + symbols[k].value : k \in LastOf(all)}
\* Deviation: the search stops at the first candidate.
FirstEntry(n) ==
  IF Candidates(n) = {} THEN {0} ELSE {AddressOf(symbols[Min(Candidates(n))])}
\* The one address it gets, 0 if there is no candidate.
Entry(n) ==
  IF Candidates(n) = {} THEN {0} ELSE {AddressOf(symbols[k]) : k \in LastOf(Candidates(n))}

EntryPoints ==
  /\ at = "relocate" /\ i > Len(sections)
  /\ entry' \in [init : Entry("init_module"), cleanup : Entry("cleanup_module")]
  /\ at' = IF entry'.init = 0 \/ entry'.cleanup = 0 THEN "exited"
           ELSE IF program = "modld" THEN "running" ELSE "init"
  /\ UNCHANGED <<program, image, checked, layout, i, j, patch>>

\* modexec is inside the module; what it called returns.
ModuleReturns ==
  /\ \/ at = "init" /\ (at' = "cleanup" \/ Refused)
     \/ at = "cleanup" /\ at' = "running"
  /\ UNCHANGED <<program, image, checked, layout, i, j, patch, entry>>

Next ==
  \/ Digest \/ Header \/ ParseSection \/ Metadata \/ Version
  \/ Layout \/ SymbolTable \/ Relocate \/ EntryPoints \/ ModuleReturns

Spec == Init /\ [][Next]_vars

-----------------------------------------------------------------------------
\* Every variable keeps its type.
TypeOK ==
  /\ program \in {"modld", "modexec"}
  /\ at \in {"digest", "parse", "versions", "layout", "relocate", "init", "cleanup",
             "running", "exited"}
  /\ sections \in Seq(Sections) /\ Len(sections) <= MaxSections + 1
  /\ symbols \in Seq(Symbols) /\ checked \subseteq Records
  /\ base \in Seq(Nat) /\ Len(base) <= Len(sections) /\ used \in 0..Memory
  /\ i \in 1..Len(sections) + 1 /\ j \in Nat \ {0}
  /\ patch.section \in 0..Len(sections)
  /\ entry \in [init : Nat, cleanup : Nat]

Aligned(offset, align) == offset % (IF align = 0 THEN 1 ELSE align) = 0

Placed == {k \in 1..Len(base) : base[k] # 0}

\* Whatever the sizes and alignments, the sections laid out lie in module_memory,
\* at the alignment they asked for, and no two of them share a word.
PlacedApart ==
  \A k \in Placed :
    /\ Aligned(base[k] - LoadBase, sections[k].align)
    /\ base[k] >= LoadBase /\ base[k] + sections[k].size <= LoadBase + used
    /\ \A l \in Placed :
         k < l => base[k] + sections[k].size <= base[l]

\* A relocation writes inside the section it names and nowhere else.
WritesStayInside ==
  patch.section # 0 =>
    LET r == patch.record IN
    /\ patch.section \in Placed
    /\ r.offset + Width(r.type) <= sections[patch.section].size

\* The field a relocation leaves, sign-extended as the processor reads it, is the
\* symbol's address plus the addend, relative to the place or absolute.
RelocationIsExact ==
  patch.section # 0 =>
    LET r == patch.record
        v == ValueOf(r, base[patch.section] + r.offset)
    IN IF r.type = "64" THEN patch.field = v
       ELSE v = IF patch.field < Reach THEN patch.field ELSE patch.field - 2 * Reach

\* Symbol k of the module's table defines a function n in a section laid out.
Defines(k, n) ==
  symbols[k].name = n /\ Defined(symbols[k]) /\ symbols[k].shndx \in Placed

\* Address a is what the module's table says of n; of several definitions the
\* last one counts, whatever else carries the name (selinos_kabi_module.c:515-533).
IsEntryOf(a, n) ==
  \E k \in 1..Len(symbols) :
    /\ Defines(k, n)
    /\ a = base[symbols[k].shndx] + symbols[k].value
    /\ \A l \in k + 1..Len(symbols) : ~Defines(l, n)

\* The module's code is entered only by modexec, when the table's CRCs matched
\* every record that was read, and at the init_module and the cleanup_module its
\* own table defines in sections laid out: never at an import, an absolute symbol
\* or one of a section left out that has the name.
EntryEarned ==
  at \in {"init", "cleanup"} =>
    /\ program = "modexec" /\ checked # {}
    /\ \A r \in checked : r.crc = Exports[r.name].crc
    /\ IsEntryOf(entry.init, "init_module")
    /\ IsEntryOf(entry.cleanup, "cleanup_module")
=============================================================================
