---------------------------- MODULE ElfSegments -----------------------------
(***************************************************************************)
(* selinos_elfrt_parse_image and the initial-load policy: the program      *)
(* headers of an ELF image in order, then its dynamic entries, then the    *)
(* names it needs.  The content of the image is chosen where it is read;   *)
(* a word wraps at WordSize, sizes of records are scaled.                  *)
(***************************************************************************)
EXTENDS Naturals, Sequences, FiniteSets

CONSTANTS
  WordSize,      \* the number of values of a word, a power of two (2^64)
  ImageSizes,    \* the image_size passed in
  Programs,      \* the program headers that may be met
  Entries,       \* the dynamic entries that may be met, each [tag, value]
  MaxPrograms,   \* bound: header->phnum (64 in the code)
  MaxLoads,      \* SELINOS_ELFRT_MAX_LOAD_SEGMENTS
  MaxNeeded,     \* SELINOS_ELFRT_MAX_NEEDED
  NameMax        \* SELINOS_ELFRT_INTERP_MAX and SELINOS_ELFRT_NEEDED_NAME_MAX

EhdrSize == 1
PhdrSize == 1
DynSize == 2
Word == 0..WordSize - 1

ProgramHeader ==
  [type : {"LOAD", "INTERP", "DYNAMIC", "other"}, flags : SUBSET {"W", "X"},
   offset : Word, vaddr : Word, filesz : Word, memsz : Word, align : Word]

ASSUME SizesAssumption ==
  /\ {WordSize, MaxPrograms, MaxLoads, MaxNeeded, NameMax} \subseteq Nat \ {0}
  /\ \A d \in 2..WordSize : WordSize % d = 0 => d % 2 = 0
  /\ ImageSizes \subseteq Word
ASSUME ContentsAssumption ==
  /\ Programs \subseteq ProgramHeader
  /\ \A e \in Entries : e.value \in Word

VARIABLES
  size,        \* constant: image_size
  interpOk,    \* constant: allow_interpreter
  phnum,       \* header->phnum
  at,          \* "header", "programs", "dynamic", "names" or "done"
  programs,    \* the program headers accepted so far
  dynamic,     \* where the dynamic entries not read yet begin and end
  tables,      \* DT_STRTAB and DT_STRSZ
  tags,        \* the tags met
  needed,      \* needed_offsets
  copied,      \* the names copied
  summary,     \* the counts and flags of struct selinos_elfrt_summary
  touched,     \* where the bytes read by the last step end, 0 if it read none
  verdict      \* "none", "OK" or an error, and the policy's

input == <<size, interpOk>>
scan == <<dynamic, tables, tags, needed, copied>>
vars == <<input, phnum, at, programs, scan, summary, touched, verdict>>

Cleared == [loads |-> 0, writable |-> 0, executable |-> 0, both |-> 0, dynamic |-> FALSE,
            interp |-> FALSE, rela |-> FALSE, textrel |-> FALSE]

Init ==
  /\ size \in ImageSizes /\ interpOk \in BOOLEAN
  /\ phnum = 0 /\ at = "header" /\ programs = <<>>
  /\ dynamic = [next |-> 0, end |-> 0] /\ tables = [strtab |-> 0, strsz |-> 0] /\ tags = {}
  /\ needed = <<>> /\ copied = 0
  /\ summary = Cleared /\ touched = 0 /\ verdict = "none"

-----------------------------------------------------------------------------
Minus(a, b) == (a + WordSize - b) % WordSize
Plus(a, b) == (a + b) % WordSize

\* Deviation: the sum is compared, and it may wrap.
RangeValidBySum(offset, length) == Plus(offset, length) <= size
RangeValid(offset, length) == offset <= size /\ length <= size - offset

\* is_power_of_two: the powers of two are the divisors of a larger one.
PowerOfTwo(n) == n > 0 /\ WordSize % n = 0

Done(v) ==
  /\ verdict' = v /\ at' = "done"

\* The identity of the file, then the table of program headers; `wrong' stands
\* for the fields compared with constants.
Header ==
  /\ at = "header"
  /\ \E wrong \in {"none", "ELF", "ARCH", "TYPE"}, n \in 0..MaxPrograms + 1, phoff \in Word :
       IF size < EhdrSize
         THEN Done("TRUNCATED") /\ touched' = 0 /\ UNCHANGED phnum
         ELSE IF wrong # "none"
         THEN Done(wrong) /\ touched' = EhdrSize /\ UNCHANGED phnum
         ELSE IF n \notin 1..MaxPrograms \/ ~RangeValid(phoff, n * PhdrSize)
         THEN Done("PROGRAM_HEADERS") /\ touched' = EhdrSize
              /\ UNCHANGED phnum
         ELSE /\ phnum' = n /\ at' = "programs"
              /\ touched' = phoff + n * PhdrSize
              /\ UNCHANGED verdict
  /\ UNCHANGED <<input, programs, scan, summary>>

Loads == {k \in 1..Len(programs) : programs[k].type = "LOAD"}
Count(b) == IF b THEN 1 ELSE 0

Congruent(p) ==
  p.align <= 1 \/ (PowerOfTwo(p.align) /\ Minus(p.vaddr, p.offset) % p.align = 0)

Counted(s, p) ==
  [s EXCEPT !.loads = @ + 1, !.writable = @ + Count("W" \in p.flags),
            !.executable = @ + Count("X" \in p.flags), !.both = @ + Count(p.flags = {"W", "X"})]

\* Deviation: the terminator is looked for where the source has ended.
LookedAtPastEnd(nul, available) == IF nul < NameMax THEN nul + 1 ELSE NameMax
\* How many bytes copy_bounded_string looks at before it stops
LookedAt(nul, available) ==
  IF nul < available /\ nul < NameMax THEN nul + 1
  ELSE IF available < NameMax THEN available ELSE NameMax

\* copy_bounded_string: the first NUL of the source is found before its end and
\* within the capacity, or it is not; what was looked at is read.
Copy(source, available, ok) ==
  /\ available > 0
  /\ \E nul \in 0..available :
       /\ touched' = source + LookedAt(nul, available)
       /\ ok = (nul < available /\ nul < NameMax)

\* One program header.
Load(p) ==
  /\ p.type = "LOAD"
  /\ IF p.filesz > p.memsz \/ ~RangeValid(p.offset, p.filesz) \/ ~Congruent(p)
       THEN Done("SEGMENT") /\ UNCHANGED <<programs, summary>>
       ELSE IF summary.loads = MaxLoads
       THEN Done("POLICY") /\ UNCHANGED <<programs, summary>>
       ELSE /\ summary' = Counted(summary, p) /\ programs' = Append(programs, p)
            /\ UNCHANGED <<at, verdict>>
  /\ touched' = 0 /\ UNCHANGED dynamic

Interp(p) ==
  /\ p.type = "INTERP"
  /\ IF summary.interp \/ ~interpOk \/ ~RangeValid(p.offset, p.filesz) \/ p.filesz = 0
       THEN Done("POLICY") /\ touched' = 0 /\ UNCHANGED <<programs, summary>>
       ELSE \E ok \in BOOLEAN :
              /\ Copy(p.offset, p.filesz, ok)
              /\ IF ok
                   THEN /\ summary' = [summary EXCEPT !.interp = TRUE]
                        /\ programs' = Append(programs, p) /\ UNCHANGED <<at, verdict>>
                   ELSE Done("POLICY") /\ UNCHANGED <<programs, summary>>
  /\ UNCHANGED dynamic

Dynamic(p) ==
  /\ p.type = "DYNAMIC"
  /\ IF summary.dynamic \/ ~RangeValid(p.offset, p.filesz) \/ p.filesz % DynSize # 0
       THEN Done("DYNAMIC") /\ UNCHANGED <<programs, summary, dynamic>>
       ELSE /\ summary' = [summary EXCEPT !.dynamic = TRUE]
            /\ programs' = Append(programs, p)
            /\ dynamic' = [next |-> p.offset, end |-> p.offset + p.filesz]
            /\ UNCHANGED <<at, verdict>>
  /\ touched' = 0

Other(p) ==
  /\ p.type = "other"
  /\ programs' = Append(programs, p)
  /\ touched' = 0 /\ UNCHANGED <<at, verdict, summary, dynamic>>

Program ==
  /\ at = "programs" /\ Len(programs) < phnum
  /\ \E p \in Programs : Load(p) \/ Interp(p) \/ Dynamic(p) \/ Other(p)
  /\ UNCHANGED <<input, phnum, tables, tags, needed, copied>>

ProgramsEnd ==
  /\ at = "programs" /\ Len(programs) = phnum
  /\ IF summary.loads = 0 THEN Done("SEGMENT")
     ELSE IF ~summary.dynamic THEN Done("OK")
     ELSE at' = "dynamic" /\ UNCHANGED verdict
  /\ touched' = 0 /\ UNCHANGED <<input, phnum, programs, scan, summary>>

NeededFits == Len(needed) < MaxNeeded

\* One dynamic entry; DT_NULL ends the scan, its absence refuses the image.
DynamicEntry ==
  /\ at = "dynamic" /\ dynamic.next < dynamic.end
  /\ \E e \in Entries :
       /\ touched' = dynamic.next + DynSize
       /\ dynamic' = [dynamic EXCEPT !.next = touched']
       /\ tags' = tags \cup {e.tag}
       /\ tables' = [strtab |-> IF e.tag = "STRTAB" THEN e.value ELSE tables.strtab,
                      strsz |-> IF e.tag = "STRSZ" THEN e.value ELSE tables.strsz]
       /\ summary' = [summary EXCEPT
            !.rela = @ \/ e.tag = "RELA", !.textrel = @ \/ e.tag \in {"TEXTREL", "FLAGS_TEXTREL"}]
       /\ IF e.tag = "NULL"
            THEN IF needed = <<>> THEN Done("OK") /\ UNCHANGED needed
                 ELSE at' = "tables" /\ UNCHANGED <<verdict, needed>>
            ELSE IF e.tag = "NEEDED" /\ ~NeededFits
            THEN Done("POLICY") /\ UNCHANGED needed
            ELSE /\ needed' = IF e.tag = "NEEDED" THEN Append(needed, e.value) ELSE needed
                 /\ UNCHANGED <<at, verdict>>
  /\ UNCHANGED <<input, phnum, programs, copied>>

NoNull ==
  /\ at = "dynamic" /\ dynamic.next = dynamic.end
  /\ Done("DYNAMIC")
  /\ touched' = 0 /\ UNCHANGED <<input, phnum, programs, scan, summary>>

\* Deviation: the bytes the segment only has in memory count.
BacksInMemory(k) == programs[k].vaddr <= tables.strtab
              /\ Minus(tables.strtab, programs[k].vaddr) < programs[k].memsz
\* virtual_to_file_offset: the first load segment whose file bytes hold it
Backs(k) == programs[k].vaddr <= tables.strtab
              /\ Minus(tables.strtab, programs[k].vaddr) < programs[k].filesz
Backing == {k \in Loads : Backs(k) /\ \A j \in Loads : Backs(j) => k <= j}

Tables ==
  /\ at = "tables"
  /\ IF tables.strtab = 0 \/ tables.strsz = 0 \/ Backing = {} THEN Done("DYNAMIC")
     ELSE \E k \in Backing :
       LET delta == Minus(tables.strtab, programs[k].vaddr)
       IN IF tables.strsz > Minus(programs[k].filesz, delta)
             \/ ~RangeValid(Plus(programs[k].offset, delta), tables.strsz)
            THEN Done("DYNAMIC")
            ELSE at' = "names" /\ UNCHANGED verdict
  /\ touched' = 0 /\ UNCHANGED <<input, phnum, programs, scan, summary>>

StringTable == LET k == CHOOSE j \in Backing : TRUE
               IN Plus(programs[k].offset, Minus(tables.strtab, programs[k].vaddr))

Name ==
  /\ at = "names"
  /\ LET offset == needed[copied + 1]
     IN IF offset >= tables.strsz
          THEN Done("DYNAMIC") /\ touched' = 0 /\ UNCHANGED copied
          ELSE \E ok \in BOOLEAN :
                 /\ Copy(StringTable + offset, tables.strsz - offset, ok)
                 /\ IF ~ok THEN Done("DYNAMIC") /\ UNCHANGED copied
                    ELSE /\ copied' = copied + 1
                         /\ IF copied' = Len(needed) THEN Done("OK")
                            ELSE UNCHANGED <<at, verdict>>
  /\ UNCHANGED <<input, phnum, programs, dynamic, tables, tags, needed, summary>>

\* selinos_elfrt_validate_initial_load_policy, of an image that was accepted
Policy ==
  /\ at = "done" /\ verdict = "OK"
  /\ verdict' = IF summary.textrel \/ summary.both # 0 THEN "refused" ELSE "loadable"
  /\ touched' = 0 /\ UNCHANGED <<input, phnum, at, programs, scan, summary>>

Next == Header \/ Program \/ ProgramsEnd \/ DynamicEntry \/ NoNull \/ Tables \/ Name \/ Policy
Spec == Init /\ [][Next]_vars

-----------------------------------------------------------------------------
Accepted == verdict \in {"OK", "refused", "loadable"}

TypeOK ==
  /\ size \in ImageSizes /\ phnum \in 0..MaxPrograms
  /\ programs \in Seq(Programs) /\ Len(programs) <= phnum
  /\ tables \in [strtab : Word, strsz : Word] /\ needed \in Seq(Word)
  /\ Len(needed) <= MaxNeeded /\ copied <= Len(needed) /\ summary.loads <= MaxLoads

\* Every byte the parser looks at is a byte of the image, whatever the words of
\* the headers say: no sum of theirs wraps past a check.
ReadsInside == touched <= size

\* What the segments of an accepted image say of the file holds in unbounded
\* arithmetic, too: a loader may copy filesz bytes into memsz, at vaddr.
SegmentsInFile ==
  Accepted => \A k \in Loads :
    LET p == programs[k]
    IN /\ p.offset + p.filesz <= size /\ p.filesz <= p.memsz
       /\ p.align > 1 => p.vaddr % p.align = p.offset % p.align

\* Each needed name of an accepted image is a string of file bytes that a load
\* segment puts at its address.
NamesAreLoaded ==
  Accepted => \A n \in 1..Len(needed) : \E k \in Loads :
    LET address == tables.strtab + needed[n]
    IN programs[k].vaddr <= address /\ address < programs[k].vaddr + programs[k].filesz

\* The policy lets no image through with text relocations or with a segment that
\* is writable and executable, wherever in the image it is said.
LoadableIsSafe ==
  verdict = "loadable" =>
    /\ tags \cap {"TEXTREL", "FLAGS_TEXTREL"} = {}
    /\ \A k \in Loads : programs[k].flags # {"W", "X"}

\* The summary a loader would use agrees with the program headers.
SummaryAgrees ==
  Accepted =>
    /\ summary.loads = Cardinality(Loads)
    /\ summary.writable = Cardinality({k \in Loads : "W" \in programs[k].flags})
    /\ summary.executable = Cardinality({k \in Loads : "X" \in programs[k].flags})
    /\ summary.interp <=> (\E k \in 1..Len(programs) : programs[k].type = "INTERP")

\* docs/elfrt_m1_parser.md: "`PT_LOAD` file and memory ranges" are validated.
MemoryRangesValid ==
  Accepted => \A k \in Loads : programs[k].vaddr + programs[k].memsz <= WordSize
=============================================================================
