------------------------------ MODULE MCImages ------------------------------
(***************************************************************************)
(* The two readers of untrusted bytes: the ELF parser with its initial-load *)
(* policy, and romfsd's walk of its archive.  They are different programs  *)
(* over different images, so a behaviour runs one of them.                 *)
(***************************************************************************)
EXTENDS ElfSegments

CONSTANTS  \* of CpioLookup
  Wanted, MaxEntries, MaxMembers, MaxHurt, HeaderSize, WordMax, Oddities

VARIABLES
  part,      \* "elf" or "cpio": what this behaviour runs
  members, starts, cpioSize, damage, looking, entry, offset, cpioTouched, cpioVerdict

cpioVars == <<members, starts, cpioSize, damage, looking, entry, offset, cpioTouched,
              cpioVerdict>>

Plain(type, off, filesz) ==
  [type |-> type, flags |-> {}, offset |-> off, vaddr |-> 0, filesz |-> filesz,
   memsz |-> 0, align |-> 0]

MCPrograms ==
  [type : {"LOAD"}, flags : {{}, {"W", "X"}}, offset : {0, 2}, vaddr : {2, 14},
   filesz : {3, 15}, memsz : {15}, align : {3, 4}]
    \cup [type : {"LOAD"}, flags : {{"X"}}, offset : {0, 3}, vaddr : {2},
          filesz : {3, 4}, memsz : {3}, align : {0}]
    \cup {Plain("LOAD", 2, 15), Plain("other", 0, 0)}
    \cup {Plain("INTERP", o, f) : o \in {5, 9}, f \in {0, 3}}
    \cup {Plain("DYNAMIC", o, f) : o \in {0, 9}, f \in {3, 8}}

Tagged(tag, values) == {[tag |-> tag, value |-> v] : v \in values}
MCEntries ==
  Tagged("STRTAB", {3, 6}) \cup Tagged("STRSZ", {2, 15}) \cup Tagged("NEEDED", {1, 15})
    \cup UNION {Tagged(t, {0}) : t \in {"RELA", "TEXTREL", "FLAGS_TEXTREL", "NULL"}}

MCWanted == << [name |-> "/selinos-release", length |-> 1],
               [name |-> "/selinos-banner",  length |-> 3] >>

Cpio == INSTANCE CpioLookup
          WITH size <- cpioSize, touched <- cpioTouched, verdict <- cpioVerdict

ASSUME CpioAssumption == Cpio!SizesAssumption

ImagesInit ==
  /\ part \in {"elf", "cpio"}
  /\ part # "elf" => size = 0 /\ interpOk = FALSE
  /\ Init
  /\ Cpio!Init

ImagesNext ==
  \/ part = "elf" /\ Next /\ UNCHANGED <<part, cpioVars>>
  \/ part = "cpio" /\ Cpio!Next /\ UNCHANGED <<part, vars>>

ImagesSpec == ImagesInit /\ [][ImagesNext]_<<part, vars, cpioVars>>

\* The walk of an archive reads inside it, finds exactly the published files,
\* and takes nothing else for one of them (CpioLookup).
CpioCorrect ==
  /\ Cpio!TypeOK
  /\ Cpio!ReadsInside
  /\ Cpio!SelfCheckIsExact
  /\ Cpio!NothingForged
=============================================================================
