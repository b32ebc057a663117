---------------------------- MODULE MCKabiLoader ----------------------------
EXTENDS KabiLoader

Section(type, size, align, info) ==
  [type |-> type, versions |-> FALSE, alloc |-> type = "DATA", size |-> size,
   align |-> align, info |-> info, inFile |-> TRUE, whole |-> TRUE, linked |-> TRUE]
Versions(size) == [Section("DATA", size, 0, 0) EXCEPT !.versions = TRUE, !.alloc = FALSE]
Good ==
  {Section("DATA", 3, 0, 0), Section("DATA", 3, 4, 0), Section("SYMTAB", 3, 0, 0),
   Section("RELA", 1, 0, 1), Versions(2)}
Bad ==
  {Section("DATA", 1, 3, 0), Section("DATA", 8, 16, 0), Section("RELA", 1, 0, 9),
   [Section("RELA", 1, 0, 1) EXCEPT !.whole = FALSE],
   [Section("SYMTAB", 3, 0, 0) EXCEPT !.whole = FALSE],
   [Section("SYMTAB", 3, 0, 0) EXCEPT !.linked = FALSE],
   [Section("DATA", 3, 0, 0) EXCEPT !.inFile = FALSE], Versions(0)}
MCSections == Good \cup Bad

Symbol(name, shndx, value) == [name |-> name, shndx |-> shndx, value |-> value]
MCSymbols ==
  {Symbol("init_module", 1, 1), Symbol("cleanup_module", 1, 0),
   Symbol("cleanup_module", 2, 2), Symbol("_printk", 0, 0), Symbol("init_module", 0, 0),
   Symbol("init_module", 9, 1)}

MCRelocations ==
  [symbol : {1}, type : {"64", "PC32", "32S"}, offset : {0, 2, 4}, addend : {-1, 2}]
    \cup [symbol : {1, 4}, type : {"64", "other"}, offset : {1}, addend : {0}]

MCRecords ==
  {[name |-> "_printk", crc |-> 7], [name |-> "_printk", crc |-> 8],
   [name |-> "other", crc |-> 7]}
MCExports == [n \in {"_printk"} |-> [crc |-> 7, address |-> 34]]
=============================================================================
