-------------------------- MODULE KabiLoaderProofs --------------------------
(***************************************************************************)
(* Safety of the module loader, for every image, every export table and    *)
(* every memory: the sections are laid out one above the other             *)
(* (LayoutInv), and a relocation is applied only once they all are         *)
(* (StageInv), so what it wrote stays where and what it was (PatchInv).    *)
(***************************************************************************)
EXTENDS KabiLoader, FiniteSetTheorems, TLAPS

Before == {"digest", "parse", "versions"}

StageInv ==
  /\ at \in Before => base = <<>> /\ used = 0
  /\ patch.section # 0 => at \notin Before \cup {"layout"}
  /\ at \in {"relocate", "init", "cleanup", "running"} => Len(base) = Len(sections)

LayoutInv ==
  /\ \A k \in 1..Len(base) : base[k] # 0 <=> Occupies(sections[k])
  /\ PlacedApart

PatchInv == WritesStayInside /\ RelocationIsExact

IInv == TypeOK /\ StageInv /\ LayoutInv /\ PatchInv

-----------------------------------------------------------------------------
(* Rounding up never goes back and gives a multiple.                       *)
LEMMA RoundUp ==
  ASSUME NEW n \in Nat, NEW a \in Nat \ {0}
  PROVE  LET up == ((n + a - 1) \div a) * a IN up \in Nat /\ up >= n /\ up % a = 0
<1> DEFINE q == (n + a - 1) \div a
<1>1. q \in Nat /\ q * a <= n + a - 1 /\ n + a - 1 < q * a + a
  <2>1. \A m \in Nat, b \in Nat \ {0} : m \div b \in Nat
    OBVIOUS
  <2>2. \A m \in Nat, b \in Nat \ {0} :
          (m \div b) * b <= m /\ m < (m \div b) * b + b
    OBVIOUS
  <2>3. n + a - 1 \in Nat
    OBVIOUS
  <2>4. QED
    BY <2>1, <2>2, <2>3
<1> HIDE DEF q
<1>2. q * a \in Nat /\ (q * a) % a = 0
  BY <1>1
<1>3. q * a >= n
  BY <1>1, <1>2
<1>4. QED
  BY <1>2, <1>3 DEF q

(* A value that fits in a signed field is read back from its remainder.    *)
LEMMA SignExtension ==
  ASSUME NEW v \in Int, v >= -Reach, v <= Reach - 1
  PROVE  v = LET field == v % (2 * Reach)
             IN IF field < Reach THEN field ELSE field - 2 * Reach
<1> DEFINE m == 2 * Reach
<1>1. Reach \in Nat \ {0} /\ m = Reach + Reach
  BY MemoryAssumption
<1> HIDE DEF m
<1>2. CASE v >= 0
  <2>1. v % m = v
    BY <1>1, <1>2
  <2>2. QED
    BY <1>1, <1>2, <2>1 DEF m
<1>3. CASE v < 0
  <2>1. v % m = v + m
    BY <1>1, <1>3
  <2>2. QED
    BY <1>1, <1>3, <2>1 DEF m
<1>4. QED
  BY <1>2, <1>3

(* Where the next section goes is aligned and not below what is in use.    *)
LEMMA AlignedUp ==
  ASSUME NEW n \in Nat, NEW align \in Nat
  PROVE  /\ AlignUp(n, align) \in Nat /\ AlignUp(n, align) >= n
         /\ Aligned(AlignUp(n, align), align)
<1>1. (IF align = 0 THEN 1 ELSE align) \in Nat \ {0}
  OBVIOUS
<1>2. QED
  BY <1>1, RoundUp DEF AlignUp, Aligned

-----------------------------------------------------------------------------
(* The loader starts with nothing read and nothing laid out.               *)
LEMMA InitIInv == Init => IInv
<1> SUFFICES ASSUME Init PROVE IInv
  OBVIOUS
<1> USE MemoryAssumption DEF Init, None
<1>1. TypeOK
  BY DEF TypeOK
<1>2. StageInv
  BY DEF StageInv
<1>3. LayoutInv
  BY DEF LayoutInv, PlacedApart, Placed
<1>4. PatchInv
  BY DEF PatchInv, WritesStayInside, RelocationIsExact
<1>5. QED
  BY <1>1, <1>2, <1>3, <1>4 DEF IInv

(* The address of a symbol that resolves is a natural number.              *)
LEMMA AddressType ==
  ASSUME TypeOK, Len(base) = Len(sections), NEW y \in Symbols, Resolvable(y)
  PROVE  AddressOf(y) \in Nat
<1>1. y.shndx \in Nat /\ y.value \in Nat
  BY ContentsAssumption
<1>2. CASE Defined(y)
  <2>1. y.shndx \in 1..Len(base)
    BY <1>1, <1>2 DEF Resolvable, Defined, TypeOK
  <2>2. base[y.shndx] \in Nat
    BY <2>1 DEF TypeOK
  <2>3. QED
    BY <1>1, <1>2, <2>2 DEF AddressOf
<1>3. CASE ~Defined(y)
  BY <1>3, MemoryAssumption DEF Resolvable, AddressOf
<1>4. QED
  BY <1>2, <1>3

(* The steps before the layout read the image and write nothing.           *)
LEMMA ReadingStep ==
  ASSUME IInv, Digest \/ Header \/ ParseSection \/ Metadata \/ Version PROVE IInv'
<1> USE MemoryAssumption DEF Refused, image, layout, Before
<1>1. at \in Before
  BY DEF Digest, Header, ParseSection, Metadata, Version
<1>2. base = <<>> /\ used = 0 /\ patch.section = 0
  BY <1>1 DEF IInv, StageInv
<1>3. UNCHANGED <<layout, patch, symbols, entry, program, i>>
  BY DEF Digest, Header, ParseSection, Metadata, Version
<1>4. at' \in Before \cup {"layout", "exited"}
  BY <1>1 DEF Digest, Header, ParseSection, Metadata, Version
<1>5. TypeOK'
  <2>1. sections' \in Seq(Sections) /\ Len(sections') <= MaxSections + 1
        /\ Len(sections) <= Len(sections')
    <3>1. CASE ParseSection
      <4>1. sections' = sections \/ \E x \in Sections : sections' = Append(sections, x)
        BY <3>1 DEF ParseSection
      <4>2. sections \in Seq(Sections) /\ Len(sections) <= MaxSections
            /\ Len(sections) \in Nat /\ MaxSections \in Nat
        BY <3>1 DEF ParseSection, IInv, TypeOK
      <4>3. CASE sections' = sections
        BY <4>2, <4>3
      <4>4. ASSUME NEW x \in Sections, sections' = Append(sections, x)
            PROVE  sections' \in Seq(Sections) /\ Len(sections') = Len(sections) + 1
        BY <4>2, <4>4
      <4>5. QED
        BY <4>1, <4>2, <4>3, <4>4
    <3>2. CASE Digest \/ Header \/ Metadata \/ Version
      BY <3>2 DEF IInv, TypeOK, Digest, Header, Metadata, Version
    <3>3. QED
      BY <3>1, <3>2
  <2>2. checked' \subseteq Records
    BY DEF IInv, TypeOK, Digest, Header, ParseSection, Metadata, Version
  <2>3. j' \in Nat \ {0}
    <3>1. j \in Nat \ {0}
      BY DEF IInv, TypeOK
    <3>2. j' \in {j, j + 1, 1}
      BY DEF Digest, Header, ParseSection, Metadata, Version
    <3>3. QED
      BY <3>1, <3>2
  <2>4. i \in 1..Len(sections') + 1
    BY <2>1 DEF IInv, TypeOK
  <2>5. QED
    BY <1>2, <1>3, <1>4, <2>1, <2>2, <2>3, <2>4 DEF IInv, TypeOK
<1>6. StageInv'
  BY <1>2, <1>3, <1>4 DEF IInv, StageInv
<1>7. LayoutInv'
  BY <1>2, <1>3 DEF LayoutInv, PlacedApart, Placed
<1>8. PatchInv'
  BY <1>2, <1>3 DEF PatchInv, WritesStayInside, RelocationIsExact
<1>9. QED
  BY <1>5, <1>6, <1>7, <1>8 DEF IInv

(* A section is placed above all before it, or does not occupy memory.     *)
LEMMA LayoutStep == ASSUME IInv, Layout PROVE IInv'
<1> DEFINE n == Len(base) + 1
           s == sections[n]
           aligned == AlignUp(used, s.align)
<1>0. LoadBase \in Nat \ {0} /\ Memory \in Nat \ {0}
  BY MemoryAssumption
<1>1. /\ n \in 1..Len(sections) /\ s \in Sections /\ base \in Seq(Nat)
      /\ sections \in Seq(Sections) /\ used \in 0..Memory
      /\ patch.section = 0 /\ at = "layout"
  BY DEF IInv, TypeOK, StageInv, Layout
<1>2. s.size \in Nat /\ s.align \in Nat
  BY <1>1, ContentsAssumption
<1>3. UNCHANGED <<sections, symbols, patch, program, checked, i, j, entry>>
  BY DEF Layout, image
<1>4. \/ at' = "exited" /\ UNCHANGED layout
      \/ at' = at /\ ~Occupies(s) /\ base' = Append(base, 0) /\ used' = used
      \/ /\ at' = at /\ Occupies(s) /\ Room(s, aligned)
         /\ base' = Append(base, LoadBase + aligned) /\ used' = aligned + s.size
  BY DEF Layout, Refused
<1> HIDE DEF s, aligned
<1>5. CASE UNCHANGED layout /\ at' = "exited"
  BY <1>1, <1>3, <1>5
  DEF IInv, TypeOK, StageInv, LayoutInv, PatchInv, PlacedApart, Placed, layout, Before,
      WritesStayInside, RelocationIsExact, Occupies
<1>6. ASSUME NEW x \in Nat, base' = Append(base, x), at' = at, used' \in 0..Memory,
             used' >= used, x # 0 <=> Occupies(s),
             x # 0 => /\ x >= LoadBase + used /\ x + s.size <= LoadBase + used'
                      /\ Aligned(x - LoadBase, s.align)
      PROVE  IInv'
  <2>1. base' \in Seq(Nat) /\ Len(base') = n /\ base'[n] = x
        /\ \A k \in 1..Len(base) : base'[k] = base[k]
    BY <1>1, <1>6
  <2>2. TypeOK'
    BY <1>1, <1>3, <1>6, <2>1 DEF IInv, TypeOK
  <2>3. StageInv'
    BY <1>1, <1>3, <1>6, <2>1 DEF IInv, StageInv, Before
  <2>4. \A k \in 1..Len(base') : base'[k] # 0 <=> Occupies(sections[k])
    BY <1>1, <1>6, <2>1 DEF IInv, LayoutInv, s
  <2>5. PlacedApart'
    <3> SUFFICES ASSUME NEW k \in Placed'
                 PROVE  /\ Aligned(base'[k] - LoadBase, sections[k].align)
                        /\ base'[k] >= LoadBase
                        /\ base'[k] + sections[k].size <= LoadBase + used'
                        /\ \A l \in Placed' :
                             k < l => base'[k] + sections[k].size <= base'[l]
      BY <1>3 DEF PlacedApart
    <3>1. CASE k = n
      BY <1>0, <1>1, <1>2, <1>6, <2>1, <3>1 DEF Placed, s
    <3>2. CASE k # n
      <4>1. k \in Placed /\ base'[k] = base[k] /\ base[k] \in Nat
        BY <1>1, <2>1, <3>2 DEF Placed
      <4>2. sections[k].size \in Nat
        <5>1. k \in 1..Len(sections)
          BY <1>1, <4>1 DEF Placed
        <5>2. sections[k] \in Sections
          BY <1>1, <5>1
        <5>3. QED
          BY <5>2, ContentsAssumption
      <4>3. /\ Aligned(base[k] - LoadBase, sections[k].align)
            /\ base[k] >= LoadBase /\ base[k] + sections[k].size <= LoadBase + used
            /\ \A l \in Placed : k < l => base[k] + sections[k].size <= base[l]
        BY <4>1 DEF IInv, LayoutInv, PlacedApart
      <4>4. \A l \in Placed' : l = n \/ (l \in Placed /\ base'[l] = base[l])
        BY <1>1, <2>1 DEF Placed
      <4>5. n \in Placed' => base'[n] >= LoadBase + used
        BY <1>6, <2>1 DEF Placed
      <4>6. \A l \in Placed' : k < l => base'[k] + sections[k].size <= base'[l]
        <5> SUFFICES ASSUME NEW l \in Placed', k < l
                     PROVE  base[k] + sections[k].size <= base'[l]
          BY <4>1
        <5>1. CASE l = n
          <6>1. base[k] + sections[k].size <= LoadBase + used
            BY <4>3
          <6>2. LoadBase + used <= base'[l]
            BY <4>5, <5>1
          <6>3. used \in Nat /\ LoadBase \in Nat /\ base'[l] \in Nat /\ base[k] + sections[k].size \in Nat
            <7>1. base'[l] = x
              BY <2>1, <5>1
            <7>2. QED
              BY <1>0, <1>1, <1>6, <4>1, <4>2, <7>1
          <6>4. QED
            BY <6>1, <6>2, <6>3
        <5>2. CASE l # n
          BY <4>3, <4>4, <5>2
        <5>3. QED
          BY <5>1, <5>2
      <4>7. base[k] + sections[k].size <= LoadBase + used'
        <5>1. used \in Nat /\ used' \in Nat /\ used <= used'
          BY <1>0, <1>1, <1>6
        <5>2. base[k] + sections[k].size <= LoadBase + used
          BY <4>3
        <5>3. base[k] + sections[k].size \in Nat
          BY <4>1, <4>2
        <5>4. QED
          BY <1>0, <5>1, <5>2, <5>3
      <4>8. QED
        BY <4>1, <4>3, <4>6, <4>7
    <3>3. QED
      BY <3>1, <3>2
  <2>6. PatchInv'
    BY <1>1, <1>3 DEF PatchInv, WritesStayInside, RelocationIsExact
  <2>7. QED
    BY <1>3, <2>2, <2>3, <2>4, <2>5, <2>6 DEF IInv, LayoutInv, Occupies
<1>7. CASE at' = at /\ ~Occupies(s) /\ base' = Append(base, 0) /\ used' = used
  BY <1>1, <1>6, <1>7
<1>8. CASE /\ at' = at /\ Occupies(s) /\ Room(s, aligned)
           /\ base' = Append(base, LoadBase + aligned) /\ used' = aligned + s.size
  <2>1. /\ aligned \in Nat /\ aligned >= used
        /\ Aligned(aligned, s.align)
    <3>1. used \in Nat
      BY <1>0, <1>1
    <3>2. QED
      BY <1>2, <3>1, AlignedUp DEF aligned
  <2>2. aligned + s.size <= Memory
    BY <1>0, <1>2, <1>8, <2>1 DEF Room
  <2>3. used' \in 0..Memory /\ used' >= used
    BY <1>0, <1>1, <1>2, <1>8, <2>1, <2>2
  <2> DEFINE x == LoadBase + aligned
  <2>4. x \in Nat /\ x # 0 /\ x - LoadBase = aligned
    BY <1>0, <2>1
  <2>5. x >= LoadBase + used /\ x + s.size <= LoadBase + used'
    BY <1>0, <1>1, <1>2, <1>8, <2>1
  <2>6. base' = Append(base, x)
    BY <1>8
  <2> HIDE DEF x
  <2>7. QED
    BY <1>6, <1>8, <2>1, <2>3, <2>4, <2>5, <2>6
<1>9. QED
  BY <1>4, <1>5, <1>7, <1>8

(* What a step that leaves sections, layout and patch alone has to show.   *)
LEMMA Untouched ==
  ASSUME IInv, UNCHANGED <<sections, layout, patch>>, at \notin Before,
         at' \notin Before, at = "layout" => UNCHANGED symbols \/ patch.section = 0,
         at # "layout" => UNCHANGED symbols,
         at' \in {"layout", "exited"} \/ Len(base) = Len(sections),
         at' = "layout" => at = "layout"
  PROVE  StageInv' /\ LayoutInv' /\ PatchInv'
<1>1. StageInv'
  BY DEF IInv, StageInv, Before, layout
<1>2. LayoutInv'
  BY DEF IInv, LayoutInv, PlacedApart, Placed, Occupies, layout
<1>3. PatchInv'
  <2>1. CASE patch.section = 0
    BY <2>1 DEF PatchInv, WritesStayInside, RelocationIsExact
  <2>2. CASE patch.section # 0
    <3>1. UNCHANGED symbols
      BY <2>2 DEF IInv, StageInv
    <3>2. QED
      BY <3>1 DEF IInv, PatchInv, WritesStayInside, RelocationIsExact, Placed,
                  ValueOf, AddressOf, layout
  <2>3. QED
    BY <2>1, <2>2
<1>4. QED
  BY <1>1, <1>2, <1>3

(* The symbol table is read once everything is laid out.                   *)
LEMMA SymbolTableStep == ASSUME IInv, SymbolTable PROVE IInv'
<1>1. /\ at = "layout" /\ at' \in {"exited", "relocate"} /\ Len(base) = Len(sections)
      /\ UNCHANGED <<program, sections, checked, layout, i, j, patch, entry>>
  BY DEF SymbolTable, Refused
<1>2. patch.section = 0
  BY <1>1 DEF IInv, StageInv
<1>3. symbols' \in Seq(Symbols)
  <2>1. CASE UNCHANGED symbols
    BY <2>1 DEF IInv, TypeOK
  <2>2. CASE ~UNCHANGED symbols
    <3>1. /\ Cardinality(SymbolTables) = 1
          /\ symbols' \in [1..sections[Min(SymbolTables)].size -> Symbols]
      BY <2>2 DEF SymbolTable
    <3>2. IsFiniteSet(SymbolTables) /\ SymbolTables \subseteq 1..Len(sections)
      <4>1. IsFiniteSet(1..Len(sections))
        BY FS_Interval DEF IInv, TypeOK
      <4>2. QED
        BY <4>1, FS_Subset DEF SymbolTables
    <3>3. PICK k \in 1..Len(sections) : SymbolTables = {k}
      BY <3>1, <3>2, FS_Singleton
    <3>4. Min(SymbolTables) = k
      BY <3>3 DEF Min
    <3>5. sections[k].size \in Nat
      <4>1. sections[k] \in Sections
        BY DEF IInv, TypeOK
      <4>2. QED
        BY <4>1, ContentsAssumption
    <3>6. QED
      BY <3>1, <3>4, <3>5
  <2>3. QED
    BY <2>1, <2>2
<1>4. TypeOK'
  BY <1>1, <1>3 DEF IInv, TypeOK, layout
<1>5. StageInv' /\ LayoutInv' /\ PatchInv'
  BY <1>1, <1>2, Untouched DEF Before
<1>6. QED
  BY <1>4, <1>5 DEF IInv

(* One relocation: refused, or written in its section and exact.           *)
LEMMA ApplyStep ==
  ASSUME IInv, NEW s \in Sections, NEW r \in Relocations, Len(base) = Len(sections),
         s.info \in 1..Len(sections), Occupies(sections[s.info]), Apply(s, r),
         UNCHANGED <<sections, symbols, layout>>
  PROVE  \/ Refused /\ UNCHANGED <<j, patch>>
         \/ /\ UNCHANGED at /\ j' = j + 1
            /\ patch'.section = s.info /\ patch'.record = r /\ PatchInv'
<1> DEFINE place == base[s.info] + r.offset
           v == ValueOf(r, place)
<1>1. SUFFICES ASSUME ~(Refused /\ UNCHANGED <<j, patch>>)
               PROVE  /\ UNCHANGED at /\ j' = j + 1
                      /\ patch'.section = s.info /\ patch'.record = r /\ PatchInv'
  OBVIOUS
<1>2. /\ r.symbol <= Len(symbols) /\ Fits(r, sections[s.info])
      /\ Resolvable(symbols[r.symbol]) /\ (r.type # "64" => SignedOk(v))
      /\ patch' = [section |-> s.info, record |-> r,
                   field |-> IF r.type = "64" THEN v ELSE v % (2 * Reach)]
      /\ j' = j + 1 /\ UNCHANGED at
  <2>1. v = ValueOf(r, base[s.info] + r.offset)
    OBVIOUS
  <2> HIDE DEF v
  <2>2. ~(r.symbol > Len(symbols) \/ ~Fits(r, sections[s.info])
            \/ ~Resolvable(symbols[r.symbol]))
    BY <1>1 DEF Apply
  <2>3. ~(r.type \notin Relative \cup {"64", "32S"} \/ (r.type # "64" /\ ~SignedOk(v)))
    BY <1>1, <2>1, <2>2 DEF Apply
  <2>4. /\ patch' = [section |-> s.info, record |-> r,
                     field |-> IF r.type = "64" THEN v ELSE v % (2 * Reach)]
        /\ j' = j + 1 /\ UNCHANGED at
    BY <2>1, <2>2, <2>3 DEF Apply
  <2>5. r.symbol \in Nat
    BY ContentsAssumption
  <2>6. r.symbol <= Len(symbols)
    BY <2>2, <2>5 DEF IInv, TypeOK
  <2>7. QED
    BY <2>2, <2>3, <2>4, <2>6
<1>3. patch'.section = s.info /\ patch'.record = r
  BY <1>2
<1>4. r.symbol \in Nat \ {0} /\ r.offset \in Nat /\ r.addend \in Int
      /\ sections[s.info].size \in Nat
  <2>1. r \in [symbol : Nat \ {0}, type : STRING, offset : Nat, addend : Int]
    BY ContentsAssumption
  <2>2. sections[s.info] \in Sections
    BY DEF IInv, TypeOK
  <2>3. sections[s.info].size \in Nat
    BY <2>2, ContentsAssumption
  <2>4. QED
    BY <2>1, <2>3
<1>5. v \in Int
  <2>1. symbols[r.symbol] \in Symbols
    <3>1. symbols \in Seq(Symbols)
      BY DEF IInv, TypeOK
    <3>2. r.symbol \in 1..Len(symbols)
      BY <1>2, <1>4
    <3>3. QED
      BY <3>1, <3>2
  <2>2. AddressOf(symbols[r.symbol]) \in Nat
    BY <1>2, <2>1, AddressType DEF IInv
  <2>3. base[s.info] \in Nat
    BY DEF IInv, TypeOK
  <2>4. place \in Nat
    BY <1>4, <2>3
  <2>5. QED
    BY <1>4, <2>2, <2>4 DEF ValueOf
<1>6. WritesStayInside'
  <2>1. s.info \in Placed
    BY DEF IInv, LayoutInv, Placed
  <2>2. Width(r.type) \in Nat
    BY DEF Width
  <2>3. r.offset + Width(r.type) <= sections[s.info].size
    BY <1>2, <1>4, <2>2 DEF Fits
  <2>4. QED
    BY <1>3, <2>1, <2>3 DEF WritesStayInside, Placed, layout
<1>7. RelocationIsExact'
  <2>1. ValueOf(r, place)' = v
    BY DEF ValueOf, AddressOf, layout
  <2> HIDE DEF v, place
  <2>2. CASE r.type = "64"
    BY <1>2, <1>3, <2>1, <2>2 DEF RelocationIsExact, place
  <2>3. CASE r.type # "64"
    <3>1. v >= -Reach /\ v <= Reach - 1
      BY <1>2, <2>3 DEF SignedOk
    <3>2. v = IF patch'.field < Reach THEN patch'.field ELSE patch'.field - 2 * Reach
      BY <1>2, <1>5, <2>3, <3>1, SignExtension
    <3>3. QED
      BY <1>3, <2>1, <2>3, <3>2 DEF RelocationIsExact, place
  <2>4. QED
    BY <2>2, <2>3
<1>8. QED
  BY <1>2, <1>3, <1>6, <1>7 DEF PatchInv

(* Walking the relocation sections: only applying one writes anything.     *)
LEMMA RelocateStep == ASSUME IInv, Relocate PROVE IInv'
<1> DEFINE s == sections[i]
<1>1. /\ at = "relocate" /\ Len(base) = Len(sections) /\ i \in 1..Len(sections)
      /\ UNCHANGED <<program, sections, symbols, checked, layout, entry>>
  BY DEF Relocate, IInv, TypeOK, StageInv, image
<1>2. s \in Sections
  BY <1>1 DEF IInv, TypeOK
<1>3. ASSUME at' \in {at, "exited"}, UNCHANGED patch, i' \in {i, i + 1}, j' \in {j, 1}
      PROVE  IInv'
  <2>1. TypeOK'
    BY <1>1, <1>3 DEF IInv, TypeOK, layout
  <2>2. StageInv' /\ LayoutInv' /\ PatchInv'
    BY <1>1, <1>3, Untouched DEF Before
  <2>3. QED
    BY <2>1, <2>2 DEF IInv
<1>4. ASSUME NEW r \in Relocations, Apply(s, r), UNCHANGED i,
             s.info \in 1..Len(sections), Occupies(sections[s.info])
      PROVE  IInv'
  <2>1. CASE Refused /\ UNCHANGED <<j, patch>>
    BY <1>3, <1>4, <2>1 DEF Refused
  <2>2. CASE /\ UNCHANGED at /\ j' = j + 1
             /\ patch'.section = s.info /\ patch'.record = r /\ PatchInv'
    <3>1. TypeOK'
      BY <1>1, <1>4, <2>2 DEF IInv, TypeOK, layout
    <3>2. StageInv'
      BY <1>1, <2>2 DEF IInv, StageInv, Before, layout
    <3>3. LayoutInv'
      BY <1>1 DEF IInv, LayoutInv, PlacedApart, Placed, Occupies, layout
    <3>4. QED
      BY <2>2, <3>1, <3>2, <3>3 DEF IInv
  <2>3. QED
    BY <1>1, <1>2, <1>4, <2>1, <2>2, ApplyStep
<1>5. \/ at' \in {at, "exited"} /\ UNCHANGED patch /\ i' \in {i, i + 1} /\ j' \in {j, 1}
      \/ /\ s.info \in 1..Len(sections) /\ Occupies(sections[s.info]) /\ UNCHANGED i
         /\ \E r \in Relocations : Apply(s, r)
  BY DEF Relocate, Skip, Refused
<1>6. QED
  BY <1>3, <1>4, <1>5

(* The entry points are addresses in the module, or 0.                     *)
LEMMA EndingStep == ASSUME IInv, EntryPoints \/ ModuleReturns PROVE IInv'
<1>1. /\ at \in {"relocate", "init", "cleanup"} /\ Len(base) = Len(sections)
      /\ at' \in {"exited", "running", "init", "cleanup"}
      /\ UNCHANGED <<program, sections, symbols, checked, layout, i, j, patch>>
  BY DEF EntryPoints, ModuleReturns, IInv, StageInv, image, Refused
<1>2. entry' \in [init : Nat, cleanup : Nat]
  <2>1. CASE ModuleReturns
    BY <2>1 DEF ModuleReturns, IInv, TypeOK
  <2>2. CASE EntryPoints
    <3>1. ASSUME NEW n PROVE Entry(n) \subseteq Nat
      <4>1. \A k \in LastOf(Candidates(n)) : symbols[k] \in Symbols /\ Resolvable(symbols[k])
        BY DEF LastOf, Candidates, IInv, TypeOK
      <4>2. \A k \in LastOf(Candidates(n)) : AddressOf(symbols[k]) \in Nat
        BY <1>1, <4>1, AddressType DEF IInv
      <4>3. QED
        BY <4>2 DEF Entry
    <3>2. QED
      BY <2>2, <3>1 DEF EntryPoints
  <2>3. QED
    BY <2>1, <2>2
<1>3. TypeOK'
  BY <1>1, <1>2 DEF IInv, TypeOK, layout
<1>4. StageInv' /\ LayoutInv' /\ PatchInv'
  BY <1>1, Untouched DEF Before
<1>5. QED
  BY <1>3, <1>4 DEF IInv

(* Every reachable state satisfies the invariant.                          *)
THEOREM Invariance == Spec => []IInv
<1>1. IInv /\ [Next]_vars => IInv'
  <2>1. ASSUME IInv, UNCHANGED vars PROVE IInv'
    BY <2>1 DEF IInv, vars, image, layout, TypeOK, StageInv, LayoutInv, PatchInv, PlacedApart,
                Placed, Occupies, WritesStayInside, RelocationIsExact, ValueOf, AddressOf
  <2>2. QED
    BY <2>1, ReadingStep, LayoutStep, SymbolTableStep, RelocateStep, EndingStep DEF Next
<1>2. QED
  BY InitIInv, <1>1, PTL DEF Spec

(* Every variable keeps its type, and no more memory is used than there is. *)
THEOREM TypeCorrect == Spec => []TypeOK
<1>1. IInv => TypeOK
  BY DEF IInv
<1>2. QED
  BY Invariance, <1>1, PTL

(* No two sections share a word of memory, and none leaves it, for every   *)
(* image and every size of memory.                                         *)
THEOREM LayoutCorrect == Spec => []PlacedApart
<1>1. IInv => PlacedApart
  BY DEF IInv, LayoutInv
<1>2. QED
  BY Invariance, <1>1, PTL

(* Every relocation is written in the section it names, whatever its offset *)
(* (selinos_kabi_module.c:483-490).                                        *)
THEOREM WritesCorrect == Spec => []WritesStayInside
<1>1. IInv => WritesStayInside
  BY DEF IInv, PatchInv
<1>2. QED
  BY Invariance, <1>1, PTL

(* The processor reads the intended value back from every field written,   *)
(* for every reach of a signed field (selinos_kabi_module.c:495-511).      *)
THEOREM RelocationsCorrect == Spec => []RelocationIsExact
<1>1. IInv => RelocationIsExact
  BY DEF IInv, PatchInv
<1>2. QED
  BY Invariance, <1>1, PTL

-----------------------------------------------------------------------------
\* Once the versions are verified some record has been, and each that has been
\* matched; where an entry point is, was settled when all sections were placed.
EntryInv ==
  /\ at \in {"layout", "relocate", "init", "cleanup"} => checked # {}
  /\ \A r \in checked : r.crc = Exports[r.name].crc
  /\ EntryEarned

(* A record is taken only if the export table matches it.                  *)
LEMMA VersionEntry == ASSUME EntryInv, Version PROVE EntryInv'
<1>1. at = "versions" /\ UNCHANGED <<program, sections, symbols, layout, entry>>
  BY DEF Version, image
<1>2. \/ at' = "exited" /\ UNCHANGED checked
      \/ \E r \in Records : Matches(r) /\ checked' = checked \cup {r}
                              /\ at' \in {"versions", "layout"}
  BY <1>1 DEF Version, Refused
<1>3. QED
  BY <1>1, <1>2 DEF EntryInv, EntryEarned, Matches

(* Once all sections have had their turn, the candidates for an entry point *)
(* are the symbols that define it in a section laid out.                   *)
LEMMA CandidatesDefine ==
  ASSUME IInv, Len(base) = Len(sections), NEW n, NEW k \in 1..Len(symbols)
  PROVE  k \in Candidates(n) <=> Defines(k, n)
<1>1. symbols[k] \in Symbols
  BY DEF IInv, TypeOK
<1>2. symbols[k].shndx \in Nat
  BY <1>1, ContentsAssumption
<1>3. Defined(symbols[k]) => (Resolvable(symbols[k]) <=> symbols[k].shndx \in Placed)
  BY <1>2 DEF Defined, Resolvable, Placed, IInv, TypeOK
<1>4. QED
  BY <1>3 DEF Candidates, Defines

(* An entry point is the last definition its own table has of it.          *)
LEMMA EntryIsLast ==
  ASSUME IInv, Len(base) = Len(sections), NEW n, NEW a \in Entry(n), a # 0
  PROVE  IsEntryOf(a, n)
<1>1. PICK k \in LastOf(Candidates(n)) : a = AddressOf(symbols[k])
  BY DEF Entry
<1>2. k \in 1..Len(symbols) /\ k \in Candidates(n)
  BY <1>1 DEF LastOf, Candidates
<1>3. Defines(k, n)
  BY <1>2, CandidatesDefine
<1>4. a = base[symbols[k].shndx] + symbols[k].value
  BY <1>1, <1>3 DEF AddressOf, Defines
<1>5. ASSUME NEW l \in k + 1..Len(symbols) PROVE ~Defines(l, n)
  <2>1. l \in 1..Len(symbols) /\ ~(l <= k)
    BY <1>2 DEF IInv, TypeOK
  <2>2. l \notin Candidates(n)
    BY <1>1, <2>1 DEF LastOf
  <2>3. QED
    BY <2>1, <2>2, CandidatesDefine
<1>6. QED
  BY <1>2, <1>3, <1>4, <1>5 DEF IsEntryOf

(* Looking the entry points up earns them.                                 *)
LEMMA EntryPointsEarned == ASSUME IInv, EntryInv, EntryPoints PROVE EntryInv'
<1>1. /\ at = "relocate" /\ Len(base) = Len(sections)
      /\ UNCHANGED <<program, sections, symbols, checked, base>>
  BY DEF EntryPoints, IInv, StageInv, image, layout
<1>2. /\ entry' \in [init : Entry("init_module"), cleanup : Entry("cleanup_module")]
      /\ at' \in {"init", "cleanup"} =>
           program = "modexec" /\ entry'.init # 0 /\ entry'.cleanup # 0
      /\ at' \in {"exited", "running", "init"}
  <2>1. program \in {"modld", "modexec"}
    BY DEF IInv, TypeOK
  <2>2. QED
    BY <2>1 DEF EntryPoints
<1>3. at' \in {"init", "cleanup"} =>
        /\ IsEntryOf(entry.init, "init_module")'
        /\ IsEntryOf(entry.cleanup, "cleanup_module")'
  <2> SUFFICES ASSUME at' \in {"init", "cleanup"}
               PROVE  /\ IsEntryOf(entry.init, "init_module")'
                      /\ IsEntryOf(entry.cleanup, "cleanup_module")'
    OBVIOUS
  <2>1. entry'.init \in Entry("init_module") /\ entry'.cleanup \in Entry("cleanup_module")
    BY <1>2
  <2>2. IsEntryOf(entry'.init, "init_module") /\ IsEntryOf(entry'.cleanup, "cleanup_module")
    BY <1>1, <1>2, <2>1, EntryIsLast
  <2>3. QED
    BY <1>1, <2>2 DEF IsEntryOf, Defines, Defined, Placed
<1>4. QED
  BY <1>1, <1>2, <1>3 DEF EntryInv, EntryEarned

(* No other action enters the module, or changes what it was checked for.  *)
LEMMA EntryStep == IInv /\ EntryInv /\ [Next]_vars => EntryInv'
<1> SUFFICES ASSUME IInv, EntryInv, [Next]_vars PROVE EntryInv'
  OBVIOUS
<1>1. ASSUME UNCHANGED checked, at' \notin {"init", "cleanup"},
             at' = "layout" => at = "layout", at' = "relocate" => at \in {"layout", "relocate"}
      PROVE  EntryInv'
  BY <1>1 DEF EntryInv, EntryEarned
<1>2. CASE Digest
  BY <1>1, <1>2 DEF Digest, Refused
<1>3. CASE Header
  BY <1>1, <1>3 DEF Header, Refused
<1>4. CASE ParseSection
  BY <1>1, <1>4 DEF ParseSection, Refused
<1>5. CASE Metadata
  BY <1>1, <1>5 DEF Metadata, Refused
<1>6. CASE Layout
  BY <1>1, <1>6 DEF Layout, Refused
<1>7. CASE SymbolTable
  BY <1>1, <1>7 DEF SymbolTable, Refused
<1>8. CASE Relocate
  <2>1. at = "relocate" /\ UNCHANGED checked /\ at' \in {"relocate", "exited"}
    BY <1>8 DEF Relocate, Apply, Skip, Refused
  <2>2. QED
    BY <1>1, <2>1
<1>9. CASE ModuleReturns
  BY <1>9 DEF ModuleReturns, Refused, EntryInv, EntryEarned, image, layout, IsEntryOf, Defines,
             Defined, Placed
<1>10. CASE UNCHANGED vars
  BY <1>10 DEF vars, image, layout, EntryInv, EntryEarned, IsEntryOf, Defines, Defined, Placed
<1>11. QED
  BY <1>2, <1>3, <1>4, <1>5, <1>6, <1>7, <1>8, <1>9, <1>10, VersionEntry, EntryPointsEarned
  DEF Next

(* modexec enters a module only when every import record it read matched,  *)
(* and where its own symbol table last defines init_module and             *)
(* cleanup_module in a section laid out (selinos_kabi_module.c:515-540,    *)
(* 570-610, modexec.c).                                                    *)
THEOREM EntryCorrect == Spec => []EntryEarned
<1>1. Init => EntryInv
  BY DEF Init, EntryInv, EntryEarned
<1>2. EntryInv => EntryEarned
  BY DEF EntryInv
<1>3. QED
  BY Invariance, EntryStep, <1>1, <1>2, PTL DEF Spec

=============================================================================
