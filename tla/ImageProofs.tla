----------------------------- MODULE ImageProofs ----------------------------
(***************************************************************************)
(* Safety of the two readers of untrusted bytes, for every image and any   *)
(* limits.  ELF metadata, for every width of a word: a segment is checked  *)
(* before it is recorded (SegmentInv) and counted when it is (CountInv);   *)
(* the string table is inside one of them from the moment it is located,   *)
(* and so is every name copied from it (NameInv).  The archive of romfsd:  *)
(* the walk of a whole one goes from header to header (WalkInv), and what  *)
(* it has settled is what a reader of the format says (AnswerInv).         *)
(***************************************************************************)
EXTENDS MCImages, FiniteSetTheorems, TLAPS

Stages == {"header", "programs", "dynamic", "tables", "names", "done"}

TypeInv ==
  /\ TypeOK
  /\ copied \in Nat /\ at \in Stages
  /\ at # "done" => verdict = "none"
  /\ at = "header" => programs = <<>>
  /\ summary \in [loads : Nat, writable : Nat, executable : Nat, both : Nat,
                  dynamic : BOOLEAN, interp : BOOLEAN, rela : BOOLEAN, textrel : BOOLEAN]

SegmentInv ==
  \A k \in Loads :
    /\ programs[k].filesz <= programs[k].memsz
    /\ RangeValid(programs[k].offset, programs[k].filesz)
    /\ Congruent(programs[k])

\* What is left of the dynamic segment is whole entries inside the image.
DynamicInv ==
  /\ dynamic \in [next : Nat, end : Nat] /\ dynamic.end <= size
  /\ \E q \in Nat : dynamic.end = dynamic.next + DynSize * q

Located ==
  \E k \in Backing :
    tables.strsz <= programs[k].filesz - (tables.strtab - programs[k].vaddr)

NameInv ==
  /\ at \notin {"names", "done"} => copied = 0
  /\ at \in {"header", "programs"} => needed = <<>>
  /\ at = "tables" => needed # <<>>
  /\ at = "names" => copied < Len(needed)
  /\ at = "names" \/ copied > 0 => Located
  /\ \A n \in 1..copied : needed[n] < tables.strsz
  /\ Accepted => copied = Len(needed)

Flagged(f) == {k \in Loads : f \in programs[k].flags}
WritableCode == {k \in Loads : programs[k].flags = {"W", "X"}}

CountInv ==
  /\ summary.loads = Cardinality(Loads)
  /\ summary.writable = Cardinality(Flagged("W"))
  /\ summary.executable = Cardinality(Flagged("X"))
  /\ summary.both = Cardinality(WritableCode)
  /\ summary.interp <=> \E k \in 1..Len(programs) : programs[k].type = "INTERP"

PolicyInv ==
  /\ summary.textrel <=> tags \cap {"TEXTREL", "FLAGS_TEXTREL"} # {}
  /\ verdict = "loadable" => ~summary.textrel /\ summary.both = 0

IInv == TypeInv /\ SegmentInv /\ DynamicInv /\ NameInv /\ CountInv /\ PolicyInv /\ ReadsInside

-----------------------------------------------------------------------------
(* The sizes, without what only the powers of two need.                    *)
LEMMA Sizes ==
  /\ WordSize \in Nat \ {0} /\ MaxPrograms \in Nat \ {0} /\ MaxLoads \in Nat \ {0}
  /\ MaxNeeded \in Nat \ {0} /\ NameMax \in Nat \ {0} /\ ImageSizes \subseteq Word
BY SizesAssumption

(* A difference or a sum of words that stays a word does not wrap.         *)
LEMMA NoWrap ==
  ASSUME NEW a \in Word, NEW b \in Word
  PROVE  /\ b <= a => Minus(a, b) = a - b
         /\ a + b < WordSize => Plus(a, b) = a + b
<1>0. WordSize \in Nat \ {0}
  BY Sizes
<1>1. \A m \in 0..WordSize - 1 : (m + WordSize) % WordSize = m /\ m % WordSize = m
  BY <1>0
<1>2. ASSUME b <= a PROVE Minus(a, b) = a - b
  <2>1. a - b \in 0..WordSize - 1 /\ a + WordSize - b = (a - b) + WordSize
    BY <1>0, <1>2 DEF Word
  <2>2. QED
    BY <1>1, <2>1 DEF Minus
<1>3. ASSUME a + b < WordSize PROVE Plus(a, b) = a + b
  <2>1. a + b \in 0..WordSize - 1
    BY <1>0, <1>3 DEF Word
  <2>2. QED
    BY <1>1, <2>1 DEF Plus
<1>4. QED
  BY <1>2, <1>3

(* Euclidean division, and what adding a multiple of the divisor does.     *)
LEMMA Division ==
  ASSUME NEW m \in Nat, NEW a \in Nat \ {0}
  PROVE  \E q \in Nat, r \in 0..a - 1 : m = a * q + r /\ m % a = r
<1>1. \A n \in Nat, d \in Nat \ {0} : n % d = n - d * (n \div d)
  OBVIOUS
<1>2. \A n \in Nat, d \in Nat \ {0} : n \div d \in Nat /\ n % d \in 0..d - 1
  OBVIOUS
<1>3. \A q \in Nat : a * q \in Nat
  OBVIOUS
<1> DEFINE q == m \div a
           r == m % a
<1>4. q \in Nat /\ r \in 0..a - 1 /\ r = m - a * q /\ a * q \in Nat
  BY <1>1, <1>2, <1>3
<1>5. m % a = r
  OBVIOUS
<1> HIDE DEF q, r
<1>6. m = a * q + r
  BY <1>4
<1>7. QED
  BY <1>4, <1>5, <1>6

LEMMA SameRemainder ==
  ASSUME NEW a \in Nat \ {0}, NEW x \in Nat, NEW q \in Nat
  PROVE  (x + a * q) % a = x % a
<1>1. PICK t \in Nat, r \in 0..a - 1 : x = a * t + r /\ x % a = r
  BY Division
<1>2. \A d \in Nat \ {0}, n \in Nat : \A s \in 0..d - 1 : (d * n + s) % d = s
  OBVIOUS
<1>3. x + a * q = a * (t + q) + r
  BY <1>1
<1>4. t + q \in Nat
  OBVIOUS
<1>5. QED
  BY <1>1, <1>2, <1>3, <1>4

(* The wrapped difference is a multiple of a divisor of the word's modulus *)
(* exactly as the difference in unbounded arithmetic is.                   *)
LEMMA CongruentExactly ==
  ASSUME NEW v \in Word, NEW o \in Word, NEW a \in Word, a > 0,
         WordSize % a = 0, Minus(v, o) % a = 0
  PROVE  v % a = o % a
<1>0. WordSize \in Nat \ {0} /\ v \in Nat /\ o \in Nat /\ a \in Nat \ {0}
      /\ v < WordSize /\ o < WordSize
  BY Sizes DEF Word
<1>1. \A m \in Nat : m % a = 0 => \E q \in Nat : m = a * q
  <2> SUFFICES ASSUME NEW m \in Nat, m % a = 0 PROVE \E q \in Nat : m = a * q
    OBVIOUS
  <2>1. PICK q \in Nat, r \in 0..a - 1 : m = a * q + r /\ m % a = r
    BY <1>0, Division
  <2>2. a * q \in Nat /\ r = 0
    BY <1>0, <2>1
  <2>3. m = a * q
    BY <2>1, <2>2
  <2>4. QED
    BY <2>3
<1>2. CASE o <= v
  <2>1. v - o \in Nat /\ (v - o) % a = 0
    BY <1>0, <1>2, NoWrap
  <2>2. PICK q \in Nat : v - o = a * q
    BY <1>1, <2>1
  <2>3. v = o + a * q
    BY <1>0, <2>2
  <2>4. QED
    BY <1>0, <2>3, SameRemainder
<1>3. CASE v < o
  <2>1. Minus(v, o) = v + WordSize - o
    <3>1. v + WordSize - o \in 0..WordSize - 1
      BY <1>0, <1>3
    <3>2. \A m \in 0..WordSize - 1 : m % WordSize = m
      BY <1>0
    <3>3. QED
      BY <3>1, <3>2 DEF Minus
  <2>2. v + WordSize - o \in Nat
    BY <1>0, <1>3
  <2>3. PICK q \in Nat : v + WordSize - o = a * q
    BY <1>1, <2>1, <2>2
  <2>4. PICK w \in Nat : WordSize = a * w
    BY <1>0, <1>1
  <2>5. v + a * w = o + a * q
    <3>1. v + WordSize = o + a * q
      <4>1. a * q \in Nat
        BY <1>0
      <4>2. QED
        BY <1>0, <2>3, <4>1
    <3>2. QED
      BY <2>4, <3>1
  <2>6. (v + a * w) % a = v % a /\ (o + a * q) % a = o % a
    BY <1>0, SameRemainder
  <2>7. QED
    BY <2>5, <2>6
<1>4. QED
  BY <1>0, <1>2, <1>3

-----------------------------------------------------------------------------
(* Nothing is read, recorded or counted before the header.                 *)
LEMMA InitIInv == Init => IInv
<1> SUFFICES ASSUME Init PROVE IInv
  OBVIOUS
<1> USE Sizes DEF Init, Cleared, Accepted
<1>1. TypeInv
  BY DEF TypeInv, TypeOK, Stages, Word
<1>2. Loads = {}
  BY DEF Loads
<1>3. SegmentInv
  BY <1>2 DEF SegmentInv
<1>4. DynamicInv
  BY DEF DynamicInv, DynSize, Word
<1>5. NameInv
  BY DEF NameInv
<1>6. CountInv
  <2>1. Flagged("W") = {} /\ Flagged("X") = {} /\ WritableCode = {}
    BY <1>2 DEF Flagged, WritableCode
  <2>2. Cardinality({}) = 0
    BY FS_EmptySet
  <2>3. summary.interp = FALSE /\ ~\E k \in 1..Len(programs) : programs[k].type = "INTERP"
    OBVIOUS
  <2>4. QED
    BY <1>2, <2>1, <2>2, <2>3 DEF CountInv
<1>7. PolicyInv /\ ReadsInside
  <2>1. size \in Nat
    BY DEF Word
  <2>2. summary.textrel = FALSE /\ tags \cap {"TEXTREL", "FLAGS_TEXTREL"} = {}
    OBVIOUS
  <2>3. QED
    BY <2>1, <2>2 DEF PolicyInv, ReadsInside
<1>8. QED
  BY <1>1, <1>3, <1>4, <1>5, <1>6, <1>7 DEF IInv

(* What is said of the segments depends on the program headers alone, and  *)
(* where the string table lies on them and the tables.                     *)
LEMMA SegmentsFrame ==
  ASSUME SegmentInv, CountInv, UNCHANGED <<size, programs>>,
         summary'.loads = summary.loads, summary'.writable = summary.writable,
         summary'.executable = summary.executable, summary'.both = summary.both,
         summary'.interp = summary.interp
  PROVE  SegmentInv' /\ CountInv'
<1>1. Loads' = Loads
  BY DEF Loads
<1>2. SegmentInv'
  BY <1>1 DEF SegmentInv, RangeValid, Congruent, PowerOfTwo, Minus
<1>3. Flagged("W")' = Flagged("W") /\ Flagged("X")' = Flagged("X")
      /\ WritableCode' = WritableCode
  BY <1>1 DEF Flagged, WritableCode
<1>4. CountInv'
  BY <1>1, <1>3 DEF CountInv
<1>5. QED
  BY <1>2, <1>4

LEMMA LocatedFrame ==
  ASSUME UNCHANGED <<programs, tables>> PROVE Located' = Located /\ Backing' = Backing
BY DEF Located, Backing, Loads, Backs, Minus

(* The header and everything that ends the parse without a new record.     *)
LEMMA HeaderStep == ASSUME IInv, Header PROVE IInv'
<1> USE DEF Header, Done, input, scan
<1>0. TypeInv /\ SegmentInv /\ DynamicInv /\ NameInv /\ CountInv /\ PolicyInv
  BY DEF IInv
<1>1. PICK n \in 0..MaxPrograms + 1, phoff \in Word :
        \/ touched' \in {0, EhdrSize} /\ at' = "done" /\ phnum' = phnum
           /\ verdict' \in {"TRUNCATED", "ELF", "ARCH", "TYPE", "PROGRAM_HEADERS"}
           /\ (touched' = EhdrSize => size >= EhdrSize)
        \/ /\ n \in 1..MaxPrograms /\ RangeValid(phoff, n * PhdrSize) /\ phnum' = n
           /\ at' = "programs" /\ touched' = phoff + n * PhdrSize /\ verdict' = verdict
  <2>1. size \in Nat
    BY <1>0, Sizes DEF TypeInv, TypeOK, Word
  <2>2. QED
    BY <2>1 DEF EhdrSize
<1>2. programs = <<>> /\ verdict = "none" /\ at = "header" /\ size \in Nat
  BY <1>0, Sizes DEF TypeInv, TypeOK, Word
<1>3. TypeInv'
  <2>1. phnum' \in 0..MaxPrograms /\ Len(programs') <= phnum' /\ at' \in Stages \ {"header"}
        /\ (at' # "done" => verdict' = "none")
    BY <1>0, <1>1, <1>2, Sizes DEF TypeInv, TypeOK, Stages
  <2>2. UNCHANGED <<size, programs, tables, needed, copied, summary>>
    OBVIOUS
  <2>3. QED
    BY <1>0, <2>1, <2>2 DEF TypeInv, TypeOK
<1>4. SegmentInv' /\ CountInv'
  BY <1>0, SegmentsFrame
<1>5. DynamicInv'
  BY <1>0 DEF DynamicInv
<1>6. NameInv'
  BY <1>0, <1>1, <1>2, LocatedFrame DEF NameInv, Accepted
<1>7. PolicyInv'
  BY <1>0, <1>1, <1>2 DEF PolicyInv
<1>8. ReadsInside'
  BY <1>1, <1>2 DEF ReadsInside, RangeValid, EhdrSize, PhdrSize, Word
<1>9. QED
  BY <1>3, <1>4, <1>5, <1>6, <1>7, <1>8 DEF IInv

(* A record appended is a new element of the sets it belongs to.           *)
LEMMA Recorded ==
  ASSUME programs \in Seq(Programs), NEW p \in Programs, programs' = Append(programs, p)
  PROVE  LET n == Len(programs) + 1 IN
         /\ n \in Nat /\ n \notin Loads /\ IsFiniteSet(Loads) /\ IsFiniteSet(WritableCode)
         /\ \A f \in {"W", "X"} : IsFiniteSet(Flagged(f))
         /\ \A k \in Loads : programs'[k] = programs[k]
         /\ programs'[n] = p
         /\ Loads' = IF p.type = "LOAD" THEN Loads \cup {n} ELSE Loads
         /\ WritableCode' = IF p.type = "LOAD" /\ p.flags = {"W", "X"}
                              THEN WritableCode \cup {n} ELSE WritableCode
         /\ \A f \in {"W", "X"} :
              Flagged(f)' = IF p.type = "LOAD" /\ f \in p.flags
                              THEN Flagged(f) \cup {n} ELSE Flagged(f)
         /\ (\E k \in 1..Len(programs') : programs'[k].type = "INTERP")
              <=> (\E k \in 1..Len(programs) : programs[k].type = "INTERP") \/ p.type = "INTERP"
<1> DEFINE n == Len(programs) + 1
<1>1. /\ Len(programs) \in Nat /\ n \in Nat /\ Len(programs') = n /\ programs'[n] = p
      /\ \A k \in 1..Len(programs) : programs'[k] = programs[k]
  OBVIOUS
<1>2. 1..Len(programs') = (1..Len(programs)) \cup {n} /\ n \notin 1..Len(programs)
  BY <1>1
<1>3. IsFiniteSet(1..Len(programs))
  BY <1>1, FS_Interval
<1>4. Loads \subseteq 1..Len(programs) /\ WritableCode \subseteq 1..Len(programs)
      /\ \A f \in {"W", "X"} : Flagged(f) \subseteq 1..Len(programs)
  BY DEF Loads, WritableCode, Flagged
<1>5. IsFiniteSet(Loads) /\ IsFiniteSet(WritableCode)
      /\ \A f \in {"W", "X"} : IsFiniteSet(Flagged(f))
  BY <1>3, <1>4, FS_Subset
<1> HIDE DEF n
<1>6. Loads' = IF p.type = "LOAD" THEN Loads \cup {n} ELSE Loads
  BY <1>1, <1>2 DEF Loads
<1>7. WritableCode' = IF p.type = "LOAD" /\ p.flags = {"W", "X"}
                        THEN WritableCode \cup {n} ELSE WritableCode
  BY <1>1, <1>2, <1>4, <1>6 DEF WritableCode
<1>8. \A f \in {"W", "X"} :
        Flagged(f)' = IF p.type = "LOAD" /\ f \in p.flags
                        THEN Flagged(f) \cup {n} ELSE Flagged(f)
  BY <1>1, <1>2, <1>4, <1>6 DEF Flagged
<1>9. (\E k \in 1..Len(programs') : programs'[k].type = "INTERP")
        <=> (\E k \in 1..Len(programs) : programs[k].type = "INTERP") \/ p.type = "INTERP"
  BY <1>1, <1>2
<1>10. QED
  BY <1>1, <1>2, <1>4, <1>5, <1>6, <1>7, <1>8, <1>9 DEF n

(* A program header that is accepted has passed the checks, and is counted *)
(* with its flags; only a load segment counts.                             *)
LEMMA ProgramStep == ASSUME IInv, Program PROVE IInv'
<1> USE DEF input, Done
<1>0. TypeInv /\ SegmentInv /\ DynamicInv /\ NameInv /\ CountInv /\ PolicyInv
  BY DEF IInv
<1>1. PICK p \in Programs : Load(p) \/ Interp(p) \/ Dynamic(p) \/ Other(p)
  BY DEF Program
<1>2. /\ at = "programs" /\ Len(programs) < phnum /\ verdict = "none" /\ size \in Nat
      /\ UNCHANGED <<size, interpOk, phnum, tables, tags, needed, copied>>
      /\ programs \in Seq(Programs) /\ needed = <<>> /\ copied = 0 /\ phnum \in Nat
  BY <1>0, Sizes DEF Program, TypeInv, TypeOK, NameInv, Word
<1>3. p.offset \in Nat /\ p.filesz \in Nat /\ p.memsz \in Nat /\ p.flags \in SUBSET {"W", "X"}
      /\ p.type \in {"LOAD", "INTERP", "DYNAMIC", "other"}
  BY ContentsAssumption, Sizes DEF ProgramHeader, Word
\* Either the parse ends with what it has, or the header is recorded.
<1> DEFINE Ends == /\ UNCHANGED <<programs, summary, dynamic>> /\ at' = "done"
                   /\ verdict' \in {"SEGMENT", "POLICY", "DYNAMIC"}
           Records ==
             /\ programs' = Append(programs, p) /\ at' = at /\ verdict' = verdict
             /\ p.type = "LOAD" =>
                  /\ p.filesz <= p.memsz /\ RangeValid(p.offset, p.filesz) /\ Congruent(p)
                  /\ summary.loads # MaxLoads /\ summary' = Counted(summary, p)
             /\ p.type = "INTERP" => summary' = [summary EXCEPT !.interp = TRUE]
             /\ p.type = "DYNAMIC" => summary' = [summary EXCEPT !.dynamic = TRUE]
             /\ p.type = "other" => summary' = summary
             /\ \/ dynamic' = dynamic
                \/ /\ RangeValid(p.offset, p.filesz) /\ p.filesz % DynSize = 0
                   /\ dynamic' = [next |-> p.offset, end |-> p.offset + p.filesz]
<1>4. Ends \/ Records
  <2>1. CASE Load(p)
    <3>1. ~(p.filesz > p.memsz) => p.filesz <= p.memsz
      BY <1>3
    <3>2. QED
      BY <2>1, <3>1 DEF Load
  <2>2. CASE Interp(p)
    BY <2>2 DEF Interp
  <2>3. CASE Dynamic(p)
    BY <2>3 DEF Dynamic
  <2>4. CASE Other(p)
    BY <2>4 DEF Other
  <2>5. QED
    BY <1>1, <2>1, <2>2, <2>3, <2>4
<1>5. touched' <= size
  <2>1. CASE Interp(p)
    <3>1. CASE touched' = 0
      BY <1>2, <3>1
    <3>2. CASE touched' # 0
      <4>1. RangeValid(p.offset, p.filesz)
            /\ \E nul \in 0..p.filesz : touched' = p.offset + LookedAt(nul, p.filesz)
        BY <2>1, <3>2 DEF Interp, Copy
      <4>2. \A nul \in 0..p.filesz : LookedAt(nul, p.filesz) <= p.filesz
                                      /\ LookedAt(nul, p.filesz) \in Nat
        BY <1>3, Sizes DEF LookedAt
      <4>3. QED
        BY <1>2, <1>3, <4>1, <4>2 DEF RangeValid
    <3>3. QED
      BY <3>1, <3>2
  <2>2. CASE Load(p) \/ Dynamic(p) \/ Other(p)
    BY <1>2, <2>2 DEF Load, Dynamic, Other
  <2>3. QED
    BY <1>1, <2>1, <2>2
<1> HIDE DEF Ends, Records
<1>6. CASE Ends
  <2> USE <1>6 DEF Ends
  <2>1. TypeInv'
    BY <1>0, <1>2 DEF TypeInv, TypeOK, Stages
  <2>2. SegmentInv' /\ CountInv'
    BY <1>0, <1>2, SegmentsFrame
  <2>3. DynamicInv' /\ PolicyInv' /\ ReadsInside'
    BY <1>0, <1>2, <1>5 DEF DynamicInv, PolicyInv, ReadsInside
  <2>4. NameInv'
    BY <1>0, <1>2 DEF NameInv, Accepted
  <2>5. QED
    BY <2>1, <2>2, <2>3, <2>4 DEF IInv
<1>7. CASE Records
  <2> DEFINE n == Len(programs) + 1
  <2>1. programs' = Append(programs, p) /\ at' = at /\ verdict' = verdict
    BY <1>7 DEF Records
  <2>2. /\ n \in Nat /\ n \notin Loads /\ IsFiniteSet(Loads) /\ IsFiniteSet(WritableCode)
        /\ IsFiniteSet(Flagged("W")) /\ IsFiniteSet(Flagged("X"))
        /\ \A k \in Loads : programs'[k] = programs[k]
        /\ programs'[n] = p
        /\ Loads' = (IF p.type = "LOAD" THEN Loads \cup {n} ELSE Loads)
    BY <1>2, <2>1, Recorded
  <2>3. /\ WritableCode' = (IF p.type = "LOAD" /\ p.flags = {"W", "X"}
                              THEN WritableCode \cup {n} ELSE WritableCode)
        /\ Flagged("W")' = (IF p.type = "LOAD" /\ "W" \in p.flags
                              THEN Flagged("W") \cup {n} ELSE Flagged("W"))
        /\ Flagged("X")' = (IF p.type = "LOAD" /\ "X" \in p.flags
                              THEN Flagged("X") \cup {n} ELSE Flagged("X"))
    BY <1>2, <2>1, Recorded
  <2>4. (\E k \in 1..Len(programs') : programs'[k].type = "INTERP")
          <=> (\E k \in 1..Len(programs) : programs[k].type = "INTERP") \/ p.type = "INTERP"
    BY <1>2, <2>1, Recorded
  <2>5. Len(programs') = n /\ Len(programs) \in Nat /\ programs' \in Seq(Programs)
    BY <1>2, <2>1
  <2>6. n \notin WritableCode /\ n \notin Flagged("W") /\ n \notin Flagged("X")
    BY <2>2 DEF WritableCode, Flagged
  <2> HIDE DEF n
  <2>7. summary \in [loads : Nat, writable : Nat, executable : Nat, both : Nat,
                      dynamic : BOOLEAN, interp : BOOLEAN, rela : BOOLEAN, textrel : BOOLEAN]
        /\ summary.loads <= MaxLoads
    BY <1>0 DEF TypeInv, TypeOK
  <2> DEFINE Summary == [loads : Nat, writable : Nat, executable : Nat, both : Nat,
                         dynamic : BOOLEAN, interp : BOOLEAN, rela : BOOLEAN, textrel : BOOLEAN]
  <2>8. /\ summary'.loads = summary.loads + (IF p.type = "LOAD" THEN 1 ELSE 0)
        /\ summary'.writable = summary.writable + (IF p.type = "LOAD" /\ "W" \in p.flags THEN 1 ELSE 0)
        /\ summary'.executable = summary.executable + (IF p.type = "LOAD" /\ "X" \in p.flags THEN 1 ELSE 0)
        /\ summary'.both = summary.both + (IF p.type = "LOAD" /\ p.flags = {"W", "X"} THEN 1 ELSE 0)
        /\ summary'.loads <= MaxLoads
        /\ summary' \in [loads : Nat, writable : Nat, executable : Nat, both : Nat,
                          dynamic : BOOLEAN, interp : BOOLEAN, rela : BOOLEAN, textrel : BOOLEAN]
    <3>1. CASE p.type = "LOAD"
      <4>1. summary' = Counted(summary, p) /\ summary.loads # MaxLoads
        BY <1>7, <3>1 DEF Records
      <4>2. \A b \in BOOLEAN : Count(b) \in Nat /\ Count(b) = IF b THEN 1 ELSE 0
        BY DEF Count
      <4>3. /\ summary'.loads = summary.loads + 1
            /\ summary'.writable = summary.writable + Count("W" \in p.flags)
            /\ summary'.executable = summary.executable + Count("X" \in p.flags)
            /\ summary'.both = summary.both + Count(p.flags = {"W", "X"})
        BY <2>7, <4>1 DEF Counted
      <4>4. summary' \in Summary
        <5> DEFINE l == summary.loads + 1
                   w == summary.writable + Count("W" \in p.flags)
                   x == summary.executable + Count("X" \in p.flags)
                   b == summary.both + Count(p.flags = {"W", "X"})
        <5>1. summary' = [summary EXCEPT !.loads = l, !.writable = w, !.executable = x, !.both = b]
          BY <2>7, <4>1 DEF Counted
        <5>2. Count("W" \in p.flags) \in Nat /\ Count("X" \in p.flags) \in Nat
              /\ Count(p.flags = {"W", "X"}) \in Nat
          BY DEF Count
        <5>3. l \in Nat /\ w \in Nat /\ x \in Nat /\ b \in Nat
          BY <2>7, <5>2
        <5> HIDE DEF l, w, x, b
        <5>4. QED
          BY <2>7, <5>1, <5>3
      <4>5. summary'.loads <= MaxLoads
        BY <2>7, <4>1, <4>3, Sizes
      <4>6. QED
        BY <3>1, <4>3, <4>4, <4>5 DEF Count
    <3>2. CASE p.type = "INTERP"
      <4>1. summary' = [summary EXCEPT !.interp = TRUE]
        BY <1>7, <3>2 DEF Records
      <4>2. summary' \in Summary /\ summary'.loads = summary.loads
            /\ summary'.writable = summary.writable /\ summary'.executable = summary.executable
            /\ summary'.both = summary.both
        BY <2>7, <4>1
      <4>3. p.type # "LOAD"
        BY <3>2
      <4>4. QED
        BY <2>7, <4>2, <4>3
    <3>3. CASE p.type = "DYNAMIC"
      <4>1. summary' = [summary EXCEPT !.dynamic = TRUE]
        BY <1>7, <3>3 DEF Records
      <4>2. summary' \in Summary /\ summary'.loads = summary.loads
            /\ summary'.writable = summary.writable /\ summary'.executable = summary.executable
            /\ summary'.both = summary.both
        BY <2>7, <4>1
      <4>3. p.type # "LOAD"
        BY <3>3
      <4>4. QED
        BY <2>7, <4>2, <4>3
    <3>4. CASE p.type = "other"
      BY <1>7, <2>7, <3>4 DEF Records
    <3>5. QED
      BY <1>3, <3>1, <3>2, <3>3, <3>4
  <2>f. (summary'.interp <=> summary.interp \/ p.type = "INTERP")
        /\ summary'.textrel = summary.textrel
    <3>1. CASE p.type = "LOAD"
      <4>1. summary' = Counted(summary, p)
        BY <1>7, <3>1 DEF Records
      <4>2. summary'.interp = summary.interp /\ summary'.textrel = summary.textrel
        BY <2>7, <4>1 DEF Counted
      <4>3. QED
        BY <3>1, <4>2
    <3>2. CASE p.type = "INTERP"
      <4>1. summary' = [summary EXCEPT !.interp = TRUE]
        BY <1>7, <3>2 DEF Records
      <4>2. summary'.interp = TRUE /\ summary'.textrel = summary.textrel
        BY <2>7, <4>1
      <4>3. QED
        BY <3>2, <4>2
    <3>3. CASE p.type = "DYNAMIC"
      <4>1. summary' = [summary EXCEPT !.dynamic = TRUE]
        BY <1>7, <3>3 DEF Records
      <4>2. summary'.interp = summary.interp /\ summary'.textrel = summary.textrel
        BY <2>7, <4>1
      <4>3. QED
        BY <3>3, <4>2
    <3>4. CASE p.type = "other"
      BY <1>7, <3>4 DEF Records
    <3>5. QED
      BY <1>3, <3>1, <3>2, <3>3, <3>4
  <2>9. TypeInv'
    <3>1. Len(programs') <= phnum'
      BY <1>2, <2>5 DEF n
    <3>2. QED
      BY <1>0, <1>2, <2>1, <2>5, <2>8, <3>1 DEF TypeInv, TypeOK
  <2>10. SegmentInv'
    <3>1. \A k \in Loads' : k \in Loads \/ (k = n /\ p.type = "LOAD")
      BY <2>2
    <3>2. SegmentInv /\ size' = size
      BY <1>0, <1>2
    <3>3. p.type = "LOAD" => /\ p.filesz <= p.memsz /\ RangeValid(p.offset, p.filesz)
                             /\ Congruent(p)
      BY <1>7 DEF Records
    <3>4. QED
      BY <2>2, <3>1, <3>2, <3>3 DEF SegmentInv, RangeValid, Congruent, PowerOfTwo, Minus
  <2>11. DynamicInv'
    <3>1. CASE dynamic' = dynamic
      BY <1>0, <1>2, <3>1 DEF DynamicInv
    <3>2. CASE /\ RangeValid(p.offset, p.filesz) /\ p.filesz % DynSize = 0
               /\ dynamic' = [next |-> p.offset, end |-> p.offset + p.filesz]
      <4>1. PICK q \in Nat, r \in 0..DynSize - 1 : p.filesz = DynSize * q + r /\ p.filesz % DynSize = r
        <5>1. DynSize \in Nat \ {0}
          BY DEF DynSize
        <5>2. QED
          BY <1>3, <5>1, Division
      <4>2. p.filesz = DynSize * q
        BY <1>3, <3>2, <4>1 DEF DynSize
      <4>3. p.offset + p.filesz <= size
        BY <1>2, <1>3, <3>2 DEF RangeValid
      <4>4. QED
        BY <1>2, <1>3, <3>2, <4>2, <4>3 DEF DynamicInv
    <3>3. QED
      BY <1>7, <3>1, <3>2 DEF Records
  <2>12. NameInv'
    BY <1>0, <1>2, <2>1 DEF NameInv, Accepted
  <2>13. CountInv'
    <3>1. \A S : IsFiniteSet(S) /\ n \notin S => Cardinality(S \cup {n}) = Cardinality(S) + 1
      BY FS_AddElement
    <3>2. /\ summary.loads = Cardinality(Loads) /\ summary.writable = Cardinality(Flagged("W"))
          /\ summary.executable = Cardinality(Flagged("X")) /\ summary.both = Cardinality(WritableCode)
          /\ summary.interp <=> \E k \in 1..Len(programs) : programs[k].type = "INTERP"
      BY <1>0 DEF CountInv
    <3>3. summary'.loads = Cardinality(Loads')
      BY <2>2, <2>7, <2>8, <3>1, <3>2
    <3>4. summary'.writable = Cardinality(Flagged("W")')
      <4>1. CASE p.type = "LOAD" /\ "W" \in p.flags
        <5>1. Flagged("W")' = Flagged("W") \cup {n}
          BY <2>3, <4>1, Zenon
        <5>2. Cardinality(Flagged("W")') = Cardinality(Flagged("W")) + 1
          BY <2>2, <2>6, <3>1, <5>1, Zenon
        <5>3. summary'.writable = summary.writable + 1
          BY <2>8, <4>1, Zenon
        <5>4. QED
          BY <3>2, <5>2, <5>3, Zenon
      <4>2. CASE ~(p.type = "LOAD" /\ "W" \in p.flags)
        <5>1. Flagged("W")' = Flagged("W")
          BY <2>3, <4>2, Zenon
        <5>2. summary'.writable = summary.writable + 0 /\ summary.writable \in Nat
          BY <2>7, <2>8, <4>2
        <5>3. QED
          BY <3>2, <5>1, <5>2
      <4>3. QED
        BY <4>1, <4>2, Zenon
    <3>5. summary'.executable = Cardinality(Flagged("X")')
      <4>1. CASE p.type = "LOAD" /\ "X" \in p.flags
        <5>1. Flagged("X")' = Flagged("X") \cup {n}
          BY <2>3, <4>1, Zenon
        <5>2. Cardinality(Flagged("X")') = Cardinality(Flagged("X")) + 1
          BY <2>2, <2>6, <3>1, <5>1, Zenon
        <5>3. summary'.executable = summary.executable + 1
          BY <2>8, <4>1, Zenon
        <5>4. QED
          BY <3>2, <5>2, <5>3, Zenon
      <4>2. CASE ~(p.type = "LOAD" /\ "X" \in p.flags)
        <5>1. Flagged("X")' = Flagged("X")
          BY <2>3, <4>2, Zenon
        <5>2. summary'.executable = summary.executable + 0 /\ summary.executable \in Nat
          BY <2>7, <2>8, <4>2
        <5>3. QED
          BY <3>2, <5>1, <5>2
      <4>3. QED
        BY <4>1, <4>2, Zenon
    <3>6. summary'.both = Cardinality(WritableCode')
      <4>1. CASE p.type = "LOAD" /\ p.flags = {"W", "X"}
        <5>1. WritableCode' = WritableCode \cup {n}
          BY <2>3, <4>1, Zenon
        <5>2. Cardinality(WritableCode') = Cardinality(WritableCode) + 1
          BY <2>2, <2>6, <3>1, <5>1, Zenon
        <5>3. summary'.both = summary.both + 1
          BY <2>8, <4>1, Zenon
        <5>4. QED
          BY <3>2, <5>2, <5>3, Zenon
      <4>2. CASE ~(p.type = "LOAD" /\ p.flags = {"W", "X"})
        <5>1. WritableCode' = WritableCode
          BY <2>3, <4>2, Zenon
        <5>2. summary'.both = summary.both + 0 /\ summary.both \in Nat
          BY <2>7, <2>8, <4>2
        <5>3. QED
          BY <3>2, <5>1, <5>2
      <4>3. QED
        BY <4>1, <4>2, Zenon
    <3>7. summary'.interp <=> \E k \in 1..Len(programs') : programs'[k].type = "INTERP"
      BY <2>4, <2>f, <3>2
    <3>8. QED
      BY <3>3, <3>4, <3>5, <3>6, <3>7 DEF CountInv
  <2>14. PolicyInv' /\ ReadsInside'
    <3>1. verdict' # "loadable" /\ tags' = tags
      BY <1>2, <2>1
    <3>2. QED
      BY <1>0, <1>2, <1>5, <2>f, <3>1 DEF PolicyInv, ReadsInside
  <2>15. QED
    BY <2>9, <2>10, <2>11, <2>12, <2>13, <2>14 DEF IInv
<1>8. QED
  BY <1>4, <1>6, <1>7

(* What stays of the invariant while headers, tables and counts stay.      *)
LEMMA SummaryFrame ==
  ASSUME IInv, UNCHANGED <<size, programs, summary>>
  PROVE  SegmentInv' /\ CountInv'
BY SegmentsFrame DEF IInv

(* The scan of the dynamic entries is begun, or the parse ends without it. *)
LEMMA ProgramsEndStep == ASSUME IInv, ProgramsEnd PROVE IInv'
<1> USE DEF ProgramsEnd, Done, input, scan
<1>0. TypeInv /\ DynamicInv /\ NameInv /\ PolicyInv
  BY DEF IInv
<1>1. /\ at = "programs" /\ verdict = "none" /\ needed = <<>> /\ copied = 0 /\ size \in Nat
      /\ \/ at' = "done" /\ verdict' \in {"SEGMENT", "OK"}
         \/ at' = "dynamic" /\ verdict' = verdict
  BY <1>0, Sizes DEF TypeInv, TypeOK, NameInv, Word
<1>2. TypeInv'
  BY <1>0, <1>1 DEF TypeInv, TypeOK, Stages
<1>3. SegmentInv' /\ CountInv'
  BY SummaryFrame
<1>4. DynamicInv' /\ PolicyInv' /\ ReadsInside'
  BY <1>0, <1>1 DEF DynamicInv, PolicyInv, ReadsInside
<1>5. NameInv'
  BY <1>0, <1>1 DEF NameInv, Accepted
<1>6. QED
  BY <1>2, <1>3, <1>4, <1>5 DEF IInv

(* An entry is read whole, and what it says of relocations is remembered.  *)
LEMMA DynamicEntryStep == ASSUME IInv, DynamicEntry PROVE IInv'
<1> USE DEF input, Done
<1>0. TypeInv /\ SegmentInv /\ DynamicInv /\ NameInv /\ CountInv /\ PolicyInv
  BY DEF IInv
<1>1. PICK e \in Entries :
        /\ touched' = dynamic.next + DynSize
        /\ dynamic' = [dynamic EXCEPT !.next = touched']
        /\ tags' = tags \cup {e.tag}
        /\ tables' = [strtab |-> IF e.tag = "STRTAB" THEN e.value ELSE tables.strtab,
                       strsz |-> IF e.tag = "STRSZ" THEN e.value ELSE tables.strsz]
        /\ summary' = [summary EXCEPT !.rela = @ \/ e.tag = "RELA",
             !.textrel = @ \/ e.tag \in {"TEXTREL", "FLAGS_TEXTREL"}]
        /\ \/ /\ needed' = needed
              /\ \/ at' = "done" /\ verdict' = "OK" /\ needed = <<>>
                 \/ at' = "done" /\ verdict' = "POLICY"
                 \/ at' = "tables" /\ verdict' = verdict /\ needed # <<>>
                 \/ at' = at /\ verdict' = verdict
           \/ /\ needed' = Append(needed, e.value) /\ Len(needed) < MaxNeeded
              /\ at' = at /\ verdict' = verdict
  BY DEF DynamicEntry, NeededFits
<1>2. /\ at = "dynamic" /\ dynamic.next < dynamic.end /\ verdict = "none" /\ copied = 0
      /\ UNCHANGED <<size, interpOk, phnum, programs, copied>>
      /\ size \in Nat /\ needed \in Seq(Word) /\ Len(needed) <= MaxNeeded
  BY <1>0, Sizes DEF DynamicEntry, TypeInv, TypeOK, NameInv, Word
<1>3. e.value \in Word
  BY ContentsAssumption
<1>4. /\ summary' \in [loads : Nat, writable : Nat, executable : Nat, both : Nat,
                        dynamic : BOOLEAN, interp : BOOLEAN, rela : BOOLEAN, textrel : BOOLEAN]
      /\ summary'.loads = summary.loads /\ summary'.writable = summary.writable
      /\ summary'.executable = summary.executable /\ summary'.both = summary.both
      /\ summary'.interp = summary.interp
  <2>1. summary \in [loads : Nat, writable : Nat, executable : Nat, both : Nat,
                      dynamic : BOOLEAN, interp : BOOLEAN, rela : BOOLEAN, textrel : BOOLEAN]
    BY <1>0 DEF TypeInv
  <2> DEFINE rela == summary.rela \/ e.tag = "RELA"
             textrel == summary.textrel \/ e.tag \in {"TEXTREL", "FLAGS_TEXTREL"}
  <2>2. rela \in BOOLEAN /\ textrel \in BOOLEAN
    OBVIOUS
  <2>3. summary' = [summary EXCEPT !.rela = rela, !.textrel = textrel]
    BY <1>1, <2>1
  <2> HIDE DEF rela, textrel
  <2>4. QED
    BY <2>1, <2>2, <2>3
<1>5. summary'.textrel <=> summary.textrel \/ e.tag \in {"TEXTREL", "FLAGS_TEXTREL"}
  <2>1. summary \in [loads : Nat, writable : Nat, executable : Nat, both : Nat,
                      dynamic : BOOLEAN, interp : BOOLEAN, rela : BOOLEAN, textrel : BOOLEAN]
    BY <1>0 DEF TypeInv
  <2>2. QED
    BY <1>1, <2>1
<1>6. TypeInv'
  <2>1. needed' \in Seq(Word) /\ Len(needed') <= MaxNeeded /\ Len(needed') >= 0
    BY <1>1, <1>2, <1>3, Sizes
  <2>2. tables' \in [strtab : Word, strsz : Word]
    BY <1>0, <1>1, <1>3 DEF TypeInv, TypeOK
  <2>3. at' \in Stages /\ (at' # "done" => verdict' = "none") /\ at' # "header"
    BY <1>1, <1>2 DEF Stages
  <2>4. copied' <= Len(needed')
    BY <1>2, <2>1
  <2>5. QED
    BY <1>0, <1>2, <1>4, <2>1, <2>2, <2>3, <2>4 DEF TypeInv, TypeOK
<1>7. SegmentInv' /\ CountInv'
  BY <1>0, <1>2, <1>4, SegmentsFrame
<1>8. DynamicInv' /\ ReadsInside'
  <2>1. PICK q \in Nat : dynamic.end = dynamic.next + DynSize * q
    BY <1>0 DEF DynamicInv
  <2>2. dynamic \in [next : Nat, end : Nat] /\ dynamic.end <= size
    BY <1>0 DEF DynamicInv
  <2>3. q - 1 \in Nat /\ dynamic.end = dynamic.next + DynSize + DynSize * (q - 1)
    BY <1>2, <2>1, <2>2 DEF DynSize
  <2>4. dynamic' \in [next : Nat, end : Nat] /\ dynamic'.end = dynamic.end
        /\ dynamic'.next = dynamic.next + DynSize
    BY <1>1, <2>2 DEF DynSize
  <2>5. dynamic.next + DynSize <= dynamic.end
    BY <2>2, <2>3 DEF DynSize
  <2>6. dynamic'.end = dynamic'.next + DynSize * (q - 1)
    BY <2>3, <2>4
  <2>7. QED
    BY <1>1, <1>2, <2>2, <2>3, <2>4, <2>5, <2>6 DEF DynamicInv, ReadsInside, DynSize
<1>9. NameInv'
  BY <1>0, <1>1, <1>2 DEF NameInv, Accepted
<1>10. PolicyInv'
  <2>1. tags' \cap {"TEXTREL", "FLAGS_TEXTREL"} # {}
          <=> tags \cap {"TEXTREL", "FLAGS_TEXTREL"} # {} \/ e.tag \in {"TEXTREL", "FLAGS_TEXTREL"}
    BY <1>1
  <2>2. verdict' # "loadable"
    BY <1>1, <1>2
  <2>3. QED
    BY <1>0, <1>5, <2>1, <2>2 DEF PolicyInv
<1>11. QED
  BY <1>6, <1>7, <1>8, <1>9, <1>10 DEF IInv

LEMMA NoNullStep == ASSUME IInv, NoNull PROVE IInv'
<1> USE DEF NoNull, Done, input, scan
<1>0. TypeInv /\ DynamicInv /\ NameInv /\ PolicyInv
  BY DEF IInv
<1>1. size \in Nat /\ copied = 0 /\ at' = "done" /\ verdict' = "DYNAMIC"
  BY <1>0, Sizes DEF TypeInv, TypeOK, NameInv, Word
<1>2. TypeInv'
  BY <1>0, <1>1 DEF TypeInv, TypeOK, Stages
<1>3. SegmentInv' /\ CountInv'
  BY SummaryFrame
<1>4. DynamicInv' /\ PolicyInv' /\ ReadsInside'
  BY <1>0, <1>1 DEF DynamicInv, PolicyInv, ReadsInside
<1>5. NameInv'
  BY <1>0, <1>1 DEF NameInv, Accepted
<1>6. QED
  BY <1>2, <1>3, <1>4, <1>5 DEF IInv

(* A segment that holds the string table's address does so without wrap.   *)
LEMMA BackingFacts ==
  ASSUME TypeInv, SegmentInv, NEW k \in Backing
  PROVE  /\ k \in Loads /\ k \in Nat /\ \A j \in Backing : j = k
         /\ {programs[k].offset, programs[k].vaddr, programs[k].filesz} \subseteq Word
         /\ tables.strtab \in Word /\ tables.strsz \in Word /\ size \in Word
         /\ programs[k].vaddr <= tables.strtab
         /\ Minus(tables.strtab, programs[k].vaddr) = tables.strtab - programs[k].vaddr
         /\ tables.strtab - programs[k].vaddr < programs[k].filesz
         /\ programs[k].offset + programs[k].filesz <= size
<1>1. k \in Loads /\ Backs(k) /\ k \in Nat
  BY DEF Backing, Loads
<1>2. /\ programs \in Seq(Programs) /\ tables.strtab \in Word /\ tables.strsz \in Word
      /\ size \in Word
  BY Sizes DEF TypeInv, TypeOK
<1>3. programs[k] \in Programs
  BY <1>1, <1>2 DEF Loads
<1>4. {programs[k].offset, programs[k].vaddr, programs[k].filesz} \subseteq Word
  BY <1>3, ContentsAssumption DEF ProgramHeader
<1>5. \A j \in Backing : j = k
  <2> SUFFICES ASSUME NEW j \in Backing PROVE j = k
    OBVIOUS
  <2>1. j \in Nat /\ j <= k /\ k <= j
    BY DEF Backing, Loads
  <2>2. QED
    BY <1>1, <2>1
<1>6. Minus(tables.strtab, programs[k].vaddr) = tables.strtab - programs[k].vaddr
  BY <1>1, <1>2, <1>4, NoWrap DEF Backs
<1>7. programs[k].offset + programs[k].filesz <= size
  <2>1. \A o, f, i \in Word : o <= i /\ f <= i - o => o + f <= i
    BY Sizes DEF Word
  <2>2. RangeValid(programs[k].offset, programs[k].filesz)
    BY <1>1 DEF SegmentInv
  <2>3. QED
    BY <1>2, <1>4, <2>1, <2>2 DEF RangeValid
<1>8. QED
  BY <1>1, <1>2, <1>4, <1>5, <1>6, <1>7 DEF Backs

(* The string table is accepted only inside the segment that holds it.     *)
LEMMA TablesStep == ASSUME IInv, Tables PROVE IInv'
<1> USE DEF Done, input, scan
<1>0. TypeInv /\ SegmentInv /\ DynamicInv /\ NameInv /\ PolicyInv
  BY DEF IInv
<1>1. /\ at = "tables" /\ verdict = "none" /\ copied = 0 /\ needed # <<>> /\ size \in Nat
      /\ UNCHANGED <<size, interpOk, phnum, programs, dynamic, tables, tags, needed, copied, summary>>
      /\ touched' = 0 /\ needed \in Seq(Word)
  BY <1>0, Sizes DEF Tables, TypeInv, TypeOK, NameInv, Word
<1>2. \/ at' = "done" /\ verdict' = "DYNAMIC"
      \/ at' = "names" /\ verdict' = verdict /\ Located
  <2>1. CASE tables.strtab = 0 \/ tables.strsz = 0 \/ Backing = {}
    BY <2>1 DEF Tables
  <2>2. CASE ~(tables.strtab = 0 \/ tables.strsz = 0 \/ Backing = {})
    <3>1. PICK k \in Backing :
            \/ at' = "done" /\ verdict' = "DYNAMIC"
            \/ /\ at' = "names" /\ verdict' = verdict
               /\ ~(tables.strsz > Minus(programs[k].filesz, Minus(tables.strtab, programs[k].vaddr)))
      BY <2>2 DEF Tables
    <3> DEFINE delta == tables.strtab - programs[k].vaddr
    <3>2. /\ Minus(tables.strtab, programs[k].vaddr) = delta
          /\ delta \in Word /\ delta < programs[k].filesz /\ programs[k].filesz \in Word
          /\ tables.strsz \in Word
      BY <1>0, BackingFacts, Sizes DEF Word
    <3>3. Minus(programs[k].filesz, delta) = programs[k].filesz - delta
      <4> HIDE DEF delta
      <4>1. delta <= programs[k].filesz
        BY <3>2, Sizes DEF Word
      <4>2. QED
        BY <3>2, <4>1, NoWrap
    <3>4. ~(tables.strsz > programs[k].filesz - delta) => tables.strsz <= programs[k].filesz - delta
      <4> HIDE DEF delta
      <4>1. QED
        BY <3>2, Sizes DEF Word
    <3>5. QED
      BY <3>1, <3>2, <3>3, <3>4 DEF Located
  <2>3. QED
    BY <2>1, <2>2
<1>3. TypeInv'
  BY <1>0, <1>1, <1>2 DEF TypeInv, TypeOK, Stages
<1>4. SegmentInv' /\ CountInv'
  BY <1>1, SummaryFrame
<1>5. DynamicInv' /\ PolicyInv' /\ ReadsInside'
  BY <1>0, <1>1, <1>2 DEF DynamicInv, PolicyInv, ReadsInside
<1>6. NameInv'
  <2>1. Located' <=> Located
    BY <1>1, LocatedFrame
  <2>2. 0 < Len(needed)
    BY <1>1
  <2>3. QED
    BY <1>0, <1>1, <1>2, <2>1, <2>2 DEF NameInv, Accepted
<1>7. QED
  BY <1>3, <1>4, <1>5, <1>6 DEF IInv

(* A name is looked at inside the string table, thus inside the image.     *)
LEMMA NameStep == ASSUME IInv, Name PROVE IInv'
<1> USE DEF Done, input
<1>0. TypeInv /\ SegmentInv /\ DynamicInv /\ NameInv /\ PolicyInv
  BY DEF IInv
<1> DEFINE nameAt == needed[copied + 1]
<1>1. /\ at = "names" /\ verdict = "none" /\ Located /\ size \in Nat
      /\ UNCHANGED <<size, interpOk, phnum, programs, dynamic, tables, tags, needed, summary>>
      /\ needed \in Seq(Word) /\ copied \in Nat /\ copied < Len(needed)
      /\ \A n \in 1..copied : needed[n] < tables.strsz
  BY <1>0, Sizes DEF Name, TypeInv, TypeOK, NameInv, Word
<1>2. nameAt \in Nat /\ nameAt \in Word /\ tables.strsz \in Nat /\ Len(needed) \in Nat
  <2>1. copied + 1 \in 1..Len(needed)
    BY <1>1
  <2>2. nameAt \in Word /\ tables.strsz \in Word
    BY <1>0, <1>1, <2>1 DEF TypeInv, TypeOK
  <2>3. QED
    BY <1>1, <2>2, Sizes DEF Word
<1>3. \/ at' = "done" /\ verdict' = "DYNAMIC" /\ copied' = copied
      \/ /\ copied' = copied + 1 /\ ~(nameAt >= tables.strsz)
         /\ IF copied' = Len(needed) THEN at' = "done" /\ verdict' = "OK"
            ELSE at' = at /\ verdict' = verdict
  BY DEF Name
<1>4. touched' <= size
  <2>1. CASE touched' = 0
    BY <1>1, <2>1
  <2>2. CASE touched' # 0
    <3>1. ~(nameAt >= tables.strsz)
          /\ \E nul \in 0..tables.strsz - nameAt :
               touched' = StringTable + nameAt + LookedAt(nul, tables.strsz - nameAt)
      BY <2>2 DEF Name, Copy
    <3>2. tables.strsz - nameAt \in Nat
      BY <1>2, <3>1
    <3>3. \A m \in Nat : \A nul \in 0..m : LookedAt(nul, m) <= m /\ LookedAt(nul, m) \in Nat
      BY Sizes DEF LookedAt
    <3>4. PICK k \in Backing :
            tables.strsz <= programs[k].filesz - (tables.strtab - programs[k].vaddr)
      BY <1>1 DEF Located
    <3> DEFINE delta == tables.strtab - programs[k].vaddr
    <3>5. /\ \A j \in Backing : j = k
          /\ programs[k].offset \in Word /\ programs[k].filesz \in Word
          /\ Minus(tables.strtab, programs[k].vaddr) = delta /\ delta \in Word
          /\ delta < programs[k].filesz /\ size \in Word
          /\ programs[k].offset + programs[k].filesz <= size
      BY <1>0, BackingFacts, Sizes DEF Word
    <3> HIDE DEF delta
    <3>6. StringTable = Plus(programs[k].offset, delta)
      <4>1. (CHOOSE j \in Backing : TRUE) = k
        BY <3>5
      <4>2. QED
        BY <3>5, <4>1 DEF StringTable
    <3>7. programs[k].offset \in Nat /\ delta \in Nat /\ programs[k].filesz \in Nat
          /\ programs[k].offset + delta < WordSize
      BY <3>5, Sizes DEF Word
    <3>8. StringTable = programs[k].offset + delta
      BY <3>5, <3>6, <3>7, NoWrap
    <3>9. tables.strsz <= programs[k].filesz - delta
      BY <3>4 DEF delta
    <3>10. PICK nul \in 0..tables.strsz - nameAt :
             touched' = StringTable + nameAt + LookedAt(nul, tables.strsz - nameAt)
      BY <3>1
    <3>11. LookedAt(nul, tables.strsz - nameAt) <= tables.strsz - nameAt
           /\ LookedAt(nul, tables.strsz - nameAt) \in Nat
      BY <3>2, <3>3
    <3>12. \A o, d, f, n, t, a, i \in Nat :
             a <= t - n /\ t <= f - d /\ o + f <= i => o + d + n + a <= i
      OBVIOUS
    <3>13. size \in Nat /\ nameAt \in Nat
      BY <1>1, <1>2
    <3> HIDE DEF nameAt
    <3>14. QED
      BY <1>2, <3>5, <3>7, <3>8, <3>9, <3>10, <3>11, <3>12, <3>13
  <2>3. QED
    BY <2>1, <2>2
<1>5. TypeInv'
  <2>1. copied' \in Nat /\ copied' <= Len(needed)
    BY <1>1, <1>2, <1>3
  <2>2. at' \in Stages /\ (at' # "done" => verdict' = "none") /\ at' # "header"
    BY <1>1, <1>3 DEF Stages
  <2>3. QED
    BY <1>0, <1>1, <2>1, <2>2 DEF TypeInv, TypeOK
<1>6. SegmentInv' /\ CountInv'
  BY <1>1, SummaryFrame
<1>7. DynamicInv' /\ PolicyInv' /\ ReadsInside'
  BY <1>0, <1>1, <1>3, <1>4 DEF DynamicInv, PolicyInv, ReadsInside
<1>8. NameInv'
  <2>1. Located'
    BY <1>1, LocatedFrame
  <2>2. ~(nameAt >= tables.strsz) => nameAt < tables.strsz
    BY <1>2
  <2>3. \A n \in 1..copied' : needed'[n] < tables'.strsz
    <3>1. CASE copied' = copied
      BY <1>1, <3>1
    <3>2. CASE copied' = copied + 1 /\ ~(nameAt >= tables.strsz)
      <4>1. \A n \in 1..copied' : n \in 1..copied \/ n = copied + 1
        BY <1>1, <3>2
      <4>2. QED
        BY <1>1, <2>2, <3>2, <4>1
    <3>3. QED
      BY <1>3, <3>1, <3>2
  <2>4. (at' = "names" => copied' < Len(needed')) /\ (Accepted' => copied' = Len(needed'))
        /\ at' \in {"names", "done"}
    BY <1>1, <1>2, <1>3 DEF Accepted
  <2>5. QED
    BY <2>1, <2>3, <2>4 DEF NameInv
<1>9. QED
  BY <1>5, <1>6, <1>7, <1>8 DEF IInv

(* The policy changes the verdict alone.                                   *)
LEMMA PolicyStep == ASSUME IInv, Policy PROVE IInv'
<1> USE DEF Policy, input, scan
<1>0. TypeInv /\ DynamicInv /\ NameInv /\ PolicyInv
  BY DEF IInv
<1>1. size \in Nat /\ at = "done"
      /\ (verdict' = "loadable" => ~summary.textrel /\ summary.both = 0)
  BY <1>0, Sizes DEF TypeInv, TypeOK, Word
<1>2. TypeInv'
  BY <1>0, <1>1 DEF TypeInv, TypeOK
<1>3. SegmentInv' /\ CountInv'
  BY SummaryFrame
<1>4. DynamicInv' /\ PolicyInv' /\ ReadsInside'
  BY <1>0, <1>1 DEF DynamicInv, PolicyInv, ReadsInside
<1>5. NameInv'
  <2>1. Accepted /\ (Located' <=> Located)
    BY LocatedFrame DEF Accepted
  <2>2. QED
    BY <1>0, <1>1, <2>1 DEF NameInv
<1>6. QED
  BY <1>2, <1>3, <1>4, <1>5 DEF IInv

LEMMA StutterStep == ASSUME IInv, UNCHANGED vars PROVE IInv'
<1> USE DEF vars, input, scan
<1>1. TypeInv' /\ DynamicInv' /\ PolicyInv' /\ ReadsInside'
  BY DEF IInv, TypeInv, TypeOK, DynamicInv, PolicyInv, ReadsInside
<1>2. SegmentInv' /\ CountInv'
  BY SummaryFrame
<1>3. NameInv'
  <2>1. Located' <=> Located
    BY LocatedFrame
  <2>2. QED
    BY <2>1 DEF IInv, NameInv, Accepted
<1>4. QED
  BY <1>1, <1>2, <1>3 DEF IInv

LEMMA IInvStep == IInv /\ [Next]_vars => IInv'
BY HeaderStep, ProgramStep, ProgramsEndStep, DynamicEntryStep, NoNullStep, TablesStep,
   NameStep, PolicyStep, StutterStep DEF Next

-----------------------------------------------------------------------------
(* The invariant of the parse.                                             *)
THEOREM Invariance == Spec => []IInv
<1>1. Init => IInv
  BY InitIInv
<1>2. IInv /\ [Next]_vars => IInv'
  BY IInvStep
<1>3. QED
  BY <1>1, <1>2, PTL DEF Spec

(* Every table, count and verdict of the parser stays in range, for every  *)
(* width of a word, every image and every set of limits.                   *)
THEOREM TypeCorrect == Spec => []TypeOK
<1>1. IInv => TypeOK
  BY DEF IInv, TypeInv
<1>2. QED
  BY <1>1, Invariance, PTL

(* selinos_elfrt_parse_image looks at no byte behind the image, whatever   *)
(* offsets, sizes and addresses its headers and entries state.             *)
THEOREM ReadsCorrect == Spec => []ReadsInside
<1>1. IInv => ReadsInside
  BY DEF IInv
<1>2. QED
  BY <1>1, Invariance, PTL

(* In an accepted image a load segment lies in the file, fits its memory   *)
(* and is congruent to its address, in unbounded arithmetic: the wrapping  *)
(* comparisons of the code lose nothing.                                   *)
THEOREM SegmentsCorrect == Spec => []SegmentsInFile
<1>1. ASSUME IInv, NEW k \in Loads
      PROVE  LET p == programs[k]
             IN /\ p.offset + p.filesz <= size /\ p.filesz <= p.memsz
                /\ p.align > 1 => p.vaddr % p.align = p.offset % p.align
  <2>1. TypeInv /\ SegmentInv
    BY <1>1 DEF IInv
  <2>2. programs[k] \in ProgramHeader
    BY <2>1, ContentsAssumption DEF TypeInv, TypeOK, Loads
  <2> DEFINE p == programs[k]
  <2>3. /\ p.offset \in Word /\ p.vaddr \in Word /\ p.filesz \in Word /\ p.memsz \in Word
        /\ p.align \in Word /\ size \in Word
    BY <2>1, <2>2, Sizes DEF ProgramHeader, TypeInv, TypeOK
  <2>4. p.filesz <= p.memsz /\ RangeValid(p.offset, p.filesz) /\ Congruent(p)
    BY <2>1 DEF SegmentInv
  <2> HIDE DEF p
  <2>5. p.offset + p.filesz <= size
    BY <2>3, <2>4, Sizes DEF RangeValid, Word
  <2>6. ASSUME p.align > 1 PROVE p.vaddr % p.align = p.offset % p.align
    <3>1. p.align > 0 /\ ~(p.align <= 1)
      BY <2>3, <2>6, Sizes DEF Word
    <3>2. WordSize % p.align = 0 /\ Minus(p.vaddr, p.offset) % p.align = 0
      BY <2>4, <3>1 DEF Congruent, PowerOfTwo
    <3>3. QED
      BY <2>3, <3>1, <3>2, CongruentExactly
  <2>7. QED
    BY <2>4, <2>5, <2>6 DEF p
<1>2. IInv => SegmentsInFile
  BY <1>1 DEF SegmentsInFile
<1>3. QED
  BY <1>2, Invariance, PTL

(* Every needed name of an accepted image is made of bytes of the file     *)
(* that a load segment puts at the address the dynamic entries give.       *)
THEOREM NamesCorrect == Spec => []NamesAreLoaded
<1>1. ASSUME IInv, Accepted, NEW n \in 1..Len(needed)
      PROVE  \E k \in Loads : LET address == tables.strtab + needed[n]
             IN programs[k].vaddr <= address /\ address < programs[k].vaddr + programs[k].filesz
  <2>1. TypeInv /\ SegmentInv /\ NameInv
    BY <1>1 DEF IInv
  <2>2. copied > 0 /\ needed[n] < tables.strsz /\ needed[n] \in Word
    <3>1. copied = Len(needed) /\ needed \in Seq(Word)
      BY <1>1, <2>1 DEF NameInv, TypeInv, TypeOK
    <3>2. QED
      BY <2>1, <3>1 DEF NameInv
  <2>3. PICK k \in Backing :
          tables.strsz <= programs[k].filesz - (tables.strtab - programs[k].vaddr)
    BY <2>1, <2>2 DEF NameInv, Located
  <2>4. /\ k \in Loads /\ tables.strtab \in Word /\ tables.strsz \in Word
        /\ programs[k].vaddr \in Word /\ programs[k].filesz \in Word
        /\ programs[k].vaddr <= tables.strtab
    BY <2>1, BackingFacts
  <2>5. programs[k].vaddr <= tables.strtab + needed[n]
        /\ tables.strtab + needed[n] < programs[k].vaddr + programs[k].filesz
    BY <2>2, <2>3, <2>4, Sizes DEF Word
  <2>6. QED
    BY <2>4, <2>5
<1>2. IInv => NamesAreLoaded
  BY <1>1 DEF NamesAreLoaded
<1>3. QED
  BY <1>2, Invariance, PTL

LEMMA LoadsFinite == ASSUME TypeInv PROVE IsFiniteSet(Loads)
<1>1. Len(programs) \in Nat
  BY DEF TypeInv, TypeOK
<1>2. IsFiniteSet(1..Len(programs)) /\ Loads \subseteq 1..Len(programs)
  BY <1>1, FS_Interval DEF Loads
<1>3. QED
  BY <1>2, FS_Subset

(* selinos_elfrt_validate_initial_load_policy lets no image through that   *)
(* has text relocations or a writable and executable segment.              *)
THEOREM PolicyCorrect == Spec => []LoadableIsSafe
<1>1. ASSUME IInv, verdict = "loadable" PROVE WritableCode = {}
  <2>1. TypeInv /\ CountInv /\ summary.both = 0
    BY <1>1 DEF IInv, PolicyInv
  <2>2. IsFiniteSet(WritableCode)
    BY <2>1, LoadsFinite, FS_Subset DEF WritableCode
  <2>3. Cardinality(WritableCode) = 0
    BY <2>1 DEF CountInv
  <2>4. QED
    BY <2>2, <2>3, FS_EmptySet
<1>2. ASSUME IInv, verdict = "loadable" PROVE tags \cap {"TEXTREL", "FLAGS_TEXTREL"} = {}
  BY <1>2 DEF IInv, PolicyInv
<1>3. IInv => LoadableIsSafe
  BY <1>1, <1>2 DEF LoadableIsSafe, WritableCode
<1>4. QED
  BY <1>3, Invariance, PTL

(* The counts a loader is given are those of the program headers.          *)
THEOREM SummaryCorrect == Spec => []SummaryAgrees
<1>1. IInv => SummaryAgrees
  BY DEF IInv, CountInv, SummaryAgrees, Flagged
<1>2. QED
  BY <1>1, Invariance, PTL

-----------------------------------------------------------------------------
(* romfsd's walk of its archive, for any published files, any limits and   *)
(* any damage.                                                             *)
Damages ==
  [field : {"none", "name_size", "file_size", "magic"}, of : Nat, value : 0..WordMax]

ArchiveType ==
  /\ Cpio!TypeOK
  /\ members \in Seq(Cpio!Members) /\ starts \in Seq(Nat)
  /\ damage \in Damages
  /\ cpioTouched.end \in 0..cpioSize

\* Where append_member puts what it appends
LayoutInv ==
  /\ Len(starts) = Len(members) + 1 /\ starts[1] = 0
  /\ \A k \in 1..Len(starts) : Cpio!Aligned(starts[k]) = starts[k]
  /\ \A i, j \in 1..Len(starts) : i < j => starts[i] < starts[j]
  /\ \A k \in 1..Len(members) :
       starts[k + 1] = Cpio!Aligned(Cpio!DataStart(members[k], starts[k])
                                      + Cpio!FileSize(members[k]))

WholeArchive == cpioSize = Cpio!Packed /\ damage = Cpio!Intact /\ Cpio!Ended

\* In a whole archive the walk goes from header to header, and has met neither
\* the name it looks for nor the trailer.
WalkInv ==
  cpioVerdict = "looking" /\ WholeArchive =>
    /\ entry <= Len(members) /\ offset = starts[entry + 1]
    /\ \A j \in 1..entry : members[j].name \notin {Wanted[looking].name, "TRAILER!!!"}

\* What the position in the list of published files says of the archive
AnswerInv ==
  /\ cpioVerdict = "packing" => looking = 1 /\ entry = 0 /\ offset = 0 /\ cpioSize = 0
  /\ cpioVerdict # "packing" => Cpio!Ended
  /\ cpioVerdict = "passed" => looking = Len(Wanted) + 1
  /\ cpioVerdict # "passed" => looking <= Len(Wanted)
  /\ \A k \in 1..looking - 1 : \E j \in DOMAIN members :
       members[j].name = Wanted[k].name /\ members[j].kind \in {"good", "long"}
  /\ WholeArchive => \A k \in 1..looking - 1 : Cpio!Holds(members, Wanted[k].name)
  /\ WholeArchive /\ cpioVerdict = "exited" => ~Cpio!Holds(members, Wanted[looking].name)

ArchiveInv == ArchiveType /\ LayoutInv /\ WalkInv /\ AnswerInv

-----------------------------------------------------------------------------
LEMMA Published ==
  /\ MaxEntries \in Nat /\ MaxMembers \in Nat /\ HeaderSize \in Nat /\ WordMax \in Nat
  /\ HeaderSize > 0 /\ Oddities \subseteq 0..WordMax
  /\ Wanted \in Seq([name : STRING \ {"TRAILER!!!"}, length : Nat])
  /\ Len(Wanted) \in Nat /\ Len(Wanted) >= 1
<1>1. Wanted \in Seq([name : STRING \ {"TRAILER!!!"}, length : Nat]) /\ Wanted # <<>>
  BY CpioAssumption DEF Cpio!SizesAssumption
<1>2. Len(Wanted) \in Nat /\ Len(Wanted) >= 1
  BY <1>1
<1>3. QED
  BY <1>1, <1>2, CpioAssumption DEF Cpio!SizesAssumption

LEMMA PublishedNames ==
  /\ \A k \in 1..Len(Wanted) :
       Wanted[k] \in [name : STRING \ {"TRAILER!!!"}, length : Nat]
  /\ "TRAILER!!!" \notin Cpio!WantedNames
  /\ \A k \in 1..Len(Wanted) : Wanted[k].name \in Cpio!WantedNames
  /\ \A name \in Cpio!WantedNames : Cpio!Length(name) \in Nat
<1>1. DOMAIN Wanted = 1..Len(Wanted)
      /\ \A k \in 1..Len(Wanted) :
           Wanted[k] \in [name : STRING \ {"TRAILER!!!"}, length : Nat]
  <2> DEFINE File == [name : STRING \ {"TRAILER!!!"}, length : Nat]
  <2>1. Wanted \in Seq(File)
    BY Published
  <2> HIDE DEF File
  <2>2. DOMAIN Wanted = 1..Len(Wanted) /\ \A k \in 1..Len(Wanted) : Wanted[k] \in File
    BY <2>1
  <2>3. QED
    BY <2>2 DEF File
<1>2. ASSUME NEW name \in Cpio!WantedNames PROVE Cpio!Length(name) \in Nat
  <2>1. PICK k \in 1..Len(Wanted) : name = Wanted[k].name
    BY <1>1 DEF Cpio!WantedNames
  <2> DEFINE files == {Wanted[i] : i \in DOMAIN Wanted}
             file == CHOOSE w \in files : w.name = name
  <2>2. \E w \in files : w.name = name
    BY <1>1, <2>1
  <2>3. file \in files
    BY <2>2
  <2>4. file.length \in Nat
    BY <1>1, <2>3
  <2>5. QED
    BY <2>4 DEF Cpio!Length
<1>3. QED
  BY <1>1, <1>2 DEF Cpio!WantedNames

(* Names, kinds and sizes of the members an archive is made of.            *)
LEMMA MemberFacts ==
  ASSUME NEW m \in Cpio!Members
  PROVE  /\ m.name \in Cpio!WantedNames \cup {"TRAILER!!!"}
         /\ m = [name |-> m.name, kind |-> m.kind]
         /\ Cpio!NameSize(m) \in Nat /\ Cpio!NameSize(m) >= 3
         /\ Cpio!FileSize(m) \in Nat
         /\ m.name # "TRAILER!!!" =>
              (Cpio!FileSize(m) = Cpio!Length(m.name) <=> m.kind # "long")
<1>1. m.name \in Cpio!WantedNames \cup {"TRAILER!!!"}
  BY DEF Cpio!Members
<1>2. m = [name |-> m.name, kind |-> m.kind]
  BY DEF Cpio!Members
<1>3. Cpio!NameSize(m) \in {3, 4}
  BY DEF Cpio!NameSize
<1>4. CASE m.name = "TRAILER!!!"
  <2>1. Cpio!FileSize(m) = 0
    BY <1>4 DEF Cpio!FileSize
  <2>2. QED
    BY <1>1, <1>2, <1>3, <1>4, <2>1
<1>5. CASE m.name # "TRAILER!!!"
  <2>1. Cpio!Length(m.name) \in Nat
    BY <1>1, <1>5, PublishedNames
  <2>2. /\ m.kind = "long" => Cpio!FileSize(m) = Cpio!Length(m.name) + 2
        /\ m.kind # "long" => Cpio!FileSize(m) = Cpio!Length(m.name) + 0
    BY <1>5 DEF Cpio!FileSize
  <2>3. QED
    BY <1>1, <1>2, <1>3, <2>1, <2>2
<1>6. QED
  BY <1>4, <1>5

LEMMA AlignedFacts ==
  ASSUME NEW n \in Nat
  PROVE  /\ Cpio!Aligned(n) \in Nat /\ n <= Cpio!Aligned(n) /\ Cpio!Aligned(n) <= n + 3
         /\ Cpio!Aligned(Cpio!Aligned(n)) = Cpio!Aligned(n)
BY DEF Cpio!Aligned

(* What add_bounded and align4_bounded do not refuse is in the archive.    *)
LEMMA BoundedFacts ==
  ASSUME NEW b \in Nat, NEW a \in Nat, cpioSize \in Nat, Cpio!Packed \in Nat
  PROVE  /\ Cpio!Out \in Nat /\ Cpio!Packed <= Cpio!Out
         /\ Cpio!AddBounded(a, b) \in Nat /\ Cpio!AlignBounded(a) \in Nat
         /\ Cpio!AddBounded(a, b) # Cpio!Out => Cpio!AddBounded(a, b) <= cpioSize
         /\ Cpio!AlignBounded(a) # Cpio!Out => Cpio!AlignBounded(a) <= cpioSize
         /\ a + b <= cpioSize => Cpio!AddBounded(a, b) = a + b
         /\ a + 3 <= cpioSize => Cpio!AlignBounded(a) = Cpio!Aligned(a)
<1>1. Cpio!Out \in Nat /\ Cpio!Packed <= Cpio!Out
  BY Published DEF Cpio!Out
<1>2. ASSUME NEW x \in Nat, NEW y \in Nat
      PROVE  /\ Cpio!AddBounded(x, y) \in Nat
             /\ Cpio!AddBounded(x, y) # Cpio!Out => Cpio!AddBounded(x, y) <= cpioSize
             /\ x + y <= cpioSize => Cpio!AddBounded(x, y) = x + y
  BY <1>1 DEF Cpio!AddBounded
<1>3. Cpio!Aligned(a) \in Nat /\ Cpio!Aligned(a) <= a + 3
  BY AlignedFacts
<1>4. \A c \in Nat :
        /\ Cpio!AddBounded(0, c) \in Nat
        /\ Cpio!AddBounded(0, c) # Cpio!Out => Cpio!AddBounded(0, c) <= cpioSize
        /\ c <= cpioSize => Cpio!AddBounded(0, c) = c
  <2> SUFFICES ASSUME NEW c \in Nat
               PROVE  /\ Cpio!AddBounded(0, c) \in Nat
                      /\ Cpio!AddBounded(0, c) # Cpio!Out => Cpio!AddBounded(0, c) <= cpioSize
                      /\ c <= cpioSize => Cpio!AddBounded(0, c) = c
    OBVIOUS
  <2>1. 0 \in Nat /\ 0 + c = c
    OBVIOUS
  <2>2. QED
    BY <1>2, <2>1
<1>5. Cpio!AlignBounded(a) \in {Cpio!Out, Cpio!AddBounded(0, Cpio!Aligned(a))}
  BY Zenon DEF Cpio!AlignBounded
<1>6. a + 3 <= cpioSize => Cpio!AlignBounded(a) = Cpio!AddBounded(0, Cpio!Aligned(a))
  <2> SUFFICES ASSUME a + 3 <= cpioSize
               PROVE  Cpio!AlignBounded(a) = Cpio!AddBounded(0, Cpio!Aligned(a))
    OBVIOUS
  <2>1. ~(a > cpioSize \/ (cpioSize >= 3 /\ a > cpioSize - 3))
    OBVIOUS
  <2>2. QED
    BY <2>1, Zenon DEF Cpio!AlignBounded
<1>7. /\ Cpio!AlignBounded(a) \in Nat
      /\ Cpio!AlignBounded(a) # Cpio!Out => Cpio!AlignBounded(a) <= cpioSize
  BY <1>1, <1>3, <1>4, <1>5
<1>8. a + 3 <= cpioSize => Cpio!AlignBounded(a) = Cpio!Aligned(a)
  BY <1>3, <1>4, <1>6
<1>9. QED
  BY <1>1, <1>2, <1>7, <1>8

LEMMA ArchiveShape ==
  ASSUME ArchiveType, LayoutInv
  PROVE  /\ Len(members) \in Nat /\ DOMAIN members = 1..Len(members)
         /\ \A k \in 1..Len(members) : members[k] \in Cpio!Members
         /\ DOMAIN starts = 1..Len(members) + 1
         /\ \A k \in 1..Len(members) + 1 : starts[k] \in Nat
         /\ Cpio!Packed \in Nat
         /\ cpioSize \in Nat /\ offset \in Nat /\ entry \in Nat /\ looking \in Nat
<1>1. members \in Seq(Cpio!Members) /\ starts \in Seq(Nat) /\ Len(starts) = Len(members) + 1
      /\ Cpio!TypeOK
  BY DEF ArchiveType, LayoutInv
<1>2. Len(members) \in Nat /\ DOMAIN members = 1..Len(members)
      /\ \A k \in 1..Len(members) : members[k] \in Cpio!Members
  <2> HIDE DEF Cpio!Members
  <2>1. QED
    BY <1>1
<1>3. DOMAIN starts = 1..Len(members) + 1
      /\ \A k \in 1..Len(members) + 1 : starts[k] \in Nat
  BY <1>1, <1>2
<1>4. Cpio!Packed \in Nat
  BY <1>2, <1>3 DEF Cpio!Packed
<1>5. cpioSize \in Nat /\ offset \in Nat /\ entry \in Nat /\ looking \in Nat
  BY <1>1, Published DEF Cpio!TypeOK
<1>6. QED
  BY <1>2, <1>3, <1>4, <1>5

LEMMA Climbing ==
  ASSUME ArchiveType, LayoutInv, NEW k \in 1..Len(members) + 1
  PROVE  starts[k] <= Cpio!Packed
<1>1. Len(members) \in Nat /\ DOMAIN starts = 1..Len(members) + 1
      /\ \A i \in 1..Len(members) + 1 : starts[i] \in Nat
  BY ArchiveShape
<1>2. Len(starts) = Len(members) + 1
      /\ \A i, j \in 1..Len(starts) : i < j => starts[i] < starts[j]
  BY DEF LayoutInv
<1>3. k = Len(members) + 1 \/ starts[k] < starts[Len(members) + 1]
  BY <1>1, <1>2
<1>4. QED
  BY <1>1, <1>3 DEF Cpio!Packed

(* A header and a name are at least three bytes.                           *)
LEMMA Spaced ==
  ASSUME ArchiveType, LayoutInv, NEW k \in 1..Len(members)
  PROVE  starts[k] + 3 <= starts[k + 1]
<1>1. /\ Len(members) \in Nat /\ members[k] \in Cpio!Members
      /\ starts[k] \in Nat /\ starts[k + 1] \in Nat
  BY ArchiveShape
<1> DEFINE N == Cpio!NameSize(members[k])
           F == Cpio!FileSize(members[k])
           D == Cpio!DataStart(members[k], starts[k])
<1>2. N \in Nat /\ N >= 3 /\ F \in Nat /\ HeaderSize \in Nat
  BY <1>1, MemberFacts, Published
<1>3. D = Cpio!Aligned(starts[k] + HeaderSize + N) /\ starts[k + 1] = Cpio!Aligned(D + F)
  BY DEF LayoutInv, Cpio!DataStart
<1> HIDE DEF N, F, D
<1>4. D \in Nat /\ starts[k] + HeaderSize + N <= D
  <2>1. starts[k] + HeaderSize + N \in Nat
    BY <1>1, <1>2
  <2>2. QED
    BY <1>3, <2>1, AlignedFacts
<1>5. D + F <= starts[k + 1]
  <2>1. D + F \in Nat
    BY <1>2, <1>4
  <2>2. QED
    BY <1>3, <2>1, AlignedFacts
<1>6. QED
  BY <1>1, <1>2, <1>4, <1>5

LEMMA HeaderBounded ==
  ASSUME ArchiveType, LayoutInv
  PROVE  Cpio!Header \in Nat /\ (Cpio!Header # Cpio!Out => Cpio!Header <= cpioSize)
<1>1. cpioSize \in Nat /\ Cpio!Packed \in Nat /\ offset \in Nat /\ HeaderSize \in Nat
  BY ArchiveShape, Published
<1>2. Cpio!AlignBounded(offset) \in Nat
  BY <1>1, BoundedFacts
<1>3. QED
  BY <1>1, <1>2, BoundedFacts DEF Cpio!Header

(* What is visited of a member, damaged or not, is in the archive.         *)
LEMMA VisitBounded ==
  ASSUME ArchiveType, LayoutInv, NEW k \in 1..Len(members)
  PROVE  /\ Cpio!Visited(k).end \in Nat
         /\ Cpio!Visited(k).end # Cpio!Out => Cpio!Visited(k).end <= cpioSize
         /\ Cpio!AlignBounded(Cpio!Visited(k).end) # Cpio!Out =>
              Cpio!AlignBounded(Cpio!Visited(k).end) \in 0..cpioSize
<1>1. cpioSize \in Nat /\ Cpio!Packed \in Nat /\ members[k] \in Cpio!Members
  BY ArchiveShape
<1>2. Cpio!NameSize(members[k]) \in Nat /\ Cpio!FileSize(members[k]) \in Nat
  BY <1>1, MemberFacts
<1>3. damage.value \in Nat
  BY Published DEF ArchiveType, Damages
<1>4. Cpio!Field(k, "name_size", Cpio!NameSize(members[k])) \in Nat
      /\ Cpio!Field(k, "file_size", Cpio!FileSize(members[k])) \in Nat
  BY <1>2, <1>3 DEF Cpio!Field
<1> DEFINE name == Cpio!AddBounded(Cpio!Header, Cpio!Field(k, "name_size", Cpio!NameSize(members[k])))
           data == Cpio!AlignBounded(name)
           end  == Cpio!AddBounded(data, Cpio!Field(k, "file_size", Cpio!FileSize(members[k])))
<1>5. name \in Nat
  BY <1>1, <1>4, HeaderBounded, BoundedFacts
<1>6. data \in Nat
  <2> HIDE DEF name
  <2>1. QED
    BY <1>1, <1>5, BoundedFacts
<1>7. end \in Nat /\ (end # Cpio!Out => end <= cpioSize)
  <2> HIDE DEF data
  <2>1. QED
    BY <1>1, <1>4, <1>6, BoundedFacts
<1>8. Cpio!Visited(k).end = end
  BY DEF Cpio!Visited
<1> HIDE DEF end
<1>9. Cpio!AlignBounded(end) \in Nat
      /\ (Cpio!AlignBounded(end) # Cpio!Out => Cpio!AlignBounded(end) <= cpioSize)
  BY <1>1, <1>7, BoundedFacts
<1>10. QED
  BY <1>1, <1>7, <1>8, <1>9

(* A header is where the walk of a whole archive looks for it.             *)
LEMMA HeaderFound ==
  ASSUME ArchiveType, LayoutInv, WholeArchive, NEW k \in 1..Len(members),
         offset = starts[k]
  PROVE  /\ Cpio!AlignBounded(offset) = offset
         /\ Cpio!At(Cpio!AlignBounded(offset)) = {k}
<1>1. cpioSize \in Nat /\ cpioSize = Cpio!Packed
      /\ Cpio!Packed \in Nat /\ starts[k] \in Nat /\ starts[k + 1] \in Nat
      /\ Len(members) \in Nat /\ k + 1 \in 1..Len(members) + 1
      /\ DOMAIN members = 1..Len(members)
      /\ \A i \in 1..Len(members) + 1 : starts[i] \in Nat
  BY ArchiveShape DEF WholeArchive
<1>2. starts[k] + 3 <= cpioSize
  <2>1. starts[k] + 3 <= starts[k + 1]
    BY Spaced
  <2>2. starts[k + 1] <= Cpio!Packed
    BY <1>1, Climbing
  <2>3. QED
    BY <1>1, <2>1, <2>2
<1>3. Len(starts) = Len(members) + 1
      /\ Cpio!Aligned(starts[k]) = starts[k]
      /\ \A i, j \in 1..Len(starts) : i < j => starts[i] < starts[j]
  BY <1>1 DEF LayoutInv
<1>4. Cpio!AlignBounded(offset) = offset
  BY <1>1, <1>2, <1>3, BoundedFacts
<1>5. \A j \in 1..Len(members) : starts[j] = starts[k] => j = k
  BY <1>1, <1>3
<1>6. Cpio!At(offset) = {j \in 1..Len(members) : starts[j] = starts[k]}
  BY <1>1 DEF Cpio!At
<1>7. QED
  BY <1>4, <1>5, <1>6

LEMMA IntactFields ==
  ASSUME WholeArchive, NEW k, NEW field \in {"name_size", "file_size"}, NEW v
  PROVE  Cpio!Field(k, field, v) = v /\ Cpio!NewcMagic(k)
<1>1. damage.field = "none"
  BY DEF WholeArchive, Cpio!Intact
<1>2. QED
  BY <1>1 DEF Cpio!Field, Cpio!NewcMagic

LEMMA IntactNames ==
  ASSUME WholeArchive, NEW k, NEW name
  PROVE  Cpio!Named(k, name) <=> members[k].name = name
BY IntactFields DEF Cpio!Named

LEMMA BeforeTrailer ==
  ASSUME ArchiveType, LayoutInv, WholeArchive, NEW k \in 1..Len(members),
         members[k].name # "TRAILER!!!"
  PROVE  k < Len(members)
<1>1. Len(members) \in Nat
  BY ArchiveShape
<1>2. members[Len(members)].name = "TRAILER!!!"
  BY DEF WholeArchive, Cpio!Ended
<1>3. k # Len(members)
  BY <1>2
<1>4. QED
  BY <1>1, <1>3

(* The walk of a whole archive can read every member before the trailer it *)
(* ends in, and goes on to the next one; a file is as expected exactly     *)
(* when it is the published one.                                           *)
LEMMA WholeWalk ==
  ASSUME ArchiveType, LayoutInv, WholeArchive, NEW k \in 1..Len(members),
         k < Len(members), offset = starts[k]
  PROVE  /\ Cpio!Walkable(k)
         /\ Cpio!AlignBounded(Cpio!Visited(k).end) = starts[k + 1]
         /\ starts[k + 1] # Cpio!Out
         /\ members[k].name # "TRAILER!!!" =>
              (Cpio!Expected(k) <=> members[k].kind = "good")
<1>1. cpioSize \in Nat /\ Cpio!Packed = cpioSize
      /\ Cpio!Packed \in Nat /\ starts[k] \in Nat /\ starts[k + 1] \in Nat
      /\ Len(members) \in Nat /\ members[k] \in Cpio!Members
  BY ArchiveShape DEF WholeArchive
<1> DEFINE N == Cpio!NameSize(members[k])
           F == Cpio!FileSize(members[k])
           H == starts[k] + HeaderSize
           D == Cpio!DataStart(members[k], starts[k])
<1>2. N \in Nat /\ N >= 3 /\ F \in Nat /\ HeaderSize \in Nat
  BY <1>1, MemberFacts, Published
<1>3. D = Cpio!Aligned(H + N) /\ starts[k + 1] = Cpio!Aligned(D + F)
  BY DEF LayoutInv, Cpio!DataStart
<1>4. starts[k + 1] + 3 <= Cpio!Packed /\ H \in Nat
  <2>1. k + 1 \in 1..Len(members) /\ k + 2 \in 1..Len(members) + 1 /\ (k + 1) + 1 = k + 2
    BY <1>1
  <2>2. starts[k + 1] + 3 <= starts[k + 2] /\ starts[k + 2] <= Cpio!Packed
    BY <2>1, Spaced, Climbing
  <2>3. starts[k + 2] \in Nat
    BY <2>1, ArchiveShape
  <2>4. starts[k + 1] + 3 <= Cpio!Packed
    BY <1>1, <2>2, <2>3
  <2>5. H \in Nat
    BY <1>1, <1>2
  <2>6. QED
    BY <2>4, <2>5
<1> HIDE DEF N, F, H, D
<1>5. H + N \in Nat /\ D \in Nat /\ H + N <= D
  BY <1>2, <1>3, <1>4, AlignedFacts
<1>6. D + F \in Nat /\ D + F <= starts[k + 1]
  <2>1. D + F \in Nat
    BY <1>2, <1>5
  <2>2. QED
    BY <1>3, <2>1, AlignedFacts
<1>7. H + N + 3 <= cpioSize /\ D + F + 3 <= cpioSize
  <2>1. D + F + 3 <= cpioSize
    BY <1>1, <1>4, <1>6
  <2>2. H + N <= D + F
    BY <1>2, <1>5
  <2>3. QED
    BY <1>1, <1>5, <1>6, <2>1, <2>2
<1>8. Cpio!AlignBounded(offset) = starts[k]
  BY <1>1, HeaderFound
<1>9. Cpio!Header = H
  <2>1. starts[k] + HeaderSize <= cpioSize
    BY <1>1, <1>2, <1>4, <1>7 DEF H
  <2>2. Cpio!AddBounded(starts[k], HeaderSize) = H
    BY <1>1, <1>2, <2>1, BoundedFacts DEF H
  <2>3. QED
    BY <1>8, <2>2 DEF Cpio!Header
<1>10. Cpio!AddBounded(H, N) = H + N
  <2>1. H + N <= cpioSize
    BY <1>1, <1>5, <1>7
  <2>2. QED
    BY <1>1, <1>2, <1>4, <2>1, BoundedFacts
<1>11. Cpio!AlignBounded(H + N) = D
  BY <1>1, <1>3, <1>5, <1>7, BoundedFacts
<1>12. Cpio!AddBounded(D, F) = D + F /\ Cpio!AlignBounded(D + F) = starts[k + 1]
  <2>1. D + F <= cpioSize
    BY <1>1, <1>6, <1>7
  <2>2. QED
    BY <1>1, <1>2, <1>3, <1>5, <1>6, <1>7, <2>1, BoundedFacts
<1>13. Cpio!Field(k, "name_size", N) = N /\ Cpio!Field(k, "file_size", F) = F
       /\ Cpio!Field(k, "name_size", 1) = 1 /\ Cpio!NewcMagic(k)
  BY IntactFields
<1>14. Cpio!Visited(k).end = D + F
  <2>1. Cpio!Visited(k).end
          = Cpio!AddBounded(Cpio!AlignBounded(Cpio!AddBounded(Cpio!Header,
                Cpio!Field(k, "name_size", N))), Cpio!Field(k, "file_size", F))
    BY DEF Cpio!Visited, N, F
  <2>2. QED
    BY <1>9, <1>10, <1>11, <1>12, <1>13, <2>1
<1>15. Cpio!Out \in Nat /\ Cpio!Packed <= Cpio!Out
  BY <1>1, BoundedFacts
<1>16. H # Cpio!Out /\ D + F # Cpio!Out /\ starts[k + 1] # Cpio!Out
  <2>1. H + N < cpioSize /\ D + F < cpioSize /\ starts[k + 1] < cpioSize
    BY <1>1, <1>4, <1>5, <1>6, <1>7
  <2>2. H < cpioSize
    BY <1>1, <1>2, <1>4, <2>1
  <2>3. cpioSize <= Cpio!Out
    BY <1>1, <1>15
  <2>4. QED
    BY <1>1, <1>4, <1>6, <1>15, <2>1, <2>2, <2>3
<1>17. Cpio!Walkable(k)
  BY <1>9, <1>13, <1>14, <1>16 DEF Cpio!Walkable
<1>18. members[k].name # "TRAILER!!!" => (Cpio!Expected(k) <=> members[k].kind = "good")
  <2>1. members[k].name # "TRAILER!!!" => (F = Cpio!Length(members[k].name) <=> members[k].kind # "long")
    BY <1>1, MemberFacts DEF F
  <2>2. Cpio!Expected(k) <=>
          F = Cpio!Length(members[k].name) /\ members[k].kind \in {"good", "long"}
    BY <1>13 DEF Cpio!Expected, F
  <2>3. QED
    BY <2>1, <2>2
<1>19. QED
  BY <1>12, <1>14, <1>16, <1>17, <1>18

-----------------------------------------------------------------------------
(* A file of the first members is found where no earlier one settles it.   *)
LEMMA HoldsHere ==
  ASSUME ArchiveType, LayoutInv, NEW name \in Cpio!WantedNames,
         NEW k \in 1..Len(members), k <= MaxEntries, members[k].name = name,
         \A j \in 1..k - 1 : members[j].name \notin {name, "TRAILER!!!"}
  PROVE  Cpio!Holds(members, name) <=> members[k].kind = "good"
<1>1. DOMAIN members = 1..Len(members) /\ Len(members) \in Nat
      /\ \A j \in 1..Len(members) : members[j] \in Cpio!Members
  BY ArchiveShape
<1>2. members[k] = [name |-> name, kind |-> members[k].kind]
  BY <1>1, MemberFacts
<1>3. ASSUME members[k].kind = "good" PROVE Cpio!Holds(members, name)
  <2>1. members[k] = [name |-> name, kind |-> "good"]
    BY <1>2, <1>3
  <2>2. QED
    BY <1>1, <2>1 DEF Cpio!Holds
<1>4. ASSUME Cpio!Holds(members, name) PROVE members[k].kind = "good"
  <2>1. PICK i \in 1..Len(members) :
          /\ members[i] = [name |-> name, kind |-> "good"]
          /\ \A j \in 1..i - 1 : members[j].name \notin {name, "TRAILER!!!"}
    BY <1>1, <1>4 DEF Cpio!Holds
  <2>2. members[i].name = name /\ members[i].kind = "good"
    BY <2>1
  <2>3. ~(k < i) /\ ~(i < k)
    BY <1>1, <2>1, <2>2
  <2>4. QED
    BY <1>1, <2>2, <2>3
<1>5. QED
  BY <1>3, <1>4

(* What ends the walk without having met the name: no more is looked at, or *)
(* the trailer.                                                            *)
LEMMA HoldsNowhere ==
  ASSUME ArchiveType, LayoutInv, NEW name \in Cpio!WantedNames,
         NEW n \in 0..Len(members),
         \A j \in 1..n : members[j].name \notin {name, "TRAILER!!!"},
         \/ n = Len(members)
         \/ n >= MaxEntries
         \/ n < Len(members) /\ members[n + 1].name = "TRAILER!!!"
  PROVE  ~Cpio!Holds(members, name)
<1> SUFFICES ASSUME Cpio!Holds(members, name) PROVE FALSE
  OBVIOUS
<1>1. DOMAIN members = 1..Len(members) /\ Len(members) \in Nat /\ MaxEntries \in Nat
      /\ name # "TRAILER!!!"
  BY ArchiveShape, Published, PublishedNames
<1>2. PICK i \in 1..Len(members) :
        /\ members[i] = [name |-> name, kind |-> "good"] /\ i <= MaxEntries
        /\ \A j \in 1..i - 1 : members[j].name \notin {name, "TRAILER!!!"}
  BY <1>1 DEF Cpio!Holds
<1>3. members[i].name = name
  BY <1>2
<1>4. i \in 1..Len(members) /\ i <= MaxEntries /\ n \in 0..Len(members)
  BY <1>2
<1>5. Len(members) \in Nat /\ MaxEntries \in Nat
  BY <1>1
<1>6. i \in Nat /\ n \in Nat /\ i >= 1 /\ i <= Len(members) /\ n <= Len(members)
  BY <1>4, <1>5
<1>7. \A j \in 1..i - 1 : members[j].name # "TRAILER!!!"
  BY <1>2
<1>8. n < i
  <2>1. \A j \in 1..n : members[j].name # name
    OBVIOUS
  <2>2. i <= n => i \in 1..n
    BY <1>6
  <2>3. ~(i <= n)
    BY <1>3, <2>1, <2>2
  <2>4. QED
    BY <1>6, <2>3
<1>9. n < Len(members) /\ ~(n >= MaxEntries)
  BY <1>4, <1>5, <1>6, <1>8
<1>10. members[n + 1].name = "TRAILER!!!"
  BY <1>6, <1>9
<1>11. n + 1 = i \/ n + 1 \in 1..i - 1
  BY <1>6, <1>8
<1>12. QED
  BY <1>1, <1>3, <1>7, <1>10, <1>11

(* Each published file is one of the archive's: what the answer is.        *)
LEMMA LookedFor ==
  ASSUME ArchiveInv, cpioVerdict = "looking"
  PROVE  /\ looking \in 1..Len(Wanted) /\ Wanted[looking].name \in Cpio!WantedNames
         /\ Wanted[looking].name # "TRAILER!!!"
<1>1. looking \in 1..Len(Wanted) + 1 /\ looking <= Len(Wanted)
  BY DEF ArchiveInv, ArchiveType, AnswerInv, Cpio!TypeOK
<1>2. looking \in 1..Len(Wanted)
  BY <1>1, Published
<1>3. QED
  BY <1>2, PublishedNames

-----------------------------------------------------------------------------
(* The steps: packing, the start of the service, and each end of a visit.  *)
LEMMA ArchiveBegins == Cpio!Init => ArchiveInv
<1> SUFFICES ASSUME Cpio!Init PROVE ArchiveInv
  OBVIOUS
<1>1. /\ members = <<>> /\ starts = <<0>> /\ cpioSize = 0 /\ damage = Cpio!Intact
      /\ looking = 1 /\ entry = 0 /\ offset = 0 /\ cpioTouched.end = 0
      /\ cpioVerdict = "packing"
  BY DEF Cpio!Init
<1>2. Cpio!TypeOK
  BY <1>1, Published DEF Cpio!TypeOK
<1>3. damage \in Damages
  BY <1>1, Published DEF Damages, Cpio!Intact
<1>4. members \in Seq(Cpio!Members) /\ starts \in Seq(Nat) /\ Len(members) = 0
      /\ Len(starts) = 1 /\ starts[1] = 0
  BY <1>1
<1>5. ArchiveType
  BY <1>1, <1>2, <1>3, <1>4 DEF ArchiveType
<1>6. Cpio!Aligned(0) = 0
  BY DEF Cpio!Aligned
<1>7. LayoutInv
  BY <1>4, <1>6 DEF LayoutInv
<1>8. ~WholeArchive
  BY <1>4 DEF WholeArchive, Cpio!Ended
<1>9. WalkInv /\ AnswerInv
  BY <1>1, <1>8, Published DEF WalkInv, AnswerInv
<1>10. QED
  BY <1>5, <1>7, <1>9 DEF ArchiveInv

LEMMA PackStep == ASSUME ArchiveInv, Cpio!Pack PROVE ArchiveInv'
<1>0. ArchiveType /\ LayoutInv /\ AnswerInv
  BY DEF ArchiveInv
<1>1. PICK m \in Cpio!Members :
        /\ members' = Append(members, m)
        /\ starts' = Append(starts, Cpio!Aligned(Cpio!DataStart(m, Cpio!Packed)
                                                  + Cpio!FileSize(m)))
  BY DEF Cpio!Pack
<1>2. /\ cpioVerdict = "packing" /\ cpioVerdict' = "packing"
      /\ cpioSize' = cpioSize /\ damage' = damage /\ looking' = looking
      /\ entry' = entry /\ offset' = offset /\ cpioTouched' = cpioTouched
  BY DEF Cpio!Pack
<1>3. looking = 1 /\ entry = 0 /\ offset = 0 /\ cpioSize = 0
  BY <1>0, <1>2 DEF AnswerInv
<1> DEFINE L == Len(members)
           next == Cpio!Aligned(Cpio!DataStart(m, Cpio!Packed) + Cpio!FileSize(m))
<1>4. /\ L \in Nat /\ DOMAIN starts = 1..L + 1 /\ Cpio!Packed \in Nat
      /\ \A k \in 1..L + 1 : starts[k] \in Nat /\ starts[k] <= Cpio!Packed
      /\ Cpio!Packed = starts[L + 1]
  BY <1>0, ArchiveShape, Climbing DEF Cpio!Packed
<1>5. next \in Nat /\ Cpio!Packed < next /\ Cpio!Aligned(next) = next
  <2>1. Cpio!NameSize(m) \in Nat /\ Cpio!FileSize(m) \in Nat /\ HeaderSize \in Nat
        /\ HeaderSize > 0
    BY MemberFacts, Published
  <2>2. Cpio!Packed + HeaderSize + Cpio!NameSize(m) \in Nat
    BY <1>4, <2>1
  <2>3. Cpio!DataStart(m, Cpio!Packed) \in Nat
        /\ Cpio!Packed + HeaderSize + Cpio!NameSize(m) <= Cpio!DataStart(m, Cpio!Packed)
    BY <2>2, AlignedFacts DEF Cpio!DataStart
  <2>4. Cpio!DataStart(m, Cpio!Packed) + Cpio!FileSize(m) \in Nat
    BY <2>1, <2>3
  <2>5. next \in Nat /\ Cpio!DataStart(m, Cpio!Packed) + Cpio!FileSize(m) <= next
        /\ Cpio!Aligned(next) = next
    BY <2>4, AlignedFacts
  <2> HIDE DEF next
  <2>6. QED
    BY <1>4, <2>1, <2>3, <2>5
<1>6. /\ members' \in Seq(Cpio!Members) /\ Len(members') = L + 1
      /\ members'[L + 1] = m /\ \A k \in 1..L : members'[k] = members[k]
  <2>1. members \in Seq(Cpio!Members)
    BY <1>0 DEF ArchiveType
  <2> HIDE DEF next
  <2>2. QED
    BY <1>1, <2>1
<1> HIDE DEF next
<1>7. /\ starts' \in Seq(Nat) /\ Len(starts') = L + 2
      /\ starts'[L + 2] = next /\ \A k \in 1..L + 1 : starts'[k] = starts[k]
  <2>1. starts \in Seq(Nat) /\ Len(starts) = L + 1
    BY <1>0 DEF ArchiveType, LayoutInv
  <2>2. starts' = Append(starts, next)
    BY <1>1 DEF next
  <2>3. Len(starts') = Len(starts) + 1
    BY <2>1, <2>2
  <2>4. starts'[Len(starts) + 1] = next /\ \A k \in 1..Len(starts) : starts'[k] = starts[k]
    BY <2>1, <2>2
  <2>5. starts' \in Seq(Nat)
    BY <1>5, <2>1, <2>2
  <2>6. Len(starts) + 1 = L + 2
    BY <1>4, <2>1
  <2>7. QED
    BY <2>1, <2>3, <2>4, <2>5, <2>6
<1>8. ArchiveType'
  <2>1. Cpio!TypeOK' /\ damage' \in Damages /\ cpioTouched'.end \in 0..cpioSize'
    BY <1>0, <1>2 DEF ArchiveType, Cpio!TypeOK
  <2>2. QED
    BY <1>6, <1>7, <2>1 DEF ArchiveType
<1>9. LayoutInv'
  <2>1. /\ Len(starts) = L + 1 /\ starts[1] = 0
        /\ \A k \in 1..L + 1 : Cpio!Aligned(starts[k]) = starts[k]
        /\ \A i, j \in 1..L + 1 : i < j => starts[i] < starts[j]
        /\ \A k \in 1..L : starts[k + 1] =
             Cpio!Aligned(Cpio!DataStart(members[k], starts[k]) + Cpio!FileSize(members[k]))
    BY <1>0 DEF LayoutInv
  <2>2. Len(starts') = Len(members') + 1 /\ starts'[1] = 0
    BY <1>4, <1>6, <1>7, <2>1
  <2>3. ASSUME NEW k \in 1..L + 2 PROVE Cpio!Aligned(starts'[k]) = starts'[k]
    <3>1. k = L + 2 \/ k \in 1..L + 1
      BY <1>4
    <3>2. QED
      BY <1>5, <1>7, <2>1, <3>1
  <2>4. ASSUME NEW i \in 1..L + 2, NEW j \in 1..L + 2, i < j PROVE starts'[i] < starts'[j]
    <3>1. i \in 1..L + 1 /\ (j = L + 2 \/ j \in 1..L + 1)
      BY <1>4, <2>4
    <3>2. CASE j = L + 2
      BY <1>4, <1>5, <1>7, <3>1, <3>2
    <3>3. CASE j \in 1..L + 1
      BY <1>7, <2>1, <2>4, <3>1, <3>3
    <3>4. QED
      BY <3>1, <3>2, <3>3
  <2>5. ASSUME NEW k \in 1..L + 1
        PROVE  starts'[k + 1] = Cpio!Aligned(Cpio!DataStart(members'[k], starts'[k])
                                               + Cpio!FileSize(members'[k]))
    <3>1. k = L + 1 \/ (k \in 1..L /\ k + 1 \in 1..L + 1)
      BY <1>4
    <3>2. CASE k = L + 1
      <4>1. starts'[k + 1] = next /\ members'[k] = m /\ starts'[k] = Cpio!Packed
        BY <1>4, <1>6, <1>7, <3>2
      <4>2. QED
        BY <4>1 DEF next
    <3>3. CASE k \in 1..L /\ k + 1 \in 1..L + 1
      BY <1>6, <1>7, <2>1, <3>3
    <3>4. QED
      BY <3>1, <3>2, <3>3
  <2>6. QED
    BY <1>6, <1>7, <2>2, <2>3, <2>4, <2>5 DEF LayoutInv, Cpio!Aligned, Cpio!DataStart,
       Cpio!FileSize
<1>10. ~WholeArchive'
  <2>1. Cpio!Packed' = next
    BY <1>4, <1>6, <1>7 DEF Cpio!Packed
  <2>2. Cpio!Packed' # 0
    BY <1>4, <1>5, <2>1
  <2>3. QED
    BY <1>2, <1>3, <2>2 DEF WholeArchive
<1>11. WalkInv'
  BY <1>10 DEF WalkInv
<1>12. AnswerInv'
  BY <1>2, <1>3, <1>10, Published DEF AnswerInv
<1>13. QED
  BY <1>8, <1>9, <1>11, <1>12 DEF ArchiveInv

LEMMA StartStep == ASSUME ArchiveInv, Cpio!Start PROVE ArchiveInv'
<1>0. ArchiveType /\ LayoutInv /\ AnswerInv
  BY DEF ArchiveInv
<1>1. /\ cpioVerdict = "packing" /\ cpioVerdict' = "looking" /\ members' = members
      /\ starts' = starts /\ looking' = looking /\ entry' = entry /\ offset' = offset
      /\ cpioTouched' = cpioTouched /\ Cpio!Ended
  BY DEF Cpio!Start
<1>2. Cpio!Packed \in Nat /\ Len(members) \in Nat
      /\ DOMAIN members = 1..Len(members)
  BY <1>0, ArchiveShape
<1>3. cpioSize' \in Nat
  BY <1>2 DEF Cpio!Start
<1>4. damage' \in Damages
  <2>1. 0 \in 0..WordMax /\ Oddities \subseteq 0..WordMax
    BY Published
  <2>2. \/ damage' = Cpio!Intact
        \/ damage' \in [field : {"name_size", "file_size"}, of : DOMAIN members,
                        value : Oddities]
        \/ damage' \in [field : {"magic"}, of : DOMAIN members, value : {0}]
    BY DEF Cpio!Start
  <2>3. CASE damage' = Cpio!Intact
    BY <2>1, <2>3 DEF Damages, Cpio!Intact
  <2>4. CASE damage' \in [field : {"name_size", "file_size"}, of : DOMAIN members,
                          value : Oddities]
    <3>1. DOMAIN members \subseteq Nat
      BY <1>2
    <3>2. QED
      BY <2>1, <2>4, <3>1, Zenon DEF Damages
  <2>5. CASE damage' \in [field : {"magic"}, of : DOMAIN members, value : {0}]
    BY <1>2, <2>1, <2>5 DEF Damages
  <2>6. QED
    BY <2>2, <2>3, <2>4, <2>5
<1>5. looking = 1 /\ entry = 0 /\ offset = 0 /\ cpioSize = 0
  BY <1>0, <1>1 DEF AnswerInv
<1>6. ArchiveType'
  <2>1. cpioTouched'.end \in 0..cpioSize'
    <3>1. cpioTouched.end = 0
      BY <1>0, <1>5 DEF ArchiveType
    <3>2. QED
      BY <1>1, <1>3, <3>1
  <2>2. Cpio!TypeOK'
    BY <1>0, <1>1, <1>3, <1>5 DEF ArchiveType, Cpio!TypeOK
  <2>3. QED
    BY <1>0, <1>1, <1>4, <2>1, <2>2 DEF ArchiveType
<1>7. LayoutInv'
  BY <1>0, <1>1 DEF LayoutInv
<1>8. entry' = 0 /\ offset' = 0 /\ looking' = 1 /\ starts[1] = 0
  BY <1>0, <1>1, <1>5 DEF LayoutInv
<1>9. WalkInv'
  BY <1>1, <1>2, <1>8 DEF WalkInv
<1>10. AnswerInv'
  BY <1>1, <1>8, Published DEF AnswerInv, Cpio!Ended
<1>11. QED
  BY <1>6, <1>7, <1>9, <1>10 DEF ArchiveInv

(* One visit leaves the archive as it is.                                  *)
LEMMA SameArchive ==
  ASSUME ArchiveInv, UNCHANGED Cpio!archive
  PROVE  /\ members' = members /\ starts' = starts /\ cpioSize' = cpioSize
         /\ damage' = damage
         /\ (WholeArchive' <=> WholeArchive) /\ (Cpio!Ended' <=> Cpio!Ended)
         /\ \A name : Cpio!Holds(members, name)' <=> Cpio!Holds(members, name)
         /\ LayoutInv'
<1>1. members' = members /\ starts' = starts /\ cpioSize' = cpioSize /\ damage' = damage
  BY DEF Cpio!archive
<1>2. (WholeArchive' <=> WholeArchive) /\ (Cpio!Ended' <=> Cpio!Ended)
  BY <1>1 DEF WholeArchive, Cpio!Packed, Cpio!Ended
<1>3. \A name : Cpio!Holds(members, name)' <=> Cpio!Holds(members, name)
  BY <1>1 DEF Cpio!Holds
<1>4. LayoutInv'
  BY <1>1 DEF ArchiveInv, LayoutInv
<1>5. QED
  BY <1>1, <1>2, <1>3, <1>4

LEMMA RefusedStep ==
  ASSUME ArchiveInv, cpioVerdict = "looking", UNCHANGED Cpio!archive, Cpio!Answer(FALSE),
         cpioTouched'.end \in 0..cpioSize,
         WholeArchive => ~Cpio!Holds(members, Wanted[looking].name)
  PROVE  ArchiveInv'
<1>1. /\ members' = members /\ starts' = starts /\ cpioSize' = cpioSize /\ damage' = damage
      /\ WholeArchive' <=> WholeArchive /\ LayoutInv'
  BY SameArchive
<1>2. entry' = 0 /\ offset' = 0 /\ looking' = looking /\ cpioVerdict' = "exited"
  BY DEF Cpio!Answer
<1>3. ArchiveType /\ AnswerInv /\ looking \in 1..Len(Wanted) /\ cpioSize \in Nat
  BY LookedFor, ArchiveShape DEF ArchiveInv
<1>4. ArchiveType'
  <2>1. Cpio!TypeOK'
    BY <1>1, <1>2, <1>3, Published DEF ArchiveType, Cpio!TypeOK
  <2>2. QED
    BY <1>1, <1>3, <2>1 DEF ArchiveType
<1>5. WalkInv'
  BY <1>2 DEF WalkInv
<1>6. AnswerInv'
  <2>1. /\ \A k \in 1..looking' - 1 : \E j \in DOMAIN members' :
             members'[j].name = Wanted[k].name /\ members'[j].kind \in {"good", "long"}
        /\ WholeArchive' => \A k \in 1..looking' - 1 : Cpio!Holds(members, Wanted[k].name)'
        /\ WholeArchive' => ~Cpio!Holds(members, Wanted[looking].name)'
    BY <1>1, <1>2, <1>3, SameArchive DEF AnswerInv
  <2>2. looking' <= Len(Wanted) /\ Cpio!Ended'
    BY <1>2, <1>3, Published, SameArchive DEF AnswerInv
  <2>3. QED
    BY <1>2, <2>1, <2>2 DEF AnswerInv
<1>7. LayoutInv'
  BY SameArchive
<1>8. QED
  BY <1>4, <1>5, <1>6, <1>7 DEF ArchiveInv

LEMMA FoundStep ==
  ASSUME ArchiveInv, cpioVerdict = "looking", UNCHANGED Cpio!archive, Cpio!Answer(TRUE),
         cpioTouched'.end \in 0..cpioSize,
         WholeArchive => Cpio!Holds(members, Wanted[looking].name),
         \E j \in DOMAIN members :
           members[j].name = Wanted[looking].name /\ members[j].kind \in {"good", "long"}
  PROVE  ArchiveInv'
<1>1. /\ members' = members /\ starts' = starts /\ cpioSize' = cpioSize /\ damage' = damage
      /\ WholeArchive' <=> WholeArchive /\ LayoutInv'
  BY SameArchive
<1>2. /\ entry' = 0 /\ offset' = 0 /\ looking' = looking + 1
      /\ looking = Len(Wanted) => cpioVerdict' = "passed"
      /\ looking # Len(Wanted) => cpioVerdict' = "looking"
  BY DEF Cpio!Answer
<1>3. ArchiveType /\ LayoutInv /\ AnswerInv /\ looking \in 1..Len(Wanted) /\ cpioSize \in Nat
      /\ Len(Wanted) \in Nat
  BY LookedFor, ArchiveShape, Published DEF ArchiveInv
<1>4. ArchiveType'
  <2>1. looking' \in 1..Len(Wanted) + 1 /\ entry' \in 0..MaxEntries /\ offset' \in 0..cpioSize'
        /\ cpioVerdict' \in {"packing", "looking", "passed", "exited"} /\ cpioSize' \in Nat
    BY <1>1, <1>2, <1>3, Published
  <2>2. QED
    BY <1>1, <1>3, <2>1 DEF ArchiveType, Cpio!TypeOK
<1>5. WalkInv'
  <2>1. starts'[1] = 0 /\ Len(members') \in Nat
    BY <1>1, <1>3, ArchiveShape DEF LayoutInv
  <2>2. entry' <= Len(members') /\ offset' = starts'[entry' + 1]
        /\ \A j \in 1..entry' : FALSE
    BY <1>2, <2>1
  <2>3. QED
    BY <2>2 DEF WalkInv
<1>6. AnswerInv'
  <2>1. \A k \in 1..looking' - 1 : k = looking \/ k \in 1..looking - 1
    BY <1>2, <1>3
  <2>2. ASSUME NEW k \in 1..looking' - 1
        PROVE  /\ \E j \in DOMAIN members' :
                    members'[j].name = Wanted[k].name /\ members'[j].kind \in {"good", "long"}
               /\ WholeArchive' => Cpio!Holds(members, Wanted[k].name)'
    <3>1. CASE k = looking
      BY <1>1, <3>1, SameArchive
    <3>2. CASE k \in 1..looking - 1
      BY <1>1, <1>3, <3>2, SameArchive DEF AnswerInv
    <3>3. QED
      BY <2>1, <3>1, <3>2
  <2>3. /\ cpioVerdict' = "passed" => looking' = Len(Wanted) + 1
        /\ cpioVerdict' # "passed" => looking' <= Len(Wanted)
        /\ cpioVerdict' \notin {"packing", "exited"}
    BY <1>2, <1>3
  <2>4. Cpio!Ended'
    BY <1>3, SameArchive DEF AnswerInv
  <2>5. QED
    BY <2>2, <2>3, <2>4 DEF AnswerInv
<1>7. LayoutInv'
  BY SameArchive
<1>8. QED
  BY <1>4, <1>5, <1>6, <1>7 DEF ArchiveInv

LEMMA OnwardStep ==
  ASSUME ArchiveInv, cpioVerdict = "looking", UNCHANGED Cpio!archive,
         UNCHANGED <<looking, cpioVerdict>>, entry < MaxEntries, entry' = entry + 1,
         offset' \in 0..cpioSize, cpioTouched'.end \in 0..cpioSize,
         WholeArchive =>
           /\ entry + 1 <= Len(members) /\ offset' = starts[entry + 2]
           /\ members[entry + 1].name \notin {Wanted[looking].name, "TRAILER!!!"}
  PROVE  ArchiveInv'
<1>1. /\ members' = members /\ starts' = starts /\ cpioSize' = cpioSize /\ damage' = damage
      /\ WholeArchive' <=> WholeArchive /\ LayoutInv'
      /\ looking' = looking /\ cpioVerdict' = cpioVerdict
  BY SameArchive
<1>2. ArchiveType /\ LayoutInv /\ WalkInv /\ AnswerInv /\ entry \in Nat
  BY ArchiveShape DEF ArchiveInv
<1>3. ArchiveType'
  <2>1. entry' \in 0..MaxEntries
    BY <1>2, Published
  <2>2. Cpio!TypeOK'
    BY <1>1, <1>2, <2>1 DEF ArchiveType, Cpio!TypeOK
  <2>3. QED
    BY <1>1, <1>2, <2>2 DEF ArchiveType
<1>4. WalkInv'
  <2> SUFFICES ASSUME WholeArchive
               PROVE  /\ entry' <= Len(members) /\ offset' = starts[entry' + 1]
                      /\ \A j \in 1..entry' :
                           members[j].name \notin {Wanted[looking].name, "TRAILER!!!"}
    BY <1>1 DEF WalkInv
  <2>1. \A j \in 1..entry' : j = entry + 1 \/ j \in 1..entry
    BY <1>2
  <2>2. \A j \in 1..entry : members[j].name \notin {Wanted[looking].name, "TRAILER!!!"}
    BY <1>2 DEF WalkInv
  <2>3. entry' + 1 = entry + 2
    BY <1>2
  <2>4. QED
    BY <2>1, <2>2, <2>3
<1>5. AnswerInv'
  BY <1>1, <1>2, SameArchive DEF AnswerInv
<1>6. LayoutInv'
  BY SameArchive
<1>7. QED
  BY <1>3, <1>4, <1>5, <1>6 DEF ArchiveInv

(* Where a visit of a whole archive stands.                                *)
LEMMA Standing ==
  ASSUME ArchiveInv, cpioVerdict = "looking", WholeArchive
  PROVE  /\ entry \in 0..Len(members) /\ entry < Len(members) /\ offset = starts[entry + 1]
         /\ \A j \in 1..entry : members[j].name \notin {Wanted[looking].name, "TRAILER!!!"}
         /\ Cpio!At(Cpio!AlignBounded(offset)) = {entry + 1}
         /\ entry + 1 \in 1..Len(members)
         /\ entry + 1 = Len(members) => members[entry + 1].name = "TRAILER!!!"
<1>1. ArchiveType /\ LayoutInv /\ entry \in Nat /\ Len(members) \in Nat
  BY ArchiveShape DEF ArchiveInv
<1>2. /\ entry <= Len(members) /\ offset = starts[entry + 1]
      /\ \A j \in 1..entry : members[j].name \notin {Wanted[looking].name, "TRAILER!!!"}
  BY DEF ArchiveInv, WalkInv
<1>3. Len(members) >= 1 /\ members[Len(members)].name = "TRAILER!!!"
  BY DEF WholeArchive, Cpio!Ended
<1>4. entry # Len(members)
  <2> SUFFICES ASSUME entry = Len(members) PROVE FALSE
    OBVIOUS
  <2>1. Len(members) \in 1..entry
    BY <1>1, <1>3
  <2>2. QED
    BY <1>2, <1>3, <2>1
<1>5. entry < Len(members) /\ entry + 1 \in 1..Len(members)
  BY <1>1, <1>2, <1>4
<1>6. Cpio!At(Cpio!AlignBounded(offset)) = {entry + 1}
  BY <1>1, <1>2, <1>5, HeaderFound
<1>7. QED
  BY <1>1, <1>2, <1>3, <1>5, <1>6

(* A visited member is one of the archive's, and inside it.                *)
LEMMA VisitedInside ==
  ASSUME ArchiveInv, NEW k \in Cpio!At(Cpio!AlignBounded(offset)), Cpio!Walkable(k)
  PROVE  k \in 1..Len(members) /\ k \in DOMAIN members
         /\ Cpio!Visited(k).end \in 0..cpioSize
<1>1. ArchiveType /\ LayoutInv
  BY DEF ArchiveInv
<1>2. k \in DOMAIN members /\ DOMAIN members = 1..Len(members) /\ cpioSize \in Nat
  BY <1>1, ArchiveShape DEF Cpio!At
<1>3. Cpio!Visited(k).end # Cpio!Out
  BY DEF Cpio!Walkable
<1>4. QED
  BY <1>1, <1>2, <1>3, VisitBounded

LEMMA AbsentStep == ASSUME ArchiveInv, Cpio!Absent PROVE ArchiveInv'
<1>1. /\ cpioVerdict = "looking" /\ UNCHANGED Cpio!archive /\ Cpio!Answer(FALSE)
      /\ \/ entry = MaxEntries
         \/ \A k \in Cpio!At(Cpio!AlignBounded(offset)) : ~Cpio!Walkable(k)
      /\ \/ cpioTouched'.end = 0
         \/ Cpio!Header # Cpio!Out /\ cpioTouched'.end = Cpio!Header
  BY DEF Cpio!Absent
<1>2. ArchiveType /\ LayoutInv
  BY DEF ArchiveInv
<1>3. cpioTouched'.end \in 0..cpioSize
  BY <1>1, <1>2, HeaderBounded, ArchiveShape
<1>4. ASSUME WholeArchive PROVE ~Cpio!Holds(members, Wanted[looking].name)
  <2>1. /\ entry \in 0..Len(members) /\ offset = starts[entry + 1]
        /\ \A j \in 1..entry : members[j].name \notin {Wanted[looking].name, "TRAILER!!!"}
        /\ Cpio!At(Cpio!AlignBounded(offset)) = {entry + 1}
        /\ entry + 1 \in 1..Len(members) /\ entry < Len(members)
        /\ entry + 1 = Len(members) => members[entry + 1].name = "TRAILER!!!"
    BY <1>1, <1>4, Standing
  <2>2. Wanted[looking].name \in Cpio!WantedNames
    BY <1>1, LookedFor
  <2>3. Len(members) \in Nat /\ MaxEntries \in Nat
    BY <1>2, ArchiveShape, Published
  <2>4. members[entry + 1].name = "TRAILER!!!" \/ entry >= MaxEntries
    <3> SUFFICES ASSUME entry + 1 # Len(members), entry # MaxEntries PROVE FALSE
      BY <2>1, <2>3
    <3>1. entry + 1 < Len(members)
      BY <2>1, <2>3
    <3>2. Cpio!Walkable(entry + 1)
      BY <1>2, <1>4, <2>1, <3>1, WholeWalk
    <3>3. QED
      BY <1>1, <2>1, <3>2
  <2>5. QED
    BY <1>2, <2>1, <2>2, <2>4, HoldsNowhere
<1>5. QED
  BY <1>1, <1>3, <1>4, RefusedStep

LEMMA TrailerStep == ASSUME ArchiveInv, Cpio!Trailer PROVE ArchiveInv'
<1>1. /\ cpioVerdict = "looking" /\ UNCHANGED Cpio!archive /\ Cpio!Answer(FALSE)
  BY DEF Cpio!Trailer
<1>2. PICK k \in Cpio!At(Cpio!AlignBounded(offset)) :
        Cpio!Walkable(k) /\ Cpio!Named(k, "TRAILER!!!") /\ cpioTouched' = Cpio!Visited(k)
  BY DEF Cpio!Trailer
<1>3. ArchiveType /\ LayoutInv
  BY DEF ArchiveInv
<1>4. cpioTouched'.end \in 0..cpioSize
  BY <1>2, VisitedInside
<1>5. ASSUME WholeArchive PROVE ~Cpio!Holds(members, Wanted[looking].name)
  <2>1. /\ entry \in 0..Len(members) /\ offset = starts[entry + 1]
        /\ \A j \in 1..entry : members[j].name \notin {Wanted[looking].name, "TRAILER!!!"}
        /\ k = entry + 1 /\ k \in 1..Len(members)
    BY <1>1, <1>2, <1>5, Standing
  <2>2. Wanted[looking].name \in Cpio!WantedNames
    BY <1>1, LookedFor
  <2>3. members[entry + 1].name = "TRAILER!!!"
    BY <1>2, <2>1 DEF Cpio!Named
  <2>4. entry < Len(members)
    BY <1>3, <2>1, ArchiveShape
  <2>5. QED
    BY <1>3, <2>1, <2>2, <2>3, <2>4, HoldsNowhere
<1>6. QED
  BY <1>1, <1>4, <1>5, RefusedStep

LEMMA MatchStep == ASSUME ArchiveInv, Cpio!Match PROVE ArchiveInv'
<1>1. /\ cpioVerdict = "looking" /\ UNCHANGED Cpio!archive /\ entry < MaxEntries
  BY DEF Cpio!Match
<1>2. PICK k \in Cpio!At(Cpio!AlignBounded(offset)) :
        /\ Cpio!Walkable(k) /\ Cpio!Named(k, Wanted[looking].name)
        /\ Cpio!Answer(Cpio!Expected(k)) /\ cpioTouched' = Cpio!Visited(k)
  BY DEF Cpio!Match
<1>3. ArchiveType /\ LayoutInv /\ MaxEntries \in Nat
  BY Published DEF ArchiveInv
<1>4. cpioTouched'.end \in 0..cpioSize /\ k \in DOMAIN members
  BY <1>2, VisitedInside
<1>5. members[k].name = Wanted[looking].name /\ Wanted[looking].name \in Cpio!WantedNames
      /\ Wanted[looking].name # "TRAILER!!!"
  BY <1>1, <1>2, LookedFor DEF Cpio!Named
<1>6. ASSUME WholeArchive
      PROVE  Cpio!Holds(members, Wanted[looking].name) <=> Cpio!Expected(k)
  <2>1. /\ entry \in 0..Len(members) /\ offset = starts[entry + 1]
        /\ \A j \in 1..entry : members[j].name \notin {Wanted[looking].name, "TRAILER!!!"}
        /\ k = entry + 1 /\ k \in 1..Len(members)
    BY <1>1, <1>2, <1>6, Standing
  <2>2. k <= MaxEntries /\ k - 1 = entry
    BY <1>1, <1>3, <2>1, ArchiveShape
  <2>3. Cpio!Expected(k) <=> members[k].kind = "good"
    <3>1. k < Len(members)
      BY <1>3, <1>5, <1>6, <2>1, BeforeTrailer
    <3>2. QED
      BY <1>3, <1>5, <1>6, <2>1, <3>1, WholeWalk
  <2>4. Cpio!Holds(members, Wanted[looking].name) <=> members[k].kind = "good"
    BY <1>3, <1>5, <2>1, <2>2, HoldsHere
  <2>5. QED
    BY <2>3, <2>4
<1>7. CASE Cpio!Expected(k)
  <2>1. Cpio!Answer(TRUE)
    BY <1>2, <1>7 DEF Cpio!Answer
  <2>2. members[k].kind \in {"good", "long"}
    BY <1>7 DEF Cpio!Expected
  <2>3. \E j \in DOMAIN members :
          members[j].name = Wanted[looking].name /\ members[j].kind \in {"good", "long"}
    BY <1>4, <1>5, <2>2
  <2>4. WholeArchive => Cpio!Holds(members, Wanted[looking].name)
    BY <1>6, <1>7
  <2>5. QED
    BY <1>1, <1>4, <2>1, <2>3, <2>4, FoundStep
<1>8. CASE ~Cpio!Expected(k)
  <2>1. Cpio!Answer(FALSE)
    BY <1>2, <1>8 DEF Cpio!Answer
  <2>2. WholeArchive => ~Cpio!Holds(members, Wanted[looking].name)
    BY <1>6, <1>8
  <2>3. QED
    BY <1>1, <1>4, <2>1, <2>2, RefusedStep
<1>9. QED
  BY <1>7, <1>8

LEMMA SkipStep == ASSUME ArchiveInv, Cpio!Skip PROVE ArchiveInv'
<1>1. /\ cpioVerdict = "looking" /\ UNCHANGED Cpio!archive /\ entry < MaxEntries
  BY DEF Cpio!Skip
<1>2. PICK k \in Cpio!At(Cpio!AlignBounded(offset)) :
        /\ Cpio!Walkable(k) /\ Cpio!Skips(k) /\ cpioTouched' = Cpio!Visited(k)
        /\ IF Cpio!AlignBounded(Cpio!Visited(k).end) = Cpio!Out
             THEN Cpio!Answer(FALSE)
             ELSE /\ offset' = Cpio!AlignBounded(Cpio!Visited(k).end) /\ entry' = entry + 1
                  /\ UNCHANGED <<looking, cpioVerdict>>
  BY DEF Cpio!Skip
<1>3. ArchiveType /\ LayoutInv
  BY DEF ArchiveInv
<1>4. cpioTouched'.end \in 0..cpioSize /\ k \in 1..Len(members)
  BY <1>2, VisitedInside
<1>5. ASSUME WholeArchive
      PROVE  /\ Cpio!AlignBounded(Cpio!Visited(k).end) = starts[entry + 2]
             /\ Cpio!AlignBounded(Cpio!Visited(k).end) # Cpio!Out
             /\ entry + 1 <= Len(members)
             /\ members[entry + 1].name \notin {Wanted[looking].name, "TRAILER!!!"}
  <2>1. entry \in 0..Len(members) /\ offset = starts[entry + 1] /\ k = entry + 1
    BY <1>1, <1>2, <1>5, Standing
  <2>2. members[k].name \notin {Wanted[looking].name, "TRAILER!!!"}
    BY <1>2, <1>5, IntactNames DEF Cpio!Skips
  <2>3. /\ Cpio!AlignBounded(Cpio!Visited(k).end) = starts[k + 1] /\ starts[k + 1] # Cpio!Out
    <3>1. k < Len(members)
      BY <1>3, <1>4, <1>5, <2>2, BeforeTrailer
    <3>2. QED
      BY <1>3, <1>4, <1>5, <2>1, <3>1, WholeWalk
  <2>4. k + 1 = entry + 2 /\ entry + 1 <= Len(members)
    BY <1>3, <1>4, <2>1, ArchiveShape
  <2>5. QED
    BY <2>1, <2>2, <2>3, <2>4
<1>6. CASE Cpio!AlignBounded(Cpio!Visited(k).end) = Cpio!Out
  <2>1. Cpio!Answer(FALSE)
    BY <1>2, <1>6
  <2>2. QED
    BY <1>1, <1>4, <1>5, <1>6, <2>1, RefusedStep
<1>7. CASE Cpio!AlignBounded(Cpio!Visited(k).end) # Cpio!Out
  <2>1. /\ offset' = Cpio!AlignBounded(Cpio!Visited(k).end) /\ entry' = entry + 1
        /\ UNCHANGED <<looking, cpioVerdict>>
    BY <1>2, <1>7
  <2>2. offset' \in 0..cpioSize
    BY <1>3, <1>4, <1>7, <2>1, VisitBounded
  <2>3. QED
    BY <1>1, <1>4, <1>5, <2>1, <2>2, OnwardStep
<1>8. QED
  BY <1>6, <1>7

(* The parser of the other part leaves the archive alone.                  *)
THEOREM ArchiveInvariance == ImagesSpec => []ArchiveInv
<1>1. ImagesInit => ArchiveInv
  BY ArchiveBegins DEF ImagesInit
<1>2. ASSUME ArchiveInv, [ImagesNext]_<<part, vars, cpioVars>> PROVE ArchiveInv'
  <2>1. CASE Cpio!Next
    BY <1>2, <2>1, PackStep, StartStep, AbsentStep, TrailerStep, MatchStep, SkipStep
       DEF Cpio!Next
  <2>2. CASE UNCHANGED cpioVars
    <3>1. /\ members' = members /\ starts' = starts /\ cpioSize' = cpioSize
          /\ damage' = damage /\ looking' = looking /\ entry' = entry /\ offset' = offset
          /\ cpioTouched' = cpioTouched /\ cpioVerdict' = cpioVerdict
      BY <2>2 DEF cpioVars
    <3>2. ArchiveType'
      BY <1>2, <3>1 DEF ArchiveInv, ArchiveType, Cpio!TypeOK
    <3>3. WholeArchive' <=> WholeArchive
      BY <3>1 DEF WholeArchive, Cpio!Packed, Cpio!Ended
    <3>4. LayoutInv' /\ WalkInv'
      BY <1>2, <3>1, <3>3 DEF ArchiveInv, LayoutInv, WalkInv
    <3>5. AnswerInv'
      BY <1>2, <3>1, <3>3 DEF ArchiveInv, AnswerInv, Cpio!Holds, Cpio!Ended
    <3>6. QED
      BY <3>2, <3>4, <3>5 DEF ArchiveInv
  <2>3. QED
    BY <1>2, <2>1, <2>2 DEF ImagesNext
<1>3. QED
  BY <1>1, <1>2, PTL DEF ImagesSpec

(* However damaged, an archive is read inside only; romfsd starts on a whole *)
(* one exactly when every published file is the first of its name, before  *)
(* the trailer and among the entries looked at, and never takes another    *)
(* file for one of them.                                                   *)
THEOREM ArchiveCorrect == ImagesSpec => []CpioCorrect
<1>1. ASSUME ArchiveInv PROVE CpioCorrect
  <2>1. ArchiveType /\ AnswerInv /\ cpioSize \in Nat
    BY <1>1, ArchiveShape DEF ArchiveInv
  <2>2. DOMAIN Wanted = 1..Len(Wanted) /\ Len(Wanted) \in Nat
    BY Published
  <2>3. Cpio!TypeOK /\ Cpio!ReadsInside
    BY <2>1 DEF ArchiveType, Cpio!ReadsInside
  <2>4. ASSUME cpioVerdict = "passed" PROVE looking - 1 = Len(Wanted)
    BY <2>1, <2>2, <2>4 DEF AnswerInv
  <2>5. Cpio!NothingForged
    BY <2>1, <2>2, <2>4 DEF AnswerInv, Cpio!NothingForged
  <2>6. ASSUME WholeArchive, cpioVerdict = "exited"
        PROVE  \E k \in DOMAIN Wanted : ~Cpio!Holds(members, Wanted[k].name)
    <3>1. looking \in 1..Len(Wanted)
      BY <2>1, <2>2, <2>6 DEF AnswerInv, ArchiveType, Cpio!TypeOK
    <3>2. QED
      BY <2>1, <2>2, <2>6, <3>1 DEF AnswerInv
  <2>7. Cpio!SelfCheckIsExact
    BY <2>1, <2>2, <2>4, <2>6 DEF AnswerInv, Cpio!SelfCheckIsExact, WholeArchive
  <2>8. QED
    BY <2>3, <2>5, <2>7 DEF CpioCorrect
<1>2. QED
  BY <1>1, ArchiveInvariance, PTL
=============================================================================
