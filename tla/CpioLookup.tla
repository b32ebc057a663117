----------------------------- MODULE CpioLookup -----------------------------
(***************************************************************************)
(* romfsd's view of its archive: cpio_lookup_regular walks the members of  *)
(* a newc archive, archive_self_check looks each published file up and     *)
(* compares size and content.  An archive is a sequence of members laid    *)
(* out as the format says, cut short at any byte or damaged in one header. *)
(* Offsets are real, sizes are scaled; a name is one of a small set.       *)
(***************************************************************************)
EXTENDS Naturals, Sequences

CONSTANTS
  Wanted,      \* the published files in order, each [name, length]
  MaxEntries,  \* SELINOS_CPIO_MAX_ENTRIES
  MaxMembers,  \* bound: members of a whole archive
  MaxHurt,     \* bound: members of a cut or damaged archive
  HeaderSize,  \* SELINOS_CPIO_NEWC_HEADER_SIZE, scaled; not a multiple of 4
  WordMax,     \* bound: the greatest size a damaged header can state
  Oddities     \* what a damaged header may state

SizesAssumption ==
  /\ {MaxEntries, MaxMembers, MaxHurt, HeaderSize, WordMax} \subseteq Nat
  /\ HeaderSize > 0 /\ Oddities \subseteq 0..WordMax
  /\ Wanted # <<>> /\ Wanted \in Seq([name : STRING \ {"TRAILER!!!"}, length : Nat])

VARIABLES
  members,   \* what the archive is built from
  starts,    \* where the header of each member is, and the end
  size,      \* selinos_romfs_cpio_archive_size, 0 before the archive is there
  damage,    \* the header field that is wrong, and its value
  looking,   \* the position in Wanted
  entry,     \* the loop counter `member'
  offset,    \* the loop's offset
  touched,   \* the end of the last bytes read, and the start of the file found
  verdict    \* "packing", "looking", "passed" or "exited"

archive == <<members, starts, size, damage>>
vars == <<archive, looking, entry, offset, touched, verdict>>

-----------------------------------------------------------------------------
Aligned(n) == ((n + 3) \div 4) * 4

WantedNames == {Wanted[k].name : k \in DOMAIN Wanted}
Length(name) == (CHOOSE w \in {Wanted[k] : k \in DOMAIN Wanted} : w.name = name).length

\* A member: kind "good" is the file root expects, "long" has another size,
\* "changed" another content, "directory" is not regular.
Members ==
  [name : WantedNames, kind : {"good", "long", "changed", "directory"}]
    \cup {[name |-> "TRAILER!!!", kind |-> "good"]}
NameSize(m) == IF m.name = "TRAILER!!!" THEN 4 ELSE 3
FileSize(m) ==
  IF m.name = "TRAILER!!!" THEN 0
  ELSE Length(m.name) + IF m.kind = "long" THEN 2 ELSE 0

Intact == [field |-> "none", of |-> 0, value |-> 0]

Init ==
  /\ members = <<>> /\ starts = <<0>> /\ size = 0 /\ damage = Intact
  /\ looking = 1 /\ entry = 0 /\ offset = 0 /\ touched = [end |-> 0, file |-> 0]
  /\ verdict = "packing"

\* append_member: header and name, then the data, each padded to four bytes.
DataStart(m, start) == Aligned(start + HeaderSize + NameSize(m))
Packed == starts[Len(members) + 1]

Pack ==
  /\ verdict = "packing" /\ Len(members) < MaxMembers
  /\ \E m \in Members :
       /\ members' = Append(members, m)
       /\ starts' = Append(starts, Aligned(DataStart(m, Packed) + FileSize(m)))
  /\ UNCHANGED <<size, damage, looking, entry, offset, touched, verdict>>

\* The last member main appends is a trailer, padded like the others.
Ended == Len(members) >= 1 /\ members[Len(members)].name = "TRAILER!!!"

\* The service starts on an archive, whole, cut short or damaged.
Start ==
  /\ verdict = "packing" /\ Ended /\ verdict' = "looking"
  /\ \/ size' = Packed /\ damage' = Intact
     \/ /\ Len(members) <= MaxHurt
        /\ size' \in 0..Packed /\ damage' = Intact
     \/ /\ Len(members) <= MaxHurt
        /\ size' = Packed
        /\ damage' \in [field : {"name_size", "file_size"}, of : DOMAIN members,
                        value : Oddities]
                  \cup [field : {"magic"}, of : DOMAIN members, value : {0}]
  /\ UNCHANGED <<members, starts, looking, entry, offset, touched>>

-----------------------------------------------------------------------------
\* add_bounded and align4_bounded; Out is their refusal.
Out == WordMax + Packed
AddBounded(a, b) == IF a > size \/ b > size - a THEN Out ELSE a + b
\* size - 3 wraps in an archive of fewer than three bytes.
AlignBounded(n) ==
  IF n > size \/ (size >= 3 /\ n > size - 3) THEN Out ELSE AddBounded(0, Aligned(n))

\* The header at an offset: that of the member the format puts there, with the
\* damaged field; anything else has no magic.
At(at) == {k \in DOMAIN members : starts[k] = at}
Field(k, field, intact) ==
  IF damage.field = field /\ damage.of = k THEN damage.value ELSE intact
NewcMagic(k) == damage.field # "magic" \/ damage.of # k

\* literal_equals: a wrong name size matches no name.
Named(k, name) ==
  members[k].name = name /\ Field(k, "name_size", NameSize(members[k])) = NameSize(members[k])

\* One name is settled: the next one, or the answer of archive_self_check.
Answer(good) ==
  /\ entry' = 0 /\ offset' = 0
  /\ looking' = IF good THEN looking + 1 ELSE looking
  /\ verdict' = IF ~good THEN "exited"
                ELSE IF looking = Len(Wanted) THEN "passed" ELSE "looking"

\* The member found: regular, of the expected size, of the expected content.
Expected(k) ==
  /\ Field(k, "file_size", FileSize(members[k])) = Length(members[k].name)
  /\ members[k].kind \in {"good", "long"}

\* The whole of a member: header, name and data, in this order; Out when the
\* walk ends here.
Header == AddBounded(AlignBounded(offset), HeaderSize)
Visited(k) ==
  LET name == AddBounded(Header, Field(k, "name_size", NameSize(members[k])))
      data == AlignBounded(name)
  IN [file |-> data,
      end  |-> AddBounded(data, Field(k, "file_size", FileSize(members[k])))]

Walkable(k) ==
  /\ Header # Out /\ NewcMagic(k) /\ Field(k, "name_size", 1) # 0
  /\ Visited(k).end # Out

\* The member is not readable, or there is none: the file is absent.
Absent ==
  /\ verdict = "looking"
  /\ \/ entry = MaxEntries
     \/ \A k \in At(AlignBounded(offset)) : ~Walkable(k)
  /\ Answer(FALSE)
  /\ touched' = [end |-> IF entry < MaxEntries /\ Header # Out THEN Header ELSE 0,
                 file |-> 0]
  /\ UNCHANGED archive

\* The trailer ends the walk even where members follow it.
Trailer ==
  /\ verdict = "looking" /\ entry < MaxEntries
  /\ \E k \in At(AlignBounded(offset)) :
       /\ Walkable(k) /\ Named(k, "TRAILER!!!")
       /\ touched' = Visited(k)
  /\ Answer(FALSE)
  /\ UNCHANGED archive

Match ==
  /\ verdict = "looking" /\ entry < MaxEntries
  /\ \E k \in At(AlignBounded(offset)) :
       /\ Walkable(k) /\ Named(k, Wanted[looking].name)
       /\ Answer(Expected(k))
       /\ touched' = Visited(k)
  /\ UNCHANGED archive

\* Deviation: the trailer is a member like any other.
SkipsTrailer(k) == ~Named(k, Wanted[looking].name)
Skips(k) == ~Named(k, "TRAILER!!!") /\ ~Named(k, Wanted[looking].name)

Skip ==
  /\ verdict = "looking" /\ entry < MaxEntries
  /\ \E k \in At(AlignBounded(offset)) :
       /\ Walkable(k) /\ Skips(k)
       /\ touched' = Visited(k)
       /\ IF AlignBounded(Visited(k).end) = Out
            THEN Answer(FALSE)
            ELSE /\ offset' = AlignBounded(Visited(k).end) /\ entry' = entry + 1
                 /\ UNCHANGED <<looking, verdict>>
  /\ UNCHANGED archive

Next == Pack \/ Start \/ Absent \/ Trailer \/ Match \/ Skip
Spec == Init /\ [][Next]_vars

-----------------------------------------------------------------------------
\* What a reader of the format says: the first member of this name among the
\* first MaxEntries, none of those before it being the trailer.
Holds(ms, name) ==
  \E k \in DOMAIN ms :
    /\ ms[k] = [name |-> name, kind |-> "good"] /\ k <= MaxEntries
    /\ \A j \in 1..k - 1 : ms[j].name \notin {name, "TRAILER!!!"}

TypeOK ==
  /\ size \in Nat /\ entry \in 0..MaxEntries /\ looking \in 1..Len(Wanted) + 1
  /\ offset \in 0..size /\ verdict \in {"packing", "looking", "passed", "exited"}

\* However short or damaged the archive is, nothing past its end is read: name
\* and data are looked at only after the whole member was found inside.
ReadsInside == touched.end <= size

\* The service starts on an archive that is whole exactly when it holds the
\* published files, each the first of its name: neither a later file of the
\* same name nor one behind the trailer is served.
SelfCheckIsExact ==
  verdict \in {"passed", "exited"} /\ size = Packed /\ damage = Intact =>
    (verdict = "passed" <=> \A k \in DOMAIN Wanted : Holds(members, Wanted[k].name))

\* A cut or a damaged header never makes another file pass for a published one
\* (a longer file may be served by its beginning): at worst romfsd does not start.
NothingForged ==
  verdict = "passed" => \A k \in DOMAIN Wanted :
    \E j \in DOMAIN members :
      members[j].name = Wanted[k].name /\ members[j].kind \in {"good", "long"}
=============================================================================
