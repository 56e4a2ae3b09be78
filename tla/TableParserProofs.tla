-------------------------- MODULE TableParserProofs --------------------------
(***************************************************************************)
(* Proofs about TableParser: whatever the sections are, the walk goes from *)
(* entry to entry and the table ends up with what the section says.        *)
(***************************************************************************)
EXTENDS TableParser, SequenceTheorems, TLAPS

\* The entries counted so far are the section's, and the walk stands behind
\* them.
WalkInv ==
  at # "idle" =>
    /\ count[Kind] <= Len(section.entries)
    /\ position = section.starts[count[Kind] + 1] /\ parsed = position + 1
    /\ \A k \in 1 .. count[Kind] : entries[Kind][k] = section.entries[k]

\* While the descriptors of an event are walked it is the next of the
\* section's, and the table has room for it.
EventInv ==
  at = "descriptors" =>
    /\ Kind = "eit"
    /\ count["eit"] < Len(section.entries) /\ count["eit"] <= MaxEntries - 1
    /\ Current = section.entries[count["eit"] + 1]

Inv == TypeOK /\ WalkInv /\ EventInv /\ TableIsSection

\* The table in hand has the number of its section.
IdInv == at # "idle" => id[Kind] = section.id

\* The name of e has been read at o and nowhere else.
Read(e, o) == names[1] = [of |-> e.item, at |-> o]

\* The walk through the descriptors of e has not passed o, or has read the name
\* there.
Approach(e, o) ==
  \/ \E k \in 1 .. e.descriptors : offset = e.loop[k] /\ e.loop[k] <= o
  \/ offset > o /\ Read(e, o)

\* The first event of the section, while it is walked and from then on, keeps
\* the plain name it has.
NameInv ==
  at # "idle" /\ Kind = "eit" /\ Len(section.entries) > 0 /\ section.entries[1].status = 4 =>
    \A o \in Nat : PlainName(section.entries[1], o) =>
      /\ at = "descriptors" /\ count["eit"] = 0 => Approach(section.entries[1], o)
      /\ count["eit"] > 0 => Read(section.entries[1], o)

-----------------------------------------------------------------------------
(* Sections *)

\* What the assumption says of one section.
LEMMA SectionFacts ==
  ASSUME NEW s \in Sections
  PROVE  /\ s.kind \in Kinds /\ Len(s.entries) \in Nat
         /\ \A k \in 1 .. Len(s.entries) + 1 : s.starts[k] \in Nat
         /\ s.starts[1] = First(s) /\ First(s) \in Nat
         /\ s.length = s.starts[Len(s.entries) + 1] + 1
BY SectionsAssumption DEF LaidOut, HeaderBytes, First, Kinds

\* The parser skips what an entry occupies.
LEMMA SizeIsLength ==
  ASSUME NEW s \in Sections, NEW k \in 1 .. Len(s.entries)
  PROVE  /\ Size(s.kind, s.entries[k]) \in Nat
         /\ s.starts[k + 1] = s.starts[k] + Size(s.kind, s.entries[k])
<1>1. /\ s.kind \in Kinds /\ s.entries[k].extra \in Nat
      /\ s.kind = "pat" => s.entries[k].extra = 0
  BY SectionsAssumption
<1>2. Size(s.kind, s.entries[k]) = EntryBytes(s, k)
  BY <1>1 DEF Size, EntryBytes, Kinds
<1>3. s.starts[k + 1] = s.starts[k] + EntryBytes(s, k)
  BY SectionsAssumption DEF LaidOut
<1> QED BY <1>1, <1>2, <1>3 DEF Size, Kinds

\* Two entries never start at the same byte, and only the end of the section
\* is as far as its end.
LEMMA StartsDiffer ==
  ASSUME NEW s \in Sections,
         NEW j \in 1 .. Len(s.entries) + 1, NEW k \in 1 .. Len(s.entries) + 1
  PROVE  j < k => s.starts[j] < s.starts[k]
<1>1. InOrder(s.starts, Len(s.entries) + 1)
  BY SectionsAssumption DEF LaidOut
<1> QED BY <1>1 DEF InOrder

\* The header and the checksum leave the entries.
LEMMA PassedIsStart ==
  ASSUME NEW s \in Sections
  PROVE  Passed(s) = First(s) + 1
BY SectionsAssumption DEF Passed, First, Kinds

\* There is something left exactly while there are entries left.
LEMMA LeftMeansEntry ==
  ASSUME TypeOK, WalkInv, at # "idle"
  PROVE  /\ Left => count[Kind] < Len(section.entries)
         /\ ~Left => count[Kind] = Len(section.entries)
<1>1. section \in Sections /\ count[Kind] \in Nat /\ Len(section.entries) \in Nat
  BY SectionFacts DEF TypeOK, Kind
<1>2. /\ count[Kind] <= Len(section.entries)
      /\ parsed = section.starts[count[Kind] + 1] + 1
  BY DEF WalkInv
<1>3. section.length = section.starts[Len(section.entries) + 1] + 1
  BY <1>1, SectionFacts
<1>4. CASE count[Kind] = Len(section.entries)
  BY <1>1, <1>2, <1>3, <1>4, SectionFacts DEF Left
<1>5. CASE count[Kind] < Len(section.entries)
  <2>1. section.starts[count[Kind] + 1] < section.starts[Len(section.entries) + 1]
    BY <1>1, <1>5, StartsDiffer
  <2>2. /\ section.starts[count[Kind] + 1] \in Nat
        /\ section.starts[Len(section.entries) + 1] \in Nat
    BY <1>1, <1>5, SectionFacts
  <2> QED BY <1>2, <1>3, <1>5, <2>1, <2>2 DEF Left
<1>6. count[Kind] = Len(section.entries) \/ count[Kind] < Len(section.entries)
  BY <1>1, <1>2
<1> QED BY <1>4, <1>5, <1>6

-----------------------------------------------------------------------------
(* Steps *)

LEMMA InvInit ==
  ASSUME Init
  PROVE  Inv
<1>1. TypeOK
  BY MaxEntriesAssumption DEF Init, TypeOK, EntrySet
<1> QED BY <1>1 DEF Init, Inv, WalkInv, EventInv, TableIsSection

\* A new section starts at its first entry.
LEMMA ArriveStep ==
  ASSUME Inv, NEW s \in Sections, Arrive(s)
  PROVE  Inv'
<1> USE DEF Inv
<1>1. /\ section' = s /\ at' = "entries" /\ result' = "none"
      /\ position' = First(s) /\ parsed' = First(s) + 1
      /\ count' = [count EXCEPT ![s.kind] = 0]
      /\ UNCHANGED <<offset, entries, names>>
  BY PassedIsStart DEF Arrive, ReadHeader, EmptyTable
<1>2. /\ s.kind \in Kinds /\ Len(s.entries) \in Nat
      /\ s.starts[1] = First(s) /\ First(s) \in Nat
  BY SectionFacts
<1>3. count' \in [Kinds -> 0 .. MaxEntries] /\ count'[s.kind] = 0
  BY <1>1, <1>2, MaxEntriesAssumption DEF TypeOK
<1>4. TypeOK'
  <2>1. DOMAIN id' = Kinds
    BY DEF Arrive, ReadHeader, TypeOK
  <2> QED BY <1>1, <1>2, <1>3, <2>1 DEF TypeOK
<1>5. WalkInv'
  BY <1>1, <1>2, <1>3 DEF WalkInv, Kind
<1>6. EventInv' /\ TableIsSection'
  BY <1>1 DEF EventInv, TableIsSection
<1> QED BY <1>4, <1>5, <1>6

\* Going behind entry count + 1 keeps the walk on the entries.
LEMMA AdvanceStep ==
  ASSUME TypeOK, WalkInv, at # "idle",
         NEW e, Advance(e), count[Kind] < Len(section.entries), count[Kind] <= MaxEntries - 1,
         e = section.entries[count[Kind] + 1],
         entries'[Kind][count[Kind] + 1] = e,
         \A k \in 1 .. count[Kind] : entries'[Kind][k] = entries[Kind][k],
         section' = section, at' = "entries"
  PROVE  /\ WalkInv'
         /\ position' \in Nat /\ parsed' \in Nat
         /\ count' \in [Kinds -> 0 .. MaxEntries]
<1> DEFINE c == count[Kind]
<1>1. section \in Sections /\ Kind \in Kinds /\ c \in Nat /\ Len(section.entries) \in Nat
  BY SectionFacts DEF TypeOK, Kind
<1>2. /\ Size(Kind, e) \in Nat
      /\ section.starts[c + 2] = section.starts[c + 1] + Size(Kind, e)
  <2>1. c + 1 \in 1 .. Len(section.entries) /\ (c + 1) + 1 = c + 2
    BY <1>1
  <2> QED BY <1>1, <2>1, SizeIsLength DEF Kind
<1>3. count' = [count EXCEPT ![Kind] = c + 1] /\ count'[Kind] = c + 1
  BY <1>1 DEF Advance, TypeOK
<1>4. count' \in [Kinds -> 0 .. MaxEntries]
  BY <1>1, <1>3, MaxEntriesAssumption DEF TypeOK
<1>5. /\ position' = position + Size(Kind, e) /\ parsed' = parsed + Size(Kind, e)
      /\ position \in Nat /\ parsed \in Nat
  BY DEF Advance, TypeOK
<1>6. \A k \in 1 .. c + 1 : entries'[Kind][k] = section.entries[k]
  BY <1>1 DEF WalkInv
<1>7. Kind' = Kind
  BY DEF Kind
<1>8. position' = section.starts[c + 2] /\ parsed' = position' + 1
  BY <1>1, <1>2, <1>5 DEF WalkInv
<1>9. WalkInv'
  BY <1>1, <1>3, <1>6, <1>7, <1>8 DEF WalkInv
<1> QED BY <1>2, <1>4, <1>5, <1>9

\* Reading an entry takes the next of the section.
LEMMA ReadTakesNext ==
  ASSUME Inv, ReadEntry
  PROVE  LET c == count[Kind]
             e == section.entries[c + 1] IN
         /\ at = "entries" /\ Left /\ c <= MaxEntries - 1 /\ c < Len(section.entries)
         /\ FillEntry(e)
         /\ IF Running(e)
            THEN at' = "descriptors" /\ offset' = 0 /\ UNCHANGED <<position, parsed, count>>
            ELSE Advance(e) /\ UNCHANGED <<at, offset>>
         /\ UNCHANGED <<section, result, id, names, shown>>
<1> USE DEF Inv
<1> DEFINE c == count[Kind]
<1>1. PICK k \in 1 .. Len(section.entries) :
        LET e == section.entries[k] IN
        /\ section.starts[k] = position
        /\ FillEntry(e)
        /\ IF Running(e)
           THEN at' = "descriptors" /\ offset' = 0 /\ UNCHANGED <<position, parsed, count>>
           ELSE Advance(e) /\ UNCHANGED <<at, offset>>
  BY DEF ReadEntry
<1>2. /\ at = "entries" /\ Left /\ c <= MaxEntries - 1
      /\ UNCHANGED <<section, result, id, names, shown>>
  BY DEF ReadEntry, Room
<1>3. section \in Sections /\ c \in Nat /\ Len(section.entries) \in Nat
  BY SectionFacts DEF TypeOK, Kind
<1>4. c < Len(section.entries) /\ position = section.starts[c + 1]
  BY <1>2, LeftMeansEntry DEF WalkInv
<1>5. k = c + 1
  <2>1. c + 1 \in 1 .. Len(section.entries) + 1
    BY <1>3, <1>4
  <2>2. section.starts[c + 1] \in Nat
    BY <1>3, <2>1, SectionFacts
  <2>3. /\ k < c + 1 => section.starts[k] < section.starts[c + 1]
        /\ c + 1 < k => section.starts[c + 1] < section.starts[k]
    BY <1>3, <2>1, StartsDiffer
  <2> QED BY <1>1, <1>3, <1>4, <2>1, <2>2, <2>3
<1> QED BY <1>1, <1>2, <1>4, <1>5

LEMMA ReadStep ==
  ASSUME Inv, ReadEntry
  PROVE  Inv'
<1> USE DEF Inv
<1> DEFINE c == count[Kind]
           e == section.entries[c + 1]
<1>1. /\ entries' = [entries EXCEPT ![Kind][c + 1] = e]
      /\ IF Running(e)
         THEN at' = "descriptors" /\ offset' = 0 /\ UNCHANGED <<position, parsed, count>>
         ELSE Advance(e) /\ UNCHANGED <<at, offset>>
  BY ReadTakesNext DEF FillEntry
<1>2. /\ at = "entries" /\ Left /\ c <= MaxEntries - 1 /\ c < Len(section.entries)
      /\ UNCHANGED <<section, result, id, names>>
  BY ReadTakesNext
<1>3. section \in Sections /\ Kind \in Kinds /\ c \in Nat /\ Len(section.entries) \in Nat
  BY SectionFacts DEF TypeOK, Kind
<1>6. e \in EntrySet
  <2>1. c + 1 \in 1 .. Len(section.entries)
    BY <1>2, <1>3
  <2> QED BY <1>3, <2>1 DEF EntrySet
<1>7. c + 1 \in 1 .. MaxEntries
  BY <1>2, <1>3, MaxEntriesAssumption
<1>8. /\ entries' \in [Kinds -> [1 .. MaxEntries -> EntrySet]]
      /\ entries'[Kind][c + 1] = e
      /\ \A j \in 1 .. c : entries'[Kind][j] = entries[Kind][j]
  <2>1. entries' = [entries EXCEPT ![Kind] = [entries[Kind] EXCEPT ![c + 1] = e]]
    BY <1>1
  <2>2. entries \in [Kinds -> [1 .. MaxEntries -> EntrySet]]
    BY DEF TypeOK
  <2>3. [entries[Kind] EXCEPT ![c + 1] = e] \in [1 .. MaxEntries -> EntrySet]
    BY <1>3, <1>6, <1>7, <2>2
  <2>4. entries' \in [Kinds -> [1 .. MaxEntries -> EntrySet]]
    BY <1>3, <2>1, <2>2, <2>3
  <2>5. entries'[Kind] = [entries[Kind] EXCEPT ![c + 1] = e]
    BY <1>3, <2>1, <2>2
  <2>6. DOMAIN entries[Kind] = 1 .. MaxEntries
    BY <1>3, <2>2
  <2>7. entries'[Kind][c + 1] = e
    BY <1>7, <2>5, <2>6
  <2>8. ASSUME NEW j \in 1 .. c
        PROVE  entries'[Kind][j] = entries[Kind][j]
    <3>1. j \in 1 .. MaxEntries /\ j # c + 1
      BY <1>3, <1>7, MaxEntriesAssumption
    <3> QED BY <2>5, <2>6, <3>1
  <2> QED BY <2>4, <2>7, <2>8
<1>9. Kind' = Kind
  BY <1>2 DEF Kind
<1>10. CASE Running(e)
  <2>1. at' = "descriptors" /\ offset' = 0 /\ UNCHANGED <<position, parsed, count>>
    BY <1>1, <1>10
  <2>2. TypeOK'
    BY <1>2, <1>8, <2>1 DEF TypeOK
  <2>3. WalkInv'
    BY <1>2, <1>3, <1>8, <1>9, <2>1 DEF WalkInv
  <2>4. EventInv'
    BY <1>2, <1>8, <1>9, <1>10, <2>1 DEF EventInv, Running, Current
  <2>5. TableIsSection'
    BY <2>1 DEF TableIsSection
  <2> QED BY <2>2, <2>3, <2>4, <2>5
<1>11. CASE ~Running(e)
  <2>1. Advance(e) /\ at' = "entries" /\ offset' = offset
    BY <1>1, <1>2, <1>11
  <2>3. /\ WalkInv'
        /\ position' \in Nat /\ parsed' \in Nat
        /\ count' \in [Kinds -> 0 .. MaxEntries]
    BY <1>2, <1>8, <2>1, AdvanceStep
  <2>4. TypeOK'
    BY <1>2, <1>8, <2>1, <2>3 DEF TypeOK
  <2>5. EventInv' /\ TableIsSection'
    BY <2>1 DEF EventInv, TableIsSection
  <2> QED BY <2>3, <2>4, <2>5
<1> QED BY <1>10, <1>11

\* What the layout says of one event.
LEMMA EventFacts ==
  ASSUME NEW e, EventLaidOut(e)
  PROVE  /\ e.bytes \in Seq(0 .. 255) /\ e.extra = Len(e.bytes) /\ e.extra \in Nat
         /\ e.descriptors \in Nat
         /\ \A k \in 1 .. e.descriptors + 1 : e.loop[k] \in Nat
         /\ e.loop[1] = 0 /\ e.loop[e.descriptors + 1] = e.extra
         /\ \A k \in 1 .. e.descriptors : e.loop[k + 1] = e.loop[k] + 2 + e.bytes[e.loop[k] + 2]
         /\ InOrder(e.loop, e.descriptors + 1)
<1> DEFINE b == e.bytes
<1>1. e.bytes \in Seq(0 .. 255) /\ e.extra = Len(b)
  BY DEF EventLaidOut
<1>2. b \in Seq(0 .. 255)
  BY <1>1
<1>3. Len(b) \in Nat
  <2> HIDE DEF b
  <2> QED BY <1>2
<1>4. e.descriptors \in Nat /\ e.loop \in [1 .. e.descriptors + 1 -> Nat]
  BY DEF EventLaidOut
<1>5. \A k \in 1 .. e.descriptors + 1 : e.loop[k] \in Nat
  BY <1>4
<1>6. e.loop[1] = 0 /\ e.loop[e.descriptors + 1] = e.extra
  BY DEF EventLaidOut
<1>7. ASSUME NEW k \in 1 .. e.descriptors
      PROVE  e.loop[k + 1] = e.loop[k] + 2 + e.bytes[e.loop[k] + 2]
  BY DEF EventLaidOut
<1>8. InOrder(e.loop, e.descriptors + 1)
  BY DEF EventLaidOut
<1>9. e.extra \in Nat
  BY <1>1, <1>3 DEF b
<1> QED BY <1>1, <1>4, <1>5, <1>6, <1>7, <1>8, <1>9, Zenon

\* Whatever is read as a byte is one.
LEMMA ByteIsNumber ==
  ASSUME NEW e, e.bytes \in Seq(0 .. 255), NEW o \in Nat
  PROVE  ByteAt(e, o) \subseteq Nat
<1> DEFINE b == e.bytes
<1>1. b \in Seq(0 .. 255)
  OBVIOUS
<1> HIDE DEF b
<1>2. CASE o < Len(b)
  <2>1. Len(b) \in Nat
    BY <1>1
  <2>2. o + 1 \in 1 .. Len(b)
    BY <1>2, <2>1
  <2>3. b[o + 1] \in 0 .. 255
    BY <1>1, <2>2, ElementOfSeq
  <2>4. \A n \in 0 .. 255 : n \in Nat
    OBVIOUS
  <2>5. ByteAt(e, o) = {b[o + 1]}
    BY <1>2 DEF ByteAt, b
  <2> QED BY <2>3, <2>4, <2>5
<1>3. CASE ~(o < Len(b))
  BY <1>3, FollowingAssumption DEF ByteAt, b
<1> QED BY <1>2, <1>3

\* Walking descriptors moves nothing but the offset and the name.
LEMMA DescriptorStep ==
  ASSUME Inv, OtherDescriptor \/ ShortEventDescriptor
  PROVE  Inv'
<1> USE DEF Inv
<1>1. /\ at = "descriptors"
      /\ UNCHANGED <<at, section, result, position, parsed, id, count, entries>>
  BY DEF OtherDescriptor, ShortEventDescriptor
<1>2. Current = section.entries[count["eit"] + 1] /\ Current.bytes \in Seq(0 .. 255)
  <2>1. /\ section \in Sections /\ section.kind = "eit" /\ count["eit"] \in Nat
        /\ Len(section.entries) \in Nat
    BY <1>1, SectionFacts DEF EventInv, TypeOK, Kind, Kinds
  <2>2. count["eit"] + 1 \in 1 .. Len(section.entries)
    BY <1>1, <2>1 DEF EventInv
  <2>3. EventLaidOut(section.entries[count["eit"] + 1])
    BY <2>1, <2>2, SectionsAssumption
  <2> QED BY <1>1, <2>3, EventFacts DEF EventInv
<1>3. \A o \in Nat : ByteAt(Current, o) \subseteq Nat
  BY <1>2, ByteIsNumber
<1>4. offset' \in Nat
  <2>1. offset \in Nat /\ offset + 1 \in Nat /\ offset + 5 \in Nat
    BY DEF TypeOK
  <2>2. CASE OtherDescriptor
    BY <1>3, <2>1, <2>2 DEF OtherDescriptor, Skip
  <2>3. CASE ShortEventDescriptor
    <3>1. PICK n \in ByteAt(Current, offset + 5) :
            \E length \in ByteAt(Current, offset + 6 + n) : Skip(length)
      BY <2>3 DEF ShortEventDescriptor
    <3>2. n \in Nat /\ offset + 6 + n \in Nat
      BY <1>3, <2>1, <3>1
    <3> QED BY <1>3, <2>1, <3>1, <3>2 DEF Skip
  <2> QED BY <2>2, <2>3
<1>5. DOMAIN names' = 1 .. MaxEntries
  BY DEF OtherDescriptor, ShortEventDescriptor, TypeOK
<1> QED BY <1>1, <1>4, <1>5 DEF TypeOK, WalkInv, EventInv, TableIsSection, Kind, Current

\* The end of an event's descriptors takes the walk behind the event.
LEMMA EndEventStep ==
  ASSUME Inv, EndEvent
  PROVE  Inv'
<1> USE DEF Inv
<1>1. /\ at = "descriptors" /\ at' = "entries" /\ Advance(Current)
      /\ UNCHANGED <<section, result, offset, id, entries, names>>
  BY DEF EndEvent
<1>2. /\ Kind = "eit" /\ count[Kind] < Len(section.entries) /\ count[Kind] <= MaxEntries - 1
      /\ Current = section.entries[count[Kind] + 1]
      /\ Current = entries[Kind][count[Kind] + 1]
  BY <1>1 DEF EventInv, Current
<1>3. /\ WalkInv'
      /\ position' \in Nat /\ parsed' \in Nat
      /\ count' \in [Kinds -> 0 .. MaxEntries]
  BY <1>1, <1>2, AdvanceStep
<1>4. TypeOK'
  BY <1>1, <1>3 DEF TypeOK
<1>5. EventInv' /\ TableIsSection'
  BY <1>1 DEF EventInv, TableIsSection
<1> QED BY <1>3, <1>4, <1>5

\* A parser returns with the whole section, or for want of room.
LEMMA ReturnStep ==
  ASSUME Inv, Finish \/ Refuse
  PROVE  Inv'
<1> USE DEF Inv
<1>1. /\ at = "entries" /\ at' = "idle"
      /\ \/ ~Left /\ result' = "ok"
         \/ Left /\ ~Room /\ result' = "error"
      /\ UNCHANGED <<section, position, parsed, offset, id, count, entries, names>>
  BY DEF Finish, Refuse
<1>2. TypeOK'
  BY <1>1 DEF TypeOK
<1>3. section \in Sections /\ count[Kind] \in Nat /\ Len(section.entries) \in Nat
  BY SectionFacts DEF TypeOK, Kind
<1>4. TableIsSection'
  <2>1. CASE ~Left /\ result' = "ok"
    BY <1>1, <1>3, <2>1, LeftMeansEntry DEF TableIsSection, WalkInv, Kind
  <2>2. CASE Left /\ ~Room /\ result' = "error"
    <3>1. Len(section.entries) > MaxEntries
      BY <1>1, <1>3, <2>2, LeftMeansEntry, MaxEntriesAssumption DEF Room
    <3> QED BY <1>1, <2>2, <3>1 DEF TableIsSection
  <2> QED BY <1>1, <2>1, <2>2
<1>5. WalkInv' /\ EventInv'
  BY <1>1 DEF WalkInv, EventInv
<1> QED BY <1>2, <1>4, <1>5

LEMMA InvStep ==
  ASSUME Inv, [Next]_vars
  PROVE  Inv'
<1>1. CASE UNCHANGED vars
  BY <1>1 DEF vars, Inv, TypeOK, WalkInv, EventInv, TableIsSection, Left, Kind, Current
<1>2. CASE Next
  BY <1>2, ArriveStep, ReadStep, DescriptorStep, EndEventStep, ReturnStep DEF Next, Parse
<1> QED BY <1>1, <1>2

-----------------------------------------------------------------------------
(* The name of the running event *)

\* The first event of a section is laid out as one.
LEMMA FirstEvent ==
  ASSUME NEW s \in Sections, s.kind = "eit", Len(s.entries) > 0
  PROVE  EventLaidOut(s.entries[1])
<1>1. 1 \in 1 .. Len(s.entries)
  BY SectionsAssumption
<1> QED BY <1>1, SectionsAssumption

\* Inside an event the byte read is the event's.
LEMMA ByteInside ==
  ASSUME NEW e, EventLaidOut(e), NEW o \in Nat, o < e.extra
  PROVE  ByteAt(e, o) = {e.bytes[o + 1]} /\ e.bytes[o + 1] \in Nat
<1>1. o < Len(e.bytes)
  BY DEF EventLaidOut
<1>2. ByteAt(e, o) = {e.bytes[o + 1]}
  BY <1>1 DEF ByteAt
<1>3. ByteAt(e, o) \subseteq Nat
  BY ByteIsNumber DEF EventLaidOut
<1> QED BY <1>2, <1>3

\* A plain name is the only thing in its event that looks like one.
LEMMA PlainFacts ==
  ASSUME NEW e, EventLaidOut(e), NEW o \in Nat, PlainName(e, o)
  PROVE  /\ o + 5 < e.extra /\ e.bytes[o + 1] = ShortEvent /\ e.bytes[o + 6] # 0
         /\ \E m \in 1 .. e.descriptors : e.loop[m] = o
         /\ \A k \in 1 .. e.descriptors : e.bytes[e.loop[k] + 1] = ShortEvent => o <= e.loop[k]
         /\ \A p \in Nat : o < p /\ p < e.extra => e.bytes[p + 1] # ShortEvent
<1>1. o + 5 < e.extra /\ e.bytes[o + 1] = ShortEvent /\ e.bytes[o + 6] # 0
  BY DEF PlainName, ShortEvents
<1>2. \E m \in 1 .. e.descriptors : e.loop[m] = o
  BY DEF PlainName, ShortEvents
<1>3. \A k \in 1 .. e.descriptors : e.bytes[e.loop[k] + 1] = ShortEvent => o <= e.loop[k]
  BY DEF PlainName, ShortEvents
<1>4. \A p \in Nat : o < p /\ p < e.extra => e.bytes[p + 1] # ShortEvent
  BY DEF PlainName, EventLaidOut
<1> QED BY <1>1, <1>2, <1>3, <1>4

\* From one descriptor to the next the walk does not jump over the name.
LEMMA ApproachOther ==
  ASSUME NEW e, EventLaidOut(e), NEW o \in Nat, PlainName(e, o), Approach(e, o),
         e = Current, offset \in Nat, OtherDescriptor
  PROVE  Approach(e, o)'
<1>1. /\ offset < e.extra /\ names' = names
      /\ \E tag \in ByteAt(e, offset) \ {ShortEvent}, length \in ByteAt(e, offset + 1) :
           offset' = offset + length + 2
  BY DEF OtherDescriptor, Skip
<1>2. CASE offset > o /\ Read(e, o)
  <2>1. \A length \in ByteAt(e, offset + 1) : length \in Nat
    BY ByteIsNumber, EventFacts
  <2>2. offset' > o
    BY <1>1, <1>2, <2>1
  <2> QED BY <1>1, <1>2, <2>2 DEF Approach, Read
<1>3. ASSUME NEW k \in 1 .. e.descriptors, offset = e.loop[k], e.loop[k] <= o
      PROVE  Approach(e, o)'
  <2>1. e.bytes[offset + 1] # ShortEvent
    BY <1>1, ByteInside
  <2>2. PICK m \in 1 .. e.descriptors : e.loop[m] = o
    BY PlainFacts
  <2>3. /\ e.descriptors \in Nat /\ e.extra \in Nat
        /\ \A j \in 1 .. e.descriptors + 1 : e.loop[j] \in Nat
        /\ \A i, j \in 1 .. e.descriptors + 1 : i < j => e.loop[i] < e.loop[j]
    <3>1. InOrder(e.loop, e.descriptors + 1)
      BY EventFacts
    <3>2. \A i, j \in 1 .. e.descriptors + 1 : i < j => e.loop[i] < e.loop[j]
      BY <3>1, Zenon DEF InOrder
    <3>3. /\ e.descriptors \in Nat /\ e.extra \in Nat
          /\ \A j \in 1 .. e.descriptors + 1 : e.loop[j] \in Nat
      BY EventFacts
    <3> QED BY <3>2, <3>3
  <2>4. k # m
    BY <1>3, <2>1, <2>2, PlainFacts
  <2>5. k < m
    BY <1>3, <2>2, <2>3, <2>4
  <2>6. k + 1 \in 1 .. e.descriptors /\ e.loop[k + 1] <= o
    <3>1. k + 1 \in 1 .. e.descriptors /\ (k + 1 < m \/ k + 1 = m)
      BY <2>3, <2>5
    <3> QED BY <2>2, <2>3, <3>1
  <2>7. e.loop[k + 1] = offset + 2 + e.bytes[offset + 2]
    BY <1>3, EventFacts
  <2>8. offset + 1 \in Nat /\ offset + 1 < e.extra
    BY <1>3, <2>2, <2>3, PlainFacts
  <2>9. /\ ByteAt(e, offset + 1) = {e.bytes[(offset + 1) + 1]}
        /\ e.bytes[(offset + 1) + 1] \in Nat
    BY <2>8, ByteInside
  <2>10. (offset + 1) + 1 = offset + 2
    OBVIOUS
  <2>11. offset' = e.loop[k + 1]
    BY <1>1, <2>7, <2>9, <2>10
  <2> QED BY <2>6, <2>11 DEF Approach
<1> QED BY <1>2, <1>3 DEF Approach

\* The walk stops at the name, reads it, and takes nothing behind it for one.
LEMMA ApproachName ==
  ASSUME NEW e, EventLaidOut(e), NEW o \in Nat, PlainName(e, o), Approach(e, o),
         e = Current, offset \in Nat, count["eit"] = 0, DOMAIN names = 1 .. MaxEntries,
         ShortEventDescriptor
  PROVE  Approach(e, o)'
<1>1. /\ offset < e.extra /\ ShortEvent \in ByteAt(e, offset)
      /\ \E n \in ByteAt(e, offset + 5) :
           /\ names' = IF n = 0 THEN names
                       ELSE [names EXCEPT ![1] = [of |-> e.item, at |-> offset]]
           /\ \E length \in ByteAt(e, offset + 6 + n) : offset' = offset + length + 2
  BY DEF ShortEventDescriptor, Skip
<1>2. e.bytes[offset + 1] = ShortEvent
  BY <1>1, ByteInside
<1>3. offset = o
  <2>1. offset <= o
    BY <1>1, <1>2, PlainFacts
  <2>2. PICK k \in 1 .. e.descriptors : offset = e.loop[k]
    BY <2>1 DEF Approach
  <2>3. o <= offset
    BY <1>2, <2>2, PlainFacts
  <2> QED BY <2>1, <2>3
<1>4. e.extra \in Nat /\ o + 5 < e.extra /\ e.bytes[o + 6] # 0
  BY PlainFacts, EventFacts
<1>5. o + 5 \in Nat /\ (o + 5) + 1 = o + 6
  OBVIOUS
<1>6. ByteAt(e, o + 5) = {e.bytes[o + 6]} /\ e.bytes[o + 6] \in Nat
  BY <1>4, <1>5, ByteInside
<1>7. names' = [names EXCEPT ![1] = [of |-> e.item, at |-> o]]
  BY <1>1, <1>3, <1>4, <1>6
<1>8. Read(e, o)'
  BY <1>7, MaxEntriesAssumption DEF Read
<1>9. offset' > o
  <2>1. o + 6 + e.bytes[o + 6] \in Nat
    BY <1>6
  <2>2. ByteAt(e, o + 6 + e.bytes[o + 6]) \subseteq Nat
    BY <2>1, ByteIsNumber, EventFacts
  <2> QED BY <1>1, <1>3, <1>6, <2>2
<1> QED BY <1>8, <1>9 DEF Approach

\* Whose table it is is known from the header on.
LEMMA IdStep ==
  ASSUME Inv, IdInv, [Next]_vars
  PROVE  IdInv'
<1>1. CASE UNCHANGED vars
  BY <1>1 DEF IdInv, vars, Kind
<1>2. ASSUME NEW s \in Sections, Arrive(s)
      PROVE  IdInv'
  BY <1>2, SectionFacts DEF Arrive, ReadHeader, IdInv, Kind, Inv, TypeOK
<1>3. CASE Parse
  <2>1. at # "idle" /\ UNCHANGED <<section, id>>
    BY <1>3 DEF Parse, ReadEntry, Refuse, OtherDescriptor, ShortEventDescriptor, EndEvent, Finish
  <2> QED BY <2>1 DEF IdInv, Kind
<1> QED BY <1>1, <1>2, <1>3 DEF Next

\* Reading the first event starts its descriptors, or it does not run.
LEMMA NameRead ==
  ASSUME Inv, NameInv, ReadEntry
  PROVE  NameInv'
<1> DEFINE c == count[Kind]
           e == section.entries[1]
<1> SUFFICES ASSUME Kind = "eit", Len(section.entries) > 0, e.status = 4,
                    NEW o \in Nat, PlainName(e, o)
             PROVE  /\ at' = "descriptors" /\ count'["eit"] = 0 => Approach(e, o)'
                    /\ count'["eit"] > 0 => Read(e, o)'
  BY ReadTakesNext DEF NameInv, Kind
<1>1. /\ at = "entries" /\ UNCHANGED <<section, names>>
      /\ IF Running(section.entries[c + 1])
         THEN at' = "descriptors" /\ offset' = 0 /\ UNCHANGED <<position, parsed, count>>
         ELSE Advance(section.entries[c + 1]) /\ UNCHANGED <<at, offset>>
  BY ReadTakesNext
<1>2. c \in Nat /\ DOMAIN count = Kinds /\ section \in Sections
  BY DEF Inv, TypeOK, Kind, Kinds
<1>3. CASE c = 0
  <2>1. at' = "descriptors" /\ offset' = 0 /\ UNCHANGED count
    BY <1>1, <1>3 DEF Running
  <2>2. EventLaidOut(e)
    BY <1>2, FirstEvent DEF Kind
  <2>3. PICK m \in 1 .. e.descriptors : e.loop[m] = o
    BY <2>2, PlainFacts
  <2>4. e.loop[1] = 0 /\ e.descriptors \in Nat
    BY <2>2, EventFacts
  <2>5. 1 \in 1 .. e.descriptors
    BY <2>3, <2>4
  <2>6. Approach(e, o)'
    BY <1>1, <2>1, <2>4, <2>5 DEF Approach
  <2> QED BY <1>3, <2>1, <2>6
<1>4. CASE c > 0
  <2>1. Read(e, o)
    BY <1>1, <1>4 DEF NameInv
  <2>2. Read(e, o)'
    BY <1>1, <2>1 DEF Read
  <2>3. count'["eit"] # 0
    <3>1. count' = count \/ count' = [count EXCEPT !["eit"] = c + 1]
      BY <1>1 DEF Advance
    <3> QED BY <1>2, <1>4, <3>1 DEF Kinds
  <2> QED BY <2>2, <2>3
<1> QED BY <1>2, <1>3, <1>4

\* While the first event is walked its name is neared, while another is, kept.
LEMMA NameDescriptor ==
  ASSUME Inv, NameInv, OtherDescriptor \/ ShortEventDescriptor
  PROVE  NameInv'
<1> DEFINE e == section.entries[1]
<1>1. /\ at = "descriptors" /\ UNCHANGED <<at, section, count>>
  BY DEF OtherDescriptor, ShortEventDescriptor
<1> SUFFICES ASSUME Kind = "eit", Len(section.entries) > 0, e.status = 4,
                    NEW o \in Nat, PlainName(e, o)
             PROVE  /\ count["eit"] = 0 => Approach(e, o)'
                    /\ count["eit"] > 0 => Read(e, o)'
  BY <1>1 DEF NameInv, Kind
<1>2. /\ count["eit"] \in Nat /\ offset \in Nat /\ section \in Sections
      /\ DOMAIN names = 1 .. MaxEntries
  BY DEF Inv, TypeOK, Kinds
<1>3. EventLaidOut(e)
  BY <1>2, FirstEvent DEF Kind
<1>4. CASE count["eit"] = 0
  <2>1. Approach(e, o) /\ e = Current
    BY <1>1, <1>4 DEF NameInv, Inv, EventInv
  <2>2. Approach(e, o)'
    <3>1. PICK f : f = e
      OBVIOUS
    <3>2. Approach(f, o)'
      BY <1>2, <1>3, <1>4, <2>1, <3>1, ApproachOther, ApproachName
    <3>3. f = e'
      BY <1>1, <3>1
    <3> HIDE DEF e
    <3> QED BY <3>2, <3>3
  <2> QED BY <1>4, <2>2
<1>5. CASE count["eit"] > 0
  <2>1. Read(e, o)
    BY <1>1, <1>5 DEF NameInv
  <2>2. names'[1] = names[1]
    <3>1. 1 \in DOMAIN names /\ count["eit"] + 1 # 1
      BY <1>2, <1>5, MaxEntriesAssumption
    <3>2. CASE OtherDescriptor
      BY <3>2 DEF OtherDescriptor
    <3>3. CASE ShortEventDescriptor
      BY <3>1, <3>3 DEF ShortEventDescriptor
    <3> QED BY <3>2, <3>3
  <2>3. Read(e, o)'
    BY <1>1, <2>1, <2>2 DEF Read
  <2> QED BY <1>5, <2>3
<1> QED BY <1>2, <1>4, <1>5

\* At the end of the first event the walk is past its name.
LEMMA NameEnd ==
  ASSUME Inv, NameInv, EndEvent
  PROVE  NameInv'
<1> DEFINE e == section.entries[1]
<1>1. /\ at = "descriptors" /\ at' = "entries" /\ offset >= Current.extra
      /\ UNCHANGED <<section, names>>
  BY DEF EndEvent
<1> SUFFICES ASSUME Kind = "eit", Len(section.entries) > 0, e.status = 4,
                    NEW o \in Nat, PlainName(e, o)
             PROVE  Read(e, o)'
  BY <1>1 DEF NameInv, Kind
<1>2. count["eit"] \in Nat /\ offset \in Nat /\ section \in Sections
  BY DEF Inv, TypeOK, Kinds
<1>3. EventLaidOut(e)
  BY <1>2, FirstEvent DEF Kind
<1>4. Read(e, o)
  <2>1. CASE count["eit"] = 0
    <3>1. Approach(e, o) /\ e = Current
      BY <1>1, <2>1 DEF NameInv, Inv, EventInv
    <3>2. o < e.extra
      <4>1. o + 5 < e.extra
        BY <1>3, PlainFacts, Zenon
      <4>2. e.extra \in Nat
        BY <1>3, EventFacts
      <4> QED BY <4>1, <4>2
    <3>3. e.extra \in Nat
      BY <1>3, EventFacts
    <3> QED BY <1>1, <1>2, <3>1, <3>2, <3>3 DEF Approach
  <2>2. CASE count["eit"] > 0
    BY <1>1, <2>2 DEF NameInv
  <2> QED BY <1>2, <2>1, <2>2
<1> QED BY <1>1, <1>4 DEF Read

LEMMA NameStep ==
  ASSUME Inv, NameInv, [Next]_vars
  PROVE  NameInv'
<1>1. CASE UNCHANGED vars
  BY <1>1 DEF NameInv, vars, Kind, Approach, Read
<1>2. ASSUME NEW s \in Sections, Arrive(s)
      PROVE  NameInv'
  <2>1. /\ section' = s /\ at' = "entries"
        /\ count' = [count EXCEPT ![s.kind] = 0]
    BY <1>2 DEF Arrive, ReadHeader, EmptyTable
  <2>2. s.kind = "eit" => count'["eit"] = 0
    BY <2>1 DEF Inv, TypeOK, Kinds
  <2> QED BY <2>1, <2>2 DEF NameInv, Kind
<1>3. CASE Refuse \/ Finish
  BY <1>3 DEF Refuse, Finish, NameInv
<1> QED BY <1>1, <1>2, <1>3, NameRead, NameDescriptor, NameEnd DEF Next, Parse

-----------------------------------------------------------------------------
(* The start time *)

\* What is cut off is the date.
LEMMA LowBits ==
  ASSUME NEW n \in Nat, NEW t \in Nat, t < 65536
  PROVE  (n * 65536 + t) % 65536 = t
<1> DEFINE w == n * 65536 + t
<1>1. w \in Nat /\ w = 65536 * n + t
  OBVIOUS
<1> HIDE DEF w
<1>2. w % 65536 = t
  BY <1>1
<1> QED BY <1>2 DEF w

\* The digits of an event's start time are those it is sent with: they come
\* apart as they were put together.
LEMMA DigitsOfStart ==
  ASSUME NEW e, EventLaidOut(e)
  PROVE  Digits(StartTime(e)) = e.digits
<1> DEFINE t == e.clock
           a == e.digits[1]
           b == e.digits[2]
           c == e.digits[3]
           d == e.digits[4]
           u == 16 * a + b
           v == 256 * a + 16 * b + c
           x == 256 * b + 16 * c + d
           y == 16 * c + d
<1>1. e.date \in Nat /\ e.digits \in [1 .. 4 -> 0 .. 15]
  BY DEF EventLaidOut
<1>2. a \in 0 .. 15 /\ b \in 0 .. 15 /\ c \in 0 .. 15 /\ d \in 0 .. 15
  BY <1>1
<1>3. t = 4096 * a + 256 * b + 16 * c + d
  BY DEF EventLaidOut
<1>4. e.digits = <<a, b, c, d>>
  BY <1>1
<1> HIDE DEF a, b, c, d, t
<1>5. u \in Nat /\ v \in Nat /\ x \in Nat /\ y \in Nat
  BY <1>2
<1>6. t \in Nat /\ t < 65536 /\ a \in Nat /\ b \in Nat /\ c \in Nat /\ d \in Nat
  BY <1>2, <1>3
<1>7. t = 4096 * a + x /\ x < 4096
  BY <1>2, <1>3
<1>8. t = 256 * u + y /\ y < 256
  BY <1>2, <1>3
<1>9. t = 16 * v + d /\ d < 16
  BY <1>2, <1>3
<1>10. u = 16 * a + b /\ b < 16 /\ v = 16 * u + c /\ c < 16
  BY <1>2
<1> HIDE DEF u, v, x, y
<1>11. t \div 4096 = a
  BY <1>5, <1>6, <1>7
<1>12. t \div 256 = u
  BY <1>5, <1>6, <1>8
<1>13. t \div 16 = v
  BY <1>5, <1>6, <1>9
<1>14. t % 16 = d
  BY <1>5, <1>6, <1>9
<1>15. u % 16 = b
  BY <1>5, <1>6, <1>10
<1>16. v % 16 = c
  BY <1>5, <1>6, <1>10
<1>17. StartTime(e) = t
  <2> DEFINE n == e.date
  <2>1. n \in Nat
    BY <1>1
  <2> HIDE DEF n
  <2>2. (n * 65536 + t) % 65536 = t
    BY <1>6, <2>1, LowBits
  <2> QED BY <2>2 DEF StartTime, n, t
<1>18. Digits(t) = <<a, b, c, d>>
  BY <1>11, <1>12, <1>13, <1>14, <1>15, <1>16 DEF Digits
<1> QED BY <1>4, <1>17, <1>18

-----------------------------------------------------------------------------
(* Theorems *)

\* Whatever the sections, every variable keeps its kind of value; no table is
\* written past its room.
THEOREM ParserTypes == Spec => []TypeOK
<1>1. Init => Inv
  BY InvInit
<1>2. Inv /\ [Next]_vars => Inv'
  BY InvStep
<1>3. Inv => TypeOK
  BY DEF Inv
<1> QED BY <1>1, <1>2, <1>3, PTL DEF Spec

\* Whatever the sections, their order and the room of the tables, a parser
\* that goes on stands at the start of an entry of the section.
THEOREM WalkStaysOnEntries == Spec => []WalkOnEntries
<1>1. Init => Inv
  BY InvInit
<1>2. Inv /\ [Next]_vars => Inv'
  BY InvStep
<1>3. Inv => WalkOnEntries
  <2> SUFFICES ASSUME Inv, at = "entries", Left
               PROVE  \E k \in 1 .. Len(section.entries) : section.starts[k] = position
    BY DEF WalkOnEntries
  <2>1. count[Kind] < Len(section.entries)
    BY LeftMeansEntry DEF Inv
  <2>2. count[Kind] \in Nat /\ Len(section.entries) \in Nat
    BY SectionFacts DEF Inv, TypeOK, Kind
  <2>3. count[Kind] + 1 \in 1 .. Len(section.entries)
    BY <2>1, <2>2
  <2> QED BY <2>3 DEF Inv, WalkInv
<1> QED BY <1>1, <1>2, <1>3, PTL DEF Spec

\* A table whose parser reported success is its section, and only a section
\* with too many entries is reported as an error.
THEOREM TablesAreSections == Spec => []TableIsSection
<1>1. Init => Inv
  BY InvInit
<1>2. Inv /\ [Next]_vars => Inv'
  BY InvStep
<1>3. Inv => TableIsSection
  BY DEF Inv
<1> QED BY <1>1, <1>2, <1>3, PTL DEF Spec

\* Whatever the sections, an event that is taken over runs, belongs to the
\* channel of the PMT, and has its own start time and its own plain name.
THEOREM EventsAreOwn == Spec => EventIsOwn
<1> DEFINE J == Inv /\ IdInv /\ NameInv
           Own == shown' # shown /\ Len(section.entries) > 0 =>
             LET e == section.entries[1] IN
             /\ e.status = 4 /\ section.id = id["pmt"]
             /\ shown'.time = e.digits
             /\ \A o \in ShortEvents(e) : PlainName(e, o) => shown'.name = [of |-> e.item, at |-> o]
<1>1. Init => J
  BY InvInit DEF Init, IdInv, NameInv
<1>2. J /\ [Next]_vars => J'
  BY InvStep, IdStep, NameStep
<1>3. J /\ [Next]_vars => [Own]_vars
  <2> SUFFICES ASSUME J, [Next]_vars, shown' # shown, Len(section.entries) > 0
               PROVE  Own
    BY DEF vars
  <2> DEFINE e == section.entries[1]
  <2>1. Finish
    BY DEF Next, Parse, Arrive, ReadEntry, Refuse, OtherDescriptor, ShortEventDescriptor,
           EndEvent, vars
  <2>2. /\ at = "entries" /\ ~Left /\ Kind = "eit"
        /\ id["pmt"] = id["eit"] /\ entries["eit"][1].status = 4
        /\ shown' = [time |-> Digits(StartTime(entries["eit"][1])), name |-> names[1]]
    BY <2>1 DEF Finish
  <2>3. count["eit"] = Len(section.entries) /\ count["eit"] \in Nat
    BY <2>2, LeftMeansEntry DEF Inv, TypeOK, Kinds
  <2>4. entries["eit"][1] = e
    BY <2>2, <2>3 DEF Inv, WalkInv
  <2>5. EventLaidOut(e)
    BY <2>2, FirstEvent DEF Inv, TypeOK, Kind
  <2>6. section.id = id["pmt"]
    BY <2>2 DEF IdInv
  <2>7. shown'.time = e.digits
    BY <2>2, <2>4, <2>5, DigitsOfStart
  <2>8. ASSUME NEW o \in ShortEvents(e), PlainName(e, o)
        PROVE  shown'.name = [of |-> e.item, at |-> o]
    <3>1. o \in Nat
      <4>1. PICK k \in 1 .. e.descriptors : o = e.loop[k]
        BY DEF ShortEvents
      <4> QED BY <2>5, <4>1, EventFacts
    <3>2. Read(e, o)
      BY <2>2, <2>3, <2>4, <2>8, <3>1 DEF NameInv
    <3> QED BY <2>2, <3>2 DEF Read
  <2> QED BY <2>2, <2>4, <2>6, <2>7, <2>8
<1> QED BY <1>1, <1>2, <1>3, PTL DEF Spec, EventIsOwn
=============================================================================
