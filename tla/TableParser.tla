----------------------------- MODULE TableParser -----------------------------
(***************************************************************************)
(* sectionReceivedCallback and the parsers it calls: PAT, PMT and EIT      *)
(* sections arrive in any order and each is walked into its table, which   *)
(* keeps what earlier sections have left in it.  Only the library's thread *)
(* takes these steps; what the other threads see of them while they happen *)
(* is in StreamController.                                                 *)
(*                                                                         *)
(* A section is its layout: where each entry starts and how long it is.    *)
(* What an entry says is kept whole; of an event the running status, the   *)
(* start time and the bytes of its descriptors are looked at, and a name   *)
(* is the event and the offset it was read from.                           *)
(***************************************************************************)
EXTENDS Integers, Sequences

CONSTANTS
  Sections,     \* the sections on air
  MaxEntries,   \* the room of a table: TABLES_MAX_NUMBER_OF_...
  Following     \* the bytes that may follow a descriptor loop

Kinds == {"pat", "pmt", "eit"}

\* The first n places of f lie one behind the other.
InOrder(f, n) == \A j, k \in 1 .. n : j < k => f[j] < f[k]

\* A section: a header, with a PMT's program descriptors at its end, the
\* entries, each with its descriptors, and a checksum of four bytes.  The
\* section length counts from the third byte on.
HeaderBytes(s) == [pat |-> 8, pmt |-> 12, eit |-> 14][s.kind] + s.lead
EntryBytes(s, k) == [pat |-> 4, pmt |-> 5, eit |-> 12][s.kind] + s.entries[k].extra

LaidOut(s) ==
  LET n == Len(s.entries) IN
  /\ s.starts[1] = HeaderBytes(s)
  /\ \A k \in 1 .. n : s.starts[k + 1] = s.starts[k] + EntryBytes(s, k)
  /\ InOrder(s.starts, n + 1)
  /\ s.length = s.starts[n + 1] + 4 - 3

\* An event: the descriptors lie one behind the other, each with a tag and a
\* length before its body; its start time is sent in decimal digits.
EventLaidOut(e) ==
  LET n == e.descriptors IN
  /\ e.bytes \in Seq(0 .. 255) /\ e.extra = Len(e.bytes)
  /\ n \in Nat /\ e.loop \in [1 .. n + 1 -> Nat]
  /\ e.loop[1] = 0 /\ e.loop[n + 1] = e.extra
  /\ \A k \in 1 .. n : e.loop[k + 1] = e.loop[k] + 2 + e.bytes[e.loop[k] + 2]
  /\ InOrder(e.loop, n + 1)
  /\ e.date \in Nat /\ e.digits \in [1 .. 4 -> 0 .. 15]
  /\ e.clock = 4096 * e.digits[1] + 256 * e.digits[2] + 16 * e.digits[3] + e.digits[4]

ASSUME SectionsAssumption ==
  \A s \in Sections :
    /\ s.kind \in Kinds /\ s.length \in Nat
    /\ s.lead \in Nat /\ (s.kind # "pmt" => s.lead = 0)
    /\ Len(s.entries) \in Nat
    /\ s.starts \in [1 .. Len(s.entries) + 1 -> Nat]
    /\ \A k \in 1 .. Len(s.entries) :
         /\ s.entries[k].extra \in Nat /\ (s.kind = "pat" => s.entries[k].extra = 0)
         /\ s.kind = "eit" => EventLaidOut(s.entries[k])
    /\ LaidOut(s)
ASSUME MaxEntriesAssumption == MaxEntries \in Nat \ {0}
ASSUME FollowingAssumption == Following \subseteq 0 .. 255

VARIABLES
  at,                  \* control point of the callback thread
  section,             \* the section in hand
  result,              \* what its parser has returned
  position, parsed,    \* currentBufferPosition and parsedLength
  offset,              \* the descriptor walk
  id, count, entries,  \* the tables: program number or service id, entries
  names,               \* eventName of each event of the EIT
  shown                \* the event in currentChannel

vars == <<at, section, result, position, parsed, offset, id, count, entries, names, shown>>

\* The tables are allocated and zeroed; a PMT never has program number 0.
Blank == [item |-> 0, extra |-> 0, status |-> 0, date |-> 0, clock |-> 0]
NoName == [of |-> 0, at |-> 0]

Init ==
  /\ at = "idle" /\ section \in Sections /\ result = "none"
  /\ position = 0 /\ parsed = 0 /\ offset = 0
  /\ id = [t \in Kinds |-> 0] /\ count = [t \in Kinds |-> 0]
  /\ entries = [t \in Kinds |-> [k \in 1 .. MaxEntries |-> Blank]]
  /\ names = [k \in 1 .. MaxEntries |-> NoName]
  /\ shown = [time |-> <<>>, name |-> NoName]

-----------------------------------------------------------------------------
(* Walking the entries *)

\* Where the first entry starts: behind last_section_number, the program
\* descriptors, last_table_id.
First(s) == CASE s.kind = "pat" -> 8 [] s.kind = "pmt" -> 12 + s.lead [] OTHER -> 14

\* Mutant of Passed: the checksum is not counted.
PassedWithoutChecksum(s) ==
  CASE s.kind = "pat" -> 8 - 3 [] s.kind = "pmt" -> 12 + s.lead - 3 [] OTHER -> 14 - 3

\* What of the section length the header and the checksum take.
Passed(s) ==
  CASE s.kind = "pat" -> 12 - 3 [] s.kind = "pmt" -> 12 + s.lead + 4 - 3 [] OTHER -> 14 + 4 - 3

\* How far the walk goes behind an entry; extra is its ES_info_length or
\* descriptors_loop_length.
Size(kind, e) ==
  CASE kind = "pat" -> 4 [] kind = "pmt" -> 5 + e.extra [] OTHER -> 12 + e.extra

\* Mutant of EmptyTable: the count of the last section stays.
KeepCount(t) == count' = count

EmptyTable(t) == count' = [count EXCEPT ![t] = 0]

\* parsePatHeader, parsePmtHeader, parseEitHeader: what is used of a header is
\* the length, kept with the section, and whose table it is.
ReadHeader(s) == section' = s /\ id' = [id EXCEPT ![s.kind] = s.id]

\* An EIT filter is set only once a PMT has been received.
Arrive(s) ==
  /\ at = "idle" /\ (s.kind = "eit" => id["pmt"] # 0)
  /\ at' = "entries" /\ result' = "none"
  /\ ReadHeader(s)
  /\ position' = First(s) /\ parsed' = Passed(s)
  /\ EmptyTable(s.kind)
  /\ UNCHANGED <<offset, entries, names, shown>>

Kind == section.kind
Left == parsed < section.length
Room == count[Kind] <= MaxEntries - 1

\* The entry just read is counted and the walk goes behind it.
Advance(e) ==
  /\ position' = position + Size(Kind, e) /\ parsed' = parsed + Size(Kind, e)
  /\ count' = [count EXCEPT ![Kind] = @ + 1]

\* The descriptors are only looked at while the event is running.
Running(e) == Kind = "eit" /\ e.status = 4

\* parsePatServiceInfo, parsePmtElementaryInfo and the head of parseEitEventInfo
\* fill the next free place of their table.
FillEntry(e) == entries' = [entries EXCEPT ![Kind][count[Kind] + 1] = e]

\* That an entry starts where the walk stands is WalkOnEntries.
ReadEntry ==
  /\ at = "entries" /\ Left /\ Room
  /\ \E k \in 1 .. Len(section.entries) :
       LET e == section.entries[k] IN
       /\ section.starts[k] = position
       /\ FillEntry(e)
       /\ IF Running(e)
          THEN at' = "descriptors" /\ offset' = 0 /\ UNCHANGED <<position, parsed, count>>
          ELSE Advance(e) /\ UNCHANGED <<at, offset>>
  /\ UNCHANGED <<section, result, id, names, shown>>

\* More entries than the table has room for: an error, nobody is signalled.
Refuse ==
  /\ at = "entries" /\ Left /\ ~Room
  /\ at' = "idle" /\ result' = "error"
  /\ UNCHANGED <<section, position, parsed, offset, id, count, entries, names, shown>>

-----------------------------------------------------------------------------
(* Walking the descriptors of a running event *)

ShortEvent == 77   \* 0x4D

\* What may be read at o: behind the event's bytes, whatever follows.
ByteAt(e, o) == IF o < Len(e.bytes) THEN {e.bytes[o + 1]} ELSE Following

Current == entries["eit"][count["eit"] + 1]

\* Mutant of Skip: the two bytes of a descriptor's own header are forgotten.
SkipBody(length) == offset' = offset + length

Skip(length) == offset' = offset + length + 2

\* A descriptor of any other kind.
OtherDescriptor ==
  /\ at = "descriptors" /\ offset < Current.extra
  /\ \E tag \in ByteAt(Current, offset) \ {ShortEvent}, length \in ByteAt(Current, offset + 1) :
       Skip(length)
  /\ UNCHANGED <<at, section, result, position, parsed, id, count, entries, names, shown>>

\* A short event descriptor: the name without its first byte is copied, an
\* empty one leaves the old name; then the length of the text, not that of the
\* descriptor, is skipped, so the next byte looked at lies inside of it.
ShortEventDescriptor ==
  /\ at = "descriptors" /\ offset < Current.extra
  /\ ShortEvent \in ByteAt(Current, offset)
  /\ \E n \in ByteAt(Current, offset + 5) :
       /\ names' = IF n = 0 THEN names
                   ELSE [names EXCEPT ![count["eit"] + 1] =
                           [of |-> Current.item, at |-> offset]]
       /\ \E length \in ByteAt(Current, offset + 6 + n) : Skip(length)
  /\ UNCHANGED <<at, section, result, position, parsed, id, count, entries, shown>>

EndEvent ==
  /\ at = "descriptors" /\ offset >= Current.extra
  /\ at' = "entries" /\ Advance(Current)
  /\ UNCHANGED <<section, result, offset, id, entries, names, shown>>

-----------------------------------------------------------------------------
(* The callback *)

\* startTime is cut to its low 16 bits, which hold the hour and the minute;
\* getEvent takes its four digits from the top.
StartTime(e) == (e.date * 65536 + e.clock) % 65536

\* Mutant of Digits: one digit too far to the right.
ShiftedDigits(t) == <<(t \div 256) % 16, (t \div 16) % 16, t % 16, 0>>

Digits(t) == <<t \div 4096, (t \div 256) % 16, (t \div 16) % 16, t % 16>>

\* The table is complete.  An EIT of the channel whose first event runs is
\* taken over into currentChannel: that is the first event of the table,
\* whether or not this section had one.
Finish ==
  /\ at = "entries" /\ ~Left
  /\ at' = "idle" /\ result' = "ok"
  /\ LET e == entries["eit"][1] IN
     IF Kind = "eit" /\ id["pmt"] = id["eit"] /\ e.status = 4
     THEN shown' = [time |-> Digits(StartTime(e)), name |-> names[1]]
     ELSE UNCHANGED shown
  /\ UNCHANGED <<section, position, parsed, offset, id, count, entries, names>>

Parse == ReadEntry \/ Refuse \/ OtherDescriptor \/ ShortEventDescriptor \/ EndEvent \/ Finish

Next == (\E s \in Sections : Arrive(s)) \/ Parse

Spec == Init /\ [][Next]_vars

\* The callback returns if the parsers do.
FairSpec == Spec /\ WF_vars(Parse)

-----------------------------------------------------------------------------
(* Properties *)

\* What a table may hold.
EntrySet == {Blank} \cup UNION {{s.entries[k] : k \in 1 .. Len(s.entries)} : s \in Sections}

\* Every variable keeps its kind of value.
TypeOK ==
  /\ at \in {"idle", "entries", "descriptors"}
  /\ section \in Sections
  /\ result \in {"none", "ok", "error"}
  /\ position \in Nat /\ parsed \in Nat /\ offset \in Nat
  /\ DOMAIN id = Kinds
  /\ count \in [Kinds -> 0 .. MaxEntries]
  /\ entries \in [Kinds -> [1 .. MaxEntries -> EntrySet]]
  /\ DOMAIN names = 1 .. MaxEntries

\* As long as a parser goes on it stands at the start of an entry: the lengths
\* it adds up never leave it inside an entry, take the checksum for an entry
\* or carry it past the section, whatever descriptors it skips and although
\* two lengths are counted, one for the place and one for the end.
WalkOnEntries ==
  at = "entries" /\ Left => \E k \in 1 .. Len(section.entries) : section.starts[k] = position

\* A parser that returns without an error has the whole section in the table,
\* in order, whatever longer or shorter sections came before it; it returns an
\* error only for more entries than the table holds.
TableIsSection ==
  /\ at = "idle" /\ result = "ok" =>
       /\ count[Kind] = Len(section.entries)
       /\ \A k \in 1 .. count[Kind] : entries[Kind][k] = section.entries[k]
  /\ at = "idle" /\ result = "error" => Len(section.entries) > MaxEntries

\* Where the short event descriptors of e start.
ShortEvents(e) ==
  {o \in {e.loop[k] : k \in 1 .. e.descriptors} : e.bytes[o + 1] = ShortEvent}

\* The first of them, if it has a name and nothing behind its head looks like
\* another one.
PlainName(e, o) ==
  /\ o \in ShortEvents(e) /\ \A p \in ShortEvents(e) : o <= p
  /\ o + 5 < e.extra /\ e.bytes[o + 6] > 0
  /\ \A p \in o + 1 .. e.extra - 1 : e.bytes[p + 1] # ShortEvent

\* The event taken over is the one the section in hand presents for the
\* channel of the PMT: its time, digit by digit, and its name, which other
\* events and other descriptors have no part in.  The exceptions are the code's:
\* a section without events, which takes over the event of an earlier section,
\* an event without a name, which gets the name of an earlier one, and text
\* with an M in it, where a name may be read from the middle of the text.
EventIsOwn ==
  [][shown' # shown /\ Len(section.entries) > 0 =>
       LET e == section.entries[1] IN
       /\ e.status = 4 /\ section.id = id["pmt"]
       /\ shown'.time = e.digits
       /\ \A o \in ShortEvents(e) : PlainName(e, o) => shown'.name = [of |-> e.item, at |-> o]]_vars

\* Every section is done with: no descriptor length can hold the walk in place.
ParseEnds == at # "idle" ~> at = "idle"
=============================================================================
