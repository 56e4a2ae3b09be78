---------------------------- MODULE MCTableParser ----------------------------
(***************************************************************************)
(* Sections for TLC: tables that are empty, full and one entry too long,   *)
(* elements and programs with and without descriptors, and events with     *)
(* every shape of descriptor loop the walk tells apart.                    *)
(***************************************************************************)
EXTENDS TableParser
LOCAL INSTANCE SequencesExt

\* Entries one behind the other.
Lay(kind, number, lead, list) ==
  LET bare == [kind |-> kind, id |-> number, lead |-> lead, entries |-> list]
      starts[k \in 1 .. Len(list) + 1] ==
        IF k = 1 THEN HeaderBytes(bare) ELSE starts[k - 1] + EntryBytes(bare, k - 1)
  IN [kind |-> kind, id |-> number, lead |-> lead, entries |-> list,
      starts |-> starts, length |-> starts[Len(list) + 1] + 4 - 3]

Entry(i, n) == [item |-> i, extra |-> n]

\* An event at 20:45 or at 19:30 with a list of descriptors.
EventWith(i, status, late, list) ==
  [item |-> i, extra |-> Len(FlattenSeq(list)), bytes |-> FlattenSeq(list),
   descriptors |-> Len(list),
   loop |-> [k \in 1 .. Len(list) + 1 |-> Len(FlattenSeq(SubSeq(list, 1, k - 1)))],
   status |-> status, date |-> 3,
   clock |-> IF late THEN 32 * 256 + 69 ELSE 25 * 256 + 48,
   digits |-> IF late THEN <<2, 0, 4, 5>> ELSE <<1, 9, 3, 0>>]

\* Descriptors: a content descriptor, short events with a name and no text, a
\* text with an M where the walk lands, and without a name.
Content == <<84, 2, 17, 0>>
Named == <<ShortEvent, 7, 115, 114, 112, 2, 5, 78, 0>>
NamedWithM == <<ShortEvent, 12, 115, 114, 112, 1, 78, 6, 77, 33, 33, 33, 33, 33>>
Nameless == <<ShortEvent, 5, 115, 114, 112, 0, 0>>

MCSections == {
  Lay("pat", 0, 0, <<>>), Lay("pat", 0, 0, <<Entry(1, 0), Entry(2, 0)>>),
  Lay("pat", 0, 0, <<Entry(1, 0), Entry(3, 0), Entry(2, 0)>>),
  Lay("pmt", 1, 0, <<Entry(1, 0), Entry(2, 3)>>), Lay("pmt", 2, 2, <<Entry(3, 4)>>),
  Lay("pmt", 1, 0, <<Entry(1, 1), Entry(2, 0), Entry(3, 0)>>),
  Lay("eit", 1, 0, <<>>),
  Lay("eit", 1, 0, <<EventWith(1, 4, FALSE, <<Content, Named, Content>>),
                     EventWith(2, 1, TRUE, <<Named>>)>>),
  Lay("eit", 1, 0, <<EventWith(3, 4, TRUE, <<NamedWithM>>)>>),
  Lay("eit", 1, 0, <<EventWith(4, 4, TRUE, <<Content, Nameless>>)>>),
  Lay("eit", 2, 0, <<EventWith(5, 4, TRUE, <<Named>>)>>),
  Lay("eit", 2, 0, <<EventWith(6, 1, FALSE, <<Named>>)>>)}
=============================================================================
