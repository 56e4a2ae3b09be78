----------------------- MODULE StreamControllerProofs -----------------------
(***************************************************************************)
(* Proofs about StreamController for every PAT, every assignment of        *)
(* streams to channels, every set of keys and every kind of trouble.       *)
(***************************************************************************)
EXTENDS StreamController, TLAPS

\* The tables: a channel's PMT never counts more elements than are on air for it
\* nor more than the entries written, and those counted are its own, also while
\* it is parsed again under the stream thread's loop over it.
TablesInv ==
  /\ patCount <= patKnown
  /\ pmt.count > 0 => pmt.channel # NoPid /\ pmt.count <= Len(Streams[pmt.channel])
  /\ pmt.count <= Len(elements)
  /\ \A j \in 1 .. pmt.count : elements[j] = pmt.channel
  /\ section.table = "PMT" => section.channel # NoPid
  /\ section.table = "PMT" /\ demux = "parsing" => pmt.channel = section.channel
  /\ ScanInTable

\* The type invariant with what makes it inductive.
TypeInv == TypeOK /\ KeysInRange /\ TablesInv

USE ServiceCountAssumption DEF NoPid, ZeroPid

\* What Programs says, so that it can stay folded: integers up to serviceInfoCount,
\* among them all from -2 on, all above one of them, and a configured number that
\* can be adopted with the one below it.
LEMMA ProgramsAreInts == \A n \in Programs : n \in Int /\ n <= ServiceCount
BY DEF Programs

LEMMA SmallArePrograms == \A n \in Int : -2 <= n /\ n <= ServiceCount => n \in Programs
BY DEF Programs

LEMMA AboveIsProgram ==
  \A m \in Programs, n \in Int : m <= n /\ n <= ServiceCount => n \in Programs
<1> SUFFICES ASSUME NEW m \in Programs, NEW n \in Int, m <= n, n <= ServiceCount
             PROVE  n \in Programs
  OBVIOUS
<1>1. CASE m >= -2
  BY <1>1 DEF Programs
<1>2. CASE \E c \in ConfigPrograms : c - 1 <= m
  BY <1>2, ConfigAssumption DEF Programs
<1> QED BY <1>1, <1>2 DEF Programs

LEMMA ConfigIsProgram ==
  \A c \in ConfigPrograms : c \in Int /\ (c <= ServiceCount - 2 => {c, c - 1} \subseteq Programs)
<1> SUFFICES ASSUME NEW c \in ConfigPrograms
             PROVE  c \in Int /\ (c <= ServiceCount - 2 => {c, c - 1} \subseteq Programs)
  OBVIOUS
<1>1. c \in Int
  BY ConfigAssumption
<1> QED BY <1>1 DEF Programs

\* Channel numbers and the two missing pids are values of programNumber's
\* range, so one loaded value of a key handler has one type.
LEMMA ChannelsArePrograms == Channels \cup {NoPid, ZeroPid} \subseteq Programs
BY SmallArePrograms DEF Channels

\* What startChannel returns to is a control point.
LEMMA ReturnedIsPoint == Returned \in {"loop", "init"}
BY DEF Returned

\* Whatever number startChannel is given, the filter it sets names the PMT of
\* a channel or a pid that carries none.
LEMMA PmtPidIsChannel ==
  ASSUME TypeOK PROVE PmtPids(channelNumber) \subseteq Channels \cup {NoPid}
<1>1. channelNumber \in Int /\ patKnown \in Int /\ patKnown <= ServiceCount
  BY ProgramsAreInts DEF TypeOK
<1>2. CASE channelNumber + 1 \in 1 .. patKnown - 1
  BY <1>1, <1>2 DEF PmtPids, Channels
<1>3. CASE channelNumber + 1 \notin 1 .. patKnown - 1 /\ channelNumber < -2
  BY <1>3 DEF PmtPids
<1>4. CASE channelNumber + 1 \notin 1 .. patKnown - 1 /\ ~(channelNumber < -2)
  BY <1>4 DEF PmtPids
<1> QED BY <1>2, <1>3, <1>4

LEMMA InitTypeInv == Init => TypeInv
<1> SUFFICES ASSUME Init PROVE TypeInv
  OBVIOUS
<1>1. info \in [Fields -> Programs]
  BY ChannelsArePrograms, SmallArePrograms DEF Init
<1>2. /\ handle \in [Kinds -> Channels \cup {NoPid}] /\ opened \in [Kinds -> Int]
      /\ found \in [Elements -> Channels \cup {NoPid}]
  BY DEF Init, Nothing
<1>3. /\ programNumber \in Programs /\ rcValue \in Programs /\ channelNumber \in Programs
      /\ patCount \in 0 .. ServiceCount /\ patKnown \in 0 .. ServiceCount
  BY SmallArePrograms DEF Init
<1>4. /\ filterHandle \in Filters /\ filters \subseteq Filters /\ section \in Filters
      /\ pmt \in [channel : Channels \cup {NoPid}, count : Nat]
  BY DEF Init, Filters, PatFilter
<1>5. sc \in StreamPoints /\ rc \in RemotePoints /\ rcField \in Copied
  BY DEF Init, StreamPoints, RemotePoints, Copied
<1>6. /\ changeChannel \in BOOLEAN /\ isInitialized \in BOOLEAN /\ threadExit \in BOOLEAN
      /\ event \in Channels \cup {NoPid} /\ i \in Nat
      /\ demux = "idle" /\ main = "run"
      /\ firstEvent \in Channels \cup {NoPid}
      /\ config \in ConfigPrograms /\ lastKey \in Programs \cup {NoKey}
  BY DEF Init
<1>9. elements \in Seq(Channels) /\ elements = <<>>
  BY DEF Init
<1>7. TypeOK
  BY <1>1, <1>2, <1>3, <1>4, <1>5, <1>6, <1>9 DEF TypeOK
<1>8. KeysInRange /\ TablesInv
  BY DEF Init, KeysInRange, TablesInv, PatFilter, BeforeAdoption, ScanInTable
<1> QED BY <1>7, <1>8 DEF TypeInv

LEMMA StreamThreadTypes ==
  ASSUME TypeInv, StreamThread
  PROVE  TypeOK'
<1> USE DEF TypeInv, TypeOK, StreamThread, StreamPoints, request, tables, pmtTable, events,
            flags, player, demuxer, locals, remote, callback
<1>1. CASE SetPatFilter
  BY <1>1 DEF SetPatFilter, SetFilter, PatFilter, Filters
<1>2. CASE BeginWait \/ CheckConfigProgram \/ EndScan \/ LoopExit \/ TestElement
  BY <1>2 DEF BeginWait, CheckConfigProgram, EndScan, LoopExit, TestElement
<1>3. CASE AdoptConfigProgram
  <2>1. config \in Programs
    BY <1>3, ConfigIsProgram DEF AdoptConfigProgram, KeysInRange
  <2> QED BY <1>3, <2>1 DEF AdoptConfigProgram
<1>4. CASE FinishInit
  <2>1. isInitialized' \in BOOLEAN /\ sc' \in StreamPoints
    BY <1>4 DEF FinishInit
  <2>2. UNCHANGED <<request, tables, info, threadExit, player, demuxer, locals, remote, callback,
                    config, main>>
    BY <1>4 DEF FinishInit
  <2> QED BY <2>1, <2>2
<1>13. CASE TakeChannel
  BY <1>13 DEF TakeChannel
<1>5. CASE ClearRequest
  <2>1. changeChannel' \in BOOLEAN /\ sc' \in StreamPoints
    BY <1>5 DEF ClearRequest
  <2>2. UNCHANGED <<programNumber, lastKey, tables, info, flags, player, demuxer, locals, remote,
                    callback, config, main>>
    BY <1>5 DEF ClearRequest
  <2> QED BY <2>1, <2>2
<1>6. CASE FreeOldFilter
  BY <1>6 DEF FreeOldFilter, FreeFilter
<1>7. CASE SetPmtFilter
  <2>1. PICK p \in Channels \cup {NoPid} :
          \/ sc' = "pmtLock" /\ filterHandle' = PmtFilter(p) /\ filters' = filters \cup {filterHandle'}
          \/ sc' = Returned /\ UNCHANGED demuxer
    BY <1>7, PmtPidIsChannel DEF SetPmtFilter
  <2>2. PmtFilter(p) \in Filters
    BY DEF PmtFilter, Filters
  <2> QED BY <1>7, <2>1, <2>2, ReturnedIsPoint DEF SetPmtFilter
<1>8. CASE SetEitFilter
  BY <1>8, ReturnedIsPoint DEF SetEitFilter, EitFilter, Filters, FreshLocals, Nothing
<1>9. CASE ReadElement
  <2>1. elements[i + 1] \in Channels
    BY <1>9 DEF ReadElement, TablesInv, ScanInTable
  <2>2. i' \in Nat /\ sc' \in StreamPoints
    BY <1>9, ReturnedIsPoint DEF ReadElement, FreshLocals
  <2>3. found' \in [Elements -> Channels \cup {NoPid}]
    BY <1>9, <2>1 DEF ReadElement, FreshLocals, Nothing
  <2> QED BY <1>9, <2>2, <2>3 DEF ReadElement
<1>10. CASE StartVideo
  <2>1. opened' \in [Kinds -> Int]
    BY <1>10 DEF StartVideo, ReplaceStream, RemoveStream, Without, Kinds
  <2>2. handle' \in [Kinds -> Channels \cup {NoPid}]
    BY <1>10 DEF StartVideo, ReplaceStream, RemoveStream, Released, Kinds, Elements
  <2>3. threadExit' \in BOOLEAN
    BY <1>10 DEF StartVideo, ReplaceStream, RemoveStream
  <2> QED BY <1>10, <2>1, <2>2, <2>3 DEF StartVideo
<1>11. CASE StartAudio
  <2>1. opened' \in [Kinds -> Int]
    BY <1>11 DEF StartAudio, ReplaceStream, Without, Kinds
  <2>2. handle' \in [Kinds -> Channels \cup {NoPid}]
    BY <1>11 DEF StartAudio, ReplaceStream, Released, Kinds, Elements
  <2>3. threadExit' \in BOOLEAN
    BY <1>11 DEF StartAudio, ReplaceStream
  <2> QED BY <1>11, <2>1, <2>2, <2>3 DEF StartAudio
<1>12. CASE StoreInfo
  <2>1. i' \in Nat /\ sc' \in StreamPoints /\ found' \in [Elements -> Channels \cup {NoPid}]
    BY <1>12, ReturnedIsPoint DEF StoreInfo, FreshLocals, Nothing
  <2>2. info' \in [Fields -> Programs]
    BY <1>12, ChannelsArePrograms DEF StoreInfo, Fields, Elements, Kinds
  <2> QED BY <1>12, <2>1, <2>2 DEF StoreInfo
<1> QED BY <1>1, <1>2, <1>3, <1>4, <1>5, <1>6, <1>7, <1>8, <1>9, <1>10, <1>11, <1>12, <1>13

\* Points of the stream thread: line 489 is passed once, after the check, and an
\* entry is read only after the test.
LEMMA StreamThreadPoints ==
  ASSUME StreamThread
  PROVE  /\ sc' = "adopt" => CheckConfigProgram
         /\ sc \notin BeforeAdoption => sc' \notin BeforeAdoption
         /\ sc \in BeforeAdoption /\ sc' \notin BeforeAdoption => AdoptConfigProgram
         /\ sc' = "read" => TestElement
         /\ programNumber' # programNumber => AdoptConfigProgram
         /\ sc # "patWait" /\ sc # "pmtWait" /\ sc # "ended"
<1> USE DEF StreamThread, BeforeAdoption, request
<1>1. CASE SetPatFilter \/ BeginWait \/ CheckConfigProgram \/ AdoptConfigProgram
  BY <1>1 DEF SetPatFilter, BeginWait, CheckConfigProgram, AdoptConfigProgram
<1>2. CASE FinishInit \/ ClearRequest \/ LoopExit \/ TakeChannel
  BY <1>2 DEF FinishInit, ClearRequest, LoopExit, TakeChannel
<1>3. CASE FreeOldFilter \/ SetPmtFilter \/ SetEitFilter
  BY <1>3, ReturnedIsPoint DEF FreeOldFilter, SetPmtFilter, SetEitFilter
<1>4. CASE TestElement \/ ReadElement \/ EndScan
  BY <1>4, ReturnedIsPoint DEF TestElement, ReadElement, EndScan
<1>5. CASE StartVideo \/ StartAudio \/ StoreInfo
  BY <1>5, ReturnedIsPoint DEF StartVideo, StartAudio, StoreInfo
<1> QED BY <1>1, <1>2, <1>3, <1>4, <1>5

LEMMA StreamThreadTypeInv ==
  ASSUME TypeInv, StreamThread
  PROVE  TypeInv'
<1> USE DEF TypeInv
<1>1. KeysInRange'
  <2>1. UNCHANGED <<rc, rcValue, config>>
    BY DEF StreamThread, remote
  <2>2. config \in Int /\ programNumber \in Int /\ patCount \in 0 .. ServiceCount
    BY ConfigIsProgram, ProgramsAreInts DEF TypeOK
  <2>3. CASE CheckConfigProgram
    BY <2>1, <2>2, <2>3 DEF CheckConfigProgram, LastChannel, KeysInRange, AdoptedNow, BeforeAdoption,
       request
  <2>4. CASE AdoptConfigProgram
    BY <2>1, <2>2, <2>4 DEF AdoptConfigProgram, KeysInRange, AdoptedNow, BeforeAdoption
  <2>5. CASE ~CheckConfigProgram /\ ~AdoptConfigProgram
    <3>1. /\ UNCHANGED programNumber /\ sc' # "adopt"
          /\ sc' \in BeforeAdoption <=> sc \in BeforeAdoption
      BY <2>5, StreamThreadPoints
    <3> QED BY <2>1, <3>1 DEF KeysInRange, AdoptedNow
  <2> QED BY <2>3, <2>4, <2>5
<1>2. TablesInv'
  <2>1. UNCHANGED <<patCount, patKnown, pmt, elements, section, demux>>
    BY DEF StreamThread, tables, pmtTable, callback
  <2>2. ScanInTable'
    <3>1. CASE TestElement
      BY <2>1, <3>1 DEF TestElement, locals, ScanInTable, TablesInv, TypeOK
    <3>2. CASE ~TestElement
      BY <3>2, StreamThreadPoints DEF ScanInTable
    <3> QED BY <3>1, <3>2
  <2> QED BY <2>1, <2>2 DEF TablesInv
<1> QED BY <1>1, <1>2, StreamThreadTypes

LEMMA StreamsAreLists ==
  ASSUME NEW c \in Channels
  PROVE  Len(Streams[c]) \in Nat
<1> DEFINE list == Streams[c]
<1>1. list \in Seq(Elements \cup {"other"})
  BY StreamsAssumption
<1> HIDE DEF list
<1>2. Len(list) \in Nat
  BY <1>1
<1> QED BY <1>2 DEF list

\* Writing the entry behind the last one counted leaves those counted alone.
LEMMA WrittenElement ==
  ASSUME WriteElement, elements \in Seq(Channels), section.channel \in Channels,
         pmt.count \in Nat, pmt.count <= Len(elements),
         \A j \in 1 .. pmt.count : elements[j] = section.channel
  PROVE  /\ elements' \in Seq(Channels) /\ Len(elements') >= Len(elements)
         /\ pmt.count + 1 <= Len(elements')
         /\ \A j \in 1 .. pmt.count + 1 : elements'[j] = section.channel
<1> DEFINE n == pmt.count
           c == section.channel
<1>1. CASE n < Len(elements)
  <2>1. elements' = [elements EXCEPT ![n + 1] = c]
    BY <1>1 DEF WriteElement
  <2> HIDE DEF n, c
  <2>2. elements' \in Seq(Channels) /\ Len(elements') = Len(elements)
    BY <1>1, <2>1 DEF n, c
  <2>3. \A j \in 1 .. n + 1 : elements'[j] = c
    BY <1>1, <2>1 DEF n, c
  <2> QED BY <1>1, <2>2, <2>3 DEF n, c
<1>2. CASE n = Len(elements)
  <2>1. elements' = Append(elements, c)
    BY <1>2 DEF WriteElement
  <2> HIDE DEF n, c
  <2>2. elements' \in Seq(Channels) /\ Len(elements') = Len(elements) + 1
    BY <2>1 DEF c
  <2>3. \A j \in 1 .. n + 1 : elements'[j] = c
    BY <1>2, <2>1 DEF n, c
  <2> QED BY <1>2, <2>2, <2>3 DEF n, c
<1> QED BY <1>1, <1>2

\* Steps that leave the tables, the callback and the stream thread alone.
LEMMA TablesUntouched ==
  ASSUME TablesInv, UNCHANGED <<patCount, patKnown, pmt, elements, section, demux, sc, i>>
  PROVE  TablesInv'
BY DEF TablesInv, ScanInTable

LEMMA PressKeyTypeInv ==
  ASSUME TypeInv, PressKey
  PROVE  TypeInv'
<1> USE DEF TypeInv, request, tables, pmtTable, events, flags, player, demuxer, locals, remote,
            callback
<1>1. /\ rc' \in {"up", "down", "store", "load"} /\ rcField' \in Copied
      /\ rcValue' \in Programs
      /\ rc' \in {"up", "down"} => rcValue' = programNumber
  <2>1. CASE PressUp \/ PressDown \/ PressInfo
    BY <2>1 DEF PressUp, PressDown, PressInfo, TypeOK
  <2>2. ASSUME NEW d \in Digits, PressDigit(d)
        PROVE  rcValue' \in Programs /\ rc' = "store" /\ UNCHANGED rcField
    <3>1. d \in Int /\ -2 <= d /\ d <= ServiceCount
      BY <2>2, ViewerAssumption DEF PressDigit, TypeOK
    <3> QED BY <2>2, <3>1, SmallArePrograms DEF PressDigit
  <2> QED BY <2>1, <2>2 DEF PressKey, TypeOK
<1>2. UNCHANGED <<request, tables, info, flags, player, demuxer, sc, locals, callback, config, main>>
  BY DEF PressKey
<1>3. TypeOK'
  BY <1>1, <1>2 DEF TypeOK, RemotePoints
<1>4. KeysInRange'
  BY <1>1, <1>2 DEF KeysInRange, AdoptedNow
<1> QED BY <1>2, <1>3, <1>4, TablesUntouched

\* What a key handler does to the number it works on.
LEMMA HandleKeyNumbers ==
  ASSUME TypeInv, HandleKey
  PROVE  /\ rcValue' \in Programs /\ programNumber' \in Programs
         /\ rc \notin {"up", "down"} => rc' \notin {"increment", "decrement"}
         /\ rc' \notin {"up", "down"}
         /\ rc' \in {"increment", "decrement"} => UNCHANGED programNumber
         /\ rc' = "increment" => programNumber < ServiceCount
         /\ rc' = "decrement" => programNumber > -2 \/ AdoptedNow
<1> USE DEF TypeInv, request
<1>1. /\ programNumber \in Int /\ programNumber <= ServiceCount /\ rcValue \in Int
      /\ patCount \in 0 .. ServiceCount /\ config \in Int
  BY ProgramsAreInts, ConfigIsProgram DEF TypeOK
<1>2. CASE WrapUp /\ UNCHANGED <<request, info>>
  <2>1. rcValue' = 0 \/ rcValue' = rcValue
    BY <1>2 DEF WrapUp
  <2>2. rcValue' \in Programs
    BY <2>1, SmallArePrograms DEF TypeOK
  <2>3. rc' = "increment" => programNumber < ServiceCount
    BY <1>1, <1>2 DEF WrapUp, LastChannel, KeysInRange, AdoptedNow
  <2> QED BY <1>2, <2>2, <2>3 DEF WrapUp, TypeOK
<1>3. CASE WrapDown /\ UNCHANGED <<request, info>>
  <2>1. rcValue' = LastChannel \/ rcValue' = rcValue
    BY <1>3 DEF WrapDown
  <2>2. rcValue' \in Programs
    BY <1>1, <2>1, SmallArePrograms DEF TypeOK, LastChannel
  <2>3. rc' = "decrement" => programNumber > -2 \/ AdoptedNow
    BY <1>1, <1>3 DEF WrapDown, KeysInRange
  <2> QED BY <1>3, <2>2, <2>3 DEF WrapDown, TypeOK
<1>4. CASE Advance /\ UNCHANGED <<request, info>>
  <2>1. CASE rc = "increment"
    <3>1. programNumber + 1 \in Programs
      BY <1>1, <2>1, AboveIsProgram DEF KeysInRange, TypeOK
    <3> QED BY <1>4, <2>1, <3>1 DEF Advance, TypeOK
  <2>2. CASE rc = "decrement"
    <3>1. programNumber - 1 \in Programs
      <4>1. CASE programNumber > -2
        BY <1>1, <4>1, SmallArePrograms
      <4>2. CASE AdoptedNow
        BY <4>2, ConfigIsProgram DEF AdoptedNow, KeysInRange, TypeOK
      <4> QED BY <2>2, <4>1, <4>2 DEF KeysInRange
    <3> QED BY <1>4, <2>2, <3>1 DEF Advance, TypeOK
  <2> QED BY <1>4, <2>1, <2>2 DEF Advance
<1>5. CASE LoadField /\ UNCHANGED <<request, info>>
  BY <1>5 DEF LoadField, TypeOK, Copied, Fields, Elements
<1>6. CASE StoreProgram
  BY <1>6 DEF StoreProgram, TypeOK
<1>7. CASE RaiseFlag \/ CopyField
  BY <1>7, SmallArePrograms DEF RaiseFlag, CopyField, TypeOK
<1> QED BY <1>2, <1>3, <1>4, <1>5, <1>6, <1>7 DEF HandleKey

LEMMA HandleKeyTypeInv ==
  ASSUME TypeInv, HandleKey
  PROVE  TypeInv'
<1> USE DEF TypeInv, request, tables, pmtTable, events, flags, player, demuxer, locals, remote,
            callback
<1>1. UNCHANGED <<tables, flags, player, demuxer, sc, locals, callback, config, main>>
  BY DEF HandleKey
<1>2. rc' \in RemotePoints /\ rcField' \in Copied /\ changeChannel' \in BOOLEAN
  BY DEF HandleKey, TypeOK, WrapUp, WrapDown, Advance, LoadField, StoreProgram, RaiseFlag,
     CopyField, NextField, RemotePoints, Copied, Kinds
<1>3. info' \in [Fields -> Programs]
  BY DEF HandleKey, TypeOK, StoreProgram, RaiseFlag, CopyField
<1>4. lastKey' \in Programs \cup {NoKey}
  BY DEF HandleKey, TypeOK, StoreProgram, RaiseFlag, CopyField
<1>5. TypeOK'
  BY <1>1, <1>2, <1>3, <1>4, HandleKeyNumbers DEF TypeOK
<1>6. KeysInRange'
  BY <1>1, HandleKeyNumbers DEF KeysInRange, AdoptedNow
<1> QED BY <1>1, <1>5, <1>6, TablesUntouched

LEMMA DemuxTypeInv ==
  ASSUME TypeInv, Demux
  PROVE  TypeInv'
<1> USE DEF TypeInv, request, tables, pmtTable, events, flags, player, demuxer, locals, remote,
            callback
<1> DEFINE Frame == UNCHANGED <<request, info, flags, player, demuxer, locals, remote, config, main>>
<1>1. sc' = sc \/ (sc \in {"patWait", "pmtWait"} /\ sc' = Woken(sc))
  BY DEF Demux, Signal, Woken
<1>2. KeysInRange'
  BY <1>1 DEF Demux, KeysInRange, AdoptedNow, BeforeAdoption, Woken
<1>3. TypeOK' /\ TablesInv'
  <2>1. CASE Deliver /\ UNCHANGED sc /\ Frame
    <3>1. section' \in Filters /\ (section'.table = "PMT" => section'.channel # NoPid)
      BY <2>1 DEF Deliver, OnAir, TypeOK
    <3>2. demux' = "arrived" /\ UNCHANGED tables
      BY <2>1 DEF Deliver
    <3>3. TypeOK'
      BY <2>1, <3>1, <3>2 DEF TypeOK
    <3>4. TablesInv'
      BY <2>1, <3>1, <3>2 DEF TablesInv, ScanInTable
    <3> QED BY <3>3, <3>4
  <2>2. CASE ParsePat /\ UNCHANGED sc /\ Frame
    <3>1. TypeOK'
      BY <2>2 DEF ParsePat, TypeOK, TablesInv
    <3>2. patCount' <= patKnown'
      BY <2>2 DEF ParsePat, TypeOK, TablesInv
    <3>3. section.table = "PAT" /\ UNCHANGED <<pmt, elements, section, sc, i>>
      BY <2>2 DEF ParsePat
    <3>4. TablesInv'
      BY <3>2, <3>3 DEF TablesInv, ScanInTable
    <3> QED BY <3>1, <3>4
  <2>3. CASE ParsePmt /\ UNCHANGED sc /\ Frame
    <3> DEFINE c == section.channel
    <3>1. c \in Channels /\ c # NoPid /\ section.table = "PMT"
      BY <2>3 DEF ParsePmt, TypeOK, TablesInv, Filters
    <3>2. CASE demux = "arrived"
      <4>1. pmt' = [channel |-> c, count |-> 0] /\ demux' = "parsing"
            /\ UNCHANGED <<patCount, patKnown, elements, section, sc, i, firstEvent, event>>
        BY <2>3, <3>2 DEF ParsePmt, EmptyPmt
      <4>2. TypeOK'
        BY <2>3, <3>1, <4>1 DEF TypeOK
      <4>3. TablesInv'
        <5>1. Len(elements) \in Nat
          BY DEF TypeOK
        <5> QED BY <3>1, <4>1, <5>1 DEF TablesInv, ScanInTable
      <4> QED BY <4>2, <4>3
    <3>3. CASE demux = "parsing" /\ pmt.count < Len(Streams[c])
      <4>1. pmt' = [pmt EXCEPT !.count = @ + 1] /\ WriteElement /\ demux' = demux
            /\ UNCHANGED <<patCount, patKnown, section, sc, i, firstEvent, event>>
        BY <2>3, <3>3 DEF ParsePmt
      <4>2. /\ pmt.channel = c /\ pmt.count \in Nat /\ elements \in Seq(Channels)
            /\ Len(elements) \in Nat /\ pmt.count <= Len(elements)
            /\ \A j \in 1 .. pmt.count : elements[j] = c
        BY <3>1, <3>3 DEF TypeOK, TablesInv
      <4>3. /\ elements' \in Seq(Channels) /\ Len(elements') >= Len(elements)
            /\ pmt.count + 1 <= Len(elements')
            /\ \A j \in 1 .. pmt.count + 1 : elements'[j] = c
        BY <3>1, <4>1, <4>2, WrittenElement
      <4>4. pmt' = [channel |-> c, count |-> pmt.count + 1]
        BY <4>1, <4>2 DEF TypeOK
      <4>5. TypeOK'
        <5>1. pmt' \in [channel : Channels \cup {NoPid}, count : Nat]
          BY <3>1, <4>2, <4>4
        <5>2. elements' \in Seq(Channels)
          BY <4>3
        <5> HIDE DEF c
        <5> QED BY <2>3, <4>1, <5>1, <5>2 DEF TypeOK
      <4>6. pmt.count + 1 <= Len(Streams[c])
        BY <3>1, <3>3, <4>2, StreamsAreLists
      <4>7. i' \in Nat /\ (sc' = "read" => i' < Len(elements'))
        BY <4>1, <4>2, <4>3 DEF TablesInv, ScanInTable, TypeOK
      <4>8. TablesInv'
        BY <3>1, <4>1, <4>3, <4>4, <4>6, <4>7 DEF TablesInv, ScanInTable
      <4> QED BY <4>5, <4>8
    <3>4. CASE demux = "parsing" /\ pmt.count = Len(Streams[c])
      <4>1. demux' = "parsed" /\ UNCHANGED <<patCount, patKnown, pmt, elements, section, sc, i,
                                               firstEvent, event>>
        BY <2>3, <3>4 DEF ParsePmt
      <4>2. TypeOK'
        BY <2>3, <4>1 DEF TypeOK
      <4>3. TablesInv'
        BY <4>1 DEF TablesInv, ScanInTable
      <4> QED BY <4>2, <4>3
    <3> QED BY <2>3, <3>2, <3>3, <3>4 DEF ParsePmt
  <2>4. CASE ParseEit /\ UNCHANGED sc /\ Frame
    <3>1. firstEvent' \in Channels \cup {NoPid} /\ event' \in Channels \cup {NoPid}
      BY <2>4, EventAssumption DEF ParseEit, TypeOK
    <3>2. demux' = "idle" /\ UNCHANGED <<section, patCount, patKnown, pmtTable, sc>>
      BY <2>4 DEF ParseEit
    <3>3. TypeOK'
      BY <2>4, <3>1, <3>2 DEF TypeOK
    <3>4. TablesInv'
      BY <2>4, <3>2 DEF TablesInv, ScanInTable
    <3> QED BY <3>3, <3>4
  <2>5. CASE Signal /\ Frame
    <3>1. sc' \in StreamPoints /\ (sc' = "read" => sc = "read")
      BY <2>5 DEF Signal, Woken, TypeOK, StreamPoints
    <3>2. demux' = "idle" /\ UNCHANGED <<section, tables>>
      BY <2>5 DEF Signal
    <3>3. TypeOK'
      BY <2>5, <3>1, <3>2 DEF TypeOK
    <3>4. TablesInv'
      BY <2>5, <3>1, <3>2 DEF TablesInv, ScanInTable
    <3> QED BY <3>3, <3>4
  <2> QED BY <2>1, <2>2, <2>3, <2>4, <2>5 DEF Demux
<1> QED BY <1>2, <1>3

LEMMA MainTypeInv ==
  ASSUME TypeInv, BeginDeinit \/ FinishDeinit \/ SpuriousWakeup
  PROVE  TypeInv'
<1> USE DEF TypeInv, request, tables, pmtTable, events, flags, player, demuxer, locals, remote,
            callback
<1>1. CASE BeginDeinit
  <2>1. main' \in {"joining", "failed"} /\ threadExit' \in BOOLEAN
    BY <1>1 DEF BeginDeinit, TypeOK
  <2>2. UNCHANGED <<request, tables, info, isInitialized, player, demuxer, sc, locals,
                    rcValue, rcField, callback, config>> /\ rc' = "gone"
    BY <1>1 DEF BeginDeinit
  <2>3. TypeOK'
    BY <2>1, <2>2 DEF TypeOK, RemotePoints
  <2>4. KeysInRange'
    BY <2>2 DEF KeysInRange, AdoptedNow
  <2> QED BY <2>2, <2>3, <2>4, TablesUntouched
<1>2. CASE FinishDeinit
  <2>1. opened' \in [Kinds -> Int]
    BY <1>2 DEF FinishDeinit, TypeOK, Without
  <2>2. filters' \subseteq Filters /\ main' = "done" /\ isInitialized' = FALSE
    BY <1>2 DEF FinishDeinit, TypeOK, FreeFilter
  <2>3. UNCHANGED <<request, tables, info, threadExit, handle, sc, locals, remote, callback,
                    config, filterHandle>>
    BY <1>2 DEF FinishDeinit, FreeFilter
  <2>4. TypeOK'
    BY <2>1, <2>2, <2>3 DEF TypeOK
  <2>5. KeysInRange'
    BY <2>3 DEF KeysInRange, AdoptedNow
  <2> QED BY <2>3, <2>4, <2>5, TablesUntouched
<1>3. CASE SpuriousWakeup
  <2>1. /\ sc \in {"patWait", "pmtWait"} /\ sc' \in {"check", "pmtFree"}
        /\ sc \in BeforeAdoption <=> sc' \in BeforeAdoption
    BY <1>3 DEF SpuriousWakeup, Woken, BeforeAdoption
  <2>2. UNCHANGED <<request, tables, info, flags, player, demuxer, locals, remote, callback, config,
                    main>>
    BY <1>3 DEF SpuriousWakeup
  <2>3. TypeOK'
    BY <2>1, <2>2 DEF TypeOK, StreamPoints
  <2>4. KeysInRange'
    BY <2>1, <2>2 DEF KeysInRange, AdoptedNow
  <2>5. TablesInv'
    BY <2>1, <2>2 DEF TablesInv, ScanInTable
  <2> QED BY <2>3, <2>4, <2>5
<1> QED BY <1>1, <1>2, <1>3 DEF TypeInv

LEMMA TypeInvariant == Spec => []TypeInv
<1>1. Init => TypeInv
  BY InitTypeInv
<1>2. TypeInv /\ [Next]_vars => TypeInv'
  <2> SUFFICES ASSUME TypeInv, [Next]_vars PROVE TypeInv'
    OBVIOUS
  <2>1. CASE Next
    BY <2>1, StreamThreadTypeInv, PressKeyTypeInv, HandleKeyTypeInv, DemuxTypeInv,
        MainTypeInv DEF Next
  <2>2. CASE UNCHANGED vars
    <3>1. TypeOK'
      BY <2>2 DEF vars, request, tables, pmtTable, events, flags, player, demuxer, locals, remote,
         callback, TypeInv, TypeOK
    <3>2. KeysInRange'
      BY <2>2 DEF vars, request, remote, TypeInv, KeysInRange, AdoptedNow
    <3>3. TablesInv'
      BY <2>2, TablesUntouched DEF vars, tables, pmtTable, locals, callback, TypeInv
    <3> QED BY <3>1, <3>2, <3>3 DEF TypeInv
  <2> QED BY <2>1, <2>2
<1> QED BY <1>1, <1>2, PTL DEF Spec

\* Every state, for any configured number an int16_t holds (its least value
\* aside), any PAT, any keys at any time and any trouble: programNumber and what
\* the key handlers work on stay from -2, or from one below an adopted number, up
\* to serviceInfoCount.  Nothing is said of the entry of the PAT that
\* startChannel reads with such a number; see WaitsAnswered.
THEOREM TypeCorrect == Spec => [](TypeOK /\ KeysInRange)
BY TypeInvariant, PTL DEF TypeInv

\* The loop of startChannel over pmtTable reads only entries that a section has
\* written, for any PAT, any streams, any keys and any trouble: also when a
\* callback that outlived its filter empties or refills the table between the
\* loop's test and its read.
THEOREM ScanStaysInTable == Spec => []ScanInTable
BY TypeInvariant, PTL DEF TypeInv, TablesInv

-----------------------------------------------------------------------------
(* The hand-over of channel requests implements LatestRequest. *)

\* The mapped pending flag.
Pending == changeChannel \/ rc = "raise" \/ sc \notin CalledStartChannel

\* A step either leaves the hand-over alone, posts a channel, or calls
\* startChannel with the newest one.
LEMMA HandOverStep ==
  ASSUME TypeInv, [Next]_vars
  PROVE  \/ UNCHANGED <<programNumber, channelNumber>> /\ Pending' = Pending
         \/ Pending' /\ UNCHANGED channelNumber
         \/ Pending /\ channelNumber' = programNumber /\ UNCHANGED programNumber
<1> USE DEF request, remote, locals, Pending, CalledStartChannel
<1>1. CASE UNCHANGED vars
  BY <1>1 DEF vars
<1>2. CASE StreamThread
  <2>1. CASE TakeChannel
    BY <2>1 DEF TakeChannel
  <2>2. CASE AdoptConfigProgram
    BY <2>2 DEF AdoptConfigProgram
  <2>3. CASE ClearRequest
    BY <2>3 DEF ClearRequest, Requested
  <2>4. CASE \/ SetPatFilter \/ BeginWait \/ CheckConfigProgram \/ FinishInit \/ LoopExit
    BY <1>2, <2>4 DEF StreamThread, SetPatFilter, BeginWait, CheckConfigProgram,
        FinishInit, LoopExit
  <2>5. CASE \/ FreeOldFilter \/ SetPmtFilter \/ SetEitFilter \/ TestElement \/ ReadElement
             \/ EndScan
    BY <1>2, <2>5, ReturnedIsPoint DEF StreamThread, FreeOldFilter, SetPmtFilter, SetEitFilter,
        TestElement, ReadElement, EndScan
  <2>6. CASE \/ StartVideo \/ StartAudio \/ StoreInfo
    BY <1>2, <2>6 DEF StreamThread, StartVideo, StartAudio, StoreInfo, Returned
  <2> QED BY <1>2, <2>1, <2>2, <2>3, <2>4, <2>5, <2>6 DEF StreamThread
<1>3. CASE SpuriousWakeup
  BY <1>3 DEF SpuriousWakeup, Woken
<1>4. CASE PressKey
  BY <1>4 DEF PressKey, PressUp, PressDown, PressDigit, PressInfo, Listening
<1>5. CASE HandleKey
  BY <1>5 DEF HandleKey, WrapUp, WrapDown, Advance, StoreProgram, RaiseFlag, LoadField,
      CopyField
<1>6. CASE Demux
  BY <1>6 DEF Demux, Signal, Woken
<1>7. CASE BeginDeinit \/ FinishDeinit
  BY <1>7 DEF BeginDeinit, FinishDeinit
<1> QED BY <1>1, <1>2, <1>3, <1>4, <1>5, <1>6, <1>7 DEF Next

\* The remote and the stream thread, with two unprotected globals between
\* them, hand over channel numbers as LatestRequest promises.
THEOREM HandOver == Spec => HandsOverLatest
<1>1. Init => Requests!Init
  BY SmallArePrograms DEF Init, Requests!Init, Requests!TypeOK, Requests!Settled,
     CalledStartChannel
<1>2. TypeInv /\ TypeInv' /\ [Next]_vars => [Requests!Next]_(Requests!vars)
  BY HandOverStep DEF Pending, TypeInv, TypeOK,
     Requests!Next, Requests!Post, Requests!Serve, Requests!vars
<1> QED BY <1>1, <1>2, TypeInvariant, PTL DEF Spec, HandsOverLatest, Requests!Spec, TypeInv

\* The number to be shown is the one asked for once the configured number is
\* adopted; keys before that leave no trace.
AskedInv ==
  /\ sc \in BeforeAdoption => lastKey = NoKey
  /\ sc \notin BeforeAdoption => programNumber = AskedFor

\* Whenever nothing is pending startChannel was last called with programNumber.
Served ==
  sc \in CalledStartChannel /\ ~changeChannel /\ rc # "raise" => channelNumber = programNumber

LEMMA AskedStep ==
  ASSUME TypeInv, AskedInv, [Next]_vars
  PROVE  AskedInv'
<1> USE DEF AskedInv, AskedFor, request
<1>1. CASE StreamThread
  <2>1. UNCHANGED <<lastKey, config>>
    BY <1>1 DEF StreamThread, SetPatFilter, BeginWait, CheckConfigProgram, AdoptConfigProgram,
       FinishInit, ClearRequest, LoopExit, TakeChannel, FreeOldFilter, SetPmtFilter,
       SetEitFilter, TestElement, ReadElement, EndScan, StartVideo, StartAudio, StoreInfo
  <2>2. CASE AdoptConfigProgram
    BY <2>1, <2>2 DEF AdoptConfigProgram, BeforeAdoption
  <2>3. CASE ~AdoptConfigProgram
    <3>1. /\ UNCHANGED programNumber
          /\ sc' \in BeforeAdoption <=> sc \in BeforeAdoption
      BY <1>1, <2>3, StreamThreadPoints
    <3> QED BY <2>1, <3>1
  <2> QED BY <2>2, <2>3
<1>2. CASE SpuriousWakeup
  BY <1>2 DEF SpuriousWakeup, Woken, BeforeAdoption
<1>3. CASE PressKey
  BY <1>3 DEF PressKey
<1>4. CASE HandleKey
  <2>1. UNCHANGED <<sc, config>>
    BY <1>4 DEF HandleKey
  <2>2. CASE StoreProgram
    <3>1. rcValue # NoKey
      BY ProgramsAreInts DEF TypeInv, TypeOK, NoKey
    <3> QED BY <2>1, <2>2, <3>1 DEF StoreProgram
  <2>3. CASE ~StoreProgram
    <3>1. UNCHANGED <<programNumber, lastKey>>
      BY <1>4, <2>3 DEF HandleKey, RaiseFlag, CopyField
    <3> QED BY <2>1, <3>1
  <2> QED BY <2>2, <2>3
<1>5. CASE Demux
  BY <1>5 DEF Demux, Signal, Woken, BeforeAdoption
<1>6. CASE BeginDeinit \/ FinishDeinit
  BY <1>6 DEF BeginDeinit, FinishDeinit
<1>7. CASE UNCHANGED vars
  BY <1>7 DEF vars
<1> QED BY <1>1, <1>2, <1>3, <1>4, <1>5, <1>6, <1>7 DEF Next

\* The zap of the last key is not lost, for any PAT, any keys at any time and any
\* trouble: whenever nothing is pending, the channel startChannel was last called
\* with is the number that key stored, or the configured number if no key has
\* been handled since that was adopted.
THEOREM ZapNotLost == Spec => []NoLostZap
<1>1. Init => AskedInv /\ Served
  BY DEF Init, AskedInv, Served, BeforeAdoption, CalledStartChannel
<1>2. TypeInv /\ AskedInv /\ Served /\ [Next]_vars => AskedInv' /\ Served'
  BY AskedStep, HandOverStep DEF Served, Pending
<1>3. AskedInv /\ Served => NoLostZap
  BY DEF AskedInv, Served, NoLostZap, CalledStartChannel, BeforeAdoption
<1> QED BY <1>1, <1>2, <1>3, TypeInvariant, PTL DEF Spec

-----------------------------------------------------------------------------
(* Filters and player streams *)

\* Every Demux_Set_Filter comes after a Demux_Free_Filter, also when a call in
\* between failed.
FreedBeforeSet == sc \in {"patFilter", "pmtSet", "eitSet"} => filters = {}

ResourceInv == OnlyOwnedResources /\ FreedBeforeSet

\* Removing the stream of kind k, if any, leaves no stream of that kind and
\* the other kind alone.
LEMMA WithoutStream ==
  ASSUME TypeOK, \A j \in Kinds : opened[j] = Owned(j), NEW k \in Kinds
  PROVE  /\ Without(k) \in [Kinds -> Int]
         /\ Without(k)[k] = 0
         /\ \A j \in Kinds \ {k} : Without(k)[j] = opened[j]
BY DEF TypeOK, Without, Owned

LEMMA RemoveStreamOwned ==
  ASSUME TypeOK, \A j \in Kinds : opened[j] = Owned(j), NEW k \in Kinds, RemoveStream(k)
  PROVE  \A j \in Kinds : opened'[j] = Owned(j)'
<1> TAKE j \in Kinds
<1>1. CASE j = k
  BY <1>1, WithoutStream DEF RemoveStream, Released, Owned, TypeOK
<1>2. CASE j # k
  BY <1>2, WithoutStream DEF RemoveStream, Released, Owned, TypeOK
<1> QED BY <1>1, <1>2

\* Creating a stream in place of the old one, or failing to, keeps handles and
\* streams in step.
LEMMA ReplaceStreamOwned ==
  ASSUME TypeOK, \A j \in Kinds : opened[j] = Owned(j), NEW k \in Kinds,
         found[k] # NoPid, ReplaceStream(k)
  PROVE  \A j \in Kinds : opened'[j] = Owned(j)'
<1> TAKE j \in Kinds
<1>1. CASE j = k
  BY <1>1, WithoutStream DEF ReplaceStream, Released, Owned, TypeOK
<1>2. CASE j # k
  BY <1>2, WithoutStream DEF ReplaceStream, Released, Owned, TypeOK
<1> QED BY <1>1, <1>2

LEMMA StreamThreadResources ==
  ASSUME TypeInv, ResourceInv, main # "done", StreamThread
  PROVE  ResourceInv'
<1> USE DEF TypeInv, ResourceInv, FreedBeforeSet, OnlyOwnedResources, player, demuxer
<1>0. UNCHANGED main
  BY DEF StreamThread
<1>1. CASE SetPatFilter \/ SetPmtFilter \/ SetEitFilter
  BY <1>0, <1>1 DEF SetPatFilter, SetPmtFilter, SetEitFilter, SetFilter, Returned, Owned
<1>2. CASE FreeOldFilter
  BY <1>0, <1>2 DEF FreeOldFilter, FreeFilter, Owned
<1>3. CASE StartVideo
  <2>1. \A k \in Kinds : opened'[k] = Owned(k)'
    BY <1>3, RemoveStreamOwned, ReplaceStreamOwned DEF StartVideo, Listed, Kinds
  <2> QED BY <1>0, <1>3, <2>1 DEF StartVideo
<1>4. CASE StartAudio
  <2>1. \A k \in Kinds : opened'[k] = Owned(k)'
    BY <1>4, ReplaceStreamOwned DEF StartAudio, Listed, Kinds, Owned
  <2> QED BY <1>0, <1>4, <2>1 DEF StartAudio
<1>5. CASE \/ BeginWait \/ CheckConfigProgram \/ AdoptConfigProgram \/ FinishInit
           \/ ClearRequest \/ LoopExit \/ TakeChannel \/ TestElement \/ ReadElement
           \/ EndScan \/ StoreInfo
  BY <1>0, <1>5 DEF BeginWait, CheckConfigProgram, AdoptConfigProgram, FinishInit,
      ClearRequest,
     LoopExit, TakeChannel, TestElement, ReadElement, EndScan, StoreInfo, Returned, Owned
<1> QED BY <1>1, <1>2, <1>3, <1>4, <1>5 DEF StreamThread

LEMMA ResourceInvariant == Spec => []ResourceInv
<1>1. Init => ResourceInv
  BY DEF Init, ResourceInv, OnlyOwnedResources, FreedBeforeSet, Owned
<1>2. TypeInv /\ ResourceInv /\ [Next]_vars => ResourceInv'
  <2> SUFFICES ASSUME TypeInv, ResourceInv, [Next]_vars PROVE ResourceInv'
    OBVIOUS
  <2> USE DEF ResourceInv, FreedBeforeSet, OnlyOwnedResources, player, demuxer
  <2>1. CASE UNCHANGED vars
    BY <2>1 DEF vars, Owned
  <2>2. CASE Running /\ StreamThread
    BY <2>2, StreamThreadResources DEF Running
  <2>3. CASE PressKey \/ HandleKey
    BY <2>3 DEF PressKey, HandleKey, Owned
  <2>4. CASE Demux \/ SpuriousWakeup
    BY <2>4 DEF Demux, Signal, SpuriousWakeup, Woken, Owned
  <2>5. CASE BeginDeinit
    BY <2>5 DEF BeginDeinit, Owned
  <2>6. CASE FinishDeinit
    <3>1. \A k \in Kinds : opened'[k] = 0
      BY <2>6, WithoutStream DEF FinishDeinit, TypeInv
    <3> QED BY <2>6, <3>1 DEF FinishDeinit, FreeFilter
  <2> QED BY <2>1, <2>2, <2>3, <2>4, <2>5, <2>6 DEF Next
<1> QED BY <1>1, <1>2, TypeInvariant, PTL DEF Spec, TypeInv

\* No sequence of zaps, failed calls and late sections leaks a filter or a
\* player stream, and streamControllerDeinit leaves none.
THEOREM ResourcesOwned == Spec => []OnlyOwnedResources
BY ResourceInvariant, PTL DEF ResourceInv

-----------------------------------------------------------------------------
(* The PMT that startChannel reads.  Which filter delivers, and which kind of
   section a running callback carries, follows from the control point of the
   stream thread as long as freeing a filter waits for the callback. *)

BringUp == {"patFilter", "patLock", "patWait", "check", "adopt", "rejected"}
ChannelOn == {"scan", "read", "video", "audio", "storeProgram", "storeAudio", "storeVideo",
              "storeText", "init", "loop", "ended"}

\* startChannel reads an entry of the PAT or the header in front of them, not the
\* memory before patTable to which a negative configured number leads.
InPat == channelNumber >= -2

OwnPmt(f) == f.table = "PMT" /\ (InPat => f.channel \in {channelNumber, NoPid})

PhaseInv ==
  /\ sc \in BringUp => ~isInitialized
  /\ sc = "loop" => isInitialized

FilterInv ==
  /\ sc \in BringUp \/ (sc \in {"take", "free"} /\ ~isInitialized) =>
       \A f \in filters : f.table = "PAT"
  /\ sc \in {"pmtLock", "pmtWait", "pmtFree"} => \A f \in filters : OwnPmt(f)
  /\ sc \in ChannelOn \/ (sc \in {"take", "free"} /\ isInitialized) =>
       \A f \in filters : f.table = "EIT"

CallbackInv ==
  demux # "idle" =>
    /\ sc \in BringUp \/ (sc \in {"take", "free", "pmtSet"} /\ ~isInitialized) =>
         section.table = "PAT"
    /\ sc \in {"pmtLock", "pmtWait", "pmtFree", "eitSet"} => OwnPmt(section)
    /\ sc \in ChannelOn \/ (sc \in {"take", "free", "pmtSet"} /\ isInitialized) =>
         section.table = "EIT"

Complete(c) == pmt = [channel |-> c, count |-> Len(Streams[c])]

PmtInv ==
  /\ demux = "parsed" /\ section.table = "PMT" => Complete(section.channel)
  /\ InPat =>
       /\ sc \in {"pmtFree", "eitSet"} /\ demux # "parsing" => Complete(channelNumber)
       /\ FreshPmt
  /\ sc = "read" => i < pmt.count

SectionInv == PhaseInv /\ FilterInv /\ CallbackInv /\ PmtInv

\* Callbacks that have been waited for, and waits only a section ends.
Undisturbed == "spuriousWakeup" \notin Env /\ "lateSection" \notin Env

LEMMA PmtPidIsOwn ==
  ASSUME channelNumber \in Int, InPat
  PROVE  PmtPids(channelNumber) \subseteq {channelNumber, NoPid}
<1>1. ~(channelNumber < -2)
  BY DEF InPat
<1> QED BY <1>1 DEF PmtPids

LEMMA StreamThreadSections ==
  ASSUME Undisturbed, TypeInv, ResourceInv, SectionInv, StreamThread
  PROVE  SectionInv'
<1> USE DEF SectionInv, PhaseInv, FilterInv, CallbackInv, PmtInv, FreshPmt, Complete, OwnPmt,
            BringUp, ChannelOn, InPat, tables, pmtTable, events, flags, demuxer, locals, callback
<1>1. CASE SetPatFilter
  BY <1>1 DEF StreamThread, SetPatFilter, SetFilter, PatFilter, ResourceInv, FreedBeforeSet
<1>2. CASE SetPmtFilter
  <2>1. channelNumber \in Int
    BY ProgramsAreInts DEF TypeInv, TypeOK
  <2> QED BY <1>2, <2>1, PmtPidIsOwn, ReturnedIsPoint DEF StreamThread, SetPmtFilter, PmtFilter, Drained,
     Undisturbed, Returned, ResourceInv, FreedBeforeSet
<1>3. CASE SetEitFilter
  BY <1>3 DEF StreamThread, SetEitFilter, EitFilter, Drained, Undisturbed, Returned,
     ResourceInv, FreedBeforeSet
<1>4. CASE FreeOldFilter
  BY <1>4 DEF StreamThread, FreeOldFilter, FreeFilter
<1>5. CASE BeginWait \/ CheckConfigProgram \/ AdoptConfigProgram \/ FinishInit
  BY <1>5 DEF StreamThread, BeginWait, CheckConfigProgram, AdoptConfigProgram, FinishInit
<1>6. CASE ClearRequest \/ LoopExit \/ TakeChannel
  BY <1>6 DEF StreamThread, ClearRequest, LoopExit, TakeChannel
<1>7. CASE TestElement
  <2>1. i \in Nat /\ \A j \in 1 .. pmt.count : elements[j] = pmt.channel
    BY DEF TypeInv, TypeOK, TablesInv
  <2>2. pmt.count \in Nat
    BY DEF TypeInv, TypeOK
  <2>3. i < pmt.count => elements[i + 1] = pmt.channel
    BY <2>1, <2>2
  <2> QED BY <1>7, <2>3 DEF StreamThread, TestElement
<1>9. CASE ReadElement \/ EndScan
  BY <1>9 DEF StreamThread, ReadElement, EndScan, Returned
<1>8. CASE StartVideo \/ StartAudio \/ StoreInfo
  BY <1>8 DEF StreamThread, StartVideo, StartAudio, StoreInfo, Returned
<1> QED BY <1>1, <1>2, <1>3, <1>4, <1>5, <1>6, <1>7, <1>8, <1>9 DEF StreamThread

LEMMA DemuxSections ==
  ASSUME TypeInv, ResourceInv, SectionInv, Demux
  PROVE  SectionInv'
<1> USE DEF SectionInv, PhaseInv, FilterInv, CallbackInv, PmtInv, FreshPmt, Complete, OwnPmt,
            BringUp, ChannelOn, InPat, tables, pmtTable, events, flags, demuxer, locals
<1> DEFINE Frame == UNCHANGED <<request, info, flags, player, demuxer, locals, remote, main>>
<1>1. CASE Deliver /\ UNCHANGED sc /\ Frame
  BY <1>1 DEF Deliver, ResourceInv, FreedBeforeSet
<1>2. CASE ParsePat /\ UNCHANGED sc /\ Frame
  BY <1>2 DEF ParsePat
<1>3. CASE ParsePmt /\ UNCHANGED sc /\ Frame
  BY <1>3 DEF ParsePmt, EmptyPmt, TypeInv, TypeOK, TablesInv
<1>4. CASE ParseEit /\ UNCHANGED sc /\ Frame
  BY <1>4 DEF ParseEit
<1>5. CASE Signal /\ Frame
  BY <1>5 DEF Signal, Woken, TypeInv, TablesInv
<1> QED BY <1>1, <1>2, <1>3, <1>4, <1>5 DEF Demux

LEMMA SectionsInvariant ==
  ASSUME Undisturbed
  PROVE  Spec => []SectionInv
<1>1. Init => SectionInv
  BY DEF Init, SectionInv, PhaseInv, FilterInv, CallbackInv, PmtInv, FreshPmt, BringUp,
      ChannelOn, InPat
<1>2. TypeInv /\ ResourceInv /\ SectionInv /\ [Next]_vars => SectionInv'
  <2> SUFFICES ASSUME TypeInv, ResourceInv, SectionInv, [Next]_vars PROVE SectionInv'
    OBVIOUS
  <2> USE DEF SectionInv, PhaseInv, FilterInv, CallbackInv, PmtInv, FreshPmt, Complete, OwnPmt,
              BringUp, ChannelOn, InPat, tables, pmtTable, events, flags, demuxer, locals, callback
  <2>1. CASE UNCHANGED vars
    BY <2>1 DEF vars
  <2>2. CASE StreamThread
    BY <2>2, StreamThreadSections
  <2>3. CASE SpuriousWakeup
    BY <2>3 DEF SpuriousWakeup, Undisturbed
  <2>4. CASE PressKey \/ HandleKey
    BY <2>4 DEF PressKey, HandleKey
  <2>5. CASE Demux
    BY <2>5, DemuxSections
  <2>6. CASE BeginDeinit
    BY <2>6 DEF BeginDeinit
  <2>7. CASE FinishDeinit
    BY <2>7 DEF FinishDeinit, FreeFilter
  <2> QED BY <2>1, <2>2, <2>3, <2>4, <2>5, <2>6, <2>7 DEF Next
<1> QED BY <1>1, <1>2, TypeInvariant, ResourceInvariant, PTL DEF Spec, TypeInv

\* The configuration file gives a number of its own, not one that int16_t wraps.
Configured == ConfigPrograms \subseteq Nat

LEMMA AlwaysInPat ==
  ASSUME Configured, TypeInv
  PROVE  InPat
<1>1. \A c \in ConfigPrograms : c \in Nat
  BY DEF Configured
<1>2. \A n \in Programs : n >= -2
  BY <1>1 DEF Programs
<1> QED BY <1>2 DEF InPat, TypeInv, TypeOK

\* Unless a condition wait returns on its own or freeing a filter leaves a
\* callback running, the loop of startChannel over pmtTable reads the complete
\* PMT of its own channel, for any PAT, any keys and any failing call.  The
\* configured number must not be negative.
THEOREM PmtIsFresh ==
  ASSUME Undisturbed, Configured
  PROVE  Spec => []FreshPmt
<1>1. TypeInv /\ SectionInv => FreshPmt
  BY AlwaysInPat DEF SectionInv, PmtInv
<1> QED BY <1>1, TypeInvariant, SectionsInvariant, PTL

-----------------------------------------------------------------------------
(* The check of the configured channel *)

\* Once a section has woken the stream thread the PAT's count is complete,
\* except while another section is parsed.
CountInv ==
  /\ demux = "parsed" /\ section.table = "PAT" => patCount = ServiceCount
  /\ sc \notin {"patFilter", "patLock", "patWait"} =>
       patCount = ServiceCount \/ (demux = "parsing" /\ section.table = "PAT")

LEMMA CountStep ==
  ASSUME Undisturbed, SectionInv, CountInv, [Next]_vars
  PROVE  CountInv'
<1> USE DEF CountInv
<1>1. CASE StreamThread
  <2>1. sc \in {"patFilter", "patLock"} => sc' \in {"patLock", "patWait"}
    BY <1>1 DEF StreamThread, SetPatFilter, BeginWait, CheckConfigProgram, AdoptConfigProgram,
       FinishInit, ClearRequest, LoopExit, TakeChannel, FreeOldFilter, SetPmtFilter,
       SetEitFilter, TestElement, ReadElement, EndScan, StartVideo, StartAudio, StoreInfo
  <2>2. sc # "patWait"
    BY <1>1, StreamThreadPoints
  <2> QED BY <1>1, <2>1, <2>2 DEF StreamThread, tables, callback
<1>2. CASE SpuriousWakeup
  BY <1>2 DEF SpuriousWakeup, Undisturbed
<1>3. CASE PressKey \/ HandleKey
  BY <1>3 DEF PressKey, HandleKey, tables, callback
<1>4. CASE Demux
  <2>1. CASE Deliver /\ UNCHANGED sc
    BY <2>1 DEF Deliver, tables
  <2>2. CASE ParsePat /\ UNCHANGED sc
    BY <2>2 DEF ParsePat
  <2>3. CASE (ParsePmt \/ ParseEit) /\ UNCHANGED sc
    BY <2>3 DEF ParsePmt, ParseEit
  <2>4. CASE Signal
    <3>1. sc = "patWait" => section.table = "PAT"
      BY <2>4 DEF Signal, SectionInv, CallbackInv, PhaseInv, BringUp
    <3> QED BY <2>4, <3>1 DEF Signal, Woken, tables
  <2> QED BY <1>4, <2>1, <2>2, <2>3, <2>4 DEF Demux
<1>5. CASE BeginDeinit \/ FinishDeinit
  BY <1>5 DEF BeginDeinit, FinishDeinit, tables, callback
<1>6. CASE UNCHANGED vars
  BY <1>6 DEF vars, tables, callback
<1> QED BY <1>1, <1>2, <1>3, <1>4, <1>5, <1>6 DEF Next

LEMMA CheckStep ==
  ASSUME TypeInv, CountInv, [Next]_vars, sc = "check", sc' # sc
  PROVE  \/ sc' = "adopt" /\ (config \in Channels \/ config < 0)
         \/ sc' = "rejected" /\ config \notin Channels
         \/ sc' = "rejected" /\ demux = "parsing" /\ section.table = "PAT"
<1>1. CheckConfigProgram
  BY DEF Next, vars, StreamThread, SetPatFilter, BeginWait, AdoptConfigProgram, FinishInit,
     ClearRequest, LoopExit, TakeChannel, FreeOldFilter, SetPmtFilter, SetEitFilter,
     TestElement, ReadElement, EndScan, StartVideo, StartAudio, StoreInfo, SpuriousWakeup, PressKey,
     HandleKey, Demux, Signal, Woken, BeginDeinit, FinishDeinit
<1>2. patCount \in 0 .. ServiceCount /\ ServiceCount \in Nat /\ config \in Int
  BY ServiceCountAssumption, ConfigIsProgram DEF TypeInv, TypeOK
<1> QED BY <1>1, <1>2 DEF CheckConfigProgram, LastChannel, Channels, CountInv

\* Unless a condition wait returns on its own or freeing a filter leaves a
\* callback running, a configured number is adopted only if its channel is on air
\* or the number is negative, and refused only if it is not on air or a PAT is
\* being counted at that moment.
THEOREM CheckIsTruthful ==
  ASSUME Undisturbed
  PROVE  Spec => ConfigCheckTellsTruth
<1>1. Init => CountInv
  BY DEF Init, CountInv
<1>2. SectionInv /\ CountInv /\ [Next]_vars => CountInv'
  BY CountStep
<1>3. TypeInv /\ CountInv /\ [Next]_vars =>
        [sc = "check" /\ sc' # sc =>
           \/ sc' = "adopt" /\ (config \in Channels \/ config < 0)
           \/ sc' = "rejected" /\ config \notin Channels
           \/ sc' = "rejected" /\ demux = "parsing" /\ section.table = "PAT"]_vars
  BY CheckStep
<1> QED BY <1>1, <1>2, <1>3, TypeInvariant, SectionsInvariant, PTL
        DEF Spec, TypeInv, ConfigCheckTellsTruth

-----------------------------------------------------------------------------
(* What INFO shows *)

\* No call fails, the configured pids are on air and INFO, which copies
\* currentChannel onto itself, is not pressed.
Calm ==
  /\ {"setFilterFails", "streamCreateFails", "pidMismatch"} \cap Env = {}
  /\ "INFO" \notin Keys

Played(k) == found[k] # NoPid => handle[k] = found[k]

\* From the streams started to the fields stored, one after the other.
InfoInv ==
  /\ rc \notin {"load", "copy"}
  /\ sc \in {"audio", "storeProgram", "storeAudio", "storeVideo", "storeText"} => Played("video")
  /\ sc \in {"storeProgram", "storeAudio", "storeVideo", "storeText"} => Played("audio")
  /\ sc \in {"storeAudio", "storeVideo", "storeText", "init", "loop"} =>
       info["program"] = channelNumber
  /\ sc \in {"storeVideo", "storeText"} => info["audio"] = found["audio"]
  /\ sc = "storeText" => info["video"] = found["video"]
  /\ sc \in {"init", "loop"} => \A k \in Kinds : info[k] # NoPid => info[k] = handle[k]

LEMMA InfoStep ==
  ASSUME Calm, TypeInv, InfoInv, [Next]_vars
  PROVE  InfoInv'
<1> USE DEF InfoInv, Played
<1>1. CASE StreamThread
  <2> USE <1>1 DEF StreamThread, remote
  <2>1. CASE SetPatFilter \/ BeginWait \/ CheckConfigProgram \/ AdoptConfigProgram
    BY <2>1 DEF SetPatFilter, BeginWait, CheckConfigProgram, AdoptConfigProgram
  <2>2. CASE FinishInit
    BY <2>2 DEF FinishInit, player, locals
  <2>3. CASE ClearRequest \/ LoopExit \/ TakeChannel \/ FreeOldFilter
    BY <2>3 DEF ClearRequest, LoopExit, TakeChannel, FreeOldFilter
  <2>4. CASE SetPmtFilter \/ SetEitFilter
    BY <2>4 DEF SetPmtFilter, SetEitFilter, FilterFails, Calm
  <2>5. CASE TestElement \/ ReadElement \/ EndScan
    BY <2>5 DEF TestElement, ReadElement, EndScan, Calm
  <2>6. CASE StartVideo
    BY <2>6 DEF StartVideo, Listed, ReplaceStream, RemoveStream, Calm, locals, TypeInv, TypeOK,
       Kinds
  <2>7. CASE StartAudio
    BY <2>7 DEF StartAudio, Listed, ReplaceStream, Calm, locals, player, TypeInv, TypeOK, Kinds
  <2>8. CASE StoreInfo
    BY <2>8 DEF StoreInfo, Returned, FreshLocals, player, TypeInv, TypeOK, Kinds, Elements, Fields
  <2> QED BY <2>1, <2>2, <2>3, <2>4, <2>5, <2>6, <2>7, <2>8
<1>2. CASE SpuriousWakeup
  BY <1>2 DEF SpuriousWakeup, Woken, remote
<1>3. CASE PressKey
  BY <1>3 DEF PressKey, PressUp, PressDown, PressDigit, PressInfo, Calm, player, locals
<1>4. CASE HandleKey
  BY <1>4 DEF HandleKey, WrapUp, WrapDown, Advance, LoadField, StoreProgram, RaiseFlag,
     CopyField, player, locals
<1>5. CASE Demux
  BY <1>5 DEF Demux, Signal, Woken, player, locals, remote
<1>6. CASE BeginDeinit \/ FinishDeinit
  BY <1>6 DEF BeginDeinit, FinishDeinit, player, locals, remote
<1>7. CASE UNCHANGED vars
  BY <1>7 DEF vars, player, locals, remote
<1> QED BY <1>1, <1>2, <1>3, <1>4, <1>5, <1>6, <1>7 DEF Next

\* As long as no call fails and INFO is not pressed, what currentChannel names
\* is what the player plays, with any keys, any PAT and waits that return on
\* their own.
THEOREM InfoIsTruthful ==
  ASSUME Calm
  PROVE  Spec => []InfoMatchesPlayer
<1>1. Init => InfoInv
  BY DEF Init, InfoInv
<1>2. TypeInv /\ InfoInv /\ [Next]_vars => InfoInv'
  BY InfoStep
<1>3. InfoInv => InfoMatchesPlayer
  BY DEF InfoInv, InfoMatchesPlayer
<1> QED BY <1>1, <1>2, <1>3, TypeInvariant, PTL DEF Spec, TypeInv

-----------------------------------------------------------------------------
(* What INFO shows against what is on air *)

\* The pids found so far in the channel's PMT.
FoundIn(k, n) ==
  IF \E j \in 1 .. n : Streams[channelNumber][j] = k THEN channelNumber ELSE NoPid

\* From the loop over the PMT to the fields stored: the loop has found what it
\* has passed, and what it has found at the end is stored.
ScanInv ==
  /\ sc \in {"pmtFree", "eitSet"} => channelNumber \in Channels
  /\ sc \in {"scan", "read"} =>
       /\ channelNumber \in Channels /\ i <= Len(Streams[channelNumber])
       /\ \A k \in Elements : found[k] = FoundIn(k, i)
  /\ sc \in {"video", "audio", "storeProgram", "storeAudio", "storeVideo", "storeText"} =>
       \A k \in Elements : found[k] = OwnPid(k)
  /\ sc \in {"storeVideo", "storeText"} => info["audio"] = OwnPid("audio")
  /\ sc = "storeText" => info["video"] = OwnPid("video")
  /\ sc \in {"init", "loop"} => \A k \in Elements : info[k] = OwnPid(k)

\* One round of the loop: the pid passed is kept if it is the first of its kind.
LEMMA ReadElementStep ==
  ASSUME Calm, TypeInv, FreshPmt, sc = "read" => i < pmt.count, ScanInv, ReadElement
  PROVE  ScanInv'
<1> DEFINE cn == channelNumber
           passed == Streams[cn][i + 1]
<1>1. /\ sc = "read" /\ elements[i + 1] = cn /\ i < pmt.count /\ cn \in Channels /\ i <= Len(Streams[cn])
      /\ pmt.channel = cn /\ pmt.count = Len(Streams[cn])
      /\ \A k \in Elements : found[k] = FoundIn(k, i)
  BY DEF ReadElement, FreshPmt, ScanInv
<1>2. /\ i < Len(Streams[cn]) /\ i' = i + 1 /\ sc' = "scan" /\ channelNumber' = cn
      /\ found' = IF passed \in Elements /\ found[passed] = NoPid
                  THEN [found EXCEPT ![passed] = cn] ELSE found
  BY <1>1 DEF ReadElement, Calm
<1>3. /\ i \in Nat /\ Len(Streams[cn]) \in Nat /\ DOMAIN found = Elements
      /\ cn # NoPid
  BY <1>1, StreamsAreLists DEF TypeInv, TypeOK, Channels
<1>4. ASSUME NEW k \in Elements
      PROVE  found'[k] = FoundIn(k, i + 1)
  <2>1. (\E j \in 1 .. i + 1 : Streams[cn][j] = k)
          <=> (\E j \in 1 .. i : Streams[cn][j] = k) \/ passed = k
    <3>1. \A j : j \in 1 .. i + 1 <=> j \in 1 .. i \/ j = i + 1
      BY <1>3
    <3> HIDE DEF cn
    <3> QED BY <3>1
  <2>2. CASE passed = k
    <3>1. found[k] \in {cn, NoPid}
      BY <1>1 DEF FoundIn
    <3>2. found'[k] = cn
      BY <1>2, <1>3, <2>2, <3>1
    <3> QED BY <2>1, <2>2, <3>2 DEF FoundIn
  <2>3. CASE passed # k
    <3>1. found'[k] = found[k]
      BY <1>2, <1>3, <2>3
    <3> QED BY <1>1, <2>1, <2>3, <3>1 DEF FoundIn
  <2> QED BY <2>2, <2>3
<1>5. i + 1 <= Len(Streams[cn])
  BY <1>2, <1>3
<1>6. \A k \in Elements : found'[k] = FoundIn(k, i)'
  BY <1>2, <1>4 DEF FoundIn
<1> QED BY <1>1, <1>2, <1>5, <1>6 DEF ScanInv

LEMMA ScanStep ==
  ASSUME Undisturbed, Configured, Calm, TypeInv, SectionInv, InfoInv, ScanInv, [Next]_vars
  PROVE  ScanInv'
<1> USE DEF ScanInv
<1>0. InPat /\ FreshPmt
  BY AlwaysInPat DEF SectionInv, PmtInv
<1>1. CASE StreamThread
  <2> USE <1>1 DEF StreamThread
  <2>1. CASE SetPatFilter \/ BeginWait \/ CheckConfigProgram \/ AdoptConfigProgram
    BY <2>1 DEF SetPatFilter, BeginWait, CheckConfigProgram, AdoptConfigProgram
  <2>2. CASE FinishInit \/ ClearRequest \/ LoopExit \/ TakeChannel
    BY <2>2 DEF FinishInit, ClearRequest, LoopExit, TakeChannel, locals, OwnPid, Carried
  <2>3. CASE FreeOldFilter
    BY <2>3 DEF FreeOldFilter, locals
  <2>4. CASE SetPmtFilter
    BY <2>4 DEF SetPmtFilter, FilterFails, Calm
  <2>5. CASE SetEitFilter
    <3>1. /\ sc' = "scan" /\ channelNumber' = channelNumber /\ channelNumber \in Channels
          /\ i' = 0 /\ found' = Nothing
      BY <2>5 DEF SetEitFilter, FilterFails, Calm, FreshLocals
    <3>2. 0 <= Len(Streams[channelNumber])
      BY <3>1, StreamsAreLists
    <3>3. \A k \in Elements : found'[k] = FoundIn(k, 0)
      BY <3>1 DEF Nothing, FoundIn
    <3> QED BY <3>1, <3>2, <3>3 DEF FoundIn
  <2>6. CASE ReadElement
    BY <1>0, <2>6, ReadElementStep DEF SectionInv, PmtInv
  <2>10. CASE TestElement
    BY <2>10 DEF TestElement, locals, FoundIn
  <2>7. CASE EndScan
    <3>1. /\ sc = "scan" /\ sc' = "video" /\ UNCHANGED <<channelNumber, found>>
          /\ channelNumber \in Channels
          /\ i >= Len(Streams[channelNumber]) /\ i <= Len(Streams[channelNumber])
          /\ \A k \in Elements : found[k] = FoundIn(k, i)
      BY <1>0, <2>7 DEF EndScan, locals, FreshPmt
    <3>2. i = Len(Streams[channelNumber])
      BY <3>1, StreamsAreLists DEF TypeInv, TypeOK
    <3>3. \A k \in Elements : found[k] = OwnPid(k)
      BY <3>1, <3>2 DEF FoundIn, OwnPid, Carried
    <3> QED BY <3>1, <3>3 DEF OwnPid, Carried
  <2>8. CASE StartVideo \/ StartAudio
    BY <2>8 DEF StartVideo, StartAudio, locals, OwnPid, Carried
  <2>9. CASE StoreInfo
    <3>1. DOMAIN info = Fields
      BY DEF TypeInv, TypeOK
    <3> QED BY <2>9, <3>1 DEF StoreInfo, Returned, FreshLocals, Kinds, Elements, Fields, OwnPid,
       Carried
  <2> QED BY <2>1, <2>2, <2>3, <2>4, <2>5, <2>6, <2>7, <2>8, <2>9, <2>10
<1>2. CASE SpuriousWakeup
  BY <1>2 DEF SpuriousWakeup, Undisturbed
<1>3. CASE PressKey \/ HandleKey
  <2>1. UNCHANGED <<sc, locals, info>>
    BY <1>3 DEF PressKey, HandleKey, InfoInv, CopyField, StoreProgram, RaiseFlag
  <2> QED BY <2>1 DEF locals, FoundIn, OwnPid, Carried
<1>4. CASE Demux
  <2>1. UNCHANGED <<locals, info>>
    BY <1>4 DEF Demux
  <2>2. CASE UNCHANGED sc
    BY <2>1, <2>2 DEF locals, FoundIn, OwnPid, Carried
  <2>3. CASE Signal
    <3>1. CASE sc = "pmtWait"
      <4>1. section.table = "PMT" /\ section.channel \in {channelNumber, NoPid}
        BY <1>0, <2>3, <3>1 DEF Signal, SectionInv, CallbackInv, OwnPmt
      <4>2. section.channel \in Channels
        BY <4>1 DEF TypeInv, TablesInv, TypeOK, Filters
      <4> QED BY <2>1, <2>3, <3>1, <4>1, <4>2 DEF Signal, Woken, locals, TypeInv, TablesInv
    <3>2. CASE sc # "pmtWait"
      BY <2>1, <2>3, <3>2 DEF Signal, Woken, locals, FoundIn, OwnPid, Carried
    <3> QED BY <3>1, <3>2
  <2> QED BY <1>4, <2>2, <2>3 DEF Demux
<1>5. CASE BeginDeinit \/ FinishDeinit
  BY <1>5 DEF BeginDeinit, FinishDeinit, locals, FoundIn, OwnPid, Carried
<1>6. CASE UNCHANGED vars
  BY <1>6 DEF vars, locals, FoundIn, OwnPid, Carried
<1> QED BY <1>1, <1>2, <1>3, <1>4, <1>5, <1>6 DEF Next

\* In a calm and undisturbed run, for any PAT, any streams, any zaps and any
\* configured number that is not negative, currentChannel says of the channel started last what its PMT says.
THEOREM InfoIsThePmt ==
  ASSUME Undisturbed, Configured, Calm
  PROVE  Spec => []InfoTellsPmt
<1>1. Init => InfoInv /\ ScanInv
  BY DEF Init, InfoInv, ScanInv
<1>2. TypeInv /\ SectionInv /\ InfoInv /\ ScanInv /\ [Next]_vars => InfoInv' /\ ScanInv'
  BY InfoStep, ScanStep
<1>3. ScanInv => InfoTellsPmt
  BY DEF ScanInv, InfoTellsPmt
<1> QED BY <1>1, <1>2, <1>3, TypeInvariant, SectionsInvariant, PTL DEF Spec, TypeInv

\* From the PMT to the end of the next round only a channel on air is shown.
TunedInv ==
  sc \in {"pmtFree", "eitSet", "init", "loop"} \cup ChannelOn => channelNumber \in Channels

LEMMA TunedStep ==
  ASSUME Undisturbed, Configured, Calm, TypeInv, SectionInv, TunedInv, [Next]_vars
  PROVE  TunedInv'
<1> USE DEF TunedInv, ChannelOn
<1>0. InPat
  BY AlwaysInPat
<1>1. CASE StreamThread
  <2> USE <1>1 DEF StreamThread, locals
  <2>1. CASE SetPatFilter \/ BeginWait \/ CheckConfigProgram \/ AdoptConfigProgram
    BY <2>1 DEF SetPatFilter, BeginWait, CheckConfigProgram, AdoptConfigProgram
  <2>2. CASE FinishInit \/ ClearRequest \/ LoopExit \/ TakeChannel \/ FreeOldFilter
    BY <2>2 DEF FinishInit, ClearRequest, LoopExit, TakeChannel, FreeOldFilter
  <2>3. CASE SetPmtFilter \/ SetEitFilter
    BY <2>3 DEF SetPmtFilter, SetEitFilter, FilterFails, Calm
  <2>4. CASE TestElement \/ ReadElement \/ EndScan
    BY <2>4 DEF TestElement, ReadElement, EndScan, Calm
  <2>5. CASE StartVideo \/ StartAudio \/ StoreInfo
    BY <2>5 DEF StartVideo, StartAudio, StoreInfo, Returned
  <2> QED BY <2>1, <2>2, <2>3, <2>4, <2>5
<1>2. CASE SpuriousWakeup
  BY <1>2 DEF SpuriousWakeup, Undisturbed
<1>3. CASE PressKey \/ HandleKey
  BY <1>3 DEF PressKey, HandleKey, locals
<1>4. CASE Demux
  <2>1. CASE Signal /\ sc = "pmtWait"
    <3>1. section.table = "PMT" /\ section.channel \in {channelNumber, NoPid}
      BY <1>0, <2>1 DEF Signal, SectionInv, CallbackInv, OwnPmt
    <3>2. section.channel \in Channels
      BY <3>1 DEF TypeInv, TablesInv, TypeOK, Filters
    <3>3. section.channel # NoPid
      BY <3>1 DEF TypeInv, TablesInv
    <3> QED BY <1>4, <3>1, <3>2, <3>3 DEF Demux, locals
  <2>2. CASE ~(Signal /\ sc = "pmtWait")
    BY <1>4, <2>2 DEF Demux, Signal, Woken, locals
  <2> QED BY <2>1, <2>2
<1>5. CASE BeginDeinit \/ FinishDeinit
  BY <1>5 DEF BeginDeinit, FinishDeinit, locals
<1>6. CASE UNCHANGED vars
  BY <1>6 DEF vars, locals
<1> QED BY <1>1, <1>2, <1>3, <1>4, <1>5, <1>6 DEF Next

\* Channels that carry picture and sound are played as startChannel promises:
\* with them alone on air, in a calm and undisturbed run, the player plays the
\* streams of the current channel and no others.  That a kind is not carried is
\* therefore the only thing that leaves an earlier channel's stream playing.
THEOREM FullChannelsPlay ==
  ASSUME Undisturbed, Configured, Calm,
         \A c \in Channels : \A k \in Kinds : \E j \in 1 .. Len(Streams[c]) : Streams[c][j] = k
  PROVE  Spec => []PlaysCurrentChannel
<1>1. Init => InfoInv /\ ScanInv /\ TunedInv
  BY DEF Init, InfoInv, ScanInv, TunedInv, ChannelOn
<1>2. TypeInv /\ SectionInv /\ InfoInv /\ ScanInv /\ TunedInv /\ [Next]_vars
        => InfoInv' /\ ScanInv' /\ TunedInv'
  BY InfoStep, ScanStep, TunedStep
<1>3. InfoInv /\ ScanInv /\ TunedInv => PlaysCurrentChannel
  <2> SUFFICES ASSUME InfoInv, ScanInv, TunedInv, sc = "loop", NEW k \in Kinds
               PROVE  handle[k] = info[k]
    BY DEF PlaysCurrentChannel
  <2>1. channelNumber \in Channels
    BY DEF TunedInv
  <2>2. info[k] = channelNumber
    BY <2>1 DEF ScanInv, OwnPid, Carried, Elements
  <2>3. info[k] # NoPid
    BY <2>1, <2>2, ServiceCountAssumption DEF Channels, NoPid
  <2> QED BY <2>3 DEF InfoInv
<1> QED BY <1>1, <1>2, <1>3, TypeInvariant, SectionsInvariant, PTL DEF Spec, TypeInv

-----------------------------------------------------------------------------
(* Whose event is shown *)

\* INFO is not pressed and the configured pids are on air.
Announced == "INFO" \notin Keys /\ "pidMismatch" \notin Env

\* An event section is in the callback's hands or may come.
EventsOn ==
  (\E f \in filters : f.table = "EIT") \/ (demux # "idle" /\ section.table = "EIT")

\* While event sections may come the PMT is that of the channel announced, or
\* of the one that is about to be.
EventInv ==
  /\ rc \notin {"load", "copy"}
  /\ sc \in {"scan", "read", "video", "audio", "storeProgram", "storeAudio", "storeVideo",
             "storeText"} => pmt.channel = channelNumber
  /\ sc \in {"storeAudio", "storeVideo", "storeText"} => info["program"] = channelNumber
  /\ sc \in {"take", "free", "pmtSet", "init", "loop", "ended"} /\ EventsOn =>
       pmt.channel = info["program"]

\* The stream thread announces a channel with its event filter on.
LEMMA EventStreamStep ==
  ASSUME Undisturbed, Configured, Announced, TypeInv, ResourceInv, SectionInv, EventInv, StreamThread
  PROVE  EventInv'
<1> USE DEF EventInv, EventsOn, tables, pmtTable, events, remote, callback, demuxer, locals,
            StreamThread
<1>1. CASE SetPatFilter \/ BeginWait \/ CheckConfigProgram
  BY <1>1 DEF SetPatFilter, BeginWait, CheckConfigProgram
<1>2. CASE AdoptConfigProgram
  <2>1. sc = "adopt" /\ UNCHANGED <<filters, demux, section>> /\ sc' = "take"
    BY <1>2 DEF AdoptConfigProgram
  <2>2. ~EventsOn
    BY <2>1 DEF SectionInv, FilterInv, CallbackInv, BringUp, EitFilter
  <2> QED BY <1>2, <2>1, <2>2 DEF AdoptConfigProgram
<1>3. CASE FinishInit \/ ClearRequest \/ LoopExit \/ TakeChannel
  BY <1>3 DEF FinishInit, ClearRequest, LoopExit, TakeChannel
<1>4. CASE FreeOldFilter
  BY <1>4 DEF FreeOldFilter, FreeFilter
<1>5. CASE SetPmtFilter \/ SetEitFilter
  <2>1. demux = "idle" /\ filters = {}
    BY <1>5 DEF SetPmtFilter, SetEitFilter, Drained, Undisturbed, ResourceInv, FreedBeforeSet
  <2>2. CASE SetPmtFilter
    BY <2>1, <2>2 DEF SetPmtFilter, Returned
  <2>3. CASE SetEitFilter
    <3>1. sc = "eitSet" /\ demux # "parsing"
      BY <2>1, <2>3 DEF SetEitFilter
    <3>2. pmt.channel = channelNumber
      BY <3>1, AlwaysInPat DEF SectionInv, PmtInv, Complete
    <3> QED BY <2>1, <2>3, <3>2 DEF SetEitFilter, Returned
  <2> QED BY <1>5, <2>2, <2>3
<1>6. CASE TestElement \/ ReadElement
  BY <1>6 DEF TestElement, ReadElement, Announced
<1>7. CASE EndScan \/ StartVideo \/ StartAudio
  BY <1>7 DEF EndScan, StartVideo, StartAudio
<1>8. CASE StoreInfo
  BY <1>8 DEF StoreInfo, Returned, FreshLocals, TypeInv, TypeOK, Fields, Elements, Kinds
<1> QED BY <1>1, <1>2, <1>3, <1>4, <1>5, <1>6, <1>7, <1>8

LEMMA EventStep ==
  ASSUME Undisturbed, Configured, Announced, TypeInv, ResourceInv, SectionInv, EventInv, [Next]_vars
  PROVE  EventInv'
<1> USE DEF EventInv, EventsOn
<1>1. CASE StreamThread
  BY <1>1, EventStreamStep
<1>2. CASE SpuriousWakeup
  BY <1>2 DEF SpuriousWakeup, Undisturbed
<1>3. CASE PressKey
  BY <1>3 DEF PressKey, PressUp, PressDown, PressDigit, PressInfo, Announced, tables, pmtTable, locals,
     demuxer, callback
<1>4. CASE HandleKey
  BY <1>4 DEF HandleKey, WrapUp, WrapDown, Advance, LoadField, StoreProgram, RaiseFlag,
     CopyField, tables, pmtTable, locals, demuxer, callback
<1>5. CASE Demux
  <2>1. UNCHANGED <<info, filters, channelNumber, rc>>
    BY <1>5 DEF Demux, demuxer, locals, remote
  <2>2. CASE Deliver /\ UNCHANGED sc
    <3>1. UNCHANGED pmt /\ (EventsOn' => EventsOn)
      BY <2>1, <2>2 DEF Deliver, OnAir, tables, pmtTable
    <3> QED BY <2>1, <2>2, <3>1
  <2>3. CASE (ParsePat \/ ParseEit) /\ UNCHANGED sc
    BY <2>1, <2>3 DEF ParsePat, ParseEit, pmtTable
  <2>4. CASE ParsePmt /\ UNCHANGED sc
    <3>1. section.table = "PMT" /\ demux # "idle" /\ UNCHANGED section
      BY <2>4 DEF ParsePmt
    <3>2. sc \notin ChannelOn \cup {"take", "free", "pmtSet"}
      BY <3>1 DEF SectionInv, CallbackInv, TypeInv, TypeOK
    <3> QED BY <2>1, <2>4, <3>2 DEF ChannelOn
  <2>5. CASE Signal
    BY <2>1, <2>5 DEF Signal, Woken, tables, pmtTable
  <2> QED BY <1>5, <2>2, <2>3, <2>4, <2>5 DEF Demux
<1>6. CASE BeginDeinit \/ FinishDeinit
  <2>1. /\ UNCHANGED <<info, pmt, channelNumber, sc, demux, section>>
        /\ filters' \subseteq filters /\ (rc' = rc \/ rc' = "gone")
    BY <1>6 DEF BeginDeinit, FinishDeinit, FreeFilter, tables, pmtTable, locals, demuxer, callback, remote
  <2> QED BY <2>1
<1>7. CASE UNCHANGED vars
  BY <1>7 DEF vars, tables, pmtTable, locals, demuxer, callback, remote
<1> QED BY <1>1, <1>2, <1>3, <1>4, <1>5, <1>6, <1>7 DEF Next

\* Callbacks that have been waited for, waits only a section ends, a configured
\* number that is not negative with its pids on air, and no INFO: then the event
\* of a section is never taken for a channel that is neither shown nor being
\* started, whatever is zapped and whichever filter or stream call fails.  What
\* is taken over otherwise is what an earlier section left in entry 0.
THEOREM EventsFollow ==
  ASSUME Undisturbed, Configured, Announced
  PROVE  Spec => EventFollowsChannel
<1>1. Init => EventInv
  BY DEF Init, EventInv, EventsOn
<1>2. TypeInv /\ ResourceInv /\ SectionInv /\ EventInv /\ [Next]_vars => EventInv'
  BY EventStep
<1>3. TypeInv /\ SectionInv /\ EventInv /\ [Next]_vars =>
        [event' # event =>
           \/ event' \in {info["program"], channelNumber}
           \/ event' = firstEvent /\ UNCHANGED firstEvent]_vars
  <2> SUFFICES ASSUME TypeInv, SectionInv, EventInv, [Next]_vars, event' # event,
                      event' # firstEvent \/ firstEvent' # firstEvent
               PROVE  event' \in {info["program"], channelNumber}
    OBVIOUS
  <2>1. ParseEit
    BY DEF Next, vars, tables, events, StreamThread, SpuriousWakeup, PressKey, HandleKey, Demux,
       Deliver, ParsePat, ParsePmt, Signal, BeginDeinit, FinishDeinit
  <2>2. PICK s \in EventServices : /\ firstEvent' \in {s, NoPid, firstEvent}
                                   /\ s = pmt.channel /\ firstEvent' # NoPid
                                   /\ event' = firstEvent'
    BY <2>1 DEF ParseEit, Described
  <2>3. event' = pmt.channel /\ demux # "idle" /\ section.table = "EIT"
    BY <2>1, <2>2 DEF ParseEit
  <2>4. sc \notin BringUp \cup {"pmtLock", "pmtWait", "pmtFree", "eitSet"}
    BY <2>3 DEF SectionInv, CallbackInv, OwnPmt
  <2>5. sc \in StreamPoints
    BY DEF TypeInv, TypeOK
  <2> QED BY <2>3, <2>4, <2>5 DEF EventInv, EventsOn, StreamPoints, BringUp
<1> QED BY <1>1, <1>2, <1>3, TypeInvariant, ResourceInvariant, SectionsInvariant, PTL
        DEF Spec, TypeInv, EventFollowsChannel

-----------------------------------------------------------------------------
(* The channels that are asked for *)

\* Keys are pressed once the bring-up has ended, number keys for channels that
\* are on air.
OnAirKeys == "earlyKey" \notin Env /\ Digits \subseteq Channels

\* A key handler keeps the number it works on among the channels: it tests and
\* changes what nobody else writes, against a PAT that is complete.
OnAirInv ==
  /\ programNumber \in Channels /\ channelNumber \in Channels
  /\ rc \notin {"idle", "gone"} => isInitialized
  /\ main # "run" => rc = "gone"
  /\ rc \in {"up", "down"} => rcValue = programNumber
  /\ rc = "increment" => programNumber + 1 \in Channels
  /\ rc = "decrement" => programNumber - 1 \in Channels
  /\ rc = "store" => rcValue \in Channels
  /\ WaitsAreAnswered

\* Once the bring-up has ended the PAT is complete and stays so.
LEMMA CompletePat ==
  ASSUME TypeInv, SectionInv, CountInv, isInitialized
  PROVE  patCount = ServiceCount
<1>1. sc \notin BringUp
  BY DEF SectionInv, PhaseInv
<1>2. demux # "idle" => section.table # "PAT"
  BY <1>1 DEF SectionInv, CallbackInv, TypeInv, TypeOK, StreamPoints, BringUp, ChannelOn, OwnPmt
<1> QED BY <1>1, <1>2 DEF CountInv, BringUp

\* startChannel sets the filter on the PMT of the channel it starts.
LEMMA OnAirStream ==
  ASSUME Undisturbed, Configured, TypeInv, ResourceInv, SectionInv, CountInv, OnAirInv,
         StreamThread
  PROVE  OnAirInv'
<1> USE DEF OnAirInv, WaitsAreAnswered, request, remote, locals, demuxer, StreamThread
<1>1. CASE SetPatFilter \/ BeginWait \/ CheckConfigProgram
  BY <1>1 DEF SetPatFilter, BeginWait, CheckConfigProgram, flags
<1>2. CASE AdoptConfigProgram
  <2>1. config \in Channels
    BY <1>2 DEF AdoptConfigProgram, TypeInv, TypeOK, KeysInRange, Configured, Channels
  <2>2. ~isInitialized
    BY <1>2 DEF AdoptConfigProgram, SectionInv, PhaseInv, BringUp
  <2> QED BY <1>2, <2>1, <2>2 DEF AdoptConfigProgram, flags
<1>3. CASE FinishInit \/ ClearRequest \/ LoopExit \/ TakeChannel
  BY <1>3 DEF FinishInit, ClearRequest, LoopExit, TakeChannel, flags
<1>4. CASE FreeOldFilter
  BY <1>4 DEF FreeOldFilter, flags
<1>5. CASE SetPmtFilter
  <2>1. demux = "idle" /\ filters = {} /\ sc = "pmtSet"
    BY <1>5 DEF SetPmtFilter, Drained, Undisturbed, ResourceInv, FreedBeforeSet
  <2>2. patCount = ServiceCount /\ patKnown >= ServiceCount
    BY <2>1 DEF CountInv, TypeInv, TypeOK, TablesInv
  <2>3. PmtPids(channelNumber) = {channelNumber}
    BY <2>2 DEF PmtPids, Channels, TypeInv, TypeOK
  <2> QED BY <1>5, <2>1, <2>3 DEF SetPmtFilter, Returned, flags
<1>6. CASE SetEitFilter
  BY <1>6 DEF SetEitFilter, Returned, flags
<1>7. CASE TestElement \/ ReadElement \/ EndScan
  BY <1>7 DEF TestElement, ReadElement, EndScan, Returned, flags
<1>8. CASE StartVideo \/ StartAudio \/ StoreInfo
  BY <1>8 DEF StartVideo, StartAudio, StoreInfo, Returned, flags
<1> QED BY <1>1, <1>2, <1>3, <1>4, <1>5, <1>6, <1>7, <1>8

\* No key handler leaves the channels.
LEMMA OnAirKey ==
  ASSUME OnAirKeys, TypeInv, SectionInv, CountInv, OnAirInv, PressKey \/ HandleKey
  PROVE  OnAirInv'
<1> USE DEF OnAirInv
<1>1. /\ UNCHANGED <<channelNumber, main, isInitialized, sc, filters>>
      /\ rc # "gone"
  BY DEF PressKey, HandleKey, locals, flags, demuxer, PressUp, PressDown, PressDigit, PressInfo,
     Listening, WrapUp, WrapDown, Advance, LoadField, StoreProgram, RaiseFlag, CopyField
<1>2. WaitsAreAnswered'
  BY <1>1 DEF WaitsAreAnswered
<1>3. CASE PressKey
  BY <1>1, <1>2, <1>3 DEF PressKey, request, PressUp, PressDown, PressDigit, PressInfo, Listening,
     OnAirKeys
<1>4. CASE HandleKey
  <2>1. rc \notin {"idle", "gone"}
    BY <1>4 DEF HandleKey, WrapUp, WrapDown, Advance, LoadField, StoreProgram, RaiseFlag, CopyField
  <2>2. isInitialized /\ patCount = ServiceCount
    BY <2>1, CompletePat
  <2>3. CASE WrapUp /\ UNCHANGED <<request, info>>
    BY <1>1, <1>2, <2>2, <2>3 DEF WrapUp, LastChannel, request, Channels
  <2>4. CASE WrapDown /\ UNCHANGED <<request, info>>
    BY <1>1, <1>2, <2>2, <2>4 DEF WrapDown, LastChannel, request, Channels
  <2>5. CASE Advance /\ UNCHANGED <<request, info>>
    BY <1>1, <1>2, <2>2, <2>5 DEF Advance, request
  <2>6. CASE LoadField /\ UNCHANGED <<request, info>>
    BY <1>1, <1>2, <2>2, <2>6 DEF LoadField, request
  <2>7. CASE StoreProgram \/ RaiseFlag \/ CopyField
    BY <1>1, <1>2, <2>2, <2>7 DEF StoreProgram, RaiseFlag, CopyField, request
  <2> QED BY <1>4, <2>3, <2>4, <2>5, <2>6, <2>7 DEF HandleKey
<1> QED BY <1>3, <1>4

LEMMA OnAirStep ==
  ASSUME Undisturbed, Configured, OnAirKeys, TypeInv, ResourceInv, SectionInv, CountInv,
         OnAirInv, [Next]_vars
  PROVE  OnAirInv'
<1> USE DEF OnAirInv, WaitsAreAnswered
<1>1. CASE StreamThread
  BY <1>1, OnAirStream
<1>2. CASE SpuriousWakeup
  BY <1>2 DEF SpuriousWakeup, Undisturbed
<1>3. CASE PressKey \/ HandleKey
  BY <1>3, OnAirKey
<1>4. CASE Demux
  BY <1>4 DEF Demux, Signal, Woken, request, remote, locals, demuxer, flags
<1>5. CASE BeginDeinit
  BY <1>5 DEF BeginDeinit, request, locals, demuxer
<1>6. CASE FinishDeinit
  BY <1>6 DEF FinishDeinit, request, locals, remote
<1>7. CASE UNCHANGED vars
  BY <1>7 DEF vars, request, locals, demuxer, remote, flags
<1> QED BY <1>1, <1>2, <1>3, <1>4, <1>5, <1>6, <1>7 DEF Next

\* When the configured number is not negative, keys are pressed only after the
\* bring-up and number keys only for channels on air, then for any PAT, any sequence of keys and any failing call
\* startChannel waits for nothing but a PMT on air whose filter is in force.
THEOREM WaitsAnswered ==
  ASSUME Undisturbed, Configured, OnAirKeys
  PROVE  Spec => []WaitsAreAnswered
<1>1. Init => CountInv /\ OnAirInv
  BY DEF Init, CountInv, OnAirInv, WaitsAreAnswered, Channels
<1>2. /\ TypeInv /\ SectionInv /\ CountInv /\ [Next]_vars => CountInv'
      /\ TypeInv /\ ResourceInv /\ SectionInv /\ CountInv /\ OnAirInv /\ [Next]_vars => OnAirInv'
  BY CountStep, OnAirStep
<1>3. OnAirInv => WaitsAreAnswered
  BY DEF OnAirInv
<1> QED BY <1>1, <1>2, <1>3, TypeInvariant, ResourceInvariant, SectionsInvariant, PTL
        DEF Spec, TypeInv
=============================================================================
