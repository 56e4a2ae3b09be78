-------------------------- MODULE StreamController --------------------------
(***************************************************************************)
(* Channel zapping in the set-top player: the remote thread asks for a     *)
(* channel, the stream thread tunes the demultiplexer and the player to    *)
(* it, the demultiplexer's callback thread fills the tables it waits for,  *)
(* and main tears everything down.  The threads share plain globals; the   *)
(* only lock (demuxMutex) covers a condition variable, so a load or store  *)
(* of a shared global that another thread can interleave with is a step of *)
(* its own.  Two accesses share a step where no other thread writes what   *)
(* the first one reads before the second could notice, as in testing       *)
(* threadExit and changeChannel and clearing the latter.  An entry of a    *)
(* table is written and read in one step.                                  *)
(*                                                                         *)
(* Channels are numbered from 0.  Entry 0 of the PAT is the network        *)
(* information table, so channel c is described by PAT entry c + 1.  An    *)
(* elementary stream's pid is named by the channel that carries it.        *)
(* Drawing is handed to the graphics thread, whose state is not read back; *)
(* the volume half of the main loop touches none of the state below.       *)
(***************************************************************************)
EXTENDS Integers, Sequences

CONSTANTS
  ServiceCount,    \* entries of the PAT on air, the network entry included
  Streams,         \* what the PMT of a channel lists, in order
  EventServices,   \* channels whose event sections are broadcast
  ConfigPrograms,  \* configProgramNumber the configuration file may give
  Keys,            \* which of P+, P- and INFO the viewer uses
  Digits,          \* which number keys the viewer uses
  Env              \* what may go wrong around the program, see Trouble

Channels == 0 .. ServiceCount - 2
Kinds == {"video", "audio"}
Elements == Kinds \cup {"text"}     \* what the loop over pmtTable looks for
Copied == Kinds \cup {"program"}    \* what getChannelInfo copies
Fields == Elements \cup {"program"}
Trouble == {"spuriousWakeup",     \* a condition wait returns on its own
            "lateSection",        \* freeing a filter leaves a callback running
            "setFilterFails",     \* Demux_Set_Filter returns an error
            "streamCreateFails",  \* Player_Stream_Create returns an error
            "pidMismatch",        \* the configured pids are not on air
            "earlyKey"}           \* keys are pressed before the bring-up ends

ASSUME ServiceCountAssumption == ServiceCount \in 2 .. 20
ASSUME StreamsAssumption == Streams \in [Channels -> Seq(Elements \cup {"other"})]
ASSUME EventAssumption == EventServices \subseteq Channels
\* An int16_t, which a number above 32767 in the file wraps to a negative one.
\* Its least value, from which programNumber-- would wrap, is left out.
ASSUME ConfigAssumption == ConfigPrograms \subseteq {n \in Int : -32768 < n /\ n < 32768}
ASSUME ViewerAssumption == Keys \subseteq {"P+", "P-", "INFO"} /\ Digits \subseteq 0 .. 9
ASSUME EnvAssumption == Env \subseteq Trouble

NoPid == -1        \* the initial audioPid and videoPid of startChannel
ZeroPid == -2      \* pid 0, from a table or structure never written
NoKey == 32768     \* no int16_t

\* What programNumber may be: from -2, the wrap below an empty PAT, or from one
\* below a configured number, up to serviceInfoCount.  Also holds every pid.
Programs ==
  {n \in Int : n <= ServiceCount /\ (n >= -2 \/ \E c \in ConfigPrograms : c - 1 <= n)}

PatFilter == [table |-> "PAT", channel |-> NoPid]
PmtFilter(c) == [table |-> "PMT", channel |-> c]
EitFilter == [table |-> "EIT", channel |-> NoPid]
Filters == [table : {"PAT", "PMT", "EIT"}, channel : Channels \cup {NoPid}]

VARIABLES
  \* globals of stream_controller.c
  programNumber,   \* channel asked for; written by the remote thread
  changeChannel,   \* flag: programNumber is to be started
  config,          \* configProgramNumber, read during the bring-up
  patCount,        \* patTable->serviceInfoCount
  patKnown,        \* entries of patServiceInfoArray written so far
  pmt,             \* pmtTable: whose it is and how many elements it counts
  elements,        \* whose element each entry written so far holds
  firstEvent,      \* channel whose running event eitTable's entry 0 holds, or NoPid
  info,            \* currentChannel: program, pids, and whose teletext was found
  event,           \* channel whose event currentChannel names, or NoPid
  isInitialized,
  threadExit,
  filterHandle,    \* the filter last set
  handle,          \* streamHandleV and streamHandleA: pid played, or NoPid
  \* locals and control point of the stream thread
  sc, channelNumber, i, found,
  \* control point of the remote thread, its loaded value and copied field
  rc, rcValue, rcField,
  \* callback thread of the demultiplexer and the section it carries
  demux, section,
  \* outside the program: filters that deliver, player streams that exist
  filters, opened,
  main,
  \* history: the number the last key stored since the configured one was
  \* adopted, or NoKey
  lastKey

request == <<programNumber, changeChannel, lastKey>>
pmtTable == <<pmt, elements>>
events == <<firstEvent, event>>
tables == <<patCount, patKnown, pmtTable, events>>
flags == <<isInitialized, threadExit>>
player == <<handle, opened>>
demuxer == <<filterHandle, filters>>
locals == <<channelNumber, i, found>>
remote == <<rc, rcValue, rcField>>
callback == <<demux, section>>
vars == <<request, tables, info, flags, player, demuxer, sc, locals,
          remote, callback, config, main>>

Nothing == [k \in Elements |-> NoPid]

\* The stream thread has allocated its tables, locked the tuner and opened
\* the player; the remote thread already listens.
Init ==
  /\ config \in ConfigPrograms
  /\ programNumber = 0 /\ changeChannel = FALSE /\ lastKey = NoKey
  /\ patCount = 0 /\ patKnown = 0
  /\ pmt = [channel |-> NoPid, count |-> 0] /\ elements = <<>> /\ firstEvent = NoPid
  /\ info = [f \in Fields |-> IF f = "program" THEN 0 ELSE ZeroPid]
  /\ event = NoPid
  /\ isInitialized = FALSE /\ threadExit = FALSE
  /\ filterHandle = PatFilter /\ filters = {}
  /\ handle = [k \in Kinds |-> NoPid] /\ opened = [k \in Kinds |-> 0]
  /\ sc = "patFilter" /\ channelNumber = 0 /\ i = 0 /\ found = Nothing
  /\ rc = "idle" /\ rcValue = 0 /\ rcField = "program"
  /\ demux = "idle" /\ section = PatFilter
  /\ main = "run"

-----------------------------------------------------------------------------
(* Helpers shared by the threads *)

\* Highest channel the PAT lists, as the code computes it.
LastChannel == patCount - 2

\* The pids patServiceInfoArray[c + 1] may hold: an entry that no PAT has
\* filled and the network entry carry no PMT, nor do the last bytes of the
\* header, in front of the array.  What lies before patTable may be any pid.
PmtPids(c) ==
  CASE c + 1 \in 1 .. patKnown - 1 -> {c}
    [] c < -2 -> Channels \cup {NoPid}
    [] OTHER -> {NoPid}

FilterFails == "setFilterFails" \in Env
\* Demux_Free_Filter returns when no callback is running.
Drained == demux = "idle" \/ "lateSection" \in Env

SetFilter(f) ==
  \/ filterHandle' = f /\ filters' = filters \cup {f}
  \/ FilterFails /\ UNCHANGED demuxer

\* Mutant of FreeFilter: the filter in force is never freed.
FreeFilterForgotten == UNCHANGED demuxer

FreeFilter == filters' = filters \ {filterHandle} /\ UNCHANGED filterHandle

-----------------------------------------------------------------------------
(* Stream thread: bring-up *)

SetPatFilter ==
  /\ sc = "patFilter" /\ sc' = "patLock"
  /\ SetFilter(PatFilter)
  /\ UNCHANGED <<request, info, flags, player, locals>>

\* Taking demuxMutex and starting to wait: a signal before this is lost.
BeginWait ==
  /\ \/ sc = "patLock" /\ sc' = "patWait"
     \/ sc = "pmtLock" /\ sc' = "pmtWait"
  /\ UNCHANGED <<request, info, flags, player, demuxer, locals>>

\* Mutant of Woken: only PAT sections signal.
WokenByPatOnly(at) == IF at = "patWait" THEN "check" ELSE at

Woken(at) == CASE at = "patWait" -> "check" [] at = "pmtWait" -> "pmtFree" [] OTHER -> at

\* A condition wait that no section ended; the code tests no predicate.
SpuriousWakeup ==
  /\ "spuriousWakeup" \in Env
  /\ sc \in {"patWait", "pmtWait"} /\ sc' = Woken(sc)
  /\ UNCHANGED <<request, tables, info, flags, player, demuxer, locals, remote, callback, config, main>>

\* Mutant of CheckConfigProgram: the last channel is refused, too.
RefuseLastChannel ==
  /\ sc = "check"
  /\ sc' = IF config >= LastChannel THEN "rejected" ELSE "adopt"
  /\ UNCHANGED <<request, info, flags, player, demuxer, locals>>

CheckConfigProgram ==
  /\ sc = "check"
  /\ sc' = IF config > LastChannel THEN "rejected" ELSE "adopt"
  /\ UNCHANGED <<request, info, flags, player, demuxer, locals>>

AdoptConfigProgram ==
  /\ sc = "adopt" /\ sc' = "take"
  /\ programNumber' = config
  /\ UNCHANGED <<changeChannel, lastKey, info, flags, player, demuxer, locals>>

FinishInit ==
  /\ sc = "init" /\ sc' = "loop"
  /\ isInitialized' = TRUE
  /\ UNCHANGED <<request, info, threadExit, player, demuxer, locals>>

-----------------------------------------------------------------------------
(* Stream thread: main loop and startChannel *)

\* Mutant of Requested: the channel already shown is not restarted.
RequestedOther == changeChannel /\ programNumber # channelNumber

Requested == changeChannel

ClearRequest ==
  /\ sc = "loop" /\ ~threadExit /\ Requested
  /\ sc' = "take" /\ changeChannel' = FALSE
  /\ UNCHANGED <<programNumber, lastKey, info, flags, player, demuxer, locals>>

LoopExit ==
  /\ sc = "loop" /\ threadExit /\ sc' = "ended"
  /\ UNCHANGED <<request, info, flags, player, demuxer, locals>>

\* startChannel(programNumber): the argument is read after the flag is cleared.
TakeChannel ==
  /\ sc = "take" /\ sc' = "free"
  /\ channelNumber' = programNumber
  /\ UNCHANGED <<request, info, flags, player, demuxer, i, found>>

FreeOldFilter ==
  /\ \/ sc = "free" /\ sc' = "pmtSet"
     \/ sc = "pmtFree" /\ sc' = "eitSet"
  /\ FreeFilter
  /\ UNCHANGED <<request, info, flags, player, locals>>

\* Where startChannel returns to; the first call's result is ignored.
Returned == IF isInitialized THEN "loop" ELSE "init"

\* Mutant of FreshLocals: the pids of the last channel are kept.
KeptPids == i' = 0 /\ UNCHANGED found

\* Locals before the loop over pmtTable, and once startChannel has returned.
FreshLocals == i' = 0 /\ found' = Nothing

SetPmtFilter ==
  /\ sc = "pmtSet" /\ Drained
  /\ \/ /\ sc' = "pmtLock"
        /\ \E p \in PmtPids(channelNumber) : filterHandle' = PmtFilter(p)
        /\ filters' = filters \cup {filterHandle'}
     \/ FilterFails /\ sc' = Returned /\ UNCHANGED demuxer
  /\ UNCHANGED <<request, info, flags, player, locals>>

SetEitFilter ==
  /\ sc = "eitSet" /\ Drained
  /\ \/ sc' = "scan" /\ filterHandle' = EitFilter /\ filters' = filters \cup {EitFilter}
     \/ FilterFails /\ sc' = Returned /\ UNCHANGED demuxer
  /\ FreshLocals
  /\ UNCHANGED <<request, info, flags, player, channelNumber>>

\* Mutant of TestElement: one round too many.
TestElementInclusive ==
  /\ sc = "scan" /\ i <= pmt.count /\ sc' = "read"
  /\ UNCHANGED <<request, info, flags, player, demuxer, locals>>

\* The loop over pmtTable tests the count, then reads the entry: a callback
\* still running may reset and refill the table in between.
TestElement ==
  /\ sc = "scan" /\ i < pmt.count /\ sc' = "read"
  /\ UNCHANGED <<request, info, flags, player, demuxer, locals>>

\* The first pid of each kind is kept, and during bring-up it must be the
\* configured one.
ReadElement ==
  /\ sc = "read"
  /\ LET whose == elements[i + 1]
         k == Streams[whose][i + 1]
         first == k \in Elements /\ found[k] = NoPid
     IN  \/ /\ found' = IF first THEN [found EXCEPT ![k] = whose] ELSE found
            /\ i' = i + 1 /\ sc' = "scan"
         \/ /\ first /\ k \in Kinds /\ ~isInitialized /\ "pidMismatch" \in Env
            /\ sc' = Returned /\ FreshLocals
  /\ UNCHANGED <<request, info, flags, player, demuxer, channelNumber>>

EndScan ==
  /\ sc = "scan" /\ i >= pmt.count /\ sc' = "video"
  /\ UNCHANGED <<request, info, flags, player, demuxer, locals>>

\* Streams left when the one of kind k, if any, has been removed.
Without(k) == IF handle[k] = NoPid THEN opened ELSE [opened EXCEPT ![k] = @ - 1]

\* Mutant of Released: the handle of a removed stream is not reset.
ReleasedInPlace(k) == handle

Released(k) == [handle EXCEPT ![k] = NoPid]

RemoveStream(k) ==
  /\ opened' = Without(k) /\ handle' = Released(k)
  /\ UNCHANGED threadExit

\* Remove the old stream of kind k, create the new one.  When that fails the
\* thread deinitializes the controller it runs: it can only raise threadExit,
\* since it cannot join itself.
ReplaceStream(k) ==
  \/ /\ opened' = [Without(k) EXCEPT ![k] = @ + 1]
     /\ handle' = [handle EXCEPT ![k] = found[k]]
     /\ UNCHANGED threadExit
  \/ /\ "streamCreateFails" \in Env
     /\ opened' = Without(k) /\ handle' = Released(k)
     /\ threadExit' = (threadExit \/ isInitialized)

\* Mutant of Listed: a stream already playing is kept.
ListedAnew(k) == found[k] # NoPid /\ handle[k] = NoPid

Listed(k) == found[k] # NoPid

\* A channel without video gives up the audio stream.
StartVideo ==
  /\ sc = "video" /\ sc' = "audio"
  /\ IF Listed("video") THEN ReplaceStream("video") ELSE RemoveStream("audio")
  /\ UNCHANGED <<request, info, isInitialized, demuxer, locals>>

StartAudio ==
  /\ sc = "audio" /\ sc' = "storeProgram"
  /\ IF Listed("audio") THEN ReplaceStream("audio") ELSE UNCHANGED <<player, threadExit>>
  /\ UNCHANGED <<request, info, isInitialized, demuxer, locals>>

\* currentChannel is filled field by field; then the channel is announced.
StoreInfo ==
  /\ \/ /\ sc = "storeProgram" /\ sc' = "storeAudio" /\ UNCHANGED <<i, found>>
        /\ info' = [info EXCEPT !["program"] = channelNumber]
     \/ /\ sc = "storeAudio" /\ sc' = "storeVideo" /\ UNCHANGED <<i, found>>
        /\ info' = [info EXCEPT !["audio"] = found["audio"]]
     \/ /\ sc = "storeVideo" /\ sc' = "storeText" /\ UNCHANGED <<i, found>>
        /\ info' = [info EXCEPT !["video"] = found["video"]]
     \/ /\ sc = "storeText" /\ sc' = Returned /\ FreshLocals
        /\ info' = [info EXCEPT !["text"] = found["text"]]
  /\ UNCHANGED <<request, flags, player, demuxer, channelNumber>>

StreamThread ==
  /\ \/ SetPatFilter \/ BeginWait \/ CheckConfigProgram \/ AdoptConfigProgram \/ FinishInit
     \/ ClearRequest \/ LoopExit \/ TakeChannel \/ FreeOldFilter \/ SetPmtFilter
     \/ SetEitFilter \/ TestElement \/ ReadElement \/ EndScan \/ StartVideo \/ StartAudio \/ StoreInfo
  /\ UNCHANGED <<tables, remote, callback, config, main>>

-----------------------------------------------------------------------------
(* Remote thread: one key at a time *)

Listening == rc = "idle" /\ (isInitialized \/ "earlyKey" \in Env)

PressUp ==
  /\ Listening /\ "P+" \in Keys
  /\ rc' = "up" /\ rcValue' = programNumber /\ UNCHANGED rcField

PressDown ==
  /\ Listening /\ "P-" \in Keys
  /\ rc' = "down" /\ rcValue' = programNumber /\ UNCHANGED rcField

\* channelSwitch refuses only a number above serviceInfoCount.
PressDigit(d) ==
  /\ Listening /\ d <= patCount
  /\ rc' = "store" /\ rcValue' = d /\ UNCHANGED rcField

PressInfo ==
  /\ Listening /\ "INFO" \in Keys
  /\ rc' = "load" /\ UNCHANGED <<rcValue, rcField>>

\* Mutant of WrapUp: wraps only above the last channel.
WrapUpLate ==
  /\ rc = "up"
  /\ IF rcValue > LastChannel THEN rc' = "store" /\ rcValue' = 0
                              ELSE rc' = "increment" /\ UNCHANGED rcValue
  /\ UNCHANGED rcField

WrapUp ==
  /\ rc = "up"
  /\ IF rcValue >= LastChannel THEN rc' = "store" /\ rcValue' = 0
                               ELSE rc' = "increment" /\ UNCHANGED rcValue
  /\ UNCHANGED rcField

\* Mutant of WrapDown: wraps at channel 0 only, not below it.
WrapDownAtZero ==
  /\ rc = "down"
  /\ IF rcValue = 0 THEN rc' = "store" /\ rcValue' = LastChannel
                    ELSE rc' = "decrement" /\ UNCHANGED rcValue
  /\ UNCHANGED rcField

WrapDown ==
  /\ rc = "down"
  /\ IF rcValue <= 0 THEN rc' = "store" /\ rcValue' = LastChannel
                     ELSE rc' = "decrement" /\ UNCHANGED rcValue
  /\ UNCHANGED rcField

\* programNumber++ and programNumber-- load the variable again.
Advance ==
  /\ \/ rc = "increment" /\ rcValue' = programNumber + 1
     \/ rc = "decrement" /\ rcValue' = programNumber - 1
  /\ rc' = "store" /\ UNCHANGED rcField

\* Points of the stream thread at which line 489 is still to come: it will
\* overwrite what a key stores.
BeforeAdoption == {"patFilter", "patLock", "patWait", "check", "adopt", "rejected"}

StoreProgram ==
  /\ rc = "store" /\ rc' = "raise"
  /\ programNumber' = rcValue
  /\ lastKey' = IF sc \in BeforeAdoption THEN lastKey ELSE rcValue
  /\ UNCHANGED <<changeChannel, info, rcValue, rcField>>

\* Mutant of RaiseFlag: the flag is toggled, as mute() toggles volumeMute.
ToggleFlag ==
  /\ rc = "raise" /\ rc' = "idle"
  /\ changeChannel' = ~changeChannel /\ rcValue' = 0
  /\ UNCHANGED <<programNumber, lastKey, info, rcField>>

RaiseFlag ==
  /\ rc = "raise" /\ rc' = "idle"
  /\ changeChannel' = TRUE /\ rcValue' = 0
  /\ UNCHANGED <<programNumber, lastKey, info, rcField>>

LoadField ==
  /\ rc = "load" /\ rc' = "copy" /\ rcValue' = info[rcField] /\ UNCHANGED rcField

NextField == CASE rcField = "program" -> "audio" [] rcField = "audio" -> "video"
               [] OTHER -> "program"

\* The INFO key has getChannelInfo copy currentChannel onto itself.
CopyField ==
  /\ rc = "copy"
  /\ info' = [info EXCEPT ![rcField] = rcValue]
  /\ rc' = IF rcField = "video" THEN "idle" ELSE "load"
  /\ rcField' = NextField /\ rcValue' = 0
  /\ UNCHANGED request

PressKey ==
  /\ PressUp \/ PressDown \/ (\E d \in Digits : PressDigit(d)) \/ PressInfo
  /\ UNCHANGED <<request, tables, info, flags, player, demuxer, sc, locals, callback, config, main>>

HandleKey ==
  /\ \/ (WrapUp \/ WrapDown \/ Advance \/ LoadField) /\ UNCHANGED <<request, info>>
     \/ StoreProgram \/ RaiseFlag \/ CopyField
  /\ UNCHANGED <<tables, flags, player, demuxer, sc, locals, callback, config, main>>

-----------------------------------------------------------------------------
(* Callback thread of the demultiplexer *)

OnAir(f) == /\ f.table = "PMT" => f.channel # NoPid
            /\ f.table = "EIT" => EventServices # {}

\* Sections of a table repeat for as long as a filter asks for them.
Deliver ==
  /\ demux = "idle" /\ demux' = "arrived"
  /\ section' \in {f \in filters : OnAir(f)}
  /\ UNCHANGED tables

ParsePat ==
  /\ section.table = "PAT"
  /\ \/ /\ demux = "arrived" /\ demux' = "parsing"
        /\ patCount' = 0 /\ UNCHANGED patKnown
     \/ /\ demux = "parsing" /\ patCount < ServiceCount /\ UNCHANGED demux
        /\ patCount' = patCount + 1
        /\ patKnown' = IF patKnown = patCount THEN patKnown + 1 ELSE patKnown
     \/ /\ demux = "parsing" /\ patCount = ServiceCount /\ demux' = "parsed"
        /\ UNCHANGED <<patCount, patKnown>>
  /\ UNCHANGED <<section, pmtTable, events>>

\* Mutant of EmptyPmt: elementaryInfoCount is not reset.
UnclearedPmt(c) == [channel |-> c, count |-> pmt.count]

EmptyPmt(c) == [channel |-> c, count |-> 0]

\* An element goes to the entry behind the last one counted.
WriteElement ==
  elements' = IF pmt.count < Len(elements)
              THEN [elements EXCEPT ![pmt.count + 1] = section.channel]
              ELSE Append(elements, section.channel)

ParsePmt ==
  /\ section.table = "PMT"
  /\ \/ /\ demux = "arrived" /\ demux' = "parsing"
        /\ pmt' = EmptyPmt(section.channel) /\ UNCHANGED elements
     \/ /\ demux = "parsing" /\ pmt.count < Len(Streams[section.channel])
        /\ WriteElement
        /\ pmt' = [pmt EXCEPT !.count = @ + 1] /\ UNCHANGED demux
     \/ /\ demux = "parsing" /\ pmt.count = Len(Streams[section.channel])
        /\ demux' = "parsed" /\ UNCHANGED pmtTable
  /\ UNCHANGED <<section, patCount, patKnown, events>>

\* Mutant of Described: the service of an event section is not compared.
DescribedByAny(s) == TRUE

\* Of the services' event sections only those of pmtTable's are kept.
Described(s) == s = pmt.channel

\* The section of service s writes its first event to entry 0, or leaves the
\* entry alone when it has none.  What the entry then holds is taken over, if
\* it is running, unless the section was too long for the table.
ParseEit ==
  /\ section.table = "EIT" /\ demux = "arrived" /\ demux' = "idle"
  /\ \E s \in EventServices :
       /\ firstEvent' \in {s, NoPid, firstEvent}
       /\ \/ UNCHANGED event
          \/ Described(s) /\ firstEvent' # NoPid /\ event' = firstEvent'
  /\ UNCHANGED <<section, patCount, patKnown, pmtTable>>

Signal ==
  /\ demux = "parsed" /\ demux' = "idle" /\ sc' = Woken(sc)
  /\ UNCHANGED <<section, tables>>

Demux ==
  /\ \/ (Deliver \/ ParsePat \/ ParsePmt \/ ParseEit) /\ UNCHANGED sc
     \/ Signal
  /\ UNCHANGED <<request, info, flags, player, demuxer, locals, remote, config, main>>

-----------------------------------------------------------------------------
(* main: streamControllerDeinit, once the remote thread has been joined *)

\* Mutant of BeginDeinit: threadExit is not raised.
BeginDeinitUnasked ==
  /\ main = "run" /\ rc = "idle" /\ rc' = "gone"
  /\ main' = IF isInitialized THEN "joining" ELSE "failed"
  /\ UNCHANGED <<request, tables, info, flags, player, demuxer, sc, locals,
                 rcValue, rcField, callback, config>>

\* Joining the remote thread leaves no key half handled.  Main gives up when
\* the stream controller is not initialized yet.
BeginDeinit ==
  /\ main = "run" /\ rc = "idle" /\ rc' = "gone"
  /\ IF isInitialized THEN main' = "joining" /\ threadExit' = TRUE
                      ELSE main' = "failed" /\ UNCHANGED threadExit
  /\ UNCHANGED <<request, tables, info, isInitialized, player, demuxer, sc, locals,
                 rcValue, rcField, callback, config>>

FinishDeinit ==
  /\ main = "joining" /\ sc = "ended" /\ main' = "done"
  /\ FreeFilter
  /\ opened' = [k \in Kinds |-> Without(k)[k]]
  /\ isInitialized' = FALSE
  /\ UNCHANGED <<request, tables, info, threadExit, handle, sc, locals, remote, callback,
                 config>>

-----------------------------------------------------------------------------
\* The process ends with main.
Running == main \notin {"failed", "done"}

Next ==
  /\ Running
  /\ \/ StreamThread \/ SpuriousWakeup
     \/ PressKey \/ HandleKey
     \/ Demux
     \/ BeginDeinit \/ FinishDeinit

\* Every thread the kernel can run is run, a handler that began ends, and
\* the broadcast repeats its tables.  Nobody has to press a key.
Fairness ==
  /\ WF_vars(Running /\ StreamThread)
  /\ WF_vars(Running /\ HandleKey)
  /\ WF_vars(Running /\ Demux)
  /\ WF_vars(FinishDeinit)

Spec == Init /\ [][Next]_vars
FairSpec == Spec /\ Fairness

-----------------------------------------------------------------------------
(* Properties *)

StreamPoints ==
  {"patFilter", "patLock", "patWait", "check", "adopt", "rejected", "take", "free",
   "pmtSet", "pmtLock", "pmtWait", "pmtFree", "eitSet", "scan", "read", "video", "audio",
   "storeProgram", "storeAudio", "storeVideo", "storeText", "init", "loop", "ended"}

RemotePoints ==
  {"idle", "up", "down", "increment", "decrement", "store", "raise", "load", "copy", "gone"}

\* Every variable keeps its kind of value: programNumber, and whatever a key
\* handler has loaded, stays above serviceInfoCount's wrap at -2 (or above the
\* number below a configured one) and up to serviceInfoCount.  That is the range
\* of startChannel's argument, not of the PAT's entries: see WaitsAreAnswered.
TypeOK ==
  /\ programNumber \in Programs
  /\ changeChannel \in BOOLEAN
  /\ config \in ConfigPrograms
  /\ lastKey \in Programs \cup {NoKey}
  /\ patCount \in 0 .. ServiceCount
  /\ patKnown \in 0 .. ServiceCount
  /\ pmt \in [channel : Channels \cup {NoPid}, count : Nat]
  /\ elements \in Seq(Channels)
  /\ firstEvent \in Channels \cup {NoPid}
  /\ info \in [Fields -> Programs]
  /\ event \in Channels \cup {NoPid}
  /\ isInitialized \in BOOLEAN
  /\ threadExit \in BOOLEAN
  /\ filterHandle \in Filters
  /\ filters \subseteq Filters
  /\ handle \in [Kinds -> Channels \cup {NoPid}]
  /\ opened \in [Kinds -> Int]
  /\ sc \in StreamPoints
  /\ channelNumber \in Programs
  /\ i \in Nat
  /\ found \in [Elements -> Channels \cup {NoPid}]
  /\ rc \in RemotePoints
  /\ rcValue \in Programs
  /\ rcField \in Copied
  /\ demux \in {"idle", "arrived", "parsing", "parsed"}
  /\ section \in Filters
  /\ main \in {"run", "joining", "failed", "done"}

\* What keeps it there: channelUp and channelDown test one load of
\* programNumber and step from another, and only the configured number can be
\* stored in between.
AdoptedNow == programNumber = config /\ sc \notin BeforeAdoption

KeysInRange ==
  /\ sc = "adopt" => config <= ServiceCount - 2
  /\ sc \notin BeforeAdoption => config <= ServiceCount - 2
  /\ rc \in {"up", "down"} => rcValue = programNumber \/ AdoptedNow
  /\ rc = "increment" => programNumber < ServiceCount
  /\ rc = "decrement" => programNumber > -2 \/ AdoptedNow

\* The loop over pmtTable reads only entries some section has filled, whatever
\* happens between its test of elementaryInfoCount and its read: also when a
\* callback that outlived its filter empties the table and fills it anew, from a
\* shorter PMT, in between (stream_controller.c:266-268, table_parser.c:244-271).
ScanInTable == sc = "read" => i < Len(elements)

\* The channel of the last key press is not lost: whenever nothing is left to
\* do (the flag is down, no key is half handled, startChannel was called) the
\* channel being shown is the one the last key asked for, although the flag and
\* the number are two unprotected globals.  Clearing the flag before reading the
\* number (stream_controller.c:501-502) and storing it before raising the flag
\* (lines 105-115) is what makes it so.  A key pressed before line 489 is
\* overruled by the configured number, which is then what has been asked for.
CalledStartChannel ==
  {"free", "pmtSet", "pmtLock", "pmtWait", "pmtFree", "eitSet", "scan", "read", "video",
   "audio", "storeProgram", "storeAudio", "storeVideo", "storeText", "init", "loop", "ended"}

AskedFor == IF lastKey = NoKey THEN config ELSE lastKey

NoLostZap ==
  sc \in CalledStartChannel /\ ~changeChannel /\ rc # "raise" => channelNumber = AskedFor

\* Resources do not leak across zaps, failed calls included: one filter at
\* most delivers and it is the one filterHandle frees, each stream that exists
\* in the player is the one its handle removes, and nothing is left after
\* streamControllerDeinit.
Owned(k) == IF handle[k] = NoPid THEN 0 ELSE 1

OnlyOwnedResources ==
  /\ filters \subseteq {filterHandle}
  /\ main # "done" => \A k \in Kinds : opened[k] = Owned(k)
  /\ main = "done" => filters = {} /\ \A k \in Kinds : opened[k] = 0

\* The hand-over of a channel through programNumber and changeChannel is the
\* one LatestRequest promises.
Requests == INSTANCE LatestRequest WITH
  Value <- Programs,
  posted <- programNumber,
  pending <- changeChannel \/ rc = "raise" \/ sc \notin CalledStartChannel,
  served <- channelNumber

HandsOverLatest == Requests!Spec

-----------------------------------------------------------------------------
(* Properties of a quiet run: nothing outside fails, only channels on air   *)
(* are asked for, and INFO is not pressed.                                  *)

\* The wait at stream_controller.c:240-247 has no predicate, yet the loop over
\* pmtTable reads the complete PMT of the channel being started, never the
\* previous channel's and never one being parsed again.  What it takes is that
\* no wait returns on its own and that freeing a filter waits for callbacks.
FreshPmt ==
  sc \in {"scan", "read"} =>
    /\ pmt = [channel |-> channelNumber, count |-> Len(Streams[channelNumber])]
    /\ sc = "read" => elements[i + 1] = channelNumber

\* INFO and the banner tell the truth: once startChannel has returned,
\* currentChannel names the channel started last, and a stream it names is the
\* one the player plays.
InfoMatchesPlayer ==
  sc = "loop" => /\ info["program"] = channelNumber
                 /\ \A k \in Kinds : info[k] # NoPid => info[k] = handle[k]

\* What is stored is what the channel's own PMT says: after any sequence of
\* zaps currentChannel has a pid of each kind the channel started last
\* carries, one of its own, and teletext if it carries that, and none of a kind
\* it does not carry, nothing of an earlier channel or an earlier loop over
\* pmtTable being left.
Carried(k) == \E j \in 1 .. Len(Streams[channelNumber]) : Streams[channelNumber][j] = k
OwnPid(k) == IF Carried(k) THEN channelNumber ELSE NoPid

InfoTellsPmt == sc = "loop" => \A k \in Elements : info[k] = OwnPid(k)

\* startChannel never waits for a PMT nobody sends: the wait at
\* stream_controller.c:240-247 has no timeout, so whatever the keys have made
\* of programNumber by then must have led to the pid of a PMT on air, and the
\* filter on it must be the one in force.
WaitsAreAnswered ==
  sc \in {"pmtLock", "pmtWait"} =>
    channelNumber \in Channels /\ filters = {PmtFilter(channelNumber)}

\* A configured channel is adopted only if the PAT describes it, and refused
\* ("Config channel doesn't exist!") only if the PAT does not or the callback
\* thread is counting the PAT anew at that moment: a count that is never ahead of
\* the section and falls back only while one is parsed.  A negative number, which
\* the test of stream_controller.c:484 has no bound for, is adopted unseen.
ConfigCheckTellsTruth ==
  [][sc = "check" /\ sc' # sc =>
       \/ sc' = "adopt" /\ (config \in Channels \/ config < 0)
       \/ sc' = "rejected" /\ config \notin Channels
       \/ sc' = "rejected" /\ demux = "parsing" /\ section.table = "PAT"]_vars

\* The event of a section is never taken for a channel other than the one shown
\* and the one being started.  What a section without events makes the program
\* take over is what an earlier section, of whatever service, left in entry 0
\* of eitTable (stream_controller.c:562-564).
EventFollowsChannel ==
  [][event' # event =>
       \/ event' \in {info["program"], channelNumber}
       \/ event' = firstEvent /\ UNCHANGED firstEvent]_vars

\* A zap is picked up, also when keys keep coming while channels are started.
ZapServed == changeChannel ~> (sc = "take" \/ threadExit)

\* startChannel returns: a PMT section that came before the thread waits is
\* lost, but the next one wakes it.
StartCompletes == sc = "take" ~> (sc = "loop" \/ main = "failed")

\* EXIT ends: the stream thread sees threadExit and the join returns.
DeinitCompletes == main = "joining" ~> main = "done"

-----------------------------------------------------------------------------
(* What the repository says of itself and the code does not do *)

\* stream_controller.c:226 "Creates streams with current channel audio and
\* video pids": when startChannel has returned, the player plays the streams
\* of the current channel and no others.
PlaysCurrentChannel ==
  sc = "loop" => \A k \in Kinds : handle[k] = info[k]
=============================================================================
