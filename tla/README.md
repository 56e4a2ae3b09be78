# Verification of the set-top player

TLA+ models, TLC runs and TLAPS proofs for the DVB player in `src/`: a small C
program that reads remote control keys, tunes, parses PAT, PMT and EIT sections,
plays the chosen channel through the `tdp_api` library and draws on the screen
with DirectFB.

## 1. The system

### Parts, state, operations

| Part | Source | State it keeps | Operations |
|---|---|---|---|
| Main | `main.c` | `deinitCond` | start the modules, wait for EXIT, stop them; the key callback |
| Remote controller | `remote_controller.c` | `threadExit`, `callback` | its thread reads input events and calls `remoteControllerCallback` in `main.c` |
| Stream controller, keys | `stream_controller.c:103-222` | `programNumber`, `changeChannel`, `volumeLevel`, `volumeMute`, `changeVolume`, `currentChannel` | `channelUp`, `channelDown`, `channelSwitch`, `volumeUp`, `volumeDown`, `mute`, `getChannelInfo` |
| Stream controller, thread | `stream_controller.c:46-101`, `224-526` | the tables, `filterHandle`, `streamHandleA/V`, `isInitialized`, `threadExit` | bring-up, `startChannel`, the main loop, `streamControllerDeinit` |
| Section callback | `stream_controller.c:528-629` | `patTable`, `pmtTable`, `eitTable`, the event in `currentChannel` | `sectionReceivedCallback`, `getEvent` |
| Table parser | `table_parser.c`, `tables.h` | none of its own | `parsePatTable`, `parsePmtTable`, `parseEitTable` |
| Graphic controller | `graphic_controller.c` | five request flags, the arguments to draw, the timer | `drawCnannel`, `drawVolumeLevel`, `drawInfoBanner`; its thread draws, the timer's thread wipes |
| Configuration parser | `config_parser.c` | none; fills `config` of the stream controller | `parseConfigFile` |
| External | - | filters, player streams, tuner, surfaces | `tdp_api`, DirectFB, pthread |

### How the parts interact

Six threads share plain globals: main, the remote thread (all keys run in it),
the stream thread, the library's section callback thread and its tuner
callback, and the graphics thread with the thread its timer starts.

* remote -> stream: `programNumber` and `changeChannel`, `volumeLevel`,
  `volumeMute` and `changeVolume`. No lock; the stream thread polls.
* callback -> stream: the tables, and `demuxCond` under `demuxMutex`. The
  mutex protects nothing but the signal; the tables are written outside it, and
  neither wait tests a predicate.
* stream and callback -> remote: `currentChannel`, field by field, no lock.
* remote and stream -> graphics: request flags and arguments, no lock.
* main -> everybody: `threadExit` flags and joins; the callback pointer of the
  remote thread, stored after that thread runs; the path of the configuration
  file, copied after the thread that opens it runs.
* remote -> main, tuner -> stream: a condition variable each, signalled under its
  mutex and waited for without a predicate.

The makefile builds without optimisation for a single-core ARMv5TE, so a load or
store of an aligned `int`, `bool` or pointer happens in program order and at
once: the models interleave loads and stores, and do not reorder them. A
read-modify-write such as `programNumber++` is a load and a store.

### What is hard, and what makes each part correct

* *Zapping.* A flag and a number, unprotected, must hand over the last channel
  asked for; `startChannel` must read the PMT of the channel it started and not
  the one before, although it waits without a predicate; filters and streams
  must not leak when a call in the middle fails; what INFO shows must be what
  plays; every zap must be served and EXIT must end.
* *Volume.* A key must not be lost between the flag and the two variables, and
  the player must end at the level the keys asked for.
* *Graphics.* A request made while another is drawn must not be lost; what was
  drawn must be wiped.
* *Start and stop.* Keys before the modules are up, EXIT before main waits,
  a tuner that locks before the wait, joining threads that are blocked.
* *Sections.* The parsers must stay inside the section and inside their tables.

The modules meet in few places, which is why they can be models of their own:
zapping never reads what volume and drawing write, volume needs of zapping only
that `startChannel` returns (`StartCompletes`), drawing needs only that a channel
has been started, and the threads of `Lifecycle` need of all of them only that a
module that is up runs until its `threadExit` (`DeinitCompletes` of each).
`Lifecycle` is composed with `ConfigParser`, whose steps its stream thread takes
among those of all other threads; `StreamController` is shown to implement
`LatestRequest`. `PROJECT.json` lists every hazard with its line.

## 2. Modules

| Module | What it is |
|---|---|
| `LatestRequest` | abstract: a client posts values, a server takes the newest |
| `StreamController` | zapping: key handlers, stream thread, callback thread, deinit |
| `MCStreamController` | the streams of three channels, for TLC |
| `StreamControllerProofs` | theorems about `StreamController` |
| `VolumeControl` | the volume keys and the volume half of the main loop |
| `VolumeControlProofs` | theorems about `VolumeControl` |
| `GraphicController` | draw requests, drawing loop, timer and wipe, deinit |
| `GraphicControllerProofs` | theorems about `GraphicController` |
| `ConfigParser`, `ConfigParserProofs` | the configuration file read token by token, and theorems |
| `Lifecycle` | main, remote thread, bring-up, tuner callback and the deinit calls; extends `ConfigParser` |
| `MCLifecycle`, `LifecycleProofs` | five configuration files for TLC; theorems |
| `TableParser` | the walks over PAT, PMT and EIT sections and the event taken over |
| `MCTableParser`, `TableParserProofs` | twelve sections for TLC; theorems |

### StreamController

One variable per global, plus the control points `sc` (stream thread), `rc`
(remote thread), `demux` (callback thread), `main`, and the locals that live
across a step. `filters` and `opened` are what the library holds: the filters
that still deliver and the number of player streams of each kind; they are
compared with the handles the program holds.

| Code | Model |
|---|---|
| PAT filter and wait, 457-480 | `SetPatFilter`, `BeginWait`, `Signal`, `SpuriousWakeup` |
| configured channel, 484-495 | `CheckConfigProgram`, `AdoptConfigProgram`, `FinishInit` |
| main loop, 497-504 | `ClearRequest`, `TakeChannel`, `LoopExit` |
| `startChannel`: filters and waits | `FreeOldFilter`, `SetPmtFilter`, `BeginWait`, `SetEitFilter` |
| `startChannel`: loop over `pmtTable` | `TestElement`, `ReadElement`, `EndScan` |
| `startChannel`: streams, result | `StartVideo`, `StartAudio`, `StoreInfo` |
| `channelUp`, `channelDown`, `channelSwitch` | `PressUp/PressDown/PressDigit`, `WrapUp/WrapDown`, `Advance`, `StoreProgram`, `RaiseFlag` |
| `getChannelInfo` of the INFO key | `PressInfo`, `LoadField`, `CopyField` |
| `sectionReceivedCallback` and the parsers it calls | `Deliver`, `ParsePat`, `ParsePmt`, `ParseEit`, `Signal` |
| `streamControllerDeinit`, from main | `BeginDeinit`, `FinishDeinit` |
| the same, from the stream thread on a failed stream | second disjunct of `ReplaceStream` |

Two accesses are one step only where no other thread writes what the first one
reads before the second could notice. An entry of a table is written and read in
one step; a count and the entry it lets through are two, so a callback that
outlived its filter can empty and refill `pmtTable` between the test of
`elementaryInfoCount` and the read. A pid is named by the channel that carries it;
a section is the filter that asked for it; the elements of a PMT are `Streams[c]`.
The parsers are seen through what they leave in the tables step by step: a count
reset, then one entry at a time, with `elements` naming the section that wrote
each entry last.

`startChannel` indexes the PAT with `channelNumber + 1` and no test. `PmtPids` is
what that read may give: a channel's pid for an entry a PAT has filled, no PMT for
entry 0, entries nobody has filled and the bytes just in front of the array, any
pid for what lies before the table (a negative configured number).
`configProgramNumber` is an `int16_t`; `ConfigPrograms` is any set of them but
-32768, from which `programNumber--` would wrap. `eitTable` is seen through its
entry 0: an event section writes it, or leaves it alone when it has no event, and
what it then holds is what the program takes over.

`lastKey` is a history variable: the number the last key stored since the
configured one was adopted. No guard reads it.

`Env` names what may go wrong around the program (spurious wake-ups, a callback
that outlives its filter, failing calls, configured pids that are not on air,
keys during bring-up); a run says which of them it allows.

The bring-up before the PAT filter (allocation, tuner, configuration file,
player) is in `Lifecycle`; `Init` is the state after it. Drawing and the sleep at the end of `startChannel` change no
state that is read back.

### VolumeControl

`volumeUp`, `volumeDown` and `mute` step by step against the stream thread's
loads and stores; `startChannel` appears as the control point in which the
stream thread does not look at the volume. `applied` is the level last given to
the player.

### GraphicController

`state` holds the three request flags the code uses (`drawBlackScreen` and
`refreshScreen` of `ScreenState` are never read). The stream thread asks for the
channel number and then the banner, the remote thread for the banner (INFO) or
the volume symbol. Of the arguments only the level is kept.

| Code | Model |
|---|---|
| `drawCnannel`, `drawInfoBanner`, `drawVolumeLevel` and their callers | `ChannelStarted`, `AskForBanner`, `PressInfo`, `PressVolume`, `AskForVolume` |
| `graphicControllerTask` up to the loop | `Boot` |
| its loop | `TestExit`, `LookAtFlag`, `NextSection`, `LowerFlag` |
| `refreshScreen` | `Clear`, `ShowBlank` |
| `drawProgram`, `drawBanner`, `drawVolumeSymbol` | `SetPaint`, `Draw`, `Show`, `ArmTimer` |
| timer and `wipeScreen` | `Expire`, `WipeColour`, `WipeFill`, `WipeFlip` |
| a wipe after `primary->Release` | `WipeReleased` |
| `graphicControllerDeinit` | `BeginDeinit`, `DeleteTimer`, `Release` |

A buffer is the set of kinds drawn on it. Whether DirectFB swaps or copies on
`Flip` is not in the repository, so `swaps` is chosen once, in `Init`. The colour
belongs to the surface and both threads set it: between `WipeColour` and
`WipeFill` the graphics thread may set one of its own, and the wipe then fills
the buffer with it (`"flood"`). `colour` is followed only there, since everybody
else sets a colour in the same step in which the model lets it be used. A wipe is
assumed to end before the next expiry, three seconds later. With `TimerMayFail`,
`timer_settime` may return an error, after which the timer is as it was; the code
prints a message and goes on. `shown` and `excused` are history variables for the
properties; no guard reads them.

### Lifecycle and ConfigParser

One control point per thread: `main`, `rc`, `sc`, `gc` and `tuner`. `held` counts
how often each table, the tuner, the player and the source is held, so that
releasing too often shows as a negative number; `crashed` is set by a handler
that goes through a pointer that is NULL or freed, and ends the process, as a
return of `main` does. `Env` says what may go wrong. The waits for sections are
points of their own where nothing need end them: `"noPat"`, the wait for a PAT when
setting its filter or registering the callback failed (the code goes on to wait),
and `"unanswered"`, `startChannel` waiting for the PMT of a number the PAT does not
list, asked for by a key (`unlisted`) or by a negative number in the file.

| Code | Model |
|---|---|
| `main`, start | `StartRemote`, `RegisterCallback`, `StartStream`, `CopyPath`, `StartGraphic`, `WaitForExit` |
| `ERRORCHECK` | `Fails`, and the `"failed"` branches of the deinit actions |
| `main`, stop, with the deinit calls | `StopGraphic`, `JoinGraphic`, `Unregister`, `StopRemote`, `JoinRemote`, `StopStream`, `JoinStream` |
| `inputEventTask`, `getKey` | `OpenInput`, `TestRemoteExit`, `ReadEvent`, `CallHandler` |
| `remoteControllerCallback` | `SignalExit` (EXIT), `ReadTables` (channel keys) |
| `streamControllerTask`, 354-455 | `Allocate`, `InitTuner`, `OpenConfig`, `ParseConfig`, `CloseConfig`, `Tune`, `WaitForTuner`, `TimeOut`, `InitPlayer`, `OpenSource`, with `GiveUp` for the error paths |
| the same, 457-526 | `StartConfigured`, `AwaitUnlisted`, `SpuriousAnswer`, `LeaveLoop`; in detail in `StreamController` |
| `streamControllerDeinit` called from `startChannel` | `StopItself` |
| `tunerStatusCallback` | `TunerLocks`, `SignalLock` |
| `graphicControllerTask` | `BootGraphic`, `LeaveGraphicLoop`; in detail in `GraphicController` |
| `parseConfigFile` | `ReadTag`, `ReadSeparator`, `ReadValue` |
| `parseAttribute`, `getAttributeValue` | `Assign`, `Stored` |

A token of the configuration file is its text and the number its leading digits
spell; `fscanf("%s")` at the end of the file leaves its buffer alone, and the last
token is read together with the end of the file unless white space follows it.
The file cannot be opened when it is not there, also with a completely copied path.
A key of the volume or of INFO touches nothing that can be missing and is one
event, `callOther`.

### TableParser

All steps are those of the library's callback thread. A section is its layout:
where each entry starts and how long it is, which `SectionsAssumption` says for
every section the way the DVB standard lays sections out, with `HeaderBytes` and
`EntryBytes` independent of the constants the code adds up (`First`, `Passed`,
`Size`). The tables keep what earlier sections left in them.

| Code | Model |
|---|---|
| dispatch in `sectionReceivedCallback`, the headers | `Arrive`, `ReadHeader` |
| the loops of `parsePatTable`, `parsePmtTable`, `parseEitTable` | `ReadEntry`, `FillEntry`, `Advance`, `Refuse` |
| the descriptor loop of `parseEitEventInfo` | `OtherDescriptor`, `ShortEventDescriptor`, `Skip`, `EndEvent` |
| the end of the callback and `getEvent` | `Finish`, `StartTime`, `Digits` |

A name is the event and the offset it was read from rather than its letters. What
the walk reads behind an event's descriptors is any byte of `Following`.

## 3. Runs

| Run | Asks | Bounds |
|---|---|---|
| `zap_quiet` | is every zap served with the right tables, reported with the pids and teletext its PMT carries, never waiting for a PMT nobody sends, and an implementation of `LatestRequest`? | 3 channels (television, radio, audio before video with teletext), event sections of two of them, with and without an event, a configured channel on air and one off air, P+, P-, two number keys, no trouble |
| `zap_interleaved` | can any interleaving lose a zap, drive `programNumber` out of its range, or read an element no section wrote? | 2 channels, P+, P- and a number above the last channel, a configured number on air and one below -2, spurious wake-ups, late callbacks, early keys |
| `zap_failures` | do failing calls leak filters or streams, and does EXIT still end? | 2 channels, failing filter and stream calls, foreign pids |
| `volume` | is a press of V+, V- or MUTE ever lost other than to silence, and is the flag always seen? | 4 levels |
| `graphics` | does anything stay on the screen, is the volume drawn, does EXIT end, is the surface released last? | one level (what is drawn does not matter, only when), both kinds of flip, a timer that cannot be created or not be set |
| `lifecycle` | is everything released once, do handlers find their state, does main join only threads that end, does EXIT end, is the configuration what the file says? | every kind of trouble at once, five configuration files, any number of key presses, numbers the PAT does not list among them |
| `tables` | are sections walked entry by entry, does every walk end, is the event its own? | tables of 2 entries; 12 sections: empty, full and too long, with and without descriptors, every shape of descriptor loop the walk tells apart; any order, any number |
| `info_key`, `unlisted_channel`, `radio_channel`, `mute_race`, `draw_lost` | the disagreements of section 6 | as small as shows them |

There is no bound on the number of key presses, sections or zaps: the
state space is finite because every variable is. Three channels are the
fewest with a channel that is neither first nor last; the
PMTs have the shapes the code distinguishes (no video, video first, audio first,
an element of neither kind). More levels of volume add nothing but more of the
middle. A table of two entries can be empty, partly filled, full and too small,
which is all the limit of 20 is compared with. The trouble of zapping is spread
over runs because each kind multiplies the states and each question needs only its
own.

Deadlock is not checked in the zapping, graphics and lifecycle runs: the process
ends with main, and `Next` is guarded by `Running`. That the threads do not wait for each
other for ever is `StartCompletes`, `DeinitCompletes` and `ExitCloses`.

### Properties

* `NoLostZap`: with the flag down and no key half handled, the channel started
  last is the one the last key asked for. It rests on the order of two stores in the
  keys (105-115) and of a store and a load in the loop (501-502). A key handled
  before line 489 is overruled there: its flag then starts the configured channel
  again. The property says so by asking for the configured number until a key
  stores after line 489; a key half handled at that line is not lost.
* `HandsOverLatest`: the same as a refinement of `LatestRequest`: nothing but
  the newest value is ever served.
* `FreshPmt`: the loop over `pmtTable` reads the complete PMT of its own channel.
  It needs that no wait returns on its own and that freeing a filter waits for
  the callback; `zap_interleaved` allows both to fail and does not check it.
* `InfoMatchesPlayer`: what INFO names is what plays.
* `EventFollowsChannel`: the event a section carries is stored only for the channel
  shown or the one being started. The exception is the code's: after a section of
  `pmtTable`'s service without events, `currentChannel` gets what an earlier section,
  maybe another service's, left in entry 0 of `eitTable` (562-564).
* `InfoTellsPmt`: besides, a pid is named for exactly the kinds the channel's PMT
  lists, and teletext if it lists that, so nothing of an earlier channel or of an
  earlier loop over `pmtTable` is left in `currentChannel`.
* `WaitsAreAnswered`: while `startChannel` waits, the number the keys have made of
  `programNumber` is that of a channel and the filter on its PMT is the one in
  force, so the index into `patServiceInfoArray` at line 234 is an entry of the
  section. It needs keys after the bring-up and numbers on air, the configured one
  included; otherwise the code does index past the filled entries or in front of
  them (`PmtPids`), and `unlisted_channel` shows the wait that is not answered.
* `OnlyOwnedResources`: one filter at most and it is the one `filterHandle`
  frees; streams in the player are exactly those the handles remove.
* `ConfigCheckTellsTruth`: the configured channel is adopted only if the PAT
  describes it and refused only if it does not or the PAT is being counted anew.
  The exceptions are the code's: a PAT section that arrives during the check can
  have a channel on air refused with "Config channel doesn't exist!"
  (`stream_controller.c:484`), and a negative number, which a value above 32767 in
  the file becomes, is adopted although the PAT has no such channel.
* `TypeOK` of the zapping runs says how far `programNumber` may go: from -2, or one
  below a negative configured number, up to `serviceInfoCount`.
* `ScanInTable`: the loop over `pmtTable` reads only entries a section has written,
  also when the table is emptied and filled anew from a shorter PMT between the
  test of the count and the read.
* `ZapServed`, `StartCompletes`, `DeinitCompletes`, `VolumeServed`,
  `VolumeDrawn`, `ExitCloses`, `TunerCallbackReturns`, `ParseEnds`: liveness.
* `NothingStays`: a visible banner, volume symbol or screen filled with a drawing
  colour has a timer armed or about to be, or a wipe on its way, or is about to be
  released. The two exceptions the property names are real. After a
  `timer_settime` that failed the picture stays until the next drawing. And a wipe
  may overlap the drawing of a channel number: without that exception TLC finds,
  when flips swap, two flips that cancel and bring an old picture back with no
  timer left.
* `SurfaceOutlivesUsers`: the thread is joined before the timer is deleted and
  the timer deleted before the surface is released, so after the release no wipe
  begins. One that has begun is not waited for, and the property says so.
* `ReleasedOnce`: the error paths of the bring-up and the deinit release the same
  resources, each its own selection; none is released twice.
* `KeysFindTheirState`: handlers run from the creation of the remote thread to its
  end. It names the windows in which they do not find what they need: before main
  stores the callback, before the PAT is allocated, and after a failed bring-up has
  freed it. During shutdown there is none, because the remote thread is joined
  before the stream controller is stopped.
* `JoinsCanReturn`: main joins only threads that have come up, loop or have left the loop, and
  whose `threadExit` is raised: what of `ExitCloses` is safety. `isInitialized`
  of the two deinit calls is what makes it so. The join then returns unless the
  stream thread is at `"unanswered"`, where it does not look at `threadExit`.
* `CleanExit`, `ExitCloses`: when main returns 0 all threads have ended and
  nothing is held; an EXIT that main waits for, with both modules up, gets there.
  The exception `ExitCloses` names is a stream thread that waits for the PMT of an
  unlisted number; main then stays in its join, and this is the only such way. An
  EXIT pressed before main waits is lost, and one pressed when a module is not
  up ends the process at once; neither is covered by `ExitCloses`.
* `TunerCallbackReturns`: the tuner's callback is never stuck, except after the
  timeout, when the thread has left with `statusMutex` locked. A tuner that locks
  before the thread waits is not heard and reported as a timeout.
* `ConfigFollowsFile`: the configuration is what the lines of the file say,
  wherever the file ends. The loop counts tokens, tests the end of the file before
  it reads and looks at no result, so this is about the end of the file, lines
  repeated and names unknown. A last line without its value, with white space after
  its separator, repeats the value of the line before; with no line before it stores
  what the uninitialized buffer holds, which is the one exception. A token missing
  in the middle of a file makes the lines other lines, and the property is about
  those.
* `WalkOnEntries`, `TableIsSection`: for as long as a parser goes on it stands at
  the start of an entry; if it succeeds the table is the section, if it does not
  the section had too many entries.
* `EventIsOwn`: the event taken over has the time and the name its own section gives
  it. The exceptions are named: a section without events takes over an old one, an
  event without a name gets an old name, and text with a byte 0x4D in it may be
  taken for a descriptor, because the walk skips by the length of the text.
* `ParseEnds`: no descriptor length holds the walk in place.
* `NeverLouder`, `RightOrSilent`: once settled, the player is not louder than asked
  for, and if it is not at the level asked for it is silent, never at a level in
  between; a player never told a level has had no key.

### Fairness

Weak fairness of the stream and graphics threads, of an armed timer and the wipe
it starts, of the key handler once a key is being handled, of the callback
threads, and of main, which in `StreamController`, `VolumeControl` and
`GraphicController` need not press EXIT. The kernel runs every runnable thread; a
handler contains no loop that waits; a broadcast repeats its tables for as long as
a filter asks for them (this is the only reason a lost signal is harmless, and
`unlisted_channel` shows what happens when there is no table to repeat). No
fairness on key presses: the viewer may stop. The one exception is `Input` of
`Lifecycle`, without which `ExitCloses` is false: the remote thread sees
`threadExit` only after another event, so a viewer who touches no key keeps main
waiting, and the device is taken to deliver events for ever. No fairness makes an
unanswered wait end. The condition wait of the
tuner has a deadline, so `TimeOut` is a step of the stream thread. Nothing is
assumed of spurious wake-ups and failing calls.

## 4. Proofs

34 theorems, in seven modules. They hold for every `ServiceCount` in 2..20, every
assignment of streams to channels, every set of keys and, where not said
otherwise, every configured `int16_t` but the least and every subset of `Trouble`; for
every `MaxLevel`; for every set of levels drawn; for every set of configuration files; for every set of sections laid
out as `SectionsAssumption` says and every size of the tables.

| Theorem | Says | Argument |
|---|---|---|
| `StreamControllerProofs!TypeCorrect` | `TypeOK` | inductive with `KeysInRange` (what a half-handled key has tested against what it steps from, unless the configured number came in between) and `TablesInv` (what the parser may still write); `TypeOK` alone is not inductive because `programNumber++` loads a second time |
| `ZapNotLost` | `NoLostZap` | `AskedInv`: from line 489 on `programNumber` is what the last key stored, or the configured number; `Served`: with nothing pending the channel started is `programNumber` |
| `HandOver` | refinement of `LatestRequest` | every step maps to a post, a take or a stutter (`HandOverStep`) |
| `ResourcesOwned` | `OnlyOwnedResources` | `ResourceInv`: between freeing and setting a filter nothing delivers, so setting one never strands another |
| `PmtIsFresh` | `FreshPmt`, under `Undisturbed` and `Configured` | `SectionInv`: while the PMT filter is in force every section on its way is its channel's |
| `LatestRequest!AlwaysSettled` | nothing pending implies the newest is served | inductive as it stands |
| `VolumeControlProofs!TypeCorrect`, `NeverTooLoud` | `TypeOK`; `NeverLouder` if the player accepts volumes | `NotLouderInv` says for each control point what the player will have been told when the pending work is done |
| `EndsRightOrSilent` | `RightOrSilent` if the player accepts volumes | `RightInv`: with no request on its way, a thread about to apply a level applies the intended one |
| `PlaysIntendedUnmuted` | `PlaysIntended` as long as MUTE is not pressed (`[][~Mute]_vars`) | `UnmutedInv`: nobody is about to silence the player. It bounds the finding `mute_race`: MUTE is its only cause |
| `GraphicControllerProofs!TypeCorrect`, `NothingOnScreenStays` | `TypeOK`; `NothingStays`, for either kind of flip | `ScreenInv`: while nothing covers what is visible, an idle wipe means a clean front buffer, a wipe about to flip a clean back buffer, and a channel number is being drawn on clean buffers; a foreign colour during a wipe means a drawing that will arm the timer or an excuse |
| `ReleasedLast` | `SurfaceOutlivesUsers` | `ReleaseInv`: from the deletion of the timer on the thread has ended and the timer is off |
| `LatestVolumeShown` | `ShowsLatestVolume` as long as no volume key is pressed while `LevelRead` | `LatestInv`: the level read for a drawing is the newest, and one not shown is still asked for. It bounds the finding `draw_lost`: from the load of the level to the lowering of the flag is the one window in which a request is lost |
| `ScanStaysInTable` | `ScanInTable` | `TablesInv`: an element tested is one counted, a table's count never passes the entries written, and these never become fewer |
| `CheckIsTruthful` | `ConfigCheckTellsTruth`, under `Undisturbed` | `CountInv`: the count is the section's unless a PAT is being parsed |
| `InfoIsTruthful` | `InfoMatchesPlayer`, under `Calm` | `InfoInv`: at each step of `startChannel`, which of the fields, locals and handles already belong to the new channel |
| `InfoIsThePmt` | `InfoTellsPmt`, under `Undisturbed`, `Configured` and `Calm` | `ScanInv`: what the loop has found so far is what the first `i` elements of the channel's own PMT carry, so at its end the locals, and then the fields, say what is carried. `InfoMatchesPlayer` alone would hold of a loop that finds nothing |
| `FullChannelsPlay` | `PlaysCurrentChannel`, under `Undisturbed`, `Configured` and `Calm`, if every channel carries video and audio | from `InfoInv`, `ScanInv` and `TunedInv` (only a channel on air is shown). It bounds the finding `radio_channel`: a kind not carried is its only cause |
| `EventsFollow` | `EventFollowsChannel`, under `Undisturbed`, `Configured` and `Announced`, with any call failing | `EventInv`: while event sections may come, `pmtTable` is that of the channel announced; inductive with `SectionInv` and `ResourceInv`, which say when they may |
| `WaitsAnswered` | `WaitsAreAnswered`, under `Undisturbed`, `Configured` and `OnAirKeys`, with any call failing | `OnAirInv`: once the PAT is counted, `programNumber` and whatever a half-handled key is about to store are channels; the wrap at `serviceInfoCount - 2` is what keeps them there |
| `ConfigTypeCorrect`, `FileIsFollowed` | `ConfigTypeOK`, `ConfigFollowsFile` | `LoopInv`: after every line the configuration follows the lines read so far, the tag in hand is the next line's and the value in hand the last one's |
| `LifecycleTypes`, `EverythingReleasedOnce` | `TypeOK`, `ReleasedOnce` | `HeldInv`: what is held follows from the point the stream thread has reached, until it gives up or main has stopped it |
| `KeysAreSafe`, `ExitIsClean` | `KeysFindTheirState`, `CleanExit` | `OrderInv`: from what main has done so far follows which threads have ended, and that it only stops a controller that has come up |
| `JoinsReturn` | `JoinsCanReturn` | `JoinInv`: a `threadExit` raised stays raised, and graphics that are up have been created once; with `OrderInv`. That a stream thread at `"unanswered"` never ends is the named exception |
| `PlayerReadsConfig` | `Spec => ConfigSpec` | refinement: every step of `Lifecycle` is a step of `ConfigParser` or leaves its variables alone (`ConfigSteps`) |
| `PlayerFollowsFile` | `ConfigFollowsFile` of `Lifecycle` | every step of `Lifecycle` is a step of `ConfigParser` or leaves it alone |
| `ParserTypes`, `WalkStaysOnEntries`, `TablesAreSections` | `TypeOK`, `WalkOnEntries`, `TableIsSection` | `WalkInv`: position and parsed length are those of the entry after the ones counted, and what is counted is a prefix of the section; `EventInv`: an event under way is the next one |
| `EventsAreOwn` | `EventIsOwn` | `Read` and `Approach`: for as long as no text was taken for a descriptor, the walk stands at the start of a descriptor of `EventLaidOut`, and before the first short event descriptor it has not passed the name; `NameInv`, `IdInv`: the name and the times in the table are those of the events they were read from; `DigitsOfStart`: shifting and masking a start time gives its four digits |

`Undisturbed` is: no spurious wake-up, no late section. `Configured`: no configured
number is negative, so none in the file is above 32767. `Calm`: no
failing call, the configured pids on air, INFO not pressed; `Announced`: the last
two of these. `OnAirKeys`: keys after the bring-up, number keys of channels. The two
theorems about what the player plays assume `~SetMayFail`.
The code relies on these and does not ensure them; the runs of section 6 show
what happens when INFO, a number above the last channel or MUTE is pressed. After a
spurious wake-up, a late section or with a negative configured number the code does
read a PMT that is not the channel's: `zap_interleaved` and `ScanStaysInTable` say
what then remains. `zap_quiet`
checks the same properties on a PAT that meets all of them. The strengthenings are
definitions of the proof modules and have no runs of their own.

The layout of sections is an assumption on what is broadcast
(`SectionsAssumption`), not on the code: it says where the standard puts an entry
and a descriptor, never what the parsers compute. The bytes of a descriptor are
arbitrary.

Only model-checked: the liveness properties, since fairness is out of the prover's
reach. Every invariant and every action property of a passing run, and the
refinement of `LatestRequest`, is the conclusion of a theorem above.

## 5. Not modelled

* Pixels, fonts and images; what a banner or a channel number says, and so a
  banner that mixes the arguments of two requests (`graphic_controller.c:85-91`);
  a call of DirectFB that fails, which ends the process in `DFBCHECK`.
* Messages printed; `print*Table`, which nobody calls.
* In a section: bit fields of the headers and entries that are stored as they are,
  and checksums, which the code does not look at either.
* A configured number of -32768, from which `programNumber--` wraps.
* An entry of a table that is overwritten while it is read, byte by byte: an entry is
  written and read in one step.
* The sizes of `val` (`config_parser.c:140`), `eventName` (`tables.h`) and the copy
  of 50 bytes in `getEvent` (`stream_controller.c:628`): what lies behind a buffer
  is the compiler's choice. Numbers and names are modelled as if they fitted.
* `tdp_api`, DirectFB and pthread are not in the repository; filters, streams, the
  tuner and condition variables behave the way the code uses them.

## 6. Findings

Each is a run that ends in a violation. The theorem in brackets says under which
condition the property holds, for all values of the constants; of the liveness that
`unlisted_channel` breaks, it states what is safety.

* `info_key` (`InfoIsTruthful`): INFO has `getChannelInfo` copy `currentChannel` onto itself
  (`main.c:88`, `stream_controller.c:217`); a field the stream thread stores
  between the load and the store back is undone and stays wrong.
* `unlisted_channel` (`WaitsAnswered`): `channelSwitch` accepts two numbers above the last channel
  (`stream_controller.c:141`); no PMT comes, the wait has no timeout, and the
  join of EXIT never returns.
* `radio_channel` (`FullChannelsPlay`): a channel without video removes the audio stream and keeps
  the previous picture (`stream_controller.c:315`).
* `mute_race` (`PlaysIntendedUnmuted`): V+ and V- raise the flag before they clear the mute
  (`stream_controller.c:166`, `183`); the stream thread may mute once more.
* `draw_lost` (`LatestVolumeShown`): the drawing loop clears a request flag after it has drawn
  (`graphic_controller.c:142`, `150`, `158`); a level asked for meanwhile is never
  shown.

The exceptions the properties name (section 3) are behaviour of the code too; they
have no run of their own because no line of the repository says otherwise:

| Property | What the code does |
|---|---|
| `NoLostZap` | a key handled before line 489 is overruled by the configured number |
| `ConfigCheckTellsTruth` | refuses a channel on air while the PAT is parsed again; adopts a negative number |
| `EventFollowsChannel` | takes over a stale event after a section without events |
| `NothingStays` | leaves a picture when the timer cannot be set or a wipe meets a channel number |
| `SurfaceOutlivesUsers` | releases the surface under a wipe that has begun |
| `KeysFindTheirState` | lets keys meet state that is not there yet or freed by a failed bring-up |
| `ExitCloses`, `JoinsCanReturn` | joins a stream thread that waits for an unlisted PMT |
| `TunerCallbackReturns` | keeps `statusMutex` after the timeout; a lock before the wait is not heard |
| `ConfigFollowsFile` | stores an uninitialized buffer for a file of one line without its value |
| `EventIsOwn` | takes over an old event, an old name or text read as a descriptor |

The bring-up may also find the path of the configuration file not yet copied; it then
gives up with the tables and the tuner held, which nobody releases.

## 7. Plan

1. Done: `StreamController`, `VolumeControl`, `GraphicController` with the shared
   colour and the release, `Lifecycle` with `ConfigParser`, `TableParser`, and their
   theorems.
2. Left: a banner with several arguments, written by two threads and read by a
   third; worth a model only together with a promise about what it shows.
3. Done: proofs of every safety property the passing runs check, and of how far
   each of the five findings reaches: `InfoIsTruthful`, `WaitsAnswered`,
   `FullChannelsPlay`, `PlaysIntendedUnmuted` and `LatestVolumeShown` state what the
   program does keep of the promise the finding breaks.
4. Left: `WaitsAnswered` without the restriction of `OnAirKeys` to keys after the
   bring-up.
