------------------------------ MODULE Lifecycle ------------------------------
(***************************************************************************)
(* The player's life: main starts the remote, the stream and the graphics  *)
(* thread one after the other, waits for EXIT and stops them in turn; the  *)
(* stream thread brings up tables, tuner, configuration and player and     *)
(* gives up when a step fails; the remote thread reads input events and    *)
(* calls the key handlers from the moment it runs.  Nothing makes one      *)
(* module wait for another: handlers meet modules that are not up, signals *)
(* meet nobody who waits.                                                  *)
(*                                                                         *)
(* What the stream and the graphics thread do once they are up is in       *)
(* StreamController and GraphicController; here they are at "loop", the    *)
(* stream thread also at "unanswered": in startChannel, waiting for the    *)
(* PMT of a number the PAT does not list.  The configuration file is read  *)
(* by the steps of ConfigParser.                                           *)
(***************************************************************************)
EXTENDS ConfigParser

CONSTANTS
  LastChannel,   \* highest channel of the PAT on air
  Env            \* what may go wrong, see Trouble

Trouble == {"createFails",      \* pthread_create returns an error
            "bringUpFails",     \* malloc and tdp_api calls return errors
            "displayFails",     \* the graphics thread cannot set itself up
            "inputFails",       \* the input device cannot be opened or read
            "streamFails",      \* Player_Stream_Create returns an error
            "unlistedKey",      \* a channel key asks for a number the PAT does not list
            "spuriousWakeup"}   \* a condition wait returns on its own

ASSUME LastChannelAssumption == LastChannel \in Nat
ASSUME EnvAssumption == Env \subseteq Trouble

Tables == {"patTable", "pmtTable", "eitTable"}
Resources == Tables \cup {"tuner", "player", "source"}

VARIABLES
  main,         \* control point of main
  \* remote_controller.c
  rc, callback, remoteExit,
  \* stream_controller.c; path is how much of configPathname is copied
  sc, path, isInitialized, streamExit,
  unlisted,     \* the loop is asked for a number the PAT does not list
  held,         \* how often each resource is held
  statusHeld,   \* statusMutex is held for ever
  tuner,        \* control point of the tuner's callback thread
  \* graphic_controller.c
  gc, displayed, graphicExit,
  crashed       \* a handler has gone through a NULL or freed pointer

remoteVars == <<rc, callback, remoteExit>>
streamVars == <<sc, isInitialized, streamExit, held, statusHeld>>
graphicVars == <<gc, displayed, graphicExit>>
keyVars == <<unlisted, crashed>>
vars == <<main, remoteVars, path, streamVars, tuner, graphicVars, keyVars, configVars>>

Init ==
  /\ main = "start" /\ unlisted = FALSE /\ crashed = FALSE
  /\ rc = "none" /\ callback = FALSE /\ remoteExit = FALSE
  /\ sc = "none" /\ path = "empty" /\ isInitialized = FALSE /\ streamExit = FALSE
  /\ held = [r \in Resources |-> 0] /\ statusHeld = FALSE /\ tuner = "idle"
  /\ gc = "none" /\ displayed = FALSE /\ graphicExit = FALSE
  /\ ConfigInit

-----------------------------------------------------------------------------
(* main: start *)

\* ERRORCHECK: main returns, and with it the process ends.
Fails(trouble) == trouble \in Env /\ main' = "failed"

StartRemote ==
  /\ main = "start"
  /\ \/ main' = "register" /\ rc' = "open"
     \/ Fails("createFails") /\ UNCHANGED rc
  /\ UNCHANGED <<callback, remoteExit, path, streamVars, graphicVars>>

RegisterCallback ==
  /\ main = "register" /\ main' = "startStream"
  /\ callback' = TRUE
  /\ UNCHANGED <<rc, remoteExit, path, streamVars, graphicVars>>

StartStream ==
  /\ main = "startStream"
  /\ \/ main' = "copyPath" /\ sc' = "patTable"
     \/ Fails("createFails") /\ UNCHANGED sc
  /\ UNCHANGED <<remoteVars, path, isInitialized, streamExit, held, statusHeld, graphicVars>>

\* strcpy(configPathname, configFile), when the thread that opens the file
\* already runs.
CopyPath ==
  /\ main = "copyPath"
  /\ \/ path = "empty" /\ path' = "partial" /\ UNCHANGED main
     \/ path = "partial" /\ path' = "copied" /\ main' = "startGraphic"
  /\ UNCHANGED <<remoteVars, streamVars, graphicVars>>

StartGraphic ==
  /\ main = "startGraphic"
  /\ \/ main' = "lock" /\ gc' = "boot"
     \/ Fails("createFails") /\ UNCHANGED gc
  /\ UNCHANGED <<remoteVars, path, streamVars, displayed, graphicExit>>

\* A signal that comes before this is lost.
WaitForExit ==
  /\ main = "lock" /\ main' = "wait"
  /\ UNCHANGED <<remoteVars, path, streamVars, graphicVars>>

SpuriousExit ==
  /\ "spuriousWakeup" \in Env
  /\ main = "wait" /\ main' = "stopGraphic"
  /\ UNCHANGED <<remoteVars, path, streamVars, graphicVars, tuner, keyVars, configVars>>

-----------------------------------------------------------------------------
(* main: stop *)

\* Mutant of StopGraphic: the graphics thread need not have come up.
StopGraphicAnyway ==
  /\ main = "stopGraphic" /\ main' = "joinGraphic" /\ graphicExit' = TRUE
  /\ UNCHANGED <<remoteVars, path, streamVars, gc, displayed>>

StopGraphic ==
  /\ main = "stopGraphic"
  /\ IF displayed THEN main' = "joinGraphic" /\ graphicExit' = TRUE
                  ELSE main' = "failed" /\ UNCHANGED graphicExit
  /\ UNCHANGED <<remoteVars, path, streamVars, gc, displayed>>

JoinGraphic ==
  /\ main = "joinGraphic" /\ gc = "ended" /\ main' = "unregister"
  /\ displayed' = FALSE
  /\ UNCHANGED <<remoteVars, path, streamVars, gc, graphicExit>>

\* Mutant of Unregister: the stream controller is stopped before the remote.
UnregisterThenStopStream ==
  /\ main = "unregister"
  /\ main' = (IF callback THEN "stopStream" ELSE "failed")
  /\ UNCHANGED <<remoteVars, path, streamVars, graphicVars>>

\* unregisterRemoteControllerCallback only tests the callback: keys are still
\* handled until the remote thread ends.
Unregister ==
  /\ main = "unregister"
  /\ main' = (IF callback THEN "stopRemote" ELSE "failed")
  /\ UNCHANGED <<remoteVars, path, streamVars, graphicVars>>

\* Mutant of StopRemote: threadExit is not raised.
StopRemoteUnasked ==
  /\ main = "stopRemote" /\ main' = "joinRemote"
  /\ UNCHANGED <<remoteVars, path, streamVars, graphicVars>>

StopRemote ==
  /\ main = "stopRemote" /\ main' = "joinRemote"
  /\ remoteExit' = TRUE
  /\ UNCHANGED <<rc, callback, path, streamVars, graphicVars>>

\* Mutant of JoinRemote: the thread is not waited for.
JoinRemoteDetached ==
  /\ main = "joinRemote" /\ main' = "stopStream"
  /\ UNCHANGED <<remoteVars, path, streamVars, graphicVars>>

JoinRemote ==
  /\ main = "joinRemote" /\ rc = "ended" /\ main' = "stopStream"
  /\ UNCHANGED <<remoteVars, path, streamVars, graphicVars>>

\* Mutant of StopStream: also a controller that gave up is stopped.
StopStreamAnyway ==
  /\ main = "stopStream"
  /\ main' = "joinStream" /\ streamExit' = TRUE
  /\ UNCHANGED <<remoteVars, path, sc, isInitialized, held, statusHeld, graphicVars>>

StopStream ==
  /\ main = "stopStream"
  /\ IF isInitialized THEN main' = "joinStream" /\ streamExit' = TRUE
                      ELSE main' = "failed" /\ UNCHANGED streamExit
  /\ UNCHANGED <<remoteVars, path, sc, isInitialized, held, statusHeld, graphicVars>>

\* Freeing, closing and deinitializing the resources in S.
Release(S) == held' = [r \in Resources |-> IF r \in S THEN held[r] - 1 ELSE held[r]]

Stopped == sc \in {"ended", "gaveUp"}

JoinStream ==
  /\ main = "joinStream" /\ Stopped /\ main' = "done"
  /\ Release(Resources) /\ isInitialized' = FALSE
  /\ UNCHANGED <<remoteVars, path, sc, streamExit, statusHeld, graphicVars>>

Main ==
  /\ \/ StartRemote \/ RegisterCallback \/ StartStream \/ CopyPath \/ StartGraphic
     \/ WaitForExit \/ StopGraphic \/ JoinGraphic \/ Unregister
     \/ StopRemote \/ JoinRemote \/ StopStream \/ JoinStream
  /\ UNCHANGED <<tuner, keyVars, configVars>>

-----------------------------------------------------------------------------
(* Remote thread *)

OpenInput ==
  /\ rc = "open"
  /\ rc' \in {"test"} \cup (IF "inputFails" \in Env THEN {"ended"} ELSE {})
  /\ UNCHANGED <<main, keyVars>>

\* threadExit is only looked at between two events.
TestRemoteExit ==
  /\ rc = "test" /\ rc' = (IF remoteExit THEN "ended" ELSE "read")
  /\ UNCHANGED <<main, keyVars>>

\* Events that are no key presses are filtered out; volume keys and INFO only
\* reach state that always exists.
ReadEvent ==
  /\ rc = "read"
  /\ rc' \in {"test", "callExit", "callChannel", "callOther"}
             \cup (IF "inputFails" \in Env THEN {"ended"} ELSE {})
  /\ UNCHANGED <<main, keyVars>>

\* The handler is called through the pointer main may not have stored yet.
CallHandler ==
  /\ rc \in {"callExit", "callChannel", "callOther"}
  /\ IF callback
     THEN /\ rc' = CASE rc = "callExit" -> "signal"
                     [] rc = "callChannel" -> "channel"
                     [] OTHER -> "test"
          /\ UNCHANGED crashed
     ELSE crashed' = TRUE /\ UNCHANGED rc
  /\ UNCHANGED <<main, unlisted>>

\* The signal reaches main only if it waits.
SignalExit ==
  /\ rc = "signal" /\ rc' = "test"
  /\ main' = (IF main = "wait" THEN "stopGraphic" ELSE main)
  /\ UNCHANGED keyVars

\* A channel key reads patTable: while the pointer is NULL that ends the
\* process, once the table has been freed it may or may not.  The number it
\* stores need not be one the table lists.
ReadTables ==
  /\ rc = "channel"
  /\ \/ /\ held["patTable"] > 0 \/ sc \notin {"none", "patTable"}
        /\ rc' = "test" /\ unlisted' \in (IF "unlistedKey" \in Env THEN BOOLEAN ELSE {FALSE})
        /\ UNCHANGED crashed
     \/ held["patTable"] = 0 /\ crashed' = TRUE /\ UNCHANGED <<rc, unlisted>>
  /\ UNCHANGED main

RemoteThread ==
  /\ OpenInput \/ TestRemoteExit \/ CallHandler \/ SignalExit \/ ReadTables
  /\ UNCHANGED <<callback, remoteExit, path, streamVars, tuner, graphicVars, configVars>>

Input ==
  /\ ReadEvent
  /\ UNCHANGED <<callback, remoteExit, path, streamVars, tuner, graphicVars, configVars>>

-----------------------------------------------------------------------------
(* Stream thread *)

Acquire(r) == held' = [held EXCEPT ![r] = @ + 1]

\* A step of the bring-up has failed: what is in S is released, the thread ends.
GiveUp(S) == "bringUpFails" \in Env /\ sc' = "gaveUp" /\ Release(S)

AfterTable(t) == CASE t = "patTable" -> "pmtTable" [] t = "pmtTable" -> "eitTable" [] OTHER -> "tuner"

Allocate ==
  \E t \in Tables :
    /\ sc = t
    /\ \/ sc' = AfterTable(t) /\ Acquire(t)
       \/ GiveUp({})
    /\ UNCHANGED <<isInitialized, streamExit, configVars>>

\* Tuner_Init; the result of registering the status callback is ignored.
InitTuner ==
  /\ sc = "tuner"
  /\ \/ sc' = "config" /\ Acquire("tuner")
     \/ GiveUp(Tables)
  /\ UNCHANGED <<isInitialized, streamExit, configVars>>

\* configOpen: the path of an unfinished copy names no file, and a file may
\* not open.  Nothing is released.
OpenConfig ==
  /\ sc = "config"
  /\ \/ path = "copied" /\ sc' = "parse"
     \/ (path # "copied" \/ "bringUpFails" \in Env) /\ sc' = "gaveUp"
  /\ UNCHANGED <<isInitialized, streamExit, held, configVars>>

ParseConfig ==
  /\ sc = "parse"
  /\ ParseStep /\ UNCHANGED <<sc, isInitialized, streamExit, held>>

CloseConfig ==
  /\ sc = "parse" /\ eof /\ sc' = "tune"
  /\ UNCHANGED <<isInitialized, streamExit, held, configVars>>

Tune ==
  /\ sc = "tune"
  /\ \/ sc' = "lock" /\ UNCHANGED held
     \/ GiveUp(Tables \cup {"tuner"})
  /\ UNCHANGED <<isInitialized, streamExit, configVars>>

\* Taking statusMutex and waiting: a tuner that has locked before is not heard.
WaitForTuner ==
  /\ sc = "lock" /\ sc' = "wait"
  /\ UNCHANGED <<isInitialized, streamExit, held, configVars>>

\* Ten seconds after the start of the thread: it returns with statusMutex locked.
TimeOut ==
  /\ sc = "wait" /\ sc' = "gaveUp"
  /\ Release(Tables \cup {"tuner"}) /\ statusHeld' = TRUE
  /\ UNCHANGED <<isInitialized, streamExit, configVars>>

\* Mutant of Heard: the thread goes on without unlocking statusMutex.
HeardKeepingMutex ==
  sc' = (IF sc = "wait" THEN "player" ELSE sc) /\ statusHeld' = (statusHeld \/ sc = "wait")

\* A signal reaches the stream thread only if it waits.
Heard == sc' = (IF sc = "wait" THEN "player" ELSE sc) /\ UNCHANGED statusHeld

SpuriousLock ==
  /\ "spuriousWakeup" \in Env
  /\ sc = "wait" /\ Heard
  /\ UNCHANGED <<main, remoteVars, path, isInitialized, streamExit, held, tuner, graphicVars,
                 keyVars, configVars>>

InitPlayer ==
  /\ sc = "player"
  /\ \/ sc' = "source" /\ Acquire("player")
     \/ GiveUp(Tables \cup {"tuner"})
  /\ UNCHANGED <<isInitialized, streamExit, configVars>>

\* Of the three tables two are freed.  Without its filter or the callback, whose
\* failures are only reported, the PAT does not come.
OpenSource ==
  /\ sc = "source"
  /\ \/ sc' = "channel" /\ Acquire("source")
     \/ "bringUpFails" \in Env /\ sc' = "noPat" /\ Acquire("source")
     \/ GiveUp({"patTable", "pmtTable", "player", "tuner"})
  /\ UNCHANGED <<isInitialized, streamExit, configVars>>

\* PAT, check of the configured channel and first startChannel; the check can
\* also meet a PAT that is being parsed again.  Nothing is released.  The check
\* has no lower bound: a negative number is started, at an entry of the PAT that
\* may be no channel's.
StartConfigured ==
  /\ sc = "channel"
  /\ \/ sc' = "gaveUp" /\ UNCHANGED isInitialized
     \/ /\ numbers["PROGRAM_NUMBER"] <= LastChannel
        /\ sc' = "loop" /\ isInitialized' = TRUE
     \/ /\ numbers["PROGRAM_NUMBER"] < 0
        /\ sc' = "unanswered" /\ UNCHANGED isInitialized
  /\ UNCHANGED <<streamExit, held, configVars>>

\* A stream that cannot be created has the thread stop its own controller: it
\* raises threadExit and cannot join itself.
StopItself ==
  /\ "streamFails" \in Env /\ sc = "loop" /\ streamExit' = TRUE
  /\ UNCHANGED <<sc, isInitialized, held, configVars>>

LeaveLoop ==
  /\ sc = "loop" /\ streamExit /\ sc' = "ended"
  /\ UNCHANGED <<isInitialized, streamExit, held, configVars>>

\* startChannel for a number the PAT does not list: the wait for its PMT has no
\* timeout and does not look at threadExit.  A key that counts here was handled
\* before main raises threadExit.
AwaitUnlisted ==
  /\ sc = "loop" /\ ~streamExit /\ unlisted
  /\ sc' = "unanswered" /\ unlisted' = FALSE
  /\ UNCHANGED <<isInitialized, streamExit, held, statusHeld, configVars>>

\* Only a spurious wake-up ends a wait for a section that does not come.
SpuriousAnswer ==
  /\ "spuriousWakeup" \in Env
  /\ \/ sc = "noPat" /\ sc' = "channel" /\ UNCHANGED isInitialized
     \/ sc = "unanswered" /\ sc' = "loop" /\ isInitialized' = TRUE
  /\ UNCHANGED <<main, remoteVars, path, streamExit, held, statusHeld, tuner, graphicVars,
                 keyVars, configVars>>

BringUp ==
  \/ Allocate \/ InitTuner \/ OpenConfig \/ ParseConfig \/ CloseConfig \/ Tune
  \/ WaitForTuner \/ InitPlayer \/ OpenSource \/ StartConfigured

StreamThread ==
  /\ \/ (BringUp \/ LeaveLoop) /\ UNCHANGED <<statusHeld, unlisted>>
     \/ TimeOut /\ UNCHANGED unlisted
     \/ AwaitUnlisted
  /\ UNCHANGED <<main, remoteVars, path, tuner, graphicVars, crashed>>

StreamFailure ==
  /\ StopItself
  /\ UNCHANGED <<main, remoteVars, path, statusHeld, tuner, graphicVars, keyVars>>

-----------------------------------------------------------------------------
(* The tuner's callback thread: tunerStatusCallback *)

\* A tuner that is on may report STATUS_LOCKED at any time.
TunerLocks ==
  /\ held["tuner"] > 0 /\ tuner = "idle" /\ tuner' = "locked"
  /\ UNCHANGED streamVars

SignalLock ==
  /\ tuner = "locked" /\ ~statusHeld /\ tuner' = "idle"
  /\ Heard /\ UNCHANGED <<isInitialized, streamExit, held>>

Unheard == UNCHANGED <<main, remoteVars, path, graphicVars, keyVars, configVars>>
TunerReports == TunerLocks /\ Unheard
TunerCallback == SignalLock /\ Unheard

-----------------------------------------------------------------------------
(* Graphics thread *)

BootGraphic ==
  /\ gc = "boot"
  /\ \/ gc' = "loop" /\ displayed' = TRUE
     \/ "displayFails" \in Env /\ gc' = "gaveUp" /\ UNCHANGED displayed

LeaveGraphicLoop ==
  gc = "loop" /\ graphicExit /\ gc' = "ended" /\ UNCHANGED displayed

GraphicsThread ==
  /\ BootGraphic \/ LeaveGraphicLoop
  /\ UNCHANGED <<main, remoteVars, path, streamVars, tuner, graphicExit, keyVars, configVars>>

-----------------------------------------------------------------------------
\* The process ends when main returns or a handler crashes it.
Running == main \notin {"failed", "done"} /\ ~crashed

Next ==
  /\ Running
  /\ \/ Main \/ SpuriousExit
     \/ RemoteThread \/ Input
     \/ StreamThread \/ StreamFailure \/ SpuriousLock \/ SpuriousAnswer
     \/ TunerReports \/ TunerCallback
     \/ GraphicsThread

Spec == Init /\ [][Next]_vars

\* Runnable threads run, and the input device keeps delivering events.
FairSpec ==
  /\ Spec
  /\ WF_vars(Running /\ Main)
  /\ WF_vars(Running /\ RemoteThread) /\ WF_vars(Running /\ Input)
  /\ WF_vars(Running /\ StreamThread) /\ WF_vars(Running /\ TunerCallback)
  /\ WF_vars(Running /\ GraphicsThread)

-----------------------------------------------------------------------------
(* Properties *)

\* Every variable keeps its kind of value.
TypeOK ==
  /\ main \in {"start", "register", "startStream", "copyPath", "startGraphic", "lock", "wait",
               "stopGraphic", "joinGraphic", "unregister", "stopRemote", "joinRemote",
               "stopStream", "joinStream", "failed", "done"}
  /\ rc \in {"none", "open", "test", "read", "callExit", "callChannel", "callOther",
             "signal", "channel", "ended"}
  /\ callback \in BOOLEAN /\ remoteExit \in BOOLEAN
  /\ sc \in {"none", "patTable", "pmtTable", "eitTable", "tuner", "config", "parse", "tune",
             "lock", "wait", "player", "source", "noPat", "channel", "loop", "unanswered",
             "ended", "gaveUp"}
  /\ path \in {"empty", "partial", "copied"}
  /\ isInitialized \in BOOLEAN /\ streamExit \in BOOLEAN
  /\ held \in [Resources -> Int] /\ statusHeld \in BOOLEAN
  /\ tuner \in {"idle", "locked"}
  /\ gc \in {"none", "boot", "loop", "ended", "gaveUp"}
  /\ displayed \in BOOLEAN /\ graphicExit \in BOOLEAN
  /\ unlisted \in BOOLEAN /\ crashed \in BOOLEAN

\* No table, tuner, player or source is released twice or before it was
\* acquired, nor acquired twice, although the bring-up's error paths and
\* streamControllerDeinit both release them: a controller that gave up is
\* never stopped again.
ReleasedOnce == \A r \in Resources : held[r] \in {0, 1}

\* A key handler finds what it needs: the callback once main has stored it,
\* and a channel key the PAT table from its allocation until the player has
\* ended, because the remote thread is joined before the tables are freed.
\* The exceptions are the code's: an event before main stores the callback, a
\* key before the table is there, and any channel key after the bring-up has
\* given up, which frees the table and keeps the pointer.
Called == {"callExit", "callChannel", "callOther"}

KeysFindTheirState ==
  /\ rc \in Called /\ ~callback => main = "register"
  /\ rc = "channel" /\ held["patTable"] = 0 => sc \in {"none", "patTable", "gaveUp"}

\* When main returns 0 no thread runs on and everything is released.
CleanExit ==
  main = "done" =>
    /\ rc = "ended" /\ sc = "ended" /\ gc = "ended"
    /\ \A r \in Resources : held[r] = 0

\* Main joins only threads that have come up and were told to end: their
\* threadExit is raised and stays raised, also when the stream thread raises its
\* own.  A thread still coming up is never joined: the stream thread would first
\* wait for the tuner or the PAT.  So the join returns, unless the stream thread
\* waits in startChannel for a PMT that does not come and never looks at
\* threadExit.
JoinsCanReturn ==
  /\ main = "joinGraphic" => graphicExit /\ gc \in {"loop", "ended"}
  /\ main = "joinRemote" => remoteExit /\ rc # "none"
  /\ main = "joinStream" => streamExit /\ sc \in {"loop", "unanswered", "ended"}

\* EXIT, pressed while main waits for it and both modules are up, ends the
\* player in good order, as long as the input device delivers another event
\* for the remote thread to see threadExit.  The one exception is the code's: a
\* stream thread that waits for the PMT of a number the PAT does not list, asked
\* for by a key or by a negative number in the file, keeps main in its join.
ExitCloses ==
  rc = "signal" /\ main = "wait" /\ isInitialized /\ displayed
    ~> main = "done" \/ (main = "joinStream" /\ sc = "unanswered")

\* A tuner that locks is not stuck in its callback, except after a timeout,
\* when the stream thread has taken statusMutex with it.
TunerCallbackReturns ==
  tuner = "locked" ~> tuner = "idle" \/ (sc = "gaveUp" /\ statusHeld) \/ ~Running
=============================================================================
