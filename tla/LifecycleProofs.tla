--------------------------- MODULE LifecycleProofs ---------------------------
(***************************************************************************)
(* Proofs about Lifecycle: what is acquired is released once, handlers and *)
(* the clean exit find what they need, whatever may fail around the        *)
(* program, whatever the configuration files say.                          *)
(***************************************************************************)
EXTENDS Lifecycle, ConfigParserProofs

\* What the stream thread has acquired when it stands at s.
Owned(s) ==
  CASE s \in {"none", "patTable"} -> {}
    [] s = "pmtTable" -> {"patTable"}
    [] s = "eitTable" -> {"patTable", "pmtTable"}
    [] s = "tuner" -> Tables
    [] s \in {"config", "parse", "tune", "lock", "wait", "player"} -> Tables \cup {"tuner"}
    [] s = "source" -> Tables \cup {"tuner", "player"}
    [] OTHER -> Resources

\* Where a stream controller that has come up may stand.
Up == {"loop", "unanswered", "ended"}

Holding(S) == \A r \in Resources : held[r] = IF r \in S THEN 1 ELSE 0

\* The control point of the stream thread says what is held, until it gives
\* up or main has released everything.
HeldInv ==
  /\ ReleasedOnce
  /\ sc # "gaveUp" /\ main # "done" => Holding(Owned(sc))
  /\ main = "done" => Holding({})

\* Main stops the threads in order and only stops a stream controller that
\* has come up.
OrderInv ==
  /\ ~callback => \/ main = "register"
                  \/ main \in {"start", "failed"} /\ rc = "none"
  /\ main \in {"start", "register", "startStream"} => sc = "none"
  /\ main \in {"unregister", "stopRemote", "joinRemote", "stopStream", "joinStream", "done"}
       => gc = "ended"
  /\ main \in {"stopStream", "joinStream", "done"} => rc = "ended"
  /\ isInitialized => sc \in Up
  /\ main = "joinStream" => isInitialized
  /\ main = "done" => sc = "ended"

Inv == TypeOK /\ HeldInv /\ OrderInv

-----------------------------------------------------------------------------
(* The threads *)

LEMMA InvInit ==
  ASSUME Init
  PROVE  Inv
<1>1. TypeOK
  <2>1. held \in [Resources -> Int]
    BY DEF Init
  <2> QED BY <2>1, Zenon DEF Init, TypeOK
<1>2. HeldInv
  BY DEF Init, HeldInv, ReleasedOnce, Holding, Owned
<1>3. OrderInv
  BY DEF Init, OrderInv, Up
<1> QED BY <1>1, <1>2, <1>3 DEF Inv

\* Main acquires nothing, and releases only what a started controller holds.
LEMMA MainTypes ==
  ASSUME TypeOK, Main
  PROVE  TypeOK'
<1> USE DEF TypeOK, keyVars
<1>1. CASE StartRemote BY <1>1 DEF Main, StartRemote, Fails, streamVars, graphicVars
<1>2. CASE RegisterCallback BY <1>2 DEF Main, RegisterCallback, streamVars, graphicVars
<1>3. CASE StartStream BY <1>3 DEF Main, StartStream, Fails, remoteVars, graphicVars
<1>4. CASE CopyPath BY <1>4 DEF Main, CopyPath, remoteVars, streamVars, graphicVars
<1>5. CASE StartGraphic BY <1>5 DEF Main, StartGraphic, Fails, remoteVars, streamVars
<1>6. CASE WaitForExit BY <1>6 DEF Main, WaitForExit, remoteVars, streamVars, graphicVars
<1>7. CASE StopGraphic
  <2>1. main' \in {"joinGraphic", "failed"} /\ graphicExit' \in BOOLEAN
    BY <1>7 DEF StopGraphic
  <2>2. UNCHANGED <<rc, callback, remoteExit, path, sc, isInitialized, streamExit, held,
                    statusHeld, tuner, gc, displayed, unlisted, crashed>>
    BY <1>7 DEF StopGraphic, Main, remoteVars, streamVars
  <2> QED BY <2>1, <2>2
<1>8. CASE JoinGraphic
  <2>1. main' = "unregister" /\ displayed' \in BOOLEAN
    BY <1>8 DEF JoinGraphic
  <2>2. UNCHANGED <<rc, callback, remoteExit, path, sc, isInitialized, streamExit, held,
                    statusHeld, tuner, gc, graphicExit, unlisted, crashed>>
    BY <1>8 DEF JoinGraphic, Main, remoteVars, streamVars
  <2> QED BY <2>1, <2>2
<1>9. CASE Unregister BY <1>9 DEF Main, Unregister, remoteVars, streamVars, graphicVars
<1>10. CASE StopRemote BY <1>10 DEF Main, StopRemote, streamVars, graphicVars
<1>11. CASE JoinRemote BY <1>11 DEF Main, JoinRemote, remoteVars, streamVars, graphicVars
<1>12. CASE StopStream
  <2>1. main' \in {"joinStream", "failed"} /\ streamExit' \in BOOLEAN
    BY <1>12 DEF StopStream
  <2>2. UNCHANGED <<rc, callback, remoteExit, path, sc, isInitialized, held, statusHeld,
                    tuner, gc, displayed, graphicExit, unlisted, crashed>>
    BY <1>12 DEF StopStream, Main, remoteVars, graphicVars
  <2> QED BY <2>1, <2>2
<1>13. CASE JoinStream
  <2>1. main' = "done" /\ isInitialized' \in BOOLEAN
    BY <1>13 DEF JoinStream
  <2>0. held' \in [Resources -> Int]
    BY <1>13 DEF JoinStream, Release
  <2>2. UNCHANGED <<rc, callback, remoteExit, path, sc, streamExit, statusHeld, tuner, gc,
                    displayed, graphicExit, unlisted, crashed>>
    BY <1>13 DEF JoinStream, Main, remoteVars, graphicVars
  <2> QED BY <2>0, <2>1, <2>2
<1> QED BY <1>1, <1>2, <1>3, <1>4, <1>5, <1>6, <1>7, <1>8, <1>9, <1>10, <1>11, <1>12,
           <1>13 DEF Main

\* Main keeps what is held in step with the stream thread: only JoinStream
\* releases, and what it joins has come up.
LEMMA MainHolds ==
  ASSUME Inv, Running, Main
  PROVE  HeldInv'
<1>1. CASE JoinStream
  <2>1. sc \in Up /\ sc # "gaveUp"
    BY <1>1 DEF JoinStream, Inv, OrderInv, Up
  <2>2. Holding(Resources)
    BY <1>1, <2>1 DEF JoinStream, Inv, HeldInv, Owned, Up
  <2>3. \A r \in Resources : held'[r] = 0
    BY <1>1, <2>2 DEF JoinStream, Release, Holding
  <2>4. main' = "done"
    BY <1>1 DEF JoinStream
  <2> QED BY <2>3, <2>4 DEF HeldInv, Holding, ReleasedOnce
<1>2. CASE ~JoinStream
  <2>1. held' = held /\ main' # "done"
    BY <1>2 DEF Main, StartRemote, RegisterCallback, StartStream, CopyPath, StartGraphic,
                WaitForExit, StopGraphic, JoinGraphic, Unregister, StopRemote, JoinRemote,
                StopStream, Fails, streamVars
  <2>2. sc' = sc \/ (sc' = "patTable" /\ sc = "none")
    <3>1. main = "startStream" => sc = "none"
      BY DEF Inv, OrderInv
    <3>2. CASE StartStream
      BY <3>1, <3>2 DEF StartStream
    <3>3. StartRemote \/ RegisterCallback \/ CopyPath \/ StartGraphic => sc' = sc
      BY DEF StartRemote, RegisterCallback, CopyPath, StartGraphic, streamVars
    <3>4. WaitForExit \/ StopGraphic \/ JoinGraphic \/ Unregister => sc' = sc
      BY DEF WaitForExit, StopGraphic, JoinGraphic, Unregister, streamVars
    <3>5. StopRemote \/ JoinRemote \/ StopStream => sc' = sc
      BY DEF StopRemote, JoinRemote, StopStream, streamVars
    <3> QED BY <1>2, <3>2, <3>3, <3>4, <3>5 DEF Main
  <2>3. main # "done"
    BY DEF Running
  <2> QED BY <2>1, <2>2, <2>3 DEF Inv, HeldInv, ReleasedOnce, Holding, Owned
<1> QED BY <1>1, <1>2

\* Main goes through the threads in order.
LEMMA MainOrder ==
  ASSUME Inv, Running, Main
  PROVE  OrderInv'
<1> USE DEF Inv, TypeOK, OrderInv, Up
<1>1. CASE StartRemote BY <1>1 DEF StartRemote, Fails, streamVars, graphicVars
<1>2. CASE RegisterCallback BY <1>2 DEF RegisterCallback, streamVars, graphicVars
<1>3. CASE StartStream BY <1>3 DEF StartStream, Fails, remoteVars, graphicVars
<1>4. CASE CopyPath BY <1>4 DEF CopyPath, remoteVars, streamVars, graphicVars
<1>5. CASE StartGraphic BY <1>5 DEF StartGraphic, Fails, remoteVars, streamVars
<1>6. CASE WaitForExit BY <1>6 DEF WaitForExit, remoteVars, streamVars, graphicVars
<1>7. CASE StopGraphic BY <1>7 DEF StopGraphic, remoteVars, streamVars
<1>8. CASE JoinGraphic BY <1>8 DEF JoinGraphic, remoteVars, streamVars
<1>9. CASE Unregister BY <1>9 DEF Unregister, remoteVars, streamVars, graphicVars
<1>10. CASE StopRemote BY <1>10 DEF StopRemote, streamVars, graphicVars
<1>11. CASE JoinRemote BY <1>11 DEF JoinRemote, remoteVars, streamVars, graphicVars
<1>12. CASE StopStream BY <1>12 DEF StopStream, remoteVars, graphicVars
<1>13. CASE JoinStream BY <1>13 DEF JoinStream, Stopped, remoteVars, graphicVars
<1> QED BY <1>1, <1>2, <1>3, <1>4, <1>5, <1>6, <1>7, <1>8, <1>9, <1>10, <1>11, <1>12,
           <1>13 DEF Main

\* The remote thread and the input touch neither the threads' ends nor what
\* is held; only EXIT moves main.
LEMMA RemoteSteps ==
  ASSUME Inv, Running,
         RemoteThread \/ Input
  PROVE  Inv'
<1>1. UNCHANGED <<callback, remoteExit, path, streamVars, tuner, graphicVars, configVars>>
  BY DEF RemoteThread, Input
<1>2. /\ rc \notin {"none", "ended"}
      /\ rc' \in {"test", "read", "callExit", "callChannel", "callOther", "signal", "channel",
                  "ended"}
      /\ main' = main \/ (main = "wait" /\ main' = "stopGraphic")
  BY DEF RemoteThread, Input, OpenInput, TestRemoteExit, ReadEvent, CallHandler, SignalExit,
         ReadTables
<1>3. crashed' \in BOOLEAN /\ unlisted' \in BOOLEAN
  BY DEF RemoteThread, Input, OpenInput, TestRemoteExit, ReadEvent, CallHandler, SignalExit,
         ReadTables, keyVars, Inv, TypeOK
<1>4. TypeOK'
  BY <1>1, <1>2, <1>3 DEF Inv, TypeOK, streamVars, graphicVars
<1>5. HeldInv'
  BY <1>1, <1>2 DEF Inv, HeldInv, Running, ReleasedOnce, Holding, streamVars
<1>6. OrderInv'
  BY <1>1, <1>2 DEF Inv, OrderInv, Running, streamVars, graphicVars
<1> QED BY <1>4, <1>5, <1>6 DEF Inv

\* The graphics thread only moves itself.
LEMMA GraphicsSteps ==
  ASSUME Inv, GraphicsThread
  PROVE  Inv'
<1>1. UNCHANGED <<main, remoteVars, path, streamVars, tuner, graphicExit, keyVars, configVars>>
  BY DEF GraphicsThread
<1>2. /\ gc # "ended" /\ gc' \in {"loop", "gaveUp", "ended"}
      /\ displayed' \in BOOLEAN
  BY DEF GraphicsThread, BootGraphic, LeaveGraphicLoop, Inv, TypeOK
<1>3. TypeOK'
  BY <1>1, <1>2 DEF Inv, TypeOK, remoteVars, streamVars, keyVars
<1>4. HeldInv'
  BY <1>1 DEF Inv, HeldInv, ReleasedOnce, Holding, streamVars
<1>5. OrderInv'
  BY <1>1, <1>2 DEF Inv, OrderInv, remoteVars, streamVars
<1> QED BY <1>3, <1>4, <1>5 DEF Inv

\* What the stream thread does to what is held, wherever it stands.
Advances ==
  \/ sc' = "gaveUp" /\ sc \notin {"none", "loop", "unanswered", "ended", "gaveUp"}
     /\ \E S \in SUBSET Owned(sc) : Release(S)
  \/ /\ sc \notin {"none", "ended", "gaveUp"} /\ sc' \notin {"none", "gaveUp"}
     /\ \/ \E r \in Resources \ Owned(sc) : Acquire(r) /\ Owned(sc') = Owned(sc) \cup {r}
        \/ UNCHANGED held /\ Owned(sc') = Owned(sc)

StreamMoves == BringUp \/ LeaveLoop \/ TimeOut \/ AwaitUnlisted

LEMMA BringUpAdvances ==
  ASSUME StreamMoves, TypeOK
  PROVE  Advances \/ (sc' = sc /\ held' = held)
<1> USE DEF Owned, Resources, Tables
<1>1. CASE Allocate
  <2>1. PICK t \in Tables :
          /\ sc = t
          /\ \/ sc' = AfterTable(t) /\ Acquire(t)
             \/ GiveUp({})
    BY <1>1 DEF Allocate
  <2>2. CASE sc' = AfterTable(t) /\ Acquire(t)
    BY <2>1, <2>2 DEF AfterTable, Advances
  <2>3. CASE GiveUp({})
    BY <2>1, <2>3 DEF GiveUp, Advances
  <2> QED BY <2>1, <2>2, <2>3
<1>2. CASE InitTuner BY <1>2 DEF InitTuner, GiveUp, Advances
<1>3. CASE OpenConfig
  <2>1. CASE sc' = "parse" BY <1>3, <2>1 DEF OpenConfig, Advances
  <2>2. CASE sc' = "gaveUp"
    <3>1. Release({})
      BY <1>3 DEF OpenConfig, Release, TypeOK
    <3> QED BY <1>3, <2>2, <3>1 DEF OpenConfig, Advances
  <2> QED BY <1>3, <2>1, <2>2 DEF OpenConfig
<1>4. CASE ParseConfig BY <1>4 DEF ParseConfig
<1>5. CASE CloseConfig BY <1>5 DEF CloseConfig, Advances
<1>6. CASE Tune BY <1>6 DEF Tune, GiveUp, Advances
<1>7. CASE WaitForTuner BY <1>7 DEF WaitForTuner, Advances
<1>8. CASE InitPlayer BY <1>8 DEF InitPlayer, GiveUp, Advances
<1>9. CASE OpenSource BY <1>9 DEF OpenSource, GiveUp, Advances
<1>10. CASE StartConfigured
  <2>1. Release({})
    BY <1>10 DEF StartConfigured, Release, TypeOK
  <2> QED BY <1>10, <2>1 DEF StartConfigured, Advances
<1>11. CASE LeaveLoop BY <1>11 DEF LeaveLoop, Advances
<1>12. CASE TimeOut BY <1>12 DEF TimeOut, Advances
<1>13. CASE AwaitUnlisted BY <1>13 DEF AwaitUnlisted, Advances
<1> QED BY <1>1, <1>2, <1>3, <1>4, <1>5, <1>6, <1>7, <1>8, <1>9, <1>10, <1>11, <1>12, <1>13
        DEF StreamMoves, BringUp

\* The controller comes up when the thread enters its loop, and stays up.
LEMMA BringUpOrder ==
  ASSUME StreamMoves
  PROVE  /\ sc # "none"
         /\ \/ sc = "channel" /\ sc' = "loop" /\ isInitialized'
            \/ sc = "loop" /\ sc' \in Up /\ isInitialized' = isInitialized
            \/ sc \notin Up /\ isInitialized' = isInitialized
<1> USE DEF Up
<1>1. CASE Allocate \/ InitTuner \/ OpenConfig \/ ParseConfig \/ CloseConfig
  BY <1>1 DEF Allocate, Tables, InitTuner, OpenConfig, ParseConfig, CloseConfig
<1>2. CASE Tune \/ WaitForTuner \/ InitPlayer \/ OpenSource
  BY <1>2 DEF Tune, WaitForTuner, InitPlayer, OpenSource
<1>3. CASE StartConfigured BY <1>3 DEF StartConfigured
<1>4. CASE LeaveLoop BY <1>4 DEF LeaveLoop
<1>5. CASE TimeOut BY <1>5 DEF TimeOut
<1>6. CASE AwaitUnlisted BY <1>6 DEF AwaitUnlisted
<1> QED BY <1>1, <1>2, <1>3, <1>4, <1>5, <1>6 DEF StreamMoves, BringUp

LEMMA BringUpTypes ==
  ASSUME StreamMoves, TypeOK
  PROVE  /\ sc' \in {"patTable", "pmtTable", "eitTable", "tuner", "config", "parse", "tune",
                     "lock", "wait", "player", "source", "noPat", "channel", "loop",
                     "unanswered", "ended", "gaveUp"}
         /\ held' \in [Resources -> Int]
         /\ isInitialized' \in BOOLEAN /\ streamExit' = streamExit
<1>1. held' \in [Resources -> Int]
  BY DEF TypeOK, StreamMoves, BringUp, Allocate, InitTuner, OpenConfig, ParseConfig, CloseConfig, Tune,
         WaitForTuner, InitPlayer, OpenSource, StartConfigured, LeaveLoop, TimeOut, AwaitUnlisted,
         Acquire, GiveUp, Release
<1>2. streamExit' = streamExit
  BY DEF StreamMoves, BringUp, Allocate, InitTuner, OpenConfig, ParseConfig, CloseConfig, Tune,
         WaitForTuner, InitPlayer, OpenSource, StartConfigured, LeaveLoop, TimeOut, AwaitUnlisted
<1>3. isInitialized' \in BOOLEAN
  BY DEF TypeOK, StreamMoves, BringUp, Allocate, InitTuner, OpenConfig, ParseConfig, CloseConfig, Tune,
         WaitForTuner, InitPlayer, OpenSource, StartConfigured, LeaveLoop, TimeOut, AwaitUnlisted
<1>4. sc' \in {"patTable", "pmtTable", "eitTable", "tuner", "config", "parse", "tune",
               "lock", "wait", "player", "source", "noPat", "channel", "loop", "unanswered",
               "ended", "gaveUp"}
  <2>1. CASE Allocate \/ InitTuner \/ OpenConfig \/ ParseConfig \/ CloseConfig
    BY <2>1 DEF Allocate, Tables, AfterTable, GiveUp, InitTuner, OpenConfig, ParseConfig,
                CloseConfig
  <2>2. CASE Tune \/ WaitForTuner \/ InitPlayer \/ OpenSource
    BY <2>2 DEF Tune, WaitForTuner, InitPlayer, OpenSource, GiveUp
  <2>3. CASE StartConfigured \/ LeaveLoop \/ TimeOut \/ AwaitUnlisted
    BY <2>3 DEF StartConfigured, LeaveLoop, TimeOut, AwaitUnlisted
  <2> QED BY <2>1, <2>2, <2>3 DEF StreamMoves, BringUp
<1> QED BY <1>1, <1>2, <1>3, <1>4

\* An advance keeps the control point and what is held in step.
LEMMA AdvanceHolds ==
  ASSUME Inv, main # "done", main' = main,
         Advances \/ (sc' = sc /\ held' = held),
         held' \in [Resources -> Int]
  PROVE  HeldInv'
<1>1. ReleasedOnce /\ (sc # "gaveUp" => Holding(Owned(sc)))
  BY DEF Inv, HeldInv
<1>2. CASE sc' = "gaveUp" /\ sc # "gaveUp" /\ \E S \in SUBSET Owned(sc) : Release(S)
  BY <1>1, <1>2 DEF HeldInv, Holding, Release, ReleasedOnce
<1>3. CASE /\ sc # "gaveUp" /\ sc' # "gaveUp"
           /\ \E r \in Resources \ Owned(sc) :
                Acquire(r) /\ Owned(sc') = Owned(sc) \cup {r}
  <2>1. PICK r \in Resources \ Owned(sc) :
          Acquire(r) /\ Owned(sc') = Owned(sc) \cup {r}
    BY <1>3
  <2>2. held \in [Resources -> Int]
    BY DEF Inv, TypeOK
  <2>3. \A q \in Resources : held'[q] = IF q \in Owned(sc') THEN 1 ELSE 0
    BY <1>1, <1>3, <2>1, <2>2 DEF Acquire, Holding
  <2> QED BY <1>3, <2>3 DEF HeldInv, Holding, ReleasedOnce
<1>4. CASE sc # "gaveUp" /\ sc' # "gaveUp" /\ UNCHANGED held /\ Owned(sc') = Owned(sc)
  BY <1>1, <1>4 DEF HeldInv, Holding, ReleasedOnce
<1>5. CASE sc' = sc /\ held' = held
  BY <1>1, <1>5 DEF HeldInv, Holding, ReleasedOnce
<1> QED BY <1>2, <1>3, <1>4, <1>5 DEF Advances

\* The stream thread and the tuner's callback keep the invariant.
LEMMA StreamSteps ==
  ASSUME Inv, Running, StreamThread
  PROVE  Inv'
<1>1. UNCHANGED <<main, remoteVars, path, tuner, graphicVars, crashed>>
  BY DEF StreamThread
<1>2. StreamMoves
  BY DEF StreamThread, StreamMoves
<1>3. statusHeld' \in BOOLEAN /\ unlisted' \in BOOLEAN
  BY DEF StreamThread, TimeOut, AwaitUnlisted, Inv, TypeOK
<1>4. TypeOK'
  <2>1. TypeOK
    BY DEF Inv
  <2> QED BY <1>1, <1>2, <1>3, <2>1, BringUpTypes DEF TypeOK, remoteVars, graphicVars
<1>5. HeldInv'
  <2>1. held' \in [Resources -> Int]
    BY <1>4 DEF TypeOK
  <2>2. Advances \/ (sc' = sc /\ held' = held)
    BY <1>2, BringUpAdvances DEF Inv
  <2> QED BY <1>1, <2>1, <2>2, AdvanceHolds DEF Running
<1>6. OrderInv'
  BY <1>1, <1>2, BringUpOrder DEF Inv, OrderInv, Up, Running, remoteVars, graphicVars
<1> QED BY <1>4, <1>5, <1>6 DEF Inv

LEMMA TunerSteps ==
  ASSUME Inv, Running,
         StreamFailure \/ SpuriousLock \/ SpuriousAnswer \/ TunerReports \/ TunerCallback
  PROVE  Inv'
<1>1. /\ UNCHANGED <<main, rc, callback, remoteExit, path, held, gc, displayed, graphicExit,
                     unlisted, crashed>>
      /\ \/ sc' = sc /\ isInitialized' = isInitialized
         \/ sc = "wait" /\ sc' = "player" /\ isInitialized' = isInitialized
         \/ sc = "noPat" /\ sc' = "channel" /\ isInitialized' = isInitialized
         \/ sc = "unanswered" /\ sc' = "loop" /\ isInitialized'
  BY DEF StreamFailure, StopItself, SpuriousLock, SpuriousAnswer, TunerReports, TunerLocks,
         TunerCallback, SignalLock, Unheard, Heard, remoteVars, streamVars, graphicVars, keyVars
<1>2. /\ streamExit' \in BOOLEAN /\ statusHeld' \in BOOLEAN /\ isInitialized' \in BOOLEAN
      /\ tuner' \in {"idle", "locked"}
  BY DEF StreamFailure, StopItself, SpuriousLock, SpuriousAnswer, TunerReports, TunerLocks,
         TunerCallback, SignalLock, Unheard, Heard, streamVars, Inv, TypeOK
<1>3. TypeOK'
  BY <1>1, <1>2 DEF Inv, TypeOK
<1>4. HeldInv'
  BY <1>1 DEF Inv, HeldInv, Holding, ReleasedOnce, Owned
<1>5. OrderInv'
  BY <1>1 DEF Inv, OrderInv, Up
<1> QED BY <1>3, <1>4, <1>5 DEF Inv

\* No step breaks the invariant.
LEMMA InvStep ==
  ASSUME Inv, [Next]_vars
  PROVE  Inv'
<1>1. CASE Running /\ Main
  BY <1>1, MainTypes, MainHolds, MainOrder DEF Inv
<1>2. CASE Running /\ SpuriousExit
  BY <1>2 DEF SpuriousExit, Inv, TypeOK, HeldInv, OrderInv, Holding, ReleasedOnce, remoteVars,
              streamVars, graphicVars, keyVars
<1>3. CASE Running /\ (RemoteThread \/ Input)
  BY <1>3, RemoteSteps
<1>4. CASE Running /\ StreamThread
  BY <1>4, StreamSteps
<1>5. CASE Running /\ (StreamFailure \/ SpuriousLock \/ SpuriousAnswer \/ TunerReports \/ TunerCallback)
  BY <1>5, TunerSteps
<1>6. CASE GraphicsThread
  BY <1>6, GraphicsSteps
<1>7. CASE UNCHANGED vars
  BY <1>7 DEF vars, Inv, TypeOK, HeldInv, OrderInv, Holding, ReleasedOnce, remoteVars,
              streamVars, graphicVars, keyVars
<1> QED BY <1>1, <1>2, <1>3, <1>4, <1>5, <1>6, <1>7 DEF Next

\* The configuration file is read by the parser's steps and nobody else's.
LEMMA ConfigSteps ==
  ASSUME [Next]_vars
  PROVE  [ParseStep]_configVars
<1>1. CASE StreamThread
  BY <1>1 DEF StreamThread, TimeOut, AwaitUnlisted, LeaveLoop, BringUp, Allocate, InitTuner, OpenConfig,
              ParseConfig, CloseConfig, Tune, WaitForTuner, InitPlayer, OpenSource,
              StartConfigured
<1>2. CASE StreamFailure
  BY <1>2 DEF StreamFailure, StopItself
<1>3. CASE Next /\ ~StreamThread /\ ~StreamFailure
  BY <1>3 DEF Next, Main, SpuriousExit, RemoteThread, Input, SpuriousLock,
              SpuriousAnswer, TunerReports, TunerCallback, Unheard, GraphicsThread
<1>4. CASE UNCHANGED vars
  BY <1>4 DEF vars
<1> QED BY <1>1, <1>2, <1>3, <1>4

-----------------------------------------------------------------------------
(* Theorems *)

\* Whatever fails around the program, every variable keeps its kind of value.
THEOREM LifecycleTypes == Spec => []TypeOK
<1>1. Init => Inv
  BY InvInit
<1>2. Inv /\ [Next]_vars => Inv'
  BY InvStep
<1>3. Inv => TypeOK
  BY DEF Inv
<1> QED BY <1>1, <1>2, <1>3, PTL DEF Spec

\* No table, tuner, player or source is acquired twice, released twice or
\* released before it was acquired, with any calls failing.
THEOREM EverythingReleasedOnce == Spec => []ReleasedOnce
<1>1. Init => Inv
  BY InvInit
<1>2. Inv /\ [Next]_vars => Inv'
  BY InvStep
<1>3. Inv => ReleasedOnce
  BY DEF Inv, HeldInv
<1> QED BY <1>1, <1>2, <1>3, PTL DEF Spec

\* A key handler finds the callback and the PAT table, but for the exceptions
\* KeysFindTheirState names.
THEOREM KeysAreSafe == Spec => []KeysFindTheirState
<1>1. Init => Inv
  BY InvInit
<1>2. Inv /\ [Next]_vars => Inv'
  BY InvStep
<1>3. Inv => KeysFindTheirState
  <2> SUFFICES ASSUME Inv PROVE KeysFindTheirState
    OBVIOUS
  <2>1. rc \in Called /\ ~callback => main = "register"
    BY DEF Inv, OrderInv, Called
  <2>2. ASSUME rc = "channel", held["patTable"] = 0, sc \notin {"none", "patTable", "gaveUp"}
        PROVE  FALSE
    <3>1. main # "done"
      BY <2>2 DEF Inv, OrderInv
    <3>2. Holding(Owned(sc)) /\ "patTable" \in Owned(sc)
      BY <2>2, <3>1 DEF Inv, HeldInv, Owned, Tables, Resources
    <3> QED BY <2>2, <3>2 DEF Holding, Resources, Tables
  <2> QED BY <2>1, <2>2 DEF KeysFindTheirState
<1> QED BY <1>1, <1>2, <1>3, PTL DEF Spec

\* A player whose main returns 0 has stopped its threads and released all it
\* held.
THEOREM ExitIsClean == Spec => []CleanExit
<1>1. Init => Inv
  BY InvInit
<1>2. Inv /\ [Next]_vars => Inv'
  BY InvStep
<1>3. Inv => CleanExit
  BY DEF Inv, HeldInv, OrderInv, Holding, CleanExit
<1> QED BY <1>1, <1>2, <1>3, PTL DEF Spec

\* In the running player, too, every file is read as its lines say.
THEOREM PlayerFollowsFile == Spec => []ConfigFollowsFile
<1>1. Init => ConfigTypeOK /\ LoopInv
  BY ParseInit DEF Init
<1>2. ConfigTypeOK /\ LoopInv /\ [Next]_vars => (ConfigTypeOK /\ LoopInv)'
  BY ConfigSteps, ParseTypes, ParseLines, ParseUnchanged
<1>3. LoopInv => ConfigFollowsFile
  BY DEF LoopInv, Readable, ConfigFollowsFile
<1> QED BY <1>1, <1>2, <1>3, PTL DEF Spec

-----------------------------------------------------------------------------
(* Joins *)

\* Nobody lowers a threadExit, the graphics thread is created once, and what
\* main has found up stays up until it is told to end.
JoinInv ==
  /\ JoinsCanReturn
  /\ displayed => gc \in {"loop", "ended"}
  /\ rc = "none" => main \in {"start", "failed"}
  /\ main \in {"start", "register", "startStream", "copyPath", "startGraphic"} => gc = "none"

LEMMA JoinStep ==
  ASSUME Inv, JoinInv, [Next]_vars
  PROVE  JoinInv'
<1> USE DEF JoinInv, JoinsCanReturn
<1>1. CASE Running /\ Main
  <2>1. CASE StartRemote \/ RegisterCallback \/ StartStream \/ CopyPath
    BY <2>1 DEF StartRemote, RegisterCallback, StartStream, CopyPath, Fails, remoteVars,
                streamVars, graphicVars
  <2>2. CASE StartGraphic \/ WaitForExit \/ StopGraphic \/ JoinGraphic
    BY <2>2 DEF StartGraphic, WaitForExit, StopGraphic, JoinGraphic, Fails, remoteVars,
                streamVars, graphicVars, Inv, TypeOK
  <2>3. CASE Unregister \/ StopRemote \/ JoinRemote
    BY <2>3 DEF Unregister, StopRemote, JoinRemote, remoteVars, streamVars, graphicVars
  <2>4. CASE StopStream
    BY <2>4 DEF StopStream, remoteVars, graphicVars, Inv, OrderInv, Up
  <2>5. CASE JoinStream
    BY <2>5 DEF JoinStream, remoteVars, graphicVars
  <2> QED BY <1>1, <2>1, <2>2, <2>3, <2>4, <2>5 DEF Main
<1>2. CASE SpuriousExit
  BY <1>2 DEF SpuriousExit, remoteVars, streamVars, graphicVars
<1>3. CASE RemoteThread \/ Input
  <2>1. UNCHANGED <<remoteExit, sc, streamExit, gc, displayed, graphicExit>>
    BY <1>3 DEF RemoteThread, Input, streamVars, graphicVars
  <2>2. /\ rc # "none" /\ rc' # "none"
        /\ main' = main \/ (main = "wait" /\ main' = "stopGraphic")
    BY <1>3 DEF RemoteThread, Input, OpenInput, TestRemoteExit, ReadEvent, CallHandler,
                SignalExit, ReadTables
  <2> QED BY <2>1, <2>2
<1>4. CASE StreamThread
  <2>1. UNCHANGED <<main, remoteVars, graphicVars>>
    BY <1>4 DEF StreamThread
  <2>2. StreamMoves
    BY <1>4 DEF StreamThread, StreamMoves
  <2>3. streamExit' = streamExit
    BY <2>2, BringUpTypes DEF Inv
  <2>4. sc \in Up => sc' \in Up
    BY <2>2, BringUpOrder DEF Up
  <2> QED BY <2>1, <2>3, <2>4 DEF Up, remoteVars, graphicVars
<1>5. CASE StreamFailure \/ SpuriousLock \/ SpuriousAnswer \/ TunerReports \/ TunerCallback
  BY <1>5 DEF StreamFailure, StopItself, SpuriousLock, SpuriousAnswer, TunerReports, TunerLocks,
     TunerCallback, SignalLock, Unheard, Heard, remoteVars, streamVars, graphicVars
<1>6. CASE GraphicsThread
  BY <1>6 DEF GraphicsThread, BootGraphic, LeaveGraphicLoop, remoteVars, streamVars
<1>7. CASE UNCHANGED vars
  BY <1>7 DEF vars, remoteVars, streamVars, graphicVars
<1> QED BY <1>1, <1>2, <1>3, <1>4, <1>5, <1>6, <1>7 DEF Next

\* Whatever has failed before, main only joins threads that have come up and
\* were told to end.  All but a stream thread that waits for a PMT that does not
\* come are where they see it; that they then run is the fairness ExitCloses adds.
THEOREM JoinsReturn == Spec => []JoinsCanReturn
<1>1. Init => Inv /\ JoinInv
  BY InvInit DEF Init, JoinInv, JoinsCanReturn
<1>2. Inv /\ JoinInv /\ [Next]_vars => Inv' /\ JoinInv'
  BY InvStep, JoinStep
<1>3. JoinInv => JoinsCanReturn
  BY DEF JoinInv
<1> QED BY <1>1, <1>2, <1>3, PTL DEF Spec

\* Main and the parser take their steps side by side: what the player does to
\* the configuration, seen by itself, is ConfigParser, so every property of
\* ConfigSpec is one of the player.
THEOREM PlayerReadsConfig == Spec => ConfigSpec
<1>1. Init => ConfigInit
  BY DEF Init
<1>2. [Next]_vars => [ParseStep]_configVars
  BY ConfigSteps
<1> QED BY <1>1, <1>2, PTL DEF Spec, ConfigSpec
=============================================================================
