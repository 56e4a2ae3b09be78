-------------------------- MODULE GraphicController --------------------------
(***************************************************************************)
(* The screen: the stream and the remote thread ask for the channel        *)
(* number, the information banner or the volume symbol by storing what to  *)
(* draw and raising a flag; the graphics thread polls the flags and draws; *)
(* a timer starts a thread that wipes the screen.  Flags, arguments and    *)
(* the surface are shared without a lock.                                  *)
(*                                                                         *)
(* The surface has two buffers; whether a flip swaps or copies them is the *)
(* library's choice.  A buffer holds the kinds of things drawn on it.  The *)
(* colour set on the surface is shared, so a wipe may fill the screen with *)
(* the colour of a drawing: then a buffer holds "flood".  What a banner or *)
(* the channel number says is left out; of the volume symbol it is kept.   *)
(***************************************************************************)
EXTENDS Integers

CONSTANTS
  Levels,         \* volume levels, 0 among them
  TimerMayFail    \* timer_create and timer_settime may return errors

ASSUME LevelsAssumption == 0 \in Levels /\ Levels \subseteq Int
ASSUME TimerAssumption == TimerMayFail \in BOOLEAN

Kinds == {"channel", "info", "volume"}
Timed == {"info", "volume"}       \* kinds whose drawing arms the timer
Colours == {"black", "paint"}     \* what an erasure needs, what a drawing sets

VARIABLES
  \* globals of graphic_controller.c
  state,                 \* the three request flags that are used
  volumeLevelRender,
  isInitialized, threadExit,
  timer,                 \* timerId: "off" or "armed", one shot
  front, back,           \* buffers of the surface primary
  colour,                \* the colour set on it, followed while a wipe relies on it
  swaps,                 \* flipping it swaps the buffers, else it copies
  \* the graphics thread: control point, section of its loop, argument
  gc, kind, arg,
  wipe,                  \* control point of the timer's thread
  \* for the properties: the level shown last, and whether, since the timer was
  \* last armed, a wipe has overlapped the drawing of a channel number or the
  \* timer could not be set
  shown, excused,
  \* what the stream and the remote thread have still to ask for
  stream, remote,
  main

surface == <<front, back, colour, swaps>>
asking == <<volumeLevelRender, stream, remote>>
drawing == <<gc, kind, arg, shown>>
flags == <<isInitialized, threadExit>>
vars == <<state, flags, timer, surface, drawing, excused, wipe, asking, main>>

Init ==
  /\ state = [k \in Kinds |-> FALSE]
  /\ volumeLevelRender = 0
  /\ isInitialized = FALSE /\ threadExit = FALSE
  /\ timer = "off" /\ wipe = "idle"
  /\ front = {} /\ back = {} /\ colour = "black" /\ swaps \in BOOLEAN
  /\ gc = "boot" /\ kind = "channel" /\ arg = 0
  /\ shown = 0 /\ excused = FALSE
  /\ stream = "idle" /\ remote = "idle"
  /\ main = "run"

-----------------------------------------------------------------------------
(* Asking: startChannel, the INFO key, the volume keys *)

\* drawCnannel and drawInfoBanner; storing their arguments goes unseen.
Ask(k) == state' = [state EXCEPT ![k] = TRUE]

\* startChannel asks for the number of the channel it has started, then for
\* the banner.
ChannelStarted ==
  /\ stream = "idle" /\ stream' = "banner" /\ Ask("channel")
  /\ UNCHANGED <<volumeLevelRender, remote>>

AskForBanner ==
  /\ stream = "banner" /\ stream' = "idle" /\ Ask("info")
  /\ UNCHANGED <<volumeLevelRender, remote>>

PressInfo == remote = "idle" /\ Ask("info") /\ UNCHANGED asking

\* drawVolumeLevel stores the level, then raises the flag.  MUTE asks for level
\* 0, the volume keys for the level they have set.
PressVolume ==
  /\ remote = "idle" /\ remote' = "volume"
  /\ volumeLevelRender' \in Levels /\ UNCHANGED <<stream, state>>

AskForVolume ==
  /\ remote = "volume" /\ remote' = "idle" /\ Ask("volume")
  /\ UNCHANGED <<volumeLevelRender, stream>>

Press ==
  /\ ChannelStarted \/ PressInfo \/ PressVolume
  /\ UNCHANGED <<flags, timer, surface, drawing, excused, wipe, main>>

Request ==
  /\ AskForBanner \/ AskForVolume
  /\ UNCHANGED <<flags, timer, surface, drawing, excused, wipe, main>>

-----------------------------------------------------------------------------
(* Graphics thread *)

Boot ==
  /\ gc = "boot"
  /\ \/ gc' = "loop" /\ isInitialized' = TRUE
     \/ TimerMayFail /\ gc' = "failed" /\ UNCHANGED isInitialized
  /\ UNCHANGED <<threadExit, state, timer, surface, kind, arg, shown>>

\* Mutant of TestExit: what is still requested is drawn first.
TestExitWhenDrawn ==
  /\ gc = "loop"
  /\ gc' = IF threadExit /\ \A k \in Kinds : ~state[k] THEN "ended" ELSE "look"
  /\ kind' = "channel"
  /\ UNCHANGED <<flags, state, timer, surface, arg, shown>>

TestExit ==
  /\ gc = "loop" /\ gc' = (IF threadExit THEN "ended" ELSE "look")
  /\ kind' = "channel"
  /\ UNCHANGED <<flags, state, timer, surface, arg, shown>>

\* Mutant of NextSection: the sections are branches of one if, so a request
\* of one kind hides the later kinds.
FirstSection == gc' = "loop" /\ UNCHANGED kind

\* The loop looks at the three flags in turn.
NextSection ==
  CASE kind = "channel" -> gc' = "look" /\ kind' = "info"
    [] kind = "info" -> gc' = "look" /\ kind' = "volume"
    [] OTHER -> gc' = "loop" /\ UNCHANGED kind

LookAtFlag ==
  /\ gc = "look"
  /\ IF state[kind] THEN gc' = "clear" /\ UNCHANGED kind ELSE NextSection
  /\ UNCHANGED <<flags, state, timer, surface, arg, shown>>

\* Double buffering: the back buffer is shown.
Flip ==
  /\ front' = back /\ back' = (IF swaps THEN front ELSE back)
  /\ UNCHANGED <<colour, swaps>>

\* Mutant of Clear: the screen is not refreshed before drawing.
ClearForgotten ==
  /\ gc = "clear" /\ gc' = "blank"
  /\ UNCHANGED <<flags, state, timer, surface, kind, arg, shown>>

\* refreshScreen: nobody else sets a colour other than black, so setting it
\* and filling are one step.
Clear ==
  /\ gc = "clear" /\ gc' = "blank"
  /\ colour' = "black" /\ back' = {} /\ UNCHANGED <<front, swaps>>
  /\ UNCHANGED <<flags, state, timer, kind, arg, shown>>

ShowBlank ==
  /\ gc = "blank" /\ gc' = "paint" /\ Flip
  /\ UNCHANGED <<flags, state, timer, kind, arg, shown>>

\* The volume symbol is an image and sets no colour.  Who else draws or erases
\* sets the colour first, so only a wipe between its two calls meets this one.
SetPaint ==
  /\ gc = "paint" /\ gc' = "draw"
  /\ colour' = (IF kind = "volume" \/ wipe # "fill" THEN colour ELSE "paint")
  /\ UNCHANGED <<front, back, swaps>>
  /\ UNCHANGED <<flags, state, timer, kind, arg, shown>>

\* The argument is loaded once; nothing of the drawing is seen before Show.
Draw ==
  /\ gc = "draw" /\ gc' = "show"
  /\ arg' = IF kind = "volume" THEN volumeLevelRender ELSE arg
  /\ back' = back \cup {kind} /\ UNCHANGED <<front, colour, swaps>>
  /\ UNCHANGED <<flags, state, timer, kind, shown>>

Show ==
  /\ gc = "show" /\ gc' = (IF kind \in Timed THEN "arm" ELSE "lower")
  /\ Flip /\ shown' = IF kind = "volume" THEN arg ELSE shown
  /\ UNCHANGED <<flags, state, timer, kind, arg>>

\* Setting an armed timer again replaces its time.  An error is only reported,
\* and leaves the timer as it was.
ArmTimer ==
  /\ gc = "arm" /\ gc' = "lower"
  /\ timer' = "armed" \/ (TimerMayFail /\ UNCHANGED timer)
  /\ UNCHANGED <<flags, state, surface, kind, arg, shown>>

LowerFlag ==
  /\ gc = "lower" /\ NextSection
  /\ state' = [state EXCEPT ![kind] = FALSE]
  /\ UNCHANGED <<flags, timer, surface, arg, shown>>

\* A wipe and the drawing of a channel number overlap.
Crossing ==
  wipe # "idle" /\ kind = "channel" /\ gc \in {"clear", "blank", "paint", "draw", "show"}
LeftOff == gc = "arm" /\ gc' # "arm" /\ timer' = "off"
NoteExcuse == excused' = (Crossing' \/ LeftOff \/ (excused /\ gc # "arm"))

GraphicsThread ==
  /\ \/ Boot \/ TestExit \/ LookAtFlag \/ Clear \/ ShowBlank
     \/ SetPaint \/ Draw \/ Show \/ ArmTimer \/ LowerFlag
  /\ UNCHANGED <<wipe, asking, main>>
  /\ NoteExcuse

-----------------------------------------------------------------------------
(* Timer thread: wipeScreen *)

\* A wipe takes less than the three seconds to the next expiry.
Expire ==
  /\ timer = "armed" /\ wipe = "idle"
  /\ timer' = "off" /\ wipe' = "black" /\ UNCHANGED <<surface, main>>

\* SetColor and FillRectangle are two calls: from the first on colour is
\* followed, and what the graphics thread has set by the second is what the
\* screen is filled with.
WipeColour ==
  /\ main # "done" /\ wipe = "black" /\ wipe' = "fill"
  /\ colour' = "black" /\ UNCHANGED <<front, back, swaps, timer, main>>

WipeFill ==
  /\ main # "done" /\ wipe = "fill" /\ wipe' = "flip"
  /\ back' = (IF colour = "black" THEN {} ELSE {"flood"})
  /\ colour' = "black" /\ UNCHANGED <<front, swaps, timer, main>>

WipeFlip ==
  /\ main # "done" /\ wipe = "flip" /\ wipe' = "idle"
  /\ Flip /\ UNCHANGED <<timer, main>>

\* A wipe that meets the released surface crashes the process or goes unseen.
WipeReleased ==
  /\ main = "done" /\ wipe # "idle" /\ wipe' = "idle"
  /\ main' \in {"done", "failed"} /\ UNCHANGED <<surface, timer>>

Wipe ==
  /\ Expire \/ WipeColour \/ WipeFill \/ WipeFlip \/ WipeReleased
  /\ UNCHANGED <<state, flags, drawing, asking>>
  /\ NoteExcuse

-----------------------------------------------------------------------------
(* main: graphicControllerDeinit *)

BeginDeinit ==
  /\ main = "run"
  /\ IF isInitialized THEN main' = "joining" /\ threadExit' = TRUE
                      ELSE main' = "failed" /\ UNCHANGED threadExit
  /\ UNCHANGED <<isInitialized, timer, surface>>

\* Mutant of DeleteTimer: the timer is left to itself.
KeepTimer ==
  /\ main = "joining" /\ gc = "ended" /\ main' = "deleted"
  /\ UNCHANGED <<flags, timer, surface>>

\* Joins the thread; timer_delete does not wait for a wipe that has begun.
DeleteTimer ==
  /\ main = "joining" /\ gc = "ended" /\ main' = "deleted"
  /\ timer' = "off" /\ UNCHANGED <<flags, surface>>

Release ==
  /\ main = "deleted" /\ main' = "done"
  /\ front' = {} /\ back' = {} /\ isInitialized' = FALSE
  /\ UNCHANGED <<threadExit, timer, colour, swaps>>

Deinit ==
  /\ BeginDeinit \/ DeleteTimer \/ Release
  /\ UNCHANGED <<state, drawing, excused, wipe, asking>>

-----------------------------------------------------------------------------
\* The process ends when main fails or a wipe crashes it; once the surface is
\* released only the timer's thread may still run.
Running == main \notin {"failed", "done"}

Next ==
  \/ Running /\ (Press \/ Request \/ GraphicsThread \/ Deinit)
  \/ main # "failed" /\ Wipe

Spec == Init /\ [][Next]_vars

\* Runnable threads run, calls that began end, an armed timer expires.  Nobody
\* has to ask for anything or to press EXIT.
FairSpec ==
  /\ Spec
  /\ WF_vars(Running /\ Request) /\ WF_vars(Running /\ GraphicsThread)
  /\ WF_vars(main # "failed" /\ Wipe) /\ WF_vars(main # "run" /\ Running /\ Deinit)

-----------------------------------------------------------------------------
(* Properties *)

\* Every variable keeps its kind of value.
TypeOK ==
  /\ state \in [Kinds -> BOOLEAN]
  /\ volumeLevelRender \in Levels
  /\ isInitialized \in BOOLEAN /\ threadExit \in BOOLEAN
  /\ timer \in {"off", "armed"} /\ wipe \in {"idle", "black", "fill", "flip"}
  /\ swaps \in BOOLEAN /\ colour \in Colours
  /\ front \subseteq Kinds \cup {"flood"} /\ back \subseteq Kinds \cup {"flood"}
  /\ gc \in {"boot", "failed", "loop", "look", "clear", "blank", "paint", "draw",
             "show", "arm", "lower", "ended"}
  /\ kind \in Kinds /\ arg \in Levels /\ shown \in Levels
  /\ stream \in {"idle", "banner"} /\ remote \in {"idle", "volume"}
  /\ main \in {"run", "joining", "deleted", "done", "failed"}

\* No banner and no volume symbol stays on the screen for ever, nor does the
\* colour of a drawing that a wipe has filled it with: while one is visible the
\* timer is armed or the drawing under way will arm it, or a wipe is on its way,
\* or the screen is about to be released.
\* The two threads flip the same two buffers, set the same colour, and an old
\* picture may lie in the hidden buffer; what they can do wrong is to overlap
\* while the channel number, which arms no timer, is drawn.  A timer that cannot
\* be set leaves what has just been drawn to the next drawing.
WillArm == kind \in Timed /\ gc \in {"clear", "blank", "paint", "draw", "show", "arm"}
Unwanted == Timed \cup {"flood"}

NothingStays ==
  front \cap Unwanted # {} =>
    excused \/ timer = "armed" \/ WillArm \/ wipe # "idle" \/ main = "deleted"

\* The surface is released to nobody's surprise: the graphics thread has ended
\* and no wipe begins any more, since the thread is joined before the timer is
\* deleted and the timer deleted before the surface is released.  The one
\* exception is the code's: a wipe that has begun is not waited for.
SurfaceOutlivesUsers ==
  [][main = "done" => gc = "ended" /\ gc' = gc /\ (wipe = "idle" => wipe' = "idle")]_vars

\* The volume symbol, whose flag is looked at last, is not starved by other
\* requests, as long as the graphics thread is there to draw it.
VolumeDrawn ==
  state["volume"] ~> (~state["volume"] \/ threadExit \/ gc = "failed" \/ main = "failed")

\* graphicControllerDeinit ends however many requests are outstanding.
DeinitCompletes == main = "joining" ~> main = "done"

\* graphic_controller.h:76 "Draw volume level symbol": once nothing is pending,
\* the level shown last is the one asked for last.
Settled ==
  gc = "loop" /\ (\A k \in Kinds : ~state[k]) /\ stream = "idle" /\ remote = "idle"

ShowsLatestVolume == Settled => shown = volumeLevelRender
=============================================================================
