----------------------- MODULE GraphicControllerProofs -----------------------
(***************************************************************************)
(* Theorems about GraphicController: type correctness, that nothing with a *)
(* timer stays on the screen, and that its surface is released last.       *)
(***************************************************************************)
EXTENDS GraphicController, TLAPS

LEMMA InitTypeOK == Init => TypeOK
  BY LevelsAssumption DEF Init, TypeOK, Kinds, Colours

LEMMA TypeOKStep == TypeOK /\ [Next]_vars => TypeOK'
<1> SUFFICES ASSUME TypeOK, [Next]_vars PROVE TypeOK'
  OBVIOUS
<1>1. CASE Press
  <2>1. /\ state' \in [Kinds -> BOOLEAN] /\ volumeLevelRender' \in Levels
        /\ stream' \in {"idle", "banner"} /\ remote' \in {"idle", "volume"}
    BY <1>1 DEF TypeOK, Press, ChannelStarted, PressInfo, PressVolume, Ask, asking
  <2>2. UNCHANGED <<flags, timer, surface, drawing, wipe, main>>
    BY <1>1 DEF Press
  <2> QED BY <2>1, <2>2 DEF TypeOK, flags, surface, drawing
<1>2. CASE Request
  <2>1. /\ state' \in [Kinds -> BOOLEAN] /\ volumeLevelRender' \in Levels
        /\ stream' \in {"idle", "banner"} /\ remote' \in {"idle", "volume"}
    BY <1>2 DEF TypeOK, Request, AskForBanner, AskForVolume, Ask
  <2>2. UNCHANGED <<flags, timer, surface, drawing, wipe, main>>
    BY <1>2 DEF Request
  <2> QED BY <2>1, <2>2 DEF TypeOK, flags, surface, drawing
<1>3. CASE GraphicsThread
  <2> USE <1>3 DEF TypeOK, GraphicsThread, NoteExcuse, LeftOff, Crossing, asking, flags, surface
  <2>1. CASE Boot
    <3>1. isInitialized' \in BOOLEAN /\ gc' \in {"loop", "failed"}
      BY <2>1 DEF Boot
    <3>2. UNCHANGED <<threadExit, state, timer, surface, kind, arg, shown, asking, wipe, main>>
      BY <2>1 DEF Boot
    <3> HIDE <1>3
    <3> QED BY <3>1, <3>2
  <2>2. CASE TestExit BY <2>2 DEF TestExit, Kinds
  <2>3. CASE LookAtFlag BY <2>3 DEF LookAtFlag, NextSection, Kinds
  <2>4. CASE Clear
    <3>1. gc' = "blank" /\ back' = {} /\ colour' \in Colours
      BY <2>4 DEF Clear, Colours
    <3>2. UNCHANGED <<front, swaps, flags, state, timer, kind, arg, shown, asking, wipe, main>>
      BY <2>4 DEF Clear
    <3> HIDE <1>3
    <3> QED BY <3>1, <3>2
  <2>5. CASE ShowBlank BY <2>5 DEF ShowBlank, Flip
  <2>6. CASE SetPaint BY <2>6 DEF SetPaint, Colours
  <2>7. CASE Draw BY <2>7 DEF Draw, Kinds
  <2>8. CASE Show BY <2>8 DEF Show, Flip
  <2>9. CASE ArmTimer BY <2>9 DEF ArmTimer
  <2>10. CASE LowerFlag BY <2>10 DEF LowerFlag, NextSection, Kinds
  <2> QED BY <2>1, <2>2, <2>3, <2>4, <2>5, <2>6, <2>7, <2>8, <2>9, <2>10
<1>4. CASE Wipe
  <2> USE <1>4 DEF TypeOK, Wipe, NoteExcuse, LeftOff, Crossing, flags, drawing, asking, surface
  <2>1. CASE Expire BY <2>1 DEF Expire
  <2>2. CASE WipeColour BY <2>2 DEF WipeColour, Colours
  <2>3. CASE WipeFill BY <2>3 DEF WipeFill, Colours
  <2>4. CASE WipeFlip BY <2>4 DEF WipeFlip, Flip
  <2>5. CASE WipeReleased BY <2>5 DEF WipeReleased
  <2> QED BY <2>1, <2>2, <2>3, <2>4, <2>5
<1>5. CASE Deinit
  <2>1. /\ isInitialized' \in BOOLEAN /\ threadExit' \in BOOLEAN
        /\ main' \in {"joining", "deleted", "done", "failed"}
    BY <1>5 DEF TypeOK, Deinit, BeginDeinit, DeleteTimer, Release, flags
  <2>2. /\ timer' \in {"off", "armed"} /\ swaps' = swaps /\ colour' = colour
        /\ front' \in {front, {}} /\ back' \in {back, {}}
    BY <1>5 DEF TypeOK, Deinit, BeginDeinit, DeleteTimer, Release, surface
  <2>3. UNCHANGED <<state, drawing, wipe, asking>>
    BY <1>5 DEF Deinit
  <2> QED BY <2>1, <2>2, <2>3 DEF TypeOK, drawing, asking
<1>6. CASE UNCHANGED vars
  BY <1>6 DEF TypeOK, vars, flags, surface, drawing, asking
<1> QED BY <1>1, <1>2, <1>3, <1>4, <1>5, <1>6 DEF Next

\* Every variable keeps its kind of value, whatever is asked for and however
\* the threads interleave.
THEOREM TypeCorrect == Spec => []TypeOK
<1>1. Init => TypeOK BY InitTypeOK
<1>2. TypeOK /\ [Next]_vars => TypeOK' BY TypeOKStep
<1> QED BY <1>1, <1>2, PTL DEF Spec

-----------------------------------------------------------------------------
(* While no timer is armed or will be, and none has failed to be, what is
   dirty is bounded by the phase of the wipe and by where the drawing of a channel number stands. *)

Covered == excused \/ timer = "armed" \/ WillArm
DirtyFront == front \cap Unwanted # {}
DirtyBack == back \cap Unwanted # {}
OnClean == kind = "channel" /\ gc \in {"blank", "paint", "draw", "show"}

Tidy ==
  /\ ~Covered /\ wipe = "idle" => ~DirtyFront
  /\ ~Covered /\ wipe = "fill" => colour = "black"
  /\ ~Covered /\ wipe = "flip" => ~DirtyBack
  /\ ~Covered /\ OnClean => wipe = "idle" /\ ~DirtyBack
  /\ Crossing => excused
  /\ gc = "arm" => kind \in Timed

\* The picture counts until the timer is deleted; a main that fails leaves it
\* as it was.
ScreenInv ==
  /\ main \in {"run", "joining"} => Tidy
  /\ main = "failed" => (~Covered /\ wipe = "idle" => ~DirtyFront)
  /\ main = "done" => front = {}

LEMMA TidyStep ==
  ASSUME TypeOK, Tidy, main \in {"run", "joining"}, [Next]_vars, main' \in {"run", "joining"}
  PROVE  Tidy'
<1> USE DEF Tidy, Covered, DirtyFront, DirtyBack, OnClean, WillArm, Crossing, Timed, Unwanted
<1>1. CASE Press
  BY <1>1 DEF Press, surface, drawing
<1>2. CASE Request
  BY <1>2 DEF Request, surface, drawing
<1>3. CASE GraphicsThread
  <2> USE <1>3 DEF GraphicsThread, NoteExcuse, LeftOff, flags, surface
  <2>1. CASE Boot BY <2>1 DEF Boot
  <2>2. CASE TestExit BY <2>2 DEF TestExit
  <2>3. CASE LookAtFlag BY <2>3 DEF LookAtFlag, NextSection, TypeOK, Kinds
  <2>4. CASE Clear BY <2>4 DEF Clear, TypeOK, Kinds
  <2>5. CASE ShowBlank BY <2>5 DEF ShowBlank, Flip, TypeOK, Kinds
  <2>6. CASE SetPaint BY <2>6 DEF SetPaint, TypeOK, Kinds
  <2>7. CASE Draw BY <2>7 DEF Draw, TypeOK, Kinds
  <2>8. CASE Show BY <2>8 DEF Show, Flip, TypeOK, Kinds
  <2>9. CASE ArmTimer
    <3>1. Covered'
      BY <2>9 DEF ArmTimer, TypeOK
    <3> QED BY <2>9, <3>1 DEF ArmTimer
  <2>10. CASE LowerFlag BY <2>10 DEF LowerFlag, NextSection, TypeOK, Kinds
  <2> QED BY <2>1, <2>2, <2>3, <2>4, <2>5, <2>6, <2>7, <2>8, <2>9, <2>10
<1>4. CASE Wipe
  <2> USE <1>4 DEF Wipe, NoteExcuse, LeftOff, drawing, surface
  <2>1. CASE Expire BY <2>1 DEF Expire, TypeOK
  <2>2. CASE WipeColour BY <2>2 DEF WipeColour, TypeOK
  <2>3. CASE WipeFill BY <2>3 DEF WipeFill
  <2>4. CASE WipeFlip BY <2>4 DEF WipeFlip, Flip
  <2>5. CASE WipeReleased BY <2>5 DEF WipeReleased
  <2> QED BY <2>1, <2>2, <2>3, <2>4, <2>5
<1>5. CASE Deinit
  BY <1>5 DEF Deinit, BeginDeinit, DeleteTimer, Release, surface, drawing
<1>6. CASE UNCHANGED vars
  BY <1>6 DEF vars, surface, drawing
<1> QED BY <1>1, <1>2, <1>3, <1>4, <1>5, <1>6 DEF Next

LEMMA ScreenStep ==
  ASSUME TypeOK, ScreenInv, [Next]_vars
  PROVE  ScreenInv'
<1>1. main' \in {"run", "joining"} => main \in {"run", "joining"}
  BY DEF Next, Running, Press, Request, GraphicsThread, Wipe, Expire, WipeColour, WipeFill,
     WipeFlip, WipeReleased, Deinit, BeginDeinit, DeleteTimer, Release, vars
<1>2. main' \in {"run", "joining"} => Tidy'
  BY <1>1, TidyStep DEF ScreenInv
<1>3. main' = "failed" => (~Covered /\ wipe = "idle" => ~DirtyFront)'
  <2> SUFFICES ASSUME main' = "failed"
               PROVE  (~Covered /\ wipe = "idle" => ~DirtyFront)'
    OBVIOUS
  <2> USE DEF ScreenInv, Covered, DirtyFront, WillArm
  <2>1. CASE main = "done"
    <3>1. front' = {}
      BY <2>1 DEF Next, Running, Wipe, Expire, WipeColour, WipeFill, WipeFlip, WipeReleased,
         surface, vars
    <3> QED BY <3>1
  <2>2. CASE main = "failed"
    BY <2>2 DEF Next, Running, vars, surface, drawing
  <2>3. CASE main \notin {"done", "failed"}
    <3>1. BeginDeinit /\ Deinit /\ main = "run"
      BY <2>3 DEF Next, Press, Request, GraphicsThread, Wipe, Expire, WipeColour, WipeFill,
         WipeFlip, WipeReleased, Deinit, BeginDeinit, DeleteTimer, Release, vars
    <3> QED BY <3>1 DEF Tidy, Deinit, BeginDeinit, surface, drawing
  <2> QED BY <2>1, <2>2, <2>3
<1>4. main' = "done" => front' = {}
  BY DEF ScreenInv, Next, Running, Press, Request, GraphicsThread, Wipe, Expire, WipeColour,
     WipeFill, WipeFlip, WipeReleased, Deinit, BeginDeinit, DeleteTimer, Release, surface, vars
<1> QED BY <1>2, <1>3, <1>4 DEF ScreenInv

\* No banner, no volume symbol and no flood of colour stays on the screen for
\* ever, unless a wipe overlaps the drawing of a channel number or the timer
\* cannot be set, whether flips swap or copy.
THEOREM NothingOnScreenStays == Spec => []NothingStays
<1>1. Init => ScreenInv
  BY DEF Init, ScreenInv, Tidy, Covered, DirtyFront, DirtyBack, OnClean, Crossing
<1>2. TypeOK /\ ScreenInv /\ [Next]_vars => ScreenInv'
  BY ScreenStep
<1>3. TypeOK /\ ScreenInv => NothingStays
  BY DEF TypeOK, ScreenInv, Tidy, NothingStays, Covered, DirtyFront
<1> QED BY <1>1, <1>2, <1>3, TypeCorrect, PTL DEF Spec

-----------------------------------------------------------------------------
(* The release of the surface *)

ReleaseInv == main \in {"deleted", "done"} => gc = "ended" /\ timer = "off"

LEMMA ReleaseStep ==
  ASSUME ReleaseInv, [Next]_vars
  PROVE  ReleaseInv'
<1> USE DEF ReleaseInv
<1>1. CASE Press \/ Request
  BY <1>1 DEF Press, Request, drawing
<1>2. CASE GraphicsThread
  BY <1>2 DEF GraphicsThread, Boot, TestExit, LookAtFlag, Clear, ShowBlank, SetPaint, Draw,
     Show, ArmTimer, LowerFlag
<1>3. CASE Wipe
  BY <1>3 DEF Wipe, Expire, WipeColour, WipeFill, WipeFlip, WipeReleased, drawing
<1>4. CASE Deinit
  BY <1>4 DEF Deinit, BeginDeinit, DeleteTimer, Release, drawing
<1>5. CASE UNCHANGED vars
  BY <1>5 DEF vars, drawing
<1> QED BY <1>1, <1>2, <1>3, <1>4, <1>5 DEF Next

\* When the surface is released the graphics thread has ended and no wipe
\* begins any more; only one that has begun may still meet it.
THEOREM ReleasedLast == Spec => SurfaceOutlivesUsers
<1>1. Init => ReleaseInv
  BY DEF Init, ReleaseInv
<1>2. ReleaseInv /\ [Next]_vars => ReleaseInv'
  BY ReleaseStep
<1>3. ReleaseInv /\ [Next]_vars =>
        [main = "done" => gc = "ended" /\ gc' = gc /\ (wipe = "idle" => wipe' = "idle")]_vars
  <2> SUFFICES ASSUME ReleaseInv, Next, main = "done"
               PROVE  gc = "ended" /\ gc' = gc /\ (wipe = "idle" => wipe' = "idle")
    OBVIOUS
  <2>1. Wipe
    BY DEF Next, Running
  <2> QED BY <2>1 DEF ReleaseInv, Wipe, Expire, WipeColour, WipeFill, WipeFlip, WipeReleased,
             drawing
<1> QED BY <1>1, <1>2, <1>3, PTL DEF Spec, SurfaceOutlivesUsers

-----------------------------------------------------------------------------
(* The level shown *)

\* The level has been read for a drawing whose request is not yet lowered.
LevelRead == kind = "volume" /\ gc \in {"show", "arm", "lower"}

\* What has been read is the newest level, and where it is not shown yet it is
\* still asked for.
LatestInv ==
  /\ kind = "volume" /\ gc = "show" => arg = volumeLevelRender
  /\ kind = "volume" /\ gc \in {"arm", "lower"} => shown = volumeLevelRender
  /\ shown = volumeLevelRender \/ state["volume"] \/ remote = "volume"

\* The request that LowerFlag loses is the only one lost: as long as no volume
\* key is pressed between the load of the level for a drawing and the end of
\* that drawing's section, the level shown once nothing is pending is the one
\* asked for last, however requests, drawings and wipes interleave.
THEOREM LatestVolumeShown == Spec /\ [][~(PressVolume /\ LevelRead)]_vars => []ShowsLatestVolume
<1>1. Init => LatestInv
  BY DEF Init, LatestInv
<1>2. TypeOK /\ LatestInv /\ [Next]_vars /\ [~(PressVolume /\ LevelRead)]_vars => LatestInv'
  <2> SUFFICES ASSUME TypeOK, LatestInv, [Next]_vars, [~(PressVolume /\ LevelRead)]_vars
               PROVE  LatestInv'
    OBVIOUS
  <2> USE DEF LatestInv
  <2>1. CASE UNCHANGED vars
    BY <2>1 DEF vars, drawing, asking
  <2>2. CASE Press
    <3>1. UNCHANGED drawing
      BY <2>2 DEF Press
    <3>2. CASE PressVolume
      BY <2>1, <3>1, <3>2 DEF PressVolume, LevelRead, drawing
    <3>3. CASE ChannelStarted \/ PressInfo
      BY <3>1, <3>3 DEF ChannelStarted, PressInfo, Ask, asking, drawing, TypeOK, Kinds
    <3> QED BY <2>2, <3>2, <3>3 DEF Press
  <2>3. CASE Request
    BY <2>3 DEF Request, AskForBanner, AskForVolume, Ask, drawing, TypeOK, Kinds
  <2>4. CASE GraphicsThread
    <3>1. UNCHANGED asking
      BY <2>4 DEF GraphicsThread
    <3>2. CASE Boot \/ TestExit \/ Clear \/ ShowBlank \/ SetPaint
      BY <3>1, <3>2 DEF Boot, TestExit, Clear, ShowBlank, SetPaint, asking
    <3>3. CASE LookAtFlag
      BY <3>1, <3>3 DEF LookAtFlag, NextSection, asking
    <3>4. CASE Draw \/ Show \/ ArmTimer
      BY <3>1, <3>4 DEF Draw, Show, ArmTimer, Timed, asking
    <3>5. CASE LowerFlag
      BY <3>1, <3>5 DEF LowerFlag, NextSection, asking, TypeOK, Kinds
    <3> QED BY <2>4, <3>2, <3>3, <3>4, <3>5 DEF GraphicsThread
  <2>5. CASE Wipe \/ Deinit
    BY <2>5 DEF Wipe, Deinit, drawing, asking
  <2> QED BY <2>1, <2>2, <2>3, <2>4, <2>5 DEF Next
<1>3. LatestInv => ShowsLatestVolume
  BY DEF LatestInv, ShowsLatestVolume, Settled, Kinds
<1> QED BY <1>1, <1>2, <1>3, TypeCorrect, PTL DEF Spec
=============================================================================
