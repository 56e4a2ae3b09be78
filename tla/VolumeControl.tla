---------------------------- MODULE VolumeControl ----------------------------
(***************************************************************************)
(* Volume keys: the remote thread changes volumeLevel and volumeMute and   *)
(* raises changeVolume; the stream thread, in its main loop, clears the    *)
(* flag and sets the player's volume from the two.  None of the three      *)
(* globals is protected, so every load and store is a step.                *)
(*                                                                         *)
(* The stream thread looks at the volume only between two channels; while  *)
(* startChannel runs it is busy.                                           *)
(***************************************************************************)
EXTENDS Integers

CONSTANTS
  MaxLevel,     \* MAX_VOL_LEVEL
  SetMayFail    \* Player_Volume_Set may return an error

ASSUME MaxLevelAssumption == MaxLevel \in Nat
ASSUME SetMayFailAssumption == SetMayFail \in BOOLEAN

VARIABLES
  volumeLevel, volumeMute, changeVolume,   \* globals of stream_controller.c
  key,        \* control point of the remote thread
  stream,     \* control point of the stream thread
  applied     \* level last given to the player, or Untouched

vars == <<volumeLevel, volumeMute, changeVolume, key, stream, applied>>

\* Nothing sets the volume before the first key: the player keeps its own.
Untouched == -1

Init ==
  /\ volumeLevel = 0 /\ volumeMute = FALSE /\ changeVolume = FALSE
  /\ key = "idle" /\ stream = "loop" /\ applied = Untouched

-----------------------------------------------------------------------------
(* Remote thread *)

VolumeUp ==
  /\ key = "idle" /\ key' = "raise"
  /\ volumeLevel' = IF volumeLevel # MaxLevel THEN volumeLevel + 1 ELSE volumeLevel
  /\ UNCHANGED <<volumeMute, changeVolume, stream, applied>>

\* Mutant of VolumeDown: no lower limit.
VolumeDownUnbounded ==
  /\ key = "idle" /\ key' = "raise"
  /\ volumeLevel' = volumeLevel - 1
  /\ UNCHANGED <<volumeMute, changeVolume, stream, applied>>

VolumeDown ==
  /\ key = "idle" /\ key' = "raise"
  /\ volumeLevel' = IF volumeLevel # 0 THEN volumeLevel - 1 ELSE volumeLevel
  /\ UNCHANGED <<volumeMute, changeVolume, stream, applied>>

\* Mutant of RaiseVolume: the flag is toggled, as mute() toggles volumeMute.
ToggleVolume ==
  /\ key = "raise" /\ key' = "unmute"
  /\ changeVolume' = ~changeVolume
  /\ UNCHANGED <<volumeLevel, volumeMute, stream, applied>>

\* Both volume keys raise the flag before they end the mute.
RaiseVolume ==
  /\ key = "raise" /\ key' = "unmute"
  /\ changeVolume' = TRUE
  /\ UNCHANGED <<volumeLevel, volumeMute, stream, applied>>

Unmute ==
  /\ key = "unmute" /\ key' = "idle"
  /\ volumeMute' = FALSE
  /\ UNCHANGED <<volumeLevel, changeVolume, stream, applied>>

Mute ==
  /\ key = "idle" /\ key' = "raiseMute"
  /\ volumeMute' = ~volumeMute
  /\ UNCHANGED <<volumeLevel, changeVolume, stream, applied>>

RaiseMute ==
  /\ key = "raiseMute" /\ key' = "idle"
  /\ changeVolume' = TRUE
  /\ UNCHANGED <<volumeLevel, volumeMute, stream, applied>>

HandleKey == RaiseVolume \/ Unmute \/ RaiseMute

-----------------------------------------------------------------------------
(* Stream thread: one round of the main loop looks at changeChannel, then at
   changeVolume *)

CheckChannel ==
  /\ stream = "loop" /\ stream' \in {"startChannel", "checkVolume"}
  /\ UNCHANGED <<volumeLevel, volumeMute, changeVolume, key, applied>>

\* Mutant of ChannelStarted: the rest of the round is skipped.
ChannelStartedAgain ==
  /\ stream = "startChannel" /\ stream' = "loop"
  /\ UNCHANGED <<volumeLevel, volumeMute, changeVolume, key, applied>>

ChannelStarted ==
  /\ stream = "startChannel" /\ stream' = "checkVolume"
  /\ UNCHANGED <<volumeLevel, volumeMute, changeVolume, key, applied>>

CheckVolume ==
  /\ stream = "checkVolume"
  /\ IF changeVolume THEN stream' = "readMute" /\ changeVolume' = FALSE
                     ELSE stream' = "loop" /\ UNCHANGED changeVolume
  /\ UNCHANGED <<volumeLevel, volumeMute, key, applied>>

ReadMute ==
  /\ stream = "readMute"
  /\ stream' = IF volumeMute THEN "silence" ELSE "play"
  /\ UNCHANGED <<volumeLevel, volumeMute, changeVolume, key, applied>>

\* Mutant of SetVolume: the flag is cleared after the volume has been set.
SetVolumeThenClear ==
  /\ stream \in {"silence", "play"} /\ stream' = "loop"
  /\ \/ applied' = IF stream = "play" THEN volumeLevel ELSE 0
     \/ SetMayFail /\ UNCHANGED applied
  /\ changeVolume' = FALSE
  /\ UNCHANGED <<volumeLevel, volumeMute, key>>

\* volumeLevel is loaded for the call; an error is only printed.
SetVolume ==
  /\ stream \in {"silence", "play"} /\ stream' = "loop"
  /\ \/ applied' = IF stream = "play" THEN volumeLevel ELSE 0
     \/ SetMayFail /\ UNCHANGED applied
  /\ UNCHANGED <<volumeLevel, volumeMute, changeVolume, key>>

StreamThread == CheckChannel \/ ChannelStarted \/ CheckVolume \/ ReadMute \/ SetVolume

Next == VolumeUp \/ VolumeDown \/ Mute \/ HandleKey \/ StreamThread

\* The stream thread runs and startChannel returns (StartCompletes in
\* StreamController); a key handler that began ends.
Spec == Init /\ [][Next]_vars
FairSpec == Spec /\ WF_vars(StreamThread) /\ WF_vars(HandleKey)

-----------------------------------------------------------------------------
(* Properties *)

\* volumeLevel stays between 0 and MAX_VOL_LEVEL, so volumeLevel * 165400000
\* fits an int, and every variable keeps its kind of value.
TypeOK ==
  /\ volumeLevel \in 0 .. MaxLevel
  /\ applied \in {Untouched} \cup 0 .. MaxLevel
  /\ volumeMute \in BOOLEAN
  /\ changeVolume \in BOOLEAN
  /\ key \in {"idle", "raise", "unmute", "raiseMute"}
  /\ stream \in {"loop", "startChannel", "checkVolume", "readMute", "silence", "play"}

Settled ==
  ~changeVolume /\ key = "idle" /\ stream \notin {"readMute", "silence", "play"}

Intended == IF volumeMute THEN 0 ELSE volumeLevel

\* However keys and the stream thread interleave, once nothing is pending the
\* player is never louder than asked for: no press of V- or MUTE is lost.
NeverLouder == Settled => applied <= Intended

\* The one level other than the right one the player can be left at is
\* silence, which mute_race shows it can: no press of V+ or V- leaves it at a
\* level between the old one and the new one, and a player never told a level
\* has had no key.
RightOrSilent ==
  Settled => \/ applied \in {0, Intended}
             \/ applied = Untouched /\ volumeLevel = 0 /\ ~volumeMute

\* A raised flag is seen in the round after the next, also by a thread that
\* spends every round starting a channel.
VolumeServed == changeVolume ~> stream = "readMute"

\* stream_controller.h:98 "Volume up", :105 "Volume down": once nothing is
\* pending the player plays at volumeLevel, or is silent when muted.
PlaysIntended == Settled /\ applied # Untouched => applied = Intended
=============================================================================
