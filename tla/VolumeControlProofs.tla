------------------------ MODULE VolumeControlProofs ------------------------
(***************************************************************************)
(* Proofs about VolumeControl for every number of volume levels.           *)
(***************************************************************************)
EXTENDS VolumeControl, TLAPS

USE MaxLevelAssumption

THEOREM TypeCorrect == Spec => []TypeOK
<1>1. Init => TypeOK
  <2>1. Init => volumeLevel \in 0 .. MaxLevel /\ applied \in {Untouched} \cup 0 .. MaxLevel
    BY DEF Init
  <2>2. Init => volumeMute \in BOOLEAN /\ changeVolume \in BOOLEAN
    BY DEF Init
  <2> QED BY <2>1, <2>2 DEF Init, TypeOK
<1>2. TypeOK /\ [Next]_vars => TypeOK'
  <2> SUFFICES ASSUME TypeOK, [Next]_vars PROVE TypeOK'
    OBVIOUS
  <2> USE DEF TypeOK
  <2>1. CASE UNCHANGED vars
    BY <2>1 DEF vars
  <2>2. CASE VolumeUp
    BY <2>2 DEF VolumeUp
  <2>3. CASE VolumeDown
    BY <2>3 DEF VolumeDown
  <2>4. CASE Mute \/ HandleKey
    BY <2>4 DEF Mute, HandleKey, RaiseVolume, Unmute, RaiseMute
  <2>5. CASE CheckChannel \/ ChannelStarted \/ CheckVolume \/ ReadMute
    BY <2>5 DEF CheckChannel, ChannelStarted, CheckVolume, ReadMute
  <2>6. CASE SetVolume
    BY <2>6 DEF SetVolume
  <2> QED BY <2>1, <2>2, <2>3, <2>4, <2>5, <2>6 DEF Next, StreamThread
<1> QED BY <1>1, <1>2, PTL DEF Spec

\* While no request is on its way the player is not louder than intended, and
\* a stream thread about to unsilence it has not been overtaken by MUTE.
NotLouderInv ==
  ~changeVolume /\ key \notin {"raise", "raiseMute"} =>
    /\ stream = "play" => ~volumeMute
    /\ stream \notin {"readMute", "silence", "play"} => applied <= Intended

\* No press of V- or MUTE is lost, however presses and the stream thread's
\* loads and stores interleave, as long as the player accepts the volume.
THEOREM NeverTooLoud ==
  ASSUME ~SetMayFail
  PROVE  Spec => []NeverLouder
<1>1. Init => NotLouderInv
  BY DEF Init, NotLouderInv, Intended, Untouched
<1>2. TypeOK /\ NotLouderInv /\ [Next]_vars => NotLouderInv'
  <2> SUFFICES ASSUME TypeOK, NotLouderInv, [Next]_vars PROVE NotLouderInv'
    OBVIOUS
  <2> USE DEF TypeOK, NotLouderInv, Intended, Untouched
  <2>1. CASE UNCHANGED vars
    BY <2>1 DEF vars
  <2>2. CASE VolumeUp \/ VolumeDown \/ Mute
    BY <2>2 DEF VolumeUp, VolumeDown, Mute
  <2>3. CASE HandleKey
    BY <2>3 DEF HandleKey, RaiseVolume, Unmute, RaiseMute
  <2>4. CASE CheckChannel \/ ChannelStarted \/ CheckVolume
    BY <2>4 DEF CheckChannel, ChannelStarted, CheckVolume
  <2>5. CASE ReadMute \/ SetVolume
    BY <2>5 DEF ReadMute, SetVolume
  <2> QED BY <2>1, <2>2, <2>3, <2>4, <2>5 DEF Next, StreamThread
<1>3. TypeOK /\ NotLouderInv => NeverLouder
  BY DEF NotLouderInv, NeverLouder, Settled
<1> QED BY <1>1, <1>2, <1>3, TypeCorrect, PTL DEF Spec

\* While no request is on its way a stream thread about to apply a level reads
\* the one intended, and one that is not about to has applied it, or silence.
RightInv ==
  ~changeVolume /\ key \notin {"raise", "raiseMute"} =>
    /\ stream = "play" => ~volumeMute
    /\ stream \notin {"readMute", "silence", "play"} =>
         \/ applied \in {0, Intended}
         \/ applied = Untouched /\ volumeLevel = 0 /\ ~volumeMute

\* A press of V+, V- or MUTE ends at the level asked for or in silence,
\* however presses and the stream thread's loads and stores interleave, as long
\* as the player accepts the volume.
THEOREM EndsRightOrSilent ==
  ASSUME ~SetMayFail
  PROVE  Spec => []RightOrSilent
<1>1. Init => RightInv
  BY DEF Init, RightInv, Intended, Untouched
<1>2. TypeOK /\ RightInv /\ [Next]_vars => RightInv'
  <2> SUFFICES ASSUME TypeOK, RightInv, [Next]_vars PROVE RightInv'
    OBVIOUS
  <2> USE DEF TypeOK, RightInv, Intended, Untouched
  <2>1. CASE UNCHANGED vars
    BY <2>1 DEF vars
  <2>2. CASE VolumeUp \/ VolumeDown \/ Mute
    BY <2>2 DEF VolumeUp, VolumeDown, Mute
  <2>3. CASE HandleKey
    BY <2>3 DEF HandleKey, RaiseVolume, Unmute, RaiseMute
  <2>4. CASE CheckChannel \/ ChannelStarted \/ CheckVolume
    BY <2>4 DEF CheckChannel, ChannelStarted, CheckVolume
  <2>5. CASE ReadMute \/ SetVolume
    BY <2>5 DEF ReadMute, SetVolume
  <2> QED BY <2>1, <2>2, <2>3, <2>4, <2>5 DEF Next, StreamThread
<1>3. RightInv => RightOrSilent
  BY DEF RightInv, RightOrSilent, Settled
<1> QED BY <1>1, <1>2, <1>3, TypeCorrect, PTL DEF Spec

\* Without MUTE the stream thread is never about to silence the player.
UnmutedInv ==
  /\ ~volumeMute /\ stream # "silence" /\ key # "raiseMute"
  /\ Settled => applied \in {Untouched, volumeLevel}
  /\ ~changeVolume /\ key = "unmute" /\ stream \notin {"readMute", "play"} =>
       applied \in {Untouched, volumeLevel}

\* The race of MUTE with the volume keys is the only thing between the player
\* and its promise: as long as MUTE is not pressed, it plays at volumeLevel
\* once nothing is pending.
THEOREM PlaysIntendedUnmuted ==
  ASSUME ~SetMayFail
  PROVE  Spec /\ [][~Mute]_vars => []PlaysIntended
<1>1. Init => UnmutedInv
  BY DEF Init, UnmutedInv, Settled, Untouched
<1>2. TypeOK /\ UnmutedInv /\ [Next]_vars /\ [~Mute]_vars => UnmutedInv'
  <2> SUFFICES ASSUME TypeOK, UnmutedInv, [Next]_vars, [~Mute]_vars PROVE UnmutedInv'
    OBVIOUS
  <2> USE DEF TypeOK, UnmutedInv, Settled, Untouched
  <2>1. CASE UNCHANGED vars
    BY <2>1 DEF vars
  <2>2. CASE VolumeUp \/ VolumeDown
    BY <2>2 DEF VolumeUp, VolumeDown
  <2>3. CASE Mute
    BY <2>1, <2>3
  <2>4. CASE HandleKey
    BY <2>4 DEF HandleKey, RaiseVolume, Unmute, RaiseMute
  <2>5. CASE CheckChannel \/ ChannelStarted \/ CheckVolume
    BY <2>5 DEF CheckChannel, ChannelStarted, CheckVolume
  <2>6. CASE ReadMute \/ SetVolume
    BY <2>6 DEF ReadMute, SetVolume
  <2> QED BY <2>1, <2>2, <2>3, <2>4, <2>5, <2>6 DEF Next, StreamThread
<1>3. UnmutedInv => PlaysIntended
  BY DEF UnmutedInv, PlaysIntended, Intended
<1> QED BY <1>1, <1>2, <1>3, TypeCorrect, PTL DEF Spec
=============================================================================
