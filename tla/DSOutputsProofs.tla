-------------------------- MODULE DSOutputsProofs ---------------------------
(***************************************************************************)
(* Outputs: the stereo mode under an emergency alert, the brightness of    *)
(* the front panel, the EDID caches and the HDMI status file, the levels   *)
(* and the ducking of the audio ports (a level not saved is due to be), for *)
(* any threads, callers, ports and sinks and every bound.                  *)
(***************************************************************************)
EXTENDS DSAudioMode, DSFrontPanel, DSDisplay, DSAudioLevel, TLAPS

(* The audio mode.                                                         *)

\* A thread's next port is in the sequence or just behind it.
LEMMA WalkType ==
  ASSUME AudioTypeOK, NEW t \in Threads
  PROVE  /\ walk[t] \in Walks
         /\ walk[t].i \in 1..(Len(AudioPorts) + 1)
         /\ Len(AudioPorts) \in Nat /\ DOMAIN AudioPorts = 1..Len(AudioPorts)
         /\ walk[t].at = "put" => AudioPorts[walk[t].i] \in PortSet
<1>1. walk[t] \in Walks
  BY DEF AudioTypeOK
<1>2. Len(AudioPorts) \in Nat /\ DOMAIN AudioPorts = 1..Len(AudioPorts)
  BY AudioAssumption DEF AudioAssumption
<1>3. walk[t].i \in 1..(Len(AudioPorts) + 1)
  BY <1>1 DEF Walks
<1>4. walk[t].at = "put" => AudioPorts[walk[t].i] \in PortSet
  BY DEF AudioTypeOK, PortSet
<1> QED
  BY <1>1, <1>2, <1>3, <1>4

\* A thread that walks over no port is typed.
LEMMA NoWalkType == NoWalk \in Walks
<1>1. Len(AudioPorts) \in Nat
  BY AudioAssumption DEF AudioAssumption
<1> QED
  BY <1>1 DEF NoWalk, Walks, StereoModes

\* Entering a walk keeps the walks typed.
LEMMA EnterType ==
  ASSUME AudioTypeOK, NEW t \in Threads, NEW op \in {"SetAudioMode", "SetEASAudioMode"},
         walk' = Enter(t, op)
  PROVE  /\ walk' \in [Threads -> Walks]
         /\ \A u \in Threads : walk'[u].at = "put" => walk'[u].i \in DOMAIN AudioPorts
<1>1. [NoWalk EXCEPT !.op = op] \in Walks
  BY NoWalkType DEF NoWalk, Walks
<1>2. [NoWalk EXCEPT !.op = op].at = "check"
  BY DEF NoWalk
<1> QED
  BY <1>1, <1>2 DEF AudioTypeOK, Enter

-----------------------------------------------------------------------------
(* Type correctness.                                                       *)

\* A step of SetAudioMode or SetEASAudioMode keeps the types.
LEMMA WalkStepTypeOK ==
  ASSUME AudioTypeOK, NEW t \in Threads, WalkStep(t), UNCHANGED connected
  PROVE  AudioTypeOK'
<1> USE WalkType DEF AudioTypeOK
<1>1. CASE CheckEasMode(t)
  <2>1. walk'[t] \in Walks /\ walk'[t].at # "put"
    BY <1>1, NoWalkType DEF CheckEasMode, NoWalk, Walks
  <2> QED
    BY <1>1, <2>1 DEF CheckEasMode
<1>2. CASE ReadPort(t)
  <2>1. CASE walk[t].i \in DOMAIN AudioPorts
    <3>1. stereoMode[AudioPorts[walk[t].i]] \in StereoModes
      BY <2>1 DEF PortSet
    <3>2. walk'[t] \in Walks /\ walk'[t].i = walk[t].i
      BY <1>2, <2>1, <3>1 DEF ReadPort, Walks
    <3> QED
      BY <1>2, <2>1, <3>2 DEF ReadPort
  <2>2. CASE walk[t].i \notin DOMAIN AudioPorts
    BY <1>2, <2>2, NoWalkType DEF ReadPort, NoWalk
  <2> QED
    BY <2>1, <2>2
<1>3. CASE WritePort(t)
  <2>1. walk[t].i \in DOMAIN AudioPorts /\ walk[t].mode \in StereoModes
    BY <1>3 DEF WritePort, Walks
  <2>2. walk'[t] \in Walks /\ walk'[t].at = "get"
    <3>1. walk'[t] = [walk[t] EXCEPT !.at = "get", !.i = walk[t].i + 1]
      BY <1>3 DEF WritePort
    <3>2. walk[t].i \in 1..Len(AudioPorts)
      BY <2>1
    <3>3. walk[t].i + 1 \in 1..(Len(AudioPorts) + 1)
      BY <3>2
    <3> QED
      BY <3>1, <3>3 DEF Walks
  <2>3. stereoMode' \in [PortSet -> StereoModes]
    BY <1>3, <2>1 DEF WritePort, EasMode, NormalMode, StereoModes
  <2> QED
    BY <1>3, <2>2, <2>3 DEF WritePort
<1> QED
  BY <1>1, <1>2, <1>3 DEF WalkStep

\* Every step keeps the types.
LEMMA AudioTypeOKStep ==
  ASSUME AudioTypeOK, [Next]_audioVars PROVE AudioTypeOK'
<1> USE DEF AudioTypeOK
<1>1. ASSUME NEW t \in Threads, WalkStep(t), UNCHANGED connected PROVE AudioTypeOK'
  BY <1>1, WalkStepTypeOK
<1>2. ASSUME NEW newEas \in BOOLEAN, SysModeChange(newEas), UNCHANGED connected
      PROVE  AudioTypeOK'
  <2>1. audioCount' \in [sysMode : 0..MaxSysMode, client : 0..MaxClient]
    BY <1>2, AudioAssumption DEF SysModeChange, AudioAssumption
  <2>2. walk' \in [Threads -> Walks]
        /\ \A u \in Threads : walk'[u].at = "put" => walk'[u].i \in DOMAIN AudioPorts
    BY <1>2, EnterType DEF SysModeChange, Threads
  <2> QED
    BY <1>2, <2>1, <2>2 DEF SysModeChange
<1>3. ASSUME NEW p \in PortSet, NEW m \in StereoModes, ClientSetStereoMode(p, m),
             UNCHANGED connected
      PROVE  AudioTypeOK'
  <2>1. audioCount' \in [sysMode : 0..MaxSysMode, client : 0..MaxClient]
    BY <1>3, AudioAssumption DEF ClientSetStereoMode, AudioAssumption
  <2> QED
    BY <1>3, <2>1 DEF ClientSetStereoMode
<1>4. ASSUME NEW t \in Callers, CallSetAudioMode(t), UNCHANGED connected
      PROVE  AudioTypeOK'
  BY <1>4, EnterType DEF CallSetAudioMode, Threads
<1>5. CASE HdmiToggle
  BY <1>5 DEF HdmiToggle, audioOwn
<1>6. CASE UNCHANGED audioVars
  BY <1>6 DEF audioVars, audioOwn
<1> QED
  BY <1>1, <1>2, <1>3, <1>4, <1>5, <1>6 DEF Next, AudioStep

\* The walks of SetAudioMode and SetEASAudioMode never index a port out of range
\* and only write modes that exist.
THEOREM AudioTypeCorrect == Spec => []AudioTypeOK
<1>1. Init => AudioTypeOK
  <2> SUFFICES ASSUME Init PROVE AudioTypeOK
    OBVIOUS
  <2>1. walk \in [Threads -> Walks] /\ \A t \in Threads : walk[t].at # "put"
    BY NoWalkType DEF Init, AudioInit, NoWalk
  <2>2. audioCount \in [sysMode : 0..MaxSysMode, client : 0..MaxClient]
    BY AudioAssumption DEF Init, AudioInit, AudioAssumption
  <2> QED
    BY <2>1, <2>2 DEF Init, AudioInit, AudioTypeOK
<1>2. AudioTypeOK /\ [Next]_audioVars => AudioTypeOK'
  BY AudioTypeOKStep
<1> QED
  BY <1>1, <1>2, PTL DEF Spec

-----------------------------------------------------------------------------
(* No passthrough during an emergency alert.                               *)

\* What makes EasNoPassthrough inductive: during an undisturbed alert no
\* SetAudioMode is past its check, and a walk that is about to check has its
\* first port still to visit.
EasInv ==
  /\ easMode /\ ~disturbed => Writers = {}
  /\ \A t \in Threads : walk[t].at = "check" => walk[t].i = 1
  /\ EasNoPassthrough

\* The fields of a walk after each of its steps.
LEMMA CheckShape ==
  ASSUME AudioTypeOK, NEW t \in Threads, CheckEasMode(t)
  PROVE  /\ stereoMode' = stereoMode
         /\ walk[t].at = "check"
         /\ \/ /\ Proceeds(walk[t].op) /\ walk'[t].op = walk[t].op
               /\ walk'[t].at = "get" /\ walk'[t].i = walk[t].i
            \/ walk'[t] = NoWalk
<1>1. walk[t] \in Walks
  BY DEF AudioTypeOK
<1>2. walk'[t] = IF Proceeds(walk[t].op) THEN [walk[t] EXCEPT !.at = "get"] ELSE NoWalk
  BY DEF CheckEasMode, AudioTypeOK
<1>3. CASE Proceeds(walk[t].op)
  BY <1>1, <1>2, <1>3 DEF CheckEasMode, Walks
<1>4. CASE ~Proceeds(walk[t].op)
  BY <1>2, <1>4 DEF CheckEasMode
<1> QED
  BY <1>3, <1>4

\* Reading a port (GetStereoMode) leaves the ports alone; behind the last port
\* the walk ends.
LEMMA ReadShape ==
  ASSUME AudioTypeOK, NEW t \in Threads, ReadPort(t)
  PROVE  /\ stereoMode' = stereoMode
         /\ walk[t].at = "get"
         /\ \/ /\ walk'[t].op = walk[t].op
               /\ walk'[t].at = "put" /\ walk'[t].i = walk[t].i
            \/ walk'[t] = NoWalk /\ walk[t].i \notin DOMAIN AudioPorts
<1>1. walk[t] \in Walks
  BY DEF AudioTypeOK
<1>2. walk'[t] = IF walk[t].i \in DOMAIN AudioPorts
                 THEN [walk[t] EXCEPT !.at = "put",
                         !.mode = stereoMode[AudioPorts[walk[t].i]]]
                 ELSE NoWalk
  BY DEF ReadPort, AudioTypeOK
<1>3. CASE walk[t].i \in DOMAIN AudioPorts
  <2>1. walk'[t] = [walk[t] EXCEPT !.at = "put",
                     !.mode = stereoMode[AudioPorts[walk[t].i]]]
    BY <1>2, <1>3
  <2>2. walk'[t].op = walk[t].op /\ walk'[t].at = "put" /\ walk'[t].i = walk[t].i
    BY <1>1, <2>1 DEF Walks
  <2> QED
    BY <2>2 DEF ReadPort
<1>4. CASE walk[t].i \notin DOMAIN AudioPorts
  BY <1>2, <1>4 DEF ReadPort
<1> QED
  BY <1>3, <1>4

\* Writing a port (SetStereoMode) changes this port at most and moves on.
LEMMA WriteShape ==
  ASSUME AudioTypeOK, NEW t \in Threads, WritePort(t)
  PROVE  /\ walk[t].at = "put" /\ walk[t].i \in DOMAIN AudioPorts
         /\ walk'[t].op = walk[t].op
         /\ walk'[t].at = "get" /\ walk'[t].i = walk[t].i + 1
         /\ \/ walk[t].op = "SetAudioMode"
            \/ walk[t].op = "SetEASAudioMode"
                 /\ stereoMode' = [stereoMode EXCEPT ![AudioPorts[walk[t].i]]
                                                      = EasMode(walk[t].mode)]
            \/ walk[t].op = "none" /\ stereoMode' = stereoMode
<1>1. walk[t] \in Walks
  BY DEF AudioTypeOK
<1>2. walk[t].op \in {"none", "SetAudioMode", "SetEASAudioMode"}
  BY <1>1 DEF Walks
<1>3. walk'[t] = [walk[t] EXCEPT !.at = "get", !.i = walk[t].i + 1]
  BY DEF WritePort, AudioTypeOK
<1>4. walk'[t].op = walk[t].op /\ walk'[t].at = "get" /\ walk'[t].i = walk[t].i + 1
  BY <1>1, <1>3 DEF Walks
<1> QED
  BY <1>2, <1>4 DEF WritePort, AudioTypeOK

\* A step of one thread leaves the walks of the others alone.
LEMMA WalkStepFrame ==
  ASSUME AudioTypeOK, NEW t \in Threads, WalkStep(t)
  PROVE  /\ easMode' = easMode /\ disturbed' = disturbed
         /\ \A u \in Threads \ {t} : walk'[u] = walk[u]
<1>1. CASE CheckEasMode(t)
  BY <1>1 DEF CheckEasMode, AudioTypeOK
<1>2. CASE ReadPort(t)
  BY <1>2 DEF ReadPort, AudioTypeOK
<1>3. CASE WritePort(t)
  BY <1>3 DEF WritePort, AudioTypeOK
<1> QED
  BY <1>1, <1>2, <1>3 DEF WalkStep

\* What a step of a walk has to leave in place during an undisturbed alert.
LEMMA EasByParts ==
  ASSUME AudioTypeOK, EasInv, easMode, ~disturbed, NEW t \in Threads,
         \A u \in Threads \ {t} : walk'[u] = walk[u],
         walk'[t].op = "SetAudioMode" => walk'[t].at = "check",
         \A j \in EasPassed' \cap DOMAIN AudioPorts :
           stereoMode'[AudioPorts[j]] # "PASSTHRU"
  PROVE  Writers' = {} /\ EasNoPassthrough'
<1>1. Writers = {}
  BY DEF EasInv
<1>2. Writers' = {}
  BY <1>1 DEF Writers
<1> QED
  BY <1>2 DEF EasNoPassthrough

\* A step of a walk during an undisturbed alert.
LEMMA EasWalkStep ==
  ASSUME AudioTypeOK, EasInv, NEW t \in Threads, WalkStep(t)
  PROVE  EasInv'
<1>1. easMode' = easMode /\ disturbed' = disturbed
      /\ \A u \in Threads \ {t} : walk'[u] = walk[u]
  BY WalkStepFrame
<1>2. \A u \in Threads : walk'[u].at = "check" => walk'[u].i = 1
  <2>1. walk'[t].at = "check" => walk'[t].i = 1
    BY CheckShape, ReadShape, WriteShape DEF WalkStep, NoWalk
  <2> QED
    BY <1>1, <2>1 DEF EasInv
<1> SUFFICES ASSUME easMode, ~disturbed
             PROVE  Writers' = {} /\ EasNoPassthrough'
  BY <1>1, <1>2 DEF EasInv, EasNoPassthrough
<1>3. walk[t].op = "SetAudioMode" => walk[t].at = "check"
  BY DEF EasInv, Writers
<1>4. walk[t].i \in 1..(Len(AudioPorts) + 1)
      /\ Len(AudioPorts) \in Nat /\ DOMAIN AudioPorts = 1..Len(AudioPorts)
  BY WalkType
<1>5. \A j \in EasPassed \cap DOMAIN AudioPorts : stereoMode[AudioPorts[j]] # "PASSTHRU"
  BY DEF EasInv, EasNoPassthrough
<1>6. SYS \in Threads
  BY DEF Threads
<1>7. CASE CheckEasMode(t)
  <2>1. walk'[t].op = "SetAudioMode" => walk'[t].at = "check"
    BY <1>7, CheckShape DEF Proceeds, NoWalk
  <2>2. walk[t].at = "check" /\ walk[t].i = 1 /\ stereoMode' = stereoMode
    BY <1>7, CheckShape DEF EasInv
  <2>3. walk[t].op = "SetEASAudioMode" =>
          walk'[t].op = "SetEASAudioMode" /\ walk'[t].at = "get" /\ walk'[t].i = 1
    <3>1. Proceeds("SetEASAudioMode")
      BY DEF Proceeds
    <3> QED
      BY <1>7, <2>2, <3>1 DEF CheckEasMode, AudioTypeOK, Walks
  <2>4. EasPassed' \cap DOMAIN AudioPorts \subseteq EasPassed
    BY <1>1, <1>4, <1>6, <2>2, <2>3 DEF EasPassed
  <2> QED
    BY <1>1, <1>5, <2>1, <2>2, <2>4, EasByParts
<1>8. CASE ReadPort(t)
  <2>1. walk'[t].op = "SetAudioMode" => walk'[t].at = "check"
    BY <1>3, <1>8, ReadShape DEF NoWalk
  <2>2. stereoMode' = stereoMode
    BY <1>8, ReadShape
  <2>3. EasPassed' \cap DOMAIN AudioPorts \subseteq EasPassed
    <3>1. CASE t # SYS \/ walk[t].op # "SetEASAudioMode"
      BY <1>1, <1>6, <3>1 DEF EasPassed
    <3>2. CASE t = SYS /\ walk[t].op = "SetEASAudioMode"
      <4>1. EasPassed = 1..(walk[t].i - 1)
        BY <1>8, <3>2, ReadShape DEF EasPassed
      <4>2. CASE walk'[t] = NoWalk /\ walk[t].i \notin DOMAIN AudioPorts
        BY <1>4, <4>1, <4>2
      <4>3. CASE walk'[t].op = walk[t].op /\ walk'[t].at = "put" /\ walk'[t].i = walk[t].i
        BY <3>2, <4>1, <4>3 DEF EasPassed
      <4> QED
        BY <1>8, <4>2, <4>3, ReadShape
    <3> QED
      BY <3>1, <3>2
  <2> QED
    BY <1>1, <1>5, <2>1, <2>2, <2>3, EasByParts
<1>9. CASE WritePort(t)
  <2> DEFINE p == AudioPorts[walk[t].i]
  <2>1. walk[t].op # "SetAudioMode" /\ walk[t].at = "put" /\ walk[t].i \in DOMAIN AudioPorts
    BY <1>3, <1>9, WriteShape
  <2>2. walk'[t].op = walk[t].op /\ walk'[t].at = "get" /\ walk'[t].i = walk[t].i + 1
    BY <1>9, WriteShape
  <2>3. \A j \in EasPassed' \cap DOMAIN AudioPorts :
          j \in EasPassed \/ (t = SYS /\ j = walk[t].i /\ walk[t].op = "SetEASAudioMode")
    <3>1. CASE t # SYS
      BY <1>1, <1>6, <3>1 DEF EasPassed
    <3>2. CASE t = SYS /\ walk[t].op # "SetEASAudioMode"
      BY <3>2 DEF EasPassed
    <3>3. CASE t = SYS /\ walk[t].op = "SetEASAudioMode"
      <4>1. EasPassed = 1..(walk[t].i - 1)
        BY <2>1, <3>3 DEF EasPassed
      <4>2. EasPassed' = 1..(walk'[t].i - 1)
        BY <2>2, <3>3 DEF EasPassed
      <4>3. walk'[t].i - 1 = walk[t].i
        BY <1>4, <2>2
      <4> QED
        BY <1>4, <3>3, <4>1, <4>2, <4>3
    <3> QED
      BY <3>1, <3>2, <3>3
  <2>4. \A j \in DOMAIN AudioPorts : AudioPorts[j] \in PortSet
    BY DEF PortSet
  <2>5. CASE walk[t].op = "SetEASAudioMode"
    <3>1. stereoMode' = [stereoMode EXCEPT ![p] = EasMode(walk[t].mode)]
      BY <1>9, <2>5, WriteShape
    <3>2. EasMode(walk[t].mode) # "PASSTHRU"
      BY DEF EasMode
    <3> QED
      BY <1>1, <1>5, <2>1, <2>2, <2>3, <2>4, <3>1, <3>2, EasByParts DEF AudioTypeOK
  <2>6. CASE walk[t].op # "SetEASAudioMode"
    <3>1. stereoMode' = stereoMode
      BY <1>9, <2>1, <2>6, WriteShape
    <3> QED
      BY <1>1, <1>5, <2>1, <2>2, <2>3, <2>6, <3>1, EasByParts
  <2> QED
    BY <2>5, <2>6
<1> QED
  BY <1>7, <1>8, <1>9 DEF WalkStep

\* A step keeps EasInv: an alert that begins while a SetAudioMode may still
\* write is disturbed, and a new walk has passed no port.
LEMMA EasInvStep ==
  ASSUME AudioTypeOK, EasInv, [Next]_audioVars PROVE EasInv'
<1>1. ASSUME NEW t \in Threads, WalkStep(t) PROVE EasInv'
  BY <1>1, EasWalkStep
<1>2. ASSUME NEW t \in Threads, NEW op \in {"SetAudioMode", "SetEASAudioMode"},
             walk[t] = NoWalk, walk' = Enter(t, op)
      PROVE  /\ \A u \in Threads : walk'[u].at = "check" => walk'[u].i = 1
             /\ Writers' = Writers
             /\ walk'[t].op = op /\ walk'[t].at = "check"
             /\ \A u \in Threads \ {t} : walk'[u] = walk[u]
  <2>1. walk'[t] = [NoWalk EXCEPT !.op = op]
    BY <1>2 DEF Enter, AudioTypeOK
  <2>2. \A u \in Threads \ {t} : walk'[u] = walk[u]
    BY <1>2 DEF Enter, AudioTypeOK
  <2>3. walk'[t].op = op /\ walk'[t].at = "check" /\ walk'[t].i = 1
    BY <2>1 DEF NoWalk
  <2>4. walk[t].at = "check"
    BY <1>2 DEF NoWalk
  <2> QED
    BY <2>2, <2>3, <2>4 DEF Writers, EasInv
<1>3. ASSUME NEW newEas \in BOOLEAN, SysModeChange(newEas) PROVE EasInv'
  <2>1. CASE easMode = newEas
    BY <1>3, <2>1 DEF SysModeChange, EasInv, Writers, EasNoPassthrough, EasPassed
  <2>2. CASE easMode # newEas
    <3>1. SYS \in Threads /\ walk[SYS] = NoWalk
      BY <1>3 DEF SysModeChange, Threads
    <3>2. walk' = Enter(SYS, IF newEas THEN "SetEASAudioMode" ELSE "SetAudioMode")
      BY <1>3, <2>2 DEF SysModeChange
    <3>3. easMode' = newEas /\ disturbed' = (newEas /\ Writers # {})
      BY <1>3, <2>2 DEF SysModeChange
    <3>4. \A u \in Threads : walk'[u].at = "check" => walk'[u].i = 1
      BY <1>2, <3>1, <3>2
    <3>5. Writers' = Writers
      BY <1>2, <3>1, <3>2
    <3>6. newEas => EasPassed' = {}
      BY <1>2, <3>1, <3>2 DEF EasPassed
    <3> QED
      BY <3>3, <3>4, <3>5, <3>6 DEF EasInv, EasNoPassthrough
  <2> QED
    BY <2>1, <2>2
<1>4. ASSUME NEW p \in PortSet, NEW m \in StereoModes, ClientSetStereoMode(p, m)
      PROVE  EasInv'
  BY <1>4 DEF ClientSetStereoMode, EasInv, Writers, EasNoPassthrough
<1>5. ASSUME NEW t \in Callers, CallSetAudioMode(t) PROVE EasInv'
  <2>1. t \in Threads /\ t # SYS /\ SYS \in Threads
    BY AudioAssumption DEF AudioAssumption, Threads
  <2>2. walk[t] = NoWalk /\ walk' = Enter(t, "SetAudioMode")
        /\ UNCHANGED <<easMode, stereoMode, disturbed>>
    BY <1>5 DEF CallSetAudioMode
  <2>3. \A u \in Threads : walk'[u].at = "check" => walk'[u].i = 1
    BY <1>2, <2>1, <2>2
  <2>4. Writers' = Writers
    BY <1>2, <2>1, <2>2
  <2>5. EasPassed' = EasPassed
    BY <1>2, <2>1, <2>2 DEF EasPassed
  <2> QED
    BY <2>2, <2>3, <2>4, <2>5 DEF EasInv, EasNoPassthrough
<1>6. CASE UNCHANGED audioOwn
  BY <1>6 DEF audioOwn, EasInv, Writers, EasNoPassthrough, EasPassed
<1> QED
  BY <1>1, <1>3, <1>4, <1>5, <1>6
     DEF Next, AudioStep, HdmiToggle, audioVars

\* While an emergency alert is in progress no port that its walk has passed goes
\* back to passthrough, for any number of ports and of threads that call
\* SetAudioMode (SetEASAudioMode, SetAudioMode's early return).
THEOREM AlertKeepsStereo == Spec => []EasNoPassthrough
<1>1. Init => EasInv
  BY DEF Init, AudioInit, EasInv, Writers, NoWalk, EasNoPassthrough
<1>2. AudioTypeOK /\ EasInv /\ [Next]_audioVars => EasInv'
  BY EasInvStep
<1>3. EasInv => EasNoPassthrough
  BY DEF EasInv
<1> QED
  BY <1>1, <1>2, <1>3, AudioTypeCorrect, PTL DEF Spec

-----------------------------------------------------------------------------
(* The front panel.                                                        *)

FpNames == {"brightness", "state", "color"}
FpRequests ==
  [step : FpNames \cup {"init", "persist"}, name : FpNames, tries : Nat, indicator : Indicators,
   value : Brightness \cup BOOLEAN \cup Colors, persist : BOOLEAN,
   was : SUBSET (Brightness \cup {MaxBrightness})]

FpTypes ==
  /\ DOMAIN led = Indicators /\ DOMAIN panelState = Indicators
  /\ fpd_isPlatInitialized \in BOOLEAN
  /\ fpCall \in FpRequests \cup {NoFpCall}
  /\ fpWanted \subseteq Brightness \cup {MaxBrightness}
  /\ fpKept = {} \/ \E b : fpKept = {b}
\* A call under way can still fail back to what was expected before it.
CallCanFail ==
  /\ LoadBrightness \in fpCall.was
  /\ fpd_isPlatInitialized /\ fpCall.step # "persist" => powerBrightness \in fpCall.was
  /\ Remembers(fpCall) => fpCall.value \in fpWanted /\ fpCall.value \in Brightness
  /\ fpCall.step # "init" => fpd_isPlatInitialized
FpInv ==
  /\ FpTypes
  /\ LoadBrightness \in fpWanted
  /\ fpd_isPlatInitialized => powerBrightness \in fpWanted
  /\ fpCall # NoFpCall => CallCanFail

\* The idle record is not one of a call.
LEMMA NoCallHasNoStep == NoFpCall \notin FpRequests /\ NoFpCall.step = "none"
<1>1. \A r \in FpRequests : r.step \in FpNames \cup {"init", "persist"}
  BY DEF FpRequests
<1> QED BY <1>1 DEF NoFpCall, FpNames

\* The default brightness is expected before any call.
LEMMA FpStarts == FpInit => FpInv
<1> SUFFICES ASSUME FpInit PROVE FpInv
  OBVIOUS
<1>1. FpTypes
  BY DEF FpInit, FpTypes
<1>2. LoadBrightness = MaxBrightness
  BY DEF FpInit, LoadBrightness
<1> QED BY <1>1, <1>2 DEF FpInit, FpInv

\* A value is loaded as it was persisted.
LEMMA LoadsWhatIsKept ==
  /\ \A b : fpKept' = {b} => LoadBrightness' = b
  /\ fpKept' = fpKept => LoadBrightness' = LoadBrightness
<1>1. ASSUME NEW b, fpKept' = {b} PROVE LoadBrightness' = b
  <2>1. LoadBrightness' = CHOOSE x \in {b} : TRUE
    BY <1>1 DEF LoadBrightness
  <2>2. (CHOOSE x \in {b} : TRUE) \in {b}
    OBVIOUS
  <2> QED BY <2>1, <2>2
<1>2. fpKept' = fpKept => LoadBrightness' = LoadBrightness
  BY DEF LoadBrightness
<1> QED BY <1>1, <1>2

\* The process comes up, goes down in order, or dies.
LEMMA FpProcess ==
  ASSUME FpInv, FpInitialiseHAL \/ FpDeInitialiseHAL \/ FpCrash
  PROVE  FpInv'
<1>1. CASE FpInitialiseHAL
  <2>1. fpKept' = fpKept /\ LoadBrightness' = LoadBrightness
    BY <1>1, LoadsWhatIsKept DEF FpInitialiseHAL
  <2> QED BY <1>1, <2>1 DEF FpInitialiseHAL, FpInv, FpTypes, CallCanFail, fpBounds
<1>2. CASE FpDeInitialiseHAL \/ FpCrash
  <2>1. fpKept' = fpKept /\ LoadBrightness' = LoadBrightness
    BY <1>2, LoadsWhatIsKept DEF FpDeInitialiseHAL, FpCrash, FpStop
  <2>2. fpCall' = NoFpCall /\ fpd_isPlatInitialized' = FALSE /\ UNCHANGED <<panelState, fpWanted>>
        /\ led' \in {led, [i \in Indicators |-> 0]}
    BY <1>2 DEF FpDeInitialiseHAL, FpCrash, FpStop
  <2> QED BY <2>1, <2>2 DEF FpInv, FpTypes
<1> QED BY <1>1, <1>2

\* A call begins with what a failure would fall back to.
LEMMA FpBegins ==
  ASSUME FpInv, NEW name \in FpNames, NEW i \in Indicators, NEW v \in Brightness \cup BOOLEAN \cup Colors,
         NEW p \in BOOLEAN, FpBegin([FpRequest(name, i, v) EXCEPT !.persist = p]),
         p /\ i = "power" => v \in fpWanted' /\ v \in Brightness,
         fpWanted \subseteq fpWanted', fpWanted' \subseteq Brightness \cup {MaxBrightness}
  PROVE  FpInv'
<1> DEFINE r == [FpRequest(name, i, v) EXCEPT !.persist = p]
<1>1. r \in FpRequests /\ r.was = fpWanted /\ r.indicator = i /\ r.value = v /\ r.persist = p
      /\ r.step = IF fpd_isPlatInitialized THEN name ELSE "init"
  BY DEF FpRequests, FpRequest, FpNames, FpInv, FpTypes
<1>2. fpCall' = r /\ UNCHANGED <<fpd_isPlatInitialized, powerBrightness, panelState, led, fpKept>>
  BY DEF FpBegin
<1> HIDE DEF r
<1>3. LoadBrightness' = LoadBrightness
  BY <1>2, LoadsWhatIsKept
<1>4. FpTypes'
  BY <1>1, <1>2 DEF FpInv, FpTypes
<1>5. CallCanFail'
  BY <1>1, <1>2, <1>3 DEF FpInv, CallCanFail, Remembers, FpNames
<1> QED BY <1>2, <1>3, <1>4, <1>5 DEF FpInv

\* Each of the three requests begins so.
LEMMA FpAsked ==
  ASSUME FpInv, NEW i \in Indicators,
         \/ \E b \in Brightness, p \in BOOLEAN : SetFPDBrightness(i, b, p)
         \/ \E on \in BOOLEAN : SetFPDState(i, on)
         \/ \E color \in Colors : SetFPDColor(i, color)
  PROVE  FpInv'
<1>1. CASE \E b \in Brightness, p \in BOOLEAN : SetFPDBrightness(i, b, p)
  <2>1. PICK b \in Brightness, p \in BOOLEAN : SetFPDBrightness(i, b, p)
    BY <1>1
  <2>2. fpWanted' = IF i = "power" /\ p THEN fpWanted \cup {b} ELSE fpWanted
    BY <2>1 DEF SetFPDBrightness
  <2>3. p /\ i = "power" => b \in fpWanted' /\ b \in Brightness
    BY <2>2
  <2>4. fpWanted \subseteq fpWanted' /\ fpWanted' \subseteq Brightness \cup {MaxBrightness}
    BY <2>2 DEF FpInv, FpTypes
  <2>5. FpBegin([FpRequest("brightness", i, b) EXCEPT !.persist = p]) /\ "brightness" \in FpNames
    BY <2>1 DEF SetFPDBrightness, FpNames
  <2> QED BY <2>3, <2>4, <2>5, FpBegins
<1>2. ASSUME NEW name \in FpNames, NEW v \in BOOLEAN \cup Colors, FpBegin(FpRequest(name, i, v)), UNCHANGED fpWanted
      PROVE  FpInv'
  <2> DEFINE r == FpRequest(name, i, v)
  <2>0. r.persist = FALSE /\ r = [x \in DOMAIN r |-> r[x]]
    BY DEF FpRequest
  <2>1. r = [r EXCEPT !.persist = FALSE]
    BY <2>0, Zenon
  <2>2. fpWanted \subseteq fpWanted' /\ fpWanted' \subseteq Brightness \cup {MaxBrightness}
    BY <1>2 DEF FpInv, FpTypes
  <2>3. FpBegin([r EXCEPT !.persist = FALSE]) /\ v \in Brightness \cup BOOLEAN \cup Colors
    BY <1>2, <2>1
  <2> QED BY <2>2, <2>3, FpBegins
<1>3. CASE \E on \in BOOLEAN : SetFPDState(i, on)
  BY <1>2, <1>3 DEF SetFPDState, FpNames
<1>4. CASE \E color \in Colors : SetFPDColor(i, color)
  BY <1>2, <1>4 DEF SetFPDColor, FpNames
<1> QED BY <1>1, <1>3, <1>4

\* A call fails: what was expected before it is expected again.
LEMMA FpFailure ==
  ASSUME FpInv, fpCall # NoFpCall, fpCall.step # "persist", FpFails,
         UNCHANGED <<fpd_isPlatInitialized, powerBrightness, panelState, led, fpKept>>
  PROVE  FpInv'
<1>1. LoadBrightness' = LoadBrightness
  BY LoadsWhatIsKept
<1>2. fpCall.was \subseteq Brightness \cup {MaxBrightness}
  BY DEF FpInv, FpTypes, FpRequests
<1> QED BY <1>1, <1>2 DEF FpInv, FpTypes, CallCanFail, FpFails

\* The first call tries to initialise the HAL (EnsurePlatInit).
LEMMA FpInitialises == ASSUME FpInv, EnsurePlatInit PROVE FpInv'
<1>1. fpCall \in FpRequests /\ fpCall # NoFpCall /\ fpCall.step = "init" /\ CallCanFail
  BY NoCallHasNoStep DEF FpInv, FpTypes, EnsurePlatInit
<1>2. UNCHANGED <<panelState, led>>
  BY DEF EnsurePlatInit
<1>3. CASE /\ fpd_isPlatInitialized' = TRUE /\ powerBrightness' = LoadBrightness
           /\ fpKept' = {LoadBrightness} /\ FpStep(fpCall.name) /\ UNCHANGED fpWanted
  <2>1. LoadBrightness' = LoadBrightness
    BY <1>3, LoadsWhatIsKept
  <2>2. /\ fpCall' \in FpRequests /\ fpCall'.was = fpCall.was /\ fpCall'.step \in FpNames
        /\ fpCall'.indicator = fpCall.indicator /\ fpCall'.value = fpCall.value /\ fpCall'.persist = fpCall.persist
    BY <1>1, <1>3 DEF FpStep, FpRequests
  <2>3. FpTypes'
    BY <1>2, <1>3, <2>2 DEF FpInv, FpTypes
  <2>4. CallCanFail'
    BY <1>1, <1>3, <2>1, <2>2 DEF CallCanFail, Remembers, FpNames
  <2> QED BY <1>3, <2>1, <2>3, <2>4 DEF FpInv
<1>4. CASE /\ fpCall' = [fpCall EXCEPT !.tries = @ + 1]
           /\ UNCHANGED <<fpWanted, fpd_isPlatInitialized, powerBrightness, fpKept>>
  <2>1. LoadBrightness' = LoadBrightness
    BY <1>4, LoadsWhatIsKept
  <2>2. /\ fpCall' \in FpRequests /\ fpCall'.was = fpCall.was /\ fpCall'.step = fpCall.step
        /\ fpCall'.indicator = fpCall.indicator /\ fpCall'.value = fpCall.value /\ fpCall'.persist = fpCall.persist
    BY <1>1, <1>4 DEF FpRequests
  <2>3. FpTypes'
    BY <1>2, <1>4, <2>2 DEF FpInv, FpTypes
  <2>4. CallCanFail'
    BY <1>1, <1>4, <2>1, <2>2 DEF CallCanFail, Remembers
  <2> QED BY <1>4, <2>1, <2>3, <2>4 DEF FpInv
<1>5. CASE FpFails /\ UNCHANGED <<fpd_isPlatInitialized, powerBrightness, fpKept>>
  BY <1>1, <1>2, <1>5, FpFailure
<1> QED BY <1>3, <1>4, <1>5 DEF EnsurePlatInit

\* The HAL takes or refuses a brightness (dsSetFPBrightness).
LEMMA FpLights == ASSUME FpInv, dsSetFPBrightness PROVE FpInv'
<1>1. fpCall \in FpRequests /\ fpCall # NoFpCall /\ fpCall.step = "brightness" /\ CallCanFail
  BY NoCallHasNoStep DEF FpInv, FpTypes, dsSetFPBrightness
<1>2. UNCHANGED <<fpd_isPlatInitialized, panelState, fpKept>> /\ LoadBrightness' = LoadBrightness
  BY LoadsWhatIsKept DEF dsSetFPBrightness
<1>3. CASE FpFails /\ UNCHANGED <<led, powerBrightness>>
  BY <1>1, <1>2, <1>3, FpFailure
<1>4. CASE /\ led' = [led EXCEPT ![fpCall.indicator] = fpCall.value] /\ UNCHANGED fpWanted
           /\ Remembers(fpCall) /\ powerBrightness' = fpCall.value /\ FpStep("persist")
  <2>1. /\ fpCall' \in FpRequests /\ fpCall'.was = fpCall.was /\ fpCall'.step = "persist"
        /\ fpCall'.indicator = fpCall.indicator /\ fpCall'.value = fpCall.value /\ fpCall'.persist = fpCall.persist
    BY <1>1, <1>4 DEF FpStep, FpRequests
  <2>2. FpTypes'
    BY <1>2, <1>4, <2>1 DEF FpInv, FpTypes
  <2>3. CallCanFail'
    BY <1>1, <1>2, <1>4, <2>1 DEF CallCanFail, Remembers
  <2> QED BY <1>1, <1>2, <1>4, <2>2, <2>3 DEF FpInv, CallCanFail
<1>5. CASE /\ led' = [led EXCEPT ![fpCall.indicator] = fpCall.value] /\ UNCHANGED fpWanted
           /\ FpSucceeds /\ UNCHANGED powerBrightness
  BY <1>2, <1>5 DEF FpInv, FpTypes, FpSucceeds
<1> QED BY <1>3, <1>4, <1>5 DEF dsSetFPBrightness

\* The brightness shown becomes the one a restart loads (persistBrightness).
LEMMA FpSaves == ASSUME FpInv, persistBrightness PROVE FpInv'
<1>1. LoadBrightness' = powerBrightness /\ fpd_isPlatInitialized
  BY LoadsWhatIsKept, NoCallHasNoStep DEF persistBrightness, FpInv, FpTypes, CallCanFail
<1>2. powerBrightness \in fpWanted
  BY <1>1 DEF FpInv
<1> QED BY <1>1, <1>2 DEF persistBrightness, FpInv, FpTypes, FpSucceeds

\* State and color change nothing the brightness depends on.
LEMMA FpSwitches == ASSUME FpInv, dsSetFPState \/ dsSetFPColor PROVE FpInv'
<1>1. UNCHANGED <<fpd_isPlatInitialized, powerBrightness, fpKept, fpWanted>> /\ LoadBrightness' = LoadBrightness
  BY LoadsWhatIsKept DEF dsSetFPState, dsSetFPColor
<1>2. fpCall' = NoFpCall /\ DOMAIN led' = Indicators /\ DOMAIN panelState' = Indicators
  BY DEF dsSetFPState, dsSetFPColor, FpSucceeds, FpInv, FpTypes
<1> QED BY <1>1, <1>2 DEF FpInv, FpTypes

\* Every step keeps what is expected of the brightness.
LEMMA FpStepKeeps == FpInv /\ [FpNext]_fpVars => FpInv'
<1> SUFFICES ASSUME FpInv, [FpNext]_fpVars PROVE FpInv'
  OBVIOUS
<1>1. CASE UNCHANGED fpVars
  <2>1. LoadBrightness' = LoadBrightness
    BY <1>1, LoadsWhatIsKept DEF fpVars
  <2> QED BY <1>1, <2>1 DEF fpVars, FpInv, FpTypes, CallCanFail
<1> QED
  BY <1>1, FpProcess, FpAsked, FpInitialises, FpLights, FpSaves, FpSwitches DEF FpNext

\* An indicator switched on lights with the brightness last persisted for the
\* power indicator, or the one an interrupted call asked for, whatever failed,
\* crashed or was created again before (dsSetFPState, EnsurePlatInit).
THEOREM OnShowsSaved == FpSpec => OnShowsSavedBrightness
<1> DEFINE Shows == \A i \in Indicators :
       fpCall # NoFpCall /\ fpCall.name = "state" /\ panelState'[i] # panelState[i]
         /\ panelState'[i] = "on" /\ fpStage = "up" => led'[i] \in fpWanted
<1>1. FpInv /\ [FpNext]_fpVars => [Shows]_fpVars
  <2> SUFFICES ASSUME FpInv, FpNext, NEW i \in Indicators,
                      panelState'[i] # panelState[i], panelState'[i] = "on"
               PROVE  led'[i] \in fpWanted
    OBVIOUS
  <2>1. CASE dsSetFPState
    <3>1. fpCall # NoFpCall /\ CallCanFail /\ fpCall \in FpRequests
      BY <2>1, NoCallHasNoStep DEF FpInv, FpTypes, dsSetFPState
    <3>2. /\ led' = [led EXCEPT ![fpCall.indicator] = LitWith(fpCall.value)]
          /\ panelState' = [panelState EXCEPT ![fpCall.indicator] = IF fpCall.value THEN "on" ELSE "off"]
      BY <2>1 DEF dsSetFPState
    <3>3. i = fpCall.indicator /\ fpCall.value
      BY <3>1, <3>2 DEF FpInv, FpTypes
    <3>4. led'[i] = powerBrightness
      BY <3>2, <3>3 DEF FpInv, FpTypes, LitWith
    <3>5. fpd_isPlatInitialized
      BY <2>1, <3>1 DEF CallCanFail, dsSetFPState
    <3> QED BY <3>4, <3>5 DEF FpInv
  <2>2. CASE FpInitialiseHAL
    BY <2>2 DEF FpInitialiseHAL
  <2>3. FpInitialiseHAL \/ dsSetFPState \/ UNCHANGED panelState
    BY DEF FpNext, FpDeInitialiseHAL, FpCrash, FpStop, SetFPDBrightness, SetFPDState, SetFPDColor,
           FpBegin, EnsurePlatInit, dsSetFPBrightness, persistBrightness, dsSetFPColor
  <2> QED BY <2>1, <2>2, <2>3
<1>2. FpInv /\ [FpNext]_fpVars => [Shows]_fpVars
  BY <1>1
<1> QED BY FpStarts, FpStepKeeps, <1>1, PTL DEF FpSpec, OnShowsSavedBrightness

-----------------------------------------------------------------------------
(* The display.                                                            *)

DpEvents == {"CONNECTED", "DISCONNECTED"}
Fills == {NoFill} \cup [step : {"waiting"}, kind : Kinds]
           \cup [step : {"fetched"}, kind : Kinds, edid : Displays \ {"none"}]
EdidTypes ==
  /\ dpStage \in {"down", "listening", "starting", "sampled", "up"}
  /\ plugged \in Displays \cup {"none"}
  /\ dpEvents \in Seq(DpEvents)
  /\ cachedEdid \in [Kinds -> Displays \cup {"none"}]
  /\ fill \in [DpCallers -> Fills]
  /\ missed \in [Kinds -> BOOLEAN]
  /\ dpStage = "down" => dpEvents = <<>> /\ \A c \in DpCallers : fill[c] = NoFill

Leaving == \E i \in 1..Len(dpEvents) : dpEvents[i] = "DISCONNECTED"
IsOfPlugged(k) ==
  /\ cachedEdid[k] \in {"none", plugged}
  /\ \A c \in DpCallers : fill[c].step = "fetched" /\ fill[c].kind = k => fill[c].edid = plugged
\* Unless a disconnection is on its way, what is cached and what is about to
\* be is the EDID of the sink that is plugged in.
EdidInv == EdidTypes /\ (~Leaving => \A k \in Kinds : ~missed[k] => IsOfPlugged(k))

\* What the step of a cache fill says of it.
LEMMA FillSteps ==
  /\ NoFill.step = "none"
  /\ \A f \in Fills : f.step = "waiting" => f \in [step : {"waiting"}, kind : Kinds]
  /\ \A f \in Fills : f.step = "fetched" => f.kind \in Kinds /\ f.edid \in Displays /\ f.edid # "none"
BY DEF NoFill, Fills

\* Nothing is cached.
LEMMA EdidStarts == DpInit => EdidInv
<1> SUFFICES ASSUME DpInit PROVE EdidInv
  OBVIOUS
<1>1. EdidTypes
  BY DEF DpInit, EdidTypes, Fills
<1>2. \A k \in Kinds : IsOfPlugged(k)
  BY FillSteps DEF DpInit, IsOfPlugged
<1> QED BY <1>1, <1>2 DEF EdidInv

\* What a new event at the tail, or the one delivered, says of a disconnection.
LEMMA EventsMove ==
  ASSUME EdidTypes
  PROVE  /\ \A e \in DpEvents : dpEvents' = Append(dpEvents, e) =>
              /\ dpEvents' \in Seq(DpEvents)
              /\ ~Leaving' => ~Leaving /\ e # "DISCONNECTED"
         /\ dpEvents # <<>> /\ dpEvents' = Tail(dpEvents) =>
              /\ dpEvents' \in Seq(DpEvents) /\ Head(dpEvents) \in DpEvents
              /\ Head(dpEvents) # "DISCONNECTED" /\ ~Leaving' => ~Leaving
<1>0. dpEvents \in Seq(DpEvents)
  BY DEF EdidTypes
<1>1. ASSUME NEW e \in DpEvents, dpEvents' = Append(dpEvents, e), ~Leaving'
      PROVE  ~Leaving /\ e # "DISCONNECTED"
  <2>1. Len(dpEvents') = Len(dpEvents) + 1 /\ dpEvents'[Len(dpEvents) + 1] = e
        /\ \A i \in 1..Len(dpEvents) : dpEvents'[i] = dpEvents[i]
    BY <1>0, <1>1
  <2> QED BY <1>0, <1>1, <2>1 DEF Leaving
<1>2. ASSUME dpEvents # <<>>, dpEvents' = Tail(dpEvents), Head(dpEvents) # "DISCONNECTED", ~Leaving'
      PROVE  ~Leaving
  <2>1. SUFFICES ASSUME NEW i \in 1..Len(dpEvents), dpEvents[i] = "DISCONNECTED" PROVE FALSE
    BY DEF Leaving
  <2>2. i # 1 /\ i - 1 \in 1..Len(dpEvents') /\ dpEvents'[i - 1] = dpEvents[i]
    BY <1>0, <1>2, <2>1
  <2> QED BY <1>2, <2>1, <2>2 DEF Leaving
<1> QED BY <1>0, <1>1, <1>2

\* A step that leaves sink, events, caches and fills alone.
LEMMA EdidUntouched ==
  ASSUME EdidInv, UNCHANGED <<plugged, dpEvents, cachedEdid, fill, missed>>,
         dpStage' \in {"down", "listening", "starting", "sampled", "up"},
         dpStage' = "down" => dpEvents = <<>> /\ \A c \in DpCallers : fill[c] = NoFill
  PROVE  EdidInv'
BY DEF EdidInv, EdidTypes, Leaving, IsOfPlugged

\* A sink comes or goes, heard of or not (Plug).
LEMMA EdidPlug == ASSUME EdidInv, NEW d \in Displays \cup {"none"}, Plug(d) PROVE EdidInv'
<1>1. /\ d # plugged /\ "none" \in {d, plugged} /\ plugged' = d
      /\ dpEvents' = IF dpStage # "down" THEN Append(dpEvents, Hotplug(d)) ELSE dpEvents
      /\ UNCHANGED <<dpStage, cachedEdid, fill>>
      /\ missed' = [k \in Kinds |-> missed[k] \/ (dpStage = "down" /\ cachedEdid[k] # "none")]
  BY DEF Plug
<1>2. missed' \in [Kinds -> BOOLEAN]
      /\ \A k \in Kinds : ~missed'[k] => ~missed[k] /\ (dpStage # "down" \/ cachedEdid[k] = "none")
  BY <1>1, Zenon DEF EdidInv, EdidTypes
<1>3. Hotplug(d) \in DpEvents /\ (Hotplug(d) # "DISCONNECTED" => d # "none")
  BY DEF Hotplug, DpEvents
<1>4. CASE dpStage = "down"
  <2>1. EdidTypes'
    BY <1>1, <1>2, <1>4 DEF EdidInv, EdidTypes
  <2>2. ASSUME NEW k \in Kinds, ~missed'[k] PROVE IsOfPlugged(k)'
    BY <1>1, <1>2, <1>4, <2>2, FillSteps DEF EdidInv, EdidTypes, IsOfPlugged
  <2> QED BY <2>1, <2>2 DEF EdidInv
<1>5. CASE dpStage # "down"
  <2>1. EdidTypes'
    BY <1>1, <1>2, <1>3, <1>5, EventsMove DEF EdidInv, EdidTypes
  <2>2. ASSUME ~Leaving', NEW k \in Kinds, ~missed'[k] PROVE IsOfPlugged(k)'
    <3>1. ~Leaving /\ d # "none" /\ plugged = "none"
      BY <1>1, <1>3, <1>5, <2>2, EventsMove DEF EdidInv
    <3>2. IsOfPlugged(k)
      BY <1>2, <2>2, <3>1 DEF EdidInv
    <3>3. \A c \in DpCallers : fill[c].step = "fetched" => fill[c].edid # "none"
      BY FillSteps DEF EdidInv, EdidTypes
    <3> QED BY <1>1, <3>1, <3>2, <3>3 DEF IsOfPlugged
  <2> QED BY <2>1, <2>2 DEF EdidInv
<1> QED BY <1>4, <1>5

\* An event is handled; a disconnection empties the caches.
LEMMA EdidEvent == ASSUME EdidInv, dsDisplayEventCallback PROVE EdidInv'
<1>1. dpEvents # <<>> /\ dpEvents' = Tail(dpEvents) /\ UNCHANGED <<dpStage, plugged, fill>>
  BY DEF dsDisplayEventCallback
<1>2. dpEvents' \in Seq(DpEvents) /\ dpStage # "down"
  BY <1>1, EventsMove DEF EdidInv, EdidTypes
<1>3. CASE Head(dpEvents) = "DISCONNECTED"
  <2>1. cachedEdid' = [k \in Kinds |-> "none"] /\ missed' = [k \in Kinds |-> Fetched(k)]
    BY <1>3 DEF dsDisplayEventCallback, ResetEdidCaches
  <2>2. missed' \in [Kinds -> BOOLEAN] /\ \A k \in Kinds : ~missed'[k] => ~Fetched(k)
    BY <2>1, Zenon DEF Fetched
  <2>3. EdidTypes'
    BY <1>1, <1>2, <2>1, <2>2 DEF EdidInv, EdidTypes
  <2>4. \A k \in Kinds : ~missed'[k] => IsOfPlugged(k)'
    BY <1>1, <2>1, <2>2 DEF IsOfPlugged, Fetched
  <2> QED BY <2>3, <2>4 DEF EdidInv
<1>4. CASE Head(dpEvents) # "DISCONNECTED"
  <2>1. UNCHANGED <<cachedEdid, missed>>
    BY <1>4 DEF dsDisplayEventCallback
  <2>2. ~Leaving' => ~Leaving
    BY <1>1, <1>4, EventsMove DEF EdidInv
  <2> QED BY <1>1, <1>2, <2>1, <2>2 DEF EdidInv, EdidTypes, IsOfPlugged
<1> QED BY <1>3, <1>4

\* A caller's fill begins, fetches, or is cached.
LEMMA EdidFill ==
  ASSUME EdidInv, NEW c \in DpCallers,
         FetchEdid(c) \/ CacheEdid(c) \/ \E k \in Kinds : GetDisplayEdid(c, k)
  PROVE  EdidInv'
<1>0. EdidTypes /\ fill[c] \in Fills
  BY DEF EdidInv, EdidTypes
<1>1. UNCHANGED <<dpStage, plugged, dpEvents, missed>> /\ (Leaving' <=> Leaving)
  BY DEF FetchEdid, CacheEdid, GetDisplayEdid, Leaving
<1>2. PICK f : fill' = [fill EXCEPT ![c] = f] /\ f \in Fills
               /\ (f.step = "fetched" => f.edid = plugged /\ UNCHANGED cachedEdid)
  <2>1. CASE FetchEdid(c)
    <3> DEFINE f == IF plugged = "none" THEN NoFill ELSE [step |-> "fetched", kind |-> fill[c].kind, edid |-> plugged]
    <3>1. fill[c].kind \in Kinds
      BY <1>0, <2>1, FillSteps DEF FetchEdid
    <3>2. f \in Fills /\ (f.step = "fetched" => f.edid = plugged)
      BY <1>0, <3>1, FillSteps DEF Fills, EdidTypes
    <3>3. fill' = [fill EXCEPT ![c] = f] /\ UNCHANGED cachedEdid
      BY <2>1 DEF FetchEdid
    <3> QED BY <3>2, <3>3
  <2>2. CASE CacheEdid(c)
    BY <2>2, FillSteps DEF CacheEdid, Fills
  <2>3. CASE \E k \in Kinds : GetDisplayEdid(c, k)
    <3>1. PICK k \in Kinds : fill' = [fill EXCEPT ![c] = [step |-> "waiting", kind |-> k]]
      BY <2>3 DEF GetDisplayEdid
    <3> DEFINE f == [step |-> "waiting", kind |-> k]
    <3>2. f \in Fills /\ f.step # "fetched"
      BY DEF Fills
    <3> QED BY <3>1, <3>2
  <2> QED BY <2>1, <2>2, <2>3
<1>3. cachedEdid' = cachedEdid \/ /\ CacheEdid(c) /\ fill[c].step = "fetched" /\ fill[c].kind \in Kinds
                                  /\ cachedEdid' = [cachedEdid EXCEPT ![fill[c].kind] = fill[c].edid]
  BY <1>0, FillSteps DEF FetchEdid, CacheEdid, GetDisplayEdid
<1>4. cachedEdid' \in [Kinds -> Displays \cup {"none"}]
  BY <1>0, <1>3, FillSteps DEF EdidTypes
<1>5. EdidTypes'
  <2>1. dpStage # "down"
    BY <1>0, FillSteps DEF EdidTypes, FetchEdid, CacheEdid, GetDisplayEdid
  <2> QED BY <1>0, <1>1, <1>2, <1>4, <2>1 DEF EdidTypes
<1>6. ASSUME ~Leaving, NEW k \in Kinds, ~missed[k] PROVE IsOfPlugged(k)'
  <2>1. IsOfPlugged(k)
    BY <1>6 DEF EdidInv
  <2>2. cachedEdid'[k] \in {"none", plugged}
    BY <1>0, <1>3, <2>1 DEF IsOfPlugged, EdidTypes
  <2>3. \A d \in DpCallers : fill'[d].step = "fetched" /\ fill'[d].kind = k => fill'[d].edid = plugged
    BY <1>0, <1>2, <2>1 DEF IsOfPlugged, EdidTypes
  <2> QED BY <1>1, <2>2, <2>3 DEF IsOfPlugged
<1> QED BY <1>1, <1>5, <1>6 DEF EdidInv

\* Every step keeps the caches to the sink that is plugged in.
LEMMA EdidStepKeeps == EdidInv /\ [DpNext]_dpVars => EdidInv'
<1> SUFFICES ASSUME EdidInv, [DpNext]_dpVars PROVE EdidInv'
  OBVIOUS
<1>1. CASE UNCHANGED dpVars
  BY <1>1, EdidUntouched DEF dpVars, dpEdid, EdidInv, EdidTypes
<1>2. CASE \/ registerDisplayEventCallbacks \/ InitialiseVideoPort \/ SampleConnection
           \/ RegisterHdcpCallback \/ DpDeInitialiseHAL
  BY <1>2, EdidUntouched DEF dpEdid, registerDisplayEventCallbacks, InitialiseVideoPort, SampleConnection,
       RegisterHdcpCallback, DpDeInitialiseHAL
<1>3. CASE \/ \E s \in {"AUTHENTICATED", "UNAUTHENTICATED"}, v \in {"1X", "2X"} : VideoPortHDCPStatusCallback(s, v)
           \/ \E t \in FileThreads : ReadStatusFile(t) \/ _dsSyncHdmiStatus(t)
           \/ \E v \in 0..1 : SetAllmEnabled(v) \/ SetAVIContentType(v) \/ SetAVIScanInformation(v)
  <2>1. UNCHANGED <<dpStage, plugged, dpEvents, cachedEdid, fill, missed>>
    BY <1>3 DEF dpEdid, VideoPortHDCPStatusCallback, ReadStatusFile, _dsSyncHdmiStatus, SetAllmEnabled,
         SetAVIContentType, SetAVIScanInformation, SetSignal
  <2> QED BY <2>1, EdidUntouched DEF EdidInv, EdidTypes
<1> QED BY <1>1, <1>2, <1>3, EdidPlug, EdidEvent, EdidFill DEF DpNext

\* Once the HAL's events are handled, a cached EDID is that of the sink that is
\* plugged in, for any callers, sinks and number of plugs and restarts, unless
\* a disconnection overlapped a fill or the absence of the callback
\* (ResetEdidCaches, CacheEdid).
THEOREM CachedEdidsArePlugged == DpSpec => []CachedEdidIsPlugged
<1>1. EdidInv => CachedEdidIsPlugged
  BY DEF EdidInv, EdidTypes, CachedEdidIsPlugged, EventsHandled, IsOfPlugged, Leaving
<1> QED BY EdidStarts, EdidStepKeeps, <1>1, PTL DEF DpSpec

-----------------------------------------------------------------------------
Words == {"none", "CONNECTED", "DISCONNECTED", "AUTHENTICATED", "UNAUTHENTICATED", "1X", "2X"}
Files == [Keys -> Words]
Lines == Keys \X Words
Todos == {<<>>} \cup {<<l>> : l \in Lines} \cup {<<l, m>> : l \in Lines, m \in Lines}
FileTypes ==
  /\ dpStage \in {"down", "listening", "starting", "sampled", "up"}
  /\ dpEvents \in Seq(DpEvents)
  /\ lines \in Files
  /\ rewrite \in [FileThreads -> [todo : Todos, read : {<<>>} \cup {<<f>> : f \in Files}]]
  /\ hdcpLine \in Words \X Words
  /\ lost \in BOOLEAN
  /\ dpStage = "down" => dpEvents = <<>>
  /\ dpEvents # <<>> => dpEvents[Len(dpEvents)] = Hotplug(plugged)
  /\ \A t \in FileThreads : Writing(t) => rewrite[t].todo # <<>>
  /\ dpStage # "up" => rewrite["hdcp"] = NoRewrite
  /\ dpStage \in {"down", "listening", "up"} => rewrite["start"] = NoRewrite
  /\ dpStage = "down" => rewrite["display"] = NoRewrite

HotplugLine(s) == << <<"hotplug", s>> >>
\* One thread writes the file as it is.
OneWriter ==
  /\ \A t \in FileThreads : rewrite[t].read \in {<<>>, <<lines>>}
  /\ \A t, u \in FileThreads : Writing(t) /\ Writing(u) => t = u
\* The display's thread writes the last event, or an earlier one while the
\* HAL has more.
DisplayWrites ==
  \/ rewrite["display"].todo = <<>>
  \/ \E s \in DpEvents : /\ rewrite["display"].todo = HotplugLine(s)
                         /\ dpEvents = <<>> => s = Hotplug(plugged)
\* The lines of the last HDCP report are written or thread t has them to write.
HdcpWrites(t) ==
  \/ rewrite[t].todo = << <<"hdcp_status", hdcpLine[1]>>, <<"hdcp_version", hdcpLine[2]>> >>
  \/ rewrite[t].todo = << <<"hdcp_version", hdcpLine[2]>> >> /\ lines["hdcp_status"] = hdcpLine[1]
  \/ rewrite[t].todo = <<>> /\ lines["hdcp_status"] = hdcpLine[1] /\ lines["hdcp_version"] = hdcpLine[2]
HotplugWritten ==
  dpStage \in {"sampled", "up"} /\ dpEvents = <<>>
    /\ rewrite["start"].todo = <<>> /\ rewrite["display"].todo = <<>> =>
  lines["hotplug"] = Hotplug(plugged)
FileFollows ==
  /\ OneWriter /\ DisplayWrites /\ HotplugWritten
  /\ dpStage = "starting" => HdcpWrites("start")
  /\ dpStage = "sampled" => rewrite["start"].todo \in {<<>>, HotplugLine(Hotplug(plugged))}
  /\ dpStage \in {"sampled", "up"} => HdcpWrites("hdcp")
FileInv == FileTypes /\ (~lost => FileFollows)

\* What the threads are given to write.
LEMMA TodosAreLines ==
  /\ <<>> \in Todos
  /\ \A w \in Words : HotplugLine(w) \in Todos /\ HotplugLine(w) # <<>>
  /\ \A w, x \in Words : << <<"hdcp_status", w>>, <<"hdcp_version", x>> >> \in Todos
  /\ \A w, x : << <<"hdcp_status", w>>, <<"hdcp_version", x>> >> # <<>>
<1>1. \A k \in Keys, w \in Words : <<k, w>> \in Lines
  BY DEF Lines
<1>2. \A l, m \in Lines : <<l>> \in Todos /\ <<l, m>> \in Todos
  BY DEF Todos
<1>3. \A l, m : <<l>> # <<>> /\ <<l, m>> # <<>>
  OBVIOUS
<1>4. "hotplug" \in Keys /\ "hdcp_status" \in Keys /\ "hdcp_version" \in Keys /\ <<>> \in Todos
  BY DEF Keys, Todos
<1> QED BY <1>1, <1>2, <1>3, <1>4 DEF HotplugLine

\* The last event stays the last as the first is delivered.
LEMMA LastEvent ==
  ASSUME NEW q \in Seq(DpEvents), q # <<>>
  PROVE  /\ Tail(q) \in Seq(DpEvents) /\ Head(q) \in DpEvents
         /\ Tail(q) # <<>> => Tail(q)[Len(Tail(q))] = q[Len(q)]
         /\ Tail(q) = <<>> => Head(q) = q[Len(q)]
<1>1. Len(q) \in Nat /\ Len(q) # 0 /\ Len(Tail(q)) = Len(q) - 1 /\ Head(q) = q[1] /\ q[1] \in DpEvents
      /\ Tail(q) \in Seq(DpEvents)
  OBVIOUS
<1>2. Tail(q) # <<>> => Len(q) - 1 \in 1..Len(Tail(q))
  BY <1>1
<1>3. \A i \in 1..Len(Tail(q)) : Tail(q)[i] = q[i + 1]
  OBVIOUS
<1>4. Tail(q) = <<>> => Len(q) = 1
  BY <1>1
<1>5. Tail(q) # <<>> => Tail(q)[Len(q) - 1] = q[(Len(q) - 1) + 1]
  BY <1>2, <1>3
<1> QED BY <1>1, <1>4, <1>5

\* The file is empty and no thread writes.
LEMMA FileStarts == DpInit => FileInv
<1> SUFFICES ASSUME DpInit PROVE FileInv
  OBVIOUS
<1>0. /\ NoRewrite \in [todo : Todos, read : {<<>>} \cup {<<f>> : f \in Files}] /\ NoRewrite.read = <<>>
      /\ lines \in Files /\ hdcpLine \in Words \X Words /\ <<>> \in Seq(DpEvents)
  <2>1. lines \in Files
    BY DEF DpInit, Files, Words
  <2>2. hdcpLine \in Words \X Words
    BY DEF DpInit, Words
  <2> QED BY <2>1, <2>2, TodosAreLines DEF NoRewrite
<1>1. FileTypes
  BY <1>0 DEF DpInit, FileTypes, Writing, FileThreads
<1>2. FileFollows
  BY DEF DpInit, FileFollows, OneWriter, DisplayWrites, HotplugWritten, HdcpWrites, NoRewrite, Writing, FileThreads
<1> QED BY <1>1, <1>2 DEF FileInv

\* A thread that has nothing left to write has read nothing.
LEMMA IdleThreads ==
  ASSUME FileTypes, NEW t \in FileThreads
  PROVE  /\ rewrite[t].todo = <<>> <=> rewrite[t] = NoRewrite
         /\ rewrite[t] = NoRewrite => rewrite[t].read = <<>> /\ rewrite[t].todo = <<>>
BY DEF FileTypes, NoRewrite, Writing

\* The first line to write and the rest.
LEMMA TodoSteps ==
  /\ \A l : Head(<<l>>) = l /\ Tail(<<l>>) = <<>>
  /\ \A l, m : Head(<<l, m>>) = l /\ Tail(<<l, m>>) = <<m>>
OBVIOUS

\* A thread gets something to write.
LEMMA ThreadGets ==
  ASSUME FileTypes, NEW t \in FileThreads, NEW todo \in Todos, rewrite[t].read = <<>>, Rewrites(t, todo)
  PROVE  /\ rewrite' \in [FileThreads -> [todo : Todos, read : {<<>>} \cup {<<f>> : f \in Files}]]
         /\ rewrite'[t].todo = todo
         /\ \A u \in FileThreads : rewrite'[u].read = rewrite[u].read /\ (Writing(u)' <=> Writing(u))
         /\ \A u \in FileThreads \ {t} : rewrite'[u] = rewrite[u]
BY DEF FileTypes, Rewrites, Writing

\* A step of the process that leaves the file's lines and the sink alone.
LEMMA FileProcess ==
  ASSUME FileInv, \/ registerDisplayEventCallbacks \/ InitialiseVideoPort \/ SampleConnection
                  \/ RegisterHdcpCallback \/ DpDeInitialiseHAL
  PROVE  FileInv'
<1>0. FileTypes /\ {"start", "display", "hdcp"} = FileThreads
  BY DEF FileInv, FileThreads
<1>1. CASE registerDisplayEventCallbacks
  <2>1. dpStage = "down" /\ dpStage' = "listening" /\ lost' = FALSE
        /\ UNCHANGED <<plugged, dpEvents, lines, rewrite, hdcpLine>>
    BY <1>1 DEF registerDisplayEventCallbacks
  <2>2. \A t \in FileThreads : rewrite[t] = NoRewrite
    BY <1>0, <2>1 DEF FileTypes
  <2>3. \A t \in FileThreads : rewrite'[t].todo = <<>> /\ rewrite'[t].read = <<>>
    BY <1>0, <2>1, <2>2, IdleThreads
  <2>4. FileTypes'
    BY <1>0, <2>1 DEF FileTypes, Writing
  <2>5. FileFollows'
    BY <1>0, <2>1, <2>3 DEF FileFollows, OneWriter, DisplayWrites, HotplugWritten, Writing
  <2> QED BY <2>4, <2>5 DEF FileInv
<1>2. CASE InitialiseVideoPort
  <2> DEFINE todo == << <<"hdcp_status", "UNAUTHENTICATED">>, <<"hdcp_version", "1X">> >>
  <2>1. /\ dpStage = "listening" /\ dpStage' = "starting" /\ Rewrites("start", todo)
        /\ hdcpLine' = <<"UNAUTHENTICATED", "1X">> /\ UNCHANGED <<plugged, dpEvents, lines, lost>>
    BY <1>2 DEF InitialiseVideoPort
  <2>2. todo \in Todos /\ todo # <<>>
        /\ todo = << <<"hdcp_status", hdcpLine'[1]>>, <<"hdcp_version", hdcpLine'[2]>> >>
        /\ hdcpLine' \in Words \X Words
    <3>1. "UNAUTHENTICATED" \in Words /\ "1X" \in Words
      BY DEF Words
    <3> QED BY <2>1, <3>1, TodosAreLines
  <2> HIDE DEF todo
  <2>3. rewrite["start"].read = <<>>
    BY <1>0, <2>1, IdleThreads DEF FileTypes
  <2>4. /\ rewrite' \in [FileThreads -> [todo : Todos, read : {<<>>} \cup {<<f>> : f \in Files}]]
        /\ rewrite'["start"].todo = todo
        /\ \A u \in FileThreads : rewrite'[u].read = rewrite[u].read /\ (Writing(u)' <=> Writing(u))
        /\ \A u \in FileThreads \ {"start"} : rewrite'[u] = rewrite[u]
    BY <1>0, <2>1, <2>2, <2>3, ThreadGets
  <2>5. FileTypes'
    BY <1>0, <2>1, <2>2, <2>4 DEF FileTypes
  <2>6. ASSUME FileFollows PROVE FileFollows'
    BY <1>0, <2>1, <2>2, <2>4, <2>6 DEF FileFollows, OneWriter, DisplayWrites, HotplugWritten, HdcpWrites
  <2> QED BY <2>1, <2>5, <2>6 DEF FileInv
<1>3. CASE SampleConnection
  <2> DEFINE todo == HotplugLine(Hotplug(plugged))
  <2>1. /\ dpStage = "starting" /\ rewrite["start"].todo = <<>> /\ dpStage' = "sampled"
        /\ Rewrites("start", todo) /\ UNCHANGED <<plugged, dpEvents, lines, lost, hdcpLine>>
    BY <1>3 DEF SampleConnection, HotplugLine
  <2>2. todo \in Todos /\ todo # <<>>
    <3>1. Hotplug(plugged) \in Words
      BY DEF Words, Hotplug
    <3> QED BY <3>1, TodosAreLines
  <2> HIDE DEF todo
  <2>3. rewrite["start"].read = <<>> /\ rewrite["hdcp"].todo = <<>>
    BY <1>0, <2>1, IdleThreads DEF FileTypes
  <2>4. /\ rewrite' \in [FileThreads -> [todo : Todos, read : {<<>>} \cup {<<f>> : f \in Files}]]
        /\ rewrite'["start"].todo = todo
        /\ \A u \in FileThreads : rewrite'[u].read = rewrite[u].read /\ (Writing(u)' <=> Writing(u))
        /\ \A u \in FileThreads \ {"start"} : rewrite'[u] = rewrite[u]
    BY <1>0, <2>1, <2>2, <2>3, ThreadGets
  <2>5. FileTypes'
    BY <1>0, <2>1, <2>2, <2>4 DEF FileTypes
  <2>6. ASSUME FileFollows PROVE FileFollows'
    <3>1. lines["hdcp_status"] = hdcpLine[1] /\ lines["hdcp_version"] = hdcpLine[2]
      BY <2>1, <2>6 DEF FileFollows, HdcpWrites
    <3>2. rewrite'["start"].todo = HotplugLine(Hotplug(plugged)) /\ rewrite'["start"].todo # <<>>
      BY <2>2, <2>4 DEF todo
    <3> QED BY <1>0, <2>1, <2>3, <2>4, <2>6, <3>1, <3>2 DEF FileFollows, OneWriter, DisplayWrites, HotplugWritten, HdcpWrites
  <2> QED BY <2>1, <2>5, <2>6 DEF FileInv
<1>4. CASE RegisterHdcpCallback
  <2>1. /\ dpStage = "sampled" /\ rewrite["start"].todo = <<>> /\ dpStage' = "up"
        /\ UNCHANGED <<plugged, dpEvents, lines, rewrite, hdcpLine, lost>>
    BY <1>4 DEF RegisterHdcpCallback, dpFile
  <2>2. rewrite["start"] = NoRewrite
    BY <1>0, <2>1, IdleThreads
  <2>3. FileTypes'
    BY <1>0, <2>1, <2>2 DEF FileTypes, Writing
  <2>4. ASSUME FileFollows PROVE FileFollows'
    BY <2>1, <2>4 DEF FileFollows, OneWriter, DisplayWrites, HotplugWritten, HdcpWrites, Writing
  <2> QED BY <2>1, <2>3, <2>4 DEF FileInv
<1>5. CASE DpDeInitialiseHAL
  <2>1. /\ dpStage = "up" /\ dpEvents = <<>> /\ dpStage' = "down"
        /\ \A t \in FileThreads : rewrite[t] = NoRewrite
        /\ UNCHANGED <<plugged, dpEvents, lines, rewrite, hdcpLine, lost>>
    BY <1>5 DEF DpDeInitialiseHAL, dpFile
  <2>2. FileTypes'
    BY <1>0, <2>1 DEF FileTypes, Writing
  <2>3. ASSUME FileFollows PROVE FileFollows'
    BY <2>1, <2>3 DEF FileFollows, OneWriter, DisplayWrites, HotplugWritten, HdcpWrites, Writing
  <2> QED BY <2>1, <2>2, <2>3 DEF FileInv
<1> QED BY <1>1, <1>2, <1>3, <1>4, <1>5

\* A new connection status is queued, or missed with the callback.
LEMMA FilePlug == ASSUME FileInv, NEW d \in Displays \cup {"none"}, Plug(d) PROVE FileInv'
<1>0. FileTypes /\ {"start", "display", "hdcp"} = FileThreads
  BY DEF FileInv, FileThreads
<1>1. /\ plugged' = d /\ UNCHANGED <<dpStage, lines, rewrite, hdcpLine>>
      /\ dpEvents' = IF dpStage # "down" THEN Append(dpEvents, Hotplug(d)) ELSE dpEvents
      /\ lost' \in BOOLEAN /\ (~lost' => ~lost /\ dpStage # "sampled")
  BY <1>0 DEF Plug, FileTypes
<1>2. /\ dpEvents' \in Seq(DpEvents) /\ (dpStage = "down" => dpEvents' = <<>>)
      /\ dpStage # "down" => dpEvents' # <<>> /\ dpEvents'[Len(dpEvents')] = Hotplug(d)
  <2>1. Hotplug(d) \in DpEvents
    BY DEF Hotplug, DpEvents
  <2>2. dpEvents \in Seq(DpEvents) /\ (dpStage = "down" => dpEvents = <<>>)
    BY <1>0 DEF FileTypes
  <2>3. CASE dpStage = "down"
    BY <1>1, <2>2, <2>3
  <2>4. CASE dpStage # "down"
    <3>1. dpEvents' = Append(dpEvents, Hotplug(d)) BY <1>1, <2>4
    <3> QED BY <2>1, <2>2, <2>4, <3>1
  <2> QED BY <2>3, <2>4
<1>3. FileTypes'
  BY <1>0, <1>1, <1>2 DEF FileTypes, Writing
<1>4. ASSUME FileFollows, dpStage # "sampled" PROVE FileFollows'
  <2>1. DisplayWrites'
    <3>1. CASE dpStage = "down"
      <4>1. rewrite'["display"].todo = <<>>
        BY <1>0, <1>1, <3>1, IdleThreads DEF FileTypes
      <4> QED BY <4>1 DEF DisplayWrites
    <3>2. CASE dpStage # "down"
      BY <1>1, <1>2, <1>4, <3>2 DEF FileFollows, DisplayWrites
    <3> QED BY <3>1, <3>2
  <2> QED BY <1>0, <1>1, <1>2, <1>4, <2>1 DEF FileFollows, OneWriter, HotplugWritten, HdcpWrites, Writing
<1> QED BY <1>1, <1>3, <1>4 DEF FileInv

\* The display's thread takes the next event to write.
LEMMA FileEvent == ASSUME FileInv, dsDisplayEventCallback PROVE FileInv'
<1>0. FileTypes /\ {"start", "display", "hdcp"} = FileThreads
  BY DEF FileInv, FileThreads
<1> DEFINE todo == HotplugLine(Head(dpEvents))
<1>1. /\ dpEvents # <<>> /\ rewrite["display"] = NoRewrite /\ dpEvents' = Tail(dpEvents)
      /\ Rewrites("display", todo) /\ UNCHANGED <<dpStage, plugged, lines, hdcpLine, lost>>
  BY DEF dsDisplayEventCallback, HotplugLine
<1>2. /\ dpEvents' \in Seq(DpEvents) /\ Head(dpEvents) \in DpEvents
      /\ dpEvents' # <<>> => dpEvents'[Len(dpEvents')] = dpEvents[Len(dpEvents)]
      /\ dpEvents' = <<>> => Head(dpEvents) = dpEvents[Len(dpEvents)]
  BY <1>0, <1>1, LastEvent DEF FileTypes
<1>3. todo \in Todos /\ todo # <<>>
  <2>1. Head(dpEvents) \in Words
    BY <1>2 DEF Words, DpEvents
  <2> QED BY <2>1, TodosAreLines
<1> HIDE DEF todo
<1>4. /\ rewrite' \in [FileThreads -> [todo : Todos, read : {<<>>} \cup {<<f>> : f \in Files}]]
      /\ rewrite'["display"].todo = todo
      /\ \A u \in FileThreads : rewrite'[u].read = rewrite[u].read /\ (Writing(u)' <=> Writing(u))
      /\ \A u \in FileThreads \ {"display"} : rewrite'[u] = rewrite[u]
  <2>1. rewrite["display"].read = <<>>
    BY <1>0, <1>1, IdleThreads
  <2> QED BY <1>0, <1>1, <1>3, <2>1, ThreadGets
<1>5. FileTypes'
  BY <1>0, <1>1, <1>2, <1>3, <1>4 DEF FileTypes
<1>6. ASSUME FileFollows PROVE FileFollows'
  <2>1. DisplayWrites'
    BY <1>0, <1>1, <1>2, <1>4 DEF FileTypes, DisplayWrites, todo
  <2> QED BY <1>0, <1>1, <1>3, <1>4, <1>6, <2>1 DEF FileFollows, OneWriter, HotplugWritten, HdcpWrites
<1> QED BY <1>1, <1>5, <1>6 DEF FileInv

\* The HDCP thread gets a new report to write.
LEMMA FileReport ==
  ASSUME FileInv, NEW s \in {"AUTHENTICATED", "UNAUTHENTICATED"}, NEW v \in {"1X", "2X"},
         VideoPortHDCPStatusCallback(s, v)
  PROVE  FileInv'
<1>0. FileTypes /\ {"start", "display", "hdcp"} = FileThreads
  BY DEF FileInv, FileThreads
<1> DEFINE todo == << <<"hdcp_status", s>>, <<"hdcp_version", v>> >>
<1>1. /\ dpStage = "up" /\ rewrite["hdcp"] = NoRewrite /\ Rewrites("hdcp", todo) /\ hdcpLine' = <<s, v>>
      /\ UNCHANGED <<dpStage, plugged, dpEvents, lines, lost>>
  BY DEF VideoPortHDCPStatusCallback
<1>2. todo \in Todos /\ todo # <<>> /\ hdcpLine' \in Words \X Words
      /\ todo = << <<"hdcp_status", hdcpLine'[1]>>, <<"hdcp_version", hdcpLine'[2]>> >>
  <2>1. s \in Words /\ v \in Words
    BY DEF Words
  <2> QED BY <1>1, <2>1, TodosAreLines
<1> HIDE DEF todo
<1>3. /\ rewrite' \in [FileThreads -> [todo : Todos, read : {<<>>} \cup {<<f>> : f \in Files}]]
      /\ rewrite'["hdcp"].todo = todo
      /\ \A u \in FileThreads : rewrite'[u].read = rewrite[u].read /\ (Writing(u)' <=> Writing(u))
      /\ \A u \in FileThreads \ {"hdcp"} : rewrite'[u] = rewrite[u]
  <2>1. rewrite["hdcp"].read = <<>>
    BY <1>0, <1>1, IdleThreads
  <2> QED BY <1>0, <1>1, <1>2, <2>1, ThreadGets
<1>4. FileTypes'
  BY <1>0, <1>1, <1>2, <1>3 DEF FileTypes
<1>5. ASSUME FileFollows PROVE FileFollows'
  BY <1>0, <1>1, <1>2, <1>3, <1>5 DEF FileFollows, OneWriter, DisplayWrites, HotplugWritten, HdcpWrites
<1> QED BY <1>1, <1>4, <1>5 DEF FileInv

\* A thread reads the file before it writes.
LEMMA FileRead == ASSUME FileInv, NEW t \in FileThreads, ReadStatusFile(t) PROVE FileInv'
<1>0. FileTypes /\ {"start", "display", "hdcp"} = FileThreads
  BY DEF FileInv, FileThreads
<1>1. /\ rewrite[t].todo # <<>> /\ rewrite[t].read = <<>>
      /\ rewrite' = [rewrite EXCEPT ![t].read = <<lines>>]
      /\ UNCHANGED <<dpStage, plugged, dpEvents, lines, hdcpLine>>
      /\ lost' \in BOOLEAN /\ (~lost' => ~lost /\ \A u \in FileThreads : ~Writing(u))
  BY <1>0 DEF ReadStatusFile, Reading, FileTypes
<1>2. /\ rewrite' \in [FileThreads -> [todo : Todos, read : {<<>>} \cup {<<f>> : f \in Files}]]
      /\ rewrite'[t].todo = rewrite[t].todo /\ rewrite'[t].read = <<lines>>
      /\ \A u \in FileThreads : rewrite'[u].todo = rewrite[u].todo
      /\ \A u \in FileThreads \ {t} : rewrite'[u] = rewrite[u] /\ (Writing(u)' <=> Writing(u))
  BY <1>0, <1>1 DEF FileTypes, Writing
<1>3. rewrite[t] # NoRewrite
  BY <1>1 DEF NoRewrite
<1>4. FileTypes'
  BY <1>0, <1>1, <1>2, <1>3 DEF FileTypes, Writing
<1>5. ASSUME FileFollows, \A u \in FileThreads : ~Writing(u) PROVE FileFollows'
  <2>1. OneWriter'
    BY <1>1, <1>2, <1>5 DEF OneWriter, FileFollows
  <2> QED BY <1>0, <1>1, <1>2, <1>5, <2>1 DEF FileFollows, DisplayWrites, HotplugWritten, HdcpWrites
<1> QED BY <1>1, <1>4, <1>5 DEF FileInv

\* A thread replaces its line in the file it read (_dsSyncHdmiStatus).
LEMMA FileWritten == ASSUME FileInv, NEW t \in FileThreads, _dsSyncHdmiStatus(t) PROVE FileInv'
<1>0. FileTypes /\ {"start", "display", "hdcp"} = FileThreads
  BY DEF FileInv, FileThreads
<1> DEFINE todo == rewrite[t].todo
           line == Head(todo)
           r == [todo |-> Tail(todo), read |-> <<>>]
<1>1. /\ Writing(t) /\ lines' = [rewrite[t].read[1] EXCEPT ![line[1]] = line[2]]
      /\ rewrite' = [rewrite EXCEPT ![t] = r]
      /\ UNCHANGED <<dpStage, plugged, dpEvents, hdcpLine, lost>>
  BY DEF _dsSyncHdmiStatus, LineReplaced
<1>2. todo \in Todos \ {<<>>} /\ rewrite[t].read[1] \in Files /\ rewrite[t] # NoRewrite
  <2>1. rewrite[t].read \in {<<f>> : f \in Files}
    BY <1>0, <1>1 DEF FileTypes, Writing
  <2>2. rewrite[t].read # <<>>
    BY <1>1 DEF Writing
  <2> QED BY <1>0, <1>1, <2>1, <2>2 DEF FileTypes, NoRewrite
<1>3. line \in Lines /\ Tail(todo) \in Todos
  <2>1. CASE \E l \in Lines : todo = <<l>>
    BY <2>1, TodoSteps DEF Todos
  <2>2. CASE \E l, m \in Lines : todo = <<l, m>>
    BY <2>2, TodoSteps DEF Todos
  <2> QED BY <1>2, <2>1, <2>2 DEF Todos
<1>4. lines' \in Files /\ lines'[line[1]] = line[2]
      /\ \A k \in Keys : k # line[1] => lines'[k] = rewrite[t].read[1][k]
  BY <1>1, <1>2, <1>3 DEF Files, Lines
<1>5. /\ rewrite' \in [FileThreads -> [todo : Todos, read : {<<>>} \cup {<<f>> : f \in Files}]]
      /\ rewrite'[t].todo = Tail(todo) /\ rewrite'[t].read = <<>> /\ ~Writing(t)'
      /\ \A u \in FileThreads \ {t} : rewrite'[u] = rewrite[u] /\ (Writing(u)' <=> Writing(u))
  BY <1>0, <1>1, <1>3 DEF FileTypes, Writing
<1> HIDE DEF todo, line, r
<1>6. FileTypes'
  BY <1>0, <1>1, <1>2, <1>4, <1>5 DEF FileTypes
<1>7. ASSUME FileFollows PROVE FileFollows'
  <2>1. /\ \A k \in Keys : k # line[1] => lines'[k] = lines[k]
        /\ \A u \in FileThreads : ~Writing(u)' /\ rewrite'[u].read = <<>>
    <3>1. rewrite[t].read = <<lines>>
      BY <1>1, <1>7 DEF FileFollows, OneWriter, Writing
    <3>2. \A u \in FileThreads : ~Writing(u)'
      BY <1>1, <1>5, <1>7 DEF FileFollows, OneWriter
    <3> QED BY <1>4, <3>1, <3>2 DEF Writing
  <2>2. OneWriter'
    BY <2>1 DEF OneWriter
  <2>3. "hotplug" \in Keys /\ "hdcp_status" \in Keys /\ "hdcp_version" \in Keys
    BY DEF Keys
  <2>4. ASSUME NEW u \in FileThreads, HdcpWrites(u), t = u
        PROVE  HdcpWrites(u)' /\ lines'["hotplug"] = lines["hotplug"]
    <3>1. CASE todo = << <<"hdcp_status", hdcpLine[1]>>, <<"hdcp_version", hdcpLine[2]>> >>
      <4>1. line = <<"hdcp_status", hdcpLine[1]>> /\ Tail(todo) = << <<"hdcp_version", hdcpLine[2]>> >>
        BY <3>1, TodoSteps DEF line
      <4> QED BY <1>1, <1>4, <1>5, <2>1, <2>3, <2>4, <4>1 DEF HdcpWrites
    <3>2. CASE todo = << <<"hdcp_version", hdcpLine[2]>> >> /\ lines["hdcp_status"] = hdcpLine[1]
      <4>1. line = <<"hdcp_version", hdcpLine[2]>> /\ Tail(todo) = <<>>
        BY <3>2, TodoSteps DEF line
      <4> QED BY <1>1, <1>4, <1>5, <2>1, <2>3, <2>4, <3>2, <4>1 DEF HdcpWrites
    <3> QED BY <1>2, <2>4, <3>1, <3>2 DEF HdcpWrites, todo
  <2>5. ASSUME NEW u \in FileThreads, HdcpWrites(u), t # u, line[1] = "hotplug"
        PROVE  HdcpWrites(u)'
    BY <1>1, <1>5, <2>1, <2>3, <2>5 DEF HdcpWrites
  <2>6. ASSUME NEW s, todo = HotplugLine(s)
        PROVE  line[1] = "hotplug" /\ lines'["hotplug"] = s /\ Tail(todo) = <<>>
    <3>1. line = <<"hotplug", s>> /\ Tail(todo) = <<>>
      BY <2>6, TodoSteps DEF line, HotplugLine
    <3> QED BY <1>4, <3>1
  <2>7. CASE t = "display"
    <3>1. PICK s \in DpEvents : todo = HotplugLine(s) /\ (dpEvents = <<>> => s = Hotplug(plugged))
      BY <1>2, <1>7, <2>7 DEF FileFollows, DisplayWrites, todo
    <3>2. line[1] = "hotplug" /\ lines'["hotplug"] = s /\ rewrite'["display"].todo = <<>>
      BY <1>5, <2>6, <2>7, <3>1
    <3>3. DisplayWrites' /\ HotplugWritten'
      BY <1>1, <3>1, <3>2 DEF DisplayWrites, HotplugWritten
    <3> QED BY <1>0, <1>1, <1>5, <1>7, <2>2, <2>5, <2>7, <3>2, <3>3 DEF FileFollows
  <2>8. CASE t = "hdcp"
    <3>1. dpStage = "up" /\ HdcpWrites("hdcp")
      BY <1>0, <1>2, <1>7, <2>8 DEF FileTypes, FileFollows
    <3>2. HdcpWrites("hdcp")' /\ lines'["hotplug"] = lines["hotplug"]
      BY <1>0, <2>4, <2>8, <3>1
    <3>3. DisplayWrites' /\ HotplugWritten'
      BY <1>0, <1>1, <1>5, <1>7, <2>8, <3>2 DEF FileFollows, DisplayWrites, HotplugWritten
    <3> QED BY <1>1, <2>2, <3>1, <3>2, <3>3 DEF FileFollows
  <2>9. CASE t = "start"
    <3>1. DisplayWrites'
      BY <1>0, <1>1, <1>5, <1>7, <2>9 DEF FileFollows, DisplayWrites
    <3>2. CASE dpStage = "starting"
      <4>1. HdcpWrites("start")'
        BY <1>0, <1>7, <2>4, <2>9, <3>2 DEF FileFollows
      <4> QED BY <1>1, <2>2, <3>1, <3>2, <4>1 DEF FileFollows, HotplugWritten
    <3>3. CASE dpStage = "sampled"
      <4>1. todo = HotplugLine(Hotplug(plugged))
        BY <1>2, <1>7, <2>9, <3>3 DEF FileFollows, todo
      <4>2. line[1] = "hotplug" /\ lines'["hotplug"] = Hotplug(plugged) /\ rewrite'["start"].todo = <<>>
        BY <1>5, <2>6, <2>9, <4>1
      <4>3. HdcpWrites("hdcp")'
        BY <1>0, <1>7, <2>5, <2>9, <3>3, <4>2 DEF FileFollows
      <4> QED BY <1>1, <2>2, <3>1, <3>3, <4>2, <4>3 DEF FileFollows, HotplugWritten
    <3>4. dpStage \in {"starting", "sampled"}
      BY <1>0, <1>2, <2>9 DEF FileTypes
    <3> QED BY <3>2, <3>3, <3>4
  <2> QED BY <1>0, <2>7, <2>8, <2>9
<1> QED BY <1>1, <1>6, <1>7 DEF FileInv

\* Every step keeps the file to what its threads have still to write.
LEMMA FileStepKeeps == FileInv /\ [DpNext]_dpVars => FileInv'
<1> SUFFICES ASSUME FileInv, [DpNext]_dpVars PROVE FileInv'
  OBVIOUS
<1>1. ASSUME UNCHANGED <<dpStage, plugged, dpEvents, lines, rewrite, hdcpLine, lost>> PROVE FileInv'
  BY <1>1 DEF FileInv, FileTypes, FileFollows, OneWriter, DisplayWrites, HotplugWritten, HdcpWrites, Writing
<1>2. CASE \/ UNCHANGED dpVars
           \/ \E c \in DpCallers : FetchEdid(c) \/ CacheEdid(c) \/ \E k \in Kinds : GetDisplayEdid(c, k)
           \/ \E v \in 0..1 : SetAllmEnabled(v) \/ SetAVIContentType(v) \/ SetAVIScanInformation(v)
  BY <1>1, <1>2 DEF dpVars, dpFile, FetchEdid, CacheEdid, GetDisplayEdid, SetAllmEnabled, SetAVIContentType,
       SetAVIScanInformation, SetSignal
<1> QED BY <1>2, FileProcess, FilePlug, FileEvent, FileReport, FileRead, FileWritten DEF DpNext

\* At rest the status file tells the connection and the last HDCP report,
\* whichever of its three threads wrote last, for any number of plugs, reports
\* and restarts, unless two rewrites overlapped (_dsSyncHdmiStatus).
THEOREM StatusFileFollows == DpSpec => []StatusFileIsCurrent
<1>1. FileInv => StatusFileIsCurrent
  <2> SUFFICES ASSUME FileInv, EventsHandled, ~lost, \A t \in FileThreads : rewrite[t] = NoRewrite
               PROVE  lines = [hotplug |-> Hotplug(plugged), hdcp_status |-> hdcpLine[1], hdcp_version |-> hdcpLine[2]]
    BY DEF StatusFileIsCurrent
  <2>1. /\ rewrite["start"].todo = <<>> /\ rewrite["display"].todo = <<>> /\ rewrite["hdcp"].todo = <<>>
        /\ FileFollows /\ dpStage = "up" /\ dpEvents = <<>>
    BY DEF NoRewrite, FileThreads, FileInv, EventsHandled
  <2>2. /\ lines["hotplug"] = Hotplug(plugged)
        /\ lines["hdcp_status"] = hdcpLine[1] /\ lines["hdcp_version"] = hdcpLine[2]
    BY <2>1 DEF FileFollows, HotplugWritten, HdcpWrites
  <2>3. lines \in [Keys -> Words]
    BY DEF FileInv, FileTypes, Files
  <2> QED BY <2>2, <2>3 DEF Keys
<1> QED BY FileStarts, FileStepKeeps, <1>1, PTL DEF DpSpec

-----------------------------------------------------------------------------
(* Volume and ducking of the audio ports.                                  *)

\* What the variables are.
LevelTypes ==
  /\ DOMAIN hal = Ports /\ DOMAIN cache = Ports /\ DOMAIN call = LevelCallers
  /\ ducking \in BOOLEAN /\ overlap \in BOOLEAN /\ levelDisturbed \in BOOLEAN
  /\ \A c \in LevelCallers :
       /\ call[c] = Idle <=> call[c].op = "idle"
       /\ call[c].op \in {"level", "cache", "mute", "enable"} => call[c].port \in Ports
\* A call that nobody overlaps is alone.
LevelAlone ==
  /\ overlap => levelDisturbed
  /\ ~overlap => \A c, d \in LevelCallers : call[c].op # "idle" /\ call[d].op # "idle" => c = d
\* Nobody calls, and nothing is ducked, before the levels are restored.
LevelIdle ==
  /\ stage # "up" => \A c \in LevelCallers : call[c].op = "idle"
  /\ stage \in {"down", "booting"} => ~ducking
\* What a call of SetAudioLevel is to give, or has given, to the HAL.
LevelCalls ==
  \A c \in LevelCallers :
    /\ call[c].op = "level" /\ call[c].port = "HDMI" => call[c].give = call[c].level /\ call[c].give # None
    /\ call[c].op = "level" /\ call[c].port = "SPEAKER" /\ ~overlap /\ ducking /\ call[c].give # None =>
         call[c].give = duckLevel
    /\ call[c].op = "cache" /\ call[c].port = "HDMI" /\ ~overlap => hal["HDMI"] = call[c].level
\* The level that HDMI plays is the cached one but between the two steps of a
\* call that changes it.
LevelApplied ==
  stage = "up" /\ ~levelDisturbed
      /\ (\A c \in LevelCallers : ~(call[c].op = "cache" /\ call[c].port = "HDMI")) =>
    hal["HDMI"] = cache["HDMI"]
LevelInv == LevelTypes /\ LevelAlone /\ LevelIdle /\ LevelCalls /\ LevelApplied

\* A call begins idle; it is undisturbed only if everybody else is idle.
LEMMA LevelBegins ==
  ASSUME LevelInv, NEW c \in LevelCallers, Begin(c)
  PROVE  /\ call[c].op = "idle" /\ stage = "up" /\ stage' = "up"
         /\ overlap' \in BOOLEAN /\ levelDisturbed' \in BOOLEAN
         /\ overlap' => levelDisturbed'
         /\ ~overlap' => \A d \in LevelCallers \ {c} : call[d].op = "idle"
         /\ ~levelDisturbed' => ~levelDisturbed
<1>1. /\ overlap' = Others(c) /\ levelDisturbed' = (levelDisturbed \/ Others(c))
      /\ call[c] = Idle /\ stage = "up" /\ stage' = stage
  BY DEF Begin
<1>2. Others(c) \in BOOLEAN /\ (~Others(c) => \A d \in LevelCallers \ {c} : call[d] = Idle)
  BY DEF Others
<1> QED BY <1>1, <1>2 DEF LevelInv, LevelTypes

\* A call that ends leaves overlapped calls overlapped.
LEMMA LevelFinishes ==
  ASSUME LevelInv, NEW c \in LevelCallers, call[c].op # "idle", Finish(c)
  PROVE  /\ DOMAIN call' = LevelCallers /\ call'[c] = Idle /\ call'[c].op = "idle"
         /\ \A d \in LevelCallers \ {c} : call'[d] = call[d]
         /\ stage = "up" /\ stage' = "up"
         /\ overlap' \in BOOLEAN /\ levelDisturbed' \in BOOLEAN
         /\ overlap' => levelDisturbed'
         /\ ~overlap' => \A d \in LevelCallers \ {c} : call[d].op = "idle"
         /\ ~levelDisturbed' => ~overlap /\ \A d \in LevelCallers \ {c} : call[d].op = "idle"
         /\ ~levelDisturbed' => ~levelDisturbed \/ (call[c].op = "cache" /\ call[c].port = "HDMI")
<1>1. /\ call' = [call EXCEPT ![c] = Idle] /\ overlap' = (overlap /\ Others(c)) /\ stage' = stage
      /\ levelDisturbed' = (levelDisturbed /\ ~(call[c].op = "cache" /\ call[c].port = "HDMI" /\ ~overlap))
  BY DEF Finish
<1>2. Others(c) \in BOOLEAN /\ (~Others(c) => \A d \in LevelCallers \ {c} : call[d] = Idle)
  BY DEF Others
<1>3. ~overlap => \A d \in LevelCallers \ {c} : call[d].op = "idle"
  BY DEF LevelInv, LevelAlone
<1>4. stage = "up" /\ Idle.op = "idle"
  BY DEF LevelInv, LevelIdle, Idle
<1>5. overlap \in BOOLEAN /\ levelDisturbed \in BOOLEAN /\ (overlap => levelDisturbed)
  BY DEF LevelInv, LevelTypes, LevelAlone
<1>6. ~overlap' => \A d \in LevelCallers \ {c} : call[d].op = "idle"
  BY <1>1, <1>2, <1>3 DEF LevelInv, LevelTypes
<1>7. /\ levelDisturbed' \in BOOLEAN /\ (overlap' => levelDisturbed')
      /\ ~levelDisturbed' => ~overlap
      /\ ~levelDisturbed' => ~levelDisturbed \/ (call[c].op = "cache" /\ call[c].port = "HDMI")
  BY <1>1, <1>2, <1>5
<1>8. /\ DOMAIN call' = LevelCallers /\ call'[c] = Idle
      /\ \A d \in LevelCallers \ {c} : call'[d] = call[d]
  BY <1>1 DEF LevelInv, LevelTypes
<1> QED BY <1>1, <1>2, <1>3, <1>4, <1>5, <1>6, <1>7, <1>8

\* The other calls are where they were, idle or overlapped.
LEMMA LevelOthers ==
  ASSUME LevelInv, NEW c \in LevelCallers, stage' = "up",
         DOMAIN call' = LevelCallers, \A d \in LevelCallers \ {c} : call'[d] = call[d],
         call'[c] = Idle <=> call'[c].op = "idle",
         call'[c].op \in {"level", "cache", "mute", "enable"} => call'[c].port \in Ports,
         DOMAIN hal' = Ports, DOMAIN cache' = Ports, ducking' \in BOOLEAN,
         overlap' \in BOOLEAN, levelDisturbed' \in BOOLEAN, overlap' => levelDisturbed',
         ~overlap' => \A d \in LevelCallers \ {c} : call[d].op = "idle",
         call'[c].op = "level" /\ call'[c].port = "HDMI" =>
           call'[c].give = call'[c].level /\ call'[c].give # None,
         call'[c].op = "level" /\ call'[c].port = "SPEAKER" /\ ~overlap' /\ ducking'
           /\ call'[c].give # None => call'[c].give = duckLevel',
         call'[c].op = "cache" /\ call'[c].port = "HDMI" /\ ~overlap' => hal'["HDMI"] = call'[c].level,
         ~levelDisturbed' /\ ~(call'[c].op = "cache" /\ call'[c].port = "HDMI") =>
           hal'["HDMI"] = cache'["HDMI"]
  PROVE  LevelInv'
<1>1. LevelTypes'
  BY DEF LevelInv, LevelTypes
<1>2. LevelAlone'
  BY DEF LevelAlone
<1>3. LevelIdle'
  BY DEF LevelIdle
<1>4. LevelCalls'
  <2> SUFFICES ASSUME NEW d \in LevelCallers \ {c}
               PROVE  /\ call'[d].op = "level" /\ call'[d].port = "HDMI" =>
                           call'[d].give = call'[d].level /\ call'[d].give # None
                      /\ call'[d].op = "level" => overlap'
                      /\ call'[d].op = "cache" => overlap'
    BY DEF LevelCalls
  <2> QED BY DEF LevelInv, LevelCalls
<1>5. LevelApplied'
  BY DEF LevelApplied
<1> QED BY <1>1, <1>2, <1>3, <1>4, <1>5 DEF LevelInv

\* The levels of a call that is not the one under way stay applied.
LEMMA LevelStays ==
  ASSUME LevelInv, NEW c \in LevelCallers, stage = "up", ~levelDisturbed,
         \A d \in LevelCallers \ {c} : call[d].op = "idle",
         ~(call[c].op = "cache" /\ call[c].port = "HDMI")
  PROVE  hal["HDMI"] = cache["HDMI"]
BY DEF LevelInv, LevelApplied

\* The process starts with nothing called and nothing ducked.
LEMMA LevelInit == AlInit => LevelInv
<1> SUFFICES ASSUME AlInit PROVE LevelInv
  OBVIOUS
<1>1. DOMAIN call = LevelCallers /\ \A c \in LevelCallers : call[c] = Idle /\ call[c].op = "idle"
  BY DEF AlInit, Idle
<1>2. LevelTypes
  BY <1>1 DEF AlInit, LevelTypes, Zero
<1>3. LevelAlone /\ LevelIdle /\ LevelCalls /\ LevelApplied
  BY <1>1 DEF AlInit, LevelAlone, LevelIdle, LevelCalls, LevelApplied
<1> QED BY <1>2, <1>3 DEF LevelInv

\* Start, restore, stop and restart.
LEMMA LevelProcess ==
  ASSUME LevelInv,
         startAudioLevelPersistThread \/ RestoreLevels \/ stopAudioLevelPersistThread \/ Join \/ Crash
  PROVE  LevelInv'
<1>1. CASE startAudioLevelPersistThread
  BY <1>1 DEF startAudioLevelPersistThread, halState, duckState, history, LevelInv, LevelTypes, LevelAlone,
     LevelIdle, LevelCalls, LevelApplied
<1>2. CASE RestoreLevels
  <2>1. \A c \in LevelCallers : call[c].op = "idle"
    BY <1>2 DEF RestoreLevels, LevelInv, LevelIdle
  <2>2. /\ stage' = "up" /\ hal' = cache' /\ DOMAIN cache' = Ports
        /\ UNCHANGED <<ducking, call, overlap, levelDisturbed>>
    BY <1>2 DEF RestoreLevels, history
  <2>3. LevelTypes'
    BY <2>2 DEF LevelInv, LevelTypes
  <2> QED BY <2>1, <2>2, <2>3 DEF LevelInv, LevelAlone, LevelIdle, LevelCalls, LevelApplied
<1>3. CASE stopAudioLevelPersistThread
  <2>1. \A c \in LevelCallers : call[c].op = "idle"
    BY <1>3 DEF stopAudioLevelPersistThread, Quiet, Idle
  <2>2. stage' = "stopping" /\ UNCHANGED <<hal, cache, ducking, duckLevel, call, overlap, levelDisturbed>>
    BY <1>3 DEF stopAudioLevelPersistThread, halState, duckState, history
  <2> QED BY <2>1, <2>2 DEF LevelInv, LevelTypes, LevelAlone, LevelIdle, LevelCalls, LevelApplied
<1>4. CASE ProcessStart
  <2>1. /\ DOMAIN call' = LevelCallers /\ \A c \in LevelCallers : call'[c] = Idle /\ call'[c].op = "idle"
    BY <1>4 DEF ProcessStart, Idle
  <2>2. /\ stage' = "down" /\ ducking' = FALSE /\ overlap' = FALSE /\ levelDisturbed' = FALSE
        /\ DOMAIN cache' = Ports /\ hal' = hal
    BY <1>4 DEF ProcessStart, Zero, halState
  <2>3. LevelTypes'
    BY <2>1, <2>2 DEF LevelInv, LevelTypes
  <2> QED BY <2>1, <2>2, <2>3 DEF LevelInv, LevelAlone, LevelIdle, LevelCalls, LevelApplied
<1> QED BY <1>1, <1>2, <1>3, <1>4 DEF Join, Crash

\* What is to be given to the HAL is decided: HDMI's own level, or a ducking
\* level that the speaker lacks.
LEMMA LevelAsked ==
  ASSUME LevelInv, NEW c \in LevelCallers, NEW p \in Ports, NEW v \in Levels, SetAudioLevel(c, p, v)
  PROVE  LevelInv'
<1>1. PICK r : r = [op |-> "level", port |-> p, level |-> v, give |->
        IF p = "HDMI" \/ ~ducking THEN v ELSE IF hal[p] # duckLevel THEN duckLevel ELSE None]
  OBVIOUS
<1>2. /\ r.op = "level" /\ r.port = p /\ r.level = v /\ r # Idle
      /\ p = "HDMI" => r.give = v
      /\ p = "SPEAKER" /\ ducking => r.give \in {duckLevel, None}
  BY <1>1 DEF Idle
<1>3. call' = [call EXCEPT ![c] = r] /\ UNCHANGED <<hal, cache, ducking, duckLevel>>
  BY <1>1 DEF SetAudioLevel, halState, duckState
<1>4. DOMAIN call' = LevelCallers /\ call'[c] = r /\ \A d \in LevelCallers \ {c} : call'[d] = call[d]
  BY <1>3 DEF LevelInv, LevelTypes
<1>5. v # None
  BY LevelAssumption DEF Levels, None
<1>6. /\ call[c].op = "idle" /\ stage = "up" /\ stage' = "up"
      /\ overlap' \in BOOLEAN /\ levelDisturbed' \in BOOLEAN /\ (overlap' => levelDisturbed')
      /\ ~overlap' => \A d \in LevelCallers \ {c} : call[d].op = "idle"
      /\ ~levelDisturbed' => ~levelDisturbed
  BY LevelBegins DEF SetAudioLevel
<1>7. ~levelDisturbed' => hal["HDMI"] = cache["HDMI"]
  BY <1>6, LevelStays
<1>8. DOMAIN hal' = Ports /\ DOMAIN cache' = Ports /\ ducking' \in BOOLEAN
  BY <1>3 DEF LevelInv, LevelTypes
<1> QED BY <1>2, <1>3, <1>4, <1>5, <1>6, <1>7, <1>8, LevelOthers

\* The level reaches the HAL, or the HAL refuses it.
LEMMA LevelGiven ==
  ASSUME LevelInv, NEW c \in LevelCallers, LevelToHal(c)
  PROVE  LevelInv'
<1>1. call[c].op = "level" /\ call[c].port \in Ports /\ UNCHANGED <<cache, ducking, duckLevel>>
  BY DEF LevelToHal, duckState, LevelInv, LevelTypes
<1>2. CASE call[c].give # None /\ Finish(c) /\ UNCHANGED hal
  <2>1. /\ DOMAIN call' = LevelCallers /\ call'[c] = Idle /\ call'[c].op = "idle"
        /\ \A d \in LevelCallers \ {c} : call'[d] = call[d]
        /\ stage = "up" /\ stage' = "up" /\ overlap' \in BOOLEAN /\ levelDisturbed' \in BOOLEAN
        /\ overlap' => levelDisturbed'
        /\ ~overlap' => \A d \in LevelCallers \ {c} : call[d].op = "idle"
        /\ ~levelDisturbed' => \A d \in LevelCallers \ {c} : call[d].op = "idle"
        /\ ~levelDisturbed' => ~levelDisturbed
    BY <1>1, <1>2, LevelFinishes
  <2>2. ~levelDisturbed' => hal["HDMI"] = cache["HDMI"]
    BY <1>1, <2>1, LevelStays
  <2>3. DOMAIN hal' = Ports /\ DOMAIN cache' = Ports /\ ducking' \in BOOLEAN
    BY <1>1, <1>2 DEF LevelInv, LevelTypes
  <2> QED BY <1>1, <1>2, <2>1, <2>2, <2>3, LevelOthers
<1>3. CASE /\ hal' = IF call[c].give = None THEN hal ELSE [hal EXCEPT ![call[c].port] = call[c].give]
           /\ Then(c, [op |-> "cache", port |-> call[c].port, level |-> call[c].level])
  <2>1. PICK r : r = [op |-> "cache", port |-> call[c].port, level |-> call[c].level]
    OBVIOUS
  <2>2. r.op = "cache" /\ r.port = call[c].port /\ r.level = call[c].level /\ r # Idle
    BY <2>1 DEF Idle
  <2>3. call' = [call EXCEPT ![c] = r] /\ UNCHANGED <<stage, overlap, levelDisturbed>>
    BY <1>3, <2>1 DEF Then, history
  <2>4. DOMAIN call' = LevelCallers /\ call'[c] = r /\ \A d \in LevelCallers \ {c} : call'[d] = call[d]
    BY <2>3 DEF LevelInv, LevelTypes
  <2>5. /\ DOMAIN hal' = Ports
        /\ call[c].port = "HDMI" => hal'["HDMI"] = call[c].level
        /\ call[c].port # "HDMI" => hal'["HDMI"] = hal["HDMI"]
    BY <1>1, <1>3 DEF LevelInv, LevelTypes, LevelCalls, Ports
  <2>6. /\ stage = "up" /\ overlap \in BOOLEAN /\ levelDisturbed \in BOOLEAN /\ (overlap => levelDisturbed)
        /\ ~overlap => \A d \in LevelCallers \ {c} : call[d].op = "idle"
    BY <1>1 DEF LevelInv, LevelTypes, LevelAlone, LevelIdle
  <2>7. ~levelDisturbed => hal["HDMI"] = cache["HDMI"]
    BY <1>1, <2>6, LevelStays
  <2>8. DOMAIN cache' = Ports /\ ducking' \in BOOLEAN
    BY <1>1 DEF LevelInv, LevelTypes
  <2> QED BY <1>1, <2>2, <2>3, <2>4, <2>5, <2>6, <2>7, <2>8, LevelOthers
<1> QED BY <1>2, <1>3 DEF LevelToHal

\* The level is cached: undisturbed, it is the one HDMI plays.
LEMMA LevelCached ==
  ASSUME LevelInv, NEW c \in LevelCallers, cacheAudioLevelForPersist(c)
  PROVE  LevelInv'
<1>1. /\ call[c].op = "cache" /\ call[c].port \in Ports
      /\ cache' = [cache EXCEPT ![call[c].port] = call[c].level] /\ UNCHANGED <<hal, ducking, duckLevel>>
  BY DEF cacheAudioLevelForPersist, halState, LevelInv, LevelTypes
<1>2. /\ DOMAIN call' = LevelCallers /\ call'[c] = Idle /\ call'[c].op = "idle"
      /\ \A d \in LevelCallers \ {c} : call'[d] = call[d]
      /\ stage = "up" /\ stage' = "up" /\ overlap' \in BOOLEAN /\ levelDisturbed' \in BOOLEAN
      /\ overlap' => levelDisturbed'
      /\ ~overlap' => \A d \in LevelCallers \ {c} : call[d].op = "idle"
      /\ ~levelDisturbed' => ~overlap /\ \A d \in LevelCallers \ {c} : call[d].op = "idle"
      /\ ~levelDisturbed' => ~levelDisturbed \/ call[c].port = "HDMI"
  BY <1>1, LevelFinishes DEF cacheAudioLevelForPersist
<1>3. DOMAIN cache' = Ports /\ DOMAIN hal' = Ports /\ ducking' \in BOOLEAN
  BY <1>1 DEF LevelInv, LevelTypes
<1>4. ~levelDisturbed' => hal'["HDMI"] = cache'["HDMI"]
  <2>1. CASE call[c].port = "HDMI"
    BY <1>1, <1>2, <2>1 DEF LevelInv, LevelTypes, LevelCalls
  <2>2. CASE call[c].port # "HDMI"
    <3>1. ~levelDisturbed' => hal["HDMI"] = cache["HDMI"]
      BY <1>2, <2>2, LevelStays
    <3> QED BY <1>1, <2>2, <3>1 DEF LevelInv, LevelTypes, Ports
  <2> QED BY <2>1, <2>2
<1> QED BY <1>1, <1>2, <1>3, <1>4, LevelOthers

\* A call of GetAudioLevel, SetAudioMute, EnableAudioPort or SetAudioDucking
\* begins; at most the speaker is given a level.
LEMMA LevelBegun ==
  ASSUME LevelInv, NEW c \in LevelCallers, Begin(c),
         NEW r, r # Idle, r.op \in {"mute", "enable", "duck"}, r.op # "duck" => r.port \in Ports,
         UNCHANGED call \/ call' = [call EXCEPT ![c] = r],
         ducking' \in BOOLEAN, DOMAIN hal' = Ports, hal'["HDMI"] = hal["HDMI"], UNCHANGED cache
  PROVE  LevelInv'
<1>1. /\ call[c].op = "idle" /\ stage = "up" /\ stage' = "up"
      /\ overlap' \in BOOLEAN /\ levelDisturbed' \in BOOLEAN /\ (overlap' => levelDisturbed')
      /\ ~overlap' => \A d \in LevelCallers \ {c} : call[d].op = "idle"
      /\ ~levelDisturbed' => ~levelDisturbed
  BY LevelBegins
<1>2. /\ DOMAIN call' = LevelCallers /\ \A d \in LevelCallers \ {c} : call'[d] = call[d]
      /\ call'[c] = r \/ (call'[c] = Idle /\ call'[c].op = "idle")
  BY <1>1 DEF LevelInv, LevelTypes
<1>3. ~levelDisturbed' => hal["HDMI"] = cache["HDMI"]
  BY <1>1, LevelStays
<1>4. DOMAIN cache' = Ports
  BY DEF LevelInv, LevelTypes
<1>5. /\ call'[c] = Idle <=> call'[c].op = "idle"
      /\ call'[c].op \notin {"level", "cache"}
      /\ call'[c].op \in {"mute", "enable"} => call'[c].port \in Ports
  BY <1>2
<1> QED BY <1>1, <1>2, <1>3, <1>4, <1>5, LevelOthers

\* Such a call ends; an enabled HDMI port is given its cached level.
LEMMA LevelEnds ==
  ASSUME LevelInv, NEW c \in LevelCallers, Finish(c), call[c].op \in {"mute", "enable", "duck"},
         ducking' \in BOOLEAN, DOMAIN hal' = Ports, UNCHANGED cache,
         hal'["HDMI"] \in {hal["HDMI"], cache["HDMI"]}
  PROVE  LevelInv'
<1>1. /\ DOMAIN call' = LevelCallers /\ call'[c] = Idle /\ call'[c].op = "idle"
      /\ \A d \in LevelCallers \ {c} : call'[d] = call[d]
      /\ stage = "up" /\ stage' = "up" /\ overlap' \in BOOLEAN /\ levelDisturbed' \in BOOLEAN
      /\ overlap' => levelDisturbed'
      /\ ~overlap' => \A d \in LevelCallers \ {c} : call[d].op = "idle"
      /\ ~levelDisturbed' => \A d \in LevelCallers \ {c} : call[d].op = "idle"
      /\ ~levelDisturbed' => ~levelDisturbed
  BY LevelFinishes
<1>2. ~levelDisturbed' => hal["HDMI"] = cache["HDMI"]
  BY <1>1, LevelStays
<1>3. DOMAIN cache' = Ports
  BY DEF LevelInv, LevelTypes
<1> QED BY <1>1, <1>2, <1>3, LevelOthers

\* Every step keeps the invariant.
LEMMA LevelStep == LevelInv /\ [AlNext]_vars => LevelInv'
<1> SUFFICES ASSUME LevelInv, [AlNext]_vars PROVE LevelInv'
  OBVIOUS
<1> USE DEF halState, duckState
<1>0. DOMAIN hal = Ports /\ "HDMI" \in Ports /\ ducking \in BOOLEAN
  BY DEF LevelInv, LevelTypes, Ports
<1>1. CASE startAudioLevelPersistThread \/ RestoreLevels \/ stopAudioLevelPersistThread \/ Join \/ Crash
  BY <1>1, LevelProcess
<1>2. CASE Thread \/ UNCHANGED vars
  <2>1. UNCHANGED <<stage, hal, cache, ducking, duckLevel, call, overlap, levelDisturbed>>
    BY <1>2 DEF Thread, ThreadStart, ThreadTest, ThreadBlocks, LoadLevels, persistAudioLevelIfChanged,
       history, vars
  <2> QED BY <2>1 DEF LevelInv, LevelTypes, LevelAlone, LevelIdle, LevelCalls, LevelApplied
<1>3. ASSUME NEW c \in LevelCallers, Continue(c) PROVE LevelInv'
  <2>1. CASE LevelToHal(c) \/ cacheAudioLevelForPersist(c)
    BY <2>1, LevelGiven, LevelCached
  <2>2. CASE MuteHal(c)
    <3>1. call[c].op = "mute" /\ Finish(c) /\ UNCHANGED <<hal, cache, ducking>>
      BY <2>2 DEF MuteHal
    <3> QED BY <1>0, <3>1, LevelEnds
  <2>3. CASE EnableHal(c)
    <3>1. call[c].op = "enable" /\ Finish(c) /\ UNCHANGED <<cache, ducking>>
      BY <2>3 DEF EnableHal
    <3>2. DOMAIN hal' = Ports /\ hal'["HDMI"] \in {hal["HDMI"], cache["HDMI"]}
      BY <1>0, <2>3 DEF EnableHal
    <3> QED BY <1>0, <3>1, <3>2, LevelEnds
  <2>4. CASE DuckHal(c)
    <3>1. call[c].op = "duck" /\ Finish(c) /\ UNCHANGED <<cache, ducking>>
      BY <2>4 DEF DuckHal
    <3>2. DOMAIN hal' = Ports /\ hal'["HDMI"] = hal["HDMI"]
      BY <1>0, <2>4 DEF DuckHal
    <3> QED BY <1>0, <3>1, <3>2, LevelEnds
  <2> QED BY <1>3, <2>1, <2>2, <2>3, <2>4 DEF Continue
<1>4. ASSUME NEW c \in LevelCallers, NEW start \in BOOLEAN, SetAudioDucking(c, start) PROVE LevelInv'
  <2>1. PICK v : call' = [call EXCEPT ![c] = [op |-> "duck", level |-> v, on |-> halOn["SPEAKER"]]]
    BY <1>4 DEF SetAudioDucking
  <2>2. PICK r : r = [op |-> "duck", level |-> v, on |-> halOn["SPEAKER"]]
    OBVIOUS
  <2>3. r # Idle /\ r.op = "duck" /\ call' = [call EXCEPT ![c] = r]
    BY <2>1, <2>2 DEF Idle
  <2>4. Begin(c) /\ ducking' \in BOOLEAN /\ UNCHANGED <<hal, cache>>
    BY <1>4 DEF SetAudioDucking
  <2> QED BY <1>0, <2>3, <2>4, LevelBegun
<1>5. ASSUME NEW c \in LevelCallers, NEW p \in Ports, GetAudioLevel(c, p) PROVE LevelInv'
  <2>1. PICK r : r = [op |-> "mute", port |-> p]
    OBVIOUS
  <2>2. r # Idle /\ r.op = "mute" /\ r.port = p
    BY <2>1 DEF Idle
  <2>3. Begin(c) /\ UNCHANGED <<hal, cache, ducking, call>>
    BY <1>5 DEF GetAudioLevel
  <2> QED BY <1>0, <2>2, <2>3, LevelBegun
<1>6. ASSUME NEW c \in LevelCallers, NEW p \in Ports, NEW v \in Levels, SetAudioLevel(c, p, v)
      PROVE  LevelInv'
  BY <1>6, LevelAsked
<1>7. ASSUME NEW c \in LevelCallers, NEW p \in Ports, NEW b \in BOOLEAN, SetAudioMute(c, p, b)
      PROVE  LevelInv'
  <2>1. PICK r : r = [op |-> "mute", port |-> p, mute |-> b]
    OBVIOUS
  <2>2. r # Idle /\ r.op = "mute" /\ r.port = p
    BY <2>1 DEF Idle
  <2>3. /\ Begin(c) /\ UNCHANGED <<cache, ducking>>
        /\ UNCHANGED call \/ call' = [call EXCEPT ![c] = r]
    BY <1>7, <2>1 DEF SetAudioMute
  <2>4. DOMAIN hal' = Ports /\ hal'["HDMI"] = hal["HDMI"]
    BY <1>0, <1>7 DEF SetAudioMute
  <2> QED BY <1>0, <2>2, <2>3, <2>4, LevelBegun
<1>8. ASSUME NEW c \in LevelCallers, NEW p \in Ports, NEW b \in BOOLEAN, EnableAudioPort(c, p, b)
      PROVE  LevelInv'
  <2>1. PICK r : r = [op |-> "enable", port |-> p, on |-> b]
    OBVIOUS
  <2>2. r # Idle /\ r.op = "enable" /\ r.port = p
    BY <2>1 DEF Idle
  <2>3. /\ Begin(c) /\ UNCHANGED <<cache, ducking>>
        /\ UNCHANGED call \/ call' = [call EXCEPT ![c] = r]
    BY <1>8, <2>1 DEF EnableAudioPort
  <2>4. DOMAIN hal' = Ports /\ hal'["HDMI"] = hal["HDMI"]
    BY <1>0, <1>8 DEF EnableAudioPort
  <2> QED BY <1>0, <2>2, <2>3, <2>4, LevelBegun
<1> QED BY <1>1, <1>2, <1>3, <1>4, <1>5, <1>6, <1>7, <1>8 DEF AlNext

\* Unless calls overlapped, HDMI plays the level that is going to be
\* persisted: for any callers, levels, persisted levels, calls and restarts.
THEOREM CachedIsPlayed == AlSpec => []CachedLevelIsApplied
<1>1. LevelInv => CachedLevelIsApplied
  <2> SUFFICES ASSUME LevelInv, Quiet PROVE \A c \in LevelCallers : call[c].op = "idle"
    BY DEF LevelInv, LevelApplied, CachedLevelIsApplied
  <2> QED BY DEF Quiet, Idle
<1> QED BY LevelInit, LevelStep, <1>1, PTL DEF AlSpec

\* While ducking is in force no volume key, unmute or enabled port gives the
\* speaker another level than the ducking one, unless calls overlapped.
THEOREM DuckedStaysDucked == AlSpec => DuckingHolds
<1>1. ASSUME LevelInv, [AlNext]_vars, ~levelDisturbed, ducking, ducking',
             hal'["SPEAKER"] # hal["SPEAKER"]
      PROVE  hal'["SPEAKER"] = duckLevel'
  <2> USE DEF halState, duckState
  <2>0. DOMAIN hal = Ports /\ "SPEAKER" \in Ports
    BY <1>1 DEF LevelInv, LevelTypes, Ports
  <2>1. CASE startAudioLevelPersistThread \/ stopAudioLevelPersistThread \/ Join \/ Crash \/ Thread
             \/ UNCHANGED vars
    <3>1. UNCHANGED hal
      BY <2>1 DEF startAudioLevelPersistThread, stopAudioLevelPersistThread, Join, Crash, ProcessStart,
         Thread, ThreadStart, ThreadTest, ThreadBlocks, LoadLevels, persistAudioLevelIfChanged, vars
    <3> QED BY <1>1, <3>1
  <2>2. CASE RestoreLevels
    BY <1>1, <2>2 DEF RestoreLevels, LevelInv, LevelIdle
  <2>3. ASSUME NEW c \in LevelCallers, Continue(c) PROVE hal'["SPEAKER"] = duckLevel'
    <3>1. CASE LevelToHal(c)
      <4>1. ~overlap /\ call[c].op = "level" /\ call[c].port \in Ports
        BY <1>1, <3>1 DEF LevelToHal, LevelInv, LevelTypes, LevelAlone
      <4>2. call[c].port = "SPEAKER" /\ call[c].give # None /\ hal'["SPEAKER"] = call[c].give
        BY <1>1, <2>0, <3>1, <4>1 DEF LevelToHal
      <4>3. duckLevel' = duckLevel
        BY <3>1 DEF LevelToHal
      <4> QED BY <1>1, <4>1, <4>2, <4>3 DEF LevelInv, LevelCalls
    <3>2. CASE cacheAudioLevelForPersist(c) \/ MuteHal(c)
      BY <1>1, <3>2 DEF cacheAudioLevelForPersist, MuteHal
    <3>3. CASE EnableHal(c)
      BY <1>1, <2>0, <3>3 DEF EnableHal
    <3>4. CASE DuckHal(c)
      BY <1>1, <2>0, <3>4 DEF DuckHal
    <3> QED BY <2>3, <3>1, <3>2, <3>3, <3>4 DEF Continue
  <2>4. ASSUME NEW c \in LevelCallers,
               \/ \E start \in BOOLEAN : SetAudioDucking(c, start)
               \/ \E p \in Ports : GetAudioLevel(c, p) \/ \E v \in Levels : SetAudioLevel(c, p, v)
        PROVE  UNCHANGED hal
    BY <2>4 DEF SetAudioDucking, GetAudioLevel, SetAudioLevel
  <2>5. ASSUME NEW c \in LevelCallers, NEW p \in Ports, NEW b \in BOOLEAN,
               SetAudioMute(c, p, b) \/ EnableAudioPort(c, p, b)
        PROVE  hal'["SPEAKER"] = duckLevel'
    BY <1>1, <2>0, <2>5 DEF SetAudioMute, EnableAudioPort, setAudioDuckingAudioLevel
  <2> QED BY <1>1, <2>1, <2>2, <2>3, <2>4, <2>5 DEF AlNext
<1>2. LevelInv /\ [AlNext]_vars =>
        [~levelDisturbed /\ ducking /\ ducking' /\ hal'["SPEAKER"] # hal["SPEAKER"]
           => hal'["SPEAKER"] = duckLevel']_vars
  BY <1>1
<1> QED BY LevelInit, LevelStep, <1>2, PTL DEF AlSpec, DuckingHolds

-----------------------------------------------------------------------------
(* The thread that persists the levels never forgets one.                  *)

\* What LevelIsSaved needs of every state: while a level is unsaved the
\* pending flag is up or the thread is about to load or to persist the levels;
\* it never goes back to its wait as if there were nothing to do
\* (cacheAudioLevelForPersist, runAudioLevelPersistThread).
UnsavedIsScheduled ==
  \A p \in Ports : Unsaved(p) => pending \/ thread \in {"sleep", "save"}

\* The thread marks levels only to persist them next, and has nothing to do
\* before the levels are restored; a cached level that is not the thread's
\* previous one has raised the flag, was restored, or is going to be loaded.
SaveInv ==
  /\ thread # "save" => changed = {}
  /\ stage \in {"down", "booting"} => ~pending /\ thread \notin {"sleep", "save"}
  /\ \A p \in Ports : stage = "up" /\ cache[p] # prev[p] =>
       pending \/ thread \in {"start", "sleep"} \/ (cache[p] = Restored(p) /\ thread # "save")
\* The levels are levels, the thread's previous ones too.
LevelsAreLevels ==
  /\ cache \in [Ports -> Levels] /\ prev \in [Ports -> Levels]
  /\ store \in [Ports -> Levels \cup {None}]
  /\ \A c \in LevelCallers : call[c].op \in {"level", "cache"} => call[c].level \in Levels

\* What a restart brings back is a level; a persisted level is brought back.
LEMMA RestoredIsALevel ==
  ASSUME LevelsAreLevels, NEW p \in Ports
  PROVE  /\ Restored(p) \in Levels
         /\ \A v \in Levels : store'[p] = v => Restored(p)' = v
<1>1. DefaultLevel \in Levels /\ None \notin Levels
  BY LevelAssumption DEF Levels, None
<1>2. store[p] \in Levels \cup {None}
  BY DEF LevelsAreLevels
<1> QED BY <1>1, <1>2 DEF Restored

\* A call that is left, or that has ended, leaves the levels of the others.
LEMMA LevelsStay ==
  ASSUME LevelInv, LevelsAreLevels, NEW c \in LevelCallers, NEW r,
         r.op \in {"level", "cache"} => r.level \in Levels,
         call' = call \/ call' = [call EXCEPT ![c] = r],
         UNCHANGED <<prev, store>>, cache' \in [Ports -> Levels]
  PROVE  LevelsAreLevels'
<1>1. \A d \in LevelCallers : call'[d] = call[d] \/ call'[d] = r
  BY DEF LevelInv, LevelTypes
<1> QED BY <1>1 DEF LevelsAreLevels

\* Every step keeps the levels levels.
LEMMA LevelsAreLevelsStep ==
  ASSUME LevelInv, LevelsAreLevels, [AlNext]_vars
  PROVE  LevelsAreLevels'
<1> USE DEF duckState, threadState
<1>0. /\ cache \in [Ports -> Levels] /\ prev \in [Ports -> Levels]
      /\ store \in [Ports -> Levels \cup {None}]
  BY DEF LevelsAreLevels
<1>1. CASE startAudioLevelPersistThread \/ stopAudioLevelPersistThread \/ UNCHANGED vars
  <2>1. UNCHANGED <<cache, prev, store, call>>
    BY <1>1 DEF startAudioLevelPersistThread, stopAudioLevelPersistThread, vars
  <2> QED BY <2>1 DEF LevelsAreLevels
<1>2. CASE RestoreLevels
  <2>1. UNCHANGED <<prev, store, call>> /\ cache' = [p \in Ports |-> Restored(p)]
    BY <1>2 DEF RestoreLevels
  <2>2. cache' \in [Ports -> Levels]
    BY <2>1, RestoredIsALevel
  <2> QED BY <2>1, <2>2 DEF LevelsAreLevels
<1>3. CASE Join \/ Crash
  <2>1. /\ cache' = Zero /\ prev' = Zero /\ store' = store
        /\ \A c \in LevelCallers : call'[c] = Idle
    BY <1>3 DEF Join, Crash, ProcessStart
  <2>2. Zero \in [Ports -> Levels]
    BY LevelAssumption DEF Zero, Levels
  <2> QED BY <2>1, <2>2 DEF LevelsAreLevels, Idle
<1>4. CASE Thread
  <2>1. UNCHANGED <<cache, call>> /\ prev' \in {prev, cache}
    BY <1>4 DEF Thread, ThreadStart, ThreadTest, ThreadBlocks, LoadLevels, persistAudioLevelIfChanged
  <2>2. store' = store \/ store' = [p \in Ports |-> IF p \in changed THEN prev[p] ELSE store[p]]
    BY <1>4 DEF Thread, ThreadStart, ThreadTest, ThreadBlocks, LoadLevels, persistAudioLevelIfChanged
  <2>3. store' \in [Ports -> Levels \cup {None}]
    BY <1>0, <2>2
  <2> QED BY <1>0, <2>1, <2>3 DEF LevelsAreLevels
<1>5. ASSUME NEW c \in LevelCallers, NEW p \in Ports, NEW v \in Levels, SetAudioLevel(c, p, v)
      PROVE  LevelsAreLevels'
  <2>1. PICK r : r = [op |-> "level", port |-> p, level |-> v, give |->
          IF p = "HDMI" \/ ~ducking THEN v ELSE IF hal[p] # duckLevel THEN duckLevel ELSE None]
    OBVIOUS
  <2>2. call' = [call EXCEPT ![c] = r] /\ r.level \in Levels /\ UNCHANGED <<cache, prev, store>>
    BY <1>5, <2>1 DEF SetAudioLevel
  <2> QED BY <1>0, <2>2, LevelsStay
<1>6. ASSUME NEW c \in LevelCallers, LevelToHal(c)
      PROVE  LevelsAreLevels'
  <2>1. PICK r : r = [op |-> "cache", port |-> call[c].port, level |-> call[c].level]
    OBVIOUS
  <2>2. r.level \in Levels /\ UNCHANGED <<cache, prev, store>>
    BY <1>6, <2>1 DEF LevelToHal, LevelsAreLevels
  <2>3. call' = [call EXCEPT ![c] = r] \/ call' = [call EXCEPT ![c] = Idle]
    BY <1>6, <2>1 DEF LevelToHal, Then, Finish
  <2>4. Idle.op \notin {"level", "cache"}
    BY DEF Idle
  <2> QED BY <1>0, <2>2, <2>3, <2>4, LevelsStay
<1>7. ASSUME NEW c \in LevelCallers, cacheAudioLevelForPersist(c)
      PROVE  LevelsAreLevels'
  <2>1. /\ cache' = [cache EXCEPT ![call[c].port] = call[c].level] /\ call[c].level \in Levels
        /\ call' = [call EXCEPT ![c] = Idle] /\ UNCHANGED <<prev, store>>
    BY <1>7 DEF cacheAudioLevelForPersist, Finish, LevelsAreLevels
  <2>2. cache' \in [Ports -> Levels] /\ Idle.op \notin {"level", "cache"}
    BY <1>0, <2>1 DEF Idle
  <2> QED BY <2>1, <2>2, LevelsStay
<1>8. ASSUME NEW c \in LevelCallers, NEW r, r.op \in {"idle", "mute", "enable", "duck"},
             call' = call \/ call' = [call EXCEPT ![c] = r], UNCHANGED <<cache, prev, store>>
      PROVE  LevelsAreLevels'
  BY <1>0, <1>8, LevelsStay
<1>9. ASSUME NEW c \in LevelCallers, MuteHal(c) \/ EnableHal(c) \/ DuckHal(c)
      PROVE  LevelsAreLevels'
  <2>1. call' = [call EXCEPT ![c] = Idle] /\ UNCHANGED <<cache, prev, store>>
    BY <1>9 DEF MuteHal, EnableHal, DuckHal, Finish
  <2>2. Idle.op = "idle"
    BY DEF Idle
  <2> QED BY <1>0, <2>1, <2>2, LevelsStay
<1>a. ASSUME NEW c \in LevelCallers, NEW start \in BOOLEAN, SetAudioDucking(c, start)
      PROVE  LevelsAreLevels'
  <2>1. PICK v : call' = [call EXCEPT ![c] = [op |-> "duck", level |-> v, on |-> halOn["SPEAKER"]]]
    BY <1>a DEF SetAudioDucking
  <2>2. PICK r : r = [op |-> "duck", level |-> v, on |-> halOn["SPEAKER"]]
    OBVIOUS
  <2>3. r.op = "duck" /\ call' = [call EXCEPT ![c] = r] /\ UNCHANGED <<cache, prev, store>>
    BY <1>a, <2>1, <2>2 DEF SetAudioDucking
  <2> QED BY <1>0, <2>3, LevelsStay
<1>b. ASSUME NEW c \in LevelCallers, NEW p \in Ports, GetAudioLevel(c, p)
      PROVE  LevelsAreLevels'
  <2>1. UNCHANGED <<call, cache, prev, store>>
    BY <1>b DEF GetAudioLevel
  <2> QED BY <2>1 DEF LevelsAreLevels
<1>c. ASSUME NEW c \in LevelCallers, NEW p \in Ports, NEW b \in BOOLEAN, SetAudioMute(c, p, b)
      PROVE  LevelsAreLevels'
  <2>1. PICK r : r = [op |-> "mute", port |-> p, mute |-> b]
    OBVIOUS
  <2>2. /\ r.op = "mute" /\ UNCHANGED <<cache, prev, store>>
        /\ call' = call \/ call' = [call EXCEPT ![c] = r]
    BY <1>c, <2>1 DEF SetAudioMute
  <2> QED BY <1>8, <2>2
<1>d. ASSUME NEW c \in LevelCallers, NEW p \in Ports, NEW b \in BOOLEAN, EnableAudioPort(c, p, b)
      PROVE  LevelsAreLevels'
  <2>1. PICK r : r = [op |-> "enable", port |-> p, on |-> b]
    OBVIOUS
  <2>2. /\ r.op = "enable" /\ UNCHANGED <<cache, prev, store>>
        /\ call' = call \/ call' = [call EXCEPT ![c] = r]
    BY <1>d, <2>1 DEF EnableAudioPort
  <2> QED BY <1>8, <2>2
<1> QED BY <1>1, <1>2, <1>3, <1>4, <1>5, <1>6, <1>7, <1>9, <1>a, <1>b, <1>c, <1>d DEF AlNext, Continue

\* Every step keeps a level that is not the thread's on its way to it.
LEMMA SaveStep ==
  ASSUME LevelInv, LevelsAreLevels, SaveInv, [AlNext]_vars
  PROVE  SaveInv'
<1> USE DEF duckState, threadState, SaveInv
<1>0. cache \in [Ports -> Levels] /\ prev \in [Ports -> Levels]
  BY DEF LevelsAreLevels
<1>1. CASE startAudioLevelPersistThread \/ stopAudioLevelPersistThread
  BY <1>1 DEF startAudioLevelPersistThread, stopAudioLevelPersistThread
<1>2. CASE RestoreLevels
  <2>1. /\ stage = "booting" /\ stage' = "up" /\ UNCHANGED <<thread, changed, pending, store>>
        /\ cache' = [p \in Ports |-> Restored(p)]
    BY <1>2 DEF RestoreLevels
  <2>2. \A p \in Ports : cache'[p] = Restored(p)'
    BY <2>1 DEF Restored
  <2> QED BY <2>1, <2>2
<1>3. CASE Join \/ Crash
  BY <1>3 DEF Join, Crash, ProcessStart
<1>4. CASE ThreadStart \/ LoadLevels
  <2>1. prev' = cache /\ cache' = cache /\ stage' = stage /\ pending' = pending
    BY <1>4 DEF ThreadStart, LoadLevels
  <2>2. /\ thread \in {"start", "sleep"}
        /\ thread' = IF thread = "start" THEN "test" ELSE "save"
        /\ thread = "start" => changed' = changed
    BY <1>4 DEF ThreadStart, LoadLevels
  <2> QED BY <2>1, <2>2
<1>5. CASE ThreadTest \/ ThreadBlocks
  <2>1. UNCHANGED <<stage, cache, prev, changed, store>> /\ thread \in {"test", "blocking"}
    BY <1>5 DEF ThreadTest, ThreadBlocks
  <2>2. \/ thread' = "sleep" /\ pending /\ ~pending'
        \/ thread' \in {"none", "blocking", "waiting"} /\ pending' = pending
    BY <1>5 DEF ThreadTest, ThreadBlocks
  <2>3. \A p \in Ports : Restored(p)' = Restored(p)
    BY <2>1 DEF Restored
  <2> QED BY <2>1, <2>2, <2>3
<1>6. CASE persistAudioLevelIfChanged
  BY <1>6 DEF persistAudioLevelIfChanged
<1>7. ASSUME NEW c \in LevelCallers, cacheAudioLevelForPersist(c)
      PROVE  SaveInv'
  <2>1. pending' /\ changed' = changed /\ thread' = IF thread = "waiting" THEN "test" ELSE thread
    BY <1>7 DEF cacheAudioLevelForPersist
  <2>2. stage = "up" /\ stage' = "up"
    BY <1>7 DEF cacheAudioLevelForPersist, Finish, LevelInv, LevelIdle
  <2> QED BY <2>1, <2>2
<1>8. ASSUME UNCHANGED <<stage, cache, prev, thread, changed, pending, store>>
      PROVE  SaveInv'
  BY <1>8 DEF Restored
<1>9. ASSUME NEW c \in LevelCallers, LevelToHal(c) \/ MuteHal(c) \/ EnableHal(c) \/ DuckHal(c)
      PROVE  SaveInv'
  BY <1>8, <1>9 DEF LevelToHal, MuteHal, EnableHal, DuckHal, Then, Finish
<1>a. ASSUME NEW c \in LevelCallers, NEW start \in BOOLEAN, SetAudioDucking(c, start)
      PROVE  SaveInv'
  BY <1>8, <1>a DEF SetAudioDucking, Begin
<1>b. ASSUME NEW c \in LevelCallers, NEW p \in Ports,
             GetAudioLevel(c, p) \/ \E v \in Levels : SetAudioLevel(c, p, v)
      PROVE  SaveInv'
  BY <1>8, <1>b DEF GetAudioLevel, SetAudioLevel, Begin
<1>c. ASSUME NEW c \in LevelCallers, NEW p \in Ports, NEW b \in BOOLEAN,
             SetAudioMute(c, p, b) \/ EnableAudioPort(c, p, b)
      PROVE  SaveInv'
  BY <1>8, <1>c DEF SetAudioMute, EnableAudioPort, Begin
<1>d. CASE UNCHANGED vars
  BY <1>8, <1>d DEF vars
<1> QED BY <1>1, <1>2, <1>3, <1>4, <1>5, <1>6, <1>7, <1>9, <1>a, <1>b, <1>c, <1>d DEF AlNext, Continue, Thread

\* The thread never waits on an unsaved level with its flag down: for any
\* callers, levels, persisted levels, calls and restarts.
THEOREM NoLevelIsForgotten == AlSpec => []UnsavedIsScheduled
<1>1. AlInit => LevelsAreLevels /\ SaveInv
  <2> SUFFICES ASSUME AlInit PROVE LevelsAreLevels /\ SaveInv
    OBVIOUS
  <2>1. Zero \in [Ports -> Levels] /\ Boots \subseteq [Ports -> Levels \cup {None}]
    BY LevelAssumption DEF Zero, Levels
  <2>2. \A c \in LevelCallers : call[c].op = "idle"
    BY DEF AlInit, Idle
  <2> QED BY <2>1, <2>2 DEF AlInit, LevelsAreLevels, SaveInv
<1>2. LevelInv /\ LevelsAreLevels /\ SaveInv /\ [AlNext]_vars => LevelsAreLevels' /\ SaveInv'
  BY LevelsAreLevelsStep, SaveStep
<1>3. SaveInv => UnsavedIsScheduled
  BY DEF SaveInv, UnsavedIsScheduled, Unsaved
<1> QED BY LevelInit, LevelStep, <1>1, <1>2, <1>3, PTL DEF AlSpec
=============================================================================
