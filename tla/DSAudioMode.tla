----------------------------- MODULE DSAudioMode -----------------------------
(***************************************************************************)
(* Audio mode selection of the DSController: SetAudioMode,                 *)
(* SetEASAudioMode and SysModeChange (DSController.cpp), on top of the     *)
(* stereo mode that the audio HAL adapter keeps per port (dAudioImpl.h).   *)
(*                                                                         *)
(* None of these functions takes a lock.  Each walks over the audio ports, *)
(* reading the mode of a port in one HAL call and writing it back in       *)
(* another, so a walk is a sequence of steps that interleaves with the     *)
(* walks of other threads:                                                 *)
(*   - Callers: the resolution thread and the IARM event thread, which run *)
(*     SetAudioMode;                                                       *)
(*   - SYS: the IARM thread that serves the SysModeChange call.            *)
(***************************************************************************)
EXTENDS Naturals, Sequences, FiniteSets

CONSTANTS
  Callers,     \* threads that call SetAudioMode, other than SYS
  SYS,         \* the thread that serves SysModeChange
  AudioPorts,  \* the ports that exist on the platform, in the order walked
  AutoPorts,   \* ports in auto mode (HDMI0.AudioMode.AUTO is TRUE)
  MaxSysMode,  \* bound: SysModeChange calls
  MaxClient    \* bound: SetStereoMode calls of clients

ASSUME AudioAssumption ==
  /\ SYS \notin Callers
  /\ AudioPorts \in Seq({"SPDIF", "HDMI", "SPEAKER"})
  /\ MaxSysMode \in Nat
  /\ MaxClient \in Nat

Threads == Callers \cup {SYS}
PortSet == {AudioPorts[i] : i \in DOMAIN AudioPorts}
StereoModes == {"STEREO", "SURROUND", "PASSTHRU"}
NoWalk == [op |-> "none", at |-> "check", i |-> 1, mode |-> "STEREO"]
Walks == [op : {"none", "SetAudioMode", "SetEASAudioMode"},
          at : {"check", "get", "put"},
          i : 1..(Len(AudioPorts) + 1), mode : StereoModes]

VARIABLES
  easMode,     \* _easMode: TRUE while an emergency alert is in progress
  stereoMode,  \* mode of each port, as the HAL and the adapter hold it
  persisted,   \* HDMI0.AudioMode, SPDIF0.AudioMode, ... in HostPersistence
  connected,   \* a display is connected to the HDMI output
  walk,        \* progress of SetAudioMode / SetEASAudioMode per thread
  disturbed,   \* history: something else wrote, or may write, during this EAS
  audioCount   \* bound counters: SysModeChange and client calls so far

audioOwn == <<easMode, stereoMode, persisted, walk, disturbed, audioCount>>
audioVars == <<audioOwn, connected>>

AudioInit ==
  /\ easMode = FALSE
  /\ persisted \in [PortSet -> StereoModes]
  /\ stereoMode = persisted
  /\ walk = [t \in Threads |-> NoWalk]
  /\ disturbed = FALSE
  /\ audioCount = [sysMode |-> 0, client |-> 0]

-----------------------------------------------------------------------------
(* Faults the properties detect.                                           *)

\* SetAudioMode without its early return during EAS.
ProceedsAlways(op) == op = "SetAudioMode" \/ easMode

-----------------------------------------------------------------------------
\* A thread enters one of the two walks, with its first statement still to run.
Enter(t, op) == [walk EXCEPT ![t] = [NoWalk EXCEPT !.op = op]]

CallSetAudioMode(t) ==
  /\ walk[t] = NoWalk
  /\ walk' = Enter(t, "SetAudioMode")
  /\ UNCHANGED <<easMode, stereoMode, persisted, disturbed, audioCount>>

\* The early returns: SetAudioMode does nothing during EAS, SetEASAudioMode
\* nothing outside it.
Proceeds(op) == IF op = "SetAudioMode" THEN ~easMode ELSE easMode

CheckEasMode(t) ==
  /\ walk[t].op # "none" /\ walk[t].at = "check"
  /\ walk' = [walk EXCEPT ![t] = IF Proceeds(@.op) THEN [@ EXCEPT !.at = "get"]
                                 ELSE NoWalk]
  /\ UNCHANGED <<easMode, stereoMode, persisted, disturbed, audioCount>>

\* GetStereoMode(handle, mode, persist = false) of the next port, or the end.
ReadPort(t) ==
  /\ walk[t].at = "get"
  /\ walk' = [walk EXCEPT ![t] =
                IF @.i \in DOMAIN AudioPorts
                THEN [@ EXCEPT !.at = "put", !.mode = stereoMode[AudioPorts[walk[t].i]]]
                ELSE NoWalk]
  /\ UNCHANGED <<easMode, stereoMode, persisted, disturbed, audioCount>>

\* The mode SetAudioMode writes: HDMI in auto mode is forced to surround.
NormalMode(p, m) == IF p = "HDMI" /\ p \in AutoPorts THEN "SURROUND" ELSE m

\* The mode SetEASAudioMode writes: passthrough falls back to stereo.
EasMode(m) == IF m = "PASSTHRU" THEN "STEREO" ELSE m

\* SetStereoMode(handle, mode, persist = false); an unconnected HDMI port is
\* skipped by SetAudioMode.
WritePort(t) ==
  LET w == walk[t]
      p == AudioPorts[w.i]
  IN
  /\ w.at = "put"
  /\ stereoMode' =
       CASE w.op = "SetEASAudioMode" -> [stereoMode EXCEPT ![p] = EasMode(w.mode)]
         [] w.op = "SetAudioMode" /\ ~(p = "HDMI" /\ ~connected) ->
              [stereoMode EXCEPT ![p] = NormalMode(p, w.mode)]
         [] OTHER -> stereoMode
  /\ walk' = [walk EXCEPT ![t] = [w EXCEPT !.at = "get", !.i = w.i + 1]]
  /\ UNCHANGED <<easMode, persisted, disturbed, audioCount>>

WalkStep(t) == CheckEasMode(t) \/ ReadPort(t) \/ WritePort(t)

-----------------------------------------------------------------------------
\* Walks of SetAudioMode that are past the check and will still write.
Writers == {t \in Threads : walk[t].op = "SetAudioMode" /\ walk[t].at # "check"}

\* SysModeChange: only EAS and NORMAL are processed, and only a real change.
SysModeChange(newEas) ==
  /\ walk[SYS] = NoWalk
  /\ audioCount.sysMode < MaxSysMode
  /\ audioCount' = [audioCount EXCEPT !.sysMode = @ + 1]
  /\ easMode' = newEas
  /\ IF easMode = newEas
     THEN UNCHANGED <<walk, disturbed>>
     ELSE /\ walk' = Enter(SYS, IF newEas THEN "SetEASAudioMode" ELSE "SetAudioMode")
          /\ disturbed' = (newEas /\ Writers # {})
  /\ UNCHANGED <<stereoMode, persisted>>

\* A client sets and persists a mode (IDeviceSettingsAudio::SetStereoMode): the
\* adapter does not look at the EAS state.
ClientSetStereoMode(p, m) ==
  /\ audioCount.client < MaxClient
  /\ audioCount' = [audioCount EXCEPT !.client = @ + 1]
  /\ stereoMode' = [stereoMode EXCEPT ![p] = m]
  /\ persisted' = [persisted EXCEPT ![p] = m]
  /\ disturbed' = (disturbed \/ easMode)
  /\ UNCHANGED <<easMode, walk>>

\* The display is plugged or unplugged.
HdmiToggle == connected' = ~connected /\ UNCHANGED audioOwn

AudioStep ==
  \/ \E t \in Threads : WalkStep(t)
  \/ \E newEas \in BOOLEAN : SysModeChange(newEas)
  \/ \E p \in PortSet, m \in StereoModes : ClientSetStereoMode(p, m)

Init == AudioInit /\ connected \in BOOLEAN

Next ==
  \/ AudioStep /\ UNCHANGED connected
  \/ \E t \in Callers : CallSetAudioMode(t) /\ UNCHANGED connected
  \/ HdmiToggle

Spec == Init /\ [][Next]_audioVars

-----------------------------------------------------------------------------
\* Type invariant of the audio mode state.
AudioTypeOK ==
  /\ easMode \in BOOLEAN
  /\ persisted \in [PortSet -> StereoModes]
  /\ stereoMode \in [PortSet -> StereoModes]
  /\ connected \in BOOLEAN
  /\ walk \in [Threads -> Walks]
  /\ \A t \in Threads : walk[t].at = "put" => walk[t].i \in DOMAIN AudioPorts
  /\ disturbed \in BOOLEAN
  /\ audioCount \in [sysMode : 0..MaxSysMode, client : 0..MaxClient]

\* The ports the SetEASAudioMode walk has already passed.
EasPassed ==
  IF walk[SYS].op # "SetEASAudioMode" THEN DOMAIN AudioPorts
  ELSE IF walk[SYS].at = "check" THEN {} ELSE 1..(walk[SYS].i - 1)

\* While an alert is in progress, every port that the alert's own walk has
\* passed stays out of passthrough, whatever the other threads do, unless a
\* SetAudioMode was already past its EAS check when the alert began or a client
\* chose a mode during it (SetEASAudioMode, "fallback to Stereo").
EasNoPassthrough ==
  easMode /\ ~disturbed =>
    \A i \in EasPassed \cap DOMAIN AudioPorts : stereoMode[AudioPorts[i]] # "PASSTHRU"
=============================================================================
