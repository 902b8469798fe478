----------------------------- MODULE MCSettings ------------------------------
(***************************************************************************)
(* What clients set of the video port and of the audio ports, one at a     *)
(* time: `turn` is the one that runs, the other stays as it was created.   *)
(***************************************************************************)
EXTENDS DSVideoPortResolution, DSAudioSettings, TLC

VARIABLE turn

\* Only the one that runs has a choice of initial states.
SettingsInit ==
  /\ turn \in {"audio", "videoPort"}
  /\ AsInit /\ (turn = "audio" \/ setting = "Gain")
  /\ Init /\ (turn = "videoPort" \/ (focus = "resolution" /\ connected))

Runs(part) == turn = part /\ UNCHANGED turn
RunAudio == Runs("audio") /\ UNCHANGED vars /\ AsNext
RunVideoPort == Runs("videoPort") /\ Next /\ UNCHANGED setVars
SettingsNext == RunAudio \/ RunVideoPort
SettingsSpec == SettingsInit /\ [][SettingsNext]_<<vars, setVars, turn>>

\* Clients are interchangeable.
Symmetry == Permutations(Callers)
=============================================================================
