----------------------------- MODULE DSAdapters -----------------------------
(***************************************************************************)
(* The adapters that share no state with one another, one at a time:       *)
(* `turn` is the one that runs, the others stay as they were created.      *)
(***************************************************************************)
EXTENDS DSAudioMode, DSHdmiIn, DCompositeInAIDL, DSFrontPanel, DSVideoDevice, DSDisplay,
        DSHdmiOutput

VARIABLE turn

\* Only the adapter that runs has a choice of initial states.
AdaptersInit ==
  /\ turn \in {"audioMode", "hdmiIn", "frontPanel", "videoDevice", "display", "hdmiOutput", "compositeIn"}
  /\ Init /\ (turn = "audioMode" \/ (connected /\ \A p \in PortSet : persisted[p] = "STEREO"))
  /\ InInit /\ (vrrCaps \/ turn = "hdmiIn")
  /\ FpInit /\ (turn = "frontPanel" \/ \A i \in DOMAIN led : led[i] = 0)
  /\ VdInit
  /\ DpInit /\ (turn = "display" \/ plugged = "none")
  /\ HoInit /\ (turn = "hdmiOutput" \/ hoConnected)
  /\ CiInit /\ (turn = "compositeIn" \/ manager = 1)

Runs(who) == turn = who /\ UNCHANGED turn
RunAudioMode == Runs("audioMode") /\ Next /\ UNCHANGED <<inVars, fpVars, vdVars, dpVars, hoVars, ciVars>>
RunHdmiIn == Runs("hdmiIn") /\ UNCHANGED <<audioVars, fpVars, vdVars, dpVars, hoVars, ciVars>> /\ InNext
RunFrontPanel == Runs("frontPanel") /\ UNCHANGED <<audioVars, inVars, vdVars, dpVars, hoVars, ciVars>> /\ FpNext
RunVideoDevice == Runs("videoDevice") /\ UNCHANGED <<audioVars, inVars, fpVars, dpVars, hoVars, ciVars>> /\ VdNext
RunDisplay == Runs("display") /\ UNCHANGED <<audioVars, inVars, fpVars, vdVars, hoVars, ciVars>> /\ DpNext
RunHdmiOutput == Runs("hdmiOutput") /\ UNCHANGED <<audioVars, inVars, fpVars, vdVars, dpVars, ciVars>> /\ HoNext
RunCompositeIn == Runs("compositeIn") /\ UNCHANGED <<audioVars, inVars, fpVars, vdVars, dpVars, hoVars>> /\ CiNext
AdaptersNext == RunAudioMode \/ RunHdmiIn \/ RunFrontPanel \/ RunVideoDevice \/ RunDisplay \/ RunHdmiOutput \/ RunCompositeIn

AdaptersSpec == AdaptersInit /\ [][AdaptersNext]_<<audioVars, inVars, fpVars, vdVars, dpVars, hoVars, ciVars, turn>>

-----------------------------------------------------------------------------
(* Properties, next to those of the modules extended.                      *)

\* A restart gives the HAL back what was acknowledged or interrupted: the HDMI
\* inputs' VRR and ALLM, the video zoom, the hiding of HDR.
RestartGivesBack == InRestartGivesBack /\ ZoomAgrees /\ HdrAnswerIsKept
=============================================================================
