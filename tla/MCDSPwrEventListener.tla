------------------------ MODULE MCDSPwrEventListener ------------------------
(***************************************************************************)
(* Constants for model checking DSPwrEventListener.                        *)
(***************************************************************************)
EXTENDS DSPwrEventListener

OneVideo == <<"HDMI">>
OneAudio == <<"SPEAKER">>
NoAudio == <<>>
AllBoot == {"HDMI", "SPEAKER"}
HdmiBoot == {"HDMI"}
ThreeModes == {"ON", "STANDBY", "OFF"}
TwoModes == {"ON", "STANDBY"}
=============================================================================
