--------------------------- MODULE MCDSController ---------------------------
(***************************************************************************)
(* Constants for model checking DSController.                              *)
(***************************************************************************)
EXTENDS DSController

TwoHdcp == {"displayHal", "videoPortHal"}
OneHdcp == {"videoPortHal"}
NoAudio == <<>>
OneAudio == <<"SPDIF">>
TwoPorts == {"HDMI", "COMPONENT"}
HdmiOnly == {"HDMI"}
=============================================================================
