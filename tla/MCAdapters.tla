---------------------------- MODULE MCAdapters -----------------------------
(***************************************************************************)
(* DSAdapters for the model checker.                                       *)
(***************************************************************************)
EXTENDS DSAdapters, TLC

\* The two threads that call SetAudioMode besides SysModeChange, and a
\* platform with two audio ports, of which HDMI is in auto mode.
MCCallers == {"resolution", "iarmEvent"}
MCAudioPorts == <<"SPDIF", "HDMI">>
MCAutoPorts == {"HDMI"}

\* API threads are interchangeable.
Symmetry == Permutations(CiCallers)
=============================================================================
