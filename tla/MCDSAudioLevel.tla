---------------------------- MODULE MCDSAudioLevel ----------------------------
EXTENDS DSAudioLevel

\* Nothing persisted, or both ports silent.
MCBoots == {[p \in Ports |-> v] : v \in {None, 0}}
=============================================================================
