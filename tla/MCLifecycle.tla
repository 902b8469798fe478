---------------------------- MODULE MCLifecycle -----------------------------
(***************************************************************************)
(* What is created, called back and destroyed, one part at a time: the     *)
(* video port's notifications, the events of the HAL, the plugin.  `turn`  *)
(* is the part that runs; the others stay in a state without work.         *)
(***************************************************************************)
EXTENDS DSVideoPortNotifier, DSHalEvents, DSPlugin

VARIABLE turn

\* Only the part that runs has a choice of initial states.
LifecycleInit ==
  /\ turn \in {"notifier", "events", "plugin"}
  /\ Init
  /\ HeInit /\ (turn = "events" \/ (facade = "HDMIIn" /\ profileType = "TV"))
  /\ PlInit /\ (turn = "plugin" \/ outOfProcess)

Runs(part) == turn = part /\ UNCHANGED turn
RunNotifier == Runs("notifier") /\ Next /\ UNCHANGED <<heVars, plVars>>
RunEvents == Runs("events") /\ UNCHANGED <<vars, plVars>> /\ HeNext
RunPlugin == Runs("plugin") /\ UNCHANGED <<vars, heVars>> /\ PlNext
LifecycleNext == RunNotifier \/ RunEvents \/ RunPlugin

LifecycleSpec ==
  /\ LifecycleInit /\ [][LifecycleNext]_<<vars, heVars, plVars, turn>>
  /\ ThreadsRun /\ HeFairness /\ PlFairness
=============================================================================
