---------------------------- MODULE DSFrontPanel ----------------------------
(***************************************************************************)
(* Brightness and state of the front panel's indicators (hal/dFPDImpl.h).  *)
(*                                                                         *)
(* The facade's _apiLock lets one call run at a time.  The first call that *)
(* finds the HAL not initialised initialises it, trying twenty times, and  *)
(* loads the persisted power brightness, which every indicator switched on *)
(* is lit with.  What remains is a HAL that fails, a process that dies     *)
(* between two steps of a call, and an adapter created again.              *)
(***************************************************************************)
EXTENDS Naturals

CONSTANTS
  MaxBrightness, \* dsFPD_BRIGHTNESS_MAX, also the default
  MaxFpInits,    \* bound: dsFPInit tries of one call (20 in the code)
  MaxFpCalls,    \* bound: calls
  MaxFpRestarts  \* bound: crashes and re-creations

VARIABLES
  fpStage,         \* down or up
  fpd_isPlatInitialized,
  powerBrightness, \* _dsPowerBrightness, static
  panelState,      \* srvFPDSettings[].state
  led,             \* HAL: the brightness of each indicator
  ledColor, fpKeptColor, \* HAL: the power indicator's color; the persisted one
  fpKept,          \* persisted Power.brightness: {} or {value}
  fpCall,          \* what is left of the call
  fpWanted,        \* history: the power brightness a client may expect
  fpCalls, fpRestarts \* bound counters

fpBounds == <<fpCalls, fpRestarts>>
fpColors == <<ledColor, fpKeptColor>>
fpVars == <<fpStage, fpd_isPlatInitialized, powerBrightness, panelState, led, fpColors, fpKept,
            fpCall, fpWanted, fpBounds>>

Indicators == {"message", "power"}
Brightness == 0..MaxBrightness
Colors == {"BLUE", "RED", "ORANGE"}
NoFpCall == [step |-> "none"]

FpInit ==
  /\ fpStage = "down" /\ fpd_isPlatInitialized = FALSE
  /\ powerBrightness = MaxBrightness /\ panelState = [i \in Indicators |-> "off"]
  /\ led \in [Indicators -> {0, MaxBrightness}] \* a boot loader may have lit it
  /\ ledColor = "BLUE" /\ fpKeptColor = "BLUE"
  /\ fpKept = {} /\ fpCall = NoFpCall /\ fpWanted = {MaxBrightness}
  /\ fpCalls = 0 /\ fpRestarts = 0

-----------------------------------------------------------------------------
(* The process.                                                            *)

FpInitialiseHAL ==
  /\ fpStage = "down" /\ fpStage' = "up"
  /\ panelState' = [i \in Indicators |-> "off"]
  /\ UNCHANGED <<fpd_isPlatInitialized, powerBrightness, led, fpColors, fpKept, fpCall, fpWanted, fpBounds>>

FpStop ==
  /\ fpStage = "up" /\ fpRestarts < MaxFpRestarts
  /\ fpStage' = "down" /\ fpRestarts' = fpRestarts + 1
  /\ fpd_isPlatInitialized' = FALSE
  /\ led' \in {led, [i \in Indicators |-> 0]}
  /\ UNCHANGED <<panelState, fpColors, fpKept, fpWanted, fpCalls>>
FpDeInitialiseHAL == FpStop /\ fpCall = NoFpCall /\ UNCHANGED <<powerBrightness, fpCall>>
FpCrash == FpStop /\ powerBrightness' = MaxBrightness /\ fpCall' = NoFpCall

-----------------------------------------------------------------------------
(* The calls.                                                              *)

FpBegin(call) ==
  /\ fpStage = "up" /\ fpCall = NoFpCall /\ fpCalls < MaxFpCalls
  /\ fpCalls' = fpCalls + 1
  /\ fpCall' = call
  /\ UNCHANGED <<fpStage, fpd_isPlatInitialized, powerBrightness, panelState, led, fpColors, fpKept, fpRestarts>>
FpRequest(name, i, v) ==
  [step |-> IF fpd_isPlatInitialized THEN name ELSE "init", name |-> name, tries |-> 0,
   indicator |-> i, value |-> v, persist |-> FALSE, was |-> fpWanted]

SetFPDBrightness(i, b, persist) ==
  /\ FpBegin([FpRequest("brightness", i, b) EXCEPT !.persist = persist])
  /\ fpWanted' = IF i = "power" /\ persist THEN fpWanted \cup {b} ELSE fpWanted
SetFPDState(i, on) == FpBegin(FpRequest("state", i, on)) /\ UNCHANGED fpWanted
SetFPDColor(i, color) == FpBegin(FpRequest("color", i, color)) /\ UNCHANGED fpWanted

FpStep(step) == fpCall' = [fpCall EXCEPT !.step = step]
FpSucceeds == fpCall' = NoFpCall
FpFails == fpCall' = NoFpCall /\ fpWanted' = fpCall.was

LoadDefault == MaxBrightness \* (fault) the persisted value is not read
LoadBrightness == IF fpKept = {} THEN MaxBrightness ELSE CHOOSE b \in fpKept : TRUE
\* A successful dsFPInit loads the brightness, persisting the default if none is.
EnsurePlatInit ==
  /\ fpCall.step = "init"
  /\ \/ /\ fpd_isPlatInitialized' = TRUE
        /\ powerBrightness' = LoadBrightness
        /\ fpKept' = {LoadBrightness}
        /\ FpStep(fpCall.name)
        /\ UNCHANGED fpWanted
     \/ /\ IF fpCall.tries + 1 < MaxFpInits
           THEN fpCall' = [fpCall EXCEPT !.tries = @ + 1] /\ UNCHANGED fpWanted
           ELSE FpFails
        /\ UNCHANGED <<fpd_isPlatInitialized, powerBrightness, fpKept>>
  /\ UNCHANGED <<fpStage, panelState, led, fpColors, fpBounds>>

Remembers(call) == call.indicator = "power" /\ call.persist
dsSetFPBrightness ==
  /\ fpCall.step = "brightness"
  /\ \/ /\ led' = [led EXCEPT ![fpCall.indicator] = fpCall.value]
        /\ IF Remembers(fpCall)
           THEN powerBrightness' = fpCall.value /\ FpStep("persist")
           ELSE FpSucceeds /\ UNCHANGED powerBrightness
        /\ UNCHANGED fpWanted
     \/ FpFails /\ UNCHANGED <<led, powerBrightness>>
  /\ UNCHANGED <<fpStage, fpd_isPlatInitialized, panelState, fpColors, fpKept, fpBounds>>
persistBrightness ==
  /\ fpCall.step = "persist"
  /\ fpKept' = {powerBrightness}
  /\ fpWanted' = {powerBrightness}
  /\ FpSucceeds
  /\ UNCHANGED <<fpStage, fpd_isPlatInitialized, powerBrightness, panelState, led, fpColors, fpBounds>>

\* Any indicator switched on gets the power indicator's brightness.
LitWith(on) == IF on THEN powerBrightness ELSE 0
dsSetFPState ==
  /\ fpCall.step = "state"
  /\ \/ /\ led' = [led EXCEPT ![fpCall.indicator] = LitWith(fpCall.value)]
        /\ panelState' = [panelState EXCEPT ![fpCall.indicator] = IF fpCall.value THEN "on" ELSE "off"]
     \/ UNCHANGED <<led, panelState>>
  /\ FpSucceeds
  /\ UNCHANGED <<fpStage, fpd_isPlatInitialized, powerBrightness, fpColors, fpKept, fpWanted, fpBounds>>

\* Orange is persisted as red; nothing gives the HAL the persisted color back.
dsSetFPColor ==
  /\ fpCall.step = "color"
  /\ \/ /\ fpCall.indicator = "power"
        /\ ledColor' = fpCall.value
        /\ fpKeptColor' = IF fpCall.value = "ORANGE" THEN "RED" ELSE fpCall.value
     \/ UNCHANGED fpColors
  /\ FpSucceeds
  /\ UNCHANGED <<fpStage, fpd_isPlatInitialized, powerBrightness, panelState, led, fpKept, fpWanted, fpBounds>>

-----------------------------------------------------------------------------
FpNext ==
  \/ FpInitialiseHAL \/ FpDeInitialiseHAL \/ FpCrash
  \/ \E i \in Indicators :
       \/ \E b \in Brightness, p \in BOOLEAN : SetFPDBrightness(i, b, p)
       \/ \E on \in BOOLEAN : SetFPDState(i, on)
       \/ \E color \in Colors : SetFPDColor(i, color)
  \/ EnsurePlatInit \/ dsSetFPBrightness \/ persistBrightness \/ dsSetFPState \/ dsSetFPColor

FpSpec == FpInit /\ [][FpNext]_fpVars

-----------------------------------------------------------------------------
(* Properties.                                                             *)

\* Whatever was tried in between, an indicator switched on lights with the
\* brightness last persisted for the power indicator, or with the one a call
\* interrupted by a crash asked for, also when the switch is the call that
\* initialises the HAL after a restart.
OnShowsSavedBrightness ==
  [][\A i \in Indicators :
       fpCall # NoFpCall /\ fpCall.name = "state" /\ panelState'[i] # panelState[i]
         /\ panelState'[i] = "on" /\ fpStage = "up" =>
       led'[i] \in fpWanted]_fpVars
=============================================================================
