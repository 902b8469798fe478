------------------------------ MODULE DSHdmiIn ------------------------------
(***************************************************************************)
(* EDID version, ALLM and VRR of an HDMI input (hal/dHdmiInImpl.h): what   *)
(* the HAL advertises, what the adapter caches and what is persisted.      *)
(*                                                                         *)
(* The component's lock lets one call run at a time, so the hazards are a  *)
(* HAL call that fails, a process that dies between two steps of a call,   *)
(* and a plugin created again in the same process, whose static flag keeps *)
(* it from restoring anything.  The ports share no state: one is modelled. *)
(***************************************************************************)
EXTENDS Naturals

CONSTANTS
  MaxInCalls,   \* bound: calls
  MaxInRestarts \* bound: crashes and re-creations

VARIABLES
  inStage,      \* down or up
  initialized,  \* m_hdmiInInitialized, static
  halEdid, halAllm, halVrr, \* what the HAL advertises
  vrrCaps,      \* m_hdmiPortVrrCaps
  edidVersion, allmSupport, vrrSupport, \* the cached settings
  kept,         \* the persisted settings, by name: {} or {value}
  inCall,       \* what is left of the call, or of the start-up
  refused,      \* history: the HAL failed in the start-up or a reapplication
  wanted,       \* history, by name: the values a restart may give back
  inCalls, inRestarts \* bound counters

inHal == <<halEdid, halAllm, halVrr>>
inCache == <<edidVersion, allmSupport, vrrSupport>>
inBounds == <<inCalls, inRestarts>>
inVars == <<inStage, initialized, inHal, vrrCaps, inCache, kept, inCall, refused, wanted, inBounds>>

Versions == {"1.4", "2.0"}
NoCall == [step |-> "none"]

InInit ==
  /\ inStage = "down" /\ initialized = FALSE
  /\ halEdid = "2.0" /\ halAllm = TRUE /\ halVrr = TRUE /\ vrrCaps \in BOOLEAN
  /\ edidVersion = "1.4" /\ allmSupport = FALSE /\ vrrSupport = FALSE
  /\ kept = [edid |-> {}, allm |-> {}, vrr |-> {}]
  /\ inCall = NoCall /\ refused = FALSE
  /\ wanted = [edid |-> {"2.0"}, allm |-> {TRUE}, vrr |-> {TRUE}]
  /\ inCalls = 0 /\ inRestarts = 0

Goto(step) ==
  /\ inCall' = [inCall EXCEPT !.step = step]
  /\ UNCHANGED <<inStage, initialized, vrrCaps, inBounds>>
Return ==
  /\ inCall' = NoCall
  /\ UNCHANGED <<inStage, initialized, vrrCaps, inBounds>>

-----------------------------------------------------------------------------
(* The process.                                                            *)

\* The first creation in a process loads the caches and sets the EDID version;
\* any later one finds the flag set and does neither.
Restored(name, default) == IF kept[name] = {} THEN default ELSE CHOOSE v \in kept[name] : TRUE
getPersistenceValue ==
  /\ inStage = "down"
  /\ inStage' = "up"
  /\ IF initialized THEN UNCHANGED <<initialized, inCache, inCall, refused>>
     ELSE /\ initialized' = TRUE
          /\ edidVersion' = Restored("edid", "2.0")
          /\ allmSupport' = Restored("allm", TRUE)
          /\ vrrSupport' = Restored("vrr", TRUE)
          /\ inCall' = [step |-> "edid", value |-> Restored("edid", "2.0"), was |-> wanted.edid]
          /\ refused' = FALSE
  /\ UNCHANGED <<inHal, vrrCaps, kept, wanted, inBounds>>

\* What the HAL advertises after the process, or the adapter, has gone.
HalKeepsOrForgets ==
  \/ UNCHANGED inHal
  \/ halEdid' = "2.0" /\ halAllm' = TRUE /\ halVrr' = TRUE
Crash ==
  /\ inStage = "up" /\ inRestarts < MaxInRestarts
  /\ inStage' = "down" /\ inRestarts' = inRestarts + 1
  /\ initialized' = FALSE
  /\ HalKeepsOrForgets
  /\ edidVersion' = "1.4" /\ allmSupport' = FALSE /\ vrrSupport' = FALSE
  /\ inCall' = NoCall
  /\ UNCHANGED <<vrrCaps, kept, refused, wanted, inCalls>>
DeInitialiseHAL ==
  /\ inStage = "up" /\ inCall = NoCall /\ inRestarts < MaxInRestarts
  /\ inStage' = "down" /\ inRestarts' = inRestarts + 1
  /\ HalKeepsOrForgets
  /\ refused' = (refused \/ inHal' # inHal)
  /\ UNCHANGED <<initialized, vrrCaps, inCache, kept, inCall, wanted, inCalls>>

-----------------------------------------------------------------------------
(* The calls.                                                              *)

BeginCall(step, name, v) ==
  /\ inStage = "up" /\ inCall = NoCall /\ inCalls < MaxInCalls
  /\ inCalls' = inCalls + 1
  /\ inCall' = [step |-> step, value |-> v, was |-> wanted[name]]
  /\ wanted' = [wanted EXCEPT ![name] = @ \cup {v}]
  /\ UNCHANGED <<inStage, initialized, inHal, vrrCaps, inCache, kept, refused, inRestarts>>
SetHDMIEdidVersion(v) == BeginCall("edid", "edid", v)
\* Without EDID 2.0 the call ends at once: unavailable.
SetHDMIInEdid2AllmSupport(b) == edidVersion = "2.0" /\ BeginCall("allm", "allm", b)
SetVRRSupport(b) == edidVersion = "2.0" /\ vrrCaps /\ BeginCall("vrr", "vrr", b)

Fails(name) ==
  /\ wanted' = [wanted EXCEPT ![name] = inCall.was]
  /\ Return

\* The HAL may reset the other bits of an EDID it is given.
setEdidVersion ==
  /\ inCall.step = "edid"
  /\ \/ /\ halEdid' = inCall.value
        /\ halAllm' \in {halAllm, FALSE} /\ halVrr' \in {halVrr, FALSE}
        /\ Goto("persistEdid")
        /\ UNCHANGED <<refused, wanted>>
     \/ /\ Fails("edid")
        /\ refused' = (refused \/ edidVersion = inCall.value)
        /\ UNCHANGED inHal
  /\ UNCHANGED <<inCache, kept>>
persistEdidVersion ==
  /\ inCall.step = "persistEdid"
  /\ kept' = [kept EXCEPT !.edid = {inCall.value}]
  /\ Goto(IF inCall.value = "2.0" THEN "allmAgain" ELSE "cacheEdid")
  /\ UNCHANGED <<inHal, inCache, refused, wanted>>
reapplyAllm ==
  /\ inCall.step = "allmAgain"
  /\ \/ halAllm' = allmSupport /\ UNCHANGED refused
     \/ refused' = TRUE /\ UNCHANGED halAllm
  /\ Goto("vrrAgain")
  /\ UNCHANGED <<halEdid, halVrr, inCache, kept, wanted>>
ReapplyStoredVrr == \* (fault) an unset setting counts as FALSE
  /\ inCall.step = "vrrAgain"
  /\ \/ halVrr' = (IF vrrCaps THEN kept.vrr = {TRUE} ELSE halVrr) /\ UNCHANGED refused
     \/ vrrCaps /\ refused' = TRUE /\ UNCHANGED halVrr
  /\ Goto("cacheEdid")
  /\ UNCHANGED <<halEdid, halAllm, inCache, kept, wanted>>
reapplyVrr ==
  /\ inCall.step = "vrrAgain"
  /\ \/ halVrr' = (IF vrrCaps THEN vrrSupport ELSE halVrr) /\ UNCHANGED refused
     \/ vrrCaps /\ refused' = TRUE /\ UNCHANGED halVrr
  /\ Goto("cacheEdid")
  /\ UNCHANGED <<halEdid, halAllm, inCache, kept, wanted>>
cacheEdidVersion ==
  /\ inCall.step = "cacheEdid"
  /\ edidVersion' = inCall.value
  /\ wanted' = [wanted EXCEPT !.edid = {inCall.value}]
  /\ Return
  /\ UNCHANGED <<inHal, allmSupport, vrrSupport, kept, refused>>

PersistsBeforeHal == \* (fault)
  /\ inCall.step = "allm"
  /\ kept' = [kept EXCEPT !.allm = {inCall.value}]
  /\ \/ halAllm' = inCall.value /\ Goto("persistAllm") /\ UNCHANGED wanted
     \/ Fails("allm") /\ UNCHANGED halAllm
  /\ UNCHANGED <<halEdid, halVrr, inCache, refused>>
setEdid2AllmSupport ==
  /\ inCall.step = "allm"
  /\ \/ halAllm' = inCall.value /\ Goto("persistAllm") /\ UNCHANGED wanted
     \/ Fails("allm") /\ UNCHANGED halAllm
  /\ UNCHANGED <<halEdid, halVrr, inCache, kept, refused>>
updateEdidAllmBitValuesInPersistence ==
  /\ inCall.step = "persistAllm"
  /\ kept' = [kept EXCEPT !.allm = {inCall.value}]
  /\ Goto("cacheAllm")
  /\ UNCHANGED <<inHal, inCache, refused, wanted>>
cacheAllm ==
  /\ inCall.step = "cacheAllm"
  /\ allmSupport' = inCall.value
  /\ wanted' = [wanted EXCEPT !.allm = {inCall.value}]
  /\ Return
  /\ UNCHANGED <<inHal, edidVersion, vrrSupport, kept, refused>>

\* The HAL is called twice and the second answer counts: a refusal may follow
\* a first call that took effect.
setVRRSupport ==
  /\ inCall.step = "vrr"
  /\ \/ /\ halVrr' = inCall.value
        /\ Goto("persistVrr")
        /\ UNCHANGED <<refused, wanted>>
     \/ /\ halVrr' \in {halVrr, inCall.value} /\ Fails("vrr")
        /\ refused' = (refused \/ halVrr' # halVrr)
  /\ UNCHANGED <<halEdid, halAllm, inCache, kept>>
updateVRRBitValuesInPersistence ==
  /\ inCall.step = "persistVrr"
  /\ kept' = [kept EXCEPT !.vrr = {inCall.value}]
  /\ Goto("cacheVrr")
  /\ UNCHANGED <<inHal, inCache, refused, wanted>>
cacheVrr ==
  /\ inCall.step = "cacheVrr"
  /\ vrrSupport' = inCall.value
  /\ wanted' = [wanted EXCEPT !.vrr = {inCall.value}]
  /\ Return
  /\ UNCHANGED <<inHal, edidVersion, allmSupport, kept, refused>>

GetHDMIEdidVersion == halEdid
GetHDMIInEdid2AllmSupport == allmSupport
GetVRRSupport == vrrSupport

-----------------------------------------------------------------------------
InNext ==
  \/ getPersistenceValue \/ Crash \/ DeInitialiseHAL
  \/ \E v \in Versions : SetHDMIEdidVersion(v)
  \/ \E b \in BOOLEAN : SetHDMIInEdid2AllmSupport(b) \/ SetVRRSupport(b)
  \/ setEdidVersion \/ persistEdidVersion \/ reapplyAllm \/ reapplyVrr \/ cacheEdidVersion
  \/ setEdid2AllmSupport \/ updateEdidAllmBitValuesInPersistence \/ cacheAllm
  \/ setVRRSupport \/ updateVRRBitValuesInPersistence \/ cacheVrr

InSpec == InInit /\ [][InNext]_inVars

-----------------------------------------------------------------------------
(* Properties.                                                             *)

Served == inStage = "up" /\ initialized /\ inCall = NoCall /\ ~refused

\* Whatever the order of the calls, an input that advertises EDID 2.0 carries
\* the ALLM and VRR bits the getters answer with.
EdidBitsAreLatest ==
  Served /\ GetHDMIEdidVersion = "2.0" =>
    halAllm = GetHDMIInEdid2AllmSupport /\ (vrrCaps => halVrr = GetVRRSupport)

\* After a crash in the middle of any call, the HAL advertises what was last
\* acknowledged, or what the interrupted call asked for.
InRestartGivesBack ==
  Served =>
    /\ halEdid \in wanted.edid
    /\ halEdid = "2.0" => halAllm \in wanted.allm /\ (vrrCaps => halVrr \in wanted.vrr)
=============================================================================
