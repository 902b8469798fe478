-------------------------- MODULE DSAdaptersProofs --------------------------
(***************************************************************************)
(* What a restart gives back: the HDMI inputs and the video device keep    *)
(* what was acknowledged, for any callers and any number of calls, crashes *)
(* and re-creations (the bounds are not assumed to be numbers).            *)
(***************************************************************************)
EXTENDS DSAdapters, TLAPS

(* The HDMI inputs: the bits advertised with an EDID.                      *)

EdidSteps == {"edid", "persistEdid", "allmAgain", "vrrAgain", "cacheEdid"}
BitSteps == {"allm", "persistAllm", "cacheAllm", "vrr", "persistVrr", "cacheVrr"}
InValues == Versions \cup BOOLEAN
EdidCalls == [step : EdidSteps, value : Versions, was : SUBSET InValues]
BitCalls == [step : BitSteps, value : BOOLEAN, was : SUBSET InValues]

\* The types of what the proof speaks about.
InTypes ==
  /\ initialized \in BOOLEAN /\ refused \in BOOLEAN /\ vrrCaps \in BOOLEAN
  /\ halEdid \in Versions /\ halAllm \in BOOLEAN /\ halVrr \in BOOLEAN
  /\ edidVersion \in Versions /\ allmSupport \in BOOLEAN /\ vrrSupport \in BOOLEAN
  /\ kept \in [edid : SUBSET Versions, allm : SUBSET BOOLEAN, vrr : SUBSET BOOLEAN]
  /\ wanted \in [edid : SUBSET InValues, allm : SUBSET InValues, vrr : SUBSET InValues]
  /\ inCall = NoCall \/ inCall \in EdidCalls \/ inCall \in BitCalls

AllmAgrees == halEdid = "2.0" => halAllm = allmSupport
VrrAgrees == halEdid = "2.0" /\ vrrCaps => halVrr = vrrSupport

\* Where the bits and the caches differ, the call under way closes the gap.
BitsFollow ==
  /\ inCall.step \in {"none", "allm", "vrr"} => AllmAgrees /\ VrrAgrees
  /\ inCall.step = "edid" => (AllmAgrees /\ VrrAgrees) \/ edidVersion = inCall.value
  /\ inCall.step = "persistEdid" => halEdid = inCall.value
  /\ inCall.step = "vrrAgain" => AllmAgrees
  /\ inCall.step = "cacheEdid" => AllmAgrees /\ VrrAgrees
  /\ inCall.step \in {"persistAllm", "cacheAllm"} =>
       (halEdid = "2.0" => halAllm = inCall.value) /\ VrrAgrees
  /\ inCall.step \in {"persistVrr", "cacheVrr"} =>
       AllmAgrees /\ (halEdid = "2.0" /\ vrrCaps => halVrr = inCall.value)

BitsInv == InTypes /\ (initialized /\ ~refused => BitsFollow)

-----------------------------------------------------------------------------
(* Lemmas about the records.                                               *)

\* What a restart loads is a value of the setting (getPersistenceValue).
LEMMA RestoredValue ==
  ASSUME InTypes
  PROVE  /\ Restored("edid", "2.0") \in Versions
         /\ Restored("allm", TRUE) \in BOOLEAN
         /\ Restored("vrr", TRUE) \in BOOLEAN
BY DEF InTypes, Restored, Versions

\* A call that goes on to its next step keeps its value.
LEMMA EdidGoesOn ==
  ASSUME inCall \in EdidCalls, NEW step \in EdidSteps, Goto(step)
  PROVE  /\ inCall' \in EdidCalls /\ inCall'.step = step /\ inCall'.value = inCall.value
         /\ initialized' = initialized /\ vrrCaps' = vrrCaps
BY DEF EdidCalls, Goto

\* The same for a call that sets a bit.
LEMMA BitGoesOn ==
  ASSUME inCall \in BitCalls, NEW step \in BitSteps, Goto(step)
  PROVE  /\ inCall' \in BitCalls /\ inCall'.step = step /\ inCall'.value = inCall.value
         /\ initialized' = initialized /\ vrrCaps' = vrrCaps
BY DEF BitCalls, Goto

\* The step tells which of the two kinds of call is under way.
LEMMA KindOfCall ==
  ASSUME InTypes
  PROVE  /\ inCall.step \in EdidSteps => inCall \in EdidCalls
         /\ inCall.step \in BitSteps => inCall \in BitCalls
BY DEF InTypes, EdidCalls, BitCalls, EdidSteps, BitSteps, NoCall

\* A failed call restores what a restart may give back.
LEMMA FailingCall ==
  ASSUME InTypes, NEW name \in {"edid", "allm", "vrr"}, Fails(name),
         inCall \in EdidCalls \cup BitCalls
  PROVE  /\ wanted' \in [edid : SUBSET InValues, allm : SUBSET InValues, vrr : SUBSET InValues]
         /\ inCall' = NoCall /\ initialized' = initialized /\ vrrCaps' = vrrCaps
BY DEF InTypes, EdidCalls, BitCalls, Fails, Return

-----------------------------------------------------------------------------
\* InInit establishes the invariant.
LEMMA BitsStart == InInit => BitsInv
<1> SUFFICES ASSUME InInit
             PROVE  BitsInv
  OBVIOUS
<1>1. /\ wanted = [edid |-> {"2.0"}, allm |-> {TRUE}, vrr |-> {TRUE}]
      /\ kept = [edid |-> {}, allm |-> {}, vrr |-> {}]
      /\ {"2.0"} \subseteq InValues /\ {TRUE} \subseteq InValues
  BY DEF InInit, InValues, Versions
<1>2. wanted \in [edid : SUBSET InValues, allm : SUBSET InValues, vrr : SUBSET InValues]
  BY <1>1
<1>3. kept \in [edid : SUBSET Versions, allm : SUBSET BOOLEAN, vrr : SUBSET BOOLEAN]
  BY <1>1
<1>4. QED
  BY <1>2, <1>3 DEF InInit, BitsInv, InTypes, Versions

\* A new call begins with the bits in agreement (SetHDMIEdidVersion,
\* SetHDMIInEdid2AllmSupport, SetVRRSupport).
LEMMA InBeginStep ==
  ASSUME BitsInv, NEW name \in {"edid", "allm", "vrr"}, NEW v,
         BeginCall(name, name, v),
         v \in (IF name = "edid" THEN Versions ELSE BOOLEAN)
  PROVE  BitsInv'
<1>1. /\ inCall' = [step |-> name, value |-> v, was |-> wanted[name]]
      /\ inCall.step = "none" /\ v \in InValues
      /\ wanted' = [wanted EXCEPT ![name] = @ \cup {v}]
      /\ UNCHANGED <<initialized, vrrCaps, inHal, inCache, kept, refused>>
  BY DEF BeginCall, NoCall, InValues
<1>2. wanted[name] \in SUBSET InValues
  BY DEF BitsInv, InTypes
<1>3. wanted' \in [edid : SUBSET InValues, allm : SUBSET InValues, vrr : SUBSET InValues]
  BY <1>1, <1>2 DEF BitsInv, InTypes
<1>4. inCall' \in EdidCalls \/ inCall' \in BitCalls
  BY <1>1, <1>2 DEF EdidCalls, BitCalls, EdidSteps, BitSteps
<1>5. InTypes'
  BY <1>1, <1>3, <1>4 DEF BitsInv, InTypes, inHal, inCache
<1>6. initialized' /\ ~refused' => BitsFollow'
  BY <1>1 DEF BitsInv, BitsFollow, AllmAgrees, VrrAgrees, inHal, inCache
<1>7. QED
  BY <1>5, <1>6 DEF BitsInv

\* Every step of a call, of the process and of its restarts preserves the
\* invariant.
LEMMA BitsStep == BitsInv /\ [InNext]_inVars => BitsInv'
<1> SUFFICES ASSUME BitsInv, [InNext]_inVars
             PROVE  BitsInv'
  OBVIOUS
<1> USE DEF BitsInv, inHal, inCache
<1>a. InTypes
  OBVIOUS
<1>1. CASE getPersistenceValue
  <2>1. CASE initialized
    BY <1>1, <2>1 DEF getPersistenceValue, InTypes, BitsFollow, AllmAgrees, VrrAgrees
  <2>2. CASE ~initialized
    <3>1. /\ Restored("edid", "2.0") \in Versions /\ Restored("allm", TRUE) \in BOOLEAN
          /\ Restored("vrr", TRUE) \in BOOLEAN /\ wanted.edid \in SUBSET InValues
      BY <1>a, RestoredValue DEF InTypes
    <3>2. /\ inCall' = [step |-> "edid", value |-> Restored("edid", "2.0"), was |-> wanted.edid]
          /\ edidVersion' = Restored("edid", "2.0") /\ allmSupport' = Restored("allm", TRUE)
          /\ vrrSupport' = Restored("vrr", TRUE) /\ initialized' = TRUE /\ refused' = FALSE
          /\ UNCHANGED <<inHal, vrrCaps, kept, wanted>>
      BY <1>1, <2>2 DEF getPersistenceValue
    <3>3. inCall' \in EdidCalls
      BY <3>1, <3>2 DEF EdidCalls, EdidSteps
    <3>4. InTypes'
      BY <3>1, <3>2, <3>3 DEF InTypes
    <3>5. BitsFollow'
      BY <3>2 DEF BitsFollow
    <3>6. QED
      BY <3>4, <3>5
  <2>3. QED
    BY <2>1, <2>2
<1>2. CASE Crash
  BY <1>2 DEF Crash, HalKeepsOrForgets, InTypes, Versions
<1>3. CASE DeInitialiseHAL
  <2>1. UNCHANGED <<initialized, vrrCaps, edidVersion, allmSupport, vrrSupport, kept, inCall, wanted>>
    BY <1>3 DEF DeInitialiseHAL
  <2>2. refused' \in BOOLEAN
    BY <1>3 DEF DeInitialiseHAL, InTypes
  <2>3. ~refused' => ~refused /\ UNCHANGED <<halEdid, halAllm, halVrr>>
    BY <1>3 DEF DeInitialiseHAL
  <2>4. halEdid' \in Versions /\ halAllm' \in BOOLEAN /\ halVrr' \in BOOLEAN
    BY <1>3 DEF DeInitialiseHAL, HalKeepsOrForgets, InTypes, Versions
  <2>5. InTypes'
    BY <2>1, <2>2, <2>4 DEF InTypes
  <2>6. initialized' /\ ~refused' => BitsFollow'
    BY <2>1, <2>3 DEF BitsFollow, AllmAgrees, VrrAgrees
  <2> QED BY <2>5, <2>6
<1>4. ASSUME NEW v \in Versions, SetHDMIEdidVersion(v)
      PROVE  BitsInv'
  BY <1>4, InBeginStep DEF SetHDMIEdidVersion
<1>5. ASSUME NEW b \in BOOLEAN, SetHDMIInEdid2AllmSupport(b) \/ SetVRRSupport(b)
      PROVE  BitsInv'
  BY <1>5, InBeginStep DEF SetHDMIInEdid2AllmSupport, SetVRRSupport
<1>6. CASE setEdidVersion
  <2> USE <1>6 DEF setEdidVersion
  <2>1. inCall \in EdidCalls
    BY KindOfCall DEF EdidSteps
  <2>2. CASE Goto("persistEdid") /\ halEdid' = inCall.value /\ UNCHANGED <<refused, wanted>>
              /\ halAllm' \in {halAllm, FALSE} /\ halVrr' \in {halVrr, FALSE}
    <3>1. /\ inCall' \in EdidCalls /\ inCall'.step = "persistEdid"
          /\ inCall'.value = inCall.value /\ initialized' = initialized /\ vrrCaps' = vrrCaps
      BY <2>1, <2>2, EdidGoesOn DEF EdidSteps
    <3>2. inCall.value \in Versions
      BY <2>1 DEF EdidCalls
    <3>3. QED
      BY <2>2, <3>1, <3>2 DEF InTypes, BitsFollow
  <2>3. CASE Fails("edid") /\ UNCHANGED inHal /\ refused' = (refused \/ edidVersion = inCall.value)
    <3>1. /\ wanted' \in [edid : SUBSET InValues, allm : SUBSET InValues, vrr : SUBSET InValues]
          /\ inCall' = NoCall /\ initialized' = initialized /\ vrrCaps' = vrrCaps
      BY <2>1, <2>3, FailingCall
    <3>2. QED
      BY <2>3, <3>1 DEF InTypes, BitsFollow, AllmAgrees, VrrAgrees, NoCall
  <2>4. QED
    BY <2>2, <2>3
<1>7. CASE persistEdidVersion
  <2>1. inCall \in EdidCalls
    BY <1>7, KindOfCall DEF persistEdidVersion, EdidSteps
  <2>2. /\ inCall' \in EdidCalls /\ inCall'.value = inCall.value
        /\ inCall'.step = IF inCall.value = "2.0" THEN "allmAgain" ELSE "cacheEdid"
        /\ initialized' = initialized /\ vrrCaps' = vrrCaps
    BY <1>7, <2>1, EdidGoesOn DEF persistEdidVersion, EdidSteps
  <2>3. kept' \in [edid : SUBSET Versions, allm : SUBSET BOOLEAN, vrr : SUBSET BOOLEAN]
    BY <1>7, <2>1 DEF persistEdidVersion, InTypes, EdidCalls
  <2>4. QED
    BY <1>7, <2>2, <2>3 DEF persistEdidVersion, InTypes, BitsFollow, AllmAgrees, VrrAgrees
<1>8. CASE reapplyAllm
  <2>1. inCall \in EdidCalls
    BY <1>8, KindOfCall DEF reapplyAllm, EdidSteps
  <2>2. /\ inCall' \in EdidCalls /\ inCall'.step = "vrrAgain"
        /\ initialized' = initialized /\ vrrCaps' = vrrCaps
    BY <1>8, <2>1, EdidGoesOn DEF reapplyAllm, EdidSteps
  <2>3. QED
    BY <1>8, <2>2 DEF reapplyAllm, InTypes, BitsFollow, AllmAgrees
<1>9. CASE reapplyVrr
  <2>1. inCall \in EdidCalls
    BY <1>9, KindOfCall DEF reapplyVrr, EdidSteps
  <2>2. /\ inCall' \in EdidCalls /\ inCall'.step = "cacheEdid" /\ inCall'.value = inCall.value
        /\ initialized' = initialized /\ vrrCaps' = vrrCaps
    BY <1>9, <2>1, EdidGoesOn DEF reapplyVrr, EdidSteps
  <2>3. InTypes'
    BY <1>9, <2>2 DEF reapplyVrr, InTypes
  <2>4. ASSUME initialized', ~refused'
        PROVE  BitsFollow'
    <3>1. /\ halVrr' = IF vrrCaps THEN vrrSupport ELSE halVrr
          /\ ~refused /\ inCall.step = "vrrAgain" /\ AllmAgrees
      BY <1>9, <2>2, <2>4 DEF reapplyVrr, BitsFollow, InTypes
    <3>2. AllmAgrees' /\ VrrAgrees'
      BY <1>9, <2>2, <3>1 DEF reapplyVrr, AllmAgrees, VrrAgrees
    <3>3. QED
      BY <2>2, <3>2 DEF BitsFollow
  <2>5. QED
    BY <2>3, <2>4
<1>10. CASE cacheEdidVersion
  <2>1. inCall \in EdidCalls
    BY <1>10, KindOfCall DEF cacheEdidVersion, EdidSteps
  <2>2. wanted' \in [edid : SUBSET InValues, allm : SUBSET InValues, vrr : SUBSET InValues]
    BY <1>10, <2>1 DEF cacheEdidVersion, InTypes, EdidCalls, InValues
  <2>3. QED
    BY <1>10, <2>1, <2>2 DEF cacheEdidVersion, Return, InTypes, BitsFollow, AllmAgrees,
       VrrAgrees, NoCall, EdidCalls
<1>11. CASE setEdid2AllmSupport
  <2>1. inCall \in BitCalls
    BY <1>11, KindOfCall DEF setEdid2AllmSupport, BitSteps
  <2>2. CASE halAllm' = inCall.value /\ Goto("persistAllm") /\ UNCHANGED wanted
    <3>1. /\ inCall' \in BitCalls /\ inCall'.step = "persistAllm"
          /\ inCall'.value = inCall.value /\ initialized' = initialized /\ vrrCaps' = vrrCaps
      BY <2>1, <2>2, BitGoesOn DEF BitSteps
    <3>2. inCall.value \in BOOLEAN
      BY <2>1 DEF BitCalls
    <3>3. QED
      BY <1>11, <2>2, <3>1, <3>2 DEF setEdid2AllmSupport, InTypes, BitsFollow, AllmAgrees,
         VrrAgrees
  <2>3. CASE Fails("allm") /\ UNCHANGED halAllm
    <3>1. /\ wanted' \in [edid : SUBSET InValues, allm : SUBSET InValues, vrr : SUBSET InValues]
          /\ inCall' = NoCall /\ initialized' = initialized /\ vrrCaps' = vrrCaps
      BY <2>1, <2>3, FailingCall
    <3>2. QED
      BY <1>11, <2>3, <3>1 DEF setEdid2AllmSupport, InTypes, BitsFollow, AllmAgrees, VrrAgrees,
         NoCall
  <2>4. QED
    BY <1>11, <2>2, <2>3 DEF setEdid2AllmSupport
<1>12. CASE updateEdidAllmBitValuesInPersistence
  <2>1. inCall \in BitCalls
    BY <1>12, KindOfCall DEF updateEdidAllmBitValuesInPersistence, BitSteps
  <2>2. /\ inCall' \in BitCalls /\ inCall'.step = "cacheAllm" /\ inCall'.value = inCall.value
        /\ initialized' = initialized /\ vrrCaps' = vrrCaps
    BY <1>12, <2>1, BitGoesOn DEF updateEdidAllmBitValuesInPersistence, BitSteps
  <2>3. kept' \in [edid : SUBSET Versions, allm : SUBSET BOOLEAN, vrr : SUBSET BOOLEAN]
    BY <1>12, <2>1 DEF updateEdidAllmBitValuesInPersistence, InTypes, BitCalls
  <2>4. QED
    BY <1>12, <2>2, <2>3 DEF updateEdidAllmBitValuesInPersistence, InTypes, BitsFollow,
       AllmAgrees, VrrAgrees
<1>13. CASE cacheAllm
  <2>1. inCall \in BitCalls
    BY <1>13, KindOfCall DEF cacheAllm, BitSteps
  <2>2. wanted' \in [edid : SUBSET InValues, allm : SUBSET InValues, vrr : SUBSET InValues]
    BY <1>13, <2>1 DEF cacheAllm, InTypes, BitCalls, InValues
  <2>3. QED
    BY <1>13, <2>1, <2>2 DEF cacheAllm, Return, InTypes, BitsFollow, AllmAgrees, VrrAgrees,
       NoCall, BitCalls
<1>14. CASE setVRRSupport
  <2>1. inCall \in BitCalls
    BY <1>14, KindOfCall DEF setVRRSupport, BitSteps
  <2>2. inCall.value \in BOOLEAN
    BY <2>1 DEF BitCalls
  <2>3. CASE halVrr' = inCall.value /\ Goto("persistVrr") /\ UNCHANGED <<refused, wanted>>
    <3>1. /\ inCall' \in BitCalls /\ inCall'.step = "persistVrr"
          /\ inCall'.value = inCall.value /\ initialized' = initialized /\ vrrCaps' = vrrCaps
      BY <2>1, <2>3, BitGoesOn DEF BitSteps
    <3>2. QED
      BY <1>14, <2>2, <2>3, <3>1 DEF setVRRSupport, InTypes, BitsFollow, AllmAgrees, VrrAgrees
  <2>4. CASE /\ halVrr' \in {halVrr, inCall.value} /\ Fails("vrr")
             /\ refused' = (refused \/ halVrr' # halVrr)
    <3>1. /\ wanted' \in [edid : SUBSET InValues, allm : SUBSET InValues, vrr : SUBSET InValues]
          /\ inCall' = NoCall /\ initialized' = initialized /\ vrrCaps' = vrrCaps
      BY <2>1, <2>4, FailingCall
    <3>2. InTypes'
      BY <1>14, <2>2, <2>4, <3>1 DEF setVRRSupport, InTypes
    <3>3. initialized' /\ ~refused' => BitsFollow'
      BY <1>14, <2>4, <3>1 DEF setVRRSupport, BitsFollow, AllmAgrees, VrrAgrees, NoCall
    <3>4. QED
      BY <3>2, <3>3
  <2>5. QED
    BY <1>14, <2>3, <2>4 DEF setVRRSupport
<1>15. CASE updateVRRBitValuesInPersistence
  <2>1. inCall \in BitCalls
    BY <1>15, KindOfCall DEF updateVRRBitValuesInPersistence, BitSteps
  <2>2. /\ inCall' \in BitCalls /\ inCall'.step = "cacheVrr" /\ inCall'.value = inCall.value
        /\ initialized' = initialized /\ vrrCaps' = vrrCaps
    BY <1>15, <2>1, BitGoesOn DEF updateVRRBitValuesInPersistence, BitSteps
  <2>3. kept' \in [edid : SUBSET Versions, allm : SUBSET BOOLEAN, vrr : SUBSET BOOLEAN]
    BY <1>15, <2>1 DEF updateVRRBitValuesInPersistence, InTypes, BitCalls
  <2>4. QED
    BY <1>15, <2>2, <2>3 DEF updateVRRBitValuesInPersistence, InTypes, BitsFollow, AllmAgrees,
       VrrAgrees
<1>16. CASE cacheVrr
  <2>1. inCall \in BitCalls
    BY <1>16, KindOfCall DEF cacheVrr, BitSteps
  <2>2. wanted' \in [edid : SUBSET InValues, allm : SUBSET InValues, vrr : SUBSET InValues]
    BY <1>16, <2>1 DEF cacheVrr, InTypes, BitCalls, InValues
  <2>3. QED
    BY <1>16, <2>1, <2>2 DEF cacheVrr, Return, InTypes, BitsFollow, AllmAgrees, VrrAgrees,
       NoCall, BitCalls
<1>17. CASE UNCHANGED inVars
  BY <1>17 DEF inVars, InTypes, BitsFollow, AllmAgrees, VrrAgrees
<1>18. QED
  BY <1>1, <1>2, <1>3, <1>4, <1>5, <1>6, <1>7, <1>8, <1>9, <1>10, <1>11, <1>12, <1>13, <1>14,
     <1>15, <1>16, <1>17 DEF InNext

\* An input that is up, whose HAL refused nothing, advertises with EDID 2.0
\* the ALLM and VRR bits the getters answer with (setEdidVersion's
\* reapplication, setEdid2AllmSupport, setVRRSupport).
THEOREM BitsAreLatest == InSpec => []EdidBitsAreLatest
<1>1. BitsInv => EdidBitsAreLatest
  BY DEF BitsInv, BitsFollow, AllmAgrees, VrrAgrees, EdidBitsAreLatest, Served,
         GetHDMIEdidVersion, GetHDMIInEdid2AllmSupport, GetVRRSupport, NoCall
<1>2. QED
  BY BitsStart, BitsStep, <1>1, PTL DEF InSpec

-----------------------------------------------------------------------------
(* The HDMI inputs: what a restart gives back.                             *)

\* What a restart may load of a setting: the persisted values, or the default.
Loadable(name, default) == IF kept[name] = {} THEN {default} ELSE kept[name]

AllmSteps == {"allm", "persistAllm", "cacheAllm"}
VrrSteps == {"vrr", "persistVrr", "cacheVrr"}

\* A client may expect what is persisted, what is cached and what is being set;
\* what a failing call falls back to covers the persisted and the cached value.
EdidGiven ==
  /\ Loadable("edid", "2.0") \subseteq wanted.edid
  /\ initialized => edidVersion \in wanted.edid
  /\ inCall.step \in EdidSteps => inCall.value \in wanted.edid
  /\ inCall.step = "edid" =>
       Loadable("edid", "2.0") \subseteq inCall.was /\ (initialized => edidVersion \in inCall.was)
  /\ inCall.step \in {"allmAgain", "vrrAgain", "cacheEdid"} => kept.edid = {inCall.value}
AllmGiven ==
  /\ Loadable("allm", TRUE) \subseteq wanted.allm
  /\ initialized => allmSupport \in wanted.allm
  /\ inCall.step \in AllmSteps => inCall.value \in wanted.allm
  /\ inCall.step = "allm" =>
       Loadable("allm", TRUE) \subseteq inCall.was /\ (initialized => allmSupport \in inCall.was)
  /\ inCall.step = "cacheAllm" => kept.allm = {inCall.value}
VrrGiven ==
  /\ Loadable("vrr", TRUE) \subseteq wanted.vrr
  /\ initialized => vrrSupport \in wanted.vrr
  /\ inCall.step \in VrrSteps => inCall.value \in wanted.vrr
  /\ inCall.step = "vrr" =>
       Loadable("vrr", TRUE) \subseteq inCall.was /\ (initialized => vrrSupport \in inCall.was)
  /\ inCall.step = "cacheVrr" => kept.vrr = {inCall.value}
\* The HAL's EDID version is the cached one, but for the call that sets it.
VersionFollows ==
  initialized /\ ~refused =>
    /\ inCall.step \in {"none"} \cup BitSteps => halEdid = edidVersion
    /\ inCall.step = "edid" => halEdid = edidVersion \/ edidVersion = inCall.value
    /\ inCall.step \in EdidSteps \ {"edid"} => halEdid = inCall.value

GivenInv == EdidGiven /\ AllmGiven /\ VrrGiven /\ VersionFollows

-----------------------------------------------------------------------------
\* Calls of one setting leave the others as they are.
LEMMA EdidStays ==
  ASSUME EdidGiven, kept'.edid = kept.edid, wanted'.edid = wanted.edid, edidVersion' = edidVersion,
         initialized' => initialized, inCall'.step \notin EdidSteps
  PROVE  EdidGiven'
BY DEF EdidGiven, Loadable, EdidSteps

\* The same for ALLM.
LEMMA AllmStays ==
  ASSUME AllmGiven, kept'.allm = kept.allm, wanted'.allm = wanted.allm, allmSupport' = allmSupport,
         initialized' => initialized, inCall'.step \notin AllmSteps
  PROVE  AllmGiven'
BY DEF AllmGiven, Loadable, AllmSteps

\* The same for VRR.
LEMMA VrrStays ==
  ASSUME VrrGiven, kept'.vrr = kept.vrr, wanted'.vrr = wanted.vrr, vrrSupport' = vrrSupport,
         initialized' => initialized, inCall'.step \notin VrrSteps
  PROVE  VrrGiven'
BY DEF VrrGiven, Loadable, VrrSteps

\* What a restart loads it may load.
LEMMA RestoredIsLoadable ==
  ASSUME NEW name, NEW default
  PROVE  Restored(name, default) \in Loadable(name, default)
<1>1. CASE kept[name] = {}
  BY <1>1 DEF Restored, Loadable
<1>2. CASE kept[name] # {}
  <2>1. (CHOOSE v \in kept[name] : TRUE) \in kept[name]
    BY <1>2
  <2> QED BY <1>2, <2>1 DEF Restored, Loadable
<1> QED BY <1>1, <1>2

\* Nothing was persisted and the defaults are expected.
LEMMA GivenInit == InInit => GivenInv
<1> SUFFICES ASSUME InInit PROVE GivenInv
  OBVIOUS
<1>1. /\ kept = [edid |-> {}, allm |-> {}, vrr |-> {}] /\ inCall = NoCall /\ ~initialized
      /\ wanted = [edid |-> {"2.0"}, allm |-> {TRUE}, vrr |-> {TRUE}]
  BY DEF InInit
<1> QED
  BY <1>1 DEF GivenInv, EdidGiven, AllmGiven, VrrGiven, VersionFollows, Loadable, NoCall,
              EdidSteps, AllmSteps, VrrSteps

\* A step that changes nothing of what the invariant speaks of keeps it.
LEMMA GivenUnchanged ==
  ASSUME GivenInv, UNCHANGED <<initialized, inCache, inCall, refused, inHal, kept, wanted>>
  PROVE  GivenInv'
<1>1. /\ initialized' = initialized /\ refused' = refused /\ inCall' = inCall
      /\ kept' = kept /\ wanted' = wanted
      /\ edidVersion' = edidVersion /\ allmSupport' = allmSupport /\ vrrSupport' = vrrSupport
      /\ halEdid' = halEdid
  BY DEF inCache, inHal
<1>a. \A name, default : Loadable(name, default)' = Loadable(name, default)
  BY <1>1 DEF Loadable
<1>2. EdidGiven'
  BY <1>1, <1>a DEF GivenInv, EdidGiven
<1>3. AllmGiven'
  <2>1. Loadable("allm", TRUE)' = Loadable("allm", TRUE) /\ kept'.allm = kept.allm /\ wanted'.allm = wanted.allm
    BY <1>1, <1>a
  <2>2. inCall'.step = inCall.step /\ inCall'.value = inCall.value /\ inCall'.was = inCall.was
    BY <1>1
  <2>3. (initialized' => initialized) /\ allmSupport' = allmSupport
    BY <1>1
  <2> QED BY <2>1, <2>2, <2>3 DEF GivenInv, AllmGiven
<1>4. VrrGiven'
  <2>1. Loadable("vrr", TRUE)' = Loadable("vrr", TRUE) /\ kept'.vrr = kept.vrr /\ wanted'.vrr = wanted.vrr
    BY <1>1, <1>a
  <2>2. inCall'.step = inCall.step /\ inCall'.value = inCall.value /\ inCall'.was = inCall.was
    BY <1>1
  <2>3. (initialized' => initialized) /\ vrrSupport' = vrrSupport
    BY <1>1
  <2> QED BY <2>1, <2>2, <2>3 DEF GivenInv, VrrGiven
<1>5. VersionFollows'
  BY <1>1 DEF GivenInv, VersionFollows
<1> QED BY <1>2, <1>3, <1>4, <1>5 DEF GivenInv

\* The first creation in a process: the start-up sets what was persisted.
LEMMA CreationGives ==
  ASSUME InTypes, GivenInv, getPersistenceValue
  PROVE  GivenInv'
<1>1. CASE initialized
  <2>1. UNCHANGED <<initialized, inCache, inCall, refused, inHal, kept, wanted>>
    BY <1>1 DEF getPersistenceValue
  <2> QED BY <2>1, GivenUnchanged
<1>2. CASE ~initialized
  <2> DEFINE e == Restored("edid", "2.0")
             a == Restored("allm", TRUE)
             v == Restored("vrr", TRUE)
  <2>1. /\ edidVersion' = e /\ allmSupport' = a /\ vrrSupport' = v
        /\ inCall' = [step |-> "edid", value |-> e, was |-> wanted.edid]
        /\ UNCHANGED <<kept, wanted>>
    BY <1>2 DEF getPersistenceValue
  <2>2. e \in wanted.edid /\ a \in wanted.allm /\ v \in wanted.vrr
    BY RestoredIsLoadable DEF GivenInv, EdidGiven, AllmGiven, VrrGiven
  <2> HIDE DEF e, a, v
  <2>3. inCall'.step = "edid" /\ inCall'.value = e /\ inCall'.was = wanted.edid
    BY <2>1
  <2>4. EdidGiven'
    BY <2>1, <2>2, <2>3 DEF GivenInv, EdidGiven, Loadable
  <2>5. AllmGiven' /\ VrrGiven'
    BY <2>1, <2>2, <2>3 DEF GivenInv, AllmGiven, VrrGiven, Loadable, AllmSteps, VrrSteps
  <2>6. VersionFollows'
    BY <2>1, <2>3 DEF VersionFollows, BitSteps
  <2> QED BY <2>4, <2>5, <2>6 DEF GivenInv
<1> QED BY <1>1, <1>2

\* The process goes away, in order or not.
LEMMA DepartureGives ==
  ASSUME InTypes, GivenInv, Crash \/ DeInitialiseHAL
  PROVE  GivenInv'
<1>1. /\ inCall' = NoCall /\ UNCHANGED <<kept, wanted>>
      /\ initialized' => initialized /\ UNCHANGED inCache /\ inCall = NoCall
      /\ initialized' /\ ~refused' => ~refused /\ halEdid' = halEdid
  <2>1. CASE Crash
    BY <2>1 DEF Crash
  <2>2. CASE DeInitialiseHAL
    <3>1. inHal' = inHal => halEdid' = halEdid
      BY DEF inHal
    <3> QED BY <2>2, <3>1, Zenon DEF DeInitialiseHAL
  <2> QED BY <2>1, <2>2
<1>2. inCall'.step = "none"
  BY <1>1 DEF NoCall
<1>3. EdidGiven' /\ AllmGiven' /\ VrrGiven'
  BY <1>1, <1>2 DEF GivenInv, EdidGiven, AllmGiven, VrrGiven, Loadable, inCache, EdidSteps,
                    AllmSteps, VrrSteps
<1>4. VersionFollows'
  BY <1>1, <1>2 DEF GivenInv, VersionFollows, inCache, NoCall, EdidSteps
<1> QED BY <1>3, <1>4 DEF GivenInv

\* A call begins: what it asks for may be expected from now on.
LEMMA BeginGives ==
  ASSUME InTypes, GivenInv, NEW name \in {"edid", "allm", "vrr"}, NEW v, BeginCall(name, name, v)
  PROVE  GivenInv'
<1>1. /\ inCall' = [step |-> name, value |-> v, was |-> wanted[name]] /\ inCall = NoCall
      /\ wanted' = [wanted EXCEPT ![name] = @ \cup {v}]
      /\ UNCHANGED <<initialized, inHal, inCache, kept, refused>>
  BY DEF BeginCall
<1>2. inCall'.step = name /\ inCall'.value = v /\ inCall'.was = wanted[name] /\ inCall.step = "none"
  BY <1>1 DEF NoCall
<1>3. CASE name = "edid"
  <2>1. wanted'.edid = wanted.edid \cup {v} /\ wanted'.allm = wanted.allm /\ wanted'.vrr = wanted.vrr
    BY <1>1, <1>3 DEF InTypes
  <2>2. EdidGiven'
    BY <1>1, <1>2, <1>3, <2>1 DEF GivenInv, EdidGiven, Loadable, inCache
  <2> QED
    BY <1>1, <1>2, <1>3, <2>1, <2>2, AllmStays, VrrStays
       DEF GivenInv, VersionFollows, inCache, inHal, AllmSteps, VrrSteps, EdidSteps, BitSteps
<1>4. CASE name = "allm"
  <2>1. wanted'.edid = wanted.edid /\ wanted'.allm = wanted.allm \cup {v} /\ wanted'.vrr = wanted.vrr
    BY <1>1, <1>4 DEF InTypes
  <2>2. AllmGiven'
    BY <1>1, <1>2, <1>4, <2>1 DEF GivenInv, AllmGiven, Loadable, inCache
  <2> QED
    BY <1>1, <1>2, <1>4, <2>1, <2>2, EdidStays, VrrStays
       DEF GivenInv, VersionFollows, inCache, inHal, AllmSteps, VrrSteps, EdidSteps, BitSteps
<1>5. CASE name = "vrr"
  <2>1. wanted'.edid = wanted.edid /\ wanted'.allm = wanted.allm /\ wanted'.vrr = wanted.vrr \cup {v}
    BY <1>1, <1>5 DEF InTypes
  <2>2. VrrGiven'
    BY <1>1, <1>2, <1>5, <2>1 DEF GivenInv, VrrGiven, Loadable, inCache
  <2> QED
    BY <1>1, <1>2, <1>5, <2>1, <2>2, EdidStays, AllmStays
       DEF GivenInv, VersionFollows, inCache, inHal, AllmSteps, VrrSteps, EdidSteps, BitSteps
<1> QED BY <1>3, <1>4, <1>5

\* The steps of a call that sets the EDID version.
LEMMA EdidStepGives ==
  ASSUME InTypes, GivenInv,
         setEdidVersion \/ persistEdidVersion \/ reapplyAllm \/ reapplyVrr \/ cacheEdidVersion
  PROVE  GivenInv'
<1>1. inCall \in EdidCalls /\ inCall.step \in EdidSteps
  BY KindOfCall DEF setEdidVersion, persistEdidVersion, reapplyAllm, reapplyVrr, cacheEdidVersion,
                    EdidSteps
<1>2. UNCHANGED <<initialized, allmSupport, vrrSupport>>
  BY DEF setEdidVersion, persistEdidVersion, reapplyAllm, reapplyVrr, cacheEdidVersion,
         Goto, Fails, Return, inCache
<1>3. /\ kept'.allm = kept.allm /\ kept'.vrr = kept.vrr
      /\ wanted'.allm = wanted.allm /\ wanted'.vrr = wanted.vrr
  BY DEF setEdidVersion, persistEdidVersion, reapplyAllm, reapplyVrr, cacheEdidVersion, Fails, InTypes
<1>4. inCall' = NoCall \/ \E step \in EdidSteps : Goto(step)
  BY DEF setEdidVersion, persistEdidVersion, reapplyAllm, reapplyVrr, cacheEdidVersion, Fails,
         Return, EdidSteps
<1>5. inCall'.step \in EdidSteps \cup {"none"}
  BY <1>1, <1>4, EdidGoesOn DEF NoCall
<1>6. AllmGiven' /\ VrrGiven'
  BY <1>2, <1>3, <1>5, AllmStays, VrrStays DEF GivenInv, EdidSteps, AllmSteps, VrrSteps
<1>7. CASE setEdidVersion
  <2>1. CASE Goto("persistEdid") /\ halEdid' = inCall.value /\ UNCHANGED <<refused, wanted>>
    <3>1. inCall'.step = "persistEdid" /\ inCall'.value = inCall.value
      BY <1>1, <2>1, EdidGoesOn DEF EdidSteps
    <3> QED
      BY <1>1, <1>2, <1>6, <1>7, <2>1, <3>1
         DEF setEdidVersion, GivenInv, EdidGiven, VersionFollows, Loadable, inCache, EdidSteps, BitSteps
  <2>2. CASE Fails("edid") /\ UNCHANGED inHal /\ refused' = (refused \/ edidVersion = inCall.value)
    <3>1. inCall'.step = "none" /\ wanted'.edid = inCall.was
      BY <2>2 DEF Fails, Return, NoCall, InTypes
    <3> QED
      BY <1>1, <1>2, <1>6, <1>7, <2>2, <3>1
         DEF setEdidVersion, GivenInv, EdidGiven, VersionFollows, Loadable, inCache, inHal, EdidSteps,
             BitSteps
  <2> QED BY <1>7, <2>1, <2>2 DEF setEdidVersion
<1>8. CASE persistEdidVersion
  <2>1. kept'.edid = {inCall.value} /\ UNCHANGED <<inHal, inCache, refused, wanted>>
    BY <1>8 DEF persistEdidVersion, InTypes
  <2>2. inCall'.step \in {"allmAgain", "cacheEdid"} /\ inCall'.value = inCall.value
    BY <1>1, <1>8, EdidGoesOn DEF persistEdidVersion, EdidSteps
  <2> QED
    BY <1>1, <1>2, <1>6, <1>8, <2>1, <2>2
       DEF persistEdidVersion, GivenInv, EdidGiven, VersionFollows, Loadable, inCache, inHal, EdidSteps,
           BitSteps
<1>9. CASE reapplyAllm \/ reapplyVrr
  <2>1. /\ inCall'.step \in {"vrrAgain", "cacheEdid"} /\ inCall'.value = inCall.value
        /\ inCall.step \in {"allmAgain", "vrrAgain"}
    BY <1>1, <1>9, EdidGoesOn DEF reapplyAllm, reapplyVrr, EdidSteps
  <2>2. UNCHANGED <<halEdid, edidVersion, kept, wanted>> /\ (refused => refused')
    BY <1>9 DEF reapplyAllm, reapplyVrr, inCache
  <2> QED
    BY <1>1, <1>2, <1>6, <2>1, <2>2
       DEF GivenInv, EdidGiven, VersionFollows, Loadable, EdidSteps, BitSteps
<1>10. CASE cacheEdidVersion
  <2>1. /\ inCall'.step = "none" /\ edidVersion' = inCall.value /\ wanted'.edid = {inCall.value}
        /\ UNCHANGED <<halEdid, kept, refused>> /\ inCall.step = "cacheEdid"
    BY <1>10 DEF cacheEdidVersion, Return, NoCall, InTypes, inHal
  <2> QED
    BY <1>1, <1>2, <1>6, <2>1
       DEF GivenInv, EdidGiven, VersionFollows, Loadable, EdidSteps, BitSteps
<1> QED BY <1>7, <1>8, <1>9, <1>10

\* The steps of a call that sets Allm.
LEMMA AllmStepGives ==
  ASSUME InTypes, GivenInv, setEdid2AllmSupport \/ updateEdidAllmBitValuesInPersistence \/ cacheAllm
  PROVE  GivenInv'
<1>1. inCall \in BitCalls /\ inCall.step \in AllmSteps
  BY KindOfCall DEF setEdid2AllmSupport, updateEdidAllmBitValuesInPersistence, cacheAllm, BitSteps, AllmSteps
<1>2. UNCHANGED <<initialized, edidVersion, vrrSupport, halEdid>> /\ (refused => refused')
  <2>1. UNCHANGED <<initialized, edidVersion, vrrSupport, halEdid>>
    BY DEF setEdid2AllmSupport, updateEdidAllmBitValuesInPersistence, cacheAllm, Goto, Fails, Return, inCache, inHal
  <2>2. refused => refused'
    BY Zenon DEF setEdid2AllmSupport, updateEdidAllmBitValuesInPersistence, cacheAllm
  <2> QED BY <2>1, <2>2
<1>3. /\ kept'.edid = kept.edid /\ kept'.vrr = kept.vrr
      /\ wanted'.edid = wanted.edid /\ wanted'.vrr = wanted.vrr
  BY DEF setEdid2AllmSupport, updateEdidAllmBitValuesInPersistence, cacheAllm, Fails, InTypes
<1>4. inCall' = NoCall \/ \E step \in AllmSteps : Goto(step)
  BY DEF setEdid2AllmSupport, updateEdidAllmBitValuesInPersistence, cacheAllm, Fails, Return, AllmSteps
<1>5. inCall'.step \in AllmSteps \cup {"none"}
  BY <1>1, <1>4, BitGoesOn DEF NoCall, BitSteps, AllmSteps
<1>6. EdidGiven' /\ VrrGiven'
  BY <1>2, <1>3, <1>5, EdidStays, VrrStays DEF GivenInv, EdidSteps, AllmSteps, VrrSteps
<1>7. VersionFollows'
  BY <1>1, <1>2, <1>5 DEF GivenInv, VersionFollows, EdidSteps, BitSteps, AllmSteps
<1>8. CASE setEdid2AllmSupport
  <2>1. inCall.step = "allm" /\ UNCHANGED <<allmSupport, kept>>
    BY <1>8 DEF setEdid2AllmSupport, inCache
  <2>2. CASE Goto("persistAllm") /\ UNCHANGED wanted
    <3>1. inCall'.step = "persistAllm" /\ inCall'.value = inCall.value
      BY <1>1, <2>2, BitGoesOn DEF BitSteps
    <3> QED BY <1>2, <1>6, <1>7, <2>1, <2>2, <3>1 DEF GivenInv, AllmGiven, Loadable, AllmSteps
  <2>3. CASE Fails("allm")
    <3>1. inCall'.step = "none" /\ wanted'.allm = inCall.was
      BY <2>3 DEF Fails, Return, NoCall, InTypes
    <3> QED BY <1>2, <1>6, <1>7, <2>1, <3>1 DEF GivenInv, AllmGiven, Loadable, AllmSteps
  <2> QED BY <1>8, <2>2, <2>3 DEF setEdid2AllmSupport
<1>9. CASE updateEdidAllmBitValuesInPersistence
  <2>1. /\ kept'.allm = {inCall.value} /\ UNCHANGED <<allmSupport, wanted>>
        /\ inCall.step = "persistAllm"
    BY <1>9 DEF updateEdidAllmBitValuesInPersistence, InTypes, inCache
  <2>2. inCall'.step = "cacheAllm" /\ inCall'.value = inCall.value
    BY <1>1, <1>9, BitGoesOn DEF updateEdidAllmBitValuesInPersistence, BitSteps
  <2> QED BY <1>2, <1>6, <1>7, <2>1, <2>2 DEF GivenInv, AllmGiven, Loadable, AllmSteps
<1>10. CASE cacheAllm
  <2>1. /\ inCall'.step = "none" /\ allmSupport' = inCall.value /\ wanted'.allm = {inCall.value}
        /\ UNCHANGED kept /\ inCall.step = "cacheAllm"
    BY <1>10 DEF cacheAllm, Return, NoCall, InTypes
  <2> QED BY <1>2, <1>6, <1>7, <2>1 DEF GivenInv, AllmGiven, Loadable, AllmSteps
<1> QED BY <1>8, <1>9, <1>10

\* The steps of a call that sets Vrr.
LEMMA VrrStepGives ==
  ASSUME InTypes, GivenInv, setVRRSupport \/ updateVRRBitValuesInPersistence \/ cacheVrr
  PROVE  GivenInv'
<1>1. inCall \in BitCalls /\ inCall.step \in VrrSteps
  BY KindOfCall DEF setVRRSupport, updateVRRBitValuesInPersistence, cacheVrr, BitSteps, VrrSteps
<1>2. UNCHANGED <<initialized, edidVersion, allmSupport, halEdid>> /\ (refused => refused')
  <2>1. UNCHANGED <<initialized, edidVersion, allmSupport, halEdid>>
    BY DEF setVRRSupport, updateVRRBitValuesInPersistence, cacheVrr, Goto, Fails, Return, inCache, inHal
  <2>2. refused => refused'
    BY Zenon DEF setVRRSupport, updateVRRBitValuesInPersistence, cacheVrr
  <2> QED BY <2>1, <2>2
<1>3. /\ kept'.edid = kept.edid /\ kept'.allm = kept.allm
      /\ wanted'.edid = wanted.edid /\ wanted'.allm = wanted.allm
  BY DEF setVRRSupport, updateVRRBitValuesInPersistence, cacheVrr, Fails, InTypes
<1>4. inCall' = NoCall \/ \E step \in VrrSteps : Goto(step)
  BY DEF setVRRSupport, updateVRRBitValuesInPersistence, cacheVrr, Fails, Return, VrrSteps
<1>5. inCall'.step \in VrrSteps \cup {"none"}
  BY <1>1, <1>4, BitGoesOn DEF NoCall, BitSteps, VrrSteps
<1>6. EdidGiven' /\ AllmGiven'
  BY <1>2, <1>3, <1>5, EdidStays, AllmStays DEF GivenInv, EdidSteps, AllmSteps, VrrSteps
<1>7. VersionFollows'
  BY <1>1, <1>2, <1>5 DEF GivenInv, VersionFollows, EdidSteps, BitSteps, VrrSteps
<1>8. CASE setVRRSupport
  <2>1. inCall.step = "vrr" /\ UNCHANGED <<vrrSupport, kept>>
    BY <1>8 DEF setVRRSupport, inCache
  <2>2. CASE Goto("persistVrr") /\ UNCHANGED wanted
    <3>1. inCall'.step = "persistVrr" /\ inCall'.value = inCall.value
      BY <1>1, <2>2, BitGoesOn DEF BitSteps
    <3> QED BY <1>2, <1>6, <1>7, <2>1, <2>2, <3>1 DEF GivenInv, VrrGiven, Loadable, VrrSteps
  <2>3. CASE Fails("vrr")
    <3>1. inCall'.step = "none" /\ wanted'.vrr = inCall.was
      BY <2>3 DEF Fails, Return, NoCall, InTypes
    <3> QED BY <1>2, <1>6, <1>7, <2>1, <3>1 DEF GivenInv, VrrGiven, Loadable, VrrSteps
  <2> QED BY <1>8, <2>2, <2>3 DEF setVRRSupport
<1>9. CASE updateVRRBitValuesInPersistence
  <2>1. /\ kept'.vrr = {inCall.value} /\ UNCHANGED <<vrrSupport, wanted>>
        /\ inCall.step = "persistVrr"
    BY <1>9 DEF updateVRRBitValuesInPersistence, InTypes, inCache
  <2>2. inCall'.step = "cacheVrr" /\ inCall'.value = inCall.value
    BY <1>1, <1>9, BitGoesOn DEF updateVRRBitValuesInPersistence, BitSteps
  <2> QED BY <1>2, <1>6, <1>7, <2>1, <2>2 DEF GivenInv, VrrGiven, Loadable, VrrSteps
<1>10. CASE cacheVrr
  <2>1. /\ inCall'.step = "none" /\ vrrSupport' = inCall.value /\ wanted'.vrr = {inCall.value}
        /\ UNCHANGED kept /\ inCall.step = "cacheVrr"
    BY <1>10 DEF cacheVrr, Return, NoCall, InTypes
  <2> QED BY <1>2, <1>6, <1>7, <2>1 DEF GivenInv, VrrGiven, Loadable, VrrSteps
<1> QED BY <1>8, <1>9, <1>10

\* Every step keeps what may be expected of the three settings.
LEMMA GivenStep == InTypes /\ GivenInv /\ [InNext]_inVars => GivenInv'
<1> SUFFICES ASSUME InTypes, GivenInv, [InNext]_inVars
             PROVE  GivenInv'
  OBVIOUS
<1>1. ASSUME NEW v \in Versions, SetHDMIEdidVersion(v)
      PROVE  GivenInv'
  BY <1>1, BeginGives DEF SetHDMIEdidVersion
<1>2. ASSUME NEW b \in BOOLEAN, SetHDMIInEdid2AllmSupport(b) \/ SetVRRSupport(b)
      PROVE  GivenInv'
  BY <1>2, BeginGives DEF SetHDMIInEdid2AllmSupport, SetVRRSupport
<1>3. CASE UNCHANGED inVars
  <2>1. UNCHANGED <<initialized, inCache, inCall, refused, inHal, kept, wanted>>
    BY <1>3 DEF inVars
  <2> QED BY <2>1, GivenUnchanged
<1> QED
  BY CreationGives, DepartureGives, <1>1, <1>2, EdidStepGives, AllmStepGives, VrrStepGives, <1>3
     DEF InNext

\* After a crash in the middle of any call, and whatever call failed, an input
\* that is up advertises what was last acknowledged, or what the interrupted
\* call asked for (getPersistenceValue and the order of HAL, persistence and
\* cache in the three setters).
THEOREM InputIsGivenBack == InSpec => []InRestartGivesBack
<1>1. BitsInv /\ GivenInv => InRestartGivesBack
  BY DEF BitsInv, BitsFollow, AllmAgrees, VrrAgrees, GivenInv, EdidGiven, AllmGiven, VrrGiven,
     VersionFollows, InRestartGivesBack, Served, NoCall
<1>2. BitsInv => InTypes
  BY DEF BitsInv
<1> QED
  BY BitsStart, BitsStep, GivenInit, GivenStep, <1>1, <1>2, PTL DEF InSpec

-----------------------------------------------------------------------------
(* The video device: announced frame rates.                                *)

\* A call under way, and what a caller may be doing.
CallsUnderWay ==
  [step : {"hal", "persist", "input"}, name : {"zoom", "hdr", "rate"},
   value : Zooms \cup BOOLEAN \cup {"rate"}]
RateTypes ==
  /\ vdCall \in [VdCallers -> CallsUnderWay \cup {NoVdCall}]
  /\ announced \in [VdCallers -> {"pre", "post", "invalid"}]

\* Only a frame rate call keeps its clients waiting for the end.
PreMeansRate ==
  \A c \in VdCallers : announced[c] = "pre" => c \in Under("rate")

RateInv == RateTypes /\ PreMeansRate

-----------------------------------------------------------------------------
\* A record of a call under way is not the idle record.
LEMMA BusyIsNotIdle ==
  ASSUME NEW r \in CallsUnderWay
  PROVE  r # NoVdCall /\ r.step # "none"
BY DEF CallsUnderWay, NoVdCall

\* A caller has one call under way at most, of one name.
LEMMA UnderOneName ==
  ASSUME RateTypes, NEW c \in VdCallers, NEW n, c \in Under(n)
  PROVE  /\ vdCall[c] \in CallsUnderWay
         /\ \A o : c \in Under(o) => o = n
BY DEF RateTypes, Under

\* A caller begins a call of a given name and is said nothing by it yet.
LEMMA BeginIsQuiet ==
  ASSUME RateInv, NEW c \in VdCallers, NEW n \in {"zoom", "hdr"},
         NEW v \in Zooms \cup BOOLEAN, VdBegin(c, n, v), UNCHANGED announced
  PROVE  RateInv'
<1> DEFINE r == [step |-> "hal", name |-> n, value |-> v]
<1>1. r \in CallsUnderWay BY DEF CallsUnderWay
<1>2. vdCall' = [vdCall EXCEPT ![c] = r] /\ vdCall[c] = NoVdCall BY DEF VdBegin
<1>3. RateTypes' BY <1>1, <1>2 DEF RateInv, RateTypes
<1>4. announced[c] # "pre" BY <1>2 DEF RateInv, PreMeansRate, Under
<1>5. ASSUME NEW d \in VdCallers, announced'[d] = "pre" PROVE (d \in Under("rate"))'
  <2>1. d # c /\ d \in Under("rate") BY <1>4, <1>5 DEF RateInv, PreMeansRate
  <2>2. vdCall'[d] = vdCall[d] BY <1>2, <2>1 DEF RateInv, RateTypes
  <2> QED BY <2>1, <2>2 DEF Under
<1> QED BY <1>3, <1>5 DEF RateInv, PreMeansRate

\* A step within a zoom or HDR call, or its end.
LEMMA StepIsQuiet ==
  ASSUME RateInv, NEW c \in VdCallers, NEW n \in {"zoom", "hdr"}, c \in Under(n),
         UNCHANGED announced,
         VdDone(c) \/ \E s \in {"persist", "input"} : VdStep(c, s)
  PROVE  RateInv'
<1>1. vdCall[c] \in CallsUnderWay /\ ~(c \in Under("rate"))
  BY UnderOneName DEF RateInv
<1>2. PICK r \in CallsUnderWay \cup {NoVdCall} : vdCall' = [vdCall EXCEPT ![c] = r]
  <2>1. CASE VdDone(c) BY <2>1 DEF VdDone
  <2>2. CASE \E s \in {"persist", "input"} : VdStep(c, s)
    <3>1. PICK s \in {"persist", "input"} : VdStep(c, s) BY <2>2
    <3>2. [vdCall[c] EXCEPT !.step = s] \in CallsUnderWay
      BY <1>1 DEF CallsUnderWay
    <3>3. vdCall' = [vdCall EXCEPT ![c] = [vdCall[c] EXCEPT !.step = s]]
      BY <3>1, Zenon DEF VdStep
    <3> QED BY <3>2, <3>3
  <2> QED BY <2>1, <2>2
<1>3. RateTypes' BY <1>2 DEF RateInv, RateTypes
<1>4. ASSUME NEW d \in VdCallers, announced'[d] = "pre" PROVE (d \in Under("rate"))'
  <2>1. d # c /\ d \in Under("rate") BY <1>1, <1>4 DEF RateInv, PreMeansRate
  <2>2. vdCall'[d] = vdCall[d] BY <1>2, <2>1 DEF RateInv, RateTypes
  <2> QED BY <2>1, <2>2 DEF Under
<1> QED BY <1>3, <1>4 DEF RateInv, PreMeansRate

\* The announcement of a frame rate change (SetDisplayFrameRate).
LEMMA RateBegins ==
  ASSUME RateInv, NEW c \in VdCallers, SetDisplayFrameRate(c)
  PROVE  RateInv'
<1> DEFINE r == [step |-> "hal", name |-> "rate", value |-> "rate"]
<1>1. r \in CallsUnderWay /\ r # NoVdCall BY BusyIsNotIdle DEF CallsUnderWay
<1>2. /\ vdCall' = [vdCall EXCEPT ![c] = r]
      /\ announced' = [announced EXCEPT ![c] = "pre"]
  BY DEF SetDisplayFrameRate, VdBegin
<1>3. RateTypes' BY <1>1, <1>2 DEF RateInv, RateTypes
<1>4. ASSUME NEW d \in VdCallers, announced'[d] = "pre" PROVE (d \in Under("rate"))'
  <2>1. CASE d = c
    <3>1. vdCall'[d] = r BY <1>2, <2>1 DEF RateInv, RateTypes
    <3> QED BY <1>1, <3>1 DEF Under
  <2>2. CASE d # c
    <3>1. vdCall'[d] = vdCall[d] /\ announced[d] = "pre"
      BY <1>2, <1>4, <2>2 DEF RateInv, RateTypes
    <3> QED BY <3>1 DEF RateInv, PreMeansRate, Under
  <2> QED BY <2>1, <2>2
<1> QED BY <1>3, <1>4 DEF RateInv, PreMeansRate

\* The HAL's answer to a frame rate, and what the clients hear (dsSetDisplayframerate).
LEMMA RateEnds ==
  ASSUME RateInv, NEW c \in VdCallers, dsSetDisplayframerate(c)
  PROVE  RateInv'
<1>1. PICK said \in {"post", "invalid"} : announced' = [announced EXCEPT ![c] = said]
  BY DEF dsSetDisplayframerate, PostChange
<1>2. vdCall' = [vdCall EXCEPT ![c] = NoVdCall] BY DEF dsSetDisplayframerate, VdDone
<1>3. RateTypes' BY <1>1, <1>2 DEF RateInv, RateTypes
<1>4. ASSUME NEW d \in VdCallers, announced'[d] = "pre" PROVE (d \in Under("rate"))'
  <2>1. d # c BY <1>1, <1>4 DEF RateInv, RateTypes
  <2>2. vdCall'[d] = vdCall[d] /\ announced[d] = "pre"
    BY <1>1, <1>2, <1>4, <2>1 DEF RateInv, RateTypes
  <2> QED BY <2>2 DEF RateInv, PreMeansRate, Under
<1> QED BY <1>3, <1>4 DEF RateInv, PreMeansRate

\* The process comes up, goes down in order, or dies.
LEMMA ProcessIsQuiet ==
  ASSUME RateInv, VdGetPersistenceValue \/ VdCrash \/ VdDeInitialiseHAL
  PROVE  RateInv'
<1>1. CASE VdGetPersistenceValue
  BY <1>1 DEF VdGetPersistenceValue, vdHistory, RateInv, RateTypes, PreMeansRate, Under
<1>2. CASE VdCrash
  <2>1. vdCall' = [c \in VdCallers |-> NoVdCall] /\ announced' = [c \in VdCallers |-> "post"]
    BY <1>2 DEF VdCrash
  <2> QED BY <2>1 DEF RateInv, RateTypes, PreMeansRate
<1>3. CASE VdDeInitialiseHAL
  BY <1>3 DEF VdDeInitialiseHAL, vdHistory, RateInv, RateTypes, PreMeansRate, Under
<1> QED BY <1>1, <1>2, <1>3

-----------------------------------------------------------------------------
\* A client said of a frame rate change to come is said of its end once the
\* call is over, unless the HAL calls the rate invalid, whatever else other
\* callers do meanwhile and whatever the HAL answers (SetDisplayFrameRate).
THEOREM AnnouncedRateIsClosed == VdSpec => []PreChangeIsClosed
<1>1. VdInit => RateInv
  <2> SUFFICES ASSUME VdInit PROVE RateInv
    OBVIOUS
  <2>1. /\ vdCall = [c \in VdCallers |-> NoVdCall]
        /\ announced = [c \in VdCallers |-> "post"]
    BY DEF VdInit
  <2> QED BY <2>1 DEF RateInv, RateTypes, PreMeansRate
<1>2. RateInv /\ [VdNext]_vdVars => RateInv'
  <2> SUFFICES ASSUME RateInv, [VdNext]_vdVars PROVE RateInv'
    OBVIOUS
  <2>1. CASE VdGetPersistenceValue \/ VdCrash \/ VdDeInitialiseHAL
    BY <2>1, ProcessIsQuiet
  <2>2. ASSUME NEW c \in VdCallers, NEW z \in Zooms, SetVideoDeviceDFC(c, z)
        PROVE  RateInv'
    BY <2>2, BeginIsQuiet DEF SetVideoDeviceDFC
  <2>3. ASSUME NEW c \in VdCallers, dsSetDFC(c) \/ persistZoom(c) \/ dsHdmiInSelectZoomMode(c)
        PROVE  RateInv'
    BY <2>3, StepIsQuiet DEF dsSetDFC, persistZoom, dsHdmiInSelectZoomMode, vdHistory
  <2>4. ASSUME NEW c \in VdCallers, NEW b \in BOOLEAN, DisableHDR(c, b)
        PROVE  RateInv'
    BY <2>4, BeginIsQuiet DEF DisableHDR
  <2>5. ASSUME NEW c \in VdCallers, dsForceDisableHDRSupport(c) \/ persistHdr(c)
        PROVE  RateInv'
    BY <2>5, StepIsQuiet DEF dsForceDisableHDRSupport, persistHdr, vdHistory
  <2>6. ASSUME NEW c \in VdCallers, SetDisplayFrameRate(c)
        PROVE  RateInv'
    BY <2>6, RateBegins
  <2>7. ASSUME NEW c \in VdCallers, dsSetDisplayframerate(c)
        PROVE  RateInv'
    BY <2>7, RateEnds
  <2>8. CASE UNCHANGED vdVars
    BY <2>8 DEF vdVars, vdHistory, RateInv, RateTypes, PreMeansRate, Under
  <2> QED BY <2>1, <2>2, <2>3, <2>4, <2>5, <2>6, <2>7, <2>8 DEF VdNext
<1>3. RateInv => PreChangeIsClosed
  BY DEF RateInv, PreMeansRate, PreChangeIsClosed, Under
<1> QED BY <1>1, <1>2, <1>3, PTL DEF VdSpec

-----------------------------------------------------------------------------
(* The video device: what a restart gives back.                            *)

VdTypes ==
  /\ vdStage \in {"down", "up"}
  /\ srv_dfc \in Settable /\ force_disable_hdr \in BOOLEAN
  /\ vdKept \in [zoom : SUBSET Settable, hdr : SUBSET BOOLEAN]
  /\ vdCall \in [VdCallers -> CallsUnderWay \cup {NoVdCall}]
  /\ overlapped \in [{"zoom", "hdr"} -> BOOLEAN]
  /\ askedHdr \subseteq BOOLEAN
  /\ vdStage = "down" => \A c \in VdCallers : vdCall[c] = NoVdCall

\* The calls of caller c, and what a step of one leaves alone.
LEMMA CallersMove ==
  ASSUME VdTypes, NEW c \in VdCallers, NEW r \in CallsUnderWay \cup {NoVdCall},
         vdCall' = [vdCall EXCEPT ![c] = r]
  PROVE  /\ vdCall' \in [VdCallers -> CallsUnderWay \cup {NoVdCall}]
         /\ vdCall'[c] = r
         /\ \A d \in VdCallers \ {c} : vdCall'[d] = vdCall[d]
         /\ \A n : \A d \in VdCallers \ {c} : d \in Under(n)' <=> d \in Under(n)
         /\ \A n : c \in Under(n)' <=> r # NoVdCall /\ r.name = n
BY DEF VdTypes, Under

\* The record of a call that begins.
LEMMA Beginning ==
  ASSUME VdTypes, NEW c \in VdCallers, NEW n \in {"zoom", "hdr", "rate"}, NEW v \in Zooms \cup BOOLEAN \cup {"rate"},
         VdBegin(c, n, v)
  PROVE  \E r \in CallsUnderWay :
           /\ r.step = "hal" /\ r.name = n /\ r.value = v
           /\ vdCall' = [vdCall EXCEPT ![c] = r]
           /\ vdCall[c] = NoVdCall /\ vdStage = "up"
           /\ UNCHANGED <<vdStage, vdCache, vdHal, vdKept>>
<1> DEFINE r == [step |-> "hal", name |-> n, value |-> v]
<1>1. r \in CallsUnderWay /\ r.step = "hal" /\ r.name = n /\ r.value = v
  BY DEF CallsUnderWay
<1>2. vdCall' = [vdCall EXCEPT ![c] = r] /\ vdCall[c] = NoVdCall /\ vdStage = "up"
      /\ UNCHANGED <<vdStage, vdCache, vdHal, vdKept>>
  BY DEF VdBegin
<1> QED BY <1>1, <1>2

\* The record of a call that goes on.
LEMMA Stepping ==
  ASSUME VdTypes, NEW c \in VdCallers, NEW n, c \in Under(n), NEW s \in {"persist", "input"}, VdStep(c, s)
  PROVE  \E r \in CallsUnderWay :
           /\ r.step = s /\ r.name = n /\ r.value = vdCall[c].value
           /\ vdCall' = [vdCall EXCEPT ![c] = r]
<1> DEFINE r == [vdCall[c] EXCEPT !.step = s]
<1>1. vdCall[c] \in CallsUnderWay /\ vdCall[c].name = n
  BY DEF VdTypes, Under
<1>2. r \in CallsUnderWay /\ r.step = s /\ r.name = n /\ r.value = vdCall[c].value
  BY <1>1 DEF CallsUnderWay
<1>3. vdCall' = [vdCall EXCEPT ![c] = r]
  BY Zenon DEF VdStep
<1> HIDE DEF r
<1> QED BY <1>2, <1>3

-----------------------------------------------------------------------------
\* At most one zoom call at a time: its step tells where cache, persistence
\* and the input's zoom still differ.
ZoomFollows ==
  ~overlapped["zoom"] =>
    /\ \A c, d \in Under("zoom") : c = d
    /\ \A c \in Under("zoom") : vdCall[c].step = "persist" => srv_dfc = vdCall[c].value
    /\ vdStage = "down" /\ srv_dfc = "none" => vdKept.zoom = {"none"}
    /\ vdStage = "up" /\ (\A c \in Under("zoom") : vdCall[c].step # "persist") =>
         (vdKept.zoom = {"none"} <=> srv_dfc = "none")
    /\ vdStage = "up" /\ TV /\ Under("zoom") = {} => inputZoom = srv_dfc
\* What a restart would load of the HDR setting, and what a call under way
\* asks for, a client may expect.
HdrFollows ==
  /\ (vdKept.hdr = {TRUE}) \in askedHdr
  /\ \A c \in Under("hdr") : vdCall[c].value \in askedHdr
  /\ ~overlapped["hdr"] =>
       /\ \A c, d \in Under("hdr") : c = d
       /\ vdStage = "up" => force_disable_hdr \in askedHdr
       /\ \A c \in Under("hdr") : vdCall[c].step = "persist" => force_disable_hdr = vdCall[c].value
VdInv == VdTypes /\ ZoomFollows /\ HdrFollows

\* Nothing is persisted and no call under way.
LEMMA VdStarts == VdInit => VdInv
<1> SUFFICES ASSUME VdInit PROVE VdInv
  OBVIOUS
<1>1. \A n : Under(n) = {}
  BY DEF VdInit, Under
<1>2. vdKept.zoom = {} /\ vdKept.hdr = {} /\ (vdKept.hdr = {TRUE}) = FALSE
  BY DEF VdInit
<1>3. VdTypes
  BY DEF VdInit, VdTypes, Settable
<1> QED BY <1>1, <1>2, <1>3 DEF VdInit, VdInv, ZoomFollows, HdrFollows

\* The process comes up, goes down in order, or dies.
LEMMA VdProcess ==
  ASSUME VdInv, VdGetPersistenceValue \/ VdCrash \/ VdDeInitialiseHAL
  PROVE  VdInv'
<1> USE DEF vdCache, vdHistory
<1>1. CASE VdGetPersistenceValue
  <2>1. \A n : Under(n) = {} /\ Under(n)' = {}
    BY <1>1 DEF VdGetPersistenceValue, VdInv, VdTypes, Under
  <2>2. /\ vdStage = "down" /\ vdStage' = "up" /\ UNCHANGED <<vdKept, vdCall, overlapped, askedHdr>>
        /\ srv_dfc' = IF vdKept.zoom = {"none"} THEN "none" ELSE srv_dfc
        /\ force_disable_hdr' = (vdKept.hdr = {TRUE})
        /\ inputZoom' = IF TV THEN srv_dfc' ELSE inputZoom
    BY <1>1 DEF VdGetPersistenceValue, LoadSettings
  <2>3. VdTypes'
    BY <2>2 DEF VdInv, VdTypes, Settable
  <2>4. ZoomFollows'
    BY <2>1, <2>2 DEF VdInv, ZoomFollows
  <2>5. HdrFollows'
    BY <2>1, <2>2 DEF VdInv, HdrFollows
  <2> QED BY <2>3, <2>4, <2>5 DEF VdInv
<1>2. CASE VdCrash
  <2>1. /\ vdStage' = "down" /\ UNCHANGED <<vdKept, askedHdr>> /\ srv_dfc' = "full"
        /\ force_disable_hdr' = TRUE /\ vdCall' = [c \in VdCallers |-> NoVdCall]
        /\ overlapped' = [n \in {"zoom", "hdr"} |-> FALSE]
    BY <1>2 DEF VdCrash
  <2>2. \A n : Under(n)' = {}
    BY <2>1 DEF Under
  <2>3. VdTypes'
    BY <2>1 DEF VdInv, VdTypes, Settable
  <2> QED BY <2>1, <2>2, <2>3 DEF VdInv, ZoomFollows, HdrFollows
<1>3. CASE VdDeInitialiseHAL
  <2>1. /\ vdStage = "up" /\ vdStage' = "down" /\ \A c \in VdCallers : vdCall[c] = NoVdCall
        /\ UNCHANGED <<srv_dfc, force_disable_hdr, vdKept, vdCall, overlapped, askedHdr>>
    BY <1>3 DEF VdDeInitialiseHAL
  <2>2. \A n : Under(n) = {} /\ Under(n)' = {}
    BY <2>1 DEF Under
  <2>3. VdTypes'
    BY <2>1 DEF VdInv, VdTypes
  <2> QED BY <2>1, <2>2, <2>3 DEF VdInv, ZoomFollows, HdrFollows
<1> QED BY <1>1, <1>2, <1>3

\* A setting without a step keeps what is known of it.
LEMMA HdrStays ==
  ASSUME VdInv, vdKept'.hdr = vdKept.hdr, UNCHANGED <<askedHdr, force_disable_hdr, vdStage>>,
         overlapped'["hdr"] = overlapped["hdr"], Under("hdr")' = Under("hdr"),
         \A d \in Under("hdr") : vdCall'[d] = vdCall[d]
  PROVE  HdrFollows'
BY Zenon DEF VdInv, HdrFollows

\* The same for the zoom.
LEMMA ZoomStays ==
  ASSUME VdInv, vdKept'.zoom = vdKept.zoom, UNCHANGED <<srv_dfc, inputZoom, vdStage>>,
         overlapped'["zoom"] = overlapped["zoom"], Under("zoom")' = Under("zoom"),
         \A d \in Under("zoom") : vdCall'[d] = vdCall[d]
  PROVE  ZoomFollows'
BY Zenon DEF VdInv, ZoomFollows

\* A step of one call leaves the calls of other names alone.
LEMMA OtherNames ==
  ASSUME VdTypes, NEW c \in VdCallers, NEW r \in CallsUnderWay \cup {NoVdCall}, NEW n, NEW m,
         vdCall' = [vdCall EXCEPT ![c] = r], m # n,
         vdCall[c] = NoVdCall \/ c \in Under(n), r = NoVdCall \/ r.name = n
  PROVE  Under(m)' = Under(m) /\ \A d \in Under(m) : vdCall'[d] = vdCall[d]
<1>1. /\ \A d \in VdCallers \ {c} : vdCall'[d] = vdCall[d]
      /\ \A d \in VdCallers \ {c} : d \in Under(m)' <=> d \in Under(m)
      /\ c \in Under(m)' <=> r # NoVdCall /\ r.name = m
  BY CallersMove
<1>2. c \notin Under(m) /\ c \notin Under(m)'
  BY <1>1 DEF Under
<1>3. \A d \in Under(m)' \cup Under(m) : d \in VdCallers
  BY DEF Under
<1> QED BY <1>1, <1>2, <1>3

\* A call that begins alone is the only one of its name.
LEMMA BeginsAlone ==
  ASSUME VdTypes, NEW c \in VdCallers, NEW r \in CallsUnderWay, NEW n,
         vdCall' = [vdCall EXCEPT ![c] = r], r.name = n, Under(n) = {}
  PROVE  Under(n)' = {c} /\ vdCall'[c] = r
<1>1. /\ \A d \in VdCallers \ {c} : d \in Under(n)' <=> d \in Under(n)
      /\ c \in Under(n)' <=> r # NoVdCall /\ r.name = n
      /\ vdCall'[c] = r
  BY CallersMove
<1>2. \A d \in Under(n)' : d \in VdCallers
  BY DEF Under
<1> QED BY <1>1, <1>2, BusyIsNotIdle

\* Another call of the name being under way is remembered.
LEMMA Overlapping ==
  ASSUME VdTypes, NEW n \in {"zoom", "hdr"},
         overlapped' = [overlapped EXCEPT ![n] = overlapped[n] \/ Under(n) # {}]
  PROVE  /\ overlapped' \in [{"zoom", "hdr"} -> BOOLEAN]
         /\ \A m \in {"zoom", "hdr"} \ {n} : overlapped'[m] = overlapped[m]
         /\ ~overlapped'[n] => ~overlapped[n] /\ Under(n) = {}
<1>1. overlapped \in [{"zoom", "hdr"} -> BOOLEAN]
  BY DEF VdTypes
<1> QED BY <1>1, Zenon

-----------------------------------------------------------------------------

\* A zoom call that begins alone is the only one (SetVideoDeviceDFC).
LEMMA ZoomBegins ==
  ASSUME VdInv, NEW c \in VdCallers, NEW z \in Zooms, SetVideoDeviceDFC(c, z)
  PROVE  VdInv'
<1>a. VdTypes
  BY DEF VdInv
<1>1. PICK r \in CallsUnderWay :
        /\ r \in CallsUnderWay \cup {NoVdCall}
        /\ r.step = "hal" /\ r.name = "zoom" /\ r.value = z
        /\ vdCall' = [vdCall EXCEPT ![c] = r]
        /\ vdCall[c] = NoVdCall /\ vdStage = "up"
        /\ UNCHANGED <<vdStage, vdCache, vdHal, vdKept>>
  BY <1>a, Beginning DEF SetVideoDeviceDFC
<1>2. /\ overlapped' \in [{"zoom", "hdr"} -> BOOLEAN]
      /\ overlapped'["hdr"] = overlapped["hdr"]
      /\ ~overlapped'["zoom"] => ~overlapped["zoom"] /\ Under("zoom") = {}
      /\ UNCHANGED askedHdr
  BY <1>a, Overlapping DEF SetVideoDeviceDFC
<1>3. VdTypes'
  BY <1>a, <1>1, <1>2, CallersMove DEF VdTypes, vdCache
<1>4. ZoomFollows'
  <2>1. ~overlapped'["zoom"] => Under("zoom")' = {c} /\ vdCall'[c] = r
    BY <1>a, <1>1, <1>2, BeginsAlone
  <2> QED BY <1>1, <1>2, <2>1 DEF VdInv, ZoomFollows, vdCache
<1>5. HdrFollows'
  <2>1. Under("hdr")' = Under("hdr") /\ \A d \in Under("hdr") : vdCall'[d] = vdCall[d]
    <3>1. vdCall[c] = NoVdCall \/ c \in Under("zoom")
      BY <1>1
    <3>2. r = NoVdCall \/ r.name = "zoom"
      BY <1>1
    <3>3. vdCall' = [vdCall EXCEPT ![c] = r] /\ r \in CallsUnderWay \cup {NoVdCall}
      BY <1>1
    <3>4. "hdr" # "zoom"
      OBVIOUS
    <3> QED BY <1>a, <3>1, <3>2, <3>3, <3>4, OtherNames
  <2>2. vdKept'.hdr = vdKept.hdr /\ UNCHANGED <<askedHdr, force_disable_hdr, vdStage>>
    BY <1>1, <1>2 DEF vdCache
  <2> QED BY <1>2, <2>1, <2>2, HdrStays, Zenon
<1> QED BY <1>3, <1>4, <1>5 DEF VdInv

\* What an HDR call asks for may be expected (DisableHDR).
LEMMA HdrBegins ==
  ASSUME VdInv, NEW c \in VdCallers, NEW b \in BOOLEAN, DisableHDR(c, b)
  PROVE  VdInv'
<1>a. VdTypes
  BY DEF VdInv
<1>1. PICK r \in CallsUnderWay :
        /\ r \in CallsUnderWay \cup {NoVdCall}
        /\ r.step = "hal" /\ r.name = "hdr" /\ r.value = b
        /\ vdCall' = [vdCall EXCEPT ![c] = r]
        /\ vdCall[c] = NoVdCall /\ vdStage = "up"
        /\ UNCHANGED <<vdStage, vdCache, vdHal, vdKept>>
  BY <1>a, Beginning DEF DisableHDR
<1>2. /\ overlapped' \in [{"zoom", "hdr"} -> BOOLEAN]
      /\ overlapped'["zoom"] = overlapped["zoom"]
      /\ ~overlapped'["hdr"] => ~overlapped["hdr"] /\ Under("hdr") = {}
      /\ askedHdr' = askedHdr \cup {b}
  BY <1>a, Overlapping DEF DisableHDR
<1>3. VdTypes'
  BY <1>a, <1>1, <1>2, CallersMove DEF VdTypes, vdCache
<1>4. ZoomFollows'
  <2>1. Under("zoom")' = Under("zoom") /\ \A d \in Under("zoom") : vdCall'[d] = vdCall[d]
    <3>1. (vdCall[c] = NoVdCall \/ c \in Under("hdr")) /\ (r = NoVdCall \/ r.name = "hdr")
      BY <1>1
    <3>2. vdCall' = [vdCall EXCEPT ![c] = r] /\ r \in CallsUnderWay \cup {NoVdCall}
      BY <1>1
    <3>3. "zoom" # "hdr"
      OBVIOUS
    <3> QED BY <1>a, <3>1, <3>2, <3>3, OtherNames
  <2>2. vdKept'.zoom = vdKept.zoom /\ UNCHANGED <<srv_dfc, inputZoom, vdStage>>
    BY <1>1 DEF vdCache, vdHal
  <2> QED BY <1>2, <2>1, <2>2, ZoomStays, Zenon
<1>5. HdrFollows'
  <2>1. ~overlapped'["hdr"] => Under("hdr")' = {c} /\ vdCall'[c] = r
    BY <1>a, <1>1, <1>2, BeginsAlone
  <2>2. \A d \in Under("hdr")' : vdCall'[d].value \in askedHdr'
    <3> SUFFICES ASSUME NEW d \in Under("hdr")' PROVE vdCall'[d].value \in askedHdr'
      OBVIOUS
    <3>1. d \in VdCallers BY DEF Under
    <3>2. CASE d = c BY <1>a, <1>1, <1>2, <3>2, CallersMove
    <3>3. CASE d # c
      <4>1. d \in Under("hdr") /\ vdCall'[d] = vdCall[d] BY <1>a, <1>1, <3>1, <3>3, CallersMove
      <4> QED BY <1>2, <4>1 DEF VdInv, HdrFollows
    <3> QED BY <3>2, <3>3
  <2>3. (vdKept'.hdr = {TRUE}) \in askedHdr'
    BY <1>1, <1>2 DEF VdInv, HdrFollows
  <2> QED BY <1>1, <1>2, <2>1, <2>2, <2>3 DEF VdInv, HdrFollows, vdCache
<1> QED BY <1>3, <1>4, <1>5 DEF VdInv

\* Frame rate calls touch neither setting.
LEMMA RateKeeps ==
  ASSUME VdInv, NEW c \in VdCallers, SetDisplayFrameRate(c) \/ dsSetDisplayframerate(c)
  PROVE  VdInv'
<1>a. VdTypes
  BY DEF VdInv
<1>1. PICK r \in CallsUnderWay \cup {NoVdCall} :
        /\ vdCall' = [vdCall EXCEPT ![c] = r]
        /\ vdCall[c] = NoVdCall \/ c \in Under("rate")
        /\ r = NoVdCall \/ r.name = "rate"
  BY <1>a, Beginning DEF SetDisplayFrameRate, dsSetDisplayframerate, VdDone
<1>2. UNCHANGED <<vdStage, vdCache, vdHal, vdKept, overlapped, askedHdr>>
  BY DEF SetDisplayFrameRate, dsSetDisplayframerate, VdBegin
<1>3. vdStage = "up"
  BY BusyIsNotIdle, <1>a DEF SetDisplayFrameRate, VdBegin, dsSetDisplayframerate, VdTypes, Under
<1>4. VdTypes'
  BY <1>a, <1>1, <1>2, <1>3, CallersMove DEF VdTypes, vdCache
<1>5. ZoomFollows'
  BY <1>a, <1>1, <1>2, OtherNames, ZoomStays DEF vdCache, vdHal
<1>6. HdrFollows'
  BY <1>a, <1>1, <1>2, OtherNames, HdrStays DEF vdCache
<1> QED BY <1>4, <1>5, <1>6 DEF VdInv

\* The three steps of a zoom call: HAL, store, HDMI input.
LEMMA ZoomStep ==
  ASSUME VdInv, NEW c \in VdCallers, dsSetDFC(c) \/ persistZoom(c) \/ dsHdmiInSelectZoomMode(c)
  PROVE  VdInv'
<1>a. VdTypes /\ c \in Under("zoom") /\ vdStage = "up"
  BY BusyIsNotIdle DEF VdInv, VdTypes, Under, dsSetDFC, persistZoom, dsHdmiInSelectZoomMode
<1>b. dsHdmiInSelectZoomMode(c) \/ VdStep(c, "persist") \/ VdStep(c, "input")
  BY DEF dsSetDFC, persistZoom
<1>1. PICK r \in CallsUnderWay \cup {NoVdCall} :
        /\ vdCall' = [vdCall EXCEPT ![c] = r]
        /\ IF dsHdmiInSelectZoomMode(c) THEN r = NoVdCall
           ELSE r \in CallsUnderWay /\ r.name = "zoom" /\ r.value = vdCall[c].value
  <2>1. CASE dsHdmiInSelectZoomMode(c)
    BY <2>1 DEF dsHdmiInSelectZoomMode, VdDone
  <2>2. CASE ~dsHdmiInSelectZoomMode(c)
    BY <1>a, <1>b, <2>2, Stepping
  <2> QED BY <2>1, <2>2
<1>2. UNCHANGED <<vdStage, force_disable_hdr, overlapped, askedHdr>> /\ vdKept'.hdr = vdKept.hdr
  BY DEF dsSetDFC, persistZoom, dsHdmiInSelectZoomMode, vdCache, vdHistory, VdInv, VdTypes
<1>3. srv_dfc' \in Settable /\ vdKept' \in [zoom : SUBSET Settable, hdr : SUBSET BOOLEAN]
  BY <1>a DEF dsSetDFC, persistZoom, dsHdmiInSelectZoomMode, vdCache, VdTypes, PersistedZoom, Settable
<1>4. /\ \A d \in VdCallers \ {c} : vdCall'[d] = vdCall[d]
      /\ vdCall'[c] = r /\ vdCall' \in [VdCallers -> CallsUnderWay \cup {NoVdCall}]
      /\ \A d \in VdCallers \ {c} : d \in Under("zoom")' <=> d \in Under("zoom")
      /\ c \in Under("zoom")' <=> r # NoVdCall /\ r.name = "zoom"
  BY <1>a, <1>1, CallersMove
<1>5. VdTypes'
  BY <1>a, <1>2, <1>3, <1>4 DEF VdTypes
<1>6. HdrFollows'
  <2>1. r = NoVdCall \/ r.name = "zoom"
    BY <1>1
  <2>2. Under("hdr")' = Under("hdr") /\ \A d \in Under("hdr") : vdCall'[d] = vdCall[d]
    BY <1>a, <1>1, <2>1, OtherNames
  <2> QED BY <1>2, <2>2, HdrStays
<1>7. ASSUME ~overlapped["zoom"]
      PROVE  ZoomFollows'
  <2>1. \A d \in Under("zoom") : d = c
    BY <1>a, <1>7 DEF VdInv, ZoomFollows
  <2>2. \A d \in Under("zoom")' : d = c
    <3>1. \A d \in Under("zoom")' : d \in VdCallers BY DEF Under
    <3> QED BY <1>4, <2>1, <3>1
  <2>3. CASE dsSetDFC(c)
    <3>1. ~dsHdmiInSelectZoomMode(c) /\ vdCall[c].step = "hal"
      BY <2>3 DEF dsSetDFC, dsHdmiInSelectZoomMode
    <3>2. vdKept.zoom = {"none"} <=> srv_dfc = "none"
      BY <1>a, <1>7, <2>1, <3>1 DEF VdInv, ZoomFollows
    <3>3. c \in Under("zoom")'
      BY <1>1, <1>4, <3>1, BusyIsNotIdle
    <3>4. UNCHANGED vdKept
      BY <2>3 DEF dsSetDFC
    <3>5. CASE VdStep(c, "persist") /\ srv_dfc' = vdCall[c].value
      <4>1. vdCall'[c].step = "persist" /\ vdCall'[c].value = vdCall[c].value
        BY <1>a, <3>5, Stepping, <1>1, <1>4 DEF VdStep
      <4> QED BY <1>2, <1>a, <2>2, <3>3, <3>5, <4>1 DEF ZoomFollows
    <3>6. CASE VdStep(c, "input") /\ UNCHANGED srv_dfc
      <4>1. vdCall'[c].step = "input"
        BY <1>a, <3>6, Stepping, <1>1, <1>4 DEF VdStep
      <4> QED BY <1>2, <1>a, <2>2, <3>2, <3>3, <3>4, <3>6, <4>1 DEF ZoomFollows
    <3> QED BY <2>3, <3>5, <3>6 DEF dsSetDFC
  <2>4. CASE persistZoom(c)
    <3>1. ~dsHdmiInSelectZoomMode(c) /\ vdCall[c].step = "persist" /\ UNCHANGED srv_dfc
      BY <2>4 DEF persistZoom, dsHdmiInSelectZoomMode, vdCache
    <3>2. vdKept'.zoom = {PersistedZoom(vdCall[c].value)}
      BY <1>a, <2>4 DEF persistZoom, VdTypes
    <3>3. srv_dfc = vdCall[c].value
      BY <1>a, <1>7, <3>1 DEF VdInv, ZoomFollows
    <3>4. vdKept'.zoom = {"none"} <=> srv_dfc' = "none"
      BY <3>1, <3>2, <3>3 DEF PersistedZoom
    <3>5. c \in Under("zoom")'
      BY <1>1, <1>4, <3>1, BusyIsNotIdle
    <3>6. vdCall'[c].step = "input"
      BY <1>a, <2>4, Stepping, <1>1, <1>4 DEF persistZoom, VdStep
    <3> QED BY <1>2, <1>a, <2>2, <3>4, <3>5, <3>6 DEF ZoomFollows
  <2>5. CASE dsHdmiInSelectZoomMode(c)
    <3>1. vdCall[c].step = "input" /\ UNCHANGED <<srv_dfc, vdKept>>
          /\ inputZoom' = IF TV THEN srv_dfc ELSE inputZoom
      BY <2>5 DEF dsHdmiInSelectZoomMode, vdCache
    <3>2. vdKept.zoom = {"none"} <=> srv_dfc = "none"
      BY <1>a, <1>7, <2>1, <3>1 DEF VdInv, ZoomFollows
    <3>3. Under("zoom")' = {}
      BY <1>1, <1>4, <2>2, <2>5
    <3> QED BY <1>2, <1>a, <3>1, <3>2, <3>3 DEF ZoomFollows
  <2> QED BY <2>3, <2>4, <2>5
<1>8. overlapped["zoom"] => ZoomFollows'
  BY <1>2, Zenon DEF ZoomFollows
<1> QED BY <1>5, <1>6, <1>7, <1>8 DEF VdInv

\* The two steps of an HDR call: HAL, then store.
LEMMA HdrStep ==
  ASSUME VdInv, NEW c \in VdCallers, dsForceDisableHDRSupport(c) \/ persistHdr(c)
  PROVE  VdInv'
<1>a. VdTypes /\ c \in Under("hdr") /\ vdStage = "up"
  BY BusyIsNotIdle DEF VdInv, VdTypes, Under, dsForceDisableHDRSupport, persistHdr
<1>1. PICK r \in CallsUnderWay \cup {NoVdCall} :
        /\ vdCall' = [vdCall EXCEPT ![c] = r]
        /\ IF persistHdr(c) THEN r = NoVdCall
           ELSE r \in CallsUnderWay /\ r.name = "hdr" /\ r.value = vdCall[c].value /\ r.step = "persist"
  <2>1. CASE persistHdr(c)
    BY <2>1 DEF persistHdr, VdDone
  <2>2. CASE ~persistHdr(c)
    BY <1>a, <2>2, Stepping DEF dsForceDisableHDRSupport
  <2> QED BY <2>1, <2>2
<1>2. UNCHANGED <<vdStage, srv_dfc, inputZoom, overlapped>> /\ vdKept'.zoom = vdKept.zoom
  BY DEF dsForceDisableHDRSupport, persistHdr, vdCache, vdHal, vdHistory, VdInv, VdTypes
<1>3. vdCall[c].value \in askedHdr /\ vdCall[c].value \in BOOLEAN
  BY <1>a DEF VdInv, HdrFollows, VdTypes
<1>4. /\ \A d \in VdCallers \ {c} : vdCall'[d] = vdCall[d]
      /\ vdCall'[c] = r /\ vdCall' \in [VdCallers -> CallsUnderWay \cup {NoVdCall}]
      /\ \A d \in VdCallers \ {c} : d \in Under("hdr")' <=> d \in Under("hdr")
      /\ c \in Under("hdr")' <=> r # NoVdCall /\ r.name = "hdr"
  BY <1>a, <1>1, CallersMove
<1>5. ZoomFollows'
  <2>1. r = NoVdCall \/ r.name = "hdr"
    BY <1>1
  <2>2. Under("zoom")' = Under("zoom") /\ \A d \in Under("zoom") : vdCall'[d] = vdCall[d]
    BY <1>a, <1>1, <2>1, OtherNames
  <2> QED BY <1>2, <2>2, ZoomStays
<1>6. CASE dsForceDisableHDRSupport(c)
  <2>1. ~persistHdr(c) /\ force_disable_hdr' = vdCall[c].value /\ UNCHANGED <<vdKept, askedHdr>>
    BY <1>6 DEF dsForceDisableHDRSupport, persistHdr, vdHistory
  <2>2. VdTypes'
    BY <1>a, <1>2, <1>3, <1>4, <2>1 DEF VdTypes
  <2>3. \A d \in Under("hdr")' : d \in Under("hdr") /\ vdCall'[d].value = vdCall[d].value
    <3>1. \A d \in Under("hdr")' : d \in VdCallers BY DEF Under
    <3> QED BY <1>a, <1>1, <1>4, <2>1, <3>1
  <2>4. (vdKept'.hdr = {TRUE}) \in askedHdr'
    BY <2>1 DEF VdInv, HdrFollows
  <2>5. \A d \in Under("hdr")' : vdCall'[d].value \in askedHdr'
    BY <2>1, <2>3 DEF VdInv, HdrFollows
  <2>6. ASSUME ~overlapped["hdr"]
        PROVE  \A d, e \in Under("hdr")' : d = e
    BY <2>3, <2>6 DEF VdInv, HdrFollows
  <2>7. force_disable_hdr' \in askedHdr'
    BY <1>3, <2>1
  <2>8. ASSUME ~overlapped["hdr"], NEW d \in Under("hdr")'
        PROVE  force_disable_hdr' = vdCall'[d].value
    <3>1. d = c
      BY <1>a, <2>3, <2>8 DEF VdInv, HdrFollows
    <3> QED BY <2>1, <2>3, <2>8, <3>1
  <2>9. HdrFollows'
    BY <1>2, <2>4, <2>5, <2>6, <2>7, <2>8 DEF HdrFollows
  <2> QED BY <1>5, <2>2, <2>9 DEF VdInv
<1>7. CASE persistHdr(c)
  <2>1. /\ vdCall[c].step = "persist" /\ UNCHANGED force_disable_hdr
        /\ vdKept'.hdr = {vdCall[c].value} /\ vdKept' \in [zoom : SUBSET Settable, hdr : SUBSET BOOLEAN]
        /\ askedHdr' = {vdCall[c].value} \cup {vdCall[d].value : d \in Under("hdr") \ {c}}
    BY <1>a, <1>3, <1>7 DEF persistHdr, VdTypes, vdCache
  <2>2. \A d \in Under("hdr")' : d \in Under("hdr") \ {c} /\ vdCall'[d] = vdCall[d]
    <3>1. \A d \in Under("hdr")' : d \in VdCallers BY DEF Under
    <3> QED BY <1>1, <1>4, <1>7, <3>1
  <2>3. askedHdr' \subseteq askedHdr
    BY <1>3, <2>1 DEF VdInv, HdrFollows
  <2>4. VdTypes'
    BY <1>a, <1>2, <1>4, <2>1, <2>3 DEF VdTypes
  <2>5. (vdKept'.hdr = {TRUE}) \in askedHdr'
    <3>1. (vdKept'.hdr = {TRUE}) = vdCall[c].value
      BY <1>3, <2>1
    <3> QED BY <2>1, <3>1
  <2>6. \A d \in Under("hdr")' : vdCall'[d].value \in askedHdr'
    BY <2>1, <2>2
  <2>7. ASSUME ~overlapped["hdr"] PROVE Under("hdr")' = {} /\ force_disable_hdr' \in askedHdr'
    BY <1>a, <2>1, <2>2, <2>7 DEF VdInv, HdrFollows
  <2>8. HdrFollows'
    BY <1>2, <2>5, <2>6, <2>7 DEF HdrFollows
  <2> QED BY <1>5, <2>4, <2>8 DEF VdInv
<1> QED BY <1>6, <1>7

\* Every step keeps the invariant of both settings.
LEMMA VdStepKeeps == VdInv /\ [VdNext]_vdVars => VdInv'
<1> SUFFICES ASSUME VdInv, [VdNext]_vdVars PROVE VdInv'
  OBVIOUS
<1>1. CASE UNCHANGED vdVars
  BY <1>1 DEF vdVars, vdCache, vdHal, vdHistory, VdInv, VdTypes, ZoomFollows, HdrFollows, Under
<1> QED
  BY <1>1, VdProcess, ZoomBegins, HdrBegins, RateKeeps, ZoomStep, HdrStep DEF VdNext

\* However callers, crashes and re-creations follow one another, once no zoom
\* call is under way and none overlapped another, cache, store and HDMI input
\* agree on the zoom (SetVideoDeviceDFC, LoadSettings).
THEOREM ZoomSurvives == VdSpec => []ZoomAgrees
<1>1. VdInv => ZoomAgrees
  BY DEF VdInv, ZoomFollows, ZoomAgrees, Settled, GetVideoDeviceDFC
<1> QED BY VdStarts, VdStepKeeps, <1>1, PTL DEF VdSpec

\* A call that only answers, and every restart, gives the HDR setting a client
\* asked for and that was not superseded (DisableHDR, persistHdr).
THEOREM HdrAnswerSurvives == VdSpec => []HdrAnswerIsKept
<1>1. VdInv => HdrAnswerIsKept
  BY DEF VdInv, HdrFollows, HdrAnswerIsKept, Settled, HdrHidden
<1> QED BY VdStarts, VdStepKeeps, <1>1, PTL DEF VdSpec

-----------------------------------------------------------------------------
(* The adapters together.                                                  *)

\* The HDMI inputs and the video device run as specified while the adapters
\* take turns.
LEMMA AdaptersRun == AdaptersSpec => InSpec /\ VdSpec
<1>1. AdaptersInit => InInit /\ VdInit
  BY DEF AdaptersInit
<1> DEFINE v == <<audioVars, inVars, fpVars, vdVars, dpVars, hoVars, ciVars, turn>>
<1>2. [AdaptersNext]_v => [InNext]_inVars /\ [VdNext]_vdVars
  BY DEF AdaptersNext, RunAudioMode, RunHdmiIn, RunFrontPanel, RunVideoDevice, RunDisplay, RunHdmiOutput, RunCompositeIn
<1> QED BY <1>1, <1>2, PTL DEF AdaptersSpec, InSpec, VdSpec

\* A restart gives the HAL back what was acknowledged or interrupted: the HDMI
\* inputs' EDID, ALLM and VRR, the video zoom, the hiding of HDR
\* (getPersistenceValue of both adapters).
THEOREM SettingsAreGivenBack == AdaptersSpec => []RestartGivesBack
BY AdaptersRun, InputIsGivenBack, ZoomSurvives, HdrAnswerSurvives, PTL DEF RestartGivesBack
=============================================================================
