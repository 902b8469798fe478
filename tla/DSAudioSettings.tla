--------------------------- MODULE DSAudioSettings ---------------------------
(***************************************************************************)
(* The settings of the audio HAL adapter (hal/dAudioImpl.h): how a value   *)
(* a client sets reaches the HAL and the persisted properties, and what a  *)
(* restart of the process gives back to the HAL.                           *)
(*                                                                         *)
(* No lock is taken between the API and the HAL: the facade and the        *)
(* component only delegate.  A setter is therefore several steps - the HAL *)
(* call, then the persisted property - and calls of different clients      *)
(* interleave between them; the process may stop at any of them.           *)
(*                                                                         *)
(* The settings do not read each other, so one of them is studied at a     *)
(* time: `setting` is chosen by AsInit and never changes.  A value is      *)
(* Default or one of Values; the pairs (mode, level) of the volume         *)
(* leveller and of the surround virtualizer count as one value.            *)
(***************************************************************************)
EXTENDS Naturals, FiniteSets

CONSTANTS
  SettingCallers, \* API threads
  Values,         \* the values clients set
  Profiles,       \* MS12 audio profiles other than Off
  MaxSetCalls,    \* bound: calls that change something
  MaxSetRestarts  \* bound: restarts of the process

Default == "default"   \* the platform's default property, or the literal
Unset == "none"        \* getProperty finds nothing and throws

\* What is persisted can be told from nothing persisted.
ASSUME ValuesAssumption == Unset \notin Values \cup Profiles

\* Kept per port, under a key of its own ("HDMI0.audio.Gain").
PerPort == {"Gain", "Delay"}
\* Of the decoder: restored through handle 0, or kept in one flag (LE).
OfDecoder == {"Mixing", "Fader", "Primary", "Secondary", "LE"}
\* Kept per MS12 profile ("audio.Movie.EnhancerLevel").
PerProfile == {"Dialog", "Leveller", "Virtualizer"}
\* The MS12 settings with one key for every profile.
OneKey == {"Compression", "Dolby", "IEQ", "Bass", "Surround", "DRC", "MISteering", "GEQ"}
\* Never persisted.
Volatile == {"DelayOffset", "AtmosMode", "SAD", "ARC", "MixerLevels"}
Settings == PerPort \cup OfDecoder \cup PerProfile \cup OneKey \cup Volatile \cup {"MS12Profile"}

VARIABLES
  setting,     \* the setting studied
  supported,   \* audio.MS12Profile.supported is TRUE
  override,    \* audio.<setting>.ms12ProfileOverride is TRUE
  up,          \* the adapter is constructed
  halValue,    \* per port, the value in the HAL
  valueStore,  \* HostPersistence: per key, a value or Unset
  enabled,     \* _audioPortEnabled
  le,          \* m_LEEnabled
  setCall,     \* per caller: what is left of its call
  asked,       \* history: per key, the values the last calls asked for
  told,        \* history: ports whose HAL value a completed call has set
  setOverlap,  \* history: calls overlapped since the adapter was last idle
  fresh,       \* history: no call since the restart
  setCalls, setRestarts  \* bound counters

platform == <<setting, supported, override>>
setBounds == <<setCalls, setRestarts>>
setVars == <<platform, up, halValue, valueStore, enabled, le, setCall, asked, told, setOverlap, fresh,
             setBounds>>

AudioPorts == IF setting = "Delay" THEN {"HDMI", "SPDIF"}
              ELSE IF setting \in OfDecoder THEN {"decoder"} ELSE {"HDMI", "SPEAKER"}
Choices == IF setting = "MS12Profile" THEN Profiles \cup {"Off"} ELSE Values
ProfileKey == <<"MS12Profile", "audio">>
\* Where property s lives for port p while profile q is persisted.
generateProfileProperty(s, q) == <<s, q>>
CurrentProfile == IF valueStore[ProfileKey] = Unset THEN "Off" ELSE valueStore[ProfileKey]
getCurrentProfileProperty(s) == generateProfileProperty(s, CurrentProfile)
Key(p) ==
  IF setting \in PerProfile THEN getCurrentProfileProperty(setting)
  ELSE IF setting \in PerPort THEN <<setting, p>> ELSE <<setting, "audio">>
\* What the client means by a setting of port p, whatever key the code uses.
Subject(p) ==
  <<setting, IF setting \in PerPort THEN p
             ELSE IF setting \in PerProfile THEN CurrentProfile ELSE "audio">>
Keys ==
  {ProfileKey, <<setting, "audio">>} \cup {<<setting, x>> : x \in AudioPorts \cup Profiles \cup {"Off"}}

AsIdle == [stage |-> "idle"]
AsQuiet == \A c \in SettingCallers : setCall[c] = AsIdle
AsOthers(c) == \E d \in SettingCallers \ {c} : setCall[d] # AsIdle

AsInit ==
  /\ setting \in Settings /\ supported \in BOOLEAN /\ override \in BOOLEAN
  /\ (setting \in PerPort \cup OfDecoder \cup Volatile => ~supported /\ ~override)
  /\ up = FALSE
  /\ halValue = [p \in AudioPorts |-> Default]
  /\ valueStore = [k \in Keys |-> Unset]
  /\ enabled = {}
  /\ le = Default
  /\ setCall = [c \in SettingCallers |-> AsIdle]
  /\ asked = [k \in Keys |-> {}]
  /\ told = {} /\ setOverlap = FALSE /\ fresh = TRUE
  /\ setCalls = 0 /\ setRestarts = 0

-----------------------------------------------------------------------------
(* The steps calls are made of.                                            *)

AsBegin(c) ==
  /\ up /\ setCall[c] = AsIdle /\ setCalls < MaxSetCalls
  /\ setCalls' = setCalls + 1 /\ fresh' = FALSE /\ setOverlap' = AsOthers(c)
  /\ UNCHANGED <<platform, up, setRestarts>>

\* The call of c returns; ok: the HAL has its value at port p.
AsFinish(c, p, ok) ==
  /\ setCall' = [setCall EXCEPT ![c] = AsIdle]
  /\ setOverlap' = (setOverlap /\ AsOthers(c))
  /\ told' = (IF setting \in PerPort THEN told \ {p} ELSE {})
             \cup (IF ok /\ ~setOverlap THEN {p} ELSE {})

\* Value v becomes persistent; an overlapping call may be the one that lasts.
Persists(k, subject, v, ok) ==
  /\ valueStore' = [valueStore EXCEPT ![k] = v]
  /\ asked' = [asked EXCEPT ![subject] = IF ok /\ ~setOverlap THEN {v} ELSE @ \cup {v}]

\* The common setter: the HAL call first; when it fails nothing is persisted.
CallHal(c, p, v) ==
  /\ AsBegin(c)
  /\ \/ /\ halValue' = [halValue EXCEPT ![p] = v]
        /\ setCall' = [setCall EXCEPT ![c] = [stage |-> "persist", port |-> p, value |-> v, ok |-> TRUE]]
     \/ UNCHANGED <<halValue, setCall>>
  /\ UNCHANGED <<valueStore, enabled, le, asked, told>>

\* A setter without a property: only the HAL keeps the value.
CallHalOnly(c, p, v) ==
  /\ AsBegin(c)
  /\ \/ halValue' = [halValue EXCEPT ![p] = v] /\ told' = told \cup {p}
     \/ UNCHANGED <<halValue, told>>
  /\ UNCHANGED <<valueStore, enabled, le, setCall, asked>>

\* (fault) A setter writes the key that has no profile.
PersistWithoutProfile(c) ==
  /\ setCall[c].stage = "persist"
  /\ Persists(IF setting \in PerPort THEN Key(setCall[c].port) ELSE <<setting, "audio">>,
              Subject(setCall[c].port), setCall[c].value, setCall[c].ok)
  /\ AsFinish(c, setCall[c].port, setCall[c].ok)
  /\ UNCHANGED <<platform, up, halValue, enabled, le, fresh, setBounds>>
\* The setter persists what it gave to the HAL, under the key of this moment.
Persist(c) ==
  /\ setCall[c].stage = "persist"
  /\ Persists(Key(setCall[c].port), Subject(setCall[c].port), setCall[c].value, setCall[c].ok)
  /\ AsFinish(c, setCall[c].port, setCall[c].ok)
  /\ UNCHANGED <<platform, up, halValue, enabled, le, fresh, setBounds>>

\* A value read or chosen in an earlier step reaches the HAL, or does not.
HalStep(c) ==
  /\ setCall[c].stage = "hal"
  /\ LET r == setCall[c] IN
       \/ /\ halValue' = [halValue EXCEPT ![r.port] = r.value]
          /\ \/ /\ r.then = "persist"
                /\ setCall' = [setCall EXCEPT ![c] =
                     [stage |-> "persist", port |-> r.port, value |-> r.value, ok |-> TRUE]]
                /\ UNCHANGED <<told, setOverlap, asked>>
             \/ /\ r.then = "return"
                /\ AsFinish(c, r.port, TRUE)
                /\ asked' = IF setting = "LE" /\ ~setOverlap
                            THEN [asked EXCEPT ![Subject(r.port)] = {r.value}] ELSE asked
       \/ /\ AsFinish(c, r.port, FALSE)
          /\ UNCHANGED <<halValue, asked>>
  /\ UNCHANGED <<platform, up, valueStore, enabled, le, fresh, setBounds>>

-----------------------------------------------------------------------------
(* The setters.                                                            *)

SetAudioGain(c, p, v) == setting = "Gain" /\ CallHal(c, p, v)
SetAssociatedAudioMixing(c, p, v) == setting = "Mixing" /\ CallHal(c, p, v)
SetAudioFaderControl(c, p, v) == setting = "Fader" /\ CallHal(c, p, v)
SetAudioPrimaryLanguage(c, p, v) == setting = "Primary" /\ CallHal(c, p, v)
SetAudioSecondaryLanguage(c, p, v) == setting = "Secondary" /\ CallHal(c, p, v)
SetAudioCompression(c, p, v) == setting = "Compression" /\ CallHal(c, p, v)
SetAudioCompressionLevel(c, p, v) == setting = "Compression" /\ CallHal(c, p, v)
SetAudioDialogEnhancement(c, p, v) == setting = "Dialog" /\ CallHal(c, p, v)
SetAudioDolbyVolumeMode(c, p, v) == setting = "Dolby" /\ CallHal(c, p, v)
SetAudioIntelligentEqualizerMode(c, p, v) == setting = "IEQ" /\ CallHal(c, p, v)
SetAudioVolumeLeveller(c, p, v) == setting = "Leveller" /\ CallHal(c, p, v)
SetAudioBassEnhancer(c, p, v) == setting = "Bass" /\ CallHal(c, p, v)
EnableAudioSurroudDecoder(c, p, v) == setting = "Surround" /\ CallHal(c, p, v)
SetAudioDRCMode(c, p, v) == setting = "DRC" /\ CallHal(c, p, v)
SetAudioSurroudVirtualizer(c, p, v) == setting = "Virtualizer" /\ CallHal(c, p, v)
SetAudioMISteering(c, p, v) == setting = "MISteering" /\ CallHal(c, p, v)
SetAudioGraphicEqualizerMode(c, p, v) == setting = "GEQ" /\ CallHal(c, p, v)
SetAudioAtmosOutputMode(c, p, v) == setting = "AtmosMode" /\ CallHalOnly(c, p, v)
SetSAD(c, p, v) == setting = "SAD" /\ CallHalOnly(c, p, v)
EnableARC(c, p, v) == setting = "ARC" /\ CallHalOnly(c, p, v)
SetAudioDelayOffset(c, p, v) == setting = "DelayOffset" /\ CallHalOnly(c, p, v)
SetAudioMixerLevels(c, p, v) == setting = "MixerLevels" /\ CallHalOnly(c, p, v)

\* A reset gives the HAL the default and persists it.
ResetAudioDialogEnhancement(c, p) == setting = "Dialog" /\ CallHal(c, p, Default)
ResetAudioBassEnhancer(c, p) == setting = "Bass" /\ CallHal(c, p, Default)
ResetAudioSurroundVirtualizer(c, p) == setting = "Virtualizer" /\ CallHal(c, p, Default)
ResetAudioVolumeLeveller(c, p) == setting = "Leveller" /\ CallHal(c, p, Default)

\* Persisted whatever the HAL says, which is called for an enabled port only.
SetAudioDelay(c, p, v) ==
  /\ setting = "Delay" /\ AsBegin(c)
  /\ \E ok \in (IF p \in enabled THEN BOOLEAN ELSE {FALSE}) :
       /\ halValue' = IF ok THEN [halValue EXCEPT ![p] = v] ELSE halValue
       /\ setCall' = [setCall EXCEPT ![c] = [stage |-> "persist", port |-> p, value |-> v, ok |-> ok]]
  /\ UNCHANGED <<valueStore, enabled, le, asked, told>>

\* (fault) The delay of every port is read from HDMI's key.
HdmiDelay(p) ==
  IF valueStore[<<"Delay", "HDMI">>] = Unset THEN Default ELSE valueStore[<<"Delay", "HDMI">>]
getAudioDelayInternal(p) ==
  IF valueStore[<<"Delay", p>>] = Unset THEN Default ELSE valueStore[<<"Delay", p>>]

\* Enabling a port applies the delay persisted for it, read in this step and
\* given to the HAL in the next.
EnableAudioPort(c, p, enable) ==
  /\ setting = "Delay" /\ AsBegin(c)
  /\ enabled' = IF enable THEN enabled \cup {p} ELSE enabled \ {p}
  /\ setCall' = IF ~enable THEN setCall ELSE
       [setCall EXCEPT ![c] = [stage |-> "hal", port |-> p, value |-> getAudioDelayInternal(p),
                            then |-> "return"]]
  /\ UNCHANGED <<halValue, valueStore, le, asked, told>>

\* Nothing happens unless the value differs from m_LEEnabled, which changes
\* before the property, which changes before the HAL.
EnableAudioLEConfig(c, p, v) ==
  /\ setting = "LE" /\ AsBegin(c)
  /\ v # le
  /\ le' = v
  /\ setCall' = [setCall EXCEPT ![c] = [stage |-> "le", port |-> p, value |-> v]]
  /\ UNCHANGED <<halValue, valueStore, enabled, asked, told>>
PersistLE(c) ==
  /\ setCall[c].stage = "le"
  /\ LET r == setCall[c] IN
       /\ Persists(Key(r.port), Subject(r.port), r.value, FALSE)
       /\ setCall' = [setCall EXCEPT ![c] =
            [stage |-> "hal", port |-> r.port, value |-> r.value, then |-> "return"]]
  /\ UNCHANGED <<platform, up, halValue, enabled, le, told, setOverlap, fresh, setBounds>>

-----------------------------------------------------------------------------
(* MS12 profiles.                                                          *)

\* Choosing a profile: the HAL, then the property, then, for every profile
\* but Off, the settings persisted for it are applied: read, given to the
\* HAL, persisted again.  The HAL may reset its own settings on the way.
SetAudioMS12Profile(c, p, q) ==
  \/ setting = "MS12Profile" /\ CallHal(c, p, q)
  \/ /\ setting \in PerProfile \cup {"Bass"} /\ AsBegin(c)
     /\ halValue' \in {halValue, [r \in AudioPorts |-> Default]}
     /\ setCall' = [setCall EXCEPT ![c] = [stage |-> "profile", port |-> p, value |-> q]]
     /\ told' = {}
     /\ UNCHANGED <<valueStore, enabled, le, asked>>
PersistProfile(c) ==
  /\ setCall[c].stage = "profile"
  /\ valueStore' = [valueStore EXCEPT ![ProfileKey] = setCall[c].value]
  /\ IF setCall[c].value = "Off" THEN AsFinish(c, setCall[c].port, FALSE)
     ELSE /\ setCall' = [setCall EXCEPT ![c].stage = "apply"]
          /\ UNCHANGED <<told, setOverlap>>
  /\ UNCHANGED <<platform, up, halValue, enabled, le, asked, fresh, setBounds>>
\* A setting never persisted for the profile throws and is left alone.
applyMS12ProfileSettingsOverride(c) ==
  /\ setCall[c].stage = "apply"
  /\ LET k == Key(setCall[c].port) IN
       IF valueStore[k] = Unset THEN AsFinish(c, setCall[c].port, FALSE)
       ELSE /\ setCall' = [setCall EXCEPT ![c] =
                 [stage |-> "halApply", port |-> @.port, value |-> valueStore[k], key |-> k]]
            /\ UNCHANGED <<told, setOverlap>>
  /\ UNCHANGED <<platform, up, halValue, valueStore, enabled, le, asked, fresh, setBounds>>
ApplyHal(c) ==
  /\ setCall[c].stage = "halApply"
  /\ \/ /\ halValue' = [halValue EXCEPT ![setCall[c].port] = setCall[c].value]
        /\ setCall' = [setCall EXCEPT ![c].stage = "persistApply"]
        /\ UNCHANGED <<told, setOverlap>>
     \/ AsFinish(c, setCall[c].port, FALSE) /\ UNCHANGED halValue
  /\ UNCHANGED <<platform, up, valueStore, enabled, le, asked, fresh, setBounds>>
ApplyPersist(c) ==
  /\ setCall[c].stage = "persistApply"
  /\ Persists(setCall[c].key, setCall[c].key, setCall[c].value, TRUE)
  /\ AsFinish(c, setCall[c].port, TRUE)
  /\ UNCHANGED <<platform, up, halValue, enabled, le, fresh, setBounds>>

\* An override for the active profile: a level (or Default, its removal) goes
\* to the HAL and is persisted when the HAL takes it; a mode is persisted only.
OverrideActive(c, p, v) ==
  /\ AsBegin(c)
  /\ \/ /\ setCall' = [setCall EXCEPT ![c] =
              [stage |-> "hal", port |-> p, value |-> v, then |-> "persist"]]
        /\ UNCHANGED <<valueStore, asked, told>>
     \/ /\ setting \in {"Leveller", "Virtualizer"}
        /\ valueStore' = [valueStore EXCEPT ![Key(p)] = v]
        /\ asked' = [asked EXCEPT ![Subject(p)] = IF AsOthers(c) THEN @ \cup {v} ELSE {v}]
        /\ told' = {}
        /\ UNCHANGED setCall
  /\ UNCHANGED <<halValue, enabled, le>>
\* For any other profile it waits in the property until the profile is chosen.
OverrideInactive(c, p, q, v) ==
  LET k == IF setting = "Bass" THEN Key(p) ELSE generateProfileProperty(setting, q) IN
  /\ AsBegin(c)
  /\ valueStore' = [valueStore EXCEPT ![k] = v]
  /\ asked' = [asked EXCEPT ![k] = IF AsOthers(c) THEN @ \cup {v} ELSE {v}]
  /\ told' = IF setting = "Bass" THEN {} ELSE told
  /\ UNCHANGED <<halValue, enabled, le, setCall>>
SetAudioMS12SettingsOverride(c, p, q, v) ==
  /\ setting \in PerProfile \cup {"Bass"}
  /\ IF q = CurrentProfile THEN OverrideActive(c, p, v) ELSE OverrideInactive(c, p, q, v)

-----------------------------------------------------------------------------
(* InitialiseHAL: what the HAL is given at port p.  `kept` is the value the *)
(* HAL comes up with.                                                      *)

StoredOr(k, d) == IF valueStore[k] = Unset THEN d ELSE valueStore[k]
RestoreGain(p, kept) == StoredOr(<<"Gain", p>>, Default)
RestoreDelay(p, kept) == IF p = "SPDIF" THEN kept ELSE StoredOr(<<"Delay", p>>, Default)
RestoreLE(p, kept) == StoredOr(<<"LE", "audio">>, Default)
RestorePrimaryLanguage(p, kept) == StoredOr(<<"Primary", "audio">>, Default)
RestoreSecondaryLanguage(p, kept) == StoredOr(<<"Secondary", "audio">>, Default)
RestoreFaderControl(p, kept) == StoredOr(<<"Fader", "audio">>, Default)
RestoreAssociatedAudioMixing(p, kept) == StoredOr(<<"Mixing", "audio">>, Default)
RestoreMS12Profile(p, kept) ==
  IF supported /\ p = "SPEAKER" THEN StoredOr(ProfileKey, "Off") ELSE kept

\* While a profile is active: only a setting the platform marks as overriding
\* it, and only when something is stored.
Override(k, kept) == IF override /\ valueStore[k] # Unset THEN valueStore[k] ELSE kept
OverrideCompression(kept) == Override(<<"Compression", "audio">>, kept)
OverrideDialogEnhancer(kept) == Override(getCurrentProfileProperty("Dialog"), kept)
OverrideDolbyVolumeMode(kept) == Override(<<"Dolby", "audio">>, kept)
OverrideIntelligentEQ(kept) == Override(<<"IEQ", "audio">>, kept)
OverrideVolumeLeveller(kept) == Override(getCurrentProfileProperty("Leveller"), kept)
\* (fault) The restore looks for the bass boost among the profile's settings.
OverrideBassOfProfile(kept) == Override(getCurrentProfileProperty("Bass"), kept)
OverrideBassBoost(kept) == Override(<<"Bass", "audio">>, kept)
OverrideSurroundDecoder(kept) == Override(<<"Surround", "audio">>, kept)
OverrideDRCMode(kept) == Override(<<"DRC", "audio">>, kept)
OverrideSurroundVirtualizer(kept) == Override(getCurrentProfileProperty("Virtualizer"), kept)
OverrideMISteering(kept) == Override(<<"MISteering", "audio">>, kept)
OverrideGraphicEQ(kept) == Override(<<"GEQ", "audio">>, kept)
initializeMS12ProfileOverrides(kept) ==
  CASE setting = "Compression" -> OverrideCompression(kept)
    [] setting = "Dialog" -> OverrideDialogEnhancer(kept)
    [] setting = "Dolby" -> OverrideDolbyVolumeMode(kept)
    [] setting = "IEQ" -> OverrideIntelligentEQ(kept)
    [] setting = "Leveller" -> OverrideVolumeLeveller(kept)
    [] setting = "Bass" -> OverrideBassBoost(kept)
    [] setting = "Surround" -> OverrideSurroundDecoder(kept)
    [] setting = "DRC" -> OverrideDRCMode(kept)
    [] setting = "Virtualizer" -> OverrideSurroundVirtualizer(kept)
    [] setting = "MISteering" -> OverrideMISteering(kept)
    [] OTHER -> OverrideGraphicEQ(kept)

\* Without profile support: from keys without a profile, which for the three
\* settings kept per profile no setter writes.  The leveller is skipped when
\* a Dolby volume mode is stored (bDolbyVolumeOverrideCheck): `kept` again.
IndividualCompression == {StoredOr(<<"Compression", "audio">>, Default)}
IndividualDialog == {StoredOr(<<"Dialog", "audio">>, Default)}
IndividualDolby == {StoredOr(<<"Dolby", "audio">>, Default)}
IndividualIEQ == {StoredOr(<<"IEQ", "audio">>, Default)}
IndividualLeveller(kept) == {StoredOr(<<"Leveller", "audio">>, Default), kept}
IndividualBass == {StoredOr(<<"Bass", "audio">>, Default)}
IndividualSurround == {StoredOr(<<"Surround", "audio">>, Default)}
IndividualDRC == {StoredOr(<<"DRC", "audio">>, Default)}
IndividualVirtualizer == {StoredOr(<<"Virtualizer", "audio">>, Default)}
IndividualMISteering == {StoredOr(<<"MISteering", "audio">>, Default)}
IndividualGEQ == {StoredOr(<<"GEQ", "audio">>, Default)}
initializeIndividualMS12Settings(kept) ==
  CASE setting = "Compression" -> IndividualCompression
    [] setting = "Dialog" -> IndividualDialog
    [] setting = "Dolby" -> IndividualDolby
    [] setting = "IEQ" -> IndividualIEQ
    [] setting = "Leveller" -> IndividualLeveller(kept)
    [] setting = "Bass" -> IndividualBass
    [] setting = "Surround" -> IndividualSurround
    [] setting = "DRC" -> IndividualDRC
    [] setting = "Virtualizer" -> IndividualVirtualizer
    [] setting = "MISteering" -> IndividualMISteering
    [] OTHER -> IndividualGEQ

\* Compression starts from 0 on both ports, whatever is stored.
initializeMS12Settings(kept) == IF setting = "Compression" THEN Default ELSE kept
ProfileActive == supported /\ StoredOr(ProfileKey, "Off") # "Off"
audioConfigInit(p, kept) ==
  CASE setting = "Gain" -> {RestoreGain(p, kept)}
    [] setting = "Delay" -> {RestoreDelay(p, kept)}
    [] setting = "LE" -> {RestoreLE(p, kept)}
    [] setting = "Primary" -> {RestorePrimaryLanguage(p, kept)}
    [] setting = "Secondary" -> {RestoreSecondaryLanguage(p, kept)}
    [] setting = "Fader" -> {RestoreFaderControl(p, kept)}
    [] setting = "Mixing" -> {RestoreAssociatedAudioMixing(p, kept)}
    [] setting = "MS12Profile" -> {RestoreMS12Profile(p, kept)}
    [] setting \in OneKey \cup PerProfile /\ ProfileActive -> {initializeMS12ProfileOverrides(kept)}
    [] setting \in OneKey \cup PerProfile /\ ~supported -> initializeIndividualMS12Settings(kept)
    [] OTHER -> {kept}

AsInitialiseHAL ==
  /\ ~up
  /\ up' = TRUE
  /\ \E kept \in {halValue, [p \in AudioPorts |-> Default]} :
       halValue' \in {h \in [AudioPorts -> Choices \cup {Default, Unset, "Off"}] :
                  \A p \in AudioPorts : h[p] \in audioConfigInit(p, initializeMS12Settings(kept[p]))}
  /\ valueStore' = [k \in Keys |->
       CASE k = ProfileKey /\ supported -> StoredOr(k, "Off")
         [] k = <<"LE", "audio">> -> StoredOr(k, Default)
         [] OTHER -> valueStore[k]]
  /\ le' = IF setting = "LE" THEN StoredOr(<<"LE", "audio">>, Default) ELSE le
  /\ enabled' = {}
  /\ fresh' = TRUE
  /\ UNCHANGED <<platform, setCall, asked, told, setOverlap, setBounds>>

\* The process dies, or is stopped between two calls: what is not persisted
\* is gone, and a call under way stays where it was.
AsRestart ==
  /\ up /\ setRestarts < MaxSetRestarts
  /\ up' = FALSE
  /\ setRestarts' = setRestarts + 1
  /\ setCall' = [c \in SettingCallers |-> AsIdle]
  /\ told' = {} /\ setOverlap' = FALSE
  /\ UNCHANGED <<platform, halValue, valueStore, enabled, le, asked, fresh, setCalls>>

-----------------------------------------------------------------------------
(* The getters.                                                            *)

GetAudioGain(p) == halValue[p]
GetAudioDelay(p) == getAudioDelayInternal(p)
GetAudioLEConfig(p) == halValue[p]
GetAudioPrimaryLanguage(p) == halValue[p]
GetAudioSecondaryLanguage(p) == halValue[p]
GetAudioFaderControl(p) == halValue[p]
GetAssociatedAudioMixing(p) == halValue[p]
GetAudioMS12Profile(p) == halValue[p]
GetAudioCompression(p) == halValue[p]
GetAudioDialogEnhancement(p) == halValue[p]
GetAudioDolbyVolumeMode(p) == halValue[p]
GetAudioIntelligentEqualizerMode(p) == halValue[p]
GetAudioVolumeLeveller(p) == halValue[p]
GetAudioBassEnhancer(p) == halValue[p]
IsAudioSurroudDecoderEnabled(p) == halValue[p]
GetAudioDRCMode(p) == halValue[p]
GetAudioSurroudVirtualizer(p) == halValue[p]
GetAudioMISteering(p) == halValue[p]
GetAudioGraphicEqualizerMode(p) == halValue[p]
Answer(p) ==
  CASE setting = "Gain" -> GetAudioGain(p)
    [] setting = "Delay" -> GetAudioDelay(p)
    [] setting = "LE" -> GetAudioLEConfig(p)
    [] setting = "Primary" -> GetAudioPrimaryLanguage(p)
    [] setting = "Secondary" -> GetAudioSecondaryLanguage(p)
    [] setting = "Fader" -> GetAudioFaderControl(p)
    [] setting = "Mixing" -> GetAssociatedAudioMixing(p)
    [] setting = "MS12Profile" -> GetAudioMS12Profile(p)
    [] setting = "Compression" -> GetAudioCompression(p)
    [] setting = "Dialog" -> GetAudioDialogEnhancement(p)
    [] setting = "Dolby" -> GetAudioDolbyVolumeMode(p)
    [] setting = "IEQ" -> GetAudioIntelligentEqualizerMode(p)
    [] setting = "Leveller" -> GetAudioVolumeLeveller(p)
    [] setting = "Bass" -> GetAudioBassEnhancer(p)
    [] setting = "Surround" -> IsAudioSurroudDecoderEnabled(p)
    [] setting = "DRC" -> GetAudioDRCMode(p)
    [] setting = "Virtualizer" -> GetAudioSurroudVirtualizer(p)
    [] setting = "MISteering" -> GetAudioMISteering(p)
    [] OTHER -> GetAudioGraphicEqualizerMode(p)

-----------------------------------------------------------------------------
SetOne(c, p, v) ==
  \/ SetAudioGain(c, p, v) \/ SetAssociatedAudioMixing(c, p, v)
  \/ SetAudioFaderControl(c, p, v) \/ SetAudioPrimaryLanguage(c, p, v)
  \/ SetAudioSecondaryLanguage(c, p, v) \/ SetAudioCompression(c, p, v)
  \/ SetAudioCompressionLevel(c, p, v) \/ SetAudioDialogEnhancement(c, p, v)
  \/ SetAudioDolbyVolumeMode(c, p, v) \/ SetAudioIntelligentEqualizerMode(c, p, v)
  \/ SetAudioVolumeLeveller(c, p, v) \/ SetAudioBassEnhancer(c, p, v)
  \/ EnableAudioSurroudDecoder(c, p, v) \/ SetAudioDRCMode(c, p, v)
  \/ SetAudioSurroudVirtualizer(c, p, v) \/ SetAudioMISteering(c, p, v)
  \/ SetAudioGraphicEqualizerMode(c, p, v) \/ SetAudioDelay(c, p, v)
  \/ EnableAudioLEConfig(c, p, v)
SetVolatile(c, p, v) ==
  \/ SetAudioAtmosOutputMode(c, p, v) \/ SetSAD(c, p, v) \/ EnableARC(c, p, v)
  \/ SetAudioDelayOffset(c, p, v) \/ SetAudioMixerLevels(c, p, v)
Reset(c, p) ==
  \/ ResetAudioDialogEnhancement(c, p) \/ ResetAudioBassEnhancer(c, p)
  \/ ResetAudioSurroundVirtualizer(c, p) \/ ResetAudioVolumeLeveller(c, p)
AsContinue(c) ==
  \/ Persist(c) \/ HalStep(c) \/ PersistLE(c) \/ PersistProfile(c)
  \/ applyMS12ProfileSettingsOverride(c) \/ ApplyHal(c) \/ ApplyPersist(c)

AsNext ==
  \/ AsInitialiseHAL \/ AsRestart
  \/ \E c \in SettingCallers :
       \/ AsContinue(c)
       \/ \E p \in AudioPorts :
            \/ Reset(c, p)
            \/ \E enable \in BOOLEAN : EnableAudioPort(c, p, enable)
            \/ \E v \in Values : SetOne(c, p, v) \/ SetVolatile(c, p, v)
            \/ \E q \in Profiles \cup {"Off"} :
                 \/ SetAudioMS12Profile(c, p, q)
                 \/ \E v \in Values \cup {Default} : SetAudioMS12SettingsOverride(c, p, q, v)

AsSpec == AsInit /\ [][AsNext]_setVars

-----------------------------------------------------------------------------
(* Properties.                                                             *)

\* The ports whose value the start-up sequence promises to bring back.
BroughtBack(p) ==
  \/ setting \in {"Gain"} \cup OfDecoder
  \/ setting = "Delay" /\ p = "HDMI"
  \/ setting = "MS12Profile" /\ supported /\ p = "SPEAKER"
  \/ setting \in OneKey /\ ~supported
  \/ setting \in OneKey \cup PerProfile /\ ProfileActive /\ override /\ asked[Subject(p)] # {}
Wanted(p) ==
  IF asked[Subject(p)] # {} THEN asked[Subject(p)]
  ELSE {IF setting = "MS12Profile" THEN "Off" ELSE Default}

\* After a restart the HAL has the value of the last call that was
\* acknowledged, or of one that overlapped it, or the platform's default -
\* never an older one: audioConfigInit reads what the setters persisted.
RestartRestores ==
  up /\ fresh => \A p \in AudioPorts : BroughtBack(p) => halValue[p] \in Wanted(p)

\* When no call is under way, a value the HAL took from an undisturbed call
\* is also the persisted one, so that the next restart keeps it - across
\* changes of the MS12 profile, whose settings have one key per profile.
AppliedIsKept ==
  up /\ AsQuiet /\ setting \notin Volatile =>
    \A p \in told : halValue[p] = StoredOr(Key(p), Default)

\* ... and the getter answers with what the client asked for, whether it
\* asks the HAL (most) or the property (the delay).
ReadBack == up /\ AsQuiet /\ setting \notin Volatile => \A p \in told : Answer(p) \in Wanted(p)

\* A setting that the HAL took undisturbed is the persisted one and the one
\* the getter answers.
AppliedIsPersisted == AppliedIsKept /\ ReadBack
=============================================================================
