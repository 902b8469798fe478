--------------------------- MODULE DSVideoDevice ----------------------------
(***************************************************************************)
(* Zoom, forced HDR and display frame rate (hal/dVideoDeviceImpl.h).       *)
(*                                                                         *)
(* Nothing serialises the calls: VideoDevice's facade takes its _apiLock   *)
(* for the configuration only.  A setter calls the HAL, stores the cached  *)
(* value and persists it, in three steps; the process may die between any  *)
(* two.  The adapter loads the persisted values each time it is created    *)
(* but gives the HAL back only a TV's input zoom.                          *)
(***************************************************************************)
EXTENDS Naturals

CONSTANTS
  VdCallers,    \* threads that serve clients
  TV,           \* profileType = TV
  MaxVdCalls,   \* bound: calls
  MaxVdRestarts \* bound: crashes and re-creations

VARIABLES
  vdStage,           \* down or up
  srv_dfc, force_disable_hdr, \* the static caches
  halZoom, inputZoom, halHdrOff, \* what the HAL was told
  vdKept,            \* the persisted settings, by name: {} or {value}
  vdCall,            \* by caller: what is left of the call
  overlapped,        \* history, by name: two calls have been under way together
  askedHdr,          \* history: the values of force_disable_hdr a client may expect
  announced,         \* history, by caller: "pre", "post", or "invalid" for no post
  vdCalls, vdRestarts \* bound counters

vdHal == <<halZoom, inputZoom, halHdrOff>>
vdCache == <<srv_dfc, force_disable_hdr>>
vdHistory == <<overlapped, askedHdr, announced>>
vdBounds == <<vdCalls, vdRestarts>>
vdVars == <<vdStage, vdCache, vdHal, vdKept, vdCall, vdHistory, vdBounds>>

Settable == {"none", "full", "16:9"}
Zooms == Settable \cup {"other"} \* other: any zoom SetVideoDeviceDFC does not support
NoVdCall == [step |-> "none"]

VdInit ==
  /\ vdStage = "down" /\ srv_dfc = "full" /\ force_disable_hdr = TRUE
  /\ halZoom = "full" /\ inputZoom = "full" /\ halHdrOff = FALSE
  /\ vdKept = [zoom |-> {}, hdr |-> {}]
  /\ vdCall = [c \in VdCallers |-> NoVdCall]
  /\ overlapped = [n \in {"zoom", "hdr"} |-> FALSE]
  /\ askedHdr = {FALSE} /\ announced = [c \in VdCallers |-> "post"]
  /\ vdCalls = 0 /\ vdRestarts = 0

-----------------------------------------------------------------------------
(* The process.                                                            *)

LoadsSavedOnly == \* (fault) the input's zoom is left alone
  /\ srv_dfc' = IF vdKept.zoom = {"none"} THEN "none" ELSE srv_dfc
  /\ force_disable_hdr' = (vdKept.hdr = {TRUE})
  /\ UNCHANGED vdHal
LoadsHdrWhenKept == \* (fault) a setting nobody persisted keeps the static's TRUE
  /\ srv_dfc' = IF vdKept.zoom = {"none"} THEN "none" ELSE srv_dfc
  /\ force_disable_hdr' = (FALSE \notin vdKept.hdr)
  /\ inputZoom' = IF TV THEN srv_dfc' ELSE inputZoom
  /\ UNCHANGED <<halZoom, halHdrOff>>
\* "Full" leaves the static zoom as it is; the HDR setting is not sent.
LoadSettings ==
  /\ srv_dfc' = IF vdKept.zoom = {"none"} THEN "none" ELSE srv_dfc
  /\ force_disable_hdr' = (vdKept.hdr = {TRUE})
  /\ inputZoom' = IF TV THEN srv_dfc' ELSE inputZoom
  /\ UNCHANGED <<halZoom, halHdrOff>>
VdGetPersistenceValue ==
  /\ vdStage = "down" /\ vdStage' = "up"
  /\ LoadSettings
  /\ UNCHANGED <<vdKept, vdCall, vdHistory, vdBounds>>

VdHalKeepsOrForgets ==
  \/ UNCHANGED vdHal
  \/ halZoom' = "full" /\ inputZoom' = "full" /\ halHdrOff' = FALSE
VdCrash ==
  /\ vdStage = "up" /\ vdRestarts < MaxVdRestarts
  /\ vdStage' = "down" /\ vdRestarts' = vdRestarts + 1
  /\ srv_dfc' = "full" /\ force_disable_hdr' = TRUE
  /\ VdHalKeepsOrForgets
  /\ vdCall' = [c \in VdCallers |-> NoVdCall]
  /\ overlapped' = [n \in {"zoom", "hdr"} |-> FALSE]
  /\ announced' = [c \in VdCallers |-> "post"]
  /\ UNCHANGED <<vdKept, askedHdr, vdCalls>>
VdDeInitialiseHAL ==
  /\ vdStage = "up" /\ vdRestarts < MaxVdRestarts
  /\ \A c \in VdCallers : vdCall[c] = NoVdCall
  /\ vdStage' = "down" /\ vdRestarts' = vdRestarts + 1
  /\ VdHalKeepsOrForgets
  /\ UNCHANGED <<vdCache, vdKept, vdCall, vdHistory, vdCalls>>

-----------------------------------------------------------------------------
(* The calls.                                                              *)

Under(name) == {c \in VdCallers : vdCall[c] # NoVdCall /\ vdCall[c].name = name}
VdStep(c, step) == vdCall' = [vdCall EXCEPT ![c].step = step]
VdDone(c) == vdCall' = [vdCall EXCEPT ![c] = NoVdCall]

VdBegin(c, name, v) ==
  /\ vdStage = "up" /\ vdCall[c] = NoVdCall /\ vdCalls < MaxVdCalls
  /\ vdCalls' = vdCalls + 1
  /\ vdCall' = [vdCall EXCEPT ![c] = [step |-> "hal", name |-> name, value |-> v]]
  /\ UNCHANGED <<vdStage, vdCache, vdHal, vdKept, vdRestarts>>

SetVideoDeviceDFC(c, z) ==
  /\ VdBegin(c, "zoom", z)
  /\ overlapped' = [overlapped EXCEPT !.zoom = @ \/ Under("zoom") # {}]
  /\ UNCHANGED <<askedHdr, announced>>
\* An unsupported zoom skips to the TV's input; a HAL failure does too.
dsSetDFC(c) ==
  /\ c \in Under("zoom") /\ vdCall[c].step = "hal"
  /\ \/ /\ vdCall[c].value \in Settable
        /\ halZoom' = vdCall[c].value /\ srv_dfc' = vdCall[c].value
        /\ VdStep(c, "persist")
     \/ VdStep(c, "input") /\ UNCHANGED <<halZoom, srv_dfc>>
  /\ UNCHANGED <<vdStage, force_disable_hdr, inputZoom, halHdrOff, vdKept, vdHistory, vdBounds>>
\* 16:9 is persisted as "Full".
PersistedZoom(z) == IF z = "none" THEN "none" ELSE "full"
persistZoom(c) ==
  /\ c \in Under("zoom") /\ vdCall[c].step = "persist"
  /\ vdKept' = [vdKept EXCEPT !.zoom = {PersistedZoom(vdCall[c].value)}]
  /\ VdStep(c, "input")
  /\ UNCHANGED <<vdStage, vdCache, vdHal, vdHistory, vdBounds>>
dsHdmiInSelectZoomMode(c) ==
  /\ c \in Under("zoom") /\ vdCall[c].step = "input"
  /\ inputZoom' = IF TV THEN srv_dfc ELSE inputZoom
  /\ VdDone(c)
  /\ UNCHANGED <<vdStage, vdCache, halZoom, halHdrOff, vdKept, vdHistory, vdBounds>>

DisableHDR(c, b) ==
  /\ VdBegin(c, "hdr", b)
  /\ overlapped' = [overlapped EXCEPT !.hdr = @ \/ Under("hdr") # {}]
  /\ askedHdr' = askedHdr \cup {b}
  /\ UNCHANGED announced
\* A failure is the answer, but the flag is set and persisted all the same.
dsForceDisableHDRSupport(c) ==
  /\ c \in Under("hdr") /\ vdCall[c].step = "hal"
  /\ halHdrOff' \in {halHdrOff, vdCall[c].value}
  /\ force_disable_hdr' = vdCall[c].value
  /\ VdStep(c, "persist")
  /\ UNCHANGED <<vdStage, srv_dfc, halZoom, inputZoom, vdKept, vdHistory, vdBounds>>
persistHdr(c) ==
  /\ c \in Under("hdr") /\ vdCall[c].step = "persist"
  /\ vdKept' = [vdKept EXCEPT !.hdr = {vdCall[c].value}]
  /\ askedHdr' = {vdCall[c].value} \cup {vdCall[d].value : d \in Under("hdr") \ {c}}
  /\ VdDone(c)
  /\ UNCHANGED <<vdStage, vdCache, vdHal, overlapped, announced, vdBounds>>

\* The clients hear the change before the HAL is called; after it, unless the
\* HAL calls the rate invalid.
SetDisplayFrameRate(c) ==
  /\ VdBegin(c, "rate", "rate")
  /\ announced' = [announced EXCEPT ![c] = "pre"]
  /\ UNCHANGED <<overlapped, askedHdr>>
PostChangeOnSuccess(answer) == IF answer = "failed" THEN "pre" ELSE "post" \* (fault)
PostChange(answer) == IF answer = "invalid" THEN "invalid" ELSE "post"
dsSetDisplayframerate(c) ==
  /\ c \in Under("rate") /\ vdCall[c].step = "hal"
  /\ \E answer \in {"ok", "failed", "invalid"} : announced' = [announced EXCEPT ![c] = PostChange(answer)]
  /\ VdDone(c)
  /\ UNCHANGED <<vdStage, vdCache, vdHal, vdKept, overlapped, askedHdr, vdBounds>>

-----------------------------------------------------------------------------
VdNext ==
  \/ VdGetPersistenceValue \/ VdCrash \/ VdDeInitialiseHAL
  \/ \E c \in VdCallers :
       \/ \E z \in Zooms : SetVideoDeviceDFC(c, z)
       \/ dsSetDFC(c) \/ persistZoom(c) \/ dsHdmiInSelectZoomMode(c)
       \/ \E b \in BOOLEAN : DisableHDR(c, b)
       \/ dsForceDisableHDRSupport(c) \/ persistHdr(c)
       \/ SetDisplayFrameRate(c) \/ dsSetDisplayframerate(c)

VdSpec == VdInit /\ [][VdNext]_vdVars

-----------------------------------------------------------------------------
(* Properties.                                                             *)

GetVideoDeviceDFC == srv_dfc
HdrHidden == force_disable_hdr \* GetHDRCapabilities answers "none"

Settled(name) == vdStage = "up" /\ Under(name) = {} /\ ~overlapped[name]

\* The zoom a getter answers with is "none" just when a restart will load it
\* so, and it is what a TV's HDMI input shows, wherever the process died or a
\* HAL call failed.
ZoomAgrees ==
  Settled("zoom") =>
    /\ vdKept.zoom = {"none"} <=> GetVideoDeviceDFC = "none"
    /\ TV => inputZoom = GetVideoDeviceDFC

\* Whether HDR capabilities are hidden is what the last DisableHDR said, even
\* of a call that failed, or what one interrupted by a crash asked for.
HdrAnswerIsKept == Settled("hdr") => HdrHidden \in askedHdr

\* A client told of a frame rate change to come is told of its end, unless the
\* HAL calls the rate invalid.
PreChangeIsClosed == \A c \in VdCallers : vdCall[c] = NoVdCall => announced[c] # "pre"
=============================================================================
