----------------------- MODULE DSVideoPortResolution -----------------------
(***************************************************************************)
(* Resolution, 4K block and colour depth in the legacy video port adapter  *)
(* (hal/dVideoPortImpl.h): the output's mode in the HAL, the cached names  *)
(* that answer for analog ports and missing displays, and the persisted    *)
(* ones.  An analog port and HDMI must show compatible resolutions, so a   *)
(* persisted change of one may replace the name kept for the other.        *)
(*                                                                         *)
(* The adapter takes no lock: a call is the checks, the HAL call, the      *)
(* cache, the property, the other port; calls interleave between them, and *)
(* displays come and go.  The colour depth and the resolutions do not read *)
(* each other, and the block of 4K reads neither what is cached nor what   *)
(* is persisted, so `focus` chooses what the clients use: the block with   *)
(* resolutions that are not persisted, or one of the others.  Of the       *)
(* analog ports the model has COMPONENT and RF; BB differs from RF by the  *)
(* name of its property.  1080p stands for every HD mode below 4K.         *)
(***************************************************************************)
EXTENDS Naturals, FiniteSets

CONSTANTS
  Callers,     \* API threads
  DefaultResolution,     \* the default resolution of the profile
  MaxCalls,    \* bound: calls that change something
  MaxPlugs,    \* bound: changes of the display
  MaxRestarts  \* bound: restarts of the process

Ports == {"HDMI", "COMPONENT", "RF"}
Names == {"480p", "1080p", "2160p"}
None == "none"
\* The HAL has no analog mode in 4K: it refuses such a call, which then ends.
NamesOf(p) == IF p = "HDMI" THEN Names ELSE Names \ {"2160p"}
\* What a display can show; AUTO is a wish only.
Depths == {"8", "10", "12"}

VARIABLES
  focus,      \* what clients call: resolution, block or depth
  stage,      \* up or down
  hal,        \* per port, the resolution of the output
  connected,  \* a display is at HDMI
  cache,      \* _dsHDMIResolution, _dsCompResolution, _dsRFResolution
  store,      \* HDMI0.resolution, COMPONENT0.resolution, RF0.resolution
  no4k,       \* the HAL's block of 4K
  store4k,    \* VideoDevice.force4KDisabled
  caps,       \* the depths of the display
  depth,      \* the HAL's preferred depth
  storeDepth, \* HDMI0.colorDepth
  hotplug,    \* the callback of the HAL is due or under way
  call,       \* per caller: what is left of its call
  overlap,    \* history: calls overlapped, or met a display, since all were idle
  saved,      \* history: ports whose name an undisturbed call has persisted
  applied,    \* history: of those, the ports still in that mode
  paired,     \* history: the last change of HDMI or COMPONENT was such a call
  blocked,    \* history: the last acknowledged block of 4K: yes, no, unknown
  settled,    \* history: the depth was last set by a persisted, undisturbed call
  calls, plugs, restarts  \* bound counters

resolution == <<hal, cache, store>>
block == <<no4k, store4k>>
colour == <<caps, depth, storeDepth>>
display == <<connected, caps, hotplug>>
history == <<overlap, saved, applied, paired, blocked, settled>>
bounds == <<calls, plugs, restarts>>
vars == <<focus, stage, resolution, block, colour, connected, hotplug, call, history, bounds>>

Idle == [at |-> "idle"]
Quiet == \A c \in Callers : call[c] = Idle
Others(c) == \E d \in Callers \ {c} : call[d] # Idle

Init ==
  /\ focus \in {"resolution", "block", "depth"}
  /\ stage = "down"
  /\ hal \in [Ports -> {DefaultResolution}] /\ connected \in BOOLEAN
  /\ cache = [p \in Ports |-> "1080p"] /\ store = [p \in Ports |-> None]
  /\ no4k = FALSE /\ store4k = FALSE
  /\ caps \in {{"8"}, {"8", "12"}} /\ (focus # "depth" => caps = {"8"}) /\ depth = "8" /\ storeDepth = None
  /\ hotplug = FALSE
  /\ call = [c \in Callers |-> Idle]
  /\ overlap = FALSE /\ saved = {} /\ applied = {} /\ paired = FALSE
  /\ blocked = "no" /\ settled = FALSE
  /\ calls = 0 /\ plugs = 0 /\ restarts = 0

-----------------------------------------------------------------------------
(* Compatibility.                                                          *)

IsHDCompatible(n) == n # "480p"
IsCompatibleResolution(n, m) == n = m \/ (IsHDCompatible(n) /\ IsHDCompatible(m))
getCompatibleAnalogResolution(n) == IF n = "2160p" THEN "1080p" ELSE n
getCompatibleHDMIResolution(n) == IF n = "2160p" THEN "1080p" ELSE n
getBestSupportedColorDepth(d) ==
  IF d \in caps THEN d ELSE IF "12" \in caps THEN "12" ELSE IF "10" \in caps THEN "10" ELSE "8"
getPersistentColorDepth == IF storeDepth = None THEN "auto" ELSE storeDepth

\* (fault) The depth is reapplied only when the display cannot show the present one.
ApplyWhenUnsupported(ok) ==
  depth' = IF connected /\ ok /\ depth \notin caps
           THEN getBestSupportedColorDepth(getPersistentColorDepth) ELSE depth
\* Nothing when the HAL already prefers the persisted depth, or without a
\* display; otherwise the best depth of the display, if the HAL takes it (ok).
ApplyPreferredColorDepthAfterHdmiReset(ok) ==
  depth' = IF connected /\ ok /\ depth # getPersistentColorDepth
           THEN getBestSupportedColorDepth(getPersistentColorDepth) ELSE depth

\* The depth an undisturbed persisted request promises.
Reapplied(d) ==
  d = getPersistentColorDepth \/ getPersistentColorDepth \notin caps

-----------------------------------------------------------------------------
(* The process.                                                            *)

\* (fault) The block of 4K is not given back to the HAL.
PersistenceWithout4K ==
  /\ cache' = [p \in Ports |-> IF store[p] = None THEN DefaultResolution ELSE store[p]]
  /\ no4k' \in {no4k, FALSE}
\* getPersistenceValue, then the colour depth; the output keeps its mode, the
\* HAL keeps its block and depth or starts anew.
getPersistenceValue ==
  /\ cache' = [p \in Ports |-> IF store[p] = None THEN DefaultResolution ELSE store[p]]
  /\ \E kept \in BOOLEAN : no4k' = (store4k \/ (kept /\ no4k))
InitialiseHAL ==
  /\ stage = "down"
  /\ stage' = "up"
  /\ getPersistenceValue
  /\ \E ok \in BOOLEAN :
       /\ ApplyPreferredColorDepthAfterHdmiReset(ok)
       /\ settled' = (settled /\ (ok \/ ~connected))
  /\ UNCHANGED <<focus, hal, store, store4k, caps, storeDepth, connected, hotplug, call, overlap, saved,
                 applied, paired, blocked, bounds>>

\* The process dies or is stopped; an interrupted call leaves what it did.
Restart ==
  /\ stage = "up" /\ restarts < MaxRestarts
  /\ stage' = "down" /\ restarts' = restarts + 1
  /\ hotplug' = FALSE
  /\ call' = [c \in Callers |-> Idle] /\ overlap' = FALSE
  /\ saved' = (IF Quiet THEN saved ELSE {}) /\ applied' = {}
  /\ paired' = FALSE
  /\ blocked' = (IF Quiet THEN blocked ELSE "unknown") /\ settled' = (settled /\ Quiet)
  /\ depth' \in {depth, "8"}
  /\ UNCHANGED <<focus, resolution, block, caps, storeDepth, connected, calls, plugs>>

\* Another display, or none: a quick change is one event for the callback,
\* which asks for the present state.  The HAL may forget the preferred depth.
Plug ==
  /\ stage = "up" /\ plugs < MaxPlugs
  /\ plugs' = plugs + 1
  /\ connected' \in (IF connected THEN BOOLEAN ELSE {TRUE})
  /\ caps' \in (IF connected' /\ focus = "depth" THEN {{"8"}, {"8", "12"}} ELSE {caps})
  /\ depth' \in {depth, "8"}
  /\ hotplug' = (focus = "depth")   \* the callback changes nothing else here
  /\ overlap' = ~Quiet
  /\ UNCHANGED <<focus, stage, resolution, block, storeDepth, call, saved, applied, paired, blocked,
                 settled, calls, restarts>>

dsDisplayEventCallback ==
  /\ stage = "up" /\ hotplug
  /\ hotplug' = FALSE
  /\ overlap' = ~Quiet
  /\ \E ok \in BOOLEAN :
       /\ ApplyPreferredColorDepthAfterHdmiReset(ok)
       /\ settled' = (settled /\ Quiet /\ (ok \/ ~connected))
  /\ UNCHANGED <<focus, stage, resolution, block, caps, storeDepth, connected, call, saved,
                 applied, paired, blocked, bounds>>

-----------------------------------------------------------------------------
(* The steps of the calls.                                                 *)

Begin(c) ==
  /\ stage = "up" /\ call[c] = Idle /\ calls < MaxCalls
  /\ calls' = calls + 1
  /\ overlap' = Others(c)
  /\ UNCHANGED <<focus, stage, connected, hotplug, plugs, restarts>>
Goto(c, r) ==
  /\ call' = [call EXCEPT ![c] = r]
  /\ UNCHANGED <<focus, stage, connected, hotplug, overlap, bounds>>
Finish(c) ==
  /\ call' = [call EXCEPT ![c] = Idle]
  /\ overlap' = (overlap /\ Others(c))
  /\ UNCHANGED <<focus, stage, connected, hotplug, bounds>>
\* Port p shows another resolution, or another name is kept for it.
Changes(p) ==
  /\ saved' = saved \ {p} /\ applied' = applied \ {p}
  /\ paired' = (paired /\ p \notin {"HDMI", "COMPONENT"})

\* SetVideoPortResolution: no display, or 4K while it is blocked: an error.
\* The resolution the output has already is only cached and persisted.
SetVideoPortResolution(c, p, n, persist, force) ==
  /\ focus # "depth" /\ (p = "HDMI" => connected) /\ (focus = "block" => ~persist)
  /\ ~(no4k /\ n = "2160p")
  /\ Begin(c)
  /\ call' = [call EXCEPT ![c] =
       [at |-> IF hal[p] = n THEN "cache" ELSE "hal", port |-> p, name |-> n,
        persist |-> persist, force |-> persist /\ force]]
  /\ UNCHANGED <<resolution, block, colour, saved, applied, paired, blocked, settled>>
SetResolutionHal(c) ==
  /\ call[c].at = "hal"
  /\ \/ /\ hal' = [hal EXCEPT ![call[c].port] = call[c].name]
        /\ Goto(c, [call[c] EXCEPT !.at = "cache"])
        /\ Changes(call[c].port)
     \/ Finish(c) /\ UNCHANGED <<hal, saved, applied, paired>>
  /\ UNCHANGED <<cache, store, block, colour, blocked, settled>>
updateCachedResolutionForPort(c) ==
  /\ call[c].at = "cache"
  /\ cache' = [cache EXCEPT ![call[c].port] = call[c].name]
  /\ IF call[c].persist THEN Goto(c, [call[c] EXCEPT !.at = "persist"]) ELSE Finish(c)
  /\ Changes(call[c].port)
  /\ UNCHANGED <<hal, store, block, colour, blocked, settled>>
\* (fault) Whatever the port, HDMI's property is written.
PersistAsHdmi(c) ==
  /\ call[c].at = "persist"
  /\ store' = [store EXCEPT !["HDMI"] = call[c].name]
  /\ cache' = [cache EXCEPT ![call[c].port] = call[c].name]
  /\ saved' = saved \cup {call[c].port} /\ applied' = applied
  /\ Goto(c, [call[c] EXCEPT !.at = "compat"])
  /\ UNCHANGED <<hal, block, colour, paired, blocked, settled>>
persistVideoPortResolution(c) ==
  /\ call[c].at = "persist"
  /\ LET p == call[c].port IN
       /\ store' = [store EXCEPT ![p] = call[c].name]
       /\ cache' = [cache EXCEPT ![p] = call[c].name]
       /\ saved' = (IF overlap THEN saved \ {p} ELSE saved \cup {p})
       /\ applied' = (IF overlap THEN applied \ {p} ELSE applied \cup {p})
  /\ Goto(c, [call[c] EXCEPT !.at = "compat"])
  /\ UNCHANGED <<hal, block, colour, paired, blocked, settled>>
\* (fault) The other port's name changes only when the change is forced.
CompatibleWhenForced(c) ==
  /\ call[c].at = "compat"
  /\ LET r == call[c]
         other == IF r.port = "HDMI" THEN "COMPONENT" ELSE "HDMI"
     IN IF r.force THEN /\ cache' = [cache EXCEPT ![other] = getCompatibleAnalogResolution(r.name)]
                        /\ store' = [store EXCEPT ![other] = getCompatibleAnalogResolution(r.name)]
        ELSE UNCHANGED <<cache, store>>
  /\ paired' = (call[c].port # "RF" /\ ~overlap)
  /\ Finish(c)
  /\ UNCHANGED <<hal, block, colour, saved, applied, blocked, settled>>
\* HDMI is compared with COMPONENT, every other port with HDMI.  The name
\* kept for the other port changes; its property only when forced, and never
\* for RF; its output keeps its mode.
compatibleResolution(c) ==
  /\ call[c].at = "compat"
  /\ LET r == call[c]
         other == IF r.port = "HDMI" THEN "COMPONENT" ELSE "HDMI"
         n == IF r.port = "HDMI" THEN getCompatibleAnalogResolution(r.name)
              ELSE getCompatibleHDMIResolution(r.name)
     IN IF IsCompatibleResolution(r.name, cache[other])
        THEN /\ UNCHANGED <<cache, store, saved, applied>>
             /\ paired' = IF r.port = "RF" THEN paired ELSE ~overlap
        ELSE /\ cache' = [cache EXCEPT ![other] = n]
             /\ store' = IF r.force /\ r.port # "RF" THEN [store EXCEPT ![other] = n] ELSE store
             /\ saved' = saved \ {other} /\ applied' = applied \ {other}
             /\ paired' = (r.port # "RF" /\ ~overlap)
  /\ Finish(c)
  /\ UNCHANGED <<hal, block, colour, blocked, settled>>
\* A read of HDMI with a display caches the output's resolution.
GetVideoPortResolution(c) ==
  /\ focus = "resolution" /\ connected /\ cache["HDMI"] # hal["HDMI"]
  /\ Begin(c)
  /\ cache' = [cache EXCEPT !["HDMI"] = hal["HDMI"]]
  /\ Changes("HDMI")
  /\ UNCHANGED <<hal, store, block, colour, call, blocked, settled>>

\* SetForceDisable4K: the HAL, then the property.
SetForceDisable4K(c, b) ==
  /\ focus = "block" /\ Begin(c)
  /\ \/ /\ no4k' = b
        /\ call' = [call EXCEPT ![c] = [at |-> "block", block |-> b]]
        /\ blocked' = "unknown"
     \/ UNCHANGED <<no4k, call, blocked>>
  /\ UNCHANGED <<resolution, store4k, colour, saved, applied, paired, settled>>
persistForceDisable4K(c) ==
  /\ call[c].at = "block"
  /\ store4k' = call[c].block
  /\ blocked' = IF overlap THEN "unknown" ELSE IF call[c].block THEN "yes" ELSE "no"
  /\ Finish(c)
  /\ UNCHANGED <<resolution, no4k, colour, saved, applied, paired, settled>>

\* SetPreferredColorDepth: ignored without a display; the depth the HAL has
\* already is only persisted; otherwise negotiated with the display.
SetPreferredColorDepth(c, d, persist) ==
  /\ focus = "depth" /\ connected
  /\ Begin(c)
  /\ call' = [call EXCEPT ![c] =
       [at |-> IF depth # d THEN "depth" ELSE "saveDepth", depth |-> d, persist |-> persist]]
  /\ UNCHANGED <<resolution, block, colour, saved, applied, paired, blocked, settled>>
setPreferredColorDepthHAL(c) ==
  /\ call[c].at = "depth"
  /\ \/ /\ depth' = getBestSupportedColorDepth(call[c].depth)
        /\ Goto(c, [call[c] EXCEPT !.at = "saveDepth"])
        /\ settled' = FALSE
     \/ Finish(c) /\ UNCHANGED <<depth, settled>>
  /\ UNCHANGED <<resolution, block, caps, storeDepth, saved, applied, paired, blocked>>
persistColorDepth(c) ==
  /\ call[c].at = "saveDepth"
  /\ storeDepth' = IF call[c].persist THEN call[c].depth ELSE storeDepth
  /\ settled' = (call[c].persist /\ ~overlap /\ ~hotplug)
  /\ Finish(c)
  /\ UNCHANGED <<resolution, block, caps, depth, saved, applied, paired, blocked>>
\* The depth as it is given, neither negotiated nor persisted.
SetVideoPortColorDepth(c, d) ==
  /\ focus = "depth" /\ Begin(c)
  /\ depth' \in {depth, d}
  /\ settled' = FALSE
  /\ UNCHANGED <<resolution, block, caps, storeDepth, call, saved, applied, paired, blocked>>

-----------------------------------------------------------------------------
Continue(c) ==
  \/ SetResolutionHal(c) \/ updateCachedResolutionForPort(c) \/ persistVideoPortResolution(c)
  \/ compatibleResolution(c) \/ persistForceDisable4K(c)
  \/ setPreferredColorDepthHAL(c) \/ persistColorDepth(c)
Next ==
  \/ InitialiseHAL \/ Restart \/ Plug \/ dsDisplayEventCallback
  \/ \E c \in Callers :
       \/ Continue(c) \/ GetVideoPortResolution(c)
       \/ \E p \in Ports, persist, force \in BOOLEAN : \E n \in NamesOf(p) :
            SetVideoPortResolution(c, p, n, persist, force)
       \/ \E b \in BOOLEAN : SetForceDisable4K(c, b)
       \/ \E d \in Depths, persist \in BOOLEAN : SetPreferredColorDepth(c, d, persist)
       \/ \E d \in Depths : SetVideoPortColorDepth(c, d)

Spec == Init /\ [][Next]_vars

-----------------------------------------------------------------------------
(* Properties.                                                             *)

\* A resolution a client persisted undisturbed is the one the adapter answers
\* with and, until another change or a restart, the one of the output; a
\* restart answers with it again.
ResolutionsAgree ==
  stage = "up" /\ Quiet =>
    \A p \in saved : cache[p] = store[p] /\ (p \in applied => hal[p] = cache[p])

\* After such a change of HDMI or COMPONENT the names kept for the two can be
\* shown together.
PairIsCompatible ==
  stage = "up" /\ Quiet /\ paired => IsCompatibleResolution(cache["HDMI"], cache["COMPONENT"])

\* Once a block of 4K is acknowledged, and after any restart, no call switches
\* an output to 4K until the block is lifted.
No4KWhileBlocked ==
  [][blocked = "yes" /\ blocked' = "yes" /\ ~overlap
     => \A p \in Ports : hal'[p] = "2160p" => hal[p] = "2160p"]_vars

\* A display gets the colour depth that was asked for and persisted, or the
\* best of its own when it cannot show that one: after a replug, a restart.
DepthIsReapplied ==
  stage = "up" /\ Quiet /\ ~hotplug /\ connected /\ settled => Reapplied(depth)
=============================================================================
