---------------------------- MODULE DSHdmiOutput ----------------------------
(***************************************************************************)
(* The two adapters of the HDMI output's Binder service                    *)
(* (hal/dVideoPortAIDLImpl.cpp and hal/dVideoDeviceAIDLImpl.cpp).  Each    *)
(* opens a session of its own on the one output; both change its VIC, and  *)
(* both are told of every change.  No lock is held over a call; any Binder *)
(* call may fail and the service may restart, after which the proxies of   *)
(* an adapter stay dead.                                                   *)
(***************************************************************************)
EXTENDS Naturals

CONSTANTS
  HoCallers,    \* threads that serve clients
  MaxHoCalls,   \* bound: calls
  MaxHoFaults   \* bound: failed Binder calls, cable events, service restarts and re-creations

VARIABLES
  hoStage,   \* by adapter: the step of its creation or destruction, or up, closed
  linked,    \* adapters whose proxies reach the running service
  sessions,  \* service: adapters with a controller open
  hoListeners, \* service: adapters with an event listener registered
  vic, hoConnected, \* service: the video mode; a display is connected
  hoEvents,  \* by adapter: onFrameRateChanged to be handled
  hoRead,    \* by adapter: what the handler under way has read
  told,      \* by adapter: the mode its last post-change told
  hoSaved,   \* persisted: the resolution and force4KDisabled
  _persistedResolution, _force4KDisabled, \* the port adapter's copies
  hoCall,    \* by caller: what is left of the call
  hoSpoiled,   \* history: adapters whose close or unregister failed
  untold,    \* history: adapters whose last telling may not be the last mode
  crossed,   \* history: two persisted resolutions were under way together
  hoCalls, hoFaults \* bound counters

hoService == <<sessions, hoListeners, vic, hoConnected>>
hoTold == <<hoEvents, hoRead, told, untold>>
hoCache == <<_persistedResolution, _force4KDisabled>>
hoVars == <<hoStage, linked, hoService, hoTold, hoSaved, hoCache, hoCall, hoSpoiled, crossed,
            hoFaults, hoCalls>>

Adapters == {"port", "device"}
Modes == {[family |-> f, rate |-> r] : f \in {"1080p", "2160p"}, r \in {24, 60}}
         \cup {[family |-> "720p", rate |-> 60]}
Default == [family |-> "1080p", rate |-> 60]
NoHoCall == [step |-> "none"]
Nothing == [family |-> "none", rate |-> 0]

HoInit ==
  /\ hoStage = [a \in Adapters |-> "new"] /\ linked = {}
  /\ sessions = {} /\ hoListeners = {} /\ vic = Default /\ hoConnected \in BOOLEAN
  /\ hoEvents = [a \in Adapters |-> 0] /\ hoRead = [a \in Adapters |-> Nothing]
  /\ told = [a \in Adapters |-> Nothing] /\ untold = Adapters
  /\ hoSaved = [resolution |-> Default, no4K |-> FALSE]
  /\ _persistedResolution = Default /\ _force4KDisabled = FALSE
  /\ hoCall = [c \in HoCallers |-> NoHoCall]
  /\ hoSpoiled = {} /\ crossed = FALSE
  /\ hoCalls = 0 /\ hoFaults = 0

Fault == hoFaults < MaxHoFaults /\ hoFaults' = hoFaults + 1
\* A Binder call of adapter a, answered or not.
Binder(a, ok) ==
  /\ ok => a \in linked
  /\ IF ok \/ a \notin linked THEN UNCHANGED hoFaults ELSE Fault

-----------------------------------------------------------------------------
(* Opening and closing: the port's adapter is created and destroyed first. *)

To(a, stage) == hoStage' = [hoStage EXCEPT ![a] = stage]
HoLifecycle == UNCHANGED <<vic, hoConnected, hoTold, hoSaved, hoCall, crossed, hoCalls>>

GetHDMIOutput(a) ==
  /\ hoStage[a] = "new" /\ (a = "device" => hoStage["port"] \in {"up", "closed"})
  /\ \/ To(a, "listen") /\ linked' = linked \cup {a} /\ UNCHANGED hoFaults
     \/ To(a, "closed") /\ Fault /\ UNCHANGED linked
  /\ HoLifecycle /\ UNCHANGED <<sessions, hoListeners, hoCache, hoSpoiled>>
\* The answer is only logged.
RegisterEventListener(a) ==
  /\ hoStage[a] = "listen" /\ To(a, "open")
  /\ \E ok \in BOOLEAN : Binder(a, ok) /\ hoListeners' = IF ok THEN hoListeners \cup {a} ELSE hoListeners
  /\ HoLifecycle /\ UNCHANGED <<linked, sessions, hoCache, hoSpoiled>>
\* The service may refuse a second session on its output.
HoOpen(a) ==
  /\ hoStage[a] = "open"
  /\ \/ Binder(a, TRUE) /\ sessions' = sessions \cup {a} /\ To(a, "start")
     \/ /\ Binder(a, FALSE) \/ (sessions # {} /\ UNCHANGED hoFaults)
        /\ To(a, "unregister") /\ UNCHANGED sessions
  /\ HoLifecycle /\ UNCHANGED <<linked, hoListeners, hoCache, hoSpoiled>>
StartNoClose(a) == \* (fault) a session that does not start is left open
  /\ hoStage[a] = "start"
  /\ \E ok \in BOOLEAN : Binder(a, ok) /\ To(a, IF ok THEN "load" ELSE "closed")
  /\ HoLifecycle /\ UNCHANGED <<linked, sessions, hoListeners, hoCache, hoSpoiled>>
HoStart(a) ==
  /\ hoStage[a] = "start"
  /\ \E ok \in BOOLEAN : Binder(a, ok) /\ To(a, IF ok THEN "load" ELSE "stop")
  /\ HoLifecycle /\ UNCHANGED <<linked, sessions, hoListeners, hoCache, hoSpoiled>>
HoGetPersistenceValue(a) ==
  /\ hoStage[a] = "load" /\ To(a, "opened")
  /\ IF a = "port"
     THEN _persistedResolution' = hoSaved.resolution /\ _force4KDisabled' = hoSaved.no4K
     ELSE UNCHANGED hoCache
  /\ HoLifecycle /\ UNCHANGED <<linked, sessions, hoListeners, hoFaults, hoSpoiled>>
setAllCallbacks(a) ==
  /\ hoStage[a] = "opened" /\ To(a, "up")
  /\ HoLifecycle /\ UNCHANGED <<linked, sessions, hoListeners, hoFaults, hoCache, hoSpoiled>>

HoDeInitialiseHAL(a) ==
  /\ hoStage[a] = "up" /\ To(a, "stop")
  /\ hoFaults < MaxHoFaults \* left for the re-creation
  /\ \A c \in HoCallers : hoCall[c] = NoHoCall
  /\ IF a = "port" THEN hoStage["device"] \in {"up", "closed"} ELSE hoStage["port"] = "closed"
  /\ HoLifecycle /\ UNCHANGED <<linked, sessions, hoListeners, hoFaults, hoCache, hoSpoiled>>
\* CloseDevice: stop, close, unregister; what they answer is ignored.
CloseController(a) ==
  /\ hoStage[a] = "stop" /\ To(a, "unregister")
  /\ \E ok \in BOOLEAN :
       /\ Binder(a, ok)
       /\ sessions' = IF ok THEN sessions \ {a} ELSE sessions
       /\ hoSpoiled' = IF ok THEN hoSpoiled ELSE hoSpoiled \cup {a}
  /\ HoLifecycle /\ UNCHANGED <<linked, hoListeners, hoCache>>
UnregisterEventListener(a) ==
  /\ hoStage[a] = "unregister" /\ To(a, "closed")
  /\ \E ok \in BOOLEAN :
       /\ Binder(a, ok)
       /\ hoListeners' = IF ok THEN hoListeners \ {a} ELSE hoListeners
       /\ hoSpoiled' = IF ok THEN hoSpoiled ELSE hoSpoiled \cup {a}
  /\ HoLifecycle /\ UNCHANGED <<linked, sessions, hoCache>>
Recreate ==
  /\ hoStage = [a \in Adapters |-> "closed"] /\ Fault
  /\ hoStage' = [a \in Adapters |-> "new"] /\ linked' = {}
  /\ hoEvents' = [a \in Adapters |-> 0] /\ hoRead' = [a \in Adapters |-> Nothing]
  /\ untold' = Adapters
  /\ UNCHANGED <<hoService, told, hoSaved, hoCache, hoCall, hoSpoiled, crossed, hoCalls>>

-----------------------------------------------------------------------------
(* The service.                                                            *)

ServiceRestarts ==
  /\ Fault
  /\ linked' = {} /\ sessions' = {} /\ hoListeners' = {} /\ vic' = Default
  /\ hoEvents' = [a \in Adapters |-> 0] /\ untold' = Adapters
  /\ UNCHANGED <<hoStage, hoConnected, hoRead, told, hoSaved, hoCache, hoCall, hoSpoiled, crossed,
                 hoCalls>>
HoPlug ==
  /\ Fault
  /\ hoConnected' = ~hoConnected
  /\ UNCHANGED <<hoStage, linked, sessions, hoListeners, vic, hoTold, hoSaved, hoCache, hoCall,
                 hoSpoiled, crossed, hoCalls>>
\* A new mode is told to every open session.
ChangesTo(c, mode) ==
  /\ vic' = mode
  /\ hoEvents' = [a \in Adapters |-> IF a \in sessions THEN hoEvents[a] + 1 ELSE hoEvents[a]]

-----------------------------------------------------------------------------
(* The clients' calls.                                                     *)

HoServed(a) == hoStage[a] = "up" /\ \A b \in Adapters : hoStage[b] \in {"up", "closed"}
HoBegin(c, a, call) ==
  /\ HoServed(a) /\ hoCall[c] = NoHoCall /\ hoCalls < MaxHoCalls
  /\ hoCalls' = hoCalls + 1
  /\ hoCall' = [hoCall EXCEPT ![c] = call]
  /\ UNCHANGED <<hoStage, linked, hoService, hoTold, hoSaved, hoSpoiled, hoFaults>>
HoGoto(c, step) == hoCall' = [hoCall EXCEPT ![c].step = step]
HoDone(c) == hoCall' = [hoCall EXCEPT ![c] = NoHoCall]
HoCallLeaves == UNCHANGED <<hoStage, linked, sessions, hoListeners, hoConnected, hoSpoiled, hoCalls>>

SetVideoPortResolution(c, mode, persist) ==
  /\ HoBegin(c, "port", [step |-> "connected", adapter |-> "port", mode |-> mode, persist |-> persist])
  /\ crossed' = (crossed \/ (persist /\ \E d \in HoCallers : hoCall[d] # NoHoCall /\ hoCall[d].persist))
  /\ UNCHANGED hoCache
\* A display that does not answer counts as connected.
CheckConnected(c) ==
  /\ hoCall[c].step = "connected"
  /\ \E ok \in BOOLEAN :
       /\ Binder("port", ok)
       /\ IF (ok /\ ~hoConnected) \/ (_force4KDisabled /\ hoCall[c].mode.family = "2160p")
          THEN HoDone(c) ELSE HoGoto(c, "set")
  /\ HoCallLeaves /\ UNCHANGED <<vic, hoTold, hoSaved, hoCache, crossed>>
SetVic(c) ==
  /\ hoCall[c].step = "set"
  /\ \/ /\ Binder(hoCall[c].adapter, TRUE)
        /\ ChangesTo(c, hoCall[c].mode)
        /\ IF hoCall[c].adapter = "device" THEN HoGoto(c, "post")
           ELSE IF hoCall[c].persist THEN HoGoto(c, "persist") ELSE HoDone(c)
     \/ /\ Binder(hoCall[c].adapter, FALSE)
        /\ HoDone(c)
        /\ UNCHANGED <<vic, hoEvents>>
  /\ HoCallLeaves /\ UNCHANGED <<hoRead, told, untold, hoSaved, hoCache, crossed>>
\* The store may throw: then neither the store nor the copy changes.
PersistOrKeep(c) == \* (fault) the copy changes although the store threw
  /\ hoCall[c].step = "persist"
  /\ hoSaved' \in {hoSaved, [hoSaved EXCEPT !.resolution = hoCall[c].mode]}
  /\ HoGoto(c, "copy")
  /\ HoCallLeaves /\ UNCHANGED <<vic, hoTold, hoCache, crossed, hoFaults>>
persistHostProperty(c) ==
  /\ hoCall[c].step = "persist"
  /\ \/ hoSaved' = [hoSaved EXCEPT !.resolution = hoCall[c].mode] /\ HoGoto(c, "copy")
     \/ UNCHANGED hoSaved /\ HoDone(c)
  /\ HoCallLeaves /\ UNCHANGED <<vic, hoTold, hoCache, crossed, hoFaults>>
CopyResolution(c) ==
  /\ hoCall[c].step = "copy"
  /\ _persistedResolution' = hoCall[c].mode
  /\ HoDone(c)
  /\ HoCallLeaves /\ UNCHANGED <<vic, hoTold, hoSaved, _force4KDisabled, crossed, hoFaults>>

SetForceDisable4K(c, b) ==
  /\ HoBegin(c, "port", [step |-> "persist4K", adapter |-> "port", value |-> b, persist |-> FALSE])
  /\ _force4KDisabled' = b
  /\ UNCHANGED <<_persistedResolution, crossed>>
Persist4K(c) ==
  /\ hoCall[c].step = "persist4K"
  /\ hoSaved' = [hoSaved EXCEPT !.no4K = hoCall[c].value]
  /\ HoDone(c)
  /\ HoCallLeaves /\ UNCHANGED <<vic, hoTold, hoCache, crossed, hoFaults>>

\* The pre-change is told here; the failures below tell no post-change.
HoSetDisplayFrameRate(c, rate) ==
  /\ HoBegin(c, "device", [step |-> "rate", adapter |-> "device", rate |-> rate, persist |-> FALSE])
  /\ UNCHANGED <<hoCache, crossed>>
\* 720p is not in the table of frame rates.
FindByFamilyAndRate(mode, rate) ==
  {m \in Modes : m.family = mode.family /\ m.rate = rate /\ m.family # "720p"}
ReadVic(c) ==
  /\ hoCall[c].step = "rate"
  /\ \/ /\ Binder("device", TRUE)
        /\ \/ \E m \in FindByFamilyAndRate(vic, hoCall[c].rate) :
                hoCall' = [hoCall EXCEPT ![c] = [step |-> "set", adapter |-> "device", mode |-> m, persist |-> FALSE]]
           \/ FindByFamilyAndRate(vic, hoCall[c].rate) = {} /\ HoDone(c)
     \/ Binder("device", FALSE) /\ HoDone(c)
  /\ HoCallLeaves /\ UNCHANGED <<vic, hoTold, hoSaved, hoCache, crossed>>
\* The caller's own post-change may come after the one of a newer mode.
HoPostChange(c) ==
  /\ hoCall[c].step = "post"
  /\ told' = [told EXCEPT !["device"] = hoCall[c].mode]
  /\ untold' = IF vic # hoCall[c].mode \/ "device" \in untold THEN untold \cup {"device"} ELSE untold
  /\ HoDone(c)
  /\ HoCallLeaves /\ UNCHANGED <<vic, hoEvents, hoRead, hoSaved, hoCache, crossed, hoFaults>>

-----------------------------------------------------------------------------
(* The listeners: one event of a session at a time, the mode read anew.    *)

PersistedAnswer == _persistedResolution \* (fault) also for a connected display
GetVideoPortResolution == IF hoConnected THEN vic ELSE _persistedResolution
OnFrameRateChanged(a) ==
  /\ hoEvents[a] > 0 /\ hoRead[a] = Nothing
  /\ hoEvents' = [hoEvents EXCEPT ![a] = @ - 1]
  /\ \/ /\ Binder(a, TRUE) /\ hoStage[a] = "up"
        /\ hoRead' = [hoRead EXCEPT ![a] = IF a = "port" THEN GetVideoPortResolution ELSE vic]
        /\ untold' = IF a = "port" /\ ~hoConnected THEN untold \cup {a} ELSE untold \ {a}
     \/ /\ Binder(a, FALSE) \/ (hoStage[a] # "up" /\ UNCHANGED hoFaults)
        /\ untold' = untold \cup {a}
        /\ UNCHANGED hoRead
  /\ UNCHANGED <<hoStage, linked, hoService, told, hoSaved, hoCache, hoCall, hoSpoiled, crossed, hoCalls>>
OnResolutionPostChange(a) ==
  /\ hoRead[a] # Nothing
  /\ told' = [told EXCEPT ![a] = hoRead[a]]
  /\ hoRead' = [hoRead EXCEPT ![a] = Nothing]
  /\ UNCHANGED <<hoStage, linked, hoService, hoEvents, untold, hoSaved, hoCache, hoCall, hoSpoiled,
                 crossed, hoFaults, hoCalls>>

-----------------------------------------------------------------------------
HoNext ==
  \/ \E a \in Adapters :
       \/ GetHDMIOutput(a) \/ RegisterEventListener(a) \/ HoOpen(a) \/ HoStart(a)
       \/ HoGetPersistenceValue(a) \/ setAllCallbacks(a) \/ HoDeInitialiseHAL(a)
       \/ CloseController(a) \/ UnregisterEventListener(a)
       \/ OnFrameRateChanged(a) \/ OnResolutionPostChange(a)
  \/ Recreate \/ ServiceRestarts \/ HoPlug
  \/ \E c \in HoCallers :
       \/ \E m \in Modes, p \in BOOLEAN : SetVideoPortResolution(c, m, p)
       \/ CheckConnected(c) \/ SetVic(c) \/ persistHostProperty(c) \/ CopyResolution(c)
       \/ \E b \in BOOLEAN : SetForceDisable4K(c, b)
       \/ Persist4K(c)
       \/ \E r \in {24, 60} : HoSetDisplayFrameRate(c, r)
       \/ ReadVic(c) \/ HoPostChange(c)

HoSpec == HoInit /\ [][HoNext]_hoVars

-----------------------------------------------------------------------------
(* Properties.                                                             *)

\* An adapter that could not be opened, or was destroyed, leaves nothing with
\* the service, whichever of its calls failed, unless a close or an
\* unregistration itself was not answered.
NothingHeldWhenClosed ==
  \A a \in Adapters \ hoSpoiled : hoStage[a] = "closed" => a \notin sessions \cup hoListeners

\* When every event is handled, clients were last told the mode in force,
\* although callers, the two sessions and the handlers run in any order.
ToldIsCurrent ==
  \A a \in Adapters \ untold :
    hoStage[a] = "up" /\ hoEvents[a] = 0 /\ hoRead[a] = Nothing /\ hoCall \in [HoCallers -> {NoHoCall}]
      => told[a] = vic

\* With the display disconnected, the adapter answers the resolution that a
\* restart would load, also after a store that threw.
SavedResolutionIsAnswered ==
  HoServed("port") /\ ~crossed /\ ~hoConnected /\ (\A c \in HoCallers : hoCall[c] = NoHoCall) =>
    GetVideoPortResolution = hoSaved.resolution

\* The HDMI output's adapters leave nothing with its service when closed, and
\* answer the resolution a restart would load.
ClosedAndSaved == NothingHeldWhenClosed /\ SavedResolutionIsAnswered
=============================================================================
