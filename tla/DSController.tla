---------------------------- MODULE DSController ----------------------------
(***************************************************************************)
(* The DSController of the DeviceSettings plugin (DSController.cpp): it    *)
(* keeps the resolution and the audio mode in step with the display.       *)
(*                                                                         *)
(* Threads and their program counters:                                     *)
(*   - main, the activation thread: Start, later the destructor (mainPc);  *)
(*   - RES, the resolution thread: waits on _mutexCond, handles hotplug;   *)
(*   - TUNE, the IARM event thread: TUNEREADY events;                      *)
(*   - HdcpThreads, the HAL callback threads that report HDCP status (the  *)
(*     display adapter and the video port adapter each have one);          *)
(*   - TIMER, the GLib main loop that runs delayed handlers;               *)
(*   - SYS, the IARM call thread, see DSAudioMode.                         *)
(* Only _displayEventStatus is guarded by _mutexLock.  A critical section  *)
(* touches that variable and the condition alone, so it is one step here;  *)
(* every other shared static is read and written without a lock, and each  *)
(* such access that another thread may come between is a step of its own.  *)
(* SetAudioMode is the sub-machine Audio.                                  *)
(***************************************************************************)
EXTENDS Naturals, Sequences, FiniteSets

CONSTANTS
  HdcpThreads,  \* HAL threads that deliver HDCP status callbacks
  VideoPorts,   \* subset of {"HDMI", "COMPONENT", "BB", "RF"}: the platform's
  InProcess,    \* the plugin's code stays loaded between two activations
  SYS, AudioPorts, AutoPorts, MaxSysMode, MaxClient,  \* see DSAudioMode
  MaxPlug,      \* bound: times the display is plugged or unplugged
  MaxHdcp,      \* bound: HDCP status callbacks
  MaxStops      \* bound: destructions of the controller

RES == "resolution"
TUNE == "iarmEvent"
TIMER == "mainLoop"
Callers == {RES, TUNE}

ASSUME ControllerAssumption ==
  /\ {RES, TUNE, TIMER, SYS} \cap HdcpThreads = {}
  /\ SYS \notin {RES, TUNE, TIMER}
  /\ VideoPorts \subseteq {"HDMI", "COMPONENT", "BB", "RF"}
  /\ InProcess \in BOOLEAN
  /\ MaxPlug \in Nat /\ MaxHdcp \in Nat /\ MaxStops \in Nat

AllThreads == {RES, TUNE, TIMER} \cup HdcpThreads
Resolvers == {RES, TIMER} \cup HdcpThreads   \* threads that set the resolution

VARIABLES
  mainPc,             \* "start", "query", "run", "signal", "join", "gone"
  exitFlag,           \* _dsMgr_thread_exit_flag
  displayEventStatus, \* _displayEventStatus, "none" for dsDISPLAY_EVENT_MAX
  tuneReady,          \* _tuneReady
  hdcpAuthenticated,  \* _hdcpAuthenticated
  bootupFlagEnabled,  \* _bootupFlagEnabled
  ignoreEdid,         \* _ignoreEdid
  hotplugEventSrc,    \* _hotplugEventSrc, 0 when none
  bgColor,            \* background colour of the HDMI port
  timers,             \* GLib sources of SetResolutionHandler still attached
  lastTimer,          \* the id g_timeout_add_seconds returned last
  firing,             \* the source whose handler the main loop dispatches
  pc,                 \* program counter of each thread
  taken,              \* edisplayEventStatusLocal of the resolution thread
  target,             \* port chosen by SetVideoPortResolution, per thread
  callback,           \* HDCP callback in progress: its status and its session
  edidReady,          \* the display answers EDID reads with modes, not DVI
  session,            \* history: number of the current display connection
  plug,               \* hotplug callback the HAL still has to deliver
  tuneState,          \* TUNEREADY as the system manager holds it
  lastSet,            \* session in which a port's resolution was last set
  untaken,            \* history: the status posted last was not taken yet
  authDone,           \* history: sessions whose HDCP success was handled
  count,              \* bound counters
  \* the audio state of DSAudioMode; connected is the HDMI hot-plug line
  easMode, stereoMode, persisted, connected, walk, disturbed, audioCount

Audio == INSTANCE DSAudioMode
         WITH Callers <- Callers, SYS <- SYS, AudioPorts <- AudioPorts, AutoPorts <- AutoPorts,
              MaxSysMode <- MaxSysMode, MaxClient <- MaxClient,
              easMode <- easMode, stereoMode <- stereoMode, persisted <- persisted,
              connected <- connected, walk <- walk, disturbed <- disturbed,
              audioCount <- audioCount

NoCallback == [auth |-> FALSE, session |-> 0]

flags == <<tuneReady, hdcpAuthenticated, bootupFlagEnabled, ignoreEdid>>
timerVars == <<hotplugEventSrc, timers, lastTimer, firing>>
envVars == <<edidReady, session, plug, tuneState, connected>>
audio == <<easMode, stereoMode, persisted, walk, disturbed, audioCount>>
history == <<untaken, authDone, count>>
mainVars == <<mainPc, exitFlag>>
locals == <<taken, target, callback>>
allButPc == <<mainVars, displayEventStatus, flags, bgColor, timerVars, locals,
              envVars, lastSet, history, audio>>
vars == <<allButPc, pc>>

Init ==
  /\ mainPc = "start" /\ exitFlag = FALSE
  /\ displayEventStatus = "none"
  /\ tuneReady = FALSE /\ hdcpAuthenticated = FALSE /\ bootupFlagEnabled = TRUE
  /\ ignoreEdid \in BOOLEAN
  /\ hotplugEventSrc = 0 /\ timers = {} /\ lastTimer = 0 /\ firing = 0
  /\ bgColor = "none"
  /\ pc = [t \in AllThreads |-> "idle"]
  /\ taken = "none"
  /\ target = [t \in Resolvers |-> "HDMI"]
  /\ callback = [t \in HdcpThreads |-> NoCallback]
  /\ connected \in BOOLEAN /\ edidReady \in BOOLEAN
  /\ session = IF connected THEN 1 ELSE 0
  /\ plug = "none"
  /\ tuneState \in BOOLEAN
  /\ lastSet = [p \in VideoPorts |-> 0]
  /\ untaken = FALSE /\ authDone = {}
  /\ count = [plug |-> 0, hdcp |-> 0, stops |-> 0]
  /\ Audio!AudioInit

-----------------------------------------------------------------------------
Goto(t, l) == [pc EXCEPT ![t] = l]

\* pthread_cond_signal: only a thread that is waiting notices it.
Signal(p) == IF p[RES] = "blocked" THEN [p EXCEPT ![RES] = "test"] ELSE p

-----------------------------------------------------------------------------
(* Faults the properties detect.                                           *)

\* The event is posted without the signal.
PostSilently(event) ==
  /\ displayEventStatus' = event
  /\ untaken' = TRUE
  /\ pc' = pc

\* The destructor raises the flag and joins without a signal.
DestroyWithoutSignal ==
  /\ mainPc = "signal" /\ mainPc' = "join"
  /\ UNCHANGED <<exitFlag, displayEventStatus, flags, bgColor, timerVars, pc,
                 locals, envVars, lastSet, history, audio>>

\* Success does not clear the screen.
AuthKeepsBg(t) ==
  /\ pc[t] = "authBg"
  /\ pc' = Goto(t, "decide")
  /\ UNCHANGED allButPc

\* The resolution waits for TUNEREADY, as in the resolution thread.
AuthDecideTuned(t) ==
  /\ pc[t] = "decide"
  /\ pc' = Goto(t, IF tuneReady /\ (~ignoreEdid \/ bootupFlagEnabled)
                   THEN "probe" ELSE "end")
  /\ UNCHANGED allButPc

\* SetAudioMode is entered again before it returned.
CallAudioTwice(t) ==
  /\ pc[t] \in {"audio", "audioWait"}
  /\ walk' = Audio!Enter(t, "SetAudioMode")
  /\ pc' = Goto(t, "audioWait")
  /\ UNCHANGED <<mainVars, displayEventStatus, flags, bgColor, timerVars,
                 locals, envVars, lastSet, history, easMode, stereoMode,
                 persisted, disturbed, audioCount>>

-----------------------------------------------------------------------------
\* Post a display event under _mutexLock and signal the resolution thread.
Post(event) ==
  /\ displayEventStatus' = event
  /\ pc' = Signal(pc)
  /\ untaken' = TRUE

-----------------------------------------------------------------------------
(* The main thread: Start, the destructor, a new activation.               *)

\* Start up to InitializeResolutionThread: the handlers are registered.
StartThread ==
  /\ mainPc = "start" /\ mainPc' = "query"
  /\ pc' = Goto(RES, "loop")
  /\ UNCHANGED <<exitFlag, displayEventStatus, flags, bgColor, timerVars,
                 locals, envVars, lastSet, history, audio>>

\* The tail of Start: TUNEREADY that came before is posted as a connection.
QueryTuneReady ==
  /\ mainPc = "query" /\ mainPc' = "run"
  /\ IF tuneState THEN /\ tuneReady' = TRUE
                       /\ Post("connected")
     ELSE UNCHANGED <<tuneReady, displayEventStatus, pc, untaken>>
  /\ UNCHANGED <<exitFlag, hdcpAuthenticated, bootupFlagEnabled, ignoreEdid,
                 bgColor, timerVars, locals, envVars, lastSet, authDone,
                 count, audio>>

\* ~DSController: the flag is raised before the lock is taken.
DestroyBegin ==
  /\ mainPc = "run" /\ mainPc' = "signal"
  /\ count.stops < MaxStops
  /\ count' = [count EXCEPT !.stops = @ + 1]
  /\ exitFlag' = TRUE
  /\ UNCHANGED <<displayEventStatus, flags, bgColor, timerVars, pc, locals,
                 envVars, lastSet, untaken, authDone, audio>>

DestroySignal ==
  /\ mainPc = "signal" /\ mainPc' = "join"
  /\ pc' = Signal(pc)
  /\ UNCHANGED <<exitFlag, displayEventStatus, flags, bgColor, timerVars,
                 locals, envVars, lastSet, history, audio>>

DestroyJoin ==
  /\ mainPc = "join" /\ mainPc' = "gone"
  /\ pc[RES] = "exited"
  /\ UNCHANGED <<exitFlag, displayEventStatus, flags, bgColor, timerVars, pc,
                 locals, envVars, lastSet, history, audio>>

\* The plugin is activated again in the same process: the statics keep their
\* values, the members are new.
Recreate ==
  /\ InProcess
  /\ mainPc = "gone" /\ mainPc' = "start"
  /\ \A t \in AllThreads \ {RES} : pc[t] = "idle"
  /\ walk[SYS] = Audio!NoWalk
  /\ pc' = Goto(RES, "idle")
  /\ easMode' = FALSE
  /\ UNCHANGED <<exitFlag, displayEventStatus, flags, bgColor, timerVars,
                 locals, envVars, lastSet, history, stereoMode, persisted, walk,
                 disturbed, audioCount>>

MainStep == DestroySignal \/ DestroyJoin

-----------------------------------------------------------------------------
(* The resolution thread: ResolutionThreadFunc.                            *)

ResLoop ==
  /\ pc[RES] = "loop"
  /\ pc' = Goto(RES, IF exitFlag THEN "exited" ELSE "test")
  /\ UNCHANGED allButPc

\* The inner loop, with _mutexLock held: wait, or copy the status.
ResTest ==
  /\ pc[RES] = "test"
  /\ IF ~exitFlag /\ displayEventStatus = "none"
     THEN pc' = Goto(RES, "blocked") /\ UNCHANGED <<taken, untaken>>
     ELSE /\ pc' = Goto(RES, "readSrc")
          /\ taken' = displayEventStatus
          /\ untaken' = FALSE
  /\ UNCHANGED <<mainVars, displayEventStatus, flags, bgColor, timerVars,
                 target, callback, envVars, lastSet, authDone, count,
                 audio>>

\* pthread_cond_wait may return without a signal.
SpuriousWakeup ==
  /\ pc[RES] = "blocked"
  /\ pc' = Goto(RES, "test")
  /\ UNCHANGED allButPc

\* The branches on the copied event, once the delayed handler is cancelled.
ResBranch ==
  /\ pc[RES] = "branch"
  /\ IF tuneReady /\ taken = "disconnected"
     THEN /\ hdcpAuthenticated' = FALSE
          /\ IF VideoPorts \cap {"COMPONENT", "BB"} # {}   \* isComponentPortPresent
             THEN /\ lastTimer' = lastTimer + 1
                  /\ timers' = timers \cup {lastTimer'}
                  /\ pc' = Goto(RES, "assignSrc")
             ELSE pc' = Goto(RES, "reset") /\ UNCHANGED <<lastTimer, timers>>
     ELSE /\ pc' = Goto(RES, IF ~(tuneReady /\ taken = "connected") THEN "reset"
                             ELSE IF hdcpAuthenticated THEN "probe" ELSE "audio")
          /\ UNCHANGED <<hdcpAuthenticated, lastTimer, timers>>
  /\ UNCHANGED <<mainVars, displayEventStatus, tuneReady, bootupFlagEnabled,
                 ignoreEdid, bgColor, hotplugEventSrc, firing, locals, envVars,
                 lastSet, history, audio>>

\* _hotplugEventSrc receives the id of the source just scheduled.
ResAssignSrc ==
  /\ pc[RES] = "assignSrc"
  /\ hotplugEventSrc' = lastTimer
  /\ pc' = Goto(RES, "reset")
  /\ UNCHANGED <<mainVars, displayEventStatus, flags, bgColor, timers,
                 lastTimer, firing, locals, envVars, lastSet, history, audio>>

\* The status is cleared under the lock whatever it has become meanwhile.
ResReset ==
  /\ pc[RES] = "reset" \/ (pc[RES] = "audioWait" /\ walk[RES] = Audio!NoWalk)
  /\ displayEventStatus' = "none"
  /\ pc' = Goto(RES, "loop")
  /\ UNCHANGED <<mainVars, flags, bgColor, timerVars, locals, envVars, lastSet,
                 history, audio>>

-----------------------------------------------------------------------------
(* Steps shared by several threads.                                        *)

\* if (_hotplugEventSrc) g_source_remove(_hotplugEventSrc): the resolution
\* thread and the HDCP handler both cancel the delayed handler this way.
ReadSrc(t) ==
  /\ pc[t] = "readSrc"
  /\ timers' = timers \ {hotplugEventSrc}
  /\ pc' = Goto(t, IF hotplugEventSrc # 0 THEN "zeroSrc"
                   ELSE IF t = RES THEN "branch" ELSE "authBg")
  /\ UNCHANGED <<mainVars, displayEventStatus, flags, bgColor, hotplugEventSrc,
                 lastTimer, firing, locals, envVars, lastSet, history, audio>>

\* ... and _hotplugEventSrc = 0.
ZeroSrc(t) ==
  /\ pc[t] = "zeroSrc"
  /\ hotplugEventSrc' = 0
  /\ pc' = Goto(t, IF t = RES THEN "branch" ELSE "authBg")
  /\ UNCHANGED <<mainVars, displayEventStatus, flags, bgColor, timers,
                 lastTimer, firing, locals, envVars, lastSet, history, audio>>

\* Where SetVideoPortResolution returns to.
AfterResolution(t) ==
  CASE t = RES -> "audio"
    [] t = TIMER -> "finish"
    [] OTHER -> IF callback[t].auth THEN "boot" ELSE "end"

\* The port SetVideoPortResolution falls back to without a display.
Analog ==
  IF "COMPONENT" \in VideoPorts THEN "COMPONENT"
  ELSE IF "BB" \in VideoPorts THEN "BB" ELSE "RF"

\* SetVideoPortResolution up to its choice of a port (100 ms, then
\* IsHDMIConnected); nothing is set on a platform without HDMI.
Probe(t) ==
  /\ pc[t] = "probe"
  /\ LET found == "HDMI" \in VideoPorts /\
                  (connected \/ VideoPorts \cap {"COMPONENT", "BB", "RF"} # {})
     IN IF found THEN /\ target' = [target EXCEPT ![t] = IF connected THEN "HDMI"
                                                         ELSE Analog]
                      /\ pc' = Goto(t, "set")
                 ELSE pc' = Goto(t, AfterResolution(t)) /\ UNCHANGED target
  /\ UNCHANGED <<mainVars, displayEventStatus, flags, bgColor, timerVars, taken,
                 callback, envVars, lastSet, history, audio>>

\* SetResolution: an HDMI display must answer the EDID read with modes.
SetResolution(t) ==
  /\ pc[t] = "set"
  /\ lastSet' = IF target[t] = "HDMI" => connected /\ edidReady
                THEN [lastSet EXCEPT ![target[t]] = session]
                ELSE lastSet
  /\ target' = [target EXCEPT ![t] = "HDMI"]     \* out of scope
  /\ pc' = Goto(t, AfterResolution(t))
  /\ UNCHANGED <<mainVars, displayEventStatus, flags, bgColor, timerVars, taken,
                 callback, envVars, history, audio>>

\* SetAudioMode is called by the resolution thread and by EventHandler.
CallAudio(t) ==
  /\ pc[t] = "audio"
  /\ Audio!CallSetAudioMode(t)
  /\ pc' = Goto(t, "audioWait")
  /\ UNCHANGED <<mainVars, displayEventStatus, flags, bgColor, timerVars,
                 locals, envVars, lastSet, history>>

-----------------------------------------------------------------------------
(* HandleHDCPStatus, reached from both adapters' callbacks.                *)

\* A success raises the flag first; a failure paints the screen blue first.
HdcpEvent(t, auth) ==
  /\ pc[t] = "idle" /\ mainPc # "gone"
  /\ auth => connected
  /\ count.hdcp < MaxHdcp
  /\ count' = [count EXCEPT !.hdcp = @ + 1]
  /\ callback' = [callback EXCEPT ![t] = [auth |-> auth, session |-> session]]
  /\ IF auth THEN /\ hdcpAuthenticated' = TRUE
                  /\ pc' = Goto(t, "readSrc")
                  /\ UNCHANGED bgColor
             ELSE /\ bgColor' = "blue"
                  /\ pc' = Goto(t, "failFlag")
                  /\ UNCHANGED hdcpAuthenticated
  /\ UNCHANGED <<mainVars, displayEventStatus, tuneReady, bootupFlagEnabled,
                 ignoreEdid, timerVars, taken, target, envVars, lastSet,
                 untaken, authDone, audio>>

\* Success: background off, then the resolution unless EDID is ignored and
\* this is not the first success since boot.
AuthBg(t) ==
  /\ pc[t] = "authBg"
  /\ bgColor' = "none"
  /\ pc' = Goto(t, "decide")
  /\ UNCHANGED <<mainVars, displayEventStatus, flags, timerVars, locals,
                 envVars, lastSet, history, audio>>

AuthDecide(t) ==
  /\ pc[t] = "decide"
  /\ pc' = Goto(t, IF ~ignoreEdid \/ bootupFlagEnabled THEN "probe" ELSE "end")
  /\ UNCHANGED <<mainVars, displayEventStatus, flags, bgColor, timerVars, locals,
                 envVars, lastSet, history, audio>>

AuthBoot(t) ==
  /\ pc[t] = "boot"
  /\ bootupFlagEnabled' = FALSE
  /\ pc' = Goto(t, "end")
  /\ UNCHANGED <<mainVars, displayEventStatus, tuneReady, hdcpAuthenticated,
                 ignoreEdid, bgColor, timerVars, locals, envVars, lastSet,
                 history, audio>>

\* Failure: flag down, then the resolution unless EDID is ignored.
FailFlag(t) ==
  /\ pc[t] = "failFlag"
  /\ hdcpAuthenticated' = FALSE
  /\ pc' = Goto(t, IF ignoreEdid THEN "end" ELSE "probe")
  /\ UNCHANGED <<mainVars, displayEventStatus, tuneReady, bootupFlagEnabled,
                 ignoreEdid, bgColor, timerVars, locals, envVars, lastSet,
                 history, audio>>

\* The EDID dump is scheduled and the status broadcast: the handler returns.
HdcpEnd(t) ==
  /\ pc[t] = "end"
  /\ pc' = Goto(t, "idle")
  /\ authDone' = IF callback[t].auth THEN authDone \cup {callback[t].session}
                 ELSE authDone
  /\ callback' = [callback EXCEPT ![t] = NoCallback]     \* out of scope
  /\ UNCHANGED <<mainVars, displayEventStatus, flags, bgColor, timerVars, taken,
                 target, envVars, lastSet, untaken, count, audio>>

-----------------------------------------------------------------------------
(* SetResolutionHandler, dispatched by the main loop.                      *)

TimerFire ==
  /\ pc[TIMER] = "idle" /\ mainPc # "gone"
  /\ \E i \in timers :
       /\ \A j \in timers : i <= j          \* all sources have the same delay
       /\ firing' = i
  /\ pc' = Goto(TIMER, "probe")
  /\ UNCHANGED <<mainVars, displayEventStatus, flags, bgColor, hotplugEventSrc,
                 timers, lastTimer, locals, envVars, lastSet, history, audio>>

\* The handler forgets the id of whatever source is scheduled now, and
\* returning FALSE detaches its own source.
TimerFinish ==
  /\ pc[TIMER] = "finish"
  /\ hotplugEventSrc' = 0
  /\ timers' = timers \ {firing}
  /\ firing' = 0
  /\ pc' = Goto(TIMER, "idle")
  /\ UNCHANGED <<mainVars, displayEventStatus, flags, bgColor, lastTimer,
                 locals, envVars, lastSet, history, audio>>

-----------------------------------------------------------------------------
(* EventHandler: TUNEREADY from the system manager.                        *)

TuneReadyEvent ==
  /\ pc[TUNE] = "idle" /\ mainPc # "gone"
  /\ ~tuneState /\ tuneState' = TRUE
  /\ tuneReady' = TRUE
  /\ pc' = IF tuneReady THEN pc ELSE Goto(TUNE, "audio")
  /\ UNCHANGED <<mainVars, displayEventStatus, hdcpAuthenticated,
                 bootupFlagEnabled, ignoreEdid, bgColor, timerVars, locals,
                 edidReady, session, plug, connected, lastSet, history, audio>>

\* The thread is signalled; the event it waits for is not posted.
TuneReadySignal ==
  /\ pc[TUNE] = "audioWait" /\ walk[TUNE] = Audio!NoWalk
  /\ pc' = [Signal(pc) EXCEPT ![TUNE] = "idle"]
  /\ UNCHANGED allButPc

-----------------------------------------------------------------------------
(* The display and its hotplug callback.                                   *)

\* A display is plugged or unplugged; the HAL will report it.
PlugToggle ==
  /\ plug = "none" /\ count.plug < MaxPlug
  /\ count' = [count EXCEPT !.plug = @ + 1]
  /\ connected' = ~connected
  /\ session' = IF connected THEN session ELSE session + 1
  /\ edidReady' \in BOOLEAN
  /\ plug' = IF connected THEN "disconnected" ELSE "connected"
  /\ UNCHANGED <<mainVars, displayEventStatus, flags, bgColor, timerVars, pc,
                 locals, tuneState, lastSet, untaken, authDone, 
                 audio>>

\* OnDisplayHDMIHotPlug.
OnDisplayHDMIHotPlug ==
  /\ plug # "none" /\ mainPc # "gone"
  /\ bgColor' = "none"
  /\ Post(plug)
  /\ plug' = "none"
  /\ UNCHANGED <<mainVars, flags, timerVars, locals, edidReady, session,
                 tuneState, connected, lastSet, authDone, count,
                 audio>>

-----------------------------------------------------------------------------
AudioStep ==
  /\ mainPc # "gone"
  /\ Audio!AudioStep
  /\ UNCHANGED <<mainVars, displayEventStatus, flags, bgColor, timerVars, pc,
                 locals, envVars, lastSet, history>>

WalkStep(t) ==
  /\ Audio!WalkStep(t)
  /\ UNCHANGED <<mainVars, displayEventStatus, flags, bgColor, timerVars, pc,
                 locals, envVars, lastSet, history>>

ResStep ==
  \/ ResLoop \/ ResTest \/ ResBranch \/ ResAssignSrc \/ ResReset
  \/ ReadSrc(RES) \/ ZeroSrc(RES) \/ Probe(RES) \/ SetResolution(RES)
  \/ CallAudio(RES)
  \/ WalkStep(RES)

HdcpStep(t) ==
  \/ ReadSrc(t) \/ ZeroSrc(t) \/ AuthBg(t) \/ AuthDecide(t)
  \/ Probe(t) \/ SetResolution(t) \/ AuthBoot(t) \/ FailFlag(t) \/ HdcpEnd(t)

TimerStep == Probe(TIMER) \/ SetResolution(TIMER) \/ TimerFinish

TuneStep == CallAudio(TUNE) \/ WalkStep(TUNE) \/ TuneReadySignal

Next ==
  \/ StartThread \/ QueryTuneReady \/ DestroyBegin \/ MainStep \/ Recreate
  \/ ResStep \/ SpuriousWakeup
  \/ \E t \in HdcpThreads : HdcpStep(t) \/ \E auth \in BOOLEAN : HdcpEvent(t, auth)
  \/ TimerFire \/ TimerStep
  \/ TuneReadyEvent \/ TuneStep
  \/ PlugToggle \/ OnDisplayHDMIHotPlug
  \/ AudioStep

Spec == Init /\ [][Next]_vars

\* A thread that is running keeps running; events, timers and spurious wakeups
\* may or may not come.
Fairness ==
  /\ WF_vars(StartThread \/ QueryTuneReady)
  /\ WF_vars(MainStep)
  /\ WF_vars(ResStep)
  /\ \A t \in HdcpThreads : WF_vars(HdcpStep(t))
  /\ WF_vars(TimerStep)
  /\ WF_vars(TuneStep)

FairSpec == Spec /\ Fairness

-----------------------------------------------------------------------------
(* Properties.                                                             *)

Locations == {"idle", "loop", "test", "blocked", "readSrc", "zeroSrc", "branch",
              "assignSrc", "probe", "set", "audio", "audioWait", "reset", "exited",
              "authBg", "decide", "boot", "failFlag", "end", "finish"}

\* Type invariant of the controller.
StatesOK ==
  /\ mainPc \in {"start", "query", "run", "signal", "join", "gone"}
  /\ displayEventStatus \in {"none", "connected", "disconnected"}
  /\ taken \in {"none", "connected", "disconnected"}
  /\ plug \in {"none", "connected", "disconnected"}
  /\ bgColor \in {"none", "blue"}

SwitchesOK ==
  /\ exitFlag \in BOOLEAN /\ untaken \in BOOLEAN
  /\ tuneReady \in BOOLEAN /\ hdcpAuthenticated \in BOOLEAN
  /\ bootupFlagEnabled \in BOOLEAN /\ ignoreEdid \in BOOLEAN
  /\ edidReady \in BOOLEAN /\ connected \in BOOLEAN /\ tuneState \in BOOLEAN

TimersOK ==
  /\ hotplugEventSrc \in Nat /\ lastTimer \in Nat /\ firing \in Nat
  /\ session \in Nat
  /\ timers \subseteq 1..lastTimer

PcOK ==
  /\ pc \in [AllThreads -> Locations]
  /\ target \in [Resolvers -> {"HDMI", "COMPONENT", "BB", "RF"}]
  /\ \A t \in Resolvers : pc[t] = "set" => target[t] \in VideoPorts

RecordsOK ==
  /\ callback \in [HdcpThreads -> [auth : BOOLEAN, session : Nat]]
  /\ lastSet \in [VideoPorts -> Nat]
  /\ authDone \subseteq Nat
  /\ count \in [plug : 0..MaxPlug, hdcp : 0..MaxHdcp, stops : 0..MaxStops]

TypeOK == StatesOK /\ SwitchesOK /\ TimersOK /\ PcOK /\ RecordsOK

\* The resolution thread never sleeps on an event or on the destructor: while
\* it is in pthread_cond_wait no status is posted, and if the exit flag is up
\* the destructor has its signal still to send (ResolutionThreadFunc, Post and
\* ~DSController agree on the lock, the predicate and the signal).
NoLostWakeup ==
  pc[RES] = "blocked" =>
    /\ displayEventStatus = "none"
    /\ exitFlag => mainPc = "signal"

\* HDCP success and failure may be handled at the same time by the two HAL
\* threads; an authenticated display is never left on the blue screen, because
\* success raises the flag before it clears the screen and failure paints it
\* before it drops the flag (HandleHDCPStatus).
BlueMeansUnauthenticated ==
  bgColor = "blue" /\ hdcpAuthenticated =>
    \E t \in HdcpThreads : pc[t] \in {"readSrc", "zeroSrc", "authBg", "failFlag"}

\* Every display that completes HDCP, stays connected and answers EDID reads has
\* its resolution set when the success has been handled, whatever the
\* resolution thread, the delayed handler and a concurrent failure do
\* (HandleHDCPStatus, "set resolution immediately").
AuthGetsResolution ==
  "HDMI" \in VideoPorts /\ connected /\ edidReady /\ ~ignoreEdid
    /\ session \in authDone
  => lastSet["HDMI"] = session

\* The destructor's pthread_join returns.
DestructorReturns == mainPc = "signal" ~> mainPc = "gone"

\* Start's comment: the resolution thread "will call SetVideoPortResolution()
\* when it is woken by ... HDMI hotplug": a posted status is not discarded before
\* the thread has taken it (a later one may replace it).
HotplugIsTaken == untaken => displayEventStatus # "none"

\* The controller drives the audio sub-machine only as DSAudioMode allows, as
\* long as it is not activated a second time in the same process.
ImplementsAudioMode == Audio!Spec
=============================================================================
