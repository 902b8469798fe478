-------------------------- MODULE DSPwrEventListener --------------------------
(***************************************************************************)
(* The power event listener of the DeviceSettings plugin                   *)
(* (DSPwrEventListener.cpp) with the product profile it drives             *)
(* (DSProductTraitsHandler.cpp): AV ports, the power LED and the boot      *)
(* loader pattern follow the power mode.                                   *)
(*                                                                         *)
(* Threads:                                                                *)
(*   - the PowerManager plugin (external), which calls onPowerModeChanged; *)
(*   - EVENT, PwrEventHandlingThreadFunc: takes the queued modes;          *)
(*   - RETRY, PwrRetryEstablishConnThread: connects to the PowerManager    *)
(*     and applies the configuration after a reboot;                       *)
(*   - REASON, the detached ScheduleRebootReasonCheck thread (TV only);    *)
(*   - BOOT, the detached SetBootloaderPatternAsync thread;                *)
(*   - main, which runs Deinit.                                            *)
(* The queue, the stop flag and the profile's flags have a mutex each.     *)
(* SetAVPortsPowerState has none: it walks over the ports, one HAL call    *)
(* per step, on EVENT, RETRY and REASON.  What happens after Deinit has    *)
(* destroyed the mutexes is undefined in the code; here everything stops.  *)
(***************************************************************************)
EXTENDS Naturals, Sequences, FiniteSets

CONSTANTS
  Tv,           \* the profile: UXControllerTv, or else UXControllerStbEu
  VideoPorts,   \* the platform's video ports, in the order of the walk
  AudioPorts,   \* the platform's audio ports, in the order of the walk
  BootEnabled,  \* ports the HAL enables at boot
  Modes,        \* subset of {"ON", "OFF", "STANDBY", "LIGHT_SLEEP", "DEEP_SLEEP"}
  MaxRetries,   \* remaining_retries of SetBootloaderPatternAsync
  MaxModes,     \* bound: mode changes of the PowerManager
  MaxFailures   \* bound: failed calls of the PowerManager and of MFRLib

EVENT == "event"
RETRY == "retry"
REASON == "reason"
BOOT == "bootloader"

PortSeq == VideoPorts \o AudioPorts
Elements(s) == {s[i] : i \in DOMAIN s}
Walkers == {EVENT, RETRY, REASON}
Threads == Walkers \cup {BOOT}

ASSUME PwrAssumption ==
  /\ Tv \in BOOLEAN
  /\ VideoPorts \in Seq(STRING) /\ AudioPorts \in Seq(STRING)
  /\ Elements(VideoPorts) \cap Elements(AudioPorts) = {}
  /\ BootEnabled \subseteq Elements(PortSeq)
  /\ {"ON", "STANDBY"} \subseteq Modes
  /\ Modes \subseteq {"ON", "OFF", "STANDBY", "LIGHT_SLEEP", "DEEP_SLEEP"}
  /\ MaxRetries \in Nat \ {0} /\ MaxModes \in Nat /\ MaxFailures \in Nat

VARIABLES
  mode,        \* the PowerManager's mode
  lastMode,    \* the mode before the reboot, as the PowerManager knows it
  subscribed,  \* the listener is registered with the PowerManager
  notice,      \* onPowerModeChanged in progress: [at, mode]
  rebootType,  \* what GetRebootType finds: UNAVAILABLE, HARD or SOFT
  mainPc,      \* progress of Deinit
  stopThread,  \* _stopThread
  queue,       \* _pwrEventQueue: the newState of each event
  plugin,      \* _powerManagerPlugin is set
  registered,  \* _registeredPowerEventHandler
  curState,    \* _curState
  pc,          \* program counter per thread
  walk,        \* SetAVPortsPowerState in progress: its mode and next port
  enabled,     \* state of each AV port in the HAL
  led,         \* the power LED is on
  pattern,     \* the boot loader pattern in MFRLib
  wanted,      \* the pattern RETRY and BOOT set
  invalidate,  \* _invalidateAsyncBootloaderPattern
  retries,     \* remaining_retries
  firstDone,   \* _firstPowerTransitionComplete
  notified,    \* history: the mode posted last
  overlap,     \* history: the last event was applied while RETRY or REASON
               \* had still something to apply
  missed,      \* history: MFRLib refused the pattern of the last event
  count        \* bound counters

external == <<mode, lastMode, subscribed, rebootType>>
deinit == <<mainPc, stopThread>>
conn == <<plugin, registered, curState>>
ports == <<enabled, walk>>
boot == <<pattern, wanted, invalidate, retries>>
history == <<notified, overlap, missed>>
vars == <<external, notice, deinit, queue, conn, pc, ports, led, boot, firstDone,
          history, count>>

NoNotice == [at |-> "none", mode |-> "ON"]
NoWalk == [mode |-> "ON", i |-> 1]

Init ==
  /\ mode \in Modes /\ lastMode \in Modes
  /\ rebootType \in {"UNAVAILABLE", "HARD", "SOFT"}
  /\ subscribed = FALSE /\ notice = NoNotice
  /\ mainPc = "run" /\ stopThread = FALSE
  /\ queue = <<>>
  /\ plugin = FALSE /\ registered = FALSE /\ curState = "STANDBY"
  /\ pc = [t \in Threads |-> CASE t = EVENT -> "test" [] t = RETRY -> "check"
                               [] OTHER -> "none"]
  /\ walk = [t \in Walkers |-> NoWalk]
  /\ enabled = [p \in Elements(PortSeq) |-> p \in BootEnabled]
  /\ led \in BOOLEAN
  /\ pattern = "NORMAL" /\ wanted = "NORMAL"
  /\ invalidate = FALSE /\ retries = 0 /\ firstDone = FALSE
  /\ notified = "none" /\ overlap = FALSE /\ missed = FALSE
  /\ count = [mode |-> 0, fail |-> 0]

Goto(t, l) == [pc EXCEPT ![t] = l]
Fails == count.fail < MaxFailures /\ count' = [count EXCEPT !.fail = @ + 1]
Works == UNCHANGED count

\* pthread_cond_signal(&_pwrEventMutexCond)
Signal(p) == IF p[EVENT] = "blocked" THEN [p EXCEPT ![EVENT] = "test"] ELSE p

\* The pattern TV profiles ask for in a mode.
TvPattern(m) == IF m \in {"ON", "OFF"} THEN "NORMAL" ELSE "SILENT_LED_ON"
EventPattern(m) == IF m = "ON" THEN "NORMAL" ELSE "SILENT_LED_ON"

-----------------------------------------------------------------------------
(* Faults the properties detect.                                           *)

\* The event is queued and the signal left out.
SignalLost ==
  /\ notice.at = "signal" /\ mainPc # "gone"
  /\ notice' = NoNotice
  /\ UNCHANGED <<external, deinit, queue, conn, pc, ports, led, boot, firstDone,
                 history, count>>

\* The asynchronous pattern is not invalidated.
NoInvalidate ==
  /\ pc[EVENT] = "invalidate"
  /\ pc' = Goto(EVENT, "pattern")
  /\ UNCHANGED <<external, notice, deinit, queue, conn, ports, led, boot,
                 firstDone, history, count>>

\* The reboot reason is applied without a look at the flag.
ReasonAlways(t) == "sync"

\* Deinit raises the flag without a signal.
StopSilently ==
  /\ mainPc = "stop"
  /\ mainPc' = "join"
  /\ stopThread' = TRUE
  /\ pc' = pc
  /\ UNCHANGED <<external, notice, queue, conn, ports, led, boot, firstDone,
                 history, count>>

-----------------------------------------------------------------------------
(* The PowerManager: changes of the mode and onPowerModeChanged.           *)

\* The mode changes; a registered listener is told, one call at a time.
ChangeMode(m) ==
  /\ mainPc # "gone"
  /\ m # mode /\ notice = NoNotice /\ count.mode < MaxModes
  /\ mode' = m
  /\ count' = [count EXCEPT !.mode = @ + 1]
  /\ notice' = IF subscribed THEN [at |-> "enqueue", mode |-> m] ELSE NoNotice
  /\ UNCHANGED <<lastMode, subscribed, rebootType, deinit, queue, conn, pc, ports,
                 led, boot, firstDone, history>>

\* onPowerModeChanged, under _pwrEventQueueMutexLock.
Enqueue ==
  /\ notice.at = "enqueue" /\ mainPc # "gone"
  /\ queue' = Append(queue, notice.mode)
  /\ notice' = [notice EXCEPT !.at = "signal"]
  /\ notified' = notice.mode
  /\ UNCHANGED <<external, deinit, conn, pc, ports, led, boot, firstDone, overlap,
                 missed, count>>

\* onPowerModeChanged, under _pwrEventMutexLock.
SignalEvent ==
  /\ notice.at = "signal" /\ mainPc # "gone"
  /\ notice' = NoNotice
  /\ pc' = Signal(pc)
  /\ UNCHANGED <<external, deinit, queue, conn, ports, led, boot, firstDone,
                 history, count>>

\* The reboot reason service writes its file.
RebootInfoUpdated ==
  /\ rebootType = "UNAVAILABLE" /\ mainPc # "gone"
  /\ rebootType' \in {"HARD", "SOFT"}
  /\ UNCHANGED <<mode, lastMode, subscribed, notice, deinit, queue, conn, pc,
                 ports, led, boot, firstDone, history, count>>

-----------------------------------------------------------------------------
(* SetAVPortsPowerState, run by EVENT, RETRY and REASON.                    *)

StartWalk(t, m) == [walk EXCEPT ![t] = [mode |-> m, i |-> 1]]

\* Where a thread goes after its walk.
AfterWalk(t) ==
  CASE t = EVENT -> IF Tv THEN "invalidate" ELSE "led"
    [] t = RETRY -> "pattern"
    [] OTHER -> "done"

\* The next port: enabled in ON, disabled in every other mode (no port has a
\* standby setting: SetStandbyVideoState is not registered).  Before an audio
\* port is enabled its state is read in a call of its own.
WalkPort(t) ==
  LET p == PortSeq[walk[t].i]
      next == [walk EXCEPT ![t].i = @ + 1]
  IN
  /\ pc[t] = "walk"
  /\ IF walk[t].i \notin DOMAIN PortSeq
     THEN pc' = Goto(t, AfterWalk(t)) /\ UNCHANGED <<enabled, walk>>
     ELSE IF walk[t].mode = "ON" /\ p \in Elements(AudioPorts)
     THEN IF enabled[p] THEN pc' = Goto(t, "enable") /\ UNCHANGED <<enabled, walk>>
          ELSE walk' = next /\ UNCHANGED <<pc, enabled>>
     ELSE /\ enabled' = [enabled EXCEPT ![p] = walk[t].mode = "ON"]
          /\ walk' = next
          /\ UNCHANGED pc
  /\ UNCHANGED <<external, notice, deinit, queue, conn, led, boot, firstDone,
                 history, count>>

\* EnableAudioPort(handle, true) for a port whose state was read as enabled.
EnableAudio(t) ==
  /\ pc[t] = "enable"
  /\ enabled' = [enabled EXCEPT ![PortSeq[walk[t].i]] = TRUE]
  /\ walk' = [walk EXCEPT ![t].i = @ + 1]
  /\ pc' = Goto(t, "walk")
  /\ UNCHANGED <<external, notice, deinit, queue, conn, led, boot, firstDone,
                 history, count>>

WalkStep(t) == WalkPort(t) \/ EnableAudio(t)

-----------------------------------------------------------------------------
(* PwrEventHandlingThreadFunc and ApplyPowerStateChangeConfig.             *)

\* With _pwrEventMutexLock held: wait, leave, or go and take the events.
EventTest ==
  /\ pc[EVENT] = "test"
  /\ pc' = Goto(EVENT, IF stopThread THEN "exited"
                       ELSE IF queue = <<>> THEN "blocked" ELSE "drain")
  /\ UNCHANGED <<external, notice, deinit, queue, conn, ports, led, boot,
                 firstDone, history, count>>

SpuriousWakeup ==
  /\ pc[EVENT] = "blocked" /\ mainPc # "gone"
  /\ pc' = Goto(EVENT, "test")
  /\ UNCHANGED <<external, notice, deinit, queue, conn, ports, led, boot,
                 firstDone, history, count>>

\* The inner loop: the stop flag is not looked at until the queue is empty.
EventDrain ==
  /\ pc[EVENT] = "drain"
  /\ IF queue = <<>>
     THEN pc' = Goto(EVENT, "test") /\ UNCHANGED <<queue, walk>>
     ELSE /\ walk' = StartWalk(EVENT, Head(queue))
          /\ queue' = Tail(queue)
          /\ pc' = Goto(EVENT, "handle")
  /\ UNCHANGED <<external, notice, deinit, conn, enabled, led, boot, firstDone,
                 history, count>>

\* The TV profile notes the first transition; then the ports are walked.
EventHandle ==
  /\ pc[EVENT] = "handle"
  /\ firstDone' = (firstDone \/ Tv)
  /\ overlap' = (pc[RETRY] # "done" \/ pc[REASON] \in {"sync", "walk", "enable"})
  /\ pc' = Goto(EVENT, "walk")
  /\ UNCHANGED <<external, notice, deinit, queue, conn, ports, led, boot, notified,
                 missed, count>>

\* SyncPowerLedWithPowerState (STB).
EventLed ==
  /\ pc[EVENT] = "led"
  /\ led' = (walk[EVENT].mode = "ON")
  /\ pc' = Goto(EVENT, "drain")
  /\ UNCHANGED <<external, notice, deinit, queue, conn, ports, boot, firstDone,
                 history, count>>

\* SetBootloaderPatternInternal (TV): invalidate under the lock, set without it.
EventInvalidate ==
  /\ pc[EVENT] = "invalidate"
  /\ invalidate' = TRUE
  /\ pc' = Goto(EVENT, "pattern")
  /\ UNCHANGED <<external, notice, deinit, queue, conn, ports, led, pattern, wanted,
                 retries, firstDone, history, count>>

EventSetPattern ==
  /\ pc[EVENT] = "pattern"
  /\ \/ Works /\ pattern' = EventPattern(walk[EVENT].mode) /\ missed' = FALSE
     \/ Fails /\ missed' = TRUE /\ UNCHANGED pattern
  /\ pc' = Goto(EVENT, "drain")
  /\ UNCHANGED <<external, notice, deinit, queue, conn, ports, led, wanted,
                 invalidate, retries, firstDone, notified, overlap>>

EventStep ==
  \/ EventTest \/ EventDrain \/ EventHandle \/ EventLed
  \/ EventInvalidate \/ EventSetPattern \/ WalkStep(EVENT)

-----------------------------------------------------------------------------
(* ScheduleRebootReasonCheck: its first round on RETRY, the others on REASON. *)

\* The reason is there: look at the first-transition flag, under the lock.
AfterReason(t) == IF firstDone THEN AfterWalk(t) ELSE "sync"

RetryReason ==
  /\ pc[RETRY] = "reason"
  /\ pc' = IF rebootType = "UNAVAILABLE"
           THEN [pc EXCEPT ![RETRY] = "pattern", ![REASON] = "poll"]
           ELSE Goto(RETRY, AfterReason(RETRY))
  /\ UNCHANGED <<external, notice, deinit, queue, conn, ports, led, boot,
                 firstDone, history, count>>

\* The next round on REASON; without a reason it is the last of the 60 (the
\* rounds before it change nothing).
ReasonPoll ==
  /\ pc[REASON] = "poll"
  /\ pc' = Goto(REASON, IF rebootType = "UNAVAILABLE" THEN "done"
                        ELSE AfterReason(REASON))
  /\ UNCHANGED <<external, notice, deinit, queue, conn, ports, led, boot,
                 firstDone, history, count>>

\* SyncDisplayPortsWithRebootReason once the lock is released.
ReasonSync(t) ==
  /\ pc[t] = "sync"
  /\ walk' = StartWalk(t, IF rebootType = "HARD" THEN "STANDBY" ELSE "ON")
  /\ pc' = Goto(t, "walk")
  /\ UNCHANGED <<external, notice, deinit, queue, conn, enabled, led, boot,
                 firstDone, history, count>>

ReasonStep == ReasonPoll \/ ReasonSync(REASON) \/ WalkStep(REASON)

-----------------------------------------------------------------------------
(* PwrRetryEstablishConnThread and ApplyPostRebootConfig.                   *)

RetryCheck ==
  /\ pc[RETRY] = "check"
  /\ pc' = Goto(RETRY, IF plugin /\ registered THEN "fetch" ELSE "connect")
  /\ UNCHANGED <<external, notice, deinit, queue, conn, ports, led, boot,
                 firstDone, history, count>>

\* InitializePowerManager, step by step: createInterface ...
RetryConnect ==
  /\ pc[RETRY] = "connect"
  /\ (Works /\ plugin' = TRUE) \/ (Fails /\ plugin' = FALSE)
  /\ pc' = Goto(RETRY, "register")
  /\ UNCHANGED <<external, notice, deinit, queue, registered, curState,
                 ports, led, boot, firstDone, history>>

\* ... registerPowerEventHandler ...
RetryRegister ==
  /\ pc[RETRY] = "register"
  /\ IF plugin /\ ~registered THEN registered' = TRUE /\ subscribed' = TRUE
     ELSE UNCHANGED <<registered, subscribed>>
  /\ pc' = Goto(RETRY, "getState")
  /\ UNCHANGED <<mode, lastMode, rebootType, notice, deinit, queue, plugin,
                 curState, ports, led, boot, firstDone, history, count>>

\* ... and GetPowerState, whose failure changes nothing.
RetryGetState ==
  /\ pc[RETRY] = "getState"
  /\ \/ plugin /\ Works /\ curState' = mode
     \/ plugin /\ Fails /\ UNCHANGED curState
     \/ ~plugin /\ Works /\ UNCHANGED curState
  /\ pc' = Goto(RETRY, "check")
  /\ UNCHANGED <<external, notice, deinit, queue, plugin, registered, ports, led,
                 boot, firstDone, history>>

\* ApplyPostRebootConfig up to its walk: ON before the reboot and STANDBY now
\* puts the ports on, on a TV only after a soft reboot or with the force flag.
RetryFetch ==
  /\ pc[RETRY] = "fetch"
  /\ \E before \in {lastMode, "STANDBY"}, force \in BOOLEAN :
       LET wasOn == before = "ON" /\ curState = "STANDBY"
           defer == Tv /\ wasOn /\ ~force /\ rebootType = "UNAVAILABLE"
           target == IF ~wasOn THEN curState
                     ELSE IF Tv /\ ~force /\ rebootType = "HARD" THEN "STANDBY"
                     ELSE "ON"
       IN /\ walk' = IF defer THEN walk ELSE StartWalk(RETRY, target)
          /\ pc' = Goto(RETRY, IF defer THEN "reason" ELSE "walk")
  /\ wanted' = IF Tv THEN TvPattern(curState) ELSE "NORMAL"
  /\ UNCHANGED <<external, notice, deinit, queue, conn, enabled, led, pattern,
                 invalidate, retries, firstDone, history, count>>

\* SetBootloaderPatternFaultTolerant: at once, or by a detached thread.
RetrySetPattern ==
  /\ pc[RETRY] = "pattern"
  /\ \/ Works /\ pattern' = wanted /\ pc' = Goto(RETRY, "done")
     \/ Fails /\ pc' = Goto(RETRY, "spawn") /\ UNCHANGED pattern
  /\ UNCHANGED <<external, notice, deinit, queue, conn, ports, led, wanted,
                 invalidate, retries, firstDone, history>>

RetrySpawn ==
  /\ pc[RETRY] = "spawn"
  /\ invalidate' = FALSE
  /\ retries' = MaxRetries
  /\ pc' = [pc EXCEPT ![RETRY] = "done", ![BOOT] = "try"]
  /\ UNCHANGED <<external, notice, deinit, queue, conn, ports, led, pattern, wanted,
                 firstDone, history, count>>

RetryStep ==
  \/ RetryCheck \/ RetryConnect \/ RetryRegister \/ RetryGetState \/ RetryFetch
  \/ RetryReason \/ ReasonSync(RETRY) \/ WalkStep(RETRY)
  \/ RetrySetPattern \/ RetrySpawn

\* SetBootloaderPatternAsync: the lock is held across the check and the call.
BootTry ==
  /\ pc[BOOT] = "try"
  /\ IF invalidate THEN pc' = Goto(BOOT, "done") /\ Works /\ UNCHANGED <<pattern, retries>>
     ELSE \/ Works /\ pattern' = wanted /\ pc' = Goto(BOOT, "done") /\ UNCHANGED retries
          \/ Fails /\ retries' = retries - 1
               /\ pc' = Goto(BOOT, IF retries' = 0 THEN "done" ELSE "try")
               /\ UNCHANGED pattern
  /\ UNCHANGED <<external, notice, deinit, queue, conn, ports, led, wanted,
                 invalidate, firstDone, history>>

-----------------------------------------------------------------------------
(* Deinit.                                                                 *)

\* Unregister from the PowerManager; a call in progress is not waited for.
DeinitUnregister ==
  /\ mainPc = "run" /\ mainPc' = "stop"
  /\ subscribed' = (subscribed /\ ~plugin)
  /\ plugin' = FALSE /\ registered' = FALSE
  /\ UNCHANGED <<mode, lastMode, rebootType, notice, stopThread, queue, curState,
                 pc, ports, led, boot, firstDone, history, count>>

DeinitStop ==
  /\ mainPc = "stop" /\ mainPc' = "join"
  /\ stopThread' = TRUE
  /\ pc' = Signal(pc)
  /\ UNCHANGED <<external, notice, queue, conn, ports, led, boot, firstDone,
                 history, count>>

\* After the join the queue is emptied and the mutexes are destroyed.
DeinitJoin ==
  /\ mainPc = "join" /\ mainPc' = "gone"
  /\ pc[EVENT] = "exited"
  /\ queue' = <<>>
  /\ UNCHANGED <<external, notice, stopThread, conn, pc, ports, led, boot,
                 firstDone, history, count>>

DeinitStep == DeinitStop \/ DeinitJoin

-----------------------------------------------------------------------------
Next ==
  \/ \E m \in Modes : ChangeMode(m)
  \/ Enqueue \/ SignalEvent \/ RebootInfoUpdated \/ SpuriousWakeup
  \/ mainPc # "gone" /\ (EventStep \/ RetryStep \/ ReasonStep \/ BootTry)
  \/ DeinitUnregister \/ DeinitStep

Spec == Init /\ [][Next]_vars

\* A thread that is running keeps running; a callback that began ends.
Fairness ==
  /\ WF_vars(mainPc # "gone" /\ EventStep)
  /\ WF_vars(mainPc # "gone" /\ RetryStep)
  /\ WF_vars(Enqueue \/ SignalEvent)
  /\ WF_vars(DeinitStep)

FairSpec == Spec /\ Fairness

-----------------------------------------------------------------------------
(* Properties.                                                             *)

\* The event thread does not sleep over work: when it waits on the condition,
\* no stop was asked for, and a queued event has its signal still to come
\* (PwrEventHandlingThreadFunc, onPowerModeChanged and Deinit, which use two
\* mutexes between them).
NoLostWakeup ==
  pc[EVENT] = "blocked" =>
    /\ ~stopThread
    /\ queue # <<>> => notice.at = "signal"

\* Nothing the listener was told is still to be applied.
Quiescent ==
  /\ mainPc = "run" /\ notified # "none"
  /\ queue = <<>> /\ notice = NoNotice
  /\ pc[EVENT] \in {"test", "blocked", "drain"}

\* When every posted event is applied, the ports stand as the LAST one asks,
\* however the events were posted while earlier ones were applied, and whatever
\* the reboot reason check found since: video ports on exactly in ON, audio
\* ports off outside ON, and on a set-top box the power LED like the video
\* ports (HandlePwrEventData, SyncDisplayPortsWithRebootReason).  It is not
\* claimed of an event that RETRY or REASON could still overwrite.
PortsFollowLastEvent ==
  Quiescent /\ ~overlap =>
    /\ \A p \in Elements(VideoPorts) : enabled[p] = (notified = "ON")
    /\ notified # "ON" => \A p \in Elements(AudioPorts) : ~enabled[p]
    /\ ~Tv => led = (notified = "ON")

\* On a TV the boot loader pattern is the last event's too, although the thread
\* of SetBootloaderPatternAsync may be retrying an older one: it never sets its
\* pattern after SetBootloaderPatternInternal invalidated it.
PatternFollowsLastEvent ==
  Tv /\ Quiescent /\ ~overlap /\ ~missed => pattern = EventPattern(notified)

\* Every posted event is taken off the queue (or dropped by Deinit).
EventsAreTaken == queue # <<>> ~> queue = <<>>

\* Deinit returns: the event thread sees the flag in whatever state it is.
DeinitReturns == mainPc = "stop" ~> mainPc = "gone"

\* "Check if port should be enabled based on persistent settings" and "Enable
\* all ports": ON brings back the audio ports that are enabled at boot, that is
\* by their persistent setting.
OnEnablesAudio ==
  Quiescent /\ ~overlap /\ notified = "ON" =>
    \A p \in Elements(AudioPorts) \cap BootEnabled : enabled[p]
=============================================================================
