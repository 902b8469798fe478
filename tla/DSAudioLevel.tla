---------------------------- MODULE DSAudioLevel ----------------------------
(***************************************************************************)
(* Volume, mute and ducking of the audio HAL adapter (hal/dAudioImpl.h).   *)
(*                                                                         *)
(* Three parties touch the levels without a common lock: the API threads   *)
(* that set levels, mute, duck and enable ports; the thread that persists  *)
(* the cached levels, woken by a condition variable whose flag is set and  *)
(* notified without the mutex; and the start-up, which starts that thread  *)
(* before it fills the caches.  The ducking commands address the speaker.  *)
(***************************************************************************)
EXTENDS Naturals, FiniteSets

CONSTANTS
  LevelCallers, \* API threads
  MaxLevel,     \* levels are 0..MaxLevel; the statics start at 0
  DefaultLevel, \* level of a port with nothing persisted
  Boots,        \* what may be persisted when the model starts
  MaxCalls,     \* bound: API calls
  MaxRestarts   \* bound: restarts of the process

Levels == 0..MaxLevel
Ports == {"HDMI", "SPEAKER"}
None == MaxLevel + 1   \* nothing persisted; no HAL call to make

ASSUME LevelAssumption ==
  /\ MaxLevel \in Nat /\ DefaultLevel \in Levels /\ Boots \subseteq [Ports -> Levels \cup {None}]
  /\ MaxCalls \in Nat /\ MaxRestarts \in Nat

VARIABLES
  stage,       \* of the adapter: down, booting, up, stopping
  hal,         \* per port, the level in the HAL
  halMute,     \* per port, mute in the HAL
  halOn,       \* per port, enabled in the HAL
  cache,       \* g_audioLevelCacheHdmi and ...Speaker
  last,        \* g_LastVolumeLevel
  ducking,     \* _isDuckingInProgress
  duckLevel,   \* _volumeDuckingLevel
  muted,       \* _muteStatus
  store,       \* the persisted levels
  thread,      \* the persist thread: none, start, test, blocking, waiting, sleep, save
  prev,        \* its previous levels
  changed,     \* the ports whose previous level it is about to persist
  pending,     \* g_audioLevelPersistPending
  call,        \* per caller: what is left of its call
  overlap,     \* history: the call under way overlapped another
  levelDisturbed, \* history: some call did, since the last undisturbed SetAudioLevel
  calls, restarts \* bound counters

halState == <<hal, halMute, halOn>>
duckState == <<last, ducking, duckLevel, muted>>
threadState == <<thread, prev, changed, pending>>
bounds == <<calls, restarts>>
history == <<overlap, levelDisturbed>>
vars == <<stage, halState, cache, duckState, store, threadState, call, history, bounds>>

Idle == [op |-> "idle"]
Quiet == \A c \in LevelCallers : call[c] = Idle
Others(c) == \E d \in LevelCallers \ {c} : call[d] # Idle
Zero == [p \in Ports |-> 0]

AlInit ==
  /\ stage = "down"
  /\ hal \in [Ports -> {DefaultLevel}]
  /\ halMute = [p \in Ports |-> FALSE]
  /\ halOn \in [Ports -> {TRUE}]
  /\ cache = Zero /\ last = 0
  /\ ducking = FALSE /\ duckLevel = 0 /\ muted = FALSE
  /\ store \in Boots
  /\ thread = "none" /\ prev = Zero /\ changed = {} /\ pending = FALSE
  /\ call = [c \in LevelCallers |-> Idle] /\ overlap = FALSE /\ levelDisturbed = FALSE
  /\ calls = 0 /\ restarts = 0

-----------------------------------------------------------------------------
(* Start and stop.                                                         *)

startAudioLevelPersistThread ==
  /\ stage = "down"
  /\ stage' = "booting"
  /\ thread' = "start" /\ pending' = FALSE
  /\ UNCHANGED <<halState, cache, duckState, store, prev, changed, call, history, bounds>>

\* audioConfigInit: the persisted levels go to the caches and the HAL; the
\* last port of the sequence (HDMI) decides g_LastVolumeLevel.  Mute is
\* whatever the HAL comes up with.
Restored(p) == IF store[p] = None THEN DefaultLevel ELSE store[p]
RestoreLevels ==
  /\ stage = "booting"
  /\ stage' = "up"
  /\ cache' = [p \in Ports |-> Restored(p)]
  /\ hal' = cache'
  /\ last' = cache'["HDMI"]
  /\ halMute' \in {halMute, [p \in Ports |-> FALSE]}
  /\ UNCHANGED <<halOn, ducking, duckLevel, muted, store, threadState, call, history, bounds>>

\* The destructor, between two calls.  The notification reaches the thread
\* only if it waits already.
stopAudioLevelPersistThread ==
  /\ stage = "up" /\ Quiet /\ restarts < MaxRestarts
  /\ stage' = "stopping"
  /\ pending' = TRUE
  /\ thread' = IF thread = "waiting" THEN "test" ELSE thread
  /\ UNCHANGED <<halState, cache, duckState, store, prev, changed, call, history, bounds>>
ProcessStart ==
  /\ stage' = "down"
  /\ restarts' = restarts + 1
  /\ cache' = Zero /\ last' = 0 /\ ducking' = FALSE /\ duckLevel' = 0 /\ muted' = FALSE
  /\ thread' = "none" /\ prev' = Zero /\ changed' = {} /\ pending' = FALSE
  /\ call' = [c \in LevelCallers |-> Idle] /\ overlap' = FALSE /\ levelDisturbed' = FALSE
  /\ UNCHANGED <<halState, store, calls>>
Join == stage = "stopping" /\ thread = "none" /\ ProcessStart
Crash == stage # "down" /\ restarts < MaxRestarts /\ ProcessStart

-----------------------------------------------------------------------------
(* runAudioLevelPersistThread.                                             *)

Alive == stage \in {"booting", "up"}

ThreadStart ==
  /\ thread = "start"
  /\ prev' = cache
  /\ thread' = "test"
  /\ UNCHANGED <<stage, halState, cache, duckState, store, changed, pending, call, history, bounds>>

\* (fault) The alive flag is not tested after the wait.
ThreadTestsPendingOnly ==
  /\ thread = "test"
  /\ thread' = IF pending THEN "sleep" ELSE "blocking"
  /\ pending' = FALSE
  /\ UNCHANGED <<stage, halState, cache, duckState, store, prev, changed, call, history, bounds>>
\* The predicate of the wait, then the test of the alive flag.  A predicate
\* that is false leads to the wait in a step of its own.
ThreadTest ==
  /\ thread = "test"
  /\ \/ /\ ~Alive
        /\ thread' = "none" /\ UNCHANGED pending
     \/ /\ Alive /\ pending
        /\ pending' = FALSE
        /\ thread' = "sleep"
     \/ /\ Alive /\ ~pending
        /\ thread' = "blocking" /\ UNCHANGED pending
  /\ UNCHANGED <<stage, halState, cache, duckState, store, prev, changed, call, history, bounds>>

ThreadBlocks ==
  /\ thread = "blocking"
  /\ thread' = "waiting"
  /\ UNCHANGED <<stage, halState, cache, duckState, store, prev, changed, pending, call, history, bounds>>

\* After three seconds: the levels that differ from the previous ones are
\* loaded, then persisted.
LoadLevels ==
  /\ thread = "sleep"
  /\ changed' = {p \in Ports : cache[p] # prev[p]}
  /\ prev' = cache
  /\ thread' = "save"
  /\ UNCHANGED <<stage, halState, cache, duckState, store, pending, call, history, bounds>>

\* (fault) The pending flag is cleared after the levels are persisted.
PersistThenClear ==
  /\ thread = "save"
  /\ store' = [p \in Ports |-> IF p \in changed THEN prev[p] ELSE store[p]]
  /\ changed' = {}
  /\ thread' = "test" /\ pending' = FALSE
  /\ UNCHANGED <<stage, halState, cache, duckState, prev, call, history, bounds>>
persistAudioLevelIfChanged ==
  /\ thread = "save"
  /\ store' = [p \in Ports |-> IF p \in changed THEN prev[p] ELSE store[p]]
  /\ changed' = {}
  /\ thread' = "test"
  /\ UNCHANGED <<stage, halState, cache, duckState, prev, pending, call, history, bounds>>

-----------------------------------------------------------------------------
(* The API.                                                                *)

Begin(c) ==
  /\ stage = "up" /\ call[c] = Idle /\ calls < MaxCalls
  /\ calls' = calls + 1
  /\ overlap' = Others(c) /\ levelDisturbed' = (levelDisturbed \/ Others(c))
  /\ UNCHANGED <<stage, restarts>>
Finish(c) ==
  /\ call' = [call EXCEPT ![c] = Idle]
  /\ overlap' = (overlap /\ Others(c))
  /\ levelDisturbed' = (levelDisturbed /\ ~(call[c].op = "cache" /\ call[c].port = "HDMI" /\ ~overlap))
  /\ UNCHANGED <<stage, bounds>>
Then(c, r) ==
  /\ call' = [call EXCEPT ![c] = r]
  /\ UNCHANGED <<stage, history, bounds>>

\* SetAudioLevel: what the HAL is to be given is decided first; the speaker
\* keeps its ducking level, and needs no call when it has it.
SetAudioLevel(c, p, v) ==
  /\ Begin(c)
  /\ call' = [call EXCEPT ![c] = [op |-> "level", port |-> p, level |-> v, give |->
       IF p = "HDMI" \/ ~ducking THEN v ELSE IF hal[p] # duckLevel THEN duckLevel ELSE None]]
  /\ UNCHANGED <<halState, cache, duckState, store, threadState>>
LevelToHal(c) ==
  /\ call[c].op = "level"
  /\ \/ /\ hal' = IF call[c].give = None THEN hal ELSE [hal EXCEPT ![call[c].port] = call[c].give]
        /\ Then(c, [op |-> "cache", port |-> call[c].port, level |-> call[c].level])
     \/ call[c].give # None /\ Finish(c) /\ UNCHANGED hal
  /\ UNCHANGED <<halMute, halOn, cache, duckState, store, threadState>>
cacheAudioLevelForPersist(c) ==
  /\ call[c].op = "cache"
  /\ last' = call[c].level
  /\ cache' = [cache EXCEPT ![call[c].port] = call[c].level]
  /\ pending' = TRUE
  /\ thread' = IF thread = "waiting" THEN "test" ELSE thread
  /\ Finish(c)
  /\ UNCHANGED <<halState, ducking, duckLevel, muted, store, prev, changed>>

\* A read is also remembered as the last level.
GetAudioLevel(c, p) ==
  /\ Begin(c)
  /\ last' = hal[p]
  /\ UNCHANGED <<halState, cache, ducking, duckLevel, muted, store, threadState, call>>

\* (fault) Unmuting forgets the ducking in force.
CachedSpeakerLevel == cache["SPEAKER"]
\* Unmuting the speaker gives it the ducking or the cached level first; the
\* mute flag is one for all ports.
setAudioDuckingAudioLevel == IF ducking THEN duckLevel ELSE cache["SPEAKER"]
SetAudioMute(c, p, mute) ==
  /\ Begin(c)
  /\ \/ /\ hal' = IF p = "SPEAKER" /\ ~mute THEN [hal EXCEPT ![p] = setAudioDuckingAudioLevel] ELSE hal
        /\ call' = [call EXCEPT ![c] = [op |-> "mute", port |-> p, mute |-> mute]]
     \/ p = "SPEAKER" /\ ~mute /\ UNCHANGED <<hal, call>>
  /\ UNCHANGED <<halMute, halOn, cache, duckState, store, threadState>>
\* The property is written too, but nothing gives it back to the HAL.
MuteHal(c) ==
  /\ call[c].op = "mute"
  /\ \/ /\ halMute' = [halMute EXCEPT ![call[c].port] = call[c].mute]
        /\ muted' = call[c].mute
     \/ UNCHANGED <<halMute, muted>>
  /\ Finish(c)
  /\ UNCHANGED <<hal, halOn, cache, last, ducking, duckLevel, store, threadState>>

\* Enabling: the speaker as on unmute, but not while the HAL has it muted;
\* another port gets its cached level after it is enabled.
EnableAudioPort(c, p, on) ==
  /\ Begin(c)
  /\ \/ /\ hal' = IF p = "SPEAKER" /\ on /\ ~halMute[p]
                  THEN [hal EXCEPT ![p] = setAudioDuckingAudioLevel] ELSE hal
        /\ call' = [call EXCEPT ![c] = [op |-> "enable", port |-> p, on |-> on]]
     \/ p = "SPEAKER" /\ on /\ ~halMute[p] /\ UNCHANGED <<hal, call>>
  /\ UNCHANGED <<halMute, halOn, cache, duckState, store, threadState>>
\* (fault) An enabled port gets the last level, whichever port that was of.
EnableHalLastLevel(c) ==
  /\ call[c].op = "enable"
  /\ halOn' = [halOn EXCEPT ![call[c].port] = call[c].on]
  /\ hal' = IF call[c].on /\ call[c].port = "HDMI" THEN [hal EXCEPT !["HDMI"] = last] ELSE hal
  /\ Finish(c)
  /\ UNCHANGED <<halMute, cache, duckState, store, threadState>>
EnableHal(c) ==
  /\ call[c].op = "enable"
  /\ LET r == call[c] IN
       \/ /\ halOn' = [halOn EXCEPT ![r.port] = r.on]
          /\ hal' = IF r.on /\ r.port = "HDMI" THEN [hal EXCEPT ![r.port] = cache[r.port]] ELSE hal
       \/ UNCHANGED <<hal, halOn>>
  /\ Finish(c)
  /\ UNCHANGED <<halMute, cache, duckState, store, threadState>>

\* SetAudioDucking: START takes a part of the last level (a percentage, or an
\* absolute level capped by it), STOP the last level itself.
SetAudioDucking(c, start) ==
  /\ Begin(c)
  /\ ducking' = start
  /\ \E volume \in (IF start THEN 0..last ELSE {last}) :
       call' = [call EXCEPT ![c] = [op |-> "duck", level |-> volume, on |-> halOn["SPEAKER"]]]
  /\ UNCHANGED <<halState, cache, last, duckLevel, muted, store, threadState>>
\* Remembered only, while muted or disabled; otherwise given to the HAL
\* unless it is the level of the previous command.
DuckHal(c) ==
  /\ call[c].op = "duck"
  /\ LET v == call[c].level IN
       \/ /\ muted \/ ~call[c].on
          /\ duckLevel' = v /\ UNCHANGED hal
       \/ /\ ~muted /\ call[c].on /\ v # duckLevel
          /\ hal' = [hal EXCEPT !["SPEAKER"] = v] /\ duckLevel' = v
       \/ /\ ~muted /\ call[c].on
          /\ UNCHANGED <<hal, duckLevel>>
  /\ Finish(c)
  /\ UNCHANGED <<halMute, halOn, cache, last, ducking, muted, store, threadState>>

-----------------------------------------------------------------------------
Thread == ThreadStart \/ ThreadTest \/ ThreadBlocks \/ LoadLevels \/ persistAudioLevelIfChanged
Continue(c) ==
  LevelToHal(c) \/ cacheAudioLevelForPersist(c) \/ MuteHal(c) \/ EnableHal(c) \/ DuckHal(c)
AlNext ==
  \/ startAudioLevelPersistThread \/ RestoreLevels \/ stopAudioLevelPersistThread \/ Join \/ Crash
  \/ Thread
  \/ \E c \in LevelCallers :
       \/ Continue(c)
       \/ \E start \in BOOLEAN : SetAudioDucking(c, start)
       \/ \E p \in Ports :
            \/ GetAudioLevel(c, p)
            \/ \E v \in Levels : SetAudioLevel(c, p, v)
            \/ \E b \in BOOLEAN : SetAudioMute(c, p, b) \/ EnableAudioPort(c, p, b)

\* The constructor runs to its end, the thread is scheduled, and the
\* destructor's join returns when the thread has.
Fairness == WF_vars(RestoreLevels) /\ WF_vars(Thread) /\ WF_vars(Join)
AlSpec == AlInit /\ [][AlNext]_vars /\ Fairness

-----------------------------------------------------------------------------
(* Properties.                                                             *)

\* While ducking is in force no volume key, unmute or enabled port makes the
\* speaker louder than the ducking level: a change gives it that level.
DuckingHolds ==
  [][~levelDisturbed /\ ducking /\ ducking' /\ hal'["SPEAKER"] # hal["SPEAKER"]
     => hal'["SPEAKER"] = duckLevel']_vars

\* Unless calls overlapped, the HDMI output plays the level that is going to
\* be persisted - after an enabling, a ducking of the speaker, or a restart.
CachedLevelIsApplied ==
  stage = "up" /\ Quiet /\ ~levelDisturbed => hal["HDMI"] = cache["HDMI"]

\* A level a restart would not bring back is persisted or replaced - but for
\* one the thread took for its previous level when it started, and for a
\* notification that fell between the thread's test and its wait, which the
\* flag set without the mutex cannot prevent.
Unsaved(p) ==
  /\ stage = "up" /\ thread # "start"
  /\ cache[p] # Restored(p)
  /\ cache[p] # prev[p] \/ p \in changed
WakeupLost == thread = "waiting" /\ pending
LevelIsSaved == \A p \in Ports : Unsaved(p) ~> (~Unsaved(p) \/ WakeupLost)

\* The destructor's join ends, with the same exception.
StopReturns == stage = "stopping" /\ thread \notin {"blocking", "waiting"} ~> stage = "down"
=============================================================================
