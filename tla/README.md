# DeviceSettings: a TLA+ model

This directory models the DeviceSettings Thunder plugin (`src/plugin`): what its
threads, callbacks, clients and external services may do to each other's state,
and what a crash or a failing call leaves behind.  TLC checks the models on
small instances; TLAPS proves the safety properties for every instance.

## The system

The plugin puts the device settings HAL of a set-top box or TV behind COM-RPC
interfaces.

| Part | State | Operations | Interaction |
|---|---|---|---|
| `DeviceSettings` (`DeviceSettings.cpp`) | connection, interface pointers | Initialize, Deinitialize, Deactivated | creates the implementation, in or out of process |
| `DeviceSettingsImp` | component pointers, configuration cache | one method per API call | forwards to the components; creates and deletes `DSController` |
| `DSController` | hotplug status, exit flag, HDCP, TUNEREADY, boot and EAS flags, GLib source | Start, destructor, HDCP callback, hotplug callback, TUNEREADY, SysModeChange | resolution thread, HAL threads, IARM threads, GLib timer; calls the video port, display and audio components |
| `DSPwrEventListener` | event queue, power state, connection to PowerManager | Init, Deinit, onPowerModeChanged | event thread and retry thread; switches ports and LED |
| `DSProductTraitsHandler` | boot loader pattern, first power transition, deferred checks | post-reboot and power-change configuration | called by the listener, starts threads of its own |
| Components (`DeviceSettings*Implementation`) | lists of notification sinks | Register, Unregister, On*, one method per API call | fan HAL events out to the clients |
| Facades (`Audio.cpp`, `VideoPort.cpp`, ...) | pointer to the HAL adapter | one method per API call | choose the legacy or the AIDL adapter |
| Legacy HAL adapters (`hal/d*Impl.h`) | cached and persisted settings | one method per API call | call the `ds*` HAL and HostPersistence |
| AIDL HAL adapters (`hal/d*AIDLImpl.cpp`) | proxies, active port | one method per API call | Binder services |
| HAL configuration, HDMI status file, HAL factory | tables, a text file, a look-up cache | populate, sync, look up | used while constructing and by HAL callbacks |

What is hard in this code:

* The statics of `DSController` are shared by five threads with one mutex around
  some of them; the power listener waits under one mutex and queues under
  another; the traits handler starts threads that write what an event also
  writes; the audio levels are persisted by a thread whose flag is set without
  its mutex.
* Registries call clients outside their lock, while clients register, leave and
  call back.
* Most setters are a HAL call, a cache and a persisted property, in several steps
  and without a lock; the process may die between any two.
* The AIDL adapters make several Binder calls to a service that may fail or
  restart in between.
* Static flags outlive the objects they describe when the plugin is activated
  again in one process.

`PROJECT.json` lists the hazards, each at its line and with the properties that
would catch it going wrong.

What makes each part correct, in short: no wakeup and no event is lost; the last
event wins; what was acknowledged is in the hardware, in the cache and on disk;
a failed sequence of calls leaves nothing half done; whoever is told of a
beginning is told of an end; nothing is called after it is gone.

## The modules

### `DSAudioMode`: stereo modes and emergency alerts

`SetAudioMode`, `SetEASAudioMode` and `SysModeChange` of `DSController.cpp`
over the modes `dAudioImpl.h` keeps per port.  Each function walks over the
ports without a lock; a walk is the record `walk[t]`, and testing `_easMode`,
reading a port and writing it are separate steps.  Clients set modes at any
time, the display comes and goes.

### `DSController`: hotplug, HDCP, resolution

One program counter per thread: the resolution thread `RES`, the HAL's hotplug
thread, the HDCP threads, the TUNEREADY handler, the GLib timer and the
thread that runs Start and the destructor.  `_mutexLock` sections are single
steps; reads and writes outside them (`_hotplugEventSrc`, `_hdcpAuthenticated`,
the background colour) are steps of their own.  `Signal` models the condition:
a signal wakes only a thread that waits, and `SpuriousWakeup` wakes it without
one.  The audio walks are those of `DSAudioMode`, instantiated as `Audio`.
`SetResolution` is abstracted to "the port is set in this session of the
display", under the guards of `SetVideoPortResolution`.
`InProcess` says whether a second activation happens in the same process, where
the statics keep their values.

### `DSPwrEventListener`: power modes

The listener with the traits handler of the profile (`Tv`).  `EVENT` is the
event thread, `RETRY` the thread that connects to PowerManager and applies the
post-reboot configuration, `REASON` the deferred reboot-reason check and `BOOT`
the asynchronous boot loader pattern.  `SetAVPortsPowerState` is a walk, one
step per port.  A call to another plugin may fail up to `MaxFailures` times.

### `DSVideoPortNotifier`: announcing a resolution change

`SetVideoPortResolution` of `dVideoPortImpl.h` announces the change to the
listed sinks on its own thread, asks the hardware and submits a job that
announces the end on the worker pool.  The registry is that of
`DeviceSettingsVideoPortImplementation.cpp`, with every reference count.
`Snapshot` is the section under `_callbackLock`; `Call` and `ReleaseSink` are
outside it.  `dispatchVideoPortEvent` and `Dispatch` are the same steps on a
caller's and on a worker's thread.

### `DCompositeInAIDL`: selecting a composite input

`SelectCompositeInPort`, `StopActivePort` and `DeInitialiseHAL` of
`dCompositeInAIDLImpl.cpp`, one step per Binder call.  The service is another
process: every call may fail, and the service may die at any moment and return
as a new instance that the old proxies do not reach.

`DSAnnouncement` is the abstract specification of this: per change, who must be
told, who was told of its beginning, whether the hardware was asked, who heard
of its end.  `ImplementsAnnouncement` maps the notifier's histories to it; lists,
copies, references, threads and jobs disappear in the mapping.

### `DSAudioSettings`: every persisted audio setting

The setters of `dAudioImpl.h`, one per setting, and `audioConfigInit`, which a
restart runs.  A setter is the HAL call and then the property, under a key that
depends on the MS12 profile of that later moment; calls of different clients and
a crash come between.  The settings do not read each other, so `focus` chooses
one of them in the initial state.  `Restored(p)` says which of them the start-up
sequence brings back in which configuration (`supported`, `override`): the
answer differs for every setting, and that is how the code has it.  Dialog,
leveller and virtualizer, for example, come back only on a platform without
profiles or with an override for the active one (`dAudioImpl.h:4677`).

### `DSAudioLevel`: volume, mute and ducking

The API threads, the thread that persists cached levels after three seconds and
the start-up that fills the caches.  The thread's test of
`g_audioLevelPersistPending` and its wait are separate steps, and the setters raise the flag without the
mutex, so a notification may fall between the two; the properties say what
still holds (`WakeupLost`).  `disturbed` marks that calls overlapped.

### `DSVideoPortResolution`: resolutions, 4K block, colour depth

Setting a resolution in `dVideoPortImpl.h`: the checks, the HAL, the cache, the
property and the compatible resolution of the other port, as separate steps,
with displays that come and go and restarts.  `focus` separates the colour
depth, the 4K block and the resolutions where they do not read each other.

### `DSHdmiIn`: EDID version, ALLM and VRR of an HDMI input

One port, one call at a time (the component's lock), each a sequence of HAL
calls, cache and property that may fail or be cut by a crash.  A creation in the
same process finds `m_hdmiInInitialized` set and restores nothing.

### `DSDisplay`: EDID caches and the status file

A client's fill of a cache under `dsDisplayLock` against the HAL's disconnection
event, which empties the caches without it; and the rewriting of the HDMI status
file by the start-up, the display's event thread and the HDCP callback.

### `DSVideoDevice`: zoom, HDR, display frame rate

The legacy adapter: HAL, cache and property in three steps for each of several
clients, and the announcement of a frame rate change around its HAL call.

### `DSFrontPanel`: indicators

`dFPDImpl.h`: the lazy, repeated initialisation of the HAL, the persisted
brightness it loads, and the indicators switched on with it.

### `DSHdmiOutput`: two adapters of one service

`dVideoPortAIDLImpl.cpp` and `dVideoDeviceAIDLImpl.cpp` open a session each on
the same HDMI output, with the undoing of a partial opening, change its video
mode and are both told of every change.

### `DSPlugin`: life cycle

`Initialize`, `Deinitialize` and `Deactivated` of `DeviceSettings.cpp` as lists
of steps (`todo`), with the implementation's process, which may die between any
two, references that clients keep, the framework's notifications and the job
that deactivates the plugin.

### `DSHalEvents`: from the HAL to the clients

The three components that dispatch on the HAL's thread (HDMI inputs, composite
inputs, audio): `facade` chooses one.  Construction and destruction of the
facade, member by member, the static flags and callbacks that outlive it, the
copy of the list under `_callbackLock`, and clients that register, leave and
send requests from their handlers.  Events are numbered as they are dispatched;
`since[s]` is the number of the last one before `s` registered, and `heard[s]`
keeps the numbers it was called with since then.

### The modules TLC runs

`DSAdapters`, `MCSettings` and `MCLifecycle` put modules that share no state
next to each other: `turn` is chosen initially and only that one runs, while the
others stay in one initial state.  The reachable states are the sum of those of
the parts, so the theorems about the parts are the theorems about these modules'
properties.  The modules are extended together and therefore name apart what
they have in common, with a prefix (`In`, `Ci`, `Fp`, `Vd`, `Dp`, `Ho`, `As`,
`Al`, `He`, `Pl`) before the code's name where needed: `VdGetPersistenceValue`
is the video device's `getPersistenceValue`.  `MCAdapters`, `MCDSController`,
`MCDSPwrEventListener` and `MCDSAudioLevel` only name constants.

## What is checked

| Run | Question | Answer |
|---|---|---|
| `adapters` | Do the HAL, the caches and the persisted values of each adapter stay in agreement, whichever call fails and wherever the process or service dies? Does an alert keep its ports out of passthrough? Is at most one composite input open? | Yes, with the exceptions the properties name: calls that overlapped on one setting, a releasing call that itself failed, a disconnection during the fill of a cache, two overlapping rewrites of the status file. |
| `settings` | Are applied, cached, persisted and restored values the same, for resolutions, colour depth, the 4K block and every audio setting? | Yes for undisturbed calls; `Restored` says which audio settings a restart brings back. |
| `audio_level` | Is the level in the cache the one that plays and will be persisted, does ducking hold, and does the persisting thread neither lose a level nor its stop? | Yes, but for a notification between its test and its wait. |
| `hdcp` | Do two HDCP results handled at once leave a display authenticated and blue? | No. |
| `hotplug` | Is a wakeup lost, or an authenticated display left without its resolution? | No, over two plug events, a second activation and two port types. |
| `controller_live` | Does the destructor return, and is the audio state driven only as `DSAudioMode` allows? | Yes, under thread fairness. |
| `power_tv` | Do ports and boot loader pattern end as the last event asks? | Yes, unless a thread with an older state was applying it at the same time (`overlap`). |
| `power_stb` | Are all events taken, and does Deinit return? | Yes. |
| `lifecycle` | Do sinks live as long as they are called and no longer, do clients hear everything in order and of both ends of a change as `DSAnnouncement` promises, does an event find its facade, and does a plugin that goes down leave nothing behind? | Yes. |
| `lost_hotplug` | Is every posted hotplug taken? | No: the reset at the end of the loop erases one that arrived during it. |
| `power_audio` | Does ON bring audio ports back? | No: it asks the HAL's present state, which a standby has switched off. |
| `hdmi_events` | Do the HDMI inputs' callbacks lead to a component that was created again? | No: a static flag keeps the first binding. |

The three violated properties quote a comment or a guideline; `PROJECT.json` has
the quotations.  Every other property has a mutant there: a definition of the
model is replaced by one with a plausible bug, written next to it in the module,
and the property fails.

### Other disagreements between code and text

Met while modelling, each visible in the model but without a run of its own:

* `DSController.cpp:998` says TUNEREADY will "Un-block the Resolution Settings
  Thread"; it signals without a status, and the thread goes back to sleep.
* `SelectCompositeInPort` answers `ERROR_NONE` to a stop although the service is
  gone, where `COMPOSITE_INPUT_ARCHITECTURE.md:338` has the loss reported.
* A fill of the EDID cache that overlaps a disconnection leaves the old sink's
  EDID, against the comment at `dDisplayImpl.h:804`.
* The AIDL adapter announces a frame rate change to come and, on several failing
  paths, never its end (`dVideoDeviceAIDLImpl.cpp:425`).
* `VIDEOPORT_VIDEODEVICE_ARCHITECTURE.md:476` calls the 4K block of the AIDL
  adapter a logged no-op; the code enforces it.
* The job of `Deactivated` names the plugin and not the connection
  (`DeviceSettings.cpp:431`): run late, it takes down a later activation.
* A client's reference keeps an earlier implementation alive beside the new one
  (`DeviceSettings.cpp:407`), and both drive the HAL.
* Of the registries only the video port's releases its sinks in its destructor.

### Bounds, and why they are enough

* Threads: two HDCP threads for the races between success and failure; one of
  each other kind exists in the code.  Two clients wherever clients may overlap:
  all conflicts here are between two steps of two calls.  Two callers and two
  workers in the notifier, so that changes overlap and jobs overtake each other.
* Ports: two video ports let the HDMI and the analog branch both happen; two
  composite ports let a selection replace another; each audio setting has
  the ports its property distinguishes.
* Controller: `MaxPlug` = 2 allows unplug and replug while the thread works,
  `MaxHdcp` = 3 a success, a failure and a repeated success, `MaxStops` = 1 a
  deactivation followed by an activation.
* Power: `MaxModes` = 2 lets an event overtake the start-up state and a second
  event overtake the first; `MaxFailures` = 3 lets the connection, the pattern
  and the reboot reason fail once each.
* Settings: `MaxCalls` = `MaxSetCalls` = 3 is two overlapping calls and one that
  follows; one replug, one restart; two values tell an old one from a new one,
  two profiles a switch from a return.
* Levels: 0 and 1 with "nothing persisted", three calls, one restart.
* `MaxSysMode` = 3 is an alert, its end and a second alert; `MaxClient` = 1.
* HDMI input: four calls (both bits, the version, and one of them again) and two
  restarts; video device and front panel: three calls, with one and two restarts;
  display: three cable events, two calls, one re-creation; HDMI output: two calls
  and one fault of any kind.
* Composite input: `MaxCalls` = 4, `MaxFaults` = 2, `MaxRestarts` = 2: one call
  of the selection and one of its undoing fail, and a restart hits during both.
* Life cycle: two sinks; `MaxChanges` = 2 and `MaxRegister` = 2 let a sink leave
  and return between two changes; two creations of a facade, two events, three
  requests; two activations, one interface missing.

`CHECK_DEADLOCK FALSE` stands where the system really stops: after a destructor,
after Deinit, or when the bounded environment has no event left.  Symmetry is
declared for the clients of `adapters` and `settings`, which the modules never
distinguish; these runs check no liveness.

### Fairness

Weak fairness per thread, for steps that need nobody else: a thread that is not
blocked runs on, a callback that began ends, a submitted job is run, a client
that has begun an operation finishes it.  A thread in a condition wait has no
step until it is signalled, so a lost wakeup shows.  The shell and the framework
of `DSPlugin` are fair: they run Initialize and Deinitialize to the end and
tell every exit.  No fairness is assumed of displays, HDCP, PowerManager,
new requests, crashes or GLib (nothing in this repository runs the main loop, see
`DSController::Loop`).

## What is proved

Every invariant and every safety property of a step that a passing run checks is
a theorem, for every value of the constants: any number of clients, threads,
ports, calls, failures, crashes and restarts.  A bound of a run that a proof
does not need is not assumed to be a number.  The assumptions are named in the
modules (`AudioAssumption`, `ControllerAssumption`, `PwrAssumption`,
`NotifierAssumption`, `LevelAssumption`, `ValuesAssumption`: "nothing
persisted" is not a value; `MaxActivationsAssumption`: activations are counted
by a number); the theorems about the composite inputs assume `CiConstants`: no
port is the request to stop, no caller is the free lock.

A property is seldom inductive as it stands.  Each proof therefore has an
invariant in three kinds of parts: what the variables are (`...Types`), who may
be where (`Turns`, `Alone`, `Phase`), and for every place in the middle of a
call what holds there; TLC checked these invariants on the runs' instances before
they were proved.  One lemma per action says that it keeps the invariant, after
lemmas that say what the step changes.

### `DSOutputsProofs`: audio mode, front panel, display, audio levels

* `AudioTypeCorrect`: `AudioTypeOK`, inductive as it stands.
  `AlertKeepsStereo`: `EasNoPassthrough`.  `EasInv` adds that during an undisturbed
  alert no walk of `SetAudioMode` is past its test, for such a walk could write an
  old mode over a port the alert has passed.
* `OnShowsSaved`: `OnShowsSavedBrightness`.  `FpInv` says that once the HAL is
  initialised the static brightness is one that was acknowledged or that an
  interrupted call asked for, and (`CallCanFail`) that a call under way can still
  fail back to what was expected before it.
* `CachedEdidsArePlugged`: `CachedEdidIsPlugged`.  `EdidInv` speaks of what is
  cached together with what a fill is about to cache.  `StatusFileFollows`:
  `StatusFileIsCurrent`.  `FileInv` says, per writer, that the file is what the
  lines still to be written will make right.
* `CachedIsPlayed`: `CachedLevelIsApplied`; `DuckedStaysDucked`: `DuckingHolds`.
  `LevelInv`: undisturbed, one caller is under way and only the cache of the port
  it sets may lag behind the HAL.
* `NoLevelIsForgotten`: `UnsavedIsScheduled`, the safety half of `LevelIsSaved`.
  `SaveInv`: a cached level that is not the thread's previous one has raised the
  flag since the thread last loaded, was restored, or is about to be loaded.

### `DSAdaptersProofs`: HDMI inputs, video device

* `BitsAreLatest`: `EdidBitsAreLatest`.  `BitsFollow` describes what is left of
  each call: the bits not yet given to the HAL are those the remaining steps will
  give.
* `InputIsGivenBack`, `ZoomSurvives`, `HdrAnswerSurvives`, and from them
  `SettingsAreGivenBack`: `RestartGivesBack`.  `GivenInv` (one part per setting)
  and `VdInv` (`ZoomFollows`, `HdrFollows`) say at every step of a call which of
  HAL, cache and store has the new value, so that a crash there leaves what a
  restart may give back.
* `AnnouncedRateIsClosed`: `PreChangeIsClosed`.  `PreMeansRate`: only a call still
  on its way to the post-change has announced a beginning.

### `DSBinderProofs`: composite inputs, HDMI output

* `ServiceHoldsWhatIsRemembered` and `OneOpenPort`.  `Fits` says, for every
  place a selection may be at, in which state each port of the service is and
  how many listeners it has, as long as no release has failed; `Turns` says that
  only the holder of the lock is at such a place.
* `ClosedCleanAndSaved`: `ClosedAndSaved`, two invariants.  `HeldInv` says what an
  adapter has left with the service at each stage of opening, undoing and
  closing; `SavedInv` that between the store and its copy in the adapter only one
  call is under way.
* `ToldCurrently`: `ToldIsCurrent`.  `ToldInv`: a linked adapter that is open has
  its session, hence every new mode is on its way to it; with none on its way it
  has told the mode or holds it to be told.

### `DSSettingsProofs`: video port, audio settings

* `PersistedIsAnswered`, `PairsAreCompatible`, `DepthComesBack`, `BlockedStays`:
  `ResolutionsAgree`, `PairIsCompatible`, `DepthIsReapplied`, `No4KWhileBlocked`,
  from one invariant `ResInv`: `Alone` says whose calls overlapped nobody's,
  `CallsHold` what such a call has checked and done, and `SavedHolds`, `PairHolds`,
  `BlockHolds`, `DepthHolds` what that gives.
* `RestartGivesTheLast`: `RestartRestores`; `TakenIsPersisted`: `AppliedIsPersisted`.
  `AsInv` holds for all settings at once: `AsAsked` says that what is persisted is
  what one of the last calls asked for, or the default; `AsTold` that a value a
  completed call has given to the HAL is the persisted one, or a call that will
  replace it is under way; `AsCallsHold` what an undisturbed call has done so far.

### `DSControllerProofs`

* `TypeCorrect`, which includes that a thread about to set a resolution has a port
  that exists.  `NoWakeupIsLost`: every step that posts a status or raises the exit
  flag also signals, or still has to.  `BlueScreenIsCleared`: success raises the
  flag before it clears the screen, failure paints it before it drops the flag.
* `ControllerImplementsAudioMode`: without a second activation in one process each
  step is a step of `DSAudioMode` or leaves its variables alone.
* `AuthenticatedGetsResolution`: `AuthGetsResolution`.  `SuccessIsHandled`
  follows a HAL thread with a success from the flag to the end of the callback:
  the port it is about to set is HDMI, and past that the port is set in this
  session of the display.

### `DSPwrEventListenerProofs`

* `NoEventIsSleptOver`: the event thread never waits over a queued event whose
  signal is past, nor over a stop.  `PowerInv` adds only that the counters are
  numbers; one lemma says of the twenty-odd steps of other threads that they leave
  the four parts of the state alone.
* `LastEventRules`: `PortsFollowLastEvent`; `LastPatternRules`:
  `PatternFollowsLastEvent`.  `FollowInv`: the last posted event is at the end of
  the queue or being handled (`Posted`); of an undisturbed walk the ports behind it
  are as the mode asks (`WalkedFollow`); LED and pattern follow at the steps
  behind those that write them.

### `DSVideoPortNotifierProofs`

* `ClientsAreToldFirst`: `ToldBeforeTheChange`, in the notifier's own terms what
  `ImplementsAnnouncement` says in the abstract ones.  `NotifierInv` adds what each stage of a change and
  each pending job implies about what was announced and concluded.
* `NotifierImplementsAnnouncement`: each step is one of `DSAnnouncement` or hidden
  by the mapping; `OneCaller` adds that a change has one caller, which calls only
  sinks that were listed and none once the hardware was asked.
* `EverySinkIsAccountedFor`: `SinksAreAccountedFor`.  `Counted` equates each
  reference count with the client's reference, the list's and those of the
  dispatches (a cardinality, with `FiniteSetTheorems`).
* `NoConclusionIsDropped`: `ConclusionIsKept`, the safety half of
  `ChangesAreConcluded`, of every step: a pending change stays pending until a
  worker has copied every listed sink, and a sink stays on that copy until it was
  called (`CalledHaveHeard`).

### `DSLifecycleProofs`: events of the HAL, plugin

* `EventsReachTheFacade`: `EventsFindTheFacade`.  `Quiet` says when the HAL is
  silent, `CompositeBound` and `AudioBound` when the callbacks are bound anew.
* `EveryEventIsHeard`: `ListedHearEverything`.  `Hears`: a listed sink has heard
  all events since it registered, the last one excepted while it is still to be
  called in the copy that is gone through; the list has nobody twice.
* `DownIsClean`: `CleanWhenDown`; `OldOnesAreReleased`: `OldOnesAreKept`.
  `PluginInv`: the steps still to do are Initialize's or Deinitialize's, in
  order, and on the way down there is one for whatever is still held, listed or
  registered (`Upward`, `Downward`); the implementation lives while it is held.
* `NoDeathIsOverlooked`: `DeathIsOnItsWay`, the safety half of `DeathIsNoticed`.
  `NoticeInv`: the plugin listens to the framework before it has a connection to
  lose, and a dead process is still to be told, being told, queued as a job, or
  about to be forgotten.

### Only model-checked

Liveness: `DestructorReturns`, `StopReturns`, `DeinitReturns`, `DispatchReturns`,
`LevelIsSaved`, `EventsAreTaken`, `ChangesAreConcluded`, `DroppedSinksAreDestroyed`
and `DeathIsNoticed` need fairness and ENABLED, which are out of the prover's
reach.  What is proved is their safety half, that what is still to be done is
never forgotten but stays with somebody who will do it once scheduled:
`NoWakeupIsLost` for the controller's destructor, `NoEventIsSleptOver` for the
power events and `Deinit`, `NoLevelIsForgotten`, `NoConclusionIsDropped`,
`NoDeathIsOverlooked`, and `EverySinkIsAccountedFor`, by which a dropped sink is
alive only while a dispatch holds it.  `StopReturns` and `DispatchReturns` have no
such half: the first exempts the lost wakeup the code permits, the second asks
only for progress.  The formulas of these theorems that no run lists were checked
with TLC on instances of the modules' own size before they were proved.
The three violated properties have no proof to be had.  What the
theorems say of the model is bound to the code by the runs' mutants and by the
line numbers of `PROJECT.json`, not by proof.

## What is not modelled

* Use after destruction: IARM handlers stay registered, queued jobs keep a
  plain pointer, the retry thread of the power listener outlives `Deinit`.  C++
  gives these no meaning; the models stop there.
* Data races on containers (port caches, callback bundles).
* Values: EDID contents, the choice of a resolution string from a list, the
  conversions of `DeviceSettingsHALConfig`.
* Setters and getters that are one HAL call without a cache, a property or a
  lock: HDCP and HDR output settings, scaling and selection of HDMI inputs,
  blinking and scrolling, codec queries; `SetStereoAuto` and
  `SetAudioEnablePersist`, whose flags `DSAudioMode` and `DSAudioLevel` keep
  constant.
* `Stop` and `Loop` of `DSController`, which nothing calls; the IARM calls whose
  registration is commented out; the profiles and reboot configurations that no
  code creates or calls.
* The host component (no state), the HAL factory (one look-up at construction),
  the configuration cache of `DeviceSettingsImp` (two first calls compute the
  same value), types and logging.
* `DSVideoPortNotifier` stands for the registries of the other components, which
  differ in not releasing their sinks; `DSHalEvents` has those of the inputs and
  of audio.

## Order of growth

The modules were written from the most concurrent part outwards: controller and
audio modes, power listener, notifier, composite inputs; then the adapters'
settings and their persistence, the events of the HAL, the plugin; then the
proofs, in the same order.  What would come next: an abstract register per
setting that `DSAudioSettings` and `DSVideoPortResolution` implement when calls
do not overlap.
