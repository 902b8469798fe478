---------------------------- MODULE DSHalEvents ----------------------------
(***************************************************************************)
(* How an event of the legacy HAL reaches the clients, for the components  *)
(* whose facade dispatches on the HAL's thread: HDMI inputs, composite     *)
(* inputs and audio.  Each has a HAL adapter (dHdmiInImpl.h,               *)
(* dCompositeInImpl.h, dAudioImpl.h), a component (HdmiIn.cpp,             *)
(* CompositeIn.cpp, Audio.cpp) and a facade (DeviceSettings...).           *)
(*                                                                         *)
(*   - the HAL (external) raises events on a thread of its own, one after  *)
(*     another, in static functions that call the static g_ callbacks,     *)
(*     which hold the component that registered them;                      *)
(*   - the component calls its facade, which copies the list of sinks      *)
(*     under _callbackLock and calls them without it;                      *)
(*   - clients register, unregister and send requests, each from its own   *)
(*     thread, also while they handle an event; a request holds _apiLock   *)
(*     (HDMI) or dsCompositeInLock (composite) around its HAL call;        *)
(*   - the facade is built member by member, destroyed in the reverse      *)
(*     order and, in the same process, created again.                      *)
(* A creation's number stands for the objects of that creation.  A client  *)
(* is named like its sink.                                                 *)
(***************************************************************************)
EXTENDS Naturals, SequencesExt

CONSTANTS
  EventSinks,    \* the clients
  MaxCreations,  \* bound: creations of the facade
  MaxRaised,     \* bound: events
  MaxRequests    \* bound: calls of the clients

VARIABLES
  facade,          \* "HDMIIn", "CompositeIn" or "Audio"
  profileType,
  phase,           \* of the facade: down, creating, up or destroying
  built,           \* steps of its construction done
  creation,        \* the creation that exists or existed last
  isInitialized,   \* m_hdmiInInitialized, compositeIn_isInitialized
  platInitialized, \* m_hdmiInPlatInitialized, compositeIn_isPlatInitialized,
                   \* audio's _isInitialized
  halOn,           \* the HAL delivers events
  halHasCallback,  \* the static functions are registered with the HAL
  boundTo,         \* the creation that the g_ callbacks hold, or 0
  notifications,   \* the facade's list
  event,           \* what the HAL's thread does
  callbackLock, requestLock,  \* holders
  request,         \* by client: its call: [op, step]
  since,           \* history, by client: events dispatched when it registered
  heard,           \* history, by client: events heard since it registered
  dispatched,      \* history: events this facade has copied the list for
  raised, requests \* bound counters

object == <<phase, built>>
hal == <<halOn, halHasCallback>>
statics == <<isInitialized, platInitialized, boundTo>>
locks == <<callbackLock, requestLock>>
earlier == <<since, heard, dispatched>>
platform == <<facade, profileType>>
heVars == <<platform, object, creation, statics, hal, notifications, event, locks,
            request, earlier, raised, requests>>

HalThread == "hal"
NoOne == "none"
NoRequest == [op |-> "none", step |-> "done"]
NoEvent == [step |-> "none", to |-> <<>>, at |-> 0, of |-> 0]

HeInit ==
  /\ facade \in {"HDMIIn", "CompositeIn", "Audio"} /\ profileType \in {"TV", "STB"}
  /\ phase = "down" /\ built = 0 /\ creation = 0
  /\ isInitialized = FALSE /\ platInitialized = 0 /\ boundTo = 0
  /\ halOn = FALSE /\ halHasCallback = FALSE
  /\ notifications = <<>> /\ event = NoEvent
  /\ callbackLock = NoOne /\ requestLock = NoOne
  /\ request = [s \in EventSinks |-> NoRequest]
  /\ since = [s \in EventSinks |-> 0] /\ heard = [s \in EventSinks |-> <<>>]
  /\ dispatched = 0 /\ raised = 0 /\ requests = 0

-----------------------------------------------------------------------------
(* Creation and destruction.                                               *)

\* Members are built in the order of their declaration; the component member
\* starts the HAL and then binds the callbacks.
ComponentFirst == <<"hal", "bound", "registry">> \* (fault) as in the audio facade
InputOrder == <<"registry", "hal", "bound">>
AudioOrder == <<"hal", "bound", "registry">>
Order == IF facade = "Audio" THEN AudioOrder ELSE InputOrder
Made == {Order[i] : i \in 1..built}

Create ==
  /\ phase = "down" /\ creation < MaxCreations
  /\ phase' = "creating" /\ creation' = creation + 1
  /\ UNCHANGED <<platform, built, statics, hal, notifications, event, locks, request, earlier, raised,
                 requests>>
Builds(member) ==
  /\ phase = "creating" /\ Order[built + 1] = member
  /\ built' = built + 1
  /\ phase' = IF built' = Len(Order) THEN "up" ELSE "creating"
  /\ UNCHANGED <<platform, creation, event, locks, request, since, heard, raised, requests>>
BuildRegistry ==
  /\ Builds("registry")
  /\ notifications' = <<>> /\ dispatched' = 0
  /\ UNCHANGED <<statics, hal>>

\* dsHdmiInInit may fail and counts all the same; a failed dsCompositeInInit
\* leaves the adapter uninitialized.  Only a TV has inputs.
HdmiInitialiseHAL(works) ==
  /\ halOn' = (profileType = "TV" /\ (platInitialized > 0 \/ works))
  /\ platInitialized' = IF profileType = "TV" THEN platInitialized + 1 ELSE platInitialized
  /\ UNCHANGED halHasCallback
CompositeInitialiseHAL(works) ==
  /\ halOn' = (profileType = "TV" /\ (platInitialized > 0 \/ works))
  /\ platInitialized' = IF profileType = "TV" /\ works THEN 1 ELSE platInitialized
  /\ UNCHANGED halHasCallback
\* Audio registers with the HAL before its callbacks are bound.
AudioInitialiseHAL(works) ==
  /\ halOn' = works
  /\ platInitialized' = IF works THEN 1 ELSE 0
  /\ halHasCallback' = (works \/ halHasCallback)
InitialiseHAL ==
  /\ Builds("hal")
  /\ \E works \in BOOLEAN :
       \/ facade = "HDMIIn" /\ HdmiInitialiseHAL(works)
       \/ facade = "CompositeIn" /\ CompositeInitialiseHAL(works)
       \/ facade = "Audio" /\ AudioInitialiseHAL(works)
  /\ UNCHANGED <<boundTo, isInitialized, notifications, dispatched>>

\* isInitialized is set by getPersistenceValue, once and for all.
HdmiSetAllCallbacks ==
  IF ~isInitialized /\ platInitialized > 0
  THEN boundTo' = creation /\ halHasCallback' = TRUE /\ isInitialized' = TRUE
  ELSE UNCHANGED <<boundTo, halHasCallback, isInitialized>>
\* Registered on every profile, whether or not the HAL came up.
CompositeSetAllCallbacks ==
  IF ~isInitialized
  THEN boundTo' = creation /\ halHasCallback' = TRUE /\ isInitialized' = TRUE
  ELSE UNCHANGED <<boundTo, halHasCallback, isInitialized>>
AudioSetAllCallbacks == boundTo' = creation /\ UNCHANGED <<halHasCallback, isInitialized>>
SetAllCallbacks ==
  /\ Builds("bound")
  /\ \/ facade = "HDMIIn" /\ HdmiSetAllCallbacks
     \/ facade = "CompositeIn" /\ CompositeSetAllCallbacks
     \/ facade = "Audio" /\ AudioSetAllCallbacks
  /\ UNCHANGED <<halOn, platInitialized, notifications, dispatched>>

\* None of the three clears the g_ callbacks; HDMI keeps its flag, too.
HdmiDeInitialiseHAL ==
  /\ platInitialized' = IF profileType = "TV" THEN 0 ELSE platInitialized
  /\ UNCHANGED isInitialized
CompositeFlagStays == \* (fault) as the HDMI adapter does
  /\ platInitialized' = IF profileType = "TV" THEN 0 ELSE platInitialized
  /\ UNCHANGED isInitialized
CompositeDeInitialiseHAL ==
  IF profileType = "TV"
  THEN platInitialized' = 0 /\ isInitialized' = FALSE
  ELSE UNCHANGED <<platInitialized, isInitialized>>
AudioTerm == platInitialized' = 0 /\ UNCHANGED isInitialized

\* Clients have released the facade by then; their sinks stay listed.
Destroys(member) ==
  /\ phase \in {"up", "destroying"} /\ Order[built] = member
  /\ \A s \in EventSinks : request[s] = NoRequest
  /\ phase' = IF built' = 0 THEN "down" ELSE "destroying"
  /\ UNCHANGED <<platform, creation, boundTo, halHasCallback, event, locks, request, since, heard,
                 raised, requests>>
DestroyRegistry ==
  /\ built' = built - 1 /\ Destroys("registry")
  /\ notifications' = <<>> /\ dispatched' = 0
  /\ UNCHANGED <<halOn, platInitialized, isInitialized>>
\* The HAL's Term waits for an event under way and stops its thread.
DestroyComponent ==
  /\ built' = built - 2 /\ Destroys("bound")
  /\ event = NoEvent
  /\ halOn' = FALSE
  /\ \/ facade = "HDMIIn" /\ HdmiDeInitialiseHAL
     \/ facade = "CompositeIn" /\ CompositeDeInitialiseHAL
     \/ facade = "Audio" /\ AudioTerm
  /\ UNCHANGED <<notifications, dispatched>>

-----------------------------------------------------------------------------
(* The HAL's thread.                                                       *)

\* A static function with an empty g_ callback returns at once.
Raise ==
  /\ halOn /\ halHasCallback /\ boundTo # 0
  /\ event = NoEvent /\ raised < MaxRaised
  /\ raised' = raised + 1
  /\ event' = [NoEvent EXCEPT !.step = "lock", !.of = boundTo]
  /\ UNCHANGED <<platform, object, creation, statics, hal, notifications, locks, request,
                 earlier, requests>>

\* A dead component, or one without a facade around it, is undefined
\* behaviour: the event is lost or the process dies.
Stray ==
  /\ event.step = "lock" /\ (event.of # creation \/ "registry" \notin Made)
  /\ event' = NoEvent
  /\ \/ UNCHANGED <<object, statics, hal, notifications, locks, request, dispatched>>
     \/ /\ phase' = "down" /\ built' = 0 /\ notifications' = <<>> /\ dispatched' = 0
        /\ isInitialized' = FALSE /\ platInitialized' = 0 /\ boundTo' = 0
        /\ halOn' = FALSE /\ halHasCallback' = FALSE
        /\ callbackLock' = NoOne /\ requestLock' = NoOne
        /\ request' = [s \in EventSinks |-> NoRequest]
  /\ UNCHANGED <<platform, creation, since, heard, raised, requests>>

KeepsLocked == callbackLock' = HalThread \* (fault) the sinks are called under the lock
Unlock == UNCHANGED callbackLock
Copy ==
  /\ event.step = "lock" /\ event.of = creation /\ "registry" \in Made /\ callbackLock = NoOne
  /\ event' = [event EXCEPT !.step = "next", !.to = notifications]
  /\ dispatched' = dispatched + 1
  /\ Unlock
  /\ UNCHANGED <<platform, object, creation, statics, hal, notifications, requestLock,
                 request, since, heard, raised, requests>>

LiveList == notifications \* (fault) no copy is made
ToCall == event.to
\* A sink that left and came back while the event was dispatched may hear it:
\* `heard` counts from its registration.
CallSink ==
  /\ event.step = "next" /\ event.at < Len(ToCall)
  /\ event' = [event EXCEPT !.step = "calling", !.at = @ + 1]
  /\ LET s == ToCall[event.at + 1] IN
       heard' = IF dispatched > since[s] THEN [heard EXCEPT ![s] = Append(@, dispatched)] ELSE heard
  /\ UNCHANGED <<platform, object, creation, statics, hal, notifications, locks, request,
                 since, dispatched, raised, requests>>
\* A client that called back has had its answer when it returns.
SinkReturns ==
  /\ event.step = "calling"
  /\ event.at <= Len(ToCall) => request[ToCall[event.at]] = NoRequest
  /\ event' = [event EXCEPT !.step = "next"]
  /\ UNCHANGED <<platform, object, creation, statics, hal, notifications, locks, request,
                 earlier, raised, requests>>
Dispatched ==
  /\ event.step = "next" /\ event.at >= Len(ToCall)
  /\ event' = NoEvent
  /\ callbackLock' = IF callbackLock = HalThread THEN NoOne ELSE callbackLock
  /\ UNCHANGED <<platform, object, creation, statics, hal, notifications, requestLock,
                 request, earlier, raised, requests>>

-----------------------------------------------------------------------------
(* The clients.                                                            *)

Ask(s) ==
  /\ phase = "up" /\ request[s] = NoRequest /\ requests < MaxRequests
  /\ requests' = requests + 1
  /\ \E op \in {"register", "unregister", "ask"} :
       request' = [request EXCEPT ![s] = [op |-> op, step |-> "lock"]]
  /\ UNCHANGED <<platform, object, creation, statics, hal, notifications, event, locks,
                 earlier, raised>>
Answered(s) == request' = [request EXCEPT ![s] = NoRequest]

\* A sink is listed once.
HeRegister(s) ==
  /\ request[s] = [op |-> "register", step |-> "lock"] /\ callbackLock = NoOne
  /\ Answered(s)
  /\ IF s \in ToSet(notifications)
     THEN UNCHANGED <<notifications, since, heard>>
     ELSE /\ notifications' = Append(notifications, s)
          /\ since' = [since EXCEPT ![s] = dispatched]
          /\ heard' = [heard EXCEPT ![s] = <<>>]
  /\ UNCHANGED <<platform, object, creation, statics, hal, event, locks, dispatched,
                 raised, requests>>
HeUnregister(s) ==
  /\ request[s] = [op |-> "unregister", step |-> "lock"] /\ callbackLock = NoOne
  /\ Answered(s)
  /\ IF s \in ToSet(notifications)
     THEN \E i \in DOMAIN notifications :
            notifications[i] = s /\ notifications' = RemoveAt(notifications, i)
     ELSE UNCHANGED notifications
  /\ UNCHANGED <<platform, object, creation, statics, hal, event, locks, earlier, raised,
                 requests>>
\* A request is one HAL call under the lock; audio's take none.
LockRequest(s) ==
  /\ request[s] = [op |-> "ask", step |-> "lock"]
  /\ IF facade = "Audio"
     THEN UNCHANGED requestLock
     ELSE requestLock = NoOne /\ requestLock' = s
  /\ request' = [request EXCEPT ![s].step = "hal"]
  /\ UNCHANGED <<platform, object, creation, statics, hal, notifications, event,
                 callbackLock, earlier, raised, requests>>
UnlockRequest(s) ==
  /\ request[s].step = "hal"
  /\ requestLock' = IF requestLock = s THEN NoOne ELSE requestLock
  /\ Answered(s)
  /\ UNCHANGED <<platform, object, creation, statics, hal, notifications, event,
                 callbackLock, earlier, raised, requests>>

-----------------------------------------------------------------------------
HalStep == Stray \/ Copy \/ CallSink \/ SinkReturns \/ Dispatched
HeClientStep(s) == HeRegister(s) \/ HeUnregister(s) \/ LockRequest(s) \/ UnlockRequest(s)
HeNext ==
  \/ Create \/ BuildRegistry \/ InitialiseHAL \/ SetAllCallbacks
  \/ DestroyRegistry \/ DestroyComponent
  \/ Raise \/ HalStep
  \/ \E s \in EventSinks : Ask(s) \/ HeClientStep(s)

\* Threads run.
HeFairness == WF_heVars(HalStep) /\ \A s \in EventSinks : WF_heVars(HeClientStep(s))
HeSpec == HeInit /\ [][HeNext]_heVars /\ HeFairness

-----------------------------------------------------------------------------
(* Properties.                                                             *)

\* While a facade with a working HAL is up, the HAL's callbacks lead to it,
\* however often it was created before in the process: of the composite
\* inputs and audio.
CallbacksReach(kind) ==
  facade = kind /\ phase = "up" /\ halOn => halHasCallback /\ boundTo = creation
CallbacksReachTheLiving == CallbacksReach("CompositeIn") /\ CallbacksReach("Audio")
\* The same of the HDMI inputs, whose flag no destruction resets.
HdmiCallbacksReachTheLiving == CallbacksReach("HDMIIn")

\* A sink that stays listed has heard every event dispatched since it
\* registered, once and in order, whoever registered or left meanwhile.
ListedHearEverything ==
  event = NoEvent /\ phase = "up" =>
    \A s \in ToSet(notifications) :
      heard[s] = [i \in 1..(dispatched - since[s]) |-> since[s] + i]

\* An event that has reached the living component of an input finds the
\* facade's list and lock, also while the facade is built or destroyed (the
\* audio facade declares its component first).
DispatchFindsRegistry ==
  facade # "Audio" /\ event # NoEvent /\ event.of = creation => "registry" \in Made

\* An event of the HAL leads to the component that lives and, through it, to
\* a facade whose list and lock are there.
EventsFindTheFacade == CallbacksReachTheLiving /\ DispatchFindsRegistry

\* A dispatch ends, though the clients call back from their handlers and
\* wait for the answer.
DispatchReturns == event.step # "none" ~> event.step = "none"
=============================================================================
