-------------------------- MODULE DSLifecycleProofs --------------------------
(***************************************************************************)
(* The events of the HAL and the life of the plugin.  An event leads to    *)
(* the living component of the composite inputs and of audio, an input's   *)
(* event finds the list and the lock of its facade, and a sink that stays  *)
(* listed hears every event once and in order, for any clients and any     *)
(* number of creations, events and requests (no bound is assumed to be a   *)
(* number).  A plugin that is down is clean, only clients keep an earlier  *)
(* implementation, and no plugin that is up rests on a dead process unless *)
(* the news is on its way, for any number of activations.                  *)
(***************************************************************************)
EXTENDS DSHalEvents, DSPlugin, SequenceTheorems, TLAPS

Types ==
  /\ facade \in {"HDMIIn", "CompositeIn", "Audio"} /\ profileType \in {"TV", "STB"}
  /\ phase \in {"down", "creating", "up", "destroying"} /\ built \in 0..3
  /\ halOn \in BOOLEAN /\ halHasCallback \in BOOLEAN /\ isInitialized \in BOOLEAN

\* How much of the facade there is in each phase.
Shape ==
  /\ phase = "down" => built = 0
  /\ phase = "creating" => built < 3
  /\ phase = "up" => built = 3
  /\ phase = "destroying" => built = IF facade = "Audio" THEN 2 ELSE 1

\* An input's HAL is silent where the component is not there.
Quiet ==
  facade # "Audio" /\ (phase \in {"down", "destroying"} \/ (phase = "creating" /\ built < 2)) =>
    event = NoEvent /\ ~halOn

\* The flag of the composite inputs is down whenever the callbacks have to be
\* bound anew; without a TV profile their HAL is never started.
CompositeBound ==
  facade = "CompositeIn" =>
    /\ profileType = "TV" /\ phase # "up" => ~isInitialized
    /\ profileType = "STB" => ~halOn
    /\ phase = "up" /\ halOn => halHasCallback /\ boundTo = creation

\* Audio registers with the HAL as it starts it, and binds right after.
AudioBound ==
  facade = "Audio" /\ phase \in {"creating", "up"} =>
    /\ built >= 1 /\ halOn => halHasCallback
    /\ built >= 2 => boundTo = creation

EventsInv == Types /\ Shape /\ Quiet /\ CompositeBound /\ AudioBound

-----------------------------------------------------------------------------
\* Which member is built at which place, per facade.
LEMMA OrderOfMembers ==
  ASSUME Types
  PROVE  /\ facade = "Audio" => Order[1] = "hal" /\ Order[2] = "bound" /\ Order[3] = "registry"
         /\ facade # "Audio" => Order[1] = "registry" /\ Order[2] = "hal" /\ Order[3] = "bound"
         /\ Len(Order) = 3
BY DEF Order, AudioOrder, InputOrder

\* The place of a construction step (the members' declarations).
LEMMA BuildPlace ==
  ASSUME EventsInv, NEW member, Builds(member)
  PROVE  /\ phase = "creating" /\ built' = built + 1
         /\ phase' = IF built' = 3 THEN "up" ELSE "creating"
         /\ facade = "Audio" => /\ built = 0 => member = "hal"
                                /\ built = 1 => member = "bound"
                                /\ built = 2 => member = "registry"
         /\ facade # "Audio" => /\ built = 0 => member = "registry"
                                /\ built = 1 => member = "hal"
                                /\ built = 2 => member = "bound"
         /\ UNCHANGED <<facade, profileType, creation, event>>
<1>1. phase = "creating" /\ built \in 0..2 /\ Order[built + 1] = member /\ built' = built + 1
  BY DEF EventsInv, Types, Shape, Builds
<1>2. phase' = IF built' = 3 THEN "up" ELSE "creating"
  BY OrderOfMembers DEF EventsInv, Builds
<1>3. UNCHANGED <<facade, profileType, creation, event>>
  BY DEF Builds, platform
<1>4. CASE facade = "Audio"
  <2>1. Order[1] = "hal" /\ Order[2] = "bound" /\ Order[3] = "registry"
    BY <1>4, OrderOfMembers DEF EventsInv
  <2>2. QED
    BY <1>1, <1>2, <1>3, <1>4, <2>1
<1>5. CASE facade # "Audio"
  <2>1. Order[1] = "registry" /\ Order[2] = "hal" /\ Order[3] = "bound"
    BY <1>5, OrderOfMembers DEF EventsInv
  <2>2. QED
    BY <1>1, <1>2, <1>3, <1>5, <2>1
<1>6. QED
  BY <1>4, <1>5

\* The place of a destruction step.
LEMMA DestroyPlace ==
  ASSUME EventsInv, NEW member \in {"registry", "bound"}, Destroys(member)
  PROVE  /\ phase \in {"up", "destroying"} /\ built \in 1..3
         /\ phase' = IF built' = 0 THEN "down" ELSE "destroying"
         /\ member = "registry" => built = IF facade = "Audio" THEN 3 ELSE 1
         /\ member = "bound" => built = IF facade = "Audio" THEN 2 ELSE 3
         /\ UNCHANGED <<facade, profileType, creation, boundTo, halHasCallback, event>>
<1>1. built \in 1..3
  BY DEF EventsInv, Types, Shape, Destroys
<1>2. QED
  BY <1>1, OrderOfMembers DEF EventsInv, Types, Shape, Destroys, platform

\* A step that leaves the objects, the HAL and the static variables alone
\* preserves the invariant; only an event under way moves on.
LEMMA NothingBuilt ==
  ASSUME EventsInv, UNCHANGED <<platform, object, creation, statics, hal>>,
         event' = event \/ event # NoEvent
  PROVE  EventsInv'
BY DEF EventsInv, Types, Shape, Quiet, CompositeBound, AudioBound, platform, object, statics, hal

-----------------------------------------------------------------------------
\* HeInit establishes the invariant.
LEMMA EventsInit == HeInit => EventsInv
<1> SUFFICES ASSUME HeInit
             PROVE  EventsInv
  OBVIOUS
<1>1. Types
  <2>1. /\ facade \in {"HDMIIn", "CompositeIn", "Audio"} /\ profileType \in {"TV", "STB"}
        /\ phase \in {"down", "creating", "up", "destroying"} /\ built \in 0..3
    BY DEF HeInit
  <2>2. halOn \in BOOLEAN /\ halHasCallback \in BOOLEAN /\ isInitialized \in BOOLEAN
    BY DEF HeInit
  <2>3. QED
    BY <2>1, <2>2 DEF Types
<1>2. Shape /\ Quiet
  BY DEF HeInit, Shape, Quiet
<1>3. CompositeBound /\ AudioBound
  BY DEF HeInit, CompositeBound, AudioBound
<1>4. QED
  BY <1>1, <1>2, <1>3 DEF EventsInv

\* Construction, member by member (the facades' constructors, InitialiseHAL
\* and setAllCallbacks of the adapters).
LEMMA CreationStep ==
  ASSUME EventsInv, Create \/ BuildRegistry \/ InitialiseHAL \/ SetAllCallbacks
  PROVE  EventsInv'
<1> USE DEF EventsInv, Types, Shape, Quiet, CompositeBound, AudioBound
<1>1. CASE Create
  BY <1>1 DEF Create, platform, statics, hal
<1>2. CASE BuildRegistry
  <2>1. Builds("registry") /\ UNCHANGED <<statics, hal>>
    BY <1>2 DEF BuildRegistry
  <2>2. QED
    BY <2>1, BuildPlace DEF statics, hal
<1>3. CASE InitialiseHAL
  <2>1. Builds("hal") /\ UNCHANGED <<boundTo, isInitialized>>
    BY <1>3 DEF InitialiseHAL
  <2>2. PICK works \in BOOLEAN :
          \/ facade = "HDMIIn" /\ HdmiInitialiseHAL(works)
          \/ facade = "CompositeIn" /\ CompositeInitialiseHAL(works)
          \/ facade = "Audio" /\ AudioInitialiseHAL(works)
    BY <1>3 DEF InitialiseHAL
  <2>3. halOn' \in BOOLEAN
    BY <2>2 DEF HdmiInitialiseHAL, CompositeInitialiseHAL, AudioInitialiseHAL
  <2>4. halHasCallback' \in BOOLEAN
    BY <2>2 DEF HdmiInitialiseHAL, CompositeInitialiseHAL, AudioInitialiseHAL
  <2>5. facade = "CompositeIn" /\ profileType = "STB" => ~halOn'
    BY <2>2 DEF CompositeInitialiseHAL
  <2>6. facade = "Audio" /\ halOn' => halHasCallback'
    BY <2>2 DEF AudioInitialiseHAL
  <2>7. QED
    BY <2>1, <2>3, <2>4, <2>5, <2>6, BuildPlace
<1>4. CASE SetAllCallbacks
  <2>1. Builds("bound") /\ UNCHANGED halOn
    BY <1>4 DEF SetAllCallbacks
  <2>2. CASE facade = "CompositeIn"
    <3>1. CompositeSetAllCallbacks
      BY <1>4, <2>2 DEF SetAllCallbacks
    <3>2. /\ facade = "CompositeIn" /\ phase = "creating" /\ built = 2 /\ built' = 3
          /\ phase' = "up" /\ UNCHANGED <<facade, profileType, creation, event>>
      BY <2>1, <2>2, BuildPlace
    <3>3. /\ halHasCallback' \in BOOLEAN /\ isInitialized' \in BOOLEAN
          /\ profileType = "TV" => halHasCallback' /\ boundTo' = creation
      BY <3>1, <3>2 DEF CompositeSetAllCallbacks
    <3>4. QED
      BY <2>1, <3>2, <3>3
  <2>3. CASE facade # "CompositeIn"
    <3>1. /\ halHasCallback' \in BOOLEAN /\ isInitialized' \in BOOLEAN
          /\ facade = "Audio" => boundTo' = creation /\ halHasCallback' = halHasCallback
      BY <1>4, <2>3 DEF SetAllCallbacks, HdmiSetAllCallbacks, AudioSetAllCallbacks
    <3>2. QED
      BY <2>1, <2>3, <3>1, BuildPlace
  <2>4. QED
    BY <2>2, <2>3
<1>5. QED
  BY <1>1, <1>2, <1>3, <1>4

\* Destruction in the reverse order (the facades' destructors, DeInitialiseHAL).
LEMMA DestructionStep ==
  ASSUME EventsInv, DestroyRegistry \/ DestroyComponent
  PROVE  EventsInv'
<1> USE DEF EventsInv, Types, Shape, Quiet, CompositeBound, AudioBound
<1>1. CASE DestroyRegistry
  <2>1. Destroys("registry") /\ built' = built - 1 /\ UNCHANGED <<halOn, isInitialized>>
    BY <1>1 DEF DestroyRegistry
  <2>2. /\ phase \in {"up", "destroying"} /\ built = IF facade = "Audio" THEN 3 ELSE 1
        /\ phase' = IF built' = 0 THEN "down" ELSE "destroying"
        /\ UNCHANGED <<facade, profileType, creation, boundTo, halHasCallback, event>>
    BY <2>1, DestroyPlace
  <2>3. QED
    BY <2>1, <2>2
<1>2. CASE DestroyComponent
  <2>1. Destroys("bound") /\ built' = built - 2 /\ event = NoEvent /\ halOn' = FALSE
    BY <1>2 DEF DestroyComponent
  <2>2. /\ isInitialized' \in BOOLEAN
        /\ facade = "CompositeIn" /\ profileType = "TV" => ~isInitialized'
    BY <1>2 DEF DestroyComponent, HdmiDeInitialiseHAL, CompositeDeInitialiseHAL, AudioTerm
  <2>3. /\ phase \in {"up", "destroying"} /\ built = IF facade = "Audio" THEN 2 ELSE 3
        /\ phase' = IF built' = 0 THEN "down" ELSE "destroying"
        /\ UNCHANGED <<facade, profileType, creation, boundTo, halHasCallback, event>>
    BY <2>1, DestroyPlace
  <2>4. halOn' \in BOOLEAN /\ ~halOn'
    BY <2>1
  <2>5. Types' /\ Shape'
    BY <2>1, <2>2, <2>3, <2>4
  <2>6. Quiet' /\ CompositeBound' /\ AudioBound'
    BY <2>1, <2>2, <2>3, <2>4
  <2>7. QED
    BY <2>5, <2>6
<1>3. QED
  BY <1>1, <1>2

\* The HAL's thread (the static functions and the facades' dispatch).
LEMMA HalThreadStep ==
  ASSUME EventsInv, Raise \/ HalStep
  PROVE  EventsInv'
<1>1. CASE Raise
  <2>1. halOn /\ UNCHANGED <<platform, object, creation, statics, hal>>
    BY <1>1 DEF Raise
  <2>2. QED
    BY <2>1 DEF EventsInv, Types, Shape, Quiet, CompositeBound, AudioBound, platform, object,
                statics, hal
<1>2. CASE Stray
  <2>1. event # NoEvent /\ event' = NoEvent /\ UNCHANGED <<platform, creation>>
    BY <1>2 DEF Stray, NoEvent
  <2>2. CASE UNCHANGED <<object, statics, hal>>
    BY <2>1, <2>2, NothingBuilt
  <2>3. CASE phase' = "down" /\ built' = 0 /\ isInitialized' = FALSE /\ halOn' = FALSE
             /\ halHasCallback' = FALSE
    <3>1. halOn' \in BOOLEAN /\ halHasCallback' \in BOOLEAN /\ isInitialized' \in BOOLEAN
      BY <2>3
    <3>2. /\ facade' \in {"HDMIIn", "CompositeIn", "Audio"} /\ profileType' \in {"TV", "STB"}
          /\ phase' \in {"down", "creating", "up", "destroying"} /\ built' \in 0..3
      BY <2>1, <2>3 DEF EventsInv, Types, platform
    <3>3. Shape'
      BY <2>3 DEF Shape
    <3>4. Quiet' /\ CompositeBound' /\ AudioBound'
      BY <2>1, <2>3 DEF Quiet, CompositeBound, AudioBound
    <3>5. QED
      BY <3>1, <3>2, <3>3, <3>4 DEF EventsInv, Types
  <2>4. QED
    BY <1>2, <2>2, <2>3 DEF Stray
<1>3. CASE Copy \/ CallSink \/ SinkReturns \/ Dispatched
  <2>1. event # NoEvent /\ UNCHANGED <<platform, object, creation, statics, hal>>
    BY <1>3 DEF Copy, CallSink, SinkReturns, Dispatched, NoEvent
  <2>2. QED
    BY <2>1, NothingBuilt
<1>4. QED
  BY <1>1, <1>2, <1>3 DEF HalStep

\* The clients touch the list and the locks only.
LEMMA ClientsStep ==
  ASSUME EventsInv, NEW s \in EventSinks, Ask(s) \/ HeClientStep(s)
  PROVE  EventsInv'
<1>1. UNCHANGED <<platform, object, creation, statics, hal, event>>
  BY DEF Ask, HeClientStep, HeRegister, HeUnregister, LockRequest, UnlockRequest
<1>2. QED
  BY <1>1, NothingBuilt

-----------------------------------------------------------------------------
\* While a facade of the composite inputs or of audio is up with a working
\* HAL, the callbacks lead to it, and an event of an input always finds the
\* list and the lock (setAllCallbacks, DeInitialiseHAL, the order of members).
THEOREM EventsReachTheFacade == HeSpec => []EventsFindTheFacade
<1>1. EventsInv /\ [HeNext]_heVars => EventsInv'
  <2> SUFFICES ASSUME EventsInv, [HeNext]_heVars
               PROVE  EventsInv'
    OBVIOUS
  <2>1. CASE UNCHANGED heVars
    BY <2>1, NothingBuilt DEF heVars
  <2>2. CASE HeNext
    BY <2>2, CreationStep, DestructionStep, HalThreadStep, ClientsStep DEF HeNext
  <2>3. QED
    BY <2>1, <2>2
<1>2. EventsInv => EventsFindTheFacade
  <2> SUFFICES ASSUME EventsInv
               PROVE  CallbacksReachTheLiving /\ DispatchFindsRegistry
    BY DEF EventsFindTheFacade
  <2>1. CallbacksReachTheLiving
    BY DEF EventsInv, Shape, CompositeBound, AudioBound, CallbacksReachTheLiving, CallbacksReach
  <2>2. DispatchFindsRegistry
    <3> SUFFICES ASSUME facade # "Audio", event # NoEvent
                 PROVE  "registry" \in Made
      BY DEF DispatchFindsRegistry
    <3>1. 1 \in 1..built
      BY DEF EventsInv, Types, Shape, Quiet
    <3>2. QED
      BY <3>1, OrderOfMembers DEF EventsInv, Made
  <2>3. QED
    BY <2>1, <2>2
<1>3. QED
  BY EventsInit, <1>1, <1>2, PTL DEF HeSpec

-----------------------------------------------------------------------------
(* What Initialize and Deinitialize do, in which order.                    *)

FrameworkNames == {"connection", "comlink"}
InterfaceNames ==
  {"FPD", "HDMIIn", "CompositeIn", "Audio", "VideoPort", "VideoDevice", "Host", "Display"}
SinkNames == {"HDMIIn", "VideoPort", "VideoDevice", "CompositeIn", "Display"}

DoTo(operation, name) == [op |-> operation, on |-> name]
UpSteps ==
  {DoTo("register", x) : x \in FrameworkNames} \cup {DoTo("root", "plugin"), DoTo("configure", "plugin")}
    \cup {DoTo("query", x) : x \in InterfaceNames} \cup {DoTo("listen", x) : x \in SinkNames}
DownSteps ==
  {DoTo("unregister", x) : x \in FrameworkNames} \cup {DoTo("unlisten", x) : x \in SinkNames}
    \cup {DoTo("release", x) : x \in InterfaceNames \cup {"plugin"}}
    \cup {DoTo("releaseService", "plugin"), DoTo("forget", "plugin")}
Steps == UpSteps \cup DownSteps

\* The orders that matter: the plugin registers with the framework before
\* anything else, and creates the implementation before anything is asked of it;
\* the framework is unregistered first; sinks are unregistered
\* before any pointer is released.
Before(a, b) ==
  /\ b \in {"register", "root"} => a = "register"
  /\ b = "unregister" => a = "unregister"
  /\ b = "unlisten" => a \in {"unregister", "unlisten"}
InOrder(q) == \A i, j \in DOMAIN q : i < j => Before(q[i].op, q[j].op)

\* Two stretches of steps, one after the other.
LEMMA ThenSteps ==
  ASSUME NEW a \in Seq(Steps), NEW b \in Seq(Steps), InOrder(a), InOrder(b),
         \A x \in ToSet(a), y \in ToSet(b) : Before(x.op, y.op)
  PROVE  /\ a \o b \in Seq(Steps) /\ InOrder(a \o b)
         /\ ToSet(a \o b) = ToSet(a) \cup ToSet(b)
<1> DEFINE c == a \o b
<1>1. /\ Len(a) \in Nat /\ DOMAIN a = 1..Len(a) /\ Len(b) \in Nat /\ DOMAIN b = 1..Len(b)
      /\ c \in Seq(Steps) /\ Len(c) = Len(a) + Len(b)
      /\ \A i \in 1..(Len(a) + Len(b)) : c[i] = IF i <= Len(a) THEN a[i] ELSE b[i - Len(a)]
  BY ConcatProperties
<1>2. DOMAIN c = 1..(Len(a) + Len(b))
  BY <1>1
<1> HIDE DEF c
<1>3. \A i \in DOMAIN c : i <= Len(a) => i \in DOMAIN a /\ c[i] = a[i]
  BY <1>1, <1>2
<1>4. \A i \in DOMAIN c : ~(i <= Len(a)) => i - Len(a) \in DOMAIN b /\ c[i] = b[i - Len(a)]
  BY <1>1, <1>2
<1>5. \A i \in DOMAIN a : i \in DOMAIN c /\ i <= Len(a)
  BY <1>1, <1>2
<1>6. \A i \in DOMAIN b : i + Len(a) \in DOMAIN c /\ ~(i + Len(a) <= Len(a)) /\ (i + Len(a)) - Len(a) = i
  BY <1>1, <1>2
<1>7. InOrder(c)
  <2> SUFFICES ASSUME NEW i \in DOMAIN c, NEW j \in DOMAIN c, i < j
               PROVE  Before(c[i].op, c[j].op)
    BY DEF InOrder
  <2>1. CASE j <= Len(a)
    <3>1. i <= Len(a)
      BY <1>1, <1>2, <2>1
    <3> QED BY <1>3, <2>1, <3>1 DEF InOrder
  <2>2. CASE ~(j <= Len(a)) /\ i <= Len(a)
    <3>1. c[i] \in ToSet(a) /\ c[j] \in ToSet(b)
      BY <1>3, <1>4, <2>2 DEF ToSet
    <3> QED BY <3>1
  <2>3. CASE ~(j <= Len(a)) /\ ~(i <= Len(a))
    <3>1. i - Len(a) < j - Len(a)
      BY <1>1, <1>2
    <3> QED BY <1>4, <2>3, <3>1 DEF InOrder
  <2> QED BY <2>1, <2>2, <2>3
<1>8. ToSet(c) = ToSet(a) \cup ToSet(b)
  <2>1. \A i \in DOMAIN c : c[i] \in ToSet(a) \cup ToSet(b)
    BY <1>3, <1>4 DEF ToSet
  <2>2. \A i \in DOMAIN a : a[i] \in ToSet(c)
    BY <1>3, <1>5 DEF ToSet
  <2>3. ASSUME NEW i \in DOMAIN b
        PROVE  b[i] \in ToSet(c)
    <3>1. i + Len(a) \in DOMAIN c /\ c[i + Len(a)] = b[i]
      BY <1>4, <1>6
    <3> QED BY <3>1 DEF ToSet
  <2> QED BY <2>1, <2>2, <2>3 DEF ToSet
<1> QED BY <1>1, <1>7, <1>8 DEF c

\* The same operation on each name of a list.
LEMMA EachSteps ==
  ASSUME NEW operation \in {"register", "query", "listen", "unregister", "unlisten", "release"},
         NEW S, NEW names \in Seq(S), \A x \in S : DoTo(operation, x) \in Steps
  PROVE  /\ Each(operation, names) \in Seq(Steps) /\ InOrder(Each(operation, names))
         /\ ToSet(Each(operation, names)) = {DoTo(operation, x) : x \in ToSet(names)}
<1> DEFINE e == Each(operation, names)
<1>1. DOMAIN names = 1..Len(names) /\ Len(names) \in Nat /\ \A i \in DOMAIN names : names[i] \in S
  OBVIOUS
<1>2. DOMAIN e = 1..Len(names) /\ \A i \in DOMAIN e : e[i] = DoTo(operation, names[i]) /\ e[i] \in Steps
  BY <1>1 DEF Each, DoTo
<1>3. e \in Seq(Steps)
  <2>1. e = [i \in 1..Len(names) |-> e[i]]
    BY <1>1 DEF Each
  <2> QED BY <1>1, <1>2, <2>1
<1>4. InOrder(e)
  BY <1>2 DEF InOrder, Before, DoTo
<1>5. ToSet(e) = {DoTo(operation, x) : x \in ToSet(names)}
  BY <1>1, <1>2 DEF ToSet
<1> QED BY <1>3, <1>4, <1>5

\* One operation on the plugin.
LEMMA OnlyStep ==
  ASSUME NEW operation, DoTo(operation, "plugin") \in Steps
  PROVE  /\ Only(operation) \in Seq(Steps) /\ InOrder(Only(operation))
         /\ ToSet(Only(operation)) = {DoTo(operation, "plugin")}
BY DEF Only, DoTo, InOrder, ToSet

\* The names in the lists.
LEMMA NamesOfLists ==
  /\ Interfaces \in Seq(InterfaceNames) /\ ToSet(Interfaces) = InterfaceNames
  /\ SinkInterfaces \in Seq(SinkNames) /\ ToSet(SinkInterfaces) = SinkNames
  /\ Framework \in Seq(FrameworkNames) /\ ToSet(Framework) = FrameworkNames
<1>1. Interfaces \in Seq(InterfaceNames) /\ ToSet(Interfaces) = InterfaceNames
  BY DEF Interfaces, InterfaceNames, ToSet
<1>2. SinkInterfaces \in Seq(SinkNames) /\ ToSet(SinkInterfaces) = SinkNames
  BY DEF SinkInterfaces, SinkNames, ToSet
<1>3. Framework \in Seq(FrameworkNames) /\ ToSet(Framework) = FrameworkNames
  BY DEF Framework, FrameworkNames, ToSet
<1> QED BY <1>1, <1>2, <1>3

\* Initialize first listens to the framework, then creates the
\* implementation, and does nothing that Deinitialize does.
LEMMA InitializeInOrder ==
  InitializeSteps \in Seq(Steps) /\ InOrder(InitializeSteps) /\ ToSet(InitializeSteps) = UpSteps
<1> DEFINE a == Each("register", Framework)
           b == Only("root")
           c == Only("configure")
           d == Each("query", Interfaces)
           e == Each("listen", SinkInterfaces)
<1>1. /\ a \in Seq(Steps) /\ InOrder(a) /\ ToSet(a) = {DoTo("register", x) : x \in FrameworkNames}
      /\ d \in Seq(Steps) /\ InOrder(d) /\ ToSet(d) = {DoTo("query", x) : x \in InterfaceNames}
      /\ e \in Seq(Steps) /\ InOrder(e) /\ ToSet(e) = {DoTo("listen", x) : x \in SinkNames}
  <2>1. /\ \A x \in FrameworkNames : DoTo("register", x) \in Steps
        /\ \A x \in InterfaceNames : DoTo("query", x) \in Steps
        /\ \A x \in SinkNames : DoTo("listen", x) \in Steps
    BY DEF Steps, UpSteps
  <2>2. a \in Seq(Steps) /\ InOrder(a) /\ ToSet(a) = {DoTo("register", x) : x \in FrameworkNames}
    BY NamesOfLists, EachSteps, <2>1
  <2>3. d \in Seq(Steps) /\ InOrder(d) /\ ToSet(d) = {DoTo("query", x) : x \in InterfaceNames}
    BY NamesOfLists, EachSteps, <2>1
  <2>4. e \in Seq(Steps) /\ InOrder(e) /\ ToSet(e) = {DoTo("listen", x) : x \in SinkNames}
    BY NamesOfLists, EachSteps, <2>1
  <2> QED BY <2>2, <2>3, <2>4
<1>2. /\ b \in Seq(Steps) /\ InOrder(b) /\ ToSet(b) = {DoTo("root", "plugin")}
      /\ c \in Seq(Steps) /\ InOrder(c) /\ ToSet(c) = {DoTo("configure", "plugin")}
  BY OnlyStep DEF Steps, UpSteps
<1> HIDE DEF a, b, c, d, e
<1>3. a \o b \in Seq(Steps) /\ InOrder(a \o b) /\ ToSet(a \o b) = ToSet(a) \cup ToSet(b)
  <2>1. \A x \in ToSet(a), y \in ToSet(b) : Before(x.op, y.op)
    BY <1>1, <1>2 DEF Before, DoTo
  <2> QED BY <1>1, <1>2, <2>1, ThenSteps
<1>4. (a \o b) \o c \in Seq(Steps) /\ InOrder((a \o b) \o c)
      /\ ToSet((a \o b) \o c) = ToSet(a \o b) \cup ToSet(c)
  <2>1. \A x \in ToSet(a \o b), y \in ToSet(c) : Before(x.op, y.op)
    BY <1>2 DEF Before, DoTo
  <2> QED BY <1>2, <1>3, <2>1, ThenSteps
<1>5. ((a \o b) \o c) \o d \in Seq(Steps) /\ InOrder(((a \o b) \o c) \o d)
      /\ ToSet(((a \o b) \o c) \o d) = ToSet((a \o b) \o c) \cup ToSet(d)
  <2>1. \A x \in ToSet((a \o b) \o c), y \in ToSet(d) : Before(x.op, y.op)
    BY <1>1 DEF Before, DoTo
  <2> QED BY <1>1, <1>4, <2>1, ThenSteps
<1>6. (((a \o b) \o c) \o d) \o e \in Seq(Steps) /\ InOrder((((a \o b) \o c) \o d) \o e)
      /\ ToSet((((a \o b) \o c) \o d) \o e) = ToSet(((a \o b) \o c) \o d) \cup ToSet(e)
  <2>1. \A x \in ToSet(((a \o b) \o c) \o d), y \in ToSet(e) : Before(x.op, y.op)
    BY <1>1 DEF Before, DoTo
  <2> QED BY <1>1, <1>5, <2>1, ThenSteps
<1>7. InitializeSteps = (((a \o b) \o c) \o d) \o e
  BY Zenon DEF InitializeSteps, a, b, c, d, e
<1>8. ToSet(InitializeSteps) = UpSteps
  BY <1>1, <1>2, <1>3, <1>4, <1>5, <1>6, <1>7 DEF UpSteps
<1> QED BY <1>6, <1>7, <1>8

\* Deinitialize does everything there is to undo: it leaves the framework
\* first and unregisters the sinks before it releases a pointer.
LEMMA DeinitializeInOrder ==
  DeinitializeSteps \in Seq(Steps) /\ InOrder(DeinitializeSteps) /\ ToSet(DeinitializeSteps) = DownSteps
<1> DEFINE a == UnregisterSteps
           b == Each("unlisten", SinkInterfaces)
           c == ReleaseSteps
           d == Only("release")
           e == Only("releaseService")
           f == Only("forget")
<1>1. /\ a \in Seq(Steps) /\ InOrder(a) /\ ToSet(a) = {DoTo("unregister", x) : x \in FrameworkNames}
      /\ b \in Seq(Steps) /\ InOrder(b) /\ ToSet(b) = {DoTo("unlisten", x) : x \in SinkNames}
      /\ c \in Seq(Steps) /\ InOrder(c) /\ ToSet(c) = {DoTo("release", x) : x \in InterfaceNames}
  <2>1. /\ \A x \in FrameworkNames : DoTo("unregister", x) \in Steps
        /\ \A x \in SinkNames : DoTo("unlisten", x) \in Steps
        /\ \A x \in InterfaceNames : DoTo("release", x) \in Steps
    BY DEF Steps, DownSteps
  <2>2. a \in Seq(Steps) /\ InOrder(a) /\ ToSet(a) = {DoTo("unregister", x) : x \in FrameworkNames}
    BY NamesOfLists, EachSteps, <2>1 DEF UnregisterSteps
  <2>3. b \in Seq(Steps) /\ InOrder(b) /\ ToSet(b) = {DoTo("unlisten", x) : x \in SinkNames}
    BY NamesOfLists, EachSteps, <2>1
  <2>4. c \in Seq(Steps) /\ InOrder(c) /\ ToSet(c) = {DoTo("release", x) : x \in InterfaceNames}
    BY NamesOfLists, EachSteps, <2>1 DEF ReleaseSteps
  <2> QED BY <2>2, <2>3, <2>4
<1>2. /\ d \in Seq(Steps) /\ InOrder(d) /\ ToSet(d) = {DoTo("release", "plugin")}
      /\ e \in Seq(Steps) /\ InOrder(e) /\ ToSet(e) = {DoTo("releaseService", "plugin")}
      /\ f \in Seq(Steps) /\ InOrder(f) /\ ToSet(f) = {DoTo("forget", "plugin")}
  BY OnlyStep DEF Steps, DownSteps
<1> HIDE DEF a, b, c, d, e, f
<1>3. a \o b \in Seq(Steps) /\ InOrder(a \o b) /\ ToSet(a \o b) = ToSet(a) \cup ToSet(b)
  <2>1. \A x \in ToSet(a), y \in ToSet(b) : Before(x.op, y.op)
    BY <1>1 DEF Before, DoTo
  <2> QED BY <1>1, <2>1, ThenSteps
<1>4. (a \o b) \o c \in Seq(Steps) /\ InOrder((a \o b) \o c)
      /\ ToSet((a \o b) \o c) = ToSet(a \o b) \cup ToSet(c)
  <2>1. \A x \in ToSet(a \o b), y \in ToSet(c) : Before(x.op, y.op)
    BY <1>1 DEF Before, DoTo
  <2> QED BY <1>1, <1>3, <2>1, ThenSteps
<1>5. ((a \o b) \o c) \o d \in Seq(Steps) /\ InOrder(((a \o b) \o c) \o d)
      /\ ToSet(((a \o b) \o c) \o d) = ToSet((a \o b) \o c) \cup ToSet(d)
  <2>1. \A x \in ToSet((a \o b) \o c), y \in ToSet(d) : Before(x.op, y.op)
    BY <1>2 DEF Before, DoTo
  <2> QED BY <1>2, <1>4, <2>1, ThenSteps
<1>6. (((a \o b) \o c) \o d) \o e \in Seq(Steps) /\ InOrder((((a \o b) \o c) \o d) \o e)
      /\ ToSet((((a \o b) \o c) \o d) \o e) = ToSet(((a \o b) \o c) \o d) \cup ToSet(e)
  <2>1. \A x \in ToSet(((a \o b) \o c) \o d), y \in ToSet(e) : Before(x.op, y.op)
    BY <1>2 DEF Before, DoTo
  <2> QED BY <1>2, <1>5, <2>1, ThenSteps
<1>7. ((((a \o b) \o c) \o d) \o e) \o f \in Seq(Steps) /\ InOrder(((((a \o b) \o c) \o d) \o e) \o f)
      /\ ToSet(((((a \o b) \o c) \o d) \o e) \o f) = ToSet((((a \o b) \o c) \o d) \o e) \cup ToSet(f)
  <2>1. \A x \in ToSet((((a \o b) \o c) \o d) \o e), y \in ToSet(f) : Before(x.op, y.op)
    BY <1>2 DEF Before, DoTo
  <2> QED BY <1>2, <1>6, <2>1, ThenSteps
<1>8. DeinitializeSteps = ((((a \o b) \o c) \o d) \o e) \o f
  BY Zenon DEF DeinitializeSteps, a, b, c, d, e, f
<1>9. ToSet(DeinitializeSteps) = DownSteps
  BY <1>1, <1>2, <1>3, <1>4, <1>5, <1>6, <1>7, <1>8 DEF DownSteps
<1> QED BY <1>7, <1>8, <1>9

\* What the first step says of the rest.
LEMMA FirstStep ==
  ASSUME NEW q \in Seq(Steps), InOrder(q), q # <<>>
  PROVE  /\ Tail(q) \in Seq(Steps) /\ InOrder(Tail(q)) /\ Head(q) \in ToSet(q)
         /\ ToSet(q) = {Head(q)} \cup ToSet(Tail(q))
         /\ \A s \in ToSet(Tail(q)) : Before(Head(q).op, s.op)
<1>1. /\ Len(q) \in Nat /\ Len(q) # 0 /\ DOMAIN q = 1..Len(q) /\ Head(q) = q[1]
      /\ Tail(q) \in Seq(Steps) /\ Len(Tail(q)) = Len(q) - 1
      /\ \A i \in 1..Len(Tail(q)) : Tail(q)[i] = q[i + 1]
  BY HeadTailProperties, EmptySeq
<1>2. DOMAIN Tail(q) = 1..(Len(q) - 1)
  BY <1>1
<1>3. \A i \in DOMAIN Tail(q) : i + 1 \in DOMAIN q /\ 1 < i + 1 /\ Tail(q)[i] = q[i + 1]
  BY <1>1, <1>2
<1>4. 1 \in DOMAIN q /\ \A i \in DOMAIN q : i # 1 => i - 1 \in DOMAIN Tail(q) /\ (i - 1) + 1 = i
  BY <1>1, <1>2
<1>5. InOrder(Tail(q))
  <2> SUFFICES ASSUME NEW i \in DOMAIN Tail(q), NEW j \in DOMAIN Tail(q), i < j
               PROVE  Before(Tail(q)[i].op, Tail(q)[j].op)
    BY DEF InOrder
  <2>1. i + 1 < j + 1
    BY <1>1, <1>2
  <2> QED BY <1>3, <2>1 DEF InOrder
<1>6. Head(q) \in ToSet(q)
  BY <1>1, <1>4 DEF ToSet
<1>7. \A i \in DOMAIN q : i = 1 \/ q[i] \in ToSet(Tail(q))
  BY <1>3, <1>4 DEF ToSet
<1>8. \A i \in DOMAIN Tail(q) : Tail(q)[i] \in ToSet(q)
  BY <1>3 DEF ToSet
<1>9. ToSet(q) = {Head(q)} \cup ToSet(Tail(q))
  <2>1. \A s \in ToSet(q) : s = Head(q) \/ s \in ToSet(Tail(q))
    BY <1>1, <1>7 DEF ToSet
  <2>2. \A s \in ToSet(Tail(q)) : s \in ToSet(q)
    BY <1>8 DEF ToSet
  <2> QED BY <1>6, <2>1, <2>2
<1>10. \A s \in ToSet(Tail(q)) : Before(Head(q).op, s.op)
  BY <1>1, <1>3, <1>4 DEF ToSet, InOrder
<1> QED BY <1>1, <1>5, <1>6, <1>9, <1>10

\* The name a step is about is one its operation knows.
LEMMA StepNames ==
  /\ \A s \in UpSteps :
       /\ s.op \in {"register", "root", "configure", "query", "listen"}
       /\ s.op = "register" => s.on \in FrameworkNames
       /\ s.op = "query" => s.on \in InterfaceNames
       /\ s.op = "listen" => s.on \in SinkNames
       /\ s.op = "root" => s = DoTo("root", "plugin")
  /\ \A s \in DownSteps :
       /\ s.op \in {"unregister", "unlisten", "release", "releaseService", "forget"}
       /\ s = DoTo(s.op, s.on)
       /\ s.op \in {"releaseService", "forget"} => s.on = "plugin"
  /\ \A o, x : DoTo(o, x).op = o /\ DoTo(o, x).on = x
BY DEF UpSteps, DownSteps, DoTo, FrameworkNames, InterfaceNames, SinkNames

-----------------------------------------------------------------------------
(* The inductive invariant of the plugin's life.                           *)

Left(operation, name) == DoTo(operation, name) \in ToSet(todo)
Running(n) == process[n] \in {"created", "configured"}

\* What the variables are.
PlTypes ==
  /\ shell \in {"down", "activating", "up", "deactivating"}
  /\ todo \in Seq(Steps) /\ InOrder(todo)
  /\ mService \in BOOLEAN
  /\ activations \in Nat /\ activations <= MaxActivations
  /\ shell # "down" => activations \in Activations
  /\ DOMAIN process = Activations /\ DOMAIN sinks = Activations
  /\ registeredWith \subseteq FrameworkNames
  /\ held \subseteq InterfaceNames \cup {"plugin"}
\* The framework calls only a plugin that is registered, and the plugin has
\* its service while it is.
Attached ==
  /\ telling # 0 => "connection" \in registeredWith
  /\ registeredWith # {} => mService
\* Sinks are listed only by the present implementation, each through a
\* pointer the plugin still holds.
Listed ==
  \A n \in Activations :
    /\ n # activations => sinks[n] = {}
    /\ n = activations => sinks[n] \subseteq held \cap SinkNames
\* An implementation lives as long as somebody holds it.
LivesWhileHeld ==
  \A n \in Activations :
    /\ n > activations => process[n] = "none"
    /\ Running(n) => n \in kept \/ (n = activations /\ held # {})
\* Initialize is under way: nothing is held before the implementation exists.
Upward ==
  /\ shell = "activating" /\ mService
  /\ ToSet(todo) \subseteq UpSteps
  /\ Left("root", "plugin") => held = {}
\* Deinitialize is under way: whatever is still there, a step is left for it.
Downward ==
  /\ ToSet(todo) \subseteq DownSteps
  /\ \A x \in registeredWith : Left("unregister", x)
  /\ \A x \in held : Left("release", x)
  /\ mService => Left("releaseService", "plugin")
  /\ mConnectionId # 0 => Left("forget", "plugin")
  /\ \A n \in Activations : \A x \in sinks[n] : Left("unlisten", x)
Phase ==
  /\ shell = "down" =>
       /\ todo = <<>> /\ held = {} /\ registeredWith = {} /\ ~mService /\ mConnectionId = 0
       /\ \A n \in Activations : sinks[n] = {}
  /\ shell = "up" => todo = <<>> /\ mService
  /\ shell \in {"activating", "deactivating"} => Upward \/ Downward
PluginInv == PlTypes /\ Attached /\ Listed /\ LivesWhileHeld /\ Phase
\* Between two calls of the shell nothing is left to do; within one, the next
\* step is one of the call's, and the others follow it in order.
LEMMA NextStep ==
  ASSUME PluginInv, todo # <<>>
  PROVE  /\ shell \in {"activating", "deactivating"} /\ activations \in Activations
         /\ Upward \/ Downward
         /\ Upward => Head(todo) \in UpSteps
         /\ Downward => Head(todo) \in DownSteps
         /\ Tail(todo) \in Seq(Steps) /\ InOrder(Tail(todo)) /\ Head(todo) \in ToSet(todo)
         /\ ToSet(todo) = {Head(todo)} \cup ToSet(Tail(todo))
         /\ \A s \in ToSet(Tail(todo)) : Before(Head(todo).op, s.op)
<1>1. /\ shell \in {"activating", "deactivating"} /\ activations \in Activations
      /\ Upward \/ Downward
  BY DEF PluginInv, PlTypes, Phase
<1>2. /\ Tail(todo) \in Seq(Steps) /\ InOrder(Tail(todo)) /\ Head(todo) \in ToSet(todo)
      /\ ToSet(todo) = {Head(todo)} \cup ToSet(Tail(todo))
      /\ \A s \in ToSet(Tail(todo)) : Before(Head(todo).op, s.op)
  BY FirstStep DEF PluginInv, PlTypes
<1>3. (Upward => Head(todo) \in UpSteps) /\ (Downward => Head(todo) \in DownSteps)
  BY <1>2 DEF Upward, Downward
<1> QED BY <1>1, <1>2, <1>3

\* A step of Initialize is under way only on the way up; after the two
\* registrations comes no second implementation.
LEMMA GoingUp ==
  ASSUME PluginInv, todo # <<>>, Head(todo).op \in {"register", "root", "configure", "query", "listen"}
  PROVE  /\ Upward /\ Head(todo) \in UpSteps
         /\ Head(todo).op # "register" => DoTo("root", "plugin") \notin ToSet(Tail(todo))
<1>1. Upward /\ Head(todo) \in UpSteps
  BY NextStep, StepNames
<1>2. DoTo("root", "plugin") \in ToSet(Tail(todo)) => Before(Head(todo).op, "root")
  BY NextStep, StepNames
<1> QED BY <1>1, <1>2 DEF Before

\* A step of Deinitialize is under way only on the way down; once it is not
\* the framework's turn the framework is left, and once it is not the sinks'
\* either no sink is listed.
LEMMA GoingDown ==
  ASSUME PluginInv, todo # <<>>,
         Head(todo).op \in {"unregister", "unlisten", "release", "releaseService", "forget"}
  PROVE  /\ Downward /\ Head(todo) = DoTo(Head(todo).op, Head(todo).on)
         /\ Head(todo).op # "unregister" => registeredWith = {}
         /\ Head(todo).op \notin {"unregister", "unlisten"} => \A n \in Activations : sinks[n] = {}
<1>1. Downward /\ Head(todo) = DoTo(Head(todo).op, Head(todo).on)
  BY NextStep, StepNames
<1>2. \A s \in ToSet(todo) : s = Head(todo) \/ Before(Head(todo).op, s.op)
  BY NextStep
<1>3. \A s \in ToSet(todo) :
        /\ s.op = "unregister" => Head(todo).op = "unregister"
        /\ s.op = "unlisten" => Head(todo).op \in {"unregister", "unlisten"}
  BY <1>2 DEF Before
<1>4. Head(todo).op # "unregister" => registeredWith = {}
  <2> SUFFICES ASSUME NEW x \in registeredWith
               PROVE  Head(todo).op = "unregister"
    OBVIOUS
  <2>1. DoTo("unregister", x) \in ToSet(todo) /\ DoTo("unregister", x).op = "unregister"
    BY <1>1, StepNames DEF Downward, Left
  <2> QED BY <1>3, <2>1
<1>5. Head(todo).op \notin {"unregister", "unlisten"} => \A n \in Activations : sinks[n] = {}
  <2> SUFFICES ASSUME NEW n \in Activations, NEW x \in sinks[n]
               PROVE  Head(todo).op \in {"unregister", "unlisten"}
    OBVIOUS
  <2>1. DoTo("unlisten", x) \in ToSet(todo) /\ DoTo("unlisten", x).op = "unlisten"
    BY <1>1, StepNames DEF Downward, Left
  <2> QED BY <1>3, <2>1
<1> QED BY <1>1, <1>4, <1>5

\* Deinitialize begins with a step left for everything there may be.
LEMMA BeginDown ==
  ASSUME PluginInv, todo' = DeinitializeSteps, UNCHANGED <<held, registeredWith, sinks>>
  PROVE  Downward'
<1>1. ToSet(todo') = DownSteps
  BY DeinitializeInOrder
<1>2. \A n \in Activations : sinks[n] \subseteq SinkNames
  BY DEF PluginInv, Listed
<1>3. /\ \A x \in FrameworkNames : DoTo("unregister", x) \in DownSteps
      /\ \A x \in InterfaceNames \cup {"plugin"} : DoTo("release", x) \in DownSteps
      /\ DoTo("releaseService", "plugin") \in DownSteps /\ DoTo("forget", "plugin") \in DownSteps
      /\ \A x \in SinkNames : DoTo("unlisten", x) \in DownSteps
  BY DEF DownSteps
<1> QED BY <1>1, <1>2, <1>3 DEF PluginInv, PlTypes, Downward, Left

\* The plugin starts down, with nothing.
LEMMA PlInitInv == PlInit => PluginInv
<1> SUFFICES ASSUME PlInit PROVE PluginInv
  OBVIOUS
<1>1. PlTypes
  <2>1. todo \in Seq(Steps) /\ DOMAIN todo = {}
    BY DEF PlInit
  <2>2. InOrder(todo)
    BY <2>1 DEF InOrder
  <2>3. activations \in Nat /\ activations <= MaxActivations
    BY MaxActivationsAssumption DEF PlInit
  <2>4. DOMAIN process = Activations /\ DOMAIN sinks = Activations
    BY DEF PlInit
  <2> QED BY <2>1, <2>2, <2>3, <2>4 DEF PlInit, PlTypes
<1>2. Attached /\ Listed /\ LivesWhileHeld /\ Phase
  BY DEF PlInit, Attached, Listed, LivesWhileHeld, Running, Phase
<1> QED BY <1>1, <1>2 DEF PluginInv

\* Activation takes the service and has everything to do.
LEMMA ActivateStep ==
  PluginInv /\ Activate => PluginInv'
<1> SUFFICES ASSUME PluginInv, Activate PROVE PluginInv'
  OBVIOUS
<1>1. /\ activations + 1 \in Activations /\ activations + 1 \in Nat
      /\ activations + 1 > activations /\ activations + 1 <= MaxActivations
  BY MaxActivationsAssumption DEF Activate, PluginInv, PlTypes, Activations
<1>2. PlTypes'
  BY <1>1, InitializeInOrder DEF PluginInv, PlTypes, Activate
<1>3. Attached'
  BY <1>1, InitializeInOrder DEF PluginInv, Attached, Upward, PlTypes, Activate
<1>4. Listed'
  BY <1>1, InitializeInOrder DEF PluginInv, Listed, PlTypes, Phase, Activate
<1>5. LivesWhileHeld'
  BY <1>1, InitializeInOrder DEF PluginInv, LivesWhileHeld, Running, PlTypes, Phase, Activate
<1>6. Phase'
  BY <1>1, InitializeInOrder DEF PluginInv, Phase, Upward, Downward, Left, PlTypes, Listed, Activate
<1> QED BY <1>2, <1>3, <1>4, <1>5, <1>6 DEF PluginInv

\* The framework registers one of the two notifications.
LEMMA RegisterStep ==
  PluginInv /\ RegisterFramework => PluginInv'
<1> SUFFICES ASSUME PluginInv, RegisterFramework PROVE PluginInv'
  OBVIOUS
<1>1. todo # <<>> /\ Head(todo).op = "register"
  BY DEF RegisterFramework, Doing
<1>2. /\ Upward /\ Head(todo) \in UpSteps /\ activations \in Activations
      /\ shell \in {"activating", "deactivating"}
      /\ Tail(todo) \in Seq(Steps) /\ InOrder(Tail(todo))
      /\ ToSet(todo) = {Head(todo)} \cup ToSet(Tail(todo))
      /\ Head(todo).op # "register" => DoTo("root", "plugin") \notin ToSet(Tail(todo))
  BY <1>1, GoingUp, NextStep
<1>3. PlTypes'
  BY <1>1, <1>2, StepNames DEF PluginInv, PlTypes, RegisterFramework, Proceed, Subject
<1>4. Attached'
  BY <1>1, <1>2, StepNames DEF PluginInv, Attached, Upward, PlTypes, RegisterFramework, Proceed,
     Subject
<1>5. Listed'
  BY <1>1, <1>2, StepNames DEF PluginInv, Listed, PlTypes, Phase, RegisterFramework, Proceed,
     Subject
<1>6. LivesWhileHeld'
  BY <1>1, <1>2, StepNames DEF PluginInv, LivesWhileHeld, Running, PlTypes, Phase,
     RegisterFramework, Proceed, Subject
<1>7. Phase'
  BY <1>1, <1>2, StepNames DEF PluginInv, Phase, Upward, Downward, Left, PlTypes, Listed,
     RegisterFramework, Proceed, Subject
<1> QED BY <1>3, <1>4, <1>5, <1>6, <1>7 DEF PluginInv

\* Configure goes on, or turns to Deinitialize if the process is dead.
LEMMA ConfigureStep ==
  PluginInv /\ Configure => PluginInv'
<1> SUFFICES ASSUME PluginInv, Configure PROVE PluginInv'
  OBVIOUS
<1>1. todo # <<>> /\ Head(todo).op = "configure"
  BY DEF Configure, Doing
<1>2. /\ Upward /\ Head(todo) \in UpSteps /\ activations \in Activations
      /\ shell \in {"activating", "deactivating"}
      /\ Tail(todo) \in Seq(Steps) /\ InOrder(Tail(todo))
      /\ ToSet(todo) = {Head(todo)} \cup ToSet(Tail(todo))
      /\ Head(todo).op # "register" => DoTo("root", "plugin") \notin ToSet(Tail(todo))
  BY <1>1, GoingUp, NextStep
<1>3. todo' = DeinitializeSteps => Downward'
  BY BeginDown DEF Configure
<1>4. PlTypes'
  BY <1>1, <1>2, <1>3, DeinitializeInOrder DEF PluginInv, PlTypes, Configure, Proceed, Alive
<1>5. Attached'
  BY <1>1, <1>2, <1>3, DeinitializeInOrder DEF PluginInv, Attached, Upward, PlTypes, Configure,
     Proceed, Alive
<1>6. Listed'
  BY <1>1, <1>2, <1>3, DeinitializeInOrder DEF PluginInv, Listed, PlTypes, Phase, Configure,
     Proceed, Alive
<1>7. LivesWhileHeld'
  BY <1>1, <1>2, <1>3, DeinitializeInOrder DEF PluginInv, LivesWhileHeld, Running, PlTypes,
     Phase, Configure, Proceed, Alive
<1>8. Phase'
  BY <1>1, <1>2, <1>3, DeinitializeInOrder DEF PluginInv, Phase, Upward, Downward, Left,
     PlTypes, Listed, Configure, Proceed, Alive
<1> QED BY <1>4, <1>5, <1>6, <1>7, <1>8 DEF PluginInv

\* The implementation is created, or Initialize turns to Deinitialize.
LEMMA RootStep ==
  PluginInv /\ Root => PluginInv'
<1> SUFFICES ASSUME PluginInv, Root PROVE PluginInv'
  OBVIOUS
<1>1. todo # <<>> /\ Head(todo).op = "root"
  BY DEF Root, Doing
<1>2. /\ Upward /\ Head(todo) \in UpSteps /\ activations \in Activations
      /\ shell \in {"activating", "deactivating"}
      /\ Tail(todo) \in Seq(Steps) /\ InOrder(Tail(todo))
      /\ ToSet(todo) = {Head(todo)} \cup ToSet(Tail(todo))
      /\ Head(todo).op # "register" => DoTo("root", "plugin") \notin ToSet(Tail(todo))
  BY <1>1, GoingUp, NextStep
<1>3. held = {}
  BY <1>1, <1>2, StepNames DEF Upward, Left
<1>4. \/ todo' = Tail(todo) /\ held' = {"plugin"}
      \/ todo' = DeinitializeSteps /\ held' = {} /\ Downward' /\ UNCHANGED process
  BY <1>3, BeginDown DEF Root, Proceed
<1>5. PlTypes'
  BY <1>1, <1>2, <1>3, <1>4, DeinitializeInOrder, StepNames DEF PluginInv, PlTypes, Root, Proceed
<1>6. Attached'
  BY <1>1, <1>2, <1>3, <1>4, DeinitializeInOrder, StepNames DEF PluginInv, Attached, Upward,
     PlTypes, Root, Proceed
<1>7. Listed'
  BY <1>1, <1>2, <1>3, <1>4, DeinitializeInOrder, StepNames DEF PluginInv, Listed, PlTypes,
     Phase, Root, Proceed
<1>8. LivesWhileHeld'
  <2> SUFFICES ASSUME NEW n \in Activations
               PROVE  /\ n > activations => process'[n] = "none"
                      /\ process'[n] \in {"created", "configured"} =>
                           n \in kept \/ (n = activations /\ held' # {})
    BY DEF LivesWhileHeld, Running, Root
  <2>1. CASE UNCHANGED <<process, held>>
    BY <2>1 DEF PluginInv, LivesWhileHeld, Running
  <2>2. CASE held' = {"plugin"} /\ process' = [process EXCEPT ![activations] = "created"]
    BY <2>2, <1>2, MaxActivationsAssumption DEF PluginInv, LivesWhileHeld, Running,
       PlTypes, Activations, Upward
  <2> QED BY <2>1, <2>2 DEF Root
<1>9. Phase'
  BY <1>1, <1>2, <1>3, <1>4, DeinitializeInOrder, StepNames DEF PluginInv, Phase, Upward,
     Downward, Left, PlTypes, Listed, Root, Proceed
<1> QED BY <1>5, <1>6, <1>7, <1>8, <1>9 DEF PluginInv

\* An interface is given or missing.
LEMMA QueryStep ==
  PluginInv /\ QueryInterface => PluginInv'
<1> SUFFICES ASSUME PluginInv, QueryInterface PROVE PluginInv'
  OBVIOUS
<1>1. todo # <<>> /\ Head(todo).op = "query"
  BY DEF QueryInterface, Doing
<1>2. /\ Upward /\ Head(todo) \in UpSteps /\ activations \in Activations
      /\ shell \in {"activating", "deactivating"}
      /\ Tail(todo) \in Seq(Steps) /\ InOrder(Tail(todo))
      /\ ToSet(todo) = {Head(todo)} \cup ToSet(Tail(todo))
      /\ Head(todo).op # "register" => DoTo("root", "plugin") \notin ToSet(Tail(todo))
  BY <1>1, GoingUp, NextStep
<1>3. PlTypes'
  BY <1>1, <1>2, StepNames DEF PluginInv, PlTypes, QueryInterface, Proceed, Subject, Alive
<1>4. Attached'
  BY <1>1, <1>2, StepNames DEF PluginInv, Attached, Upward, PlTypes, QueryInterface, Proceed,
     Subject, Alive
<1>5. Listed'
  BY <1>1, <1>2, StepNames DEF PluginInv, Listed, PlTypes, Phase, QueryInterface, Proceed,
     Subject, Alive
<1>6. LivesWhileHeld'
  BY <1>1, <1>2, StepNames DEF PluginInv, LivesWhileHeld, Running, PlTypes, Phase,
     QueryInterface, Proceed, Subject, Alive
<1>7. Phase'
  BY <1>1, <1>2, StepNames DEF PluginInv, Phase, Upward, Downward, Left, PlTypes, Listed,
     QueryInterface, Proceed, Subject, Alive
<1> QED BY <1>3, <1>4, <1>5, <1>6, <1>7 DEF PluginInv

\* A component lists the sink through a pointer that is held.
LEMMA ListenStep ==
  PluginInv /\ RegisterSink => PluginInv'
<1> SUFFICES ASSUME PluginInv, RegisterSink PROVE PluginInv'
  OBVIOUS
<1>1. todo # <<>> /\ Head(todo).op = "listen"
  BY DEF RegisterSink, Doing
<1>2. /\ Upward /\ Head(todo) \in UpSteps /\ activations \in Activations
      /\ shell \in {"activating", "deactivating"}
      /\ Tail(todo) \in Seq(Steps) /\ InOrder(Tail(todo))
      /\ ToSet(todo) = {Head(todo)} \cup ToSet(Tail(todo))
      /\ Head(todo).op # "register" => DoTo("root", "plugin") \notin ToSet(Tail(todo))
  BY <1>1, GoingUp, NextStep
<1>3. PlTypes'
  BY <1>1, <1>2, StepNames DEF PluginInv, PlTypes, RegisterSink, Proceed, Subject
<1>4. Attached'
  BY <1>1, <1>2, StepNames DEF PluginInv, Attached, Upward, PlTypes, RegisterSink, Proceed, Subject
<1>5. Listed'
  BY <1>1, <1>2, StepNames DEF PluginInv, Listed, PlTypes, Phase, RegisterSink, Proceed, Subject
<1>6. LivesWhileHeld'
  BY <1>1, <1>2, StepNames DEF PluginInv, LivesWhileHeld, Running, PlTypes, Phase, RegisterSink,
     Proceed, Subject
<1>7. Phase'
  BY <1>1, <1>2, StepNames DEF PluginInv, Phase, Upward, Downward, Left, PlTypes, Listed,
     RegisterSink, Proceed, Subject
<1> QED BY <1>3, <1>4, <1>5, <1>6, <1>7 DEF PluginInv

\* A call that has nothing left to do leaves the plugin up or down.
LEMMA ReturnsStep ==
  PluginInv /\ Returns => PluginInv'
<1> SUFFICES ASSUME PluginInv, Returns PROVE PluginInv'
  OBVIOUS
<1>1. \A o, x : ~Left(o, x)
  BY DEF Returns, Left, ToSet
<1>2. PlTypes'
  BY <1>1 DEF PluginInv, PlTypes, Returns
<1>3. Attached'
  BY <1>1 DEF PluginInv, Attached, Upward, PlTypes, Returns
<1>4. Listed'
  BY <1>1 DEF PluginInv, Listed, PlTypes, Phase, Returns
<1>5. LivesWhileHeld'
  BY <1>1 DEF PluginInv, LivesWhileHeld, Running, PlTypes, Phase, Returns
<1>6. Phase'
  BY <1>1 DEF PluginInv, Phase, Upward, Downward, Left, PlTypes, Listed, Returns
<1> QED BY <1>2, <1>3, <1>4, <1>5, <1>6 DEF PluginInv

\* Deinitialize begins.
LEMMA DeinitializeStep ==
  PluginInv /\ Deinitialize => PluginInv'
<1> SUFFICES ASSUME PluginInv, Deinitialize PROVE PluginInv'
  OBVIOUS
<1>1. Downward'
  BY BeginDown DEF Deinitialize
<1>2. PlTypes'
  BY <1>1, DeinitializeInOrder DEF PluginInv, PlTypes, Deinitialize
<1>3. Attached'
  BY <1>1, DeinitializeInOrder DEF PluginInv, Attached, Upward, PlTypes, Deinitialize
<1>4. Listed'
  BY <1>1, DeinitializeInOrder DEF PluginInv, Listed, PlTypes, Phase, Deinitialize
<1>5. LivesWhileHeld'
  BY <1>1, DeinitializeInOrder DEF PluginInv, LivesWhileHeld, Running, PlTypes, Phase, Deinitialize
<1>6. Phase'
  BY <1>1, DeinitializeInOrder DEF PluginInv, Phase, Upward, Downward, Left, PlTypes, Listed,
     Deinitialize
<1> QED BY <1>2, <1>3, <1>4, <1>5, <1>6 DEF PluginInv

\* The framework forgets one of the two notifications.
LEMMA UnregisterStep ==
  PluginInv /\ UnregisterFramework => PluginInv'
<1> SUFFICES ASSUME PluginInv, UnregisterFramework PROVE PluginInv'
  OBVIOUS
<1>1. todo # <<>> /\ Head(todo).op = "unregister"
  BY DEF UnregisterFramework, Doing
<1>2. /\ Downward /\ Head(todo) = DoTo("unregister", Subject) /\ activations \in Activations
      /\ shell \in {"activating", "deactivating"}
      /\ Tail(todo) \in Seq(Steps) /\ InOrder(Tail(todo))
      /\ ToSet(todo) = {Head(todo)} \cup ToSet(Tail(todo))
  BY <1>1, GoingDown, NextStep DEF Subject
<1>3. PlTypes'
  BY <1>1, <1>2, StepNames DEF PluginInv, PlTypes, UnregisterFramework, Proceed
<1>4. Attached'
  BY <1>1, <1>2, StepNames DEF PluginInv, Attached, Upward, PlTypes, UnregisterFramework, Proceed
<1>5. Listed'
  BY <1>1, <1>2, StepNames DEF PluginInv, Listed, PlTypes, Phase, UnregisterFramework, Proceed
<1>6. LivesWhileHeld'
  BY <1>1, <1>2, StepNames DEF PluginInv, LivesWhileHeld, Running, PlTypes, Phase,
     UnregisterFramework, Proceed
<1>7. Phase'
  BY <1>1, <1>2, StepNames DEF PluginInv, Phase, Upward, Downward, Left, PlTypes, Listed,
     UnregisterFramework, Proceed
<1> QED BY <1>3, <1>4, <1>5, <1>6, <1>7 DEF PluginInv

\* A component forgets the sink.
LEMMA UnlistenStep ==
  PluginInv /\ UnregisterSink => PluginInv'
<1> SUFFICES ASSUME PluginInv, UnregisterSink PROVE PluginInv'
  OBVIOUS
<1>1. todo # <<>> /\ Head(todo).op = "unlisten"
  BY DEF UnregisterSink, Doing
<1>2. /\ Downward /\ Head(todo) = DoTo("unlisten", Subject) /\ activations \in Activations
      /\ shell \in {"activating", "deactivating"}
      /\ Tail(todo) \in Seq(Steps) /\ InOrder(Tail(todo))
      /\ ToSet(todo) = {Head(todo)} \cup ToSet(Tail(todo))
  BY <1>1, GoingDown, NextStep DEF Subject
<1>3. PlTypes'
  BY <1>1, <1>2, StepNames DEF PluginInv, PlTypes, UnregisterSink, Proceed
<1>4. Attached'
  BY <1>1, <1>2, StepNames DEF PluginInv, Attached, Upward, PlTypes, UnregisterSink, Proceed
<1>5. Listed'
  BY <1>1, <1>2, StepNames DEF PluginInv, Listed, PlTypes, Phase, UnregisterSink, Proceed
<1>6. LivesWhileHeld'
  BY <1>1, <1>2, StepNames DEF PluginInv, LivesWhileHeld, Running, PlTypes, Phase,
     UnregisterSink, Proceed
<1>7. Phase'
  BY <1>1, <1>2, StepNames DEF PluginInv, Phase, Upward, Downward, Left, PlTypes, Listed,
     UnregisterSink, Proceed
<1> QED BY <1>3, <1>4, <1>5, <1>6, <1>7 DEF PluginInv

\* A pointer is released, perhaps the last.
LEMMA ReleaseStep ==
  PluginInv /\ Release => PluginInv'
<1> SUFFICES ASSUME PluginInv, Release PROVE PluginInv'
  OBVIOUS
<1>1. todo # <<>> /\ Head(todo).op = "release"
  BY DEF Release, Doing
<1>2. /\ Downward /\ Head(todo) = DoTo("release", Subject) /\ activations \in Activations
      /\ shell \in {"activating", "deactivating"}
      /\ Tail(todo) \in Seq(Steps) /\ InOrder(Tail(todo))
      /\ ToSet(todo) = {Head(todo)} \cup ToSet(Tail(todo))
  BY <1>1, GoingDown, NextStep DEF Subject
<1>3. registeredWith = {} /\ \A n \in Activations : sinks[n] = {}
  BY <1>1, GoingDown
<1>4. PlTypes'
  BY <1>1, <1>2, <1>3, StepNames DEF PluginInv, PlTypes, Release, Proceed, Alive, Destroyed
<1>5. Attached'
  BY <1>1, <1>2, <1>3, StepNames DEF PluginInv, Attached, Upward, PlTypes, Release, Proceed,
     Alive, Destroyed
<1>6. Listed'
  BY <1>1, <1>2, <1>3, StepNames DEF PluginInv, Listed, PlTypes, Phase, Release, Proceed, Alive,
     Destroyed
<1>7. LivesWhileHeld'
  BY <1>1, <1>2, <1>3, StepNames DEF PluginInv, LivesWhileHeld, Running, PlTypes, Phase,
     Release, Proceed, Alive, Destroyed
<1>8. Phase'
  BY <1>1, <1>2, <1>3, StepNames DEF PluginInv, Phase, Upward, Downward, Left, PlTypes, Listed,
     Release, Proceed, Alive, Destroyed
<1> QED BY <1>4, <1>5, <1>6, <1>7, <1>8 DEF PluginInv

\* The service is given up once the framework is left.
LEMMA ReleaseServiceStep ==
  PluginInv /\ ReleaseService => PluginInv'
<1> SUFFICES ASSUME PluginInv, ReleaseService PROVE PluginInv'
  OBVIOUS
<1>1. todo # <<>> /\ Head(todo).op = "releaseService"
  BY DEF ReleaseService, Doing
<1>2. /\ Downward /\ Head(todo) = DoTo("releaseService", Subject) /\ activations \in Activations
      /\ shell \in {"activating", "deactivating"}
      /\ Tail(todo) \in Seq(Steps) /\ InOrder(Tail(todo))
      /\ ToSet(todo) = {Head(todo)} \cup ToSet(Tail(todo))
  BY <1>1, GoingDown, NextStep DEF Subject
<1>3. registeredWith = {}
  BY <1>1, GoingDown
<1>4. PlTypes'
  BY <1>1, <1>2, <1>3, StepNames DEF PluginInv, PlTypes, ReleaseService, Proceed
<1>5. Attached'
  BY <1>1, <1>2, <1>3, StepNames DEF PluginInv, Attached, Upward, PlTypes, ReleaseService, Proceed
<1>6. Listed'
  BY <1>1, <1>2, <1>3, StepNames DEF PluginInv, Listed, PlTypes, Phase, ReleaseService, Proceed
<1>7. LivesWhileHeld'
  BY <1>1, <1>2, <1>3, StepNames DEF PluginInv, LivesWhileHeld, Running, PlTypes, Phase,
     ReleaseService, Proceed
<1>8. Phase'
  BY <1>1, <1>2, <1>3, StepNames DEF PluginInv, Phase, Upward, Downward, Left, PlTypes, Listed,
     ReleaseService, Proceed
<1> QED BY <1>4, <1>5, <1>6, <1>7, <1>8 DEF PluginInv

\* The connection is forgotten.
LEMMA ForgetStep ==
  PluginInv /\ ForgetConnection => PluginInv'
<1> SUFFICES ASSUME PluginInv, ForgetConnection PROVE PluginInv'
  OBVIOUS
<1>1. todo # <<>> /\ Head(todo).op = "forget"
  BY DEF ForgetConnection, Doing
<1>2. /\ Downward /\ Head(todo) = DoTo("forget", Subject) /\ activations \in Activations
      /\ shell \in {"activating", "deactivating"}
      /\ Tail(todo) \in Seq(Steps) /\ InOrder(Tail(todo))
      /\ ToSet(todo) = {Head(todo)} \cup ToSet(Tail(todo))
  BY <1>1, GoingDown, NextStep DEF Subject
<1>3. PlTypes'
  BY <1>1, <1>2, StepNames DEF PluginInv, PlTypes, ForgetConnection, Proceed
<1>4. Attached'
  BY <1>1, <1>2, StepNames DEF PluginInv, Attached, Upward, PlTypes, ForgetConnection, Proceed
<1>5. Listed'
  BY <1>1, <1>2, StepNames DEF PluginInv, Listed, PlTypes, Phase, ForgetConnection, Proceed
<1>6. LivesWhileHeld'
  BY <1>1, <1>2, StepNames DEF PluginInv, LivesWhileHeld, Running, PlTypes, Phase,
     ForgetConnection, Proceed
<1>7. Phase'
  BY <1>1, <1>2, StepNames DEF PluginInv, Phase, Upward, Downward, Left, PlTypes, Listed,
     ForgetConnection, Proceed
<1> QED BY <1>3, <1>4, <1>5, <1>6, <1>7 DEF PluginInv

\* The process dies, with the lists of sinks it kept.
LEMMA DiesStep ==
  PluginInv /\ ProcessDies => PluginInv'
<1> SUFFICES ASSUME PluginInv, ProcessDies PROVE PluginInv'
  OBVIOUS
<1>1. PlTypes'
  BY DEF PluginInv, PlTypes, ProcessDies, Alive
<1>2. Attached'
  BY DEF PluginInv, Attached, Upward, PlTypes, ProcessDies, Alive
<1>3. Listed'
  BY DEF PluginInv, Listed, PlTypes, Phase, ProcessDies, Alive
<1>4. LivesWhileHeld'
  BY DEF PluginInv, LivesWhileHeld, Running, PlTypes, Phase, ProcessDies, Alive
<1>5. Phase'
  BY DEF PluginInv, Phase, Upward, Downward, Left, PlTypes, Listed, ProcessDies, Alive
<1> QED BY <1>1, <1>2, <1>3, <1>4, <1>5 DEF PluginInv

\* A client keeps a reference.
LEMMA KeepsStep ==
  PluginInv /\ ClientKeeps => PluginInv'
<1> SUFFICES ASSUME PluginInv, ClientKeeps PROVE PluginInv'
  OBVIOUS
<1>1. PlTypes'
  BY DEF PluginInv, PlTypes, ClientKeeps
<1>2. Attached'
  BY DEF PluginInv, Attached, Upward, PlTypes, ClientKeeps
<1>3. Listed'
  BY DEF PluginInv, Listed, PlTypes, Phase, ClientKeeps
<1>4. LivesWhileHeld'
  BY DEF PluginInv, LivesWhileHeld, Running, PlTypes, Phase, ClientKeeps
<1>5. Phase'
  BY DEF PluginInv, Phase, Upward, Downward, Left, PlTypes, Listed, ClientKeeps
<1> QED BY <1>1, <1>2, <1>3, <1>4, <1>5 DEF PluginInv

\* The exit has been told.
LEMMA DeactivatedStep ==
  PluginInv /\ Deactivated => PluginInv'
<1> SUFFICES ASSUME PluginInv, Deactivated PROVE PluginInv'
  OBVIOUS
<1>1. PlTypes'
  BY DEF PluginInv, PlTypes, Deactivated
<1>2. Attached'
  BY DEF PluginInv, Attached, Upward, PlTypes, Deactivated
<1>3. Listed'
  BY DEF PluginInv, Listed, PlTypes, Phase, Deactivated
<1>4. LivesWhileHeld'
  BY DEF PluginInv, LivesWhileHeld, Running, PlTypes, Phase, Deactivated
<1>5. Phase'
  BY DEF PluginInv, Phase, Upward, Downward, Left, PlTypes, Listed, Deactivated
<1> QED BY <1>1, <1>2, <1>3, <1>4, <1>5 DEF PluginInv

\* A client's reference goes, perhaps the last.
LEMMA ReleasesStep ==
  ASSUME NEW n \in Activations, PluginInv, ClientReleases(n)
  PROVE  PluginInv'
<1>1. PlTypes'
  BY DEF PluginInv, PlTypes, ClientReleases, Destroyed
<1>2. Attached'
  BY DEF PluginInv, Attached, Upward, PlTypes, ClientReleases, Destroyed
<1>3. Listed'
  BY DEF PluginInv, Listed, PlTypes, Phase, ClientReleases, Destroyed
<1>4. LivesWhileHeld'
  BY DEF PluginInv, LivesWhileHeld, Running, PlTypes, Phase, ClientReleases, Destroyed
<1>5. Phase'
  BY DEF PluginInv, Phase, Upward, Downward, Left, PlTypes, Listed, ClientReleases, Destroyed
<1> QED BY <1>1, <1>2, <1>3, <1>4, <1>5 DEF PluginInv

\* An exit is told to whoever is registered.
LEMMA TellStep ==
  ASSUME NEW n \in Activations, PluginInv, Tell(n)
  PROVE  PluginInv'
<1>1. PlTypes'
  BY DEF PluginInv, PlTypes, Tell
<1>2. Attached'
  BY DEF PluginInv, Attached, Upward, PlTypes, Tell
<1>3. Listed'
  BY DEF PluginInv, Listed, PlTypes, Phase, Tell
<1>4. LivesWhileHeld'
  BY DEF PluginInv, LivesWhileHeld, Running, PlTypes, Phase, Tell
<1>5. Phase'
  BY DEF PluginInv, Phase, Upward, Downward, Left, PlTypes, Listed, Tell
<1> QED BY <1>1, <1>2, <1>3, <1>4, <1>5 DEF PluginInv

\* Every step of the shell, the framework, the worker pool, the process and
\* the clients keeps the invariant.
LEMMA PluginStep == PluginInv /\ [PlNext]_plVars => PluginInv'
<1> SUFFICES ASSUME PluginInv, [PlNext]_plVars PROVE PluginInv'
  OBVIOUS
<1>1. CASE ShellStep
  BY <1>1, RegisterStep, RootStep, ConfigureStep, QueryStep, ListenStep, ReturnsStep, UnregisterStep,
     UnlistenStep, ReleaseStep, ReleaseServiceStep, ForgetStep DEF ShellStep
<1>2. CASE FrameworkStep
  BY <1>2, TellStep, DeactivatedStep DEF FrameworkStep
<1>3. ASSUME shell = "down", UNCHANGED <<shell, todo, outOfProcess, mService, mConnectionId, held,
                  registeredWith, process, sinks, kept, exits, telling, activations, missing>>
      PROVE  PluginInv'
  BY <1>3 DEF PluginInv, PlTypes, Attached, Listed, LivesWhileHeld, Running, Phase, Upward,
              Downward, Left
<1>4. CASE PlRunJob
  BY <1>3, <1>4, DeinitializeStep DEF PlRunJob
<1>5. CASE Activate \/ Deactivate
  BY <1>5, ActivateStep, DeinitializeStep DEF Deactivate
<1>6. CASE ProcessDies \/ ClientKeeps
  BY <1>6, DiesStep, KeepsStep
<1>7. CASE \E n \in Activations : ClientReleases(n)
  BY <1>7, ReleasesStep
<1>8. CASE UNCHANGED plVars
  BY <1>8 DEF plVars, PluginInv, PlTypes, Attached, Listed, LivesWhileHeld, Running, Phase, Upward,
              Downward, Left
<1> QED BY <1>1, <1>2, <1>4, <1>5, <1>6, <1>7, <1>8 DEF PlNext

\* A plugin that is down holds and is held by nothing, whichever step of
\* Initialize failed and whenever the process died, and the framework's
\* thread finds the service that Deactivated asserts, for any number of
\* activations.
THEOREM DownIsClean == PlSpec => []CleanWhenDown
<1>1. PluginInv => CleanWhenDown
  BY DEF PluginInv, Attached, Phase, CleanWhenDown, HoldsNothingWhenDown, DeactivatedFindsService
<1> QED BY PlInitInv, PluginStep, <1>1, PTL DEF PlSpec

\* Only a client's reference keeps the implementation of an earlier
\* activation: Deinitialize releases every pointer the plugin took, for any
\* number of activations.
THEOREM OldOnesAreReleased == PlSpec => []OldOnesAreKept
<1>1. PluginInv => OldOnesAreKept
  BY DEF PluginInv, LivesWhileHeld, Running, Phase, OldOnesAreKept
<1> QED BY PlInitInv, PluginStep, <1>1, PTL DEF PlSpec

-----------------------------------------------------------------------------
(* A death is never overlooked.                                            *)

\* What DeathIsNoticed needs of every state: when the process of a plugin that
\* is up is dead, the framework still has to tell it, and will, or is telling
\* it, or a job is queued that takes the plugin down; the plugin never rests on
\* a dead connection (Notification::Deactivated, the DEACTIVATED job).
DeathIsOnItsWay ==
  \A n \in Activations : shell = "up" /\ mConnectionId = n /\ process[n] = "dead" =>
    ("connection" \in registeredWith /\ n \in exits) \/ telling = n \/ plJobs > 0

\* The plugin listens to the framework before it has a connection to lose, and
\* until it is about to forget it.
Listens ==
  /\ Left("root", "plugin") => "connection" \in registeredWith \/ Left("register", "connection")
  /\ mConnectionId # 0 => "connection" \in registeredWith \/ Left("forget", "plugin")
Noticed ==
  \A n \in Activations : mConnectionId = n /\ process[n] = "dead" =>
    n \in exits \/ telling = n \/ plJobs > 0 \/ Left("forget", "plugin")
NoticeInv == plJobs \in Nat /\ Listens /\ Noticed

\* A step that goes on leaves the other steps to be done.
LEMMA GoesOn ==
  ASSUME PluginInv, todo # <<>>, Proceed
  PROVE  \A o, x : /\ o # Head(todo).op => Left(o, x)' = Left(o, x)
                   /\ Left(o, x)' => Left(o, x)
                   /\ Left(o, x) /\ Head(todo) # DoTo(o, x) => Left(o, x)'
<1>1. todo' = Tail(todo) /\ ToSet(todo) = {Head(todo)} \cup ToSet(Tail(todo))
  BY NextStep DEF Proceed
<1>2. \A o, x : DoTo(o, x).op = o
  BY StepNames
<1> QED BY <1>1, <1>2 DEF Left

\* A step that leaves the connection, its process and the framework alone.
LEMMA NoticeStays ==
  ASSUME NoticeInv, UNCHANGED <<registeredWith, mConnectionId, telling>>, plJobs' \in Nat,
         plJobs > 0 => plJobs' > 0, exits \subseteq exits',
         \A n \in Activations : process'[n] = "dead" => process[n] = "dead" \/ n \in exits',
         Left("forget", "plugin") => Left("forget", "plugin")',
         Left("root", "plugin")' => Left("root", "plugin"),
         Left("register", "connection") => Left("register", "connection")'
  PROVE  NoticeInv'
<1>1. Listens'
  BY DEF NoticeInv, Listens
<1>2. Noticed'
  BY DEF NoticeInv, Noticed
<1> QED BY <1>1, <1>2 DEF NoticeInv

\* Whatever still has to be done on the way down, forgetting is.
LEMMA DownForgets ==
  ASSUME todo' = DeinitializeSteps, plJobs' \in Nat
  PROVE  NoticeInv'
<1>1. ToSet(todo') = DownSteps
  BY DeinitializeInOrder
<1>2. DoTo("forget", "plugin") \in DownSteps /\ DoTo("root", "plugin") \notin DownSteps
  BY StepNames DEF DownSteps
<1>3. Left("forget", "plugin")' /\ ~Left("root", "plugin")'
  BY <1>1, <1>2 DEF Left
<1> QED BY <1>3 DEF NoticeInv, Listens, Noticed

\* The steps of Initialize.
LEMMA NoticeUp ==
  ASSUME PluginInv, NoticeInv,
         RegisterFramework \/ Root \/ Configure \/ QueryInterface \/ RegisterSink
  PROVE  NoticeInv'
<1>0. /\ todo # <<>> /\ Head(todo).op \in {"register", "root", "configure", "query", "listen"}
      /\ plJobs' = plJobs /\ plJobs' \in Nat
  BY DEF RegisterFramework, Root, Configure, QueryInterface, RegisterSink, Doing, NoticeInv
<1>1. /\ Upward /\ Head(todo) \in UpSteps /\ activations \in Activations
      /\ \A s \in ToSet(Tail(todo)) : Before(Head(todo).op, s.op)
  BY <1>0, GoingUp, NextStep
<1>2. ~Left("forget", "plugin") /\ DOMAIN process = Activations
  BY <1>1, StepNames DEF Upward, Left, PluginInv, PlTypes
<1>3. CASE RegisterFramework
  <2>1. /\ Proceed /\ registeredWith' = registeredWith \cup {Head(todo).on} /\ Head(todo).op = "register"
        /\ UNCHANGED <<mConnectionId, process, exits, telling, plJobs>>
    BY <1>3 DEF RegisterFramework, Doing, Subject
  <2>2. /\ Left("root", "plugin")' => Left("root", "plugin")
        /\ Left("register", "connection") =>
             Left("register", "connection")' \/ Head(todo) = DoTo("register", "connection")
    BY <1>0, <2>1, GoesOn
  <2>3. Head(todo) = DoTo("register", "connection") => "connection" \in registeredWith'
    BY <2>1, StepNames
  <2>4. Listens'
    BY <1>2, <2>1, <2>2, <2>3 DEF NoticeInv, Listens
  <2>5. Noticed'
    BY <1>2, <2>1 DEF NoticeInv, Noticed
  <2> QED BY <1>0, <2>4, <2>5 DEF NoticeInv
<1>4. CASE Root
  <2>1. CASE todo' = DeinitializeSteps
    BY <1>0, <2>1, DownForgets
  <2>2. CASE Proceed /\ process' = [process EXCEPT ![activations] = "created"]
             /\ mConnectionId' = IF outOfProcess THEN activations ELSE 0
    <3>1. Head(todo).op = "root" /\ Head(todo) = DoTo("root", "plugin") /\ registeredWith' = registeredWith
      BY <1>1, <1>4, StepNames DEF Root, Doing
    <3>2. Left("root", "plugin") /\ ~Left("root", "plugin")' /\ ~Left("register", "connection")
      <4>1. /\ ToSet(todo) = {Head(todo)} \cup ToSet(Tail(todo)) /\ todo' = Tail(todo)
        BY <1>0, <2>2, NextStep DEF Proceed
      <4>2. \A s \in ToSet(Tail(todo)) : s.op \notin {"root", "register"}
        BY <1>1, <3>1 DEF Before
      <4> QED BY <3>1, <4>1, <4>2, StepNames DEF Left
    <3>3. "connection" \in registeredWith
      BY <3>2 DEF NoticeInv, Listens
    <3>4. \A n \in Activations : mConnectionId' = n => process'[n] = "created"
      BY <1>1, <1>2, <2>2 DEF Activations
    <3> QED BY <1>0, <3>1, <3>2, <3>3, <3>4 DEF NoticeInv, Listens, Noticed
  <2> QED BY <1>4, <2>1, <2>2 DEF Root
<1>5. CASE Configure \/ QueryInterface \/ RegisterSink
  <2>1. CASE todo' = DeinitializeSteps
    BY <1>0, <2>1, DownForgets
  <2>2. CASE Proceed
    <3>1. /\ Head(todo).op \notin {"root", "register"}
          /\ UNCHANGED <<registeredWith, mConnectionId, telling, exits>>
      BY <1>5 DEF Configure, QueryInterface, RegisterSink, Doing
    <3>2. \A n \in Activations : process'[n] = "dead" => process[n] = "dead"
      BY <1>1, <1>2, <1>5 DEF Configure, QueryInterface, RegisterSink
    <3>3. /\ Left("root", "plugin")' => Left("root", "plugin")
          /\ Left("register", "connection") => Left("register", "connection")'
      BY <1>0, <2>2, <3>1, GoesOn
    <3> QED BY <1>0, <1>2, <3>1, <3>2, <3>3, NoticeStays
  <2> QED BY <1>5, <2>1, <2>2 DEF Configure, QueryInterface, RegisterSink
<1> QED BY <1>3, <1>4, <1>5

\* The steps of Deinitialize.
LEMMA NoticeDown ==
  ASSUME PluginInv, NoticeInv,
         UnregisterFramework \/ UnregisterSink \/ Release \/ ReleaseService \/ ForgetConnection
  PROVE  NoticeInv'
<1>0. /\ todo # <<>> /\ Proceed
      /\ Head(todo).op \in {"unregister", "unlisten", "release", "releaseService", "forget"}
      /\ UNCHANGED <<plJobs, telling>> /\ plJobs' \in Nat
  BY DEF UnregisterFramework, UnregisterSink, Release, ReleaseService, ForgetConnection, Doing, NoticeInv
<1>1. Downward /\ (mConnectionId # 0 => Left("forget", "plugin"))
  BY <1>0, GoingDown DEF Downward
<1>2. ~Left("root", "plugin") /\ ~Left("root", "plugin")'
  BY <1>0, <1>1, GoesOn, StepNames DEF Downward, Left
<1>3. CASE Head(todo).op = "forget"
  <2>1. mConnectionId' = 0
    BY <1>3 DEF UnregisterFramework, UnregisterSink, Release, ReleaseService, ForgetConnection, Doing
  <2> QED BY <1>0, <1>2, <2>1 DEF NoticeInv, Listens, Noticed, Activations
<1>4. CASE Head(todo).op # "forget"
  <2>1. mConnectionId' = mConnectionId
    BY <1>4 DEF UnregisterFramework, UnregisterSink, Release, ReleaseService, ForgetConnection, Doing
  <2>2. Left("forget", "plugin")' = Left("forget", "plugin")
    BY <1>0, <1>4, GoesOn
  <2> QED BY <1>0, <1>1, <1>2, <2>1, <2>2 DEF NoticeInv, Listens, Noticed, Activations
<1> QED BY <1>3, <1>4

\* The shell's calls, the process, the clients, the framework and the jobs.
LEMMA NoticeOthers ==
  ASSUME PluginInv, NoticeInv,
         \/ Activate \/ Returns \/ Deactivate \/ PlRunJob \/ ProcessDies \/ ClientKeeps
         \/ FrameworkStep \/ UNCHANGED plVars
         \/ \E n \in Activations : ClientReleases(n)
  PROVE  NoticeInv'
<1> USE DEF NoticeInv
<1>1. CASE Activate
  <2>1. /\ mConnectionId = 0 /\ mConnectionId' = 0 /\ plJobs' = plJobs /\ todo' = InitializeSteps
    BY <1>1 DEF Activate, PluginInv, Phase
  <2>2. Left("register", "connection")'
    BY <2>1, InitializeInOrder DEF Left, UpSteps, FrameworkNames
  <2> QED BY <2>1, <2>2 DEF Listens, Noticed, Activations
<1>2. CASE Deactivate
  BY <1>2, DownForgets DEF Deactivate, Deinitialize
<1>3. CASE PlRunJob
  <2>1. plJobs' \in Nat
    BY <1>3 DEF PlRunJob
  <2>2. CASE Deinitialize
    BY <2>1, <2>2, DownForgets DEF Deinitialize
  <2>3. CASE shell = "down" /\ UNCHANGED <<todo, mConnectionId, registeredWith>>
    <3>1. mConnectionId = 0
      BY <2>3 DEF PluginInv, Phase
    <3> QED BY <2>1, <2>3, <3>1 DEF Listens, Noticed, Activations, Left
  <2> QED BY <1>3, <2>2, <2>3 DEF PlRunJob
<1>4. ASSUME UNCHANGED <<todo, registeredWith, mConnectionId, telling, plJobs>>, exits \subseteq exits',
             \A n \in Activations : process'[n] = "dead" => process[n] = "dead" \/ n \in exits'
      PROVE  NoticeInv'
  BY <1>4, NoticeStays DEF Left
<1>5. CASE Returns \/ ClientKeeps \/ UNCHANGED plVars
  BY <1>4, <1>5 DEF Returns, ClientKeeps, plVars
<1>6. CASE ProcessDies
  <2>1. /\ process' = [process EXCEPT ![activations] = "dead"] /\ exits' = exits \cup {activations}
        /\ UNCHANGED <<todo, registeredWith, mConnectionId, telling, plJobs>>
    BY <1>6 DEF ProcessDies
  <2> QED BY <1>4, <2>1
<1>7. ASSUME NEW n \in Activations, ClientReleases(n)
      PROVE  NoticeInv'
  <2>1. UNCHANGED <<todo, registeredWith, mConnectionId, telling, plJobs>>
    BY <1>7 DEF ClientReleases
  <2>2. exits \subseteq exits' /\ DOMAIN process = Activations
    BY <1>7 DEF ClientReleases, Destroyed, PluginInv, PlTypes
  <2>3. process' = process \/ process' = [process EXCEPT ![n] = "destroyed"]
    BY <1>7 DEF ClientReleases, Destroyed
  <2>4. \A m \in Activations : process'[m] = "dead" => process[m] = "dead"
    BY <2>2, <2>3
  <2> QED BY <1>4, <2>1, <2>2, <2>4
<1>8. ASSUME NEW n \in Activations, Tell(n)
      PROVE  NoticeInv'
  <2>1. /\ telling = 0 /\ exits' = exits \ {n}
        /\ telling' = IF "connection" \in registeredWith THEN n ELSE 0
        /\ UNCHANGED <<todo, registeredWith, mConnectionId, process, plJobs>>
    BY <1>8 DEF Tell
  <2>2. Left("forget", "plugin")' = Left("forget", "plugin") /\ Listens'
    BY <2>1 DEF Left, Listens
  <2>3. Noticed'
    BY <2>1, <2>2 DEF Noticed, Listens, Activations
  <2> QED BY <2>1, <2>2, <2>3
<1>9. CASE Deactivated
  <2>1. /\ plJobs' = IF mConnectionId = telling THEN plJobs + 1 ELSE plJobs
        /\ UNCHANGED <<todo, registeredWith, mConnectionId, process, exits>>
    BY <1>9 DEF Deactivated
  <2>2. Left("forget", "plugin")' = Left("forget", "plugin") /\ Listens' /\ plJobs' \in Nat
    BY <2>1 DEF Left, Listens
  <2>3. Noticed'
    BY <2>1, <2>2 DEF Noticed
  <2> QED BY <2>2, <2>3
<1> QED BY <1>1, <1>2, <1>3, <1>5, <1>6, <1>7, <1>8, <1>9 DEF FrameworkStep

\* A plugin that is up never rests on a dead process: for any number of
\* activations, wherever in the life of the plugin the process died.
THEOREM NoDeathIsOverlooked == PlSpec => []DeathIsOnItsWay
<1>1. PlInit => NoticeInv
  <2> SUFFICES ASSUME PlInit PROVE NoticeInv
    OBVIOUS
  <2>1. ToSet(todo) = {} /\ mConnectionId = 0 /\ plJobs = 0
    BY DEF PlInit, ToSet
  <2> QED BY <2>1 DEF NoticeInv, Listens, Noticed, Left, Activations
<1>2. PluginInv /\ NoticeInv /\ [PlNext]_plVars => NoticeInv'
  BY NoticeUp, NoticeDown, NoticeOthers DEF PlNext, ShellStep, FrameworkStep
<1>3. PluginInv /\ NoticeInv => DeathIsOnItsWay
  <2> SUFFICES ASSUME PluginInv, NoticeInv, shell = "up"
               PROVE  ~Left("forget", "plugin") /\ (mConnectionId # 0 => "connection" \in registeredWith)
    BY DEF NoticeInv, Noticed, DeathIsOnItsWay, Activations
  <2>1. ToSet(todo) = {}
    BY DEF PluginInv, Phase, ToSet
  <2> QED BY <2>1 DEF NoticeInv, Listens, Left
<1> QED BY PlInitInv, PluginStep, <1>1, <1>2, <1>3, PTL DEF PlSpec

-----------------------------------------------------------------------------
(* What the sinks of a facade hear.                                        *)

OnceEach(q) == \A i, j \in DOMAIN q : q[i] = q[j] => i = j
\* The event being dispatched is still to come to sink s.
Awaits(s) ==
  /\ event.step \in {"next", "calling"} /\ since[s] < dispatched
  /\ \E i \in (event.at + 1)..Len(event.to) : event.to[i] = s
\* The events since a registration, in order, up to number n.
EventsUpTo(s, n) == [i \in 1..(n - since[s]) |-> since[s] + i]

HearTypes ==
  /\ notifications \in Seq(EventSinks) /\ OnceEach(notifications)
  /\ creation \in Nat /\ boundTo \in Nat
  /\ event \in [step : {"none", "lock", "next", "calling"}, to : Seq(EventSinks), at : Nat, of : Nat]
  /\ OnceEach(event.to)
  /\ event.step \in {"none", "lock"} => event.at = 0
  /\ dispatched \in Nat /\ since \in [EventSinks -> Nat] /\ DOMAIN heard = EventSinks
\* A listed sink has heard all but the event it still awaits.
Hears ==
  \A s \in ToSet(notifications) :
    /\ since[s] <= dispatched
    /\ heard[s] = EventsUpTo(s, IF Awaits(s) THEN dispatched - 1 ELSE dispatched)
HearInv == HearTypes /\ Hears

\* Erasing one place of a list without repetitions (Unregister).
LEMMA ErasesOnce ==
  ASSUME NEW S, NEW q \in Seq(S), NEW i \in DOMAIN q, OnceEach(q)
  PROVE  /\ RemoveAt(q, i) \in Seq(S) /\ OnceEach(RemoveAt(q, i))
         /\ ToSet(RemoveAt(q, i)) \subseteq ToSet(q)
<1> DEFINE a == SubSeq(q, 1, i - 1)
           b == SubSeq(q, i + 1, Len(q))
           r == RemoveAt(q, i)
<1>1. DOMAIN q = 1..Len(q) /\ Len(q) \in Nat /\ i \in 1..Len(q) /\ \A j \in 1..Len(q) : q[j] \in S
  OBVIOUS
<1>2. a \in Seq(S) /\ Len(a) = i - 1 /\ \A j \in 1..(i - 1) : a[j] = q[j]
  <2>1. \A j \in 1..(i - 1) : q[j] \in S
    BY <1>1
  <2>2. /\ a \in Seq(S) /\ Len(a) = IF 1 <= i - 1 THEN (i - 1) - 1 + 1 ELSE 0
        /\ \A j \in 1..((i - 1) - 1 + 1) : a[j] = q[1 + j - 1]
    BY <1>1, <2>1, SubSeqProperties
  <2> QED BY <1>1, <2>2
<1>3. b \in Seq(S) /\ Len(b) = Len(q) - i /\ \A j \in 1..(Len(q) - i) : b[j] = q[i + j]
  <2>1. \A j \in (i + 1)..Len(q) : q[j] \in S
    BY <1>1
  <2>2. /\ b \in Seq(S) /\ Len(b) = IF i + 1 <= Len(q) THEN Len(q) - (i + 1) + 1 ELSE 0
        /\ \A j \in 1..(Len(q) - (i + 1) + 1) : b[j] = q[(i + 1) + j - 1]
    BY <1>1, <2>1, SubSeqProperties
  <2>3. Len(q) - (i + 1) + 1 = Len(q) - i /\ (~(i + 1 <= Len(q)) => Len(q) - i = 0)
    BY <1>1
  <2>4. Len(b) = Len(q) - i
    BY <2>2, <2>3
  <2>5. ASSUME NEW j \in 1..(Len(q) - i)
        PROVE  b[j] = q[i + j]
    <3>1. j \in 1..(Len(q) - (i + 1) + 1) /\ (i + 1) + j - 1 = i + j
      BY <1>1, <2>3
    <3>2. b[j] = q[(i + 1) + j - 1]
      BY <2>2, <3>1
    <3> QED BY <3>1, <3>2
  <2> QED BY <2>2, <2>4, <2>5
<1>4. /\ r \in Seq(S) /\ Len(r) = Len(a) + Len(b)
      /\ \A j \in 1..(Len(a) + Len(b)) : r[j] = IF j <= Len(a) THEN a[j] ELSE b[j - Len(a)]
  BY <1>2, <1>3, ConcatProperties DEF RemoveAt
<1> HIDE DEF a, b, r
<1>5. ASSUME NEW j \in 1..(Len(q) - 1)
      PROVE  r[j] = IF j < i THEN q[j] ELSE q[j + 1]
  <2>1. CASE j < i
    BY <1>1, <1>2, <1>3, <1>4, <2>1
  <2>2. CASE ~(j < i)
    <3>1. j - Len(a) \in 1..(Len(q) - i) /\ i + (j - Len(a)) = j + 1
      BY <1>1, <1>2, <2>2
    <3>2. b[j - Len(a)] = q[j + 1]
      BY <1>3, <3>1
    <3> QED BY <1>1, <1>2, <1>3, <1>4, <2>2, <3>2
  <2> QED BY <2>1, <2>2
<1>6. DOMAIN r = 1..(Len(q) - 1)
  BY <1>1, <1>2, <1>3, <1>4
<1>7. OnceEach(r)
  <2> SUFFICES ASSUME NEW j \in 1..(Len(q) - 1), NEW k \in 1..(Len(q) - 1), r[j] = r[k]
               PROVE  j = k
    BY <1>6 DEF OnceEach
  <2>1. PICK m \in DOMAIN q : r[j] = q[m] /\ m = IF j < i THEN j ELSE j + 1
    BY <1>1, <1>5
  <2>2. PICK n \in DOMAIN q : r[k] = q[n] /\ n = IF k < i THEN k ELSE k + 1
    BY <1>1, <1>5
  <2>3. m = n
    BY <2>1, <2>2 DEF OnceEach
  <2> QED BY <1>1, <2>1, <2>2, <2>3
<1>8. ToSet(r) \subseteq ToSet(q)
  BY <1>1, <1>5, <1>6 DEF ToSet
<1> QED BY <1>4, <1>7, <1>8 DEF r

\* Listing a sink that is not listed (Register).
LEMMA ListsOnce ==
  ASSUME NEW S, NEW q \in Seq(S), NEW s \in S, s \notin ToSet(q), OnceEach(q)
  PROVE  Append(q, s) \in Seq(S) /\ OnceEach(Append(q, s)) /\ ToSet(Append(q, s)) = ToSet(q) \cup {s}
<1>1. /\ Append(q, s) \in Seq(S) /\ DOMAIN q = 1..Len(q) /\ Len(q) \in Nat
      /\ DOMAIN Append(q, s) = 1..(Len(q) + 1)
      /\ \A j \in 1..Len(q) : Append(q, s)[j] = q[j]
      /\ Append(q, s)[Len(q) + 1] = s
  BY AppendProperties
<1>2. \A j \in 1..Len(q) : q[j] # s
  BY <1>1 DEF ToSet
<1>3. OnceEach(Append(q, s))
  BY <1>1, <1>2 DEF OnceEach
<1>4. ToSet(Append(q, s)) = ToSet(q) \cup {s}
  BY <1>1 DEF ToSet
<1> QED BY <1>1, <1>3, <1>4

\* One more event.
LEMMA OneMore ==
  ASSUME NEW n \in Nat, NEW m \in Nat, n > m
  PROVE  Append([i \in 1..((n - 1) - m) |-> m + i], n) = [i \in 1..(n - m) |-> m + i]
<1> DEFINE q == [i \in 1..((n - 1) - m) |-> m + i]
           r == [i \in 1..(n - m) |-> m + i]
<1>1. (n - 1) - m \in Nat /\ n - m \in Nat
  OBVIOUS
<1>2. q \in Seq(Nat) /\ Len(q) = (n - 1) - m /\ r \in Seq(Nat) /\ Len(r) = n - m
  BY <1>1
<1>3. /\ Append(q, n) \in Seq(Nat) /\ Len(Append(q, n)) = Len(q) + 1
      /\ \A j \in 1..Len(q) : Append(q, n)[j] = q[j]
      /\ Append(q, n)[Len(q) + 1] = n
  BY <1>2, AppendProperties
<1>4. ASSUME NEW j \in 1..(n - m) PROVE Append(q, n)[j] = r[j]
  <2>1. CASE j = n - m
    BY <1>1, <1>2, <1>3, <2>1
  <2>2. CASE j # n - m
    <3>1. j \in 1..Len(q) /\ q[j] = m + j /\ r[j] = m + j
      BY <1>1, <1>2, <2>2
    <3> QED BY <1>3, <3>1
  <2> QED BY <2>1, <2>2
<1> HIDE DEF q, r
<1>5. Len(Append(q, n)) = Len(r)
  BY <1>2, <1>3
<1>6. Append(q, n) = r
  BY <1>2, <1>3, <1>4, <1>5, SeqEqual
<1> QED BY <1>6 DEF q, r

\* Nobody is listed, nothing is to be heard.
LEMMA NobodyListed ==
  ASSUME HearInv, notifications' = <<>>, dispatched' = 0, creation' \in Nat, boundTo' \in Nat,
         UNCHANGED <<since, heard>>, event' = event \/ event' = NoEvent
  PROVE  HearInv'
<1>1. ToSet(<<>>) = {} /\ OnceEach(<<>>) /\ <<>> \in Seq(EventSinks)
  BY DEF ToSet, OnceEach
<1>2. CASE event' = event
  <2>1. HearTypes'
    BY <1>1, <1>2 DEF HearInv, HearTypes
  <2> QED BY <1>1, <2>1 DEF HearInv, Hears
<1>3. CASE event' = NoEvent
  <2>1. HearTypes'
    BY <1>1, <1>3 DEF HearInv, HearTypes, NoEvent
  <2> QED BY <1>1, <2>1 DEF HearInv, Hears
<1> QED BY <1>2, <1>3

\* Nothing that is heard changes.
LEMMA HearsTheSame ==
  ASSUME HearInv, creation' \in Nat, boundTo' \in Nat,
         UNCHANGED <<notifications, event, since, heard, dispatched>>
  PROVE  HearInv'
<1>1. HearTypes'
  BY DEF HearInv, HearTypes
<1>2. \A s : (Awaits(s)' <=> Awaits(s)) /\ since'[s] = since[s] /\ heard'[s] = heard[s]
  BY DEF Awaits
<1> QED BY <1>1, <1>2 DEF HearInv, Hears, EventsUpTo

\* The end of a dispatch, or an event that comes to nothing.
LEMMA EventEnds ==
  ASSUME HearInv, event' = NoEvent, event.step = "lock" \/ event.at >= Len(event.to),
         creation' \in Nat, boundTo' \in Nat, UNCHANGED <<notifications, since, heard, dispatched>>
  PROVE  HearInv'
<1>1. HearTypes'
  <2>1. OnceEach(<<>>) /\ <<>> \in Seq(EventSinks)
    BY DEF OnceEach
  <2> QED BY <2>1 DEF HearInv, HearTypes, NoEvent
<1>2. \A s \in EventSinks : ~Awaits(s) /\ ~Awaits(s)'
  BY DEF Awaits, NoEvent, HearInv, HearTypes
<1>3. ToSet(notifications) \subseteq EventSinks
  BY DEF HearInv, HearTypes, ToSet
<1> QED BY <1>1, <1>2, <1>3 DEF HearInv, Hears, EventsUpTo

\* Creation and destruction of the facade.
LEMMA HearFacade ==
  ASSUME HearInv, Create \/ BuildRegistry \/ InitialiseHAL \/ SetAllCallbacks \/ DestroyRegistry \/ DestroyComponent
  PROVE  HearInv'
<1>1. creation \in Nat /\ boundTo \in Nat
  BY DEF HearInv, HearTypes
<1>2. CASE BuildRegistry \/ DestroyRegistry
  BY <1>1, <1>2, NobodyListed DEF BuildRegistry, DestroyRegistry, Builds, Destroys, statics
<1>3. CASE Create \/ InitialiseHAL \/ SetAllCallbacks \/ DestroyComponent
  <2>1. UNCHANGED <<notifications, event, since, heard, dispatched>>
    BY <1>3 DEF Create, InitialiseHAL, SetAllCallbacks, DestroyComponent, Builds, Destroys, earlier
  <2>2. creation' \in Nat /\ boundTo' \in Nat
    BY <1>1, <1>3 DEF Create, InitialiseHAL, SetAllCallbacks, DestroyComponent, Builds, Destroys, statics,
       HdmiSetAllCallbacks, CompositeSetAllCallbacks, AudioSetAllCallbacks
  <2> QED BY <2>1, <2>2, HearsTheSame
<1> QED BY <1>2, <1>3

\* An event is raised.
LEMMA HearRaise ==
  ASSUME HearInv, Raise
  PROVE  HearInv'
<1>1. /\ event = NoEvent /\ event' = [NoEvent EXCEPT !.step = "lock", !.of = boundTo]
      /\ UNCHANGED <<creation, boundTo, notifications, since, heard, dispatched>>
  BY DEF Raise, statics, earlier
<1>2. HearTypes'
  BY <1>1 DEF HearInv, HearTypes, NoEvent
<1>3. \A s \in EventSinks : ~Awaits(s) /\ ~Awaits(s)'
  BY <1>1 DEF Awaits, NoEvent
<1>4. ToSet(notifications) \subseteq EventSinks
  BY DEF HearInv, HearTypes, ToSet
<1> QED BY <1>1, <1>2, <1>3, <1>4 DEF HearInv, Hears, EventsUpTo

\* The list is copied: every sink on it awaits the event.
LEMMA HearCopy ==
  ASSUME HearInv, Copy
  PROVE  HearInv'
<1>1. /\ event.step = "lock" /\ event' = [event EXCEPT !.step = "next", !.to = notifications]
      /\ dispatched' = dispatched + 1 /\ UNCHANGED <<creation, boundTo, notifications, since, heard>>
  BY DEF Copy, statics
<1>2. event'.step = "next" /\ event'.to = notifications /\ event'.at = 0
  BY <1>1 DEF HearInv, HearTypes
<1>3. HearTypes'
  <2>1. OnceEach(event'.to) /\ OnceEach(notifications')
    BY <1>1, <1>2 DEF HearInv, HearTypes
  <2>2. event' \in [step : {"none", "lock", "next", "calling"}, to : Seq(EventSinks), at : Nat, of : Nat]
    BY <1>1 DEF HearInv, HearTypes
  <2> QED BY <1>1, <1>2, <2>1, <2>2 DEF HearInv, HearTypes
<1>4. ASSUME NEW s \in ToSet(notifications)
      PROVE  /\ since'[s] <= dispatched'
             /\ heard'[s] = EventsUpTo(s, IF Awaits(s) THEN dispatched - 1 ELSE dispatched)'
  <2>1. since[s] \in Nat /\ dispatched \in Nat /\ s \in EventSinks
    BY <1>4 DEF HearInv, HearTypes, ToSet
  <2>2. since[s] <= dispatched /\ heard[s] = EventsUpTo(s, dispatched)
    BY <1>1, <1>4 DEF HearInv, Hears, Awaits
  <2>3. PICK i \in 1..Len(notifications) : notifications[i] = s
    BY <1>4 DEF ToSet, HearInv, HearTypes
  <2>4. Awaits(s)'
    BY <1>1, <1>2, <2>1, <2>2, <2>3 DEF Awaits
  <2> QED BY <1>1, <2>1, <2>2, <2>4 DEF EventsUpTo
<1> QED BY <1>1, <1>3, <1>4 DEF HearInv, Hears

\* The next sink of the copy hears the event.
LEMMA HearCallSink ==
  ASSUME HearInv, CallSink
  PROVE  HearInv'
<1>1. PICK k : k = event.at + 1
  OBVIOUS
<1>2. PICK x : x = event.to[k]
  OBVIOUS
<1>3. /\ event.step = "next" /\ event.at < Len(event.to)
      /\ event' = [event EXCEPT !.step = "calling", !.at = k]
      /\ heard' = IF dispatched > since[x] THEN [heard EXCEPT ![x] = Append(@, dispatched)] ELSE heard
      /\ UNCHANGED <<creation, boundTo, notifications, since, dispatched>>
  BY <1>1, <1>2 DEF CallSink, ToCall, statics
<1>4. /\ event'.step = "calling" /\ event'.at = k /\ event'.to = event.to
      /\ k \in 1..Len(event.to) /\ Len(event.to) \in Nat /\ x \in EventSinks
  BY <1>1, <1>2, <1>3 DEF HearInv, HearTypes
<1>5. HearTypes'
  <2>1. OnceEach(event'.to) /\ OnceEach(notifications')
    BY <1>3, <1>4 DEF HearInv, HearTypes
  <2>2. event' \in [step : {"none", "lock", "next", "calling"}, to : Seq(EventSinks), at : Nat, of : Nat]
    <3>1. k \in Nat
      BY <1>4
    <3>2. event \in [step : {"none", "lock", "next", "calling"}, to : Seq(EventSinks), at : Nat, of : Nat]
      BY DEF HearInv, HearTypes
    <3> QED BY <1>3, <3>1, <3>2
  <2>3. DOMAIN heard' = EventSinks
    BY <1>3 DEF HearInv, HearTypes
  <2> QED BY <1>3, <1>4, <2>1, <2>2, <2>3 DEF HearInv, HearTypes
<1>6. ASSUME NEW s \in ToSet(notifications)
      PROVE  /\ since'[s] <= dispatched'
             /\ heard'[s] = EventsUpTo(s, IF Awaits(s) THEN dispatched - 1 ELSE dispatched)'
  <2>1. since[s] \in Nat /\ dispatched \in Nat /\ s \in EventSinks /\ DOMAIN heard = EventSinks
    BY <1>6 DEF HearInv, HearTypes, ToSet
  <2>2. /\ since[s] <= dispatched
        /\ heard[s] = EventsUpTo(s, IF Awaits(s) THEN dispatched - 1 ELSE dispatched)
    BY <1>6 DEF HearInv, Hears
  <2>3. CASE s = x /\ dispatched > since[s]
    <3>1. Awaits(s)
      BY <1>1, <1>2, <1>3, <1>4, <2>1, <2>3 DEF Awaits
    <3>2. ~Awaits(s)'
      <4> SUFFICES ASSUME NEW i \in (k + 1)..Len(event.to), event.to[i] = s PROVE FALSE
        BY <1>4 DEF Awaits
      <4>1. i \in DOMAIN event.to /\ k \in DOMAIN event.to /\ i # k
        BY <1>4 DEF HearInv, HearTypes
      <4> QED BY <1>2, <2>3, <4>1 DEF HearInv, HearTypes, OnceEach
    <3>3. heard'[s] = Append([i \in 1..((dispatched - 1) - since[s]) |-> since[s] + i], dispatched)
      BY <1>3, <2>1, <2>2, <2>3, <3>1 DEF EventsUpTo
    <3>4. heard'[s] = [i \in 1..(dispatched - since[s]) |-> since[s] + i]
      BY <2>1, <2>3, <3>3, OneMore
    <3> QED BY <1>3, <2>2, <3>2, <3>4 DEF EventsUpTo
  <2>4. CASE ~(s = x /\ dispatched > since[s])
    <3>1. heard'[s] = heard[s]
      BY <1>3, <2>1, <2>4
    <3>2. Awaits(s)' <=> Awaits(s)
      <4>1. CASE dispatched > since[s]
        <5>1. s # x
          BY <2>4, <4>1
        <5>2. \A i \in (event.at + 1)..Len(event.to) : event.to[i] = s => i \in (k + 1)..Len(event.to)
          BY <1>1, <1>2, <1>4, <5>1
        <5>3. \A i \in (k + 1)..Len(event.to) : i \in (event.at + 1)..Len(event.to)
          BY <1>1, <1>4
        <5> QED BY <1>3, <1>4, <5>2, <5>3 DEF Awaits
      <4>2. CASE ~(dispatched > since[s])
        BY <1>3, <2>1, <4>2 DEF Awaits
      <4> QED BY <4>1, <4>2
    <3> QED BY <1>3, <2>2, <3>1, <3>2 DEF EventsUpTo
  <2> QED BY <2>3, <2>4
<1> QED BY <1>3, <1>5, <1>6 DEF HearInv, Hears

\* A sink has returned: the dispatch goes on.
LEMMA HearReturns ==
  ASSUME HearInv, SinkReturns
  PROVE  HearInv'
<1>1. /\ event.step = "calling" /\ event' = [event EXCEPT !.step = "next"]
      /\ UNCHANGED <<creation, boundTo, notifications, since, heard, dispatched>>
  BY DEF SinkReturns, statics, earlier
<1>2. event'.step = "next" /\ event'.at = event.at /\ event'.to = event.to
  BY <1>1 DEF HearInv, HearTypes
<1>3. HearTypes'
  BY <1>1, <1>2 DEF HearInv, HearTypes
<1>4. \A s \in EventSinks : Awaits(s)' <=> Awaits(s)
  BY <1>1, <1>2 DEF Awaits
<1>5. ToSet(notifications) \subseteq EventSinks
  BY DEF HearInv, HearTypes, ToSet
<1> QED BY <1>1, <1>3, <1>4, <1>5 DEF HearInv, Hears, EventsUpTo

\* The HAL's thread.
LEMMA HearHalStep ==
  ASSUME HearInv, HalStep
  PROVE  HearInv'
<1>1. creation \in Nat /\ boundTo \in Nat
  BY DEF HearInv, HearTypes
<1>2. CASE Stray
  <2>1. /\ event.step = "lock" /\ event' = NoEvent /\ UNCHANGED <<creation, since, heard>>
        /\ \/ UNCHANGED <<boundTo, notifications, dispatched>>
           \/ notifications' = <<>> /\ dispatched' = 0 /\ boundTo' = 0
    BY <1>2 DEF Stray, statics
  <2> QED BY <1>1, <2>1, EventEnds, NobodyListed
<1>3. CASE Dispatched
  <2>1. /\ event.at >= Len(event.to) /\ event' = NoEvent
        /\ UNCHANGED <<creation, boundTo, notifications, since, heard, dispatched>>
    BY <1>3 DEF Dispatched, ToCall, statics, earlier
  <2> QED BY <1>1, <2>1, EventEnds
<1> QED BY <1>2, <1>3, HearCopy, HearCallSink, HearReturns DEF HalStep

\* The clients' calls.
LEMMA HearClients ==
  ASSUME HearInv, NEW s \in EventSinks, Ask(s) \/ HeClientStep(s)
  PROVE  HearInv'
<1>1. creation \in Nat /\ boundTo \in Nat
  BY DEF HearInv, HearTypes
<1>2. CASE HeRegister(s)
  <2>0. UNCHANGED <<creation, boundTo, event, dispatched>>
    BY <1>2 DEF HeRegister, statics
  <2>1. CASE s \in ToSet(notifications)
    BY <1>1, <1>2, <2>0, <2>1, HearsTheSame DEF HeRegister
  <2>2. CASE s \notin ToSet(notifications)
    <3>1. /\ notifications' = Append(notifications, s)
          /\ since' = [since EXCEPT ![s] = dispatched] /\ heard' = [heard EXCEPT ![s] = <<>>]
      BY <1>2, <2>2 DEF HeRegister
    <3>2. /\ notifications' \in Seq(EventSinks) /\ OnceEach(notifications')
          /\ ToSet(notifications') = ToSet(notifications) \cup {s}
      BY <2>2, <3>1, ListsOnce DEF HearInv, HearTypes
    <3>3. HearTypes'
      BY <2>0, <3>1, <3>2 DEF HearInv, HearTypes
    <3>4. ASSUME NEW x \in ToSet(notifications)
          PROVE  /\ since'[x] <= dispatched'
                 /\ heard'[x] = EventsUpTo(x, IF Awaits(x) THEN dispatched - 1 ELSE dispatched)'
      <4>1. x # s /\ x \in EventSinks
        BY <2>2, <3>4 DEF HearInv, HearTypes, ToSet
      <4>2. since'[x] = since[x] /\ heard'[x] = heard[x]
        BY <3>1, <4>1 DEF HearInv, HearTypes
      <4>3. Awaits(x)' <=> Awaits(x)
        BY <2>0, <4>2 DEF Awaits
      <4> QED BY <2>0, <3>4, <4>2, <4>3 DEF HearInv, Hears, EventsUpTo
    <3>5. /\ since'[s] <= dispatched'
          /\ heard'[s] = EventsUpTo(s, IF Awaits(s) THEN dispatched - 1 ELSE dispatched)'
      <4>1. since'[s] = dispatched /\ heard'[s] = <<>> /\ dispatched \in Nat
        BY <3>1 DEF HearInv, HearTypes
      <4>2. ~Awaits(s)'
        BY <2>0, <4>1 DEF Awaits
      <4>3. dispatched - dispatched = 0 /\ 1..0 = {}
        BY <4>1
      <4> QED BY <2>0, <4>1, <4>2, <4>3 DEF EventsUpTo
    <3> QED BY <3>2, <3>3, <3>4, <3>5 DEF HearInv, Hears
  <2> QED BY <2>1, <2>2
<1>3. CASE HeUnregister(s)
  <2>0. UNCHANGED <<creation, boundTo, event, since, heard, dispatched>>
    BY <1>3 DEF HeUnregister, statics, earlier
  <2>1. /\ notifications' \in Seq(EventSinks) /\ OnceEach(notifications')
        /\ ToSet(notifications') \subseteq ToSet(notifications)
    <3>1. CASE s \in ToSet(notifications)
      <4>1. PICK i \in DOMAIN notifications : notifications' = RemoveAt(notifications, i)
        BY <1>3, <3>1 DEF HeUnregister
      <4> QED BY <4>1, ErasesOnce DEF HearInv, HearTypes
    <3>2. CASE s \notin ToSet(notifications)
      BY <1>3, <3>2 DEF HeUnregister, HearInv, HearTypes
    <3> QED BY <3>1, <3>2
  <2>2. HearTypes'
    BY <2>0, <2>1 DEF HearInv, HearTypes
  <2>3. \A x : (Awaits(x)' <=> Awaits(x)) /\ since'[x] = since[x] /\ heard'[x] = heard[x]
    BY <2>0 DEF Awaits
  <2> QED BY <2>0, <2>1, <2>2, <2>3 DEF HearInv, Hears, EventsUpTo
<1>4. CASE Ask(s) \/ LockRequest(s) \/ UnlockRequest(s)
  BY <1>1, <1>4, HearsTheSame DEF Ask, LockRequest, UnlockRequest, statics, earlier
<1> QED BY <1>2, <1>3, <1>4 DEF HeClientStep

\* A sink that stays listed has heard every event dispatched since it
\* registered, once and in order, whoever registers or leaves while the
\* facade's copy of the list is gone through (dispatchHDMIInEvent).
THEOREM EveryEventIsHeard == HeSpec => []ListedHearEverything
<1>1. HeInit => HearInv
  <2> SUFFICES ASSUME HeInit PROVE HearInv
    OBVIOUS
  <2>1. OnceEach(<<>>) /\ <<>> \in Seq(EventSinks) /\ ToSet(<<>>) = {}
    BY DEF OnceEach, ToSet
  <2> QED BY <2>1 DEF HeInit, HearInv, HearTypes, Hears, NoEvent
<1>2. HearInv /\ [HeNext]_heVars => HearInv'
  <2> SUFFICES ASSUME HearInv, [HeNext]_heVars PROVE HearInv'
    OBVIOUS
  <2>1. CASE UNCHANGED heVars
    BY <2>1, HearsTheSame DEF HearInv, HearTypes, heVars, statics, earlier
  <2> QED BY <2>1, HearFacade, HearRaise, HearHalStep, HearClients DEF HeNext
<1>3. HearInv => ListedHearEverything
  <2> SUFFICES ASSUME HearInv, event = NoEvent, NEW s \in ToSet(notifications)
               PROVE  heard[s] = [i \in 1..(dispatched - since[s]) |-> since[s] + i]
    BY DEF ListedHearEverything
  <2>1. ~Awaits(s)
    BY DEF Awaits, NoEvent
  <2> QED BY <2>1 DEF HearInv, Hears, EventsUpTo
<1> QED BY <1>1, <1>2, <1>3, PTL DEF HeSpec
=============================================================================
