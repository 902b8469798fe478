--------------------------- MODULE DCompositeInAIDL ---------------------------
(***************************************************************************)
(* The AIDL adapter of the composite inputs (dCompositeInAIDLImpl.cpp):    *)
(* SelectCompositeInPort, StopActivePort and DeInitialiseHAL against the   *)
(* composite input service, another process that is reached over Binder.   *)
(*                                                                         *)
(* API threads take _adminLock for a whole operation, which is a sequence  *)
(* of Binder calls.  Every call may fail, and the service may die and come *)
(* back as a new instance in between: the proxies of the old instance then *)
(* fail for ever.  The adapter looks the manager up once, in its           *)
(* constructor; only if that lookup failed does it try again on each call. *)
(***************************************************************************)
EXTENDS Naturals, FiniteSets

CONSTANTS
  CiCallers,     \* API threads
  Ports,       \* the ports of the service
  NoPort,      \* port id -1, the request to stop
  MaxCalls,    \* bound: operations begun
  MaxFaults,   \* bound: calls that fail although the service is there
  MaxRestarts  \* bound: restarts of the service

NoLookup == 0
Free == "free"

VARIABLES
  state,      \* state of every port in the present service instance
  listeners,  \* event listeners of this adapter registered on every port
  up,         \* the service runs
  instance,   \* which instance of the service runs, or ran last
  manager,    \* instance that _manager belongs to, NoLookup if it is null
  active,     \* _activePortId, with _activePort, _controller, _eventListener
  activeOf,   \* instance that those proxies belong to
  held,       \* the thread that holds _adminLock, or Free
  pc,         \* per caller: the next Binder call of its operation
  target,     \* per caller: the port it selects
  targetOf,   \* per caller: instance of the proxy it got for that port
  result,     \* per caller: what its last operation returned
  spoiled,    \* history: a call that releases something failed in this instance
  gone,       \* the adapter has been destroyed
  count       \* bound counters

service == <<state, listeners>>
life == <<up, instance>>
adapter == <<manager, active, activeOf>>
calls == <<target, targetOf, result>>
ciVars == <<service, life, adapter, held, pc, calls, spoiled, gone, count>>

CiInit ==
  /\ state = [p \in Ports |-> "CLOSED"]
  /\ listeners = [p \in Ports |-> 0]
  /\ up = TRUE /\ instance = 1
  /\ manager \in {NoLookup, 1}
  /\ active = NoPort /\ activeOf = 1
  /\ held = Free
  /\ pc = [c \in CiCallers |-> "idle"]
  /\ target = [c \in CiCallers |-> NoPort]
  /\ targetOf = [c \in CiCallers |-> 1]
  /\ result = [c \in CiCallers |-> "none"]
  /\ spoiled = FALSE
  /\ gone = FALSE
  /\ count = [calls |-> 0, faults |-> 0]

\* A proxy of instance i reaches the service.
Reaches(i) == up /\ i = instance

\* A Binder call through a proxy of instance i succeeds, or fails.
Succeeds(i) == Reaches(i) /\ UNCHANGED count
CiFails(i) ==
  \/ ~Reaches(i) /\ UNCHANGED count
  \/ /\ Reaches(i) /\ count.faults < MaxFaults
     /\ count' = [count EXCEPT !.faults = @ + 1]

\* A release that fails leaves something behind in the service.
Spoils(i) == spoiled' = (spoiled \/ Reaches(i))

CiGoto(c, l) == pc' = [pc EXCEPT ![c] = l] /\ UNCHANGED <<held, result>>
CiReturn(c, r) ==
  /\ pc' = [pc EXCEPT ![c] = "idle"]
  /\ result' = [result EXCEPT ![c] = r]
  /\ held' = Free

-----------------------------------------------------------------------------
(* Faults the properties detect.                                           *)

\* A port is selected without releasing the one before.
ListenAtOnce == "listen"

\* A controller that does not start keeps its port open.
KeepOpened(c) ==
  /\ pc[c] = "undoOpen"
  /\ CiGoto(c, "undoListen")
  /\ UNCHANGED <<service, life, adapter, target, targetOf, spoiled, gone, count>>

-----------------------------------------------------------------------------
(* SelectCompositeInPort and DeInitialiseHAL.                              *)

MustRelease == active # NoPort
AfterGetPort == IF MustRelease THEN "stop" ELSE "listen"
FirstStep(p) == IF p # NoPort THEN "getPort" ELSE IF MustRelease THEN "stop" ELSE "cleared"

CiBegin(c, p) ==
  /\ ~gone /\ held = Free /\ pc[c] = "idle" /\ count.calls < MaxCalls
  /\ held' = c
  /\ pc' = [pc EXCEPT ![c] = FirstStep(p)]
  /\ target' = [target EXCEPT ![c] = p]
  /\ result' = [result EXCEPT ![c] = "none"]
  /\ count' = [count EXCEPT !.calls = @ + 1]
  /\ UNCHANGED <<service, life, adapter, targetOf, spoiled, gone>>

\* The destructor runs when no operation does, and returns nothing.
DestroyBegin(c) ==
  /\ ~gone /\ held = Free /\ \A d \in CiCallers : pc[d] = "idle"
  /\ gone' = TRUE
  /\ held' = c
  /\ pc' = [pc EXCEPT ![c] = FirstStep(NoPort)]
  /\ target' = [target EXCEPT ![c] = NoPort]
  /\ result' = [result EXCEPT ![c] = "none"]
  /\ manager' = NoLookup
  /\ UNCHANGED <<service, life, active, activeOf, targetOf, spoiled, count>>

\* The cached manager, or a new lookup, which only finds a running service.
GetPort(c) ==
  /\ pc[c] = "getPort"
  /\ LET i == IF manager # NoLookup THEN manager ELSE instance
     IN \/ /\ Succeeds(i)
           /\ targetOf' = [targetOf EXCEPT ![c] = i]
           /\ CiGoto(c, AfterGetPort)
        \/ /\ CiFails(i)
           /\ CiReturn(c, "ERROR_UNAVAILABLE")
           /\ UNCHANGED targetOf
  /\ UNCHANGED <<service, life, adapter, target, spoiled, gone>>

\* StopActivePort: its three calls are made whatever the others return.
Stop(c) ==
  /\ pc[c] = "stop"
  /\ \/ /\ Succeeds(activeOf)
        /\ state' = [state EXCEPT ![active] = "READY"]
        /\ UNCHANGED spoiled
     \/ CiFails(activeOf) /\ Spoils(activeOf) /\ UNCHANGED state
  /\ CiGoto(c, "unlisten")
  /\ UNCHANGED <<listeners, life, adapter, target, targetOf, gone>>

Unlisten(c) ==
  /\ pc[c] = "unlisten"
  /\ \/ /\ Succeeds(activeOf)
        /\ listeners' = [listeners EXCEPT ![active] = @ - 1]
        /\ UNCHANGED spoiled
     \/ CiFails(activeOf) /\ Spoils(activeOf) /\ UNCHANGED listeners
  /\ CiGoto(c, "close")
  /\ UNCHANGED <<state, life, adapter, target, targetOf, gone>>

\* The service closes a port that was stopped, and no other.
Close(c) ==
  /\ pc[c] = "close"
  /\ \/ /\ Succeeds(activeOf) /\ state[active] = "READY"
        /\ state' = [state EXCEPT ![active] = "CLOSED"]
        /\ UNCHANGED spoiled
     \/ CiFails(activeOf) /\ Spoils(activeOf) /\ UNCHANGED state
     \/ /\ Reaches(activeOf) /\ state[active] # "READY"
        /\ Spoils(activeOf) /\ UNCHANGED <<state, count>>
  /\ active' = NoPort
  /\ CiGoto(c, IF target[c] = NoPort THEN "cleared" ELSE "listen")
  /\ UNCHANGED <<listeners, life, manager, activeOf, target, targetOf, gone>>

\* SelectCompositeInPort(-1) returns ERROR_NONE whatever the calls returned.
Cleared(c) ==
  /\ pc[c] = "cleared"
  /\ CiReturn(c, "ERROR_NONE")
  /\ UNCHANGED <<service, life, adapter, target, targetOf, spoiled, gone, count>>

\* A listener that could not be registered is unregistered all the same, a
\* call without effect.
Listen(c) ==
  /\ pc[c] = "listen"
  /\ \/ /\ Succeeds(targetOf[c])
        /\ listeners' = [listeners EXCEPT ![target[c]] = @ + 1]
        /\ CiGoto(c, "open")
     \/ CiFails(targetOf[c]) /\ CiReturn(c, "ERROR_GENERAL") /\ UNCHANGED listeners
  /\ UNCHANGED <<state, life, adapter, target, targetOf, spoiled, gone>>

\* The service opens a closed port only.
Open(c) ==
  /\ pc[c] = "open"
  /\ \/ /\ Succeeds(targetOf[c]) /\ state[target[c]] = "CLOSED"
        /\ state' = [state EXCEPT ![target[c]] = "READY"]
        /\ CiGoto(c, "start")
     \/ CiFails(targetOf[c]) /\ CiGoto(c, "undoListen") /\ UNCHANGED state
     \/ /\ Reaches(targetOf[c]) /\ state[target[c]] # "CLOSED"
        /\ CiGoto(c, "undoListen") /\ UNCHANGED <<state, count>>
  /\ UNCHANGED <<listeners, life, adapter, target, targetOf, spoiled, gone>>

Start(c) ==
  /\ pc[c] = "start"
  /\ \/ /\ Succeeds(targetOf[c])
        /\ state' = [state EXCEPT ![target[c]] = "STARTED"]
        /\ active' = target[c] /\ activeOf' = targetOf[c]
        /\ CiReturn(c, "ERROR_NONE")
     \/ CiFails(targetOf[c]) /\ CiGoto(c, "undoOpen") /\ UNCHANGED <<state, active, activeOf>>
  /\ UNCHANGED <<listeners, life, manager, target, targetOf, spoiled, gone>>

UndoOpen(c) ==
  /\ pc[c] = "undoOpen"
  /\ \/ /\ Succeeds(targetOf[c])
        /\ state' = [state EXCEPT ![target[c]] = "CLOSED"]
        /\ UNCHANGED spoiled
     \/ CiFails(targetOf[c]) /\ Spoils(targetOf[c]) /\ UNCHANGED state
  /\ CiGoto(c, "undoListen")
  /\ UNCHANGED <<listeners, life, adapter, target, targetOf, gone>>

UndoListen(c) ==
  /\ pc[c] = "undoListen"
  /\ \/ /\ Succeeds(targetOf[c])
        /\ listeners' = [listeners EXCEPT ![target[c]] = @ - 1]
        /\ UNCHANGED spoiled
     \/ CiFails(targetOf[c]) /\ Spoils(targetOf[c]) /\ UNCHANGED listeners
  /\ CiReturn(c, "ERROR_GENERAL")
  /\ UNCHANGED <<state, life, adapter, target, targetOf, gone>>

-----------------------------------------------------------------------------
(* The service process.  What it held dies with it.                        *)

ServiceDies ==
  /\ up /\ instance <= MaxRestarts
  /\ up' = FALSE
  /\ state' = [p \in Ports |-> "CLOSED"]
  /\ listeners' = [p \in Ports |-> 0]
  /\ spoiled' = FALSE
  /\ UNCHANGED <<instance, adapter, held, pc, calls, gone, count>>

ServiceStarts ==
  /\ ~up
  /\ up' = TRUE /\ instance' = instance + 1
  /\ UNCHANGED <<service, adapter, held, pc, calls, spoiled, gone, count>>

CallerStep(c) ==
  \/ GetPort(c) \/ Stop(c) \/ Unlisten(c) \/ Close(c) \/ Cleared(c)
  \/ Listen(c) \/ Open(c) \/ Start(c) \/ UndoOpen(c) \/ UndoListen(c)

CiNext ==
  \/ \E c \in CiCallers : DestroyBegin(c) \/ \E p \in Ports \cup {NoPort} : CiBegin(c, p)
  \/ \E c \in CiCallers : CallerStep(c)
  \/ ServiceDies \/ ServiceStarts

CiSpec == CiInit /\ [][CiNext]_ciVars

-----------------------------------------------------------------------------
(* Properties.                                                             *)

\* Between operations the service holds for this adapter exactly what the
\* adapter remembers: its active port started with one listener and every
\* other port closed without any - after failed selections too, whichever
\* call failed, as long as the calls that release something succeed.
ServiceMatchesAdapter ==
  held = Free /\ ~spoiled =>
    \A p \in Ports :
      LET mine == p = active /\ Reaches(activeOf)
      IN /\ state[p] = IF mine THEN "STARTED" ELSE "CLOSED"
         /\ listeners[p] = IF mine THEN 1 ELSE 0

\* At no moment are two ports open, whatever threads select and whenever the
\* service restarts: StopActivePort is done before open is called.
OnePortOpen ==
  ~spoiled => \A p, q \in Ports : state[p] # "CLOSED" /\ state[q] # "CLOSED" => p = q
=============================================================================
