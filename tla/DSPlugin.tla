------------------------------ MODULE DSPlugin ------------------------------
(***************************************************************************)
(* The life cycle of the Thunder plugin (DeviceSettings.cpp) and of the    *)
(* implementation it starts (DeviceSettingsImplementation.cpp).  The shell *)
(* runs Initialize and Deinitialize one at a time, each step by step; the  *)
(* implementation's process may die between any two steps, clients may     *)
(* keep references of their own, and the framework tells every exit of a   *)
(* process on a thread of its own.  An activation's number is the          *)
(* connection id of its process; in the plugin's own process there is no   *)
(* connection and the id stays 0.                                          *)
(***************************************************************************)
EXTENDS Naturals, FiniteSets, SequencesExt

CONSTANTS
  MaxActivations, \* bound: activations
  MaxMissing      \* bound: interfaces QueryInterface does not give

ASSUME MaxActivationsAssumption == MaxActivations \in Nat

VARIABLES
  shell,         \* the shell's state of the plugin
  todo,          \* what Initialize or Deinitialize still has to do
  outOfProcess,  \* the configured mode
  mService, mConnectionId,
  held,          \* interface pointers that are not null
  registeredWith, \* what of the sink the framework has registered
  process,       \* by activation: the implementation
  sinks,         \* by activation: the components that list the plugin's sink
  kept,          \* activations a client holds a reference of
  exits,         \* connections the framework has yet to tell
  telling,       \* the connection being told, or 0
  plJobs,        \* DEACTIVATED jobs in the worker pool
  activations, missing \* bound counters

plVars == <<shell, todo, outOfProcess, mService, mConnectionId, held, registeredWith, process, sinks,
            kept, exits, telling, plJobs, activations, missing>>

Activations == 1..MaxActivations
Interfaces == <<"FPD", "HDMIIn", "CompositeIn", "Audio", "VideoPort", "VideoDevice", "Host", "Display">>
SinkInterfaces == <<"HDMIIn", "VideoPort", "VideoDevice", "CompositeIn", "Display">>
Framework == <<"connection", "comlink">>
Each(operation, names) == [i \in DOMAIN names |-> [op |-> operation, on |-> names[i]]]
Only(operation) == <<[op |-> operation, on |-> "plugin"]>>

ListensToTheFrameworkLast == \* (fault) registered once everything is up
  Only("root") \o Only("configure") \o Each("query", Interfaces) \o Each("listen", SinkInterfaces)
    \o Each("register", Framework)
InitializeSteps ==
  Each("register", Framework) \o Only("root") \o Only("configure")
    \o Each("query", Interfaces) \o Each("listen", SinkInterfaces)

NothingUnregistered == <<>> \* (fault) the framework's notifications stay
UnregisterSteps == Each("unregister", Framework)
DisplayNotReleased == Each("release", SelectSeq(Interfaces, LAMBDA i : i # "Display")) \* (fault)
ReleaseSteps == Each("release", Interfaces)
ReleasesBeforeUnlistening == \* (fault) a released pointer is null
  UnregisterSteps \o ReleaseSteps \o Each("unlisten", SinkInterfaces)
    \o Only("release") \o Only("releaseService") \o Only("forget")
DeinitializeSteps ==
  UnregisterSteps \o Each("unlisten", SinkInterfaces) \o ReleaseSteps
    \o Only("release") \o Only("releaseService") \o Only("forget")

PlInit ==
  /\ shell = "down" /\ todo = <<>> /\ outOfProcess \in BOOLEAN
  /\ mService = FALSE /\ mConnectionId = 0
  /\ held = {} /\ registeredWith = {}
  /\ process = [n \in Activations |-> "none"]
  /\ sinks = [n \in Activations |-> {}]
  /\ kept = {} /\ exits = {} /\ telling = 0 /\ plJobs = 0
  /\ activations = 0 /\ missing = 0

Alive == process[activations] \in {"created", "configured"}
Proceed == todo' = Tail(todo)
Doing(operation) == todo # <<>> /\ Head(todo).op = operation
Subject == Head(todo).on

-----------------------------------------------------------------------------
(* Initialize.                                                             *)

Activate ==
  /\ shell = "down" /\ activations < MaxActivations
  /\ activations' = activations + 1
  /\ shell' = "activating" /\ todo' = InitializeSteps
  /\ mService' = TRUE
  /\ UNCHANGED <<outOfProcess, mConnectionId, held, registeredWith, process, sinks, kept, exits, telling,
                 plJobs, missing>>
RegisterFramework ==
  /\ Doing("register") /\ Proceed
  /\ registeredWith' = registeredWith \cup {Subject}
  /\ UNCHANGED <<shell, outOfProcess, mService, mConnectionId, held, process, sinks, kept, exits,
                 telling, plJobs, activations, missing>>
\* The constructor creates the controller and then the eight components.
Root ==
  /\ Doing("root")
  /\ \/ /\ Proceed
        /\ process' = [process EXCEPT ![activations] = "created"]
        /\ mConnectionId' = IF outOfProcess THEN activations ELSE 0
        /\ held' = {"plugin"}
     \/ /\ todo' = DeinitializeSteps
        /\ UNCHANGED <<process, mConnectionId, held>>
  /\ UNCHANGED <<shell, outOfProcess, mService, registeredWith, sinks, kept, exits, telling, plJobs,
                 activations, missing>>
\* Starts the controller and the power listener; fails if the process is dead.
Configure ==
  /\ Doing("configure")
  /\ IF Alive
     THEN Proceed /\ process' = [process EXCEPT ![activations] = "configured"]
     ELSE todo' = DeinitializeSteps /\ UNCHANGED process
  /\ UNCHANGED <<shell, outOfProcess, mService, mConnectionId, held, registeredWith, sinks, kept, exits,
                 telling, plJobs, activations, missing>>
\* A missing interface is only logged.
QueryInterface ==
  /\ Doing("query") /\ Proceed
  /\ \/ Alive /\ held' = held \cup {Subject} /\ UNCHANGED missing
     \/ Alive /\ missing < MaxMissing /\ missing' = missing + 1 /\ UNCHANGED held
     \/ ~Alive /\ UNCHANGED <<held, missing>>
  /\ UNCHANGED <<shell, outOfProcess, mService, mConnectionId, registeredWith, process, sinks, kept, exits,
                 telling, plJobs, activations>>
RegisterSink ==
  /\ Doing("listen") /\ Proceed
  /\ sinks' = IF Subject \in held /\ Alive
              THEN [sinks EXCEPT ![activations] = @ \cup {Subject}] ELSE sinks
  /\ UNCHANGED <<shell, outOfProcess, mService, mConnectionId, held, registeredWith, process, kept, exits,
                 telling, plJobs, activations, missing>>
Returns ==
  /\ todo = <<>> /\ shell \in {"activating", "deactivating"}
  /\ shell' = IF mService THEN "up" ELSE "down"
  /\ UNCHANGED <<todo, outOfProcess, mService, mConnectionId, held, registeredWith, process, sinks, kept,
                 exits, telling, plJobs, activations, missing>>

-----------------------------------------------------------------------------
(* Deinitialize, of an operator, a job or a failed Initialize.             *)

Deinitialize ==
  /\ shell = "up" /\ shell' = "deactivating" /\ todo' = DeinitializeSteps
  /\ UNCHANGED <<outOfProcess, mService, mConnectionId, held, registeredWith, process, sinks, kept, exits,
                 telling, activations, missing>>
Deactivate == Deinitialize /\ UNCHANGED plJobs
\* The framework's Unregister waits for a notification under way.
UnregisterFramework ==
  /\ Doing("unregister") /\ telling = 0 /\ Proceed
  /\ registeredWith' = registeredWith \ {Subject}
  /\ UNCHANGED <<shell, outOfProcess, mService, mConnectionId, held, process, sinks, kept, exits,
                 telling, plJobs, activations, missing>>
UnregisterSink ==
  /\ Doing("unlisten") /\ Proceed
  /\ sinks' = IF Subject \in held THEN [sinks EXCEPT ![activations] = @ \ {Subject}] ELSE sinks
  /\ UNCHANGED <<shell, outOfProcess, mService, mConnectionId, held, registeredWith, process, kept, exits,
                 telling, plJobs, activations, missing>>

\* The last reference destroys the implementation: the components first, the
\* controller last; a process of its own then exits.
Destroyed(n) ==
  /\ process' = [process EXCEPT ![n] = "destroyed"]
  /\ exits' = IF outOfProcess THEN exits \cup {n} ELSE exits
Release ==
  /\ Doing("release") /\ Proceed
  /\ held' = held \ {Subject}
  /\ IF Alive /\ Subject \in held /\ held = {Subject} /\ activations \notin kept
     THEN Destroyed(activations) ELSE UNCHANGED <<process, exits>>
  /\ UNCHANGED <<shell, outOfProcess, mService, mConnectionId, registeredWith, sinks, kept, telling,
                 plJobs, activations, missing>>
ReleaseService ==
  /\ Doing("releaseService") /\ Proceed
  /\ mService' = FALSE
  /\ UNCHANGED <<shell, outOfProcess, mConnectionId, held, registeredWith, process, sinks, kept, exits,
                 telling, plJobs, activations, missing>>
ForgetConnection ==
  /\ Doing("forget") /\ Proceed
  /\ mConnectionId' = 0
  /\ UNCHANGED <<shell, outOfProcess, mService, held, registeredWith, process, sinks, kept, exits, telling,
                 plJobs, activations, missing>>

-----------------------------------------------------------------------------
(* The process, the clients and the framework.                             *)

ProcessDies ==
  /\ outOfProcess /\ activations > 0 /\ Alive
  /\ process' = [process EXCEPT ![activations] = "dead"]
  /\ sinks' = [sinks EXCEPT ![activations] = {}]
  /\ exits' = exits \cup {activations}
  /\ UNCHANGED <<shell, todo, outOfProcess, mService, mConnectionId, held, registeredWith, kept, telling,
                 plJobs, activations, missing>>
ClientKeeps ==
  /\ shell = "up" /\ Alive
  /\ kept' = kept \cup {activations}
  /\ UNCHANGED <<shell, todo, outOfProcess, mService, mConnectionId, held, registeredWith, process, sinks,
                 exits, telling, plJobs, activations, missing>>
ClientReleases(n) ==
  /\ n \in kept /\ kept' = kept \ {n}
  /\ IF process[n] \in {"created", "configured"} /\ (n # activations \/ held = {})
     THEN Destroyed(n) ELSE UNCHANGED <<process, exits>>
  /\ UNCHANGED <<shell, todo, outOfProcess, mService, mConnectionId, held, registeredWith, sinks, telling,
                 plJobs, activations, missing>>
\* Whoever is registered when the framework notices is told.
Tell(n) ==
  /\ n \in exits /\ telling = 0
  /\ exits' = exits \ {n}
  /\ telling' = IF "connection" \in registeredWith THEN n ELSE 0
  /\ UNCHANGED <<shell, todo, outOfProcess, mService, mConnectionId, held, registeredWith, process, sinks,
                 kept, plJobs, activations, missing>>
Deactivated ==
  /\ telling # 0 /\ telling' = 0
  /\ plJobs' = IF mConnectionId = telling THEN plJobs + 1 ELSE plJobs
  /\ UNCHANGED <<shell, todo, outOfProcess, mService, mConnectionId, held, registeredWith, process, sinks,
                 kept, exits, activations, missing>>
\* A job takes down whatever is up when it runs.
PlRunJob ==
  /\ plJobs > 0 /\ plJobs' = plJobs - 1
  /\ \/ Deinitialize
     \/ /\ shell = "down"
        /\ UNCHANGED <<shell, todo, outOfProcess, mService, mConnectionId, held, registeredWith, process,
                       sinks, kept, exits, telling, activations, missing>>

-----------------------------------------------------------------------------
ShellStep ==
  \/ RegisterFramework \/ Root \/ Configure \/ QueryInterface \/ RegisterSink \/ Returns
  \/ UnregisterFramework \/ UnregisterSink \/ Release \/ ReleaseService \/ ForgetConnection
FrameworkStep == (\E n \in Activations : Tell(n)) \/ Deactivated
PlNext ==
  \/ ShellStep \/ FrameworkStep \/ PlRunJob
  \/ Activate \/ Deactivate
  \/ ProcessDies \/ ClientKeeps
  \/ \E n \in Activations : ClientReleases(n)

\* The shell's call, the framework's thread and the worker pool go on.
PlFairness == WF_plVars(ShellStep) /\ WF_plVars(FrameworkStep) /\ WF_plVars(PlRunJob)
PlSpec == PlInit /\ [][PlNext]_plVars /\ PlFairness

-----------------------------------------------------------------------------
(* Properties.                                                             *)

\* A plugin that is down holds and is held by nothing, whichever step of
\* Initialize failed and whenever the process died: no pointer, nothing
\* registered with the framework and no sink listed by an implementation.
HoldsNothingWhenDown ==
  shell = "down" =>
    /\ held = {} /\ registeredWith = {} /\ ~mService /\ mConnectionId = 0
    /\ \A n \in Activations : sinks[n] = {}

\* Only a client's reference keeps the implementation of an earlier
\* activation alive.
OldOnesAreKept ==
  \A n \in Activations :
    process[n] \in {"created", "configured"} => n \in kept \/ (n = activations /\ shell # "down")

\* A notification of the plugin's connection finds the service, as
\* Deactivated asserts.
DeactivatedFindsService == telling # 0 /\ mConnectionId = telling => mService

\* A plugin that is down holds and is held by nothing, and Deactivated finds
\* the service it asserts.
CleanWhenDown == HoldsNothingWhenDown /\ DeactivatedFindsService

\* A process that dies under a plugin that is up takes the plugin down.
DeathIsNoticed ==
  \A n \in Activations :
    shell = "up" /\ mConnectionId = n /\ process[n] = "dead" ~> shell = "down"
=============================================================================
