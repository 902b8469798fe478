------------------------- MODULE DSVideoPortNotifier -------------------------
(***************************************************************************)
(* How a change of resolution reaches the clients: the HAL adapter's       *)
(* SetVideoPortResolution (dVideoPortImpl.h) and the registry of           *)
(* notification sinks behind it (DeviceSettingsVideoPortImplementation).   *)
(*                                                                         *)
(*   - OnResolutionPreChange is dispatched on the thread that sets the     *)
(*     resolution, before the hardware call;                               *)
(*   - OnResolutionPostChange becomes a job of the worker pool, and        *)
(*     several workers run jobs side by side;                              *)
(*   - a dispatch copies the list under _callbackLock, taking a reference  *)
(*     on every sink, and calls the sinks without the lock, so clients may *)
(*     register, unregister and go away during the calls.                  *)
(*                                                                         *)
(* The sinks are reference counted: the client owns one reference, the     *)
(* list one, and every dispatch under way one for each sink it has still   *)
(* to release.  A sink without references is destroyed.                    *)
(***************************************************************************)
EXTENDS Naturals, FiniteSets, SequencesExt

CONSTANTS
  Sinks,       \* notification objects of the clients
  Callers,     \* API threads that call SetVideoPortResolution
  Workers,     \* threads of the worker pool
  MaxChanges,  \* bound: changes of resolution
  MaxRegister  \* bound: successful calls of Register

ASSUME NotifierAssumption ==
  /\ IsFiniteSet(Sinks) /\ IsFiniteSet(Callers) /\ IsFiniteSet(Workers)
  /\ Callers \cap Workers = {}
  /\ MaxChanges \in Nat /\ MaxRegister \in Nat

Threads == Callers \cup Workers
Changes == 1..MaxChanges
NoDispatch == [change |-> 0, todo |-> <<>>, called |-> FALSE]

VARIABLES
  list,      \* _VideoPortNotifications
  refs,      \* reference count of every sink
  owned,     \* sinks whose client still holds its own reference
  dispatch,  \* per thread: the change announced, the copied list, and
             \* whether its head has been called and not yet released
  stage,     \* per caller: where it is in SetVideoPortResolution
  jobs,      \* VideoPortNotificationJobs queued, by their change
  gone,      \* the component has been destroyed
  applied,   \* history: changes the hardware has been asked for
  audience,  \* history: per change, the sinks listed when it was announced
  pre, post, \* history: per change, the sinks called before and after it
  changes,   \* bound counter: changes begun
  registered \* bound counter: registrations

clients == <<owned, registered>>
history == <<applied, audience, pre, post>>
vars == <<list, refs, clients, dispatch, stage, jobs, gone, history, changes>>

Init ==
  /\ list = <<>>
  /\ owned = Sinks
  /\ refs = [s \in Sinks |-> 1]
  /\ dispatch = [t \in Threads |-> NoDispatch]
  /\ stage = [c \in Callers |-> "idle"]
  /\ jobs = <<>>
  /\ gone = FALSE
  /\ applied = {}
  /\ audience = [n \in Changes |-> {}]
  /\ pre = [n \in Changes |-> {}]
  /\ post = [n \in Changes |-> {}]
  /\ changes = 0
  /\ registered = 0

Listed == ToSet(list)
Busy(t) == dispatch[t].change # 0
\* The end of change n is still to be announced.
Pending(n) ==
  \/ n \in ToSet(jobs)
  \/ \E c \in Callers : stage[c] # "idle" /\ dispatch[c].change = n
\* The places in sequence q where sink s stands.
Places(q, s) == {i \in DOMAIN q : q[i] = s}

-----------------------------------------------------------------------------
(* Faults the properties detect.                                           *)

\* Unregister forgets the list's reference.
UnregisterKeepsReference(s) ==
  /\ ~gone /\ s \in owned
  /\ \E i \in Places(list, s) : list' = RemoveAt(list, i)
  /\ UNCHANGED <<refs, clients, dispatch, stage, jobs, gone, history, changes>>

\* The list is copied without AddRef.
SnapshotWithoutReferences(t, n) ==
  /\ dispatch' = [dispatch EXCEPT ![t] = [change |-> n, todo |-> list, called |-> FALSE]]
  /\ UNCHANGED refs

\* The pre-change handled as a job too: the hardware call does not wait.
SetHalAtOnce(c) ==
  /\ stage[c] = "announcing"
  /\ applied' = applied \cup {dispatch[c].change}
  /\ stage' = [stage EXCEPT ![c] = "applied"]
  /\ UNCHANGED <<list, refs, clients, dispatch, jobs, gone, audience, pre, post, changes>>

\* Only the newest change kept in the queue.
SubmitLatest(c) ==
  /\ stage[c] = "applied" /\ dispatch[c].todo = <<>>
  /\ jobs' = <<dispatch[c].change>>
  /\ stage' = [stage EXCEPT ![c] = "idle"]
  /\ dispatch' = [dispatch EXCEPT ![c] = NoDispatch]
  /\ UNCHANGED <<list, refs, clients, gone, history, changes>>

\* The destructor drops the list without releasing its sinks, as those of
\* the other components' registries do.
DestroyKeepsReferences ==
  /\ ~gone /\ \A c \in Callers : stage[c] = "idle"
  /\ gone' = TRUE
  /\ list' = <<>>
  /\ UNCHANGED <<refs, clients, dispatch, stage, jobs, history, changes>>

-----------------------------------------------------------------------------
(* Clients.  Only the owner of a reference can name a sink.                *)

\* A sink that is listed already is refused and nothing changes.
Register(s) ==
  /\ ~gone /\ s \in owned /\ s \notin Listed
  /\ registered < MaxRegister
  /\ list' = Append(list, s)
  /\ refs' = [refs EXCEPT ![s] = @ + 1]
  /\ registered' = registered + 1
  /\ UNCHANGED <<owned, dispatch, stage, jobs, gone, history, changes>>

Unregister(s) ==
  /\ ~gone /\ s \in owned
  /\ \E i \in Places(list, s) : list' = RemoveAt(list, i)
  /\ refs' = [refs EXCEPT ![s] = @ - 1]
  /\ UNCHANGED <<clients, dispatch, stage, jobs, gone, history, changes>>

\* The client releases its own reference; a listed sink lives on.
Abandon(s) ==
  /\ s \in owned
  /\ owned' = owned \ {s}
  /\ refs' = [refs EXCEPT ![s] = @ - 1]
  /\ UNCHANGED <<list, registered, dispatch, stage, jobs, gone, history, changes>>

-----------------------------------------------------------------------------
(* Dispatching, on whatever thread.                                        *)

\* The copy of the list, made and referenced under the lock.
Snapshot(t, n) ==
  /\ dispatch' = [dispatch EXCEPT ![t] = [change |-> n, todo |-> list, called |-> FALSE]]
  /\ refs' = [s \in Sinks |-> refs[s] + IF s \in Listed THEN 1 ELSE 0]

\* The sink's method runs, outside the lock.
Call(t) ==
  /\ dispatch[t].todo # <<>> /\ ~dispatch[t].called
  /\ dispatch' = [dispatch EXCEPT ![t].called = TRUE]
  /\ LET n == dispatch[t].change
         s == Head(dispatch[t].todo)
     IN IF t \in Callers
        THEN pre' = [pre EXCEPT ![n] = @ \cup {s}] /\ UNCHANGED post
        ELSE post' = [post EXCEPT ![n] = @ \cup {s}] /\ UNCHANGED pre
  /\ UNCHANGED <<list, refs, clients, stage, jobs, gone, applied, audience, changes>>

ReleaseSink(t) ==
  /\ dispatch[t].todo # <<>> /\ dispatch[t].called
  /\ refs' = [refs EXCEPT ![Head(dispatch[t].todo)] = @ - 1]
  /\ dispatch' = [dispatch EXCEPT ![t].todo = Tail(@), ![t].called = FALSE]
  /\ UNCHANGED <<list, clients, stage, jobs, gone, history, changes>>

-----------------------------------------------------------------------------
(* SetVideoPortResolution, with no lock from one end to the other.  The    *)
(* early returns (port not connected, 4K disabled, resolution unchanged)   *)
(* announce nothing and are left out.                                      *)

PreChange(c) ==
  /\ ~gone /\ stage[c] = "idle" /\ changes < MaxChanges
  /\ changes' = changes + 1
  /\ stage' = [stage EXCEPT ![c] = "announcing"]
  /\ Snapshot(c, changes')
  /\ audience' = [audience EXCEPT ![changes'] = Listed]
  /\ UNCHANGED <<list, clients, jobs, gone, applied, pre, post>>

\* dsSetResolution, whose outcome does not matter here: the clients are told
\* that the change is over in either case.
SetHal(c) ==
  /\ stage[c] = "announcing" /\ dispatch[c].todo = <<>>
  /\ applied' = applied \cup {dispatch[c].change}
  /\ stage' = [stage EXCEPT ![c] = "applied"]
  /\ UNCHANGED <<list, refs, clients, dispatch, jobs, gone, audience, pre, post, changes>>

\* submitVideoPortEvent; then the adapter returns.
SubmitPost(c) ==
  /\ stage[c] = "applied" /\ dispatch[c].todo = <<>>
  /\ jobs' = Append(jobs, dispatch[c].change)
  /\ stage' = [stage EXCEPT ![c] = "idle"]
  /\ dispatch' = [dispatch EXCEPT ![c] = NoDispatch]
  /\ UNCHANGED <<list, refs, clients, gone, history, changes>>

-----------------------------------------------------------------------------
(* The worker pool.  The queued job holds a plain pointer to the           *)
(* component; what a job does with a destroyed component is undefined, and *)
(* the model stops there.                                                  *)

RunJob(w) ==
  /\ ~gone /\ jobs # <<>> /\ ~Busy(w)
  /\ jobs' = Tail(jobs)
  /\ Snapshot(w, Head(jobs))
  /\ UNCHANGED <<list, clients, stage, gone, history, changes>>

EndJob(w) ==
  /\ Busy(w) /\ dispatch[w].todo = <<>>
  /\ dispatch' = [dispatch EXCEPT ![w] = NoDispatch]
  /\ UNCHANGED <<list, refs, clients, stage, jobs, gone, history, changes>>

\* ~DeviceSettingsVideoPortImpl.  An API call keeps the plugin, and with it
\* the component, alive until it returns; a job does not.
Destroy ==
  /\ ~gone /\ \A c \in Callers : stage[c] = "idle"
  /\ gone' = TRUE
  /\ refs' = [s \in Sinks |-> refs[s] - IF s \in Listed THEN 1 ELSE 0]
  /\ list' = <<>>
  /\ UNCHANGED <<clients, dispatch, stage, jobs, history, changes>>

-----------------------------------------------------------------------------
ClientStep == \E s \in Sinks : Register(s) \/ Unregister(s) \/ Abandon(s)
DispatchStep(t) == Call(t) \/ ReleaseSink(t)
CallerStep(c) == SetHal(c) \/ SubmitPost(c)
WorkerStep(w) == RunJob(w) \/ EndJob(w)

Next ==
  \/ ClientStep
  \/ \E t \in Threads : DispatchStep(t)
  \/ \E c \in Callers : PreChange(c) \/ CallerStep(c)
  \/ \E w \in Workers : WorkerStep(w)
  \/ Destroy

Spec == Init /\ [][Next]_vars

\* The threads run: a call under way proceeds, and the pool serves its queue.
ThreadsRun ==
  /\ \A t \in Threads : WF_vars(DispatchStep(t))
  /\ \A c \in Callers : WF_vars(CallerStep(c))
  /\ \A w \in Workers : WF_vars(WorkerStep(w))

-----------------------------------------------------------------------------
(* Properties.                                                             *)

\* Every reference has an owner and every owner its reference: the client,
\* the list and the dispatches under way account for the whole count, so no
\* sink leaks and none is destroyed early (AddRef and Release in Register,
\* Unregister, Dispatch, dispatchVideoPortEvent and the destructor).
OwnersOf(s) ==
  {<<"client", x>> : x \in owned \cap {s}}
  \cup {<<"list", i>> : i \in Places(list, s)}
  \cup UNION {{<<"dispatch", t, i>> : i \in Places(dispatch[t].todo, s)} : t \in Threads}
ReferencesMatchOwners == \A s \in Sinks : refs[s] = Cardinality(OwnersOf(s))

\* A sink that is still to be called, or is inside its callback, is alive,
\* whatever its client has released meanwhile.
CalledSinksAreAlive ==
  \A t \in Threads : \A i \in DOMAIN dispatch[t].todo : refs[dispatch[t].todo[i]] > 0

\* Every reference to a video port sink has its owner, and a sink that is
\* still to be called is alive.
SinksAreAccountedFor == ReferencesMatchOwners /\ CalledSinksAreAlive

\* The hardware is asked for a change only after every client that was
\* listed when the change began has been told by OnResolutionPreChange, and a
\* client hears of the end of a change only after the hardware was asked.
ToldBeforeTheChange ==
  /\ \A n \in applied : audience[n] \subseteq pre[n]
  /\ \A n \in Changes : post[n] # {} => n \in applied

\* The threads, the list and its copies implement what DSAnnouncement promises
\* of every change, clients coming and going as they like.
Announcement == INSTANCE DSAnnouncement
                WITH begun <- 1..changes, told <- pre, heard <- post
ImplementsAnnouncement == Announcement!Spec

\* A sink that stays listed hears of the end of every change that is under
\* way, unless the component is destroyed first.
ChangesAreConcluded ==
  \A s \in Sinks, n \in Changes :
    Pending(n) /\ s \in Listed ~> s \in post[n] \/ s \notin Listed \/ gone

\* A sink that its client has dropped and the list no longer holds is
\* eventually destroyed: every dispatch gives its reference back.
DroppedSinksAreDestroyed ==
  \A s \in Sinks : s \notin owned /\ s \notin Listed ~> refs[s] = 0
=============================================================================
