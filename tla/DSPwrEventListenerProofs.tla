---------------------- MODULE DSPwrEventListenerProofs ----------------------
(***************************************************************************)
(* For every profile, every list of ports, every set of modes and any      *)
(* number of mode changes, failures and retries: the event thread of the   *)
(* power listener does not sleep over a queued event or over Deinit's stop *)
(* (this needs nothing of the ports, the LED or the patterns); and the     *)
(* ports, the LED and the pattern stand as the last event asks.            *)
(***************************************************************************)
EXTENDS DSPwrEventListener, SequenceTheorems, TLAPS

\* Where a thread may stand.
Labels ==
  {"none", "test", "blocked", "drain", "handle", "walk", "enable", "led",
   "invalidate", "pattern", "exited", "check", "connect", "register", "getState",
   "fetch", "reason", "spawn", "sync", "poll", "try", "done"}

\* The program counters form a function over the threads.
Counters == pc \in [Threads -> Labels]

PowerInv == Counters /\ NoLostWakeup

-----------------------------------------------------------------------------
\* What a step of another thread may do to the four parts of the state that
\* NoLostWakeup relates: nothing.
LEMMA Elsewhere ==
  ASSUME PowerInv, Counters', pc'[EVENT] = pc[EVENT],
         UNCHANGED <<stopThread, queue, notice>>
  PROVE  PowerInv'
BY DEF PowerInv, NoLostWakeup

\* A step of the event thread other than its test never ends asleep.
LEMMA EventAwake ==
  ASSUME Counters', pc'[EVENT] # "blocked"
  PROVE  PowerInv'
BY DEF PowerInv, NoLostWakeup

\* After a signal the event thread is awake (pthread_cond_signal).
LEMMA SignalWakes ==
  ASSUME Counters
  PROVE  /\ Signal(pc) \in [Threads -> Labels]
         /\ Signal(pc)[EVENT] # "blocked"
BY DEF Counters, Labels, Signal, Threads, Walkers, EVENT, RETRY, REASON, BOOT

-----------------------------------------------------------------------------
\* The thread starts with its test, not asleep.
LEMMA PowerInit == Init => PowerInv
<1>1. SUFFICES ASSUME Init PROVE PowerInv
  OBVIOUS
<1>2. Counters /\ pc[EVENT] = "test"
  BY <1>1 DEF Init, Counters, Labels, Threads, Walkers, EVENT, RETRY, REASON, BOOT
<1> QED BY <1>2 DEF PowerInv, NoLostWakeup

\* The steps of the event thread.
LEMMA EventKeepsAwake ==
  ASSUME PowerInv, EventStep
  PROVE  PowerInv'
<1> USE DEF Counters, Labels, Goto, Threads, Walkers, EVENT, RETRY, REASON, BOOT
<1>0. Counters BY DEF PowerInv
<1>1. CASE EventTest
  <2>1. Counters' BY <1>0, <1>1 DEF EventTest
  <2>2. pc'[EVENT] = "blocked" => ~stopThread' /\ queue' = <<>>
    BY <1>0, <1>1 DEF EventTest, deinit
  <2> QED BY <2>1, <2>2 DEF PowerInv, NoLostWakeup
<1>2. CASE EventDrain
  BY <1>0, <1>2, EventAwake DEF EventDrain
<1>3. CASE EventHandle
  BY <1>0, <1>3, EventAwake DEF EventHandle
<1>4. CASE EventLed
  BY <1>0, <1>4, EventAwake DEF EventLed
<1>5. CASE EventInvalidate
  BY <1>0, <1>5, EventAwake DEF EventInvalidate
<1>6. CASE EventSetPattern
  BY <1>0, <1>6, EventAwake DEF EventSetPattern
<1>7. CASE WalkPort(EVENT)
  <2>1. AfterWalk(EVENT) \in {"invalidate", "led"} BY DEF AfterWalk
  <2>2. pc' = pc \/ pc' = [pc EXCEPT ![EVENT] = AfterWalk(EVENT)] \/ pc' = [pc EXCEPT ![EVENT] = "enable"]
    BY <1>7 DEF WalkPort
  <2>3. pc[EVENT] = "walk" BY <1>7 DEF WalkPort
  <2> QED BY <1>0, <2>1, <2>2, <2>3, EventAwake
<1>8. CASE EnableAudio(EVENT)
  BY <1>0, <1>8, EventAwake DEF EnableAudio
<1> QED
  BY <1>1, <1>2, <1>3, <1>4, <1>5, <1>6, <1>7, <1>8 DEF EventStep, WalkStep

\* The walks of the retry thread and of the reboot reason check.
LEMMA WalkersKeepAwake ==
  ASSUME PowerInv, NEW t \in {RETRY, REASON}, WalkStep(t) \/ ReasonSync(t)
  PROVE  PowerInv'
<1> USE DEF Counters, Labels, Goto, Threads, Walkers, EVENT, RETRY, REASON, BOOT
<1>0. Counters BY DEF PowerInv
<1>1. AfterWalk(t) \in Labels BY DEF AfterWalk
<1>2. CASE WalkPort(t)
  <2>1. pc' = pc \/ pc' = [pc EXCEPT ![t] = AfterWalk(t)] \/ pc' = [pc EXCEPT ![t] = "enable"]
    BY <1>2 DEF WalkPort
  <2>2. UNCHANGED <<stopThread, queue, notice>> BY <1>2 DEF WalkPort, deinit
  <2> QED BY <1>0, <1>1, <2>1, <2>2, Elsewhere
<1>3. CASE EnableAudio(t)
  BY <1>0, <1>3, Elsewhere DEF EnableAudio, deinit
<1>4. CASE ReasonSync(t)
  BY <1>0, <1>4, Elsewhere DEF ReasonSync, deinit
<1> QED BY <1>2, <1>3, <1>4 DEF WalkStep

\* The other steps of those threads and of the boot loader thread.
LEMMA OthersKeepAwake ==
  ASSUME PowerInv, RetryStep \/ ReasonStep \/ BootTry
  PROVE  PowerInv'
<1> USE DEF Counters, Labels, Goto, Threads, Walkers, EVENT, RETRY, REASON, BOOT, deinit
<1>0. Counters BY DEF PowerInv
<1>1. CASE RetryCheck BY <1>0, <1>1, Elsewhere DEF RetryCheck
<1>2. CASE RetryConnect BY <1>0, <1>2, Elsewhere DEF RetryConnect
<1>3. CASE RetryRegister BY <1>0, <1>3, Elsewhere DEF RetryRegister
<1>4. CASE RetryGetState BY <1>0, <1>4, Elsewhere DEF RetryGetState
<1>5. CASE RetryFetch
  <2>1. \E l \in {"reason", "walk"} : pc' = [pc EXCEPT ![RETRY] = l]
    BY <1>5 DEF RetryFetch
  <2>2. UNCHANGED <<stopThread, queue, notice>> BY <1>5 DEF RetryFetch
  <2> QED BY <1>0, <2>1, <2>2, Elsewhere
<1>6. CASE RetryReason
  <2>1. AfterReason(RETRY) \in Labels BY DEF AfterReason, AfterWalk
  <2> QED BY <1>0, <1>6, <2>1, Elsewhere DEF RetryReason
<1>7. CASE RetrySetPattern BY <1>0, <1>7, Elsewhere DEF RetrySetPattern
<1>8. CASE RetrySpawn BY <1>0, <1>8, Elsewhere DEF RetrySpawn
<1>9. CASE ReasonPoll
  <2>1. AfterReason(REASON) \in Labels BY DEF AfterReason, AfterWalk
  <2> QED BY <1>0, <1>9, <2>1, Elsewhere DEF ReasonPoll
<1>10. CASE BootTry
  <2>1. \E l \in {"done", "try"} : pc' = [pc EXCEPT ![BOOT] = l]
    BY <1>10 DEF BootTry
  <2>2. UNCHANGED <<stopThread, queue, notice>> BY <1>10 DEF BootTry
  <2> QED BY <1>0, <2>1, <2>2, Elsewhere
<1>11. CASE \E t \in {RETRY, REASON} : WalkStep(t) \/ ReasonSync(t)
  BY <1>11, WalkersKeepAwake
<1> QED
  BY <1>1, <1>2, <1>3, <1>4, <1>5, <1>6, <1>7, <1>8, <1>9, <1>10, <1>11
  DEF RetryStep, ReasonStep

\* The PowerManager, its callback and Deinit: an event is put in the queue
\* with its signal to come, and the stop comes with a signal.
LEMMA CallbacksWake ==
  ASSUME PowerInv,
         \/ \E m \in Modes : ChangeMode(m)
         \/ Enqueue \/ SignalEvent \/ RebootInfoUpdated \/ SpuriousWakeup
         \/ DeinitUnregister \/ DeinitStep
  PROVE  PowerInv'
<1> USE DEF deinit
<1>0. Counters BY DEF PowerInv
<1>1. CASE \E m \in Modes : ChangeMode(m)
  <2>1. PICK m \in Modes : ChangeMode(m) BY <1>1
  <2>2. notice.at # "signal" BY <2>1 DEF ChangeMode, NoNotice
  <2>3. UNCHANGED <<pc, stopThread, queue>> BY <2>1 DEF ChangeMode
  <2> QED BY <1>0, <2>2, <2>3 DEF PowerInv, NoLostWakeup, Counters
<1>2. CASE Enqueue
  <2>1. notice'.at = "signal" BY <1>2 DEF Enqueue
  <2>2. UNCHANGED <<pc, stopThread>> BY <1>2 DEF Enqueue
  <2> QED BY <1>0, <2>1, <2>2 DEF PowerInv, NoLostWakeup, Counters
<1>3. CASE SignalEvent
  BY <1>0, <1>3, SignalWakes, EventAwake DEF SignalEvent, Counters
<1>4. CASE RebootInfoUpdated
  BY <1>0, <1>4, Elsewhere DEF RebootInfoUpdated, Counters
<1>5. CASE SpuriousWakeup
  BY <1>0, <1>5, EventAwake
  DEF SpuriousWakeup, Counters, Labels, Goto, Threads, Walkers, EVENT, RETRY, REASON, BOOT
<1>6. CASE DeinitUnregister
  BY <1>0, <1>6, Elsewhere DEF DeinitUnregister, Counters
<1>7. CASE DeinitStop
  BY <1>0, <1>7, SignalWakes, EventAwake DEF DeinitStop, Counters
<1>8. CASE DeinitJoin
  <2>1. pc'[EVENT] = "exited" /\ Counters' BY <1>0, <1>8 DEF DeinitJoin, Counters
  <2> QED BY <2>1, EventAwake
<1> QED
  BY <1>1, <1>2, <1>3, <1>4, <1>5, <1>6, <1>7, <1>8 DEF DeinitStep

-----------------------------------------------------------------------------
\* The event thread never waits on its condition while a stop is asked for, nor
\* while an event is queued whose signal is past (PwrEventHandlingThreadFunc
\* against onPowerModeChanged and Deinit, whose two mutexes overlap nowhere).
THEOREM NoEventIsSleptOver == Spec => []NoLostWakeup
<1>1. Init => PowerInv
  BY PowerInit
<1>2. PowerInv /\ [Next]_vars => PowerInv'
  <2> SUFFICES ASSUME PowerInv, [Next]_vars PROVE PowerInv'
    OBVIOUS
  <2>1. CASE EventStep BY <2>1, EventKeepsAwake
  <2>2. CASE RetryStep \/ ReasonStep \/ BootTry BY <2>2, OthersKeepAwake
  <2>3. CASE \/ \E m \in Modes : ChangeMode(m)
             \/ Enqueue \/ SignalEvent \/ RebootInfoUpdated \/ SpuriousWakeup
             \/ DeinitUnregister \/ DeinitStep
    BY <2>3, CallbacksWake
  <2>4. CASE UNCHANGED vars
    <3>1. UNCHANGED <<pc, stopThread, queue, notice>> BY <2>4 DEF vars, deinit
    <3> QED BY <3>1, Elsewhere DEF PowerInv, Counters
  <2> QED BY <2>1, <2>2, <2>3, <2>4 DEF Next
<1>3. PowerInv => NoLostWakeup
  BY DEF PowerInv
<1> QED BY <1>1, <1>2, <1>3, PTL DEF Spec

-----------------------------------------------------------------------------
(* The ports, the LED and the pattern follow the last event.               *)

PowerTypes ==
  /\ Counters
  /\ mode \in Modes /\ curState \in Modes
  /\ notice \in [at : {"none", "enqueue", "signal"}, mode : Modes]
  /\ queue \in Seq(Modes)
  /\ walk \in [Walkers -> [mode : Modes, i : Nat \ {0}]]
  /\ enabled \in [Elements(PortSeq) -> BOOLEAN]
  /\ notified \in Modes \cup {"none"}

\* The mode the event thread took last.
Mode == walk[EVENT].mode

\* The event thread applies an event, or has applied the last one.
Applying == pc[EVENT] \in {"walk", "enable", "led", "invalidate", "pattern"}
Applied == notified # "none" /\ queue = <<>> /\ pc[EVENT] \in {"test", "blocked", "drain"}
Alone == ~overlap /\ (Applying \/ Applied)

\* The last event posted is at the end of the queue, or taken.
Posted ==
  /\ queue # <<>> => notified # "none" /\ queue[Len(queue)] = notified
  /\ notified # "none" /\ queue = <<>> => pc[EVENT] = "exited" \/ Mode = notified

\* The profile decides what follows the walk and whether a reason is polled.
ProfileSteps ==
  /\ pc[EVENT] = "led" => ~Tv
  /\ pc[EVENT] \in {"invalidate", "pattern"} => Tv
  /\ pc[RETRY] = "reason" \/ pc[REASON] # "none" => Tv
  /\ pc[EVENT] = "handle" => walk[EVENT].i = 1
  /\ pc[EVENT] = "enable" =>
       /\ Mode = "ON" /\ walk[EVENT].i \in DOMAIN PortSeq
       /\ PortSeq[walk[EVENT].i] \in Elements(AudioPorts)

\* Nobody else applies anything, and nobody will.
Undisturbed ==
  Alone => /\ pc[RETRY] = "done" /\ pc[REASON] \notin {"sync", "walk", "enable"}
           /\ Tv => firstDone

PortFollows(p) ==
  /\ p \in Elements(VideoPorts) => enabled[p] = (Mode = "ON")
  /\ p \in Elements(AudioPorts) /\ Mode # "ON" => enabled[p] = FALSE
\* The ports behind the walk stand as the mode asks.
WalkedFollow ==
  Alone => \A j \in DOMAIN PortSeq :
             (pc[EVENT] \in {"walk", "enable"} => j < walk[EVENT].i)
               => PortFollows(PortSeq[j])

\* The LED, or the pattern: once invalidated, the asynchronous one stays away.
LedFollows == Alone /\ Applied /\ ~Tv => led = (Mode = "ON")
PatternFollows ==
  Alone /\ Tv => /\ pc[EVENT] = "pattern" \/ Applied => invalidate = TRUE
                 /\ Applied /\ missed = FALSE => pattern = EventPattern(Mode)

FollowInv ==
  PowerTypes /\ Posted /\ ProfileSteps /\ Undisturbed /\ WalkedFollow
    /\ LedFollows /\ PatternFollows

\* The ports of the walk: first the video ports, then the audio ports.
LEMMA PortsOfTheWalk ==
  /\ Len(PortSeq) \in Nat /\ DOMAIN PortSeq = 1..Len(PortSeq)
  /\ \A j \in DOMAIN PortSeq : PortSeq[j] \in Elements(PortSeq)
  /\ \A j \in DOMAIN PortSeq : PortSeq[j] \in Elements(VideoPorts) \cup Elements(AudioPorts)
  /\ \A p \in Elements(VideoPorts) \cup Elements(AudioPorts) :
       \E j \in DOMAIN PortSeq : PortSeq[j] = p
  /\ Elements(VideoPorts) \cap Elements(AudioPorts) = {}
<1>1. ASSUME NEW S, NEW a \in Seq(S), NEW b \in Seq(S)
      PROVE  /\ Len(a \o b) \in Nat /\ DOMAIN (a \o b) = 1..Len(a \o b)
             /\ \A j \in DOMAIN (a \o b) : (a \o b)[j] \in Elements(a) \cup Elements(b)
             /\ \A p \in Elements(a) \cup Elements(b) :
                  \E j \in DOMAIN (a \o b) : (a \o b)[j] = p
  <2>1. /\ Len(a) \in Nat /\ DOMAIN a = 1..Len(a) /\ Len(b) \in Nat /\ DOMAIN b = 1..Len(b)
        /\ a \o b \in Seq(S) /\ Len(a \o b) = Len(a) + Len(b)
        /\ \A i \in 1..(Len(a) + Len(b)) :
             (a \o b)[i] = IF i <= Len(a) THEN a[i] ELSE b[i - Len(a)]
    BY <1>1, ConcatProperties
  <2>2. Len(a \o b) \in Nat /\ DOMAIN (a \o b) = 1..(Len(a) + Len(b))
    BY <2>1
  <2>3. ASSUME NEW j \in DOMAIN (a \o b)
        PROVE  (a \o b)[j] \in Elements(a) \cup Elements(b)
    <3>1. CASE j <= Len(a)
      BY <2>1, <2>2, <3>1 DEF Elements
    <3>2. CASE ~(j <= Len(a))
      <4>1. j - Len(a) \in DOMAIN b /\ (a \o b)[j] = b[j - Len(a)]
        BY <2>1, <2>2, <3>2
      <4> QED BY <4>1 DEF Elements
    <3> QED BY <3>1, <3>2
  <2>4. ASSUME NEW p \in Elements(a)
        PROVE  \E j \in DOMAIN (a \o b) : (a \o b)[j] = p
    <3>1. PICK j \in DOMAIN a : a[j] = p
      BY DEF Elements
    <3>2. j \in DOMAIN (a \o b) /\ (a \o b)[j] = p
      BY <2>1, <2>2, <3>1
    <3> QED BY <3>2
  <2>5. ASSUME NEW p \in Elements(b)
        PROVE  \E j \in DOMAIN (a \o b) : (a \o b)[j] = p
    <3>1. PICK j \in DOMAIN b : b[j] = p
      BY DEF Elements
    <3>2. /\ j + Len(a) \in 1..(Len(a) + Len(b)) /\ ~(j + Len(a) <= Len(a))
          /\ (j + Len(a)) - Len(a) = j
      BY <2>1, <3>1
    <3>3. j + Len(a) \in DOMAIN (a \o b) /\ (a \o b)[j + Len(a)] = p
      BY <2>1, <2>2, <3>1, <3>2
    <3> QED BY <3>3
  <2> QED BY <2>1, <2>2, <2>3, <2>4, <2>5
<1>2. /\ Len(PortSeq) \in Nat /\ DOMAIN PortSeq = 1..Len(PortSeq)
      /\ \A j \in DOMAIN PortSeq : PortSeq[j] \in Elements(VideoPorts) \cup Elements(AudioPorts)
      /\ \A p \in Elements(VideoPorts) \cup Elements(AudioPorts) :
           \E j \in DOMAIN PortSeq : PortSeq[j] = p
  <2>1. VideoPorts \in Seq(STRING) /\ AudioPorts \in Seq(STRING)
    BY PwrAssumption DEF PwrAssumption
  <2> QED BY <1>1, <2>1 DEF PortSeq
<1>3. \A j \in DOMAIN PortSeq : PortSeq[j] \in Elements(PortSeq)
  BY DEF Elements
<1>4. Elements(VideoPorts) \cap Elements(AudioPorts) = {}
  BY PwrAssumption DEF PwrAssumption
<1> QED BY <1>2, <1>3, <1>4

\* The modes are words, and none of them is "none".
LEMMA ModeWords ==
  "ON" \in Modes /\ "STANDBY" \in Modes /\ "none" \notin Modes
BY PwrAssumption DEF PwrAssumption

\* Init establishes the invariant.
LEMMA FollowInit == Init => FollowInv
<1> SUFFICES ASSUME Init PROVE FollowInv
  OBVIOUS
<1>1. Counters /\ pc[EVENT] = "test" /\ pc[RETRY] = "check" /\ pc[REASON] = "none"
  BY DEF Init, Counters, Labels, Threads, Walkers, EVENT, RETRY, REASON, BOOT
<1>2. NoWalk \in [mode : Modes, i : Nat \ {0}] /\ NoNotice \in [at : {"none", "enqueue", "signal"}, mode : Modes]
  BY ModeWords DEF NoWalk, NoNotice
<1>3. enabled \in [Elements(PortSeq) -> BOOLEAN]
  BY DEF Init
<1>4. PowerTypes
  BY <1>1, <1>2, <1>3, ModeWords DEF PowerTypes, Init
<1>5. queue = <<>> /\ notified = "none" /\ ~Alone
  BY <1>1 DEF Init, Alone, Applying, Applied
<1>6. Posted /\ ProfileSteps
  BY <1>1, <1>5 DEF Posted, ProfileSteps
<1> QED
  BY <1>4, <1>5, <1>6 DEF FollowInv, Undisturbed, WalkedFollow, LedFollows, PatternFollows

\* What another thread does leaves the event applied, if it is to be.
LEMMA FollowElsewhere ==
  ASSUME FollowInv, PowerTypes', pc'[EVENT] = pc[EVENT], walk'[EVENT] = walk[EVENT],
         UNCHANGED <<queue, notified, overlap, missed>>,
         pc'[RETRY] = "reason" \/ pc'[REASON] # "none" => Tv,
         Alone => /\ UNCHANGED <<enabled, led, firstDone>>
                  /\ pc'[RETRY] = "done" /\ pc'[REASON] \notin {"sync", "walk", "enable"}
                  /\ invalidate' = invalidate
                  /\ pattern' = pattern \/ invalidate # TRUE
  PROVE  FollowInv'
<1>1. /\ Mode' = Mode /\ (Applying' <=> Applying) /\ (Applied' <=> Applied)
  BY DEF Mode, Applying, Applied
<1>2. Alone' <=> Alone
  BY <1>1 DEF Alone
<1>3. Posted'
  BY <1>1 DEF FollowInv, Posted
<1>4. ProfileSteps'
  BY <1>1 DEF FollowInv, ProfileSteps
<1>5. Undisturbed'
  BY <1>2 DEF FollowInv, Undisturbed
<1>6. WalkedFollow'
  BY <1>1, <1>2 DEF FollowInv, WalkedFollow, PortFollows
<1>7. LedFollows'
  BY <1>1, <1>2 DEF FollowInv, LedFollows
<1>8. PatternFollows'
  BY <1>1, <1>2 DEF FollowInv, PatternFollows
<1> QED
  BY <1>3, <1>4, <1>5, <1>6, <1>7, <1>8 DEF FollowInv

\* The types of the steps that are not the event thread's.
LEMMA WalkTypes ==
  ASSUME FollowInv, NEW t \in Walkers, WalkStep(t)
  PROVE  PowerTypes'
<1> USE DEF FollowInv, PowerTypes, Counters, Labels, Goto, Threads, Walkers, EVENT, RETRY, REASON, BOOT,
            external, conn, history
<1>1. /\ UNCHANGED <<mode, curState, notice, queue, notified>>
  BY DEF WalkStep, WalkPort, EnableAudio
<1>2. AfterWalk(t) \in Labels
  BY DEF AfterWalk
<1>3. walk[t].mode \in Modes /\ walk[t].i \in Nat \ {0}
  OBVIOUS
<1>4. [walk EXCEPT ![t].i = @ + 1] \in [Walkers -> [mode : Modes, i : Nat \ {0}]]
  <2>1. [walk[t] EXCEPT !.i = @ + 1] \in [mode : Modes, i : Nat \ {0}]
    BY <1>3
  <2> QED BY <2>1
<1>5. CASE WalkPort(t)
  <2>1. pc' = pc \/ pc' = [pc EXCEPT ![t] = AfterWalk(t)] \/ pc' = [pc EXCEPT ![t] = "enable"]
    BY <1>5 DEF WalkPort
  <2>2. walk' = walk \/ walk' = [walk EXCEPT ![t].i = @ + 1]
    BY <1>5 DEF WalkPort
  <2>3. enabled' = enabled \/ \E b \in BOOLEAN : enabled' = [enabled EXCEPT ![PortSeq[walk[t].i]] = b]
    BY <1>5 DEF WalkPort
  <2>4. enabled' \in [Elements(PortSeq) -> BOOLEAN]
    BY <2>3
  <2>5. pc' \in [Threads -> Labels]
    BY <1>2, <2>1
  <2>6. walk' \in [Walkers -> [mode : Modes, i : Nat \ {0}]]
    BY <1>4, <2>2
  <2> QED
    BY <1>1, <2>4, <2>5, <2>6
<1>6. CASE EnableAudio(t)
  <2>1. /\ enabled' = [enabled EXCEPT ![PortSeq[walk[t].i]] = TRUE]
        /\ walk' = [walk EXCEPT ![t].i = @ + 1] /\ pc' = [pc EXCEPT ![t] = "walk"]
    BY <1>6 DEF EnableAudio
  <2>2. enabled' \in [Elements(PortSeq) -> BOOLEAN]
    BY <2>1
  <2> QED
    BY <1>1, <1>4, <2>1, <2>2
<1> QED BY <1>5, <1>6 DEF WalkStep

\* The walks of the retry thread and of the reboot reason check.
LEMMA FollowWalkers ==
  ASSUME FollowInv, NEW t \in {RETRY, REASON}, WalkStep(t) \/ ReasonSync(t)
  PROVE  FollowInv'
<1> USE DEF EVENT, RETRY, REASON, BOOT
<1>0. Counters /\ walk \in [Walkers -> [mode : Modes, i : Nat \ {0}]]
  BY DEF FollowInv, PowerTypes
<1>1. PowerTypes'
  <2>1. CASE WalkStep(t)
    BY <2>1, WalkTypes DEF Walkers
  <2>2. CASE ReasonSync(t)
    <3>1. [mode |-> (IF rebootType = "HARD" THEN "STANDBY" ELSE "ON"), i |-> 1]
            \in [mode : Modes, i : Nat \ {0}]
      BY ModeWords
    <3>2. walk' \in [Walkers -> [mode : Modes, i : Nat \ {0}]]
      BY <1>0, <2>2, <3>1 DEF ReasonSync, StartWalk
    <3>3. Counters'
      BY <1>0, <2>2 DEF ReasonSync, Goto, Counters, Labels, Threads, Walkers
    <3> QED
      BY <2>2, <3>2, <3>3 DEF ReasonSync, FollowInv, PowerTypes, external, conn, history
  <2> QED BY <2>1, <2>2
<1>2. pc[t] \in {"walk", "enable", "sync"}
  BY DEF WalkStep, WalkPort, EnableAudio, ReasonSync
<1>3. ~Alone
  BY <1>2 DEF FollowInv, Undisturbed
<1>4. UNCHANGED <<queue, notified, overlap, missed>>
  BY DEF WalkStep, WalkPort, EnableAudio, ReasonSync, history
<1>5. pc'[EVENT] = pc[EVENT] /\ (t = RETRY => pc'[REASON] = pc[REASON]) /\ (t = REASON => pc'[RETRY] = pc[RETRY])
  BY <1>0 DEF WalkStep, WalkPort, EnableAudio, ReasonSync, Goto, Counters, Threads, Walkers
<1>6. t = RETRY => pc'[RETRY] # "reason"
  BY <1>0 DEF WalkStep, WalkPort, EnableAudio, ReasonSync, Goto, Counters, Threads, Walkers, AfterWalk
<1>7. walk'[EVENT] = walk[EVENT]
  BY <1>0 DEF WalkStep, WalkPort, EnableAudio, ReasonSync, StartWalk, Walkers
<1>8. pc'[RETRY] = "reason" \/ pc'[REASON] # "none" => Tv
  BY <1>2, <1>5, <1>6 DEF FollowInv, ProfileSteps
<1> QED
  BY <1>1, <1>3, <1>4, <1>5, <1>7, <1>8, FollowElsewhere

\* The other steps of the retry thread, the reason check and the boot loader
\* thread.
LEMMA FollowOthers ==
  ASSUME FollowInv, RetryStep \/ ReasonStep \/ BootTry
  PROVE  FollowInv'
<1> USE DEF EVENT, RETRY, REASON, BOOT
<1>0. Counters /\ PowerTypes
  BY DEF FollowInv, PowerTypes
<1>1. ASSUME NEW l \in Labels, pc[RETRY] # "done", pc' = [pc EXCEPT ![RETRY] = l],
             l = "reason" => Tv, PowerTypes',
             walk'[EVENT] = walk[EVENT], UNCHANGED <<queue, notified, overlap, missed>>
      PROVE  FollowInv'
  <2>1. ~Alone
    BY <1>1 DEF FollowInv, Undisturbed
  <2>2. pc'[EVENT] = pc[EVENT] /\ pc'[RETRY] = l /\ pc'[REASON] = pc[REASON]
    BY <1>0, <1>1 DEF Counters, Threads, Walkers
  <2>3. pc'[RETRY] = "reason" \/ pc'[REASON] # "none" => Tv
    BY <1>1, <2>2 DEF FollowInv, ProfileSteps
  <2> QED
    BY <1>1, <2>1, <2>2, <2>3, FollowElsewhere
<1>2. CASE RetryCheck \/ RetryConnect \/ RetryRegister
  <2>1. PICK l \in Labels : /\ pc[RETRY] # "done" /\ pc' = [pc EXCEPT ![RETRY] = l]
                            /\ l # "reason"
    BY <1>2 DEF RetryCheck, RetryConnect, RetryRegister, Goto, Labels
  <2>2. UNCHANGED <<mode, curState, notice, queue, walk, enabled, notified, overlap, missed>>
    BY <1>2 DEF RetryCheck, RetryConnect, RetryRegister, external, conn, ports, history
  <2>3. PowerTypes'
    BY <1>0, <2>1, <2>2 DEF PowerTypes, Counters
  <2> QED
    BY <1>1, <2>1, <2>2, <2>3
<1>3. CASE RetryGetState
  <2>1. pc[RETRY] # "done" /\ pc' = [pc EXCEPT ![RETRY] = "check"] /\ curState' \in {curState, mode}
    BY <1>3 DEF RetryGetState, Goto
  <2>2. UNCHANGED <<mode, notice, queue, walk, enabled, notified, overlap, missed>>
    BY <1>3 DEF RetryGetState, external, ports, history
  <2>3. PowerTypes'
    BY <1>0, <2>1, <2>2 DEF PowerTypes, Counters, Labels
  <2> QED
    BY <1>1, <2>1, <2>2, <2>3 DEF Labels
<1>4. CASE RetryFetch
  <2>1. PICK l \in {"reason", "walk"}, m \in Modes :
          /\ pc' = [pc EXCEPT ![RETRY] = l] /\ (l = "reason" => Tv)
          /\ walk' = walk \/ walk' = [walk EXCEPT ![RETRY] = [mode |-> m, i |-> 1]]
    <3>1. curState \in Modes
      BY <1>0 DEF PowerTypes
    <3>2. PICK before \in {lastMode, "STANDBY"}, force \in BOOLEAN :
       LET wasOn == before = "ON" /\ curState = "STANDBY"
           defer == Tv /\ wasOn /\ ~force /\ rebootType = "UNAVAILABLE"
           target == IF ~wasOn THEN curState
                     ELSE IF Tv /\ ~force /\ rebootType = "HARD" THEN "STANDBY"
                     ELSE "ON"
       IN /\ walk' = IF defer THEN walk ELSE StartWalk(RETRY, target)
          /\ pc' = Goto(RETRY, IF defer THEN "reason" ELSE "walk")
      BY <1>4 DEF RetryFetch
    <3> QED
      BY <3>1, <3>2, ModeWords DEF StartWalk, Goto
  <2>2. pc[RETRY] # "done" /\ UNCHANGED <<mode, curState, notice, queue, enabled, notified, overlap, missed>>
    BY <1>4 DEF RetryFetch, external, conn, history
  <2>3. walk' \in [Walkers -> [mode : Modes, i : Nat \ {0}]] /\ walk'[EVENT] = walk[EVENT]
    BY <1>0, <2>1 DEF PowerTypes, Walkers
  <2>4. PowerTypes'
    BY <1>0, <2>1, <2>2, <2>3 DEF PowerTypes, Counters, Labels
  <2> QED
    BY <1>1, <2>1, <2>2, <2>3, <2>4 DEF Labels
<1>5. CASE RetryReason
  <2>1. /\ pc[RETRY] = "reason" /\ Tv
        /\ UNCHANGED <<mode, curState, notice, queue, walk, enabled, notified, overlap, missed>>
    BY <1>5 DEF RetryReason, external, conn, ports, history, FollowInv, ProfileSteps
  <2>2. AfterReason(RETRY) \in {"pattern", "sync"}
    BY DEF AfterReason, AfterWalk
  <2>3. \/ pc' = [pc EXCEPT ![RETRY] = "pattern", ![REASON] = "poll"]
        \/ pc' = [pc EXCEPT ![RETRY] = AfterReason(RETRY)]
    BY <1>5 DEF RetryReason, Goto
  <2>4. pc'[EVENT] = pc[EVENT] /\ Counters'
    BY <1>0, <2>2, <2>3 DEF Counters, Labels, Threads, Walkers
  <2>5. PowerTypes'
    BY <1>0, <2>1, <2>4 DEF PowerTypes
  <2>6. ~Alone
    BY <2>1 DEF FollowInv, Undisturbed
  <2> QED
    BY <2>1, <2>4, <2>5, <2>6, FollowElsewhere
<1>6. CASE RetrySetPattern
  <2>1. PICK l \in {"done", "spawn"} : pc[RETRY] = "pattern" /\ pc' = [pc EXCEPT ![RETRY] = l]
    BY <1>6 DEF RetrySetPattern, Goto
  <2>2. UNCHANGED <<mode, curState, notice, queue, walk, enabled, notified, overlap, missed>>
    BY <1>6 DEF RetrySetPattern, external, conn, ports, history
  <2>3. PowerTypes'
    BY <1>0, <2>1, <2>2 DEF PowerTypes, Counters, Labels
  <2> QED
    BY <1>1, <2>1, <2>2, <2>3 DEF Labels
<1>7. CASE RetrySpawn
  <2>1. /\ pc[RETRY] = "spawn" /\ pc' = [pc EXCEPT ![RETRY] = "done", ![BOOT] = "try"]
        /\ UNCHANGED <<mode, curState, notice, queue, walk, enabled, notified, overlap, missed>>
    BY <1>7 DEF RetrySpawn, external, conn, ports, history
  <2>2. pc'[EVENT] = pc[EVENT] /\ pc'[REASON] = pc[REASON] /\ pc'[RETRY] = "done" /\ Counters'
    BY <1>0, <2>1 DEF Counters, Labels, Threads, Walkers
  <2>3. PowerTypes'
    BY <1>0, <2>1, <2>2 DEF PowerTypes
  <2>4. ~Alone
    BY <2>1 DEF FollowInv, Undisturbed
  <2>5. pc'[RETRY] = "reason" \/ pc'[REASON] # "none" => Tv
    BY <2>2 DEF FollowInv, ProfileSteps
  <2> QED
    BY <2>1, <2>2, <2>3, <2>4, <2>5, FollowElsewhere
<1>8. CASE ReasonPoll
  <2>1. /\ pc[REASON] = "poll" /\ Tv
        /\ UNCHANGED <<mode, curState, notice, queue, walk, enabled, notified, overlap, missed,
                       led, firstDone, invalidate, pattern>>
    BY <1>8 DEF ReasonPoll, external, conn, ports, boot, history, FollowInv, ProfileSteps
  <2>2. AfterReason(REASON) = IF firstDone THEN "done" ELSE "sync"
    BY DEF AfterReason, AfterWalk
  <2>3. PICK l \in {"done", "sync"} : pc' = [pc EXCEPT ![REASON] = l] /\ (firstDone => l = "done")
    BY <1>8, <2>2 DEF ReasonPoll, Goto
  <2>4. pc'[EVENT] = pc[EVENT] /\ pc'[RETRY] = pc[RETRY] /\ pc'[REASON] = l /\ Counters'
    BY <1>0, <2>3 DEF Counters, Labels, Threads, Walkers
  <2>5. PowerTypes'
    BY <1>0, <2>1, <2>4 DEF PowerTypes
  <2>6. Alone => pc'[RETRY] = "done" /\ pc'[REASON] \notin {"sync", "walk", "enable"}
    BY <2>1, <2>3, <2>4 DEF FollowInv, Undisturbed
  <2> QED
    BY <2>1, <2>4, <2>5, <2>6, FollowElsewhere
<1>9. CASE BootTry
  <2>1. PICK l \in {"done", "try"} : pc' = [pc EXCEPT ![BOOT] = l]
    BY <1>9 DEF BootTry, Goto
  <2>2. /\ UNCHANGED <<mode, curState, notice, queue, walk, enabled, notified, overlap, missed,
                       led, firstDone, invalidate>>
        /\ pattern' = pattern \/ invalidate # TRUE
    BY <1>9 DEF BootTry, external, conn, ports, history
  <2>3. pc'[EVENT] = pc[EVENT] /\ pc'[RETRY] = pc[RETRY] /\ pc'[REASON] = pc[REASON] /\ Counters'
    BY <1>0, <2>1 DEF Counters, Labels, Threads, Walkers
  <2>4. PowerTypes'
    BY <1>0, <2>2, <2>3 DEF PowerTypes
  <2>5. /\ pc'[RETRY] = "reason" \/ pc'[REASON] # "none" => Tv
        /\ Alone => pc'[RETRY] = "done" /\ pc'[REASON] \notin {"sync", "walk", "enable"}
    BY <2>3 DEF FollowInv, ProfileSteps, Undisturbed
  <2> QED
    BY <2>2, <2>3, <2>4, <2>5, FollowElsewhere
<1>10. CASE \E t \in {RETRY, REASON} : WalkStep(t) \/ ReasonSync(t)
  BY <1>10, FollowWalkers
<1> QED
  BY <1>2, <1>3, <1>4, <1>5, <1>6, <1>7, <1>8, <1>9, <1>10 DEF RetryStep, ReasonStep

\* The PowerManager, its callback and Deinit.
LEMMA FollowCallbacks ==
  ASSUME FollowInv,
         \/ \E m \in Modes : ChangeMode(m)
         \/ Enqueue \/ SignalEvent \/ RebootInfoUpdated \/ SpuriousWakeup
         \/ DeinitUnregister \/ DeinitStep
  PROVE  FollowInv'
<1> USE DEF EVENT, RETRY, REASON, BOOT
<1>0. Counters /\ PowerTypes
  BY DEF FollowInv, PowerTypes
<1>1. ASSUME PowerTypes', UNCHANGED <<queue, pc, walk, notified, overlap, missed, enabled, led,
                                      firstDone, invalidate, pattern>>
      PROVE  FollowInv'
  <2>1. /\ pc'[RETRY] = "reason" \/ pc'[REASON] # "none" => Tv
        /\ Alone => pc'[RETRY] = "done" /\ pc'[REASON] \notin {"sync", "walk", "enable"}
    BY <1>1 DEF FollowInv, ProfileSteps, Undisturbed
  <2> QED
    BY <1>1, <2>1, FollowElsewhere
<1>2. CASE \E m \in Modes : ChangeMode(m)
  <2>1. PICK m \in Modes : ChangeMode(m)
    BY <1>2
  <2>2. /\ UNCHANGED <<queue, pc, walk, notified, overlap, missed, enabled, led,
                       firstDone, invalidate, pattern, curState>>
        /\ mode' = m /\ notice' \in {[at |-> "enqueue", mode |-> m], NoNotice}
    BY <2>1 DEF ChangeMode, conn, ports, boot, history
  <2>3. PowerTypes'
    BY <1>0, <2>2, ModeWords DEF PowerTypes, NoNotice, Counters
  <2> QED BY <1>1, <2>2, <2>3
<1>3. CASE RebootInfoUpdated \/ DeinitUnregister
  <2>1. UNCHANGED <<queue, pc, walk, notified, overlap, missed, enabled, led,
                    firstDone, invalidate, pattern, curState, mode, notice>>
    BY <1>3 DEF RebootInfoUpdated, DeinitUnregister, external, conn, ports, boot, history
  <2>2. PowerTypes'
    BY <1>0, <2>1 DEF PowerTypes, Counters
  <2> QED BY <1>1, <2>1, <2>2
<1>4. ASSUME PowerTypes', UNCHANGED <<queue, walk, notified, overlap, missed, enabled, led,
                                      firstDone, invalidate, pattern>>,
             pc' = pc \/ (pc[EVENT] = "blocked" /\ pc' = [pc EXCEPT ![EVENT] = "test"])
      PROVE  FollowInv'
  <2>1. CASE pc' = pc
    BY <1>1, <1>4, <2>1
  <2>2. CASE pc[EVENT] = "blocked" /\ pc' = [pc EXCEPT ![EVENT] = "test"]
    <3>1. pc'[EVENT] = "test" /\ pc'[RETRY] = pc[RETRY] /\ pc'[REASON] = pc[REASON]
      BY <1>0, <2>2 DEF Counters, Threads, Walkers
    <3>2. Mode' = Mode /\ ~Applying /\ ~Applying' /\ (Applied' <=> Applied)
      BY <1>4, <2>2, <3>1 DEF Mode, Applying, Applied
    <3>3. Alone' <=> Alone
      BY <1>4, <3>2 DEF Alone
    <3>4. Posted' /\ ProfileSteps'
      BY <1>4, <2>2, <3>1, <3>2 DEF FollowInv, Posted, ProfileSteps
    <3>5. Undisturbed' /\ LedFollows'
      BY <1>4, <3>1, <3>2, <3>3 DEF FollowInv, Undisturbed, LedFollows
    <3>6. WalkedFollow'
      BY <1>4, <2>2, <3>1, <3>2, <3>3 DEF FollowInv, WalkedFollow, PortFollows
    <3>7. PatternFollows'
      BY <1>4, <3>1, <3>2, <3>3 DEF FollowInv, PatternFollows
    <3> QED BY <1>4, <3>4, <3>5, <3>6, <3>7 DEF FollowInv
  <2> QED BY <1>4, <2>1, <2>2
<1>5. CASE SignalEvent \/ SpuriousWakeup \/ DeinitStop
  <2>1. /\ UNCHANGED <<queue, walk, notified, overlap, missed, enabled, led,
                       firstDone, invalidate, pattern, mode, curState>>
        /\ notice' = notice \/ notice' = NoNotice
    BY <1>5 DEF SignalEvent, SpuriousWakeup, DeinitStop, external, conn, ports, boot, history
  <2>2. pc' = pc \/ (pc[EVENT] = "blocked" /\ pc' = [pc EXCEPT ![EVENT] = "test"])
    BY <1>5 DEF SignalEvent, SpuriousWakeup, DeinitStop, Signal, Goto
  <2>3. PowerTypes'
    BY <1>0, <2>1, <2>2, ModeWords DEF PowerTypes, NoNotice, Counters, Labels
  <2> QED BY <1>4, <2>1, <2>2, <2>3
<1>6. CASE Enqueue
  <2>1. /\ notice.mode \in Modes /\ queue' = Append(queue, notice.mode)
        /\ notified' = notice.mode /\ notice' = [notice EXCEPT !.at = "signal"]
        /\ UNCHANGED <<pc, walk, overlap, missed, enabled, led, firstDone, invalidate,
                       pattern, mode, curState>>
    BY <1>0, <1>6 DEF Enqueue, external, conn, ports, boot, PowerTypes
  <2>2. PowerTypes'
    <3>1. queue' \in Seq(Modes) /\ notified' \in Modes
      BY <1>0, <2>1 DEF PowerTypes
    <3>2. notice' \in [at : {"none", "enqueue", "signal"}, mode : Modes]
      BY <1>0, <2>1 DEF PowerTypes
    <3> QED BY <1>0, <2>1, <3>1, <3>2 DEF PowerTypes, Counters
  <2>3. queue \in Seq(Modes) /\ queue' # <<>> /\ queue'[Len(queue')] = notified' /\ notified' # "none"
    BY <1>0, <2>1, ModeWords DEF PowerTypes
  <2>4. Posted' /\ ProfileSteps'
    BY <2>1, <2>3 DEF FollowInv, Posted, ProfileSteps, Mode
  <2>5. ~Applied' /\ Mode' = Mode /\ (Alone' => Alone)
    BY <2>1, <2>3 DEF Alone, Applied, Applying, Mode
  <2>6. Undisturbed' /\ LedFollows'
    BY <2>1, <2>5 DEF FollowInv, Undisturbed, LedFollows
  <2>7. WalkedFollow'
    BY <2>1, <2>5 DEF FollowInv, WalkedFollow, PortFollows
  <2>8. PatternFollows'
    BY <2>1, <2>5 DEF FollowInv, PatternFollows
  <2> QED BY <2>2, <2>4, <2>6, <2>7, <2>8 DEF FollowInv
<1>7. CASE DeinitJoin
  <2>1. /\ pc[EVENT] = "exited" /\ queue' = <<>>
        /\ UNCHANGED <<pc, walk, notified, notice, mode, curState, enabled>>
    BY <1>7 DEF DeinitJoin, external, conn, ports, history
  <2>2. PowerTypes'
    BY <1>0, <2>1 DEF PowerTypes, Counters
  <2>3. Posted' /\ ProfileSteps' /\ ~Alone'
    BY <2>1 DEF FollowInv, Posted, ProfileSteps, Mode, Alone, Applying, Applied
  <2> QED
    BY <2>2, <2>3 DEF FollowInv, Undisturbed, WalkedFollow, LedFollows, PatternFollows
<1> QED
  BY <1>2, <1>3, <1>5, <1>6, <1>7 DEF DeinitStep

\* The walk of the event thread: each port is left as the mode asks.
LEMMA FollowEventWalk ==
  ASSUME FollowInv, WalkStep(EVENT)
  PROVE  FollowInv'
<1> USE DEF EVENT, RETRY, REASON, BOOT
<1>a. /\ Counters /\ PowerTypes
      /\ walk \in [Walkers -> [mode : Modes, i : Nat \ {0}]] /\ EVENT \in Walkers
  BY DEF FollowInv, PowerTypes, Walkers
<1>b. PICK i \in Nat \ {0} : i = walk[EVENT].i
  BY <1>a
<1>0. /\ Counters /\ PowerTypes
      /\ walk \in [Walkers -> [mode : Modes, i : Nat \ {0}]] /\ EVENT \in Walkers
      /\ i \in Nat \ {0} /\ walk[EVENT].i = i
  BY <1>a, <1>b
<1>1. PowerTypes'
  BY WalkTypes DEF Walkers
<1>2. UNCHANGED <<queue, notified, overlap, missed, led, firstDone, invalidate, pattern>>
  BY DEF WalkStep, WalkPort, EnableAudio, boot, history
<1>3. /\ pc[EVENT] \in {"walk", "enable"}
      /\ pc'[EVENT] \in {"walk", "enable", AfterWalk(EVENT)}
      /\ pc'[RETRY] = pc[RETRY] /\ pc'[REASON] = pc[REASON]
  BY <1>0 DEF WalkStep, WalkPort, EnableAudio, Goto, Counters, Threads, Walkers
<1>4. AfterWalk(EVENT) = IF Tv THEN "invalidate" ELSE "led"
  BY DEF AfterWalk
<1>5. Mode' = Mode
  BY <1>0 DEF WalkStep, WalkPort, EnableAudio, Mode
<1>6. ~Applied' /\ Applying /\ Applying' /\ (Alone' <=> Alone)
  BY <1>2, <1>3, <1>4 DEF Applied, Applying, Alone
<1>7. Posted'
  BY <1>2, <1>3, <1>5 DEF FollowInv, Posted
<1>8. Undisturbed'
  BY <1>2, <1>3, <1>6 DEF FollowInv, Undisturbed
<1>9. LedFollows' /\ PatternFollows'
  BY <1>3, <1>4, <1>6 DEF LedFollows, PatternFollows
<1>10. CASE /\ i \in DOMAIN PortSeq
            /\ pc'[EVENT] = "walk" /\ walk'[EVENT].i = i + 1
            /\ PortFollows(PortSeq[i])'
            /\ \A p \in Elements(PortSeq) : p # PortSeq[i] => enabled'[p] = enabled[p]
  <2>1. ProfileSteps'
    BY <1>3, <1>10 DEF FollowInv, ProfileSteps
  <2>2. WalkedFollow'
    <3>1. SUFFICES ASSUME Alone', NEW j \in DOMAIN PortSeq, j < i + 1
                   PROVE  PortFollows(PortSeq[j])'
      BY <1>10 DEF WalkedFollow
    <3>2. CASE PortSeq[j] = PortSeq[i]
      BY <1>10, <3>2
    <3>3. CASE PortSeq[j] # PortSeq[i]
      <4>1. j \in Nat /\ j # i /\ j < i
        BY <1>0, <3>1, <3>3, PortsOfTheWalk
      <4>2. PortFollows(PortSeq[j])
        BY <1>0, <1>6, <3>1, <4>1 DEF FollowInv, WalkedFollow
      <4>3. enabled'[PortSeq[j]] = enabled[PortSeq[j]]
        BY <1>10, <3>3, PortsOfTheWalk
      <4> QED BY <1>5, <4>2, <4>3 DEF PortFollows
    <3> QED BY <3>2, <3>3
  <2> QED
    BY <1>1, <1>7, <1>8, <1>9, <2>1, <2>2 DEF FollowInv
<1>11. CASE WalkPort(EVENT)
  <2>1. CASE i \notin DOMAIN PortSeq
    <3>1. pc'[EVENT] = AfterWalk(EVENT) /\ UNCHANGED <<enabled, walk>>
      BY <1>0, <1>11, <2>1 DEF WalkPort, Goto, Counters, Threads, Walkers
    <3>2. \A j \in DOMAIN PortSeq : j < i
      BY <1>0, <2>1, PortsOfTheWalk
    <3>3. ProfileSteps'
      BY <1>3, <1>4, <3>1 DEF FollowInv, ProfileSteps
    <3>4. WalkedFollow'
      BY <1>0, <1>5, <1>6, <3>1, <3>2 DEF FollowInv, WalkedFollow, PortFollows
    <3> QED
      BY <1>1, <1>7, <1>8, <1>9, <3>3, <3>4 DEF FollowInv
  <2>2. CASE i \in DOMAIN PortSeq /\ Mode = "ON" /\ PortSeq[i] \in Elements(AudioPorts)
    <3>1. CASE enabled[PortSeq[i]]
      <4>1. pc'[EVENT] = "enable" /\ UNCHANGED <<enabled, walk>>
        BY <1>0, <1>11, <2>2, <3>1 DEF WalkPort, Goto, Counters, Threads, Walkers, Mode
      <4>2. ProfileSteps'
        BY <1>0, <1>3, <1>5, <2>2, <4>1 DEF FollowInv, ProfileSteps
      <4>3. WalkedFollow'
        BY <1>3, <1>5, <1>6, <4>1 DEF FollowInv, WalkedFollow, PortFollows
      <4> QED
        BY <1>1, <1>7, <1>8, <1>9, <4>2, <4>3 DEF FollowInv
    <3>2. CASE ~enabled[PortSeq[i]]
      <4>1. UNCHANGED <<pc, enabled>> /\ walk' = [walk EXCEPT ![EVENT].i = @ + 1] /\ pc[EVENT] = "walk"
        BY <1>0, <1>11, <2>2, <3>2 DEF WalkPort, Mode
      <4>2. walk'[EVENT].i = i + 1
        BY <1>0, <4>1
      <4>3. PortFollows(PortSeq[i])'
        BY <1>5, <2>2, PortsOfTheWalk DEF PortFollows
      <4> QED BY <1>10, <2>2, <4>1, <4>2, <4>3
    <3> QED BY <3>1, <3>2
  <2>3. CASE i \in DOMAIN PortSeq /\ ~(Mode = "ON" /\ PortSeq[i] \in Elements(AudioPorts))
    <3>1. /\ enabled' = [enabled EXCEPT ![PortSeq[i]] = (Mode = "ON")]
          /\ walk' = [walk EXCEPT ![EVENT].i = @ + 1] /\ pc' = pc /\ pc[EVENT] = "walk"
      BY <1>0, <1>11, <2>3 DEF WalkPort, Mode
    <3>2. walk'[EVENT].i = i + 1
      BY <1>0, <3>1
    <3>3. PortSeq[i] \in Elements(PortSeq) /\ enabled \in [Elements(PortSeq) -> BOOLEAN]
      BY <1>0, <2>3, PortsOfTheWalk DEF PowerTypes
    <3>4. /\ enabled'[PortSeq[i]] = (Mode = "ON")
          /\ \A p \in Elements(PortSeq) : p # PortSeq[i] => enabled'[p] = enabled[p]
      BY <3>1, <3>3
    <3>5. Mode # "ON" => enabled'[PortSeq[i]] = FALSE
      BY <3>4
    <3>6. PortFollows(PortSeq[i])'
      BY <1>5, <3>4, <3>5, Zenon DEF PortFollows
    <3> QED BY <1>10, <2>3, <3>1, <3>2, <3>4, <3>6
  <2> QED BY <2>1, <2>2, <2>3
<1>12. CASE EnableAudio(EVENT)
  <2>1. /\ pc[EVENT] = "enable" /\ enabled' = [enabled EXCEPT ![PortSeq[i]] = TRUE]
        /\ walk' = [walk EXCEPT ![EVENT].i = @ + 1] /\ pc' = [pc EXCEPT ![EVENT] = "walk"]
    BY <1>0, <1>12 DEF EnableAudio, Goto
  <2>2. walk'[EVENT].i = i + 1 /\ pc'[EVENT] = "walk"
    BY <1>0, <2>1 DEF Counters, Threads, Walkers
  <2>3. Mode = "ON" /\ i \in DOMAIN PortSeq /\ PortSeq[i] \in Elements(AudioPorts)
    BY <1>0, <2>1 DEF FollowInv, ProfileSteps
  <2>4. PortFollows(PortSeq[i])'
    BY <1>5, <2>3, PortsOfTheWalk DEF PortFollows
  <2>5. \A p \in Elements(PortSeq) : p # PortSeq[i] => enabled'[p] = enabled[p]
    BY <1>0, <2>1 DEF PowerTypes
  <2> QED BY <1>10, <2>2, <2>3, <2>4, <2>5
<1> QED BY <1>11, <1>12 DEF WalkStep

\* The other steps of the event thread.
LEMMA FollowEvent ==
  ASSUME FollowInv, EventStep
  PROVE  FollowInv'
<1> USE DEF EVENT, RETRY, REASON, BOOT
<1>0. Counters /\ PowerTypes
  BY DEF FollowInv, PowerTypes
<1>1. ASSUME NEW l \in Labels, pc' = [pc EXCEPT ![EVENT] = l]
      PROVE  /\ pc'[EVENT] = l /\ pc'[RETRY] = pc[RETRY] /\ pc'[REASON] = pc[REASON]
             /\ Counters'
  BY <1>0, <1>1 DEF Counters, Threads, Walkers
<1>2. CASE EventTest
  <2>1. PICK l \in {"exited", "blocked", "drain"} : pc' = [pc EXCEPT ![EVENT] = l]
    BY <1>2 DEF EventTest, Goto
  <2>2. /\ pc[EVENT] = "test"
        /\ UNCHANGED <<queue, walk, notified, overlap, missed, enabled, led,
                       firstDone, invalidate, pattern, mode, curState, notice>>
    BY <1>2 DEF EventTest, external, conn, ports, boot, history
  <2>3. pc'[EVENT] = l /\ pc'[RETRY] = pc[RETRY] /\ pc'[REASON] = pc[REASON] /\ Counters'
    BY <1>1, <2>1 DEF Labels
  <2>4. PowerTypes'
    BY <1>0, <2>2, <2>3 DEF PowerTypes
  <2>5. Mode' = Mode /\ ~Applying' /\ (Applied' => Applied) /\ (Alone' => Alone)
    BY <2>2, <2>3 DEF Mode, Applying, Applied, Alone
  <2>6. Posted' /\ ProfileSteps'
    BY <2>2, <2>3, <2>5 DEF FollowInv, Posted, ProfileSteps
  <2>7. Undisturbed' /\ LedFollows'
    BY <2>2, <2>3, <2>5 DEF FollowInv, Undisturbed, LedFollows
  <2>8. WalkedFollow'
    BY <2>2, <2>3, <2>5 DEF FollowInv, WalkedFollow, PortFollows
  <2>9. PatternFollows'
    BY <2>2, <2>3, <2>5 DEF FollowInv, PatternFollows
  <2> QED BY <2>4, <2>6, <2>7, <2>8, <2>9 DEF FollowInv
<1>3. CASE EventDrain
  <2>1. /\ pc[EVENT] = "drain"
        /\ UNCHANGED <<notified, overlap, missed, enabled, led,
                       firstDone, invalidate, pattern, mode, curState, notice>>
    BY <1>3 DEF EventDrain, external, conn, boot, history
  <2>2. CASE queue = <<>>
    <3>1. pc' = [pc EXCEPT ![EVENT] = "test"] /\ UNCHANGED <<queue, walk>>
      BY <1>3, <2>2 DEF EventDrain, Goto
    <3>2. pc'[EVENT] = "test" /\ pc'[RETRY] = pc[RETRY] /\ pc'[REASON] = pc[REASON] /\ Counters'
      BY <1>1, <3>1 DEF Labels
    <3>3. PowerTypes'
      BY <1>0, <2>1, <3>1, <3>2 DEF PowerTypes
    <3>4. Mode' = Mode /\ ~Applying' /\ (Applied' <=> Applied) /\ (Alone' => Alone)
      BY <2>1, <3>1, <3>2 DEF Mode, Applying, Applied, Alone
    <3>5. Posted' /\ ProfileSteps'
      BY <2>1, <3>1, <3>2, <3>4 DEF FollowInv, Posted, ProfileSteps
    <3>6. Undisturbed' /\ LedFollows'
      BY <2>1, <3>1, <3>2, <3>4 DEF FollowInv, Undisturbed, LedFollows
    <3>7. WalkedFollow'
      BY <2>1, <3>1, <3>2, <3>4 DEF FollowInv, WalkedFollow, PortFollows
    <3>8. PatternFollows'
      BY <2>1, <3>1, <3>2, <3>4 DEF FollowInv, PatternFollows
    <3> QED BY <3>3, <3>5, <3>6, <3>7, <3>8 DEF FollowInv
  <2>3. CASE queue # <<>>
    <3>1. /\ pc' = [pc EXCEPT ![EVENT] = "handle"] /\ queue' = Tail(queue)
          /\ walk' = [walk EXCEPT ![EVENT] = [mode |-> Head(queue), i |-> 1]]
      BY <1>3, <2>3 DEF EventDrain, Goto, StartWalk
    <3>2. pc'[EVENT] = "handle" /\ pc'[RETRY] = pc[RETRY] /\ pc'[REASON] = pc[REASON] /\ Counters'
      BY <1>1, <3>1 DEF Labels
    <3>3. /\ queue \in Seq(Modes) /\ Head(queue) \in Modes /\ Tail(queue) \in Seq(Modes)
          /\ Len(Tail(queue)) = Len(queue) - 1
          /\ \A k \in 1..Len(Tail(queue)) : Tail(queue)[k] = queue[k + 1]
      BY <1>0, <2>3, HeadTailProperties DEF PowerTypes
    <3>4. /\ walk' \in [Walkers -> [mode : Modes, i : Nat \ {0}]] /\ Mode' = Head(queue)
          /\ walk'[EVENT].i = 1
      BY <1>0, <3>1, <3>3 DEF PowerTypes, Walkers, Mode
    <3>5. PowerTypes'
      BY <1>0, <2>1, <3>1, <3>2, <3>3, <3>4 DEF PowerTypes
    <3>6. notified # "none" /\ queue[Len(queue)] = notified
      BY <2>3 DEF FollowInv, Posted
    <3>7. CASE Tail(queue) = <<>>
      <4>0. Len(Tail(queue)) = 0
        BY <3>3, <3>7, EmptySeq
      <4>1. Len(queue) \in Nat /\ Head(queue) = queue[1]
        BY <2>3, <3>3
      <4>2. Len(queue) = 1
        BY <3>3, <4>0, <4>1
      <4>3. Head(queue) = notified
        BY <3>6, <4>1, <4>2
      <4>4. Posted'
        BY <2>1, <3>1, <3>4, <3>7, <4>3 DEF Posted
      <4> QED
        BY <3>2, <3>4, <3>5, <4>4 DEF FollowInv, ProfileSteps, Undisturbed, WalkedFollow, LedFollows,
             PatternFollows, Alone, Applying, Applied
    <3>8. CASE Tail(queue) # <<>>
      <4>1. Len(Tail(queue)) \in 1..Len(Tail(queue)) /\ Len(Tail(queue)) + 1 = Len(queue)
        BY <2>3, <3>3, <3>8
      <4>2. Tail(queue)[Len(Tail(queue))] = notified
        BY <3>3, <3>6, <4>1
      <4>3. Posted'
        BY <2>1, <3>1, <3>6, <3>8, <4>2 DEF Posted
      <4> QED
        BY <3>2, <3>4, <3>5, <4>3 DEF FollowInv, ProfileSteps, Undisturbed, WalkedFollow, LedFollows,
             PatternFollows, Alone, Applying, Applied
    <3> QED BY <3>7, <3>8
  <2> QED BY <2>2, <2>3
<1>4. CASE EventHandle
  <2>1. /\ pc[EVENT] = "handle" /\ pc' = [pc EXCEPT ![EVENT] = "walk"]
        /\ UNCHANGED <<queue, walk, notified, missed, enabled, led,
                       invalidate, pattern, mode, curState, notice>>
    BY <1>4 DEF EventHandle, Goto, external, conn, ports, boot
  <2>2. pc'[EVENT] = "walk" /\ pc'[RETRY] = pc[RETRY] /\ pc'[REASON] = pc[REASON] /\ Counters'
    BY <1>1, <2>1 DEF Labels
  <2>3. PowerTypes'
    BY <1>0, <2>1, <2>2 DEF PowerTypes
  <2>4. Mode' = Mode /\ ~Applied'
    BY <2>1, <2>2 DEF Mode, Applied
  <2>5. Posted' /\ ProfileSteps' /\ LedFollows' /\ PatternFollows'
    BY <2>1, <2>2, <2>4 DEF FollowInv, Posted, ProfileSteps, LedFollows, PatternFollows
  <2>6. /\ ~overlap' => pc[RETRY] = "done" /\ pc[REASON] \notin {"sync", "walk", "enable"}
        /\ Tv => firstDone'
    BY <1>4 DEF EventHandle
  <2>7. Undisturbed'
    BY <2>2, <2>6 DEF Undisturbed, Alone
  <2>8. WalkedFollow'
    <3>1. walk'[EVENT].i = 1
      BY <2>1 DEF FollowInv, ProfileSteps
    <3>2. \A j \in DOMAIN PortSeq : ~(j < 1)
      BY PortsOfTheWalk
    <3> QED BY <2>2, <3>1, <3>2 DEF WalkedFollow
  <2> QED BY <2>3, <2>5, <2>7, <2>8 DEF FollowInv
<1>5. CASE EventLed
  <2>1. /\ pc[EVENT] = "led" /\ pc' = [pc EXCEPT ![EVENT] = "drain"] /\ led' = (Mode = "ON")
        /\ UNCHANGED <<queue, walk, notified, overlap, missed, enabled, firstDone,
                       invalidate, pattern, mode, curState, notice>>
    BY <1>5 DEF EventLed, Goto, external, conn, ports, boot, history, Mode
  <2>2. pc'[EVENT] = "drain" /\ pc'[RETRY] = pc[RETRY] /\ pc'[REASON] = pc[REASON] /\ Counters'
    BY <1>1, <2>1 DEF Labels
  <2>3. PowerTypes'
    BY <1>0, <2>1, <2>2 DEF PowerTypes
  <2>4. Mode' = Mode /\ ~Tv /\ (Alone' => Alone)
    BY <2>1 DEF Mode, FollowInv, ProfileSteps, Alone, Applying, Applied
  <2>5. Posted' /\ ProfileSteps' /\ PatternFollows'
    BY <2>1, <2>2, <2>4 DEF FollowInv, Posted, ProfileSteps, PatternFollows
  <2>6. Undisturbed'
    BY <2>1, <2>2, <2>4 DEF FollowInv, Undisturbed
  <2>7. LedFollows'
    BY <2>1, <2>4, Zenon DEF LedFollows
  <2>8. WalkedFollow'
    BY <2>1, <2>2, <2>4 DEF FollowInv, WalkedFollow, PortFollows
  <2> QED BY <2>3, <2>5, <2>6, <2>7, <2>8 DEF FollowInv
<1>6. CASE EventInvalidate
  <2>1. /\ pc[EVENT] = "invalidate" /\ pc' = [pc EXCEPT ![EVENT] = "pattern"] /\ invalidate' = TRUE
        /\ UNCHANGED <<queue, walk, notified, overlap, missed, enabled, led, firstDone,
                       pattern, mode, curState, notice>>
    BY <1>6 DEF EventInvalidate, Goto, external, conn, ports, history
  <2>2. pc'[EVENT] = "pattern" /\ pc'[RETRY] = pc[RETRY] /\ pc'[REASON] = pc[REASON] /\ Counters'
    BY <1>1, <2>1 DEF Labels
  <2>3. PowerTypes'
    BY <1>0, <2>1, <2>2 DEF PowerTypes
  <2>4. Mode' = Mode /\ Tv /\ (Alone' => Alone) /\ ~Applied'
    BY <2>1, <2>2 DEF Mode, FollowInv, ProfileSteps, Alone, Applying, Applied
  <2>5. Posted' /\ ProfileSteps' /\ PatternFollows' /\ LedFollows'
    BY <2>1, <2>2, <2>4 DEF FollowInv, Posted, ProfileSteps, PatternFollows, LedFollows
  <2>6. Undisturbed'
    BY <2>1, <2>2, <2>4 DEF FollowInv, Undisturbed
  <2>7. WalkedFollow'
    BY <2>1, <2>2, <2>4 DEF FollowInv, WalkedFollow, PortFollows
  <2> QED BY <2>3, <2>5, <2>6, <2>7 DEF FollowInv
<1>7. CASE EventSetPattern
  <2>1. /\ pc[EVENT] = "pattern" /\ pc' = [pc EXCEPT ![EVENT] = "drain"]
        /\ pattern' = EventPattern(Mode) \/ missed' = TRUE
        /\ UNCHANGED <<queue, walk, notified, overlap, enabled, led, firstDone, invalidate,
                       mode, curState, notice>>
    BY <1>7 DEF EventSetPattern, Goto, external, conn, ports, Mode
  <2>2. pc'[EVENT] = "drain" /\ pc'[RETRY] = pc[RETRY] /\ pc'[REASON] = pc[REASON] /\ Counters'
    BY <1>1, <2>1 DEF Labels
  <2>3. PowerTypes'
    BY <1>0, <2>1, <2>2 DEF PowerTypes
  <2>4. Mode' = Mode /\ Tv /\ (Alone' => Alone)
    BY <2>1 DEF Mode, FollowInv, ProfileSteps, Alone, Applying, Applied
  <2>5. Posted' /\ ProfileSteps' /\ LedFollows'
    BY <2>1, <2>2, <2>4 DEF FollowInv, Posted, ProfileSteps, LedFollows
  <2>6. PatternFollows'
    BY <2>1, <2>2, <2>4 DEF FollowInv, PatternFollows, EventPattern
  <2>7. Undisturbed'
    BY <2>1, <2>2, <2>4 DEF FollowInv, Undisturbed
  <2>8. WalkedFollow'
    BY <2>1, <2>2, <2>4 DEF FollowInv, WalkedFollow, PortFollows
  <2> QED BY <2>3, <2>5, <2>6, <2>7, <2>8 DEF FollowInv
<1> QED
  BY <1>2, <1>3, <1>4, <1>5, <1>6, <1>7, FollowEventWalk DEF EventStep

\* Every step keeps the invariant.
LEMMA FollowStep ==
  ASSUME FollowInv, [Next]_vars
  PROVE  FollowInv'
<1>1. CASE EventStep BY <1>1, FollowEvent
<1>2. CASE RetryStep \/ ReasonStep \/ BootTry BY <1>2, FollowOthers
<1>3. CASE \/ \E m \in Modes : ChangeMode(m)
           \/ Enqueue \/ SignalEvent \/ RebootInfoUpdated \/ SpuriousWakeup
           \/ DeinitUnregister \/ DeinitStep
  BY <1>3, FollowCallbacks
<1>4. CASE UNCHANGED vars
  <2>1. UNCHANGED <<queue, pc, walk, notified, overlap, missed, enabled, led, firstDone,
                    invalidate, pattern, mode, curState, notice>>
    BY <1>4 DEF vars, external, conn, ports, boot, history
  <2>2. PowerTypes'
    BY <2>1 DEF FollowInv, PowerTypes, Counters
  <2>3. /\ pc'[RETRY] = "reason" \/ pc'[REASON] # "none" => Tv
        /\ Alone => pc'[RETRY] = "done" /\ pc'[REASON] \notin {"sync", "walk", "enable"}
    BY <2>1 DEF FollowInv, ProfileSteps, Undisturbed
  <2> QED BY <2>1, <2>2, <2>3, FollowElsewhere
<1> QED BY <1>1, <1>2, <1>3, <1>4 DEF Next

\* When every posted event is applied and nothing of the reboot is left to
\* apply over it, the ports and the LED stand as the last event asks, for
\* every profile and list of ports (HandlePwrEventData,
\* SyncDisplayPortsWithRebootReason).
THEOREM LastEventRules == Spec => []PortsFollowLastEvent
<1>1. FollowInv => PortsFollowLastEvent
  <2> SUFFICES ASSUME FollowInv, Quiescent, ~overlap
               PROVE  /\ \A p \in Elements(VideoPorts) : enabled[p] = (notified = "ON")
                      /\ notified # "ON" => \A p \in Elements(AudioPorts) : ~enabled[p]
                      /\ ~Tv => led = (notified = "ON")
    BY DEF PortsFollowLastEvent
  <2>1. Applied /\ Alone /\ Mode = notified /\ pc[EVENT] \notin {"walk", "enable"}
    BY DEF Quiescent, Applied, Alone, FollowInv, Posted
  <2>2. \A j \in DOMAIN PortSeq : PortFollows(PortSeq[j])
    BY <2>1 DEF FollowInv, WalkedFollow
  <2>3. \A p \in Elements(VideoPorts) \cup Elements(AudioPorts) : PortFollows(p)
    BY <2>2, PortsOfTheWalk
  <2>4. \A p \in Elements(VideoPorts) : enabled[p] = (notified = "ON")
    BY <2>1, <2>3 DEF PortFollows
  <2>5. notified # "ON" => \A p \in Elements(AudioPorts) : ~enabled[p]
    BY <2>1, <2>3 DEF PortFollows
  <2>6. ~Tv => led = (notified = "ON")
    BY <2>1 DEF FollowInv, LedFollows
  <2> QED BY <2>4, <2>5, <2>6
<1> QED BY <1>1, FollowInit, FollowStep, PTL DEF Spec

\* On a TV the boot loader pattern is the last event's, whatever the detached
\* thread that retries the pattern of the reboot does
\* (SetBootloaderPatternInternal against SetBootloaderPatternAsync).
THEOREM LastPatternRules == Spec => []PatternFollowsLastEvent
<1>1. FollowInv => PatternFollowsLastEvent
  <2> SUFFICES ASSUME FollowInv, Tv, Quiescent, ~overlap, ~missed
               PROVE  pattern = EventPattern(notified)
    BY DEF PatternFollowsLastEvent
  <2>1. Applied /\ Alone /\ Mode = notified
    BY DEF Quiescent, Applied, Alone, FollowInv, Posted
  <2> QED BY <2>1 DEF FollowInv, PatternFollows
<1> QED BY <1>1, FollowInit, FollowStep, PTL DEF Spec
=============================================================================
