------------------------- MODULE DSControllerProofs -------------------------
(***************************************************************************)
(* Proofs about DSController, for every set of HDCP threads, every         *)
(* platform's video and audio ports and every bound.                       *)
(***************************************************************************)
EXTENDS DSController, TLAPS

\* Steps that several threads have.
SharedStep(t) ==
  \/ ReadSrc(t) \/ ZeroSrc(t)
  \/ t \in Resolvers /\ (Probe(t) \/ SetResolution(t))
  \/ t \in Callers /\ CallAudio(t)

\* Steps that only HandleHDCPStatus has.
HdcpOwnStep(t) ==
  \/ \E auth \in BOOLEAN : HdcpEvent(t, auth)
  \/ AuthBg(t) \/ AuthDecide(t) \/ AuthBoot(t) \/ FailFlag(t) \/ HdcpEnd(t)

\* The environment: the display, the HAL's hotplug callback, clients.
EnvStep == PlugToggle \/ OnDisplayHDMIHotPlug \/ AudioStep

\* The cases of a step, as the proofs below take them.
LEMMA NextSteps ==
  ASSUME [Next]_vars
  PROVE  \/ StartThread \/ QueryTuneReady \/ DestroyBegin \/ MainStep \/ Recreate
         \/ ResLoop \/ ResTest \/ SpuriousWakeup \/ ResReset \/ ResAssignSrc
         \/ ResBranch
         \/ \E t \in Resolvers \cup Callers : SharedStep(t)
         \/ \E t \in HdcpThreads : HdcpOwnStep(t)
         \/ TimerFire \/ TimerFinish \/ TuneReadyEvent \/ TuneReadySignal
         \/ \E t \in Callers : WalkStep(t)
         \/ EnvStep
         \/ UNCHANGED vars
BY DEF Next, ResStep, HdcpStep, TimerStep, TuneStep, SharedStep, HdcpOwnStep,
       EnvStep, Resolvers, Callers

-----------------------------------------------------------------------------
(* Type correctness.                                                       *)

\* The statics' initial values and the constructor's are typed.
LEMMA InitTypeOK == ASSUME Init PROVE TypeOK
<1> USE DEF Init
<1>1. StatesOK /\ SwitchesOK
  BY DEF StatesOK, SwitchesOK
<1>2. TimersOK
  BY DEF TimersOK
<1>3. PcOK
  BY ControllerAssumption DEF PcOK, AllThreads, Resolvers, Locations, RES, TIMER
<1>4. RecordsOK
  BY ControllerAssumption DEF RecordsOK, NoCallback, ControllerAssumption
<1> QED
  BY <1>1, <1>2, <1>3, <1>4 DEF TypeOK

\* The enumerated variables stay in their sets.
LEMMA StatesOKStep == ASSUME TypeOK, [Next]_vars PROVE StatesOK'
<1> USE DEF TypeOK, StatesOK, mainVars, locals, history, envVars
<1>1. CASE StartThread \/ QueryTuneReady \/ DestroyBegin \/ MainStep \/ Recreate
  BY <1>1 DEF StartThread, QueryTuneReady, DestroyBegin, MainStep,
              DestroySignal, DestroyJoin, Recreate, Post
<1>2. CASE ResLoop \/ ResTest \/ SpuriousWakeup \/ ResReset \/ ResAssignSrc
  BY <1>2 DEF ResLoop, ResTest, SpuriousWakeup, ResReset, ResAssignSrc,
              allButPc
<1>3. CASE ResBranch
  BY <1>3 DEF ResBranch
<1>4. ASSUME NEW t \in Resolvers \cup Callers, SharedStep(t) PROVE StatesOK'
  BY <1>4 DEF SharedStep, ReadSrc, ZeroSrc, Probe, SetResolution, CallAudio
<1>5. ASSUME NEW t \in HdcpThreads, HdcpOwnStep(t) PROVE StatesOK'
  BY <1>5 DEF HdcpOwnStep, HdcpEvent, AuthBg, AuthDecide, AuthBoot, FailFlag,
              HdcpEnd
<1>6. CASE TimerFire \/ TimerFinish \/ TuneReadyEvent \/ TuneReadySignal
  BY <1>6 DEF TimerFire, TimerFinish, TuneReadyEvent, TuneReadySignal,
              allButPc
<1>7. ASSUME NEW t \in Callers, WalkStep(t) PROVE StatesOK'
  BY <1>7 DEF WalkStep
<1>8. CASE EnvStep
  BY <1>8 DEF EnvStep, PlugToggle, OnDisplayHDMIHotPlug, AudioStep, Post
<1>9. CASE UNCHANGED vars
  BY <1>9 DEF vars, allButPc
<1> QED
  BY <1>1, <1>2, <1>3, <1>4, <1>5, <1>6, <1>7, <1>8, <1>9, NextSteps

\* The flags stay Boolean.
LEMMA SwitchesOKStep == ASSUME TypeOK, [Next]_vars PROVE SwitchesOK'
<1> USE DEF TypeOK, SwitchesOK, mainVars, flags, history, envVars
<1>1. CASE StartThread \/ QueryTuneReady \/ DestroyBegin \/ MainStep \/ Recreate
  <2>1. CASE StartThread
    BY <2>1 DEF StartThread
  <2>2. CASE QueryTuneReady
    BY <2>2 DEF QueryTuneReady, Post
  <2>3. CASE DestroyBegin
    BY <2>3 DEF DestroyBegin
  <2>4. CASE DestroySignal
    BY <2>4 DEF DestroySignal
  <2>5. CASE DestroyJoin
    BY <2>5 DEF DestroyJoin
  <2>6. CASE Recreate
    BY <2>6 DEF Recreate
  <2> QED BY <1>1, <2>1, <2>2, <2>3, <2>4, <2>5, <2>6 DEF MainStep
<1>2. CASE ResLoop \/ ResTest \/ SpuriousWakeup \/ ResReset \/ ResAssignSrc
  <2>1. CASE ResLoop
    BY <2>1 DEF ResLoop, allButPc
  <2>2. CASE ResTest
    BY <2>2 DEF ResTest
  <2>3. CASE SpuriousWakeup
    BY <2>3 DEF SpuriousWakeup, allButPc
  <2>4. CASE ResReset
    BY <2>4 DEF ResReset
  <2>5. CASE ResAssignSrc
    BY <2>5 DEF ResAssignSrc
  <2> QED BY <1>2, <2>1, <2>2, <2>3, <2>4, <2>5
<1>3. CASE ResBranch
  BY <1>3 DEF ResBranch
<1>4. ASSUME NEW t \in Resolvers \cup Callers, SharedStep(t) PROVE SwitchesOK'
  BY <1>4 DEF SharedStep, ReadSrc, ZeroSrc, Probe, SetResolution, CallAudio
<1>5. ASSUME NEW t \in HdcpThreads, HdcpOwnStep(t) PROVE SwitchesOK'
  <2>1. ASSUME NEW auth \in BOOLEAN, HdcpEvent(t, auth) PROVE SwitchesOK'
    <3>1. CASE auth
      BY <2>1, <3>1 DEF HdcpEvent
    <3>2. CASE ~auth
      BY <2>1, <3>2 DEF HdcpEvent
    <3> QED BY <3>1, <3>2
  <2>2. CASE AuthBg(t) \/ AuthDecide(t)
    BY <2>2 DEF AuthBg, AuthDecide
  <2>3. CASE AuthBoot(t)
    BY <2>3 DEF AuthBoot
  <2>4. CASE FailFlag(t)
    BY <2>4 DEF FailFlag
  <2>5. CASE HdcpEnd(t)
    BY <2>5 DEF HdcpEnd
  <2> QED
    BY <1>5, <2>1, <2>2, <2>3, <2>4, <2>5 DEF HdcpOwnStep
<1>6. CASE TimerFire \/ TimerFinish \/ TuneReadyEvent \/ TuneReadySignal
  <2>1. CASE TimerFire
    BY <2>1 DEF TimerFire, allButPc
  <2>2. CASE TimerFinish
    BY <2>2 DEF TimerFinish, allButPc
  <2>3. CASE TuneReadyEvent
    BY <2>3 DEF TuneReadyEvent, allButPc
  <2>4. CASE TuneReadySignal
    BY <2>4 DEF TuneReadySignal, allButPc
  <2> QED BY <1>6, <2>1, <2>2, <2>3, <2>4
<1>7. ASSUME NEW t \in Callers, WalkStep(t) PROVE SwitchesOK'
  BY <1>7 DEF WalkStep
<1>8. CASE EnvStep
  <2>1. CASE PlugToggle
    BY <2>1 DEF PlugToggle
  <2>2. CASE OnDisplayHDMIHotPlug
    BY <2>2 DEF OnDisplayHDMIHotPlug, Post
  <2>3. CASE AudioStep
    BY <2>3 DEF AudioStep
  <2> QED BY <1>8, <2>1, <2>2, <2>3 DEF EnvStep
<1>9. CASE UNCHANGED vars
  BY <1>9 DEF vars, allButPc
<1> QED
  BY <1>1, <1>2, <1>3, <1>4, <1>5, <1>6, <1>7, <1>8, <1>9, NextSteps

\* The ids of GLib sources and the sessions stay numbers.
LEMMA TimersOKStep == ASSUME TypeOK, [Next]_vars PROVE TimersOK'
<1> USE DEF TypeOK, TimersOK, timerVars, envVars
<1>1. CASE StartThread \/ QueryTuneReady \/ DestroyBegin \/ MainStep \/ Recreate
  BY <1>1 DEF StartThread, QueryTuneReady, DestroyBegin, MainStep,
              DestroySignal, DestroyJoin, Recreate, Post
<1>2. CASE ResLoop \/ ResTest \/ SpuriousWakeup \/ ResReset \/ ResAssignSrc
  BY <1>2 DEF ResLoop, ResTest, SpuriousWakeup, ResReset, ResAssignSrc,
              allButPc
<1>3. CASE ResBranch
  <2>1. CASE UNCHANGED <<lastTimer, timers>>
    BY <1>3, <2>1 DEF ResBranch
  <2>2. CASE lastTimer' = lastTimer + 1 /\ timers' = timers \cup {lastTimer'}
    <3>1. lastTimer' \in Nat /\ timers' \subseteq 1..lastTimer'
      BY <2>2
    <3> QED
      BY <1>3, <3>1 DEF ResBranch
  <2> QED
    BY <1>3, <2>1, <2>2 DEF ResBranch
<1>4. ASSUME NEW t \in Resolvers \cup Callers, SharedStep(t) PROVE TimersOK'
  <2>1. CASE ReadSrc(t) \/ ZeroSrc(t)
    <3>1. timers' \subseteq timers /\ UNCHANGED <<lastTimer, firing, session>>
      BY <2>1 DEF ReadSrc, ZeroSrc
    <3>2. hotplugEventSrc' \in Nat
      BY <2>1 DEF ReadSrc, ZeroSrc
    <3> QED
      BY <3>1, <3>2
  <2>2. CASE Probe(t) \/ CallAudio(t)
    BY <2>2 DEF Probe, CallAudio
  <2>3. CASE SetResolution(t)
    BY <2>3 DEF SetResolution
  <2> QED
    BY <1>4, <2>1, <2>2, <2>3 DEF SharedStep
<1>5. ASSUME NEW t \in HdcpThreads, HdcpOwnStep(t) PROVE TimersOK'
  BY <1>5 DEF HdcpOwnStep, HdcpEvent, AuthBg, AuthDecide, AuthBoot, FailFlag,
              HdcpEnd
<1>6. CASE TimerFire \/ TimerFinish \/ TuneReadyEvent \/ TuneReadySignal
  BY <1>6 DEF TimerFire, TimerFinish, TuneReadyEvent, TuneReadySignal,
              allButPc
<1>7. ASSUME NEW t \in Callers, WalkStep(t) PROVE TimersOK'
  BY <1>7 DEF WalkStep
<1>8. CASE EnvStep
  BY <1>8 DEF EnvStep, PlugToggle, OnDisplayHDMIHotPlug, AudioStep, Post
<1>9. CASE UNCHANGED vars
  BY <1>9 DEF vars, allButPc
<1> QED
  BY <1>1, <1>2, <1>3, <1>4, <1>5, <1>6, <1>7, <1>8, <1>9, NextSteps

\* Program counters, and the port a thread is about to set.
LEMMA PcOKStep == ASSUME TypeOK, [Next]_vars PROVE PcOK'
<1> USE ControllerAssumption
        DEF TypeOK, PcOK, AllThreads, Resolvers, Callers, Locations, RES, TUNE,
            TIMER, Goto, locals, ControllerAssumption
<1>1. CASE StartThread \/ QueryTuneReady \/ DestroyBegin \/ MainStep \/ Recreate
  BY <1>1 DEF StartThread, QueryTuneReady, DestroyBegin, MainStep,
              DestroySignal, DestroyJoin, Recreate, Post, Signal
<1>2. CASE ResLoop \/ ResTest \/ SpuriousWakeup \/ ResReset \/ ResAssignSrc
  <2>1. CASE ResLoop
    BY <2>1 DEF ResLoop, allButPc
  <2>2. CASE ResTest
    <3>1. target' = target
      BY <2>2 DEF ResTest
    <3>2. \E l \in {"blocked", "readSrc"} : pc' = [pc EXCEPT ![RES] = l]
      BY <2>2 DEF ResTest
    <3> QED BY <3>1, <3>2
  <2>3. CASE SpuriousWakeup
    BY <2>3 DEF SpuriousWakeup, allButPc
  <2>4. CASE ResReset
    <3>1. target' = target
      BY <2>4 DEF ResReset
    <3>2. pc' = [pc EXCEPT ![RES] = "loop"]
      BY <2>4 DEF ResReset
    <3> QED BY <3>1, <3>2
  <2>5. CASE ResAssignSrc
    BY <2>5 DEF ResAssignSrc
  <2> QED BY <1>2, <2>1, <2>2, <2>3, <2>4, <2>5
<1>3. CASE ResBranch
  <2>1. target' = target
    BY <1>3 DEF ResBranch
  <2>2. \E l \in {"assignSrc", "reset", "probe", "audio"} : pc' = [pc EXCEPT ![RES] = l]
    BY <1>3 DEF ResBranch
  <2> QED BY <2>1, <2>2
<1>4. ASSUME NEW t \in Resolvers \cup Callers, SharedStep(t) PROVE PcOK'
  <2>1. CASE ReadSrc(t) \/ ZeroSrc(t) \/ CallAudio(t)
    BY <1>4, <2>1 DEF ReadSrc, ZeroSrc, CallAudio
  <2>2. CASE Probe(t)
    BY <1>4, <2>2 DEF Probe, AfterResolution, Analog
  <2>3. CASE SetResolution(t)
    BY <1>4, <2>3 DEF SetResolution, AfterResolution
  <2> QED
    BY <1>4, <2>1, <2>2, <2>3 DEF SharedStep
<1>5. ASSUME NEW t \in HdcpThreads, HdcpOwnStep(t) PROVE PcOK'
  BY <1>5 DEF HdcpOwnStep, HdcpEvent, AuthBg, AuthDecide, AuthBoot, FailFlag,
              HdcpEnd
<1>6. CASE TimerFire \/ TimerFinish \/ TuneReadyEvent \/ TuneReadySignal
  <2>1. CASE TimerFire
    BY <2>1 DEF TimerFire, allButPc
  <2>2. CASE TimerFinish
    BY <2>2 DEF TimerFinish, allButPc
  <2>3. CASE TuneReadyEvent
    BY <2>3 DEF TuneReadyEvent, allButPc
  <2>4. CASE TuneReadySignal
    BY <2>4 DEF TuneReadySignal, allButPc, Signal
  <2> QED BY <1>6, <2>1, <2>2, <2>3, <2>4
<1>7. ASSUME NEW t \in Callers, WalkStep(t) PROVE PcOK'
  BY <1>7 DEF WalkStep
<1>8. CASE EnvStep
  BY <1>8 DEF EnvStep, PlugToggle, OnDisplayHDMIHotPlug, AudioStep, Post,
              Signal
<1>9. CASE UNCHANGED vars
  BY <1>9 DEF vars, allButPc
<1> QED
  BY <1>1, <1>2, <1>3, <1>4, <1>5, <1>6, <1>7, <1>8, <1>9, NextSteps

\* Callbacks, resolutions set and counters.
LEMMA RecordsOKStep == ASSUME TypeOK, [Next]_vars PROVE RecordsOK'
<1> USE ControllerAssumption
        DEF TypeOK, RecordsOK, TimersOK, locals, history, envVars,
            ControllerAssumption
<1>1. CASE StartThread \/ QueryTuneReady \/ DestroyBegin \/ MainStep \/ Recreate
  BY <1>1 DEF StartThread, QueryTuneReady, DestroyBegin, MainStep,
              DestroySignal, DestroyJoin, Recreate, Post
<1>2. CASE ResLoop \/ ResTest \/ SpuriousWakeup \/ ResReset \/ ResAssignSrc
  BY <1>2 DEF ResLoop, ResTest, SpuriousWakeup, ResReset, ResAssignSrc,
              allButPc
<1>3. CASE ResBranch
  BY <1>3 DEF ResBranch
<1>4. ASSUME NEW t \in Resolvers \cup Callers, SharedStep(t) PROVE RecordsOK'
  <2>1. CASE ReadSrc(t) \/ ZeroSrc(t)
    BY <2>1 DEF ReadSrc, ZeroSrc
  <2>2. CASE Probe(t) \/ CallAudio(t)
    BY <2>2 DEF Probe, CallAudio
  <2>3. CASE SetResolution(t)
    BY <1>4, <2>3 DEF SetResolution, PcOK
  <2> QED
    BY <1>4, <2>1, <2>2, <2>3 DEF SharedStep
<1>5. ASSUME NEW t \in HdcpThreads, HdcpOwnStep(t) PROVE RecordsOK'
  <2>1. CASE \E auth \in BOOLEAN : HdcpEvent(t, auth)
    BY <2>1 DEF HdcpEvent
  <2>2. CASE AuthBg(t) \/ AuthDecide(t)
    BY <2>2 DEF AuthBg, AuthDecide
  <2>3. CASE AuthBoot(t) \/ FailFlag(t)
    BY <2>3 DEF AuthBoot, FailFlag
  <2>4. CASE HdcpEnd(t)
    BY <2>4 DEF HdcpEnd, NoCallback
  <2> QED
    BY <1>5, <2>1, <2>2, <2>3, <2>4 DEF HdcpOwnStep
<1>6. CASE TimerFire \/ TimerFinish \/ TuneReadyEvent \/ TuneReadySignal
  BY <1>6 DEF TimerFire, TimerFinish, TuneReadyEvent, TuneReadySignal,
              allButPc
<1>7. ASSUME NEW t \in Callers, WalkStep(t) PROVE RecordsOK'
  BY <1>7 DEF WalkStep
<1>8. CASE EnvStep
  BY <1>8 DEF EnvStep, PlugToggle, OnDisplayHDMIHotPlug, AudioStep, Post
<1>9. CASE UNCHANGED vars
  BY <1>9 DEF vars, allButPc
<1> QED
  BY <1>1, <1>2, <1>3, <1>4, <1>5, <1>6, <1>7, <1>8, <1>9, NextSteps

\* The controller's statics, program counters and records keep their types in
\* every behaviour (DSController.cpp).
THEOREM TypeCorrect == Spec => []TypeOK
<1>1. Init => TypeOK
  BY InitTypeOK
<1>2. TypeOK /\ [Next]_vars => TypeOK'
  BY StatesOKStep, SwitchesOKStep, TimersOKStep, PcOKStep, RecordsOKStep
     DEF TypeOK
<1> QED
  BY <1>1, <1>2, PTL DEF Spec

-----------------------------------------------------------------------------
(* No lost wakeup.                                                         *)

\* A step keeps NoLostWakeup: whoever posts a status or raises the exit flag
\* signals in the same critical section or has the signal still to send.
LEMMA NoLostWakeupStep ==
  ASSUME TypeOK, NoLostWakeup, [Next]_vars PROVE NoLostWakeup'
<1> USE ControllerAssumption
        DEF NoLostWakeup, TypeOK, PcOK, AllThreads, Resolvers, Callers, Goto,
            Signal, RES, TUNE, TIMER, ControllerAssumption
<1>1. CASE StartThread \/ QueryTuneReady \/ DestroyBegin \/ MainStep \/ Recreate
  BY <1>1 DEF StartThread, QueryTuneReady, DestroyBegin, MainStep,
              DestroySignal, DestroyJoin, Recreate, Post
<1>2. CASE ResLoop \/ ResTest \/ SpuriousWakeup \/ ResReset \/ ResAssignSrc
  BY <1>2 DEF ResLoop, ResTest, SpuriousWakeup, ResReset, ResAssignSrc,
              allButPc, mainVars
<1>3. CASE ResBranch
  BY <1>3 DEF ResBranch
<1>4. ASSUME NEW t \in Resolvers \cup Callers, SharedStep(t) PROVE NoLostWakeup'
  <2>1. pc'[RES] # "blocked" \/ pc'[RES] = pc[RES]
    BY <1>4 DEF SharedStep, ReadSrc, ZeroSrc, Probe, SetResolution, CallAudio,
                AfterResolution
  <2>2. UNCHANGED <<mainPc, exitFlag, displayEventStatus>>
    BY <1>4 DEF SharedStep, ReadSrc, ZeroSrc, Probe, SetResolution, CallAudio,
                mainVars
  <2> QED
    BY <2>1, <2>2
<1>5. ASSUME NEW t \in HdcpThreads, HdcpOwnStep(t) PROVE NoLostWakeup'
  <2>1. pc'[RES] = pc[RES]
    BY <1>5 DEF HdcpOwnStep, HdcpEvent, AuthBg, AuthDecide, AuthBoot, FailFlag,
                HdcpEnd
  <2>2. UNCHANGED <<mainPc, exitFlag, displayEventStatus>>
    BY <1>5 DEF HdcpOwnStep, HdcpEvent, AuthBg, AuthDecide, AuthBoot, FailFlag,
                HdcpEnd, mainVars
  <2> QED
    BY <2>1, <2>2
<1>6. CASE TimerFire \/ TimerFinish \/ TuneReadyEvent \/ TuneReadySignal
  BY <1>6 DEF TimerFire, TimerFinish, TuneReadyEvent, TuneReadySignal,
              allButPc, mainVars
<1>7. ASSUME NEW t \in Callers, WalkStep(t) PROVE NoLostWakeup'
  BY <1>7 DEF WalkStep, mainVars
<1>8. CASE EnvStep
  BY <1>8 DEF EnvStep, PlugToggle, OnDisplayHDMIHotPlug, AudioStep, Post,
              mainVars
<1>9. CASE UNCHANGED vars
  BY <1>9 DEF vars, allButPc, mainVars
<1> QED
  BY <1>1, <1>2, <1>3, <1>4, <1>5, <1>6, <1>7, <1>8, <1>9, NextSteps

\* The resolution thread never sleeps in pthread_cond_wait on a posted status
\* or on an exit flag that was already signalled (ResolutionThreadFunc, Start,
\* OnDisplayHDMIHotPlug, EventHandler and ~DSController agree on the lock).
THEOREM NoWakeupIsLost == Spec => []NoLostWakeup
<1>1. Init => NoLostWakeup
  BY DEF Init, NoLostWakeup, RES, AllThreads
<1>2. TypeOK /\ NoLostWakeup /\ [Next]_vars => NoLostWakeup'
  BY NoLostWakeupStep
<1> QED
  BY <1>1, <1>2, TypeCorrect, PTL DEF Spec

-----------------------------------------------------------------------------
(* The blue screen.                                                        *)

\* A step keeps BlueMeansUnauthenticated: success raises the flag before it
\* clears the screen, failure paints the screen before it drops the flag.
LEMMA BlueStep ==
  ASSUME TypeOK, BlueMeansUnauthenticated, [Next]_vars
  PROVE  BlueMeansUnauthenticated'
<1> USE ControllerAssumption
        DEF BlueMeansUnauthenticated, TypeOK, PcOK, AllThreads, Resolvers,
            Callers, Goto, Signal, RES, TUNE, TIMER, ControllerAssumption
<1>1. CASE StartThread \/ QueryTuneReady \/ DestroyBegin \/ MainStep \/ Recreate
  <2>1. CASE StartThread
    BY <2>1 DEF StartThread, flags
  <2>2. CASE QueryTuneReady
    BY <2>2 DEF QueryTuneReady, Post, flags
  <2>3. CASE DestroyBegin
    BY <2>3 DEF DestroyBegin, flags
  <2>4. CASE DestroySignal
    BY <2>4 DEF DestroySignal, flags
  <2>5. CASE DestroyJoin
    BY <2>5 DEF DestroyJoin, flags
  <2>6. CASE Recreate
    BY <2>6 DEF Recreate, flags
  <2> QED BY <1>1, <2>1, <2>2, <2>3, <2>4, <2>5, <2>6 DEF MainStep
<1>2. CASE ResLoop \/ ResTest \/ SpuriousWakeup \/ ResReset \/ ResAssignSrc
  <2>1. CASE ResLoop
    BY <2>1 DEF ResLoop, allButPc, flags
  <2>2. CASE ResTest
    BY <2>2 DEF ResTest, flags
  <2>3. CASE SpuriousWakeup
    BY <2>3 DEF SpuriousWakeup, allButPc, flags
  <2>4. CASE ResReset
    BY <2>4 DEF ResReset, flags
  <2>5. CASE ResAssignSrc
    BY <2>5 DEF ResAssignSrc, flags
  <2> QED BY <1>2, <2>1, <2>2, <2>3, <2>4, <2>5
<1>3. CASE ResBranch
  BY <1>3 DEF ResBranch
<1>4. ASSUME NEW t \in Resolvers \cup Callers, SharedStep(t)
      PROVE  BlueMeansUnauthenticated'
  BY <1>4 DEF SharedStep, ReadSrc, ZeroSrc, Probe, SetResolution, CallAudio,
              AfterResolution, flags
<1>5. ASSUME NEW t \in HdcpThreads, HdcpOwnStep(t)
      PROVE  BlueMeansUnauthenticated'
  <2>1. ASSUME NEW auth \in BOOLEAN, HdcpEvent(t, auth) PROVE BlueMeansUnauthenticated'
    <3>1. CASE auth
      BY <2>1, <3>1 DEF HdcpEvent
    <3>2. CASE ~auth
      BY <2>1, <3>2 DEF HdcpEvent
    <3> QED BY <3>1, <3>2
  <2>2. CASE AuthBg(t)
    BY <2>2 DEF AuthBg
  <2>3. CASE FailFlag(t)
    BY <2>3 DEF FailFlag
  <2>4. CASE AuthDecide(t) \/ AuthBoot(t) \/ HdcpEnd(t)
    BY <2>4 DEF AuthDecide, AuthBoot, HdcpEnd, flags
  <2> QED
    BY <1>5, <2>1, <2>2, <2>3, <2>4 DEF HdcpOwnStep
<1>6. CASE TimerFire \/ TimerFinish \/ TuneReadyEvent \/ TuneReadySignal
  BY <1>6 DEF TimerFire, TimerFinish, TuneReadyEvent, TuneReadySignal,
              allButPc, flags
<1>7. ASSUME NEW t \in Callers, WalkStep(t) PROVE BlueMeansUnauthenticated'
  BY <1>7 DEF WalkStep, flags
<1>8. CASE EnvStep
  BY <1>8 DEF EnvStep, PlugToggle, OnDisplayHDMIHotPlug, AudioStep, Post, flags
<1>9. CASE UNCHANGED vars
  BY <1>9 DEF vars, allButPc, flags
<1> QED
  BY <1>1, <1>2, <1>3, <1>4, <1>5, <1>6, <1>7, <1>8, <1>9, NextSteps

\* However many HAL threads report HDCP results at the same time, no display is
\* left authenticated behind the blue screen (HandleHDCPStatus).
THEOREM BlueScreenIsCleared == Spec => []BlueMeansUnauthenticated
<1>1. Init => BlueMeansUnauthenticated
  BY DEF Init, BlueMeansUnauthenticated
<1>2. TypeOK /\ BlueMeansUnauthenticated /\ [Next]_vars
        => BlueMeansUnauthenticated'
  BY BlueStep
<1> QED
  BY <1>1, <1>2, TypeCorrect, PTL DEF Spec

-----------------------------------------------------------------------------
(* The controller implements the audio sub-machine.                        *)

\* Every step of a controller that is activated once is a step of the audio
\* sub-machine or leaves its state alone.
LEMMA AudioSimulation ==
  ASSUME ~InProcess, [Next]_vars
  PROVE  Audio!Next \/ UNCHANGED Audio!audioVars
<1> USE DEF Audio!audioVars, Audio!audioOwn, audio, envVars
<1>1. CASE StartThread \/ QueryTuneReady \/ DestroyBegin \/ MainStep \/ Recreate
  BY <1>1 DEF StartThread, QueryTuneReady, DestroyBegin, MainStep,
              DestroySignal, DestroyJoin, Recreate
<1>2. CASE ResLoop \/ ResTest \/ SpuriousWakeup \/ ResReset \/ ResAssignSrc
  BY <1>2 DEF ResLoop, ResTest, SpuriousWakeup, ResReset, ResAssignSrc,
              allButPc
<1>3. CASE ResBranch
  BY <1>3 DEF ResBranch
<1>4. ASSUME NEW t \in Resolvers \cup Callers, SharedStep(t)
      PROVE  Audio!Next \/ UNCHANGED Audio!audioVars
  <2>1. CASE ReadSrc(t) \/ ZeroSrc(t) \/ Probe(t) \/ SetResolution(t)
    BY <2>1 DEF ReadSrc, ZeroSrc, Probe, SetResolution
  <2>2. CASE t \in Callers /\ CallAudio(t)
    BY <2>2 DEF CallAudio, Audio!Next
  <2> QED
    BY <1>4, <2>1, <2>2 DEF SharedStep
<1>5. ASSUME NEW t \in HdcpThreads, HdcpOwnStep(t)
      PROVE  UNCHANGED Audio!audioVars
  BY <1>5 DEF HdcpOwnStep, HdcpEvent, AuthBg, AuthDecide, AuthBoot, FailFlag,
              HdcpEnd
<1>6. CASE TimerFire \/ TimerFinish \/ TuneReadyEvent \/ TuneReadySignal
  BY <1>6 DEF TimerFire, TimerFinish, TuneReadyEvent, TuneReadySignal,
              allButPc
<1>7. ASSUME NEW t \in Callers, WalkStep(t) PROVE Audio!Next
  BY <1>7 DEF WalkStep, Audio!Next, Audio!AudioStep, Audio!Threads
<1>8. CASE EnvStep
  <2>1. CASE PlugToggle
    BY <2>1 DEF PlugToggle, Audio!Next, Audio!HdmiToggle
  <2>2. CASE OnDisplayHDMIHotPlug
    BY <2>2 DEF OnDisplayHDMIHotPlug
  <2>3. CASE AudioStep
    BY <2>3 DEF AudioStep, Audio!Next
  <2> QED
    BY <1>8, <2>1, <2>2, <2>3 DEF EnvStep
<1>9. CASE UNCHANGED vars
  BY <1>9 DEF vars, allButPc
<1> QED
  BY <1>1, <1>2, <1>3, <1>4, <1>5, <1>6, <1>7, <1>8, <1>9, NextSteps

\* A controller whose code is unloaded between activations drives the audio
\* ports only as DSAudioMode describes (ResolutionThreadFunc and EventHandler
\* enter SetAudioMode once at a time, SysModeChange runs on its own thread).
THEOREM ControllerImplementsAudioMode ==
  ASSUME ~InProcess PROVE Spec => ImplementsAudioMode
<1>1. Init => Audio!Init
  BY DEF Init, Audio!Init
<1>2. [Next]_vars => [Audio!Next]_(Audio!audioVars)
  BY AudioSimulation
<1> QED
  BY <1>1, <1>2, PTL DEF Spec, ImplementsAudioMode, Audio!Spec

-----------------------------------------------------------------------------
(* The resolution of an authenticated display.                             *)

\* The display that is connected, reads as ready and is not to be ignored.
UsableDisplay == "HDMI" \in VideoPorts /\ connected /\ edidReady /\ ~ignoreEdid

\* A success being handled in the session it was reported in, the display
\* still there, is headed for the HDMI port and has set it once it is past
\* SetVideoPortResolution; sessions handled or being handled have begun.
SuccessIsHandled(t) ==
  callback[t].auth /\ callback[t].session = session /\ connected =>
    /\ "HDMI" \in VideoPorts /\ pc[t] = "set" => target[t] = "HDMI"
    /\ UsableDisplay /\ pc[t] \in {"boot", "end"} => lastSet["HDMI"] = session
AuthInv ==
  /\ \A n \in authDone : n <= session
  /\ \A t \in HdcpThreads : callback[t].session <= session
  /\ AuthGetsResolution
  /\ \A t \in HdcpThreads : SuccessIsHandled(t)

\* A step keeps AuthInv: only the display's coming and going changes the
\* session, and whoever sets the HDMI port sets it for the current one.
LEMMA AuthStep ==
  ASSUME TypeOK, AuthInv, [Next]_vars
  PROVE  AuthInv'
<1> USE ControllerAssumption
        DEF TypeOK, PcOK, AllThreads, Resolvers, Callers, Goto, Signal, RES, TUNE,
            TIMER, ControllerAssumption
<1>0. ASSUME UNCHANGED <<authDone, session, callback, connected, edidReady, ignoreEdid,
                         lastSet, target>>,
             \A t \in HdcpThreads : pc'[t] = pc[t]
      PROVE  AuthInv'
  BY <1>0 DEF AuthInv, AuthGetsResolution, SuccessIsHandled, UsableDisplay
<1>1. CASE StartThread \/ QueryTuneReady \/ DestroyBegin \/ MainStep \/ Recreate
  <2>1. \A t \in HdcpThreads : pc'[t] = pc[t]
    BY <1>1 DEF StartThread, QueryTuneReady, DestroyBegin, MainStep,
                DestroySignal, DestroyJoin, Recreate, Post
  <2>2. UNCHANGED <<authDone, session, callback, connected, edidReady, ignoreEdid,
                    lastSet, target>>
    BY <1>1 DEF StartThread, QueryTuneReady, DestroyBegin, MainStep, DestroySignal,
                DestroyJoin, Recreate, Post, history, envVars, locals, flags
  <2> QED
    BY <1>0, <2>1, <2>2
<1>2. CASE ResLoop \/ ResTest \/ SpuriousWakeup \/ ResReset \/ ResAssignSrc \/ ResBranch
  <2>1. \A t \in HdcpThreads : pc'[t] = pc[t]
    BY <1>2 DEF ResLoop, ResTest, SpuriousWakeup, ResReset, ResAssignSrc, ResBranch
  <2>2. UNCHANGED <<authDone, session, callback, connected, edidReady, ignoreEdid,
                    lastSet, target>>
    BY <1>2 DEF ResLoop, ResTest, SpuriousWakeup, ResReset, ResAssignSrc, ResBranch,
                allButPc, history, envVars, locals, flags
  <2> QED
    BY <1>0, <2>1, <2>2
<1>3. ASSUME NEW t \in Resolvers \cup Callers, SharedStep(t)
      PROVE  AuthInv'
  <2>1. UNCHANGED <<authDone, session, callback, connected, edidReady, ignoreEdid>>
    BY <1>3 DEF SharedStep, ReadSrc, ZeroSrc, Probe, SetResolution, CallAudio,
                history, envVars, locals, flags
  <2>2. \A h \in HdcpThreads : h # t => pc'[h] = pc[h]
    BY <1>3 DEF SharedStep, ReadSrc, ZeroSrc, Probe, SetResolution, CallAudio
  <2>3. CASE ReadSrc(t) \/ ZeroSrc(t) \/ CallAudio(t)
    <3>1. UNCHANGED <<lastSet, target>> /\ pc'[t] \in {"zeroSrc", "branch", "authBg", "audioWait"}
      BY <1>3, <2>3 DEF ReadSrc, ZeroSrc, CallAudio, locals
    <3>2. \A h \in HdcpThreads : SuccessIsHandled(h)'
      BY <2>1, <2>2, <3>1 DEF AuthInv, SuccessIsHandled, UsableDisplay
    <3> QED
      BY <2>1, <3>1, <3>2 DEF AuthInv, AuthGetsResolution
  <2>4. CASE t \in Resolvers /\ Probe(t)
    <3>1. /\ t \in Resolvers /\ lastSet' = lastSet
          /\ \A h \in Resolvers : h # t => target'[h] = target[h]
      BY <1>3, <2>4 DEF Probe
    <3>2. connected /\ "HDMI" \in VideoPorts => target'[t] = "HDMI" /\ pc'[t] = "set"
      BY <1>3, <2>4, <3>1 DEF Probe
    <3>3. ASSUME NEW h \in HdcpThreads
          PROVE  SuccessIsHandled(h)'
      <4>1. CASE h = t
        BY <2>1, <3>2, <4>1 DEF SuccessIsHandled, UsableDisplay
      <4>2. CASE h # t
        <5>1. pc'[h] = pc[h] /\ target'[h] = target[h] /\ SuccessIsHandled(h)
          BY <2>2, <3>1, <4>2 DEF AuthInv
        <5> QED
          BY <2>1, <3>1, <5>1 DEF SuccessIsHandled, UsableDisplay
      <4> QED
        BY <4>1, <4>2
    <3> QED
      BY <2>1, <3>1, <3>3 DEF AuthInv, AuthGetsResolution
  <2>5. CASE t \in Resolvers /\ SetResolution(t)
    <3>1. /\ t \in Resolvers /\ pc[t] = "set" /\ pc'[t] # "set"
          /\ target' = [target EXCEPT ![t] = "HDMI"]
          /\ lastSet' = IF target[t] = "HDMI" => connected /\ edidReady
                        THEN [lastSet EXCEPT ![target[t]] = session] ELSE lastSet
      BY <1>3, <2>5 DEF SetResolution, AfterResolution
    <3>2. /\ target'[t] = "HDMI"
          /\ \A h \in Resolvers : h # t => target'[h] = target[h]
      BY <3>1
    <3>3. "HDMI" \in VideoPorts => lastSet'["HDMI"] \in {lastSet["HDMI"], session}
      BY <3>1 DEF RecordsOK
    <3>4. UsableDisplay /\ target[t] = "HDMI" => lastSet'["HDMI"] = session
      BY <3>1 DEF RecordsOK, UsableDisplay
    <3>5. ASSUME NEW h \in HdcpThreads
          PROVE  SuccessIsHandled(h)'
      <4>0. SuccessIsHandled(h)
        BY DEF AuthInv
      <4>1. CASE h = t
        BY <2>1, <3>1, <3>2, <3>4, <4>0, <4>1 DEF SuccessIsHandled, UsableDisplay
      <4>2. CASE h # t
        <5>1. pc'[h] = pc[h] /\ target'[h] = target[h]
          BY <2>2, <3>2, <4>2
        <5> QED
          BY <2>1, <3>3, <4>0, <5>1 DEF SuccessIsHandled, UsableDisplay
      <4> QED
        BY <4>1, <4>2
    <3>6. AuthGetsResolution'
      BY <2>1, <3>3 DEF AuthInv, AuthGetsResolution
    <3> QED
      BY <2>1, <3>5, <3>6 DEF AuthInv
  <2> QED
    BY <1>3, <2>3, <2>4, <2>5 DEF SharedStep
<1>4. ASSUME NEW t \in HdcpThreads, HdcpOwnStep(t)
      PROVE  AuthInv'
  <2>1. UNCHANGED <<session, connected, edidReady, ignoreEdid, lastSet, target>>
    BY <1>4 DEF HdcpOwnStep, HdcpEvent, AuthBg, AuthDecide, AuthBoot, FailFlag, HdcpEnd,
                envVars, locals, flags
  <2>2. \A h \in HdcpThreads : h # t => pc'[h] = pc[h]
    BY <1>4 DEF HdcpOwnStep, HdcpEvent, AuthBg, AuthDecide, AuthBoot, FailFlag, HdcpEnd
  <2>3. CASE \E auth \in BOOLEAN : HdcpEvent(t, auth)
    <3>1. /\ authDone' = authDone /\ pc'[t] \in {"readSrc", "failFlag"}
          /\ callback'[t].session = session
          /\ \A h \in HdcpThreads : h # t => callback'[h] = callback[h]
      BY <2>3 DEF HdcpEvent, RecordsOK
    <3>2. \A h \in HdcpThreads : SuccessIsHandled(h)'
      BY <2>1, <2>2, <3>1 DEF AuthInv, SuccessIsHandled, UsableDisplay
    <3>3. \A h \in HdcpThreads : callback'[h].session <= session'
      BY <2>1, <3>1 DEF AuthInv, TimersOK
    <3> QED
      BY <2>1, <3>1, <3>2, <3>3 DEF AuthInv, AuthGetsResolution
  <2>4. CASE AuthBg(t) \/ AuthDecide(t) \/ AuthBoot(t) \/ FailFlag(t)
    <3>1. /\ UNCHANGED <<authDone, callback>> /\ pc'[t] # "set"
          /\ pc'[t] \in {"boot", "end"} => ignoreEdid \/ pc[t] = "boot"
      BY <2>4 DEF AuthBg, AuthDecide, AuthBoot, FailFlag, history, locals
    <3>2. \A h \in HdcpThreads : SuccessIsHandled(h)'
      BY <2>1, <2>2, <3>1 DEF AuthInv, SuccessIsHandled, UsableDisplay
    <3> QED
      BY <2>1, <3>1, <3>2 DEF AuthInv, AuthGetsResolution
  <2>5. CASE HdcpEnd(t)
    <3>1. /\ pc[t] = "end" /\ pc'[t] = "idle"
          /\ authDone' = IF callback[t].auth THEN authDone \cup {callback[t].session} ELSE authDone
          /\ callback'[t].session = 0
          /\ \A h \in HdcpThreads : h # t => callback'[h] = callback[h]
      BY <2>5 DEF HdcpEnd, NoCallback, RecordsOK
    <3>2. \A h \in HdcpThreads : SuccessIsHandled(h)'
      BY <2>1, <2>2, <3>1 DEF AuthInv, SuccessIsHandled, UsableDisplay
    <3>3. AuthGetsResolution'
      BY <2>1, <3>1 DEF AuthInv, AuthGetsResolution, SuccessIsHandled, UsableDisplay
    <3>4. \A h \in HdcpThreads : callback'[h].session <= session'
      BY <2>1, <3>1 DEF AuthInv, TimersOK
    <3>5. \A n \in authDone' : n <= session'
      BY <2>1, <3>1 DEF AuthInv
    <3> QED
      BY <3>2, <3>3, <3>4, <3>5 DEF AuthInv
  <2> QED
    BY <1>4, <2>3, <2>4, <2>5 DEF HdcpOwnStep
<1>5. CASE TimerFire \/ TimerFinish \/ TuneReadyEvent \/ TuneReadySignal
  <2>1. \A t \in HdcpThreads : pc'[t] = pc[t]
    BY <1>5 DEF TimerFire, TimerFinish, TuneReadyEvent, TuneReadySignal
  <2>2. UNCHANGED <<authDone, session, callback, connected, edidReady, ignoreEdid,
                    lastSet, target>>
    BY <1>5 DEF TimerFire, TimerFinish, TuneReadyEvent, TuneReadySignal, allButPc,
                history, envVars, locals, flags
  <2> QED
    BY <1>0, <2>1, <2>2
<1>6. ASSUME NEW t \in Callers, WalkStep(t) PROVE AuthInv'
  BY <1>0, <1>6 DEF WalkStep, history, envVars, locals, flags
<1>7. CASE PlugToggle
  <2>1. /\ UNCHANGED <<authDone, callback, ignoreEdid, lastSet, target, pc>>
        /\ connected' = ~connected /\ session \in Nat
        /\ session' = IF connected THEN session ELSE session + 1
    BY <1>7 DEF PlugToggle, flags, locals, TimersOK
  <2>2. \A n \in authDone' : n <= session'
    BY <2>1 DEF AuthInv, RecordsOK
  <2>3. \A t \in HdcpThreads : callback'[t].session <= session'
    BY <2>1 DEF AuthInv, RecordsOK
  <2>4. CASE connected
    BY <2>1, <2>2, <2>3, <2>4 DEF AuthInv, AuthGetsResolution, SuccessIsHandled
  <2>5. CASE ~connected
    <3>1. session' \notin authDone' /\ \A t \in HdcpThreads : callback'[t].session # session'
      BY <2>1, <2>5 DEF AuthInv, RecordsOK
    <3> QED
      BY <2>2, <2>3, <3>1 DEF AuthInv, AuthGetsResolution, SuccessIsHandled
  <2> QED
    BY <2>4, <2>5
<1>8. CASE OnDisplayHDMIHotPlug
  <2>1. \A t \in HdcpThreads : pc'[t] = pc[t]
    BY <1>8 DEF OnDisplayHDMIHotPlug, Post
  <2> QED
    BY <1>0, <1>8, <2>1 DEF OnDisplayHDMIHotPlug, flags, locals
<1>9. CASE AudioStep
  BY <1>0, <1>9 DEF AudioStep, history, envVars, locals, flags
<1>10. CASE UNCHANGED vars
  BY <1>0, <1>10 DEF vars, allButPc, history, envVars, locals, flags
<1> QED
  BY <1>1, <1>2, <1>3, <1>4, <1>5, <1>6, <1>7, <1>8, <1>9, <1>10, NextSteps DEF EnvStep

\* A display that completes HDCP, stays connected and answers EDID reads has
\* its resolution set once the success has been handled, with any number of
\* HAL threads reporting and the resolution thread and the delayed handler
\* running beside them (HandleHDCPStatus, SetVideoPortResolution).
THEOREM AuthenticatedGetsResolution == Spec => []AuthGetsResolution
<1>1. Init => AuthInv
  BY DEF Init, AuthInv, AuthGetsResolution, SuccessIsHandled, NoCallback
<1>2. TypeOK /\ AuthInv /\ [Next]_vars => AuthInv'
  BY AuthStep
<1>3. AuthInv => AuthGetsResolution
  BY DEF AuthInv
<1> QED
  BY <1>1, <1>2, <1>3, TypeCorrect, PTL DEF Spec
=============================================================================
