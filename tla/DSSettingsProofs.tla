-------------------------- MODULE DSSettingsProofs --------------------------
(***************************************************************************)
(* What clients persist of the video port and of the audio ports agrees    *)
(* with what the adapters answer and the outputs have, for any clients and *)
(* values and any number of calls, displays and restarts (no bound is      *)
(* assumed to be a number): an inductive invariant for each of the two.    *)
(***************************************************************************)
EXTENDS DSVideoPortResolution, DSAudioSettings, TLAPS

\* What a call can be about to do.
CallStates ==
  {Idle}
    \cup [at : {"hal", "cache", "persist", "compat"}, port : Ports, name : Names, persist : BOOLEAN,
          force : BOOLEAN]
    \cup [at : {"block"}, block : BOOLEAN]
    \cup [at : {"depth", "saveDepth"}, depth : Depths, persist : BOOLEAN]

\* What the variables are.
ResTypes ==
  /\ stage \in {"up", "down"}
  /\ call \in [Callers -> CallStates]
  /\ DOMAIN hal = Ports /\ DOMAIN cache = Ports /\ DOMAIN store = Ports
  /\ overlap \in BOOLEAN /\ paired \in BOOLEAN /\ settled \in BOOLEAN
  /\ no4k \in BOOLEAN /\ store4k \in BOOLEAN
\* A call that nobody overlaps is alone.
Alone ==
  ~overlap => \A c, d \in Callers : call[c].at # "idle" /\ call[d].at # "idle" => c = d
\* No call and no callback is under way without the process.
DownIsQuiet ==
  stage = "down" => (\A c \in Callers : call[c].at = "idle") /\ ~hotplug /\ ~paired
\* What a call has done so far is still there if nobody overlaps it.
DoneSoFar(c) ==
  /\ call[c].at \in {"depth", "saveDepth"} => focus = "depth"
  /\ call[c].at = "persist" /\ call[c].port # "RF" => ~paired
  /\ ~overlap =>
       /\ call[c].at = "hal" /\ call[c].name = "2160p" => blocked # "yes"
       /\ call[c].at \in {"cache", "persist", "compat"} => hal[call[c].port] = call[c].name
       /\ call[c].at = "compat" => cache[call[c].port] = call[c].name
       /\ call[c].at = "block" => no4k = call[c].block
       /\ call[c].at = "saveDepth" => depth = call[c].depth \/ call[c].depth \notin caps
CallsHold == \A c \in Callers : DoneSoFar(c)
\* A name that was persisted undisturbed is the one kept, and shown.
SavedHolds ==
  \A p \in saved :
    /\ p \in Ports /\ store[p] \in Names /\ cache[p] = store[p]
    /\ p \in applied => hal[p] = cache[p]
PairHolds == paired => IsCompatibleResolution(cache["HDMI"], cache["COMPONENT"])
BlockHolds == blocked = "yes" => no4k /\ store4k
DepthHolds ==
  settled =>
    /\ focus = "depth"
    /\ stage = "up" /\ ~hotplug /\ connected => Reapplied(depth)
ResInv ==
  ResTypes /\ Alone /\ DownIsQuiet /\ CallsHold /\ SavedHolds /\ PairHolds /\ BlockHolds /\ DepthHolds

-----------------------------------------------------------------------------
(* Calls and the others.                                                   *)

\* What a call's state says of its fields.
LEMMA CallKinds ==
  ASSUME NEW r \in CallStates
  PROVE  /\ r = Idle <=> r.at = "idle"
         /\ r.at \in {"idle", "hal", "cache", "persist", "compat", "block", "depth", "saveDepth"}
         /\ r.at \in {"hal", "cache", "persist", "compat"} =>
              /\ r.port \in Ports /\ r.name \in Names /\ r.persist \in BOOLEAN /\ r.force \in BOOLEAN
              /\ \A a \in {"cache", "persist", "compat"} :
                   LET s == [r EXCEPT !.at = a] IN
                   s \in CallStates /\ s.at = a /\ s.port = r.port /\ s.name = r.name
         /\ r.at = "block" => r.block \in BOOLEAN
         /\ r.at \in {"depth", "saveDepth"} =>
              /\ r.depth \in Depths /\ r.persist \in BOOLEAN
              /\ LET s == [r EXCEPT !.at = "saveDepth"] IN
                 s \in CallStates /\ s.at = "saveDepth" /\ s.depth = r.depth
<1>1. CASE r = Idle
  BY <1>1 DEF Idle
<1>2. CASE r \in [at : {"hal", "cache", "persist", "compat"}, port : Ports, name : Names,
                  persist : BOOLEAN, force : BOOLEAN]
  <2>1. r.at # "idle" /\ r # Idle
    BY <1>2 DEF Idle
  <2> QED BY <1>2, <2>1 DEF CallStates
<1>3. CASE r \in [at : {"block"}, block : BOOLEAN]
  <2>1. r.at # "idle" /\ r # Idle
    BY <1>3 DEF Idle
  <2> QED BY <1>3, <2>1
<1>4. CASE r \in [at : {"depth", "saveDepth"}, depth : Depths, persist : BOOLEAN]
  <2>1. r.at # "idle" /\ r # Idle
    BY <1>4 DEF Idle
  <2> QED BY <1>4, <2>1 DEF CallStates
<1> QED BY <1>1, <1>2, <1>3, <1>4 DEF CallStates

\* A call is idle when it is about to do nothing.
LEMMA IdleCalls ==
  ASSUME ResInv
  PROVE  \A d \in Callers : call[d] \in CallStates /\ (call[d] = Idle <=> call[d].at = "idle")
<1> SUFFICES ASSUME NEW d \in Callers
             PROVE  call[d] \in CallStates /\ (call[d] = Idle <=> call[d].at = "idle")
  OBVIOUS
<1>1. call[d] \in CallStates
  BY DEF ResInv, ResTypes
<1> QED BY <1>1, CallKinds

\* A call begins idle; nobody overlaps it only if everybody else is idle.
LEMMA Beginning ==
  ASSUME ResInv, NEW c \in Callers, Begin(c)
  PROVE  /\ call[c].at = "idle" /\ stage = "up" /\ overlap' \in BOOLEAN
         /\ ~overlap' => \A d \in Callers \ {c} : call[d].at = "idle"
         /\ UNCHANGED <<focus, stage, connected, hotplug>>
<1>1. \A d \in Callers : call[d] = Idle <=> call[d].at = "idle"
  BY IdleCalls
<1>2. overlap' = Others(c) /\ call[c] = Idle /\ stage = "up" /\ UNCHANGED <<focus, stage, connected, hotplug>>
  BY DEF Begin
<1>3. Others(c) \in BOOLEAN /\ (~Others(c) => \A d \in Callers \ {c} : call[d] = Idle)
  BY DEF Others
<1> QED BY <1>1, <1>2, <1>3

\* A call that goes on is alone unless it is overlapped.
LEMMA Going ==
  ASSUME ResInv, NEW c \in Callers, call[c].at # "idle", NEW r \in CallStates, Goto(c, r)
  PROVE  /\ call' \in [Callers -> CallStates] /\ call'[c] = r
         /\ \A d \in Callers \ {c} : call'[d] = call[d]
         /\ ~overlap' => ~overlap /\ \A d \in Callers \ {c} : call[d].at = "idle"
         /\ stage = "up" /\ overlap' = overlap
         /\ UNCHANGED <<focus, stage, connected, hotplug>>
BY DEF ResInv, ResTypes, Alone, DownIsQuiet, Goto

\* A call that ends leaves overlapped calls overlapped.
LEMMA Finishing ==
  ASSUME ResInv, NEW c \in Callers, call[c].at # "idle", Finish(c)
  PROVE  /\ call' \in [Callers -> CallStates] /\ call'[c].at = "idle"
         /\ \A d \in Callers \ {c} : call'[d] = call[d]
         /\ ~overlap => \A d \in Callers \ {c} : call[d].at = "idle"
         /\ ~overlap' => \A d \in Callers \ {c} : call[d].at = "idle"
         /\ stage = "up" /\ overlap' \in BOOLEAN
         /\ UNCHANGED <<focus, stage, connected, hotplug>>
<1>1. \A d \in Callers : call[d] = Idle <=> call[d].at = "idle"
  BY IdleCalls
<1>2. /\ overlap' = (overlap /\ Others(c)) /\ call' = [call EXCEPT ![c] = Idle]
      /\ UNCHANGED <<focus, stage, connected, hotplug>>
  BY DEF Finish
<1>3. Others(c) \in BOOLEAN /\ (~Others(c) => \A d \in Callers \ {c} : call[d] = Idle)
  BY DEF Others
<1>4. Idle \in CallStates /\ Idle.at = "idle"
  BY DEF CallStates, Idle
<1>5. ~overlap => \A d \in Callers \ {c} : call[d].at = "idle"
  BY DEF ResInv, Alone
<1>6. stage = "up"
  BY DEF ResInv, ResTypes, DownIsQuiet
<1> QED BY <1>1, <1>2, <1>3, <1>4, <1>5, <1>6 DEF ResInv, ResTypes

\* What the other calls have done is still there, or they are overlapped.
LEMMA OthersHold ==
  ASSUME ResInv, NEW c \in Callers,
         \A d \in Callers \ {c} : call'[d] = call[d],
         ~overlap' => \A d \in Callers \ {c} : call[d].at = "idle",
         paired' => paired \/ \A d \in Callers \ {c} : call[d].at = "idle",
         focus' = focus, DoneSoFar(c)'
  PROVE  Alone' /\ CallsHold'
<1>1. Alone'
  BY DEF Alone
<1>2. CallsHold'
  <2> SUFFICES ASSUME NEW d \in Callers \ {c} PROVE DoneSoFar(d)'
    BY DEF CallsHold
  <2>1. CASE call[d].at = "idle"
    BY <2>1 DEF DoneSoFar
  <2>2. CASE call[d].at # "idle"
    <3>1. overlap' /\ (paired' => paired) /\ DoneSoFar(d)
      BY <2>2 DEF ResInv, CallsHold
    <3> QED BY <3>1 DEF DoneSoFar
  <2> QED BY <2>1, <2>2
<1> QED BY <1>1, <1>2

\* After everybody was idle, nobody has done anything.
LEMMA AllIdle ==
  ASSUME \A d \in Callers : call'[d].at = "idle"
  PROVE  Alone' /\ CallsHold'
BY DEF Alone, CallsHold, DoneSoFar

\* Two names that go together go together the other way round, and the name
\* chosen for the other port goes with the name it is chosen for.
LEMMA Compatible ==
  /\ \A n, m : IsCompatibleResolution(n, m) => IsCompatibleResolution(m, n)
  /\ \A n : IsCompatibleResolution(n, getCompatibleAnalogResolution(n))
            /\ IsCompatibleResolution(n, getCompatibleHDMIResolution(n))
BY DEF IsCompatibleResolution, IsHDCompatible, getCompatibleAnalogResolution,
   getCompatibleHDMIResolution

\* The persisted depth, or the display's best, is what a reset leaves.
LEMMA ResetReapplies ==
  ASSUME connected, NEW ok \in BOOLEAN, ok, ApplyPreferredColorDepthAfterHdmiReset(ok),
         UNCHANGED <<caps, storeDepth>>
  PROVE  Reapplied(depth)'
BY DEF ApplyPreferredColorDepthAfterHdmiReset, Reapplied, getBestSupportedColorDepth,
   getPersistentColorDepth

-----------------------------------------------------------------------------
(* The process and the display.                                            *)

\* Nothing is saved and no call is made at first.
LEMMA ResInit == Init => ResInv
<1> SUFFICES ASSUME Init PROVE ResInv
  OBVIOUS
<1>1. ResTypes /\ \A c \in Callers : call[c].at = "idle"
  <2>1. Idle \in CallStates /\ Idle.at = "idle"
    BY DEF Idle, CallStates
  <2> QED BY <2>1 DEF Init, ResTypes
<1>2. Alone /\ DownIsQuiet /\ CallsHold
  BY <1>1 DEF Init, Alone, DownIsQuiet, CallsHold, DoneSoFar
<1>3. SavedHolds /\ PairHolds /\ BlockHolds /\ DepthHolds
  BY DEF Init, SavedHolds, PairHolds, BlockHolds, DepthHolds
<1> QED BY <1>1, <1>2, <1>3 DEF ResInv

\* A start gives back what is persisted.
LEMMA StartStep == ResInv /\ InitialiseHAL => ResInv'
<1> SUFFICES ASSUME ResInv, InitialiseHAL PROVE ResInv'
  OBVIOUS
<1>1. \A d \in Callers : call'[d].at = "idle"
  BY DEF ResInv, DownIsQuiet, InitialiseHAL
<1>2. PICK kept \in BOOLEAN : no4k' = (store4k \/ (kept /\ no4k))
  BY DEF InitialiseHAL, getPersistenceValue
<1>3. PICK ok \in BOOLEAN :
        ApplyPreferredColorDepthAfterHdmiReset(ok) /\ settled' = (settled /\ (ok \/ ~connected))
  BY DEF InitialiseHAL
<1>4. /\ stage' = "up"
      /\ UNCHANGED <<focus, hal, store, store4k, caps, storeDepth, connected, hotplug, call, overlap,
                     saved, applied, paired, blocked>>
      /\ cache' = [p \in Ports |-> IF store[p] = None THEN DefaultResolution ELSE store[p]]
  BY DEF InitialiseHAL, getPersistenceValue
<1>5. ResTypes'
  <2>1. no4k' \in BOOLEAN /\ settled' \in BOOLEAN
    BY <1>2, <1>3
  <2> QED BY <1>4, <2>1 DEF ResInv, ResTypes
<1>6. DownIsQuiet'
  BY <1>4 DEF DownIsQuiet
<1>7. SavedHolds'
  BY <1>4 DEF ResInv, ResTypes, SavedHolds, Names, None
<1>8. PairHolds'
  BY <1>4 DEF ResInv, ResTypes, DownIsQuiet, PairHolds, InitialiseHAL
<1>9. BlockHolds'
  BY <1>2, <1>4 DEF ResInv, BlockHolds
<1>10. DepthHolds'
  <2> SUFFICES ASSUME settled' PROVE focus' = "depth" /\ (connected => Reapplied(depth)')
    BY <1>4 DEF DepthHolds
  <2>1. settled /\ (ok \/ ~connected)
    BY <1>3
  <2> QED BY <1>3, <1>4, <2>1, ResetReapplies DEF ResInv, DepthHolds
<1> QED BY <1>1, <1>5, <1>6, <1>7, <1>8, <1>9, <1>10, AllIdle DEF ResInv

\* A restart forgets the calls; what it interrupts is no longer sure.
LEMMA RestartStep == ResInv /\ Restart => ResInv'
<1> SUFFICES ASSUME ResInv, Restart PROVE ResInv'
  OBVIOUS
<1>1. Idle \in CallStates /\ Idle.at = "idle"
  BY DEF Idle, CallStates
<1>2. \A d \in Callers : call'[d].at = "idle"
  BY <1>1 DEF Restart
<1>3. /\ stage' = "down" /\ ~hotplug' /\ ~paired' /\ saved' \subseteq saved /\ applied' = {}
      /\ blocked' \in {blocked, "unknown"} /\ overlap' = FALSE /\ paired' = FALSE
      /\ UNCHANGED <<focus, hal, cache, store, no4k, store4k>>
  BY DEF Restart, resolution, block
<1>4. settled' = (settled /\ Quiet) /\ Quiet \in BOOLEAN
  BY DEF Restart, Quiet
<1>5. ResTypes'
  <2>1. call' \in [Callers -> CallStates]
    BY <1>1 DEF Restart
  <2>2. settled' \in BOOLEAN
    BY <1>4
  <2> QED BY <1>3, <2>1, <2>2 DEF ResInv, ResTypes
<1>6. DownIsQuiet'
  BY <1>2, <1>3 DEF DownIsQuiet
<1>7. SavedHolds' /\ PairHolds' /\ BlockHolds'
  BY <1>3 DEF ResInv, SavedHolds, PairHolds, BlockHolds
<1>8. DepthHolds'
  BY <1>3, <1>4 DEF ResInv, DepthHolds
<1> QED BY <1>2, <1>5, <1>6, <1>7, <1>8, AllIdle DEF ResInv

\* A display that comes or goes overlaps every call, and the callback is due.
LEMMA DisplayStep == ResInv /\ (Plug \/ dsDisplayEventCallback) => ResInv'
<1> SUFFICES ASSUME ResInv, Plug \/ dsDisplayEventCallback PROVE ResInv'
  OBVIOUS
<1>1. /\ stage = "up" /\ overlap' = ~Quiet
      /\ UNCHANGED <<focus, stage, hal, cache, store, no4k, store4k, storeDepth, call, saved, applied,
                     paired, blocked>>
  BY DEF Plug, dsDisplayEventCallback, resolution, block
<1>2. overlap' \in BOOLEAN /\ (~overlap' => \A d \in Callers : call[d].at = "idle")
  <2>1. ~overlap' => \A d \in Callers : call[d] = Idle
    BY <1>1 DEF Quiet
  <2> QED BY <1>1, <2>1 DEF Idle, Quiet
<1>3. CASE Plug
  <2>1. settled' = settled /\ (settled => hotplug')
    BY <1>3 DEF Plug, ResInv, DepthHolds
  <2> QED BY <1>1, <1>2, <2>1 DEF ResInv, ResTypes, Alone, DownIsQuiet, CallsHold, DoneSoFar, SavedHolds,
        PairHolds, BlockHolds, DepthHolds
<1>4. CASE dsDisplayEventCallback
  <2>1. PICK ok \in BOOLEAN :
          /\ ApplyPreferredColorDepthAfterHdmiReset(ok)
          /\ settled' = (settled /\ Quiet /\ (ok \/ ~connected))
    BY <1>4 DEF dsDisplayEventCallback
  <2>2. UNCHANGED <<caps, connected>> /\ settled' \in BOOLEAN
    BY <1>4, <2>1 DEF dsDisplayEventCallback
  <2>3. DepthHolds'
    <3> SUFFICES ASSUME settled' PROVE focus' = "depth" /\ (connected => Reapplied(depth)')
      BY <2>2 DEF DepthHolds
    <3>1. settled /\ (ok \/ ~connected)
      BY <2>1
    <3> QED BY <1>1, <2>1, <2>2, <3>1, ResetReapplies DEF ResInv, DepthHolds
  <2> QED BY <1>1, <1>2, <2>2, <2>3 DEF ResInv, ResTypes, Alone, DownIsQuiet, CallsHold, DoneSoFar,
        SavedHolds, PairHolds, BlockHolds
<1> QED BY <1>3, <1>4

-----------------------------------------------------------------------------
(* The calls.                                                              *)

\* A resolution is asked for, 4K not while it is blocked.
LEMMA AskStep ==
  ASSUME ResInv, NEW c \in Callers, NEW p \in Ports, NEW persist \in BOOLEAN, NEW force \in BOOLEAN,
         NEW n \in NamesOf(p), SetVideoPortResolution(c, p, n, persist, force)
  PROVE  ResInv'
<1> DEFINE r == [at |-> IF hal[p] = n THEN "cache" ELSE "hal", port |-> p, name |-> n,
                 persist |-> persist, force |-> persist /\ force]
<1>1. /\ call[c].at = "idle" /\ stage = "up" /\ overlap' \in BOOLEAN
      /\ ~overlap' => \A d \in Callers \ {c} : call[d].at = "idle"
      /\ UNCHANGED <<focus, stage, connected, hotplug>>
  BY Beginning DEF SetVideoPortResolution
<1>2. /\ call' = [call EXCEPT ![c] = r] /\ ~(no4k /\ n = "2160p")
      /\ UNCHANGED <<hal, cache, store, no4k, store4k, caps, depth, storeDepth, saved, applied, paired,
                     blocked, settled>>
  BY DEF SetVideoPortResolution, resolution, block, colour
<1>3. /\ r \in CallStates /\ r.at \in {"cache", "hal"} /\ (r.at = "cache" => hal[p] = n)
      /\ r.port = p /\ r.name = n
  <2>1. n \in Names
    BY DEF NamesOf, Names
  <2>2. (persist /\ force) \in BOOLEAN
    OBVIOUS
  <2> QED BY <2>1, <2>2 DEF CallStates
<1> HIDE DEF r
<1>4. call' \in [Callers -> CallStates] /\ call'[c] = r /\ \A d \in Callers \ {c} : call'[d] = call[d]
  BY <1>2, <1>3 DEF ResInv, ResTypes
<1>5. ResTypes'
  BY <1>1, <1>2, <1>4 DEF ResInv, ResTypes
<1>6. DoneSoFar(c)'
  <2>1. n = "2160p" => blocked # "yes"
    BY <1>2 DEF ResInv, ResTypes, BlockHolds
  <2> QED BY <1>2, <1>3, <1>4, <2>1 DEF DoneSoFar
<1>7. Alone' /\ CallsHold'
  BY <1>1, <1>2, <1>4, <1>6, OthersHold
<1>8. DownIsQuiet' /\ SavedHolds' /\ PairHolds' /\ BlockHolds' /\ DepthHolds'
  BY <1>1, <1>2 DEF ResInv, DownIsQuiet, SavedHolds, PairHolds, BlockHolds, DepthHolds, Reapplied,
     getPersistentColorDepth
<1> QED BY <1>5, <1>7, <1>8 DEF ResInv

\* The HAL takes the resolution or refuses it.
LEMMA CallsHal ==
  ASSUME ResInv, NEW c \in Callers, SetResolutionHal(c)
  PROVE  ResInv'
<1>1. /\ call[c] \in CallStates /\ call[c].at = "hal"
      /\ UNCHANGED <<cache, store, no4k, store4k, caps, depth, storeDepth, blocked, settled>>
  BY IdleCalls DEF SetResolutionHal, block, colour
<1>2. CASE Finish(c) /\ UNCHANGED <<hal, saved, applied, paired>>
  <2>1. /\ call' \in [Callers -> CallStates] /\ call'[c].at = "idle"
        /\ \A d \in Callers \ {c} : call'[d] = call[d]
        /\ ~overlap' => \A d \in Callers \ {c} : call[d].at = "idle"
        /\ stage = "up" /\ overlap' \in BOOLEAN
        /\ UNCHANGED <<focus, stage, connected, hotplug>>
    BY <1>1, <1>2, Finishing
  <2>2. DoneSoFar(c)'
    BY <2>1 DEF DoneSoFar
  <2>3. Alone' /\ CallsHold'
    BY <1>2, <2>1, <2>2, OthersHold
  <2>4. ResTypes'
    BY <1>1, <1>2, <2>1 DEF ResInv, ResTypes
  <2>5. DownIsQuiet' /\ SavedHolds' /\ PairHolds' /\ BlockHolds' /\ DepthHolds'
    BY <1>1, <1>2, <2>1 DEF ResInv, DownIsQuiet, SavedHolds, PairHolds, BlockHolds, DepthHolds,
       Reapplied,
       getPersistentColorDepth
  <2> QED BY <2>3, <2>4, <2>5 DEF ResInv
<1>3. CASE /\ hal' = [hal EXCEPT ![call[c].port] = call[c].name]
           /\ Goto(c, [call[c] EXCEPT !.at = "cache"])
           /\ Changes(call[c].port)
  <2>1. PICK r \in CallStates : r = [call[c] EXCEPT !.at = "cache"]
    BY <1>1, CallKinds
  <2>2. r.at = "cache" /\ r.port = call[c].port /\ r.name = call[c].name /\ r.port \in Ports
    BY <1>1, <2>1, CallKinds
  <2>3. /\ call' \in [Callers -> CallStates] /\ call'[c] = r
        /\ \A d \in Callers \ {c} : call'[d] = call[d]
        /\ ~overlap' => ~overlap /\ \A d \in Callers \ {c} : call[d].at = "idle"
        /\ stage = "up" /\ overlap' = overlap
        /\ UNCHANGED <<focus, stage, connected, hotplug>>
    BY <1>1, <1>3, <2>1, Going
  <2>4. /\ saved' = saved \ {r.port} /\ applied' = applied \ {r.port}
        /\ paired' = (paired /\ r.port \notin {"HDMI", "COMPONENT"})
    BY <1>3, <2>2 DEF Changes
  <2>5. DOMAIN hal' = Ports /\ hal'[r.port] = r.name /\ \A q \in Ports : q # r.port => hal'[q] = hal[q]
    BY <1>3, <2>2 DEF ResInv, ResTypes
  <2>6. ResTypes'
    BY <1>1, <2>3, <2>4, <2>5 DEF ResInv, ResTypes
  <2>7. DoneSoFar(c)'
    BY <2>2, <2>3, <2>5 DEF DoneSoFar
  <2>8. Alone' /\ CallsHold'
    BY <2>3, <2>4, <2>7, OthersHold
  <2>9. SavedHolds'
    BY <1>1, <2>4, <2>5 DEF ResInv, SavedHolds
  <2>10. DownIsQuiet' /\ PairHolds' /\ BlockHolds' /\ DepthHolds'
    BY <1>1, <2>3, <2>4 DEF ResInv, DownIsQuiet, PairHolds, BlockHolds, DepthHolds, Reapplied,
       getPersistentColorDepth
  <2> QED BY <2>6, <2>8, <2>9, <2>10 DEF ResInv
<1> QED BY <1>2, <1>3 DEF SetResolutionHal

\* The name is cached.
LEMMA CacheStep ==
  ASSUME ResInv, NEW c \in Callers, updateCachedResolutionForPort(c)
  PROVE  ResInv'
<1>1. /\ call[c] \in CallStates /\ call[c].at = "cache"
      /\ cache' = [cache EXCEPT ![call[c].port] = call[c].name]
      /\ UNCHANGED <<hal, store, no4k, store4k, caps, depth, storeDepth, blocked, settled>>
  BY IdleCalls DEF updateCachedResolutionForPort, block, colour
<1>2. call[c].port \in Ports
  BY <1>1, CallKinds
<1>3. /\ saved' = saved \ {call[c].port} /\ applied' = applied \ {call[c].port}
      /\ paired' = (paired /\ call[c].port \notin {"HDMI", "COMPONENT"})
  BY DEF updateCachedResolutionForPort, Changes
<1>4. DOMAIN cache' = Ports /\ \A q \in Ports : q # call[c].port => cache'[q] = cache[q]
  BY <1>1, <1>2 DEF ResInv, ResTypes
<1>5. PICK r \in CallStates : r = [call[c] EXCEPT !.at = "persist"]
  BY <1>1, CallKinds
<1>6. r.at = "persist" /\ r.port = call[c].port /\ r.name = call[c].name
  BY <1>1, <1>5, CallKinds
<1>7. /\ call' \in [Callers -> CallStates]
      /\ call'[c] = r \/ call'[c].at = "idle"
      /\ \A d \in Callers \ {c} : call'[d] = call[d]
      /\ ~overlap' => \A d \in Callers \ {c} : call[d].at = "idle"
      /\ ~overlap' /\ call'[c] = r /\ call'[c].at # "idle" => ~overlap
      /\ stage = "up" /\ overlap' \in BOOLEAN
      /\ UNCHANGED <<focus, stage, connected, hotplug>>
  <2>1. CASE Finish(c)
    <3>1. call'[c].at = "idle"
      BY <1>1, <2>1, Finishing
    <3> QED BY <1>1, <2>1, <3>1, Finishing
  <2>2. CASE Goto(c, r)
    <3>1. overlap \in BOOLEAN
      BY DEF ResInv, ResTypes
    <3> QED BY <1>1, <2>2, <3>1, Going
  <2> QED BY <1>5, <2>1, <2>2 DEF updateCachedResolutionForPort
<1>8. ResTypes'
  BY <1>1, <1>3, <1>4, <1>7 DEF ResInv, ResTypes
<1>9. DoneSoFar(c)'
  <2>1. CASE call'[c].at = "idle"
    BY <2>1 DEF DoneSoFar
  <2>2. CASE call'[c] = r /\ call'[c].at # "idle"
    <3>1. r.port # "RF" => ~paired'
      BY <1>2, <1>3, <1>6 DEF Ports
    <3>2. ~overlap' => hal[r.port] = r.name
      BY <1>1, <1>6, <1>7, <2>2 DEF ResInv, CallsHold, DoneSoFar
    <3> QED BY <1>1, <1>6, <2>2, <3>1, <3>2 DEF DoneSoFar
  <2> QED BY <1>7, <2>1, <2>2
<1>10. Alone' /\ CallsHold'
  BY <1>3, <1>7, <1>9, OthersHold
<1>11. SavedHolds'
  BY <1>1, <1>3, <1>4 DEF ResInv, SavedHolds
<1>12. PairHolds'
  BY <1>2, <1>3, <1>4 DEF ResInv, PairHolds, Ports
<1>13. DownIsQuiet' /\ BlockHolds' /\ DepthHolds'
  BY <1>1, <1>7 DEF ResInv, DownIsQuiet, BlockHolds, DepthHolds, Reapplied, getPersistentColorDepth
<1> QED BY <1>8, <1>10, <1>11, <1>12, <1>13 DEF ResInv

\* The name is persisted: undisturbed, it is the name cached and shown.
LEMMA PersistStep ==
  ASSUME ResInv, NEW c \in Callers, persistVideoPortResolution(c)
  PROVE  ResInv'
<1>1. /\ call[c] \in CallStates /\ call[c].at = "persist"
      /\ UNCHANGED <<hal, no4k, store4k, caps, depth, storeDepth, paired, blocked, settled>>
  BY IdleCalls DEF persistVideoPortResolution, block, colour
<1>2. PICK r \in CallStates : r = [call[c] EXCEPT !.at = "compat"]
  BY <1>1, CallKinds
<1>3. /\ r.at = "compat" /\ r.port = call[c].port /\ r.name = call[c].name
      /\ r.port \in Ports /\ r.name \in Names
  BY <1>1, <1>2, CallKinds
<1>4. /\ call' \in [Callers -> CallStates] /\ call'[c] = r
      /\ \A d \in Callers \ {c} : call'[d] = call[d]
      /\ ~overlap' => ~overlap /\ \A d \in Callers \ {c} : call[d].at = "idle"
      /\ stage = "up" /\ overlap' = overlap
      /\ UNCHANGED <<focus, stage, connected, hotplug>>
  BY <1>1, <1>2, Going DEF persistVideoPortResolution
<1>5. /\ store' = [store EXCEPT ![r.port] = r.name] /\ cache' = [cache EXCEPT ![r.port] = r.name]
      /\ saved' = (IF overlap THEN saved \ {r.port} ELSE saved \cup {r.port})
      /\ applied' = (IF overlap THEN applied \ {r.port} ELSE applied \cup {r.port})
  BY <1>3 DEF persistVideoPortResolution
<1>6. /\ DOMAIN store' = Ports /\ DOMAIN cache' = Ports
      /\ store'[r.port] = r.name /\ cache'[r.port] = r.name
      /\ \A q \in Ports : q # r.port => store'[q] = store[q] /\ cache'[q] = cache[q]
  BY <1>3, <1>5 DEF ResInv, ResTypes
<1>7. ~overlap => hal[r.port] = r.name
  BY <1>1, <1>3 DEF ResInv, CallsHold, DoneSoFar
<1>8. ResTypes'
  BY <1>1, <1>4, <1>6 DEF ResInv, ResTypes
<1>9. DoneSoFar(c)'
  BY <1>1, <1>3, <1>4, <1>6, <1>7 DEF DoneSoFar
<1>10. Alone' /\ CallsHold'
  BY <1>1, <1>4, <1>9, OthersHold
<1>11. SavedHolds'
  BY <1>1, <1>3, <1>5, <1>6, <1>7 DEF ResInv, SavedHolds
<1>12. PairHolds'
  <2>1. r.port # "RF" => ~paired
    BY <1>1, <1>3 DEF ResInv, CallsHold, DoneSoFar
  <2> QED BY <1>1, <1>3, <1>6, <2>1 DEF ResInv, PairHolds, Ports
<1>13. DownIsQuiet' /\ BlockHolds' /\ DepthHolds'
  BY <1>1, <1>4 DEF ResInv, DownIsQuiet, BlockHolds, DepthHolds, Reapplied, getPersistentColorDepth
<1> QED BY <1>8, <1>10, <1>11, <1>12, <1>13 DEF ResInv

\* The other port's name is replaced where the two cannot go together.
LEMMA CompatibleStep ==
  ASSUME ResInv, NEW c \in Callers, compatibleResolution(c)
  PROVE  ResInv'
<1>1. /\ call[c] \in CallStates /\ call[c].at = "compat"
      /\ UNCHANGED <<hal, no4k, store4k, caps, depth, storeDepth, blocked, settled>>
  BY IdleCalls DEF compatibleResolution, block, colour
<1>2. PICK r \in CallStates : r = call[c] /\ r.port \in Ports /\ r.name \in Names
  BY <1>1, CallKinds
<1>3. PICK other \in {"HDMI", "COMPONENT"} : other = IF r.port = "HDMI" THEN "COMPONENT" ELSE "HDMI"
  OBVIOUS
<1>4. PICK n : n = IF r.port = "HDMI" THEN getCompatibleAnalogResolution(r.name)
                   ELSE getCompatibleHDMIResolution(r.name)
  OBVIOUS
<1>5. /\ call' \in [Callers -> CallStates] /\ call'[c].at = "idle"
      /\ \A d \in Callers \ {c} : call'[d] = call[d]
      /\ ~overlap => \A d \in Callers \ {c} : call[d].at = "idle"
      /\ ~overlap' => \A d \in Callers \ {c} : call[d].at = "idle"
      /\ stage = "up" /\ overlap' \in BOOLEAN
      /\ UNCHANGED <<focus, stage, connected, hotplug>>
  BY <1>1, Finishing DEF compatibleResolution
<1>6. \/ /\ IsCompatibleResolution(r.name, cache[other])
         /\ UNCHANGED <<cache, store, saved, applied>>
         /\ paired' = IF r.port = "RF" THEN paired ELSE ~overlap
      \/ /\ cache' = [cache EXCEPT ![other] = n]
         /\ store' = IF r.force /\ r.port # "RF" THEN [store EXCEPT ![other] = n] ELSE store
         /\ saved' = saved \ {other} /\ applied' = applied \ {other}
         /\ paired' = (r.port # "RF" /\ ~overlap)
  BY <1>2, <1>3, <1>4 DEF compatibleResolution
<1>7. /\ DOMAIN cache' = Ports /\ DOMAIN store' = Ports /\ other \in Ports
      /\ \A q \in Ports : q # other => cache'[q] = cache[q] /\ store'[q] = store[q]
  BY <1>3, <1>6 DEF ResInv, ResTypes, Ports
<1>8. ResTypes'
  <2>1. paired' \in BOOLEAN
    BY <1>6 DEF ResInv, ResTypes
  <2> QED BY <1>1, <1>5, <1>7, <2>1 DEF ResInv, ResTypes
<1>9. Alone' /\ CallsHold'
  <2>1. DoneSoFar(c)'
    BY <1>5 DEF DoneSoFar
  <2>2. paired' => paired \/ ~overlap
    BY <1>6 DEF ResInv, ResTypes
  <2> QED BY <1>5, <2>1, <2>2, OthersHold
<1>10. SavedHolds'
  BY <1>1, <1>6, <1>7 DEF ResInv, SavedHolds
<1>11. PairHolds'
  <2> SUFFICES ASSUME paired' PROVE IsCompatibleResolution(cache'["HDMI"], cache'["COMPONENT"])
    BY DEF PairHolds
  <2>1. CASE r.port = "RF"
    <3>1. paired /\ UNCHANGED cache
      BY <1>6, <2>1
    <3> QED BY <3>1 DEF ResInv, PairHolds
  <2>2. CASE r.port # "RF"
    <3>1. ~overlap
      BY <1>6, <2>2
    <3>2. cache[r.port] = r.name /\ r.port # other
      BY <1>1, <1>2, <1>3, <3>1 DEF ResInv, CallsHold, DoneSoFar
    <3>3. cache'[r.port] = r.name
      BY <1>2, <1>7, <3>2
    <3>4. IsCompatibleResolution(r.name, n)
      BY <1>4, Compatible
    <3>5. IsCompatibleResolution(r.name, cache'[other])
      BY <1>6, <1>7, <3>4 DEF ResInv, ResTypes
    <3>6. r.port \in {"HDMI", "COMPONENT"}
      BY <1>2, <2>2 DEF Ports
    <3>7. CASE r.port = "HDMI"
      BY <1>3, <3>3, <3>5, <3>7
    <3>8. CASE r.port = "COMPONENT"
      BY <1>3, <3>3, <3>5, <3>8, Compatible
    <3> QED BY <3>6, <3>7, <3>8
  <2> QED BY <2>1, <2>2
<1>12. DownIsQuiet' /\ BlockHolds' /\ DepthHolds'
  BY <1>1, <1>5 DEF ResInv, DownIsQuiet, BlockHolds, DepthHolds, Reapplied, getPersistentColorDepth
<1> QED BY <1>8, <1>9, <1>10, <1>11, <1>12 DEF ResInv

\* A read caches the resolution of the output.
LEMMA ReadStep ==
  ASSUME ResInv, NEW c \in Callers, GetVideoPortResolution(c)
  PROVE  ResInv'
<1>1. /\ call[c].at = "idle" /\ stage = "up" /\ overlap' \in BOOLEAN
      /\ ~overlap' => \A d \in Callers \ {c} : call[d].at = "idle"
      /\ UNCHANGED <<focus, stage, connected, hotplug>>
  BY Beginning DEF GetVideoPortResolution
<1>2. /\ cache' = [cache EXCEPT !["HDMI"] = hal["HDMI"]]
      /\ saved' = saved \ {"HDMI"} /\ applied' = applied \ {"HDMI"} /\ paired' = FALSE
      /\ UNCHANGED <<hal, store, no4k, store4k, caps, depth, storeDepth, call, blocked, settled>>
  BY DEF GetVideoPortResolution, Changes, block, colour
<1>3. DOMAIN cache' = Ports /\ \A q \in Ports : q # "HDMI" => cache'[q] = cache[q]
  BY <1>2 DEF ResInv, ResTypes
<1>4. ResTypes'
  BY <1>1, <1>2, <1>3 DEF ResInv, ResTypes
<1>5. DoneSoFar(c)'
  BY <1>1, <1>2 DEF DoneSoFar
<1>6. Alone' /\ CallsHold'
  BY <1>1, <1>2, <1>5, OthersHold
<1>7. SavedHolds'
  BY <1>2, <1>3 DEF ResInv, SavedHolds
<1>8. DownIsQuiet' /\ PairHolds' /\ BlockHolds' /\ DepthHolds'
  BY <1>1, <1>2 DEF ResInv, DownIsQuiet, PairHolds, BlockHolds, DepthHolds, Reapplied,
     getPersistentColorDepth
<1> QED BY <1>4, <1>6, <1>7, <1>8 DEF ResInv

\* The HAL blocks 4K or lifts the block; neither is acknowledged yet.
LEMMA BlockStep ==
  ASSUME ResInv, NEW c \in Callers, NEW b \in BOOLEAN, SetForceDisable4K(c, b)
  PROVE  ResInv'
<1>1. /\ call[c].at = "idle" /\ stage = "up" /\ overlap' \in BOOLEAN
      /\ ~overlap' => \A d \in Callers \ {c} : call[d].at = "idle"
      /\ UNCHANGED <<focus, stage, connected, hotplug>>
  BY Beginning DEF SetForceDisable4K
<1>2. UNCHANGED <<hal, cache, store, store4k, caps, depth, storeDepth, saved, applied, paired, settled>>
  BY DEF SetForceDisable4K, resolution, colour
<1>3. PICK r \in CallStates : r = [at |-> "block", block |-> b]
  BY DEF CallStates
<1>4. \/ no4k' = b /\ call' = [call EXCEPT ![c] = r] /\ blocked' = "unknown"
      \/ UNCHANGED <<no4k, call, blocked>>
  BY <1>3 DEF SetForceDisable4K
<1>5. /\ call' \in [Callers -> CallStates] /\ \A d \in Callers \ {c} : call'[d] = call[d]
      /\ (call'[c] = r /\ no4k' = b) \/ call'[c].at = "idle"
      /\ no4k' \in BOOLEAN
  BY <1>1, <1>4 DEF ResInv, ResTypes
<1>6. ResTypes'
  BY <1>1, <1>2, <1>5 DEF ResInv, ResTypes
<1>7. DoneSoFar(c)'
  BY <1>3, <1>5 DEF DoneSoFar
<1>8. Alone' /\ CallsHold'
  BY <1>1, <1>2, <1>5, <1>7, OthersHold
<1>9. BlockHolds'
  BY <1>2, <1>4 DEF ResInv, BlockHolds
<1>10. DownIsQuiet' /\ SavedHolds' /\ PairHolds' /\ DepthHolds'
  BY <1>1, <1>2 DEF ResInv, DownIsQuiet, SavedHolds, PairHolds, DepthHolds, Reapplied,
     getPersistentColorDepth
<1> QED BY <1>6, <1>8, <1>9, <1>10 DEF ResInv

\* The block is persisted and acknowledged.
LEMMA BlockedStep ==
  ASSUME ResInv, NEW c \in Callers, persistForceDisable4K(c)
  PROVE  ResInv'
<1>1. /\ call[c] \in CallStates /\ call[c].at = "block" /\ store4k' = call[c].block
      /\ blocked' = IF overlap THEN "unknown" ELSE IF call[c].block THEN "yes" ELSE "no"
      /\ UNCHANGED <<hal, cache, store, no4k, caps, depth, storeDepth, saved, applied, paired, settled>>
  BY IdleCalls DEF persistForceDisable4K, resolution, colour
<1>2. call[c].block \in BOOLEAN
  BY <1>1, CallKinds
<1>3. /\ call' \in [Callers -> CallStates] /\ call'[c].at = "idle"
      /\ \A d \in Callers \ {c} : call'[d] = call[d]
      /\ ~overlap' => \A d \in Callers \ {c} : call[d].at = "idle"
      /\ stage = "up" /\ overlap' \in BOOLEAN
      /\ UNCHANGED <<focus, stage, connected, hotplug>>
  BY <1>1, Finishing DEF persistForceDisable4K
<1>4. ResTypes'
  BY <1>1, <1>2, <1>3 DEF ResInv, ResTypes
<1>5. DoneSoFar(c)'
  BY <1>3 DEF DoneSoFar
<1>6. Alone' /\ CallsHold'
  BY <1>1, <1>3, <1>5, OthersHold
<1>7. BlockHolds'
  <2>1. ~overlap => no4k = call[c].block
    BY <1>1 DEF ResInv, CallsHold, DoneSoFar
  <2> QED BY <1>1, <1>2, <2>1 DEF BlockHolds
<1>8. DownIsQuiet' /\ SavedHolds' /\ PairHolds' /\ DepthHolds'
  BY <1>1, <1>3 DEF ResInv, DownIsQuiet, SavedHolds, PairHolds, DepthHolds, Reapplied,
     getPersistentColorDepth
<1> QED BY <1>4, <1>6, <1>7, <1>8 DEF ResInv

\* A depth is asked for; the depth the HAL has is not given again.
LEMMA AskDepthStep ==
  ASSUME ResInv, NEW c \in Callers, NEW d \in Depths, NEW persist \in BOOLEAN,
         SetPreferredColorDepth(c, d, persist)
  PROVE  ResInv'
<1>1. /\ call[c].at = "idle" /\ stage = "up" /\ overlap' \in BOOLEAN
      /\ ~overlap' => \A e \in Callers \ {c} : call[e].at = "idle"
      /\ UNCHANGED <<focus, stage, connected, hotplug>>
  BY Beginning DEF SetPreferredColorDepth
<1>2. PICK r \in CallStates :
        r = [at |-> IF depth # d THEN "depth" ELSE "saveDepth", depth |-> d, persist |-> persist]
  BY DEF CallStates
<1>3. /\ call' = [call EXCEPT ![c] = r] /\ focus = "depth"
      /\ UNCHANGED <<hal, cache, store, no4k, store4k, caps, depth, storeDepth, saved, applied, paired,
                     blocked, settled>>
  BY <1>2 DEF SetPreferredColorDepth, resolution, block, colour
<1>4. call' \in [Callers -> CallStates] /\ call'[c] = r /\ \A e \in Callers \ {c} : call'[e] = call[e]
  BY <1>3 DEF ResInv, ResTypes
<1>5. ResTypes'
  BY <1>1, <1>3, <1>4 DEF ResInv, ResTypes
<1>6. DoneSoFar(c)'
  BY <1>1, <1>2, <1>3, <1>4 DEF DoneSoFar
<1>7. Alone' /\ CallsHold'
  BY <1>1, <1>3, <1>4, <1>6, OthersHold
<1>8. DownIsQuiet' /\ SavedHolds' /\ PairHolds' /\ BlockHolds' /\ DepthHolds'
  BY <1>1, <1>3 DEF ResInv, DownIsQuiet, SavedHolds, PairHolds, BlockHolds, DepthHolds, Reapplied,
     getPersistentColorDepth
<1> QED BY <1>5, <1>7, <1>8 DEF ResInv

\* The HAL takes the display's best for it, or refuses.
LEMMA DepthHalStep ==
  ASSUME ResInv, NEW c \in Callers, setPreferredColorDepthHAL(c)
  PROVE  ResInv'
<1>1. /\ call[c] \in CallStates /\ call[c].at = "depth"
      /\ UNCHANGED <<hal, cache, store, no4k, store4k, caps, storeDepth, saved, applied, paired, blocked>>
  BY IdleCalls DEF setPreferredColorDepthHAL, resolution, block
<1>2. PICK r \in CallStates : r = [call[c] EXCEPT !.at = "saveDepth"]
  BY <1>1, CallKinds
<1>3. r.at = "saveDepth" /\ r.depth = call[c].depth
  BY <1>1, <1>2, CallKinds
<1>4. CASE /\ depth' = getBestSupportedColorDepth(call[c].depth)
           /\ Goto(c, [call[c] EXCEPT !.at = "saveDepth"]) /\ settled' = FALSE
  <2>1. /\ call' \in [Callers -> CallStates] /\ call'[c] = r
        /\ \A d \in Callers \ {c} : call'[d] = call[d]
        /\ ~overlap' => ~overlap /\ \A d \in Callers \ {c} : call[d].at = "idle"
        /\ stage = "up" /\ overlap' = overlap
        /\ UNCHANGED <<focus, stage, connected, hotplug>>
    BY <1>1, <1>2, <1>4, Going
  <2>2. depth' = r.depth \/ r.depth \notin caps
    BY <1>3, <1>4 DEF getBestSupportedColorDepth
  <2>3. focus = "depth"
    BY <1>1 DEF ResInv, CallsHold, DoneSoFar
  <2>4. DoneSoFar(c)'
    BY <1>1, <1>3, <2>1, <2>2, <2>3 DEF DoneSoFar
  <2>5. Alone' /\ CallsHold'
    BY <1>1, <2>1, <2>4, OthersHold
  <2>6. ResTypes'
    BY <1>1, <1>4, <2>1 DEF ResInv, ResTypes
  <2>7. DownIsQuiet' /\ SavedHolds' /\ PairHolds' /\ BlockHolds' /\ DepthHolds'
    BY <1>1, <1>4, <2>1 DEF ResInv, DownIsQuiet, SavedHolds, PairHolds, BlockHolds, DepthHolds
  <2> QED BY <2>5, <2>6, <2>7 DEF ResInv
<1>5. CASE Finish(c) /\ UNCHANGED <<depth, settled>>
  <2>1. /\ call' \in [Callers -> CallStates] /\ call'[c].at = "idle"
        /\ \A d \in Callers \ {c} : call'[d] = call[d]
        /\ ~overlap' => \A d \in Callers \ {c} : call[d].at = "idle"
        /\ stage = "up" /\ overlap' \in BOOLEAN
        /\ UNCHANGED <<focus, stage, connected, hotplug>>
    BY <1>1, <1>5, Finishing
  <2>2. DoneSoFar(c)'
    BY <2>1 DEF DoneSoFar
  <2>3. Alone' /\ CallsHold'
    BY <1>1, <2>1, <2>2, OthersHold
  <2>4. ResTypes'
    BY <1>1, <1>5, <2>1 DEF ResInv, ResTypes
  <2>5. DownIsQuiet' /\ SavedHolds' /\ PairHolds' /\ BlockHolds' /\ DepthHolds'
    BY <1>1, <1>5, <2>1 DEF ResInv, DownIsQuiet, SavedHolds, PairHolds, BlockHolds, DepthHolds,
       Reapplied,
       getPersistentColorDepth
  <2> QED BY <2>3, <2>4, <2>5 DEF ResInv
<1> QED BY <1>4, <1>5 DEF setPreferredColorDepthHAL

\* The depth asked for is persisted: undisturbed, the HAL has it or the
\* display cannot show it.
LEMMA SaveDepthStep ==
  ASSUME ResInv, NEW c \in Callers, persistColorDepth(c)
  PROVE  ResInv'
<1>1. /\ call[c] \in CallStates /\ call[c].at = "saveDepth"
      /\ storeDepth' = IF call[c].persist THEN call[c].depth ELSE storeDepth
      /\ UNCHANGED <<hal, cache, store, no4k, store4k, caps, depth, saved, applied, paired, blocked>>
  BY IdleCalls DEF persistColorDepth, resolution, block
<1>2. call[c].depth \in Depths /\ call[c].persist \in BOOLEAN
  BY <1>1, CallKinds
<1>3. /\ call' \in [Callers -> CallStates] /\ call'[c].at = "idle"
      /\ \A d \in Callers \ {c} : call'[d] = call[d]
      /\ ~overlap' => \A d \in Callers \ {c} : call[d].at = "idle"
      /\ stage = "up" /\ overlap' \in BOOLEAN
      /\ UNCHANGED <<focus, stage, connected, hotplug>>
  BY <1>1, Finishing DEF persistColorDepth
<1>4. settled' \in BOOLEAN /\ (settled' => call[c].persist /\ ~overlap)
  BY <1>2 DEF persistColorDepth
<1>5. ResTypes'
  BY <1>1, <1>3, <1>4 DEF ResInv, ResTypes
<1>6. DoneSoFar(c)'
  BY <1>3 DEF DoneSoFar
<1>7. Alone' /\ CallsHold'
  BY <1>1, <1>3, <1>6, OthersHold
<1>8. DepthHolds'
  <2> SUFFICES ASSUME settled' PROVE focus' = "depth" /\ Reapplied(depth)'
    BY DEF DepthHolds
  <2>1. focus = "depth" /\ (depth = call[c].depth \/ call[c].depth \notin caps)
    BY <1>1, <1>4 DEF ResInv, CallsHold, DoneSoFar
  <2>2. getPersistentColorDepth' = call[c].depth
    BY <1>1, <1>2, <1>4 DEF getPersistentColorDepth, Depths, None
  <2> QED BY <1>1, <1>3, <2>1, <2>2 DEF Reapplied
<1>9. DownIsQuiet' /\ SavedHolds' /\ PairHolds' /\ BlockHolds'
  BY <1>1, <1>3 DEF ResInv, DownIsQuiet, SavedHolds, PairHolds, BlockHolds
<1> QED BY <1>5, <1>7, <1>8, <1>9 DEF ResInv

\* A depth is given as it is; nothing is settled then.
LEMMA GiveDepthStep ==
  ASSUME ResInv, NEW c \in Callers, NEW d \in Depths, SetVideoPortColorDepth(c, d)
  PROVE  ResInv'
<1>1. /\ call[c].at = "idle" /\ stage = "up" /\ overlap' \in BOOLEAN
      /\ ~overlap' => \A e \in Callers \ {c} : call[e].at = "idle"
      /\ UNCHANGED <<focus, stage, connected, hotplug>>
  BY Beginning DEF SetVideoPortColorDepth
<1>2. /\ settled' = FALSE
      /\ UNCHANGED <<hal, cache, store, no4k, store4k, caps, storeDepth, call, saved, applied, paired,
                     blocked>>
  BY DEF SetVideoPortColorDepth, resolution, block
<1>3. ResTypes'
  BY <1>1, <1>2 DEF ResInv, ResTypes
<1>4. DoneSoFar(c)'
  BY <1>1, <1>2 DEF DoneSoFar
<1>5. Alone' /\ CallsHold'
  BY <1>1, <1>2, <1>4, OthersHold
<1>6. DownIsQuiet' /\ SavedHolds' /\ PairHolds' /\ BlockHolds' /\ DepthHolds'
  BY <1>1, <1>2 DEF ResInv, DownIsQuiet, SavedHolds, PairHolds, BlockHolds, DepthHolds
<1> QED BY <1>3, <1>5, <1>6 DEF ResInv

-----------------------------------------------------------------------------
(* The theorems.                                                           *)

\* Every step keeps the invariant.
LEMMA ResStep == ResInv /\ [Next]_vars => ResInv'
<1> SUFFICES ASSUME ResInv, [Next]_vars PROVE ResInv'
  OBVIOUS
<1>1. CASE InitialiseHAL \/ Restart \/ Plug \/ dsDisplayEventCallback
  BY <1>1, StartStep, RestartStep, DisplayStep
<1>2. ASSUME NEW c \in Callers, Continue(c) PROVE ResInv'
  BY <1>2, CallsHal, CacheStep, PersistStep, CompatibleStep, BlockedStep, DepthHalStep, SaveDepthStep
     DEF Continue
<1>3. ASSUME NEW c \in Callers, GetVideoPortResolution(c) PROVE ResInv'
  BY <1>3, ReadStep
<1>4. ASSUME NEW c \in Callers, NEW p \in Ports, NEW persist \in BOOLEAN, NEW force \in BOOLEAN,
             NEW n \in NamesOf(p), SetVideoPortResolution(c, p, n, persist, force)
      PROVE  ResInv'
  BY <1>4, AskStep
<1>5. ASSUME NEW c \in Callers, NEW b \in BOOLEAN, SetForceDisable4K(c, b) PROVE ResInv'
  BY <1>5, BlockStep
<1>6. ASSUME NEW c \in Callers, NEW d \in Depths, NEW persist \in BOOLEAN,
             SetPreferredColorDepth(c, d, persist)
      PROVE  ResInv'
  BY <1>6, AskDepthStep
<1>7. ASSUME NEW c \in Callers, NEW d \in Depths, SetVideoPortColorDepth(c, d) PROVE ResInv'
  BY <1>7, GiveDepthStep
<1>8. CASE UNCHANGED vars
  BY <1>8 DEF vars, resolution, block, colour, history, ResInv, ResTypes, Alone, DownIsQuiet,
     CallsHold,
     DoneSoFar, SavedHolds, PairHolds, BlockHolds, DepthHolds, Reapplied, getPersistentColorDepth
<1>9. CASE Next
  BY <1>1, <1>2, <1>3, <1>4, <1>5, <1>6, <1>7, <1>9 DEF Next
<1> QED BY <1>8, <1>9

\* A resolution that a client persisted undisturbed is the one the adapter
\* answers with, across restarts, and the one of the output until another
\* change: for any clients, calls, displays and restarts.
THEOREM PersistedIsAnswered == Spec => []ResolutionsAgree
<1>1. ResInv => ResolutionsAgree
  BY DEF ResInv, SavedHolds, ResolutionsAgree
<1> QED BY ResInit, ResStep, <1>1, PTL DEF Spec

\* After an undisturbed change of HDMI or COMPONENT the names kept for the two
\* can be shown together.
THEOREM PairsAreCompatible == Spec => []PairIsCompatible
<1>1. ResInv => PairIsCompatible
  BY DEF ResInv, PairHolds, PairIsCompatible
<1> QED BY ResInit, ResStep, <1>1, PTL DEF Spec

\* A display that is replugged, or met again after a restart, gets the
\* persisted depth unless it cannot show it.
THEOREM DepthComesBack == Spec => []DepthIsReapplied
<1>1. ResInv => DepthIsReapplied
  BY DEF ResInv, DepthHolds, DepthIsReapplied
<1> QED BY ResInit, ResStep, <1>1, PTL DEF Spec

\* Once a block of 4K is acknowledged no call that nobody overlaps switches an
\* output to 4K, across restarts, until the block is lifted: the call that
\* reaches the HAL was let in when the HAL had the block already.
THEOREM BlockedStays == Spec => No4KWhileBlocked
<1>1. ASSUME ResInv, [Next]_vars, blocked = "yes", ~overlap, NEW p \in Ports, hal'[p] = "2160p"
      PROVE  hal[p] = "2160p"
  <2>1. CASE UNCHANGED hal
    BY <1>1, <2>1
  <2>2. ASSUME NEW c \in Callers, SetResolutionHal(c), hal' # hal
        PROVE  hal[p] = "2160p"
    <3>1. hal' = [hal EXCEPT ![call[c].port] = call[c].name] /\ call[c].at = "hal"
      BY <2>2 DEF SetResolutionHal
    <3>2. call[c].name # "2160p"
      BY <1>1, <3>1 DEF ResInv, CallsHold, DoneSoFar
    <3>3. p # call[c].port
      BY <1>1, <3>1, <3>2 DEF ResInv, ResTypes
    <3> QED BY <1>1, <3>1, <3>3 DEF ResInv, ResTypes
  <2>3. (\A c \in Callers : ~SetResolutionHal(c)) => UNCHANGED hal
    <3>1. CASE UNCHANGED vars
      BY <3>1 DEF vars, resolution
    <3>2. CASE InitialiseHAL \/ Restart \/ Plug \/ dsDisplayEventCallback
      BY <3>2 DEF InitialiseHAL, getPersistenceValue, Restart, Plug, dsDisplayEventCallback, resolution
    <3>3. ASSUME NEW c \in Callers, Continue(c), ~SetResolutionHal(c)
          PROVE  UNCHANGED hal
      BY <3>3 DEF Continue, updateCachedResolutionForPort, persistVideoPortResolution,
         compatibleResolution, persistForceDisable4K, setPreferredColorDepthHAL, persistColorDepth,
         resolution
    <3>4. ASSUME NEW c \in Callers,
                 \/ GetVideoPortResolution(c)
                 \/ \E b \in BOOLEAN : SetForceDisable4K(c, b)
                 \/ \E d \in Depths, persist \in BOOLEAN : SetPreferredColorDepth(c, d, persist)
                 \/ \E d \in Depths : SetVideoPortColorDepth(c, d)
          PROVE  UNCHANGED hal
      BY <3>4 DEF GetVideoPortResolution, SetForceDisable4K, SetPreferredColorDepth,
         SetVideoPortColorDepth, resolution
    <3>5. ASSUME NEW c \in Callers, NEW q \in Ports, NEW persist \in BOOLEAN, NEW force \in BOOLEAN,
                 NEW n \in NamesOf(q), SetVideoPortResolution(c, q, n, persist, force)
          PROVE  UNCHANGED hal
      BY <3>5 DEF SetVideoPortResolution, resolution
    <3> QED BY <1>1, <3>1, <3>2, <3>3, <3>4, <3>5 DEF Next
  <2> QED BY <2>1, <2>2, <2>3
<1>2. ResInv /\ [Next]_vars =>
        [blocked = "yes" /\ blocked' = "yes" /\ ~overlap
           => \A p \in Ports : hal'[p] = "2160p" => hal[p] = "2160p"]_vars
  BY <1>1
<1> QED BY ResInit, ResStep, <1>2, PTL DEF Spec, No4KWhileBlocked

-----------------------------------------------------------------------------
(* The settings of the audio ports.                                        *)

\* What a call can be about to do, and of which settings.
CallOk(c) ==
  LET r == setCall[c] IN
  /\ r = AsIdle <=> r.stage = "idle"
  /\ r.stage \in {"idle", "persist", "hal", "le", "profile", "apply", "halApply", "persistApply"}
  /\ r.stage # "idle" => r.port \in AudioPorts /\ r.value # Unset
  /\ r.stage = "persist" => r.ok \in BOOLEAN
  /\ r.stage = "hal" => r.then \in {"return", "persist"} /\ (r.then = "return" => setting \in {"Delay", "LE"})
  /\ r.stage = "le" => setting = "LE"
  /\ r.stage = "profile" => r.value \in Profiles \cup {"Off"}
  /\ r.stage \in {"profile", "apply", "halApply", "persistApply"} => setting \in PerProfile \cup {"Bass"}
  /\ r.stage \in {"halApply", "persistApply"} => r.key \in Keys /\ r.key # ProfileKey
  /\ setting = "MS12Profile" /\ r.stage # "idle" =>
       r.stage = "persist" /\ r.value \in Profiles \cup {"Off"}

\* What the variables are.
AsTypes ==
  /\ setting \in Settings /\ supported \in BOOLEAN /\ override \in BOOLEAN
  /\ up \in BOOLEAN /\ fresh \in BOOLEAN /\ setOverlap \in BOOLEAN
  /\ DOMAIN halValue = AudioPorts /\ DOMAIN valueStore = Keys /\ DOMAIN asked = Keys
  /\ valueStore[ProfileKey] \in Profiles \cup {"Off", Unset}
AsCallsOk == DOMAIN setCall = SettingCallers /\ \A c \in SettingCallers : CallOk(c)
\* A call that nobody overlaps is alone.
AsAlone ==
  ~setOverlap =>
    \A c, d \in SettingCallers : setCall[c].stage # "idle" /\ setCall[d].stage # "idle" => c = d
\* No call is under way without the adapter, or before the first since its
\* start.
AsNobody ==
  /\ ~up => told = {}
  /\ ~up \/ fresh => \A c \in SettingCallers : setCall[c].stage = "idle"
\* What a call has done so far is still there if nobody overlaps it.
CallHolds(c) ==
  LET r == setCall[c] IN
  ~setOverlap =>
    /\ r.stage = "persist" /\ r.ok => halValue[r.port] = r.value
    /\ r.stage = "hal" /\ r.then = "return" => r.value = StoredOr(Key(r.port), Default)
    /\ r.stage = "hal" /\ setting = "LE" => valueStore[Key(r.port)] = r.value
    /\ r.stage \in {"halApply", "persistApply"} => r.key = Key(r.port)
    /\ r.stage = "persistApply" => halValue[r.port] = r.value
AsCallsHold == \A c \in SettingCallers : CallHolds(c)
\* What is persisted is a value of one of the last calls, or the default.
Initially == IF setting = "MS12Profile" THEN "Off" ELSE Default
AskedFor(k) ==
  /\ asked[k] = {} => valueStore[k] \in {Unset, Initially}
  /\ asked[k] # {} => valueStore[k] \in asked[k] /\ valueStore[k] # Unset
AsAsked == \A k \in Keys : (k = ProfileKey => setting = "MS12Profile") => AskedFor(k)
\* A value a completed call has given to the HAL is the persisted one, or a
\* call that forgets it is under way.
UnderWay(p) ==
  \E c \in SettingCallers : setCall[c].stage # "idle" /\ (setting \in PerPort => setCall[c].port = p)
AsTold ==
  setting \notin Volatile =>
    /\ told \subseteq AudioPorts
    /\ \A p \in told : UnderWay(p) \/ halValue[p] = StoredOr(Key(p), Default)
    /\ setting = "MS12Profile" /\ told # {} => asked[ProfileKey] # {}
AsInv ==
  /\ AsTypes /\ AsCallsOk /\ AsAlone /\ AsNobody /\ AsCallsHold /\ AsAsked /\ AsTold
  /\ RestartRestores

\* The settings a port can have, as strings.
LEMMA KeyOfPort ==
  ASSUME AsTypes, NEW p \in AudioPorts
  PROVE  /\ Subject(p) = Key(p) /\ Key(p) \in Keys /\ ProfileKey \in Keys
         /\ Key(p) = ProfileKey <=> setting = "MS12Profile"
<1>1. CurrentProfile \in Profiles \cup {"Off"}
  BY DEF AsTypes, CurrentProfile
<1>2. Subject(p) = Key(p)
  BY DEF Subject, Key, getCurrentProfileProperty, generateProfileProperty, PerPort, PerProfile
<1>3. /\ <<setting, "audio">> \in Keys /\ ProfileKey \in Keys
      /\ \A x \in AudioPorts \cup Profiles \cup {"Off"} : <<setting, x>> \in Keys
  BY DEF Keys
<1>4. Key(p) \in Keys
  BY <1>1, <1>3 DEF Key, getCurrentProfileProperty, generateProfileProperty
<1>5. Key(p) = ProfileKey <=> setting = "MS12Profile"
  BY DEF Key, getCurrentProfileProperty, generateProfileProperty, ProfileKey, PerPort, PerProfile
<1> QED BY <1>2, <1>3, <1>4, <1>5

\* A port has a key of its own, or shares it with all others.
LEMMA KeysOfPorts ==
  ASSUME NEW p \in AudioPorts, NEW q \in AudioPorts
  PROVE  /\ setting \in PerPort /\ p # q => Key(p) # Key(q)
         /\ setting \notin PerPort => Key(p) = Key(q)
BY DEF Key, getCurrentProfileProperty, generateProfileProperty, PerPort, PerProfile

\* The key of a port changes with the MS12 profile only.
LEMMA KeyStays ==
  ASSUME setting' = setting, NEW p \in AudioPorts,
         CurrentProfile' = CurrentProfile \/ setting \notin PerProfile
  PROVE  Key(p)' = Key(p) /\ Subject(p)' = Subject(p)
BY DEF Key, Subject, getCurrentProfileProperty, generateProfileProperty

\* The setting fixes the ports and the keys.
LEMMA SamePlatform ==
  ASSUME setting' = setting
  PROVE  AudioPorts' = AudioPorts /\ Keys' = Keys /\ ProfileKey' = ProfileKey /\ Initially' = Initially
BY DEF AudioPorts, Keys, ProfileKey, Initially

\* A write to the key of a port leaves the profile, or is the profile.
LEMMA WritesStay ==
  ASSUME AsTypes, setting' = setting, NEW k \in Keys, NEW v,
         k = ProfileKey => setting \notin PerProfile,
         valueStore' = [valueStore EXCEPT ![k] = v], NEW p \in AudioPorts
  PROVE  Key(p)' = Key(p) /\ Subject(p)' = Subject(p)
<1>1. CASE k = ProfileKey
  BY <1>1, KeyStays
<1>2. CASE k # ProfileKey
  <2>1. ProfileKey \in Keys /\ ProfileKey' = ProfileKey
    BY DEF Keys, ProfileKey
  <2>2. valueStore'[ProfileKey] = valueStore[ProfileKey]
    BY <1>2, <2>1 DEF AsTypes
  <2>3. CurrentProfile' = CurrentProfile
    BY <2>1, <2>2 DEF CurrentProfile
  <2> QED BY <2>3, KeyStays
<1> QED BY <1>1, <1>2

\* A call begins idle; it is undisturbed only if everybody else is idle.
LEMMA AsBegins ==
  ASSUME AsInv, NEW c \in SettingCallers, AsBegin(c)
  PROVE  /\ setCall[c].stage = "idle" /\ up' = TRUE /\ up = TRUE /\ fresh' = FALSE /\ setOverlap' \in BOOLEAN
         /\ UNCHANGED platform
         /\ ~setOverlap' => \A d \in SettingCallers \ {c} : setCall[d].stage = "idle"
<1>1. /\ setCall[c] = AsIdle /\ up /\ up' = up /\ fresh' = FALSE /\ setOverlap' = AsOthers(c)
      /\ UNCHANGED platform
  BY DEF AsBegin
<1>2. AsOthers(c) \in BOOLEAN /\ (~AsOthers(c) => \A d \in SettingCallers \ {c} : setCall[d] = AsIdle)
  BY DEF AsOthers
<1>3. AsIdle.stage = "idle"
  BY DEF AsIdle
<1> QED BY <1>1, <1>2, <1>3 DEF AsInv, AsTypes

\* A call under way is of an adapter that is up.
LEMMA AsUp ==
  ASSUME AsInv, NEW c \in SettingCallers, setCall[c].stage # "idle"
  PROVE  /\ up = TRUE /\ fresh = FALSE
         /\ ~setOverlap => \A d \in SettingCallers \ {c} : setCall[d].stage = "idle"
<1>1. up = TRUE /\ fresh = FALSE
  BY DEF AsInv, AsNobody, AsTypes
<1>2. ~setOverlap => \A d \in SettingCallers \ {c} : setCall[d].stage = "idle"
  BY DEF AsInv, AsAlone
<1> QED BY <1>1, <1>2

\* A call that ends leaves overlapped calls overlapped.
LEMMA AsFinishes ==
  ASSUME AsInv, NEW c \in SettingCallers, setCall[c].stage # "idle",
         NEW p \in AudioPorts, NEW ok \in BOOLEAN, AsFinish(c, p, ok)
  PROVE  /\ DOMAIN setCall' = SettingCallers /\ setCall'[c] = AsIdle /\ setCall'[c].stage = "idle"
         /\ \A d \in SettingCallers \ {c} : setCall'[d] = setCall[d]
         /\ setOverlap' \in BOOLEAN
         /\ ~setOverlap' => \A d \in SettingCallers \ {c} : setCall[d].stage = "idle"
         /\ \A q \in told' : q = p \/ (setting \in PerPort /\ q \in told)
         /\ p \in told' => ok /\ ~setOverlap
<1>1. /\ setCall' = [setCall EXCEPT ![c] = AsIdle]
      /\ setOverlap' = (setOverlap /\ AsOthers(c))
      /\ told' = (IF setting \in PerPort THEN told \ {p} ELSE {})
                 \cup (IF ok /\ ~setOverlap THEN {p} ELSE {})
  BY DEF AsFinish
<1>2. AsOthers(c) \in BOOLEAN /\ (~AsOthers(c) => \A d \in SettingCallers \ {c} : setCall[d] = AsIdle)
  BY DEF AsOthers
<1>3. AsIdle.stage = "idle"
  BY DEF AsIdle
<1>4. setOverlap \in BOOLEAN /\ DOMAIN setCall = SettingCallers
  BY DEF AsInv, AsTypes, AsCallsOk
<1>5. /\ DOMAIN setCall' = SettingCallers /\ setCall'[c] = AsIdle /\ setCall'[c].stage = "idle"
      /\ \A d \in SettingCallers \ {c} : setCall'[d] = setCall[d]
  BY <1>1, <1>3, <1>4
<1>6. ~setOverlap' => \A d \in SettingCallers \ {c} : setCall[d].stage = "idle"
  BY <1>1, <1>2, <1>3, <1>4, AsUp
<1>7. /\ \A q \in told' : q = p \/ (setting \in PerPort /\ q \in told)
      /\ p \in told' => ok /\ ~setOverlap
  BY <1>1
<1> QED BY <1>1, <1>2, <1>4, <1>5, <1>6, <1>7

\* The other calls are where they were, idle or overlapped.
LEMMA AsOthersHold ==
  ASSUME AsInv, NEW c \in SettingCallers, UNCHANGED platform, up' = TRUE, fresh' = FALSE,
         AsTypes', DOMAIN setCall' = SettingCallers,
         \A d \in SettingCallers \ {c} : setCall'[d] = setCall[d],
         ~setOverlap' => \A d \in SettingCallers \ {c} : setCall[d].stage = "idle",
         CallOk(c)', CallHolds(c)', AsAsked', AsTold'
  PROVE  AsInv'
<1>1. setting' = setting /\ AudioPorts' = AudioPorts /\ Keys' = Keys /\ ProfileKey' = ProfileKey
  BY SamePlatform DEF platform
<1>2. \A d \in SettingCallers \ {c} : CallOk(d)'
  <2> SUFFICES ASSUME NEW d \in SettingCallers \ {c} PROVE CallOk(d)'
    OBVIOUS
  <2>1. CallOk(d) /\ setCall'[d] = setCall[d] /\ AsIdle' = AsIdle
    BY DEF AsInv, AsCallsOk, AsIdle
  <2> QED BY <1>1, <2>1 DEF CallOk
<1>3. AsCallsOk'
  BY <1>2 DEF AsCallsOk
<1>4. AsAlone'
  BY DEF AsAlone
<1>5. AsNobody'
  BY DEF AsNobody
<1>6. AsCallsHold'
  <2> SUFFICES ASSUME NEW d \in SettingCallers \ {c}, ~setOverlap' PROVE CallHolds(d)'
    BY DEF AsCallsHold, CallHolds
  <2>1. setCall'[d].stage = "idle"
    OBVIOUS
  <2> QED BY <2>1 DEF CallHolds
<1>7. RestartRestores'
  BY DEF RestartRestores
<1> QED BY <1>3, <1>4, <1>5, <1>6, <1>7 DEF AsInv

\* What clients were told stays true, or their port is under way: a call
\* begins or goes on.
LEMMA ToldGoesOn ==
  ASSUME AsInv, NEW c \in SettingCallers, setting' = setting, NEW p \in AudioPorts,
         setCall[c].stage = "idle" \/ setCall[c].port = p,
         setCall'[c].stage # "idle", setCall'[c].port = p,
         \A d \in SettingCallers \ {c} : setCall'[d] = setCall[d],
         told' \subseteq told,
         \A q \in AudioPorts : setting \in PerPort /\ q # p =>
           halValue'[q] = halValue[q] /\ valueStore'[Key(q)] = valueStore[Key(q)],
         setting = "MS12Profile" => asked' = asked
  PROVE  AsTold'
<1> SUFFICES ASSUME setting \notin Volatile
             PROVE  /\ told' \subseteq AudioPorts
                    /\ \A q \in told' : UnderWay(q)' \/ halValue'[q] = StoredOr(Key(q), Default)'
                    /\ setting = "MS12Profile" /\ told' # {} => asked'[ProfileKey] # {}
  BY SamePlatform DEF AsTold
<1>1. /\ told \subseteq AudioPorts
      /\ \A q \in told : UnderWay(q) \/ halValue[q] = StoredOr(Key(q), Default)
      /\ setting = "MS12Profile" /\ told # {} => asked[ProfileKey] # {}
  BY DEF AsInv, AsTold
<1>2. ASSUME NEW q \in told'
      PROVE  UnderWay(q)' \/ halValue'[q] = StoredOr(Key(q), Default)'
  <2>0. q \in told /\ q \in AudioPorts
    BY <1>1
  <2>1. CASE setting \notin PerPort \/ q = p
    BY <2>1 DEF UnderWay
  <2>2. CASE setting \in PerPort /\ q # p
    <3>1. Key(q)' = Key(q)
      BY <2>0, <2>2, KeyStays DEF PerPort, PerProfile
    <3>2. CASE UnderWay(q)
      <4>1. PICK d \in SettingCallers : setCall[d].stage # "idle" /\ setCall[d].port = q
        BY <2>2, <3>2 DEF UnderWay
      <4>2. d # c
        BY <2>2, <4>1
      <4> QED BY <4>1, <4>2 DEF UnderWay
    <3>3. CASE halValue[q] = StoredOr(Key(q), Default)
      BY <2>0, <2>2, <3>1, <3>3 DEF StoredOr
    <3> QED BY <1>1, <2>0, <3>2, <3>3
  <2> QED BY <2>1, <2>2
<1> QED BY <1>1, <1>2

\* ... or a call ends.
LEMMA ToldAtTheEnd ==
  ASSUME AsInv, NEW c \in SettingCallers, setting' = setting, NEW p \in AudioPorts, NEW ok \in BOOLEAN,
         setCall[c].stage # "idle", setCall[c].port = p, AsFinish(c, p, ok),
         ok /\ ~setOverlap /\ setting \notin Volatile => halValue'[p] = StoredOr(Key(p), Default)',
         \A q \in AudioPorts : setting \in PerPort /\ q # p =>
           halValue'[q] = halValue[q] /\ valueStore'[Key(q)] = valueStore[Key(q)],
         setting = "MS12Profile" /\ ok => asked'[ProfileKey] # {}
  PROVE  AsTold'
<1>0. /\ \A d \in SettingCallers \ {c} : setCall'[d] = setCall[d]
      /\ \A q \in told' : q = p \/ (setting \in PerPort /\ q \in told)
      /\ p \in told' => ok /\ ~setOverlap
  BY AsFinishes
<1> SUFFICES ASSUME setting \notin Volatile
             PROVE  /\ told' \subseteq AudioPorts
                    /\ \A q \in told' : UnderWay(q)' \/ halValue'[q] = StoredOr(Key(q), Default)'
                    /\ setting = "MS12Profile" /\ told' # {} => asked'[ProfileKey] # {}
  BY SamePlatform DEF AsTold
<1>1. /\ told \subseteq AudioPorts
      /\ \A q \in told : UnderWay(q) \/ halValue[q] = StoredOr(Key(q), Default)
  BY DEF AsInv, AsTold
<1>2. ASSUME NEW q \in told'
      PROVE  UnderWay(q)' \/ halValue'[q] = StoredOr(Key(q), Default)'
  <2>1. CASE q = p
    BY <1>0, <2>1
  <2>2. CASE q # p
    <3>0. setting \in PerPort /\ q \in told /\ q \in AudioPorts
      BY <1>0, <1>1, <2>2
    <3>1. Key(q)' = Key(q)
      BY <3>0, KeyStays DEF PerPort, PerProfile
    <3>2. CASE UnderWay(q)
      <4>1. PICK d \in SettingCallers : setCall[d].stage # "idle" /\ setCall[d].port = q
        BY <3>0, <3>2 DEF UnderWay
      <4>2. d # c
        BY <2>2, <4>1
      <4>3. setCall'[d] = setCall[d]
        BY <1>0, <4>2
      <4> QED BY <4>1, <4>3 DEF UnderWay
    <3>3. CASE halValue[q] = StoredOr(Key(q), Default)
      BY <2>2, <3>0, <3>1, <3>3 DEF StoredOr
    <3> QED BY <1>1, <3>0, <3>2, <3>3
  <2> QED BY <2>1, <2>2
<1>3. told' \subseteq AudioPorts
  BY <1>0, <1>1
<1>4. setting = "MS12Profile" /\ told' # {} => asked'[ProfileKey] # {}
  BY <1>0 DEF PerPort
<1> QED BY <1>2, <1>3, <1>4

\* What is persisted was asked for: a property gets the value of a call.
LEMMA AskedWrites ==
  ASSUME AsInv, setting' = setting, NEW k \in Keys, NEW v, v # Unset, NEW A, v \in A,
         valueStore' = [valueStore EXCEPT ![k] = v], asked' = [asked EXCEPT ![k] = A]
  PROVE  AsAsked'
<1>1. DOMAIN valueStore = Keys /\ DOMAIN asked = Keys /\ Keys' = Keys /\ ProfileKey' = ProfileKey
      /\ Initially' = Initially
  BY SamePlatform DEF AsInv, AsTypes
<1> SUFFICES ASSUME NEW j \in Keys, j = ProfileKey => setting = "MS12Profile"
             PROVE  AskedFor(j)'
  BY <1>1 DEF AsAsked
<1>2. CASE j = k
  BY <1>1, <1>2 DEF AskedFor
<1>3. CASE j # k
  <2>1. AskedFor(j)
    BY DEF AsInv, AsAsked
  <2> QED BY <1>1, <1>3, <2>1 DEF AskedFor
<1> QED BY <1>2, <1>3

\* ... or nothing is persisted.
LEMMA AskedStays ==
  ASSUME AsInv, setting' = setting, UNCHANGED <<valueStore, asked>>
  PROVE  AsAsked'
<1>1. Keys' = Keys /\ ProfileKey' = ProfileKey /\ Initially' = Initially
  BY SamePlatform
<1> SUFFICES ASSUME NEW j \in Keys, j = ProfileKey => setting = "MS12Profile"
             PROVE  AskedFor(j)'
  BY <1>1 DEF AsAsked
<1>2. AskedFor(j)
  BY DEF AsInv, AsAsked
<1> QED BY <1>1, <1>2 DEF AskedFor

\* The types survive what a call may change.
LEMMA AsTypesStay ==
  ASSUME AsTypes, UNCHANGED platform, up' = TRUE, fresh' = FALSE, setOverlap' \in BOOLEAN,
         DOMAIN halValue' = AudioPorts, DOMAIN valueStore' = Keys, DOMAIN asked' = Keys,
         valueStore'[ProfileKey] \in Profiles \cup {"Off", Unset}
  PROVE  AsTypes'
BY SamePlatform DEF AsTypes, platform

\* A call that is not over after its first step: it has changed nothing but
\* the HAL, at its port or as the profile's own reset.
LEMMA AsStarts ==
  ASSUME AsInv, NEW c \in SettingCallers, NEW p \in AudioPorts, AsBegin(c), NEW r,
         setCall' = [setCall EXCEPT ![c] = r], r.stage # "idle", r.port = p,
         CallOk(c)', CallHolds(c)', told' \subseteq told, DOMAIN halValue' = AudioPorts,
         \A q \in AudioPorts : setting \in PerPort /\ q # p => halValue'[q] = halValue[q],
         UNCHANGED <<valueStore, asked>>
  PROVE  AsInv'
<1>1. /\ setCall[c].stage = "idle" /\ up' = TRUE /\ fresh' = FALSE /\ setOverlap' \in BOOLEAN
      /\ UNCHANGED platform /\ setting' = setting
      /\ ~setOverlap' => \A d \in SettingCallers \ {c} : setCall[d].stage = "idle"
  BY AsBegins DEF platform
<1>2. /\ DOMAIN setCall' = SettingCallers /\ setCall'[c] = r
      /\ \A d \in SettingCallers \ {c} : setCall'[d] = setCall[d]
  BY DEF AsInv, AsCallsOk
<1>3. AsTypes'
  BY <1>1, AsTypesStay DEF AsInv, AsTypes
<1>4. AsAsked'
  BY <1>1, AskedStays
<1>5. AsTold'
  BY <1>1, <1>2, ToldGoesOn
<1> QED BY <1>1, <1>2, <1>3, <1>4, <1>5, AsOthersHold

\* A call of one step leaves the others as they are.
LEMMA AsAtOnce ==
  ASSUME AsInv, NEW c \in SettingCallers, AsBegin(c), UNCHANGED setCall, AsTypes', AsAsked', AsTold'
  PROVE  AsInv'
<1>1. /\ setCall[c].stage = "idle" /\ up' = TRUE /\ fresh' = FALSE
      /\ UNCHANGED platform /\ setting' = setting
      /\ ~setOverlap' => \A d \in SettingCallers \ {c} : setCall[d].stage = "idle"
  BY AsBegins DEF platform
<1>2. /\ DOMAIN setCall' = SettingCallers /\ setCall'[c] = setCall[c]
      /\ \A d \in SettingCallers \ {c} : setCall'[d] = setCall[d]
  BY DEF AsInv, AsCallsOk
<1>3. CallOk(c)'
  <2>1. CallOk(c) /\ AsIdle' = AsIdle
    BY DEF AsInv, AsCallsOk, AsIdle
  <2> QED BY <1>1, <1>2, <2>1, SamePlatform DEF CallOk
<1>4. CallHolds(c)'
  BY <1>1, <1>2 DEF CallHolds
<1> QED BY <1>1, <1>2, <1>3, <1>4, AsOthersHold

\* What clients were told is not touched by a call of one step.
LEMMA ToldStays ==
  ASSUME AsInv, setting' = setting, UNCHANGED <<halValue, setCall>>, told' \subseteq told,
         \A q \in told' \cap AudioPorts : Key(q)' = Key(q) /\ valueStore'[Key(q)] = valueStore[Key(q)],
         setting = "MS12Profile" => asked' = asked
  PROVE  AsTold'
<1> SUFFICES ASSUME setting \notin Volatile
             PROVE  /\ told' \subseteq AudioPorts
                    /\ \A q \in told' : UnderWay(q)' \/ halValue'[q] = StoredOr(Key(q), Default)'
                    /\ setting = "MS12Profile" /\ told' # {} => asked'[ProfileKey] # {}
  BY SamePlatform DEF AsTold
<1>1. /\ told \subseteq AudioPorts
      /\ \A q \in told : UnderWay(q) \/ halValue[q] = StoredOr(Key(q), Default)
      /\ setting = "MS12Profile" /\ told # {} => asked[ProfileKey] # {}
  BY DEF AsInv, AsTold
<1>2. ASSUME NEW q \in told'
      PROVE  UnderWay(q)' \/ halValue'[q] = StoredOr(Key(q), Default)'
  <2>1. q \in told /\ Key(q)' = Key(q) /\ valueStore'[Key(q)] = valueStore[Key(q)]
    BY <1>1
  <2>2. UnderWay(q)' <=> UnderWay(q)
    BY DEF UnderWay
  <2> QED BY <1>1, <2>1, <2>2 DEF StoredOr
<1> QED BY <1>1, <1>2

\* The common setter, whose HAL call succeeds or fails.
LEMMA AsCallHal ==
  ASSUME AsInv, NEW c \in SettingCallers, NEW p \in AudioPorts, NEW v, v # Unset,
         setting = "MS12Profile" => v \in Profiles \cup {"Off"}, CallHal(c, p, v)
  PROVE  AsInv'
<1>0. AsBegin(c) /\ UNCHANGED <<valueStore, asked, told>>
  BY DEF CallHal
<1>p. /\ UNCHANGED platform /\ setting' = setting /\ up' = TRUE /\ fresh' = FALSE /\ setOverlap' \in BOOLEAN
      /\ AudioPorts' = AudioPorts /\ AsIdle' = AsIdle
  BY <1>0, AsBegins, SamePlatform DEF platform, AsIdle
<1>1. CASE /\ halValue' = [halValue EXCEPT ![p] = v]
           /\ setCall' = [setCall EXCEPT ![c] = [stage |-> "persist", port |-> p, value |-> v, ok |-> TRUE]]
  <2>1. PICK r : r = [stage |-> "persist", port |-> p, value |-> v, ok |-> TRUE]
    OBVIOUS
  <2>2. /\ r.stage = "persist" /\ r.port = p /\ r.value = v /\ r.ok \in BOOLEAN /\ r # AsIdle
        /\ setCall' = [setCall EXCEPT ![c] = r]
    BY <1>1, <2>1 DEF AsIdle
  <2>3. setCall'[c] = r
    BY <2>2 DEF AsInv, AsCallsOk
  <2>4. CallOk(c)'
    BY <1>p, <2>2, <2>3 DEF CallOk
  <2>5. DOMAIN halValue' = AudioPorts /\ halValue'[p] = v /\ \A q \in AudioPorts : q # p => halValue'[q] = halValue[q]
    BY <1>1 DEF AsInv, AsTypes
  <2>6. CallHolds(c)'
    BY <2>2, <2>3, <2>5 DEF CallHolds
  <2> QED BY <1>0, <2>2, <2>4, <2>5, <2>6, AsStarts
<1>2. CASE UNCHANGED <<halValue, setCall>>
  <2>1. AsTypes'
    BY <1>0, <1>2, <1>p, AsTypesStay DEF AsInv, AsTypes
  <2>2. AsAsked'
    BY <1>0, <1>p, AskedStays
  <2>3. CurrentProfile' = CurrentProfile
    BY <1>0 DEF CurrentProfile, ProfileKey
  <2>4. AsTold'
    BY <1>0, <1>p, <1>2, <2>3, KeyStays, ToldStays
  <2> QED BY <1>0, <1>2, <2>1, <2>2, <2>4, AsAtOnce
<1> QED BY <1>1, <1>2 DEF CallHal

\* The setters without a property.
LEMMA AsCallHalOnly ==
  ASSUME AsInv, NEW c \in SettingCallers, NEW p \in AudioPorts, NEW v, setting \in Volatile, CallHalOnly(c, p, v)
  PROVE  AsInv'
<1>0. /\ AsBegin(c) /\ UNCHANGED <<valueStore, asked, setCall>>
      /\ halValue' = halValue \/ halValue' = [halValue EXCEPT ![p] = v]
  BY DEF CallHalOnly
<1>p. /\ UNCHANGED platform /\ setting' = setting /\ up' = TRUE /\ fresh' = FALSE /\ setOverlap' \in BOOLEAN
  BY <1>0, AsBegins DEF platform
<1>1. AsTypes'
  BY <1>0, <1>p, AsTypesStay DEF AsInv, AsTypes
<1>2. AsAsked'
  BY <1>0, <1>p, AskedStays
<1>3. AsTold'
  BY <1>p DEF AsTold
<1> QED BY <1>0, <1>1, <1>2, <1>3, AsAtOnce

\* The delay is persisted whatever the HAL answered.
LEMMA AsSetAudioDelay ==
  ASSUME AsInv, NEW c \in SettingCallers, NEW p \in AudioPorts, NEW v, v # Unset, SetAudioDelay(c, p, v)
  PROVE  AsInv'
<1>0. AsBegin(c) /\ UNCHANGED <<valueStore, asked, told>> /\ setting = "Delay"
  BY DEF SetAudioDelay
<1>p. setting' = setting /\ AudioPorts' = AudioPorts /\ AsIdle' = AsIdle
  BY <1>0, AsBegins, SamePlatform DEF platform, AsIdle
<1>1. PICK ok \in BOOLEAN :
        /\ halValue' = IF ok THEN [halValue EXCEPT ![p] = v] ELSE halValue
        /\ setCall' = [setCall EXCEPT ![c] = [stage |-> "persist", port |-> p, value |-> v, ok |-> ok]]
  BY DEF SetAudioDelay
<1>2. PICK r : r = [stage |-> "persist", port |-> p, value |-> v, ok |-> ok]
  OBVIOUS
<1>3. /\ r.stage = "persist" /\ r.port = p /\ r.value = v /\ r.ok = ok /\ r # AsIdle
      /\ setCall' = [setCall EXCEPT ![c] = r]
  BY <1>1, <1>2 DEF AsIdle
<1>4. setCall'[c] = r
  BY <1>3 DEF AsInv, AsCallsOk
<1>5. CallOk(c)'
  BY <1>0, <1>p, <1>3, <1>4 DEF CallOk
<1>6. /\ DOMAIN halValue' = AudioPorts
      /\ ok => halValue'[p] = v
      /\ \A q \in AudioPorts : q # p => halValue'[q] = halValue[q]
  BY <1>1 DEF AsInv, AsTypes
<1>7. CallHolds(c)'
  BY <1>3, <1>4, <1>6 DEF CallHolds
<1> QED BY <1>0, <1>3, <1>5, <1>6, <1>7, AsStarts

\* Enabling a port reads the delay persisted for it.
LEMMA AsEnableAudioPort ==
  ASSUME AsInv, NEW c \in SettingCallers, NEW p \in AudioPorts, NEW enable \in BOOLEAN,
         EnableAudioPort(c, p, enable)
  PROVE  AsInv'
<1>0. AsBegin(c) /\ UNCHANGED <<halValue, valueStore, asked, told>> /\ setting = "Delay"
  BY DEF EnableAudioPort
<1>p. /\ UNCHANGED platform /\ setting' = setting /\ up' = TRUE /\ fresh' = FALSE /\ setOverlap' \in BOOLEAN
      /\ AudioPorts' = AudioPorts /\ AsIdle' = AsIdle
  BY <1>0, AsBegins, SamePlatform DEF platform, AsIdle
<1>k. Key(p) = <<"Delay", p>> /\ Key(p)' = Key(p)
  BY <1>0, <1>p DEF Key, PerPort, PerProfile
<1>1. CASE enable
  <2>1. PICK r : r = [stage |-> "hal", port |-> p, value |-> getAudioDelayInternal(p), then |-> "return"]
    OBVIOUS
  <2>2. /\ r.stage = "hal" /\ r.port = p /\ r.value = getAudioDelayInternal(p) /\ r.then = "return" /\ r # AsIdle
        /\ setCall' = [setCall EXCEPT ![c] = r]
    BY <1>1, <2>1 DEF EnableAudioPort, AsIdle
  <2>3. setCall'[c] = r
    BY <2>2 DEF AsInv, AsCallsOk
  <2>4. r.value = StoredOr(Key(p), Default) /\ r.value # Unset
    BY <1>k, <2>2 DEF getAudioDelayInternal, StoredOr, Default, Unset
  <2>5. CallOk(c)'
    BY <1>0, <1>p, <2>2, <2>3, <2>4 DEF CallOk
  <2>6. CallHolds(c)'
    BY <1>0, <1>k, <1>p, <2>2, <2>3, <2>4 DEF CallHolds, StoredOr
  <2>7. DOMAIN halValue' = AudioPorts
    BY <1>0 DEF AsInv, AsTypes
  <2> QED BY <1>0, <2>2, <2>5, <2>6, <2>7, AsStarts
<1>2. CASE ~enable
  <2>0. UNCHANGED setCall
    BY <1>2 DEF EnableAudioPort
  <2>1. AsTypes'
    BY <1>0, <1>p, AsTypesStay DEF AsInv, AsTypes
  <2>2. AsAsked'
    BY <1>0, <1>p, AskedStays
  <2>3. AsTold'
    BY <1>0, <1>p, <2>0, KeyStays, ToldStays DEF PerProfile
  <2> QED BY <1>0, <2>0, <2>1, <2>2, <2>3, AsAtOnce
<1> QED BY <1>1, <1>2

\* Loudness equivalence: the flag first.
LEMMA AsEnableAudioLEConfig ==
  ASSUME AsInv, NEW c \in SettingCallers, NEW p \in AudioPorts, NEW v, v # Unset, EnableAudioLEConfig(c, p, v)
  PROVE  AsInv'
<1>0. /\ AsBegin(c) /\ UNCHANGED <<halValue, valueStore, asked, told>> /\ setting = "LE"
      /\ setCall' = [setCall EXCEPT ![c] = [stage |-> "le", port |-> p, value |-> v]]
  BY DEF EnableAudioLEConfig
<1>p. setting' = setting /\ AudioPorts' = AudioPorts /\ AsIdle' = AsIdle
  BY <1>0, AsBegins, SamePlatform DEF platform, AsIdle
<1>2. PICK r : r = [stage |-> "le", port |-> p, value |-> v]
  OBVIOUS
<1>3. /\ r.stage = "le" /\ r.port = p /\ r.value = v /\ r # AsIdle
      /\ setCall' = [setCall EXCEPT ![c] = r]
  BY <1>0, <1>2 DEF AsIdle
<1>4. setCall'[c] = r
  BY <1>3 DEF AsInv, AsCallsOk
<1>5. CallOk(c)'
  BY <1>0, <1>p, <1>3, <1>4 DEF CallOk
<1>6. DOMAIN halValue' = AudioPorts
  BY <1>0 DEF AsInv, AsTypes
<1>7. CallHolds(c)'
  BY <1>3, <1>4 DEF CallHolds
<1> QED BY <1>0, <1>3, <1>5, <1>6, <1>7, AsStarts

\* A profile is chosen while another setting is studied: the HAL may reset it.
LEMMA AsChooseProfile ==
  ASSUME AsInv, NEW c \in SettingCallers, NEW p \in AudioPorts, NEW q \in Profiles \cup {"Off"},
         SetAudioMS12Profile(c, p, q)
  PROVE  AsInv'
<1>u. q # Unset
  BY ValuesAssumption DEF Unset
<1>a. CASE setting = "MS12Profile" /\ CallHal(c, p, q)
  BY <1>a, <1>u, AsCallHal
<1>b. CASE /\ setting \in PerProfile \cup {"Bass"} /\ AsBegin(c)
           /\ halValue' \in {halValue, [x \in AudioPorts |-> Default]}
           /\ setCall' = [setCall EXCEPT ![c] = [stage |-> "profile", port |-> p, value |-> q]]
           /\ told' = {}
           /\ UNCHANGED <<valueStore, enabled, le, asked>>
  <2>p. setting' = setting /\ AudioPorts' = AudioPorts /\ AsIdle' = AsIdle
    BY <1>b, AsBegins, SamePlatform DEF platform, AsIdle
  <2>2. PICK r : r = [stage |-> "profile", port |-> p, value |-> q]
    OBVIOUS
  <2>3. /\ r.stage = "profile" /\ r.port = p /\ r.value = q /\ r # AsIdle
        /\ setCall' = [setCall EXCEPT ![c] = r]
    BY <1>b, <2>2 DEF AsIdle
  <2>4. setCall'[c] = r
    BY <2>3 DEF AsInv, AsCallsOk
  <2>5. setting \notin PerPort /\ setting # "MS12Profile"
    BY <1>b DEF PerProfile, PerPort
  <2>6. CallOk(c)'
    BY <1>b, <1>u, <2>p, <2>3, <2>4, <2>5 DEF CallOk
  <2>7. DOMAIN halValue' = AudioPorts
    BY <1>b DEF AsInv, AsTypes
  <2>8. CallHolds(c)'
    BY <2>3, <2>4 DEF CallHolds
  <2> QED BY <1>b, <2>3, <2>5, <2>6, <2>7, <2>8, AsStarts
<1> QED BY <1>a, <1>b DEF SetAudioMS12Profile

\* An override for a profile: what it persists is what was asked for.
LEMMA AsSetOverride ==
  ASSUME AsInv, NEW c \in SettingCallers, NEW p \in AudioPorts, NEW q \in Profiles \cup {"Off"},
         NEW v, v # Unset, SetAudioMS12SettingsOverride(c, p, q, v)
  PROVE  AsInv'
<1>0. AsBegin(c) /\ UNCHANGED halValue /\ setting \in PerProfile \cup {"Bass"}
  BY DEF SetAudioMS12SettingsOverride, OverrideActive, OverrideInactive
<1>p. /\ UNCHANGED platform /\ setting' = setting /\ up' = TRUE /\ fresh' = FALSE /\ setOverlap' \in BOOLEAN
      /\ AudioPorts' = AudioPorts /\ AsIdle' = AsIdle
  BY <1>0, AsBegins, SamePlatform DEF platform, AsIdle
<1>s. setting \notin PerPort /\ setting # "MS12Profile"
  BY <1>0 DEF PerProfile, PerPort
<1>d. DOMAIN halValue' = AudioPorts /\ DOMAIN valueStore = Keys /\ DOMAIN asked = Keys /\ ProfileKey \in Keys
  BY <1>0 DEF AsInv, AsTypes, Keys
<1>k. Subject(p) = Key(p) /\ Key(p) \in Keys /\ Key(p) # ProfileKey
  BY <1>s, KeyOfPort DEF AsInv
<1>1. ASSUME setCall' = [setCall EXCEPT ![c] = [stage |-> "hal", port |-> p, value |-> v, then |-> "persist"]],
             UNCHANGED <<valueStore, asked, told>>
      PROVE  AsInv'
  <2>2. PICK r : r = [stage |-> "hal", port |-> p, value |-> v, then |-> "persist"]
    OBVIOUS
  <2>3. /\ r.stage = "hal" /\ r.port = p /\ r.value = v /\ r.then = "persist" /\ r # AsIdle
        /\ setCall' = [setCall EXCEPT ![c] = r]
    BY <1>1, <2>2 DEF AsIdle
  <2>4. setCall'[c] = r
    BY <2>3 DEF AsInv, AsCallsOk
  <2>5. CallOk(c)'
    BY <1>p, <1>s, <2>3, <2>4 DEF CallOk
  <2>6. CallHolds(c)'
    BY <1>0, <1>p, <2>3, <2>4 DEF CallHolds, PerProfile
  <2> QED BY <1>0, <1>1, <1>d, <2>3, <2>5, <2>6, AsStarts
<1>2. ASSUME NEW k \in Keys, k # ProfileKey, NEW A, v \in A, UNCHANGED setCall,
             valueStore' = [valueStore EXCEPT ![k] = v], asked' = [asked EXCEPT ![k] = A],
             told' = {} \/ (told' = told /\ \A x \in AudioPorts : Key(x) # k)
      PROVE  AsInv'
  <2>1. AsAsked'
    BY <1>2, <1>p, AskedWrites
  <2>2. valueStore'[ProfileKey] = valueStore[ProfileKey] /\ DOMAIN valueStore' = Keys /\ DOMAIN asked' = Keys
    BY <1>2, <1>d
  <2>3. AsTypes'
    BY <1>p, <1>d, <2>2, AsTypesStay DEF AsInv, AsTypes
  <2>4. \A x \in AudioPorts : Key(x)' = Key(x)
    BY <1>2, <1>p, WritesStay DEF AsInv
  <2>5. \A x \in AudioPorts : Key(x) \in Keys
    BY KeyOfPort DEF AsInv
  <2>6. \A x \in told' \cap AudioPorts : Key(x)' = Key(x) /\ valueStore'[Key(x)] = valueStore[Key(x)]
    BY <1>2, <1>d, <2>4, <2>5
  <2>7. AsTold'
    BY <1>0, <1>2, <1>p, <1>s, <2>6, ToldStays
  <2> QED BY <1>0, <1>2, <2>1, <2>3, <2>7, AsAtOnce
<1>3. CASE q = CurrentProfile
  <2>1. OverrideActive(c, p, v)
    BY <1>3 DEF SetAudioMS12SettingsOverride
  <2>2. CASE /\ valueStore' = [valueStore EXCEPT ![Key(p)] = v]
             /\ asked' = [asked EXCEPT ![Subject(p)] = IF AsOthers(c) THEN @ \cup {v} ELSE {v}]
             /\ told' = {}
             /\ UNCHANGED setCall
    <3>1. PICK A : A = IF AsOthers(c) THEN asked[Key(p)] \cup {v} ELSE {v}
      OBVIOUS
    <3>2. v \in A /\ asked' = [asked EXCEPT ![Key(p)] = A]
      BY <1>d, <1>k, <2>2, <3>1
    <3> QED BY <1>2, <1>k, <2>2, <3>2
  <2> QED BY <1>1, <2>1, <2>2 DEF OverrideActive
<1>4. CASE q # CurrentProfile
  <2>0. OverrideInactive(c, p, q, v)
    BY <1>4 DEF SetAudioMS12SettingsOverride
  <2>1. PICK k : k = IF setting = "Bass" THEN Key(p) ELSE generateProfileProperty(setting, q)
    OBVIOUS
  <2>2. /\ valueStore' = [valueStore EXCEPT ![k] = v]
        /\ asked' = [asked EXCEPT ![k] = IF AsOthers(c) THEN @ \cup {v} ELSE {v}]
        /\ told' = (IF setting = "Bass" THEN {} ELSE told)
        /\ UNCHANGED setCall
    BY <2>0, <2>1 DEF OverrideInactive
  <2>3. k \in Keys /\ k # ProfileKey
    BY <1>k, <1>s, <2>1 DEF generateProfileProperty, Keys, ProfileKey
  <2>4. setting # "Bass" => \A x \in AudioPorts : Key(x) # k
    BY <1>0, <1>4, <2>1 DEF generateProfileProperty, Key, getCurrentProfileProperty
  <2>5. PICK A : A = IF AsOthers(c) THEN asked[k] \cup {v} ELSE {v}
    OBVIOUS
  <2>6. v \in A /\ asked' = [asked EXCEPT ![k] = A]
    BY <1>d, <2>2, <2>3, <2>5
  <2> QED BY <1>2, <2>2, <2>3, <2>4, <2>6
<1> QED BY <1>3, <1>4

\* A call under way: its port, and what it stands for.
LEMMA CallUnderWay ==
  ASSUME AsInv, NEW c \in SettingCallers, setCall[c].stage # "idle"
  PROVE  /\ setCall[c].port \in AudioPorts /\ setCall[c].value # Unset
         /\ CallOk(c) /\ CallHolds(c)
         /\ DOMAIN halValue = AudioPorts /\ DOMAIN valueStore = Keys /\ DOMAIN asked = Keys
         /\ DOMAIN setCall = SettingCallers /\ setOverlap \in BOOLEAN
BY DEF AsInv, AsCallsOk, AsCallsHold, CallOk, AsTypes

\* A step of a call that is not its last.
LEMMA AsGoesOn ==
  ASSUME AsInv, NEW c \in SettingCallers, setCall[c].stage # "idle", NEW r,
         setCall' = [setCall EXCEPT ![c] = r], r.stage # "idle", r.port = setCall[c].port,
         UNCHANGED <<platform, up, fresh, setOverlap>>, told' \subseteq told,
         DOMAIN halValue' = AudioPorts, DOMAIN valueStore' = Keys, DOMAIN asked' = Keys,
         valueStore'[ProfileKey] \in Profiles \cup {"Off", Unset},
         \A q \in AudioPorts : setting \in PerPort /\ q # setCall[c].port =>
           halValue'[q] = halValue[q] /\ valueStore'[Key(q)] = valueStore[Key(q)],
         setting = "MS12Profile" => asked' = asked,
         CallOk(c)', CallHolds(c)', AsAsked'
  PROVE  AsInv'
<1>1. /\ up' = TRUE /\ fresh' = FALSE /\ setting' = setting /\ setOverlap' \in BOOLEAN
      /\ ~setOverlap' => \A d \in SettingCallers \ {c} : setCall[d].stage = "idle"
      /\ setCall[c].port \in AudioPorts
  BY AsUp, CallUnderWay DEF platform
<1>2. /\ DOMAIN setCall' = SettingCallers /\ setCall'[c] = r
      /\ \A d \in SettingCallers \ {c} : setCall'[d] = setCall[d]
  BY DEF AsInv, AsCallsOk
<1>3. AsTypes'
  BY <1>1, AsTypesStay DEF AsInv
<1>4. AsTold'
  BY <1>1, <1>2, ToldGoesOn
<1> QED BY <1>1, <1>2, <1>3, <1>4, AsOthersHold

\* The last step of a call.
LEMMA AsEnds ==
  ASSUME AsInv, NEW c \in SettingCallers, setCall[c].stage # "idle", NEW ok \in BOOLEAN,
         NEW p \in AudioPorts, p = setCall[c].port, AsFinish(c, p, ok), UNCHANGED <<platform, up, fresh>>,
         DOMAIN halValue' = AudioPorts, DOMAIN valueStore' = Keys, DOMAIN asked' = Keys,
         valueStore'[ProfileKey] \in Profiles \cup {"Off", Unset},
         ok /\ ~setOverlap /\ setting \notin Volatile =>
           halValue'[p] = StoredOr(Key(p), Default)',
         \A q \in AudioPorts : setting \in PerPort /\ q # p =>
           halValue'[q] = halValue[q] /\ valueStore'[Key(q)] = valueStore[Key(q)],
         setting = "MS12Profile" /\ ok => asked'[ProfileKey] # {}, AsAsked'
  PROVE  AsInv'
<1>1. up' = TRUE /\ fresh' = FALSE /\ setting' = setting
  BY AsUp, CallUnderWay DEF platform
<1>2. /\ DOMAIN setCall' = SettingCallers /\ setCall'[c] = AsIdle /\ setCall'[c].stage = "idle"
      /\ \A d \in SettingCallers \ {c} : setCall'[d] = setCall[d]
      /\ setOverlap' \in BOOLEAN
      /\ ~setOverlap' => \A d \in SettingCallers \ {c} : setCall[d].stage = "idle"
  BY <1>1, AsFinishes
<1>3. AsTypes'
  BY <1>1, <1>2, AsTypesStay DEF AsInv
<1>4. AsTold'
  BY <1>1, ToldAtTheEnd
<1>5. AsIdle' = AsIdle
  BY DEF AsIdle
<1>6. CallOk(c)' /\ CallHolds(c)'
  BY <1>2, <1>5 DEF CallOk, CallHolds
<1> QED BY <1>1, <1>2, <1>3, <1>4, <1>6, AsOthersHold

\* A property gets the value v of a call for port p: the other ports' keys
\* and the profile are as they were.
LEMMA PersistsAt ==
  ASSUME AsInv, setting' = setting, NEW p \in AudioPorts, NEW v, v # Unset, NEW ok \in BOOLEAN,
         NEW k \in Keys, k = Key(p) \/ (setting \in PerProfile \cup {"Bass"} /\ k # ProfileKey),
         setting = "MS12Profile" => v \in Profiles \cup {"Off"}, Persists(k, k, v, ok)
  PROVE  /\ DOMAIN valueStore' = Keys /\ DOMAIN asked' = Keys
         /\ valueStore'[ProfileKey] \in Profiles \cup {"Off", Unset}
         /\ \A q \in AudioPorts : Key(q)' = Key(q)
         /\ k = Key(p) => StoredOr(Key(p), Default)' = v /\ valueStore'[Key(p)] = v
         /\ \A q \in AudioPorts : setting \in PerPort /\ q # p => valueStore'[Key(q)] = valueStore[Key(q)]
         /\ setting = "MS12Profile" => asked'[ProfileKey] # {}
         /\ AsAsked'
<1>1. /\ DOMAIN valueStore = Keys /\ DOMAIN asked = Keys /\ ProfileKey \in Keys /\ setOverlap \in BOOLEAN
      /\ valueStore[ProfileKey] \in Profiles \cup {"Off", Unset}
      /\ \A q \in AudioPorts : Key(q) \in Keys
      /\ Key(p) = ProfileKey <=> setting = "MS12Profile"
      /\ AsTypes
  BY KeyOfPort DEF AsInv, AsTypes, Keys
<1>2. PICK A : A = IF ok /\ ~setOverlap THEN {v} ELSE asked[k] \cup {v}
  OBVIOUS
<1>3. valueStore' = [valueStore EXCEPT ![k] = v] /\ asked' = [asked EXCEPT ![k] = A] /\ v \in A
  BY <1>1, <1>2 DEF Persists
<1>4. k = ProfileKey <=> setting = "MS12Profile"
  BY <1>1 DEF PerProfile
<1>5. \A q \in AudioPorts : Key(q)' = Key(q)
  BY <1>1, <1>3, <1>4, WritesStay DEF PerProfile
<1>6. AsAsked'
  BY <1>3, AskedWrites
<1>7. valueStore'[ProfileKey] \in Profiles \cup {"Off", Unset}
  BY <1>1, <1>3, <1>4
<1>8. k = Key(p) => StoredOr(Key(p), Default)' = v /\ valueStore'[Key(p)] = v
  BY <1>1, <1>3, <1>5 DEF StoredOr
<1>9. ASSUME NEW q \in AudioPorts, setting \in PerPort, q # p
      PROVE  valueStore'[Key(q)] = valueStore[Key(q)]
  <2>1. k = Key(p)
    BY <1>9 DEF PerPort, PerProfile
  <2>2. Key(q) # Key(p)
    BY <1>9, KeysOfPorts
  <2> QED BY <1>1, <1>3, <2>1, <2>2
<1>10. setting = "MS12Profile" => asked'[ProfileKey] # {}
  BY <1>1, <1>3, <1>4
<1> QED BY <1>1, <1>3, <1>5, <1>6, <1>7, <1>8, <1>9, <1>10

\* Nothing is persisted: the keys and the profile are as they were.
LEMMA NothingPersisted ==
  ASSUME AsInv, setting' = setting, UNCHANGED valueStore
  PROVE  /\ DOMAIN valueStore' = Keys /\ valueStore'[ProfileKey] \in Profiles \cup {"Off", Unset}
         /\ \A q \in AudioPorts : Key(q)' = Key(q)
         /\ \A k : StoredOr(k, Default)' = StoredOr(k, Default)
<1>1. CurrentProfile' = CurrentProfile
  BY DEF CurrentProfile, ProfileKey
<1>2. \A q \in AudioPorts : Key(q)' = Key(q)
  BY <1>1, KeyStays
<1> QED BY <1>2 DEF AsInv, AsTypes, StoredOr

\* The setter persists what the HAL took.
LEMMA AsPersist ==
  ASSUME AsInv, NEW c \in SettingCallers, Persist(c)
  PROVE  AsInv'
<1>0. /\ setCall[c].stage = "persist" /\ UNCHANGED <<platform, up, halValue, fresh>> /\ setting' = setting
  BY DEF Persist, platform
<1>1. PICK p \in AudioPorts : p = setCall[c].port
  BY <1>0, CallUnderWay
<1>2. PICK v : v = setCall[c].value
  OBVIOUS
<1>3. PICK ok \in BOOLEAN : ok = setCall[c].ok
  BY <1>0, CallUnderWay DEF CallOk
<1>4. /\ v # Unset /\ (ok /\ ~setOverlap => halValue[p] = v)
      /\ setting = "MS12Profile" => v \in Profiles \cup {"Off"}
      /\ DOMAIN halValue = AudioPorts
  BY <1>0, <1>1, <1>2, <1>3, CallUnderWay DEF CallOk, CallHolds
<1>5. Subject(p) = Key(p) /\ Key(p) \in Keys
  BY KeyOfPort DEF AsInv
<1>6. PICK k \in Keys : k = Key(p)
  BY <1>5
<1>7. Persists(k, k, v, ok) /\ AsFinish(c, p, ok)
  BY <1>1, <1>2, <1>3, <1>5, <1>6 DEF Persist
<1>8. /\ DOMAIN valueStore' = Keys /\ DOMAIN asked' = Keys
      /\ valueStore'[ProfileKey] \in Profiles \cup {"Off", Unset}
      /\ StoredOr(Key(p), Default)' = v
      /\ \A q \in AudioPorts : setting \in PerPort /\ q # p => valueStore'[Key(q)] = valueStore[Key(q)]
      /\ setting = "MS12Profile" => asked'[ProfileKey] # {}
      /\ AsAsked'
  <2>1. v # Unset /\ Persists(k, k, v, ok) /\ setting' = setting
    BY <1>0, <1>4, <1>7
  <2>2. setting = "MS12Profile" => v \in Profiles \cup {"Off"}
    BY <1>4
  <2>3. StoredOr(Key(p), Default)' = v /\ AsAsked'
    BY <1>6, <2>1, <2>2, PersistsAt
  <2>4. /\ DOMAIN valueStore' = Keys /\ DOMAIN asked' = Keys
        /\ valueStore'[ProfileKey] \in Profiles \cup {"Off", Unset}
        /\ setting = "MS12Profile" => asked'[ProfileKey] # {}
    BY <1>6, <2>1, <2>2, PersistsAt
  <2>5. \A q \in AudioPorts : setting \in PerPort /\ q # p => valueStore'[Key(q)] = valueStore[Key(q)]
    BY <1>6, <2>1, <2>2, PersistsAt
  <2> QED BY <2>3, <2>4, <2>5
<1> QED BY <1>0, <1>1, <1>4, <1>7, <1>8, AsEnds

\* The HAL gets what was read or chosen a step before.
LEMMA AsHalStep ==
  ASSUME AsInv, NEW c \in SettingCallers, HalStep(c)
  PROVE  AsInv'
<1>0. /\ setCall[c].stage = "hal" /\ UNCHANGED <<platform, up, valueStore, fresh>> /\ setting' = setting
      /\ AudioPorts' = AudioPorts /\ AsIdle' = AsIdle
  BY SamePlatform DEF HalStep, platform, AsIdle
<1>1. PICK p \in AudioPorts : p = setCall[c].port
  BY <1>0, CallUnderWay
<1>2. PICK v : v = setCall[c].value
  OBVIOUS
<1>3. /\ v # Unset /\ setting # "MS12Profile"
      /\ setCall[c].then = "return" => setting \in {"Delay", "LE"}
      /\ setCall[c].then = "return" /\ ~setOverlap => v = StoredOr(Key(p), Default)
      /\ setting = "LE" /\ ~setOverlap => valueStore[Key(p)] = v
      /\ DOMAIN halValue = AudioPorts /\ DOMAIN asked = Keys
  BY <1>0, <1>1, <1>2, CallUnderWay DEF CallOk, CallHolds
<1>4. Subject(p) = Key(p) /\ Key(p) \in Keys
  BY KeyOfPort DEF AsInv
<1>5. /\ DOMAIN valueStore' = Keys /\ valueStore'[ProfileKey] \in Profiles \cup {"Off", Unset}
      /\ \A q \in AudioPorts : Key(q)' = Key(q)
      /\ StoredOr(Key(p), Default)' = StoredOr(Key(p), Default)
  BY <1>0, NothingPersisted
<1>6. PICK h : h = [halValue EXCEPT ![p] = v]
  OBVIOUS
<1>7. DOMAIN h = AudioPorts /\ h[p] = v /\ \A q \in AudioPorts : q # p => h[q] = halValue[q]
  BY <1>3, <1>6
<1>a. ASSUME setCall[c].then = "persist", halValue' = h, UNCHANGED <<told, setOverlap, asked>>,
             setCall' = [setCall EXCEPT ![c] = [stage |-> "persist", port |-> p, value |-> v, ok |-> TRUE]]
      PROVE  AsInv'
  <2>1. PICK r : r = [stage |-> "persist", port |-> p, value |-> v, ok |-> TRUE]
    OBVIOUS
  <2>2. /\ r.stage = "persist" /\ r.port = p /\ r.value = v /\ r.ok \in BOOLEAN /\ r # AsIdle
        /\ setCall' = [setCall EXCEPT ![c] = r]
    BY <1>a, <2>1 DEF AsIdle
  <2>3. setCall'[c] = r
    BY <2>2 DEF AsInv, AsCallsOk
  <2>4. CallOk(c)'
    BY <1>0, <1>3, <2>2, <2>3 DEF CallOk
  <2>5. CallHolds(c)'
    BY <1>a, <1>7, <2>2, <2>3 DEF CallHolds
  <2>6. AsAsked'
    BY <1>a, <1>0, AskedStays
  <2> QED BY <1>0, <1>1, <1>3, <1>5, <1>7, <1>a, <2>2, <2>4, <2>5, <2>6, AsGoesOn
<1>b. ASSUME setCall[c].then = "return", halValue' = h, AsFinish(c, p, TRUE),
             asked' = IF setting = "LE" /\ ~setOverlap THEN [asked EXCEPT ![Subject(p)] = {v}] ELSE asked
      PROVE  AsInv'
  <2>1. ~setOverlap => halValue'[p] = StoredOr(Key(p), Default)'
    BY <1>3, <1>5, <1>7, <1>b
  <2>2. DOMAIN asked' = Keys
    BY <1>3, <1>b
  <2>3. AsAsked'
    <3>1. CASE setting = "LE" /\ ~setOverlap
      <4>1. /\ asked' = [asked EXCEPT ![Key(p)] = {v}] /\ valueStore[Key(p)] = v
            /\ Keys' = Keys /\ ProfileKey' = ProfileKey /\ Initially' = Initially
        BY <1>0, <1>3, <1>4, <1>b, <3>1, SamePlatform
      <4> SUFFICES ASSUME NEW j \in Keys, j = ProfileKey => setting = "MS12Profile"
                   PROVE  AskedFor(j)'
        BY <1>0, <4>1 DEF AsAsked
      <4>2. AskedFor(j)
        BY DEF AsInv, AsAsked
      <4> QED BY <1>0, <1>3, <4>1, <4>2 DEF AskedFor
    <3>2. CASE ~(setting = "LE" /\ ~setOverlap)
      BY <1>0, <1>b, <3>2, AskedStays
    <3> QED BY <3>1, <3>2
  <2> QED BY <1>0, <1>1, <1>3, <1>5, <1>7, <1>b, <2>1, <2>2, <2>3, AsEnds
<1>c. ASSUME AsFinish(c, p, FALSE), UNCHANGED <<halValue, asked>>
      PROVE  AsInv'
  <2>1. AsAsked'
    BY <1>0, <1>c, AskedStays
  <2> QED BY <1>0, <1>1, <1>3, <1>5, <1>c, <2>1, AsEnds
<1> QED BY <1>1, <1>2, <1>6, <1>a, <1>b, <1>c DEF HalStep

\* Loudness equivalence: the property before the HAL.
LEMMA AsPersistLE ==
  ASSUME AsInv, NEW c \in SettingCallers, PersistLE(c)
  PROVE  AsInv'
<1>0. /\ setCall[c].stage = "le" /\ UNCHANGED <<platform, up, halValue, told, setOverlap, fresh>>
      /\ setting' = setting /\ AudioPorts' = AudioPorts /\ AsIdle' = AsIdle
  BY SamePlatform DEF PersistLE, platform, AsIdle
<1>1. PICK p \in AudioPorts : p = setCall[c].port
  BY <1>0, CallUnderWay
<1>2. PICK v : v = setCall[c].value
  OBVIOUS
<1>3. v # Unset /\ setting = "LE" /\ DOMAIN halValue = AudioPorts
  BY <1>0, <1>1, <1>2, CallUnderWay DEF CallOk
<1>4. Subject(p) = Key(p) /\ Key(p) \in Keys
  BY KeyOfPort DEF AsInv
<1>5. PICK k \in Keys : k = Key(p)
  BY <1>4
<1>6. PICK r : r = [stage |-> "hal", port |-> p, value |-> v, then |-> "return"]
  OBVIOUS
<1>7. /\ Persists(k, k, v, FALSE) /\ setCall' = [setCall EXCEPT ![c] = r]
      /\ r.stage = "hal" /\ r.port = p /\ r.value = v /\ r.then = "return" /\ r # AsIdle
  BY <1>1, <1>2, <1>4, <1>5, <1>6 DEF PersistLE, AsIdle
<1>8. /\ DOMAIN valueStore' = Keys /\ DOMAIN asked' = Keys
      /\ valueStore'[ProfileKey] \in Profiles \cup {"Off", Unset}
      /\ Key(p)' = Key(p) /\ StoredOr(Key(p), Default)' = v /\ valueStore'[Key(p)] = v
      /\ AsAsked'
  BY <1>0, <1>3, <1>5, <1>7, PersistsAt
<1>9. setCall'[c] = r
  BY <1>7 DEF AsInv, AsCallsOk
<1>10. CallOk(c)'
  BY <1>0, <1>3, <1>7, <1>9 DEF CallOk
<1>11. CallHolds(c)'
  BY <1>7, <1>8, <1>9 DEF CallHolds
<1>12. setting \notin PerPort /\ setting # "MS12Profile"
  BY <1>3 DEF PerPort
<1> QED BY <1>0, <1>1, <1>3, <1>7, <1>8, <1>10, <1>11, <1>12, AsGoesOn

\* The profile becomes persistent: the other settings' keys move with it.
LEMMA AsPersistProfile ==
  ASSUME AsInv, NEW c \in SettingCallers, PersistProfile(c)
  PROVE  AsInv'
<1>0. /\ setCall[c].stage = "profile" /\ UNCHANGED <<platform, up, halValue, asked, fresh>>
      /\ valueStore' = [valueStore EXCEPT ![ProfileKey] = setCall[c].value]
      /\ setting' = setting /\ AudioPorts' = AudioPorts /\ AsIdle' = AsIdle
      /\ Keys' = Keys /\ ProfileKey' = ProfileKey /\ Initially' = Initially
  BY SamePlatform DEF PersistProfile, platform, AsIdle
<1>1. PICK p \in AudioPorts : p = setCall[c].port
  BY <1>0, CallUnderWay
<1>2. PICK v : v = setCall[c].value
  OBVIOUS
<1>3. /\ v # Unset /\ v \in Profiles \cup {"Off"} /\ setting \in PerProfile \cup {"Bass"}
      /\ DOMAIN halValue = AudioPorts /\ DOMAIN valueStore = Keys /\ DOMAIN asked = Keys
  BY <1>0, <1>1, <1>2, CallUnderWay DEF CallOk
<1>4. setting \notin PerPort /\ setting # "MS12Profile" /\ ProfileKey \in Keys
  BY <1>3 DEF PerPort, PerProfile, Keys
<1>5. DOMAIN valueStore' = Keys /\ valueStore'[ProfileKey] \in Profiles \cup {"Off", Unset}
  BY <1>0, <1>2, <1>3, <1>4
<1>6. AsAsked'
  <2> SUFFICES ASSUME NEW j \in Keys, j # ProfileKey PROVE AskedFor(j)'
    BY <1>0, <1>4 DEF AsAsked
  <2>1. AskedFor(j) /\ valueStore'[j] = valueStore[j]
    BY <1>0, <1>3 DEF AsInv, AsAsked
  <2> QED BY <1>0, <2>1 DEF AskedFor
<1>7. CASE v = "Off"
  <2>1. AsFinish(c, p, FALSE)
    BY <1>1, <1>2, <1>7 DEF PersistProfile
  <2> QED BY <1>0, <1>1, <1>3, <1>4, <1>5, <1>6, <2>1, AsEnds
<1>8. CASE v # "Off"
  <2>1. setCall' = [setCall EXCEPT ![c].stage = "apply"] /\ UNCHANGED <<told, setOverlap>>
    BY <1>2, <1>8 DEF PersistProfile
  <2>2. PICK r : r = [setCall[c] EXCEPT !.stage = "apply"]
    OBVIOUS
  <2>3. setCall' = [setCall EXCEPT ![c] = r]
    BY <2>1, <2>2
  <2>4. setCall'[c] = r
    BY <2>3 DEF AsInv, AsCallsOk
  <2>5. r.stage = "apply" /\ r.port = p /\ r.value = v /\ r # AsIdle
    BY <1>1, <1>2, <2>2 DEF AsIdle
  <2>6. CallOk(c)'
    BY <1>0, <1>3, <1>4, <2>4, <2>5 DEF CallOk
  <2>7. CallHolds(c)'
    BY <2>4, <2>5 DEF CallHolds
  <2> QED BY <1>0, <1>1, <1>3, <1>4, <1>5, <1>6, <2>1, <2>3, <2>5, <2>6, <2>7, AsGoesOn
<1> QED BY <1>7, <1>8

\* The setting persisted for the profile is read, with the key of this moment.
LEMMA AsApply ==
  ASSUME AsInv, NEW c \in SettingCallers, applyMS12ProfileSettingsOverride(c)
  PROVE  AsInv'
<1>0. /\ setCall[c].stage = "apply" /\ UNCHANGED <<platform, up, halValue, valueStore, asked, fresh>>
      /\ setting' = setting /\ AudioPorts' = AudioPorts /\ AsIdle' = AsIdle
      /\ Keys' = Keys /\ ProfileKey' = ProfileKey
  BY SamePlatform DEF applyMS12ProfileSettingsOverride, platform, AsIdle
<1>1. PICK p \in AudioPorts : p = setCall[c].port
  BY <1>0, CallUnderWay
<1>2. /\ setting \in PerProfile \cup {"Bass"}
      /\ DOMAIN halValue = AudioPorts /\ DOMAIN valueStore = Keys /\ DOMAIN asked = Keys
  BY <1>0, <1>1, CallUnderWay DEF CallOk
<1>3. setting \notin PerPort /\ setting # "MS12Profile"
  BY <1>2 DEF PerPort, PerProfile
<1>4. Key(p) \in Keys /\ Key(p) # ProfileKey
  BY <1>3, KeyOfPort DEF AsInv
<1>5. /\ DOMAIN valueStore' = Keys /\ valueStore'[ProfileKey] \in Profiles \cup {"Off", Unset}
      /\ Key(p)' = Key(p)
  BY <1>0, NothingPersisted
<1>6. AsAsked'
  BY <1>0, AskedStays
<1>7. CASE valueStore[Key(p)] = Unset
  <2>1. AsFinish(c, p, FALSE)
    BY <1>1, <1>7 DEF applyMS12ProfileSettingsOverride
  <2> QED BY <1>0, <1>1, <1>2, <1>3, <1>5, <1>6, <2>1, AsEnds
<1>8. CASE valueStore[Key(p)] # Unset
  <2>1. PICK r : r = [stage |-> "halApply", port |-> p, value |-> valueStore[Key(p)], key |-> Key(p)]
    OBVIOUS
  <2>2. setCall' = [setCall EXCEPT ![c] = r] /\ UNCHANGED <<told, setOverlap>>
    BY <1>1, <1>8, <2>1 DEF applyMS12ProfileSettingsOverride, AsInv, AsCallsOk
  <2>3. setCall'[c] = r
    BY <2>2 DEF AsInv, AsCallsOk
  <2>4. r.stage = "halApply" /\ r.port = p /\ r.value = valueStore[Key(p)] /\ r.key = Key(p) /\ r # AsIdle
    BY <2>1 DEF AsIdle
  <2>5. CallOk(c)'
    BY <1>0, <1>2, <1>3, <1>4, <1>8, <2>3, <2>4 DEF CallOk
  <2>6. CallHolds(c)'
    BY <1>5, <2>3, <2>4 DEF CallHolds
  <2> QED BY <1>0, <1>1, <1>2, <1>3, <1>5, <1>6, <2>2, <2>4, <2>5, <2>6, AsGoesOn
<1> QED BY <1>7, <1>8

\* ... given to the HAL ...
LEMMA AsApplyHal ==
  ASSUME AsInv, NEW c \in SettingCallers, ApplyHal(c)
  PROVE  AsInv'
<1>0. /\ setCall[c].stage = "halApply" /\ UNCHANGED <<platform, up, valueStore, asked, fresh>>
      /\ setting' = setting /\ AudioPorts' = AudioPorts /\ AsIdle' = AsIdle
      /\ Keys' = Keys /\ ProfileKey' = ProfileKey
  BY SamePlatform DEF ApplyHal, platform, AsIdle
<1>1. PICK p \in AudioPorts : p = setCall[c].port
  BY <1>0, CallUnderWay
<1>2. PICK v : v = setCall[c].value
  OBVIOUS
<1>3. PICK k : k = setCall[c].key
  OBVIOUS
<1>4. /\ setting \in PerProfile \cup {"Bass"} /\ v # Unset /\ k \in Keys /\ k # ProfileKey
      /\ ~setOverlap => k = Key(p)
      /\ DOMAIN halValue = AudioPorts /\ DOMAIN valueStore = Keys /\ DOMAIN asked = Keys
  BY <1>0, <1>1, <1>2, <1>3, CallUnderWay DEF CallOk, CallHolds
<1>5. setting \notin PerPort /\ setting # "MS12Profile"
  BY <1>4 DEF PerPort, PerProfile
<1>6. /\ DOMAIN valueStore' = Keys /\ valueStore'[ProfileKey] \in Profiles \cup {"Off", Unset}
      /\ Key(p)' = Key(p)
  BY <1>0, NothingPersisted
<1>7. AsAsked'
  BY <1>0, AskedStays
<1>8. CASE /\ halValue' = [halValue EXCEPT ![setCall[c].port] = setCall[c].value]
           /\ setCall' = [setCall EXCEPT ![c].stage = "persistApply"]
           /\ UNCHANGED <<told, setOverlap>>
  <2>1. PICK r : r = [setCall[c] EXCEPT !.stage = "persistApply"]
    OBVIOUS
  <2>2. setCall' = [setCall EXCEPT ![c] = r]
    BY <1>8, <2>1
  <2>3. setCall'[c] = r
    BY <2>2 DEF AsInv, AsCallsOk
  <2>4. r.stage = "persistApply" /\ r.port = p /\ r.value = v /\ r.key = k /\ r # AsIdle
    BY <1>1, <1>2, <1>3, <2>1 DEF AsIdle
  <2>5. DOMAIN halValue' = AudioPorts /\ halValue'[p] = v
    BY <1>1, <1>2, <1>4, <1>8
  <2>6. CallOk(c)'
    BY <1>0, <1>4, <1>5, <2>3, <2>4 DEF CallOk
  <2>7. CallHolds(c)'
    BY <1>4, <1>6, <1>8, <2>3, <2>4, <2>5 DEF CallHolds
  <2> QED BY <1>0, <1>1, <1>4, <1>5, <1>6, <1>7, <1>8, <2>2, <2>4, <2>5, <2>6, <2>7, AsGoesOn
<1>9. CASE AsFinish(c, setCall[c].port, FALSE) /\ UNCHANGED halValue
  <2>1. AsFinish(c, p, FALSE)
    BY <1>1, <1>9
  <2> QED BY <1>0, <1>1, <1>4, <1>5, <1>6, <1>7, <1>9, <2>1, AsEnds
<1> QED BY <1>8, <1>9 DEF ApplyHal

\* ... and persisted again, under the key it was read from.
LEMMA AsApplyPersist ==
  ASSUME AsInv, NEW c \in SettingCallers, ApplyPersist(c)
  PROVE  AsInv'
<1>0. /\ setCall[c].stage = "persistApply" /\ UNCHANGED <<platform, up, halValue, fresh>>
      /\ setting' = setting
  BY DEF ApplyPersist, platform
<1>1. PICK p \in AudioPorts : p = setCall[c].port
  BY <1>0, CallUnderWay
<1>2. PICK v : v = setCall[c].value
  OBVIOUS
<1>3. PICK k : k = setCall[c].key
  OBVIOUS
<1>4. /\ setting \in PerProfile \cup {"Bass"} /\ v # Unset /\ k \in Keys /\ k # ProfileKey
      /\ ~setOverlap => k = Key(p) /\ halValue[p] = v
      /\ DOMAIN halValue = AudioPorts
  BY <1>0, <1>1, <1>2, <1>3, CallUnderWay DEF CallOk, CallHolds
<1>5. setting \notin PerPort /\ setting # "MS12Profile"
  BY <1>4 DEF PerPort, PerProfile
<1>6. Persists(k, k, v, TRUE) /\ AsFinish(c, p, TRUE)
  BY <1>1, <1>2, <1>3 DEF ApplyPersist
<1>7. /\ DOMAIN valueStore' = Keys /\ DOMAIN asked' = Keys
      /\ valueStore'[ProfileKey] \in Profiles \cup {"Off", Unset}
      /\ k = Key(p) => StoredOr(Key(p), Default)' = v
      /\ AsAsked'
  BY <1>0, <1>4, <1>5, <1>6, PersistsAt
<1> QED BY <1>0, <1>1, <1>4, <1>5, <1>6, <1>7, AsEnds

\* The process starts with nothing called, nothing persisted.
LEMMA AsInitHolds == AsInit => AsInv
<1> SUFFICES ASSUME AsInit PROVE AsInv
  OBVIOUS
<1>1. /\ DOMAIN setCall = SettingCallers
      /\ \A c \in SettingCallers : setCall[c] = AsIdle /\ setCall[c].stage = "idle"
  BY DEF AsInit, AsIdle
<1>2. /\ ProfileKey \in Keys /\ \A k \in Keys : valueStore[k] = Unset /\ asked[k] = {}
  BY DEF AsInit, Keys
<1>3. AsTypes
  BY <1>2 DEF AsInit, AsTypes
<1>4. AsCallsOk
  <2> SUFFICES ASSUME NEW c \in SettingCallers PROVE CallOk(c)
    BY <1>1 DEF AsCallsOk
  <2>1. setCall[c] = AsIdle /\ setCall[c].stage = "idle"
    BY <1>1
  <2> QED BY <2>1 DEF CallOk
<1>5. AsAlone /\ AsNobody /\ AsCallsHold
  BY <1>1 DEF AsInit, AsAlone, AsNobody, AsCallsHold, CallHolds
<1>6. AsAsked
  BY <1>2 DEF AsAsked, AskedFor
<1>7. AsTold /\ RestartRestores
  BY DEF AsInit, AsTold, RestartRestores
<1> QED BY <1>3, <1>4, <1>5, <1>6, <1>7 DEF AsInv

\* A restart forgets the calls and keeps what is persisted.
LEMMA AsRestarts ==
  ASSUME AsInv, AsRestart
  PROVE  AsInv'
<1>0. /\ UNCHANGED <<platform, halValue, valueStore, asked, fresh>> /\ up' = FALSE
      /\ told' = {} /\ setOverlap' = FALSE
      /\ setCall' = [c \in SettingCallers |-> AsIdle]
      /\ setting' = setting /\ AudioPorts' = AudioPorts /\ AsIdle' = AsIdle
      /\ Keys' = Keys /\ ProfileKey' = ProfileKey
  BY SamePlatform DEF AsRestart, platform, AsIdle
<1>1. /\ DOMAIN setCall' = SettingCallers
      /\ \A c \in SettingCallers : setCall'[c] = AsIdle /\ setCall'[c].stage = "idle"
  BY <1>0 DEF AsIdle
<1>2. AsTypes'
  BY <1>0 DEF AsInv, AsTypes, platform
<1>3. AsCallsOk'
  <2> SUFFICES ASSUME NEW c \in SettingCallers PROVE CallOk(c)'
    BY <1>1 DEF AsCallsOk
  <2>1. setCall'[c] = AsIdle /\ setCall'[c].stage = "idle"
    BY <1>1
  <2> QED BY <1>0, <2>1 DEF CallOk
<1>4. AsAlone' /\ AsNobody' /\ AsCallsHold'
  BY <1>0, <1>1 DEF AsAlone, AsNobody, AsCallsHold, CallHolds
<1>5. AsAsked'
  BY <1>0, AskedStays
<1>6. AsTold' /\ RestartRestores'
  BY <1>0 DEF AsTold, RestartRestores
<1> QED BY <1>2, <1>3, <1>4, <1>5, <1>6 DEF AsInv

\* The start-up sequence fills in the properties that have no value.
LEMMA StartFillsIn ==
  ASSUME AsInv, AsInitialiseHAL
  PROVE  /\ DOMAIN valueStore' = Keys
         /\ valueStore'[ProfileKey] = (IF supported THEN StoredOr(ProfileKey, "Off") ELSE valueStore[ProfileKey])
         /\ CurrentProfile' = CurrentProfile
         /\ AsAsked'
         /\ \A k \in Keys : valueStore[k] # Unset => valueStore'[k] = valueStore[k]
<1>0. /\ valueStore' = [k \in Keys |->
           CASE k = ProfileKey /\ supported -> StoredOr(k, "Off")
             [] k = <<"LE", "audio">> -> StoredOr(k, Default)
             [] OTHER -> valueStore[k]]
      /\ UNCHANGED asked
      /\ setting' = setting /\ Keys' = Keys /\ ProfileKey' = ProfileKey /\ Initially' = Initially
  BY SamePlatform DEF AsInitialiseHAL, platform
<1>1. ProfileKey \in Keys /\ ProfileKey # <<"LE", "audio">>
  BY DEF Keys, ProfileKey
<1>2. DOMAIN valueStore' = Keys
  BY <1>0
<1>3. /\ valueStore'[ProfileKey] = (IF supported THEN StoredOr(ProfileKey, "Off") ELSE valueStore[ProfileKey])
      /\ \A k \in Keys \ {ProfileKey} :
           valueStore'[k] = IF k = <<"LE", "audio">> THEN StoredOr(k, Default) ELSE valueStore[k]
  BY <1>0, <1>1
<1>4. CurrentProfile' = CurrentProfile
  BY <1>0, <1>3 DEF CurrentProfile, StoredOr, Unset
<1>5. \A k \in Keys : valueStore[k] # Unset => valueStore'[k] = valueStore[k]
  BY <1>3 DEF StoredOr
<1>6. AsAsked'
  <2> SUFFICES ASSUME NEW j \in Keys, j = ProfileKey => setting = "MS12Profile"
               PROVE  AskedFor(j)'
    BY <1>0 DEF AsAsked
  <2>1. AskedFor(j)
    BY DEF AsInv, AsAsked
  <2>2. valueStore[j] = Unset => valueStore'[j] \in {Unset, Initially}
    <3>1. CASE j = ProfileKey
      BY <1>3, <3>1 DEF StoredOr, Initially
    <3>2. CASE j # ProfileKey
      <4>1. j = <<"LE", "audio">> => setting = "LE"
        BY <3>2 DEF Keys
      <4> QED BY <1>3, <3>2, <4>1 DEF StoredOr, Initially
    <3> QED BY <3>1, <3>2
  <2>3. valueStore[j] # Unset => valueStore'[j] = valueStore[j]
    BY <1>5
  <2> QED BY <1>0, <2>1, <2>2, <2>3 DEF AskedFor
<1> QED BY <1>2, <1>3, <1>4, <1>5, <1>6

\* What the start-up sequence gives to a port it promises to bring back is
\* what was asked for: it reads the key the setters write.
LEMMA WantedIsGiven ==
  ASSUME AsInv, NEW p \in AudioPorts, NEW kept, NEW x \in audioConfigInit(p, kept), BroughtBack(p)
  PROVE  x \in Wanted(p)
<1>1. Subject(p) = Key(p) /\ Key(p) \in Keys /\ (Key(p) = ProfileKey <=> setting = "MS12Profile")
  BY KeyOfPort DEF AsInv
<1>2. AskedFor(Key(p))
  BY <1>1 DEF AsInv, AsAsked
<1>3. StoredOr(Key(p), Initially) \in Wanted(p)
  BY <1>1, <1>2 DEF AskedFor, StoredOr, Wanted, Initially
<1>4. CASE setting \in {"Gain"} \cup OfDecoder
  <2>1. x = StoredOr(Key(p), Default)
    BY <1>4 DEF audioConfigInit, OfDecoder, OneKey, Key, PerPort, PerProfile, RestoreGain, RestoreLE,
       RestorePrimaryLanguage, RestoreSecondaryLanguage, RestoreFaderControl, RestoreAssociatedAudioMixing
  <2> QED BY <1>3, <1>4, <2>1 DEF Initially, OfDecoder
<1>5. CASE setting = "Delay" /\ p = "HDMI"
  <2>1. x = StoredOr(Key(p), Default)
    BY <1>5 DEF audioConfigInit, OneKey, Key, PerPort, PerProfile, RestoreDelay
  <2> QED BY <1>3, <1>5, <2>1 DEF Initially
<1>6. CASE setting = "MS12Profile" /\ supported /\ p = "SPEAKER"
  <2>1. x = StoredOr(Key(p), "Off")
    BY <1>1, <1>6 DEF audioConfigInit, OneKey, PerProfile, RestoreMS12Profile
  <2> QED BY <1>3, <1>6, <2>1 DEF Initially
<1>7. CASE setting \in OneKey /\ ~supported
  <2>1. x \in initializeIndividualMS12Settings(kept)
    BY <1>7 DEF audioConfigInit, OneKey, ProfileActive
  <2>2. x = StoredOr(<<setting, "audio">>, Default)
    BY <1>7, <2>1 DEF OneKey, initializeIndividualMS12Settings, IndividualCompression, IndividualDolby,
       IndividualIEQ, IndividualBass, IndividualSurround, IndividualDRC, IndividualMISteering, IndividualGEQ
  <2>3. Key(p) = <<setting, "audio">>
    BY <1>7 DEF Key, OneKey, PerPort, PerProfile
  <2> QED BY <1>3, <1>7, <2>2, <2>3 DEF Initially, OneKey
<1>8. CASE setting \in OneKey \cup PerProfile /\ ProfileActive /\ override /\ asked[Subject(p)] # {}
  <2>1. x = initializeMS12ProfileOverrides(kept)
    BY <1>8 DEF audioConfigInit, OneKey, PerProfile, ProfileActive
  <2>2. x = Override(Key(p), kept)
    <3>1. CASE setting \in OneKey
      <4>1. Key(p) = <<setting, "audio">>
        BY <3>1 DEF Key, OneKey, PerPort, PerProfile
      <4> QED BY <2>1, <3>1, <4>1 DEF OneKey, initializeMS12ProfileOverrides, OverrideCompression,
              OverrideDolbyVolumeMode, OverrideIntelligentEQ, OverrideBassBoost, OverrideSurroundDecoder,
              OverrideDRCMode, OverrideMISteering, OverrideGraphicEQ
    <3>2. CASE setting \in PerProfile
      <4>1. Key(p) = getCurrentProfileProperty(setting)
        BY <3>2 DEF Key
      <4> QED BY <2>1, <3>2, <4>1 DEF PerProfile, initializeMS12ProfileOverrides, OverrideDialogEnhancer,
              OverrideVolumeLeveller, OverrideSurroundVirtualizer
    <3> QED BY <1>8, <3>1, <3>2
  <2>3. valueStore[Key(p)] # Unset /\ valueStore[Key(p)] \in asked[Subject(p)]
    BY <1>1, <1>2, <1>8 DEF AskedFor
  <2> QED BY <1>8, <2>2, <2>3 DEF Override, Wanted
<1> QED BY <1>4, <1>5, <1>6, <1>7, <1>8 DEF BroughtBack

\* The adapter starts: nobody has called, and the HAL has what was asked for.
LEMMA AsStartsUp ==
  ASSUME AsInv, AsInitialiseHAL
  PROVE  AsInv'
<1>0. /\ UNCHANGED <<platform, setCall, asked, told, setOverlap>> /\ ~up /\ up' = TRUE /\ fresh' = TRUE
      /\ setting' = setting /\ AudioPorts' = AudioPorts /\ AsIdle' = AsIdle
      /\ Keys' = Keys /\ ProfileKey' = ProfileKey /\ supported' = supported /\ override' = override
  BY SamePlatform DEF AsInitialiseHAL, platform, AsIdle
<1>1. /\ DOMAIN valueStore' = Keys
      /\ valueStore'[ProfileKey] = (IF supported THEN StoredOr(ProfileKey, "Off") ELSE valueStore[ProfileKey])
      /\ CurrentProfile' = CurrentProfile
      /\ AsAsked'
  BY StartFillsIn
<1>2. PICK kept \in {halValue, [p \in AudioPorts |-> Default]} :
        halValue' \in {h \in [AudioPorts -> Choices \cup {Default, Unset, "Off"}] :
          \A p \in AudioPorts : h[p] \in audioConfigInit(p, initializeMS12Settings(kept[p]))}
  BY DEF AsInitialiseHAL
<1>3. AsTypes'
  BY <1>0, <1>1, <1>2 DEF AsInv, AsTypes, StoredOr
<1>4. /\ DOMAIN setCall' = SettingCallers /\ told' = {}
      /\ \A c \in SettingCallers : setCall'[c].stage = "idle"
  BY <1>0 DEF AsInv, AsNobody, AsCallsOk
<1>5. AsCallsOk'
  <2> SUFFICES ASSUME NEW c \in SettingCallers PROVE CallOk(c)'
    BY <1>4 DEF AsCallsOk
  <2>1. CallOk(c)
    BY DEF AsInv, AsCallsOk
  <2> QED BY <1>0, <2>1 DEF CallOk
<1>6. AsAlone' /\ AsNobody' /\ AsCallsHold'
  BY <1>0, <1>4 DEF AsAlone, AsNobody, AsCallsHold, CallHolds
<1>7. AsTold'
  BY <1>4, <1>0 DEF AsTold
<1>8. RestartRestores'
  <2> SUFFICES ASSUME NEW p \in AudioPorts, BroughtBack(p)'
               PROVE  halValue'[p] \in Wanted(p)'
    BY <1>0 DEF RestartRestores
  <2>1. Subject(p)' = Subject(p)
    BY <1>0, <1>1, KeyStays
  <2>2. Wanted(p)' = Wanted(p)
    BY <1>0, <2>1 DEF Wanted
  <2>3. ProfileActive' => ProfileActive
    BY <1>0, <1>1 DEF ProfileActive, StoredOr, Unset
  <2>4. BroughtBack(p)
    BY <1>0, <2>1, <2>3 DEF BroughtBack
  <2>5. PICK k : k = initializeMS12Settings(kept[p])
    OBVIOUS
  <2>6. halValue'[p] \in audioConfigInit(p, k)
    BY <1>2, <2>5
  <2> QED BY <2>2, <2>4, <2>6, WantedIsGiven
<1> QED BY <1>1, <1>3, <1>5, <1>6, <1>7, <1>8 DEF AsInv

\* The setters, by what they are made of.
LEMMA AsSets ==
  ASSUME AsInv, NEW c \in SettingCallers, NEW p \in AudioPorts,
         Reset(c, p) \/ (\E v \in Values : SetOne(c, p, v) \/ SetVolatile(c, p, v))
  PROVE  AsInv'
<1>1. CASE Reset(c, p)
  <2>1. CallHal(c, p, Default) /\ setting # "MS12Profile"
    BY <1>1 DEF Reset, ResetAudioDialogEnhancement, ResetAudioBassEnhancer, ResetAudioSurroundVirtualizer,
       ResetAudioVolumeLeveller
  <2> QED BY <2>1, AsCallHal DEF Default, Unset
<1>2. ASSUME NEW v \in Values, SetOne(c, p, v)
      PROVE  AsInv'
  <2>0. v # Unset
    BY ValuesAssumption
  <2>1. CASE SetAudioDelay(c, p, v)
    BY <2>0, <2>1, AsSetAudioDelay
  <2>2. CASE EnableAudioLEConfig(c, p, v)
    BY <2>0, <2>2, AsEnableAudioLEConfig
  <2>3. CASE CallHal(c, p, v) /\ setting # "MS12Profile"
    BY <2>0, <2>3, AsCallHal
  <2> QED BY <1>2, <2>1, <2>2, <2>3 DEF SetOne, SetAudioGain, SetAssociatedAudioMixing, SetAudioFaderControl,
          SetAudioPrimaryLanguage, SetAudioSecondaryLanguage, SetAudioCompression, SetAudioCompressionLevel,
          SetAudioDialogEnhancement, SetAudioDolbyVolumeMode, SetAudioIntelligentEqualizerMode,
          SetAudioVolumeLeveller, SetAudioBassEnhancer, EnableAudioSurroudDecoder, SetAudioDRCMode,
          SetAudioSurroudVirtualizer, SetAudioMISteering, SetAudioGraphicEqualizerMode
<1>3. ASSUME NEW v \in Values, SetVolatile(c, p, v)
      PROVE  AsInv'
  <2>1. setting \in Volatile /\ CallHalOnly(c, p, v)
    BY <1>3 DEF SetVolatile, Volatile, SetAudioAtmosOutputMode, SetSAD, EnableARC, SetAudioDelayOffset,
       SetAudioMixerLevels
  <2> QED BY <2>1, AsCallHalOnly
<1> QED BY <1>1, <1>2, <1>3

\* Every step keeps the invariant.
LEMMA AsStepHolds == AsInv /\ [AsNext]_setVars => AsInv'
<1> SUFFICES ASSUME AsInv, [AsNext]_setVars PROVE AsInv'
  OBVIOUS
<1>1. CASE AsInitialiseHAL
  BY <1>1, AsStartsUp
<1>2. CASE AsRestart
  BY <1>2, AsRestarts
<1>3. ASSUME NEW c \in SettingCallers, AsContinue(c)
      PROVE  AsInv'
  BY <1>3, AsPersist, AsHalStep, AsPersistLE, AsPersistProfile, AsApply, AsApplyHal, AsApplyPersist DEF AsContinue
<1>4. ASSUME NEW c \in SettingCallers, NEW p \in AudioPorts,
             Reset(c, p) \/ (\E v \in Values : SetOne(c, p, v) \/ SetVolatile(c, p, v))
      PROVE  AsInv'
  BY <1>4, AsSets
<1>5. ASSUME NEW c \in SettingCallers, NEW p \in AudioPorts, NEW enable \in BOOLEAN, EnableAudioPort(c, p, enable)
      PROVE  AsInv'
  BY <1>5, AsEnableAudioPort
<1>6. ASSUME NEW c \in SettingCallers, NEW p \in AudioPorts, NEW q \in Profiles \cup {"Off"},
             SetAudioMS12Profile(c, p, q)
      PROVE  AsInv'
  BY <1>6, AsChooseProfile
<1>7. ASSUME NEW c \in SettingCallers, NEW p \in AudioPorts, NEW q \in Profiles \cup {"Off"},
             NEW v \in Values \cup {Default}, SetAudioMS12SettingsOverride(c, p, q, v)
      PROVE  AsInv'
  <2>1. v # Unset
    BY ValuesAssumption DEF Default, Unset
  <2> QED BY <1>7, <2>1, AsSetOverride
<1>8. CASE UNCHANGED setVars
  <2>1. /\ UNCHANGED <<setting, supported, override, up, halValue, valueStore, setCall, asked, told, setOverlap, fresh>>
    BY <1>8 DEF setVars, platform
  <2> QED BY <2>1 DEF AsInv, AsTypes, AsCallsOk, CallOk, AsAlone, AsNobody, AsCallsHold, CallHolds, AsAsked, AskedFor,
          Initially, AsTold, UnderWay, RestartRestores, BroughtBack, Wanted, Subject, Key, StoredOr, Keys, AudioPorts,
          ProfileKey, ProfileActive, CurrentProfile, getCurrentProfileProperty, generateProfileProperty, AsIdle
<1> QED BY <1>1, <1>2, <1>3, <1>4, <1>5, <1>6, <1>7, <1>8 DEF AsNext

\* After a restart the HAL has the value of the last acknowledged call, of
\* one that overlapped it, or the default, for every setting that
\* audioConfigInit promises to bring back: whatever the callers, the values,
\* the profiles, and wherever in a call the process stopped.
THEOREM RestartGivesTheLast == AsSpec => []RestartRestores
<1>1. AsInv => RestartRestores
  BY DEF AsInv
<1> QED BY <1>1, AsInitHolds, AsStepHolds, PTL DEF AsSpec

\* A setting the HAL took from an undisturbed call is the persisted one, and
\* the getter answers with what was asked for, across changes of the profile.
THEOREM TakenIsPersisted == AsSpec => []AppliedIsPersisted
<1>1. AsInv => AppliedIsPersisted
  <2> SUFFICES ASSUME AsInv, up, AsQuiet, setting \notin Volatile, NEW p \in told
               PROVE  halValue[p] = StoredOr(Key(p), Default) /\ Answer(p) \in Wanted(p)
    BY DEF AppliedIsPersisted, AppliedIsKept, ReadBack
  <2>1. p \in AudioPorts /\ ~UnderWay(p)
    BY DEF AsInv, AsTold, UnderWay, AsQuiet, AsIdle
  <2>2. halValue[p] = StoredOr(Key(p), Default)
    BY <2>1 DEF AsInv, AsTold
  <2>3. Subject(p) = Key(p) /\ Key(p) \in Keys /\ (Key(p) = ProfileKey <=> setting = "MS12Profile")
    BY <2>1, KeyOfPort DEF AsInv
  <2>4. AskedFor(Key(p)) /\ (setting = "MS12Profile" => asked[Key(p)] # {})
    BY <2>3 DEF AsInv, AsAsked, AsTold
  <2>5. StoredOr(Key(p), Default) \in Wanted(p)
    BY <2>3, <2>4 DEF AskedFor, StoredOr, Wanted, Initially
  <2>6. Answer(p) = StoredOr(Key(p), Default)
    <3>1. CASE setting = "Delay"
      BY <3>1 DEF Answer, GetAudioDelay, getAudioDelayInternal, StoredOr, Key, PerPort, PerProfile
    <3>2. CASE setting # "Delay"
      <4>1. Answer(p) = halValue[p]
        BY <3>2 DEF Answer, GetAudioGain, GetAudioLEConfig, GetAudioPrimaryLanguage, GetAudioSecondaryLanguage,
           GetAudioFaderControl, GetAssociatedAudioMixing, GetAudioMS12Profile, GetAudioCompression,
           GetAudioDialogEnhancement, GetAudioDolbyVolumeMode, GetAudioIntelligentEqualizerMode,
           GetAudioVolumeLeveller, GetAudioBassEnhancer, IsAudioSurroudDecoderEnabled, GetAudioDRCMode,
           GetAudioSurroudVirtualizer, GetAudioMISteering, GetAudioGraphicEqualizerMode
      <4> QED BY <2>2, <4>1
    <3> QED BY <3>1, <3>2
  <2> QED BY <2>2, <2>5, <2>6
<1> QED BY <1>1, AsInitHolds, AsStepHolds, PTL DEF AsSpec
=============================================================================
