--------------------------- MODULE DSBinderProofs ---------------------------
(***************************************************************************)
(* The adapters of Binder services: the composite input's service holds    *)
(* what its adapter remembers, one port open at most; the two adapters     *)
(* of the HDMI output tell the mode in force and leave nothing behind; for *)
(* any callers, ports and number of operations, failures and restarts.     *)
(***************************************************************************)
EXTENDS DCompositeInAIDL, DSHdmiOutput, Integers, TLAPS

(* The composite inputs.                                                   *)

CiConstants == NoPort \notin Ports /\ Free \notin CiCallers

AfterRelease == {"listen", "open", "start", "undoOpen", "undoListen"}
Labels == {"idle", "cleared", "getPort", "stop", "unlisten", "close"} \cup AfterRelease

\* A thread between two calls holds the lock; one that makes calls for a port
\* has a port; StopActivePort runs on an active port, and what follows it
\* finds none.  A proxy belongs to an instance that was there.
CiTypes ==
  /\ state \in [Ports -> {"CLOSED", "READY", "STARTED"}] /\ listeners \in [Ports -> Int]
  /\ up \in BOOLEAN /\ spoiled \in BOOLEAN
  /\ instance \in Nat /\ manager \in 0..instance /\ activeOf \in 0..instance
  /\ active \in Ports \cup {NoPort}
  /\ held \in CiCallers \cup {Free}
  /\ pc \in [CiCallers -> Labels]
  /\ target \in [CiCallers -> Ports \cup {NoPort}]
  /\ targetOf \in [CiCallers -> 0..instance]
Turns ==
  \A c \in CiCallers :
    /\ pc[c] # "idle" => held = c
    /\ pc[c] \in AfterRelease \cup {"getPort"} => target[c] \in Ports
    /\ pc[c] \in {"stop", "unlisten", "close"} => active \in Ports
    /\ pc[c] \in AfterRelease => active = NoPort

\* The port the adapter remembers and the one a selection works on, as far as
\* their proxies reach the service.
Mine(p) == p = active /\ Reaches(activeOf)
New(c, p) == p = target[c] /\ Reaches(targetOf[c])

\* What the service holds at each step of the operation of c.
StateFits(c) ==
  \A p \in Ports :
    state[p] = IF Mine(p) THEN IF pc[c] \in {"unlisten", "close"} THEN "READY" ELSE "STARTED"
               ELSE IF New(c, p) /\ pc[c] \in {"start", "undoOpen"} THEN "READY" ELSE "CLOSED"
ListenersFit(c) ==
  \A p \in Ports :
    listeners[p] = IF Mine(p) THEN IF pc[c] = "close" THEN 0 ELSE 1
                   ELSE IF New(c, p) /\ pc[c] \in AfterRelease \ {"listen"} THEN 1 ELSE 0
Fits ==
  ~spoiled =>
    /\ held = Free => ServiceMatchesAdapter
    /\ \A c \in CiCallers : held = c => StateFits(c) /\ ListenersFit(c)

CompositeInv == CiTypes /\ Turns /\ Fits

-----------------------------------------------------------------------------
\* CiInit establishes the invariant.
LEMMA CompositeInit == CiConstants /\ CiInit => CompositeInv
<1> SUFFICES ASSUME CiConstants, CiInit
             PROVE  CompositeInv
  OBVIOUS
<1>1. CiTypes
  <2>1. /\ state \in [Ports -> {"CLOSED", "READY", "STARTED"}]
        /\ listeners \in [Ports -> Int]
        /\ pc \in [CiCallers -> Labels] /\ target \in [CiCallers -> Ports \cup {NoPort}]
    BY DEF CiInit, Labels
  <2>2. targetOf \in [CiCallers -> 0..instance]
    BY DEF CiInit
  <2>3. instance \in Nat /\ manager \in 0..instance /\ activeOf \in 0..instance
    BY DEF CiInit, NoLookup
  <2>4. /\ up \in BOOLEAN /\ spoiled \in BOOLEAN
        /\ active \in Ports \cup {NoPort} /\ held \in CiCallers \cup {Free}
    BY DEF CiInit
  <2>5. QED
    BY <2>1, <2>2, <2>3, <2>4 DEF CiTypes
<1>2. Turns
  BY DEF CiInit, Turns, AfterRelease
<1>3. Fits
  BY DEF CiConstants, CiInit, Fits, ServiceMatchesAdapter
<1>4. QED
  BY <1>1, <1>2, <1>3 DEF CompositeInv

\* Every step keeps the types.
LEMMA CiTypesStep ==
  ASSUME CiConstants, CompositeInv, [CiNext]_ciVars
  PROVE  CiTypes'
<1> USE DEF CompositeInv, service, life, adapter, calls
<1>1. ASSUME NEW c \in CiCallers, NEW p \in Ports \cup {NoPort}, CiBegin(c, p)
      PROVE  CiTypes'
  BY <1>1 DEF CiBegin, FirstStep, MustRelease, CiTypes, Labels
<1>2. ASSUME NEW c \in CiCallers, DestroyBegin(c)
      PROVE  CiTypes'
  BY <1>2 DEF DestroyBegin, FirstStep, MustRelease, CiTypes, Labels, NoLookup
<1>3. ASSUME NEW c \in CiCallers, GetPort(c)
      PROVE  CiTypes'
  <2>1. (IF manager # NoLookup THEN manager ELSE instance) \in 0..instance
    BY DEF CiTypes
  <2>2. QED
    BY <1>3, <2>1 DEF GetPort, AfterGetPort, MustRelease, CiGoto, CiReturn, CiTypes, Labels, AfterRelease
<1>4. ASSUME NEW c \in CiCallers, Stop(c) \/ Close(c)
      PROVE  CiTypes'
  BY <1>4 DEF Stop, Close, CiGoto, Spoils, CiTypes, Labels, AfterRelease, Reaches
<1>5. ASSUME NEW c \in CiCallers, Unlisten(c)
      PROVE  CiTypes'
  <2>1. listeners' \in [Ports -> Int]
    BY <1>5 DEF Unlisten, CiTypes
  <2>2. QED
    BY <1>5, <2>1 DEF Unlisten, CiGoto, Spoils, CiTypes, Labels, Reaches
<1>6. ASSUME NEW c \in CiCallers, Cleared(c)
      PROVE  CiTypes'
  BY <1>6 DEF Cleared, CiReturn, CiTypes, Labels
<1>7. ASSUME NEW c \in CiCallers, Listen(c)
      PROVE  CiTypes'
  <2>1. listeners' \in [Ports -> Int]
    BY <1>7 DEF Listen, CiTypes
  <2>2. QED
    BY <1>7, <2>1 DEF Listen, CiGoto, CiReturn, CiTypes, Labels, AfterRelease
<1>8. ASSUME NEW c \in CiCallers, Open(c)
      PROVE  CiTypes'
  BY <1>8 DEF Open, CiGoto, CiTypes, Labels, AfterRelease
<1>9. ASSUME NEW c \in CiCallers, Start(c)
      PROVE  CiTypes'
  BY <1>9 DEF Start, CiGoto, CiReturn, CiTypes, Labels, AfterRelease
<1>10. ASSUME NEW c \in CiCallers, UndoOpen(c)
       PROVE  CiTypes'
  BY <1>10 DEF UndoOpen, CiGoto, Spoils, CiTypes, Labels, AfterRelease, Reaches
<1>11. ASSUME NEW c \in CiCallers, UndoListen(c)
       PROVE  CiTypes'
  <2>1. listeners' \in [Ports -> Int]
    BY <1>11 DEF UndoListen, CiTypes
  <2>2. QED
    BY <1>11, <2>1 DEF UndoListen, CiReturn, Spoils, CiTypes, Labels, Reaches
<1>12. CASE ServiceDies
  <2>1. /\ state' \in [Ports -> {"CLOSED", "READY", "STARTED"}]
        /\ listeners' \in [Ports -> Int]
    BY <1>12 DEF ServiceDies
  <2>2. QED
    BY <1>12, <2>1 DEF ServiceDies, CiTypes
<1>13. CASE ServiceStarts
  <2>1. instance' \in Nat /\ 0..instance \subseteq 0..instance'
    BY <1>13 DEF ServiceStarts, CiTypes
  <2>2. QED
    BY <1>13, <2>1 DEF ServiceStarts, CiTypes
<1>14. CASE UNCHANGED ciVars
  BY <1>14 DEF ciVars, CiTypes
<1>15. QED
  BY <1>1, <1>2, <1>3, <1>4, <1>5, <1>6, <1>7, <1>8, <1>9, <1>10, <1>11, <1>12, <1>13, <1>14
     DEF CiNext, CallerStep

\* The lock gives the turn to one thread, whose steps follow in order.
LEMMA TurnsStep ==
  ASSUME CiConstants, CompositeInv, [CiNext]_ciVars
  PROVE  Turns'
<1> USE DEF CompositeInv, CiTypes, Turns, Labels, AfterRelease, service, life, adapter, calls
<1>1. ASSUME NEW c \in CiCallers, NEW p \in Ports \cup {NoPort}, CiBegin(c, p)
      PROVE  Turns'
  BY <1>1 DEF CiBegin, FirstStep, MustRelease, CiConstants
<1>2. ASSUME NEW c \in CiCallers, DestroyBegin(c)
      PROVE  Turns'
  BY <1>2 DEF DestroyBegin, FirstStep, MustRelease, CiConstants
<1>3. ASSUME NEW c \in CiCallers, GetPort(c)
      PROVE  Turns'
  BY <1>3 DEF GetPort, AfterGetPort, MustRelease, CiGoto, CiReturn, CiConstants
<1>4. ASSUME NEW c \in CiCallers, Stop(c) \/ Unlisten(c)
      PROVE  Turns'
  BY <1>4 DEF Stop, Unlisten, CiGoto
<1>5. ASSUME NEW c \in CiCallers, Close(c)
      PROVE  Turns'
  BY <1>5 DEF Close, CiGoto, CiConstants
<1>6. ASSUME NEW c \in CiCallers, Cleared(c) \/ Listen(c) \/ Open(c)
      PROVE  Turns'
  BY <1>6 DEF Cleared, Listen, Open, CiGoto, CiReturn
<1>7. ASSUME NEW c \in CiCallers, Start(c) \/ UndoOpen(c) \/ UndoListen(c)
      PROVE  Turns'
  BY <1>7 DEF Start, UndoOpen, UndoListen, CiGoto, CiReturn
<1>8. CASE ServiceDies \/ ServiceStarts \/ UNCHANGED ciVars
  BY <1>8 DEF ServiceDies, ServiceStarts, ciVars
<1>9. QED
  BY <1>1, <1>2, <1>3, <1>4, <1>5, <1>6, <1>7, <1>8 DEF CiNext, CallerStep

\* What the service holds follows the steps of the operation under way.
LEMMA FitsStep ==
  ASSUME CiConstants, CompositeInv, [CiNext]_ciVars
  PROVE  Fits'
<1> USE DEF CiConstants, CompositeInv, CiTypes, Turns, service, life, adapter, calls
<1>1. ASSUME NEW c \in CiCallers, NEW p \in Ports \cup {NoPort}, CiBegin(c, p)
      PROVE  Fits'
  BY <1>1 DEF CiBegin, FirstStep, MustRelease, Fits, ServiceMatchesAdapter, StateFits, ListenersFit,
              Mine, New, Reaches, AfterRelease
<1>2. ASSUME NEW c \in CiCallers, DestroyBegin(c)
      PROVE  Fits'
  BY <1>2 DEF DestroyBegin, FirstStep, MustRelease, Fits, ServiceMatchesAdapter, StateFits,
              ListenersFit, Mine, New, Reaches, AfterRelease
<1>3. ASSUME NEW c \in CiCallers, CallerStep(c)
      PROVE  Fits'
  <2>1. pc[c] # "idle" /\ held = c
    BY <1>3 DEF CallerStep, GetPort, Stop, Unlisten, Close, Cleared, Listen, Open, Start,
                UndoOpen, UndoListen
  <2>2. SUFFICES ASSUME ~spoiled'
                 PROVE  /\ held' = Free => ServiceMatchesAdapter'
                        /\ held' = c => StateFits(c)' /\ ListenersFit(c)'
    <3>1. held' \in {c, Free}
      BY <1>3, <2>1 DEF CallerStep, GetPort, Stop, Unlisten, Close, Cleared, Listen, Open, Start,
                        UndoOpen, UndoListen, CiGoto, CiReturn
    <3>2. QED
      BY <2>2, <3>1 DEF Fits
  <2> USE <2>1, <2>2
  <2>3. CASE GetPort(c)
    BY <2>3 DEF GetPort, AfterGetPort, MustRelease, CiGoto, CiReturn, Fits, ServiceMatchesAdapter,
                StateFits, ListenersFit, Mine, New, Reaches, AfterRelease
  <2>4. CASE Stop(c)
    BY <2>4 DEF Stop, CiGoto, Spoils, Fits, ServiceMatchesAdapter, StateFits, ListenersFit, Mine,
                New, Reaches, Succeeds, AfterRelease
  <2>5. CASE Unlisten(c)
    BY <2>5 DEF Unlisten, CiGoto, Spoils, Fits, ServiceMatchesAdapter, StateFits, ListenersFit, Mine,
                New, Reaches, Succeeds, AfterRelease
  <2>6. CASE Close(c)
    BY <2>6 DEF Close, CiGoto, Spoils, Fits, ServiceMatchesAdapter, StateFits, ListenersFit, Mine,
                New, Reaches, Succeeds, AfterRelease
  <2>7. CASE Cleared(c)
    BY <2>7 DEF Cleared, CiReturn, Fits, ServiceMatchesAdapter, StateFits, ListenersFit, Mine, New,
                Reaches, AfterRelease
  <2>8. CASE Listen(c)
    BY <2>8 DEF Listen, CiGoto, CiReturn, Fits, ServiceMatchesAdapter, StateFits, ListenersFit, Mine,
                New, Reaches, Succeeds, AfterRelease
  <2>9. CASE Open(c)
    BY <2>9 DEF Open, CiGoto, Fits, ServiceMatchesAdapter, StateFits, ListenersFit, Mine, New,
                Reaches, Succeeds, AfterRelease
  <2>10. CASE Start(c)
    BY <2>10 DEF Start, CiGoto, CiReturn, Fits, ServiceMatchesAdapter, StateFits, ListenersFit, Mine,
                 New, Reaches, Succeeds, AfterRelease
  <2>11. CASE UndoOpen(c)
    BY <2>11 DEF UndoOpen, CiGoto, Spoils, Fits, ServiceMatchesAdapter, StateFits, ListenersFit,
                 Mine, New, Reaches, Succeeds, AfterRelease
  <2>12. CASE UndoListen(c)
    BY <2>12 DEF UndoListen, CiReturn, Spoils, Fits, ServiceMatchesAdapter, StateFits, ListenersFit,
                 Mine, New, Reaches, Succeeds, AfterRelease
  <2>13. QED
    BY <1>3, <2>3, <2>4, <2>5, <2>6, <2>7, <2>8, <2>9, <2>10, <2>11, <2>12 DEF CallerStep
<1>4. CASE ServiceDies
  BY <1>4 DEF ServiceDies, Fits, ServiceMatchesAdapter, StateFits, ListenersFit, Mine, New, Reaches
<1>5. CASE ServiceStarts
  BY <1>5 DEF ServiceStarts, Fits, ServiceMatchesAdapter, StateFits, ListenersFit, Mine, New,
              Reaches
<1>6. CASE UNCHANGED ciVars
  BY <1>6 DEF ciVars, Fits, ServiceMatchesAdapter, StateFits, ListenersFit, Mine, New, Reaches
<1>7. QED
  BY <1>1, <1>2, <1>3, <1>4, <1>5, <1>6 DEF CiNext

-----------------------------------------------------------------------------
\* Between operations the service holds what the adapter remembers, while no
\* release failed (SelectCompositeInPort, StopActivePort, DeInitialiseHAL).
THEOREM ServiceHoldsWhatIsRemembered ==
  ASSUME CiConstants
  PROVE  CiSpec => []ServiceMatchesAdapter
<1>1. CompositeInv /\ [CiNext]_ciVars => CompositeInv'
  BY CiTypesStep, TurnsStep, FitsStep DEF CompositeInv
<1>2. CompositeInv => ServiceMatchesAdapter
  BY DEF CompositeInv, Fits, ServiceMatchesAdapter
<1>3. CiInit => CompositeInv
  BY CompositeInit
<1>4. QED
  BY <1>1, <1>2, <1>3, PTL DEF CiSpec

\* At no moment are two ports open, while no release failed: the active port
\* is given up before the next is opened (SelectCompositeInPort).
THEOREM OneOpenPort ==
  ASSUME CiConstants
  PROVE  CiSpec => []OnePortOpen
<1>1. CompositeInv /\ [CiNext]_ciVars => CompositeInv'
  BY CiTypesStep, TurnsStep, FitsStep DEF CompositeInv
<1>2. CompositeInv => OnePortOpen
  <2> SUFFICES ASSUME CompositeInv, ~spoiled, NEW p \in Ports, NEW q \in Ports,
                      state[p] # "CLOSED", state[q] # "CLOSED"
               PROVE  p = q
    BY DEF OnePortOpen
  <2>1. CASE held = Free
    BY <2>1 DEF CompositeInv, Fits, ServiceMatchesAdapter
  <2>2. ASSUME NEW c \in CiCallers, held = c
        PROVE  p = q
    BY <2>2 DEF CiConstants, CompositeInv, Turns, Fits, StateFits, Mine, New, AfterRelease
  <2>3. QED
    BY <2>1, <2>2 DEF CompositeInv, CiTypes
<1>3. CiInit => CompositeInv
  BY CompositeInit
<1>4. QED
  BY <1>1, <1>2, <1>3, PTL DEF CiSpec

-----------------------------------------------------------------------------
(* The HDMI output.                                                        *)

Stages == {"new", "listen", "open", "start", "load", "opened", "up", "stop", "unregister", "closed"}
HoRequests ==
  [step : {"connected", "set"}, adapter : {"port"}, mode : Modes, persist : BOOLEAN]
  \cup [step : {"persist", "copy"}, adapter : {"port"}, mode : Modes, persist : {TRUE}]
  \cup [step : {"persist4K"}, adapter : {"port"}, value : BOOLEAN, persist : {FALSE}]
  \cup [step : {"rate"}, adapter : {"device"}, rate : {24, 60}, persist : {FALSE}]
  \cup [step : {"set", "post"}, adapter : {"device"}, mode : Modes, persist : {FALSE}]
HoTypes ==
  /\ hoStage \in [Adapters -> Stages]
  /\ vic \in Modes /\ _persistedResolution \in Modes
  /\ hoSaved \in [resolution : Modes, no4K : BOOLEAN]
  /\ hoEvents \in [Adapters -> Nat]
  /\ hoRead \in [Adapters -> Modes \cup {Nothing}] /\ told \in [Adapters -> Modes \cup {Nothing}]
  /\ hoCall \in [HoCallers -> HoRequests \cup {NoHoCall}]
  /\ _force4KDisabled \in BOOLEAN

\* A mode is never the record for none.
LEMMA ModesAreSomething == Default \in Modes /\ Nothing \notin Modes
BY DEF Modes, Default, Nothing

\* What a request is about.
LEMMA RequestKinds ==
  /\ NoHoCall.step = "none"
  /\ \A r \in HoRequests :
       /\ r.step # "none" /\ r.adapter \in Adapters /\ r.persist \in BOOLEAN
       /\ r.persist => r.adapter = "port"
       /\ r.step \in {"persist", "copy"} => r.persist = TRUE
       /\ r.step \in {"connected", "set", "persist", "copy", "post"} => r.mode \in Modes
       /\ r.step \in {"connected", "persist", "copy", "persist4K"} => r.adapter = "port"
       /\ r.step \in {"rate", "post"} => r.adapter = "device" /\ r.persist = FALSE
       /\ r.step = "persist4K" => r.value \in BOOLEAN /\ r.persist = FALSE
       /\ r.step = "rate" => r.rate \in {24, 60}
BY DEF HoRequests, NoHoCall, Adapters

\* The next step of a request under way.
LEMMA RequestSteps ==
  ASSUME NEW r \in HoRequests, NEW s,
         \/ r.step = "connected" /\ s = "set"
         \/ r.step = "set" /\ r.adapter = "device" /\ s = "post"
         \/ r.step = "set" /\ r.adapter # "device" /\ r.persist /\ s = "persist"
         \/ r.step = "persist" /\ s = "copy"
  PROVE  LET q == [r EXCEPT !.step = s] IN
         /\ q \in HoRequests /\ q.step = s
         /\ q.mode = r.mode /\ q.adapter = r.adapter /\ q.persist = r.persist
<1>1. CASE r \in [step : {"connected", "set"}, adapter : {"port"}, mode : Modes, persist : BOOLEAN]
  BY <1>1 DEF HoRequests
<1>2. CASE r \in [step : {"persist", "copy"}, adapter : {"port"}, mode : Modes, persist : {TRUE}]
  BY <1>2 DEF HoRequests
<1>3. CASE r \in [step : {"set", "post"}, adapter : {"device"}, mode : Modes, persist : {FALSE}]
  BY <1>3 DEF HoRequests
<1> QED BY <1>1, <1>2, <1>3 DEF HoRequests

\* The types hold before the adapters are created.
LEMMA HoTypesStart == HoInit => HoTypes
<1> SUFFICES ASSUME HoInit PROVE HoTypes
  OBVIOUS
<1>1. hoSaved \in [resolution : Modes, no4K : BOOLEAN]
  BY ModesAreSomething DEF HoInit
<1> QED BY <1>1, ModesAreSomething DEF HoInit, HoTypes, Stages

HoCallTo(c, r) == hoCall' = [hoCall EXCEPT ![c] = r]
\* The call a client begins, and what is remembered of two persisted ones.
BeginsWith(c, r) ==
  /\ HoCallTo(c, r) /\ hoCall[c] = NoHoCall /\ HoServed(r.adapter)
  /\ r.step \in {"connected", "persist4K", "rate"}
  /\ ~crossed' => ~crossed
  /\ r.persist /\ ~crossed' => \A d \in HoCallers : hoCall[d] # NoHoCall => ~hoCall[d].persist

\* Each of the three requests begins so.
LEMMA CallBegins ==
  ASSUME HoTypes, NEW c \in HoCallers,
         \/ \E m \in Modes, p \in BOOLEAN : SetVideoPortResolution(c, m, p)
         \/ \E b \in BOOLEAN : SetForceDisable4K(c, b)
         \/ \E v \in {24, 60} : HoSetDisplayFrameRate(c, v)
  PROVE  \E r \in HoRequests : BeginsWith(c, r)
<1>1. ASSUME NEW m \in Modes, NEW p \in BOOLEAN, SetVideoPortResolution(c, m, p)
      PROVE  \E r \in HoRequests : BeginsWith(c, r)
  <2> DEFINE r == [step |-> "connected", adapter |-> "port", mode |-> m, persist |-> p]
  <2>1. r \in HoRequests /\ r.adapter = "port" /\ r.persist = p /\ r.step = "connected"
    BY DEF HoRequests
  <2>2. hoCall' = [hoCall EXCEPT ![c] = r] /\ HoServed("port") /\ hoCall[c] = NoHoCall
        /\ crossed' = (crossed \/ (p /\ \E d \in HoCallers : hoCall[d] # NoHoCall /\ hoCall[d].persist))
    BY <1>1 DEF SetVideoPortResolution, HoBegin
  <2> HIDE DEF r
  <2> QED BY <2>1, <2>2 DEF BeginsWith, HoCallTo
<1>2. ASSUME NEW b \in BOOLEAN, SetForceDisable4K(c, b)
      PROVE  \E r \in HoRequests : BeginsWith(c, r)
  <2> DEFINE r == [step |-> "persist4K", adapter |-> "port", value |-> b, persist |-> FALSE]
  <2>1. r \in HoRequests /\ r.adapter = "port" /\ r.persist = FALSE /\ r.step = "persist4K"
    BY DEF HoRequests
  <2>2. hoCall' = [hoCall EXCEPT ![c] = r] /\ HoServed("port") /\ hoCall[c] = NoHoCall /\ UNCHANGED crossed
    BY <1>2 DEF SetForceDisable4K, HoBegin
  <2> HIDE DEF r
  <2> QED BY <2>1, <2>2 DEF BeginsWith, HoCallTo
<1>3. ASSUME NEW v \in {24, 60}, HoSetDisplayFrameRate(c, v)
      PROVE  \E r \in HoRequests : BeginsWith(c, r)
  <2> DEFINE r == [step |-> "rate", adapter |-> "device", rate |-> v, persist |-> FALSE]
  <2>1. r \in HoRequests /\ r.adapter = "device" /\ r.persist = FALSE /\ r.step = "rate"
    BY DEF HoRequests
  <2>2. hoCall' = [hoCall EXCEPT ![c] = r] /\ HoServed("device") /\ hoCall[c] = NoHoCall /\ UNCHANGED crossed
    BY <1>3 DEF HoSetDisplayFrameRate, HoBegin
  <2> HIDE DEF r
  <2> QED BY <2>1, <2>2 DEF BeginsWith, HoCallTo
<1> QED BY <1>1, <1>2, <1>3

\* The step a call takes: it is over, or goes on as what it was.
GoesOnAs(c, r) ==
  /\ HoCallTo(c, r) /\ hoCall[c] \in HoRequests /\ UNCHANGED crossed
  /\ r # NoHoCall =>
       /\ r \in HoRequests /\ r.adapter = hoCall[c].adapter /\ r.persist = hoCall[c].persist
       /\ r.step \in {"set", "post", "persist", "copy"}
       /\ r.step = "copy" => hoCall[c].step = "persist" /\ r.mode = hoCall[c].mode /\ r.persist = TRUE
                             /\ persistHostProperty(c) /\ hoSaved' = [hoSaved EXCEPT !.resolution = r.mode]

\* Each step of a call ends it or goes on so.
LEMMA CallGoesOn ==
  ASSUME HoTypes, NEW c \in HoCallers,
         CheckConnected(c) \/ SetVic(c) \/ persistHostProperty(c) \/ CopyResolution(c) \/ Persist4K(c)
           \/ ReadVic(c) \/ HoPostChange(c)
  PROVE  \E r \in HoRequests \cup {NoHoCall} : GoesOnAs(c, r)
<1>0. hoCall[c] \in HoRequests /\ UNCHANGED crossed
  BY RequestKinds DEF HoTypes, CheckConnected, SetVic, persistHostProperty, CopyResolution, Persist4K, ReadVic, HoPostChange
<1>1. ASSUME HoDone(c) PROVE GoesOnAs(c, NoHoCall)
  BY <1>0, <1>1 DEF GoesOnAs, HoDone, HoCallTo
<1>2. ASSUME NEW s, HoGoto(c, s),
        \/ hoCall[c].step = "connected" /\ s = "set"
        \/ hoCall[c].step = "set" /\ hoCall[c].adapter = "device" /\ s = "post"
        \/ hoCall[c].step = "set" /\ hoCall[c].adapter # "device" /\ hoCall[c].persist /\ s = "persist"
        \/ /\ hoCall[c].step = "persist" /\ s = "copy" /\ persistHostProperty(c)
           /\ hoSaved' = [hoSaved EXCEPT !.resolution = hoCall[c].mode]
      PROVE  \E r \in HoRequests : GoesOnAs(c, r)
  <2> DEFINE r == [hoCall[c] EXCEPT !.step = s]
  <2>1. /\ r \in HoRequests /\ r.step = s
        /\ r.mode = hoCall[c].mode /\ r.adapter = hoCall[c].adapter /\ r.persist = hoCall[c].persist
    BY <1>0, <1>2, RequestSteps
  <2>2. hoCall' = [hoCall EXCEPT ![c] = r]
    BY <1>2, Zenon DEF HoGoto
  <2> HIDE DEF r
  <2>3. s = "copy" => r.persist = TRUE
    BY <2>1, RequestKinds
  <2> QED BY <1>0, <1>2, <2>1, <2>2, <2>3 DEF GoesOnAs, HoCallTo
<1>3. CASE CheckConnected(c)
  BY <1>1, <1>2, <1>3 DEF CheckConnected
<1>4. CASE SetVic(c)
  BY <1>1, <1>2, <1>4 DEF SetVic
<1>5. CASE persistHostProperty(c)
  <2>1. CASE hoSaved' = [hoSaved EXCEPT !.resolution = hoCall[c].mode] /\ HoGoto(c, "copy")
    <3>1. hoCall[c].step = "persist"
      BY <1>5 DEF persistHostProperty
    <3> QED BY <1>2, <1>5, <2>1, <3>1
  <2>2. CASE HoDone(c)
    BY <1>1, <2>2
  <2> QED BY <1>5, <2>1, <2>2 DEF persistHostProperty
<1>6. CASE CopyResolution(c) \/ Persist4K(c) \/ HoPostChange(c)
  BY <1>1, <1>6 DEF CopyResolution, Persist4K, HoPostChange
<1>7. CASE ReadVic(c)
  <2>1. CASE HoDone(c)
    BY <1>1, <2>1
  <2>2. CASE \E m \in FindByFamilyAndRate(vic, hoCall[c].rate) :
                hoCall' = [hoCall EXCEPT ![c] = [step |-> "set", adapter |-> "device", mode |-> m, persist |-> FALSE]]
    <3>1. PICK m \in Modes : hoCall' = [hoCall EXCEPT ![c] = [step |-> "set", adapter |-> "device", mode |-> m, persist |-> FALSE]]
      BY <2>2 DEF FindByFamilyAndRate
    <3> DEFINE r == [step |-> "set", adapter |-> "device", mode |-> m, persist |-> FALSE]
    <3>2. r \in HoRequests /\ r.step = "set" /\ r.adapter = "device" /\ r.persist = FALSE
      BY DEF HoRequests
    <3>3. hoCall[c].adapter = "device" /\ hoCall[c].persist = FALSE
      BY <1>0, <1>7, RequestKinds DEF ReadVic
    <3>4. HoCallTo(c, r)
      BY <3>1 DEF HoCallTo
    <3> HIDE DEF r
    <3> QED BY <1>0, <3>2, <3>3, <3>4 DEF GoesOnAs
  <2> QED BY <1>7, <2>1, <2>2 DEF ReadVic
<1> QED BY <1>3, <1>4, <1>5, <1>6, <1>7

HoCallBegins(c) ==
  \/ \E m \in Modes, p \in BOOLEAN : SetVideoPortResolution(c, m, p)
  \/ \E b \in BOOLEAN : SetForceDisable4K(c, b)
  \/ \E v \in {24, 60} : HoSetDisplayFrameRate(c, v)
HoCallSteps(c) ==
  CheckConnected(c) \/ SetVic(c) \/ persistHostProperty(c) \/ CopyResolution(c) \/ Persist4K(c)
    \/ ReadVic(c) \/ HoPostChange(c)
HoMoves(a) ==
  \/ GetHDMIOutput(a) \/ RegisterEventListener(a) \/ HoOpen(a) \/ HoStart(a)
  \/ HoGetPersistenceValue(a) \/ setAllCallbacks(a) \/ HoDeInitialiseHAL(a)
  \/ CloseController(a) \/ UnregisterEventListener(a)

\* An adapter goes to its next stage.
LEMMA StageMoves ==
  ASSUME HoTypes, NEW a \in Adapters, HoMoves(a)
  PROVE  /\ hoStage' \in [Adapters -> Stages]
         /\ \A b \in Adapters \ {a} : hoStage'[b] = hoStage[b]
         /\ \/ hoStage[a] = "new" /\ hoStage'[a] \in {"listen", "closed"}
            \/ hoStage[a] = "listen" /\ hoStage'[a] = "open"
            \/ hoStage[a] = "open" /\ hoStage'[a] \in {"start", "unregister"}
            \/ hoStage[a] = "start" /\ hoStage'[a] \in {"load", "stop"}
            \/ hoStage[a] = "load" /\ hoStage'[a] = "opened" /\ HoGetPersistenceValue(a)
            \/ hoStage[a] = "opened" /\ hoStage'[a] = "up"
            \/ hoStage[a] = "up" /\ hoStage'[a] = "stop" /\ \A c \in HoCallers : hoCall[c] = NoHoCall
            \/ hoStage[a] = "stop" /\ hoStage'[a] = "unregister"
            \/ hoStage[a] = "unregister" /\ hoStage'[a] = "closed"
         /\ UNCHANGED <<vic, hoConnected, hoTold, hoSaved, hoCall, crossed>>
         /\ (HoGetPersistenceValue(a) /\ a = "port") \/ UNCHANGED hoCache
<1>0. hoStage \in [Adapters -> Stages]
  BY DEF HoTypes
<1>1. CASE GetHDMIOutput(a)
  BY <1>0, <1>1 DEF GetHDMIOutput, To, HoLifecycle, Stages
<1>2. CASE RegisterEventListener(a)
  BY <1>0, <1>2 DEF RegisterEventListener, To, HoLifecycle, Stages
<1>3. CASE HoOpen(a)
  BY <1>0, <1>3 DEF HoOpen, To, HoLifecycle, Stages
<1>4. CASE HoStart(a)
  BY <1>0, <1>4 DEF HoStart, To, HoLifecycle, Stages
<1>5. CASE HoGetPersistenceValue(a)
  BY <1>0, <1>5 DEF HoGetPersistenceValue, To, HoLifecycle, Stages
<1>6. CASE setAllCallbacks(a)
  BY <1>0, <1>6 DEF setAllCallbacks, To, HoLifecycle, Stages
<1>7. CASE HoDeInitialiseHAL(a)
  BY <1>0, <1>7 DEF HoDeInitialiseHAL, To, HoLifecycle, Stages
<1>8. CASE CloseController(a)
  BY <1>0, <1>8 DEF CloseController, To, HoLifecycle, Stages
<1>9. CASE UnregisterEventListener(a)
  BY <1>0, <1>9 DEF UnregisterEventListener, To, HoLifecycle, Stages
<1> QED BY <1>1, <1>2, <1>3, <1>4, <1>5, <1>6, <1>7, <1>8, <1>9 DEF HoMoves

\* Every step keeps the types.
LEMMA HoTypesStep == HoTypes /\ [HoNext]_hoVars => HoTypes'
<1> SUFFICES ASSUME HoTypes, [HoNext]_hoVars PROVE HoTypes'
  OBVIOUS
<1>1. CASE UNCHANGED hoVars
  BY <1>1 DEF HoTypes, hoVars, hoService, hoTold, hoCache
<1>2. ASSUME NEW a \in Adapters, HoMoves(a) PROVE HoTypes'
  <2>0. hoSaved.resolution \in Modes /\ hoSaved.no4K \in BOOLEAN
    BY DEF HoTypes
  <2>1. _persistedResolution' \in Modes /\ _force4KDisabled' \in BOOLEAN
    <3>1. CASE HoGetPersistenceValue(a)
      BY <2>0, <3>1 DEF HoTypes, HoGetPersistenceValue, hoCache
    <3>2. CASE ~HoGetPersistenceValue(a)
      BY <1>2, <3>2, StageMoves DEF HoTypes, hoCache
    <3> QED BY <3>1, <3>2
  <2> QED BY <1>2, <2>1, StageMoves DEF HoTypes, hoTold
<1>3. ASSUME NEW a \in Adapters, OnFrameRateChanged(a) \/ OnResolutionPostChange(a) PROVE HoTypes'
  <2>1. CASE OnFrameRateChanged(a)
    <3>1. hoEvents' \in [Adapters -> Nat]
      <4>1. hoEvents' = [hoEvents EXCEPT ![a] = hoEvents[a] - 1] /\ hoEvents[a] \in Nat /\ hoEvents[a] > 0
        BY <2>1 DEF OnFrameRateChanged, HoTypes
      <4>2. hoEvents[a] - 1 \in Nat
        BY <4>1
      <4> QED BY <4>1, <4>2 DEF HoTypes
    <3>2. hoRead' \in [Adapters -> Modes \cup {Nothing}]
      BY <2>1 DEF OnFrameRateChanged, HoTypes, GetVideoPortResolution
    <3>3. UNCHANGED <<hoStage, hoService, told, hoSaved, hoCache, hoCall>>
      BY <2>1 DEF OnFrameRateChanged
    <3> QED BY <3>1, <3>2, <3>3 DEF HoTypes, hoService, hoCache
  <2>2. CASE OnResolutionPostChange(a)
    BY <2>2 DEF OnResolutionPostChange, HoTypes, hoService, hoCache
  <2> QED BY <1>3, <2>1, <2>2
<1>4. CASE Recreate \/ ServiceRestarts \/ HoPlug
  BY <1>4, ModesAreSomething DEF Recreate, ServiceRestarts, HoPlug, HoTypes, hoService, hoCache, hoTold, Stages
<1>5. ASSUME NEW c \in HoCallers, HoCallBegins(c) PROVE HoTypes'
  <2>1. hoCall' \in [HoCallers -> HoRequests \cup {NoHoCall}]
    BY <1>5, CallBegins DEF HoCallBegins, BeginsWith, HoCallTo, HoTypes
  <2>2. UNCHANGED <<hoStage, hoService, hoTold, hoSaved, _persistedResolution>> /\ _force4KDisabled' \in BOOLEAN
    BY <1>5 DEF HoCallBegins, SetVideoPortResolution, SetForceDisable4K, HoSetDisplayFrameRate, HoBegin, hoCache, HoTypes
  <2> QED BY <2>1, <2>2 DEF HoTypes, hoService, hoTold
<1>6. ASSUME NEW c \in HoCallers, HoCallSteps(c) PROVE HoTypes'
  <2>1. hoCall' \in [HoCallers -> HoRequests \cup {NoHoCall}] /\ hoCall[c] \in HoRequests
    <3>1. PICK r \in HoRequests \cup {NoHoCall} : GoesOnAs(c, r)
      BY <1>6, CallGoesOn DEF HoCallSteps
    <3>2. hoCall' = [hoCall EXCEPT ![c] = r] /\ hoCall[c] \in HoRequests
      BY <3>1 DEF GoesOnAs, HoCallTo
    <3> QED BY <3>2 DEF HoTypes
  <2>2. CASE SetVic(c)
    <3>1. vic' \in Modes
      BY <2>1, <2>2, RequestKinds DEF SetVic, ChangesTo, HoTypes
    <3>2. hoEvents' \in [Adapters -> Nat]
      <4>1. \/ UNCHANGED hoEvents
            \/ hoEvents' = [a \in Adapters |-> IF a \in sessions THEN hoEvents[a] + 1 ELSE hoEvents[a]]
        BY <2>2 DEF SetVic, ChangesTo
      <4>2. \A a \in Adapters : hoEvents[a] \in Nat /\ hoEvents[a] + 1 \in Nat
        BY DEF HoTypes
      <4> QED BY <4>1, <4>2 DEF HoTypes
    <3>3. UNCHANGED <<hoStage, hoRead, told, hoSaved, hoCache>>
      BY <2>2 DEF SetVic, HoCallLeaves
    <3> QED BY <2>1, <3>1, <3>2, <3>3 DEF HoTypes, hoCache
  <2>3. CASE persistHostProperty(c) \/ Persist4K(c)
    <3>1. hoSaved' \in [resolution : Modes, no4K : BOOLEAN]
      BY <2>1, <2>3, RequestKinds DEF persistHostProperty, Persist4K, HoTypes
    <3>2. UNCHANGED <<hoStage, vic, hoTold, hoCache>>
      BY <2>3 DEF persistHostProperty, Persist4K, HoCallLeaves
    <3> QED BY <2>1, <3>1, <3>2 DEF HoTypes, hoTold, hoCache
  <2>4. CASE CopyResolution(c) \/ HoPostChange(c)
    <3>1. hoCall[c].mode \in Modes
      BY <2>1, <2>4, RequestKinds DEF CopyResolution, HoPostChange
    <3> QED BY <2>1, <2>4, <3>1 DEF CopyResolution, HoPostChange, HoTypes, HoCallLeaves, hoTold, hoCache
  <2>5. CASE CheckConnected(c) \/ ReadVic(c)
    BY <2>1, <2>5 DEF CheckConnected, ReadVic, HoTypes, HoCallLeaves, hoTold, hoCache
  <2> QED BY <1>6, <2>2, <2>3, <2>4, <2>5 DEF HoCallSteps
<1> QED BY <1>1, <1>2, <1>3, <1>4, <1>5, <1>6 DEF HoNext, HoMoves, HoCallBegins, HoCallSteps

-----------------------------------------------------------------------------
\* What an adapter has left with the service at each stage.
HeldInv == \A a \in Adapters \ hoSpoiled :
  /\ hoStage[a] \in {"new", "listen", "open", "unregister", "closed"} => a \notin sessions
  /\ hoStage[a] \in {"new", "listen", "closed"} => a \notin hoListeners

\* Creation and destruction, whichever of their Binder calls fail.
LEMMA HeldMoves == ASSUME HoTypes, HeldInv, NEW a \in Adapters, HoMoves(a) PROVE HeldInv'
<1> USE DEF HeldInv
<1>0. hoStage \in [Adapters -> Stages] /\ \A b \in Adapters \ {a} : hoStage'[b] = hoStage[b]
  BY StageMoves DEF HoTypes
<1>1. CASE GetHDMIOutput(a)
  BY <1>0, <1>1 DEF GetHDMIOutput, To
<1>2. CASE RegisterEventListener(a)
  BY <1>0, <1>2 DEF RegisterEventListener, To
<1>3. CASE HoOpen(a)
  BY <1>0, <1>3 DEF HoOpen, To
<1>4. CASE HoStart(a) \/ HoGetPersistenceValue(a) \/ setAllCallbacks(a) \/ HoDeInitialiseHAL(a)
  <2>1. UNCHANGED <<sessions, hoListeners, hoSpoiled>> /\ hoStage'[a] \in {"load", "stop", "opened", "up"}
    BY <1>0, <1>4 DEF HoStart, HoGetPersistenceValue, setAllCallbacks, HoDeInitialiseHAL, To
  <2> QED BY <1>0, <2>1
<1>5. CASE CloseController(a)
  BY <1>0, <1>5 DEF CloseController, To
<1>6. CASE UnregisterEventListener(a)
  BY <1>0, <1>6 DEF UnregisterEventListener, To
<1> QED BY <1>1, <1>2, <1>3, <1>4, <1>5, <1>6 DEF HoMoves

\* Every step keeps what an adapter holds to its stage.
LEMMA HeldStep == HoTypes /\ HeldInv /\ [HoNext]_hoVars => HeldInv'
<1> SUFFICES ASSUME HoTypes, HeldInv, [HoNext]_hoVars PROVE HeldInv'
  OBVIOUS
<1>1. ASSUME UNCHANGED <<hoStage, sessions, hoListeners, hoSpoiled>> PROVE HeldInv'
  BY <1>1 DEF HeldInv
<1>2. CASE UNCHANGED hoVars \/ HoPlug
  BY <1>1, <1>2 DEF hoVars, hoService, HoPlug
<1>3. ASSUME NEW a \in Adapters, OnFrameRateChanged(a) \/ OnResolutionPostChange(a) PROVE HeldInv'
  BY <1>1, <1>3 DEF OnFrameRateChanged, OnResolutionPostChange, hoService
<1>4. ASSUME NEW c \in HoCallers, HoCallBegins(c) PROVE HeldInv'
  BY <1>1, <1>4 DEF HoCallBegins, SetVideoPortResolution, SetForceDisable4K, HoSetDisplayFrameRate, HoBegin, hoService
<1>5. ASSUME NEW c \in HoCallers, HoCallSteps(c) PROVE HeldInv'
  BY <1>1, <1>5 DEF HoCallSteps, CheckConnected, SetVic, persistHostProperty, CopyResolution, Persist4K, ReadVic,
       HoPostChange, HoCallLeaves
<1>6. CASE Recreate \/ ServiceRestarts
  BY <1>6 DEF HeldInv, Recreate, ServiceRestarts, hoService
<1> QED BY <1>2, <1>3, <1>4, <1>5, <1>6, HeldMoves DEF HoNext, HoMoves, HoCallBegins, HoCallSteps

-----------------------------------------------------------------------------
Opened == {"start", "load", "opened", "up", "stop"}
Opening == {"new", "listen", "open", "start", "load", "opened"}
\* A linked adapter that is open has its session, so every new mode is on its
\* way to it; with none on its way, it has told the mode or is about to.
ToldInv == \A a \in Adapters :
  /\ hoStage[a] \in Opened /\ a \in linked => a \in sessions
  /\ a \notin untold => a \in linked
  /\ hoStage[a] \in Opening => a \in untold
  /\ a \notin untold /\ hoStage[a] = "up" /\ hoEvents[a] = 0 =>
       IF hoRead[a] = Nothing THEN told[a] = vic ELSE hoRead[a] = vic

\* An adapter that opens has its session before it can be told.
LEMMA ToldMoves == ASSUME HoTypes, ToldInv, NEW a \in Adapters, HoMoves(a) PROVE ToldInv'
<1>0. /\ hoStage \in [Adapters -> Stages] /\ \A b \in Adapters \ {a} : hoStage'[b] = hoStage[b]
      /\ UNCHANGED <<vic, hoEvents, hoRead, told, untold>>
  BY StageMoves DEF HoTypes, hoTold
<1>1. CASE GetHDMIOutput(a)
  <2>1. hoStage[a] = "new" /\ hoStage'[a] \in {"listen", "closed"} /\ UNCHANGED sessions
        /\ (linked' = linked \/ linked' = linked \cup {a})
    BY <1>0, <1>1 DEF GetHDMIOutput, To
  <2> QED BY <1>0, <2>1 DEF ToldInv, Opened, Opening
<1>2. CASE HoOpen(a)
  <2>1. /\ hoStage[a] = "open" /\ UNCHANGED linked
        /\ \/ sessions' = sessions \cup {a} /\ hoStage'[a] = "start"
           \/ sessions' = sessions /\ hoStage'[a] = "unregister"
    BY <1>0, <1>2 DEF HoOpen, To
  <2> QED BY <1>0, <2>1 DEF ToldInv, Opened, Opening
<1>3. CASE CloseController(a)
  <2>1. hoStage[a] = "stop" /\ hoStage'[a] = "unregister" /\ UNCHANGED linked
        /\ \A b \in Adapters \ {a} : b \in sessions' <=> b \in sessions
    BY <1>0, <1>3 DEF CloseController, To
  <2> QED BY <1>0, <2>1 DEF ToldInv, Opened, Opening
<1>4. CASE \/ RegisterEventListener(a) \/ HoStart(a) \/ HoGetPersistenceValue(a) \/ setAllCallbacks(a)
           \/ HoDeInitialiseHAL(a) \/ UnregisterEventListener(a)
  <2>1. UNCHANGED <<sessions, linked>>
        /\ \/ hoStage[a] = "listen" /\ hoStage'[a] = "open"
           \/ hoStage[a] = "start" /\ hoStage'[a] \in {"load", "stop"}
           \/ hoStage[a] = "load" /\ hoStage'[a] = "opened"
           \/ hoStage[a] = "opened" /\ hoStage'[a] = "up"
           \/ hoStage[a] = "up" /\ hoStage'[a] = "stop"
           \/ hoStage[a] = "unregister" /\ hoStage'[a] = "closed"
    BY <1>0, <1>4 DEF RegisterEventListener, HoStart, HoGetPersistenceValue, setAllCallbacks,
         HoDeInitialiseHAL, UnregisterEventListener, To
  <2> QED BY <1>0, <2>1 DEF ToldInv, Opened, Opening
<1> QED BY <1>1, <1>2, <1>3, <1>4 DEF HoMoves

\* The handler reads the mode and tells it.
LEMMA ToldListener ==
  ASSUME HoTypes, ToldInv, NEW a \in Adapters, OnFrameRateChanged(a) \/ OnResolutionPostChange(a)
  PROVE  ToldInv'
<1>0. UNCHANGED <<hoStage, linked, sessions, vic>>
  BY DEF OnFrameRateChanged, OnResolutionPostChange, hoService
<1>1. CASE OnFrameRateChanged(a)
  <2>1. \A b \in Adapters \ {a} : hoEvents'[b] = hoEvents[b] /\ hoRead'[b] = hoRead[b]
                                  /\ (b \in untold' <=> b \in untold)
    BY <1>1 DEF OnFrameRateChanged, HoTypes
  <2>2. UNCHANGED told
    BY <1>1 DEF OnFrameRateChanged
  <2>3. a \notin untold' => a \in linked /\ hoStage[a] = "up" /\ hoRead'[a] = vic /\ vic # Nothing
    BY <1>1, ModesAreSomething DEF OnFrameRateChanged, HoTypes, Binder, GetVideoPortResolution
  <2> QED BY <1>0, <2>1, <2>2, <2>3 DEF ToldInv, Opening
<1>2. CASE OnResolutionPostChange(a)
  <2>1. UNCHANGED <<hoEvents, untold>> /\ hoRead[a] # Nothing /\ told'[a] = hoRead[a] /\ hoRead'[a] = Nothing
        /\ \A b \in Adapters \ {a} : hoRead'[b] = hoRead[b] /\ told'[b] = told[b]
    BY <1>2 DEF OnResolutionPostChange, HoTypes
  <2> QED BY <1>0, <2>1 DEF ToldInv
<1> QED BY <1>1, <1>2

\* A new mode is on its way to every session that was not yet told of it.
LEMMA ToldCalls == ASSUME HoTypes, ToldInv, NEW c \in HoCallers, HoCallSteps(c) PROVE ToldInv'
<1>0. UNCHANGED <<hoStage, linked, sessions>>
  BY DEF HoCallSteps, CheckConnected, SetVic, persistHostProperty, CopyResolution, Persist4K, ReadVic,
     HoPostChange, HoCallLeaves
<1>1. ASSUME UNCHANGED <<vic, hoEvents, hoRead, told, untold>> PROVE ToldInv'
  BY <1>0, <1>1 DEF ToldInv
<1>2. CASE SetVic(c)
  <2>1. UNCHANGED <<hoRead, told, untold>>
    BY <1>2 DEF SetVic
  <2>2. CASE hoEvents' = [a \in Adapters |-> IF a \in sessions THEN hoEvents[a] + 1 ELSE hoEvents[a]]
    <3>1. \A a \in Adapters : a \in sessions => hoEvents'[a] # 0
      BY <2>2 DEF HoTypes
    <3> QED BY <1>0, <2>1, <3>1 DEF ToldInv, Opened
  <2> QED BY <1>1, <1>2, <2>1, <2>2 DEF SetVic, ChangesTo
<1>3. CASE HoPostChange(c)
  <2>1. /\ UNCHANGED <<vic, hoEvents, hoRead>> /\ told'["device"] = hoCall[c].mode
        /\ \A b \in Adapters \ {"device"} : told'[b] = told[b] /\ (b \in untold' <=> b \in untold)
        /\ ("device" \notin untold' => "device" \notin untold /\ vic = hoCall[c].mode)
    BY <1>3 DEF HoPostChange, HoTypes, Adapters
  <2>2. untold \subseteq untold'
    BY <1>3 DEF HoPostChange
  <2> SUFFICES ASSUME NEW a \in Adapters
               PROVE  /\ hoStage[a] \in Opened /\ a \in linked => a \in sessions
                      /\ a \notin untold' => a \in linked
                      /\ hoStage[a] \in Opening => a \in untold'
                      /\ a \notin untold' /\ hoStage[a] = "up" /\ hoEvents[a] = 0 =>
                           IF hoRead[a] = Nothing THEN told'[a] = vic ELSE hoRead[a] = vic
    BY <1>0, <2>1 DEF ToldInv
  <2>3. CASE a = "device"
    <3>1. told'[a] = hoCall[c].mode /\ (a \notin untold' => a \notin untold /\ vic = hoCall[c].mode)
          /\ (a \in untold => a \in untold')
      BY <2>1, <2>2, <2>3
    <3> QED BY <3>1 DEF ToldInv
  <2>4. CASE a # "device"
    <3>1. told'[a] = told[a] /\ (a \in untold' <=> a \in untold)
      BY <2>1, <2>4
    <3> QED BY <3>1 DEF ToldInv
  <2> QED BY <2>3, <2>4
<1> QED BY <1>1, <1>2, <1>3 DEF HoCallSteps, CheckConnected, persistHostProperty, CopyResolution, Persist4K, ReadVic, hoTold

\* Every step keeps what was told.
LEMMA ToldStep == HoTypes /\ ToldInv /\ [HoNext]_hoVars => ToldInv'
<1> SUFFICES ASSUME HoTypes, ToldInv, [HoNext]_hoVars PROVE ToldInv'
  OBVIOUS
<1>1. ASSUME UNCHANGED <<hoStage, linked, sessions, vic, hoEvents, hoRead, told, untold>> PROVE ToldInv'
  BY <1>1 DEF ToldInv
<1>2. CASE UNCHANGED hoVars \/ HoPlug
  BY <1>1, <1>2 DEF hoVars, hoService, hoTold, HoPlug
<1>3. ASSUME NEW c \in HoCallers, HoCallBegins(c) PROVE ToldInv'
  BY <1>1, <1>3 DEF HoCallBegins, SetVideoPortResolution, SetForceDisable4K, HoSetDisplayFrameRate, HoBegin, hoService, hoTold
<1>4. CASE Recreate \/ ServiceRestarts
  BY <1>4 DEF ToldInv, Opened, Recreate, ServiceRestarts
<1> QED BY <1>2, <1>3, <1>4, ToldMoves, ToldListener, ToldCalls DEF HoNext, HoMoves, HoCallBegins, HoCallSteps

-----------------------------------------------------------------------------
PersistsMode(c) == hoCall[c] # NoHoCall /\ hoCall[c].persist
\* Between the store and its copy only one call is under way.
SavedInv ==
  /\ \A c \in HoCallers : hoCall[c] # NoHoCall => hoStage[hoCall[c].adapter] = "up"
  /\ ~crossed =>
     /\ \A c, d \in HoCallers : PersistsMode(c) /\ PersistsMode(d) => c = d
     /\ \A c \in HoCallers : hoCall[c].step = "copy" => hoSaved.resolution = hoCall[c].mode
     /\ hoStage["port"] \in {"opened", "up"} /\ (\A c \in HoCallers : hoCall[c].step # "copy") =>
          _persistedResolution = hoSaved.resolution

\* The copy is loaded before the adapter serves.
LEMMA SavedMoves == ASSUME HoTypes, SavedInv, NEW a \in Adapters, HoMoves(a) PROVE SavedInv'
<1>0. /\ \A b \in Adapters \ {a} : hoStage'[b] = hoStage[b]
      /\ UNCHANGED <<hoSaved, hoCall, crossed>>
      /\ (HoGetPersistenceValue(a) /\ a = "port") \/ UNCHANGED _persistedResolution
  BY StageMoves DEF hoCache
<1>1. \A c \in HoCallers : hoCall[c] # NoHoCall => hoCall[c].adapter \in Adapters
  BY RequestKinds DEF HoTypes
<1>2. ASSUME NEW c \in HoCallers, hoCall[c] # NoHoCall PROVE hoStage'[hoCall[c].adapter] = "up"
  <2>1. hoStage[hoCall[c].adapter] = "up"
    BY <1>2 DEF SavedInv
  <2>2. hoCall[c].adapter # a
    BY <1>2, <2>1, StageMoves
  <2> QED BY <1>0, <1>1, <1>2, <2>1, <2>2
<1>3. hoStage'["port"] \in {"opened", "up"} =>
        \/ hoStage["port"] \in {"opened", "up"} /\ UNCHANGED _persistedResolution
        \/ _persistedResolution' = hoSaved.resolution
  <2>1. CASE a = "port"
    BY <1>0, <2>1, StageMoves DEF HoGetPersistenceValue
  <2>2. CASE a # "port"
    BY <1>0, <2>2 DEF Adapters
  <2> QED BY <2>1, <2>2
<1> QED BY <1>0, <1>2, <1>3 DEF SavedInv, PersistsMode

\* A persisted resolution begins alone, or crosses another.
LEMMA SavedBegins == ASSUME HoTypes, SavedInv, NEW c \in HoCallers, HoCallBegins(c) PROVE SavedInv'
<1>0. UNCHANGED <<hoStage, hoSaved, _persistedResolution>>
  BY DEF HoCallBegins, SetVideoPortResolution, SetForceDisable4K, HoSetDisplayFrameRate, HoBegin, hoCache
<1>1. PICK r \in HoRequests : BeginsWith(c, r)
  BY CallBegins DEF HoCallBegins
<1>2. /\ hoCall'[c] = r /\ \A d \in HoCallers \ {c} : hoCall'[d] = hoCall[d]
      /\ hoCall[c].step # "copy" /\ r.step # "copy" /\ hoStage[r.adapter] = "up" /\ (~crossed' => ~crossed)
  BY <1>1, RequestKinds DEF BeginsWith, HoCallTo, HoTypes, HoServed
<1>3. ASSUME NEW d \in HoCallers, hoCall'[d] # NoHoCall PROVE hoStage'[hoCall'[d].adapter] = "up"
  BY <1>0, <1>2, <1>3 DEF SavedInv
<1>4. ASSUME ~crossed', NEW d \in HoCallers, NEW e \in HoCallers, PersistsMode(d)', PersistsMode(e)'
      PROVE  d = e
  <2>1. CASE d # c /\ e # c
    BY <1>2, <1>4, <2>1 DEF SavedInv, PersistsMode
  <2>2. CASE (d = c /\ e # c) \/ (e = c /\ d # c)
    BY <1>1, <1>2, <1>4, <2>2 DEF BeginsWith, PersistsMode
  <2> QED BY <2>1, <2>2
<1>5. \A d \in HoCallers : hoCall'[d].step = "copy" <=> hoCall[d].step = "copy"
  BY <1>2
<1>6. \A d \in HoCallers : hoCall'[d].step = "copy" => hoCall'[d] = hoCall[d]
  BY <1>2
<1> QED BY <1>0, <1>2, <1>3, <1>4, <1>5, <1>6 DEF SavedInv

\* A call stores its mode, then copies it, unless the store threw.
LEMMA SavedGoesOn == ASSUME HoTypes, SavedInv, NEW c \in HoCallers, HoCallSteps(c) PROVE SavedInv'
<1>1. PICK r \in HoRequests \cup {NoHoCall} : GoesOnAs(c, r)
  BY CallGoesOn DEF HoCallSteps
<1>2. /\ hoCall'[c] = r /\ \A d \in HoCallers \ {c} : hoCall'[d] = hoCall[d]
      /\ hoCall[c] \in HoRequests /\ UNCHANGED <<crossed, hoStage>>
      /\ r # NoHoCall => r \in HoRequests /\ r.adapter = hoCall[c].adapter /\ r.persist = hoCall[c].persist
  <2>1. UNCHANGED hoStage
    BY DEF HoCallSteps, CheckConnected, SetVic, persistHostProperty, CopyResolution, Persist4K, ReadVic,
       HoPostChange, HoCallLeaves
  <2> QED BY <1>1, <2>1 DEF GoesOnAs, HoCallTo, HoTypes
<1>3. hoCall[c] # NoHoCall /\ hoCall[c].adapter \in Adapters /\ NoHoCall.step = "none"
  BY <1>2, RequestKinds
<1>4. ASSUME NEW d \in HoCallers, hoCall'[d] # NoHoCall PROVE hoStage'[hoCall'[d].adapter] = "up"
  BY <1>2, <1>3, <1>4 DEF SavedInv
<1>5. \A d \in HoCallers : PersistsMode(d)' => PersistsMode(d)
  BY <1>2, <1>3, Zenon DEF PersistsMode
<1>6. \A d \in HoCallers : hoCall[d].step \in {"persist", "copy"} => PersistsMode(d)
  BY RequestKinds DEF HoTypes, PersistsMode
<1>7. ASSUME ~crossed
      PROVE  /\ \A d \in HoCallers : hoCall'[d].step = "copy" => hoSaved'.resolution = hoCall'[d].mode
             /\ hoStage["port"] \in {"opened", "up"} /\ (\A d \in HoCallers : hoCall'[d].step # "copy") =>
                  _persistedResolution' = hoSaved'.resolution
  <2>1. \A d \in HoCallers \ {c} : PersistsMode(d) => ~PersistsMode(c)
    BY <1>7 DEF SavedInv
  <2>2. CASE persistHostProperty(c)
    <3>0. hoCall[c].step = "persist" /\ UNCHANGED _persistedResolution
      BY <2>2 DEF persistHostProperty, hoCache
    <3>1. \A d \in HoCallers \ {c} : hoCall[d].step # "copy"
      BY <1>6, <2>1, <3>0
    <3>2. CASE hoSaved' = [hoSaved EXCEPT !.resolution = hoCall[c].mode] /\ HoGoto(c, "copy")
      <4>1. hoSaved'.resolution = hoCall[c].mode
        BY <3>2 DEF HoTypes
      <4>2. hoCall'[c].step = "copy" /\ hoCall'[c].mode = hoCall[c].mode
        <5>1. hoCall' = [hoCall EXCEPT ![c] = [hoCall[c] EXCEPT !.step = "copy"]]
          BY <3>2, Zenon DEF HoGoto
        <5>2. LET q == [hoCall[c] EXCEPT !.step = "copy"] IN q.step = "copy" /\ q.mode = hoCall[c].mode
          BY <1>2, <3>0, RequestSteps
        <5> QED BY <5>1, <5>2 DEF HoTypes
      <4> QED BY <1>2, <3>1, <4>1, <4>2
    <3>3. CASE UNCHANGED hoSaved /\ HoDone(c)
      <4>1. hoCall'[c] = NoHoCall
        BY <3>3 DEF HoDone, HoTypes
      <4>2. \A d \in HoCallers : hoCall[d].step # "copy"
        BY <3>0, <3>1
      <4> QED BY <1>2, <1>3, <1>7, <3>0, <3>1, <3>3, <4>1, <4>2 DEF SavedInv
    <3> QED BY <2>2, <3>2, <3>3 DEF persistHostProperty
  <2>3. CASE CopyResolution(c)
    <3>1. hoCall[c].step = "copy" /\ _persistedResolution' = hoCall[c].mode /\ UNCHANGED hoSaved /\ hoCall'[c] = NoHoCall
      BY <2>3 DEF CopyResolution, HoDone, HoTypes
    <3>2. hoSaved.resolution = hoCall[c].mode
      BY <1>7, <3>1 DEF SavedInv
    <3> QED BY <1>2, <1>3, <1>7, <3>1, <3>2 DEF SavedInv
  <2>4. CASE ~persistHostProperty(c) /\ ~CopyResolution(c)
    <3>1. UNCHANGED _persistedResolution /\ hoSaved'.resolution = hoSaved.resolution /\ hoCall[c].step # "copy"
      BY <2>4 DEF HoCallSteps, CheckConnected, SetVic, Persist4K, ReadVic, HoPostChange, hoCache, HoTypes
    <3>2. hoCall'[c].step # "copy"
      BY <1>1, <1>2, <1>3, <2>4 DEF GoesOnAs
    <3> QED BY <1>2, <1>7, <3>1, <3>2 DEF SavedInv
  <2> QED BY <2>2, <2>3, <2>4
<1> QED BY <1>2, <1>4, <1>5, <1>7 DEF SavedInv

\* Every step keeps the copy to the store.
LEMMA SavedStep == HoTypes /\ SavedInv /\ [HoNext]_hoVars => SavedInv'
<1> SUFFICES ASSUME HoTypes, SavedInv, [HoNext]_hoVars PROVE SavedInv'
  OBVIOUS
<1>1. ASSUME UNCHANGED <<hoStage, hoCall, crossed, hoSaved, _persistedResolution>> PROVE SavedInv'
  BY <1>1 DEF SavedInv, PersistsMode
<1>2. CASE UNCHANGED hoVars \/ HoPlug \/ ServiceRestarts
  BY <1>1, <1>2 DEF hoVars, hoCache, HoPlug, ServiceRestarts
<1>3. ASSUME NEW a \in Adapters, OnFrameRateChanged(a) \/ OnResolutionPostChange(a) PROVE SavedInv'
  BY <1>1, <1>3 DEF OnFrameRateChanged, OnResolutionPostChange, hoCache
<1>4. CASE Recreate
  <2>1. \A a \in Adapters : hoStage[a] # "up" /\ hoStage'[a] = "new"
    BY <1>4 DEF Recreate
  <2>2. \A c \in HoCallers : hoCall[c] = NoHoCall
    BY <2>1, RequestKinds DEF SavedInv, HoTypes
  <2> QED BY <1>4, <2>1, <2>2, RequestKinds DEF SavedInv, PersistsMode, Recreate, Adapters
<1> QED BY <1>2, <1>3, <1>4, SavedMoves, SavedBegins, SavedGoesOn DEF HoNext, HoMoves, HoCallBegins, HoCallSteps

\* When an adapter has no event left to handle, its clients were last told the
\* mode in force, whichever session changed it, for any callers and number of
\* faults (OnFrameRateChanged, HoPostChange).
THEOREM ToldCurrently == HoSpec => []ToldIsCurrent
<1>1. HoInit => ToldInv
  BY DEF HoInit, ToldInv, Opened
<1>2. ToldInv => ToldIsCurrent
  BY DEF ToldInv, ToldIsCurrent
<1> QED BY <1>1, <1>2, HoTypesStart, HoTypesStep, ToldStep, PTL DEF HoSpec

\* An adapter that could not be opened or was destroyed leaves neither session
\* nor listener with the service, unless its release failed; and the resolution
\* answered without a display is the one a restart would load, also after a
\* store that threw (HoOpen, CloseController, persistHostProperty).
THEOREM ClosedCleanAndSaved == HoSpec => []ClosedAndSaved
<1>1. HoInit => HeldInv /\ SavedInv
  <2> SUFFICES ASSUME HoInit PROVE HeldInv /\ SavedInv
    OBVIOUS
  <2>1. HeldInv
    BY DEF HoInit, HeldInv
  <2>2. SavedInv
    BY RequestKinds DEF HoInit, SavedInv, PersistsMode
  <2> QED BY <2>1, <2>2
<1>2. HeldInv => NothingHeldWhenClosed
  BY DEF HeldInv, NothingHeldWhenClosed
<1>3. SavedInv => SavedResolutionIsAnswered
  BY RequestKinds DEF SavedInv, SavedResolutionIsAnswered, HoServed, GetVideoPortResolution
<1> QED BY <1>1, <1>2, <1>3, HoTypesStart, HoTypesStep, HeldStep, SavedStep, PTL DEF HoSpec, ClosedAndSaved
=============================================================================
