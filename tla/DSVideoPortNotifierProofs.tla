---------------------- MODULE DSVideoPortNotifierProofs ----------------------
(***************************************************************************)
(* The hardware changes its resolution only after every client that was    *)
(* listed has been told, and no client hears of the end of a change before *)
(* the hardware was asked; the end of a change is never dropped; every     *)
(* reference to a sink has its owner; for any sinks, callers, workers and  *)
(* number of changes.                                                      *)
(***************************************************************************)
EXTENDS DSVideoPortNotifier, SequenceTheorems, FiniteSetTheorems, TLAPS

Dispatches == [change : 0..MaxChanges, todo : Seq(Sinks), called : BOOLEAN]

Types ==
  /\ list \in Seq(Sinks)
  /\ dispatch \in [Threads -> Dispatches]
  /\ stage \in [Callers -> {"idle", "announcing", "applied"}]
  /\ changes \in 0..MaxChanges
  /\ jobs \in Seq(Changes)
  /\ applied \subseteq Changes
  /\ audience \in [Changes -> SUBSET Sinks]
  /\ pre \in [Changes -> SUBSET Sinks] /\ post \in [Changes -> SUBSET Sinks]

\* Some place of the dispatch of c is for sink s.
StillToCall(c, s) == \E i \in DOMAIN dispatch[c].todo : dispatch[c].todo[i] = s

\* What has been announced has begun; a caller that announces has told, or
\* still has on its copy, every sink of the audience; what a caller has
\* applied, a queued job and a worker are about a change the hardware got.
Announced ==
  /\ \A n \in applied : n <= changes /\ audience[n] \subseteq pre[n]
  /\ \A t \in Threads : dispatch[t].change <= changes
  /\ \A c \in Callers : stage[c] = "announcing" =>
       /\ dispatch[c].change \in Changes
       /\ \A s \in audience[dispatch[c].change] :
            s \in pre[dispatch[c].change] \/ StillToCall(c, s)
       /\ dispatch[c].called /\ dispatch[c].todo # <<>> =>
            dispatch[c].todo[1] \in pre[dispatch[c].change]
Concluded ==
  /\ \A c \in Callers : stage[c] = "applied" => dispatch[c].change \in applied
  /\ \A i \in DOMAIN jobs : jobs[i] \in applied
  /\ \A w \in Workers : dispatch[w].change # 0 => dispatch[w].change \in applied
  /\ \A t \in Threads : dispatch[t].todo # <<>> => dispatch[t].change # 0
  /\ \A c \in Callers : stage[c] = "idle" => dispatch[c].todo = <<>>
  /\ \A n \in Changes : post[n] # {} => n \in applied

NotifierInv == Types /\ Announced /\ Concluded

\* Each change has one caller, which calls only the sinks that were listed
\* when the change began, and none once the hardware was asked.
OneCaller ==
  /\ \A c \in Callers : stage[c] = "applied" => dispatch[c].todo = <<>>
  /\ \A c \in Callers : stage[c] = "announcing" =>
       /\ dispatch[c].change \notin applied
       /\ \A i \in DOMAIN dispatch[c].todo :
            dispatch[c].todo[i] \in audience[dispatch[c].change]
  /\ \A c, d \in Callers :
       stage[c] = "announcing" /\ stage[d] = "announcing"
         /\ dispatch[c].change = dispatch[d].change => c = d

-----------------------------------------------------------------------------
\* Erasing a place of the list leaves a list (Unregister).
LEMMA RemoveAtType ==
  ASSUME NEW q \in Seq(Sinks), NEW i \in DOMAIN q
  PROVE  RemoveAt(q, i) \in Seq(Sinks)
<1>1. SubSeq(q, 1, i-1) \in Seq(Sinks) /\ SubSeq(q, i+1, Len(q)) \in Seq(Sinks)
  <2>1. DOMAIN q = 1..Len(q) /\ Len(q) \in Nat /\ \A j \in 1..Len(q) : q[j] \in Sinks
    OBVIOUS
  <2>2. /\ 1 \in Int /\ i-1 \in Int /\ i+1 \in Int /\ Len(q) \in Int
        /\ \A j \in 1..(i-1) : q[j] \in Sinks
        /\ \A j \in (i+1)..Len(q) : q[j] \in Sinks
    BY <2>1
  <2>3. QED
    BY <2>2, SubSeqProperties
<1>2. QED
  BY <1>1, ConcatProperties DEF RemoveAt

\* Init establishes the invariant.
LEMMA NotifierInit == Init => NotifierInv
<1> SUFFICES ASSUME Init
             PROVE  NotifierInv
  OBVIOUS
<1> USE NotifierAssumption DEF NotifierAssumption
<1>1. NoDispatch \in Dispatches
  BY DEF NoDispatch, Dispatches
<1>2. dispatch \in [Threads -> Dispatches]
  BY <1>1 DEF Init
<1>3. /\ stage \in [Callers -> {"idle", "announcing", "applied"}]
      /\ audience \in [Changes -> SUBSET Sinks]
      /\ pre \in [Changes -> SUBSET Sinks] /\ post \in [Changes -> SUBSET Sinks]
  BY DEF Init
<1>4. Types
  BY <1>2, <1>3 DEF Init, Types
<1>5. Announced /\ Concluded
  BY DEF Init, Announced, Concluded, Changes, NoDispatch, Threads
<1>6. QED
  BY <1>4, <1>5 DEF NotifierInv

\* Every step keeps the types.
LEMMA TypesStep ==
  ASSUME NotifierInv, [Next]_vars
  PROVE  Types'
<1> USE NotifierAssumption DEF NotifierAssumption, NotifierInv, clients, history
<1>1. ASSUME NEW s \in Sinks, Register(s) \/ Abandon(s)
      PROVE  Types'
  <2>1. list' \in Seq(Sinks)
    BY <1>1 DEF Register, Abandon, Types
  <2>2. UNCHANGED <<dispatch, stage, changes, jobs, applied, audience, pre, post>>
    BY <1>1 DEF Register, Abandon
  <2>3. QED
    BY <2>1, <2>2 DEF Types
<1>2. ASSUME NEW s \in Sinks, Unregister(s)
      PROVE  Types'
  <2>1. list' \in Seq(Sinks)
    BY <1>2, RemoveAtType DEF Unregister, Places, Types
  <2>2. QED
    BY <1>2, <2>1 DEF Unregister, Types
<1>3. ASSUME NEW t \in Threads, Call(t)
      PROVE  Types'
  <2>1. dispatch[t] \in Dispatches /\ Head(dispatch[t].todo) \in Sinks
    BY <1>3, HeadTailProperties DEF Call, Types, Dispatches
  <2>2. dispatch' \in [Threads -> Dispatches]
    BY <1>3, <2>1 DEF Call, Types, Dispatches
  <2>3. dispatch[t].change \in Changes
    BY <1>3, <2>1 DEF Call, Concluded, Dispatches, Changes
  <2>4. pre' \in [Changes -> SUBSET Sinks] /\ post' \in [Changes -> SUBSET Sinks]
    <3> DEFINE n == dispatch[t].change
               s == Head(dispatch[t].todo)
    <3>1. /\ pre' = pre \/ pre' = [pre EXCEPT ![n] = @ \cup {s}]
          /\ post' = post \/ post' = [post EXCEPT ![n] = @ \cup {s}]
      BY <1>3 DEF Call
    <3>2. pre[n] \cup {s} \in SUBSET Sinks /\ post[n] \cup {s} \in SUBSET Sinks
      BY <2>1, <2>3 DEF Types
    <3>3. pre' \in [Changes -> SUBSET Sinks]
      BY <2>3, <3>1, <3>2 DEF Types
    <3>4. post' \in [Changes -> SUBSET Sinks]
      BY <2>3, <3>1, <3>2 DEF Types
    <3>5. QED
      BY <3>3, <3>4
  <2>5. QED
    BY <1>3, <2>2, <2>4 DEF Call, Types
<1>4. ASSUME NEW t \in Threads, ReleaseSink(t)
      PROVE  Types'
  <2>1. dispatch[t] \in Dispatches /\ Tail(dispatch[t].todo) \in Seq(Sinks)
    BY <1>4, HeadTailProperties DEF ReleaseSink, Types, Dispatches
  <2>2. dispatch' \in [Threads -> Dispatches]
    BY <1>4, <2>1 DEF ReleaseSink, Types, Dispatches
  <2>3. QED
    BY <1>4, <2>2 DEF ReleaseSink, Types
<1>5. ASSUME NEW c \in Callers, PreChange(c)
      PROVE  Types'
  <2>1. changes' \in Changes /\ Listed \in SUBSET Sinks
    BY <1>5 DEF PreChange, Types, Changes, Listed, ToSet
  <2>2. dispatch' \in [Threads -> Dispatches]
    BY <1>5, <2>1 DEF PreChange, Snapshot, Types, Dispatches, Changes, Threads
  <2>3. audience' \in [Changes -> SUBSET Sinks]
    BY <1>5, <2>1 DEF PreChange, Types
  <2>4. QED
    BY <1>5, <2>1, <2>2, <2>3 DEF PreChange, Types, Changes
<1>6. ASSUME NEW c \in Callers, SetHal(c), dispatch[c].change \in Changes
      PROVE  Types'
  BY <1>6 DEF SetHal, Types
<1>7. ASSUME NEW c \in Callers, SubmitPost(c), dispatch[c].change \in Changes
      PROVE  Types'
  <2>1. NoDispatch \in Dispatches
    BY DEF NoDispatch, Dispatches
  <2>2. QED
    BY <1>7, <2>1 DEF SubmitPost, Types, Threads
<1>8. ASSUME NEW w \in Workers, RunJob(w)
      PROVE  Types'
  <2>1. Head(jobs) \in Changes /\ Tail(jobs) \in Seq(Changes)
    BY <1>8, HeadTailProperties DEF RunJob, Types
  <2>2. dispatch' \in [Threads -> Dispatches]
    BY <1>8, <2>1 DEF RunJob, Snapshot, Types, Dispatches, Changes, Threads
  <2>3. QED
    BY <1>8, <2>1, <2>2 DEF RunJob, Types
<1>9. ASSUME NEW w \in Workers, EndJob(w)
      PROVE  Types'
  <2>1. NoDispatch \in Dispatches
    BY DEF NoDispatch, Dispatches
  <2>2. QED
    BY <1>9, <2>1 DEF EndJob, Types, Threads
<1>10. CASE Destroy
  BY <1>10 DEF Destroy, Types
<1>11. CASE UNCHANGED vars
  BY <1>11 DEF vars, Types
<1>12. ASSUME NEW c \in Callers, SetHal(c) \/ SubmitPost(c)
       PROVE  dispatch[c].change \in Changes
  BY <1>12 DEF SetHal, SubmitPost, Announced, Concluded, Types
<1>13. QED
  BY <1>1, <1>2, <1>3, <1>4, <1>5, <1>6, <1>7, <1>8, <1>9, <1>10, <1>11, <1>12
     DEF Next, ClientStep, DispatchStep, CallerStep, WorkerStep

\* The steps of a dispatch: what is called, and what is left to call.
LEMMA CallEffect ==
  ASSUME Types, NEW t \in Threads, Call(t)
  PROVE  LET s == dispatch[t].todo[1]  n == dispatch[t].change
         IN /\ dispatch' = [dispatch EXCEPT ![t].called = TRUE]
            /\ \A u \in Threads : /\ dispatch'[u].change = dispatch[u].change
                                  /\ dispatch'[u].todo = dispatch[u].todo
                                  /\ u # t => dispatch'[u] = dispatch[u]
            /\ t \in Callers => pre' = [pre EXCEPT ![n] = @ \cup {s}] /\ post' = post
            /\ t \notin Callers => post' = [post EXCEPT ![n] = @ \cup {s}] /\ pre' = pre
            /\ UNCHANGED <<list, stage, jobs, gone, applied, audience, changes>>
BY HeadTailProperties DEF Call, Types, Dispatches
\* Releasing the sink that was called moves the dispatch on to the next one.
LEMMA ReleaseEffect ==
  ASSUME Types, NEW t \in Threads, ReleaseSink(t)
  PROVE  /\ dispatch[t].called /\ dispatch[t].todo \in Seq(Sinks) /\ dispatch[t].todo # <<>>
         /\ dispatch' = [dispatch EXCEPT ![t].todo = Tail(dispatch[t].todo), ![t].called = FALSE]
         /\ \A u \in Threads : dispatch'[u].change = dispatch[u].change
         /\ \A u \in Threads \ {t} : dispatch'[u] = dispatch[u]
         /\ dispatch'[t].todo = Tail(dispatch[t].todo) /\ ~dispatch'[t].called
         /\ UNCHANGED <<list, stage, jobs, gone, applied, audience, pre, post, changes>>
<1>1. /\ dispatch[t].called /\ dispatch[t].todo # <<>>
      /\ dispatch' = [dispatch EXCEPT ![t].todo = Tail(dispatch[t].todo), ![t].called = FALSE]
      /\ UNCHANGED <<list, stage, jobs, gone, applied, audience, pre, post, changes>>
  BY DEF ReleaseSink, history
<1>2. dispatch \in [Threads -> Dispatches]
  BY DEF Types
<1>3. dispatch[t].todo \in Seq(Sinks)
  BY <1>2 DEF Dispatches
<1>4. \A u \in Threads \ {t} : dispatch'[u] = dispatch[u]
  BY <1>1, <1>2
<1>5. /\ dispatch'[t].change = dispatch[t].change
      /\ dispatch'[t].todo = Tail(dispatch[t].todo) /\ ~dispatch'[t].called
  BY <1>1, <1>2 DEF Dispatches
<1> QED BY <1>1, <1>3, <1>4, <1>5

\* Every step keeps what was announced told or on a copy.
LEMMA AnnouncedStep ==
  ASSUME NotifierInv, [Next]_vars
  PROVE  Announced'
<1> USE NotifierAssumption DEF NotifierAssumption, NotifierInv, clients, history
<1>0. Types'
  BY TypesStep
<1>1. CASE UNCHANGED <<dispatch, stage, changes, applied, audience, pre>>
  BY <1>1 DEF Announced, StillToCall
<1>2. ASSUME NEW t \in Threads, Call(t)
      PROVE  Announced'
  <2>1. \A n \in Changes : pre[n] \subseteq pre'[n]
    <3>1. \/ pre' = pre
          \/ pre' = [pre EXCEPT ![dispatch[t].change] = @ \cup {dispatch[t].todo[1]}]
      BY <1>2, CallEffect
    <3>2. DOMAIN pre = Changes
      BY DEF Types
    <3> QED BY <3>1, <3>2
  <2>2. t \in Callers /\ stage[t] = "announcing" =>
          dispatch[t].todo[1] \in pre'[dispatch[t].change]
    BY <1>2, CallEffect DEF Types, Announced
  <2>3. \A n \in applied' : n <= changes' /\ audience'[n] \subseteq pre'[n]
    BY <1>2, <2>1, CallEffect DEF Types, Announced
  <2>4. \A u \in Threads : dispatch'[u].change <= changes'
    BY <1>2, CallEffect DEF Announced
  <2>5. ASSUME NEW c \in Callers, stage'[c] = "announcing"
        PROVE  /\ dispatch'[c].change \in Changes
               /\ \A s \in audience'[dispatch'[c].change] :
                    s \in pre'[dispatch'[c].change] \/ StillToCall(c, s)'
               /\ dispatch'[c].called /\ dispatch'[c].todo # <<>> =>
                    dispatch'[c].todo[1] \in pre'[dispatch'[c].change]
    <3>1. /\ stage[c] = "announcing" /\ dispatch'[c].change = dispatch[c].change
          /\ dispatch'[c].todo = dispatch[c].todo /\ audience' = audience
          /\ c # t => dispatch'[c] = dispatch[c]
      BY <1>2, <2>5, CallEffect DEF Threads
    <3>2. QED
      BY <2>1, <2>2, <3>1 DEF Announced, StillToCall
  <2>6. QED
    BY <2>3, <2>4, <2>5 DEF Announced
<1>3. ASSUME NEW t \in Threads, ReleaseSink(t)
      PROVE  Announced'
  <2>1. \A n \in applied' : n <= changes' /\ audience'[n] \subseteq pre'[n]
    BY <1>3, ReleaseEffect DEF Announced
  <2>2. \A u \in Threads : dispatch'[u].change <= changes'
    BY <1>3, ReleaseEffect DEF Announced
  <2>3. ASSUME NEW c \in Callers, stage'[c] = "announcing"
        PROVE  /\ dispatch'[c].change \in Changes
               /\ \A s \in audience'[dispatch'[c].change] :
                    s \in pre'[dispatch'[c].change] \/ StillToCall(c, s)'
               /\ dispatch'[c].called /\ dispatch'[c].todo # <<>> =>
                    dispatch'[c].todo[1] \in pre'[dispatch'[c].change]
    <3>1. stage[c] = "announcing" /\ dispatch'[c].change = dispatch[c].change
      BY <1>3, <2>3, ReleaseEffect DEF Threads
    <3>2. CASE c # t
      <4>1. dispatch'[c] = dispatch[c] /\ audience' = audience /\ pre' = pre
        BY <1>3, <3>2, ReleaseEffect DEF Threads
      <4>2. QED
        BY <3>1, <4>1 DEF Announced, StillToCall
    <3>3. CASE c = t
      <4> DEFINE q == dispatch[t].todo
      <4>1. /\ q \in Seq(Sinks) /\ q # <<>> /\ dispatch'[t].todo = Tail(q)
            /\ dispatch[t].called /\ ~dispatch'[t].called
            /\ audience' = audience /\ pre' = pre
        BY <1>3, ReleaseEffect
      <4>2. ASSUME NEW i \in DOMAIN q, i # 1
            PROVE  i - 1 \in DOMAIN Tail(q) /\ Tail(q)[i - 1] = q[i]
        <5>1. q \in Seq(Sinks) /\ q # <<>>
          BY <4>1
        <5> HIDE DEF q
        <5> QED BY <4>2, <5>1
      <4>3. q[1] \in pre[dispatch[t].change]
        BY <3>1, <3>3, <4>1 DEF Announced
      <4>4. ASSUME NEW s \in audience[dispatch[t].change]
            PROVE  s \in pre[dispatch[t].change] \/ StillToCall(t, s)'
        <5>1. s \in pre[dispatch[t].change] \/ \E i \in DOMAIN q : q[i] = s
          BY <3>1, <3>3, <4>4 DEF Announced, StillToCall
        <5>2. ASSUME NEW i \in DOMAIN q, q[i] = s, i # 1
              PROVE  StillToCall(t, s)'
          <6>1. i - 1 \in DOMAIN dispatch'[t].todo /\ dispatch'[t].todo[i - 1] = s
            BY <4>1, <4>2, <5>2
          <6> QED BY <6>1 DEF StillToCall
        <5>3. QED
          BY <4>3, <5>1, <5>2
      <4>5. QED
        BY <3>1, <3>3, <4>1, <4>4 DEF Announced
    <3>4. QED
      BY <3>2, <3>3
  <2>4. QED
    BY <2>1, <2>2, <2>3 DEF Announced
<1>4. ASSUME NEW c \in Callers, PreChange(c)
      PROVE  Announced'
  <2>1. /\ changes' = changes + 1 /\ changes' \in Changes /\ changes \in Nat
        /\ applied' = applied /\ pre' = pre
        /\ stage' = [stage EXCEPT ![c] = "announcing"]
        /\ audience' = [audience EXCEPT ![changes'] = Listed]
        /\ dispatch' = [dispatch EXCEPT ![c] =
                          [change |-> changes', todo |-> list, called |-> FALSE]]
    BY <1>4 DEF PreChange, Snapshot, Types, Changes
  <2>2. \A n \in applied' : n <= changes' /\ audience'[n] \subseteq pre'[n]
    BY <2>1 DEF Announced, Types, Changes
  <2>3. \A u \in Threads : dispatch'[u].change <= changes'
    BY <2>1 DEF Announced, Types, Dispatches, Changes
  <2>4. ASSUME NEW d \in Callers, stage'[d] = "announcing"
        PROVE  /\ dispatch'[d].change \in Changes
               /\ \A s \in audience'[dispatch'[d].change] :
                    s \in pre'[dispatch'[d].change] \/ StillToCall(d, s)'
               /\ dispatch'[d].called /\ dispatch'[d].todo # <<>> =>
                    dispatch'[d].todo[1] \in pre'[dispatch'[d].change]
    <3>1. CASE d = c
      <4>1. dispatch'[c] = [change |-> changes', todo |-> list, called |-> FALSE]
        BY <2>1 DEF Types, Threads
      <4>2. audience'[changes'] = Listed
        BY <2>1 DEF Types
      <4>3. QED
        BY <2>1, <3>1, <4>1, <4>2 DEF StillToCall, Listed, ToSet
    <3>2. CASE d # c
      <4>1. dispatch'[d] = dispatch[d] /\ stage[d] = "announcing"
        BY <2>1, <2>4, <3>2 DEF Types, Threads
      <4>2. dispatch[d].change \in Changes /\ dispatch[d].change # changes'
        BY <2>1, <4>1 DEF Announced, Threads, Changes
      <4>3. audience'[dispatch[d].change] = audience[dispatch[d].change]
        BY <2>1, <4>2 DEF Types
      <4>4. QED
        BY <2>1, <4>1, <4>2, <4>3 DEF Announced, StillToCall
    <3>3. QED
      BY <3>1, <3>2
  <2>5. QED
    BY <2>2, <2>3, <2>4 DEF Announced
<1>5. ASSUME NEW c \in Callers, SetHal(c)
      PROVE  Announced'
  <2>1. /\ stage[c] = "announcing" /\ dispatch[c].todo = <<>>
        /\ applied' = applied \cup {dispatch[c].change}
        /\ stage' = [stage EXCEPT ![c] = "applied"]
        /\ UNCHANGED <<dispatch, audience, pre, changes>>
    BY <1>5 DEF SetHal
  <2>2. audience[dispatch[c].change] \subseteq pre[dispatch[c].change]
    BY <2>1 DEF Announced, StillToCall
  <2>3. QED
    BY <2>1, <2>2 DEF Announced, StillToCall, Types, Threads
<1>6. ASSUME NEW c \in Callers, SubmitPost(c)
      PROVE  Announced'
  BY <1>6 DEF SubmitPost, NoDispatch, Announced, StillToCall, Types, Threads
<1>7. ASSUME NEW w \in Workers, RunJob(w) \/ EndJob(w)
      PROVE  Announced'
  <2>1. UNCHANGED <<stage, changes, applied, audience, pre>>
    BY <1>7 DEF RunJob, EndJob
  <2>2. \A c \in Callers : dispatch'[c] = dispatch[c]
    BY <1>7 DEF RunJob, EndJob, Snapshot, Types, Threads
  <2>3. dispatch'[w].change <= changes
    <3>1. CASE RunJob(w)
      <4>1. Head(jobs) \in applied
        BY <3>1, HeadTailProperties DEF RunJob, Concluded, Types
      <4>2. QED
        BY <3>1, <4>1 DEF RunJob, Snapshot, Announced, Types, Threads
    <3>2. CASE EndJob(w)
      BY <3>2 DEF EndJob, NoDispatch, Types, Threads
    <3>3. QED
      BY <1>7, <3>1, <3>2
  <2>4. \A u \in Threads : dispatch'[u].change <= changes'
    BY <1>7, <2>1, <2>3 DEF RunJob, EndJob, Snapshot, Announced, Types
  <2>5. QED
    BY <2>1, <2>2, <2>4 DEF Announced, StillToCall
<1>8. ASSUME NEW s \in Sinks, Register(s) \/ Unregister(s) \/ Abandon(s)
      PROVE  Announced'
  BY <1>1, <1>8 DEF Register, Unregister, Abandon
<1>9. CASE Destroy \/ UNCHANGED vars
  BY <1>1, <1>9 DEF Destroy, vars
<1>10. QED
  BY <1>2, <1>3, <1>4, <1>5, <1>6, <1>7, <1>8, <1>9
     DEF Next, ClientStep, DispatchStep, CallerStep, WorkerStep

\* Every step keeps the end of a change behind its hardware call.
LEMMA ConcludedStep ==
  ASSUME NotifierInv, [Next]_vars
  PROVE  Concluded'
<1> USE NotifierAssumption DEF NotifierAssumption, NotifierInv, clients, history
<1>1. CASE UNCHANGED <<dispatch, stage, jobs, applied, post>>
  BY <1>1 DEF Concluded
<1>2. ASSUME NEW t \in Threads, Call(t)
      PROVE  Concluded'
  <2>1. dispatch[t].todo # <<>> /\ dispatch[t].change \in Changes
    BY <1>2 DEF Call, Concluded, Types, Dispatches, Changes
  <2>2. \A n \in Changes : post'[n] # {} => n \in applied
    <3>1. CASE t \in Callers
      BY <1>2, <3>1, CallEffect DEF Concluded
    <3>2. CASE t \in Workers
      <4>1. dispatch[t].change \in applied
        BY <2>1, <3>2 DEF Concluded, Changes
      <4>2. \A n \in Changes : n # dispatch[t].change => post'[n] = post[n]
        BY <1>2, <2>1, <3>2, CallEffect DEF Types
      <4>3. QED
        BY <4>1, <4>2 DEF Concluded
    <3>3. QED
      BY <3>1, <3>2 DEF Threads
  <2>3. QED
    BY <1>2, <2>2, CallEffect DEF Concluded, Threads
<1>3. ASSUME NEW t \in Threads, ReleaseSink(t)
      PROVE  Concluded'
  <2>1. dispatch[t].todo # <<>> /\ dispatch[t].change # 0
    BY <1>3, ReleaseEffect DEF Concluded
  <2>2. \A c \in Callers : stage[c] = "idle" => c # t
    BY <2>1 DEF Concluded
  <2>3. /\ UNCHANGED <<stage, jobs, applied, changes, post>>
        /\ \A u \in Threads : dispatch'[u].change = dispatch[u].change
        /\ \A u \in Threads \ {t} : dispatch'[u] = dispatch[u]
    BY <1>3, ReleaseEffect
  <2>4. QED
    BY <2>1, <2>2, <2>3 DEF Concluded, Threads
<1>4. ASSUME NEW c \in Callers, PreChange(c)
      PROVE  Concluded'
  <2>1. /\ changes' # 0 /\ stage' = [stage EXCEPT ![c] = "announcing"]
        /\ dispatch' = [dispatch EXCEPT ![c] =
                          [change |-> changes', todo |-> list, called |-> FALSE]]
        /\ UNCHANGED <<jobs, applied, post>>
    BY <1>4 DEF PreChange, Snapshot, Types
  <2>2. QED
    BY <2>1 DEF Concluded, Types, Threads
<1>5. ASSUME NEW c \in Callers, SetHal(c)
      PROVE  Concluded'
  <2>1. /\ stage' = [stage EXCEPT ![c] = "applied"]
        /\ applied' = applied \cup {dispatch[c].change}
        /\ UNCHANGED <<dispatch, jobs, post>>
    BY <1>5 DEF SetHal
  <2>2. QED
    BY <2>1 DEF Concluded, Types
<1>6. ASSUME NEW c \in Callers, SubmitPost(c)
      PROVE  Concluded'
  <2>1. /\ stage[c] = "applied" /\ jobs' = Append(jobs, dispatch[c].change)
        /\ stage' = [stage EXCEPT ![c] = "idle"]
        /\ dispatch' = [dispatch EXCEPT ![c] = NoDispatch]
        /\ UNCHANGED <<applied, post>>
    BY <1>6 DEF SubmitPost, history
  <2>2. \A i \in DOMAIN jobs' : jobs'[i] \in applied
    <3>1. dispatch[c].change \in applied /\ \A i \in DOMAIN jobs : jobs[i] \in applied
      BY <2>1 DEF Concluded
    <3>2. QED
      BY <2>1, <3>1 DEF Types
  <2>3. QED
    BY <2>1, <2>2 DEF Concluded, Types, Threads, NoDispatch
<1>7. ASSUME NEW w \in Workers, RunJob(w)
      PROVE  Concluded'
  <2>1. /\ jobs # <<>> /\ jobs' = Tail(jobs) /\ UNCHANGED <<stage, applied, post>>
        /\ dispatch' = [dispatch EXCEPT ![w] =
                          [change |-> Head(jobs), todo |-> list, called |-> FALSE]]
    BY <1>7 DEF RunJob, Snapshot
  <2>2. /\ Head(jobs) \in applied /\ Head(jobs) # 0
        /\ \A i \in DOMAIN jobs' : jobs'[i] \in applied
    BY <2>1, HeadTailProperties DEF Concluded, Types, Changes
  <2>3. QED
    BY <2>1, <2>2 DEF Concluded, Types, Threads
<1>8. ASSUME NEW w \in Workers, EndJob(w)
      PROVE  Concluded'
  BY <1>8 DEF EndJob, NoDispatch, Concluded, Types, Threads
<1>9. ASSUME NEW s \in Sinks, Register(s) \/ Unregister(s) \/ Abandon(s)
      PROVE  Concluded'
  BY <1>1, <1>9 DEF Register, Unregister, Abandon
<1>10. CASE Destroy \/ UNCHANGED vars
  BY <1>1, <1>10 DEF Destroy, vars
<1>11. QED
  BY <1>2, <1>3, <1>4, <1>5, <1>6, <1>7, <1>8, <1>9, <1>10
     DEF Next, ClientStep, DispatchStep, CallerStep, WorkerStep

-----------------------------------------------------------------------------
\* No change of resolution reaches the hardware before every client that was
\* listed has been told, and no client hears of its end before the hardware
\* was asked (SetVideoPortResolution, dispatchVideoPortEvent, Job::Dispatch).
THEOREM ClientsAreToldFirst == Spec => []ToldBeforeTheChange
<1>1. NotifierInv /\ [Next]_vars => NotifierInv'
  BY TypesStep, AnnouncedStep, ConcludedStep DEF NotifierInv
<1>2. NotifierInv => ToldBeforeTheChange
  BY DEF NotifierInv, Announced, Concluded, ToldBeforeTheChange
<1>3. QED
  BY NotifierInit, <1>1, <1>2, PTL DEF Spec

-----------------------------------------------------------------------------
\* Every step keeps a change with its caller.
LEMMA OneCallerStep ==
  ASSUME NotifierInv, OneCaller, [Next]_vars
  PROVE  OneCaller'
<1> USE NotifierAssumption DEF NotifierAssumption, NotifierInv, clients, history
<1>1. CASE UNCHANGED <<dispatch, stage, applied, audience>>
  BY <1>1 DEF OneCaller
<1>2. ASSUME NEW t \in Threads, Call(t)
      PROVE  OneCaller'
  BY <1>2, CallEffect DEF OneCaller, Threads
<1>3. ASSUME NEW t \in Threads, ReleaseSink(t)
      PROVE  OneCaller'
  <2>1. dispatch[t].todo \in Seq(Sinks) /\ dispatch[t].todo # <<>>
    BY <1>3, ReleaseEffect
  <2>2. \A i \in DOMAIN Tail(dispatch[t].todo) :
          i + 1 \in DOMAIN dispatch[t].todo /\ Tail(dispatch[t].todo)[i] = dispatch[t].todo[i + 1]
    BY <2>1, HeadTailProperties
  <2>3. ASSUME NEW c \in Callers
        PROVE  /\ dispatch[c].todo = <<>> => dispatch'[c].todo = <<>>
               /\ \A i \in DOMAIN dispatch'[c].todo :
                    \E j \in DOMAIN dispatch[c].todo : dispatch'[c].todo[i] = dispatch[c].todo[j]
    <3>1. CASE c = t
      <4>1. dispatch'[c].todo = Tail(dispatch[t].todo)
        BY <1>3, <3>1, ReleaseEffect
      <4>2. QED
        BY <2>1, <2>2, <3>1, <4>1
    <3>2. CASE c # t
      BY <1>3, <3>2, ReleaseEffect DEF Threads
    <3>3. QED
      BY <3>1, <3>2
  <2>4. /\ UNCHANGED <<stage, applied, audience>>
        /\ \A c \in Callers : dispatch'[c].change = dispatch[c].change
    BY <1>3, ReleaseEffect DEF Threads
  <2>5. QED
    BY <2>3, <2>4 DEF OneCaller
<1>4. ASSUME NEW c \in Callers, PreChange(c)
      PROVE  OneCaller'
  <2>1. /\ changes' = changes + 1 /\ changes' \in Changes /\ changes \in Nat
        /\ applied' = applied
        /\ stage' = [stage EXCEPT ![c] = "announcing"]
        /\ audience' = [audience EXCEPT ![changes'] = Listed]
        /\ dispatch' = [dispatch EXCEPT ![c] =
                          [change |-> changes', todo |-> list, called |-> FALSE]]
    BY <1>4 DEF PreChange, Snapshot, Types, Changes
  <2>2. changes' \notin applied
    BY <2>1 DEF Announced, Types, Changes
  <2>3. /\ stage'[c] = "announcing" /\ dispatch'[c].change = changes'
        /\ dispatch'[c].todo = list /\ audience'[changes'] = Listed
        /\ \A i \in DOMAIN list : list[i] \in Listed
    BY <2>1 DEF Types, Threads, Listed, ToSet
  <2>4. ASSUME NEW d \in Callers, d # c
        PROVE  /\ stage'[d] = stage[d] /\ dispatch'[d] = dispatch[d]
               /\ stage[d] = "announcing" =>
                    /\ dispatch[d].change # changes'
                    /\ audience'[dispatch[d].change] = audience[dispatch[d].change]
    BY <2>1, <2>4 DEF Announced, Types, Threads, Changes
  <2>5. QED
    BY <2>1, <2>2, <2>3, <2>4 DEF OneCaller
<1>5. ASSUME NEW c \in Callers, SetHal(c)
      PROVE  OneCaller'
  <2>1. /\ stage[c] = "announcing" /\ dispatch[c].todo = <<>>
        /\ applied' = applied \cup {dispatch[c].change}
        /\ stage' = [stage EXCEPT ![c] = "applied"]
        /\ UNCHANGED <<dispatch, audience>>
    BY <1>5 DEF SetHal
  <2>2. QED
    BY <2>1 DEF OneCaller, Types
<1>6. ASSUME NEW c \in Callers, SubmitPost(c)
      PROVE  OneCaller'
  BY <1>6 DEF SubmitPost, NoDispatch, OneCaller, Types, Threads
<1>7. ASSUME NEW w \in Workers, RunJob(w) \/ EndJob(w)
      PROVE  OneCaller'
  <2>1. UNCHANGED <<stage, applied, audience>>
    BY <1>7 DEF RunJob, EndJob
  <2>2. \A c \in Callers : dispatch'[c] = dispatch[c]
    BY <1>7 DEF RunJob, EndJob, Snapshot, Types, Threads
  <2>3. QED
    BY <2>1, <2>2 DEF OneCaller
<1>8. ASSUME NEW s \in Sinks, Register(s) \/ Unregister(s) \/ Abandon(s)
      PROVE  OneCaller'
  BY <1>1, <1>8 DEF Register, Unregister, Abandon
<1>9. CASE Destroy \/ UNCHANGED vars
  BY <1>1, <1>9 DEF Destroy, vars
<1>10. QED
  BY <1>2, <1>3, <1>4, <1>5, <1>6, <1>7, <1>8, <1>9
     DEF Next, ClientStep, DispatchStep, CallerStep, WorkerStep

\* Every step is one DSAnnouncement allows, or shows nothing to the clients.
LEMMA AnnouncementSimulation ==
  ASSUME NotifierInv, OneCaller, [Next]_vars
  PROVE  [Announcement!Next]_(Announcement!announcementVars)
<1> USE NotifierAssumption DEF NotifierAssumption, NotifierInv, clients, history
<1>1. CASE UNCHANGED <<changes, audience, pre, applied, post>>
  BY <1>1 DEF Announcement!announcementVars
<1>2. ASSUME NEW t \in Threads, Call(t)
      PROVE  Announcement!Next
  <2> DEFINE n == dispatch[t].change
             s == dispatch[t].todo[1]
  <2>1. /\ n \in Changes /\ n <= changes /\ s \in Sinks
        /\ dispatch[t].todo # <<>> /\ 1 \in DOMAIN dispatch[t].todo
    BY <1>2, HeadTailProperties DEF Call, Announced, Concluded, Types, Dispatches, Changes
  <2>2. CASE t \in Callers
    <3>1. stage[t] = "announcing"
      BY <2>1, <2>2 DEF OneCaller, Concluded, Types
    <3>2. n \in (1..changes) \ applied /\ s \in audience[n]
      BY <2>1, <2>2, <3>1 DEF OneCaller, Types, Changes
    <3>3. /\ pre' = [pre EXCEPT ![n] = @ \cup {s}]
          /\ UNCHANGED <<changes, audience, applied, post>>
      BY <1>2, <2>2, CallEffect
    <3>4. Announcement!TellBeginning(n, s)
      BY <3>2, <3>3 DEF Announcement!TellBeginning
    <3>5. QED
      BY <2>1, <3>4 DEF Announcement!Next
  <2>3. CASE t \in Workers
    <3>1. n \in applied
      BY <2>1, <2>3 DEF Concluded, Changes
    <3>2. /\ post' = [post EXCEPT ![n] = @ \cup {s}]
          /\ UNCHANGED <<changes, audience, applied, pre>>
      BY <1>2, <2>3, CallEffect
    <3>3. Announcement!TellEnd(n, s)
      BY <3>1, <3>2 DEF Announcement!TellEnd
    <3>4. QED
      BY <2>1, <3>3 DEF Announcement!Next
  <2>4. QED
    BY <2>2, <2>3 DEF Threads
<1>3. ASSUME NEW c \in Callers, PreChange(c)
      PROVE  Announcement!Next
  <2>1. /\ changes' = changes + 1 /\ changes' \in Changes /\ changes \in Nat
        /\ audience' = [audience EXCEPT ![changes'] = Listed]
        /\ UNCHANGED <<applied, pre, post>>
    BY <1>3 DEF PreChange, Types, Changes
  <2>2. Listed \in SUBSET Sinks
    BY DEF Listed, ToSet, Types
  <2>3. changes' \notin 1..changes /\ 1..changes' = (1..changes) \cup {changes'}
    BY <2>1
  <2>4. Announcement!Begin(changes')
    BY <2>1, <2>2, <2>3 DEF Announcement!Begin
  <2>5. QED
    BY <2>1, <2>4 DEF Announcement!Next
<1>4. ASSUME NEW c \in Callers, SetHal(c)
      PROVE  Announcement!Next
  <2> DEFINE n == dispatch[c].change
  <2>1. /\ stage[c] = "announcing" /\ dispatch[c].todo = <<>>
        /\ applied' = applied \cup {n}
        /\ UNCHANGED <<changes, audience, pre, post>>
    BY <1>4 DEF SetHal
  <2>2. n \in Changes /\ n \in (1..changes) \ applied
    BY <2>1 DEF Announced, OneCaller, Types, Threads, Changes
  <2>3. audience[n] \subseteq pre[n]
    BY <2>1 DEF Announced, StillToCall
  <2>4. Announcement!Apply(n)
    BY <2>1, <2>2, <2>3 DEF Announcement!Apply
  <2>5. QED
    BY <2>2, <2>4 DEF Announcement!Next
<1>5. ASSUME NEW t \in Threads, ReleaseSink(t)
      PROVE  UNCHANGED Announcement!announcementVars
  BY <1>1, <1>5 DEF ReleaseSink, Announcement!announcementVars
<1>6. ASSUME NEW c \in Callers, SubmitPost(c)
      PROVE  UNCHANGED Announcement!announcementVars
  BY <1>6 DEF SubmitPost, Announcement!announcementVars
<1>7. ASSUME NEW w \in Workers, RunJob(w) \/ EndJob(w)
      PROVE  UNCHANGED Announcement!announcementVars
  BY <1>7 DEF RunJob, EndJob, Announcement!announcementVars
<1>8. ASSUME NEW s \in Sinks, Register(s) \/ Unregister(s) \/ Abandon(s)
      PROVE  UNCHANGED Announcement!announcementVars
  BY <1>8 DEF Register, Unregister, Abandon, Announcement!announcementVars
<1>9. CASE Destroy \/ UNCHANGED vars
  BY <1>1, <1>9 DEF Destroy, vars
<1>10. QED
  BY <1>2, <1>3, <1>4, <1>5, <1>6, <1>7, <1>8, <1>9
     DEF Next, ClientStep, DispatchStep, CallerStep, WorkerStep

\* The video port announces every change as DSAnnouncement promises, whatever
\* threads set resolutions, run jobs, register and unregister
\* (SetVideoPortResolution, Dispatch, Register, Unregister).
THEOREM NotifierImplementsAnnouncement == Spec => ImplementsAnnouncement
<1>1. Init => Announcement!Init /\ OneCaller
  BY NotifierAssumption DEF Init, Announcement!Init, OneCaller, NotifierAssumption
<1>2. NotifierInv /\ OneCaller /\ [Next]_vars => NotifierInv' /\ OneCaller'
  BY TypesStep, AnnouncedStep, ConcludedStep, OneCallerStep DEF NotifierInv
<1>3. NotifierInv /\ OneCaller /\ [Next]_vars
        => [Announcement!Next]_(Announcement!announcementVars)
  BY AnnouncementSimulation
<1>4. QED
  BY NotifierInit, <1>1, <1>2, <1>3, PTL DEF Spec, ImplementsAnnouncement, Announcement!Spec

-----------------------------------------------------------------------------
\* No sink stands twice in q.
NoSinkTwice(q) == \A i, j \in DOMAIN q : q[i] = q[j] => i = j
One(b) == IF b THEN 1 ELSE 0
\* The threads whose dispatch still holds a reference to sink s.
Holding(s) == {t \in Threads : s \in ToSet(dispatch[t].todo)}

\* The count of a sink is its client's reference, the list's, and one for
\* every thread that has it on its copy; neither list nor copy has it twice.
Counted ==
  /\ refs \in [Sinks -> Int]
  /\ NoSinkTwice(list)
  /\ \A t \in Threads : NoSinkTwice(dispatch[t].todo)
  /\ \A s \in Sinks :
       refs[s] = One(s \in owned) + One(s \in Listed) + Cardinality(Holding(s))

\* Appending a sink that is not there (Register).
LEMMA AppendOnce ==
  ASSUME NEW q \in Seq(Sinks), NEW s \in Sinks, NoSinkTwice(q), s \notin ToSet(q)
  PROVE  NoSinkTwice(Append(q, s)) /\ ToSet(Append(q, s)) = ToSet(q) \cup {s}
<1>1. /\ DOMAIN q = 1..Len(q) /\ Len(q) \in Nat /\ DOMAIN Append(q, s) = 1..(Len(q) + 1)
      /\ \A i \in 1..Len(q) : Append(q, s)[i] = q[i]
      /\ Append(q, s)[Len(q) + 1] = s
  OBVIOUS
<1>2. \A i \in 1..(Len(q) + 1) : i \in 1..Len(q) \/ i = Len(q) + 1
  BY <1>1
<1>3. NoSinkTwice(Append(q, s))
  BY <1>1, <1>2 DEF NoSinkTwice, ToSet
<1>4. ToSet(Append(q, s)) = ToSet(q) \cup {s}
  BY <1>1, <1>2 DEF ToSet
<1>5. QED
  BY <1>3, <1>4

\* Erasing the place of a sink (Unregister).
LEMMA RemoveOnce ==
  ASSUME NEW q \in Seq(Sinks), NEW i \in DOMAIN q, NoSinkTwice(q)
  PROVE  NoSinkTwice(RemoveAt(q, i)) /\ ToSet(RemoveAt(q, i)) = ToSet(q) \ {q[i]}
<1> DEFINE a == SubSeq(q, 1, i-1)
           b == SubSeq(q, i+1, Len(q))
           r == RemoveAt(q, i)
<1>1. DOMAIN q = 1..Len(q) /\ Len(q) \in Nat /\ i \in 1..Len(q)
  OBVIOUS
<1>2. \A j \in 1..(i-1) : q[j] \in Sinks
  BY <1>1
<1>3. \A j \in (i+1)..Len(q) : q[j] \in Sinks
  BY <1>1
<1>4. /\ a \in Seq(Sinks) /\ Len(a) = i - 1
      /\ \A j \in 1..(i-1) : a[j] = q[j]
  <2>1. i - 1 \in Int /\ 1 \in Int
    BY <1>1
  <2>2. /\ a \in Seq(Sinks)
        /\ Len(a) = IF 1 <= i-1 THEN (i-1)-1+1 ELSE 0
        /\ \A j \in 1..((i-1)-1+1) : a[j] = q[1+j-1]
    BY <1>2, <2>1, SubSeqProperties
  <2>3. QED
    BY <1>1, <2>2
<1>5. /\ b \in Seq(Sinks) /\ Len(b) = Len(q) - i
      /\ \A j \in 1..(Len(q) - i) : b[j] = q[i + j]
  <2>1. i + 1 \in Int /\ Len(q) \in Int
    BY <1>1
  <2>2. /\ b \in Seq(Sinks)
        /\ Len(b) = IF i+1 <= Len(q) THEN Len(q)-(i+1)+1 ELSE 0
        /\ \A j \in 1..(Len(q)-(i+1)+1) : b[j] = q[(i+1)+j-1]
    BY <1>3, <2>1, SubSeqProperties
  <2>3. QED
    BY <1>1, <2>2
<1>6. /\ r \in Seq(Sinks) /\ Len(r) = Len(q) - 1
      /\ \A j \in 1..(Len(q) - 1) : r[j] = IF j < i THEN q[j] ELSE q[j + 1]
  <2>1. /\ r \in Seq(Sinks) /\ Len(r) = Len(a) + Len(b)
        /\ \A j \in 1..(Len(a) + Len(b)) : r[j] = IF j <= Len(a) THEN a[j] ELSE b[j - Len(a)]
    BY <1>4, <1>5, ConcatProperties DEF RemoveAt
  <2>2. \A j \in 1..(Len(q) - 1) : j <= Len(a) => j < i /\ a[j] = q[j]
    BY <1>1, <1>4
  <2>3. \A j \in 1..(Len(q) - 1) : ~(j <= Len(a)) => ~(j < i) /\ b[j - Len(a)] = q[j + 1]
    <3>1. SUFFICES ASSUME NEW j \in 1..(Len(q) - 1), ~(j <= Len(a))
                   PROVE  ~(j < i) /\ b[j - Len(a)] = q[j + 1]
      OBVIOUS
    <3>2. j - Len(a) \in 1..(Len(q) - i) /\ j - Len(a) = j - i + 1
      BY <1>1, <1>4, <3>1
    <3>3. i + (j - Len(a)) = j + 1
      BY <1>1, <1>4
    <3>4. b[j - Len(a)] = q[i + (j - Len(a))]
      BY <1>5, <3>2
    <3>5. ~(j < i)
      BY <1>1, <1>4, <3>1
    <3>6. QED
      BY <3>3, <3>4, <3>5
  <2>4. Len(a) + Len(b) = Len(q) - 1
    BY <1>1, <1>4, <1>5
  <2>5. \A j \in 1..(Len(q) - 1) : r[j] = IF j <= Len(a) THEN a[j] ELSE b[j - Len(a)]
    BY <2>1, <2>4
  <2> HIDE DEF a, b, r
  <2>6. QED
    BY <2>1, <2>2, <2>3, <2>4, <2>5
<1> HIDE DEF a, b, r
<1>7. DOMAIN r = 1..(Len(q) - 1)
  <2>1. DOMAIN r = 1..Len(r)
    BY <1>6
  <2>2. QED
    BY <1>6, <2>1
<1>8. NoSinkTwice(r)
  <2>1. SUFFICES ASSUME NEW j \in 1..(Len(q) - 1), NEW k \in 1..(Len(q) - 1), r[j] = r[k]
                 PROVE  j = k
    BY <1>7 DEF NoSinkTwice
  <2>2. PICK m \in DOMAIN q : r[j] = q[m] /\ m = IF j < i THEN j ELSE j + 1
    BY <1>1, <1>6
  <2>3. PICK n \in DOMAIN q : r[k] = q[n] /\ n = IF k < i THEN k ELSE k + 1
    BY <1>1, <1>6
  <2>4. m = n
    BY <2>1, <2>2, <2>3 DEF NoSinkTwice
  <2>5. QED
    BY <1>1, <2>2, <2>3, <2>4
<1>9. \A j \in DOMAIN r : r[j] \in ToSet(q) \ {q[i]}
  BY <1>1, <1>6, <1>7 DEF NoSinkTwice, ToSet
<1>10. ASSUME NEW j \in DOMAIN q, q[j] # q[i]
       PROVE  q[j] \in ToSet(r)
  <2>1. j < i \/ j > i
    BY <1>1, <1>10
  <2>2. CASE j < i
    <3>1. j \in DOMAIN r /\ r[j] = q[j]
      BY <1>1, <1>6, <1>7, <2>2
    <3>2. QED
      BY <3>1 DEF ToSet
  <2>3. CASE j > i
    <3>1. j - 1 \in DOMAIN r /\ r[j - 1] = q[j]
      BY <1>1, <1>6, <1>7, <2>3
    <3>2. QED
      BY <3>1 DEF ToSet
  <2>4. QED
    BY <2>1, <2>2, <2>3
<1>11. ToSet(r) = ToSet(q) \ {q[i]}
  BY <1>9, <1>10 DEF ToSet
<1>12. QED
  BY <1>8, <1>11 DEF r

\* Releasing the head of a copy (dispatchVideoPortEvent, Dispatch).
LEMMA TailOnce ==
  ASSUME NEW q \in Seq(Sinks), q # <<>>, NoSinkTwice(q)
  PROVE  /\ NoSinkTwice(Tail(q)) /\ Head(q) \in Sinks /\ Head(q) \in ToSet(q)
         /\ ToSet(Tail(q)) = ToSet(q) \ {Head(q)}
<1>1. /\ DOMAIN q = 1..Len(q) /\ Len(q) \in Nat \ {0} /\ Head(q) = q[1]
      /\ DOMAIN Tail(q) = 1..(Len(q) - 1)
      /\ \A i \in 1..(Len(q) - 1) : Tail(q)[i] = q[i + 1]
      /\ Head(q) \in Sinks
  BY HeadTailProperties
<1>2. NoSinkTwice(Tail(q)) /\ Head(q) \in ToSet(q)
  BY <1>1 DEF NoSinkTwice, ToSet
<1>3. \A i \in DOMAIN Tail(q) : Tail(q)[i] \in ToSet(q) \ {Head(q)}
  BY <1>1 DEF NoSinkTwice, ToSet
<1>4. ASSUME NEW i \in DOMAIN q, q[i] # Head(q)
      PROVE  q[i] \in ToSet(Tail(q))
  <2>1. i - 1 \in DOMAIN Tail(q) /\ Tail(q)[i - 1] = q[i]
    BY <1>1, <1>4
  <2>2. QED
    BY <2>1 DEF ToSet
<1>5. ToSet(Tail(q)) = ToSet(q) \ {Head(q)}
  BY <1>3, <1>4 DEF ToSet
<1>6. QED
  BY <1>1, <1>2, <1>5

\* The threads are finite, and so are those that hold a sink.
LEMMA ThreadsFinite ==
  ASSUME NEW H \in SUBSET Threads
  PROVE  IsFiniteSet(H) /\ Cardinality(H) \in Nat
<1>1. IsFiniteSet(Threads)
  BY NotifierAssumption, FS_Union DEF NotifierAssumption, Threads
<1>2. IsFiniteSet(H)
  BY <1>1, FS_Subset
<1>3. QED
  BY <1>2, FS_CardinalityType

\* When one thread takes or gives back a reference, the count follows.
LEMMA HoldersMove ==
  ASSUME NEW H \in SUBSET Threads, NEW K \in SUBSET Threads, NEW t \in Threads,
         H \ {t} = K \ {t}
  PROVE  Cardinality(K) = Cardinality(H) + One(t \in K) - One(t \in H)
<1>1. /\ IsFiniteSet(H) /\ Cardinality(H) \in Nat
      /\ IsFiniteSet(K) /\ Cardinality(K) \in Nat
  BY ThreadsFinite
<1>2. ASSUME NEW M \in SUBSET Threads, IsFiniteSet(M), Cardinality(M) \in Nat
      PROVE  Cardinality(M \ {t}) = Cardinality(M) - One(t \in M)
  <2>1. Cardinality(M \ {t}) = IF t \in M THEN Cardinality(M) - 1 ELSE Cardinality(M)
    BY <1>2, FS_RemoveElement
  <2>2. CASE t \in M
    BY <2>1, <2>2 DEF One
  <2>3. CASE t \notin M
    BY <1>2, <2>1, <2>3 DEF One
  <2>4. QED
    BY <2>2, <2>3
<1>3. /\ Cardinality(H \ {t}) = Cardinality(H) - One(t \in H)
      /\ Cardinality(K \ {t}) = Cardinality(K) - One(t \in K)
  BY <1>1, <1>2
<1>4. One(t \in H) \in Int /\ One(t \in K) \in Int
  BY DEF One
<1>5. Cardinality(H \ {t}) = Cardinality(K \ {t})
  BY Zenon
<1>6. QED
  BY <1>1, <1>3, <1>4, <1>5

\* A step that leaves the copies alone leaves their references alone.
LEMMA HoldersStay ==
  ASSUME \A t \in Threads : dispatch'[t].todo = dispatch[t].todo
  PROVE  \A s \in Sinks : Cardinality(Holding(s)') = Cardinality(Holding(s))
<1>1. \A s \in Sinks : Holding(s)' = Holding(s)
  BY DEF Holding
<1>2. QED
  BY <1>1, Zenon

\* A step of one thread moves the references that thread holds.
LEMMA HoldersFollow ==
  ASSUME NEW t \in Threads, \A u \in Threads \ {t} : dispatch'[u].todo = dispatch[u].todo,
         NEW s \in Sinks
  PROVE  Cardinality(Holding(s)') = Cardinality(Holding(s))
           + One(s \in ToSet(dispatch'[t].todo)) - One(s \in ToSet(dispatch[t].todo))
<1> DEFINE H == Holding(s)
           K == Holding(s)'
<1>1. H \in SUBSET Threads /\ K \in SUBSET Threads /\ H \ {t} = K \ {t}
  BY DEF Holding
<1>2. (t \in H <=> s \in ToSet(dispatch[t].todo)) /\ (t \in K <=> s \in ToSet(dispatch'[t].todo))
  BY DEF Holding
<1> HIDE DEF H, K
<1>3. Cardinality(K) = Cardinality(H) + One(t \in K) - One(t \in H)
  BY <1>1, HoldersMove
<1>4. /\ One(t \in H) = One(s \in ToSet(dispatch[t].todo))
      /\ One(t \in K) = One(s \in ToSet(dispatch'[t].todo))
  BY <1>2 DEF One
<1>5. QED
  BY <1>3, <1>4, Zenon DEF H, K

\* Init establishes the count.
LEMMA CountedInit == Init => Counted
<1> SUFFICES ASSUME Init
             PROVE  Counted
  OBVIOUS
<1>1. /\ refs \in [Sinks -> Int] /\ list = <<>> /\ owned = Sinks
      /\ \A t \in Threads : dispatch[t].todo = <<>>
      /\ \A s \in Sinks : refs[s] = 1
  BY DEF Init, NoDispatch
<1>2. NoSinkTwice(<<>>) /\ ToSet(<<>>) = {}
  BY DEF NoSinkTwice, ToSet
<1>3. ASSUME NEW s \in Sinks
      PROVE  refs[s] = One(s \in owned) + One(s \in Listed) + Cardinality(Holding(s))
  <2>1. Holding(s) = {}
    BY <1>1, <1>2 DEF Holding
  <2>2. Cardinality(Holding(s)) = 0
    BY <2>1, FS_EmptySet, Zenon
  <2>3. s \in owned /\ s \notin Listed
    BY <1>1, <1>2 DEF Listed
  <2>4. QED
    BY <1>1, <2>2, <2>3 DEF One
<1>4. QED
  BY <1>1, <1>2, <1>3 DEF Counted

\* Every step gives and takes references in step with their owners.
LEMMA CountedStep ==
  ASSUME NotifierInv, Counted, [Next]_vars
  PROVE  Counted'
<1> USE NotifierAssumption DEF NotifierAssumption, NotifierInv, clients, history
<1>0. /\ \A s \in Sinks : Cardinality(Holding(s)) \in Nat
      /\ \A s \in Sinks : Holding(s) \in SUBSET Threads
  BY ThreadsFinite DEF Holding
<1>1. ASSUME NEW s \in Sinks, Register(s)
      PROVE  Counted'
  <2>1. /\ list \in Seq(Sinks) /\ list' = Append(list, s) /\ s \notin ToSet(list)
        /\ refs' = [refs EXCEPT ![s] = @ + 1]
        /\ UNCHANGED <<owned, dispatch>>
    BY <1>1 DEF Register, Types, Listed
  <2>2. NoSinkTwice(list') /\ Listed' = Listed \cup {s} /\ s \notin Listed
    BY <2>1, AppendOnce DEF Counted, Listed
  <2>3. refs' \in [Sinks -> Int]
    BY <2>1 DEF Counted
  <2>4. \A u \in Sinks : Cardinality(Holding(u)') = Cardinality(Holding(u))
    BY <2>1, HoldersStay
  <2>5. ASSUME NEW u \in Sinks
        PROVE  refs'[u] = One(u \in owned') + One(u \in Listed') + Cardinality(Holding(u)')
    <3>1. refs[u] = One(u \in owned) + One(u \in Listed) + Cardinality(Holding(u))
      BY DEF Counted
    <3>2. refs'[u] = refs[u] + One(u = s)
      BY <2>1 DEF Counted, One
    <3>3. One(u \in Listed') = One(u \in Listed) + One(u = s)
      BY <2>2 DEF One
    <3>4. QED
      BY <1>0, <2>1, <2>4, <3>1, <3>2, <3>3 DEF One
  <2>6. QED
    BY <2>1, <2>2, <2>3, <2>5 DEF Counted
<1>2. ASSUME NEW s \in Sinks, Unregister(s)
      PROVE  Counted'
  <2>1. PICK i \in DOMAIN list : list[i] = s /\ list' = RemoveAt(list, i)
    BY <1>2 DEF Unregister, Places
  <2>2. /\ list \in Seq(Sinks) /\ refs' = [refs EXCEPT ![s] = @ - 1]
        /\ UNCHANGED <<owned, dispatch>>
    BY <1>2 DEF Unregister, Types
  <2>3. NoSinkTwice(list') /\ Listed' = Listed \ {s} /\ s \in Listed
    <3>1. NoSinkTwice(list)
      BY DEF Counted
    <3>2. NoSinkTwice(list') /\ ToSet(list') = ToSet(list) \ {s}
      BY <2>1, <2>2, <3>1, RemoveOnce
    <3>3. QED
      BY <2>1, <3>2 DEF Listed, ToSet
  <2>4. refs' \in [Sinks -> Int]
    BY <2>2 DEF Counted
  <2>5. \A u \in Sinks : Cardinality(Holding(u)') = Cardinality(Holding(u))
    BY <2>2, HoldersStay
  <2>6. ASSUME NEW u \in Sinks
        PROVE  refs'[u] = One(u \in owned') + One(u \in Listed') + Cardinality(Holding(u)')
    <3>1. refs[u] = One(u \in owned) + One(u \in Listed) + Cardinality(Holding(u))
      BY DEF Counted
    <3>2. refs'[u] = refs[u] - One(u = s)
      BY <2>2 DEF Counted, One
    <3>3. One(u \in Listed') = One(u \in Listed) - One(u = s)
      BY <2>3 DEF One
    <3>4. QED
      BY <1>0, <2>2, <2>5, <3>1, <3>2, <3>3 DEF One
  <2>7. QED
    BY <2>2, <2>3, <2>4, <2>6 DEF Counted
<1>3. ASSUME NEW s \in Sinks, Abandon(s)
      PROVE  Counted'
  <2>1. /\ s \in owned /\ owned' = owned \ {s} /\ refs' = [refs EXCEPT ![s] = @ - 1]
        /\ UNCHANGED <<list, dispatch>>
    BY <1>3 DEF Abandon
  <2>2. refs' \in [Sinks -> Int] /\ Listed' = Listed
    BY <2>1 DEF Counted, Listed
  <2>3. \A u \in Sinks : Cardinality(Holding(u)') = Cardinality(Holding(u))
    BY <2>1, HoldersStay
  <2>4. ASSUME NEW u \in Sinks
        PROVE  refs'[u] = One(u \in owned') + One(u \in Listed') + Cardinality(Holding(u)')
    <3>1. refs[u] = One(u \in owned) + One(u \in Listed) + Cardinality(Holding(u))
      BY DEF Counted
    <3>2. refs'[u] = refs[u] - One(u = s)
      BY <2>1 DEF Counted, One
    <3>3. One(u \in owned') = One(u \in owned) - One(u = s)
      BY <2>1 DEF One
    <3>4. QED
      BY <1>0, <2>2, <2>3, <3>1, <3>2, <3>3 DEF One
  <2>5. QED
    BY <2>1, <2>2, <2>4 DEF Counted
<1>4. ASSUME NEW t \in Threads, ReleaseSink(t)
      PROVE  Counted'
  <2> DEFINE q == dispatch[t].todo
             s == Head(q)
  <2>1. /\ q \in Seq(Sinks) /\ q # <<>> /\ dispatch'[t].todo = Tail(q)
        /\ \A u \in Threads \ {t} : dispatch'[u].todo = dispatch[u].todo
        /\ refs' = [refs EXCEPT ![s] = @ - 1] /\ UNCHANGED <<list, owned>>
    BY <1>4, ReleaseEffect DEF ReleaseSink
  <2>2. NoSinkTwice(q)
    BY DEF Counted
  <2>3. /\ NoSinkTwice(Tail(q)) /\ s \in Sinks /\ s \in ToSet(q)
        /\ ToSet(Tail(q)) = ToSet(q) \ {s}
    BY <2>1, <2>2, TailOnce
  <2>4. refs' \in [Sinks -> Int] /\ Listed' = Listed
    BY <2>1, <2>3 DEF Counted, Listed
  <2>5. ASSUME NEW u \in Sinks
        PROVE  refs'[u] = One(u \in owned') + One(u \in Listed') + Cardinality(Holding(u)')
    <3>1. refs[u] = One(u \in owned) + One(u \in Listed) + Cardinality(Holding(u))
      BY DEF Counted
    <3>2. refs'[u] = refs[u] - One(u = s)
      <4>1. refs \in [Sinks -> Int]
        BY DEF Counted
      <4>2. refs' = [refs EXCEPT ![s] = @ - 1] /\ s \in Sinks
        BY <2>1, <2>3
      <4> HIDE DEF s
      <4> QED BY <4>1, <4>2 DEF One
    <3>3. Cardinality(Holding(u)') = Cardinality(Holding(u)) + One(u \in ToSet(Tail(q))) - One(u \in ToSet(q))
      <4>1. /\ \A v \in Threads \ {t} : dispatch'[v].todo = dispatch[v].todo
            /\ dispatch'[t].todo = Tail(q)
        BY <2>1
      <4> QED BY <4>1, HoldersFollow
    <3>4. One(u \in ToSet(Tail(q))) = One(u \in ToSet(q)) - One(u = s)
      BY <2>3 DEF One
    <3>5. One(u \in ToSet(q)) \in Int /\ One(u = s) \in Int /\ One(u \in owned) \in Int /\ One(u \in Listed) \in Int
      BY DEF One
    <3>6. One(u \in owned') = One(u \in owned) /\ One(u \in Listed') = One(u \in Listed)
      BY <2>1, <2>4
    <3> HIDE DEF q, s
    <3>7. QED
      BY <1>0, <3>1, <3>2, <3>3, <3>4, <3>5, <3>6
  <2>6. \A u \in Threads : NoSinkTwice(dispatch'[u].todo)
    BY <2>1, <2>3 DEF Counted
  <2>7. QED
    BY <2>1, <2>4, <2>5, <2>6 DEF Counted
<1>5. ASSUME NEW t \in Threads, NEW n, Snapshot(t, n), dispatch[t].todo = <<>>,
             UNCHANGED <<list, owned>>
      PROVE  Counted'
  <2>1. /\ dispatch'[t].todo = list
        /\ \A u \in Threads \ {t} : dispatch'[u].todo = dispatch[u].todo
        /\ refs' = [s \in Sinks |-> refs[s] + IF s \in Listed THEN 1 ELSE 0]
    BY <1>5 DEF Snapshot, Types, Dispatches
  <2>2. refs' \in [Sinks -> Int] /\ Listed' = Listed
    BY <1>5, <2>1 DEF Counted, Listed
  <2>3. ToSet(<<>>) = {}
    BY DEF ToSet
  <2>4. ASSUME NEW u \in Sinks
        PROVE  refs'[u] = One(u \in owned') + One(u \in Listed') + Cardinality(Holding(u)')
    <3>1. refs[u] = One(u \in owned) + One(u \in Listed) + Cardinality(Holding(u))
      BY DEF Counted
    <3>2. refs'[u] = refs[u] + One(u \in Listed)
      BY <2>1 DEF One
    <3>3. Cardinality(Holding(u)') = Cardinality(Holding(u))
            + One(u \in ToSet(dispatch'[t].todo)) - One(u \in ToSet(dispatch[t].todo))
      BY <2>1, HoldersFollow
    <3>4. One(u \in ToSet(dispatch'[t].todo)) = One(u \in Listed) /\ One(u \in ToSet(dispatch[t].todo)) = 0
      BY <1>5, <2>1, <2>3 DEF One, Listed
    <3>5. One(u \in owned) \in Int /\ One(u \in Listed) \in Int
      BY DEF One
    <3>6. One(u \in owned') = One(u \in owned) /\ One(u \in Listed') = One(u \in Listed)
      BY <1>5, <2>2
    <3>7. QED
      BY <1>0, <3>1, <3>2, <3>3, <3>4, <3>5, <3>6
  <2>5. \A u \in Threads : NoSinkTwice(dispatch'[u].todo)
    BY <2>1 DEF Counted
  <2>6. QED
    BY <1>5, <2>2, <2>4, <2>5 DEF Counted
<1>6. CASE /\ \A t \in Threads : dispatch'[t].todo = dispatch[t].todo
           /\ UNCHANGED <<list, refs, owned>>
  <2>1. \A u \in Sinks : Cardinality(Holding(u)') = Cardinality(Holding(u))
    BY <1>6, HoldersStay
  <2>2. Listed' = Listed /\ owned' = owned /\ refs' = refs
    BY <1>6 DEF Listed
  <2>3. \A u \in Sinks : refs'[u] = One(u \in owned') + One(u \in Listed') + Cardinality(Holding(u)')
    BY <2>1, <2>2 DEF Counted
  <2>4. QED
    BY <1>6, <2>3 DEF Counted
<1>7. ASSUME NEW c \in Callers, PreChange(c)
      PROVE  Counted'
  <2>1. c \in Threads /\ Snapshot(c, changes') /\ dispatch[c].todo = <<>> /\ UNCHANGED <<list, owned>>
    BY <1>7 DEF PreChange, Concluded, Threads
  <2>2. QED
    BY <1>5, <2>1
<1>8. ASSUME NEW w \in Workers, RunJob(w)
      PROVE  Counted'
  <2>1. w \in Threads /\ Snapshot(w, Head(jobs)) /\ dispatch[w].todo = <<>> /\ UNCHANGED <<list, owned>>
    BY <1>8 DEF RunJob, Busy, Concluded, Threads
  <2>2. QED
    BY <1>5, <2>1
<1>9. ASSUME NEW t \in Threads, Call(t)
      PROVE  Counted'
  <2>1. (\A u \in Threads : dispatch'[u].todo = dispatch[u].todo) /\ UNCHANGED <<list, refs, owned>>
    BY <1>9, CallEffect DEF Call
  <2>2. QED
    BY <1>6, <2>1
<1>10. ASSUME NEW c \in Callers, SetHal(c)
       PROVE  Counted'
  BY <1>6, <1>10 DEF SetHal
<1>11. ASSUME NEW t \in Threads, dispatch[t].todo = <<>>,
              dispatch' = [dispatch EXCEPT ![t] = NoDispatch], UNCHANGED <<list, refs, owned>>
       PROVE  Counted'
  <2>1. \A u \in Threads : dispatch'[u].todo = dispatch[u].todo
    BY <1>11 DEF NoDispatch, Types
  <2>2. QED
    BY <1>6, <1>11, <2>1
<1>12. ASSUME NEW c \in Callers, SubmitPost(c)
       PROVE  Counted'
  BY <1>11, <1>12 DEF SubmitPost, Threads
<1>13. ASSUME NEW w \in Workers, EndJob(w)
       PROVE  Counted'
  BY <1>11, <1>13 DEF EndJob, Threads
<1>14. CASE Destroy
  <2>1. /\ list' = <<>> /\ refs' = [s \in Sinks |-> refs[s] - IF s \in Listed THEN 1 ELSE 0]
        /\ UNCHANGED <<owned, dispatch>>
    BY <1>14 DEF Destroy
  <2>2. refs' \in [Sinks -> Int] /\ NoSinkTwice(list') /\ Listed' = {}
    BY <2>1 DEF Counted, NoSinkTwice, Listed, ToSet
  <2>3. \A u \in Sinks : Cardinality(Holding(u)') = Cardinality(Holding(u))
    BY <2>1, HoldersStay
  <2>4. ASSUME NEW u \in Sinks
        PROVE  refs'[u] = One(u \in owned') + One(u \in Listed') + Cardinality(Holding(u)')
    <3>1. refs[u] = One(u \in owned) + One(u \in Listed) + Cardinality(Holding(u))
      BY DEF Counted
    <3>2. refs'[u] = refs[u] - One(u \in Listed) /\ One(u \in Listed') = 0
      BY <2>1, <2>2 DEF One
    <3>3. QED
      BY <1>0, <2>1, <2>3, <3>1, <3>2 DEF One
  <2>5. QED
    BY <2>1, <2>2, <2>4 DEF Counted
<1>15. CASE UNCHANGED vars
  BY <1>6, <1>15 DEF vars
<1>16. QED
  BY <1>1, <1>2, <1>3, <1>4, <1>7, <1>8, <1>9, <1>10, <1>12, <1>13, <1>14, <1>15
     DEF Next, ClientStep, DispatchStep, CallerStep, WorkerStep

\* A sink stands at one place of a list without repetitions, or at none.
LEMMA OnePlace ==
  ASSUME NEW q, NoSinkTwice(q), NEW s
  PROVE  /\ s \in ToSet(q) => \E i \in DOMAIN q : q[i] = s /\ Places(q, s) = {i}
         /\ s \notin ToSet(q) => Places(q, s) = {}
BY DEF NoSinkTwice, ToSet, Places

\* The owners of a sink are as many as its client, its list entry and the
\* threads that hold it.
LEMMA OwnersCount ==
  ASSUME Types, Counted, NEW s \in Sinks
  PROVE  Cardinality(OwnersOf(s)) = One(s \in owned) + One(s \in Listed) + Cardinality(Holding(s))
<1> DEFINE A == {<<"client", x>> : x \in owned \cap {s}}
           B == {<<"list", i>> : i \in Places(list, s)}
           C == UNION {{<<"dispatch", t, i>> : i \in Places(dispatch[t].todo, s)} : t \in Threads}
<1>1. IsFiniteSet(A) /\ Cardinality(A) = One(s \in owned)
  <2>1. CASE s \in owned
    <3>1. A = {<<"client", s>>}
      BY <2>1
    <3>2. IsFiniteSet(A) /\ Cardinality(A) = 1
      BY <3>1, FS_Singleton, Zenon
    <3>3. QED
      BY <2>1, <3>2 DEF One
  <2>2. CASE s \notin owned
    <3>1. A = {}
      BY <2>2
    <3>2. IsFiniteSet(A) /\ Cardinality(A) = 0
      BY <3>1, FS_EmptySet, Zenon
    <3>3. QED
      BY <2>2, <3>2 DEF One
  <2>3. QED
    BY <2>1, <2>2
<1>2. IsFiniteSet(B) /\ Cardinality(B) = One(s \in Listed)
  <2>0. NoSinkTwice(list)
    BY DEF Counted
  <2>1. CASE s \in Listed
    <3>1. PICK i \in DOMAIN list : Places(list, s) = {i}
      BY <2>0, <2>1, OnePlace DEF Listed
    <3>2. B = {<<"list", i>>}
      BY <3>1
    <3>3. IsFiniteSet(B) /\ Cardinality(B) = 1
      BY <3>2, FS_Singleton, Zenon
    <3>4. QED
      BY <2>1, <3>3 DEF One
  <2>2. CASE s \notin Listed
    <3>1. Places(list, s) = {}
      BY <2>0, <2>2, OnePlace DEF Listed
    <3>2. B = {}
      BY <3>1
    <3>3. IsFiniteSet(B) /\ Cardinality(B) = 0
      BY <3>2, FS_EmptySet, Zenon
    <3>4. QED
      BY <2>2, <3>3 DEF One
  <2>3. QED
    BY <2>1, <2>2
<1>3. IsFiniteSet(C) /\ Cardinality(C) = Cardinality(Holding(s))
  <2> DEFINE place(t) == CHOOSE i \in DOMAIN dispatch[t].todo : dispatch[t].todo[i] = s
             f == [t \in Holding(s) |-> <<"dispatch", t, place(t)>>]
  <2>1. \A t \in Holding(s) : Places(dispatch[t].todo, s) = {place(t)}
    <3>1. SUFFICES ASSUME NEW t \in Holding(s)
                   PROVE  Places(dispatch[t].todo, s) = {place(t)}
      OBVIOUS
    <3>2. NoSinkTwice(dispatch[t].todo) /\ s \in ToSet(dispatch[t].todo)
      BY DEF Holding, Counted
    <3>3. PICK i \in DOMAIN dispatch[t].todo : dispatch[t].todo[i] = s /\ Places(dispatch[t].todo, s) = {i}
      BY <3>2, OnePlace
    <3>4. place(t) \in DOMAIN dispatch[t].todo /\ dispatch[t].todo[place(t)] = s
      BY <3>3
    <3>5. place(t) = i
      BY <3>3, <3>4 DEF Places
    <3>6. QED
      BY <3>3, <3>5
  <2>2. \A t \in Threads : t \notin Holding(s) => Places(dispatch[t].todo, s) = {}
    BY OnePlace DEF Holding, Counted
  <2> HIDE DEF place
  <2>3. C = {<<"dispatch", t, place(t)>> : t \in Holding(s)}
    <3>1. ASSUME NEW x \in C
          PROVE  x \in {<<"dispatch", t, place(t)>> : t \in Holding(s)}
      <4>1. PICK t \in Threads : \E i \in Places(dispatch[t].todo, s) : x = <<"dispatch", t, i>>
        BY <3>1
      <4>2. t \in Holding(s)
        BY <2>2, <4>1
      <4>3. QED
        BY <2>1, <4>1, <4>2
    <3>2. ASSUME NEW t \in Holding(s)
          PROVE  <<"dispatch", t, place(t)>> \in C
      <4>1. t \in Threads /\ place(t) \in Places(dispatch[t].todo, s)
        BY <2>1 DEF Holding
      <4>2. QED
        BY <4>1
    <3>3. QED
      BY <3>1, <3>2
  <2> HIDE DEF C
  <2>4. f \in Bijection(Holding(s), C)
    BY <2>3 DEF Bijection, Injection, Surjection, IsInjective
  <2>5. ExistsBijection(Holding(s), C)
    BY <2>4 DEF ExistsBijection
  <2>6. Holding(s) \in SUBSET Threads
    BY DEF Holding
  <2>7. QED
    BY <2>5, <2>6, ThreadsFinite, FS_Bijection
<1>4. A \cap B = {} /\ (A \cup B) \cap C = {}
  OBVIOUS
<1>5. OwnersOf(s) = (A \cup B) \cup C
  BY DEF OwnersOf
<1> HIDE DEF A, B, C
<1>6. /\ Cardinality(A) \in Nat /\ Cardinality(B) \in Nat /\ Cardinality(C) \in Nat
  BY <1>1, <1>2, <1>3, FS_CardinalityType
<1>7. /\ Cardinality(A \cap B) = 0 /\ Cardinality((A \cup B) \cap C) = 0
  BY <1>4, FS_EmptySet, Zenon
<1>8. IsFiniteSet(A \cup B) /\ Cardinality(A \cup B) = Cardinality(A) + Cardinality(B)
  <2>1. IsFiniteSet(A \cup B) /\ Cardinality(A \cup B) = Cardinality(A) + Cardinality(B) - Cardinality(A \cap B)
    BY <1>1, <1>2, FS_Union
  <2>2. QED
    BY <1>6, <1>7, <2>1
<1>9. Cardinality((A \cup B) \cup C) = Cardinality(A \cup B) + Cardinality(C)
  <2>1. Cardinality((A \cup B) \cup C) = Cardinality(A \cup B) + Cardinality(C) - Cardinality((A \cup B) \cap C)
    BY <1>3, <1>8, FS_Union
  <2>2. Cardinality(A \cup B) \in Nat
    BY <1>6, <1>8
  <2>3. QED
    BY <1>6, <1>7, <2>1, <2>2
<1>10. Cardinality(OwnersOf(s)) = Cardinality((A \cup B) \cup C)
  BY <1>5, Zenon
<1>11. QED
  BY <1>1, <1>2, <1>3, <1>8, <1>9, <1>10

\* The client, the list and the dispatches under way account for every
\* reference to a sink, and one that is still to be called is alive, whoever
\* registers, unregisters, lets go or destroys meanwhile (Register,
\* Unregister, Dispatch, dispatchVideoPortEvent, the destructor).
THEOREM EverySinkIsAccountedFor == Spec => []SinksAreAccountedFor
<1>1. NotifierInv /\ Counted /\ [Next]_vars => NotifierInv' /\ Counted'
  BY TypesStep, AnnouncedStep, ConcludedStep, CountedStep DEF NotifierInv
<1>2. NotifierInv /\ Counted => SinksAreAccountedFor
  <2>1. SUFFICES ASSUME Types, Counted
                 PROVE  ReferencesMatchOwners /\ CalledSinksAreAlive
    BY DEF NotifierInv, SinksAreAccountedFor
  <2>2. ReferencesMatchOwners
    BY <2>1, OwnersCount DEF ReferencesMatchOwners, Counted
  <2>3. ASSUME NEW t \in Threads, NEW i \in DOMAIN dispatch[t].todo
        PROVE  refs[dispatch[t].todo[i]] > 0
    <3> DEFINE s == dispatch[t].todo[i]
    <3>1. dispatch[t].todo \in Seq(Sinks)
      BY <2>1 DEF Types, Dispatches
    <3>2. s \in Sinks /\ t \in Holding(s) /\ Holding(s) \in SUBSET Threads
      BY <2>3, <3>1 DEF Holding, ToSet
    <3> HIDE DEF s
    <3>3. IsFiniteSet(Holding(s)) /\ Cardinality(Holding(s)) \in Nat /\ Holding(s) # {}
      BY <3>2, ThreadsFinite
    <3>4. Cardinality(Holding(s)) # 0
      BY <3>3, FS_EmptySet, Zenon
    <3>5. refs[s] = One(s \in owned) + One(s \in Listed) + Cardinality(Holding(s))
      BY <2>1, <3>2 DEF Counted
    <3>6. refs[s] > 0
      BY <3>3, <3>4, <3>5 DEF One
    <3>7. QED
      BY <3>6 DEF s
  <2>4. QED
    BY <2>2, <2>3 DEF CalledSinksAreAlive
<1>3. QED
  BY NotifierInit, CountedInit, <1>1, <1>2, PTL DEF Spec

-----------------------------------------------------------------------------
(* The end of a change may be told late; it is never dropped.              *)

\* A worker has sink s on its copy of the list to tell it the end of change n.
OnItsWay(n, s) == \E w \in Workers : dispatch[w].change = n /\ s \in ToSet(dispatch[w].todo)

\* What ChangesAreConcluded needs of every single step: a change whose end is
\* to be announced stays with its caller or in the queue until a worker has
\* copied every sink that is listed then, and no sink leaves that copy before
\* it was called, even if it is unregistered or the component destroyed
\* (submitVideoPortEvent, Job::Dispatch, dispatchVideoPortEvent).
ConclusionIsKept ==
  [][\A n \in Changes, s \in Sinks :
       /\ Pending(n) /\ s \in Listed /\ s \in Listed' => Pending(n)' \/ OnItsWay(n, s)'
       /\ OnItsWay(n, s) => OnItsWay(n, s)' \/ s \in post'[n]]_vars

\* The sink a worker has called has heard of the end of the worker's change.
CalledHaveHeard ==
  \A w \in Workers : dispatch[w].called /\ dispatch[w].todo # <<>> =>
    Head(dispatch[w].todo) \in post[dispatch[w].change]

\* The threads are callers or workers.
LEMMA CallersAreNoWorkers ==
  /\ \A c \in Callers : c \in Threads /\ c \notin Workers
  /\ \A w \in Workers : w \in Threads /\ w \notin Callers
BY NotifierAssumption DEF NotifierAssumption, Threads

\* What is in a sequence is its head or in its tail.
LEMMA HeadOrTail ==
  ASSUME NEW S, NEW q \in Seq(S), q # <<>>, NEW x \in ToSet(q)
  PROVE  x = Head(q) \/ x \in ToSet(Tail(q))
<1>1. PICK i \in 1..Len(q) : q[i] = x
  BY DEF ToSet
<1>2. CASE i = 1
  BY <1>1, <1>2
<1>3. CASE i # 1
  <2>1. i - 1 \in DOMAIN Tail(q) /\ Tail(q)[i - 1] = x
    BY <1>1, <1>3
  <2> QED BY <2>1 DEF ToSet
<1> QED BY <1>2, <1>3

\* What the workers have called stays called.
LEMMA CalledHaveHeardStep ==
  ASSUME NotifierInv, CalledHaveHeard, [Next]_vars
  PROVE  CalledHaveHeard'
<1> USE DEF clients, history
<1>0. Types /\ Concluded /\ dispatch \in [Threads -> Dispatches]
  BY DEF NotifierInv, Types
<1>1. CASE UNCHANGED <<dispatch, post>>
  BY <1>1 DEF CalledHaveHeard
<1>2. ASSUME NEW t \in Threads, Call(t)
      PROVE  CalledHaveHeard'
  <2>1. /\ dispatch' = [dispatch EXCEPT ![t].called = TRUE]
        /\ t \in Callers => post' = post
        /\ t \notin Callers =>
             post' = [post EXCEPT ![dispatch[t].change] = @ \cup {Head(dispatch[t].todo)}]
    BY <1>2 DEF Call
  <2>2. t \notin Callers => dispatch[t].change \in DOMAIN post
    BY <1>0, <1>2 DEF Call, Concluded, Types, Dispatches, Changes
  <2> SUFFICES ASSUME NEW w \in Workers, dispatch'[w].called, dispatch'[w].todo # <<>>
               PROVE  Head(dispatch'[w].todo) \in post'[dispatch'[w].change]
    BY DEF CalledHaveHeard
  <2>3. w \in Threads /\ w \notin Callers
    BY CallersAreNoWorkers
  <2>4. dispatch'[w].todo = dispatch[w].todo /\ dispatch'[w].change = dispatch[w].change
    BY <1>0, <2>1, <2>3
  <2>5. CASE w = t
    <3>1. Head(dispatch[t].todo) \in post'[dispatch[t].change]
      BY <2>1, <2>2, <2>3, <2>5
    <3> QED BY <2>4, <2>5, <3>1
  <2>6. CASE w # t
    <3>1. dispatch[w].called /\ dispatch[w].todo # <<>>
      BY <1>0, <2>1, <2>3, <2>4, <2>6
    <3>2. Head(dispatch[w].todo) \in post[dispatch[w].change]
      BY <3>1 DEF CalledHaveHeard
    <3>3. dispatch[w].change \in DOMAIN post
      BY <1>0, <2>3, <3>1 DEF Concluded, Types, Dispatches, Changes
    <3>4. post[dispatch[w].change] \subseteq post'[dispatch[w].change]
      BY <2>1, <2>2, <3>3
    <3> QED BY <2>4, <3>2, <3>4
  <2> QED BY <2>5, <2>6
<1>3. ASSUME NEW t \in Threads, dispatch'[t].todo = <<>> \/ ~dispatch'[t].called, UNCHANGED post,
             \A u \in Threads \ {t} : dispatch'[u] = dispatch[u]
      PROVE  CalledHaveHeard'
  BY <1>3, CallersAreNoWorkers DEF CalledHaveHeard
<1>4. ASSUME NEW t \in Threads, ReleaseSink(t)
      PROVE  CalledHaveHeard'
  BY <1>0, <1>3, <1>4, ReleaseEffect
<1>6. ASSUME NEW t \in Threads, NEW n, Snapshot(t, n), UNCHANGED post
      PROVE  CalledHaveHeard'
  <2>1. ~dispatch'[t].called /\ \A u \in Threads \ {t} : dispatch'[u] = dispatch[u]
    BY <1>0, <1>6 DEF Snapshot
  <2> QED BY <1>3, <1>6, <2>1
<1>7. ASSUME NEW t \in Threads, dispatch' = [dispatch EXCEPT ![t] = NoDispatch], UNCHANGED post
      PROVE  CalledHaveHeard'
  <2>1. ~dispatch'[t].called /\ \A u \in Threads \ {t} : dispatch'[u] = dispatch[u]
    BY <1>0, <1>7 DEF NoDispatch
  <2> QED BY <1>3, <1>7, <2>1
<1>a. ASSUME NEW c \in Callers, PreChange(c) \/ SubmitPost(c)
      PROVE  CalledHaveHeard'
  BY <1>6, <1>7, <1>a, CallersAreNoWorkers DEF PreChange, SubmitPost
<1>b. ASSUME NEW w \in Workers, RunJob(w) \/ EndJob(w)
      PROVE  CalledHaveHeard'
  BY <1>6, <1>7, <1>b, CallersAreNoWorkers DEF RunJob, EndJob
<1>8. CASE ClientStep \/ Destroy \/ (\E c \in Callers : SetHal(c)) \/ UNCHANGED vars
  BY <1>1, <1>8 DEF ClientStep, Register, Unregister, Abandon, Destroy, SetHal, vars
<1> QED BY <1>2, <1>4, <1>8, <1>a, <1>b DEF Next, DispatchStep, CallerStep, WorkerStep

\* A sink on its way to hear of a change is called before it leaves the copy.
LEMMA ItIsCalled ==
  ASSUME NotifierInv, CalledHaveHeard, [Next]_vars, NEW n \in Changes, NEW s \in Sinks, OnItsWay(n, s)
  PROVE  OnItsWay(n, s)' \/ s \in post'[n]
<1> USE DEF clients, history
<1>0. Types /\ Concluded /\ dispatch \in [Threads -> Dispatches]
  BY DEF NotifierInv, Types
<1>1. PICK w \in Workers : dispatch[w].change = n /\ s \in ToSet(dispatch[w].todo)
  BY DEF OnItsWay
<1>2. w \in Threads /\ w \notin Callers
  BY CallersAreNoWorkers
<1>3. ASSUME dispatch'[w].change = n, dispatch'[w].todo = dispatch[w].todo
      PROVE  OnItsWay(n, s)'
  BY <1>1, <1>3 DEF OnItsWay
<1>4. dispatch[w].todo # <<>> /\ dispatch[w].todo \in Seq(Sinks) /\ n # 0
  BY <1>0, <1>1, <1>2 DEF ToSet, Dispatches, Changes
<1>5. ASSUME NEW t \in Threads, ReleaseSink(t)
      PROVE  OnItsWay(n, s)' \/ s \in post'[n]
  <2>1. CASE t # w
    BY <1>1, <1>2, <1>3, <1>5, <2>1, ReleaseEffect, <1>0
  <2>2. CASE t = w
    <3>1. /\ dispatch'[w].change = n /\ dispatch'[w].todo = Tail(dispatch[w].todo)
          /\ dispatch[w].called /\ UNCHANGED post
      BY <1>0, <1>1, <1>5, <2>2, ReleaseEffect
    <3>2. Head(dispatch[w].todo) \in post[n]
      BY <1>1, <1>4, <3>1 DEF CalledHaveHeard
    <3>3. s = Head(dispatch[w].todo) \/ s \in ToSet(Tail(dispatch[w].todo))
      BY <1>1, <1>4, HeadOrTail
    <3> QED BY <3>1, <3>2, <3>3 DEF OnItsWay
  <2> QED BY <2>1, <2>2
<1>6. ASSUME NEW t \in Threads, t # w, \A u \in Threads \ {t} : dispatch'[u] = dispatch[u]
      PROVE  OnItsWay(n, s)'
  BY <1>1, <1>2, <1>3, <1>6
<1>7. ASSUME NEW c \in Callers, PreChange(c) \/ SubmitPost(c)
      PROVE  OnItsWay(n, s)'
  <2>1. c \in Threads /\ c # w
    BY <1>2, CallersAreNoWorkers
  <2>2. \A u \in Threads \ {c} : dispatch'[u] = dispatch[u]
    BY <1>0, <1>7 DEF PreChange, Snapshot, SubmitPost
  <2> QED BY <1>6, <2>1, <2>2
<1>8. ASSUME NEW x \in Workers, RunJob(x) \/ EndJob(x)
      PROVE  OnItsWay(n, s)'
  <2>1. x \in Threads /\ x # w
    BY <1>1, <1>4, <1>8, CallersAreNoWorkers DEF RunJob, EndJob, Busy
  <2>2. \A u \in Threads \ {x} : dispatch'[u] = dispatch[u]
    BY <1>0, <1>8 DEF RunJob, EndJob, Snapshot
  <2> QED BY <1>6, <2>1, <2>2
<1>9. ASSUME NEW t \in Threads, Call(t)
      PROVE  OnItsWay(n, s)'
  <2>1. dispatch'[w].change = dispatch[w].change /\ dispatch'[w].todo = dispatch[w].todo
    BY <1>0, <1>2, <1>9, CallEffect
  <2> QED BY <1>1, <1>3, <2>1
<1>10. CASE ClientStep \/ Destroy \/ (\E c \in Callers : SetHal(c)) \/ UNCHANGED vars
  <2>1. UNCHANGED dispatch
    BY <1>10 DEF ClientStep, Register, Unregister, Abandon, Destroy, SetHal, vars
  <2> QED BY <1>1, <1>3, <2>1
<1> QED BY <1>5, <1>7, <1>8, <1>9, <1>10 DEF Next, DispatchStep, CallerStep, WorkerStep

\* A change whose end is to be announced is not forgotten: a worker takes it
\* up with the whole list.
LEMMA ItIsTakenUp ==
  ASSUME NotifierInv, [Next]_vars, NEW n \in Changes, NEW s \in Sinks, Pending(n), s \in Listed
  PROVE  Pending(n)' \/ OnItsWay(n, s)'
<1> USE DEF clients, history
<1>0. Types /\ dispatch \in [Threads -> Dispatches] /\ stage \in [Callers -> {"idle", "announcing", "applied"}]
      /\ jobs \in Seq(Changes)
  BY DEF NotifierInv, Types
<1>1. ASSUME ToSet(jobs) \subseteq ToSet(jobs'),
             \A c \in Callers : stage[c] # "idle" =>
               stage'[c] # "idle" /\ dispatch'[c].change = dispatch[c].change
      PROVE  Pending(n)'
  BY <1>1 DEF Pending
<1>2. ASSUME NEW c \in Callers, PreChange(c)
      PROVE  Pending(n)'
  <2>1. stage[c] = "idle" /\ jobs' = jobs /\ stage' = [stage EXCEPT ![c] = "announcing"]
    BY <1>2 DEF PreChange
  <2>2. \A u \in Threads \ {c} : dispatch'[u] = dispatch[u]
    BY <1>0, <1>2 DEF PreChange, Snapshot
  <2> QED BY <1>0, <1>1, <2>1, <2>2, CallersAreNoWorkers
<1>3. ASSUME NEW c \in Callers, SetHal(c)
      PROVE  Pending(n)'
  BY <1>0, <1>1, <1>3 DEF SetHal
<1>4. ASSUME NEW c \in Callers, SubmitPost(c)
      PROVE  Pending(n)'
  <2>1. /\ jobs' = Append(jobs, dispatch[c].change)
        /\ stage' = [stage EXCEPT ![c] = "idle"] /\ dispatch' = [dispatch EXCEPT ![c] = NoDispatch]
        /\ c \in Threads
    BY <1>4, CallersAreNoWorkers DEF SubmitPost
  <2>2. dispatch[c].change \in ToSet(jobs') /\ ToSet(jobs) \subseteq ToSet(jobs')
    <3>1. /\ jobs'[Len(jobs) + 1] = dispatch[c].change
          /\ DOMAIN jobs = 1..Len(jobs) /\ DOMAIN jobs' = 1..(Len(jobs) + 1) /\ Len(jobs) \in Nat
      BY <1>0, <2>1
    <3>2. \A i \in 1..Len(jobs) : jobs'[i] = jobs[i]
      BY <1>0, <2>1
    <3> QED BY <3>1, <3>2 DEF ToSet
  <2>3. CASE n \in ToSet(jobs)
    BY <2>2, <2>3 DEF Pending
  <2>4. ASSUME NEW d \in Callers, stage[d] # "idle", dispatch[d].change = n
        PROVE  Pending(n)'
    <3>1. CASE d = c
      BY <2>2, <2>4, <3>1 DEF Pending
    <3>2. CASE d # c
      <4>1. stage'[d] # "idle" /\ dispatch'[d].change = n
        BY <1>0, <2>1, <2>4, <3>2, CallersAreNoWorkers
      <4> QED BY <4>1 DEF Pending
    <3> QED BY <3>1, <3>2
  <2> QED BY <2>3, <2>4 DEF Pending
<1>5. ASSUME NEW w \in Workers, RunJob(w)
      PROVE  Pending(n)' \/ OnItsWay(n, s)'
  <2>1. /\ jobs # <<>> /\ jobs' = Tail(jobs) /\ stage' = stage /\ w \in Threads
        /\ Snapshot(w, Head(jobs))
    BY <1>5, CallersAreNoWorkers DEF RunJob
  <2>2. \A u \in Threads \ {w} : dispatch'[u] = dispatch[u]
    BY <1>0, <2>1 DEF Snapshot
  <2>a. \A c \in Callers : dispatch'[c] = dispatch[c]
    BY <2>2, CallersAreNoWorkers
  <2>3. CASE n = Head(jobs)
    <3>1. dispatch'[w].change = n /\ dispatch'[w].todo = list
      BY <1>0, <2>1, <2>3 DEF Snapshot
    <3> QED BY <3>1 DEF OnItsWay, Listed
  <2>4. CASE n \in ToSet(Tail(jobs))
    BY <2>1, <2>4 DEF Pending
  <2>5. CASE n \notin ToSet(jobs)
    BY <2>1, <2>a, <2>5 DEF Pending
  <2>6. n \in ToSet(jobs) => n = Head(jobs) \/ n \in ToSet(Tail(jobs))
    BY <1>0, <2>1, HeadOrTail
  <2> QED BY <2>3, <2>4, <2>5, <2>6
<1>6. ASSUME NEW w \in Workers, EndJob(w)
      PROVE  Pending(n)'
  <2>1. jobs' = jobs /\ stage' = stage /\ dispatch' = [dispatch EXCEPT ![w] = NoDispatch]
    BY <1>6 DEF EndJob
  <2>2. \A c \in Callers : dispatch'[c] = dispatch[c]
    BY <1>0, <2>1, CallersAreNoWorkers
  <2> QED BY <1>1, <2>1, <2>2
<1>7. ASSUME NEW t \in Threads, DispatchStep(t)
      PROVE  Pending(n)'
  <2>1. jobs' = jobs /\ stage' = stage
    BY <1>7 DEF DispatchStep, Call, ReleaseSink
  <2>2. \A u \in Threads : dispatch'[u].change = dispatch[u].change
    BY <1>0, <1>7, CallEffect, ReleaseEffect DEF DispatchStep
  <2> QED BY <1>1, <2>1, <2>2, CallersAreNoWorkers
<1>8. CASE ClientStep \/ Destroy \/ UNCHANGED vars
  <2>1. UNCHANGED <<jobs, stage, dispatch>>
    BY <1>8 DEF ClientStep, Register, Unregister, Abandon, Destroy, vars
  <2> QED BY <1>1, <2>1
<1> QED BY <1>2, <1>3, <1>4, <1>5, <1>6, <1>7, <1>8 DEF Next, CallerStep, WorkerStep

\* The end of a change is never dropped, for any sinks, callers, workers and
\* number of changes: with threads that run, it is told.
THEOREM NoConclusionIsDropped == Spec => ConclusionIsKept
<1>1. Init => CalledHaveHeard
  BY CallersAreNoWorkers DEF Init, CalledHaveHeard, NoDispatch
<1>2. NotifierInv /\ CalledHaveHeard /\ [Next]_vars => NotifierInv' /\ CalledHaveHeard'
  BY TypesStep, AnnouncedStep, ConcludedStep, CalledHaveHeardStep DEF NotifierInv
<1>3. NotifierInv /\ CalledHaveHeard /\ [Next]_vars =>
        [\A n \in Changes, s \in Sinks :
           /\ Pending(n) /\ s \in Listed /\ s \in Listed' => Pending(n)' \/ OnItsWay(n, s)'
           /\ OnItsWay(n, s) => OnItsWay(n, s)' \/ s \in post'[n]]_vars
  BY ItIsCalled, ItIsTakenUp
<1> QED BY NotifierInit, <1>1, <1>2, <1>3, PTL DEF Spec, ConclusionIsKept
=============================================================================
