--------------------------- MODULE ResidencyProofs ---------------------------
(* For any number of worker threads: the lease count is the number of calls *)
(* in progress and nothing is unloaded under one; the idle clock runs when  *)
(* it should; a leased TTS has its pipeline unless it was disabled; and     *)
(* with a timeout of 0 the model stays.                                     *)
EXTENDS Residency, FiniteSetTheorems, TLAPS

-----------------------------------------------------------------------------
(* Types and the model lock.                                               *)

LEMMA TypeStep ==
  ASSUME TypeOK, [Next]_vars
  PROVE  TypeOK'
<1> USE ResidencyAssumption DEF TypeOK, Goto, book, engine, locks, Threads, Callers
<1>1. CASE StartEager \/ StartLazy \/ Reload \/ TimePasses \/ Poll \/ Spare
            \/ UNCHANGED vars
  BY <1>1 DEF StartEager, StartLazy, Reload, TimePasses, Poll, Spare, vars, Places
<1>2. ASSUME NEW w \in Workers, Call(w) \/ Refuse(w)
      PROVE  TypeOK'
  BY <1>2 DEF Call, Refuse, vars, Places
<1>3. ASSUME NEW t \in Callers, Step(t)
      PROVE  TypeOK'
  <2>1. CASE Acquire(t) \/ LoadNothing(t)
    <3>1. leases' \in Nat
      BY <2>1 DEF Acquire, LoadNothing, Grant
    <3>2. /\ modelLock' \in Threads \cup {NULL}
          /\ loaded' \in BOOLEAN
          /\ idle' \in {"off", "fresh", "long"}
          /\ UNCHANGED <<idleUnload, engine, engineLock>>
          /\ pc' \in [Threads -> Places]
      BY <2>1 DEF Acquire, LoadNothing, Grant, Places
    <3>3. QED
      BY <3>1, <3>2
  <2>2. CASE Load(t) \/ LoadFails(t) \/ DisableTTS(t)
    BY <2>2 DEF Load, LoadFails, DisableTTS, Disable, Places
  <2>3. CASE EnterEngine(t) \/ Infer(t) \/ InferEnds(t) \/ Finally(t)
    BY <2>3 DEF EnterEngine, Infer, InferEnds, Finally, Places
  <2>4. CASE MarkUnloaded(t)
    BY <2>4 DEF MarkUnloaded, Places
  <2>5. CASE ReleaseLease(t)
    BY <2>5 DEF ReleaseLease, Places
  <2>6. CASE WarmUp(t)
    <3>1. UNCHANGED engine \/ Disable
      BY <2>6 DEF WarmUp
    <3>2. resident' \in BOOLEAN /\ disabled' \in BOOLEAN /\ UNCHANGED kind
      BY <3>1 DEF Disable
    <3>3. /\ loaded' \in BOOLEAN
          /\ idle' \in {"off", "fresh", "long"}
          /\ modelLock' \in Threads \cup {NULL}
          /\ UNCHANGED <<idleUnload, engineLock>>
          /\ pc' \in [Threads -> Places]
      BY <2>6 DEF WarmUp, Grant, Places
    <3>4. leases' \in Nat
      BY <2>6 DEF WarmUp, Grant
    <3>5. QED
      BY <3>2, <3>3, <3>4
  <2>7. CASE AcquireCold(t)
    BY <2>7 DEF AcquireCold, Places
  <2>8. QED
    BY <1>3, <2>1, <2>2, <2>3, <2>4, <2>5, <2>6, <2>7 DEF Step
<1>4. ASSUME NEW k \in Unloaders, Unload(k) \/ UnloadEnds(k)
      PROVE  TypeOK'
  BY <1>4 DEF Unload, MayUnload, UnloadEnds, Unloaded, UnloadFails, Places
<1>5. QED
  BY <1>1, <1>2, <1>3, <1>4 DEF Next

LEMMA TypeInit == Init => TypeOK
<1> SUFFICES ASSUME Init
             PROVE  TypeOK
  OBVIOUS
<1>1. pc \in [Threads -> Places]
  BY DEF Init, Places
<1>2. QED
  BY <1>1 DEF Init, TypeOK

\* Every reachable state is well typed.
THEOREM TypeCorrect == Spec => []TypeOK
BY TypeInit, TypeStep, PTL DEF Spec

\* The main thread makes no calls, and only it goes through startup.
Roles ==
  /\ pc[Main] \notin {"engine", "infer", "oom", "after"}
  /\ \A w \in Workers : pc[w] # "disabling"

LEMMA RolesStep ==
  ASSUME TypeOK, Roles, [Next]_vars
  PROVE  Roles'
<1> USE ResidencyAssumption DEF TypeOK, Roles, Goto, Threads, Callers
<1>1. CASE StartEager \/ StartLazy \/ Reload \/ TimePasses \/ Poll \/ Spare
            \/ UNCHANGED vars
  BY <1>1 DEF StartEager, StartLazy, Reload, TimePasses, Poll, Spare, vars
<1>2. ASSUME NEW w \in Workers, Call(w) \/ Refuse(w)
      PROVE  Roles'
  BY <1>2 DEF Call, Refuse, vars
<1>3. ASSUME NEW t \in Callers, Step(t)
      PROVE  Roles'
  <2>1. CASE Acquire(t) \/ AcquireCold(t) \/ LoadNothing(t) \/ WarmUp(t) \/ Load(t)
    BY <2>1 DEF Acquire, AcquireCold, LoadNothing, WarmUp, Load
  <2>2. CASE LoadFails(t) \/ DisableTTS(t)
    BY <2>2 DEF LoadFails, DisableTTS
  <2>3. CASE EnterEngine(t) \/ Infer(t) \/ InferEnds(t) \/ Finally(t)
    BY <2>3 DEF EnterEngine, Infer, InferEnds, Finally
  <2>4. CASE MarkUnloaded(t) \/ ReleaseLease(t)
    BY <2>4 DEF MarkUnloaded, ReleaseLease
  <2>5. QED
    BY <1>3, <2>1, <2>2, <2>3, <2>4 DEF Step
<1>4. ASSUME NEW k \in Unloaders, Unload(k) \/ UnloadEnds(k)
      PROVE  Roles'
  BY <1>4 DEF Unload, MayUnload, UnloadEnds, Unloaded, UnloadFails
<1>5. QED
  BY <1>1, <1>2, <1>3, <1>4 DEF Next

\* Who loads or unloads holds the model lock; what loads is not loaded yet,
\* and what is being unloaded was unleased, its clock running, when that was
\* decided.
Locked ==
  /\ \A t \in Threads : pc[t] \in {"loading", "warmup", "unloading"} => modelLock = t
  /\ \A t \in Threads : pc[t] \in {"loading", "warmup"} => ~loaded
  /\ \A t \in Threads : pc[t] = "unloading" => leases = 0 /\ idle # "off"
  /\ IdleClockRuns

LEMMA LockedStep ==
  ASSUME TypeOK, Locked, [Next]_vars
  PROVE  Locked'
<1> USE ResidencyAssumption DEF TypeOK, Locked, IdleClockRuns, Goto, book, engine, locks
<1>1. CASE StartEager \/ StartLazy \/ Reload \/ TimePasses \/ Poll \/ Spare
            \/ UNCHANGED vars
  BY <1>1 DEF StartEager, StartLazy, Reload, TimePasses, Poll, Spare, vars
<1>2. ASSUME NEW w \in Workers, Call(w) \/ Refuse(w)
      PROVE  Locked'
  BY <1>2 DEF Call, Refuse, vars
<1>3. ASSUME NEW t \in Callers, Step(t)
      PROVE  Locked'
  <2> t \in Threads /\ t # NULL
    BY DEF Threads
  <2>1. CASE Acquire(t) \/ AcquireCold(t)
    BY <2>1 DEF Acquire, AcquireCold, Grant, Threads
  <2>2. CASE LoadNothing(t) \/ WarmUp(t)
    BY <2>2 DEF LoadNothing, WarmUp, Grant
  <2>3. CASE Load(t) \/ LoadFails(t) \/ DisableTTS(t)
    BY <2>3 DEF Load, LoadFails, DisableTTS
  <2>4. CASE EnterEngine(t) \/ Infer(t) \/ InferEnds(t) \/ Finally(t)
    BY <2>4 DEF EnterEngine, Infer, InferEnds, Finally
  <2>5. CASE MarkUnloaded(t)
    BY <2>5 DEF MarkUnloaded, Threads
  <2>6. CASE ReleaseLease(t)
    BY <2>6 DEF ReleaseLease, Threads
  <2>7. QED
    BY <1>3, <2>1, <2>2, <2>3, <2>4, <2>5, <2>6 DEF Step
<1>4. ASSUME NEW k \in Unloaders, Unload(k) \/ UnloadEnds(k)
      PROVE  Locked'
  BY <1>4 DEF Unload, MayUnload, UnloadEnds, Unloaded, UnloadFails, Threads
<1>5. QED
  BY <1>1, <1>2, <1>3, <1>4 DEF Next

-----------------------------------------------------------------------------
(* The lease count.                                                        *)

Counted == IsFiniteSet(Holders) /\ leases = Cardinality(Holders)

\* A step grants a lease, returns one, or leaves them all.
LeaseChange ==
  \/ UNCHANGED <<leases, Holders>>
  \/ \E t \in Callers \ Holders :
       leases' = leases + 1 /\ Holders' = Holders \cup {t}
  \/ \E t \in Holders :
       leases' = (IF leases = 0 THEN 0 ELSE leases - 1) /\ Holders' = Holders \ {t}

LEMMA StepChangesLeases ==
  ASSUME TypeOK, Roles, [Next]_vars
  PROVE  LeaseChange
<1> USE ResidencyAssumption DEF TypeOK, Goto, book, engine, locks, Threads
<1>1. ASSUME UNCHANGED leases, NEW t \in Threads, NEW there, Goto(t, there),
             t \in Callers => (Holding(t)' <=> Holding(t))
      PROVE  LeaseChange
  <2>1. \A x \in Callers : Holding(x)' <=> Holding(x)
    BY <1>1 DEF Holding
  <2>2. QED
    BY <1>1, <2>1 DEF LeaseChange, Holders
<1>2. ASSUME UNCHANGED <<leases, pc>>
      PROVE  LeaseChange
  BY <1>2 DEF LeaseChange, Holders, Holding
<1>3. CASE StartEager \/ StartLazy
  <2>1. Main \in Threads /\ ~Holding(Main) /\ ~Holding(Main)' /\ UNCHANGED leases
    BY <1>3 DEF StartEager, StartLazy, Holding, Callers
  <2>2. Goto(Main, "acquire") \/ Goto(Main, "done")
    BY <1>3 DEF StartEager, StartLazy
  <2>3. QED
    BY <1>1, <2>1, <2>2
<1>4. CASE Reload \/ TimePasses \/ Poll \/ Spare \/ UNCHANGED vars
  <2>1. CASE Reload \/ TimePasses \/ UNCHANGED vars
    BY <1>2, <2>1 DEF Reload, TimePasses, vars
  <2>2. CASE Poll \/ Spare
    <3>1. Janitor \in Threads \ Callers /\ UNCHANGED leases
      BY <2>2 DEF Poll, Spare, Unloaders, Callers
    <3>2. Goto(Janitor, "poll") \/ Goto(Janitor, "idle")
      BY <2>2 DEF Poll, Spare
    <3>3. QED
      BY <1>1, <3>1, <3>2
  <2>3. QED
    BY <1>4, <2>1, <2>2
<1>5. ASSUME NEW w \in Workers, Call(w) \/ Refuse(w)
      PROVE  LeaseChange
  <2>1. CASE Call(w)
    <3>1. w \in Threads /\ ~Holding(w) /\ ~Holding(w)' /\ UNCHANGED leases
      BY <2>1 DEF Call, Holding, Callers
    <3>2. QED
      BY <1>1, <2>1, <3>1 DEF Call
  <2>2. CASE Refuse(w)
    BY <1>2, <2>2 DEF Refuse, vars
  <2>3. QED
    BY <1>5, <2>1, <2>2
<1>6. ASSUME NEW t \in Callers, Step(t)
      PROVE  LeaseChange
  <2> t \in Threads
    OBVIOUS
  <2>1. CASE Acquire(t) \/ LoadNothing(t) \/ WarmUp(t)
    <3>1. ~Holding(t) /\ Goto(t, "leased") /\ leases' = leases + 1
      BY <2>1 DEF Acquire, LoadNothing, WarmUp, Grant, Holding
    <3>2. Holding(t)' /\ \A x \in Callers : x # t => (Holding(x)' <=> Holding(x))
      BY <3>1 DEF Holding
    <3>3. Holders' = Holders \cup {t}
      BY <3>2 DEF Holders
    <3>4. QED
      BY <3>1, <3>3 DEF LeaseChange, Holders
  <2>2. CASE AcquireCold(t) \/ Load(t) \/ LoadFails(t)
    <3>1. UNCHANGED leases /\ ~Holding(t) /\ ~Holding(t)' /\ \E there : Goto(t, there)
      BY <2>2 DEF AcquireCold, Load, LoadFails, Holding
    <3>2. QED
      BY <1>1, <3>1
  <2>3. CASE EnterEngine(t) \/ Infer(t) \/ InferEnds(t) \/ Finally(t)
    <3>1. UNCHANGED leases /\ Holding(t) /\ \E there : Goto(t, there)
      BY <2>3 DEF EnterEngine, Infer, InferEnds, Finally, Holding
    <3>2. pc'[t] \in {"release", "after", "engine", "infer", "oom"}
            \/ (pc[t] = "after" /\ pc'[t] = "mark")
      BY <2>3 DEF EnterEngine, Infer, InferEnds, Finally
    <3>3. Holding(t)'
      BY <2>3, <3>2 DEF Holding, Roles, Finally
    <3>4. QED
      BY <1>1, <3>1, <3>3
  <2>4. CASE DisableTTS(t)
    <3>1. UNCHANGED leases /\ \E there : Goto(t, there)
      BY <2>4 DEF DisableTTS
    <3>2. Holding(t)' <=> Holding(t)
      BY <2>4 DEF DisableTTS, Holding, Roles, Callers
    <3>3. QED
      BY <1>1, <3>1, <3>2
  <2>5. CASE MarkUnloaded(t)
    BY <1>1, <2>5 DEF MarkUnloaded, Holding
  <2>6. CASE ReleaseLease(t)
    <3>1. Holding(t) /\ leases' = IF leases = 0 THEN 0 ELSE leases - 1
      BY <2>6 DEF ReleaseLease, Holding
    <3>2. Goto(t, "done") \/ Goto(t, "idle")
      BY <2>6 DEF ReleaseLease
    <3>3. ~Holding(t)' /\ \A x \in Callers : x # t => (Holding(x)' <=> Holding(x))
      BY <3>2 DEF Holding
    <3>4. Holders' = Holders \ {t}
      BY <3>3 DEF Holders
    <3>5. QED
      BY <3>1, <3>4 DEF LeaseChange, Holders
  <2>7. QED
    BY <1>6, <2>1, <2>2, <2>3, <2>4, <2>5, <2>6 DEF Step
<1>7. ASSUME NEW k \in Unloaders, Unload(k) \/ UnloadEnds(k)
      PROVE  LeaseChange
  <2>1. k \in Threads /\ k \notin Callers /\ UNCHANGED leases /\ \E there : Goto(k, there)
    BY <1>7 DEF Unload, MayUnload, UnloadEnds, Unloaded, UnloadFails, Callers
  <2>2. QED
    BY <1>1, <2>1
<1>8. QED
  BY <1>3, <1>4, <1>5, <1>6, <1>7 DEF Next

LEMMA CountedStep ==
  ASSUME TypeOK, Counted, LeaseChange
  PROVE  Counted'
<1>1. CASE UNCHANGED <<leases, Holders>>
  BY <1>1 DEF Counted
<1>2. ASSUME NEW t \in Callers \ Holders, leases' = leases + 1, Holders' = Holders \cup {t}
      PROVE  Counted'
  BY <1>2, FS_AddElement DEF Counted
<1>3. ASSUME NEW t \in Holders, leases' = (IF leases = 0 THEN 0 ELSE leases - 1),
             Holders' = Holders \ {t}
      PROVE  Counted'
  <2>1. leases # 0
    BY FS_EmptySet DEF Counted
  <2>2. QED
    BY <1>3, <2>1, FS_RemoveElement DEF Counted
<1>4. QED
  BY <1>1, <1>2, <1>3 DEF LeaseChange

Leased == TypeOK /\ Roles /\ Locked /\ Counted

LEMMA LeasedInvariant == Spec => []Leased
<1>1. Init => Leased
  <2>1. Init => Holders = {}
    BY ResidencyAssumption DEF Init, Holders, Holding, Callers, Threads
  <2>2. Init => Roles /\ Locked
    BY ResidencyAssumption DEF Init, Roles, Locked, IdleClockRuns, Threads, Callers
  <2>3. Init => leases = 0
    BY DEF Init
  <2>4. QED
    BY <2>1, <2>2, <2>3, TypeInit, FS_EmptySet DEF Leased, Counted
<1>2. Leased /\ [Next]_vars => Leased'
  BY TypeStep, RolesStep, LockedStep, StepChangesLeases, CountedStep DEF Leased
<1>3. QED
  BY <1>1, <1>2, PTL DEF Spec

\* No model is unloaded under a call, whatever the calls that failed did to
\* the count.
THEOREM NeverUnloadedInUse == Spec => []UnloadSparesLeases
<1>1. Leased => UnloadSparesLeases
  <2>1. ASSUME Leased, NEW k \in Unloaders, pc[k] = "unloading"
        PROVE  Holders = {}
    <3>1. leases = 0
      BY <2>1 DEF Leased, Locked, Threads
    <3>2. QED
      BY <2>1, <3>1, FS_EmptySet DEF Leased, Counted
  <2>2. QED
    BY <2>1 DEF UnloadSparesLeases, Leased, Counted
<1>2. QED
  BY <1>1, LeasedInvariant, PTL

\* The janitor neither forgets a loaded model nor counts time it was in use.
THEOREM IdleClock == Spec => []IdleClockRuns
<1>1. Leased => IdleClockRuns
  BY DEF Leased, Locked
<1>2. QED
  BY <1>1, LeasedInvariant, PTL

-----------------------------------------------------------------------------
(* A leased TTS has its pipeline.                                          *)

\* Bookkeeping and engine agree until Kokoro is disabled; only a disabled one
\* is marked unloaded.
Agree ==
  /\ loaded /\ ~disabled /\ (\A k \in Unloaders : pc[k] # "unloading") => resident
  /\ Holders # {} => loaded \/ disabled
  /\ \A t \in Callers : pc[t] = "warmup" => resident \/ disabled
  /\ \A t \in Callers : pc[t] = "mark" => disabled

LEMMA SameEngine == [Next]_vars => UNCHANGED kind
<1> USE DEF engine
<1>1. ASSUME NEW t \in Callers, Step(t)
      PROVE  UNCHANGED kind
  BY <1>1 DEF Step, Acquire, AcquireCold, LoadNothing, Load, LoadFails, WarmUp,
              EnterEngine, Infer, InferEnds, DisableTTS, Finally, MarkUnloaded,
              ReleaseLease, Disable
<1>2. ASSUME NEW k \in Unloaders, Unload(k) \/ UnloadEnds(k)
      PROVE  UNCHANGED kind
  BY <1>2 DEF Unload, MayUnload, UnloadEnds, Unloaded, UnloadFails
<1>3. QED
  BY <1>1, <1>2 DEF Next, StartEager, StartLazy, Call, Refuse, Reload, TimePasses, Poll,
                      Spare, vars

LEMMA AgreeStep ==
  ASSUME kind = "TTS", Leased, Agree, [Next]_vars
  PROVE  Agree'
<1> USE ResidencyAssumption DEF Agree, Goto, book, engine, locks
<1>1. LeaseChange
  BY StepChangesLeases DEF Leased
<1>2. pc \in [Threads -> Places] /\ Roles
  BY DEF Leased, TypeOK
<1>3. CASE StartEager \/ StartLazy \/ Reload \/ TimePasses \/ Poll \/ Spare
            \/ UNCHANGED vars
  <2>1. Holders' = Holders
    BY <1>2, <1>3 DEF StartEager, StartLazy, Reload, TimePasses, Poll, Spare, vars, Holders, Holding, Threads,
                      Callers
  <2>2. UNCHANGED <<loaded, engine>>
    BY <1>3 DEF StartEager, StartLazy, Reload, TimePasses, Poll, Spare, vars
  <2>3. \A t \in Threads : pc'[t] \in {"unloading", "warmup", "mark"} => pc'[t] = pc[t]
    BY <1>2, <1>3 DEF StartEager, StartLazy, Reload, TimePasses, Poll, Spare, vars
  <2>4. \A k \in Unloaders : pc'[k] = "unloading" <=> pc[k] = "unloading"
    BY <1>2, <1>3 DEF StartEager, StartLazy, Reload, TimePasses, Poll, Spare, vars, Threads
  <2>5. QED
    BY <2>1, <2>2, <2>3, <2>4 DEF Threads
<1>4. ASSUME NEW t \in Callers
      PROVE  t \in Threads /\ t \notin Unloaders /\ \A k \in Unloaders : k \in Threads /\ k # t
  BY DEF Threads, Callers
<1>5. ASSUME NEW w \in Workers, Call(w) \/ Refuse(w)
      PROVE  Agree'
  <2> w \in Callers
    BY DEF Callers
  <2>1. Holders' = Holders
    BY <1>2, <1>4, <1>5 DEF Call, Refuse, vars, Holders, Holding
  <2>2. UNCHANGED <<loaded, engine>>
    BY <1>5 DEF Call, Refuse, vars
  <2>3. QED
    BY <1>2, <1>4, <1>5, <2>1, <2>2 DEF Call, Refuse, vars
<1>6. ASSUME NEW t \in Callers, Step(t)
      PROVE  Agree'
  <2> USE <1>2, <1>4
  <2>1. CASE Acquire(t) \/ LoadNothing(t)
    BY <2>1 DEF Acquire, LoadNothing, Grant
  <2>2. CASE WarmUp(t)
    BY <2>2 DEF WarmUp, Grant, Disable
  <2>3. CASE AcquireCold(t) \/ Load(t) \/ LoadFails(t)
    <3>1. Holders' = Holders
      BY <2>3 DEF AcquireCold, Load, LoadFails, Holders, Holding
    <3>2. QED
      BY <2>3, <3>1 DEF AcquireCold, Load, LoadFails
  <2>4. CASE EnterEngine(t) \/ Infer(t) \/ InferEnds(t) \/ Finally(t)
    <3>1. UNCHANGED <<loaded, engine>> /\ Holding(t)
      BY <2>4 DEF EnterEngine, Infer, InferEnds, Finally, Holding
    <3>2. Holders # {}
      BY <3>1 DEF Holders
    <3>3. QED
      BY <2>4, <3>1, <3>2 DEF EnterEngine, Infer, InferEnds, Finally
  <2>5. CASE DisableTTS(t)
    BY <2>5 DEF DisableTTS, Disable
  <2>6. CASE MarkUnloaded(t)
    BY <2>6 DEF MarkUnloaded
  <2>7. CASE ReleaseLease(t)
    <3>1. Holders # {} /\ UNCHANGED <<loaded, engine>>
      BY <2>7 DEF ReleaseLease, Holders, Holding
    <3>2. QED
      BY <2>7, <3>1 DEF ReleaseLease
  <2>8. QED
    BY <1>6, <2>1, <2>2, <2>3, <2>4, <2>5, <2>6, <2>7 DEF Step
<1>7. ASSUME NEW k \in Unloaders, Unload(k) \/ UnloadEnds(k)
      PROVE  Agree'
  <2>1. Holders' = Holders
    BY <1>2, <1>4, <1>7
    DEF Unload, MayUnload, UnloadEnds, Unloaded, UnloadFails, Holders, Holding
  <2>2. k \in Threads
    BY DEF Threads
  <2>3. CASE Unload(k)
    <3>1. Holders = {}
      BY <2>3, FS_EmptySet DEF Unload, MayUnload, Leased, Counted
    <3>2. \A t \in Callers : pc[t] # "warmup"
      BY <1>4, <2>3 DEF Unload, Leased, Locked
    <3>3. QED
      BY <1>2, <1>4, <2>1, <2>2, <2>3, <3>1, <3>2 DEF Unload
  <2>4. CASE Unloaded(k)
    <3>1. Holders = {}
      BY <2>2, <2>4, FS_EmptySet DEF Unloaded, Leased, Counted, Locked
    <3>2. QED
      BY <1>2, <1>4, <2>1, <2>4, <3>1 DEF Unloaded
  <2>5. QED
    BY <1>7, <2>3, <2>4 DEF UnloadEnds, UnloadFails
<1>8. QED
  <2> HIDE DEF Agree
  <2>1. QED
    BY <1>3, <1>5, <1>6, <1>7 DEF Next

\* A synthesize() call that holds its lease has the pipeline it leased, unless
\* an out-of-memory error has disabled speech meanwhile.
THEOREM LeasedTTSHasModel == Spec => []CallHasModel
<1> DEFINE TTSAgrees == kind = "TTS" => Agree
<1>1. Init => TTSAgrees
  BY ResidencyAssumption DEF Init, Agree, Holders, Holding, Callers, Threads
<1>2. Leased /\ TTSAgrees /\ [Next]_vars => TTSAgrees'
  <2>1. [Next]_vars => UNCHANGED kind
    BY SameEngine
  <2>2. QED
    BY <2>1, AgreeStep
<1>3. Leased /\ TTSAgrees => CallHasModel
  <2>1. ASSUME Leased, Agree, NEW w \in Holders
        PROVE  resident \/ disabled
    <3>1. \A k \in Unloaders : pc[k] # "unloading"
      BY <2>1, FS_EmptySet DEF Leased, Locked, Counted, Threads
    <3>2. QED
      BY <2>1, <3>1 DEF Agree
  <2>2. QED
    BY <2>1 DEF CallHasModel
<1>4. QED
  BY <1>1, <1>2, <1>3, LeasedInvariant, PTL DEF Spec

-----------------------------------------------------------------------------
(* With a timeout of 0 models stay.                                        *)

\* While the setting is 0 and nobody runs /models, the janitor decides on
\* nothing, and the preload leaves a model or a disabled engine.
Resident ==
  /\ pc[Janitor] = "idle"
  /\ pc[Main] \in {"start", "acquire"} => ~loaded
  /\ pc[Main] \in {"warmup", "leased", "release", "done"} => resident \/ disabled
  /\ \A t \in Callers : pc[t] = "mark" => disabled
  /\ pc[Main] # "done" => \A w \in Workers : pc[w] = "idle"

AtZero == ~idleUnload /\ pc[Command] = "idle"

LEMMA ResidentStep ==
  ASSUME TypeOK, Roles, Resident, AtZero, AtZero', [Next]_vars
  PROVE  Resident'
<1> USE ResidencyAssumption DEF TypeOK, Roles, Resident, AtZero, Goto, book, engine, locks,
                                Threads, Callers, Unloaders
<1>1. CASE StartEager \/ StartLazy \/ Reload \/ TimePasses \/ Poll \/ Spare
            \/ UNCHANGED vars
  BY <1>1 DEF StartEager, StartLazy, Reload, TimePasses, Poll, Spare, vars
<1>2. ASSUME NEW w \in Workers, Call(w) \/ Refuse(w)
      PROVE  Resident'
  BY <1>2 DEF Call, Refuse, Started, vars
<1>3. ASSUME NEW t \in Callers, Step(t)
      PROVE  Resident'
  <2>1. CASE Acquire(t) \/ AcquireCold(t)
    BY <2>1 DEF Acquire, AcquireCold
  <2>2. CASE LoadNothing(t) \/ Load(t)
    BY <2>2 DEF LoadNothing, Load
  <2>3. CASE LoadFails(t)
    BY <2>3 DEF LoadFails
  <2>4. CASE WarmUp(t)
    BY <2>4 DEF WarmUp, Disable
  <2>5. CASE DisableTTS(t)
    BY <2>5 DEF DisableTTS, Disable
  <2>6. CASE EnterEngine(t) \/ Infer(t) \/ InferEnds(t) \/ Finally(t)
    <3>1. CASE EnterEngine(t)
      BY <3>1 DEF EnterEngine
    <3>2. CASE Infer(t) \/ InferEnds(t)
      BY <3>2 DEF Infer, InferEnds
    <3>3. CASE Finally(t)
      BY <3>3 DEF Finally
    <3>4. QED
      BY <2>6, <3>1, <3>2, <3>3
  <2>7. CASE MarkUnloaded(t) \/ ReleaseLease(t)
    BY <2>7 DEF MarkUnloaded, ReleaseLease
  <2>8. QED
    BY <1>3, <2>1, <2>2, <2>3, <2>4, <2>5, <2>6, <2>7 DEF Step
<1>4. ASSUME NEW k \in Unloaders, Unload(k) \/ UnloadEnds(k)
      PROVE  Resident'
  BY <1>4 DEF Unload, UnloadEnds, Unloaded, UnloadFails
<1>5. QED
  BY <1>1, <1>2, <1>3, <1>4 DEF Next

\* A bot whose timeout stays 0 has its model at every call, from the end of
\* its startup on, unless somebody runs /models or speech runs out of memory.
THEOREM ZeroKeepsResident == Spec => KeptResident
<1>1. Init => Resident
  BY ResidencyAssumption DEF Init, Resident, Threads, Callers, Unloaders
<1>2. Leased /\ Resident /\ AtZero /\ AtZero' /\ [Next]_vars => Resident'
  BY ResidentStep DEF Leased
<1>3. Resident => (Started => resident \/ disabled)
  BY DEF Resident, Started
<1>4. QED
  BY <1>1, <1>2, <1>3, LeasedInvariant, PTL DEF Spec, KeptResident, AtZero
=============================================================================
