------------------------------ MODULE Residency ------------------------------
(***************************************************************************)
(* One managed model (residency.py) around its engine: the ASR engine      *)
(* (asr/nemo_unified.py) or Kokoro (tts/kokoro_engine.py), which an        *)
(* out-of-memory error disables for good.                                  *)
(*                                                                         *)
(* Every call runs on a worker thread, so a step is what a thread does     *)
(* between two points where another thread can come in between: taking a   *)
(* lock, loading, inference, freeing memory.                               *)
(*                                                                         *)
(*   idle       no call           |  engine     waiting for the engine lock *)
(*   acquire    before _acquire   |  infer      in the model, lock held     *)
(*   loading    in engine.load()  |  oom        caught an OOM, lock let go  *)
(*   warmup     in its _warmup()  |  after      in the finally clause       *)
(*   leased     past _acquire     |  mark       before mark_unloaded        *)
(*   disabling  in disable()      |  release    before _release             *)
(*   unloading  in engine.unload()                                          *)
(*   poll       the janitor's thread in maybe_unload, before the lock       *)
(*   start, done, exited          the main thread around its preload        *)
(***************************************************************************)
EXTENDS Naturals, FiniteSets

CONSTANTS Workers,  \* threads that call transcribe() or synthesize()
          Main,     \* the thread that may load at startup
          Janitor,  \* run_janitor and the thread it unloads on
          Command,  \* the thread `/models unload:true` unloads on
          NULL      \* a lock nobody holds

Unloaders == {Janitor, Command}
Callers == Workers \cup {Main}
Threads == Callers \cup Unloaders

ASSUME ResidencyAssumption ==
  /\ IsFiniteSet(Workers)
  /\ Main \notin Workers \cup Unloaders
  /\ Workers \cap Unloaders = {}
  /\ NULL \notin Threads

VARIABLES
  idleUnload,  \* is MODEL_IDLE_UNLOAD_MINUTES positive; 0 keeps the model resident
  loaded,      \* ManagedModel._loaded
  leases,      \* ManagedModel._leases
  idle,        \* _idle_since: "off" for None, else whether those minutes are over
  modelLock,   \* thread holding ManagedModel._lock across steps
  kind,        \* which engine is managed, "ASR" or "TTS"; never changes
  resident,    \* is the engine's model (or pipeline) there
  disabled,    \* has Kokoro a _disabled_reason
  engineLock,  \* thread holding the engine's _lock
  pc

book == <<loaded, leases, idle>>
engine == <<kind, resident, disabled>>
locks == <<modelLock, engineLock>>
vars == <<idleUnload, book, engine, locks, pc>>

Places == {"idle", "acquire", "loading", "warmup", "leased", "engine", "infer", "oom",
           "after", "mark", "release", "poll", "unloading", "disabling", "start", "done",
           "exited"}

Init ==
  /\ idleUnload \in BOOLEAN
  /\ loaded = FALSE
  /\ leases = 0
  /\ idle = "off"
  /\ modelLock = NULL
  /\ kind \in {"ASR", "TTS"}
  /\ resident = FALSE
  /\ disabled = FALSE
  /\ engineLock = NULL
  /\ pc = [t \in Threads |-> IF t = Main THEN "start" ELSE "idle"]

Goto(t, there) == pc' = [pc EXCEPT ![t] = there]
Started == pc[Main] = "done"

-----------------------------------------------------------------------------
(* Startup and calls.                                                      *)

\* The models are loaded eagerly, unless idle ones will be unloaded: then a
\* call loads them.
StartEager ==
  /\ pc[Main] = "start"
  /\ ~idleUnload
  /\ Goto(Main, "acquire")
  /\ UNCHANGED <<idleUnload, book, engine, locks>>

StartLazy ==
  /\ pc[Main] = "start"
  /\ idleUnload
  /\ Goto(Main, "done")
  /\ UNCHANGED <<idleUnload, book, engine, locks>>

\* /reload: the janitor reads the setting anew at each poll.
Reload ==
  /\ Started
  /\ idleUnload' \in BOOLEAN
  /\ UNCHANGED <<book, engine, locks, pc>>

\* synthesize() of a disabled TTS raises at once.
Refuse(w) ==
  /\ Started
  /\ pc[w] = "idle"
  /\ disabled
  /\ UNCHANGED vars

Call(w) ==
  /\ Started
  /\ pc[w] = "idle"
  /\ ~disabled
  /\ Goto(w, "acquire")
  /\ UNCHANGED <<idleUnload, book, engine, locks>>

Grant ==
  /\ loaded' = TRUE
  /\ leases' = leases + 1
  /\ idle' = "off"

\* _acquire of a model that is loaded.
Acquire(t) ==
  /\ pc[t] = "acquire"
  /\ modelLock = NULL
  /\ loaded
  /\ Grant
  /\ Goto(t, "leased")
  /\ UNCHANGED <<idleUnload, engine, locks>>

\* _acquire of one that is not keeps the lock while it loads.
AcquireCold(t) ==
  /\ pc[t] = "acquire"
  /\ modelLock = NULL
  /\ ~loaded
  /\ modelLock' = t
  /\ Goto(t, "loading")
  /\ UNCHANGED <<idleUnload, book, engine, engineLock>>

\* engine.load() has nothing to do: it has its model, or is disabled.
LoadNothing(t) ==
  /\ pc[t] = "loading"
  /\ resident \/ disabled
  /\ Grant
  /\ modelLock' = NULL
  /\ Goto(t, "leased")
  /\ UNCHANGED <<idleUnload, engine, engineLock>>

Load(t) ==
  /\ pc[t] = "loading"
  /\ ~resident /\ ~disabled
  /\ resident' = TRUE
  /\ Goto(t, "warmup")
  /\ UNCHANGED <<idleUnload, book, kind, disabled, locks>>

\* Fault: a failed load returns the lease it never took.
LoadFailsReleasing(t) ==
  /\ pc[t] = "loading"
  /\ ~resident /\ ~disabled
  /\ modelLock' = NULL
  /\ leases' = leases - 1
  /\ Goto(t, IF t = Main THEN "done" ELSE "idle")
  /\ UNCHANGED <<idleUnload, loaded, idle, engine, engineLock>>

\* Fault: a failed load keeps the model lock.
LoadFailsLocked(t) ==
  /\ pc[t] = "loading"
  /\ ~resident /\ ~disabled
  /\ Goto(t, IF t = Main THEN "done" ELSE "idle")
  /\ UNCHANGED <<idleUnload, book, engine, locks>>

\* engine.load() raises before it has a model.  A failed ASR preload ends the
\* program; a failed TTS preload disables speech.
LoadFails(t) ==
  /\ pc[t] = "loading"
  /\ ~resident /\ ~disabled
  /\ modelLock' = NULL
  /\ Goto(t, IF t # Main THEN "idle" ELSE IF kind = "ASR" THEN "exited" ELSE "disabling")
  /\ UNCHANGED <<idleUnload, book, engine, engineLock>>

Disable ==
  /\ disabled' = TRUE
  /\ resident' = FALSE
  /\ UNCHANGED kind

\* Warmup swallows whatever it raises, also the OOM that disabled Kokoro.
WarmUp(t) ==
  /\ pc[t] = "warmup"
  /\ engineLock = NULL
  /\ \/ UNCHANGED engine
     \/ kind = "TTS" /\ Disable
  /\ Grant
  /\ modelLock' = NULL
  /\ Goto(t, "leased")
  /\ UNCHANGED <<idleUnload, engineLock>>

\* The call in the lease: refused without a model, else queued on the engine.
\* A preload has no call to make.
EnterEngine(t) ==
  /\ pc[t] = "leased"
  /\ \/ t = Main /\ Goto(t, "release")
     \/ t # Main /\ (disabled \/ ~resident) /\ Goto(t, "after")
     \/ t # Main /\ ~disabled /\ resident /\ Goto(t, "engine")
  /\ UNCHANGED <<idleUnload, book, engine, locks>>

\* Another thread's OOM may have taken the pipeline while this one waited.
Infer(w) ==
  /\ pc[w] = "engine"
  /\ engineLock = NULL
  /\ \/ resident /\ engineLock' = w /\ Goto(w, "infer")
     \/ ~resident /\ UNCHANGED engineLock /\ Goto(w, "after")
  /\ UNCHANGED <<idleUnload, book, engine, modelLock>>

\* Inference returns or raises; an OOM is handled after the lock is let go.
InferEnds(w) ==
  /\ pc[w] = "infer"
  /\ engineLock' = NULL
  /\ \/ Goto(w, "after")
     \/ kind = "TTS" /\ Goto(w, "oom")
  /\ UNCHANGED <<idleUnload, book, engine, modelLock>>

\* disable(): of Kokoro by its own OOM, or by main after a failed preload.
DisableTTS(t) ==
  /\ pc[t] \in {"oom", "disabling"}
  /\ Disable
  /\ Goto(t, IF t = Main THEN "mark" ELSE "after")
  /\ UNCHANGED <<idleUnload, book, locks>>

\* synthesize() resyncs the bookkeeping of a disabled engine.
Finally(w) ==
  /\ pc[w] = "after"
  /\ Goto(w, IF disabled THEN "mark" ELSE "release")
  /\ UNCHANGED <<idleUnload, book, engine, locks>>

MarkUnloaded(t) ==
  /\ pc[t] = "mark"
  /\ modelLock = NULL
  /\ loaded' = FALSE
  /\ idle' = "off"
  /\ Goto(t, IF t = Main THEN "done" ELSE "release")
  /\ UNCHANGED <<idleUnload, leases, engine, locks>>

\* Fault: the last lease does not start the idle clock.
ReleaseWithoutClock(t) ==
  /\ pc[t] = "release"
  /\ modelLock = NULL
  /\ leases' = IF leases = 0 THEN 0 ELSE leases - 1
  /\ Goto(t, IF t = Main THEN "done" ELSE "idle")
  /\ UNCHANGED <<idleUnload, loaded, idle, engine, locks>>

ReleaseLease(t) ==
  /\ pc[t] = "release"
  /\ modelLock = NULL
  /\ leases' = IF leases = 0 THEN 0 ELSE leases - 1
  /\ idle' = IF leases' = 0 THEN "fresh" ELSE idle
  /\ Goto(t, IF t = Main THEN "done" ELSE "idle")
  /\ UNCHANGED <<idleUnload, loaded, engine, locks>>

-----------------------------------------------------------------------------
(* Unloading.                                                              *)

\* The clock of a model nobody uses passes the configured minutes.  With 0 of
\* them the clock runs too, and nobody asks it.
TimePasses ==
  /\ idle = "fresh"
  /\ idle' = "long"
  /\ UNCHANGED <<idleUnload, loaded, leases, engine, locks, pc>>

\* Fault: a poll takes zero for a time that is over at once.
PollAtZero ==
  /\ Started
  /\ pc[Janitor] = "idle"
  /\ Goto(Janitor, "poll")
  /\ UNCHANGED <<idleUnload, book, engine, locks>>

\* The janitor polls; what it read of the setting is not read again while its
\* thread waits for the model lock.
Poll ==
  /\ Started
  /\ pc[Janitor] = "idle"
  /\ idleUnload
  /\ Goto(Janitor, "poll")
  /\ UNCHANGED <<idleUnload, book, engine, locks>>

MayUnload == loaded /\ leases = 0

\* maybe_unload for the janitor, unload_now for the command; the lock is kept
\* while the engine frees its memory.
Unload(k) ==
  /\ \/ k = Janitor /\ pc[k] = "poll" /\ idle = "long"
     \/ k = Command /\ pc[k] = "idle" /\ Started
  /\ modelLock = NULL
  /\ MayUnload
  /\ modelLock' = k
  /\ resident' = FALSE
  /\ Goto(k, "unloading")
  /\ UNCHANGED <<idleUnload, book, kind, disabled, engineLock>>

\* The janitor finds the model unloaded, in use or not idle for long.
Spare ==
  /\ pc[Janitor] = "poll"
  /\ modelLock = NULL
  /\ idle # "long" \/ ~MayUnload
  /\ Goto(Janitor, "idle")
  /\ UNCHANGED <<idleUnload, book, engine, locks>>

\* Fault: the model goes and the bookkeeping does not hear of it.
UnloadedUnmarked(k) ==
  /\ pc[k] = "unloading"
  /\ modelLock' = NULL
  /\ Goto(k, "idle")
  /\ UNCHANGED <<idleUnload, book, engine, engineLock>>

Unloaded(k) ==
  /\ pc[k] = "unloading"
  /\ loaded' = FALSE
  /\ idle' = "off"
  /\ modelLock' = NULL
  /\ Goto(k, "idle")
  /\ UNCHANGED <<idleUnload, leases, engine, engineLock>>

\* The ASR engines let an error of empty_cache() through, Kokoro does not.
UnloadFails(k) ==
  /\ pc[k] = "unloading"
  /\ kind = "ASR"
  /\ modelLock' = NULL
  /\ Goto(k, "idle")
  /\ UNCHANGED <<idleUnload, book, engine, engineLock>>

-----------------------------------------------------------------------------
Step(t) ==
  \/ Acquire(t)
  \/ AcquireCold(t)
  \/ LoadNothing(t)
  \/ Load(t)
  \/ LoadFails(t)
  \/ WarmUp(t)
  \/ EnterEngine(t)
  \/ Infer(t)
  \/ InferEnds(t)
  \/ DisableTTS(t)
  \/ Finally(t)
  \/ MarkUnloaded(t)
  \/ ReleaseLease(t)

UnloadEnds(k) == Unloaded(k) \/ UnloadFails(k)

Next ==
  \/ StartEager
  \/ StartLazy
  \/ \E w \in Workers : Call(w) \/ Refuse(w)
  \/ \E t \in Callers : Step(t)
  \/ Reload
  \/ TimePasses
  \/ Poll
  \/ Spare
  \/ \E k \in Unloaders : Unload(k) \/ UnloadEnds(k)

Spec == Init /\ [][Next]_vars

\* Threads run, inference and unloading return, and the janitor polls for
\* ever.  Between two polls (30 s) and two /models commands the model lock is
\* free long enough for a thread that waits on it, hence SF.  Nobody has to
\* call, to run /models or to reload.
FairSpec ==
  /\ Spec
  /\ WF_vars(StartEager \/ StartLazy)
  /\ \A t \in Callers : SF_vars(Step(t))
  /\ WF_vars(TimePasses)
  /\ WF_vars(Poll)
  /\ WF_vars(Spare \/ Unload(Janitor))
  /\ \A k \in Unloaders : WF_vars(UnloadEnds(k))

-----------------------------------------------------------------------------
(* Properties.                                                             *)

TypeOK ==
  /\ idleUnload \in BOOLEAN
  /\ loaded \in BOOLEAN
  /\ leases \in Nat
  /\ idle \in {"off", "fresh", "long"}
  /\ modelLock \in Threads \cup {NULL}
  /\ kind \in {"ASR", "TTS"}
  /\ resident \in BOOLEAN
  /\ disabled \in BOOLEAN
  /\ engineLock \in Callers \cup {NULL}
  /\ pc \in [Threads -> Places]

Holding(t) == pc[t] \in {"leased", "engine", "infer", "oom", "after", "release"}
                \/ (pc[t] = "mark" /\ t # Main)
Holders == {t \in Callers : Holding(t)}

\* "A model is never unloaded mid-inference": the lease count is the number of
\* calls in progress whatever raised in them, and nothing frees the engine
\* while there is one.
UnloadSparesLeases ==
  /\ leases = Cardinality(Holders)
  /\ (\E k \in Unloaders : pc[k] = "unloading") => Holders = {}

\* A synthesize() call that holds a lease finds the pipeline, unless speech was
\* disabled meanwhile, by this call or another.
CallHasModel == kind = "TTS" => \A w \in Holders : resident \/ disabled

\* A loaded model that nobody uses has its idle clock running, and one in use
\* has not: the janitor neither forgets a model nor counts time it was used.
IdleClockRuns == loaded /\ modelLock = NULL => (idle # "off" <=> leases = 0)

Quiet == \A w \in Workers : pc[w] = "idle"

\* If calls stop coming, those in progress come to an end: no failure leaves
\* one of the two locks taken.
CallsDrain == <>[][\A w \in Workers : ~Call(w)]_vars => <>[]Quiet

\* When people stop talking and the bot is set to unload, the memory is freed,
\* whatever failed before and however often the setting was changed.
IdleModelIsFreed == <>[](Quiet /\ idleUnload) => <>[]~resident

\* MODEL_IDLE_UNLOAD_MINUTES=0 "keeps them resident" (.env.example:52): unless
\* somebody asks for the memory, every call finds the model there, from the
\* first on and however long it was idle.  Only speech that ran out of memory
\* is gone.
KeptResident ==
  [](~idleUnload /\ pc[Command] = "idle") => [](Started => resident \/ disabled)
=============================================================================
