----------------------------- MODULE VsomeipApp -----------------------------
(***************************************************************************)
(* class VsomeipApp (src/vsomeip_app.cpp): constructors that share the     *)
(* process environment, start() with its compare-and-swap, the event-loop  *)
(* thread, stop(), after which the object may be started again, and the    *)
(* destructor, which stops once more.                                      *)
(*                                                                         *)
(* vsomeip itself is external: init() reads VSOMEIP_CONFIGURATION,         *)
(* start() blocks until stop() was called (before or after) or throws.     *)
(* Whether a stop() that has been served also ends the next start() is     *)
(* vsomeip's business: either may be.                                      *)
(***************************************************************************)
EXTENDS FiniteSets

CONSTANTS
    Apps,          \* the VsomeipApp objects of the process
    Starters,      \* threads that may call start() on an app, once each between stops
    Configs,       \* paths to configuration files
    NoConfig,      \* config_path == nullptr; an environment without the variable
    Unreliable,    \* apps whose app_->start() may throw
    StartedOnce    \* apps started once between stops; the others also concurrently

ASSUME NoConfigAssumption == NoConfig \notin Configs
ASSUME AppsAssumption == Unreliable \subseteq Apps /\ StartedOnce \subseteq Apps
ASSUME FreeAssumption == "free" \notin Apps

VARIABLES
    env,         \* the process's VSOMEIP_CONFIGURATION
    initMutex,   \* vsomeip_init_mutex: the app whose constructor holds it, or free
    phase,       \* each app's constructor and destructor, step by step
    config,      \* config_path each app was constructed with
    loaded,      \* the configuration its init() read
    starter,     \* each starter in each app's start(), since the last stop():
                 \* "idle", "spawn", "done"
    running_,    \* the atomic flag
    thread_,     \* std::thread: "none" (not joinable), or where its body is
    stopped,     \* app_->stop() was called and vsomeip has not forgotten it
    terminated   \* std::terminate has been called

ctor == <<env, initMutex, phase, config, loaded>>
life == <<starter, running_, thread_, stopped, terminated>>
vars == <<ctor, life>>

Free == "free"

Init ==
    /\ env = NoConfig
    /\ initMutex = Free
    /\ phase = [a \in Apps |-> "new"]
    /\ config \in [Apps -> Configs \cup {NoConfig}]
    /\ loaded = [a \in Apps |-> NoConfig]
    /\ starter = [a \in Apps |-> [t \in Starters |-> "idle"]]
    /\ running_ = [a \in Apps |-> FALSE]
    /\ thread_ = [a \in Apps |-> "none"]
    /\ stopped = [a \in Apps |-> FALSE]
    /\ terminated = FALSE

GoPhase(a, p) == phase' = [phase EXCEPT ![a] = p]

-----------------------------------------------------------------------------
(* The constructor. *)

\* create_application returns nothing: the constructor throws.
CreateFails(a) ==
    /\ phase[a] = "new"
    /\ GoPhase(a, "gone")
    /\ UNCHANGED <<env, initMutex, config, loaded, life>>

\* Mutant: no lock around setenv and init().
LockNothing(a) ==
    /\ phase[a] = "new"
    /\ GoPhase(a, "setenv")
    /\ UNCHANGED <<env, initMutex, config, loaded, life>>

Lock(a) ==
    /\ phase[a] = "new"
    /\ initMutex = Free
    /\ initMutex' = a
    /\ GoPhase(a, "setenv")
    /\ UNCHANGED <<env, config, loaded, life>>

\* A null config_path leaves the environment as it is.
SetEnv(a) ==
    /\ phase[a] = "setenv"
    /\ env' = IF config[a] # NoConfig THEN config[a] ELSE env
    /\ GoPhase(a, "init")
    /\ UNCHANGED <<initMutex, config, loaded, life>>

\* init() succeeds, the lock is released, the handlers are registered.
InitApp(a) ==
    /\ phase[a] = "init"
    /\ loaded' = [loaded EXCEPT ![a] = env]
    /\ initMutex' = Free
    /\ GoPhase(a, "ready")
    /\ UNCHANGED <<env, config, life>>

\* Mutant: the exception leaves the lock taken.
InitFailsKeepsLock(a) ==
    /\ phase[a] = "init"
    /\ GoPhase(a, "gone")
    /\ UNCHANGED <<env, initMutex, config, loaded, life>>

\* init() fails: the constructor throws, releasing the lock on its way out.
InitFails(a) ==
    /\ phase[a] = "init"
    /\ initMutex' = Free
    /\ GoPhase(a, "gone")
    /\ UNCHANGED <<env, config, loaded, life>>

-----------------------------------------------------------------------------
(* start(), called by t: compare-and-swap running_, then spawn. *)

\* After a loop that ended by itself only stop() joins the thread, so a caller must
\* not repeat start() where vsomeip may throw or remember an earlier stop().
Repeatable(a) == a \notin StartedOnce /\ ~stopped[a]

\* Between the constructor and the destructor, before or after a stop().
MayStart(a, t) ==
    /\ phase[a] = "ready" /\ starter[a][t] = "idle"
    /\ Repeatable(a) \/ \A u \in Starters : starter[a][u] = "idle"

StartRepeated(a, t) ==
    /\ MayStart(a, t)
    /\ running_[a]
    /\ starter' = [starter EXCEPT ![a][t] = "done"]
    /\ UNCHANGED <<ctor, running_, thread_, stopped, terminated>>

\* Mutant: the flag is read here and set only after the thread is there.
StartLoadStore(a, t) ==
    /\ MayStart(a, t)
    /\ ~running_[a]
    /\ starter' = [starter EXCEPT ![a][t] = "spawn"]
    /\ UNCHANGED <<ctor, running_, thread_, stopped, terminated>>

StartWins(a, t) ==
    /\ MayStart(a, t)
    /\ ~running_[a]
    /\ running_' = [running_ EXCEPT ![a] = TRUE]
    /\ starter' = [starter EXCEPT ![a][t] = "spawn"]
    /\ UNCHANGED <<ctor, thread_, stopped, terminated>>

\* Assigning to a std::thread that is still joinable is std::terminate.
StartSpawn(a, t) ==
    /\ starter[a][t] = "spawn"
    /\ starter' = [starter EXCEPT ![a][t] = "done"]
    /\ IF thread_[a] = "none"
       THEN thread_' = [thread_ EXCEPT ![a] = "spawned"] /\ UNCHANGED terminated
       ELSE terminated' = TRUE /\ UNCHANGED thread_
    /\ UNCHANGED <<ctor, running_, stopped>>

\* The thread cannot be created: start() throws and running_ stays set.
StartSpawnFails(a, t) ==
    /\ starter[a][t] = "spawn"
    /\ starter' = [starter EXCEPT ![a][t] = "done"]
    /\ UNCHANGED <<ctor, running_, thread_, stopped, terminated>>

-----------------------------------------------------------------------------
(* The thread's body. *)

LoopBegins(a) ==
    /\ thread_[a] = "spawned"
    /\ thread_' = [thread_ EXCEPT ![a] = "loop"]
    /\ UNCHANGED <<ctor, starter, running_, stopped, terminated>>

\* app_->start() returns because of app_->stop(), even one that came first.
LoopReturns(a) ==
    /\ thread_[a] = "loop" /\ stopped[a]
    /\ thread_' = [thread_ EXCEPT ![a] = "leaving"]
    /\ UNCHANGED <<ctor, starter, running_, stopped, terminated>>

\* app_->start() throws: the error is posted to the events port.
LoopThrows(a) ==
    /\ a \in Unreliable
    /\ thread_[a] = "loop"
    /\ thread_' = [thread_ EXCEPT ![a] = "leaving"]
    /\ UNCHANGED <<ctor, starter, running_, stopped, terminated>>

ThreadEnds(a) ==
    /\ thread_[a] = "leaving"
    /\ running_' = [running_ EXCEPT ![a] = FALSE]
    /\ thread_' = [thread_ EXCEPT ![a] = "finished"]
    /\ UNCHANGED <<ctor, starter, stopped, terminated>>

-----------------------------------------------------------------------------
(* stop(), called by the application ("join") or by the destructor ("dtor"), *)
(* when no start() is in progress.                                           *)

Quiescent(a) == \A t \in Starters : starter[a][t] # "spawn"

\* Where the caller of stop() goes on.
AfterStop(a) == GoPhase(a, IF phase[a] = "join" THEN "ready" ELSE "stopped")

\* Mutant: join() without having told the loop to end.
StopNoRequest(a) ==
    /\ phase[a] = "ready" /\ Quiescent(a)
    /\ \E p \in {"join", "dtor"} : GoPhase(a, p)
    /\ UNCHANGED <<env, initMutex, config, loaded, life>>

Stop(a) ==
    /\ phase[a] = "ready" /\ Quiescent(a)
    /\ stopped' = [stopped EXCEPT ![a] = TRUE]
    /\ \E p \in {"join", "dtor"} : GoPhase(a, p)
    /\ UNCHANGED <<env, initMutex, config, loaded, starter, running_, thread_, terminated>>

\* Mutant: as before H4, joins only while the flag says the loop runs.
JoinIfRunning(a) ==
    /\ phase[a] \in {"join", "dtor"}
    /\ running_[a] => thread_[a] \in {"none", "finished"}
    /\ thread_' = [thread_ EXCEPT ![a] = IF running_[a] THEN "none" ELSE @]
    /\ running_' = [running_ EXCEPT ![a] = FALSE]
    /\ starter' = [starter EXCEPT ![a] = [t \in Starters |-> "idle"]]
    /\ \E remembered \in BOOLEAN : stopped' = [stopped EXCEPT ![a] = remembered]
    /\ AfterStop(a)
    /\ UNCHANGED <<env, initMutex, config, loaded, terminated>>

\* Join a thread that was ever spawned, whatever running_ says.
Join(a) ==
    /\ phase[a] \in {"join", "dtor"}
    /\ thread_[a] \in {"none", "finished"}
    /\ thread_' = [thread_ EXCEPT ![a] = "none"]
    /\ running_' = [running_ EXCEPT ![a] = FALSE]
    /\ starter' = [starter EXCEPT ![a] = [t \in Starters |-> "idle"]]
    /\ \E remembered \in BOOLEAN : stopped' = [stopped EXCEPT ![a] = remembered]
    /\ AfterStop(a)
    /\ UNCHANGED <<env, initMutex, config, loaded, terminated>>

\* The members are destroyed; a std::thread still joinable is std::terminate.
Destruct(a) ==
    /\ phase[a] = "stopped"
    /\ terminated' = (terminated \/ thread_[a] # "none")
    /\ GoPhase(a, "gone")
    /\ UNCHANGED <<env, initMutex, config, loaded, starter, running_, thread_, stopped>>

Construct(a) == CreateFails(a) \/ Lock(a) \/ SetEnv(a) \/ InitApp(a) \/ InitFails(a)
Start(a, t) == \/ StartRepeated(a, t) \/ StartWins(a, t)
               \/ StartSpawn(a, t) \/ StartSpawnFails(a, t)
Thread(a) == LoopBegins(a) \/ LoopReturns(a) \/ LoopThrows(a) \/ ThreadEnds(a)
End(a) == Stop(a) \/ Join(a) \/ Destruct(a)

Next == \E a \in Apps : \/ Construct(a) \/ Thread(a) \/ End(a)
                        \/ \E t \in Starters : Start(a, t)

Spec == Init /\ [][Next]_vars

\* Threads are scheduled; nobody is obliged to stop an app.
Fairness == \A a \in Apps :
    /\ WF_vars(LoopBegins(a) \/ LoopReturns(a) \/ ThreadEnds(a))
    /\ WF_vars(Join(a) \/ Destruct(a))
FairSpec == Spec /\ Fairness

-----------------------------------------------------------------------------
(* Properties *)

\* Every variable holds a value of its kind; whoever holds the mutex is between
\* its lock and the end of its init(), also when that ends in an exception.
TypeOK ==
    /\ env \in Configs \cup {NoConfig}
    /\ initMutex = Free \/ initMutex \in {a \in Apps : phase[a] \in {"setenv", "init"}}
    /\ phase \in [Apps -> {"new", "setenv", "init", "ready", "join", "dtor", "stopped", "gone"}]
    /\ config \in [Apps -> Configs \cup {NoConfig}]
    /\ loaded \in [Apps -> Configs \cup {NoConfig}]
    /\ starter \in [Apps -> [Starters -> {"idle", "spawn", "done"}]]
    /\ running_ \in [Apps -> BOOLEAN]
    /\ thread_ \in [Apps -> {"none", "spawned", "loop", "leaving", "finished"}]
    /\ stopped \in [Apps -> BOOLEAN]
    /\ terminated \in BOOLEAN

\* init() reads the configuration file of its own app, although the variable
\* that names it is shared by all constructors.
OwnConfig ==
    \A a \in Apps : phase[a] \in {"ready", "join", "dtor", "stopped"} /\ config[a] # NoConfig
        => loaded[a] = config[a]

\* No start(), concurrent with another or after a stop(), and no destructor
\* terminates the process.  (The caller keeps to Repeatable: after a loop that
\* ended by itself a start() without a stop() in between would.)
NeverTerminates == ~terminated

\* When stop() has returned, whether the loop was running, had not begun or had
\* ended by itself, the thread is joined and is_running() is false, until somebody
\* calls start() again; and so it is when the object is gone.
StopJoins ==
    \A a \in Apps :
        \/ phase[a] = "ready" /\ \A t \in Starters : starter[a][t] = "idle"
        \/ phase[a] \in {"stopped", "gone"}
        => thread_[a] = "none" /\ ~running_[a]

\* stop() returns, even one that comes before the thread has entered the loop, and
\* however often the app was stopped and started before.
StopReturns ==
    \A a \in Apps : /\ phase[a] = "join" ~> phase[a] = "ready"
                    /\ phase[a] = "dtor" ~> phase[a] = "gone"
=============================================================================
