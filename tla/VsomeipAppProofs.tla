-------------------------- MODULE VsomeipAppProofs --------------------------
(***************************************************************************)
(* Proofs about VsomeipApp for any number of apps, starting threads and    *)
(* configuration files.                                                    *)
(*                                                                         *)
(* That nothing terminates the process rests on UsageAssumption: an app    *)
(* that loses its loop to an exception leaves running_ false and a thread  *)
(* nobody has joined, so a second start() before the next stop() would     *)
(* assign to it.                                                           *)
(***************************************************************************)
EXTENDS VsomeipApp, TLAPS

UsageAssumption == Unreliable \subseteq StartedOnce

\* One constructor at a time is between its lock and the end of its init(), and
\* the environment is its own from setenv on.
EnvInv ==
    \A a \in Apps :
        /\ phase[a] \in {"setenv", "init"} => initMutex = a
        /\ phase[a] = "init" /\ config[a] # NoConfig => env = config[a]

\* An object under construction has no thread and was not started.
NewInv(a) ==
    phase[a] \in {"new", "setenv", "init"} =>
        /\ thread_[a] = "none" /\ ~running_[a]
        /\ \A t \in Starters : starter[a][t] = "idle"

\* Whoever won the compare-and-swap is alone and finds no thread.
SpawnInv(a) ==
    \A t \in Starters : starter[a][t] = "spawn" =>
        /\ phase[a] = "ready" /\ running_[a] /\ thread_[a] = "none"
        /\ \A u \in Starters : starter[a][u] = "spawn" => u = t

\* The flag is set while the body runs; a body that is over was told to stop, or
\* belongs to an app whose start() is not repeated; a thread was started by
\* somebody since the last stop().
ThreadInv(a) ==
    /\ thread_[a] \in {"spawned", "loop", "leaving"} => running_[a]
    /\ thread_[a] \in {"leaving", "finished"} => stopped[a] \/ a \in Unreliable
    /\ thread_[a] # "none" => \E t \in Starters : starter[a][t] # "idle"

\* Until the next start() nothing is left of the thread.
EndInv(a) ==
    \/ phase[a] = "ready" /\ \A t \in Starters : starter[a][t] = "idle"
    \/ phase[a] \in {"stopped", "gone"}
    => thread_[a] = "none" /\ ~running_[a]

AppInv(a) == NewInv(a) /\ SpawnInv(a) /\ ThreadInv(a) /\ EndInv(a)

IInv == TypeOK /\ EnvInv /\ OwnConfig /\ NeverTerminates /\ \A a \in Apps : AppInv(a)

USE NoConfigAssumption, AppsAssumption, FreeAssumption

LEMMA InitIInv == Init => IInv
  <1> SUFFICES ASSUME Init PROVE IInv
    OBVIOUS
  <1>1. TypeOK
    BY DEF Init, TypeOK
  <1>2. EnvInv /\ OwnConfig /\ NeverTerminates
    BY DEF Init, EnvInv, OwnConfig, NeverTerminates
  <1>3. ASSUME NEW a \in Apps PROVE AppInv(a)
    BY DEF Init, AppInv, NewInv, SpawnInv, ThreadInv, EndInv
  <1> QED BY <1>1, <1>2, <1>3 DEF IInv

\* The constructor's steps touch no thread, and only one constructor is inside.
LEMMA ConstructIInv ==
    ASSUME IInv, NEW a \in Apps, Construct(a)
    PROVE  IInv'
  <1>1. UNCHANGED life
    BY DEF Construct, CreateFails, Lock, SetEnv, InitApp, InitFails
  <1>2. phase[a] \in {"new", "setenv", "init"} /\ \A b \in Apps \ {a} : phase'[b] = phase[b]
    BY DEF Construct, CreateFails, Lock, SetEnv, InitApp, InitFails, GoPhase, IInv, TypeOK
  <1>3. phase'[a] \in {"setenv", "init", "ready", "gone"}
    BY DEF Construct, CreateFails, Lock, SetEnv, InitApp, InitFails, GoPhase, IInv, TypeOK
  <1>4. TypeOK' /\ EnvInv' /\ OwnConfig'
    <2>1. CASE CreateFails(a)
      BY <2>1 DEF CreateFails, GoPhase, IInv, TypeOK, EnvInv, OwnConfig, life
    <2>2. CASE Lock(a)
      BY <2>2 DEF Lock, GoPhase, IInv, TypeOK, EnvInv, OwnConfig, life, Free
    <2>3. CASE SetEnv(a)
      BY <2>3 DEF SetEnv, GoPhase, IInv, TypeOK, EnvInv, OwnConfig, life, Free
    <2>4. CASE InitApp(a)
      BY <2>4 DEF InitApp, GoPhase, IInv, TypeOK, EnvInv, OwnConfig, life, Free
    <2>5. CASE InitFails(a)
      BY <2>5 DEF InitFails, GoPhase, IInv, TypeOK, EnvInv, OwnConfig, life, Free
    <2> QED BY <2>1, <2>2, <2>3, <2>4, <2>5 DEF Construct
  <1>5. NeverTerminates'
    BY <1>1 DEF IInv, NeverTerminates, life
  <1>6. ASSUME NEW b \in Apps PROVE AppInv(b)'
    BY <1>1, <1>2, <1>3
       DEF IInv, life, AppInv, NewInv, SpawnInv, ThreadInv, EndInv
  <1> QED BY <1>4, <1>5, <1>6 DEF IInv

\* start(): whoever finds running_ false finds no thread either.
LEMMA StartIInv ==
    ASSUME IInv, UsageAssumption, NEW a \in Apps, NEW t \in Starters, Start(a, t)
    PROVE  IInv'
  <1>1. UNCHANGED ctor
    BY DEF Start, StartRepeated, StartWins, StartSpawn, StartSpawnFails
  <1>2. EnvInv' /\ OwnConfig'
    BY <1>1 DEF IInv, EnvInv, OwnConfig, ctor
  <1>3. CASE StartRepeated(a, t)
    <2>1. TypeOK' /\ NeverTerminates'
      BY <1>3 DEF StartRepeated, ctor, IInv, TypeOK, NeverTerminates
    <2>2. ASSUME NEW b \in Apps PROVE AppInv(b)'
      BY <1>3 DEF StartRepeated, MayStart, ctor, IInv, TypeOK, AppInv, NewInv, SpawnInv,
                  ThreadInv, EndInv
    <2> QED BY <1>2, <2>1, <2>2 DEF IInv
  <1>4. CASE StartWins(a, t)
    <2>1. thread_[a] = "none"
      BY <1>4 DEF StartWins, MayStart, Repeatable, IInv, TypeOK, AppInv, ThreadInv,
                  UsageAssumption
    <2>2. TypeOK' /\ NeverTerminates'
      BY <1>4 DEF StartWins, ctor, IInv, TypeOK, NeverTerminates
    <2>3. \A u \in Starters : starter[a][u] # "spawn"
      BY <1>4 DEF StartWins, IInv, AppInv, SpawnInv
    <2>4. ASSUME NEW b \in Apps PROVE AppInv(b)'
      BY <1>4, <2>1, <2>3 DEF StartWins, MayStart, ctor, IInv, TypeOK, AppInv, NewInv,
                  SpawnInv, ThreadInv, EndInv
    <2> QED BY <1>2, <2>2, <2>4 DEF IInv
  <1>5. CASE StartSpawn(a, t)
    <2>1. thread_[a] = "none" /\ phase[a] = "ready" /\ running_[a]
      BY <1>5 DEF StartSpawn, IInv, AppInv, SpawnInv
    <2>2. TypeOK' /\ NeverTerminates'
      BY <1>5, <2>1 DEF StartSpawn, ctor, IInv, TypeOK, NeverTerminates
    <2>3. ASSUME NEW b \in Apps PROVE AppInv(b)'
      BY <1>5, <2>1 DEF StartSpawn, ctor, IInv, TypeOK, AppInv, NewInv, SpawnInv,
                  ThreadInv, EndInv
    <2> QED BY <1>2, <2>2, <2>3 DEF IInv
  <1>6. CASE StartSpawnFails(a, t)
    <2>1. TypeOK' /\ NeverTerminates'
      BY <1>6 DEF StartSpawnFails, ctor, IInv, TypeOK, NeverTerminates
    <2>2. ASSUME NEW b \in Apps PROVE AppInv(b)'
      BY <1>6 DEF StartSpawnFails, ctor, IInv, TypeOK, AppInv, NewInv, SpawnInv,
                  ThreadInv, EndInv
    <2> QED BY <1>2, <2>1, <2>2 DEF IInv
  <1> QED BY <1>3, <1>4, <1>5, <1>6 DEF Start

\* The thread's body.
LEMMA ThreadIInv ==
    ASSUME IInv, NEW a \in Apps, Thread(a)
    PROVE  IInv'
  <1>1. UNCHANGED <<ctor, starter, stopped, terminated>>
    BY DEF Thread, LoopBegins, LoopReturns, LoopThrows, ThreadEnds
  <1>2. EnvInv' /\ OwnConfig' /\ NeverTerminates'
    BY <1>1 DEF IInv, EnvInv, OwnConfig, NeverTerminates, ctor
  <1>3. TypeOK'
    BY <1>1 DEF Thread, LoopBegins, LoopReturns, LoopThrows, ThreadEnds, IInv, TypeOK, ctor
  <1>4. thread_[a] # "none" /\ phase[a] \in {"ready", "join", "dtor"}
    BY DEF Thread, LoopBegins, LoopReturns, LoopThrows, ThreadEnds, IInv, TypeOK, AppInv,
           NewInv, EndInv
  <1>5. ASSUME NEW b \in Apps PROVE AppInv(b)'
    <2>1. CASE b # a
      BY <1>1, <2>1 DEF Thread, LoopBegins, LoopReturns, LoopThrows, ThreadEnds, ctor, IInv,
             TypeOK, AppInv, NewInv, SpawnInv, ThreadInv, EndInv
    <2>2. CASE b = a
      BY <1>1, <1>4, <2>2 DEF Thread, LoopBegins, LoopReturns, LoopThrows, ThreadEnds, ctor,
             IInv, TypeOK, AppInv, NewInv, SpawnInv, ThreadInv, EndInv
    <2> QED BY <2>1, <2>2
  <1> QED BY <1>2, <1>3, <1>5 DEF IInv

\* stop() and the destructor.
LEMMA EndIInv ==
    ASSUME IInv, NEW a \in Apps, End(a)
    PROVE  IInv'
  <1>1. UNCHANGED <<env, initMutex, config, loaded>>
    BY DEF End, Stop, Join, Destruct
  <1>2. phase[a] \in {"ready", "join", "dtor", "stopped"}
        /\ phase'[a] \in {"ready", "join", "dtor", "stopped", "gone"}
        /\ (phase[a] = "stopped" => phase'[a] = "gone")
        /\ \A b \in Apps \ {a} : phase'[b] = phase[b]
    BY DEF End, Stop, Join, Destruct, GoPhase, AfterStop, IInv, TypeOK
  <1>3. EnvInv' /\ OwnConfig'
    BY <1>1, <1>2 DEF IInv, EnvInv, OwnConfig
  <1>4. CASE Stop(a)
    <2>1. TypeOK' /\ NeverTerminates'
      BY <1>4 DEF Stop, GoPhase, IInv, TypeOK, NeverTerminates
    <2>2. ASSUME NEW b \in Apps PROVE AppInv(b)'
      BY <1>4 DEF Stop, GoPhase, Quiescent, IInv, TypeOK, AppInv, NewInv, SpawnInv,
                  ThreadInv, EndInv
    <2> QED BY <1>3, <2>1, <2>2 DEF IInv
  <1>5. CASE Join(a)
    <2>1. TypeOK' /\ NeverTerminates'
      <3>1. starter' \in [Apps -> [Starters -> {"idle", "spawn", "done"}]]
        BY <1>5 DEF Join, IInv, TypeOK
      <3>2. phase' \in [Apps -> {"new", "setenv", "init", "ready", "join", "dtor", "stopped", "gone"}]
        BY <1>5 DEF Join, GoPhase, AfterStop, IInv, TypeOK
      <3>3. stopped' \in [Apps -> BOOLEAN]
        BY <1>5 DEF Join, IInv, TypeOK
      <3> QED BY <1>2, <1>5, <3>1, <3>2, <3>3 DEF Join, IInv, TypeOK, NeverTerminates
    <2>2. ASSUME NEW b \in Apps PROVE AppInv(b)'
      <3>1. CASE b = a
        <4>1. /\ \A t \in Starters : starter'[a][t] = "idle"
              /\ thread_'[a] = "none" /\ running_'[a] = FALSE
          BY <1>5 DEF Join, IInv, TypeOK
        <4> QED BY <3>1, <4>1 DEF AppInv, NewInv, SpawnInv, ThreadInv, EndInv
      <3>2. CASE b # a
        <4>1. /\ starter'[b] = starter[b] /\ thread_'[b] = thread_[b]
              /\ running_'[b] = running_[b] /\ stopped'[b] = stopped[b]
              /\ phase'[b] = phase[b]
          BY <1>2, <1>5, <3>2 DEF Join, IInv, TypeOK
        <4> QED BY <4>1 DEF IInv, AppInv, NewInv, SpawnInv, ThreadInv, EndInv
      <3> QED BY <3>1, <3>2
    <2> QED BY <1>3, <2>1, <2>2 DEF IInv
  <1>6. CASE Destruct(a)
    <2>1. TypeOK' /\ NeverTerminates'
      BY <1>6 DEF Destruct, GoPhase, IInv, TypeOK, NeverTerminates, AppInv, EndInv
    <2>2. ASSUME NEW b \in Apps PROVE AppInv(b)'
      BY <1>6 DEF Destruct, GoPhase, IInv, TypeOK, AppInv, NewInv, SpawnInv, ThreadInv,
                  EndInv
    <2> QED BY <1>3, <2>1, <2>2 DEF IInv
  <1> QED BY <1>4, <1>5, <1>6 DEF End

LEMMA NextIInv ==
    ASSUME IInv, UsageAssumption, [Next]_vars
    PROVE  IInv'
  <1>1. CASE UNCHANGED vars
    BY <1>1 DEF vars, ctor, life, IInv, TypeOK, EnvInv, OwnConfig, NeverTerminates, AppInv,
           NewInv, SpawnInv, ThreadInv, EndInv
  <1>2. ASSUME NEW a \in Apps, Construct(a) PROVE IInv'
    BY <1>2, ConstructIInv
  <1>3. ASSUME NEW a \in Apps, Thread(a) PROVE IInv'
    BY <1>3, ThreadIInv
  <1>4. ASSUME NEW a \in Apps, End(a) PROVE IInv'
    BY <1>4, EndIInv
  <1>5. ASSUME NEW a \in Apps, NEW t \in Starters, Start(a, t) PROVE IInv'
    BY <1>5, StartIInv
  <1> QED BY <1>1, <1>2, <1>3, <1>4, <1>5 DEF Next

LEMMA SpecIInv ==
    ASSUME UsageAssumption
    PROVE  Spec => []IInv
  <1>1. IInv /\ [Next]_vars => IInv'
    BY NextIInv
  <1> QED BY InitIInv, <1>1, PTL DEF Spec

-----------------------------------------------------------------------------

\* Every variable keeps its kind; the lock is only held inside a constructor.
THEOREM AppTypeOK ==
    ASSUME UsageAssumption
    PROVE  Spec => []TypeOK
  <1>1. IInv => TypeOK
    BY DEF IInv
  <1> QED BY <1>1, SpecIInv, PTL

\* Each constructor's init() reads its own app's configuration.
THEOREM AppOwnConfig ==
    ASSUME UsageAssumption
    PROVE  Spec => []OwnConfig
  <1>1. IInv => OwnConfig
    BY DEF IInv
  <1> QED BY <1>1, SpecIInv, PTL

\* Neither start() nor the destructor meets a joinable thread.
THEOREM AppNeverTerminates ==
    ASSUME UsageAssumption
    PROVE  Spec => []NeverTerminates
  <1>1. IInv => NeverTerminates
    BY DEF IInv
  <1> QED BY <1>1, SpecIInv, PTL

\* When stop() returns the thread is joined and the flag is down, until the next
\* start(); and so it is when the destructor is done.
THEOREM AppStopJoins ==
    ASSUME UsageAssumption
    PROVE  Spec => []StopJoins
  <1>1. IInv => StopJoins
    BY DEF IInv, AppInv, EndInv, StopJoins
  <1> QED BY <1>1, SpecIInv, PTL
=============================================================================
