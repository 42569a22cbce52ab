---------------------------- MODULE MCScheduler ----------------------------
(***************************************************************************)
(* The tables the library keeps for its coroutines, for TLC: a behaviour   *)
(* is one of a scheduler's shared stacks, pool of coroutines or timers, of *)
(* the table of the system call hooks, or of a pool of objects and the     *)
(* schedulers it is used on; the others stay as they start, and the larger *)
(* ones of them are left out.                                              *)
(***************************************************************************)
EXTENDS SharedStack, TimerManager

CONSTANTS N, MaxLive, MaxBlock,
          c1, c2, c3, s1, s2,
          Fd, File, User, Thread, Odd,
          Count, Clearer, Obj, MaxCap, Yields

VARIABLES c, o, allocated, useCount, v0, vc, blks, holders,
          file, kind, kernelNb, down, userNb, userMs, ctx, call,
          nco, queue, onCpu, flag, loop, exist, listed, isActive, fresh, at,
          stopper, early, first,
          ccb, dcb, mem, size, walk, todo, held, made, dead, twice, left,
          part   \* the table this behaviour is about

poolVars == <<c, o, allocated, useCount, v0, vc, blks, holders>>
hookVars == <<file, kind, kernelNb, down, userNb, userMs, ctx, call>>
objectVars ==
    <<nco, queue, onCpu, flag, loop, exist, listed, isActive, fresh, at,
      stopper, early, first,
      ccb, dcb, mem, size, walk, todo, held, made, dead, twice, left>>

Pool == INSTANCE CoroutinePool
Hook == INSTANCE Hook WITH Co <- User

(* The coroutines clear() starts.                                          *)
Tasks == Clearer \X (0..(Count - 1))

Objects ==
    INSTANCE ObjectPool WITH Other <- Tasks, running <- onCpu, active <- isActive

(* A block holds coroutines, and the bounds are numbers.                   *)
ASSUME PoolAssumption == N \in Nat \ {0} /\ MaxLive \in Nat /\ MaxBlock \in Nat

(* Those who call clear() are among those who call go(); a task of clear() *)
(* is none of them, and 0 and None stand for no object and no coroutine.   *)
ASSUME ObjectsAssumption ==
    /\ Count \in Nat \ {0} /\ Obj \subseteq Nat \ {0}
    /\ Clearer \subseteq User \cup Thread /\ User \cap Thread = {}
    /\ (User \cup Thread) \cap Tasks = {}
    /\ None \notin User \cup Tasks

(* Nor is None a descriptor or an open file.                               *)
ASSUME HooksAssumption == None \notin Fd \cup File

(* All but c3 take turns on one stack, c3 has the other to itself: two     *)
(* stacks that feed one list of buffers.                                   *)
MCStackOf == [x \in Co |-> IF x = c3 THEN s2 ELSE s1]

MCSymmetry == Permutations(Co \ {c3})

NoPool ==
    /\ c = 0 /\ o = 0 /\ allocated = 0 /\ useCount = 0
    /\ v0 = 0 /\ vc = 0 /\ blks = 0 /\ holders = 0

NoHooks ==
    /\ file = 0 /\ kind = 0 /\ kernelNb = 0 /\ down = 0
    /\ userNb = 0 /\ userMs = 0 /\ ctx = 0 /\ call = 0

NoObjects ==
    /\ nco = 0 /\ queue = 0 /\ onCpu = 0 /\ flag = 0 /\ loop = 0 /\ exist = 0
    /\ listed = 0 /\ isActive = 0 /\ fresh = 0 /\ at = 0 /\ stopper = 0 /\ early = 0 /\ first = 0
    /\ ccb = 0 /\ dcb = 0 /\ mem = 0 /\ size = 0 /\ walk = 0 /\ todo = 0
    /\ held = 0 /\ made = 0 /\ dead = 0 /\ twice = 0 /\ left = 0

SchedulerInit ==
    /\ part \in {"stacks", "pool", "timers", "hooks", "objects"}
    /\ Init /\ TimersInit
    /\ IF part = "pool" THEN Pool!Init ELSE NoPool
    /\ IF part = "hooks" THEN Hook!Init ELSE NoHooks
    /\ IF part = "objects" THEN Objects!PoolInit ELSE NoObjects

SchedulerNext ==
    /\ UNCHANGED part
    /\ \/ part = "stacks" /\ Next /\ UNCHANGED <<poolVars, tmVars, hookVars, objectVars>>
       \/ part = "pool" /\ Pool!Next /\ UNCHANGED <<vars, tmVars, hookVars, objectVars>>
       \/ part = "timers" /\ TimersNext /\ UNCHANGED <<vars, poolVars, hookVars, objectVars>>
       \/ part = "hooks" /\ Hook!Next /\ UNCHANGED <<vars, poolVars, tmVars, objectVars>>
       \/ part = "objects" /\ Objects!PoolNext /\ UNCHANGED <<vars, poolVars, tmVars, hookVars>>

SchedulerSpec ==
    SchedulerInit /\ [][SchedulerNext]_<<vars, poolVars, tmVars, hookVars, objectVars, part>>

(* The properties of the parts: see CoroutinePool, Hook, SchedManager and  *)
(* ObjectPool.                                                             *)
PoolSound == part = "pool" => Pool!PoolSound
CallsAsAsked == part = "hooks" => Hook!SchedulerNotBlocked /\ Hook!WaitsAsAsked
SchedulersOutlive == part = "objects" => Objects!SchedulersOutlive /\ Objects!FirstSpread
ObjectsSafe == part = "objects" => Objects!ObjectsSafe /\ Objects!ClearedAll
=============================================================================
