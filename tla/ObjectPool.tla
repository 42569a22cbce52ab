----------------------------- MODULE ObjectPool -----------------------------
(***************************************************************************)
(* co::pool of src/co/co.cc (pool_impl): a stack of objects for each       *)
(* scheduler, used without a lock by the coroutines of that scheduler, and *)
(* clear(), which starts a coroutine on every scheduler to destroy what is *)
(* in its stack and waits for all of them.  It runs on SchedManager.       *)
(*                                                                         *)
(* A vector is its memory and its size: pop_back() leaves the value where  *)
(* it was.  The memory does not move.                                      *)
(*                                                                         *)
(* No scheduler is deleted while its loop goes on (Defined): what stop()   *)
(* does when its wait ends early is followed up to there.                  *)
(***************************************************************************)
EXTENDS SchedManager

CONSTANTS Clearer,   \* callers of clear(): threads, or coroutines in User
          Obj,       \* objects, numbered
          MaxCap,    \* _maxcap
          Yields     \* whether the callback _dcb may yield, may return at once

(* The coroutine clear() of c starts on scheduler s.                       *)
Task == {<<c, s>> : c \in Clearer, s \in Sched}

VARIABLES ccb, dcb,  \* whether the pool has these callbacks
          mem, size, \* mem[s], size[s]: _pools[s]
          walk,      \* walk[t]: the loop of the task, <<next, end>>
          todo,      \* todo[c]: the wait group of c's clear()
          held,      \* held[u]: the object u uses, 0 if none
          made,      \* objects that exist or have existed
          dead,      \* objects _dcb has been called with
          twice,     \* history: some object has been destroyed twice
          left       \* history: left[c]: in a stack when c called clear(), not taken since

opVars == <<ccb, dcb, mem, size, walk, todo, held, made, dead, twice, left>>
idleVars == <<ccb, dcb, walk, todo>>

(* One of the clearers calls clear(), once.                                *)
PoolInit ==
    /\ SmInit
    /\ ccb \in BOOLEAN /\ dcb \in BOOLEAN
    /\ mem = [s \in Sched |-> <<>>]
    /\ size = [s \in Sched |-> 0]
    /\ walk = [t \in Task |-> <<0, 0>>]
    /\ \E d \in Clearer : todo = [c \in Clearer |-> IF c = d THEN Count ELSE 0]
    /\ held = [u \in User |-> 0]
    /\ made = {} /\ dead = {} /\ twice = FALSE
    /\ left = [c \in Clearer |-> {}]

Smallest(S) == CHOOSE o \in S : \A x \in S : o <= x

(* What is in the stack of s and has not been destroyed by a walk under    *)
(* way.                                                                    *)
Walked(s) == {k \in 1..size[s] : \E t \in Task : t[2] = s /\ 0 < walk[t][1] /\ k < walk[t][1]}
Slots(s) == {<<s, k>> : k \in (1..size[s]) \ Walked(s)}
AllSlots == UNION {Slots(s) : s \in Sched}
Pooled == {mem[x[1]][x[2]] : x \in AllSlots}
Held == {held[u] : u \in User} \ {0}

Destroy(o) ==
    /\ dead' = dead \cup {o}
    /\ twice' = (twice \/ o \in dead)

-----------------------------------------------------------------------------
Uses(u) == Runs(u) /\ at[u] = Out

pop(u) ==
    LET s == HomeOf(u) IN
    /\ Uses(u) /\ held[u] = 0
    /\ IF size[s] > 0
       THEN /\ held' = [held EXCEPT ![u] = mem[s][size[s]]]
            /\ size' = [size EXCEPT ![s] = @ - 1]
            /\ left' = [c \in Clearer |-> left[c] \ {held'[u]}]
            /\ UNCHANGED made
       ELSE /\ ccb /\ Obj # made
            /\ held' = [held EXCEPT ![u] = Smallest(Obj \ made)]
            /\ made' = made \cup {held'[u]}
            /\ UNCHANGED <<size, left>>
    /\ UNCHANGED <<smVars, idleVars, mem, dead, twice>>

(* What somebody pushes is what he has popped or an object of his own.     *)
push(u) ==
    LET s == HomeOf(u)
        o == IF held[u] # 0 THEN held[u] ELSE Smallest(Obj \ made)
    IN
    /\ Uses(u)
    /\ held[u] # 0 \/ (~ ccb /\ Obj # made)
    /\ held' = [held EXCEPT ![u] = 0]
    /\ made' = made \cup {o}
    /\ IF size[s] < MaxCap \/ ~ dcb
       THEN /\ mem' = [mem EXCEPT ![s] = SubSeq(@, 1, size[s]) \o <<o>>
                                         \o SubSeq(@, size[s] + 2, Len(@))]
            /\ size' = [size EXCEPT ![s] = @ + 1]
            /\ UNCHANGED <<dead, twice>>
       ELSE Destroy(o) /\ UNCHANGED <<mem, size>>
    /\ UNCHANGED <<smVars, idleVars, left>>

-----------------------------------------------------------------------------
(* clear()                                                                 *)

Clear(c) ==
    /\ Calls(c) /\ active /\ todo[c] = Count
    /\ left' = [left EXCEPT ![c] = Pooled]
    /\ Moves(c, <<"clear", 0>>)
    /\ UNCHANGED <<nco, queue, loopVars, manVars, fresh, first, idleVars,
                   mem, size, held, made, dead, twice>>

ClearGo(c) ==
    LET s == at[c][2] IN
    /\ at[c][1] = "clear"
    /\ queue' = [queue EXCEPT ![s] = Append(@, <<c, s>>)]
    /\ Moves(c, IF s + 1 \in Sched THEN <<"clear", s + 1>> ELSE <<"wait", 0>>)
    /\ UNCHANGED <<nco, loopVars, manVars, fresh, first, opVars>>

(* A coroutine yields unless all tasks are done; the last one resumes it.  *)
ClearYield(c) ==
    /\ c \in User /\ at[c] = <<"wait", 0>>
    /\ Runs(c) /\ todo[c] > 0
    /\ running' = [running EXCEPT ![HomeOf(c)] = None]
    /\ Moves(c, <<"wait", 1 + HomeOf(c)>>)
    /\ UNCHANGED <<nco, queue, flag, loop, manVars, fresh, first, opVars>>

(* Slip: the wait group counts one task less.                              *)
ClearReturnsEarly(c) ==
    /\ at[c][1] = "wait" /\ todo[c] <= 1
    /\ c \in User => Runs(c)
    /\ Moves(c, <<"cleared", 0>>)
    /\ UNCHANGED <<nco, queue, loopVars, manVars, fresh, first, opVars>>

ClearReturns(c) ==
    /\ at[c][1] = "wait" /\ todo[c] = 0
    /\ c \in User => Runs(c)
    /\ Moves(c, <<"cleared", 0>>)
    /\ UNCHANGED <<nco, queue, loopVars, manVars, fresh, first, opVars>>

(* The caller goes on.                                                     *)
Cleared(c) ==
    /\ at[c][1] = "cleared"
    /\ Moves(c, Out)
    /\ left' = [left EXCEPT ![c] = {}]
    /\ UNCHANGED <<nco, queue, loopVars, manVars, fresh, first, idleVars,
                   mem, size, held, made, dead, twice>>

(* The task: for (auto& e : v) _dcb(e), with the end of v as it was.       *)
Works(t) == running[t[2]] = t /\ at[t] = Out

TaskBegins(t) ==
    /\ Works(t) /\ walk[t] = <<0, 0>>
    /\ walk' = [walk EXCEPT ![t] = <<1, IF dcb THEN size[t[2]] ELSE 0>>]
    /\ UNCHANGED <<smVars, ccb, dcb, mem, size, todo, held, made, dead, twice, left>>

TaskDestroys(t) ==
    /\ Works(t) /\ walk[t][1] \in 1..walk[t][2]
    /\ Destroy(mem[t[2]][walk[t][1]])
    /\ walk' = [walk EXCEPT ![t][1] = @ + 1]
    /\ \E yields \in Yields : IF yields THEN Pause(t) ELSE UNCHANGED smVars
    /\ UNCHANGED <<ccb, dcb, mem, size, todo, held, made, left>>

(* v.clear(), wg.done() and the end of the coroutine.                      *)
TaskEnds(t) ==
    LET c == t[1] IN
    /\ Works(t) /\ walk[t][1] > walk[t][2]
    /\ size' = [size EXCEPT ![t[2]] = 0]
    /\ walk' = [walk EXCEPT ![t] = <<0, 1>>]
    /\ todo' = [todo EXCEPT ![c] = @ - 1]
    /\ running' = [running EXCEPT ![t[2]] = None]
    /\ queue' = IF todo[c] = 1 /\ at[c][1] = "wait" /\ at[c][2] > 0
                THEN [queue EXCEPT ![at[c][2] - 1] = Append(@, c)] ELSE queue
    /\ UNCHANGED <<nco, flag, loop, manVars, fresh, at, first, ccb, dcb, mem, held,
                   made, dead, twice, left>>

(* Without schedulers clear() does it all itself.                          *)
ClearDirectly ==
    /\ ~ active /\ \E s \in Sched : size[s] > 0
    /\ dead' = IF dcb THEN dead \cup Pooled ELSE dead
    /\ twice' = (twice \/ (dcb /\ Pooled \cap dead # {}))
    /\ size' = [s \in Sched |-> 0]
    /\ UNCHANGED <<smVars, idleVars, mem, held, made, left>>

-----------------------------------------------------------------------------
PoolNext ==
    /\ Defined
    /\ \/ UNCHANGED opVars /\ (GoStep \/ LoopStep \/ StopStep)
       \/ UNCHANGED opVars /\ \E u \in User : Pause(u) \/ (held[u] = 0 /\ Leave(u))
       \/ \E u \in User : pop(u) \/ push(u)
       \/ \E c \in Clearer : Clear(c) \/ ClearGo(c) \/ ClearYield(c) \/ ClearReturns(c) \/ Cleared(c)
       \/ \E t \in Task : TaskBegins(t) \/ TaskDestroys(t) \/ TaskEnds(t)
       \/ ClearDirectly

PoolSpec == PoolInit /\ [][PoolNext]_<<smVars, opVars>>

-----------------------------------------------------------------------------
(* An object is used by one coroutine or is in one stack, once; it is      *)
(* destroyed once and by then is neither; and with a callback to destroy   *)
(* it none is lost, whoever clears the pool meanwhile.                     *)
ObjectsSafe ==
    /\ \A x, y \in AllSlots : mem[x[1]][x[2]] = mem[y[1]][y[2]] => x = y
    /\ \A u, w \in User : held[u] # 0 /\ held[u] = held[w] => u = w
    /\ Pooled \cap Held = {}
    /\ dead \cap (Pooled \cup Held) = {} /\ ~ twice
    /\ dcb => made = dead \cup Pooled \cup Held

(* When clear() returns, nothing that was in the pool when it was called   *)
(* is there still, on no scheduler.                                        *)
ClearedAll == \A c \in Clearer : at[c][1] = "cleared" => left[c] \cap Pooled = {}
=============================================================================
