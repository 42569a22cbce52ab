---------------------------- MODULE ObjectProofs ----------------------------
(***************************************************************************)
(* Proofs about co::pool on its schedulers: no object is in two hands, is  *)
(* destroyed twice or is lost, and clear() leaves none behind, for any     *)
(* number of schedulers, coroutines, objects and calls of clear(), if the  *)
(* callback that destroys an object does not yield.                        *)
(***************************************************************************)
EXTENDS SchedulerProofs

Over == <<0, 1>>

ObjectsTypeOK ==
    /\ dcb \in BOOLEAN
    /\ mem \in [Objects!Sched -> Seq(Obj)]
    /\ size \in [Objects!Sched -> Nat]
    /\ \A s \in Objects!Sched : size[s] <= Len(mem[s])
    /\ walk \in [Tasks -> Nat \X Nat]
    /\ todo \in [Clearer -> Nat]
    /\ held \in [User -> Obj \cup {0}]
    /\ made \subseteq Obj /\ dead \subseteq made
    /\ left \in [Clearer -> SUBSET made]

(* A walk goes on for as long as its task runs, over the whole stack if    *)
(* there is a callback, so that nobody pops or pushes on that scheduler.   *)
WalksUndisturbed ==
    \A t \in Tasks :
       \/ walk[t] \in {<<0, 0>>, Over}
       \/ /\ onCpu[t[2]] = t
          /\ walk[t][2] = IF dcb THEN size[t[2]] ELSE 0
          /\ walk[t][1] \in 1..(walk[t][2] + 1)

(* Slot k of the stack of s holds an object no walk has destroyed.         *)
Present(s, k) ==
    /\ k \in 1..size[s]
    /\ \A t \in Tasks : t[2] = s => walk[t][1] = 0 \/ walk[t][1] <= k

(* Each object that is there is in one slot or in one hand, and, with a    *)
(* callback, every one that has been made and not destroyed is.            *)
SlotsDiffer ==
    \A s, r \in Objects!Sched : \A k, l \in Nat :
       Present(s, k) /\ Present(r, l) /\ mem[s][k] = mem[r][l] => s = r /\ k = l
HandsDiffer == \A u, w \in User : held[u] # 0 /\ held[u] = held[w] => u = w
SlotsLive ==
    \A s \in Objects!Sched : \A k \in Nat : Present(s, k) => mem[s][k] \in made \ dead
HandsLive == \A u \in User : held[u] # 0 => held[u] \in made \ dead
Apart ==
    \A s \in Objects!Sched : \A k \in Nat :
       Present(s, k) => \A u \in User : held[u] # mem[s][k]
NoneLost ==
    dcb => \A x \in made \ dead :
              \/ \E u \in User : held[u] = x
              \/ \E s \in Objects!Sched : \E k \in Nat : Present(s, k) /\ mem[s][k] = x

Placed ==
    /\ SlotsDiffer /\ HandsDiffer /\ Apart
    /\ SlotsLive /\ HandsLive
    /\ NoneLost /\ ~ twice

(* The wait group of a caller of clear() counts the tasks of his that are  *)
(* not over; who does not call it has none, in no queue either.            *)
OverTasks(x) == {s \in Objects!Sched : walk[<<x, s>>] = Over}
Counted(x) == todo[x] + Cardinality(OverTasks(x)) = Count

InClear == {"clear", "wait", "cleared"}

GroupCounts ==
    /\ \A x \in Clearer : todo[x] = 0 \/ Counted(x)
    /\ \A x \in Clearer : at[x][1] \in InClear => Counted(x)
    /\ \A x \in Clearer : at[x][1] = "cleared" => todo[x] = 0
    /\ \A s \in Objects!Sched : onCpu[s] \in Tasks => Counted(onCpu[s][1])
    /\ \A s \in Objects!Sched : \A i \in DOMAIN queue[s] :
          queue[s][i] \in Tasks => Counted(queue[s][i][1])

(* What was in a stack when clear() was called and has not been taken      *)
(* since is in nobody's hands, nor in a stack whose task is over.          *)
LeftBehind ==
    \A x \in Clearer :
       /\ \A u \in User : held[u] \notin left[x]
       /\ \A s \in OverTasks(x) : \A k \in Nat : Present(s, k) => mem[s][k] \notin left[x]

PoolInv ==
    /\ ObjectsTypeOK
    /\ WalksUndisturbed
    /\ Placed
    /\ GroupCounts
    /\ LeftBehind

-----------------------------------------------------------------------------
(* The objects are numbers.                                                *)
LEMMA SmallestIn ==
    ASSUME NEW S, S \subseteq Nat, S # {}
    PROVE  Objects!Smallest(S) \in S
  BY SmallestOfNumbers DEF Objects!Smallest


(* The steps that leave the stacks alone.                                  *)

(* What a sequence holds after an Append, at its head and in its tail.     *)
LEMMA Queued ==
    ASSUME ManagerInv, GroupCounts, NEW s, NEW j \in Objects!Job,
           queue' = [queue EXCEPT ![s] = Append(@, j)],
           j \in Tasks => Counted(j[1])
    PROVE  \A r \in Objects!Sched : \A i \in DOMAIN queue'[r] :
              queue'[r][i] \in Tasks => Counted(queue'[r][i][1])
  <1> SUFFICES ASSUME NEW r \in Objects!Sched, NEW i \in DOMAIN queue'[r], queue'[r][i] \in Tasks
               PROVE  Counted(queue'[r][i][1])
    OBVIOUS
  <1>1. queue \in [Objects!Sched -> Seq(Objects!Job)]
    BY DEF ManagerInv, ManagerTypeOK, Objects!SmTypeOK
  <1>2. CASE r = s
    <2>1. queue[r] \in Seq(Objects!Job) /\ queue'[r] = Append(queue[r], j)
      BY <1>1, <1>2
    <2>2. /\ DOMAIN queue'[r] = 1..(Len(queue[r]) + 1)
          /\ \A k \in 1..Len(queue[r]) : queue'[r][k] = queue[r][k]
          /\ queue'[r][Len(queue[r]) + 1] = j
          /\ DOMAIN queue[r] = 1..Len(queue[r]) /\ Len(queue[r]) \in Nat
      BY <2>1, AppendProperties, LenProperties
    <2>3. CASE i \in 1..Len(queue[r])
      BY <2>2, <2>3 DEF GroupCounts
    <2>4. CASE i = Len(queue[r]) + 1
      BY <2>2, <2>4
    <2>. QED  BY <2>2, <2>3, <2>4
  <1>3. CASE r # s
    BY <1>1, <1>3 DEF GroupCounts
  <1>. QED  BY <1>2, <1>3

LEMMA CountsMove ==
    ASSUME GroupCounts,
           \A x \in Clearer : /\ Counted(x) => Counted(x)'
                              /\ todo[x] = 0 => todo'[x] = 0
                              /\ \/ at'[x] = at[x]
                                 \/ at'[x][1] \notin InClear
                                 \/ Counted(x) /\ (at'[x][1] = "cleared" => todo[x] = 0),
           \A s \in Objects!Sched : \/ onCpu'[s] = onCpu[s]
                                    \/ onCpu'[s] \in Tasks => Counted(onCpu'[s][1]),
           \A s \in Objects!Sched : \A i \in DOMAIN queue'[s] :
              queue'[s][i] \in Tasks => Counted(queue'[s][i][1])
    PROVE  GroupCounts'
  <1>0. \A t \in Tasks : t[1] \in Clearer
    BY DEF Tasks
  <1>1. \A x \in Clearer : /\ (todo[x] = 0 \/ Counted(x))'
                           /\ (at[x][1] \in InClear => Counted(x))'
                           /\ (at[x][1] = "cleared" => todo[x] = 0)'
    BY DEF GroupCounts, InClear
  <1>2. \A s \in Objects!Sched : (onCpu[s] \in Tasks => Counted(onCpu[s][1]))'
    BY <1>0 DEF GroupCounts
  <1>3. \A s \in Objects!Sched : \A i \in DOMAIN queue'[s] :
           (queue[s][i] \in Tasks => Counted(queue[s][i][1]))'
    BY <1>0 DEF GroupCounts
  <1>. QED  BY <1>1, <1>2, <1>3 DEF GroupCounts

(* A walk goes on if its scheduler runs what it ran and its stack is as it *)
(* was.                                                                    *)
LEMMA WalksKept ==
    ASSUME PoolInv, UNCHANGED <<walk, dcb>>,
           \A s \in Objects!Sched : \/ onCpu'[s] = onCpu[s] /\ size'[s] = size[s]
                                    \/ onCpu[s] \notin Tasks
    PROVE  WalksUndisturbed'
  <1> SUFFICES ASSUME NEW t \in Tasks, walk[t] \notin {<<0, 0>>, Over}
               PROVE  /\ onCpu'[t[2]] = t
                      /\ walk[t][2] = IF dcb THEN size'[t[2]] ELSE 0
                      /\ walk[t][1] \in 1..(walk[t][2] + 1)
    BY DEF WalksUndisturbed, Over
  <1>1. t[2] \in Objects!Sched
    BY Named DEF Tasks
  <1>. QED  BY <1>1 DEF PoolInv, WalksUndisturbed

LEMMA StacksAlone ==
    ASSUME PoolInv, UNCHANGED Objects!opVars,
           \A s \in Objects!Sched : onCpu'[s] = onCpu[s] \/ onCpu[s] \notin Tasks,
           GroupCounts'
    PROVE  PoolInv'
  <1>1. UNCHANGED <<ccb, dcb, mem, size, walk, todo, held, made, dead, twice, left>>
    BY DEF Objects!opVars
  <1>2. ObjectsTypeOK'
    BY <1>1 DEF PoolInv, ObjectsTypeOK
  <1>3. WalksUndisturbed'
    BY <1>1, WalksKept
  <1>4. \A s, k : Present(s, k)' <=> Present(s, k)
    BY <1>1 DEF Present
  <1>5. Placed'
    BY <1>1, <1>4 DEF PoolInv, Placed, SlotsDiffer, HandsDiffer, Apart, SlotsLive, HandsLive, NoneLost
  <1>6. LeftBehind'
    BY <1>1, <1>4 DEF PoolInv, LeftBehind, OverTasks
  <1>. QED  BY <1>2, <1>3, <1>5, <1>6 DEF PoolInv

LEMMA CountsAlone ==
    ASSUME UNCHANGED Objects!opVars
    PROVE  \A x \in Clearer : (Counted(x)' <=> Counted(x)) /\ todo'[x] = todo[x]
  BY DEF Objects!opVars, Counted, OverTasks

(* Tasks are neither users nor threads, and nobody is None.                *)
LEMMA Disjoint ==
    /\ \A u \in User : u \notin Tasks /\ u \in Objects!Job /\ u \in Objects!Caller
    /\ \A x \in Clearer : x \notin Tasks /\ x \in User \cup Thread
    /\ None \notin Tasks
    /\ \A t \in Tasks : /\ t[1] \in Clearer /\ t[2] \in Objects!Sched
                        /\ t = <<t[1], t[2]>> /\ t \in Objects!Job
    /\ \A x \in Clearer : \A s \in Objects!Sched : <<x, s>> \in Tasks
  <1>1. Objects!Sched = 0..(Count - 1) /\ Objects!Job = User \cup Tasks
        /\ Objects!Caller = User \cup Tasks \cup Thread
    BY Named
  <1>2. \A t \in Tasks : t[1] \in Clearer /\ t[2] \in 0..(Count - 1) /\ t = <<t[1], t[2]>>
    BY DEF Tasks
  <1>3. \A x \in Clearer : \A s \in 0..(Count - 1) : <<x, s>> \in Tasks
    BY DEF Tasks
  <1>. QED  BY <1>1, <1>2, <1>3, ObjectsAssumption

(* go() and the loops.                                                     *)
LEMMA GoKeeps ==
    ASSUME PoolInv, ManagerInv, UNCHANGED Objects!opVars, NEW p \in Objects!Caller,
           Objects!Go(p) \/ Objects!TakeNumber(p) \/ Objects!Weigh(p) \/ Objects!AddNewTask(p)
    PROVE  PoolInv'
  <1>1. /\ at \in [Objects!Caller -> Stages \X Nat] /\ fresh \subseteq User
        /\ UNCHANGED onCpu
    BY DEF ManagerInv, ManagerTypeOK, Objects!SmTypeOK, Objects!Go, Objects!TakeNumber,
       Objects!Weigh, Objects!AddNewTask, Objects!loopVars
  <1>2. PICK to : at' = [at EXCEPT ![p] = to] /\ to[1] \notin InClear
    <2>1. \A k : /\ <<"add", k>>[1] \notin InClear /\ <<"number", k>>[1] \notin InClear
                 /\ <<"weigh", k>>[1] \notin InClear /\ <<"out", k>>[1] \notin InClear
      BY DEF InClear
    <2>. QED  BY <2>1 DEF Objects!Go, Objects!TakeNumber, Objects!Weigh, Objects!AddNewTask,
              Objects!Moves, Objects!Out
  <1>3. \A x \in Clearer : at'[x] = at[x] \/ at'[x][1] \notin InClear
    <2>1. \A x \in Clearer : x \in Objects!Caller
      BY Named
    <2>. QED  BY <1>1, <1>2, <2>1
  <1>4. \A r \in Objects!Sched : \A i \in DOMAIN queue'[r] :
           queue'[r][i] \in Tasks => Counted(queue'[r][i][1])
    <2>1. CASE UNCHANGED queue
      BY <2>1 DEF PoolInv, GroupCounts
    <2>2. CASE Objects!AddNewTask(p)
      <3>1. PICK j \in fresh : queue' = [queue EXCEPT ![at[p][2]] = Append(@, j)]
        BY <2>2 DEF Objects!AddNewTask
      <3>2. j \in Objects!Job /\ j \notin Tasks
        BY <1>1, <3>1, Disjoint
      <3>. QED  BY <3>1, <3>2, Queued DEF PoolInv
    <2>. QED  BY <2>1, <2>2 DEF Objects!Go, Objects!TakeNumber, Objects!Weigh
  <1>5. GroupCounts'
    BY <1>1, <1>3, <1>4, CountsAlone, CountsMove DEF PoolInv
  <1>. QED  BY <1>1, <1>5, StacksAlone

LEMMA RunsKeeps ==
    ASSUME PoolInv, ManagerInv, UNCHANGED Objects!opVars,
           \/ \E s \in Objects!Sched : Objects!Resume(s) \/ Objects!LoopEnds(s)
           \/ \E u \in User : Objects!Pause(u) \/ Objects!Leave(u)
    PROVE  PoolInv'
  <1>1. /\ queue \in [Objects!Sched -> Seq(Objects!Job)]
        /\ onCpu \in [Objects!Sched -> Objects!Job \cup {None}]
    BY DEF ManagerInv, ManagerTypeOK, Objects!SmTypeOK
  <1>2. ASSUME NEW s \in Objects!Sched, Objects!Resume(s)
        PROVE  PoolInv'
    <2>1. /\ onCpu[s] = None /\ queue[s] # <<>>
          /\ onCpu' = [onCpu EXCEPT ![s] = Head(queue[s])]
          /\ queue' = [queue EXCEPT ![s] = Tail(@)]
          /\ UNCHANGED at
      BY <1>2 DEF Objects!Resume
    <2>2. /\ Len(queue[s]) \in Nat \ {0} /\ DOMAIN queue[s] = 1..Len(queue[s])
          /\ Head(queue[s]) = queue[s][1]
          /\ DOMAIN Tail(queue[s]) = 1..(Len(queue[s]) - 1)
          /\ \A i \in 1..(Len(queue[s]) - 1) : Tail(queue[s])[i] = queue[s][i + 1]
      <3>1. queue[s] \in Seq(Objects!Job)
        BY <1>1
      <3>2. Tail(queue[s]) \in Seq(Objects!Job) /\ Len(Tail(queue[s])) = Len(queue[s]) - 1
        BY <2>1, <3>1, HeadTailProperties
      <3>3. Len(queue[s]) # 0
        BY <2>1, <3>1, EmptySeq
      <3>. QED  BY <2>1, <3>1, <3>2, <3>3, HeadTailProperties, LenProperties
    <2>3. \A r \in Objects!Sched : onCpu'[r] = onCpu[r] \/ onCpu[r] \notin Tasks
      BY <1>1, <2>1, Disjoint
    <2>4. \A r \in Objects!Sched : \/ onCpu'[r] = onCpu[r]
                                   \/ onCpu'[r] \in Tasks => Counted(onCpu'[r][1])
      BY <1>1, <2>1, <2>2 DEF PoolInv, GroupCounts
    <2>5. \A r \in Objects!Sched : \A i \in DOMAIN queue'[r] :
             queue'[r][i] \in Tasks => Counted(queue'[r][i][1])
      <3> SUFFICES ASSUME NEW r \in Objects!Sched, NEW i \in DOMAIN queue'[r],
                          queue'[r][i] \in Tasks
                   PROVE  Counted(queue'[r][i][1])
        OBVIOUS
      <3>1. CASE r = s
        <4>1. queue'[r] = Tail(queue[s]) /\ i \in 1..(Len(queue[s]) - 1)
          BY <1>1, <2>1, <2>2, <3>1
        <4>2. i + 1 \in DOMAIN queue[s] /\ queue'[r][i] = queue[s][i + 1]
          BY <2>2, <4>1
        <4>. QED  BY <4>2 DEF PoolInv, GroupCounts
      <3>2. CASE r # s
        BY <1>1, <2>1, <3>2 DEF PoolInv, GroupCounts
      <3>. QED  BY <3>1, <3>2
    <2>6. GroupCounts'
      BY <2>1, <2>4, <2>5, CountsAlone, CountsMove DEF PoolInv
    <2>. QED  BY <2>3, <2>6, StacksAlone
  <1>3. ASSUME NEW s \in Objects!Sched, Objects!LoopEnds(s)
        PROVE  PoolInv'
    <2>1. UNCHANGED <<at, onCpu, queue>>
      BY <1>3 DEF Objects!LoopEnds
    <2>2. GroupCounts'
      BY <2>1, CountsAlone, CountsMove DEF PoolInv, GroupCounts
    <2>. QED  BY <2>1, <2>2, StacksAlone
  <1>4. ASSUME NEW u \in User, Objects!Pause(u) \/ Objects!Leave(u)
        PROVE  PoolInv'
    <2>0. PICK h : h = Objects!HomeOf(u)
      OBVIOUS
    <2>1. /\ Objects!Runs(u) /\ UNCHANGED at
          /\ onCpu' = [onCpu EXCEPT ![h] = None]
          /\ \/ queue' = queue
             \/ queue' = [queue EXCEPT ![h] = Append(@, u)]
      BY <1>4, <2>0 DEF Objects!Pause, Objects!Leave
    <2>2. onCpu[h] = u /\ u \notin Tasks /\ u \in Objects!Job
      BY <2>0, <2>1, Disjoint DEF Objects!Runs, Objects!HomeOf
    <2>3. \A r \in Objects!Sched : \/ onCpu'[r] = onCpu[r]
                                   \/ onCpu'[r] = None /\ onCpu[r] \notin Tasks
      BY <1>1, <2>1, <2>2
    <2>4. \A r \in Objects!Sched : \A i \in DOMAIN queue'[r] :
             queue'[r][i] \in Tasks => Counted(queue'[r][i][1])
      BY <2>1, <2>2, Queued DEF PoolInv, GroupCounts
    <2>5. GroupCounts'
      BY <2>1, <2>3, <2>4, Disjoint, CountsAlone, CountsMove DEF PoolInv
    <2>. QED  BY <2>3, <2>5, StacksAlone
  <1>. QED  BY <1>2, <1>3, <1>4

LEMMA StopKeeps ==
    ASSUME PoolInv, UNCHANGED Objects!opVars, Objects!StopStep
    PROVE  PoolInv'
  <1>1. UNCHANGED <<at, onCpu, queue>>
    BY DEF Objects!StopStep, Objects!StopBegins, Objects!StopFlag, Objects!StopWaited,
       Objects!StopDeletes, Objects!StopClears, Objects!StopEnds, Objects!loopVars
  <1>2. GroupCounts'
    BY <1>1, CountsAlone, CountsMove DEF PoolInv, GroupCounts
  <1>. QED  BY <1>1, <1>2, StacksAlone

(* The calls of clear() that do not touch a stack.                         *)
LEMMA ClearGoes ==
    ASSUME PoolInv, ManagerInv, NEW x \in Clearer,
           Objects!ClearGo(x) \/ Objects!ClearYield(x) \/ Objects!ClearReturns(x)
    PROVE  PoolInv'
  <1>1. /\ queue \in [Objects!Sched -> Seq(Objects!Job)]
        /\ onCpu \in [Objects!Sched -> Objects!Job \cup {None}]
        /\ at \in [Objects!Caller -> Stages \X Nat]
        /\ x \in Objects!Caller
        /\ \A y \in Clearer : y \in Objects!Caller
    BY Named DEF ManagerInv, ManagerTypeOK, Objects!SmTypeOK
  <1>2. UNCHANGED Objects!opVars
    BY DEF Objects!ClearGo, Objects!ClearYield, Objects!ClearReturns
  <1>3. CASE Objects!ClearGo(x)
    <2>1. PICK s : s = at[x][2]
      OBVIOUS
    <2>2. PICK j : j = <<x, s>>
      OBVIOUS
    <2>3. PICK to \in {<<"clear", s + 1>>, <<"wait", 0>>} : at' = [at EXCEPT ![x] = to]
      BY <1>3, <2>1 DEF Objects!ClearGo, Objects!Moves
    <2>4. /\ at[x][1] = "clear" /\ UNCHANGED onCpu
          /\ queue' = [queue EXCEPT ![s] = Append(@, j)]
      BY <1>3, <2>1, <2>2 DEF Objects!ClearGo, Objects!loopVars
    <2>5. to[1] # "cleared"
      BY <2>3
    <2>6. s \in Objects!Sched /\ j[1] = x /\ j \in Objects!Job /\ Counted(x)
      <3>1. s \in Objects!Sched
        BY <1>1, <2>1, <2>4 DEF ManagerInv, ManagerTypeOK
      <3>2. j \in Tasks
        BY <2>2, <3>1, Disjoint
      <3>. QED  BY <2>2, <2>4, <3>1, <3>2, Disjoint DEF PoolInv, GroupCounts, InClear
    <2>7. \A r \in Objects!Sched : \A i \in DOMAIN queue'[r] :
             queue'[r][i] \in Tasks => Counted(queue'[r][i][1])
      BY <2>4, <2>6, Queued DEF PoolInv
    <2>8. \A y \in Clearer : at'[y] = at[y] \/ (Counted(y) /\ at'[y][1] # "cleared")
      BY <1>1, <2>3, <2>5, <2>6
    <2>9. GroupCounts'
      BY <1>2, <2>4, <2>7, <2>8, CountsAlone, CountsMove DEF PoolInv
    <2>. QED  BY <1>2, <2>4, <2>9, StacksAlone
  <1>4. CASE Objects!ClearYield(x)
    <2>1. PICK h : h = Objects!HomeOf(x)
      OBVIOUS
    <2>2. PICK to : to = <<"wait", 1 + h>>
      OBVIOUS
    <2>3. /\ x \in User /\ Objects!Runs(x) /\ UNCHANGED queue /\ at[x] = <<"wait", 0>>
          /\ onCpu' = [onCpu EXCEPT ![h] = None]
          /\ at' = [at EXCEPT ![x] = to]
      BY <1>4, <2>1, <2>2 DEF Objects!ClearYield, Objects!Moves
    <2>4. onCpu[h] = x /\ x \notin Tasks
      BY <2>1, <2>3, Disjoint DEF Objects!Runs, Objects!HomeOf
    <2>5. \A r \in Objects!Sched : \/ onCpu'[r] = onCpu[r]
                                   \/ onCpu'[r] = None /\ onCpu[r] \notin Tasks
      BY <1>1, <2>3, <2>4
    <2>6. to[1] # "cleared" /\ Counted(x)
      BY <2>2, <2>3 DEF PoolInv, GroupCounts, InClear
    <2>7. \A y \in Clearer : at'[y] = at[y] \/ (Counted(y) /\ at'[y][1] # "cleared")
      BY <1>1, <2>3, <2>6
    <2>8. \A r \in Objects!Sched : \A i \in DOMAIN queue'[r] :
             queue'[r][i] \in Tasks => Counted(queue'[r][i][1])
      BY <2>3 DEF PoolInv, GroupCounts
    <2>9. GroupCounts'
      BY <1>2, <2>5, <2>7, <2>8, Disjoint, CountsAlone, CountsMove DEF PoolInv
    <2>. QED  BY <1>2, <2>5, <2>9, StacksAlone
  <1>5. CASE Objects!ClearReturns(x)
    <2>1. /\ at[x][1] = "wait" /\ todo[x] = 0 /\ UNCHANGED <<queue, onCpu>>
          /\ at' = [at EXCEPT ![x] = <<"cleared", 0>>]
      BY <1>5 DEF Objects!ClearReturns, Objects!Moves, Objects!loopVars
    <2>2. Counted(x)
      BY <2>1 DEF PoolInv, GroupCounts, InClear
    <2>3. \A y \in Clearer : at'[y] = at[y] \/ (Counted(y) /\ todo[y] = 0)
      BY <1>1, <2>1, <2>2
    <2>4. \A r \in Objects!Sched : \A i \in DOMAIN queue'[r] :
             queue'[r][i] \in Tasks => Counted(queue'[r][i][1])
      BY <2>1 DEF PoolInv, GroupCounts
    <2>5. GroupCounts'
      BY <1>2, <2>1, <2>3, <2>4, CountsAlone, CountsMove DEF PoolInv
    <2>. QED  BY <1>2, <2>1, <2>5, StacksAlone
  <1>. QED  BY <1>3, <1>4, <1>5

(* The slots of the stacks, one by one.                                    *)
LEMMA SlotsPresent ==
    ASSUME ObjectsTypeOK
    PROVE  /\ \A z : z \in Objects!AllSlots <=>
                        \E s \in Objects!Sched : \E k \in Nat : z = <<s, k>> /\ Present(s, k)
           /\ \A v : v \in Objects!Pooled <=>
                        \E s \in Objects!Sched : \E k \in Nat : Present(s, k) /\ v = mem[s][k]
  <1>1. ASSUME NEW s \in Objects!Sched, NEW k
        PROVE  k \in (1..size[s]) \ Objects!Walked(s) <=> k \in Nat /\ Present(s, k)
    <2>1. CASE k \in 1..size[s]
      <3>1. k \in Nat /\ \A t \in Tasks : walk[t][1] \in Nat
        BY <2>1 DEF ObjectsTypeOK
      <3>2. k \in Objects!Walked(s) <=> \E t \in Tasks : t[2] = s /\ 0 < walk[t][1] /\ k < walk[t][1]
        BY <2>1, Named DEF Objects!Walked
      <3>. QED  BY <2>1, <3>1, <3>2 DEF Present
    <2>. QED  BY <2>1 DEF Present
  <1>2. \A z : z \in Objects!AllSlots <=>
                  \E s \in Objects!Sched : \E k \in Nat : z = <<s, k>> /\ Present(s, k)
    <2>1. \A z : z \in Objects!AllSlots <=> \E s \in Objects!Sched : z \in Objects!Slots(s)
      BY DEF Objects!AllSlots
    <2>2. \A s \in Objects!Sched : \A z :
             z \in Objects!Slots(s) <=> \E k \in (1..size[s]) \ Objects!Walked(s) : z = <<s, k>>
      BY DEF Objects!Slots
    <2>3. ASSUME NEW s \in Objects!Sched, NEW z
          PROVE  z \in Objects!Slots(s) <=> \E k \in Nat : z = <<s, k>> /\ Present(s, k)
      BY <1>1, <2>2
    <2>. QED  BY <2>1, <2>3
  <1>3. ASSUME NEW v
        PROVE  v \in Objects!Pooled <=>
                  \E s \in Objects!Sched : \E k \in Nat : Present(s, k) /\ v = mem[s][k]
    <2>1. v \in Objects!Pooled <=> \E z \in Objects!AllSlots : v = mem[z[1]][z[2]]
      BY DEF Objects!Pooled
    <2>2. ASSUME NEW z \in Objects!AllSlots, v = mem[z[1]][z[2]]
          PROVE  \E s \in Objects!Sched : \E k \in Nat : Present(s, k) /\ v = mem[s][k]
      <3>1. PICK s \in Objects!Sched, k \in Nat : z = <<s, k>> /\ Present(s, k)
        BY <1>2
      <3>. QED  BY <2>2, <3>1
    <2>3. ASSUME NEW s \in Objects!Sched, NEW k \in Nat, Present(s, k), v = mem[s][k]
          PROVE  \E z \in Objects!AllSlots : v = mem[z[1]][z[2]]
      <3>1. PICK z : z = <<s, k>>
        OBVIOUS
      <3>2. z \in Objects!AllSlots
        BY <1>2, <2>3, <3>1
      <3>. QED  BY <2>3, <3>1, <3>2
    <2>. QED  BY <2>1, <2>2, <2>3
  <1>. QED  BY <1>2, <1>3

(* Nothing is walked where a coroutine of the user's runs, or nobody.      *)
LEMMA NoWalk ==
    ASSUME PoolInv, NEW s \in Objects!Sched, onCpu[s] \notin Tasks
    PROVE  /\ \A t \in Tasks : t[2] = s => walk[t][1] = 0
           /\ \A k : Present(s, k) <=> k \in 1..size[s]
  <1>1. ASSUME NEW t \in Tasks, t[2] = s
        PROVE  walk[t][1] = 0
    <2>1. walk[t] \in {<<0, 0>>, <<0, 1>>}
      BY <1>1 DEF PoolInv, WalksUndisturbed, Over
    <2>. QED  BY <2>1
  <1>. QED  BY <1>1 DEF Present

LEMMA CountsStill ==
    ASSUME PoolInv, UNCHANGED <<walk, todo, at, onCpu, queue>>
    PROVE  GroupCounts'
  <1>1. \A x : Counted(x)' <=> Counted(x)
    BY DEF Counted, OverTasks
  <1>. QED  BY <1>1 DEF PoolInv, GroupCounts

(* Where who uses the pool is.                                             *)
LEMMA AtHome ==
    ASSUME ManagerInv, NEW u \in User, Objects!Uses(u)
    PROVE  /\ Objects!HomeOf(u) \in Objects!Sched
           /\ onCpu[Objects!HomeOf(u)] = u
           /\ onCpu[Objects!HomeOf(u)] \notin Tasks
  BY Disjoint DEF Objects!Uses, Objects!Runs, Objects!HomeOf

LEMMA FreshObject ==
    ASSUME ObjectsTypeOK, Obj # made
    PROVE  Objects!Smallest(Obj \ made) \in Obj \ made
  <1>1. Obj \ made # {} /\ Obj \ made \subseteq Nat
    BY ObjectsAssumption DEF ObjectsTypeOK
  <1>. QED  BY <1>1, SmallestIn

(* pop() takes the top of the stack.                                       *)
LEMMA PopTakes ==
    ASSUME PoolInv, ManagerInv, NEW u \in User, Objects!pop(u),
           size[Objects!HomeOf(u)] > 0
    PROVE  PoolInv'
  <1>1. PICK h : h = Objects!HomeOf(u)
    OBVIOUS
  <1>2. PICK v : v = mem[h][size[h]]
    OBVIOUS
  <1>3. /\ held[u] = 0 /\ held' = [held EXCEPT ![u] = v]
        /\ size' = [size EXCEPT ![h] = @ - 1]
        /\ left' = [x \in Clearer |-> left[x] \ {held'[u]}]
        /\ UNCHANGED <<at, onCpu, queue, ccb, dcb, walk, todo, mem, made, dead, twice>>
    BY <1>1, <1>2 DEF Objects!pop, Objects!smVars, Objects!idleVars
  <1>4. h \in Objects!Sched /\ onCpu[h] \notin Tasks
    BY <1>1, AtHome DEF Objects!pop
  <1>5. /\ ObjectsTypeOK /\ WalksUndisturbed /\ Placed /\ LeftBehind
        /\ size[h] \in Nat \ {0} /\ held \in [User -> Obj \cup {0}]
        /\ size \in [Objects!Sched -> Nat]
    BY <1>1, <1>4 DEF PoolInv, ObjectsTypeOK
  <1>6. \A k : Present(h, k) <=> k \in 1..size[h]
    BY <1>4, NoWalk
  <1>7. /\ v \in made \ dead /\ v \in Obj /\ v # 0
        /\ \A w \in User : held[w] # v
    <2>1. Present(h, size[h]) /\ size[h] \in Nat
      BY <1>5, <1>6
    <2>2. v \in made \ dead /\ \A w \in User : held[w] # v
      BY <1>2, <1>4, <1>5, <2>1 DEF Placed, SlotsLive, Apart
    <2>. QED  BY <1>5, <2>2, ObjectsAssumption DEF ObjectsTypeOK
  <1>8. held'[u] = v /\ \A w \in User \ {u} : held'[w] = held[w]
    BY <1>3, <1>5
  <1>9. \A r \in Objects!Sched : \A k \in Nat :
           Present(r, k)' <=> Present(r, k) /\ ~ (r = h /\ k = size[h])
    <2> TAKE r \in Objects!Sched, k \in Nat
    <2>1. CASE r = h
      <3>1. Present(h, k)' <=> k \in 1..(size[h] - 1)
        <4>1. size'[h] = size[h] - 1
          BY <1>3, <1>4, <1>5
        <4>2. \A t \in Tasks : t[2] = h => walk'[t][1] = 0
          BY <1>3, <1>4, NoWalk
        <4>. QED  BY <4>1, <4>2 DEF Present
      <3>. QED  BY <1>5, <1>6, <2>1, <3>1
    <2>2. CASE r # h
      BY <1>3, <1>4, <1>5, <2>2 DEF Present
    <2>. QED  BY <2>1, <2>2
  <1>10. ObjectsTypeOK'
    <2>1. /\ size' \in [Objects!Sched -> Nat]
          /\ \A s \in Objects!Sched : size'[s] <= Len(mem[s])
      <3>1. \A s \in Objects!Sched : Len(mem[s]) \in Nat
        BY <1>5, LenProperties DEF ObjectsTypeOK
      <3>. QED  BY <1>3, <1>4, <1>5, <3>1 DEF ObjectsTypeOK
    <2>2. held' \in [User -> Obj \cup {0}] /\ left' \in [Clearer -> SUBSET made]
      BY <1>3, <1>5, <1>7 DEF ObjectsTypeOK
    <2>. QED  BY <1>3, <1>5, <2>1, <2>2 DEF ObjectsTypeOK
  <1>11. WalksUndisturbed'
    BY <1>3, <1>4, <1>5, WalksKept
  <1>12. Placed'
    <2>1. SlotsDiffer' /\ SlotsLive' /\ ~ twice'
      BY <1>3, <1>5, <1>9 DEF Placed, SlotsDiffer, SlotsLive
    <2>2. HandsDiffer' /\ HandsLive'
      BY <1>3, <1>5, <1>7, <1>8 DEF Placed, HandsDiffer, HandsLive
    <2>3. Apart'
      <3> SUFFICES ASSUME NEW s \in Objects!Sched, NEW k \in Nat, Present(s, k)', NEW w \in User
                   PROVE  held'[w] # mem[s][k]
        BY <1>3 DEF Apart
      <3>1. CASE w = u
        <4>1. Present(h, size[h]) /\ size[h] \in Nat
          BY <1>5, <1>6
        <4>2. Present(s, k) /\ ~ (s = h /\ k = size[h])
          BY <1>9
        <4>3. mem[s][k] # mem[h][size[h]]
          BY <1>4, <1>5, <4>1, <4>2 DEF Placed, SlotsDiffer
        <4>. QED  BY <1>2, <1>8, <3>1, <4>3
      <3>2. CASE w # u
        BY <1>5, <1>8, <1>9, <3>2 DEF Placed, Apart
      <3>. QED  BY <3>1, <3>2
    <2>4. NoneLost'
      <3> SUFFICES ASSUME dcb, NEW x \in made \ dead
                   PROVE  \/ \E w \in User : held'[w] = x
                          \/ \E s \in Objects!Sched : \E k \in Nat : Present(s, k)' /\ mem[s][k] = x
        BY <1>3 DEF NoneLost
      <3>1. CASE \E w \in User : held[w] = x
        <4>1. x # 0
          BY <1>5, ObjectsAssumption DEF ObjectsTypeOK
        <4>. QED  BY <1>3, <1>8, <3>1, <4>1
      <3>2. CASE \E s \in Objects!Sched : \E k \in Nat : Present(s, k) /\ mem[s][k] = x
        <4>1. PICK s \in Objects!Sched, k \in Nat : Present(s, k) /\ mem[s][k] = x
          BY <3>2
        <4>2. CASE s = h /\ k = size[h]
          BY <1>2, <1>8, <4>1, <4>2
        <4>3. CASE ~ (s = h /\ k = size[h])
          BY <1>9, <4>1, <4>3
        <4>. QED  BY <4>2, <4>3
      <3>. QED  BY <1>5, <3>1, <3>2 DEF Placed, NoneLost
    <2>. QED  BY <2>1, <2>2, <2>3, <2>4 DEF Placed
  <1>13. GroupCounts'
    BY <1>3, CountsStill
  <1>14. LeftBehind'
    <2> SUFFICES ASSUME NEW x \in Clearer
                 PROVE  /\ \A w \in User : held'[w] \notin left'[x]
                        /\ \A s \in OverTasks(x) : \A k \in Nat :
                              Present(s, k)' => mem[s][k] \notin left'[x]
      BY <1>3 DEF LeftBehind, OverTasks
    <2>1. left'[x] = left[x] \ {v}
      BY <1>3, <1>8
    <2>2. \A w \in User : held'[w] \notin left'[x]
      BY <1>5, <1>8, <2>1 DEF LeftBehind
    <2>3. \A s \in OverTasks(x) : \A k \in Nat : Present(s, k)' => mem[s][k] \notin left'[x]
      BY <1>5, <1>9, <2>1 DEF LeftBehind, OverTasks
    <2>. QED  BY <2>2, <2>3
  <1>. QED  BY <1>10, <1>11, <1>12, <1>13, <1>14 DEF PoolInv

(* pop() of an empty stack calls _ccb for a new object.                    *)
LEMMA PopMakes ==
    ASSUME PoolInv, ManagerInv, NEW u \in User, Objects!pop(u),
           ~ (size[Objects!HomeOf(u)] > 0)
    PROVE  PoolInv'
  <1>1. PICK v : v = Objects!Smallest(Obj \ made)
    OBVIOUS
  <1>2. /\ held[u] = 0 /\ Obj # made
        /\ held' = [held EXCEPT ![u] = v] /\ made' = made \cup {held'[u]}
        /\ UNCHANGED <<at, onCpu, queue, ccb, dcb, walk, todo, mem, size, dead, twice, left>>
    BY <1>1 DEF Objects!pop, Objects!smVars, Objects!idleVars
  <1>3. /\ ObjectsTypeOK /\ WalksUndisturbed /\ Placed /\ LeftBehind
        /\ held \in [User -> Obj \cup {0}]
        /\ made \subseteq Obj /\ dead \subseteq made /\ 0 \notin Obj
    BY ObjectsAssumption DEF PoolInv, ObjectsTypeOK
  <1>4. v \in Obj \ made
    BY <1>1, <1>2, <1>3, FreshObject
  <1>5. /\ held'[u] = v /\ \A w \in User \ {u} : held'[w] = held[w]
        /\ made' = made \cup {v}
    BY <1>2, <1>3
  <1>6. \A r, k : Present(r, k)' <=> Present(r, k)
    BY <1>2 DEF Present
  <1>7. ObjectsTypeOK'
    <2>1. held' \in [User -> Obj \cup {0}] /\ made' \subseteq Obj /\ dead \subseteq made'
      BY <1>2, <1>3, <1>4, <1>5
    <2>2. left \in [Clearer -> SUBSET made']
      BY <1>3, <1>5 DEF ObjectsTypeOK
    <2>. QED  BY <1>2, <1>3, <2>1, <2>2 DEF ObjectsTypeOK
  <1>8. WalksUndisturbed'
    BY <1>2, WalksKept
  <1>9. Placed'
    <2>1. SlotsDiffer' /\ SlotsLive' /\ ~ twice'
      BY <1>2, <1>3, <1>5, <1>6 DEF Placed, SlotsDiffer, SlotsLive
    <2>2. HandsDiffer' /\ HandsLive'
      BY <1>2, <1>3, <1>4, <1>5 DEF Placed, HandsDiffer, HandsLive
    <2>3. Apart'
      BY <1>2, <1>3, <1>4, <1>5, <1>6 DEF Placed, Apart, SlotsLive
    <2>4. NoneLost'
      <3> SUFFICES ASSUME dcb, NEW x \in made' \ dead
                   PROVE  \/ \E w \in User : held'[w] = x
                          \/ \E s \in Objects!Sched : \E k \in Nat : Present(s, k)' /\ mem[s][k] = x
        BY <1>2 DEF NoneLost
      <3>1. CASE x = v
        BY <1>5, <3>1
      <3>2. CASE x \in made \ dead
        <4>1. x # 0
          BY <1>3, <3>2
        <4>2. \/ \E w \in User : held[w] = x
              \/ \E s \in Objects!Sched : \E k \in Nat : Present(s, k) /\ mem[s][k] = x
          BY <1>3, <3>2 DEF Placed, NoneLost
        <4>. QED  BY <1>2, <1>5, <1>6, <4>1, <4>2
      <3>. QED  BY <1>5, <3>1, <3>2
    <2>. QED  BY <2>1, <2>2, <2>3, <2>4 DEF Placed
  <1>10. GroupCounts'
    BY <1>2, CountsStill
  <1>11. LeftBehind'
    <2>1. \A x \in Clearer : v \notin left[x]
      BY <1>3, <1>4 DEF ObjectsTypeOK
    <2>. QED  BY <1>2, <1>3, <1>5, <1>6, <2>1 DEF LeftBehind, OverTasks
  <1>. QED  BY <1>7, <1>8, <1>9, <1>10, <1>11 DEF PoolInv

(* What push() is given: in the caller's hand or new.                      *)
Given(u) == IF held[u] # 0 THEN held[u] ELSE Objects!Smallest(Obj \ made)

LEMMA GivenLive ==
    ASSUME PoolInv, NEW u \in User, held[u] # 0 \/ Obj # made
    PROVE  /\ Given(u) \in Obj /\ Given(u) # 0 /\ Given(u) \notin dead
           /\ \A w \in User \ {u} : held[w] # Given(u)
           /\ \A s \in Objects!Sched : \A k \in Nat : Present(s, k) => mem[s][k] # Given(u)
           /\ \A x \in Clearer : Given(u) \notin left[x]
  <1>1. /\ ObjectsTypeOK /\ Placed /\ LeftBehind
        /\ held \in [User -> Obj \cup {0}] /\ left \in [Clearer -> SUBSET made]
        /\ made \subseteq Obj /\ dead \subseteq made /\ 0 \notin Obj
    BY ObjectsAssumption DEF PoolInv, ObjectsTypeOK
  <1>2. CASE held[u] # 0
    <2>1. Given(u) = held[u]
      BY <1>2 DEF Given
    <2>. QED  BY <1>1, <1>2, <2>1 DEF Placed, HandsLive, HandsDiffer, Apart, LeftBehind
  <1>3. CASE held[u] = 0
    <2>1. Given(u) \in Obj \ made
      BY <1>1, <1>3, FreshObject DEF Given
    <2>2. \A w \in User : held[w] # Given(u)
      BY <1>1, <2>1 DEF Placed, HandsLive
    <2>3. \A s \in Objects!Sched : \A k \in Nat : Present(s, k) => mem[s][k] # Given(u)
      BY <1>1, <2>1 DEF Placed, SlotsLive
    <2>. QED  BY <1>1, <2>1, <2>2, <2>3
  <1>. QED  BY <1>2, <1>3

(* The memory p of a vector that keeps the first n of q, with v above.     *)
HasOnTop(p, q, n, v) ==
    /\ p \in Seq(Obj) /\ n + 1 <= Len(p)
    /\ p[n + 1] = v
    /\ \A k \in 1..n : p[k] = q[k]

(* The memory of a vector after push_back().                               *)
LEMMA PushedBack ==
    ASSUME NEW q \in Seq(Obj), NEW n \in Nat, n <= Len(q), NEW v \in Obj
    PROVE  HasOnTop(SubSeq(q, 1, n) \o <<v>> \o SubSeq(q, n + 2, Len(q)), q, n, v)
  <1> DEFINE l == SubSeq(q, 1, n)
             r == SubSeq(q, n + 2, Len(q))
             m == <<v>>
  <1>0. Len(q) \in Nat /\ \A k \in 1..Len(q) : q[k] \in Obj
    BY LenProperties, ElementOfSeq
  <1>1. l \in Seq(Obj) /\ Len(l) = n /\ \A k \in 1..n : l[k] = q[k]
    <2>1. \A k \in 1..n : q[k] \in Obj
      BY <1>0
    <2>2. /\ l \in Seq(Obj)
          /\ Len(l) = IF 1 <= n THEN n - 1 + 1 ELSE 0
          /\ \A k \in 1..(n - 1 + 1) : l[k] = q[1 + k - 1]
      BY <2>1, SubSeqProperties
    <2>. QED  BY <2>2
  <1>2. r \in Seq(Obj) /\ Len(r) \in Nat
    <2>1. \A k \in (n + 2)..Len(q) : q[k] \in Obj
      BY <1>0
    <2>2. r \in Seq(Obj)
      BY <1>0, <2>1, SubSeqProperties
    <2>. QED  BY <2>2, LenProperties
  <1>3. m \in Seq(Obj) /\ Len(m) = 1 /\ m[1] = v
    OBVIOUS
  <1> HIDE DEF l, r, m
  <1>4. /\ l \o m \in Seq(Obj) /\ Len(l \o m) = n + 1
        /\ (l \o m)[n + 1] = v
        /\ \A k \in 1..n : (l \o m)[k] = q[k]
    <2>1. /\ l \o m \in Seq(Obj) /\ Len(l \o m) = Len(l) + Len(m)
          /\ \A k \in 1..(Len(l) + Len(m)) : (l \o m)[k] = IF k <= Len(l) THEN l[k] ELSE m[k - Len(l)]
      BY <1>1, <1>3, ConcatProperties
    <2>. QED  BY <1>1, <1>3, <2>1
  <1> DEFINE lm == l \o m
  <1>5. /\ lm \in Seq(Obj) /\ Len(lm) = n + 1 /\ lm[n + 1] = v
        /\ \A k \in 1..n : lm[k] = q[k]
    BY <1>4
  <1> HIDE DEF lm
  <1>6. /\ lm \o r \in Seq(Obj) /\ n + 1 <= Len(lm \o r)
        /\ (lm \o r)[n + 1] = v
        /\ \A k \in 1..n : (lm \o r)[k] = q[k]
    <2>1. /\ lm \o r \in Seq(Obj) /\ Len(lm \o r) = Len(lm) + Len(r)
          /\ \A k \in 1..(Len(lm) + Len(r)) :
                (lm \o r)[k] = IF k <= Len(lm) THEN lm[k] ELSE r[k - Len(lm)]
      BY <1>2, <1>5, ConcatProperties
    <2>. QED  BY <1>2, <1>5, <2>1
  <1>7. HasOnTop(lm \o r, q, n, v)
    BY <1>6 DEF HasOnTop
  <1>. QED  BY <1>7 DEF lm, l, m, r

(* push() puts it on the stack.                                            *)
LEMMA PushStores ==
    ASSUME PoolInv, ManagerInv, NEW u \in User, Objects!push(u),
           size[Objects!HomeOf(u)] < MaxCap \/ ~ dcb
    PROVE  PoolInv'
  <1>1. PICK h : h = Objects!HomeOf(u)
    OBVIOUS
  <1>2. PICK v : v = Given(u)
    OBVIOUS
  <1>3. PICK p : p = SubSeq(mem[h], 1, size[h]) \o <<v>> \o SubSeq(mem[h], size[h] + 2, Len(mem[h]))
    OBVIOUS
  <1>4. /\ held[u] # 0 \/ Obj # made
        /\ held' = [held EXCEPT ![u] = 0] /\ made' = made \cup {v}
        /\ mem' = [mem EXCEPT ![h] = p]
        /\ size' = [size EXCEPT ![h] = @ + 1]
        /\ UNCHANGED <<at, onCpu, queue, ccb, dcb, walk, todo, dead, twice, left>>
    BY <1>1, <1>2, <1>3 DEF Objects!push, Objects!smVars, Objects!idleVars, Given
  <1>5. h \in Objects!Sched /\ onCpu[h] \notin Tasks
    BY <1>1, AtHome DEF Objects!push
  <1>6. /\ ObjectsTypeOK /\ WalksUndisturbed /\ Placed /\ LeftBehind
        /\ held \in [User -> Obj \cup {0}]
        /\ size \in [Objects!Sched -> Nat]
        /\ mem \in [Objects!Sched -> Seq(Obj)]
        /\ made \subseteq Obj /\ dead \subseteq made /\ 0 \notin Obj
    BY ObjectsAssumption DEF PoolInv, ObjectsTypeOK
  <1>7. /\ v \in Obj /\ v # 0 /\ v \notin dead
        /\ \A w \in User \ {u} : held[w] # v
        /\ \A s \in Objects!Sched : \A k \in Nat : Present(s, k) => mem[s][k] # v
        /\ \A x \in Clearer : v \notin left[x]
    BY <1>2, <1>4, GivenLive
  <1>8. /\ p \in Seq(Obj) /\ size[h] + 1 <= Len(p)
        /\ p[size[h] + 1] = v
        /\ \A k \in 1..size[h] : p[k] = mem[h][k]
    <2>1. PICK q, n : q = mem[h] /\ n = size[h]
      OBVIOUS
    <2>2. q \in Seq(Obj) /\ n \in Nat /\ n <= Len(q)
      BY <1>5, <1>6, <2>1 DEF ObjectsTypeOK
    <2>3. p = SubSeq(q, 1, n) \o <<v>> \o SubSeq(q, n + 2, Len(q))
      BY <1>3, <2>1
    <2>4. v \in Obj
      BY <1>7
    <2>5. HasOnTop(p, q, n, v)
      <3>1. HasOnTop(SubSeq(q, 1, n) \o <<v>> \o SubSeq(q, n + 2, Len(q)), q, n, v)
        BY ONLY <2>2, <2>4, PushedBack
      <3>. QED  BY ONLY <2>3, <3>1
    <2>6. /\ p \in Seq(Obj) /\ n + 1 <= Len(p)
          /\ p[n + 1] = v
          /\ \A k \in 1..n : p[k] = q[k]
      BY ONLY <2>5 DEF HasOnTop
    <2>. QED  BY <2>1, <2>6
  <1>9. held'[u] = 0 /\ \A w \in User \ {u} : held'[w] = held[w]
    BY <1>4, <1>6
  <1> DEFINE top == size[h] + 1
  <1>10. top \in Nat /\ ~ Present(h, top)
    BY <1>5, <1>6 DEF Present
  <1>11. \A r \in Objects!Sched : \A k \in Nat :
            Present(r, k)' <=> Present(r, k) \/ (r = h /\ k = top)
    <2> TAKE r \in Objects!Sched, k \in Nat
    <2>1. CASE r = h
      <3>1. Present(h, k)' <=> k \in 1..(size[h] + 1)
        <4>1. size'[h] = size[h] + 1
          BY <1>4, <1>5, <1>6
        <4>2. \A t \in Tasks : t[2] = h => walk'[t][1] = 0
          BY <1>4, <1>5, NoWalk
        <4>. QED  BY <4>1, <4>2 DEF Present
      <3>2. Present(h, k) <=> k \in 1..size[h]
        BY <1>5, NoWalk
      <3>. QED  BY <1>5, <1>6, <2>1, <3>1, <3>2
    <2>2. CASE r # h
      BY <1>4, <1>5, <1>6, <2>2 DEF Present
    <2>. QED  BY <2>1, <2>2
  <1>12. /\ \A r \in Objects!Sched : \A k \in Nat : Present(r, k) => mem'[r][k] = mem[r][k]
         /\ mem'[h][top] = v
    <2>1. ASSUME NEW r \in Objects!Sched, NEW k \in Nat, Present(r, k)
          PROVE  mem'[r][k] = mem[r][k]
      <3>1. CASE r = h
        <4>1. k \in 1..size[h] /\ mem'[h] = p
          BY <1>4, <1>5, <1>6, <2>1, <3>1 DEF Present
        <4>. QED  BY <1>8, <3>1, <4>1
      <3>2. CASE r # h
        BY <1>4, <1>5, <1>6, <3>2
      <3>. QED  BY <3>1, <3>2
    <2>2. mem'[h] = p
      BY <1>4, <1>5, <1>6
    <2>. QED  BY <1>8, <2>1, <2>2
  <1>13. ObjectsTypeOK'
    <2>1. /\ size' \in [Objects!Sched -> Nat] /\ mem' \in [Objects!Sched -> Seq(Obj)]
          /\ \A s \in Objects!Sched : size'[s] <= Len(mem'[s])
      <3>1. /\ size' \in [Objects!Sched -> Nat] /\ mem' \in [Objects!Sched -> Seq(Obj)]
        BY <1>4, <1>5, <1>6, <1>8
      <3>2. ASSUME NEW s \in Objects!Sched
            PROVE  size'[s] <= Len(mem'[s])
        <4>1. CASE s = h
          BY <1>4, <1>5, <1>6, <1>8, <4>1
        <4>2. CASE s # h
          BY <1>4, <1>5, <1>6, <4>2 DEF ObjectsTypeOK
        <4>. QED  BY <4>1, <4>2
      <3>. QED  BY <3>1, <3>2
    <2>2. held' \in [User -> Obj \cup {0}] /\ made' \subseteq Obj /\ dead \subseteq made'
      BY <1>4, <1>6, <1>7
    <2>3. left \in [Clearer -> SUBSET made']
      BY <1>4, <1>6 DEF ObjectsTypeOK
    <2>. QED  BY <1>4, <1>6, <2>1, <2>2, <2>3 DEF ObjectsTypeOK
  <1>14. WalksUndisturbed'
    <2>1. \A s \in Objects!Sched : \/ onCpu'[s] = onCpu[s] /\ size'[s] = size[s]
                                   \/ onCpu[s] \notin Tasks
      BY <1>4, <1>5, <1>6
    <2>. QED  BY <1>4, <2>1, WalksKept
  <1> HIDE DEF top
  <1>15. Placed'
    <2>1. SlotsDiffer'
      <3> SUFFICES ASSUME NEW s \in Objects!Sched, NEW r \in Objects!Sched, NEW k \in Nat, NEW l \in Nat,
                          Present(s, k)', Present(r, l)', mem'[s][k] = mem'[r][l]
                   PROVE  s = r /\ k = l
        BY DEF SlotsDiffer
      <3>1. CASE Present(s, k) /\ Present(r, l)
        BY <1>6, <1>12, <3>1 DEF Placed, SlotsDiffer
      <3>2. CASE Present(s, k) /\ r = h /\ l = top
        BY <1>7, <1>12, <3>2
      <3>3. CASE Present(r, l) /\ s = h /\ k = top
        BY <1>7, <1>12, <3>3
      <3>. QED  BY <1>11, <3>1, <3>2, <3>3
    <2>2. SlotsLive'
      <3> SUFFICES ASSUME NEW s \in Objects!Sched, NEW k \in Nat, Present(s, k)'
                   PROVE  mem'[s][k] \in made' \ dead
        BY <1>4 DEF SlotsLive
      <3>1. CASE Present(s, k)
        BY <1>4, <1>6, <1>12, <3>1 DEF Placed, SlotsLive
      <3>2. CASE s = h /\ k = top
        BY <1>4, <1>7, <1>12, <3>2
      <3>. QED  BY <1>11, <3>1, <3>2
    <2>3. HandsDiffer' /\ HandsLive' /\ ~ twice'
      BY <1>4, <1>6, <1>9 DEF Placed, HandsDiffer, HandsLive
    <2>4. Apart'
      <3> SUFFICES ASSUME NEW s \in Objects!Sched, NEW k \in Nat, Present(s, k)', NEW w \in User
                   PROVE  held'[w] # mem'[s][k]
        BY DEF Apart
      <3>1. CASE Present(s, k)
        <4>1. mem[s][k] \in made /\ held[w] # mem[s][k]
          BY <1>6, <3>1 DEF Placed, Apart, SlotsLive
        <4>. QED  BY <1>6, <1>9, <1>12, <3>1, <4>1
      <3>2. CASE s = h /\ k = top
        BY <1>7, <1>9, <1>12, <3>2
      <3>. QED  BY <1>11, <3>1, <3>2
    <2>5. NoneLost'
      <3> SUFFICES ASSUME dcb, NEW x \in made' \ dead
                   PROVE  \/ \E w \in User : held'[w] = x
                          \/ \E s \in Objects!Sched : \E k \in Nat : Present(s, k)' /\ mem'[s][k] = x
        BY <1>4 DEF NoneLost
      <3>1. CASE x = v
        BY <1>5, <1>10, <1>11, <1>12, <3>1
      <3>2. CASE x \in made \ dead /\ x # v
        <4>1. CASE \E w \in User : held[w] = x
          <5>1. PICK w \in User : held[w] = x
            BY <4>1
          <5>2. x # 0
            BY <1>6, <3>2
          <5>3. held[u] # 0 => v = held[u]
            BY <1>2 DEF Given
          <5>4. w # u
            BY <3>2, <5>1, <5>2, <5>3
          <5>. QED  BY <1>9, <5>1, <5>4
        <4>2. CASE \E s \in Objects!Sched : \E k \in Nat : Present(s, k) /\ mem[s][k] = x
          BY <1>11, <1>12, <4>2
        <4>. QED  BY <1>6, <3>2, <4>1, <4>2 DEF Placed, NoneLost
      <3>. QED  BY <1>4, <3>1, <3>2
    <2>. QED  BY <2>1, <2>2, <2>3, <2>4, <2>5 DEF Placed
  <1>16. GroupCounts'
    BY <1>4, CountsStill
  <1>17. LeftBehind'
    <2> SUFFICES ASSUME NEW x \in Clearer
                 PROVE  /\ \A w \in User : held'[w] \notin left[x]
                        /\ \A s \in OverTasks(x) : \A k \in Nat :
                              Present(s, k)' => mem'[s][k] \notin left[x]
      BY <1>4 DEF LeftBehind, OverTasks
    <2>1. \A w \in User : held'[w] \notin left[x]
      <3>1. 0 \notin left[x]
        BY <1>6 DEF ObjectsTypeOK
      <3>. QED  BY <1>6, <1>9, <3>1 DEF LeftBehind
    <2>2. ASSUME NEW s \in OverTasks(x), NEW k \in Nat, Present(s, k)'
          PROVE  mem'[s][k] \notin left[x]
      <3>1. s \in Objects!Sched
        BY DEF OverTasks
      <3>2. CASE Present(s, k)
        BY <1>6, <1>12, <3>1, <3>2 DEF LeftBehind
      <3>3. CASE s = h /\ k = top
        BY <1>7, <1>12, <3>3
      <3>. QED  BY <1>11, <2>2, <3>1, <3>2, <3>3
    <2>. QED  BY <2>1, <2>2
  <1>. QED  BY <1>13, <1>14, <1>15, <1>16, <1>17 DEF PoolInv

(* push() to a full pool destroys it.                                      *)
LEMMA PushDestroys ==
    ASSUME PoolInv, ManagerInv, NEW u \in User, Objects!push(u),
           ~ (size[Objects!HomeOf(u)] < MaxCap \/ ~ dcb)
    PROVE  PoolInv'
  <1>1. PICK v : v = Given(u)
    OBVIOUS
  <1>2. /\ held[u] # 0 \/ Obj # made
        /\ held' = [held EXCEPT ![u] = 0] /\ made' = made \cup {v}
        /\ dead' = dead \cup {v} /\ twice' = (twice \/ v \in dead)
        /\ UNCHANGED <<at, onCpu, queue, ccb, dcb, walk, todo, mem, size, left>>
    BY <1>1 DEF Objects!push, Objects!smVars, Objects!idleVars, Given, Objects!Destroy
  <1>3. /\ ObjectsTypeOK /\ WalksUndisturbed /\ Placed /\ LeftBehind
        /\ held \in [User -> Obj \cup {0}]
        /\ made \subseteq Obj /\ dead \subseteq made /\ 0 \notin Obj
    BY ObjectsAssumption DEF PoolInv, ObjectsTypeOK
  <1>4. /\ v \in Obj /\ v # 0 /\ v \notin dead
        /\ \A w \in User \ {u} : held[w] # v
        /\ \A s \in Objects!Sched : \A k \in Nat : Present(s, k) => mem[s][k] # v
        /\ \A x \in Clearer : v \notin left[x]
    BY <1>1, <1>2, GivenLive
  <1>5. held'[u] = 0 /\ \A w \in User \ {u} : held'[w] = held[w]
    BY <1>2, <1>3
  <1>6. \A r, k : Present(r, k)' <=> Present(r, k)
    BY <1>2 DEF Present
  <1>7. ObjectsTypeOK'
    <2>1. held' \in [User -> Obj \cup {0}] /\ made' \subseteq Obj /\ dead' \subseteq made'
      BY <1>2, <1>3, <1>4
    <2>2. left \in [Clearer -> SUBSET made']
      BY <1>2, <1>3 DEF ObjectsTypeOK
    <2>. QED  BY <1>2, <1>3, <2>1, <2>2 DEF ObjectsTypeOK
  <1>8. WalksUndisturbed'
    BY <1>2, WalksKept
  <1>9. Placed'
    <2>1. SlotsDiffer' /\ SlotsLive'
      BY <1>2, <1>3, <1>4, <1>6 DEF Placed, SlotsDiffer, SlotsLive
    <2>2. HandsDiffer' /\ HandsLive'
      BY <1>2, <1>3, <1>4, <1>5 DEF Placed, HandsDiffer, HandsLive
    <2>3. ~ twice'
      BY <1>2, <1>3, <1>4 DEF Placed
    <2>4. Apart'
      BY <1>2, <1>3, <1>4, <1>5, <1>6 DEF Placed, Apart, SlotsLive
    <2>5. NoneLost'
      <3> SUFFICES ASSUME dcb, NEW x \in made' \ dead'
                   PROVE  \/ \E w \in User : held'[w] = x
                          \/ \E s \in Objects!Sched : \E k \in Nat : Present(s, k)' /\ mem[s][k] = x
        BY <1>2 DEF NoneLost
      <3>1. x \in made \ dead /\ x # v /\ x # 0
        BY <1>2, <1>3
      <3>2. held[u] # 0 => v = held[u]
        BY <1>1 DEF Given
      <3>3. \/ \E w \in User : held[w] = x
            \/ \E s \in Objects!Sched : \E k \in Nat : Present(s, k) /\ mem[s][k] = x
        BY <1>3, <3>1 DEF Placed, NoneLost
      <3>. QED  BY <1>5, <1>6, <3>1, <3>2, <3>3
    <2>. QED  BY <2>1, <2>2, <2>3, <2>4, <2>5 DEF Placed
  <1>10. GroupCounts'
    BY <1>2, CountsStill
  <1>11. LeftBehind'
    <2>1. \A x \in Clearer : 0 \notin left[x]
      BY <1>3 DEF ObjectsTypeOK
    <2>. QED  BY <1>2, <1>3, <1>5, <1>6, <2>1 DEF LeftBehind, OverTasks
  <1>. QED  BY <1>7, <1>8, <1>9, <1>10, <1>11 DEF PoolInv

-----------------------------------------------------------------------------
(* clear()                                                                 *)

(* The tasks that are over are among as many as there are schedulers.      *)
LEMMA OverFinite ==
    ASSUME NEW x \in Clearer
    PROVE  /\ IsFiniteSet(OverTasks(x)) /\ Cardinality(OverTasks(x)) \in Nat
           /\ IsFiniteSet(Objects!Sched) /\ Cardinality(Objects!Sched) = Count
           /\ OverTasks(x) \subseteq Objects!Sched
           /\ Cardinality(OverTasks(x)) = 0 <=> OverTasks(x) = {}
  <1>1. IsFiniteSet(Objects!Sched) /\ Cardinality(Objects!Sched) = Count
    <2>1. Count \in Nat \ {0} /\ Objects!Sched = 0..(Count - 1)
      BY Named
    <2>. QED  BY <2>1, FS_Interval
  <1>2. OverTasks(x) \subseteq Objects!Sched
    BY DEF OverTasks
  <1>3. IsFiniteSet(OverTasks(x))
    BY <1>1, <1>2, FS_Subset
  <1>. QED  BY <1>1, <1>2, <1>3, FS_CardinalityType, FS_EmptySet

LEMMA ClearBegins ==
    ASSUME PoolInv, ManagerInv, NEW x \in Clearer, Objects!Clear(x)
    PROVE  PoolInv'
  <1>1. /\ todo[x] = Count /\ at' = [at EXCEPT ![x] = <<"clear", 0>>]
        /\ left' = [left EXCEPT ![x] = Objects!Pooled]
        /\ UNCHANGED <<onCpu, queue, ccb, dcb, walk, todo, mem, size, held, made, dead, twice>>
    BY DEF Objects!Clear, Objects!Moves, Objects!loopVars, Objects!idleVars
  <1>2. /\ ObjectsTypeOK /\ WalksUndisturbed /\ Placed /\ LeftBehind /\ GroupCounts
        /\ left \in [Clearer -> SUBSET made] /\ todo \in [Clearer -> Nat]
        /\ at \in [Objects!Caller -> Stages \X Nat]
        /\ \A y \in Clearer : y \in Objects!Caller
        /\ Count \in Nat \ {0}
    BY Named DEF PoolInv, ObjectsTypeOK, ManagerInv, ManagerTypeOK
  <1>3. Counted(x) /\ OverTasks(x) = {}
    <2>1. Counted(x)
      BY <1>1, <1>2 DEF GroupCounts
    <2>2. Count + Cardinality(OverTasks(x)) = Count
      BY <1>1, <2>1 DEF Counted
    <2>. QED  BY <1>2, <2>1, <2>2, OverFinite
  <1>4. \A r, k : Present(r, k)' <=> Present(r, k)
    BY <1>1 DEF Present
  <1>5. Objects!Pooled \subseteq made /\ \A w \in User : held[w] \notin Objects!Pooled
    BY <1>2, SlotsPresent DEF Placed, SlotsLive, Apart
  <1>6. ObjectsTypeOK'
    BY <1>1, <1>2, <1>5 DEF ObjectsTypeOK
  <1>7. WalksUndisturbed'
    BY <1>1, WalksKept
  <1>8. Placed'
    <2>1. UNCHANGED <<held, mem, made, dead, dcb, twice>>
      BY <1>1
    <2>2. SlotsDiffer' /\ Apart' /\ SlotsLive'
      BY <1>2, <1>4, <2>1 DEF Placed, SlotsDiffer, Apart, SlotsLive
    <2>3. HandsDiffer' /\ HandsLive'
      BY <1>2, <2>1 DEF Placed, HandsDiffer, HandsLive
    <2>4. NoneLost'
      BY <1>2, <1>4, <2>1 DEF Placed, NoneLost
    <2>. QED  BY <1>2, <2>1, <2>2, <2>3, <2>4 DEF Placed
  <1>9. GroupCounts'
    <2>1. \A y \in Clearer : Counted(y)' <=> Counted(y)
      BY <1>1 DEF Counted, OverTasks
    <2>2. \A y \in Clearer : at'[y] = at[y] \/ (Counted(y) /\ at'[y][1] # "cleared")
      BY <1>1, <1>2, <1>3
    <2>3. \A r \in Objects!Sched : \A i \in DOMAIN queue'[r] :
             queue'[r][i] \in Tasks => Counted(queue'[r][i][1])
      BY <1>1, <1>2 DEF GroupCounts
    <2>. QED  BY <1>1, <1>2, <2>1, <2>2, <2>3, CountsMove
  <1>10. LeftBehind'
    <2>1. \A y \in Clearer : left'[y] = IF y = x THEN Objects!Pooled ELSE left[y]
      BY <1>1, <1>2
    <2>. QED  BY <1>1, <1>2, <1>3, <1>4, <1>5, <2>1 DEF LeftBehind, OverTasks
  <1>. QED  BY <1>6, <1>7, <1>8, <1>9, <1>10 DEF PoolInv

LEMMA ClearEnds ==
    ASSUME PoolInv, ManagerInv, NEW x \in Clearer, Objects!Cleared(x)
    PROVE  PoolInv'
  <1>1. /\ at' = [at EXCEPT ![x] = <<"out", 0>>]
        /\ left' = [left EXCEPT ![x] = {}]
        /\ UNCHANGED <<onCpu, queue, ccb, dcb, walk, todo, mem, size, held, made, dead, twice>>
    BY DEF Objects!Cleared, Objects!Moves, Objects!loopVars, Objects!idleVars, Objects!Out
  <1>2. /\ ObjectsTypeOK /\ WalksUndisturbed /\ Placed /\ LeftBehind /\ GroupCounts
        /\ left \in [Clearer -> SUBSET made]
        /\ at \in [Objects!Caller -> Stages \X Nat]
        /\ \A y \in Clearer : y \in Objects!Caller
    BY Named DEF PoolInv, ObjectsTypeOK, ManagerInv, ManagerTypeOK
  <1>3. \A r, k : Present(r, k)' <=> Present(r, k)
    BY <1>1 DEF Present
  <1>4. ObjectsTypeOK'
    BY <1>1, <1>2 DEF ObjectsTypeOK
  <1>5. WalksUndisturbed'
    BY <1>1, WalksKept
  <1>6. Placed'
    BY <1>1, <1>2, <1>3
       DEF Placed, SlotsDiffer, HandsDiffer, Apart, SlotsLive, HandsLive, NoneLost
  <1>7. GroupCounts'
    <2>1. \A y \in Clearer : Counted(y)' <=> Counted(y)
      BY <1>1 DEF Counted, OverTasks
    <2>2. \A y \in Clearer : at'[y] = at[y] \/ at'[y][1] \notin InClear
      BY <1>1, <1>2 DEF InClear
    <2>3. \A r \in Objects!Sched : \A i \in DOMAIN queue'[r] :
             queue'[r][i] \in Tasks => Counted(queue'[r][i][1])
      BY <1>1, <1>2 DEF GroupCounts
    <2>. QED  BY <1>1, <1>2, <2>1, <2>2, <2>3, CountsMove
  <1>8. LeftBehind'
    <2>1. \A y \in Clearer : left'[y] = IF y = x THEN {} ELSE left[y]
      BY <1>1, <1>2
    <2>. QED  BY <1>1, <1>2, <1>3, <2>1 DEF LeftBehind, OverTasks
  <1>. QED  BY <1>4, <1>5, <1>6, <1>7, <1>8 DEF PoolInv

(* A task takes the end of its stack, to destroy what is before it.        *)
LEMMA WalkBegins ==
    ASSUME PoolInv, NEW t \in Tasks, Objects!TaskBegins(t)
    PROVE  PoolInv'
  <1>1. PICK e : e = <<1, IF dcb THEN size[t[2]] ELSE 0>>
    OBVIOUS
  <1>2. /\ onCpu[t[2]] = t /\ walk[t] = <<0, 0>>
        /\ walk' = [walk EXCEPT ![t] = e]
        /\ UNCHANGED <<at, onCpu, queue, dcb, mem, size, todo, held, made, dead, twice, left>>
    BY <1>1 DEF Objects!TaskBegins, Objects!Works, Objects!smVars
  <1>3. /\ ObjectsTypeOK /\ WalksUndisturbed /\ Placed /\ LeftBehind /\ GroupCounts
        /\ walk \in [Tasks -> Nat \X Nat]
        /\ t[2] \in Objects!Sched /\ size[t[2]] \in Nat
    BY Disjoint DEF PoolInv, ObjectsTypeOK
  <1>4. /\ e \in Nat \X Nat /\ e[1] = 1 /\ e[2] = IF dcb THEN size[t[2]] ELSE 0
        /\ e # <<0, 0>> /\ e # Over
    BY <1>1, <1>3 DEF Over
  <1>5. walk[t][1] = 0 /\ walk[t] # Over
    BY <1>2 DEF Over
  <1>6. walk'[t] = e /\ \A y \in Tasks \ {t} : walk'[y] = walk[y]
    BY <1>2, <1>3
  <1>7. \A r, k : Present(r, k)' <=> Present(r, k)
    <2> TAKE r, k
    <2>1. CASE k \in 1..size[r]
      <3>1. \A y \in Tasks : walk'[y][1] = 0 \/ walk'[y][1] <= k <=> walk[y][1] = 0 \/ walk[y][1] <= k
        BY <1>4, <1>5, <1>6, <2>1
      <3>. QED  BY <1>2, <3>1 DEF Present
    <2>2. CASE k \notin 1..size[r]
      BY <1>2, <2>2 DEF Present
    <2>. QED  BY <2>1, <2>2
  <1>8. \A y \in Clearer : OverTasks(y)' = OverTasks(y)
    <2>1. \A y \in Tasks : walk'[y] = Over <=> walk[y] = Over
      BY <1>4, <1>5, <1>6
    <2>2. \A y \in Clearer : \A s \in Objects!Sched : <<y, s>> \in Tasks
      BY Disjoint
    <2>. QED  BY <2>1, <2>2 DEF OverTasks, Over
  <1>9. ObjectsTypeOK'
    BY <1>2, <1>3, <1>4 DEF ObjectsTypeOK
  <1>10. WalksUndisturbed'
    <2> SUFFICES ASSUME NEW y \in Tasks
                 PROVE  \/ walk'[y] \in {<<0, 0>>, Over}
                        \/ /\ onCpu[y[2]] = y
                           /\ walk'[y][2] = IF dcb THEN size[y[2]] ELSE 0
                           /\ walk'[y][1] \in 1..(walk'[y][2] + 1)
      BY <1>2 DEF WalksUndisturbed, Over
    <2>1. CASE y = t
      BY <1>2, <1>3, <1>4, <1>6, <2>1
    <2>2. CASE y # t
      BY <1>3, <1>6, <2>2 DEF WalksUndisturbed
    <2>. QED  BY <2>1, <2>2
  <1>11. Placed'
    BY <1>2, <1>3, <1>7
       DEF Placed, SlotsDiffer, HandsDiffer, Apart, SlotsLive, HandsLive, NoneLost
  <1>12. GroupCounts'
    <2>1. \A y \in Clearer : Counted(y)' <=> Counted(y)
      BY <1>2, <1>8 DEF Counted
    <2>2. \A r \in Objects!Sched : \A i \in DOMAIN queue'[r] :
             queue'[r][i] \in Tasks => Counted(queue'[r][i][1])
      BY <1>2, <1>3 DEF GroupCounts
    <2>. QED  BY <1>2, <1>3, <2>1, <2>2, CountsMove
  <1>13. LeftBehind'
    BY <1>2, <1>3, <1>7, <1>8 DEF LeftBehind
  <1>. QED  BY <1>9, <1>10, <1>11, <1>12, <1>13 DEF PoolInv

(* It destroys one object and goes on to the next, if _dcb does not yield. *)
LEMMA WalkDestroys ==
    ASSUME PoolInv, Yields = {FALSE}, NEW t \in Tasks, Objects!TaskDestroys(t)
    PROVE  PoolInv'
  <1>1. PICK s, i, v : s = t[2] /\ i = walk[t][1] /\ v = mem[s][i]
    OBVIOUS
  <1>2. /\ onCpu[s] = t /\ i \in 1..walk[t][2]
        /\ dead' = dead \cup {v} /\ twice' = (twice \/ v \in dead)
        /\ walk' = [walk EXCEPT ![t][1] = @ + 1]
        /\ UNCHANGED <<at, onCpu, queue, dcb, mem, size, todo, held, made, left>>
    BY <1>1 DEF Objects!TaskDestroys, Objects!Works, Objects!Destroy, Objects!smVars
  <1>3. /\ ObjectsTypeOK /\ WalksUndisturbed /\ Placed /\ LeftBehind /\ GroupCounts
        /\ walk \in [Tasks -> Nat \X Nat]
        /\ made \subseteq Obj /\ dead \subseteq made /\ 0 \notin Obj
        /\ s \in Objects!Sched /\ size[s] \in Nat
    BY <1>1, Disjoint, ObjectsAssumption DEF PoolInv, ObjectsTypeOK
  <1>4. dcb /\ walk[t][2] = size[s] /\ i \in 1..size[s]
    <2>1. walk[t] # <<0, 0>> /\ walk[t] # <<0, 1>>
      BY <1>1, <1>2
    <2>2. walk[t][2] = IF dcb THEN size[s] ELSE 0
      BY <1>1, <1>3, <2>1 DEF WalksUndisturbed, Over
    <2>. QED  BY <1>2, <2>2
  <1>5. /\ walk'[t][1] = i + 1 /\ walk'[t][2] = walk[t][2]
        /\ walk'[t] \in Nat \X Nat
        /\ \A y \in Tasks \ {t} : walk'[y] = walk[y]
    BY <1>1, <1>2, <1>3
  <1>6. ASSUME NEW y \in Tasks, y # t, y[2] = s
        PROVE  walk[y][1] = 0
    <2>1. walk[y] \in {<<0, 0>>, <<0, 1>>}
      BY <1>2, <1>3, <1>6 DEF WalksUndisturbed, Over
    <2>. QED  BY <2>1
  <1>7. Present(s, i)
    <2>1. \A y \in Tasks : y[2] = s => walk[y][1] = 0 \/ walk[y][1] <= i
      BY <1>1, <1>4, <1>6
    <2>. QED  BY <1>4, <2>1 DEF Present
  <1>8. \A r \in Objects!Sched : \A k \in Nat :
           Present(r, k)' <=> Present(r, k) /\ ~ (r = s /\ k = i)
    <2> TAKE r \in Objects!Sched, k \in Nat
    <2>1. CASE r = s
      <3>1. Present(s, k)' <=> k \in 1..size[s] /\ i + 1 <= k
        BY <1>1, <1>2, <1>4, <1>5, <1>6 DEF Present
      <3>2. Present(s, k) <=> k \in 1..size[s] /\ i <= k
        BY <1>1, <1>2, <1>4, <1>6 DEF Present
      <3>. QED  BY <1>4, <2>1, <3>1, <3>2
    <2>2. CASE r # s
      <3>1. \A y \in Tasks : y[2] = r => walk'[y] = walk[y]
        BY <1>1, <1>5, <2>2
      <3>. QED  BY <1>2, <2>2, <3>1 DEF Present
    <2>. QED  BY <2>1, <2>2
  <1>9. v \in made \ dead /\ \A w \in User : held[w] # v
    BY <1>1, <1>3, <1>4, <1>7 DEF Placed, SlotsLive, Apart
  <1>10. \A y \in Clearer : OverTasks(y)' = OverTasks(y)
    <2>1. walk'[t] # <<0, 1>> /\ walk[t] # <<0, 1>>
      BY <1>1, <1>4, <1>5
    <2>2. \A y \in Tasks : walk'[y] = <<0, 1>> <=> walk[y] = <<0, 1>>
      BY <1>5, <2>1
    <2>3. \A y \in Clearer : \A r \in Objects!Sched : <<y, r>> \in Tasks
      BY Disjoint
    <2>. QED  BY <2>2, <2>3 DEF OverTasks, Over
  <1>11. ObjectsTypeOK'
    <2>1. walk' \in [Tasks -> Nat \X Nat]
      BY <1>2, <1>3, <1>4
    <2>2. dead' \subseteq made
      BY <1>2, <1>3, <1>9
    <2>. QED  BY <1>2, <1>3, <2>1, <2>2 DEF ObjectsTypeOK
  <1>12. WalksUndisturbed'
    <2> SUFFICES ASSUME NEW y \in Tasks
                 PROVE  \/ walk'[y] \in {<<0, 0>>, Over}
                        \/ /\ onCpu[y[2]] = y
                           /\ walk'[y][2] = IF dcb THEN size[y[2]] ELSE 0
                           /\ walk'[y][1] \in 1..(walk'[y][2] + 1)
      BY <1>2 DEF WalksUndisturbed, Over
    <2>1. CASE y = t
      BY <1>1, <1>2, <1>3, <1>4, <1>5, <2>1
    <2>2. CASE y # t
      BY <1>3, <1>5, <2>2 DEF WalksUndisturbed
    <2>. QED  BY <2>1, <2>2
  <1>13. Placed'
    <2>1. SlotsDiffer' /\ Apart'
      BY <1>2, <1>3, <1>8 DEF Placed, SlotsDiffer, Apart
    <2>2. SlotsLive'
      <3> SUFFICES ASSUME NEW r \in Objects!Sched, NEW k \in Nat, Present(r, k)'
                   PROVE  mem[r][k] \in made \ dead'
        BY <1>2 DEF SlotsLive
      <3>1. Present(r, k) /\ ~ (r = s /\ k = i)
        BY <1>8
      <3>2. mem[r][k] # v
        BY <1>1, <1>3, <1>4, <1>7, <3>1 DEF Placed, SlotsDiffer
      <3>. QED  BY <1>2, <1>3, <3>1, <3>2 DEF Placed, SlotsLive
    <2>3. HandsDiffer' /\ HandsLive' /\ ~ twice'
      BY <1>2, <1>3, <1>9 DEF Placed, HandsDiffer, HandsLive
    <2>4. NoneLost'
      <3> SUFFICES ASSUME NEW x \in made \ dead'
                   PROVE  \/ \E w \in User : held[w] = x
                          \/ \E r \in Objects!Sched : \E k \in Nat : Present(r, k)' /\ mem[r][k] = x
        BY <1>2 DEF NoneLost
      <3>1. x \in made \ dead /\ x # v
        BY <1>2
      <3>. QED  BY <1>1, <1>3, <1>4, <1>8, <3>1 DEF Placed, NoneLost
    <2>. QED  BY <2>1, <2>2, <2>3, <2>4 DEF Placed
  <1>14. GroupCounts'
    <2>1. \A y \in Clearer : Counted(y)' <=> Counted(y)
      BY <1>2, <1>10 DEF Counted
    <2>2. \A r \in Objects!Sched : \A k \in DOMAIN queue'[r] :
             queue'[r][k] \in Tasks => Counted(queue'[r][k][1])
      BY <1>2, <1>3 DEF GroupCounts
    <2>. QED  BY <1>2, <1>3, <2>1, <2>2, CountsMove
  <1>15. LeftBehind'
    <2> SUFFICES ASSUME NEW x \in Clearer
                 PROVE  /\ \A w \in User : held[w] \notin left[x]
                        /\ \A r \in OverTasks(x) : \A k \in Nat :
                              Present(r, k)' => mem[r][k] \notin left[x]
      BY <1>2, <1>10 DEF LeftBehind
    <2>. QED  BY <1>3, <1>8 DEF LeftBehind, OverTasks
  <1>. QED  BY <1>11, <1>12, <1>13, <1>14, <1>15 DEF PoolInv

(* The walk is over and the stack empty; the wait group counts one less.   *)
LEMMA WalkEnds ==
    ASSUME PoolInv, ManagerInv, NEW t \in Tasks, Objects!TaskEnds(t)
    PROVE  PoolInv'
  <1>1. PICK s, x : s = t[2] /\ x = t[1]
    OBVIOUS
  <1>2. /\ onCpu[s] = t /\ walk[t][1] > walk[t][2]
        /\ size' = [size EXCEPT ![s] = 0]
        /\ walk' = [walk EXCEPT ![t] = <<0, 1>>]
        /\ todo' = [todo EXCEPT ![x] = @ - 1]
        /\ onCpu' = [onCpu EXCEPT ![s] = None]
        /\ \/ queue' = queue
           \/ /\ queue' = [queue EXCEPT ![at[x][2] - 1] = Append(@, x)]
              /\ at[x][1] = "wait" /\ at[x][2] > 0
        /\ UNCHANGED <<at, dcb, mem, held, made, dead, twice, left>>
    BY <1>1 DEF Objects!TaskEnds, Objects!Works
  <1>3. /\ ObjectsTypeOK /\ WalksUndisturbed /\ Placed /\ LeftBehind /\ GroupCounts
        /\ walk \in [Tasks -> Nat \X Nat] /\ size \in [Objects!Sched -> Nat]
        /\ todo \in [Clearer -> Nat]
        /\ onCpu \in [Objects!Sched -> Objects!Job \cup {None}]
        /\ s \in Objects!Sched /\ x \in Clearer /\ t = <<x, s>> /\ x \notin Tasks
    BY <1>1, Disjoint
       DEF PoolInv, ObjectsTypeOK, ManagerInv, ManagerTypeOK, Objects!SmTypeOK
  <1>4. /\ walk[t][2] = IF dcb THEN size[s] ELSE 0
        /\ walk[t][1] = walk[t][2] + 1
        /\ walk[t] # Over
    <2>1. walk[t][1] \in Nat /\ walk[t][2] \in Nat
      BY <1>3
    <2>2. walk[t] # <<0, 0>> /\ walk[t] # <<0, 1>>
      BY <1>2
    <2>3. /\ walk[t][2] = IF dcb THEN size[s] ELSE 0
          /\ walk[t][1] \in 1..(walk[t][2] + 1)
      BY <1>1, <1>3, <2>2 DEF WalksUndisturbed, Over
    <2>. QED  BY <1>2, <2>1, <2>2, <2>3 DEF Over
  <1>5. /\ walk'[t] = <<0, 1>> /\ \A y \in Tasks \ {t} : walk'[y] = walk[y]
        /\ size'[s] = 0 /\ \A r \in Objects!Sched \ {s} : size'[r] = size[r]
        /\ onCpu'[s] = None /\ \A r \in Objects!Sched \ {s} : onCpu'[r] = onCpu[r]
    BY <1>2, <1>3
  <1>6. dcb => \A k \in Nat : ~ Present(s, k)
    <2> SUFFICES ASSUME dcb, NEW k \in Nat, Present(s, k)
                 PROVE  FALSE
      OBVIOUS
    <2>1. k \in 1..size[s] /\ (walk[t][1] = 0 \/ walk[t][1] <= k)
      BY <1>1 DEF Present
    <2>. QED  BY <1>3, <1>4, <2>1
  <1>7. \A r \in Objects!Sched : \A k \in Nat : Present(r, k)' <=> Present(r, k) /\ r # s
    <2> TAKE r \in Objects!Sched, k \in Nat
    <2>1. CASE r = s
      BY <1>5, <2>1 DEF Present
    <2>2. CASE r # s
      <3>1. \A y \in Tasks : y[2] = r => walk'[y] = walk[y]
        BY <1>1, <1>5, <2>2
      <3>. QED  BY <1>5, <2>2, <3>1 DEF Present
    <2>. QED  BY <2>1, <2>2
  <1>8. /\ s \notin OverTasks(x) /\ OverTasks(x)' = OverTasks(x) \cup {s}
        /\ \A y \in Clearer \ {x} : OverTasks(y)' = OverTasks(y)
    <2>1. \A y \in Clearer : \A r \in Objects!Sched :
             <<y, r>> \in Tasks /\ (<<y, r>> = t <=> y = x /\ r = s)
      BY <1>3, Disjoint
    <2>2. \A y \in Clearer : \A r \in Objects!Sched :
             walk'[<<y, r>>] = Over <=> walk[<<y, r>>] = Over \/ (y = x /\ r = s)
      BY <1>5, <2>1 DEF Over
    <2>. QED  BY <1>3, <1>4, <2>2 DEF OverTasks, Over
  <1>9. /\ todo[x] \in Nat \ {0} /\ todo' \in [Clearer -> Nat] /\ todo'[x] = todo[x] - 1
        /\ \A y \in Clearer \ {x} : todo'[y] = todo[y]
        /\ Counted(x) /\ Counted(x)'
    <2>1. Counted(x)
      BY <1>1, <1>2, <1>3 DEF GroupCounts
    <2>2. /\ Cardinality(OverTasks(x)) \in Nat
          /\ Cardinality(OverTasks(x) \cup {s}) = Cardinality(OverTasks(x)) + 1
      BY <1>3, <1>8, OverFinite, FS_AddElement
    <2>3. Cardinality(OverTasks(x) \cup {s}) <= Count
      <3>1. OverTasks(x) \cup {s} \subseteq Objects!Sched
        BY <1>3 DEF OverTasks
      <3>2. IsFiniteSet(Objects!Sched) /\ Cardinality(Objects!Sched) = Count
        BY <1>3, OverFinite
      <3>. QED  BY <3>1, <3>2, FS_Subset
    <2>4. todo[x] + Cardinality(OverTasks(x)) = Count
      BY <2>1 DEF Counted
    <2>5. Count \in Nat /\ todo[x] \in Nat
      BY <1>3, Named
    <2>6. todo[x] \in Nat \ {0}
      BY <2>2, <2>3, <2>4, <2>5
    <2>7. todo' \in [Clearer -> Nat] /\ todo'[x] = todo[x] - 1
          /\ \A y \in Clearer \ {x} : todo'[y] = todo[y]
      BY <1>2, <1>3, <2>6
    <2>8. Counted(x)'
      BY <1>8, <2>2, <2>4, <2>5, <2>7 DEF Counted
    <2>. QED  BY <2>1, <2>6, <2>7, <2>8
  <1>10. ObjectsTypeOK'
    <2>1. /\ walk' \in [Tasks -> Nat \X Nat] /\ size' \in [Objects!Sched -> Nat]
      BY <1>2, <1>3
    <2>2. \A r \in Objects!Sched : Len(mem[r]) \in Nat /\ size'[r] <= Len(mem[r])
      <3>1. \A r \in Objects!Sched : Len(mem[r]) \in Nat /\ size[r] <= Len(mem[r])
        BY <1>3, LenProperties DEF ObjectsTypeOK
      <3>. QED  BY <1>5, <3>1
    <2>. QED  BY <1>2, <1>3, <1>9, <2>1, <2>2 DEF ObjectsTypeOK
  <1>11. WalksUndisturbed'
    <2> SUFFICES ASSUME NEW y \in Tasks, walk'[y] \notin {<<0, 0>>, Over}
                 PROVE  /\ onCpu'[y[2]] = y
                        /\ walk'[y][2] = IF dcb THEN size'[y[2]] ELSE 0
                        /\ walk'[y][1] \in 1..(walk'[y][2] + 1)
      BY <1>2 DEF WalksUndisturbed, Over
    <2>1. y # t
      BY <1>5 DEF Over
    <2>2. /\ onCpu[y[2]] = y /\ y[2] \in Objects!Sched
          /\ walk[y][2] = IF dcb THEN size[y[2]] ELSE 0
          /\ walk[y][1] \in 1..(walk[y][2] + 1)
      BY <1>3, <1>5, <2>1, Disjoint DEF WalksUndisturbed
    <2>3. y[2] # s
      BY <1>2, <2>1, <2>2
    <2>. QED  BY <1>5, <2>1, <2>2, <2>3
  <1>12. Placed'
    <2>1. SlotsDiffer' /\ Apart' /\ SlotsLive'
      BY <1>2, <1>3, <1>7 DEF Placed, SlotsDiffer, Apart, SlotsLive
    <2>2. HandsDiffer' /\ HandsLive' /\ ~ twice'
      BY <1>2, <1>3 DEF Placed, HandsDiffer, HandsLive
    <2>3. NoneLost'
      <3> SUFFICES ASSUME dcb, NEW z \in made \ dead
                   PROVE  \/ \E w \in User : held[w] = z
                          \/ \E r \in Objects!Sched : \E k \in Nat : Present(r, k)' /\ mem[r][k] = z
        BY <1>2 DEF NoneLost
      <3>. QED  BY <1>3, <1>6, <1>7 DEF Placed, NoneLost
    <2>. QED  BY <2>1, <2>2, <2>3 DEF Placed
  <1>13. GroupCounts'
    <2>1. \A y \in Clearer : (Counted(y) => Counted(y)') /\ (todo[y] = 0 => todo'[y] = 0)
      <3> TAKE y \in Clearer
      <3>1. CASE y = x
        BY <1>9, <3>1
      <3>2. CASE y # x
        BY <1>8, <1>9, <3>2 DEF Counted
      <3>. QED  BY <3>1, <3>2
    <2>2. \A r \in Objects!Sched : onCpu'[r] = onCpu[r] \/ onCpu'[r] \notin Tasks
      BY <1>5, Disjoint
    <2>3. \A r \in Objects!Sched : \A k \in DOMAIN queue'[r] :
             queue'[r][k] \in Tasks => Counted(queue'[r][k][1])
      <3>1. CASE queue' = queue
        BY <1>3, <3>1 DEF GroupCounts
      <3>2. CASE queue' # queue
        <4>1. x \in Objects!Job
          <5>1. at[x][1] = "wait" /\ at[x][2] # 0
            BY <1>2, <3>2
          <5>2. x \notin Thread
            BY <1>3, <5>1, Named DEF ManagerInv, ManagerTypeOK
          <5>. QED  BY <1>3, <5>2, Disjoint
        <4>. QED  BY <1>2, <1>3, <3>2, <4>1, Queued
      <3>. QED  BY <3>1, <3>2
    <2>. QED  BY <1>2, <1>3, <2>1, <2>2, <2>3, CountsMove
  <1>14. LeftBehind'
    <2> SUFFICES ASSUME NEW y \in Clearer
                 PROVE  /\ \A w \in User : held[w] \notin left[y]
                        /\ \A r \in OverTasks(y)' : \A k \in Nat :
                              Present(r, k)' => mem[r][k] \notin left[y]
      BY <1>2 DEF LeftBehind
    <2>1. \A w \in User : held[w] \notin left[y]
      BY <1>3 DEF LeftBehind
    <2>2. ASSUME NEW r \in OverTasks(y)', NEW k \in Nat, Present(r, k)'
          PROVE  mem[r][k] \notin left[y]
      <3>1. r \in Objects!Sched
        BY DEF OverTasks
      <3>2. Present(r, k) /\ r # s
        BY <1>7, <2>2, <3>1
      <3>3. r \in OverTasks(y)
        BY <1>8, <3>2
      <3>. QED  BY <1>3, <3>2, <3>3 DEF LeftBehind
    <2>. QED  BY <2>1, <2>2
  <1>. QED  BY <1>10, <1>11, <1>12, <1>13, <1>14 DEF PoolInv

(* Without schedulers clear() destroys what is in all stacks itself.       *)
LEMMA ClearsDirectly ==
    ASSUME PoolInv, ManagerInv, Objects!Defined, Objects!ClearDirectly
    PROVE  PoolInv'
  <1>1. /\ ~ isActive
        /\ dead' = IF dcb THEN dead \cup Objects!Pooled ELSE dead
        /\ twice' = (twice \/ (dcb /\ Objects!Pooled \cap dead # {}))
        /\ size' = [s \in Objects!Sched |-> 0]
        /\ UNCHANGED <<at, onCpu, queue, dcb, walk, todo, mem, held, made, left>>
    BY DEF Objects!ClearDirectly, Objects!smVars, Objects!idleVars
  <1>2. /\ ObjectsTypeOK /\ WalksUndisturbed /\ Placed /\ LeftBehind
        /\ dead \subseteq made
    BY DEF PoolInv, ObjectsTypeOK
  <1>3. \A s \in Objects!Sched : onCpu[s] \notin Tasks
    <2>1. \A s \in Objects!Sched : loop[s] = "over"
      BY <1>1 DEF Objects!Defined, ManagerInv, EndedBeforeDeleted
    <2>. QED  BY <2>1, Disjoint DEF ManagerInv, RunsInLoop
  <1>4. \A s \in Objects!Sched : \A k \in Nat : ~ Present(s, k)'
    BY <1>1 DEF Present
  <1>5. Objects!Pooled \subseteq made \ dead /\ \A w \in User : held[w] \notin Objects!Pooled
    BY <1>2, SlotsPresent DEF Placed, SlotsLive, Apart
  <1>6. ObjectsTypeOK'
    <2>1. dead' \subseteq made
      BY <1>1, <1>2, <1>5
    <2>2. twice' \in BOOLEAN
      BY <1>1, Zenon
    <2>3. \A s \in Objects!Sched : size'[s] = 0 /\ Len(mem[s]) \in Nat
      BY <1>1, <1>2, LenProperties DEF ObjectsTypeOK
    <2>4. \A s \in Objects!Sched : size'[s] <= Len(mem[s])
      BY <2>3
    <2>. QED  BY <1>1, <1>2, <2>1, <2>4 DEF ObjectsTypeOK
  <1>7. WalksUndisturbed'
    BY <1>1, <1>3, WalksKept
  <1>8. Placed'
    <2>1. SlotsDiffer' /\ Apart' /\ SlotsLive'
      BY <1>4 DEF SlotsDiffer, Apart, SlotsLive
    <2>2. HandsDiffer' /\ HandsLive'
      BY <1>1, <1>2, <1>5 DEF Placed, HandsDiffer, HandsLive
    <2>3. ~ twice'
      BY <1>1, <1>2, <1>5 DEF Placed
    <2>4. NoneLost'
      <3> SUFFICES ASSUME dcb, NEW x \in made \ dead'
                   PROVE  \E w \in User : held[w] = x
        BY <1>1 DEF NoneLost
      <3>1. x \in made \ dead /\ x \notin Objects!Pooled
        BY <1>1
      <3>2. ~ \E s \in Objects!Sched : \E k \in Nat : Present(s, k) /\ mem[s][k] = x
        BY <1>2, <3>1, SlotsPresent
      <3>. QED  BY <1>2, <3>1, <3>2 DEF Placed, NoneLost
    <2>. QED  BY <2>1, <2>2, <2>3, <2>4 DEF Placed
  <1>9. GroupCounts'
    BY <1>1, CountsStill
  <1>10. LeftBehind'
    BY <1>1, <1>2, <1>4 DEF LeftBehind, OverTasks
  <1>. QED  BY <1>6, <1>7, <1>8, <1>9, <1>10 DEF PoolInv

-----------------------------------------------------------------------------
(* The pool                                                                *)

LEMMA PoolInitial == Objects!PoolInit => PoolInv
  <1> SUFFICES ASSUME Objects!PoolInit PROVE PoolInv
    OBVIOUS
  <1>1. /\ Objects!SmInit /\ dcb \in BOOLEAN
        /\ mem = [s \in Objects!Sched |-> <<>>]
        /\ size = [s \in Objects!Sched |-> 0]
        /\ walk = [t \in Tasks |-> <<0, 0>>]
        /\ held = [u \in User |-> 0]
        /\ made = {} /\ dead = {} /\ twice = FALSE
        /\ left = [x \in Clearer |-> {}]
    BY Named DEF Objects!PoolInit
  <1>2. PICK d \in Clearer : todo = [x \in Clearer |-> IF x = d THEN Count ELSE 0]
    BY DEF Objects!PoolInit
  <1>3. Count \in Nat
    BY Named
  <1>4. \A S : <<>> \in Seq(S) /\ Len(<<>>) = 0 /\ DOMAIN <<>> = {}
    BY EmptySeq
  <1>5. \A s \in Objects!Sched : \A k \in Nat : ~ Present(s, k)
    BY <1>1 DEF Present
  <1>6. ObjectsTypeOK
    BY <1>1, <1>2, <1>3, <1>4 DEF ObjectsTypeOK
  <1>7. WalksUndisturbed
    BY <1>1 DEF WalksUndisturbed
  <1>8. Placed
    BY <1>1, <1>5 DEF Placed, SlotsDiffer, HandsDiffer, Apart, SlotsLive, HandsLive, NoneLost
  <1>9. GroupCounts
    <2>1. \A x \in Clearer : OverTasks(x) = {}
      <3>1. <<0, 0>> # Over
        BY DEF Over
      <3>2. \A x \in Clearer : \A s \in Objects!Sched : walk[<<x, s>>] = <<0, 0>>
        BY <1>1, Disjoint
      <3>. QED  BY <3>1, <3>2 DEF OverTasks
    <2>2. \A x \in Clearer : todo[x] = 0 \/ Counted(x)
      <3> SUFFICES ASSUME NEW x \in Clearer, todo[x] = Count
                   PROVE  Counted(x)
        BY <1>2
      <3>. QED  BY <1>3, <2>1, OverFinite DEF Counted
    <2>3. \A x \in Clearer : at[x] = <<"out", 0>> /\ at[x][1] \notin InClear
      BY <1>1, Named DEF Objects!SmInit, Objects!Out, InClear
    <2>4. \A s \in Objects!Sched : onCpu[s] = None /\ queue[s] = <<>>
      BY <1>1 DEF Objects!SmInit
    <2>. QED  BY <1>4, <2>2, <2>3, <2>4, Disjoint DEF GroupCounts, InClear
  <1>10. LeftBehind
    BY <1>1 DEF LeftBehind
  <1>. QED  BY <1>6, <1>7, <1>8, <1>9, <1>10 DEF PoolInv

LEMMA PoolStep ==
    ASSUME PoolInv, ManagerInv, Yields = {FALSE}, Objects!PoolNext
    PROVE  PoolInv'
  <1>1. CASE UNCHANGED Objects!opVars /\ Objects!GoStep
    BY <1>1, GoKeeps DEF Objects!GoStep
  <1>2. CASE UNCHANGED Objects!opVars /\ Objects!LoopStep
    BY <1>2, RunsKeeps DEF Objects!LoopStep
  <1>3. CASE UNCHANGED Objects!opVars /\ Objects!StopStep
    BY <1>3, StopKeeps
  <1>4. CASE UNCHANGED Objects!opVars /\ \E u \in User : Objects!Pause(u) \/ Objects!Leave(u)
    BY <1>4, RunsKeeps
  <1>5. CASE \E u \in User : Objects!pop(u)
    BY <1>5, PopTakes, PopMakes
  <1>6. CASE \E u \in User : Objects!push(u)
    BY <1>6, PushStores, PushDestroys
  <1>7. CASE \E x \in Clearer : \/ Objects!Clear(x) \/ Objects!ClearGo(x)
                                \/ Objects!ClearYield(x) \/ Objects!ClearReturns(x)
                                \/ Objects!Cleared(x)
    BY <1>7, ClearBegins, ClearGoes, ClearEnds
  <1>8. CASE \E t \in Objects!Task : \/ Objects!TaskBegins(t) \/ Objects!TaskDestroys(t)
                                     \/ Objects!TaskEnds(t)
    BY <1>8, Named, WalkBegins, WalkDestroys, WalkEnds
  <1>9. CASE Objects!ClearDirectly
    BY <1>9, ClearsDirectly DEF Objects!PoolNext
  <1>. QED
    BY <1>1, <1>2, <1>3, <1>4, <1>5, <1>6, <1>7, <1>8, <1>9 DEF Objects!PoolNext

LEMMA PoolUnchanged ==
    ASSUME PoolInv, UNCHANGED objectVars
    PROVE  PoolInv'
  <1>1. UNCHANGED <<at, onCpu, queue>> /\ UNCHANGED Objects!opVars
    BY DEF objectVars, Objects!opVars
  <1>2. GroupCounts'
    BY <1>1, CountsStill DEF Objects!opVars
  <1>. QED  BY <1>1, <1>2, StacksAlone

(* What the invariant says of the stacks and of who has cleared them.      *)
LEMMA PoolSafe == PoolInv => Objects!ObjectsSafe /\ Objects!ClearedAll
  <1> SUFFICES ASSUME PoolInv PROVE Objects!ObjectsSafe /\ Objects!ClearedAll
    OBVIOUS
  <1>1. /\ ObjectsTypeOK /\ Placed /\ LeftBehind /\ GroupCounts
        /\ made \subseteq Obj /\ dead \subseteq made /\ 0 \notin Obj
    BY ObjectsAssumption DEF PoolInv, ObjectsTypeOK
  <1>2. \A y, z \in Objects!AllSlots : mem[y[1]][y[2]] = mem[z[1]][z[2]] => y = z
    <2> SUFFICES ASSUME NEW y \in Objects!AllSlots, NEW z \in Objects!AllSlots,
                        mem[y[1]][y[2]] = mem[z[1]][z[2]]
                 PROVE  y = z
      OBVIOUS
    <2>1. PICK s \in Objects!Sched, k \in Nat : y = <<s, k>> /\ Present(s, k)
      BY <1>1, SlotsPresent
    <2>2. PICK r \in Objects!Sched, l \in Nat : z = <<r, l>> /\ Present(r, l)
      BY <1>1, SlotsPresent
    <2>3. mem[s][k] = mem[r][l]
      BY <2>1, <2>2
    <2>. QED  BY <1>1, <2>1, <2>2, <2>3 DEF Placed, SlotsDiffer
  <1>3. \A v : v \in Objects!Held <=> v # 0 /\ \E u \in User : v = held[u]
    BY DEF Objects!Held
  <1>4. /\ Objects!Pooled \subseteq made \ dead /\ Objects!Held \subseteq made \ dead
        /\ Objects!Pooled \cap Objects!Held = {}
    BY <1>1, <1>3, SlotsPresent DEF Placed, SlotsLive, HandsLive, Apart
  <1>5. dcb => made = dead \cup Objects!Pooled \cup Objects!Held
    <2> SUFFICES ASSUME dcb, NEW v \in made \ dead
                 PROVE  v \in Objects!Pooled \/ v \in Objects!Held
      BY <1>1, <1>4
    <2>1. v # 0
      BY <1>1
    <2>. QED  BY <1>1, <1>3, <2>1, SlotsPresent DEF Placed, NoneLost
  <1>6. Objects!ObjectsSafe
    BY <1>1, <1>2, <1>4, <1>5 DEF Objects!ObjectsSafe, Placed, HandsDiffer
  <1>7. ASSUME NEW x \in Clearer, at[x][1] = "cleared"
        PROVE  left[x] \cap Objects!Pooled = {}
    <2>1. Counted(x) /\ todo[x] = 0
      BY <1>1, <1>7 DEF GroupCounts, InClear
    <2>2. OverTasks(x) = Objects!Sched
      <3>1. /\ Cardinality(OverTasks(x)) \in Nat
            /\ IsFiniteSet(Objects!Sched) /\ Cardinality(Objects!Sched) = Count
            /\ OverTasks(x) \subseteq Objects!Sched
        BY OverFinite
      <3>2. Cardinality(OverTasks(x)) = Cardinality(Objects!Sched)
        BY <2>1, <3>1 DEF Counted
      <3>. QED  BY <3>1, <3>2, FS_Subset
    <2>. QED  BY <1>1, <2>2, SlotsPresent DEF LeftBehind
  <1>. QED  BY <1>6, <1>7 DEF Objects!ClearedAll

(* No object is in two hands or two stacks, is destroyed twice or used     *)
(* after that, or is lost, and when clear() returns none of what was in    *)
(* the pool when it was called is there still, on any scheduler, if _dcb   *)
(* does not yield.                                                         *)
THEOREM ObjectsStay ==
    ASSUME Yields = {FALSE}
    PROVE  SchedulerSpec => []ObjectsSafe
  <1> DEFINE Inv == part = "objects" => PoolInv
             Man == part = "objects" => ManagerInv
  <1>1. SchedulerInit => Inv
    BY PoolInitial DEF SchedulerInit
  <1>2. ASSUME Inv, Man,
               [SchedulerNext]_<<vars, poolVars, tmVars, hookVars, objectVars, part>>
        PROVE  Inv'
    <2>1. UNCHANGED part
      BY <1>2 DEF SchedulerNext
    <2>2. part = "objects" => Objects!PoolNext \/ UNCHANGED objectVars
      BY <1>2 DEF SchedulerNext
    <2>. QED  BY <1>2, <2>1, <2>2, PoolStep, PoolUnchanged
  <1>3. Inv => ObjectsSafe
    BY PoolSafe DEF ObjectsSafe
  <1>. QED  BY <1>1, <1>2, <1>3, ManagerAlways, PTL DEF SchedulerSpec

=============================================================================
