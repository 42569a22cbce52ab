---------------------------- MODULE SchedManager ----------------------------
(***************************************************************************)
(* SchedManager of src/co/sched.cc: the schedulers, the choice of the one  *)
(* a new coroutine runs on, and stop(), which stops and deletes them.  Of  *)
(* each scheduler there is the queue of its tasks, the coroutine it runs   *)
(* and whether its loop has ended; SchedLoop has the rest.                 *)
(*                                                                         *)
(* What go() reads and what it then does are steps of their own: stop()    *)
(* may come in between.  stop() is called once, by a thread, when no other *)
(* thread is inside the library or calls it any more; coroutines go on.    *)
(*                                                                         *)
(* Sched::stop() waits once, on a condition variable and without a test:   *)
(* its wait may end though nobody has signaled, and the loop goes on.  If  *)
(* it still does when the first scheduler is deleted, what the code does   *)
(* is undefined, and the behaviour is followed no further (see Defined).   *)
(***************************************************************************)
EXTENDS Naturals, Sequences, FiniteSets

CONSTANTS Count,    \* schedulers
          User,     \* coroutines started by go()
          Other,    \* coroutines started otherwise
          Thread,   \* threads that are not schedulers
          None      \* nobody runs

Sched == 0..(Count - 1)
Job == User \cup Other
Caller == Job \cup Thread

VARIABLES nco,      \* g_nco
          queue,    \* queue[s]: what is to be resumed, in order
          running,  \* running[s]: _running
          flag,     \* flag[s]: _stopped
          loop,     \* loop[s]: "on", or "over" after the last statement of loop()
          exist,    \* schedulers that have not been deleted
          listed,   \* _scheds has not been cleared
          active,   \* is_active()
          fresh,    \* those of User nobody has started
          at,       \* where each caller is in go()
          stopper,  \* where stop() is
          early,    \* history: schedulers whose stop() has returned before the loop ended
          first     \* history: the schedulers go() has chosen by number

smVars == <<nco, queue, running, flag, loop, exist, listed, active, fresh, at, stopper, early, first>>

SmTypeOK ==
    /\ nco \in Nat
    /\ queue \in [Sched -> Seq(Job)]
    /\ running \in [Sched -> Job \cup {None}]
    /\ flag \in [Sched -> BOOLEAN] /\ loop \in [Sched -> {"on", "over"}]
    /\ exist \subseteq Sched /\ listed \in BOOLEAN /\ active \in BOOLEAN
    /\ early \subseteq Sched
    /\ fresh \subseteq User

Out == <<"out", 0>>

SmInit ==
    /\ nco = 0
    /\ queue = [s \in Sched |-> <<>>]
    /\ running = [s \in Sched |-> None]
    /\ flag = [s \in Sched |-> FALSE]
    /\ loop = [s \in Sched |-> "on"]
    /\ exist = Sched /\ listed = TRUE /\ active = TRUE
    /\ fresh = User
    /\ at = [p \in Caller |-> Out]
    /\ stopper = <<"no", 0>> /\ early = {}
    /\ first = <<>>

Runs(j) == \E s \in Sched : running[s] = j
HomeOf(j) == CHOOSE s \in Sched : running[s] = j

(* Who may begin a call: a coroutine that runs, a thread before stop().    *)
Calls(p) ==
    /\ at[p] = Out
    /\ p \in Job => Runs(p)
    /\ p \in Thread => stopper = <<"no", 0>>

Moves(p, to) == at' = [at EXCEPT ![p] = to]
loopVars == <<running, flag, loop>>
manVars == <<exist, listed, active, stopper, early>>

-----------------------------------------------------------------------------
(* go(): next_sched(), then add_new_task()                                 *)

(* The first Count coroutines are to be spread evenly; a look at the       *)
(* number comes first so that it does not grow for ever.                   *)
Go(p) ==
    /\ Calls(p) /\ fresh # {}
    /\ Moves(p, IF Count = 1 THEN <<"add", 0>>
                ELSE IF nco < Count THEN <<"number", 0>> ELSE <<"weigh", 0>>)
    /\ UNCHANGED <<nco, queue, loopVars, manVars, fresh, first>>

TakeNumber(p) ==
    /\ at[p][1] = "number"
    /\ nco' = nco + 1
    /\ IF nco < Count
       THEN Moves(p, <<"add", nco>>) /\ first' = Append(first, nco)
       ELSE Moves(p, <<"weigh", 0>>) /\ UNCHANGED first
    /\ UNCHANGED <<queue, loopVars, manVars, fresh>>

(* A random one or its neighbour, whichever has used less time.            *)
Weigh(p) ==
    /\ at[p][1] = "weigh"
    /\ \E i \in Sched : \E s \in {i, (i + 1) % Count} : Moves(p, <<"add", s>>)
    /\ UNCHANGED <<nco, queue, loopVars, manVars, fresh, first>>

AddNewTask(p) ==
    /\ at[p][1] = "add"
    /\ \E j \in fresh :
          /\ fresh' = fresh \ {j}
          /\ queue' = [queue EXCEPT ![at[p][2]] = Append(@, j)]
    /\ Moves(p, Out)
    /\ UNCHANGED <<nco, loopVars, manVars, first>>

-----------------------------------------------------------------------------
(* The loop of a scheduler                                                 *)

Resume(s) ==
    /\ loop[s] = "on" /\ running[s] = None
    /\ queue[s] # <<>>
    /\ running' = [running EXCEPT ![s] = Head(queue[s])]
    /\ queue' = [queue EXCEPT ![s] = Tail(@)]
    /\ UNCHANGED <<nco, flag, loop, manVars, fresh, at, first>>

(* The coroutine ends, or yields: whatever it waits for may be there now.  *)
Leave(j) ==
    /\ Runs(j) /\ at[j] = Out
    /\ running' = [running EXCEPT ![HomeOf(j)] = None]
    /\ UNCHANGED <<nco, queue, flag, loop, manVars, fresh, at, first>>

Pause(j) ==
    /\ Runs(j) /\ at[j] = Out
    /\ running' = [running EXCEPT ![HomeOf(j)] = None]
    /\ queue' = [queue EXCEPT ![HomeOf(j)] = Append(@, j)]
    /\ UNCHANGED <<nco, flag, loop, manVars, fresh, at, first>>

(* The loop sees _stopped between two rounds; what is queued stays there.  *)
LoopEnds(s) ==
    /\ loop[s] = "on" /\ flag[s] /\ running[s] = None
    /\ loop' = [loop EXCEPT ![s] = "over"]
    /\ UNCHANGED <<nco, queue, running, flag, manVars, fresh, at, first>>

-----------------------------------------------------------------------------
(* SchedManager::stop(): all are stopped before the first is deleted       *)

StopBegins ==
    /\ stopper = <<"no", 0>>
    /\ \A t \in Thread : at[t] = Out
    /\ stopper' = <<"stop", 0>>
    /\ UNCHANGED <<nco, queue, loopVars, exist, listed, active, early, fresh, at, first>>

StopFlag ==
    /\ stopper[1] = "stop"
    /\ flag' = [flag EXCEPT ![stopper[2]] = TRUE]
    /\ stopper' = <<"wait", stopper[2]>>
    /\ UNCHANGED <<nco, queue, running, loop, exist, listed, active, early, fresh, at, first>>

(* The loop has ended, or nothing has happened and the wait ends early.    *)
WaitEnded == early' = IF loop[stopper[2]] = "over" THEN early ELSE early \cup {stopper[2]}

(* Slip: each scheduler is deleted when it has stopped.                    *)
StopWaitedDeletes ==
    /\ stopper[1] = "wait"
    /\ WaitEnded
    /\ exist' = exist \ {stopper[2]}
    /\ stopper' = IF stopper[2] + 1 \in Sched THEN <<"stop", stopper[2] + 1>> ELSE <<"clear", 0>>
    /\ UNCHANGED <<nco, queue, loopVars, listed, active, fresh, at, first>>

StopWaited ==
    /\ stopper[1] = "wait"
    /\ WaitEnded
    /\ stopper' = IF stopper[2] + 1 \in Sched THEN <<"stop", stopper[2] + 1>> ELSE <<"delete", 0>>
    /\ UNCHANGED <<nco, queue, loopVars, exist, listed, active, fresh, at, first>>

StopDeletes ==
    /\ stopper[1] = "delete"
    /\ exist' = exist \ {stopper[2]}
    /\ stopper' = IF stopper[2] + 1 \in Sched THEN <<"delete", stopper[2] + 1>> ELSE <<"clear", 0>>
    /\ UNCHANGED <<nco, queue, loopVars, listed, active, early, fresh, at, first>>

StopClears ==
    /\ stopper[1] = "clear"
    /\ listed' = FALSE
    /\ stopper' = <<"inactive", 0>>
    /\ UNCHANGED <<nco, queue, loopVars, exist, active, early, fresh, at, first>>

StopEnds ==
    /\ stopper[1] = "inactive"
    /\ active' = FALSE
    /\ stopper' = <<"done", 0>>
    /\ UNCHANGED <<nco, queue, loopVars, exist, listed, early, fresh, at, first>>

StopStep == StopBegins \/ StopFlag \/ StopWaited \/ StopDeletes \/ StopClears \/ StopEnds
LoopStep == \E s \in Sched : Resume(s) \/ LoopEnds(s)
GoStep == \E p \in Caller : Go(p) \/ TakeNumber(p) \/ Weigh(p) \/ AddNewTask(p)

(* Where the code is defined: no loop goes on when a scheduler is deleted. *)
Defined == exist # Sched => \A s \in Sched : loop[s] = "over"

-----------------------------------------------------------------------------
(* As long as a coroutine runs or a thread is inside a call, every         *)
(* scheduler exists, so that whichever go() chooses can be handed a task:  *)
(* stop() comes to the first delete only after the last loop has ended.    *)
(* The coroutines of a scheduler whose stop() has not waited for its loop  *)
(* are the only ones that this does not hold for.                          *)
SchedulersOutlive ==
    (\E t \in Thread : at[t] # Out) \/ (\E s \in Sched \ early : running[s] # None)
        => listed /\ exist = Sched

(* However the calls interleave, no two of the first coroutines are given  *)
(* to one scheduler while another has none.                                *)
FirstSpread == \A i, k \in DOMAIN first : i # k => first[i] # first[k]
=============================================================================
