------------------------------- MODULE Tasked -------------------------------
(***************************************************************************)
(* TaskedImpl of src/tasked.cc: a thread that runs tasks after a number of *)
(* seconds, once or again and again.  It waits for at most a second,       *)
(* takes the new tasks and counts the seconds that have passed down in the *)
(* counts of all tasks.  Time is counted in ticks, Second to the second.   *)
(***************************************************************************)
EXTENDS Integers, FiniteSets

CONSTANTS Task,      \* tasks users add
          Stopper,   \* threads that call stop()
          Seconds,   \* delays they are added with
          Second,    \* ticks to a second
          Horizon    \* bound on the clock

(* A second has ticks; no task is added with a negative delay.             *)
ASSUME TaskedAssumption ==
    Second \in Nat \ {0} /\ Seconds \subseteq Nat /\ Horizon \in Nat

VARIABLES ticks,     \* the clock
          stopFlag,  \* _stop
          count,     \* Task::count
          period,    \* Task::period
          list,      \* the list each task is in: _new_tasks, _tasks
          at,        \* where loop() is: it waits, runs tasks, or has ended
          ms, sec,   \* the variables of loop(), ms in ticks
          elapsed,   \* timer.ms(), in ticks
          wake,      \* _ev is signaled, or the loop has not begun
          stopper,   \* where each thread is in stop()
          dueAt,     \* history: when each task should run
          ran        \* the tasks the last step ran

taskVars == <<count, period, list>>
loopVars == <<at, ms, sec, elapsed, wake>>
tdVars == <<ticks, stopFlag, taskVars, loopVars, stopper, dueAt, ran>>

TaskedTypeOK ==
    /\ ticks \in 0..Horizon
    /\ stopFlag \in 0..2
    /\ count \in [Task -> Int] /\ period \in [Task -> Seconds \cup {0}]
    /\ list \in [Task -> {"none", "new", "tasks"}]
    /\ at \in {"wait", "run", "end"}
    /\ ms \in Nat /\ sec \in Nat /\ elapsed \in Nat /\ wake \in BOOLEAN
    /\ stopper \in [Stopper -> {"out", "wait", "wait2", "done"}]
    /\ dueAt \in [Task -> Nat] /\ ran \subseteq Task

TaskedInit ==
    /\ ticks = 0 /\ stopFlag = 0
    /\ count = [t \in Task |-> 0] /\ period = count
    /\ list = [t \in Task |-> "none"]
    /\ at = "wait" /\ ms = 0 /\ sec = 0 /\ elapsed = 0 /\ wake = TRUE
    /\ stopper = [u \in Stopper |-> "out"]
    /\ dueAt = count /\ ran = {}

(* Time passes while the loop waits; the tasks take less than a tick.      *)
TaskedTick ==
    /\ ticks < Horizon
    /\ at = "wait" /\ ~ wake /\ elapsed < Second
    /\ ticks' = ticks + 1 /\ elapsed' = elapsed + 1
    /\ ran' = {}
    /\ UNCHANGED <<stopFlag, taskVars, at, ms, sec, wake, stopper, dueAt>>

(* run_in and run_every, and run_at with the seconds it works out.         *)
AddTask(t, s, p) ==
    /\ list[t] = "none" /\ stopFlag = 0
    /\ list' = [list EXCEPT ![t] = "new"]
    /\ count' = [count EXCEPT ![t] = s]
    /\ period' = [period EXCEPT ![t] = p]
    /\ wake' = (wake \/ (s = 0 /\ p = 0))
    /\ dueAt' = [dueAt EXCEPT ![t] = ticks + s * Second]
    /\ ran' = {}
    /\ UNCHANGED <<ticks, stopFlag, at, ms, sec, elapsed, stopper>>

(* The wait is over: the loop ends, or goes round.                         *)
WaitOver ==
    /\ at = "wait" /\ (wake \/ elapsed >= Second)
    /\ wake' = FALSE
    /\ ms' = ms + elapsed /\ elapsed' = 0
    /\ IF stopFlag # 0
       THEN stopFlag' = 2 /\ at' = "end"
       ELSE at' = "run" /\ UNCHANGED stopFlag
    /\ ran' = {}
    /\ UNCHANGED <<ticks, taskVars, sec, stopper, dueAt>>

(* sec keeps its value when less than a second has passed.                 *)
Passed == IF ms >= Second THEN ms \div Second ELSE sec

(* Slip: what is left of a second is dropped.                              *)
RestDropped == 0

Rest == IF ms >= Second THEN ms % Second ELSE ms

(* All tasks count down; one that is run is removed, or counts from its    *)
(* period again.                                                           *)
RunTasks ==
    /\ at = "run"
    /\ LET left == [t \in Task |-> count[t] - Passed]
           live == {t \in Task : list[t] # "none"}
           now  == {t \in live : left[t] <= 0}
           over == {t \in now : period[t] = 0}
       IN  /\ sec' = Passed /\ ms' = Rest
           /\ count' = [t \in Task |-> IF t \in now THEN period[t]
                                       ELSE IF t \in live THEN left[t] ELSE count[t]]
           /\ list' = [t \in Task |-> IF t \in live \ over THEN "tasks" ELSE "none"]
           /\ dueAt' = [t \in Task |-> IF t \in now THEN period[t] * Second + ticks ELSE dueAt[t]]
           /\ ran' = now
    /\ at' = "wait"
    /\ UNCHANGED <<ticks, stopFlag, period, elapsed, wake, stopper>>

StopTasked(u) ==
    /\ stopper[u] = "out"
    /\ IF stopFlag = 0
       THEN stopFlag' = 1 /\ wake' = TRUE /\ stopper' = [stopper EXCEPT ![u] = "wait"]
       ELSE /\ stopper' = [stopper EXCEPT ![u] = IF stopFlag = 1 THEN "wait2" ELSE "done"]
            /\ UNCHANGED <<stopFlag, wake>>
    /\ ran' = {}
    /\ UNCHANGED <<ticks, taskVars, at, ms, sec, elapsed, dueAt>>

(* The loop has ended; the first stop() clears the lists.                  *)
StopTaskedEnds(u) ==
    /\ stopper[u] \in {"wait", "wait2"} /\ stopFlag = 2
    /\ list' = IF stopper[u] = "wait" THEN [t \in Task |-> "none"] ELSE list
    /\ stopper' = [stopper EXCEPT ![u] = "done"]
    /\ ran' = {}
    /\ UNCHANGED <<ticks, stopFlag, count, period, loopVars, dueAt>>

TaskedNext ==
    \/ TaskedTick \/ WaitOver \/ RunTasks
    \/ \E t \in Task, s \in Seconds : AddTask(t, s, 0) \/ (s > 0 /\ AddTask(t, s, s))
    \/ \E u \in Stopper : StopTasked(u) \/ StopTaskedEnds(u)

TaskedSpec == TaskedInit /\ [][TaskedNext]_tdVars

(* The thread runs, and the threads that wait for it look again.           *)
TaskedFairness ==
    /\ WF_tdVars(WaitOver \/ RunTasks)
    /\ \A u \in Stopper : WF_tdVars(StopTaskedEnds(u))

-----------------------------------------------------------------------------
(* While the scheduler is not stopped, no task is overdue by a second,     *)
(* however often run_in(f, 0) ends the wait of the loop.                   *)
TasksInTime ==
    stopFlag = 0 => \A t \in Task : list[t] # "none" => ticks < dueAt[t] + Second

(* stop() returns to every thread that calls it, and no task runs after it *)
(* has returned to one.                                                    *)
TaskedStops ==
    /\ \A u \in Stopper : stopper[u] # "out" ~> stopper[u] = "done"
    /\ [][(\E u \in Stopper : stopper[u] = "done") => ran' = {}]_tdVars

(* "run f() once @sec seconds later": not more than a second early, since  *)
(* the loop counts whole seconds.                                          *)
NotEarly ==
    [][\A t \in ran' : ticks + Second >= dueAt[t]]_tdVars
=============================================================================
