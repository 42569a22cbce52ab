----------------------------- MODULE SchedLoop -----------------------------
(***************************************************************************)
(* One scheduler: Sched::loop and Sched::stop of src/co/sched.cc, its      *)
(* TaskManager (src/co/sched.h) and the pipe that wakes its epoll          *)
(* (Epoll::signal and Epoll::handle_ev_pipe of src/co/epoll).  Any thread  *)
(* may add a task: it appends it to a queue under _mtx, then sets the flag *)
(* _signaled and, only if the flag was clear, writes one byte to the pipe. *)
(* The loop drains the pipe, clears the flag and takes the whole queues.   *)
(* The pipe is registered edge-triggered: epoll_wait reports a byte once.  *)
(*                                                                         *)
(* What a task does is left open but for one thing: the coroutines the     *)
(* loop resumes (Self) may add tasks to their own scheduler.               *)
(***************************************************************************)
EXTENDS Sequences, Naturals

CONSTANTS Adder,       \* threads that add tasks
          Stopper,     \* threads that call stop()
          Self,        \* the coroutine this scheduler is running
          NewTask,     \* closures, added by add_new_task
          ReadyTask,   \* suspended coroutines, added by add_ready_task
          SpuriousWakeups   \* whether _cv.wait may return without a notify

Task == NewTask \cup ReadyTask
Signaler == Adder \cup Stopper \cup {Self}

ASSUME SchedLoopAssumption ==
    /\ Self \notin Adder \cup Stopper
    /\ Adder \cap Stopper = {}
    /\ NewTask \cap ReadyTask = {}
    /\ SpuriousWakeups \in BOOLEAN

VARIABLES newq, readyq,          \* _new_tasks, _ready_tasks
          newBatch, readyBatch,  \* loop()'s local vectors, without what was resumed
          signaled,              \* _signaled
          pipe,                  \* bytes in the pipe
          edge,                  \* epoll has an unreported edge of the pipe
          loop,                  \* where the scheduler thread is
          ret,                   \* what epoll_wait returned: see Returned
          pc,                    \* where each caller of signal() or stop() is
          stopped,               \* _stopped
          ev, wt                 \* _signaled and _wt of _ev, a sync_event

event == <<ev, wt>>
queues == <<newq, readyq, newBatch, readyBatch>>
wakeup == <<signaled, pipe, edge>>
vars == <<queues, wakeup, loop, ret, pc, stopped, event>>

LoopState == {"check", "wait", "returned", "events", "clear", "get", "run",
              "timers", "exit", "done"}

(* pipe: the pipe's event is among the reported ones and not handled yet;  *)
(* other: it is not, or has been handled; error: epoll_wait returned -1.   *)
Returned == {"pipe", "other", "error"}

(* tas and write are the two steps of signal(); evwait, cv (inside         *)
(* _cv.wait) and stopped are the end of stop(); idle is outside.           *)
PcState == {"idle", "tas", "write", "evwait", "cv", "stopped"}

TypeOK ==
    /\ newq \in Seq(NewTask) /\ newBatch \in Seq(NewTask)
    /\ readyq \in Seq(ReadyTask) /\ readyBatch \in Seq(ReadyTask)
    /\ signaled \in BOOLEAN /\ edge \in BOOLEAN /\ pipe \in Nat
    /\ loop \in LoopState
    /\ ret \in Returned
    /\ pc \in [Signaler -> PcState]
    /\ stopped \in BOOLEAN /\ ev \in BOOLEAN /\ wt \in Nat

Init ==
    /\ newq = <<>> /\ newBatch = <<>>
    /\ readyq = <<>> /\ readyBatch = <<>>
    /\ signaled = FALSE /\ edge = FALSE /\ pipe = 0
    /\ loop = "check"
    /\ ret = "other"
    /\ pc = [p \in Signaler |-> "idle"]
    /\ stopped = FALSE /\ ev = FALSE /\ wt = 0

(* A coroutine of this scheduler runs inside the loop: when its I/O event, *)
(* its turn as a task or its timeout is being handled.                     *)
OnCpu(p) == p = Self => loop \in {"events", "run", "timers"}

(* The loop goes on when the coroutine it resumed has yielded, which it    *)
(* does outside add_new_task and add_ready_task.                           *)
Yielded == pc[Self] = "idle"

(* A task is added again only after it was resumed.                        *)
Pending(t) ==
    \E q \in {newq, readyq, newBatch, readyBatch} :
       \E i \in DOMAIN q : q[i] = t

-----------------------------------------------------------------------------
(* Slips a change to the code could introduce, one per property: each      *)
(* replaces the operation it is named after, and TLC then refutes that     *)
(* property.                                                               *)

StopNoWait(p) ==
    /\ pc[p] = "evwait"
    /\ pc' = [pc EXCEPT ![p] = "stopped"]
    /\ UNCHANGED <<queues, wakeup, loop, ret, stopped, event>>

(* signal() tests the flag the wrong way.                                  *)
SignalInverted(p) ==
    /\ OnCpu(p) /\ pc[p] = "tas"
    /\ signaled' = TRUE
    /\ pc' = [pc EXCEPT ![p] =
                 IF signaled THEN "write"
                 ELSE IF p \in Stopper THEN "evwait" ELSE "idle"]
    /\ UNCHANGED <<queues, pipe, edge, loop, ret, stopped, event>>

(* get_all_tasks takes the ready tasks only if there is no new one.        *)
GetOneKind ==
    /\ loop = "get"
    /\ IF newq # <<>>
       THEN /\ newBatch' = newq /\ newq' = <<>>
            /\ UNCHANGED <<readyq, readyBatch>>
       ELSE /\ readyBatch' = readyq /\ readyq' = <<>>
            /\ UNCHANGED <<newq, newBatch>>
    /\ loop' = "run"
    /\ UNCHANGED <<wakeup, ret, pc, stopped, event>>
(* The loop goes on with the tasks added in the meantime.                  *)
TasksUntilEmpty ==
    /\ loop = "run" /\ Yielded
    /\ newBatch = <<>> /\ readyBatch = <<>>
    /\ loop' = IF newq # <<>> \/ readyq # <<>> THEN "get" ELSE "timers"
    /\ UNCHANGED <<queues, wakeup, ret, pc, stopped, event>>

-----------------------------------------------------------------------------
(* add_new_task, add_ready_task and stop: the queue, then signal()         *)

AddNew(p, t) ==
    /\ OnCpu(p)
    /\ pc[p] = "idle"
    /\ ~ Pending(t)
    /\ newq' = Append(newq, t)
    /\ pc' = [pc EXCEPT ![p] = "tas"]
    /\ UNCHANGED <<readyq, newBatch, readyBatch, wakeup, loop, ret, stopped, event>>

AddReady(p, t) ==
    /\ OnCpu(p)
    /\ pc[p] = "idle"
    /\ ~ Pending(t)
    /\ readyq' = Append(readyq, t)
    /\ pc' = [pc EXCEPT ![p] = "tas"]
    /\ UNCHANGED <<newq, newBatch, readyBatch, wakeup, loop, ret, stopped, event>>

(* Only the first stop() goes on to signal and wait.                       *)
Stop(p) ==
    /\ pc[p] = "idle"
    /\ stopped' = TRUE
    /\ pc' = [pc EXCEPT ![p] = IF stopped THEN "stopped" ELSE "tas"]
    /\ UNCHANGED <<queues, wakeup, loop, ret, event>>

(* Where p is when signal() returns.                                       *)
Signaled(p) == IF p \in Stopper THEN "evwait" ELSE "idle"

SignalTestAndSet(p) ==
    /\ OnCpu(p)
    /\ pc[p] = "tas"
    /\ signaled' = TRUE
    /\ pc' = [pc EXCEPT ![p] = IF signaled THEN Signaled(p) ELSE "write"]
    /\ UNCHANGED <<queues, pipe, edge, loop, ret, stopped, event>>

SignalWrite(p) ==
    /\ OnCpu(p)
    /\ pc[p] = "write"
    /\ pipe' = pipe + 1
    /\ edge' = TRUE
    /\ pc' = [pc EXCEPT ![p] = Signaled(p)]
    /\ UNCHANGED <<queues, signaled, loop, ret, stopped, event>>

(* _ev.wait() of stop(): the event is signaled already, or the thread goes *)
(* to sleep.                                                               *)
StopWait(p) ==
    /\ pc[p] = "evwait"
    /\ IF ev
       THEN ev' = FALSE /\ pc' = [pc EXCEPT ![p] = "stopped"] /\ UNCHANGED wt
       ELSE wt' = wt + 1 /\ pc' = [pc EXCEPT ![p] = "cv"] /\ UNCHANGED ev
    /\ UNCHANGED <<queues, wakeup, loop, ret, stopped>>

(* stop() does not look why it was woken, nor takes itself off _wt.        *)
SpuriousWakeup(p) ==
    /\ SpuriousWakeups
    /\ pc[p] = "cv"
    /\ pc' = [pc EXCEPT ![p] = "stopped"]
    /\ UNCHANGED <<queues, wakeup, loop, ret, stopped, event>>

-----------------------------------------------------------------------------
(* Sched::loop                                                             *)

LoopCheck ==
    /\ loop = "check"
    /\ loop' = IF stopped THEN "exit" ELSE "wait"
    /\ UNCHANGED <<queues, wakeup, ret, pc, stopped, event>>

(* epoll_wait reports the pipe, which consumes the edge.                   *)
WaitPipe ==
    /\ loop = "wait"
    /\ edge
    /\ edge' = FALSE
    /\ ret' = "pipe"
    /\ loop' = "returned"
    /\ UNCHANGED <<queues, signaled, pipe, pc, stopped, event>>

(* It returns for a socket or a timeout, or fails (EINTR).  A pending edge *)
(* may stay pending: one call reports at most 1024 events.                 *)
WaitOther(r) ==
    /\ loop = "wait"
    /\ r \in {"other", "error"}
    /\ ret' = r
    /\ loop' = "returned"
    /\ UNCHANGED <<queues, wakeup, pc, stopped, event>>

LoopReturned ==
    /\ loop = "returned"
    /\ loop' = IF stopped THEN "exit"
               ELSE IF ret = "error" THEN "check" ELSE "events"
    /\ UNCHANGED <<queues, wakeup, ret, pc, stopped, event>>

(* handle_ev_pipe: read until the pipe is empty, then clear the flag.      *)
DrainPipe ==
    /\ loop = "events"
    /\ Yielded
    /\ ret = "pipe"
    /\ pipe' = 0
    /\ loop' = "clear"
    /\ UNCHANGED <<queues, signaled, edge, ret, pc, stopped, event>>

ClearFlag ==
    /\ loop = "clear"
    /\ signaled' = FALSE
    /\ ret' = "other"
    /\ loop' = "events"
    /\ UNCHANGED <<queues, pipe, edge, pc, stopped, event>>

EventsDone ==
    /\ loop = "events"
    /\ Yielded
    /\ ret = "other"
    /\ loop' = "get"
    /\ UNCHANGED <<queues, wakeup, ret, pc, stopped, event>>

GetAllTasks ==
    /\ loop = "get"
    /\ newBatch' = newq /\ newq' = <<>>
    /\ readyBatch' = readyq /\ readyq' = <<>>
    /\ loop' = "run"
    /\ UNCHANGED <<wakeup, ret, pc, stopped, event>>

ResumeNew ==
    /\ loop = "run"
    /\ Yielded
    /\ newBatch # <<>>
    /\ newBatch' = Tail(newBatch)
    /\ UNCHANGED <<newq, readyq, readyBatch, wakeup, loop, ret, pc, stopped, event>>

ResumeReady ==
    /\ loop = "run"
    /\ Yielded
    /\ newBatch = <<>>
    /\ readyBatch # <<>>
    /\ readyBatch' = Tail(readyBatch)
    /\ UNCHANGED <<newq, readyq, newBatch, wakeup, loop, ret, pc, stopped, event>>

TasksDone ==
    /\ loop = "run"
    /\ Yielded
    /\ newBatch = <<>> /\ readyBatch = <<>>
    /\ loop' = "timers"
    /\ UNCHANGED <<queues, wakeup, ret, pc, stopped, event>>

TimersDone ==
    /\ loop = "timers"
    /\ Yielded
    /\ loop' = "check"
    /\ UNCHANGED <<queues, wakeup, ret, pc, stopped, event>>

(* _ev.signal(), the last statement: it wakes who waits, or is remembered. *)
LoopExit ==
    /\ loop = "exit"
    /\ loop' = "done"
    /\ wt' = 0
    /\ ev' = (wt = 0)
    /\ pc' = [p \in Signaler |-> IF wt > 0 /\ pc[p] = "cv" THEN "stopped" ELSE pc[p]]
    /\ UNCHANGED <<queues, wakeup, ret, stopped>>

-----------------------------------------------------------------------------
(* The steps of the scheduler thread that it takes by itself; WaitOther    *)
(* needs an event or a timeout from outside.                               *)
LoopStep ==
    \/ LoopCheck \/ LoopReturned \/ DrainPipe \/ ClearFlag \/ EventsDone
    \/ GetAllTasks \/ ResumeNew \/ ResumeReady \/ TasksDone \/ TimersDone
    \/ LoopExit

Next ==
    \/ LoopStep
    \/ WaitPipe
    \/ \E r \in Returned : WaitOther(r)
    \/ \E p \in Adder \cup {Self} :
          \/ \E t \in NewTask : AddNew(p, t)
          \/ \E t \in ReadyTask : AddReady(p, t)
    \/ \E p \in Signaler : SignalTestAndSet(p) \/ SignalWrite(p)
    \/ \E p \in Stopper : Stop(p) \/ StopWait(p) \/ SpuriousWakeup(p)

Spec == Init /\ [][Next]_vars

(* Every thread keeps running, and a coroutine the loop resumes returns to *)
(* it.  The kernel reports ready descriptors in turn, so that an edge of   *)
(* the pipe is not overtaken by sockets forever (WaitPipe).  Nobody needs  *)
(* to add a task, to call stop or to cause an event.                       *)
Fairness ==
    /\ WF_vars(LoopStep)
    /\ SF_vars(WaitPipe)
    /\ \A p \in Signaler : WF_vars(SignalTestAndSet(p) \/ SignalWrite(p))
    /\ \A p \in Stopper : WF_vars(StopWait(p))

FairSpec == Spec /\ Fairness

-----------------------------------------------------------------------------
Signaling(p) == pc[p] \in {"tas", "write"}
Waiting == newq # <<>> \/ readyq # <<>>

(* The loop never sleeps in epoll_wait on a task that nobody is going to   *)
(* wake it for: the byte is in the pipe and its edge unreported, or the    *)
(* thread that added the task is still on its way to signal.               *)
NoLostWakeup ==
    loop = "wait" /\ Waiting =>
       edge \/ \E p \in Signaler : Signaling(p)

(* A set flag never suppresses signals for good: while the loop sleeps, it *)
(* stands for a byte that will be reported or is about to be written.      *)
FlagNeverStuck ==
    loop = "wait" /\ signaled =>
       edge \/ \E p \in Signaler : pc[p] = "write"

(* The flag keeps the pipe at one byte, however many threads signal: the   *)
(* write never blocks, and one short read empties the pipe.                *)
AtMostOneByte == pipe <= 1

(* The first stop() returns only after the loop has ended, or because      *)
(* _cv.wait returned without a notify, of which a waiter counted in _wt    *)
(* is left behind.  (A later stop() returns at once, see Stop.)            *)
FirstReturned == stopped /\ \A p \in Stopper : pc[p] \in {"idle", "stopped"}
FirstStopWaits == FirstReturned => loop = "done" \/ (SpuriousWakeups /\ wt > 0)

(* The first stop() returns, also when the loop is asleep or between       *)
(* testing _stopped and going to sleep; and a batch is finite: coroutines  *)
(* that make themselves or others ready again while it runs do not keep    *)
(* the loop from timers and I/O.                                           *)
LoopGoesOn ==
    /\ stopped ~> FirstReturned
    /\ loop = "run" ~> loop = "timers"

(* The scheduler is a mailbox that is open until it is told to stop.       *)
Abstract ==
    INSTANCE Mailbox WITH
       fresh <- newBatch \o newq,
       ready <- readyBatch \o readyq,
       closed <- stopped

EveryTaskResumed == Abstract!Spec
=============================================================================
