---------------------------- MODULE MCSchedLoop ----------------------------
(***************************************************************************)
(* The scheduler loop for TLC: a behaviour is one of its tasks (SchedLoop) *)
(* or of the sockets its coroutines wait for (SockIo).                     *)
(***************************************************************************)
EXTENDS SchedLoop, SockIo

CONSTANTS a, s1, s2

VARIABLE part

(* Two coroutines of one scheduler, or of two.                             *)
MCHomes == {[c \in Co |-> s1], [c \in Co |-> IF c = a THEN s1 ELSE s2]}

(* send is the loop of recv in the other direction.                        *)
MCCalls ==
    {[op |-> o, fd |-> f, timed |-> TRUE] : o \in {"recv", "pollin"}, f \in Fd}
    \cup {[op |-> o, fd |-> f, timed |-> FALSE] : o \in {"connect", "accept"}, f \in Fd}

(* The part that is not used has no step its fairness asks for.            *)
NoTasks ==
    /\ newq = <<>> /\ newBatch = <<>> /\ readyq = <<>> /\ readyBatch = <<>>
    /\ signaled = FALSE /\ edge = FALSE /\ pipe = 0
    /\ loop = "wait" /\ ret = "other" /\ pc = [p \in Signaler |-> "idle"]
    /\ stopped = FALSE /\ ev = FALSE /\ wt = 0

NoSockets ==
    /\ home = [c \in Co |-> s1] /\ running = [s \in Sched |-> None]
    /\ stage = [s \in Sched |-> "none"] /\ place = [c \in Co |-> "none"]
    /\ ctx = [f \in Fd |-> [d \in Dir |-> None]]
    /\ interest = [s \in Sched |-> [f \in Fd |-> {}]]
    /\ edges = <<>> /\ ready = <<>> /\ open = {}
    /\ batch = [s \in Sched |-> {}] /\ second = <<>> /\ expired = <<>> /\ timeout = <<>>
    /\ call = [c \in Co |-> None] /\ added = <<>> /\ timer = <<>>

loopVars == <<vars, sockVars, part>>

LoopInit ==
    \/ part = "tasks" /\ Init /\ NoSockets
    \/ part = "sockets" /\ NoTasks /\ SockInit

LoopNext ==
    /\ UNCHANGED part
    /\ \/ part = "tasks" /\ Next /\ UNCHANGED sockVars
       \/ part = "sockets" /\ SockNext /\ UNCHANGED vars

(* WaitPipe, or the scheduler's part in SockIo: only one of them is ever   *)
(* enabled in a behaviour, so that fairness of both is that of each.       *)
LoopsOn(s) ==
    /\ UNCHANGED part
    /\ \/ s = s1 /\ WaitPipe /\ UNCHANGED sockVars
       \/ IoLoopStep(s) /\ UNCHANGED vars

(* Fairness of SchedLoop and SockFairness of SockIo                        *)
LoopSpec ==
    /\ LoopInit /\ [][LoopNext]_loopVars
    /\ \A s \in Sched : SF_loopVars(LoopsOn(s))
    /\ WF_vars(LoopStep)
    /\ \A p \in Signaler : WF_vars(SignalTestAndSet(p) \/ SignalWrite(p))
    /\ \A p \in Stopper : WF_vars(StopWait(p))
    /\ \A c \in Co :
          /\ WF_sockVars(InCall(c))
          /\ SF_sockVars(Wait(c) \/ Leave(c))
          /\ SF_sockVars(\E due \in SUBSET Co : c \in due /\ CheckTimeout(home[c], due))
=============================================================================
