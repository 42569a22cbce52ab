------------------------------- MODULE SockIo -------------------------------
(***************************************************************************)
(* How a coroutine waits for a socket: the socket calls of src/co/sock.cc, *)
(* poll() of src/co/hook.cc for one descriptor that is non-blocking,       *)
(* io_event::wait, the registration of descriptors in the epoll of each    *)
(* scheduler (src/co/epoll/epoll.cc), the table of SockCtx that says which *)
(* coroutine waits for which direction of a descriptor, and the part of    *)
(* Sched::loop that looks the coroutine up when an event is reported.      *)
(* A scheduler runs one coroutine at a time and steps of different         *)
(* schedulers, and of the kernel, interleave.                              *)
(*                                                                         *)
(* The kernel is external: each descriptor has the set of conditions that  *)
(* hold, and each epoll the descriptors with an edge it has not reported.  *)
(* Time is left out: a timer may fire once it is set (TimerManager has     *)
(* the clock).                                                             *)
(***************************************************************************)
EXTENDS Naturals, Sequences, FiniteSets

CONSTANTS Sched,     \* schedulers
          Co,        \* coroutines
          Fd,        \* numbers of descriptors
          Homes,     \* ways to spread the coroutines over the schedulers
          None,
          Calls,     \* calls the coroutines make
          Alone      \* TRUE: a call on one direction of a descriptor, or a
                     \* close or shutdown, begins only when no other call on
                     \* it is under way

Dir == {"r", "w"}
Polls == {"pollin", "pollout"}
Call == {a \in [op : {"recv", "send", "accept", "connect", "close"} \cup Polls, fd : Fd, timed : BOOLEAN] :
            a.op = "accept" => ~ a.timed}

ASSUME SockIoAssumption ==
    /\ Homes \subseteq [Co -> Sched]
    /\ None \notin Co \cup Call
    /\ Calls \subseteq Call
    /\ Alone \in BOOLEAN

VARIABLES home,      \* co->sched
          ctx,       \* SockCtx: the coroutine registered per descriptor and direction
          interest,  \* directions each epoll watches per descriptor
          edges,      \* descriptors each epoll has something to report of
          ready,     \* conditions that hold of each descriptor
          open,      \* descriptors that are open
          stage,      \* what each scheduler's loop is handling
          batch,     \* events epoll_wait returned that are not handled yet
          second,    \* wco: the coroutine to resume after rco
          expired,   \* coroutines check_timeout returned, not resumed yet
          running,   \* _running while the coroutine has not yielded
          timeout,   \* _timeout
          place,        \* where each coroutine is in a socket call
          call,      \* its arguments, None outside
          added,     \* io_event::_added
          timer      \* it has a timer

kernel == <<edges, ready, open>>
loops == <<stage, batch, second, expired, timeout>>
sockVars == <<home, ctx, interest, kernel, loops, running, place, call, added, timer>>

Other(d) == IF d = "r" THEN "w" ELSE "r"
Condition == Dir \cup {"hup"}          \* "hup": EPOLLERR or EPOLLHUP
DirOf(a) == IF a.op \in {"recv", "accept", "pollin"} THEN "r" ELSE "w"
Uses(a) == IF a.op \in Polls \cup {"close"} THEN Dir ELSE {DirOf(a)}

SockTypeOK ==
    /\ home \in [Co -> Sched]
    /\ ctx \in [Fd -> [Dir -> Co \cup {None}]]
    /\ interest \in [Sched -> [Fd -> SUBSET Dir]]
    /\ edges \in [Sched -> SUBSET Fd]
    /\ ready \in [Fd -> SUBSET Condition]
    /\ open \subseteq Fd
    /\ stage \in [Sched -> {"poll", "events", "tasks", "timers"}]
    /\ batch \in [Sched -> SUBSET (Fd \X SUBSET Condition)]
    /\ second \in [Sched -> Co \cup {None}]
    /\ expired \in [Sched -> SUBSET Co]
    /\ running \in [Sched -> Co \cup {None}]
    /\ timeout \in [Sched -> BOOLEAN]
    /\ place \in [Co -> {"out", "try", "add", "wait", "woken", "linger", "close"}]
    /\ call \in [Co -> Call \cup {None}]
    /\ added \in [Co -> BOOLEAN]
    /\ timer \in [Co -> BOOLEAN]

SockInit ==
    /\ home \in Homes
    /\ ctx = [f \in Fd |-> [d \in Dir |-> None]]
    /\ interest = [s \in Sched |-> [f \in Fd |-> {}]]
    /\ edges = [s \in Sched |-> {}]
    /\ ready = [f \in Fd |-> {}]
    /\ open = Fd
    /\ stage = [s \in Sched |-> "poll"]
    /\ batch = [s \in Sched |-> {}]
    /\ second = [s \in Sched |-> None]
    /\ expired = [s \in Sched |-> {}]
    /\ running = [s \in Sched |-> None]
    /\ timeout = [s \in Sched |-> FALSE]
    /\ place = [c \in Co |-> "out"]
    /\ call = [c \in Co |-> None]
    /\ added = [c \in Co |-> FALSE]
    /\ timer = [c \in Co |-> FALSE]

Cpu(c) == running[home[c]] = c
Yield(c) == running' = [running EXCEPT ![home[c]] = None]

(* Nobody but c is in a call that touches direction d of the descriptor.   *)
Free(c, f, d) ==
    \A o \in Co \ {c} : place[o] # "out" /\ call[o].fd = f => d \notin Uses(call[o])

-----------------------------------------------------------------------------
(* The kernel                                                              *)

(* What an epoll reports of a descriptor it watches.                       *)
Mask(s, f, watched) == IF watched = {} THEN {} ELSE ready[f] \cap (watched \cup {"hup"})

(* Setting what epoll s watches reports, as a new edge, what holds already. *)
Watch(s, f, watched) ==
    /\ interest' = [interest EXCEPT ![s][f] = watched]
    /\ edges' = [edges EXCEPT ![s] = IF Mask(s, f, watched) # {} THEN @ \cup {f} ELSE @ \ {f}]

(* Data or room arrives, a connection is made.                             *)
Becomes(f, conditions) ==
    /\ ready' = [ready EXCEPT ![f] = @ \cup conditions]
    /\ edges' = [s \in Sched |->
                  IF conditions \cap (interest[s][f] \cup {"hup"}) # {} /\ interest[s][f] # {}
                  THEN edges[s] \cup {f} ELSE edges[s]]
    /\ UNCHANGED <<home, ctx, interest, open, loops, running, place, call, added, timer>>

Arrive(f, d) ==
    /\ f \in open /\ "hup" \notin ready[f]
    /\ Becomes(f, {d})

(* A broken socket is reported readable and writable, the other end of a   *)
(* pipe as a hang-up alone.                                                *)
HangUp(f) ==
    /\ f \in open /\ "hup" \notin ready[f]
    /\ \/ Becomes(f, Condition)
       \/ ready[f] = {} /\ Becomes(f, {"hup"})

(* A new socket gets the number of a closed one.                           *)
Socket(f) ==
    /\ f \notin open
    /\ open' = open \cup {f}
    /\ UNCHANGED <<home, ctx, interest, edges, ready, loops, running, place, call, added, timer>>

-----------------------------------------------------------------------------
(* Epoll::add_ev_read and add_ev_write, del_ev_read and del_ev_write,      *)
(* del_event                                                               *)

HasEv(s, f, d) == ctx[f][d] # None /\ home[ctx[f][d]] = s

(* Slip: adding one direction forgets the other.                           *)
AddEvForgetsOther(c, f, d) ==
    IF ctx[f][d] # None
    THEN UNCHANGED <<ctx, interest, edges>>
    ELSE /\ ctx' = [ctx EXCEPT ![f][d] = c]
         /\ Watch(home[c], f, {d})

(* epoll_ctl succeeds; it does nothing if somebody is registered already.  *)
AddEv(c, f, d) ==
    IF ctx[f][d] # None
    THEN UNCHANGED <<ctx, interest, edges>>
    ELSE /\ ctx' = [ctx EXCEPT ![f][d] = c]
         /\ Watch(home[c], f,
                  {d} \cup {e \in {Other(d)} : HasEv(home[c], f, e)})

(* epoll_ctl refuses EPOLL_CTL_ADD of what is there, EPOLL_CTL_MOD of what *)
(* is not, and a closed descriptor; EPOLL_CTL_ADD may also fail for want   *)
(* of memory or watches.                                                   *)
AddEvRefused(c, f, d) ==
    /\ ctx[f][d] = None
    /\ \/ f \notin open
       \/ HasEv(home[c], f, Other(d)) # (interest[home[c]][f] # {})

AddEvMayFail(c, f, d) ==
    \/ AddEvRefused(c, f, d)
    \/ ctx[f][d] = None /\ ~ HasEv(home[c], f, Other(d))

DelEv(c, f, d) ==
    IF ctx[f][d] = None
    THEN UNCHANGED <<ctx, interest, edges>>
    ELSE /\ ctx' = [ctx EXCEPT ![f][d] = None]
         /\ IF interest[home[c]][f] = {}      \* ENOENT
            THEN UNCHANGED <<interest, edges>>
            ELSE Watch(home[c], f, {e \in {Other(d)} : HasEv(home[c], f, e)})

DelEvent(c, f) ==
    IF \A d \in Dir : ctx[f][d] = None
    THEN UNCHANGED <<ctx, interest, edges>>
    ELSE /\ ctx' = [ctx EXCEPT ![f] = [d \in Dir |-> None]]
         /\ Watch(home[c], f, {})

-----------------------------------------------------------------------------
(* The calls.  A coroutine tries the system call, waits for the descriptor *)
(* if it would block, and tries again; connect asks for the outcome        *)
(* instead.  The io_event is destroyed when the call returns.              *)

Begin(c, a) ==
    /\ Cpu(c) /\ place[c] = "out"
    /\ a.op # "close" /\ a.fd \in open
    /\ Alone => \A d \in Uses(a) : Free(c, a.fd, d)
    /\ call' = [call EXCEPT ![c] = a]
    /\ place' = [place EXCEPT ![c] = IF a.op \in Polls THEN "add" ELSE "try"]
    /\ UNCHANGED <<home, ctx, interest, kernel, loops, running, added, timer>>

(* The call returns: ~io_event; poll removes what others registered, too.  *)
Return(c) ==
    /\ IF ~ added[c] THEN UNCHANGED <<ctx, interest, edges>>
       ELSE IF call[c].op \in Polls THEN DelEvent(c, call[c].fd)
       ELSE DelEv(c, call[c].fd, DirOf(call[c]))
    /\ added' = [added EXCEPT ![c] = FALSE]
    /\ place' = [place EXCEPT ![c] = "out"]
    /\ call' = [call EXCEPT ![c] = None]

Possible(c) == ready[call[c].fd] \cap {DirOf(call[c]), "hup"} # {}

(* The system call does something and may use the condition up; recvn and  *)
(* send go on after a part.                                                *)
Transfer(c) ==
    /\ Cpu(c) /\ place[c] = "try"
    /\ Possible(c)
    /\ \/ UNCHANGED ready
       \/ /\ "hup" \notin ready[call[c].fd]
          /\ ready' = [ready EXCEPT ![call[c].fd] = @ \ {DirOf(call[c])}]

TrySucceeds(c) ==
    /\ Transfer(c)
    /\ Return(c)
    /\ UNCHANGED <<home, open, loops, running, timer>>

TryPartly(c) ==
    /\ Transfer(c) /\ call[c].op \in {"recv", "send"} /\ "hup" \notin ready[call[c].fd]
    /\ UNCHANGED <<home, ctx, interest, edges, open, loops, running, place, call, added, timer>>

TryFails(c) ==
    /\ Cpu(c) /\ place[c] = "try"
    /\ ~ Possible(c)
    /\ Return(c)
    /\ UNCHANGED <<home, ready, open, loops, running, timer>>

TryBlocks(c) ==
    /\ Cpu(c) /\ place[c] = "try"
    /\ ~ Possible(c)
    /\ place' = [place EXCEPT ![c] = "add"]
    /\ UNCHANGED <<home, ctx, interest, kernel, loops, running, call, added, timer>>

(* Slip: the timer is set when the descriptor is registered, not for the   *)
(* later waits of the same call.                                           *)
WaitTimedOnce(c) ==
    /\ Cpu(c) /\ place[c] = "add"
    /\ IF added[c]
       THEN UNCHANGED <<ctx, interest, edges, timer>>
       ELSE /\ AddEv(c, call[c].fd, DirOf(call[c]))
            /\ timer' = [timer EXCEPT ![c] = call[c].timed]
    /\ added' = [added EXCEPT ![c] = TRUE]
    /\ place' = [place EXCEPT ![c] = "wait"]
    /\ Yield(c)
    /\ UNCHANGED <<home, ready, open, loops, call>>

(* io_event::wait                                                          *)
Wait(c) ==
    /\ Cpu(c) /\ place[c] = "add"
    /\ IF added[c]
       THEN UNCHANGED <<ctx, interest, edges>>
       ELSE /\ ~ AddEvRefused(c, call[c].fd, DirOf(call[c]))
            /\ AddEv(c, call[c].fd, DirOf(call[c]))
    /\ added' = [added EXCEPT ![c] = TRUE]
    /\ timer' = [timer EXCEPT ![c] = call[c].timed]
    /\ place' = [place EXCEPT ![c] = "wait"]
    /\ Yield(c)
    /\ UNCHANGED <<home, ready, open, loops, call>>

(* accept() does not look at what wait() returned; poll goes on without    *)
(* the descriptor, trying and sleeping.                                    *)
WaitFails(c) ==
    /\ Cpu(c) /\ place[c] = "add"
    /\ ~ added[c]
    /\ AddEvMayFail(c, call[c].fd, DirOf(call[c]))
    /\ IF call[c].op = "accept"
       THEN /\ place' = [place EXCEPT ![c] = "try"]
            /\ UNCHANGED <<ctx, interest, edges, call, added>>
       ELSE Return(c)
    /\ UNCHANGED <<home, ready, open, loops, running, timer>>

(* wait() has returned: with a timeout, or connect() has its outcome, or   *)
(* poll says that the descriptor is ready.                                 *)
Woken(c) ==
    /\ Cpu(c) /\ place[c] = "woken"
    /\ IF (call[c].timed /\ timeout[home[c]]) \/ call[c].op \in Polls \cup {"connect"}
       THEN Return(c)
       ELSE /\ place' = [place EXCEPT ![c] = "try"]
            /\ UNCHANGED <<ctx, interest, edges, call, added>>
    /\ UNCHANGED <<home, ready, open, loops, running, timer>>

(* The coroutine does something else, and its scheduler resumes it later.  *)
Leave(c) ==
    /\ Cpu(c) /\ place[c] = "out"
    /\ Yield(c)
    /\ UNCHANGED <<home, ctx, interest, kernel, loops, place, call, added, timer>>

TaskResumed(c) ==
    /\ stage[home[c]] = "tasks" /\ running[home[c]] = None
    /\ place[c] = "out"
    /\ running' = [running EXCEPT ![home[c]] = c]
    /\ UNCHANGED <<home, ctx, interest, kernel, loops, place, call, added, timer>>

-----------------------------------------------------------------------------
(* close and shutdown                                                      *)

(* close() removes the events, and with ms > 0 sleeps before it goes on.   *)
Close(c, f, ms) ==
    /\ Cpu(c) /\ place[c] = "out" /\ f \in open
    /\ Alone => \A d \in Dir : Free(c, f, d)
    /\ DelEvent(c, f)
    /\ call' = [call EXCEPT ![c] = [op |-> "close", fd |-> f, timed |-> ms]]
    /\ IF ms
       THEN /\ timer' = [timer EXCEPT ![c] = TRUE]
            /\ place' = [place EXCEPT ![c] = "linger"]
            /\ Yield(c)
       ELSE /\ place' = [place EXCEPT ![c] = "close"]
            /\ UNCHANGED <<timer, running>>
    /\ UNCHANGED <<home, ready, open, loops, added>>

(* The system call: every epoll forgets the descriptor.                    *)
Closed(f) ==
    /\ open' = open \ {f}
    /\ ready' = [ready EXCEPT ![f] = {}]
    /\ interest' = [s \in Sched |-> [interest[s] EXCEPT ![f] = {}]]
    /\ edges' = [s \in Sched |-> edges[s] \ {f}]

CloseEnds(c) ==
    /\ Cpu(c) /\ place[c] = "close"
    /\ Closed(call[c].fd)
    /\ place' = [place EXCEPT ![c] = "out"]
    /\ call' = [call EXCEPT ![c] = None]
    /\ UNCHANGED <<home, ctx, loops, running, added, timer>>

(* close() called by a thread that is no scheduler.                        *)
CloseByThread(f) ==
    /\ f \in open
    /\ Alone => \A d \in Dir : Free(None, f, d)
    /\ ctx' = [ctx EXCEPT ![f] = [d \in Dir |-> None]]
    /\ Closed(f)
    /\ UNCHANGED <<home, loops, running, place, call, added, timer>>

(* shutdown() of a direction ends it: a read, a write returns at once.     *)
ShutDown(f, ds) == ready' = [ready EXCEPT ![f] = IF "hup" \in @ THEN @ ELSE @ \cup ds]

Shutdown(c, f, ds) ==
    /\ Cpu(c) /\ place[c] = "out" /\ f \in open
    /\ Alone => \A d \in ds : Free(c, f, d)
    /\ IF ds = Dir THEN DelEvent(c, f) ELSE \E d \in ds : DelEv(c, f, d)
    /\ ShutDown(f, ds)
    /\ UNCHANGED <<home, open, loops, running, place, call, added, timer>>

ShutdownByThread(f, ds) ==
    /\ f \in open
    /\ Alone => \A d \in ds : Free(None, f, d)
    /\ ctx' = [ctx EXCEPT ![f] = [d \in Dir |-> IF d \in ds THEN None ELSE @[d]]]
    /\ ShutDown(f, ds)
    /\ UNCHANGED <<home, interest, edges, open, loops, running, place, call, added, timer>>

-----------------------------------------------------------------------------
(* Sched::loop                                                             *)

Idle(s) == running[s] = None

(* A coroutine that is resumed while it waits for a socket returns from    *)
(* the wait; its timer is gone.                                            *)
ResumeWaiting(s, c) ==
    /\ running' = [running EXCEPT ![s] = c]
    /\ place' = [place EXCEPT ![c] = IF @ = "linger" THEN "close" ELSE "woken"]
    /\ timer' = [timer EXCEPT ![c] = FALSE]

Poll(s) ==
    /\ stage[s] = "poll"
    /\ batch' = [batch EXCEPT ![s] =
                   {<<f, Mask(s, f, interest[s][f])>> :
                      f \in {e \in edges[s] : Mask(s, e, interest[s][e]) # {}}}]
    /\ edges' = [edges EXCEPT ![s] = {}]
    /\ stage' = [stage EXCEPT ![s] = "events"]
    /\ UNCHANGED <<home, ctx, interest, ready, open, second, expired, timeout, running, place, call, added, timer>>

(* Slip: the id is used whatever its scheduler is.                         *)
RegisteredAnywhere(s, f, d) == {c \in Co : ctx[f][d] = c}

(* rco and wco of an event                                                 *)
Registered(s, f, d) == {c \in Co : ctx[f][d] = c /\ home[c] = s}
ReaderOf(s, f, mask) == IF "r" \in mask \/ "w" \notin mask THEN Registered(s, f, "r") ELSE {}
WriterOf(s, f, mask) == IF "w" \in mask \/ "r" \notin mask THEN Registered(s, f, "w") ELSE {}

Event(s, f, mask) ==
    /\ stage[s] = "events" /\ Idle(s) /\ second[s] = None
    /\ <<f, mask>> \in batch[s]
    /\ batch' = [batch EXCEPT ![s] = @ \ {<<f, mask>>}]
    /\ LET rco == ReaderOf(s, f, mask)
           wco == WriterOf(s, f, mask)
       IN  IF rco \cup wco = {}
           THEN UNCHANGED <<second, running, place, timer>>
           ELSE \E c \in IF rco # {} THEN rco ELSE wco :
                   /\ ResumeWaiting(s, c)
                   /\ second' = [second EXCEPT ![s] =
                        IF rco # {} /\ wco # {} THEN CHOOSE w \in wco : TRUE ELSE None]
    /\ UNCHANGED <<home, ctx, interest, kernel, stage, expired, timeout, call, added>>

(* wco was looked up before rco ran.                                       *)
EventSecond(s) ==
    /\ stage[s] = "events" /\ Idle(s) /\ second[s] # None
    /\ ResumeWaiting(s, second[s])
    /\ second' = [second EXCEPT ![s] = None]
    /\ UNCHANGED <<home, ctx, interest, kernel, stage, batch, expired, timeout, call, added>>

IoEventsDone(s) ==
    /\ stage[s] = "events" /\ Idle(s) /\ second[s] = None /\ batch[s] = {}
    /\ stage' = [stage EXCEPT ![s] = "tasks"]
    /\ UNCHANGED <<home, ctx, interest, kernel, batch, second, expired, timeout, running, place, call, added, timer>>

(* check_timeout takes the timers that are due.                            *)
CheckTimeout(s, due) ==
    /\ stage[s] = "tasks" /\ Idle(s)
    /\ due \subseteq {c \in Co : home[c] = s /\ timer[c]}
    /\ expired' = [expired EXCEPT ![s] = due]
    /\ timer' = [c \in Co |-> timer[c] /\ c \notin due]
    /\ timeout' = [timeout EXCEPT ![s] = due # {}]
    /\ stage' = [stage EXCEPT ![s] = "timers"]
    /\ UNCHANGED <<home, ctx, interest, kernel, batch, second, running, place, call, added>>

ResumeExpired(s, c) ==
    /\ stage[s] = "timers" /\ Idle(s) /\ c \in expired[s]
    /\ ResumeWaiting(s, c)
    /\ expired' = [expired EXCEPT ![s] = @ \ {c}]
    /\ UNCHANGED <<home, ctx, interest, kernel, stage, batch, second, timeout, call, added>>

IoTimersDone(s) ==
    /\ stage[s] = "timers" /\ Idle(s) /\ expired[s] = {}
    /\ timeout' = [timeout EXCEPT ![s] = FALSE]
    /\ stage' = [stage EXCEPT ![s] = "poll"]
    /\ UNCHANGED <<home, ctx, interest, kernel, batch, second, expired, running, place, call, added, timer>>

-----------------------------------------------------------------------------
InCall(c) == TrySucceeds(c) \/ TryFails(c) \/ TryBlocks(c) \/ Wait(c)
             \/ WaitFails(c) \/ Woken(c) \/ CloseEnds(c)

IoLoopStep(s) ==
    \/ Poll(s) \/ EventSecond(s) \/ IoEventsDone(s) \/ IoTimersDone(s)
    \/ \E f \in Fd, mask \in SUBSET Condition : Event(s, f, mask)
    \/ \E due \in SUBSET Co : CheckTimeout(s, due)
    \/ \E c \in Co : ResumeExpired(s, c)

User(c) ==
    \/ \E a \in Calls : Begin(c, a)
    \/ \E f \in Fd, ms \in BOOLEAN : Close(c, f, ms)
    \/ \E f \in Fd, ds \in SUBSET Dir \ {{}} : Shutdown(c, f, ds)
    \/ TaskResumed(c)

Kernel ==
    \E f \in Fd :
       \/ Socket(f) \/ CloseByThread(f) \/ HangUp(f)
       \/ \E d \in Dir : Arrive(f, d)
       \/ \E ds \in SUBSET Dir \ {{}} : ShutdownByThread(f, ds)

SockNext == Kernel \/ (\E s \in Sched : IoLoopStep(s)) \/ (\E c \in Co : InCall(c) \/ TryPartly(c) \/ Leave(c) \/ User(c))

SockSpec == SockInit /\ [][SockNext]_sockVars

(* A coroutine that runs yields in the end, a scheduler's loop goes round, *)
(* and a timer that is set is due at some time.  epoll_ctl does not fail   *)
(* for ever: accept() would keep its scheduler busy.  recvn and send have  *)
(* so much to transfer.  Nothing else is assumed of the kernel, and nobody *)
(* has to begin a call.                                                    *)
SockFairness ==
    /\ \A c \in Co : WF_sockVars(InCall(c)) /\ SF_sockVars(Wait(c) \/ Leave(c))
    /\ \A s \in Sched : SF_sockVars(IoLoopStep(s))
    /\ \A c \in Co : SF_sockVars(\E due \in SUBSET Co : c \in due /\ CheckTimeout(home[c], due))

SockFairSpec == SockSpec /\ SockFairness

-----------------------------------------------------------------------------
(* A coroutine that waits for a direction of a descriptor is the one the   *)
(* epoll's event of it will find, and its epoll watches that direction.    *)
WaiterRegistered ==
    \A c \in Co : place[c] = "wait" =>
       /\ ctx[call[c].fd][DirOf(call[c])] = c
       /\ DirOf(call[c]) \in interest[home[c]][call[c].fd]

(* A registration is that of a coroutine still in the call it was made     *)
(* for, and what an epoll watches is what is registered with it.           *)
RegistrationLive ==
    /\ \A f \in Fd, d \in Dir : ctx[f][d] # None =>
          LET c == ctx[f][d]
          IN  added[c] /\ call[c].fd = f /\ DirOf(call[c]) = d
    /\ \A s \in Sched, f \in Fd : interest[s][f] = {d \in Dir : HasEv(s, f, d)}

(* The event that lets a waiting coroutine go on is on its way to it.      *)
Coming(s, c) ==
    \/ second[s] = c
    \/ \E e \in batch[s] : c \in ReaderOf(s, e[1], e[2]) \cup WriterOf(s, e[1], e[2])
    \/ call[c].fd \in edges[s]

EventNotLost ==
    \A c \in Co : place[c] = "wait" /\ Possible(c) => Coming(home[c], c)

(* What lets a waiting coroutine go on reaches it: it is registered, with  *)
(* its epoll and in the table, nothing that is over is, and an event that  *)
(* has happened is on its way.                                             *)
EventsReachWaiters == WaiterRegistered /\ RegistrationLive /\ EventNotLost

(* The loop resumes a coroutine for an event or a timeout only while it    *)
(* waits for one, on its own scheduler.                                    *)
ResumedOnlyWaiting ==
    [][\A s \in Sched : running[s] = None /\ running'[s] # None =>
          LET c == running'[s]
          IN  /\ home[c] = s
              /\ place[c] \in CASE stage[s] = "events" -> {"wait"}
                              [] stage[s] = "tasks"  -> {"out"}
                              [] stage[s] = "timers" -> {"wait", "linger"}]_sockVars

(* A wait with a timeout, or for a descriptor that is ready, ends.         *)
WaitEnds ==
    \A c \in Co : place[c] = "wait" /\ (call[c].timed \/ Possible(c)) ~> place[c] # "wait"
=============================================================================
