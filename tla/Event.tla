------------------------------- MODULE Event -------------------------------
(***************************************************************************)
(* event_impl of src/co/co.cc: an event coroutines and threads wait for,   *)
(* with or without a timeout, together with the part of the scheduler that *)
(* decides whether a signal or the timer wakes a coroutine: check_timeout  *)
(* (src/co/sched.cc) and the waitx_t both of them compare-and-swap.        *)
(*                                                                         *)
(* What happens under _m is one action.  The compare-and-swaps signal()    *)
(* does under _m are part of it too: it stops at the first that succeeds,  *)
(* and timeouts that get in between could as well have come before it.     *)
(* Those it does after releasing _m are actions of their own.              *)
(***************************************************************************)
EXTENDS Naturals, Sequences, SequencesExt, FiniteSets

CONSTANTS Coroutine, Thread,  \* those that wait and signal
          Sched, SchedOf,     \* schedulers, and each coroutine's
          Waitx,              \* addresses malloc may give a waitx_t
          Timed,              \* those that also call wait(ms) with a finite ms
          SpuriousWakeups,    \* whether _cv.wait may return without a notify
          MaxWt,              \* bound: the largest _wt (spurious wakeups leak it)
          None                \* nullptr

Proc == Coroutine \cup Thread

ASSUME EventAssumption ==
    /\ Coroutine \cap Thread = {}
    /\ IsFiniteSet(Thread)
    /\ SchedOf \in [Coroutine -> Sched]
    /\ Timed \subseteq Proc
    /\ SpuriousWakeups \in BOOLEAN
    /\ MaxWt \in Nat
    /\ None \notin Coroutine \cup Waitx

VARIABLES manualReset,  \* _manual_reset
          signaled,  \* _signaled
          wt,        \* _wt
          newer,     \* threads inside wait() that read an _sn older than _sn
          wc,        \* _wc
          state,     \* state of each waitx_t, "free" if there is none
          owner,     \* co of each waitx_t
          waitx,     \* co->waitx
          timer,     \* those inside a wait(ms) whose deadline has not passed
          ready,     \* ready[s]: coroutines added by add_ready_task
          expired,   \* expired[s]: coroutines check_timeout has collected
          running,   \* running[s]: the coroutine s has resumed, or None
          pc,        \* where each process is in wait() or signal()
          h          \* h[p]: the list p's signal() still has to go through

event == <<manualReset, signaled, wt, newer, wc>>
heap == <<state, owner>>
scheds == <<timer, ready, expired, running>>
vars == <<event, heap, waitx, scheds, pc, h>>

(* idle   outside the event       sig   in the last loop of signal()       *)
(* enq    queued, not yielded     susp  yielded inside wait()              *)
(* back   resumed as ready        late  resumed because of a timeout       *)
(* cv     inside _cv.wait or wait_for; woken, over: it is to return because *)
(*        of a notify, or because of the timeout, and needs _m first        *)
PcState == {"idle", "sig", "enq", "susp", "back", "late", "cv", "woken", "over"}

TypeOK ==
    /\ manualReset \in BOOLEAN
    /\ signaled \in BOOLEAN
    /\ wt \in Nat
    /\ newer \subseteq Thread
    /\ wc \in Seq(Waitx)
    /\ state \in [Waitx -> {"free", "wait", "ready", "timeout"}]
    /\ owner \in [Waitx -> Coroutine \cup {None}]
    /\ waitx \in [Coroutine -> Waitx \cup {None}]
    /\ timer \subseteq Timed
    /\ ready \in [Sched -> Seq(Coroutine)]
    /\ expired \in [Sched -> Seq(Coroutine)]
    /\ running \in [Sched -> Coroutine \cup {None}]
    /\ pc \in [Proc -> PcState]
    /\ h \in [Proc -> Seq(Waitx)]

Init ==
    /\ manualReset \in BOOLEAN
    /\ signaled \in BOOLEAN
    /\ wt = 0 /\ newer = {}
    /\ wc = <<>>
    /\ state = [w \in Waitx |-> "free"]
    /\ owner = [w \in Waitx |-> None]
    /\ waitx = [c \in Coroutine |-> None]
    /\ timer = {}
    /\ ready = [s \in Sched |-> <<>>]
    /\ expired = [s \in Sched |-> <<>>]
    /\ running = [s \in Sched |-> None]
    /\ pc = [p \in Proc |-> "idle"]
    /\ h = [p \in Proc |-> <<>>]

OnCpu(p) == p \in Coroutine => running[SchedOf[p]] = p

Goto(p, l) == pc' = [pc EXCEPT ![p] = l]

AddReady(c) ==
    ready' = [ready EXCEPT ![SchedOf[c]] = Append(@, c)]

-----------------------------------------------------------------------------
(* wait(): the part both kinds of callers share                            *)

WaitSignaled(p) ==
    /\ OnCpu(p) /\ pc[p] = "idle"
    /\ signaled
    /\ signaled' = manualReset
    /\ UNCHANGED <<manualReset, wt, newer, wc, heap, waitx, scheds, pc, h>>

(* The deadline of a wait that may have one.                               *)
StartTimer(p) == timer' \in {timer} \cup {timer \cup {q} : q \in {p} \cap Timed}

-----------------------------------------------------------------------------
(* wait() of a coroutine                                                   *)

(* The first n waitx_t of _wc have timed out, and no more at the front.    *)
TimedOutPrefix(n) ==
    /\ \A i \in 1..n : state[wc[i]] = "timeout"
    /\ n < Len(wc) => state[wc[n + 1]] # "timeout"

(* The first of them is used again, the others are freed.                  *)
WaitReuse(c) ==
    /\ OnCpu(c) /\ pc[c] = "idle"
    /\ ~ signaled
    /\ \E n \in 1..Len(wc) :
          LET x == wc[1]
              freed == {wc[i] : i \in 2..n}
          IN  /\ TimedOutPrefix(n)
              /\ wc' = Append(SubSeq(wc, n + 1, Len(wc)), x)
              /\ state' = [w \in Waitx |-> IF w = x THEN "wait"
                                           ELSE IF w \in freed THEN "free"
                                           ELSE state[w]]
              /\ waitx' = [waitx EXCEPT ![c] = x]
    /\ StartTimer(c)
    /\ Goto(c, "enq")
    /\ UNCHANGED <<manualReset, signaled, wt, newer, owner, ready, expired, running, h>>

WaitNew(c) ==
    /\ OnCpu(c) /\ pc[c] = "idle"
    /\ ~ signaled
    /\ TimedOutPrefix(0)
    /\ \E x \in Waitx :
          /\ state[x] = "free"
          /\ state' = [state EXCEPT ![x] = "wait"]
          /\ owner' = [owner EXCEPT ![x] = c]
          /\ waitx' = [waitx EXCEPT ![c] = x]
          /\ wc' = Append(wc, x)
    /\ StartTimer(c)
    /\ Goto(c, "enq")
    /\ UNCHANGED <<manualReset, signaled, wt, newer, ready, expired, running, h>>

(* yield(); the timer was added just before and cannot fire earlier.       *)
WaitYield(c) ==
    /\ OnCpu(c) /\ pc[c] = "enq"
    /\ running' = [running EXCEPT ![SchedOf[c]] = None]
    /\ Goto(c, "susp")
    /\ UNCHANGED <<event, heap, waitx, timer, ready, expired, h>>

(* Back from yield(): the coroutine frees its waitx_t unless timeout().    *)
WaitReturn(c) ==
    /\ OnCpu(c) /\ pc[c] \in {"back", "late"}
    /\ state' = IF pc[c] = "back" THEN [state EXCEPT ![waitx[c]] = "free"] ELSE state
    /\ waitx' = [waitx EXCEPT ![c] = None]
    /\ Goto(c, "idle")
    /\ UNCHANGED <<event, owner, scheds, h>>

-----------------------------------------------------------------------------
(* The scheduler: ready coroutines, timers, coroutines outside the event   *)

(* resume() of a ready coroutine removes its timer.                        *)
ResumeReady(s) ==
    /\ running[s] = None
    /\ expired[s] = <<>>
    /\ ready[s] # <<>>
    /\ LET c == Head(ready[s])
       IN  /\ pc[c] = "susp"
           /\ running' = [running EXCEPT ![s] = c]
           /\ timer' = timer \ {c}
           /\ Goto(c, "back")
    /\ ready' = [ready EXCEPT ![s] = Tail(@)]
    /\ UNCHANGED <<event, heap, waitx, expired, h>>

(* Slip: a coroutine that a signal has claimed is collected all the same.  *)
CheckTimeoutNoCas(c) ==
    /\ running[SchedOf[c]] = None
    /\ c \in timer /\ pc[c] = "susp"
    /\ timer' = timer \ {c}
    /\ state' = [state EXCEPT ![waitx[c]] = "timeout"]
    /\ expired' = [expired EXCEPT ![SchedOf[c]] = Append(@, c)]
    /\ UNCHANGED <<event, owner, waitx, ready, running, pc, h>>

(* check_timeout: the timer is gone, but its coroutine is resumed only if  *)
(* no signal has claimed its waitx_t.                                      *)
CheckTimeout(c) ==
    /\ running[SchedOf[c]] = None
    /\ c \in timer /\ pc[c] = "susp"
    /\ timer' = timer \ {c}
    /\ IF state[waitx[c]] = "wait"
       THEN /\ state' = [state EXCEPT ![waitx[c]] = "timeout"]
            /\ expired' = [expired EXCEPT ![SchedOf[c]] = Append(@, c)]
       ELSE UNCHANGED <<state, expired>>
    /\ UNCHANGED <<event, owner, waitx, ready, running, pc, h>>

(* The loop then resumes what it collected, with _timeout set.             *)
ResumeExpired(s) ==
    /\ running[s] = None
    /\ expired[s] # <<>>
    /\ LET c == Head(expired[s])
       IN  /\ running' = [running EXCEPT ![s] = c]
           /\ Goto(c, "late")
    /\ expired' = [expired EXCEPT ![s] = Tail(@)]
    /\ UNCHANGED <<event, heap, waitx, timer, ready, h>>

(* Outside the event a coroutine yields and is resumed at will.            *)
Dispatch(c) ==
    /\ running[SchedOf[c]] = None
    /\ pc[c] = "idle"
    /\ running' = [running EXCEPT ![SchedOf[c]] = c]
    /\ UNCHANGED <<event, heap, waitx, timer, ready, expired, pc, h>>

Leave(c) ==
    /\ running[SchedOf[c]] = c
    /\ pc[c] = "idle"
    /\ running' = [running EXCEPT ![SchedOf[c]] = None]
    /\ UNCHANGED <<event, heap, waitx, timer, ready, expired, pc, h>>

-----------------------------------------------------------------------------
(* wait() of a thread                                                      *)

WaitThread(t) ==
    /\ pc[t] = "idle"
    /\ ~ signaled
    /\ wt < MaxWt
    /\ wt' = wt + 1
    /\ newer' = newer \ {t}
    /\ StartTimer(t)
    /\ Goto(t, "cv")
    /\ UNCHANGED <<manualReset, signaled, wc, heap, waitx, ready, expired, running, h>>

SpuriousWakeup(t) ==
    /\ SpuriousWakeups
    /\ pc[t] = "cv"
    /\ Goto(t, "woken")
    /\ UNCHANGED <<event, heap, waitx, scheds, h>>

DeadlinePasses(t) ==
    /\ pc[t] = "cv"
    /\ t \in timer
    /\ Goto(t, "over")
    /\ UNCHANGED <<event, heap, waitx, scheds, h>>

(* wait() returns r.  wait_for reports a timeout also to a thread that was *)
(* notified, if the deadline has passed by the time it looks.              *)
ThreadReturn(t, r) ==
    /\ \/ pc[t] = "woken" /\ (r \/ t \in timer)
       \/ pc[t] = "over" /\ ~ r
    /\ wt' = IF ~ r /\ t \notin newer THEN wt - 1 ELSE wt
    /\ timer' = timer \ {t}
    /\ Goto(t, "idle")
    /\ UNCHANGED <<manualReset, signaled, newer, wc, heap, waitx, ready, expired, running, h>>

-----------------------------------------------------------------------------
(* signal() and reset()                                                    *)

InWait(t) == pc[t] \in {"cv", "woken", "over"}

(* Slips: signal() to threads with n for _wt, and nw for those that see a  *)
(* new _sn.                                                                *)
SignalThreadsWith(p, n, nw) ==
    /\ OnCpu(p) /\ pc[p] = "idle"
    /\ wt > 0
    /\ wt' = n /\ newer' = nw /\ wc' = <<>>
    /\ signaled' = (signaled /\ manualReset)
    /\ h' = [h EXCEPT ![p] = wc]
    /\ pc' = [q \in Proc |-> IF q = p /\ wc # <<>> THEN "sig"
                             ELSE IF q \in Thread /\ pc[q] = "cv" THEN "woken"
                             ELSE pc[q]]
    /\ UNCHANGED <<manualReset, heap, waitx, scheds>>
SignalThreadsKeepsCount(p) ==
    SignalThreadsWith(p, wt, newer \cup {t \in Thread : InWait(t)})
SignalThreadsSameSn(p) == SignalThreadsWith(p, 0, newer)

(* Threads are waiting: they are notified, and the whole list of waiting   *)
(* coroutines is left for after the release of _m.                         *)
SignalThreads(p) ==
    /\ OnCpu(p) /\ pc[p] = "idle"
    /\ wt > 0
    /\ wt' = 0
    /\ newer' = newer \cup {t \in Thread : InWait(t)}
    /\ signaled' = (signaled /\ manualReset)
    /\ wc' = <<>>
    /\ h' = [h EXCEPT ![p] = wc]
    /\ pc' = [q \in Proc |-> IF q = p /\ wc # <<>> THEN "sig"
                             ELSE IF q \in Thread /\ pc[q] = "cv" THEN "woken"
                             ELSE pc[q]]
    /\ UNCHANGED <<manualReset, heap, waitx, scheds>>

(* The first waiting coroutine that has not timed out, if any.             *)
FirstWaiting == {i \in DOMAIN wc : /\ state[wc[i]] = "wait"
                                   /\ \A j \in 1..(i - 1) : state[wc[j]] # "wait"}

(* No thread waits, but a coroutine does: it is made ready under _m.       *)
SignalCoroutine(p) ==
    /\ OnCpu(p) /\ pc[p] = "idle"
    /\ wt = 0
    /\ \E i \in FirstWaiting :
          /\ state' = [w \in Waitx |-> IF w = wc[i] THEN "ready"
                                       ELSE IF \E j \in 1..(i - 1) : wc[j] = w THEN "free"
                                       ELSE state[w]]
          /\ AddReady(owner[wc[i]])
          /\ h' = [h EXCEPT ![p] = SubSeq(wc, i + 1, Len(wc))]
          /\ Goto(p, IF i < Len(wc) THEN "sig" ELSE "idle")
    /\ wc' = <<>>
    /\ signaled' = (signaled /\ manualReset)
    /\ UNCHANGED <<manualReset, wt, newer, owner, waitx, timer, expired, running>>

(* Nobody waits, or only coroutines that have timed out: the event is      *)
(* marked as signaled.                                                     *)
SignalNobody(p) ==
    /\ OnCpu(p) /\ pc[p] = "idle"
    /\ wt = 0
    /\ \A i \in DOMAIN wc : state[wc[i]] # "wait"
    /\ signaled' = TRUE
    /\ wc' = <<>>
    /\ state' = [w \in Waitx |-> IF w \in Range(wc) THEN "free" ELSE state[w]]
    /\ UNCHANGED <<manualReset, wt, newer, owner, waitx, scheds, pc, h>>

SignalLocked(p) == SignalThreads(p) \/ SignalCoroutine(p) \/ SignalNobody(p)

(* Slip: the state is changed but the coroutine not made ready.            *)
SignalNextLost(p) ==
    /\ OnCpu(p) /\ pc[p] = "sig"
    /\ state' = [state EXCEPT ![Head(h[p])] = IF @ = "wait" THEN "ready" ELSE "free"]
    /\ h' = [h EXCEPT ![p] = Tail(@)]
    /\ Goto(p, IF Len(h[p]) = 1 THEN "idle" ELSE "sig")
    /\ UNCHANGED <<event, owner, waitx, scheds>>

(* One waitx_t of the list, after _m was released.                         *)
SignalNext(p) ==
    /\ OnCpu(p) /\ pc[p] = "sig"
    /\ LET w == Head(h[p])
       IN  IF state[w] = "wait"
           THEN /\ state' = [state EXCEPT ![w] = "ready"]
                /\ AddReady(owner[w])
           ELSE /\ state' = [state EXCEPT ![w] = "free"]
                /\ UNCHANGED ready
    /\ h' = [h EXCEPT ![p] = Tail(@)]
    /\ Goto(p, IF Len(h[p]) = 1 THEN "idle" ELSE "sig")
    /\ UNCHANGED <<event, owner, waitx, timer, expired, running>>

reset(p) ==
    /\ OnCpu(p) /\ pc[p] = "idle"
    /\ signaled' = FALSE
    /\ UNCHANGED <<manualReset, wt, newer, wc, heap, waitx, scheds, pc, h>>

-----------------------------------------------------------------------------
CoroutineStep(c) == WaitYield(c) \/ WaitReturn(c) \/ SignalNext(c)
ThreadStep(t) == SignalNext(t) \/ \E r \in BOOLEAN : ThreadReturn(t, r)
SchedStep(s) == ResumeReady(s) \/ ResumeExpired(s)

Next ==
    \/ \E p \in Proc : WaitSignaled(p) \/ SignalLocked(p) \/ reset(p)
    \/ \E c \in Coroutine :
          \/ WaitReuse(c) \/ WaitNew(c) \/ CoroutineStep(c)
          \/ CheckTimeout(c) \/ Dispatch(c) \/ Leave(c)
    \/ \E t \in Thread :
          WaitThread(t) \/ SpuriousWakeup(t) \/ DeadlinePasses(t) \/ ThreadStep(t)
    \/ \E s \in Sched : SchedStep(s)

Spec == Init /\ [][Next]_vars

(* A coroutine that is resumed returns to its scheduler, schedulers and    *)
(* threads keep running, and clocks go on.  Schedulers also run other      *)
(* coroutines in between, but take the ready and the expired ones in turn. *)
Fairness ==
    /\ \A c \in Coroutine :
          WF_vars(CoroutineStep(c)) /\ WF_vars(Leave(c))
    /\ \A c \in Coroutine \cap Timed : SF_vars(CheckTimeout(c))
    /\ \A t \in Thread : WF_vars(ThreadStep(t)) /\ WF_vars(DeadlinePasses(t))
    /\ \A s \in Sched : SF_vars(SchedStep(s))

FairSpec == Spec /\ Fairness

-----------------------------------------------------------------------------
(* The waitx_t that signal() can still find.                               *)
Queued == Range(wc) \cup UNION {Range(h[p]) : p \in Proc}
InQueue(c, q) == c \in Range(q[SchedOf[c]])

(* No coroutine sleeps for good: a suspended one is ready, has timed out,  *)
(* or is one a timer or the next signal will wake.                         *)
SuspendedCanWake ==
    \A c \in Coroutine : pc[c] = "susp" =>
       \/ InQueue(c, ready) \/ InQueue(c, expired)
       \/ c \in timer
       \/ \E w \in Queued : state[w] = "wait" /\ owner[w] = c

(* A signal and a timeout never both resume a coroutine, and neither       *)
(* resumes one that is not waiting: that would run it from a stale context.*)
WokenOnce ==
    \A s \in Sched :
       LET woken == ready[s] \o expired[s]
       IN  /\ IsInjective(woken)
           /\ \A c \in Range(woken) : pc[c] \in {"enq", "susp"}

(* The waitx_t of a coroutine is not freed under it, nor left behind: each *)
(* is in one list once, or has been signaled and belongs to the coroutine. *)
HeapSafe ==
    /\ IsInjective(wc)
    /\ \A p \in Proc : IsInjective(h[p]) /\ Range(wc) \cap Range(h[p]) = {}
    /\ \A p, q \in Proc : p # q => Range(h[p]) \cap Range(h[q]) = {}
    /\ \A w \in Waitx :
          /\ w \in Queued <=> state[w] \in {"wait", "timeout"}
          /\ state[w] \in {"wait", "ready"} =>
                /\ waitx[owner[w]] = w
                /\ pc[owner[w]] \in {"enq", "susp", "back"}

(* wait() returns true only to those who were waiting when a signal came.  *)
TrueOnlyIfSignaled ==
    /\ \A c \in Coroutine : pc[c] = "back" => state[waitx[c]] = "ready"
    /\ \A t \in Thread : pc[t] = "woken" => t \in newer

(* A signal is not lost: it marks the event, or there is somebody new whom *)
(* it makes return true.                                                   *)
Answered ==
    {c \in Coroutine : waitx[c] # None /\ state[waitx[c]] = "ready"}
    \cup {t \in newer : pc[t] = "woken"}
SignalAnswered ==
    (\E p \in Proc : SignalLocked(p)) =>
       signaled' \/ \E q \in Proc : q \in Answered' /\ q \notin Answered
SignalNotLost == [][SignalAnswered]_vars

(* Everybody who was waiting when signal() took the lists returns, the     *)
(* coroutines it has not come to yet included; and a wait(ms) returns      *)
(* although no signal comes.                                               *)
Called(p) ==
    IF p \in Thread THEN InWait(p) /\ p \in newer
    ELSE waitx[p] # None /\ (state[waitx[p]] = "ready" \/ waitx[p] \in Queued \ Range(wc))
WaitsEnd ==
    /\ \A p \in Proc : Called(p) ~> pc[p] = "idle"
    /\ \A p \in Timed : p \in timer ~> pc[p] = "idle"
=============================================================================
