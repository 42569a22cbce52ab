------------------------------- MODULE Mutex -------------------------------
(***************************************************************************)
(* mutex_impl of src/co/co.cc: a mutex shared by coroutines, which must    *)
(* not block the thread that schedules them, and by plain threads, which   *)
(* may.  Everything the code does between _m.lock() and _m.unlock() is one *)
(* action; what it does after releasing _m (yield, add_ready_task,         *)
(* notify_one) is an action of its own, so that any other process can get  *)
(* in between.                                                             *)
(*                                                                         *)
(* A scheduler is one thread that resumes one coroutine at a time; its     *)
(* inbox of ready coroutines is the queue SchedLoop implements.            *)
(***************************************************************************)
EXTENDS Sequences, Naturals

CONSTANTS Coroutine,   \* coroutines that use the mutex
          Thread,      \* threads that are not schedulers and use it too
          Sched,       \* schedulers
          SchedOf,     \* the scheduler each coroutine was created on
          NullPtr,     \* a thread's entry in _wq
          NoCo         \* _running of a scheduler that is in its own loop

ASSUME MutexAssumption ==
    /\ SchedOf \in [Coroutine -> Sched]
    /\ Coroutine \cap Thread = {}
    /\ NullPtr \notin Coroutine
    /\ NoCo \notin Coroutine

Proc == Coroutine \cup Thread

VARIABLES lock,     \* _lock: 0 unlocked, 1 locked, 2 notify other thread
          wq,       \* _wq: waiting coroutines, NullPtr for a waiting thread
          ready,    \* ready[s]: coroutines added to s by add_ready_task
          running,  \* running[s]: the coroutine s has resumed, or NoCo
          pc,       \* where each process is in lock() or unlock()
          target    \* target[p]: the local variable co of p's unlock()

vars == <<lock, wq, ready, running, pc, target>>

(* idle    outside the mutex              cs      between lock and unlock  *)
(* enq     queued, not yet yielded        susp    yielded inside lock()    *)
(* wake    before add_ready_task          notify  before _cv.notify_one()  *)
(* cvwait  inside _cv.wait(g)             woken   about to test _lock == 2 *)
PcState == {"idle", "enq", "susp", "cs", "wake", "notify", "cvwait", "woken"}

TypeOK ==
    /\ lock \in 0..2
    /\ wq \in Seq(Coroutine \cup {NullPtr})
    /\ ready \in [Sched -> Seq(Coroutine)]
    /\ running \in [Sched -> Coroutine \cup {NoCo}]
    /\ pc \in [Proc -> PcState]
    /\ target \in [Proc -> Coroutine \cup {NoCo}]

Init ==
    /\ lock = 0
    /\ wq = <<>>
    /\ ready = [s \in Sched |-> <<>>]
    /\ running = [s \in Sched |-> NoCo]
    /\ pc = [p \in Proc |-> "idle"]
    /\ target = [p \in Proc |-> NoCo]

(* A thread can always take a step, a coroutine only while it is resumed.  *)
OnCpu(p) == p \in Coroutine => running[SchedOf[p]] = p

-----------------------------------------------------------------------------
(* Slips a change to the code could introduce, one per property: each      *)
(* replaces the operation it is named after, and TLC then refutes that     *)
(* property.                                                               *)

(* The lock is released before it is handed over.                          *)
UnlockToCoroutineReleasing(p) ==
    /\ OnCpu(p) /\ pc[p] = "cs" /\ wq # <<>> /\ Head(wq) # NullPtr
    /\ wq' = Tail(wq)
    /\ lock' = 0
    /\ target' = [target EXCEPT ![p] = Head(wq)]
    /\ pc' = [pc EXCEPT ![p] = "wake"]
    /\ UNCHANGED <<ready, running>>

(* The head of _wq is read but not popped.                                 *)
UnlockToCoroutineNoPop(p) ==
    /\ OnCpu(p) /\ pc[p] = "cs" /\ wq # <<>> /\ Head(wq) # NullPtr
    /\ target' = [target EXCEPT ![p] = Head(wq)]
    /\ pc' = [pc EXCEPT ![p] = "wake"]
    /\ UNCHANGED <<lock, wq, ready, running>>

(* _lock is the 0 of an ordinary release when the head of _wq is a thread. *)
UnlockToThreadReleasing(p) ==
    /\ OnCpu(p) /\ pc[p] = "cs" /\ wq # <<>> /\ Head(wq) = NullPtr
    /\ wq' = Tail(wq)
    /\ lock' = 0
    /\ pc' = [pc EXCEPT ![p] = "notify"]
    /\ UNCHANGED <<ready, running, target>>

(* The popped coroutine is not added to its scheduler.                     *)
UnlockAddReadyLost(p) ==
    /\ OnCpu(p) /\ pc[p] = "wake"
    /\ target' = [target EXCEPT ![p] = NoCo]
    /\ pc' = [pc EXCEPT ![p] = "idle"]
    /\ UNCHANGED <<lock, wq, ready, running>>

-----------------------------------------------------------------------------
(* lock() and try_lock()                                                   *)

LockFast(p) ==
    /\ OnCpu(p)
    /\ pc[p] = "idle"
    /\ lock = 0
    /\ lock' = 1
    /\ pc' = [pc EXCEPT ![p] = "cs"]
    /\ UNCHANGED <<wq, ready, running, target>>

TryLock(p) ==
    /\ OnCpu(p)
    /\ pc[p] = "idle"
    /\ lock' = IF lock = 0 THEN 1 ELSE lock
    /\ pc' = [pc EXCEPT ![p] = IF lock = 0 THEN "cs" ELSE "idle"]
    /\ UNCHANGED <<wq, ready, running, target>>

(* A coroutine queues itself and releases _m; from here on the owner may   *)
(* pop it, although it has not yielded yet.                                *)
LockEnqueue(c) ==
    /\ OnCpu(c)
    /\ pc[c] = "idle"
    /\ lock # 0
    /\ wq' = Append(wq, c)
    /\ pc' = [pc EXCEPT ![c] = "enq"]
    /\ UNCHANGED <<lock, ready, running, target>>

LockYield(c) ==
    /\ OnCpu(c)
    /\ pc[c] = "enq"
    /\ running' = [running EXCEPT ![SchedOf[c]] = NoCo]
    /\ pc' = [pc EXCEPT ![c] = "susp"]
    /\ UNCHANGED <<lock, wq, ready, target>>

(* A thread queues a null pointer; _cv.wait releases _m and sleeps.        *)
LockWait(t) ==
    /\ pc[t] = "idle"
    /\ lock # 0
    /\ wq' = Append(wq, NullPtr)
    /\ pc' = [pc EXCEPT ![t] = "cvwait"]
    /\ UNCHANGED <<lock, ready, running, target>>

(* A condition variable may wake a thread nobody has notified.             *)
SpuriousWakeup(t) ==
    /\ pc[t] = "cvwait"
    /\ pc' = [pc EXCEPT ![t] = "woken"]
    /\ UNCHANGED <<lock, wq, ready, running, target>>

LockRecheck(t) ==
    /\ pc[t] = "woken"
    /\ lock' = IF lock = 2 THEN 1 ELSE lock
    /\ pc' = [pc EXCEPT ![t] = IF lock = 2 THEN "cs" ELSE "cvwait"]
    /\ UNCHANGED <<wq, ready, running, target>>

-----------------------------------------------------------------------------
(* unlock(): the part under _m, then the part after it                     *)

UnlockFree(p) ==
    /\ OnCpu(p)
    /\ pc[p] = "cs"
    /\ wq = <<>>
    /\ lock' = 0
    /\ pc' = [pc EXCEPT ![p] = "idle"]
    /\ UNCHANGED <<wq, ready, running, target>>

(* _lock stays 1: the lock is now the popped coroutine's.                  *)
UnlockToCoroutine(p) ==
    /\ OnCpu(p)
    /\ pc[p] = "cs"
    /\ wq # <<>>
    /\ Head(wq) # NullPtr
    /\ wq' = Tail(wq)
    /\ target' = [target EXCEPT ![p] = Head(wq)]
    /\ pc' = [pc EXCEPT ![p] = "wake"]
    /\ UNCHANGED <<lock, ready, running>>

UnlockToThread(p) ==
    /\ OnCpu(p)
    /\ pc[p] = "cs"
    /\ wq # <<>>
    /\ Head(wq) = NullPtr
    /\ wq' = Tail(wq)
    /\ lock' = 2
    /\ pc' = [pc EXCEPT ![p] = "notify"]
    /\ UNCHANGED <<ready, running, target>>

Unlock(p) == UnlockFree(p) \/ UnlockToCoroutine(p) \/ UnlockToThread(p)

UnlockAddReady(p) ==
    /\ OnCpu(p)
    /\ pc[p] = "wake"
    /\ ready' = [ready EXCEPT ![SchedOf[target[p]]] = Append(@, target[p])]
    /\ target' = [target EXCEPT ![p] = NoCo]
    /\ pc' = [pc EXCEPT ![p] = "idle"]
    /\ UNCHANGED <<lock, wq, running>>

UnlockNotify(p) ==
    /\ OnCpu(p)
    /\ pc[p] = "notify"
    /\ LET asleep == {t \in Thread : pc[t] = "cvwait"}
       IN  \/ /\ asleep = {}
              /\ pc' = [pc EXCEPT ![p] = "idle"]
           \/ \E t \in asleep :
                 pc' = [pc EXCEPT ![p] = "idle", ![t] = "woken"]
    /\ UNCHANGED <<lock, wq, ready, running, target>>

-----------------------------------------------------------------------------
(* The scheduler threads                                                   *)

(* Sched::loop resumes the next ready coroutine, which returns from the    *)
(* yield() it is in: for a waiter of this mutex, lock() returns.           *)
Resume(s) ==
    /\ running[s] = NoCo
    /\ ready[s] # <<>>
    /\ running' = [running EXCEPT ![s] = Head(ready[s])]
    /\ ready' = [ready EXCEPT ![s] = Tail(@)]
    /\ pc' = [pc EXCEPT ![Head(ready[s])] = IF @ = "susp" THEN "cs" ELSE @]
    /\ UNCHANGED <<lock, wq, target>>

(* Outside lock() and unlock() a coroutine may yield for another reason    *)
(* (sleep, I/O), also while it holds the mutex, and is resumed later.      *)
Park(c) ==
    /\ running[SchedOf[c]] = c
    /\ pc[c] \in {"idle", "cs"}
    /\ running' = [running EXCEPT ![SchedOf[c]] = NoCo]
    /\ UNCHANGED <<lock, wq, ready, pc, target>>

Unpark(c) ==
    /\ running[SchedOf[c]] = NoCo
    /\ pc[c] \in {"idle", "cs"}
    /\ running' = [running EXCEPT ![SchedOf[c]] = c]
    /\ UNCHANGED <<lock, wq, ready, pc, target>>

-----------------------------------------------------------------------------
Next ==
    \/ \E p \in Proc :
          \/ LockFast(p) \/ TryLock(p)
          \/ Unlock(p) \/ UnlockAddReady(p) \/ UnlockNotify(p)
    \/ \E c \in Coroutine :
          LockEnqueue(c) \/ LockYield(c) \/ Park(c) \/ Unpark(c)
    \/ \E t \in Thread :
          LockWait(t) \/ SpuriousWakeup(t) \/ LockRecheck(t)
    \/ \E s \in Sched : Resume(s)

Spec == Init /\ [][Next]_vars

(* Threads keep running; a scheduler resumes every ready coroutine once    *)
(* per iteration of its loop and gives a sleeping coroutine its turn again *)
(* (Resume, Unpark); a coroutine does not run forever without yielding,    *)
(* and every critical section that keeps getting the processor ends: that  *)
(* is the contract of cooperative scheduling, not of the mutex.  Nothing   *)
(* is assumed of spurious wakeups or of which thread notify_one picks.     *)
Fairness ==
    /\ \A p \in Proc :
          /\ SF_vars(Unlock(p))
          /\ WF_vars(UnlockAddReady(p))
          /\ WF_vars(UnlockNotify(p))
    /\ \A c \in Coroutine :
          /\ WF_vars(LockYield(c))
          /\ SF_vars(Park(c))
          /\ SF_vars(Unpark(c))
    /\ \A t \in Thread : WF_vars(LockRecheck(t))
    /\ \A s \in Sched : SF_vars(Resume(s))

FairSpec == Spec /\ Fairness

-----------------------------------------------------------------------------
(* The lock is on its way to coroutine c: unlock() has popped c and left   *)
(* _lock at 1, and c has not been resumed yet.                             *)
Popped(c) == \E p \in Proc : pc[p] = "wake" /\ target[p] = c
Readied(c) == \E i \in DOMAIN ready[SchedOf[c]] : ready[SchedOf[c]][i] = c
Queued(c) == \E i \in DOMAIN wq : wq[i] = c

Owns(p) ==
    \/ pc[p] = "cs"
    \/ p \in Coroutine /\ (Popped(p) \/ Readied(p))

WaitingThread(t) == pc[t] \in {"cvwait", "woken"}

(* Never two processes past lock(), whatever is handed over or notified    *)
(* late: a critical section excludes also a coroutine the lock has been    *)
(* promised to.                                                            *)
MutualExclusion == \A p, q \in Proc : Owns(p) /\ Owns(q) => p = q

(* The lock is never lost: a locked mutex has an owner, who will unlock it *)
(* or is about to be resumed by its scheduler.                             *)
LockedHasOwner == lock = 1 => \E p \in Proc : Owns(p)

(* A locked mutex has exactly one owner.                                   *)
OneOwner == MutualExclusion /\ LockedHasOwner

(* A coroutine inside lock() is in exactly one place on the way from _wq   *)
(* to its scheduler, a coroutine that is not waiting is in none, so        *)
(* add_ready_task never resumes a coroutine out of another yield().        *)
WaiterInOnePlace ==
    \A c \in Coroutine :
       LET inQueue == {i \in DOMAIN wq : wq[i] = c}
           inHand  == {p \in Proc : pc[p] = "wake" /\ target[p] = c}
           inReady == {i \in DOMAIN ready[SchedOf[c]] :
                          ready[SchedOf[c]][i] = c}
           places  == {<<"wq", i>> : i \in inQueue}
                        \cup {<<"hand", p>> : p \in inHand}
                        \cup {<<"ready", i>> : i \in inReady}
       IN  IF pc[c] \in {"enq", "susp"}
           THEN \E x \in places : places = {x}
           ELSE places = {}

(* Every coroutine that queues itself gets the lock, however many threads  *)
(* and other coroutines compete for it; a lock offered to the threads is   *)
(* taken up by one of them, although the notification is sent after _m is  *)
(* released.                                                               *)
WaitersAcquire ==
    /\ \A c \in Coroutine : pc[c] = "enq" ~> pc[c] = "cs"
    /\ lock = 2 ~> lock = 1

-----------------------------------------------------------------------------
(* mutex_impl implements HandoffLock: the owner is the process that is     *)
(* past lock() or that the lock is on its way to.                          *)
Free == [state |-> "free"]
Offered == [state |-> "offered"]

(* No process is one of the values that stand for a lock without owner.    *)
ASSUME OwnerAssumption == {Free, Offered} \cap Proc = {}

Owner ==
    IF lock = 0 THEN Free
    ELSE IF lock = 2 THEN Offered
    ELSE CHOOSE p \in Proc : Owns(p)

InLine == {c \in Coroutine : Queued(c)} \cup {t \in Thread : WaitingThread(t)}

Abstract ==
    INSTANCE HandoffLock WITH
       ThreadSlot <- NullPtr, owner <- Owner, line <- wq, waiting <- InLine

HandsOff == Abstract!Spec
=============================================================================
