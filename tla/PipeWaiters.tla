---------------------------- MODULE PipeWaiters ----------------------------
(***************************************************************************)
(* What the two channels of src/co/co.cc (pipe_impl, pipe_impl_cap) have   *)
(* in common: the queue _wq of waiting readers and writers, how a waiter   *)
(* is served, times out or is woken by close(), and how its call ends.     *)
(* Pipe and PipeCap add the buffer.                                        *)
(*                                                                         *)
(* What happens under _m is one action; add_ready_task, which comes after  *)
(* _m was released, is an action of its own.  Each coroutine has a         *)
(* scheduler to itself: with a shared one there are fewer interleavings.   *)
(* An element is a token that is written once: it is not written yet, in   *)
(* the buffer, in the buf of a waitx, or read.  Which of copy, move and    *)
(* destruct brings it there is left out.                                   *)
(***************************************************************************)
EXTENDS Naturals, Sequences, SequencesExt, FiniteSets

CONSTANTS Coroutine, Thread,  \* those that use the channel
          Elem,               \* elements, numbered
          Waitx,              \* addresses malloc may give a waitx, numbered
          Timeouts,           \* whether _ms may be finite, may be infinite
          SpuriousWakeups,    \* whether _cv.wait may return without a notify
          None                \* nullptr; also an object nobody has assigned

Proc == Coroutine \cup Thread

ASSUME PipeWaitersAssumption ==
    /\ Coroutine \cap Thread = {}
    /\ Elem \subseteq Nat /\ Waitx \subseteq Nat
    /\ Timeouts \subseteq BOOLEAN /\ SpuriousWakeups \in BOOLEAN
    /\ None \notin Proc \cup Elem \cup Waitx

VARIABLES timed,    \* whether _ms is finite
          closed,   \* _closed: 0, 1 (close() is running), 2
          wq,       \* _wq
          heap,     \* the waitx at each address
          mine,     \* mine[p]: the waitx of p's call, None if it has none
          op,       \* op[p]: whether the call that waits is a read
          target,   \* target[p]: the waitx whose co p is to make ready
          wakeups,  \* wakeups[c]: times c is in its scheduler's ready list
          out,      \* elements no call has written
          got,      \* elements that have been read
          pc        \* where each process is in read(), write() or close()

waiters == <<timed, closed, wq, heap, mine, op, target, wakeups, out, got, pc>>

(* idle  outside, or running      wake  before add_ready_task              *)
(* enq   queued, not yielded      susp  yielded inside read() or write()   *)
(* cv    inside _cv.wait; woken, over: it is to return because of a        *)
(*       notify, or because of the timeout, and needs _m first             *)
(* lock  close(): before taking _m; poll: while another close() runs       *)
PcState == {"idle", "wake", "enq", "susp", "cv", "woken", "over", "lock", "poll"}

Unused == [state |-> "free", done |-> 0, who |-> None, buf |-> None]

(* Those in the queue that nobody has served and that have not timed out.  *)
Unserved == {w \in Range(wq) : heap[w].state = "wait"}

WaitersTypeOK ==
    /\ timed \in Timeouts
    /\ closed \in 0..2
    /\ wq \in Seq(Waitx)
    /\ heap \in [Waitx -> [state : {"free", "wait", "ready", "timeout"},
                           done : 0..2,
                           who : Proc \cup {None},
                           buf : Elem \cup {None}]]
    /\ mine \in [Proc -> Waitx \cup {None}]
    /\ op \in [Proc -> {"none", "read", "write"}]
    /\ target \in [Proc -> Waitx \cup {None}]
    /\ wakeups \in [Coroutine -> Nat]
    /\ out \subseteq Elem /\ got \subseteq Elem
    /\ pc \in [Proc -> PcState]

WaitersInit ==
    /\ timed \in Timeouts
    /\ closed = 0
    /\ wq = <<>>
    /\ heap = [w \in Waitx |-> Unused]
    /\ mine = [p \in Proc |-> None]
    /\ op = [p \in Proc |-> "none"]
    /\ target = [p \in Proc |-> None]
    /\ wakeups = [c \in Coroutine |-> 0]
    /\ out = Elem /\ got = {}
    /\ pc = [p \in Proc |-> "idle"]

-----------------------------------------------------------------------------
(* Serving a waiter, under _m                                              *)

(* Where in _wq the first waiter is that has not timed out, if there is    *)
(* one.                                                                    *)
FirstLive ==
    {i \in DOMAIN wq : /\ heap[wq[i]].state = "wait"
                       /\ \A j \in 1..(i - 1) : heap[wq[j]].state # "wait"}

(* The waiters up to i leave the queue: i with done = d and b in its buf,  *)
(* and claimed by the compare-and-swap (without a timeout there is none),  *)
(* those before it have timed out and are freed.                           *)
Claim(i, d, b) ==
    /\ wq' = SubSeq(wq, i + 1, Len(wq))
    /\ heap' = [w \in Waitx |->
                  IF w = wq[i]
                  THEN [heap[w] EXCEPT !.state = IF timed THEN "ready" ELSE @,
                                       !.done = d, !.buf = b]
                  ELSE IF \E j \in 1..(i - 1) : wq[j] = w THEN Unused
                  ELSE heap[w]]

(* Everybody in the queue has timed out.                                   *)
DropDead ==
    /\ FirstLive = {}
    /\ wq' = <<>>
    /\ heap' = [w \in Waitx |-> IF w \in Range(wq) THEN Unused ELSE heap[w]]

NotifyAll(p) ==
    pc' = [q \in Proc |-> IF q = p THEN "idle"
                          ELSE IF q \in Thread /\ pc[q] = "cv" THEN "woken"
                          ELSE pc[q]]

(* Slips: notify_one, which may reach any thread; the coroutine is left    *)
(* to its timer.                                                           *)
WakeOwnerNotifyOne(p, w) ==
    IF heap[w].who \in Coroutine
    THEN /\ pc' = [pc EXCEPT ![p] = "wake"]
         /\ target' = [target EXCEPT ![p] = w]
    ELSE /\ \E t \in {u \in Thread : pc[u] = "cv"} : pc' = [pc EXCEPT ![t] = "woken"]
         /\ UNCHANGED target
WakeOwnerThreadsOnly(p, w) == NotifyAll(p) /\ UNCHANGED target

(* The end of p's own call: the owner of w is made ready after _m was      *)
(* released, or notified with all other threads before that.               *)
WakeOwner(p, w) ==
    IF heap[w].who \in Coroutine
    THEN /\ pc' = [pc EXCEPT ![p] = "wake"]
         /\ target' = [target EXCEPT ![p] = w]
    ELSE /\ NotifyAll(p)
         /\ UNCHANGED target

AddReady(p) ==
    /\ pc[p] = "wake"
    /\ wakeups' = [wakeups EXCEPT ![heap[target[p]].who] = @ + 1]
    /\ target' = [target EXCEPT ![p] = None]
    /\ pc' = [pc EXCEPT ![p] = "idle"]
    /\ UNCHANGED <<timed, closed, wq, heap, mine, op, out, got>>

-----------------------------------------------------------------------------
(* Waiting                                                                 *)

(* Elements are interchangeable, and so are addresses: of those that may   *)
(* be taken next, the first is as good as any.                             *)
First(S) == {x \in S : \A y \in S : x <= y}

(* p queues a waitx with b in its buf and releases _m.  If keep is false   *)
(* all that are in the queue have timed out and were popped and freed.     *)
Enqueue(p, o, b, keep) ==
    /\ \E x \in First({w \in Waitx : heap[w].state = "free"}) :
          /\ wq' = IF keep THEN Append(wq, x) ELSE <<x>>
          /\ heap' = [w \in Waitx |->
                        IF w = x
                        THEN [state |-> "wait", done |-> 0, who |-> p, buf |-> b]
                        ELSE IF ~ keep /\ w \in Range(wq) THEN Unused
                        ELSE heap[w]]
          /\ mine' = [mine EXCEPT ![p] = x]
    /\ op' = [op EXCEPT ![p] = o]
    /\ pc' = [pc EXCEPT ![p] = IF p \in Coroutine THEN "enq" ELSE "cv"]
    /\ UNCHANGED <<timed, closed, target, wakeups, got>>

(* co->waitx, the timer and yield().                                       *)
WaitYield(c) ==
    /\ pc[c] = "enq"
    /\ pc' = [pc EXCEPT ![c] = "susp"]
    /\ UNCHANGED <<timed, closed, wq, heap, mine, op, target, wakeups, out, got>>

(* The call of p ends with the waitx w in hand, and frees it.              *)
EndServed(p, w) ==
    /\ heap' = [heap EXCEPT ![w] = Unused]
    /\ got' = IF op[p] = "read" /\ heap[w].done = 1 THEN got \cup {heap[w].buf} ELSE got
    /\ mine' = [mine EXCEPT ![p] = None]
    /\ op' = [op EXCEPT ![p] = "none"]
    /\ pc' = [pc EXCEPT ![p] = "idle"]
    /\ UNCHANGED <<timed, closed, wq, target, out>>

(* The call of p ends because of a timeout: its waitx stays in the queue,  *)
(* and a writer keeps its element.                                         *)
EndTimedOut(p, w) ==
    /\ heap[w].state = "wait"
    /\ heap' = [heap EXCEPT ![w].state = "timeout"]
    /\ out' = IF op[p] = "write" THEN out \cup {heap[w].buf} ELSE out
    /\ mine' = [mine EXCEPT ![p] = None]
    /\ op' = [op EXCEPT ![p] = "none"]
    /\ pc' = [pc EXCEPT ![p] = "idle"]
    /\ UNCHANGED <<timed, closed, wq, target, wakeups, got>>

(* A coroutine is resumed from the ready list of its scheduler.            *)
ResumeReady(c) ==
    /\ pc[c] = "susp"
    /\ wakeups[c] > 0
    /\ wakeups' = [wakeups EXCEPT ![c] = @ - 1]
    /\ EndServed(c, mine[c])

(* Slip: the timeout is taken whatever the compare-and-swap says.          *)
TimeOutNoCas(c) ==
    /\ timed
    /\ pc[c] = "susp"
    /\ heap' = [heap EXCEPT ![mine[c]].state = "timeout"]
    /\ out' = IF op[c] = "write" THEN out \cup {heap[mine[c]].buf} ELSE out
    /\ mine' = [mine EXCEPT ![c] = None]
    /\ op' = [op EXCEPT ![c] = "none"]
    /\ pc' = [pc EXCEPT ![c] = "idle"]
    /\ UNCHANGED <<timed, closed, wq, target, wakeups, got>>

(* check_timeout claims the waitx; if a reader, a writer or close() has    *)
(* claimed it already, the timer has no effect.                            *)
TimeOut(c) ==
    /\ timed
    /\ pc[c] = "susp"
    /\ EndTimedOut(c, mine[c])

SpuriousWakeup(t) ==
    /\ SpuriousWakeups
    /\ pc[t] = "cv"
    /\ pc' = [pc EXCEPT ![t] = "woken"]
    /\ UNCHANGED <<timed, closed, wq, heap, mine, op, target, wakeups, out, got>>

DeadlinePasses(t) ==
    /\ timed
    /\ pc[t] = "cv"
    /\ pc' = [pc EXCEPT ![t] = "over"]
    /\ UNCHANGED <<timed, closed, wq, heap, mine, op, target, wakeups, out, got>>

(* What wait_for may return to t once it has _m: r, the code's name for    *)
(* no_timeout.  A thread that was notified may be told of a timeout.       *)
Awake(t, r) ==
    \/ pc[t] = "woken" /\ (r \/ timed)
    \/ pc[t] = "over" /\ ~ r

ThreadServed(t, r) ==
    /\ Awake(t, r)
    /\ r \/ heap[mine[t]].state # "wait"
    /\ heap[mine[t]].done # 0
    /\ EndServed(t, mine[t])
    /\ UNCHANGED wakeups

(* Not served yet: t waits again, with a new deadline.                     *)
ThreadAgain(t, r) ==
    /\ Awake(t, r)
    /\ r \/ heap[mine[t]].state # "wait"
    /\ heap[mine[t]].done = 0
    /\ pc' = [pc EXCEPT ![t] = "cv"]
    /\ UNCHANGED <<timed, closed, wq, heap, mine, op, target, wakeups, out, got>>

ThreadTimedOut(t, r) ==
    /\ Awake(t, r)
    /\ ~ r
    /\ EndTimedOut(t, mine[t])

ThreadReturn(t) ==
    \E r \in BOOLEAN : ThreadServed(t, r) \/ ThreadAgain(t, r) \/ ThreadTimedOut(t, r)

-----------------------------------------------------------------------------
(* close()                                                                 *)

CloseBegin(p) ==
    /\ pc[p] = "idle"
    /\ closed \in {0, 1}
    /\ closed' = 1
    /\ pc' = [pc EXCEPT ![p] = IF closed = 0 THEN "lock" ELSE "poll"]
    /\ UNCHANGED <<timed, wq, heap, mine, op, target, wakeups, out, got>>

ClosePoll(p) ==
    /\ pc[p] = "poll"
    /\ closed = 2
    /\ pc' = [pc EXCEPT ![p] = "idle"]
    /\ UNCHANGED <<timed, closed, wq, heap, mine, op, target, wakeups, out, got>>

(* Under _m: if the buffer is empty, whoever waits is told so.             *)
CloseLocked(p, empty) ==
    /\ pc[p] = "lock"
    /\ closed' = 2
    /\ IF empty
       THEN LET told == Unserved
            IN  /\ wq' = <<>>
                /\ heap' = [w \in Waitx |->
                              IF w \in told
                              THEN [heap[w] EXCEPT !.state = "ready", !.done = 2]
                              ELSE IF w \in Range(wq) THEN Unused
                              ELSE heap[w]]
                /\ wakeups' = [c \in Coroutine |->
                                 wakeups[c] + Cardinality({w \in told : heap[w].who = c})]
                /\ IF \E w \in told : heap[w].who \in Thread
                   THEN NotifyAll(p) ELSE pc' = [pc EXCEPT ![p] = "idle"]
       ELSE /\ pc' = [pc EXCEPT ![p] = "idle"]
            /\ UNCHANGED <<timed, wq, heap, wakeups>>
    /\ UNCHANGED <<timed, mine, op, target, out, got>>

-----------------------------------------------------------------------------
(* The steps a process takes once it has begun a call, and those of the    *)
(* environment that end a wait.                                            *)
Proceed(p) ==
    \/ AddReady(p) \/ ClosePoll(p)
    \/ p \in Coroutine /\ (WaitYield(p) \/ ResumeReady(p))
    \/ p \in Thread /\ ThreadReturn(p)

Expire(p) ==
    \/ p \in Coroutine /\ TimeOut(p)
    \/ p \in Thread /\ DeadlinePasses(p)

-----------------------------------------------------------------------------
(* The properties; empty, full and buffer are the channel's.               *)

Waiting(p) == pc[p] \in {"enq", "susp", "cv", "woken", "over"}

(* The numbers in P, from the smallest up.                                 *)
InOrder(P) == CHOOSE m \in [1..Cardinality(P) -> P] :
                 \A j, k \in DOMAIN m : j < k => m[j] < m[k]

(* The elements of the writers that wait, in the order of the queue: where *)
(* the writers stand is counted up rather than picked out with SelectSeq,  *)
(* which the provers know nothing of.                                      *)
Behind ==
    LET writers == {i \in DOMAIN wq : /\ heap[wq[i]].state = "wait"
                                      /\ op[heap[wq[i]].who] = "write"}
        inOrder == InOrder(writers)
    IN  [k \in DOMAIN inOrder |-> heap[wq[inOrder[k]]].buf]

(* Every element is outside (not written, or read), in the buffer, or with *)
(* one waiter: a writer in the queue, or a reader it was handed to.        *)
InOnePlace(buffer) ==
    /\ out \cap got = {} /\ got \subseteq Elem
    /\ \A e \in Elem :
          LET inBuffer == {i \in DOMAIN buffer : buffer[i] = e}
              inQueue == {i \in DOMAIN wq : /\ heap[wq[i]].state # "timeout"
                                            /\ heap[wq[i]].buf = e}
              inHand == {p \in Proc : /\ op[p] = "read"
                                      /\ heap[mine[p]].done = 1
                                      /\ heap[mine[p]].buf = e}
          IN  Cardinality(inBuffer) + Cardinality(inQueue) + Cardinality(inHand)
                = IF e \in out \cup got THEN 0 ELSE 1

(* Nobody waits for what is there: who has not timed out reads from an     *)
(* empty, open channel or writes to a full one.                            *)
WaitJustified(empty, full) ==
    \A w \in Unserved :
        IF op[heap[w].who] = "read" THEN empty /\ closed # 2 ELSE full

(* Whoever waits is in the queue, unserved, or has been served and will    *)
(* learn of it, once.                                                      *)
WakeupComing ==
    \A p \in Proc :
        LET coming == IF p \in Coroutine
                      THEN wakeups[p] + Cardinality({q \in Proc :
                              target[q] # None /\ heap[target[q]].who = p})
                      ELSE IF pc[p] \in {"woken", "over"} THEN 1 ELSE 0
        IN  IF ~ Waiting(p) THEN coming = 0
            ELSE IF heap[mine[p]].done # 0
            THEN mine[p] \notin Range(wq) /\ coming = 1
            ELSE mine[p] \in Range(wq) /\ (p \in Coroutine => coming = 0)

(* A waitx is in the queue or belongs to a call, is in the queue once, and *)
(* is freed by the one who uses it last.                                   *)
HeapSafe ==
    /\ IsInjective(wq)
    /\ \A w \in Waitx :
          LET used == heap[w].state # "free"
              owned == \E p \in Proc : mine[p] = w /\ heap[w].who = p
          IN  /\ used <=> w \in Range(wq) \/ owned
              /\ heap[w].state = "timeout" => ~ owned
    /\ \A p \in Proc : target[p] # None => heap[target[p]].state # "free"
=============================================================================
