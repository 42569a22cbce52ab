---------------------------- MODULE MutexProofs ----------------------------
(***************************************************************************)
(* Proofs about Mutex, for every set of coroutines, threads and            *)
(* schedulers: the types, mutual exclusion, that a locked mutex has an     *)
(* owner, that a waiting coroutine is in exactly one place, and that Mutex *)
(* implements HandoffLock: the lock passes to whoever waits longest.  And  *)
(* about MutexQueue, for every size of its blocks: they hold the queue.    *)
(***************************************************************************)
EXTENDS MCMutex, Integers, SequencesExt, FiniteSetTheorems, SequenceTheorems,
        WellFoundedInduction, TLAPS

Active(p) == pc[p] \in {"cs", "wake"}
Waiter(c) == pc[c] \in {"enq", "susp"}

(* The lock is one token.  It is with a process in or just behind its      *)
(* critical section, or in the inbox of a scheduler, which then holds      *)
(* nothing else; and it exists exactly when _lock is 1.                    *)
ActiveIsUnique == \A p, q \in Proc : Active(p) /\ Active(q) => p = q
ActiveOrReady ==
    \A p \in Proc : \A s \in Sched : Active(p) => ready[s] = <<>>
ReadyIsUnique ==
    \A s, r \in Sched : ready[s] # <<>> /\ ready[r] # <<>> => s = r
ReadyIsSingle == \A s \in Sched : ready[s] = <<>> \/ Len(ready[s]) = 1
NoTokenUnlessLocked ==
    lock # 1 => /\ \A p \in Proc : ~ Active(p)
                /\ \A s \in Sched : ready[s] = <<>>
TokenIfLocked ==
    lock = 1 => \/ \E p \in Proc : Active(p)
                \/ \E s \in Sched : ready[s] # <<>>

TokenInv ==
    /\ ActiveIsUnique
    /\ ActiveOrReady
    /\ ReadyIsUnique
    /\ ReadyIsSingle
    /\ NoTokenUnlessLocked
    /\ TokenIfLocked

(* Where a waiting coroutine is: in _wq, in the hand of an unlock(), or in *)
(* the inbox of its own scheduler, never in two of them.                   *)
QueuedOnce ==
    \A i, j \in 1..Len(wq) : wq[i] = wq[j] /\ wq[i] # NullPtr => i = j
QueuedWaits ==
    \A i \in 1..Len(wq) : wq[i] # NullPtr => Waiter(wq[i])
PoppedWaits ==
    \A p \in Proc : pc[p] = "wake" =>
       /\ target[p] \in Coroutine
       /\ Waiter(target[p])
       /\ \A i \in 1..Len(wq) : wq[i] # target[p]
ReadyWaits ==
    \A s \in Sched : ready[s] # <<>> =>
       /\ SchedOf[ready[s][1]] = s
       /\ Waiter(ready[s][1])
       /\ \A i \in 1..Len(wq) : wq[i] # ready[s][1]
EnqueuedIsRunning ==
    \A c \in Coroutine : pc[c] = "enq" => running[SchedOf[c]] = c
WaiterIsSomewhere ==
    \A c \in Coroutine : Waiter(c) =>
       \/ \E i \in 1..Len(wq) : wq[i] = c
       \/ \E p \in Proc : pc[p] = "wake" /\ target[p] = c
       \/ ready[SchedOf[c]] # <<>> /\ ready[SchedOf[c]][1] = c

WaitInv ==
    /\ QueuedOnce
    /\ QueuedWaits
    /\ PoppedWaits
    /\ ReadyWaits
    /\ EnqueuedIsRunning
    /\ WaiterIsSomewhere

IInv == TypeOK /\ TokenInv /\ WaitInv

-----------------------------------------------------------------------------
(* What Head, Tail and Append do to the entries of a queue.                *)
LEMMA TailEntries ==
    ASSUME NEW S, NEW q \in Seq(S), q # <<>>
    PROVE  /\ Len(q) \in Nat /\ Len(q) >= 1
           /\ Head(q) = q[1] /\ Head(q) \in S
           /\ Tail(q) \in Seq(S)
           /\ Len(Tail(q)) = Len(q) - 1
           /\ \A i \in 1..Len(Tail(q)) :
                 i + 1 \in 2..Len(q) /\ Tail(q)[i] = q[i + 1]
           /\ \A i \in 2..Len(q) :
                 i - 1 \in 1..Len(Tail(q)) /\ Tail(q)[i - 1] = q[i]
  OBVIOUS

LEMMA AppendEntries ==
    ASSUME NEW S, NEW q \in Seq(S), NEW x \in S
    PROVE  /\ Append(q, x) \in Seq(S)
           /\ Append(q, x) # <<>>
           /\ Len(q) \in Nat
           /\ Len(Append(q, x)) = Len(q) + 1
           /\ Append(q, x)[Len(q) + 1] = x
           /\ \A i \in 1..Len(q) : Append(q, x)[i] = q[i]
  OBVIOUS

-----------------------------------------------------------------------------
LEMMA InitIInv == Init => IInv
  BY MutexAssumption
     DEF Init, IInv, TypeOK, TokenInv, WaitInv, ActiveIsUnique, ActiveOrReady,
         ReadyIsUnique, ReadyIsSingle, NoTokenUnlessLocked, TokenIfLocked,
         QueuedOnce, QueuedWaits, PoppedWaits, ReadyWaits, EnqueuedIsRunning,
         WaiterIsSomewhere, Active, Waiter, PcState, Proc

(* The three kinds of steps that move the token are proved one by one; the *)
(* others leave both the active processes and the inboxes alone.           *)
LEMMA StepType ==
    ASSUME IInv, [Next]_vars
    PROVE  TypeOK'
  <1> USE MutexAssumption DEF TypeOK, PcState, Proc
  <1> TypeOK /\ PoppedWaits
    BY DEF IInv, WaitInv
  <1>1. ASSUME NEW p \in Proc, LockFast(p) \/ TryLock(p)
        PROVE  TypeOK'
    <2>1. /\ lock' \in 0..2
          /\ \E l \in PcState : pc' = [pc EXCEPT ![p] = l]
          /\ UNCHANGED <<wq, ready, running, target>>
      BY <1>1 DEF LockFast, TryLock
    <2>. QED  BY <2>1
  <1>2. ASSUME NEW p \in Proc, Unlock(p)
        PROVE  TypeOK'
    <2>1. wq # <<>> => /\ Tail(wq) \in Seq(Coroutine \cup {NullPtr})
                       /\ Head(wq) \in Coroutine \cup {NullPtr}
      BY TailEntries
    <2>2. CASE UnlockFree(p)
      BY <2>2 DEF UnlockFree
    <2>3. CASE UnlockToCoroutine(p)
      BY <2>1, <2>3 DEF UnlockToCoroutine
    <2>4. CASE UnlockToThread(p)
      BY <2>1, <2>4 DEF UnlockToThread
    <2>. QED  BY <1>2, <2>2, <2>3, <2>4 DEF Unlock
  <1>3. ASSUME NEW p \in Proc, UnlockAddReady(p)
        PROVE  TypeOK'
    <2>1. /\ target[p] \in Coroutine
          /\ SchedOf[target[p]] \in Sched
      BY <1>3 DEF UnlockAddReady, PoppedWaits
    <2>2. Append(ready[SchedOf[target[p]]], target[p]) \in Seq(Coroutine)
      BY <2>1, AppendEntries
    <2>. QED  BY <1>3, <2>1, <2>2 DEF UnlockAddReady
  <1>4. ASSUME NEW p \in Proc, UnlockNotify(p)
        PROVE  TypeOK'
    <2>1. pc' \in [Proc -> PcState]
      BY <1>4 DEF UnlockNotify
    <2>. QED  BY <1>4, <2>1 DEF UnlockNotify
  <1>5. ASSUME NEW c \in Coroutine, LockEnqueue(c)
        PROVE  TypeOK'
    <2>1. Append(wq, c) \in Seq(Coroutine \cup {NullPtr})
      BY AppendEntries
    <2>. QED  BY <1>5, <2>1 DEF LockEnqueue
  <1>6. ASSUME NEW c \in Coroutine, LockYield(c) \/ Park(c) \/ Unpark(c)
        PROVE  TypeOK'
    <2>1. pc' \in [Proc -> PcState] /\ running' \in [Sched -> Coroutine \cup {NoCo}]
      <3>1. CASE LockYield(c)
        BY <3>1 DEF LockYield
      <3>2. CASE Park(c)
        BY <3>2 DEF Park
      <3>3. CASE Unpark(c)
        BY <3>3 DEF Unpark
      <3>. QED  BY <1>6, <3>1, <3>2, <3>3
    <2>2. UNCHANGED <<lock, wq, ready, target>>
      BY <1>6 DEF LockYield, Park, Unpark
    <2>. QED  BY <2>1, <2>2
  <1>7. ASSUME NEW t \in Thread, LockWait(t)
        PROVE  TypeOK'
    <2>1. Append(wq, NullPtr) \in Seq(Coroutine \cup {NullPtr})
      BY AppendEntries
    <2>. QED  BY <1>7, <2>1 DEF LockWait
  <1>8. ASSUME NEW t \in Thread, SpuriousWakeup(t) \/ LockRecheck(t)
        PROVE  TypeOK'
    <2>1. /\ lock' \in 0..2
          /\ \E l \in PcState : pc' = [pc EXCEPT ![t] = l]
          /\ UNCHANGED <<wq, ready, running, target>>
      BY <1>8 DEF SpuriousWakeup, LockRecheck
    <2>. QED  BY <2>1
  <1>9. ASSUME NEW s \in Sched, Resume(s)
        PROVE  TypeOK'
    <2>1. /\ Head(ready[s]) \in Coroutine
          /\ Tail(ready[s]) \in Seq(Coroutine)
      BY <1>9, TailEntries DEF Resume
    <2>. QED  BY <1>9, <2>1 DEF Resume
  <1>10. ASSUME UNCHANGED vars
         PROVE  TypeOK'
    BY <1>10 DEF vars
  <1>. QED
    BY <1>1, <1>2, <1>3, <1>4, <1>5, <1>6, <1>7, <1>8, <1>9, <1>10 DEF Next

(* A step that neither takes nor moves the token.                          *)
LEMMA TokenStays ==
    ASSUME TokenInv,
           lock' = 1 <=> lock = 1,
           ready' = ready,
           \A p \in Proc : Active(p)' = Active(p)
    PROVE  TokenInv'
  BY DEF TokenInv, ActiveIsUnique, ActiveOrReady, ReadyIsUnique,
         ReadyIsSingle, NoTokenUnlessLocked, TokenIfLocked

(* A step in which p takes a lock that is not held.                        *)
LEMMA TokenTaken ==
    ASSUME TokenInv, lock # 1, lock' = 1, ready' = ready,
           NEW p \in Proc, Active(p)',
           \A q \in Proc : q # p => Active(q)' = Active(q)
    PROVE  TokenInv'
  BY DEF TokenInv, ActiveIsUnique, ActiveOrReady, ReadyIsUnique,
         ReadyIsSingle, NoTokenUnlessLocked, TokenIfLocked

(* A step in which p gives the lock back.                                  *)
LEMMA TokenReturned ==
    ASSUME TokenInv, lock' # 1, ready' = ready,
           NEW p \in Proc, Active(p), ~ Active(p)',
           \A q \in Proc : q # p => Active(q)' = Active(q)
    PROVE  TokenInv'
  BY DEF TokenInv, ActiveIsUnique, ActiveOrReady, ReadyIsUnique,
         ReadyIsSingle, NoTokenUnlessLocked, TokenIfLocked

LEMMA StepToken ==
    ASSUME IInv, [Next]_vars
    PROVE  TokenInv'
  <1> USE MutexAssumption DEF Proc
  <1> TypeOK /\ TokenInv /\ WaitInv
    BY DEF IInv
  <1> pc \in [Proc -> PcState] /\ lock \in 0..2
    BY DEF TypeOK
  <1>1. ASSUME NEW p \in Proc, LockFast(p) \/ TryLock(p)
        PROVE  TokenInv'
    <2>1. CASE lock = 0
      <3>1. /\ lock' = 1 /\ ready' = ready
            /\ pc' = [pc EXCEPT ![p] = "cs"]
        BY <1>1, <2>1 DEF LockFast, TryLock
      <3>2. /\ Active(p)'
            /\ \A q \in Proc : q # p => Active(q)' = Active(q)
        BY <3>1 DEF Active
      <3>. QED  BY <2>1, <3>1, <3>2, TokenTaken
    <2>2. CASE lock # 0
      <3>1. /\ pc[p] = "idle" /\ lock' = lock /\ ready' = ready
            /\ pc' = [pc EXCEPT ![p] = "idle"]
        BY <1>1, <2>2 DEF LockFast, TryLock
      <3>2. \A q \in Proc : Active(q)' = Active(q)
        BY <3>1 DEF Active
      <3>. QED  BY <3>1, <3>2, TokenStays
    <2>. QED  BY <2>1, <2>2
  <1>2. ASSUME NEW p \in Proc, UnlockFree(p)
        PROVE  TokenInv'
    <2>1. /\ lock' # 1 /\ ready' = ready
          /\ Active(p) /\ ~ Active(p)'
          /\ \A q \in Proc : q # p => Active(q)' = Active(q)
      BY <1>2 DEF UnlockFree, Active
    <2>. QED  BY <2>1, TokenReturned
  <1>3. ASSUME NEW p \in Proc, UnlockToCoroutine(p)
        PROVE  TokenInv'
    <2>1. /\ lock' = lock /\ ready' = ready
          /\ \A q \in Proc : Active(q)' = Active(q)
      BY <1>3 DEF UnlockToCoroutine, Active
    <2>. QED  BY <2>1, TokenStays
  <1>4. ASSUME NEW p \in Proc, UnlockToThread(p)
        PROVE  TokenInv'
    <2>1. /\ lock' # 1 /\ ready' = ready
          /\ Active(p) /\ ~ Active(p)'
          /\ \A q \in Proc : q # p => Active(q)' = Active(q)
      BY <1>4 DEF UnlockToThread, Active
    <2>. QED  BY <2>1, TokenReturned
  <1>5. ASSUME NEW p \in Proc, UnlockAddReady(p)
        PROVE  TokenInv'
    <2> DEFINE c == target[p]
               s == SchedOf[c]
    <2>1. c \in Coroutine /\ s \in Sched
      BY <1>5 DEF UnlockAddReady, WaitInv, PoppedWaits
    <2>2. /\ Active(p) /\ lock = 1
          /\ \A q \in Proc : q # p => ~ Active(q)
          /\ \A r \in Sched : ready[r] = <<>>
      BY <1>5 DEF UnlockAddReady, TokenInv, ActiveIsUnique, ActiveOrReady,
                  NoTokenUnlessLocked, Active
    <2>3. /\ lock' = 1
          /\ \A q \in Proc : ~ Active(q)'
          /\ ready'[s] # <<>> /\ Len(ready'[s]) = 1
          /\ \A r \in Sched : r # s => ready'[r] = <<>>
      <3>1. /\ lock' = lock
            /\ ready' = [ready EXCEPT ![s] = Append(@, c)]
            /\ pc' = [pc EXCEPT ![p] = "idle"]
        BY <1>5 DEF UnlockAddReady
      <3>2. \A q \in Proc : ~ Active(q)'
        BY <2>2, <3>1 DEF Active
      <3>3. /\ Append(<<>>, c) # <<>>
            /\ Len(Append(<<>>, c)) = 1
        <4>1. <<>> \in Seq(Coroutine) /\ Len(<<>>) = 0
          OBVIOUS
        <4>. HIDE DEF c
        <4>. QED  BY <2>1, <4>1, AppendEntries
      <3>. HIDE DEF c, s
      <3>. QED  BY <2>1, <2>2, <3>1, <3>2, <3>3 DEF TypeOK
    <2>. HIDE DEF c, s
    <2>. QED
      BY <2>1, <2>3
         DEF TokenInv, ActiveIsUnique, ActiveOrReady, ReadyIsUnique,
             ReadyIsSingle, NoTokenUnlessLocked, TokenIfLocked
  <1>6. ASSUME NEW p \in Proc, UnlockNotify(p)
        PROVE  TokenInv'
    <2>1. \A q \in Proc : Active(q)' = Active(q)
      BY <1>6 DEF UnlockNotify, Active
    <2>. QED  BY <1>6, <2>1, TokenStays DEF UnlockNotify
  <1>7. ASSUME NEW c \in Coroutine,
               LockEnqueue(c) \/ LockYield(c) \/ Park(c) \/ Unpark(c)
        PROVE  TokenInv'
    <2>1. /\ lock' = lock /\ ready' = ready
          /\ \A q \in Proc : Active(q)' = Active(q)
      BY <1>7 DEF LockEnqueue, LockYield, Park, Unpark, Active
    <2>. QED  BY <2>1, TokenStays
  <1>8. ASSUME NEW t \in Thread, LockWait(t) \/ SpuriousWakeup(t)
        PROVE  TokenInv'
    <2>1. /\ lock' = lock /\ ready' = ready
          /\ \A q \in Proc : Active(q)' = Active(q)
      BY <1>8 DEF LockWait, SpuriousWakeup, Active
    <2>. QED  BY <2>1, TokenStays
  <1>9. ASSUME NEW t \in Thread, LockRecheck(t)
        PROVE  TokenInv'
    <2>1. CASE lock = 2
      <3>1. /\ lock' = 1 /\ ready' = ready
            /\ pc' = [pc EXCEPT ![t] = "cs"]
        BY <1>9, <2>1 DEF LockRecheck
      <3>2. /\ Active(t)'
            /\ \A q \in Proc : q # t => Active(q)' = Active(q)
        BY <3>1 DEF Active
      <3>. QED  BY <2>1, <3>1, <3>2, TokenTaken
    <2>2. CASE lock # 2
      <3>1. /\ pc[t] = "woken" /\ lock' = lock /\ ready' = ready
            /\ pc' = [pc EXCEPT ![t] = "cvwait"]
        BY <1>9, <2>2 DEF LockRecheck
      <3>2. \A q \in Proc : Active(q)' = Active(q)
        BY <3>1 DEF Active
      <3>. QED  BY <3>1, <3>2, TokenStays
    <2>. QED  BY <2>1, <2>2
  <1>10. ASSUME NEW s \in Sched, Resume(s)
         PROVE  TokenInv'
    <2> DEFINE c == Head(ready[s])
    <2>1. /\ ready[s] \in Seq(Coroutine) /\ ready[s] # <<>>
          /\ Len(ready[s]) = 1
      BY <1>10 DEF Resume, TypeOK, TokenInv, ReadyIsSingle
    <2>2. c \in Coroutine /\ c = ready[s][1] /\ Tail(ready[s]) = <<>>
      <3>1. /\ c \in Coroutine /\ c = ready[s][1]
            /\ Tail(ready[s]) \in Seq(Coroutine) /\ Len(Tail(ready[s])) = 0
        BY <2>1, TailEntries
      <3>. QED  BY <3>1, EmptySeq
    <2>3. SchedOf[c] = s /\ pc[c] = "susp"
      <3>1. SchedOf[c] = s /\ pc[c] \in {"enq", "susp"}
        BY <2>1, <2>2 DEF WaitInv, ReadyWaits, Waiter
      <3>2. running[s] # c
        BY <1>10, <2>2 DEF Resume
      <3>. QED  BY <2>2, <3>1, <3>2 DEF WaitInv, EnqueuedIsRunning
    <2>4. /\ lock = 1
          /\ \A q \in Proc : ~ Active(q)
          /\ \A r \in Sched : r # s => ready[r] = <<>>
      BY <2>1 DEF TokenInv, NoTokenUnlessLocked, ActiveOrReady, ReadyIsUnique
    <2>5. /\ lock' = 1
          /\ pc' = [pc EXCEPT ![c] = "cs"]
          /\ ready' = [ready EXCEPT ![s] = <<>>]
      BY <1>10, <2>2, <2>3, <2>4 DEF Resume
    <2>6. \A r \in Sched : ready'[r] = <<>>
      BY <2>4, <2>5 DEF TypeOK
    <2>7. \A q \in Proc : Active(q)' <=> q = c
      BY <2>2, <2>4, <2>5 DEF Active
    <2>. HIDE DEF c
    <2>. QED
      BY <2>2, <2>5, <2>6, <2>7
         DEF TokenInv, ActiveIsUnique, ActiveOrReady, ReadyIsUnique,
             ReadyIsSingle, NoTokenUnlessLocked, TokenIfLocked
  <1>11. ASSUME UNCHANGED vars
         PROVE  TokenInv'
    <2>1. /\ lock' = lock /\ ready' = ready
          /\ \A q \in Proc : Active(q)' = Active(q)
      BY <1>11 DEF vars, Active
    <2>. QED  BY <2>1, TokenStays
  <1>. QED
    BY <1>1, <1>2, <1>3, <1>4, <1>5, <1>6, <1>7, <1>8, <1>9, <1>10, <1>11
       DEF Next, Unlock

-----------------------------------------------------------------------------
(* A step after which every waiter is where it was.                        *)
LEMMA WaitStays ==
    ASSUME TypeOK, WaitInv,
           wq' = wq, target' = target, ready' = ready,
           \A c \in Coroutine : Waiter(c)' = Waiter(c),
           \A p \in Proc : pc'[p] = "wake" <=> pc[p] = "wake",
           EnqueuedIsRunning'
    PROVE  WaitInv'
  <1>1. \A i \in 1..Len(wq) : wq[i] \in Coroutine \cup {NullPtr}
    BY ElementOfSeq DEF TypeOK
  <1>2. ASSUME NEW s \in Sched, ready[s] # <<>>
        PROVE  ready[s][1] \in Coroutine
    BY <1>2, TailEntries DEF TypeOK
  <1>3. QueuedOnce' /\ QueuedWaits'
    BY <1>1 DEF WaitInv, QueuedOnce, QueuedWaits
  <1>4. PoppedWaits'
    BY DEF WaitInv, PoppedWaits
  <1>5. ReadyWaits'
    BY <1>2 DEF WaitInv, ReadyWaits
  <1>6. WaiterIsSomewhere'
    BY DEF WaitInv, WaiterIsSomewhere
  <1>. QED  BY <1>3, <1>4, <1>5, <1>6 DEF WaitInv

(* Popping the head of _wq.                                                *)
LEMMA PopEntries ==
    ASSUME TypeOK, WaitInv, wq # <<>>, wq' = Tail(wq)
    PROVE  /\ QueuedOnce'
           /\ \A i \in 1..Len(wq') : /\ i + 1 \in 1..Len(wq)
                                    /\ wq'[i] = wq[i + 1]
           /\ \A j \in 1..Len(wq) :
                 wq[j] # Head(wq) => \E i \in 1..Len(wq') : wq'[i] = wq[j]
           /\ Head(wq) = wq[1] /\ 1 \in 1..Len(wq)
           /\ Head(wq) # NullPtr =>
                 \A i \in 1..Len(wq') : wq'[i] # Head(wq)
  <1>1. /\ Len(wq) \in Nat /\ Len(wq) >= 1 /\ Head(wq) = wq[1]
        /\ Len(wq') = Len(wq) - 1
        /\ \A i \in 1..Len(wq') : i + 1 \in 2..Len(wq) /\ wq'[i] = wq[i + 1]
        /\ \A i \in 2..Len(wq) : i - 1 \in 1..Len(wq') /\ wq'[i - 1] = wq[i]
    BY TailEntries DEF TypeOK
  <1>2. QueuedOnce'
    BY <1>1 DEF WaitInv, QueuedOnce
  <1>3. \A i \in 1..Len(wq') : i + 1 \in 1..Len(wq) /\ wq'[i] = wq[i + 1]
    BY <1>1
  <1>4. ASSUME NEW j \in 1..Len(wq), wq[j] # Head(wq)
        PROVE  \E i \in 1..Len(wq') : wq'[i] = wq[j]
    <2>1. j \in 2..Len(wq)
      BY <1>1, <1>4
    <2>. QED  BY <1>1, <2>1
  <1>5. ASSUME Head(wq) # NullPtr, NEW i \in 1..Len(wq')
        PROVE  wq'[i] # Head(wq)
    BY <1>1, <1>5 DEF WaitInv, QueuedOnce
  <1>. QED  BY <1>1, <1>2, <1>3, <1>4, <1>5

LEMMA WaitEnqueue ==
    ASSUME TypeOK, WaitInv, NEW c \in Coroutine, LockEnqueue(c)
    PROVE  WaitInv'
  <1> USE MutexAssumption DEF Proc
  <1>1. /\ wq \in Seq(Coroutine \cup {NullPtr})
        /\ pc \in [Proc -> PcState]
        /\ pc[c] = "idle" /\ running[SchedOf[c]] = c
        /\ pc' = [pc EXCEPT ![c] = "enq"]
        /\ UNCHANGED <<ready, running, target>>
    BY DEF LockEnqueue, OnCpu, TypeOK
  <1>2. /\ Len(wq) \in Nat /\ Len(wq') = Len(wq) + 1
        /\ wq'[Len(wq) + 1] = c
        /\ \A i \in 1..Len(wq) : wq'[i] = wq[i]
    BY <1>1, AppendEntries DEF LockEnqueue
  <1>3. ~ Waiter(c) /\ Waiter(c)'
    BY <1>1 DEF Waiter
  <1>4. \A d \in Coroutine : d # c => Waiter(d)' = Waiter(d)
    BY <1>1 DEF Waiter
  <1>5. \A p \in Proc : pc'[p] = "wake" <=> pc[p] = "wake"
    BY <1>1
  <1>6. \A i \in 1..Len(wq) : wq[i] \in Coroutine \cup {NullPtr} /\ wq[i] # c
    <2>1. \A i \in 1..Len(wq) : wq[i] \in Coroutine \cup {NullPtr}
      BY <1>1, ElementOfSeq
    <2>. QED  BY <1>3, <2>1 DEF WaitInv, QueuedWaits
  <1>7. \A s \in Sched : ready[s] # <<>> => ready[s][1] \in Coroutine
    BY TailEntries DEF TypeOK
  <1>8. QueuedOnce' /\ QueuedWaits'
    BY <1>2, <1>3, <1>4, <1>6 DEF WaitInv, QueuedOnce, QueuedWaits
  <1>9. PoppedWaits'
    BY <1>1, <1>2, <1>3, <1>4, <1>5 DEF WaitInv, PoppedWaits
  <1>10. ReadyWaits'
    BY <1>1, <1>2, <1>3, <1>4, <1>7 DEF WaitInv, ReadyWaits
  <1>11. EnqueuedIsRunning'
    BY <1>1 DEF WaitInv, EnqueuedIsRunning
  <1>12. WaiterIsSomewhere'
    <2>1. ASSUME NEW d \in Coroutine, d # c, Waiter(d)'
          PROVE  \/ \E i \in 1..Len(wq') : wq'[i] = d
                 \/ \E p \in Proc : pc'[p] = "wake" /\ target'[p] = d
                 \/ ready'[SchedOf[d]] # <<>> /\ ready'[SchedOf[d]][1] = d
      <3>1. Waiter(d)
        BY <1>4, <2>1
      <3>2. CASE \E i \in 1..Len(wq) : wq[i] = d
        <4>1. PICK i \in 1..Len(wq) : wq[i] = d
          BY <3>2
        <4>2. i \in 1..Len(wq') /\ wq'[i] = d
          BY <1>2, <4>1
        <4>. QED  BY <4>2
      <3>3. CASE ~ \E i \in 1..Len(wq) : wq[i] = d
        BY <1>1, <1>5, <3>1, <3>3 DEF WaitInv, WaiterIsSomewhere
      <3>. QED  BY <3>2, <3>3
    <2>2. Len(wq) + 1 \in 1..Len(wq')
      BY <1>2
    <2>. QED  BY <1>2, <2>1, <2>2 DEF WaiterIsSomewhere
  <1>. QED  BY <1>8, <1>9, <1>10, <1>11, <1>12 DEF WaitInv

LEMMA WaitQueueThread ==
    ASSUME TypeOK, WaitInv, NEW t \in Thread, LockWait(t)
    PROVE  WaitInv'
  <1> USE MutexAssumption DEF Proc
  <1>1. /\ wq \in Seq(Coroutine \cup {NullPtr})
        /\ pc \in [Proc -> PcState]
        /\ pc[t] = "idle" /\ t \notin Coroutine
        /\ pc' = [pc EXCEPT ![t] = "cvwait"]
        /\ UNCHANGED <<ready, running, target>>
    BY DEF LockWait, TypeOK
  <1>2. /\ Len(wq) \in Nat /\ Len(wq') = Len(wq) + 1
        /\ wq'[Len(wq) + 1] = NullPtr
        /\ \A i \in 1..Len(wq) : i \in 1..Len(wq') /\ wq'[i] = wq[i]
        /\ \A i \in 1..Len(wq') : i = Len(wq) + 1 \/ i \in 1..Len(wq)
    BY <1>1, AppendEntries DEF LockWait
  <1>3. \A d \in Coroutine : Waiter(d)' = Waiter(d)
    BY <1>1 DEF Waiter
  <1>4. \A p \in Proc : pc'[p] = "wake" <=> pc[p] = "wake"
    BY <1>1
  <1>5. \A i \in 1..Len(wq) : wq[i] \in Coroutine \cup {NullPtr}
    BY <1>1, ElementOfSeq
  <1>6. \A s \in Sched : ready[s] # <<>> => ready[s][1] \in Coroutine
    BY TailEntries DEF TypeOK
  <1>7. QueuedOnce' /\ QueuedWaits'
    BY <1>2, <1>3, <1>5 DEF WaitInv, QueuedOnce, QueuedWaits
  <1>8. PoppedWaits'
    BY <1>1, <1>2, <1>3, <1>4 DEF WaitInv, PoppedWaits
  <1>9. ReadyWaits'
    <2>1. ASSUME NEW s \in Sched, ready'[s] # <<>>,
                 NEW d, d = ready'[s][1]
          PROVE  SchedOf[d] = s /\ Waiter(d)' /\ \A i \in 1..Len(wq') : wq'[i] # d
      <3>1. /\ d \in Coroutine
            /\ SchedOf[d] = s
            /\ Waiter(d)
            /\ \A i \in 1..Len(wq) : wq[i] # d
        BY <1>1, <1>6, <2>1 DEF WaitInv, ReadyWaits
      <3>2. \A i \in 1..Len(wq') : wq'[i] # d
        BY <1>2, <3>1
      <3>. QED  BY <1>3, <3>1, <3>2
    <2>. QED  BY <2>1 DEF ReadyWaits
  <1>10. EnqueuedIsRunning'
    BY <1>1 DEF WaitInv, EnqueuedIsRunning
  <1>11. WaiterIsSomewhere'
    BY <1>1, <1>2, <1>3, <1>4 DEF WaitInv, WaiterIsSomewhere
  <1>. QED  BY <1>7, <1>8, <1>9, <1>10, <1>11 DEF WaitInv

LEMMA WaitPopThread ==
    ASSUME TypeOK, WaitInv, NEW p \in Proc, UnlockToThread(p)
    PROVE  WaitInv'
  <1> USE MutexAssumption DEF Proc
  <1>1. /\ pc \in [Proc -> PcState]
        /\ wq # <<>> /\ Head(wq) = NullPtr /\ wq' = Tail(wq)
        /\ pc[p] = "cs" /\ pc' = [pc EXCEPT ![p] = "notify"]
        /\ UNCHANGED <<ready, running, target>>
    BY DEF UnlockToThread, TypeOK
  <1>2. /\ QueuedOnce'
        /\ \A i \in 1..Len(wq') : i + 1 \in 1..Len(wq) /\ wq'[i] = wq[i + 1]
        /\ \A j \in 1..Len(wq) :
              wq[j] # NullPtr => \E i \in 1..Len(wq') : wq'[i] = wq[j]
    BY <1>1, PopEntries
  <1>3. \A d \in Coroutine : Waiter(d)' = Waiter(d)
    BY <1>1 DEF Waiter
  <1>4. \A q \in Proc : pc'[q] = "wake" <=> pc[q] = "wake"
    BY <1>1
  <1>5. \A i \in 1..Len(wq) : wq[i] \in Coroutine \cup {NullPtr}
    BY ElementOfSeq DEF TypeOK
  <1>6. \A s \in Sched : ready[s] # <<>> => ready[s][1] \in Coroutine
    BY TailEntries DEF TypeOK
  <1>7. QueuedWaits'
    BY <1>2, <1>3, <1>5 DEF WaitInv, QueuedWaits
  <1>8. PoppedWaits'
    BY <1>1, <1>2, <1>3, <1>4 DEF WaitInv, PoppedWaits
  <1>9. ReadyWaits'
    BY <1>1, <1>2, <1>3, <1>6 DEF WaitInv, ReadyWaits
  <1>10. EnqueuedIsRunning'
    BY <1>1 DEF WaitInv, EnqueuedIsRunning
  <1>11. WaiterIsSomewhere'
    BY <1>1, <1>2, <1>3, <1>4 DEF WaitInv, WaiterIsSomewhere
  <1>. QED  BY <1>2, <1>7, <1>8, <1>9, <1>10, <1>11 DEF WaitInv

LEMMA WaitPopCoroutine ==
    ASSUME TypeOK, WaitInv, TokenInv, NEW p \in Proc, UnlockToCoroutine(p)
    PROVE  WaitInv'
  <1> USE MutexAssumption DEF Proc
  <1> DEFINE c == Head(wq)
  <1>1. /\ pc \in [Proc -> PcState] /\ target \in [Proc -> Coroutine \cup {NoCo}]
        /\ wq # <<>> /\ c # NullPtr /\ wq' = Tail(wq)
        /\ pc[p] = "cs" /\ pc' = [pc EXCEPT ![p] = "wake"]
        /\ target' = [target EXCEPT ![p] = c]
        /\ UNCHANGED <<ready, running>>
    BY DEF UnlockToCoroutine, TypeOK
  <1>2. /\ QueuedOnce'
        /\ \A i \in 1..Len(wq') : i + 1 \in 1..Len(wq) /\ wq'[i] = wq[i + 1]
        /\ \A j \in 1..Len(wq) :
              wq[j] # c => \E i \in 1..Len(wq') : wq'[i] = wq[j]
        /\ c = wq[1] /\ 1 \in 1..Len(wq)
        /\ \A i \in 1..Len(wq') : wq'[i] # c
    BY <1>1, PopEntries
  <1>3. \A d \in Coroutine : Waiter(d)' = Waiter(d)
    BY <1>1 DEF Waiter
  <1>4. \A q \in Proc : q # p => (pc'[q] = "wake" <=> pc[q] = "wake")
    BY <1>1
  <1>5. \A i \in 1..Len(wq) : wq[i] \in Coroutine \cup {NullPtr}
    BY ElementOfSeq DEF TypeOK
  <1>6. \A s \in Sched : ready[s] = <<>>
    BY <1>1 DEF TokenInv, ActiveOrReady, Active
  <1>7. c \in Coroutine /\ Waiter(c)
    BY <1>1, <1>2, <1>5 DEF WaitInv, QueuedWaits
  <1>8. \A q \in Proc : pc'[q] = "wake" => q = p
    BY <1>1 DEF TokenInv, ActiveIsUnique, Active
  <1>9. pc'[p] = "wake" /\ target'[p] = c
    BY <1>1
  <1> HIDE DEF c
  <1>10. QueuedWaits'
    BY <1>2, <1>3, <1>5 DEF WaitInv, QueuedWaits
  <1>11. PoppedWaits'
    <2>1. PICK d \in Coroutine : d = c
      BY <1>7
    <2>2. Waiter(d)'
      BY <1>3, <1>7, <2>1
    <2>3. \A i \in 1..Len(wq') : wq'[i] # d
      BY <1>2, <2>1
    <2>. QED  BY <1>8, <1>9, <2>1, <2>2, <2>3 DEF PoppedWaits
  <1>12. ReadyWaits'
    BY <1>1, <1>6 DEF ReadyWaits
  <1>13. EnqueuedIsRunning'
    BY <1>1 DEF WaitInv, EnqueuedIsRunning
  <1>14. WaiterIsSomewhere'
    <2>1. ASSUME NEW d \in Coroutine, Waiter(d)', d # c
          PROVE  \E i \in 1..Len(wq') : wq'[i] = d
      <3>1. ~ \E q \in Proc : pc[q] = "wake"
        BY <1>1 DEF TokenInv, ActiveIsUnique, Active
      <3>2. \E i \in 1..Len(wq) : wq[i] = d
        BY <1>3, <1>6, <2>1, <3>1 DEF WaitInv, WaiterIsSomewhere
      <3>. QED  BY <1>2, <2>1, <3>2
    <2>. QED  BY <1>9, <2>1 DEF WaiterIsSomewhere
  <1>. QED  BY <1>2, <1>10, <1>11, <1>12, <1>13, <1>14 DEF WaitInv

LEMMA WaitAddReady ==
    ASSUME TypeOK, WaitInv, TokenInv, NEW p \in Proc, UnlockAddReady(p)
    PROVE  WaitInv'
  <1> USE MutexAssumption DEF Proc
  <1> DEFINE c == target[p]
             s == SchedOf[c]
  <1>1. /\ pc \in [Proc -> PcState]
        /\ ready \in [Sched -> Seq(Coroutine)]
        /\ pc[p] = "wake" /\ pc' = [pc EXCEPT ![p] = "idle"]
        /\ ready' = [ready EXCEPT ![s] = Append(@, c)]
        /\ UNCHANGED <<wq, running>>
    BY DEF UnlockAddReady, TypeOK
  <1>2. /\ c \in Coroutine /\ s \in Sched /\ Waiter(c)
        /\ \A i \in 1..Len(wq) : wq[i] # c
    BY <1>1 DEF WaitInv, PoppedWaits
  <1>3. /\ \A q \in Proc : pc[q] = "wake" => q = p
        /\ \A r \in Sched : ready[r] = <<>>
    BY <1>1 DEF TokenInv, ActiveIsUnique, ActiveOrReady, Active
  <1>4. \A q \in Proc : pc'[q] # "wake"
    BY <1>1, <1>3
  <1>5. \A d \in Coroutine : Waiter(d)' = Waiter(d)
    BY <1>1 DEF Waiter
  <1> HIDE DEF c, s
  <1>6. ready'[s] # <<>> /\ ready'[s][1] = c
    <2>1. <<>> \in Seq(Coroutine) /\ Len(<<>>) = 0
      OBVIOUS
    <2>2. Append(<<>>, c) # <<>> /\ Append(<<>>, c)[1] = c
      BY <1>2, <2>1, AppendEntries
    <2>. QED  BY <1>1, <1>2, <1>3, <2>2
  <1>7. \A r \in Sched : r # s => ready'[r] = <<>>
    BY <1>1, <1>3
  <1>8. QueuedOnce' /\ QueuedWaits'
    <2>1. \A i \in 1..Len(wq) : wq[i] \in Coroutine \cup {NullPtr}
      BY ElementOfSeq DEF TypeOK
    <2>. QED  BY <1>1, <1>5, <2>1 DEF WaitInv, QueuedOnce, QueuedWaits
  <1>9. PoppedWaits'
    BY <1>4 DEF PoppedWaits
  <1>10. ReadyWaits'
    BY <1>1, <1>2, <1>5, <1>6, <1>7 DEF ReadyWaits, s
  <1>11. EnqueuedIsRunning'
    BY <1>1 DEF WaitInv, EnqueuedIsRunning
  <1>12. WaiterIsSomewhere'
    BY <1>1, <1>3, <1>5, <1>6, <1>7 DEF WaitInv, WaiterIsSomewhere, c, s
  <1>. QED  BY <1>8, <1>9, <1>10, <1>11, <1>12 DEF WaitInv

LEMMA WaitResume ==
    ASSUME TypeOK, WaitInv, TokenInv, NEW s \in Sched, Resume(s)
    PROVE  WaitInv'
  <1> USE MutexAssumption DEF Proc
  <1> DEFINE c == Head(ready[s])
  <1>1. /\ pc \in [Proc -> PcState] /\ ready[s] \in Seq(Coroutine)
        /\ ready \in [Sched -> Seq(Coroutine)]
        /\ running[s] = NoCo /\ ready[s] # <<>> /\ Len(ready[s]) = 1
        /\ running' = [running EXCEPT ![s] = c]
        /\ ready' = [ready EXCEPT ![s] = Tail(@)]
        /\ pc' = [pc EXCEPT ![c] = IF @ = "susp" THEN "cs" ELSE @]
        /\ UNCHANGED <<wq, target>>
    BY DEF Resume, TypeOK, TokenInv, ReadyIsSingle
  <1>2. c \in Coroutine /\ c = ready[s][1] /\ Tail(ready[s]) = <<>>
    <2>1. /\ c \in Coroutine /\ c = ready[s][1]
          /\ Tail(ready[s]) \in Seq(Coroutine) /\ Len(Tail(ready[s])) = 0
      BY <1>1, TailEntries
    <2>. QED  BY <2>1, EmptySeq
  <1>3. /\ SchedOf[c] = s /\ pc[c] = "susp"
        /\ \A i \in 1..Len(wq) : wq[i] # c
    <2>1. /\ SchedOf[c] = s /\ pc[c] \in {"enq", "susp"}
          /\ \A i \in 1..Len(wq) : wq[i] # c
      BY <1>1, <1>2 DEF WaitInv, ReadyWaits, Waiter
    <2>. QED  BY <1>1, <1>2, <2>1 DEF WaitInv, EnqueuedIsRunning
  <1> HIDE DEF c
  <1>4. pc' = [pc EXCEPT ![c] = "cs"]
    BY <1>1, <1>3
  <1>5. /\ \A q \in Proc : pc[q] # "wake"
        /\ \A r \in Sched : r # s => ready[r] = <<>>
    BY <1>1 DEF TokenInv, ActiveOrReady, ReadyIsUnique, Active
  <1>6. /\ \A q \in Proc : pc'[q] # "wake"
        /\ \A r \in Sched : ready'[r] = <<>>
    BY <1>1, <1>2, <1>4, <1>5
  <1>7. \A d \in Coroutine : d # c => Waiter(d)' = Waiter(d)
    BY <1>4 DEF Waiter
  <1>8. QueuedOnce' /\ QueuedWaits'
    <2>1. \A i \in 1..Len(wq) : wq[i] \in Coroutine \cup {NullPtr}
      BY ElementOfSeq DEF TypeOK
    <2>. QED  BY <1>1, <1>3, <1>7, <2>1 DEF WaitInv, QueuedOnce, QueuedWaits
  <1>9. PoppedWaits' /\ ReadyWaits'
    BY <1>6 DEF PoppedWaits, ReadyWaits
  <1>10. EnqueuedIsRunning'
    BY <1>1, <1>2, <1>4 DEF WaitInv, EnqueuedIsRunning
  <1>11. WaiterIsSomewhere'
    <2>1. ASSUME NEW d \in Coroutine, Waiter(d)'
          PROVE  \E i \in 1..Len(wq') : wq'[i] = d
      <3>1. d # c
        BY <1>1, <1>4, <2>1 DEF Waiter
      <3>2. ready[SchedOf[d]] = <<>> \/ ready[SchedOf[d]][1] # d
        BY <1>2, <1>3, <1>5, <3>1
      <3>. QED
        BY <1>1, <1>5, <1>7, <2>1, <3>1, <3>2 DEF WaitInv, WaiterIsSomewhere
    <2>. QED  BY <2>1 DEF WaiterIsSomewhere
  <1>. QED  BY <1>8, <1>9, <1>10, <1>11 DEF WaitInv

LEMMA StepWait ==
    ASSUME IInv, [Next]_vars
    PROVE  WaitInv'
  <1> USE MutexAssumption DEF Proc
  <1> TypeOK /\ WaitInv /\ TokenInv
    BY DEF IInv
  <1> pc \in [Proc -> PcState] /\ running \in [Sched -> Coroutine \cup {NoCo}]
    BY DEF TypeOK
  <1>1. ASSUME NEW p \in Proc, LockFast(p) \/ TryLock(p) \/ UnlockFree(p)
        PROVE  WaitInv'
    <2>1. /\ UNCHANGED <<wq, ready, running, target>>
          /\ pc[p] \in {"idle", "cs"}
          /\ \E l \in {"idle", "cs"} : pc' = [pc EXCEPT ![p] = l]
      BY <1>1 DEF LockFast, TryLock, UnlockFree
    <2>2. \A c \in Coroutine : Waiter(c)' = Waiter(c)
      BY <2>1 DEF Waiter
    <2>3. \A q \in Proc : pc'[q] = "wake" <=> pc[q] = "wake"
      BY <2>1
    <2>4. EnqueuedIsRunning'
      BY <2>1 DEF WaitInv, EnqueuedIsRunning
    <2>. QED  BY <2>1, <2>2, <2>3, <2>4, WaitStays
  <1>2. ASSUME NEW p \in Proc, UnlockNotify(p)
        PROVE  WaitInv'
    <2>1. /\ UNCHANGED <<wq, ready, running, target>>
          /\ pc[p] = "notify"
          /\ \/ pc' = [pc EXCEPT ![p] = "idle"]
             \/ \E t \in Thread :
                   /\ pc[t] = "cvwait"
                   /\ pc' = [pc EXCEPT ![p] = "idle", ![t] = "woken"]
      BY <1>2 DEF UnlockNotify
    <2>2. \A c \in Coroutine : Waiter(c)' = Waiter(c)
      BY <2>1 DEF Waiter
    <2>3. \A q \in Proc : pc'[q] = "wake" <=> pc[q] = "wake"
      BY <2>1
    <2>4. EnqueuedIsRunning'
      BY <2>1 DEF WaitInv, EnqueuedIsRunning
    <2>. QED  BY <2>1, <2>2, <2>3, <2>4, WaitStays
  <1>3. ASSUME NEW c \in Coroutine, LockYield(c)
        PROVE  WaitInv'
    <2>1. /\ UNCHANGED <<wq, ready, target>>
          /\ pc[c] = "enq" /\ running[SchedOf[c]] = c
          /\ pc' = [pc EXCEPT ![c] = "susp"]
          /\ running' = [running EXCEPT ![SchedOf[c]] = NoCo]
      BY <1>3 DEF LockYield, OnCpu
    <2>2. \A d \in Coroutine : Waiter(d)' = Waiter(d)
      BY <2>1 DEF Waiter
    <2>3. \A q \in Proc : pc'[q] = "wake" <=> pc[q] = "wake"
      BY <2>1
    <2>4. EnqueuedIsRunning'
      BY <2>1 DEF WaitInv, EnqueuedIsRunning
    <2>. QED  BY <2>1, <2>2, <2>3, <2>4, WaitStays
  <1>4. ASSUME NEW c \in Coroutine, Park(c) \/ Unpark(c)
        PROVE  WaitInv'
    <2>1. /\ UNCHANGED <<wq, ready, pc, target>>
          /\ pc[c] # "enq"
          /\ running[SchedOf[c]] \in {c, NoCo}
          /\ \E r \in {c, NoCo} : running' = [running EXCEPT ![SchedOf[c]] = r]
      BY <1>4 DEF Park, Unpark
    <2>2. EnqueuedIsRunning'
      BY <2>1 DEF WaitInv, EnqueuedIsRunning
    <2>3. \A d \in Coroutine : Waiter(d)' = Waiter(d)
      BY <2>1 DEF Waiter
    <2>. QED  BY <2>1, <2>2, <2>3, WaitStays
  <1>5. ASSUME NEW t \in Thread, SpuriousWakeup(t) \/ LockRecheck(t)
        PROVE  WaitInv'
    <2>1. /\ UNCHANGED <<wq, ready, running, target>>
          /\ pc[t] \in {"cvwait", "woken"}
          /\ \E l \in {"cvwait", "woken", "cs"} : pc' = [pc EXCEPT ![t] = l]
      BY <1>5 DEF SpuriousWakeup, LockRecheck
    <2>2. \A c \in Coroutine : Waiter(c)' = Waiter(c)
      BY <2>1 DEF Waiter
    <2>3. \A q \in Proc : pc'[q] = "wake" <=> pc[q] = "wake"
      BY <2>1
    <2>4. EnqueuedIsRunning'
      BY <2>1 DEF WaitInv, EnqueuedIsRunning
    <2>. QED  BY <2>1, <2>2, <2>3, <2>4, WaitStays
  <1>6. ASSUME UNCHANGED vars
        PROVE  WaitInv'
    <2>1. UNCHANGED <<wq, ready, running, pc, target>>
      BY <1>6 DEF vars
    <2>2. /\ EnqueuedIsRunning'
          /\ \A c \in Coroutine : Waiter(c)' = Waiter(c)
      BY <2>1 DEF WaitInv, EnqueuedIsRunning, Waiter
    <2>. QED  BY <2>1, <2>2, WaitStays
  <1>. QED
    BY <1>1, <1>2, <1>3, <1>4, <1>5, <1>6, WaitEnqueue, WaitQueueThread,
       WaitPopThread, WaitPopCoroutine, WaitAddReady, WaitResume
       DEF Next, Unlock

(* All of this holds in every state of Mutex.                              *)
THEOREM Inductive == Spec => []IInv
  <1>1. IInv /\ [Next]_vars => IInv'
    BY StepType, StepToken, StepWait DEF IInv
  <1>. QED  BY InitIInv, <1>1, PTL DEF Spec

-----------------------------------------------------------------------------
(* The variables keep their types.                                         *)
THEOREM TypeCorrect == Spec => []TypeOK
  <1>1. IInv => TypeOK
    BY DEF IInv
  <1>. QED  BY Inductive, <1>1, PTL

LEMMA ReadiedIsFirst ==
    ASSUME IInv, NEW c \in Coroutine, Readied(c)
    PROVE  LET s == SchedOf[c]
           IN  /\ ready[s] # <<>> /\ ready[s][1] = c
               /\ \A i \in DOMAIN ready[s] : i = 1
  <1> DEFINE s == SchedOf[c]
  <1>1. /\ s \in Sched /\ ready[s] \in Seq(Coroutine)
        /\ ready[s] = <<>> \/ Len(ready[s]) = 1
    BY MutexAssumption DEF IInv, TypeOK, TokenInv, ReadyIsSingle
  <1>2. PICK i \in DOMAIN ready[s] : ready[s][i] = c
    BY DEF Readied
  <1>3. DOMAIN ready[s] = 1..Len(ready[s])
    BY <1>1, LenProperties
  <1>4. ready[s] # <<>>
    BY <1>2, <1>3, EmptySeq
  <1>5. \A j \in DOMAIN ready[s] : j = 1
    BY <1>1, <1>3, <1>4
  <1>. HIDE DEF s
  <1>6. i = 1
    BY <1>2, <1>5
  <1>. QED  BY <1>2, <1>4, <1>5, <1>6 DEF s

LEMMA OwnersEqual == IInv => MutualExclusion
  <1>1. ASSUME IInv, NEW p \in Proc, NEW q \in Proc, Owns(p), Owns(q)
        PROVE  p = q
    <2> TokenInv
      BY <1>1 DEF IInv
    <2> USE DEF Proc
    <2>1. \A r \in Proc : Owns(r) =>
             \/ pc[r] = "cs"
             \/ r \in Coroutine /\ Popped(r)
             \/ /\ r \in Coroutine /\ ready[SchedOf[r]] # <<>>
                /\ ready[SchedOf[r]][1] = r
      BY <1>1, ReadiedIsFirst DEF Owns
    <2>2. CASE \E s \in Sched : ready[s] # <<>>
      <3>1. \A r \in Proc : pc[r] \notin {"cs", "wake"}
        BY <2>2 DEF TokenInv, ActiveOrReady, Active
      <3>. QED
        BY <1>1, <2>1, <3>1, MutexAssumption
           DEF Popped, TokenInv, ReadyIsUnique
    <2>3. CASE \A s \in Sched : ready[s] = <<>>
      <3>1. \A r \in Proc : Owns(r) =>
               \/ pc[r] = "cs"
               \/ r \in Coroutine /\ Popped(r)
        BY <2>1, <2>3, MutexAssumption
      <3>. QED
        BY <1>1, <3>1 DEF Popped, TokenInv, ActiveIsUnique, Active
    <2>. QED  BY <2>2, <2>3
  <1>. QED  BY <1>1 DEF MutualExclusion

LEMMA LockedOwned == IInv => LockedHasOwner
  <1>1. ASSUME IInv, lock = 1
        PROVE  \E p \in Proc : Owns(p)
    <2> TypeOK /\ TokenInv /\ WaitInv
      BY <1>1 DEF IInv
    <2> USE DEF Proc
    <2>1. CASE \E p \in Proc : pc[p] = "cs"
      BY <2>1 DEF Owns
    <2>2. CASE \E p \in Proc : pc[p] = "wake"
      <3>1. PICK p \in Proc : pc[p] = "wake"
        BY <2>2
      <3>2. target[p] \in Coroutine
        BY <3>1 DEF WaitInv, PoppedWaits
      <3>. QED  BY <3>1, <3>2 DEF Owns, Popped
    <2>3. CASE \E s \in Sched : ready[s] # <<>>
      <3>1. PICK s \in Sched : ready[s] # <<>>
        BY <2>3
      <3>2. /\ ready[s] \in Seq(Coroutine)
            /\ Head(ready[s]) \in Coroutine /\ Head(ready[s]) = ready[s][1]
            /\ 1 \in DOMAIN ready[s]
        <4>1. ready[s] \in Seq(Coroutine)
          BY <3>1 DEF TypeOK
        <4>2. /\ Head(ready[s]) \in Coroutine /\ Head(ready[s]) = ready[s][1]
              /\ Len(ready[s]) \in Nat /\ Len(ready[s]) >= 1
          BY <3>1, <4>1, TailEntries
        <4>3. DOMAIN ready[s] = 1..Len(ready[s])
          BY <4>1, LenProperties
        <4>. QED  BY <4>1, <4>2, <4>3
      <3>3. SchedOf[Head(ready[s])] = s
        BY <3>1, <3>2 DEF WaitInv, ReadyWaits
      <3>. QED  BY <3>2, <3>3 DEF Owns, Readied
    <2>. QED  BY <1>1, <2>1, <2>2, <2>3 DEF TokenInv, TokenIfLocked, Active
  <1>. QED  BY <1>1 DEF LockedHasOwner

(* At most one process owns the lock at any time: past lock(), or next in  *)
(* line by a hand-over that has not reached its scheduler yet.             *)
THEOREM Exclusion == Spec => []MutualExclusion
  BY Inductive, OwnersEqual, PTL

(* A locked mutex has an owner: no interleaving of unlock(), its delayed   *)
(* add_ready_task and the schedulers loses the lock.                       *)
THEOREM NeverLost == Spec => []LockedHasOwner
  BY Inductive, LockedOwned, PTL

(* A locked mutex has exactly one owner.                                   *)
THEOREM OwnedByOne == Spec => []OneOwner
  BY Exclusion, NeverLost, PTL DEF OneOwner

(* A waiting coroutine is in exactly one place, everybody else in none.    *)
THEOREM OnePlace == Spec => []WaiterInOnePlace
  <1>1. ASSUME IInv, NEW c \in Coroutine
        PROVE  LET inQueue == {i \in DOMAIN wq : wq[i] = c}
                   inHand  == {p \in Proc : pc[p] = "wake" /\ target[p] = c}
                   inReady == {i \in DOMAIN ready[SchedOf[c]] :
                                  ready[SchedOf[c]][i] = c}
                   places  == {<<"wq", i>> : i \in inQueue}
                                \cup {<<"hand", p>> : p \in inHand}
                                \cup {<<"ready", i>> : i \in inReady}
               IN  IF pc[c] \in {"enq", "susp"}
                   THEN \E x \in places : places = {x}
                   ELSE places = {}
    <2> DEFINE s == SchedOf[c]
               inQueue == {i \in DOMAIN wq : wq[i] = c}
               inHand  == {p \in Proc : pc[p] = "wake" /\ target[p] = c}
               inReady == {i \in DOMAIN ready[s] : ready[s][i] = c}
               places  == {<<"wq", i>> : i \in inQueue}
                             \cup {<<"hand", p>> : p \in inHand}
                             \cup {<<"ready", i>> : i \in inReady}
    <2>1. TypeOK /\ TokenInv /\ WaitInv /\ s \in Sched /\ c # NullPtr
      BY <1>1, MutexAssumption DEF IInv, TypeOK
    <2>2. DOMAIN wq = 1..Len(wq)
      BY <2>1, LenProperties DEF TypeOK
    <2>3. \A i, j \in inQueue : i = j
      BY <2>1, <2>2 DEF WaitInv, QueuedOnce
    <2>4. \A p, q \in inHand : p = q
      BY <2>1 DEF TokenInv, ActiveIsUnique, Active
    <2>5. ASSUME inReady # {}
          PROVE  ready[s] # <<>> /\ ready[s][1] = c /\ inReady = {1}
      <3>1. Readied(c)
        BY <2>5 DEF Readied
      <3>2. /\ ready[s] # <<>> /\ ready[s][1] = c
            /\ \A i \in DOMAIN ready[s] : i = 1
        BY <1>1, <3>1, ReadiedIsFirst
      <3>. QED  BY <2>5, <3>2
    <2>6. inQueue # {} => inHand = {} /\ inReady = {}
      <3>1. ASSUME inQueue # {}, NEW p \in inHand
            PROVE  FALSE
        BY <2>1, <2>2, <3>1 DEF WaitInv, PoppedWaits
      <3>2. ASSUME inQueue # {}, inReady # {}
            PROVE  FALSE
        BY <2>1, <2>2, <2>5, <3>2 DEF WaitInv, ReadyWaits
      <3>. QED  BY <3>1, <3>2
    <2>7. inHand # {} => inReady = {}
      BY <2>1, <2>5 DEF TokenInv, ActiveOrReady, Active
    <2>8. ASSUME ~ Waiter(c)
          PROVE  inQueue = {} /\ inHand = {} /\ inReady = {}
      <3>1. inQueue = {}
        BY <2>1, <2>2, <2>8 DEF WaitInv, QueuedWaits
      <3>2. inHand = {}
        BY <2>1, <2>8 DEF WaitInv, PoppedWaits
      <3>3. inReady = {}
        BY <2>1, <2>5, <2>8 DEF WaitInv, ReadyWaits
      <3>. QED  BY <3>1, <3>2, <3>3
    <2>9. ASSUME Waiter(c)
          PROVE  inQueue # {} \/ inHand # {} \/ inReady # {}
      <3>1. ready[s] # <<>> => 1 \in DOMAIN ready[s]
        <4>1. ready[s] \in Seq(Coroutine)
          BY <2>1 DEF TypeOK
        <4>2. ready[s] # <<>> => Len(ready[s]) \in Nat /\ Len(ready[s]) >= 1
          BY <4>1, TailEntries
        <4>3. DOMAIN ready[s] = 1..Len(ready[s])
          BY <4>1, LenProperties
        <4>. QED  BY <4>2, <4>3
      <3>. QED  BY <2>1, <2>2, <2>9, <3>1 DEF WaitInv, WaiterIsSomewhere
    <2> HIDE DEF inQueue, inHand, inReady
    <2>10. CASE Waiter(c)
      <3>1. CASE inQueue # {}
        <4>1. PICK i : inQueue = {i}
          BY <2>3, <3>1
        <4>2. places = {<<"wq", i>>}
          BY <2>6, <3>1, <4>1
        <4>. QED  BY <2>10, <4>2 DEF Waiter, inQueue, inHand, inReady
      <3>2. CASE inQueue = {} /\ inHand # {}
        <4>1. PICK p : inHand = {p}
          BY <2>4, <3>2
        <4>2. places = {<<"hand", p>>}
          BY <2>7, <3>2, <4>1
        <4>. QED  BY <2>10, <4>2 DEF Waiter, inQueue, inHand, inReady
      <3>3. CASE inQueue = {} /\ inHand = {}
        <4>1. inReady = {1}
          BY <2>5, <2>9, <2>10, <3>3
        <4>2. places = {<<"ready", 1>>}
          BY <3>3, <4>1
        <4>. QED  BY <2>10, <4>2 DEF Waiter, inQueue, inHand, inReady
      <3>. QED  BY <3>1, <3>2, <3>3
    <2>11. CASE ~ Waiter(c)
      <3>1. places = {}
        BY <2>8, <2>11
      <3>. QED  BY <2>11, <3>1 DEF Waiter, inQueue, inHand, inReady
    <2>. QED  BY <2>10, <2>11
  <1>2. IInv => WaiterInOnePlace
    BY <1>1 DEF WaiterInOnePlace
  <1>. QED  BY Inductive, <1>2, PTL
-----------------------------------------------------------------------------
(* The refinement: mutex_impl implements HandoffLock.                      *)

(* Nobody queues while the lock is free: whoever takes it on arrival       *)
(* overtakes nobody.                                                       *)
LineEmptyIfFree == lock = 0 => wq = <<>>

LEMMA FreeHasNoLine == Spec => []LineEmptyIfFree
  <1>1. Init => LineEmptyIfFree
    BY DEF Init, LineEmptyIfFree
  <1>2. LineEmptyIfFree /\ [Next]_vars => LineEmptyIfFree'
    <2> SUFFICES ASSUME LineEmptyIfFree, [Next]_vars
                 PROVE  LineEmptyIfFree'
      OBVIOUS
    <2>1. ASSUME NEW p \in Proc,
                 LockFast(p) \/ TryLock(p) \/ Unlock(p) \/ UnlockAddReady(p) \/ UnlockNotify(p)
          PROVE  LineEmptyIfFree'
      BY <2>1 DEF LockFast, TryLock, Unlock, UnlockFree, UnlockToCoroutine, UnlockToThread,
                  UnlockAddReady, UnlockNotify, LineEmptyIfFree
    <2>2. ASSUME NEW c \in Coroutine, LockEnqueue(c) \/ LockYield(c) \/ Park(c) \/ Unpark(c)
          PROVE  LineEmptyIfFree'
      BY <2>2 DEF LockEnqueue, LockYield, Park, Unpark, LineEmptyIfFree
    <2>3. ASSUME NEW t \in Thread, LockWait(t) \/ SpuriousWakeup(t) \/ LockRecheck(t)
          PROVE  LineEmptyIfFree'
      BY <2>3 DEF LockWait, SpuriousWakeup, LockRecheck, LineEmptyIfFree
    <2>4. ASSUME NEW s \in Sched, Resume(s)
          PROVE  LineEmptyIfFree'
      BY <2>4 DEF Resume, LineEmptyIfFree
    <2>5. CASE UNCHANGED vars
      BY <2>5 DEF vars, LineEmptyIfFree
    <2>. QED  BY <2>1, <2>2, <2>3, <2>4, <2>5 DEF Next
  <1>. QED  BY <1>1, <1>2, PTL DEF Spec

(* The abstract owner of a locked mutex is the process that owns it.       *)
LEMMA OwnerIs ==
    ASSUME IInv, lock = 1, NEW p \in Proc, Owns(p)
    PROVE  Owner = p
  BY OwnersEqual DEF Owner, MutualExclusion

LEMMA OwnerSame ==
    ASSUME IInv, IInv', lock' = lock,
           \A p \in Proc : Owns(p) => Owns(p)'
    PROVE  Owner' = Owner
  <1>1. /\ MutualExclusion /\ MutualExclusion'
        /\ LockedHasOwner
    BY OwnersEqual, LockedOwned, PTL
  <1>2. ASSUME lock = 1
        PROVE  Owner' = Owner
    <2>1. PICK p \in Proc : Owns(p)
      BY <1>1, <1>2 DEF LockedHasOwner
    <2>2. Owns(p)'
      BY <2>1
    <2>3. Owner = p /\ Owner' = p
      BY <1>1, <1>2, <2>1, <2>2 DEF Owner, MutualExclusion
    <2>. QED  BY <2>3
  <1>. QED  BY <1>2 DEF Owner, IInv, TypeOK

LEMMA LineSame ==
    ASSUME wq' = wq,
           \A t \in Thread : WaitingThread(t)' = WaitingThread(t)
    PROVE  InLine' = InLine
  BY DEF InLine, Queued

(* Who has just begun to wait owns nothing, and nothing waits for it.      *)
LEMMA IdleIsOutside ==
    ASSUME IInv, NEW c \in Coroutine, ~ Waiter(c)
    PROVE  ~ Queued(c) /\ ~ Popped(c) /\ ~ Readied(c)
  <1> TypeOK /\ WaitInv /\ c # NullPtr /\ SchedOf[c] \in Sched
    BY MutexAssumption DEF IInv
  <1>1. ~ Queued(c)
    <2>1. DOMAIN wq = 1..Len(wq)
      BY LenProperties DEF TypeOK
    <2>. QED  BY <2>1 DEF Queued, WaitInv, QueuedWaits
  <1>2. ~ Popped(c)
    BY DEF Popped, WaitInv, PoppedWaits
  <1>3. ~ Readied(c)
    BY ReadiedIsFirst DEF WaitInv, ReadyWaits
  <1>. QED  BY <1>1, <1>2, <1>3

LEMMA FreeAndOffered ==
    /\ Free # Offered
    /\ \A p \in Proc : p # Free /\ p # Offered
  <1>1. Free.state # Offered.state
    BY DEF Free, Offered
  <1>. QED  BY <1>1, OwnerAssumption

(* Every step of the mutex is a step of HandoffLock or none.               *)
LEMMA StepHandsOff ==
    ASSUME IInv, IInv', LineEmptyIfFree, [Next]_vars
    PROVE  [Abstract!Next]_(Abstract!lockVars)
  <1> USE MutexAssumption DEF Proc
  <1> /\ TypeOK /\ TokenInv /\ WaitInv
      /\ pc \in [Proc -> PcState] /\ lock \in 0..2
      /\ wq \in Seq(Coroutine \cup {NullPtr})
    BY DEF IInv, TypeOK
  <1>1. ASSUME NEW p \in Proc, OnCpu(p), pc[p] = "idle", lock = 0, lock' = 1,
               pc' = [pc EXCEPT ![p] = "cs"], UNCHANGED <<wq, ready, running, target>>
        PROVE  Abstract!Acquire(p)
    <2>1. Owner = Free /\ wq = <<>>
      BY <1>1 DEF Owner, LineEmptyIfFree
    <2>2. Owns(p)'
      BY <1>1 DEF Owns
    <2>3. Owner' = p
      <3>1. MutualExclusion'
        BY OwnersEqual, PTL
      <3>. QED  BY <1>1, <2>2, <3>1 DEF Owner, MutualExclusion
    <2>4. InLine' = InLine
      BY <1>1, LineSame DEF WaitingThread
    <2>. QED  BY <1>1, <2>1, <2>3, <2>4 DEF Abstract!Acquire
  <1>2. ASSUME NEW c \in Coroutine, LockEnqueue(c)
        PROVE  Abstract!Join(c)
    <2>1. /\ pc[c] = "idle" /\ lock # 0 /\ lock' = lock
          /\ wq' = Append(wq, c)
          /\ pc' = [pc EXCEPT ![c] = "enq"]
          /\ UNCHANGED <<ready, running, target>>
          /\ c \notin Thread
      BY <1>2 DEF LockEnqueue
    <2>2. ~ Queued(c) /\ ~ Owns(c)
      BY <2>1, IdleIsOutside DEF Waiter, Owns
    <2>3. Owner # Free /\ Owner # c
      <3>1. CASE lock = 2
        BY <3>1, FreeAndOffered DEF Owner
      <3>2. CASE lock = 1
        <4>1. PICK p \in Proc : Owns(p)
          BY <3>2, LockedOwned DEF LockedHasOwner
        <4>2. Owner = p
          BY <3>2, <4>1, OwnerIs
        <4>. QED  BY <2>2, <4>1, <4>2, FreeAndOffered
      <3>. QED  BY <2>1, <3>1, <3>2
    <2>4. Owner' = Owner
      <3>1. \A p \in Proc : Owns(p) => Owns(p)'
        BY <2>1 DEF Owns, Popped, Readied
      <3>. QED  BY <2>1, <3>1, OwnerSame
    <2>5. InLine' = InLine \cup {c}
      <3>1. \A d \in Coroutine : Queued(d)' <=> Queued(d) \/ d = c
        <4>1. /\ DOMAIN wq = 1..Len(wq) /\ DOMAIN wq' = 1..Len(wq')
              /\ Len(wq) \in Nat /\ Len(wq') = Len(wq) + 1
              /\ wq'[Len(wq) + 1] = c
              /\ \A i \in 1..Len(wq) : wq'[i] = wq[i]
          BY <2>1, AppendEntries, LenProperties
        <4>2. /\ \A i \in DOMAIN wq' : i = Len(wq) + 1 \/ i \in DOMAIN wq
              /\ \A i \in DOMAIN wq : i \in DOMAIN wq'
              /\ Len(wq) + 1 \in DOMAIN wq'
          BY <4>1
        <4>. QED  BY <4>1, <4>2 DEF Queued
      <3>2. \A t \in Thread : WaitingThread(t)' = WaitingThread(t)
        BY <2>1 DEF WaitingThread
      <3>. QED  BY <3>1, <3>2 DEF InLine
    <2>6. c \notin InLine
      BY <2>1, <2>2 DEF InLine
    <2>. QED  BY <2>1, <2>3, <2>4, <2>5, <2>6 DEF Abstract!Join
  <1>3. ASSUME NEW t \in Thread, LockWait(t)
        PROVE  Abstract!Join(t)
    <2>1. /\ pc[t] = "idle" /\ lock # 0 /\ lock' = lock
          /\ wq' = Append(wq, NullPtr)
          /\ pc' = [pc EXCEPT ![t] = "cvwait"]
          /\ UNCHANGED <<ready, running, target>>
          /\ t \notin Coroutine
      BY <1>3 DEF LockWait
    <2>2. ~ Owns(t)
      BY <2>1 DEF Owns
    <2>3. Owner # Free /\ Owner # t
      <3>1. CASE lock = 2
        BY <3>1, FreeAndOffered DEF Owner
      <3>2. CASE lock = 1
        <4>1. PICK p \in Proc : Owns(p)
          BY <3>2, LockedOwned DEF LockedHasOwner
        <4>2. Owner = p
          BY <3>2, <4>1, OwnerIs
        <4>. QED  BY <2>2, <4>1, <4>2, FreeAndOffered
      <3>. QED  BY <2>1, <3>1, <3>2
    <2>4. Owner' = Owner
      <3>1. \A p \in Proc : Owns(p) => Owns(p)'
        BY <2>1 DEF Owns, Popped, Readied
      <3>. QED  BY <2>1, <3>1, OwnerSame
    <2>5. InLine' = InLine \cup {t}
      <3>1. \A d \in Coroutine : Queued(d)' <=> Queued(d)
        <4>1. /\ DOMAIN wq = 1..Len(wq) /\ DOMAIN wq' = 1..Len(wq')
              /\ Len(wq) \in Nat /\ Len(wq') = Len(wq) + 1
              /\ wq'[Len(wq) + 1] = NullPtr
              /\ \A i \in 1..Len(wq) : wq'[i] = wq[i]
          BY <2>1, AppendEntries, LenProperties
        <4>2. /\ \A i \in DOMAIN wq' : i = Len(wq) + 1 \/ i \in DOMAIN wq
              /\ \A i \in DOMAIN wq : i \in DOMAIN wq'
          BY <4>1
        <4>. QED  BY <4>1, <4>2 DEF Queued
      <3>2. \A u \in Thread : WaitingThread(u)' <=> WaitingThread(u) \/ u = t
        BY <2>1 DEF WaitingThread
      <3>. QED  BY <3>1, <3>2 DEF InLine
    <2>6. t \notin InLine
      BY <2>1 DEF InLine, WaitingThread
    <2>. QED  BY <2>1, <2>3, <2>4, <2>5, <2>6 DEF Abstract!Join
  <1>4. ASSUME NEW t \in Thread, LockRecheck(t), lock = 2
        PROVE  Abstract!TakeOffer(t)
    <2>1. /\ pc[t] = "woken" /\ lock' = 1 /\ wq' = wq
          /\ pc' = [pc EXCEPT ![t] = "cs"]
          /\ t \notin Coroutine
      BY <1>4 DEF LockRecheck
    <2>2. Owner = Offered
      BY <1>4 DEF Owner
    <2>3. Owner' = t
      <3>1. MutualExclusion'
        BY OwnersEqual, PTL
      <3>2. Owns(t)'
        BY <2>1 DEF Owns
      <3>. QED  BY <2>1, <3>1, <3>2 DEF Owner, MutualExclusion
    <2>4. t \in InLine /\ InLine' = InLine \ {t}
      <3>1. WaitingThread(t) /\ \A u \in Thread : WaitingThread(u)' <=> WaitingThread(u) /\ u # t
        BY <2>1 DEF WaitingThread
      <3>. QED  BY <2>1, <3>1 DEF InLine, Queued
    <2>. QED  BY <2>1, <2>2, <2>3, <2>4 DEF Abstract!TakeOffer
  <1>5. ASSUME NEW p \in Proc, pc[p] = "cs"
        PROVE  lock = 1 /\ Owner = p
    <2>1. lock = 1
      BY <1>5 DEF TokenInv, NoTokenUnlessLocked, Active
    <2>2. Owns(p)
      BY <1>5 DEF Owns
    <2>. QED  BY <2>1, <2>2, OwnerIs
  <1>6. ASSUME NEW p \in Proc, UnlockFree(p)
        PROVE  Abstract!Release
    <2>1. /\ pc[p] = "cs" /\ wq = <<>> /\ wq' = wq /\ lock' = 0
          /\ pc' = [pc EXCEPT ![p] = "idle"]
      BY <1>6 DEF UnlockFree
    <2>2. Owner = p /\ Owner' = Free
      BY <1>5, <2>1 DEF Owner
    <2>3. InLine' = InLine
      BY <2>1, LineSame DEF WaitingThread
    <2>. QED  BY <2>1, <2>2, <2>3 DEF Abstract!Release, Abstract!Client
  <1>7. ASSUME NEW p \in Proc, UnlockToCoroutine(p)
        PROVE  Abstract!HandToCoroutine
    <2>1. /\ pc[p] = "cs" /\ wq # <<>> /\ Head(wq) # NullPtr
          /\ wq' = Tail(wq) /\ lock' = lock
          /\ target' = [target EXCEPT ![p] = Head(wq)]
          /\ pc' = [pc EXCEPT ![p] = "wake"]
          /\ target \in [Proc -> Coroutine \cup {NoCo}]
      BY <1>7 DEF UnlockToCoroutine, TypeOK
    <2>2. lock = 1 /\ Owner = p
      BY <1>5, <2>1
    <2>3. /\ Len(wq) \in Nat /\ Len(wq) >= 1 /\ Len(Tail(wq)) = Len(wq) - 1
          /\ Head(wq) = wq[1] /\ Head(wq) \in Coroutine
          /\ DOMAIN wq = 1..Len(wq) /\ DOMAIN wq' = 1..Len(wq')
          /\ \A i \in 1..Len(wq') : i + 1 \in 2..Len(wq) /\ wq'[i] = wq[i + 1]
          /\ \A i \in 2..Len(wq) : i - 1 \in 1..Len(wq') /\ wq'[i - 1] = wq[i]
      BY <2>1, TailEntries, LenProperties
    <2>4. Owner' = Head(wq)
      <3>1. MutualExclusion'
        BY OwnersEqual, PTL
      <3>2. PICK c \in Coroutine : c = Head(wq)
        BY <2>3
      <3>3. Owns(c)'
        BY <2>1, <3>2 DEF Owns, Popped
      <3>. QED  BY <2>1, <2>2, <3>1, <3>2, <3>3 DEF Owner, MutualExclusion
    <2>5. InLine' = InLine \ {Head(wq)}
      <3>1. \A d \in Coroutine : Queued(d)' <=> Queued(d) /\ d # Head(wq)
        <4>1. ASSUME NEW d \in Coroutine, Queued(d), d # Head(wq)
              PROVE  Queued(d)'
          <5>1. PICK i \in 2..Len(wq) : wq[i] = d
            BY <2>3, <4>1 DEF Queued
          <5>. QED  BY <2>3, <5>1 DEF Queued
        <4>2. ASSUME NEW d \in Coroutine, Queued(d)'
              PROVE  Queued(d) /\ d # Head(wq)
          <5>1. PICK i \in 2..Len(wq) : wq[i] = d
            BY <2>3, <4>2 DEF Queued
          <5>2. d # NullPtr /\ 1 \in 1..Len(wq) /\ i \in 1..Len(wq) /\ i # 1
            BY <2>3, <5>1
          <5>3. wq[1] # d
            BY <5>1, <5>2 DEF WaitInv, QueuedOnce
          <5>. QED  BY <2>3, <5>1, <5>2, <5>3 DEF Queued
        <4>. QED  BY <4>1, <4>2
      <3>2. \A t \in Thread : WaitingThread(t)' = WaitingThread(t)
        BY <2>1 DEF WaitingThread
      <3>. QED  BY <2>3, <3>1, <3>2 DEF InLine
    <2>. QED
      BY <2>1, <2>2, <2>3, <2>4, <2>5 DEF Abstract!HandToCoroutine, Abstract!Client
  <1>8. ASSUME NEW p \in Proc, UnlockToThread(p)
        PROVE  Abstract!OfferToThreads
    <2>1. /\ pc[p] = "cs" /\ wq # <<>> /\ Head(wq) = NullPtr
          /\ wq' = Tail(wq) /\ lock' = 2
          /\ pc' = [pc EXCEPT ![p] = "notify"]
      BY <1>8 DEF UnlockToThread
    <2>2. Owner = p /\ Owner' = Offered
      BY <1>5, <2>1 DEF Owner
    <2>3. /\ Len(wq) \in Nat /\ Len(wq) >= 1 /\ Len(Tail(wq)) = Len(wq) - 1
          /\ Head(wq) = wq[1]
          /\ DOMAIN wq = 1..Len(wq) /\ DOMAIN wq' = 1..Len(wq')
          /\ \A i \in 1..Len(wq') : i + 1 \in 2..Len(wq) /\ wq'[i] = wq[i + 1]
          /\ \A i \in 2..Len(wq) : i - 1 \in 1..Len(wq') /\ wq'[i - 1] = wq[i]
      BY <2>1, TailEntries, LenProperties
    <2>4. InLine' = InLine
      <3>1. \A d \in Coroutine : Queued(d)' <=> Queued(d)
        <4>1. ASSUME NEW d \in Coroutine, Queued(d)
              PROVE  Queued(d)'
          <5>1. PICK i \in 2..Len(wq) : wq[i] = d
            BY <2>1, <2>3, <4>1 DEF Queued
          <5>2. i - 1 \in DOMAIN wq' /\ wq'[i - 1] = d
            BY <2>3, <5>1
          <5>. QED  BY <5>2 DEF Queued
        <4>2. ASSUME NEW d \in Coroutine, Queued(d)'
              PROVE  Queued(d)
          <5>1. PICK i \in 1..Len(wq') : wq[i + 1] = d /\ i + 1 \in 2..Len(wq)
            BY <2>3, <4>2 DEF Queued
          <5>. QED  BY <2>3, <5>1 DEF Queued
        <4>. QED  BY <4>1, <4>2
      <3>2. \A t \in Thread : WaitingThread(t)' = WaitingThread(t)
        BY <2>1 DEF WaitingThread
      <3>. QED  BY <3>1, <3>2 DEF InLine
    <2>. QED  BY <2>1, <2>2, <2>4 DEF Abstract!OfferToThreads, Abstract!Client
  <1>9. ASSUME lock' = lock, wq' = wq,
               \A p \in Proc : Owns(p) => Owns(p)',
               \A t \in Thread : WaitingThread(t)' = WaitingThread(t)
        PROVE  UNCHANGED Abstract!lockVars
    BY <1>9, OwnerSame, LineSame DEF Abstract!lockVars
  <1>10. ASSUME NEW p \in Proc, UnlockAddReady(p)
         PROVE  UNCHANGED Abstract!lockVars
    <2>1. /\ pc[p] = "wake" /\ lock' = lock /\ wq' = wq
          /\ ready' = [ready EXCEPT ![SchedOf[target[p]]] = Append(@, target[p])]
          /\ pc' = [pc EXCEPT ![p] = "idle"]
          /\ target' = [target EXCEPT ![p] = NoCo]
          /\ target \in [Proc -> Coroutine \cup {NoCo}]
          /\ ready \in [Sched -> Seq(Coroutine)]
      BY <1>10 DEF UnlockAddReady, TypeOK
    <2>2. PICK c \in Coroutine : c = target[p] /\ SchedOf[c] \in Sched
      BY <2>1 DEF WaitInv, PoppedWaits
    <2>3. Owns(c) /\ Owns(c)'
      <3>1. Popped(c)
        BY <2>1, <2>2 DEF Popped
      <3>2. Readied(c)'
        <4>1. PICK q \in Seq(Coroutine) : q = ready[SchedOf[c]] /\ ready'[SchedOf[c]] = Append(q, c)
          BY <2>1, <2>2
        <4>2. /\ Len(q) \in Nat /\ Len(Append(q, c)) = Len(q) + 1
              /\ Append(q, c)[Len(q) + 1] = c
              /\ DOMAIN Append(q, c) = 1..Len(Append(q, c))
          BY <2>2, <4>1, AppendEntries, LenProperties
        <4>3. Len(q) + 1 \in DOMAIN Append(q, c)
          BY <4>2
        <4>. QED  BY <4>1, <4>2, <4>3 DEF Readied
      <3>. QED  BY <2>2, <3>1, <3>2 DEF Owns
    <2>4. \A q \in Proc : Owns(q) => Owns(q)'
      BY <2>2, <2>3, OwnersEqual DEF MutualExclusion
    <2>5. \A t \in Thread : WaitingThread(t)' = WaitingThread(t)
      BY <2>1 DEF WaitingThread
    <2>. QED  BY <1>9, <2>1, <2>4, <2>5
  <1>11. ASSUME NEW p \in Proc, UnlockNotify(p)
         PROVE  UNCHANGED Abstract!lockVars
    <2>1. /\ pc[p] = "notify" /\ UNCHANGED <<lock, wq, ready, target>>
          /\ \/ pc' = [pc EXCEPT ![p] = "idle"]
             \/ \E t \in Thread : /\ pc[t] = "cvwait"
                                  /\ pc' = [pc EXCEPT ![p] = "idle", ![t] = "woken"]
      BY <1>11 DEF UnlockNotify
    <2>2. /\ \A q \in Proc : pc[q] \in {"cs", "wake"} => pc'[q] = pc[q]
          /\ \A t \in Thread : WaitingThread(t)' = WaitingThread(t)
      BY <2>1 DEF WaitingThread
    <2>3. \A q \in Proc : Owns(q) => Owns(q)'
      BY <2>1, <2>2 DEF Owns, Popped, Readied
    <2>. QED  BY <1>9, <2>1, <2>2, <2>3
  <1>12. ASSUME NEW c \in Coroutine, LockYield(c) \/ Park(c) \/ Unpark(c)
         PROVE  UNCHANGED Abstract!lockVars
    <2>1. /\ UNCHANGED <<lock, wq, ready, target>>
          /\ \A q \in Proc : pc[q] \in {"cs", "wake"} => pc'[q] = pc[q]
          /\ \A t \in Thread : pc'[t] = pc[t]
      BY <1>12 DEF LockYield, Park, Unpark
    <2>2. \A q \in Proc : Owns(q) => Owns(q)'
      BY <2>1 DEF Owns, Popped, Readied
    <2>. QED  BY <1>9, <2>1, <2>2 DEF WaitingThread
  <1>13. ASSUME NEW t \in Thread,
                SpuriousWakeup(t) \/ (LockRecheck(t) /\ lock # 2)
         PROVE  UNCHANGED Abstract!lockVars
    <2>1. /\ UNCHANGED <<lock, wq, ready, target>>
          /\ \A q \in Proc : pc[q] \in {"cs", "wake"} => pc'[q] = pc[q]
          /\ \A u \in Thread : WaitingThread(u)' = WaitingThread(u)
      BY <1>13 DEF SpuriousWakeup, LockRecheck, WaitingThread
    <2>2. \A q \in Proc : Owns(q) => Owns(q)'
      BY <2>1 DEF Owns, Popped, Readied
    <2>. QED  BY <1>9, <2>1, <2>2
  <1>14. ASSUME NEW s \in Sched, Resume(s)
         PROVE  UNCHANGED Abstract!lockVars
    <2>1. ready[s] # <<>> /\ ready[s] \in Seq(Coroutine)
      BY <1>14 DEF Resume, TypeOK
    <2>2. PICK c \in Coroutine :
             c = Head(ready[s]) /\ c = ready[s][1] /\ 1 \in DOMAIN ready[s]
      <3>1. /\ Head(ready[s]) \in Coroutine /\ Head(ready[s]) = ready[s][1]
            /\ Len(ready[s]) \in Nat /\ Len(ready[s]) >= 1
        BY <2>1, TailEntries
      <3>. QED  BY <2>1, <3>1, LenProperties
    <2>3. /\ running[s] = NoCo
          /\ running' = [running EXCEPT ![s] = c]
          /\ pc' = [pc EXCEPT ![c] = IF @ = "susp" THEN "cs" ELSE @]
          /\ UNCHANGED <<lock, wq, target>>
      BY <1>14, <2>2 DEF Resume
    <2>4. SchedOf[c] = s /\ Waiter(c)
      BY <2>1, <2>2 DEF WaitInv, ReadyWaits
    <2>5. pc[c] = "susp"
      BY <2>3, <2>4, MutexAssumption DEF Waiter, WaitInv, EnqueuedIsRunning
    <2>6. Owns(c) /\ Owns(c)'
      <3>1. Readied(c)
        BY <2>2, <2>4 DEF Readied
      <3>2. pc'[c] = "cs"
        BY <2>3, <2>5
      <3>. QED  BY <2>2, <3>1, <3>2 DEF Owns
    <2>7. \A q \in Proc : Owns(q) => Owns(q)'
      BY <2>2, <2>6, OwnersEqual DEF MutualExclusion
    <2>8. \A t \in Thread : WaitingThread(t)' = WaitingThread(t)
      BY <2>3 DEF WaitingThread
    <2>. QED  BY <1>9, <2>3, <2>7, <2>8
  <1>15. ASSUME NEW p \in Proc, LockFast(p) \/ TryLock(p)
         PROVE  Abstract!Acquire(p) \/ UNCHANGED Abstract!lockVars
    <2>1. CASE lock = 0
      BY <1>1, <1>15, <2>1 DEF LockFast, TryLock
    <2>2. CASE lock # 0
      <3>1. UNCHANGED <<lock, wq, ready, target>> /\ pc' = pc
        BY <1>15, <2>2 DEF LockFast, TryLock
      <3>2. \A q \in Proc : Owns(q) => Owns(q)'
        BY <3>1 DEF Owns, Popped, Readied
      <3>. QED  BY <1>9, <3>1, <3>2 DEF WaitingThread
    <2>. QED  BY <2>1, <2>2
  <1>16. ASSUME UNCHANGED vars
         PROVE  UNCHANGED Abstract!lockVars
    <2>1. UNCHANGED <<lock, wq, ready, pc, target>>
      BY <1>16 DEF vars
    <2>2. \A q \in Proc : Owns(q) => Owns(q)'
      BY <2>1 DEF Owns, Popped, Readied
    <2>. QED  BY <1>9, <2>1, <2>2 DEF WaitingThread
  <1>. HIDE DEF Proc
  <1>17. \A p \in Proc : p \in Abstract!Client
    BY DEF Proc, Abstract!Client
  <1>18. ASSUME NEW p \in Proc,
                LockFast(p) \/ TryLock(p) \/ Unlock(p) \/ UnlockAddReady(p) \/ UnlockNotify(p)
         PROVE  [Abstract!Next]_(Abstract!lockVars)
    BY <1>6, <1>7, <1>8, <1>10, <1>11, <1>15, <1>17, <1>18 DEF Unlock, Abstract!Next
  <1>19. ASSUME NEW c \in Coroutine, LockEnqueue(c) \/ LockYield(c) \/ Park(c) \/ Unpark(c)
         PROVE  [Abstract!Next]_(Abstract!lockVars)
    <2>1. c \in Abstract!Client
      BY DEF Abstract!Client
    <2>. QED  BY <1>2, <1>12, <1>19, <2>1 DEF Abstract!Next
  <1>20. ASSUME NEW t \in Thread, LockWait(t) \/ SpuriousWakeup(t) \/ LockRecheck(t)
         PROVE  [Abstract!Next]_(Abstract!lockVars)
    <2>1. t \in Abstract!Client
      BY DEF Abstract!Client
    <2>. QED  BY <1>3, <1>4, <1>13, <1>20, <2>1 DEF Abstract!Next
  <1>. QED  BY <1>14, <1>16, <1>18, <1>19, <1>20 DEF Next

(* mutex_impl implements HandoffLock: once somebody waits, the lock passes *)
(* from its owner to the head of the line, and nobody who comes later,     *)
(* with lock() or try_lock(), gets it before.                              *)
THEOREM Implements == Spec => HandsOff
  <1>1. Init => Abstract!Init
    BY MutexAssumption
       DEF Init, Abstract!Init, Owner, InLine, Queued, WaitingThread, Proc
  <1>2. IInv /\ IInv' /\ LineEmptyIfFree /\ [Next]_vars => [Abstract!Next]_(Abstract!lockVars)
    BY StepHandsOff
  <1>. QED
    BY Inductive, FreeHasNoLine, <1>1, <1>2, PTL DEF Spec, HandsOff, Abstract!Spec

-----------------------------------------------------------------------------
(* Induction, for what is defined by recursion: a set of numbers has a     *)
(* least one, because the sets 0..n are finite and those below one another *)
(* are well-founded.                                                       *)

LEMMA LeastNumber ==
    ASSUME NEW T, T \subseteq Nat, T # {}
    PROVE  \E x \in T : \A y \in T : x <= y
  <1> DEFINE U == {0..n : n \in T}
  <1>1. U \subseteq FiniteSubsetsOf(Nat) /\ U # {}
    <2>1. \A n \in T : IsFiniteSet(0..n) /\ 0..n \subseteq Nat
      BY FS_Interval
    <2>. QED  BY <2>1 DEF FiniteSubsetsOf
  <1>2. IsWellFoundedOn(StrictSubsetOrdering(Nat), FiniteSubsetsOf(Nat))
    BY FS_StrictSubsetOrderingWellFounded
  <1>3. PICK x \in U : \A y \in U : ~ (<<y, x>> \in StrictSubsetOrdering(Nat))
    <2> HIDE DEF U
    <2>. QED  BY <1>1, <1>2, WFMin
  <1>4. PICK n \in T : x = 0..n
    OBVIOUS
  <1>5. ASSUME NEW k \in T PROVE n <= k
    <2>1. ~ (<<0..k, 0..n>> \in StrictSubsetOrdering(Nat))
      BY <1>3, <1>4
    <2>2. k < n => 0..k \subseteq 0..n /\ n \notin 0..k /\ n \in 0..n
      OBVIOUS
    <2>3. 0..k \in SUBSET Nat /\ 0..n \in SUBSET Nat
      OBVIOUS
    <2>4. k < n => 0..k # 0..n
      BY <2>2
    <2>. QED  BY <2>1, <2>2, <2>3, <2>4 DEF StrictSubsetOrdering
  <1>. QED  BY <1>5

(* What holds of 0 and of a number with its predecessor holds of all.      *)
LEMMA Induction ==
    ASSUME NEW T, 0 \in T, \A n \in Nat \ {0} : n - 1 \in T => n \in T
    PROVE  Nat \subseteq T
  <1>1. SUFFICES ASSUME Nat \ T # {} PROVE FALSE
    OBVIOUS
  <1>2. PICK n \in Nat \ T : \A k \in Nat \ T : n <= k
    BY <1>1, LeastNumber
  <1>3. n # 0
    BY <1>2
  <1>4. n - 1 \in Nat /\ ~ (n <= n - 1)
    BY <1>2, <1>3
  <1>5. n - 1 \in T
    BY <1>2, <1>4
  <1>. QED  BY <1>2, <1>3, <1>5

Flats(ss, n, f) ==
    f = [i \in 1..n |-> IF i = 1 THEN ss[i] ELSE f[i - 1] \o ss[i]]

LEMMA FlatsExist ==
    ASSUME NEW S, NEW ss \in Seq(Seq(S)), NEW n \in Nat, n <= Len(ss)
    PROVE  \E f : Flats(ss, n, f)
  <1> DEFINE T == {k \in Nat : k <= Len(ss) => \E f : Flats(ss, k, f)}
  <1>1. 0 \in T
    <2>1. Flats(ss, 0, [i \in 1..0 |-> 0])
      BY DEF Flats
    <2>. QED  BY <2>1
  <1>2. ASSUME NEW k \in Nat \ {0}, k - 1 \in T PROVE k \in T
    <2> SUFFICES ASSUME k <= Len(ss) PROVE \E f : Flats(ss, k, f)
      OBVIOUS
    <2>1. Len(ss) \in Nat /\ k - 1 \in Nat /\ k - 1 <= Len(ss)
      BY LenProperties
    <2>2. PICK f : Flats(ss, k - 1, f)
      BY <1>2, <2>1
    <2> DEFINE g == [i \in 1..k |-> IF i = k THEN IF i = 1 THEN ss[i] ELSE f[i - 1] \o ss[i]
                                             ELSE f[i]]
    <2>3. \A i \in 1..(k - 1) : g[i] = f[i] /\ i \in 1..k /\ i # k
      OBVIOUS
    <2>4. \A i \in 1..k : i # 1 => i - 1 \in 1..(k - 1) /\ (i # k => i \in 1..(k - 1))
      OBVIOUS
    <2>5. \A i \in 1..(k - 1) : f[i] = IF i = 1 THEN ss[i] ELSE f[i - 1] \o ss[i]
      BY <2>2 DEF Flats
    <2>6. \A i \in 1..k : g[i] = IF i = 1 THEN ss[i] ELSE g[i - 1] \o ss[i]
      <3> SUFFICES ASSUME NEW i \in 1..k PROVE g[i] = IF i = 1 THEN ss[i] ELSE g[i - 1] \o ss[i]
        OBVIOUS
      <3>1. CASE i = k
        BY <2>3, <2>4, <3>1
      <3>2. CASE i # k
        <4>1. i \in 1..(k - 1)
          BY <3>2
        <4>2. g[i] = f[i]
          BY <2>3, <4>1
        <4>3. i # 1 => g[i - 1] = f[i - 1]
          BY <2>3, <2>4
        <4> HIDE DEF g
        <4>. QED  BY <2>5, <4>1, <4>2, <4>3
      <3>. QED  BY <3>1, <3>2
    <2>7. g = [i \in 1..k |-> g[i]]
      OBVIOUS
    <2> HIDE DEF g
    <2>8. g = [i \in 1..k |-> IF i = 1 THEN ss[i] ELSE g[i - 1] \o ss[i]]
      BY <2>6, <2>7
    <2>9. Flats(ss, k, g)
      BY <2>8 DEF Flats
    <2>. QED  BY <2>9
  <1> HIDE DEF T
  <1>3. n \in T
    BY <1>1, <1>2, Induction
  <1>. QED  BY <1>3 DEF T

(* What FlattenSeq returns is what the sequences in front of each of them  *)
(* come to, together with it.                                              *)
LEMMA FlattenSums ==
    ASSUME NEW S, NEW ss \in Seq(Seq(S)), ss # <<>>
    PROVE  \E f : Flats(ss, Len(ss), f) /\ FlattenSeq(ss) = f[Len(ss)]
  <1>1. Len(ss) \in Nat /\ Len(ss) # 0
    BY EmptySeq
  <1>2. \E f : Flats(ss, Len(ss), f)
    BY <1>1, FlatsExist
  <1> DEFINE flatten == CHOOSE f : Flats(ss, Len(ss), f)
  <1>3. Flats(ss, Len(ss), flatten)
    BY <1>2
  <1>4. flatten = CHOOSE f : f = [i \in 1..Len(ss) |-> IF i = 1 THEN ss[i] ELSE f[i - 1] \o ss[i]]
    BY DEF Flats
  <1>5. FlattenSeq(ss) = flatten[Len(ss)]
    BY <1>1, <1>4 DEF FlattenSeq
  <1>. QED  BY <1>3, <1>5

Sums(ss, n, f) ==
    \A i \in 1..n : f[i] = IF i = 1 THEN ss[i] ELSE f[i - 1] \o ss[i]

LEMMA SumsEqual ==
    ASSUME NEW S, NEW ss \in Seq(Seq(S)), NEW n \in Nat, n <= Len(ss),
           NEW f, NEW g, Sums(ss, n, f), Sums(ss, n, g)
    PROVE  \A i \in 1..n : f[i] = g[i] /\ f[i] \in Seq(S)
  <1> DEFINE T == {k \in Nat : k \in 1..n => f[k] = g[k] /\ f[k] \in Seq(S)}
  <1>1. 0 \in T
    OBVIOUS
  <1>2. ASSUME NEW k \in Nat \ {0}, k - 1 \in T PROVE k \in T
    <2> SUFFICES ASSUME k \in 1..n PROVE f[k] = g[k] /\ f[k] \in Seq(S)
      OBVIOUS
    <2>1. f[k] = (IF k = 1 THEN ss[k] ELSE f[k - 1] \o ss[k])
      BY DEF Sums
    <2>2. g[k] = (IF k = 1 THEN ss[k] ELSE g[k - 1] \o ss[k])
      BY DEF Sums
    <2>3. ss[k] \in Seq(S)
      BY LenProperties, ElementOfSeq
    <2>4. k # 1 => f[k - 1] = g[k - 1] /\ f[k - 1] \in Seq(S)
      <3>1. k # 1 => k - 1 \in 1..n
        OBVIOUS
      <3>. QED  BY <1>2, <3>1
    <2>5. k # 1 => f[k - 1] \o ss[k] \in Seq(S)
      BY <2>3, <2>4, ConcatProperties
    <2>. QED  BY <2>1, <2>2, <2>3, <2>4, <2>5
  <1> HIDE DEF T
  <1>3. Nat \subseteq T
    BY <1>1, <1>2, Induction
  <1> SUFFICES ASSUME NEW i \in 1..n PROVE f[i] = g[i] /\ f[i] \in Seq(S)
    OBVIOUS
  <1>4. i \in T
    BY <1>3
  <1>. QED  BY <1>4 DEF T

LEMMA FlattenType ==
    ASSUME NEW S, NEW ss \in Seq(Seq(S))
    PROVE  FlattenSeq(ss) \in Seq(S)
  <1>1. CASE ss = <<>>
    BY <1>1, EmptySeq DEF FlattenSeq
  <1>2. CASE ss # <<>>
    <2>1. Len(ss) \in Nat \ {0}
      BY <1>2, EmptySeq
    <2>2. PICK f : Flats(ss, Len(ss), f) /\ FlattenSeq(ss) = f[Len(ss)]
      BY <1>2, FlattenSums
    <2>3. Sums(ss, Len(ss), f)
      BY <2>2 DEF Flats, Sums
    <2>4. \A i \in 1..Len(ss) : f[i] \in Seq(S)
      BY <2>1, <2>3, SumsEqual
    <2>. QED  BY <2>1, <2>2, <2>4
  <1>. QED  BY <1>1, <1>2

(* Whatever sums the sequences up gives what FlattenSeq returns.           *)
LEMMA FlattenIs ==
    ASSUME NEW S, NEW ss \in Seq(Seq(S)), ss # <<>>,
           NEW g, Sums(ss, Len(ss), g)
    PROVE  FlattenSeq(ss) = g[Len(ss)]
  <1>1. Len(ss) \in Nat \ {0}
    BY EmptySeq
  <1>2. PICK f : Flats(ss, Len(ss), f) /\ FlattenSeq(ss) = f[Len(ss)]
    BY FlattenSums
  <1>3. Sums(ss, Len(ss), f)
    BY <1>2 DEF Flats, Sums
  <1>4. \A i \in 1..Len(ss) : f[i] = g[i]
    BY <1>1, <1>3, SumsEqual
  <1>. QED  BY <1>1, <1>2, <1>4

LEMMA FlattenOne ==
    ASSUME NEW S, NEW s \in Seq(S)
    PROVE  FlattenSeq(<<s>>) = s
  <1> DEFINE ss == <<s>>
  <1>1. ss \in Seq(Seq(S)) /\ ss # <<>> /\ Len(ss) = 1 /\ ss[1] = s
    OBVIOUS
  <1>2. Sums(ss, Len(ss), ss)
    BY <1>1 DEF Sums
  <1> HIDE DEF ss
  <1>3. FlattenSeq(ss) = ss[Len(ss)]
    BY <1>1, <1>2, FlattenIs
  <1>. QED  BY <1>1, <1>3 DEF ss

(* One more at the end, one more in front.                                 *)
LEMMA FlattenAppend ==
    ASSUME NEW S, NEW ss \in Seq(Seq(S)), NEW s \in Seq(S)
    PROVE  FlattenSeq(Append(ss, s)) = FlattenSeq(ss) \o s
  <1>1. CASE ss = <<>>
    <2>1. Append(ss, s) = <<s>> /\ FlattenSeq(ss) = <<>> /\ <<>> \o s = s
      BY <1>1, EmptySeq, ConcatEmptySeq DEF FlattenSeq
    <2>. QED  BY <2>1, FlattenOne
  <1>2. CASE ss # <<>>
    <2> DEFINE n  == Len(ss)
               tt == Append(ss, s)
    <2>1. n \in Nat \ {0}
      BY <1>2, EmptySeq
    <2>2. PICK f : Flats(ss, n, f) /\ FlattenSeq(ss) = f[n]
      BY <1>2, FlattenSums
    <2>3. /\ tt \in Seq(Seq(S)) /\ tt # <<>> /\ Len(tt) = n + 1 /\ tt[n + 1] = s
          /\ \A i \in 1..n : tt[i] = ss[i]
      BY AppendProperties
    <2> HIDE DEF tt, n
    <2> DEFINE g == [i \in 1..(n + 1) |-> IF i = n + 1 THEN f[n] \o s ELSE f[i]]
    <2>4. \A i \in 1..n : f[i] = IF i = 1 THEN ss[i] ELSE f[i - 1] \o ss[i]
      BY <2>2 DEF Flats
    <2>5. g[n + 1] = f[n] \o s /\ \A i \in 1..n : g[i] = f[i]
      BY <2>1
    <2> HIDE DEF g
    <2>6. ASSUME NEW i \in 1..(n + 1) PROVE g[i] = IF i = 1 THEN tt[i] ELSE g[i - 1] \o tt[i]
      <3>1. CASE i = n + 1
        <4>1. i # 1 /\ i - 1 = n /\ n \in 1..n
          BY <2>1, <3>1
        <4>. QED  BY <2>3, <2>5, <3>1, <4>1
      <3>2. CASE i # n + 1
        <4>1. i \in 1..n /\ (i # 1 => i - 1 \in 1..n)
          BY <2>1, <3>2
        <4>2. g[i] = f[i] /\ tt[i] = ss[i] /\ (i # 1 => g[i - 1] = f[i - 1])
          BY <2>3, <2>5, <4>1
        <4>. QED  BY <2>4, <4>1, <4>2
      <3>. QED  BY <3>1, <3>2
    <2>7. FlattenSeq(tt) = g[n + 1]
      <3>1. Sums(tt, Len(tt), g)
        BY <2>3, <2>6 DEF Sums
      <3>. QED  BY <2>3, <3>1, FlattenIs
    <2>. QED  BY <2>2, <2>5, <2>7 DEF tt
  <1>. QED  BY <1>1, <1>2

Joined(s, t, u) == u = s \o t

LEMMA JoinedAgain ==
    ASSUME NEW S, NEW p \in Seq(S), NEW q \in Seq(S), NEW r \in Seq(S), NEW x, NEW y, NEW z,
           Joined(q, r, x), Joined(p, q, y), Joined(p, x, z)
    PROVE  Joined(y, r, z)
  <1>1. p \o (q \o r) = (p \o q) \o r
    OBVIOUS
  <1>. QED  BY <1>1 DEF Joined

LEMMA FlattenFirst ==
    ASSUME NEW S, NEW ss \in Seq(Seq(S)), ss # <<>>
    PROVE  FlattenSeq(ss) = Head(ss) \o FlattenSeq(Tail(ss))
  <1> DEFINE n  == Len(ss)
             tt == Tail(ss)
  <1>1. /\ n \in Nat \ {0} /\ Head(ss) = ss[1] /\ ss[1] \in Seq(S)
        /\ tt \in Seq(Seq(S)) /\ Len(tt) = n - 1
        /\ \A i \in 1..(n - 1) : tt[i] = ss[i + 1]
    BY EmptySeq, HeadTailProperties
  <1> HIDE DEF n, tt
  <1>2. CASE tt = <<>>
    <2>1. n = 1 /\ FlattenSeq(tt) = <<>>
      BY <1>1, <1>2, EmptySeq DEF FlattenSeq
    <2>2. Sums(ss, n, ss)
      BY <2>1 DEF Sums
    <2>3. FlattenSeq(ss) = ss[1]
      BY <2>1, <2>2, FlattenIs DEF n
    <2>. QED  BY <1>1, <2>1, <2>3, ConcatEmptySeq DEF tt
  <1>3. CASE tt # <<>>
    <2>1. PICK f : Flats(tt, n - 1, f) /\ FlattenSeq(tt) = f[n - 1]
      BY <1>1, <1>3, FlattenSums
    <2>2. n - 1 \in Nat \ {0}
      BY <1>1, <1>3, EmptySeq
    <2>3. \A i \in 1..(n - 1) : f[i] = IF i = 1 THEN tt[i] ELSE f[i - 1] \o tt[i]
      BY <2>1 DEF Flats
    <2>4. \A i \in 1..(n - 1) : f[i] \in Seq(S)
      <3>1. Sums(tt, Len(tt), f)
        BY <1>1, <2>3 DEF Sums
      <3>2. Len(tt) \in Nat /\ Len(tt) <= Len(tt)
        BY <1>1, <2>2
      <3>3. \A i \in 1..Len(tt) : f[i] \in Seq(S)
        BY <1>1, <3>1, <3>2, SumsEqual
      <3>. QED  BY <1>1, <3>3
    <2> DEFINE g == [i \in 1..n |-> IF i = 1 THEN ss[1] ELSE ss[1] \o f[i - 1]]
    <2>5. \A i \in 1..n : g[i] = IF i = 1 THEN ss[1] ELSE ss[1] \o f[i - 1]
      OBVIOUS
    <2> HIDE DEF g
    <2>6. ASSUME NEW i \in 1..n PROVE g[i] = IF i = 1 THEN ss[i] ELSE g[i - 1] \o ss[i]
      <3>1. CASE i = 1
        BY <2>5, <3>1
      <3>2. CASE i = 2
        <4>1. 1 \in 1..n /\ 2 \in 1..n /\ 1 \in 1..(n - 1) /\ 2 - 1 = 1 /\ 1 + 1 = 2
          BY <1>1, <2>2
        <4>2. f[1] = tt[1] /\ tt[1] = ss[2]
          BY <1>1, <2>3, <4>1
        <4>3. g[2] = ss[1] \o f[1] /\ g[1] = ss[1]
          <5>1. g[2] = (IF 2 = 1 THEN ss[1] ELSE ss[1] \o f[2 - 1])
            BY <2>5, <4>1
          <5>2. g[1] = (IF 1 = 1 THEN ss[1] ELSE ss[1] \o f[1 - 1])
            BY <2>5, <4>1
          <5>. QED  BY <4>1, <5>1, <5>2
        <4>4. g[2] = g[2 - 1] \o ss[2]
          BY <4>1, <4>2, <4>3
        <4>. QED  BY <3>2, <4>4
      <3>3. CASE i > 2
        <4>1. i - 1 \in 1..(n - 1) /\ i - 2 \in 1..(n - 1) /\ i - 1 \in 1..n /\ i - 1 # 1
              /\ i # 1 /\ (i - 1) - 1 = i - 2 /\ (i - 1) + 1 = i
          BY <1>1, <3>3
        <4>2. f[i - 1] = f[i - 2] \o tt[i - 1] /\ tt[i - 1] = ss[i]
          BY <1>1, <2>3, <4>1
        <4>3. g[i] = ss[1] \o f[i - 1] /\ g[i - 1] = ss[1] \o f[i - 2]
          BY <2>5, <4>1
        <4>4. tt[i - 1] \in Seq(S)
          BY <1>1, <4>1, ElementOfSeq
        <4>5. f[i - 2] \in Seq(S)
          BY <2>4, <4>1
        <4>6. ss[1] \in Seq(S)
          BY <1>1
        <4>7. /\ Joined(f[i - 2], tt[i - 1], f[i - 1]) /\ Joined(ss[1], f[i - 2], g[i - 1])
              /\ Joined(ss[1], f[i - 1], g[i])
          BY <4>2, <4>3 DEF Joined
        <4>8. Joined(g[i - 1], tt[i - 1], g[i])
          BY <4>4, <4>5, <4>6, <4>7, JoinedAgain
        <4>. QED  BY <4>1, <4>2, <4>8 DEF Joined
      <3>. QED  BY <3>1, <3>2, <3>3
    <2>7. FlattenSeq(ss) = g[n]
      <3>1. Sums(ss, n, g)
        BY <2>6 DEF Sums
      <3>. QED  BY <3>1, FlattenIs DEF n
    <2>8. n \in 1..n /\ n # 1
      BY <1>1, <2>2
    <2>9. g[n] = ss[1] \o f[n - 1]
      BY <2>5, <2>8
    <2>. QED  BY <1>1, <2>1, <2>7, <2>9 DEF tt
  <1>. QED  BY <1>2, <1>3

-----------------------------------------------------------------------------
(* The queue of MutexQueue, whose blocks are popped from the first and     *)
(* pushed to the last.                                                     *)

Entries == Coroutine \cup {NullPtr}

Rest(m) == SubSeq(m.q, m.rx + 1, m.wx)
Rests(bs) == [i \in 1..Len(bs) |-> Rest(bs[i])]

IsRead(m) == m \in Queue!Block /\ m.rx <= m.wx /\ m.wx <= Len(m.q)
(* Only a block that is alone may have nothing left to pop; it is used     *)
(* from its first entry again.                                             *)
BlocksOK(bs) ==
    /\ bs \in Seq(Queue!Block)
    /\ \A i \in 1..Len(bs) :
          IsRead(bs[i]) /\ (bs[i].rx = bs[i].wx => Len(bs) = 1 /\ bs[i].wx = 0)

QueueInv ==
    /\ wq \in Seq(Entries)
    /\ BlocksOK(blocks)
    /\ FlattenSeq(Rests(blocks)) = wq
    /\ size = Len(wq)

LEMMA RestEntries ==
    ASSUME NEW m, IsRead(m)
    PROVE  /\ Rest(m) \in Seq(Entries) /\ Len(Rest(m)) = m.wx - m.rx
           /\ \A i \in 1..(m.wx - m.rx) : Rest(m)[i] = m.q[m.rx + i]
           /\ m.wx \in 0..N /\ m.rx \in 0..N /\ m.q \in Seq(Entries)
           /\ Len(m.q) \in Nat
  <1>1. /\ m.wx \in 0..N /\ m.rx \in 0..N /\ m.q \in Seq(Entries) /\ m.rx <= m.wx /\ m.wx <= Len(m.q)
    BY DEF IsRead, Queue!Block, Entries
  <1>2. Len(m.q) \in Nat
    BY <1>1, LenProperties
  <1>3. m.rx + 1 \in Int /\ m.wx \in Int
    BY <1>1
  <1>4. \A i \in (m.rx + 1)..m.wx : m.q[i] \in Entries
    <2> SUFFICES ASSUME NEW i \in (m.rx + 1)..m.wx PROVE m.q[i] \in Entries
      OBVIOUS
    <2>1. i \in 1..Len(m.q)
      BY <1>1, <1>2
    <2>. QED  BY <1>1, <2>1, ElementOfSeq
  <1>5. /\ Rest(m) \in Seq(Entries)
        /\ Len(Rest(m)) = IF m.rx + 1 <= m.wx THEN m.wx - (m.rx + 1) + 1 ELSE 0
        /\ \A i \in 1..(m.wx - (m.rx + 1) + 1) : Rest(m)[i] = m.q[m.rx + 1 + i - 1]
    BY <1>3, <1>4, SubSeqProperties DEF Rest
  <1>6. \A i \in 1..(m.wx - m.rx) : m.rx + 1 + i - 1 = m.rx + i
    BY <1>1
  <1>7. m.wx - (m.rx + 1) + 1 = m.wx - m.rx
    BY <1>1
  <1>8. Len(Rest(m)) = m.wx - m.rx
    BY <1>1, <1>5
  <1>. QED  BY <1>1, <1>2, <1>5, <1>6, <1>7, <1>8

LEMMA RestsAre ==
    ASSUME NEW bs, BlocksOK(bs)
    PROVE  /\ Len(bs) \in Nat /\ Rests(bs) \in Seq(Seq(Entries)) /\ Len(Rests(bs)) = Len(bs)
           /\ \A i \in 1..Len(bs) : Rests(bs)[i] = Rest(bs[i])
  <1>1. Len(bs) \in Nat
    BY LenProperties DEF BlocksOK
  <1>2. \A i \in 1..Len(bs) : Rest(bs[i]) \in Seq(Entries)
    BY RestEntries DEF BlocksOK
  <1>. QED  BY <1>1, <1>2 DEF Rests

(* What a block that is written holds more.                                *)
LEMMA WriteAppends ==
    ASSUME NEW m, IsRead(m), m.wx # N, NEW x \in Entries
    PROVE  /\ IsRead(Queue!Write(m, x)) /\ Rest(Queue!Write(m, x)) = Append(Rest(m), x)
           /\ Queue!Write(m, x).rx < Queue!Write(m, x).wx
  <1> DEFINE w == Queue!Write(m, x)
             s == SubSeq(m.q, 1, m.wx)
  <1>1. /\ m.wx \in 0..N /\ m.rx \in 0..N /\ m.q \in Seq(Entries) /\ m.rx <= m.wx /\ m.wx <= Len(m.q)
        /\ Len(m.q) \in Nat /\ N \in Nat /\ m.wx \in Nat /\ m.rx \in Nat
    BY RestEntries, QueueAssumption DEF IsRead
  <1>2. s \in Seq(Entries) /\ Len(s) = m.wx /\ \A i \in 1..m.wx : s[i] = m.q[i]
    <2>1. \A i \in 1..m.wx : m.q[i] \in Entries
      <3> SUFFICES ASSUME NEW i \in 1..m.wx PROVE m.q[i] \in Entries
        OBVIOUS
      <3>1. i \in 1..Len(m.q)
        BY <1>1
      <3>. QED  BY <1>1, <3>1, ElementOfSeq
    <2>2. m.wx \in Int /\ 1 \in Int /\ m.wx - 1 + 1 = m.wx
      BY <1>1
    <2>3. /\ s \in Seq(Entries) /\ Len(s) = IF 1 <= m.wx THEN m.wx - 1 + 1 ELSE 0
          /\ \A i \in 1..(m.wx - 1 + 1) : s[i] = m.q[1 + i - 1]
      BY <2>1, <2>2, SubSeqProperties
    <2> HIDE DEF s
    <2>4. Len(s) = m.wx
      BY <1>1, <2>3
    <2>. QED  BY <1>1, <2>3, <2>4
  <1> HIDE DEF s
  <1>3. /\ Append(s, x) \in Seq(Entries) /\ Len(Append(s, x)) = m.wx + 1
        /\ \A i \in 1..m.wx : Append(s, x)[i] = m.q[i]
        /\ Append(s, x)[m.wx + 1] = x
    BY <1>2, AppendProperties
  <1>4. w = [rx |-> m.rx, wx |-> m.wx + 1, q |-> Append(s, x)]
    <2>1. w = [[m EXCEPT !.q = Append(s, x)] EXCEPT !.wx = m.wx + 1]
      BY DEF Queue!Write, s
    <2>2. PICK r, k, q : m = [rx |-> r, wx |-> k, q |-> q]
      BY DEF IsRead, Queue!Block
    <2> HIDE DEF w
    <2>3. PICK p, n : p = Append(s, x) /\ n = m.wx + 1
      OBVIOUS
    <2>4. w = [rx |-> m.rx, wx |-> n, q |-> p]
      BY ONLY <2>1, <2>2, <2>3
    <2>. QED  BY <2>3, <2>4
  <1>5. IsRead(w) /\ w.rx = m.rx /\ w.wx = m.wx + 1 /\ w.q = Append(s, x) /\ w.rx < w.wx
    <2>1. m.wx + 1 \in 0..N /\ m.rx <= m.wx + 1 /\ m.rx < m.wx + 1
      BY <1>1
    <2>. QED  BY <1>1, <1>3, <1>4, <2>1 DEF IsRead, Queue!Block, Entries
  <1> HIDE DEF w
  <1>6. /\ Rest(w) \in Seq(Entries) /\ Len(Rest(w)) = (m.wx - m.rx) + 1
        /\ \A i \in 1..(m.wx - m.rx + 1) : Rest(w)[i] = Append(s, x)[m.rx + i]
    <2>1. w.wx - w.rx = (m.wx - m.rx) + 1
      BY <1>1, <1>5
    <2>2. \A i \in 1..(w.wx - w.rx) : Rest(w)[i] = w.q[w.rx + i]
      BY <1>5, RestEntries
    <2>3. Rest(w) \in Seq(Entries) /\ Len(Rest(w)) = w.wx - w.rx
      BY <1>5, RestEntries
    <2>. QED  BY <1>5, <2>1, <2>2, <2>3
  <1>7. /\ Rest(m) \in Seq(Entries) /\ Len(Rest(m)) = m.wx - m.rx
        /\ \A i \in 1..(m.wx - m.rx) : Rest(m)[i] = m.q[m.rx + i]
    BY RestEntries
  <1>8. /\ Append(Rest(m), x) \in Seq(Entries) /\ Len(Append(Rest(m), x)) = (m.wx - m.rx) + 1
        /\ \A i \in 1..(m.wx - m.rx) : Append(Rest(m), x)[i] = Rest(m)[i]
        /\ Append(Rest(m), x)[(m.wx - m.rx) + 1] = x
    BY <1>7, AppendProperties
  <1>9. ASSUME NEW i \in 1..((m.wx - m.rx) + 1) PROVE Rest(w)[i] = Append(Rest(m), x)[i]
    <2>1. CASE i = (m.wx - m.rx) + 1
      <3>1. m.rx + i = m.wx + 1
        BY <1>1, <2>1
      <3>. QED  BY <1>3, <1>6, <1>8, <2>1, <3>1
    <2>2. CASE i # (m.wx - m.rx) + 1
      <3>1. i \in 1..(m.wx - m.rx) /\ m.rx + i \in 1..m.wx
        BY <1>1, <2>2
      <3>. QED  BY <1>3, <1>6, <1>7, <1>8, <3>1
    <2>. QED  BY <2>1, <2>2
  <1>10. Rest(w) = Append(Rest(m), x)
    BY <1>6, <1>8, <1>9, SeqEqual
  <1>. QED  BY <1>5, <1>10 DEF w

LEMMA AppendLast ==
    ASSUME NEW S, NEW p \in Seq(S), NEW q \in Seq(S), NEW x \in S
    PROVE  p \o Append(q, x) = Append(p \o q, x)
  OBVIOUS

LEMMA PushesLast ==
    ASSUME NEW bs, BlocksOK(bs), bs # <<>>, NEW x \in Entries,
           bs[Len(bs)].wx # N,
           NEW bt, bt = Queue!Front(bs) \o <<Queue!Write(bs[Len(bs)], x)>>
    PROVE  BlocksOK(bt) /\ FlattenSeq(Rests(bt)) = Append(FlattenSeq(Rests(bs)), x)
  <1> DEFINE n == Len(bs)
             m == bs[n]
             w == Queue!Write(m, x)
             f == Queue!Front(bs)
             r == [i \in 1..(n - 1) |-> Rest(bs[i])]
  <1>1. bs \in Seq(Queue!Block) /\ n \in Nat \ {0} /\ n - 1 \in Nat /\ n \in 1..n
    BY EmptySeq DEF BlocksOK
  <1>2. IsRead(m)
    BY <1>1 DEF BlocksOK
  <1>3. IsRead(w) /\ Rest(w) = Append(Rest(m), x) /\ w.rx < w.wx
    BY <1>2, WriteAppends
  <1>4. f \in Seq(Queue!Block) /\ Len(f) = n - 1 /\ \A i \in 1..(n - 1) : f[i] = bs[i]
    BY <1>1 DEF Queue!Front
  <1> HIDE DEF w, f
  <1>5. bt = Append(f, w) /\ w \in Queue!Block
    <2>1. w \in Queue!Block
      BY <1>3 DEF IsRead
    <2>. QED  BY <1>4, <2>1, AppendIsConcat DEF f, w
  <1>6. bt \in Seq(Queue!Block) /\ Len(bt) = n /\ bt[n] = w /\ \A i \in 1..(n - 1) : bt[i] = bs[i]
    <2>1. /\ Append(f, w) \in Seq(Queue!Block) /\ Len(Append(f, w)) = Len(f) + 1
          /\ Append(f, w)[Len(f) + 1] = w /\ \A i \in 1..Len(f) : Append(f, w)[i] = f[i]
      BY <1>4, <1>5, AppendProperties
    <2>2. Len(f) + 1 = n
      BY <1>1, <1>4
    <2>. QED  BY <1>4, <1>5, <2>1, <2>2
  <1>7. BlocksOK(bt)
    <2> SUFFICES ASSUME NEW i \in 1..Len(bt)
                 PROVE  IsRead(bt[i]) /\ (bt[i].rx = bt[i].wx => Len(bt) = 1 /\ bt[i].wx = 0)
      BY <1>6 DEF BlocksOK
    <2>1. CASE i = n
      <3>1. w.rx # w.wx
        <4>1. w.rx \in Int /\ w.wx \in Int
          BY <1>3, RestEntries
        <4>. QED  BY <1>3, <4>1
      <3>. QED  BY <1>3, <1>6, <2>1, <3>1
    <2>2. CASE i # n
      <3>1. i \in 1..(n - 1) /\ i \in 1..n
        BY <1>1, <1>6, <2>2
      <3>. QED  BY <1>6, <3>1 DEF BlocksOK
    <2>. QED  BY <2>1, <2>2
  <1>8. r \in Seq(Seq(Entries)) /\ Len(r) = n - 1 /\ \A i \in 1..(n - 1) : r[i] = Rest(bs[i])
    <2>1. \A i \in 1..(n - 1) : Rest(bs[i]) \in Seq(Entries)
      <3>1. \A i \in 1..(n - 1) : i \in 1..n
        BY <1>1
      <3>. QED  BY <3>1, RestEntries DEF BlocksOK
    <2> HIDE DEF n
    <2>. QED  BY <1>1, <2>1
  <1> HIDE DEF r
  <1>9. Rests(bs) = Append(r, Rest(m)) /\ Rest(m) \in Seq(Entries)
    <2>1. Rest(m) \in Seq(Entries)
      BY <1>2, RestEntries
    <2>2. /\ Append(r, Rest(m)) \in Seq(Seq(Entries)) /\ Len(Append(r, Rest(m))) = n
          /\ Append(r, Rest(m))[n] = Rest(m)
          /\ \A i \in 1..(n - 1) : Append(r, Rest(m))[i] = Rest(bs[i])
      BY <1>1, <1>8, <2>1, AppendProperties
    <2>3. /\ Rests(bs) \in Seq(Seq(Entries)) /\ Len(Rests(bs)) = n
          /\ \A i \in 1..n : Rests(bs)[i] = Rest(bs[i])
      BY RestsAre
    <2>4. \A i \in 1..n : i = n \/ i \in 1..(n - 1)
      BY <1>1
    <2>5. \A i \in 1..n : Rests(bs)[i] = Append(r, Rest(m))[i]
      BY <1>1, <2>2, <2>3, <2>4
    <2>. QED  BY <2>1, <2>2, <2>3, <2>5, SeqEqual
  <1>10. Rests(bt) = Append(r, Rest(w)) /\ Rest(w) \in Seq(Entries)
    <2>1. Rest(w) \in Seq(Entries)
      BY <1>3, RestEntries
    <2>2. /\ Append(r, Rest(w)) \in Seq(Seq(Entries)) /\ Len(Append(r, Rest(w))) = n
          /\ Append(r, Rest(w))[n] = Rest(w)
          /\ \A i \in 1..(n - 1) : Append(r, Rest(w))[i] = Rest(bs[i])
      BY <1>1, <1>8, <2>1, AppendProperties
    <2>3. /\ Rests(bt) \in Seq(Seq(Entries)) /\ Len(Rests(bt)) = n
          /\ \A i \in 1..n : Rests(bt)[i] = Rest(bt[i])
      BY <1>6, <1>7, RestsAre
    <2>4. \A i \in 1..n : i = n \/ i \in 1..(n - 1)
      BY <1>1
    <2>5. \A i \in 1..n : Rests(bt)[i] = Append(r, Rest(w))[i]
      BY <1>1, <1>6, <2>2, <2>3, <2>4
    <2>. QED  BY <2>1, <2>2, <2>3, <2>5, SeqEqual
  <1> HIDE DEF n, m
  <1>11. FlattenSeq(r) \in Seq(Entries)
    BY <1>8, FlattenType
  <1>12. /\ FlattenSeq(Rests(bs)) = FlattenSeq(r) \o Rest(m)
         /\ FlattenSeq(Rests(bt)) = FlattenSeq(r) \o Rest(w)
    BY <1>8, <1>9, <1>10, FlattenAppend
  <1>13. FlattenSeq(r) \o Append(Rest(m), x) = Append(FlattenSeq(r) \o Rest(m), x)
    <2>1. PICK p, q : p = FlattenSeq(r) /\ q = Rest(m)
      OBVIOUS
    <2>2. p \in Seq(Entries) /\ q \in Seq(Entries)
      BY <1>9, <1>11, <2>1
    <2>3. p \o Append(q, x) = Append(p \o q, x)
      BY <2>2, AppendLast
    <2>. QED  BY <2>1, <2>3
  <1>. QED  BY <1>3, <1>7, <1>12, <1>13

LEMMA PushesBlock ==
    ASSUME NEW bs, BlocksOK(bs), NEW x \in Entries,
           bs # <<>> => bs[Len(bs)].wx = N,
           NEW bt, bt = Append(bs, Queue!Write(Queue!EmptyBlock, x))
    PROVE  BlocksOK(bt) /\ FlattenSeq(Rests(bt)) = Append(FlattenSeq(Rests(bs)), x)
  <1> DEFINE n == Len(bs)
             e == Queue!EmptyBlock
             w == Queue!Write(e, x)
  <1>1. /\ bs \in Seq(Queue!Block) /\ n \in Nat /\ N \in Nat \ {0} /\ n + 1 \in Nat
        /\ bs # <<>> => n \in 1..n
    BY EmptySeq, QueueAssumption, LenProperties DEF BlocksOK
  <1>2. IsRead(e) /\ e.wx = 0 /\ e.rx = 0
    <2>1. <<>> \in Seq(Coroutine \cup {NullPtr}) /\ Len(<<>>) = 0
      BY EmptySeq
    <2>. QED  BY <1>1, <2>1 DEF IsRead, Queue!Block, Queue!EmptyBlock
  <1>3. Rest(e) = <<>>
    <2>1. Rest(e) \in Seq(Entries) /\ Len(Rest(e)) = 0
      BY <1>2, RestEntries
    <2>. QED  BY <2>1, EmptySeq
  <1> HIDE DEF e
  <1>4. IsRead(w) /\ Rest(w) = Append(<<>>, x) /\ w.rx < w.wx
    <2>1. e.wx # N
      BY <1>1, <1>2
    <2>. QED  BY <1>2, <1>3, <2>1, WriteAppends
  <1> HIDE DEF w
  <1>5. w \in Queue!Block /\ w.rx # w.wx
    <2>1. w.rx \in Int /\ w.wx \in Int
      BY <1>4, RestEntries
    <2>. QED  BY <1>4, <2>1 DEF IsRead
  <1>6. bt \in Seq(Queue!Block) /\ Len(bt) = n + 1 /\ bt[n + 1] = w /\ \A i \in 1..n : bt[i] = bs[i]
    BY <1>1, <1>5, AppendProperties DEF e, w
  <1>7. \A i \in 1..n : bs[i].rx # bs[i].wx
    <2> SUFFICES ASSUME NEW i \in 1..n, bs[i].rx = bs[i].wx PROVE FALSE
      OBVIOUS
    <2>1. n = 1 /\ bs[i].wx = 0
      BY DEF BlocksOK
    <2>2. i = n /\ bs # <<>>
      BY <2>1, EmptySeq
    <2>. QED  BY <1>1, <2>1, <2>2
  <1>8. BlocksOK(bt)
    <2> SUFFICES ASSUME NEW i \in 1..Len(bt)
                 PROVE  IsRead(bt[i]) /\ bt[i].rx # bt[i].wx
      BY <1>6 DEF BlocksOK
    <2>1. i = n + 1 \/ i \in 1..n
      BY <1>1, <1>6
    <2>. QED  BY <1>4, <1>5, <1>6, <1>7, <2>1 DEF BlocksOK
  <1>9. Rest(w) = <<x>> /\ <<x>> \in Seq(Entries)
    BY <1>4
  <1>10. /\ Rests(bs) \in Seq(Seq(Entries)) /\ Len(Rests(bs)) = n
         /\ \A i \in 1..n : Rests(bs)[i] = Rest(bs[i])
         /\ Rests(bt) \in Seq(Seq(Entries)) /\ Len(Rests(bt)) = n + 1
         /\ \A i \in 1..(n + 1) : Rests(bt)[i] = Rest(bt[i])
    BY <1>6, <1>8, RestsAre
  <1>11. Rests(bt) = Append(Rests(bs), <<x>>)
    <2>1. /\ Append(Rests(bs), <<x>>) \in Seq(Seq(Entries)) /\ Len(Append(Rests(bs), <<x>>)) = n + 1
          /\ Append(Rests(bs), <<x>>)[n + 1] = <<x>>
          /\ \A i \in 1..n : Append(Rests(bs), <<x>>)[i] = Rests(bs)[i]
      BY <1>9, <1>10, AppendProperties
    <2>2. \A i \in 1..(n + 1) : i = n + 1 \/ i \in 1..n
      BY <1>1
    <2>3. \A i \in 1..(n + 1) : Rests(bt)[i] = Append(Rests(bs), <<x>>)[i]
      BY <1>6, <1>9, <1>10, <2>1, <2>2
    <2>. QED  BY <1>10, <2>1, <2>3, SeqEqual
  <1>12. FlattenSeq(Rests(bt)) = FlattenSeq(Rests(bs)) \o <<x>>
    BY <1>9, <1>10, <1>11, FlattenAppend
  <1>13. FlattenSeq(Rests(bs)) \in Seq(Entries)
    BY <1>10, FlattenType
  <1>. QED  BY <1>8, <1>12, <1>13, AppendIsConcat

(* What pop_front makes of the first block.                                *)
LEMMA ReadPops ==
    ASSUME NEW m, IsRead(m), m.rx < m.wx, NEW k, k = [m EXCEPT !.rx = m.rx + 1]
    PROVE  /\ IsRead(k) /\ k.rx = m.rx + 1 /\ k.wx = m.wx
           /\ Rest(m) \in Seq(Entries) /\ Rest(m) # <<>> /\ Rest(k) = Tail(Rest(m))
  <1>1. /\ m.wx \in 0..N /\ m.rx \in 0..N /\ m.q \in Seq(Entries) /\ m.wx <= Len(m.q)
        /\ Len(m.q) \in Nat /\ N \in Nat
    BY RestEntries, QueueAssumption DEF IsRead
  <1>2. k = [rx |-> m.rx + 1, wx |-> m.wx, q |-> m.q] /\ m.rx + 1 \in 0..N
    <2>1. PICK r, v, q : m = [rx |-> r, wx |-> v, q |-> q]
      BY DEF IsRead, Queue!Block
    <2>. QED  BY <1>1, <2>1
  <1>3. IsRead(k) /\ k.rx = m.rx + 1 /\ k.wx = m.wx /\ k.q = m.q
    BY <1>1, <1>2 DEF IsRead, Queue!Block, Entries
  <1>4. /\ Rest(m) \in Seq(Entries) /\ Len(Rest(m)) = m.wx - m.rx
        /\ \A i \in 1..(m.wx - m.rx) : Rest(m)[i] = m.q[m.rx + i]
    BY RestEntries
  <1>5. /\ Rest(k) \in Seq(Entries) /\ Len(Rest(k)) = k.wx - k.rx
        /\ \A i \in 1..(k.wx - k.rx) : Rest(k)[i] = k.q[k.rx + i]
    BY ONLY <1>3, RestEntries
  <1>6. Len(Rest(m)) # 0 /\ Rest(m) # <<>>
    BY <1>1, <1>4, EmptySeq
  <1>7. /\ Tail(Rest(m)) \in Seq(Entries) /\ Len(Tail(Rest(m))) = (m.wx - m.rx) - 1
        /\ \A i \in 1..((m.wx - m.rx) - 1) : Tail(Rest(m))[i] = Rest(m)[i + 1]
    BY <1>4, <1>6, HeadTailProperties
  <1>8. k.wx - k.rx = (m.wx - m.rx) - 1
    BY <1>1, <1>3
  <1>9. ASSUME NEW i \in 1..((m.wx - m.rx) - 1) PROVE Rest(k)[i] = Tail(Rest(m))[i]
    <2>1. k.rx + i = m.rx + (i + 1) /\ i + 1 \in 1..(m.wx - m.rx)
      <3>1. PICK a, b : a = m.rx /\ b = m.wx
        OBVIOUS
      <3>2. a \in Int /\ b \in Int /\ i \in 1..((b - a) - 1) /\ k.rx = a + 1
        BY <1>1, <1>3, <3>1
      <3>3. (a + 1) + i = a + (i + 1) /\ i + 1 \in 1..(b - a)
        BY ONLY <3>2
      <3>. QED  BY <3>1, <3>2, <3>3
    <2>. QED  BY ONLY <1>3, <1>4, <1>5, <1>7, <1>8, <2>1
  <1>10. Rest(k) = Tail(Rest(m))
    BY <1>5, <1>7, <1>8, <1>9, SeqEqual
  <1>. QED  BY <1>3, <1>4, <1>6, <1>10

LEMMA HeadOfFirst ==
    ASSUME NEW S, NEW p \in Seq(S), NEW q \in Seq(S), p # <<>>
    PROVE  Tail(p) \o q = Tail(p \o q)
  OBVIOUS

LEMMA FirstIsHead ==
    ASSUME NEW bs, BlocksOK(bs), bs # <<>>
    PROVE  /\ Rests(bs) # <<>> /\ Head(Rests(bs)) = Rest(Head(bs)) /\ Head(bs) = bs[1]
           /\ Tail(Rests(bs)) = Rests(Tail(bs))
           /\ Tail(Rests(bs)) \in Seq(Seq(Entries))
           /\ IsRead(Head(bs)) /\ Len(bs) \in Nat \ {0}
           /\ FlattenSeq(Rests(bs)) = Rest(Head(bs)) \o FlattenSeq(Tail(Rests(bs)))
  <1> DEFINE n == Len(bs)
  <1>1. bs \in Seq(Queue!Block) /\ n \in Nat \ {0} /\ 1 \in 1..n
    BY EmptySeq DEF BlocksOK
  <1>2. /\ Rests(bs) \in Seq(Seq(Entries)) /\ Len(Rests(bs)) = n
        /\ \A i \in 1..n : Rests(bs)[i] = Rest(bs[i])
    BY RestsAre
  <1>3. Rests(bs) # <<>>
    BY <1>1, <1>2, EmptySeq
  <1>4. Head(Rests(bs)) = Rests(bs)[1] /\ Head(bs) = bs[1]
    BY <1>1, <1>2, <1>3
  <1>5. /\ Tail(bs) \in Seq(Queue!Block) /\ Len(Tail(bs)) = n - 1
        /\ \A i \in 1..(n - 1) : Tail(bs)[i] = bs[i + 1]
    BY <1>1, HeadTailProperties
  <1>6. /\ Tail(Rests(bs)) \in Seq(Seq(Entries)) /\ Len(Tail(Rests(bs))) = n - 1
        /\ \A i \in 1..(n - 1) : Tail(Rests(bs))[i] = Rests(bs)[i + 1]
    BY <1>2, <1>3, HeadTailProperties
  <1>7. Tail(Rests(bs)) = Rests(Tail(bs))
    <2>1. \A i \in 1..(n - 1) : i + 1 \in 1..n
      BY <1>1
    <2>2. \A i \in 1..(n - 1) : Tail(Rests(bs))[i] = Rest(Tail(bs)[i])
      BY <1>2, <1>5, <1>6, <2>1
    <2>3. Tail(Rests(bs)) = [i \in 1..(n - 1) |-> Tail(Rests(bs))[i]]
      BY <1>6, LenProperties
    <2>. QED  BY <1>5, <2>2, <2>3 DEF Rests
  <1>8. IsRead(Head(bs))
    BY <1>1, <1>4 DEF BlocksOK
  <1>9. FlattenSeq(Rests(bs)) = Head(Rests(bs)) \o FlattenSeq(Tail(Rests(bs)))
    BY <1>2, <1>3, FlattenFirst
  <1>. QED  BY <1>1, <1>2, <1>3, <1>4, <1>6, <1>7, <1>8, <1>9

LEMMA PopsFirst ==
    ASSUME NEW bs, BlocksOK(bs), bs # <<>>, Head(bs).rx < Head(bs).wx,
           NEW k, k = [Head(bs) EXCEPT !.rx = Head(bs).rx + 1],
           NEW bt, bt = IF k.rx # k.wx THEN <<k>> \o Tail(bs)
                        ELSE IF Len(bs) > 1 THEN Tail(bs)
                        ELSE <<[k EXCEPT !.rx = 0, !.wx = 0]>>
    PROVE  /\ BlocksOK(bt) /\ FlattenSeq(Rests(bs)) # <<>>
           /\ FlattenSeq(Rests(bt)) = Tail(FlattenSeq(Rests(bs)))
  <1> DEFINE n == Len(bs)
             m == Head(bs)
             t == Tail(bs)
             u == FlattenSeq(Rests(t))
  <1>1. /\ IsRead(m) /\ m = bs[1] /\ n \in Nat \ {0}
        /\ FlattenSeq(Rests(bs)) = Rest(m) \o u
        /\ Rests(t) \in Seq(Seq(Entries))
    BY FirstIsHead
  <1>2. u \in Seq(Entries)
    BY <1>1, FlattenType
  <1>3. /\ IsRead(k) /\ k.rx = m.rx + 1 /\ k.wx = m.wx
        /\ Rest(m) \in Seq(Entries) /\ Rest(m) # <<>> /\ Rest(k) = Tail(Rest(m))
    BY <1>1, ReadPops
  <1> HIDE DEF m, u
  <1>4. Rest(m) \o u # <<>> /\ Tail(Rest(m) \o u) = Rest(k) \o u
    <2>1. Rest(m) \o u # <<>>
      BY <1>2, <1>3, ConcatEqualIffEmpty
    <2>. QED  BY <1>2, <1>3, <2>1, HeadOfFirst
  <1>5. /\ t \in Seq(Queue!Block) /\ Len(t) = n - 1 /\ \A i \in 1..(n - 1) : t[i] = bs[i + 1]
    BY HeadTailProperties DEF BlocksOK
  <1>6. n > 1 => \A i \in 1..n : bs[i].rx # bs[i].wx
    BY DEF BlocksOK
  <1>7. BlocksOK(t)
    <2> SUFFICES ASSUME NEW i \in 1..(n - 1) PROVE IsRead(t[i]) /\ t[i].rx # t[i].wx
      BY <1>5 DEF BlocksOK
    <2>1. i + 1 \in 1..n /\ n > 1
      BY <1>1
    <2>. QED  BY <1>5, <1>6, <2>1 DEF BlocksOK
  <1> HIDE DEF t, n
  <1>8. CASE k.rx # k.wx
    <2>1. bt = <<k>> \o t /\ k \in Queue!Block
      BY <1>3, <1>8 DEF IsRead, t
    <2>2. /\ bt \in Seq(Queue!Block) /\ Len(bt) = n /\ bt[1] = k /\ bt # <<>>
          /\ \A i \in 2..n : bt[i] = t[i - 1]
      <3>1. <<k>> \in Seq(Queue!Block) /\ Len(<<k>>) = 1 /\ <<k>>[1] = k
        BY <2>1
      <3>2. /\ <<k>> \o t \in Seq(Queue!Block) /\ Len(<<k>> \o t) = 1 + (n - 1)
            /\ \A i \in 1..(1 + (n - 1)) : (<<k>> \o t)[i] = IF i <= 1 THEN <<k>>[i] ELSE t[i - 1]
        BY <1>5, <3>1, ConcatProperties
      <3>3. 1 + (n - 1) = n /\ 1 \in 1..n /\ \A i \in 2..n : i \in 1..n /\ ~ (i <= 1)
        BY <1>1
      <3>4. Len(bt) # 0
        BY <1>1, <2>1, <3>2, <3>3
      <3>. QED  BY ONLY <2>1, <3>1, <3>2, <3>3, <3>4, EmptySeq
    <2>3. Tail(bt) = t
      BY ONLY <1>5, <2>1
    <2>4. BlocksOK(bt)
      <3> SUFFICES ASSUME NEW i \in 1..n PROVE IsRead(bt[i]) /\ bt[i].rx # bt[i].wx
        BY <2>2 DEF BlocksOK
      <3>1. CASE i = 1
        BY <1>3, <1>8, <2>2, <3>1
      <3>2. CASE i # 1
        <4>1. i \in 2..n /\ i - 1 \in 1..(n - 1) /\ (i - 1) + 1 = i /\ n > 1
          BY <1>1, <3>2
        <4>. QED  BY <1>5, <1>6, <2>2, <4>1 DEF BlocksOK, n
      <3>. QED  BY <3>1, <3>2
    <2>5. FlattenSeq(Rests(bt)) = Rest(k) \o FlattenSeq(Rests(t))
      <3>1. Head(bt) = k
        BY <2>2
      <3>. QED  BY <2>2, <2>3, <2>4, <3>1, FirstIsHead
    <2>. QED  BY <1>1, <1>4, <2>4, <2>5 DEF u
  <1>9. ASSUME k.rx = k.wx PROVE Rest(k) = <<>> /\ Rest(k) \o u = u
    <2>1. k.wx - k.rx = 0
      BY ONLY <1>3, <1>9, RestEntries
    <2>2. Rest(k) \in Seq(Entries) /\ Len(Rest(k)) = 0
      BY <1>3, <2>1, RestEntries
    <2>. QED  BY <1>2, <2>2, EmptySeq, ConcatEmptySeq
  <1>10. CASE k.rx = k.wx /\ n > 1
    <2>1. bt = t
      BY <1>10 DEF t, n
    <2>. QED  BY <1>1, <1>4, <1>7, <1>9, <1>10, <2>1 DEF u
  <1>11. CASE k.rx = k.wx /\ ~ (n > 1)
    <2>1. n = 1 /\ t = <<>>
      BY <1>1, <1>5, <1>11, EmptySeq
    <2> DEFINE e == [k EXCEPT !.rx = 0, !.wx = 0]
    <2>2. bt = <<e>>
      BY <1>11 DEF n
    <2>3. IsRead(e) /\ e.rx = 0 /\ e.wx = 0 /\ e \in Queue!Block
      <3>1. PICK r, v, q : k = [rx |-> r, wx |-> v, q |-> q]
        BY ONLY <1>3 DEF IsRead, Queue!Block
      <3>2. k.q \in Seq(Coroutine \cup {NullPtr}) /\ Len(k.q) \in Nat /\ N \in Nat
        BY <1>3, RestEntries, QueueAssumption DEF IsRead, Queue!Block
      <3>3. e = [rx |-> 0, wx |-> 0, q |-> q] /\ k.q = q
        <4>1. PICK h : h = [k EXCEPT !.rx = 0]
          OBVIOUS
        <4>2. e = [h EXCEPT !.wx = 0]
          BY <4>1
        <4>3. h = [rx |-> 0, wx |-> v, q |-> q] /\ k.q = q
          BY ONLY <3>1, <4>1
        <4> HIDE DEF e
        <4>4. e = [rx |-> 0, wx |-> 0, q |-> q]
          BY ONLY <4>2, <4>3
        <4>. QED  BY <4>3, <4>4
      <3>4. e.rx = 0 /\ e.wx = 0 /\ e.q = q
        BY ONLY <3>3
      <3>5. 0 \in 0..N /\ 0 <= 0 /\ 0 <= Len(q)
        BY <3>2, <3>3
      <3>. QED  BY ONLY <3>2, <3>3, <3>4, <3>5 DEF IsRead, Queue!Block
    <2> HIDE DEF e
    <2>4. bt \in Seq(Queue!Block) /\ Len(bt) = 1 /\ bt[1] = e /\ bt # <<>>
      BY ONLY <2>2, <2>3
    <2>5. BlocksOK(bt)
      BY <2>3, <2>4 DEF BlocksOK
    <2>6. Rests(bt) = <<Rest(e)>>
      BY <2>4 DEF Rests
    <2>7. Rest(e) = <<>>
      <3>1. Rest(e) \in Seq(Entries) /\ Len(Rest(e)) = 0 - 0
        BY <2>3, RestEntries
      <3>. QED  BY <3>1, EmptySeq
    <2>8. FlattenSeq(Rests(bt)) = <<>>
      BY <2>6, <2>7, FlattenOne, EmptySeq
    <2>9. u = <<>>
      <3>1. Rests(t) = <<>>
        BY <2>1, EmptySeq DEF Rests
      <3>. QED  BY <3>1, EmptySeq DEF u, FlattenSeq
    <2>. QED  BY <1>1, <1>4, <1>9, <1>11, <2>5, <2>8, <2>9
  <1>. QED  BY <1>8, <1>10, <1>11

LEMMA QueueInitInv == QueuedInit => QueueInv
  <1> SUFFICES ASSUME QueuedInit PROVE QueueInv
    OBVIOUS
  <1>1. wq = <<>> /\ blocks = <<>> /\ size = 0
    BY DEF QueuedInit, Init, Queue!QueueInit
  <1>2. \A S : <<>> \in Seq(S) /\ Len(<<>>) = 0
    BY EmptySeq
  <1>3. BlocksOK(<<>>)
    BY <1>2 DEF BlocksOK
  <1>4. Rests(<<>>) = <<>>
    BY <1>2 DEF Rests
  <1>5. FlattenSeq(<<>>) = <<>>
    BY <1>2 DEF FlattenSeq
  <1>. QED  BY <1>1, <1>2, <1>3, <1>4, <1>5 DEF QueueInv

LEMMA QueueStepInv ==
    ASSUME QueueInv, QueueStep \/ UNCHANGED <<vars, blocks, size>>
    PROVE  QueueInv'
  <1>1. wq \in Seq(Entries) /\ BlocksOK(blocks) /\ FlattenSeq(Rests(blocks)) = wq /\ size = Len(wq)
    BY DEF QueueInv
  <1>2. ASSUME NEW x \in Entries, wq' = Append(wq, x), Queue!push_back(x)
        PROVE  QueueInv'
    <2>1. /\ Append(wq, x) \in Seq(Entries) /\ Len(Append(wq, x)) = Len(wq) + 1
      BY <1>1, AppendProperties
    <2>2. size' = size + 1
      BY <1>2 DEF Queue!push_back
    <2>3. BlocksOK(blocks') /\ FlattenSeq(Rests(blocks')) = Append(FlattenSeq(Rests(blocks)), x)
      <3>1. CASE blocks # <<>> /\ blocks[Len(blocks)].wx # N
        <4>1. blocks' = Queue!Front(blocks) \o <<Queue!Write(blocks[Len(blocks)], x)>>
          BY <1>2, <3>1 DEF Queue!push_back, Queue!Last
        <4>. QED  BY <1>1, <3>1, <4>1, PushesLast
      <3>2. CASE ~ (blocks # <<>> /\ blocks[Len(blocks)].wx # N)
        <4>1. blocks' = Append(blocks, Queue!Write(Queue!EmptyBlock, x))
          BY <1>2, <3>2 DEF Queue!push_back, Queue!Last
        <4>. QED  BY <1>1, <3>2, <4>1, PushesBlock
      <3>. QED  BY <3>1, <3>2
    <2>. QED  BY <1>1, <1>2, <2>1, <2>2, <2>3 DEF QueueInv
  <1>3. ASSUME wq # <<>>, wq' = Tail(wq), Queue!pop_front
        PROVE  QueueInv'
    <2> DEFINE m == Head(blocks)
               k == [m EXCEPT !.rx = m.rx + 1]
    <2>1. Tail(wq) \in Seq(Entries) /\ Len(Tail(wq)) = Len(wq) - 1
      BY <1>1, <1>3, HeadTailProperties
    <2>2. blocks # <<>>
      <3>1. Rests(<<>>) = <<>> /\ FlattenSeq(<<>>) = <<>>
        BY EmptySeq DEF Rests, FlattenSeq
      <3>. QED  BY <1>1, <1>3, <3>1
    <2>3. IsRead(m) /\ FlattenSeq(Rests(blocks)) = Rest(m) \o FlattenSeq(Tail(Rests(blocks)))
          /\ m = blocks[1] /\ Len(blocks) \in Nat \ {0} /\ Tail(Rests(blocks)) = Rests(Tail(blocks))
      BY <1>1, <2>2, FirstIsHead
    <2>4. m.rx < m.wx
      <3>1. m.rx \in Int /\ m.wx \in Int /\ m.rx <= m.wx
        BY <2>3, RestEntries DEF IsRead
      <3>2. SUFFICES ASSUME m.rx = m.wx PROVE FALSE
        BY <3>1
      <3>3. Len(blocks) = 1
        BY <1>1, <2>3, <3>2 DEF BlocksOK
      <3>4. Rest(m) = <<>>
        <4>1. Rest(m) \in Seq(Entries) /\ Len(Rest(m)) = m.wx - m.rx
          BY <2>3, RestEntries
        <4>. QED  BY <3>1, <3>2, <4>1, EmptySeq
      <3>5. Rests(Tail(blocks)) = <<>>
        <4>1. blocks \in Seq(Queue!Block)
          BY <1>1 DEF BlocksOK
        <4>2. Len(Tail(blocks)) = 0
          BY <2>2, <3>3, <4>1, HeadTailProperties
        <4>3. Rests(Tail(blocks)) = [i \in 1..0 |-> Rest(Tail(blocks)[i])]
          BY <4>2 DEF Rests
        <4>. QED  BY <4>3
      <3>6. FlattenSeq(<<>>) = <<>> /\ <<>> \o <<>> = <<>>
        BY EmptySeq, ConcatEmptySeq DEF FlattenSeq
      <3>. QED  BY <1>1, <1>3, <2>3, <3>4, <3>5, <3>6
    <2>5. ~ (m.rx >= m.wx)
      <3>1. m.rx \in Int /\ m.wx \in Int
        BY <2>3, RestEntries
      <3>. QED  BY <2>4, <3>1
    <2>6. /\ size' = size - 1
          /\ blocks' = IF k.rx # k.wx THEN <<k>> \o Tail(blocks)
                       ELSE IF Len(blocks) > 1 THEN Tail(blocks)
                       ELSE <<[k EXCEPT !.rx = 0, !.wx = 0]>>
      BY <1>3, <2>2, <2>5 DEF Queue!pop_front
    <2>7. BlocksOK(blocks') /\ FlattenSeq(Rests(blocks')) = Tail(FlattenSeq(Rests(blocks)))
      BY <1>1, <2>2, <2>4, <2>6, PopsFirst
    <2>. QED  BY <1>1, <1>3, <2>1, <2>6, <2>7 DEF QueueInv
  <1>4. ASSUME wq' = wq, UNCHANGED <<blocks, size>>
        PROVE  QueueInv'
    BY <1>4 DEF QueueInv
  <1>. QED  BY <1>2, <1>3, <1>4 DEF QueueStep, Entries, vars

(* However many wait and whatever a block holds: the blocks of the queue   *)
(* hold those that wait, in the order they came.                           *)
THEOREM QueueStaysInOrder == QueuedSpec => []QueueInOrder
  <1>1. QueuedInit => QueueInv
    BY QueueInitInv
  <1>2. QueueInv /\ [QueuedNext]_<<vars, blocks, size>> => QueueInv'
    BY QueueStepInv DEF QueuedNext
  <1>3. QueueInv => QueueInOrder
    <2> SUFFICES ASSUME QueueInv PROVE QueueInOrder
      OBVIOUS
    <2>1. DOMAIN blocks = 1..Len(blocks)
      BY LenProperties DEF QueueInv, BlocksOK
    <2>2. Rests(blocks) = [i \in DOMAIN blocks |-> SubSeq(blocks[i].q, blocks[i].rx + 1, blocks[i].wx)]
      BY <2>1 DEF Rests, Rest
    <2>3. Queue!Contents = FlattenSeq(Rests(blocks))
      BY <2>2 DEF Queue!Contents, Queue!FlattenSeq, FlattenSeq
    <2>. QED  BY <2>3 DEF QueueInv, QueueInOrder
  <1>. QED  BY <1>1, <1>2, <1>3, PTL DEF QueuedSpec
=============================================================================
