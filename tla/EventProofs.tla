---------------------------- MODULE EventProofs ----------------------------
(***************************************************************************)
(* Proofs about events and wait groups: a waiter is resumed once and its   *)
(* waitx_t freed once, a signal and a sleeper are never lost on an event   *)
(* without timeouts, and wait() of a group covers all its workers.         *)
(***************************************************************************)
EXTENDS MCEvent, FiniteSetTheorems, SequenceTheorems, TLAPS

-----------------------------------------------------------------------------
(* Lists without repetitions.                                              *)

(* Appending something new to a list.                                      *)
LEMMA AppendParts ==
    ASSUME NEW S, NEW q \in Seq(S), NEW x \in S
    PROVE  /\ Append(q, x) \in Seq(S)
           /\ Range(Append(q, x)) = Range(q) \cup {x}
           /\ IsInjective(q) /\ x \notin Range(q) => IsInjective(Append(q, x))
<1>1. /\ Append(q, x) \in Seq(S) /\ Len(Append(q, x)) = Len(q) + 1
      /\ Append(q, x)[Len(q) + 1] = x
      /\ \A i \in 1..Len(q) : Append(q, x)[i] = q[i]
      /\ Len(q) \in Nat
      /\ DOMAIN q = 1..Len(q) /\ DOMAIN Append(q, x) = 1..(Len(q) + 1)
  BY AppendProperties, LenProperties
<1>2. Range(Append(q, x)) = Range(q) \cup {x}
  BY <1>1 DEF Range
<1>3. IsInjective(q) /\ x \notin Range(q) => IsInjective(Append(q, x))
  BY <1>1 DEF Range, IsInjective
<1> QED
  BY <1>1, <1>2, <1>3

(* What r is when it is what is left of q without its first n.             *)
IsRest(r, S, q, n) ==
    /\ r \in Seq(S) /\ IsInjective(r)
    /\ Range(r) = Range(q) \ {q[i] : i \in 1..n}
    /\ r = <<>> <=> n = Len(q)

(* Taking the first n away from a list.                                    *)
LEMMA DropParts ==
    ASSUME NEW S, NEW q \in Seq(S), IsInjective(q), NEW n \in 0..Len(q)
    PROVE  IsRest(SubSeq(q, n + 1, Len(q)), S, q, n)
<1> DEFINE r == SubSeq(q, n + 1, Len(q))
<1>1. /\ Len(q) \in Nat /\ DOMAIN q = 1..Len(q)
      /\ \A i \in 1..Len(q) : q[i] \in S
  BY LenProperties, ElementOfSeq
<1>2. /\ r \in Seq(S) /\ Len(r) = Len(q) - n
      /\ \A i \in 1..(Len(q) - n) : r[i] = q[n + i]
  <2>1. /\ n \in Int /\ n + 1 \in Int /\ Len(q) \in Int
        /\ \A i \in (n + 1)..Len(q) : q[i] \in S
    BY <1>1
  <2>2. /\ r \in Seq(S)
        /\ Len(r) = IF n + 1 <= Len(q) THEN Len(q) - (n + 1) + 1 ELSE 0
        /\ \A i \in 1..(Len(q) - (n + 1) + 1) : r[i] = q[(n + 1) + i - 1]
    BY <2>1, SubSeqProperties
  <2> HIDE DEF r
  <2>3. Len(r) = Len(q) - n
    <3>1. Len(q) \in Nat /\ n \in Nat /\ n <= Len(q)
      BY <1>1
    <3> QED
      BY <2>2, <3>1
  <2>4. ASSUME NEW i \in 1..(Len(q) - n) PROVE r[i] = q[n + i]
    <3>1. i \in 1..(Len(q) - (n + 1) + 1) /\ (n + 1) + i - 1 = n + i
      BY <1>1
    <3> QED
      BY <2>2, <3>1
  <2> QED
    BY <2>2, <2>3, <2>4
<1> HIDE DEF r
<1>3. DOMAIN r = 1..(Len(q) - n)
  BY <1>2, LenProperties
<1>4. IsInjective(r)
  <2>1. ASSUME NEW i \in DOMAIN r, NEW j \in DOMAIN r, r[i] = r[j]
        PROVE  i = j
    <3>1. i \in 1..(Len(q) - n) /\ j \in 1..(Len(q) - n)
      BY <1>3
    <3>2. q[n + i] = q[n + j]
      BY <1>2, <2>1, <3>1
    <3>3. n + i \in DOMAIN q /\ n + j \in DOMAIN q
      BY <1>1, <3>1
    <3>4. n + i = n + j
      BY <3>2, <3>3 DEF IsInjective
    <3> QED
      BY <1>1, <3>1, <3>4
  <2> QED
    BY <2>1 DEF IsInjective
<1>5. Range(r) = Range(q) \ {q[i] : i \in 1..n}
  <2>1. ASSUME NEW x \in Range(r)
        PROVE  x \in Range(q) \ {q[i] : i \in 1..n}
    <3>1. PICK i \in 1..(Len(q) - n) : x = q[n + i]
      BY <1>2, <1>3 DEF Range
    <3>2. n + i \in 1..Len(q) /\ n + i \notin 1..n
      BY <1>1
    <3>3. x \in Range(q)
      BY <1>1, <3>1, <3>2 DEF Range
    <3>4. \A j \in 1..n : j \in DOMAIN q /\ j # n + i
      BY <1>1, <3>2
    <3>5. \A j \in 1..n : q[j] # q[n + i]
      BY <1>1, <3>2, <3>4 DEF IsInjective
    <3> QED
      BY <3>1, <3>3, <3>5
  <2>2. ASSUME NEW x \in Range(q), x \notin {q[i] : i \in 1..n}
        PROVE  x \in Range(r)
    <3>1. PICK i \in 1..Len(q) : x = q[i]
      BY <1>1 DEF Range
    <3>2. i - n \in 1..(Len(q) - n) /\ n + (i - n) = i
      BY <1>1, <2>2, <3>1
    <3>3. r[i - n] = x
      BY <1>2, <3>1, <3>2
    <3> QED
      BY <1>3, <3>2, <3>3 DEF Range
  <2> QED
    BY <2>1, <2>2
<1>6. r = <<>> <=> n = Len(q)
  <2>1. r = <<>> <=> Len(r) = 0
    BY <1>2, EmptySeq
  <2>2. Len(q) - n = 0 <=> n = Len(q)
    BY <1>1
  <2> QED
    BY <1>2, <2>1, <2>2
<1>7. IsRest(r, S, q, n)
  BY <1>2, <1>4, <1>5, <1>6 DEF IsRest
<1> QED
  BY <1>7 DEF r

(* Taking the first away from a list.                                      *)
LEMMA TailParts ==
    ASSUME NEW S, NEW q \in Seq(S), q # <<>>
    PROVE  /\ Head(q) \in S /\ Tail(q) \in Seq(S)
           /\ Head(q) \in Range(q)
           /\ IsInjective(q) =>
                IsInjective(Tail(q)) /\ Range(Tail(q)) = Range(q) \ {Head(q)}
           /\ Tail(q) = <<>> <=> Len(q) = 1
<1>1. /\ Len(q) \in Nat /\ Len(q) # 0 /\ DOMAIN q = 1..Len(q)
      /\ Head(q) = q[1]
  BY LenProperties, EmptySeq, HeadTailProperties
<1>2. Head(q) \in Range(q) /\ Head(q) \in S
  BY <1>1, ElementOfSeq DEF Range
<1>3. /\ Tail(q) \in Seq(S) /\ Len(Tail(q)) = Len(q) - 1
      /\ \A i \in 1..(Len(q) - 1) : Tail(q)[i] = q[i + 1]
  BY <1>1, HeadTailProperties
<1>4. DOMAIN Tail(q) = 1..(Len(q) - 1)
  BY <1>3, LenProperties
<1>5. ASSUME IsInjective(q)
      PROVE  IsInjective(Tail(q)) /\ Range(Tail(q)) = Range(q) \ {Head(q)}
  <2>1. IsInjective(Tail(q))
    BY <1>1, <1>3, <1>4, <1>5 DEF IsInjective
  <2>2. ASSUME NEW x \in Range(Tail(q)) PROVE x \in Range(q) \ {Head(q)}
    <3>1. PICK i \in 1..(Len(q) - 1) : x = q[i + 1]
      BY <1>3, <1>4 DEF Range
    <3> QED
      BY <1>1, <1>5, <3>1 DEF Range, IsInjective
  <2>3. ASSUME NEW x \in Range(q), x # Head(q) PROVE x \in Range(Tail(q))
    <3>1. PICK i \in 1..Len(q) : x = q[i]
      BY <1>1 DEF Range
    <3>2. i - 1 \in 1..(Len(q) - 1) /\ (i - 1) + 1 = i
      BY <1>1, <2>3, <3>1
    <3>3. Tail(q)[i - 1] = x
      BY <1>3, <3>1, <3>2
    <3> QED
      BY <1>4, <3>2, <3>3 DEF Range
  <2> QED
    BY <2>1, <2>2, <2>3
<1>6. Tail(q) = <<>> <=> Len(q) = 1
  BY <1>1, <1>3, EmptySeq
<1> QED
  BY <1>2, <1>3, <1>5, <1>6

-----------------------------------------------------------------------------
(***************************************************************************)
(* The inductive invariant.                                                *)
(***************************************************************************)
(* A coroutine is between the two ends of wait().                          *)
Waits(c) == pc[c] \in {"enq", "susp", "back", "late"}

(* It was collected by check_timeout, or has been resumed for that.        *)
TimedOut(c) == InQueue(c, expired) \/ pc[c] = "late"

(* Threads that wait() has counted and signal() has not taken yet.         *)
Counted == {t \in Thread : InWait(t) /\ t \notin newer}

EvTypeOK ==
    /\ TypeOK
    /\ part \in {"group", "timed", "untimed"}
    /\ \A c \in Coroutine : pc[c] \notin {"cv", "woken", "over"}
    /\ \A t \in Thread : pc[t] \in {"idle", "sig", "cv", "woken", "over"}

(* A waitx_t that waits, or has timed out, is in one list, once; and a     *)
(* list that signal() took away is not empty until it is through.          *)
InOneList ==
    /\ IsInjective(wc)
    /\ \A p \in Proc : IsInjective(h[p]) /\ Range(wc) \cap Range(h[p]) = {}
    /\ \A p, q \in Proc : p # q => Range(h[p]) \cap Range(h[q]) = {}
    /\ \A w \in Waitx : w \in Queued <=> state[w] \in {"wait", "timeout"}
    /\ \A p \in Proc : pc[p] = "sig" <=> h[p] # <<>>

(* A waitx_t that has not timed out is that of its coroutine, ...          *)
Owned ==
    \A w \in Waitx :
       /\ state[w] # "free" => owner[w] \in Coroutine
       /\ state[w] \in {"wait", "ready"} =>
             /\ waitx[owner[w]] = w
             /\ pc[owner[w]] \in {"enq", "susp", "back"}
             /\ ~ TimedOut(owner[w])

(* ... which has one as long as it is in wait().                           *)
Owning ==
    \A c \in Coroutine :
       /\ waitx[c] # None <=> Waits(c)
       /\ Waits(c) /\ ~ TimedOut(c) =>
             owner[waitx[c]] = c /\ state[waitx[c]] \in {"wait", "ready"}
       /\ pc[c] = "back" => state[waitx[c]] = "ready"

(* A coroutine is made ready when its waitx_t is, and is resumed once: as  *)
(* ready, or because check_timeout came first.                             *)
ReadyOnce ==
    \A s \in Sched :
       /\ IsInjective(ready[s]) /\ IsInjective(expired[s])
       /\ \A c \in Coroutine : c \in Range(ready[s]) <=>
             /\ SchedOf[c] = s /\ pc[c] \in {"enq", "susp"}
             /\ ~ InQueue(c, expired) /\ state[waitx[c]] = "ready"
       /\ \A c \in Range(expired[s]) : SchedOf[c] = s /\ pc[c] = "susp" /\ c \notin timer

(* A coroutine runs when it does something, and not while it is suspended. *)
Runs ==
    /\ \A s \in Sched : running[s] # None => SchedOf[running[s]] = s
    /\ \A c \in Coroutine :
          /\ pc[c] \in {"enq", "back", "late", "sig"} => running[SchedOf[c]] = c
          /\ pc[c] = "susp" => running[SchedOf[c]] # c
          /\ c \in timer => pc[c] \in {"enq", "susp"}

(* _wt counts at least the threads that wait and were not signaled.        *)
AllCounted == wt \in Nat /\ Cardinality(Counted) <= wt

(* Only c1 uses the event with timeouts, and where there are none nobody   *)
(* times out, and _wt is not left behind.                                  *)
WhoTimes ==
    /\ part = "timed" =>
          /\ \A s \in Sched : running[s] \in {c1, None}
          /\ \A w \in Waitx : owner[w] \in {c1, None}
    /\ part # "timed" =>
          /\ timer = {}
          /\ \A s \in Sched : expired[s] = <<>>
          /\ \A w \in Waitx : state[w] # "timeout"
          /\ \A p \in Proc : pc[p] \notin {"late", "over"}
          /\ \A t \in Thread : pc[t] = "woken" => t \in newer
          /\ \A t \in Thread : pc[t] = "cv" => t \notin newer
          /\ wt > 0 => \E t \in Thread : pc[t] = "cv"

EvInv ==
    /\ EvTypeOK /\ InOneList /\ Owned /\ Owning /\ ReadyOnce
    /\ Runs /\ AllCounted /\ WhoTimes

(***************************************************************************)
(* The wait group: what more is needed to know when wait() returns.        *)
(***************************************************************************)
(* No signal has come in this round, and who asked is waiting for it.      *)
Silent ==
    /\ ~ signaled
    /\ \A w \in Waitx : state[w] # "ready"
    /\ \A p \in Proc : h[p] = <<>>
    /\ \A t \in Thread : pc[t] # "woken"
    /\ \A p \in asked : pc[p] # "idle"

Rounds ==
    /\ asked \subseteq Waiter
    /\ fresh \in {{}, Worker} /\ todo \subseteq Worker /\ last \subseteq Worker
    /\ wg = Cardinality(todo)
    /\ fresh # {} => todo = {} /\ last = {} /\ asked = {}
    /\ todo # {} => last = {}
    /\ \A p, q \in last : p = q
    /\ part # "group" => asked = {}

SignaledAtEnd ==
    part = "group" =>
       /\ ~ manualReset
       /\ fresh # {} \/ todo # {} \/ last # {} => Silent
       /\ signaled => asked = {}
       /\ \A p \in Proc : pc[p] \notin {"idle", "sig"} => p \in asked

WgInv == Rounds /\ SignaledAtEnd

-----------------------------------------------------------------------------
(* What is assumed of a step: see MCNext.                                  *)
Keeps ==
    /\ UNCHANGED part
    /\ part = "timed" => OthersRest
    /\ part # "timed" => timer' = {}

(* Who was collected by check_timeout is suspended still, so who came back *)
(* from the yield was not; and who is not in wait() has no waitx_t.        *)
LEMMA CollectedSleeps ==
    ASSUME EvInv
    PROVE  /\ \A c \in Coroutine : InQueue(c, expired) => pc[c] = "susp"
           /\ \A c \in Coroutine : pc[c] = "back" => ~ TimedOut(c)
           /\ \A c \in Coroutine : pc[c] = "idle" => waitx[c] = None
<1>1. \A c \in Coroutine : InQueue(c, expired) => pc[c] = "susp"
  <2>1. ASSUME NEW c \in Coroutine, c \in Range(expired[SchedOf[c]]) PROVE pc[c] = "susp"
    <3>1. SchedOf[c] \in Sched
      BY EventAssumption
    <3> QED
      BY <2>1, <3>1 DEF EvInv, ReadyOnce
  <2> QED
    BY <2>1 DEF InQueue
<1>2. \A c \in Coroutine : pc[c] = "idle" => waitx[c] = None
  BY DEF EvInv, Owning, Waits
<1> QED
  BY <1>1, <1>2 DEF TimedOut

(* The event is signaled or reset.                                         *)
LEMMA StepOfMark ==
    ASSUME EvInv, Keeps, signaled' \in BOOLEAN,
           UNCHANGED <<manualReset, wt, newer, wc, heap, waitx, scheds, pc, h>>
    PROVE  EvInv'
<1> USE DEF EvInv, Keeps, heap, scheds, Waits, TimedOut, InQueue
<1>1. EvTypeOK'
  BY DEF EvTypeOK, TypeOK
<1>2. InOneList'
  BY DEF InOneList, Queued
<1>3. Owned' /\ Owning' /\ ReadyOnce'
  BY DEF Owned, Owning, ReadyOnce
<1>4. Runs' /\ AllCounted' /\ WhoTimes'
  BY DEF Runs, AllCounted, Counted, InWait, WhoTimes
<1> QED
  BY <1>1, <1>2, <1>3, <1>4

(* The lists stay.                                                         *)
LEMMA ListsKept ==
    ASSUME InOneList, UNCHANGED <<wc, h>>,
           \A w \in Waitx : state'[w] \in {"wait", "timeout"} <=> state[w] \in {"wait", "timeout"},
           \A p \in Proc : pc'[p] = "sig" <=> pc[p] = "sig"
    PROVE  InOneList'
<1>1. Queued' = Queued
  BY DEF Queued
<1> QED
  BY <1>1 DEF InOneList

(* The threads that wait stay.                                             *)
LEMMA ThreadsKept ==
    ASSUME AllCounted, UNCHANGED <<wt, newer>>,
           \A t \in Thread : pc'[t] \in {"cv", "woken", "over"}
                            <=> pc[t] \in {"cv", "woken", "over"}
    PROVE  AllCounted'
<1>1. Counted' = Counted
  BY DEF Counted, InWait
<1> QED
  BY <1>1 DEF AllCounted

(* A coroutine in wait() yields.                                           *)
LEMMA StepOfWaitYield ==
    ASSUME EvInv, Keeps, NEW c \in Coroutine, WaitYield(c)
    PROVE  EvInv'
<1> USE EventAssumption
    DEF EvInv, Keeps, WaitYield, OnCpu, Goto, event, heap, Waits, TimedOut, InQueue, Proc
<1>1. EvTypeOK'
  BY DEF EvTypeOK, TypeOK, PcState
<1>2. InOneList'
  BY ListsKept DEF EvTypeOK, TypeOK
<1>3. Owned' /\ Owning' /\ ReadyOnce' /\ Runs'
  BY DEF Owned, Owning, ReadyOnce, Runs, EvTypeOK, TypeOK
<1>4. AllCounted'
  BY ThreadsKept DEF EvTypeOK, TypeOK
<1>5. WhoTimes'
  BY DEF WhoTimes, EvTypeOK, TypeOK
<1> QED
  BY <1>1, <1>2, <1>3, <1>4, <1>5

(* A coroutine returns from wait().                                        *)
LEMMA StepOfWaitReturn ==
    ASSUME EvInv, Keeps, NEW c \in Coroutine, WaitReturn(c)
    PROVE  EvInv'
<1> USE EventAssumption
    DEF EvInv, Keeps, WaitReturn, OnCpu, Goto, event, scheds, Waits, TimedOut, InQueue, Proc
<1>1. waitx[c] \in Waitx
  BY DEF Owning, EvTypeOK, TypeOK
<1>2. ASSUME pc[c] = "back"
      PROVE  /\ ~ TimedOut(c)
             /\ \A d \in Coroutine : d # c /\ Waits(d) /\ ~ TimedOut(d) => waitx[d] # waitx[c]
  <2>1. ~ TimedOut(c)
    BY <1>2, CollectedSleeps
  <2>2. owner[waitx[c]] = c
    BY <1>2, <2>1 DEF Owning
  <2> QED
    BY <2>1, <2>2 DEF Owning
<1>3. EvTypeOK'
  BY <1>1 DEF EvTypeOK, TypeOK, PcState
<1>4. InOneList'
  BY <1>1, ListsKept DEF Owning, EvTypeOK, TypeOK
<1>5. Owned'
  BY <1>1 DEF Owned, Owning, EvTypeOK, TypeOK
<1>6. Owning'
  <2>1. /\ waitx'[c] = None /\ pc'[c] = "idle"
        /\ \A d \in Coroutine : d # c => waitx'[d] = waitx[d] /\ pc'[d] = pc[d]
        /\ UNCHANGED <<owner, expired>>
    BY DEF EvTypeOK, TypeOK
  <2>2. \A d \in Coroutine : d # c /\ Waits(d) /\ ~ TimedOut(d) =>
           state'[waitx[d]] = state[waitx[d]]
    BY <1>1, <1>2 DEF EvTypeOK, TypeOK
  <2>3. \A d \in Coroutine : d # c /\ pc[d] = "back" => ~ TimedOut(d)
    BY CollectedSleeps
  <2> QED
    BY <2>1, <2>2, <2>3 DEF Owning
<1>7. ReadyOnce'
  BY <1>1, <1>2 DEF ReadyOnce, EvTypeOK, TypeOK
<1>8. Runs'
  BY DEF Runs, EvTypeOK, TypeOK
<1>9. AllCounted'
  BY ThreadsKept DEF EvTypeOK, TypeOK
<1>10. WhoTimes'
  BY <1>1 DEF WhoTimes, EvTypeOK, TypeOK
<1> QED
  BY <1>3, <1>4, <1>5, <1>6, <1>7, <1>8, <1>9, <1>10

(* A ready coroutine is resumed.                                           *)
LEMMA StepOfResumeReady ==
    ASSUME EvInv, Keeps, NEW s \in Sched, ResumeReady(s)
    PROVE  EvInv'
<1> USE EventAssumption
    DEF EvInv, Keeps, Goto, event, heap, Waits, TimedOut, InQueue, Proc
<1> DEFINE c == Head(ready[s])
<1>1. /\ ready[s] \in Seq(Coroutine) /\ ready[s] # <<>>
      /\ IsInjective(ready[s])
  BY DEF ResumeReady, ReadyOnce, EvTypeOK, TypeOK
<1>2. /\ c \in Coroutine /\ c \in Range(ready[s])
      /\ Tail(ready[s]) \in Seq(Coroutine) /\ IsInjective(Tail(ready[s]))
      /\ Range(Tail(ready[s])) = Range(ready[s]) \ {c}
  BY <1>1, TailParts
<1>3. /\ running[s] = None /\ pc[c] = "susp"
      /\ running' = [running EXCEPT ![s] = c]
      /\ timer' = timer \ {c}
      /\ pc' = [pc EXCEPT ![c] = "back"]
      /\ ready' = [ready EXCEPT ![s] = Tail(ready[s])]
      /\ UNCHANGED <<event, heap, waitx, expired, h>>
  BY DEF ResumeReady
<1> HIDE DEF c
<1>4. /\ SchedOf[c] = s /\ waitx[c] # None
      /\ ~ InQueue(c, expired) /\ state[waitx[c]] = "ready"
  BY <1>2, <1>3 DEF ReadyOnce, Owning
<1>5. EvTypeOK'
  BY <1>2, <1>3 DEF EvTypeOK, TypeOK, PcState
<1>6. InOneList'
  BY <1>2, <1>3, ListsKept DEF EvTypeOK, TypeOK
<1>7. Owned' /\ Owning'
  BY <1>2, <1>3, <1>4 DEF Owned, Owning, EvTypeOK, TypeOK
<1>8. ReadyOnce'
  BY <1>2, <1>3, <1>4 DEF ReadyOnce, EvTypeOK, TypeOK
<1>9. Runs'
  <2>1. running'[s] = c /\ \A r \in Sched : r # s => running'[r] = running[r]
    BY <1>3 DEF EvTypeOK, TypeOK
  <2>2. pc'[c] = "back" /\ \A d \in Coroutine : d # c => pc'[d] = pc[d]
    BY <1>2, <1>3 DEF EvTypeOK, TypeOK
  <2>3. \A d \in Coroutine : SchedOf[d] = s /\ d # c =>
           pc[d] \notin {"enq", "back", "late", "sig"}
    BY <1>3 DEF Runs
  <2> QED
    BY <1>2, <1>3, <1>4, <2>1, <2>2, <2>3 DEF Runs, EvTypeOK, TypeOK
<1>10. AllCounted'
  BY <1>2, <1>3, ThreadsKept DEF EvTypeOK, TypeOK
<1>11. WhoTimes'
  BY <1>2, <1>3 DEF OthersRest, WhoTimes, EvTypeOK, TypeOK
<1> QED
  BY <1>5, <1>6, <1>7, <1>8, <1>9, <1>10, <1>11

(* check_timeout finds the deadline of a coroutine passed.                 *)
LEMMA StepOfCheckTimeout ==
    ASSUME EvInv, Keeps, NEW c \in Coroutine, CheckTimeout(c)
    PROVE  EvInv'
<1> USE EventAssumption
    DEF EvInv, Keeps, event, Waits, TimedOut, InQueue, Proc
<1>1. /\ running[SchedOf[c]] = None
      /\ c \in timer /\ pc[c] = "susp"
      /\ timer' = timer \ {c}
      /\ UNCHANGED <<event, owner, waitx, ready, running, pc, h>>
  BY DEF CheckTimeout
<1>2. /\ part = "timed" /\ SchedOf[c] \in Sched
      /\ waitx[c] \in Waitx /\ ~ InQueue(c, expired)
      /\ owner[waitx[c]] = c /\ state[waitx[c]] \in {"wait", "ready"}
  <2>1. SchedOf[c] \in Sched /\ part = "timed"
    BY <1>1 DEF WhoTimes, EvTypeOK, TypeOK
  <2>2. ~ InQueue(c, expired)
    BY <1>1, <2>1 DEF ReadyOnce
  <2>3. waitx[c] # None
    BY <1>1 DEF Owning
  <2>4. waitx[c] \in Waitx
    BY <2>3 DEF EvTypeOK, TypeOK
  <2>5. Waits(c) /\ ~ TimedOut(c)
    BY <1>1, <2>2
  <2>6. owner[waitx[c]] = c /\ state[waitx[c]] \in {"wait", "ready"}
    BY <2>5 DEF Owning
  <2> QED
    BY <2>1, <2>2, <2>4, <2>6
<1>3. /\ AllCounted'
      /\ Runs'
  BY <1>1, ThreadsKept DEF Runs
<1>4. CASE state[waitx[c]] = "wait"
  <2>1. /\ state' = [state EXCEPT ![waitx[c]] = "timeout"]
        /\ expired' = [expired EXCEPT ![SchedOf[c]] = Append(expired[SchedOf[c]], c)]
    BY <1>4 DEF CheckTimeout
  <2>2. /\ Append(expired[SchedOf[c]], c) \in Seq(Coroutine)
        /\ Range(Append(expired[SchedOf[c]], c)) = Range(expired[SchedOf[c]]) \cup {c}
        /\ IsInjective(Append(expired[SchedOf[c]], c))
    BY <1>2, AppendParts DEF ReadyOnce, EvTypeOK, TypeOK
  <2>3. EvTypeOK'
    BY <1>1, <1>2, <2>1, <2>2 DEF EvTypeOK, TypeOK
  <2>4. InOneList'
    BY <1>1, <1>2, <1>4, <2>1, ListsKept DEF EvTypeOK, TypeOK
  <2>5. Owned' /\ Owning'
    BY <1>1, <1>2, <1>4, <2>1, <2>2 DEF Owned, Owning, EvTypeOK, TypeOK
  <2>6. ReadyOnce'
    BY <1>1, <1>2, <1>4, <2>1, <2>2 DEF ReadyOnce, Owned, Owning, EvTypeOK, TypeOK
  <2>7. WhoTimes'
    BY <1>1, <1>2 DEF WhoTimes
  <2> QED
    BY <1>3, <2>3, <2>4, <2>5, <2>6, <2>7
<1>5. CASE state[waitx[c]] # "wait"
  <2>1. UNCHANGED <<state, expired>>
    BY <1>5 DEF CheckTimeout
  <2>2. EvTypeOK' /\ InOneList' /\ WhoTimes'
    BY <1>1, <1>2, <2>1, ListsKept DEF EvTypeOK, TypeOK, WhoTimes
  <2>3. Owned' /\ Owning' /\ ReadyOnce'
    BY <1>1, <2>1 DEF Owned, Owning, ReadyOnce
  <2> QED
    BY <1>3, <2>2, <2>3
<1> QED
  BY <1>4, <1>5

(* A coroutine that check_timeout has collected is resumed.                *)
LEMMA StepOfResumeExpired ==
    ASSUME EvInv, Keeps, NEW s \in Sched, ResumeExpired(s)
    PROVE  EvInv'
<1> USE EventAssumption
    DEF EvInv, Keeps, Goto, event, heap, Waits, TimedOut, InQueue, Proc
<1> DEFINE c == Head(expired[s])
<1>1. /\ expired[s] \in Seq(Coroutine) /\ expired[s] # <<>>
      /\ IsInjective(expired[s])
  BY DEF ResumeExpired, ReadyOnce, EvTypeOK, TypeOK
<1>2. /\ c \in Coroutine /\ c \in Range(expired[s])
      /\ Tail(expired[s]) \in Seq(Coroutine) /\ IsInjective(Tail(expired[s]))
      /\ Range(Tail(expired[s])) = Range(expired[s]) \ {c}
  BY <1>1, TailParts
<1>3. /\ running[s] = None
      /\ running' = [running EXCEPT ![s] = c]
      /\ pc' = [pc EXCEPT ![c] = "late"]
      /\ expired' = [expired EXCEPT ![s] = Tail(expired[s])]
      /\ UNCHANGED <<event, heap, waitx, timer, ready, h>>
  BY DEF ResumeExpired
<1> HIDE DEF c
<1>4. /\ SchedOf[c] = s /\ pc[c] = "susp" /\ c \notin timer /\ part = "timed"
  BY <1>1, <1>2 DEF ReadyOnce, WhoTimes
<1>5. EvTypeOK'
  BY <1>2, <1>3 DEF EvTypeOK, TypeOK, PcState
<1>6. InOneList'
  BY <1>2, <1>3, <1>4, ListsKept DEF EvTypeOK, TypeOK
<1>7. Owned' /\ Owning'
  BY <1>2, <1>3, <1>4 DEF Owned, Owning, EvTypeOK, TypeOK
<1>8. ReadyOnce'
  BY <1>2, <1>3, <1>4 DEF ReadyOnce, EvTypeOK, TypeOK
<1>9. Runs'
  BY <1>2, <1>3, <1>4 DEF Runs, EvTypeOK, TypeOK
<1>10. AllCounted'
  BY <1>2, <1>3, ThreadsKept DEF EvTypeOK, TypeOK
<1>11. WhoTimes'
  BY <1>2, <1>3, <1>4 DEF OthersRest, WhoTimes, EvTypeOK, TypeOK
<1> QED
  BY <1>5, <1>6, <1>7, <1>8, <1>9, <1>10, <1>11

(* A coroutine outside the event runs, or yields.                          *)
LEMMA StepOfDispatch ==
    ASSUME EvInv, Keeps, NEW c \in Coroutine, Dispatch(c) \/ Leave(c)
    PROVE  EvInv'
<1> USE EventAssumption
    DEF EvInv, Keeps, event, heap, Waits, TimedOut, InQueue, Proc
<1>1. /\ pc[c] = "idle" /\ running[SchedOf[c]] \in {c, None}
      /\ \E d \in {c, None} : running' = [running EXCEPT ![SchedOf[c]] = d]
      /\ UNCHANGED <<event, heap, waitx, timer, ready, expired, pc, h>>
  BY DEF Dispatch, Leave
<1>2. EvTypeOK' /\ InOneList' /\ AllCounted'
  BY <1>1, ListsKept, ThreadsKept DEF EvTypeOK, TypeOK
<1>3. Owned' /\ Owning' /\ ReadyOnce'
  BY <1>1 DEF Owned, Owning, ReadyOnce
<1>4. Runs'
  BY <1>1 DEF Runs, EvTypeOK, TypeOK
<1>5. WhoTimes'
  BY <1>1 DEF OthersRest, WhoTimes, EvTypeOK, TypeOK
<1> QED
  BY <1>2, <1>3, <1>4, <1>5

(* A coroutine begins to wait, with a waitx_t of its own.                  *)
LEMMA StepOfWaitNew ==
    ASSUME EvInv, Keeps, NEW c \in Coroutine, WaitNew(c)
    PROVE  EvInv'
<1> USE EventAssumption
    DEF EvInv, Keeps, Goto, OnCpu, Waits, TimedOut, InQueue, Proc
<1>1. PICK x \in Waitx :
        /\ state[x] = "free"
        /\ state' = [state EXCEPT ![x] = "wait"]
        /\ owner' = [owner EXCEPT ![x] = c]
        /\ waitx' = [waitx EXCEPT ![c] = x]
        /\ wc' = Append(wc, x)
  BY DEF WaitNew
<1>2. /\ running[SchedOf[c]] = c /\ pc[c] = "idle"
      /\ timer \subseteq timer' /\ timer' \subseteq timer \cup ({c} \cap Timed)
      /\ pc' = [pc EXCEPT ![c] = "enq"]
      /\ UNCHANGED <<manualReset, signaled, wt, newer, ready, expired, running, h>>
  BY DEF WaitNew, StartTimer
<1>3. x \notin Queued /\ SchedOf[c] \in Sched
  BY <1>1 DEF InOneList
<1>4. /\ wc' \in Seq(Waitx) /\ IsInjective(wc')
      /\ Range(wc') = Range(wc) \cup {x}
  BY <1>1, <1>3, AppendParts DEF InOneList, EvTypeOK, TypeOK, Queued
<1>5. Queued' = Queued \cup {x}
  BY <1>2, <1>4 DEF Queued
<1>6. EvTypeOK'
  BY <1>1, <1>2, <1>4 DEF EvTypeOK, TypeOK, PcState
<1>7. InOneList'
  <2>1. \A p \in Proc : x \notin Range(h[p])
    BY <1>3 DEF Queued
  <2>2. /\ IsInjective(wc')
        /\ \A p \in Proc : IsInjective(h[p])' /\ (Range(wc) \cap Range(h[p]) = {})'
        /\ \A p, q \in Proc : p # q => (Range(h[p]) \cap Range(h[q]) = {})'
    <3>1. \A p \in Proc : IsInjective(h[p])' /\ (Range(wc) \cap Range(h[p]) = {})'
      BY <1>2, <1>4, <2>1 DEF InOneList
    <3>2. \A p, q \in Proc : p # q => (Range(h[p]) \cap Range(h[q]) = {})'
      BY <1>2 DEF InOneList
    <3> QED
      BY <1>4, <3>1, <3>2
  <2>3. \A w \in Waitx : (w \in Queued <=> state[w] \in {"wait", "timeout"})'
    BY <1>1, <1>5 DEF InOneList, EvTypeOK, TypeOK
  <2>4. \A p \in Proc : (pc[p] = "sig" <=> h[p] # <<>>)'
    BY <1>2 DEF InOneList, EvTypeOK, TypeOK
  <2> QED
    BY <2>2, <2>3, <2>4 DEF InOneList
<1>8. ~ InQueue(c, expired) /\ waitx[c] = None
  BY <1>2, CollectedSleeps
<1>9. Owned'
  BY <1>1, <1>2, <1>8 DEF Owned, EvTypeOK, TypeOK
<1>10. Owning'
  BY <1>1, <1>2, <1>8 DEF Owning, ReadyOnce, EvTypeOK, TypeOK
<1>11. ReadyOnce'
  BY <1>1, <1>2, <1>8 DEF Owning, ReadyOnce, EvTypeOK, TypeOK
<1>12. Runs'
  BY <1>2 DEF Runs, EvTypeOK, TypeOK
<1>13. AllCounted'
  BY <1>2, ThreadsKept DEF EvTypeOK, TypeOK
<1>14. WhoTimes'
  BY <1>1, <1>2 DEF WhoTimes, EvTypeOK, TypeOK
<1> QED
  BY <1>6, <1>7, <1>9, <1>10, <1>11, <1>12, <1>13, <1>14

(* A coroutine begins to wait, with the waitx_t of a wait that timed out.  *)
LEMMA StepOfWaitReuse ==
    ASSUME EvInv, Keeps, part = "timed", NEW c \in Coroutine, WaitReuse(c)
    PROVE  EvInv'
<1> USE EventAssumption
    DEF EvInv, Keeps, Goto, OnCpu, Waits, TimedOut, InQueue, Proc
<1> DEFINE x == wc[1]
           F(n) == {wc[i] : i \in 2..n}
<1>1. PICK n \in 1..Len(wc) :
        /\ TimedOutPrefix(n)
        /\ wc' = Append(SubSeq(wc, n + 1, Len(wc)), x)
        /\ state' = [w \in Waitx |-> IF w = x THEN "wait"
                                     ELSE IF w \in F(n) THEN "free"
                                     ELSE state[w]]
        /\ waitx' = [waitx EXCEPT ![c] = x]
  BY DEF WaitReuse
<1>2. /\ running[SchedOf[c]] = c /\ pc[c] = "idle"
      /\ timer \subseteq timer' /\ timer' \subseteq timer \cup ({c} \cap Timed)
      /\ pc' = [pc EXCEPT ![c] = "enq"]
      /\ UNCHANGED <<manualReset, signaled, wt, newer, owner, ready, expired, running, h>>
  BY DEF WaitReuse, StartTimer
<1> DEFINE T == {wc[i] : i \in 1..n}
<1>3. /\ wc \in Seq(Waitx) /\ IsInjective(wc) /\ DOMAIN wc = 1..Len(wc)
      /\ Len(wc) \in Nat /\ n \in 0..Len(wc) /\ n \in Nat /\ n >= 1
  BY LenProperties DEF InOneList, EvTypeOK, TypeOK
<1>4. /\ x \in Waitx /\ T \subseteq Range(wc) /\ T = F(n) \cup {x}
      /\ \A w \in T : state[w] = "timeout"
  <2>1. x \in Waitx /\ T \subseteq Range(wc)
    BY <1>3, ElementOfSeq DEF Range
  <2>2. T = F(n) \cup {x}
    <3>1. 1..n = (2..n) \cup {1}
      BY <1>3
    <3> QED
      BY <3>1
  <2>3. \A w \in T : state[w] = "timeout"
    BY <1>1 DEF TimedOutPrefix
  <2> QED
    BY <2>1, <2>2, <2>3
<1>5. x \notin F(n)
  BY <1>3 DEF IsInjective
<1> DEFINE r == SubSeq(wc, n + 1, Len(wc))
<1>6. r \in Seq(Waitx) /\ IsInjective(r) /\ Range(r) = Range(wc) \ T
  <2>1. wc \in Seq(Waitx) /\ IsInjective(wc) /\ n \in 0..Len(wc)
    BY <1>3
  <2>2. IsRest(SubSeq(wc, n + 1, Len(wc)), Waitx, wc, n)
    BY ONLY <2>1, DropParts
  <2> QED
    BY <2>2 DEF IsRest
<1> DEFINE G == F(n)
<1>7. state' = [w \in Waitx |-> IF w = x THEN "wait" ELSE IF w \in G THEN "free" ELSE state[w]]
  BY <1>1
<1>8. wc' = Append(r, x)
  BY <1>1
<1>9. T = G \cup {x} /\ x \notin G
  BY <1>4, <1>5
<1>10. waitx' = [waitx EXCEPT ![c] = x]
  BY <1>1
<1> HIDE DEF T, r, G, F, x
<1>11. wc' \in Seq(Waitx) /\ IsInjective(wc') /\ Range(wc') = (Range(wc) \ T) \cup {x}
  BY <1>4, <1>6, <1>8, <1>9, AppendParts
<1>12. \A p \in Proc : T \cap Range(h[p]) = {}
  BY <1>4 DEF InOneList
<1>13. Queued' = Queued \ G
  BY <1>2, <1>4, <1>9, <1>11, <1>12 DEF Queued
<1>14. c = c1 /\ owner[x] = c /\ SchedOf[c] \in Sched
  BY <1>2, <1>4, <1>9 DEF WhoTimes, Owned
<1>15. ~ InQueue(c, expired) /\ waitx[c] = None
  BY <1>2, CollectedSleeps
<1>16. EvTypeOK'
  BY <1>2, <1>4, <1>7, <1>10, <1>11 DEF EvTypeOK, TypeOK, PcState
<1>17. InOneList'
  <2>1. /\ IsInjective(wc')
        /\ \A p \in Proc : IsInjective(h[p])' /\ (Range(wc) \cap Range(h[p]) = {})'
        /\ \A p, q \in Proc : p # q => (Range(h[p]) \cap Range(h[q]) = {})'
    BY <1>2, <1>9, <1>11, <1>12 DEF InOneList
  <2>2. x \in Queued
    BY <1>4, <1>9 DEF Queued
  <2>3. \A w \in Waitx : (w \in Queued <=> state[w] \in {"wait", "timeout"})'
    BY <1>7, <1>9, <1>13, <2>2 DEF InOneList
  <2>4. \A p \in Proc : (pc[p] = "sig" <=> h[p] # <<>>)'
    BY <1>2 DEF InOneList, EvTypeOK, TypeOK
  <2> QED
    BY <2>1, <2>3, <2>4 DEF InOneList
<1>18. \A w \in Waitx : /\ w # x => (state'[w] = state[w] \/ (state'[w] = "free" /\ state[w] = "timeout"))
                        /\ w = x => state'[w] = "wait" /\ state[w] = "timeout"
  BY <1>4, <1>7, <1>9
<1>19. \A d \in Coroutine : d # c => waitx'[d] = waitx[d] /\ pc'[d] = pc[d]
  BY <1>2, <1>10 DEF EvTypeOK, TypeOK
<1>20. waitx'[c] = x /\ pc'[c] = "enq"
  BY <1>2, <1>10 DEF EvTypeOK, TypeOK
<1>21. Owned'
  BY <1>2, <1>14, <1>15, <1>18, <1>19, <1>20 DEF Owned, EvTypeOK, TypeOK
<1>22. \A d \in Coroutine : Waits(d) => waitx[d] \in Waitx
  BY DEF Owning, EvTypeOK, TypeOK
<1>23. Owning'
  <2>1. \A d \in Coroutine : d # c /\ Waits(d) /\ ~ TimedOut(d) =>
           state'[waitx[d]] = state[waitx[d]]
    BY <1>18, <1>22 DEF Owning
  <2>2. \A d \in Coroutine : d # c /\ pc[d] = "back" => ~ TimedOut(d)
    BY DEF ReadyOnce, EvTypeOK, TypeOK
  <2>3. waitx'[c] = x /\ x # None /\ owner'[x] = c /\ state'[x] = "wait"
    BY <1>2, <1>4, <1>14, <1>18, <1>20
  <2> QED
    BY <1>2, <1>19, <1>20, <2>1, <2>2, <2>3 DEF Owning
<1>24. ReadyOnce'
  BY <1>2, <1>4, <1>14, <1>15, <1>18, <1>19, <1>20, <1>22 DEF ReadyOnce, Owning
<1>25. Runs'
  BY <1>2, <1>19, <1>20 DEF Runs, EvTypeOK, TypeOK
<1>26. AllCounted'
  BY <1>2, ThreadsKept DEF EvTypeOK, TypeOK
<1>27. WhoTimes'
  BY <1>2 DEF WhoTimes
<1> QED
  BY <1>16, <1>17, <1>21, <1>23, <1>24, <1>25, <1>26, <1>27

(* A thread begins to wait.                                                *)
LEMMA StepOfWaitThread ==
    ASSUME EvInv, Keeps, NEW t \in Thread, WaitThread(t)
    PROVE  EvInv'
<1> USE EventAssumption
    DEF EvInv, Keeps, Goto, heap, Waits, TimedOut, InQueue, Proc
<1>1. /\ pc[t] = "idle" /\ wt' = wt + 1 /\ newer' = newer \ {t}
      /\ timer \subseteq timer' /\ timer' \subseteq timer \cup ({t} \cap Timed)
      /\ pc' = [pc EXCEPT ![t] = "cv"]
      /\ UNCHANGED <<manualReset, signaled, wc, heap, waitx, ready, expired, running, h>>
  BY DEF WaitThread, StartTimer
<1>2. pc'[t] = "cv" /\ \A p \in Proc : p # t => pc'[p] = pc[p]
  BY <1>1 DEF EvTypeOK, TypeOK
<1>3. t \notin Coroutine
  OBVIOUS
<1>4. EvTypeOK'
  BY <1>1, <1>2 DEF EvTypeOK, TypeOK, PcState
<1>5. InOneList'
  BY <1>1, <1>2, ListsKept
<1>6. Owned' /\ Owning' /\ ReadyOnce'
  BY <1>1, <1>2, <1>3 DEF Owned, Owning, ReadyOnce, EvTypeOK, TypeOK
<1>7. Runs'
  BY <1>1, <1>2, <1>3 DEF Runs, EvTypeOK, TypeOK
<1>8. AllCounted'
  <2>1. Counted' = Counted \cup {t} /\ t \notin Counted
    BY <1>1, <1>2 DEF Counted, InWait
  <2>2. IsFiniteSet(Counted)
    BY FS_Subset DEF Counted
  <2>3. Cardinality(Counted') = Cardinality(Counted) + 1 /\ Cardinality(Counted) \in Nat
    BY <2>1, <2>2, FS_AddElement, FS_CardinalityType
  <2> QED
    BY <1>1, <2>3 DEF AllCounted
<1>9. WhoTimes'
  BY <1>1, <1>2 DEF WhoTimes, EvTypeOK, TypeOK
<1> QED
  BY <1>4, <1>5, <1>6, <1>7, <1>8, <1>9

(* A thread wakes for nothing, or because of its deadline.                 *)
LEMMA StepOfThreadWakes ==
    ASSUME EvInv, Keeps, part = "timed", NEW t \in Thread,
           SpuriousWakeup(t) \/ DeadlinePasses(t)
    PROVE  EvInv'
<1> USE EventAssumption
    DEF EvInv, Keeps, event, heap, scheds, Waits, TimedOut, InQueue, Proc
<1>1. PICK l \in {"woken", "over"} : pc' = [pc EXCEPT ![t] = l]
  BY DEF SpuriousWakeup, DeadlinePasses, Goto
<1>2. pc[t] = "cv" /\ UNCHANGED <<event, heap, waitx, scheds, h>>
  BY DEF SpuriousWakeup, DeadlinePasses
<1>3. pc'[t] = l /\ \A p \in Proc : p # t => pc'[p] = pc[p]
  BY <1>1 DEF EvTypeOK, TypeOK
<1>4. \A c \in Coroutine : pc'[c] = pc[c]
  BY <1>3
<1>5. EvTypeOK'
  BY <1>1, <1>2, <1>3 DEF EvTypeOK, TypeOK, PcState
<1>6. InOneList' /\ AllCounted'
  BY <1>2, <1>3, ListsKept, ThreadsKept
<1>7. Owned' /\ Owning' /\ ReadyOnce'
  <2>1. UNCHANGED <<state, owner, waitx, ready, expired, timer>>
    BY <1>2
  <2>2. \A c \in Coroutine : Waits(c)' <=> Waits(c)
    BY <1>4
  <2>3. \A c \in Coroutine : TimedOut(c)' <=> TimedOut(c)
    BY <1>4, <2>1
  <2>4. \A s \in Sched : \A c \in Range(expired[s]) : c \in Coroutine
    BY DEF Range, EvTypeOK, TypeOK
  <2> QED
    BY <1>4, <2>1, <2>2, <2>3, <2>4 DEF Owned, Owning, ReadyOnce
<1>8. Runs' /\ WhoTimes'
  BY <1>2, <1>3, <1>4 DEF Runs, WhoTimes, EvTypeOK, TypeOK
<1> QED
  BY <1>5, <1>6, <1>7, <1>8

(* A thread returns from wait().                                           *)
LEMMA StepOfThreadReturn ==
    ASSUME EvInv, Keeps, NEW t \in Thread, NEW r \in BOOLEAN, ThreadReturn(t, r)
    PROVE  EvInv'
<1> USE EventAssumption
    DEF EvInv, Keeps, Goto, heap, Waits, TimedOut, InQueue, Proc
<1>1. /\ pc[t] \in {"woken", "over"}
      /\ pc[t] = "woken" => r \/ t \in timer
      /\ wt' = IF ~ r /\ t \notin newer THEN wt - 1 ELSE wt
      /\ timer' = timer \ {t}
      /\ pc' = [pc EXCEPT ![t] = "idle"]
      /\ UNCHANGED <<manualReset, signaled, newer, wc, heap, waitx, ready, expired, running, h>>
  BY DEF ThreadReturn
<1>2. pc'[t] = "idle" /\ \A p \in Proc : p # t => pc'[p] = pc[p]
  BY <1>1 DEF EvTypeOK, TypeOK
<1>3. t \notin Coroutine
  OBVIOUS
<1>4. AllCounted'
  <2>1. Counted' = Counted \ {t}
    BY <1>1, <1>2 DEF Counted, InWait
  <2>2. IsFiniteSet(Counted)
    BY FS_Subset DEF Counted
  <2>3. CASE ~ r /\ t \notin newer
    <3>1. t \in Counted
      BY <1>1, <2>3 DEF Counted, InWait
    <3>2. Cardinality(Counted') = Cardinality(Counted) - 1
          /\ Cardinality(Counted) \in Nat /\ Cardinality(Counted') \in Nat
      BY <2>1, <2>2, <3>1, FS_RemoveElement, FS_CardinalityType
    <3> QED
      BY <1>1, <2>3, <3>2 DEF AllCounted
  <2>4. CASE ~ (~ r /\ t \notin newer)
    <3>1. Cardinality(Counted') <= Cardinality(Counted)
          /\ Cardinality(Counted) \in Nat /\ Cardinality(Counted') \in Nat
      BY <2>1, <2>2, FS_Subset, FS_CardinalityType
    <3> QED
      BY <1>1, <2>4, <3>1 DEF AllCounted
  <2> QED
    BY <2>3, <2>4
<1>5. EvTypeOK'
  BY <1>1, <1>2, <1>4 DEF EvTypeOK, TypeOK, PcState, AllCounted
<1>6. InOneList'
  BY <1>1, <1>2, ListsKept
<1>7. Owned' /\ Owning' /\ ReadyOnce'
  BY <1>1, <1>2, <1>3 DEF Owned, Owning, ReadyOnce, EvTypeOK, TypeOK
<1>8. Runs'
  BY <1>1, <1>2, <1>3 DEF Runs, EvTypeOK, TypeOK
<1>9. WhoTimes'
  <2>1. CASE part = "timed"
    BY <1>1, <2>1 DEF WhoTimes
  <2>2. CASE part # "timed"
    <3>1. wt' = wt
      BY <1>1, <2>2 DEF WhoTimes
    <3> QED
      BY <1>1, <1>2, <2>2, <3>1 DEF WhoTimes
  <2> QED
    BY <2>1, <2>2
<1> QED
  BY <1>4, <1>5, <1>6, <1>7, <1>8, <1>9

(* Coroutines begin or end what they do outside wait().                    *)
SameWaits ==
    \A c \in Coroutine : pc'[c] = pc[c] \/ {pc[c], pc'[c]} \subseteq {"idle", "sig"}

(* signal() frees waitx_t that have timed out.                             *)
LEMMA FreesLate ==
    ASSUME EvInv, NEW F \in SUBSET Waitx, \A w \in F : state[w] = "timeout",
           state' = [w \in Waitx |-> IF w \in F THEN "free" ELSE state[w]],
           SameWaits,
           UNCHANGED <<owner, waitx, timer, ready, expired>>
    PROVE  Owned' /\ Owning' /\ ReadyOnce'
<1> USE EventAssumption
    DEF EvInv, Waits, TimedOut, InQueue
<1>1. \A w \in Waitx : state'[w] = state[w] \/ (state[w] = "timeout" /\ state'[w] = "free")
  OBVIOUS
<1>2. \A c \in Coroutine :
         /\ Waits(c)' <=> Waits(c)
         /\ TimedOut(c)' <=> TimedOut(c)
         /\ Waits(c) => waitx[c] \in Waitx /\ pc'[c] = pc[c]
  <2> SUFFICES ASSUME NEW c \in Coroutine
               PROVE  /\ Waits(c)' <=> Waits(c)
                      /\ TimedOut(c)' <=> TimedOut(c)
                      /\ Waits(c) => waitx[c] \in Waitx /\ pc'[c] = pc[c]
    OBVIOUS
  <2>1. pc'[c] = pc[c] \/ {pc[c], pc'[c]} \subseteq {"idle", "sig"}
    BY DEF SameWaits
  <2>2. Waits(c) => waitx[c] \in Waitx
    BY DEF Owning, EvTypeOK, TypeOK
  <2> QED
    BY <2>1, <2>2
<1>3. Owned'
  BY <1>1, <1>2 DEF Owned, SameWaits
<1>4. Owning'
  BY <1>1, <1>2 DEF Owning, ReadyOnce, EvTypeOK, TypeOK
<1>5. ReadyOnce'
  <2>1. \A c \in Coroutine : pc[c] \in {"enq", "susp"} <=> pc'[c] \in {"enq", "susp"}
    BY DEF SameWaits
  <2>2. \A s \in Sched : \A c \in Range(expired[s]) : c \in Coroutine
    BY DEF Range, EvTypeOK, TypeOK
  <2> QED
    BY <1>1, <1>2, <2>1, <2>2 DEF ReadyOnce
<1> QED
  BY <1>3, <1>4, <1>5

(* signal() makes a coroutine ready, and may free waitx_t as well.         *)
LEMMA MakesReady ==
    ASSUME EvInv, NEW F \in SUBSET Waitx, \A w \in F : state[w] = "timeout",
           NEW x \in Waitx, state[x] = "wait",
           state' = [w \in Waitx |-> IF w = x THEN "ready"
                                     ELSE IF w \in F THEN "free"
                                     ELSE state[w]],
           AddReady(owner[x]),
           SameWaits,
           UNCHANGED <<owner, waitx, timer, expired>>
    PROVE  /\ Owned' /\ Owning' /\ ReadyOnce'
           /\ owner[x] \in Coroutine /\ ready' \in [Sched -> Seq(Coroutine)]
<1> USE EventAssumption
    DEF EvInv, Waits, TimedOut, InQueue
<1> DEFINE d == owner[x]
           q == ready[SchedOf[d]]
<1>1. /\ d \in Coroutine /\ waitx[d] = x /\ SchedOf[d] \in Sched
      /\ pc[d] \in {"enq", "susp", "back"} /\ ~ TimedOut(d)
  BY DEF Owned
<1>2. pc[d] \in {"enq", "susp"} /\ pc'[d] = pc[d] /\ ~ InQueue(d, expired)
  BY <1>1 DEF Owning, SameWaits
<1>3. q \in Seq(Coroutine) /\ IsInjective(q) /\ d \notin Range(q)
  BY <1>1 DEF ReadyOnce, EvTypeOK, TypeOK
<1>4. /\ Append(q, d) \in Seq(Coroutine) /\ IsInjective(Append(q, d))
      /\ Range(Append(q, d)) = Range(q) \cup {d}
  BY <1>1, <1>3, AppendParts
<1>5. ready' = [ready EXCEPT ![SchedOf[d]] = Append(q, d)]
  BY DEF AddReady
<1>6. \A w \in Waitx :
        /\ w = x => state'[w] = "ready"
        /\ w # x => state'[w] = state[w] \/ (state[w] = "timeout" /\ state'[w] = "free")
  OBVIOUS
<1>7. \A c \in Coroutine :
         /\ Waits(c)' <=> Waits(c)
         /\ TimedOut(c)' <=> TimedOut(c)
         /\ Waits(c) => waitx[c] \in Waitx /\ pc'[c] = pc[c]
         /\ Waits(c) /\ ~ TimedOut(c) /\ c # d => waitx[c] # x
  <2> SUFFICES ASSUME NEW c \in Coroutine
               PROVE  /\ Waits(c)' <=> Waits(c)
                      /\ TimedOut(c)' <=> TimedOut(c)
                      /\ Waits(c) => waitx[c] \in Waitx /\ pc'[c] = pc[c]
                      /\ Waits(c) /\ ~ TimedOut(c) /\ c # d => waitx[c] # x
    OBVIOUS
  <2>1. pc'[c] = pc[c] \/ (pc[c] \in {"idle", "sig"} /\ pc'[c] \in {"idle", "sig"})
    BY DEF SameWaits
  <2>2. Waits(c) => waitx[c] \in Waitx
    BY DEF Owning, EvTypeOK, TypeOK
  <2>3. Waits(c) /\ ~ TimedOut(c) => owner[waitx[c]] = c
    BY DEF Owning
  <2> QED
    BY <2>1, <2>2, <2>3
<1>8. Owned'
  BY <1>1, <1>2, <1>6, <1>7 DEF Owned, SameWaits
<1>9. Owning'
  <2>1. \A c \in Coroutine : pc[c] = "back" => ~ TimedOut(c)
    BY DEF ReadyOnce, EvTypeOK, TypeOK
  <2> QED
    BY <1>1, <1>2, <1>6, <1>7, <2>1 DEF Owning
<1>10. ReadyOnce'
  <2>1. \A c \in Coroutine : pc[c] \in {"enq", "susp"} <=> pc'[c] \in {"enq", "susp"}
    BY DEF SameWaits
  <2>2. \A s \in Sched : \A c \in Range(expired[s]) : c \in Coroutine
    BY DEF Range, EvTypeOK, TypeOK
  <2>3. \A s \in Sched : /\ s # SchedOf[d] => ready'[s] = ready[s]
                         /\ s = SchedOf[d] => ready'[s] = Append(q, d)
    BY <1>1, <1>5 DEF EvTypeOK, TypeOK
  <2> HIDE DEF d, q
  <2>4. \A s \in Sched : IsInjective(ready'[s]) /\ IsInjective(expired'[s])
    <3> SUFFICES ASSUME NEW s \in Sched
                 PROVE  IsInjective(ready'[s]) /\ IsInjective(expired'[s])
      OBVIOUS
    <3>1. IsInjective(ready[s]) /\ IsInjective(expired[s])
      BY DEF ReadyOnce
    <3>2. ready'[s] = ready[s] \/ ready'[s] = Append(q, d)
      BY <2>3
    <3> QED
      BY <1>4, <3>1, <3>2
  <2>5. \A s \in Sched : \A c \in Range(expired[s]) :
           SchedOf[c] = s /\ pc'[c] = "susp" /\ c \notin timer'
    BY <1>7, <2>2 DEF ReadyOnce
  <2>6. ASSUME NEW s \in Sched, NEW c \in Coroutine
        PROVE  c \in Range(ready'[s]) <=>
                 /\ SchedOf[c] = s /\ pc'[c] \in {"enq", "susp"}
                 /\ ~ InQueue(c, expired) /\ state'[waitx[c]] = "ready"
    <3>1. CASE c = d
      <4>1. c \in Range(ready'[s]) <=> SchedOf[c] = s
        BY <1>1, <1>4, <2>3, <3>1 DEF ReadyOnce
      <4> QED
        BY <1>1, <1>2, <1>6, <3>1, <4>1
    <3>2. CASE c # d
      <4>1. c \in Range(ready'[s]) <=> c \in Range(ready[s])
        BY <1>1, <1>4, <2>3, <3>2 DEF q
      <4>2. pc[c] \in {"enq", "susp"} /\ ~ InQueue(c, expired) =>
               (state'[waitx[c]] = "ready" <=> state[waitx[c]] = "ready")
        BY <1>6, <1>7, <3>2
      <4> QED
        BY <2>1, <4>1, <4>2 DEF ReadyOnce
    <3> QED
      BY <3>1, <3>2
  <2> QED
    BY <2>4, <2>5, <2>6 DEF ReadyOnce
<1>11. ready' \in [Sched -> Seq(Coroutine)]
  BY <1>4, <1>5 DEF EvTypeOK, TypeOK
<1> QED
  BY <1>1, <1>8, <1>9, <1>10, <1>11

(* signal() takes waitx_t out of the list it goes through, or makes what   *)
(* is left of _wc that list.                                               *)
LEMMA TakesOut ==
    ASSUME EvInv, NEW p \in Proc, NEW T, NEW q \in Seq(Waitx), IsInjective(q),
           h' = [h EXCEPT ![p] = q],
           \/ wc' = wc /\ T \subseteq Range(h[p]) /\ Range(q) = Range(h[p]) \ T
           \/ wc' = <<>> /\ h[p] = <<>> /\ T \subseteq Range(wc) /\ Range(q) = Range(wc) \ T,
           \A w \in Waitx : state'[w] \in {"wait", "timeout"} <=>
                               state[w] \in {"wait", "timeout"} /\ w \notin T,
           pc'[p] = "sig" <=> q # <<>>,
           \A r \in Proc : r # p => (pc'[r] = "sig" <=> pc[r] = "sig")
    PROVE  InOneList' /\ wc' \in Seq(Waitx) /\ h' \in [Proc -> Seq(Waitx)]
<1> USE DEF EvInv
<1>1. wc' \in Seq(Waitx) /\ h' \in [Proc -> Seq(Waitx)]
  BY EmptySeq DEF EvTypeOK, TypeOK
<1>2. h'[p] = q /\ \A r \in Proc : r # p => h'[r] = h[r]
  BY DEF EvTypeOK, TypeOK
<1>3. Range(<<>>) = {} /\ IsInjective(<<>>)
  BY DEF Range, IsInjective
<1>4. /\ Range(wc) \cap Range(h[p]) = {} /\ IsInjective(wc)
      /\ \A r \in Proc : r # p => /\ Range(h[r]) \cap Range(h[p]) = {}
                                  /\ Range(h[r]) \cap Range(wc) = {}
      /\ \A r, s \in Proc : r # s => Range(h[r]) \cap Range(h[s]) = {}
      /\ \A r \in Proc : IsInjective(h[r])
  BY DEF InOneList
<1>5. /\ IsInjective(wc') /\ Range(wc') \cap Range(q) = {}
      /\ Range(wc') \cup Range(q) = (Range(wc) \cup Range(h[p])) \ T
      /\ T \subseteq Range(wc) \cup Range(h[p])
  BY <1>3, <1>4
<1>6. Queued' = Queued \ T
  <2>1. ASSUME NEW w
        PROVE  w \in Queued' <=> w \in Queued \ T
    <3>1. w \in Queued' <=> w \in Range(wc') \/ \E r \in Proc : w \in Range(h'[r])
      BY DEF Queued
    <3>2. w \in Queued <=> w \in Range(wc) \/ \E r \in Proc : w \in Range(h[r])
      BY DEF Queued
    <3>3. w \in T => \A r \in Proc : r # p => w \notin Range(h[r])
      BY <1>4, <1>5
    <3> QED
      BY <1>2, <1>5, <3>1, <3>2, <3>3
  <2> QED
    BY <2>1
<1>7. \A w \in Waitx : (w \in Queued <=> state[w] \in {"wait", "timeout"})'
  BY <1>6 DEF InOneList
<1>8. Range(q) \subseteq Range(wc) \cup Range(h[p])
  OBVIOUS
<1>9. Range(wc') \subseteq Range(wc)
  BY <1>3
<1>10. /\ \A r \in Proc : (IsInjective(h[r]) /\ Range(wc) \cap Range(h[r]) = {})'
       /\ \A r, s \in Proc : r # s => (Range(h[r]) \cap Range(h[s]) = {})'
  <2>1. \A r \in Proc : r # p => Range(q) \cap Range(h[r]) = {}
    BY <1>4, <1>8
  <2>2. \A r \in Proc : (IsInjective(h[r]) /\ Range(wc) \cap Range(h[r]) = {})'
    <3> SUFFICES ASSUME NEW r \in Proc
                 PROVE  IsInjective(h'[r]) /\ Range(wc') \cap Range(h'[r]) = {}
      OBVIOUS
    <3>1. CASE r = p
      BY <1>2, <1>5, <3>1
    <3>2. CASE r # p
      BY <1>2, <1>4, <1>9, <3>2
    <3> QED
      BY <3>1, <3>2
  <2>3. \A r, s \in Proc : r # s => (Range(h[r]) \cap Range(h[s]) = {})'
    BY <1>2, <1>4, <2>1
  <2> QED
    BY <2>2, <2>3
<1>11. \A r \in Proc : (pc[r] = "sig" <=> h[r] # <<>>)'
  BY <1>2 DEF InOneList
<1> QED
  BY <1>1, <1>5, <1>7, <1>10, <1>11 DEF InOneList

(* signal() goes on with its list.                                         *)
LEMMA StepOfSignalNext ==
    ASSUME EvInv, Keeps, NEW p \in Proc, SignalNext(p)
    PROVE  EvInv'
<1> USE EventAssumption
    DEF EvInv, Keeps, OnCpu, Goto, event
<1> DEFINE w == Head(h[p])
<1>1. /\ OnCpu(p) /\ pc[p] = "sig"
      /\ h' = [h EXCEPT ![p] = Tail(h[p])]
      /\ pc' = [pc EXCEPT ![p] = IF Len(h[p]) = 1 THEN "idle" ELSE "sig"]
      /\ UNCHANGED <<event, owner, waitx, timer, expired, running>>
  BY DEF SignalNext
<1>2. h[p] \in Seq(Waitx) /\ h[p] # <<>> /\ IsInjective(h[p])
  BY <1>1 DEF InOneList, EvTypeOK, TypeOK
<1>3. /\ w \in Waitx /\ Tail(h[p]) \in Seq(Waitx) /\ w \in Range(h[p])
      /\ IsInjective(Tail(h[p])) /\ Range(Tail(h[p])) = Range(h[p]) \ {w}
      /\ Tail(h[p]) = <<>> <=> Len(h[p]) = 1
  BY <1>2, TailParts
<1>4. /\ pc'[p] = IF Len(h[p]) = 1 THEN "idle" ELSE "sig"
      /\ \A r \in Proc : r # p => pc'[r] = pc[r]
      /\ pc' \in [Proc -> PcState]
  BY <1>1 DEF EvTypeOK, TypeOK, PcState
<1>5. SameWaits
  BY <1>1, <1>4 DEF SameWaits, Proc
<1>6. state[w] \in {"wait", "timeout"}
  <2>1. w \in Queued
    BY <1>3 DEF Queued
  <2> QED
    BY <1>3, <2>1 DEF InOneList
<1>7. /\ Owned' /\ Owning' /\ ReadyOnce' /\ ready' \in [Sched -> Seq(Coroutine)]
      /\ state' \in [Waitx -> {"free", "wait", "ready", "timeout"}]
      /\ state'[w] \notin {"wait", "timeout"}
      /\ \A v \in Waitx : v # w => state'[v] = state[v]
  <2>1. CASE state[w] = "wait"
    <3>1. state' = [state EXCEPT ![w] = "ready"] /\ AddReady(owner[w])
      BY <2>1 DEF SignalNext
    <3> HIDE DEF w
    <3>2. state' = [v \in Waitx |-> IF v = w THEN "ready"
                                    ELSE IF v \in {} THEN "free" ELSE state[v]]
      BY <3>1 DEF EvTypeOK, TypeOK
    <3>3. Owned' /\ Owning' /\ ReadyOnce' /\ ready' \in [Sched -> Seq(Coroutine)]
      <4>1. {} \in SUBSET Waitx /\ \A v \in {} : state[v] = "timeout"
        OBVIOUS
      <4>2. UNCHANGED <<owner, waitx, timer, expired>>
        BY <1>1
      <4> QED
        BY <1>3, <1>5, <2>1, <3>1, <3>2, <4>1, <4>2, MakesReady
    <3> QED
      BY <1>3, <3>2, <3>3 DEF EvTypeOK, TypeOK
  <2>2. CASE state[w] = "timeout"
    <3>1. state' = [state EXCEPT ![w] = "free"] /\ UNCHANGED ready
      BY <2>2 DEF SignalNext
    <3> HIDE DEF w
    <3>2. state' = [v \in Waitx |-> IF v \in {w} THEN "free" ELSE state[v]]
      BY <3>1 DEF EvTypeOK, TypeOK
    <3>3. Owned' /\ Owning' /\ ReadyOnce'
      BY <1>1, <1>3, <1>5, <2>2, <3>1, <3>2, FreesLate
    <3> QED
      BY <1>3, <3>1, <3>2, <3>3 DEF EvTypeOK, TypeOK
  <2> QED
    BY <1>6, <2>1, <2>2
<1> HIDE DEF w
<1>8. InOneList' /\ wc' \in Seq(Waitx) /\ h' \in [Proc -> Seq(Waitx)]
  <2>1. \A v \in Waitx : state'[v] \in {"wait", "timeout"} <=>
                            state[v] \in {"wait", "timeout"} /\ v \notin {w}
    BY <1>7
  <2>2. pc'[p] = "sig" <=> Tail(h[p]) # <<>>
    BY <1>3, <1>4
  <2>3. wc' = wc /\ {w} \subseteq Range(h[p])
    BY <1>1, <1>3
  <2> QED
    BY <1>1, <1>3, <1>4, <2>1, <2>2, <2>3, TakesOut
<1>9. EvTypeOK'
  BY <1>1, <1>4, <1>7, <1>8 DEF EvTypeOK, TypeOK, Proc
<1>10. Runs'
  BY <1>1, <1>4 DEF Runs, Proc
<1>11. AllCounted'
  BY <1>1, <1>4, ThreadsKept DEF Proc
<1>12. WhoTimes'
  BY <1>1, <1>4, <1>7 DEF WhoTimes, Proc
<1> QED
  BY <1>7, <1>8, <1>9, <1>10, <1>11, <1>12

(* signal() finds threads waiting.                                         *)
LEMMA StepOfSignalThreads ==
    ASSUME EvInv, Keeps, NEW p \in Proc, SignalThreads(p)
    PROVE  EvInv'
<1> USE EventAssumption
    DEF EvInv, Keeps, OnCpu, heap, scheds
<1>1. /\ OnCpu(p) /\ pc[p] = "idle"
      /\ wt' = 0
      /\ newer' = newer \cup {t \in Thread : InWait(t)}
      /\ signaled' = (signaled /\ manualReset)
      /\ wc' = <<>>
      /\ h' = [h EXCEPT ![p] = wc]
      /\ pc' = [q \in Proc |-> IF q = p /\ wc # <<>> THEN "sig"
                               ELSE IF q \in Thread /\ pc[q] = "cv" THEN "woken"
                               ELSE pc[q]]
      /\ UNCHANGED <<manualReset, heap, waitx, scheds>>
  BY DEF SignalThreads
<1>2. /\ pc'[p] = IF wc # <<>> THEN "sig" ELSE "idle"
      /\ \A r \in Proc : r # p =>
            pc'[r] = IF r \in Thread /\ pc[r] = "cv" THEN "woken" ELSE pc[r]
      /\ pc' \in [Proc -> PcState]
  BY <1>1 DEF EvTypeOK, TypeOK, PcState
<1>3. SameWaits
  BY <1>1, <1>2 DEF SameWaits, Proc
<1>4. state' = [v \in Waitx |-> IF v \in {} THEN "free" ELSE state[v]]
  BY <1>1 DEF EvTypeOK, TypeOK
<1>5. Owned' /\ Owning' /\ ReadyOnce'
  BY <1>1, <1>3, <1>4, FreesLate
<1>6. InOneList' /\ wc' \in Seq(Waitx) /\ h' \in [Proc -> Seq(Waitx)]
  <2>1. h[p] = <<>> /\ wc \in Seq(Waitx) /\ IsInjective(wc)
    BY <1>1 DEF InOneList, EvTypeOK, TypeOK
  <2>2. \A v \in Waitx : state'[v] \in {"wait", "timeout"} <=>
                            state[v] \in {"wait", "timeout"} /\ v \notin {}
    BY <1>1
  <2>3. /\ pc'[p] = "sig" <=> wc # <<>>
        /\ \A r \in Proc : r # p => (pc'[r] = "sig" <=> pc[r] = "sig")
    BY <1>2
  <2>4. {} \subseteq Range(wc) /\ Range(wc) = Range(wc) \ {}
    OBVIOUS
  <2> QED
    BY <1>1, <2>1, <2>2, <2>3, <2>4, TakesOut
<1>7. EvTypeOK'
  BY <1>1, <1>2, <1>6 DEF EvTypeOK, TypeOK, Proc
<1>8. Runs'
  BY <1>1, <1>2 DEF Runs, Proc
<1>9. AllCounted'
  <2>1. Counted' = {}
    BY <1>1, <1>2 DEF Counted, InWait, Proc
  <2> QED
    BY <1>1, <2>1, FS_EmptySet DEF AllCounted
<1>10. WhoTimes'
  BY <1>1, <1>2 DEF WhoTimes, Proc, InWait
<1> QED
  BY <1>5, <1>6, <1>7, <1>8, <1>9, <1>10

(* signal() finds a coroutine waiting, and no thread.                      *)
LEMMA StepOfSignalCoroutine ==
    ASSUME EvInv, Keeps, NEW p \in Proc, SignalCoroutine(p)
    PROVE  EvInv'
<1> USE EventAssumption
    DEF EvInv, Keeps, OnCpu, Goto
<1>1. PICK i \in FirstWaiting :
        /\ state' = [w \in Waitx |-> IF w = wc[i] THEN "ready"
                                     ELSE IF \E j \in 1..(i - 1) : wc[j] = w THEN "free"
                                     ELSE state[w]]
        /\ AddReady(owner[wc[i]])
        /\ h' = [h EXCEPT ![p] = SubSeq(wc, i + 1, Len(wc))]
        /\ pc' = [pc EXCEPT ![p] = IF i < Len(wc) THEN "sig" ELSE "idle"]
  BY DEF SignalCoroutine
<1>2. /\ OnCpu(p) /\ pc[p] = "idle"
      /\ wc' = <<>>
      /\ signaled' = (signaled /\ manualReset)
      /\ UNCHANGED <<manualReset, wt, newer, owner, waitx, timer, expired, running>>
  BY DEF SignalCoroutine
<1> DEFINE x == wc[i]
           F == {wc[j] : j \in 1..(i - 1)}
           T == {wc[j] : j \in 1..i}
           q == SubSeq(wc, i + 1, Len(wc))
<1>3. /\ wc \in Seq(Waitx) /\ IsInjective(wc) /\ DOMAIN wc = 1..Len(wc)
      /\ Len(wc) \in Nat /\ i \in 1..Len(wc) /\ i \in 0..Len(wc) /\ h[p] = <<>>
  BY <1>2, LenProperties DEF InOneList, EvTypeOK, TypeOK, FirstWaiting
<1>4. x \in Waitx /\ state[x] = "wait" /\ T \subseteq Range(wc)
  BY <1>3, ElementOfSeq DEF Range, FirstWaiting
<1>5. T = F \cup {x}
  <2>1. 1..i = (1..(i - 1)) \cup {i}
    BY <1>3
  <2> QED
    BY <2>1
<1>6. F \in SUBSET Waitx /\ \A w \in F : state[w] = "timeout"
  <2> SUFFICES ASSUME NEW j \in 1..(i - 1)
               PROVE  wc[j] \in Waitx /\ state[wc[j]] = "timeout"
    OBVIOUS
  <2>1. j \in 1..Len(wc) /\ state[wc[j]] # "wait"
    BY <1>3 DEF FirstWaiting
  <2>2. wc[j] \in Waitx /\ wc[j] \in Range(wc)
    BY <1>3, <2>1, ElementOfSeq DEF Range
  <2>3. wc[j] \in Queued
    BY <2>2 DEF Queued
  <2> QED
    BY <2>1, <2>2, <2>3 DEF InOneList
<1>7. q \in Seq(Waitx) /\ IsInjective(q) /\ Range(q) = Range(wc) \ T /\ (q = <<>> <=> i = Len(wc))
  <2>1. wc \in Seq(Waitx) /\ IsInjective(wc) /\ i \in 0..Len(wc)
    BY <1>3
  <2>2. IsRest(SubSeq(wc, i + 1, Len(wc)), Waitx, wc, i)
    BY ONLY <2>1, DropParts
  <2> QED
    BY <2>2 DEF IsRest
<1>8. state' = [w \in Waitx |-> IF w = x THEN "ready" ELSE IF w \in F THEN "free" ELSE state[w]]
  <2>1. \A w : (\E j \in 1..(i - 1) : wc[j] = w) <=> w \in F
    OBVIOUS
  <2> HIDE DEF F
  <2> QED
    BY <1>1, <2>1
<1>9. AddReady(owner[x]) /\ h' = [h EXCEPT ![p] = q]
  BY <1>1
<1>10. /\ pc'[p] = IF q # <<>> THEN "sig" ELSE "idle"
       /\ \A r \in Proc : r # p => pc'[r] = pc[r]
       /\ pc' \in [Proc -> PcState]
  <2> HIDE DEF q
  <2>1. i < Len(wc) <=> q # <<>>
    BY <1>3, <1>7
  <2> QED
    BY <1>1, <2>1 DEF EvTypeOK, TypeOK, PcState
<1> HIDE DEF x, F, T, q
<1>11. SameWaits
  BY <1>2, <1>10 DEF SameWaits, Proc
<1>12. Owned' /\ Owning' /\ ReadyOnce' /\ ready' \in [Sched -> Seq(Coroutine)]
  <2>1. UNCHANGED <<owner, waitx, timer, expired>>
    BY <1>2
  <2> QED
    BY <1>4, <1>6, <1>8, <1>9, <1>11, <2>1, MakesReady
<1>13. InOneList' /\ wc' \in Seq(Waitx) /\ h' \in [Proc -> Seq(Waitx)]
  <2>1. \A v \in Waitx : state'[v] \in {"wait", "timeout"} <=>
                            state[v] \in {"wait", "timeout"} /\ v \notin T
    BY <1>5, <1>8
  <2>2. /\ pc'[p] = "sig" <=> q # <<>>
        /\ \A r \in Proc : r # p => (pc'[r] = "sig" <=> pc[r] = "sig")
    BY <1>10
  <2> QED
    BY <1>2, <1>3, <1>4, <1>7, <1>9, <2>1, <2>2, TakesOut
<1>14. state' \in [Waitx -> {"free", "wait", "ready", "timeout"}]
  BY <1>8 DEF EvTypeOK, TypeOK
<1>15. EvTypeOK'
  BY <1>2, <1>10, <1>12, <1>13, <1>14 DEF EvTypeOK, TypeOK, Proc
<1>16. Runs'
  BY <1>2, <1>10 DEF Runs, Proc
<1>17. AllCounted'
  BY <1>2, <1>10, ThreadsKept DEF Proc
<1>18. WhoTimes'
  BY <1>2, <1>8, <1>10 DEF WhoTimes, Proc
<1> QED
  BY <1>12, <1>13, <1>15, <1>16, <1>17, <1>18

(* signal() finds nobody waiting.                                          *)
LEMMA StepOfSignalNobody ==
    ASSUME EvInv, Keeps, NEW p \in Proc, SignalNobody(p)
    PROVE  EvInv'
<1> USE EventAssumption
    DEF EvInv, Keeps, OnCpu
<1> DEFINE F == Range(wc)
<1>1. /\ pc[p] = "idle"
      /\ \A i \in DOMAIN wc : state[wc[i]] # "wait"
      /\ signaled' = TRUE
      /\ wc' = <<>>
      /\ state' = [w \in Waitx |-> IF w \in F THEN "free" ELSE state[w]]
      /\ UNCHANGED <<manualReset, wt, newer, owner, waitx, scheds, pc, h>>
  BY DEF SignalNobody
<1>2. F \in SUBSET Waitx /\ \A w \in F : state[w] = "timeout"
  <2>1. F \subseteq Waitx
    BY LenProperties, ElementOfSeq DEF Range, EvTypeOK, TypeOK
  <2>2. \A w \in F : state[w] # "wait"
    BY <1>1 DEF Range
  <2>3. F \subseteq Queued
    BY DEF Queued
  <2> QED
    BY <2>1, <2>2, <2>3 DEF InOneList
<1>3. Range(<<>>) = {} /\ IsInjective(<<>>) /\ <<>> \in Seq(Waitx)
  BY EmptySeq DEF Range, IsInjective
<1> HIDE DEF F
<1>4. SameWaits
  BY <1>1 DEF SameWaits
<1>5. Owned' /\ Owning' /\ ReadyOnce'
  <2>1. UNCHANGED <<owner, waitx, timer, ready, expired>>
    BY <1>1 DEF scheds
  <2> QED
    BY <1>1, <1>2, <1>4, <2>1, FreesLate
<1>6. InOneList' /\ wc' \in Seq(Waitx) /\ h' \in [Proc -> Seq(Waitx)]
  <2>1. h[p] = <<>> /\ h' = [h EXCEPT ![p] = <<>>]
    BY <1>1 DEF InOneList, EvTypeOK, TypeOK
  <2>2. \A v \in Waitx : state'[v] \in {"wait", "timeout"} <=>
                            state[v] \in {"wait", "timeout"} /\ v \notin F
    BY <1>1
  <2>3. F \subseteq Range(wc) /\ Range(<<>>) = Range(wc) \ F
    BY <1>3 DEF F
  <2>4. /\ pc'[p] = "sig" <=> <<>> # <<>>
        /\ \A r \in Proc : r # p => (pc'[r] = "sig" <=> pc[r] = "sig")
    BY <1>1
  <2> QED
    BY <1>1, <1>3, <2>1, <2>2, <2>3, <2>4, TakesOut
<1>7. EvTypeOK'
  BY <1>1, <1>6 DEF EvTypeOK, TypeOK, scheds
<1>8. Runs' /\ AllCounted'
  BY <1>1, ThreadsKept DEF Runs, scheds
<1>9. WhoTimes'
  BY <1>1 DEF WhoTimes, scheds
<1> QED
  BY <1>5, <1>6, <1>7, <1>8, <1>9

-----------------------------------------------------------------------------
(* What goes on inside wait() and signal(), and in the schedulers, keeps   *)
(* the invariant.                                                          *)
LEMMA StepOfInside ==
    ASSUME EvInv, Keeps,
           \/ \E p \in Proc : SignalLocked(p)
           \/ \E c \in Coroutine : CoroutineStep(c) \/ Dispatch(c) \/ Leave(c)
           \/ \E t \in Thread : ThreadStep(t)
           \/ \E s \in Sched : SchedStep(s)
    PROVE  EvInv'
<1>1. ASSUME NEW p \in Proc, SignalLocked(p)
      PROVE  EvInv'
  BY <1>1, StepOfSignalThreads, StepOfSignalCoroutine, StepOfSignalNobody DEF SignalLocked
<1>2. ASSUME NEW c \in Coroutine, CoroutineStep(c) \/ Dispatch(c) \/ Leave(c)
      PROVE  EvInv'
  BY <1>2, StepOfWaitYield, StepOfWaitReturn, StepOfSignalNext, StepOfDispatch
     DEF CoroutineStep, Proc
<1>3. ASSUME NEW t \in Thread, ThreadStep(t)
      PROVE  EvInv'
  BY <1>3, StepOfThreadReturn, StepOfSignalNext DEF ThreadStep, Proc
<1>4. ASSUME NEW s \in Sched, SchedStep(s)
      PROVE  EvInv'
  BY <1>4, StepOfResumeReady, StepOfResumeExpired DEF SchedStep
<1> QED
  BY <1>1, <1>2, <1>3, <1>4

(* So does a step of an event that is used on its own, ...                 *)
LEMMA StepOfEvent ==
    ASSUME EvInv, Keeps, Next,
           part # "timed" => ~ \E t \in Thread : SpuriousWakeup(t)
    PROVE  EvInv'
<1>1. ASSUME NEW p \in Proc, WaitSignaled(p) \/ SignalLocked(p) \/ reset(p)
      PROVE  EvInv'
  <2>1. CASE WaitSignaled(p) \/ reset(p)
    <3>1. signaled' \in BOOLEAN
      BY <2>1 DEF WaitSignaled, reset, EvInv, EvTypeOK, TypeOK
    <3> QED
      BY <2>1, <3>1, StepOfMark DEF WaitSignaled, reset
  <2>2. CASE SignalLocked(p)
    BY <2>2, StepOfInside
  <2> QED
    BY <1>1, <2>1, <2>2
<1>2. ASSUME NEW c \in Coroutine,
             \/ WaitReuse(c) \/ WaitNew(c) \/ CoroutineStep(c)
             \/ CheckTimeout(c) \/ Dispatch(c) \/ Leave(c)
      PROVE  EvInv'
  <2>1. CASE WaitReuse(c)
    <3>1. PICK n \in 1..Len(wc) : TimedOutPrefix(n)
      BY <2>1 DEF WaitReuse
    <3>2. wc[1] \in Waitx /\ state[wc[1]] = "timeout"
      <4>1. wc \in Seq(Waitx) /\ Len(wc) \in Nat
        BY LenProperties DEF EvInv, EvTypeOK, TypeOK
      <4>2. 1 \in 1..n /\ 1 \in 1..Len(wc)
        BY <4>1
      <4> QED
        BY <3>1, <4>1, <4>2, ElementOfSeq DEF TimedOutPrefix
    <3>3. part = "timed"
      BY <3>2 DEF EvInv, WhoTimes
    <3> QED
      BY <2>1, <3>3, StepOfWaitReuse
  <2> QED
    BY <1>2, <2>1, StepOfWaitNew, StepOfCheckTimeout, StepOfInside
<1>3. ASSUME NEW t \in Thread,
             WaitThread(t) \/ SpuriousWakeup(t) \/ DeadlinePasses(t) \/ ThreadStep(t)
      PROVE  EvInv'
  <2>1. CASE SpuriousWakeup(t) \/ DeadlinePasses(t)
    <3>1. part = "timed"
      BY <2>1 DEF EvInv, WhoTimes, DeadlinePasses
    <3> QED
      BY <2>1, <3>1, StepOfThreadWakes
  <2> QED
    BY <1>3, <2>1, StepOfWaitThread, StepOfInside
<1>4. ASSUME NEW s \in Sched, SchedStep(s)
      PROVE  EvInv'
  BY <1>4, StepOfInside
<1> QED
  BY <1>1, <1>2, <1>3, <1>4 DEF Next

(* ... one of a wait group, ...                                            *)
LEMMA StepOfGroup ==
    ASSUME EvInv, part = "group", UNCHANGED part, WgNext
    PROVE  EvInv'
<1> USE WaitGroupAssumption
<1>1. timer = {}
  BY DEF EvInv, WhoTimes
<1>2. timer' = {} => Keeps
  BY DEF Keeps
<1>3. CASE UNCHANGED vars
  <2>1. signaled' \in BOOLEAN /\ timer' = {}
    BY <1>1, <1>3 DEF vars, event, scheds, EvInv, EvTypeOK, TypeOK
  <2> QED
    BY <1>2, <1>3, <2>1, StepOfMark DEF vars, event
<1>4. ASSUME NEW p \in Waiter, wait(p)
      PROVE  EvInv'
  <2>1. Keeps
    BY <1>1, <1>2, <1>4 DEF wait
  <2>2. CASE WaitSignaled(p)
    <3>1. signaled' \in BOOLEAN
      BY <2>2 DEF WaitSignaled, EvInv, EvTypeOK, TypeOK
    <3> QED
      BY <2>1, <2>2, <3>1, StepOfMark DEF WaitSignaled
  <2> QED
    BY <1>4, <2>1, <2>2, StepOfWaitNew, StepOfWaitThread DEF wait
<1>5. ASSUME NEW p \in Worker, signal(p)
      PROVE  EvInv'
  <2>1. SignalLocked(p) /\ p \in Proc
    BY <1>5 DEF signal
  <2>2. timer' = {}
    BY <1>1, <2>1 DEF SignalLocked, SignalThreads, SignalCoroutine, SignalNobody, scheds
  <2> QED
    BY <1>2, <2>1, <2>2, StepOfInside
<1>6. CASE Inside
  <2>1. timer' = {}
    BY <1>1, <1>6 DEF Inside, CoroutineStep, WaitYield, WaitReturn, SignalNext, Dispatch,
       Leave, ThreadStep, ThreadReturn, SchedStep, ResumeReady, ResumeExpired, scheds
  <2> QED
    BY <1>2, <1>6, <2>1, StepOfInside DEF Inside
<1>7. ASSUME NEW p \in Waiter, NEW S, add(p, S)
      PROVE  UNCHANGED vars
  BY <1>7 DEF add
<1>8. ASSUME NEW p \in Worker, done(p)
      PROVE  UNCHANGED vars
  BY <1>8 DEF done
<1>9. CASE NextRound
  BY <1>3, <1>9 DEF NextRound
<1> QED
  BY <1>3, <1>4, <1>5, <1>6, <1>7, <1>8, <1>9 DEF WgNext

(* ... and hence every step.                                               *)
LEMMA EventInvariant == MCSpec => []EvInv
<1>1. MCInit => EvInv
  <2> SUFFICES ASSUME MCInit PROVE EvInv
    OBVIOUS
  <2> USE EventAssumption
  <2>1. Init /\ part \in {"group", "timed", "untimed"}
    BY DEF MCInit, WgInit
  <2>2. Range(<<>>) = {} /\ IsInjective(<<>>)
    BY DEF Range, IsInjective
  <2>3. EvTypeOK
    BY <2>1, EmptySeq DEF Init, EvTypeOK, TypeOK, PcState, Proc
  <2>4. Queued = {}
    BY <2>1, <2>2 DEF Init, Queued
  <2>5. InOneList
    BY <2>1, <2>2, <2>4 DEF Init, InOneList
  <2>6. Owned /\ Owning /\ ReadyOnce
    BY <2>1, <2>2 DEF Init, Owned, Owning, ReadyOnce, Waits, TimedOut, InQueue, Proc
  <2>7. Runs /\ WhoTimes
    BY <2>1, <2>2 DEF Init, Runs, WhoTimes, Proc
  <2>8. AllCounted
    <3>1. Counted = {}
      BY <2>1 DEF Init, Counted, InWait, Proc
    <3> QED
      BY <2>1, <3>1, FS_EmptySet DEF Init, AllCounted
  <2> QED
    BY <2>3, <2>5, <2>6, <2>7, <2>8 DEF EvInv
<1>2. EvInv /\ [MCNext]_<<allVars, part>> => EvInv'
  <2> SUFFICES ASSUME EvInv, [MCNext]_<<allVars, part>>
               PROVE  EvInv'
    OBVIOUS
  <2>1. CASE UNCHANGED <<allVars, part>>
    <3>1. UNCHANGED <<vars, part>>
      BY <2>1 DEF allVars
    <3>2. Keeps /\ signaled' \in BOOLEAN
      BY <3>1 DEF Keeps, OthersRest, EvInv, EvTypeOK, TypeOK, WhoTimes, vars, event, scheds
    <3> QED
      BY <3>1, <3>2, StepOfMark DEF vars, event
  <2>2. CASE MCNext
    <3>1. CASE part = "group" /\ WgNext
      BY <2>2, <3>1, StepOfGroup DEF MCNext
    <3>2. CASE part = "timed" /\ Next /\ OthersRest
      BY <2>2, <3>2, StepOfEvent DEF MCNext, Keeps
    <3>3. CASE part = "untimed" /\ Next /\ NoTimeouts
      BY <2>2, <3>3, StepOfEvent DEF MCNext, Keeps, NoTimeouts
    <3> QED
      BY <2>2, <3>1, <3>2, <3>3 DEF MCNext
  <2> QED
    BY <2>1, <2>2
<1> QED
  BY <1>1, <1>2, PTL DEF MCSpec

(* Two lists with nothing in common, one after the other.                  *)
LEMMA ConcatParts ==
    ASSUME NEW S, NEW q \in Seq(S), NEW r \in Seq(S), IsInjective(q), IsInjective(r),
           Range(q) \cap Range(r) = {}
    PROVE  IsInjective(q \o r) /\ Range(q \o r) \subseteq Range(q) \cup Range(r)
<1>1. /\ Len(q) \in Nat /\ DOMAIN q = 1..Len(q)
      /\ Len(r) \in Nat /\ DOMAIN r = 1..Len(r)
      /\ q \o r \in Seq(S) /\ Len(q \o r) = Len(q) + Len(r)
      /\ \A i \in 1..(Len(q) + Len(r)) :
            (q \o r)[i] = IF i <= Len(q) THEN q[i] ELSE r[i - Len(q)]
  BY LenProperties, ConcatProperties
<1>2. DOMAIN (q \o r) = 1..(Len(q) + Len(r))
  BY <1>1, LenProperties
<1> DEFINE e == q \o r
<1> HIDE DEF e
<1>3. ASSUME NEW i \in DOMAIN e
      PROVE  \/ i \in DOMAIN q /\ e[i] = q[i] /\ e[i] \in Range(q)
             \/ i > Len(q) /\ i - Len(q) \in DOMAIN r /\ e[i] = r[i - Len(q)] /\ e[i] \in Range(r)
  <2>1. CASE i <= Len(q)
    <3>1. i \in DOMAIN q /\ e[i] = q[i]
      BY <1>1, <1>2, <2>1 DEF e
    <3> QED
      BY <3>1 DEF Range
  <2>2. CASE ~ i <= Len(q)
    <3>1. i - Len(q) \in DOMAIN r /\ e[i] = r[i - Len(q)] /\ i > Len(q)
      BY <1>1, <1>2, <2>2 DEF e
    <3> QED
      BY <3>1 DEF Range
  <2> QED
    BY <2>1, <2>2
<1>4. ASSUME NEW i \in DOMAIN e, NEW j \in DOMAIN e, e[i] = e[j]
      PROVE  i = j
  <2>1. \/ i \in DOMAIN q /\ j \in DOMAIN q /\ q[i] = q[j]
        \/ /\ i > Len(q) /\ j > Len(q)
           /\ i - Len(q) \in DOMAIN r /\ j - Len(q) \in DOMAIN r
           /\ r[i - Len(q)] = r[j - Len(q)]
    BY <1>3, <1>4
  <2>2. i = j \/ (i > Len(q) /\ j > Len(q) /\ i - Len(q) = j - Len(q))
    BY <2>1 DEF IsInjective
  <2>3. i \in Nat /\ j \in Nat
    BY <1>1, <1>2 DEF e
  <2> QED
    BY <1>1, <2>2, <2>3
<1>5. Range(e) \subseteq Range(q) \cup Range(r)
  <2>1. \A v \in Range(e) : \E i \in DOMAIN e : v = e[i]
    BY DEF Range
  <2> QED
    BY <1>3, <2>1
<1> QED
  BY <1>4, <1>5 DEF e, IsInjective

(* A waiter is resumed once, by a signal or by the timer, and its waitx_t  *)
(* is freed once, by the last who uses it: event_impl::wait, signal and    *)
(* TimerManager::check_timeout.                                            *)
THEOREM ResumedOnce == MCSpec => []ResumedAndFreedOnce
<1>1. EvInv => ResumedAndFreedOnce
  <2> SUFFICES ASSUME EvInv PROVE ResumedAndFreedOnce
    OBVIOUS
  <2> USE DEF EvInv
  <2>1. WokenOnce
    <3> SUFFICES ASSUME NEW s \in Sched
                 PROVE  /\ IsInjective(ready[s] \o expired[s])
                        /\ \A c \in Range(ready[s] \o expired[s]) : pc[c] \in {"enq", "susp"}
      BY DEF WokenOnce
    <3>1. /\ ready[s] \in Seq(Coroutine) /\ expired[s] \in Seq(Coroutine)
          /\ IsInjective(ready[s]) /\ IsInjective(expired[s])
      BY DEF ReadyOnce, EvTypeOK, TypeOK
    <3>2. Range(ready[s]) \subseteq Coroutine
      BY <3>1, LenProperties, ElementOfSeq DEF Range
    <3>3. \A c \in Range(ready[s]) : c \notin Range(expired[s]) /\ pc[c] \in {"enq", "susp"}
      BY <3>2 DEF ReadyOnce, InQueue
    <3>4. \A c \in Range(expired[s]) : pc[c] = "susp"
      BY DEF ReadyOnce
    <3>5. /\ IsInjective(ready[s] \o expired[s])
          /\ Range(ready[s] \o expired[s]) \subseteq Range(ready[s]) \cup Range(expired[s])
      <4>1. Range(ready[s]) \cap Range(expired[s]) = {}
        BY <3>3
      <4> QED
        BY <3>1, <4>1, ConcatParts
    <3> QED
      BY <3>3, <3>4, <3>5
  <2>2. HeapSafe
    BY DEF HeapSafe, InOneList, Owned
  <2> QED
    BY <2>1, <2>2 DEF ResumedAndFreedOnce
<1> QED
  BY <1>1, EventInvariant, PTL

(* On an event without timeouts no coroutine sleeps for good in wait(),    *)
(* and wait() returns true only to those a signal found.                   *)
THEOREM SleepersWake == MCSpec => []WakeupsSignaled
<1>1. EvInv => WakeupsSignaled
  <2> SUFFICES ASSUME EvInv, part = "untimed"
               PROVE  SuspendedCanWake /\ TrueOnlyIfSignaled
    BY DEF WakeupsSignaled
  <2> USE DEF EvInv
  <2>1. ASSUME NEW c \in Coroutine, pc[c] = "susp"
        PROVE  InQueue(c, ready) \/ \E w \in Queued : state[w] = "wait" /\ owner[w] = c
    <3>1. SchedOf[c] \in Sched /\ ~ InQueue(c, expired)
      BY EventAssumption DEF WhoTimes, InQueue, Range
    <3>2. Waits(c) /\ ~ TimedOut(c)
      BY <2>1, <3>1 DEF Waits, TimedOut
    <3>3. /\ owner[waitx[c]] = c /\ state[waitx[c]] \in {"wait", "ready"}
          /\ waitx[c] \in Waitx
      BY <3>2 DEF Owning, EvTypeOK, TypeOK
    <3>4. CASE state[waitx[c]] = "ready"
      BY <2>1, <3>1, <3>4 DEF ReadyOnce, InQueue
    <3>5. CASE state[waitx[c]] = "wait"
      <4>1. waitx[c] \in Queued
        BY <3>3, <3>5 DEF InOneList
      <4> QED
        BY <3>3, <3>5, <4>1
    <3> QED
      BY <3>3, <3>4, <3>5
  <2>2. SuspendedCanWake
    BY <2>1 DEF SuspendedCanWake
  <2>3. TrueOnlyIfSignaled
    BY DEF TrueOnlyIfSignaled, Owning, WhoTimes
  <2> QED
    BY <2>2, <2>3
<1> QED
  BY <1>1, EventInvariant, PTL

(* signal() marks the event, or makes somebody new return true.            *)
THEOREM SignalsAnswered == MCSpec => NoSignalLost
<1>1. EvInv /\ [MCNext]_<<allVars, part>> => [part = "untimed" => SignalAnswered]_vars
  <2> SUFFICES ASSUME EvInv, part = "untimed", NEW p \in Proc, SignalLocked(p)
               PROVE  signaled' \/ \E q \in Proc : q \in Answered' /\ q \notin Answered
    BY DEF SignalAnswered
  <2> USE EventAssumption DEF EvInv
  <2>1. CASE SignalThreads(p)
    <3>1. PICK t \in Thread : pc[t] = "cv"
      BY <2>1 DEF SignalThreads, WhoTimes, EvTypeOK, TypeOK
    <3>2. t \in newer' /\ pc'[t] = "woken"
      BY <2>1, <3>1 DEF SignalThreads, InWait, Proc
    <3>3. t \in Answered' /\ t \notin Answered
      BY <3>1, <3>2 DEF Answered
    <3> QED
      BY <3>3 DEF Proc
  <2>2. CASE SignalCoroutine(p)
    <3>1. PICK i \in FirstWaiting :
             state' = [w \in Waitx |-> IF w = wc[i] THEN "ready"
                                       ELSE IF \E j \in 1..(i - 1) : wc[j] = w THEN "free"
                                       ELSE state[w]]
      BY <2>2 DEF SignalCoroutine
    <3>2. waitx' = waitx
      BY <2>2 DEF SignalCoroutine
    <3>3. wc[i] \in Waitx /\ state[wc[i]] = "wait"
      BY LenProperties, ElementOfSeq DEF FirstWaiting, EvTypeOK, TypeOK
    <3> DEFINE c == owner[wc[i]]
    <3>4. c \in Coroutine /\ waitx[c] = wc[i]
      BY <3>3 DEF Owned
    <3>5. waitx[c] # None /\ state'[waitx[c]] = "ready"
      BY <3>1, <3>3, <3>4
    <3>6. c \in Answered'
      BY <3>2, <3>4, <3>5 DEF Answered
    <3>7. c \notin Answered
      BY <3>3, <3>4 DEF Answered, EvTypeOK, TypeOK
    <3> QED
      BY <3>4, <3>6, <3>7 DEF Proc
  <2>3. CASE SignalNobody(p)
    BY <2>3 DEF SignalNobody
  <2> QED
    BY <2>1, <2>2, <2>3 DEF SignalLocked
<1> QED
  BY <1>1, EventInvariant, PTL DEF MCSpec, NoSignalLost

-----------------------------------------------------------------------------
(* Wait groups whose workers are all added before one of them is run.      *)

(* As long as no signal has come, those inside only go to sleep.           *)
LEMMA SilenceInside ==
    ASSUME EvInv, WgInv, part = "group", UNCHANGED part, Inside
    PROVE  WgInv'
<1> USE EventAssumption, WaitGroupAssumption DEF EvInv
<1>1. /\ UNCHANGED <<manualReset, signaled, group>>
      /\ UNCHANGED part
  BY DEF Inside, CoroutineStep, WaitYield, WaitReturn, SignalNext, Dispatch,
     Leave, ThreadStep, ThreadReturn, SchedStep, ResumeReady, ResumeExpired, event
<1>2. \A c \in Coroutine : ~ TimedOut(c)
  <2>1. \A c \in Coroutine : Range(expired[SchedOf[c]]) = {} /\ pc[c] # "late"
    BY DEF WhoTimes, Range, Proc
  <2> QED
    BY <2>1 DEF TimedOut, InQueue
<1>3. \A p \in Proc : pc'[p] \notin {"idle", "sig"} => pc[p] \notin {"idle", "sig"}
  <2>1. ASSUME NEW c \in Coroutine, CoroutineStep(c) \/ Dispatch(c) \/ Leave(c)
        PROVE  \A p \in Proc : pc'[p] \notin {"idle", "sig"} => pc[p] \notin {"idle", "sig"}
    BY <2>1 DEF CoroutineStep, WaitYield, WaitReturn, SignalNext, Dispatch, Leave, Goto,
       EvTypeOK, TypeOK, Proc
  <2>2. ASSUME NEW t \in Thread, ThreadStep(t)
        PROVE  \A p \in Proc : pc'[p] \notin {"idle", "sig"} => pc[p] \notin {"idle", "sig"}
    BY <2>2 DEF ThreadStep, ThreadReturn, SignalNext, Goto, EvTypeOK, TypeOK, Proc
  <2>3. ASSUME NEW s \in Sched, SchedStep(s)
        PROVE  \A p \in Proc : pc'[p] \notin {"idle", "sig"} => pc[p] \notin {"idle", "sig"}
    <3>1. CASE ResumeReady(s)
      BY <3>1 DEF ResumeReady, Goto, EvTypeOK, TypeOK, Proc
    <3>2. CASE ResumeExpired(s)
      BY <3>2 DEF ResumeExpired, WhoTimes
    <3> QED
      BY <2>3, <3>1, <3>2 DEF SchedStep
  <2> QED
    BY <2>1, <2>2, <2>3 DEF Inside
<1>4. ASSUME Silent
      PROVE  /\ UNCHANGED <<state, h, asked>>
             /\ \A t \in Thread : pc'[t] # "woken"
             /\ \A p \in Proc : pc[p] # "idle" => pc'[p] # "idle"
  <2>1. \A c \in Coroutine : pc[c] # "back" /\ pc[c] # "late"
    <3> SUFFICES ASSUME NEW c \in Coroutine
                 PROVE  pc[c] # "back" /\ pc[c] # "late"
      OBVIOUS
    <3>1. pc[c] = "back" => waitx[c] \in Waitx /\ state[waitx[c]] = "ready"
      BY DEF Owning, Waits, EvTypeOK, TypeOK
    <3> QED
      BY <1>4, <3>1 DEF Silent, WhoTimes, Proc
  <2>2. \A p \in Proc : ~ SignalNext(p)
    BY <1>4 DEF Silent, SignalNext, InOneList
  <2>3. \A s \in Sched : ~ SchedStep(s)
    <3> SUFFICES ASSUME NEW s \in Sched, SchedStep(s)
                 PROVE  FALSE
      OBVIOUS
    <3>1. CASE ResumeReady(s)
      <4>1. ready[s] \in Seq(Coroutine) /\ ready[s] # <<>>
        BY <3>1 DEF ResumeReady, EvTypeOK, TypeOK
      <4>2. Head(ready[s]) \in Coroutine /\ Head(ready[s]) \in Range(ready[s])
        BY <4>1, TailParts
      <4> DEFINE c == Head(ready[s])
      <4> HIDE DEF c
      <4>3. pc[c] \in {"enq", "susp"} /\ state[waitx[c]] = "ready"
        BY <4>2 DEF ReadyOnce, c
      <4>4. waitx[c] \in Waitx
        BY <4>2, <4>3 DEF Owning, Waits, EvTypeOK, TypeOK, c
      <4> QED
        BY <1>4, <4>3, <4>4 DEF Silent
    <3>2. CASE ResumeExpired(s)
      BY <3>2 DEF ResumeExpired, WhoTimes
    <3> QED
      BY <3>1, <3>2 DEF SchedStep
  <2>4. \A t \in Thread : ~ ThreadStep(t)
    BY <1>4, <2>2 DEF Silent, ThreadStep, ThreadReturn, WhoTimes, Proc
  <2>5. ASSUME NEW c \in Coroutine, WaitYield(c) \/ Dispatch(c) \/ Leave(c)
        PROVE  /\ UNCHANGED <<state, h>>
               /\ \A t \in Thread : pc'[t] # "woken"
               /\ \A p \in Proc : pc[p] # "idle" => pc'[p] # "idle"
    BY <1>4, <2>5 DEF Silent, WaitYield, Dispatch, Leave, Goto, heap, EvTypeOK, TypeOK, Proc
  <2>6. \A c \in Coroutine : ~ WaitReturn(c)
    BY <2>1 DEF WaitReturn
  <2>7. \E c \in Coroutine : WaitYield(c) \/ Dispatch(c) \/ Leave(c)
    BY <2>2, <2>3, <2>4, <2>6 DEF Inside, CoroutineStep, Proc
  <2> QED
    BY <1>1, <2>5, <2>7 DEF group
<1>5. UNCHANGED <<fresh, todo, last, asked>>
  BY <1>1 DEF group
<1>6. Silent => Silent'
  <2>1. asked \subseteq Proc
    BY DEF WgInv, Rounds
  <2> QED
    BY <1>1, <1>4, <2>1 DEF Silent
<1>7. Rounds'
  BY <1>1 DEF WgInv, Rounds, group
<1>8. SignaledAtEnd'
  BY <1>1, <1>3, <1>5, <1>6 DEF WgInv, SignaledAtEnd
<1> QED
  BY <1>7, <1>8 DEF WgInv

(* Who asks after the signal does not wait, and who asks before it does.   *)
LEMMA SilenceAsks ==
    ASSUME EvInv, WgInv, part = "group", UNCHANGED part, NEW p \in Waiter, wait(p)
    PROVE  WgInv'
<1> USE EventAssumption, WaitGroupAssumption DEF EvInv
<1>1. /\ pc[p] = "idle" /\ p \notin asked /\ p \in Proc /\ fresh = {}
      /\ asked' = asked \cup {p}
      /\ UNCHANGED <<wg, fresh, todo, last>>
  BY DEF wait, Calling
<1>2. Rounds'
  BY <1>1 DEF WgInv, Rounds
<1>3. asked \subseteq Proc
  BY DEF WgInv, Rounds
<1>4. CASE WaitSignaled(p)
  <2>1. /\ signaled /\ signaled' = manualReset
        /\ UNCHANGED <<manualReset, pc>>
    BY <1>4 DEF WaitSignaled
  <2> QED
    BY <1>1, <1>2, <2>1 DEF WgInv, SignaledAtEnd, Silent
<1>5. ASSUME \/ p \in Coroutine /\ WaitNew(p)
             \/ p \in Thread /\ WaitThread(p)
      PROVE  WgInv'
  <2>1. /\ UNCHANGED <<manualReset, signaled, h>> /\ ~ signaled
        /\ \E l \in {"enq", "cv"} : pc' = [pc EXCEPT ![p] = l]
    BY <1>5 DEF WaitNew, WaitThread, Goto
  <2>2. /\ pc'[p] \in {"enq", "cv"} /\ \A r \in Proc : r # p => pc'[r] = pc[r]
    BY <1>1, <2>1 DEF EvTypeOK, TypeOK
  <2>3. \A w \in Waitx : state[w] # "ready" => state'[w] # "ready"
    BY <1>5 DEF WaitNew, WaitThread, heap, EvTypeOK, TypeOK
  <2>4. Silent => Silent'
    BY <1>1, <1>3, <2>1, <2>2, <2>3 DEF Silent, Proc
  <2>5. SignaledAtEnd'
    BY <1>1, <2>1, <2>2, <2>4 DEF WgInv, SignaledAtEnd
  <2> QED
    BY <1>2, <2>5 DEF WgInv
<1> QED
  BY <1>4, <1>5 DEF wait

(* The last worker signals: if somebody asked already, they are woken.     *)
LEMMA SilenceEnds ==
    ASSUME EvInv, WgInv, part = "group", UNCHANGED part, NEW p \in Worker, signal(p)
    PROVE  WgInv'
<1> USE EventAssumption, WaitGroupAssumption DEF EvInv
<1>1. /\ p \in last /\ SignalLocked(p) /\ last' = last \ {p} /\ p \in Proc
      /\ UNCHANGED <<wg, fresh, todo, asked>>
  BY DEF signal
<1>2. last' = {} /\ todo = {} /\ fresh = {}
  BY <1>1 DEF WgInv, Rounds
<1>3. Rounds'
  BY <1>1, <1>2 DEF WgInv, Rounds
<1>4. Silent /\ ~ manualReset /\ asked \subseteq Proc
  BY <1>1 DEF WgInv, SignaledAtEnd, Rounds
<1>5. \A r \in Proc : pc'[r] \notin {"idle", "sig"} => pc[r] \notin {"idle", "sig"}
  BY <1>1 DEF SignalLocked, SignalThreads, SignalCoroutine, SignalNobody, Goto, EvTypeOK, TypeOK
<1>6. manualReset' = manualReset
  BY <1>1 DEF SignalLocked, SignalThreads, SignalCoroutine, SignalNobody
<1>7. signaled' => asked = {}
  <2>1. CASE SignalThreads(p) \/ SignalCoroutine(p)
    BY <1>4, <2>1 DEF SignalThreads, SignalCoroutine
  <2>2. CASE SignalNobody(p)
    <3> SUFFICES ASSUME NEW q \in asked PROVE FALSE
      OBVIOUS
    <3>1. q \in Proc /\ pc[q] \notin {"idle", "sig", "late", "over", "woken"}
      BY <1>4 DEF Silent, InOneList, WhoTimes, EvTypeOK, Proc
    <3>2. CASE q \in Thread
      <4>1. q \in Counted
        BY <3>1, <3>2 DEF Counted, InWait, WhoTimes, EvTypeOK
      <4>2. IsFiniteSet(Counted)
        BY FS_Subset DEF Counted
      <4>3. Cardinality(Counted) # 0 /\ Cardinality(Counted) \in Nat
        BY <4>1, <4>2, FS_EmptySet, FS_CardinalityType
      <4> QED
        BY <2>2, <4>3 DEF SignalNobody, AllCounted
    <3>3. CASE q \in Coroutine
      <4>1. Waits(q) /\ pc[q] # "late"
        BY <3>1, <3>3 DEF Waits, EvTypeOK, TypeOK, PcState
      <4>2. ~ TimedOut(q)
        BY <3>3, <4>1 DEF TimedOut, InQueue, Range, WhoTimes
      <4>3. waitx[q] \in Waitx /\ state[waitx[q]] = "wait"
        BY <1>4, <3>3, <4>1, <4>2 DEF Owning, Silent, EvTypeOK, TypeOK
      <4>4. waitx[q] \in Range(wc)
        <5>1. waitx[q] \in Queued /\ \A r \in Proc : h[r] = <<>>
          BY <1>4, <4>3 DEF InOneList, Silent
        <5>2. Range(<<>>) = {}
          BY DEF Range
        <5> QED
          BY <5>1, <5>2 DEF Queued
      <4> QED
        BY <2>2, <4>3, <4>4 DEF SignalNobody, Range
    <3> QED
      BY <3>1, <3>2, <3>3 DEF Proc
  <2> QED
    BY <1>1, <2>1, <2>2 DEF SignalLocked
<1>8. SignaledAtEnd'
  BY <1>1, <1>2, <1>4, <1>5, <1>6, <1>7 DEF WgInv, SignaledAtEnd
<1> QED
  BY <1>3, <1>8 DEF WgInv

(* Workers are added and finish, and a round begins when all have returned. *)
LEMMA SilenceBetween ==
    ASSUME EvInv, WgInv, part = "group", UNCHANGED part, Batches \subseteq {Worker},
           \/ \E p \in Waiter : \E S \in Batches : add(p, S)
           \/ \E p \in Worker : done(p)
           \/ NextRound
    PROVE  WgInv'
<1> USE EventAssumption, WaitGroupAssumption DEF EvInv
<1>1. UNCHANGED <<vars, part>>
  BY DEF add, done, NextRound
<1>2. UNCHANGED <<manualReset, signaled, state, h, pc>>
  BY <1>1 DEF vars, event, heap
<1>3. /\ wg = Cardinality(todo) /\ IsFiniteSet(todo) /\ Cardinality(todo) \in Nat
  BY FS_Subset, FS_CardinalityType DEF WgInv, Rounds
<1>4. asked = asked' => Silent' = Silent
  BY <1>2 DEF Silent
<1>5. ASSUME NEW p \in Waiter, NEW S \in Batches, add(p, S)
      PROVE  WgInv'
  <2>1. /\ S = Worker /\ S = fresh /\ S # {} /\ asked = {} /\ todo = {} /\ last = {}
        /\ todo' = Worker /\ fresh' = {}
        /\ wg' = wg + Cardinality(Worker)
        /\ UNCHANGED <<last, asked>>
    BY <1>5 DEF add, WgInv, Rounds
  <2>2. wg' = Cardinality(todo')
    <3>1. wg = 0
      BY <1>3, <2>1, FS_EmptySet
    <3>2. Cardinality(Worker) \in Nat
      BY FS_CardinalityType
    <3>3. wg' = wg + Cardinality(Worker) /\ todo' = Worker
      BY <2>1, Zenon
    <3> QED
      BY ONLY <3>1, <3>2, <3>3
  <2> QED
    BY <1>1, <1>2, <1>4, <2>1, <2>2 DEF WgInv, Rounds, SignaledAtEnd
<1>6. ASSUME NEW p \in Worker, done(p)
      PROVE  WgInv'
  <2>1. /\ p \in todo /\ wg' = wg - 1 /\ todo' = todo \ {p}
        /\ last' = IF wg' = 0 THEN last \cup {p} ELSE last
        /\ UNCHANGED <<fresh, asked>>
    BY <1>6 DEF done
  <2>2. last = {} /\ fresh = {}
    BY <2>1 DEF WgInv, Rounds
  <2>3. wg' = Cardinality(todo') /\ (wg' = 0 <=> todo' = {})
    <3>1. Cardinality(todo') = Cardinality(todo) - 1 /\ IsFiniteSet(todo')
      BY <1>3, <2>1, FS_RemoveElement
    <3> QED
      BY <1>3, <2>1, <3>1, FS_EmptySet
  <2>4. Rounds'
    BY <1>1, <2>1, <2>2, <2>3 DEF WgInv, Rounds
  <2>5. Silent'
    BY <1>4, <2>1 DEF WgInv, SignaledAtEnd
  <2> QED
    BY <1>1, <1>2, <2>1, <2>4, <2>5 DEF WgInv, SignaledAtEnd
<1>7. CASE NextRound
  <2>1. /\ asked # {} /\ \A p \in asked : pc[p] = "idle"
        /\ todo = {} /\ asked' = {} /\ fresh' = Worker
        /\ UNCHANGED <<wg, todo, last>>
    BY <1>7 DEF NextRound, Returned
  <2>2. ~ Silent /\ last = {} /\ ~ signaled
    BY <2>1 DEF Silent, WgInv, SignaledAtEnd
  <2>3. \A r \in Proc : pc[r] \in {"idle", "sig"}
    BY <2>1 DEF WgInv, SignaledAtEnd
  <2>4. \A w \in Waitx : state[w] \notin {"wait", "ready", "timeout"}
    BY <2>3 DEF Owned, WhoTimes, Proc
  <2>5. \A r \in Proc : h[r] = <<>>
    <3> SUFFICES ASSUME NEW r \in Proc, h[r] # <<>> PROVE FALSE
      OBVIOUS
    <3>1. h[r] \in Seq(Waitx)
      BY DEF EvTypeOK, TypeOK
    <3>2. Head(h[r]) \in Waitx /\ Head(h[r]) \in Range(h[r])
      BY <3>1, TailParts
    <3>3. Head(h[r]) \in Queued
      BY <3>2 DEF Queued
    <3> QED
      BY <2>4, <3>2, <3>3 DEF InOneList
  <2>6. Silent'
    BY <1>2, <2>1, <2>2, <2>3, <2>4, <2>5 DEF Silent, Proc
  <2>7. Rounds'
    BY <1>1, <2>1, <2>2 DEF WgInv, Rounds
  <2>8. SignaledAtEnd'
    BY <1>1, <1>2, <2>1, <2>2, <2>3, <2>6 DEF WgInv, SignaledAtEnd
  <2> QED
    BY <2>7, <2>8 DEF WgInv
<1> QED
  BY <1>5, <1>6, <1>7

(* wait() returns only when every worker of the round has called done():   *)
(* wait_group::add, done and wait.                                         *)
THEOREM WaitsForAll ==
    ASSUME Batches \subseteq {Worker}
    PROVE  MCSpec => []WaitCoversAll
<1>1. MCInit => WgInv
  <2> SUFFICES ASSUME MCInit PROVE WgInv
    OBVIOUS
  <2>1. Init /\ GroupIdle /\ (part = "group" => ~ manualReset /\ ~ signaled)
    BY DEF MCInit, WgInit
  <2>2. Rounds
    BY <2>1, FS_EmptySet DEF GroupIdle, Rounds
  <2>3. SignaledAtEnd
    BY <2>1 DEF Init, GroupIdle, SignaledAtEnd, Silent, Proc
  <2> QED
    BY <2>2, <2>3 DEF WgInv
<1>2. EvInv /\ WgInv /\ [MCNext]_<<allVars, part>> => WgInv'
  <2> SUFFICES ASSUME EvInv, WgInv, [MCNext]_<<allVars, part>>
               PROVE  WgInv'
    OBVIOUS
  <2>1. CASE UNCHANGED <<allVars, part>>
    BY <2>1 DEF allVars, group, vars, event, heap, WgInv, Rounds, SignaledAtEnd, Silent
  <2>2. CASE MCNext
    <3>1. CASE part = "group" /\ WgNext
      BY <2>2, <3>1, SilenceInside, SilenceAsks, SilenceEnds, SilenceBetween
         DEF MCNext, WgNext
    <3>2. CASE part # "group" /\ UNCHANGED <<group, part>>
      BY <3>2 DEF WgInv, Rounds, SignaledAtEnd, group
    <3> QED
      BY <2>2, <3>1, <3>2 DEF MCNext
  <2> QED
    BY <2>1, <2>2
<1>3. WgInv => WaitCoversAll
  <2> SUFFICES ASSUME WgInv, NEW p \in Waiter, Returned(p)
               PROVE  wg = 0 /\ todo = {}
    BY DEF WaitCoversAll
  <2>1. todo = {}
    BY DEF Returned, WgInv, Rounds, SignaledAtEnd, Silent
  <2> QED
    BY <2>1, FS_EmptySet DEF WgInv, Rounds
<1> QED
  BY <1>1, <1>2, <1>3, EventInvariant, PTL DEF MCSpec
=============================================================================
