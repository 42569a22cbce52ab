---------------------------- MODULE PipeProofs -----------------------------
(***************************************************************************)
(* Proofs about the two channels: whoever waits is told once and each      *)
(* waitx freed by its last user, nobody waits who could go on, no element  *)
(* is lost or delivered twice, and each channel implements Channel, the    *)
(* line from which elements are taken in the order in which they came.     *)
(***************************************************************************)
EXTENDS MCPipe, FiniteSetTheorems, SequenceTheorems, TLAPS

-----------------------------------------------------------------------------
(* Lists without repetitions.                                              *)

(* Appending something new to a list.                                      *)
LEMMA AppendParts ==
    ASSUME NEW S, NEW q \in Seq(S), NEW x \in S
    PROVE  /\ Append(q, x) \in Seq(S)
           /\ Range(Append(q, x)) = Range(q) \cup {x}
           /\ IsInjective(q) /\ x \notin Range(q) => IsInjective(Append(q, x))
<1>1. /\ Append(q, x) \in Seq(S) /\ Len(Append(q, x)) = Len(q) + 1
      /\ Append(q, x)[Len(q) + 1] = x
      /\ \A i \in 1..Len(q) : Append(q, x)[i] = q[i]
      /\ Len(q) \in Nat
      /\ DOMAIN q = 1..Len(q) /\ DOMAIN Append(q, x) = 1..(Len(q) + 1)
  BY AppendProperties, LenProperties
<1>2. Range(Append(q, x)) = Range(q) \cup {x}
  BY <1>1 DEF Range
<1>3. IsInjective(q) /\ x \notin Range(q) => IsInjective(Append(q, x))
  BY <1>1 DEF Range, IsInjective
<1> QED
  BY <1>1, <1>2, <1>3

(* What r is when it is what is left of q without its first n.             *)
IsRest(r, S, q, n) ==
    /\ r \in Seq(S) /\ IsInjective(r)
    /\ Range(r) = Range(q) \ {q[i] : i \in 1..n}
    /\ r = <<>> <=> n = Len(q)

(* Taking the first n away from a list.                                    *)
LEMMA DropParts ==
    ASSUME NEW S, NEW q \in Seq(S), IsInjective(q), NEW n \in 0..Len(q)
    PROVE  IsRest(SubSeq(q, n + 1, Len(q)), S, q, n)
<1> DEFINE r == SubSeq(q, n + 1, Len(q))
<1>1. /\ Len(q) \in Nat /\ DOMAIN q = 1..Len(q)
      /\ \A i \in 1..Len(q) : q[i] \in S
  BY LenProperties, ElementOfSeq
<1>2. /\ r \in Seq(S) /\ Len(r) = Len(q) - n
      /\ \A i \in 1..(Len(q) - n) : r[i] = q[n + i]
  <2>1. /\ n \in Int /\ n + 1 \in Int /\ Len(q) \in Int
        /\ \A i \in (n + 1)..Len(q) : q[i] \in S
    BY <1>1
  <2>2. /\ r \in Seq(S)
        /\ Len(r) = IF n + 1 <= Len(q) THEN Len(q) - (n + 1) + 1 ELSE 0
        /\ \A i \in 1..(Len(q) - (n + 1) + 1) : r[i] = q[(n + 1) + i - 1]
    BY <2>1, SubSeqProperties
  <2> HIDE DEF r
  <2>3. Len(r) = Len(q) - n
    <3>1. Len(q) \in Nat /\ n \in Nat /\ n <= Len(q)
      BY <1>1
    <3> QED
      BY <2>2, <3>1
  <2>4. ASSUME NEW i \in 1..(Len(q) - n) PROVE r[i] = q[n + i]
    <3>1. i \in 1..(Len(q) - (n + 1) + 1) /\ (n + 1) + i - 1 = n + i
      BY <1>1
    <3> QED
      BY <2>2, <3>1
  <2> QED
    BY <2>2, <2>3, <2>4
<1> HIDE DEF r
<1>3. DOMAIN r = 1..(Len(q) - n)
  BY <1>2, LenProperties
<1>4. IsInjective(r)
  <2>1. ASSUME NEW i \in DOMAIN r, NEW j \in DOMAIN r, r[i] = r[j]
        PROVE  i = j
    <3>1. /\ n + i \in DOMAIN q /\ n + j \in DOMAIN q
          /\ q[n + i] = q[n + j]
      <4>1. i \in 1..(Len(q) - n) /\ j \in 1..(Len(q) - n)
        BY <1>3
      <4>2. q[n + i] = q[n + j]
        BY <1>2, <2>1, <4>1
      <4>3. n + i \in 1..Len(q) /\ n + j \in 1..Len(q)
        BY <1>1, <4>1
      <4>. QED  BY <1>1, <4>2, <4>3
    <3>2. n + i = n + j
      BY <3>1 DEF IsInjective
    <3> QED
      BY <1>1, <1>3, <3>2
  <2> QED
    BY <2>1 DEF IsInjective
<1>5. Range(r) = Range(q) \ {q[i] : i \in 1..n}
  <2>1. ASSUME NEW x \in Range(r)
        PROVE  x \in Range(q) \ {q[i] : i \in 1..n}
    <3>1. PICK i \in 1..(Len(q) - n) : x = q[n + i]
      BY <1>2, <1>3 DEF Range
    <3>2. n + i \in 1..Len(q) /\ n + i \notin 1..n
      BY <1>1
    <3>3. x \in Range(q)
      BY <1>1, <3>1, <3>2 DEF Range
    <3>4. \A j \in 1..n : j \in DOMAIN q /\ j # n + i
      BY <1>1, <3>2
    <3>5. \A j \in 1..n : q[j] # q[n + i]
      BY <1>1, <3>2, <3>4 DEF IsInjective
    <3> QED
      BY <3>1, <3>3, <3>5
  <2>2. ASSUME NEW x \in Range(q), x \notin {q[i] : i \in 1..n}
        PROVE  x \in Range(r)
    <3>1. PICK i \in 1..Len(q) : x = q[i]
      BY <1>1 DEF Range
    <3>2. i - n \in 1..(Len(q) - n) /\ n + (i - n) = i
      BY <1>1, <2>2, <3>1
    <3>3. r[i - n] = x
      BY <1>2, <3>1, <3>2
    <3> QED
      BY <1>3, <3>2, <3>3 DEF Range
  <2> QED
    BY <2>1, <2>2
<1>6. r = <<>> <=> n = Len(q)
  <2>1. r = <<>> <=> Len(r) = 0
    BY <1>2, EmptySeq
  <2>2. Len(q) - n = 0 <=> n = Len(q)
    BY <1>1
  <2> QED
    BY <1>2, <2>1, <2>2
<1>7. IsRest(r, S, q, n)
  BY <1>2, <1>4, <1>5, <1>6 DEF IsRest
<1> QED
  BY <1>7 DEF r

(* Taking the first away from a list.                                      *)
LEMMA TailParts ==
    ASSUME NEW S, NEW q \in Seq(S), q # <<>>
    PROVE  /\ Head(q) \in S /\ Tail(q) \in Seq(S)
           /\ Head(q) \in Range(q)
           /\ IsInjective(q) =>
                IsInjective(Tail(q)) /\ Range(Tail(q)) = Range(q) \ {Head(q)}
           /\ Tail(q) = <<>> <=> Len(q) = 1
<1>1. /\ Len(q) \in Nat /\ Len(q) # 0 /\ DOMAIN q = 1..Len(q)
      /\ Head(q) = q[1]
  BY LenProperties, EmptySeq, HeadTailProperties
<1>2. Head(q) \in Range(q) /\ Head(q) \in S
  BY <1>1, ElementOfSeq DEF Range
<1>3. /\ Tail(q) \in Seq(S) /\ Len(Tail(q)) = Len(q) - 1
      /\ \A i \in 1..(Len(q) - 1) : Tail(q)[i] = q[i + 1]
  BY <1>1, HeadTailProperties
<1>4. DOMAIN Tail(q) = 1..(Len(q) - 1)
  BY <1>3, LenProperties
<1>5. ASSUME IsInjective(q)
      PROVE  IsInjective(Tail(q)) /\ Range(Tail(q)) = Range(q) \ {Head(q)}
  <2>1. IsInjective(Tail(q))
    BY <1>1, <1>3, <1>4, <1>5 DEF IsInjective
  <2>2. ASSUME NEW x \in Range(Tail(q)) PROVE x \in Range(q) \ {Head(q)}
    <3>1. PICK i \in 1..(Len(q) - 1) : x = q[i + 1]
      BY <1>3, <1>4 DEF Range
    <3> QED
      BY <1>1, <1>5, <3>1 DEF Range, IsInjective
  <2>3. ASSUME NEW x \in Range(q), x # Head(q) PROVE x \in Range(Tail(q))
    <3>1. PICK i \in 1..Len(q) : x = q[i]
      BY <1>1 DEF Range
    <3>2. i - 1 \in 1..(Len(q) - 1) /\ (i - 1) + 1 = i
      BY <1>1, <2>3, <3>1
    <3>3. Tail(q)[i - 1] = x
      BY <1>3, <3>1, <3>2
    <3> QED
      BY <1>4, <3>2, <3>3 DEF Range
  <2> QED
    BY <2>1, <2>2, <2>3
<1>6. Tail(q) = <<>> <=> Len(q) = 1
  BY <1>1, <1>3, EmptySeq
<1> QED
  BY <1>2, <1>3, <1>5, <1>6

(* A set of numbers has a smallest one: of the finite sets 0..m, m in the  *)
(* set, one has none of the others as a proper subset.                     *)
LEMMA SmallestOfNumbers ==
    ASSUME NEW S, S \subseteq Nat, S # {}
    PROVE  \E s \in S : \A r \in S : s <= r
  <1> DEFINE Below == {0..m : m \in S}
  <1>1. Below \subseteq FiniteSubsetsOf(Nat) /\ Below # {}
    <2>1. \A m \in S : 0..m \subseteq Nat /\ IsFiniteSet(0..m)
      BY FS_Interval
    <2>. QED  BY <2>1 DEF FiniteSubsetsOf
  <1>2. PICK b \in Below : \A d \in Below : ~ (<<d, b>> \in StrictSubsetOrdering(Nat))
    <2> HIDE DEF Below
    <2>. QED  BY <1>1, FS_StrictSubsetOrderingWellFounded, WFMin
  <1>3. PICK m \in S : b = 0..m
    BY <1>2
  <1>4. ASSUME NEW y \in S
        PROVE  m <= y
    <2>1. ~ (0..y \subseteq 0..m /\ 0..y # 0..m)
      <3>1. 0..y \in SUBSET Nat /\ 0..m \in SUBSET Nat
        OBVIOUS
      <3>2. <<0..y, 0..m>> \notin StrictSubsetOrdering(Nat)
        BY <1>2, <1>3
      <3>. QED  BY <3>1, <3>2 DEF StrictSubsetOrdering
    <2>2. CASE y < m
      <3>1. m \in 0..m /\ m \notin 0..y /\ 0..y \subseteq 0..m
        BY <2>2
      <3>. QED  BY <2>1, <3>1
    <2>. QED  BY <2>2
  <1>. QED  BY <1>3, <1>4

-----------------------------------------------------------------------------
(***************************************************************************)
(* Those that wait.  Both channels share this part of the state.           *)
(***************************************************************************)
HeapTypeOK ==
    heap \in [Waitx -> [state : {"free", "wait", "ready", "timeout"}, done : 0..2,
                       who : Proc \cup {None}, buf : Elem \cup {None}]]

CallsTypeOK ==
    /\ timed \in BOOLEAN
    /\ closed \in 0..2
    /\ wq \in Seq(Waitx)
    /\ HeapTypeOK
    /\ mine \in [Proc -> Waitx \cup {None}]
    /\ op \in [Proc -> {"none", "read", "write"}]
    /\ target \in [Proc -> Waitx \cup {None}]
    /\ wakeups \in [Coroutine -> Nat]
    /\ out \subseteq Elem \cup {None}
    /\ pc \in [Proc -> PcState]

(* A process has a waitx while it waits, and a target before it makes      *)
(* somebody ready.                                                         *)
CallsInPlace ==
    \A p \in Proc :
       /\ mine[p] # None <=> Waiting(p)
       /\ op[p] # "none" <=> Waiting(p)
       /\ target[p] # None <=> pc[p] = "wake"
       /\ pc[p] \in {"enq", "susp"} => p \in Coroutine
       /\ pc[p] \in {"cv", "woken", "over"} => p \in Thread
       /\ pc[p] = "over" => timed

(* A waitx that waits or is ready belongs to the call of its owner.        *)
InCall(w) == heap[w].state \in {"wait", "ready"}
Belongs ==
    /\ \A p \in Proc : mine[p] # None => heap[mine[p]].who = p /\ InCall(mine[p])
    /\ \A w \in Waitx : InCall(w) => heap[w].who \in Proc /\ mine[heap[w].who] = w

(* In the queue, once, are those not served and those that timed out.      *)
QueuedOnce ==
    /\ IsInjective(wq)
    /\ \A w \in Waitx :
          /\ heap[w].state = "free" => w \notin Range(wq)
          /\ heap[w].state = "timeout" => w \in Range(wq)
          /\ heap[w].state = "wait" => (w \in Range(wq) <=> heap[w].done = 0)
          /\ heap[w].state = "ready" => heap[w].done # 0 /\ w \notin Range(wq)
          /\ timed /\ heap[w].state = "wait" => heap[w].done = 0

(* A coroutine that was served is ready, or somebody is about to make it   *)
(* ready; a thread that was served has been notified.                      *)
Served(w) == InCall(w) /\ heap[w].done # 0
ToldOnce ==
    /\ \A c \in Coroutine :
          /\ wakeups[c] \in {0, 1}
          /\ wakeups[c] = 1 => mine[c] # None /\ Served(mine[c])
          /\ mine[c] # None /\ Served(mine[c])
               => wakeups[c] = 1 \/ \E p \in Proc : target[p] = mine[c]
    /\ \A p \in Proc : target[p] # None =>
          /\ Served(target[p])
          /\ heap[target[p]].who \in Coroutine
          /\ wakeups[heap[target[p]].who] = 0
    /\ \A p, q \in Proc : target[p] # None /\ target[p] = target[q] => p = q
    /\ \A t \in Thread : mine[t] # None /\ Served(mine[t]) => pc[t] \in {"woken", "over"}

CallsInv == CallsTypeOK /\ CallsInPlace /\ Belongs /\ QueuedOnce /\ ToldOnce

-----------------------------------------------------------------------------
LEMMA NoneApart == None \notin Proc /\ None \notin Waitx /\ None \notin Elem
  BY PipeWaitersAssumption

LEMMA CallsStart == WaitersInit => CallsInv
  <1>. SUFFICES ASSUME WaitersInit PROVE CallsInv
    OBVIOUS
  <1>1. CallsTypeOK
    BY PipeWaitersAssumption DEF WaitersInit, CallsTypeOK, HeapTypeOK, Unused, PcState
  <1>2. Range(wq) = {} /\ IsInjective(wq)
    BY DEF WaitersInit, Range, IsInjective
  <1>3. \A w \in Waitx : heap[w].state = "free"
    BY DEF WaitersInit, Unused
  <1>. QED
    BY <1>1, <1>2, <1>3, NoneApart
       DEF CallsInv, CallsInPlace, Belongs, QueuedOnce, ToldOnce, WaitersInit, InCall, Waiting, Served, Proc

(* A step that only moves a process outside of any wait, or within one.    *)
LEMMA PcMoves ==
    ASSUME CallsInv, UNCHANGED <<timed, wq, heap, mine, op, target, wakeups>>,
           closed' \in 0..2, out' \subseteq Elem \cup {None},
           pc' \in [Proc -> PcState],
           \A q \in Proc : pc'[q] # pc[q] =>
              \/ ~ Waiting(q) /\ pc[q] # "wake" /\ pc'[q] \in {"idle", "lock", "poll"}
              \/ pc[q] = "enq" /\ pc'[q] = "susp"
              \/ pc[q] = "cv" /\ pc'[q] = "woken"
              \/ pc[q] = "cv" /\ pc'[q] = "over" /\ timed
              \/ pc[q] \in {"woken", "over"} /\ pc'[q] = "cv" /\ heap[mine[q]].done = 0
    PROVE  CallsInv'
  <1>1. CallsTypeOK'
    BY DEF CallsInv, CallsTypeOK, HeapTypeOK
  <1>2. CallsInPlace'
    BY DEF CallsInv, CallsInPlace, CallsTypeOK, Waiting, PcState
  <1>3. Belongs' /\ QueuedOnce'
    BY DEF CallsInv, Belongs, QueuedOnce, InCall
  <1>4. ToldOnce'
    <2>1. ASSUME NEW t \in Thread, mine[t] # None, Served(mine[t])
          PROVE  pc'[t] \in {"woken", "over"}
      <3>1. t \in Proc /\ pc[t] \in {"woken", "over"}
        BY <2>1 DEF CallsInv, ToldOnce, Proc
      <3>. QED
        BY <2>1, <3>1 DEF Served, Waiting
    <2>. QED
      BY <2>1 DEF CallsInv, ToldOnce, Served, InCall
  <1>. QED
    BY <1>1, <1>2, <1>3, <1>4 DEF CallsInv

(* A ready coroutine is added to its scheduler's list.                     *)
LEMMA AddReadyKeeps ==
    ASSUME CallsInv, NEW p \in Proc, AddReady(p)
    PROVE  CallsInv'
  <1> DEFINE c == heap[target[p]].who
  <1>1. /\ target[p] # None /\ target[p] \in Waitx /\ Served(target[p])
        /\ c \in Coroutine /\ c \in Proc /\ wakeups[c] = 0 /\ mine[c] = target[p]
    BY DEF CallsInv, CallsTypeOK, CallsInPlace, ToldOnce, Belongs, AddReady, Served, Proc
  <1>2. /\ wakeups' = [wakeups EXCEPT ![c] = 1]
        /\ target' = [target EXCEPT ![p] = None]
        /\ pc' = [pc EXCEPT ![p] = "idle"] /\ pc[p] = "wake"
        /\ UNCHANGED <<timed, closed, wq, heap, mine, op, out, got>>
    BY <1>1 DEF AddReady
  <1>. HIDE DEF c
  <1>3. CallsTypeOK'
    BY <1>1, <1>2 DEF CallsInv, CallsTypeOK, HeapTypeOK, PcState
  <1>4. CallsInPlace'
    BY <1>2 DEF CallsInv, CallsTypeOK, CallsInPlace, Waiting
  <1>5. Belongs' /\ QueuedOnce'
    BY <1>2 DEF CallsInv, Belongs, QueuedOnce, InCall
  <1>6. ToldOnce'
    <2>1. ASSUME NEW d \in Coroutine
          PROVE  /\ wakeups'[d] \in {0, 1}
                 /\ wakeups'[d] = 1 => mine'[d] # None /\ Served(mine[d])'
                 /\ mine'[d] # None /\ Served(mine[d])'
                      => wakeups'[d] = 1 \/ \E q \in Proc : target'[q] = mine'[d]
      <3>1. CASE d = c
        BY <1>1, <1>2, <3>1, NoneApart DEF CallsInv, CallsTypeOK, Served, InCall
      <3>2. CASE d # c
        <4>1. mine[d] # mine[c] \/ mine[d] = None
          BY <1>1, <3>2 DEF CallsInv, Belongs, Proc
        <4>2. \A q \in Proc : target[q] = mine[d] /\ mine[d] # None => target'[q] = mine[d]
          BY <1>1, <1>2, <4>1 DEF CallsInv, CallsTypeOK
        <4>. QED
          BY <1>2, <3>2, <4>2 DEF CallsInv, CallsTypeOK, ToldOnce, Served, InCall
      <3>. QED  BY <3>1, <3>2
    <2>2. ASSUME NEW q \in Proc, target'[q] # None
          PROVE  /\ q # p /\ target'[q] = target[q] /\ target[q] # None
                 /\ Served(target[q])'
                 /\ heap'[target'[q]].who \in Coroutine
                 /\ wakeups'[heap'[target'[q]].who] = 0
      <3>1. q # p /\ target'[q] = target[q] /\ target[q] # None
        BY <1>2, <2>2 DEF CallsInv, CallsTypeOK
      <3>2. target[q] # target[p]
        BY <3>1 DEF CallsInv, ToldOnce
      <3>3. /\ Served(target[q]) /\ target[q] \in Waitx
            /\ heap[target[q]].who \in Coroutine
            /\ wakeups[heap[target[q]].who] = 0
        BY <3>1 DEF CallsInv, ToldOnce, CallsTypeOK
      <3>4. heap[target[q]].who # c
        BY <1>1, <3>2, <3>3 DEF CallsInv, Belongs, Served
      <3>. QED
        BY <1>2, <3>1, <3>3, <3>4 DEF CallsInv, CallsTypeOK, Served, InCall
    <2>3. \A t \in Thread : mine'[t] # None /\ Served(mine[t])' => pc'[t] \in {"woken", "over"}
      BY <1>2 DEF CallsInv, CallsTypeOK, ToldOnce, Served, InCall, Proc
    <2>4. \A q, r \in Proc : target'[q] # None /\ target'[q] = target'[r] => q = r
      BY <2>2 DEF CallsInv, ToldOnce
    <2>. QED
      BY <2>1, <2>2, <2>3, <2>4 DEF ToldOnce
  <1>. QED
    BY <1>3, <1>4, <1>5, <1>6 DEF CallsInv

(* A call ends and leaves its waitx in the queue, timed out, or frees it.   *)
LEMMA CallEnds ==
    ASSUME CallsInv, NEW p \in Proc, Waiting(p),
           mine' = [mine EXCEPT ![p] = None],
           op' = [op EXCEPT ![p] = "none"],
           pc' = [pc EXCEPT ![p] = "idle"],
           UNCHANGED <<timed, closed, wq, target>>,
           out' \subseteq Elem \cup {None},
           HeapTypeOK',
           heap'[mine[p]].state = (IF mine[p] \in Range(wq) THEN "timeout" ELSE "free"),
           \A v \in Waitx : v # mine[p] => heap'[v] = heap[v],
           \A q \in Proc : target[q] # mine[p],
           wakeups' \in [Coroutine -> Nat],
           \A c \in Coroutine : wakeups'[c] = IF c = p THEN 0 ELSE wakeups[c]
    PROVE  CallsInv'
  <1> DEFINE w == mine[p]
  <1>1. w # None /\ w \in Waitx /\ heap[w].who = p /\ mine[p] = w
    BY DEF CallsInv, CallsTypeOK, CallsInPlace, Belongs
  <1>2. \A q \in Proc : mine[q] = w => q = p
    BY <1>1 DEF CallsInv, Belongs
  <1>3. /\ heap'[w].state = IF w \in Range(wq) THEN "timeout" ELSE "free"
        /\ \A v \in Waitx : v # w => heap'[v] = heap[v]
        /\ \A q \in Proc : target[q] # w
    OBVIOUS
  <1>. HIDE DEF w
  <1>4. CallsTypeOK'
    BY DEF CallsInv, CallsTypeOK, PcState
  <1>5. CallsInPlace'
    BY DEF CallsInv, CallsTypeOK, CallsInPlace, Waiting
  <1>6. \A q \in Proc : /\ q = p => mine'[q] = None
                        /\ q # p => mine'[q] = mine[q] /\ mine[q] # w /\ pc'[q] = pc[q]
    BY <1>2 DEF CallsInv, CallsTypeOK
  <1>7. \A q \in Proc : mine[q] # None => mine[q] \in Waitx
    BY DEF CallsInv, CallsTypeOK
  <1>8. Belongs'
    <2>1. ASSUME NEW q \in Proc, mine'[q] # None
          PROVE  heap'[mine'[q]].who = q /\ InCall(mine[q])'
      BY <1>3, <1>6, <1>7, <2>1 DEF CallsInv, Belongs, InCall
    <2>2. ASSUME NEW v \in Waitx, InCall(v)'
          PROVE  heap'[v].who \in Proc /\ mine'[heap'[v].who] = v
      <3>1. v # w /\ heap'[v] = heap[v]
        BY <1>3, <2>2 DEF InCall
      <3>2. heap[v].who \in Proc /\ mine[heap[v].who] = v
        BY <2>2, <3>1 DEF CallsInv, Belongs, InCall
      <3>. QED
        BY <1>1, <1>6, <3>1, <3>2
    <2>. QED  BY <2>1, <2>2 DEF Belongs
  <1>9. QueuedOnce'
    BY <1>3 DEF CallsInv, QueuedOnce
  <1>10. ToldOnce'
    <2>1. \A c \in Coroutine : c \in Proc
      BY DEF Proc
    <2>2. \A c \in Coroutine :
             /\ wakeups'[c] \in {0, 1}
             /\ wakeups'[c] = 1 => mine'[c] # None /\ Served(mine[c])'
             /\ mine'[c] # None /\ Served(mine[c])'
                   => wakeups'[c] = 1 \/ \E q \in Proc : target'[q] = mine'[c]
      BY <1>3, <1>6, <1>7, <2>1 DEF CallsInv, ToldOnce, Served, InCall
    <2>3. \A q \in Proc : target'[q] # None =>
             /\ Served(target[q])'
             /\ heap'[target'[q]].who \in Coroutine
             /\ wakeups'[heap'[target'[q]].who] = 0
      <3>1. ASSUME NEW q \in Proc, target[q] # None
            PROVE  /\ target[q] \in Waitx /\ heap'[target[q]] = heap[target[q]]
                   /\ Served(target[q])
                   /\ heap[target[q]].who \in Coroutine
                   /\ wakeups[heap[target[q]].who] = 0
        BY <1>3, <3>1 DEF CallsInv, CallsTypeOK, ToldOnce
      <3>. QED
        BY <3>1 DEF Served, InCall
    <2>4. \A t \in Thread : mine'[t] # None /\ Served(mine[t])' => pc'[t] \in {"woken", "over"}
      BY <1>3, <1>6, <1>7 DEF CallsInv, ToldOnce, Served, InCall, Proc
    <2>5. \A q, r \in Proc : target'[q] # None /\ target'[q] = target'[r] => q = r
      BY DEF CallsInv, ToldOnce
    <2>. QED
      BY <2>2, <2>3, <2>4, <2>5 DEF ToldOnce
  <1>. QED
    BY <1>4, <1>5, <1>8, <1>9, <1>10 DEF CallsInv

LEMMA EndServedKeeps ==
    ASSUME CallsInv, NEW p \in Proc, Waiting(p), heap[mine[p]].done # 0,
           EndServed(p, mine[p]),
           IF p \in Coroutine THEN wakeups[p] = 1 /\ wakeups' = [wakeups EXCEPT ![p] = 0]
                              ELSE UNCHANGED wakeups
    PROVE  CallsInv'
  <1>1. /\ mine[p] \in Waitx /\ Served(mine[p]) /\ heap[mine[p]].who = p
        /\ mine[p] \notin Range(wq)
    BY DEF CallsInv, CallsTypeOK, CallsInPlace, Belongs, QueuedOnce, Served, InCall
  <1>2. \A q \in Proc : target[q] # mine[p]
    BY <1>1, NoneApart DEF CallsInv, ToldOnce, CallsTypeOK
  <1>3. /\ wakeups' \in [Coroutine -> Nat]
        /\ \A c \in Coroutine : wakeups'[c] = IF c = p THEN 0 ELSE wakeups[c]
    BY DEF CallsInv, CallsTypeOK
  <1>4. HeapTypeOK' /\ heap'[mine[p]].state = "free"
    BY <1>1 DEF EndServed, CallsInv, CallsTypeOK, HeapTypeOK, Unused
  <1>5. \A v \in Waitx : v # mine[p] => heap'[v] = heap[v]
    BY DEF EndServed, CallsInv, CallsTypeOK, HeapTypeOK
  <1>. QED
    BY <1>1, <1>2, <1>3, <1>4, <1>5, CallEnds DEF EndServed, CallsInv, CallsTypeOK

LEMMA EndTimedOutKeeps ==
    ASSUME CallsInv, NEW p \in Proc, timed, Waiting(p), EndTimedOut(p, mine[p])
    PROVE  CallsInv'
  <1>1. /\ mine[p] \in Waitx /\ heap[mine[p]].state = "wait" /\ heap[mine[p]].who = p
        /\ heap[mine[p]].done = 0 /\ mine[p] \in Range(wq)
    BY DEF CallsInv, CallsTypeOK, CallsInPlace, Belongs, QueuedOnce, EndTimedOut
  <1>2. \A q \in Proc : target[q] # mine[p]
    BY <1>1, NoneApart DEF CallsInv, ToldOnce, Served
  <1>3. /\ wakeups' \in [Coroutine -> Nat]
        /\ \A c \in Coroutine : wakeups'[c] = IF c = p THEN 0 ELSE wakeups[c]
    BY <1>1 DEF EndTimedOut, CallsInv, CallsTypeOK, ToldOnce, Served
  <1>4. HeapTypeOK' /\ heap'[mine[p]].state = "timeout"
    <2> DEFINE R == [state : {"free", "wait", "ready", "timeout"}, done : 0..2,
                     who : Proc \cup {None}, buf : Elem \cup {None}]
    <2>1. \A r \in R : /\ [r EXCEPT !.state = "timeout"] \in R
                      /\ [r EXCEPT !.state = "timeout"].state = "timeout"
      OBVIOUS
    <2>2. heap \in [Waitx -> R] /\ mine[p] \in Waitx
      BY <1>1 DEF CallsInv, CallsTypeOK, HeapTypeOK
    <2>3. heap' = [heap EXCEPT ![mine[p]] = [heap[mine[p]] EXCEPT !.state = "timeout"]]
      BY DEF EndTimedOut
    <2>4. HeapTypeOK' <=> heap' \in [Waitx -> R]
      BY DEF HeapTypeOK
    <2>. HIDE DEF R
    <2>. QED  BY <2>1, <2>2, <2>3, <2>4
  <1>5. \A v \in Waitx : v # mine[p] => heap'[v] = heap[v]
    BY DEF EndTimedOut, CallsInv, CallsTypeOK, HeapTypeOK
  <1>6. out' \subseteq Elem \cup {None}
    BY <1>1 DEF EndTimedOut, CallsInv, CallsTypeOK, HeapTypeOK
  <1>. QED
    BY <1>1, <1>2, <1>3, <1>4, <1>5, <1>6, CallEnds DEF EndTimedOut

(* Who is in the queue: those that wait, each of them once, and those that *)
(* have timed out.                                                         *)
LEMMA QueueParts ==
    ASSUME CallsInv
    PROVE  /\ \A w \in Unserved :
                 /\ w \in Waitx /\ w \in Range(wq) /\ heap[w].state = "wait" /\ heap[w].done = 0
                 /\ InCall(w) /\ ~ Served(w)
                 /\ heap[w].who \in Proc /\ mine[heap[w].who] = w /\ Waiting(heap[w].who)
                 /\ heap[w].who \in Coroutine => wakeups[heap[w].who] = 0
                 /\ \A q \in Proc : target[q] # w
           /\ \A w \in Range(wq) \ Unserved : w \in Waitx /\ heap[w].state = "timeout"
           /\ \A w \in Waitx : InCall(w) /\ w \notin Unserved <=> Served(w)
           /\ \A w \in Waitx : Served(w) => w \notin Range(wq)
  <1>1. \A w \in Range(wq) : w \in Waitx
    BY ElementOfSeq, LenProperties DEF Range, CallsInv, CallsTypeOK
  <1>2. \A w \in Waitx : heap[w].state \in {"free", "wait", "ready", "timeout"}
    BY DEF CallsInv, CallsTypeOK, HeapTypeOK
  <1>3. ASSUME NEW w \in Unserved
        PROVE  /\ w \in Waitx /\ w \in Range(wq) /\ heap[w].state = "wait" /\ heap[w].done = 0
               /\ InCall(w) /\ ~ Served(w)
               /\ heap[w].who \in Proc /\ mine[heap[w].who] = w /\ Waiting(heap[w].who)
               /\ heap[w].who \in Coroutine => wakeups[heap[w].who] = 0
               /\ \A q \in Proc : target[q] # w
    <2>1. /\ w \in Waitx /\ w \in Range(wq) /\ heap[w].state = "wait" /\ heap[w].done = 0
          /\ InCall(w) /\ ~ Served(w)
      BY <1>1, <1>3 DEF Unserved, InCall, Served, CallsInv, QueuedOnce
    <2>2. heap[w].who \in Proc /\ mine[heap[w].who] = w /\ Waiting(heap[w].who)
      BY <2>1, NoneApart DEF CallsInv, Belongs, CallsInPlace
    <2>3. heap[w].who \in Coroutine => wakeups[heap[w].who] = 0
      BY <2>1, <2>2 DEF CallsInv, ToldOnce
    <2>4. \A q \in Proc : target[q] # w
      BY <2>1, NoneApart DEF CallsInv, ToldOnce
    <2>. QED  BY <2>1, <2>2, <2>3, <2>4
  <1>4. \A w \in Range(wq) \ Unserved : w \in Waitx /\ heap[w].state = "timeout"
    BY <1>1, <1>2 DEF Unserved, CallsInv, QueuedOnce
  <1>5. \A w \in Waitx : InCall(w) /\ w \notin Unserved <=> Served(w)
    BY <1>2 DEF Unserved, InCall, Served, CallsInv, QueuedOnce
  <1>6. \A w \in Waitx : Served(w) => w \notin Range(wq)
    BY DEF InCall, Served, CallsInv, QueuedOnce
  <1>. QED  BY <1>3, <1>4, <1>5, <1>6

(* Of those in the queue S are served, and those of D that timed out are   *)
(* freed.                                                                  *)
Leave(S, D) ==
    /\ S \subseteq Unserved /\ D \subseteq Range(wq) \ Unserved
    /\ timed' = timed /\ mine' = mine
    /\ IsInjective(wq') /\ Range(wq') = Range(wq) \ (S \cup D)
    /\ \A w \in S : /\ heap'[w].who = heap[w].who /\ heap'[w].done # 0
                    /\ heap'[w].state = "ready" \/ (heap'[w].state = "wait" /\ ~ timed)
    /\ \A w \in D : heap'[w].state = "free"
    /\ \A w \in Waitx : w \notin S \cup D => heap'[w] = heap[w]

LEMMA HeapAfter ==
    ASSUME CallsInv, NEW S, NEW D, Leave(S, D)
    PROVE  /\ Belongs' /\ QueuedOnce'
           /\ \A w \in Waitx : Served(w)' <=> Served(w) \/ w \in S
           /\ \A w \in Waitx : Served(w) => heap'[w] = heap[w]
  <1>. USE DEF Leave
  <1>1. \A w \in S : /\ w \in Waitx /\ w \in Range(wq) /\ InCall(w) /\ InCall(w)' /\ w \notin Range(wq')
    BY QueueParts DEF InCall
  <1>2. \A w \in D : /\ w \in Waitx /\ w \in Range(wq) /\ ~ InCall(w) /\ ~ InCall(w)' /\ w \notin Range(wq')
                     /\ ~ Served(w)
    BY QueueParts DEF InCall, Served
  <1>3. \A w \in Waitx : /\ InCall(w) <=> InCall(w)'
                         /\ InCall(w) => heap'[w].who = heap[w].who
    BY <1>1, <1>2 DEF InCall
  <1>4. Belongs'
    BY <1>3 DEF CallsInv, CallsTypeOK, Belongs
  <1>5. QueuedOnce'
    <2>1. ASSUME NEW w \in Waitx
          PROVE  /\ heap'[w].state = "free" => w \notin Range(wq')
                 /\ heap'[w].state = "timeout" => w \in Range(wq')
                 /\ heap'[w].state = "wait" => (w \in Range(wq') <=> heap'[w].done = 0)
                 /\ heap'[w].state = "ready" => heap'[w].done # 0 /\ w \notin Range(wq')
                 /\ timed /\ heap'[w].state = "wait" => heap'[w].done = 0
      <3>1. CASE w \in S
        BY <1>1, <3>1
      <3>2. CASE w \in D
        BY <1>2, <3>2
      <3>3. CASE w \notin S \cup D
        BY <3>3 DEF CallsInv, QueuedOnce
      <3>. QED  BY <3>1, <3>2, <3>3
    <2>. QED  BY <2>1 DEF QueuedOnce
  <1>6. \A w \in Waitx : Served(w)' <=> Served(w) \/ w \in S
    BY <1>1, <1>2 DEF Served, InCall
  <1>7. \A w \in Waitx : Served(w) => heap'[w] = heap[w]
    BY <1>2, QueueParts
  <1>. QED  BY <1>4, <1>5, <1>6, <1>7

(* Those in front of the first that has not timed out.                     *)
Ahead(i) == {wq[j] : j \in 1..(i - 1)}

LEMMA ClaimParts ==
    ASSUME CallsInv, NEW i \in FirstLive, NEW d \in 1..2, NEW b \in Elem \cup {None}, Claim(i, d, b)
    PROVE  /\ wq[i] \in Unserved /\ Ahead(i) \in SUBSET (Range(wq) \ Unserved)
           /\ wq' \in Seq(Waitx) /\ IsInjective(wq')
           /\ Range(wq') = Range(wq) \ ({wq[i]} \cup Ahead(i))
           /\ HeapTypeOK'
           /\ heap'[wq[i]] = [state |-> IF timed THEN "ready" ELSE "wait",
                              done |-> d, who |-> heap[wq[i]].who, buf |-> b]
           /\ \A w \in Ahead(i) : heap'[w] = Unused
           /\ \A w \in Waitx : w \notin {wq[i]} \cup Ahead(i) => heap'[w] = heap[w]
  <1>1. /\ wq \in Seq(Waitx) /\ IsInjective(wq) /\ DOMAIN wq = 1..Len(wq) /\ Len(wq) \in Nat
        /\ i \in 1..Len(wq)
    BY LenProperties DEF CallsInv, CallsTypeOK, QueuedOnce, FirstLive
  <1>2. wq[i] \in Unserved /\ wq[i] \in Waitx /\ heap[wq[i]].state = "wait"
    BY <1>1, QueueParts DEF FirstLive, Unserved, Range
  <1>3. \A w \in Ahead(i) : w \in Range(wq) \ Unserved /\ w # wq[i]
    <2>1. ASSUME NEW j \in 1..(i - 1) PROVE wq[j] \in Range(wq) \ Unserved /\ wq[j] # wq[i]
      <3>1. j \in DOMAIN wq /\ heap[wq[j]].state # "wait"
        BY <1>1 DEF FirstLive
      <3>. QED  BY <1>2, <3>1 DEF Unserved, Range
    <2>. QED  BY <2>1 DEF Ahead
  <1>4. /\ wq' = SubSeq(wq, i + 1, Len(wq))
        /\ heap' = [w \in Waitx |->
                  IF w = wq[i]
                  THEN [heap[w] EXCEPT !.state = IF timed THEN "ready" ELSE @,
                                       !.done = d, !.buf = b]
                  ELSE IF w \in Ahead(i) THEN Unused
                  ELSE heap[w]]
    BY DEF Claim, Ahead
  <1>5. /\ wq' \in Seq(Waitx) /\ IsInjective(wq')
        /\ Range(wq') = Range(wq) \ {wq[j] : j \in 1..i}
    <2>1. i \in 0..Len(wq)
      BY <1>1
    <2>2. IsRest(SubSeq(wq, i + 1, Len(wq)), Waitx, wq, i)
      BY ONLY <1>1, <2>1, DropParts
    <2>. QED  BY <1>4, <2>2 DEF IsRest
  <1>6. {wq[j] : j \in 1..i} = {wq[i]} \cup Ahead(i)
    <2>1. \A j \in 1..i : j = i \/ j \in 1..(i - 1)
      BY <1>1
    <2>2. i \in 1..i /\ \A j \in 1..(i - 1) : j \in 1..i
      BY <1>1
    <2>. QED  BY <2>1, <2>2 DEF Ahead
  <1>. HIDE DEF Ahead
  <1>7. heap'[wq[i]] = [state |-> IF timed THEN "ready" ELSE "wait",
                        done |-> d, who |-> heap[wq[i]].who, buf |-> b]
    BY <1>2, <1>4 DEF CallsInv, CallsTypeOK, HeapTypeOK
  <1>8. /\ \A w \in Ahead(i) : heap'[w] = Unused
        /\ \A w \in Waitx : w \notin {wq[i]} \cup Ahead(i) => heap'[w] = heap[w]
    BY <1>3, <1>4, QueueParts
  <1>9. HeapTypeOK'
    <2>1. ASSUME NEW w \in Waitx
          PROVE  heap'[w] \in [state : {"free", "wait", "ready", "timeout"}, done : 0..2,
                               who : Proc \cup {None}, buf : Elem \cup {None}]
      <3>1. CASE w = wq[i]
        BY <1>2, <1>7, <3>1 DEF CallsInv, CallsTypeOK, HeapTypeOK
      <3>2. CASE w \in Ahead(i)
        BY <1>8, <3>2 DEF Unused
      <3>3. CASE w \notin {wq[i]} \cup Ahead(i)
        BY <1>8, <3>3 DEF CallsInv, CallsTypeOK, HeapTypeOK
      <3>. QED  BY <3>1, <3>2, <3>3
    <2>. QED  BY <1>4, <2>1 DEF HeapTypeOK
  <1>. QED  BY <1>2, <1>3, <1>5, <1>6, <1>7, <1>8, <1>9

(* p serves the first in the queue, and is about to make it ready or has   *)
(* notified it.                                                            *)
LEMMA ServeKeeps ==
    ASSUME CallsInv, NEW p \in Proc, pc[p] = "idle", NEW i \in FirstLive,
           NEW d \in 1..2, NEW b \in Elem \cup {None}, Claim(i, d, b), WakeOwner(p, wq[i]),
           UNCHANGED <<timed, closed, mine, op, wakeups>>, out' \subseteq Elem \cup {None}
    PROVE  CallsInv'
  <1> DEFINE w == wq[i]
             o == heap[w].who
  <1>1. /\ w \in Waitx /\ w \in Unserved /\ ~ Served(w)
        /\ o \in Proc /\ mine[o] = w /\ Waiting(o) /\ o # p
        /\ o \in Coroutine => wakeups[o] = 0
        /\ \A q \in Proc : target[q] # w
    BY ClaimParts, QueueParts DEF Waiting
  <1>2. /\ wq' \in Seq(Waitx) /\ HeapTypeOK'
        /\ heap'[w].who = o /\ heap'[w].done # 0
        /\ heap'[w].state = "ready" \/ (heap'[w].state = "wait" /\ ~ timed)
    <2>1. /\ wq' \in Seq(Waitx) /\ HeapTypeOK'
          /\ heap'[w] = [state |-> IF timed THEN "ready" ELSE "wait",
                         done |-> d, who |-> o, buf |-> b]
      BY ClaimParts
    <2>. HIDE DEF w, o
    <2>. QED  BY <2>1
  <1>3. /\ Belongs' /\ QueuedOnce'
        /\ \A v \in Waitx : Served(v)' <=> Served(v) \/ v = w
        /\ \A v \in Waitx : Served(v) => heap'[v] = heap[v]
    <2>1. /\ {w} \in SUBSET Unserved /\ Ahead(i) \in SUBSET (Range(wq) \ Unserved)
          /\ IsInjective(wq') /\ Range(wq') = Range(wq) \ ({w} \cup Ahead(i))
          /\ \A v \in Ahead(i) : heap'[v] = Unused
          /\ \A v \in Waitx : v \notin {w} \cup Ahead(i) => heap'[v] = heap[v]
      BY <1>1, ClaimParts
    <2>. HIDE DEF w, o
    <2>2. /\ \A v \in {w} : /\ heap'[v].who = heap[v].who /\ heap'[v].done # 0
                            /\ heap'[v].state = "ready" \/ (heap'[v].state = "wait" /\ ~ timed)
          /\ \A v \in Ahead(i) : heap'[v].state = "free"
      BY <1>2, <2>1 DEF o, Unused
    <2>3. Leave({w}, Ahead(i))
      BY <2>1, <2>2 DEF Leave
    <2>4. /\ Belongs' /\ QueuedOnce'
          /\ \A v \in Waitx : Served(v)' <=> Served(v) \/ v \in {w}
          /\ \A v \in Waitx : Served(v) => heap'[v] = heap[v]
      BY <2>3, HeapAfter
    <2>. QED  BY <2>4
  <1>4. mine[p] = None /\ target[p] = None
    BY DEF CallsInv, CallsInPlace, Waiting
  <1>5. IF o \in Coroutine
        THEN pc' = [pc EXCEPT ![p] = "wake"] /\ target' = [target EXCEPT ![p] = w]
        ELSE NotifyAll(p) /\ UNCHANGED target
    BY DEF WakeOwner
  <1>6. \A q \in Proc : Waiting(q) => mine[q] \in Waitx /\ mine[q] # None /\ heap[mine[q]].who = q
    BY DEF CallsInv, CallsTypeOK, CallsInPlace, Belongs
  <1>. HIDE DEF w, o
  <1>7. \A q \in Proc : target[q] # None => /\ q # p /\ target[q] \in Waitx /\ Served(target[q])
                                            /\ heap'[target[q]] = heap[target[q]]
    BY <1>3, <1>4 DEF CallsInv, CallsTypeOK, ToldOnce
  <1>8. \A q \in Proc : mine[q] # None => q # p /\ mine[q] \in Waitx /\ (mine[q] = w => q = o)
    BY <1>1, <1>4 DEF CallsInv, CallsTypeOK, Belongs, o
  <1>9. \A c \in Coroutine : c \in Proc /\ c \notin Thread
    BY PipeWaitersAssumption DEF Proc
  <1>10. CASE o \in Coroutine
    <2>1. pc' = [pc EXCEPT ![p] = "wake"] /\ target' = [target EXCEPT ![p] = w]
      BY <1>5, <1>10
    <2>2. CallsTypeOK'
      BY <1>1, <1>2, <2>1 DEF CallsInv, CallsTypeOK, PcState
    <2>3. CallsInPlace'
      BY <1>1, <1>4, <2>1, NoneApart DEF CallsInv, CallsTypeOK, CallsInPlace, Waiting
    <2>4. \A q \in Proc : /\ q = p => target'[q] = w
                          /\ q # p => target'[q] = target[q] /\ pc'[q] = pc[q]
      BY <2>1 DEF CallsInv, CallsTypeOK
    <2>5. ToldOnce'
      <3>1. ASSUME NEW c \in Coroutine
            PROVE  /\ wakeups'[c] \in {0, 1}
                   /\ wakeups'[c] = 1 => mine'[c] # None /\ Served(mine[c])'
                   /\ mine'[c] # None /\ Served(mine[c])'
                        => wakeups'[c] = 1 \/ \E q \in Proc : target'[q] = mine'[c]
        BY <1>3, <1>7, <1>8, <1>9, <2>4 DEF CallsInv, ToldOnce, Served, InCall
      <3>2. ASSUME NEW q \in Proc, target'[q] # None
            PROVE  /\ Served(target[q])'
                   /\ heap'[target'[q]].who \in Coroutine
                   /\ wakeups'[heap'[target'[q]].who] = 0
        <4>1. CASE q = p
          BY <1>1, <1>2, <1>3, <1>10, <2>4, <4>1 DEF Served, InCall
        <4>2. CASE q # p
          <5>1. target'[q] = target[q] /\ target[q] # None
            BY <2>4, <3>2, <4>2
          <5>2. /\ Served(target[q])' /\ heap[target[q]].who \in Coroutine
                /\ wakeups[heap[target[q]].who] = 0
            BY <1>7, <5>1 DEF CallsInv, ToldOnce, Served, InCall
          <5>. QED  BY <1>7, <5>1, <5>2
        <4>. QED  BY <4>1, <4>2
      <3>3. \A q, r \in Proc : target'[q] # None /\ target'[q] = target'[r] => q = r
        BY <1>1, <2>4 DEF CallsInv, ToldOnce
      <3>4. ASSUME NEW t \in Thread, mine'[t] # None, Served(mine[t])'
            PROVE  pc'[t] \in {"woken", "over"}
        <4>1. t \in Proc /\ t # p /\ mine[t] # w /\ mine[t] \in Waitx /\ mine'[t] = mine[t]
          BY <1>8, <1>9, <1>10, <3>4 DEF Proc
        <4>2. Served(mine[t])
          BY <1>3, <3>4, <4>1 DEF Served, InCall
        <4>. QED  BY <2>4, <3>4, <4>1, <4>2 DEF CallsInv, ToldOnce
      <3>. QED  BY <3>1, <3>2, <3>3, <3>4 DEF ToldOnce
    <2>. QED  BY <1>3, <2>2, <2>3, <2>5 DEF CallsInv
  <1>11. CASE o \notin Coroutine
    <2>1. NotifyAll(p) /\ UNCHANGED target
      BY <1>5, <1>11
    <2>2. CallsTypeOK'
      BY <1>1, <1>2, <2>1 DEF CallsInv, CallsTypeOK, PcState, NotifyAll
    <2>3. CallsInPlace'
      BY <1>4, <2>1 DEF CallsInv, CallsTypeOK, CallsInPlace, Waiting, NotifyAll
    <2>4. ToldOnce'
      <3>1. ASSUME NEW c \in Coroutine
            PROVE  /\ wakeups'[c] \in {0, 1}
                   /\ wakeups'[c] = 1 => mine'[c] # None /\ Served(mine[c])'
                   /\ mine'[c] # None /\ Served(mine[c])'
                        => wakeups'[c] = 1 \/ \E q \in Proc : target'[q] = mine'[c]
        BY <1>3, <1>8, <1>9, <1>11, <2>1 DEF CallsInv, ToldOnce, Served, InCall
      <3>2. ASSUME NEW q \in Proc, target'[q] # None
            PROVE  /\ Served(target[q])'
                   /\ heap'[target'[q]].who \in Coroutine
                   /\ wakeups'[heap'[target'[q]].who] = 0
        <4>1. target'[q] = target[q] /\ target[q] # None
          BY <2>1, <3>2
        <4>2. /\ Served(target[q])' /\ heap[target[q]].who \in Coroutine
              /\ wakeups[heap[target[q]].who] = 0
          BY <1>7, <4>1 DEF CallsInv, ToldOnce, Served, InCall
        <4>. QED  BY <1>7, <4>1, <4>2
      <3>3. \A q, r \in Proc : target'[q] # None /\ target'[q] = target'[r] => q = r
        BY <2>1 DEF CallsInv, ToldOnce
      <3>4. ASSUME NEW t \in Thread, mine'[t] # None, Served(mine[t])'
            PROVE  pc'[t] \in {"woken", "over"}
        <4>1. t \in Proc /\ t # p /\ mine[t] \in Waitx /\ mine'[t] = mine[t] /\ t \notin Coroutine
          BY <1>8, <1>9, <3>4 DEF Proc
        <4>2. pc[t] \in {"cv", "woken", "over"}
          BY <3>4, <4>1 DEF CallsInv, CallsInPlace, Waiting
        <4>. QED  BY <2>1, <4>1, <4>2 DEF NotifyAll
      <3>. QED  BY <3>1, <3>2, <3>3, <3>4 DEF ToldOnce
    <2>. QED  BY <1>3, <2>2, <2>3, <2>4 DEF CallsInv
  <1>. QED  BY <1>10, <1>11

(* Without anybody to serve, those that timed out are dropped.             *)
LEMMA NobodyLive == ASSUME CallsInv PROVE FirstLive = {} <=> Unserved = {}
  <1>1. Len(wq) \in Nat /\ DOMAIN wq = 1..Len(wq)
    BY LenProperties DEF CallsInv, CallsTypeOK
  <1>2. ASSUME NEW i \in FirstLive PROVE Unserved # {}
    BY <1>2 DEF FirstLive, Unserved, Range
  <1>3. ASSUME Unserved # {} PROVE FirstLive # {}
    <2> DEFINE S == {i \in 1..Len(wq) : heap[wq[i]].state = "wait"}
    <2>1. S # {} /\ S \subseteq Nat
      BY <1>1, <1>3 DEF Unserved, Range
    <2>2. PICK i \in S : \A j \in S : i <= j
      <3>. HIDE DEF S
      <3>. QED  BY <2>1, SmallestOfNumbers
    <2>3. \A j \in 1..(i - 1) : heap[wq[j]].state # "wait"
      BY <1>1, <2>2
    <2>. QED  BY <1>1, <2>3 DEF FirstLive
  <1>. QED  BY <1>2, <1>3

LEMMA DropKeeps ==
    ASSUME CallsInv, DropDead,
           UNCHANGED <<timed, closed, mine, op, target, wakeups, pc>>, out' \subseteq Elem \cup {None}
    PROVE  CallsInv' /\ Unserved = {} /\ Unserved' = {} /\ \A w \in Waitx : InCall(w) => heap'[w] = heap[w]
  <1>1. Unserved = {} /\ wq' = <<>> /\ heap' = [w \in Waitx |-> IF w \in Range(wq) THEN Unused ELSE heap[w]]
    BY NobodyLive DEF DropDead
  <1>2. wq' \in Seq(Waitx) /\ IsInjective(wq') /\ Range(wq') = {}
    BY <1>1, EmptySeq DEF Range, IsInjective
  <1>3. HeapTypeOK'
    BY <1>1 DEF CallsInv, CallsTypeOK, HeapTypeOK, Unused
  <1>4. /\ Belongs' /\ QueuedOnce'
        /\ \A w \in Waitx : Served(w)' <=> Served(w)
        /\ \A w \in Waitx : Served(w) => heap'[w] = heap[w]
    <2>1. /\ Range(wq) \in SUBSET (Range(wq) \ Unserved) /\ {} \in SUBSET Unserved
          /\ Range(wq') = Range(wq) \ ({} \cup Range(wq))
          /\ \A w \in Range(wq) : heap'[w].state = "free"
          /\ \A w \in Waitx : w \notin {} \cup Range(wq) => heap'[w] = heap[w]
      BY <1>1, <1>2, QueueParts DEF Unused
    <2>2. Leave({}, Range(wq))
      BY <1>2, <2>1 DEF Leave
    <2>. QED  BY <2>2, HeapAfter
  <1>5. CallsTypeOK' /\ CallsInPlace'
    BY <1>2, <1>3 DEF CallsInv, CallsTypeOK, CallsInPlace, Waiting
  <1>6. ToldOnce'
    <2>1. \A q \in Proc : /\ mine[q] # None => mine[q] \in Waitx
                          /\ target[q] # None => target[q] \in Waitx
      BY DEF CallsInv, CallsTypeOK
    <2>2. \A c : c \in Coroutine \/ c \in Thread => c \in Proc
      BY DEF Proc
    <2>3. \A q \in Proc : /\ mine'[q] # None => (Served(mine[q])' <=> Served(mine[q]))
                          /\ target'[q] # None => (Served(target[q])' <=> Served(target[q]))
      BY <1>4, <2>1 DEF Served, InCall
    <2>. QED  BY <1>4, <2>1, <2>2, <2>3 DEF CallsInv, ToldOnce
  <1>7. Unserved' = {} /\ \A w \in Waitx : InCall(w) => heap'[w] = heap[w]
    BY <1>1, <1>2, <1>4, QueueParts DEF Unserved
  <1>. QED  BY <1>1, <1>3, <1>4, <1>5, <1>6, <1>7 DEF CallsInv

(* close() tells all that wait at an empty channel.                        *)
LEMMA CloseKeeps ==
    ASSUME CallsInv, NEW p \in Proc, NEW empty \in BOOLEAN, CloseLocked(p, empty)
    PROVE  /\ CallsInv' /\ closed' = 2 /\ pc[p] = "lock"
           /\ UNCHANGED <<timed, mine, op, out, got>>
           /\ IF empty
              THEN /\ Unserved' = {}
                   /\ \A w \in Unserved :
                         heap'[w] = [state |-> "ready", done |-> 2, who |-> heap[w].who, buf |-> heap[w].buf]
                   /\ \A w \in Waitx : Served(w) => heap'[w] = heap[w]
                   /\ \A w \in Waitx : InCall(w)' <=> InCall(w)
              ELSE UNCHANGED <<wq, heap>>
  <1>0. pc[p] = "lock" /\ closed' = 2 /\ UNCHANGED <<timed, mine, op, target, out, got>>
    BY DEF CloseLocked
  <1>1. CASE ~ empty
    <2>1. pc' = [pc EXCEPT ![p] = "idle"] /\ UNCHANGED <<timed, wq, heap, wakeups>>
      BY <1>1 DEF CloseLocked
    <2>2. /\ pc' \in [Proc -> PcState]
          /\ \A q \in Proc : pc'[q] # pc[q] =>
                ~ Waiting(q) /\ pc[q] # "wake" /\ pc'[q] \in {"idle", "lock", "poll"}
      BY <1>0, <2>1 DEF CallsInv, CallsTypeOK, PcState, Waiting
    <2>3. closed' \in 0..2 /\ out' \subseteq Elem \cup {None}
      BY <1>0 DEF CallsInv, CallsTypeOK
    <2>. QED  BY <1>0, <1>1, <2>1, <2>2, <2>3, PcMoves
  <1>2. CASE empty
    <2>1. /\ wq' = <<>>
          /\ heap' = [w \in Waitx |->
                        IF w \in Unserved
                        THEN [heap[w] EXCEPT !.state = "ready", !.done = 2]
                        ELSE IF w \in Range(wq) THEN Unused
                        ELSE heap[w]]
          /\ wakeups' = [c \in Coroutine |->
                           wakeups[c] + Cardinality({w \in Unserved : heap[w].who = c})]
          /\ IF \E w \in Unserved : heap[w].who \in Thread
             THEN NotifyAll(p) ELSE pc' = [pc EXCEPT ![p] = "idle"]
      BY <1>2 DEF CloseLocked
    <2>2. wq' \in Seq(Waitx) /\ IsInjective(wq') /\ Range(wq') = {}
      <3>1. wq' = <<>>
        BY <2>1
      <3>. QED  BY <3>1, EmptySeq DEF Range, IsInjective
    <2>3. /\ \A w \in Unserved :
                heap'[w] = [state |-> "ready", done |-> 2, who |-> heap[w].who, buf |-> heap[w].buf]
          /\ \A w \in Range(wq) \ Unserved : heap'[w] = Unused
          /\ \A w \in Waitx : w \notin Range(wq) => heap'[w] = heap[w]
      <3>1. \A w \in Unserved : w \in Waitx /\ w \in Range(wq)
        BY QueueParts
      <3>2. ASSUME NEW w \in Unserved
            PROVE  heap'[w] = [state |-> "ready", done |-> 2, who |-> heap[w].who, buf |-> heap[w].buf]
        <4>1. heap[w] \in [state : {"free", "wait", "ready", "timeout"}, done : 0..2,
                           who : Proc \cup {None}, buf : Elem \cup {None}]
          BY <3>1 DEF CallsInv, CallsTypeOK, HeapTypeOK
        <4>2. heap'[w] = [heap[w] EXCEPT !.state = "ready", !.done = 2]
          BY <2>1, <3>1
        <4>. QED  BY ONLY <4>1, <4>2, Zenon
      <3>3. \A w \in Range(wq) : w \in Waitx
        BY QueueParts
      <3>. QED  BY <2>1, <3>1, <3>2, <3>3
    <2>4. HeapTypeOK'
      <3>1. ASSUME NEW w \in Waitx
            PROVE  heap'[w] \in [state : {"free", "wait", "ready", "timeout"}, done : 0..2,
                                 who : Proc \cup {None}, buf : Elem \cup {None}]
        <4>1. CASE w \in Unserved
          <5>1. heap'[w] = [state |-> "ready", done |-> 2, who |-> heap[w].who, buf |-> heap[w].buf]
            BY <2>3, <4>1
          <5>. QED  BY <5>1 DEF CallsInv, CallsTypeOK, HeapTypeOK
        <4>2. CASE w \in Range(wq) \ Unserved
          <5>1. heap'[w] = Unused
            BY <2>3, <4>2
          <5>. QED  BY <5>1 DEF Unused
        <4>3. CASE w \notin Range(wq)
          BY <2>3, <4>3 DEF CallsInv, CallsTypeOK, HeapTypeOK
        <4>. QED  BY <4>1, <4>2, <4>3
      <3>. QED  BY <2>1, <3>1 DEF HeapTypeOK
    <2>5. ASSUME NEW w \in Unserved
          PROVE  /\ heap'[w].who = heap[w].who /\ heap'[w].done # 0
                 /\ heap'[w].state = "ready" \/ (heap'[w].state = "wait" /\ ~ timed)
      <3>1. heap'[w] = [state |-> "ready", done |-> 2, who |-> heap[w].who, buf |-> heap[w].buf]
        BY <2>3
      <3>. QED  BY <3>1
    <2>6. /\ Belongs' /\ QueuedOnce'
          /\ \A w \in Waitx : Served(w)' <=> Served(w) \/ w \in Unserved
          /\ \A w \in Waitx : Served(w) => heap'[w] = heap[w]
      <3> DEFINE D == Range(wq) \ Unserved
      <3>1. /\ D \in SUBSET (Range(wq) \ Unserved) /\ Unserved \in SUBSET Unserved
            /\ Range(wq) = Unserved \cup D
        BY QueueParts
      <3>2. /\ Range(wq') = Range(wq) \ (Unserved \cup D)
            /\ \A w \in D : heap'[w].state = "free"
            /\ \A w \in Waitx : w \notin Unserved \cup D => heap'[w] = heap[w]
        BY <2>2, <2>3, <3>1 DEF Unused
      <3>. HIDE DEF D
      <3>3. Leave(Unserved, D)
        BY <1>0, <2>2, <2>5, <3>1, <3>2 DEF Leave
      <3>. QED  BY <3>3, HeapAfter
    <2>7. \A w \in Waitx : InCall(w)' <=> InCall(w)
      BY <2>2, <2>6, QueueParts DEF Served, InCall, QueuedOnce
    <2>8. ASSUME NEW c \in Coroutine
          PROVE  /\ c \in Proc
                 /\ \A w \in Unserved : heap[w].who = c => wakeups'[c] = 1 /\ mine[c] = w
                 /\ (\A w \in Unserved : heap[w].who # c) => wakeups'[c] = wakeups[c]
      <3> DEFINE told == {w \in Unserved : heap[w].who = c}
      <3>1. wakeups[c] \in Nat /\ wakeups'[c] = wakeups[c] + Cardinality(told)
        BY <2>1 DEF CallsInv, CallsTypeOK
      <3>2. ASSUME NEW w \in Unserved, heap[w].who = c
            PROVE  wakeups'[c] = 1 /\ mine[c] = w
        <4>1. told = {w} /\ wakeups[c] = 0 /\ mine[c] = w
          BY <3>2, QueueParts
        <4>. HIDE DEF told
        <4>2. Cardinality(told) = 1
          BY <4>1, FS_Singleton
        <4>. QED  BY <3>1, <4>1, <4>2
      <3>3. ASSUME \A w \in Unserved : heap[w].who # c
            PROVE  wakeups'[c] = wakeups[c]
        <4>1. told = {}
          BY <3>3
        <4>. HIDE DEF told
        <4>2. Cardinality(told) = 0
          BY <4>1, FS_EmptySet
        <4>. QED  BY <3>1, <4>2
      <3>. QED  BY <3>2, <3>3 DEF Proc
    <2>9. /\ pc' \in [Proc -> PcState]
          /\ pc'[p] = "idle"
          /\ \A q \in Proc : q # p =>
                pc'[q] = pc[q] \/ (q \in Thread /\ pc[q] = "cv" /\ pc'[q] = "woken")
      BY <1>0, <2>1 DEF CallsInv, CallsTypeOK, PcState, NotifyAll
    <2>10. /\ wakeups' \in [Coroutine -> Nat]
           /\ mine[p] = None /\ target[p] = None
      <3>1. \A c \in Coroutine : wakeups'[c] \in Nat
        BY <2>8, 1 \in Nat DEF CallsInv, CallsTypeOK
      <3>. QED  BY <1>0, <2>1, <3>1 DEF CallsInv, CallsInPlace, Waiting
    <2>11. CallsTypeOK'
      BY <1>0, <2>2, <2>4, <2>9, <2>10 DEF CallsInv, CallsTypeOK
    <2>12. CallsInPlace'
      BY <1>0, <2>9, <2>10 DEF CallsInv, CallsTypeOK, CallsInPlace, Waiting
    <2>13. \A q \in Proc : /\ mine[q] # None => /\ mine[q] \in Waitx /\ heap[mine[q]].who = q /\ q # p
                                                /\ Waiting(q)
                           /\ target[q] # None => /\ target[q] \in Waitx /\ Served(target[q])
                                                  /\ heap'[target[q]] = heap[target[q]]
      BY <2>6, <2>10 DEF CallsInv, CallsTypeOK, CallsInPlace, ToldOnce, Belongs
    <2>14. ToldOnce'
      <3>1. ASSUME NEW c \in Coroutine
            PROVE  /\ wakeups'[c] \in {0, 1}
                   /\ wakeups'[c] = 1 => mine'[c] # None /\ Served(mine[c])'
                   /\ mine'[c] # None /\ Served(mine[c])'
                        => wakeups'[c] = 1 \/ \E q \in Proc : target'[q] = mine'[c]
        <4>1. CASE \E w \in Unserved : heap[w].who = c
          <5>1. PICK w \in Unserved : heap[w].who = c
            BY <4>1
          <5>2. wakeups'[c] = 1 /\ mine[c] = w /\ w \in Waitx
            BY <2>8, <5>1, QueueParts
          <5>3. Served(mine[c])'
            BY <1>0, <2>6, <5>2 DEF Served, InCall
          <5>. QED  BY <1>0, <5>2, <5>3, NoneApart
        <4>2. CASE \A w \in Unserved : heap[w].who # c
          <5>1. wakeups'[c] = wakeups[c] /\ c \in Proc
            BY <2>8, <4>2
          <5>2. mine[c] # None => (Served(mine[c])' <=> Served(mine[c]))
            BY <1>0, <2>6, <2>13, <4>2, <5>1 DEF Served, InCall
          <5>. QED  BY <1>0, <5>1, <5>2 DEF CallsInv, ToldOnce
        <4>. QED  BY <4>1, <4>2
      <3>2. ASSUME NEW q \in Proc, target'[q] # None
            PROVE  /\ Served(target[q])'
                   /\ heap'[target'[q]].who \in Coroutine
                   /\ wakeups'[heap'[target'[q]].who] = 0
        <4> DEFINE c == heap[target[q]].who
        <4>1. target'[q] = target[q] /\ target[q] # None
          BY <1>0, <3>2
        <4>2. /\ Served(target[q])' /\ c \in Coroutine /\ wakeups[c] = 0
          BY <2>13, <4>1 DEF CallsInv, ToldOnce, Served, InCall
        <4>3. \A w \in Unserved : heap[w].who # c
          BY <2>13, <4>1, QueueParts DEF CallsInv, Belongs, Served
        <4>. HIDE DEF c
        <4>4. wakeups'[c] = 0
          BY <2>8, <4>2, <4>3
        <4>. QED  BY <2>13, <4>1, <4>2, <4>4 DEF c
      <3>3. \A q, r \in Proc : target'[q] # None /\ target'[q] = target'[r] => q = r
        BY <1>0 DEF CallsInv, ToldOnce
      <3>4. ASSUME NEW t \in Thread, mine'[t] # None, Served(mine[t])'
            PROVE  pc'[t] \in {"woken", "over"}
        <4>1. t \in Proc /\ t # p /\ mine[t] \in Waitx /\ mine'[t] = mine[t] /\ heap[mine[t]].who = t
              /\ pc[t] \in {"cv", "woken", "over"}
          BY <1>0, <2>13, <3>4, PipeWaitersAssumption DEF Proc, CallsInv, CallsInPlace, Waiting
        <4>2. CASE Served(mine[t])
          <5>1. pc[t] \in {"woken", "over"}
            BY <1>0, <3>4, <4>2 DEF CallsInv, ToldOnce
          <5>. QED  BY <2>9, <4>1, <5>1
        <4>3. CASE mine[t] \in Unserved
          <5>1. NotifyAll(p)
            BY <2>1, <4>1, <4>3
          <5>. QED  BY <4>1, <5>1 DEF NotifyAll
        <4>. QED  BY <2>6, <3>4, <4>1, <4>2, <4>3 DEF Served, InCall
      <3>. QED  BY <3>1, <3>2, <3>3, <3>4 DEF ToldOnce
    <2>15. Unserved' = {}
      BY <2>2 DEF Unserved
    <2>. QED  BY <1>0, <1>2, <2>3, <2>6, <2>7, <2>11, <2>12, <2>14, <2>15 DEF CallsInv
  <1>. QED  BY <1>1, <1>2

(* Somebody begins to wait.                                                *)
LEMMA EnqueueKeeps ==
    ASSUME CallsInv, NEW p \in Proc, pc[p] = "idle", NEW o \in {"read", "write"},
           NEW b \in Elem \cup {None}, NEW keep \in BOOLEAN, keep \/ FirstLive = {},
           Enqueue(p, o, b, keep), out' \subseteq Elem \cup {None}
    PROVE  /\ CallsInv' /\ UNCHANGED <<timed, closed, got>>
           /\ op' = [op EXCEPT ![p] = o]
           /\ \E x \in Waitx :
                 /\ heap[x].state = "free"
                 /\ heap'[x] = [state |-> "wait", done |-> 0, who |-> p, buf |-> b]
                 /\ Unserved' = Unserved \cup {x}
                 /\ \A w \in Waitx : InCall(w) => heap'[w] = heap[w]
                 /\ \A w \in Waitx : InCall(w)' <=> InCall(w) \/ w = x
  <1>1. PICK x \in Waitx :
          /\ heap[x].state = "free"
          /\ wq' = IF keep THEN Append(wq, x) ELSE <<x>>
          /\ heap' = [w \in Waitx |->
                        IF w = x
                        THEN [state |-> "wait", done |-> 0, who |-> p, buf |-> b]
                        ELSE IF ~ keep /\ w \in Range(wq) THEN Unused
                        ELSE heap[w]]
          /\ mine' = [mine EXCEPT ![p] = x]
    BY DEF Enqueue, First
  <1>2. /\ op' = [op EXCEPT ![p] = o]
        /\ pc' = [pc EXCEPT ![p] = IF p \in Coroutine THEN "enq" ELSE "cv"]
        /\ UNCHANGED <<timed, closed, target, wakeups, got>>
    BY DEF Enqueue
  <1>3. /\ mine[p] = None /\ target[p] = None /\ x # None /\ x \notin Range(wq)
        /\ ~ InCall(x) /\ ~ Served(x)
    BY <1>1, NoneApart DEF CallsInv, CallsInPlace, QueuedOnce, Waiting, InCall, Served
  <1>4. /\ wq' \in Seq(Waitx) /\ IsInjective(wq')
        /\ Range(wq') = (IF keep THEN Range(wq) ELSE {}) \cup {x}
    <2>1. CASE keep
      BY <1>1, <1>3, <2>1, AppendParts DEF CallsInv, CallsTypeOK, QueuedOnce
    <2>2. CASE ~ keep
      <3>1. wq' = <<x>>
        BY <1>1, <2>2
      <3>2. <<x>> \in Seq(Waitx) /\ DOMAIN <<x>> = {1} /\ <<x>>[1] = x
        OBVIOUS
      <3>. QED  BY <2>2, <3>1, <3>2 DEF Range, IsInjective
    <2>. QED  BY <2>1, <2>2
  <1>5. ~ keep => Unserved = {}
    BY NobodyLive
  <1>6. /\ heap'[x] = [state |-> "wait", done |-> 0, who |-> p, buf |-> b]
        /\ \A w \in Waitx : w # x /\ ~ keep /\ w \in Range(wq) => heap'[w] = Unused
        /\ \A w \in Waitx : w # x /\ (keep \/ w \notin Range(wq)) => heap'[w] = heap[w]
    BY <1>1
  <1>7. \A w \in Waitx : InCall(w) => heap'[w] = heap[w] /\ InCall(w)' /\ w # x
    BY <1>3, <1>5, <1>6, QueueParts DEF InCall, Served
  <1>8. \A w \in Waitx : InCall(w)' <=> InCall(w) \/ w = x
    BY <1>6, <1>7 DEF InCall, Unused
  <1>9. HeapTypeOK'
    <2>1. \A w \in Waitx : heap'[w] \in [state : {"free", "wait", "ready", "timeout"}, done : 0..2,
                                         who : Proc \cup {None}, buf : Elem \cup {None}]
      BY <1>6 DEF CallsInv, CallsTypeOK, HeapTypeOK, Unused
    <2>. QED  BY <1>1, <2>1 DEF HeapTypeOK
  <1>10. CallsTypeOK'
    BY <1>1, <1>2, <1>4, <1>9 DEF CallsInv, CallsTypeOK, PcState
  <1>11. CallsInPlace'
    BY <1>1, <1>2, <1>3, NoneApart DEF CallsInv, CallsTypeOK, CallsInPlace, Waiting, Proc
  <1>12. \A q \in Proc : /\ q = p => mine'[q] = x
                         /\ q # p => mine'[q] = mine[q] /\ pc'[q] = pc[q]
                         /\ mine[q] # None => mine[q] \in Waitx /\ InCall(mine[q]) /\ heap[mine[q]].who = q
    BY <1>1, <1>2 DEF CallsInv, CallsTypeOK, Belongs
  <1>13. Belongs'
    <2>1. ASSUME NEW q \in Proc, mine'[q] # None
          PROVE  heap'[mine'[q]].who = q /\ InCall(mine[q])'
      BY <1>6, <1>7, <1>12, <2>1 DEF InCall
    <2>2. ASSUME NEW w \in Waitx, InCall(w)'
          PROVE  heap'[w].who \in Proc /\ mine'[heap'[w].who] = w
      <3>1. CASE w = x
        BY <1>6, <1>12, <3>1
      <3>2. CASE w # x
        <4>1. heap'[w] = heap[w] /\ heap[w].who \in Proc /\ mine[heap[w].who] = w /\ w # None
          BY <1>7, <1>8, <2>2, <3>2, NoneApart DEF CallsInv, Belongs
        <4>2. heap[w].who # p
          BY <1>3, <4>1
        <4>. QED  BY <1>12, <4>1, <4>2
      <3>. QED  BY <3>1, <3>2
    <2>. QED  BY <2>1, <2>2 DEF Belongs
  <1>14. QueuedOnce'
    <2>1. ASSUME NEW w \in Waitx
          PROVE  /\ heap'[w].state = "free" => w \notin Range(wq')
                 /\ heap'[w].state = "timeout" => w \in Range(wq')
                 /\ heap'[w].state = "wait" => (w \in Range(wq') <=> heap'[w].done = 0)
                 /\ heap'[w].state = "ready" => heap'[w].done # 0 /\ w \notin Range(wq')
                 /\ timed' /\ heap'[w].state = "wait" => heap'[w].done = 0
      <3>1. CASE w = x
        BY <1>4, <1>6, <3>1
      <3>2. CASE w # x /\ ~ keep /\ w \in Range(wq)
        BY <1>4, <1>6, <3>2 DEF Unused
      <3>3. CASE w # x /\ (keep \/ w \notin Range(wq))
        BY <1>2, <1>4, <1>6, <3>3 DEF CallsInv, QueuedOnce
      <3>. QED  BY <3>1, <3>2, <3>3
    <2>. QED  BY <1>4, <2>1 DEF QueuedOnce
  <1>15. \A w \in Waitx : Served(w)' <=> Served(w)
    BY <1>3, <1>6, <1>7, <1>8 DEF Served
  <1>16. ToldOnce'
    <2>1. \A c : c \in Coroutine \/ c \in Thread => c \in Proc
      BY DEF Proc
    <2>2. ASSUME NEW q \in Proc, mine'[q] # None, Served(mine[q])'
          PROVE  q # p /\ mine'[q] = mine[q] /\ Served(mine[q])
      <3>1. mine'[q] \in Waitx
        BY <1>12, <2>2
      <3>2. Served(mine'[q])
        BY <1>15, <2>2, <3>1 DEF Served, InCall
      <3>. QED  BY <1>3, <1>12, <3>2
    <2>3. ASSUME NEW c \in Coroutine, wakeups[c] = 1
          PROVE  c # p /\ mine'[c] = mine[c] /\ mine'[c] # None /\ Served(mine[c])'
      <3>1. mine[c] # None /\ Served(mine[c]) /\ c # p
        BY <1>3, <2>3 DEF CallsInv, ToldOnce
      <3>. QED  BY <1>12, <1>15, <2>1, <3>1 DEF Served, InCall
    <2>4. ASSUME NEW q \in Proc, target'[q] # None
          PROVE  /\ target'[q] = target[q] /\ Served(target[q])'
                 /\ heap'[target'[q]].who \in Coroutine
                 /\ wakeups'[heap'[target'[q]].who] = 0
      <3>1. /\ target'[q] = target[q] /\ target[q] # None /\ target[q] \in Waitx /\ Served(target[q])
            /\ heap[target[q]].who \in Coroutine /\ wakeups[heap[target[q]].who] = 0
        BY <1>2, <2>4 DEF CallsInv, CallsTypeOK, ToldOnce
      <3>2. heap'[target[q]] = heap[target[q]]
        BY <1>7, <3>1 DEF Served
      <3>. QED  BY <1>2, <3>1, <3>2 DEF Served, InCall
    <2>5. ASSUME NEW c \in Coroutine
          PROVE  /\ wakeups'[c] \in {0, 1}
                 /\ wakeups'[c] = 1 => mine'[c] # None /\ Served(mine[c])'
                 /\ mine'[c] # None /\ Served(mine[c])'
                      => wakeups'[c] = 1 \/ \E q \in Proc : target'[q] = mine'[c]
      BY <1>2, <2>1, <2>2, <2>3 DEF CallsInv, ToldOnce
    <2>6. ASSUME NEW t \in Thread, mine'[t] # None, Served(mine[t])'
          PROVE  pc'[t] \in {"woken", "over"}
      BY <1>12, <2>1, <2>2, <2>6 DEF CallsInv, ToldOnce
    <2>7. \A q, r \in Proc : target'[q] # None /\ target'[q] = target'[r] => q = r
      BY <1>2 DEF CallsInv, ToldOnce
    <2>. QED  BY <2>4, <2>5, <2>6, <2>7 DEF ToldOnce
  <1>17. Unserved' = Unserved \cup {x}
    <2>1. \A w \in Waitx : w \in Unserved' <=> InCall(w)' /\ ~ Served(w)'
      BY <1>4, <1>6, <1>14 DEF Unserved, InCall, Served, QueuedOnce
    <2>2. \A w \in Waitx : w \in Unserved <=> InCall(w) /\ ~ Served(w)
      BY QueueParts
    <2>3. Unserved \subseteq Waitx /\ Unserved' \subseteq Waitx
      BY <1>4, QueueParts DEF Unserved
    <2>. QED  BY <1>3, <1>8, <1>15, <2>1, <2>2, <2>3
  <1>. QED
    BY <1>1, <1>2, <1>6, <1>7, <1>8, <1>10, <1>11, <1>13, <1>14, <1>16, <1>17 DEF CallsInv

-----------------------------------------------------------------------------
(***************************************************************************)
(* What a step does to the calls that wait: whether a waitx is in a call,  *)
(* done and buf of it, and whether the call is a read.                     *)
(***************************************************************************)
Kind(w) == op[heap[w].who]
Same(w) == /\ InCall(w)' <=> InCall(w)
           /\ InCall(w) => /\ heap'[w].done = heap[w].done
                           /\ heap'[w].buf = heap[w].buf
                           /\ Kind(w)' = Kind(w)

LEMMA UnservedIs == ASSUME CallsInv PROVE Unserved = {w \in Waitx : InCall(w) /\ heap[w].done = 0}
  BY QueueParts DEF Served

(* Nothing happens to those that wait.                                     *)
Quiet == /\ \A w \in Waitx : Same(w)
         /\ UNCHANGED <<timed, op, out, got>>

(* The first in the queue, w, is served, with b.                           *)
Serve(w, b) ==
    /\ w \in Waitx /\ InCall(w) /\ heap[w].done = 0
    /\ InCall(w)' /\ heap'[w].done = 1 /\ heap'[w].buf = b /\ Kind(w)' = Kind(w)
    /\ \A v \in Waitx : v # w => Same(v)
    /\ UNCHANGED <<timed, closed, op>>

(* A call begins to wait with w, or ends.                                  *)
Begins(p, o, b, w) ==
    /\ w \in Waitx /\ ~ InCall(w)
    /\ InCall(w)' /\ heap'[w].done = 0 /\ heap'[w].buf = b /\ Kind(w)' = o
    /\ \A v \in Waitx : v # w => Same(v)
    /\ op' = [op EXCEPT ![p] = o]
    /\ UNCHANGED <<timed, closed, got>>
Ends(p, w) ==
    /\ w \in Waitx /\ InCall(w) /\ ~ InCall(w)' /\ Kind(w) = op[p]
    /\ \A v \in Waitx : v # w => Same(v)
    /\ op' = [op EXCEPT ![p] = "none"]
    /\ IF heap[w].done # 0
       THEN /\ out' = out
            /\ got' = IF Kind(w) = "read" /\ heap[w].done = 1 THEN got \cup {heap[w].buf} ELSE got
       ELSE /\ got' = got
            /\ out' = IF Kind(w) = "write" THEN out \cup {heap[w].buf} ELSE out
    /\ UNCHANGED <<timed, closed>>

(* All that wait are told that the channel is closed.                      *)
Told ==
    /\ \A w \in Waitx :
          /\ InCall(w)' <=> InCall(w)
          /\ InCall(w) => /\ heap'[w].done = IF heap[w].done = 0 THEN 2 ELSE heap[w].done
                          /\ heap'[w].buf = heap[w].buf
                          /\ Kind(w)' = Kind(w)
    /\ UNCHANGED <<timed, op, out, got>>

LEMMA ServeDoes ==
    ASSUME CallsInv, NEW p \in Proc, pc[p] = "idle", NEW i \in FirstLive,
           NEW b \in Elem \cup {None}, Claim(i, 1, b), WakeOwner(p, wq[i]),
           UNCHANGED <<timed, closed, mine, op, wakeups>>, out' \subseteq Elem \cup {None}
    PROVE  CallsInv' /\ \E w \in Waitx : w = wq[i] /\ Serve(w, b)
  <1>1. CallsInv' /\ UNCHANGED op
    BY ServeKeeps, 1 \in 1..2
  <1>0. PICK w : w = wq[i]
    OBVIOUS
  <1>2. /\ w \in Unserved /\ Ahead(i) \in SUBSET (Range(wq) \ Unserved)
        /\ heap'[w] = [state |-> IF timed THEN "ready" ELSE "wait",
                       done |-> 1, who |-> heap[w].who, buf |-> b]
        /\ \A v \in Ahead(i) : heap'[v] = Unused
        /\ \A v \in Waitx : v \notin {w} \cup Ahead(i) => heap'[v] = heap[v]
    BY <1>0, ClaimParts, 1 \in 1..2
  <1>3. w \in Waitx /\ InCall(w) /\ heap[w].done = 0
    BY <1>2, QueueParts
  <1>4. InCall(w)' /\ heap'[w].done = 1 /\ heap'[w].buf = b /\ Kind(w)' = Kind(w)
    <2>1. /\ heap'[w].state \in {"wait", "ready"} /\ heap'[w].who = heap[w].who
          /\ heap'[w].done = 1 /\ heap'[w].buf = b
      BY <1>2
    <2>. QED  BY <1>1, <2>1 DEF InCall, Kind
  <1>5. ASSUME NEW v \in Waitx, v # w PROVE Same(v)
    <2>1. CASE v \in Ahead(i)
      <3>1. heap'[v] = Unused /\ ~ InCall(v)
        BY <1>2, <2>1, QueueParts DEF InCall
      <3>. QED  BY <3>1 DEF InCall, Same, Unused
    <2>2. CASE v \notin Ahead(i)
      <3>1. heap'[v] = heap[v]
        BY <1>2, <1>5, <2>2
      <3>. QED  BY <1>1, <3>1 DEF InCall, Same, Kind
    <2>. QED  BY <2>1, <2>2
  <1>. QED  BY <1>0, <1>1, <1>3, <1>4, <1>5 DEF Serve

LEMMA DropDoes ==
    ASSUME CallsInv, DropDead,
           UNCHANGED <<timed, closed, mine, op, target, wakeups, pc>>, out' \subseteq Elem \cup {None}
    PROVE  CallsInv' /\ Unserved = {} /\ Unserved' = {} /\ \A w \in Waitx : Same(w)
  <1>1. CallsInv' /\ Unserved = {} /\ Unserved' = {} /\ \A w \in Waitx : InCall(w) => heap'[w] = heap[w]
    BY DropKeeps
  <1>2. \A w \in Waitx : heap'[w] = heap[w] \/ heap'[w] = Unused
    BY DEF DropDead
  <1>. QED  BY <1>1, <1>2 DEF Same, InCall, Kind, Unused

LEMMA CloseDoes ==
    ASSUME CallsInv, NEW p \in Proc, NEW empty \in BOOLEAN, CloseLocked(p, empty)
    PROVE  /\ CallsInv' /\ closed' = 2
           /\ IF empty THEN Told /\ Unserved' = {} ELSE Quiet
  <1>1. /\ CallsInv' /\ closed' = 2
        /\ UNCHANGED <<timed, mine, op, out, got>>
    BY CloseKeeps
  <1>2. CASE ~ empty
    <2>1. UNCHANGED <<wq, heap>>
      BY <1>2, CloseKeeps
    <2>. QED  BY <1>1, <1>2, <2>1 DEF Quiet, Same, InCall, Kind
  <1>3. CASE empty
    <2>1. /\ Unserved' = {}
          /\ \A w \in Unserved :
                heap'[w] = [state |-> "ready", done |-> 2, who |-> heap[w].who, buf |-> heap[w].buf]
          /\ \A w \in Waitx : Served(w) => heap'[w] = heap[w]
          /\ \A w \in Waitx : InCall(w)' <=> InCall(w)
      BY <1>3, CloseKeeps
    <2>2. ASSUME NEW w \in Waitx, InCall(w)
          PROVE  /\ heap'[w].done = IF heap[w].done = 0 THEN 2 ELSE heap[w].done
                 /\ heap'[w].buf = heap[w].buf
                 /\ Kind(w)' = Kind(w)
      <3>1. CASE w \in Unserved
        <4>1. heap'[w] = [state |-> "ready", done |-> 2, who |-> heap[w].who, buf |-> heap[w].buf]
              /\ heap[w].done = 0
          BY <2>1, <3>1, QueueParts
        <4>. QED  BY <1>1, <4>1 DEF Kind
      <3>2. CASE w \notin Unserved
        <4>1. heap'[w] = heap[w] /\ heap[w].done # 0
          BY <2>1, <2>2, <3>2, QueueParts DEF Served
        <4>. QED  BY <1>1, <4>1 DEF Kind
      <3>. QED  BY <3>1, <3>2
    <2>. QED  BY <1>1, <1>3, <2>1, <2>2 DEF Told
  <1>. QED  BY <1>2, <1>3

LEMMA EnqueueDoes ==
    ASSUME CallsInv, NEW p \in Proc, pc[p] = "idle", NEW o \in {"read", "write"},
           NEW b \in Elem \cup {None}, NEW keep \in BOOLEAN, keep \/ FirstLive = {},
           Enqueue(p, o, b, keep), out' \subseteq Elem \cup {None}
    PROVE  /\ CallsInv'
           /\ \E x \in Waitx : Begins(p, o, b, x) /\ Unserved' = Unserved \cup {x}
  <1>0. CallsInv'
    BY EnqueueKeeps
  <1>1. timed' = timed /\ closed' = closed /\ got' = got /\ op' = [op EXCEPT ![p] = o]
    BY DEF Enqueue
  <1>2. PICK x \in Waitx :
           /\ heap[x].state = "free"
           /\ heap'[x] = [state |-> "wait", done |-> 0, who |-> p, buf |-> b]
           /\ Unserved' = Unserved \cup {x}
           /\ \A w \in Waitx : InCall(w) => heap'[w] = heap[w]
           /\ \A w \in Waitx : InCall(w)' <=> InCall(w) \/ w = x
    BY EnqueueKeeps
  <1>3. mine[p] = None
    BY DEF CallsInv, CallsInPlace, Waiting
  <1>4. ASSUME NEW w \in Waitx, InCall(w) PROVE Kind(w)' = Kind(w)
    <2>1. heap'[w] = heap[w] /\ heap[w].who \in Proc /\ heap[w].who # p
      BY <1>2, <1>3, <1>4, NoneApart DEF CallsInv, Belongs
    <2>. QED  BY <1>1, <2>1 DEF Kind, CallsInv, CallsTypeOK
  <1>5. Kind(x)' = o
    BY <1>1, <1>2 DEF Kind, CallsInv, CallsTypeOK
  <1>6. \A v \in Waitx : v # x => Same(v)
    BY <1>2, <1>4 DEF Same
  <1>7. ~ InCall(x) /\ InCall(x)' /\ heap'[x].done = 0 /\ heap'[x].buf = b
    BY <1>2 DEF InCall
  <1>. QED  BY <1>0, <1>1, <1>2, <1>5, <1>6, <1>7 DEF Begins

(* A call ends: what becomes of its waitx and of its element.              *)
LEMMA EndsDoes ==
    ASSUME CallsInv, NEW p \in Proc, Waiting(p),
           \/ EndServed(p, mine[p]) /\ heap[mine[p]].done # 0
           \/ EndTimedOut(p, mine[p]) /\ timed
    PROVE  \E w \in Waitx : Ends(p, w)
  <1>0. PICK w : w = mine[p]
    OBVIOUS
  <1>1. /\ w \in Waitx /\ w # None /\ InCall(w) /\ heap[w].who = p
    BY <1>0 DEF CallsInv, CallsTypeOK, CallsInPlace, Belongs
  <1>2. /\ op' = [op EXCEPT ![p] = "none"] /\ UNCHANGED <<timed, closed>>
    BY DEF EndServed, EndTimedOut
  <1>3. /\ ~ InCall(w)' /\ \A v \in Waitx : v # w => heap'[v] = heap[v]
    <2>1. CASE EndServed(p, w)
      <3>1. heap' = [heap EXCEPT ![w] = Unused]
        BY <2>1 DEF EndServed
      <3>2. heap'[w].state = "free" /\ \A v \in Waitx : v # w => heap'[v] = heap[v]
        BY <1>1, <3>1 DEF CallsInv, CallsTypeOK, HeapTypeOK, Unused
      <3>. QED  BY <3>2 DEF InCall
    <2>2. CASE EndTimedOut(p, w)
      <3>1. heap' = [heap EXCEPT ![w].state = "timeout"]
        BY <2>2 DEF EndTimedOut
      <3>2. heap'[w].state = "timeout" /\ \A v \in Waitx : v # w => heap'[v] = heap[v]
        BY <1>1, <3>1 DEF CallsInv, CallsTypeOK, HeapTypeOK
      <3>. QED  BY <3>2 DEF InCall
    <2>. QED  BY <1>0, <2>1, <2>2
  <1>4. ASSUME NEW v \in Waitx, v # w PROVE Same(v)
    <2>1. heap'[v] = heap[v] /\ (InCall(v) => heap[v].who \in Proc /\ heap[v].who # p)
      BY <1>1, <1>3, <1>4 DEF CallsInv, Belongs
    <2>. QED  BY <1>2, <2>1 DEF Same, Kind, InCall, CallsInv, CallsTypeOK
  <1>5. Kind(w) = op[p]
    BY <1>1 DEF Kind
  <1>6. IF heap[w].done # 0
        THEN /\ out' = out
             /\ got' = IF Kind(w) = "read" /\ heap[w].done = 1 THEN got \cup {heap[w].buf} ELSE got
        ELSE /\ got' = got
             /\ out' = IF Kind(w) = "write" THEN out \cup {heap[w].buf} ELSE out
    <2>1. CASE EndServed(p, w) /\ heap[w].done # 0
      BY <1>5, <2>1 DEF EndServed
    <2>2. CASE EndTimedOut(p, w) /\ timed
      <3>1. heap[w].done = 0
        BY <1>1, <2>2 DEF EndTimedOut, CallsInv, QueuedOnce
      <3>. QED  BY <1>5, <2>2, <3>1 DEF EndTimedOut
    <2>. QED  BY <1>0, <2>1, <2>2
  <1>. QED
    BY <1>1, <1>2, <1>3, <1>4, <1>5, <1>6 DEF Ends

(* The steps of a process that is in a call or in close(), of timers and   *)
(* of spurious wake-ups.                                                   *)
LEMMA ProceedDoes ==
    ASSUME CallsInv, NEW p \in Proc,
           Proceed(p) \/ Expire(p) \/ (p \in Thread /\ SpuriousWakeup(p)) \/ CloseBegin(p)
    PROVE  /\ CallsInv'
           /\ \/ Quiet /\ (closed' = closed \/ (closed' = 1 /\ closed # 2))
              \/ \E w \in Waitx : Ends(p, w)
  <1> DEFINE P == /\ CallsInv'
                  /\ \/ Quiet /\ (closed' = closed \/ (closed' = 1 /\ closed # 2))
                     \/ \E w \in Waitx : Ends(p, w)
  <1>1. CASE AddReady(p)
    BY <1>1, AddReadyKeeps DEF AddReady, Quiet, Same, InCall, Kind
  <1>2. ASSUME UNCHANGED <<timed, wq, heap, mine, op, target, wakeups, out, got>>,
               closed' = closed \/ (closed' = 1 /\ closed # 2),
               NEW x \in PcState, pc' = [pc EXCEPT ![p] = x],
               \/ pc[p] \notin {"wake", "enq", "susp", "cv", "woken", "over"} /\ x \in {"idle", "lock", "poll"}
               \/ pc[p] = "enq" /\ x = "susp"
               \/ pc[p] = "cv" /\ x = "woken"
               \/ pc[p] = "cv" /\ x = "over" /\ timed
               \/ pc[p] \in {"woken", "over"} /\ x = "cv" /\ heap[mine[p]].done = 0
        PROVE  P
    <2>1. Quiet
      BY <1>2 DEF Quiet, Same, InCall, Kind
    <2>2. /\ closed' \in 0..2 /\ out' \subseteq Elem \cup {None}
          /\ pc' \in [Proc -> PcState]
      BY <1>2 DEF CallsInv, CallsTypeOK
    <2>3. \A q \in Proc : pc'[q] # pc[q] =>
              \/ ~ Waiting(q) /\ pc[q] # "wake" /\ pc'[q] \in {"idle", "lock", "poll"}
              \/ pc[q] = "enq" /\ pc'[q] = "susp"
              \/ pc[q] = "cv" /\ pc'[q] = "woken"
              \/ pc[q] = "cv" /\ pc'[q] = "over" /\ timed
              \/ pc[q] \in {"woken", "over"} /\ pc'[q] = "cv" /\ heap[mine[q]].done = 0
      BY <1>2 DEF CallsInv, CallsTypeOK, Waiting
    <2>4. CallsInv'
      BY <1>2, <2>2, <2>3, PcMoves
    <2>. QED  BY <1>2, <2>1, <2>4
  <1>3. CASE ClosePoll(p)
    <2>1. "idle" \in PcState
      BY DEF PcState
    <2>. QED  BY <1>2, <1>3, <2>1 DEF ClosePoll
  <1>4. CASE CloseBegin(p)
    <2>1. PICK x \in {"lock", "poll"} : pc' = [pc EXCEPT ![p] = x]
      BY <1>4 DEF CloseBegin
    <2>2. x \in PcState
      BY DEF PcState
    <2>3. /\ pc[p] = "idle" /\ closed' = 1 /\ closed # 2
          /\ UNCHANGED <<timed, wq, heap, mine, op, target, wakeups, out, got>>
      BY <1>4 DEF CloseBegin
    <2>. QED  BY <1>2, <2>1, <2>2, <2>3
  <1>5. CASE p \in Coroutine /\ WaitYield(p)
    <2>1. "susp" \in PcState
      BY DEF PcState
    <2>. QED  BY <1>2, <1>5, <2>1 DEF WaitYield
  <1>6. CASE p \in Coroutine /\ ResumeReady(p)
    <2>0. wakeups[p] \in {0, 1} /\ wakeups[p] > 0 /\ wakeups' = [wakeups EXCEPT ![p] = @ - 1]
      BY <1>6 DEF ResumeReady, CallsInv, ToldOnce
    <2>1. wakeups[p] = 1 /\ wakeups' = [wakeups EXCEPT ![p] = 0] /\ Waiting(p) /\ EndServed(p, mine[p])
      <3>1. wakeups[p] = 1 /\ wakeups[p] - 1 = 0
        BY <2>0
      <3>. QED  BY <1>6, <2>0, <3>1 DEF ResumeReady, Waiting
    <2>2. heap[mine[p]].done # 0
      BY <1>6, <2>1 DEF CallsInv, ToldOnce, Served
    <2>. QED  BY <1>6, <2>1, <2>2, EndServedKeeps, EndsDoes
  <1>7. CASE p \in Coroutine /\ TimeOut(p)
    <2>1. timed /\ Waiting(p) /\ EndTimedOut(p, mine[p])
      BY <1>7 DEF TimeOut, Waiting
    <2>. QED  BY <2>1, EndTimedOutKeeps, EndsDoes
  <1>8. CASE p \in Thread /\ SpuriousWakeup(p)
    <2>1. "woken" \in PcState
      BY DEF PcState
    <2>. QED  BY <1>2, <1>8, <2>1 DEF SpuriousWakeup
  <1>9. CASE p \in Thread /\ DeadlinePasses(p)
    <2>1. "over" \in PcState
      BY DEF PcState
    <2>. QED  BY <1>2, <1>9, <2>1 DEF DeadlinePasses
  <1>10. CASE p \in Thread /\ ThreadReturn(p)
    <2>1. p \notin Coroutine
      BY <1>10, PipeWaitersAssumption
    <2>2. PICK r \in BOOLEAN : ThreadServed(p, r) \/ ThreadAgain(p, r) \/ ThreadTimedOut(p, r)
      BY <1>10 DEF ThreadReturn
    <2>3. pc[p] \in {"woken", "over"} /\ Waiting(p) /\ (~ r => timed)
      BY <2>2 DEF ThreadServed, ThreadAgain, ThreadTimedOut, Awake, Waiting, CallsInv, CallsInPlace
    <2>4. CASE ThreadServed(p, r)
      <3>1. EndServed(p, mine[p]) /\ heap[mine[p]].done # 0 /\ UNCHANGED wakeups
        BY <2>4 DEF ThreadServed
      <3>. QED  BY <2>1, <2>3, <3>1, EndServedKeeps, EndsDoes
    <2>5. CASE ThreadAgain(p, r)
      <3>1. "cv" \in PcState
        BY DEF PcState
      <3>. QED  BY <1>2, <2>3, <2>5, <3>1 DEF ThreadAgain
    <2>6. CASE ThreadTimedOut(p, r)
      <3>1. EndTimedOut(p, mine[p]) /\ timed
        BY <2>3, <2>6 DEF ThreadTimedOut
      <3>. QED  BY <2>3, <3>1, EndTimedOutKeeps, EndsDoes
    <2>. QED  BY <2>2, <2>4, <2>5, <2>6
  <1>. QED
    BY <1>1, <1>3, <1>4, <1>5, <1>6, <1>7, <1>8, <1>9, <1>10 DEF Proceed, Expire

LEMMA UnservedThen ==
    ASSUME CallsInv'
    PROVE  Unserved' = {w \in Waitx : InCall(w)' /\ heap'[w].done = 0}
  <1>1. \A w \in Range(wq') : w \in Waitx
    BY ElementOfSeq, LenProperties DEF Range, CallsInv, CallsTypeOK
  <1>. QED  BY <1>1 DEF Unserved, InCall, CallsInv, QueuedOnce

LEMMA UnservedAfter ==
    ASSUME CallsInv, CallsInv'
    PROVE  /\ Quiet => Unserved' = Unserved /\ \A v \in Unserved : Kind(v)' = Kind(v)
           /\ \A w \in Waitx : \A b : Serve(w, b) =>
                 w \in Unserved /\ Unserved' = Unserved \ {w} /\ \A v \in Unserved : Kind(v)' = Kind(v)
           /\ \A p \in Proc, w \in Waitx : Ends(p, w) =>
                 Unserved' = Unserved \ {w} /\ \A v \in Unserved' : Kind(v)' = Kind(v)
           /\ \A w \in Waitx : \A p, o, b : Begins(p, o, b, w) =>
                 /\ Unserved' = Unserved \cup {w}
                 /\ Kind(w)' = o /\ \A v \in Unserved : Kind(v)' = Kind(v)
  <1>1. /\ Unserved = {w \in Waitx : InCall(w) /\ heap[w].done = 0}
        /\ Unserved' = {w \in Waitx : InCall(w)' /\ heap'[w].done = 0}
    BY UnservedIs, UnservedThen
  <1>2. Quiet => Unserved' = Unserved /\ \A v \in Unserved : Kind(v)' = Kind(v)
    BY <1>1 DEF Quiet, Same
  <1>3. \A w \in Waitx : \A b : Serve(w, b) =>
          w \in Unserved /\ Unserved' = Unserved \ {w} /\ \A v \in Unserved : Kind(v)' = Kind(v)
    BY <1>1 DEF Serve, Same
  <1>4. \A p \in Proc, w \in Waitx : Ends(p, w) =>
          Unserved' = Unserved \ {w} /\ \A v \in Unserved' : Kind(v)' = Kind(v)
    BY <1>1 DEF Ends, Same
  <1>5. \A w \in Waitx : \A p, o, b : Begins(p, o, b, w) =>
          /\ Unserved' = Unserved \cup {w}
          /\ Kind(w)' = o /\ \A v \in Unserved : Kind(v)' = Kind(v)
    BY <1>1 DEF Begins, Same
  <1>. QED  BY <1>2, <1>3, <1>4, <1>5

-----------------------------------------------------------------------------
(* Whoever waits is told once.                                             *)
LEMMA CallsTold == ASSUME CallsInv PROVE WakeupComing
  <1>. SUFFICES ASSUME NEW p \in Proc
                PROVE  LET coming == IF p \in Coroutine
                                     THEN wakeups[p] + Cardinality({q \in Proc :
                                             target[q] # None /\ heap[target[q]].who = p})
                                     ELSE IF pc[p] \in {"woken", "over"} THEN 1 ELSE 0
                       IN  IF ~ Waiting(p) THEN coming = 0
                           ELSE IF heap[mine[p]].done # 0
                           THEN mine[p] \notin Range(wq) /\ coming = 1
                           ELSE mine[p] \in Range(wq) /\ (p \in Coroutine => coming = 0)
    BY DEF WakeupComing
  <1> DEFINE T == {q \in Proc : target[q] # None /\ heap[target[q]].who = p}
             coming == IF p \in Coroutine THEN wakeups[p] + Cardinality(T)
                       ELSE IF pc[p] \in {"woken", "over"} THEN 1 ELSE 0
  <1>1. \A q \in T : /\ target[q] \in Waitx /\ Served(target[q]) /\ mine[p] = target[q] /\ mine[p] # None
                     /\ p \in Coroutine /\ wakeups[p] = 0
    BY DEF CallsInv, CallsTypeOK, ToldOnce, Belongs, Served
  <1>2. Waiting(p) => /\ mine[p] \in Waitx /\ mine[p] # None /\ InCall(mine[p])
                      /\ heap[mine[p]].done # 0 => mine[p] \notin Range(wq)
                      /\ heap[mine[p]].done = 0 => mine[p] \in Range(wq) /\ ~ Served(mine[p])
    BY DEF CallsInv, CallsTypeOK, CallsInPlace, Belongs, QueuedOnce, InCall, Served
  <1>3. ~ Waiting(p) => mine[p] = None
    BY DEF CallsInv, CallsInPlace
  <1>4. p \in Coroutine => wakeups[p] \in {0, 1} /\ (wakeups[p] = 1 => mine[p] # None /\ Served(mine[p]))
    BY DEF CallsInv, ToldOnce
  <1>5. CASE p \in Coroutine
    <2>1. CASE ~ Waiting(p) \/ heap[mine[p]].done = 0
      <3>1. T = {} /\ wakeups[p] = 0
        BY <1>1, <1>2, <1>3, <1>4, <1>5, <2>1 DEF Served
      <3>. HIDE DEF T
      <3>2. Cardinality(T) = 0
        BY <3>1, FS_EmptySet
      <3>3. coming = 0
        BY <1>5, <3>1, <3>2
      <3>. QED  BY <1>2, <2>1, <3>3 DEF T
    <2>2. CASE Waiting(p) /\ heap[mine[p]].done # 0
      <3>1. Served(mine[p])
        BY <1>2, <2>2 DEF Served
      <3>2. CASE wakeups[p] = 1
        <4>1. T = {}
          BY <1>1, <3>2
        <4>. HIDE DEF T
        <4>2. Cardinality(T) = 0
          BY <4>1, FS_EmptySet
        <4>3. coming = 1
          BY <1>5, <3>2, <4>2
        <4>. QED  BY <1>2, <2>2, <4>3 DEF T
      <3>3. CASE wakeups[p] = 0
        <4>1. PICK q \in Proc : target[q] = mine[p]
          BY <1>2, <1>5, <2>2, <3>1, <3>3 DEF CallsInv, ToldOnce
        <4>2. T = {q}
          <5>1. q \in T
            BY <1>2, <2>2, <4>1 DEF CallsInv, Belongs
          <5>2. \A r \in T : r = q
            BY <1>1, <4>1 DEF CallsInv, ToldOnce
          <5>. QED  BY <5>1, <5>2
        <4>. HIDE DEF T
        <4>3. Cardinality(T) = 1
          BY <4>2, FS_Singleton
        <4>4. coming = 1
          BY <1>5, <3>3, <4>3
        <4>. QED  BY <1>2, <2>2, <4>4 DEF T
      <3>. QED  BY <1>4, <1>5, <3>2, <3>3
    <2>. QED  BY <2>1, <2>2
  <1>6. CASE p \notin Coroutine
    <2>1. p \in Thread
      BY <1>6 DEF Proc
    <2>2. Waiting(p) /\ heap[mine[p]].done # 0 => pc[p] \in {"woken", "over"}
      BY <1>2, <2>1 DEF CallsInv, ToldOnce, Served
    <2>3. pc[p] \in {"woken", "over"} => Waiting(p)
      BY DEF Waiting
    <2>. QED  BY <1>2, <1>6, <2>2, <2>3
  <1>. QED  BY <1>5, <1>6

(* A waitx is used by the queue or by a call.                              *)
LEMMA CallsSafe == ASSUME CallsInv PROVE HeapSafe
  <1>1. ASSUME NEW w \in Waitx
        PROVE  LET used == heap[w].state # "free"
                   owned == \E p \in Proc : mine[p] = w /\ heap[w].who = p
               IN  /\ used <=> w \in Range(wq) \/ owned
                   /\ heap[w].state = "timeout" => ~ owned
    <2> DEFINE owned == \E p \in Proc : mine[p] = w /\ heap[w].who = p
    <2>1. owned <=> InCall(w)
      BY NoneApart DEF CallsInv, Belongs
    <2>2. heap[w].state \in {"free", "wait", "ready", "timeout"}
      BY DEF CallsInv, CallsTypeOK, HeapTypeOK
    <2>. HIDE DEF owned
    <2>3. /\ heap[w].state # "free" <=> w \in Range(wq) \/ owned
          /\ heap[w].state = "timeout" => ~ owned
      BY <2>1, <2>2 DEF InCall, CallsInv, QueuedOnce
    <2>. QED  BY <2>3 DEF owned
  <1>2. \A p \in Proc : target[p] # None => heap[target[p]].state # "free"
    BY DEF CallsInv, ToldOnce, Served, InCall
  <1>. QED  BY <1>1, <1>2 DEF HeapSafe, CallsInv, QueuedOnce

-----------------------------------------------------------------------------
(***************************************************************************)
(* Elements.  Held by a waitx are those of writers that wait and those on  *)
(* their way to a reader; B are those in the buffer.                       *)
(***************************************************************************)
Held(w) == InCall(w) /\ heap[w].buf # None

KindsRight ==
    \A w \in Waitx : InCall(w) =>
       /\ Kind(w) \in {"read", "write"}
       /\ Held(w) <=> IF heap[w].done = 0 THEN Kind(w) = "write"
                      ELSE Kind(w) = "read" /\ heap[w].done = 1

EachOnce(B) ==
    /\ out \subseteq Elem /\ got \subseteq Elem /\ B \subseteq Elem
    /\ out \cap got = {} /\ B \cap (out \cup got) = {}
    /\ \A w \in Waitx : Held(w) => heap[w].buf \in Elem /\ heap[w].buf \notin out \cup got \cup B
    /\ \A v, w \in Waitx : Held(v) /\ Held(w) /\ heap[v].buf = heap[w].buf => v = w
    /\ \A e \in Elem : e \in out \cup got \cup B \/ \E w \in Waitx : Held(w) /\ heap[w].buf = e

ElemsInv(B) == KindsRight /\ EachOnce(B)

(* An element comes into the buffer, or is taken from it.                  *)
LEMMA ElemPut ==
    ASSUME NEW B, ElemsInv(B), \A w \in Waitx : Same(w),
           NEW e \in out, out' = out \ {e}, got' = got
    PROVE  ElemsInv(B \cup {e})'
  <1>1. KindsRight'
    BY DEF ElemsInv, KindsRight, Same, Held
  <1>2. EachOnce(B \cup {e})'
    BY DEF ElemsInv, EachOnce, Same, Held
  <1>. QED  BY <1>1, <1>2 DEF ElemsInv

LEMMA ElemTake ==
    ASSUME NEW B, ElemsInv(B), \A w \in Waitx : Same(w),
           NEW e \in B, got' = got \cup {e}, out' = out
    PROVE  ElemsInv(B \ {e})'
  <1>1. KindsRight'
    BY DEF ElemsInv, KindsRight, Same, Held
  <1>2. EachOnce(B \ {e})'
    BY DEF ElemsInv, EachOnce, Same, Held
  <1>. QED  BY <1>1, <1>2 DEF ElemsInv

LEMMA ElemSame ==
    ASSUME NEW B, ElemsInv(B), \A w \in Waitx : Same(w), got' = got, out' = out
    PROVE  ElemsInv(B)'
  <1>1. KindsRight'
    BY DEF ElemsInv, KindsRight, Same, Held
  <1>2. EachOnce(B)'
    BY DEF ElemsInv, EachOnce, Same, Held
  <1>. QED  BY <1>1, <1>2 DEF ElemsInv

(* A reader that waits is handed an element.                               *)
LEMMA ElemHand ==
    ASSUME NEW B, ElemsInv(B), NEW w, NEW e \in out, e # None, Serve(w, e), Kind(w) = "read",
           out' = out \ {e}, got' = got
    PROVE  ElemsInv(B)'
  <1>1. KindsRight'
    BY DEF ElemsInv, KindsRight, Same, Held, Serve
  <1>2. /\ w \in Waitx /\ ~ Held(w) /\ Held(w)' /\ heap'[w].buf = e
        /\ \A v \in Waitx : v # w => (Held(v)' <=> Held(v)) /\ (Held(v) => heap'[v].buf = heap[v].buf)
    BY DEF ElemsInv, KindsRight, Same, Held, Serve
  <1>3. EachOnce(B)'
    BY <1>2 DEF ElemsInv, EachOnce
  <1>. QED  BY <1>1, <1>3 DEF ElemsInv

(* A writer that waits is served: its element goes to the buffer, from     *)
(* which another one is taken, or to the reader.                           *)
LEMMA ElemPass ==
    ASSUME NEW B, ElemsInv(B), NEW w, Serve(w, None), Kind(w) = "write",
           NEW e \in B, NEW b, b = heap[w].buf, got' = got \cup {e}, out' = out
    PROVE  b \in Elem /\ b \notin B /\ ElemsInv((B \ {e}) \cup {b})'
  <1>1. KindsRight'
    BY DEF ElemsInv, KindsRight, Same, Held, Serve
  <1>2. /\ w \in Waitx /\ Held(w) /\ ~ Held(w)' /\ heap[w].buf = b
        /\ \A v \in Waitx : v # w => (Held(v)' <=> Held(v)) /\ (Held(v) => heap'[v].buf = heap[v].buf)
    BY DEF ElemsInv, KindsRight, Same, Held, Serve
  <1>3. b \in Elem /\ b \notin B /\ EachOnce((B \ {e}) \cup {b})'
    BY <1>2 DEF ElemsInv, EachOnce
  <1>. QED  BY <1>1, <1>3 DEF ElemsInv

LEMMA ElemDirect ==
    ASSUME NEW B, ElemsInv(B), NEW w, Serve(w, None), Kind(w) = "write",
           got' = got \cup {heap[w].buf}, out' = out
    PROVE  ElemsInv(B)'
  <1>1. KindsRight'
    BY DEF ElemsInv, KindsRight, Same, Held, Serve
  <1>2. /\ w \in Waitx /\ Held(w) /\ ~ Held(w)'
        /\ \A v \in Waitx : v # w => (Held(v)' <=> Held(v)) /\ (Held(v) => heap'[v].buf = heap[v].buf)
    BY DEF ElemsInv, KindsRight, Same, Held, Serve
  <1>3. EachOnce(B)'
    BY <1>2 DEF ElemsInv, EachOnce
  <1>. QED  BY <1>1, <1>3 DEF ElemsInv

(* A reader begins to wait, or a writer with its element.                  *)
LEMMA ElemBegin ==
    ASSUME NEW B, ElemsInv(B), NEW p, NEW w, NEW o, NEW b, Begins(p, o, b, w),
           \/ o = "read" /\ b = None /\ out' = out
           \/ o = "write" /\ b # None /\ b \in out /\ out' = out \ {b}
    PROVE  ElemsInv(B)'
  <1>1. KindsRight'
    BY DEF ElemsInv, KindsRight, Same, Held, Begins
  <1>2. /\ w \in Waitx /\ ~ Held(w) /\ (Held(w)' <=> b # None) /\ heap'[w].buf = b
        /\ \A v \in Waitx : v # w => (Held(v)' <=> Held(v)) /\ (Held(v) => heap'[v].buf = heap[v].buf)
        /\ got' = got
    BY DEF ElemsInv, KindsRight, Same, Held, Begins
  <1>3. EachOnce(B)'
    BY <1>2 DEF ElemsInv, EachOnce
  <1>. QED  BY <1>1, <1>3 DEF ElemsInv

(* A call ends: a reader takes what it was handed, a writer that timed out *)
(* keeps its element.                                                      *)
LEMMA ElemEnd ==
    ASSUME NEW B, ElemsInv(B), NEW p, NEW w, Ends(p, w)
    PROVE  ElemsInv(B)'
  <1>1. KindsRight'
    BY DEF ElemsInv, KindsRight, Same, Held, Ends
  <1>2. /\ w \in Waitx /\ ~ Held(w)'
        /\ \A v \in Waitx : v # w => (Held(v)' <=> Held(v)) /\ (Held(v) => heap'[v].buf = heap[v].buf)
        /\ \/ Held(w) /\ got' = got \cup {heap[w].buf} /\ out' = out
           \/ Held(w) /\ out' = out \cup {heap[w].buf} /\ got' = got
           \/ ~ Held(w) /\ out' = out /\ got' = got
    BY DEF ElemsInv, KindsRight, Same, Held, Ends
  <1>3. EachOnce(B)'
    <2>1. CASE Held(w) /\ got' = got \cup {heap[w].buf} /\ out' = out
      BY <1>2, <2>1 DEF ElemsInv, EachOnce
    <2>2. CASE Held(w) /\ out' = out \cup {heap[w].buf} /\ got' = got
      BY <1>2, <2>2 DEF ElemsInv, EachOnce
    <2>3. CASE ~ Held(w) /\ out' = out /\ got' = got
      BY <1>2, <2>3 DEF ElemsInv, EachOnce
    <2>. QED  BY <1>2, <2>1, <2>2, <2>3
  <1>. QED  BY <1>1, <1>3 DEF ElemsInv

(* Readers are told that nothing will come.                                *)
LEMMA ElemTold ==
    ASSUME NEW B, ElemsInv(B), Told,
           \A w \in Waitx : InCall(w) /\ heap[w].done = 0 => Kind(w) = "read"
    PROVE  ElemsInv(B)'
  <1>1. KindsRight'
    BY DEF ElemsInv, KindsRight, Held, Told
  <1>2. EachOnce(B)'
    BY DEF ElemsInv, EachOnce, Held, Told
  <1>. QED  BY <1>1, <1>2 DEF ElemsInv

-----------------------------------------------------------------------------
(***************************************************************************)
(* The ring buffer.                                                        *)
(***************************************************************************)
RingOK ==
    /\ cap \in Caps
    /\ ring \in [0..(cap - 1) -> Elem \cup {None}]
    /\ rx \in Nat /\ wx \in Nat /\ full \in BOOLEAN
    /\ cap > 0 => rx < cap /\ wx < cap
    /\ cap = 0 => rx = 0 /\ wx = 0 /\ full
    /\ full => rx = wx

(* The blocks that hold an element, and the elements in them.              *)
Occupied == {j \in 0..(cap - 1) : IF rx < wx THEN rx <= j /\ j < wx
                                  ELSE IF wx < rx THEN rx <= j \/ j < wx
                                  ELSE full}
Stored == {ring[j] : j \in Occupied}
RingHolds == \A i, j \in Occupied : /\ ring[i] \in Elem
                                    /\ ring[i] = ring[j] => i = j

(* Nobody waits who could go on; without a buffer only one waits at a time. *)
WaitsRing ==
    IF cap > 0
    THEN \A w \in Unserved : IF Kind(w) = "read" THEN rx = wx /\ ~ full /\ closed # 2
                             ELSE rx = wx /\ full
    ELSE \A v, w \in Unserved : v = w

LEMMA CapIs == RingOK => cap \in Nat
  BY PipeAssumption DEF RingOK

LEMMA Remainder ==
    ASSUME NEW n \in Nat, n > 0, NEW a \in Nat, a < 2 * n
    PROVE  a % n = IF a < n THEN a ELSE a - n
  OBVIOUS

LEMMA SuccIs ==
    ASSUME RingOK, cap > 0, NEW i \in 0..(cap - 1)
    PROVE  Succ(i) = IF i + 1 = cap THEN 0 ELSE i + 1
  <1>1. cap \in Nat /\ i + 1 \in Nat /\ i + 1 < 2 * cap
    BY CapIs
  <1>2. (i + 1) % cap = IF i + 1 < cap THEN i + 1 ELSE i + 1 - cap
    BY <1>1, Remainder
  <1>. QED  BY <1>1, <1>2 DEF Succ

(* One block more, one less, and the last in place of the first.           *)
LEMMA RingPut ==
    ASSUME RingOK, cap > 0, rx # wx \/ ~ full, NEW e \in Elem \cup {None},
           ring' = [ring EXCEPT ![wx] = e], wx' = Succ(wx), cap' = cap, rx' = rx,
           full' = (Succ(wx) = rx)
    PROVE  /\ RingOK'
           /\ RingHolds /\ e \in Elem /\ e \notin Stored => RingHolds' /\ Stored' = Stored \cup {e}
  <1>1. /\ cap \in Nat /\ wx \in 0..(cap - 1) /\ rx \in 0..(cap - 1) /\ rx \in Nat /\ wx \in Nat
    BY CapIs DEF RingOK
  <1>2. /\ wx' = IF wx + 1 = cap THEN 0 ELSE wx + 1
        /\ full' <=> wx' = rx
    BY <1>1, SuccIs
  <1>3. RingOK'
    BY <1>1, <1>2 DEF RingOK
  <1>4. Occupied' = Occupied \cup {wx} /\ wx \notin Occupied
    <2>1. \A j \in 0..(cap - 1) : j \in Occupied' <=> j \in Occupied \/ j = wx
      <3>1. CASE rx = wx
        BY <1>1, <1>2, <3>1 DEF Occupied, RingOK
      <3>2. CASE rx # wx
        BY <1>1, <1>2, <3>2 DEF Occupied, RingOK
      <3>. QED  BY <3>1, <3>2
    <2>2. wx \notin Occupied
      BY <1>1 DEF Occupied, RingOK
    <2>. QED  BY <1>1, <2>1, <2>2 DEF Occupied
  <1>5. /\ ring'[wx] = e
        /\ \A j \in Occupied : ring'[j] = ring[j] /\ j # wx
    BY <1>1, <1>4 DEF RingOK, Occupied
  <1>. QED  BY <1>3, <1>4, <1>5 DEF RingHolds, Stored

LEMMA RingTake ==
    ASSUME RingOK, cap > 0, rx # wx \/ full,
           ring' = [ring EXCEPT ![rx] = None], rx' = Succ(rx), cap' = cap, wx' = wx, full' = FALSE
    PROVE  /\ RingOK'
           /\ RingHolds => ring[rx] \in Stored /\ RingHolds' /\ Stored' = Stored \ {ring[rx]}
  <1>1. /\ cap \in Nat /\ wx \in 0..(cap - 1) /\ rx \in 0..(cap - 1) /\ rx \in Nat /\ wx \in Nat
    BY CapIs DEF RingOK
  <1>2. rx' = IF rx + 1 = cap THEN 0 ELSE rx + 1
    BY <1>1, SuccIs
  <1>3. RingOK'
    <2>1. ring' \in [0..(cap - 1) -> Elem \cup {None}]
      BY DEF RingOK
    <2>2. rx' \in Nat /\ rx' < cap
      BY <1>1, <1>2
    <2>3. full' \in BOOLEAN /\ ~ full'
      OBVIOUS
    <2>4. cap' \in Caps /\ cap' > 0 /\ ring' \in [0..(cap' - 1) -> Elem \cup {None}]
          /\ rx' < cap' /\ wx' < cap' /\ wx' \in Nat
      BY <1>1, <2>1, <2>2 DEF RingOK
    <2>5. cap' # 0
      BY <1>1
    <2>. QED  BY <2>2, <2>3, <2>4, <2>5 DEF RingOK
  <1>4. Occupied' = Occupied \ {rx} /\ rx \in Occupied
    <2>1. \A j \in 0..(cap - 1) : j \in Occupied' <=> j \in Occupied /\ j # rx
      BY <1>1, <1>2 DEF Occupied, RingOK
    <2>2. rx \in Occupied
      BY <1>1 DEF Occupied, RingOK
    <2>. QED  BY <1>1, <2>1, <2>2 DEF Occupied
  <1>5. \A j \in Occupied' : ring'[j] = ring[j] /\ j # rx
    BY <1>1, <1>4 DEF RingOK, Occupied
  <1>. QED  BY <1>3, <1>4, <1>5 DEF RingHolds, Stored

LEMMA RingTurn ==
    ASSUME RingOK, cap > 0, full, NEW e \in Elem \cup {None},
           ring' = [ring EXCEPT ![wx] = e], rx' = Succ(rx), wx' = Succ(wx), cap' = cap, full' = full
    PROVE  /\ RingOK'
           /\ RingHolds => ring[rx] \in Stored
           /\ RingHolds /\ e \in Elem /\ e \notin Stored
                => RingHolds' /\ Stored' = (Stored \ {ring[rx]}) \cup {e}
  <1>1. /\ cap \in Nat /\ wx \in 0..(cap - 1) /\ rx = wx /\ wx \in Nat
    BY CapIs DEF RingOK
  <1>2. /\ wx' = IF wx + 1 = cap THEN 0 ELSE wx + 1
        /\ rx' = wx'
    BY <1>1, SuccIs
  <1>3. RingOK'
    BY <1>1, <1>2 DEF RingOK
  <1>4. Occupied' = 0..(cap - 1) /\ Occupied = 0..(cap - 1)
    BY <1>1, <1>2 DEF Occupied
  <1>5. /\ ring'[wx] = e
        /\ \A j \in 0..(cap - 1) : j # wx => ring'[j] = ring[j]
    BY <1>1 DEF RingOK
  <1>6. Stored' = {ring'[j] : j \in 0..(cap - 1)} /\ Stored = {ring[j] : j \in 0..(cap - 1)}
    BY <1>4 DEF Stored
  <1>7. RingHolds => ring[rx] \in Stored
    BY <1>1, <1>6
  <1>8. ASSUME RingHolds, e \in Elem, e \notin Stored
        PROVE  RingHolds' /\ Stored' = (Stored \ {ring[rx]}) \cup {e}
    <2>1. RingHolds'
      BY <1>1, <1>4, <1>5, <1>6, <1>8 DEF RingHolds
    <2>2. \A j \in 0..(cap - 1) : j # wx => ring[j] # ring[rx]
      BY <1>1, <1>4, <1>8 DEF RingHolds
    <2>. QED  BY <1>1, <1>5, <1>6, <2>1, <2>2
  <1>. QED  BY <1>3, <1>7, <1>8

(* Without a buffer there is one reader and one writer at most.            *)
OneEach ==
    0 \in Caps => /\ \A p, q \in ReaderOf[0] : p = q
                  /\ \A p, q \in WriterOf[0] : p = q
CallersKnown ==
    \A p \in Proc : /\ op[p] = "read" => p \in ReaderOf[cap]
                    /\ op[p] = "write" => p \in WriterOf[cap]

RingElems == RingHolds /\ ElemsInv(Stored) /\ CallersKnown

LEMMA StoredBecomes == ASSUME NEW B, ElemsInv(B)', Stored' = B PROVE ElemsInv(Stored)'
  BY DEF ElemsInv, EachOnce

(* A step that only moves elements between the calls and the buffer.       *)
LEMMA CallsIdle ==
    ASSUME CallsInv, UNCHANGED <<timed, closed, wq, heap, mine, op, target, wakeups, pc>>,
           out' \subseteq Elem \cup {None}
    PROVE  CallsInv' /\ Unserved' = Unserved /\ \A w \in Waitx : Same(w)
  <1>1. CallsInv'
    <2>1. closed' \in 0..2 /\ pc' \in [Proc -> PcState]
      BY DEF CallsInv, CallsTypeOK
    <2>. QED  BY <2>1, PcMoves
  <1>. QED  BY <1>1 DEF Unserved, Same, InCall, Kind

(* What cannot be waited for.                                              *)
LEMMA RingWaiters ==
    ASSUME CallsInv, RingOK, WaitsRing
    PROVE  /\ rx # wx => Unserved = {} /\ cap > 0
           /\ \A w \in Unserved : cap > 0 /\ full /\ KindsRight => Kind(w) = "write"
           /\ \A w \in Unserved : ~ full => Kind(w) = "read"
           /\ cap = 0 \/ cap > 0
  <1>1. cap = 0 \/ cap > 0
    BY CapIs
  <1>. QED  BY <1>1, QueueParts DEF RingOK, WaitsRing, KindsRight

LEMMA ReaderIs == ASSUME RingOK PROVE ReaderOf[cap] \subseteq Proc /\ WriterOf[cap] \subseteq Proc
  BY PipeAssumption DEF RingOK

LEMMA RingReadBlock ==
    ASSUME CallsInv, RingOK, WaitsRing, NEW p \in ReaderOf[cap], ReadBlock(p)
    PROVE  CallsInv' /\ RingOK' /\ WaitsRing' /\ (RingElems => RingElems')
  <1>1. CallsInv' /\ Unserved' = Unserved /\ \A w \in Waitx : Same(w)
    BY CallsIdle DEF ReadBlock, CallsInv, CallsTypeOK
  <1>2. Unserved = {} /\ cap > 0 /\ ~ full /\ full' = FALSE /\ cap' = cap
    BY RingWaiters DEF ReadBlock, RingOK
  <1>3. /\ RingOK'
        /\ RingHolds => ring[rx] \in Stored /\ RingHolds' /\ Stored' = Stored \ {ring[rx]}
    BY <1>2, RingTake DEF ReadBlock
  <1>4. WaitsRing'
    BY <1>1, <1>2 DEF WaitsRing
  <1>5. ASSUME RingElems PROVE RingElems'
    <2>1. PICK B, e : B = Stored /\ e = ring[rx]
      OBVIOUS
    <2>2. e \in B /\ RingHolds' /\ Stored' = B \ {e} /\ got' = got \cup {e} /\ out' = out
      BY <1>3, <1>5, <2>1 DEF RingElems, ReadBlock
    <2>3. ElemsInv(B \ {e})'
      BY <1>1, <1>5, <2>1, <2>2, ElemTake DEF RingElems
    <2>4. CallersKnown'
      BY <1>5 DEF RingElems, CallersKnown, ReadBlock
    <2>. QED  BY <2>2, <2>3, <2>4, StoredBecomes DEF RingElems
  <1>. QED  BY <1>1, <1>3, <1>4, <1>5

LEMMA RingReadFull ==
    ASSUME CallsInv, RingOK, WaitsRing, NEW p \in ReaderOf[cap], ReadFull(p)
    PROVE  CallsInv' /\ RingOK' /\ WaitsRing' /\ (RingElems => RingElems')
  <1>0. p \in Proc /\ pc[p] = "idle" /\ cap > 0 /\ full /\ full' = full /\ cap' = cap /\ closed' = closed
    BY ReaderIs DEF ReadFull
  <1>1. PICK i \in FirstLive : /\ ring' = [ring EXCEPT ![wx] = heap[wq[i]].buf]
                               /\ Claim(i, 1, None) /\ WakeOwner(p, wq[i])
    BY DEF ReadFull
  <1>2. /\ UNCHANGED <<timed, closed, mine, op, wakeups>> /\ out' = out
        /\ out' \subseteq Elem \cup {None} /\ got' = got \cup {ring[rx]}
    BY DEF ReadFull, CallsInv, CallsTypeOK
  <1>3. CallsInv' /\ \E w \in Waitx : w = wq[i] /\ Serve(w, None)
    BY <1>0, <1>1, <1>2, ServeDoes
  <1>4. PICK w \in Waitx : w = wq[i] /\ Serve(w, None)
    BY <1>3
  <1>5. /\ w \in Unserved /\ Unserved' = Unserved \ {w}
        /\ \A v \in Unserved : Kind(v)' = Kind(v)
    BY <1>3, <1>4, UnservedAfter
  <1>6. PICK b : b = heap[w].buf
    OBVIOUS
  <1>7. b \in Elem \cup {None}
    BY <1>6 DEF CallsInv, CallsTypeOK, HeapTypeOK
  <1>8. /\ RingOK'
        /\ RingHolds => ring[rx] \in Stored
        /\ RingHolds /\ b \in Elem /\ b \notin Stored
                => RingHolds' /\ Stored' = (Stored \ {ring[rx]}) \cup {b}
    <2>1. ring' = [ring EXCEPT ![wx] = b] /\ rx' = Succ(rx) /\ wx' = Succ(wx)
      BY <1>1, <1>4, <1>6 DEF ReadFull
    <2>. QED  BY <1>0, <1>7, <2>1, RingTurn
  <1>9. WaitsRing'
    BY <1>0, <1>5, <1>8 DEF WaitsRing, RingOK
  <1>10. ASSUME RingElems PROVE RingElems'
    <2>1. PICK B, e : B = Stored /\ e = ring[rx]
      OBVIOUS
    <2>2. e \in B /\ got' = got \cup {e} /\ Kind(w) = "write"
      BY <1>0, <1>2, <1>5, <1>8, <1>10, <2>1, RingWaiters DEF RingElems, ElemsInv
    <2>3. b \in Elem /\ b \notin B /\ ElemsInv((B \ {e}) \cup {b})'
      BY <1>2, <1>4, <1>6, <1>10, <2>1, <2>2, ElemPass DEF RingElems
    <2>4. RingHolds' /\ Stored' = (B \ {e}) \cup {b}
      BY <1>8, <1>10, <2>1, <2>3 DEF RingElems
    <2>5. CallersKnown'
      BY <1>0, <1>2, <1>10 DEF RingElems, CallersKnown
    <2>. QED  BY <2>3, <2>4, <2>5, StoredBecomes DEF RingElems
  <1>. QED  BY <1>3, <1>8, <1>9, <1>10

LEMMA RingReadLast ==
    ASSUME CallsInv, RingOK, WaitsRing, NEW p \in ReaderOf[cap], ReadLast(p)
    PROVE  CallsInv' /\ RingOK' /\ WaitsRing' /\ (RingElems => RingElems')
  <1>0. /\ cap > 0 /\ full /\ full' = FALSE /\ cap' = cap /\ wx' = wx
        /\ out' = out /\ got' = got \cup {ring[rx]} /\ op' = op
        /\ UNCHANGED <<timed, closed, mine, op, target, wakeups, pc>>
    BY DEF ReadLast
  <1>1. CallsInv' /\ Unserved' = {} /\ \A w \in Waitx : Same(w)
    BY <1>0, DropDoes DEF ReadLast, CallsInv, CallsTypeOK
  <1>2. /\ RingOK'
        /\ RingHolds => ring[rx] \in Stored /\ RingHolds' /\ Stored' = Stored \ {ring[rx]}
    BY <1>0, RingTake DEF ReadLast
  <1>3. WaitsRing'
    BY <1>1 DEF WaitsRing
  <1>4. ASSUME RingElems PROVE RingElems'
    <2>1. PICK B, e : B = Stored /\ e = ring[rx]
      OBVIOUS
    <2>2. e \in B /\ RingHolds' /\ Stored' = B \ {e} /\ got' = got \cup {e} /\ out' = out
      BY <1>0, <1>2, <1>4, <2>1 DEF RingElems
    <2>3. ElemsInv(B \ {e})'
      BY <1>1, <1>4, <2>1, <2>2, ElemTake DEF RingElems
    <2>4. CallersKnown'
      BY <1>0, <1>4 DEF RingElems, CallersKnown
    <2>. QED  BY <2>2, <2>3, <2>4, StoredBecomes DEF RingElems
  <1>. QED  BY <1>1, <1>2, <1>3, <1>4

(* On a channel without a buffer who reads finds the writer in the queue,  *)
(* and who writes the reader.                                              *)
LEMMA OtherWaits ==
    ASSUME CallsInv, RingOK, cap = 0, OneEach, RingElems, NEW p \in Proc, pc[p] = "idle",
           NEW w \in Unserved
    PROVE  /\ p \in ReaderOf[cap] => Kind(w) = "write"
           /\ p \in WriterOf[cap] => Kind(w) = "read"
  <1>1. /\ w \in Waitx /\ InCall(w) /\ heap[w].who \in Proc /\ Waiting(heap[w].who)
    BY QueueParts
  <1>2. heap[w].who # p
    BY <1>1 DEF Waiting
  <1>3. Kind(w) \in {"read", "write"}
    BY <1>1 DEF RingElems, ElemsInv, KindsRight
  <1>4. /\ Kind(w) = "read" => heap[w].who \in ReaderOf[cap]
        /\ Kind(w) = "write" => heap[w].who \in WriterOf[cap]
    BY <1>1 DEF RingElems, CallersKnown, Kind
  <1>5. 0 \in Caps
    BY DEF RingOK
  <1>. QED  BY <1>2, <1>3, <1>4, <1>5 DEF OneEach

LEMMA RingReadDirect ==
    ASSUME CallsInv, RingOK, WaitsRing, NEW p \in ReaderOf[cap], ReadDirect(p)
    PROVE  CallsInv' /\ RingOK' /\ WaitsRing' /\ (OneEach /\ RingElems => RingElems')
  <1>0. p \in Proc /\ pc[p] = "idle" /\ cap = 0 /\ UNCHANGED <<cap, ring, rx, wx, full>>
    BY ReaderIs DEF ReadDirect, buffer
  <1>1. PICK i \in FirstLive : /\ got' = got \cup {heap[wq[i]].buf}
                               /\ Claim(i, 1, None) /\ WakeOwner(p, wq[i])
    BY DEF ReadDirect
  <1>2. /\ UNCHANGED <<timed, closed, mine, op, wakeups>> /\ out' = out
        /\ out' \subseteq Elem \cup {None}
    BY DEF ReadDirect, CallsInv, CallsTypeOK
  <1>3. CallsInv' /\ \E w \in Waitx : w = wq[i] /\ Serve(w, None)
    BY <1>0, <1>1, <1>2, ServeDoes
  <1>4. PICK w \in Waitx : w = wq[i] /\ Serve(w, None)
    BY <1>3
  <1>5. w \in Unserved /\ Unserved' = Unserved \ {w}
    BY <1>3, <1>4, UnservedAfter
  <1>6. RingOK'
    BY <1>0 DEF RingOK
  <1>7. WaitsRing'
    BY <1>0, <1>5 DEF WaitsRing
  <1>8. ASSUME OneEach, RingElems PROVE RingElems'
    <2>1. PICK B : B = Stored
      OBVIOUS
    <2>2. Kind(w) = "write"
      BY <1>0, <1>5, <1>8, OtherWaits
    <2>3. ElemsInv(B)'
      BY <1>1, <1>2, <1>4, <1>8, <2>1, <2>2, ElemDirect DEF RingElems
    <2>4. RingHolds' /\ Stored' = B
      BY <1>0, <1>8, <2>1 DEF RingElems, RingHolds, Stored, Occupied
    <2>5. CallersKnown'
      BY <1>0, <1>2, <1>8 DEF RingElems, CallersKnown
    <2>. QED  BY <2>3, <2>4, <2>5, StoredBecomes DEF RingElems
  <1>. QED  BY <1>3, <1>6, <1>7, <1>8

(* The buffer is as it was.                                                *)
LEMMA RingSame ==
    ASSUME RingOK, UNCHANGED <<cap, ring, rx, wx, full>>
    PROVE  RingOK' /\ (RingHolds => RingHolds') /\ Stored' = Stored
  BY DEF RingOK, RingHolds, Stored, Occupied

LEMMA RingReadClosed ==
    ASSUME CallsInv, RingOK, WaitsRing, NEW p \in ReaderOf[cap], ReadClosed(p)
    PROVE  CallsInv' /\ RingOK' /\ WaitsRing' /\ (RingElems => RingElems')
  <1>0. /\ UNCHANGED <<cap, ring, rx, wx, full>>
        /\ UNCHANGED <<timed, closed, mine, op, target, wakeups, pc, out, got>>
        /\ out' \subseteq Elem \cup {None}
    BY DEF ReadClosed, buffer, CallsInv, CallsTypeOK
  <1>1. CallsInv' /\ (Unserved' = Unserved \/ Unserved' = {}) /\ \A w \in Waitx : Same(w)
    <2>1. CASE cap = 0
      BY <1>0, <2>1, DropDoes DEF ReadClosed
    <2>2. CASE cap # 0
      BY <1>0, <2>2, CallsIdle DEF ReadClosed
    <2>. QED  BY <2>1, <2>2
  <1>2. RingOK' /\ (RingHolds => RingHolds') /\ Stored' = Stored
    BY <1>0, RingSame
  <1>3. WaitsRing'
    <2>1. \A w \in Unserved : Kind(w)' = Kind(w)
      BY <1>1, UnservedIs DEF Same
    <2>. QED  BY <1>0, <1>1, <2>1 DEF WaitsRing
  <1>4. ASSUME RingElems PROVE RingElems'
    <2>1. PICK B : B = Stored
      OBVIOUS
    <2>2. ElemsInv(B)'
      BY <1>0, <1>1, <1>4, <2>1, ElemSame DEF RingElems
    <2>3. CallersKnown'
      BY <1>0, <1>4 DEF RingElems, CallersKnown
    <2>. QED  BY <1>2, <1>4, <2>1, <2>2, <2>3, StoredBecomes DEF RingElems
  <1>. QED  BY <1>1, <1>2, <1>3, <1>4

(* A reader, or a writer, begins to wait.                                  *)
LEMMA RingWait ==
    ASSUME CallsInv, RingOK, WaitsRing, NEW p \in Proc, pc[p] = "idle", closed = 0,
           NEW o \in {"read", "write"}, NEW b \in Elem \cup {None},
           Enqueue(p, o, b, cap > 0), UNCHANGED <<cap, ring, rx, wx, full>>,
           cap = 0 => FirstLive = {}, rx = wx, cap > 0 => full = (o = "write"),
           p \in IF o = "read" THEN ReaderOf[cap] ELSE WriterOf[cap],
           \/ o = "read" /\ b = None /\ out' = out
           \/ o = "write" /\ b \in out /\ out' = out \ {b}
    PROVE  CallsInv' /\ RingOK' /\ WaitsRing' /\ (RingElems => RingElems')
  <1>0. cap \in Nat /\ out' \subseteq Elem \cup {None} /\ op \in [Proc -> {"none", "read", "write"}]
    BY CapIs DEF CallsInv, CallsTypeOK
  <1>1. CallsInv' /\ \E x \in Waitx : Begins(p, o, b, x) /\ Unserved' = Unserved \cup {x}
    <2>1. CASE cap > 0
      <3>1. Enqueue(p, o, b, TRUE)
        <4>1. PICK keep : keep = (cap > 0)
          OBVIOUS
        <4>2. Enqueue(p, o, b, keep) /\ keep = TRUE
          BY <2>1, <4>1
        <4>. QED  BY <4>2, Zenon
      <3>. QED  BY <1>0, <3>1, EnqueueDoes
    <2>2. CASE ~ (cap > 0)
      <3>1. FirstLive = {}
        BY <1>0, <2>2
      <3>2. Enqueue(p, o, b, FALSE)
        BY <2>2 DEF Enqueue
      <3>. QED  BY <1>0, <3>1, <3>2, EnqueueDoes
    <2>. QED  BY <2>1, <2>2
  <1>2. PICK x \in Waitx : Begins(p, o, b, x) /\ Unserved' = Unserved \cup {x}
    BY <1>1
  <1>3. /\ Kind(x)' = o /\ \A v \in Unserved : Kind(v)' = Kind(v)
        /\ op' = [op EXCEPT ![p] = o] /\ closed' = closed
    BY <1>1, <1>2, UnservedAfter DEF Begins
  <1>4. RingOK' /\ (RingHolds => RingHolds') /\ Stored' = Stored
    BY RingSame
  <1>5. WaitsRing'
    <2>1. CASE cap > 0
      <3>1. ASSUME NEW w \in Unserved'
            PROVE  IF Kind(w)' = "read" THEN rx' = wx' /\ ~ full' /\ closed' # 2
                                        ELSE rx' = wx' /\ full'
        <4>1. CASE w = x
          <5>1. Kind(w)' = o
            BY <1>3, <4>1
          <5>2. (o = "read" => ~ full) /\ (o = "write" => full)
            BY <2>1
          <5>3. closed' # 2
            BY <1>3
          <5>. QED  BY <5>1, <5>2, <5>3
        <4>2. CASE w # x
          BY <1>2, <1>3, <2>1, <4>2 DEF WaitsRing
        <4>. QED  BY <4>1, <4>2
      <3>. QED  BY <2>1, <3>1 DEF WaitsRing
    <2>2. CASE cap = 0
      BY <1>2, <2>2, NobodyLive DEF WaitsRing
    <2>. QED  BY <1>0, <2>1, <2>2
  <1>6. ASSUME RingElems PROVE RingElems'
    <2>1. PICK B : B = Stored
      OBVIOUS
    <2>2. b \in out => b # None
      BY <1>6, NoneApart DEF RingElems, ElemsInv, EachOnce
    <2>4. ElemsInv(B)'
      BY <1>2, <1>6, <2>1, <2>2, ElemBegin DEF RingElems
    <2>3. CallersKnown'
      BY <1>0, <1>3, <1>6 DEF RingElems, CallersKnown
    <2>. QED  BY <1>4, <1>6, <2>1, <2>3, <2>4, StoredBecomes DEF RingElems
  <1>. QED  BY <1>1, <1>4, <1>5, <1>6

LEMMA RingReadWait ==
    ASSUME CallsInv, RingOK, WaitsRing, NEW p \in ReaderOf[cap], ReadWait(p)
    PROVE  CallsInv' /\ RingOK' /\ WaitsRing' /\ (RingElems => RingElems')
  <1>1. /\ p \in Proc /\ pc[p] = "idle" /\ closed = 0 /\ Enqueue(p, "read", None, cap > 0)
        /\ UNCHANGED <<cap, ring, rx, wx, full>> /\ out' = out
        /\ cap = 0 => FirstLive = {}
        /\ rx = wx /\ (cap > 0 => full = FALSE)
    BY CapIs, ReaderIs DEF ReadWait, NothingToRead, buffer, RingOK
  <1>. QED  BY <1>1, RingWait

LEMMA RingWriteWait ==
    ASSUME CallsInv, RingOK, WaitsRing, NEW p \in WriterOf[cap], NEW e \in First(out),
           WriteWait(p, e)
    PROVE  CallsInv' /\ RingOK' /\ WaitsRing' /\ (RingElems => RingElems')
  <1>1. /\ p \in Proc /\ pc[p] = "idle" /\ closed = 0 /\ Enqueue(p, "write", e, cap > 0)
        /\ UNCHANGED <<cap, ring, rx, wx, full>> /\ out' = out \ {e}
        /\ cap = 0 => FirstLive = {}
        /\ rx = wx /\ (cap > 0 => full = TRUE)
        /\ e \in out /\ e \in Elem \cup {None}
    BY CapIs, ReaderIs DEF WriteWait, buffer, RingOK, First, CallsInv, CallsTypeOK
  <1>. QED  BY <1>1, RingWait

(* An element is put into the buffer; nobody waits to read it.             *)
LEMMA RingPutOne ==
    ASSUME CallsInv, CallsInv', RingOK, cap > 0, rx # wx \/ ~ full,
           NEW e \in out, PutBlock(e), full' = (Succ(wx) = rx),
           Unserved' = {}, \A w \in Waitx : Same(w), got' = got, op' = op
    PROVE  RingOK' /\ WaitsRing' /\ (RingElems => RingElems')
  <1>0. e \in Elem \cup {None}
    BY DEF CallsInv, CallsTypeOK
  <1>1. /\ RingOK'
        /\ RingHolds /\ e \in Elem /\ e \notin Stored => RingHolds' /\ Stored' = Stored \cup {e}
    BY <1>0, RingPut DEF PutBlock
  <1>2. WaitsRing'
    BY DEF WaitsRing
  <1>3. ASSUME RingElems PROVE RingElems'
    <2>1. PICK B : B = Stored
      OBVIOUS
    <2>2. e \in Elem /\ e \notin B
      BY <1>3, <2>1 DEF RingElems, ElemsInv, EachOnce
    <2>3. RingHolds' /\ Stored' = B \cup {e}
      BY <1>1, <1>3, <2>1, <2>2 DEF RingElems
    <2>4. ElemsInv(B \cup {e})'
      BY <1>3, <2>1, ElemPut DEF RingElems, PutBlock
    <2>5. CallersKnown'
      BY <1>3 DEF RingElems, CallersKnown, PutBlock
    <2>. QED  BY <2>3, <2>4, <2>5, StoredBecomes DEF RingElems
  <1>. QED  BY <1>1, <1>2, <1>3

LEMMA RingWriteBlock ==
    ASSUME CallsInv, RingOK, WaitsRing, NEW p \in WriterOf[cap], NEW e \in First(out), WriteBlock(p, e)
    PROVE  CallsInv' /\ RingOK' /\ WaitsRing' /\ (RingElems => RingElems')
  <1>1. e \in out /\ got' = got /\ op' = op /\ PutBlock(e) /\ rx # wx
        /\ UNCHANGED <<timed, closed, wq, heap, mine, op, target, wakeups, pc>>
    BY DEF WriteBlock, First
  <1>2. out' \subseteq Elem \cup {None}
    BY DEF WriteBlock, PutBlock, CallsInv, CallsTypeOK
  <1>3. CallsInv' /\ Unserved' = Unserved /\ \A w \in Waitx : Same(w)
    BY <1>1, <1>2, CallsIdle
  <1>4. Unserved = {} /\ cap > 0
    BY <1>1, RingWaiters
  <1>5. full' = (Succ(wx) = rx)
    BY <1>1 DEF WriteBlock, RingOK
  <1>. QED  BY <1>1, <1>3, <1>4, <1>5, RingPutOne

LEMMA RingWriteFirst ==
    ASSUME CallsInv, RingOK, WaitsRing, NEW p \in WriterOf[cap], NEW e \in First(out), WriteFirst(p, e)
    PROVE  CallsInv' /\ RingOK' /\ WaitsRing' /\ (RingElems => RingElems')
  <1>1. /\ e \in out /\ got' = got /\ op' = op /\ PutBlock(e) /\ cap > 0 /\ ~ full
        /\ DropDead /\ full' = (Succ(wx) = rx)
        /\ UNCHANGED <<timed, closed, mine, op, target, wakeups, pc>>
    BY DEF WriteFirst, First
  <1>2. out' \subseteq Elem \cup {None}
    BY DEF WriteFirst, PutBlock, CallsInv, CallsTypeOK
  <1>3. CallsInv' /\ Unserved' = {} /\ \A w \in Waitx : Same(w)
    BY <1>1, <1>2, DropDoes
  <1>. QED  BY <1>1, <1>3, RingPutOne

LEMMA RingWriteDirect ==
    ASSUME CallsInv, RingOK, WaitsRing, NEW p \in WriterOf[cap], NEW e \in First(out), WriteDirect(p, e)
    PROVE  CallsInv' /\ RingOK' /\ WaitsRing' /\ (OneEach /\ RingElems => RingElems')
  <1>0. /\ p \in Proc /\ pc[p] = "idle" /\ UNCHANGED <<cap, ring, rx, wx, full>>
        /\ e \in out /\ (cap = 0 \/ ~ full) /\ out' = out \ {e} /\ got' = got
        /\ UNCHANGED <<timed, closed, mine, op, wakeups>>
    BY ReaderIs DEF WriteDirect, buffer, First
  <1>1. PICK i \in FirstLive : Claim(i, 1, e) /\ WakeOwner(p, wq[i])
    BY DEF WriteDirect
  <1>2. out' \subseteq Elem \cup {None} /\ e \in Elem \cup {None}
    BY <1>0 DEF CallsInv, CallsTypeOK
  <1>3. CallsInv' /\ \E w \in Waitx : w = wq[i] /\ Serve(w, e)
    BY <1>0, <1>1, <1>2, ServeDoes
  <1>4. PICK w \in Waitx : w = wq[i] /\ Serve(w, e)
    BY <1>3
  <1>5. /\ w \in Unserved /\ Unserved' = Unserved \ {w}
        /\ \A v \in Unserved : Kind(v)' = Kind(v)
    BY <1>3, <1>4, UnservedAfter
  <1>6. RingOK' /\ (RingHolds => RingHolds') /\ Stored' = Stored
    BY <1>0, RingSame
  <1>7. WaitsRing'
    BY <1>0, <1>5 DEF WaitsRing
  <1>8. ASSUME OneEach, RingElems PROVE RingElems'
    <2>1. PICK B : B = Stored
      OBVIOUS
    <2>2. Kind(w) = "read"
      BY <1>0, <1>5, <1>8, OtherWaits, RingWaiters
    <2>3. e # None
      BY <1>0, <1>8, NoneApart DEF RingElems, ElemsInv, EachOnce
    <2>4. ElemsInv(B)'
      BY <1>0, <1>4, <1>8, <2>1, <2>2, <2>3, ElemHand DEF RingElems
    <2>5. CallersKnown'
      BY <1>0, <1>8 DEF RingElems, CallersKnown
    <2>. QED  BY <1>6, <1>8, <2>1, <2>4, <2>5, StoredBecomes DEF RingElems
  <1>. QED  BY <1>3, <1>6, <1>7, <1>8

(* close() tells readers only: at an empty channel nobody waits to write.  *)
LEMMA RingClose ==
    ASSUME CallsInv, RingOK, WaitsRing, NEW p \in Proc, Close(p)
    PROVE  CallsInv' /\ RingOK' /\ WaitsRing' /\ (RingElems => RingElems')
  <1>0. UNCHANGED <<cap, ring, rx, wx, full>>
    BY DEF Close, buffer
  <1>1. PICK empty \in BOOLEAN : empty = (rx = wx /\ ~ full)
    OBVIOUS
  <1>2. /\ CallsInv' /\ closed' = 2
        /\ IF empty THEN Told /\ Unserved' = {} ELSE Quiet
    <2>1. CloseLocked(p, empty)
      BY <1>1 DEF Close
    <2>. QED  BY <2>1, CloseDoes
  <1>3. RingOK' /\ (RingHolds => RingHolds') /\ Stored' = Stored
    BY <1>0, RingSame
  <1>4. WaitsRing'
    <2>1. CASE empty
      BY <1>2, <2>1 DEF WaitsRing
    <2>2. CASE ~ empty
      <3>1. Unserved' = Unserved /\ \A v \in Unserved : Kind(v)' = Kind(v)
        BY <1>2, <2>2, UnservedAfter
      <3>2. cap > 0 => \A v \in Unserved : Kind(v) # "read"
        BY <1>1, <2>2 DEF WaitsRing
      <3>. QED  BY <1>0, <3>1, <3>2 DEF WaitsRing
    <2>. QED  BY <2>1, <2>2
  <1>5. ASSUME RingElems PROVE RingElems'
    <2>1. PICK B : B = Stored
      OBVIOUS
    <2>2. ElemsInv(B)' /\ op' = op
      <3>1. CASE empty
        <4>1. \A w \in Waitx : InCall(w) /\ heap[w].done = 0 => Kind(w) = "read"
          BY <1>1, <3>1, RingWaiters, UnservedIs
        <4>. QED  BY <1>2, <1>5, <2>1, <3>1, <4>1, ElemTold DEF RingElems, Told
      <3>2. CASE ~ empty
        BY <1>2, <1>5, <2>1, <3>2, ElemSame DEF RingElems, Quiet
      <3>. QED  BY <3>1, <3>2
    <2>3. CallersKnown'
      BY <1>0, <1>5, <2>2 DEF RingElems, CallersKnown
    <2>. QED  BY <1>3, <1>5, <2>1, <2>2, <2>3, StoredBecomes DEF RingElems
  <1>. QED  BY <1>2, <1>3, <1>4, <1>5

(* The steps of those that are in a call, of timers and of the condition   *)
(* variable.                                                               *)
LEMMA RingProceed ==
    ASSUME CallsInv, RingOK, WaitsRing, NEW p \in Proc, UNCHANGED buffer,
           Proceed(p) \/ Expire(p) \/ (p \in Thread /\ SpuriousWakeup(p)) \/ CloseBegin(p)
    PROVE  CallsInv' /\ RingOK' /\ WaitsRing' /\ (RingElems => RingElems')
  <1>0. UNCHANGED <<cap, ring, rx, wx, full>>
    BY DEF buffer
  <1>1. /\ CallsInv'
        /\ \/ Quiet /\ (closed' = closed \/ (closed' = 1 /\ closed # 2))
           \/ \E w \in Waitx : Ends(p, w)
    BY ProceedDoes
  <1>2. RingOK' /\ (RingHolds => RingHolds') /\ Stored' = Stored
    BY <1>0, RingSame
  <1>3. CASE Quiet /\ (closed' = closed \/ (closed' = 1 /\ closed # 2))
    <2>1. Unserved' = Unserved /\ \A v \in Unserved : Kind(v)' = Kind(v)
      BY <1>1, <1>3, UnservedAfter
    <2>2. WaitsRing'
      BY <1>0, <1>3, <2>1 DEF WaitsRing
    <2>3. ASSUME RingElems PROVE RingElems'
      <3>1. PICK B : B = Stored
        OBVIOUS
      <3>2. ElemsInv(B)' /\ CallersKnown'
        BY <1>0, <1>3, <2>3, <3>1, ElemSame DEF RingElems, Quiet, CallersKnown
      <3>. QED  BY <1>2, <2>3, <3>1, <3>2, StoredBecomes DEF RingElems
    <2>. QED  BY <1>1, <1>2, <2>2, <2>3
  <1>4. CASE \E w \in Waitx : Ends(p, w)
    <2>1. PICK w \in Waitx : Ends(p, w)
      BY <1>4
    <2>2. Unserved' = Unserved \ {w} /\ \A v \in Unserved' : Kind(v)' = Kind(v)
      BY <1>1, <2>1, UnservedAfter
    <2>3. WaitsRing'
      BY <1>0, <2>1, <2>2 DEF WaitsRing, Ends
    <2>4. ASSUME RingElems PROVE RingElems'
      <3>1. PICK B : B = Stored
        OBVIOUS
      <3>2. ElemsInv(B)'
        BY <2>1, <2>4, <3>1, ElemEnd DEF RingElems
      <3>3. CallersKnown'
        BY <1>0, <2>1, <2>4 DEF RingElems, CallersKnown, Ends, CallsInv, CallsTypeOK
      <3>. QED  BY <1>2, <2>4, <3>1, <3>2, <3>3, StoredBecomes DEF RingElems
    <2>. QED  BY <1>1, <1>2, <2>3, <2>4
  <1>. QED  BY <1>1, <1>3, <1>4

LEMMA RingStart ==
    ASSUME Init PROVE CallsInv /\ RingOK /\ WaitsRing /\ RingElems
  <1>1. CallsInv
    BY CallsStart DEF Init
  <1>2. cap \in Nat /\ cap \in Caps
    BY PipeAssumption DEF Init
  <1>3. RingOK
    BY <1>2 DEF Init, RingOK
  <1>4. \A w \in Waitx : ~ InCall(w)
    BY DEF Init, WaitersInit, Unused, InCall
  <1>5. Unserved = {}
    BY <1>1, <1>4, UnservedIs
  <1>6. Occupied = {} /\ Stored = {}
    <2>1. rx = 0 /\ wx = 0 /\ (full => cap = 0)
      BY DEF Init
    <2>2. Occupied = {}
      BY <1>2, <2>1 DEF Occupied
    <2>. QED  BY <2>2 DEF Stored
  <1>7. ElemsInv(Stored)
    BY <1>4, <1>6 DEF ElemsInv, KindsRight, EachOnce, Held, Init, WaitersInit
  <1>8. CallersKnown
    BY DEF CallersKnown, Init, WaitersInit
  <1>. QED
    BY <1>1, <1>3, <1>5, <1>6, <1>7, <1>8 DEF RingElems, RingHolds, WaitsRing

LEMMA RingStep ==
    ASSUME CallsInv, RingOK, WaitsRing, Next
    PROVE  CallsInv' /\ RingOK' /\ WaitsRing' /\ (OneEach /\ RingElems => RingElems')
  <1>0. ReaderOf[cap] \subseteq Proc /\ WriterOf[cap] \subseteq Proc
    BY ReaderIs
  <1>1. ASSUME NEW p \in ReaderOf[cap], Read(p)
        PROVE  CallsInv' /\ RingOK' /\ WaitsRing' /\ (OneEach /\ RingElems => RingElems')
    BY <1>1, RingReadBlock, RingReadFull, RingReadLast, RingReadDirect, RingReadClosed, RingReadWait
       DEF Read
  <1>2. ASSUME NEW p \in WriterOf[cap], NEW e \in First(out), Write(p, e)
        PROVE  CallsInv' /\ RingOK' /\ WaitsRing' /\ (OneEach /\ RingElems => RingElems')
    BY <1>2, RingWriteBlock, RingWriteDirect, RingWriteFirst, RingWriteWait DEF Write
  <1>3. ASSUME NEW p \in Proc, Close(p)
        PROVE  CallsInv' /\ RingOK' /\ WaitsRing' /\ (OneEach /\ RingElems => RingElems')
    BY <1>3, RingClose
  <1>4. ASSUME NEW p \in Proc, UNCHANGED buffer,
               Proceed(p) \/ Expire(p) \/ (p \in Thread /\ SpuriousWakeup(p)) \/ CloseBegin(p)
        PROVE  CallsInv' /\ RingOK' /\ WaitsRing' /\ (OneEach /\ RingElems => RingElems')
    BY <1>4, RingProceed
  <1>5. Thread \subseteq Proc
    BY DEF Proc
  <1>. QED  BY <1>0, <1>1, <1>2, <1>3, <1>4, <1>5 DEF Next

-----------------------------------------------------------------------------
(***************************************************************************)
(* The list.  What it shares with the ring buffer is the same for both.    *)
(***************************************************************************)
LEMMA OnListSame ==
    /\ OnList!WaitersInit <=> WaitersInit
    /\ OnList!FirstLive = FirstLive
    /\ OnList!DropDead <=> DropDead
    /\ \A i, d, b : OnList!Claim(i, d, b) <=> Claim(i, d, b)
    /\ \A p, w : OnList!WakeOwner(p, w) <=> WakeOwner(p, w)
    /\ \A p, o, b, keep : OnList!Enqueue(p, o, b, keep) <=> Enqueue(p, o, b, keep)
    /\ \A p, e : OnList!CloseLocked(p, e) <=> CloseLocked(p, e)
    /\ \A p : OnList!CloseBegin(p) <=> CloseBegin(p)
    /\ \A p : OnList!Proceed(p) <=> Proceed(p)
    /\ \A p : OnList!Expire(p) <=> Expire(p)
    /\ \A p : OnList!SpuriousWakeup(p) <=> SpuriousWakeup(p)
    /\ OnList!First(out) = First(out)
    /\ OnList!Proc = Proc
    /\ OnList!Unserved = Unserved
  <1>1. OnList!Proc = Proc /\ OnList!First(out) = First(out) /\ OnList!Range(wq) = Range(wq)
    BY DEF OnList!Proc, Proc, OnList!First, First, OnList!Range, Range
  <1>2. OnList!Unserved = Unserved /\ OnList!FirstLive = FirstLive
    BY <1>1 DEF OnList!Unserved, Unserved, OnList!FirstLive, FirstLive
  <1>3. OnList!Unused = Unused
    BY DEF OnList!Unused, Unused
  <1>4. OnList!WaitersInit <=> WaitersInit
    BY <1>1, <1>3 DEF OnList!WaitersInit, WaitersInit
  <1>5. OnList!DropDead <=> DropDead
    BY <1>1, <1>2, <1>3 DEF OnList!DropDead, DropDead
  <1>6. \A i, d, b : OnList!Claim(i, d, b) <=> Claim(i, d, b)
    BY <1>3 DEF OnList!Claim, Claim
  <1>7. \A p : OnList!NotifyAll(p) <=> NotifyAll(p)
    BY <1>1 DEF OnList!NotifyAll, NotifyAll
  <1>8. \A p, w : OnList!WakeOwner(p, w) <=> WakeOwner(p, w)
    BY <1>7 DEF OnList!WakeOwner, WakeOwner
  <1>9. \A p, o, b, keep : OnList!Enqueue(p, o, b, keep) <=> Enqueue(p, o, b, keep)
    BY DEF OnList!Enqueue, Enqueue, OnList!First, First, OnList!Range, Range, OnList!Unused, Unused
  <1>10. ASSUME NEW p, NEW e PROVE OnList!CloseLocked(p, e) <=> CloseLocked(p, e)
    BY DEF OnList!CloseLocked, CloseLocked, OnList!Unserved, Unserved, OnList!Range, Range,
           OnList!Unused, Unused, OnList!NotifyAll, NotifyAll, OnList!Proc, Proc,
           OnList!Cardinality, Cardinality
  <1>11. \A p : OnList!CloseBegin(p) <=> CloseBegin(p)
    BY DEF OnList!CloseBegin, CloseBegin
  <1>12. \A p : OnList!SpuriousWakeup(p) <=> SpuriousWakeup(p)
    BY DEF OnList!SpuriousWakeup, SpuriousWakeup
  <1>13. \A p, w : /\ OnList!EndServed(p, w) <=> EndServed(p, w)
                   /\ OnList!EndTimedOut(p, w) <=> EndTimedOut(p, w)
    BY <1>3 DEF OnList!EndServed, EndServed, OnList!EndTimedOut, EndTimedOut
  <1>14. \A p : /\ OnList!AddReady(p) <=> AddReady(p)
                /\ OnList!ClosePoll(p) <=> ClosePoll(p)
                /\ OnList!WaitYield(p) <=> WaitYield(p)
                /\ OnList!ResumeReady(p) <=> ResumeReady(p)
                /\ OnList!TimeOut(p) <=> TimeOut(p)
                /\ OnList!DeadlinePasses(p) <=> DeadlinePasses(p)
    BY <1>13 DEF OnList!AddReady, AddReady, OnList!ClosePoll, ClosePoll, OnList!WaitYield, WaitYield,
                 OnList!ResumeReady, ResumeReady, OnList!TimeOut, TimeOut,
                 OnList!DeadlinePasses, DeadlinePasses
  <1>15. \A p : OnList!ThreadReturn(p) <=> ThreadReturn(p)
    BY <1>13 DEF OnList!ThreadReturn, ThreadReturn, OnList!ThreadServed, ThreadServed,
                 OnList!ThreadAgain, ThreadAgain, OnList!ThreadTimedOut, ThreadTimedOut,
                 OnList!Awake, Awake
  <1>16. \A p : OnList!Proceed(p) <=> Proceed(p)
    BY <1>14, <1>15 DEF OnList!Proceed, Proceed
  <1>17. \A p : OnList!Expire(p) <=> Expire(p)
    BY <1>14 DEF OnList!Expire, Expire
  <1>. QED
    BY <1>1, <1>2, <1>4, <1>5, <1>6, <1>8, <1>9, <1>10, <1>11, <1>12, <1>16, <1>17

ListOK == list \in Seq(Elem \cup {None}) /\ size = Len(list)

(* Nobody waits who could go on.                                           *)
WaitsList ==
    \A w \in Unserved : IF Kind(w) = "read" THEN list = <<>> /\ closed # 2 ELSE OnList!full

ListElems == IsInjective(list) /\ ElemsInv(Range(list))

LEMMA ListedBecomes == ASSUME NEW B, ElemsInv(B)', Range(list') = B PROVE ElemsInv(Range(list))'
  BY DEF ElemsInv, EachOnce

LEMMA ListIs ==
    ASSUME ListOK
    PROVE  /\ size \in Nat /\ (OnList!empty <=> list = <<>>)
           /\ OnList!full => list # <<>>
  BY EmptySeq, LenProperties DEF ListOK, OnList!empty, OnList!full

LEMMA ListWaiters ==
    ASSUME ListOK, WaitsList
    PROVE  /\ ~ OnList!empty /\ ~ OnList!full => Unserved = {}
           /\ \A w \in Unserved : OnList!full => Kind(w) # "read"
           /\ \A w \in Unserved : OnList!empty => Kind(w) = "read"
  BY ListIs DEF WaitsList

(* One element less, one more, one in place of the first.                  *)
LEMMA ListTake ==
    ASSUME ListOK, list # <<>>, list' = Tail(list), size' = size - 1,
           got' = got \cup {Head(list)}, out' = out, \A w \in Waitx : Same(w)
    PROVE  ListOK' /\ (ListElems => ListElems')
  <1>1. /\ Tail(list) \in Seq(Elem \cup {None}) /\ Head(list) \in Range(list)
        /\ IsInjective(list) => IsInjective(Tail(list)) /\ Range(Tail(list)) = Range(list) \ {Head(list)}
    BY TailParts DEF ListOK
  <1>2. ListOK'
    <2>1. Len(Tail(list)) = Len(list) - 1
      BY HeadTailProperties DEF ListOK
    <2>. QED  BY <1>1, <2>1 DEF ListOK
  <1>3. ASSUME ListElems PROVE ListElems'
    <2>1. PICK B, e : B = Range(list) /\ e = Head(list)
      OBVIOUS
    <2>2. e \in B /\ IsInjective(list') /\ Range(list') = B \ {e} /\ got' = got \cup {e}
      BY <1>1, <1>3, <2>1 DEF ListElems
    <2>3. ElemsInv(B \ {e})'
      BY <1>3, <2>1, <2>2, ElemTake DEF ListElems
    <2>. QED  BY <2>2, <2>3, ListedBecomes DEF ListElems
  <1>. QED  BY <1>2, <1>3

LEMMA ListPut ==
    ASSUME ListOK, NEW e \in out, e \in Elem \cup {None}, list' = Append(list, e), size' = size + 1,
           got' = got, out' = out \ {e}, \A w \in Waitx : Same(w)
    PROVE  ListOK' /\ (ListElems => ListElems')
  <1>1. /\ Append(list, e) \in Seq(Elem \cup {None})
        /\ Range(Append(list, e)) = Range(list) \cup {e}
        /\ IsInjective(list) /\ e \notin Range(list) => IsInjective(Append(list, e))
    BY AppendParts DEF ListOK
  <1>2. ListOK'
    <2>1. Len(Append(list, e)) = Len(list) + 1
      BY AppendProperties DEF ListOK
    <2>. QED  BY <1>1, <2>1 DEF ListOK
  <1>3. ASSUME ListElems PROVE ListElems'
    <2>1. PICK B : B = Range(list)
      OBVIOUS
    <2>2. e \notin B
      BY <1>3, <2>1 DEF ListElems, ElemsInv, EachOnce
    <2>3. IsInjective(list') /\ Range(list') = B \cup {e}
      BY <1>1, <1>3, <2>1, <2>2 DEF ListElems
    <2>4. ElemsInv(B \cup {e})'
      BY <1>3, <2>1, ElemPut DEF ListElems
    <2>. QED  BY <2>3, <2>4, ListedBecomes DEF ListElems
  <1>. QED  BY <1>2, <1>3

LEMMA ListTurn ==
    ASSUME ListOK, list # <<>>, NEW b \in Elem \cup {None},
           list' = Append(Tail(list), b), size' = size
    PROVE  /\ ListOK'
           /\ IsInjective(list) /\ b \notin Range(list) =>
                 /\ IsInjective(list') /\ Head(list) \in Range(list)
                 /\ Range(list') = (Range(list) \ {Head(list)}) \cup {b}
  <1>1. /\ Tail(list) \in Seq(Elem \cup {None}) /\ Head(list) \in Range(list)
        /\ IsInjective(list) => IsInjective(Tail(list)) /\ Range(Tail(list)) = Range(list) \ {Head(list)}
    BY TailParts DEF ListOK
  <1>2. PICK r \in Seq(Elem \cup {None}) : r = Tail(list)
    BY <1>1
  <1>3. /\ Append(r, b) \in Seq(Elem \cup {None})
        /\ Range(Append(r, b)) = Range(r) \cup {b}
        /\ IsInjective(r) /\ b \notin Range(r) => IsInjective(Append(r, b))
    BY AppendParts
  <1>4. ListOK'
    <2>1. Len(r) = Len(list) - 1 /\ Len(list) \in Nat
      BY <1>2, HeadTailProperties, LenProperties DEF ListOK
    <2>2. Len(Append(r, b)) = Len(r) + 1
      BY AppendProperties
    <2>. QED  BY <1>2, <1>3, <2>1, <2>2 DEF ListOK
  <1>5. ASSUME IsInjective(list), b \notin Range(list)
        PROVE  /\ IsInjective(list') /\ Head(list) \in Range(list)
               /\ Range(list') = (Range(list) \ {Head(list)}) \cup {b}
    BY <1>1, <1>2, <1>3, <1>5
  <1>. QED  BY <1>4, <1>5

(* The list is as it was.                                                  *)
LEMMA ListSame ==
    ASSUME ListOK, UNCHANGED <<list, size>>
    PROVE  /\ ListOK' /\ (cap' = cap => OnList!full' = OnList!full)
           /\ ListElems /\ (\A B : ElemsInv(B) => ElemsInv(B)') => ListElems'
  <1>1. ListOK'
    BY DEF ListOK
  <1>2. cap' = cap => OnList!full' = OnList!full
    BY DEF OnList!full
  <1>3. ASSUME ListElems, \A B : ElemsInv(B) => ElemsInv(B)' PROVE ListElems'
    <2>1. PICK B : B = Range(list)
      OBVIOUS
    <2>2. ElemsInv(B)'
      BY <1>3, <2>1 DEF ListElems
    <2>. QED  BY <1>3, <2>1, <2>2, ListedBecomes DEF ListElems
  <1>. QED  BY <1>1, <1>2, <1>3

LEMMA ListReadSome ==
    ASSUME CallsInv, ListOK, WaitsList, NEW p \in Proc, OnList!ReadSome(p)
    PROVE  CallsInv' /\ ListOK' /\ WaitsList' /\ (ListElems => ListElems')
  <1>1. /\ ~ OnList!empty /\ ~ OnList!full /\ list # <<>>
        /\ list' = Tail(list) /\ size' = size - 1 /\ got' = got \cup {Head(list)}
        /\ UNCHANGED <<timed, closed, wq, heap, mine, op, out, target, wakeups, pc>>
        /\ out' \subseteq Elem \cup {None}
    BY ListIs DEF OnList!ReadSome, OnList!TakeFirst, CallsInv, CallsTypeOK
  <1>2. CallsInv' /\ Unserved' = Unserved /\ \A w \in Waitx : Same(w)
    BY <1>1, CallsIdle
  <1>3. WaitsList'
    BY <1>1, <1>2, ListWaiters DEF WaitsList
  <1>. QED  BY <1>1, <1>2, <1>3, ListTake

LEMMA ListReadLast ==
    ASSUME CallsInv, ListOK, WaitsList, NEW p \in Proc, OnList!ReadLast(p)
    PROVE  CallsInv' /\ ListOK' /\ WaitsList' /\ (ListElems => ListElems')
  <1>1. /\ OnList!full /\ list # <<>> /\ DropDead
        /\ list' = Tail(list) /\ size' = size - 1 /\ got' = got \cup {Head(list)}
        /\ UNCHANGED <<timed, closed, mine, op, out, target, wakeups, pc>>
        /\ out' \subseteq Elem \cup {None}
    BY ListIs, OnListSame DEF OnList!ReadLast, OnList!TakeFirst, CallsInv, CallsTypeOK
  <1>2. CallsInv' /\ Unserved' = {} /\ \A w \in Waitx : Same(w)
    BY <1>1, DropDoes
  <1>3. WaitsList'
    BY <1>2 DEF WaitsList
  <1>. QED  BY <1>1, <1>2, <1>3, ListTake

LEMMA ListReadFull ==
    ASSUME CallsInv, ListOK, WaitsList, NEW p \in Proc, OnList!ReadFull(p)
    PROVE  CallsInv' /\ ListOK' /\ WaitsList' /\ (ListElems => ListElems')
  <1>0. /\ pc[p] = "idle" /\ OnList!full /\ list # <<>> /\ cap' = cap /\ size' = size
        /\ UNCHANGED <<timed, closed, mine, op, wakeups>> /\ out' = out
        /\ out' \subseteq Elem \cup {None} /\ got' = got \cup {Head(list)}
    BY ListIs DEF OnList!ReadFull, CallsInv, CallsTypeOK
  <1>1. PICK i \in FirstLive : /\ list' = Append(Tail(list), heap[wq[i]].buf)
                               /\ Claim(i, 1, None) /\ WakeOwner(p, wq[i])
    BY OnListSame DEF OnList!ReadFull
  <1>3. CallsInv' /\ \E w \in Waitx : w = wq[i] /\ Serve(w, None)
    BY <1>0, <1>1, ServeDoes
  <1>4. PICK w \in Waitx : w = wq[i] /\ Serve(w, None)
    BY <1>3
  <1>5. /\ w \in Unserved /\ Unserved' = Unserved \ {w}
        /\ \A v \in Unserved : Kind(v)' = Kind(v)
    BY <1>3, <1>4, UnservedAfter
  <1>6. PICK b : b = heap[w].buf
    OBVIOUS
  <1>7. b \in Elem \cup {None}
    BY <1>6 DEF CallsInv, CallsTypeOK, HeapTypeOK
  <1>8. /\ ListOK'
        /\ IsInjective(list) /\ b \notin Range(list) =>
                 /\ IsInjective(list') /\ Head(list) \in Range(list)
                 /\ Range(list') = (Range(list) \ {Head(list)}) \cup {b}
    BY <1>0, <1>1, <1>4, <1>6, <1>7, ListTurn
  <1>9. WaitsList'
    <2>1. OnList!full' = OnList!full
      BY <1>0 DEF OnList!full
    <2>. QED  BY <1>0, <1>5, <2>1, ListWaiters DEF WaitsList
  <1>10. ASSUME ListElems PROVE ListElems'
    <2>1. PICK B, e : B = Range(list) /\ e = Head(list)
      OBVIOUS
    <2>2. e \in B /\ got' = got \cup {e}
      BY <1>0, <2>1, TailParts DEF ListOK
    <2>3. Kind(w) = "write"
      <3>1. w \in Waitx /\ InCall(w)
        BY <1>5, UnservedIs
      <3>2. Kind(w) # "read"
        BY <1>0, <1>5, ListWaiters
      <3>. QED  BY <1>10, <3>1, <3>2 DEF ListElems, ElemsInv, KindsRight
    <2>4. b \in Elem /\ b \notin B /\ ElemsInv((B \ {e}) \cup {b})'
      <3>1. ElemsInv(B) /\ out' = out
        BY <1>0, <1>10, <2>1 DEF ListElems
      <3>. QED  BY <1>4, <1>6, <2>2, <2>3, <3>1, ElemPass
    <2>5. IsInjective(list') /\ Range(list') = (B \ {e}) \cup {b}
      BY <1>8, <1>10, <2>1, <2>4 DEF ListElems
    <2>. QED  BY <2>4, <2>5, ListedBecomes DEF ListElems
  <1>. QED  BY <1>3, <1>8, <1>9, <1>10

(* A reader, or a writer, begins to wait.                                  *)
LEMMA ListWait ==
    ASSUME CallsInv, ListOK, WaitsList, NEW p \in Proc, pc[p] = "idle", closed = 0,
           NEW o \in {"read", "write"}, NEW b \in Elem \cup {None},
           Enqueue(p, o, b, TRUE), UNCHANGED <<cap, list, size>>,
           IF o = "read" THEN list = <<>> ELSE OnList!full,
           \/ o = "read" /\ b = None /\ out' = out
           \/ o = "write" /\ b \in out /\ out' = out \ {b}
    PROVE  CallsInv' /\ ListOK' /\ WaitsList' /\ (ListElems => ListElems')
  <1>0. out' \subseteq Elem \cup {None}
    BY DEF CallsInv, CallsTypeOK
  <1>1. CallsInv' /\ \E x \in Waitx : Begins(p, o, b, x) /\ Unserved' = Unserved \cup {x}
    BY <1>0, EnqueueDoes
  <1>2. PICK x \in Waitx : Begins(p, o, b, x) /\ Unserved' = Unserved \cup {x}
    BY <1>1
  <1>3. /\ Kind(x)' = o /\ \A v \in Unserved : Kind(v)' = Kind(v)
        /\ closed' = closed
    BY <1>1, <1>2, UnservedAfter DEF Begins
  <1>4. ListOK' /\ OnList!full' = OnList!full
    BY ListSame
  <1>5. WaitsList'
    <2>1. ASSUME NEW w \in Unserved'
          PROVE  IF Kind(w)' = "read" THEN list' = <<>> /\ closed' # 2 ELSE OnList!full'
      <3>1. CASE w = x
        BY <1>3, <1>4, <3>1
      <3>2. CASE w # x
        <4>1. w \in Unserved
          BY <1>2, <3>2
        <4>. QED  BY <1>3, <1>4, <4>1 DEF WaitsList
      <3>. QED  BY <3>1, <3>2
    <2>. QED  BY <2>1 DEF WaitsList
  <1>6. ASSUME ListElems PROVE ListElems'
    <2>1. b \in out => b # None
      BY <1>6, NoneApart DEF ListElems, ElemsInv, EachOnce
    <2>2. \A B : ElemsInv(B) => ElemsInv(B)'
      BY <1>2, <2>1, ElemBegin
    <2>. QED  BY <1>6, <2>2, ListSame
  <1>. QED  BY <1>1, <1>4, <1>5, <1>6

LEMMA ListReadWait ==
    ASSUME CallsInv, ListOK, WaitsList, NEW p \in Proc, OnList!ReadWait(p)
    PROVE  CallsInv' /\ ListOK' /\ WaitsList' /\ (ListElems => ListElems')
  <1>1. /\ pc[p] = "idle" /\ closed = 0 /\ list = <<>> /\ Enqueue(p, "read", None, TRUE)
        /\ UNCHANGED <<cap, list, size>> /\ out' = out
    BY ListIs, OnListSame DEF OnList!ReadWait, OnList!buffer
  <1>. QED  BY <1>1, ListWait

LEMMA ListWriteWait ==
    ASSUME CallsInv, ListOK, WaitsList, NEW p \in Proc, NEW e \in First(out), OnList!WriteWait(p, e)
    PROVE  CallsInv' /\ ListOK' /\ WaitsList' /\ (ListElems => ListElems')
  <1>1. /\ pc[p] = "idle" /\ closed = 0 /\ OnList!full /\ Enqueue(p, "write", e, TRUE)
        /\ UNCHANGED <<cap, list, size>> /\ out' = out \ {e}
        /\ e \in out /\ e \in Elem \cup {None}
    BY ListIs, OnListSame DEF OnList!WriteWait, OnList!buffer, First, CallsInv, CallsTypeOK
  <1>. QED  BY <1>1, ListWait

LEMMA ListWriteSome ==
    ASSUME CallsInv, ListOK, WaitsList, NEW p \in Proc, NEW e \in First(out), OnList!WriteSome(p, e)
    PROVE  CallsInv' /\ ListOK' /\ WaitsList' /\ (ListElems => ListElems')
  <1>1. /\ ~ OnList!empty /\ ~ OnList!full
        /\ list' = Append(list, e) /\ size' = size + 1 /\ got' = got /\ out' = out \ {e}
        /\ UNCHANGED <<timed, closed, wq, heap, mine, op, target, wakeups, pc>>
        /\ e \in out /\ e \in Elem \cup {None} /\ out' \subseteq Elem \cup {None}
    BY DEF OnList!WriteSome, OnList!PutLast, First, CallsInv, CallsTypeOK
  <1>2. CallsInv' /\ Unserved' = Unserved /\ \A w \in Waitx : Same(w)
    BY <1>1, CallsIdle
  <1>3. WaitsList'
    BY <1>1, <1>2, ListWaiters DEF WaitsList
  <1>. QED  BY <1>1, <1>2, <1>3, ListPut

LEMMA ListWriteFirst ==
    ASSUME CallsInv, ListOK, WaitsList, NEW p \in Proc, NEW e \in First(out), OnList!WriteFirst(p, e)
    PROVE  CallsInv' /\ ListOK' /\ WaitsList' /\ (ListElems => ListElems')
  <1>1. /\ DropDead
        /\ list' = Append(list, e) /\ size' = size + 1 /\ got' = got /\ out' = out \ {e}
        /\ UNCHANGED <<timed, closed, mine, op, target, wakeups, pc>>
        /\ e \in out /\ e \in Elem \cup {None} /\ out' \subseteq Elem \cup {None}
    BY OnListSame DEF OnList!WriteFirst, OnList!PutLast, First, CallsInv, CallsTypeOK
  <1>2. CallsInv' /\ Unserved' = {} /\ \A w \in Waitx : Same(w)
    BY <1>1, DropDoes
  <1>3. WaitsList'
    BY <1>2 DEF WaitsList
  <1>. QED  BY <1>1, <1>2, <1>3, ListPut

LEMMA ListWriteDirect ==
    ASSUME CallsInv, ListOK, WaitsList, NEW p \in Proc, NEW e \in First(out), OnList!WriteDirect(p, e)
    PROVE  CallsInv' /\ ListOK' /\ WaitsList' /\ (ListElems => ListElems')
  <1>0. /\ pc[p] = "idle" /\ OnList!empty /\ UNCHANGED <<cap, list, size>>
        /\ e \in out /\ out' = out \ {e} /\ got' = got
        /\ UNCHANGED <<timed, closed, mine, op, wakeups>>
    BY DEF OnList!WriteDirect, OnList!buffer, First
  <1>1. PICK i \in FirstLive : Claim(i, 1, e) /\ WakeOwner(p, wq[i])
    BY OnListSame DEF OnList!WriteDirect
  <1>2. out' \subseteq Elem \cup {None} /\ e \in Elem \cup {None}
    BY <1>0 DEF CallsInv, CallsTypeOK
  <1>3. CallsInv' /\ \E w \in Waitx : w = wq[i] /\ Serve(w, e)
    BY <1>0, <1>1, <1>2, ServeDoes
  <1>4. PICK w \in Waitx : w = wq[i] /\ Serve(w, e)
    BY <1>3
  <1>5. /\ w \in Unserved /\ Unserved' = Unserved \ {w}
        /\ \A v \in Unserved : Kind(v)' = Kind(v)
    BY <1>3, <1>4, UnservedAfter
  <1>6. ListOK' /\ OnList!full' = OnList!full
    BY <1>0, ListSame
  <1>7. WaitsList'
    BY <1>0, <1>5, <1>6 DEF WaitsList
  <1>8. ASSUME ListElems PROVE ListElems'
    <2>1. Kind(w) = "read"
      BY <1>0, <1>5, ListWaiters
    <2>2. e # None
      BY <1>0, <1>8, NoneApart DEF ListElems, ElemsInv, EachOnce
    <2>3. \A B : ElemsInv(B) => ElemsInv(B)'
      BY <1>0, <1>4, <2>1, <2>2, ElemHand
    <2>. QED  BY <1>0, <1>8, <2>3, ListSame
  <1>. QED  BY <1>3, <1>6, <1>7, <1>8

LEMMA ListClose ==
    ASSUME CallsInv, ListOK, WaitsList, NEW p \in Proc, OnList!Close(p)
    PROVE  CallsInv' /\ ListOK' /\ WaitsList' /\ (ListElems => ListElems')
  <1>0. UNCHANGED <<cap, list, size>>
    BY DEF OnList!Close, OnList!buffer
  <1>1. PICK empty \in BOOLEAN : empty = OnList!empty
    BY DEF OnList!empty
  <1>2. /\ CallsInv' /\ closed' = 2
        /\ IF empty THEN Told /\ Unserved' = {} ELSE Quiet
    <2>1. CloseLocked(p, empty)
      BY <1>1, OnListSame DEF OnList!Close
    <2>. QED  BY <2>1, CloseDoes
  <1>3. ListOK' /\ OnList!full' = OnList!full
    BY <1>0, ListSame
  <1>4. WaitsList'
    <2>1. CASE empty
      BY <1>2, <2>1 DEF WaitsList
    <2>2. CASE ~ empty
      <3>1. Unserved' = Unserved /\ \A v \in Unserved : Kind(v)' = Kind(v)
        BY <1>2, <2>2, UnservedAfter
      <3>2. \A v \in Unserved : Kind(v) # "read"
        BY <1>1, <2>2, ListIs DEF WaitsList
      <3>. QED  BY <1>3, <3>1, <3>2 DEF WaitsList
    <2>. QED  BY <2>1, <2>2
  <1>5. ASSUME ListElems PROVE ListElems'
    <2>1. \A B : ElemsInv(B) => ElemsInv(B)'
      <3>1. CASE empty
        <4>1. \A w \in Waitx : InCall(w) /\ heap[w].done = 0 => Kind(w) = "read"
          BY <1>1, <3>1, ListWaiters, UnservedIs
        <4>. QED  BY <1>2, <3>1, <4>1, ElemTold
      <3>2. CASE ~ empty
        BY <1>2, <3>2, ElemSame DEF Quiet
      <3>. QED  BY <3>1, <3>2
    <2>. QED  BY <1>0, <1>5, <2>1, ListSame
  <1>. QED  BY <1>2, <1>3, <1>4, <1>5

LEMMA ListProceed ==
    ASSUME CallsInv, ListOK, WaitsList, NEW p \in Proc, UNCHANGED <<cap, list, size>>,
           Proceed(p) \/ Expire(p) \/ (p \in Thread /\ SpuriousWakeup(p)) \/ CloseBegin(p)
    PROVE  CallsInv' /\ ListOK' /\ WaitsList' /\ (ListElems => ListElems')
  <1>1. /\ CallsInv'
        /\ \/ Quiet /\ (closed' = closed \/ (closed' = 1 /\ closed # 2))
           \/ \E w \in Waitx : Ends(p, w)
    BY ProceedDoes
  <1>2. ListOK' /\ OnList!full' = OnList!full
    BY ListSame
  <1>3. CASE Quiet /\ (closed' = closed \/ (closed' = 1 /\ closed # 2))
    <2>1. Unserved' = Unserved /\ \A v \in Unserved : Kind(v)' = Kind(v)
      BY <1>1, <1>3, UnservedAfter
    <2>2. WaitsList'
      BY <1>2, <1>3, <2>1 DEF WaitsList
    <2>3. \A B : ElemsInv(B) => ElemsInv(B)'
      BY <1>3, ElemSame DEF Quiet
    <2>. QED  BY <1>1, <1>2, <2>2, <2>3, ListSame
  <1>4. CASE \E w \in Waitx : Ends(p, w)
    <2>1. PICK w \in Waitx : Ends(p, w)
      BY <1>4
    <2>2. Unserved' = Unserved \ {w} /\ \A v \in Unserved' : Kind(v)' = Kind(v)
      BY <1>1, <2>1, UnservedAfter
    <2>3. WaitsList'
      BY <1>2, <2>1, <2>2 DEF WaitsList, Ends
    <2>4. \A B : ElemsInv(B) => ElemsInv(B)'
      BY <2>1, ElemEnd
    <2>. QED  BY <1>1, <1>2, <2>3, <2>4, ListSame
  <1>. QED  BY <1>1, <1>3, <1>4

LEMMA ListStart ==
    ASSUME OnList!Init PROVE CallsInv /\ ListOK /\ WaitsList /\ ListElems
  <1>1. WaitersInit /\ list = <<>> /\ size = 0
    BY OnListSame DEF OnList!Init
  <1>2. CallsInv
    BY <1>1, CallsStart
  <1>3. ListOK
    BY <1>1 DEF ListOK
  <1>4. \A w \in Waitx : ~ InCall(w)
    BY <1>1 DEF WaitersInit, Unused, InCall
  <1>5. Unserved = {}
    BY <1>2, <1>4, UnservedIs
  <1>6. Range(list) = {} /\ IsInjective(list)
    BY <1>1 DEF Range, IsInjective
  <1>7. ElemsInv(Range(list))
    BY <1>1, <1>4, <1>6 DEF ElemsInv, KindsRight, EachOnce, Held, WaitersInit
  <1>. QED
    BY <1>2, <1>3, <1>5, <1>6, <1>7 DEF ListElems, WaitsList

LEMMA ListStep ==
    ASSUME CallsInv, ListOK, WaitsList, OnList!Next
    PROVE  CallsInv' /\ ListOK' /\ WaitsList' /\ (ListElems => ListElems')
  <1>1. ASSUME NEW p \in Proc, OnList!Read(p)
        PROVE  CallsInv' /\ ListOK' /\ WaitsList' /\ (ListElems => ListElems')
    BY <1>1, ListReadSome, ListReadFull, ListReadLast, ListReadWait DEF OnList!Read
  <1>2. ASSUME NEW p \in Proc, NEW e \in First(out), OnList!Write(p, e)
        PROVE  CallsInv' /\ ListOK' /\ WaitsList' /\ (ListElems => ListElems')
    BY <1>2, ListWriteSome, ListWriteDirect, ListWriteFirst, ListWriteWait DEF OnList!Write
  <1>3. ASSUME NEW p \in Proc, OnList!Close(p)
        PROVE  CallsInv' /\ ListOK' /\ WaitsList' /\ (ListElems => ListElems')
    BY <1>3, ListClose
  <1>4. ASSUME NEW p \in Proc, UNCHANGED <<cap, list, size>>,
               Proceed(p) \/ Expire(p) \/ (p \in Thread /\ SpuriousWakeup(p)) \/ CloseBegin(p)
        PROVE  CallsInv' /\ ListOK' /\ WaitsList' /\ (ListElems => ListElems')
    BY <1>4, ListProceed
  <1>5. Thread \subseteq Proc
    BY DEF Proc
  <1>6. \/ \E p \in Proc : OnList!Read(p)
        \/ \E p \in Proc : \E e \in First(out) : OnList!Write(p, e)
        \/ \E p \in Proc : OnList!Close(p)
        \/ \E p \in Proc : /\ UNCHANGED <<cap, list, size>>
                           /\ Proceed(p) \/ Expire(p) \/ (p \in Thread /\ SpuriousWakeup(p)) \/ CloseBegin(p)
    BY <1>5, OnListSame DEF OnList!Next, OnList!Waited, OnList!buffer
  <1>. QED  BY <1>1, <1>2, <1>3, <1>4, <1>6

-----------------------------------------------------------------------------
(* Counting what is there once at most.                                    *)
LEMMA AtMostOne ==
    ASSUME NEW S, \A x, y \in S : x = y
    PROVE  Cardinality(S) = IF S = {} THEN 0 ELSE 1
  <1>1. CASE S = {}
    BY <1>1, FS_EmptySet
  <1>2. CASE S # {}
    <2>1. PICK x : x \in S
      BY <1>2
    <2>2. S = {x}
      BY <2>1
    <2>3. Cardinality({x}) = 1
      BY FS_Singleton
    <2>. QED  BY <1>2, <2>2, <2>3
  <1>. QED  BY <1>1, <1>2

(* The elements are each in one place if those in the buffer are B.        *)
LEMMA EachInOnePlace ==
    ASSUME CallsInv, NEW s, ElemsInv({s[i] : i \in DOMAIN s}),
           \A i, j \in DOMAIN s : s[i] = s[j] => i = j
    PROVE  InOnePlace(s)
  <1> DEFINE B == {s[i] : i \in DOMAIN s}
  <1>1. KindsRight /\ EachOnce(B)
    BY DEF ElemsInv
  <1>2. out \cap got = {} /\ got \subseteq Elem
    BY <1>1 DEF EachOnce
  <1>3. ASSUME NEW e \in Elem
        PROVE  LET inBuffer == {i \in DOMAIN s : s[i] = e}
                   inQueue == {i \in DOMAIN wq : /\ heap[wq[i]].state # "timeout"
                                                 /\ heap[wq[i]].buf = e}
                   inHand == {p \in Proc : /\ op[p] = "read"
                                           /\ heap[mine[p]].done = 1
                                           /\ heap[mine[p]].buf = e}
               IN  Cardinality(inBuffer) + Cardinality(inQueue) + Cardinality(inHand)
                     = IF e \in out \cup got THEN 0 ELSE 1
    <2> DEFINE inBuffer == {i \in DOMAIN s : s[i] = e}
               inQueue == {i \in DOMAIN wq : /\ heap[wq[i]].state # "timeout"
                                             /\ heap[wq[i]].buf = e}
               inHand == {p \in Proc : /\ op[p] = "read"
                                       /\ heap[mine[p]].done = 1
                                       /\ heap[mine[p]].buf = e}
    <2>1. Cardinality(inBuffer) = IF e \in B THEN 1 ELSE 0
      <3>1. Cardinality(inBuffer) = IF inBuffer = {} THEN 0 ELSE 1
        BY AtMostOne
      <3>2. inBuffer = {} <=> e \notin B
        OBVIOUS
      <3>. QED  BY <3>1, <3>2
    <2>2. \A v, w \in Waitx : /\ Held(v) /\ Held(w) /\ heap[v].buf = e /\ heap[w].buf = e => v = w
                              /\ Held(v) /\ heap[v].buf = e => e \notin out \cup got \cup B
      BY <1>1 DEF EachOnce
    <2>3. \A i \in inQueue : wq[i] \in Waitx /\ Held(wq[i]) /\ heap[wq[i]].done = 0
      <3>1. ASSUME NEW i \in inQueue PROVE wq[i] \in Waitx /\ Held(wq[i]) /\ heap[wq[i]].done = 0
        <4>1. wq[i] \in Range(wq) /\ heap[wq[i]].state # "timeout" /\ heap[wq[i]].buf = e
          BY DEF Range
        <4>2. wq[i] \in Unserved
          BY <4>1, QueueParts
        <4>. QED  BY <4>1, <4>2, QueueParts, NoneApart DEF Held
      <3>. QED  BY <3>1
    <2>4. \A p \in inHand : mine[p] \in Waitx /\ Held(mine[p]) /\ heap[mine[p]].who = p /\ heap[mine[p]].done = 1
      <3>1. ASSUME NEW p \in inHand
            PROVE  mine[p] \in Waitx /\ Held(mine[p]) /\ heap[mine[p]].who = p /\ heap[mine[p]].done = 1
        <4>1. p \in Proc /\ op[p] = "read" /\ heap[mine[p]].done = 1 /\ heap[mine[p]].buf = e
          OBVIOUS
        <4>2. mine[p] # None
          BY <4>1 DEF CallsInv, CallsInPlace
        <4>. QED  BY <4>1, <4>2, NoneApart DEF CallsInv, CallsTypeOK, Belongs, Held
      <3>. QED  BY <3>1
    <2>5. ASSUME NEW w \in Waitx, Held(w), heap[w].buf = e
          PROVE  IF heap[w].done = 0 THEN \E i \in DOMAIN wq : i \in inQueue
                                     ELSE \E p \in Proc : p \in inHand
      <3>1. CASE heap[w].done = 0
        <4>1. w \in Unserved
          BY <2>5, <3>1, UnservedIs DEF Held
        <4>2. PICK i \in DOMAIN wq : wq[i] = w /\ heap[w].state = "wait"
          BY <4>1, QueueParts DEF Range
        <4>3. i \in inQueue
          BY <2>5, <4>2
        <4>. QED  BY <3>1, <4>3
      <3>2. CASE heap[w].done # 0
        <4>1. Kind(w) = "read" /\ heap[w].done = 1
          BY <1>1, <2>5, <3>2 DEF KindsRight, Held
        <4>2. heap[w].who \in Proc /\ mine[heap[w].who] = w
          BY <2>5 DEF Held, CallsInv, Belongs
        <4>3. heap[w].who \in inHand
          BY <2>5, <4>1, <4>2 DEF Kind
        <4>. QED  BY <3>2, <4>2, <4>3
      <3>. QED  BY <3>1, <3>2
    <2>6. Cardinality(inQueue) = IF inQueue = {} THEN 0 ELSE 1
      <3>1. ASSUME NEW i \in inQueue, NEW j \in inQueue PROVE i = j
        <4>1. wq[i] = wq[j] /\ i \in DOMAIN wq /\ j \in DOMAIN wq
          BY <2>2, <2>3
        <4>. QED  BY <4>1 DEF CallsInv, QueuedOnce, IsInjective
      <3>. QED  BY <3>1, AtMostOne
    <2>7. Cardinality(inHand) = IF inHand = {} THEN 0 ELSE 1
      <3>1. ASSUME NEW p \in inHand, NEW q \in inHand PROVE p = q
        <4>1. mine[p] = mine[q]
          BY <2>2, <2>4
        <4>. QED  BY <2>4, <4>1
      <3>. QED  BY <3>1, AtMostOne
    <2>8. e \in out \cup got \cup B \/ \E w \in Waitx : Held(w) /\ heap[w].buf = e
      BY <1>1 DEF EachOnce
    <2>9. B \cap (out \cup got) = {}
      BY <1>1 DEF EachOnce
    <2>10. inQueue # {} /\ inHand # {} => FALSE
      <3>1. ASSUME NEW i \in inQueue, NEW p \in inHand PROVE FALSE
        <4>1. wq[i] = mine[p]
          BY <2>2, <2>3, <2>4
        <4>. QED  BY <2>3, <2>4, <4>1
      <3>. QED  BY <3>1
    <2>11. inQueue # {} \/ inHand # {} => e \notin out \cup got \cup B
      BY <2>2, <2>3, <2>4
    <2>12. inQueue = {} /\ inHand = {} => e \in out \cup got \cup B
      BY <2>5, <2>8
    <2> HIDE DEF inBuffer, inQueue, inHand, B
    <2>13. Cardinality(inBuffer) + Cardinality(inQueue) + Cardinality(inHand)
             = IF e \in out \cup got THEN 0 ELSE 1
      <3>1. CASE inQueue = {} /\ inHand = {}
        BY <2>1, <2>6, <2>7, <2>9, <2>12, <3>1
      <3>2. CASE inQueue # {} \/ inHand # {}
        BY <2>1, <2>6, <2>7, <2>10, <2>11, <3>2
      <3>. QED  BY <3>1, <3>2
    <2>. QED  BY <2>13 DEF inBuffer, inQueue, inHand
  <1>. QED  BY <1>2, <1>3 DEF InOnePlace

(* What is in the ring, oldest first, is what its blocks hold.             *)
LEMMA ContentsAre ==
    ASSUME RingOK, RingHolds
    PROVE  /\ {Contents[i] : i \in DOMAIN Contents} = Stored
           /\ \A i, j \in DOMAIN Contents : Contents[i] = Contents[j] => i = j
  <1> DEFINE n == IF rx # wx THEN (wx + cap - rx) % cap ELSE IF full THEN cap ELSE 0
             At(i) == (rx + i - 1) % cap
  <1>1. cap \in Nat /\ rx \in Nat /\ wx \in Nat
    BY CapIs DEF RingOK
  <1>2. DOMAIN Contents = 1..n /\ \A i \in 1..n : Contents[i] = ring[At(i)]
    BY DEF Contents
  <1>3. CASE cap = 0
    <2>1. n = 0
      BY <1>3 DEF RingOK
    <2>2. Occupied = {}
      BY <1>3 DEF Occupied
    <2> HIDE DEF n
    <2>3. DOMAIN Contents = {}
      BY <1>2, <2>1
    <2>. QED  BY <2>2, <2>3 DEF Stored
  <1>4. CASE cap > 0
    <2>1. rx < cap /\ wx < cap
      BY <1>4 DEF RingOK
    <2>2. n = IF rx < wx THEN wx - rx ELSE IF wx < rx THEN wx + cap - rx ELSE IF full THEN cap ELSE 0
      <3>1. CASE rx < wx
        BY <1>1, <1>4, <2>1, <3>1, Remainder
      <3>2. CASE wx < rx
        BY <1>1, <1>4, <2>1, <3>2, Remainder
      <3>3. CASE rx = wx
        BY <1>1, <3>3
      <3>. QED  BY <1>1, <3>1, <3>2, <3>3
    <2> HIDE DEF n
    <2>3. n \in Nat /\ n <= cap
      BY <1>1, <2>1, <2>2
    <2>4. \A i \in 1..n : At(i) = IF rx + i - 1 < cap THEN rx + i - 1 ELSE rx + i - 1 - cap
      <3>1. ASSUME NEW i \in 1..n PROVE rx + i - 1 \in Nat /\ rx + i - 1 < 2 * cap
        BY <1>1, <2>1, <2>3
      <3>. QED  BY <1>1, <1>4, <3>1, Remainder
    <2> HIDE DEF At
    <2>5. \A i, j \in 1..n : At(i) = At(j) => i = j
      BY <1>1, <2>1, <2>3, <2>4
    <2>6. \A i \in 1..n : At(i) \in Occupied
      BY <1>1, <2>1, <2>2, <2>4 DEF Occupied
    <2>7. ASSUME NEW k \in Occupied PROVE \E i \in 1..n : At(i) = k
      <3>1. CASE k >= rx
        <4>1. k - rx + 1 \in 1..n
          BY <1>1, <2>1, <2>2, <3>1 DEF Occupied
        <4>2. At(k - rx + 1) = k
          BY <1>1, <2>4, <4>1 DEF Occupied
        <4>. QED  BY <4>1, <4>2
      <3>2. CASE k < rx
        <4>1. k + cap - rx + 1 \in 1..n
          BY <1>1, <2>1, <2>2, <3>2 DEF Occupied
        <4>2. At(k + cap - rx + 1) = k
          BY <1>1, <2>4, <4>1 DEF Occupied
        <4>. QED  BY <4>1, <4>2
      <3>. QED  BY <1>1, <3>1, <3>2 DEF Occupied
    <2>8. {Contents[i] : i \in DOMAIN Contents} = {ring[At(i)] : i \in 1..n}
      BY <1>2
    <2>9. {ring[At(i)] : i \in 1..n} = Stored
      BY <2>6, <2>7 DEF Stored
    <2>10. \A i, j \in DOMAIN Contents : Contents[i] = Contents[j] => i = j
      BY <1>2, <2>5, <2>6 DEF RingHolds
    <2>. QED  BY <2>8, <2>9, <2>10
  <1>. QED  BY <1>1, <1>3, <1>4

-----------------------------------------------------------------------------
(***************************************************************************)
(* Both channels.                                                          *)
(***************************************************************************)
PipeInv ==
    /\ CallsInv
    /\ part \in {"ring", "list"}
    /\ part = "ring" => RingOK /\ WaitsRing
    /\ part = "list" => ListOK /\ WaitsList

PipeElems ==
    /\ part = "ring" => RingElems
    /\ part = "list" => ListElems

LEMMA PipeStart == ASSUME BothInit PROVE PipeInv /\ PipeElems
  BY RingStart, ListStart DEF BothInit, PipeInv, PipeElems

LEMMA PipeStutters ==
    ASSUME PipeInv, UNCHANGED allVars
    PROVE  PipeInv' /\ (PipeElems => PipeElems')
  <1>0. /\ UNCHANGED <<timed, closed, wq, heap, mine, op, target, wakeups, out, got, pc>>
        /\ UNCHANGED <<cap, ring, rx, wx, full>> /\ UNCHANGED <<list, size>> /\ part' = part
    BY DEF allVars, vars, waiters, buffer
  <1>1. CallsInv' /\ Unserved' = Unserved /\ \A w \in Waitx : Same(w)
    BY <1>0, CallsIdle DEF PipeInv, CallsInv, CallsTypeOK
  <1>2. \A B : ElemsInv(B) => ElemsInv(B)'
    BY <1>0, <1>1, ElemSame
  <1>3. CASE part = "ring"
    <2>1. RingOK' /\ (RingHolds => RingHolds') /\ Stored' = Stored
      BY <1>0, <1>3, RingSame DEF PipeInv
    <2>2. WaitsRing'
      BY <1>0, <1>1, <1>3 DEF PipeInv, WaitsRing, Kind
    <2>3. ASSUME RingElems PROVE RingElems'
      <3>1. PICK B : B = Stored
        OBVIOUS
      <3>2. ElemsInv(B)' /\ CallersKnown'
        BY <1>0, <1>2, <2>3, <3>1 DEF RingElems, CallersKnown
      <3>. QED  BY <2>1, <2>3, <3>1, <3>2, StoredBecomes DEF RingElems
    <2>. QED  BY <1>0, <1>1, <1>3, <2>1, <2>2, <2>3 DEF PipeInv, PipeElems
  <1>4. CASE part = "list"
    <2>1. ListOK' /\ OnList!full' = OnList!full
      BY <1>0, <1>4, ListSame DEF PipeInv
    <2>2. WaitsList'
      BY <1>0, <1>1, <1>4, <2>1 DEF PipeInv, WaitsList, Kind
    <2>3. ListElems => ListElems'
      BY <1>0, <1>2, <1>4, ListSame DEF PipeInv
    <2>. QED  BY <1>0, <1>1, <1>4, <2>1, <2>2, <2>3 DEF PipeInv, PipeElems
  <1>. QED  BY <1>3, <1>4 DEF PipeInv

LEMMA PipeStep ==
    ASSUME PipeInv, [BothNext]_allVars
    PROVE  PipeInv' /\ (OneEach /\ PipeElems => PipeElems')
  <1>1. CASE UNCHANGED allVars
    BY <1>1, PipeStutters
  <1>2. CASE part = "ring" /\ Next /\ part' = part
    <2>1. CallsInv' /\ RingOK' /\ WaitsRing' /\ (OneEach /\ RingElems => RingElems')
      BY <1>2, RingStep DEF PipeInv
    <2>. QED  BY <1>2, <2>1 DEF PipeInv, PipeElems
  <1>3. CASE part = "list" /\ OnList!Next /\ part' = part
    <2>1. CallsInv' /\ ListOK' /\ WaitsList' /\ (ListElems => ListElems')
      BY <1>3, ListStep DEF PipeInv
    <2>. QED  BY <1>3, <2>1 DEF PipeInv, PipeElems
  <1>. QED  BY <1>1, <1>2, <1>3 DEF BothNext

(* Whoever waits at a channel, in read() or in write(), is in its queue,   *)
(* or has been served and learns of it once: a coroutine is made ready     *)
(* once, a thread does not sleep on; a waitx leaves the queue once and is  *)
(* freed by whoever uses it last.                                          *)
THEOREM WaitersStayServed == BothSpec => []WaitersServed
  <1>1. BothInit => PipeInv
    BY PipeStart
  <1>2. PipeInv /\ [BothNext]_allVars => PipeInv'
    BY PipeStep
  <1>3. PipeInv => WaitersServed
    BY CallsTold, CallsSafe DEF PipeInv, WaitersServed
  <1>. QED  BY <1>1, <1>2, <1>3, PTL DEF BothSpec

(* Nobody waits who could go on: a reader waits at an empty channel that   *)
(* is not closed, a writer at a full one; without a buffer, nobody while   *)
(* the other side waits.                                                   *)
THEOREM WaitsStayNeeded == BothSpec => []WaitsNeeded
  <1>1. BothInit => PipeInv
    BY PipeStart
  <1>2. PipeInv /\ [BothNext]_allVars => PipeInv'
    BY PipeStep
  <1>3. PipeInv => WaitsNeeded
    <2>. SUFFICES ASSUME PipeInv PROVE WaitsNeeded
      OBVIOUS
    <2>1. CASE part = "ring"
      <3>1. RingOK /\ WaitsRing /\ cap \in Nat
        BY <2>1, CapIs DEF PipeInv
      <3>2. NoNeedlessWait
        BY <3>1 DEF WaitsRing, NoNeedlessWait, WaitJustified, Kind
      <3>. QED  BY <2>1, <3>2 DEF WaitsNeeded
    <2>2. CASE part = "list"
      <3>1. ListOK /\ WaitsList
        BY <2>2 DEF PipeInv
      <3>2. OnList!WaitJustified(list = <<>>, OnList!full)
        BY <3>1, OnListSame DEF WaitsList, OnList!WaitJustified, Kind
      <3>. QED  BY <2>2, <3>1, <3>2 DEF WaitsNeeded, OnList!NoNeedlessWait, ListOK
    <2>. QED  BY <2>1, <2>2 DEF PipeInv
  <1>. QED  BY <1>1, <1>2, <1>3, PTL DEF BothSpec

(* No element is lost, delivered twice or made up by a channel: each is    *)
(* not written, in the buffer, with one writer that waits, on its way to   *)
(* one reader, or read, whoever times out.  A channel without a buffer     *)
(* must have one reader and one writer, as run chan_unbuffered_many shows. *)
THEOREM NothingIsLost == ASSUME OneEach PROVE BothSpec => []NothingLost
  <1>1. BothInit => PipeInv /\ PipeElems
    BY PipeStart
  <1>2. PipeInv /\ PipeElems /\ [BothNext]_allVars => PipeInv' /\ PipeElems'
    BY PipeStep
  <1>3. PipeInv /\ PipeElems => NothingLost
    <2>. SUFFICES ASSUME PipeInv, PipeElems PROVE NothingLost
      OBVIOUS
    <2>1. CASE part = "ring"
      <3>1. CallsInv /\ RingOK /\ RingElems
        BY <2>1 DEF PipeInv, PipeElems
      <3>2. /\ {Contents[i] : i \in DOMAIN Contents} = Stored
            /\ \A i, j \in DOMAIN Contents : Contents[i] = Contents[j] => i = j
        BY <3>1, ContentsAre DEF RingElems
      <3>3. InOnePlace(Contents)
        BY <3>1, <3>2, EachInOnePlace DEF RingElems
      <3>. QED  BY <2>1, <3>3 DEF NothingLost, ElementInOnePlace
    <2>2. CASE part = "list"
      <3>1. CallsInv /\ ListOK /\ ListElems
        BY <2>2 DEF PipeInv, PipeElems
      <3>2. /\ {list[i] : i \in DOMAIN list} = Range(list)
            /\ \A i, j \in DOMAIN list : list[i] = list[j] => i = j
        BY <3>1 DEF ListElems, IsInjective, Range
      <3>3. InOnePlace(list)
        BY <3>1, <3>2, EachInOnePlace DEF ListElems
      <3>4. \A S : OnList!Cardinality(S) = Cardinality(S)
        BY DEF OnList!Cardinality, Cardinality
      <3>5. OnList!InOnePlace(list)
        BY <3>3, <3>4, OnListSame DEF InOnePlace, OnList!InOnePlace
      <3>. QED  BY <2>2, <3>5 DEF NothingLost, OnList!ElementInOnePlace
    <2>. QED  BY <2>1, <2>2 DEF PipeInv
  <1>. QED  BY <1>1, <1>2, <1>3, PTL DEF BothSpec

-----------------------------------------------------------------------------
(***************************************************************************)
(* First in, first out.                                                    *)
(***************************************************************************)
(* m counts up the numbers in P, of which there are n.                     *)
CountsUp(m, n, P) ==
    /\ n \in Nat /\ m \in [1..n -> P]
    /\ \A j, k \in 1..n : j < k => m[j] < m[k]
    /\ \A i \in P : \E k \in 1..n : m[k] = i

(* Finitely many numbers can be counted up: those up to N + 1 are those up *)
(* to N and perhaps N + 1, which comes last.                               *)
LEMMA Countable ==
    ASSUME NEW N \in Nat, NEW P, P \subseteq 1..N
    PROVE  \E n \in Nat : \E m \in [1..n -> P] : CountsUp(m, n, P)
  <1> DEFINE Can(Q) == \E n \in Nat : \E m \in [1..n -> Q] : CountsUp(m, n, Q)
             Cannot == {x \in Nat : \E Q \in SUBSET (1..x) : ~ Can(Q)}
  <1>1. ASSUME Cannot # {} PROVE FALSE
    <2>1. Cannot \subseteq Nat
      OBVIOUS
    <2> HIDE DEF Cannot
    <2>2. PICK x \in Cannot : \A y \in Cannot : x <= y
      BY <1>1, <2>1, SmallestOfNumbers
    <2>3. x \in Nat
      BY <2>1, <2>2
    <2>4. PICK Q : Q \in SUBSET (1..x) /\ ~ Can(Q)
      BY <2>2 DEF Cannot
    <2>5. x # 0
      <3>1. ASSUME x = 0 PROVE FALSE
        <4>1. Q = {}
          BY <2>4, <3>1
        <4>2. [i \in 1..0 |-> i] \in [1..0 -> {}] /\ 0 \in Nat
          OBVIOUS
        <4>3. CountsUp([i \in 1..0 |-> i], 0, {})
          BY DEF CountsUp
        <4>. QED  BY <2>4, <4>1, <4>2, <4>3
      <3>. QED  BY <3>1
    <2>6. x - 1 \in Nat /\ x - 1 \notin Cannot
      BY <2>2, <2>3, <2>5
    <2>7. Q \ {x} \in SUBSET (1..(x - 1))
      BY <2>3, <2>4, <2>5
    <2>8. Can(Q \ {x})
      BY <2>6, <2>7 DEF Cannot
    <2>9. PICK n \in Nat : \E m \in [1..n -> Q \ {x}] : CountsUp(m, n, Q \ {x})
      BY <2>8
    <2>10. PICK m \in [1..n -> Q \ {x}] : CountsUp(m, n, Q \ {x})
      BY <2>9
    <2>11. x \in Q
      <3>1. ASSUME x \notin Q PROVE FALSE
        <4>1. Q \ {x} = Q
          BY <3>1
        <4>. QED  BY <2>4, <2>8, <4>1
      <3>. QED  BY <3>1
    <2>12. PICK f : f = [k \in 1..(n + 1) |-> IF k = n + 1 THEN x ELSE m[k]]
      OBVIOUS
    <2>13. /\ n + 1 \in Nat /\ f \in [1..(n + 1) -> Q] /\ f[n + 1] = x
           /\ \A k \in 1..n : f[k] = m[k]
      BY <2>10, <2>11, <2>12
    <2>14. \A k \in 1..n : m[k] \in 1..(x - 1)
      BY <2>7, <2>10
    <2>15. ASSUME NEW j \in 1..(n + 1), NEW k \in 1..(n + 1), j < k PROVE f[j] < f[k]
      <3>1. j \in 1..n
        BY <2>15
      <3>2. CASE k = n + 1
        BY <2>3, <2>13, <2>14, <3>1, <3>2
      <3>3. CASE k # n + 1
        <4>1. k \in 1..n
          BY <3>3
        <4>. QED  BY <2>10, <2>13, <2>15, <3>1, <4>1 DEF CountsUp
      <3>. QED  BY <3>2, <3>3
    <2>16. ASSUME NEW i \in Q PROVE \E k \in 1..(n + 1) : f[k] = i
      <3>1. CASE i = x
        BY <2>13, <3>1
      <3>2. CASE i # x
        <4>1. PICK k \in 1..n : m[k] = i
          BY <2>10, <3>2 DEF CountsUp
        <4>2. k \in 1..(n + 1) /\ f[k] = i
          BY <2>13, <4>1
        <4>. QED  BY <4>2
      <3>. QED  BY <3>1, <3>2
    <2>17. CountsUp(f, n + 1, Q)
      BY <2>13, <2>15, <2>16 DEF CountsUp
    <2>. QED  BY <2>4, <2>13, <2>17
  <1>2. N \notin Cannot
    BY <1>1
  <1>. QED  BY <1>2

(* They can be counted up in one way only.                                 *)
LEMMA CountedOnce ==
    ASSUME NEW P, P \subseteq Nat, NEW n, NEW m, CountsUp(m, n, P), NEW f, CountsUp(f, n, P)
    PROVE  f = m
  <1> DEFINE D == {k \in 1..n : f[k] # m[k]}
  <1>0. /\ n \in Nat /\ m \in [1..n -> P] /\ f \in [1..n -> P]
        /\ \A j, k \in 1..n : j < k => m[j] < m[k] /\ f[j] < f[k]
        /\ \A i \in P : (\E k \in 1..n : m[k] = i) /\ (\E k \in 1..n : f[k] = i)
        /\ \A k \in 1..n : f[k] \in Nat /\ m[k] \in Nat
    BY DEF CountsUp
  <1>1. ASSUME D # {} PROVE FALSE
    <2>1. D \subseteq Nat
      BY <1>0
    <2>2. PICK d \in D : \A k \in D : d <= k
      <3> HIDE DEF D
      <3>. QED  BY <1>1, <2>1, SmallestOfNumbers
    <2>3. d \in 1..n /\ f[d] # m[d] /\ f[d] \in P /\ m[d] \in P /\ f[d] \in Nat /\ m[d] \in Nat
      BY <1>0
    <2>4. \A k \in 1..n : k < d => f[k] = m[k]
      BY <1>0, <2>2
    <2>5. PICK k \in 1..n : f[k] = m[d]
      BY <1>0, <2>3
    <2>6. PICK l \in 1..n : m[l] = f[d]
      BY <1>0, <2>3
    <2>7. d < k
      <3>1. k # d
        BY <2>3, <2>5
      <3>2. ~ (k < d)
        BY <1>0, <2>3, <2>4, <2>5
      <3>. QED  BY <1>0, <2>3, <3>1, <3>2
    <2>8. d < l
      <3>1. l # d
        BY <2>3, <2>6
      <3>2. ~ (l < d)
        BY <1>0, <2>3, <2>4, <2>6
      <3>. QED  BY <1>0, <2>3, <3>1, <3>2
    <2>9. f[d] < m[d] /\ m[d] < f[d]
      BY <1>0, <2>3, <2>5, <2>6, <2>7, <2>8
    <2>. QED  BY <2>3, <2>9
  <1>2. \A k \in 1..n : f[k] = m[k]
    BY <1>1
  <1>. QED  BY <1>0, <1>2

(* So the order chosen in the model is the one there is.                   *)
LEMMA OrderOnly ==
    ASSUME NEW P, P \subseteq Nat, NEW n, NEW m, CountsUp(m, n, P)
    PROVE  InOrder(P) = m
  <1> DEFINE Up(f) == \A j, k \in DOMAIN f : j < k => f[j] < f[k]
             c == Cardinality(P)
             f0 == CHOOSE f \in [1..c -> P] : Up(f)
  <1>1. /\ n \in Nat /\ m \in [1..n -> P]
        /\ \A j, k \in 1..n : j < k => m[j] < m[k]
        /\ \A i \in P : \E k \in 1..n : m[k] = i
    BY DEF CountsUp
  <1>2. IsFiniteSet(1..n) /\ Cardinality(1..n) = n
    BY <1>1, FS_Interval
  <1>3. ASSUME NEW f \in [1..n -> P], \A j, k \in 1..n : j < k => f[j] < f[k]
        PROVE  f \in Injection(1..n, P)
    <2>1. ASSUME NEW j \in 1..n, NEW k \in 1..n, f[j] = f[k] PROVE j = k
      <3>1. f[j] \in Nat
        BY <1>1, <1>3
      <3>. QED  BY <1>1, <1>3, <2>1, <3>1
    <2>. QED  BY <1>3, <2>1 DEF Injection, IsInjective
  <1>4. c = n /\ IsFiniteSet(P)
    <2>1. m \in Bijection(1..n, P)
      BY <1>1, <1>3 DEF Bijection, Surjection
    <2>. QED  BY <1>2, <2>1, FS_Bijection DEF ExistsBijection
  <1>5. \E f \in [1..c -> P] : Up(f)
    BY <1>1, <1>4
  <1>6. f0 \in [1..c -> P] /\ Up(f0)
    BY <1>5
  <1>7. InOrder(P) = f0
    BY DEF InOrder
  <1> HIDE DEF f0, c
  <1>8. f0 \in [1..n -> P] /\ \A j, k \in 1..n : j < k => f0[j] < f0[k]
    BY <1>4, <1>6
  <1>9. f0 \in Surjection(1..n, P)
    BY <1>2, <1>3, <1>4, <1>8, FS_Injection DEF c
  <1>10. CountsUp(f0, n, P)
    BY <1>1, <1>8, <1>9 DEF CountsUp, Surjection
  <1>. QED  BY <1>7, <1>10, CountedOnce

LEMMA OrderIs ==
    ASSUME NEW N \in Nat, NEW P, P \subseteq 1..N
    PROVE  \E n \in Nat : CountsUp(InOrder(P), n, P)
  <1>1. PICK n \in Nat : \E m \in [1..n -> P] : CountsUp(m, n, P)
    BY Countable
  <1>2. PICK m : CountsUp(m, n, P)
    BY <1>1
  <1>3. P \subseteq Nat
    OBVIOUS
  <1>. QED  BY <1>2, <1>3, OrderOnly

(* Nothing to count; one more number, behind all others; all but the       *)
(* first, counted from it on; all but one of them.                         *)
LEMMA OrderNone == DOMAIN InOrder({}) = {}
  <1>1. PICK n \in Nat : CountsUp(InOrder({}), n, {})
    <2>1. {} \subseteq 1..0 /\ 0 \in Nat
      OBVIOUS
    <2>. QED  BY <2>1, OrderIs
  <1>. QED  BY <1>1 DEF CountsUp

MoreCounted(N, P, n) ==
    /\ CountsUp(InOrder(P \cup {N + 1}), n + 1, P \cup {N + 1})
    /\ InOrder(P \cup {N + 1})[n + 1] = N + 1
    /\ \A k \in 1..n : InOrder(P \cup {N + 1})[k] = InOrder(P)[k]

LEMMA OrderMore ==
    ASSUME NEW N \in Nat, NEW P, P \subseteq 1..N, NEW n \in Nat, CountsUp(InOrder(P), n, P)
    PROVE  MoreCounted(N, P, n)
  <1>1. PICK m, Q : m = InOrder(P) /\ Q = P \cup {N + 1}
    OBVIOUS
  <1>2. /\ n \in Nat /\ m \in [1..n -> P] /\ \A k \in 1..n : m[k] \in 1..N
        /\ \A j, k \in 1..n : j < k => m[j] < m[k]
        /\ \A i \in P : \E k \in 1..n : m[k] = i
    BY <1>1 DEF CountsUp
  <1>3. PICK f : f = [k \in 1..(n + 1) |-> IF k = n + 1 THEN N + 1 ELSE m[k]]
    OBVIOUS
  <1>4. /\ n + 1 \in Nat /\ f \in [1..(n + 1) -> Q] /\ f[n + 1] = N + 1
        /\ \A k \in 1..n : f[k] = m[k]
    BY <1>1, <1>2, <1>3
  <1>5. ASSUME NEW j \in 1..(n + 1), NEW k \in 1..(n + 1), j < k PROVE f[j] < f[k]
    <2>1. j \in 1..n
      BY <1>2, <1>5
    <2>2. CASE k = n + 1
      BY <1>2, <1>4, <2>1, <2>2
    <2>3. CASE k # n + 1
      <3>1. k \in 1..n
        BY <1>2, <2>3
      <3>. QED  BY <1>2, <1>4, <1>5, <2>1, <3>1
    <2>. QED  BY <2>2, <2>3
  <1>6. ASSUME NEW i \in Q PROVE \E k \in 1..(n + 1) : f[k] = i
    <2>1. CASE i = N + 1
      BY <1>2, <1>4, <2>1
    <2>2. CASE i # N + 1
      <3>1. PICK k \in 1..n : m[k] = i
        BY <1>1, <1>2, <2>2
      <3>2. k \in 1..(n + 1) /\ f[k] = i
        BY <1>2, <1>4, <3>1
      <3>. QED  BY <3>2
    <2>. QED  BY <2>1, <2>2
  <1>7. CountsUp(f, n + 1, Q)
    BY <1>4, <1>5, <1>6 DEF CountsUp
  <1>8. Q \subseteq Nat
    BY <1>1
  <1>9. InOrder(Q) = f
    BY <1>7, <1>8, OrderOnly
  <1>. QED  BY <1>1, <1>4, <1>7, <1>9 DEF MoreCounted

IsFirst(i, P) == i \in P /\ \A j \in P : i <= j
After(i, P) == {j - i : j \in P \ {i}}

LaterCounted(i, P, n) ==
    /\ n > 0 /\ n - 1 \in Nat /\ InOrder(P)[1] = i
    /\ CountsUp(InOrder(After(i, P)), n - 1, After(i, P))
    /\ \A k \in 1..(n - 1) : InOrder(After(i, P))[k] = InOrder(P)[k + 1] - i

LEMMA OrderLater ==
    ASSUME NEW i, NEW P, P \subseteq Nat, IsFirst(i, P),
           NEW n \in Nat, CountsUp(InOrder(P), n, P)
    PROVE  LaterCounted(i, P, n)
  <1>1. PICK m, Q : m = InOrder(P) /\ Q = After(i, P)
    OBVIOUS
  <1>2. /\ n \in Nat /\ m \in [1..n -> P] /\ \A k \in 1..n : m[k] \in Nat /\ i <= m[k]
        /\ \A j, k \in 1..n : j < k => m[j] < m[k]
        /\ \A j \in P : \E k \in 1..n : m[k] = j
        /\ i \in P /\ i \in Nat /\ Q = {j - i : j \in P \ {i}}
    BY <1>1 DEF CountsUp, IsFirst, After
  <1>3. n > 0 /\ n - 1 \in Nat /\ 1 \in 1..n /\ m[1] = i
    <2>1. PICK k \in 1..n : m[k] = i
      BY <1>2
    <2>2. n > 0 /\ n - 1 \in Nat /\ 1 \in 1..n
      BY <1>2, <2>1
    <2>3. CASE k = 1
      BY <2>1, <2>2, <2>3
    <2>4. CASE k # 1
      <3>1. 1 < k
        BY <2>4
      <3>. QED  BY <1>2, <2>1, <2>2, <3>1
    <2>. QED  BY <2>2, <2>3, <2>4
  <1>4. PICK f : f = [k \in 1..(n - 1) |-> m[k + 1] - i]
    OBVIOUS
  <1>5. \A k \in 1..(n - 1) : k + 1 \in 1..n /\ f[k] = m[k + 1] - i
    BY <1>2, <1>4
  <1>6. ASSUME NEW k \in 1..(n - 1) PROVE f[k] \in Q
    <2>1. k + 1 \in 1..n /\ 1 < k + 1
      BY <1>5
    <2>2. m[k + 1] \in P /\ m[1] < m[k + 1] /\ m[k + 1] \in Nat
      BY <1>2, <1>3, <2>1
    <2>3. m[k + 1] # i
      BY <1>3, <2>2
    <2>. QED  BY <1>2, <1>5, <2>2, <2>3
  <1>7. ASSUME NEW j \in 1..(n - 1), NEW k \in 1..(n - 1), j < k PROVE f[j] < f[k]
    <2>1. j + 1 \in 1..n /\ k + 1 \in 1..n /\ j + 1 < k + 1
      BY <1>2, <1>7
    <2>2. m[j + 1] < m[k + 1] /\ m[j + 1] \in Nat /\ m[k + 1] \in Nat
      BY <1>2, <2>1
    <2>3. m[j + 1] - i < m[k + 1] - i
      BY <1>2, <2>2
    <2>. QED  BY <1>5, <2>3
  <1>8. ASSUME NEW x \in Q PROVE \E k \in 1..(n - 1) : f[k] = x
    <2>1. PICK j \in P : j # i /\ x = j - i
      BY <1>2
    <2>2. PICK k \in 1..n : m[k] = j
      BY <1>2
    <2>3. k # 1
      BY <1>3, <2>1, <2>2
    <2>4. k - 1 \in 1..(n - 1) /\ (k - 1) + 1 = k
      BY <1>2, <2>3
    <2>5. f[k - 1] = x
      BY <1>5, <2>1, <2>2, <2>4
    <2>. QED  BY <2>4, <2>5
  <1>9. CountsUp(f, n - 1, Q)
    <2>1. f \in [1..(n - 1) -> Q]
      BY <1>4, <1>6
    <2>. QED  BY <1>3, <1>7, <1>8, <2>1 DEF CountsUp
  <1>10. Q \subseteq Nat
    <2>1. ASSUME NEW j \in P PROVE j - i \in Nat
      <3>1. j \in Nat /\ i \in Nat /\ i <= j
        BY <1>2 DEF IsFirst
      <3>. QED  BY <3>1
    <2>. QED  BY <1>2, <2>1
  <1>11. InOrder(Q) = f
    BY <1>9, <1>10, OrderOnly
  <1>. QED  BY <1>1, <1>3, <1>5, <1>9, <1>11 DEF LaterCounted

LessCounted(x, P, n) ==
    /\ n > 0 /\ n - 1 \in Nat
    /\ CountsUp(InOrder(P \ {x}), n - 1, P \ {x})
    /\ \E d \in 1..n :
          /\ InOrder(P)[d] = x
          /\ \A k \in 1..(n - 1) :
                InOrder(P \ {x})[k] = IF k < d THEN InOrder(P)[k] ELSE InOrder(P)[k + 1]

LEMMA OrderLess ==
    ASSUME NEW P, P \subseteq Nat, NEW x \in P, NEW n \in Nat, CountsUp(InOrder(P), n, P)
    PROVE  LessCounted(x, P, n)
  <1>1. PICK m, Q : m = InOrder(P) /\ Q = P \ {x}
    OBVIOUS
  <1>2. /\ n \in Nat /\ m \in [1..n -> P] /\ \A k \in 1..n : m[k] \in Nat
        /\ \A j, k \in 1..n : j < k => m[j] < m[k]
        /\ \A j \in P : \E k \in 1..n : m[k] = j
    BY <1>1 DEF CountsUp
  <1>3. PICK d \in 1..n : m[d] = x
    BY <1>2
  <1>4. n > 0 /\ n - 1 \in Nat /\ d \in Nat
    BY <1>2
  <1> DEFINE At(k) == IF k < d THEN k ELSE k + 1
  <1>5. \A k \in 1..(n - 1) : At(k) \in 1..n /\ At(k) # d
    BY <1>2, <1>4
  <1>6. \A j, k \in 1..(n - 1) : j < k => At(j) < At(k)
    BY <1>2, <1>4
  <1>7. \A l \in 1..n : l # d => \E k \in 1..(n - 1) : At(k) = l
    <2>1. ASSUME NEW l \in 1..n, l # d PROVE \E k \in 1..(n - 1) : At(k) = l
      <3>1. CASE l < d
        <4>1. l \in 1..(n - 1) /\ At(l) = l
          BY <1>2, <1>4, <3>1
        <4>. QED  BY <4>1
      <3>2. CASE d < l
        <4>1. l - 1 \in 1..(n - 1) /\ At(l - 1) = l
          BY <1>2, <1>4, <3>2
        <4>. QED  BY <4>1
      <3>. QED  BY <1>4, <2>1, <3>1, <3>2
    <2>. QED  BY <2>1
  <1>8. \A k \in 1..(n - 1) : m[At(k)] = IF k < d THEN m[k] ELSE m[k + 1]
    OBVIOUS
  <1> HIDE DEF At
  <1>9. \A l \in 1..n : l # d => m[l] # x
    <2>1. ASSUME NEW l \in 1..n, l # d PROVE m[l] # m[d]
      <3>1. l < d \/ d < l
        BY <2>1
      <3>. QED  BY <1>2, <3>1
    <2>. QED  BY <1>3, <2>1
  <1>10. PICK f : f = [k \in 1..(n - 1) |-> m[At(k)]]
    OBVIOUS
  <1>11. CountsUp(f, n - 1, Q)
    <2>1. f \in [1..(n - 1) -> Q] /\ \A k \in 1..(n - 1) : f[k] = m[At(k)]
      BY <1>1, <1>2, <1>5, <1>9, <1>10
    <2>2. \A j, k \in 1..(n - 1) : j < k => f[j] < f[k]
      BY <1>2, <1>5, <1>6, <2>1
    <2>3. ASSUME NEW y \in Q PROVE \E k \in 1..(n - 1) : f[k] = y
      <3>1. PICK l \in 1..n : m[l] = y
        BY <1>1, <1>2
      <3>2. l # d
        BY <1>1, <1>3, <3>1
      <3>. QED  BY <1>7, <2>1, <3>1, <3>2
    <2>. QED  BY <1>4, <2>1, <2>2, <2>3 DEF CountsUp
  <1>12. Q \subseteq Nat
    BY <1>1
  <1>13. InOrder(Q) = f
    BY <1>11, <1>12, OrderOnly
  <1>14. \A k \in 1..(n - 1) : f[k] = IF k < d THEN m[k] ELSE m[k + 1]
    BY <1>8, <1>10
  <1>. QED  BY <1>1, <1>3, <1>4, <1>11, <1>13, <1>14 DEF LessCounted

-----------------------------------------------------------------------------
(* Sequences.                                                              *)

LEMMA FunctionIsSeq ==
    ASSUME NEW S, NEW n \in Nat, NEW f \in [1..n -> S]
    PROVE  f \in Seq(S) /\ Len(f) = n /\ (f = <<>> <=> n = 0)
  <1>1. f \in Seq(S)
    BY DEF Seq
  <1>2. Len(f) = n
    BY <1>1, LenProperties
  <1>. QED  BY <1>1, <1>2, EmptySeq, LenProperties

LEMMA SeqsEqual ==
    ASSUME NEW S, NEW s \in Seq(S), NEW t \in Seq(S), NEW n, Len(s) = n, Len(t) = n,
           \A k \in 1..n : s[k] = t[k]
    PROVE  s = t
  BY SeqEqual

(* s without its element i.                                                *)
LEMMA RemoveParts ==
    ASSUME NEW S, NEW s \in Seq(S), NEW i \in 1..Len(s)
    PROVE  /\ Abstract!RemoveAt(s, i) \in Seq(S)
           /\ Len(Abstract!RemoveAt(s, i)) = Len(s) - 1
           /\ \A k \in 1..(Len(s) - 1) :
                 Abstract!RemoveAt(s, i)[k] = IF k < i THEN s[k] ELSE s[k + 1]
  <1>1. PICK a, b, n : a = SubSeq(s, 1, i - 1) /\ b = SubSeq(s, i + 1, Len(s)) /\ n = Len(s)
    OBVIOUS
  <1>2. /\ n \in Nat /\ i \in Nat /\ 1 <= i /\ i <= n /\ Len(s) = n
        /\ \A k \in 1..n : s[k] \in S
    BY <1>1, LenProperties, ElementOfSeq
  <1>3. /\ a \in Seq(S) /\ Len(a) = i - 1 /\ \A k \in 1..(i - 1) : a[k] = s[k]
    <2>1. \A k \in 1..(i - 1) : s[k] \in S
      BY <1>2
    <2>2. /\ a \in Seq(S)
          /\ Len(a) = IF 1 <= i - 1 THEN (i - 1) - 1 + 1 ELSE 0
          /\ \A k \in 1..((i - 1) - 1 + 1) : a[k] = s[1 + k - 1]
      BY <1>1, <1>2, <2>1, SubSeqProperties
    <2>. QED  BY <1>2, <2>2
  <1>4. /\ b \in Seq(S) /\ Len(b) = n - i /\ \A k \in 1..(n - i) : b[k] = s[i + k]
    <2>1. \A k \in (i + 1)..n : s[k] \in S
      BY <1>2
    <2>2. /\ b \in Seq(S)
          /\ Len(b) = IF i + 1 <= n THEN n - (i + 1) + 1 ELSE 0
          /\ \A k \in 1..(n - (i + 1) + 1) : b[k] = s[(i + 1) + k - 1]
      BY <1>1, <1>2, <2>1, SubSeqProperties
    <2>. QED  BY <1>2, <2>2
  <1>5. /\ a \o b \in Seq(S) /\ Len(a \o b) = Len(a) + Len(b)
        /\ \A k \in 1..(Len(a) + Len(b)) :
              (a \o b)[k] = IF k <= Len(a) THEN a[k] ELSE b[k - Len(a)]
    BY <1>3, <1>4, ConcatProperties
  <1>6. Len(a) + Len(b) = n - 1
    BY <1>2, <1>3, <1>4
  <1>7. ASSUME NEW k \in 1..(n - 1) PROVE (a \o b)[k] = IF k < i THEN s[k] ELSE s[k + 1]
    <2>1. (a \o b)[k] = IF k <= i - 1 THEN a[k] ELSE b[k - (i - 1)]
      BY <1>3, <1>5, <1>6
    <2>2. CASE k < i
      BY <1>2, <1>3, <2>1, <2>2
    <2>3. CASE ~ (k < i)
      <3>1. k - (i - 1) \in 1..(n - i) /\ i + (k - (i - 1)) = k + 1
        BY <1>2, <2>3
      <3>. QED  BY <1>2, <1>4, <2>1, <2>3, <3>1
    <2>. QED  BY <2>2, <2>3
  <1>8. Abstract!RemoveAt(s, i) = a \o b
    BY <1>1 DEF Abstract!RemoveAt
  <1>. QED  BY <1>2, <1>5, <1>6, <1>7, <1>8

(* Where one ends in the other: what becomes of c \o s.                    *)
LEMMA JoinPut ==
    ASSUME NEW S, NEW c \in Seq(S), NEW s \in Seq(S), NEW e \in S
    PROVE  c \o Append(s, e) = Append(c \o s, e)
  <1>1. /\ <<e>> \in Seq(S) /\ c \o s \in Seq(S)
    BY ConcatProperties
  <1>2. Append(s, e) = s \o <<e>> /\ Append(c \o s, e) = (c \o s) \o <<e>>
    BY <1>1, AppendIsConcat
  <1>. QED  BY <1>1, <1>2, ConcatAssociative

LEMMA JoinTake ==
    ASSUME NEW S, NEW c \in Seq(S), NEW s \in Seq(S), c # <<>>
    PROVE  c \o s # <<>> /\ Head(c \o s) = Head(c) /\ Tail(c \o s) = Tail(c) \o s
  <1>1. PICK d, x, y, z : d = c \o s /\ x = Tail(c) /\ y = x \o s /\ z = Tail(d)
    OBVIOUS
  <1>2. Len(c) \in Nat /\ Len(c) > 0 /\ Len(s) \in Nat
    BY LenProperties, EmptySeq
  <1>3. /\ d \in Seq(S) /\ Len(d) = Len(c) + Len(s)
        /\ \A k \in 1..(Len(c) + Len(s)) : d[k] = IF k <= Len(c) THEN c[k] ELSE s[k - Len(c)]
    BY <1>1, ConcatProperties
  <1>4. /\ x \in Seq(S) /\ Len(x) = Len(c) - 1 /\ \A k \in 1..(Len(c) - 1) : x[k] = c[k + 1]
    BY <1>1, HeadTailProperties
  <1>5. d # <<>> /\ Len(d) - 1 = Len(c) + Len(s) - 1
    BY <1>2, <1>3, EmptySeq
  <1>6. /\ z \in Seq(S) /\ Len(z) = Len(c) + Len(s) - 1
        /\ \A k \in 1..(Len(c) + Len(s) - 1) : z[k] = d[k + 1]
    BY <1>1, <1>3, <1>5, HeadTailProperties
  <1>7. /\ y \in Seq(S) /\ Len(y) = Len(c) + Len(s) - 1
        /\ \A k \in 1..(Len(c) + Len(s) - 1) : y[k] = IF k <= Len(c) - 1 THEN x[k] ELSE s[k - (Len(c) - 1)]
    <2>1. /\ y \in Seq(S) /\ Len(y) = Len(x) + Len(s)
          /\ \A k \in 1..(Len(x) + Len(s)) : y[k] = IF k <= Len(x) THEN x[k] ELSE s[k - Len(x)]
      BY <1>1, <1>4, ConcatProperties
    <2>. QED  BY <1>2, <1>4, <2>1
  <1>8. ASSUME NEW k \in 1..(Len(c) + Len(s) - 1) PROVE z[k] = y[k]
    <2>1. k + 1 \in 1..(Len(c) + Len(s)) /\ (k + 1) - Len(c) = k - (Len(c) - 1)
      BY <1>2, <1>8
    <2>2. CASE k <= Len(c) - 1
      BY <1>2, <1>3, <1>4, <1>6, <1>7, <1>8, <2>1, <2>2
    <2>3. CASE ~ (k <= Len(c) - 1)
      <3>1. z[k] = s[(k + 1) - Len(c)]
        <4>1. ~ (k + 1 <= Len(c))
          BY <1>2, <2>3
        <4>. QED  BY <1>3, <1>6, <1>8, <2>1, <4>1
      <3>2. y[k] = s[k - (Len(c) - 1)]
        BY <1>7, <1>8, <2>3
      <3>. QED  BY <2>1, <3>1, <3>2
    <2>. QED  BY <2>2, <2>3
  <1>9. z = y
    BY <1>6, <1>7, <1>8, SeqsEqual
  <1>10. Head(d) = d[1] /\ Head(c) = c[1] /\ d[1] = c[1]
    <2>1. 1 \in 1..(Len(c) + Len(s)) /\ 1 <= Len(c)
      BY <1>2
    <2>. QED  BY <1>3, <1>5, <2>1
  <1>. QED  BY <1>1, <1>5, <1>9, <1>10

LEMMA JoinTurn ==
    ASSUME NEW S, NEW c \in Seq(S), NEW s \in Seq(S), c # <<>>, s # <<>>
    PROVE  Append(Tail(c), Head(s)) \o Tail(s) = Tail(c \o s)
  <1>1. PICK x, e, y : x = Tail(c) /\ e = Head(s) /\ y = Tail(s)
    OBVIOUS
  <1>2. x \in Seq(S) /\ e \in S /\ y \in Seq(S) /\ <<e>> \in Seq(S)
    BY <1>1, HeadTailProperties
  <1>3. Append(x, e) = x \o <<e>>
    BY <1>2, AppendIsConcat
  <1>4. <<e>> \o y = s
    <2>1. /\ <<e>> \o y \in Seq(S) /\ Len(<<e>> \o y) = 1 + Len(y)
          /\ \A k \in 1..(1 + Len(y)) : (<<e>> \o y)[k] = IF k <= 1 THEN e ELSE y[k - 1]
      BY <1>2, ConcatProperties
    <2>2. Len(s) \in Nat /\ Len(s) > 0 /\ Len(y) = Len(s) - 1 /\ s[1] = e
      BY <1>1, LenProperties, EmptySeq, HeadTailProperties
    <2>3. \A k \in 1..(Len(s) - 1) : y[k] = s[k + 1]
      BY <1>1, <2>2, HeadTailProperties
    <2>4. ASSUME NEW k \in 1..Len(s) PROVE (<<e>> \o y)[k] = s[k]
      <3>1. CASE k = 1
        BY <2>1, <2>2, <3>1
      <3>2. CASE k # 1
        <4>1. k - 1 \in 1..(Len(s) - 1) /\ (k - 1) + 1 = k /\ ~ (k <= 1)
          BY <2>2, <3>2
        <4>. QED  BY <2>1, <2>2, <2>3, <4>1
      <3>. QED  BY <3>1, <3>2
    <2>5. Len(<<e>> \o y) = Len(s)
      BY <2>1, <2>2
    <2>. QED  BY <2>1, <2>4, <2>5, SeqsEqual
  <1>5. (x \o <<e>>) \o y = x \o (<<e>> \o y)
    BY <1>2, ConcatAssociative
  <1>6. Tail(c \o s) = x \o s
    BY <1>1, JoinTake
  <1>. QED  BY <1>1, <1>3, <1>4, <1>5, <1>6

LEMMA JoinRemove ==
    ASSUME NEW S, NEW c \in Seq(S), NEW s \in Seq(S), NEW d \in 1..Len(s)
    PROVE  /\ Len(c) + d \in 1..Len(c \o s) /\ (c \o s)[Len(c) + d] = s[d]
           /\ c \o Abstract!RemoveAt(s, d) = Abstract!RemoveAt(c \o s, Len(c) + d)
  <1>1. PICK j, l, n, r, i, u, v :
          /\ j = c \o s /\ l = Len(c) /\ n = Len(s) /\ r = Abstract!RemoveAt(s, d)
          /\ i = l + d /\ u = c \o r /\ v = Abstract!RemoveAt(j, i)
    OBVIOUS
  <1>2. /\ l \in Nat /\ n \in Nat /\ d \in Nat /\ 1 <= d /\ d <= n
        /\ Len(c) = l /\ Len(s) = n
    BY <1>1, LenProperties
  <1>3. /\ j \in Seq(S) /\ Len(j) = l + n
        /\ \A k \in 1..(l + n) : j[k] = IF k <= l THEN c[k] ELSE s[k - l]
    BY <1>1, ConcatProperties
  <1>4. /\ r \in Seq(S) /\ Len(r) = n - 1
        /\ \A k \in 1..(n - 1) : r[k] = IF k < d THEN s[k] ELSE s[k + 1]
    BY <1>1, RemoveParts
  <1>5. i \in 1..(l + n) /\ j[i] = s[d]
    <2>1. i \in 1..(l + n) /\ ~ (i <= l) /\ i - l = d
      BY <1>1, <1>2
    <2>. QED  BY <1>3, <2>1
  <1>6. /\ v \in Seq(S) /\ Len(v) = l + n - 1
        /\ \A k \in 1..(l + n - 1) : v[k] = IF k < i THEN j[k] ELSE j[k + 1]
    <2>1. i \in 1..Len(j)
      BY <1>3, <1>5
    <2>2. /\ v \in Seq(S) /\ Len(v) = Len(j) - 1
          /\ \A k \in 1..(Len(j) - 1) : v[k] = IF k < i THEN j[k] ELSE j[k + 1]
      BY <1>1, <1>3, <2>1, RemoveParts
    <2>. QED  BY <1>2, <1>3, <2>2
  <1>7. /\ u \in Seq(S) /\ Len(u) = l + n - 1
        /\ \A k \in 1..(l + n - 1) : u[k] = IF k <= l THEN c[k] ELSE r[k - l]
    <2>1. /\ u \in Seq(S) /\ Len(u) = l + (n - 1)
          /\ \A k \in 1..(l + (n - 1)) : u[k] = IF k <= l THEN c[k] ELSE r[k - l]
      <3>1. /\ c \o r \in Seq(S) /\ Len(c \o r) = Len(c) + Len(r)
            /\ \A k \in 1..(Len(c) + Len(r)) :
                  (c \o r)[k] = IF k <= Len(c) THEN c[k] ELSE r[k - Len(c)]
        BY <1>4, ConcatProperties
      <3>2. c \o r = u /\ Len(c) = l /\ Len(r) = n - 1
        BY <1>1, <1>2, <1>4
      <3>. QED  BY <3>1, <3>2
    <2>2. l + (n - 1) = l + n - 1
      BY <1>2
    <2>. QED  BY <2>1, <2>2
  <1>8. ASSUME NEW k \in 1..(l + n - 1) PROVE u[k] = v[k]
    <2>0. k \in 1..(l + n) /\ k + 1 \in 1..(l + n) /\ k \in Nat
      BY <1>2
    <2>1. CASE k <= l
      <3>1. k < i
        BY <1>1, <1>2, <2>0, <2>1
      <3>. QED  BY <1>3, <1>6, <1>7, <2>0, <2>1, <3>1
    <2>2. CASE ~ (k <= l) /\ k < i
      <3>1. k - l \in 1..(n - 1) /\ k - l < d
        BY <1>1, <1>2, <2>0, <2>2
      <3>. QED  BY <1>3, <1>4, <1>6, <1>7, <2>0, <2>2, <3>1
    <2>3. CASE ~ (k <= l) /\ ~ (k < i)
      <3>1. k - l \in 1..(n - 1) /\ ~ (k - l < d) /\ (k + 1) - l = (k - l) + 1 /\ ~ (k + 1 <= l)
        BY <1>1, <1>2, <2>0, <2>3
      <3>. QED  BY <1>3, <1>4, <1>6, <1>7, <2>0, <2>3, <3>1
    <2>. QED  BY <2>1, <2>2, <2>3
  <1>9. u = v
    BY <1>6, <1>7, <1>8, SeqsEqual
  <1>. QED  BY <1>1, <1>2, <1>3, <1>5, <1>9

-----------------------------------------------------------------------------
(* The writers that wait, where they stand, and what stands behind.        *)
Writers == {w \in Unserved : Kind(w) = "write"}
Places == {i \in DOMAIN wq : heap[wq[i]].state = "wait" /\ op[heap[wq[i]].who] = "write"}

LEMMA BehindIs ==
    /\ Behind = [k \in DOMAIN InOrder(Places) |-> heap[wq[InOrder(Places)[k]]].buf]
    /\ Behind' = [k \in DOMAIN InOrder(Places') |-> heap'[wq'[InOrder(Places')[k]]].buf]
  BY DEF Behind, Places

LEMMA PlacesAre ==
    ASSUME CallsInv
    PROVE  /\ wq \in Seq(Waitx) /\ Len(wq) \in Nat /\ DOMAIN wq = 1..Len(wq) /\ IsInjective(wq)
           /\ Places = {i \in 1..Len(wq) : wq[i] \in Writers}
           /\ Places \subseteq 1..Len(wq) /\ Places \subseteq Nat
           /\ \A w \in Writers : w \in Waitx /\ \E i \in Places : wq[i] = w
  <1>1. wq \in Seq(Waitx) /\ Len(wq) \in Nat /\ DOMAIN wq = 1..Len(wq) /\ IsInjective(wq)
    BY LenProperties DEF CallsInv, CallsTypeOK, QueuedOnce
  <1>2. Places = {i \in 1..Len(wq) : wq[i] \in Writers}
    BY <1>1 DEF Places, Writers, Unserved, Kind, Range
  <1>3. \A w \in Writers : w \in Waitx /\ \E i \in 1..Len(wq) : wq[i] = w
    BY <1>1, QueueParts DEF Writers, Range
  <1>. QED  BY <1>1, <1>2, <1>3

LEMMA PlacesThen ==
    ASSUME CallsInv'
    PROVE  Places' = {i \in 1..Len(wq') : wq'[i] \in Writers'}
  <1>1. DOMAIN wq' = 1..Len(wq')
    BY LenProperties DEF CallsInv, CallsTypeOK
  <1>. QED  BY <1>1 DEF Places, Writers, Unserved, Kind, Range

LEMMA BehindParts ==
    ASSUME CallsInv, NEW B, ElemsInv(B)
    PROVE  /\ Behind \in Seq(Elem)
           /\ CountsUp(InOrder(Places), Len(Behind), Places)
           /\ \A k \in 1..Len(Behind) : /\ InOrder(Places)[k] \in Places
                                        /\ Behind[k] = heap[wq[InOrder(Places)[k]]].buf
  <1>1. PICK n \in Nat : CountsUp(InOrder(Places), n, Places)
    BY PlacesAre, OrderIs
  <1>2. InOrder(Places) \in [1..n -> Places]
    BY <1>1 DEF CountsUp
  <1>3. Behind = [k \in 1..n |-> heap[wq[InOrder(Places)[k]]].buf]
    BY <1>2, BehindIs
  <1>4. ASSUME NEW i \in Places PROVE heap[wq[i]].buf \in Elem
    <2>1. wq[i] \in Writers
      BY PlacesAre
    <2>2. Held(wq[i]) /\ wq[i] \in Waitx
      BY <2>1, QueueParts DEF ElemsInv, KindsRight, Writers
    <2>. QED  BY <2>2 DEF ElemsInv, EachOnce
  <1>5. Behind \in [1..n -> Elem]
    BY <1>2, <1>3, <1>4
  <1>6. Behind \in Seq(Elem) /\ Len(Behind) = n
    BY <1>5, FunctionIsSeq
  <1>. QED  BY <1>1, <1>2, <1>3, <1>6

(* No writer waits.                                                        *)
LEMMA NoneBehind ==
    /\ CallsInv /\ Writers = {} => Behind = <<>>
    /\ CallsInv' /\ Writers' = {} => Behind' = <<>>
  <1>1. ASSUME CallsInv, Writers = {} PROVE Behind = <<>>
    <2>1. Places = {}
      BY <1>1, PlacesAre
    <2>. QED  BY <2>1, BehindIs, OrderNone
  <1>2. ASSUME CallsInv', Writers' = {} PROVE Behind' = <<>>
    <2>1. Places' = {}
      BY <1>2, PlacesThen
    <2>. QED  BY <2>1, BehindIs, OrderNone
  <1>. QED  BY <1>1, <1>2

(* The writers wait on.                                                    *)
LEMMA BehindKept ==
    ASSUME CallsInv, CallsInv', wq' = wq, Writers' = Writers,
           \A w \in Writers : heap'[w].buf = heap[w].buf
    PROVE  Behind' = Behind
  <1>1. Places' = Places
    BY PlacesAre, PlacesThen
  <1>2. PICK n \in Nat : CountsUp(InOrder(Places), n, Places)
    BY PlacesAre, OrderIs
  <1>3. InOrder(Places) \in [1..n -> Places]
    BY <1>2 DEF CountsUp
  <1>4. \A i \in Places : heap'[wq[i]].buf = heap[wq[i]].buf
    BY PlacesAre
  <1>5. PICK m : m = InOrder(Places)
    OBVIOUS
  <1>6. /\ Behind = [k \in 1..n |-> heap[wq[m[k]]].buf]
        /\ Behind' = [k \in 1..n |-> heap'[wq[m[k]]].buf]
    BY <1>1, <1>3, <1>5, BehindIs
  <1>7. \A k \in 1..n : m[k] \in Places
    BY <1>3, <1>5
  <1>. QED  BY <1>4, <1>6, <1>7

(* One more writer waits, with e.                                          *)
LEMMA BehindMore ==
    ASSUME CallsInv, CallsInv', NEW B, ElemsInv(B), NEW x \in Waitx, NEW e \in Elem,
           wq' = Append(wq, x), Writers' = Writers \cup {x}, heap'[x].buf = e,
           \A w \in Writers : heap'[w].buf = heap[w].buf
    PROVE  Behind' = Append(Behind, e)
  <1>1. PICK m, n, l, P : m = InOrder(Places) /\ n = Len(Behind) /\ l = Len(wq) /\ P = Places
    OBVIOUS
  <1>2. /\ l \in Nat /\ DOMAIN wq = 1..l /\ P = {i \in 1..l : wq[i] \in Writers}
        /\ P \subseteq 1..l /\ Behind \in Seq(Elem) /\ n \in Nat
        /\ CountsUp(m, n, P) /\ \A k \in 1..n : m[k] \in P /\ Behind[k] = heap[wq[m[k]]].buf
    BY <1>1, PlacesAre, BehindParts, LenProperties
  <1>3. /\ Len(wq') = l + 1 /\ wq'[l + 1] = x /\ \A i \in 1..l : wq'[i] = wq[i]
    BY <1>1, PlacesAre, AppendProperties
  <1>4. x \notin Writers \/ \E i \in P : wq[i] = x
    BY <1>1, PlacesAre
  <1>5. \A i \in 1..l : wq[i] # x
    <2>1. IsInjective(wq') /\ DOMAIN wq' = 1..(l + 1)
      BY <1>3, LenProperties DEF CallsInv, CallsTypeOK, QueuedOnce
    <2>2. ASSUME NEW i \in 1..l, wq[i] = x PROVE FALSE
      <3>1. i \in DOMAIN wq' /\ l + 1 \in DOMAIN wq' /\ wq'[i] = wq'[l + 1] /\ i # l + 1
        BY <1>2, <1>3, <2>1, <2>2
      <3>. QED  BY <2>1, <3>1 DEF IsInjective
    <2>. QED  BY <2>2
  <1>6. Places' = P \cup {l + 1}
    <2>1. Places' = {i \in 1..(l + 1) : wq'[i] \in Writers \cup {x}}
      BY <1>3, PlacesThen
    <2>2. \A i \in 1..(l + 1) : i \in Places' <=> i \in P \/ i = l + 1
      BY <1>2, <1>3, <1>5, <2>1
    <2>. QED  BY <1>2, <2>1, <2>2
  <1>7. PICK f : f = InOrder(P \cup {l + 1})
    OBVIOUS
  <1>8. /\ CountsUp(f, n + 1, P \cup {l + 1}) /\ f[n + 1] = l + 1
        /\ \A k \in 1..n : f[k] = m[k]
    <2>1. CountsUp(InOrder(P), n, P) /\ m = InOrder(P) /\ P \subseteq 1..l /\ l \in Nat /\ n \in Nat
      BY <1>1, <1>2
    <2>2. MoreCounted(l, P, n)
      BY <2>1, OrderMore
    <2>. QED  BY <1>7, <2>1, <2>2 DEF MoreCounted
  <1>9. DOMAIN f = 1..(n + 1)
    BY <1>8 DEF CountsUp
  <1>10. Behind' = [k \in 1..(n + 1) |-> heap'[wq'[f[k]]].buf]
    BY <1>6, <1>7, <1>9, BehindIs
  <1>11. ASSUME NEW k \in 1..n PROVE Behind'[k] = Behind[k]
    <2>1. k \in 1..(n + 1) /\ m[k] \in P /\ m[k] \in 1..l
      BY <1>2
    <2>2. Behind'[k] = heap'[wq'[m[k]]].buf
      BY <1>8, <1>10, <2>1
    <2>. QED  BY <1>2, <1>3, <2>1, <2>2
  <1>12. Behind'[n + 1] = e
    <2>1. n + 1 \in 1..(n + 1)
      BY <1>2
    <2>. QED  BY <1>3, <1>8, <1>10, <2>1
  <1>13. /\ Append(Behind, e) \in Seq(Elem) /\ Len(Append(Behind, e)) = n + 1
         /\ Append(Behind, e)[n + 1] = e
         /\ \A k \in 1..n : Append(Behind, e)[k] = Behind[k]
    BY <1>1, <1>2, AppendProperties
  <1>14. \A k \in 1..(n + 1) : Behind'[k] = Append(Behind, e)[k]
    BY <1>2, <1>11, <1>12, <1>13
  <1>15. DOMAIN Append(Behind, e) = 1..(n + 1) /\ Append(Behind, e) \in [1..(n + 1) -> Elem]
    BY <1>13, LenProperties
  <1>. QED  BY <1>10, <1>14, <1>15

(* The first writer is served.                                             *)
LEMMA BehindServed ==
    ASSUME CallsInv, CallsInv', NEW B, ElemsInv(B), NEW i \in 1..Len(wq), wq[i] \in Writers,
           \A j \in 1..(i - 1) : wq[j] \notin Writers,
           wq' = SubSeq(wq, i + 1, Len(wq)), Writers' = Writers \ {wq[i]},
           \A w \in Writers' : heap'[w].buf = heap[w].buf
    PROVE  Behind # <<>> /\ Head(Behind) = heap[wq[i]].buf /\ Behind' = Tail(Behind)
  <1>1. PICK m, n, l, P : m = InOrder(Places) /\ n = Len(Behind) /\ l = Len(wq) /\ P = Places
    OBVIOUS
  <1>2. /\ l \in Nat /\ DOMAIN wq = 1..l /\ P = {j \in 1..l : wq[j] \in Writers} /\ IsInjective(wq)
        /\ P \subseteq 1..l /\ P \subseteq Nat /\ Behind \in Seq(Elem) /\ n \in Nat
        /\ CountsUp(m, n, P) /\ \A k \in 1..n : m[k] \in P /\ Behind[k] = heap[wq[m[k]]].buf
    BY <1>1, PlacesAre, BehindParts, LenProperties
  <1>3. i \in Nat /\ 1 <= i /\ i <= l /\ i \in P /\ \A j \in P : i <= j
    BY <1>1, <1>2
  <1>4. Len(wq') = l - i /\ \A j \in 1..(l - i) : wq'[j] = wq[i + j]
    <2>1. \A j \in (i + 1)..l : wq[j] \in Waitx
      BY <1>1, <1>3, PlacesAre, ElementOfSeq
    <2>2. /\ Len(wq') = IF i + 1 <= l THEN l - (i + 1) + 1 ELSE 0
          /\ \A j \in 1..(l - (i + 1) + 1) : wq'[j] = wq[(i + 1) + j - 1]
      BY <1>1, <1>2, <1>3, <2>1, PlacesAre, SubSeqProperties
    <2>. QED  BY <1>2, <1>3, <2>2
  <1>5. PICK Q : Q = After(i, P)
    OBVIOUS
  <1>6. Places' = Q
    <2>0. Q = {j - i : j \in P \ {i}}
      BY <1>5 DEF After
    <2>1. Places' = {j \in 1..(l - i) : wq'[j] \in Writers \ {wq[i]}}
      BY <1>4, PlacesThen
    <2>2. ASSUME NEW j \in Places' PROVE j \in Q
      <3>1. j \in 1..(l - i) /\ i + j \in 1..l /\ i + j # i /\ (i + j) - i = j
        BY <1>2, <1>3, <2>1
      <3>2. wq[i + j] \in Writers
        BY <1>4, <2>1, <3>1
      <3>3. i + j \in P \ {i}
        BY <1>2, <3>1, <3>2
      <3>. QED  BY <2>0, <3>1, <3>3
    <2>3. ASSUME NEW j \in Q PROVE j \in Places'
      <3>1. PICK y \in P : y # i /\ j = y - i
        BY <2>0
      <3>2. y \in 1..l /\ i < y /\ wq[y] \in Writers
        BY <1>2, <1>3, <3>1
      <3>3. j \in 1..(l - i) /\ i + j = y
        BY <1>2, <1>3, <3>1, <3>2
      <3>4. wq[y] # wq[i]
        BY <1>2, <1>3, <3>1, <3>2 DEF IsInjective
      <3>. QED  BY <1>4, <2>1, <3>2, <3>3, <3>4
    <2>. QED  BY <2>2, <2>3
  <1>7. PICK f : f = InOrder(Q)
    OBVIOUS
  <1>8. /\ n > 0 /\ n - 1 \in Nat /\ m[1] = i
        /\ CountsUp(f, n - 1, Q) /\ \A k \in 1..(n - 1) : f[k] = m[k + 1] - i
    <2>1. /\ CountsUp(InOrder(P), n, P) /\ m = InOrder(P) /\ P \subseteq Nat
          /\ IsFirst(i, P) /\ n \in Nat
      BY <1>1, <1>2, <1>3 DEF IsFirst
    <2>2. LaterCounted(i, P, n)
      BY <2>1, OrderLater
    <2>. QED  BY <1>5, <1>7, <2>1, <2>2 DEF LaterCounted
  <1>9. Behind # <<>>
    BY <1>1, <1>2, <1>8, EmptySeq
  <1>10. Head(Behind) = heap[wq[i]].buf
    <2>1. 1 \in 1..n /\ Head(Behind) = Behind[1]
      BY <1>2, <1>8, <1>9
    <2>. QED  BY <1>2, <1>8, <2>1
  <1>11. DOMAIN f = 1..(n - 1)
    BY <1>8 DEF CountsUp
  <1>12. Behind' = [k \in 1..(n - 1) |-> heap'[wq'[f[k]]].buf]
    BY <1>6, <1>7, <1>11, BehindIs
  <1>13. /\ Tail(Behind) \in Seq(Elem) /\ Len(Tail(Behind)) = n - 1
         /\ \A k \in 1..(n - 1) : Tail(Behind)[k] = Behind[k + 1]
    BY <1>1, <1>2, <1>9, HeadTailProperties
  <1>14. ASSUME NEW k \in 1..(n - 1) PROVE Behind'[k] = Tail(Behind)[k]
    <2>0. k + 1 \in 1..n
      BY <1>2
    <2>1. k + 1 \in 1..n /\ m[k + 1] \in P /\ Behind[k + 1] = heap[wq[m[k + 1]]].buf
      BY <1>2, <2>0
    <2>2. f[k] \in Places' /\ f[k] = m[k + 1] - i
      BY <1>6, <1>8 DEF CountsUp
    <2>3. f[k] \in 1..(l - i) /\ wq'[f[k]] \in Writers'
      BY <1>4, <2>2, PlacesThen
    <2>4. i + f[k] = m[k + 1]
      BY <1>2, <1>3, <2>1, <2>2
    <2>5. wq'[f[k]] = wq[m[k + 1]]
      BY <1>4, <2>3, <2>4
    <2>. QED  BY <1>12, <1>13, <2>1, <2>3, <2>5
  <1>15. Tail(Behind) \in [1..(n - 1) -> Elem]
    BY <1>13, LenProperties
  <1>. QED  BY <1>9, <1>10, <1>12, <1>14, <1>15

(* One of the writers gives up.                                            *)
LEMMA BehindGone ==
    ASSUME CallsInv, CallsInv', NEW B, ElemsInv(B), NEW w \in Writers, wq' = wq,
           Writers' = Writers \ {w}, \A v \in Writers' : heap'[v].buf = heap[v].buf
    PROVE  \E d \in 1..Len(Behind) :
              Behind[d] = heap[w].buf /\ Behind' = Abstract!RemoveAt(Behind, d)
  <1>1. PICK m, n, P : m = InOrder(Places) /\ n = Len(Behind) /\ P = Places
    OBVIOUS
  <1>2. /\ Len(wq) \in Nat /\ DOMAIN wq = 1..Len(wq) /\ P = {j \in 1..Len(wq) : wq[j] \in Writers}
        /\ IsInjective(wq) /\ P \subseteq Nat /\ Behind \in Seq(Elem) /\ n \in Nat
        /\ CountsUp(m, n, P) /\ \A k \in 1..n : m[k] \in P /\ Behind[k] = heap[wq[m[k]]].buf
    BY <1>1, PlacesAre, BehindParts, LenProperties
  <1>3. PICK x \in P : wq[x] = w
    BY <1>1, PlacesAre
  <1>4. Places' = P \ {x}
    <2>1. Places' = {j \in 1..Len(wq) : wq[j] \in Writers \ {w}}
      BY PlacesThen
    <2>2. \A j \in 1..Len(wq) : wq[j] = w => j = x
      BY <1>2, <1>3 DEF IsInjective
    <2>. QED  BY <1>2, <1>3, <2>1, <2>2
  <1>5. PICK f : f = InOrder(P \ {x})
    OBVIOUS
  <1>6. /\ n > 0 /\ n - 1 \in Nat /\ CountsUp(f, n - 1, P \ {x})
        /\ \E d \in 1..n : /\ m[d] = x
                           /\ \A k \in 1..(n - 1) : f[k] = IF k < d THEN m[k] ELSE m[k + 1]
    <2>1. CountsUp(InOrder(P), n, P) /\ m = InOrder(P) /\ P \subseteq Nat /\ x \in P /\ n \in Nat
      BY <1>1, <1>2
    <2>2. LessCounted(x, P, n)
      BY <2>1, OrderLess
    <2>. QED  BY <1>5, <2>1, <2>2 DEF LessCounted
  <1>7. PICK d \in 1..n : /\ m[d] = x
                          /\ \A k \in 1..(n - 1) : f[k] = IF k < d THEN m[k] ELSE m[k + 1]
    BY <1>6
  <1>8. DOMAIN f = 1..(n - 1) /\ \A k \in 1..(n - 1) : f[k] \in P \ {x}
    BY <1>6 DEF CountsUp
  <1>9. Behind' = [k \in 1..(n - 1) |-> heap'[wq[f[k]]].buf]
    BY <1>4, <1>5, <1>8, BehindIs
  <1>10. PICK r : r = Abstract!RemoveAt(Behind, d)
    OBVIOUS
  <1>11. /\ r \in Seq(Elem) /\ Len(r) = n - 1
         /\ \A k \in 1..(n - 1) : r[k] = IF k < d THEN Behind[k] ELSE Behind[k + 1]
    BY <1>1, <1>2, <1>10, RemoveParts
  <1>12. ASSUME NEW k \in 1..(n - 1) PROVE Behind'[k] = r[k]
    <2>1. k \in 1..n /\ k + 1 \in 1..n
      BY <1>2
    <2>2. wq[f[k]] \in Writers'
      <3>1. f[k] \in Places'
        BY <1>4, <1>8
      <3>. QED  BY <3>1, PlacesThen
    <2>3. Behind'[k] = heap[wq[f[k]]].buf
      BY <1>9, <2>2
    <2>. QED  BY <1>2, <1>7, <1>11, <2>1, <2>3
  <1>13. r \in [1..(n - 1) -> Elem]
    BY <1>11, LenProperties
  <1>14. Behind' = r
    BY <1>9, <1>12, <1>13
  <1>15. Behind[d] = heap[w].buf
    BY <1>2, <1>3, <1>7
  <1>. QED  BY <1>1, <1>7, <1>10, <1>14, <1>15
-----------------------------------------------------------------------------
(* The elements on their way to readers are those of the waitxs of reads   *)
(* that were served.                                                       *)
HandedOver == {heap[mine[p]].buf : p \in {q \in Proc : op[q] = "read" /\ heap[mine[q]].done = 1}}
Carries(w) == InCall(w) /\ heap[w].done = 1 /\ Kind(w) = "read"

LEMMA HandedIs == CallsInv => HandedOver = {heap[w].buf : w \in {v \in Waitx : Carries(v)}}
  <1>. SUFFICES ASSUME CallsInv PROVE HandedOver = {heap[w].buf : w \in {v \in Waitx : Carries(v)}}
    OBVIOUS
  <1>1. ASSUME NEW p \in Proc, op[p] = "read", heap[mine[p]].done = 1
        PROVE  mine[p] \in Waitx /\ Carries(mine[p])
    <2>1. mine[p] # None /\ mine[p] \in Waitx
      BY <1>1 DEF CallsInv, CallsTypeOK, CallsInPlace
    <2>2. InCall(mine[p]) /\ heap[mine[p]].who = p
      BY <2>1 DEF CallsInv, Belongs
    <2>. QED  BY <1>1, <2>1, <2>2 DEF Carries, Kind
  <1>2. ASSUME NEW w \in Waitx, Carries(w)
        PROVE  \E p \in Proc : op[p] = "read" /\ heap[mine[p]].done = 1 /\ mine[p] = w
    <2>1. heap[w].who \in Proc /\ mine[heap[w].who] = w
      BY <1>2 DEF Carries, CallsInv, Belongs
    <2>. QED  BY <1>2, <2>1 DEF Carries, Kind
  <1>. QED  BY <1>1, <1>2 DEF HandedOver
LEMMA HandedThen == CallsInv' => HandedOver' = {heap'[w].buf : w \in {v \in Waitx : Carries(v)'}}
  <1>. SUFFICES ASSUME CallsInv' PROVE HandedOver' = {heap'[w].buf : w \in {v \in Waitx : Carries(v)'}}
    OBVIOUS
  <1>1. ASSUME NEW p \in Proc, op'[p] = "read", heap'[mine'[p]].done = 1
        PROVE  \E w \in Waitx : w = mine'[p] /\ Carries(w)'
    <2>0. PICK w : w = mine'[p]
      OBVIOUS
    <2>1. w # None /\ w \in Waitx
      BY <1>1, <2>0 DEF CallsInv, CallsTypeOK, CallsInPlace
    <2>2. InCall(w)' /\ heap'[w].who = p
      BY <2>0, <2>1 DEF CallsInv, Belongs, InCall
    <2>. QED  BY <1>1, <2>0, <2>1, <2>2 DEF Carries, Kind
  <1>2. ASSUME NEW w \in Waitx, Carries(w)'
        PROVE  \E p \in Proc : op'[p] = "read" /\ heap'[mine'[p]].done = 1 /\ mine'[p] = w
    <2>1. heap'[w].who \in Proc /\ mine'[heap'[w].who] = w
      BY <1>2 DEF Carries, CallsInv, Belongs
    <2>. QED  BY <1>2, <2>1 DEF Carries, Kind
  <1>. QED  BY <1>1, <1>2 DEF HandedOver

(* What becomes of the line behind the buffer and of what was handed over: *)
(* if nothing happens to those that wait,                                  *)
LEMMA WritersAre ==
    /\ CallsInv => Writers = {w \in Waitx : InCall(w) /\ heap[w].done = 0 /\ Kind(w) = "write"}
    /\ CallsInv' => Writers' = {w \in Waitx : InCall(w)' /\ heap'[w].done = 0 /\ Kind(w)' = "write"}
  BY UnservedIs, UnservedThen DEF Writers

LEMMA AllSame ==
    ASSUME CallsInv, CallsInv', \A w \in Waitx : Same(w), wq' = wq \/ Writers = {}
    PROVE  Behind' = Behind /\ HandedOver' = HandedOver
  <1>1. Writers' = Writers /\ \A w \in Writers : heap'[w].buf = heap[w].buf
    BY WritersAre DEF Same
  <1>2. Behind' = Behind
    BY <1>1, BehindKept, NoneBehind
  <1>3. \A w \in Waitx : (Carries(w)' <=> Carries(w)) /\ (Carries(w) => heap'[w].buf = heap[w].buf)
    BY DEF Same, Carries
  <1>4. HandedOver' = HandedOver
    BY <1>3, HandedIs, HandedThen
  <1>. QED  BY <1>2, <1>4

(* if the first is served, a reader or a writer,                           *)
LEMMA ReaderServed ==
    ASSUME CallsInv, CallsInv', NEW w, NEW e, Serve(w, e), Kind(w) = "read", Writers = {}
    PROVE  Behind = <<>> /\ Behind' = <<>> /\ HandedOver' = HandedOver \cup {e}
  <1>1. Writers' = {}
    BY WritersAre DEF Same, Serve
  <1>2. /\ w \in Waitx /\ Carries(w)' /\ ~ Carries(w) /\ heap'[w].buf = e
        /\ \A v \in Waitx : v # w => (Carries(v)' <=> Carries(v)) /\ (Carries(v) => heap'[v].buf = heap[v].buf)
    BY DEF Same, Carries, Serve
  <1>3. HandedOver' = HandedOver \cup {e}
    BY <1>2, HandedIs, HandedThen
  <1>. QED  BY <1>1, <1>3, NoneBehind

LEMMA WriterServed ==
    ASSUME CallsInv, CallsInv', NEW B, ElemsInv(B), NEW i \in FirstLive, NEW b,
           Claim(i, 1, b), NEW w, w = wq[i], Serve(w, b), Kind(w) = "write"
    PROVE  /\ Behind # <<>> /\ Head(Behind) = heap[w].buf /\ Behind' = Tail(Behind)
           /\ HandedOver' = HandedOver
  <1>2. /\ Writers' = Writers \ {w} /\ \A v \in Writers' : heap'[v].buf = heap[v].buf
        /\ w \in Writers
    BY WritersAre DEF Same, Serve
  <1>3. i \in 1..Len(wq) /\ \A j \in 1..(i - 1) : wq[j] \notin Writers
    BY PlacesAre DEF FirstLive, Writers, Unserved
  <1>4. wq' = SubSeq(wq, i + 1, Len(wq))
    BY DEF Claim
  <1>5. Behind # <<>> /\ Head(Behind) = heap[w].buf /\ Behind' = Tail(Behind)
    <2>1. Writers' = Writers \ {wq[i]}
      BY <1>2
    <2>2. Behind # <<>> /\ Head(Behind) = heap[wq[i]].buf /\ Behind' = Tail(Behind)
      BY <1>2, <1>3, <1>4, <2>1, BehindServed
    <2>. QED  BY <2>2
  <1>6. \A v \in Waitx : (Carries(v)' <=> Carries(v)) /\ (Carries(v) => heap'[v].buf = heap[v].buf)
    BY DEF Same, Carries, Serve
  <1>7. HandedOver' = HandedOver
    BY <1>6, HandedIs, HandedThen
  <1>. QED  BY <1>5, <1>7
(* if one begins to wait,                                                  *)
LEMMA ReaderWaits ==
    ASSUME CallsInv, CallsInv', NEW p, NEW b, NEW x, Begins(p, "read", b, x), Writers = {}
    PROVE  Behind = <<>> /\ Behind' = <<>> /\ HandedOver' = HandedOver
  <1>1. Writers' = {}
    BY WritersAre DEF Same, Begins
  <1>2. \A v \in Waitx : (Carries(v)' <=> Carries(v)) /\ (Carries(v) => heap'[v].buf = heap[v].buf)
    BY DEF Same, Carries, Begins
  <1>3. HandedOver' = HandedOver
    BY <1>2, HandedIs, HandedThen
  <1>. QED  BY <1>1, <1>3, NoneBehind

LEMMA BehindFirst ==
    ASSUME CallsInv, CallsInv', NEW x \in Waitx, NEW e \in Elem, Writers = {}, Writers' = {x},
           wq' = <<x>>, heap'[x].buf = e
    PROVE  Behind' = Append(Behind, e)
  <1>1. Behind = <<>>
    BY NoneBehind
  <1>2. Places' = {1}
    <2>1. Len(wq') = 1 /\ wq'[1] = x
      OBVIOUS
    <2>. QED  BY <2>1, PlacesThen
  <1>3. CountsUp(InOrder({1}), 1, {1})
    <2>1. {} \subseteq 1..0 /\ 0 \in Nat /\ {} \cup {0 + 1} = {1} /\ 0 + 1 = 1
      OBVIOUS
    <2>2. PICK n \in Nat : CountsUp(InOrder({}), n, {})
      BY <2>1, OrderIs
    <2>3. n = 0
      BY <2>2 DEF CountsUp
    <2>4. MoreCounted(0, {}, 0)
      BY <2>1, <2>2, <2>3, OrderMore
    <2>. QED  BY <2>1, <2>4 DEF MoreCounted
  <1>4. PICK m : m = InOrder({1})
    OBVIOUS
  <1>5. m \in [1..1 -> {1}]
    BY <1>3, <1>4 DEF CountsUp
  <1>6. Behind' = [k \in 1..1 |-> heap'[wq'[m[k]]].buf]
    BY <1>2, <1>4, <1>5, BehindIs
  <1>7. Behind' = [k \in 1..1 |-> e]
    <2>1. \A k \in 1..1 : wq'[m[k]] = x
      BY <1>5
    <2>. QED  BY <1>6, <2>1
  <1>8. [k \in 1..1 |-> e] = <<e>> /\ Append(<<>>, e) = <<e>>
    OBVIOUS
  <1>. QED  BY <1>1, <1>7, <1>8

LEMMA WriterWaits ==
    ASSUME CallsInv, CallsInv', NEW B, ElemsInv(B), NEW p, NEW e \in Elem, NEW x \in Waitx,
           NEW keep \in BOOLEAN, Begins(p, "write", e, x), Enqueue(p, "write", e, keep),
           keep \/ Writers = {}
    PROVE  Behind' = Append(Behind, e) /\ HandedOver' = HandedOver
  <1>1. /\ Writers' = Writers \cup {x} /\ \A v \in Writers : heap'[v].buf = heap[v].buf
        /\ heap'[x].buf = e
    BY WritersAre DEF Same, Begins
  <1>2. \A v \in Waitx : (Carries(v)' <=> Carries(v)) /\ (Carries(v) => heap'[v].buf = heap[v].buf)
    BY DEF Same, Carries, Begins
  <1>3. HandedOver' = HandedOver
    BY <1>2, HandedIs, HandedThen
  <1>4. wq' = IF keep THEN Append(wq, x) ELSE <<x>>
    <2>1. PICK y \in Waitx : /\ heap[y].state = "free" /\ heap'[y].state = "wait"
                             /\ wq' = IF keep THEN Append(wq, y) ELSE <<y>>
      BY DEF Enqueue, First
    <2>2. y = x
      BY <2>1 DEF Begins, Same, InCall
    <2>. QED  BY <2>1, <2>2
  <1>5. CASE keep
    BY <1>1, <1>3, <1>4, <1>5, BehindMore
  <1>6. CASE ~ keep
    BY <1>1, <1>3, <1>4, <1>6, BehindFirst
  <1>. QED  BY <1>5, <1>6

(* if a call ends,                                                         *)
LEMMA CallEnded ==
    ASSUME CallsInv, CallsInv', NEW B, ElemsInv(B), NEW p, NEW w, Ends(p, w), wq' = wq
    PROVE  \/ /\ \E e \in HandedOver : HandedOver' = HandedOver \ {e} /\ got' = got \cup {e}
              /\ Behind' = Behind /\ out' = out
           \/ /\ \E d \in 1..Len(Behind) : /\ Behind' = Abstract!RemoveAt(Behind, d)
                                            /\ out' = out \cup {Behind[d]}
              /\ HandedOver' = HandedOver /\ got' = got /\ Writers # {}
           \/ Behind' = Behind /\ HandedOver' = HandedOver /\ out' = out /\ got' = got
  <1>1. /\ w \in Waitx /\ InCall(w) /\ ~ InCall(w)' /\ Kind(w) \in {"read", "write"}
        /\ \A v \in Waitx : v # w => Same(v)
    BY DEF Ends, ElemsInv, KindsRight
  <1> DEFINE S == {v \in Waitx : Carries(v)}
             T == {v \in Waitx : Carries(v)'}
  <1>2. T = S \ {w} /\ \A v \in T : heap'[v].buf = heap[v].buf
    <2>1. w \notin T
      BY <1>1 DEF Carries
    <2>2. ASSUME NEW v \in Waitx, v # w
          PROVE  (Carries(v)' <=> Carries(v)) /\ (Carries(v) => heap'[v].buf = heap[v].buf)
      <3>1. Same(v)
        BY <1>1, <2>2
      <3>. QED  BY <3>1 DEF Same, Carries
    <2>. QED  BY <2>1, <2>2
  <1>6. HandedOver = {heap[v].buf : v \in S} /\ HandedOver' = {heap'[v].buf : v \in T}
    BY HandedIs, HandedThen
  <1>7. \A v \in S : Carries(v) /\ v \in Waitx
    OBVIOUS
  <1>8. Carries(w) <=> w \in S
    BY <1>1
  <1> HIDE DEF S, T
  <1>3. Writers' = Writers \ {w} /\ \A v \in Writers' : heap'[v].buf = heap[v].buf
    BY <1>1, WritersAre DEF Same
  <1>4. CASE w \notin Writers
    <2>1. Behind' = Behind
      <3>1. Writers' = Writers /\ \A v \in Writers : heap'[v].buf = heap[v].buf
        BY <1>3, <1>4
      <3>. QED  BY <3>1, BehindKept
    <2>2. CASE Carries(w)
      <3>1. got' = got \cup {heap[w].buf} /\ out' = out
        BY <2>2 DEF Ends, Carries
      <3>2. \A v \in Waitx : Carries(v) => Held(v)
        BY DEF Carries, ElemsInv, KindsRight
      <3>3. w \in S /\ \A v \in S : v # w => heap[v].buf # heap[w].buf
        BY <1>1, <1>7, <1>8, <2>2, <3>2 DEF ElemsInv, EachOnce
      <3>4. HandedOver' = HandedOver \ {heap[w].buf} /\ heap[w].buf \in HandedOver
        BY <1>2, <1>6, <3>3
      <3>. QED  BY <2>1, <3>1, <3>4
    <2>3. CASE ~ Carries(w)
      <3>1. HandedOver' = HandedOver
        BY <1>2, <1>6, <1>8, <2>3
      <3>2. out' = out /\ got' = got
        BY <1>1, <1>4, <2>3, WritersAre DEF Ends, Carries
      <3>. QED  BY <2>1, <3>1, <3>2
    <2>. QED  BY <2>2, <2>3
  <1>5. CASE w \in Writers
    <2>1. InCall(w) /\ heap[w].done = 0 /\ Kind(w) = "write"
      BY <1>5, WritersAre
    <2>2. ~ Carries(w) /\ out' = out \cup {heap[w].buf} /\ got' = got
      BY <2>1 DEF Ends, Carries
    <2>3. HandedOver' = HandedOver
      BY <1>2, <1>6, <1>8, <2>2
    <2>4. \E d \in 1..Len(Behind) :
              Behind[d] = heap[w].buf /\ Behind' = Abstract!RemoveAt(Behind, d)
      BY <1>3, <1>5, BehindGone
    <2>. QED  BY <1>5, <2>2, <2>3, <2>4
  <1>. QED  BY <1>4, <1>5

(* and if readers are told that the channel is closed.                     *)
LEMMA ReadersTold ==
    ASSUME CallsInv, CallsInv', Told, Writers = {}
    PROVE  Behind' = Behind /\ HandedOver' = HandedOver
  <1>1. Writers' = {}
    BY WritersAre DEF Told
  <1>2. \A v \in Waitx : (Carries(v)' <=> Carries(v)) /\ (Carries(v) => heap'[v].buf = heap[v].buf)
    BY DEF Told, Carries
  <1>3. HandedOver' = HandedOver
    BY <1>2, HandedIs, HandedThen
  <1>. QED  BY <1>1, <1>3, NoneBehind
-----------------------------------------------------------------------------
(* A ring of c blocks g whose positions are r and w, and which is full if  *)
(* they are equal and u: how many elements it holds, in which block the    *)
(* i-th of them is, and what it holds, oldest first.                       *)
Stock(c, r, w, u) == IF r < w THEN w - r ELSE IF w < r THEN w + c - r ELSE IF u THEN c ELSE 0
Spot(c, r, i) == IF r + i - 1 < c THEN r + i - 1 ELSE r + i - 1 - c
Round(c, r, w, u, g) == [i \in 1..Stock(c, r, w, u) |-> g[Spot(c, r, i)]]
Ring(c, r, w, u) == /\ c \in Nat /\ r \in Nat /\ w \in Nat /\ u \in BOOLEAN
                    /\ c > 0 => r < c /\ w < c
                    /\ c = 0 => r = 0 /\ w = 0
                    /\ u => r = w

LEMMA RoundIs ==
    ASSUME NEW c, NEW r, NEW w, NEW u, NEW g, Ring(c, r, w, u)
    PROVE  /\ [i \in 1..(IF r # w THEN (w + c - r) % c ELSE IF u THEN c ELSE 0) |-> g[(r + i - 1) % c]]
                = Round(c, r, w, u, g)
           /\ Stock(c, r, w, u) \in Nat
           /\ \A i \in 1..Stock(c, r, w, u) : Spot(c, r, i) \in 0..(c - 1)
  <1> DEFINE n == IF r # w THEN (w + c - r) % c ELSE IF u THEN c ELSE 0
             l == [i \in 1..n |-> g[(r + i - 1) % c]]
  <1>1. c \in Nat /\ r \in Nat /\ w \in Nat
    BY DEF Ring
  <1>2. CASE c = 0
    <2>1. r = 0 /\ w = 0 /\ Stock(c, r, w, u) = 0
      BY <1>1, <1>2 DEF Ring, Stock
    <2>2. n = 0
      BY <1>2, <2>1
    <2> HIDE DEF n
    <2>3. l = [i \in 1..0 |-> g[Spot(c, r, i)]]
      BY <2>2
    <2>4. l = Round(c, r, w, u, g)
      BY <2>1, <2>3 DEF Round
    <2>. QED  BY <2>1, <2>4 DEF n
  <1>3. CASE c > 0
    <2>1. r < c /\ w < c
      BY <1>3 DEF Ring
    <2>2. PICK k : k = Stock(c, r, w, u)
      OBVIOUS
    <2>3. n = k
      <3>1. CASE r < w
        BY <1>1, <1>3, <2>1, <2>2, <3>1, Remainder DEF Stock
      <3>2. CASE w < r
        BY <1>1, <1>3, <2>1, <2>2, <3>2, Remainder DEF Stock
      <3>3. CASE r = w
        BY <1>1, <2>2, <3>3 DEF Stock
      <3>. QED  BY <1>1, <3>1, <3>2, <3>3
    <2>4. k \in Nat /\ k <= c
      BY <1>1, <2>1, <2>2 DEF Stock
    <2>5. ASSUME NEW i \in 1..k PROVE (r + i - 1) % c = Spot(c, r, i) /\ Spot(c, r, i) \in 0..(c - 1)
      <3>1. r + i - 1 \in Nat /\ r + i - 1 < 2 * c
        BY <1>1, <2>1, <2>4
      <3>2. (r + i - 1) % c = Spot(c, r, i)
        BY <1>1, <1>3, <3>1, Remainder DEF Spot
      <3>3. Spot(c, r, i) \in 0..(c - 1)
        BY <1>1, <1>3, <3>1 DEF Spot
      <3>. QED  BY <3>2, <3>3
    <2> HIDE DEF n
    <2>6. l = [i \in 1..k |-> g[Spot(c, r, i)]]
      BY <2>3, <2>5
    <2>. QED  BY <2>2, <2>4, <2>5, <2>6 DEF Round, n
  <1>. QED  BY <1>1, <1>2, <1>3

IsRound(c, r, w, u, g, S) ==
    /\ Round(c, r, w, u, g) \in Seq(S) /\ Len(Round(c, r, w, u, g)) = Stock(c, r, w, u)
    /\ Stock(c, r, w, u) \in Nat
    /\ \A i \in 1..Stock(c, r, w, u) :
          /\ Spot(c, r, i) \in 0..(c - 1)
          /\ Round(c, r, w, u, g)[i] = g[Spot(c, r, i)]
    /\ Round(c, r, w, u, g) = <<>> <=> Stock(c, r, w, u) = 0

LEMMA RoundParts ==
    ASSUME NEW c, NEW r, NEW w, NEW u, Ring(c, r, w, u), NEW S, NEW g \in [0..(c - 1) -> S]
    PROVE  IsRound(c, r, w, u, g, S)
  <1>1. PICK k, l : k = Stock(c, r, w, u) /\ l = Round(c, r, w, u, g)
    OBVIOUS
  <1>2. k \in Nat /\ \A i \in 1..k : Spot(c, r, i) \in 0..(c - 1)
    BY <1>1, RoundIs
  <1>3. l = [i \in 1..k |-> g[Spot(c, r, i)]]
    BY <1>1 DEF Round
  <1>4. l \in [1..k -> S]
    BY <1>2, <1>3
  <1>5. l \in Seq(S) /\ Len(l) = k /\ (l = <<>> <=> k = 0)
    BY <1>2, <1>4, FunctionIsSeq
  <1>. QED  BY <1>1, <1>2, <1>3, <1>5 DEF IsRound

(* One more, one less, and the last in place of the first.                 *)
Next1(c, i) == IF i + 1 = c THEN 0 ELSE i + 1

RoundGrows(c, r, w, u, g, e) ==
    Round(c, r, Next1(c, w), u, [g EXCEPT ![w] = e]) = Append(Round(c, r, w, FALSE, g), e)
RoundShrinks(c, r, w, u, g, e) ==
    /\ Round(c, r, w, u, g) # <<>> /\ Head(Round(c, r, w, u, g)) = g[r]
    /\ Round(c, Next1(c, r), w, FALSE, [g EXCEPT ![r] = e]) = Tail(Round(c, r, w, u, g))
RoundTurns(c, r, g, e) ==
    /\ Round(c, r, r, TRUE, g) # <<>> /\ Head(Round(c, r, r, TRUE, g)) = g[r]
    /\ Round(c, Next1(c, r), Next1(c, r), TRUE, [g EXCEPT ![r] = e])
         = Append(Tail(Round(c, r, r, TRUE, g)), e)

LEMMA RoundPut ==
    ASSUME NEW c, NEW r, NEW w, Ring(c, r, w, FALSE), c > 0,
           NEW S, NEW g \in [0..(c - 1) -> S], NEW e \in S,
           NEW u \in BOOLEAN, u <=> Next1(c, w) = r
    PROVE  RoundGrows(c, r, w, u, g, e)
  <1>1. PICK v, h, k, n, s, t :
           /\ v = Next1(c, w) /\ h = [g EXCEPT ![w] = e]
           /\ k = Stock(c, r, w, FALSE) /\ n = Stock(c, r, v, u)
           /\ s = Round(c, r, w, FALSE, g) /\ t = Round(c, r, v, u, h)
    OBVIOUS
  <1>2. /\ c \in Nat /\ r \in Nat /\ w \in Nat /\ r < c /\ w < c
        /\ v \in Nat /\ v < c /\ (u <=> v = r) /\ Ring(c, r, v, u)
    BY <1>1 DEF Ring, Next1
  <1>3. n = k + 1 /\ Spot(c, r, k + 1) = w /\ k \in Nat
    <2>1. k = IF r < w THEN w - r ELSE IF w < r THEN w + c - r ELSE 0
      BY <1>1 DEF Stock
    <2>2. n = IF r < v THEN v - r ELSE IF v < r THEN v + c - r ELSE c
      BY <1>1, <1>2 DEF Stock
    <2>3. v = IF w + 1 = c THEN 0 ELSE w + 1
      BY <1>1 DEF Next1
    <2>4. n = k + 1 /\ k \in Nat
      BY <1>2, <2>1, <2>2, <2>3
    <2>5. Spot(c, r, k + 1) = w
      BY <1>2, <2>1 DEF Spot
    <2>. QED  BY <2>4, <2>5
  <1>4. h \in [0..(c - 1) -> S] /\ h[w] = e /\ \A j \in 0..(c - 1) : j # w => h[j] = g[j]
    BY <1>1, <1>2
  <1>5. /\ s \in Seq(S) /\ Len(s) = k
        /\ \A i \in 1..k : Spot(c, r, i) \in 0..(c - 1) /\ s[i] = g[Spot(c, r, i)]
    <2>1. IsRound(c, r, w, FALSE, g, S)
      BY RoundParts
    <2>. QED  BY <1>1, <2>1 DEF IsRound
  <1>6. /\ t \in Seq(S) /\ Len(t) = n
        /\ \A i \in 1..n : Spot(c, r, i) \in 0..(c - 1) /\ t[i] = h[Spot(c, r, i)]
    <2>1. IsRound(c, r, v, u, h, S)
      BY <1>2, <1>4, RoundParts
    <2>. QED  BY <1>1, <2>1 DEF IsRound
  <1>7. \A i \in 1..k : Spot(c, r, i) # w
    BY <1>1, <1>2, <1>3 DEF Spot, Stock
  <1>8. /\ Append(s, e) \in Seq(S) /\ Len(Append(s, e)) = k + 1 /\ Append(s, e)[k + 1] = e
        /\ \A i \in 1..k : Append(s, e)[i] = s[i]
    BY <1>5, AppendProperties
  <1>9. ASSUME NEW i \in 1..(k + 1) PROVE t[i] = Append(s, e)[i]
    <2>1. CASE i = k + 1
      BY <1>3, <1>4, <1>6, <1>8, <2>1
    <2>2. CASE i # k + 1
      <3>1. i \in 1..k /\ i \in 1..n
        BY <1>3, <2>2
      <3>2. t[i] = g[Spot(c, r, i)]
        BY <1>4, <1>5, <1>6, <1>7, <3>1
      <3>. QED  BY <1>5, <1>8, <3>1, <3>2
    <2>. QED  BY <2>1, <2>2
  <1>10. t = Append(s, e)
    BY <1>3, <1>6, <1>8, <1>9, SeqsEqual
  <1>. QED  BY <1>1, <1>10 DEF RoundGrows

LEMMA RoundTake ==
    ASSUME NEW c, NEW r, NEW w, NEW u, Ring(c, r, w, u), c > 0, r # w \/ u,
           NEW S, NEW g \in [0..(c - 1) -> S], NEW e \in S
    PROVE  RoundShrinks(c, r, w, u, g, e)
  <1>1. PICK q, h, k, n, s, t :
           /\ q = Next1(c, r) /\ h = [g EXCEPT ![r] = e]
           /\ k = Stock(c, r, w, u) /\ n = Stock(c, q, w, FALSE)
           /\ s = Round(c, r, w, u, g) /\ t = Round(c, q, w, FALSE, h)
    OBVIOUS
  <1>2. /\ c \in Nat /\ r \in Nat /\ w \in Nat /\ r < c /\ w < c
        /\ q \in Nat /\ q < c /\ Ring(c, q, w, FALSE)
    BY <1>1 DEF Ring, Next1
  <1>3. k = n + 1 /\ n \in Nat /\ k \in Nat /\ k <= c
    <2>1. k = IF r < w THEN w - r ELSE IF w < r THEN w + c - r ELSE c
      BY <1>1, <1>2 DEF Stock
    <2>2. n = IF q < w THEN w - q ELSE IF w < q THEN w + c - q ELSE 0
      BY <1>1 DEF Stock
    <2>3. q = IF r + 1 = c THEN 0 ELSE r + 1
      BY <1>1 DEF Next1
    <2>. QED  BY <1>2, <2>1, <2>2, <2>3
  <1>4. h \in [0..(c - 1) -> S] /\ \A j \in 0..(c - 1) : j # r => h[j] = g[j]
    BY <1>1, <1>2
  <1>5. /\ s \in Seq(S) /\ Len(s) = k /\ (s = <<>> <=> k = 0)
        /\ \A i \in 1..k : Spot(c, r, i) \in 0..(c - 1) /\ s[i] = g[Spot(c, r, i)]
    <2>1. IsRound(c, r, w, u, g, S)
      BY RoundParts
    <2>. QED  BY <1>1, <2>1 DEF IsRound
  <1>6. /\ t \in Seq(S) /\ Len(t) = n
        /\ \A i \in 1..n : Spot(c, q, i) \in 0..(c - 1) /\ t[i] = h[Spot(c, q, i)]
    <2>1. IsRound(c, q, w, FALSE, h, S)
      BY <1>2, <1>4, RoundParts
    <2>. QED  BY <1>1, <2>1 DEF IsRound
  <1>7. \A i \in 1..n : i + 1 \in 1..k /\ Spot(c, q, i) = Spot(c, r, i + 1) /\ Spot(c, q, i) # r
    <2>1. q = IF r + 1 = c THEN 0 ELSE r + 1
      BY <1>1 DEF Next1
    <2>. QED  BY <1>2, <1>3, <2>1 DEF Spot
  <1>8. s # <<>> /\ Head(s) = s[1] /\ s[1] = g[r]
    <2>1. 1 \in 1..k /\ Spot(c, r, 1) = r
      BY <1>2, <1>3 DEF Spot
    <2>. QED  BY <1>3, <1>5, <2>1
  <1>9. /\ Tail(s) \in Seq(S) /\ Len(Tail(s)) = k - 1 /\ \A i \in 1..(k - 1) : Tail(s)[i] = s[i + 1]
    BY <1>5, <1>8, HeadTailProperties
  <1>10. ASSUME NEW i \in 1..n PROVE t[i] = Tail(s)[i]
    <2>1. i \in 1..(k - 1)
      BY <1>3
    <2>2. t[i] = g[Spot(c, r, i + 1)]
      BY <1>4, <1>6, <1>7
    <2>. QED  BY <1>5, <1>7, <1>9, <2>1, <2>2
  <1>11. t = Tail(s)
    <2>1. Len(Tail(s)) = n
      BY <1>3, <1>9
    <2>. QED  BY <1>6, <1>9, <1>10, <2>1, SeqsEqual
  <1>. QED  BY <1>1, <1>8, <1>11 DEF RoundShrinks

LEMMA RoundTurn ==
    ASSUME NEW c, NEW r, Ring(c, r, r, TRUE), c > 0,
           NEW S, NEW g \in [0..(c - 1) -> S], NEW e \in S
    PROVE  RoundTurns(c, r, g, e)
  <1>1. RoundShrinks(c, r, r, TRUE, g, e)
    BY RoundTake
  <1>2. PICK q, h : q = Next1(c, r) /\ h = [g EXCEPT ![r] = e]
    OBVIOUS
  <1>3. Ring(c, q, r, FALSE)
    BY <1>2 DEF Ring, Next1
  <1>4. h \in [0..(c - 1) -> S] /\ [h EXCEPT ![r] = e] = h
    BY <1>2 DEF Ring
  <1>5. TRUE <=> Next1(c, r) = q
    BY <1>2
  <1>6. RoundGrows(c, q, r, TRUE, h, e)
    BY <1>3, <1>4, <1>5, RoundPut
  <1>. QED  BY <1>1, <1>2, <1>4, <1>6 DEF RoundGrows, RoundShrinks, RoundTurns

LEMMA ContentsRound ==
    /\ RingOK => Contents = Round(cap, rx, wx, full, ring) /\ Ring(cap, rx, wx, full)
    /\ RingOK' => Contents' = Round(cap', rx', wx', full', ring') /\ Ring(cap', rx', wx', full')
  <1>1. RingOK => Ring(cap, rx, wx, full)
    BY PipeAssumption DEF RingOK, Ring
  <1>2. RingOK' => Ring(cap', rx', wx', full')
    BY PipeAssumption DEF RingOK, Ring
  <1>3. ASSUME Ring(cap, rx, wx, full) PROVE Contents = Round(cap, rx, wx, full, ring)
    <2>1. PICK c, r, w, u, g : c = cap /\ r = rx /\ w = wx /\ u = full /\ g = ring
      OBVIOUS
    <2>2. Contents = [i \in 1..(IF r # w THEN (w + c - r) % c ELSE IF u THEN c ELSE 0) |-> g[(r + i - 1) % c]]
      BY <2>1 DEF Contents
    <2>. QED  BY <1>3, <2>1, <2>2, RoundIs
  <1>4. ASSUME Ring(cap', rx', wx', full') PROVE Contents' = Round(cap', rx', wx', full', ring')
    <2>1. PICK c, r, w, u, g : c = cap' /\ r = rx' /\ w = wx' /\ u = full' /\ g = ring'
      OBVIOUS
    <2>2. Contents' = [i \in 1..(IF r # w THEN (w + c - r) % c ELSE IF u THEN c ELSE 0) |-> g[(r + i - 1) % c]]
      BY <2>1 DEF Contents
    <2>. QED  BY <1>4, <2>1, <2>2, RoundIs
  <1>. QED  BY <1>1, <1>2, <1>3, <1>4

(* So what the channel holds grows at its end and shrinks at its front.    *)
LEMMA ContentsParts ==
    ASSUME RingOK, RingHolds
    PROVE  /\ Contents \in Seq(Elem)
           /\ rx = wx /\ full => Len(Contents) = cap
           /\ rx = wx /\ (~ full \/ cap = 0) => Contents = <<>>
  <1>1. PICK c, r, w, u, g, k, s :
           /\ c = cap /\ r = rx /\ w = wx /\ u = full /\ g = ring
           /\ k = Stock(c, r, w, u) /\ s = Round(c, r, w, u, g)
    OBVIOUS
  <1>2. Ring(c, r, w, u) /\ s = Contents
    BY <1>1, ContentsRound
  <1>3. IsRound(c, r, w, u, g, Elem \cup {None})
    <2>1. g \in [0..(c - 1) -> Elem \cup {None}]
      BY <1>1 DEF RingOK
    <2>. QED  BY <1>2, <2>1, RoundParts
  <1>4. /\ s \in Seq(Elem \cup {None}) /\ Len(s) = k /\ k \in Nat
        /\ \A i \in 1..k : Spot(c, r, i) \in 0..(c - 1) /\ s[i] = g[Spot(c, r, i)]
        /\ s = <<>> <=> k = 0
    BY <1>1, <1>3 DEF IsRound
  <1>5. ASSUME NEW i \in 1..k PROVE s[i] \in Elem
    <2>0. k = IF r < w THEN w - r ELSE IF w < r THEN w + c - r ELSE IF u THEN c ELSE 0
      BY <1>1 DEF Stock
    <2>1. /\ c \in Nat /\ r \in Nat /\ w \in Nat /\ Spot(c, r, i) \in 0..(c - 1)
          /\ r < c /\ w < c
      BY <1>2, <1>4 DEF Ring
    <2>2. PICK j \in 0..(c - 1) : j = Spot(c, r, i)
      BY <2>1
    <2>3. IF r < w THEN r <= j /\ j < w ELSE IF w < r THEN r <= j \/ j < w ELSE u
      BY <2>0, <2>1, <2>2 DEF Spot
    <2>4. j \in Occupied
      BY <1>1, <2>2, <2>3 DEF Occupied
    <2>. QED  BY <1>1, <1>4, <2>2, <2>4 DEF RingHolds
  <1>6. s \in Seq(Elem)
    <2>1. s \in [1..k -> Elem]
      <3>1. DOMAIN s = 1..k /\ s = [i \in DOMAIN s |-> s[i]]
        BY <1>4, LenProperties
      <3>. QED  BY <1>5, <3>1
    <2>. QED  BY <1>4, <2>1, FunctionIsSeq
  <1>7. /\ r = w /\ u => k = c
        /\ r = w /\ (~ u \/ c = 0) => k = 0
    BY <1>1, <1>2 DEF Stock, Ring
  <1>. QED  BY <1>1, <1>2, <1>4, <1>6, <1>7

LEMMA ContentsPut ==
    ASSUME RingOK, RingOK', cap > 0, rx # wx \/ ~ full, NEW e \in Elem \cup {None},
           ring' = [ring EXCEPT ![wx] = e], wx' = Succ(wx), cap' = cap, rx' = rx,
           full' = (Succ(wx) = rx)
    PROVE  Contents' = Append(Contents, e)
  <1>1. PICK c, r, w, v, g : c = cap /\ r = rx /\ w = wx /\ v = wx' /\ g = ring
    OBVIOUS
  <1>2. w \in 0..(cap - 1) /\ v = Next1(c, w)
    <2>1. w \in 0..(cap - 1)
      BY <1>1, CapIs DEF RingOK
    <2>2. Succ(w) = IF w + 1 = cap THEN 0 ELSE w + 1
      BY <2>1, SuccIs
    <2>. QED  BY <1>1, <2>1, <2>2 DEF Next1
  <1>3. full = FALSE /\ full' \in BOOLEAN /\ (full' <=> v = r)
    BY <1>1 DEF RingOK
  <1>4. PICK u \in BOOLEAN : u = full'
    BY <1>3
  <1>5. g \in [0..(c - 1) -> Elem \cup {None}] /\ c > 0 /\ Ring(c, r, w, FALSE)
    BY <1>1, <1>3, ContentsRound DEF RingOK
  <1>8. u <=> Next1(c, w) = r
    BY <1>2, <1>3, <1>4
  <1>6. RoundGrows(c, r, w, u, g, e)
    BY <1>5, <1>8, RoundPut
  <1>7. Contents = Round(c, r, w, FALSE, g) /\ Contents' = Round(c, r, v, u, [g EXCEPT ![w] = e])
    BY <1>1, <1>3, <1>4, ContentsRound
  <1>. QED  BY <1>2, <1>6, <1>7 DEF RoundGrows

LEMMA ContentsTake ==
    ASSUME RingOK, RingOK', cap > 0, rx # wx \/ full,
           ring' = [ring EXCEPT ![rx] = None], rx' = Succ(rx), cap' = cap, wx' = wx, full' = FALSE
    PROVE  Contents # <<>> /\ Head(Contents) = ring[rx] /\ Contents' = Tail(Contents)
  <1>1. PICK c, r, q, w, u, g : c = cap /\ r = rx /\ q = rx' /\ w = wx /\ u = full /\ g = ring
    OBVIOUS
  <1>2. q = Next1(c, r)
    <2>1. r \in 0..(cap - 1)
      BY <1>1, CapIs DEF RingOK
    <2>2. Succ(r) = IF r + 1 = cap THEN 0 ELSE r + 1
      BY <2>1, SuccIs
    <2>. QED  BY <1>1, <2>1, <2>2 DEF Next1
  <1>3. /\ g \in [0..(c - 1) -> Elem \cup {None}] /\ c > 0 /\ Ring(c, r, w, u)
        /\ r # w \/ u
        /\ None \in Elem \cup {None}
    BY <1>1, ContentsRound DEF RingOK
  <1>4. RoundShrinks(c, r, w, u, g, None)
    BY <1>3, RoundTake
  <1>5. Contents = Round(c, r, w, u, g) /\ Contents' = Round(c, q, w, FALSE, [g EXCEPT ![r] = None])
    BY <1>1, ContentsRound
  <1>. QED  BY <1>1, <1>2, <1>4, <1>5 DEF RoundShrinks

LEMMA ContentsTurn ==
    ASSUME RingOK, RingOK', cap > 0, full, NEW e \in Elem \cup {None},
           ring' = [ring EXCEPT ![wx] = e], rx' = Succ(rx), wx' = Succ(wx), cap' = cap, full' = full
    PROVE  Contents # <<>> /\ Head(Contents) = ring[rx] /\ Contents' = Append(Tail(Contents), e)
  <1>1. PICK c, r, q, g : c = cap /\ r = rx /\ q = rx' /\ g = ring
    OBVIOUS
  <1>2. q = Next1(c, r)
    <2>1. r \in 0..(cap - 1)
      BY <1>1, CapIs DEF RingOK
    <2>2. Succ(r) = IF r + 1 = cap THEN 0 ELSE r + 1
      BY <2>1, SuccIs
    <2>. QED  BY <1>1, <2>1, <2>2 DEF Next1
  <1>3. full = TRUE /\ wx = r /\ wx' = q
    BY <1>1 DEF RingOK
  <1>4. g \in [0..(c - 1) -> Elem \cup {None}] /\ c > 0 /\ Ring(c, r, r, TRUE)
    BY <1>1, <1>3, ContentsRound DEF RingOK
  <1>5. RoundTurns(c, r, g, e)
    BY <1>4, RoundTurn
  <1>6. Contents = Round(c, r, r, TRUE, g) /\ Contents' = Round(c, q, q, TRUE, [g EXCEPT ![r] = e])
    BY <1>1, <1>3, ContentsRound
  <1>. QED  BY <1>1, <1>2, <1>5, <1>6 DEF RoundTurns

LEMMA ContentsSame ==
    ASSUME UNCHANGED <<cap, ring, rx, wx, full>>
    PROVE  Contents' = Contents
  BY DEF Contents
-----------------------------------------------------------------------------
(***************************************************************************)
(* A step makes the line l the line m; up to n elements are in the channel *)
(* proper.                                                                 *)
(***************************************************************************)
PutMove(l, m) ==
    /\ \E e \in out : closed = 0 /\ m = Append(l, e) /\ out' = out \ {e}
    /\ HandedOver' = HandedOver /\ got' = got /\ closed' = closed
PassMove(l, m) ==
    /\ \E e \in out : closed = 0 /\ HandedOver' = HandedOver \cup {e} /\ out' = out \ {e}
    /\ l = <<>> /\ m = l /\ got' = got /\ closed' = closed
TakeMove(l, m) ==
    /\ l # <<>> /\ m = Tail(l) /\ got' = got \cup {Head(l)}
    /\ HandedOver' = HandedOver /\ out' = out /\ closed' = closed
ArriveMove(l, m) ==
    /\ \E e \in HandedOver : HandedOver' = HandedOver \ {e} /\ got' = got \cup {e}
    /\ m = l /\ out' = out /\ closed' = closed
GiveUpMove(l, m, n) ==
    /\ \E i \in DOMAIN l : n \in Nat /\ i > n /\ m = Abstract!RemoveAt(l, i) /\ out' = out \cup {l[i]}
    /\ HandedOver' = HandedOver /\ got' = got /\ closed' = closed
ShutMove(l, m) ==
    /\ m = l /\ HandedOver' = HandedOver /\ out' = out /\ got' = got
    /\ closed' = closed \/ closed' # 0

Moves(l, m, n) ==
    \/ PutMove(l, m) \/ PassMove(l, m) \/ TakeMove(l, m)
    \/ ArriveMove(l, m) \/ GiveUpMove(l, m, n) \/ ShutMove(l, m)

(* With the buffer c, which becomes d, and the writers behind it: an       *)
(* element is taken from the buffer, ...                                   *)
LEMMA TakeMoves ==
    ASSUME CallsInv, CallsInv', NEW B, ElemsInv(B), NEW c \in Seq(Elem), NEW n,
           \A w \in Waitx : Same(w), wq' = wq \/ Writers = {},
           c # <<>>, out' = out, got' = got \cup {Head(c)}, closed' = closed
    PROVE  Moves(c \o Behind, Tail(c) \o Behind', n)
  <1>1. Behind' = Behind /\ HandedOver' = HandedOver /\ Behind \in Seq(Elem)
    BY AllSame, BehindParts
  <1>2. c \o Behind # <<>> /\ Head(c \o Behind) = Head(c) /\ Tail(c \o Behind) = Tail(c) \o Behind
    BY <1>1, JoinTake
  <1>. QED  BY <1>1, <1>2 DEF Moves, TakeMove

(* ... and the first of the writers puts its own in the buffer.            *)
LEMMA TurnMoves ==
    ASSUME CallsInv, CallsInv', NEW B, ElemsInv(B), NEW c \in Seq(Elem), NEW n,
           NEW i \in FirstLive, Claim(i, 1, None), NEW w, w = wq[i], Serve(w, None),
           Kind(w) = "write",
           c # <<>>, out' = out, got' = got \cup {Head(c)}
    PROVE  Moves(c \o Behind, Append(Tail(c), heap[w].buf) \o Behind', n)
  <1>1. /\ Behind # <<>> /\ Head(Behind) = heap[w].buf /\ Behind' = Tail(Behind)
        /\ HandedOver' = HandedOver /\ Behind \in Seq(Elem) /\ closed' = closed
    BY WriterServed, BehindParts DEF Serve
  <1>2. c \o Behind # <<>> /\ Head(c \o Behind) = Head(c)
    BY <1>1, JoinTake
  <1>3. Append(Tail(c), Head(Behind)) \o Tail(Behind) = Tail(c \o Behind)
    BY <1>1, JoinTurn
  <1>. QED  BY <1>1, <1>2, <1>3 DEF Moves, TakeMove

LEMMA EmptyJoin ==
    /\ \A S : \A s \in Seq(S) : <<>> \o s = s
    /\ <<>> \in Seq(Elem)
  BY ConcatEmptySeq

(* Without a buffer the element of the first writer is taken.              *)
LEMMA DirectMoves ==
    ASSUME CallsInv, CallsInv', NEW B, ElemsInv(B), NEW n,
           NEW i \in FirstLive, Claim(i, 1, None), NEW w, w = wq[i], Serve(w, None),
           Kind(w) = "write", out' = out, got' = got \cup {heap[w].buf}
    PROVE  Moves(<<>> \o Behind, <<>> \o Behind', n)
  <1>1. /\ Behind # <<>> /\ Head(Behind) = heap[w].buf /\ Behind' = Tail(Behind)
        /\ HandedOver' = HandedOver /\ Behind \in Seq(Elem) /\ closed' = closed
    BY WriterServed, BehindParts DEF Serve
  <1>2. Tail(Behind) \in Seq(Elem)
    BY <1>1, HeadTailProperties
  <1>3. <<>> \o Behind = Behind /\ <<>> \o Tail(Behind) = Tail(Behind)
    BY <1>1, <1>2, EmptyJoin
  <1>. QED  BY <1>1, <1>3 DEF Moves, TakeMove

(* An element is put in the buffer, for no writer waits, ...               *)
LEMMA PutMoves ==
    ASSUME CallsInv, CallsInv', NEW B, ElemsInv(B), NEW c \in Seq(Elem), NEW n, NEW e \in out,
           \A w \in Waitx : Same(w), Writers = {},
           closed = 0, out' = out \ {e}, got' = got, closed' = closed
    PROVE  Moves(c \o Behind, Append(c, e) \o Behind', n)
  <1>1. Behind' = Behind /\ HandedOver' = HandedOver /\ Behind = <<>> /\ e \in Elem
    BY AllSame, NoneBehind DEF ElemsInv, EachOnce
  <1>2. Append(c, e) \in Seq(Elem)
    BY <1>1, AppendProperties
  <1>3. c \o <<>> = c /\ Append(c, e) \o <<>> = Append(c, e)
    BY <1>2, ConcatEmptySeq
  <1>. QED  BY <1>1, <1>3 DEF Moves, PutMove

(* ... it goes to a reader that waits, ...                                 *)
LEMMA PassMoves ==
    ASSUME CallsInv, CallsInv', NEW n, NEW w, NEW e \in out,
           Serve(w, e), Kind(w) = "read", Writers = {}, closed = 0, out' = out \ {e}, got' = got
    PROVE  Moves(<<>> \o Behind, <<>> \o Behind', n)
  <1>1. Behind = <<>> /\ Behind' = <<>> /\ HandedOver' = HandedOver \cup {e} /\ closed' = closed
    BY ReaderServed DEF Serve
  <1>2. <<>> \o <<>> = <<>>
    BY EmptyJoin
  <1>. QED  BY <1>1, <1>2 DEF Moves, PassMove

(* ... or its writer waits.                                                *)
LEMMA WriterMoves ==
    ASSUME CallsInv, CallsInv', NEW B, ElemsInv(B), NEW c \in Seq(Elem), NEW n,
           NEW p, NEW e \in out, NEW x \in Waitx,
           NEW keep \in BOOLEAN, Begins(p, "write", e, x), Enqueue(p, "write", e, keep),
           keep \/ Writers = {}, closed = 0, out' = out \ {e}
    PROVE  Moves(c \o Behind, c \o Behind', n)
  <1>1. e \in Elem /\ Behind \in Seq(Elem)
    BY BehindParts DEF ElemsInv, EachOnce
  <1>2. Behind' = Append(Behind, e) /\ HandedOver' = HandedOver /\ got' = got /\ closed' = closed
    BY <1>1, WriterWaits DEF Begins
  <1>3. c \o Append(Behind, e) = Append(c \o Behind, e)
    BY <1>1, JoinPut
  <1>. QED  BY <1>2, <1>3 DEF Moves, PutMove

LEMMA ReaderMoves ==
    ASSUME CallsInv, CallsInv', NEW c, NEW n, NEW p, NEW b, NEW x,
           Begins(p, "read", b, x), Writers = {}, out' = out
    PROVE  Moves(c \o Behind, c \o Behind', n)
  <1>1. Behind = <<>> /\ Behind' = <<>> /\ HandedOver' = HandedOver /\ got' = got /\ closed' = closed
    BY ReaderWaits DEF Begins
  <1>. QED  BY <1>1 DEF Moves, ShutMove

(* Nothing happens to the elements.                                        *)
LEMMA StillMoves ==
    ASSUME CallsInv, CallsInv', NEW c, NEW n,
           \A w \in Waitx : Same(w), wq' = wq \/ Writers = {},
           out' = out, got' = got, closed' = closed \/ closed' # 0
    PROVE  Moves(c \o Behind, c \o Behind', n)
  <1>1. Behind' = Behind /\ HandedOver' = HandedOver
    BY AllSame
  <1>. QED  BY <1>1 DEF Moves, ShutMove

LEMMA ToldMoves ==
    ASSUME CallsInv, CallsInv', NEW c, NEW n, Told, Writers = {}, closed' = 2
    PROVE  Moves(c \o Behind, c \o Behind', n)
  <1>1. Behind' = Behind /\ HandedOver' = HandedOver /\ out' = out /\ got' = got
    BY ReadersTold DEF Told
  <1>. QED  BY <1>1 DEF Moves, ShutMove

(* A call ends: of a writer only if what is in the channel proper is all   *)
(* it may hold.                                                            *)
LEMMA EndMoves ==
    ASSUME CallsInv, CallsInv', NEW B, ElemsInv(B), NEW c \in Seq(Elem), NEW n, NEW p, NEW w,
           Ends(p, w), wq' = wq, Writers # {} => n \in Nat /\ Len(c) = n
    PROVE  Moves(c \o Behind, c \o Behind', n)
  <1>1. Behind \in Seq(Elem) /\ closed' = closed
    BY BehindParts DEF Ends
  <1>2. CASE /\ \E e \in HandedOver : HandedOver' = HandedOver \ {e} /\ got' = got \cup {e}
             /\ Behind' = Behind /\ out' = out
    BY <1>1, <1>2 DEF Moves, ArriveMove
  <1>3. CASE /\ \E d \in 1..Len(Behind) : /\ Behind' = Abstract!RemoveAt(Behind, d)
                                          /\ out' = out \cup {Behind[d]}
             /\ HandedOver' = HandedOver /\ got' = got /\ Writers # {}
    <2>1. PICK d \in 1..Len(Behind) : /\ Behind' = Abstract!RemoveAt(Behind, d)
                                      /\ out' = out \cup {Behind[d]}
      BY <1>3
    <2>2. PICK i : i = Len(c) + d
      OBVIOUS
    <2>3. n \in Nat /\ Len(c) = n
      BY <1>3
    <2>4. /\ i \in 1..Len(c \o Behind) /\ (c \o Behind)[i] = Behind[d]
          /\ c \o Abstract!RemoveAt(Behind, d) = Abstract!RemoveAt(c \o Behind, i)
      <3>1. /\ Len(c) + d \in 1..Len(c \o Behind) /\ (c \o Behind)[Len(c) + d] = Behind[d]
            /\ c \o Abstract!RemoveAt(Behind, d) = Abstract!RemoveAt(c \o Behind, Len(c) + d)
        BY <1>1, JoinRemove
      <3>. QED  BY <2>2, <3>1
    <2>5. i > n /\ i \in DOMAIN (c \o Behind)
      <3>1. c \o Behind \in Seq(Elem)
        BY <1>1, ConcatProperties
      <3>. QED  BY <2>2, <2>3, <2>4, <3>1, LenProperties
    <2>6. GiveUpMove(c \o Behind, c \o Behind', n)
      BY <1>1, <1>3, <2>1, <2>3, <2>4, <2>5 DEF GiveUpMove
    <2>. QED  BY <2>6 DEF Moves
  <1>4. CASE Behind' = Behind /\ HandedOver' = HandedOver /\ out' = out /\ got' = got
    BY <1>1, <1>4 DEF Moves, ShutMove
  <1>. QED  BY <1>2, <1>3, <1>4, CallEnded
LEMMA QueueKept ==
    ASSUME NEW p,
           Proceed(p) \/ Expire(p) \/ (p \in Thread /\ SpuriousWakeup(p)) \/ CloseBegin(p)
    PROVE  wq' = wq
  BY DEF Proceed, Expire, AddReady, ClosePoll, WaitYield, ResumeReady, ThreadReturn, ThreadServed,
         ThreadAgain, ThreadTimedOut, TimeOut, DeadlinePasses, SpuriousWakeup, CloseBegin,
         EndServed, EndTimedOut

(* Who waits at the ring buffer, and how the line moves.                   *)
LEMMA RingWriters ==
    ASSUME CallsInv, RingOK, WaitsRing
    PROVE  /\ Writers \subseteq Unserved
           /\ Writers # {} => rx = wx /\ full
           /\ Unserved = {} => Writers = {}
  <1>1. \A w \in Writers : w \in Unserved /\ Kind(w) = "write"
    BY DEF Writers
  <1>2. cap \in Nat
    BY CapIs
  <1>3. \A w \in Writers : rx = wx /\ full
    BY <1>1, <1>2 DEF WaitsRing, RingOK
  <1>. QED  BY <1>1, <1>3

RingInv == CallsInv /\ RingOK /\ WaitsRing /\ RingElems

LEMMA RingKept ==
    ASSUME RingInv, OneEach, Next
    PROVE  RingInv' /\ Contents \in Seq(Elem) /\ ElemsInv(Stored) /\ cap \in Nat
  BY RingStep, ContentsParts, CapIs DEF RingInv, RingElems

LEMMA ReadBlockMoves ==
    ASSUME RingInv, RingInv', NEW p \in ReaderOf[cap], ReadBlock(p),
           Contents \in Seq(Elem), ElemsInv(Stored)
    PROVE  Moves(Contents \o Behind, Contents' \o Behind', cap)
  <1>1. CallsInv' /\ Unserved' = Unserved /\ \A w \in Waitx : Same(w)
    BY CallsIdle DEF ReadBlock, RingInv, CallsInv, CallsTypeOK
  <1>2. Unserved = {} /\ cap > 0 /\ ~ full /\ full' = FALSE /\ rx # wx
    BY RingWaiters DEF ReadBlock, RingInv, RingOK
  <1>3. /\ wq' = wq /\ out' = out /\ got' = got \cup {ring[rx]} /\ closed' = closed
        /\ ring' = [ring EXCEPT ![rx] = None] /\ rx' = Succ(rx) /\ cap' = cap /\ wx' = wx
    BY DEF ReadBlock
  <1>4. Contents # <<>> /\ Head(Contents) = ring[rx] /\ Contents' = Tail(Contents)
    BY <1>2, <1>3, ContentsTake DEF RingInv
  <1>5. PICK c, B : c = Contents /\ B = Stored
    OBVIOUS
  <1>6. Moves(c \o Behind, Tail(c) \o Behind', cap)
    BY <1>1, <1>3, <1>4, <1>5, TakeMoves DEF RingInv
  <1>. QED  BY <1>4, <1>5, <1>6

LEMMA ReadFullMoves ==
    ASSUME RingInv, RingInv', NEW p \in ReaderOf[cap], ReadFull(p),
           Contents \in Seq(Elem), ElemsInv(Stored)
    PROVE  Moves(Contents \o Behind, Contents' \o Behind', cap)
  <1>0. p \in Proc /\ pc[p] = "idle" /\ cap > 0 /\ full /\ full' = full /\ cap' = cap
    BY ReaderIs DEF ReadFull, RingInv
  <1>1. PICK i \in FirstLive : /\ ring' = [ring EXCEPT ![wx] = heap[wq[i]].buf]
                               /\ Claim(i, 1, None) /\ WakeOwner(p, wq[i])
    BY DEF ReadFull
  <1>2. /\ UNCHANGED <<timed, closed, mine, op, wakeups>> /\ out' = out
        /\ out' \subseteq Elem \cup {None} /\ got' = got \cup {ring[rx]}
        /\ rx' = Succ(rx) /\ wx' = Succ(wx)
    BY DEF ReadFull, RingInv, CallsInv, CallsTypeOK
  <1>3. CallsInv' /\ \E w \in Waitx : w = wq[i] /\ Serve(w, None)
    BY <1>0, <1>1, <1>2, ServeDoes DEF RingInv
  <1>4. PICK w \in Waitx : w = wq[i] /\ Serve(w, None)
    BY <1>3
  <1>5. w \in Unserved
    BY <1>3, <1>4, UnservedAfter DEF RingInv
  <1>6. Kind(w) = "write"
    BY <1>0, <1>5, RingWaiters DEF RingInv, RingElems, ElemsInv
  <1>7. heap[w].buf \in Elem \cup {None}
    BY DEF RingInv, CallsInv, CallsTypeOK, HeapTypeOK
  <1>8. PICK c, B, e : c = Contents /\ B = Stored /\ e = heap[w].buf
    OBVIOUS
  <1>9. c # <<>> /\ Head(c) = ring[rx] /\ Contents' = Append(Tail(c), e)
    BY <1>0, <1>1, <1>2, <1>4, <1>7, <1>8, ContentsTurn DEF RingInv
  <1>10. Moves(c \o Behind, Append(Tail(c), heap[w].buf) \o Behind', cap)
    BY <1>1, <1>2, <1>3, <1>4, <1>6, <1>8, <1>9, TurnMoves DEF RingInv
  <1>. QED  BY <1>8, <1>9, <1>10

LEMMA ReadLastMoves ==
    ASSUME RingInv, RingInv', NEW p \in ReaderOf[cap], ReadLast(p),
           Contents \in Seq(Elem), ElemsInv(Stored)
    PROVE  Moves(Contents \o Behind, Contents' \o Behind', cap)
  <1>0. /\ cap > 0 /\ full /\ full' = FALSE /\ cap' = cap /\ wx' = wx
        /\ out' = out /\ got' = got \cup {ring[rx]}
        /\ UNCHANGED <<timed, closed, mine, op, target, wakeups, pc>>
        /\ ring' = [ring EXCEPT ![rx] = None] /\ rx' = Succ(rx) /\ DropDead
    BY DEF ReadLast
  <1>1. CallsInv' /\ Unserved = {} /\ \A w \in Waitx : Same(w)
    BY <1>0, DropDoes DEF RingInv, CallsInv, CallsTypeOK
  <1>2. Writers = {}
    BY <1>1 DEF Writers
  <1>3. Contents # <<>> /\ Head(Contents) = ring[rx] /\ Contents' = Tail(Contents)
    BY <1>0, ContentsTake DEF RingInv
  <1>4. PICK c, B : c = Contents /\ B = Stored
    OBVIOUS
  <1>5. Moves(c \o Behind, Tail(c) \o Behind', cap)
    BY <1>0, <1>1, <1>2, <1>3, <1>4, TakeMoves DEF RingInv
  <1>. QED  BY <1>3, <1>4, <1>5

(* Without a buffer, and when the buffer is empty, nothing is in it.       *)
LEMMA ContentsEmpty ==
    ASSUME RingInv, UNCHANGED <<cap, ring, rx, wx, full>>, rx = wx, ~ full \/ cap = 0
    PROVE  Contents = <<>> /\ Contents' = <<>>
  BY ContentsParts, ContentsSame DEF RingInv, RingElems

LEMMA ReadDirectMoves ==
    ASSUME RingInv, RingInv', OneEach, NEW p \in ReaderOf[cap], ReadDirect(p), ElemsInv(Stored)
    PROVE  Moves(Contents \o Behind, Contents' \o Behind', cap)
  <1>0. p \in Proc /\ pc[p] = "idle" /\ cap = 0 /\ UNCHANGED <<cap, ring, rx, wx, full>>
    BY ReaderIs DEF ReadDirect, buffer, RingInv
  <1>1. PICK i \in FirstLive : /\ got' = got \cup {heap[wq[i]].buf}
                               /\ Claim(i, 1, None) /\ WakeOwner(p, wq[i])
    BY DEF ReadDirect
  <1>2. /\ UNCHANGED <<timed, closed, mine, op, wakeups>> /\ out' = out
        /\ out' \subseteq Elem \cup {None}
    BY DEF ReadDirect, RingInv, CallsInv, CallsTypeOK
  <1>3. CallsInv' /\ \E w \in Waitx : w = wq[i] /\ Serve(w, None)
    BY <1>0, <1>1, <1>2, ServeDoes DEF RingInv
  <1>4. PICK w \in Waitx : w = wq[i] /\ Serve(w, None)
    BY <1>3
  <1>5. w \in Unserved
    BY <1>3, <1>4, UnservedAfter DEF RingInv
  <1>6. Kind(w) = "write"
    BY <1>0, <1>5, OtherWaits DEF RingInv
  <1>7. Contents = <<>> /\ Contents' = <<>>
    BY <1>0, ContentsEmpty DEF RingInv, RingOK
  <1>8. PICK B : B = Stored
    OBVIOUS
  <1>9. Moves(<<>> \o Behind, <<>> \o Behind', cap)
    BY <1>1, <1>2, <1>3, <1>4, <1>6, <1>8, DirectMoves DEF RingInv
  <1>. QED  BY <1>7, <1>9

LEMMA ReadClosedMoves ==
    ASSUME RingInv, RingInv', NEW p \in ReaderOf[cap], ReadClosed(p)
    PROVE  Moves(Contents \o Behind, Contents' \o Behind', cap)
  <1>0. /\ UNCHANGED <<cap, ring, rx, wx, full>>
        /\ UNCHANGED <<timed, closed, mine, op, target, wakeups, pc, out, got>>
        /\ out' \subseteq Elem \cup {None}
    BY DEF ReadClosed, buffer, RingInv, CallsInv, CallsTypeOK
  <1>1. (wq' = wq \/ Writers = {}) /\ \A w \in Waitx : Same(w)
    <2>1. CASE cap = 0
      BY <1>0, <2>1, DropDoes DEF ReadClosed, RingInv, Writers
    <2>2. CASE cap # 0
      BY <1>0, <2>2, CallsIdle DEF ReadClosed, RingInv
    <2>. QED  BY <2>1, <2>2
  <1>2. Contents' = Contents
    BY <1>0, ContentsSame
  <1>3. PICK c : c = Contents
    OBVIOUS
  <1>4. Moves(c \o Behind, c \o Behind', cap)
    BY <1>0, <1>1, StillMoves DEF RingInv
  <1>. QED  BY <1>2, <1>3, <1>4
LEMMA Buffered ==
    ASSUME cap \in Nat, cap = 0 => FirstLive = {}
    PROVE  \E keep \in BOOLEAN : keep = (cap > 0) /\ (keep \/ FirstLive = {})
  <1>1. CASE cap > 0
    <2>1. TRUE = (cap > 0)
      BY <1>1
    <2>. QED  BY <2>1
  <1>2. CASE ~ (cap > 0)
    <2>1. FALSE = (cap > 0) /\ FirstLive = {}
      BY <1>2
    <2>. QED  BY <2>1
  <1>. QED  BY <1>1, <1>2

LEMMA ReadWaitMoves ==
    ASSUME RingInv, RingInv', NEW p \in ReaderOf[cap], ReadWait(p)
    PROVE  Moves(Contents \o Behind, Contents' \o Behind', cap)
  <1>0. /\ p \in Proc /\ pc[p] = "idle" /\ Enqueue(p, "read", None, cap > 0)
        /\ UNCHANGED <<cap, ring, rx, wx, full>> /\ out' = out /\ out' \subseteq Elem \cup {None}
        /\ cap = 0 => FirstLive = {}
        /\ cap > 0 => full = FALSE
        /\ cap \in Nat
    BY CapIs, ReaderIs
       DEF ReadWait, NothingToRead, buffer, RingInv, RingOK, CallsInv, CallsTypeOK
  <1>1. PICK keep \in BOOLEAN : keep = (cap > 0) /\ (keep \/ FirstLive = {})
    BY <1>0, Buffered
  <1>2. keep \/ FirstLive = {}
    BY <1>1
  <1>3. Enqueue(p, "read", None, keep)
    BY <1>0, <1>1, Zenon
  <1>4. PICK x \in Waitx : Begins(p, "read", None, x)
    BY <1>0, <1>2, <1>3, EnqueueDoes DEF RingInv
  <1>5. Writers = {}
    BY <1>0, RingWriters, NobodyLive DEF RingInv
  <1>6. Contents' = Contents
    BY <1>0, ContentsSame
  <1>7. PICK c : c = Contents
    OBVIOUS
  <1>8. Moves(c \o Behind, c \o Behind', cap)
    BY <1>0, <1>4, <1>5, ReaderMoves DEF RingInv
  <1>. QED  BY <1>6, <1>7, <1>8

LEMMA WriteWaitMoves ==
    ASSUME RingInv, RingInv', NEW p \in WriterOf[cap], NEW e \in First(out), WriteWait(p, e),
           Contents \in Seq(Elem), ElemsInv(Stored)
    PROVE  Moves(Contents \o Behind, Contents' \o Behind', cap)
  <1>0. /\ p \in Proc /\ pc[p] = "idle" /\ closed = 0 /\ Enqueue(p, "write", e, cap > 0)
        /\ UNCHANGED <<cap, ring, rx, wx, full>> /\ out' = out \ {e} /\ out' \subseteq Elem \cup {None}
        /\ cap = 0 => FirstLive = {}
        /\ e \in out /\ e \in Elem \cup {None}
        /\ cap \in Nat
    BY CapIs, ReaderIs DEF WriteWait, buffer, RingInv, First, CallsInv, CallsTypeOK
  <1>1. PICK keep \in BOOLEAN : keep = (cap > 0) /\ (keep \/ FirstLive = {})
    BY <1>0, Buffered
  <1>2. keep \/ FirstLive = {}
    BY <1>1
  <1>3. Enqueue(p, "write", e, keep)
    BY <1>0, <1>1, Zenon
  <1>4. PICK x \in Waitx : Begins(p, "write", e, x)
    BY <1>0, <1>2, <1>3, EnqueueDoes DEF RingInv
  <1>5. keep \/ Writers = {}
    BY <1>2, RingWriters, NobodyLive DEF RingInv
  <1>6. Contents' = Contents
    BY <1>0, ContentsSame
  <1>7. PICK c, B : c = Contents /\ B = Stored
    OBVIOUS
  <1>8. Moves(c \o Behind, c \o Behind', cap)
    BY <1>0, <1>3, <1>4, <1>5, <1>7, WriterMoves DEF RingInv
  <1>. QED  BY <1>6, <1>7, <1>8

LEMMA PutOneMoves ==
    ASSUME RingInv, RingInv', cap > 0, rx # wx \/ ~ full,
           NEW e \in out, PutBlock(e), full' = (Succ(wx) = rx), closed = 0, closed' = closed,
           \A w \in Waitx : Same(w), Writers = {}, got' = got,
           Contents \in Seq(Elem), ElemsInv(Stored)
    PROVE  Moves(Contents \o Behind, Contents' \o Behind', cap)
  <1>1. e \in Elem \cup {None}
    BY DEF RingInv, CallsInv, CallsTypeOK
  <1>2. Contents' = Append(Contents, e) /\ out' = out \ {e}
    BY <1>1, ContentsPut DEF PutBlock, RingInv
  <1>3. PICK c, B : c = Contents /\ B = Stored
    OBVIOUS
  <1>4. Moves(c \o Behind, Append(c, e) \o Behind', cap)
    BY <1>2, <1>3, PutMoves DEF RingInv
  <1>. QED  BY <1>2, <1>3, <1>4

LEMMA WriteBlockMoves ==
    ASSUME RingInv, RingInv', NEW p \in WriterOf[cap], NEW e \in First(out), WriteBlock(p, e),
           Contents \in Seq(Elem), ElemsInv(Stored)
    PROVE  Moves(Contents \o Behind, Contents' \o Behind', cap)
  <1>1. /\ e \in out /\ got' = got /\ PutBlock(e) /\ rx # wx /\ closed = 0
        /\ UNCHANGED <<timed, closed, wq, heap, mine, op, target, wakeups, pc>>
        /\ out' \subseteq Elem \cup {None}
    BY DEF WriteBlock, First, PutBlock, RingInv, CallsInv, CallsTypeOK
  <1>2. \A w \in Waitx : Same(w)
    BY <1>1, CallsIdle DEF RingInv
  <1>3. Writers = {} /\ cap > 0 /\ full' = (Succ(wx) = rx)
    BY <1>1, RingWriters, RingWaiters DEF WriteBlock, RingInv, RingOK
  <1>. QED  BY <1>1, <1>2, <1>3, PutOneMoves

LEMMA WriteFirstMoves ==
    ASSUME RingInv, RingInv', NEW p \in WriterOf[cap], NEW e \in First(out), WriteFirst(p, e),
           Contents \in Seq(Elem), ElemsInv(Stored)
    PROVE  Moves(Contents \o Behind, Contents' \o Behind', cap)
  <1>1. /\ e \in out /\ got' = got /\ PutBlock(e) /\ cap > 0 /\ ~ full /\ closed = 0
        /\ DropDead /\ full' = (Succ(wx) = rx)
        /\ UNCHANGED <<timed, closed, mine, op, target, wakeups, pc>>
        /\ out' \subseteq Elem \cup {None}
    BY DEF WriteFirst, First, PutBlock, RingInv, CallsInv, CallsTypeOK
  <1>2. Unserved = {} /\ \A w \in Waitx : Same(w)
    BY <1>1, DropDoes DEF RingInv
  <1>3. Writers = {}
    BY <1>2 DEF Writers
  <1>. QED  BY <1>1, <1>2, <1>3, PutOneMoves

LEMMA WriteDirectMoves ==
    ASSUME RingInv, RingInv', OneEach, NEW p \in WriterOf[cap], NEW e \in First(out), WriteDirect(p, e),
           ElemsInv(Stored)
    PROVE  Moves(Contents \o Behind, Contents' \o Behind', cap)
  <1>0. /\ p \in Proc /\ pc[p] = "idle" /\ UNCHANGED <<cap, ring, rx, wx, full>>
        /\ e \in out /\ rx = wx /\ (cap = 0 \/ ~ full) /\ out' = out \ {e} /\ got' = got
        /\ UNCHANGED <<timed, closed, mine, op, wakeups>> /\ closed = 0
    BY ReaderIs DEF WriteDirect, buffer, First, RingInv
  <1>1. PICK i \in FirstLive : Claim(i, 1, e) /\ WakeOwner(p, wq[i])
    BY DEF WriteDirect
  <1>2. out' \subseteq Elem \cup {None} /\ e \in Elem \cup {None}
    BY <1>0 DEF RingInv, CallsInv, CallsTypeOK
  <1>3. CallsInv' /\ \E w \in Waitx : w = wq[i] /\ Serve(w, e)
    BY <1>0, <1>1, <1>2, ServeDoes DEF RingInv
  <1>4. PICK w \in Waitx : w = wq[i] /\ Serve(w, e)
    BY <1>3
  <1>5. w \in Unserved
    BY <1>3, <1>4, UnservedAfter DEF RingInv
  <1>6. Kind(w) = "read"
    BY <1>0, <1>5, OtherWaits, RingWaiters DEF RingInv
  <1>7. Writers = {}
    <2>1. CASE ~ full
      BY <2>1, RingWriters DEF RingInv
    <2>2. CASE cap = 0
      <3>1. \A v \in Writers : v \in Unserved /\ Kind(v) = "write"
        BY DEF Writers
      <3>2. \A v \in Unserved : Kind(v) = "read"
        BY <1>0, <2>2, OtherWaits DEF RingInv
      <3>. QED  BY <3>1, <3>2
    <2>. QED  BY <1>0, <2>1, <2>2
  <1>8. Contents = <<>> /\ Contents' = <<>>
    BY <1>0, ContentsEmpty
  <1>9. Moves(<<>> \o Behind, <<>> \o Behind', cap)
    BY <1>0, <1>3, <1>4, <1>6, <1>7, PassMoves DEF RingInv
  <1>. QED  BY <1>8, <1>9

LEMMA CloseMoves ==
    ASSUME RingInv, RingInv', NEW p \in Proc, Close(p)
    PROVE  Moves(Contents \o Behind, Contents' \o Behind', cap)
  <1>0. UNCHANGED <<cap, ring, rx, wx, full>>
    BY DEF Close, buffer
  <1>1. PICK empty \in BOOLEAN : empty = (rx = wx /\ ~ full)
    OBVIOUS
  <1>2. CloseLocked(p, empty)
    BY <1>1 DEF Close
  <1>3. closed' = 2 /\ IF empty THEN Told /\ Unserved' = {} ELSE Quiet
    BY <1>2, CloseDoes DEF RingInv
  <1>4. Contents' = Contents
    BY <1>0, ContentsSame
  <1>5. PICK c : c = Contents
    OBVIOUS
  <1>6. Moves(c \o Behind, c \o Behind', cap)
    <2>1. CASE empty
      <3>1. Writers = {}
        BY <1>1, <2>1, RingWriters DEF RingInv
      <3>. QED  BY <1>3, <2>1, <3>1, ToldMoves DEF RingInv
    <2>2. CASE ~ empty
      <3>1. wq' = wq
        BY <1>2, <2>2 DEF CloseLocked
      <3>. QED  BY <1>3, <2>2, <3>1, StillMoves DEF RingInv, Quiet
    <2>. QED  BY <2>1, <2>2
  <1>. QED  BY <1>4, <1>5, <1>6

LEMMA ProceedMoves ==
    ASSUME RingInv, RingInv', NEW p \in Proc, UNCHANGED buffer,
           Proceed(p) \/ Expire(p) \/ (p \in Thread /\ SpuriousWakeup(p)) \/ CloseBegin(p),
           Contents \in Seq(Elem), ElemsInv(Stored), cap \in Nat
    PROVE  Moves(Contents \o Behind, Contents' \o Behind', cap)
  <1>0. UNCHANGED <<cap, ring, rx, wx, full>>
    BY DEF buffer
  <1>1. \/ Quiet /\ (closed' = closed \/ (closed' = 1 /\ closed # 2))
        \/ \E w \in Waitx : Ends(p, w)
    BY ProceedDoes DEF RingInv
  <1>2. wq' = wq
    BY QueueKept
  <1>3. Contents' = Contents
    BY <1>0, ContentsSame
  <1>4. Writers # {} => Len(Contents) = cap
    BY RingWriters, ContentsParts DEF RingInv, RingElems
  <1>5. PICK c, B : c = Contents /\ B = Stored
    OBVIOUS
  <1>6. CASE Quiet /\ (closed' = closed \/ (closed' = 1 /\ closed # 2))
    <2>1. closed' = closed \/ closed' # 0
      BY <1>6
    <2>2. Moves(c \o Behind, c \o Behind', cap)
      BY <1>2, <1>6, <2>1, StillMoves DEF RingInv, Quiet
    <2>. QED  BY <1>3, <1>5, <2>2
  <1>7. CASE \E w \in Waitx : Ends(p, w)
    <2>1. PICK w \in Waitx : Ends(p, w)
      BY <1>7
    <2>2. Moves(c \o Behind, c \o Behind', cap)
      BY <1>2, <1>4, <1>5, <2>1, EndMoves DEF RingInv
    <2>. QED  BY <1>3, <1>5, <2>2
  <1>. QED  BY <1>1, <1>6, <1>7

LEMMA RingMoves ==
    ASSUME RingInv, OneEach, Next
    PROVE  cap' = cap /\ Moves(Contents \o Behind, Contents' \o Behind', cap)
  <1>0. RingInv' /\ Contents \in Seq(Elem) /\ ElemsInv(Stored) /\ cap \in Nat
    BY RingKept
  <1>1. ASSUME NEW p \in ReaderOf[cap], Read(p)
        PROVE  cap' = cap /\ Moves(Contents \o Behind, Contents' \o Behind', cap)
    <2>1. cap' = cap
      BY <1>1 DEF Read, ReadBlock, ReadFull, ReadLast, ReadDirect, ReadClosed, ReadWait, buffer
    <2>. QED  BY <1>0, <1>1, <2>1, ReadBlockMoves, ReadFullMoves, ReadLastMoves, ReadDirectMoves,
                 ReadClosedMoves, ReadWaitMoves DEF Read
  <1>2. ASSUME NEW p \in WriterOf[cap], NEW e \in First(out), Write(p, e)
        PROVE  cap' = cap /\ Moves(Contents \o Behind, Contents' \o Behind', cap)
    <2>1. cap' = cap
      BY <1>2 DEF Write, WriteBlock, WriteDirect, WriteFirst, WriteWait, PutBlock, buffer
    <2>. QED  BY <1>0, <1>2, <2>1, WriteBlockMoves, WriteDirectMoves, WriteFirstMoves, WriteWaitMoves
              DEF Write
  <1>3. ASSUME NEW p \in Proc, Close(p)
        PROVE  cap' = cap /\ Moves(Contents \o Behind, Contents' \o Behind', cap)
    BY <1>0, <1>3, CloseMoves DEF Close, buffer
  <1>4. ASSUME NEW p \in Proc, UNCHANGED buffer,
               Proceed(p) \/ Expire(p) \/ (p \in Thread /\ SpuriousWakeup(p)) \/ CloseBegin(p)
        PROVE  cap' = cap /\ Moves(Contents \o Behind, Contents' \o Behind', cap)
    BY <1>0, <1>4, ProceedMoves DEF buffer
  <1>5. Thread \subseteq Proc /\ ReaderOf[cap] \subseteq Proc /\ WriterOf[cap] \subseteq Proc
    BY ReaderIs DEF Proc, RingInv
  <1>. QED  BY <1>1, <1>2, <1>3, <1>4, <1>5 DEF Next
(* The same for the list.                                                  *)
LEMMA ListWriters ==
    ASSUME CallsInv, ListOK, WaitsList
    PROVE  /\ Writers \subseteq Unserved
           /\ Writers # {} => OnList!full
           /\ OnList!empty => Writers = {}
           /\ Unserved = {} => Writers = {}
  <1>1. \A w \in Writers : w \in Unserved /\ Kind(w) = "write"
    BY DEF Writers
  <1>2. \A w \in Writers : OnList!full /\ ~ OnList!empty
    BY <1>1, ListIs DEF WaitsList
  <1>. QED  BY <1>1, <1>2

ListInv == CallsInv /\ ListOK /\ WaitsList /\ ListElems

LEMMA ListKept ==
    ASSUME ListInv, OnList!Next
    PROVE  ListInv' /\ list \in Seq(Elem) /\ ElemsInv(Range(list))
  <1>1. ListInv' /\ ElemsInv(Range(list)) /\ list \in Seq(Elem \cup {None})
    BY ListStep DEF ListInv, ListElems, ListOK
  <1>2. \A i \in 1..Len(list) : list[i] \in Elem
    BY <1>1, LenProperties DEF ElemsInv, EachOnce, Range
  <1>3. list \in [1..Len(list) -> Elem] /\ Len(list) \in Nat
    BY <1>1, <1>2, LenProperties
  <1>. QED  BY <1>1, <1>3, FunctionIsSeq

LEMMA ListReadSomeMoves ==
    ASSUME ListInv, ListInv', NEW p \in Proc, OnList!ReadSome(p),
           list \in Seq(Elem), ElemsInv(Range(list))
    PROVE  Moves(list \o Behind, list' \o Behind', OnList!Limit)
  <1>1. /\ ~ OnList!empty /\ ~ OnList!full /\ list # <<>>
        /\ list' = Tail(list) /\ got' = got \cup {Head(list)}
        /\ UNCHANGED <<timed, closed, wq, heap, mine, op, out, target, wakeups, pc>>
        /\ out' \subseteq Elem \cup {None}
    BY ListIs DEF OnList!ReadSome, OnList!TakeFirst, ListInv, CallsInv, CallsTypeOK
  <1>2. \A w \in Waitx : Same(w)
    BY <1>1, CallsIdle DEF ListInv
  <1>3. PICK c, B, n : c = list /\ B = Range(list) /\ n = OnList!Limit
    OBVIOUS
  <1>4. Moves(c \o Behind, Tail(c) \o Behind', n)
    BY <1>1, <1>2, <1>3, TakeMoves DEF ListInv
  <1>. QED  BY <1>1, <1>3, <1>4

LEMMA ListReadLastMoves ==
    ASSUME ListInv, ListInv', NEW p \in Proc, OnList!ReadLast(p),
           list \in Seq(Elem), ElemsInv(Range(list))
    PROVE  Moves(list \o Behind, list' \o Behind', OnList!Limit)
  <1>1. /\ OnList!full /\ list # <<>> /\ DropDead
        /\ list' = Tail(list) /\ got' = got \cup {Head(list)}
        /\ UNCHANGED <<timed, closed, mine, op, out, target, wakeups, pc>>
        /\ out' \subseteq Elem \cup {None}
    BY ListIs, OnListSame DEF OnList!ReadLast, OnList!TakeFirst, ListInv, CallsInv, CallsTypeOK
  <1>2. Unserved = {} /\ \A w \in Waitx : Same(w)
    BY <1>1, DropDoes DEF ListInv
  <1>3. Writers = {}
    BY <1>2 DEF Writers
  <1>4. PICK c, B, n : c = list /\ B = Range(list) /\ n = OnList!Limit
    OBVIOUS
  <1>5. Moves(c \o Behind, Tail(c) \o Behind', n)
    BY <1>1, <1>2, <1>3, <1>4, TakeMoves DEF ListInv
  <1>. QED  BY <1>1, <1>4, <1>5

LEMMA ListReadFullMoves ==
    ASSUME ListInv, ListInv', NEW p \in Proc, OnList!ReadFull(p),
           list \in Seq(Elem), ElemsInv(Range(list))
    PROVE  Moves(list \o Behind, list' \o Behind', OnList!Limit)
  <1>0. /\ pc[p] = "idle" /\ OnList!full /\ list # <<>>
        /\ UNCHANGED <<timed, closed, mine, op, wakeups>> /\ out' = out
        /\ out' \subseteq Elem \cup {None} /\ got' = got \cup {Head(list)}
    BY ListIs DEF OnList!ReadFull, ListInv, CallsInv, CallsTypeOK
  <1>1. PICK i \in FirstLive : /\ list' = Append(Tail(list), heap[wq[i]].buf)
                               /\ Claim(i, 1, None) /\ WakeOwner(p, wq[i])
    BY OnListSame DEF OnList!ReadFull
  <1>3. CallsInv' /\ \E w \in Waitx : w = wq[i] /\ Serve(w, None)
    BY <1>0, <1>1, ServeDoes DEF ListInv
  <1>4. PICK w \in Waitx : w = wq[i] /\ Serve(w, None)
    BY <1>3
  <1>5. w \in Unserved
    BY <1>3, <1>4, UnservedAfter DEF ListInv
  <1>6. Kind(w) = "write"
    <2>1. w \in Waitx /\ InCall(w)
      BY <1>5, UnservedIs DEF ListInv
    <2>2. Kind(w) # "read"
      BY <1>0, <1>5, ListWaiters DEF ListInv
    <2>. QED  BY <2>1, <2>2 DEF ListInv, ListElems, ElemsInv, KindsRight
  <1>7. PICK c, B, n : c = list /\ B = Range(list) /\ n = OnList!Limit
    OBVIOUS
  <1>8. Moves(c \o Behind, Append(Tail(c), heap[w].buf) \o Behind', n)
    BY <1>0, <1>1, <1>3, <1>4, <1>6, <1>7, TurnMoves DEF ListInv
  <1>. QED  BY <1>1, <1>4, <1>7, <1>8

LEMMA ListReadWaitMoves ==
    ASSUME ListInv, ListInv', NEW p \in Proc, OnList!ReadWait(p)
    PROVE  Moves(list \o Behind, list' \o Behind', OnList!Limit)
  <1>0. /\ pc[p] = "idle" /\ OnList!empty /\ Enqueue(p, "read", None, TRUE)
        /\ list' = list /\ out' = out /\ out' \subseteq Elem \cup {None}
    BY OnListSame DEF OnList!ReadWait, OnList!buffer, ListInv, CallsInv, CallsTypeOK
  <1>1. PICK x \in Waitx : Begins(p, "read", None, x)
    BY <1>0, EnqueueDoes DEF ListInv
  <1>2. Writers = {}
    BY <1>0, ListWriters DEF ListInv
  <1>3. PICK c, n : c = list /\ n = OnList!Limit
    OBVIOUS
  <1>4. Moves(c \o Behind, c \o Behind', n)
    BY <1>0, <1>1, <1>2, ReaderMoves DEF ListInv
  <1>. QED  BY <1>0, <1>3, <1>4

LEMMA ListWriteWaitMoves ==
    ASSUME ListInv, ListInv', NEW p \in Proc, NEW e \in First(out), OnList!WriteWait(p, e),
           list \in Seq(Elem), ElemsInv(Range(list))
    PROVE  Moves(list \o Behind, list' \o Behind', OnList!Limit)
  <1>0. /\ pc[p] = "idle" /\ closed = 0 /\ Enqueue(p, "write", e, TRUE)
        /\ list' = list /\ out' = out \ {e} /\ out' \subseteq Elem \cup {None}
        /\ e \in out /\ e \in Elem \cup {None}
    BY OnListSame DEF OnList!WriteWait, OnList!buffer, First, ListInv, CallsInv, CallsTypeOK
  <1>1. PICK x \in Waitx : Begins(p, "write", e, x)
    BY <1>0, EnqueueDoes DEF ListInv
  <1>2. PICK c, B, n : c = list /\ B = Range(list) /\ n = OnList!Limit
    OBVIOUS
  <1>3. Moves(c \o Behind, c \o Behind', n)
    BY <1>0, <1>1, <1>2, WriterMoves DEF ListInv
  <1>. QED  BY <1>0, <1>2, <1>3

LEMMA ListWriteSomeMoves ==
    ASSUME ListInv, ListInv', NEW p \in Proc, NEW e \in First(out), OnList!WriteSome(p, e),
           list \in Seq(Elem), ElemsInv(Range(list))
    PROVE  Moves(list \o Behind, list' \o Behind', OnList!Limit)
  <1>1. /\ ~ OnList!full /\ closed = 0
        /\ list' = Append(list, e) /\ got' = got /\ out' = out \ {e}
        /\ UNCHANGED <<timed, closed, wq, heap, mine, op, target, wakeups, pc>>
        /\ e \in out /\ out' \subseteq Elem \cup {None}
    BY DEF OnList!WriteSome, OnList!PutLast, First, ListInv, CallsInv, CallsTypeOK
  <1>2. \A w \in Waitx : Same(w)
    BY <1>1, CallsIdle DEF ListInv
  <1>3. Writers = {}
    BY <1>1, ListWriters DEF ListInv
  <1>4. PICK c, B, n : c = list /\ B = Range(list) /\ n = OnList!Limit
    OBVIOUS
  <1>5. Moves(c \o Behind, Append(c, e) \o Behind', n)
    BY <1>1, <1>2, <1>3, <1>4, PutMoves DEF ListInv
  <1>. QED  BY <1>1, <1>4, <1>5

LEMMA ListWriteFirstMoves ==
    ASSUME ListInv, ListInv', NEW p \in Proc, NEW e \in First(out), OnList!WriteFirst(p, e),
           list \in Seq(Elem), ElemsInv(Range(list))
    PROVE  Moves(list \o Behind, list' \o Behind', OnList!Limit)
  <1>1. /\ DropDead /\ closed = 0
        /\ list' = Append(list, e) /\ got' = got /\ out' = out \ {e}
        /\ UNCHANGED <<timed, closed, mine, op, target, wakeups, pc>>
        /\ e \in out /\ out' \subseteq Elem \cup {None}
    BY OnListSame DEF OnList!WriteFirst, OnList!PutLast, First, ListInv, CallsInv, CallsTypeOK
  <1>2. Unserved = {} /\ \A w \in Waitx : Same(w)
    BY <1>1, DropDoes DEF ListInv
  <1>3. Writers = {}
    BY <1>2 DEF Writers
  <1>4. PICK c, B, n : c = list /\ B = Range(list) /\ n = OnList!Limit
    OBVIOUS
  <1>5. Moves(c \o Behind, Append(c, e) \o Behind', n)
    BY <1>1, <1>2, <1>3, <1>4, PutMoves DEF ListInv
  <1>. QED  BY <1>1, <1>4, <1>5

LEMMA ListWriteDirectMoves ==
    ASSUME ListInv, ListInv', NEW p \in Proc, NEW e \in First(out), OnList!WriteDirect(p, e)
    PROVE  Moves(list \o Behind, list' \o Behind', OnList!Limit)
  <1>0. /\ pc[p] = "idle" /\ OnList!empty /\ list' = list /\ list = <<>> /\ closed = 0
        /\ e \in out /\ out' = out \ {e} /\ got' = got
        /\ UNCHANGED <<timed, closed, mine, op, wakeups>>
    BY ListIs DEF OnList!WriteDirect, OnList!buffer, First, ListInv
  <1>1. PICK i \in FirstLive : Claim(i, 1, e) /\ WakeOwner(p, wq[i])
    BY OnListSame DEF OnList!WriteDirect
  <1>2. out' \subseteq Elem \cup {None} /\ e \in Elem \cup {None}
    BY <1>0 DEF ListInv, CallsInv, CallsTypeOK
  <1>3. CallsInv' /\ \E w \in Waitx : w = wq[i] /\ Serve(w, e)
    BY <1>0, <1>1, <1>2, ServeDoes DEF ListInv
  <1>4. PICK w \in Waitx : w = wq[i] /\ Serve(w, e)
    BY <1>3
  <1>5. w \in Unserved
    BY <1>3, <1>4, UnservedAfter DEF ListInv
  <1>6. Kind(w) = "read" /\ Writers = {}
    BY <1>0, <1>5, ListWaiters, ListWriters DEF ListInv
  <1>7. PICK n : n = OnList!Limit
    OBVIOUS
  <1>8. Moves(<<>> \o Behind, <<>> \o Behind', n)
    BY <1>0, <1>3, <1>4, <1>6, PassMoves DEF ListInv
  <1>. QED  BY <1>0, <1>7, <1>8

LEMMA ListCloseMoves ==
    ASSUME ListInv, ListInv', NEW p \in Proc, OnList!Close(p)
    PROVE  Moves(list \o Behind, list' \o Behind', OnList!Limit)
  <1>0. list' = list
    BY DEF OnList!Close, OnList!buffer
  <1>1. PICK empty \in BOOLEAN : empty = OnList!empty
    BY DEF OnList!empty
  <1>2. CloseLocked(p, empty)
    BY <1>1, OnListSame DEF OnList!Close
  <1>3. closed' = 2 /\ IF empty THEN Told /\ Unserved' = {} ELSE Quiet
    BY <1>2, CloseDoes DEF ListInv
  <1>4. PICK c, n : c = list /\ n = OnList!Limit
    OBVIOUS
  <1>5. Moves(c \o Behind, c \o Behind', n)
    <2>1. CASE empty
      <3>1. Writers = {}
        BY <1>1, <2>1, ListWriters DEF ListInv
      <3>. QED  BY <1>3, <2>1, <3>1, ToldMoves DEF ListInv
    <2>2. CASE ~ empty
      <3>1. wq' = wq
        BY <1>2, <2>2 DEF CloseLocked
      <3>. QED  BY <1>3, <2>2, <3>1, StillMoves DEF ListInv, Quiet
    <2>. QED  BY <2>1, <2>2
  <1>. QED  BY <1>0, <1>4, <1>5

LEMMA ListProceedMoves ==
    ASSUME ListInv, ListInv', NEW p \in Proc, UNCHANGED <<cap, list, size>>, cap \in Nat,
           Proceed(p) \/ Expire(p) \/ (p \in Thread /\ SpuriousWakeup(p)) \/ CloseBegin(p),
           list \in Seq(Elem), ElemsInv(Range(list))
    PROVE  Moves(list \o Behind, list' \o Behind', OnList!Limit)
  <1>1. \/ Quiet /\ (closed' = closed \/ (closed' = 1 /\ closed # 2))
        \/ \E w \in Waitx : Ends(p, w)
    BY ProceedDoes DEF ListInv
  <1>2. wq' = wq
    BY QueueKept
  <1>3. PICK c, B, n : c = list /\ B = Range(list) /\ n = OnList!Limit
    OBVIOUS
  <1>4. Writers # {} => n \in Nat /\ Len(c) = n
    BY <1>3, ListWriters DEF ListInv, ListOK, OnList!full, OnList!Limit
  <1>5. CASE Quiet /\ (closed' = closed \/ (closed' = 1 /\ closed # 2))
    <2>1. closed' = closed \/ closed' # 0
      BY <1>5
    <2>2. Moves(c \o Behind, c \o Behind', n)
      BY <1>2, <1>5, <2>1, StillMoves DEF ListInv, Quiet
    <2>. QED  BY <1>3, <2>2
  <1>6. CASE \E w \in Waitx : Ends(p, w)
    <2>1. PICK w \in Waitx : Ends(p, w)
      BY <1>6
    <2>2. Moves(c \o Behind, c \o Behind', n)
      BY <1>2, <1>3, <1>4, <2>1, EndMoves DEF ListInv
    <2>. QED  BY <1>3, <2>2
  <1>. QED  BY <1>1, <1>5, <1>6

LEMMA ListMoves ==
    ASSUME ListInv, OnList!Next, cap \in Nat
    PROVE  cap' = cap /\ Moves(list \o Behind, list' \o Behind', OnList!Limit)
  <1>0. ListInv' /\ list \in Seq(Elem) /\ ElemsInv(Range(list))
    BY ListKept
  <1>1. ASSUME NEW p \in Proc, OnList!Read(p)
        PROVE  cap' = cap /\ Moves(list \o Behind, list' \o Behind', OnList!Limit)
    <2>1. cap' = cap
      BY <1>1 DEF OnList!Read, OnList!ReadSome, OnList!ReadFull, OnList!ReadLast, OnList!ReadWait,
                  OnList!TakeFirst, OnList!buffer
    <2>. QED  BY <1>0, <1>1, <2>1, ListReadSomeMoves, ListReadFullMoves, ListReadLastMoves,
                 ListReadWaitMoves DEF OnList!Read
  <1>2. ASSUME NEW p \in Proc, NEW e \in First(out), OnList!Write(p, e)
        PROVE  cap' = cap /\ Moves(list \o Behind, list' \o Behind', OnList!Limit)
    <2>1. cap' = cap
      BY <1>2 DEF OnList!Write, OnList!WriteSome, OnList!WriteDirect, OnList!WriteFirst,
                  OnList!WriteWait, OnList!PutLast, OnList!buffer
    <2>. QED  BY <1>0, <1>2, <2>1, ListWriteSomeMoves, ListWriteDirectMoves, ListWriteFirstMoves,
                 ListWriteWaitMoves DEF OnList!Write
  <1>3. ASSUME NEW p \in Proc, OnList!Close(p)
        PROVE  cap' = cap /\ Moves(list \o Behind, list' \o Behind', OnList!Limit)
    BY <1>0, <1>3, ListCloseMoves DEF OnList!Close, OnList!buffer
  <1>4. ASSUME NEW p \in Proc, UNCHANGED <<cap, list, size>>,
               Proceed(p) \/ Expire(p) \/ (p \in Thread /\ SpuriousWakeup(p)) \/ CloseBegin(p)
        PROVE  cap' = cap /\ Moves(list \o Behind, list' \o Behind', OnList!Limit)
    BY <1>0, <1>4, ListProceedMoves
  <1>5. Thread \subseteq Proc
    BY DEF Proc
  <1>6. \/ \E p \in Proc : OnList!Read(p)
        \/ \E p \in Proc : \E e \in First(out) : OnList!Write(p, e)
        \/ \E p \in Proc : OnList!Close(p)
        \/ \E p \in Proc : /\ UNCHANGED <<cap, list, size>>
                           /\ Proceed(p) \/ Expire(p) \/ (p \in Thread /\ SpuriousWakeup(p)) \/ CloseBegin(p)
    BY <1>5, OnListSame DEF OnList!Next, OnList!Waited, OnList!buffer
  <1>. QED  BY <1>1, <1>2, <1>3, <1>4, <1>6
LEMMA BehindOnList == OnList!Behind = Behind /\ OnList!Behind' = Behind'
  <1>1. ASSUME NEW P PROVE OnList!InOrder(P) = InOrder(P)
    BY DEF OnList!InOrder, InOrder, OnList!Cardinality, Cardinality
  <1>2. PICK P : P = {i \in DOMAIN wq : heap[wq[i]].state = "wait" /\ op[heap[wq[i]].who] = "write"}
    OBVIOUS
  <1>3. OnList!Behind = Behind
    BY <1>1, <1>2 DEF OnList!Behind, Behind
  <1>4. PICK Q : Q = {i \in DOMAIN wq' : heap'[wq'[i]].state = "wait" /\ op'[heap'[wq'[i]].who] = "write"}
    OBVIOUS
  <1>5. OnList!Behind' = Behind'
    BY <1>1, <1>4 DEF OnList!Behind, Behind
  <1>. QED  BY <1>3, <1>5

(* The line and the limit of the channel, whichever of the two it is.      *)
TheLine == IF part = "ring" THEN Line ELSE OnList!Line
TheLimit == IF part = "ring" THEN cap ELSE OnList!Limit

LEMMA MovesAreSteps ==
    ASSUME Moves(TheLine, TheLine', TheLimit), TheLimit' = TheLimit
    PROVE  [Abstract!Next]_(Abstract!chanVars)
  <1>1. CASE PutMove(TheLine, TheLine')
    BY <1>1 DEF PutMove, TheLine, TheLimit, HandedOver, Abstract!Next, Abstract!Put
  <1>2. CASE PassMove(TheLine, TheLine')
    BY <1>2 DEF PassMove, TheLine, TheLimit, HandedOver, Abstract!Next, Abstract!Pass
  <1>3. CASE TakeMove(TheLine, TheLine')
    BY <1>3 DEF TakeMove, TheLine, TheLimit, HandedOver, Abstract!Next, Abstract!Take
  <1>4. CASE ArriveMove(TheLine, TheLine')
    BY <1>4 DEF ArriveMove, TheLine, TheLimit, HandedOver, Abstract!Next, Abstract!Arrive
  <1>5. CASE GiveUpMove(TheLine, TheLine', TheLimit)
    BY <1>5 DEF GiveUpMove, TheLine, TheLimit, HandedOver, Abstract!Next, Abstract!GiveUp
  <1>6. CASE ShutMove(TheLine, TheLine')
    BY <1>6 DEF ShutMove, TheLine, TheLimit, HandedOver, Abstract!Next, Abstract!Shut, Abstract!chanVars
  <1>. QED  BY <1>1, <1>2, <1>3, <1>4, <1>5, <1>6 DEF Moves

FifoInv == PipeInv /\ PipeElems /\ cap \in Nat

LEMMA ChannelStart == ASSUME BothInit PROVE FifoInv /\ Abstract!Init
  <1>1. FifoInv
    BY PipeStart, PipeAssumption, MCPipeAssumption DEF BothInit, FifoInv, Init, OnList!Init
  <1>2. WaitersInit /\ Behind = <<>>
    <2>1. WaitersInit
      BY OnListSame DEF BothInit, Init, OnList!Init
    <2>2. \A w \in Waitx : ~ InCall(w)
      BY <2>1 DEF WaitersInit, Unused, InCall
    <2>3. Writers = {}
      BY <1>1, <2>2, WritersAre DEF FifoInv, PipeInv
    <2>. QED  BY <1>1, <2>1, <2>3, NoneBehind DEF FifoInv, PipeInv
  <1>3. TheLine = <<>>
    <2>1. CASE part = "ring"
      <3>1. rx = wx /\ (~ full \/ cap = 0) /\ RingOK /\ RingHolds
        BY <1>1, <2>1 DEF BothInit, Init, FifoInv, PipeInv, PipeElems, RingElems
      <3>2. Contents = <<>>
        BY <3>1, ContentsParts
      <3>. QED  BY <1>2, <2>1, <3>2, EmptyJoin DEF TheLine, Line
    <2>2. CASE part = "list"
      <3>1. list = <<>>
        BY <2>2 DEF BothInit, OnList!Init
      <3>. QED  BY <1>2, <2>2, <3>1, BehindOnList, EmptyJoin DEF TheLine, OnList!Line
    <2>. QED  BY <1>1, <2>1, <2>2 DEF FifoInv, PipeInv
  <1>4. TheLimit \in Nat \cup {None}
    BY <1>1 DEF TheLimit, OnList!Limit, FifoInv
  <1>5. HandedOver = {}
    BY <1>2 DEF HandedOver, WaitersInit
  <1>. QED
    BY <1>1, <1>2, <1>3, <1>4, <1>5 DEF Abstract!Init, TheLine, TheLimit, HandedOver, WaitersInit

LEMMA ChannelStep ==
    ASSUME FifoInv, OneEach, [BothNext]_allVars
    PROVE  FifoInv' /\ [Abstract!Next]_(Abstract!chanVars)
  <1>0. PipeInv' /\ PipeElems'
    BY PipeStep DEF FifoInv
  <1>1. CASE UNCHANGED allVars
    <2>0. /\ UNCHANGED <<timed, closed, wq, heap, mine, op, target, wakeups, out, got, pc>>
          /\ UNCHANGED <<cap, ring, rx, wx, full>> /\ UNCHANGED <<list, size>> /\ part' = part
      BY <1>1 DEF allVars, vars, waiters, buffer
    <2>1. Behind' = Behind /\ HandedOver' = HandedOver
      BY <2>0 DEF Behind, HandedOver
    <2>2. Contents' = Contents
      BY <2>0, ContentsSame
    <2>3. TheLine' = TheLine /\ TheLimit' = TheLimit
      BY <2>0, <2>1, <2>2, BehindOnList DEF TheLine, TheLimit, Line, OnList!Line, OnList!Limit
    <2>. QED
      BY <1>0, <2>0, <2>1, <2>3 DEF FifoInv, Abstract!chanVars, TheLine, TheLimit, HandedOver
  <1>2. CASE part = "ring" /\ Next /\ part' = part
    <2>1. cap' = cap /\ Moves(Contents \o Behind, Contents' \o Behind', cap)
      BY <1>2, RingMoves DEF FifoInv, PipeInv, PipeElems, RingInv
    <2>2. Moves(TheLine, TheLine', TheLimit) /\ TheLimit' = TheLimit
      BY <1>2, <2>1 DEF TheLine, TheLimit, Line
    <2>. QED  BY <1>0, <2>1, <2>2, MovesAreSteps DEF FifoInv
  <1>3. CASE part = "list" /\ OnList!Next /\ part' = part
    <2>1. cap' = cap /\ Moves(list \o Behind, list' \o Behind', OnList!Limit)
      BY <1>3, ListMoves DEF FifoInv, PipeInv, PipeElems, ListInv
    <2>2. TheLine = list \o Behind /\ TheLine' = list' \o Behind'
      BY <1>3, BehindOnList DEF TheLine, OnList!Line
    <2>3. TheLimit = OnList!Limit /\ TheLimit' = TheLimit
      BY <1>3, <2>1 DEF TheLimit, OnList!Limit
    <2>. QED  BY <1>0, <2>1, <2>2, <2>3, MovesAreSteps DEF FifoInv
  <1>. QED  BY <1>1, <1>2, <1>3 DEF BothNext

(* Each of the two channels is a line: what is read is what stands first   *)
(* in it, in the order in which it was written, also by writers that had   *)
(* to wait; a writer that gives up leaves from behind what the channel     *)
(* proper holds, and nothing new comes in once the channel is closed.      *)
THEOREM FirstInIsFirstOut == ASSUME OneEach PROVE BothSpec => FirstInFirstOut
  <1>1. BothInit => FifoInv /\ Abstract!Init
    BY ChannelStart
  <1>2. FifoInv /\ [BothNext]_allVars => FifoInv' /\ [Abstract!Next]_(Abstract!chanVars)
    BY ChannelStep
  <1>. QED  BY <1>1, <1>2, PTL DEF BothSpec, FirstInFirstOut, Abstract!Spec
=============================================================================
