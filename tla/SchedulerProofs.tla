-------------------------- MODULE SchedulerProofs --------------------------
(***************************************************************************)
(* Proofs about what the schedulers keep for coroutines: the shared        *)
(* stacks, the pool of coroutines and the timers, for any coroutines,      *)
(* stacks, buffers, size of the blocks and delays, however long the clock  *)
(* runs; the schedulers themselves, which stop() deletes, for any number   *)
(* of them, of coroutines and of threads; and what the system call hooks   *)
(* know of each descriptor, so that no coroutine blocks its scheduler in   *)
(* the kernel and calls wait as the user asked, for any descriptors and    *)
(* open files and without the unusual uses of Odd.                         *)
(***************************************************************************)
EXTENDS MCScheduler, FiniteSetTheorems, SequenceTheorems, TLAPS

-----------------------------------------------------------------------------
(* The shared stacks: every coroutine runs on its own frames.              *)

(* The owner of a stack is a coroutine of that stack that has begun to run *)
(* and is not recycled yet; the running coroutine is one of them.          *)
OwnerIsStarted ==
    \A s \in Stack : owner[s] # None =>
       StackOf[owner[s]] = s /\ started[owner[s]]
RunningIsLive == running # None => running \in live /\ started[running]

(* A coroutine that has not run yet expects the first frame.               *)
FreshIsFirst == \A x \in live : ~ started[x] => frame[x] = FirstFrame(x)

StacksInv ==
    /\ TypeOK
    /\ RunsOnOwnFrames
    /\ SuspendedFramesSafe
    /\ BuffersExclusive
    /\ OwnersLive
    /\ OwnerIsStarted
    /\ RunningIsLive

-----------------------------------------------------------------------------
LEMMA StacksStart == Init => StacksInv
  BY DEF Init, StacksInv, TypeOK, RunsOnOwnFrames, SuspendedFramesSafe,
         BuffersExclusive, OwnersLive, OwnerIsStarted, RunningIsLive, Frame

LEMMA FirstFrameType == \A x \in Co : FirstFrame(x) \in Frame
  BY DEF FirstFrame, Frame

(* What evicting the owner w of x's stack leaves behind: every other       *)
(* coroutine's buffer is untouched, w's holds what was on the stack.       *)
LEMMA EvictEffect ==
    ASSUME StacksInv, running = None, NEW x \in live, Evict(x)
    PROVE  LET w == owner[StackOf[x]]
           IN  /\ pbuf' \in [Co -> Buf \cup {None}]
               /\ data' \in [Buf -> Frame]
               /\ bufs' \subseteq Buf
               /\ \A d \in Co : d # w \/ d = x =>
                     /\ pbuf'[d] = pbuf[d]
                     /\ pbuf[d] # None => data'[pbuf[d]] = data[pbuf[d]]
               /\ w \notin {x, None} =>
                     /\ pbuf'[w] # None
                     /\ data'[pbuf'[w]] = content[StackOf[x]]
               /\ live' = live => BuffersExclusive'
  <1> USE SharedStackAssumption DEF TypeOK
  <1> TypeOK /\ BuffersExclusive /\ OwnersLive /\ OwnerIsStarted
    BY DEF StacksInv
  <1> DEFINE w == owner[StackOf[x]]
  <1>1. CASE w \in {x, None}
    <2>1. UNCHANGED <<pbuf, data, bufs>>
      BY <1>1 DEF Evict
    <2>. QED  BY <1>1, <2>1 DEF BuffersExclusive
  <1>2. CASE w \notin {x, None}
    <2>1. /\ w \in Co /\ w \in live /\ StackOf[w] = StackOf[x]
          /\ StackOf[x] \in Stack
      BY <1>2 DEF OwnersLive, OwnerIsStarted
    <2>2. PICK b \in Buf :
             /\ \/ pbuf[w] = b /\ bufs' = bufs
                \/ pbuf[w] = None /\ b \in bufs /\ bufs' = bufs \ {b}
                \/ /\ pbuf[w] = None /\ bufs = {} /\ b \in Unallocated
                   /\ bufs' = bufs
             /\ pbuf' = [pbuf EXCEPT ![w] = b]
             /\ data' = [data EXCEPT ![b] = content[StackOf[w]]]
      BY <1>2 DEF Evict, SaveStack
    <2>3. \A d \in Co : d # w => pbuf[d] # b
      BY <2>1, <2>2 DEF BuffersExclusive, Unallocated
    <2>4. b \notin bufs'
      BY <2>1, <2>2 DEF BuffersExclusive, Unallocated
    <2>5. /\ pbuf' \in [Co -> Buf \cup {None}]
          /\ data' \in [Buf -> Frame] /\ bufs' \subseteq bufs
          /\ pbuf'[w] = b /\ b # None /\ data'[b] = content[StackOf[x]]
          /\ \A d \in Co : d # w => pbuf'[d] = pbuf[d]
      BY <2>1, <2>2
    <2>6. ASSUME NEW d \in Co, d # w, pbuf[d] # None
          PROVE  data'[pbuf[d]] = data[pbuf[d]]
      BY <2>2, <2>3, <2>6
    <2>7. live' = live => BuffersExclusive'
      BY <2>1, <2>3, <2>4, <2>5 DEF BuffersExclusive
    <2>. QED  BY <1>2, <2>5, <2>6, <2>7
  <1>. QED  BY <1>1, <1>2

LEMMA StepNew ==
    ASSUME StacksInv, NEW x \in Co, NewCoroutine(x)
    PROVE  StacksInv'
  <1> USE SharedStackAssumption DEF StacksInv
  <1>1. TypeOK'
    BY FirstFrameType DEF NewCoroutine, TypeOK
  <1>2. /\ RunsOnOwnFrames' /\ OwnersLive' /\ OwnerIsStarted'
        /\ BuffersExclusive' /\ RunningIsLive'
    BY DEF NewCoroutine, TypeOK, RunsOnOwnFrames, OwnersLive, OwnerIsStarted,
           BuffersExclusive, RunningIsLive
  <1>3. SuspendedFramesSafe'
    BY DEF NewCoroutine, TypeOK, SuspendedFramesSafe
  <1>. QED  BY <1>1, <1>2, <1>3

LEMMA StepWorkYield ==
    ASSUME StacksInv, NEW x \in Co, Work(x) \/ Yield(x)
    PROVE  StacksInv'
  <1> USE SharedStackAssumption DEF StacksInv
  <1>1. CASE Work(x)
    <2>1. PICK v \in 0..1 :
             /\ frame' = [frame EXCEPT ![x] = [co |-> x, version |-> v]]
             /\ content' = [content EXCEPT ![StackOf[x]] =
                               [co |-> x, version |-> v]]
      BY <1>1 DEF Work
    <2>2. [co |-> x, version |-> v] \in Frame
      BY DEF Frame
    <2>3. /\ UNCHANGED <<live, started, running, owner, pbuf, data, bufs>>
          /\ running = x /\ x # None /\ owner[StackOf[x]] = x
      BY <1>1 DEF Work, RunsOnOwnFrames
    <2> DEFINE f == [co |-> x, version |-> v]
    <2> HIDE DEF f
    <2>4. TypeOK' /\ RunsOnOwnFrames'
      BY <2>1, <2>2, <2>3 DEF TypeOK, RunsOnOwnFrames, f
    <2>5. SuspendedFramesSafe'
      <3>1. ASSUME NEW d \in live \ {x}, started[d]
            PROVE  /\ frame'[d] = frame[d]
                   /\ owner[StackOf[d]] = d =>
                         content'[StackOf[d]] = content[StackOf[d]]
        BY <2>1, <2>3, <3>1 DEF TypeOK
      <3>. QED  BY <2>3, <3>1 DEF SuspendedFramesSafe
    <2>6. BuffersExclusive' /\ OwnersLive' /\ OwnerIsStarted' /\ RunningIsLive'
      BY <2>3 DEF BuffersExclusive, OwnersLive, OwnerIsStarted, RunningIsLive
    <2>. QED  BY <2>4, <2>5, <2>6
  <1>2. CASE Yield(x)
    BY <1>2 DEF Yield, TypeOK, RunsOnOwnFrames, SuspendedFramesSafe,
                BuffersExclusive, OwnersLive, OwnerIsStarted, RunningIsLive
  <1>. QED  BY <1>1, <1>2

(* Both kinds of resume() evict the owner of the stack and put x's frames  *)
(* there: f is what x finds.                                               *)
LEMMA StepResume ==
    ASSUME StacksInv, running = None, NEW x \in live, Evict(x),
           NEW f, f \in Frame, f = frame[x],
           running' = x,
           owner' = [owner EXCEPT ![StackOf[x]] = x],
           content' = [content EXCEPT ![StackOf[x]] = f],
           started' = [started EXCEPT ![x] = TRUE],
           UNCHANGED <<live, frame>>
    PROVE  StacksInv'
  <1> USE SharedStackAssumption
  <1> DEFINE s == StackOf[x]
             w == owner[s]
  <1>1. /\ TypeOK /\ SuspendedFramesSafe /\ BuffersExclusive
        /\ OwnersLive /\ OwnerIsStarted /\ x \in Co /\ x # None /\ s \in Stack
    BY DEF StacksInv, TypeOK
  <1>2. /\ pbuf' \in [Co -> Buf \cup {None}]
        /\ data' \in [Buf -> Frame]
        /\ bufs' \subseteq Buf
        /\ \A d \in Co : d # w \/ d = x =>
              /\ pbuf'[d] = pbuf[d]
              /\ pbuf[d] # None => data'[pbuf[d]] = data[pbuf[d]]
        /\ w \notin {x, None} =>
              pbuf'[w] # None /\ data'[pbuf'[w]] = content[s]
        /\ BuffersExclusive'
    BY EvictEffect
  <1>3. TypeOK'
    BY <1>1, <1>2 DEF TypeOK
  <1>4. RunsOnOwnFrames' /\ RunningIsLive'
    BY <1>1 DEF TypeOK, RunsOnOwnFrames, RunningIsLive
  <1>5. OwnersLive' /\ OwnerIsStarted'
    BY <1>1 DEF TypeOK, OwnersLive, OwnerIsStarted
  <1>6. SuspendedFramesSafe'
    <2>1. ASSUME NEW d \in live, d # x, started'[d], owner'[StackOf[d]] = d
          PROVE  content'[StackOf[d]] = frame[d]
      <3>1. StackOf[d] # s /\ started[d] /\ StackOf[d] \in Stack /\ d \in Co
        BY <1>1, <2>1 DEF TypeOK
      <3>2. owner[StackOf[d]] = d
        BY <1>1, <2>1, <3>1 DEF TypeOK
      <3>3. content'[StackOf[d]] = content[StackOf[d]]
        BY <1>1, <3>1 DEF TypeOK
      <3>. QED  BY <1>1, <2>1, <3>1, <3>2, <3>3 DEF SuspendedFramesSafe
    <2>2. ASSUME NEW d \in live, d # x, started'[d], owner'[StackOf[d]] # d
          PROVE  pbuf'[d] # None /\ data'[pbuf'[d]] = frame[d]
      <3>1. started[d] /\ StackOf[d] \in Stack /\ d \in Co /\ d # None
        BY <1>1, <2>2 DEF TypeOK
      <3>2. CASE owner[StackOf[d]] = d
        <4>1. StackOf[d] = s /\ d = w
          BY <1>1, <2>2, <3>1, <3>2 DEF TypeOK
        <4>2. content[s] = frame[d]
          BY <1>1, <2>2, <3>1, <3>2, <4>1 DEF SuspendedFramesSafe
        <4>. QED  BY <1>2, <2>2, <3>1, <4>1, <4>2
      <3>3. CASE owner[StackOf[d]] # d
        <4>1. d # w
          BY <1>1, <3>1, <3>3 DEF OwnerIsStarted
        <4>2. pbuf[d] # None /\ data[pbuf[d]] = frame[d]
          BY <1>1, <2>2, <3>1, <3>3 DEF SuspendedFramesSafe
        <4>. QED  BY <1>2, <3>1, <4>1, <4>2
      <3>. QED  BY <3>2, <3>3
    <2>. QED  BY <2>1, <2>2 DEF SuspendedFramesSafe
  <1>. QED
    BY <1>2, <1>3, <1>4, <1>5, <1>6 DEF StacksInv

LEMMA StepResumeNew ==
    ASSUME StacksInv, FreshIsFirst, NEW x \in Co, ResumeNew(x)
    PROVE  StacksInv'
  <1>1. FirstFrame(x) = frame[x] /\ FirstFrame(x) \in Frame
    BY FirstFrameType DEF ResumeNew, FreshIsFirst
  <1>. QED  BY <1>1, StepResume DEF ResumeNew

LEMMA StepResumeSuspended ==
    ASSUME StacksInv, NEW x \in Co, ResumeSuspended(x)
    PROVE  StacksInv'
  <1> USE SharedStackAssumption
  <1> TypeOK
    BY DEF StacksInv
  <1>1. /\ running = None /\ x \in live /\ started[x] /\ Evict(x) /\ x # None
        /\ StackOf[x] \in Stack
        /\ frame[x] \in Frame
    BY DEF ResumeSuspended, TypeOK
  <1>2. started' = [started EXCEPT ![x] = TRUE]
    BY <1>1 DEF ResumeSuspended, TypeOK
  <1>3. content' = [content EXCEPT ![StackOf[x]] = frame[x]]
    <2>1. CASE owner[StackOf[x]] = x
      <3>1. content[StackOf[x]] = frame[x] /\ content' = content
        BY <1>1, <2>1 DEF StacksInv, SuspendedFramesSafe, ResumeSuspended
      <3>. QED  BY <1>1, <3>1 DEF TypeOK
    <2>2. CASE owner[StackOf[x]] # x
      <3>1. pbuf[x] # None /\ data[pbuf[x]] = frame[x]
        BY <1>1, <2>2 DEF StacksInv, SuspendedFramesSafe
      <3>2. data'[pbuf[x]] = data[pbuf[x]]
        BY <1>1, <3>1, EvictEffect
      <3>. QED  BY <2>2, <3>1, <3>2 DEF ResumeSuspended
    <2>. QED  BY <2>1, <2>2
  <1>. QED  BY <1>1, <1>2, <1>3, StepResume DEF ResumeSuspended

LEMMA StepRecycle ==
    ASSUME StacksInv, NEW x \in Co, NEW large, Recycle(x, large)
    PROVE  StacksInv'
  <1> USE SharedStackAssumption
  <1>1. /\ TypeOK /\ RunsOnOwnFrames /\ SuspendedFramesSafe
        /\ BuffersExclusive /\ OwnersLive /\ OwnerIsStarted
    BY DEF StacksInv
  <1>2. /\ running = x /\ running' = None /\ x # None
        /\ owner' = [owner EXCEPT ![StackOf[x]] = None]
        /\ pbuf' = [pbuf EXCEPT ![x] = None]
        /\ bufs' \subseteq bufs \cup ({pbuf[x]} \ {None})
        /\ live' = live \ {x}
        /\ UNCHANGED <<started, content, data, frame>>
    BY DEF Recycle
  <1>3. owner[StackOf[x]] = x /\ StackOf[x] \in Stack
    BY <1>1, <1>2 DEF RunsOnOwnFrames
  <1>4. TypeOK'
    BY <1>1, <1>2 DEF TypeOK
  <1>5. RunsOnOwnFrames' /\ RunningIsLive'
    BY <1>2 DEF RunsOnOwnFrames, RunningIsLive
  <1>6. OwnersLive' /\ OwnerIsStarted'
    BY <1>1, <1>2, <1>3 DEF TypeOK, OwnersLive, OwnerIsStarted
  <1>7. BuffersExclusive'
    BY <1>1, <1>2 DEF TypeOK, BuffersExclusive
  <1>8. SuspendedFramesSafe'
    <2>1. ASSUME NEW d \in live, d # x
          PROVE  /\ pbuf'[d] = pbuf[d]
                 /\ (owner'[StackOf[d]] = d) <=> (owner[StackOf[d]] = d)
      BY <1>1, <1>2, <1>3, <2>1 DEF TypeOK
    <2>. QED  BY <1>1, <1>2, <2>1 DEF SuspendedFramesSafe
  <1>. QED
    BY <1>4, <1>5, <1>6, <1>7, <1>8 DEF StacksInv

(* FreshIsFirst is kept by the steps of every coroutine.                   *)
LEMMA StepFresh ==
    ASSUME StacksInv, FreshIsFirst, [Next]_vars
    PROVE  FreshIsFirst'
  <1> TypeOK /\ RunningIsLive
    BY DEF StacksInv
  <1>1. ASSUME NEW x \in Co, NewCoroutine(x)
        PROVE  FreshIsFirst'
    BY <1>1 DEF NewCoroutine, FreshIsFirst, TypeOK
  <1>2. ASSUME NEW x \in Co, ResumeNew(x) \/ ResumeSuspended(x)
        PROVE  FreshIsFirst'
    BY <1>2 DEF ResumeNew, ResumeSuspended, FreshIsFirst, TypeOK
  <1>3. ASSUME NEW x \in Co, Work(x)
        PROVE  FreshIsFirst'
    <2>1. started[x] /\ UNCHANGED <<live, started>>
      BY <1>3, SharedStackAssumption DEF Work, RunningIsLive
    <2>2. \A d \in Co \ {x} : frame'[d] = frame[d]
      BY <1>3 DEF Work, TypeOK
    <2>. QED  BY <2>1, <2>2 DEF FreshIsFirst, TypeOK
  <1>4. ASSUME NEW x \in Co,
               Yield(x) \/ \E large \in BOOLEAN : Recycle(x, large)
        PROVE  FreshIsFirst'
    BY <1>4 DEF Yield, Recycle, FreshIsFirst
  <1>5. CASE UNCHANGED vars
    BY <1>5 DEF vars, FreshIsFirst
  <1>. QED  BY <1>1, <1>2, <1>3, <1>4, <1>5 DEF Next

(* All of this holds in every state of the stacks and their coroutines.    *)
THEOREM StacksAlways == Spec => [](StacksInv /\ FreshIsFirst)
  <1>1. Init => StacksInv /\ FreshIsFirst
    BY StacksStart DEF Init, FreshIsFirst
  <1>2. StacksInv /\ FreshIsFirst /\ [Next]_vars => (StacksInv /\ FreshIsFirst)'
    <2> SUFFICES ASSUME StacksInv, FreshIsFirst, [Next]_vars
                 PROVE  (StacksInv /\ FreshIsFirst)'
      OBVIOUS
    <2>1. CASE UNCHANGED vars
      BY <2>1, StepFresh
         DEF vars, StacksInv, TypeOK, RunsOnOwnFrames, SuspendedFramesSafe,
             BuffersExclusive, OwnersLive, OwnerIsStarted, RunningIsLive
    <2>2. CASE Next
      BY <2>2, StepFresh, StepNew, StepResumeNew, StepResumeSuspended,
         StepWorkYield, StepRecycle DEF Next
    <2>. QED  BY <2>1, <2>2
  <1>. QED  BY <1>1, <1>2, PTL DEF Spec

-----------------------------------------------------------------------------
(* The variables keep their types.                                         *)
THEOREM StacksTyped == Spec => []TypeOK
  <1>1. StacksInv => TypeOK
    BY DEF StacksInv
  <1>. QED  BY StacksAlways, <1>1, PTL

(* A resumed coroutine finds its frames as it left them.                   *)
THEOREM OwnFrames == Spec => []RunsOnOwnFrames
  <1>1. StacksInv => RunsOnOwnFrames
    BY DEF StacksInv
  <1>. QED  BY StacksAlways, <1>1, PTL

(* The frames of a suspended coroutine are where resume() looks.           *)
THEOREM FramesSafe == Spec => []SuspendedFramesSafe
  <1>1. StacksInv => SuspendedFramesSafe
    BY DEF StacksInv
  <1>. QED  BY StacksAlways, <1>1, PTL

(* No buffer has two users.                                                *)
THEOREM OneUserPerBuffer == Spec => []BuffersExclusive
  <1>1. StacksInv => BuffersExclusive
    BY DEF StacksInv
  <1>. QED  BY StacksAlways, <1>1, PTL

(* A coroutine's frames are its own, running and suspended, and nobody     *)
(* overwrites the buffer they are saved in.                                *)
THEOREM FramesKept == Spec => []FramesIntact
  BY OwnFrames, FramesSafe, OneUserPerBuffer, PTL DEF FramesIntact

(* No stack is owned by a coroutine that has ended.                        *)
THEOREM NoDeadOwner == Spec => []OwnersLive
  <1>1. StacksInv => OwnersLive
    BY DEF StacksInv
  <1>. QED  BY StacksAlways, <1>1, PTL

-----------------------------------------------------------------------------
(* Sequences                                                               *)

(* What InsertAt, RemoveAt and a cut at the front do to the elements.      *)
LEMMA Inserted ==
    ASSUME NEW S, NEW s \in Seq(S), NEW i \in 1..(Len(s) + 1), NEW e \in S
    PROVE  /\ InsertAt(s, i, e) \in Seq(S)
           /\ Len(InsertAt(s, i, e)) = Len(s) + 1
           /\ \A j \in 1..(Len(s) + 1) :
                 InsertAt(s, i, e)[j] = IF j < i THEN s[j] ELSE IF j = i THEN e ELSE s[j - 1]
  <1> DEFINE l == SubSeq(s, 1, i - 1)
             r == SubSeq(s, i, Len(s))
             m == <<e>>
  <1>0. Len(s) \in Nat /\ \A k \in 1..Len(s) : s[k] \in S
    BY LenProperties, ElementOfSeq
  <1>1. /\ l \in Seq(S) /\ Len(l) = i - 1
        /\ \A j \in 1..(i - 1) : l[j] = s[j]
    <2>1. \A k \in 1..(i - 1) : s[k] \in S
      BY <1>0
    <2>2. /\ l \in Seq(S)
          /\ Len(l) = IF 1 <= i - 1 THEN i - 1 - 1 + 1 ELSE 0
          /\ \A j \in 1..(i - 1 - 1 + 1) : l[j] = s[1 + j - 1]
      BY <2>1, SubSeqProperties
    <2>. QED  BY <2>2
  <1>2. /\ r \in Seq(S) /\ Len(r) = Len(s) - i + 1
        /\ \A j \in 1..(Len(s) - i + 1) : r[j] = s[i + j - 1]
    <2>1. \A k \in i..Len(s) : s[k] \in S
      BY <1>0
    <2>2. /\ r \in Seq(S)
          /\ Len(r) = IF i <= Len(s) THEN Len(s) - i + 1 ELSE 0
          /\ \A j \in 1..(Len(s) - i + 1) : r[j] = s[i + j - 1]
      BY <1>0, <2>1, SubSeqProperties
    <2>. QED  BY <1>0, <2>2
  <1>3. m \in Seq(S) /\ Len(m) = 1 /\ m[1] = e
    OBVIOUS
  <1>. HIDE DEF l, r, m
  <1>4. /\ l \o m \in Seq(S) /\ Len(l \o m) = i
        /\ \A j \in 1..i : (l \o m)[j] = IF j < i THEN s[j] ELSE e
    <2>1. /\ l \o m \in Seq(S) /\ Len(l \o m) = Len(l) + Len(m)
          /\ \A j \in 1..(Len(l) + Len(m)) :
                (l \o m)[j] = IF j <= Len(l) THEN l[j] ELSE m[j - Len(l)]
      <3>1. l \in Seq(S) /\ m \in Seq(S)
        BY <1>1, <1>3
      <3>. QED  BY <3>1, ConcatProperties
    <2>2. Len(l) + Len(m) = i
      BY <1>1, <1>3
    <2>3. ASSUME NEW j \in 1..i
          PROVE  (l \o m)[j] = IF j < i THEN s[j] ELSE e
      <3>1. (l \o m)[j] = IF j <= i - 1 THEN l[j] ELSE m[j - (i - 1)]
        BY <1>1, <2>1, <2>2
      <3>2. j < i => l[j] = s[j]
        BY <1>1
      <3>3. ~ (j < i) => j - (i - 1) = 1
        OBVIOUS
      <3>. QED  BY <1>3, <3>1, <3>2, <3>3
    <2>. QED  BY <2>1, <2>2, <2>3
  <1>5. /\ InsertAt(s, i, e) \in Seq(S)
        /\ Len(InsertAt(s, i, e)) = Len(l \o m) + Len(r)
        /\ \A j \in 1..(Len(l \o m) + Len(r)) :
              InsertAt(s, i, e)[j] =
                 IF j <= Len(l \o m) THEN (l \o m)[j] ELSE r[j - Len(l \o m)]
    <2>1. InsertAt(s, i, e) = (l \o m) \o r
      BY DEF InsertAt, l, m, r
    <2>2. l \o m \in Seq(S) /\ r \in Seq(S)
      BY <1>2, <1>4
    <2>. QED  BY <2>1, <2>2, ConcatProperties
  <1>6. ASSUME NEW j \in 1..(Len(s) + 1)
        PROVE  InsertAt(s, i, e)[j] = IF j < i THEN s[j] ELSE IF j = i THEN e ELSE s[j - 1]
    <2>1. InsertAt(s, i, e)[j] = IF j <= i THEN (l \o m)[j] ELSE r[j - i]
      BY <1>0, <1>2, <1>4, <1>5
    <2>2. j <= i => (l \o m)[j] = IF j < i THEN s[j] ELSE e
      BY <1>0, <1>4
    <2>3. ~ (j <= i) => r[j - i] = s[i + (j - i) - 1]
      BY <1>0, <1>2
    <2>4. i + (j - i) - 1 = j - 1
      BY <1>0
    <2>5. CASE j < i
      <3>1. j <= i
        BY <1>0, <2>5
      <3>2. InsertAt(s, i, e)[j] = (l \o m)[j]
        BY <2>1, <3>1
      <3>. QED  BY <1>0, <1>4, <2>2, <2>5, <3>1, <3>2
    <2>6. CASE j = i
      <3>1. j <= i
        BY <1>0, <2>6
      <3>2. InsertAt(s, i, e)[j] = (l \o m)[j]
        BY <2>1, <3>1
      <3>. QED  BY <1>0, <1>4, <2>2, <2>6, <3>1, <3>2
    <2>7. CASE j > i
      BY <1>0, <2>1, <2>3, <2>4, <2>7
    <2>. QED  BY <2>5, <2>6, <2>7
  <1>. QED  BY <1>0, <1>2, <1>4, <1>5, <1>6

LEMMA Removed ==
    ASSUME NEW S, NEW s \in Seq(S), NEW i \in 1..Len(s)
    PROVE  /\ RemoveAt(s, i) \in Seq(S)
           /\ Len(RemoveAt(s, i)) = Len(s) - 1
           /\ \A j \in 1..(Len(s) - 1) :
                 RemoveAt(s, i)[j] = IF j < i THEN s[j] ELSE s[j + 1]
  <1> DEFINE l == SubSeq(s, 1, i - 1)
             r == SubSeq(s, i + 1, Len(s))
  <1>0. Len(s) \in Nat /\ \A k \in 1..Len(s) : s[k] \in S
    BY LenProperties, ElementOfSeq
  <1>1. /\ l \in Seq(S) /\ Len(l) = i - 1
        /\ \A j \in 1..(i - 1) : l[j] = s[j]
    <2>1. \A k \in 1..(i - 1) : s[k] \in S
      BY <1>0
    <2>2. /\ l \in Seq(S)
          /\ Len(l) = IF 1 <= i - 1 THEN i - 1 - 1 + 1 ELSE 0
          /\ \A j \in 1..(i - 1 - 1 + 1) : l[j] = s[1 + j - 1]
      BY <2>1, SubSeqProperties
    <2>. QED  BY <2>2
  <1>2. /\ r \in Seq(S) /\ Len(r) = Len(s) - i
        /\ \A j \in 1..(Len(s) - i) : r[j] = s[i + j]
    <2>1. \A k \in (i + 1)..Len(s) : s[k] \in S
      BY <1>0
    <2>2. /\ r \in Seq(S)
          /\ Len(r) = IF i + 1 <= Len(s) THEN Len(s) - (i + 1) + 1 ELSE 0
          /\ \A j \in 1..(Len(s) - (i + 1) + 1) : r[j] = s[(i + 1) + j - 1]
      BY <1>0, <2>1, SubSeqProperties
    <2>. QED  BY <1>0, <2>2
  <1>3. /\ RemoveAt(s, i) \in Seq(S)
        /\ Len(RemoveAt(s, i)) = Len(l) + Len(r)
        /\ \A j \in 1..(Len(l) + Len(r)) :
              RemoveAt(s, i)[j] = IF j <= Len(l) THEN l[j] ELSE r[j - Len(l)]
    <2>1. RemoveAt(s, i) = l \o r
      BY DEF RemoveAt
    <2>2. l \in Seq(S) /\ r \in Seq(S)
      BY <1>1, <1>2
    <2>. HIDE DEF l, r
    <2>. QED  BY <2>1, <2>2, ConcatProperties
  <1>. HIDE DEF l, r
  <1>4. ASSUME NEW j \in 1..(Len(s) - 1)
        PROVE  RemoveAt(s, i)[j] = IF j < i THEN s[j] ELSE s[j + 1]
    <2>1. RemoveAt(s, i)[j] = IF j <= i - 1 THEN l[j] ELSE r[j - (i - 1)]
      BY <1>0, <1>1, <1>2, <1>3
    <2>2. j < i => l[j] = s[j]
      BY <1>0, <1>1
    <2>3. ~ (j < i) => r[j - (i - 1)] = s[i + (j - (i - 1))]
      BY <1>0, <1>2
    <2>4. i + (j - (i - 1)) = j + 1
      BY <1>0
    <2>. QED  BY <1>0, <2>1, <2>2, <2>3, <2>4
  <1>. QED  BY <1>0, <1>1, <1>2, <1>3, <1>4

LEMMA Dropped ==
    ASSUME NEW S, NEW s \in Seq(S), NEW n \in 0..Len(s)
    PROVE  /\ SubSeq(s, n + 1, Len(s)) \in Seq(S)
           /\ Len(SubSeq(s, n + 1, Len(s))) = Len(s) - n
           /\ \A j \in 1..(Len(s) - n) : SubSeq(s, n + 1, Len(s))[j] = s[n + j]
  <1>0. Len(s) \in Nat /\ \A k \in (n + 1)..Len(s) : s[k] \in S
    BY LenProperties, ElementOfSeq
  <1>1. /\ SubSeq(s, n + 1, Len(s)) \in Seq(S)
        /\ Len(SubSeq(s, n + 1, Len(s))) =
              IF n + 1 <= Len(s) THEN Len(s) - (n + 1) + 1 ELSE 0
        /\ \A j \in 1..(Len(s) - (n + 1) + 1) :
              SubSeq(s, n + 1, Len(s))[j] = s[(n + 1) + j - 1]
    BY <1>0, SubSeqProperties
  <1>. QED  BY <1>0, <1>1

-----------------------------------------------------------------------------
(* The timers                                                              *)

Suspended == {"sleep", "io", "event"}

(* The map is in order of time.                                            *)
InOrderOfTime == \A i, j \in DOMAIN timers : i < j => timers[i].at <= timers[j].at

(* check_timeout collects a coroutine at most once a round.                *)
DueOnce ==
    /\ phase # "due" => due = <<>>
    /\ \A i, j \in DOMAIN due : due[i] = due[j] => i = j

(* Who claims the waitx of a coroutine, a signal or its timer, resumes it, *)
(* and the coroutine knows of its timer unless it sleeps.                  *)
ClaimedOnce ==
    \A w \in Waiters :
       /\ HasTimer(w) => (it[w] \/ where[w] = "sleep") /\ waitx[w] # "timeout"
       /\ IsDue(w) => where[w] \in Suspended /\ waitx[w] \in {"none", "timeout"}
       /\ where[w] = "event" => waitx[w] # "none"
       /\ where[w] \in {"sleep", "io"} => waitx[w] = "none"
       /\ w \in readyCo <=> where[w] \in Suspended /\ waitx[w] = "ready"

Awake == active # Nobody => where[active] = "runs"

TimersInv ==
    /\ TimersTypeOK
    /\ TimersSafe
    /\ TimersInTime
    /\ InOrderOfTime
    /\ DueOnce
    /\ ClaimedOnce
    /\ Awake
    /\ looked <= clock

(* The map and the hint into it.                                           *)
Timer == [co : Waiters, at : Nat]
MapSound ==
    /\ timers \in Seq(Timer)
    /\ InOrderOfTime
    /\ \A i, j \in DOMAIN timers : timers[i].co = timers[j].co => i = j
    /\ hint \in Waiters \cup {Nobody}
    /\ hint # Nobody => HasTimer(hint)

LEMMA MapOfInv == TimersInv => MapSound
  BY DEF TimersInv, TimersTypeOK, TimersSafe, MapSound, Timer

(* Which timers there are after each change of the map.                    *)
LEMMA SuspendMap ==
    ASSUME TimersInv, NEW k, NEW ms \in Delays, Suspend(k, ms)
    PROVE  /\ MapSound'
           /\ \A w \in Waiters : HasTimer(w)' <=> HasTimer(w) \/ w = active
           /\ \A i \in DOMAIN timers' :
                 \/ \E j \in DOMAIN timers : timers'[i] = timers[j]
                 \/ timers'[i].at = clock + ms
  <1> DEFINE e == [co |-> active, at |-> clock + ms]
  <1>0. /\ MapSound /\ active \in Waiters /\ clock \in Nat /\ ms \in Nat
        /\ ~ HasTimer(active)
    BY MapOfInv, TimersAssumption
       DEF TimersInv, TimersTypeOK, Suspend, TimersSafe, Awake, ClaimedOnce, Suspended
  <1>1. /\ DOMAIN timers = 1..Len(timers) /\ Len(timers) \in Nat
        /\ \A j \in 1..Len(timers) : timers[j] \in Timer
    BY <1>0, LenProperties, ElementOfSeq DEF MapSound
  <1>2. PICK i \in Places(clock + ms) : timers' = InsertAt(timers, i, e)
    BY DEF Suspend
  <1>3. /\ i \in 1..(Len(timers) + 1)
        /\ i > 1 => timers[i - 1].at <= clock + ms
        /\ i <= Len(timers) => clock + ms <= timers[i].at
    BY DEF Places
  <1>4. e \in Timer /\ e.co = active /\ e.at = clock + ms
    BY <1>0 DEF Timer
  <1>. HIDE DEF e
  <1>5. /\ timers' \in Seq(Timer)
        /\ DOMAIN timers' = 1..(Len(timers) + 1)
        /\ \A j \in 1..(Len(timers) + 1) :
              timers'[j] = IF j < i THEN timers[j] ELSE IF j = i THEN e ELSE timers[j - 1]
    <2>1. /\ timers' \in Seq(Timer) /\ Len(timers') = Len(timers) + 1
          /\ \A j \in 1..(Len(timers) + 1) :
              timers'[j] = IF j < i THEN timers[j] ELSE IF j = i THEN e ELSE timers[j - 1]
      <3>1. timers \in Seq(Timer)
        BY <1>0 DEF MapSound
      <3>2. /\ InsertAt(timers, i, e) \in Seq(Timer)
            /\ Len(InsertAt(timers, i, e)) = Len(timers) + 1
            /\ \A j \in 1..(Len(timers) + 1) :
                  InsertAt(timers, i, e)[j] =
                     IF j < i THEN timers[j] ELSE IF j = i THEN e ELSE timers[j - 1]
        BY <1>3, <1>4, <3>1, Inserted
      <3>. QED  BY <1>2, <3>2, Zenon
    <2>. QED  BY <2>1, LenProperties
  <1>6. \A j \in 1..(Len(timers) + 1) :
           \/ j = i /\ timers'[j] = e
           \/ j # i /\ timers'[j] = timers[IF j < i THEN j ELSE j - 1]
                    /\ (IF j < i THEN j ELSE j - 1) \in 1..Len(timers)
    BY <1>1, <1>3, <1>5
  <1>7. \A j \in 1..Len(timers) :
           (IF j < i THEN j ELSE j + 1) \in 1..(Len(timers) + 1)
              /\ timers'[IF j < i THEN j ELSE j + 1] = timers[j]
    <2> TAKE j \in 1..Len(timers)
    <2>1. CASE j < i
      BY <1>1, <1>3, <1>5, <2>1
    <2>2. CASE ~ (j < i)
      <3>1. j + 1 \in 1..(Len(timers) + 1) /\ ~ (j + 1 < i) /\ j + 1 # i
        BY <1>1, <1>3, <2>2
      <3>2. timers'[j + 1] = timers[j + 1 - 1]
        BY <1>5, <3>1
      <3>. QED  BY <1>1, <2>2, <3>1, <3>2
    <2>. QED  BY <2>1, <2>2
  <1>8. \A w \in Waiters : HasTimer(w)' <=> HasTimer(w) \/ w = active
    <2>1. i \in 1..(Len(timers) + 1) /\ timers'[i] = e
      BY <1>1, <1>3, <1>5
    <2> TAKE w \in Waiters
    <2>2. HasTimer(w) => HasTimer(w)'
      BY <1>1, <1>5, <1>7 DEF HasTimer
    <2>3. w = active => HasTimer(w)'
      BY <1>4, <1>5, <2>1 DEF HasTimer
    <2>4. ASSUME NEW j \in 1..(Len(timers) + 1), timers'[j].co = w
          PROVE  HasTimer(w) \/ w = active
      <3>1. CASE j = i
        BY <1>4, <1>6, <2>4, <3>1
      <3>2. CASE j # i
        BY <1>1, <1>6, <2>4, <3>2 DEF HasTimer
      <3>. QED  BY <3>1, <3>2
    <2>. QED  BY <1>5, <2>2, <2>3, <2>4 DEF HasTimer
  <1>9. \A j \in DOMAIN timers' : timers'[j].co = active => j = i
    BY <1>0, <1>1, <1>5, <1>6 DEF HasTimer
  <1>10. \A j, l \in DOMAIN timers' : timers'[j].co = timers'[l].co => j = l
    <2> TAKE j, l \in DOMAIN timers'
    <2> HAVE timers'[j].co = timers'[l].co
    <2>1. CASE j = i \/ l = i
      BY <1>4, <1>5, <1>6, <1>9, <2>1
    <2>2. CASE j # i /\ l # i
      <3> DEFINE p(x) == IF x < i THEN x ELSE x - 1
      <3>1. p(j) \in 1..Len(timers) /\ p(l) \in 1..Len(timers)
            /\ timers'[j] = timers[p(j)] /\ timers'[l] = timers[p(l)]
        BY <1>5, <1>6, <2>2
      <3>2. p(j) = p(l)
        <4>. HIDE DEF p
        <4>. QED  BY <1>0, <1>1, <3>1 DEF MapSound
      <3>. QED  BY <1>1, <1>3, <1>5, <2>2, <3>2
    <2>. QED  BY <2>1, <2>2
  <1>11. \A j, l \in DOMAIN timers' : j < l => timers'[j].at <= timers'[l].at
    <2> TAKE j, l \in DOMAIN timers'
    <2> HAVE j < l
    <2>0. \A x, y \in 1..Len(timers) :
             /\ timers[x].at \in Nat
             /\ x <= y => timers[x].at <= timers[y].at
      BY <1>0, <1>1 DEF MapSound, InOrderOfTime, Timer
    <2>1. CASE j = i
      <3>1. l - 1 \in 1..Len(timers) /\ timers'[l] = timers[l - 1] /\ i <= l - 1
            /\ i \in 1..Len(timers)
        BY <1>1, <1>3, <1>5, <2>1
      <3>2. timers'[j].at = clock + ms
        BY <1>4, <1>5, <2>1
      <3>3. timers[i].at <= timers[l - 1].at /\ clock + ms <= timers[i].at
        BY <1>3, <2>0, <3>1
      <3>. QED  BY <1>0, <2>0, <3>1, <3>2, <3>3
    <2>2. CASE l = i
      <3>1. /\ j \in 1..Len(timers) /\ timers'[j] = timers[j] /\ j <= i - 1 /\ i > 1
            /\ i - 1 \in 1..Len(timers)
        BY <1>1, <1>3, <1>5, <2>2
      <3>2. timers'[l].at = clock + ms
        BY <1>1, <1>3, <1>4, <1>5, <2>2
      <3>3. timers[j].at <= timers[i - 1].at /\ timers[i - 1].at <= clock + ms
        BY <1>3, <2>0, <3>1
      <3>. QED  BY <1>0, <2>0, <3>1, <3>2, <3>3
    <2>3. CASE j # i /\ l # i
      <3> DEFINE p(x) == IF x < i THEN x ELSE x - 1
      <3>1. p(j) \in 1..Len(timers) /\ p(l) \in 1..Len(timers)
            /\ timers'[j] = timers[p(j)] /\ timers'[l] = timers[p(l)]
        BY <1>5, <1>6, <2>3
      <3>2. p(j) <= p(l)
        BY <1>1, <1>3, <1>5, <2>3
      <3>. HIDE DEF p
      <3>. QED  BY <2>0, <3>1, <3>2
    <2>. QED  BY <2>1, <2>2, <2>3
  <1>12. hint' \in Waiters /\ HasTimer(hint)'
    <2>1. hint' = active
      BY DEF Suspend
    <2>2. HasTimer(active)'  <=> \E j \in DOMAIN timers' : timers'[j].co = active'
      BY DEF HasTimer
    <2>3. HasTimer(hint)'  <=> \E j \in DOMAIN timers' : timers'[j].co = hint'
      BY DEF HasTimer
    <2>4. i \in DOMAIN timers' /\ timers'[i].co = active
      BY <1>1, <1>3, <1>4, <1>5
    <2>. QED  BY <1>0, <2>1, <2>3, <2>4
  <1>13. \A j \in DOMAIN timers' :
                 \/ \E l \in DOMAIN timers : timers'[j] = timers[l]
                 \/ timers'[j].at = clock + ms
    BY <1>1, <1>4, <1>5, <1>6
  <1>. QED
    BY <1>5, <1>8, <1>10, <1>11, <1>12, <1>13 DEF MapSound, InOrderOfTime

LEMMA IndexOfTimer ==
    ASSUME MapSound, NEW w, HasTimer(w)
    PROVE  /\ IndexOf(w) \in DOMAIN timers
           /\ timers[IndexOf(w)].co = w
           /\ \A i \in DOMAIN timers : timers[i].co = w => i = IndexOf(w)
  <1>1. \E i \in DOMAIN timers : timers[i].co = w
    BY DEF HasTimer
  <1>2. IndexOf(w) \in DOMAIN timers /\ timers[IndexOf(w)].co = w
    BY <1>1 DEF IndexOf
  <1>. QED  BY <1>2 DEF MapSound

LEMMA ResumeMap ==
    ASSUME TimersInv, NEW w \in Waiters, ResumeCo(w), HasTimer(w) => it[w]
    PROVE  /\ MapSound'
           /\ \A v \in Waiters : HasTimer(v)' <=> HasTimer(v) /\ v # w
           /\ \A i \in DOMAIN timers' : \E j \in DOMAIN timers : timers'[i] = timers[j]
  <1>0. MapSound /\ (it[w] => HasTimer(w))
    BY MapOfInv DEF TimersInv, TimersSafe
  <1>a. /\ DOMAIN timers = 1..Len(timers) /\ Len(timers) \in Nat
        /\ \A j \in 1..Len(timers) : timers[j] \in Timer
    BY <1>0, LenProperties, ElementOfSeq DEF MapSound
  <1>1. CASE ~ it[w]
    <2>1. UNCHANGED <<timers, hint>>
      BY <1>1 DEF ResumeCo
    <2>2. \A v : HasTimer(v)' <=> HasTimer(v)
      BY <2>1 DEF HasTimer
    <2>3. HasTimer(hint)' <=> HasTimer(hint)
      BY <2>1 DEF HasTimer
    <2>. QED  BY <1>0, <1>1, <2>1, <2>2, <2>3 DEF MapSound, InOrderOfTime
  <1>2. CASE it[w]
    <2> DEFINE i == IndexOf(w)
               p(j) == IF j < i THEN j ELSE j + 1
    <2>1. /\ i \in 1..Len(timers) /\ timers[i].co = w
          /\ \A j \in 1..Len(timers) : timers[j].co = w => j = i
      BY <1>0, <1>a, <1>2, IndexOfTimer
    <2>2. /\ timers' = RemoveAt(timers, i)
          /\ hint' = IF hint # w THEN hint
                     ELSE IF i < Len(timers) THEN timers[i + 1].co ELSE Nobody
      BY <1>2 DEF ResumeCo, DelTimer
    <2>. HIDE DEF i
    <2>3. /\ timers' \in Seq(Timer)
          /\ DOMAIN timers' = 1..(Len(timers) - 1)
          /\ \A j \in 1..(Len(timers) - 1) :
                timers'[j] = IF j < i THEN timers[j] ELSE timers[j + 1]
      <3>1. timers \in Seq(Timer)
        BY <1>0 DEF MapSound
      <3>2. /\ RemoveAt(timers, i) \in Seq(Timer)
            /\ Len(RemoveAt(timers, i)) = Len(timers) - 1
            /\ \A j \in 1..(Len(timers) - 1) :
                  RemoveAt(timers, i)[j] = IF j < i THEN timers[j] ELSE timers[j + 1]
        BY <2>1, <3>1, Removed
      <3>3. DOMAIN RemoveAt(timers, i) = 1..(Len(timers) - 1)
        BY <3>2, LenProperties
      <3>. QED  BY <2>2, <3>2, <3>3, Zenon
    <2>4. \A j \in 1..(Len(timers) - 1) :
             /\ timers'[j] = timers[p(j)]
             /\ p(j) \in 1..Len(timers) /\ p(j) # i
      BY <1>a, <2>1, <2>3
    <2>5. \A j \in 1..Len(timers) : j # i =>
             \E k \in 1..(Len(timers) - 1) : timers'[k] = timers[j] /\ p(k) = j
      <3> TAKE j \in 1..Len(timers)
      <3> HAVE j # i
      <3>1. CASE j < i
        <4>1. j \in 1..(Len(timers) - 1) /\ p(j) = j
          BY <1>a, <2>1, <3>1
        <4>. QED  BY <2>4, <4>1
      <3>2. CASE ~ (j < i)
        <4>1. j - 1 \in 1..(Len(timers) - 1) /\ p(j - 1) = j
          BY <1>a, <2>1, <3>2
        <4>. QED  BY <2>4, <4>1
      <3>. QED  BY <3>1, <3>2
    <2>6. \A j, k \in 1..(Len(timers) - 1) : j < k => p(j) < p(k)
      BY <1>a, <2>1
    <2>7. \A j, k \in 1..(Len(timers) - 1) : p(j) = p(k) => j = k
      BY <1>a, <2>1
    <2>. HIDE DEF p
    <2>8. \A v \in Waiters : HasTimer(v)' <=> HasTimer(v) /\ v # w
      <3> TAKE v \in Waiters
      <3>1. ASSUME NEW j \in 1..Len(timers), timers[j].co = v, v # w
            PROVE  HasTimer(v)'
        <4>1. j # i
          BY <2>1, <3>1
        <4>2. PICK k \in 1..(Len(timers) - 1) : timers'[k] = timers[j]
          BY <2>5, <4>1
        <4>. QED  BY <2>3, <3>1, <4>2 DEF HasTimer
      <3>2. HasTimer(v)' => HasTimer(v) /\ v # w
        BY <1>a, <2>1, <2>3, <2>4 DEF HasTimer
      <3>. QED  BY <1>a, <3>1, <3>2 DEF HasTimer
    <2>9. \A j, k \in DOMAIN timers' : timers'[j].co = timers'[k].co => j = k
      BY <1>0, <1>a, <2>3, <2>4, <2>7 DEF MapSound
    <2>10. InOrderOfTime'
      <3>1. \A j, k \in 1..Len(timers) : j < k => timers[j].at <= timers[k].at
        BY <1>0, <1>a DEF MapSound, InOrderOfTime
      <3>2. \A j, k \in DOMAIN timers' : j < k => timers'[j].at <= timers'[k].at
        BY <2>3, <2>4, <2>6, <3>1
      <3>. QED  BY <3>2 DEF InOrderOfTime
    <2>11. hint' \in Waiters \cup {Nobody} /\ (hint' # Nobody => HasTimer(hint'))
                 /\ (hint' # Nobody => hint' # w)
      <3>1. CASE hint # w
        BY <1>0, <2>2, <3>1 DEF MapSound
      <3>2. CASE hint = w /\ i < Len(timers)
        <4>1. i + 1 \in 1..Len(timers) /\ i + 1 # i
          BY <1>a, <2>1, <3>2
        <4>2. hint' = timers[i + 1].co
          BY <2>2, <3>2
        <4>. QED  BY <1>a, <2>1, <4>1, <4>2 DEF HasTimer, Timer
      <3>3. CASE hint = w /\ ~ (i < Len(timers))
        BY <2>2, <3>3
      <3>. QED  BY <3>1, <3>2, <3>3
    <2>12. hint' # Nobody => \E k \in DOMAIN timers' : timers'[k].co = hint'
      <3> HAVE hint' # Nobody
      <3>1. PICK j \in 1..Len(timers) : timers[j].co = hint'
        BY <1>a, <2>11 DEF HasTimer
      <3>2. j # i
        BY <2>1, <2>11, <3>1
      <3>. QED  BY <2>3, <2>5, <3>1, <3>2
    <2>13. (hint # Nobody => HasTimer(hint))'
      BY <2>12 DEF HasTimer
    <2>14. \A j \in DOMAIN timers' : \E l \in DOMAIN timers : timers'[j] = timers[l]
      BY <1>a, <2>3, <2>4
    <2>. QED  BY <2>3, <2>8, <2>9, <2>10, <2>11, <2>13, <2>14 DEF MapSound
  <1>. QED  BY <1>1, <1>2

LEMMA TimeoutMap ==
    ASSUME TimersInv, NEW n \in 0..Len(timers), ExpiredUpTo(n),
           timers' = SubSeq(timers, n + 1, Len(timers)), hint' = HintAfter(n)
    PROVE  /\ MapSound'
           /\ \A v \in Waiters :
                 HasTimer(v)' <=> HasTimer(v) /\ v \notin {timers[i].co : i \in 1..n}
           /\ Len(timers') = Len(timers) - n
           /\ \A i \in DOMAIN timers' : n < Len(timers) /\ timers[n + 1].at <= timers'[i].at
  <1>0. MapSound
    BY MapOfInv
  <1>a. /\ DOMAIN timers = 1..Len(timers) /\ Len(timers) \in Nat
        /\ \A j \in 1..Len(timers) : timers[j] \in Timer
    BY <1>0, LenProperties, ElementOfSeq DEF MapSound
  <1>1. /\ timers' \in Seq(Timer)
        /\ Len(timers') = Len(timers) - n
        /\ DOMAIN timers' = 1..(Len(timers) - n)
        /\ \A j \in 1..(Len(timers) - n) : timers'[j] = timers[n + j]
    <2>1. timers \in Seq(Timer)
      BY <1>0 DEF MapSound
    <2>2. /\ timers' \in Seq(Timer)
          /\ Len(timers') = Len(timers) - n
          /\ \A j \in 1..(Len(timers) - n) : timers'[j] = timers[n + j]
      BY <2>1, Dropped
    <2>. QED  BY <2>2, LenProperties
  <1>2. \A j \in 1..(Len(timers) - n) : n + j \in 1..Len(timers) /\ n + j > n
    BY <1>a
  <1>3. \A j \in 1..Len(timers) : j > n =>
           j - n \in 1..(Len(timers) - n) /\ timers'[j - n] = timers[j]
    <2> TAKE j \in 1..Len(timers)
    <2> HAVE j > n
    <2>1. j - n \in 1..(Len(timers) - n) /\ n + (j - n) = j
      BY <1>a
    <2>. QED  BY <1>1, <2>1
  <1>4. \A v \in Waiters :
           HasTimer(v)' <=> HasTimer(v) /\ v \notin {timers[i].co : i \in 1..n}
    <2> TAKE v \in Waiters
    <2>1. ASSUME NEW j \in 1..Len(timers), timers[j].co = v,
                 v \notin {timers[i].co : i \in 1..n}
          PROVE  HasTimer(v)'
      <3>1. j > n
        BY <1>a, <2>1
      <3>. QED  BY <1>1, <1>3, <2>1, <3>1 DEF HasTimer
    <2>2. ASSUME NEW j \in 1..(Len(timers) - n), timers'[j].co = v
          PROVE  HasTimer(v) /\ v \notin {timers[i].co : i \in 1..n}
      <3>1. timers[n + j].co = v /\ n + j \in DOMAIN timers
        BY <1>a, <1>1, <1>2, <2>2
      <3>2. \A i \in 1..n : i \in DOMAIN timers /\ i # n + j
        BY <1>a, <1>2
      <3>. QED  BY <1>0, <3>1, <3>2 DEF MapSound, HasTimer
    <2>. QED  BY <1>a, <1>1, <2>1, <2>2 DEF HasTimer
  <1>5. \A j, k \in DOMAIN timers' : timers'[j].co = timers'[k].co => j = k
    <2> TAKE j, k \in DOMAIN timers'
    <2> HAVE timers'[j].co = timers'[k].co
    <2>0. /\ n + j \in DOMAIN timers /\ n + k \in DOMAIN timers
          /\ timers[n + j].co = timers[n + k].co
      BY <1>a, <1>1, <1>2
    <2>1. n + j = n + k
      BY <1>0, <2>0 DEF MapSound
    <2>. QED  BY <1>1, <2>1
  <1>6. InOrderOfTime'
    <2>1. \A j, k \in 1..Len(timers) : j < k => timers[j].at <= timers[k].at
      BY <1>0, <1>a DEF MapSound, InOrderOfTime
    <2>2. \A j, k \in DOMAIN timers' : j < k => n + j < n + k
      BY <1>1
    <2>3. ASSUME NEW j \in DOMAIN timers', NEW k \in DOMAIN timers', j < k
          PROVE  timers'[j].at <= timers'[k].at
      <3>1. /\ n + j \in 1..Len(timers) /\ n + k \in 1..Len(timers) /\ n + j < n + k
            /\ timers'[j] = timers[n + j] /\ timers'[k] = timers[n + k]
        BY <1>1, <1>2, <2>2, <2>3
      <3>. QED  BY <2>1, <3>1
    <2>. QED  BY <2>3 DEF InOrderOfTime
  <1>7. hint' \in Waiters \cup {Nobody}
           /\ (hint' # Nobody => \E j \in 1..Len(timers) : j > n /\ timers[j].co = hint')
    <2>1. CASE hint = Nobody
      BY <1>0, <2>1 DEF HintAfter, MapSound
    <2>2. CASE hint # Nobody
      <3>1. /\ IndexOf(hint) \in 1..Len(timers) /\ timers[IndexOf(hint)].co = hint
        BY <1>0, <1>a, <2>2, IndexOfTimer DEF MapSound
      <3>2. CASE timers[IndexOf(hint)].at <= clock
        <4>1. hint' = IF n < Len(timers) THEN timers[n + 1].co ELSE Nobody
          BY <2>2, <3>2 DEF HintAfter
        <4>2. n < Len(timers) => n + 1 \in 1..Len(timers) /\ n + 1 > n
          BY <1>a
        <4>. QED  BY <1>a, <4>1, <4>2 DEF Timer
      <3>3. CASE ~ (timers[IndexOf(hint)].at <= clock)
        <4>1. hint' = hint
          BY <2>2, <3>3 DEF HintAfter
        <4>2. IndexOf(hint) \notin 1..n
          BY <3>3 DEF ExpiredUpTo
        <4>3. IndexOf(hint) > n
          BY <1>a, <3>1, <4>2
        <4>. QED  BY <1>0, <3>1, <4>1, <4>3 DEF MapSound
      <3>. QED  BY <3>2, <3>3
    <2>. QED  BY <2>1, <2>2
  <1>8. (hint # Nobody => HasTimer(hint))'
    BY <1>1, <1>3, <1>7 DEF HasTimer
  <1>9. \A i \in DOMAIN timers' : n < Len(timers) /\ timers[n + 1].at <= timers'[i].at
    <2> TAKE i \in DOMAIN timers'
    <2>1. /\ n + 1 \in DOMAIN timers /\ n + i \in DOMAIN timers /\ n < Len(timers)
          /\ (n + 1 = n + i) \/ (n + 1 < n + i)
      <3>1. i \in 1..(Len(timers) - n)
        BY <1>1
      <3>2. /\ n < Len(timers) /\ n + 1 \in 1..Len(timers) /\ n + i \in 1..Len(timers)
            /\ (n + 1 = n + i) \/ (n + 1 < n + i)
        BY <1>a, <3>1
      <3>. QED  BY <1>a, <3>2
    <2>2. timers[n + 1].at <= timers[n + i].at
      <3>1. timers[n + 1].at \in Nat
        BY <1>a, <2>1 DEF Timer
      <3>2. n + 1 < n + i => timers[n + 1].at <= timers[n + i].at
        BY <1>0, <2>1 DEF MapSound, InOrderOfTime
      <3>. QED  BY <2>1, <3>1, <3>2
    <2>. QED  BY <1>1, <2>1, <2>2
  <1>. QED  BY <1>1, <1>4, <1>5, <1>6, <1>7, <1>8, <1>9 DEF MapSound

-----------------------------------------------------------------------------
(* Each step preserves the invariant                                       *)

LEMMA TimersInitial == TimersInit => TimersInv
  <1> SUFFICES ASSUME TimersInit PROVE TimersInv
    OBVIOUS
  <1>1. /\ <<>> \in Seq(Timer) /\ <<>> \in Seq(Waiters) /\ DOMAIN <<>> = {}
    BY EmptySeq, LenProperties
  <1>2. /\ \A w : ~ HasTimer(w) /\ ~ IsDue(w)
    BY <1>1 DEF TimersInit, HasTimer, IsDue
  <1>3. TimersTypeOK
    BY <1>1, TimersAssumption DEF TimersInit, TimersTypeOK, Timer
  <1>4. /\ TimersSafe /\ TimersInTime /\ InOrderOfTime /\ DueOnce /\ ClaimedOnce
        /\ Awake /\ looked <= clock
    BY <1>1, <1>2 DEF TimersInit, TimersSafe, TimersInTime, InOrderOfTime, DueOnce,
       ClaimedOnce, Awake, Suspended
  <1>. QED  BY <1>3, <1>4 DEF TimersInv

(* Steps that leave the map and the list of the due alone.                 *)
LEMMA MapUnchanged ==
    ASSUME UNCHANGED <<timers, hint, due>>
    PROVE  /\ \A w : HasTimer(w)' <=> HasTimer(w)
           /\ \A w : IsDue(w)' <=> IsDue(w)
           /\ HasTimer(hint)' <=> HasTimer(hint)
  BY DEF HasTimer, IsDue

LEMMA TimersQuiet ==
    ASSUME TimersInv,
           PassTime \/ EpollReturns \/ RoundEnds \/ UNCHANGED tmVars
    PROVE  TimersInv'
  <1>1. UNCHANGED <<timers, hint, due, coVars, readyCo, waitMs, looked>>
    BY DEF PassTime, EpollReturns, RoundEnds, tmVars, loVars, coVars
  <1>2. /\ clock' \in 0..EndOfTime /\ clock <= clock'
        /\ phase' \in {"poll", "tasks", "due"}
    BY TimersAssumption DEF TimersInv, TimersTypeOK, PassTime, EpollReturns, RoundEnds, tmVars, loVars
  <1>3. phase' # "due" => due = <<>>
    BY DEF TimersInv, DueOnce, PassTime, EpollReturns, RoundEnds, tmVars, loVars
  <1>4. TimersTypeOK'
    BY <1>1, <1>2 DEF TimersInv, TimersTypeOK, coVars
  <1>5. TimersSafe' /\ TimersInTime'
    BY <1>1, MapUnchanged DEF TimersInv, TimersSafe, TimersInTime, coVars
  <1>6. InOrderOfTime' /\ DueOnce' /\ ClaimedOnce' /\ Awake'
    BY <1>1, <1>3, MapUnchanged DEF TimersInv, InOrderOfTime, DueOnce, ClaimedOnce, Awake, coVars
  <1>7. (looked <= clock)'
    BY <1>1, <1>2, TimersAssumption DEF TimersInv, TimersTypeOK
  <1>. QED  BY <1>4, <1>5, <1>6, <1>7 DEF TimersInv

LEMMA TimersEndTask ==
    ASSUME TimersInv, EndTask
    PROVE  TimersInv'
  <1>1. /\ active \in Waiters /\ where[active] = "runs"
        /\ ~ HasTimer(active) /\ ~ IsDue(active) /\ active \notin readyCo
        /\ UNCHANGED <<timers, hint, due, clock, it, readyCo, phase, waitMs, looked>>
        /\ active' = Nobody
        /\ where' = [where EXCEPT ![active] = "new"]
        /\ waitx' = [waitx EXCEPT ![active] = "none"]
    BY DEF TimersInv, TimersTypeOK, EndTask, Awake, ClaimedOnce, TimersSafe, loVars, Suspended
  <1>2. TimersTypeOK'
    BY <1>1 DEF TimersInv, TimersTypeOK
  <1>3. TimersSafe'
    BY <1>1, MapUnchanged DEF TimersInv, TimersTypeOK, TimersSafe
  <1>4. TimersInTime'
    BY <1>1, MapUnchanged DEF TimersInv, TimersTypeOK, TimersInTime
  <1>5. ClaimedOnce'
    BY <1>1, MapUnchanged DEF TimersInv, TimersTypeOK, ClaimedOnce, Suspended
  <1>6. InOrderOfTime' /\ DueOnce' /\ Awake' /\ (looked <= clock)'
    BY <1>1 DEF TimersInv, InOrderOfTime, DueOnce, Awake
  <1>. QED  BY <1>2, <1>3, <1>4, <1>5, <1>6 DEF TimersInv

LEMMA TimersSignal ==
    ASSUME TimersInv, NEW v \in Waiters, SignalWaitx(v)
    PROVE  TimersInv'
  <1>1. /\ where[v] = "event" /\ waitx[v] = "wait" /\ ~ IsDue(v)
        /\ UNCHANGED <<timers, hint, due, clock, it, where, active, phase, waitMs, looked>>
        /\ waitx' = [waitx EXCEPT ![v] = "ready"]
        /\ readyCo' = readyCo \cup {v}
    BY DEF TimersInv, TimersTypeOK, SignalWaitx, ClaimedOnce
  <1>2. TimersTypeOK'
    BY <1>1 DEF TimersInv, TimersTypeOK
  <1>3. TimersSafe'
    BY <1>1, MapUnchanged DEF TimersInv, TimersTypeOK, TimersSafe
  <1>4. TimersInTime'
    BY <1>1, MapUnchanged DEF TimersInv, TimersTypeOK, TimersInTime
  <1>5. ClaimedOnce'
    BY <1>1, MapUnchanged DEF TimersInv, TimersTypeOK, ClaimedOnce, Suspended
  <1>6. InOrderOfTime' /\ DueOnce' /\ Awake' /\ (looked <= clock)'
    BY <1>1 DEF TimersInv, InOrderOfTime, DueOnce, Awake
  <1>. QED  BY <1>2, <1>3, <1>4, <1>5, <1>6 DEF TimersInv

LEMMA TimersSuspend ==
    ASSUME TimersInv, NEW k \in {"sleep", "io", "event"}, NEW ms \in Delays, Suspend(k, ms)
    PROVE  TimersInv'
  <1>1. /\ active \in Waiters /\ where[active] = "runs" /\ active # Nobody
        /\ ~ IsDue(active) /\ active \notin readyCo
        /\ clock \in Nat /\ ms \in Nat /\ looked \in Nat
    BY TimersAssumption
       DEF TimersInv, TimersTypeOK, Suspend, Awake, ClaimedOnce, Suspended
  <1>2. /\ UNCHANGED <<clock, due, readyCo, phase, looked>>
        /\ active' = Nobody
        /\ it' = [it EXCEPT ![active] = (k # "sleep")]
        /\ waitx' = [waitx EXCEPT ![active] = IF k = "event" THEN "wait" ELSE "none"]
        /\ where' = [where EXCEPT ![active] = k]
        /\ waitMs' = NewWait(ms)
    BY DEF Suspend
  <1>3. /\ MapSound'
        /\ \A w \in Waiters : HasTimer(w)' <=> HasTimer(w) \/ w = active
        /\ \A i \in DOMAIN timers' :
              \/ \E j \in DOMAIN timers : timers'[i] = timers[j]
              \/ timers'[i].at = clock + ms
    BY SuspendMap
  <1>4. \A w : IsDue(w)' <=> IsDue(w)
    BY <1>2 DEF IsDue
  <1>5. /\ waitMs' \in Nat /\ waitMs' <= ms
        /\ waitMs # Infinite => waitMs' <= waitMs
        /\ waitMs' # Infinite
    BY <1>1, <1>2, TimersAssumption DEF TimersInv, TimersTypeOK, NewWait, Infinite
  <1>6. TimersTypeOK'
    <2>1. /\ timers' \in Seq([co : Waiters, at : Nat]) /\ hint' \in Waiters \cup {Nobody}
      BY <1>3 DEF MapSound, Timer
    <2>2. it' \in [Waiters -> BOOLEAN]
      BY <1>2 DEF TimersInv, TimersTypeOK
    <2>. QED  BY <1>1, <1>2, <1>5, <2>1, <2>2 DEF TimersInv, TimersTypeOK
  <1>7. TimersSafe'
    <2>1. (hint # Nobody => HasTimer(hint))'
      BY <1>3 DEF MapSound
    <2>2. (\A i, j \in DOMAIN timers : timers[i].co = timers[j].co => i = j)'
      BY <1>3 DEF MapSound
    <2>3. \A w \in Waiters : it'[w] => HasTimer(w)'
      BY <1>1, <1>2, <1>3 DEF TimersInv, TimersTypeOK, TimersSafe
    <2>4. \A w \in Waiters :
             HasTimer(w)' => where'[w] \in {"sleep", "io", "event"} /\ ~ IsDue(w)'
      BY <1>1, <1>2, <1>3, <1>4 DEF TimersInv, TimersTypeOK, TimersSafe
    <2>. QED  BY <2>1, <2>2, <2>3, <2>4 DEF TimersSafe
  <1>8. TimersInTime'
    <2>1. ASSUME NEW i \in DOMAIN timers'
          PROVE  waitMs' # Infinite /\ looked' + waitMs' <= timers'[i].at
      <3>1. CASE \E j \in DOMAIN timers : timers'[i] = timers[j]
        <4>1. PICK j \in DOMAIN timers : timers'[i] = timers[j]
          BY <3>1
        <4>2. waitMs # Infinite /\ looked + waitMs <= timers[j].at
          BY DEF TimersInv, TimersInTime
        <4>3. timers[j].at \in Nat
          <5>1. timers \in Seq(Timer)
            BY MapOfInv DEF MapSound
          <5>2. timers[j] \in Timer
            BY <5>1, LenProperties, ElementOfSeq
          <5>. QED  BY <5>2 DEF Timer
        <4>4. waitMs \in Nat
          BY <4>2, TimersAssumption DEF TimersInv, TimersTypeOK
        <4>. QED  BY <1>1, <1>2, <1>5, <4>1, <4>2, <4>3, <4>4
      <3>2. CASE timers'[i].at = clock + ms
        <4>1. looked <= clock
          BY DEF TimersInv
        <4>. QED  BY <1>1, <1>2, <1>5, <3>2, <4>1
      <3>. QED  BY <1>3, <3>1, <3>2
    <2>2. \A w \in Waiters :
             where'[w] \in {"sleep", "io", "event"} => HasTimer(w)' \/ IsDue(w)' \/ w \in readyCo'
      BY <1>1, <1>2, <1>3, <1>4 DEF TimersInv, TimersTypeOK, TimersInTime
    <2>. QED  BY <2>1, <2>2 DEF TimersInTime
  <1>9. ClaimedOnce'
    <2>1. \A w \in Waiters : w # active =>
             /\ HasTimer(w)' <=> HasTimer(w)
             /\ it'[w] = it[w] /\ where'[w] = where[w] /\ waitx'[w] = waitx[w]
      BY <1>1, <1>2, <1>3 DEF TimersInv, TimersTypeOK
    <2>2. /\ it'[active] = (k # "sleep") /\ where'[active] = k
          /\ waitx'[active] = IF k = "event" THEN "wait" ELSE "none"
      BY <1>1, <1>2 DEF TimersInv, TimersTypeOK
    <2>3. ASSUME NEW w \in Waiters
          PROVE  /\ HasTimer(w)' => (it'[w] \/ where'[w] = "sleep") /\ waitx'[w] # "timeout"
                 /\ IsDue(w)' => where'[w] \in Suspended /\ waitx'[w] \in {"none", "timeout"}
                 /\ where'[w] = "event" => waitx'[w] # "none"
                 /\ where'[w] \in {"sleep", "io"} => waitx'[w] = "none"
                 /\ w \in readyCo' <=> where'[w] \in Suspended /\ waitx'[w] = "ready"
      <3>1. CASE w = active
        <4>1. it'[w] \/ where'[w] = "sleep"
          BY <2>2, <3>1, Zenon
        <4>2. waitx'[w] # "timeout" /\ waitx'[w] # "ready"
          BY <2>2, <3>1
        <4>3. ~ IsDue(w)' /\ w \notin readyCo'
          BY <1>1, <1>2, <1>4, <3>1
        <4>4. where'[w] = "event" => waitx'[w] # "none"
          BY <2>2, <3>1
        <4>5. where'[w] \in {"sleep", "io"} => waitx'[w] = "none"
          BY <2>2, <3>1
        <4>. QED  BY <4>1, <4>2, <4>3, <4>4, <4>5
      <3>2. CASE w # active
        BY <1>2, <1>4, <2>1, <3>2 DEF TimersInv, ClaimedOnce
      <3>. QED  BY <3>1, <3>2
    <2>. QED  BY <2>3 DEF ClaimedOnce
  <1>10. InOrderOfTime' /\ DueOnce' /\ Awake' /\ (looked <= clock)'
    BY <1>2, <1>3 DEF TimersInv, MapSound, DueOnce, Awake
  <1>. QED  BY <1>6, <1>7, <1>8, <1>9, <1>10 DEF TimersInv

(* What the three ways to resume a coroutine have in common.               *)
LEMMA TimersResume ==
    ASSUME TimersInv, NEW v \in Waiters, ResumeCo(v),
           where[v] \in {"new", "io", "event"} \/ IsDue(v),
           readyCo' = readyCo \ {v}, UNCHANGED phase,
           due' \in Seq(Waiters), DueOnce', ~ IsDue(v)',
           \A w \in Waiters \ {v} : IsDue(w)' <=> IsDue(w)
    PROVE  TimersInv'
  <1>1. /\ active = Nobody /\ active' = v
        /\ it' = [it EXCEPT ![v] = FALSE]
        /\ where' = [where EXCEPT ![v] = "runs"]
        /\ UNCHANGED <<clock, waitx, waitMs, looked>>
    BY DEF ResumeCo
  <1>2. HasTimer(v) => it[v]
    <2>1. HasTimer(v) => (it[v] \/ where[v] = "sleep") /\ ~ IsDue(v)
      BY DEF TimersInv, TimersSafe, ClaimedOnce
    <2>2. where[v] = "sleep" => IsDue(v)
      OBVIOUS
    <2>. QED  BY <2>1, <2>2
  <1>3. /\ MapSound'
        /\ \A w \in Waiters : HasTimer(w)' <=> HasTimer(w) /\ w # v
        /\ \A i \in DOMAIN timers' : \E j \in DOMAIN timers : timers'[i] = timers[j]
    BY <1>2, ResumeMap
  <1>4. TimersTypeOK'
    <2>1. /\ timers' \in Seq([co : Waiters, at : Nat]) /\ hint' \in Waiters \cup {Nobody}
      BY <1>3 DEF MapSound, Timer
    <2>2. it' \in [Waiters -> BOOLEAN]
      BY <1>1 DEF TimersInv, TimersTypeOK
    <2>. QED  BY <1>1, <2>1, <2>2 DEF TimersInv, TimersTypeOK
  <1>5. TimersSafe'
    <2>1. (hint # Nobody => HasTimer(hint))'
      BY <1>3 DEF MapSound
    <2>2. (\A i, j \in DOMAIN timers : timers[i].co = timers[j].co => i = j)'
      BY <1>3 DEF MapSound
    <2>3. \A w \in Waiters : it'[w] => HasTimer(w)'
      BY <1>1, <1>3 DEF TimersInv, TimersTypeOK, TimersSafe
    <2>4. \A w \in Waiters :
             HasTimer(w)' => where'[w] \in {"sleep", "io", "event"} /\ ~ IsDue(w)'
      BY <1>1, <1>3 DEF TimersInv, TimersTypeOK, TimersSafe
    <2>. QED  BY <2>1, <2>2, <2>3, <2>4 DEF TimersSafe
  <1>6. TimersInTime'
    <2>1. \A i \in DOMAIN timers' : waitMs' # Infinite /\ looked' + waitMs' <= timers'[i].at
      BY <1>1, <1>3 DEF TimersInv, TimersInTime
    <2>2. \A w \in Waiters :
             where'[w] \in {"sleep", "io", "event"} => HasTimer(w)' \/ IsDue(w)' \/ w \in readyCo'
      BY <1>1, <1>3 DEF TimersInv, TimersTypeOK, TimersInTime
    <2>. QED  BY <2>1, <2>2 DEF TimersInTime
  <1>7. ClaimedOnce'
    <2>1. \A w \in Waiters \ {v} :
             /\ HasTimer(w)' <=> HasTimer(w)
             /\ IsDue(w)' <=> IsDue(w)
             /\ w \in readyCo' <=> w \in readyCo
             /\ it'[w] = it[w] /\ where'[w] = where[w] /\ waitx'[w] = waitx[w]
      BY <1>1, <1>3 DEF TimersInv, TimersTypeOK
    <2>2. /\ ~ HasTimer(v)' /\ ~ IsDue(v)' /\ v \notin readyCo' /\ where'[v] = "runs"
      BY <1>1, <1>3 DEF TimersInv, TimersTypeOK
    <2>3. ASSUME NEW w \in Waiters
          PROVE  /\ HasTimer(w)' => (it'[w] \/ where'[w] = "sleep") /\ waitx'[w] # "timeout"
                 /\ IsDue(w)' => where'[w] \in Suspended /\ waitx'[w] \in {"none", "timeout"}
                 /\ where'[w] = "event" => waitx'[w] # "none"
                 /\ where'[w] \in {"sleep", "io"} => waitx'[w] = "none"
                 /\ w \in readyCo' <=> where'[w] \in Suspended /\ waitx'[w] = "ready"
      <3>1. CASE w = v
        BY <2>2, <3>1 DEF Suspended
      <3>2. CASE w # v
        BY <2>1, <3>2 DEF TimersInv, ClaimedOnce
      <3>. QED  BY <3>1, <3>2
    <2>. QED  BY <2>3 DEF ClaimedOnce
  <1>8. Awake' /\ (looked <= clock)'
    BY <1>1 DEF TimersInv, TimersTypeOK, Awake
  <1>9. InOrderOfTime'
    BY <1>3 DEF MapSound
  <1>. QED  BY <1>4, <1>5, <1>6, <1>7, <1>8, <1>9 DEF TimersInv

LEMMA TimersResumeForEvent ==
    ASSUME TimersInv, NEW v \in Waiters, ResumeForEvent(v)
    PROVE  TimersInv'
  <1>1. /\ where[v] = "io" /\ phase = "poll" /\ ResumeCo(v)
        /\ UNCHANGED <<readyCo, due, phase>>
    BY DEF ResumeForEvent
  <1>2. due = <<>> /\ waitx[v] = "none"
    BY <1>1 DEF TimersInv, DueOnce, ClaimedOnce
  <1>3. readyCo' = readyCo \ {v}
    BY <1>1, <1>2 DEF TimersInv, ClaimedOnce
  <1>4. \A w : ~ IsDue(w) /\ ~ IsDue(w)'
    <2>1. DOMAIN due = {} /\ DOMAIN due' = {}
      BY <1>1, <1>2
    <2>. QED  BY <2>1 DEF IsDue
  <1>5. due' \in Seq(Waiters) /\ DueOnce'
    BY <1>1 DEF TimersInv, TimersTypeOK, DueOnce
  <1>. QED  BY <1>1, <1>3, <1>4, <1>5, TimersResume

LEMMA TimersResumeTask ==
    ASSUME TimersInv, NEW v \in Waiters, ResumeTask(v)
    PROVE  TimersInv'
  <1>1. /\ phase = "tasks" /\ ResumeCo(v)
        /\ where[v] = "new" \/ v \in readyCo
        /\ readyCo' = readyCo \ {v} /\ UNCHANGED <<due, phase>>
    BY DEF ResumeTask
  <1>2. where[v] \in {"new", "io", "event"}
    BY <1>1 DEF TimersInv, ClaimedOnce, Suspended
  <1>3. due = <<>>
    BY <1>1 DEF TimersInv, DueOnce
  <1>4. \A w : ~ IsDue(w) /\ ~ IsDue(w)'
    <2>1. DOMAIN due = {} /\ DOMAIN due' = {}
      BY <1>1, <1>3
    <2>. QED  BY <2>1 DEF IsDue
  <1>5. due' \in Seq(Waiters) /\ DueOnce'
    BY <1>1 DEF TimersInv, TimersTypeOK, DueOnce
  <1>. QED  BY <1>1, <1>2, <1>4, <1>5, TimersResume

LEMMA TimersResumeDue ==
    ASSUME TimersInv, ResumeDue
    PROVE  TimersInv'
  <1>0. /\ phase = "due" /\ due # <<>> /\ due' = Tail(due)
        /\ UNCHANGED <<readyCo, phase>>
    BY DEF ResumeDue
  <1>1. PICK v : v = Head(due)
    OBVIOUS
  <1>2. ResumeCo(v)
    BY <1>1 DEF ResumeDue
  <1>3. /\ due \in Seq(Waiters) /\ Len(due) \in Nat \ {0} /\ DOMAIN due = 1..Len(due)
    BY <1>0, EmptySeq, LenProperties DEF TimersInv, TimersTypeOK
  <1>4. /\ due' \in Seq(Waiters) /\ DOMAIN due' = 1..(Len(due) - 1)
        /\ \A i \in 1..(Len(due) - 1) : due'[i] = due[i + 1]
        /\ v \in Waiters /\ v = due[1]
    <2>1. /\ Tail(due) \in Seq(Waiters) /\ Len(Tail(due)) = Len(due) - 1
          /\ \A i \in 1..Len(Tail(due)) : Tail(due)[i] = due[i + 1]
          /\ Head(due) \in Waiters
      BY <1>0, <1>3, HeadTailProperties
    <2>2. Head(due) = due[1]
      BY <1>3
    <2>. QED  BY <1>0, <1>1, <2>1, <2>2, LenProperties
  <1>5. \A i, j \in 1..Len(due) : due[i] = due[j] => i = j
    BY <1>3 DEF TimersInv, DueOnce
  <1>6. IsDue(v)
    BY <1>3, <1>4 DEF IsDue
  <1>7. ~ IsDue(v)'
    <2>1. ASSUME NEW i \in 1..(Len(due) - 1), due'[i] = v PROVE FALSE
      <3>1. i + 1 \in 1..Len(due) /\ 1 \in 1..Len(due) /\ due[i + 1] = due[1]
        BY <1>3, <1>4, <2>1
      <3>2. i + 1 = 1
        BY <1>5, <3>1
      <3>. QED  BY <3>2
    <2>. QED  BY <1>4, <2>1 DEF IsDue
  <1>8. \A w \in Waiters \ {v} : IsDue(w)' <=> IsDue(w)
    <2> TAKE w \in Waiters \ {v}
    <2>1. ASSUME NEW i \in 1..Len(due), due[i] = w
          PROVE  IsDue(w)'
      <3>1. i # 1
        BY <1>4, <2>1
      <3>2. i - 1 \in 1..(Len(due) - 1) /\ i - 1 + 1 = i
        BY <1>3, <3>1
      <3>. QED  BY <1>4, <2>1, <3>2 DEF IsDue
    <2>2. ASSUME NEW i \in 1..(Len(due) - 1), due'[i] = w
          PROVE  IsDue(w)
      <3>1. i + 1 \in 1..Len(due)
        BY <1>3
      <3>. QED  BY <1>3, <1>4, <2>2, <3>1 DEF IsDue
    <2>. QED  BY <1>3, <1>4, <2>1, <2>2 DEF IsDue
  <1>9. DueOnce'
    <2>1. ASSUME NEW i \in 1..(Len(due) - 1), NEW j \in 1..(Len(due) - 1), due'[i] = due'[j]
          PROVE  i = j
      <3>1. i + 1 \in 1..Len(due) /\ j + 1 \in 1..Len(due)
        BY <1>3
      <3>2. i + 1 = j + 1
        BY <1>4, <1>5, <2>1, <3>1
      <3>. QED  BY <3>2
    <2>. QED  BY <1>0, <1>4, <2>1 DEF DueOnce
  <1>10. readyCo' = readyCo \ {v}
    BY <1>0, <1>4, <1>6 DEF TimersInv, ClaimedOnce
  <1>. QED  BY <1>0, <1>2, <1>4, <1>6, <1>7, <1>8, <1>9, <1>10, TimersResume

(* A sequence of as many coroutines as there are in a set, none of them    *)
(* twice, has them all.                                                    *)
LEMMA OrderedAll ==
    ASSUME MapSound, NEW S \in SUBSET Waiters, IsFiniteSet(S), NEW d \in InOrder(S),
           \A w \in S : HasTimer(w)
    PROVE  /\ d \in Seq(Waiters) /\ DOMAIN d = 1..Cardinality(S)
           /\ \A i, j \in DOMAIN d : d[i] = d[j] => i = j
           /\ \A w : w \in S <=> \E i \in DOMAIN d : d[i] = w
  <1>1. /\ Cardinality(S) \in Nat
        /\ d \in [1..Cardinality(S) -> S]
        /\ \A i, j \in DOMAIN d : i < j => IndexOf(d[i]) < IndexOf(d[j])
    BY FS_CardinalityType DEF InOrder
  <1>2. \A w \in S : IndexOf(w) \in Nat
    <2>1. DOMAIN timers = 1..Len(timers)
      BY LenProperties DEF MapSound
    <2>. QED  BY <2>1, IndexOfTimer
  <1>3. \A i, j \in DOMAIN d : d[i] = d[j] => i = j
    <2> TAKE i, j \in DOMAIN d
    <2> HAVE d[i] = d[j]
    <2>1. IndexOf(d[i]) \in Nat /\ IndexOf(d[j]) = IndexOf(d[i])
      BY <1>1, <1>2
    <2>2. ~ (i < j) /\ ~ (j < i)
      BY <1>1, <2>1
    <2>. QED  BY <1>1, <2>2
  <1>4. ASSUME NEW w \in S, \A i \in DOMAIN d : d[i] # w
        PROVE  FALSE
    <2>1. /\ IsFiniteSet(S \ {w}) /\ Cardinality(S \ {w}) = Cardinality(S) - 1
      BY FS_RemoveElement
    <2>2. /\ IsFiniteSet(1..Cardinality(S)) /\ Cardinality(1..Cardinality(S)) = Cardinality(S)
      <3>1. /\ IsFiniteSet(1..Cardinality(S))
            /\ Cardinality(1..Cardinality(S)) =
                  IF 1 > Cardinality(S) THEN 0 ELSE Cardinality(S) - 1 + 1
        BY <1>1, FS_Interval
      <3>. QED  BY <1>1, <3>1
    <2>3. d \in [1..Cardinality(S) -> S \ {w}]
      BY <1>1, <1>4
    <2>4. \E i, j \in 1..Cardinality(S) : i # j /\ d[i] = d[j]
      <3>1. Cardinality(S \ {w}) < Cardinality(1..Cardinality(S))
        BY <1>1, <2>1, <2>2
      <3>. QED  BY <2>1, <2>2, <2>3, <3>1, FS_PigeonHole
    <2>. QED  BY <1>1, <1>3, <2>4
  <1>5. d \in Seq(Waiters)
    <2>1. d \in [1..Cardinality(S) -> Waiters]
      BY <1>1
    <2>. QED  BY <1>1, <2>1, SeqDef
  <1>. QED  BY <1>1, <1>3, <1>4, <1>5

LEMMA TimersTimeout ==
    ASSUME TimersInv, CheckTimeout
    PROVE  TimersInv'
  <1>0. MapSound
    BY MapOfInv
  <1>1. PICK n \in 0..Len(timers) :
          LET gone  == {timers[i].co : i \in 1..n}
              taken == {w \in gone : waitx[w] \in {"none", "wait"}}
          IN  /\ ExpiredUpTo(n)
              /\ timers' = SubSeq(timers, n + 1, Len(timers))
              /\ hint' = HintAfter(n)
              /\ it' = [w \in Waiters |-> it[w] /\ w \notin gone]
              /\ waitx' = [w \in Waiters |->
                             IF w \in gone /\ waitx[w] = "wait" THEN "timeout" ELSE waitx[w]]
              /\ due' \in InOrder(taken)
              /\ waitMs' = IF n < Len(timers) THEN timers[n + 1].at - clock ELSE Infinite
    BY DEF CheckTimeout
  <1> DEFINE gone  == {timers[i].co : i \in 1..n}
             taken == {w \in gone : waitx[w] \in {"none", "wait"}}
  <1>2. /\ phase = "tasks" /\ active = Nobody /\ due = <<>>
        /\ looked' = clock /\ phase' = "due"
        /\ UNCHANGED <<clock, where, active, readyCo>>
    BY DEF CheckTimeout, TimersInv, DueOnce
  <1>a. /\ DOMAIN timers = 1..Len(timers) /\ Len(timers) \in Nat
        /\ \A j \in 1..Len(timers) : timers[j] \in Timer
    BY <1>0, LenProperties, ElementOfSeq DEF MapSound
  <1>3. \A w \in gone : w \in Waiters /\ HasTimer(w)
    BY <1>a DEF HasTimer, Timer
  <1>4. IsFiniteSet(gone)
    <2>1. IsFiniteSet(1..n)
      BY <1>a, FS_Interval
    <2> DEFINE f == [i \in 1..n |-> timers[i].co]
    <2>2. f \in Surjection(1..n, gone)
      BY DEF Surjection
    <2>. HIDE DEF f, gone
    <2>. QED  BY <2>1, <2>2, FS_Surjection
  <1>5. taken \in SUBSET gone /\ taken \in SUBSET Waiters /\ IsFiniteSet(taken)
    BY <1>3, <1>4, FS_Subset
  <1>6. /\ MapSound'
        /\ \A v \in Waiters : HasTimer(v)' <=> HasTimer(v) /\ v \notin gone
        /\ Len(timers') = Len(timers) - n
        /\ \A i \in DOMAIN timers' : n < Len(timers) /\ timers[n + 1].at <= timers'[i].at
    BY <1>1, TimeoutMap
  <1>7. /\ it' = [w \in Waiters |-> it[w] /\ w \notin gone]
        /\ waitx' = [w \in Waiters |->
                       IF w \in gone /\ waitx[w] = "wait" THEN "timeout" ELSE waitx[w]]
        /\ due' \in InOrder(taken)
        /\ waitMs' = IF n < Len(timers) THEN timers[n + 1].at - clock ELSE Infinite
        /\ n < Len(timers) => timers[n + 1].at > clock
    BY <1>1 DEF ExpiredUpTo
  <1>. HIDE DEF gone
  <1>8. \A w : w \in taken <=> w \in gone /\ waitx[w] \in {"none", "wait"}
    OBVIOUS
  <1>. HIDE DEF taken
  <1>9. /\ due' \in Seq(Waiters)
        /\ \A i, j \in DOMAIN due' : due'[i] = due'[j] => i = j
        /\ \A w : IsDue(w)' <=> w \in taken
    <2>1. \A w \in taken : HasTimer(w)
      BY <1>3, <1>5
    <2>2. /\ due' \in Seq(Waiters)
          /\ \A i, j \in DOMAIN due' : due'[i] = due'[j] => i = j
          /\ \A w : w \in taken <=> \E i \in DOMAIN due' : due'[i] = w
      BY <1>0, <1>5, <1>7, <2>1, OrderedAll
    <2>. QED  BY <2>2 DEF IsDue
  <1>10. \A w : ~ IsDue(w)
    BY <1>2 DEF IsDue
  <1>11. waitMs' \in {Infinite} \cup Nat
         /\ (n < Len(timers) => waitMs' # Infinite /\ looked' + waitMs' = timers[n + 1].at)
    <2>1. CASE n < Len(timers)
      <3>1. timers[n + 1].at \in Nat /\ clock \in Nat
        BY <1>a, <2>1, TimersAssumption DEF Timer, TimersInv, TimersTypeOK
      <3>. QED  BY <1>2, <1>7, <2>1, <3>1 DEF Infinite
    <2>2. CASE ~ (n < Len(timers))
      BY <1>7, <2>2
    <2>. QED  BY <2>1, <2>2
  <1>12. TimersTypeOK'
    <2>1. /\ timers' \in Seq([co : Waiters, at : Nat]) /\ hint' \in Waiters \cup {Nobody}
      BY <1>6 DEF MapSound, Timer
    <2>2. it' \in [Waiters -> BOOLEAN]
      BY <1>7, Zenon DEF TimersInv, TimersTypeOK
    <2>3. waitx' \in [Waiters -> {"none", "wait", "ready", "timeout"}]
      BY <1>7 DEF TimersInv, TimersTypeOK
    <2>. QED  BY <1>2, <1>9, <1>11, <2>1, <2>2, <2>3 DEF TimersInv, TimersTypeOK
  <1>13. TimersSafe'
    <2>1. (hint # Nobody => HasTimer(hint))'
      BY <1>6 DEF MapSound
    <2>2. (\A i, j \in DOMAIN timers : timers[i].co = timers[j].co => i = j)'
      BY <1>6 DEF MapSound
    <2>3. \A w \in Waiters : it'[w] => HasTimer(w)'
      BY <1>6, <1>7 DEF TimersInv, TimersSafe
    <2>4. \A w \in Waiters :
             HasTimer(w)' => where'[w] \in {"sleep", "io", "event"} /\ ~ IsDue(w)'
      BY <1>2, <1>5, <1>6, <1>9 DEF TimersInv, TimersSafe
    <2>. QED  BY <2>1, <2>2, <2>3, <2>4 DEF TimersSafe
  <1>14. TimersInTime'
    <2>1. \A i \in DOMAIN timers' : waitMs' # Infinite /\ looked' + waitMs' <= timers'[i].at
      BY <1>6, <1>11
    <2>2. ASSUME NEW w \in Waiters, where'[w] \in {"sleep", "io", "event"}
          PROVE  HasTimer(w)' \/ IsDue(w)' \/ w \in readyCo'
      <3>1. HasTimer(w) \/ w \in readyCo
        BY <1>2, <1>10, <2>2 DEF TimersInv, TimersInTime
      <3>2. CASE HasTimer(w) /\ w \in gone
        <4>1. waitx[w] \in {"none", "wait", "ready"}
          BY <3>2 DEF TimersInv, TimersTypeOK, ClaimedOnce
        <4>2. waitx[w] = "ready" => w \in readyCo
          BY <1>2, <2>2 DEF TimersInv, ClaimedOnce, Suspended
        <4>. QED  BY <1>2, <1>8, <1>9, <3>2, <4>1, <4>2
      <3>. QED  BY <1>2, <1>6, <3>1, <3>2
    <2>. QED  BY <2>1, <2>2 DEF TimersInTime
  <1>15. ClaimedOnce'
    <2>1. ASSUME NEW w \in Waiters
          PROVE  /\ HasTimer(w)' => (it'[w] \/ where'[w] = "sleep") /\ waitx'[w] # "timeout"
                 /\ IsDue(w)' => where'[w] \in Suspended /\ waitx'[w] \in {"none", "timeout"}
                 /\ where'[w] = "event" => waitx'[w] # "none"
                 /\ where'[w] \in {"sleep", "io"} => waitx'[w] = "none"
                 /\ w \in readyCo' <=> where'[w] \in Suspended /\ waitx'[w] = "ready"
      <3>0. /\ HasTimer(w) => (it[w] \/ where[w] = "sleep") /\ waitx[w] # "timeout"
            /\ where[w] = "event" => waitx[w] # "none"
            /\ where[w] \in {"sleep", "io"} => waitx[w] = "none"
            /\ w \in readyCo <=> where[w] \in Suspended /\ waitx[w] = "ready"
        BY DEF TimersInv, ClaimedOnce
      <3>1. waitx'[w] = IF w \in gone /\ waitx[w] = "wait" THEN "timeout" ELSE waitx[w]
        BY <1>7
      <3>2. HasTimer(w)' => (it'[w] \/ where'[w] = "sleep") /\ waitx'[w] # "timeout"
        <4>1. HasTimer(w)' => (it'[w] \/ where'[w] = "sleep")
          BY <1>2, <1>6, <1>7, <3>0, Zenon
        <4>2. HasTimer(w)' => waitx'[w] # "timeout"
          BY <1>6, <3>0, <3>1
        <4>. QED  BY <4>1, <4>2
      <3>3. IsDue(w)' => where'[w] \in Suspended /\ waitx'[w] \in {"none", "timeout"}
        BY <1>2, <1>3, <1>8, <1>9, <3>1 DEF TimersInv, TimersSafe, Suspended
      <3>4. /\ where'[w] = "event" => waitx'[w] # "none"
            /\ where'[w] \in {"sleep", "io"} => waitx'[w] = "none"
            /\ w \in readyCo' <=> where'[w] \in Suspended /\ waitx'[w] = "ready"
        BY <1>2, <3>0, <3>1
      <3>. QED  BY <3>2, <3>3, <3>4
    <2>. QED  BY <2>1 DEF ClaimedOnce
  <1>16. InOrderOfTime' /\ DueOnce' /\ Awake' /\ (looked <= clock)'
    <2>1. clock <= clock'
      BY <1>2, TimersAssumption DEF TimersInv, TimersTypeOK
    <2>. QED  BY <1>2, <1>6, <1>9, <2>1 DEF MapSound, DueOnce, Awake
  <1>. QED  BY <1>12, <1>13, <1>14, <1>15, <1>16 DEF TimersInv

LEMMA TimersAlways == TimersSpec => []TimersInv
  <1>1. ASSUME TimersInv, [TimersNext]_tmVars
        PROVE  TimersInv'
    BY <1>1, TimersQuiet, TimersEndTask, TimersSignal, TimersSuspend, TimersResumeForEvent,
       TimersResumeTask, TimersResumeDue, TimersTimeout
       DEF TimersNext
  <1>. QED  BY <1>1, TimersInitial, PTL DEF TimersSpec

(* No timer is lost and none is used after it is gone: the hint _it and    *)
(* the iterators the coroutines keep point into the map, epoll_wait never  *)
(* sleeps past the first timer, and who waits has a timer or is about to   *)
(* be resumed, for any coroutines and delays.                              *)
THEOREM TimersStay == TimersSpec => []TimersKept
  <1>1. TimersInv => TimersKept
    BY DEF TimersInv, TimersKept
  <1>. QED  BY <1>1, TimersAlways, PTL

-----------------------------------------------------------------------------
(* The schedulers and stop()                                               *)

Stages == {"out", "number", "weigh", "add", "clear", "wait", "cleared"}
Stopping == {"stop", "wait", "delete"}

ManagerTypeOK ==
    /\ Objects!SmTypeOK
    /\ at \in [Objects!Caller -> Stages \X Nat]
    /\ \A p \in Objects!Caller :
          /\ at[p][1] \in {"add", "clear"} => at[p][2] \in Objects!Sched
          /\ p \in Thread /\ at[p][1] = "wait" => at[p][2] = 0
    /\ \/ stopper \in Stopping \X Objects!Sched
       \/ stopper \in {<<"no", 0>>, <<"clear", 0>>, <<"inactive", 0>>, <<"done", 0>>}
    /\ first \in Seq(Nat)

(* Only a loop that is on runs a coroutine, and no thread calls when       *)
(* stop() has begun.                                                       *)
RunsInLoop == \A s \in Objects!Sched : onCpu[s] # None => loop[s] = "on"
NoCallsAtStop == \A x \in Thread : at[x] # Objects!Out => stopper = <<"no", 0>>

(* stop() has seen the loops end of those before it, and of all of them    *)
(* when it deletes, but for those whose wait has ended early.              *)
EndedBeforeDeleted ==
    /\ stopper[1] \in {"no", "stop", "wait"} => listed /\ exist = Objects!Sched
    /\ stopper[1] \in {"stop", "wait"} =>
          \A s \in Objects!Sched \ early : s < stopper[2] => loop[s] = "over"
    /\ stopper[1] \notin {"no", "stop", "wait"} =>
          \A s \in Objects!Sched \ early : loop[s] = "over"
    /\ stopper[1] \in {"clear", "inactive", "done"} => exist # Objects!Sched
    /\ ~ isActive => stopper[1] = "done"

(* The numbers below g_nco have been given out, each once.                 *)
NumberedOnce ==
    /\ \A i \in DOMAIN first : first[i] < nco
    /\ Objects!FirstSpread

ManagerInv ==
    /\ ManagerTypeOK
    /\ RunsInLoop
    /\ NoCallsAtStop
    /\ EndedBeforeDeleted
    /\ NumberedOnce

(* The names of the instance.                                              *)
LEMMA Named ==
    /\ Objects!Sched = 0..(Count - 1)
    /\ Objects!Job = User \cup Tasks
    /\ Objects!Caller = User \cup Tasks \cup Thread
    /\ Objects!Task = Tasks
    /\ \A x \in Objects!Job : x # None
    /\ \A x : x \in Clearer => x \in Objects!Caller
    /\ Count \in Nat \ {0}
  <1>1. /\ Objects!Sched = 0..(Count - 1)
        /\ Objects!Job = User \cup Tasks
        /\ Objects!Caller = User \cup Tasks \cup Thread
    BY DEF Objects!Sched, Objects!Job, Objects!Caller
  <1>2. Objects!Task = Tasks
    BY DEF Objects!Task, Tasks, Objects!Sched
  <1>. QED  BY <1>1, <1>2, ObjectsAssumption

LEMMA ManagerInitial == Objects!SmInit => ManagerInv
  <1> SUFFICES ASSUME Objects!SmInit PROVE ManagerInv
    OBVIOUS
  <1>1. /\ \A S : <<>> \in Seq(S)
        /\ DOMAIN <<>> = {}
    BY EmptySeq
  <1>2. Objects!SmTypeOK
    BY <1>1, Named DEF Objects!SmInit, Objects!SmTypeOK
  <1>3. at \in [Objects!Caller -> Stages \X Nat]
    BY DEF Objects!SmInit, Objects!Out, Stages
  <1>4. /\ stopper = <<"no", 0>> /\ stopper[1] = "no" /\ first = <<>>
        /\ \A p \in Objects!Caller : at[p] = <<"out", 0>> /\ at[p][1] = "out"
    BY DEF Objects!SmInit, Objects!Out
  <1>5. ManagerTypeOK
    BY <1>1, <1>2, <1>3, <1>4 DEF ManagerTypeOK
  <1>6. RunsInLoop /\ EndedBeforeDeleted /\ NumberedOnce
    BY <1>1, <1>4 DEF Objects!SmInit, RunsInLoop, EndedBeforeDeleted, NumberedOnce, Objects!FirstSpread
  <1>7. NoCallsAtStop
    BY <1>4 DEF NoCallsAtStop
  <1>. QED  BY <1>5, <1>6, <1>7 DEF ManagerInv

(* A caller goes on inside go() or clear().                                *)
LEMMA ManagerCall ==
    ASSUME ManagerInv, NEW p \in Objects!Caller, NEW to \in Stages \X Nat,
           at' = [at EXCEPT ![p] = to],
           to[1] \in {"add", "clear"} => to[2] \in Objects!Sched,
           p \in Thread /\ to[1] = "wait" => to[2] = 0,
           p \in Thread => stopper = <<"no", 0>>,
           UNCHANGED <<flag, loop, exist, listed, isActive, stopper, early>>,
           \A s \in Objects!Sched : onCpu'[s] = onCpu[s] \/ onCpu'[s] = None,
           onCpu' \in [Objects!Sched -> Objects!Job \cup {None}],
           queue' \in [Objects!Sched -> Seq(Objects!Job)], fresh' \subseteq User,
           nco' \in Nat, first' \in Seq(Nat), NumberedOnce'
    PROVE  ManagerInv'
  <1>1. at' \in [Objects!Caller -> Stages \X Nat] /\ at'[p] = to
        /\ \A q \in Objects!Caller \ {p} : at'[q] = at[q]
    BY DEF ManagerInv, ManagerTypeOK
  <1>2. Objects!SmTypeOK'
    BY DEF ManagerInv, ManagerTypeOK, Objects!SmTypeOK
  <1>3. \A q \in Objects!Caller :
          /\ at'[q][1] \in {"add", "clear"} => at'[q][2] \in Objects!Sched
          /\ q \in Thread /\ at'[q][1] = "wait" => at'[q][2] = 0
    <2> TAKE q \in Objects!Caller
    <2>1. CASE q = p
      BY <1>1, <2>1
    <2>2. CASE q # p
      BY <1>1, <2>2 DEF ManagerInv, ManagerTypeOK
    <2>. QED  BY <2>1, <2>2
  <1>4. ManagerTypeOK'
    BY <1>1, <1>2, <1>3 DEF ManagerInv, ManagerTypeOK
  <1>5. RunsInLoop'
    BY DEF ManagerInv, RunsInLoop
  <1>6. NoCallsAtStop'
    BY <1>1, Named DEF ManagerInv, NoCallsAtStop
  <1>7. EndedBeforeDeleted'
    BY DEF ManagerInv, EndedBeforeDeleted
  <1>. QED  BY <1>4, <1>5, <1>6, <1>7 DEF ManagerInv

LEMMA ManagerGo ==
    ASSUME ManagerInv, NEW p \in Objects!Caller,
           Objects!Go(p) \/ Objects!TakeNumber(p) \/ Objects!Weigh(p) \/ Objects!AddNewTask(p)
    PROVE  ManagerInv'
  <1>1. /\ Objects!SmTypeOK /\ nco \in Nat /\ first \in Seq(Nat) /\ fresh \subseteq User
        /\ queue \in [Objects!Sched -> Seq(Objects!Job)]
        /\ onCpu \in [Objects!Sched -> Objects!Job \cup {None}]
        /\ at \in [Objects!Caller -> Stages \X Nat]
        /\ 0 \in Objects!Sched /\ Count \in Nat \ {0}
        /\ Objects!Sched = 0..(Count - 1)
    BY Named DEF ManagerInv, ManagerTypeOK, Objects!SmTypeOK
  <1>2. UNCHANGED <<flag, loop, exist, listed, isActive, stopper, early, onCpu>>
    BY DEF Objects!Go, Objects!TakeNumber, Objects!Weigh, Objects!AddNewTask,
       Objects!loopVars, Objects!manVars
  <1>3. p \in Thread => stopper = <<"no", 0>>
    <2>1. CASE Objects!Go(p)
      BY <2>1 DEF Objects!Go, Objects!Calls
    <2>2. CASE ~ Objects!Go(p)
      <3>1. at[p][1] \in {"number", "weigh", "add"}
        BY <2>2 DEF Objects!TakeNumber, Objects!Weigh, Objects!AddNewTask
      <3>2. at[p] # Objects!Out
        BY <3>1 DEF Objects!Out
      <3>. QED  BY <3>2 DEF ManagerInv, NoCallsAtStop
    <2>. QED  BY <2>1, <2>2
  <1>4. CASE Objects!Go(p)
    <2>1. PICK to \in {<<"add", 0>>, <<"number", 0>>, <<"weigh", 0>>} :
             at' = [at EXCEPT ![p] = to]
      BY <1>4 DEF Objects!Go, Objects!Moves
    <2>2. /\ to \in Stages \X Nat /\ to[1] # "wait" /\ to[1] # "clear"
          /\ to[2] \in Objects!Sched
      BY <1>1, <2>1 DEF Stages
    <2>3. UNCHANGED <<nco, queue, fresh, first>>
      BY <1>4 DEF Objects!Go
    <2>4. NumberedOnce'
      BY <2>3 DEF ManagerInv, NumberedOnce, Objects!FirstSpread
    <2>. QED  BY <1>1, <1>2, <1>3, <2>1, <2>2, <2>3, <2>4, ManagerCall
  <1>5. CASE Objects!TakeNumber(p)
    <2>1. CASE nco < Count
      <3>1. /\ at' = [at EXCEPT ![p] = <<"add", nco>>] /\ first' = Append(first, nco)
            /\ nco' = nco + 1 /\ UNCHANGED <<queue, fresh>>
        BY <1>5, <2>1 DEF Objects!TakeNumber, Objects!Moves
      <3>2. /\ <<"add", nco>> \in Stages \X Nat /\ nco \in Objects!Sched
            /\ <<"add", nco>>[1] = "add" /\ <<"add", nco>>[2] = nco
        BY <1>1, <2>1 DEF Stages
      <3>3. /\ first' \in Seq(Nat) /\ Len(first') = Len(first) + 1
            /\ \A i \in 1..Len(first) : first'[i] = first[i]
            /\ first'[Len(first) + 1] = nco
            /\ Len(first) \in Nat /\ DOMAIN first = 1..Len(first)
            /\ DOMAIN first' = 1..(Len(first) + 1)
        BY <1>1, <3>1, AppendProperties, LenProperties
      <3>4. \A i \in 1..Len(first) : first[i] \in Nat /\ first[i] < nco
        BY <1>1, <3>3, ElementOfSeq DEF ManagerInv, NumberedOnce
      <3>5. \A i, k \in 1..Len(first) : i # k => first[i] # first[k]
        BY <3>3 DEF ManagerInv, NumberedOnce, Objects!FirstSpread
      <3>6. \A i \in DOMAIN first' : i \in 1..Len(first) \/ i = Len(first) + 1
        BY <3>3
      <3>7. \A i \in DOMAIN first' : first'[i] < nco'
        <4> TAKE i \in DOMAIN first'
        <4>1. CASE i \in 1..Len(first)
          BY <1>1, <3>1, <3>3, <3>4, <4>1
        <4>2. CASE i = Len(first) + 1
          BY <1>1, <3>1, <3>3, <4>2
        <4>. QED  BY <3>6, <4>1, <4>2
      <3>8. \A i, k \in DOMAIN first' : i # k => first'[i] # first'[k]
        <4> TAKE i, k \in DOMAIN first'
        <4> HAVE i # k
        <4>1. CASE i \in 1..Len(first) /\ k \in 1..Len(first)
          BY <3>3, <3>5, <4>1
        <4>2. CASE i \in 1..Len(first) /\ k = Len(first) + 1
          <5>1. first'[i] < nco /\ first'[k] = nco /\ first'[i] \in Nat
            BY <3>3, <3>4, <4>2
          <5>. QED  BY <1>1, <5>1
        <4>3. CASE k \in 1..Len(first) /\ i = Len(first) + 1
          <5>1. first'[k] < nco /\ first'[i] = nco /\ first'[k] \in Nat
            BY <3>3, <3>4, <4>3
          <5>. QED  BY <1>1, <5>1
        <4>. QED  BY <3>6, <4>1, <4>2, <4>3
      <3>9. NumberedOnce'
        BY <3>7, <3>8 DEF NumberedOnce, Objects!FirstSpread
      <3>10. /\ nco' \in Nat /\ fresh' \subseteq User /\ first' \in Seq(Nat)
             /\ queue' \in [Objects!Sched -> Seq(Objects!Job)]
             /\ onCpu' \in [Objects!Sched -> Objects!Job \cup {None}]
             /\ \A s \in Objects!Sched : onCpu'[s] = onCpu[s] \/ onCpu'[s] = None
        BY <1>1, <1>2, <3>1, <3>3
      <3>11. PICK to : to = <<"add", nco>>
        OBVIOUS
      <3>12. at' = [at EXCEPT ![p] = to] /\ to \in Stages \X Nat
             /\ to[1] = "add" /\ to[2] \in Objects!Sched
        BY <3>1, <3>2, <3>11
      <3>. QED  BY <1>2, <1>3, <3>9, <3>10, <3>12, ManagerCall
    <2>2. CASE ~ (nco < Count)
      <3>1. /\ at' = [at EXCEPT ![p] = <<"weigh", 0>>]
            /\ nco' = nco + 1 /\ UNCHANGED <<queue, fresh, first>>
        BY <1>5, <2>2 DEF Objects!TakeNumber, Objects!Moves
      <3>2. /\ <<"weigh", 0>> \in Stages \X Nat /\ <<"weigh", 0>>[1] = "weigh"
        BY DEF Stages
      <3>3. \A i \in DOMAIN first : first[i] \in Nat /\ first[i] < nco
        BY <1>1, ElementOfSeq, LenProperties DEF ManagerInv, NumberedOnce
      <3>4. NumberedOnce'
        BY <1>1, <3>1, <3>3 DEF ManagerInv, NumberedOnce, Objects!FirstSpread
      <3>5. /\ nco' \in Nat /\ fresh' \subseteq User /\ first' \in Seq(Nat)
            /\ queue' \in [Objects!Sched -> Seq(Objects!Job)]
            /\ onCpu' \in [Objects!Sched -> Objects!Job \cup {None}]
            /\ \A s \in Objects!Sched : onCpu'[s] = onCpu[s] \/ onCpu'[s] = None
        BY <1>1, <1>2, <3>1
      <3>. QED  BY <1>2, <1>3, <3>1, <3>2, <3>4, <3>5, ManagerCall
    <2>. QED  BY <2>1, <2>2
  <1>6. CASE Objects!Weigh(p)
    <2>1. PICK i \in Objects!Sched : \E s \in {i, (i + 1) % Count} : at' = [at EXCEPT ![p] = <<"add", s>>]
      BY <1>6 DEF Objects!Weigh, Objects!Moves
    <2>2. PICK s \in {i, (i + 1) % Count} : at' = [at EXCEPT ![p] = <<"add", s>>]
      BY <2>1
    <2>3. s \in Objects!Sched
      <3>1. (i + 1) % Count \in 0..(Count - 1)
        BY <1>1, <2>1
      <3>. QED  BY <1>1, <2>1, <2>2, <3>1
    <2>4. /\ <<"add", s>> \in Stages \X Nat
          /\ <<"add", s>>[1] = "add" /\ <<"add", s>>[2] = s
      BY <1>1, <2>3 DEF Stages
    <2>5. UNCHANGED <<nco, queue, fresh, first>>
      BY <1>6 DEF Objects!Weigh
    <2>6. NumberedOnce'
      BY <2>5 DEF ManagerInv, NumberedOnce, Objects!FirstSpread
    <2>. QED  BY <1>1, <1>2, <1>3, <2>2, <2>3, <2>4, <2>5, <2>6, ManagerCall
  <1>7. CASE Objects!AddNewTask(p)
    <2>1. PICK j \in fresh :
             /\ fresh' = fresh \ {j}
             /\ queue' = [queue EXCEPT ![at[p][2]] = Append(@, j)]
      BY <1>7 DEF Objects!AddNewTask
    <2>2. at' = [at EXCEPT ![p] = <<"out", 0>>] /\ UNCHANGED <<nco, first>>
      BY <1>7 DEF Objects!AddNewTask, Objects!Moves, Objects!Out
    <2>3. /\ <<"out", 0>> \in Stages \X Nat /\ <<"out", 0>>[1] = "out"
      BY DEF Stages
    <2>4. j \in Objects!Job
      BY <1>1, Named
    <2>5. queue' \in [Objects!Sched -> Seq(Objects!Job)]
      BY <1>1, <2>1, <2>4, AppendProperties
    <2>6. NumberedOnce'
      BY <2>2 DEF ManagerInv, NumberedOnce, Objects!FirstSpread
    <2>7. fresh' \subseteq User
      BY <1>1, <2>1
    <2>. QED  BY <1>1, <1>2, <1>3, <2>2, <2>3, <2>5, <2>6, <2>7, ManagerCall
  <1>. QED  BY <1>4, <1>5, <1>6, <1>7

(* A loop resumes a coroutine, gets it back, or ends.                      *)
LEMMA ManagerLoop ==
    ASSUME ManagerInv,
           UNCHANGED <<nco, flag, exist, listed, isActive, fresh, at, stopper, early, first>>,
           onCpu' \in [Objects!Sched -> Objects!Job \cup {None}],
           queue' \in [Objects!Sched -> Seq(Objects!Job)],
           loop' \in [Objects!Sched -> {"on", "over"}],
           \A s \in Objects!Sched : loop[s] = "over" => loop'[s] = "over",
           RunsInLoop'
    PROVE  ManagerInv'
  <1>1. ManagerTypeOK'
    BY DEF ManagerInv, ManagerTypeOK, Objects!SmTypeOK
  <1>2. NoCallsAtStop' /\ NumberedOnce'
    BY DEF ManagerInv, NoCallsAtStop, NumberedOnce, Objects!FirstSpread
  <1>3. EndedBeforeDeleted'
    BY DEF ManagerInv, EndedBeforeDeleted
  <1>. QED  BY <1>1, <1>2, <1>3 DEF ManagerInv

LEMMA ManagerRuns ==
    ASSUME ManagerInv,
           \/ \E s \in Objects!Sched : Objects!Resume(s) \/ Objects!LoopEnds(s)
           \/ \E j \in Objects!Job : Objects!Pause(j) \/ Objects!Leave(j)
           \/ \E t \in Objects!Task : Objects!TaskEnds(t)
    PROVE  ManagerInv'
  <1>1. /\ queue \in [Objects!Sched -> Seq(Objects!Job)]
        /\ onCpu \in [Objects!Sched -> Objects!Job \cup {None}]
        /\ loop \in [Objects!Sched -> {"on", "over"}]
    BY DEF ManagerInv, ManagerTypeOK, Objects!SmTypeOK
  <1>2. ASSUME NEW s \in Objects!Sched, Objects!Resume(s)
        PROVE  ManagerInv'
    <2>1. /\ loop[s] = "on" /\ queue[s] # <<>>
          /\ onCpu' = [onCpu EXCEPT ![s] = Head(queue[s])]
          /\ queue' = [queue EXCEPT ![s] = Tail(@)]
          /\ UNCHANGED <<nco, flag, loop, exist, listed, isActive, fresh, at, stopper, early, first>>
      BY <1>2 DEF Objects!Resume, Objects!manVars
    <2>2. Head(queue[s]) \in Objects!Job /\ Tail(queue[s]) \in Seq(Objects!Job)
      BY <1>1, <2>1, HeadTailProperties
    <2>3. /\ onCpu' \in [Objects!Sched -> Objects!Job \cup {None}]
          /\ queue' \in [Objects!Sched -> Seq(Objects!Job)]
      BY <1>1, <2>1, <2>2
    <2>4. RunsInLoop'
      BY <1>1, <2>1 DEF ManagerInv, RunsInLoop
    <2>. QED  BY <1>1, <2>1, <2>3, <2>4, ManagerLoop
  <1>3. ASSUME NEW s \in Objects!Sched, Objects!LoopEnds(s)
        PROVE  ManagerInv'
    <2>1. /\ onCpu[s] = None /\ loop' = [loop EXCEPT ![s] = "over"]
          /\ UNCHANGED <<nco, queue, onCpu, flag, exist, listed, isActive, fresh, at, stopper, early, first>>
      BY <1>3 DEF Objects!LoopEnds, Objects!manVars
    <2>2. /\ loop' \in [Objects!Sched -> {"on", "over"}]
          /\ \A r \in Objects!Sched : loop[r] = "over" => loop'[r] = "over"
      BY <1>1, <2>1
    <2>3. RunsInLoop'
      BY <1>1, <2>1 DEF ManagerInv, RunsInLoop
    <2>. QED  BY <1>1, <2>1, <2>2, <2>3, ManagerLoop
  <1>4. ASSUME NEW j \in Objects!Job, Objects!Pause(j) \/ Objects!Leave(j)
        PROVE  ManagerInv'
    <2>1. /\ onCpu' = [onCpu EXCEPT ![Objects!HomeOf(j)] = None]
          /\ \/ queue' = [queue EXCEPT ![Objects!HomeOf(j)] = Append(@, j)]
             \/ queue' = queue
          /\ UNCHANGED <<nco, flag, loop, exist, listed, isActive, fresh, at, stopper, early, first>>
      BY <1>4 DEF Objects!Pause, Objects!Leave, Objects!manVars
    <2>2. onCpu' \in [Objects!Sched -> Objects!Job \cup {None}]
      BY <1>1, <2>1
    <2>3. queue' \in [Objects!Sched -> Seq(Objects!Job)]
      <3>1. \A s \in Objects!Sched : Append(queue[s], j) \in Seq(Objects!Job)
        BY <1>1, AppendProperties
      <3>. QED  BY <1>1, <2>1, <3>1
    <2>4. RunsInLoop'
      BY <1>1, <2>1 DEF ManagerInv, RunsInLoop
    <2>. QED  BY <1>1, <2>1, <2>2, <2>3, <2>4, ManagerLoop
  <1>5. ASSUME NEW t \in Objects!Task, Objects!TaskEnds(t)
        PROVE  ManagerInv'
    <2>1. PICK x : x = t[1]
      OBVIOUS
    <2>2. /\ onCpu' = [onCpu EXCEPT ![t[2]] = None]
          /\ queue' = IF todo[x] = 1 /\ at[x][1] = "wait" /\ at[x][2] > 0
                      THEN [queue EXCEPT ![at[x][2] - 1] = Append(@, x)] ELSE queue
          /\ UNCHANGED <<nco, flag, loop, exist, listed, isActive, fresh, at, stopper, early, first>>
      BY <1>5, <2>1 DEF Objects!TaskEnds, Objects!manVars
    <2>3. x \in Clearer
      BY <2>1, Named DEF Tasks
    <2>4. onCpu' \in [Objects!Sched -> Objects!Job \cup {None}]
      BY <1>1, <2>2
    <2>5. queue' \in [Objects!Sched -> Seq(Objects!Job)]
      <3>1. CASE at[x][1] = "wait" /\ at[x][2] > 0
        <4>1. x \notin Thread
          BY <2>3, <3>1, Named DEF ManagerInv, ManagerTypeOK
        <4>2. x \in Objects!Job
          BY <2>3, <4>1, Named, ObjectsAssumption
        <4>. QED  BY <1>1, <2>2, <4>2, AppendProperties
      <3>2. CASE ~ (at[x][1] = "wait" /\ at[x][2] > 0)
        BY <1>1, <2>2, <3>2
      <3>. QED  BY <3>1, <3>2
    <2>6. RunsInLoop'
      BY <1>1, <2>2 DEF ManagerInv, RunsInLoop
    <2>. QED  BY <1>1, <2>2, <2>4, <2>5, <2>6, ManagerLoop
  <1>. QED  BY <1>2, <1>3, <1>4, <1>5

LEMMA ManagerStop ==
    ASSUME ManagerInv, Objects!StopStep
    PROVE  ManagerInv'
  <1>1. /\ UNCHANGED <<nco, queue, onCpu, loop, fresh, at, first>>
        /\ flag' \in [Objects!Sched -> BOOLEAN]
    BY DEF Objects!StopStep, Objects!StopBegins, Objects!StopFlag, Objects!StopWaited,
       Objects!StopDeletes, Objects!StopClears, Objects!StopEnds, Objects!loopVars,
       ManagerInv, ManagerTypeOK, Objects!SmTypeOK
  <1>2. /\ 0 \in Objects!Sched /\ Objects!Sched = 0..(Count - 1) /\ Count \in Nat
    BY Named
  <1>3. /\ exist' \subseteq Objects!Sched /\ listed' \in BOOLEAN /\ isActive' \in BOOLEAN
        /\ early' \subseteq Objects!Sched
    <2>1. CASE Objects!StopWaited
      <3>1. stopper[2] \in Objects!Sched
        BY <2>1 DEF Objects!StopWaited, ManagerInv, ManagerTypeOK
      <3>. QED
        BY <2>1, <3>1 DEF Objects!StopWaited, Objects!WaitEnded,
           ManagerInv, ManagerTypeOK, Objects!SmTypeOK
    <2>2. CASE ~ Objects!StopWaited
      BY <2>2 DEF Objects!StopStep, Objects!StopBegins, Objects!StopFlag,
         Objects!StopDeletes, Objects!StopClears, Objects!StopEnds,
         ManagerInv, ManagerTypeOK, Objects!SmTypeOK
    <2>. QED  BY <2>1, <2>2
  <1>4. RunsInLoop' /\ NumberedOnce'
    BY <1>1 DEF ManagerInv, RunsInLoop, NumberedOnce, Objects!FirstSpread
  <1>5. NoCallsAtStop'
    <2>1. \A x \in Thread : at[x] = Objects!Out
      <3>1. CASE Objects!StopBegins
        BY <3>1 DEF Objects!StopBegins
      <3>2. CASE ~ Objects!StopBegins
        <4>1. stopper[1] \in {"stop", "wait", "delete", "clear", "inactive"}
          BY <3>2 DEF Objects!StopStep, Objects!StopFlag, Objects!StopWaited,
             Objects!StopDeletes, Objects!StopClears, Objects!StopEnds
        <4>2. stopper # <<"no", 0>>
          BY <4>1
        <4>. QED  BY <4>2 DEF ManagerInv, NoCallsAtStop
      <3>. QED  BY <3>1, <3>2
    <2>. QED  BY <1>1, <2>1 DEF NoCallsAtStop
  <1>6. ASSUME \/ stopper' \in Stopping \X Objects!Sched
               \/ stopper' \in {<<"no", 0>>, <<"clear", 0>>, <<"inactive", 0>>, <<"done", 0>>}
        PROVE  ManagerTypeOK'
    BY <1>1, <1>3, <1>6 DEF ManagerInv, ManagerTypeOK, Objects!SmTypeOK
  <1>7. CASE Objects!StopBegins
    <2>1. /\ stopper = <<"no", 0>> /\ stopper' = <<"stop", 0>>
          /\ UNCHANGED <<exist, listed, isActive, early>>
      BY <1>7 DEF Objects!StopBegins
    <2>2. /\ stopper[1] = "no" /\ stopper'[1] = "stop" /\ stopper'[2] = 0
      BY <2>1
    <2>3. stopper' \in Stopping \X Objects!Sched
      BY <1>2, <2>1 DEF Stopping
    <2>4. EndedBeforeDeleted'
      BY <1>1, <1>2, <2>1, <2>2 DEF ManagerInv, EndedBeforeDeleted
    <2>. QED  BY <1>4, <1>5, <1>6, <2>3, <2>4 DEF ManagerInv
  <1>8. CASE Objects!StopFlag
    <2>1. /\ stopper[1] = "stop" /\ stopper' = <<"wait", stopper[2]>>
          /\ UNCHANGED <<exist, listed, isActive, early>>
      BY <1>8 DEF Objects!StopFlag
    <2>2. /\ stopper'[1] = "wait" /\ stopper'[2] = stopper[2]
      BY <2>1
    <2>3. stopper[2] \in Objects!Sched
      BY <2>1 DEF ManagerInv, ManagerTypeOK
    <2>4. stopper' \in Stopping \X Objects!Sched
      BY <2>1, <2>3 DEF Stopping
    <2>5. EndedBeforeDeleted'
      BY <1>1, <2>1, <2>2 DEF ManagerInv, EndedBeforeDeleted
    <2>. QED  BY <1>4, <1>5, <1>6, <2>4, <2>5 DEF ManagerInv
  <1>9. CASE Objects!StopWaited
    <2>1. /\ stopper[1] = "wait"
          /\ early' = IF loop[stopper[2]] = "over" THEN early ELSE early \cup {stopper[2]}
          /\ stopper' = IF stopper[2] + 1 \in Objects!Sched
                        THEN <<"stop", stopper[2] + 1>> ELSE <<"delete", 0>>
          /\ UNCHANGED <<exist, listed, isActive>>
      BY <1>9 DEF Objects!StopWaited, Objects!WaitEnded
    <2>2. stopper[2] \in Objects!Sched
      BY <2>1 DEF ManagerInv, ManagerTypeOK
    <2>3. \A s \in Objects!Sched \ early' : s < stopper[2] + 1 => loop[s] = "over"
      <3>1. \A s \in Objects!Sched : s < stopper[2] + 1 => s < stopper[2] \/ s = stopper[2]
        BY <1>2, <2>2
      <3>2. \A s \in Objects!Sched \ early' : s \notin early /\ (s = stopper[2] => loop[s] = "over")
        BY <2>1
      <3>. QED  BY <2>1, <3>1, <3>2 DEF ManagerInv, EndedBeforeDeleted
    <2>4. listed /\ exist = Objects!Sched /\ isActive
      BY <2>1 DEF ManagerInv, EndedBeforeDeleted
    <2>5. CASE stopper[2] + 1 \in Objects!Sched
      <3>1. /\ stopper' = <<"stop", stopper[2] + 1>>
            /\ stopper'[1] = "stop" /\ stopper'[2] = stopper[2] + 1
        BY <2>1, <2>5
      <3>2. stopper' \in Stopping \X Objects!Sched
        BY <2>5, <3>1 DEF Stopping
      <3>3. EndedBeforeDeleted'
        BY <1>1, <2>1, <2>3, <2>4, <3>1 DEF EndedBeforeDeleted
      <3>. QED  BY <1>4, <1>5, <1>6, <3>2, <3>3 DEF ManagerInv
    <2>6. CASE stopper[2] + 1 \notin Objects!Sched
      <3>1. stopper' = <<"delete", 0>> /\ stopper'[1] = "delete"
        BY <2>1, <2>6
      <3>2. stopper' \in Stopping \X Objects!Sched
        BY <1>2, <3>1 DEF Stopping
      <3>3. \A s \in Objects!Sched : s < stopper[2] + 1
        BY <1>2, <2>2, <2>6
      <3>4. EndedBeforeDeleted'
        BY <1>1, <2>1, <2>3, <2>4, <3>1, <3>3 DEF EndedBeforeDeleted
      <3>. QED  BY <1>4, <1>5, <1>6, <3>2, <3>4 DEF ManagerInv
    <2>. QED  BY <2>5, <2>6
  <1>10. CASE Objects!StopDeletes
    <2>1. /\ stopper[1] = "delete"
          /\ stopper' = IF stopper[2] + 1 \in Objects!Sched
                        THEN <<"delete", stopper[2] + 1>> ELSE <<"clear", 0>>
          /\ exist' = exist \ {stopper[2]}
          /\ UNCHANGED <<listed, isActive, early>>
      BY <1>10 DEF Objects!StopDeletes
    <2>2. stopper' \in Stopping \X Objects!Sched \/ stopper' = <<"clear", 0>>
      BY <2>1 DEF Stopping
    <2>3. stopper'[1] \in {"delete", "clear"}
      BY <2>1
    <2>4. stopper[2] \in Objects!Sched
      BY <2>1 DEF ManagerInv, ManagerTypeOK
    <2>5. exist' # Objects!Sched
      BY <2>1, <2>4
    <2>6. EndedBeforeDeleted'
      BY <1>1, <2>1, <2>3, <2>5 DEF ManagerInv, EndedBeforeDeleted
    <2>. QED  BY <1>4, <1>5, <1>6, <2>2, <2>6 DEF ManagerInv
  <1>11. CASE Objects!StopClears
    <2>1. /\ stopper[1] = "clear" /\ stopper' = <<"inactive", 0>> /\ stopper'[1] = "inactive"
          /\ UNCHANGED <<exist, isActive, early>>
      BY <1>11 DEF Objects!StopClears
    <2>2. EndedBeforeDeleted'
      BY <1>1, <2>1 DEF ManagerInv, EndedBeforeDeleted
    <2>. QED  BY <1>4, <1>5, <1>6, <2>1, <2>2 DEF ManagerInv
  <1>12. CASE Objects!StopEnds
    <2>1. /\ stopper[1] = "inactive" /\ stopper' = <<"done", 0>> /\ stopper'[1] = "done"
          /\ UNCHANGED <<exist, early>>
      BY <1>12 DEF Objects!StopEnds
    <2>2. EndedBeforeDeleted'
      BY <1>1, <2>1 DEF ManagerInv, EndedBeforeDeleted
    <2>. QED  BY <1>4, <1>5, <1>6, <2>1, <2>2 DEF ManagerInv
  <1>. QED  BY <1>7, <1>8, <1>9, <1>10, <1>11, <1>12 DEF Objects!StopStep

LEMMA ManagerClear ==
    ASSUME ManagerInv, NEW p \in Clearer,
           \/ Objects!Clear(p) \/ Objects!ClearGo(p) \/ Objects!ClearYield(p)
           \/ Objects!ClearReturns(p) \/ Objects!Cleared(p)
    PROVE  ManagerInv'
  <1>1. /\ nco \in Nat /\ first \in Seq(Nat) /\ fresh \subseteq User
        /\ queue \in [Objects!Sched -> Seq(Objects!Job)]
        /\ onCpu \in [Objects!Sched -> Objects!Job \cup {None}]
        /\ at \in [Objects!Caller -> Stages \X Nat]
        /\ p \in Objects!Caller /\ 0 \in Objects!Sched /\ Count \in Nat
        /\ Objects!Sched = 0..(Count - 1)
    BY Named DEF ManagerInv, ManagerTypeOK, Objects!SmTypeOK
  <1>2. /\ UNCHANGED <<flag, loop, exist, listed, isActive, stopper, early, nco, fresh, first>>
        /\ \A s \in Objects!Sched : onCpu'[s] = onCpu[s] \/ onCpu'[s] = None
        /\ onCpu' \in [Objects!Sched -> Objects!Job \cup {None}]
    <2>1. /\ UNCHANGED <<flag, loop, exist, listed, isActive, stopper, early, nco, fresh, first>>
          /\ UNCHANGED onCpu \/ onCpu' = [onCpu EXCEPT ![Objects!HomeOf(p)] = None]
      BY DEF Objects!Clear, Objects!ClearGo, Objects!ClearYield, Objects!ClearReturns,
         Objects!Cleared, Objects!loopVars, Objects!manVars
    <2>. QED  BY <1>1, <2>1
  <1>3. NumberedOnce' /\ nco' \in Nat /\ first' \in Seq(Nat) /\ fresh' \subseteq User
    BY <1>1, <1>2 DEF ManagerInv, NumberedOnce, Objects!FirstSpread
  <1>4. p \in Thread => stopper = <<"no", 0>>
    <2>1. CASE Objects!Clear(p)
      BY <2>1 DEF Objects!Clear, Objects!Calls
    <2>2. CASE ~ Objects!Clear(p)
      <3>1. at[p] = <<"wait", 0>> \/ at[p][1] \in {"clear", "wait", "cleared"}
        BY <2>2 DEF Objects!ClearGo, Objects!ClearYield, Objects!ClearReturns, Objects!Cleared
      <3>2. at[p] # Objects!Out
        BY <3>1 DEF Objects!Out
      <3>. QED  BY <3>2 DEF ManagerInv, NoCallsAtStop
    <2>. QED  BY <2>1, <2>2
  <1>5. CASE Objects!Clear(p) \/ Objects!ClearReturns(p) \/ Objects!Cleared(p)
    <2>1. PICK to \in {<<"clear", 0>>, <<"cleared", 0>>, <<"out", 0>>} :
             at' = [at EXCEPT ![p] = to]
      BY <1>5 DEF Objects!Clear, Objects!ClearReturns, Objects!Cleared, Objects!Moves, Objects!Out
    <2>2. /\ to \in Stages \X Nat /\ to[1] # "wait" /\ to[1] # "add" /\ to[2] \in Objects!Sched
      BY <1>1, <2>1 DEF Stages
    <2>3. UNCHANGED queue
      BY <1>5 DEF Objects!Clear, Objects!ClearReturns, Objects!Cleared
    <2>. QED  BY <1>1, <1>2, <1>3, <1>4, <2>1, <2>2, <2>3, ManagerCall
  <1>6. CASE Objects!ClearGo(p)
    <2>1. PICK s : s = at[p][2]
      OBVIOUS
    <2>2. /\ at[p][1] = "clear"
          /\ queue' = [queue EXCEPT ![s] = Append(@, <<p, s>>)]
          /\ at' = [at EXCEPT ![p] = IF s + 1 \in Objects!Sched THEN <<"clear", s + 1>>
                                     ELSE <<"wait", 0>>]
      BY <1>6, <2>1 DEF Objects!ClearGo, Objects!Moves
    <2>3. s \in Objects!Sched
      BY <1>1, <2>1, <2>2 DEF ManagerInv, ManagerTypeOK
    <2>4. <<p, s>> \in Objects!Job
      BY <1>1, <2>3, Named DEF Tasks
    <2>5. queue' \in [Objects!Sched -> Seq(Objects!Job)]
      BY <1>1, <2>2, <2>4, AppendProperties
    <2>6. CASE s + 1 \in Objects!Sched
      <3>1. PICK to : to = <<"clear", s + 1>>
        OBVIOUS
      <3>2. /\ to \in Stages \X Nat /\ to[1] = "clear" /\ to[2] \in Objects!Sched
            /\ at' = [at EXCEPT ![p] = to]
        BY <1>1, <2>2, <2>6, <3>1 DEF Stages
      <3>. QED  BY <1>1, <1>2, <1>3, <1>4, <2>5, <3>2, ManagerCall
    <2>7. CASE s + 1 \notin Objects!Sched
      <3>1. PICK to : to = <<"wait", 0>>
        OBVIOUS
      <3>2. /\ to \in Stages \X Nat /\ to[1] = "wait" /\ to[2] = 0
            /\ at' = [at EXCEPT ![p] = to]
        BY <1>1, <2>2, <2>7, <3>1 DEF Stages
      <3>. QED  BY <1>1, <1>2, <1>3, <1>4, <2>5, <3>2, ManagerCall
    <2>. QED  BY <2>6, <2>7
  <1>7. CASE Objects!ClearYield(p)
    <2>1. /\ p \in User /\ Objects!Runs(p) /\ UNCHANGED queue
          /\ at' = [at EXCEPT ![p] = <<"wait", 1 + Objects!HomeOf(p)>>]
      BY <1>7 DEF Objects!ClearYield, Objects!Moves
    <2>2. Objects!HomeOf(p) \in Objects!Sched
      BY <2>1 DEF Objects!Runs, Objects!HomeOf
    <2>3. PICK to : to = <<"wait", 1 + Objects!HomeOf(p)>>
      OBVIOUS
    <2>4. to \in Stages \X Nat /\ to[1] = "wait" /\ at' = [at EXCEPT ![p] = to]
      BY <1>1, <2>1, <2>2, <2>3 DEF Stages
    <2>5. p \notin Thread
      BY <2>1, ObjectsAssumption
    <2>. QED  BY <1>1, <1>2, <1>3, <1>4, <2>1, <2>4, <2>5, ManagerCall
  <1>. QED  BY <1>5, <1>6, <1>7

LEMMA ManagerUnchanged ==
    ASSUME ManagerInv, UNCHANGED Objects!smVars
    PROVE  ManagerInv'
  BY DEF ManagerInv, ManagerTypeOK, Objects!SmTypeOK, RunsInLoop, NoCallsAtStop,
     EndedBeforeDeleted, NumberedOnce, Objects!FirstSpread, Objects!smVars

LEMMA ManagerNext ==
    ASSUME ManagerInv, Objects!PoolNext
    PROVE  ManagerInv'
  <1>1. CASE Objects!GoStep
    BY <1>1, ManagerGo DEF Objects!GoStep
  <1>2. CASE Objects!LoopStep
    BY <1>2, ManagerRuns DEF Objects!LoopStep
  <1>3. CASE Objects!StopStep
    BY <1>3, ManagerStop
  <1>4. CASE \E u \in User : Objects!Pause(u) \/ Objects!Leave(u)
    BY <1>4, ManagerRuns, Named
  <1>5. CASE \E u \in User : Objects!pop(u) \/ Objects!push(u)
    BY <1>5, ManagerUnchanged DEF Objects!pop, Objects!push
  <1>6. CASE \E x \in Clearer : \/ Objects!Clear(x) \/ Objects!ClearGo(x)
                                \/ Objects!ClearYield(x) \/ Objects!ClearReturns(x)
                                \/ Objects!Cleared(x)
    BY <1>6, ManagerClear
  <1>7. CASE \E t \in Objects!Task : Objects!TaskBegins(t)
    BY <1>7, ManagerUnchanged DEF Objects!TaskBegins
  <1>8. CASE \E t \in Objects!Task : Objects!TaskDestroys(t)
    <2>1. PICK t \in Objects!Task : Objects!Pause(t) \/ UNCHANGED Objects!smVars
      BY <1>8 DEF Objects!TaskDestroys
    <2>2. t \in Objects!Job
      BY <2>1, Named
    <2>. QED  BY <2>1, <2>2, ManagerRuns, ManagerUnchanged
  <1>9. CASE \E t \in Objects!Task : Objects!TaskEnds(t)
    BY <1>9, ManagerRuns
  <1>10. CASE Objects!ClearDirectly
    BY <1>10, ManagerUnchanged DEF Objects!ClearDirectly
  <1>. QED
    BY <1>1, <1>2, <1>3, <1>4, <1>5, <1>6, <1>7, <1>8, <1>9, <1>10 DEF Objects!PoolNext

(* What the other parts of the module do leaves the objects alone.         *)
LEMMA ManagerAlways == SchedulerSpec => [](part = "objects" => ManagerInv)
  <1>1. ASSUME SchedulerInit, part = "objects"
        PROVE  ManagerInv
    <2>1. Objects!SmInit
      BY <1>1 DEF SchedulerInit, Objects!PoolInit
    <2>. QED  BY <2>1, ManagerInitial
  <1>2. ASSUME part = "objects" => ManagerInv,
               [SchedulerNext]_<<vars, poolVars, tmVars, hookVars, objectVars, part>>
        PROVE  (part = "objects" => ManagerInv)'
    <2>1. UNCHANGED part
      BY <1>2 DEF SchedulerNext
    <2>2. part = "objects" => Objects!PoolNext \/ UNCHANGED objectVars
      BY <1>2 DEF SchedulerNext
    <2>3. UNCHANGED objectVars => UNCHANGED Objects!smVars
      BY DEF objectVars, Objects!smVars
    <2>. QED  BY <1>2, <2>1, <2>2, <2>3, ManagerNext, ManagerUnchanged
  <1>. QED  BY <1>1, <1>2, PTL DEF SchedulerSpec

(* As long as a coroutine runs on a scheduler whose stop() has not ended   *)
(* early, or a thread is inside a call, every scheduler exists, for any    *)
(* number of schedulers, coroutines and threads and wherever stop() comes, *)
(* waits of stop() that nobody has ended included; and the first           *)
(* coroutines are spread evenly.                                           *)
THEOREM ManagerOutlives == SchedulerSpec => []SchedulersOutlive
  <1>1. ASSUME ManagerInv
        PROVE  Objects!SchedulersOutlive /\ Objects!FirstSpread
    <2>1. ASSUME NEW t \in Thread, at[t] # Objects!Out
          PROVE  listed /\ exist = Objects!Sched
      <3>1. stopper = <<"no", 0>>
        BY <1>1, <2>1 DEF ManagerInv, NoCallsAtStop
      <3>2. stopper[1] = "no"
        BY <3>1
      <3>. QED  BY <1>1, <3>2 DEF ManagerInv, EndedBeforeDeleted
    <2>2. ASSUME NEW s \in Objects!Sched \ early, onCpu[s] # None
          PROVE  listed /\ exist = Objects!Sched
      <3>1. loop[s] = "on"
        BY <1>1, <2>2 DEF ManagerInv, RunsInLoop
      <3>2. stopper[1] \in {"no", "stop", "wait"}
        BY <1>1, <2>2, <3>1 DEF ManagerInv, EndedBeforeDeleted
      <3>. QED  BY <1>1, <3>2 DEF ManagerInv, EndedBeforeDeleted
    <2>. QED  BY <1>1, <2>1, <2>2 DEF Objects!SchedulersOutlive, ManagerInv, NumberedOnce
  <1>2. (part = "objects" => ManagerInv) => SchedulersOutlive
    BY <1>1 DEF SchedulersOutlive
  <1>. QED  BY <1>2, ManagerAlways, PTL

-----------------------------------------------------------------------------
(* What the hooks know of descriptors                                      *)

(* Who makes a call makes it on an open descriptor; it is hooked only for  *)
(* coroutines, and the only one on a descriptor that is being closed.      *)
CallsOpen ==
    /\ \A p \in Hook!Caller :
          /\ call[p].at = "idle" <=> call[p].fd = None
          /\ call[p].at = "idle" => ~ call[p].hooked
          /\ call[p].at # "idle" => Hook!Open(call[p].fd)
          /\ call[p].at = "wait" \/ (call[p].at = "try" /\ call[p].hooked) => p \in User
    /\ \A p, q \in Hook!Caller :
          call[p].at = "close" /\ p # q => call[q].fd # call[p].fd

(* A number that is no socket's has no context.                            *)
ContextsOfSockets ==
    /\ \A n \in Fd : Hook!Open(n) => kind[file[n]] # "none"
    /\ \A n \in Fd : ~ Hook!Open(n) \/ kind[file[n]] = "plain" => ctx[n] = Hook!NoCtx
    /\ \A n \in Fd : ctx[n].so \/ ctx[n] = Hook!NoCtx
    /\ \A p \in Hook!Caller : call[p].at = "close" => ctx[call[p].fd] = Hook!NoCtx

(* A socket that can be used.                                              *)
Alive(n) ==
    /\ Hook!Open(n) /\ Hook!CanWait(n)
    /\ \A p \in Hook!Caller : call[p].at = "close" => call[p].fd # n

(* Of these the table knows what the user wants, and what the hooks did.   *)
ContextsRight ==
    \A n \in Fd : Alive(n) =>
       /\ ctx[n].so
       /\ ctx[n].nb = userNb[file[n]] /\ ctx[n].ms = userMs[file[n]]
       /\ ctx[n].shut \subseteq down[file[n]]
       /\ ctx[n].mark => kernelNb[file[n]]

NonBlockingInKernel == \A f \in File : userNb[f] => kernelNb[f]

(* connect has a blocking socket for itself, which no hook has marked.     *)
ConnectsAlone ==
    \A p \in Hook!Caller : call[p].at = "connect" =>
       /\ kind[file[call[p].fd]] = "sock" /\ ~ userNb[file[call[p].fd]]
       /\ \A n \in Fd : file[n] = file[call[p].fd] => ~ ctx[n].mark
       /\ \A q \in Hook!Caller \ {p} :
             call[q].at # "idle" => file[call[q].fd] # file[call[p].fd]

(* The calls that may wait.                                                *)
CallsRight ==
    \A p \in User : call[p].at \in {"try", "wait"} =>
       /\ Hook!CanWait(call[p].fd) =>
             /\ kernelNb[file[call[p].fd]]
             /\ call[p].hooked <=> ~ userNb[file[call[p].fd]]
       /\ call[p].at = "wait" => Hook!CanWait(call[p].fd) /\ call[p].hooked

HookInv ==
    /\ Hook!TypeOK
    /\ CallsOpen
    /\ ContextsOfSockets
    /\ ContextsRight
    /\ NonBlockingInKernel
    /\ ConnectsAlone
    /\ CallsRight

-----------------------------------------------------------------------------
(* What a step makes of the calls.                                         *)

(* One entry of a table or of the kernel changes.                          *)
LEMMA CallBecomes ==
    ASSUME Hook!TypeOK, NEW p \in Hook!Caller,
           NEW k \in {"idle", "try", "wait", "connect", "close"},
           NEW n \in Fd \cup {None}, NEW h \in BOOLEAN,
           call' = [call EXCEPT ![p] = [at |-> k, fd |-> n, hooked |-> h]]
    PROVE  /\ call' \in [Hook!Caller -> [at : {"idle", "try", "wait", "connect", "close"},
                                         fd : Fd \cup {None}, hooked : BOOLEAN]]
           /\ call'[p].at = k /\ call'[p].fd = n /\ call'[p].hooked = h
           /\ \A q \in Hook!Caller : q # p => call'[q] = call[q]
  BY DEF Hook!TypeOK

LEMMA CallOver ==
    ASSUME Hook!TypeOK, NEW p \in Hook!Caller, Hook!Return(p)
    PROVE  /\ call' \in [Hook!Caller -> [at : {"idle", "try", "wait", "connect", "close"},
                                         fd : Fd \cup {None}, hooked : BOOLEAN]]
           /\ call'[p].at = "idle" /\ call'[p].fd = None /\ ~ call'[p].hooked
           /\ \A q \in Hook!Caller : q # p => call'[q] = call[q]
  <1>1. call' = [call EXCEPT ![p] = [at |-> "idle", fd |-> None, hooked |-> FALSE]]
    BY DEF Hook!Return, Hook!Idle
  <1>. QED  BY <1>1, CallBecomes

(* A call is idle or on an open descriptor.                                *)
LEMMA Calls ==
    ASSUME HookInv, NEW p \in Hook!Caller
    PROVE  /\ call[p].at \in {"idle", "try", "wait", "connect", "close"}
           /\ call[p].hooked \in BOOLEAN
           /\ call[p].fd \in Fd \cup {None}
           /\ call[p] = Hook!Idle <=> call[p].at = "idle"
           /\ call[p].at # "idle" => /\ call[p].fd \in Fd
                                     /\ file[call[p].fd] \in File
                                     /\ file[call[p].fd] # None
  <1>1. call[p] \in [at : {"idle", "try", "wait", "connect", "close"},
                     fd : Fd \cup {None}, hooked : BOOLEAN]
    BY DEF HookInv, Hook!TypeOK
  <1>2. /\ call[p].at = "idle" <=> call[p].fd = None
        /\ call[p].at = "idle" => ~ call[p].hooked
        /\ call[p].at # "idle" => file[call[p].fd] # None
    BY DEF HookInv, CallsOpen, Hook!Open
  <1>3. call[p] = Hook!Idle <=> call[p].at = "idle"
    <2>1. call[p] = [at |-> call[p].at, fd |-> call[p].fd, hooked |-> call[p].hooked]
      BY <1>1
    <2>2. call[p].at = "idle" => call[p].fd = None /\ call[p].hooked = FALSE
      BY <1>1, <1>2
    <2>3. call[p] = Hook!Idle => call[p].at = "idle"
      BY DEF Hook!Idle
    <2>. QED  BY <2>1, <2>2, <2>3 DEF Hook!Idle
  <1>4. call[p].at # "idle" => call[p].fd \in Fd
    BY <1>1, <1>2
  <1>. QED  BY <1>1, <1>2, <1>3, <1>4 DEF HookInv, Hook!TypeOK

(* Of a socket that may be used everything is known.                       *)
LEMMA Usables ==
    ASSUME HookInv, Odd = {}, NEW n \in Fd, Hook!Usable(n)
    PROVE  /\ file[n] \in File
           /\ kind[file[n]] \in {"sock", "plain"}
           /\ \A p \in Hook!Caller :
                 /\ ~ (call[p].at = "close" /\ call[p].fd = n)
                 /\ ~ (call[p].at = "connect" /\ file[call[p].fd] = file[n])
           /\ kind[file[n]] = "sock" =>
                 /\ Hook!CanWait(n) /\ Alive(n)
                 /\ ctx[n].so
                 /\ ctx[n].nb = userNb[file[n]] /\ ctx[n].ms = userMs[file[n]]
                 /\ ctx[n].shut \subseteq down[file[n]]
                 /\ ctx[n].mark => kernelNb[file[n]]
           /\ kind[file[n]] = "plain" => ~ Hook!CanWait(n) /\ ctx[n] = Hook!NoCtx
  <1>1. /\ file[n] \in File
        /\ kind[file[n]] \in {"sock", "plain"}
    BY DEF HookInv, Hook!TypeOK, Hook!Usable, Hook!Closable, Hook!Open, ContextsOfSockets
  <1>2. \A p \in Hook!Caller :
           /\ ~ (call[p].at = "close" /\ call[p].fd = n)
           /\ ~ (call[p].at = "connect" /\ file[call[p].fd] = file[n])
    BY DEF Hook!Usable, Hook!Closable
  <1>3. kind[file[n]] = "sock" => Hook!CanWait(n) /\ Alive(n)
    BY <1>2 DEF Hook!Usable, Hook!Closable, Hook!CanWait, Alive
  <1>4. kind[file[n]] = "plain" => ~ Hook!CanWait(n) /\ ctx[n] = Hook!NoCtx
    BY DEF HookInv, ContextsOfSockets, Hook!CanWait
  <1>. QED  BY <1>1, <1>2, <1>3, <1>4 DEF HookInv, ContextsRight
-----------------------------------------------------------------------------
(* Descriptors come and go.                                                *)

LEMMA HooksStart == Hook!Init => HookInv
  <1>. SUFFICES ASSUME Hook!Init PROVE HookInv
    OBVIOUS
  <1>1. \A p \in Hook!Caller : call[p].at = "idle" /\ call[p].fd = None /\ ~ call[p].hooked
    BY DEF Hook!Init, Hook!Idle
  <1>2. \A n \in Fd : file[n] = None /\ ctx[n] = Hook!NoCtx
    BY DEF Hook!Init
  <1>3. Hook!TypeOK
    BY DEF Hook!Init, Hook!TypeOK, Hook!Ctx, Hook!NoCtx, Hook!Idle
  <1>4. CallsOpen
    BY <1>1 DEF CallsOpen
  <1>5. ContextsOfSockets
    BY <1>1, <1>2 DEF ContextsOfSockets, Hook!Open
  <1>6. ContextsRight
    BY <1>2 DEF ContextsRight, Alive, Hook!Open
  <1>7. NonBlockingInKernel
    BY DEF Hook!Init, NonBlockingInKernel
  <1>8. ConnectsAlone
    BY <1>1 DEF ConnectsAlone
  <1>9. CallsRight
    BY <1>1 DEF CallsRight, Hook!Caller
  <1>. QED  BY <1>3, <1>4, <1>5, <1>6, <1>7, <1>8, <1>9 DEF HookInv


(* A new open file has a new number: nothing else changes.                 *)
LEMMA CreatedKeeps ==
    ASSUME HookInv, NEW n \in Fd, NEW f \in File, NEW nb \in BOOLEAN,
           NEW k \in {"sock", "plain"}, k = "plain" => nb = FALSE,
           Hook!Create(n, f, k, nb),
           ctx' = [ctx EXCEPT ![n] = IF k = "plain" THEN Hook!NoCtx
                                     ELSE [nb |-> nb, so |-> TRUE, mark |-> FALSE,
                                           shut |-> {}, ms |-> FALSE]],
           call' = call \/ \E p \in Hook!Caller : call[p].at = "try" /\ Hook!Return(p)
    PROVE  HookInv'
  <1>1. /\ file \in [Fd -> File \cup {None}] /\ kind \in [File -> {"none", "sock", "plain"}]
        /\ kernelNb \in [File -> BOOLEAN] /\ down \in [File -> SUBSET {"r", "w"}]
        /\ userNb \in [File -> BOOLEAN] /\ userMs \in [File -> BOOLEAN]
        /\ ctx \in [Fd -> Hook!Ctx]
    BY DEF HookInv, Hook!TypeOK
  <1>2. /\ file[n] = None /\ kind[f] = "none" /\ f # None
        /\ \A m \in Fd : file[m] # f
    BY HooksAssumption DEF HookInv, ContextsOfSockets, Hook!Create, Hook!Open
  <1>3. /\ file' \in [Fd -> File \cup {None}] /\ kind' \in [File -> {"none", "sock", "plain"}]
        /\ kernelNb' \in [File -> BOOLEAN] /\ down' \in [File -> SUBSET {"r", "w"}]
        /\ userNb' \in [File -> BOOLEAN] /\ userMs' \in [File -> BOOLEAN]
        /\ file'[n] = f /\ \A m \in Fd : m # n => file'[m] = file[m]
        /\ kind'[f] = k /\ kernelNb'[f] = nb /\ down'[f] = {}
        /\ userNb'[f] = nb /\ userMs'[f] = FALSE
        /\ \A g \in File : g # f =>
              /\ kind'[g] = kind[g] /\ kernelNb'[g] = kernelNb[g] /\ down'[g] = down[g]
              /\ userNb'[g] = userNb[g] /\ userMs'[g] = userMs[g]
    BY <1>1 DEF Hook!Create
  <1>4. /\ ctx' \in [Fd -> Hook!Ctx] /\ \A m \in Fd : m # n => ctx'[m] = ctx[m]
        /\ k = "plain" => ctx'[n] = Hook!NoCtx
        /\ k = "sock" => /\ ctx'[n].so /\ ctx'[n].nb = nb /\ ~ ctx'[n].mark
                         /\ ctx'[n].shut = {} /\ ctx'[n].ms = FALSE
    <2>1. CASE k = "plain"
      BY <1>1, <2>1 DEF Hook!Ctx, Hook!NoCtx
    <2>2. CASE k = "sock"
      <3>1. ctx' = [ctx EXCEPT ![n] = [nb |-> nb, so |-> TRUE, mark |-> FALSE,
                                       shut |-> {}, ms |-> FALSE]]
        BY <2>2
      <3>2. [nb |-> nb, so |-> TRUE, mark |-> FALSE, shut |-> {}, ms |-> FALSE] \in Hook!Ctx
        BY DEF Hook!Ctx
      <3>. QED  BY <1>1, <2>2, <3>1, <3>2
    <2>. QED  BY <2>1, <2>2
  <1>5. /\ call' \in [Hook!Caller -> [at : {"idle", "try", "wait", "connect", "close"},
                                      fd : Fd \cup {None}, hooked : BOOLEAN]]
        /\ \A q \in Hook!Caller :
              \/ call'[q] = call[q]
              \/ call'[q].at = "idle" /\ call'[q].fd = None /\ ~ call'[q].hooked
    <2>1. CASE call' = call
      BY <2>1 DEF HookInv, Hook!TypeOK
    <2>2. CASE \E p \in Hook!Caller : Hook!Return(p)
      BY <2>2, CallOver DEF HookInv
    <2>. QED  BY <2>1, <2>2
  <1>6. ASSUME NEW q \in Hook!Caller, call'[q].at # "idle"
        PROVE  /\ call'[q] = call[q] /\ call[q].fd \in Fd /\ call[q].fd # n
               /\ file'[call[q].fd] = file[call[q].fd]
               /\ file[call[q].fd] \in File /\ file[call[q].fd] # f
    BY <1>2, <1>3, <1>5, <1>6, Calls
  <1>7. CallsOpen'
    <2>1. \A q \in Hook!Caller :
             /\ call'[q].at = "idle" <=> call'[q].fd = None
             /\ call'[q].at = "idle" => ~ call'[q].hooked
             /\ call'[q].at # "idle" => file'[call'[q].fd] # None
             /\ call'[q].at = "wait" \/ (call'[q].at = "try" /\ call'[q].hooked) => q \in User
      BY <1>5, <1>6, Calls, HooksAssumption DEF HookInv, CallsOpen
    <2>2. \A q, r \in Hook!Caller :
             call'[q].at = "close" /\ q # r => call'[r].fd # call'[q].fd
      <3>. SUFFICES ASSUME NEW q \in Hook!Caller, NEW r \in Hook!Caller,
                           call'[q].at = "close", q # r
                    PROVE  call'[r].fd # call'[q].fd
        OBVIOUS
      <3>1. call'[q] = call[q] /\ call[q].fd \in Fd
        BY <1>6
      <3>2. call[r].fd # call[q].fd
        BY <3>1 DEF HookInv, CallsOpen
      <3>. QED  BY <1>5, <3>1, <3>2, HooksAssumption
    <2>. QED  BY <2>1, <2>2 DEF CallsOpen, Hook!Open
  <1>8. ContextsOfSockets'
    BY <1>1, <1>2, <1>3, <1>4, <1>6 DEF HookInv, ContextsOfSockets, Hook!Open
  <1>9. ContextsRight'
    <2>. SUFFICES ASSUME NEW m \in Fd, Alive(m)'
                  PROVE  /\ ctx'[m].so
                         /\ ctx'[m].nb = userNb'[file'[m]] /\ ctx'[m].ms = userMs'[file'[m]]
                         /\ ctx'[m].shut \subseteq down'[file'[m]]
                         /\ ctx'[m].mark => kernelNb'[file'[m]]
      BY DEF ContextsRight
    <2>1. CASE m = n
      BY <1>3, <1>4, <2>1 DEF Alive, Hook!CanWait
    <2>2. CASE m # n
      <3>1. file'[m] = file[m] /\ file[m] \in File /\ file[m] # f /\ ctx'[m] = ctx[m]
        BY <1>1, <1>2, <1>3, <1>4, <2>2 DEF Alive, Hook!Open
      <3>2. \A q \in Hook!Caller : call[q].at = "close" => call[q].fd # m
        <4>. SUFFICES ASSUME NEW q \in Hook!Caller, call[q].at = "close", call[q].fd = m
                      PROVE  FALSE
          OBVIOUS
        <4>1. call'[q] = call[q]
          <5>1. CASE \E p \in Hook!Caller : call[p].at = "try" /\ Hook!Return(p)
            <6>1. PICK p \in Hook!Caller : call[p].at = "try" /\ Hook!Return(p)
              BY <5>1
            <6>2. p # q
              BY <6>1
            <6>. QED  BY <6>1, <6>2, CallOver DEF HookInv
          <5>. QED  BY <5>1
        <4>. QED  BY <4>1 DEF Alive
      <3>3. Alive(m)
        BY <1>3, <3>1, <3>2 DEF Alive, Hook!Open, Hook!CanWait
      <3>4. /\ ctx[m].so
            /\ ctx[m].nb = userNb[file[m]] /\ ctx[m].ms = userMs[file[m]]
            /\ ctx[m].shut \subseteq down[file[m]]
            /\ ctx[m].mark => kernelNb[file[m]]
        BY <3>3 DEF HookInv, ContextsRight
      <3>5. /\ kernelNb'[file[m]] = kernelNb[file[m]] /\ down'[file[m]] = down[file[m]]
            /\ userNb'[file[m]] = userNb[file[m]] /\ userMs'[file[m]] = userMs[file[m]]
        BY <1>3, <3>1
      <3>. QED  BY <3>1, <3>4, <3>5
    <2>. QED  BY <2>1, <2>2
  <1>10. NonBlockingInKernel'
    BY <1>3 DEF HookInv, NonBlockingInKernel
  <1>11. ConnectsAlone'
    <2>. SUFFICES ASSUME NEW q \in Hook!Caller, call'[q].at = "connect"
                  PROVE  /\ kind'[file'[call'[q].fd]] = "sock" /\ ~ userNb'[file'[call'[q].fd]]
                         /\ \A m \in Fd : file'[m] = file'[call'[q].fd] => ~ ctx'[m].mark
                         /\ \A r \in Hook!Caller \ {q} :
                               call'[r].at # "idle" => file'[call'[r].fd] # file'[call'[q].fd]
      BY DEF ConnectsAlone
    <2>1. /\ call'[q] = call[q] /\ file'[call[q].fd] = file[call[q].fd]
          /\ file[call[q].fd] \in File /\ file[call[q].fd] # f
      BY <1>6
    <2>2. /\ kind[file[call[q].fd]] = "sock" /\ ~ userNb[file[call[q].fd]]
          /\ \A m \in Fd : file[m] = file[call[q].fd] => ~ ctx[m].mark
          /\ \A r \in Hook!Caller \ {q} :
                call[r].at # "idle" => file[call[r].fd] # file[call[q].fd]
      BY <2>1 DEF HookInv, ConnectsAlone
    <2>3. \A m \in Fd : file'[m] = file'[call'[q].fd] => ~ ctx'[m].mark
      BY <1>3, <1>4, <2>1, <2>2
    <2>4. \A r \in Hook!Caller \ {q} :
             call'[r].at # "idle" => file'[call'[r].fd] # file'[call'[q].fd]
      BY <1>6, <2>1, <2>2
    <2>. QED  BY <1>3, <2>1, <2>2, <2>3, <2>4
  <1>12. CallsRight'
    <2>. SUFFICES ASSUME NEW q \in User, call'[q].at \in {"try", "wait"}
                  PROVE  /\ Hook!CanWait(call[q].fd)' =>
                               /\ kernelNb'[file'[call'[q].fd]]
                               /\ call'[q].hooked <=> ~ userNb'[file'[call'[q].fd]]
                         /\ call'[q].at = "wait" => Hook!CanWait(call[q].fd)' /\ call'[q].hooked
      BY DEF CallsRight
    <2>1. /\ call'[q] = call[q] /\ file'[call[q].fd] = file[call[q].fd]
          /\ file[call[q].fd] \in File /\ file[call[q].fd] # f
      BY <1>6 DEF Hook!Caller
    <2>2. Hook!CanWait(call[q].fd)' <=> Hook!CanWait(call[q].fd)
      BY <1>3, <2>1 DEF Hook!CanWait
    <2>. QED  BY <1>3, <2>1, <2>2 DEF HookInv, CallsRight
  <1>. QED
    BY <1>3, <1>4, <1>5, <1>7, <1>8, <1>9, <1>10, <1>11, <1>12 DEF HookInv, Hook!TypeOK


LEMMA SocketKeeps ==
    ASSUME HookInv, NEW n \in Fd, NEW f \in File, NEW nb \in BOOLEAN,
           Hook!Socket(n, f, nb)
    PROVE  HookInv'
  <1>1. ~ Hook!Open(n) /\ ctx[n] = Hook!NoCtx /\ Hook!Create(n, f, "sock", nb) /\ call' = call
    BY DEF Hook!Socket, Hook!Create, HookInv, ContextsOfSockets
  <1>2. ctx' = [ctx EXCEPT ![n] =
                   IF nb THEN Hook!SetNonBlocking([Hook!NoCtx EXCEPT !.so = TRUE], TRUE)
                         ELSE [Hook!NoCtx EXCEPT !.so = TRUE]]
    BY <1>1 DEF Hook!Socket
  <1>3. (IF nb THEN Hook!SetNonBlocking([Hook!NoCtx EXCEPT !.so = TRUE], TRUE)
               ELSE [Hook!NoCtx EXCEPT !.so = TRUE])
           = [nb |-> nb, so |-> TRUE, mark |-> FALSE, shut |-> {}, ms |-> FALSE]
    BY DEF Hook!SetNonBlocking, Hook!NoCtx
  <1>4. ctx' = [ctx EXCEPT ![n] = [nb |-> nb, so |-> TRUE, mark |-> FALSE,
                                   shut |-> {}, ms |-> FALSE]]
    BY <1>2, <1>3
  <1>. QED  BY <1>1, <1>4, CreatedKeeps

LEMMA AcceptedKeeps ==
    ASSUME HookInv, NEW p \in Hook!Caller, NEW n \in Fd, NEW f \in File,
           NEW four \in BOOLEAN, NEW nb \in BOOLEAN, Hook!Accepted(p, n, f, four, nb)
    PROVE  HookInv'
  <1>1. /\ ~ Hook!Open(n) /\ ctx[n] = Hook!NoCtx /\ Hook!Create(n, f, "sock", nb)
        /\ call[p].at = "try" /\ Hook!Return(p) /\ (nb => four)
    BY DEF Hook!Accepted, Hook!Create, HookInv, ContextsOfSockets
  <1>2. ctx' = [ctx EXCEPT ![n] =
                   IF four THEN Hook!SetNonBlocking([Hook!NoCtx EXCEPT !.so = TRUE], nb)
                           ELSE [Hook!NoCtx EXCEPT !.so = TRUE]]
    BY <1>1 DEF Hook!Accepted
  <1>3. (IF four THEN Hook!SetNonBlocking([Hook!NoCtx EXCEPT !.so = TRUE], nb)
                 ELSE [Hook!NoCtx EXCEPT !.so = TRUE])
           = [nb |-> nb, so |-> TRUE, mark |-> FALSE, shut |-> {}, ms |-> FALSE]
    BY <1>1 DEF Hook!SetNonBlocking, Hook!NoCtx
  <1>4. ctx' = [ctx EXCEPT ![n] = [nb |-> nb, so |-> TRUE, mark |-> FALSE,
                                   shut |-> {}, ms |-> FALSE]]
    BY <1>2, <1>3
  <1>. QED  BY <1>1, <1>4, CreatedKeeps

LEMMA OpenPlainKeeps ==
    ASSUME HookInv, NEW n \in Fd, NEW f \in File,
           Hook!OpenPlain(n, f)
    PROVE  HookInv'
  <1>1. /\ ctx[n] = Hook!NoCtx /\ Hook!Create(n, f, "plain", FALSE)
        /\ ctx' = ctx /\ call' = call
    BY DEF Hook!OpenPlain, Hook!Create, HookInv, ContextsOfSockets
  <1>2. ctx' = [ctx EXCEPT ![n] = Hook!NoCtx]
    BY <1>1 DEF HookInv, Hook!TypeOK
  <1>. QED  BY <1>1, <1>2, CreatedKeeps

(* A number becomes a copy of another, whose context it gets, too.  What   *)
(* it was before goes if nobody else has it.                               *)
LEMMA CopiedKeeps ==
    ASSUME HookInv, Odd = {}, NEW old \in Fd, NEW new \in Fd, old # new,
           Hook!Usable(old), \A q \in Hook!Caller : call[q].fd # new,
           file' = [file EXCEPT ![new] = file[old]],
           kind' \in [File -> {"none", "sock", "plain"}],
           \A m \in Fd : m # new /\ file[m] # None => kind'[file[m]] = kind[file[m]],
           ctx' = [ctx EXCEPT ![new] = ctx[old]],
           UNCHANGED <<kernelNb, down, userNb, userMs, call>>
    PROVE  HookInv'
  <1>1. /\ file \in [Fd -> File \cup {None}] /\ ctx \in [Fd -> Hook!Ctx]
        /\ file[old] \in File /\ file[old] # None
    BY DEF HookInv, Hook!TypeOK, Hook!Usable, Hook!Closable, Hook!Open
  <1>2. /\ file' \in [Fd -> File \cup {None}] /\ ctx' \in [Fd -> Hook!Ctx]
        /\ file'[new] = file[old] /\ \A m \in Fd : m # new => file'[m] = file[m]
        /\ ctx'[new] = ctx[old] /\ \A m \in Fd : m # new => ctx'[m] = ctx[m]
        /\ kind'[file[old]] = kind[file[old]]
    BY <1>1
  <1>3. Hook!TypeOK'
    BY <1>2 DEF HookInv, Hook!TypeOK
  <1>4. ASSUME NEW q \in Hook!Caller, call[q].at # "idle"
        PROVE  /\ call[q].fd \in Fd /\ call[q].fd # new
               /\ file'[call[q].fd] = file[call[q].fd]
               /\ file[call[q].fd] \in File /\ file[call[q].fd] # None
               /\ kind'[file[call[q].fd]] = kind[file[call[q].fd]]
    BY <1>2, <1>4, Calls
  <1>5. CallsOpen'
    BY <1>4 DEF HookInv, CallsOpen, Hook!Open
  <1>6. ASSUME NEW m \in Fd
        PROVE  \E n \in Fd : /\ file'[m] = file[n] /\ ctx'[m] = ctx[n]
                             /\ file[n] # None => kind'[file[n]] = kind[file[n]]
                             /\ n = IF m = new THEN old ELSE m
    BY <1>1, <1>2
  <1>7. ContextsOfSockets'
    <2>1. ASSUME NEW m \in Fd
          PROVE  /\ file'[m] # None => kind'[file'[m]] # "none"
                 /\ file'[m] = None \/ kind'[file'[m]] = "plain" => ctx'[m] = Hook!NoCtx
                 /\ ctx'[m].so \/ ctx'[m] = Hook!NoCtx
      BY <1>6 DEF HookInv, ContextsOfSockets, Hook!Open
    <2>2. \A q \in Hook!Caller : call'[q].at = "close" => ctx'[call'[q].fd] = Hook!NoCtx
      BY <1>2, <1>4 DEF HookInv, ContextsOfSockets
    <2>. QED  BY <2>1, <2>2 DEF ContextsOfSockets, Hook!Open
  <1>8. ContextsRight'
    <2>. SUFFICES ASSUME NEW m \in Fd, Alive(m)'
                  PROVE  /\ ctx'[m].so
                         /\ ctx'[m].nb = userNb'[file'[m]] /\ ctx'[m].ms = userMs'[file'[m]]
                         /\ ctx'[m].shut \subseteq down'[file'[m]]
                         /\ ctx'[m].mark => kernelNb'[file'[m]]
      BY DEF ContextsRight
    <2>1. PICK n \in Fd : /\ file'[m] = file[n] /\ ctx'[m] = ctx[n]
                          /\ file[n] # None => kind'[file[n]] = kind[file[n]]
                          /\ n = IF m = new THEN old ELSE m
      BY <1>6
    <2>2. file'[m] # None /\ kind'[file'[m]] = "sock" /\ down'[file'[m]] # {"r", "w"}
      BY DEF Alive, Hook!Open, Hook!CanWait
    <2>3. \A q \in Hook!Caller : call[q].at = "close" => call[q].fd # n
      <3>1. CASE m = new
        BY <2>1, <3>1 DEF Hook!Usable, Hook!Closable
      <3>2. CASE m # new
        BY <2>1, <3>2 DEF Alive
      <3>. QED  BY <3>1, <3>2
    <2>4. Alive(n)
      BY <2>1, <2>2, <2>3 DEF Alive, Hook!Open, Hook!CanWait
    <2>5. /\ ctx[n].so
          /\ ctx[n].nb = userNb[file[n]] /\ ctx[n].ms = userMs[file[n]]
          /\ ctx[n].shut \subseteq down[file[n]]
          /\ ctx[n].mark => kernelNb[file[n]]
      BY <2>4 DEF HookInv, ContextsRight
    <2>. QED  BY <2>1, <2>5
  <1>9. NonBlockingInKernel'
    BY DEF HookInv, NonBlockingInKernel
  <1>10. ConnectsAlone'
    <2>. SUFFICES ASSUME NEW q \in Hook!Caller, call[q].at = "connect"
                  PROVE  /\ kind'[file'[call[q].fd]] = "sock" /\ ~ userNb[file'[call[q].fd]]
                         /\ \A m \in Fd : file'[m] = file'[call[q].fd] => ~ ctx'[m].mark
                         /\ \A r \in Hook!Caller \ {q} :
                               call[r].at # "idle" => file'[call[r].fd] # file'[call[q].fd]
      BY DEF ConnectsAlone
    <2>1. /\ kind[file[call[q].fd]] = "sock" /\ ~ userNb[file[call[q].fd]]
          /\ \A m \in Fd : file[m] = file[call[q].fd] => ~ ctx[m].mark
          /\ \A r \in Hook!Caller \ {q} :
                call[r].at # "idle" => file[call[r].fd] # file[call[q].fd]
      BY DEF HookInv, ConnectsAlone
    <2>2. \A m \in Fd : file'[m] = file'[call[q].fd] => ~ ctx'[m].mark
      BY <1>4, <1>6, <2>1
    <2>3. \A r \in Hook!Caller \ {q} :
             call[r].at # "idle" => file'[call[r].fd] # file'[call[q].fd]
      BY <1>4, <2>1
    <2>. QED  BY <1>4, <2>1, <2>2, <2>3
  <1>11. CallsRight'
    <2>. SUFFICES ASSUME NEW q \in User, call[q].at \in {"try", "wait"}
                  PROVE  /\ Hook!CanWait(call[q].fd)' =>
                               /\ kernelNb[file'[call[q].fd]]
                               /\ call[q].hooked <=> ~ userNb[file'[call[q].fd]]
                         /\ call[q].at = "wait" => Hook!CanWait(call[q].fd)' /\ call[q].hooked
      BY DEF CallsRight
    <2>1. /\ file'[call[q].fd] = file[call[q].fd]
          /\ Hook!CanWait(call[q].fd)' <=> Hook!CanWait(call[q].fd)
      BY <1>4 DEF Hook!Caller, Hook!CanWait
    <2>. QED  BY <2>1 DEF HookInv, CallsRight
  <1>. QED  BY <1>3, <1>5, <1>7, <1>8, <1>9, <1>10, <1>11 DEF HookInv


LEMMA DupKeeps ==
    ASSUME HookInv, Odd = {}, NEW old \in Fd, NEW new \in Fd,
           Hook!Dup(old, new)
    PROVE  HookInv'
  <1>1. /\ Hook!Usable(old) /\ ~ Hook!Open(new) /\ old # new
        /\ file' = [file EXCEPT ![new] = file[old]]
        /\ UNCHANGED <<kind, kernelNb, down, userNb, userMs, call>>
    BY DEF Hook!Dup, Hook!wishes, Hook!Usable, Hook!Closable
  <1>2. \A q \in Hook!Caller : call[q].fd # new
    BY <1>1, HooksAssumption DEF HookInv, CallsOpen, Hook!Open
  <1>3. kind' \in [File -> {"none", "sock", "plain"}] /\ kind' = kind
    BY <1>1 DEF HookInv, Hook!TypeOK
  <1>4. ctx' = [ctx EXCEPT ![new] = ctx[old]]
    <2>1. CASE ctx[old].so
      BY <2>1 DEF Hook!Dup
    <2>2. CASE ~ ctx[old].so
      <3>1. ctx' = ctx /\ ctx[new] = Hook!NoCtx /\ ctx[old] = Hook!NoCtx
        BY <1>1, <2>2 DEF Hook!Dup, HookInv, ContextsOfSockets
      <3>. QED  BY <3>1 DEF HookInv, Hook!TypeOK
    <2>. QED  BY <2>1, <2>2
  <1>. QED  BY <1>1, <1>2, <1>3, <1>4, CopiedKeeps

(* What is left of an open file that a number no longer refers to.         *)
LEMMA Forgotten ==
    ASSUME HookInv, NEW n \in Fd, Hook!Forget(n)
    PROVE  /\ kind' \in [File -> {"none", "sock", "plain"}]
           /\ \A m \in Fd : m # n /\ file[m] # None => kind'[file[m]] = kind[file[m]]
  <1>1. /\ kind \in [File -> {"none", "sock", "plain"}]
        /\ file \in [Fd -> File \cup {None}]
    BY DEF HookInv, Hook!TypeOK
  <1>2. CASE ~ Hook!Open(n) \/ Hook!Shared(n)
    BY <1>1, <1>2 DEF Hook!Forget
  <1>3. CASE ~ (~ Hook!Open(n) \/ Hook!Shared(n))
    <2>1. kind' = [kind EXCEPT ![file[n]] = "none"]
      BY <1>3 DEF Hook!Forget
    <2>2. \A m \in Fd : m # n => file[m] # file[n]
      BY <1>3 DEF Hook!Shared
    <2>. QED  BY <1>1, <2>1, <2>2
  <1>. QED  BY <1>2, <1>3

LEMMA Dup2Keeps ==
    ASSUME HookInv, Odd = {}, NEW old \in Fd, NEW new \in Fd,
           Hook!Dup2(old, new)
    PROVE  HookInv'
  <1>1. /\ Hook!Usable(old) /\ old # new /\ Hook!Forget(new)
        /\ Hook!Open(new) => ~ Hook!Busy(new)
        /\ file' = [file EXCEPT ![new] = file[old]]
        /\ ctx' = [ctx EXCEPT ![new] = ctx[old]]
        /\ UNCHANGED <<kernelNb, down, userNb, userMs, call>>
    BY DEF Hook!Dup2, Hook!wishes
  <1>2. \A q \in Hook!Caller : call[q].fd # new
    BY <1>1, HooksAssumption DEF HookInv, CallsOpen, Hook!Open, Hook!Busy
  <1>. QED  BY <1>1, <1>2, Forgotten, CopiedKeeps

LEMMA CloseBeginsKeeps ==
    ASSUME HookInv, NEW p \in Hook!Caller, NEW n \in Fd, Hook!CloseBegins(p, n)
    PROVE  HookInv'
  <1>1. /\ call[p] = Hook!Idle /\ Hook!Closable(n) /\ ~ Hook!Busy(n)
        /\ Hook!At(p, "close", n, ctx[n].so)
        /\ UNCHANGED <<file, kind, kernelNb, down, userNb, userMs>>
    BY DEF Hook!CloseBegins, Hook!kernel, Hook!wishes
  <1>2. /\ ctx' \in [Fd -> Hook!Ctx] /\ ctx'[n] = Hook!NoCtx
        /\ \A m \in Fd : m # n => ctx'[m] = ctx[m]
    <2>1. ctx \in [Fd -> Hook!Ctx] /\ Hook!NoCtx \in Hook!Ctx
      BY DEF HookInv, Hook!TypeOK, Hook!NoCtx, Hook!Ctx
    <2>2. ~ ctx[n].so => ctx[n] = Hook!NoCtx
      BY DEF HookInv, ContextsOfSockets
    <2>. QED  BY <2>1, <2>2 DEF Hook!CloseBegins
  <1>3. /\ call' \in [Hook!Caller -> [at : {"idle", "try", "wait", "connect", "close"},
                                      fd : Fd \cup {None}, hooked : BOOLEAN]]
        /\ call'[p].at = "close" /\ call'[p].fd = n
        /\ \A q \in Hook!Caller : q # p => call'[q] = call[q]
    <2>1. ctx[n].so \in BOOLEAN
      BY DEF HookInv, Hook!TypeOK, Hook!Ctx
    <2>2. call' = [call EXCEPT ![p] = [at |-> "close", fd |-> n, hooked |-> ctx[n].so]]
      BY <1>1 DEF Hook!At
    <2>. QED  BY <2>1, <2>2, CallBecomes DEF HookInv
  <1>4. call[p].at = "idle" /\ file[n] # None /\ n # None
    BY <1>1, Calls, HooksAssumption DEF Hook!Closable, Hook!Open
  <1>5. \A q \in Hook!Caller : call[q].fd # n
    BY <1>1 DEF Hook!Busy
  <1>6. ASSUME NEW q \in Hook!Caller, call[q].at = "connect"
        PROVE  file[call[q].fd] # file[n]
    BY <1>1, <1>6 DEF Hook!Closable
  <1>7. CallsOpen'
    BY <1>1, <1>3, <1>4, <1>5 DEF HookInv, CallsOpen, Hook!Open
  <1>8. ContextsOfSockets'
    <2>1. \A q \in Hook!Caller : call'[q].at = "close" => ctx'[call'[q].fd] = Hook!NoCtx
      BY <1>2, <1>3, <1>5, Calls DEF HookInv, ContextsOfSockets
    <2>. QED  BY <1>1, <1>2, <2>1 DEF HookInv, ContextsOfSockets, Hook!Open
  <1>9. ContextsRight'
    <2>. SUFFICES ASSUME NEW m \in Fd, Alive(m)'
                  PROVE  m # n /\ Alive(m)
      BY <1>1, <1>2 DEF HookInv, ContextsRight
    <2>1. m # n
      BY <1>3 DEF Alive
    <2>2. \A q \in Hook!Caller : call[q].at = "close" => call[q].fd # m
      BY <1>3, <1>4 DEF Alive
    <2>. QED  BY <1>1, <2>1, <2>2 DEF Alive, Hook!Open, Hook!CanWait
  <1>10. NonBlockingInKernel'
    BY <1>1 DEF HookInv, NonBlockingInKernel
  <1>11. ConnectsAlone'
    BY <1>1, <1>2, <1>3, <1>4, <1>6 DEF HookInv, ConnectsAlone
  <1>12. CallsRight'
    BY <1>1, <1>3 DEF HookInv, CallsRight, Hook!CanWait, Hook!Caller
  <1>. QED
    BY <1>1, <1>2, <1>3, <1>7, <1>8, <1>9, <1>10, <1>11, <1>12 DEF HookInv, Hook!TypeOK

LEMMA CloseEndsKeeps ==
    ASSUME HookInv, NEW p \in Hook!Caller, Hook!CloseEnds(p)
    PROVE  HookInv'
  <1> DEFINE n == call[p].fd
  <1>1. /\ call[p].at = "close" /\ Hook!Forget(n) /\ Hook!Return(p)
        /\ file' = [file EXCEPT ![n] = None]
        /\ UNCHANGED <<kernelNb, down, userNb, userMs, ctx>>
    BY DEF Hook!CloseEnds, Hook!wishes
  <1>2. n \in Fd /\ ctx[n] = Hook!NoCtx /\ \A q \in Hook!Caller : q # p => call[q].fd # n
    BY <1>1, Calls DEF HookInv, ContextsOfSockets, CallsOpen
  <1>. HIDE DEF n
  <1>3. /\ file \in [Fd -> File \cup {None}]
        /\ file' \in [Fd -> File \cup {None}]
        /\ file'[n] = None /\ \A m \in Fd : m # n => file'[m] = file[m]
    BY <1>1, <1>2 DEF HookInv, Hook!TypeOK
  <1>4. /\ kind' \in [File -> {"none", "sock", "plain"}]
        /\ \A m \in Fd : m # n /\ file[m] # None => kind'[file[m]] = kind[file[m]]
    BY <1>1, <1>2, Forgotten
  <1>5. /\ call' \in [Hook!Caller -> [at : {"idle", "try", "wait", "connect", "close"},
                                      fd : Fd \cup {None}, hooked : BOOLEAN]]
        /\ call'[p].at = "idle" /\ call'[p].fd = None /\ ~ call'[p].hooked
        /\ \A q \in Hook!Caller : q # p => call'[q] = call[q]
    BY <1>1, CallOver DEF HookInv
  <1>6. ASSUME NEW q \in Hook!Caller, call'[q].at # "idle"
        PROVE  /\ q # p /\ call'[q] = call[q] /\ call[q].fd \in Fd /\ call[q].fd # n
               /\ file'[call[q].fd] = file[call[q].fd]
               /\ file[call[q].fd] \in File /\ file[call[q].fd] # None
               /\ kind'[file[call[q].fd]] = kind[file[call[q].fd]]
    <2>1. q # p /\ call'[q] = call[q]
      BY <1>5, <1>6
    <2>. QED  BY <1>2, <1>3, <1>4, <1>6, <2>1, Calls
  <1>7. CallsOpen'
    BY <1>5, <1>6 DEF HookInv, CallsOpen, Hook!Open
  <1>8. ContextsOfSockets'
    <2>1. \A q \in Hook!Caller : call'[q].at = "close" => ctx'[call'[q].fd] = Hook!NoCtx
      BY <1>1, <1>6 DEF HookInv, ContextsOfSockets
    <2>2. ASSUME NEW m \in Fd
          PROVE  /\ file'[m] # None => kind'[file'[m]] # "none"
                 /\ file'[m] = None \/ kind'[file'[m]] = "plain" => ctx'[m] = Hook!NoCtx
                 /\ ctx'[m].so \/ ctx'[m] = Hook!NoCtx
      BY <1>1, <1>2, <1>3, <1>4 DEF HookInv, ContextsOfSockets, Hook!Open
    <2>. QED  BY <2>1, <2>2 DEF ContextsOfSockets, Hook!Open
  <1>9. ContextsRight'
    <2>. SUFFICES ASSUME NEW m \in Fd, Alive(m)'
                  PROVE  Alive(m) /\ file'[m] = file[m]
      BY <1>1 DEF HookInv, ContextsRight
    <2>1. m # n /\ file'[m] = file[m] /\ file[m] # None
      BY <1>3 DEF Alive, Hook!Open
    <2>2. \A q \in Hook!Caller : call[q].at = "close" => call[q].fd # m
      BY <1>1, <1>5, <2>1 DEF Alive, n
    <2>. QED  BY <1>1, <1>4, <2>1, <2>2 DEF Alive, Hook!Open, Hook!CanWait
  <1>10. NonBlockingInKernel'
    BY <1>1 DEF HookInv, NonBlockingInKernel
  <1>11. ConnectsAlone'
    <2>. SUFFICES ASSUME NEW q \in Hook!Caller, call'[q].at = "connect"
                  PROVE  /\ kind'[file'[call'[q].fd]] = "sock" /\ ~ userNb'[file'[call'[q].fd]]
                         /\ \A m \in Fd : file'[m] = file'[call'[q].fd] => ~ ctx'[m].mark
                         /\ \A r \in Hook!Caller \ {q} :
                               call'[r].at # "idle" => file'[call'[r].fd] # file'[call'[q].fd]
      BY DEF ConnectsAlone
    <2>1. /\ kind[file[call[q].fd]] = "sock" /\ ~ userNb[file[call[q].fd]]
          /\ \A m \in Fd : file[m] = file[call[q].fd] => ~ ctx[m].mark
          /\ \A r \in Hook!Caller \ {q} :
                call[r].at # "idle" => file[call[r].fd] # file[call[q].fd]
      BY <1>6 DEF HookInv, ConnectsAlone
    <2>2. \A m \in Fd : file'[m] = file'[call'[q].fd] => ~ ctx'[m].mark
      BY <1>1, <1>3, <1>6, <2>1
    <2>3. \A r \in Hook!Caller \ {q} :
             call'[r].at # "idle" => file'[call'[r].fd] # file'[call'[q].fd]
      BY <1>6, <2>1
    <2>. QED  BY <1>1, <1>6, <2>1, <2>2, <2>3
  <1>12. CallsRight'
    <2>. SUFFICES ASSUME NEW q \in User, call'[q].at \in {"try", "wait"}
                  PROVE  /\ Hook!CanWait(call[q].fd)' =>
                               /\ kernelNb'[file'[call'[q].fd]]
                               /\ call'[q].hooked <=> ~ userNb'[file'[call'[q].fd]]
                         /\ call'[q].at = "wait" => Hook!CanWait(call[q].fd)' /\ call'[q].hooked
      BY DEF CallsRight
    <2>1. /\ call'[q] = call[q] /\ file'[call[q].fd] = file[call[q].fd]
          /\ Hook!CanWait(call[q].fd)' <=> Hook!CanWait(call[q].fd)
      BY <1>1, <1>6 DEF Hook!Caller, Hook!CanWait
    <2>. QED  BY <1>1, <2>1 DEF HookInv, CallsRight
  <1>. QED
    BY <1>1, <1>3, <1>4, <1>5, <1>7, <1>8, <1>9, <1>10, <1>11, <1>12 DEF HookInv, Hook!TypeOK


-----------------------------------------------------------------------------
(* Modes, timeouts, shutdown.                                              *)

(* The mode or a timeout of a file that nobody is using and that has no    *)
(* other number, or one more direction that is down: calls keep theirs.    *)
LEMMA UnusedKeeps ==
    ASSUME HookInv, NEW n \in Fd, file[n] # None, ~ Hook!InUse(n), NEW g \in File, g = file[n],
           Hook!TypeOK', UNCHANGED <<file, kind, call>>,
           \A m \in Fd : m # n => ctx'[m] = ctx[m],
           ctx'[n].so \/ ctx'[n] = Hook!NoCtx,
           kind[file[n]] = "plain" => ctx'[n] = Hook!NoCtx,
           \A f \in File : f # g =>
              /\ kernelNb'[f] = kernelNb[f] /\ down'[f] = down[f]
              /\ userNb'[f] = userNb[f] /\ userMs'[f] = userMs[f],
           down[g] \subseteq down'[g],
           userNb'[g] => kernelNb'[g],
           \A m \in Fd : m # n /\ file[m] = g =>
              /\ kernelNb'[g] = kernelNb[g]
              /\ userNb'[g] = userNb[g] /\ userMs'[g] = userMs[g],
           Alive(n)' => /\ ctx'[n].so
                        /\ ctx'[n].nb = userNb'[g] /\ ctx'[n].ms = userMs'[g]
                        /\ ctx'[n].shut \subseteq down'[g]
                        /\ ctx'[n].mark => kernelNb'[g]
    PROVE  HookInv'
  <1>1. ASSUME NEW q \in Hook!Caller, call[q].at # "idle"
        PROVE  /\ call[q].fd \in Fd /\ call[q].fd # n
               /\ file[call[q].fd] \in File /\ file[call[q].fd] # g
    BY <1>1, Calls, HooksAssumption DEF Hook!InUse
  <1>2. CallsOpen'
    BY DEF HookInv, CallsOpen, Hook!Open
  <1>3. ContextsOfSockets'
    BY <1>1 DEF HookInv, ContextsOfSockets, Hook!Open
  <1>4. ContextsRight'
    <2>. SUFFICES ASSUME NEW m \in Fd, Alive(m)'
                  PROVE  /\ ctx'[m].so
                         /\ ctx'[m].nb = userNb'[file[m]] /\ ctx'[m].ms = userMs'[file[m]]
                         /\ ctx'[m].shut \subseteq down'[file[m]]
                         /\ ctx'[m].mark => kernelNb'[file[m]]
      BY DEF ContextsRight
    <2>1. CASE m = n
      BY <2>1
    <2>2. CASE m # n
      <3>1. /\ ctx'[m] = ctx[m] /\ file[m] \in File
            /\ down[file[m]] \subseteq down'[file[m]]
            /\ userNb'[file[m]] = userNb[file[m]] /\ userMs'[file[m]] = userMs[file[m]]
            /\ kernelNb'[file[m]] = kernelNb[file[m]]
        BY <2>2 DEF HookInv, Hook!TypeOK, Alive, Hook!Open
      <3>2. Alive(m)
        <4>1. down[file[m]] # {"r", "w"}
          <5>1. down'[file[m]] \subseteq {"r", "w"} /\ down'[file[m]] # {"r", "w"}
            BY <3>1 DEF Alive, Hook!CanWait, Hook!TypeOK
          <5>. QED  BY <3>1, <5>1
        <4>. QED  BY <4>1 DEF Alive, Hook!Open, Hook!CanWait
      <3>3. /\ ctx[m].so
            /\ ctx[m].nb = userNb[file[m]] /\ ctx[m].ms = userMs[file[m]]
            /\ ctx[m].shut \subseteq down[file[m]]
            /\ ctx[m].mark => kernelNb[file[m]]
        BY <3>2 DEF HookInv, ContextsRight
      <3>. QED  BY <3>1, <3>3
    <2>. QED  BY <2>1, <2>2
  <1>5. NonBlockingInKernel'
    BY DEF HookInv, NonBlockingInKernel
  <1>6. ConnectsAlone'
    <2>. SUFFICES ASSUME NEW q \in Hook!Caller, call[q].at = "connect"
                  PROVE  /\ kind[file[call[q].fd]] = "sock" /\ ~ userNb'[file[call[q].fd]]
                         /\ \A m \in Fd : file[m] = file[call[q].fd] => ~ ctx'[m].mark
                         /\ \A r \in Hook!Caller \ {q} :
                               call[r].at # "idle" => file[call[r].fd] # file[call[q].fd]
      BY DEF ConnectsAlone
    <2>1. file[call[q].fd] \in File /\ file[call[q].fd] # g
      BY <1>1
    <2>. QED  BY <2>1 DEF HookInv, ConnectsAlone
  <1>7. CallsRight'
    <2>. SUFFICES ASSUME NEW q \in User, call[q].at \in {"try", "wait"}
                  PROVE  /\ Hook!CanWait(call[q].fd)' =>
                               /\ kernelNb'[file[call[q].fd]]
                               /\ call[q].hooked <=> ~ userNb'[file[call[q].fd]]
                         /\ call[q].at = "wait" => Hook!CanWait(call[q].fd)' /\ call[q].hooked
      BY DEF CallsRight
    <2>1. file[call[q].fd] \in File /\ file[call[q].fd] # g
      BY <1>1 DEF Hook!Caller
    <2>2. Hook!CanWait(call[q].fd)' <=> Hook!CanWait(call[q].fd)
      BY <2>1 DEF Hook!CanWait
    <2>. QED  BY <2>1, <2>2 DEF HookInv, CallsRight
  <1>. QED  BY <1>2, <1>3, <1>4, <1>5, <1>6, <1>7 DEF HookInv

LEMMA SetModeKeeps ==
    ASSUME HookInv, Odd = {}, NEW n \in Fd, NEW nb \in BOOLEAN, Hook!SetMode(n, nb)
    PROVE  HookInv'
  <1>1. /\ Hook!Usable(n) /\ ~ Hook!InUse(n) /\ ~ Hook!Shared(n)
        /\ kernelNb' = [kernelNb EXCEPT ![file[n]] = nb]
        /\ userNb' = [userNb EXCEPT ![file[n]] = nb]
        /\ UNCHANGED <<file, kind, down, userMs, call>>
    BY DEF Hook!SetMode
  <1>2. file[n] \in File /\ file[n] # None /\ kind[file[n]] \in {"sock", "plain"}
    BY <1>1, Usables DEF Hook!Usable, Hook!Closable, Hook!Open
  <1>3. /\ kernelNb' \in [File -> BOOLEAN] /\ userNb' \in [File -> BOOLEAN]
        /\ kernelNb'[file[n]] = nb /\ userNb'[file[n]] = nb
        /\ \A f \in File : f # file[n] => kernelNb'[f] = kernelNb[f] /\ userNb'[f] = userNb[f]
    BY <1>1, <1>2 DEF HookInv, Hook!TypeOK
  <1>4. /\ ctx' \in [Fd -> Hook!Ctx] /\ \A m \in Fd : m # n => ctx'[m] = ctx[m]
        /\ ~ ctx[n].so => ctx'[n] = ctx[n]
        /\ ctx[n].so => /\ ctx'[n].so /\ ctx'[n].nb = nb /\ ~ ctx'[n].mark
                        /\ ctx'[n].shut = ctx[n].shut /\ ctx'[n].ms = ctx[n].ms
    <2>1. ctx \in [Fd -> Hook!Ctx]
      BY DEF HookInv, Hook!TypeOK
    <2>2. CASE ctx[n].so
      <3>1. ctx' = [ctx EXCEPT ![n] = [@ EXCEPT !.nb = nb, !.mark = FALSE]]
        BY <2>2 DEF Hook!SetMode, Hook!SetNonBlocking
      <3>. QED  BY <2>1, <2>2, <3>1 DEF Hook!Ctx
    <2>3. CASE ~ ctx[n].so
      BY <2>1, <2>3 DEF Hook!SetMode
    <2>. QED  BY <2>2, <2>3
  <1>5. Hook!TypeOK'
    BY <1>1, <1>3, <1>4 DEF HookInv, Hook!TypeOK
  <1>6. \A m \in Fd : m # n => file[m] # file[n]
    BY <1>1 DEF Hook!Shared
  <1>7. /\ ctx'[n].so \/ ctx'[n] = Hook!NoCtx
        /\ kind[file[n]] = "plain" => ctx'[n] = Hook!NoCtx
    <2>1. kind[file[n]] = "plain" => ctx[n] = Hook!NoCtx /\ ~ ctx[n].so
      BY <1>1, Usables DEF Hook!NoCtx
    <2>. QED  BY <1>4, <2>1 DEF HookInv, ContextsOfSockets
  <1>8. Alive(n)' => /\ ctx'[n].so
                     /\ ctx'[n].nb = userNb'[file[n]] /\ ctx'[n].ms = userMs'[file[n]]
                     /\ ctx'[n].shut \subseteq down'[file[n]]
                     /\ ctx'[n].mark => kernelNb'[file[n]]
    <2>1. Alive(n)' => kind[file[n]] = "sock"
      BY <1>1 DEF Alive, Hook!CanWait
    <2>2. kind[file[n]] = "sock" => /\ ctx[n].so /\ ctx[n].ms = userMs[file[n]]
                                    /\ ctx[n].shut \subseteq down[file[n]]
      BY <1>1, Usables
    <2>. QED  BY <1>1, <1>3, <1>4, <2>1, <2>2
  <1>. QED  BY <1>1, <1>2, <1>3, <1>4, <1>5, <1>6, <1>7, <1>8, UnusedKeeps

LEMMA SetTimeoutKeeps ==
    ASSUME HookInv, Odd = {}, NEW n \in Fd, NEW ms \in BOOLEAN, Hook!SetTimeout(n, ms)
    PROVE  HookInv'
  <1>1. /\ Hook!Usable(n) /\ ~ Hook!InUse(n) /\ ~ Hook!Shared(n) /\ kind[file[n]] = "sock"
        /\ userMs' = [userMs EXCEPT ![file[n]] = ms]
        /\ ctx' = [ctx EXCEPT ![n].ms = ms]
        /\ UNCHANGED <<file, kind, kernelNb, down, userNb, call>>
    BY DEF Hook!SetTimeout, Hook!kernel
  <1>2. /\ file[n] \in File /\ file[n] # None /\ ctx[n].so
        /\ ctx[n].nb = userNb[file[n]] /\ ctx[n].shut \subseteq down[file[n]]
        /\ ctx[n].mark => kernelNb[file[n]]
    BY <1>1, Usables DEF Hook!Usable, Hook!Closable, Hook!Open
  <1>3. /\ userMs' \in [File -> BOOLEAN] /\ userMs'[file[n]] = ms
        /\ \A f \in File : f # file[n] => userMs'[f] = userMs[f]
    BY <1>1, <1>2 DEF HookInv, Hook!TypeOK
  <1>4. /\ ctx' \in [Fd -> Hook!Ctx] /\ \A m \in Fd : m # n => ctx'[m] = ctx[m]
        /\ ctx'[n].so = ctx[n].so /\ ctx'[n].nb = ctx[n].nb /\ ctx'[n].mark = ctx[n].mark
        /\ ctx'[n].shut = ctx[n].shut /\ ctx'[n].ms = ms
    <2>1. ctx \in [Fd -> Hook!Ctx]
      BY DEF HookInv, Hook!TypeOK
    <2>. QED  BY <1>1, <2>1 DEF Hook!Ctx
  <1>5. Hook!TypeOK'
    BY <1>1, <1>3, <1>4 DEF HookInv, Hook!TypeOK
  <1>6. \A m \in Fd : m # n => file[m] # file[n]
    BY <1>1 DEF Hook!Shared
  <1>7. userNb'[file[n]] => kernelNb'[file[n]]
    BY <1>1, <1>2 DEF HookInv, NonBlockingInKernel
  <1>. QED  BY <1>1, <1>2, <1>3, <1>4, <1>5, <1>6, <1>7, UnusedKeeps

LEMMA ShutdownKeeps ==
    ASSUME HookInv, Odd = {}, NEW n \in Fd, NEW how \in SUBSET {"r", "w"}, NEW fails \in BOOLEAN,
           Hook!Shutdown(n, how, fails)
    PROVE  HookInv'
  <1> DEFINE g == file[n]
             all == ctx[n].shut \cup how = {"r", "w"}
  <1>1. /\ Hook!Usable(n) /\ ~ Hook!InUse(n) /\ kind[g] = "sock" /\ ~ fails
        /\ down' = [down EXCEPT ![g] = @ \cup how]
        /\ UNCHANGED <<file, kind, kernelNb, userNb, userMs, call>>
    BY DEF Hook!Shutdown, Hook!wishes
  <1>2. /\ g \in File /\ g # None /\ ctx[n].so
        /\ ctx[n].nb = userNb[g] /\ ctx[n].ms = userMs[g]
        /\ ctx[n].shut \subseteq down[g]
        /\ ctx[n].mark => kernelNb[g]
    BY <1>1, Usables DEF Hook!Usable, Hook!Closable, Hook!Open
  <1>. HIDE DEF g
  <1>3. /\ down' \in [File -> SUBSET {"r", "w"}] /\ down'[g] = down[g] \cup how
        /\ \A f \in File : f # g => down'[f] = down[f]
    BY <1>1, <1>2 DEF HookInv, Hook!TypeOK
  <1>4. /\ ctx' \in [Fd -> Hook!Ctx] /\ \A m \in Fd : m # n => ctx'[m] = ctx[m]
        /\ all => ctx'[n] = Hook!NoCtx
        /\ ~ all => /\ ctx'[n].so = ctx[n].so /\ ctx'[n].nb = ctx[n].nb
                    /\ ctx'[n].mark = ctx[n].mark /\ ctx'[n].ms = ctx[n].ms
                    /\ ctx'[n].shut = ctx[n].shut \cup how
    <2>1. ctx \in [Fd -> Hook!Ctx] /\ Hook!NoCtx \in Hook!Ctx
      BY DEF HookInv, Hook!TypeOK, Hook!Ctx, Hook!NoCtx
    <2>2. CASE all
      <3>1. ctx' = [ctx EXCEPT ![n] = Hook!NoCtx]
        BY <2>2 DEF Hook!Shutdown, Hook!SetShut
      <3>. QED  BY <2>1, <2>2, <3>1
    <2>3. CASE ~ all
      <3>1. ctx' = [ctx EXCEPT ![n] = Hook!SetShut(@, how)]
        BY DEF Hook!Shutdown
      <3>2. Hook!SetShut(ctx[n], how) = [ctx[n] EXCEPT !.shut = ctx[n].shut \cup how]
        BY <2>3 DEF Hook!SetShut
      <3>3. ctx' = [ctx EXCEPT ![n] = [ctx[n] EXCEPT !.shut = ctx[n].shut \cup how]]
        BY <3>1, <3>2
      <3>4. ctx[n] \in Hook!Ctx /\ ctx[n].shut \cup how \subseteq {"r", "w"}
        BY <2>1 DEF Hook!Ctx
      <3>5. [ctx[n] EXCEPT !.shut = ctx[n].shut \cup how] \in Hook!Ctx
        BY <3>4 DEF Hook!Ctx
      <3>. QED  BY <2>1, <2>3, <3>3, <3>4, <3>5 DEF Hook!Ctx
    <2>. QED  BY <2>2, <2>3
  <1>5. Hook!TypeOK'
    BY <1>1, <1>3, <1>4 DEF HookInv, Hook!TypeOK
  <1>6. all => ~ Alive(n)'
    <2>. SUFFICES ASSUME all PROVE down'[file'[n]] = {"r", "w"}
      BY DEF Alive, Hook!CanWait
    <2>1. down'[g] \subseteq {"r", "w"}
      BY <1>2, <1>3
    <2>2. {"r", "w"} \subseteq down'[g]
      BY <1>2, <1>3
    <2>. QED  BY <1>1, <2>1, <2>2 DEF g
  <1>7. userNb'[g] => kernelNb'[g]
    BY <1>1, <1>2 DEF HookInv, NonBlockingInKernel
  <1>8. Alive(n)' => /\ ctx'[n].so
                     /\ ctx'[n].nb = userNb'[g] /\ ctx'[n].ms = userMs'[g]
                     /\ ctx'[n].shut \subseteq down'[g]
                     /\ ctx'[n].mark => kernelNb'[g]
    BY <1>1, <1>2, <1>3, <1>4, <1>6
  <1>9. ctx'[n].so \/ ctx'[n] = Hook!NoCtx
    BY <1>2, <1>4
  <1>10. kind[file[n]] # "plain"
    BY <1>1 DEF g
  <1>. QED  BY <1>1, <1>2, <1>3, <1>4, <1>5, <1>7, <1>8, <1>9, <1>10, UnusedKeeps DEF g


-----------------------------------------------------------------------------
(* Calls.                                                                  *)

(* A call of p on n: at most the kernel's mode of its file and the mark    *)
(* of n become TRUE, and what the call believes of n is right.             *)
LEMMA BegunKeeps ==
    ASSUME HookInv, Odd = {}, NEW p \in Hook!Caller, NEW n \in Fd,
           NEW k \in {"try", "connect"}, NEW h \in BOOLEAN,
           call[p].at = "idle", Hook!Usable(n),
           Hook!At(p, k, n, h),
           UNCHANGED <<file, kind, down, userNb, userMs>>,
           kernelNb' \in [File -> BOOLEAN], ctx' \in [Fd -> Hook!Ctx],
           \A f \in File : /\ kernelNb[f] => kernelNb'[f]
                           /\ f # file[n] => kernelNb'[f] = kernelNb[f],
           \A m \in Fd : /\ m # n => ctx'[m] = ctx[m]
                         /\ ctx'[m].so = ctx[m].so /\ ctx'[m].nb = ctx[m].nb
                         /\ ctx'[m].shut = ctx[m].shut /\ ctx'[m].ms = ctx[m].ms,
           ctx'[n] # ctx[n] => kind[file[n]] = "sock",
           ctx'[n].mark => kernelNb'[file[n]],
           k = "connect" => /\ kind[file[n]] = "sock" /\ ~ userNb[file[n]]
                            /\ ~ Hook!InUse(n)
                            /\ \A m \in Fd : file[m] = file[n] => ~ ctx'[m].mark,
           k = "try" /\ h => p \in User,
           k = "try" /\ p \in User /\ Hook!CanWait(n) =>
              kernelNb'[file[n]] /\ (h <=> ~ userNb[file[n]])
    PROVE  HookInv'
  <1>1. /\ file[n] \in File /\ file[n] # None /\ n # None
        /\ \A q \in Hook!Caller :
              /\ ~ (call[q].at = "close" /\ call[q].fd = n)
              /\ ~ (call[q].at = "connect" /\ file[call[q].fd] = file[n])
    BY Usables, HooksAssumption DEF Hook!Usable, Hook!Closable, Hook!Open
  <1>2. /\ call' \in [Hook!Caller -> [at : {"idle", "try", "wait", "connect", "close"},
                                      fd : Fd \cup {None}, hooked : BOOLEAN]]
        /\ call'[p].at = k /\ call'[p].fd = n /\ call'[p].hooked = h
        /\ \A q \in Hook!Caller : q # p => call'[q] = call[q]
    <2>1. call' = [call EXCEPT ![p] = [at |-> k, fd |-> n, hooked |-> h]]
      BY DEF Hook!At
    <2>. QED  BY <2>1, CallBecomes DEF HookInv
  <1>3. Hook!TypeOK'
    BY <1>2 DEF HookInv, Hook!TypeOK
  <1>4. CallsOpen'
    <2>1. \A q \in Hook!Caller :
             /\ call'[q].at = "idle" <=> call'[q].fd = None
             /\ call'[q].at = "idle" => ~ call'[q].hooked
             /\ call'[q].at # "idle" => file[call'[q].fd] # None
             /\ call'[q].at = "wait" \/ (call'[q].at = "try" /\ call'[q].hooked) => q \in User
      BY <1>1, <1>2 DEF HookInv, CallsOpen, Hook!Open
    <2>2. \A q, r \in Hook!Caller :
             call'[q].at = "close" /\ q # r => call'[r].fd # call'[q].fd
      BY <1>1, <1>2 DEF HookInv, CallsOpen
    <2>. QED  BY <2>1, <2>2 DEF CallsOpen, Hook!Open
  <1>5. ContextsOfSockets'
    <2>1. \A q \in Hook!Caller : call'[q].at = "close" => ctx'[call'[q].fd] = Hook!NoCtx
      <3>. SUFFICES ASSUME NEW q \in Hook!Caller, call'[q].at = "close"
                    PROVE  ctx'[call'[q].fd] = Hook!NoCtx
        OBVIOUS
      <3>1. call'[q] = call[q] /\ call[q].at = "close"
        BY <1>2
      <3>2. call[q].fd \in Fd /\ call[q].fd # n /\ ctx[call[q].fd] = Hook!NoCtx
        BY <1>1, <3>1, Calls DEF HookInv, ContextsOfSockets
      <3>. QED  BY <3>1, <3>2
    <2>2. ASSUME NEW m \in Fd
          PROVE  /\ file[m] # None => kind[file[m]] # "none"
                 /\ file[m] = None \/ kind[file[m]] = "plain" => ctx'[m] = Hook!NoCtx
                 /\ ctx'[m].so \/ ctx'[m] = Hook!NoCtx
      <3>1. /\ file[m] # None => kind[file[m]] # "none"
            /\ file[m] = None \/ kind[file[m]] = "plain" => ctx[m] = Hook!NoCtx
            /\ ctx[m].so \/ ctx[m] = Hook!NoCtx
        BY DEF HookInv, ContextsOfSockets, Hook!Open
      <3>2. ctx'[n] # ctx[n] => ctx[n].so
        BY Usables
      <3>3. ctx'[m] = ctx[m] \/ m = n
        OBVIOUS
      <3>. QED  BY <1>1, <3>1, <3>2, <3>3
    <2>. QED  BY <2>1, <2>2 DEF ContextsOfSockets, Hook!Open
  <1>6. ContextsRight'
    <2>. SUFFICES ASSUME NEW m \in Fd, Alive(m)'
                  PROVE  /\ ctx'[m].so
                         /\ ctx'[m].nb = userNb[file[m]] /\ ctx'[m].ms = userMs[file[m]]
                         /\ ctx'[m].shut \subseteq down[file[m]]
                         /\ ctx'[m].mark => kernelNb'[file[m]]
      BY DEF ContextsRight
    <2>1. \A q \in Hook!Caller : call[q].at = "close" => call[q].fd # m
      BY <1>2 DEF Alive
    <2>2. Alive(m) /\ file[m] \in File
      BY <2>1 DEF Alive, Hook!Open, Hook!CanWait, HookInv, Hook!TypeOK
    <2>3. /\ ctx[m].so
          /\ ctx[m].nb = userNb[file[m]] /\ ctx[m].ms = userMs[file[m]]
          /\ ctx[m].shut \subseteq down[file[m]]
          /\ ctx[m].mark => kernelNb[file[m]]
      BY <2>2 DEF HookInv, ContextsRight
    <2>4. ctx'[m].mark => kernelNb'[file[m]]
      BY <2>2, <2>3
    <2>. QED  BY <2>3, <2>4
  <1>7. NonBlockingInKernel'
    BY DEF HookInv, NonBlockingInKernel
  <1>8. ConnectsAlone'
    <2>. SUFFICES ASSUME NEW q \in Hook!Caller, call'[q].at = "connect"
                  PROVE  /\ kind[file[call'[q].fd]] = "sock" /\ ~ userNb[file[call'[q].fd]]
                         /\ \A m \in Fd : file[m] = file[call'[q].fd] => ~ ctx'[m].mark
                         /\ \A r \in Hook!Caller \ {q} :
                               call'[r].at # "idle" => file[call'[r].fd] # file[call'[q].fd]
      BY DEF ConnectsAlone
    <2>1. CASE q = p
      <3>1. \A r \in Hook!Caller \ {p} :
               call[r].at # "idle" => file[call[r].fd] # file[n]
        BY <1>2, <2>1, Calls, HooksAssumption DEF Hook!InUse
      <3>. QED  BY <1>2, <2>1, <3>1
    <2>2. CASE q # p
      <3>1. call'[q] = call[q] /\ call[q].at = "connect" /\ file[call[q].fd] # file[n]
        BY <1>1, <1>2, <2>2
      <3>2. /\ kind[file[call[q].fd]] = "sock" /\ ~ userNb[file[call[q].fd]]
            /\ \A m \in Fd : file[m] = file[call[q].fd] => ~ ctx[m].mark
            /\ \A r \in Hook!Caller \ {q} :
                  call[r].at # "idle" => file[call[r].fd] # file[call[q].fd]
        BY <3>1 DEF HookInv, ConnectsAlone
      <3>3. \A m \in Fd : file[m] = file[call[q].fd] => m # n
        BY <3>1
      <3>. QED  BY <1>2, <3>1, <3>2, <3>3
    <2>. QED  BY <2>1, <2>2
  <1>9. CallsRight'
    <2>. SUFFICES ASSUME NEW q \in User, call'[q].at \in {"try", "wait"}
                  PROVE  /\ Hook!CanWait(call[q].fd)' =>
                               /\ kernelNb'[file[call'[q].fd]]
                               /\ call'[q].hooked <=> ~ userNb[file[call'[q].fd]]
                         /\ call'[q].at = "wait" => Hook!CanWait(call[q].fd)' /\ call'[q].hooked
      BY DEF CallsRight
    <2>1. q \in Hook!Caller
      BY DEF Hook!Caller
    <2>2. CASE q = p
      <3>1. Hook!CanWait(call[q].fd)' <=> Hook!CanWait(n)
        BY <1>2, <2>2 DEF Hook!CanWait
      <3>2. k = "try" /\ call'[q].at = "try"
        BY <1>2, <2>2
      <3>. QED  BY <1>2, <2>2, <3>1, <3>2
    <2>3. CASE q # p
      <3>1. call'[q] = call[q]
        BY <1>2, <2>1, <2>3
      <3>2. Hook!CanWait(call[q].fd)' <=> Hook!CanWait(call[q].fd)
        BY <3>1 DEF Hook!CanWait
      <3>3. file[call[q].fd] \in File
        BY <2>1, <3>1, Calls
      <3>4. /\ Hook!CanWait(call[q].fd) =>
                  /\ kernelNb[file[call[q].fd]]
                  /\ call[q].hooked <=> ~ userNb[file[call[q].fd]]
            /\ call[q].at = "wait" => Hook!CanWait(call[q].fd) /\ call[q].hooked
        BY <3>1 DEF HookInv, CallsRight
      <3>. QED  BY <3>1, <3>2, <3>3, <3>4
    <2>. QED  BY <2>2, <2>3
  <1>. QED  BY <1>3, <1>4, <1>5, <1>6, <1>7, <1>8, <1>9 DEF HookInv

LEMMA CallBeginsKeeps ==
    ASSUME HookInv, Odd = {}, NEW p \in Hook!Caller, NEW n \in Fd, NEW all \in BOOLEAN,
           Hook!CallBegins(p, n, all)
    PROVE  HookInv'
  <1>1. /\ call[p].at = "idle" /\ Hook!Usable(n) /\ file[n] \in File
        /\ UNCHANGED <<file, kind, down, userNb, userMs>>
    BY Calls, Usables DEF Hook!CallBegins, Hook!wishes
  <1>2. /\ ctx \in [Fd -> Hook!Ctx] /\ kernelNb \in [File -> BOOLEAN]
        /\ \A f \in File : userNb[f] => kernelNb[f]
        /\ kind[file[n]] \in {"sock", "plain"}
        /\ kind[file[n]] = "sock" => /\ ctx[n].so /\ ctx[n].nb = userNb[file[n]]
                                     /\ ctx[n].mark => kernelNb[file[n]]
        /\ kind[file[n]] = "plain" => ~ Hook!CanWait(n) /\ ctx[n] = Hook!NoCtx
    BY <1>1, Usables DEF HookInv, Hook!TypeOK, NonBlockingInKernel
  <1>3. p \in User => p \notin Thread
    BY ObjectsAssumption
  <1>4. ~ Hook!NoCtx.so /\ ~ Hook!NoCtx.mark
    BY DEF Hook!NoCtx
  <1>5. CASE Hook!PassesThrough(p, n, all)
    <2>1. Hook!At(p, "try", n, FALSE) /\ UNCHANGED <<kernelNb, ctx>>
      BY <1>5 DEF Hook!CallBegins
    <2>2. p \in User /\ Hook!CanWait(n) => userNb[file[n]] /\ kernelNb[file[n]]
      BY <1>1, <1>2, <1>3, <1>5 DEF Hook!PassesThrough, Hook!CanWait
    <2>3. ctx[n].mark => kernelNb[file[n]]
      BY <1>2, <1>4
    <2>4. /\ "try" \in {"try", "connect"} /\ FALSE \in BOOLEAN
          /\ \A m \in Fd : ctx'[m] = ctx[m]
          /\ kernelNb' \in [File -> BOOLEAN] /\ ctx' \in [Fd -> Hook!Ctx]
      BY <1>2, <2>1
    <2>. QED  BY <1>1, <2>1, <2>2, <2>3, <2>4, BegunKeeps
  <1>6. CASE ~ Hook!PassesThrough(p, n, all)
    <2>1. Hook!At(p, "try", n, TRUE) /\ Hook!Mark(n)
      BY <1>6 DEF Hook!CallBegins
    <2>2. kind[file[n]] = "sock" /\ ctx[n].so /\ ~ ctx[n].nb /\ ~ userNb[file[n]]
      <3>1. kind[file[n]] = "plain" => ~ all
        BY DEF Hook!CallBegins
      <3>2. all \/ ctx[n].so
        BY <1>6 DEF Hook!PassesThrough
      <3>3. ~ ctx[n].nb
        BY <1>6 DEF Hook!PassesThrough
      <3>. QED  BY <1>2, <1>4, <3>1, <3>2, <3>3
    <2>3. /\ kernelNb' \in [File -> BOOLEAN] /\ kernelNb'[file[n]]
          /\ \A f \in File : /\ kernelNb[f] => kernelNb'[f]
                             /\ f # file[n] => kernelNb'[f] = kernelNb[f]
      BY <1>1, <1>2, <2>1, <2>2 DEF Hook!Mark
    <2>4. /\ ctx' \in [Fd -> Hook!Ctx]
          /\ \A m \in Fd : /\ m # n => ctx'[m] = ctx[m]
                           /\ ctx'[m].so = ctx[m].so /\ ctx'[m].nb = ctx[m].nb
                           /\ ctx'[m].shut = ctx[m].shut /\ ctx'[m].ms = ctx[m].ms
      BY <1>2, <2>1 DEF Hook!Mark, Hook!Ctx
    <2>5. p \in User
      BY <1>6 DEF Hook!PassesThrough, Hook!Caller
    <2>. QED  BY <1>1, <2>1, <2>2, <2>3, <2>4, <2>5, BegunKeeps
  <1>. QED  BY <1>5, <1>6

LEMMA ConnectBeginsKeeps ==
    ASSUME HookInv, Odd = {}, NEW p \in Hook!Caller, NEW n \in Fd, Hook!ConnectBegins(p, n)
    PROVE  HookInv'
  <1>1. /\ call[p].at = "idle" /\ Hook!Usable(n) /\ file[n] \in File
        /\ kind[file[n]] = "sock" /\ ~ Hook!InUse(n)
        /\ kernelNb[file[n]] => userNb[file[n]]
        /\ UNCHANGED <<file, kind, down, userNb, userMs, ctx>>
    BY Calls, Usables DEF Hook!ConnectBegins, Hook!wishes
  <1>2. /\ ctx \in [Fd -> Hook!Ctx] /\ kernelNb \in [File -> BOOLEAN]
        /\ \A f \in File : userNb[f] => kernelNb[f]
        /\ ctx[n].nb = userNb[file[n]] /\ (ctx[n].mark => kernelNb[file[n]])
    BY <1>1, Usables DEF HookInv, Hook!TypeOK, NonBlockingInKernel
  <1>3. p \in User => p \notin Thread
    BY ObjectsAssumption
  <1>4. CASE Hook!PassesThrough(p, n, TRUE)
    <2>1. Hook!At(p, "try", n, FALSE) /\ UNCHANGED kernelNb
      BY <1>4 DEF Hook!ConnectBegins
    <2>2. p \in User => userNb[file[n]] /\ kernelNb[file[n]]
      BY <1>1, <1>2, <1>3, <1>4 DEF Hook!PassesThrough
    <2>. QED  BY <1>1, <1>2, <2>1, <2>2, BegunKeeps
  <1>5. CASE ~ Hook!PassesThrough(p, n, TRUE)
    <2>1. Hook!At(p, "connect", n, TRUE) /\ kernelNb' = [kernelNb EXCEPT ![file[n]] = TRUE]
      BY <1>5 DEF Hook!ConnectBegins
    <2>2. ~ userNb[file[n]] /\ ~ kernelNb[file[n]]
      BY <1>1, <1>2, <1>5 DEF Hook!PassesThrough
    <2>3. ASSUME NEW m \in Fd, file[m] = file[n], ctx[m].mark
          PROVE  FALSE
      <3>1. \A q \in Hook!Caller : call[q].at = "close" => call[q].fd # m
        <4>. SUFFICES ASSUME NEW q \in Hook!Caller, call[q].at = "close", call[q].fd = m
                      PROVE  FALSE
          OBVIOUS
        <4>1. call[q].fd # None /\ file[call[q].fd] = file[n]
          BY <2>3, HooksAssumption
        <4>. QED  BY <1>1, <4>1 DEF Hook!InUse
      <3>2. Hook!Open(m) /\ Hook!CanWait(m)
        BY <1>1, <2>3, Usables DEF Hook!Open, Hook!CanWait, Hook!Usable, Hook!Closable
      <3>3. Alive(m)
        BY <3>1, <3>2 DEF Alive
      <3>. QED  BY <2>2, <2>3, <3>3 DEF HookInv, ContextsRight
    <2>4. /\ kernelNb' \in [File -> BOOLEAN] /\ kernelNb'[file[n]]
          /\ \A f \in File : /\ kernelNb[f] => kernelNb'[f]
                             /\ f # file[n] => kernelNb'[f] = kernelNb[f]
      BY <1>1, <1>2, <2>1
    <2>. QED  BY <1>1, <1>2, <2>1, <2>2, <2>3, <2>4, BegunKeeps
  <1>. QED  BY <1>4, <1>5


(* A call of p ends, waits or tries again; a connect makes the socket      *)
(* blocking again.                                                         *)
LEMMA EndedKeeps ==
    ASSUME HookInv, NEW p \in Hook!Caller, call[p].at \in {"try", "wait", "connect"},
           UNCHANGED <<file, kind, down, userNb, userMs, ctx>>,
           \/ Hook!Return(p) /\ (call[p].at = "connect" \/ kernelNb' = kernelNb)
           \/ /\ call[p].at \in {"try", "wait"} /\ kernelNb' = kernelNb
              /\ Hook!CanWait(call[p].fd) /\ call[p].hooked
              /\ \E k \in {"try", "wait"} : Hook!At(p, k, call[p].fd, TRUE),
           kernelNb' \in [File -> BOOLEAN],
           \A f \in File : f # file[call[p].fd] => kernelNb'[f] = kernelNb[f]
    PROVE  HookInv'
  <1>1. /\ call[p].fd \in Fd /\ file[call[p].fd] \in File
    BY Calls
  <1>2. /\ call' \in [Hook!Caller -> [at : {"idle", "try", "wait", "connect", "close"},
                                      fd : Fd \cup {None}, hooked : BOOLEAN]]
        /\ \A q \in Hook!Caller : q # p => call'[q] = call[q]
        /\ \/ call'[p].at = "idle" /\ call'[p].fd = None /\ ~ call'[p].hooked
           \/ /\ call'[p].at \in {"try", "wait"} /\ call'[p].fd = call[p].fd /\ call'[p].hooked
              /\ call[p].at \in {"try", "wait"} /\ kernelNb' = kernelNb
              /\ Hook!CanWait(call[p].fd) /\ call[p].hooked
    <2>1. CASE Hook!Return(p)
      BY <2>1, CallOver DEF HookInv
    <2>2. CASE /\ call[p].at \in {"try", "wait"} /\ kernelNb' = kernelNb
               /\ Hook!CanWait(call[p].fd) /\ call[p].hooked
               /\ \E k \in {"try", "wait"} : Hook!At(p, k, call[p].fd, TRUE)
      <3>1. PICK k \in {"try", "wait"} : Hook!At(p, k, call[p].fd, TRUE)
        BY <2>2
      <3>2. call' = [call EXCEPT ![p] = [at |-> k, fd |-> call[p].fd, hooked |-> TRUE]]
        BY <3>1 DEF Hook!At
      <3>. QED  BY <1>1, <2>2, <3>2, CallBecomes DEF HookInv
    <2>. QED  BY <2>1, <2>2
  <1>3. call[p].at # "connect" => kernelNb' = kernelNb
    OBVIOUS
  <1>4. Hook!TypeOK'
    BY <1>2 DEF HookInv, Hook!TypeOK
  <1>5. CallsOpen'
    <2>1. \A q \in Hook!Caller :
             /\ call'[q].at = "idle" <=> call'[q].fd = None
             /\ call'[q].at = "idle" => ~ call'[q].hooked
             /\ call'[q].at # "idle" => file[call'[q].fd] # None
             /\ call'[q].at = "wait" \/ (call'[q].at = "try" /\ call'[q].hooked) => q \in User
      BY <1>1, <1>2, HooksAssumption DEF HookInv, CallsOpen, Hook!Open
    <2>2. \A q, r \in Hook!Caller :
             call'[q].at = "close" /\ q # r => call'[r].fd # call'[q].fd
      <3>. SUFFICES ASSUME NEW q \in Hook!Caller, NEW r \in Hook!Caller,
                           call'[q].at = "close", q # r
                    PROVE  call'[r].fd # call'[q].fd
        OBVIOUS
      <3>1. call'[q] = call[q] /\ call[q].at = "close"
        BY <1>2
      <3>2. call[q].fd \in Fd /\ call[q].fd # None /\ call[r].fd # call[q].fd
        BY <3>1, Calls, HooksAssumption DEF HookInv, CallsOpen
      <3>. QED  BY <1>2, <3>1, <3>2
    <2>. QED  BY <2>1, <2>2 DEF CallsOpen, Hook!Open
  <1>6. ContextsOfSockets'
    BY <1>2 DEF HookInv, ContextsOfSockets, Hook!Open
  <1>7. call[p].at = "connect" =>
           /\ ~ userNb[file[call[p].fd]]
           /\ \A m \in Fd : file[m] = file[call[p].fd] => ~ ctx[m].mark
           /\ \A q \in Hook!Caller \ {p} :
                 call[q].at # "idle" => file[call[q].fd] # file[call[p].fd]
    BY DEF HookInv, ConnectsAlone
  <1>8. ContextsRight'
    <2>. SUFFICES ASSUME NEW m \in Fd, Alive(m)'
                  PROVE  /\ ctx[m].so
                         /\ ctx[m].nb = userNb[file[m]] /\ ctx[m].ms = userMs[file[m]]
                         /\ ctx[m].shut \subseteq down[file[m]]
                         /\ ctx[m].mark => kernelNb'[file[m]]
      BY DEF ContextsRight
    <2>1. \A q \in Hook!Caller : call[q].at = "close" => call[q].fd # m
      BY <1>2 DEF Alive
    <2>2. Alive(m) /\ file[m] \in File
      BY <2>1 DEF Alive, Hook!Open, Hook!CanWait, HookInv, Hook!TypeOK
    <2>3. /\ ctx[m].so
          /\ ctx[m].nb = userNb[file[m]] /\ ctx[m].ms = userMs[file[m]]
          /\ ctx[m].shut \subseteq down[file[m]]
          /\ ctx[m].mark => kernelNb[file[m]]
      BY <2>2 DEF HookInv, ContextsRight
    <2>4. ctx[m].mark => kernelNb'[file[m]]
      BY <1>3, <1>7, <2>2, <2>3
    <2>. QED  BY <2>3, <2>4
  <1>9. NonBlockingInKernel'
    BY <1>1, <1>3, <1>7 DEF HookInv, NonBlockingInKernel
  <1>10. ConnectsAlone'
    BY <1>2 DEF HookInv, ConnectsAlone
  <1>11. CallsRight'
    <2>. SUFFICES ASSUME NEW q \in User, call'[q].at \in {"try", "wait"}
                  PROVE  /\ Hook!CanWait(call[q].fd)' =>
                               /\ kernelNb'[file[call'[q].fd]]
                               /\ call'[q].hooked <=> ~ userNb[file[call'[q].fd]]
                         /\ call'[q].at = "wait" => Hook!CanWait(call[q].fd)' /\ call'[q].hooked
      BY DEF CallsRight
    <2>1. q \in Hook!Caller
      BY DEF Hook!Caller
    <2>2. /\ call[q].at \in {"try", "wait"} /\ call'[q].fd = call[q].fd
          /\ q = p => /\ Hook!CanWait(call[q].fd) /\ call[q].hooked /\ call'[q].hooked
          /\ q # p => call'[q] = call[q]
      BY <1>2, <2>1
    <2>3. Hook!CanWait(call[q].fd)' <=> Hook!CanWait(call[q].fd)
      BY <2>2 DEF Hook!CanWait
    <2>4. file[call[q].fd] \in File
      BY <2>1, <2>2, Calls
    <2>5. /\ Hook!CanWait(call[q].fd) =>
                /\ kernelNb[file[call[q].fd]]
                /\ call[q].hooked <=> ~ userNb[file[call[q].fd]]
          /\ call[q].at = "wait" => Hook!CanWait(call[q].fd) /\ call[q].hooked
      BY <2>2 DEF HookInv, CallsRight
    <2>6. kernelNb'[file[call[q].fd]] = kernelNb[file[call[q].fd]]
      <3>1. CASE call[p].at = "connect"
        <4>1. q # p
          BY <2>2, <3>1
        <4>2. file[call[q].fd] # file[call[p].fd]
          BY <1>7, <2>1, <2>2, <3>1, <4>1
        <4>. QED  BY <2>4, <4>2
      <3>2. CASE call[p].at # "connect"
        BY <1>3, <3>2
      <3>. QED  BY <3>1, <3>2
    <2>. QED  BY <2>2, <2>3, <2>5, <2>6
  <1>. QED  BY <1>4, <1>5, <1>6, <1>8, <1>9, <1>10, <1>11 DEF HookInv

LEMMA EndsKeep ==
    ASSUME HookInv, NEW p \in Hook!Caller,
           Hook!TrySucceeds(p) \/ Hook!TryAgain(p) \/ Hook!WaitEnds(p) \/ Hook!ConnectEnds(p)
    PROVE  HookInv'
  <1>1. kernelNb \in [File -> BOOLEAN]
    BY DEF HookInv, Hook!TypeOK
  <1>2. CASE Hook!TrySucceeds(p)
    BY <1>1, <1>2, EndedKeeps DEF Hook!TrySucceeds, Hook!kernel, Hook!wishes
  <1>3. CASE Hook!TryAgain(p)
    <2>1. /\ call[p].at = "try" /\ Hook!CanWait(call[p].fd)
          /\ UNCHANGED <<file, kind, kernelNb, down, userNb, userMs, ctx>>
          /\ \/ call[p].hooked /\ Hook!At(p, "wait", call[p].fd, TRUE)
             \/ Hook!Return(p)
      BY <1>3, Calls DEF Hook!TryAgain, Hook!kernel, Hook!wishes
    <2>. QED  BY <1>1, <2>1, EndedKeeps
  <1>4. CASE Hook!WaitEnds(p)
    <2>1. /\ call[p].at = "wait"
          /\ UNCHANGED <<file, kind, kernelNb, down, userNb, userMs, ctx>>
          /\ Hook!At(p, "try", call[p].fd, TRUE) \/ Hook!Return(p)
      BY <1>4 DEF Hook!WaitEnds, Hook!kernel, Hook!wishes
    <2>2. Hook!CanWait(call[p].fd) /\ call[p].hooked
      BY <2>1 DEF HookInv, CallsOpen, CallsRight
    <2>. QED  BY <1>1, <2>1, <2>2, EndedKeeps
  <1>5. CASE Hook!ConnectEnds(p)
    <2>1. /\ call[p].at = "connect" /\ Hook!Return(p)
          /\ kernelNb' = [kernelNb EXCEPT ![file[call[p].fd]] = FALSE]
          /\ UNCHANGED <<file, kind, down, userNb, userMs, ctx>>
      BY <1>5 DEF Hook!ConnectEnds, Hook!wishes
    <2>2. /\ kernelNb' \in [File -> BOOLEAN]
          /\ \A f \in File : f # file[call[p].fd] => kernelNb'[f] = kernelNb[f]
      BY <1>1, <2>1
    <2>. QED  BY <2>1, <2>2, EndedKeeps
  <1>. QED  BY <1>2, <1>3, <1>4, <1>5

-----------------------------------------------------------------------------
(* Whoever calls whatever, the table stays right.                          *)
LEMMA HooksStep ==
    ASSUME HookInv, Odd = {}, Hook!Next
    PROVE  HookInv'
  <1>1. \A n \in Fd : ~ Hook!CoClose(n)
    BY DEF Hook!CoClose
  <1>2. CASE \E n \in Fd, f \in File : Hook!OpenPlain(n, f) \/ \E x \in BOOLEAN : Hook!Socket(n, f, x)
    BY <1>2, OpenPlainKeeps, SocketKeeps
  <1>3. CASE \E n, m \in Fd : Hook!Dup(n, m) \/ Hook!Dup2(n, m)
    BY <1>3, DupKeeps, Dup2Keeps
  <1>4. CASE \E n \in Fd, x \in BOOLEAN : Hook!SetMode(n, x) \/ Hook!SetTimeout(n, x)
    BY <1>4, SetModeKeeps, SetTimeoutKeeps
  <1>5. CASE \E n \in Fd, how \in {{"r"}, {"w"}, {"r", "w"}}, x \in BOOLEAN :
                Hook!Shutdown(n, how, x)
    BY <1>5, ShutdownKeeps
  <1>6. CASE \E p \in Hook!Caller, n \in Fd :
                \/ Hook!CloseBegins(p, n) \/ Hook!ConnectBegins(p, n)
                \/ \E x \in BOOLEAN : Hook!CallBegins(p, n, x)
                \/ \E f \in File, x, y \in BOOLEAN : Hook!Accepted(p, n, f, x, y)
    BY <1>6, CloseBeginsKeeps, ConnectBeginsKeeps, CallBeginsKeeps, AcceptedKeeps
  <1>7. CASE \E p \in Hook!Caller :
                \/ Hook!CloseEnds(p) \/ Hook!TrySucceeds(p) \/ Hook!TryAgain(p)
                \/ Hook!WaitEnds(p) \/ Hook!ConnectEnds(p)
    BY <1>7, CloseEndsKeeps, EndsKeep
  <1>. QED  BY <1>1, <1>2, <1>3, <1>4, <1>5, <1>6, <1>7 DEF Hook!Next

(* For every descriptor, file, coroutine and thread: no coroutine blocks   *)
(* its scheduler in the kernel, a call waits if the user left the          *)
(* descriptor blocking, and as long as the user said.  Without the unusual *)
(* uses of Odd, with each of which TLC finds a counterexample.             *)
THEOREM CallsStayAsAsked == ASSUME Odd = {} PROVE SchedulerSpec => []CallsAsAsked
  <1> DEFINE IInv == part = "hooks" => HookInv
             allVars == <<vars, poolVars, tmVars, hookVars, objectVars, part>>
  <1>1. SchedulerInit => IInv
    BY HooksStart DEF SchedulerInit
  <1>2. ASSUME IInv, [SchedulerNext]_allVars
        PROVE  IInv'
    <2>. SUFFICES ASSUME part' = "hooks" PROVE HookInv'
      OBVIOUS
    <2>1. part = "hooks" /\ HookInv
      BY <1>2 DEF SchedulerNext
    <2>2. CASE Hook!Next
      BY <2>1, <2>2, HooksStep
    <2>3. CASE UNCHANGED hookVars
      <3>1. UNCHANGED <<file, kind, kernelNb, down, userNb, userMs, ctx, call>>
        BY <2>3 DEF hookVars
      <3>. QED
        BY <2>1, <3>1 DEF HookInv, Hook!TypeOK, CallsOpen, ContextsOfSockets, ContextsRight,
                          NonBlockingInKernel, ConnectsAlone, CallsRight, Alive, Hook!Open,
                          Hook!CanWait
    <2>. QED  BY <1>2, <2>1, <2>2, <2>3 DEF SchedulerNext
  <1>3. IInv => CallsAsAsked
    <2>. SUFFICES ASSUME HookInv PROVE Hook!SchedulerNotBlocked /\ Hook!WaitsAsAsked
      BY DEF CallsAsAsked
    <2>1. ASSUME NEW p \in User, call[p].at \in {"try", "wait"}, Hook!CanWait(call[p].fd)
          PROVE  /\ kernelNb[file[call[p].fd]]
                 /\ call[p].hooked <=> ~ userNb[file[call[p].fd]]
                 /\ ctx[call[p].fd].ms = userMs[file[call[p].fd]]
      <3>1. call[p].fd \in Fd /\ Hook!Open(call[p].fd)
        BY <2>1, Calls DEF Hook!Caller, Hook!Open
      <3>2. \A q \in Hook!Caller : call[q].at = "close" => call[q].fd # call[p].fd
        BY <2>1 DEF HookInv, CallsOpen, Hook!Caller
      <3>3. Alive(call[p].fd)
        BY <2>1, <3>1, <3>2 DEF Alive
      <3>. QED  BY <2>1, <3>1, <3>3 DEF HookInv, CallsRight, ContextsRight
    <2>2. Hook!SchedulerNotBlocked
      BY <2>1 DEF Hook!SchedulerNotBlocked
    <2>3. Hook!WaitsAsAsked
      <3>1. \A p \in User : call[p].at = "wait" => Hook!CanWait(call[p].fd) /\ call[p].hooked
        BY DEF HookInv, CallsRight
      <3>2. \A p \in User : userNb[file[call[p].fd]] \in BOOLEAN \/ call[p].at = "idle"
        BY Calls DEF HookInv, Hook!TypeOK, Hook!Caller
      <3>. QED  BY <2>1, <3>1, <3>2 DEF Hook!WaitsAsAsked
    <2>. QED  BY <2>2, <2>3
  <1>. QED  BY <1>1, <1>2, <1>3, PTL DEF SchedulerSpec

-----------------------------------------------------------------------------
(* The pool of coroutines                                                  *)

(* The index is in another block than the current one, or before _o.       *)
Used(i) == Pool!BlockOf(i) = c => i < c * N + o

CoPoolTypeOK ==
    /\ c \in Pool!Block /\ o \in 0..N
    /\ allocated \subseteq Pool!Block /\ blks \subseteq Pool!Block
    /\ useCount \in [Pool!Block -> Nat]
    /\ v0 \in Seq(Pool!Idx) /\ vc \in Seq(Pool!Idx)
    /\ holders \in [Pool!Idx -> {0, 1}]
    /\ holders[Pool!MainIdx] = 1

(* The counts are exact, and a block is there as long as it is in use.     *)
CountsExact ==
    \A q \in Pool!Block :
       /\ useCount[q] = Cardinality(Pool!LiveIn(q))
       /\ q \in allocated <=> Pool!LiveIn(q) # {}

(* What is kept of a block are its indices that were handed out and are    *)
(* free, each once; an empty block begins anew.                            *)
KeepsFree(v, q) ==
    /\ IsInjective(v)
    /\ Range(v) = {i \in Pool!Idx : Pool!BlockOf(i) = q /\ Used(i) /\ holders[i] = 0}
FreeOnce ==
    /\ KeepsFree(v0, 0)
    /\ IF c = 0 THEN vc = <<>> ELSE KeepsFree(vc, c)
    /\ \A i \in Pool!Live : Used(i)
    /\ Pool!LiveIn(c) = {} => o = 0

(* Only the first three blocks are used, and one that the pool has left    *)
(* behind for a higher one is available if and only if it is empty.        *)
WithinThree ==
    /\ c <= 2
    /\ \A q \in Pool!Block : q > 2 => Pool!LiveIn(q) = {} /\ q \notin blks
    /\ c = 0 => Pool!LiveIn(1) = {} /\ Pool!LiveIn(2) = {} /\ blks = {}
    /\ \A q \in blks : q # c /\ Pool!LiveIn(q) = {}
    /\ \A q \in Pool!Block : q < c /\ Pool!LiveIn(q) = {} => q \in blks

CoPoolInv == CoPoolTypeOK /\ CountsExact /\ FreeOnce /\ WithinThree

-----------------------------------------------------------------------------
(* The index of a coroutine names its block and its offset.                *)
LEMMA IndexParts ==
    /\ \A q \in Nat, r \in 0..(N - 1) : Pool!BlockOf(q * N + r) = q
    /\ \A i \in Nat : /\ Pool!BlockOf(i) \in Nat
                      /\ Pool!BlockOf(i) * N <= i
                      /\ i < Pool!BlockOf(i) * N + N
  <1>1. N \in Nat /\ N > 0
    BY PoolAssumption
  <1>2. ASSUME NEW i \in Nat
        PROVE  /\ Pool!BlockOf(i) \in Nat
               /\ Pool!BlockOf(i) * N <= i
               /\ i < Pool!BlockOf(i) * N + N
    BY <1>1, Z3 DEF Pool!BlockOf
  <1>3. ASSUME NEW q \in Nat, NEW r \in 0..(N - 1)
        PROVE  Pool!BlockOf(q * N + r) = q
    BY <1>1, Z3 DEF Pool!BlockOf
  <1>. QED  BY <1>2, <1>3

LEMMA IndexBlocks ==
    /\ \A i \in Pool!Idx : i \in Nat /\ Pool!BlockOf(i) \in Pool!Block
    /\ \A q \in Pool!Block, r \in 0..(N - 1) : q * N + r \in Pool!Idx
  <1>1. N \in Nat /\ N > 0 /\ MaxBlock \in Nat
    BY PoolAssumption
  <1>2. MaxBlock * N \in Nat
    BY <1>1
  <1>3. ASSUME NEW i \in Pool!Idx
        PROVE  i \in Nat /\ Pool!BlockOf(i) \in Pool!Block
    <2>1. i \in Nat /\ i < MaxBlock * N + N
      BY <1>1, <1>2 DEF Pool!Idx
    <2>2. PICK b \in Nat : b = Pool!BlockOf(i) /\ b * N <= i
      BY <2>1, IndexParts
    <2>3. CASE b > MaxBlock
      <3> DEFINE d == b - MaxBlock - 1
      <3>1. d \in Nat /\ b = MaxBlock + 1 + d
        BY <1>1, <2>2, <2>3
      <3> HIDE DEF d
      <3>2. b * N = MaxBlock * N + N + d * N /\ d * N >= 0 /\ d * N \in Int
        BY <1>1, <3>1
      <3>. QED  BY <1>1, <1>2, <2>1, <2>2, <3>2
    <2>. QED  BY <1>1, <2>1, <2>2, <2>3 DEF Pool!Block
  <1>4. ASSUME NEW q \in Pool!Block, NEW r \in 0..(N - 1)
        PROVE  q * N + r \in Pool!Idx
    <2>1. PICK d \in Nat : MaxBlock = q + d
      <3>1. MaxBlock - q \in Nat
        BY <1>1 DEF Pool!Block
      <3>. QED  BY <1>1, <3>1 DEF Pool!Block
    <2>2. /\ MaxBlock * N = q * N + d * N
          /\ q * N \in Nat /\ d * N \in Nat
      BY <1>1, <2>1 DEF Pool!Block
    <2>. QED  BY <1>1, <1>2, <2>2 DEF Pool!Idx
  <1>. QED  BY <1>3, <1>4

(* A list without repetitions, shortened by its last element or prolonged. *)
LEMMA FrontOfList ==
    ASSUME NEW S, NEW q \in Seq(S), q # <<>>, IsInjective(q)
    PROVE  /\ Front(q) \in Seq(S) /\ IsInjective(Front(q))
           /\ Last(q) \in Range(q) /\ Last(q) \in S
           /\ Range(Front(q)) = Range(q) \ {Last(q)}
  <1>1. /\ Len(q) \in Nat /\ Len(q) > 0 /\ DOMAIN q = 1..Len(q)
        /\ \A i \in 1..Len(q) : q[i] \in S
    BY LenProperties, ElementOfSeq, EmptySeq
  <1>2. /\ Front(q) \in Seq(S) /\ Len(Front(q)) = Len(q) - 1
        /\ \A i \in 1..(Len(q) - 1) : Front(q)[i] = q[i]
    <2>1. \A i \in 1..(Len(q) - 1) : q[i] \in S
      BY <1>1
    <2>2. /\ SubSeq(q, 1, Len(q) - 1) \in Seq(S)
          /\ Len(SubSeq(q, 1, Len(q) - 1)) = IF 1 <= Len(q) - 1 THEN Len(q) - 1 - 1 + 1 ELSE 0
          /\ \A i \in 1..(Len(q) - 1 - 1 + 1) : SubSeq(q, 1, Len(q) - 1)[i] = q[1 + i - 1]
      BY <1>1, <2>1, SubSeqProperties
    <2>. QED  BY <1>1, <2>2 DEF Front
  <1>3. DOMAIN Front(q) = 1..(Len(q) - 1)
    BY <1>1, <1>2, LenProperties
  <1>4. Last(q) = q[Len(q)]
    BY DEF Last
  <1>5. IsInjective(Front(q))
    BY <1>1, <1>2, <1>3 DEF IsInjective
  <1>6. Range(Front(q)) = Range(q) \ {Last(q)}
    <2>1. ASSUME NEW x \in Range(Front(q)) PROVE x \in Range(q) \ {Last(q)}
      BY <1>1, <1>2, <1>3, <1>4, <2>1 DEF Range, IsInjective
    <2>2. ASSUME NEW x \in Range(q) \ {Last(q)} PROVE x \in Range(Front(q))
      <3>1. PICK i \in 1..Len(q) : x = q[i]
        BY <1>1, <2>2 DEF Range
      <3>2. i \in 1..(Len(q) - 1)
        BY <1>1, <1>4, <2>2, <3>1
      <3>. QED  BY <1>2, <1>3, <3>1, <3>2 DEF Range
    <2>. QED  BY <2>1, <2>2
  <1>7. Last(q) \in Range(q) /\ Last(q) \in S
    <2>1. Len(q) \in 1..Len(q)
      BY <1>1
    <2>. QED  BY <1>1, <1>4, <2>1 DEF Range
  <1>. QED  BY <1>2, <1>5, <1>6, <1>7

LEMMA AppendToList ==
    ASSUME NEW S, NEW q \in Seq(S), NEW x \in S, IsInjective(q), x \notin Range(q)
    PROVE  /\ Append(q, x) \in Seq(S) /\ IsInjective(Append(q, x))
           /\ Range(Append(q, x)) = Range(q) \cup {x}
  <1>1. /\ Append(q, x) \in Seq(S) /\ Len(Append(q, x)) = Len(q) + 1
        /\ Append(q, x)[Len(q) + 1] = x
        /\ \A i \in 1..Len(q) : Append(q, x)[i] = q[i]
        /\ Len(q) \in Nat
        /\ DOMAIN q = 1..Len(q) /\ DOMAIN Append(q, x) = 1..(Len(q) + 1)
    BY AppendProperties, LenProperties
  <1>. QED  BY <1>1 DEF Range, IsInjective

LEMMA EmptyList == IsInjective(<<>>) /\ Range(<<>>) = {} /\ \A S : <<>> \in Seq(S)
  <1>1. DOMAIN <<>> = {}
    OBVIOUS
  <1>. QED  BY <1>1, EmptySeq DEF IsInjective, Range

LEMMA LiveParts ==
    ASSUME CoPoolTypeOK
    PROVE  /\ \A i : i \in Pool!Live <=> i \in Pool!Idx /\ holders[i] = 1
           /\ \A i, q : i \in Pool!LiveIn(q) <=>
                           i \in Pool!Idx /\ holders[i] = 1 /\ Pool!BlockOf(i) = q
           /\ IsFiniteSet(Pool!Live) /\ \A q : IsFiniteSet(Pool!LiveIn(q))
           /\ 0 \in Pool!LiveIn(0) /\ 0 \in Pool!Block /\ Pool!BlockOf(0) = 0
  <1>1. N \in Nat /\ N > 0 /\ MaxBlock \in Nat /\ MaxBlock * N \in Nat
    BY PoolAssumption
  <1>2. IsFiniteSet(Pool!Idx)
    BY <1>1, FS_Interval DEF Pool!Idx
  <1>3. \A i : i \in Pool!Live <=> i \in Pool!Idx /\ holders[i] = 1
    BY DEF CoPoolTypeOK, Pool!Live
  <1>4. \A i, q : i \in Pool!LiveIn(q) <=>
                     i \in Pool!Idx /\ holders[i] = 1 /\ Pool!BlockOf(i) = q
    BY <1>3 DEF Pool!LiveIn
  <1>5. IsFiniteSet(Pool!Live) /\ \A q : IsFiniteSet(Pool!LiveIn(q))
    <2>1. Pool!Live \in SUBSET Pool!Idx /\ \A q : Pool!LiveIn(q) \in SUBSET Pool!Idx
      BY <1>3, <1>4
    <2>. QED  BY <1>2, <2>1, FS_Subset
  <1>6. 0 \in Pool!Block /\ 0 \in Pool!Idx /\ Pool!BlockOf(0) = 0
    <2>1. 0 \in 0..(N - 1) /\ 0 \in Nat /\ 0 * N + 0 = 0 /\ 0 \in Pool!Block
      BY <1>1 DEF Pool!Block
    <2>. QED  BY <2>1, IndexParts, IndexBlocks
  <1>. QED  BY <1>3, <1>4, <1>5, <1>6 DEF CoPoolTypeOK, Pool!MainIdx

(* What handing out an index and taking one back do to the counts.         *)
LEMMA Popped ==
    ASSUME CoPoolTypeOK, CountsExact, NEW i \in Pool!Idx, holders[i] = 0,
           useCount' = [useCount EXCEPT ![Pool!BlockOf(i)] = @ + 1],
           holders' = [holders EXCEPT ![i] = @ + 1]
    PROVE  /\ useCount' \in [Pool!Block -> Nat]
           /\ holders' \in [Pool!Idx -> {0, 1}] /\ holders'[Pool!MainIdx] = 1
           /\ \A j \in Pool!Idx : holders'[j] = IF j = i THEN 1 ELSE holders[j]
           /\ Pool!Live' = Pool!Live \cup {i}
           /\ \A q : Pool!LiveIn(q)' =
                 IF q = Pool!BlockOf(i) THEN Pool!LiveIn(q) \cup {i} ELSE Pool!LiveIn(q)
           /\ \A q \in Pool!Block : useCount'[q] = Cardinality(Pool!LiveIn(q)')
  <1>1. Pool!BlockOf(i) \in Pool!Block
    BY IndexBlocks
  <1>2. /\ holders' \in [Pool!Idx -> {0, 1}] /\ holders'[Pool!MainIdx] = 1
        /\ \A j \in Pool!Idx : holders'[j] = IF j = i THEN 1 ELSE holders[j]
    BY DEF CoPoolTypeOK
  <1>3. /\ useCount' \in [Pool!Block -> Nat]
        /\ \A q \in Pool!Block :
              useCount'[q] = IF q = Pool!BlockOf(i) THEN useCount[q] + 1 ELSE useCount[q]
    BY <1>1 DEF CoPoolTypeOK
  <1>4. /\ Pool!Live = {j \in Pool!Idx : holders[j] = 1}
        /\ Pool!Live' = {j \in Pool!Idx : holders'[j] = 1}
    BY <1>2 DEF CoPoolTypeOK, Pool!Live
  <1>5. Pool!Live' = Pool!Live \cup {i} /\ i \notin Pool!Live
    BY <1>2, <1>4
  <1>6. \A q : /\ Pool!LiveIn(q)' = {j \in Pool!Live' : Pool!BlockOf(j) = q}
               /\ Pool!LiveIn(q) = {j \in Pool!Live : Pool!BlockOf(j) = q}
    BY DEF Pool!LiveIn, Pool!BlockOf
  <1>7. \A q : /\ Pool!LiveIn(q)' =
                     IF q = Pool!BlockOf(i) THEN Pool!LiveIn(q) \cup {i} ELSE Pool!LiveIn(q)
               /\ i \notin Pool!LiveIn(q)
    BY <1>5, <1>6
  <1>8. ASSUME NEW q \in Pool!Block PROVE useCount'[q] = Cardinality(Pool!LiveIn(q)')
    <2>1. useCount[q] = Cardinality(Pool!LiveIn(q)) /\ IsFiniteSet(Pool!LiveIn(q))
      BY LiveParts DEF CountsExact
    <2>2. Cardinality(Pool!LiveIn(q) \cup {i}) = Cardinality(Pool!LiveIn(q)) + 1
      BY <1>7, <2>1, FS_AddElement
    <2>. QED  BY <1>3, <1>7, <2>1, <2>2
  <1>. QED  BY <1>2, <1>3, <1>5, <1>7, <1>8

LEMMA Pushed ==
    ASSUME CoPoolTypeOK, CountsExact, NEW i \in Pool!Idx, holders[i] = 1, i # Pool!MainIdx,
           useCount' = [useCount EXCEPT ![Pool!BlockOf(i)] = @ - 1],
           holders' = [holders EXCEPT ![i] = @ - 1]
    PROVE  /\ useCount' \in [Pool!Block -> Nat]
           /\ holders' \in [Pool!Idx -> {0, 1}] /\ holders'[Pool!MainIdx] = 1
           /\ \A j \in Pool!Idx : holders'[j] = IF j = i THEN 0 ELSE holders[j]
           /\ Pool!Live' = Pool!Live \ {i}
           /\ \A q : Pool!LiveIn(q)' = Pool!LiveIn(q) \ {i}
           /\ \A q : i \in Pool!LiveIn(q) <=> q = Pool!BlockOf(i)
           /\ \A q \in Pool!Block : useCount'[q] = Cardinality(Pool!LiveIn(q)')
           /\ useCount[Pool!BlockOf(i)] = 1 <=> Pool!LiveIn(Pool!BlockOf(i))' = {}
  <1>1. Pool!BlockOf(i) \in Pool!Block
    BY IndexBlocks
  <1>2. /\ holders' \in [Pool!Idx -> {0, 1}] /\ holders'[Pool!MainIdx] = 1
        /\ \A j \in Pool!Idx : holders'[j] = IF j = i THEN 0 ELSE holders[j]
    BY DEF CoPoolTypeOK
  <1>4. /\ Pool!Live = {j \in Pool!Idx : holders[j] = 1}
        /\ Pool!Live' = {j \in Pool!Idx : holders'[j] = 1}
    BY <1>2 DEF CoPoolTypeOK, Pool!Live
  <1>5. Pool!Live' = Pool!Live \ {i} /\ i \in Pool!Live
    BY <1>2, <1>4
  <1>6. \A q : /\ Pool!LiveIn(q)' = {j \in Pool!Live' : Pool!BlockOf(j) = q}
               /\ Pool!LiveIn(q) = {j \in Pool!Live : Pool!BlockOf(j) = q}
    BY DEF Pool!LiveIn, Pool!BlockOf
  <1>7. \A q : /\ Pool!LiveIn(q)' = Pool!LiveIn(q) \ {i}
               /\ i \in Pool!LiveIn(q) <=> q = Pool!BlockOf(i)
    BY <1>5, <1>6
  <1>8. ASSUME NEW q \in Pool!Block
        PROVE  /\ Cardinality(Pool!LiveIn(q)') =
                     IF q = Pool!BlockOf(i) THEN useCount[q] - 1 ELSE useCount[q]
               /\ Cardinality(Pool!LiveIn(q)') \in Nat
               /\ Cardinality(Pool!LiveIn(q)') = 0 <=> Pool!LiveIn(q)' = {}
    <2>1. useCount[q] = Cardinality(Pool!LiveIn(q)) /\ IsFiniteSet(Pool!LiveIn(q))
      BY LiveParts DEF CountsExact
    <2>2. /\ IsFiniteSet(Pool!LiveIn(q) \ {i})
          /\ Cardinality(Pool!LiveIn(q) \ {i}) =
                IF i \in Pool!LiveIn(q) THEN Cardinality(Pool!LiveIn(q)) - 1
                                        ELSE Cardinality(Pool!LiveIn(q))
      BY <2>1, FS_RemoveElement
    <2>. QED  BY <1>7, <2>1, <2>2, FS_CardinalityType, FS_EmptySet
  <1>9. /\ useCount' \in [Pool!Block -> Nat]
        /\ \A q \in Pool!Block : useCount'[q] = Cardinality(Pool!LiveIn(q)')
    BY <1>1, <1>8 DEF CoPoolTypeOK
  <1>10. useCount[Pool!BlockOf(i)] = 1 <=> Pool!LiveIn(Pool!BlockOf(i))' = {}
    BY <1>1, <1>8 DEF CoPoolTypeOK
  <1>. QED  BY <1>2, <1>5, <1>7, <1>9, <1>10

-----------------------------------------------------------------------------
(* pop()                                                                   *)
LEMMA ReuseKeeps ==
    ASSUME CoPoolInv, Pool!ReuseFirstBlock \/ Pool!ReuseCurrentBlock
    PROVE  CoPoolInv'
  <1> USE DEF CoPoolInv
  <1>1. PICK v, q : /\ v \in Seq(Pool!Idx) /\ v # <<>> /\ KeepsFree(v, q)
                    /\ \/ v = v0 /\ q = 0 /\ v0' = Front(v) /\ vc' = vc
                       \/ v = vc /\ q = c /\ c # 0 /\ vc' = Front(v) /\ v0' = v0
                    /\ useCount' = [useCount EXCEPT ![Pool!BlockOf(Last(v))] = @ + 1]
                    /\ holders' = [holders EXCEPT ![Last(v)] = @ + 1]
                    /\ UNCHANGED <<c, o, allocated, blks>>
    <2>1. CASE Pool!ReuseFirstBlock
      BY <2>1 DEF Pool!ReuseFirstBlock, FreeOnce, CoPoolTypeOK, Pool!Front, Pool!Last, Front, Last
    <2>2. CASE Pool!ReuseCurrentBlock
      BY <2>2 DEF Pool!ReuseCurrentBlock, FreeOnce, CoPoolTypeOK, Pool!Front, Pool!Last, Front, Last
    <2>. QED  BY <2>1, <2>2
  <1>2. PICK i : i = Last(v)
    OBVIOUS
  <1>3. /\ Front(v) \in Seq(Pool!Idx) /\ IsInjective(Front(v))
        /\ Range(Front(v)) = Range(v) \ {i} /\ i \in Range(v)
    BY <1>1, <1>2, FrontOfList DEF KeepsFree
  <1>4. /\ i \in Pool!Idx /\ Pool!BlockOf(i) = q /\ Used(i) /\ holders[i] = 0
        /\ q \in Pool!Block
    BY <1>1, <1>3, IndexBlocks DEF KeepsFree
  <1>5. /\ useCount' \in [Pool!Block -> Nat]
        /\ holders' \in [Pool!Idx -> {0, 1}] /\ holders'[Pool!MainIdx] = 1
        /\ \A j \in Pool!Idx : holders'[j] = IF j = i THEN 1 ELSE holders[j]
        /\ Pool!Live' = Pool!Live \cup {i}
        /\ \A r : Pool!LiveIn(r)' =
              IF r = q THEN Pool!LiveIn(r) \cup {i} ELSE Pool!LiveIn(r)
        /\ \A r \in Pool!Block : useCount'[r] = Cardinality(Pool!LiveIn(r)')
    BY <1>1, <1>2, <1>4, Popped
  <1>6. c' = c /\ o' = o /\ allocated' = allocated /\ blks' = blks
    BY <1>1
  <1>7. CoPoolTypeOK'
    BY <1>1, <1>3, <1>5, <1>6 DEF CoPoolTypeOK, Pool!Block, Pool!Idx, Pool!MainIdx
  <1>8. Pool!LiveIn(q) # {}
    <2>1. CASE q = 0
      BY <2>1, LiveParts
    <2>2. CASE q = c
      <3>1. o # 0
        <4>1. i \in Nat /\ c * N <= i /\ N \in Nat /\ c \in Nat
          <5>1. N \in Nat /\ c \in Pool!Block /\ c \in Nat
            BY PoolAssumption DEF CoPoolTypeOK, Pool!Block
          <5>2. i \in Nat /\ Pool!BlockOf(i) = c
            BY <1>4, <2>2, IndexBlocks
          <5>3. Pool!BlockOf(i) * N <= i
            BY <5>2, IndexParts
          <5>. QED  BY <5>1, <5>2, <5>3
        <4>2. i < c * N + o /\ c * N \in Nat /\ o \in Nat
          BY <1>4, <2>2, <4>1 DEF Used, CoPoolTypeOK
        <4>. QED  BY <4>1, <4>2
      <3>. QED  BY <2>2, <3>1 DEF FreeOnce
    <2>. QED  BY <1>1, <2>1, <2>2
  <1>9. \A r : Pool!LiveIn(r)' = {} <=> Pool!LiveIn(r) = {}
    BY <1>5, <1>8
  <1>10. CountsExact'
    BY <1>5, <1>6, <1>9 DEF CountsExact, Pool!Block
  <1>11. \A j : Used(j)' <=> Used(j)
    BY <1>6 DEF Used, Pool!BlockOf
  <1>12. ASSUME NEW w, NEW r, KeepsFree(w, r), r # q PROVE KeepsFree(w, r)'
    <2>1. {j \in Pool!Idx : Pool!BlockOf(j) = r /\ Used(j)' /\ holders'[j] = 0}
             = {j \in Pool!Idx : Pool!BlockOf(j) = r /\ Used(j) /\ holders[j] = 0}
      BY <1>4, <1>5, <1>11, <1>12
    <2>. QED  BY <1>12, <2>1 DEF KeepsFree, Pool!BlockOf, Pool!Idx
  <1>13. KeepsFree(Front(v), q)'
    <2>1. {j \in Pool!Idx : Pool!BlockOf(j) = q /\ Used(j)' /\ holders'[j] = 0}
             = {j \in Pool!Idx : Pool!BlockOf(j) = q /\ Used(j) /\ holders[j] = 0} \ {i}
      BY <1>4, <1>5, <1>11
    <2>. QED  BY <1>1, <1>3, <2>1 DEF KeepsFree, Pool!BlockOf, Pool!Idx
  <1>14. FreeOnce'
    <2>1. \A j \in Pool!Live' : Used(j)'
      BY <1>4, <1>5, <1>11 DEF FreeOnce
    <2>2. Pool!LiveIn(c)' = {} => o' = 0
      BY <1>6, <1>9 DEF FreeOnce
    <2>3. CASE v = v0 /\ q = 0 /\ v0' = Front(v) /\ vc' = vc
      <3>1. KeepsFree(v0, 0)'
        BY <1>13, <2>3 DEF KeepsFree
      <3>2. CASE c = 0
        BY <1>6, <2>1, <2>2, <2>3, <3>1, <3>2 DEF FreeOnce
      <3>3. CASE c # 0
        <4>1. KeepsFree(vc, c)
          BY <3>3 DEF FreeOnce
        <4>2. KeepsFree(vc, c)'
          BY <1>6, <1>12, <2>3, <3>3, <4>1 DEF KeepsFree
        <4>. QED  BY <1>6, <2>1, <2>2, <3>1, <3>3, <4>2 DEF FreeOnce
      <3>. QED  BY <3>2, <3>3
    <2>4. CASE v = vc /\ q = c /\ c # 0 /\ vc' = Front(v) /\ v0' = v0
      BY <1>6, <1>12, <1>13, <2>1, <2>2, <2>4 DEF FreeOnce, KeepsFree
    <2>. QED  BY <1>1, <2>3, <2>4
  <1>15. WithinThree'
    BY <1>6, <1>9 DEF WithinThree, Pool!Block
  <1>. QED  BY <1>7, <1>10, <1>14, <1>15

(* Two whole blocks and one coroutine more are too many for another one.   *)
LEMMA BlocksFull ==
    ASSUME CoPoolInv, MaxLive <= 2 * N + 1, Pool!RoomForOneMore,
           v0 = <<>>, vc = <<>>, o = N, c # 0,
           NEW x \in Pool!Live, Pool!BlockOf(x) \notin {0, c}
    PROVE  FALSE
  <1> USE DEF CoPoolInv
  <1>1. N \in Nat /\ N > 0 /\ c \in Nat /\ c * N \in Nat /\ c >= 1 /\ c * N >= N /\ MaxLive \in Nat
    BY PoolAssumption DEF CoPoolTypeOK, Pool!Block
  <1>2. ASSUME NEW i \in Pool!Idx, Pool!BlockOf(i) \in {0, c} PROVE i \in Pool!Live
    <2>1. i \in Nat /\ i < Pool!BlockOf(i) * N + N
      BY IndexBlocks, IndexParts
    <2>2. Used(i)
      BY <2>1 DEF Used
    <2>3. i \notin {j \in Pool!Idx : Pool!BlockOf(j) = Pool!BlockOf(i) /\ Used(j) /\ holders[j] = 0}
      BY <1>2, EmptyList DEF FreeOnce, KeepsFree
    <2>. QED  BY <2>2, <2>3, LiveParts DEF CoPoolTypeOK
  <1> DEFINE A == 0..(N - 1)
             B == (c * N)..(c * N + N - 1)
  <1>3. /\ IsFiniteSet(A) /\ Cardinality(A) = N
        /\ IsFiniteSet(B) /\ Cardinality(B) = N
    <2>1. /\ IsFiniteSet(A) /\ Cardinality(A) = IF 0 > N - 1 THEN 0 ELSE N - 1 - 0 + 1
      <3>1. 0 \in Int /\ N - 1 \in Int
        BY <1>1
      <3>. QED  BY <3>1, FS_Interval
    <2>2. /\ IsFiniteSet(B)
          /\ Cardinality(B) = IF c * N > c * N + N - 1 THEN 0 ELSE (c * N + N - 1) - c * N + 1
      <3>1. c * N \in Int /\ c * N + N - 1 \in Int
        BY <1>1
      <3>. QED  BY <3>1, FS_Interval
    <2> HIDE DEF A, B
    <2>. QED  BY <1>1, <2>1, <2>2
  <1>4. A \cap B = {}
    BY <1>1
  <1>5. A \subseteq Pool!Live /\ x \notin A
    <2>1. ASSUME NEW r \in A PROVE r \in Pool!Live /\ Pool!BlockOf(r) = 0
      <3>1. 0 * N + r = r /\ 0 \in Pool!Block /\ 0 \in Nat
        BY <1>1, LiveParts
      <3>2. r \in Pool!Idx /\ Pool!BlockOf(r) = 0
        BY <3>1, IndexBlocks, IndexParts
      <3>. QED  BY <1>2, <3>2
    <2>. QED  BY <2>1
  <1>6. B \subseteq Pool!Live /\ x \notin B
    <2>1. ASSUME NEW b \in B PROVE b \in Pool!Live /\ Pool!BlockOf(b) = c
      <3> DEFINE r == b - c * N
      <3>1. r \in 0..(N - 1) /\ b = c * N + r /\ c \in Pool!Block
        BY <1>1 DEF CoPoolTypeOK
      <3> HIDE DEF r
      <3>2. b \in Pool!Idx /\ Pool!BlockOf(b) = c
        BY <1>1, <3>1, IndexBlocks, IndexParts
      <3>. QED  BY <1>2, <3>2
    <2>. QED  BY <2>1
  <1> HIDE DEF A, B
  <1>7. IsFiniteSet(A \cup B) /\ Cardinality(A \cup B) = N + N
    <2>1. Cardinality(A \cap B) = 0
      BY <1>4, FS_EmptySet
    <2>2. IsFiniteSet(A) /\ IsFiniteSet(B) /\ Cardinality(A) = N /\ Cardinality(B) = N
      BY <1>3
    <2>3. /\ IsFiniteSet(A \cup B)
          /\ Cardinality(A \cup B) = Cardinality(A) + Cardinality(B) - Cardinality(A \cap B)
      BY ONLY <2>2, FS_Union
    <2>. QED  BY <1>1, <2>1, <2>2, <2>3
  <1>8. IsFiniteSet(A \cup B \cup {x}) /\ Cardinality(A \cup B \cup {x}) = N + N + 1
    <2>1. x \notin A \cup B
      BY <1>5, <1>6
    <2>2. /\ IsFiniteSet((A \cup B) \cup {x})
          /\ Cardinality((A \cup B) \cup {x}) = Cardinality(A \cup B) + 1
      BY <1>7, <2>1, FS_AddElement
    <2>. QED  BY <1>7, <2>2
  <1>9. N + N + 1 <= Cardinality(Pool!Live)
    <2>1. A \cup B \cup {x} \in SUBSET Pool!Live
      BY <1>5, <1>6
    <2>. QED  BY <1>8, <2>1, LiveParts, FS_Subset
  <1>10. Cardinality(Pool!Live) < MaxLive /\ Cardinality(Pool!Live) \in Nat
    <2>1. Cardinality(Pool!Live) \in Nat
      BY LiveParts, FS_CardinalityType
    <2>2. Cardinality(Pool!Live) < MaxLive
      BY Zenon DEF Pool!RoomForOneMore, Pool!Cardinality, Cardinality
    <2>. QED  BY <2>1, <2>2
  <1>. QED  BY <1>1, <1>9, <1>10

LEMMA HandOutKeeps ==
    ASSUME CoPoolInv, NEW q \in Pool!Block, NEW r \in 0..(N - 1), Pool!HandOut(q, r),
           blks' \subseteq blks, v0 = <<>>, vc = <<>>,
           q = c => r = o,
           q # c => r = 0 /\ q # 0 /\ o = N /\ Pool!LiveIn(q) = {}
    PROVE  /\ CoPoolTypeOK' /\ CountsExact' /\ FreeOnce'
           /\ c' = q
           /\ \A s : Pool!LiveIn(s)' = {} <=> s # q /\ Pool!LiveIn(s) = {}
  <1> USE DEF CoPoolInv
  <1>0. N \in Nat /\ N > 0 /\ q \in Nat /\ r \in Nat /\ q * N \in Nat
    BY PoolAssumption DEF Pool!Block
  <1> DEFINE i == q * N + r
  <1>1. i \in Pool!Idx /\ Pool!BlockOf(i) = q
    BY <1>0, IndexBlocks, IndexParts
  <1>2. /\ c' = q /\ o' = r + 1 /\ allocated' = allocated \cup {q} /\ v0' = v0 /\ vc' = vc
        /\ useCount' = [useCount EXCEPT ![q] = @ + 1]
        /\ holders' = [holders EXCEPT ![i] = @ + 1]
    BY DEF Pool!HandOut
  <1>3. holders[i] = 0
    <2>. SUFFICES ASSUME holders[i] # 0 PROVE FALSE
      OBVIOUS
    <2>1. i \in Pool!LiveIn(q) /\ i \in Pool!Live
      BY <1>1, LiveParts DEF CoPoolTypeOK
    <2>2. q = c /\ r = o /\ Used(i)
      BY <2>1 DEF FreeOnce
    <2>. QED  BY <1>0, <1>1, <2>2 DEF Used
  <1>b. blks' \subseteq Pool!Block
    BY DEF CoPoolTypeOK
  <1>i. PICK ix : ix = i
    OBVIOUS
  <1>4. ix \in Pool!Idx /\ Pool!BlockOf(ix) = q /\ holders[ix] = 0
    BY <1>1, <1>3, <1>i
  <1> HIDE DEF i
  <1>5. /\ useCount' \in [Pool!Block -> Nat]
        /\ holders' \in [Pool!Idx -> {0, 1}] /\ holders'[Pool!MainIdx] = 1
        /\ \A j \in Pool!Idx : holders'[j] = IF j = ix THEN 1 ELSE holders[j]
        /\ Pool!Live' = Pool!Live \cup {ix}
        /\ \A s : Pool!LiveIn(s)' =
              IF s = q THEN Pool!LiveIn(s) \cup {ix} ELSE Pool!LiveIn(s)
        /\ \A s \in Pool!Block : useCount'[s] = Cardinality(Pool!LiveIn(s)')
    BY <1>2, <1>4, <1>i, Popped
  <1>6. \A s : Pool!LiveIn(s)' = {} <=> s # q /\ Pool!LiveIn(s) = {}
    BY <1>5
  <1>7. CoPoolTypeOK'
    <2>1. o' \in 0..N /\ c' \in Pool!Block /\ allocated' \subseteq Pool!Block
      BY <1>0, <1>2 DEF CoPoolTypeOK
    <2>2. v0' \in Seq(Pool!Idx) /\ vc' \in Seq(Pool!Idx)
      BY <1>2 DEF CoPoolTypeOK
    <2>. QED  BY <1>5, <1>b, <2>1, <2>2 DEF CoPoolTypeOK, Pool!Block, Pool!Idx, Pool!MainIdx
  <1>8. CountsExact'
    BY <1>2, <1>5, <1>6 DEF CountsExact, Pool!Block
  <1>9. \A j \in Pool!Idx : /\ j \in Nat /\ Pool!BlockOf(j) \in Nat
                            /\ Pool!BlockOf(j) * N <= j /\ j < Pool!BlockOf(j) * N + N
    BY IndexBlocks, IndexParts
  <1>10. ix = q * N + r
    BY <1>i DEF i
  (* Everything before the index was handed out before, and is live.       *)
  <1>11. ASSUME NEW j \in Pool!Idx, Used(j)', Pool!BlockOf(j) \in {0, q}
         PROVE  holders'[j] = 1
    <2>1. CASE j = ix
      BY <1>5, <2>1
    <2>2. CASE j # ix /\ Pool!BlockOf(j) = q
      <3>1. j < q * N + r + 1 /\ q * N <= j
        <4>1. q * N <= j
          BY <1>9, <2>2
        <4>2. j < q * N + (r + 1)
          BY <1>2, <1>11, <2>2 DEF Used, Pool!BlockOf
        <4>. QED  BY <1>0, <1>9, <4>1, <4>2
      <3>2. j < q * N + r
        BY <1>0, <1>9, <1>10, <2>2, <3>1
      <3>3. r # 0
        BY <1>0, <1>9, <3>1, <3>2
      <3>4. q = c /\ r = o
        BY <3>3
      <3>5. Used(j)
        BY <3>2, <3>4 DEF Used
      <3>6. j \notin {k \in Pool!Idx : Pool!BlockOf(k) = q /\ Used(k) /\ holders[k] = 0}
        BY <3>4, EmptyList DEF FreeOnce, KeepsFree
      <3>. QED  BY <1>5, <2>2, <3>5, <3>6 DEF CoPoolTypeOK
    <2>3. CASE j # ix /\ Pool!BlockOf(j) = 0 /\ q # 0
      <3>1. Used(j)
        <4>1. CASE c = 0
          <5>1. o = N /\ j < 0 * N + N
            BY <1>9, <2>3, <4>1
          <5>. QED  BY <4>1, <5>1 DEF Used
        <4>2. CASE c # 0
          BY <2>3, <4>2 DEF Used
        <4>. QED  BY <4>1, <4>2
      <3>2. j \notin {k \in Pool!Idx : Pool!BlockOf(k) = 0 /\ Used(k) /\ holders[k] = 0}
        BY EmptyList DEF FreeOnce, KeepsFree
      <3>. QED  BY <1>5, <2>3, <3>1, <3>2 DEF CoPoolTypeOK
    <2>. QED  BY <1>11, <2>1, <2>2, <2>3
  <1>12. ASSUME NEW s \in {0, q} PROVE KeepsFree(<<>>, s)'
    <2>1. {j \in Pool!Idx : Pool!BlockOf(j) = s /\ Used(j)' /\ holders'[j] = 0} = {}
      BY <1>11
    <2>. QED  BY <2>1, EmptyList DEF KeepsFree, Pool!BlockOf, Pool!Idx
  <1>13. ASSUME NEW j \in Pool!Live' PROVE Used(j)'
    <2>1. j \in Pool!Idx
      BY <1>4, <1>5, LiveParts
    <2>2. CASE Pool!BlockOf(j) # q
      BY <1>2, <2>2 DEF Used, Pool!BlockOf
    <2>3. CASE j = ix
      BY <1>0, <1>2, <1>10, <2>3 DEF Used
    <2>4. CASE Pool!BlockOf(j) = q /\ j # ix
      <3>1. j \in Pool!Live /\ j \in Pool!LiveIn(q)
        BY <1>5, <2>4, LiveParts
      <3>2. q = c /\ r = o
        BY <3>1
      <3>3. j < q * N + r
        BY <2>4, <3>1, <3>2 DEF FreeOnce, Used
      <3>4. j < q * N + (r + 1)
        BY <1>0, <1>9, <2>1, <3>3
      <3>. QED  BY <1>2, <3>4 DEF Used
    <2>. QED  BY <2>2, <2>3, <2>4
  <1>14. FreeOnce'
    <2>1. KeepsFree(v0, 0)'
      BY <1>2, <1>12 DEF KeepsFree
    <2>2. KeepsFree(vc, c)'
      BY <1>2, <1>12 DEF KeepsFree
    <2>3. Pool!LiveIn(c)' # {}
      BY <1>2, <1>6
    <2>. QED  BY <1>2, <1>13, <2>1, <2>2, <2>3 DEF FreeOnce
  <1>. QED  BY <1>2, <1>6, <1>7, <1>8, <1>14

(* A set of numbers has a smallest one: of the finite sets 0..m, m in the  *)
(* set, one has none of the others as a proper subset.                     *)
LEMMA SmallestOfNumbers ==
    ASSUME NEW S, S \subseteq Nat, S # {}
    PROVE  \E s \in S : \A r \in S : s <= r
  <1> DEFINE Below == {0..m : m \in S}
  <1>1. Below \subseteq FiniteSubsetsOf(Nat) /\ Below # {}
    <2>1. \A m \in S : 0..m \subseteq Nat /\ IsFiniteSet(0..m)
      BY FS_Interval
    <2>. QED  BY <2>1 DEF FiniteSubsetsOf
  <1>2. PICK b \in Below : \A d \in Below : ~ (<<d, b>> \in StrictSubsetOrdering(Nat))
    <2> HIDE DEF Below
    <2>. QED  BY <1>1, FS_StrictSubsetOrderingWellFounded, WFMin
  <1>3. PICK m \in S : b = 0..m
    BY <1>2
  <1>4. ASSUME NEW y \in S
        PROVE  m <= y
    <2>1. ~ (0..y \subseteq 0..m /\ 0..y # 0..m)
      <3>1. 0..y \in SUBSET Nat /\ 0..m \in SUBSET Nat
        OBVIOUS
      <3>2. <<0..y, 0..m>> \notin StrictSubsetOrdering(Nat)
        BY <1>2, <1>3
      <3>. QED  BY <3>1, <3>2 DEF StrictSubsetOrdering
    <2>2. CASE y < m
      <3>1. m \in 0..m /\ m \notin 0..y /\ 0..y \subseteq 0..m
        BY <2>2
      <3>. QED  BY <2>1, <3>1
    <2>. QED  BY <2>2
  <1>. QED  BY <1>3, <1>4

LEMMA SmallestIsLeast ==
    ASSUME CoPoolTypeOK, blks # {}
    PROVE  Pool!Smallest(blks) \in blks /\ \A s \in blks : Pool!Smallest(blks) <= s
  <1>1. blks \subseteq Nat
    BY PoolAssumption DEF CoPoolTypeOK, Pool!Block
  <1>2. \E s \in blks : \A r \in blks : s <= r
    BY <1>1, SmallestOfNumbers
  <1>. QED  BY <1>2 DEF Pool!Smallest

LEMMA NewKeeps ==
    ASSUME CoPoolInv, MaxLive <= 2 * N + 1, Pool!NewInCurrentBlock \/ Pool!NewInNextBlock
    PROVE  CoPoolInv'
  <1> USE DEF CoPoolInv
  <1>0. N \in Nat /\ N > 0 /\ o \in 0..N /\ c \in Pool!Block /\ Pool!Block = 0..MaxBlock
        /\ MaxBlock \in Nat
    BY PoolAssumption DEF CoPoolTypeOK, Pool!Block
  <1>1. CASE Pool!NewInCurrentBlock
    <2>1. o \in 0..(N - 1) /\ Pool!HandOut(c, o) /\ v0 = <<>> /\ vc = <<>> /\ blks' = blks
      BY <1>0, <1>1 DEF Pool!NewInCurrentBlock
    <2>2. /\ CoPoolTypeOK' /\ CountsExact' /\ FreeOnce' /\ c' = c
          /\ \A s : Pool!LiveIn(s)' = {} <=> s # c /\ Pool!LiveIn(s) = {}
      BY <1>0, <2>1, HandOutKeeps
    <2>3. WithinThree'
      BY <1>0, <2>1, <2>2 DEF WithinThree, Pool!Block
    <2>. QED  BY <2>2, <2>3
  <1>2. CASE Pool!NewInNextBlock
    <2>1. /\ Pool!RoomForOneMore /\ v0 = <<>> /\ vc = <<>> /\ o = N
      BY <1>2 DEF Pool!NewInNextBlock
    <2>2. Pool!LiveIn(c) # {} /\ Pool!LiveIn(0) # {}
      BY <1>0, <2>1, LiveParts DEF FreeOnce
    <2>3. ASSUME NEW x \in Pool!Live PROVE Pool!BlockOf(x) \in {0, c} \/ c = 0
      BY <2>1, <2>3, BlocksFull
    <2>4. \A s : s \notin {0, c} /\ c # 0 => Pool!LiveIn(s) = {}
      BY <2>3, LiveParts
    <2>5. PICK q \in Pool!Block :
             /\ Pool!HandOut(q, 0) /\ blks' = blks \ {q}
             /\ q # c /\ q # 0 /\ q <= 2 /\ Pool!LiveIn(q) = {}
             /\ \A s \in Pool!Block : s < q /\ Pool!LiveIn(s) = {} => s \in blks \ {q}
      <3>1. CASE blks # {}
        <4> DEFINE q == Pool!Smallest(blks)
        <4>1. q \in blks /\ Pool!HandOut(q, 0) /\ blks' = blks \ {q} /\ \A s \in blks : q <= s
          BY <1>2, <3>1, SmallestIsLeast DEF Pool!NewInNextBlock
        <4> HIDE DEF q
        <4>2. q \in Pool!Block /\ q # c /\ Pool!LiveIn(q) = {} /\ c # 0 /\ q # 0 /\ q <= 2
          BY <1>0, <2>2, <3>1, <4>1 DEF WithinThree, CoPoolTypeOK
        <4>3. \A s \in Pool!Block : s < q /\ Pool!LiveIn(s) = {} => s \in blks \ {q}
          <5>. SUFFICES ASSUME NEW s \in Pool!Block, s < q, Pool!LiveIn(s) = {} PROVE s \in blks
            BY <1>0
          <5>1. s # 0 /\ s # c
            BY <2>2
          <5>2. s < c
            BY <1>0, <4>2, <5>1
          <5>. QED  BY <5>2 DEF WithinThree
        <4>. QED  BY <4>1, <4>2, <4>3
      <3>2. CASE blks = {}
        <4>1. c < MaxBlock /\ Pool!HandOut(c + 1, 0) /\ blks' = blks
          BY <1>2, <3>2 DEF Pool!NewInNextBlock
        <4>2. c + 1 \in Pool!Block /\ c + 1 # c /\ c + 1 # 0
          BY <1>0, <4>1
        <4>3. ASSUME NEW s \in Pool!Block, s < c PROVE Pool!LiveIn(s) # {}
          BY <3>2, <4>3 DEF WithinThree
        <4>4. c <= 1
          <5>1. c <= 2 /\ c \in Nat
            BY <1>0 DEF WithinThree
          <5>2. c # 2
            <6>. SUFFICES ASSUME c = 2 PROVE FALSE
              OBVIOUS
            <6>1. 1 \in Pool!Block /\ 1 < c /\ 1 \notin {0, c}
              BY <1>0
            <6>. QED  BY <2>4, <4>3, <6>1
          <5>. QED  BY <5>1, <5>2
        <4>5. Pool!LiveIn(c + 1) = {}
          <5>1. CASE c = 0
            <6>1. c + 1 = 1
              BY <5>1
            <6>. QED  BY <5>1, <6>1 DEF WithinThree
          <5>2. CASE c # 0
            BY <2>4, <4>2, <5>2
          <5>. QED  BY <5>1, <5>2
        <4>6. \A s \in Pool!Block : s < c + 1 => Pool!LiveIn(s) # {}
          BY <1>0, <2>2, <4>3
        <4>7. c + 1 <= 2 /\ blks \ {c + 1} = blks
          BY <1>0, <3>2, <4>4
        <4>. QED  BY <4>1, <4>2, <4>5, <4>6, <4>7
      <3>. QED  BY <3>1, <3>2
    <2>6. /\ CoPoolTypeOK' /\ CountsExact' /\ FreeOnce' /\ c' = q
          /\ \A s : Pool!LiveIn(s)' = {} <=> s # q /\ Pool!LiveIn(s) = {}
      <3>1. 0 \in 0..(N - 1)
        BY <1>0
      <3>. QED  BY <2>1, <2>5, <3>1, HandOutKeeps
    <2>7. WithinThree'
      <3>1. \A s \in Pool!Block : s > 2 => Pool!LiveIn(s)' = {} /\ s \notin blks'
        BY <1>0, <2>5, <2>6 DEF WithinThree
      <3>2. \A s \in blks' : s # q /\ Pool!LiveIn(s)' = {}
        BY <2>5, <2>6 DEF WithinThree
      <3>3. \A s \in Pool!Block : s < q /\ Pool!LiveIn(s)' = {} => s \in blks'
        BY <1>0, <2>5, <2>6
      <3>. QED  BY <1>0, <2>5, <2>6, <3>1, <3>2, <3>3 DEF WithinThree, Pool!Block
    <2>. QED  BY <2>6, <2>7
  <1>. QED  BY <1>1, <1>2

-----------------------------------------------------------------------------
(* push()                                                                  *)

(* An index that comes back to a block the pool keeps indices of.          *)
LEMMA KeptAgain ==
    ASSUME CoPoolTypeOK, NEW i \in Pool!Idx, holders[i] = 1, Used(i),
           NEW v \in Seq(Pool!Idx), NEW q, KeepsFree(v, q),
           \A j \in Pool!Idx : holders'[j] = IF j = i THEN 0 ELSE holders[j],
           UNCHANGED <<c, o>>
    PROVE  /\ Pool!BlockOf(i) = q => KeepsFree(Append(v, i), q)' /\ Append(v, i) \in Seq(Pool!Idx)
           /\ Pool!BlockOf(i) # q => KeepsFree(v, q)'
  <1>1. \A j : Used(j)' <=> Used(j)
    BY DEF Used, Pool!BlockOf
  <1>2. CASE Pool!BlockOf(i) = q
    <2>1. i \notin Range(v)
      BY DEF KeepsFree
    <2>2. /\ Append(v, i) \in Seq(Pool!Idx) /\ IsInjective(Append(v, i))
          /\ Range(Append(v, i)) = Range(v) \cup {i}
      BY <2>1, AppendToList DEF KeepsFree
    <2>3. {j \in Pool!Idx : Pool!BlockOf(j) = q /\ Used(j)' /\ holders'[j] = 0}
             = {j \in Pool!Idx : Pool!BlockOf(j) = q /\ Used(j) /\ holders[j] = 0} \cup {i}
      BY <1>1, <1>2
    <2>. QED  BY <1>2, <2>2, <2>3 DEF KeepsFree, Pool!BlockOf, Pool!Idx
  <1>3. CASE Pool!BlockOf(i) # q
    <2>1. {j \in Pool!Idx : Pool!BlockOf(j) = q /\ Used(j)' /\ holders'[j] = 0}
             = {j \in Pool!Idx : Pool!BlockOf(j) = q /\ Used(j) /\ holders[j] = 0}
      BY <1>1, <1>3
    <2>. QED  BY <1>3, <2>1 DEF KeepsFree, Pool!BlockOf, Pool!Idx
  <1>. QED  BY <1>2, <1>3

LEMMA PushKeeps ==
    ASSUME CoPoolInv, NEW i \in Pool!Idx, Pool!push(i)
    PROVE  CoPoolInv'
  <1> USE DEF CoPoolInv
  <1>0. N \in Nat /\ N > 0 /\ o \in 0..N /\ c \in Pool!Block /\ Pool!Block = 0..MaxBlock
        /\ MaxBlock \in Nat
    BY PoolAssumption DEF CoPoolTypeOK, Pool!Block
  <1>1. /\ holders[i] = 1 /\ i \in Pool!Live /\ i # Pool!MainIdx
        /\ useCount' = [useCount EXCEPT ![Pool!BlockOf(i)] = @ - 1]
        /\ holders' = [holders EXCEPT ![i] = @ - 1]
    BY LiveParts DEF Pool!push
  <1>2. PICK b \in Pool!Block : b = Pool!BlockOf(i)
    BY IndexBlocks
  <1>3. /\ useCount' \in [Pool!Block -> Nat]
        /\ holders' \in [Pool!Idx -> {0, 1}] /\ holders'[Pool!MainIdx] = 1
        /\ \A j \in Pool!Idx : holders'[j] = IF j = i THEN 0 ELSE holders[j]
        /\ Pool!Live' = Pool!Live \ {i}
        /\ \A q : Pool!LiveIn(q)' = Pool!LiveIn(q) \ {i}
        /\ \A q : i \in Pool!LiveIn(q) <=> q = b
        /\ \A q \in Pool!Block : useCount'[q] = Cardinality(Pool!LiveIn(q)')
        /\ useCount[b] = 1 <=> Pool!LiveIn(b)' = {}
    BY <1>1, <1>2, Pushed
  <1>4. Used(i) /\ Pool!LiveIn(b) # {}
    BY <1>1, <1>3 DEF FreeOnce
  <1>5. \A q : q # b => Pool!LiveIn(q)' = Pool!LiveIn(q)
    BY <1>3
  <1>6. Pool!LiveIn(0) # {} /\ Pool!LiveIn(0)' # {}
    <2>1. 0 \in Pool!LiveIn(0) /\ i # 0
      BY <1>1, LiveParts DEF Pool!MainIdx
    <2>. QED  BY <1>3, <2>1
  (* The lists, when the current block stays as it is.                     *)
  <1>7. ASSUME UNCHANGED <<c, o>>, Pool!KeepForReuse(i)
        PROVE  /\ v0' \in Seq(Pool!Idx) /\ vc' \in Seq(Pool!Idx)
               /\ KeepsFree(v0, 0)' /\ (IF c' = 0 THEN vc' = <<>> ELSE KeepsFree(vc, c)')
               /\ \A j \in Pool!Live' : Used(j)'
    <2>1. /\ v0' = IF b = 0 THEN Append(v0, i) ELSE v0
          /\ vc' = IF b = c /\ c # 0 THEN Append(vc, i) ELSE vc
      BY <1>2, <1>7 DEF Pool!KeepForReuse
    <2>2. \A j : Used(j)' <=> Used(j)
      BY <1>7 DEF Used, Pool!BlockOf
    <2>3. v0' \in Seq(Pool!Idx) /\ KeepsFree(v0, 0)'
      <3>1. PICK v \in Seq(Pool!Idx) : v = v0 /\ KeepsFree(v, 0)
        BY DEF CoPoolTypeOK, FreeOnce
      <3>2. /\ b = 0 => KeepsFree(Append(v, i), 0)' /\ Append(v, i) \in Seq(Pool!Idx)
            /\ b # 0 => KeepsFree(v, 0)'
        BY <1>1, <1>2, <1>3, <1>4, <1>7, <3>1, KeptAgain
      <3>. QED  BY <2>1, <3>1, <3>2 DEF KeepsFree
    <2>4. vc' \in Seq(Pool!Idx) /\ (IF c' = 0 THEN vc' = <<>> ELSE KeepsFree(vc, c)')
      <3>1. CASE c = 0
        BY <1>7, <2>1, <3>1 DEF FreeOnce, CoPoolTypeOK
      <3>2. CASE c # 0
        <4>1. PICK v \in Seq(Pool!Idx), q \in Pool!Block : v = vc /\ q = c /\ KeepsFree(v, q)
          BY <3>2 DEF CoPoolTypeOK, FreeOnce
        <4>2. /\ b = q => KeepsFree(Append(v, i), q)' /\ Append(v, i) \in Seq(Pool!Idx)
              /\ b # q => KeepsFree(v, q)'
          BY <1>1, <1>2, <1>3, <1>4, <1>7, <4>1, KeptAgain
        <4>. QED  BY <1>7, <2>1, <3>2, <4>1, <4>2 DEF KeepsFree
      <3>. QED  BY <3>1, <3>2
    <2>5. \A j \in Pool!Live' : Used(j)'
      BY <1>3, <2>2 DEF FreeOnce
    <2>. QED  BY <2>3, <2>4, <2>5
  <1>8. CASE Pool!PushToUsedBlock(i)
    <2>1. useCount[b] > 1 /\ Pool!KeepForReuse(i) /\ UNCHANGED <<c, o, allocated, blks>>
      BY <1>2, <1>8 DEF Pool!PushToUsedBlock
    <2>2. Pool!LiveIn(b)' # {}
      BY <1>3, <2>1
    <2>3. \A q : Pool!LiveIn(q)' = {} <=> Pool!LiveIn(q) = {}
      BY <1>4, <1>5, <2>2
    <2>4. CoPoolTypeOK'
      BY <1>3, <1>7, <2>1 DEF CoPoolTypeOK, Pool!Block, Pool!Idx, Pool!MainIdx
    <2>5. CountsExact'
      BY <1>3, <2>1, <2>3 DEF CountsExact, Pool!Block
    <2>6. FreeOnce'
      BY <1>7, <2>1, <2>3 DEF FreeOnce
    <2>7. WithinThree'
      BY <2>1, <2>3 DEF WithinThree, Pool!Block
    <2>. QED  BY <2>4, <2>5, <2>6, <2>7
  <1>9. CASE Pool!FreeOtherBlock(i)
    <2>1. /\ useCount[b] = 1 /\ b # c /\ Pool!KeepForReuse(i) /\ UNCHANGED <<c, o>>
          /\ allocated' = allocated \ {b} /\ blks' = blks \cup {b}
      BY <1>2, <1>9 DEF Pool!FreeOtherBlock
    <2>2. Pool!LiveIn(b)' = {} /\ b # 0
      BY <1>3, <1>6, <2>1
    <2>3. \A q : Pool!LiveIn(q)' = {} <=> q = b \/ Pool!LiveIn(q) = {}
      BY <1>5, <2>2
    <2>4. CoPoolTypeOK'
      BY <1>3, <1>7, <2>1 DEF CoPoolTypeOK, Pool!Block, Pool!Idx, Pool!MainIdx
    <2>5. CountsExact'
      BY <1>3, <2>1, <2>3 DEF CountsExact, Pool!Block
    <2>6. FreeOnce'
      BY <1>7, <2>1, <2>3 DEF FreeOnce
    <2>7. b <= 2 /\ c # 0
      <3>1. ~ (b > 2)
        BY <1>4 DEF WithinThree
      <3>2. b <= 2
        BY <1>0, <3>1
      <3>3. b = 1 \/ b = 2
        BY <1>0, <2>2, <3>2
      <3>. QED  BY <1>4, <3>2, <3>3 DEF WithinThree
    <2>8. WithinThree'
      <3>1. \A q \in Pool!Block : q > 2 => Pool!LiveIn(q)' = {} /\ q \notin blks'
        BY <1>0, <2>1, <2>3, <2>7 DEF WithinThree
      <3>2. \A q \in blks' : q # c' /\ Pool!LiveIn(q)' = {}
        BY <2>1, <2>3 DEF WithinThree
      <3>3. \A q \in Pool!Block : q < c' /\ Pool!LiveIn(q)' = {} => q \in blks'
        BY <2>1, <2>3 DEF WithinThree
      <3>4. c' <= 2 /\ c' # 0
        BY <2>1, <2>7 DEF WithinThree
      <3>. QED  BY <3>1, <3>2, <3>3, <3>4 DEF WithinThree, Pool!Block
    <2>. QED  BY <2>4, <2>5, <2>6, <2>8
  <1>10. CASE Pool!FreeCurrentBlock(i)
    <2>1. /\ useCount[b] = 1 /\ b = c /\ vc' = <<>> /\ o' = 0
          /\ v0' = IF c = 0 THEN Append(v0, i) ELSE v0
          /\ allocated' = allocated \ {b}
          /\ IF blks # {} /\ Pool!Smallest(blks) < c
             THEN /\ c' = Pool!Smallest(blks)
                  /\ blks' = (blks \cup {c}) \ {Pool!Smallest(blks)}
             ELSE UNCHANGED <<c, blks>>
      BY <1>2, <1>10 DEF Pool!FreeCurrentBlock
    <2>2. Pool!LiveIn(b)' = {} /\ c # 0 /\ v0' = v0
      <3>1. Pool!LiveIn(b)' = {}
        BY <1>3, <2>1
      <3>2. b # 0
        BY <1>6, <3>1
      <3>. QED  BY <2>1, <3>1, <3>2
    <2>3. \A q : Pool!LiveIn(q)' = {} <=> q = b \/ Pool!LiveIn(q) = {}
      BY <1>3, <1>5, <2>1
    <2>4. PICK d \in Pool!Block :
             /\ c' = d /\ d <= c /\ Pool!LiveIn(d)' = {}
             /\ d \notin blks' /\ blks' \subseteq blks \cup {c} /\ blks \cup {c} \subseteq blks' \cup {d}
      <3>1. CASE blks # {} /\ Pool!Smallest(blks) < c
        <4>1. PICK d : d = Pool!Smallest(blks) /\ d \in blks
          BY <3>1, SmallestIsLeast
        <4>2. d \in Pool!Block /\ Pool!LiveIn(d) = {}
          BY <4>1 DEF CoPoolTypeOK, WithinThree
        <4>3. Pool!LiveIn(d)' = {}
          BY <2>3, <4>2
        <4>4. d < c /\ c' = d /\ blks' = (blks \cup {c}) \ {d}
          BY <2>1, <3>1, <4>1
        <4>. QED  BY <1>0, <4>2, <4>3, <4>4
      <3>2. CASE ~ (blks # {} /\ Pool!Smallest(blks) < c)
        <4>1. c' = c /\ blks' = blks /\ c \notin blks
          BY <2>1, <3>2 DEF WithinThree
        <4>2. c <= c
          BY <1>0
        <4>. QED  BY <1>0, <2>1, <2>2, <4>1, <4>2
      <3>. QED  BY <3>1, <3>2
    <2>5. d # 0
      BY <2>4, <1>6
    <2>6. CoPoolTypeOK'
      <3>1. o' \in 0..N /\ vc' \in Seq(Pool!Idx) /\ v0' \in Seq(Pool!Idx)
        BY <1>0, <2>1, <2>2, EmptyList DEF CoPoolTypeOK
      <3>2. allocated' \subseteq Pool!Block /\ blks' \subseteq Pool!Block
        BY <1>0, <2>1, <2>4 DEF CoPoolTypeOK
      <3>. QED
        BY <1>3, <2>4, <3>1, <3>2 DEF CoPoolTypeOK, Pool!Block, Pool!Idx, Pool!MainIdx
    <2>7. CountsExact'
      BY <1>3, <2>1, <2>3 DEF CountsExact, Pool!Block
    <2>8. FreeOnce'
      <3>1. \A j \in Pool!Idx : /\ j \in Nat /\ Pool!BlockOf(j) * N <= j
                                /\ Pool!BlockOf(j) * N \in Nat
        <4>1. \A j \in Pool!Idx : /\ j \in Nat /\ Pool!BlockOf(j) * N <= j /\ Pool!BlockOf(j) \in Nat
          BY IndexBlocks, IndexParts
        <4>. QED  BY <1>0, <4>1
      <3>2. ASSUME NEW j \in Pool!Idx, Pool!BlockOf(j) = d PROVE ~ Used(j)' /\ holders'[j] = 0
        <4>1. ~ (j < c' * N + o')
          <5>1. c' * N <= j /\ c' * N \in Nat /\ j \in Nat
            BY <2>4, <3>1, <3>2
          <5>. QED  BY <2>1, <5>1
        <4>2. holders[j] = 0 \/ j = i
          <5>1. j \notin Pool!LiveIn(d) \/ j = i
            BY <1>3, <2>4
          <5>. QED  BY <3>2, <5>1, LiveParts DEF CoPoolTypeOK
        <4>. QED  BY <1>3, <2>4, <3>2, <4>1, <4>2 DEF Used, Pool!BlockOf
      <3>3. \A j \in Pool!Idx : Pool!BlockOf(j) # d => Used(j)'
        BY <2>4 DEF Used, Pool!BlockOf
      <3>4. KeepsFree(v0, 0)'
        <4>1. \A j \in Pool!Idx : Pool!BlockOf(j) = 0 => Used(j)' /\ Used(j) /\ j # i
          BY <1>2, <2>1, <2>2, <2>5, <3>3 DEF Used
        <4>2. {j \in Pool!Idx : Pool!BlockOf(j) = 0 /\ Used(j)' /\ holders'[j] = 0}
                 = {j \in Pool!Idx : Pool!BlockOf(j) = 0 /\ Used(j) /\ holders[j] = 0}
          BY <1>3, <4>1
        <4>. QED  BY <2>2, <4>2 DEF FreeOnce, KeepsFree, Pool!BlockOf, Pool!Idx
      <3>5. KeepsFree(vc, c)'
        <4>1. {j \in Pool!Idx : Pool!BlockOf(j) = d /\ Used(j)' /\ holders'[j] = 0} = {}
          BY <3>2
        <4>. QED  BY <2>1, <2>4, <4>1, EmptyList DEF KeepsFree, Pool!BlockOf, Pool!Idx
      <3>6. \A j \in Pool!Live' : Used(j)'
        <4>1. \A j \in Pool!Live' : j \in Pool!Idx /\ holders'[j] # 0
          BY <1>3, LiveParts DEF Pool!Live, Pool!Idx
        <4>. QED  BY <3>2, <3>3, <4>1
      <3>. QED  BY <2>1, <2>4, <2>5, <3>4, <3>5, <3>6 DEF FreeOnce, KeepsFree
    <2>9. WithinThree'
      <3>1. \A q \in Pool!Block : q > 2 => Pool!LiveIn(q)' = {} /\ q \notin blks'
        BY <1>0, <2>3, <2>4 DEF WithinThree
      <3>2. \A q \in blks' : q # d /\ Pool!LiveIn(q)' = {}
        BY <2>1, <2>3, <2>4 DEF WithinThree
      <3>3. \A q \in Pool!Block : q < d /\ Pool!LiveIn(q)' = {} => q \in blks'
        BY <1>0, <2>1, <2>3, <2>4 DEF WithinThree
      <3>4. d <= 2
        BY <1>0, <2>4, <2>5 DEF WithinThree
      <3>. QED  BY <2>4, <2>5, <3>1, <3>2, <3>3, <3>4 DEF WithinThree, Pool!Block
    <2>. QED  BY <2>6, <2>7, <2>8, <2>9
  <1>. QED  BY <1>8, <1>9, <1>10 DEF Pool!push

LEMMA CoPoolStarts == Pool!Init => CoPoolInv
  <1> SUFFICES ASSUME Pool!Init PROVE CoPoolInv
    OBVIOUS
  <1>0. N \in Nat /\ N > 0 /\ MaxBlock \in Nat /\ MaxBlock * N \in Nat
    BY PoolAssumption
  <1>1. /\ c = 0 /\ o = 1 /\ allocated = {0} /\ v0 = <<>> /\ vc = <<>> /\ blks = {}
        /\ useCount = [q \in Pool!Block |-> IF q = 0 THEN 1 ELSE 0]
        /\ holders = [i \in Pool!Idx |-> IF i = 0 THEN 1 ELSE 0]
    BY DEF Pool!Init, Pool!MainIdx
  <1>2. 0 \in Pool!Block /\ 0 \in Pool!Idx /\ Pool!BlockOf(0) = 0
    <2>1. 0 \in 0..(N - 1) /\ 0 \in Nat /\ 0 * N + 0 = 0 /\ 0 \in Pool!Block
      BY <1>0 DEF Pool!Block
    <2>. QED  BY <2>1, IndexParts, IndexBlocks
  <1>3. CoPoolTypeOK
    <2>1. c \in Pool!Block /\ o \in 0..N /\ allocated \subseteq Pool!Block /\ blks \subseteq Pool!Block
      BY <1>0, <1>1, <1>2
    <2>2. useCount \in [Pool!Block -> Nat] /\ holders \in [Pool!Idx -> {0, 1}] /\ holders[0] = 1
      BY <1>1, <1>2
    <2>. QED  BY <1>1, <2>1, <2>2, EmptyList DEF CoPoolTypeOK, Pool!MainIdx
  <1>4. /\ Pool!Live = {0} /\ Pool!LiveIn(0) = {0}
        /\ \A q : q # 0 => Pool!LiveIn(q) = {}
    BY <1>1, <1>2, <1>3, LiveParts
  <1>5. CountsExact
    <2>1. Cardinality({0}) = 1 /\ Cardinality({}) = 0
      BY FS_Singleton, FS_EmptySet
    <2>. QED  BY <1>1, <1>4, <2>1 DEF CountsExact
  <1>6. FreeOnce
    <2>1. ASSUME NEW j \in Pool!Idx, Used(j), Pool!BlockOf(j) = 0 PROVE holders[j] = 1
      <3>1. j \in Nat /\ j < 0 * N + 1
        BY <1>1, <2>1, IndexBlocks DEF Used
      <3>2. j = 0
        BY <1>0, <3>1
      <3>. QED  BY <1>1, <1>2, <3>2
    <2>2. KeepsFree(v0, 0)
      BY <1>1, <2>1, EmptyList DEF KeepsFree
    <2>3. Used(0)
      BY <1>0, <1>1 DEF Used
    <2>. QED  BY <1>1, <1>4, <2>2, <2>3 DEF FreeOnce
  <1>7. WithinThree
    BY <1>0, <1>1, <1>4 DEF WithinThree, Pool!Block
  <1>. QED  BY <1>3, <1>5, <1>6, <1>7 DEF CoPoolInv

LEMMA CoPoolStep ==
    ASSUME CoPoolInv, MaxLive <= 2 * N + 1, Pool!Next
    PROVE  CoPoolInv'
  BY ReuseKeeps, NewKeeps, PushKeeps DEF Pool!Next, Pool!pop

(* For any size of the blocks: as long as no more than two blocks and one  *)
(* coroutine more exist at a time, no index is handed out twice, the       *)
(* memory of none is freed, and no empty block is lost.  With more, see    *)
(* the run pool_third_block.                                               *)
THEOREM PoolStaysSound == ASSUME MaxLive <= 2 * N + 1 PROVE SchedulerSpec => []PoolSound
  <1> DEFINE IInv == part = "pool" => CoPoolInv
             allVars == <<vars, poolVars, tmVars, hookVars, objectVars, part>>
  <1>1. SchedulerInit => IInv
    BY CoPoolStarts DEF SchedulerInit
  <1>2. ASSUME IInv, [SchedulerNext]_allVars
        PROVE  IInv'
    <2>. SUFFICES ASSUME part' = "pool" PROVE CoPoolInv'
      OBVIOUS
    <2>1. part = "pool" /\ CoPoolInv
      BY <1>2 DEF SchedulerNext
    <2>2. CASE Pool!Next
      BY <2>1, <2>2, CoPoolStep
    <2>3. CASE UNCHANGED poolVars
      <3>1. UNCHANGED <<c, o, allocated, useCount, v0, vc, blks, holders>>
        BY <2>3 DEF poolVars
      <3>2. UNCHANGED <<Pool!Block, Pool!Idx, Pool!MainIdx>>
        BY DEF Pool!Block, Pool!Idx, Pool!MainIdx
      <3>3. \A i : Pool!BlockOf(i)' = Pool!BlockOf(i) /\ (Used(i)' <=> Used(i))
        BY <3>1 DEF Used, Pool!BlockOf
      <3>4. \A q : Pool!LiveIn(q)' = Pool!LiveIn(q)
        BY <3>1 DEF Pool!LiveIn, Pool!Live, Pool!Idx, Pool!BlockOf
      <3>5. CoPoolTypeOK'
        BY <2>1, <3>1 DEF CoPoolInv, CoPoolTypeOK, Pool!Block, Pool!Idx, Pool!MainIdx
      <3>6. CountsExact'
        BY <2>1, <3>1, <3>2, <3>4 DEF CoPoolInv, CountsExact
      <3>7. FreeOnce' /\ WithinThree'
        BY <2>1, <3>1 DEF CoPoolInv, FreeOnce, KeepsFree, WithinThree, Used, Pool!Block, Pool!Idx,
                          Pool!BlockOf, Pool!LiveIn, Pool!Live
      <3>. QED  BY <3>5, <3>6, <3>7 DEF CoPoolInv
    <2>. QED  BY <1>2, <2>1, <2>2, <2>3 DEF SchedulerNext
  <1>3. IInv => PoolSound
    <2>. SUFFICES ASSUME CoPoolInv PROVE Pool!PoolSound
      BY DEF PoolSound
    <2> USE DEF CoPoolInv
    <2>0. Pool!Block = 0..MaxBlock /\ c \in Pool!Block /\ MaxBlock \in Nat
      BY PoolAssumption DEF CoPoolTypeOK, Pool!Block
    <2>1. Pool!PopGivesFreeCoroutine
      BY DEF CoPoolTypeOK, Pool!PopGivesFreeCoroutine
    <2>2. Pool!LiveIsAllocated
      <3>1. ASSUME NEW i \in Pool!Live PROVE Pool!BlockOf(i) \in allocated
        <4>1. i \in Pool!LiveIn(Pool!BlockOf(i)) /\ Pool!BlockOf(i) \in Pool!Block
          BY LiveParts, IndexBlocks
        <4>. QED  BY <4>1 DEF CountsExact
      <3>. QED  BY <3>1 DEF Pool!LiveIsAllocated
    <2>3. Pool!EmptyBlocksAvailable
      <3>1. ASSUME NEW q \in Pool!Block, NEW r \in Pool!Block, r >= q,
                   Pool!LiveIn(r) # {} \/ r = c \/ r \in blks, Pool!LiveIn(q) = {}
            PROVE  (q = c) # (q \in blks)
        <4>1. CASE q = c
          BY <4>1 DEF WithinThree
        <4>2. CASE q # c /\ r = q
          BY <3>1, <4>2
        <4>3. CASE q < c
          BY <2>0, <3>1, <4>3 DEF WithinThree
        <4>4. CASE q > c /\ r > q
          <5>1. r <= 2
            <6>1. ~ (r > 2)
              BY <2>0, <3>1, <4>4 DEF WithinThree
            <6>. QED  BY <2>0, <6>1
          <5>2. c = 0 /\ r = 2
            BY <2>0, <4>4, <5>1
          <5>. QED  BY <3>1, <5>2 DEF WithinThree
        <4>. QED  BY <2>0, <3>1, <4>1, <4>2, <4>3, <4>4
      <3>. QED  BY <3>1 DEF Pool!EmptyBlocksAvailable
    <2>. QED  BY <2>1, <2>2, <2>3 DEF Pool!PoolSound
  <1>. QED  BY <1>1, <1>2, <1>3, PTL DEF SchedulerSpec

=============================================================================
