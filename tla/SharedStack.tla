---------------------------- MODULE SharedStack ----------------------------
(***************************************************************************)
(* How the coroutines of one scheduler share a few stacks: Sched::resume   *)
(* of src/co/sched.cc with save_stack, new_coroutine and recycle of        *)
(* src/co/sched.h.  A coroutine always runs on the same stack.  When it is *)
(* resumed and another coroutine's frames are on that stack, they are      *)
(* copied to a heap buffer of their owner first; buffers of coroutines     *)
(* that ended are kept in the list _bufs for the next one.                 *)
(*                                                                         *)
(* All of it happens in the scheduler's thread; a step is what happens     *)
(* between two moments a coroutine runs.                                   *)
(***************************************************************************)
EXTENDS Naturals, FiniteSets

CONSTANTS Co,          \* slots of the coroutine pool
          Stack,       \* the stacks of the scheduler
          StackOf,     \* co->stack, &_stack[co->idx & (_stack_num - 1)]
          Buf,         \* heap buffers
          MaxBufs,     \* how many buffers _bufs keeps (128)
          None         \* a null pointer

ASSUME SharedStackAssumption ==
    /\ StackOf \in [Co -> Stack]
    /\ MaxBufs \in Nat
    /\ None \notin Co \cup Buf

VARIABLES live,      \* coroutines popped from the pool and not recycled
          started,   \* started[c]: co->ctx is not 0
          running,   \* _running, None while the loop itself runs
          owner,     \* owner[s]: s->co
          content,   \* content[s]: the frames that are on stack s
          pbuf,      \* pbuf[c]: co->pbuf
          data,      \* data[b]: the frames saved in buffer b
          bufs,      \* the buffers in _bufs
          frame      \* frame[c]: the frames c itself left behind

vars == <<live, started, running, owner, content, pbuf, data, bufs, frame>>

(* Frames are told apart by whose they are and, since a coroutine changes  *)
(* its locals, by which of two versions; Garbage is memory nobody wrote.   *)
Garbage == [co |-> None, version |-> 0]
Frame == [co : Co, version : 0..1] \cup {Garbage}
FirstFrame(c) == [co |-> c, version |-> 0]

TypeOK ==
    /\ live \subseteq Co
    /\ started \in [Co -> BOOLEAN]
    /\ running \in Co \cup {None}
    /\ owner \in [Stack -> Co \cup {None}]
    /\ content \in [Stack -> Frame]
    /\ pbuf \in [Co -> Buf \cup {None}]
    /\ data \in [Buf -> Frame]
    /\ bufs \subseteq Buf
    /\ frame \in [Co -> Frame]

Init ==
    /\ live = {}
    /\ started = [c \in Co |-> FALSE]
    /\ running = None
    /\ owner = [s \in Stack |-> None]
    /\ content = [s \in Stack |-> Garbage]
    /\ pbuf = [c \in Co |-> None]
    /\ data = [b \in Buf |-> Garbage]
    /\ bufs = {}
    /\ frame = [c \in Co |-> Garbage]

(* malloc returns a buffer that nobody has.                                *)
Unallocated == {b \in Buf \ bufs : \A c \in Co : pbuf[c] # b}

-----------------------------------------------------------------------------
(* Slip: the frames of the stack's owner are not saved for a new coroutine. *)
ResumeNewNoSave(c) ==
    /\ running = None /\ c \in live /\ ~ started[c]
    /\ running' = c
    /\ started' = [started EXCEPT ![c] = TRUE]
    /\ owner' = [owner EXCEPT ![StackOf[c]] = c]
    /\ content' = [content EXCEPT ![StackOf[c]] = FirstFrame(c)]
    /\ UNCHANGED <<live, pbuf, data, bufs, frame>>

-----------------------------------------------------------------------------
(* new_coroutine: a slot that was used before keeps its pbuf and stack     *)
(* fields, its ctx is reset.                                               *)
NewCoroutine(c) ==
    /\ running = None
    /\ c \notin live
    /\ live' = live \cup {c}
    /\ started' = [started EXCEPT ![c] = FALSE]
    /\ frame' = [frame EXCEPT ![c] = FirstFrame(c)]
    /\ UNCHANGED <<running, owner, content, pbuf, data, bufs>>

(* save_stack(o): o takes a buffer of _bufs if it has none, or append      *)
(* allocates one.                                                          *)
SaveStack(o) ==
    \E b \in Buf :
       /\ \/ pbuf[o] = b /\ UNCHANGED bufs
          \/ pbuf[o] = None /\ b \in bufs /\ bufs' = bufs \ {b}
          \/ pbuf[o] = None /\ bufs = {} /\ b \in Unallocated /\ UNCHANGED bufs
       /\ pbuf' = [pbuf EXCEPT ![o] = b]
       /\ data' = [data EXCEPT ![b] = content[StackOf[o]]]

(* The frames of the stack's owner, if it is another coroutine, are saved. *)
Evict(c) ==
    LET o == owner[StackOf[c]]
    IN  IF o \in {c, None} THEN UNCHANGED <<pbuf, data, bufs>>
                           ELSE SaveStack(o)

(* resume() of a coroutine with ctx = 0 builds a first frame.              *)
ResumeNew(c) ==
    /\ running = None
    /\ c \in live
    /\ ~ started[c]
    /\ Evict(c)
    /\ running' = c
    /\ started' = [started EXCEPT ![c] = TRUE]
    /\ owner' = [owner EXCEPT ![StackOf[c]] = c]
    /\ content' = [content EXCEPT ![StackOf[c]] = FirstFrame(c)]
    /\ UNCHANGED <<live, frame>>

(* resume() of a suspended coroutine copies its frames back, unless they   *)
(* are still there.  (Without a buffer nothing would be copied.)           *)
ResumeSuspended(c) ==
    /\ running = None
    /\ c \in live
    /\ started[c]
    /\ Evict(c)
    /\ running' = c
    /\ owner' = [owner EXCEPT ![StackOf[c]] = c]
    /\ content' = IF owner[StackOf[c]] = c \/ pbuf[c] = None
                  THEN content
                  ELSE [content EXCEPT ![StackOf[c]] = data'[pbuf[c]]]
    /\ UNCHANGED <<live, started, frame>>

(* The coroutine changes its local variables.                              *)
Work(c) ==
    /\ running = c
    /\ \E v \in 0..1 :
          /\ frame' = [frame EXCEPT ![c] = [co |-> c, version |-> v]]
          /\ content' = [content EXCEPT ![StackOf[c]] =
                            [co |-> c, version |-> v]]
    /\ UNCHANGED <<live, started, running, owner, pbuf, data, bufs>>

Yield(c) ==
    /\ running = c
    /\ running' = None
    /\ UNCHANGED <<live, started, owner, content, pbuf, data, bufs, frame>>

(* The coroutine has ended: the stack has no owner, its buffer goes to     *)
(* _bufs or, if it is large or _bufs is full, is freed; then the slot is   *)
(* returned to the pool.                                                   *)
Recycle(c, large) ==
    /\ running = c
    /\ running' = None
    /\ owner' = [owner EXCEPT ![StackOf[c]] = None]
    /\ pbuf' = [pbuf EXCEPT ![c] = None]
    /\ bufs' = IF pbuf[c] = None \/ large \/ Cardinality(bufs) >= MaxBufs
               THEN bufs ELSE bufs \cup {pbuf[c]}
    /\ live' = live \ {c}
    /\ UNCHANGED <<started, content, data, frame>>

-----------------------------------------------------------------------------
Next ==
    \E c \in Co :
       \/ NewCoroutine(c) \/ ResumeNew(c) \/ ResumeSuspended(c)
       \/ Work(c) \/ Yield(c)
       \/ \E large \in BOOLEAN : Recycle(c, large)

Spec == Init /\ [][Next]_vars

-----------------------------------------------------------------------------
(* A coroutine that runs finds its own frames on its stack, exactly as it  *)
(* left them, whatever ran on that stack in between.                       *)
RunsOnOwnFrames ==
    running # None => /\ owner[StackOf[running]] = running
                      /\ content[StackOf[running]] = frame[running]

(* The frames of a suspended coroutine exist in one of the two places      *)
(* resume() looks: on its stack if it still owns it, in its buffer if not. *)
SuspendedFramesSafe ==
    \A c \in live \ {running} : started[c] =>
       IF owner[StackOf[c]] = c
       THEN content[StackOf[c]] = frame[c]
       ELSE pbuf[c] # None /\ data[pbuf[c]] = frame[c]

(* A buffer belongs to one coroutine or to _bufs, never to two, and an     *)
(* ended coroutine keeps none.                                             *)
BuffersExclusive ==
    \A c \in Co : pbuf[c] # None =>
       /\ c \in live
       /\ pbuf[c] \notin bufs
       /\ \A d \in Co : pbuf[d] = pbuf[c] => d = c

(* Together: a coroutine always finds the frames it left.                  *)
FramesIntact == RunsOnOwnFrames /\ SuspendedFramesSafe /\ BuffersExclusive

(* No stack is owned by a coroutine that has ended: its slot may be reused *)
(* or freed at any time, and the next resume() would save into it.         *)
OwnersLive == \A s \in Stack : owner[s] # None => owner[s] \in live
=============================================================================
