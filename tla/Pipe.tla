-------------------------------- MODULE Pipe --------------------------------
(***************************************************************************)
(* pipe_impl of src/co/co.cc, the channel behind co::chan: a ring buffer   *)
(* of cap blocks with a read and a write position.  The positions are      *)
(* equal when the buffer is empty and when it is full, and _full tells the *)
(* two apart.  A channel of capacity 0 has no buffer and counts as full.   *)
(***************************************************************************)
EXTENDS PipeWaiters

CONSTANTS Caps,                \* capacities the channel may be created with
          ReaderOf, WriterOf   \* who reads from and who writes to a channel
                               \* of each capacity
ASSUME PipeAssumption ==
    /\ Caps \subseteq Nat
    /\ ReaderOf \in [Caps -> SUBSET Proc]
    /\ WriterOf \in [Caps -> SUBSET Proc]

VARIABLES cap,   \* _buf_size, in blocks
          ring,  \* _buf, block by block
          rx,    \* _rx, in blocks
          wx,    \* _wx, in blocks
          full   \* _full

buffer == <<cap, ring, rx, wx, full>>
vars == <<waiters, buffer>>

Succ(i) == (i + 1) % cap

TypeOK ==
    /\ WaitersTypeOK
    /\ cap \in Caps
    /\ ring \in [0..(cap - 1) -> Elem \cup {None}]
    /\ {rx, wx} \subseteq DOMAIN ring \cup {0}
    /\ full \in BOOLEAN

Init ==
    /\ WaitersInit
    /\ cap \in Caps
    /\ ring = [i \in 0..(cap - 1) |-> None]
    /\ rx = 0 /\ wx = 0
    /\ full = (cap = 0)

-----------------------------------------------------------------------------
(* read()                                                                  *)

(* The buffer is neither empty nor full.                                   *)
ReadBlock(p) ==
    /\ pc[p] = "idle"
    /\ rx # wx
    /\ got' = got \cup {ring[rx]}
    /\ ring' = [ring EXCEPT ![rx] = None]
    /\ rx' = Succ(rx)
    /\ UNCHANGED <<timed, closed, wq, heap, mine, op, out, target, wakeups, pc, cap, wx, full>>

(* The buffer is full: the first writer that still waits moves its element *)
(* to the block that became free.                                          *)
ReadFull(p) ==
    /\ pc[p] = "idle"
    /\ cap > 0 /\ full
    /\ \E i \in FirstLive :
          /\ ring' = [ring EXCEPT ![wx] = heap[wq[i]].buf]
          /\ Claim(i, 1, None)
          /\ WakeOwner(p, wq[i])
    /\ got' = got \cup {ring[rx]}
    /\ rx' = Succ(rx) /\ wx' = Succ(wx)
    /\ UNCHANGED <<timed, closed, mine, op, out, wakeups, cap, full>>

(* The buffer is full and no writer waits.                                 *)
ReadLast(p) ==
    /\ pc[p] = "idle"
    /\ cap > 0 /\ full
    /\ DropDead
    /\ got' = got \cup {ring[rx]}
    /\ ring' = [ring EXCEPT ![rx] = None]
    /\ rx' = Succ(rx)
    /\ full' = FALSE
    /\ UNCHANGED <<timed, closed, mine, op, out, target, wakeups, pc, cap, wx>>

(* No buffer: the element comes from the first that waits in the queue,    *)
(* whom the code takes for a writer.                                       *)
ReadDirect(p) ==
    /\ pc[p] = "idle"
    /\ cap = 0
    /\ \E i \in FirstLive :
          /\ got' = got \cup {heap[wq[i]].buf}
          /\ Claim(i, 1, None)
          /\ WakeOwner(p, wq[i])
    /\ UNCHANGED <<timed, closed, mine, op, out, wakeups, buffer>>

NothingToRead == rx = wx /\ IF cap = 0 THEN FirstLive = {} ELSE ~ full

ReadClosed(p) ==
    /\ pc[p] = "idle"
    /\ NothingToRead
    /\ closed # 0
    /\ IF cap = 0 THEN DropDead ELSE UNCHANGED <<wq, heap>>
    /\ UNCHANGED <<timed, closed, mine, op, target, wakeups, out, got, pc, buffer>>

ReadWait(p) ==
    /\ pc[p] = "idle"
    /\ NothingToRead
    /\ closed = 0
    /\ Enqueue(p, "read", None, cap > 0)
    /\ UNCHANGED <<out, buffer>>

-----------------------------------------------------------------------------
(* write(); on a closed channel it fails at once and changes nothing       *)

PutBlock(e) ==
    /\ ring' = [ring EXCEPT ![wx] = e]
    /\ wx' = Succ(wx)
    /\ out' = out \ {e}
    /\ UNCHANGED <<cap, rx>>

WriteBlock(p, e) ==
    /\ pc[p] = "idle" /\ closed = 0
    /\ rx # wx
    /\ PutBlock(e)
    /\ full' = (full \/ Succ(wx) = rx)
    /\ UNCHANGED <<timed, closed, wq, heap, mine, op, got, target, wakeups, pc>>

(* The buffer is empty: the element goes to the first reader that waits,   *)
(* without a buffer to whoever is first in the queue.                      *)
WriteDirect(p, e) ==
    /\ pc[p] = "idle" /\ closed = 0
    /\ rx = wx /\ (cap = 0 \/ ~ full)
    /\ \E i \in FirstLive : Claim(i, 1, e) /\ WakeOwner(p, wq[i])
    /\ out' = out \ {e}
    /\ UNCHANGED <<timed, closed, mine, op, got, wakeups, buffer>>

(* Slip: the buffer is filled although readers wait.                       *)
WriteFirstUnserved(p, e) ==
    /\ pc[p] = "idle" /\ closed = 0
    /\ rx = wx /\ cap > 0 /\ ~ full
    /\ PutBlock(e)
    /\ full' = (Succ(wx) = rx)
    /\ UNCHANGED <<timed, closed, wq, heap, mine, op, got, target, wakeups, pc>>

WriteFirst(p, e) ==
    /\ pc[p] = "idle" /\ closed = 0
    /\ rx = wx /\ cap > 0 /\ ~ full
    /\ DropDead
    /\ PutBlock(e)
    /\ full' = (Succ(wx) = rx)
    /\ UNCHANGED <<timed, closed, mine, op, got, target, wakeups, pc>>

WriteWait(p, e) ==
    /\ pc[p] = "idle" /\ closed = 0
    /\ rx = wx /\ full
    /\ cap = 0 => FirstLive = {}
    /\ Enqueue(p, "write", e, cap > 0)
    /\ out' = out \ {e}
    /\ UNCHANGED buffer

-----------------------------------------------------------------------------
Close(p) ==
    /\ CloseLocked(p, rx = wx /\ ~ full)
    /\ UNCHANGED buffer

Read(p) ==
    \/ ReadBlock(p) \/ ReadFull(p) \/ ReadLast(p)
    \/ ReadDirect(p) \/ ReadClosed(p) \/ ReadWait(p)

Write(p, e) ==
    WriteBlock(p, e) \/ WriteDirect(p, e) \/ WriteFirst(p, e) \/ WriteWait(p, e)

Next ==
    \/ \E p \in ReaderOf[cap] : Read(p)
    \/ \E p \in WriterOf[cap] :
          \/ \E e \in First(out) : Write(p, e)
          \/ CloseBegin(p) /\ UNCHANGED buffer
    \/ \E p \in Proc : Close(p) \/ ((Proceed(p) \/ Expire(p)) /\ UNCHANGED buffer)
    \/ \E t \in Thread : SpuriousWakeup(t) /\ UNCHANGED buffer

Spec == Init /\ [][Next]_vars

-----------------------------------------------------------------------------
(* The blocks that hold an element, from the oldest on.                    *)
Contents ==
    LET n == IF rx # wx THEN (wx + cap - rx) % cap ELSE IF full THEN cap ELSE 0
    IN  [i \in 1..n |-> ring[(rx + i - 1) % cap]]

(* No element is lost, delivered twice or made up, whoever times out.      *)
ElementInOnePlace == InOnePlace(Contents)

(* Nobody waits who could go on: _full tells right, and everybody is       *)
(* served in time.  Without a buffer a reader and a writer do not both     *)
(* wait; close() does not reach them, see README.                          *)
NoNeedlessWait ==
    IF cap > 0
    THEN WaitJustified(rx = wx /\ ~ full, rx = wx /\ full)
    ELSE \A v, w \in Unserved : op[heap[v].who] = op[heap[w].who]

(* The elements written and not read, oldest first, those of the writers   *)
(* that wait behind those in the buffer.                                   *)
Line == Contents \o Behind
=============================================================================
