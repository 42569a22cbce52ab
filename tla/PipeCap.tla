------------------------------ MODULE PipeCap ------------------------------
(***************************************************************************)
(* pipe_impl_cap of src/co/co.cc, the channel behind co::chan1: the        *)
(* elements are nodes of a list, and a capacity of 0 means no limit.       *)
(***************************************************************************)
EXTENDS PipeWaiters

CONSTANT Caps   \* capacities the channel may be created with

VARIABLES cap,   \* _cap
          list,  \* _list
          size   \* _size

buffer == <<cap, list, size>>
vars == <<waiters, buffer>>

empty == size = 0
full == cap # 0 /\ size = cap

TypeOK ==
    /\ WaitersTypeOK
    /\ cap \in Caps
    /\ list \in Seq(Elem)
    /\ size \in Nat

Init ==
    /\ WaitersInit
    /\ cap \in Caps
    /\ list = <<>>
    /\ size = 0

-----------------------------------------------------------------------------
(* read()                                                                  *)

TakeFirst ==
    /\ list' = Tail(list)
    /\ size' = size - 1
    /\ got' = got \cup {Head(list)}
    /\ UNCHANGED cap

(* The buffer is neither empty nor full.                                   *)
ReadSome(p) ==
    /\ pc[p] = "idle"
    /\ ~ empty /\ ~ full
    /\ TakeFirst
    /\ UNCHANGED <<timed, closed, wq, heap, mine, op, out, target, wakeups, pc>>

(* The buffer is full and a writer waits: its element is the last now.     *)
ReadFull(p) ==
    /\ pc[p] = "idle"
    /\ full
    /\ \E i \in FirstLive :
          /\ list' = Append(Tail(list), heap[wq[i]].buf)
          /\ Claim(i, 1, None)
          /\ WakeOwner(p, wq[i])
    /\ got' = got \cup {Head(list)}
    /\ UNCHANGED <<timed, closed, mine, op, out, wakeups, cap, size>>

ReadLast(p) ==
    /\ pc[p] = "idle"
    /\ full
    /\ DropDead
    /\ TakeFirst
    /\ UNCHANGED <<timed, closed, mine, op, out, target, wakeups, pc>>

ReadWait(p) ==
    /\ pc[p] = "idle"
    /\ empty /\ ~ full
    /\ closed = 0
    /\ Enqueue(p, "read", None, TRUE)
    /\ UNCHANGED <<out, buffer>>

(* On an empty closed channel a read fails and changes nothing.            *)
Read(p) == ReadSome(p) \/ ReadFull(p) \/ ReadLast(p) \/ ReadWait(p)

-----------------------------------------------------------------------------
(* write(); on a closed channel it fails at once and changes nothing       *)

PutLast(e) ==
    /\ list' = Append(list, e)
    /\ size' = size + 1
    /\ out' = out \ {e}
    /\ UNCHANGED cap

(* Slip: the new node becomes the first.                                   *)
WriteSomeFirst(p, e) ==
    /\ pc[p] = "idle" /\ closed = 0
    /\ ~ empty /\ ~ full
    /\ list' = <<e>> \o list
    /\ size' = size + 1
    /\ out' = out \ {e}
    /\ UNCHANGED <<timed, closed, wq, heap, mine, op, got, target, wakeups, pc, cap>>

WriteSome(p, e) ==
    /\ pc[p] = "idle" /\ closed = 0
    /\ ~ empty /\ ~ full
    /\ PutLast(e)
    /\ UNCHANGED <<timed, closed, wq, heap, mine, op, got, target, wakeups, pc>>

WriteDirect(p, e) ==
    /\ pc[p] = "idle" /\ closed = 0
    /\ empty
    /\ \E i \in FirstLive : Claim(i, 1, e) /\ WakeOwner(p, wq[i])
    /\ out' = out \ {e}
    /\ UNCHANGED <<timed, closed, mine, op, got, wakeups, buffer>>

WriteFirst(p, e) ==
    /\ pc[p] = "idle" /\ closed = 0
    /\ empty
    /\ DropDead
    /\ PutLast(e)
    /\ UNCHANGED <<timed, closed, mine, op, got, target, wakeups, pc>>

WriteWait(p, e) ==
    /\ pc[p] = "idle" /\ closed = 0
    /\ full
    /\ Enqueue(p, "write", e, TRUE)
    /\ out' = out \ {e}
    /\ UNCHANGED buffer

Write(p, e) ==
    WriteSome(p, e) \/ WriteDirect(p, e) \/ WriteFirst(p, e) \/ WriteWait(p, e)

-----------------------------------------------------------------------------
Close(p) ==
    /\ CloseLocked(p, empty)
    /\ UNCHANGED buffer

Waited(p) ==
    /\ Proceed(p) \/ Expire(p)
    /\ UNCHANGED buffer

Next ==
    \/ \E p \in Proc : Read(p)
    \/ \E p \in Proc :
          \/ \E e \in First(out) : Write(p, e)
          \/ CloseBegin(p) /\ UNCHANGED buffer
    \/ \E p \in Proc : Close(p) \/ Waited(p)
    \/ \E t \in Thread : SpuriousWakeup(t) /\ UNCHANGED buffer

Spec == Init /\ [][Next]_vars

-----------------------------------------------------------------------------
(* No element is lost, delivered twice or made up, whoever times out.      *)
ElementInOnePlace == InOnePlace(list)

(* Nobody waits who could go on: _size tells right when the buffer is      *)
(* empty or full, and everybody is served in time.                         *)
NoNeedlessWait == size = Len(list) /\ WaitJustified(list = <<>>, full)

(* The elements written and not read, oldest first, and how many of them   *)
(* the list may hold: with a capacity of 0 there is no limit.              *)
Line == list \o Behind
Limit == IF cap = 0 THEN None ELSE cap
=============================================================================
