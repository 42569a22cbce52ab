------------------------------ MODULE Mailbox ------------------------------
(***************************************************************************)
(* What a scheduler promises to those who add tasks to it: new closures    *)
(* and ready coroutines are resumed in the order they were added, each     *)
(* exactly once per addition, and as long as the scheduler is open every   *)
(* one of them is resumed eventually.                                      *)
(***************************************************************************)
EXTENDS Sequences

CONSTANTS NewTask, ReadyTask

VARIABLES fresh,    \* closures waiting to become coroutines
          ready,    \* coroutines waiting to be resumed
          closed    \* the scheduler has been told to stop

mailVars == <<fresh, ready, closed>>

Init ==
    /\ fresh = <<>>
    /\ ready = <<>>
    /\ closed = FALSE

PutNew(t) ==
    /\ fresh' = Append(fresh, t)
    /\ UNCHANGED <<ready, closed>>

PutReady(t) ==
    /\ ready' = Append(ready, t)
    /\ UNCHANGED <<fresh, closed>>

RunNew ==
    /\ fresh # <<>>
    /\ fresh' = Tail(fresh)
    /\ UNCHANGED <<ready, closed>>

RunReady ==
    /\ ready # <<>>
    /\ ready' = Tail(ready)
    /\ UNCHANGED <<fresh, closed>>

Close ==
    /\ closed' = TRUE
    /\ UNCHANGED <<fresh, ready>>

Next ==
    \/ \E t \in NewTask : PutNew(t)
    \/ \E t \in ReadyTask : PutReady(t)
    \/ RunNew \/ RunReady \/ Close

Safety == Init /\ [][Next]_mailVars

(* A task in an open scheduler's mailbox is not left there.                *)
Spec ==
    /\ Safety
    /\ WF_mailVars(~ closed /\ RunNew)
    /\ WF_mailVars(~ closed /\ RunReady)
=============================================================================
