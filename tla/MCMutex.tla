------------------------------ MODULE MCMutex ------------------------------
(***************************************************************************)
(* Mutex for TLC, with its queue _wq kept in blocks, too: every step that  *)
(* changes wq calls push_back or pop_front of MutexQueue.                  *)
(***************************************************************************)
EXTENDS Mutex

CONSTANTS N, s1, s2, c1

VARIABLES blocks, size

Queue == INSTANCE MutexQueue WITH Entry <- Coroutine \cup {NullPtr}

ASSUME QueueAssumption == N \in Nat \ {0}

(* Two schedulers; c1 has the first for itself.                            *)
MCSchedOf == [c \in Coroutine |-> IF c = c1 THEN s1 ELSE s2]

QueueStep ==
    \/ \E x \in Coroutine \cup {NullPtr} : wq' = Append(wq, x) /\ Queue!push_back(x)
    \/ wq # <<>> /\ wq' = Tail(wq) /\ Queue!pop_front
    \/ wq' = wq /\ UNCHANGED <<blocks, size>>

QueuedInit == Init /\ Queue!QueueInit

QueuedNext == Next /\ QueueStep

QueuedSpec == QueuedInit /\ [][QueuedNext]_<<vars, blocks, size>> /\ Fairness

(* The blocks hold those that wait, in the order they came: unlock() hands *)
(* the mutex to the one that waits longest.                                *)
QueueInOrder == Queue!Contents = wq /\ size = Len(wq)
=============================================================================
