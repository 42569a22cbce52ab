---------------------------- MODULE HandoffLock ----------------------------
(***************************************************************************)
(* What co::mutex promises to the coroutines and the threads that share    *)
(* it: one owner at a time, and once somebody waits, the owner does not    *)
(* free the lock but passes it on to the head of the line, so that nobody  *)
(* who comes later can overtake.  Threads are anonymous in the line: their *)
(* turn is an offer that any waiting thread may take up.                   *)
(***************************************************************************)
EXTENDS Sequences

CONSTANTS Coroutine,    \* the coroutines that use the lock
          Thread,       \* the plain threads that use it
          ThreadSlot,   \* a waiting thread's place in the line
          Free,         \* owner when nobody holds the lock
          Offered       \* owner while a thread's turn has not been taken up

VARIABLES owner, line, waiting

lockVars == <<owner, line, waiting>>

Client == Coroutine \cup Thread

Init ==
    /\ owner = Free
    /\ line = <<>>
    /\ waiting = {}

(* Only a lock nobody waits for can be taken on arrival.                   *)
Acquire(p) ==
    /\ owner = Free
    /\ line = <<>>
    /\ owner' = p
    /\ UNCHANGED <<line, waiting>>

Join(p) ==
    /\ owner \notin {Free, p}
    /\ p \notin waiting
    /\ line' = Append(line, IF p \in Thread THEN ThreadSlot ELSE p)
    /\ waiting' = waiting \cup {p}
    /\ UNCHANGED owner

Release ==
    /\ owner \in Client
    /\ line = <<>>
    /\ owner' = Free
    /\ UNCHANGED <<line, waiting>>

HandToCoroutine ==
    /\ owner \in Client
    /\ line # <<>>
    /\ Head(line) \in Coroutine
    /\ owner' = Head(line)
    /\ line' = Tail(line)
    /\ waiting' = waiting \ {Head(line)}

OfferToThreads ==
    /\ owner \in Client
    /\ line # <<>>
    /\ Head(line) = ThreadSlot
    /\ owner' = Offered
    /\ line' = Tail(line)
    /\ UNCHANGED waiting

TakeOffer(t) ==
    /\ owner = Offered
    /\ t \in waiting \cap Thread
    /\ owner' = t
    /\ waiting' = waiting \ {t}
    /\ UNCHANGED line

Next ==
    \/ \E p \in Client : Acquire(p) \/ Join(p)
    \/ Release \/ HandToCoroutine \/ OfferToThreads
    \/ \E t \in Thread : TakeOffer(t)

Spec == Init /\ [][Next]_lockVars
=============================================================================
