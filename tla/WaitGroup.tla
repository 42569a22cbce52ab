----------------------------- MODULE WaitGroup -----------------------------
(***************************************************************************)
(* wait_group of src/co/co.cc: a counter and an auto-reset event.  done()  *)
(* decrements the counter and, if it was the one that made it 0, calls     *)
(* signal(); wait() waits for the event and does not look at the counter.  *)
(*                                                                         *)
(* It is used in rounds, as the repository's own code uses it: somebody    *)
(* adds workers to the counter and starts them, each worker calls done()   *)
(* once, some waiters call wait() when all workers have been added, and    *)
(* when all of these have returned the group may be used again.            *)
(***************************************************************************)
EXTENDS Event

CONSTANTS Worker, Waiter,
          Batches,   \* the sets of workers one call of add() stands for
          MaxWaits   \* bound: how many waiters call wait() in a round

ASSUME WaitGroupAssumption ==
    /\ Worker \subseteq Proc /\ Waiter \subseteq Proc
    /\ Worker \cap Waiter = {}
    /\ IsFiniteSet(Worker)
    /\ Batches \subseteq SUBSET Worker
    /\ MaxWaits \in Nat

VARIABLES wg,     \* the counter
          fresh,  \* workers that have not been added in this round
          todo,   \* workers added that have not called done()
          last,   \* those inside done() that have to call signal()
          asked   \* waiters that have called wait() in this round

group == <<wg, fresh, todo, last, asked>>
allVars == <<vars, group>>

GroupIdle ==
    /\ wg = 0
    /\ fresh = Worker
    /\ todo = {} /\ last = {} /\ asked = {}

WgInit == Init /\ ~ manualReset /\ ~ signaled /\ GroupIdle

Calling(p) == OnCpu(p) /\ pc[p] = "idle" /\ p \notin last

-----------------------------------------------------------------------------
add(p, S) ==
    /\ Calling(p)
    /\ asked = {}
    /\ S # {} /\ S \subseteq fresh
    /\ wg' = wg + Cardinality(S)
    /\ fresh' = fresh \ S
    /\ todo' = todo \cup S
    /\ UNCHANGED <<vars, last, asked>>

(* Slip: the one before the last signals.                                  *)
doneEarly(p) ==
    /\ Calling(p)
    /\ p \in todo
    /\ wg' = wg - 1
    /\ todo' = todo \ {p}
    /\ last' = IF wg' = 1 THEN last \cup {p} ELSE last
    /\ UNCHANGED <<vars, fresh, asked>>

done(p) ==
    /\ Calling(p)
    /\ p \in todo
    /\ wg' = wg - 1
    /\ todo' = todo \ {p}
    /\ last' = IF wg' = 0 THEN last \cup {p} ELSE last
    /\ UNCHANGED <<vars, fresh, asked>>

signal(p) ==
    /\ p \in last
    /\ SignalLocked(p)
    /\ last' = last \ {p}
    /\ UNCHANGED <<wg, fresh, todo, asked>>

wait(p) ==
    /\ Calling(p)
    /\ fresh = {}
    /\ p \notin asked /\ Cardinality(asked) < MaxWaits
    /\ \/ WaitSignaled(p)
       \/ p \in Coroutine /\ WaitNew(p)
       \/ p \in Thread /\ WaitThread(p)
    /\ UNCHANGED timer
    /\ asked' = asked \cup {p}
    /\ UNCHANGED <<wg, fresh, todo, last>>

Returned(p) == p \in asked /\ pc[p] = "idle"

(* Whoever waited has returned: the next round begins.                     *)
NextRound ==
    /\ asked # {} /\ \A p \in asked : Returned(p)
    /\ todo = {}
    /\ asked' = {}
    /\ fresh' = Worker
    /\ UNCHANGED <<vars, wg, todo, last>>

Inside ==
    /\ \/ \E c \in Coroutine : CoroutineStep(c) \/ Dispatch(c) \/ (c \notin last /\ Leave(c))
       \/ \E t \in Thread : ThreadStep(t)
       \/ \E s \in Sched : SchedStep(s)
    /\ UNCHANGED group

WgNext ==
    \/ \E p \in Waiter : wait(p) \/ \E S \in Batches : add(p, S)
    \/ \E p \in Worker : done(p) \/ signal(p)
    \/ NextRound
    \/ Inside

WgSpec == WgInit /\ [][WgNext]_allVars

(* As in Event; a worker that was added is run and calls done().           *)
WgFairness ==
    /\ Fairness
    /\ \A c \in Worker \cap Coroutine : SF_vars(c \in todo /\ Dispatch(c))
    /\ \A p \in Worker : SF_allVars(done(p)) /\ WF_allVars(signal(p))

WgFairSpec == WgSpec /\ WgFairness

-----------------------------------------------------------------------------
(* wait() returns only when the counter has become 0, in every round.      *)
WaitCoversAll == \A p \in Waiter : Returned(p) => wg = 0 /\ todo = {}

(* wait() returns when the workers are done, whoever comes first.          *)
WaitReturns == \A p \in Waiter : p \in asked ~> Returned(p)
=============================================================================
