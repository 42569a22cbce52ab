------------------------------ MODULE MCEvent ------------------------------
(***************************************************************************)
(* Instances of Event and WaitGroup for TLC.  In MCSpec a behaviour is one *)
(* of a wait group; of a manual-reset event that only the threads and c1   *)
(* use, with timeouts; or of an event everybody uses without them.         *)
(***************************************************************************)
EXTENDS WaitGroup

CONSTANTS c1, s1, s2, w3

VARIABLE part

(* c1 has a scheduler to itself, all others share one.                     *)
MCSchedOf == [c \in Coroutine |-> IF c = c1 THEN s1 ELSE s2]

MCInit ==
    \/ part = "group" /\ WgInit
    \/ part = "timed" /\ Init /\ manualReset /\ GroupIdle
    \/ part = "untimed" /\ Init /\ GroupIdle

OthersRest == \A s \in Sched : running'[s] \in {c1, None}

(* Without timeouts no more waitx_t than coroutines are ever in use.       *)
NoTimeouts ==
    /\ ~ \E t \in Thread : SpuriousWakeup(t)
    /\ timer' = {} /\ state'[w3] = "free"

MCNext ==
    /\ UNCHANGED part
    /\ \/ part = "group" /\ WgNext
       \/ part = "timed" /\ Next /\ OthersRest /\ UNCHANGED group
       \/ part = "untimed" /\ Next /\ NoTimeouts /\ UNCHANGED group

(* The event's parts have no worker to be fair to.                         *)
MCSpec == MCInit /\ [][MCNext]_<<allVars, part>> /\ WgFairness

(* Timeouts leave a waitx_t behind and make threads return for nothing:    *)
(* what follows is said of events that nobody waits for with a timeout.    *)

(* No coroutine sleeps for good in wait(), and wait() returns true only to *)
(* those who were waiting when a signal came.                              *)
WakeupsSignaled == part = "untimed" => SuspendedCanWake /\ TrueOnlyIfSignaled

(* signal() marks the event or makes somebody new return true.             *)
NoSignalLost == [][part = "untimed" => SignalAnswered]_vars

(* A waiter is resumed once, and its waitx_t is freed by the last who uses *)
(* it and by nobody before: see Event.                                     *)
ResumedAndFreedOnce == WokenOnce /\ HeapSafe

(* Whoever waits on an event with a timeout or is found waiting by a       *)
(* signal returns, and so does who waits for a group: see Event and        *)
(* WaitGroup.                                                              *)
WaitsReturn == WaitsEnd /\ WaitReturns

EventSpec ==
    /\ Init /\ GroupIdle /\ part = "timed"
    /\ [][Next /\ UNCHANGED <<group, part>>]_<<allVars, part>>
=============================================================================
